------------------------------ MODULE MCBrowser -----------------------------
(* TLC instance of the browser's modules.  They share no variables: a        *)
(* behaviour is one of the part it starts with, so that one run adds their   *)
(* state spaces and never multiplies them.                                   *)
EXTENDS WindowLoads, Windows, Cameras, ApiCache, ClientPrefetch, Profiles, Soundings,
        Layers, Timeline, TimelineCases, ConfigEditor, ConfigDraft, DerivedLayers,
        Legends, StationFilter, Allocation, Colours, Offers, FileChoice,
        Observations, Keyboard

CONSTANTS
    Parts,      \* the parts this run explores
    w1, w2      \* the windows of the loads part

VARIABLE part
browserVars == <<part, ldVars, wnVars, cmVars, acVars, pfVars, pnVars, snVars, lyVars, tlVars, tcVars,
                 ceVars, cdVars, dcVars, lgVars, ftVars, obVars, kbVars>>

MCVisible == <<w1, w2>>
MCTwo == <<1, 2>>
MCLayouts == [l \in {"1x1", "1x2", "2x2"} |-> CASE l = "1x1" -> 1 [] l = "1x2" -> 2 [] l = "2x2" -> 4]
\* Names the operator types for a colormap: one of the two there are, and a new one.
MCNames == {<<8>>, <<9>>}

MCSpots == {<<"p", 1>>, <<"p", 2>>}

\* The day of the slider's files and the day of the tabulated cases.
SliderDay == Epoch + 1440
MCListings == {<<SliderDay + 120, SliderDay + 300, SliderDay + 480, SliderDay + 840>>,
               <<SliderDay + 120>>}
MCMoments == {SliderDay + 360, SliderDay + 840}
MCFileTimes == {Epoch + 120, Epoch + 300, Epoch + 480, Epoch + 495, Epoch + 660, Epoch + 840}

\* Names, with the fragments the code looks for in them.
MCMarks ==
    [n \in {NoName, "palette:1", "palette:2"} |-> {"^palette"} \ IF n = NoName THEN {"^palette"} ELSE {}]
    @@ [n \in {"RH", "WIND", "DTD", "CTT", "DUST", "VIL", "HGT", "SLP", "CAPE", "SST", "QPE", "VIS", "HAZARDS",
               "RADAR", "PROBABILITY", "SNOW", "RAIN", "ALBEDO"} |-> {n, IF n = "SNOW" THEN "^SNOW"
                 ELSE IF n = "HAZARDS" THEN "HAZARD" ELSE IF n = "VIS" THEN "^VIS"
                 ELSE IF n = "PROBABILITY" THEN "PROB" ELSE n}]
    @@ ("TMP" :> {"TMP", "^T", "^TMP"}) @@ ("T_VAR" :> {"T_VAR", "VAR", "^T"})
    @@ ("SLP_VAR" :> {"SLP", "VAR"}) @@ ("VARIANCE" :> {"VARIANCE", "VAR"})
    @@ ("RAIN24" :> {"RAIN", "^RAIN"}) @@ ("SNOW24" :> {"SNOW", "^SNOW"}) @@ ("ASNOW" :> {"SNOW"})
    @@ ("HEAVY_RAINFALL" :> {"RAIN", "HEAVY_RAIN"}) @@ ("PRECIPITATION_TYPE" :> {"PRECIPITATION_TYPE", "^PRECIP"})
    @@ ("PRECIP_TYPE" :> {"PRECIP_TYPE", "^PRECIP"}) @@ ("T-VARIATION-24H" :> {"T-VAR", "VAR", "^T"})
    @@ ("VARIANCE/TMP" :> {"VARIANCE", "VAR", "TMP", "^TMP"}) @@ ("VARIANCE/RH" :> {"VARIANCE", "VAR", "RH"})
    @@ ("PROBABILITY/RAIN24" :> {"PROB", "RAIN", "^RAIN"}) @@ ("AMV/IR1" :> {"IR1"}) @@ ("CTT/FY2G" :> {"CTT"})
    @@ ("K_INDEX" :> {"^K_INDEX"}) @@ ("WIND_100M" :> {"WIND", "^WIND"}) @@ ("TDPRODUCT/MVIL" :> {"VIL"})
    @@ ("TDPRODUCT/MCR" :> {"MCR"}) @@ ("QPE60" :> {"QPE"}) @@ ("CIN/SURFACE" :> {"CIN"}) @@ ("TCW" :> {})
    @@ ("TDMOSAIC" :> {"TDMOSAIC", "^TD"})
    @@ ("T1000" :> {"T#"}) @@ ("TD2M" :> {"^TD"})
    @@ [n \in {"TD", "UV", "10M_WIND", "VVEL", "DIV", "VOR", "AQI", "CO", "PM10", "Q", "VAPOR", "ET", "REF", "CIN"}
            |-> {}]
    @@ [n \in {"CUSTOM"} \cup DOMAIN WeatherStops \cup DOMAIN IndexStops \cup DOMAIN ProductStops |-> {}]

MCOwn == ("palette:1" :> <<0, 100, 200, 200>>) @@ ("palette:2" :> <<0, 1, 500>>)
MCPairs == {<<"SNOW24", "SNOW">>, <<"ASNOW", "SNOW">>, <<"RAIN24", "RAIN">>, <<"HEAVY_RAINFALL", "HAZARDS">>,
            <<"PRECIPITATION_TYPE", "PRECIP_TYPE">>, <<"PROBABILITY/RAIN24", "PROBABILITY">>,
            <<"T-VARIATION-24H", "T_VAR">>, <<"VARIANCE/RH", "VARIANCE">>, <<"VARIANCE/TMP", "VARIANCE">>,
            <<"AMV/IR1", "WIND">>, <<"CTT/FY2G", "CTT">>, <<"K_INDEX", "CAPE">>, <<"WIND_100M", "WIND">>,
            <<"TDPRODUCT/MVIL", "VIL">>, <<"TDPRODUCT/MCR", "RADAR">>, <<"QPE60", "QPE">>,
            <<"CIN/SURFACE", "CAPE">>, <<"TCW", "TCWV">>, <<"TDMOSAIC", "RADAR">>, <<"VIS", "TMP">>}
MCFile(about, marks) == [about |-> about, marks |-> marks]
MCFiles ==
    [TMP |-> {MCFile("TMP", {"temp"}), MCFile("DTD", {"t-td", "td"}), MCFile("TD", {"td"}), MCFile("any", {})},
     RAIN |-> {MCFile("RAIN", {"rain"}), MCFile("RAIN", {"rain", "snow"}), MCFile("any", {})},
     PRS_HGT |-> {MCFile("SLP", {"slp"}), MCFile("HGT", {"hgt"}), MCFile("DIV", {"div"}), MCFile("VOR", {"vor"}),
                  MCFile("any", {})},
     WIND |-> {MCFile("VVEL", {"vvel"}), MCFile("WIND", {}), MCFile("any", {})},
     ENV_VIS |-> {MCFile("VIS", {"vis"}), MCFile("AQI", {"aqi", "pollutant"}), MCFile("PM10", {"pm10", "pollutant"}),
                  MCFile("CO", {"co", "pollutant"}), MCFile("any", {})},
     RH |-> {MCFile("RH", {}), MCFile("Q", {"q"}), MCFile("VAPOR", {"vapor"})},
     RADAR |-> {MCFile("REF", {"ref"}), MCFile("VIL", {"vil"}), MCFile("QPE", {"qpe"}), MCFile("ET", {"et"})},
     STABILITY |-> {MCFile("K_INDEX", {"k"}), MCFile("CAPE", {"cape"})}]
MCQuantity ==
    [TMP |-> "TMP", TD |-> "TD", DTD |-> "DTD", RAIN24 |-> "RAIN", SNOW24 |-> "RAIN", DIV |-> "DIV", VOR |-> "VOR",
     SLP |-> "SLP", HGT |-> "HGT", VIS |-> "VIS", AQI |-> "AQI", CO |-> "CO", PM10 |-> "PM10", Q |-> "Q", RH |-> "RH",
     VAPOR |-> "VAPOR", QPE |-> "QPE", VIL |-> "VIL", ET |-> "ET", REF |-> "REF", RADAR |-> "REF", VVEL |-> "VVEL",
     WIND |-> "WIND", UV |-> "WIND", CAPE |-> "CAPE", CIN |-> "CAPE", K_INDEX |-> "K_INDEX", T1000 |-> "TMP",
     TD2M |-> "TD", TDMOSAIC |-> "REF"] @@ ("10M_WIND" :> "WIND")

MCScale(el, cm, values) == [el |-> el, cm |-> cm, values |-> values]
MCScales ==
    {MCScale("TMP", NoName, {-500, -400, -35, 185, 400, 450}), MCScale("TMP", "palette:1", {-10, 0, 60, 200, 300}),
     MCScale("RAIN24", NoName, {0, 1, 5, 300, 2500, 3000}), MCScale("RAIN24", "palette:2", {0, 1, 20, 60}),
     MCScale("SNOW24", "SNOW", {0, 1, 60, 600}), MCScale("CAPE", NoName, {-10, 0, 15000, 24000, 40000, 40010, 50000}),
     MCScale("HGT", NoName, {1400, 5000, 5900, 7000, 14000, 24900, 25100, 31000, 58800}),
     MCScale("SLP", NoName, {9800, 10130, 10400}), MCScale("SST", NoName, {0, 100, 290, 360, 400}),
     MCScale("T-VARIATION-24H", "T_VAR", {-200, -30, 0, 160}), MCScale("ALBEDO", NoName, {0, 3, 7, 10, 50, 900}),
     MCScale("VARIANCE/RH", "VARIANCE", {0, 5, 250, 300}), MCScale("TDPRODUCT/MCR", "RADAR", {-50, 220, 700, 750}),
     MCScale("CAPE", "palette:1", {0, 50, 200, 220}),
     MCScale("HGT", "palette:1", {0, 50, 200, 220}), MCScale("ALBEDO", "palette:2", {0, 3, 10, 50})}

\* Products the configuration ships, one of each kind: the fragments of its id and of its names, and its layers.
MCLayer(model, type, words) == [model |-> model, type |-> type, words |-> words]
MCProduct(id, category, obs, levelled, default, levels, unit, en, zh, layers) ==
    [id |-> id, category |-> category, isObservation |-> obs, hasLevel |-> levelled, defaultLevel |-> default,
     nameLevel |-> default, levels |-> levels, unit |-> unit, names |-> [en |-> en, zh |-> zh], layers |-> layers]
MCEcmwf(type) == {MCLayer("ECMWF_HR", type, {})}
MCProducts == [
    surface |-> MCProduct({"surface"}, "Surface Observations", TRUE, FALSE, 0, {}, "hPa", {"Surface"}, {"Surface"},
        {MCLayer("SURFACE", "station", {"^surface-obs"}), MCLayer("SURFACE", "contour", {"^contour-surface-"})}),
    upperair |-> MCProduct({"upper", "^composite-upperair"}, "Upper-Air Observations", TRUE, TRUE, 500, {}, "hPa",
        {"hPa", "Upper"}, {"hPa", "Upper"}, {MCLayer("UPPER_AIR", "station", {"^upperair-"})}),
    tlogp |-> MCProduct({"tlogp"}, "TlogP Observation", TRUE, FALSE, 0, {}, "hPa", {}, {},
        {MCLayer("UPPER_AIR", "tlogp", {"TLOGP", "^upperair-"})}),
    hgt500 |-> MCProduct({}, "NWP Synoptic", FALSE, TRUE, 500, {}, "hPa", {"hPa"}, {"hPa"}, MCEcmwf("contour")),
    jet200 |-> MCProduct({}, "NWP Synoptic", FALSE, TRUE, 200, {}, "hPa", {"hPa"}, {"hPa", "Upper"}, MCEcmwf("wind")),
    rain12 |-> MCProduct({}, "NWP Synoptic Rain", FALSE, FALSE, 0, {}, "hPa", {}, {}, MCEcmwf("contour")),
    timeheight |-> MCProduct({"timeheight", "composite-ec-timeheight"}, "Profile", FALSE, FALSE, 0, {}, "hPa", {}, {},
        MCEcmwf("timeheight")),
    lineheight |-> MCProduct({"lineheight"}, "Profile", FALSE, FALSE, 0, {}, "hPa", {}, {}, MCEcmwf("lineheight")),
    hovmoller |-> MCProduct({"hovmoller", "composite-ec-hovmoller"}, "Profile", FALSE, FALSE, 0, {}, "hPa", {}, {},
        MCEcmwf("hovmoller")),
    motion |-> MCProduct({"radar"}, "Multi-Time Recipes", TRUE, FALSE, 0, {}, "hPa", {"Surface"}, {"Radar"},
        {MCLayer("SURFACE", "station", {"^surface-obs"})}),
    kindex |-> MCProduct({}, "Upper-Air Observations", TRUE, FALSE, 0, {}, "hPa", {}, {},
        {MCLayer("UPPER_AIR", "contour", {})}),
    sounding24 |-> MCProduct({}, "Derived Diagnostics", TRUE, TRUE, 0, {}, "hPa", {"hPa"}, {"hPa"},
        {MCLayer("UPPER_AIR", "contour", {})}),
    sfc24 |-> MCProduct({}, "Derived Diagnostics", FALSE, FALSE, 0, {}, "hPa", {"Surface"}, {"Surface"},
        MCEcmwf("contour")),
    pvort |-> MCProduct({}, "NWP", FALSE, TRUE, 500, {10, 20, 100, 500, 1000}, "hPa", {}, {}, MCEcmwf("contour")),
    sst |-> MCProduct({}, "NWP", FALSE, FALSE, 0, {}, "hPa", {"Surface"}, {}, MCEcmwf("contour")),
    reflmax |-> MCProduct({"radar"}, "Severe", FALSE, FALSE, 0, {}, "hPa", {"Radar"}, {"Radar"},
        {MCLayer("GRAPES_3KM", "contour", {"RADAR"})}),
    cldas |-> MCProduct({}, "Land", TRUE, FALSE, 0, {}, "hPa", {}, {}, {MCLayer("CLDAS", "contour", {})}),
    fy4b |-> MCProduct({"fy4", "FY"}, "Satellite", TRUE, TRUE, 12, 1..15, "channel", {"FY"}, {},
        {MCLayer("SATELLITE", "contour", {"FY"})}),
    amv |-> MCProduct({"FY"}, "Satellite", TRUE, TRUE, 200, {200, 300, 500, 700, 850}, "hPa", {}, {},
        {MCLayer("SATELLITE", "station", {"FY"})}),
    tdmosaic |-> MCProduct({"swan", "tdmosaic"}, "Severe", TRUE, TRUE, 500, {500, 1000, 1500, 15500, 19000}, "metres",
        {}, {}, {MCLayer("SWAN_PRODUCT", "contour", {})}),
    mcr |-> MCProduct({"swan"}, "Severe", TRUE, FALSE, 0, {}, "hPa", {}, {}, {MCLayer("SWAN_PRODUCT", "contour", {})})]
MCLocales == {"en", "zh"}

MCArrivals == [upper |-> <<Epoch + 480, Epoch + 1200, Epoch + 1920>>,
               surface |-> <<Epoch + 480>>, alone |-> <<Epoch + 480, Epoch + 1200>>]
MCPast == [upper |-> <<Epoch - 960, Epoch - 240>>, surface |-> <<Epoch - 420, Epoch - 240>>,
           alone |-> <<Epoch - 960, Epoch - 240>>]
MCRuns == {2408, 2414, 2420, 2432, 2444}
MCScans == {Epoch + 120, Epoch + 480, Epoch + 495, Epoch + 660, Epoch + 840, Epoch + 1200}

\* Two categories of presets, with levels of their own, no level, and the level shown; what is typed in the palette
\* matches more than is shown, one preset, or nothing.
MCGroup(id, category, level, flat) ==
    [id |-> id, category |-> category, level |-> level, flat |-> flat, divider |-> FALSE]
MCGroups == <<MCGroup("p1", "upper", 500, FALSE), [MCGroup("-", "-", 0, FALSE) EXCEPT !.divider = TRUE],
              MCGroup("p2", "gridded", 0, FALSE), MCGroup("p3", "upper", 0, TRUE)>>
MCPinned == <<"p1">>
MCMatches == [q \in {"", "p", "x"} |-> CASE q = "" -> <<"config", "help", "p1", "p2">> [] q = "p" -> <<"p2">>
                                         [] q = "x" -> <<>>]

\* The state of a part a behaviour is not of.
Unused == "idle"

BrowserInit ==
    /\ part \in Parts
    /\ IF part = "loads" THEN LdInit
       ELSE /\ ldFocus = Unused /\ ldMode = Unused /\ ldAnchor = Unused /\ ldAuto = Unused
            /\ ldWin = Unused /\ ldRefresh = Unused /\ ldShown = Unused /\ ldGen = Unused
            /\ ldRuns = Unused /\ ldCalls = Unused /\ ldHole = Unused /\ ldMixed = Unused
    /\ IF part = "windows" THEN WnInit
       ELSE /\ wnTab = Unused /\ wnHeld = Unused /\ wnLoading = Unused /\ wnDeal = Unused
            /\ wnGone = Unused /\ wnLate = Unused /\ wnOps = Unused
    /\ IF part = "cameras" THEN CmInit
       ELSE /\ cmSplit = Unused /\ cmSync = Unused /\ cmShown = Unused /\ cmActive = Unused
            /\ cmAt = Unused /\ cmDark = Unused /\ cmFrames = Unused /\ cmAlign = Unused
            /\ cmMissed = Unused /\ cmMoves = Unused /\ cmRuns = Unused /\ cmViews = Unused
    /\ IF part = "cache" THEN AcInit
       ELSE /\ acCache = Unused /\ acFlight = Unused /\ acFetches = Unused /\ acJoined = Unused
            /\ acWarm = Unused /\ acNow = Unused /\ acAnswer = Unused /\ acBypassed = Unused
            /\ acTwice = Unused /\ acRequests = Unused /\ acWarms = Unused
    /\ IF part = "prefetch" THEN PfInit
       ELSE /\ pfAt = Unused /\ pfLast = Unused /\ pfHint = Unused /\ pfTimer = Unused /\ pfGen = Unused
            /\ pfLoads = Unused /\ pfDone = Unused /\ pfClosed = Unused /\ pfLate = Unused
            /\ pfSteps = Unused
    /\ IF part = "profiles" THEN PnInit(PnKinds)
       ELSE /\ panelKind = Unused /\ pn = Unused /\ pnCalls = Unused /\ pnFocus = Unused
            /\ pnEditor = Unused /\ pnOps = Unused
    /\ IF part = "soundings" THEN SnInit
       ELSE /\ sn = Unused /\ snLayer = Unused /\ snCalls = Unused /\ snFocus = Unused /\ snOps = Unused
            /\ snGhost = Unused
    /\ IF part = "layers" THEN LyInit
       ELSE /\ lyStore = Unused /\ lyStops = Unused /\ lyDrawn = Unused /\ lyLegend = Unused
            /\ lyView = Unused /\ lyRender = Unused /\ lySeq = Unused /\ lyPick = Unused
            /\ lyJobs = Unused /\ lyAsked = Unused /\ lyOdd = Unused /\ lyOps = Unused
    /\ IF part = "timeline" THEN TlInit
       ELSE /\ tl = Unused /\ tlRain = Unused /\ tlWinPeriod = Unused /\ tlAsked = Unused
            /\ playing = Unused /\ playTimer = Unused /\ intervals = Unused /\ sliderShown = Unused
            /\ edits = Unused
    /\ IF part = "editor" THEN CeInit
       ELSE /\ ce = Unused /\ ceServer = Unused /\ ceSaves = Unused /\ ceLoads = Unused
            /\ ceTimer = Unused /\ ceCount = Unused /\ ceOdd = Unused
    /\ IF part = "draft" THEN CdInit
       ELSE /\ cd = Unused /\ cdEdits = Unused /\ cdOdd = Unused
    /\ IF part = "derived" THEN DcInit
       ELSE /\ dc = Unused /\ dcLoads = Unused /\ dcFetches = Unused /\ dcGhost = Unused
            /\ dcCount = Unused /\ dcOdd = Unused
    /\ IF part = "legends" THEN LgInit
       ELSE /\ lgLayers = Unused /\ lgEntries = Unused /\ lgLate = Unused /\ lgCount = Unused
            /\ lgOdd = Unused
    /\ IF part = "filter" THEN FtInitFrom(FtPresets)
       ELSE /\ ftPreset = Unused /\ ftStore = Unused /\ ftEnsured = Unused /\ ftEntry = Unused
            /\ ftFall = Unused /\ ftSnap = Unused /\ ftPhase = Unused /\ ftPanel = Unused
            /\ ftFocus = Unused /\ ftCount = Unused /\ ftOdd = Unused
    /\ IF part = "observed" THEN ObInit
       ELSE /\ obWin = Unused /\ obDirs = Unused /\ obKept = Unused
            /\ obCount = Unused /\ obOdd = Unused
    /\ IF part = "keys" THEN KbInit
       ELSE /\ kbMenu = Unused /\ kbNav = Unused /\ kbPalette = Unused /\ kbDialogs = Unused
            /\ kbFocus = Unused /\ kbPrefs = Unused /\ kbMap = Unused /\ kbLast = Unused
            /\ kbCount = Unused
    /\ IF part = "cases" THEN TcInit \/ AlInit \/ CoInit \/ OfInit \/ FcInit ELSE case = NoCase

\* The cases are initial states: nothing happens in that part.
BrowserNext ==
    /\ part # "cases"
    /\ UNCHANGED <<part, tcVars>>
    /\ IF part = "loads" THEN TRUE ELSE UNCHANGED ldVars
    /\ IF part = "windows" THEN TRUE ELSE UNCHANGED wnVars
    /\ IF part = "cameras" THEN TRUE ELSE UNCHANGED cmVars
    /\ IF part = "cache" THEN TRUE ELSE UNCHANGED acVars
    /\ IF part = "prefetch" THEN TRUE ELSE UNCHANGED pfVars
    /\ IF part = "profiles" THEN TRUE ELSE UNCHANGED pnVars
    /\ IF part = "soundings" THEN TRUE ELSE UNCHANGED snVars
    /\ IF part = "layers" THEN TRUE ELSE UNCHANGED lyVars
    /\ IF part = "timeline" THEN TRUE ELSE UNCHANGED tlVars
    /\ IF part = "editor" THEN TRUE ELSE UNCHANGED ceVars
    /\ IF part = "draft" THEN TRUE ELSE UNCHANGED cdVars
    /\ IF part = "derived" THEN TRUE ELSE UNCHANGED dcVars
    /\ IF part = "legends" THEN TRUE ELSE UNCHANGED lgVars
    /\ IF part = "filter" THEN TRUE ELSE UNCHANGED ftVars
    /\ IF part = "observed" THEN TRUE ELSE UNCHANGED obVars
    /\ IF part = "keys" THEN TRUE ELSE UNCHANGED kbVars
    /\ CASE part = "loads" -> LdNext
         [] part = "windows" -> WnNext
         [] part = "cameras" -> CmNext
         [] part = "cache" -> AcNext
         [] part = "prefetch" -> PfNext
         [] part = "profiles" -> PnNext
         [] part = "soundings" -> SnNext
         [] part = "layers" -> LyNext
         [] part = "timeline" -> TlNext
         [] part = "editor" -> CeNext
         [] part = "draft" -> CdNext
         [] part = "derived" -> DcNext
         [] part = "legends" -> LgNext
         [] part = "filter" -> FtNext
         [] part = "observed" -> ObNext
         [] part = "keys" -> KbNext

BrowserSpec == BrowserInit /\ [][BrowserNext]_browserVars

-----------------------------------------------------------------------------
\* Every part's state has its types.
BrowserTypeOK ==
    CASE part = "loads" -> LdTypeOK
      [] part = "windows" -> WnTypeOK
      [] part = "cameras" -> CmTypeOK
      [] part = "cache" -> AcTypeOK
      [] part = "prefetch" -> PfTypeOK
      [] part = "profiles" -> PnTypeOK
      [] part = "soundings" -> SnTypeOK
      [] part = "layers" -> LyTypeOK
      [] part = "timeline" -> TlTypeOK
      [] part = "editor" -> CeTypeOK
      [] part = "draft" -> CdTypeOK
      [] part = "derived" -> DcTypeOK
      [] part = "legends" -> LgTypeOK
      [] part = "filter" -> FtTypeOK
      [] part = "observed" -> ObTypeOK
      [] part = "keys" -> KbTypeOK
      [] part = "cases" -> case # NoCase

\* The loads of the windows (loadSeq, _sweepGen, _forecastRefreshSeq): at rest
\* every window shows what it is set to, and the windows of a split keep step.
LoadsSound == part = "loads" => IntentShown /\ SweepsCover

\* What a step may never do: a tick of the playback that stays where it is or
\* leaves the loop (stepWindowTimeline), a change of the windows that clobbers or
\* removes one that is not part of it (prepareSplitWindows and its like).
StepsSound == [][/\ part = "timeline" => TicksMoveOn
                 /\ part = "windows" => BusyStays]_browserVars

\* The slider (TimeSlider.svelte, timelineMath.js, timeResolver.js): the chip that
\* is highlighted is the one whose data was asked for, one interval fires while
\* it plays, and a window of observations shows those of its time
\* (presetLoader.js).
TimelineSound == /\ part = "timeline" => AskedIsShown /\ OneTicker
                 /\ part = "observed" => ObservationsSound

\* The tabs and windows (tabsCore.js, windowMaps.js): their resources are those of
\* the windows there are, and the maps of a split show the same view.
TabsSound == /\ part = "windows" => WindowsSound
             /\ part = "cameras" => CamerasSound

\* What is fetched (apiClient.js, prefetchService.js): an answer is that of its
\* URL, and a prefetch is for the place the operator is at.
FetchesSound == /\ part = "cache" => ClientCacheSound
                /\ part = "prefetch" => PrefetchSound

\* The floating panels (the profile controllers, tlogpController.js): a panel
\* shows the section or the sounding its header tells of, and one panel is on
\* the screen, that of the window looked at.
PanelsSound == /\ part = "profiles" => ProfilesSound
               /\ part = "soundings" => SoundingsSound

\* The layers (configActions.js, visibilityActions.js, derivedContours.js): the
\* map shows what the boxes of a gridded layer say, and the contours derived from
\* soundings are those the operator has and of the level and time he is at, and
\* the legends (legendCore.js) are those of the shaded layers that are shown; the
\* stations drawn are those their filter lets through (stationFilter.js).
DisplaySound == /\ part = "layers" => LayersSound
                /\ part = "derived" => DerivedLayersSound
                /\ part = "legends" => LegendsSound
                /\ part = "filter" => StationFilterSound

\* What is chosen, by the program or the operator: the chips, samples and files of
\* a moment (timelineMath.js, timeResolver.js, weatherLoader.js), what the windows
\* of a split differ in and what is offered for a product (App.svelte,
\* TabsBar.svelte, NavBar.svelte), the colours, legends, levels and palettes of a
\* field, which go together (colormaps.js, paletteLoader.js), and what the menus,
\* dialogs and keys pick (PresetMenu.svelte, CommandPalette.svelte); and, in the forms
\* of the configuration (PresetForm.svelte, ColormapForm.svelte, configSchema.js), only
\* the named edits make a draft that cannot be saved, and what it names is there.
ChoicesSound == /\ part = "cases" => /\ ChipsFaithful /\ ResolutionSound /\ FileChoiceSound
                                     /\ AllocationSound /\ OffersSound /\ ColoursSound
                /\ part = "keys" => KeyboardSound
                /\ part = "draft" => ConfigDraftSound

\* The configuration editor (ConfigEditor.svelte, formState.js, presets.js): no
\* edit is lost, and the draft, what runs and what the server holds agree once
\* all is saved, but for the orders that are named.
EditorSound == part = "editor" => ConfigEditorSound
=============================================================================
