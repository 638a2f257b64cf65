-------------------------------- MODULE Layers --------------------------------
(***************************************************************************)
(* One gridded layer of one window, from the layer store to the map: the   *)
(* eye, the fill and raster boxes, the palette picker and the bin of the   *)
(* layer panel (ui/layers), the loads a time step starts                   *)
(* (weatherLoader.js), the overlays drawn on demand (overlayTriggers.js)   *)
(* and the debounced re-rendering of large grids after the map has moved   *)
(* (contourReRender.js).                                                   *)
(*                                                                         *)
(* The panel edits a Svelte copy of the stored layer.  Work that is        *)
(* finished later - a palette or a field that was asked for - carries the  *)
(* copy as it was when the work began.  Lines are always wanted.  The      *)
(* window's times are numbered by win.loadSeq; a layer's file is the time  *)
(* of its field.                                                           *)
(***************************************************************************)
EXTENDS Naturals, FiniteSets

CONSTANTS
    LyPalettes,  \* the palette files an operator picks from
    LyViews,     \* the viewports the map is moved to, none inside another's fill box
    LyMaxOps     \* bound on what the operator does

ASSUME LyMaxOpsAssumption == LyMaxOps \in Nat

Builtin == "builtin"     \* config.palettePath = null: the element's own colours
Nothing == "nothing"     \* no legend, no fill, no viewport
Gone == [gone |-> TRUE]  \* no layer
Colours == LyPalettes \cup {Builtin}

Layer == [vis : BOOLEAN, fill : BOOLEAN, raster : BOOLEAN, pal : Colours, data : BOOLEAN,
          file : Nat]
Job == [kind : {"palette", "load", "eye", "fill", "raster"}, seq : Nat, of : Layer]

VARIABLES
    lyStore,    \* the layer in windowLayersMap, or Gone
    lyStops,    \* the palette whose stops COLORMAPS holds for this layer
    lyDrawn,    \* what the map shows of the layer
    lyLegend,   \* the colours of its legend, or Nothing
    lyView,     \* the map's viewport
    lyRender,   \* contourReRender.js's maps, timers and callbacks for this layer
    lySeq,      \* win.loadSeq
    lyPick,     \* paletteSeq of this layer
    lyJobs,     \* loads that have been started and not finished
    lyAsked,    \* what the operator last asked for (history)
    lyOdd,      \* the documented races and slips that have happened (history)
    lyOps

lyVars == <<lyStore, lyStops, lyDrawn, lyLegend, lyView, lyRender, lySeq, lyPick, lyJobs,
            lyAsked, lyOdd, lyOps>>

Clean == [bands |-> Nothing, at |-> Nothing, bandsOn |-> FALSE, lines |-> FALSE, image |-> 0, imageOn |-> FALSE]
Unarmed(r) == [r EXCEPT !.armed = FALSE, !.timer = 0, !.busy = FALSE, !.pending = FALSE,
                        !.noted = Nothing, !.covered = Nothing]
Armed(r) == [Unarmed(r) EXCEPT !.armed = TRUE, !.noted = lyView, !.covered = lyView]

Shaded(l) == l.vis /\ (l.fill \/ l.raster)
Shade(l, stops) == IF l.pal = Builtin THEN Builtin ELSE stops
LegendOf(l, stops) == IF Shaded(l) THEN Shade(l, stops) ELSE Nothing

(* renderContourLayers: the fill is computed for the viewport, or emptied.  *)
Contoured(d, l, stops) ==
    [d EXCEPT !.bands = IF l.vis /\ l.fill THEN Shade(l, stops) ELSE Nothing,
              !.at = IF l.vis /\ l.fill THEN lyView ELSE Nothing,
              !.bandsOn = l.vis /\ l.fill, !.lines = l.vis]
(* renderGridRaster: the image of the field of l, numbered from 1.          *)
Imaged(d, l) == [d EXCEPT !.image = l.file + 1, !.imageOn = TRUE]
Strayed(odd, d, r) ==
    IF d.at \in {lyView, Nothing} /\ r.noted = lyView /\ r.covered = lyView THEN odd \ {"strayed"} ELSE odd
-------------------------------------------------------------------------------
LyInit ==
    LET first == [vis |-> TRUE, fill |-> TRUE, raster |-> FALSE, pal |-> Builtin, data |-> TRUE,
                  file |-> 0]
        view == CHOOSE v \in LyViews : TRUE
    IN  /\ lyStore = first /\ lyAsked = first /\ lyStops = Builtin
        /\ lyDrawn = [Clean EXCEPT !.bands = Builtin, !.at = view, !.bandsOn = TRUE, !.lines = TRUE]
        /\ lyLegend = Builtin /\ lyView = view
        /\ lyRender = [armed |-> TRUE, timer |-> 0, waiting |-> FALSE, idle |-> {}, computing |-> {},
                       busy |-> FALSE, pending |-> FALSE, noted |-> view, covered |-> view]
        /\ lySeq = 0 /\ lyPick = 0 /\ lyJobs = {} /\ lyOdd = {} /\ lyOps = 0

Act == lyOps < LyMaxOps /\ lyOps' = lyOps + 1
Present == lyStore # Gone
NowAsked(a) == lyAsked' = IF lyAsked = Gone THEN Gone ELSE a   \* an outdated load may bring a layer back
Started(kind, seq, l) == lyJobs' = lyJobs \cup {[kind |-> kind, seq |-> seq, of |-> l]}
Resting == /\ lyRender.timer = 0 /\ ~lyRender.waiting
           /\ lyRender.idle = {} /\ lyRender.computing = {}
Interrupted == IF Resting THEN {} ELSE {"strayed"}
Reused(l) == IF l.vis /\ l.raster /\ lyDrawn.image \notin {0, lySeq + 1} THEN {"reused"} ELSE {}
Doubled(l) == IF l.fill /\ l.raster THEN {"both"} ELSE {}

(* triggerIsobandOverlay of the copy l.  A fill that is there is shown; one *)
(* that is not is computed, once the palette file has been read.            *)
FillOverlay(l) ==
    IF l.pal # Builtin \/ ~l.data
    THEN Started("fill", 0, l) /\ UNCHANGED <<lyDrawn, lyRender>>
    ELSE /\ UNCHANGED lyJobs
         /\ lyDrawn' = IF lyDrawn.bands # Nothing
                       THEN [lyDrawn EXCEPT !.bandsOn = TRUE, !.imageOn = FALSE]
                       ELSE [Contoured(lyDrawn, l, lyStops) EXCEPT !.imageOn = FALSE]
         /\ lyRender' = IF lyDrawn.bands # Nothing THEN lyRender ELSE Armed(lyRender)

(* triggerRasterOverlay of the copy l, shown over the picture d.            *)
RasterOverlay(d, l) ==
    IF l.pal # Builtin \/ ~l.data
    THEN Started("raster", 0, l) /\ lyDrawn' = d /\ UNCHANGED lyRender
    ELSE lyDrawn' = Imaged(d, l) /\ lyRender' = Armed(lyRender) /\ UNCHANGED lyJobs
-------------------------------------------------------------------------------
(* The eye (handleVisibilityAction).  A layer whose field is not that of    *)
(* the window's time is loaded again (layerNeedsRecalc); that load is given *)
(* no sequence number, so no later step makes it outdated.                  *)
NeedsRecalc(l) == ~l.data \/ l.file # lySeq \/ (l.fill /\ lyDrawn.bands = Nothing)

Hide ==
    /\ Act /\ Present /\ lyStore.vis
    /\ lyStore' = [lyStore EXCEPT !.vis = FALSE]
    /\ NowAsked([lyAsked EXCEPT !.vis = FALSE])
    /\ lyDrawn' = [lyDrawn EXCEPT !.bandsOn = FALSE, !.lines = FALSE,
                                  !.imageOn = @ /\ ~lyStore.raster]
    /\ lyLegend' = Nothing
    /\ lyOdd' = lyOdd \cup Interrupted
    /\ UNCHANGED <<lyStops, lyView, lyRender, lySeq, lyPick, lyJobs>>

Show ==
    LET l == [lyStore EXCEPT !.vis = TRUE]
        d == [lyDrawn EXCEPT !.lines = TRUE, !.bandsOn = l.fill /\ lyDrawn.bands # Nothing]
    IN  /\ Act /\ Present /\ ~lyStore.vis
        /\ lyStore' = l
        /\ NowAsked([lyAsked EXCEPT !.vis = TRUE])
        /\ lyLegend' = LegendOf(l, lyStops)
        /\ IF NeedsRecalc(l)
           THEN /\ Started("eye", lySeq, l)
                /\ UNCHANGED <<lyDrawn, lyRender, lyOdd>>
           ELSE /\ lyOdd' = lyOdd \cup Reused(l)
                /\ IF l.raster /\ lyDrawn.image = 0 THEN RasterOverlay(d, l)
                   ELSE /\ lyDrawn' = [d EXCEPT !.imageOn = @ \/ l.raster]
                        /\ UNCHANGED <<lyRender, lyJobs>>
        /\ UNCHANGED <<lyStops, lyView, lySeq, lyPick>>

(* The boxes (handleConfigAction).  The stored layer receives the box that  *)
(* was clicked; that the other one goes off is written to the panel's copy. *)
SetFill(on) ==
    LET stored == [lyStore EXCEPT !.fill = on]
        panel == [stored EXCEPT !.raster = @ /\ ~on]
    IN  /\ Act /\ Present /\ lyStore.fill # on
        /\ lyStore' = stored
        /\ NowAsked([lyAsked EXCEPT !.fill = on, !.raster = @ /\ ~on])
        /\ lyLegend' = LegendOf(panel, lyStops)
        /\ lyOdd' = lyOdd \cup Doubled(stored) \cup Interrupted
        /\ IF on /\ panel.vis THEN FillOverlay(panel)
           ELSE /\ lyDrawn' = [lyDrawn EXCEPT !.bandsOn = @ /\ on, !.imageOn = @ /\ ~on]
                /\ UNCHANGED <<lyRender, lyJobs>>
        /\ UNCHANGED <<lyStops, lyView, lySeq, lyPick>>

SetRaster(on) ==
    LET stored == [lyStore EXCEPT !.raster = on]
        panel == [stored EXCEPT !.fill = @ /\ ~(on /\ stored.vis)]
        d == [lyDrawn EXCEPT !.bandsOn = FALSE]
    IN  /\ Act /\ Present /\ lyStore.raster # on
        /\ lyStore' = stored
        /\ NowAsked([lyAsked EXCEPT !.raster = on, !.fill = @ /\ ~(on /\ stored.vis)])
        /\ lyLegend' = LegendOf(panel, lyStops)
        /\ lyOdd' = lyOdd \cup Doubled(stored) \cup Reused(stored) \cup Interrupted
        /\ IF on /\ stored.vis
           THEN IF lyDrawn.image # 0
                THEN lyDrawn' = [d EXCEPT !.imageOn = TRUE] /\ UNCHANGED <<lyRender, lyJobs>>
                ELSE RasterOverlay(d, panel)
           ELSE lyDrawn' = [lyDrawn EXCEPT !.imageOn = FALSE] /\ UNCHANGED <<lyRender, lyJobs>>
        /\ UNCHANGED <<lyStops, lyView, lySeq, lyPick>>

(* The palette picker.  A file is read before the layer is drawn in it;     *)
(* "built-in" applies at once and does not take the number of a pick.       *)
PickPalette(p) ==
    /\ Act /\ Present
    /\ lyStore' = [lyStore EXCEPT !.pal = p]
    /\ NowAsked([lyAsked EXCEPT !.pal = p])
    /\ lyPick' = lyPick + 1
    /\ Started("palette", lyPick + 1, [lyStore EXCEPT !.pal = p])
    /\ UNCHANGED <<lyStops, lyDrawn, lyLegend, lyView, lyRender, lySeq, lyOdd>>

ResetPalette ==
    LET l == [lyStore EXCEPT !.pal = Builtin]
        d == Contoured(lyDrawn, l, Builtin)
    IN  /\ Act /\ Present /\ lyStore.pal # Builtin
        /\ lyStore' = l
        /\ NowAsked([lyAsked EXCEPT !.pal = Builtin])
        /\ IF l.data THEN /\ lyDrawn' = IF l.raster /\ l.vis THEN Imaged(d, l) ELSE d
                          /\ lyLegend' = LegendOf(l, Builtin)
                          /\ lyRender' = Armed(lyRender)
                          /\ lyOdd' = Strayed(lyOdd, d, lyRender')
                          /\ UNCHANGED lyJobs
           ELSE /\ UNCHANGED <<lyDrawn, lyLegend, lyRender, lyOdd>>
                /\ IF l.raster /\ l.vis THEN Started("raster", 0, l) ELSE UNCHANGED lyJobs
        /\ UNCHANGED <<lyStops, lyView, lySeq, lyPick>>

(* The bin: the store, the legend, the map and the re-rendering let go of   *)
(* the layer (deleteLayer, handleRemoveAction, removeContourLayer).         *)
RemoveLayer ==
    /\ Act /\ Present
    /\ lyStore' = Gone /\ lyAsked' = Gone
    /\ lyDrawn' = Clean /\ lyLegend' = Nothing
    /\ lyRender' = Unarmed(lyRender)
    /\ UNCHANGED <<lyStops, lyView, lySeq, lyPick, lyJobs, lyOdd>>

(* A time step reloads the layer as it stands now (loadWeatherField); a     *)
(* hidden layer is only emptied and disarmed.                               *)
NextTime ==
    /\ Act /\ Present /\ lySeq' = lySeq + 1
    /\ IF lyStore.vis
       THEN /\ Started("load", lySeq', [lyStore EXCEPT !.raster = @ /\ ~lyStore.fill])
            /\ UNCHANGED <<lyStore, lyDrawn, lyLegend, lyRender>>
       ELSE /\ lyStore' = [lyStore EXCEPT !.data = FALSE, !.file = lySeq', !.raster = @ /\ ~lyStore.fill]
            /\ lyDrawn' = [lyDrawn EXCEPT !.bands = Nothing, !.at = Nothing, !.bandsOn = FALSE, !.lines = FALSE]
            /\ lyLegend' = Nothing
            /\ lyRender' = Unarmed(lyRender)
            /\ UNCHANGED lyJobs
    /\ UNCHANGED <<lyStops, lyView, lyPick, lyAsked, lyOdd>>
-------------------------------------------------------------------------------
(* Mutants of Overridden: a palette that was picked before the last one     *)
(* still applies; the load of an earlier step does.                         *)
BugOverridden(j) == j.kind = "load" /\ j.seq # lySeq
BugOverriddenLoad(j) == j.kind = "palette" /\ j.seq # lyPick

(* Work whose result is dropped because a later pick, or a later step, has  *)
(* been made: the load of a time step is, that of the eye is not.           *)
Overridden(j) ==
    \/ j.kind = "palette" /\ j.seq # lyPick
    \/ j.kind = "load" /\ j.seq # lySeq

Overtaken(l) == lyAsked = Gone \/ ~(\A f \in {"vis", "fill", "raster", "pal"} : lyAsked[f] = l[f])

(* Of two picks the later one wins, whatever they were picked for; that a   *)
(* pick comes back after a reset is not prevented.                          *)
Slip(j) == IF Overtaken(IF j.kind = "palette" /\ lyAsked # Gone /\ lyAsked.pal # Builtin
                        THEN [j.of EXCEPT !.pal = lyAsked.pal] ELSE j.of)
           THEN {"overtaken"} ELSE {}

(* What is drawn is not the field of the window's time: one that nothing    *)
(* drops landed after the step, and no load has drawn over it since.        *)
Aged(odd, j) ==
    IF j.kind = "load" THEN odd \ {"older"}
    ELSE IF j.kind = "eye" /\ j.seq = lySeq THEN odd \ {"older"}
    ELSE IF (IF j.kind = "eye" THEN j.seq ELSE j.of.file) # lySeq THEN odd \cup {"older"}
    ELSE odd

PaletteArrived(l) ==
    LET d == Contoured(lyDrawn, l, l.pal)
    IN  /\ lyStops' = l.pal
        /\ lyStore' = IF Present THEN [lyStore EXCEPT !.pal = l.pal] ELSE lyStore
        /\ IF l.data THEN /\ lyDrawn' = IF l.raster /\ l.vis THEN Imaged(d, l) ELSE d
                          /\ lyLegend' = LegendOf(l, l.pal)
                          /\ lyRender' = Armed(lyRender)
           ELSE UNCHANGED <<lyDrawn, lyLegend, lyRender>>

FieldArrived(l) ==
    LET stops == IF l.pal = Builtin THEN lyStops ELSE l.pal
        d == Contoured(lyDrawn, l, stops)
    IN  /\ lyStops' = stops
        /\ lyStore' = [l EXCEPT !.data = TRUE]
        /\ lyDrawn' = IF l.raster /\ l.vis THEN Imaged(d, l) ELSE d
        /\ lyLegend' = LegendOf(l, stops)
        /\ lyRender' = Armed(lyRender)

OverlayArrived(kind, l) ==
    LET stops == IF l.pal = Builtin THEN lyStops ELSE l.pal
    IN  /\ lyStops' = stops
        /\ lyLegend' = Shade(l, stops)
        /\ UNCHANGED lyStore
        /\ IF kind = "raster" THEN lyDrawn' = Imaged(lyDrawn, l) /\ lyRender' = Armed(lyRender)
           ELSE IF lyDrawn.bands # Nothing
                THEN lyDrawn' = [lyDrawn EXCEPT !.bandsOn = TRUE] /\ UNCHANGED lyRender
                ELSE lyDrawn' = Contoured(lyDrawn, l, stops) /\ lyRender' = Armed(lyRender)

Arrive(j) ==
    /\ lyJobs' = lyJobs \ {j}
    /\ IF Overridden(j) THEN UNCHANGED <<lyStore, lyStops, lyDrawn, lyLegend, lyRender, lyOdd>>
       ELSE /\ \/ j.kind = "palette" /\ PaletteArrived(j.of)
               \/ j.kind \in {"load", "eye"} /\ FieldArrived([j.of EXCEPT !.file = j.seq])
               \/ j.kind \in {"fill", "raster"} /\ OverlayArrived(j.kind, j.of)
            /\ lyOdd' = Strayed(Aged(lyOdd, j), lyDrawn', lyRender') \cup Slip(j)
    /\ UNCHANGED <<lyView, lySeq, lyPick, lyAsked, lyOps>>
-------------------------------------------------------------------------------
(* Re-rendering after the map has moved: a timer of 250 ms, an idle         *)
(* callback, and a computation that may wait for a palette.                 *)
Triggered(r) ==
    IF Present /\ ~lyStore.vis THEN r ELSE [r EXCEPT !.timer = lySeq + 1]

Move(v) ==
    /\ Act /\ v # lyView
    /\ lyView' = v
    /\ lyRender' = IF lyRender.armed THEN Triggered(lyRender) ELSE lyRender
    /\ lyOdd' = lyOdd \cup (IF Present /\ lyRender.armed /\ lyStore.vis /\ lyStore.fill /\ ~lyStore.raster
                            THEN {} ELSE {"strayed"})
    /\ UNCHANGED <<lyStore, lyStops, lyDrawn, lyLegend, lySeq, lyPick, lyJobs, lyAsked>>

(* The timer of a hidden browser tab waits until the tab is looked at.      *)
TimerFires(tabHidden) ==
    /\ lyRender.timer # 0
    /\ lyRender' = [lyRender EXCEPT !.timer = 0,
                       !.waiting = @ \/ tabHidden,
                       !.idle = @ \cup {v \in {lyView} : /\ ~tabHidden
                                                         /\ lyRender.timer = lySeq + 1
                                                         /\ lyRender.noted # v}]
    /\ lyOdd' = IF ~tabHidden /\ lyRender.timer # lySeq + 1 THEN lyOdd \cup {"strayed"} ELSE lyOdd
    /\ UNCHANGED <<lyStore, lyStops, lyDrawn, lyLegend, lyView, lySeq, lyPick, lyJobs, lyAsked, lyOps>>

TabLookedAt ==
    /\ lyRender.waiting
    /\ lyRender' = Triggered([lyRender EXCEPT !.waiting = FALSE])
    /\ UNCHANGED <<lyStore, lyStops, lyDrawn, lyLegend, lyView, lySeq, lyPick, lyJobs, lyAsked, lyOdd, lyOps>>

Renderable == lyRender.armed /\ Present

(* The drawing itself: always the lines, the fill only when the viewport    *)
(* noted when the timer fired is outside the box that was filled last.      *)
Redrawn(r, at, stops) ==
    LET again == lyStore.vis /\ lyStore.fill /\ ~lyStore.raster /\ r.covered # at
        freed == [r EXCEPT !.busy = FALSE, !.pending = FALSE, !.covered = IF again THEN at ELSE @]
    IN  /\ lyDrawn' = [lyDrawn EXCEPT !.bands = IF again THEN Shade(lyStore, stops) ELSE @,
                                      !.at = IF again THEN lyView ELSE @,
                                      !.bandsOn = lyStore.vis /\ lyStore.fill /\ (again \/ lyDrawn.bands # Nothing),
                                      !.lines = lyStore.vis]
        /\ lyLegend' = IF Shaded(lyStore) THEN Shade(lyStore, stops) ELSE lyLegend
        /\ lyRender' = IF r.pending THEN Triggered(freed) ELSE freed
        /\ lyOdd' = lyOdd \cup (IF again /\ ~(at = lyView /\ at = r.noted) THEN {"strayed"} ELSE {})
                          \cup (IF Overtaken([lyStore EXCEPT !.pal = stops]) /\ stops # lyStops THEN {"overtaken"} ELSE {})

(* runCompute up to its await.  A palette file is read only while COLORMAPS *)
(* has no palette for the layer.                                            *)
Idle(v) ==
    LET r == [lyRender EXCEPT !.idle = @ \ {v}]
        noted == [r EXCEPT !.noted = v]
    IN  /\ IF ~(Renderable /\ lyStore.vis /\ lyStore.data)
           THEN lyRender' = r /\ UNCHANGED <<lyDrawn, lyLegend, lyOdd>>
           ELSE IF r.busy
           THEN lyRender' = [r EXCEPT !.pending = TRUE] /\ UNCHANGED <<lyDrawn, lyLegend, lyOdd>>
           ELSE IF lyStore.pal # Builtin /\ lyStops = Builtin
           THEN /\ lyRender' = [noted EXCEPT !.busy = TRUE, !.computing = @ \cup {[at |-> v, pal |-> lyStore.pal]}]
                /\ UNCHANGED <<lyDrawn, lyLegend, lyOdd>>
           ELSE Redrawn(noted, v, lyStops)
        /\ UNCHANGED <<lyStore, lyStops, lyView, lySeq, lyPick, lyJobs, lyAsked, lyOps>>

(* runCompute after its await: the layer may have gone meanwhile.           *)
Computed(c) ==
    LET r == [lyRender EXCEPT !.computing = @ \ {c}]
        freed == [r EXCEPT !.busy = FALSE, !.pending = FALSE]
    IN  /\ lyStops' = c.pal
        /\ IF Renderable /\ lyStore.data THEN Redrawn(r, c.at, c.pal)
           ELSE /\ lyRender' = IF r.pending THEN Triggered(freed) ELSE freed
                /\ UNCHANGED <<lyDrawn, lyLegend, lyOdd>>
        /\ UNCHANGED <<lyStore, lyView, lySeq, lyPick, lyJobs, lyAsked, lyOps>>

LyNext ==
    \/ Hide \/ Show \/ ResetPalette \/ RemoveLayer \/ NextTime \/ TabLookedAt
    \/ \E on \in BOOLEAN : SetFill(on) \/ SetRaster(on) \/ TimerFires(on)
    \/ \E p \in LyPalettes : PickPalette(p)
    \/ \E v \in LyViews : Move(v)
    \/ \E v \in lyRender.idle : Idle(v)
    \/ \E c \in lyRender.computing : Computed(c)
    \/ \E j \in lyJobs : Arrive(j)

LySpec == LyInit /\ [][LyNext]_lyVars
-------------------------------------------------------------------------------
LyTypeOK ==
    /\ lyStore \in Layer \cup {Gone} /\ lyAsked \in Layer \cup {Gone}
    /\ lyStops \in Colours /\ lyLegend \in Colours \cup {Nothing} /\ lyView \in LyViews
    /\ lyDrawn \in [bands : Colours \cup {Nothing}, at : LyViews \cup {Nothing}, bandsOn : BOOLEAN,
                    lines : BOOLEAN, image : 0 .. LyMaxOps + 1, imageOn : BOOLEAN]
    /\ lyRender \in [armed : BOOLEAN, timer : 0 .. LyMaxOps + 1, waiting : BOOLEAN,
                     idle : SUBSET LyViews, computing : SUBSET [at : LyViews, pal : Colours],
                     busy : BOOLEAN, pending : BOOLEAN,
                     noted : LyViews \cup {Nothing}, covered : LyViews \cup {Nothing}]
    /\ lySeq \in 0 .. LyMaxOps /\ lyPick \in 0 .. LyMaxOps /\ lyOps \in 0 .. LyMaxOps
    /\ lyJobs \subseteq Job /\ lyOdd \subseteq {"overtaken", "both", "strayed", "reused", "older"}

OnMap == LET shows == [fill |-> lyDrawn.bandsOn, lines |-> lyDrawn.lines, image |-> lyDrawn.imageOn]
         IN  {p \in DOMAIN shows : shows[p]}
AtRest == lyJobs = {} /\ Resting

(* No timer, idle callback or computation of a layer that was deleted draws *)
(* it again: the guards of runCompute, before and after its await.  Only a  *)
(* palette, field or overlay asked for before the deletion can.             *)
DeletedStaysOff ==
    ~Present /\ "overtaken" \notin lyOdd => OnMap = {} /\ lyLegend = Nothing /\ ~lyRender.armed

(* A hidden layer shows neither on the map nor in the legend, whatever      *)
(* steps, moves and re-renders follow.                                      *)
HiddenStaysHidden ==
    Present /\ ~lyStore.vis /\ lyOdd \cap {"overtaken", "both"} = {} => OnMap = {} /\ lyLegend = Nothing

(* At rest the map and the legend show what the operator asked for last, in *)
(* the palette picked last and with the field of the window's time, unless  *)
(* an older one came in after the step's load: the eye's load, an overlay   *)
(* or a palette that was asked for before the step ("older").               *)
ShownAsAsked ==
    AtRest /\ Present /\ lyStore.vis /\ lyOdd \cap {"overtaken", "both"} = {} =>
        /\ \A f \in {"vis", "fill", "raster", "pal"} : lyStore[f] = lyAsked[f]
        /\ lyDrawn.bandsOn = lyAsked.fill /\ lyDrawn.imageOn = lyAsked.raster
        /\ lyDrawn.bandsOn => lyDrawn.bands = lyAsked.pal
        /\ lyLegend = LegendOf(lyAsked, lyAsked.pal)
        /\ "older" \notin lyOdd =>
              /\ lyStore.data /\ lyStore.file = lySeq
              /\ lyAsked.raster /\ "reused" \notin lyOdd => lyDrawn.image = lySeq + 1

(* At rest a fill covers the viewport, unless the map was moved while the   *)
(* fill was off or by the time it was being computed.                       *)
FillCoversView ==
    AtRest /\ Present /\ lyDrawn.bandsOn /\ lyOdd \cap {"overtaken", "strayed", "both"} = {} => lyDrawn.at = lyView

LayersSound == DeletedStaysOff /\ HiddenStaysHidden /\ ShownAsAsked /\ FillCoversView

(* "Contour fills (showFill) and binary raster overlays (showRaster) are    *)
(* mutually exclusive" (Architecture.md): never both on the map.            *)
ShadingExclusive == ~({"fill", "image"} \subseteq OnMap)
===============================================================================
