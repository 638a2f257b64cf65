------------------------------ MODULE Colours -------------------------------
(* The colours of a field: which palette a name leads to, the colour a value  *)
(* is drawn in, the legend's bar beside it, the levels contours are drawn at, *)
(* and the palettes a layer's picker offers (utils/colormaps.js,              *)
(* utils/paletteLoader.js): pure functions, tried on every input from small   *)
(* sets.                                                                      *)
(*                                                                            *)
(* A palette is the sequence of its stops' values in tenths; the colour of    *)
(* stop i is (i - 1) * 100 and a colour between two stops lies between.  A    *)
(* name is tested for the fragments it contains: Marks gives them, "^" before *)
(* one the name (or what follows its last slash) begins with, "=" the whole.                 *)
EXTENDS Allocation, TLC

CONSTANTS
    Marks,         \* the fragments in a name
    OwnPalettes,   \* palettes from a file or the configuration, by name
    PresetPalettes,\* elements and the palettes the shipped presets give them
    PaletteFiles,  \* the files of a category: what each is about, and its fragments
    Quantity,      \* what the elements of the picker are about
    Scales         \* elements, references, and values to draw

NoName == ""
Clear == -100

\* DEFAULT_COLORMAPS
WeatherStops == [
    TMP |-> <<-400, -300, -200, -100, 0, 100, 180, 240, 280, 350, 400>>,
    WIND |-> <<0, 20, 60, 120, 180, 250, 320, 450>>,
    RH |-> <<0, 450, 600, 700, 800, 900, 1000>>,
    HGT |-> <<0, 15000, 30000, 50000, 56000, 58800, 70000, 90000, 120000, 170000>>,
    RAIN |-> <<1, 10, 100, 250, 500, 1000, 2500>>,
    RAIN12 |-> <<1, 10, 100, 250, 500, 1000, 2500>>,
    RAIN6 |-> <<1, 10, 100, 250, 500, 1000, 2500>>,
    RAIN24 |-> <<1, 100, 250, 500, 1000, 2500>>,
    DTD |-> <<0, 20, 50, 80, 120, 180, 300>>,
    VOR |-> <<-200, -100, -40, -20, 0, 20, 40, 100, 200>>,
    DIV |-> <<-200, -100, -40, -20, 0, 20, 40, 100, 200>>,
    K_INDEX |-> <<0, 150, 200, 250, 300, 350, 400, 450>>]
IndexStops == [
    SHOWALTER |-> <<-80, -60, -40, -20, 0, 20, 60>>,
    LIFTED |-> <<-80, -60, -40, -20, 0, 20, 60>>,
    SWEAT |-> <<1000, 2000, 2500, 3000, 3500, 4000, 5000>>,
    TT |-> <<350, 440, 480, 520, 560, 650>>,
    SHEAR |-> <<0, 60, 120, 180, 250, 350, 450>>,
    THICKNESS |-> <<51000, 52800, 54000, 55200, 56400, 57600, 58800>>,
    T_VAR |-> <<-160, -120, -80, -40, -20, 0, 20, 40, 80, 120, 160>>,
    SLP_VAR |-> <<-160, -120, -80, -40, -20, 0, 20, 40, 80, 120, 160>>,
    CAPE |-> <<0, 1000, 5000, 10000, 15000, 20000, 25000, 30000, 40000>>,
    HELICITY |-> <<0, 100, 250, 500, 1000, 1500, 2000, 3000>>,
    RADAR |-> <<0, 100, 150, 200, 250, 300, 350, 400, 450, 500, 550, 600, 650, 700>>]
ProductStops == [
    ECHO_TOP |-> <<0, 20, 40, 60, 80, 100, 120, 140, 160, 180>>,
    VIL |-> <<0, 50, 100, 150, 250, 350, 450, 550, 700>>,
    QPE |-> <<1, 10, 50, 100, 250, 500, 1000>>,
    SNOW |-> <<0, 10, 50, 100, 200, 300, 500>>,
    SST |-> <<0, 50, 100, 150, 200, 250, 280, 320, 360>>,
    TCWV |-> <<0, 100, 200, 300, 450, 600, 750>>,
    PROBABILITY |-> <<0, 100, 250, 500, 700, 900, 1000>>,
    VARIANCE |-> <<0, 10, 30, 60, 100, 160, 250>>,
    PRECIP_TYPE |-> <<0, 10, 20, 30, 40>>,
    HAZARDS |-> <<0, 10, 20, 30>>,
    IR_TEMP |-> <<1800, 1950, 2100, 2200, 2300, 2400, 2500, 2600, 2750, 2900, 3050, 3200>>,
    ALBEDO |-> <<0, 100, 250, 500, 750, 1000>>,
    WV |-> <<1900, 2050, 2150, 2250, 2350, 2450, 2550, 2650, 2750>>,
    CTT |-> <<1800, 1950, 2100, 2200, 2300, 2400, 2500, 2650, 2800, 3000, 3200>>,
    DUST |-> <<0, 100, 250, 500, 750, 1000>>]
Colormaps == WeatherStops @@ IndexStops @@ ProductStops @@ OwnPalettes

Includes(name, fragments) == name \in fragments \/ Marks[name] \cap fragments # {}
CoLeast(S) == CHOOSE x \in S : \A y \in S : x <= y
Within(x, lo, hi) == IF x < lo THEN lo ELSE IF x > hi THEN hi ELSE x
Rising(s) == \A i \in 1..Len(s) - 1 : s[i] < s[i + 1]
SortedSeq(s) == SortSeq(s, LAMBDA a, b : a < b)

-----------------------------------------------------------------------------
(* Which palette *)

\* isRainElement
IsRain(name) ==
    /\ name # NoName /\ ~Includes(name, {"PRECIP_TYPE", "PRECIPITATION_TYPE"})
    /\ Includes(name, {"RAIN", "QPE", "QPF", "^SNOW", "^PRECIP", "^PRE_", "=APCP", "=TP"})

\* The tests of a name, in order: the palette of the first rule one of whose
\* sets of fragments the name contains.
PaletteRules == <<
    [any |-> {{"PROB"}}, palette |-> "PROBABILITY"],
    [any |-> {{"PRECIP_TYPE"}, {"PRECIPITATION_TYPE"}}, palette |-> "PRECIP_TYPE"],
    [any |-> {{"QPE"}, {"QPF"}}, palette |-> "QPE"],
    [any |-> {{"RAIN"}, {"^SNOW"}, {"^PRECIP"}, {"^PRE_"}, {"=APCP"}, {"=TP"}}, palette |-> "RAIN"],
    [any |-> {{"SLP", "VAR"}}, palette |-> "SLP_VAR"],
    [any |-> {{"T_VAR"}, {"T-VAR"}, {"TMP", "VAR"}, {"^T", "VAR"}}, palette |-> "T_VAR"],
    [any |-> {{"CAPE"}, {"CIN"}}, palette |-> "CAPE"],
    [any |-> {{"HELICITY"}, {"_UH$"}}, palette |-> "HELICITY"],
    [any |-> {{"DBZ"}, {"MCR"}, {"RADAR"}, {"REFLECTIVITY"}, {"REF_FST"}}, palette |-> "RADAR"],
    [any |-> {{"MTOP"}, {"ECHO_TOP"}}, palette |-> "ECHO_TOP"],
    [any |-> {{"VIL"}}, palette |-> "VIL"],
    [any |-> {{"SNOW"}, {"SNOD"}}, palette |-> "SNOW"],
    [any |-> {{"SST"}}, palette |-> "SST"],
    [any |-> {{"TCWV"}}, palette |-> "TCWV"],
    [any |-> {{"VARIANCE"}}, palette |-> "VARIANCE"],
    [any |-> {{"HAZARD"}, {"HAIL"}, {"GALE"}, {"WINDY"}, {"HEAVY_RAIN"}, {"FOG"}, {"HAZE"}},
     palette |-> "HAZARDS"],
    [any |-> {{"IR_TEMP"}, {"IR1"}, {"IR2"}, {"IR3"}, {"IR4"}, {"LWIR"}, {"WINDOW_IR"}},
     palette |-> "IR_TEMP"],
    [any |-> {{"ALBEDO"}, {"VIS"}, {"SWIR"}}, palette |-> "ALBEDO"],
    [any |-> {{"WV"}, {"WATER_VAPOR"}}, palette |-> "WV"],
    [any |-> {{"CTT"}, {"CLOUD_TOP_TEMP"}}, palette |-> "CTT"],
    [any |-> {{"DUST"}}, palette |-> "DUST"] >>

\* Mutant: the rules are tried from the last.
BugMatchElement(name) ==
    LET hits == {i \in DOMAIN PaletteRules : \E all \in PaletteRules[i].any : all \subseteq Marks[name]}
    IN  IF name \in DOMAIN Colormaps THEN name
        ELSE IF hits = {} THEN NoName
        ELSE PaletteRules[CHOOSE i \in hits : \A j \in hits : j <= i].palette

MatchElement(name) ==
    LET hits == {i \in DOMAIN PaletteRules : \E all \in PaletteRules[i].any : all \subseteq Marks[name]}
    IN  IF name \in DOMAIN Colormaps THEN name
        ELSE IF hits = {} THEN NoName
        ELSE PaletteRules[CoLeast(hits)].palette

\* getColormap: of the reference, of the element, or that of temperature.
GetColormap(reference, element) ==
    IF MatchElement(reference) # NoName THEN MatchElement(reference)
    ELSE IF MatchElement(element) # NoName THEN MatchElement(element) ELSE "TMP"

-----------------------------------------------------------------------------
(* The colour of a value *)

Variation(el, cm) == Includes(el, {"VAR"}) \/ Includes(cm, {"VAR"})

\* Fields whose scale is never stretched to the data.
FixedPhysical(el, cm) ==
    \/ Variation(el, cm) \/ IsRain(el) \/ IsRain(cm) \/ Includes(cm, {"RAIN"})
    \/ el \in {"RH", "WIND", "TMP", "DTD", "RADAR", "DBZ", "PROBABILITY", "PRECIP_TYPE", "HAZARDS",
               "IR_TEMP", "ALBEDO", "WV", "CTT", "DUST"}
    \/ Includes(el, {"MCR", "TDMOSAIC", "ECHO_TOP", "MTOP", "VIL", "QPE", "QPF"})
    \/ Includes(cm, {"RH", "WIND", "TMP", "DTD", "RADAR", "DBZ", "MCR", "TDMOSAIC", "ECHO_TOP", "MTOP", "VIL",
                "QPE", "QPF", "PROB", "PRECIP_TYPE", "HAZARD", "IR_TEMP", "ALBEDO", "WV", "CTT", "DUST"})

Relative(el, cm, range) == ~FixedPhysical(el, cm) /\ range # <<>> /\ range[1] < range[2]
InTens(el, cm, stops) ==
    (el = "HGT" \/ Includes(cm, {"HGT"})) /\ ~Variation(el, cm) /\ LastOf(stops) > 25000

ResolverOf(el, cm, range, stops, relative, tens, by) ==
    [stops |-> stops, tens |-> tens, relative |-> relative,
     percent |-> /\ el = "ALBEDO" \/ Includes(cm, {"ALBEDO"})
                 /\ LastOf(stops) >= 500 /\ range # <<>> /\ range[2] <= 10,
     rain |-> IsRain(el) \/ IsRain(cm) \/ Includes(cm, {"RAIN"}),
     always |-> relative /\ (el \in {"HGT", "SLP"} \/ Includes(cm, {"HGT", "SLP"})) /\ ~Variation(el, cm),
     lo |-> IF relative THEN by * range[1] ELSE 0,
     span |-> IF relative THEN by * (range[2] - range[1]) ELSE 0]

\* createColorResolver, its part before a value is known.  A range is <<>> or
\* the least and the greatest value of the data.
ResolverFor(el, cm, range, stops, tens) ==
    ResolverOf(el, cm, range, stops, Relative(el, cm, range), tens,
               IF range # <<>> /\ tens /\ LastOf(range) < 25000 THEN 10 ELSE 1)
Resolver(el, cm, range, stops) == ResolverFor(el, cm, range, stops, InTens(el, cm, stops))

\* Between the stops around the value.
BetweenStops(stops, v) ==
    IF v <= stops[1] THEN 0
    ELSE IF v >= LastOf(stops) THEN 100 * (Len(stops) - 1)
    ELSE LET i == CoLeast({j \in 1..Len(stops) - 1 : stops[j] <= v /\ v <= stops[j + 1]})
         IN  100 * (i - 1) + IF stops[i] < stops[i + 1]
                             THEN (100 * (v - stops[i])) \div (stops[i + 1] - stops[i]) ELSE 0

\* The whole palette stretched over the range of the data.
Stretched(r, v) ==
    LET n == Len(r.stops) - 1 IN Within((100 * n * (v - r.lo)) \div r.span, 0, 100 * n)

\* A height below 2500 is taken for tens of metres.
InPaletteUnits(r, v) ==
    IF r.tens /\ v < 25000 THEN 10 * v ELSE IF r.percent /\ v \in 0..10 THEN 100 * v ELSE v

Outside(r, v) == v < r.stops[1] \/ v > LastOf(r.stops)

\* Mutant: every palette that is not fixed is stretched.
BugDrawnIn(r, val) ==
    LET v == InPaletteUnits(r, val)
    IN  IF r.rain /\ (v < 1 \/ v < r.stops[1]) THEN Clear
        ELSE IF r.relative THEN Stretched(r, v)
        ELSE BetweenStops(r.stops, v)

\* createColorResolver, its part for a value.
DrawnIn(r, val) ==
    LET v == InPaletteUnits(r, val)
    IN  IF r.rain /\ (v < 1 \/ v < r.stops[1]) THEN Clear
        ELSE IF r.always \/ (r.relative /\ Outside(r, v)) THEN Stretched(r, v)
        ELSE BetweenStops(r.stops, v)

-----------------------------------------------------------------------------
(* The legend's bar *)

CoFirstOfEach(s) == SelectSeq([i \in DOMAIN s |-> <<i, s[i]>>],
                              LAMBDA p : \A j \in 1..p[1] - 1 : s[j] # p[2])

FixedOnTheBar == {"RH", "TMP", "TD", "DTD", "WIND", "RAIN", "RAIN6", "RAIN12", "RAIN24"}

Share(v, ends) == (10000 * (v - ends[1])) \div (ends[2] - ends[1])

\* Mutant: a stop beyond the data is not brought back to the end of the bar.
BugTicksOf(el, cm, range, unique, ends) ==
    [i \in DOMAIN unique |->
        [value |-> unique[i][2], colour |-> 100 * (unique[i][1] - 1),
         percent |-> IF IsRain(el) \/ IsRain(cm) THEN ((i - 1) * 10000) \div Len(unique)
                     ELSE IF i = 1 THEN 0 ELSE IF i = Len(unique) THEN 10000
                     ELSE Share(unique[i][2], ends)]]

\* getPaletteBandsAndTicks: a tick for each value of the palette, in hundredths
\* of a percent along the bar; the bands of rain are equally wide.
TicksOf(el, cm, range, unique, ends) ==
    [i \in DOMAIN unique |->
        [value |-> unique[i][2], colour |-> 100 * (unique[i][1] - 1),
         percent |-> IF IsRain(el) \/ IsRain(cm) THEN ((i - 1) * 10000) \div Len(unique)
                     ELSE IF i = 1 THEN 0 ELSE IF i = Len(unique) THEN 10000
                     ELSE Within(Share(unique[i][2], ends), 0, 10000)]]

EndsOfBar(el, range, unique) ==
    IF el \notin FixedOnTheBar /\ range # <<>> /\ range[1] < range[2]
    THEN range ELSE <<unique[1][2], LastOf(unique)[2]>>
TicksFor(el, cm, range, unique) == TicksOf(el, cm, range, unique, EndsOfBar(el, range, unique))
Ticks(el, cm, range, stops) == TicksFor(el, cm, range, CoFirstOfEach(stops))

\* The bands between the ticks: from, to and the colour of the lower stop.
Bands(el, cm, ticks) ==
    LET n == Len(ticks)
        all == IF IsRain(el) \/ IsRain(cm)
               THEN [i \in 1..n |-> <<ticks[i].percent,
                         IF i = n THEN 10000 ELSE ticks[i + 1].percent, ticks[i].colour>>]
               ELSE [i \in 1..n - 1 |-> <<ticks[i].percent, ticks[i + 1].percent, ticks[i].colour>>]
    IN  SelectSeq(all, LAMBDA b : b[1] < b[2])

\* The ticks that have a label: all of nine, else about every seventh part of
\* them, and the first, the last and zero.
Labelled(ticks) ==
    LET n == Len(ticks)
        stride == (n + 6) \div 7
    IN  {i \in 1..n : n <= 9 \/ i \in {1, n} \/ ticks[i].value = 0 \/ (i - 1) % stride = 0}

-----------------------------------------------------------------------------
(* Levels, in ten-thousandths *)

FixedLevels == [RH |-> <<50, 60, 70, 80, 90, 100>>,
                WIND |-> <<4, 8, 12, 16, 20, 24, 28, 32, 40>>,
                DTD |-> <<1, 2, 3, 4, 5, 6, 8, 10, 12, 15, 20, 25, 30>>,
                VOR |-> <<-20, -15, -10, -8, -6, -4, -2, 0, 2, 4, 6, 8, 10, 15, 20>>,
                DIV |-> <<-20, -15, -10, -8, -6, -4, -2, 0, 2, 4, 6, 8, 10, 15, 20>>]
RainLevels == <<1, 10, 100, 250, 500, 1000, 2500>>

AtLeastATenth(s) ==
    LET all == {IF v < 1 THEN 1 ELSE v : v \in Elements(s)}
    IN  [k \in 1..Cardinality(all) |-> CHOOSE v \in all : Cardinality({u \in all : u < v}) = k - 1]

\* A step of 1, 2, 4, 8 or 10 dagpm, or ten times as much in gpm.
HeightStep(span, top) ==
    LET unit == IF top < 25000000 THEN 10000 ELSE 100000
        widths == <<15, 30, 90, 180>>
        fits == {i \in 1..4 : span <= widths[i] * unit}
    IN  unit * (IF fits = {} THEN 10 ELSE <<1, 2, 4, 8>>[CoLeast(fits)])

\* 1, 2, 5 or 10 times the power of ten below a tenth of the span.
NiceStep(span) ==
    LET raw == span \div 10
        power == CHOOSE p \in {1, 10, 100, 1000, 10000, 100000, 1000000, 10000000} :
                     p <= raw /\ raw < 10 * p
    IN  power * (IF 10 * raw <= 15 * power THEN 1 ELSE IF 10 * raw <= 35 * power THEN 2
                 ELSE IF 10 * raw <= 75 * power THEN 5 ELSE 10)

\* Rounded to hundredths.
Hundredths(s) == [i \in DOMAIN s |-> ((s[i] + 50) \div 100) * 100]

\* Mutant: the last level is rounded down too.
BugEvenLevels(lo, hi, step) == Hundredths(Upto((lo \div step) * step, (hi \div step) * step, step))
\* From the multiple of the step below the data to the one above.
EvenLevels(lo, hi, step) == Hundredths(Upto((lo \div step) * step, -((-hi) \div step) * step, step))

StopsAsLevels(s) == [i \in DOMAIN s |-> 1000 * s[i]]

\* getElementLevels, and what renderContourLayers makes of rain's.
GetElementLevels(el, cm, lo, hi, stops) ==
    IF IsRain(el) \/ IsRain(cm) \/ Includes(cm, {"RAIN"})
    THEN StopsAsLevels(IF Len(AtLeastATenth(stops)) >= 2 THEN AtLeastATenth(stops) ELSE RainLevels)
    ELSE IF el \in DOMAIN FixedLevels
    THEN [i \in DOMAIN FixedLevels[el] |-> 10000 * FixedLevels[el][i]]
    ELSE IF hi <= lo THEN StopsAsLevels(stops)
    ELSE IF el = "HGT" THEN EvenLevels(lo, hi, HeightStep(hi - lo, hi))
    ELSE IF 1000 * stops[1] <= lo /\ hi <= 1000 * LastOf(stops) THEN StopsAsLevels(stops)
    ELSE EvenLevels(lo, hi, NiceStep(hi - lo))

-----------------------------------------------------------------------------
(* Palettes from files *)

\* ELEMENT_PALETTE_CATEGORY
CategoryElements ==
    [RH |-> {"RH", "HUMIDITY", "RELATIVE_HUMIDITY", "Q", "SH", "SPECIFIC_HUMIDITY", "VAPOR",
             "PWAT", "TPW"},
     TMP |-> {"TMP", "TEMP", "T", "2T", "T2M", "TMP_MAX", "TMP_MIN", "TMAX", "TMIN", "T850", "T700",
              "T500", "TD", "2D", "D2M", "DTD", "T-TD", "T_TD"},
     WIND |-> {"WIND", "UV", "WS", "WSPD", "10WIND", "10M_WIND", "VVEL", "W"},
     PRS_HGT |-> {"HGT", "GH", "GPH", "HEIGHT", "500HGT", "SLP", "PRS", "PRMSL", "MSLP", "PS",
                  "VOR", "RVOR", "AVOR", "DIV", "RDIV"},
     RAIN |-> {"RAIN", "RAIN1", "RAIN01", "RAIN3", "RAIN03", "RAIN6", "RAIN06", "RAIN12", "RAIN24", "RAIN48",
               "APCP", "TP", "PRECIPITATION", "PRECIP", "SNOW"},
     RADAR |-> {"RADAR", "REF", "CREF", "DBZ", "QPE", "VIL", "KDP", "ZDR"},
     STABILITY |-> {"CAPE", "CIN", "K", "K_INDEX", "KINDEX"},
     ENV_VIS |-> {"VIS", "VISIB", "VISIBILITY", "GRIB_VIS", "GRIB_VISIB", "AQI", "PM25", "PM2.5", "PM10",
                  "SO2", "NO2", "O3", "CO"}]

\* The patterns of a name the table lacks.
CategoryRules == <<
    [for |-> {"^RAIN", "^APCP", "PRECIP", "SNOW"}, category |-> "RAIN"],
    [for |-> {"^TMP", "^TEMP", "^T2M", "^TMAX", "^TMIN", "T#", "^TD", "^T-D", "TTD", "DEWPOINT"},
     category |-> "TMP"],
    [for |-> {"^HGT", "^GH", "HEIGHT", "^SLP", "^PRMSL", "^VOR", "^DIV"}, category |-> "PRS_HGT"],
    [for |-> {"^VIS", "VISIB"}, category |-> "ENV_VIS"],
    [for |-> {"^WIND", "^WSPD"}, category |-> "WIND"],
    [for |-> {"^CAPE", "^CIN", "^K_INDEX"}, category |-> "STABILITY"],
    [for |-> {"^RADAR"}, category |-> "RADAR"],
    [for |-> {"^RH", "HUMIDITY", "VAPOR"}, category |-> "RH"] >>

\* getPaletteCategory
PaletteCategory(el) ==
    LET listed == {c \in DOMAIN CategoryElements : el \in CategoryElements[c]}
        hits == {i \in DOMAIN CategoryRules : Includes(el, CategoryRules[i].for)}
    IN  IF listed # {} THEN CHOOSE c \in listed : TRUE
        ELSE IF hits = {} THEN NoName ELSE CategoryRules[CoLeast(hits)].category

\* filterPalettesForElement: what a file's name must and must not contain for
\* an element; a rule that wants nothing takes every file.
FilterRules == <<
    [for |-> {"DTD", "TTD", "T_TD", "T-TD", "T_D", "T-D"}, want |-> {"t-td"}, not |-> {}],
    [for |-> {"TD", "2D", "D2M", "^TD", "DEWPOINT"}, want |-> {"td"}, not |-> {"t-td"}],
    [for |-> {"^TMP", "^TEMP", "T", "2T", "^T2M", "^TMAX", "^TMIN", "T#"},
     want |-> {}, not |-> {"t-td", "td", "rain", "div", "vor", "pollutant"}],
    [for |-> {"^RAIN", "^APCP", "TP", "PRECIP", "SNOW"}, want |-> {"rain"}, not |-> {"temp"}],
    [for |-> {"DIV", "RDIV", "DIVERGENCE"}, want |-> {"div"}, not |-> {}],
    [for |-> {"VOR", "RVOR", "AVOR", "VORTICITY"}, want |-> {"vor"}, not |-> {}],
    [for |-> {"SLP", "PRMSL", "MSLP", "PRS", "PS"}, want |-> {"slp"}, not |-> {"div", "vor"}],
    [for |-> {"HGT", "GH", "GPH", "HEIGHT", "500HGT"}, want |-> {"hgt"}, not |-> {"div", "vor"}],
    [for |-> {"^VIS", "VISIB"}, want |-> {"vis"}, not |-> {"pollutant"}],
    [for |-> {"AQI"}, want |-> {"aqi"}, not |-> {}],
    [for |-> {"PM25", "PM2.5", "PM2_5"}, want |-> {"pm2.5"}, not |-> {}],
    [for |-> {"PM10"}, want |-> {"pm10"}, not |-> {}],
    [for |-> {"CO"}, want |-> {"co"}, not |-> {}],
    [for |-> {"O3"}, want |-> {"o3"}, not |-> {}],
    [for |-> {"Q", "SH", "SPECIFIC_HUMIDITY"}, want |-> {"q"}, not |-> {}],
    [for |-> {"VAPOR", "PWAT", "TPW"}, want |-> {"vapor"}, not |-> {}],
    [for |-> {"RH", "HUMIDITY", "RELATIVE_HUMIDITY"}, want |-> {}, not |-> {"q", "vapor"}],
    [for |-> {"QPE"}, want |-> {"qpe"}, not |-> {}],
    [for |-> {"VIL"}, want |-> {"vil"}, not |-> {}],
    [for |-> {"ET"}, want |-> {"et"}, not |-> {}],
    [for |-> {"REF", "CREF", "DBZ"}, want |-> {"ref"}, not |-> {"qpe", "vil", "kdp", "zdr", "et"}],
    [for |-> {"VVEL", "W"}, want |-> {"vvel"}, not |-> {}],
    [for |-> {"WIND", "WS", "WSPD", "10WIND"}, want |-> {}, not |-> {"vvel"}],
    [for |-> {"CAPE", "CIN"}, want |-> {"cape"}, not |-> {"k"}],
    [for |-> {"K", "K_INDEX", "KINDEX"}, want |-> {"k"}, not |-> {}] >>

\* Mutant: a name may contain what the rule forbids.
BugFilterPalettes(files, el) ==
    LET hits == {i \in DOMAIN FilterRules : Includes(el, FilterRules[i].for)}
    IN  IF hits = {} THEN files
        ELSE LET rule == FilterRules[CoLeast(hits)]
             IN  {f \in files : rule.want = {} \/ f.marks \cap rule.want # {}}

FilterPalettes(files, el) ==
    LET hits == {i \in DOMAIN FilterRules : Includes(el, FilterRules[i].for)}
    IN  IF hits = {} THEN files
        ELSE LET rule == FilterRules[CoLeast(hits)]
             IN  {f \in files : /\ (rule.want = {} \/ f.marks \cap rule.want # {})
                                /\ f.marks \cap rule.not = {}}

\* fetchPaletteFileList: a category without a folder has no files.
FilesOf(category) == IF category \in DOMAIN PaletteFiles THEN PaletteFiles[category] ELSE {}

\* listPaletteFiles as the pickers of a layer call it.
ListPaletteFiles(el) ==
    FilterPalettes(FilesOf(IF PaletteCategory(el) = NoName THEN el ELSE PaletteCategory(el)), el)

\* Mutant: the entries are taken in the order of the file.
BugLoadXMLPalette(entries) == LET vals == SelectSeq(entries, LAMBDA v : v # Nil)
                              IN  IF Len(vals) < 2 THEN <<>> ELSE vals

\* loadXMLPalette: the entries that can be read (Nil: not), in order; at least two.
LoadXMLPalette(entries) ==
    LET vals == SelectSeq(entries, LAMBDA v : v # Nil)
    IN  IF Len(vals) < 2 THEN <<>> ELSE SortedSeq(vals)

\* Mutant: a palette loaded at run time is forgotten.
BugSetColormaps(current, given) == given @@ WeatherStops @@ IndexStops @@ ProductStops

\* setColormaps: the defaults, the palettes loaded at run time, and the given,
\* which are refused as a whole when one of them is no palette.
SetColormaps(current, given) ==
    IF \E n \in DOMAIN given : Len(given[n]) < 2 \/ Nil \in Elements(given[n]) THEN current
    ELSE [n \in DOMAIN given |-> SortedSeq(given[n])]
         @@ [n \in {m \in DOMAIN current : Includes(m, {"^palette"})} |-> current[n]]
         @@ WeatherStops @@ IndexStops @@ ProductStops

-----------------------------------------------------------------------------
(* The cases *)

CoEntries == UNION {[1..n -> {Nil, 0, 5, 9}] : n \in 1..3}
CoSpans == {200, 2000, 30000, 250000, 12000000}
CoStarts == {-123000, 0, 7000, 1500000, 20000000}
CoLevelFields == {<<"TMP", NoName>>, <<"CAPE", NoName>>, <<"HGT", NoName>>, <<"RAIN24", NoName>>,
                  <<"SNOW24", "SNOW">>, <<"RH", NoName>>, <<"TMP", "palette:1">>,
                  <<"RAIN24", "palette:2">>}

CoInit ==
    \/ \E s \in Scales :
          case \in [kind : {"scale"}, el : {s.el}, cm : {s.cm},
                    range : {<<>>} \cup {r \in s.values \X s.values : r[1] < r[2]}, values : {s.values}]
    \/ case \in [kind : {"levels"}, field : CoLevelFields, lo : CoStarts, span : CoSpans]
    \/ case \in [kind : {"palette"}, pair : PresetPalettes]
    \/ case \in [kind : {"picker"}, el : DOMAIN Quantity]
    \/ case \in [kind : {"load"}, entries : CoEntries, given : CoEntries]

-----------------------------------------------------------------------------
(* What the colours tell *)

InRange(v) == case.range = <<>> \/ (case.range[1] <= v /\ v <= case.range[2])

\* Heights on both sides of 2500 are drawn in two units; a palette of metres is
\* drawn in tens of metres below it.
TwoUnits(r, S) == r.tens /\ \E v \in S : v < 25000 /\ (r.always => \E u \in S : u >= 25000)
\* A value the palette does not reach is drawn as if the palette were stretched.
PartlyOutside(r, S) == r.relative /\ ~r.always /\ \E v \in S : Outside(r, InPaletteUnits(r, v))

StopsFor(el, cm) == Colormaps[GetColormap(cm, el)]

InColourOrder(r, S) ==
    TwoUnits(r, S) \/ PartlyOutside(r, S)
    \/ \A v, w \in S : v < w => DrawnIn(r, v) <= DrawnIn(r, w)

\* A greater value never has an earlier colour of the palette
\* (createColorResolver), besides heights around 2500 and a palette the data
\* leaves: the colours are an order of the values.
ColoursInOrder ==
    case.kind = "scale" =>
        InColourOrder(Resolver(case.el, case.cm, case.range, StopsFor(case.el, case.cm)),
                {v \in case.values : InRange(v)})

TellsTheColour(r, ticks) ==
    \A i \in DOMAIN ticks :
       \/ DrawnIn(r, ticks[i].value) = ticks[i].colour
       \/ ~InRange(ticks[i].value)
       \/ r.always \/ r.tens \/ r.percent
       \/ r.rain /\ ticks[i].value < 1
       \/ i = Len(ticks) /\ r.stops[Len(r.stops) - 1] = LastOf(r.stops)

\* A tick of the legend has the colour its value is drawn in
\* (getPaletteBandsAndTicks against createColorResolver), besides fields that
\* are stretched to the data, heights in two units, rain too little to draw,
\* fractions drawn as percents, and a palette whose last value comes twice.
LegendTellsTheColour ==
    case.kind = "scale" =>
        TellsTheColour(Resolver(case.el, case.cm, case.range, StopsFor(case.el, case.cm)),
                       Ticks(case.el, case.cm, case.range, StopsFor(case.el, case.cm)))

WholeBar(ticks, bands, shown) ==
    /\ bands[1][1] = 0 /\ LastOf(bands)[2] = 10000
    /\ \A i \in 1..Len(bands) - 1 : bands[i][2] = bands[i + 1][1]
    /\ \A i \in 1..Len(ticks) - 1 :
          \/ \E b \in Elements(bands) : b[3] = ticks[i].colour
          \/ case.range # <<>> /\ (case.range[2] <= ticks[i].value \/ ticks[i + 1].value <= case.range[1])
    /\ {1, Len(ticks)} \subseteq shown /\ Cardinality(shown) <= 11
BarOf(ticks) == WholeBar(ticks, Bands(case.el, case.cm, ticks), Labelled(ticks))

\* The bar is whole: its bands follow one another from end to end, a part of
\* the palette that the data reaches has one, and not more than eleven ticks
\* have labels, the ends among them.
LegendBarWhole ==
    case.kind = "scale" => BarOf(Ticks(case.el, case.cm, case.range, StopsFor(case.el, case.cm)))

LevelsCover(el, lo, hi, stops, levels) ==
    LET made == el \in {"HGT", "CAPE"} \/ case.field = <<"TMP", "palette:1">>
        tiny == NiceStep(hi - lo) < 100
    IN  /\ tiny \/ ~Rising(stops) \/ Rising(levels)
        /\ Len(levels) >= 2
        /\ made /\ ~tiny => levels[1] <= lo /\ hi <= LastOf(levels)
LevelsFor(el, cm, lo, hi, stops) == LevelsCover(el, lo, hi, stops, GetElementLevels(el, cm, lo, hi, stops))

\* The levels of a field rise, and where they are made for the data they reach
\* from its least to its greatest value
\* (getElementLevels), besides data of so small a span that rounding loses the
\* steps, and a palette with a value twice.
LevelsCoverTheData ==
    case.kind = "levels" =>
        LevelsFor(case.field[1], case.field[2], case.lo, case.lo + case.span,
                  StopsFor(case.field[1], case.field[2]))

\* A preset's palette is the one its element's name leads to, where the name
\* leads to one (getColormap), besides names that a palette of their own or an
\* earlier rule takes.
TakenEarlier == {"RAIN24", "SNOW24", "HEAVY_RAINFALL", "AMV/IR1", "VARIANCE/TMP", "VIS", "K_INDEX"}
NamesLeadToPalettes ==
    case.kind = "palette" =>
        \/ MatchElement(case.pair[1]) \in {NoName, case.pair[2]}
        \/ case.pair[1] \in TakenEarlier

\* The picker of a layer offers palettes of the layer's quantity or of none in
\* particular, and at least one when there is one (listPaletteFiles), besides
\* elements no filter knows, and a mosaic of radars that is taken for a dew point.
PickerOffersItsOwn ==
    case.kind = "picker" =>
        LET offered == ListPaletteFiles(case.el)
        IN  /\ case.el \in {"UV", "10M_WIND", "RADAR", "TDMOSAIC"} \/
                   \A f \in offered : f.about \in {"any", Quantity[case.el]}
            /\ (\E c \in DOMAIN PaletteFiles : \E f \in PaletteFiles[c] : f.about = Quantity[case.el])
                  => offered # {} \/ case.el = "ET"

StillThere(stops, before, after) ==
    stops # <<>> =>
       /\ Len(stops) >= 2 /\ "palette:1" \in DOMAIN after /\ after["palette:1"] = stops
       /\ DOMAIN after \subseteq DOMAIN before /\ DOMAIN WeatherStops \subseteq DOMAIN after
       /\ \A n \in {"palette:1", "CUSTOM"} \cap DOMAIN after :
             \A i \in 1..Len(after[n]) - 1 : after[n][i] <= after[n][i + 1]
ReadAgain(stops, before) == StillThere(stops, before, SetColormaps(before, [CUSTOM |-> case.given]))
ReadAndKept(stops) == ReadAgain(stops, ("palette:1" :> stops) @@ ("CUSTOM" :> <<0, 5>>) @@ Colormaps)

\* A palette from a file can be drawn with, and is still there when the
\* configuration is read again, whatever that holds (loadXMLPalette,
\* setColormaps).
PalettesSurvive == case.kind = "load" => ReadAndKept(LoadXMLPalette(case.entries))

ColoursSound ==
    /\ ColoursInOrder /\ LegendTellsTheColour /\ LegendBarWhole /\ LevelsCoverTheData
    /\ NamesLeadToPalettes /\ PickerOffersItsOwn /\ PalettesSurvive
=============================================================================
