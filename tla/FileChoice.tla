----------------------------- MODULE FileChoice ------------------------------
(* Which runs of a model the browser offers, which file a field, a scan or a  *)
(* sounding is read from, and which level a layer of a preset is read at      *)
(* (utils/timelineSync.js, services/weatherLoader.js, presetLoader.js,        *)
(* levelController.js, utils/timeResolver.js).                                *)
(*                                                                            *)
(* Pure functions, tried on every input from small sets.  A run is its hour,  *)
(* counted from a midnight; a forecast file is a run and a lead time in hours;*)
(* what the server lists is a set.                                            *)
EXTENDS TimelineCases, SequencesExt

CONSTANTS
    FcRuns,     \* the runs a model's directory is drawn from, in hours
    FcDay,      \* the midnight of the day a look back in time is for
    FcLeads,    \* lead times in hours
    FcScans     \* the times of a listing of scans or soundings, in minutes

ASSUME FcAssumption == FcRuns \subseteq Nat /\ FcDay \in Nat /\ FcDay % 24 = 0 /\ FcLeads \subseteq Nat

-----------------------------------------------------------------------------
(* Runs *)

Unnamed == 0
NewestFirst(S) == Reverse(SetToSortSeq(S, <))
Newest(S) == CHOOSE r \in S : \A q \in S : q <= r

\* generateDynamicForecastCycles: ten runs, twelve hours apart, back from the one named ...
CyclesFrom(run) == [i \in 1..10 |-> run - 12 * (i - 1)]
\* ... which, where none is named, is the last of 8 and of 20 o'clock.
LastStandard(hour) == CHOOSE h \in (hour - 11)..hour : h % 24 \in {8, 20}

UpToDay(S) == {r \in S : r < FcDay + 24}

\* resolveForecastCycles, without a date: the index of the newest files, for the directory and, when asking for it
\* fails, for the one above; then the directory; then the clock.  answer: what of the server answers, with what.
LiveCycles(answer, clock) ==
    LET named == IF answer.indexFails THEN answer.aboveNewest ELSE answer.newest
    IN  CASE named # Unnamed -> CyclesFrom(named)
          [] named = Unnamed /\ answer.tree # {} -> NewestFirst(answer.tree)
          [] OTHER -> CyclesFrom(LastStandard(clock))

\* Mutant: runs after the day that is looked at are offered too.
BugDatedCycles(answer) ==
    IF answer.tree # {} THEN NewestFirst(answer.tree) ELSE CyclesFrom(FcDay + 20)

\* ... with a date: the directory up to the day, a single run of it standing for the ten before; then the index; then
\* the evening of the day.
DatedCycles(answer) ==
    LET listed == UpToDay(answer.tree)
        counted == SelectSeq(CyclesFrom(answer.newest), LAMBDA r : r < FcDay + 24)
    IN  CASE Cardinality(listed) = 1 -> CyclesFrom(Newest(listed))
          [] Cardinality(listed) > 1 -> NewestFirst(listed)
          [] listed = {} /\ answer.newest # Unnamed /\ counted # <<>> -> counted
          [] OTHER -> CyclesFrom(FcDay + 20)

\* What was found for a directory and a day is kept for five minutes and given unless a load asks for the newest.
ResolveForecastCycles(kept, forced, dated, answer, clock) ==
    IF ~forced /\ kept # <<>> THEN kept ELSE IF dated THEN DatedCycles(answer) ELSE LiveCycles(answer, clock)

-----------------------------------------------------------------------------
(* The file of a forecast *)

Valid(f) == f[1] + f[2]

\* A listing in the order of valid times, the earlier run first where two are valid at the same time.
ByValidTime(files) ==
    SetToSortSeq(files, LAMBDA f, g : Valid(f) < Valid(g) \/ (Valid(f) = Valid(g) /\ f[1] < g[1]))

\* Mutant: the files of other runs are candidates beside those of the run.
BugCandidates(files, run) == files

\* The files of the run, and those of any run where it has none.
Candidates(files, run) ==
    LET own == {f \in files : f[1] = run} IN IF own # {} THEN own ELSE files

\* resolveLayerTime names the file of the sample: the first of that time for "nearest", else the last.
Resolved(sorted, target, policy) ==
    LET times == [i \in DOMAIN sorted |-> Valid(sorted[i])]
        shown == MatchSample(times, target, policy)
        at == {i \in DOMAIN sorted : times[i] = shown}
    IN  sorted[CHOOSE i \in at : \A j \in at : IF policy = "nearest" \/ shown > target THEN i <= j ELSE j <= i]

\* Without a policy and an offset: the file of the lead time, else the candidate whose lead time is closest.
ByLead(sorted, run, period) ==
    LET leads == [i \in DOMAIN sorted |-> sorted[i][2]]
    IN  IF <<run, period>> \in ToSet(sorted) THEN <<run, period>> ELSE sorted[ClosestIndex(leads, period, {})]

\* The file loadWeatherField reads for a forecast; the cursor is where the timeline stands.
FieldFile(files, run, period, policy, offset, cursor) ==
    LET sorted == ByValidTime(Candidates(files, run))
        resolved == policy # "none" \/ offset # 0
        later == period + offset
    IN  CASE files = {} -> <<run, IF later < 0 THEN 0 ELSE later>>
          [] files # {} /\ resolved ->
                 Resolved(sorted, cursor + offset, IF policy = "none" THEN "nearest" ELSE policy)
          [] files # {} /\ ~resolved -> ByLead(sorted, run, period)

-----------------------------------------------------------------------------
(* The file of an observation *)

\* getObsStepOptions, in minutes, and the default.
ObsStepOptions(sort) ==
    CASE sort = "upper" -> {360, 720, 1440}
      [] sort = "satellite" -> {15, 60, 180, 360, 720, 1440}
      [] OTHER -> {60, 180, 360, 720, 1440}
DefaultStep(sort) == IF sort = "upper" THEN 720 ELSE 180
StepUsed(sort, step, forced) == IF ~forced /\ step \in ObsStepOptions(sort) THEN step ELSE DefaultStep(sort)

\* Mutant: the nearest scan of the channel counts however far it is.
BugMatchCurrent(current, chips, satellite) ==
    CASE current \in Elements(chips) -> current
      [] satellite /\ current # Nil /\ chips # <<>> -> FindClosestFile(chips, current)
      [] OTHER -> Nil

\* matchCurrentObsFile: the file itself, or for a scan of another channel the one nearest to it, within an hour.
MatchCurrent(current, chips, satellite) ==
    LET near == FindClosestFile(chips, current)
    IN  CASE current \in Elements(chips) -> current
          [] satellite /\ current \notin Elements(chips) /\ current # Nil /\ chips # <<>>
                 -> IF Abs(near - current) <= 60 THEN near ELSE Nil
          [] OTHER -> Nil

\* generateHistoricalMockObsFiles: made-up files, every three hours up to the evening of the day.
MadeUpFiles == Upto(FcDay * 60 + 1200 - 54 * 180, FcDay * 60 + 1200, 180)

\* What a listing that fails or is empty is replaced with.
Listed(files) == IF files = <<>> THEN MadeUpFiles ELSE files

\* syncObservationTimeline: the file the window is set to, of what was listed.
SyncedFile(files, current, sort, step, forced) ==
    LET chips == FilterObsFiles(files, StepUsed(sort, step, forced), sort = "upper")
        kept == IF forced THEN Nil ELSE MatchCurrent(current, chips, sort = "satellite")
    IN  CASE kept # Nil -> kept
          [] kept = Nil /\ chips # <<>> -> LastOf(chips)
          [] OTHER -> LastOf(files)

\* The scan loadWeatherField draws: the file the window is set to, where it is listed, else the newest.
ScanFile(files, asked) == IF asked \in Elements(files) THEN asked ELSE LastOf(files)

-----------------------------------------------------------------------------
(* The level a layer is read at *)

\* A layer of a preset with levels: the level it, its name and its path tell; Nil where they tell none.
LevelLayers ==
    {l \in [sort : {"sounding", "contour", "vortical", "scan", "field"}, derived : BOOLEAN,
            at : {1}, name : {Nil, 1}, path : {Nil, 1}] :
        /\ l.derived => l.sort \in {"contour", "vortical"}
        /\ l.sort = "vortical" => l.derived /\ l.path = Nil
        /\ l.sort = "scan" => l.path = Nil}

\* Mutant: the rewriting of a sounding leaves its path.
BugLevelRewritten(l, level) ==
    IF l.sort \in {"sounding", "contour"} THEN [l EXCEPT !.at = level, !.name = level] ELSE [l EXCEPT !.at = level]

\* The rewriting of presetLoader, at any load with a level.
LevelRewritten(l, level) ==
    CASE l.sort = "sounding" -> [l EXCEPT !.at = level, !.path = level, !.name = level]
      [] l.sort = "contour" /\ l.derived -> [l EXCEPT !.at = level, !.name = level]
      [] OTHER -> [l EXCEPT !.at = level]

\* The rewriting of levelController, at a level step, which then loads the preset.
LevelStepped(l, level) ==
    IF l.sort = "vortical" THEN [l EXCEPT !.at = level, !.name = level] ELSE LevelRewritten(l, level)

\* The level a field is read at: the level its path spells out, else the one asked for, as the directory of it or as a
\* parameter.
PathLevel(l, level) == IF l.sort \in {"contour", "field"} /\ l.path # Nil THEN l.path ELSE level

\* Contours that go with a layer of soundings are drawn from its stations; everything else is read by its path.
LevelRead(l, level, withSounding) ==
    IF l.sort = "contour" /\ (l.derived \/ withSounding) THEN level ELSE PathLevel(l, level)

-----------------------------------------------------------------------------
(* How old a sample may be *)

\* DEFAULT_TOLERANCES, in minutes; a product's element, model and type as the code tells them apart.
TableTolerance ==
    [RADAR |-> 10, SATELLITE |-> 20, SURFACE |-> 90, PLOT_GLOBAL_3H |-> 180, SLP |-> 180, RAIN6 |-> 360,
     UPPER_AIR |-> 720, TLOGP |-> 720, ECMWF_HR |-> 360, GRAPES_GFS |-> 360, TMP |-> 360, DEFAULT |-> 60]

\* Mutant: the stations' own tolerance goes before those of their elements.
BugDefaultTolerance(p) ==
    IF p.model = "SURFACE" THEN TableTolerance.SURFACE
    ELSE IF p.element \in DOMAIN TableTolerance THEN TableTolerance[p.element] ELSE TableTolerance.DEFAULT

\* getDefaultToleranceForLayer: the rules, then the tables by element and by model.
DefaultTolerance(p) ==
    CASE p.element \in {"RADAR", "CREF"} -> TableTolerance.RADAR
      [] p.element = "VIS" \/ p.model = "SATELLITE" -> TableTolerance.SATELLITE
      [] p.model = "UPPER_AIR" -> TableTolerance.UPPER_AIR
      [] p.model \notin {"SATELLITE", "UPPER_AIR"} /\ p.element = "SLP" -> TableTolerance.SLP
      [] p.model \notin {"SATELLITE", "UPPER_AIR"} /\ p.element = "RAIN6" -> TableTolerance.RAIN6
      [] p.model = "SURFACE" /\ p.element \notin {"RADAR", "CREF", "VIS", "SLP", "RAIN6"} -> TableTolerance.SURFACE
      [] p.model \notin {"SATELLITE", "UPPER_AIR", "SURFACE"}
             /\ p.element \notin {"RADAR", "CREF", "VIS", "SLP", "RAIN6"} ->
             IF p.element \in DOMAIN TableTolerance THEN TableTolerance[p.element]
             ELSE IF p.model \in DOMAIN TableTolerance THEN TableTolerance[p.model] ELSE TableTolerance.DEFAULT

\* formatOffset and parseOffset of the offset box of a layer: a text is a sign, hours and minutes, either of which may
\* be missing; a text with both is read as the number it starts with, in minutes.
OffsetText(n) ==
    [sign |-> IF n < 0 THEN -1 ELSE 1, hours |-> IF Abs(n) >= 60 THEN Abs(n) \div 60 ELSE Nil,
     minutes |-> IF Abs(n) >= 60 /\ n % 60 = 0 THEN Nil ELSE Abs(n) % 60]
OffsetRead(text) ==
    text.sign * (CASE text.hours = Nil -> text.minutes
                   [] text.hours # Nil /\ text.minutes = Nil -> 60 * text.hours
                   [] OTHER -> text.hours)

-----------------------------------------------------------------------------
(* The cases *)

\* What the server's queries of a directory answer: `behind`, its newest run is still without the lead time the index
\* is made of; `down`, the queries that fail.
Answered(have, behind, down, dated) ==
    LET seen == IF dated THEN UpToDay(have) ELSE have
        whole == IF behind /\ seen # {} THEN seen \ {Newest(seen)} ELSE seen
        newest == IF whole = {} THEN Unnamed ELSE Newest(whole)
    IN  [indexFails |-> "index" \in down, aboveNewest |-> Unnamed,
         newest |-> IF "index" \in down THEN Unnamed ELSE newest, tree |-> IF "tree" \in down THEN {} ELSE seen]

FcInit ==
    \/ case \in [kind : {"runs"}, have : (SUBSET FcRuns) \ {{}}, behind : BOOLEAN, down : SUBSET {"index", "tree"},
                 dated : BOOLEAN, forced : BOOLEAN, downBefore : BOOLEAN]
    \/ \E F \in SUBSET ({8, 20} \X FcLeads) :
           case \in [kind : {"field"}, files : {F}, run : {20}, period : FcLeads \cup {9}, offset : {0, -6, 3},
                     policy : {"none", "nearest", "hold", "latest-at"}]
    \/ \E S \in SUBSET FcScans :
           case \in [kind : {"synced"}, files : {Listed(Listing(S))}, current : FcScans \cup {Nil},
                     sort : {"upper", "satellite", "surface"}, step : {15, 180, 720}, forced : BOOLEAN]
    \/ case \in [kind : {"level"}, layer : LevelLayers, level : {2}, stepped : BOOLEAN, withSounding : BOOLEAN]
    \/ case \in [kind : {"aged"},
                 product : [element : {"RADAR", "SLP", "RAIN6", "PLOT_GLOBAL_3H", "TMP", "VIS", "any"},
                            model : {"SURFACE", "UPPER_AIR", "SATELLITE", "ECMWF_HR", "CLDAS"}]]
    \/ case \in [kind : {"offset"}, offset : -130..130]

FcCase(kind) == case # NoCase /\ case.kind = kind

-----------------------------------------------------------------------------
(* Properties *)

Gave(down) == Answered(case.have, case.behind, down, case.dated)
KeptBefore == IF ~case.downBefore THEN <<>>
              ELSE ResolveForecastCycles(<<>>, TRUE, case.dated, Gave({"index", "tree"}), FcDay + 30)
OfferedRuns == ResolveForecastCycles(KeptBefore, case.forced, case.dated, Gave(case.down), FcDay + 30)

\* The runs a forecast is offered (timelineSync 118-240): newest first, none after the day looked at; while the server
\* answers anything, the first is a run there is and no run that is whole is newer; unless the list was guessed while
\* nothing answered and is still kept.
RunsOffered ==
    FcCase("runs") =>
        LET a == Gave(case.down)
            guessed == case.downBefore /\ ~case.forced
            known == a.newest # Unnamed \/ a.tree # {}
        IN  /\ \A i \in 1..Len(OfferedRuns) - 1 : OfferedRuns[i + 1] < OfferedRuns[i]
            /\ case.dated => UpToDay(ToSet(OfferedRuns)) = ToSet(OfferedRuns)
            /\ known /\ ~guessed => /\ OfferedRuns[1] \in case.have
                                    /\ a.newest <= OfferedRuns[1]
            /\ OfferedRuns # <<>>

\* The file a forecast is drawn from (weatherLoader 175-311): one of the window's run while it has any; of the lead
\* time asked for if there is one, else the closest; a policy that holds never shows what is not valid yet while there
\* is something that is; and "nearest", which goes by the valid time, shows what no policy shows, by the lead time.
FieldFollows ==
    FcCase("field") =>
        LET cursor == case.run + case.period
            file == FieldFile(case.files, case.run, case.period, case.policy, case.offset, cursor)
            own == {f \in case.files : f[1] = case.run}
            plain == FieldFile(case.files, case.run, case.period, "none", 0, cursor)
            past == {f \in own : Valid(f) <= cursor + case.offset}
        IN  own # {} =>
                /\ file \in own
                /\ <<case.run, case.period>> \in own => plain = <<case.run, case.period>>
                /\ \A f \in own : Abs(plain[2] - case.period) <= Abs(f[2] - case.period)
                /\ case.policy \in {"hold", "latest-at"} /\ past # {} =>
                       file \in past /\ \A f \in past : Valid(f) <= Valid(file)
                /\ case.policy \in {"none", "nearest"} /\ case.offset = 0 => file = plain

\* The file an observation window is set to (timelineSync 258-358): one that is listed, drawn as such, and a chip of the
\* slider while it shows any; the one it was at if that is among them; for another channel never one further than an
\* hour, which then is the latest instead; and after a fresh load the last of the default chips.
SyncKeepsTime ==
    FcCase("synced") =>
        LET chips == FilterObsFiles(case.files, StepUsed(case.sort, case.step, case.forced), case.sort = "upper")
            file == SyncedFile(case.files, case.current, case.sort, case.step, case.forced)
        IN  /\ ScanFile(case.files, file) = file
            /\ chips # <<>> => file \in Elements(ObsChips(chips, file, 2))
            /\ ~case.forced /\ case.current \in Elements(chips) => file = case.current
            /\ chips # <<>> /\ (file # LastOf(chips)) =>
                   ~case.forced /\ Abs(file - case.current) <= (IF case.sort = "satellite" THEN 60 ELSE 0)

\* Every layer of a preset is read at the level asked for (presetLoader 163-200, 277-287, weatherLoader 84-102,
\* levelController 77-130), except one whose path spells a level out and that is drawn by itself; a name that tells a
\* level tells that level, for soundings and the contours derived from them; and a level step, which rewrites the
\* layers before the load does, reads nothing else.
LevelsRead ==
    FcCase("level") =>
        LET loaded == LevelRewritten(case.layer, case.level)
            now == IF case.stepped THEN LevelRewritten(LevelStepped(case.layer, case.level), case.level) ELSE loaded
            spelled == case.layer.path # Nil /\ ~case.layer.derived /\ case.layer.sort \in {"contour", "field"}
        IN  /\ LevelRead(now, case.level, case.withSounding) = case.level
                   \/ (spelled /\ ~(case.layer.sort = "contour" /\ case.withSounding))
            /\ LevelRead(now, case.level, case.withSounding) = LevelRead(loaded, case.level, case.withSounding)
            /\ now.at = case.level
            /\ case.layer.sort = "sounding" \/ (case.layer.sort = "contour" /\ case.layer.derived) =>
                   now.name = case.level
            /\ case.layer.sort = "sounding" => now.path = case.level

\* A product the table has a tolerance for gets it (timeResolver 34-58, 421-460): by its element, else by its model.
\* Not so the stations' three-hourly plots and whatever is called visibility: the rules for stations and for
\* satellites go before, and a satellite or sounding product is told by its model alone.
ToleranceOfTable ==
    FcCase("aged") =>
        LET p == case.product
        IN  \/ p.element \in DOMAIN TableTolerance /\ DefaultTolerance(p) = TableTolerance[p.element]
            \/ p.element \notin DOMAIN TableTolerance /\ p.model \in DOMAIN TableTolerance
               /\ DefaultTolerance(p) = TableTolerance[p.model]
            \/ p.element \notin DOMAIN TableTolerance /\ p.model \notin DOMAIN TableTolerance
               /\ DefaultTolerance(p) = TableTolerance.DEFAULT
            \/ p.model \in {"SATELLITE", "UPPER_AIR"} \/ p.element = "VIS"
            \/ p.model = "SURFACE" /\ p.element \in {"PLOT_GLOBAL_3H", "TMP"}

\* The offset box reads back what it shows (timeResolver 128-176), except hours with minutes.
OffsetReadsBack ==
    FcCase("offset") => \/ OffsetRead(OffsetText(case.offset)) = case.offset
                        \/ Abs(case.offset) > 60 /\ case.offset % 60 # 0

FileChoiceSound ==
    RunsOffered /\ FieldFollows /\ SyncKeepsTime /\ LevelsRead /\ ToleranceOfTable /\ OffsetReadsBack
=============================================================================
