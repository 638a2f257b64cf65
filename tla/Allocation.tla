----------------------------- MODULE Allocation -----------------------------
(* What the windows of a split are dealt (applyAutoAllocation, tabsCore.js),   *)
(* which of them are loaded again, what their sliders then say                 *)
(* (applyAutoAllocationModeToTab, App.svelte), the models that can be dealt,   *)
(* and what becomes of the names of layers: pure functions, tried on every     *)
(* input from small sets.  A run is the hour it started at, an observation the *)
(* minute; the windows of a split are numbered from 0, as the slots are.       *)
EXTENDS TimelineCases, SequencesExt

NoLevel == 0
AlSlots == 0..5

DefaultLevels == <<500, 850, 1000, 200, 700, 925, 400, 300, 100>>
SatelliteLevels == <<12, 9, 8, 2, 1, 13, 7, 3, 10, 11, 14, 15, 4, 5, 6>>
DefaultModels == <<"ECMWF_HR", "GRAPES_GFS", "GRAPES_3KM", "SHANGHAI_MR", "BEIJING_MR", "JAPAN_MR">>

\* The window the others are dealt from, and the slider it has.
PlainBase == [mode |-> "level", obs |-> FALSE, level |-> 500, levels |-> <<>>, satellite |-> "no",
          models |-> DefaultModels, period |-> 24, step |-> 6, periods |-> <<>>, rain |-> 0,
          cycle |-> 480, cycles |-> <<>>, time |-> Epoch, files |-> <<>>]

-----------------------------------------------------------------------------
(* Levels and models *)

AlWithout(s, x) == SelectSeq(s, LAMBDA y : y # x)
RoundAt(s, i) == s[(i % Len(s)) + 1]

\* Mutant: what a window shows of a satellite is taken for a pressure.
BugMultiChannel(b) == b.satellite = "FY4" /\ b.levels # <<>>

\* isMultiChannelSatellite: by the list of levels, by the level, or by the name.
MultiChannel(b) ==
    /\ b.satellite # "no"
    /\ IF b.levels # <<>> THEN Elements(b.levels) \subseteq 1..36
       ELSE b.level \in 1..36 \/ b.satellite = "FY4"

\* The channels of a satellite, the customary ones first.
CustomaryFirst(list) == SelectSeq(SatelliteLevels, LAMBDA c : c \in Elements(list))
                        \o SelectSeq(list, LAMBDA c : c \notin Elements(SatelliteLevels))

\* What the levels are dealt from.
LevelList(b) ==
    CASE MultiChannel(b) /\ b.levels # <<>> -> CustomaryFirst(b.levels)
      [] MultiChannel(b) /\ b.levels = <<>> -> SatelliteLevels
      [] OTHER -> b.levels

\* Mutant: the level of the window itself is not left out.
BugFromList(list, own, i) == IF i = 0 THEN own ELSE RoundAt(list, i - 1)

\* Slot 0 has the level of the window, the others go round the rest.
FromList(list, own, i) ==
    LET pool == AlWithout(list, own)
    IN  CASE i = 0 -> own
          [] i > 0 /\ pool # <<>> -> RoundAt(pool, i - 1)
          [] OTHER -> RoundAt(list, i)

LevelFor(b, i) ==
    IF LevelList(b) = <<>> THEN DefaultLevels[i + 1]
    ELSE FromList(LevelList(b), IF b.level = NoLevel THEN Head(LevelList(b)) ELSE b.level, i)

\* queryModelSupportedLevels: what the server says of the element, or else, when that
\* fails, of the model ("has" the level, "lacks" it, an "empty" list, or it "fails").
QueriedLevels(answers, e) == IF answers[e] = "fails" THEN answers["any"] ELSE answers[e]

\* Mutant: a model of which no list of levels is known is left out.
BugLayerSupported(answers, e) == e = "SLP" \/ QueriedLevels(answers, e) = "has"

\* isModelLayerSupported: what is not known counts as there, and so does what is
\* at the ground.
LayerSupported(answers, e) == e = "SLP" \/ QueriedLevels(answers, e) # "lacks"

\* getEligibleModelsForAllocation: the models with one layer of the preset at least;
\* all of them if there is none, or if the preset has no level.
EligibleModels(catalog, models, layers, hasLevel) ==
    LET some == SelectSeq(models, LAMBDA m : \E e \in layers : LayerSupported(catalog[m], e))
    IN  IF ~hasLevel \/ some = <<>> THEN models ELSE some

-----------------------------------------------------------------------------
(* Lead times, runs and observations *)

BasePeriod(b) == IF b.period < b.rain THEN b.rain ELSE b.period

PeriodLists == [step \in {1, 3, 6, 12, 24} |-> PeriodsForStep(step, 240)]

\* The list of the window if its spacing is its step, else that of the step.
PeriodsOf(b) ==
    IF Len(b.periods) >= 2 /\ Abs(b.periods[2] - b.periods[1]) = b.step THEN b.periods
    ELSE PeriodLists[b.step]

\* The place of the window's lead time in the list, or the nearest to it.
PlaceOfPeriod(periods, b) ==
    IF BasePeriod(b) \in Elements(periods) THEN IndexOf(periods, BasePeriod(b))
    ELSE ClosestIndex(periods, BasePeriod(b), {p \in Elements(periods) : p < b.rain})

\* The following lead times; past the end of the list, so many steps from the first.
PeriodFor(b, i) ==
    LET periods == PeriodsOf(b)
        at == PlaceOfPeriod(periods, b)
    IN  IF at + i <= Len(periods) THEN periods[at + i] ELSE periods[at] + i * b.step

\* The spacing of the runs.
RunStep(b) ==
    LET apart == IF Len(b.cycles) >= 2 THEN Abs(b.cycles[1] - b.cycles[2]) ELSE 0
    IN  CASE apart \in 1..48 -> apart
          [] apart \notin 1..48 /\ b.step = 6 -> 12
          [] OTHER -> b.step
CycleFor(b, i) ==
    LET at == IndexOf(b.cycles, b.cycle)
    IN  IF at # Nil /\ at + i <= Len(b.cycles) THEN b.cycles[at + i]
        ELSE b.cycle - i * RunStep(b)

\* stepCycleHours: the stamp in the name of a file, so many hours on.
StepCycleHours(time, hours) == time + 60 * hours

\* The files before the window's; before the first, so many steps from the window's.
TimeFor(b, i) ==
    LET at == IndexOf(b.files, b.time)
    IN  IF at # Nil /\ at - i >= 1 THEN b.files[at - i] ELSE StepCycleHours(b.time, -(i * b.step))

-----------------------------------------------------------------------------
(* The deal *)

DealtOut(level, model, period, cycle, time) ==
    [level |-> level, model |-> model, period |-> period, cycle |-> cycle, time |-> time]

\* Mutant: the windows of an initial-time contrast keep the lead time.
BugDealtTo(b, i) ==
    DealtOut(b.level, "own", BasePeriod(b), IF b.mode = "time" THEN CycleFor(b, i) ELSE b.cycle, b.time)

\* applyAutoAllocation, the i-th visible window.
DealtTo(b, i) ==
    CASE b.mode = "level" -> DealtOut(LevelFor(b, i), "own", BasePeriod(b), b.cycle, b.time)
      [] b.mode = "model" -> DealtOut(b.level, RoundAt(b.models, i), BasePeriod(b), b.cycle, b.time)
      [] b.mode \in {"step", "time"} /\ b.obs ->
             DealtOut(b.level, "own", b.period, b.cycle, TimeFor(b, i))
      [] b.mode = "step" /\ ~b.obs -> DealtOut(b.level, "own", PeriodFor(b, i), b.cycle, b.time)
      [] b.mode = "time" /\ ~b.obs ->
             DealtOut(b.level, "own", BasePeriod(b) + b.cycle - CycleFor(b, i), CycleFor(b, i), b.time)

\* The window dealt from, with what it was dealt in slot i.
Redealt(b, i) ==
    LET d == DealtTo(b, i)
    IN  [b EXCEPT !.level = d.level, !.period = d.period, !.cycle = d.cycle, !.time = d.time]

\* shouldSkipWindowReload: the base window's map is left alone if what its mode deals
\* out is what it had.
SkipsReload(b, i) ==
    LET d == DealtTo(b, i)
    IN  CASE b.mode = "level" -> d.level = b.level
          [] b.mode = "model" -> d.model = "own"
          [] b.mode \in {"step", "time"} /\ b.obs -> d.time = b.time
          [] b.mode = "step" /\ ~b.obs -> d.period = b.period
          [] b.mode = "time" /\ ~b.obs -> d.cycle = b.cycle /\ d.period = b.period

\* What the slider of a window is set to: its lists are those of the base, and its
\* index is that of the value dealt, if the list has it (Nil: left as it was).
SliderOf(b, i) ==
    LET d == DealtTo(b, i)
    IN  IF b.obs THEN [list |-> b.files, at |-> IndexOf(b.files, d.time)]
        ELSE [list |-> IF b.mode = "step" THEN PeriodsOf(b) ELSE b.periods,
              at |-> IndexOf(IF b.mode = "step" THEN PeriodsOf(b) ELSE b.periods, d.period)]

-----------------------------------------------------------------------------
(* The names of layers *)

\* A name is a sequence of words, that of a model first, in full or its first word.
ModelName(m) == CASE m = "ECMWF_HR" -> <<"ECMWF", "HR">> [] m = "GRAPES_GFS" -> <<"GRAPES", "GFS">>
             [] m = "GRAPES_3KM" -> <<"GRAPES", "3KM">>

\* Mutant: only the full name of the model is replaced.
BugLayerRenamed(id, old, new) ==
    IF IsPrefix(ModelName(old), id) THEN ModelName(new) \o SubSeq(id, 3, Len(id)) ELSE id

\* replaceAll(oldM, newM), and then of the first word of the old name as well.
LayerRenamed(id, old, new) ==
    LET full == IF IsPrefix(ModelName(old), id) THEN ModelName(new) \o SubSeq(id, 3, Len(id)) ELSE id
    IN  FoldLeft(LAMBDA done, w : IF w = Head(ModelName(old)) THEN done \o ModelName(new)
                                  ELSE Append(done, w), <<>>, full)

\* Where a layer is from: a model's file or a field derived from one, the stations or
\* a field derived from them, or an image.
AlSources == {"model", "derived", "stations", "derived stations", "satellite"}
AlLayer(source, type) ==
    [type |-> type, model |-> IF source \in {"model", "derived"} THEN "own" ELSE source, path |-> source,
     derived |-> source \in {"derived", "derived stations"},
     stations |-> source \in {"stations", "derived stations"}]

\* Mutant: the path of a field derived from a model is kept.
BugPathDealt(layer, model) == IF layer.derived THEN layer.path ELSE model

\* replaceModelInPath: the model in the path of a file or of a derived field, unless
\* that is one of stations.
PathDealt(layer, model) == IF layer.derived /\ layer.stations THEN layer.path ELSE model

\* The layers of a window that is dealt a model: all but those of stations, since every
\* layer has a model by name or a type that is drawn from one.
LayerDealt(layer, model) ==
    IF layer.stations THEN layer
    ELSE [layer EXCEPT !.model = model, !.path = PathDealt(layer, model)]

\* The day of an hour, as two windows of a split are never a month apart.
DayLabel(hour) == (hour \div 24) % 31

\* The label of a window in the split: its level, its model, its lead time, its run with
\* the lead time, or the day and time of its observation.
BugBadge(b, i) ==
    LET d == DealtTo(b, i)
    IN  CASE b.mode = "level" -> <<d.level>> [] b.mode = "model" -> <<d.model>>
          [] b.mode \in {"step", "time"} /\ b.obs ->
                 <<DayLabel(d.time \div 60), Hour(d.time)>>
          [] b.mode = "step" /\ ~b.obs -> <<d.period>>
          [] b.mode = "time" /\ ~b.obs -> <<DayLabel(d.cycle), d.cycle % 24, d.period>>
Badge(b, i) ==
    LET d == DealtTo(b, i)
    IN  CASE b.mode = "level" -> <<d.level>> [] b.mode = "model" -> <<d.model>>
          [] b.mode \in {"step", "time"} /\ b.obs ->
                 <<DayLabel(d.time \div 60), Hour(d.time), d.time % 60>>
          [] b.mode = "step" /\ ~b.obs -> <<d.period>>
          [] b.mode = "time" /\ ~b.obs -> <<DayLabel(d.cycle), d.cycle % 24, d.period>>
-----------------------------------------------------------------------------
(* The cases *)

Answers == {"has", "lacks", "empty", "fails"}
Catalogs == [{"ECMWF_HR", "GRAPES_GFS"} ->
                {a \in [{"HGT", "WIND", "any"} -> Answers] : a["any"] # "empty"}]
Runs6 == {SetToSortSeq(S, LAMBDA x, y : x > y) : S \in SUBSET {480, 474, 468, 456, 384}}
AlBases ==
    {[PlainBase EXCEPT !.levels = l, !.satellite = s, !.level = v] :
        l \in {<<>>, <<500>>, <<500, 700, 850>>, <<1, 9, 12, 13, 2>>, <<13>>, <<12, 40>>},
        s \in {"no", "FY4", "FY2"}, v \in {500, 850, 300, 12, 13, 40, NoLevel}}
    \cup {[PlainBase EXCEPT !.mode = "model", !.models = SubSeq(DefaultModels, 1, n)] : n \in 1..6}
    \cup {[PlainBase EXCEPT !.mode = "step", !.step = s, !.periods = p, !.period = v, !.rain = r] :
            s \in {1, 3, 6, 12, 24}, p \in {<<>>, PeriodsForStep(6, 240), PeriodsForStep(12, 240)},
            v \in {0, 6, 24, 66, 114, 120, 228, 240}, r \in {0, 12, 24}}
    \cup {[PlainBase EXCEPT !.mode = "time", !.cycles = c, !.cycle = v, !.step = s,
                        !.periods = PeriodsForStep(s, 240), !.period = p] :
            c \in Runs6, v \in {480, 468, 456}, s \in {3, 6, 12}, p \in {24, 114, 228}}
    \cup {[PlainBase EXCEPT !.mode = m, !.obs = TRUE, !.files = f, !.time = v, !.step = s] :
            m \in {"step", "time"}, f \in FileLists, v \in FileTimes, s \in {3}}

AlInit ==
    \/ case \in [kind : {"deal"}, base : AlBases]
    \/ case \in [kind : {"models"}, catalog : Catalogs, hasLevel : BOOLEAN,
                 layers : {{"HGT", "WIND"}, {"HGT", "SLP"}}]
    \/ case \in [kind : {"layer"}, source : AlSources, type : {"contour", "wind", "station", "image"},
                 model : {"ECMWF_HR", "GRAPES_GFS"}]
    \/ case \in [kind : {"name"}, old : {"ECMWF_HR", "GRAPES_GFS"}, short : BOOLEAN,
                 new : {"ECMWF_HR", "GRAPES_GFS", "GRAPES_3KM"}]
-----------------------------------------------------------------------------
(* What the windows of a split can be relied on for *)

\* What a mode deals out, and the rest.
ContrastOf(b, d) == CASE b.mode = "level" -> d.level [] b.mode = "model" -> d.model
                    [] b.obs -> d.time [] b.mode = "step" -> d.period [] b.mode = "time" -> d.cycle
DealChoices(b) == CASE b.mode = "level" /\ LevelList(b) # <<>> ->
                          (Elements(LevelList(b)) \cup {b.level}) \ {NoLevel}
                [] b.mode = "level" /\ LevelList(b) = <<>> -> Elements(DefaultLevels)
                [] b.mode = "model" -> Elements(b.models)
                [] OTHER -> AlSlots

\* The list runs out before the slots do: what follows is counted from the base
\* window by its step, and the list need not be spaced by it.
RunsOut(b, i) ==
    CASE b.mode \in {"level", "model"} -> FALSE
      [] b.mode \in {"step", "time"} /\ b.obs ->
             b.time \in Elements(b.files) /\ IndexOf(b.files, b.time) - i < 1
      [] b.mode = "step" /\ ~b.obs -> PlaceOfPeriod(PeriodsOf(b), b) + i > Len(PeriodsOf(b))
      [] b.mode = "time" /\ ~b.obs ->
             b.cycle \in Elements(b.cycles) /\ IndexOf(b.cycles, b.cycle) + i > Len(b.cycles)

\* The windows of a split show different things, as long as there are as many to
\* show and the list of the base window does not run out.
EachItsOwn(b) ==
    LET own == {i \in AlSlots : i < Cardinality(DealChoices(b)) /\ ~RunsOut(b, i)}
    IN  Cardinality({ContrastOf(b, DealtTo(b, i)) : i \in own}) = Cardinality(own)

\* They are in order: lead times rise, runs and observations go back.
InOrder(b) ==
    \A i \in 0..4 :
        b.mode \in {"step", "time"} /\ ~RunsOut(b, i + 1) =>
            LET x == ContrastOf(b, DealtTo(b, i))
                y == ContrastOf(b, DealtTo(b, i + 1))
            IN  IF b.mode = "step" /\ ~b.obs THEN x < y ELSE y < x

\* What differs has another label.
BadgesTell(b) ==
    LET labels == {Badge(b, i) : i \in AlSlots}
    IN  Cardinality({<<Badge(b, i), ContrastOf(b, DealtTo(b, i))>> : i \in AlSlots}) = Cardinality(labels)

\* The windows of an initial-time contrast are valid at one time.
ValidTogether(b) ==
    b.mode = "time" /\ ~b.obs =>
        \A i \in AlSlots : DealtTo(b, i).cycle + DealtTo(b, i).period = b.cycle + BasePeriod(b)

\* The imager of the FY4 has channels and no pressures.
ChannelsOnly(b) ==
    b.mode = "level" /\ b.satellite = "FY4" /\ (b.level \in 1..36 \/ b.level = NoLevel)
        /\ Elements(b.levels) \subseteq 1..36
        => \A i \in AlSlots : DealtTo(b, i).level \in 1..36

\* An accumulation has no value before its hours are over.
RainHolds(b) == \A i \in AlSlots : DealtTo(b, i).period >= b.rain

\* Dealing again from the first window changes nothing; from another it shifts the
\* whole split, which is so for the modes that count from the base.
DealSettled(b) == \A i \in AlSlots : DealtTo(Redealt(b, 0), i) = DealtTo(b, i)

\* A window whose map is not loaded again shows what it was dealt.
SkipIsSound(b) ==
    \A i \in AlSlots :
        SkipsReload(b, i) => LET d == DealtTo(b, i)
                             IN  <<d.level, d.period, d.cycle, d.time>> =
                                      <<b.level, b.period, b.cycle, b.time>>

\* A slider that has the value dealt points at it: always, unless the list ran out or
\* the lead times of an initial-time contrast are not in it.
SliderTells(b) ==
    \A i \in AlSlots :
        LET s == SliderOf(b, i)
        IN  b.mode = "step" /\ ~b.obs /\ ~RunsOut(b, i) =>
                s.at # Nil /\ s.list[s.at] = DealtTo(b, i).period

\* In a contrast of models an image is given the name and the path of a model.
ForeignSources == {"satellite"}

\* The split (tabsCore.js): its windows differ in what its mode deals out and agree
\* in the rest, whatever the base window had.
AllocationSound ==
    /\ case.kind = "deal" =>
           /\ EachItsOwn(case.base) /\ BadgesTell(case.base) /\ InOrder(case.base)
           /\ ValidTogether(case.base) /\ ChannelsOnly(case.base)
           /\ RainHolds(case.base) /\ DealSettled(case.base) /\ SkipIsSound(case.base)
           /\ SliderTells(case.base)
    /\ case.kind = "models" =>
           LET models == <<"ECMWF_HR", "GRAPES_GFS">>
               dealt == EligibleModels(case.catalog, models, case.layers, case.hasLevel)
               Answered(m, e) == case.catalog[m][e] # "fails"
               Shows(m) == \E e \in case.layers : e = "SLP" \/ case.catalog[m][e] = "has"
               Blank(m) == \A e \in case.layers : e # "SLP" /\ case.catalog[m][e] = "lacks"
           IN  /\ dealt # <<>> /\ IsInjective(dealt)
               /\ \A m \in Elements(models) : Shows(m) => m \in Elements(dealt)
               /\ \A m \in Elements(models) \ Elements(dealt) :
                      \A e \in case.layers : Answered(m, e) => case.catalog[m][e] = "lacks"
               /\ case.hasLevel =>
                      \A m \in Elements(dealt) :
                          Blank(m) => \A o \in Elements(models) : ~Shows(o)
    /\ case.kind = "layer" =>
           LET was == AlLayer(case.source, case.type)
               dealt == LayerDealt(was, case.model)
           IN  IF case.source \in {"model", "derived"}
               THEN dealt.model = case.model /\ dealt.path = case.model
               ELSE case.source \notin ForeignSources => dealt = was
    /\ case.kind = "name" =>
           LET old == ModelName(case.old)
               id == (IF case.short THEN <<Head(old)>> ELSE old) \o <<"HGT">>
           IN  Head(ModelName(case.old)) # Head(ModelName(case.new)) =>
                   LayerRenamed(id, case.old, case.new) = ModelName(case.new) \o <<"HGT">>
=============================================================================
