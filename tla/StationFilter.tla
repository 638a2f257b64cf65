----------------------------- MODULE StationFilter ----------------------------
(* The filter of the station plots: the rules of a station layer, their panel  *)
(* (StationFilter.svelte), the copies a change is written to (the store, the   *)
(* preset of the window, its snapshots and the canvas of its map) and what the *)
(* canvas then draws (stationFilter.js, stationCanvas.js, stationPlot.js).     *)
(* Temperature, dew point, DTD and visibility are gated as the wind is, and    *)
(* pressure and height share a slot as the two rains do: the elements here are *)
(* one of each kind.  The stations' values are in the units of the rules.      *)
EXTENDS Integers, Sequences, FiniteSets, SequencesExt

CONSTANTS
    FtMaxOps,         \* what the operator does in all
    FtUnfilteredCap,  \* stations a cell shows when nothing is filtered (5 in the code)
    FtFilteredCap,    \* and when something is (10)
    FtDense           \* matches from which a filter no longer overrides the zoom (500)

VARIABLES
    ftPreset,    \* what the presets of the windows say of each layer
    ftStore,     \* the layers of the windows, in the store
    ftEnsured,   \* the layers whose copy in the panel has had its rules filled in
    ftEntry,     \* their entries on the canvas
    ftFall,      \* the configuration a canvas falls back on (state.config)
    ftSnap,      \* the snapshots of a window that is being reloaded
    ftPhase,     \* the layer a reload has come to
    ftPanel,     \* the panel's own copy of the rules
    ftFocus,     \* the active window
    ftCount,     \* what the operator has done
    ftOdd        \* which of the named exceptions have happened
ftVars == <<ftPreset, ftStore, ftEnsured, ftEntry, ftFall, ftSnap, ftPhase, ftPanel, ftFocus,
            ftCount, ftOdd>>

NoValue == -1      \* a value that is not given, or an observation that is missing

FtPlaces == {<<1, "a">>, <<1, "b">>, <<2, "a">>}
FtWindows == {1, 2}
FtLast(w) == IF w = 1 THEN "b" ELSE "a"
FtModes == {"VIEW", "AND", "OR", "none"}

\* A rule, the row an empty panel has, and the two rules of presets of old.
Rule(f, op, v, v2) == [field |-> f, op |-> op, val |-> v, val2 |-> v2]
Placeholder == Rule("none", ">", NoValue, NoValue)
NoLegacy == Rule("none", ">", NoValue, NoValue)
UnsetLegacy == Rule("unset", ">", NoValue, NoValue)

\* A configuration: its rules if it has any, the field of old, the match mode if it
\* is given, and the elements that are ticked.
Config(has, rules, legacy, logic, shown) ==
    [has |-> has, rules |-> rules, legacy |-> legacy, logic |-> logic, shown |-> shown]
NoConfig == Config(FALSE, <<>>, UnsetLegacy, "unset", {})
PlotElements == {"Wind", "R6", "Snow", "Tend"}
DefaultShown == {"Wind", "Snow"}

\* {...x, ...y}.
Spread(x, y) ==
    [has |-> x.has \/ y.has,
     rules |-> IF y.has THEN y.rules ELSE x.rules,
     legacy |-> IF y.legacy.field = "unset" THEN x.legacy ELSE y.legacy,
     logic |-> IF y.logic = "unset" THEN x.logic ELSE y.logic,
     shown |-> y.shown]

-----------------------------------------------------------------------------
(* The rules *)

\* normalizeFilterField.
Canonical(f) == IF f = "PressDiff3h" THEN "PressDiff" ELSE f

RuleIsActive(r) == r.field \notin {"none", "unset"} /\ r.val # NoValue

IsViewOnly(cfg) == cfg.logic = "VIEW"

\* The rules of the panel if one of them is complete, else those of old.
CollectActiveRules(cfg) ==
    LET modern == IF cfg.has THEN SelectSeq(cfg.rules, RuleIsActive) ELSE <<>>
    IN  IF modern # <<>> THEN modern ELSE SelectSeq(<<cfg.legacy>>, RuleIsActive)

\* getFieldValue: "Rain" is the largest of the rains, never missing; "Rain6" the
\* first there is.
Or0(v) == IF v = NoValue THEN 0 ELSE v
GetFieldValue(p, f) ==
    CASE f = "Wind" -> p.wind
      [] f = "Rain" -> Max({Or0(p.rain1), Or0(p.rain6)})
      [] f = "Rain6" -> IF p.rain6 # NoValue THEN p.rain6 ELSE p.rain1
      [] f = "SnowDepth" -> p.snow
      [] f = "PressDiff3h" -> p.diff

\* Mutant: the bounds of a range are taken as they are typed.
BugEvaluate(actual, r) ==
    actual # NoValue /\ actual >= r.val /\ (r.op = "between" => actual <= r.val2)

Evaluate(actual, r) ==
    /\ actual # NoValue
    /\ CASE r.op = ">" -> actual > r.val
         [] r.op = ">=" -> actual >= r.val
         [] r.op = "<" -> actual < r.val
         [] r.op = "<=" -> actual <= r.val
         [] r.op = "=" -> actual = r.val
         [] r.op = "!=" -> actual # r.val
         [] r.op = "between" ->
                IF r.val2 = NoValue THEN actual >= r.val
                ELSE actual >= Min({r.val, r.val2}) /\ actual <= Max({r.val, r.val2})
EvaluateSingleRule(p, r) == Evaluate(GetFieldValue(p, r.field), r)

\* compileStationFilter: by the complete rules of the panel if it has rules, else by
\* those of old; "Rule 1 Only" is by the first of the complete ones.
ByRules(p, rules, logic) ==
    CASE rules = <<>> -> TRUE
      [] rules # <<>> /\ logic = "none" -> EvaluateSingleRule(p, rules[1])
      [] rules # <<>> /\ logic = "OR" -> \E i \in DOMAIN rules : EvaluateSingleRule(p, rules[i])
      [] OTHER -> \A i \in DOMAIN rules : EvaluateSingleRule(p, rules[i])
CompileStationFilter(p, cfg) ==
    \/ IsViewOnly(cfg)
    \/ ByRules(p, SelectSeq(IF cfg.has THEN cfg.rules ELSE <<cfg.legacy>>, RuleIsActive), cfg.logic)

IsFieldVisibleInView(p, cfg, f) ==
    \A r \in ToSet(CollectActiveRules(cfg)) :
        Canonical(r.field) = f => EvaluateSingleRule(p, r)

\* The boxes ViewOnly ticks: those of the complete rules.
FlagOf(f) ==
    CASE f = "Wind" -> "Wind"
      [] f \in {"Rain", "Rain6"} -> "R6"
      [] f = "SnowDepth" -> "Snow"
      [] f = "PressDiff3h" -> "Tend"
GetViewAutoCheckPatch(cfg) ==
    IF IsViewOnly(cfg) THEN {FlagOf(r.field) : r \in ToSet(CollectActiveRules(cfg))} ELSE {}

\* ensureLayerFilterRules: the rules of old become rules of the panel, and stay.
EnsureLayerFilterRules(cfg) ==
    LET old == IF cfg.legacy.field \in {"none", "unset"} THEN Placeholder ELSE cfg.legacy
    IN  [cfg EXCEPT !.has = TRUE,
                    !.rules = IF cfg.has THEN cfg.rules ELSE <<old>>,
                    !.logic = IF cfg.logic = "unset" THEN "VIEW" ELSE cfg.logic]

-----------------------------------------------------------------------------
(* What the canvas draws *)

\* The stations: where they are, in the order of their hashes.
Station(cell, wind, rain1, rain6, snow, diff) ==
    [cell |-> cell, wind |-> wind, rain1 |-> rain1, rain6 |-> rain6, snow |-> snow, diff |-> diff]
Observed == <<Station(1, 3, NoValue, NoValue, 4, 2), Station(1, 9, 12, NoValue, NoValue, 7),
              Station(2, NoValue, 3, 15, 8, NoValue), Station(2, 6, 12, 4, 2, 2),
              Station(2, 9, NoValue, NoValue, 8, 7)>>

PlotFields == {"Wind", "Rain", "Rain6", "SnowDepth", "PressDiff", "Tendency"}
CandidateFields == {"Wind", "Rain", "Rain6", "Tendency"}  \* ALL_CANDIDATE_FIELDS
Ruled(cfg) == {Canonical(r.field) : r \in ToSet(CollectActiveRules(cfg))}
FieldFiltered(cfg, f) ==
    f \in Ruled(cfg) \/ (f \in {"Rain", "Rain6"} /\ {"Rain", "Rain6"} \cap Ruled(cfg) # {})

MatchedFields(p, cfg) == {f \in Ruled(cfg) : IsFieldVisibleInView(p, cfg, f)}
HasRules(cfg) == CollectActiveRules(cfg) # <<>>
WholeFilter(cfg) == HasRules(cfg) /\ ~IsViewOnly(cfg)

Candidate(p, cfg, below) ==
    IF WholeFilter(cfg) THEN CompileStationFilter(p, cfg)
    ELSE below /\ HasRules(cfg) => MatchedFields(p, cfg) # {}
CandidateStations(cfg, below) == {i \in DOMAIN Observed : Candidate(Observed[i], cfg, below)}

\* The layer is left out below its least zoom, unless a filter leaves few stations.
Culled(cfg, below, n) ==
    below /\ (~HasRules(cfg) \/ (WholeFilter(cfg) /\ n >= FtDense))

\* The first of a cell, by their hashes.
FirstByHash(S, n) == {i \in S : Cardinality({j \in S : j < i}) < n}
Pairs(fields) == fields \cup (IF {"Rain", "Rain6"} \cap fields # {} THEN {"Rain", "Rain6"} ELSE {})
FreeFields(cfg) == {f \in CandidateFields : ~FieldFiltered(cfg, f)}

\* ViewOnly: first those that match a rule, with the elements they match, then the
\* others as far as there is room, with the elements that have no rule.
ChosenInView(S, cfg, below) ==
    LET matching == FirstByHash({i \in S : MatchedFields(Observed[i], cfg) # {}}, FtFilteredCap)
        room == FtUnfilteredCap - Cardinality(matching)
        others == {i \in S : MatchedFields(Observed[i], cfg) = {}}
        free == IF below THEN {} ELSE FreeFields(cfg)
    IN  {[at |-> i, allowed |-> Pairs(MatchedFields(Observed[i], cfg)) \cup free] : i \in matching}
        \cup {[at |-> i, allowed |-> free] :
                i \in IF free = {} \/ room <= 0 THEN {} ELSE FirstByHash(others, room)}
ChosenInCell(S, cfg, below) ==
    IF HasRules(cfg) /\ IsViewOnly(cfg) THEN ChosenInView(S, cfg, below)
    ELSE {[at |-> i, allowed |-> PlotFields] :
            i \in FirstByHash(S, IF HasRules(cfg) THEN FtFilteredCap ELSE FtUnfilteredCap)}
SelectedStations(cfg, below, S) ==
    IF Culled(cfg, below, Cardinality(S)) THEN {}
    ELSE UNION {ChosenInCell({i \in S : Observed[i].cell = c}, cfg, below) : c \in {1, 2}}

\* renderStationPlotToCanvas: pressure tendency is not gated by the rules.
Has(p, e) ==
    CASE e = "Wind" -> p.wind # NoValue
      [] e = "R6" -> GetFieldValue(p, "Rain6") > 0
      [] e = "Snow" -> p.snow # NoValue
      [] e = "Tend" -> p.diff # NoValue
Gate(e) ==
    CASE e = "Wind" -> {"Wind"}
      [] e = "R6" -> {"Rain", "Rain6"}
      [] e = "Snow" -> {"SnowDepth"}
      [] e = "Tend" -> {}
Slots(e) == IF e = "Tend" THEN {"Tendency", "PressDiff"} ELSE Gate(e)
Plotted(p, cfg, allowed) ==
    {e \in cfg.shown :
        /\ Has(p, e)
        /\ Slots(e) \cap allowed # {}
        /\ IsViewOnly(cfg) => \A f \in Gate(e) : IsFieldVisibleInView(p, cfg, f)}

-----------------------------------------------------------------------------
(* The copies *)

\* What a preset says of a layer: nothing, a rule saved by the panel, or one of old.
NoRulesSaved == Config(FALSE, <<>>, UnsetLegacy, "unset", DefaultShown)
WindRule == Rule("Wind", ">", 5, NoValue)
Saved(rules, mode) == Config(TRUE, rules, NoLegacy, mode, DefaultShown)
OldSaved(mode) == Config(FALSE, <<>>, WindRule, mode, DefaultShown)
FtPresets == {NoRulesSaved, Saved(<<WindRule>>, "AND"), OldSaved("VIEW"), OldSaved("unset")}

NoPanel == [open |-> "none", live |-> FALSE, rules |-> <<>>, logic |-> "VIEW"]

FtInitFrom(presets) ==
    /\ ftPreset \in [FtPlaces -> presets]
    /\ ftPreset[<<2, "a">>] = ftPreset[<<1, "a">>]
    /\ ftPreset[<<1, "b">>] \in {NoRulesSaved, Saved(<<WindRule>>, "AND")}
    /\ ftStore = [p \in FtPlaces |-> NoConfig]
    /\ ftEnsured = {}
    /\ ftEntry = [p \in FtPlaces |-> NoConfig]
    /\ ftFall = [w \in FtWindows |-> Config(FALSE, <<>>, NoLegacy, "AND", DefaultShown)]
    /\ ftSnap = [p \in FtPlaces |-> NoConfig]
    /\ ftPhase = [w \in FtWindows |-> "a"]
    /\ ftPanel = NoPanel
    /\ ftFocus = 1
    /\ ftCount = 0
    /\ ftOdd = {}
FtInit == FtInitFrom(FtPresets)

LayerThere(p) == p \in FtPlaces /\ ftStore[p] # NoConfig
EntriesOf(w) == {p \in FtPlaces : p[1] = w /\ ftEntry[p] # NoConfig}

\* What the panel's copy of a layer says, and what the canvas goes by.
View(p) == IF p \in ftEnsured THEN EnsureLayerFilterRules(ftStore[p]) ELSE ftStore[p]
MapConfig(p) == Spread(ftFall[p[1]], ftEntry[p])

FtClick == /\ ftCount < FtMaxOps
           /\ ftCount' = ftCount + 1

\* The panel of a row that is expanded lives as long as the row, whatever layer the
\* row is of: only a layer of another id is read anew (syncRulesFromLayer).
PanelFollows(store, focus, open, live, ensured) ==
    LET p == <<focus, open>>
        there == p \in FtPlaces /\ store[p] # NoConfig
        read == EnsureLayerFilterRules(store[p])
    IN  IF ~there
        THEN /\ ftPanel' = [NoPanel EXCEPT !.open = open]
             /\ ftEnsured' = ensured
        ELSE IF live
        THEN /\ ftPanel' = [ftPanel EXCEPT !.open = open]
             /\ ftEnsured' = ensured
        ELSE /\ ftPanel' = [open |-> open, live |-> TRUE, rules |-> read.rules, logic |-> read.logic]
             /\ ftEnsured' = ensured \cup {p}

\* buildBaseConfig: what a layer new to the store keeps of its configuration.
BuildBaseConfig(cfg) ==
    [cfg EXCEPT !.has = FALSE, !.rules = <<>>,
                !.legacy = IF @.field = "unset" THEN NoLegacy ELSE @,
                !.logic = IF @ = "unset" THEN "VIEW" ELSE @]

Over(x, y) == IF y = NoConfig THEN x ELSE Spread(x, y)
LoadedConfig(p) == Over(Over(ftPreset[p], ftSnap[p]), ftStore[p])

\* The named exceptions of a load: the store drops the rules, the canvas takes rules
\* or a match mode from its fallback.
LoadOdd(p, cfg, entry) ==
    LET first == ftStore[p] = NoConfig
        shows(c) == EnsureLayerFilterRules(c).rules
        drops == first /\ shows(BuildBaseConfig(cfg)) # shows(cfg)
        inherits == CollectActiveRules(entry) # CollectActiveRules(cfg)
        differs == cfg.logic = "unset" /\ entry.logic # BuildBaseConfig(cfg).logic
    IN  {<<x, p>> : x \in (IF drops THEN {"unseen"} ELSE {})
                          \cup (IF inherits THEN {"leaked"} ELSE {})
                          \cup (IF differs THEN {"unstated"} ELSE {})}

\* renderStationWeatherPlots and addOrUpdateLayer, for one layer.
Rendered(p, cfg, entry) ==
    /\ ftEntry' = [ftEntry EXCEPT ![p] = entry]
    /\ ftFall' = [ftFall EXCEPT ![p[1]] = IF Cardinality(EntriesOf(p[1])) <= 1 THEN entry ELSE @]
    /\ ftStore' = [ftStore EXCEPT ![p] = IF @ = NoConfig THEN BuildBaseConfig(cfg) ELSE Spread(@, cfg)]
    /\ ftOdd' = ftOdd \cup LoadOdd(p, cfg, entry)
    /\ PanelFollows(ftStore', ftFocus, ftPanel.open, ftPanel.live,
                    {q \in ftEnsured : q[1] # p[1]})
StationsLoaded(p) == Rendered(p, LoadedConfig(p), Spread(ftFall[p[1]], LoadedConfig(p)))

\* loadObservationProduct, in the order of the preset's layers.
LoadStations(w) ==
    /\ ftPhase[w] \in {"a", "b"}
    /\ StationsLoaded(<<w, ftPhase[w]>>)
    /\ ftPhase' = [ftPhase EXCEPT ![w] = IF @ = FtLast(w) THEN "idle" ELSE "b"]
    /\ ftSnap' = IF ftPhase[w] = FtLast(w)
                 THEN [p \in FtPlaces |-> IF p[1] = w THEN NoConfig ELSE ftSnap[p]] ELSE ftSnap
    /\ UNCHANGED <<ftPreset, ftFocus, ftCount>>

\* A step in time loads the layers again as they are.
StepTime(w) ==
    /\ FtClick
    /\ ftPhase[w] = "idle"
    /\ ftPhase' = [ftPhase EXCEPT ![w] = "a"]
    /\ UNCHANGED <<ftPreset, ftStore, ftEnsured, ftEntry, ftFall, ftSnap, ftPanel, ftFocus, ftOdd>>

\* clearAllWeatherLayersFromMap: a reload begins with nothing but the snapshots.
ReloadStations(w) ==
    /\ FtClick
    /\ ftPhase[w] = "idle"
    /\ ftPhase' = [ftPhase EXCEPT ![w] = "a"]
    /\ ftSnap' = [p \in FtPlaces |-> IF p[1] = w THEN ftStore[p] ELSE ftSnap[p]]
    /\ ftStore' = [p \in FtPlaces |-> IF p[1] = w THEN NoConfig ELSE ftStore[p]]
    /\ ftEntry' = [p \in FtPlaces |-> IF p[1] = w THEN NoConfig ELSE ftEntry[p]]
    /\ PanelFollows(ftStore', ftFocus, ftPanel.open, ftPanel.live,
                    {q \in ftEnsured : q[1] # w})
    /\ UNCHANGED <<ftPreset, ftFall, ftFocus, ftOdd>>

-----------------------------------------------------------------------------
(* What the operator does *)

ExpandRow(l) ==
    /\ FtClick
    /\ LayerThere(<<ftFocus, l>>)
    /\ ftPanel.open # l
    /\ PanelFollows(ftStore, ftFocus, l, FALSE, ftEnsured)
    /\ UNCHANGED <<ftPreset, ftStore, ftEntry, ftFall, ftSnap, ftPhase, ftFocus, ftOdd>>

TurnToWindow(w) ==
    /\ FtClick
    /\ w # ftFocus
    /\ ftFocus' = w
    /\ PanelFollows(ftStore, w, ftPanel.open, ftPanel.live, ftEnsured)
    /\ ftOdd' = ftOdd \cup (IF ftPanel.live /\ LayerThere(<<w, ftPanel.open>>)
                            THEN {<<"reused", <<w, ftPanel.open>>>>} ELSE {})
    /\ UNCHANGED <<ftPreset, ftStore, ftEntry, ftFall, ftSnap, ftPhase>>

\* A change of a configuration: new rules and match mode, boxes ticked and unticked.
Patch(has, rules, logic, on, off) ==
    [has |-> has, rules |-> rules, logic |-> logic, on |-> on, off |-> off]
Patched(cfg, pt) ==
    [cfg EXCEPT !.has = @ \/ pt.has,
                !.rules = IF pt.has THEN pt.rules ELSE @,
                !.logic = IF pt.has THEN pt.logic ELSE @,
                !.shown = (@ \cup pt.on) \ pt.off]

\* The layer of the preset handleConfigAction writes to is the first one of its kind.
FirstOfKind(p) == <<p[1], "a">>
FirstSnapshot(p) == IF ftSnap[FirstOfKind(p)] # NoConfig THEN FirstOfKind(p) ELSE p

\* handleConfigPatch, handleConfigAction, setStationConfig and handleLayerAction.
ConfigAction(p, pt) ==
    LET cfg == Patched(View(p), pt)
        alone == Cardinality(EntriesOf(p[1])) <= 1
    IN  /\ ftStore' = [ftStore EXCEPT ![p] = cfg]
        /\ ftSnap' = [q \in FtPlaces |->
                        CASE ftSnap[q] = NoConfig \/ q \notin {p, FirstSnapshot(p)} -> ftSnap[q]
                          [] ftSnap[q] # NoConfig /\ q = FirstSnapshot(p) -> cfg
                          [] OTHER -> Patched(ftSnap[q], pt)]
        /\ ftPreset' = [q \in FtPlaces |-> IF q \in {p, FirstOfKind(p)}
                                           THEN Patched(ftPreset[q], pt) ELSE ftPreset[q]]
        /\ ftEntry' = [ftEntry EXCEPT ![p] = IF @ = NoConfig THEN @ ELSE Patched(@, pt)]
        /\ ftFall' = [ftFall EXCEPT ![p[1]] = IF alone THEN Patched(@, pt) ELSE @]
        /\ ftOdd' = ftOdd \cup (IF FirstOfKind(p) = p THEN {} ELSE {<<"sibling", FirstOfKind(p)>>})
                          \cup {<<"unticked", p>> : e \in pt.off}
        /\ UNCHANGED <<ftPhase, ftFocus, ftEnsured>>

\* A box of the elements.
TickElement(l, e) ==
    /\ FtClick
    /\ LayerThere(<<ftFocus, l>>)
    /\ LET shown == ftStore[<<ftFocus, l>>].shown
       IN  ConfigAction(<<ftFocus, l>>, Patch(FALSE, <<>>, "VIEW", {e} \ shown, {e} \cap shown))
    /\ UNCHANGED ftPanel

\* update(): every change of the rules is written out whole.
Update(rules, logic) ==
    LET p == <<ftFocus, ftPanel.open>>
        cfg == Patched(View(p), Patch(TRUE, rules, logic, {}, {}))
    IN  /\ ftPanel.live
        /\ ftPanel' = [ftPanel EXCEPT !.rules = rules, !.logic = logic]
        /\ ConfigAction(p, Patch(TRUE, rules, logic, GetViewAutoCheckPatch(cfg), {}))

EditRule(i, r) ==
    /\ FtClick
    /\ ftPanel.rules[i] # r
    /\ Update([ftPanel.rules EXCEPT ![i] = r], ftPanel.logic)
ChooseMode(mode) ==
    /\ FtClick
    /\ mode # ftPanel.logic
    /\ Update(ftPanel.rules, mode)
AddRule ==
    /\ FtClick
    /\ Len(ftPanel.rules) < 2
    /\ Update(Append(ftPanel.rules, Placeholder), ftPanel.logic)
RemoveRule(i) ==
    /\ FtClick
    /\ Update(IF Len(ftPanel.rules) <= 1 THEN <<Placeholder>> ELSE RemoveAt(ftPanel.rules, i),
              ftPanel.logic)
ClearRules ==
    /\ FtClick
    /\ Update(<<Placeholder>>, ftPanel.logic)

\* A quick preset is added to the rules there are, without those it repeats; rows
\* without a field are replaced.
ApplyPreset(incoming) ==
    /\ FtClick
    /\ LET base == IF \E i \in DOMAIN ftPanel.rules : ftPanel.rules[i].field # "none"
                   THEN ftPanel.rules ELSE <<>>
       IN  Update(base \o SelectSeq(incoming, LAMBDA r : r \notin ToSet(base)), ftPanel.logic)

\* The edits and quick presets explored.
EditsOf(r) ==
    {[r EXCEPT !.field = f] : f \in {"Wind", "SnowDepth"}}
    \cup {[r EXCEPT !.op = o] : o \in {">", "between"}}
    \cup {[r EXCEPT !.val = v] : v \in {NoValue, 4}}
    \cup {[r EXCEPT !.val2 = v] : v \in IF r.op = "between" THEN {8} ELSE {}}
QuickPresets == {<<Rule("Rain", ">", 10, NoValue)>>, <<WindRule, Rule("Rain6", ">", 10, NoValue)>>,
                 <<Rule("PressDiff3h", ">", 5, NoValue)>>}

FtNext ==
    \/ \E w \in FtWindows : LoadStations(w) \/ StepTime(w) \/ ReloadStations(w) \/ TurnToWindow(w)
    \/ \E l \in {"a", "b"} : ExpandRow(l) \/ TickElement(l, "Wind")
    \/ \E i \in DOMAIN ftPanel.rules :
          RemoveRule(i) \/ (\E r \in EditsOf(ftPanel.rules[i]) : EditRule(i, r))
    \/ \E mode \in FtModes : ChooseMode(mode)
    \/ AddRule \/ ClearRules
    \/ \E q \in QuickPresets : ApplyPreset(q)

FtSpec == FtInit /\ [][FtNext]_ftVars

-----------------------------------------------------------------------------
FtRules == [field : {"none", "Wind", "Rain", "Rain6", "SnowDepth", "PressDiff3h"},
            op : {">", "between"}, val : Int, val2 : Int]
FtConfigs == [has : BOOLEAN, rules : Seq(FtRules),
              legacy : {NoLegacy, UnsetLegacy, WindRule}, logic : FtModes \cup {"unset"},
              shown : SUBSET PlotElements]
FtTypeOK ==
    /\ \A p \in FtPlaces : {ftPreset[p], ftStore[p], ftEntry[p], ftSnap[p]} \subseteq FtConfigs
    /\ \A w \in FtWindows : ftFall[w] \in FtConfigs /\ ftPhase[w] \in {"a", "b", "idle"}
    /\ ftEnsured \subseteq FtPlaces /\ ftFocus \in FtWindows /\ ftCount \in 0..FtMaxOps
    /\ ftPanel.open \in {"none", "a", "b"} /\ ftPanel.logic \in FtModes
    /\ ftOdd \subseteq ({"unseen", "leaked", "unstated", "sibling", "reused", "unticked"} \X FtPlaces)

Odd(p, names) == \E x \in names : <<x, p>> \in ftOdd

\* The panel shows the rules and the mode of the layer its row is of.
PanelTellsRules ==
    LET p == <<ftFocus, ftPanel.open>>
        cfg == EnsureLayerFilterRules(View(p))
    IN  ftPanel.live /\ ~Odd(p, {"unseen", "sibling", "reused"})
        => ftPanel.rules = cfg.rules /\ ftPanel.logic = cfg.logic

\* The canvas goes by the rules, the mode and the boxes of the layer in the store.
CanvasGoesByStore ==
    \A p \in FtPlaces : LayerThere(p) /\ ~Odd(p, {"unseen", "leaked", "unstated"}) =>
        /\ CollectActiveRules(MapConfig(p)) = CollectActiveRules(ftStore[p])
        /\ MapConfig(p).logic = ftStore[p].logic \/ ~HasRules(ftStore[p])
        /\ MapConfig(p).shown = ftStore[p].shown

\* Under ViewOnly what a rule is about can be seen.
RulesCanBeSeen ==
    \A p \in FtPlaces : LayerThere(p) /\ ~Odd(p, {"sibling", "unticked"}) =>
        GetViewAutoCheckPatch(ftStore[p]) \subseteq ftStore[p].shown

\* What a rule lets through.
LetThrough(r, v) ==
    /\ v \in 0..40
    /\ CASE r.op = ">" -> v > r.val
         [] r.op = "between" /\ r.val2 = NoValue -> v >= r.val
         [] r.op = "between" /\ r.val2 # NoValue -> v \in (r.val..r.val2) \cup (r.val2..r.val)
Holds(p, r) == LetThrough(r, GetFieldValue(p, r.field))

\* The stations a filter of whole stations lets through; "Rule 1 Only" means the first that is
\* complete.
Wanted(p, cfg) ==
    LET rules == CollectActiveRules(cfg)
    IN  CASE cfg.logic = "none" -> Holds(p, rules[1])
          [] cfg.logic = "OR" -> \E i \in DOMAIN rules : Holds(p, rules[i])
          [] OTHER -> \A i \in DOMAIN rules : Holds(p, rules[i])
WantedStations(cfg) == {i \in DOMAIN Observed : Wanted(Observed[i], cfg)}
CellOf(i, S) == {j \in S : Observed[j].cell = Observed[i].cell}

\* Every station drawn passes, and one that passes is missing only for want of room
\* in its cell, or below the least zoom when many pass.
WholeFilterTrue(cfg, below) ==
    LET drawn == {s.at : s \in SelectedStations(cfg, below, CandidateStations(cfg, below))}
        wanted == WantedStations(cfg)
    IN  /\ drawn \subseteq wanted
        /\ \A i \in wanted \ drawn :
              \/ Cardinality(CellOf(i, wanted)) > FtFilteredCap
              \/ below /\ Cardinality(wanted) >= FtDense

\* An element is drawn where its box is ticked, there is a value and its own rules
\* pass; below the least zoom only elements with rules are.  Snow depth is lost when
\* another element has a rule, and pressure tendency is not gated.
GatedByOwn(p, cfg, e) ==
    \A r \in ToSet(CollectActiveRules(cfg)) : FlagOf(r.field) = e => Holds(p, r)
HasOwnRule(cfg, e) == \E r \in ToSet(CollectActiveRules(cfg)) : FlagOf(r.field) = e
Ungated(cfg, e) == e = "Tend" \/ (e = "Snow" /\ ~HasOwnRule(cfg, "Snow"))
ViewTrue(cfg, below) ==
    LET items == SelectedStations(cfg, below, CandidateStations(cfg, below))
    IN  /\ \A s \in items, e \in PlotElements :
              e \in Plotted(Observed[s.at], cfg, s.allowed) /\ e # "Tend" =>
                  GatedByOwn(Observed[s.at], cfg, e) /\ (below => HasOwnRule(cfg, e))
        /\ \A i \in DOMAIN Observed, e \in cfg.shown :
              /\ ~Ungated(cfg, e) /\ Has(Observed[i], e) /\ GatedByOwn(Observed[i], cfg, e)
              /\ below => HasOwnRule(cfg, e)
              /\ Cardinality(CellOf(i, DOMAIN Observed)) <= FtUnfilteredCap
              => \E s \in items : s.at = i /\ e \in Plotted(Observed[i], cfg, s.allowed)

\* A rule of old counts again once those of the panel are gone.
OldRuleBack(cfg) == cfg.has /\ SelectSeq(cfg.rules, RuleIsActive) = <<>> /\ HasRules(cfg)
PlotsKeepToRules ==
    \A cfg \in {MapConfig(p) : p \in {q \in FtPlaces : LayerThere(q)}} :
        HasRules(cfg) /\ ~OldRuleBack(cfg) =>
            \A below \in BOOLEAN :
                IF IsViewOnly(cfg) THEN ViewTrue(cfg, below) ELSE WholeFilterTrue(cfg, below)

StationFilterSound == PanelTellsRules /\ CanvasGoesByStore /\ RulesCanBeSeen /\ PlotsKeepToRules
=============================================================================
