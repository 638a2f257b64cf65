---------------------------- MODULE ConfigDraft ------------------------------
(* What the forms of the configuration editor do to the draft                 *)
(* (PresetForm.svelte, ColormapForm.svelte, SettingsForm.svelte and the       *)
(* helpers of formState.js and colormapForm.js) and what the validator says   *)
(* of it (configSchema.js): saving is refused while it finds an error.        *)
(* An id is the sequence of what it was built from: the copy of an id has one *)
(* more number, and numbers below zero stand for words of the program's own.  *)
EXTENDS Integers, Sequences, FiniteSets, SequencesExt

CONSTANTS
    CdMaxEdits,     \* edits of the draft
    CdValues,       \* the values the operator gives to a colour stop
    CdNames         \* the names the operator gives to a colormap

VARIABLES cd, cdEdits, cdOdd
cdVars == <<cd, cdEdits, cdOdd>>

NoId == <<>>
DividerWord == -1
LayerWord == -2
PresetWord == -3
MapWord == -4

\* The smallest number of a copy that is free: base, base-2, base-3 ...
SmallestFree(base, first, taken) ==
    LET numbered == [n \in 0 .. Cardinality(taken) |-> Append(base, first + n)]
        free == {n \in DOMAIN numbered : numbered[n] \notin taken}
    IN  numbered[CHOOSE n \in free : \A m \in free : n <= m]

IdsOf(seq) == {seq[i].id : i \in DOMAIN seq}
PlaceIn(seq, id) ==
    LET at == {i \in DOMAIN seq : seq[i].id = id}
    IN  IF at = {} THEN 0 ELSE CHOOSE i \in at : \A j \in at : i <= j
FirstOf(seq) == IF seq = <<>> THEN NoId ELSE seq[1].id

\* A preset, a divider, a layer and a colormap, as far as the forms and the
\* validator look at them.
Preset(id, leveled, layers) ==
    [id |-> id, divider |-> FALSE, named |-> TRUE, hasLevel |-> leveled, level |-> leveled, layers |-> layers]
Divider(id) ==
    [id |-> id, divider |-> TRUE, named |-> TRUE, hasLevel |-> FALSE, level |-> FALSE, layers |-> <<>>]
LayerEntry(id, from, map) == [id |-> id, from |-> from, map |-> map]
ColorStop(val, color) == [val |-> val, color |-> color]
NewStops == <<ColorStop(0, "blue"), ColorStop(50, "white"), ColorStop(100, "red")>>
Template == <<ColorStop(0, "white"), ColorStop(10, "blue"), ColorStop(20, "red")>>

CdInit ==
    /\ cd = [presets |-> <<Preset(<<1>>, TRUE, <<LayerEntry(<<11>>, NoId, <<7>>), LayerEntry(<<12>>, <<11>>, NoId)>>),
                           Preset(<<2>>, FALSE, <<LayerEntry(<<21>>, NoId, <<7>>)>>)>>,
             maps |-> <<[id |-> <<7>>, stops |-> <<ColorStop(0, "blue"), ColorStop(10, "red")>>],
                        [id |-> <<8>>, stops |-> Template]>>,
             cells |-> "allowed", chosen |-> <<1>>, map |-> <<7>>]
    /\ cdEdits = 0
    /\ cdOdd = {}

\* A preset that is gone is no longer chosen: the listeners of PresetForm and
\* ColormapForm choose another one.
FirstPreset(presets) ==
    LET real == SelectSeq(presets, LAMBDA p : ~p.divider)
    IN  IF real # <<>> THEN FirstOf(real) ELSE FirstOf(presets)
Rechosen(d) ==
    [d EXCEPT !.chosen = IF @ \in IdsOf(d.presets) THEN @ ELSE FirstPreset(d.presets),
              !.map = IF @ \in IdsOf(d.maps) THEN @ ELSE FirstOf(d.maps)]

\* updateDraft: the edit, and what the listeners make of it.
EditDraft(d, odd) ==
    /\ cdEdits < CdMaxEdits
    /\ cdEdits' = cdEdits + 1
    /\ cd' = Rechosen(d)
    /\ cdOdd' = cdOdd \cup odd

Chosen == PlaceIn(cd.presets, cd.chosen)
ChosenPreset == cd.presets[Chosen]
OnPreset == Chosen # 0 /\ ~ChosenPreset.divider
ChosenMap == PlaceIn(cd.maps, cd.map)
OnColormap == ChosenMap # 0
Stops == cd.maps[ChosenMap].stops

-----------------------------------------------------------------------------
(* Presets and dividers *)

SelectPreset(id) == /\ cd.chosen # id
                    /\ EditDraft([cd EXCEPT !.chosen = id], {})

AddPreset ==
    LET taken == IdsOf(cd.presets)
        id == IF <<PresetWord>> \notin taken THEN <<PresetWord>> ELSE SmallestFree(<<PresetWord>>, 1, taken)
    IN  EditDraft([cd EXCEPT !.presets = Append(@, Preset(id, TRUE, <<>>)), !.chosen = id], {})

\* insertDivider: the form passes the label where the place is expected, so that
\* the divider goes to the end, without a label.
AddDivider ==
    EditDraft([cd EXCEPT !.presets = Append(@, Divider(SmallestFree(<<DividerWord>>, 1, IdsOf(@))))], {})

\* clonePresetGroup: below the one it is a copy of, with the ids of its layers.
DuplicatePreset ==
    /\ OnPreset
    /\ LET id == SmallestFree(cd.chosen, 1, IdsOf(cd.presets))
       IN  EditDraft([cd EXCEPT !.presets = InsertAt(@, Chosen + 1, [ChosenPreset EXCEPT !.id = id])], {})

DeletePreset ==
    /\ Chosen # 0
    /\ EditDraft([cd EXCEPT !.presets = RemoveAt(@, Chosen)], {})

\* moveEntry, one place up or down.
MoveEntry(i, delta) ==
    /\ i + delta \in DOMAIN cd.presets
    /\ EditDraft([cd EXCEPT !.presets = InsertAt(RemoveAt(@, i), i + delta, @[i])], {})

\* mutateSelectedField: the box for pressure levels leaves the default level.
SetHasLevel(leveled) ==
    /\ OnPreset
    /\ EditDraft([cd EXCEPT !.presets[Chosen].hasLevel = leveled],
            IF ~leveled /\ ChosenPreset.level THEN {"level"} ELSE {})
SetDefaultLevel ==
    /\ OnPreset /\ ChosenPreset.hasLevel
    /\ EditDraft([cd EXCEPT !.presets[Chosen].level = TRUE], {})
ClearName ==
    /\ OnPreset
    /\ EditDraft([cd EXCEPT !.presets[Chosen].named = FALSE], {"name"})

-----------------------------------------------------------------------------
(* Layers *)

\* The new layer is numbered by how many there are.
AddLayer ==
    /\ OnPreset
    /\ LET layers == ChosenPreset.layers
           id == cd.chosen \o <<LayerWord, Len(layers) + 1>>
       IN  EditDraft([cd EXCEPT !.presets[Chosen].layers = Append(@, LayerEntry(id, NoId, NoId))],
                IF id \in IdsOf(layers) THEN {"layer id"} ELSE {})

\* cloneLayer, within its preset.
DuplicateLayer(i) ==
    LET layers == ChosenPreset.layers
        copy == [layers[i] EXCEPT !.id = SmallestFree(@, 1, IdsOf(layers))]
    IN  EditDraft([cd EXCEPT !.presets[Chosen].layers = InsertAt(@, PlaceIn(layers, layers[i].id) + 1, copy)], {})

DeleteLayer(i) ==
    LET layers == ChosenPreset.layers
        gone == layers[i].id
    IN  EditDraft([cd EXCEPT !.presets[Chosen].layers = RemoveAt(@, PlaceIn(layers, gone))],
             IF \E j \in DOMAIN layers : layers[j].from = gone THEN {"derived"} ELSE {})

-----------------------------------------------------------------------------
(* Colormaps *)

SelectColormap(name) == /\ cd.map # name
                        /\ EditDraft([cd EXCEPT !.map = name], {})

CreateColormap ==
    LET taken == IdsOf(cd.maps)
        name == IF <<MapWord>> \notin taken THEN <<MapWord>> ELSE SmallestFree(<<MapWord>>, 1, taken)
    IN  EditDraft([cd EXCEPT !.maps = Append(@, [id |-> name, stops |-> NewStops]), !.map = name], {})

DuplicateColormap ==
    /\ OnColormap
    /\ LET name == SmallestFree(cd.map, 0, IdsOf(cd.maps))
       IN  EditDraft([cd EXCEPT !.maps = Append(@, [id |-> name, stops |-> Stops]), !.map = name], {})

\* getColormapUsageCounts: the form only asks when layers use the colormap.
UsageCount(d, name) ==
    Cardinality({at \in UNION {{i} \X DOMAIN d.presets[i].layers : i \in DOMAIN d.presets} :
                    d.presets[at[1]].layers[at[2]].map = name})
DeleteColormap ==
    /\ OnColormap
    /\ EditDraft([cd EXCEPT !.maps = RemoveAt(@, ChosenMap)],
            IF UsageCount(cd, cd.map) > 0 THEN {"reference"} ELSE {})

\* A renaming that looks at the first layer of each preset alone.
BugRewritten(presets, old, new) ==
    [i \in DOMAIN presets |->
        IF presets[i].layers # <<>> /\ presets[i].layers[1].map = old
        THEN [presets[i] EXCEPT !.layers[1].map = new] ELSE presets[i]]

\* rewriteColormapReferences.
Rewritten(presets, old, new) ==
    [i \in DOMAIN presets |->
        [presets[i] EXCEPT !.layers =
            [j \in DOMAIN @ |-> [@[j] EXCEPT !.map = IF @ = old THEN new ELSE @]]]]
RenameColormap(name) ==
    /\ OnColormap
    /\ name \notin IdsOf(cd.maps)
    /\ EditDraft([cd EXCEPT !.maps = Append(RemoveAt(@, ChosenMap), [id |-> name, stops |-> Stops]),
                       !.presets = Rewritten(@, cd.map, name), !.map = name], {})

\* Every edit of the stops ends with them in the order of their values.
Sorted(stops) == SortSeq(stops, LAMBDA s, t : s.val < t.val)
Values(stops) == {stops[i].val : i \in DOMAIN stops}
EditStops(stops) ==
    /\ OnColormap
    /\ EditDraft([cd EXCEPT !.maps[ChosenMap].stops = stops],
            IF Cardinality(Values(stops)) < Len(stops) THEN {"stop value"} ELSE {})

ApplyTemplate == EditStops(Template)
AddStop ==
    LET last == Stops[Len(Stops)].val
    IN  EditStops(Sorted(Append(Stops, ColorStop(2 * last - Stops[Len(Stops) - 1].val, "white"))))
ReverseStops == EditStops([i \in DOMAIN Stops |-> [Stops[i] EXCEPT !.color = Stops[Len(Stops) + 1 - i].color]])
RemoveStop(i) == Len(Stops) > 2 /\ EditStops(RemoveAt(Stops, i))
ChangeStopValue(i, val) == EditStops(Sorted([Stops EXCEPT ![i].val = val]))

\* handleStopColorChange takes r, g and b of what is a list: the channels of the
\* new colour are undefined.
ChangeStopColor(i) ==
    /\ OnColormap
    /\ EditDraft([cd EXCEPT !.maps[ChosenMap].stops[i].color = "undefined"], {"color"})

\* setCells: any number the operator types.
SetCells(allowed) ==
    EditDraft([cd EXCEPT !.cells = allowed], IF allowed = "allowed" THEN {} ELSE {"cells"})

CdNext ==
    \/ \E id \in IdsOf(cd.presets) : SelectPreset(id)
    \/ AddPreset \/ AddDivider \/ DuplicatePreset \/ DeletePreset
    \/ \E i \in DOMAIN cd.presets, delta \in {-1, 1} : MoveEntry(i, delta)
    \/ \E leveled \in BOOLEAN : SetHasLevel(leveled)
    \/ SetDefaultLevel \/ ClearName \/ AddLayer
    \/ /\ OnPreset
       /\ \E i \in DOMAIN ChosenPreset.layers : DuplicateLayer(i) \/ DeleteLayer(i)
    \/ \E name \in IdsOf(cd.maps) : SelectColormap(name)
    \/ CreateColormap \/ DuplicateColormap \/ DeleteColormap
    \/ \E name \in CdNames : RenameColormap(name)
    \/ /\ OnColormap
       /\ \/ ApplyTemplate \/ AddStop \/ ReverseStops
          \/ \E i \in DOMAIN Stops : \/ RemoveStop(i) \/ ChangeStopColor(i)
                                     \/ \E val \in CdValues : ChangeStopValue(i, val)
    \/ \E allowed \in {"allowed", "outside"} : SetCells(allowed)

CdSpec == CdInit /\ [][CdNext]_cdVars

-----------------------------------------------------------------------------
(* validateConfig *)

\* What it finds wrong with a preset, a divider and their layers.
PresetErrors(p) ==
    (IF ~p.divider /\ ~p.named THEN {"name"} ELSE {})
    \cup (IF ~p.divider /\ ~p.hasLevel /\ p.level THEN {"level"} ELSE {})
    \cup (IF p.divider /\ (p.hasLevel \/ p.level \/ p.layers # <<>>) THEN {"divider"} ELSE {})
LayerErrors(layers) ==
    (IF Cardinality(IdsOf(layers)) < Len(layers) THEN {"layer id"} ELSE {})
    \cup (IF \E i \in DOMAIN layers : layers[i].from \notin IdsOf(layers) \cup {NoId} THEN {"derived"} ELSE {})

\* What it finds wrong with the stops of a colormap.
StopErrors(stops) ==
    (IF Len(stops) < 2 THEN {"stops"} ELSE {})
    \cup (IF Cardinality(Values(stops)) < Len(stops) THEN {"stop value"} ELSE {})
    \cup (IF \E i \in DOMAIN stops : stops[i].color = "undefined" THEN {"color"} ELSE {})

ConfigErrors(d) ==
    (IF d.cells = "allowed" THEN {} ELSE {"cells"})
    \cup (IF Cardinality(IdsOf(d.presets)) < Len(d.presets) THEN {"preset id"} ELSE {})
    \cup UNION {PresetErrors(d.presets[i]) \cup LayerErrors(d.presets[i].layers) : i \in DOMAIN d.presets}
    \cup UNION {StopErrors(d.maps[i].stops) : i \in DOMAIN d.maps}

-----------------------------------------------------------------------------
CdTypeOK ==
    /\ cdEdits \in 0..CdMaxEdits
    /\ cdOdd \subseteq {"level", "name", "layer id", "derived", "reference", "stop value", "color", "cells"}
    /\ \A i \in DOMAIN cd.presets : cd.presets[i].divider \in BOOLEAN /\ cd.presets[i].level \in BOOLEAN
    /\ \A i \in DOMAIN cd.maps : \A j \in DOMAIN cd.maps[i].stops : cd.maps[i].stops[j].val \in Int

\* The forms make of a draft that can be saved one that cannot only in the ways
\* the program's authors left open: whatever validateConfig finds goes back to an
\* edit that made it, and ids of presets and dividers are never given twice.
ErrorsExplained == ConfigErrors(cd) \subseteq cdOdd

\* A layer's colormap exists, whatever was renamed, copied and deleted, unless the
\* operator deleted one that was in use (which validateConfig does not see).
ReferencesKept ==
    "reference" \notin cdOdd =>
        \A i \in DOMAIN cd.presets : \A j \in DOMAIN cd.presets[i].layers :
            cd.presets[i].layers[j].map \in IdsOf(cd.maps) \cup {NoId}

\* The stops of every colormap are in the order the gradient needs.
StopsInOrder ==
    \A i \in DOMAIN cd.maps : LET s == cd.maps[i].stops
                              IN  \A j \in 1 .. Len(s) - 1 : s[j].val <= s[j + 1].val

\* There is something chosen as long as there is something to choose.
SelectionKept ==
    /\ cd.chosen \in IdsOf(cd.presets) \cup {NoId} /\ (cd.chosen = NoId => cd.presets = <<>>)
    /\ cd.map \in IdsOf(cd.maps) \cup {NoId} /\ (cd.map = NoId => cd.maps = <<>>)

ConfigDraftSound == ErrorsExplained /\ ReferencesKept /\ StopsInOrder /\ SelectionKept
=============================================================================
