------------------------------- MODULE Legends --------------------------------
(* The legends of a window (legendCore.js, legendSync.js): a map from the id   *)
(* of a layer, or from an element when no layer is known, to a colour scale.   *)
(* Whoever draws, hides, recolours or removes a layer updates or removes its   *)
(* legend, by id or by element, some after an await; the panel shows what is   *)
(* left after it has dropped duplicates.  The layers are a gridded one and one *)
(* derived from stations, of the same element, and a satellite image of        *)
(* another.  Names, ranges and time badges are left out: no layer has the name *)
(* or the range of another.                                                    *)
EXTENDS Integers, Sequences, FiniteSets, SequencesExt

CONSTANTS
    LgMaxOps     \* what happens to the layers in all

VARIABLES
    lgLayers,    \* the layers of the window
    lgEntries,   \* its legends, in the order they were put into the map
    lgLate,      \* the load or overlay under way that will set a legend
    lgCount,     \* what has happened
    lgOdd        \* which of the named exceptions have
lgVars == <<lgLayers, lgEntries, lgLate, lgCount, lgOdd>>

LgLayers == {"grid", "derived", "satellite"}
ElementOf(l) == IF l = "satellite" THEN "BT" ELSE "DTD"

\* A layer: in the store, its eye, its two boxes, and its colormap - the element's
\* or the palette registered under the layer's id.
LayerGone == [on |-> FALSE, vis |-> FALSE, fill |-> FALSE, raster |-> FALSE, cm |-> "builtin"]
Shading(layer) == layer.on /\ layer.vis /\ (layer.fill \/ layer.raster)
NothingLate == [how |-> "nothing", layer |-> "grid", shaded |-> FALSE, cm |-> "builtin"]

LgInit ==
    /\ lgLayers = [l \in LgLayers |-> LayerGone]
    /\ lgEntries = <<>>
    /\ lgLate = NothingLate
    /\ lgCount = 0
    /\ lgOdd = {}

-----------------------------------------------------------------------------
(* updateLegend, removeLegend and the panel *)

OfElement(layers, e) == {l \in LgLayers : layers[l].on /\ ElementOf(l) = e}

\* The layer an update is about: the one named, else that of the palette, else the
\* only one of the element.
LegendLayer(layers, e, cm, id) ==
    IF id # "none" THEN id
    ELSE IF cm # "builtin" /\ layers[cm].on THEN cm
    ELSE IF Cardinality(OfElement(layers, e)) = 1 THEN CHOOSE l \in OfElement(layers, e) : TRUE
    ELSE "none"

\* The entry it replaces, 0 if there is none.
FirstIndex(S) == IF S = {} THEN 0 ELSE Min(S)
SoleIndex(S) == IF Cardinality(S) = 1 THEN Min(S) ELSE 0
ExistingOfLayer(entries, few, e, id) ==
    LET own == {i \in DOMAIN entries : entries[i].key = id \/ entries[i].layer = id}
        free == {i \in DOMAIN entries : entries[i].elem = e /\ entries[i].layer \in {"none", id}}
        generic == {i \in free : entries[i].key = e}
    IN  IF own # {} THEN FirstIndex(own)
        ELSE IF generic # {} THEN FirstIndex(generic)
        ELSE IF few THEN SoleIndex(free) ELSE 0
ExistingOfElement(entries, e) ==
    LET generic == {i \in DOMAIN entries : entries[i].key = e}
    IN  IF generic # {} THEN FirstIndex(generic)
        ELSE SoleIndex({i \in DOMAIN entries : entries[i].elem = e})
Existing(entries, few, e, id) ==
    IF id # "none" THEN ExistingOfLayer(entries, few, e, id) ELSE ExistingOfElement(entries, e)

\* It is stored under the layer's id, else under the key it had, else under the
\* element, and what conflicts with it is deleted.
Legend(key, layer, e, cm) == [key |-> key, layer |-> layer, elem |-> e, cm |-> cm]
Conflicts(v, few, e, layer) ==
    \/ layer # "none" /\ (v.layer = layer \/ v.key = layer)
    \/ v.elem = e /\ v.layer = "none" /\ (few \/ v.key = e \/ layer = "none")
Put(entries, v) ==
    IF \E i \in DOMAIN entries : entries[i].key = v.key
    THEN [i \in DOMAIN entries |-> IF entries[i].key = v.key THEN v ELSE entries[i]]
    ELSE Append(entries, v)
StoredAs(entries, few, old, v) ==
    Put(SelectSeq(entries, LAMBDA x :
            x.key = v.key \/ (x.key # old /\ ~Conflicts(x, few, v.elem, v.layer))), v)
StoredOver(entries, few, e, cm, id, old) ==
    LET layer == IF id = "none" THEN old.layer ELSE id
        key == IF layer # "none" THEN layer ELSE IF old.key # "none" THEN old.key ELSE e
    IN  StoredAs(entries, few, old.key, Legend(key, layer, e, cm))
UpdatedFor(entries, few, e, cm, id, at) ==
    StoredOver(entries, few, e, cm, id, IF at = 0 THEN Legend("none", "none", e, cm) ELSE entries[at])
UpdatedWith(entries, few, e, cm, id) ==
    UpdatedFor(entries, few, e, cm, id, Existing(entries, few, e, id))
UpdateLegend(entries, layers, e, cm, id) ==
    UpdatedWith(entries, Cardinality(OfElement(layers, e)) <= 1, e, cm, LegendLayer(layers, e, cm, id))

\* Mutant: the element is always looked at.
BugRemoveLegend(entries, what) ==
    SelectSeq(entries, LAMBDA v : v.key # what /\ v.layer # what /\ v.elem # what
                                  /\ (what \in LgLayers => v.elem # ElementOf(what)))

\* By id or key; only when nothing has that, by element.
RemoveLegend(entries, what) ==
    IF \E i \in DOMAIN entries : what \in {entries[i].key, entries[i].layer}
    THEN SelectSeq(entries, LAMBDA v : v.key # what /\ v.layer # what)
    ELSE SelectSeq(entries, LAMBDA v : v.elem # what)

\* buildLegendItems: the layer an entry stands for, and the last entry of each.
ItemLayer(v, layers) ==
    IF v.layer # "none" /\ layers[v.layer].on THEN v.layer
    ELSE IF Cardinality(OfElement(layers, v.elem)) = 1 THEN CHOOSE l \in OfElement(layers, v.elem) : TRUE
    ELSE "none"
Identity(v, layers) ==
    IF ItemLayer(v, layers) # "none" THEN ItemLayer(v, layers)
    ELSE IF v.layer # "none" THEN v.layer
    ELSE IF Cardinality(OfElement(layers, v.elem)) <= 1 THEN v.elem ELSE v.key
Later(entries, v) ==
    {entries[j] : j \in {k \in DOMAIN entries : \E i \in 1..(k - 1) : entries[i].key = v.key}}
BuildLegendItems(entries, layers) ==
    SelectSeq(entries, LAMBDA v : \A x \in Later(entries, v) : Identity(x, layers) # Identity(v, layers))

\* syncLegendForLayer.
Synced(entries, layers, l) ==
    IF Shading(layers[l]) THEN UpdateLegend(entries, layers, ElementOf(l), layers[l].cm, l)
    ELSE RemoveLegend(entries, l)

-----------------------------------------------------------------------------
LgClick == /\ lgCount < LgMaxOps
           /\ lgCount' = lgCount + 1

\* The panel is rendered after each of them.
ShowLegends(entries, layers) ==
    /\ lgLayers' = layers
    /\ lgEntries' = BuildLegendItems(entries, layers)

Boxes == {b \in [fill : BOOLEAN, raster : BOOLEAN] : ~(b.fill /\ b.raster)}
With(layer, vis, fill, raster) ==
    [layer EXCEPT !.on = TRUE, !.vis = vis, !.fill = fill, !.raster = raster]

\* loadWeatherField: a hidden layer loses its legend, a visible one has it set as
\* it was read before the palette and the image were awaited.
LoadGrid(l, boxes) ==
    /\ LgClick
    /\ lgLate.how = "nothing"
    /\ LET old == lgLayers[l]
           new == IF old.on THEN old ELSE With(old, TRUE, boxes.fill, boxes.raster)
           layers == [lgLayers EXCEPT ![l] = new]
       IN  /\ (old.on => boxes = [fill |-> FALSE, raster |-> FALSE])
           /\ IF new.vis
              THEN /\ lgLate' = [how |-> "load", layer |-> l, shaded |-> Shading(new), cm |-> new.cm]
                   /\ lgLayers' = layers
                   /\ UNCHANGED lgEntries
              ELSE /\ ShowLegends(RemoveLegend(lgEntries, l), layers)
                   /\ UNCHANGED lgLate
    /\ UNCHANGED lgOdd

\* The end of a load, and of an overlay, which looks at the eye alone.
LateLegend ==
    /\ lgLate.how # "nothing"
    /\ LET l == lgLate.layer
           set == IF lgLate.how = "load" THEN lgLate.shaded ELSE lgLayers[l].vis \/ ~lgLayers[l].on
       IN  /\ ShowLegends(IF set THEN UpdateLegend(lgEntries, lgLayers, ElementOf(l), lgLate.cm, l)
                   ELSE IF lgLate.how = "load" THEN RemoveLegend(lgEntries, l) ELSE lgEntries, lgLayers)
           /\ lgOdd' = lgOdd \cup (IF set # Shading(lgLayers[l]) \/ lgLate.cm # lgLayers[l].cm
                                   THEN {"late"} ELSE {})
    /\ lgLate' = NothingLate
    /\ UNCHANGED lgCount

\* An overlay fetches its image, or its palette, if there is none.
Overlay(layers, l) ==
    \/ lgLate' = lgLate
    \/ /\ Shading(layers[l])
       /\ lgLate.how = "nothing"
       /\ lgLate' = [how |-> "overlay", layer |-> l, shaded |-> TRUE, cm |-> layers[l].cm]

\* The eye, and a box: the two exclude each other, a raster only on a visible layer.
Toggle(l, layer) ==
    LET layers == [lgLayers EXCEPT ![l] = layer]
    IN  /\ LgClick
        /\ lgLayers[l].on
        /\ ShowLegends(Synced(lgEntries, layers, l), layers)
        /\ Overlay(layers, l)
        /\ UNCHANGED lgOdd
ClickEye(l) == Toggle(l, [lgLayers[l] EXCEPT !.vis = ~@])
ClickFill(l) == Toggle(l, [lgLayers[l] EXCEPT !.fill = ~@, !.raster = @ /\ lgLayers[l].fill])
ClickRaster(l) ==
    Toggle(l, [lgLayers[l] EXCEPT !.raster = ~@, !.fill = @ /\ (lgLayers[l].raster \/ ~lgLayers[l].vis)])
\* A palette has arrived, or the built-in one is chosen.
Recolour(l) == Toggle(l, [lgLayers[l] EXCEPT !.cm = IF @ = l THEN "builtin" ELSE l])

DropLayer(l) ==
    /\ LgClick
    /\ lgLayers[l].on
    /\ ShowLegends(RemoveLegend(lgEntries, l), [lgLayers EXCEPT ![l] = LayerGone])
    /\ UNCHANGED <<lgLate, lgOdd>>

\* clearAllWeatherLayersFromMap.
ClearMap ==
    /\ LgClick
    /\ lgEntries' = <<>>
    /\ lgLayers' = [l \in LgLayers |-> LayerGone]
    /\ UNCHANGED <<lgLate, lgOdd>>

\* The derived contour is drawn again with its stations: a hidden one takes the
\* legends of its element away before its own.
DrawDerived ==
    /\ LgClick
    /\ lgLayers["derived"].on
    /\ ShowLegends(IF lgLayers["derived"].vis THEN Synced(lgEntries, lgLayers, "derived")
            ELSE RemoveLegend(RemoveLegend(lgEntries, "DTD"), "derived"), lgLayers)
    /\ lgOdd' = lgOdd \cup (IF ~lgLayers["derived"].vis /\ Shading(lgLayers["grid"])
                                THEN {"sibling"} ELSE {})
    /\ UNCHANGED lgLate

\* Adding it: the raster's overlay sets its legend by id, and handleAddContourAction
\* once more without one.  Other elements are drawn as lines, with no call at all.
AddRaster ==
    /\ LgClick
    /\ LET layers == [lgLayers EXCEPT !["derived"] = With(@, TRUE, FALSE, TRUE)]
           cm == layers["derived"].cm
       IN  \E drawn \in BOOLEAN :
           /\ lgLate' = IF drawn THEN lgLate
                        ELSE [how |-> "overlay", layer |-> "derived", shaded |-> TRUE, cm |-> cm]
           /\ (~drawn => cm # "builtin" /\ lgLate.how = "nothing")
           /\ LET overlaid == IF drawn THEN UpdateLegend(lgEntries, layers, "DTD", cm, "derived")
                              ELSE lgEntries
              IN  ShowLegends(UpdateLegend(overlaid, layers, "DTD", cm, "none"), layers)
    /\ lgOdd' = lgOdd \cup (IF lgLayers["grid"].on THEN {"nameless"} ELSE {})
AddLines ==
    /\ LgClick
    /\ lgLayers' = [lgLayers EXCEPT !["derived"] = With(@, TRUE, FALSE, FALSE)]
    /\ lgOdd' = lgOdd \cup (IF Shading(lgLayers["derived"]) THEN {"lines"} ELSE {})
    /\ UNCHANGED <<lgEntries, lgLate>>

\* reapplyLightingCompensation updates the legend of every satellite layer.
Lighting ==
    /\ LgClick
    /\ lgLayers["satellite"].on
    /\ LET cm == lgLayers["satellite"].cm
       IN  ShowLegends(UpdateLegend(lgEntries, lgLayers, "BT", cm, "satellite"), lgLayers)
    /\ lgOdd' = lgOdd \cup (IF Shading(lgLayers["satellite"]) THEN {} ELSE {"lighting"})
    /\ UNCHANGED lgLate

LgNext ==
    \/ \E l \in {"grid", "satellite"}, boxes \in Boxes : LoadGrid(l, boxes)
    \/ LateLegend \/ ClearMap \/ DrawDerived \/ AddRaster \/ AddLines \/ Lighting
    \/ \E l \in LgLayers : ClickEye(l) \/ ClickFill(l) \/ ClickRaster(l) \/ Recolour(l) \/ DropLayer(l)

LgSpec == LgInit /\ [][LgNext]_lgVars

-----------------------------------------------------------------------------
LgTypeOK ==
    /\ \A l \in LgLayers : lgLayers[l].cm \in {"builtin", l}
    /\ lgLate.layer \in LgLayers
    /\ lgCount \in 0..LgMaxOps
    /\ lgOdd \subseteq {"late", "sibling", "lines", "lighting", "nameless"}

\* Whatever has happened, no two legends have one key, and one that names a layer is
\* stored under its id. Before a late fetch has told a legend of a removed layer, no two
\* stand for one layer either: two such legends would both be read as the next layer
\* until the panel renders again.
LegendsUnique ==
    \A i, j \in DOMAIN lgEntries :
        /\ lgEntries[i].layer # "none" => lgEntries[i].key = lgEntries[i].layer
        /\ lgEntries[i].key = lgEntries[j].key => i = j
        /\ "late" \notin lgOdd /\ Identity(lgEntries[i], lgLayers) = Identity(lgEntries[j], lgLayers) => i = j

\* With nothing under way the legends are those of the shaded visible layers, each
\* with its colormap.
LegendsFollow ==
    lgLate.how = "nothing" /\ lgOdd = {} =>
        {<<ItemLayer(lgEntries[i], lgLayers), lgEntries[i].cm>> : i \in DOMAIN lgEntries}
        = {<<l, lgLayers[l].cm>> : l \in {x \in LgLayers : Shading(lgLayers[x])}}

LegendsSound == LegendsUnique /\ LegendsFollow
=============================================================================
