---------------------------- MODULE DerivedLayers -----------------------------
(* The contours the browser derives from the soundings of a window            *)
(* (derivedContours.js, derivedContourActions.js, actionsDispatcher.js,       *)
(* levelController.js): they are in three lists that have to agree - the      *)
(* layers of the window, the window's copy of its preset and the preset that  *)
(* is saved - and are drawn again after every step, one after the other, with *)
(* awaits between them that no sequence number guards.                        *)
(* An element is "core" (drawn for every sounding), "raster" (drawn, then     *)
(* awaited while its image is made) or "served" (its stations are fetched     *)
(* from the server for each drawing).                                         *)
EXTENDS Integers, Sequences, FiniteSets, SequencesExt

CONSTANTS
    DcLevels,      \* the pressure levels
    DcMaxTime,     \* steps in time
    DcMaxOps       \* clicks of the operator in all

VARIABLES
    dc,         \* the window: level, time, loadSeq, its layers and its preset
    dcLoads,    \* the loads of stations under way, with what they have still to draw
    dcFetches,  \* the single contours under way: added or shown again
    dcGhost,    \* what the operator has hidden and removed
    dcCount,    \* his clicks
    dcOdd       \* what has crossed what
dcVars == <<dc, dcLoads, dcFetches, dcGhost, dcCount, dcOdd>>

DcElements == {"core", "raster", "served"}
ContourIds == DcElements \X DcLevels
NoContour == [on |-> FALSE, vis |-> FALSE, time |-> 0, level |-> 0]
DrawnLayer(vis, time, level) == [on |-> TRUE, vis |-> vis, time |-> time, level |-> level]

\* An entry of the window's copy of the preset: its id has the window's level, its
\* path has the level it was added at.
NoEntry == [on |-> FALSE, vis |-> TRUE, path |-> 0]
PresetEntry(path) == [on |-> TRUE, vis |-> TRUE, path |-> path]

NothingAwaited == [what |-> "nothing", id |-> <<"core", 0>>, vis |-> FALSE, time |-> 0, level |-> 0]

DcInit ==
    /\ dc = [level |-> CHOOSE l \in DcLevels : \A m \in DcLevels : l <= m, time |-> 0, seq |-> 0, gen |-> 0,
             stations |-> [on |-> FALSE, level |-> 0, time |-> 0],
             layers |-> [id \in ContourIds |-> NoContour], group |-> [e \in DcElements |-> NoEntry],
             snaps |-> [id \in ContourIds |-> "none"], preset |-> {}]
    /\ dcLoads = <<[seq |-> 0, level |-> dc.level, time |-> 0, at |-> "stations", todo |-> {},
                    awaited |-> NothingAwaited]>>
    /\ dcFetches = <<>>
    /\ dcGhost = [hidden |-> {}, removed |-> {}]
    /\ dcCount = 0
    /\ dcOdd = {}

DrawnIds(d) == {id \in ContourIds : d.layers[id].on}
GroupIds(d) == {<<e, d.level>> : e \in {x \in DcElements : d.group[x].on}}
DcAtRest == dcLoads = <<>> /\ dcFetches = <<>>

\* A load whose loop runs goes on to its next await before anything else happens.
LoopRuns(load) == load.at = "loop" /\ load.awaited.what = "nothing"
DcIdle == \A i \in DOMAIN dcLoads : ~LoopRuns(dcLoads[i])
DcClick == /\ DcIdle
           /\ dcCount < DcMaxOps
           /\ dcCount' = dcCount + 1

LoopCrossed == IF \E i \in DOMAIN dcLoads : dcLoads[i].at = "loop" THEN {"overlap"} ELSE {}

-----------------------------------------------------------------------------
(* Steps: each begins a load, and those before it are stale *)

LoadBegun(d) == [seq |-> d.seq, level |-> d.level, time |-> d.time, at |-> "stations", todo |-> {},
             awaited |-> NothingAwaited]

\* loadPresetGroup for a step in time: what is on the map stays until the stations
\* are there.
DcTimeStep ==
    /\ DcClick
    /\ dc.time < DcMaxTime
    /\ dc' = [dc EXCEPT !.time = @ + 1, !.seq = @ + 1]
    /\ dcLoads' = Append(dcLoads, LoadBegun(dc'))
    /\ dcOdd' = dcOdd \cup LoopCrossed
    /\ UNCHANGED <<dcFetches, dcGhost>>

\* stepVerticalLevel: the contours there are leave a snapshot under the ids of the
\* new level, the entries of the preset take those ids, and the map is wiped.
SnapshotAt(d, level) ==
    IF DrawnIds(d) = {} THEN d.snaps
    ELSE [id \in ContourIds |->
            LET before == {x \in DrawnIds(d) : x[1] = id[1]}
            IN  IF id[2] # level \/ before = {} THEN "none"
                ELSE IF \E x \in before : d.layers[x].vis THEN "shown" ELSE "hidden"]
DcWiped(d) == [d EXCEPT !.layers = [id \in ContourIds |-> NoContour], !.stations.on = FALSE]
DcLevelStep(level) ==
    /\ DcClick
    /\ level # dc.level
    /\ dc' = [DcWiped(dc) EXCEPT !.snaps = SnapshotAt(dc, level), !.level = level, !.seq = @ + 1]
    /\ dcLoads' = Append(dcLoads, LoadBegun(dc'))
    /\ dcOdd' = dcOdd \cup LoopCrossed
                \cup (IF DrawnIds(dc) = {} THEN {"unsnapped"} ELSE {})
                \cup (IF dc.group["served"].on /\ dc.group["served"].path # level THEN {"path"} ELSE {})
    /\ UNCHANGED <<dcFetches, dcGhost>>

\* The preset is chosen again: the window gets a fresh copy of what is saved.
DcReselect ==
    /\ DcClick
    /\ dc' = [DcWiped(dc) EXCEPT !.seq = @ + 1, !.gen = @ + 1,
                 !.group = [e \in DcElements |->
                               IF \E l \in DcLevels : <<e, l>> \in dc.preset
                               THEN PresetEntry(CHOOSE l \in DcLevels : <<e, l>> \in dc.preset) ELSE NoEntry]]
    /\ dcLoads' = Append(dcLoads, LoadBegun(dc'))
    /\ dcGhost' = [hidden |-> {}, removed |-> {}]
    /\ dcOdd' = dcOdd \cup LoopCrossed
                \cup (IF \E l \in DcLevels \ {dc.level} : <<"served", l>> \in dc.preset THEN {"path"} ELSE {})
    /\ UNCHANGED dcFetches

-----------------------------------------------------------------------------
(* A load draws *)

\* What a load has to draw: the entries of the preset, with the core contours if
\* they are not among them; else the contours there are; else those of the
\* snapshot; else the core contours.  An entry is looked at when its turn comes,
\* the others as they were.
Contour(id, live, vis) == [id |-> id, live |-> live, vis |-> vis]
ToDraw(d, level) ==
    IF GroupIds(d) # {}
    THEN {Contour(id, TRUE, TRUE) : id \in GroupIds(d)}
         \cup (IF d.group["core"].on THEN {} ELSE {Contour(<<"core", level>>, FALSE, TRUE)})
    ELSE IF DrawnIds(d) # {} THEN {Contour(id, FALSE, d.layers[id].vis) : id \in DrawnIds(d)}
    ELSE IF \E id \in ContourIds : d.snaps[id] # "none"
         THEN {Contour(id, FALSE, d.snaps[id] = "shown") : id \in {x \in ContourIds : d.snaps[x] # "none"}}
         ELSE {Contour(<<"core", level>>, FALSE, TRUE)}

\* loadObservationProduct: the one check whether the answer is still wanted.
StationsArrive(i) ==
    /\ DcIdle
    /\ dcLoads[i].at = "stations"
    /\ LET l == dcLoads[i]
       IN  IF l.seq # dc.seq
           THEN /\ dcLoads' = RemoveAt(dcLoads, i)
                /\ UNCHANGED <<dc, dcGhost>>
           ELSE /\ dcLoads' = [dcLoads EXCEPT ![i].at = "loop", ![i].todo = ToDraw(dc, l.level)]
                /\ dc' = [dc EXCEPT !.stations = [on |-> TRUE, level |-> l.level, time |-> l.time]]
                /\ dcGhost' = [dcGhost EXCEPT !.removed = @ \ {"core"}]
    /\ UNCHANGED <<dcFetches, dcCount, dcOdd>>

StationsFail(i) ==
    /\ DcIdle
    /\ dcLoads[i].at = "stations"
    /\ dcLoads' = RemoveAt(dcLoads, i)
    /\ dcOdd' = dcOdd \cup (IF dcLoads[i].seq = dc.seq THEN {"failed"} ELSE {})
    /\ UNCHANGED <<dc, dcFetches, dcGhost, dcCount>>

\* Mutant: the snapshot a level step leaves is not looked at.
BugEyeOf(d, it, id) == IF d.layers[id].on THEN d.layers[id].vis ELSE it.vis

\* A contour is drawn visible if the layer it replaces is, else if the snapshot of
\* exactly its id is, else if its entry is.
EyeOf(d, it, id) ==
    IF d.layers[id].on THEN d.layers[id].vis
    ELSE IF d.snaps[id] # "none" THEN d.snaps[id] = "shown"
    ELSE IF it.live THEN d.group[id[1]].vis ELSE it.vis

\* One turn of the loop.  A served contour awaits its own stations, a raster one
\* its image, and the others are drawn at once.
DrawNext(i, it) ==
    /\ LoopRuns(dcLoads[i])
    /\ it \in dcLoads[i].todo
    /\ (it.id[1] = "core" => dcLoads[i].todo = {it})
    /\ LET l == dcLoads[i]
           id == IF it.live THEN <<it.id[1], dc.level>> ELSE it.id
           vis == EyeOf(dc, it, id)
           path == IF it.live THEN dc.group[id[1]].path ELSE l.level
           await == [what |-> id[1], id |-> id, vis |-> vis, time |-> dc.time, level |-> path]
       IN  /\ dcLoads' = [dcLoads EXCEPT ![i].todo = @ \ {it},
                             ![i].awaited = IF id[1] = "served" \/ (id[1] = "raster" /\ vis)
                                            THEN await ELSE @]
           /\ dc' = IF id[1] = "served" THEN dc
                    ELSE [dc EXCEPT !.layers[id] = DrawnLayer(vis, l.time, l.level)]
    /\ UNCHANGED <<dcFetches, dcGhost, dcCount, dcOdd>>

\* The await is over: the loop goes on, whatever has happened meanwhile.
DrawAwaited(i) ==
    /\ DcIdle
    /\ dcLoads[i].awaited.what # "nothing"
    /\ LET a == dcLoads[i].awaited
       IN  /\ dc' = IF a.what = "served"
                    THEN [dc EXCEPT !.layers[a.id] = DrawnLayer(a.vis, a.time, a.level)] ELSE dc
           /\ dcLoads' = [dcLoads EXCEPT ![i].awaited = NothingAwaited]
    /\ UNCHANGED <<dcFetches, dcGhost, dcCount, dcOdd>>

\* The loop is through: the snapshots are dropped.
LoopDone(i) ==
    /\ LoopRuns(dcLoads[i])
    /\ dcLoads[i].todo = {}
    /\ dcLoads' = RemoveAt(dcLoads, i)
    /\ dc' = [dc EXCEPT !.snaps = [id \in ContourIds |-> "none"]]
    /\ UNCHANGED <<dcFetches, dcGhost, dcCount, dcOdd>>

-----------------------------------------------------------------------------
(* The operator's clicks on a contour *)

\* upsertDerivedLayerToPreset and syncDerivedLayerToWindowPreset.
ContourDeclared(d, id, same) ==
    [d EXCEPT !.preset = @ \cup {id},
              !.group[id[1]] = IF ~same \/ id[2] # d.level THEN @ ELSE IF @.on THEN @ ELSE PresetEntry(id[2])]

DeclaredElsewhere(id) == \E l \in DcLevels \ {id[2]} : <<id[1], l>> \in dc.preset

\* handleAddContourAction: from the stations on the map.
AddContour(e) ==
    /\ DcClick
    /\ dc.stations.on
    /\ LET id == <<e, dc.stations.level>>
           drawn == [dc EXCEPT !.layers[id] = DrawnLayer(TRUE, dc.stations.time, id[2])]
       IN  /\ dc' = ContourDeclared(drawn, id, TRUE)
           /\ dcGhost' = [hidden |-> dcGhost.hidden \ {e}, removed |-> dcGhost.removed \ {e}]
           /\ dcOdd' = dcOdd \cup LoopCrossed \cup (IF DeclaredElsewhere(id) THEN {"elsewhere"} ELSE {})
    /\ UNCHANGED <<dcLoads, dcFetches>>

\* handleDerivedServerContourAction: the stations of the difference are fetched.
ContourFetch(why, id) ==
    Append(dcFetches, [why |-> why, id |-> id, time |-> dc.time, seq |-> dc.seq, gen |-> dc.gen])
AddServed ==
    /\ DcClick
    /\ dc.stations.on
    /\ Len(dcFetches) < 1
    /\ dcFetches' = ContourFetch("add", <<"served", dc.stations.level>>)
    /\ dcGhost' = [hidden |-> dcGhost.hidden \ {"served"}, removed |-> dcGhost.removed \ {"served"}]
    /\ dcOdd' = dcOdd \cup LoopCrossed
    /\ UNCHANGED <<dc, dcLoads>>

\* Its answer is drawn and declared without a look at what has happened since.
ContourArrives(k) ==
    /\ DcIdle
    /\ LET f == dcFetches[k]
           drawn == [dc EXCEPT !.layers[f.id] = DrawnLayer(TRUE, f.time, f.id[2])]
       IN  /\ dc' = IF f.why = "add" THEN ContourDeclared(drawn, f.id, f.gen = dc.gen) ELSE drawn
           /\ dcOdd' = dcOdd \cup (IF f.seq # dc.seq \/ "served" \in dcGhost.hidden \cup dcGhost.removed
                                   THEN {"late"} ELSE {})
                       \cup (IF f.why = "add" /\ DeclaredElsewhere(f.id) THEN {"elsewhere"} ELSE {})
    /\ dcFetches' = RemoveAt(dcFetches, k)
    /\ UNCHANGED <<dcLoads, dcGhost, dcCount>>

ContourFails(k) ==
    /\ DcIdle
    /\ dcFetches' = RemoveAt(dcFetches, k)
    /\ dcOdd' = dcOdd \cup {"failed"}
    /\ UNCHANGED <<dc, dcLoads, dcGhost, dcCount>>

\* handleVisibilityAction: the layer, its snapshot and its entry.
EyeSet(d, id, vis) ==
    [d EXCEPT !.layers[id].vis = vis,
              !.snaps[id] = IF @ = "none" THEN @ ELSE IF vis THEN "shown" ELSE "hidden",
              !.group[id[1]].vis = IF d.group[id[1]].on /\ id[2] = d.level THEN vis ELSE @]

HideContour(id) ==
    /\ DcClick
    /\ dc.layers[id].on /\ dc.layers[id].vis
    /\ dc' = EyeSet(dc, id, FALSE)
    /\ dcGhost' = [dcGhost EXCEPT !.hidden = @ \cup {id[1]}]
    /\ dcOdd' = dcOdd \cup LoopCrossed
    /\ UNCHANGED <<dcLoads, dcFetches>>

\* Showing it again computes it from the stations on the map, or fetches its own.
ShowContour(id) ==
    /\ DcClick
    /\ dc.layers[id].on /\ ~dc.layers[id].vis
    /\ LET seen == EyeSet(dc, id, TRUE)
       IN  IF id[1] = "served"
           THEN dc' = seen /\ Len(dcFetches) < 1 /\ dcFetches' = ContourFetch("show", id)
           ELSE /\ dc' = IF dc.stations.on
                         THEN [seen EXCEPT !.layers[id] =
                                  DrawnLayer(TRUE, dc.stations.time, dc.stations.level)]
                         ELSE seen
                /\ UNCHANGED dcFetches
    /\ dcGhost' = [dcGhost EXCEPT !.hidden = @ \ {id[1]}]
    /\ dcOdd' = dcOdd \cup LoopCrossed
    /\ UNCHANGED dcLoads

\* handleRemoveAction: the saved preset loses the entry with this very id.
RemoveContour(id) ==
    /\ DcClick
    /\ dc.layers[id].on
    /\ dc' = [dc EXCEPT !.layers[id] = NoContour, !.preset = @ \ {id}, !.snaps[id] = "none",
                        !.group[id[1]] = NoEntry]
    /\ dcGhost' = [hidden |-> dcGhost.hidden \ {id[1]}, removed |-> dcGhost.removed \cup {id[1]}]
    /\ dcOdd' = dcOdd \cup LoopCrossed \cup (IF DeclaredElsewhere(id) THEN {"elsewhere"} ELSE {})
    /\ UNCHANGED <<dcLoads, dcFetches>>

DcNext ==
    \/ DcTimeStep \/ DcReselect \/ AddServed
    \/ \E level \in DcLevels : DcLevelStep(level)
    \/ \E i \in DOMAIN dcLoads :
          \/ StationsArrive(i) \/ StationsFail(i) \/ DrawAwaited(i) \/ LoopDone(i)
          \/ \E it \in dcLoads[i].todo : DrawNext(i, it)
    \/ \E e \in {"core", "raster"} : AddContour(e)
    \/ \E k \in DOMAIN dcFetches : ContourArrives(k) \/ ContourFails(k)
    \/ \E id \in DrawnIds(dc) : HideContour(id) \/ ShowContour(id) \/ RemoveContour(id)

DcSpec == DcInit /\ [][DcNext]_dcVars

-----------------------------------------------------------------------------
DcTypeOK ==
    /\ dc.level \in DcLevels /\ dc.time \in 0..DcMaxTime
    /\ dc.preset \subseteq ContourIds
    /\ \A id \in ContourIds : dc.layers[id].vis => dc.layers[id].on
    /\ dcOdd \subseteq {"overlap", "unsnapped", "path", "failed", "elsewhere", "late"}

\* At rest every contour on the map is of the level and the time of the window,
\* under an id of that level: a load that is overtaken draws nothing, unless it
\* was overtaken between two of its contours.
ContoursCurrent ==
    DcAtRest /\ dcOdd \cap {"overlap", "unsnapped", "failed", "late", "path"} = {} =>
        \A id \in DrawnIds(dc) : dc.layers[id].vis =>
            id[2] = dc.level /\ dc.layers[id].level = dc.level /\ dc.layers[id].time = dc.time

\* What the operator hid stays hidden, whatever steps follow.
ContoursStayHidden ==
    DcAtRest /\ dcOdd \cap {"overlap", "unsnapped", "late"} = {} =>
        \A id \in DrawnIds(dc) : dc.layers[id].vis => id[1] \notin dcGhost.hidden

\* What he removed stays away but for the core contours, which every load of
\* stations draws again.
ContoursStayAway ==
    DcAtRest /\ dcOdd \cap {"overlap", "late", "elsewhere", "unsnapped"} = {} =>
        \A id \in DrawnIds(dc) : id[1] \notin dcGhost.removed

\* No contour starves: what the window's preset declares is on the map, and the
\* core contours with it.
NoneStarves ==
    DcAtRest /\ dcOdd \cap {"overlap", "failed", "late", "unsnapped"} = {} =>
        (GroupIds(dc) \cup {<<"core", dc.level>>}) \ {<<e, dc.level>> : e \in dcGhost.removed} \subseteq DrawnIds(dc)

\* The window's copy of the preset and the saved preset declare the same contours.
PresetsAgree ==
    DcAtRest /\ dcOdd \cap {"elsewhere", "late"} = {} =>
        {id[1] : id \in dc.preset} = {e \in DcElements : dc.group[e].on}

DerivedLayersSound ==
    ContoursCurrent /\ ContoursStayHidden /\ ContoursStayAway /\ NoneStarves /\ PresetsAgree
=============================================================================
