----------------------------- MODULE Observations -----------------------------
(* A window that shows observations (presetLoader.js, App.svelte): the time it *)
(* is set to, its cursor, the files of its timeline and those its station      *)
(* layer was given once, against directories that files keep arriving in and   *)
(* listings kept for a while.  Presets are loaded, loaded again and stepped in *)
(* level and in time; an operation waits for the load of the one before, since *)
(* what overlaps of loads is the matter of WindowLoads.                        *)
EXTENDS FileChoice

CONSTANTS
    ObArrivals,     \* the files of each sort, in the order they arrive in
    ObPast,         \* the files of the day a look back in time is for
    ObLevels,       \* the levels of soundings
    ObMaxOps        \* operations in all

\* A listing names each file once, in order, and a file is of no day before the second; a directory has one at least
\* (for one that has none files are made up, Listed).
DayOne == 1440
ListedInOrder(s) == /\ s \in Seq(Nat) /\ s # <<>> /\ \A i \in DOMAIN s : s[i] >= DayOne
              /\ \A i, j \in DOMAIN s : i < j => s[i] < s[j]
ASSUME ObAssumption == \A sort \in {"upper", "surface", "alone"} : ListedInOrder(ObArrivals[sort]) /\ ListedInOrder(ObPast[sort])

VARIABLES
    obWin,       \* the window, and whether a past day is looked at
    obDirs,      \* how many files have arrived in each directory
    obKept,      \* how many of them the listing kept for each directory has, 0 if none is kept
    obCount,     \* operations so far
    obOdd        \* what keeps the map from the window's time, for as long as it may
obVars == <<obWin, obDirs, obKept, obCount, obOdd>>

\* What there is to load: soundings, which have levels, surface reports, and contours of an index of soundings by
\* themselves.  A directory's listing is kept apart for those that ask with a level.
SortsOfObs == {"upper", "surface", "alone"}
OfSoundings(sort) == sort # "surface"
SyncSort(sort) == IF OfSoundings(sort) THEN "upper" ELSE "surface"
ObPaths == ({"upper"} \X ObLevels) \cup ({"surface", "alone"} \X {0})
KeptKeys == ObPaths \X BOOLEAN
KeyOf(p, leveled) == <<p, leveled /\ p[1] = "upper">>
Untold == <<>>

ObInit ==
    /\ obWin = [preset |-> "none", level |-> 0, time |-> Nil, cursor |-> Nil, path |-> Untold, files |-> <<>>,
                samples |-> <<>>, shown |-> Nil,
              past |-> FALSE, load |-> "none"]
    /\ obDirs = [p \in ObPaths |-> 1]
    /\ obKept = [k \in KeptKeys |-> 0]
    /\ obCount = 0
    /\ obOdd = {}

-----------------------------------------------------------------------------
(* Listings *)

InDir(dirs, past, p) == IF past THEN ObPast[p[1]] ELSE SubSeq(ObArrivals[p[1]], 1, dirs[p])

\* fetchTree: the kept listing, unless it is asked for past it, and then nothing is kept.
Tree(dirs, kept, past, key) ==
    IF ~past /\ kept[key] # 0 THEN SubSeq(ObArrivals[key[1][1]], 1, kept[key]) ELSE InDir(dirs, past, key[1])
KeptAfter(dirs, kept, past, key) ==
    IF ~past /\ kept[key] = 0 THEN [kept EXCEPT ![key] = dirs[key[1]]] ELSE kept

-----------------------------------------------------------------------------
(* loadPresetGroup, the pass over a station layer or a contour by itself *)

PathOf(w) == <<w.preset, w.level>>
LineOf(w) == w.path = PathOf(w) /\ w.files # <<>>

\* The files the layer has: those it was given, else the timeline's, else what a listing tells.
Asks(w) == w.samples = <<>> /\ ~LineOf(w)
Available(w) ==
    IF w.samples # <<>> THEN w.samples
    ELSE IF LineOf(w) THEN w.files
    ELSE Tree(obDirs, obKept, w.past, KeyOf(PathOf(w), FALSE))

FreshObs(w, stepping) == ~stepping /\ w.files = <<>> /\ w.time = Nil

\* Mutant: a timeline of another level is kept.
BugSyncs(w, stepping) == w.time = Nil \/ FreshObs(w, stepping) \/ w.files = <<>>

\* Whether the timeline is set: for a fresh load, the first timeline, and another directory.
Syncs(w, stepping) ==
    \/ w.files = <<>>
    \/ FreshObs(w, stepping)
    \/ w.path = PathOf(w) /\ w.time = Nil
    \/ ~stepping /\ w.path # PathOf(w)

\* syncObservationTimeline; a fresh load asks past the kept listing.
SyncedLine(w, listing, fresh) ==
    LET sort == SyncSort(w.preset)
        file == SyncedFile(listing, IF fresh THEN Nil ELSE w.time, sort, DefaultStep(sort), fresh)
    IN  [w EXCEPT !.time = file, !.path = PathOf(w), !.files = listing]

\* The file drawn: of those there are, the one nearest to the cursor, or to the window's time where there is none.
DrawnFile(w, files) == MatchSample(files, IF w.cursor # Nil THEN w.cursor ELSE w.time, "nearest")

\* The timeline set anew, with the listings kept after the pass's own question.
Resynced(w, stepping, kept) ==
    LET listing == IF FreshObs(w, stepping) THEN InDir(obDirs, w.past, PathOf(w))
                   ELSE Tree(obDirs, kept, w.past, KeyOf(PathOf(w), TRUE))
    IN  IF Syncs(w, stepping) THEN SyncedLine(w, listing, FreshObs(w, stepping)) ELSE w

\* A station layer is given the files, a contour by itself is not.
StationPass(set, files) == [set EXCEPT !.samples = files, !.shown = DrawnFile(set, files)]
ContourPass(set, files) == [set EXCEPT !.shown = DrawnFile(set, files)]
Pass(set, files) == IF set.preset = "alone" THEN ContourPass(set, files) ELSE StationPass(set, files)

KeptByPass(w) == IF Asks(w) THEN KeptAfter(obDirs, obKept, w.past, KeyOf(PathOf(w), FALSE)) ELSE obKept
KeptBySync(w, stepping, kept) ==
    IF Syncs(w, stepping) /\ ~FreshObs(w, stepping)
    THEN KeptAfter(obDirs, kept, w.past, KeyOf(PathOf(w), TRUE)) ELSE kept

\* The chips of the slider.
ChipsOf(w) == FilterObsFiles(w.files, DefaultStep(SyncSort(w.preset)), OfSoundings(w.preset))

\* The bridge to the slider, after all but a step in time: a time that is no chip becomes the last chip.
Bridged(w, chips) == IF chips = <<>> \/ w.time \in Elements(chips) THEN w ELSE [w EXCEPT !.time = LastOf(chips)]

\* A load that an operation has left the window to.
PassOver(w, stepping, kept) ==
    /\ LET passed == Pass(Resynced(w, stepping, kept), Available(w))
       IN  obWin' = IF stepping THEN passed ELSE Bridged(passed, ChipsOf(passed))
    /\ obKept' = KeptBySync(w, stepping, kept)
LoadPass ==
    /\ obWin.load # "none"
    /\ PassOver([obWin EXCEPT !.load = "none"], obWin.load = "step", KeptByPass(obWin))
    /\ UNCHANGED <<obDirs, obCount, obOdd>>

-----------------------------------------------------------------------------
(* The operations *)

Operate ==
    /\ obWin.load = "none" /\ obCount < ObMaxOps
    /\ obCount' = obCount + 1 /\ UNCHANGED <<obDirs, obKept>>
Loads(w, how) == obWin' = [w EXCEPT !.load = how]

\* The listing kept for the layer lacks files that have arrived.
Behind(p) == ~obWin.past /\ obKept[KeyOf(p, FALSE)] \in 1..obDirs[p] - 1

\* Mutant: the cursor of the preset before is kept.
BugApplied(w, preset, level) ==
    [w EXCEPT !.preset = preset, !.level = level, !.time = Nil, !.path = Untold, !.files = <<>>]

\* applyPresetToWindow and handleLoadData: the time and the timeline go, the cursor only with another preset.
Applied(w, preset, level) ==
    [w EXCEPT !.preset = preset, !.level = level, !.time = Nil, !.path = Untold, !.files = <<>>,
              !.cursor = IF preset = w.preset THEN w.cursor ELSE Nil]

\* handleLoadClick: the preset as it is configured, without what a window added to it.
ChooseObs ==
    \E p \in ObPaths :
        /\ Operate
        /\ Loads([Applied(obWin, p[1], p[2]) EXCEPT !.samples = <<>>], "anew")
        /\ obOdd' = (IF Behind(p) THEN {"kept"} ELSE {})
                    \cup (IF p[1] = obWin.preset /\ obWin.cursor # Nil THEN {"returned"} ELSE {})

\* handleReloadClick: the window's own copy, whose layer has been given its files.
ReloadObs ==
    /\ obWin.preset # "none"
    /\ Operate
    /\ Loads(Applied(obWin, obWin.preset, obWin.level), "anew")
    /\ obOdd' = obOdd \cup {"given"} \cup (IF obWin.cursor # Nil THEN {"returned"} ELSE {})

\* handleLevelSelect, changeVerticalLevel and the bridge after them.
StepObsLevel ==
    \E l \in ObLevels \ {obWin.level} :
        /\ obWin.preset = "upper"
        /\ Operate
        /\ Loads([obWin EXCEPT !.level = l], "anew")
        /\ obOdd' = obOdd \cup {"level"}

\* Mutant: a chip sets the time and leaves the cursor.
BugTimed(w, f) == [w EXCEPT !.time = f]

\* handleTimeChange of a chip: the time and the cursor are the file's.
Timed(w, f) == [w EXCEPT !.time = f, !.cursor = f]
StepObsTime ==
    \E f \in Elements(ChipsOf(obWin)) :
        /\ Operate
        /\ Loads(Timed(obWin, f), "step")
        /\ obOdd' = obOdd \ {"returned", "swept", "dragged"}

\* handleTimeChange in a contrast of times: the window is put so many steps before a chip of another.
SweepObs ==
    \E f \in Elements(obWin.files), i \in {-1, 1} :
        /\ Operate
        /\ Loads([obWin EXCEPT !.time = f - i * DefaultStep(SyncSort(obWin.preset))], "step")
        /\ obOdd' = obOdd \cup {"swept"}

\* handleTimeChange of a cursor that is dragged, seven hours (more than half of a step) past a file: the time is the last
\* file before it.
DragCursor ==
    \E f \in Elements(obWin.files) :
        /\ Operate
        /\ Loads([obWin EXCEPT !.cursor = f + 420, !.time = MatchSample(obWin.files, f + 420, "latest-at")], "step")
        /\ obOdd' = obOdd \cup {"dragged"}

\* handleHistoryChange: everything of time is forgotten, and the window's own copy loaded.
LookBack ==
    /\ obWin.preset # "none"
    /\ Operate
    /\ Loads([Applied(obWin, obWin.preset, obWin.level) EXCEPT !.cursor = Nil, !.past = ~@], "anew")
    /\ obOdd' = {"day"}

\* A file arrives; a kept listing runs out.  (Neither after the last operation, which would tell nothing.)
NewFile ==
    \E p \in ObPaths :
        /\ obCount < ObMaxOps
        /\ obWin.load = "none"
        /\ obDirs[p] < Len(ObArrivals[p[1]])
        /\ obDirs' = [obDirs EXCEPT ![p] = @ + 1]
        /\ UNCHANGED <<obWin, obKept, obCount, obOdd>>
ListingExpires ==
    \E k \in KeptKeys :
        /\ obCount < ObMaxOps
        /\ obWin.load = "none"
        /\ obKept[k] # 0
        /\ obKept' = [obKept EXCEPT ![k] = 0]
        /\ UNCHANGED <<obWin, obDirs, obCount, obOdd>>

ObNext ==
    \/ ChooseObs \/ ReloadObs \/ StepObsLevel \/ StepObsTime \/ SweepObs \/ DragCursor \/ LookBack
    \/ LoadPass \/ NewFile \/ ListingExpires

-----------------------------------------------------------------------------
(* Properties *)

ObTimes == UNION {Elements(ObArrivals[s]) \cup Elements(ObPast[s]) : s \in SortsOfObs}

ObTypeOK ==
    /\ obWin.preset \in SortsOfObs \cup {"none"} /\ obWin.level \in ObLevels \cup {0}
    /\ obWin.time \in Nat \cup {Nil} /\ obWin.cursor \in Nat \cup {Nil}
    /\ obWin.path \in ObPaths \cup {Untold}
    /\ Elements(obWin.files) \cup Elements(obWin.samples) \subseteq ObTimes
    /\ obWin.shown \in ObTimes \cup {Nil}
    /\ obDirs \in [ObPaths -> 1..3] /\ obKept \in [KeptKeys -> 0..3]
    /\ obWin.past \in BOOLEAN /\ obWin.load \in {"none", "anew", "step"} /\ obCount \in 0..ObMaxOps
    /\ obOdd \subseteq {"kept", "returned", "given", "level", "swept", "dragged", "day"}

\* The map shows the file of the window's time (presetLoader 537-615).  It does not when the cursor has stayed at another
\* time: after the same preset is loaded again, at a level without that time, in a contrast that set the time alone, and
\* while it is dragged.  And not when the layer's files, which it is given once, lack that time: they came from a
\* listing kept from before, belong to another level or day, or have been passed on by a reload.
MapIsOfTime ==
    obWin.load = "none" /\ obWin.shown # Nil =>
        \/ obWin.shown = obWin.time
        \/ /\ obWin.cursor \notin {Nil, obWin.time}
           /\ obOdd \cap {"returned", "level", "swept", "dragged"} # {}
        \/ /\ obWin.time \notin Elements(obWin.samples)
           /\ obOdd \cap {"kept", "given", "level", "swept", "day"} # {}

\* A file is drawn that there is (presetLoader 590-615); the files of another level or day may not be there.
ShownExists ==
    obWin.load = "none" /\ obWin.shown # Nil =>
        \/ obWin.shown \in Elements(InDir(obDirs, obWin.past, PathOf(obWin)))
        \/ obOdd \cap {"level", "day"} # {}

\* The slider has the chips of what the window shows (levelController 58-125, presetLoader 563-583), at any level, and
\* but for a sweep and a drag its time is one of them.
LineIsOfWindow ==
    obWin.load = "none" /\ obWin.files # <<>> =>
        /\ obWin.path = PathOf(obWin)
        /\ \A f \in Elements(obWin.files) : f \in Elements(InDir(obDirs, obWin.past, obWin.path))
        /\ obWin.time \in Elements(obWin.files) \/ "swept" \in obOdd

ObservationsSound == MapIsOfTime /\ ShownExists /\ LineIsOfWindow
=============================================================================
