---------------------------- MODULE ClientPrefetch ----------------------------
(* The prefetching of the browser (services/prefetchService.js and its        *)
(* callers services/presetLoader.js, weatherLoader.js, derivedContours.js,    *)
(* levelController.js, App.svelte): a load that ends schedules a prefetch of  *)
(* the window's neighbours after a delay; a time step leaves a hint of its    *)
(* direction, which restricts the next prefetch to that side.                 *)
(*                                                                            *)
(* What a prefetch asks for (getPrefetchTargets) is read from the window when *)
(* its timer fires; here that is the place (time and level) the window is at. *)
EXTENDS Integers, FiniteSets

CONSTANTS
    PfWindows,  \* the windows
    PfMaxSteps, \* bound: steps of the operator
    PfMaxCloses \* bound: windows closed

ASSUME ClientPrefetchAssumption == PfMaxSteps \in Nat /\ PfMaxCloses \in Nat

Dirs == {"left", "right"}
AllDirs == "all"    \* no restriction
NoTimer == [gen |-> 0, dirs |-> AllDirs]
NoPrefetch == [at |-> -1, dirs |-> AllDirs, gen |-> 0]

VARIABLES
    pfAt,      \* how often a window was stepped: where it is
    pfLast,    \* its last step: a direction in time, "level" or "none"
    pfHint,    \* win.prefetchDirections
    pfTimer,   \* prefetchTimers: generation and directions, or NoTimer
    pfGen,     \* windowGenerations
    pfLoads,   \* loads under way: [w, id, kind, again]
    pfDone,    \* the last prefetch of a window: where it was, directions, gen
    pfClosed,  \* the windows that were closed
    pfLate,    \* closed windows a load of which ended afterwards
    pfSteps    \* steps so far
pfVars == <<pfAt, pfLast, pfHint, pfTimer, pfGen, pfLoads, pfDone, pfClosed, pfLate, pfSteps>>

PfInit ==
    /\ pfAt = [w \in PfWindows |-> 0]
    /\ pfLast = [w \in PfWindows |-> "none"]
    /\ pfHint = [w \in PfWindows |-> AllDirs]
    /\ pfTimer = [w \in PfWindows |-> NoTimer]
    /\ pfGen = [w \in PfWindows |-> 0]
    /\ pfLoads = {}
    /\ pfDone = [w \in PfWindows |-> NoPrefetch]
    /\ pfClosed = {} /\ pfLate = {}
    /\ pfSteps = 0

NewStep == pfSteps < PfMaxSteps /\ pfSteps' = pfSteps + 1
Begun(w, again) == pfLoads \cup {[w |-> w, id |-> pfSteps + 1, kind |-> "field", again |-> again]}

\* handleTimeChange: the hint of the direction is left, the window goes there
\* and loads; a sample picked on the timeline has no direction.
StepWindow(w, dirs) ==
    /\ NewStep
    /\ w \notin pfClosed
    /\ pfHint' = [pfHint EXCEPT ![w] = dirs]
    /\ pfAt' = [pfAt EXCEPT ![w] = @ + 1]
    /\ pfLast' = [pfLast EXCEPT ![w] = dirs]
    /\ pfLoads' = Begun(w, FALSE)
    /\ UNCHANGED <<pfTimer, pfGen, pfDone, pfClosed, pfLate>>

\* changeVerticalLevel, which schedules once more when its load has, and the
\* other loads, without a hint.
StepLevel(w, again) ==
    /\ NewStep
    /\ w \notin pfClosed
    /\ pfAt' = [pfAt EXCEPT ![w] = @ + 1]
    /\ pfLast' = [pfLast EXCEPT ![w] = "level"]
    /\ pfLoads' = Begun(w, again)
    /\ UNCHANGED <<pfHint, pfTimer, pfGen, pfDone, pfClosed, pfLate>>

\* Mutant: the hint outlives the prefetch it was for.
BugHintAfter(hint) == hint

\* The hint after schedulePrefetch: it is single-use.
HintAfter(hint) == AllDirs

\* schedulePrefetch, n times in a row, the last time for dirs; also for a window
\* that was closed meanwhile: the timer of the window is replaced, the
\* generation counted, the hint used up.
Scheduled(w, n, dirs) ==
    /\ pfGen' = [pfGen EXCEPT ![w] = @ + n]
    /\ pfTimer' = [pfTimer EXCEPT ![w] = [gen |-> pfGen[w] + n, dirs |-> dirs]]
    /\ pfHint' = [pfHint EXCEPT ![w] = HintAfter(@)]
    /\ pfLate' = IF w \in pfClosed THEN pfLate \cup {w} ELSE pfLate

\* The field of the load is there (loadWeatherField, loadObservationProduct)
\* and schedules; or it had been overtaken when its data came, or failed.  A
\* load that is overtaken after it was asked about schedules as well.
FieldLoaded(l) ==
    /\ l \in pfLoads /\ l.kind = "field"
    /\ pfLoads' = (pfLoads \ {l}) \cup {[l EXCEPT !.kind = "end"]}
    /\ \/ Scheduled(l.w, 1, pfHint[l.w])
       \/ UNCHANGED <<pfGen, pfTimer, pfHint, pfLate>>
    /\ UNCHANGED <<pfAt, pfLast, pfDone, pfClosed, pfSteps>>

\* The end of loadPresetGroup schedules in any case, overtaken or not.
LoadEnds(l) ==
    /\ l \in pfLoads /\ l.kind = "end"
    /\ pfLoads' = pfLoads \ {l}
    /\ IF l.again THEN Scheduled(l.w, 2, HintAfter(pfHint[l.w])) ELSE Scheduled(l.w, 1, pfHint[l.w])
    /\ UNCHANGED <<pfAt, pfLast, pfDone, pfClosed, pfSteps>>

\* The timer fires: prefetchSurroundingData for where the window is now; a
\* hint that was left since restricts a prefetch that has none.
Fire(w) ==
    /\ pfTimer[w] # NoTimer
    /\ pfTimer' = [pfTimer EXCEPT ![w] = NoTimer]
    /\ pfDone' = [pfDone EXCEPT ![w] =
                      [at |-> pfAt[w], gen |-> pfTimer[w].gen,
                       dirs |-> IF pfTimer[w].dirs # AllDirs THEN pfTimer[w].dirs ELSE pfHint[w]]]
    /\ pfHint' = [pfHint EXCEPT ![w] = AllDirs]
    /\ UNCHANGED <<pfAt, pfLast, pfGen, pfLoads, pfClosed, pfLate, pfSteps>>

\* cleanupWindowResources: cancelScheduledPrefetch.
Close(w) ==
    /\ w \notin pfClosed
    /\ Cardinality(pfClosed) < PfMaxCloses
    /\ pfClosed' = pfClosed \cup {w}
    /\ pfTimer' = [pfTimer EXCEPT ![w] = NoTimer]
    /\ pfHint' = [pfHint EXCEPT ![w] = AllDirs]
    /\ UNCHANGED <<pfAt, pfLast, pfGen, pfLoads, pfDone, pfLate, pfSteps>>

PfNext ==
    \/ \E w \in PfWindows : \/ \E dirs \in Dirs \cup {AllDirs} : StepWindow(w, dirs)
                            \/ \E again \in BOOLEAN : StepLevel(w, again)
                            \/ Fire(w) \/ Close(w)
    \/ \E l \in pfLoads : FieldLoaded(l) \/ LoadEnds(l)

PfSpec == PfInit /\ [][PfNext]_pfVars

-----------------------------------------------------------------------------
PfTypeOK ==
    /\ pfHint \in [PfWindows -> Dirs \cup {AllDirs}]
    /\ \A w \in PfWindows : pfTimer[w].gen \in 0 .. pfGen[w] /\ pfDone[w].gen \in 0 .. pfGen[w]
    /\ \A l \in pfLoads : l.w \in PfWindows /\ l.id \in 1 .. PfMaxSteps

Settled(w) == pfTimer[w] = NoTimer /\ \A l \in pfLoads : l.w # w

\* When a window has settled, its last prefetch was made for where it is,
\* however the steps, the loads and the timers overlapped; it is of the newest
\* generation, so that the server takes it; and it is restricted to a side
\* only when the last step went there.
NeighboursWarmed ==
    \A w \in PfWindows \ pfClosed :
        (Settled(w) /\ pfAt[w] > 0) =>
            /\ pfDone[w].at = pfAt[w]
            /\ pfDone[w].gen = pfGen[w]
            /\ pfDone[w].dirs \in {AllDirs, pfLast[w]}
            /\ pfHint[w] = AllDirs

\* The window of a timer is open, unless a load of it ended after the close.
NoDeadTimers == \A w \in pfClosed : pfTimer[w] = NoTimer \/ w \in pfLate

PrefetchSound == NeighboursWarmed /\ NoDeadTimers

=============================================================================
