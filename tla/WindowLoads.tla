---------------------------- MODULE WindowLoads -----------------------------
(* The loads of the map windows (App.svelte, lib/services/appWorkflow.js,    *)
(* services/presetLoader.js, weatherLoader.js, levelController.js): the      *)
(* operator's handlers change a window and load it, some of them one window  *)
(* after the other, and every await lets another handler run.                *)
(*                                                                           *)
(* A run is an asynchronous function under way; its stage is the await it is *)
(* suspended at.  What a window shows is abstracted to the initialisation    *)
(* (how many before the newest), the lead time (a position in the list of    *)
(* periods), the level and the model of its field.                           *)
EXTENDS Integers, Sequences, FiniteSets

CONSTANTS
    Visible,     \* the visible windows of the split tab, in order
    SplitModes,  \* the allocation modes the tab may start in
    Handlers,    \* the operator's handlers that are used
    Levels,      \* the vertical levels, in order
    Models,      \* the models, in order
    PresetLevels,  \* the levels of the presets an operator loads
    TargetPeriods, \* the periods the slider may ask for
    CycleStep,   \* periods between two initialisations
    MaxCalls     \* bound: calls of the operator's handlers

LdWindows == {Visible[i] : i \in DOMAIN Visible}
PositionOf(w) == CHOOSE i \in DOMAIN Visible : Visible[i] = w
LdModes == {"none", "level", "model", "step", "time"}

ASSUME WindowLoadsAssumption ==
    /\ Visible \in Seq(LdWindows) /\ Visible # <<>>
    /\ \A i, j \in DOMAIN Visible : Visible[i] = Visible[j] => i = j
    /\ SplitModes \subseteq LdModes
    /\ Len(Levels) \in Nat \ {0} /\ DOMAIN Levels = 1 .. Len(Levels) /\ PresetLevels \subseteq DOMAIN Levels
    /\ Len(Models) \in Nat \ {0} /\ DOMAIN Models = 1 .. Len(Models)
    /\ TargetPeriods \subseteq Int /\ CycleStep \in Int

NoSeq == -1    \* expectedSeq = null
Blank == [cycle |-> -1, period |-> -1, level |-> -1, model |-> -1]

VARIABLES
    ldFocus,   \* the focused window
    ldMode,    \* tab.autoAllocation
    ldAnchor,  \* tab.allocAnchorId
    ldAuto,    \* the windows that are isAutoAllocated
    ldWin,     \* per window: loadSeq, forecastCycle, period, level, model, and
               \* init, the initialisation its timeline is at
    ldRefresh, \* win._forecastRefreshSeq
    ldShown,   \* what the map of a window shows
    ldGen,     \* tab._sweepGen
    ldRuns,    \* the runs under way
    ldCalls,   \* calls so far
    ldHole,    \* windows whose last picture came from a load no sequence guards,
               \* or that were set to another initialisation without a load
    ldMixed    \* a sweep or an allocation went on while the windows were dealt
               \* out or an initialisation was changed
ldVars == <<ldFocus, ldMode, ldAnchor, ldAuto, ldWin, ldRefresh, ldShown, ldGen, ldRuns, ldCalls,
            ldHole, ldMixed>>

Picture(win) == [cycle |-> win.cycle, period |-> win.period, level |-> win.level,
                 model |-> win.model]

\* applyAutoAllocation and revertAutoAllocation: the i-th window of a tab that
\* is dealt out from the values of win.
Allocated(mode, win, i) ==
    [seq |-> 0, init |-> win.init,
     cycle |-> IF mode = "time" THEN win.cycle + i - 1 ELSE win.cycle,
     period |-> CASE mode = "step" -> win.period + i - 1
                  [] mode = "time" -> win.period + (i - 1) * CycleStep
                  [] OTHER         -> win.period,
     level |-> IF mode = "level" THEN ((i - 1) % Len(Levels)) + 1 ELSE win.level,
     model |-> IF mode = "model" THEN ((i - 1) % Len(Models)) + 1 ELSE win.model]

\* The windows, dealt out from win.
Dealt(wins, mode, win) ==
    [w \in LdWindows |-> [Allocated(mode, win, PositionOf(w)) EXCEPT !.seq = wins[w].seq,
                                                                    !.init = wins[w].init]]

\* Every window is loaded; the tab was dealt out from its first window.
LdInit ==
    /\ ldMode \in SplitModes
    /\ ldFocus = Visible[1]
    /\ ldAnchor = ldFocus
    /\ ldAuto = {w \in LdWindows : ldMode # "none" /\ PositionOf(w) # 1}
    /\ ldWin = [w \in LdWindows |->
                   LET win == [seq |-> 0, cycle |-> 0, init |-> 0, period |-> 1, level |-> 1, model |-> 1]
                       dealt == Allocated(ldMode, win, PositionOf(w))
                   IN  [dealt EXCEPT !.init = dealt.cycle]]
    /\ ldShown = [w \in LdWindows |-> Picture(ldWin[w])]
    /\ ldRefresh = [w \in LdWindows |-> 0]
    /\ ldGen = 0
    /\ ldRuns = {}
    /\ ldCalls = 0
    /\ ldHole = {}
    /\ ldMixed = FALSE

-----------------------------------------------------------------------------
(* The pieces of a run *)

\* beginSharedSweep has not been called since; a level sweep has no generation.
SweepAlive(r) == r.gen = 0 \/ ldGen = r.gen

\* resolveContrastInitiator.
Initiator(w) == IF w \in ldAuto THEN ldAnchor ELSE w

\* The period a sweep gives window w; in time mode it has been dealt already.
SweepPeriod(r, win, w) == CASE r.mode = "step" -> r.base + PositionOf(w) - 1
                            [] r.mode = "time" -> win.period
                            [] OTHER           -> r.base

\* A new run of call number ldCalls + 1.
NewRun(kind) ==
    [id |-> ldCalls + 1, kind |-> kind, mode |-> ldMode, gen |-> 0, base |-> 0,
     delta |-> 0, cycle |-> 0, todo |-> <<>>, w |-> ldFocus, seq |-> NoSeq, want |-> Blank,
     fresh |-> FALSE, stage |-> "data"]

\* The prologue of loadPresetGroup: a fresh load wipes the map and awaits the
\* cycles, a time step does neither.
Wiped(shown, r) == IF r.fresh THEN [shown EXCEPT ![r.w] = Blank] ELSE shown
Loading(r, win) == [r EXCEPT !.seq = win.seq, !.want = Picture(win),
                             !.stage = IF r.fresh THEN "cycles" ELSE "data"]

\* Mutant: a step runs off the list of levels.
BugShift(level, delta) == level + delta

\* The level a level step gives window win (stepVerticalLevel): shifted on its
\* own in level mode, else the level computed from the focused window.
Shift(level, delta) ==
    LET l == level + delta
    IN  IF l < 1 THEN 1 ELSE IF l > Len(Levels) THEN Len(Levels) ELSE l
SteppedLevel(r, win) == IF r.mode = "level" THEN Shift(win.level, r.delta) ELSE r.base

\* The window a run reaches next, as the handler sets it before the load.
Reached(r, win) ==
    CASE r.kind \in {"time", "one"} ->
             LET c == IF r.kind = "time" /\ r.mode = "time" THEN win.cycle ELSE r.cycle
             IN  [win EXCEPT !.seq = @ + 1, !.cycle = c, !.init = c,
                             !.period = IF r.kind = "one" THEN r.base ELSE SweepPeriod(r, win, r.w)]
      [] r.kind = "level" -> [win EXCEPT !.seq = @ + 1, !.level = SteppedLevel(r, win)]

\* In level mode a window at the end of its levels is passed over.
PassedOver(r, w, wins) ==
    r.kind = "level" /\ r.mode = "level" /\ SteppedLevel(r, wins[w]) = wins[w].level
NextIn(r, wins) == {i \in DOMAIN r.todo : /\ ~PassedOver(r, r.todo[i], wins)
                                          /\ \A j \in 1 .. i - 1 : PassedOver(r, r.todo[j], wins)}

\* Run r goes on to the next window of its list, from windows `wins` and
\* pictures `shown`, or ends.  `others` are the runs that go on besides it.
GoOn(r, wins, shown, others) ==
    \/ /\ NextIn(r, wins) = {} \/ ~SweepAlive(r)
       /\ ldRuns' = others
       /\ ldWin' = wins
       /\ ldShown' = shown
    \/ /\ SweepAlive(r)
       /\ \E i \in NextIn(r, wins) :
             LET s == [r EXCEPT !.w = r.todo[i], !.todo = SubSeq(r.todo, i + 1, Len(r.todo))]
                 win == Reached(s, wins[s.w])
             IN  /\ ldRuns' = others \cup {Loading(s, win)}
                 /\ ldWin' = [wins EXCEPT ![s.w] = win]
                 /\ ldShown' = Wiped(shown, s)

Call == ldCalls < MaxCalls /\ ldCalls' = ldCalls + 1
Disturbs == ldMixed' = (ldMixed \/ \E r \in ldRuns : r.gen # 0)

-----------------------------------------------------------------------------
(* The operator *)

\* The run of handleTimeChange: in a split tab it sweeps the visible windows,
\* from the one that gives the focused window its period.
TimeRun(p) ==
    LET sweep == ldMode # "none"
        at == PositionOf(ldFocus)
    IN  [NewRun(IF sweep THEN "time" ELSE "one") EXCEPT
            !.base = IF ldMode = "step" THEN IF p < at THEN 1 ELSE p - at + 1 ELSE p,
            !.gen = IF sweep THEN ldGen + 1 ELSE 0,
            !.cycle = ldWin[ldFocus].init,
            !.todo = IF sweep THEN Visible ELSE <<ldFocus>>]

\* The windows before the sweep: in time mode the first window gets the focused
\* one's initialisation and the period, and all are dealt out again.
DealtAnew(r) ==
    LET first == Visible[1]
        set == [ldWin EXCEPT ![first].cycle = r.cycle, ![first].period = r.base]
    IN  IF ldMode = "time" THEN Dealt(set, "time", set[Initiator(first)]) ELSE ldWin

\* handleTimeChange for the focused window, by the slider or a key.
TimeChange(p) ==
    LET r == TimeRun(p)
        dealt == DealtAnew(r)
        s == [r EXCEPT !.w = Head(r.todo), !.todo = Tail(r.todo)]
        win == Reached(s, dealt[s.w])
        anchor == Initiator(Visible[1])
    IN  /\ Call
        /\ ldGen' = ldGen + (IF ldMode # "none" THEN 1 ELSE 0)
        /\ ldWin' = [dealt EXCEPT ![s.w] = win]
        /\ ldAnchor' = IF ldMode = "time" THEN anchor ELSE ldAnchor
        /\ ldAuto' = IF ldMode = "time" THEN LdWindows \ {anchor} ELSE ldAuto
        /\ ldRuns' = ldRuns \cup {Loading(s, win)}
        /\ ldHole' = ldHole \ {s.w}
        /\ UNCHANGED <<ldFocus, ldMode, ldRefresh, ldShown, ldMixed>>

\* stepVerticalLevel; without an allocation only the focused window.
LevelStep(delta) ==
    LET r == [NewRun("level") EXCEPT
                 !.delta = delta, !.base = Shift(ldWin[ldFocus].level, delta), !.fresh = TRUE,
                 !.todo = IF ldMode # "none" THEN Visible ELSE <<ldFocus>>]
    IN  /\ Call
        /\ r.mode # "level" => r.base # ldWin[ldFocus].level
        /\ GoOn(r, ldWin, ldShown, ldRuns)
        /\ ldHole' = ldHole \ {w \in LdWindows : ldWin'[w].seq # ldWin[w].seq}
        /\ UNCHANGED <<ldFocus, ldMode, ldAnchor, ldAuto, ldRefresh, ldGen, ldMixed>>

\* handleLevelSelect from the navigation bar: the focused window first.
LevelSelect(l) ==
    LET r == [NewRun("nav") EXCEPT !.base = l, !.fresh = TRUE]
        win == [ldWin[r.w] EXCEPT !.seq = @ + 1, !.level = l]
    IN  /\ Call
        /\ ldWin' = [ldWin EXCEPT ![r.w] = win]
        /\ ldShown' = Wiped(ldShown, r)
        /\ ldRuns' = ldRuns \cup {Loading(r, win)}
        /\ ldHole' = ldHole \ {r.w}
        /\ UNCHANGED <<ldFocus, ldMode, ldAnchor, ldAuto, ldRefresh, ldGen, ldMixed>>

\* handleModelSelect: the focused window is loaded afresh, then its timeline is
\* refreshed (refreshForecastTimeline, not awaited).
ModelSelect(m) ==
    LET w == ldFocus
        win == [ldWin[w] EXCEPT !.seq = @ + 1, !.model = m, !.cycle = 0]
        r == [NewRun("model") EXCEPT !.fresh = TRUE]
    IN  /\ Call
        /\ m # ldWin[w].model
        /\ ldWin' = [ldWin EXCEPT ![w] = win]
        /\ ldShown' = Wiped(ldShown, r)
        /\ ldRuns' = ldRuns \cup {Loading(r, win)}
        /\ ldHole' = ldHole \ {w}
        /\ UNCHANGED <<ldFocus, ldMode, ldAnchor, ldAuto, ldRefresh, ldGen, ldMixed>>

\* handleLoadData up to the wait for the map style.
LoadData(level) ==
    /\ Call
    /\ ldRuns' = ldRuns \cup {[NewRun("data") EXCEPT !.delta = level, !.fresh = TRUE,
                                                    !.stage = "style"]}
    /\ ldAuto' = ldAuto \ {ldFocus}
    /\ UNCHANGED <<ldFocus, ldMode, ldAnchor, ldWin, ldRefresh, ldShown, ldGen, ldHole, ldMixed>>

\* A change of a layer's time policy (handleLayerAction) loads as a time step, a
\* saved configuration (reloadConfiguration) afresh with the newest
\* initialisation; both without a sequence number.
Reload(fresh) ==
    LET r == [NewRun("reload") EXCEPT !.fresh = fresh]
        win == IF fresh THEN [ldWin[r.w] EXCEPT !.cycle = 0] ELSE ldWin[r.w]
    IN  /\ Call
        /\ ldRuns' = ldRuns \cup {[Loading(r, win) EXCEPT !.seq = NoSeq]}
        /\ ldWin' = [ldWin EXCEPT ![r.w] = win]
        /\ ldShown' = Wiped(ldShown, r)
        /\ ldHole' = ldHole \cup {r.w}
        /\ UNCHANGED <<ldFocus, ldMode, ldAnchor, ldAuto, ldRefresh, ldGen, ldMixed>>

\* refreshForecastTimeline up to its await.
Refresh(w, id, others) ==
    /\ ldRefresh' = [ldRefresh EXCEPT ![w] = @ + 1]
    /\ ldRuns' = others \cup {[NewRun("refresh") EXCEPT !.id = id, !.w = w, !.base = ldRefresh[w] + 1,
                                                        !.stage = "refresh"]}

\* handleWindowFocus.
FocusWindow(w) ==
    /\ Call
    /\ w # ldFocus
    /\ ldFocus' = w
    /\ Refresh(w, ldCalls + 1, ldRuns)
    /\ UNCHANGED <<ldMode, ldAnchor, ldAuto, ldWin, ldShown, ldGen, ldHole, ldMixed>>

\* applyAutoAllocationModeToTab once the levels of the models are known: the
\* windows are dealt their values and loaded side by side, each when its map
\* is ready.  `base` is the window it started from and `was` its picture then.
DealOut(mode, id, base, was, others) ==
    LET anchor == Initiator(base)
    IN  /\ ldWin' = Dealt(ldWin, mode, ldWin[anchor])
        /\ ldAnchor' = anchor
        /\ ldAuto' = LdWindows \ {anchor}
        /\ ldRuns' = others \cup
               {[NewRun("alloc") EXCEPT !.id = id, !.mode = mode, !.w = Visible[i], !.fresh = TRUE,
                     !.stage = "style",
                     !.want = IF Visible[i] = base THEN was ELSE Blank]
                   : i \in DOMAIN Visible}

\* The run that waits for the levels of the models.
DealRun(mode, id, wins) ==
    LET base == Initiator(ldFocus)
    IN  [NewRun("deal") EXCEPT !.id = id, !.mode = mode, !.w = base, !.want = Picture(wins[base]),
                               !.stage = "preload"]

\* applyAutoAllocationModeToTab: model mode first awaits the models' levels.
StartAllocation(mode, id, others) ==
    LET base == Initiator(ldFocus)
    IN  /\ ldMode' = mode
        /\ IF mode = "model"
           THEN /\ ldRuns' = others \cup {DealRun(mode, id, ldWin)}
                /\ UNCHANGED <<ldWin, ldAnchor, ldAuto>>
           ELSE DealOut(mode, id, base, Picture(ldWin[base]), others)

\* handleChangeLayout with the layout the tab has and another allocation mode:
\* without one the windows stay as they are.
Allocate(mode) ==
    /\ Call
    /\ mode # ldMode
    /\ IF mode = "none"
       THEN ldMode' = mode /\ UNCHANGED <<ldWin, ldAnchor, ldAuto, ldRuns>>
       ELSE StartAllocation(mode, ldCalls + 1, ldRuns)
    /\ Disturbs
    /\ UNCHANGED <<ldFocus, ldRefresh, ldShown, ldGen, ldHole>>

-----------------------------------------------------------------------------
(* The runs go on *)

\* The levels of the models are known: the windows are dealt out, even when
\* another allocation was chosen meanwhile.
LevelsKnown(r) ==
    /\ r.stage = "preload"
    /\ DealOut(r.mode, r.id, r.w, r.want, ldRuns \ {r})
    /\ ldMixed' = (ldMixed \/ ldMode # r.mode \/ \E q \in ldRuns : q.gen # 0)
    /\ UNCHANGED <<ldFocus, ldMode, ldRefresh, ldShown, ldGen, ldCalls, ldHole>>

\* The map style is there.  handleLoadData takes a number, applies the preset
\* and awaits the cycles; an allocation loads the window, but for a base window
\* that has a picture and kept its values: it takes no number, and a load of it
\* that is under way goes on.
StyleReady(r) ==
    LET win == [ldWin[r.w] EXCEPT !.seq = @ + 1]
        preset == [win EXCEPT !.level = r.delta, !.model = 1, !.cycle = 0, !.init = 0]
        told == IF r.kind = "alloc" /\ r.mode \in {"model", "step", "time"}
                THEN [ldWin EXCEPT ![r.w].init = ldWin[r.w].cycle] ELSE ldWin
        dealt == [told[r.w] EXCEPT !.seq = @ + 1]
        same == CASE r.mode = "level" -> r.want.level = ldWin[r.w].level
                  [] r.mode = "model" -> r.want.model = ldWin[r.w].model
                  [] r.mode = "step" -> r.want.period = ldWin[r.w].period
                  [] OTHER -> r.want.period = ldWin[r.w].period /\ r.want.cycle = ldWin[r.w].cycle
        skip == r.kind = "alloc" /\ r.want # Blank /\ ldShown[r.w] # Blank /\ same
        others == ldRuns \ {r}
    IN  /\ r.stage = "style"
        /\ IF skip
           THEN /\ ldRuns' = others
                /\ ldWin' = told
                /\ ldHole' = IF ldShown[r.w] # Picture(told[r.w]) \/ \E q \in others : q.w = r.w
                             THEN ldHole \cup {r.w} ELSE ldHole
                /\ UNCHANGED <<ldShown, ldRefresh>>
           ELSE /\ ldHole' = ldHole \ {r.w}
                /\ IF r.kind = "data"
                   THEN /\ ldWin' = [ldWin EXCEPT ![r.w] = preset]
                        /\ ldRefresh' = [ldRefresh EXCEPT ![r.w] = @ + 1]
                        /\ ldRuns' = others \cup {[r EXCEPT !.seq = win.seq, !.stage = "preset"]}
                        /\ UNCHANGED ldShown
                   ELSE /\ ldWin' = [ldWin EXCEPT ![r.w] = dealt]
                        /\ ldRuns' = others \cup {Loading(r, dealt)}
                        /\ ldShown' = Wiped(ldShown, r)
                        /\ UNCHANGED ldRefresh
        /\ UNCHANGED <<ldFocus, ldMode, ldAnchor, ldAuto, ldGen, ldCalls, ldMixed>>

\* handleLoadData has its cycles and calls loadPresetGroup with the number it
\* took before: a load that was overtaken still wipes the map.
PresetReady(r) ==
    /\ r.stage = "preset"
    /\ ldRuns' = (ldRuns \ {r}) \cup {[Loading(r, ldWin[r.w]) EXCEPT !.seq = r.seq]}
    /\ ldShown' = Wiped(ldShown, r)
    /\ ldHole' = IF ldWin[r.w].seq # r.seq THEN ldHole \cup {r.w} ELSE ldHole
    /\ UNCHANGED <<ldFocus, ldMode, ldAnchor, ldAuto, ldWin, ldRefresh, ldGen, ldCalls, ldMixed>>

\* loadPresetGroup has its cycles and asks for the layers.
CyclesReady(r) ==
    /\ r.stage = "cycles"
    /\ ldRuns' = (ldRuns \ {r}) \cup {[r EXCEPT !.stage = "data"]}
    /\ UNCHANGED <<ldFocus, ldMode, ldAnchor, ldAuto, ldWin, ldRefresh, ldShown, ldGen, ldCalls, ldHole, ldMixed>>

\* handleLevelSelect after the load: the other windows of a split follow, one
\* after the other, or in model mode by a new allocation.
NavReturn(r, shown, others) ==
    LET f == ldFocus
        i == Initiator(f)
        follows == r.w = f
        rest == SubSeq(Visible, 1, PositionOf(f) - 1) \o SubSeq(Visible, PositionOf(f) + 1, Len(Visible))
        wins == [ldWin EXCEPT ![i].level = r.base]
    IN  CASE follows /\ ldMode \in {"step", "time"} ->
                 /\ GoOn([r EXCEPT !.kind = "level", !.mode = ldMode, !.todo = rest], ldWin, shown, others)
                 /\ UNCHANGED <<ldMode, ldAnchor, ldAuto>>
          [] follows /\ ldMode = "model" ->
                 /\ ldWin' = wins
                 /\ ldShown' = shown
                 /\ ldRuns' = others \cup {DealRun("model", r.id, wins)}
                 /\ UNCHANGED <<ldMode, ldAnchor, ldAuto>>
          [] OTHER ->
                 /\ ldRuns' = others
                 /\ ldShown' = shown
                 /\ UNCHANGED <<ldWin, ldMode, ldAnchor, ldAuto>>

\* What the caller of loadPresetGroup does when it returns: the next window of
\* a sweep, the refresh after a change of the model, the allocation after a
\* load of the focused window of an allocated tab.
Return(r, shown) ==
    LET others == ldRuns \ {r}
    IN  CASE r.kind \in {"time", "level", "one", "alloc", "reload", "refresh"} ->
                 /\ GoOn(r, ldWin, shown, others)
                 /\ UNCHANGED <<ldMode, ldAnchor, ldAuto, ldRefresh, ldMixed>>
          [] r.kind = "model" ->
                 /\ Refresh(r.w, r.id, others)
                 /\ ldShown' = shown
                 /\ UNCHANGED <<ldWin, ldMode, ldAnchor, ldAuto, ldMixed>>
          [] r.kind = "nav" ->
                 /\ NavReturn(r, shown, others)
                 /\ UNCHANGED <<ldRefresh, ldMixed>>
          [] r.kind = "data" ->
                 /\ ldShown' = shown
                 /\ UNCHANGED ldRefresh
                 /\ IF ldMode # "none" /\ r.w = ldFocus
                    THEN StartAllocation(ldMode, r.id, others) /\ Disturbs
                    ELSE ldRuns' = others /\ UNCHANGED <<ldWin, ldMode, ldAnchor, ldAuto, ldMixed>>

\* Mutant: the number of the load is not compared after the fetch.
BugOutdated(r) == FALSE

\* loadWeatherField after its fetch: an outdated answer is dropped, a failed
\* one leaves the map as it is.
Outdated(r) == r.seq # NoSeq /\ ldWin[r.w].seq # r.seq
Restarted == {w \in LdWindows : ldWin'[w].seq # ldWin[w].seq}
Dropped(r) ==
    /\ r.stage = "data"
    /\ Outdated(r)
    /\ Return(r, ldShown)
    /\ ldHole' = ldHole \ Restarted
    /\ UNCHANGED <<ldFocus, ldGen, ldCalls>>

FetchFails(r) ==
    /\ r.stage = "data"
    /\ ~Outdated(r)
    /\ Return(r, ldShown)
    /\ ldHole' = (ldHole \cup {r.w}) \ Restarted
    /\ UNCHANGED <<ldFocus, ldGen, ldCalls>>

Drawn(r) ==
    /\ r.stage = "data"
    /\ ~Outdated(r)
    /\ Return(r, [ldShown EXCEPT ![r.w] = r.want])
    /\ ldHole' = (IF r.seq = NoSeq THEN ldHole \cup {r.w} ELSE ldHole) \ Restarted
    /\ UNCHANGED <<ldFocus, ldGen, ldCalls>>

\* A layer with a palette of its own awaits it after the check.
PaletteAsked(r) ==
    /\ r.stage = "data"
    /\ ~Outdated(r)
    /\ ldRuns' = (ldRuns \ {r}) \cup {[r EXCEPT !.stage = "palette"]}
    /\ UNCHANGED <<ldFocus, ldMode, ldAnchor, ldAuto, ldWin, ldRefresh, ldShown, ldGen, ldCalls, ldHole, ldMixed>>

PaletteReady(r) ==
    /\ r.stage = "palette"
    /\ Return(r, [ldShown EXCEPT ![r.w] = r.want])
    /\ ldHole' = (IF r.seq = NoSeq \/ Outdated(r) THEN ldHole \cup {r.w} ELSE ldHole) \ Restarted
    /\ UNCHANGED <<ldFocus, ldGen, ldCalls>>

\* refreshForecastTimeline has its cycles: a window that is still focused and
\* whose initialisation is no longer the timeline's is loaded as a time step.
RefreshReady(r) ==
    LET win == [ldWin[r.w] EXCEPT !.seq = @ + 1, !.cycle = ldWin[r.w].init]
        others == ldRuns \ {r}
        current == ldRefresh[r.w] = r.base
    IN  /\ r.stage = "refresh"
        /\ \/ /\ ~current \/ ldWin[r.w].cycle = ldWin[r.w].init \/ r.w # ldFocus
              /\ ldRuns' = others
              /\ ldWin' = IF current THEN [ldWin EXCEPT ![r.w].cycle = ldWin[r.w].init] ELSE ldWin
              /\ ldHole' = IF ldWin' = ldWin THEN ldHole ELSE ldHole \cup {r.w}
           \/ /\ current
              /\ ldWin[r.w].cycle # ldWin[r.w].init
              /\ r.w = ldFocus
              /\ ldWin' = [ldWin EXCEPT ![r.w] = win]
              /\ ldRuns' = others \cup {Loading(r, win)}
              /\ ldHole' = ldHole \ {r.w}
        /\ IF ldWin' # ldWin THEN Disturbs ELSE UNCHANGED ldMixed
        /\ UNCHANGED <<ldFocus, ldMode, ldAnchor, ldAuto, ldRefresh, ldShown, ldGen, ldCalls>>

LdNext ==
    \/ "time" \in Handlers /\ \E p \in TargetPeriods : TimeChange(p)
    \/ "level" \in Handlers /\ \E d \in {1, -1} : LevelStep(d)
    \/ "model" \in Handlers /\ \E m \in DOMAIN Models : ModelSelect(m)
    \/ "data" \in Handlers /\ \E l \in PresetLevels : LoadData(l)
    \/ "nav" \in Handlers /\ \E l \in DOMAIN Levels : LevelSelect(l)
    \/ "reload" \in Handlers /\ \E fresh \in BOOLEAN : Reload(fresh)
    \/ "focus" \in Handlers /\ \E w \in LdWindows : FocusWindow(w)
    \/ "allocate" \in Handlers /\ \E m \in LdModes : Allocate(m)
    \/ \E r \in ldRuns :
          \/ LevelsKnown(r) \/ StyleReady(r) \/ PresetReady(r) \/ CyclesReady(r) \/ RefreshReady(r)
          \/ Dropped(r) \/ FetchFails(r) \/ Drawn(r) \/ PaletteAsked(r) \/ PaletteReady(r)

-----------------------------------------------------------------------------
(* Properties *)

LdTypeOK ==
    /\ ldFocus \in LdWindows /\ ldMode \in LdModes
    /\ ldAuto \subseteq LdWindows /\ ldHole \subseteq LdWindows
    /\ \A w \in LdWindows : ldWin[w].level \in DOMAIN Levels /\ ldWin[w].model \in DOMAIN Models
    /\ \A r \in ldRuns : r.stage \in {"preload", "style", "preset", "cycles", "data", "palette", "refresh"}

\* Rapid stepping converges on the last intent: when nothing is under way every
\* window shows the lead time, level, model and initialisation it is set to,
\* whatever handlers, sweeps and allocations ran across each other, but for a
\* window whose last picture no sequence number guards (ldHole).
IntentShown ==
    ldRuns = {} =>
        \A w \in LdWindows \ ldHole : ldShown[w] = Picture(ldWin[w])

\* A newer sweep never leaves a window behind: when nothing is under way and no
\* allocation was changed during a sweep, the windows keep step, consecutive
\* lead times in step mode, the same lead time in level and model mode.
SweepsCover ==
    ldRuns = {} /\ ~ldMixed =>
        \A i \in DOMAIN Visible :
            LET first == ldWin[Visible[1]].period
                this == ldWin[Visible[i]].period
            IN  CASE ldMode = "step" -> this = first + i - 1
                  [] ldMode \in {"level", "model"} -> this = first
                  [] OTHER -> TRUE

\* A step of the level reaches the windows of a model, step or time split
\* together: when nothing is under way they are at one level.
LevelsConverge ==
    ldRuns = {} /\ ldMode \in {"model", "step", "time"} =>
        \A w, v \in LdWindows : ldWin[w].level = ldWin[v].level

LdSpec == LdInit /\ [][LdNext]_ldVars
=============================================================================
