------------------------------ MODULE Timeline ------------------------------
(* The time slider of a window (components/TimeSlider.svelte), the           *)
(* multi-track ruler above it (components/timeline/MultiTrackTimeline.svelte)*)
(* and the timeline they share (lib/stores/timelineCore.js).                 *)
(*                                                                           *)
(* A click, a key, a timer or a finished load is an action; the Svelte       *)
(* effects that it invalidates run before the next event, so every action    *)
(* ends with them (Settle).  What the slider asks the application to load is *)
(* kept in tlAsked.  Loads are external here: handleLoadData leaves the      *)
(* timeline in some mode with some chips, and WindowLoads says how.          *)
EXTENDS TimelineMath

CONSTANTS
    Cycle,          \* the initial time of the forecast
    Horizon,        \* the last lead time of the model
    NwpSteps,       \* step lengths offered for a forecast, in hours
    ObsSteps,       \* step lengths offered for observations, in minutes
    Listings,       \* the file listings an observation load may return
    Moments,        \* the times at which the ruler may be clicked
    Accumulations,  \* hours of the rain preset of the window; 0 for no rain
    Cadence,        \* minutes between the samples of the pacemaker layer
    MaxChips,       \* observation chips the slider shows
    MaxEdits        \* bound: loads and changes of the step length or the loop

\* The model reaches the lead time a window starts with, a listing names each
\* file once, in order, and there are presets without accumulation.
ASSUME TimelineAssumption ==
    /\ Cycle \in Nat /\ Horizon \in Nat /\ Horizon >= 24
    /\ NwpSteps \subseteq Nat \ {0} /\ ObsSteps \subseteq Nat \ {0}
    /\ \A raw \in Listings : /\ raw \in Seq(Nat)
                             /\ \A i, j \in DOMAIN raw : i < j => raw[i] < raw[j]
    /\ Moments \subseteq Nat /\ Accumulations \subseteq Nat /\ 0 \in Accumulations
    /\ Cadence \in Nat \ {0} /\ MaxChips \in Nat \ {0} /\ MaxEdits \in Nat

\* getPeriodsForStep and filterObsFilesByStep, tabulated.
Periods == [step \in NwpSteps \cup {6} |-> PeriodsForStep(step, Horizon)]
Filtered == [ask \in (Listings \cup {<<>>}) \X (ObsSteps \cup NwpSteps \cup {6}) \X BOOLEAN |->
                FilterObsFiles(ask[1], ask[2], ask[3])]

VARIABLES
    tl,         \* the timeline of the window
    tlRain,     \* accumulation hours of the window's preset
    tlWinPeriod,\* win.period: the lead time the window was last loaded with
    tlAsked,    \* the last time change sent to handleTimeChange
    playing,    \* playback.isPlaying
    playTimer,  \* whether playTimer holds an interval
    intervals,  \* how many intervals are firing
    sliderShown,\* ui.timelineVisible
    edits       \* loads and edits so far
tlVars == <<tl, tlRain, tlWinPeriod, tlAsked, playing, playTimer, intervals, sliderShown, edits>>

Shown == IF tl.mode = "obs"
         THEN IF tl.obs = <<>> THEN Nil ELSE tl.obs[tl.oidx]
         ELSE tl.periods[tl.pidx]

\* createTimelineState: a forecast, six-hourly, at +24 h.
TlInit ==
    /\ tl = [mode |-> "nwp", step |-> 6, periods |-> Periods[6],
             pidx |-> 5, raw |-> <<>>, obs |-> <<>>, oidx |-> 1, upper |-> FALSE,
             disabled |-> {}, cursor |-> Cycle + 24 * 60, live |-> FALSE,
             loop |-> [on |-> FALSE, a |-> Nil, b |-> Nil]]
    /\ tlRain = 0
    /\ tlWinPeriod = 24
    /\ tlAsked = Nil
    /\ playing = FALSE
    /\ playTimer = FALSE
    /\ intervals = 0
    /\ sliderShown = TRUE
    /\ edits = 0

-----------------------------------------------------------------------------
(* The effects *)

Disabled(t, rain) == RainDisabled(rain, t.periods)

\* The rain effect: the periods that do not exist, and away from one of them.
RainEffect(t, rain) ==
    LET off == IF rain > 0 /\ t.mode = "nwp" THEN Disabled(t, rain)
               ELSE IF rain > 0 THEN t.disabled ELSE {}
        good == {i \in DOMAIN t.periods : t.periods[i] \notin off}
        jump == t.mode = "nwp" /\ t.periods[t.pidx] \in off /\ good # {}
        first == Earliest(good)
    IN  [tl |-> [t EXCEPT !.disabled = off, !.pidx = IF jump THEN first ELSE @],
         asks |-> IF jump THEN t.periods[first] ELSE Nil]

\* The timeline becomes t, the slider asks for `asks` (Nil: nothing), and the
\* rain effect settles; handleTimeChange records the period in the window.
Settle(t, rain, asks) ==
    LET s == RainEffect(t, rain)
        last == IF s.asks # Nil THEN s.asks ELSE asks
    IN  /\ tl' = s.tl
        /\ tlRain' = rain
        /\ tlAsked' = IF last # Nil THEN last ELSE tlAsked
        /\ tlWinPeriod' = IF last # Nil /\ t.mode = "nwp" THEN last ELSE tlWinPeriod

\* Mutant: start() leaves the interval it replaces running.
BugCleared == intervals

\* pause() and the timer of start(): start clears the interval it replaces.
Cleared == IF playTimer THEN intervals - 1 ELSE intervals
Stop == /\ playing' = FALSE
        /\ playTimer' = FALSE
        /\ intervals' = Cleared
Run == /\ playing' = TRUE
       /\ playTimer' = TRUE
       /\ intervals' = Cleared + 1

\* The range a loop gets when it is switched on without one.
WholeRange(t) ==
    IF t.loop.a # Nil /\ t.loop.b # Nil THEN [t.loop EXCEPT !.on = TRUE]
    ELSE IF t.mode = "obs"
    THEN [on |-> TRUE, a |-> 0, b |-> IF t.obs = <<>> THEN 0 ELSE Len(t.obs) - 1]
    ELSE [on |-> TRUE, a |-> t.periods[1], b |-> LastOf(t.periods)]

-----------------------------------------------------------------------------
(* Stepping *)

\* The positions inside the loop.  A bound is an index of a file, a lead time
\* or a time, by its size; a missing bound switches the loop off.
InLoop(t) ==
    LET lo == IF t.loop.a <= t.loop.b THEN t.loop.a ELSE t.loop.b
        hi == IF t.loop.a <= t.loop.b THEN t.loop.b ELSE t.loop.a
        At(i) == IF t.mode = "obs" THEN IF lo > Epoch THEN t.obs[i] ELSE i - 1
                 ELSE IF lo > Epoch THEN Cycle + t.periods[i] * 60 ELSE t.periods[i]
    IN  IF ~t.loop.on \/ t.loop.a = Nil \/ t.loop.b = Nil THEN {}
        ELSE {i \in DOMAIN (IF t.mode = "obs" THEN t.obs ELSE t.periods) :
                 At(i) >= lo /\ At(i) <= hi}

\* stepWindowTimeline by one step in direction dir.
Stepped(t, dir) ==
    LET in == InLoop(t)
        lo == Earliest(in)
        hi == Latest(in)
        oidx == IF in # {} THEN LoopNext(t.oidx, lo, hi, dir)
                ELSE Wrap(t.oidx + dir + Len(t.obs), Len(t.obs))
        pidx == IF in # {} THEN LoopNext(t.pidx, lo, hi, dir)
                ELSE NextEnabled(t.periods, t.disabled, t.pidx, dir)
    IN  IF t.mode = "obs" THEN [t EXCEPT !.oidx = oidx, !.cursor = t.obs[oidx]]
        ELSE [t EXCEPT !.pidx = pidx, !.cursor = Cycle + t.periods[pidx] * 60]

CanStep == tl.mode = "obs" => tl.obs # <<>>
\* The bound on loads and edits.
Edit == edits < MaxEdits /\ edits' = edits + 1
ShownIn(t) == IF t.mode = "obs" THEN t.obs[t.oidx] ELSE t.periods[t.pidx]
StepAsks(dir) == LET t == Stepped(tl, dir) IN Settle(t, tlRain, ShownIn(t))

\* handleStep: a button or a key stops the playback, a tick does not.
SliderStep(dir) ==
    /\ sliderShown
    /\ CanStep
    /\ StepAsks(dir)
    /\ Stop
    /\ UNCHANGED <<sliderShown, edits>>

PlaybackTick ==
    /\ intervals > 0
    /\ IF CanStep THEN StepAsks(1) ELSE UNCHANGED <<tl, tlRain, tlWinPeriod, tlAsked>>
    /\ UNCHANGED <<playing, playTimer, intervals, sliderShown, edits>>

ChipClick(i) ==
    /\ sliderShown
    /\ Stop
    /\ UNCHANGED <<sliderShown, edits>>
    /\ \/ /\ tl.mode = "obs"
          /\ i \in DOMAIN tl.obs
          /\ Settle([tl EXCEPT !.oidx = i], tlRain, tl.obs[i])
       \/ /\ tl.mode = "nwp"
          /\ i \in DOMAIN tl.periods
          /\ tl.periods[i] \notin tl.disabled
          /\ Settle([tl EXCEPT !.pidx = i], tlRain, tl.periods[i])

\* handleStepLengthChange for a forecast: the nearest period that exists.
NwpStepLength(step) ==
    LET periods == Periods[step]
        off == RainDisabled(tlRain, periods)
        idx == ClosestIndex(periods, tl.periods[tl.pidx], off)
    IN  /\ sliderShown
        /\ tl.mode = "nwp"
        /\ step \in NwpSteps
        /\ Settle([tl EXCEPT !.step = step, !.periods = periods, !.pidx = idx,
                             !.disabled = off], tlRain, periods[idx])
        /\ Stop
        /\ Edit
        /\ UNCHANGED sliderShown

\* handleStepLengthChange for observations: a window that was at the newest
\* file stays there, another goes to the nearest file that is left.
ObsStepLength(step) ==
    LET all == Filtered[<<tl.raw, step, tl.upper>>]
        chips == ObsChips(all, Nil, MaxChips)
        atLatest == tl.obs = <<>> \/ tl.oidx >= Len(tl.obs)
        keep == IF tl.obs = <<>> THEN Nil
                ELSE IF all # <<>> /\ tl.obs[tl.oidx] \notin Elements(all)
                THEN FindClosestFile(all, tl.obs[tl.oidx]) ELSE tl.obs[tl.oidx]
        idx == IF ~atLatest /\ keep \in Elements(chips) THEN IndexOf(chips, keep)
               ELSE IF chips = <<>> THEN 1 ELSE Len(chips)
    IN  /\ sliderShown
        /\ tl.mode = "obs"
        /\ step \in ObsSteps
        /\ tl.upper => step \in {360, 720, 1440}
        /\ Settle([tl EXCEPT !.step = step, !.obs = chips, !.oidx = idx], tlRain,
                  IF chips = <<>> THEN Nil ELSE chips[idx])
        /\ Stop
        /\ Edit
        /\ UNCHANGED sliderShown

-----------------------------------------------------------------------------
(* The multi-track ruler *)

\* handleMultiTrackTimeChange: the chip nearest to the moment, whether or not
\* its accumulation exists; the rain effect then moves on.
ScrubTo(t, moment) ==
    LET o == ClosestIndex(t.obs, moment, {})
        p == ClosestIndex([i \in DOMAIN t.periods |-> Cycle + t.periods[i] * 60],
                          moment, {})
        u == [t EXCEPT !.cursor = moment]
    IN  IF t.mode = "obs"
        THEN IF t.obs = <<>> THEN Settle(u, tlRain, Nil)
             ELSE Settle([u EXCEPT !.oidx = o], tlRain, t.obs[o])
        ELSE Settle([u EXCEPT !.pidx = p], tlRain, t.periods[p])

\* A drag of the playhead, a click on a sample or a tick of the ruler.
Scrub(moment) ==
    /\ sliderShown
    /\ moment \in Moments
    /\ ~tl.live
    /\ ScrubTo(tl, moment)
    /\ UNCHANGED <<playing, playTimer, intervals, sliderShown, edits>>

\* handlePacemakerStep: onStep moves the chip, then the cursor goes to the
\* pacemaker's next sample (a grid of Cadence) and the chip follows the cursor.
PacemakerStep(dir) ==
    LET low == (tl.cursor \div Cadence) * Cadence
        near == IF tl.cursor - low <= low + Cadence - tl.cursor THEN low ELSE low + Cadence
        target == near + dir * Cadence
    IN  /\ sliderShown
        /\ target \in Moments
        /\ ScrubTo(IF CanStep THEN Stepped(tl, dir) ELSE tl, target)
        /\ Stop
        /\ UNCHANGED <<sliderShown, edits>>

\* The handles of the ruler set a bound of the loop to a time.
RulerHandle(end, moment) ==
    /\ sliderShown
    /\ moment \in Moments
    /\ tl' = [tl EXCEPT !.loop = IF end = "A" THEN [tl.loop EXCEPT !.a = moment]
                                 ELSE [tl.loop EXCEPT !.b = moment]]
    /\ Edit
    /\ UNCHANGED <<tlRain, tlWinPeriod, tlAsked, playing, playTimer, intervals, sliderShown>>

\* toggleLoopRange of the ruler: switched on, the loop gets the handles' times.
RulerLoop(from, to) ==
    /\ sliderShown
    /\ from \in Moments /\ to \in Moments /\ from < to
    /\ tl' = [tl EXCEPT !.loop = IF tl.loop.on THEN [tl.loop EXCEPT !.on = FALSE]
                                 ELSE [on |-> TRUE, a |-> from, b |-> to]]
    /\ Edit
    /\ UNCHANGED <<tlRain, tlWinPeriod, tlAsked, playing, playTimer, intervals, sliderShown>>

\* handleModeToggle and the live ticker: the cursor jumps to the present.
LiveMode(now) ==
    /\ sliderShown
    /\ now \in Moments
    /\ ScrubTo([tl EXCEPT !.live = TRUE], now)
    /\ UNCHANGED <<playing, playTimer, intervals, sliderShown>>
    /\ Edit

ReviewMode ==
    /\ sliderShown
    /\ tl.live
    /\ ScrubTo([tl EXCEPT !.live = FALSE], tl.cursor)
    /\ UNCHANGED <<playing, playTimer, intervals, sliderShown>>
    /\ Edit

-----------------------------------------------------------------------------
(* Playback and the loop markers of the slider *)

\* togglePlay, and the key that flips isPlaying and leaves start() to an effect.
Play ==
    /\ ~playing
    /\ sliderShown
    /\ Run
    /\ tl' = [tl EXCEPT !.loop = WholeRange(tl)]
    /\ UNCHANGED <<tlRain, tlWinPeriod, tlAsked, sliderShown, edits>>

\* handleSpeedChange starts again.
SpeedChange ==
    /\ playing
    /\ Run
    /\ tl' = [tl EXCEPT !.loop = WholeRange(tl)]
    /\ UNCHANGED <<tlRain, tlWinPeriod, tlAsked, sliderShown, edits>>

\* togglePlay, the page hidden, the slider moved to another window.
Pause ==
    /\ playing
    /\ Stop
    /\ UNCHANGED <<tl, tlRain, tlWinPeriod, tlAsked, sliderShown, edits>>

\* A profile preset hides the slider, and an effect pauses.
HideSlider ==
    /\ sliderShown
    /\ sliderShown' = FALSE
    /\ Stop
    /\ UNCHANGED <<tl, tlRain, tlWinPeriod, tlAsked>>
    /\ Edit

ToggleLoop ==
    /\ sliderShown
    /\ tl' = [tl EXCEPT !.loop = IF tl.loop.on THEN [tl.loop EXCEPT !.on = FALSE] ELSE WholeRange(tl)]
    /\ Edit
    /\ UNCHANGED <<tlRain, tlWinPeriod, tlAsked, playing, playTimer, intervals, sliderShown>>

\* updateLoopMarkerIndex: a marker dragged to chip i never passes the other.
DragMarker(end, i) ==
    LET n == IF tl.mode = "obs" THEN Len(tl.obs) ELSE Len(tl.periods)
        At(x, default) == LET j == IF tl.mode = "obs"
                                   THEN IF x \in 0..n - 1 THEN x + 1 ELSE Nil
                                   ELSE IndexOf(tl.periods, x)
                          IN  IF j = Nil THEN default ELSE j
        Bound(j) == IF tl.mode = "obs" THEN j - 1 ELSE tl.periods[j]
        a == At(tl.loop.a, 1)
        b == At(tl.loop.b, n)
        a2 == IF end = "A" THEN IF i <= b THEN i ELSE b ELSE a
        b2 == IF end = "B" THEN IF i >= a THEN i ELSE a ELSE b
    IN  /\ sliderShown
        /\ i \in 1..n
        /\ tl' = [tl EXCEPT !.loop = [tl.loop EXCEPT !.a = Bound(a2), !.b = Bound(b2)]]
        /\ Edit
        /\ UNCHANGED <<tlRain, tlWinPeriod, tlAsked, playing, playTimer, intervals, sliderShown>>

-----------------------------------------------------------------------------
(* What a load leaves behind (handleLoadData, the timeline's part) *)

\* A forecast preset: step, periods and cycle set anew, the loop and the
\* playback left alone.  The map loads win.period, which stays unless the
\* accumulation does not exist.
LoadNwp(step, rain) ==
    LET periods == Periods[step]
        off == RainDisabled(rain, periods)
        good == SelectSeq(periods, LAMBDA p : p >= rain)
        win == IF tlWinPeriod >= rain THEN tlWinPeriod
               ELSE IF good = <<>> THEN rain ELSE good[1]
        idx == IF IndexOf(periods, win) # Nil THEN IndexOf(periods, win)
               ELSE IF Len(periods) < 5 THEN Len(periods) ELSE 5
        s == RainEffect([tl EXCEPT !.mode = "nwp", !.step = step, !.periods = periods,
                                   !.pidx = idx, !.disabled = off], rain)
    IN  /\ step \in NwpSteps
        /\ rain \in Accumulations
        /\ tl' = s.tl
        /\ tlRain' = rain
        /\ tlWinPeriod' = IF s.asks # Nil THEN s.asks ELSE win
        /\ tlAsked' = s.asks
        /\ sliderShown' = TRUE
        /\ Edit
        /\ UNCHANGED <<playing, playTimer, intervals>>

\* An observation preset before its files are known: the old chips remain.
LoadObs(step, upper) ==
    /\ step \in ObsSteps
    /\ upper \in BOOLEAN
    /\ upper => step \in {360, 720, 1440}
    /\ tl' = [tl EXCEPT !.mode = "obs", !.step = step, !.upper = upper]
    /\ tlRain' = 0
    /\ tlAsked' = Nil
    /\ sliderShown' = TRUE
    /\ Edit
    /\ UNCHANGED <<tlWinPeriod, playing, playTimer, intervals>>

\* The bridge: the loader's listing becomes the chips, at the file it loaded:
\* the newest, or the file shown when the loader was not told to start afresh.
BridgeObs(raw) ==
    LET all == Filtered[<<raw, tl.step, tl.upper>>]
        loaded == IF all = <<>> THEN {LastOf(raw)}
                  ELSE {LastOf(all)} \cup (Elements(tl.obs) \cap Elements(all) \cap {Shown})
    IN  /\ tl.mode = "obs"
        /\ raw \in Listings
        /\ \E file \in loaded :
             LET chips == ObsChips(all, file, MaxChips)
                 obs == IF chips = <<>> THEN all ELSE chips
             IN  tl' = [tl EXCEPT !.raw = raw, !.obs = obs,
                                  !.oidx = IF file \in Elements(obs) THEN IndexOf(obs, file)
                                           ELSE IF obs = <<>> THEN 1 ELSE Len(obs)]
        /\ tlAsked' = Nil
        /\ UNCHANGED <<tlRain, tlWinPeriod, playing, playTimer, intervals, sliderShown, edits>>

TlNext ==
    \/ \E dir \in {1, -1} : SliderStep(dir) \/ PacemakerStep(dir)
    \/ \E i \in DOMAIN tl.periods \cup DOMAIN tl.obs : ChipClick(i) \/ DragMarker("A", i) \/ DragMarker("B", i)
    \/ \E s \in NwpSteps : NwpStepLength(s) \/ \E r \in Accumulations : LoadNwp(s, r)
    \/ \E s \in ObsSteps : ObsStepLength(s) \/ \E u \in BOOLEAN : LoadObs(s, u)
    \/ \E m \in Moments : Scrub(m) \/ LiveMode(m) \/ RulerHandle("A", m) \/ RulerHandle("B", m)
                              \/ \E n \in Moments : RulerLoop(m, n)
    \/ PlaybackTick \/ ReviewMode \/ Play \/ SpeedChange \/ Pause \/ HideSlider \/ ToggleLoop
    \/ \E raw \in Listings : BridgeObs(raw)

-----------------------------------------------------------------------------
(* Properties *)

\* The slider's state has its types.
TlTypeOK ==
    /\ tl.mode \in {"nwp", "obs"}
    /\ tl.pidx \in DOMAIN tl.periods
    /\ tl.oidx \in DOMAIN tl.obs \/ (tl.obs = <<>> /\ tl.oidx = 1)
    /\ tl.disabled \subseteq 0..Horizon
    /\ tl.live \in BOOLEAN /\ tl.upper \in BOOLEAN /\ tl.loop.on \in BOOLEAN
    /\ tlRain \in Accumulations
    /\ playing \in BOOLEAN /\ playTimer \in BOOLEAN /\ sliderShown \in BOOLEAN
    /\ intervals \in Nat

\* The chip that is highlighted is the one whose data was asked for last, and a
\* period without accumulation is highlighted only when there is no other: the
\* slider and the map do not drift apart over steps, scrubs, ticks, changes of
\* the step length and the jumps of the rain effect (TimeSlider.svelte).
AskedIsShown ==
    /\ tlAsked # Nil /\ Shown # Nil => tlAsked = Shown
    /\ tl.mode = "nwp" /\ Elements(tl.periods) \ tl.disabled # {} => Shown \notin tl.disabled

\* One interval fires while the playback runs and none while it does not,
\* however play, pause, speed and visibility follow each other: two would step
\* the timeline twice a beat, a stray one after a pause.
OneTicker == intervals = IF playing THEN 1 ELSE 0

\* A tick of the playback moves on, as long as the loop (or without one the
\* timeline) holds two steps that can be shown, and lands inside the loop if it
\* can (stepWindowTimeline, then the rain effect).
TickMovesOn ==
    LET can == IF tl.mode = "obs" THEN DOMAIN tl.obs
               ELSE {i \in DOMAIN tl.periods : tl.periods[i] \notin tl.disabled}
        in == IF InLoop(tl) = {} THEN can ELSE InLoop(tl) \cap can
        now == IF tl.mode = "obs" THEN tl.oidx ELSE tl.pidx
        then == IF tl.mode = "obs" THEN tl'.oidx ELSE tl'.pidx
    IN  Cardinality(in) >= 2 => then # now /\ then \in in
TicksMoveOn == PlaybackTick => TickMovesOn

TlSpec == TlInit /\ [][TlNext]_tlVars
=============================================================================
