---------------------------- MODULE TimelineMath ----------------------------
(* The arithmetic of the timeline: lead-time lists, the choice of            *)
(* observation files for a step length, the chip window, the accumulation    *)
(* periods that do not exist, and the match of a layer's samples with the    *)
(* cursor (ui/timeline/timelineMath.js, utils/rain12.js,                     *)
(* utils/timeResolver.js, lib/stores/timelineCore.js).                       *)
(*                                                                           *)
(* A time is a number of minutes; a file name is the time it names, so a     *)
(* list of files is a strictly increasing sequence of times.  Lead times are *)
(* hours.  Sequences start at 1 where the code starts at 0.                  *)
EXTENDS Sublists

\* The null of an index, a number or a file.
Nil == -1

\* Numbers from Epoch on are times: the code tells a time from an index or a
\* lead time by its size (1e8 there).  Epoch is a midnight.
Epoch == 144000

Earliest(S) == CHOOSE x \in S : \A y \in S : x <= y
Latest(S) == CHOOSE x \in S : \A y \in S : y <= x
Abs(n) == IF n < 0 THEN -n ELSE n
Elements(s) == {s[i] : i \in DOMAIN s}
LastOf(s) == s[Len(s)]

\* The arithmetic progression from a to b.
Upto(a, b, by) == [i \in 1..((b - a) \div by + 1) |-> a + (i - 1) * by]

-----------------------------------------------------------------------------
(* Lead times *)

\* getPeriodsForStep, cut off at the lead time `horizon`.
AllPeriods(step) ==
    CASE step = 1  -> Upto(0, 36, 1) \o Upto(39, 72, 3)
      [] step = 3  -> Upto(0, 72, 3) \o Upto(78, 120, 6)
      [] step = 6  -> Upto(0, 120, 6) \o Upto(132, 240, 12)
      [] step = 12 -> Upto(0, 240, 12)
      [] step = 24 -> Upto(0, 240, 24)
      [] OTHER     -> Upto(0, 120, step)
PeriodsForStep(step, horizon) ==
    LET all == AllPeriods(step) IN OnlyAt(all, {i \in DOMAIN all : all[i] <= horizon})

\* An accumulation over h hours has no value before h (h = 0: no accumulation).
RainDisabled(h, periods) == {p \in Elements(periods) : p < h}

\* The first index whose value is nearest to target, of those that are not off.
ClosestIndex(seq, target, off) ==
    LET cand == {i \in DOMAIN seq : seq[i] \notin off}
    IN  IF cand = {} THEN 1
        ELSE CHOOSE i \in cand : \A j \in cand :
                 \/ Abs(seq[i] - target) < Abs(seq[j] - target)
                 \/ Abs(seq[i] - target) = Abs(seq[j] - target) /\ i <= j

IndexOf(seq, x) == IF x \in Elements(seq) THEN CHOOSE i \in DOMAIN seq : seq[i] = x
                   ELSE Nil

-----------------------------------------------------------------------------
(* Observation files *)

Hour(f) == (f \div 60) % 24
Minute(f) == f % 60
AtHours(files, H) == OnlyAt(files, {i \in DOMAIN files : Hour(files[i]) \in H})
OnHours(files, H) == OnlyAt(files, {i \in DOMAIN files : Minute(files[i]) = 0 /\ Hour(files[i]) \in H})

\* stepBackwardByInterval: from the newest file back, each at least the
\* interval (less a minute) older than the one picked before it.
PickedBack(files, step) ==
    LET n == Len(files)
        Picked[i \in 1..n] ==
            IF i = n THEN {n}
            ELSE LET later == Picked[i + 1]
                 IN  IF files[Earliest(later)] - files[i] >= step - 1
                     THEN later \cup {i} ELSE later
    IN  IF n = 0 THEN {} ELSE Picked[1]
StepBackward(files, step) == OnlyAt(files, DOMAIN files \cap PickedBack(files, step))

\* The first of the candidates that is good, and those of two files or more.
FirstGood(cands, good, default) == IF good = {} THEN default ELSE cands[Earliest(good)]
OfTwo(cands) == {i \in DOMAIN cands : Len(cands[i]) >= 2}

\* filterObsFilesByStep for soundings: standard times only.
FilterUpper(files, step) ==
    LET morning == AtHours(files, {8})
        synoptic == AtHours(files, {8, 20})
        every6 == AtHours(files, {2, 8, 14, 20})
    IN  CASE step = 1440 /\ morning # <<>> -> morning
          [] step \in {720, 1440} /\ ~(step = 1440 /\ morning # <<>>) ->
                 IF synoptic # <<>> THEN synoptic ELSE AtHours(files, 0..23 \ {2, 14})
          [] step = 360 -> IF every6 # <<>> THEN every6 ELSE files

\* The files on the clock's hours, and on those shifted by 8 hours.
OnClock(files, step) == OnHours(files, {h \in 0..23 : (h * 60) % step = 0})
OnShifted(files, step) == OnHours(files, {h \in 0..23 : (h * 60 + 960) % step = 0})

\* filterObsFilesByStep.
FilterObsFiles(files, step, upper) ==
    LET hourly == OnHours(files, 0..23)
        aligned == OnlyAt(files, {i \in DOMAIN files : Minute(files[i]) % step = 0})
        stepped == StepBackward(IF Len(hourly) >= 2 THEN hourly ELSE files, step)
        grids == <<OnClock(files, step), OnShifted(files, step)>>
        all == <<stepped, OnClock(files, step), OnShifted(files, step)>>
    IN  CASE files = <<>> -> <<>>
          [] upper /\ step \in {360, 720, 1440} /\ files # <<>> -> FilterUpper(files, step)
          [] step < 60 /\ files # <<>> -> IF Len(aligned) >= 2 THEN aligned ELSE files
          [] step = 60 /\ files # <<>> -> IF Len(hourly) >= 2 THEN hourly ELSE files
          [] step \in {180, 360} /\ files # <<>> /\ ~(upper /\ step = 360) ->
                 FirstGood(grids, OfTwo(grids), stepped)
          [] step \in {720, 1440} /\ files # <<>> /\ ~upper ->
                 FirstGood(grids, {i \in OfTwo(grids) : Len(grids[i]) >= Len(stepped)},
                         FirstGood(all, OfTwo(all), FirstGood(all, {i \in DOMAIN all : all[i] # <<>>}, files)))
          [] OTHER -> stepped

\* findClosestFile.
FindClosestFile(files, target) ==
    IF files = <<>> THEN Nil
    ELSE IF target = Nil THEN LastOf(files)
    ELSE files[ClosestIndex(files, target, {})]

\* selectObsChipsWindow: at most max files, around the target or the newest.
ObsChips(files, target, max) ==
    LET n == Len(files)
        idx == IndexOf(files, target)
        lo == LET s == Latest({1, idx - max \div 2}) IN Earliest({s, n - max + 1})
    IN  IF n <= max THEN files
        ELSE IF idx = Nil THEN SubSeq(files, n - max + 1, n)
        ELSE SubSeq(files, lo, lo + max - 1)

-----------------------------------------------------------------------------
(* Stepping helpers *)

Wrap(i, len) == ((i - 1) % len) + 1

\* The next index in direction dir whose value is not disabled; if all are, the
\* scan comes round to where it started and moves one further.
NextEnabled(seq, disabled, idx, dir) ==
    LET len == Len(seq)
        tries == {k \in 1..len : seq[Wrap(idx + dir * k, len)] \notin disabled}
    IN  Wrap(idx + dir * (IF tries = {} THEN 1 ELSE Earliest(tries)), len)

\* Mutant: the end of the loop is where it stays.
BugLoopNext(idx, lo, hi, dir) ==
    IF dir > 0 THEN IF idx < lo THEN lo ELSE IF idx >= hi THEN idx ELSE idx + 1
    ELSE IF idx <= lo \/ idx > hi THEN hi ELSE idx - 1

\* The next index inside the loop [lo, hi]; from outside it enters at an end.
LoopNext(idx, lo, hi, dir) ==
    IF dir > 0 THEN IF idx < lo \/ idx >= hi THEN lo ELSE idx + 1
    ELSE IF idx <= lo \/ idx > hi THEN hi ELSE idx - 1

\* getAdjacentTimeSteps: what to prefetch on either side of the current step.
AdjacentSteps(seq, disabled, idx) ==
    LET Has(dir) == \E i \in DOMAIN seq : seq[i] \notin disabled
        At(dir) == IF Has(dir) THEN seq[NextEnabled(seq, disabled, idx, dir)] ELSE Nil
    IN  [prev |-> At(-1), next |-> At(1)]

\* getFollowingTimeSteps: up to n later files, without wrapping.
FollowingSteps(files, idx, n) ==
    SubSeq(files, idx + 1, Earliest({idx + n, Len(files)}))

-----------------------------------------------------------------------------
(* Which sample of a layer is shown at the cursor *)

Policies == {"nearest", "latest-at", "hold", "interpolate"}

\* Step 4 of resolveLayerTime, for a sequence that is not empty.
MatchSample(samples, target, policy) ==
    LET past == {i \in DOMAIN samples : samples[i] <= target}
        future == {i \in DOMAIN samples : samples[i] >= target}
        prev == samples[Latest(past)]
        next == samples[Earliest(future)]
    IN  CASE policy \in {"latest-at", "hold"} ->
                 IF past = {} THEN samples[1] ELSE prev
          [] policy = "interpolate" ->
                 IF past # {} /\ future # {} /\ prev # next
                 THEN IF 2 * (target - prev) < next - prev THEN prev ELSE next
                 ELSE IF past # {} THEN prev ELSE next
          [] policy = "nearest" ->
                 samples[ClosestIndex(samples, target, {})]

\* Step 5: how old the sample shown is, against the cursor and not the target.
Staleness(shown, cursor, offset, tolerance) ==
    CASE offset # 0 -> "desync"
      [] offset = 0 /\ Abs(shown - cursor) > 2 * tolerance -> "hard-stale"
      [] offset = 0 /\ Abs(shown - cursor) \in (tolerance + 1)..(2 * tolerance) -> "soft-stale"
      [] OTHER -> "current"

\* resolveLayerTime: live mode overrides the layer's policy.
ResolveLayerTime(samples, cursor, offset, policy, tolerance, live) ==
    LET used == IF live THEN "latest-at" ELSE policy
        shown == MatchSample(samples, cursor + offset, used)
    IN  IF samples = <<>> \/ cursor = Nil
        THEN [shown |-> Nil, status |-> "hard-stale"]
        ELSE [shown |-> shown, status |-> Staleness(shown, cursor, offset, tolerance)]
=============================================================================
