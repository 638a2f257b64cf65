--------------------------- MODULE TimelineCases ----------------------------
(* The pure functions of TimelineMath on every input from small sets: a case *)
(* is an initial state, and the properties compare what the functions return *)
(* with what the slider and the ruler need of them.                          *)
EXTENDS TimelineMath

CONSTANTS
    FileTimes,   \* the times a listing is drawn from
    StepLengths, \* step lengths in minutes
    Offsets,     \* time offsets of a layer in minutes
    Tolerance    \* of every layer, in minutes

VARIABLE case
tcVars == <<case>>

NoCase == [kind |-> "none"]

\* A set of times as the sorted listing the tree returns.
Listing(S) == [i \in 1..Cardinality(S) |->
                  CHOOSE t \in S : Cardinality({u \in S : u <= t}) = i]
FileLists == {Listing(S) : S \in SUBSET FileTimes}

\* A choice of chips, or a match of a layer's samples with the cursor.
TcInit ==
    \/ case \in [kind : {"chips"}, files : FileLists, step : StepLengths,
                 upper : BOOLEAN, max : {2, 3}]
    \/ case \in [kind : {"match"}, files : FileLists, cursor : FileTimes \cup {Nil},
                 policy : Policies, offset : Offsets, live : BOOLEAN]
TcNext == UNCHANGED tcVars
TcSpec == TcInit /\ [][TcNext]_tcVars

Contiguous(part, whole) ==
    \E i \in 0..Len(whole) : part = SubSeq(whole, i + 1, i + Len(part))

\* The chips of a listing (filterObsFilesByStep, selectObsChipsWindow): files
\* of the listing, a step apart unless nothing better than the listing exists;
\* a listing with files gives chips unless it is one of soundings at 02 and 14;
\* the window never drops a target it was given, nor the newest without one; and
\* the neighbours a prefetch asks for are the files next to it.
ChipsFaithful ==
    case.kind = "chips" =>
        LET all == FilterObsFiles(case.files, case.step, case.upper)
            targets == Elements(all) \cup {Nil}
            odd == \A f \in Elements(case.files) : Hour(f) \in {2, 14}
        IN  /\ Elements(all) \subseteq Elements(case.files)
            /\ \A i \in 1..Len(all) - 1 : all[i] < all[i + 1]
            /\ ~case.upper /\ all # case.files =>
                   \A i \in 1..Len(all) - 1 : all[i + 1] - all[i] >= case.step - 1
            /\ all = <<>> => case.files = <<>> \/ (case.upper /\ odd)
            /\ \A target \in targets :
                  LET chips == ObsChips(all, target, case.max)
                  IN  /\ Contiguous(chips, all)
                      /\ Len(chips) = IF Len(all) < case.max THEN Len(all) ELSE case.max
                      /\ target # Nil => target \in Elements(chips)
                      /\ target = Nil /\ all # <<>> => LastOf(chips) = LastOf(all)
            /\ \A i \in DOMAIN all : \A f \in Elements(FollowingSteps(all, i, 2)) :
                  f > all[i] /\ Cardinality({g \in Elements(all) : all[i] < g /\ g < f}) <= 1

\* The sample a layer shows (resolveLayerTime): nearest is nearest and breaks a
\* tie towards the past; latest-at and hold never show the future while there is
\* a past; interpolate shows one of the two samples around the target; live mode
\* is latest-at whatever the layer says; and without an offset the nearest
\* sample is never staler than another policy's.
ResolutionSound ==
    case.kind = "match" =>
        LET r == ResolveLayerTime(case.files, case.cursor, case.offset, case.policy,
                                  Tolerance, case.live)
            target == case.cursor + case.offset
            S == Elements(case.files)
            Dist(s) == Abs(s - target)
            GradeOf(x) == CASE x.status = "hard-stale" -> 3 [] x.status = "soft-stale" -> 2
                            [] OTHER -> 1
            causal == case.live \/ case.policy \in {"latest-at", "hold"}
        IN  IF S = {} \/ case.cursor = Nil THEN r.shown = Nil /\ r.status = "hard-stale"
            ELSE /\ r.shown \in S
                 /\ case.policy = "nearest" /\ ~case.live =>
                        \A s \in S : \/ Dist(r.shown) < Dist(s)
                                    \/ (Dist(r.shown) = Dist(s) /\ r.shown <= s)
                 /\ causal => \A s \in S : s <= target => s <= r.shown /\ r.shown <= target
                 /\ case.policy = "interpolate" /\ ~case.live =>
                        ~\E s \in S : \/ (r.shown < s /\ s <= target)
                                      \/ (target <= s /\ s < r.shown)
                 /\ case.offset = 0 =>
                        GradeOf(ResolveLayerTime(case.files, case.cursor, 0, "nearest",
                                                 Tolerance, FALSE)) <= GradeOf(r)
=============================================================================
