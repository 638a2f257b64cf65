----------------------------- MODULE LoadsProofs ----------------------------
(***************************************************************************)
(* Proofs about what the browser fetches and the loads of its windows, for *)
(* any windows, fields, listings, levels, models and periods, any cap and  *)
(* time to live and any number of steps and of calls across each other.    *)
(***************************************************************************)
EXTENDS WindowLoads, ClientPrefetch, ApiCache, SequenceTheorems, FiniteSetTheorems, WellFoundedInduction, TLAPS

-----------------------------------------------------------------------------
(* A set of numbers has a least member.                                    *)
LessThan == {ss \in Nat \X Nat : ss[1] < ss[2]}
LEMMA LessThanWellFounded == IsWellFoundedOn(LessThan, Nat)
<1>1. OpToRel(<, Nat) = LessThan
  BY DEF OpToRel, LessThan
<1> QED BY <1>1, NatLessThanWellFounded

LEMMA LeastMember ==
    ASSUME NEW S, S \subseteq Nat, S # {}
    PROVE  \E n \in S : \A m \in S : n <= m
<1>1. PICK x \in S : \A y \in S : <<y, x>> \notin LessThan
  BY LessThanWellFounded, WFMin
<1>2. ASSUME NEW m \in S PROVE x <= m
  <2>1. <<m, x>> \in Nat \X Nat /\ <<m, x>>[1] = m /\ <<m, x>>[2] = x
    OBVIOUS
  <2>2. ~(m < x)
    BY <1>1, <2>1 DEF LessThan
  <2> QED BY <2>2
<1> QED BY <1>1, <1>2

-----------------------------------------------------------------------------
(***************************************************************************)
(* A prefetch is right when nothing is under way any more, which says      *)
(* nothing of the states before; the invariant StillToCome says what each  *)
(* unsettled window still has to come: a hint waits for a load that uses   *)
(* it up, and one that the last step did not leave waits for two, so that  *)
(* the last prefetch is not restricted to its side.                        *)
(*                                                                         *)
(* The cache's invariant counts what its promises leave open.  A hit by    *)
(* an alias leaves a copy behind, so the length is bounded by the fields   *)
(* there are entries of (Few), two urls each, and only a fetch brings a    *)
(* new field in.  Any fetch that ends unregisters what is registered for   *)
(* its url, so a second one may begin while the first runs; each such is   *)
(* owed to a fetch past the cache (Owed), and without those the registered *)
(* fetch is the only one.                                                  *)
(***************************************************************************)

(* The prefetches after a step: prefetchService.js                        *)

Hints == Dirs \cup {AllDirs}
LoadRecords == [w : PfWindows, id : 1 .. pfSteps, kind : {"field", "end"}, again : BOOLEAN]

PTypes ==
    /\ pfAt \in [PfWindows -> Nat]
    /\ pfLast \in [PfWindows -> Hints \cup {"none", "level"}]
    /\ pfHint \in [PfWindows -> Hints]
    /\ pfTimer \in [PfWindows -> [gen : Nat, dirs : Hints]]
    /\ pfGen \in [PfWindows -> Nat]
    /\ pfLoads \subseteq LoadRecords
    /\ pfDone \in [PfWindows -> [at : Int, dirs : Hints, gen : Nat]]
    /\ pfClosed \subseteq PfWindows
    /\ pfSteps \in 0 .. PfMaxSteps

(* Loads are told apart by the step that began them.                       *)
OneLoadPerStep == \A l, m \in pfLoads : l.id = m.id => l = m

UnderWay(w) == \E l \in pfLoads : l.w = w
TwoUnderWay(w) == \E l, m \in pfLoads : l.w = w /\ m.w = w /\ l.id # m.id

(* The timer, or when there is none the last prefetch, is of the newest    *)
(* generation.                                                             *)
NewestGen(w) == pfGen[w] = IF pfTimer[w] = NoTimer THEN pfDone[w].gen ELSE pfTimer[w].gen

Placed(w) == pfAt[w] = 0 \/ UnderWay(w) \/ pfTimer[w] # NoTimer \/ pfDone[w].at = pfAt[w]

Fits(w, dirs) == dirs \in {AllDirs, pfLast[w]}

(* The direction of a hint, of a timer and of the last prefetch is that of *)
(* the last step, or something comes that replaces it.                     *)
Directed(w) ==
    /\ pfHint[w] = AllDirs \/ UnderWay(w)
    /\ Fits(w, pfHint[w]) \/ TwoUnderWay(w)
    /\ Fits(w, pfTimer[w].dirs) \/ UnderWay(w)
    /\ Fits(w, pfDone[w].dirs) \/ UnderWay(w) \/ pfTimer[w] # NoTimer

StillToCome(w) == NewestGen(w) /\ Placed(w) /\ Directed(w)

GensCounted == \A w \in PfWindows : pfTimer[w].gen <= pfGen[w] /\ pfDone[w].gen <= pfGen[w]

PInv ==
    /\ PTypes /\ GensCounted /\ OneLoadPerStep /\ NoDeadTimers
    /\ \A w \in PfWindows \ pfClosed : StillToCome(w)
-----------------------------------------------------------------------------
(* A step that leaves window v alone leaves what it waits for.             *)
LEMMA OthersStay ==
    ASSUME NEW v \in PfWindows, StillToCome(v),
           pfAt'[v] = pfAt[v], pfLast'[v] = pfLast[v], pfHint'[v] = pfHint[v], pfTimer'[v] = pfTimer[v],
           pfGen'[v] = pfGen[v], pfDone'[v] = pfDone[v],
           {l \in pfLoads' : l.w = v} = {l \in pfLoads : l.w = v}
    PROVE  StillToCome(v)'
<1>1. UnderWay(v)' <=> UnderWay(v)
  BY DEF UnderWay
<1>2. TwoUnderWay(v)' <=> TwoUnderWay(v)
  BY DEF TwoUnderWay
<1> QED BY <1>1, <1>2 DEF StillToCome, NewestGen, Placed, Directed, Fits

LEMMA ScheduledFor ==
    ASSUME PInv, NEW w \in PfWindows, NEW n \in 1 .. 2, NEW dirs \in Hints, Scheduled(w, n, dirs)
    PROVE  /\ pfGen' \in [PfWindows -> Nat] /\ pfTimer' \in [PfWindows -> [gen : Nat, dirs : Hints]]
           /\ pfHint' \in [PfWindows -> Hints]
           /\ pfGen'[w] = pfGen[w] + n /\ pfTimer'[w] = [gen |-> pfGen[w] + n, dirs |-> dirs]
           /\ pfHint'[w] = AllDirs /\ pfTimer'[w] # NoTimer
           /\ \A v \in PfWindows \ {w} :
                pfGen'[v] = pfGen[v] /\ pfTimer'[v] = pfTimer[v] /\ pfHint'[v] = pfHint[v]
           /\ w \in pfClosed => pfLate' = pfLate \cup {w}
           /\ w \notin pfClosed => pfLate' = pfLate
<1>1. /\ pfGen \in [PfWindows -> Nat] /\ pfTimer \in [PfWindows -> [gen : Nat, dirs : Hints]]
      /\ pfHint \in [PfWindows -> Hints]
  BY DEF PInv, PTypes
<1>2. [gen |-> pfGen[w] + n, dirs |-> dirs] \in [gen : Nat, dirs : Hints]
  BY <1>1
<1>3. [gen |-> pfGen[w] + n, dirs |-> dirs] # NoTimer
  BY <1>1 DEF NoTimer
<1> QED BY <1>1, <1>2, <1>3 DEF Scheduled, HintAfter, Hints

(* A step of the operator: the window is elsewhere, and a load is under way. *)
LEMMA StepKeeps ==
    ASSUME PInv, NEW w \in PfWindows \ pfClosed, NEW again \in BOOLEAN, NEW last \in Hints \cup {"level"},
           NEW hint \in Hints, hint \in {last, pfHint[w]}, NewStep,
           pfAt' = [pfAt EXCEPT ![w] = @ + 1], pfLast' = [pfLast EXCEPT ![w] = last],
           pfHint' = [pfHint EXCEPT ![w] = hint], pfLoads' = Begun(w, again),
           UNCHANGED <<pfTimer, pfGen, pfDone, pfClosed, pfLate>>
    PROVE  PInv'
<1> DEFINE new == [w |-> w, id |-> pfSteps + 1, kind |-> "field", again |-> again]
<1>0. PTypes /\ PfMaxSteps \in Nat
  BY ClientPrefetchAssumption DEF PInv
<1>1. pfSteps' = pfSteps + 1 /\ pfSteps \in Nat /\ pfSteps' \in 0 .. PfMaxSteps
  BY <1>0 DEF NewStep, PTypes
<1>2. pfLoads' = pfLoads \cup {new} /\ \A l \in pfLoads : l.id \in 1 .. pfSteps
  BY <1>0 DEF Begun, PTypes, LoadRecords
<1>3. pfLoads' \subseteq LoadRecords'
  <2>1. \A l \in pfLoads : l \in LoadRecords'
    BY <1>0, <1>1 DEF PTypes, LoadRecords
  <2>2. new \in LoadRecords'
    BY <1>1 DEF LoadRecords
  <2> QED BY <1>2, <2>1, <2>2
<1>4. PTypes'
  BY <1>0, <1>1, <1>3 DEF PTypes
<1>5. GensCounted' /\ NoDeadTimers'
  BY DEF PInv, GensCounted, NoDeadTimers
<1>6. OneLoadPerStep'
  BY <1>1, <1>2 DEF PInv, OneLoadPerStep
<1>6a. new \in pfLoads' /\ new.w = w /\ \A l \in pfLoads : l \in pfLoads' /\ l.id # new.id
  BY <1>1, <1>2
<1> HIDE DEF new
<1>7. UnderWay(w)'
  BY <1>6a DEF UnderWay
<1>8. UnderWay(w) => TwoUnderWay(w)'
  <2> SUFFICES ASSUME NEW l \in pfLoads, l.w = w PROVE TwoUnderWay(w)'
    BY DEF UnderWay
  <2> QED BY <1>6a DEF TwoUnderWay
<1>9. StillToCome(w)'
  <2>1. StillToCome(w) /\ pfHint'[w] = hint /\ pfLast'[w] = last
    BY <1>0 DEF PInv, PTypes
  <2>2. NewestGen(w)' /\ Placed(w)'
    BY <1>7, <2>1 DEF StillToCome, NewestGen, Placed
  <2>3. Fits(w, pfHint[w])' \/ TwoUnderWay(w)'
    BY <1>8, <2>1 DEF StillToCome, Directed, Fits
  <2> QED BY <1>7, <2>2, <2>3 DEF StillToCome, Directed
<1>10. ASSUME NEW v \in PfWindows \ pfClosed, v # w PROVE StillToCome(v)'
  <2>1. StillToCome(v)
    BY DEF PInv
  <2>2. {l \in pfLoads' : l.w = v} = {l \in pfLoads : l.w = v}
    BY <1>2, <1>6a, <1>10
  <2> QED BY <1>0, <1>10, <2>1, <2>2, OthersStay DEF PTypes
<1> QED BY <1>4, <1>5, <1>6, <1>9, <1>10 DEF PInv

LEMMA FieldKeeps ==
    ASSUME PInv, NEW l \in pfLoads, FieldLoaded(l)
    PROVE  PInv'
<1> DEFINE end == [l EXCEPT !.kind = "end"]
           w == l.w
<1>0. PTypes /\ w \in PfWindows
  BY DEF PInv, PTypes, LoadRecords
<1>1. /\ pfLoads' = (pfLoads \ {l}) \cup {end} /\ end \in LoadRecords /\ end.w = w /\ end.id = l.id
      /\ UNCHANGED <<pfAt, pfLast, pfDone, pfClosed, pfSteps>>
  <2>1. pfLoads' = (pfLoads \ {l}) \cup {end} /\ UNCHANGED <<pfAt, pfLast, pfDone, pfClosed, pfSteps>>
    BY DEF FieldLoaded
  <2>2. l \in LoadRecords
    BY <1>0 DEF PTypes
  <2>3. end \in LoadRecords /\ end.w = w /\ end.id = l.id
    BY <2>2 DEF LoadRecords
  <2> QED BY <2>1, <2>3
<1> HIDE DEF end
<1>2. LoadRecords' = LoadRecords /\ pfLoads' \subseteq LoadRecords
  BY <1>0, <1>1 DEF LoadRecords, PTypes
<1>3. OneLoadPerStep'
  BY <1>1 DEF PInv, OneLoadPerStep
<1>4. UnderWay(w)'
  <2>1. end \in pfLoads' /\ end.w = w
    BY <1>1
  <2> QED BY <2>1 DEF UnderWay
<1>5. \A v \in PfWindows : UnderWay(v) <=> UnderWay(v)'
  BY <1>1 DEF UnderWay
<1>6. \A v \in PfWindows : TwoUnderWay(v) => TwoUnderWay(v)'
  BY <1>1 DEF TwoUnderWay
<1>7. CASE Scheduled(w, 1, pfHint[w])
  <2>0. pfHint[w] \in Hints
    BY <1>0 DEF PTypes
  <2>1. /\ pfGen' \in [PfWindows -> Nat] /\ pfTimer' \in [PfWindows -> [gen : Nat, dirs : Hints]]
        /\ pfHint' \in [PfWindows -> Hints]
        /\ pfGen'[w] = pfGen[w] + 1 /\ pfTimer'[w] = [gen |-> pfGen[w] + 1, dirs |-> pfHint[w]]
        /\ pfHint'[w] = AllDirs /\ pfTimer'[w] # NoTimer
        /\ \A v \in PfWindows \ {w} :
             pfGen'[v] = pfGen[v] /\ pfTimer'[v] = pfTimer[v] /\ pfHint'[v] = pfHint[v]
        /\ w \in pfClosed => pfLate' = pfLate \cup {w}
        /\ w \notin pfClosed => pfLate' = pfLate
    BY <1>0, <1>7, <2>0, ScheduledFor
  <2>2. PTypes'
    BY <1>0, <1>1, <1>2, <2>1 DEF PTypes
  <2>3. GensCounted'
    <3> SUFFICES ASSUME NEW v \in PfWindows
                 PROVE pfTimer'[v].gen <= pfGen'[v] /\ pfDone'[v].gen <= pfGen'[v]
      BY DEF GensCounted
    <3>1. /\ pfTimer[v].gen <= pfGen[v] /\ pfDone[v].gen <= pfGen[v] /\ pfDone'[v] = pfDone[v]
          /\ pfGen[v] \in Nat /\ pfDone[v].gen \in Nat
      BY <1>0, <1>1 DEF PInv, GensCounted, PTypes
    <3>2. CASE v = w
      <4>1. pfTimer'[v].gen = pfGen[v] + 1 /\ pfGen'[v] = pfGen[v] + 1
        BY <2>1, <3>2
      <4> QED BY <3>1, <4>1
    <3>3. CASE v # w
      BY <2>1, <3>1, <3>3
    <3> QED BY <3>2, <3>3
  <2>4. NoDeadTimers'
    BY <1>0, <1>1, <2>1 DEF PInv, NoDeadTimers, PTypes
  <2>5. ASSUME w \notin pfClosed PROVE StillToCome(w)'
    <3>1. NewestGen(w)' /\ Placed(w)'
      BY <2>1 DEF NewestGen, Placed
    <3> QED BY <1>4, <2>1, <3>1 DEF StillToCome, Directed, Fits
  <2>6. ASSUME NEW v \in PfWindows \ pfClosed, v # w PROVE StillToCome(v)'
    <3>1. StillToCome(v) /\ {m \in pfLoads' : m.w = v} = {m \in pfLoads : m.w = v}
      BY <1>1, <2>6 DEF PInv
    <3> QED BY <1>1, <2>1, <2>6, <3>1, OthersStay
  <2> QED BY <1>1, <1>3, <2>2, <2>3, <2>4, <2>5, <2>6 DEF PInv
<1>8. CASE UNCHANGED <<pfGen, pfTimer, pfHint, pfLate>>
  <2>1. ASSUME NEW v \in PfWindows \ pfClosed PROVE StillToCome(v)'
    <3>1. StillToCome(v)
      BY DEF PInv
    <3> QED BY <1>1, <1>5, <1>6, <1>8, <3>1 DEF StillToCome, NewestGen, Placed, Directed, Fits
  <2> QED BY <1>0, <1>1, <1>2, <1>3, <1>8, <2>1 DEF PInv, PTypes, GensCounted, NoDeadTimers
<1> QED BY <1>7, <1>8 DEF FieldLoaded

LEMMA EndKeeps ==
    ASSUME PInv, NEW l \in pfLoads, LoadEnds(l)
    PROVE  PInv'
<1> DEFINE w == l.w
           n == IF l.again THEN 2 ELSE 1
           dirs == IF l.again THEN AllDirs ELSE pfHint[w]
<1>0. PTypes /\ w \in PfWindows /\ l.again \in BOOLEAN
  BY DEF PInv, PTypes, LoadRecords
<1>1. pfLoads' = pfLoads \ {l} /\ UNCHANGED <<pfAt, pfLast, pfDone, pfClosed, pfSteps>>
  BY DEF LoadEnds
<1>2. Scheduled(w, n, dirs) /\ n \in 1 .. 2 /\ dirs \in Hints
  BY <1>0 DEF LoadEnds, HintAfter, PTypes, Hints
<1> HIDE DEF n, dirs
<1>3. /\ pfGen' \in [PfWindows -> Nat] /\ pfTimer' \in [PfWindows -> [gen : Nat, dirs : Hints]]
      /\ pfHint' \in [PfWindows -> Hints]
      /\ pfGen'[w] = pfGen[w] + n /\ pfTimer'[w] = [gen |-> pfGen[w] + n, dirs |-> dirs]
      /\ pfHint'[w] = AllDirs /\ pfTimer'[w] # NoTimer
      /\ \A v \in PfWindows \ {w} :
           pfGen'[v] = pfGen[v] /\ pfTimer'[v] = pfTimer[v] /\ pfHint'[v] = pfHint[v]
      /\ w \in pfClosed => pfLate' = pfLate \cup {w}
      /\ w \notin pfClosed => pfLate' = pfLate
  BY <1>0, <1>2, ScheduledFor
<1>4. PTypes'
  BY <1>0, <1>1, <1>3 DEF PTypes, LoadRecords
<1>5. GensCounted' /\ NoDeadTimers' /\ OneLoadPerStep'
  <2>1. GensCounted'
    BY <1>0, <1>1, <1>2, <1>3 DEF PInv, GensCounted, PTypes
  <2>2. NoDeadTimers'
    BY <1>0, <1>1, <1>3 DEF PInv, NoDeadTimers, PTypes
  <2>3. OneLoadPerStep'
    BY <1>1 DEF PInv, OneLoadPerStep
  <2> QED BY <2>1, <2>2, <2>3
<1>6. TwoUnderWay(w) => UnderWay(w)'
  BY <1>1 DEF TwoUnderWay, UnderWay
<1>7. ASSUME w \notin pfClosed PROVE StillToCome(w)'
  <2>1. NewestGen(w)' /\ Placed(w)'
    BY <1>3 DEF NewestGen, Placed
  <2>2. dirs \in {AllDirs, pfLast'[w]} \/ UnderWay(w)'
    <3>1. StillToCome(w)
      BY <1>0, <1>7 DEF PInv
    <3> QED BY <1>1, <1>6, <3>1 DEF StillToCome, Directed, Fits, dirs
  <2>3. pfTimer'[w].dirs = dirs
    BY <1>3
  <2>4. Fits(w, pfTimer[w].dirs)' \/ UnderWay(w)'
    BY <2>2, <2>3 DEF Fits
  <2>5. pfHint'[w] = AllDirs /\ pfTimer'[w] # NoTimer
    BY <1>3
  <2> QED BY <2>1, <2>4, <2>5 DEF StillToCome, Directed, Fits
<1>8. ASSUME NEW v \in PfWindows \ pfClosed, v # w PROVE StillToCome(v)'
  <2>1. StillToCome(v) /\ {m \in pfLoads' : m.w = v} = {m \in pfLoads : m.w = v}
    BY <1>1, <1>8 DEF PInv
  <2> QED BY <1>1, <1>3, <1>8, <2>1, OthersStay
<1> QED BY <1>1, <1>4, <1>5, <1>7, <1>8 DEF PInv

LEMMA FireKeeps ==
    ASSUME PInv, NEW w \in PfWindows, Fire(w)
    PROVE  PInv'
<1> DEFINE done == [at |-> pfAt[w], gen |-> pfTimer[w].gen,
                    dirs |-> IF pfTimer[w].dirs # AllDirs THEN pfTimer[w].dirs ELSE pfHint[w]]
<1>0. PTypes /\ done \in [at : Int, dirs : Hints, gen : Nat] /\ NoTimer \in [gen : Nat, dirs : Hints]
  BY DEF PInv, PTypes, NoTimer, Hints
<1>1. /\ pfTimer[w] # NoTimer /\ pfTimer' = [pfTimer EXCEPT ![w] = NoTimer]
      /\ pfDone' = [pfDone EXCEPT ![w] = done] /\ pfHint' = [pfHint EXCEPT ![w] = AllDirs]
      /\ UNCHANGED <<pfAt, pfLast, pfGen, pfLoads, pfClosed, pfLate, pfSteps>>
  BY DEF Fire
<1>2. pfTimer'[w] = NoTimer /\ pfDone'[w] = done /\ pfHint'[w] = AllDirs
  BY <1>0, <1>1 DEF PTypes
<1>3. \A v \in PfWindows \ {w} : pfTimer'[v] = pfTimer[v] /\ pfDone'[v] = pfDone[v] /\ pfHint'[v] = pfHint[v]
  BY <1>0, <1>1 DEF PTypes
<1>4. PTypes'
  BY <1>0, <1>1 DEF PTypes, LoadRecords, Hints
<1>5. GensCounted' /\ NoDeadTimers' /\ OneLoadPerStep'
  <2>1. GensCounted'
    BY <1>0, <1>1, <1>2, <1>3 DEF PInv, GensCounted, NoTimer, PTypes
  <2> QED BY <2>1, <1>0, <1>1, <1>2, <1>3 DEF PInv, NoDeadTimers, OneLoadPerStep, PTypes
<1>6. ASSUME w \notin pfClosed PROVE StillToCome(w)'
  <2>1. StillToCome(w)
    BY <1>6 DEF PInv
  <2>2. NewestGen(w)' /\ Placed(w)'
    BY <1>1, <1>2, <2>1 DEF StillToCome, NewestGen, Placed
  <2>3. UnderWay(w)' <=> UnderWay(w)
    BY <1>1 DEF UnderWay
  <2>4. Fits(w, pfDone[w].dirs)' \/ UnderWay(w)'
    <3>1. done.dirs \in {AllDirs, pfLast'[w]} \/ UnderWay(w)
      BY <1>1, <2>1 DEF StillToCome, Directed, Fits
    <3>2. pfDone'[w].dirs = done.dirs
      BY <1>2
    <3> QED BY <2>3, <3>1, <3>2 DEF Fits
  <2>5. NoTimer.dirs = AllDirs
    BY DEF NoTimer
  <2> QED BY <1>2, <2>2, <2>4, <2>5 DEF StillToCome, Directed, Fits
<1>7. ASSUME NEW v \in PfWindows \ pfClosed, v # w PROVE StillToCome(v)'
  <2>1. StillToCome(v)
    BY DEF PInv
  <2> QED BY <1>1, <1>3, <1>7, <2>1, OthersStay
<1> QED BY <1>1, <1>4, <1>5, <1>6, <1>7 DEF PInv

LEMMA CloseKeeps ==
    ASSUME PInv, NEW w \in PfWindows, Close(w)
    PROVE  PInv'
<1>0. PTypes /\ NoTimer \in [gen : Nat, dirs : Hints] /\ NoTimer.gen = 0
  BY DEF PInv, NoTimer, Hints
<1>1. /\ pfTimer' = [pfTimer EXCEPT ![w] = NoTimer] /\ pfHint' = [pfHint EXCEPT ![w] = AllDirs]
      /\ pfClosed' = pfClosed \cup {w} /\ UNCHANGED <<pfAt, pfLast, pfGen, pfLoads, pfDone, pfLate, pfSteps>>
  BY DEF Close
<1>2. PTypes'
  BY <1>0, <1>1 DEF PTypes, LoadRecords, Hints
<1>3. GensCounted' /\ NoDeadTimers' /\ OneLoadPerStep'
  BY <1>0, <1>1 DEF PInv, GensCounted, NoDeadTimers, OneLoadPerStep, PTypes
<1>4. ASSUME NEW v \in PfWindows \ pfClosed' PROVE StillToCome(v)'
  <2>1. StillToCome(v) /\ v # w
    BY <1>1, <1>4 DEF PInv
  <2>2. pfTimer'[v] = pfTimer[v] /\ pfHint'[v] = pfHint[v]
    BY <1>0, <1>1, <2>1 DEF PTypes
  <2> QED BY <1>1, <2>1, <2>2, OthersStay
<1> QED BY <1>2, <1>3, <1>4 DEF PInv

LEMMA PInvInit == PfInit => PInv
<1> SUFFICES ASSUME PfInit PROVE PInv
  OBVIOUS
<1>1. PTypes
  BY ClientPrefetchAssumption DEF PfInit, PTypes, Hints, LoadRecords, NoTimer, NoPrefetch
<1>2. GensCounted /\ OneLoadPerStep /\ NoDeadTimers
  BY DEF PfInit, GensCounted, OneLoadPerStep, NoDeadTimers, NoTimer, NoPrefetch
<1>3. \A w \in PfWindows : StillToCome(w)
  BY DEF PfInit, StillToCome, NewestGen, Placed, Directed, Fits, NoTimer, NoPrefetch
<1> QED BY <1>1, <1>2, <1>3 DEF PInv

LEMMA PInvStep == PInv /\ [PfNext]_pfVars => PInv'
<1> SUFFICES ASSUME PInv, [PfNext]_pfVars PROVE PInv'
  OBVIOUS
<1>0. PTypes
  BY DEF PInv
<1>1. ASSUME NEW w \in PfWindows, NEW dirs \in Dirs \cup {AllDirs}, StepWindow(w, dirs) PROVE PInv'
  <2>1. dirs \in Hints
    BY DEF Hints
  <2> QED BY <1>1, <2>1, StepKeeps DEF StepWindow
<1>2. ASSUME NEW w \in PfWindows, NEW again \in BOOLEAN, StepLevel(w, again) PROVE PInv'
  <2>1. pfHint[w] \in Hints /\ pfHint' = [pfHint EXCEPT ![w] = pfHint[w]]
    BY <1>0, <1>2 DEF PTypes, StepLevel
  <2> QED BY <1>2, <2>1, StepKeeps DEF StepLevel
<1>3. CASE UNCHANGED pfVars
  BY <1>3 DEF pfVars, PInv, PTypes, LoadRecords, GensCounted, OneLoadPerStep, NoDeadTimers,
              StillToCome, NewestGen, Placed, Directed, Fits, UnderWay, TwoUnderWay
<1> QED BY <1>1, <1>2, <1>3, FieldKeeps, EndKeeps, FireKeeps, CloseKeeps DEF PfNext

(* In every state the hints are directions, the generations of timers and  *)
(* prefetches have been counted, and loads are those of open windows' steps. *)
THEOREM PrefetchTypeCorrect == PfSpec => []PfTypeOK
<1>1. PInv => PfTypeOK
  BY ClientPrefetchAssumption DEF PInv, PTypes, GensCounted, LoadRecords, Hints, PfTypeOK
<1> QED BY PInvInit, PInvStep, <1>1, PTL DEF PfSpec

LEMMA SettledFollows == PInv => PrefetchSound
<1> SUFFICES ASSUME PInv, NEW w \in PfWindows \ pfClosed, Settled(w), pfAt[w] > 0
             PROVE  /\ pfDone[w].at = pfAt[w] /\ pfDone[w].gen = pfGen[w]
                    /\ pfDone[w].dirs \in {AllDirs, pfLast[w]} /\ pfHint[w] = AllDirs
  BY DEF PrefetchSound, NeighboursWarmed, PInv
<1>1. StillToCome(w) /\ ~ UnderWay(w) /\ pfTimer[w] = NoTimer /\ pfAt[w] \in Nat
  BY DEF PInv, PTypes, Settled, UnderWay
<1> QED BY <1>1 DEF StillToCome, NewestGen, Placed, Directed, Fits

(* However steps, loads and timers of a window overlap, once it has        *)
(* settled its last prefetch was made where it is, is of the newest        *)
(* generation and is not restricted to a side an earlier step went to; and *)
(* a closed window has no timer unless a load of it ended after the close  *)
(* (prefetchService.js, schedulePrefetch).                                 *)
THEOREM SettledIsWarmed == PfSpec => []PrefetchSound
  BY PInvInit, PInvStep, SettledFollows, PTL DEF PfSpec

-----------------------------------------------------------------------------
(* The cache of the data: apiClient.js                                    *)

Cached == [url : Urls, of : Fields \cup ListingUrls, got : Nat, until : Nat, copy : BOOLEAN]
EntrySound(e, now) == e.of = e.url[1] /\ e.got <= now /\ e.until = e.got + TimeToLive
(* An url has one entry.                                                   *)
Distinct(cache) == \A i, j \in DOMAIN cache : i # j => cache[i].url # cache[j].url
FieldsIn(cache) == {cache[i].url[1] : i \in DOMAIN cache}
FetchedUrls(cache) == {cache[i].url : i \in {j \in DOMAIN cache : ~cache[j].copy}}
Few(S) == IsFiniteSet(S) /\ Cardinality(S) <= MaxEntries
CacheOK(cache, now) ==
    /\ cache \in Seq(Cached)
    /\ \A i \in DOMAIN cache : EntrySound(cache[i], now)
    /\ Distinct(cache)
    /\ Few(FieldsIn(cache)) /\ Few(FetchedUrls(cache))
-----------------------------------------------------------------------------
(* The rank of a place tells it apart.                                    *)
RankIn(K, i) == Cardinality({k \in K : k <= i})
LEMMA RanksDiffer ==
    ASSUME NEW K \in SUBSET Nat, IsFiniteSet(K), NEW i \in K
    PROVE  /\ RankIn(K, i) \in 1 .. Cardinality(K)
           /\ \A j \in K : RankIn(K, i) = RankIn(K, j) => i = j
<1> DEFINE UpTo(x) == {k \in K : k <= x}
<1>1. ASSUME NEW x \in K PROVE IsFiniteSet(UpTo(x)) /\ Cardinality(UpTo(x)) \in 1 .. Cardinality(K)
  <2>1. UpTo(x) \in SUBSET K /\ x \in UpTo(x)
    OBVIOUS
  <2>2. IsFiniteSet(UpTo(x)) /\ Cardinality(UpTo(x)) <= Cardinality(K)
    BY <2>1, FS_Subset
  <2>3. Cardinality(UpTo(x)) # 0
    BY <2>1, <2>2, FS_EmptySet
  <2>4. Cardinality(UpTo(x)) \in Nat /\ Cardinality(K) \in Nat
    BY <2>2, FS_CardinalityType
  <2> HIDE DEF UpTo
  <2> QED BY <2>2, <2>3, <2>4
<1>2. ASSUME NEW x \in K, NEW y \in K, x < y PROVE Cardinality(UpTo(x)) # Cardinality(UpTo(y))
  <2>0. x \in Nat /\ y \in Nat /\ \A k \in K : k \in Nat
    OBVIOUS
  <2>1. UpTo(x) \in SUBSET UpTo(y) /\ y \in UpTo(y) /\ y \notin UpTo(x)
    <3>1. \A k \in K : k <= x => k <= y
      BY ONLY <1>2, <2>0
    <3>2. ~(y <= x) /\ y <= y
      BY ONLY <1>2, <2>0
    <3> QED BY <3>1, <3>2
  <2> QED BY <2>1, <1>1, FS_Subset
<1>3. ASSUME NEW j \in K, Cardinality(UpTo(i)) = Cardinality(UpTo(j)) PROVE i = j
  <2>1. ~(i < j) /\ ~(j < i)
    BY <1>3, <1>2
  <2>2. i \in Nat /\ j \in Nat
    OBVIOUS
  <2> QED BY ONLY <2>1, <2>2
<1> QED BY <1>1, <1>3 DEF RankIn

(* There is a place of every rank.                                         *)
LEMMA RanksFound ==
    ASSUME NEW K \in SUBSET Nat, IsFiniteSet(K), NEW n \in 1 .. Cardinality(K)
    PROVE  \E i \in K : RankIn(K, i) = n
<1> DEFINE rank == [i \in K |-> RankIn(K, i)]
<1>1. rank \in Injection(K, 1 .. Cardinality(K))
  <2>1. rank \in [K -> 1 .. Cardinality(K)]
    BY RanksDiffer
  <2>2. ASSUME NEW i \in K, NEW j \in K, rank[i] = rank[j] PROVE i = j
    BY <2>2, RanksDiffer
  <2> HIDE DEF rank
  <2> QED BY <2>1, <2>2 DEF Injection, IsInjective
<1>2. IsFiniteSet(1 .. Cardinality(K)) /\ Cardinality(1 .. Cardinality(K)) = Cardinality(K)
  BY FS_CardinalityType, FS_Interval
<1>3. rank \in Surjection(K, 1 .. Cardinality(K))
  <2> HIDE DEF rank
  <2> QED BY <1>1, <1>2, FS_Injection
<1>4. PICK i \in K : rank[i] = n
  <2> HIDE DEF rank
  <2> QED BY <1>3 DEF Surjection
<1> QED BY <1>4

MembersOf(s) == {s[i] : i \in DOMAIN s}

(* What is left of a sequence: the elements at the places kept, each once. *)
LEMMA LeftOf ==
    ASSUME NEW S, NEW s \in Seq(S), NEW K \in SUBSET DOMAIN s
    PROVE  /\ OnlyAt(s, K) \in Seq(S)
           /\ MembersOf(OnlyAt(s, K)) = {s[i] : i \in K}
           /\ \A m, n \in DOMAIN OnlyAt(s, K) : m # n =>
                  \E i, j \in K : i # j /\ OnlyAt(s, K)[m] = s[i] /\ OnlyAt(s, K)[n] = s[j]
           /\ K # {} => Len(OnlyAt(s, K)) >= 1
<1> DEFINE place(n) == CHOOSE i \in K : Cardinality({j \in K : j <= i}) = n
           d == OnlyAt(s, K)
<1>1. DOMAIN s = 1 .. Len(s) /\ Len(s) \in Nat
  OBVIOUS
<1>2. IsFiniteSet(K) /\ Cardinality(K) \in Nat /\ K \in SUBSET Nat
  <2>1. IsFiniteSet(1 .. Len(s))
    BY <1>1, FS_Interval
  <2>2. IsFiniteSet(K)
    BY <2>1, <1>1, FS_Subset
  <2> QED BY <2>2, <1>1, FS_CardinalityType
<1>3. \A n \in 1 .. Cardinality(K) : place(n) \in K /\ Cardinality({j \in K : j <= place(n)}) = n
  BY <1>2, RanksFound DEF RankIn
<1>4. d = [n \in 1 .. Cardinality(K) |-> s[place(n)]]
  BY DEF OnlyAt
<1>7. ASSUME NEW i \in K PROVE \E n \in 1 .. Cardinality(K) : place(n) = i
  <2> DEFINE n == RankIn(K, i)
  <2> HIDE DEF n, place
  <2>1. n \in 1 .. Cardinality(K) /\ \A j \in K : n = RankIn(K, j) => i = j
    BY <1>2, RanksDiffer DEF n
  <2>2. place(n) \in K /\ RankIn(K, place(n)) = n
    BY <2>1, <1>3 DEF RankIn
  <2>3. place(n) = i
    BY <2>1, <2>2
  <2> QED BY <2>1, <2>3
<1>8. \A m, n \in 1 .. Cardinality(K) : m # n => place(m) # place(n)
  BY <1>3
<1> HIDE DEF d, place
<1>5. DOMAIN d = 1 .. Cardinality(K) /\ \A n \in DOMAIN d : place(n) \in K /\ d[n] = s[place(n)]
  BY <1>3, <1>4
<1>6. d \in Seq(S) /\ Len(d) = Cardinality(K)
  <2>1. \A n \in 1 .. Cardinality(K) : d[n] \in S
    BY <1>5, <1>1
  <2> QED BY <2>1, <1>2, <1>5, <1>4
<1>9. MembersOf(d) = {s[i] : i \in K}
  <2>1. \A n \in DOMAIN d : d[n] \in {s[i] : i \in K}
    BY <1>5
  <2>2. \A i \in K : \E n \in DOMAIN d : d[n] = s[i]
    BY <1>5, <1>7
  <2> QED BY <2>1, <2>2 DEF MembersOf
<1>10. K # {} => Len(d) >= 1
  BY <1>2, <1>6, FS_EmptySet
<1>11. \A m, n \in DOMAIN d : m # n => \E i, j \in K : i # j /\ d[m] = s[i] /\ d[n] = s[j]
  BY <1>5, <1>8
<1> QED BY <1>6, <1>9, <1>10, <1>11 DEF d

LEMMA LeftOver ==
    ASSUME NEW s \in Seq(Cached), NEW K \in SUBSET DOMAIN s
    PROVE  /\ OnlyAt(s, K) \in Seq(Cached)
           /\ \A n \in DOMAIN OnlyAt(s, K) : \E i \in K : OnlyAt(s, K)[n] = s[i]
           /\ Distinct(s) => Distinct(OnlyAt(s, K))
<1> DEFINE d == OnlyAt(s, K)
<1>1. d \in Seq(Cached) /\ MembersOf(d) = {s[i] : i \in K}
  BY LeftOf
<1>2. \A m, n \in DOMAIN d : m # n => \E i, j \in K : i # j /\ d[m] = s[i] /\ d[n] = s[j]
  BY LeftOf
<1> HIDE DEF d
<1>3. \A n \in DOMAIN d : \E i \in K : d[n] = s[i]
  BY <1>1 DEF MembersOf
<1>4. Distinct(s) => Distinct(d)
  BY <1>2 DEF Distinct
<1> QED BY <1>1, <1>3, <1>4 DEF d

LEMMA FewerAreFew == ASSUME NEW S, NEW T \in SUBSET S, Few(S) PROVE Few(T)
<1>1. IsFiniteSet(T) /\ Cardinality(T) <= Cardinality(S)
  BY FS_Subset DEF Few
<1>2. Cardinality(T) \in Nat /\ Cardinality(S) \in Nat
  BY <1>1, FS_CardinalityType DEF Few
<1> QED BY <1>1, <1>2, ApiCacheAssumption DEF Few
LEMMA LeftOverOK ==
    ASSUME NEW c, NEW now, CacheOK(c, now), NEW K \in SUBSET DOMAIN c
    PROVE  CacheOK(OnlyAt(c, K), now)
<1> DEFINE d == OnlyAt(c, K)
<1>1. /\ d \in Seq(Cached)
      /\ \A n \in DOMAIN d : \E i \in K : d[n] = c[i]
      /\ Distinct(d)
  BY LeftOver DEF CacheOK
<1> HIDE DEF d
<1>2. FieldsIn(d) \in SUBSET FieldsIn(c) /\ FetchedUrls(d) \in SUBSET FetchedUrls(c)
  BY <1>1 DEF FieldsIn, FetchedUrls
<1>3. Few(FieldsIn(d)) /\ Few(FetchedUrls(d))
  BY <1>2, FewerAreFew DEF CacheOK
<1>4. \A n \in DOMAIN d : EntrySound(d[n], now)
  BY <1>1 DEF CacheOK
<1>5. CacheOK(d, now)
  BY <1>1, <1>3, <1>4 DEF CacheOK
<1> QED BY <1>5 DEF d
LEMMA DeletedOK ==
    ASSUME NEW c, NEW now, CacheOK(c, now), NEW url
    PROVE  /\ CacheOK(Deleted(c, url), now)
           /\ \A n \in DOMAIN Deleted(c, url) :
                 Deleted(c, url)[n].url # url /\ \E i \in DOMAIN c : Deleted(c, url)[n] = c[i]
<1> DEFINE K == {i \in DOMAIN c : c[i].url # url}
<1>1. CacheOK(OnlyAt(c, K), now)
  BY LeftOverOK
<1>2. c \in Seq(Cached) /\ K \in SUBSET DOMAIN c
  BY DEF CacheOK
<1> HIDE DEF K
<1>3. \A n \in DOMAIN OnlyAt(c, K) : \E i \in K : OnlyAt(c, K)[n] = c[i]
  BY <1>2, LeftOver
<1> QED BY <1>1, <1>3 DEF Deleted, K
LEMMA ShortIsFew ==
    ASSUME NEW s \in Seq(Cached), Len(s) <= MaxEntries
    PROVE  Few(FieldsIn(s)) /\ Few(FetchedUrls(s))
<1> DEFINE Fetched == {i \in DOMAIN s : ~s[i].copy}
           f == [i \in DOMAIN s |-> s[i].url[1]]
           g == [i \in Fetched |-> s[i].url]
<1>1. DOMAIN s = 1 .. Len(s) /\ Len(s) \in Nat
  OBVIOUS
<1>2. IsFiniteSet(DOMAIN s) /\ Cardinality(DOMAIN s) = Len(s)
  BY <1>1, FS_Interval
<1>3. Few(DOMAIN s)
  BY <1>2 DEF Few
<1>4. Few(Fetched)
  BY <1>3, FewerAreFew
<1>5. f \in Surjection(DOMAIN s, FieldsIn(s))
  BY DEF Surjection, FieldsIn
<1>6. g \in Surjection(Fetched, FetchedUrls(s))
  BY DEF Surjection, FetchedUrls
<1> HIDE DEF Fetched, f, g
<1>7. \A S, T, h : Few(S) /\ h \in Surjection(S, T) => Few(T)
  <2> SUFFICES ASSUME NEW S, NEW T, NEW h \in Surjection(S, T), Few(S) PROVE Few(T)
    OBVIOUS
  <2>1. IsFiniteSet(T) /\ Cardinality(T) <= Cardinality(S)
    BY FS_Surjection DEF Few
  <2>2. Cardinality(T) \in Nat /\ Cardinality(S) \in Nat
    BY <2>1, FS_CardinalityType DEF Few
  <2> QED BY <2>1, <2>2, ApiCacheAssumption DEF Few
<1> QED BY <1>3, <1>4, <1>5, <1>6, <1>7
LEMMA StoredOK ==
    ASSUME NEW c, NEW now \in Nat, CacheOK(c, now), NEW url \in Urls
    PROVE  CacheOK(Stored(c, url, now), now)
<1> DEFINE entry == [url |-> url, of |-> url[1], got |-> now, until |-> now + TimeToLive, copy |-> FALSE]
           all == IF url \in Keys(c)
                  THEN [i \in DOMAIN c |-> IF c[i].url = url THEN entry ELSE c[i]]
                  ELSE Append(c, entry)
           last == SubSeq(all, Len(all) - MaxEntries + 1, Len(all))
<1>1. c \in Seq(Cached) /\ DOMAIN c = 1 .. Len(c) /\ Len(c) \in Nat
  BY DEF CacheOK
<1>2. entry \in Cached /\ EntrySound(entry, now) /\ entry.url = url
  BY ApiCacheAssumption DEF Cached, EntrySound, Urls
<1> HIDE DEF entry
<1>3. all \in Seq(Cached)
  BY <1>1, <1>2
<1>4. Distinct(all) /\ \A i \in DOMAIN all : EntrySound(all[i], now)
  <2>1. CASE url \in Keys(c)
    BY <2>1, <1>1, <1>2 DEF Keys, Distinct, CacheOK
  <2>2. CASE url \notin Keys(c)
    <3>1. /\ all = Append(c, entry) /\ DOMAIN all = 1 .. Len(c) + 1
          /\ \A i \in 1 .. Len(c) : all[i] = c[i] /\ c[i].url # url
          /\ all[Len(c) + 1] = entry
      BY <2>2, <1>1 DEF Keys
    <3> HIDE DEF all
    <3>2. \A i \in DOMAIN all : i \in DOMAIN c \/ i = Len(c) + 1
      BY <3>1, <1>1
    <3> QED BY <3>1, <3>2, <1>1, <1>2 DEF Distinct, CacheOK
  <2> QED BY <2>1, <2>2
<1> HIDE DEF all
<1>5. CASE Len(all) <= MaxEntries
  <2>1. CacheOK(all, now)
    BY <1>3, <1>4, <1>5, ShortIsFew DEF CacheOK
  <2>2. Stored(c, url, now) = all
    BY <1>5 DEF Stored, all, entry
  <2> QED BY <2>1, <2>2
<1>6. CASE ~(Len(all) <= MaxEntries)
  <2>1. Len(all) \in Nat /\ MaxEntries \in Nat /\ DOMAIN all = 1 .. Len(all)
    BY <1>3, ApiCacheAssumption
  <2>2. /\ last \in Seq(Cached) /\ Len(last) = MaxEntries
        /\ \A i \in 1 .. MaxEntries : last[i] = all[Len(all) - MaxEntries + i]
    BY <2>1, <1>3, <1>6
  <2>3. \A i \in DOMAIN last : Len(all) - MaxEntries + i \in DOMAIN all
    BY <2>1, <2>2, <1>6
  <2>4. DOMAIN last = 1 .. MaxEntries
    BY <2>2
  <2>5. Stored(c, url, now) = last
    BY <1>6 DEF Stored, all, entry
  <2> HIDE DEF last
  <2>6. Distinct(last)
    <3> SUFFICES ASSUME NEW i \in DOMAIN last, NEW j \in DOMAIN last, i # j PROVE last[i].url # last[j].url
      BY DEF Distinct
    <3>1. Len(all) - MaxEntries + i # Len(all) - MaxEntries + j
      BY <2>1, <2>4
    <3> QED BY <3>1, <2>2, <2>3, <2>4, <1>4 DEF Distinct
  <2>7. \A i \in DOMAIN last : EntrySound(last[i], now)
    BY <2>2, <2>3, <2>4, <1>4
  <2>8. CacheOK(last, now)
    BY <2>1, <2>2, <2>6, <2>7, ShortIsFew DEF CacheOK
  <2> QED BY <2>5, <2>8
<1> QED BY <1>5, <1>6
LEMMA HitFound ==
    ASSUME NEW c, NEW now, CacheOK(c, now), NEW url \in Urls, NEW key \in CacheHit(c, url)
    PROVE  /\ \E i \in DOMAIN c : EntryOf(c, key) = c[i] /\ c[i].url = key
           /\ key \in Keys(c) /\ key[1] = url[1] /\ (url \in Keys(c) => key = url)
<1>1. key \in Keys(c) /\ key[1] = url[1] /\ (url \in Keys(c) => key = url)
  BY DEF CacheHit, Alias
<1> QED BY <1>1 DEF Keys, EntryOf
LEMMA TouchedOK ==
    ASSUME NEW c, NEW now \in Nat, CacheOK(c, now), NEW url \in Urls, NEW key \in CacheHit(c, url)
    PROVE  CacheOK(Touched(c, url, key), now)
<1> DEFINE d == Deleted(c, url)
           hit == EntryOf(c, key)
           e1 == [hit EXCEPT !.url = url]
           e == [e1 EXCEPT !.copy = hit.copy \/ key # url]
           all == Append(d, e)
<1>1. PICK k \in DOMAIN c : hit = c[k] /\ c[k].url = key
  BY HitFound
<1>2. hit \in Cached /\ EntrySound(hit, now) /\ hit.url = key
  BY <1>1 DEF CacheOK
<1>3. key[1] = url[1] /\ (url \in Keys(c) => key = url)
  BY HitFound
<1> HIDE DEF hit
<1>4. e1 \in Cached /\ e1.url = url /\ e1.of = hit.of /\ e1.got = hit.got /\ e1.until = hit.until
  BY <1>2 DEF Cached
<1> HIDE DEF e1
<1>5. /\ e \in Cached /\ e.url = url /\ e.of = hit.of /\ e.got = hit.got /\ e.until = hit.until
      /\ ~e.copy => ~hit.copy /\ key = url
  BY <1>4 DEF Cached
<1> HIDE DEF e
<1>6. CacheOK(d, now) /\ \A n \in DOMAIN d : d[n].url # url /\ \E i \in DOMAIN c : d[n] = c[i]
  BY DeletedOK
<1>7. d \in Seq(Cached) /\ Len(d) \in Nat /\ DOMAIN d = 1 .. Len(d)
  BY <1>6 DEF CacheOK
<1> HIDE DEF d
<1>8. /\ all \in Seq(Cached) /\ DOMAIN all = 1 .. Len(d) + 1
      /\ \A i \in 1 .. Len(d) : all[i] = d[i]
      /\ all[Len(d) + 1] = e
  BY <1>5, <1>7
<1> HIDE DEF all
<1>9. \A i \in DOMAIN all : (i \in DOMAIN d /\ all[i] = d[i]) \/ (i = Len(d) + 1 /\ all[i] = e)
  BY <1>7, <1>8
<1>10. \A i \in DOMAIN all : EntrySound(all[i], now)
  BY <1>9, <1>6, <1>5, <1>3, <1>2 DEF EntrySound, CacheOK
<1>11. Distinct(all)
  BY <1>9, <1>6, <1>5 DEF Distinct, CacheOK
<1>12. FieldsIn(all) \in SUBSET FieldsIn(c)
  BY <1>9, <1>6, <1>5, <1>3, <1>1 DEF FieldsIn
<1>13. FetchedUrls(all) \in SUBSET FetchedUrls(c)
  BY <1>9, <1>6, <1>5, <1>1 DEF FetchedUrls
<1>14. Few(FieldsIn(all)) /\ Few(FetchedUrls(all))
  BY <1>12, <1>13, FewerAreFew DEF CacheOK
<1>15. CacheOK(all, now)
  BY <1>8, <1>10, <1>11, <1>14 DEF CacheOK
<1>16. Touched(c, url, key) = all
  BY DEF Touched, all, d, e, e1, hit
<1> QED BY <1>15, <1>16

LEMMA CapFollows == CacheOK(acCache, acNow) => CapKept
<1> SUFFICES ASSUME CacheOK(acCache, acNow) PROVE CapKept
  OBVIOUS
<1> DEFINE c == acCache
           Fetched == {i \in DOMAIN c : ~c[i].copy}
           Places == DOMAIN c
           f == [i \in Fetched |-> c[i].url]
           g == [i \in Places |-> c[i].url]
           Kinds == {"bare", "level"}
<1>1. c \in Seq(Cached) /\ Places = 1 .. Len(c) /\ Len(c) \in Nat
  BY DEF CacheOK
<1>2. IsFiniteSet(Places) /\ Cardinality(Places) = Len(c)
  BY <1>1, FS_Interval
<1>3. Distinct(c) /\ Few(FieldsIn(c)) /\ Few(FetchedUrls(c))
  BY DEF CacheOK
<1>4. f \in Injection(Fetched, FetchedUrls(c))
  BY <1>3 DEF Injection, IsInjective, FetchedUrls, Distinct
<1>5. \A i \in Places : c[i].url \in FieldsIn(c) \X Kinds
  <2> TAKE i \in Places
  <2>0. c[i] \in Cached
    BY <1>1
  <2>1. c[i].url \in Urls
    BY <2>0 DEF Cached
  <2>2. c[i].url = <<c[i].url[1], c[i].url[2]>> /\ c[i].url[2] \in Kinds
    BY <2>1 DEF Urls
  <2> QED BY <2>2 DEF FieldsIn
<1>6. g \in Injection(Places, FieldsIn(c) \X Kinds)
  BY <1>3, <1>5 DEF Injection, IsInjective, Distinct
<1>7. IsFiniteSet(Kinds) /\ Cardinality(Kinds) = 2
  <2>1. Kinds = {"bare"} \cup {"level"} /\ "level" \notin {"bare"}
    OBVIOUS
  <2>2. IsFiniteSet({"bare"}) /\ Cardinality({"bare"}) = 1
    BY FS_Singleton
  <2> QED BY <2>1, <2>2, FS_AddElement
<1> HIDE DEF f, g, Fetched, Kinds, Places
<1>8. Cardinality(Fetched) <= Cardinality(FetchedUrls(c))
  BY <1>4, <1>3, FS_Injection DEF Few
<1>9. /\ IsFiniteSet(FieldsIn(c) \X Kinds)
      /\ Cardinality(FieldsIn(c) \X Kinds) = Cardinality(FieldsIn(c)) * 2
  BY <1>3, <1>7, FS_Product DEF Few
<1>10. Cardinality(Places) <= Cardinality(FieldsIn(c)) * 2
  BY <1>6, <1>9, FS_Injection
<1>11. IsFiniteSet(Fetched)
  BY <1>4, <1>3, FS_Injection DEF Few
<1>12. /\ Cardinality(Fetched) \in Nat /\ Cardinality(FetchedUrls(c)) \in Nat
       /\ Cardinality(FieldsIn(c)) \in Nat
  BY <1>11, <1>3, FS_CardinalityType DEF Few
<1>13. Cardinality(Fetched) <= MaxEntries /\ Len(c) <= 2 * MaxEntries
  BY <1>2, <1>3, <1>8, <1>10, <1>12, ApiCacheAssumption DEF Few
<1> QED BY <1>3, <1>13 DEF CapKept, Distinct, Fetched

-----------------------------------------------------------------------------
(* The fetches under way                                                   *)

Fetching == [id : Nat, url : Urls, bypass : BOOLEAN]
FetchesOf(url) == {f \in acFetches : f.url = url}

FetchTypes ==
    /\ acFlight \in [Urls -> Nat] /\ acFetches \in SUBSET Fetching /\ IsFiniteSet(acFetches)
    /\ acJoined \in SUBSET [url : Urls, on : Nat]
    /\ acBypassed \in [Urls -> Nat] /\ acRequests \in 0 .. MaxRequests

(* A fetch has the number of the request that began it.                    *)
Told == /\ \A f \in acFetches : f.id \in 1 .. acRequests
        /\ \A f, g \in acFetches : f.id = g.id => f = g

RegisteredRuns ==
    \A url \in Urls : acFlight[url] # NoFetch =>
        \E f \in acFetches : f.id = acFlight[url] /\ f.url = url /\ ~f.bypass

(* Every fetch of an url that is not the registered one is owed to a fetch *)
(* past the cache: either it is one, or the end of one let it in.          *)
Owed ==
    \A url \in Urls :
        Cardinality(FetchesOf(url)) <= acBypassed[url] + (IF acFlight[url] = NoFetch THEN 0 ELSE 1)

AnswerOK ==
    \/ acAnswer = NoAnswer
    \/ /\ acAnswer.url \in Urls /\ acAnswer.of = acAnswer.url[1]
       /\ acAnswer.got \in Nat /\ acAnswer.got <= acNow /\ acNow - acAnswer.got <= TimeToLive

WarmOK ==
    /\ acWarm \in [Fields -> {-1} \cup 1 .. MaxTime + WarmedFor] /\ acTwice = FALSE
    /\ acNow \in 0 .. MaxTime

ACInv ==
    /\ FetchTypes /\ Told /\ RegisteredRuns /\ Owed /\ NobodyForgotten
    /\ CacheOK(acCache, acNow) /\ AnswerOK /\ WarmOK

LEMMA OwedEnough == FetchTypes /\ RegisteredRuns /\ Owed => FetchedOnce
<1> SUFFICES ASSUME FetchTypes, RegisteredRuns, Owed, NEW url \in Urls
             PROVE  LET plain == {f \in acFetches : f.url = url /\ ~f.bypass}
                    IN  /\ Cardinality(plain) <= 1 + acBypassed[url]
                        /\ acBypassed[url] = 0 => \A f \in plain : acFlight[url] = f.id
  BY DEF FetchedOnce
<1> DEFINE plain == {f \in acFetches : f.url = url /\ ~f.bypass}
           all == FetchesOf(url)
<1>1. plain \in SUBSET all /\ all \in SUBSET acFetches
  BY DEF FetchesOf
<1> HIDE DEF all
<1>2. IsFiniteSet(all) /\ Cardinality(all) \in Nat
  BY <1>1, FS_Subset, FS_CardinalityType DEF FetchTypes
<1>3. IsFiniteSet(plain) /\ Cardinality(plain) <= Cardinality(all)
  BY <1>1, <1>2, FS_Subset
<1>4. Cardinality(plain) \in Nat /\ acBypassed[url] \in Nat
  BY <1>3, FS_CardinalityType DEF FetchTypes
<1>5. Cardinality(all) <= acBypassed[url] + (IF acFlight[url] = NoFetch THEN 0 ELSE 1)
  BY DEF Owed, all
<1>6. Cardinality(plain) <= 1 + acBypassed[url]
  BY <1>2, <1>3, <1>4, <1>5
<1>7. ASSUME acBypassed[url] = 0, NEW f \in plain PROVE acFlight[url] = f.id
  <2>1. all # {} /\ f \in all
    BY <1>1
  <2>2. Cardinality(all) # 0
    BY <2>1, <1>2, FS_EmptySet
  <2>3. acFlight[url] # NoFetch /\ Cardinality(all) = 1
    BY <1>7, <1>2, <1>5, <2>2
  <2>4. PICK g \in acFetches : g.id = acFlight[url] /\ g.url = url
    BY <2>3 DEF RegisteredRuns
  <2>5. g \in all
    BY <2>4 DEF all, FetchesOf
  <2>6. \E x : all = {x}
    BY <2>3, <1>2, FS_Singleton
  <2> QED BY <2>1, <2>4, <2>5, <2>6
<1> QED BY <1>6, <1>7

LEMMA ACInvInit == AcInit => ACInv
<1> SUFFICES ASSUME AcInit PROVE ACInv
  OBVIOUS
<1>1. IsFiniteSet({}) /\ Cardinality({}) = 0
  BY FS_EmptySet
<1>2. FetchTypes /\ Told /\ RegisteredRuns /\ NobodyForgotten
  BY <1>1, ApiCacheAssumption DEF AcInit, FetchTypes, Told, RegisteredRuns, NobodyForgotten, NoFetch
<1>3. Owed
  <2>1. \A url \in Urls : FetchesOf(url) = {}
    BY DEF AcInit, FetchesOf
  <2>2. \A url \in Urls : acFlight[url] = NoFetch /\ acBypassed[url] = 0
    BY DEF AcInit
  <2> QED BY <2>1, <2>2, <1>1 DEF Owed
<1>4. FieldsIn(<<>>) = {} /\ FetchedUrls(<<>>) = {}
  BY DEF FieldsIn, FetchedUrls
<1>5. CacheOK(acCache, acNow)
  <2>1. acCache = <<>> /\ acNow = 0
    BY DEF AcInit
  <2>2. Few({})
    BY <1>1, ApiCacheAssumption DEF Few
  <2>3. <<>> \in Seq(Cached) /\ DOMAIN <<>> = {}
    OBVIOUS
  <2> QED BY <2>1, <2>2, <2>3, <1>4 DEF CacheOK, Distinct
<1>6. AnswerOK /\ WarmOK
  BY ApiCacheAssumption DEF AcInit, AnswerOK, WarmOK
<1> QED BY <1>2, <1>3, <1>5, <1>6 DEF ACInv

-----------------------------------------------------------------------------
(* The steps                                                               *)

FetchesStay == UNCHANGED <<acFlight, acFetches, acJoined, acBypassed>>

LEMMA FetchesKept ==
    ASSUME ACInv, FetchesStay, acRequests' \in 0 .. MaxRequests, acRequests <= acRequests'
    PROVE  FetchTypes' /\ Told' /\ RegisteredRuns' /\ Owed' /\ NobodyForgotten'
<1> USE DEF ACInv, FetchesStay
<1>1. FetchTypes'
  BY DEF FetchTypes
<1>2. Told'
  BY DEF Told, FetchTypes
<1>3. RegisteredRuns' /\ NobodyForgotten'
  BY DEF RegisteredRuns, NobodyForgotten
<1>4. Owed'
  BY DEF Owed, FetchesOf
<1> QED BY <1>1, <1>2, <1>3, <1>4

LEMMA CachedAnswerKeeps ==
    ASSUME ACInv, NEW url \in Urls, NEW key \in Urls, AnswerCached(url, key)
    PROVE  ACInv'
<1> USE DEF ACInv
<1>1. FetchTypes' /\ Told' /\ RegisteredRuns' /\ Owed' /\ NobodyForgotten'
  BY FetchesKept, ApiCacheAssumption DEF AnswerCached, FetchesStay, NewRequest, FetchTypes
<1>2. acNow' = acNow /\ acNow \in Nat /\ key \in CacheHit(acCache, url)
  BY DEF AnswerCached, WarmStays, WarmOK
<1>3. CacheOK(Touched(acCache, url, key), acNow)
  BY <1>2, TouchedOK
<1>4. CacheOK(acCache, acNow)'
  BY <1>2, <1>3 DEF AnswerCached
<1>5. AnswerOK'
  <2>1. PICK i \in DOMAIN acCache : EntryOf(acCache, key) = acCache[i] /\ acCache[i].url = key
    BY <1>2, HitFound
  <2>2. key[1] = url[1]
    BY <1>2, HitFound
  <2>3. acCache[i] \in Cached /\ EntrySound(acCache[i], acNow)
    BY DEF CacheOK
  <2>4. acNow <= acCache[i].until
    BY <2>1 DEF AnswerCached
  <2>5. acAnswer' = [url |-> url, of |-> acCache[i].of, got |-> acCache[i].got]
    BY <2>1 DEF AnswerCached
  <2>6. acCache[i].got \in Nat /\ acNow - acCache[i].got <= TimeToLive
    BY <2>3, <2>4, <1>2, ApiCacheAssumption DEF Cached, EntrySound
  <2> QED BY <1>2, <2>1, <2>2, <2>3, <2>5, <2>6 DEF AnswerOK, EntrySound
<1>6. WarmOK'
  BY DEF AnswerCached, WarmStays, WarmOK
<1> QED BY <1>1, <1>4, <1>5, <1>6

LEMMA JoinKeeps ==
    ASSUME ACInv, NEW url \in Urls, Join(url)
    PROVE  ACInv'
<1> USE DEF ACInv
<1>1. /\ acFlight[url] # NoFetch /\ acJoined' = acJoined \cup {[url |-> url, on |-> acFlight[url]]}
      /\ UNCHANGED <<acFlight, acFetches, acAnswer, acBypassed>> /\ acCache' = Deleted(acCache, url)
      /\ acRequests < MaxRequests /\ acRequests' = acRequests + 1
      /\ UNCHANGED <<acWarm, acTwice, acWarms, acNow>>
  BY DEF Join, NewRequest, WarmStays
<1>2. acNow \in Nat
  BY DEF WarmOK
<1>3. CacheOK(acCache, acNow)'
  BY <1>1, <1>2, DeletedOK
<1>4. FetchTypes' /\ Told'
  BY <1>1, ApiCacheAssumption DEF FetchTypes, Told
<1>5. RegisteredRuns'
  BY <1>1 DEF RegisteredRuns
<1>6. Owed'
  BY <1>1 DEF Owed, FetchesOf
<1>7. NobodyForgotten'
  BY <1>1 DEF NobodyForgotten, RegisteredRuns
<1>8. AnswerOK' /\ WarmOK'
  BY <1>1 DEF AnswerOK, WarmOK
<1> QED BY <1>3, <1>4, <1>5, <1>6, <1>7, <1>8

LEMMA FetchKeeps ==
    ASSUME ACInv, NEW url \in Urls, NEW bypass \in BOOLEAN, Fetch(url, bypass)
    PROVE  ACInv'
<1> USE DEF ACInv
<1> DEFINE id == acRequests + 1
           new == [id |-> id, url |-> url, bypass |-> bypass]
<1>1. /\ acFetches' = acFetches \cup {new}
      /\ acFlight' = IF bypass THEN acFlight ELSE [acFlight EXCEPT ![url] = id]
      /\ acBypassed' = IF bypass THEN [acBypassed EXCEPT ![url] = @ + 1] ELSE acBypassed
      /\ ~bypass => acFlight[url] = NoFetch
      /\ acRequests < MaxRequests /\ acRequests' = id
      /\ UNCHANGED <<acJoined, acAnswer, acWarm, acTwice, acWarms, acNow>>
      /\ acCache' = IF bypass THEN acCache ELSE Deleted(acCache, url)
  BY DEF Fetch, NewRequest, WarmStays
<1>2. acRequests \in Nat /\ id \in Nat /\ id # NoFetch /\ acRequests' \in 0 .. MaxRequests /\ acNow \in Nat
  BY <1>1, ApiCacheAssumption DEF FetchTypes, NoFetch, WarmOK
<1>3. new \in Fetching /\ new.id = id /\ new.url = url /\ new.bypass = bypass
  BY <1>2 DEF Fetching
<1>4. \A f \in acFetches : f.id # id
  BY <1>2 DEF Told
<1> HIDE DEF new
<1>5. IsFiniteSet(acFetches')
  BY <1>1, FS_AddElement DEF FetchTypes
<1>6. FetchTypes'
  BY <1>1, <1>2, <1>3, <1>5 DEF FetchTypes
<1>7. Told'
  BY <1>1, <1>2, <1>3, <1>4 DEF Told
<1>8. RegisteredRuns'
  BY <1>1, <1>3 DEF RegisteredRuns, FetchTypes
<1>9. ASSUME NEW u \in Urls
      PROVE  Cardinality(FetchesOf(u))' <= acBypassed[u]' + (IF acFlight[u]' = NoFetch THEN 0 ELSE 1)
  <2>1. CASE u # url
    <3>1. FetchesOf(u)' = FetchesOf(u) /\ acBypassed[u]' = acBypassed[u] /\ acFlight[u]' = acFlight[u]
      BY <2>1, <1>1, <1>3 DEF FetchesOf, FetchTypes
    <3> QED BY <3>1 DEF Owed
  <2>2. CASE u = url
    <3>1. FetchesOf(u)' = FetchesOf(u) \cup {new}
      BY <2>2, <1>1, <1>3 DEF FetchesOf
    <3>2. new \notin FetchesOf(u) /\ FetchesOf(u) \in SUBSET acFetches
      BY <1>3, <1>4 DEF FetchesOf
    <3>3. IsFiniteSet(FetchesOf(u))
      BY <3>2, FS_Subset DEF FetchTypes
    <3>4. Cardinality(FetchesOf(u))' = Cardinality(FetchesOf(u)) + 1 /\ Cardinality(FetchesOf(u)) \in Nat
      BY <3>1, <3>2, <3>3, FS_AddElement, FS_CardinalityType
    <3>5. Cardinality(FetchesOf(u)) <= acBypassed[u] + (IF acFlight[u] = NoFetch THEN 0 ELSE 1)
      BY DEF Owed
    <3>6. acBypassed[u] \in Nat
      BY DEF FetchTypes
    <3>7. CASE bypass
      <4>1. acBypassed[u]' = acBypassed[u] + 1 /\ acFlight[u]' = acFlight[u]
        BY <3>7, <2>2, <1>1 DEF FetchTypes
      <4> QED BY <4>1, <3>4, <3>5, <3>6
    <3>8. CASE ~bypass
      <4>1. acBypassed[u]' = acBypassed[u] /\ acFlight[u]' # NoFetch /\ acFlight[u] = NoFetch
        BY <3>8, <2>2, <1>1, <1>2 DEF FetchTypes
      <4> QED BY <4>1, <3>4, <3>5, <3>6
    <3> QED BY <3>7, <3>8
  <2> QED BY <2>1, <2>2
<1>10. Owed'
  BY <1>9 DEF Owed
<1>11. NobodyForgotten'
  BY <1>1 DEF NobodyForgotten
<1>12. CacheOK(acCache, acNow)'
  BY <1>1, <1>2, DeletedOK
<1>13. AnswerOK' /\ WarmOK'
  BY <1>1 DEF AnswerOK, WarmOK
<1> QED BY <1>6, <1>7, <1>8, <1>10, <1>11, <1>12, <1>13

Ends(f) ==
    /\ f \in acFetches
    /\ acFetches' = acFetches \ {f}
    /\ acFlight' = Unregistered(acFlight, f)
    /\ acJoined' = {j \in acJoined : j.on # f.id}
    /\ UNCHANGED <<acBypassed, acRequests>>

LEMMA EndKeepsFetches ==
    ASSUME ACInv, NEW f, Ends(f)
    PROVE  FetchTypes' /\ Told' /\ RegisteredRuns' /\ Owed' /\ NobodyForgotten'
<1> USE DEF ACInv
<1>1. /\ f \in acFetches /\ acFetches' = acFetches \ {f} /\ acFlight' = [acFlight EXCEPT ![f.url] = NoFetch]
      /\ acJoined' = {j \in acJoined : j.on # f.id} /\ UNCHANGED <<acBypassed, acRequests>>
  BY DEF Ends, Unregistered
<1>2. IsFiniteSet(acFetches')
  BY <1>1, FS_RemoveElement DEF FetchTypes
<1>3. FetchTypes'
  BY <1>1, <1>2 DEF FetchTypes, NoFetch
<1>4. Told'
  BY <1>1 DEF Told
<1>5. f.url \in Urls
  BY <1>1 DEF FetchTypes, Fetching
<1>6. RegisteredRuns'
  BY <1>1, <1>5 DEF RegisteredRuns, FetchTypes
<1>7. NobodyForgotten'
  BY <1>1 DEF NobodyForgotten
<1>8. ASSUME NEW u \in Urls
      PROVE  Cardinality(FetchesOf(u))' <= acBypassed[u]' + (IF acFlight[u]' = NoFetch THEN 0 ELSE 1)
  <2>1. CASE u # f.url
    <3>1. FetchesOf(u)' = FetchesOf(u) /\ acBypassed[u]' = acBypassed[u] /\ acFlight[u]' = acFlight[u]
      BY <2>1, <1>1 DEF FetchesOf, FetchTypes
    <3> QED BY <3>1 DEF Owed
  <2>2. CASE u = f.url
    <3>1. FetchesOf(u)' = FetchesOf(u) \ {f}
      BY <1>1 DEF FetchesOf
    <3>2. f \in FetchesOf(u) /\ FetchesOf(u) \in SUBSET acFetches
      BY <2>2, <1>1 DEF FetchesOf
    <3>3. IsFiniteSet(FetchesOf(u))
      BY <3>2, FS_Subset DEF FetchTypes
    <3>4. Cardinality(FetchesOf(u)) \in Nat
      BY <3>3, FS_CardinalityType
    <3>5. Cardinality(FetchesOf(u))' = Cardinality(FetchesOf(u)) - 1
      <4> DEFINE S == FetchesOf(u)
      <4>1. Cardinality(S \ {f}) = Cardinality(S) - 1
        <5> HIDE DEF S
        <5>1. f \in S /\ IsFiniteSet(S)
          BY <3>2, <3>3 DEF S
        <5> QED BY <5>1, FS_RemoveElement
      <4> QED BY <4>1, <3>1
    <3>6. Cardinality(FetchesOf(u)) <= acBypassed[u] + (IF acFlight[u] = NoFetch THEN 0 ELSE 1)
      BY DEF Owed
    <3>7. acBypassed[u] \in Nat /\ acBypassed[u]' = acBypassed[u]
      BY <1>1 DEF FetchTypes
    <3> QED BY <3>4, <3>5, <3>6, <3>7
  <2> QED BY <2>1, <2>2
<1>9. Owed'
  BY <1>8 DEF Owed
<1> QED BY <1>3, <1>4, <1>6, <1>7, <1>9

LEMMA DoneKeeps ==
    ASSUME ACInv, NEW f, FetchDone(f)
    PROVE  ACInv'
<1> USE DEF ACInv
<1>1. Ends(f)
  BY DEF FetchDone, Ends
<1>2. FetchTypes' /\ Told' /\ RegisteredRuns' /\ Owed' /\ NobodyForgotten'
  BY <1>1, EndKeepsFetches
<1>3. /\ acCache' = IF f.bypass THEN acCache ELSE Stored(acCache, f.url, acNow)
      /\ acAnswer' = [url |-> f.url, of |-> f.url[1], got |-> acNow]
      /\ UNCHANGED <<acWarm, acTwice, acWarms, acNow>>
  BY DEF FetchDone, WarmStays
<1>4. f.url \in Urls /\ acNow \in Nat
  BY <1>1 DEF Ends, FetchTypes, Fetching, WarmOK
<1>5. CacheOK(Stored(acCache, f.url, acNow), acNow)
  BY <1>4, StoredOK
<1>6. CacheOK(acCache, acNow)'
  BY <1>3, <1>5
<1>7. AnswerOK' /\ WarmOK'
  BY <1>3, <1>4, ApiCacheAssumption DEF AnswerOK, WarmOK
<1> QED BY <1>2, <1>6, <1>7

LEMMA FailKeeps ==
    ASSUME ACInv, NEW f, RequestFails(f)
    PROVE  ACInv'
<1> USE DEF ACInv
<1>1. Ends(f)
  BY DEF RequestFails, Ends
<1>2. FetchTypes' /\ Told' /\ RegisteredRuns' /\ Owed' /\ NobodyForgotten'
  BY <1>1, EndKeepsFetches
<1>3. UNCHANGED <<acCache, acAnswer, acWarm, acTwice, acWarms, acNow>>
  BY DEF RequestFails, WarmStays
<1>4. CacheOK(acCache, acNow)' /\ AnswerOK' /\ WarmOK'
  BY <1>3 DEF AnswerOK, WarmOK
<1> QED BY <1>2, <1>4

LEMMA WarmKeeps ==
    ASSUME ACInv, NEW fields \in SUBSET Fields, WarmServer(fields)
    PROVE  ACInv'
<1> USE DEF ACInv
<1> DEFINE toWarm == {f \in fields : ~IsServerWarmed(f)}
<1>1. /\ acWarm' = [f \in Fields |-> IF f \in toWarm THEN acNow + WarmedFor ELSE acWarm[f]]
      /\ acTwice' = (acTwice \/ \E f \in toWarm : acWarm[f] >= acNow)
      /\ UNCHANGED <<acCache, acFlight, acFetches, acJoined, acNow, acAnswer, acBypassed, acRequests>>
  BY DEF WarmServer
<1>2. acRequests' \in 0 .. MaxRequests /\ acRequests <= acRequests' /\ FetchesStay
  BY <1>1 DEF FetchTypes, FetchesStay
<1>3. FetchTypes' /\ Told' /\ RegisteredRuns' /\ Owed' /\ NobodyForgotten'
  BY <1>2, FetchesKept
<1>4. acNow \in 0 .. MaxTime /\ acTwice = FALSE /\ \A f \in Fields : acWarm[f] \in {-1} \cup 1 .. MaxTime + WarmedFor
  BY DEF WarmOK
<1>5. \A f \in toWarm : ~(acWarm[f] >= acNow)
  <2> SUFFICES ASSUME NEW f \in Fields, ~IsServerWarmed(f) PROVE ~(acWarm[f] >= acNow)
    OBVIOUS
  <2> QED BY <1>4, ApiCacheAssumption DEF IsServerWarmed
<1>6. acNow + WarmedFor \in 1 .. MaxTime + WarmedFor
  BY <1>4, ApiCacheAssumption
<1>7. acWarm' \in [Fields -> {-1} \cup 1 .. MaxTime + WarmedFor]
  BY <1>1, <1>4, <1>6
<1> HIDE DEF toWarm
<1>8. WarmOK'
  BY <1>1, <1>4, <1>5, <1>7 DEF WarmOK
<1>9. CacheOK(acCache, acNow)' /\ AnswerOK'
  BY <1>1 DEF AnswerOK
<1> QED BY <1>3, <1>8, <1>9

LEMMA PruneKeeps == ASSUME ACInv, Prune PROVE ACInv'
<1> USE DEF ACInv
<1>1. /\ acCache' = OnlyAt(acCache, {i \in DOMAIN acCache : acNow <= acCache[i].until})
      /\ acWarm' = [f \in Fields |-> IF acNow > acWarm[f] THEN -1 ELSE acWarm[f]]
      /\ UNCHANGED <<acFlight, acFetches, acJoined, acNow, acAnswer, acBypassed, acTwice, acRequests, acWarms>>
  BY DEF Prune
<1>2. acRequests' \in 0 .. MaxRequests /\ acRequests <= acRequests' /\ FetchesStay
  BY <1>1 DEF FetchTypes, FetchesStay
<1>3. FetchTypes' /\ Told' /\ RegisteredRuns' /\ Owed' /\ NobodyForgotten'
  BY <1>2, FetchesKept
<1>4. CacheOK(acCache, acNow)'
  BY <1>1, LeftOverOK
<1>5. AnswerOK' /\ WarmOK'
  BY <1>1 DEF AnswerOK, WarmOK
<1> QED BY <1>3, <1>4, <1>5

LEMMA TickKeeps == ASSUME ACInv, ClockTick PROVE ACInv'
<1> USE DEF ACInv
<1>1. /\ acNow < MaxTime /\ acNow' = acNow + 1 /\ acAnswer' = NoAnswer
      /\ UNCHANGED <<acCache, acFlight, acFetches, acJoined, acWarm, acBypassed, acTwice, acRequests, acWarms>>
  BY DEF ClockTick
<1>2. acRequests' \in 0 .. MaxRequests /\ acRequests <= acRequests' /\ FetchesStay
  BY <1>1 DEF FetchTypes, FetchesStay
<1>3. FetchTypes' /\ Told' /\ RegisteredRuns' /\ Owed' /\ NobodyForgotten'
  BY <1>2, FetchesKept
<1>4. AnswerOK' /\ WarmOK'
  BY <1>1, ApiCacheAssumption DEF AnswerOK, WarmOK
<1>5. \A i \in DOMAIN acCache : EntrySound(acCache[i], acNow + 1)
  <2> TAKE i \in DOMAIN acCache
  <2>1. acCache[i] \in Cached /\ EntrySound(acCache[i], acNow) /\ acNow \in Nat
    BY DEF CacheOK, WarmOK
  <2> QED BY <2>1 DEF EntrySound, Cached
<1>6. CacheOK(acCache, acNow + 1)
  BY <1>5 DEF CacheOK
<1>7. CacheOK(acCache, acNow)'
  BY <1>1, <1>6
<1> QED BY <1>3, <1>4, <1>7

LEMMA ACInvStep == ACInv /\ [AcNext]_acVars => ACInv'
<1> SUFFICES ASSUME ACInv, [AcNext]_acVars PROVE ACInv'
  OBVIOUS
<1>1. CASE UNCHANGED acVars
  BY <1>1 DEF acVars, ACInv, FetchTypes, Told, RegisteredRuns, Owed, FetchesOf, NobodyForgotten, AnswerOK, WarmOK
<1>2. CASE \E url \in Urls : \/ \E key \in Urls : AnswerCached(url, key)
                            \/ Join(url)
                            \/ \E bypass \in BOOLEAN : Fetch(url, bypass)
  BY <1>2, CachedAnswerKeeps, JoinKeeps, FetchKeeps
<1>3. CASE \E f \in acFetches : FetchDone(f) \/ RequestFails(f)
  BY <1>3, DoneKeeps, FailKeeps
<1>4. CASE \E fields \in SUBSET Fields : WarmServer(fields)
  BY <1>4, WarmKeeps
<1>5. CASE Prune \/ ClockTick
  BY <1>5, PruneKeeps, TickKeeps
<1> QED BY <1>1, <1>2, <1>3, <1>4, <1>5 DEF AcNext

(* The entries, flights and clock of the browser's cache (dataCache,       *)
(* inflightRequests, serverWarmed) have their types.                       *)
THEOREM CacheTypeCorrect == AcSpec => []AcTypeOK
<1>1. ACInv => AcTypeOK
  <2> SUFFICES ASSUME ACInv PROVE AcTypeOK
    OBVIOUS
  <2>1. Keys(acCache) \subseteq Urls
    <3>1. \A i \in DOMAIN acCache : acCache[i] \in Cached
      BY DEF ACInv, CacheOK
    <3> QED BY <3>1 DEF Cached, Keys
  <2>2. acFlight \in [Urls -> 0 .. MaxRequests]
    <3> SUFFICES ASSUME NEW url \in Urls PROVE acFlight[url] \in 0 .. MaxRequests
      BY DEF ACInv, FetchTypes
    <3>1. CASE acFlight[url] = NoFetch
      BY <3>1, ApiCacheAssumption DEF NoFetch
    <3>2. CASE acFlight[url] # NoFetch
      <4>1. acFlight[url] \in 1 .. acRequests /\ acRequests \in 0 .. MaxRequests
        BY <3>2 DEF ACInv, RegisteredRuns, Told, FetchTypes
      <4> QED BY <4>1, ApiCacheAssumption
    <3> QED BY <3>1, <3>2
  <2>3. acNow \in 0 .. MaxTime /\ acWarm \in [Fields -> -1 .. MaxTime + WarmedFor]
    BY ApiCacheAssumption DEF ACInv, WarmOK
  <2> QED BY <2>1, <2>2, <2>3 DEF AcTypeOK
<1> QED BY <1>1, ACInvInit, ACInvStep, PTL DEF AcSpec

LEMMA CacheFollows == ACInv => ClientCacheSound
<1> SUFFICES ASSUME ACInv PROVE ClientCacheSound
  OBVIOUS
<1>1. AnswersFresh
  BY DEF ACInv, AnswerOK, AnswersFresh, NoAnswer
<1>2. CapKept /\ FetchedOnce
  BY CapFollows, OwedEnough DEF ACInv
<1>3. NobodyForgotten /\ ~acTwice
  BY DEF ACInv, WarmOK
<1> QED BY <1>1, <1>2, <1>3 DEF ClientCacheSound

(* No answer is about another field than the one asked for or older than   *)
(* the time to live, the cache keeps an entry per url and to its cap, an   *)
(* url is fetched once at a time but for what a fetch past the cache lets  *)
(* in, nobody awaits a fetch that is over (fetchJson, fetchBinary,         *)
(* getCachedEntry, enforceDataCacheCap), and no field is posted to the     *)
(* server while it counts as warmed (isServerWarmed, warmServerCache).     *)
THEOREM CacheIsSound == AcSpec => []ClientCacheSound
  BY ACInvInit, ACInvStep, CacheFollows, PTL DEF AcSpec

-----------------------------------------------------------------------------
(***************************************************************************)
(* What a window shows at rest follows from what its loads still have to   *)
(* do: a window is Safe while a run is on its way that will start a load   *)
(* of it anew (Coming: a sweep that has it before it, an allocation that   *)
(* waits), and otherwise when every load that no newer number overtook     *)
(* brings the picture the window is set to, and there is such a load or    *)
(* the picture is there (Right).  A step either leaves a window's number,  *)
(* picture and loads alone, or starts a load with a new number, or leaves  *)
(* a run that comes for it (Moved); the windows for which none of these is *)
(* true are those of ldHole.                                               *)
(*                                                                         *)
(* That the windows keep step rests on one sweep being the newest: each    *)
(* window is still before it or has its period (SweptOver), unless an      *)
(* allocation disturbed it (ldMixed) or waits to deal all windows out.     *)
(***************************************************************************)

Kinds == {"time", "one", "level", "nav", "model", "data", "reload", "refresh", "alloc", "deal"}
Stages == {"preload", "style", "preset", "cycles", "data", "palette", "refresh"}
Wins == [seq : Nat, init : Int, cycle : Int, period : Int, level : 1 .. Len(Levels), model : 1 .. Len(Models)]
Pictures == [cycle : Int, period : Int, level : Int, model : Int]
RunRecords == [id : Nat, kind : Kinds, mode : LdModes, gen : Nat, base : Int, delta : Int, cycle : Int,
               todo : Seq(LdWindows), w : LdWindows, seq : Nat \cup {NoSeq}, want : Pictures,
               fresh : BOOLEAN, stage : Stages]

LoadStages == {"preset", "cycles", "data", "palette"}
Members(s) == {s[i] : i \in DOMAIN s}

(* What the handlers that start and move a run on leave in it.             *)
RunOK(r) ==
    /\ r \in RunRecords /\ r.gen <= ldGen /\ r.seq <= ldWin[r.w].seq
    /\ r.kind \in {"level", "nav"} => r.base \in 1 .. Len(Levels)
    /\ r.kind = "data" => r.delta \in PresetLevels
    /\ r.kind \notin {"time", "level"} => r.todo = <<>>
    /\ r.kind = "time" => ~r.fresh /\ r.stage \in {"data", "palette"}
    /\ r.gen # 0 => r.kind = "time"
    /\ r.kind = "deal" <=> r.stage = "preload"
    /\ r.stage \in {"style", "preset"} => r.kind \in {"data", "alloc"}
    /\ r.stage = "refresh" => r.kind = "refresh"

RunsOK == \A r \in ldRuns : RunOK(r)

LTypes ==
    /\ ldFocus \in LdWindows /\ ldMode \in LdModes /\ ldAnchor \in LdWindows
    /\ ldAuto \subseteq LdWindows /\ ldHole \subseteq LdWindows
    /\ ldWin \in [LdWindows -> Wins] /\ ldShown \in [LdWindows -> Pictures]
    /\ ldRefresh \in [LdWindows -> Nat] /\ ldGen \in Nat /\ ldCalls \in Nat /\ ldMixed \in BOOLEAN

(* A load of window w that nothing has overtaken.                          *)
InLoad(r, w) == r.w = w /\ r.stage \in LoadStages /\ r.seq = ldWin[w].seq

(* Run r is the newest sweep and has window w before it.                   *)
Awaits(r, w) == r.gen # 0 /\ r.gen = ldGen /\ w \in Members(r.todo)

Coming(w) ==
    \E r \in ldRuns : r.stage = "preload" \/ (r.stage = "style" /\ r.kind = "alloc" /\ r.w = w) \/ Awaits(r, w)

Right(w) ==
    /\ \A r \in ldRuns : InLoad(r, w) => r.stage = "preset" \/ r.want = Picture(ldWin[w])
    /\ ldShown[w] = Picture(ldWin[w]) \/ \E r \in ldRuns : InLoad(r, w)

Safe(w) == Coming(w) \/ Right(w)

LInv == LTypes /\ RunsOK /\ \A w \in LdWindows \ ldHole : Safe(w)

(* What a step that ends or moves on the runs S does to window v. *)
Stays(S, shown, v) ==
    /\ ldWin'[v] = ldWin[v] /\ ldShown'[v] = shown[v]
    /\ \A q \in ldRuns' : q.w = v /\ q.stage \in LoadStages => q \in ldRuns \ S
    /\ \A p \in S : Awaits(p, v) => \E q \in ldRuns' : Awaits(q, v)
Starts(v) == ldWin'[v].seq = ldWin[v].seq + 1 /\ Right(v)'
Moved(S, shown) ==
    /\ ldRuns \ S \subseteq ldRuns'
    /\ \A p \in S : p.stage \notin {"preload", "style"}
    /\ \A v \in LdWindows : Stays(S, shown, v) \/ Starts(v) \/ Coming(v)'
-----------------------------------------------------------------------------
LEMMA Remainders == \A a \in Nat, b \in Nat \ {0} : (a % b) + 1 \in 1 .. b
OBVIOUS

LEMMA Places == \A w \in LdWindows : PositionOf(w) \in 1 .. Len(Visible) /\ Visible[PositionOf(w)] = w
<1> SUFFICES ASSUME NEW w \in LdWindows PROVE PositionOf(w) \in 1 .. Len(Visible) /\ Visible[PositionOf(w)] = w
  OBVIOUS
<1>1. DOMAIN Visible = 1 .. Len(Visible)
  BY WindowLoadsAssumption
<1>2. \E i \in DOMAIN Visible : Visible[i] = w
  BY DEF LdWindows
<1> QED BY <1>1, <1>2 DEF PositionOf

LEMMA DealtTypes ==
    ASSUME NEW win \in Wins, NEW mode \in LdModes, NEW i \in Nat \ {0}
    PROVE  Allocated(mode, win, i) \in Wins
<1>1. win.cycle + i - 1 \in Int /\ win.period + i - 1 \in Int /\ (i - 1) * CycleStep \in Int /\ i - 1 \in Nat
  BY WindowLoadsAssumption DEF Wins
<1>2. ((i - 1) % Len(Levels)) + 1 \in 1 .. Len(Levels) /\ ((i - 1) % Len(Models)) + 1 \in 1 .. Len(Models)
  BY <1>1, Remainders, WindowLoadsAssumption
<1> DEFINE deal == Allocated(mode, win, i)
<1>3. deal.cycle \in Int /\ deal.period \in Int
  <2>1. PICK far \in Int : far = (i - 1) * CycleStep
    BY <1>1
  <2>2. deal.cycle = IF mode = "time" THEN win.cycle + i - 1 ELSE win.cycle
    BY DEF Allocated
  <2>3. deal.period = CASE mode = "step" -> win.period + i - 1
                        [] mode = "time" -> win.period + far
                        [] OTHER         -> win.period
    BY <2>1 DEF Allocated
  <2>4. win.cycle \in Int /\ win.period \in Int
    BY DEF Wins
  <2> HIDE DEF deal
  <2>5. deal.cycle \in Int
    BY <1>1, <2>2, <2>4
  <2>6. deal.period \in Int
    BY <1>1, <2>1, <2>3, <2>4
  <2> QED BY <2>5, <2>6
<1>4. deal.level \in 1 .. Len(Levels) /\ deal.model \in 1 .. Len(Models)
  BY <1>2 DEF Allocated, Wins
<1>5. deal = [seq |-> 0, init |-> win.init, cycle |-> deal.cycle, period |-> deal.period,
              level |-> deal.level, model |-> deal.model]
  BY DEF Allocated
<1>6. win.init \in Int
  BY DEF Wins
<1> HIDE DEF deal
<1>7. deal \in Wins
  BY <1>3, <1>4, <1>5, <1>6 DEF Wins
<1> QED BY <1>7 DEF deal

LEMMA PictureTypes == \A win \in Wins : Picture(win) \in Pictures
BY WindowLoadsAssumption DEF Picture, Pictures, Wins

LEMMA LoadingTypes ==
    ASSUME NEW r \in RunRecords, NEW win \in Wins
    PROVE  LET n == Loading(r, win)
           IN  /\ n \in RunRecords /\ n.seq = win.seq /\ n.want = Picture(win) /\ n.stage \in {"cycles", "data"}
               /\ n.id = r.id /\ n.kind = r.kind /\ n.mode = r.mode /\ n.gen = r.gen /\ n.base = r.base
               /\ n.delta = r.delta /\ n.todo = r.todo /\ n.w = r.w /\ n.cycle = r.cycle /\ n.fresh = r.fresh
<1>1. Picture(win) \in Pictures
  BY PictureTypes
<1> QED BY <1>1 DEF Loading, RunRecords, Wins, Stages

LEMMA ReachedTypes ==
    ASSUME NEW r \in RunRecords, NEW win \in Wins, r.kind \in {"time", "one", "level"}, r.kind = "level" => r.base \in 1 .. Len(Levels)
    PROVE  Reached(r, win) \in Wins /\ Reached(r, win).seq = win.seq + 1
<1>1. CASE r.kind = "level"
  <2>0. win.level \in 1 .. Len(Levels) /\ r.delta \in Int /\ Len(Levels) \in Nat \ {0}
    BY WindowLoadsAssumption DEF RunRecords, Wins
  <2>1. SteppedLevel(r, win) \in 1 .. Len(Levels)
    <3>1. Shift(win.level, r.delta) \in 1 .. Len(Levels)
      BY <2>0 DEF Shift
    <3> QED BY <1>1, <3>1 DEF SteppedLevel
  <2>2. Reached(r, win) = [win EXCEPT !.seq = @ + 1, !.level = SteppedLevel(r, win)]
    BY <1>1 DEF Reached
  <2> DEFINE a == [win EXCEPT !.seq = win.seq + 1]
             b == [a EXCEPT !.level = SteppedLevel(r, win)]
  <2>3. a \in Wins /\ a.seq = win.seq + 1
    BY DEF Wins
  <2> HIDE DEF a
  <2>4. b \in Wins /\ b.seq = a.seq
    BY <2>1, <2>3 DEF Wins
  <2>5. Reached(r, win) = b
    BY <2>2 DEF a
  <2> QED BY <2>3, <2>4, <2>5
<1>2. CASE r.kind # "level"
  <2>1. SweepPeriod(r, win, r.w) \in Int
    <3>1. r.base \in Int /\ r.w \in LdWindows /\ win.period \in Int
      BY DEF RunRecords, Wins
    <3>2. PositionOf(r.w) \in Int
      BY <3>1, Places
    <3> QED BY <3>1, <3>2 DEF SweepPeriod
  <2> DEFINE c == IF r.kind = "time" /\ r.mode = "time" THEN win.cycle ELSE r.cycle
             p == IF r.kind = "one" THEN r.base ELSE SweepPeriod(r, win, r.w)
  <2>2. c \in Int /\ p \in Int
    BY <2>1 DEF Wins, RunRecords
  <2>3. Reached(r, win) = [win EXCEPT !.seq = @ + 1, !.cycle = c, !.init = c, !.period = p]
    BY <1>2 DEF Reached
  <2> HIDE DEF c, p
  <2> DEFINE a == [win EXCEPT !.seq = win.seq + 1]
             b == [a EXCEPT !.cycle = c, !.init = c]
             d == [b EXCEPT !.period = p]
  <2>4. a \in Wins /\ a.seq = win.seq + 1
    BY DEF Wins
  <2>5. Reached(r, win) = d
    BY <2>3
  <2> HIDE DEF a
  <2>6. b \in Wins /\ b.seq = a.seq
    BY <2>2, <2>4 DEF Wins
  <2> HIDE DEF b
  <2>7. d \in Wins /\ d.seq = b.seq
    BY <2>2, <2>6 DEF Wins
  <2> QED BY <2>4, <2>5, <2>6, <2>7
<1> QED BY <1>1, <1>2

LEMMA NewRunTypes ==
    ASSUME ldCalls \in Nat, ldMode \in LdModes, ldFocus \in LdWindows, NEW kind \in Kinds
    PROVE NewRun(kind) \in RunRecords
<1>1. Blank \in Pictures /\ <<>> \in Seq(LdWindows)
  BY DEF Blank, Pictures
<1> QED BY <1>1 DEF NewRun, RunRecords, Stages

(* A window whose picture, number and loads a step leaves alone stays safe.  *)
LEMMA StaysKeeps ==
    ASSUME LTypes, NEW S \in SUBSET ldRuns, NEW shown, NEW v \in LdWindows, Stays(S, shown, v), Safe(v),
           ldRuns \ S \subseteq ldRuns', ldGen' = ldGen, shown[v] = ldShown[v], \A p \in S : ~InLoad(p, v),
           \A p \in S : p.stage # "preload" /\ (p.stage = "style" => p.kind # "alloc" \/ p.w # v)
    PROVE  Safe(v)'
<1>1. CASE Coming(v)
  <2>1. PICK r \in ldRuns : r.stage = "preload" \/ (r.stage = "style" /\ r.kind = "alloc" /\ r.w = v) \/ Awaits(r, v)
    BY <1>1 DEF Coming
  <2>2. CASE r \in S
    <3>1. PICK q \in ldRuns' : Awaits(q, v)
      BY <2>1, <2>2 DEF Stays
    <3> QED BY <3>1 DEF Coming, Awaits, Safe
  <2>3. CASE r \notin S
    <3>1. r \in ldRuns'
      BY <2>3
    <3> QED BY <2>1, <3>1 DEF Coming, Awaits, Safe
  <2> QED BY <2>2, <2>3
<1>2. CASE Right(v)
  <2>1. ldWin'[v] = ldWin[v] /\ ldShown'[v] = ldShown[v]
    BY DEF Stays
  <2>2. \A q \in ldRuns' : q.w = v /\ q.stage \in LoadStages => q \in ldRuns
    BY DEF Stays
  <2>3. \A q \in ldRuns : InLoad(q, v) => q \in ldRuns'
    OBVIOUS
  <2>4. Right(v)'
    BY <1>2, <2>1, <2>2, <2>3 DEF Right, InLoad, Picture
  <2> QED BY <2>4 DEF Safe
<1> QED BY <1>1, <1>2 DEF Safe

LEMMA MovedKeeps ==
    ASSUME LTypes, NEW S \in SUBSET ldRuns, NEW shown, Moved(S, shown), ldGen' = ldGen,
           NEW v \in LdWindows, Safe(v), shown[v] = ldShown[v], \A p \in S : ~InLoad(p, v)
    PROVE  Safe(v)'
<1>1. CASE Starts(v) \/ Coming(v)'
  BY <1>1 DEF Starts, Safe
<1>2. CASE Stays(S, shown, v)
  BY <1>2, StaysKeeps DEF Moved
<1> QED BY <1>1, <1>2 DEF Moved

(* A window that takes a new number shows what its one new load brings. *)
LEMMA StartedIsRight ==
    ASSUME LTypes, RunsOK, NEW v \in LdWindows, NEW n \in ldRuns', n.w = v, n.stage \in LoadStages,
           n.seq = ldWin'[v].seq, ldWin'[v].seq = ldWin[v].seq + 1,
           n.stage = "preset" \/ n.want = Picture(ldWin'[v]),
           \A q \in ldRuns' : q = n \/ q \in ldRuns \/ q.w # v \/ q.stage \notin LoadStages
    PROVE  Starts(v)
<1>1. InLoad(n, v)'
  BY DEF InLoad
<1>2. \A q \in ldRuns' : InLoad(q, v)' => q = n
  <2> SUFFICES ASSUME NEW q \in ldRuns', q.w = v, q.stage \in LoadStages, q.seq = ldWin'[v].seq PROVE q = n
    BY DEF InLoad
  <2>1. CASE q \in ldRuns
    <3>1. q \in RunRecords /\ q.seq <= ldWin[v].seq
      BY <2>1 DEF RunsOK, RunOK
    <3>2. q.seq \in Int
      BY <3>1 DEF RunRecords, NoSeq
    <3>3. ldWin[v].seq \in Nat
      BY DEF LTypes, Wins
    <3> QED BY <3>1, <3>2, <3>3
  <2> QED BY <2>1
<1>3. Picture(ldWin'[v]) = Picture(ldWin[v])'
  BY DEF Picture
<1>4. \A q \in ldRuns' : InLoad(q, v)' => q.stage = "preset" \/ q.want = Picture(ldWin[v])'
  BY <1>2, <1>3
<1>5. Right(v)'
  BY <1>1, <1>4 DEF Right
<1> QED BY <1>5 DEF Starts

LEMMA RunsKept ==
    ASSUME RunsOK, ldGen \in Nat, ldGen' \in Nat, ldGen <= ldGen', ldWin \in [LdWindows -> Wins], ldWin' \in [LdWindows -> Wins],
           \A v \in LdWindows : ldWin[v].seq <= ldWin'[v].seq,
           \A q \in ldRuns' : q \in ldRuns \/ RunOK(q)'
    PROVE  RunsOK'
<1> SUFFICES ASSUME NEW q \in ldRuns', q \in ldRuns PROVE RunOK(q)'
  BY DEF RunsOK
<1>1. RunOK(q)
  BY DEF RunsOK
<1>2. q \in RunRecords
  BY <1>1 DEF RunOK
<1>3. q.gen \in Nat /\ q.seq \in Int /\ q.w \in LdWindows
  BY <1>2 DEF RunRecords, NoSeq
<1>4. q.gen <= ldGen'
  BY <1>1, <1>3 DEF RunOK
<1>5. ldWin[q.w].seq \in Nat /\ ldWin'[q.w].seq \in Nat
  BY <1>3 DEF Wins
<1>6. q.seq <= ldWin'[q.w].seq
  BY <1>1, <1>3, <1>5 DEF RunOK
<1> QED BY <1>1, <1>4, <1>6 DEF RunOK

LEMMA NextAfter ==
    ASSUME NEW r \in RunRecords, NEW wins, NEW i \in NextIn(r, wins)
    PROVE  /\ i \in 1 .. Len(r.todo) /\ r.todo[i] \in LdWindows /\ SubSeq(r.todo, i + 1, Len(r.todo)) \in Seq(LdWindows)
           /\ r.kind = "time" => \A v \in Members(r.todo) : v = r.todo[i] \/ v \in Members(SubSeq(r.todo, i + 1, Len(r.todo)))
<1>1. r.todo \in Seq(LdWindows)
  BY DEF RunRecords
<1>2. i \in 1 .. Len(r.todo) /\ \A j \in 1 .. i - 1 : PassedOver(r, r.todo[j], wins)
  BY <1>1 DEF NextIn
<1>3. r.todo[i] \in LdWindows /\ SubSeq(r.todo, i + 1, Len(r.todo)) \in Seq(LdWindows)
  BY <1>1, <1>2
<1>4. ASSUME r.kind = "time", NEW v \in Members(r.todo), v # r.todo[i]
      PROVE  v \in Members(SubSeq(r.todo, i + 1, Len(r.todo)))
  <2>1. i = 1
    <3>1. ~PassedOver(r, r.todo[1], wins)
      BY <1>4 DEF PassedOver
    <3> QED BY <3>1, <1>2, <1>1
  <2>2. PICK k \in 1 .. Len(r.todo) : v = r.todo[k]
    BY <1>1 DEF Members
  <2>3. k \in 2 .. Len(r.todo) /\ Len(r.todo) \in Nat
    BY <1>1, <1>4, <2>1, <2>2
  <2> DEFINE t == SubSeq(r.todo, 2, Len(r.todo))
  <2>4. Len(t) = Len(r.todo) - 1 /\ DOMAIN t = 1 .. Len(t) /\ \A j \in 1 .. Len(t) : t[j] = r.todo[2 + j - 1]
    BY <1>1, <2>3, SubSeqProperties, Z3
  <2>5. k - 1 \in 1 .. Len(t) /\ t[k - 1] = r.todo[k]
    BY <2>3, <2>4
  <2> HIDE DEF t
  <2>6. v \in Members(t)
    BY <2>2, <2>4, <2>5 DEF Members
  <2> QED BY <2>1, <2>6 DEF t
<1> QED BY <1>2, <1>3, <1>4

LEMMA BlankIsPicture == Blank \in Pictures
BY DEF Blank, Pictures

LEMMA WipedTypes ==
    ASSUME NEW shown \in [LdWindows -> Pictures], NEW r, r.w \in LdWindows
    PROVE  /\ Wiped(shown, r) \in [LdWindows -> Pictures]
           /\ \A v \in LdWindows : v # r.w => Wiped(shown, r)[v] = shown[v]
<1> QED BY BlankIsPicture DEF Wiped

(* A run that goes on to its next window starts a load of it, and leaves the *)
(* other windows of a sweep to that run.                                     *)
LEMMA GoOnMoves ==
    ASSUME LTypes, RunsOK, NEW r, RunOK(r), r.kind # "deal", NEW S \in SUBSET ldRuns,
           \A p \in S : p.stage \notin {"preload", "style"} /\ \A v \in LdWindows : Awaits(p, v) => Awaits(r, v),
           NEW shown \in [LdWindows -> Pictures], ldGen' = ldGen, GoOn(r, ldWin, shown, ldRuns \ S)
    PROVE  ldWin' \in [LdWindows -> Wins] /\ ldShown' \in [LdWindows -> Pictures] /\ RunsOK' /\ Moved(S, shown)
<1> USE DEF LTypes
<1>1. r \in RunRecords /\ r.todo \in Seq(LdWindows)
  BY DEF RunOK, RunRecords
<1>2. CASE /\ NextIn(r, ldWin) = {} \/ ~SweepAlive(r)
           /\ ldRuns' = ldRuns \ S /\ ldWin' = ldWin /\ ldShown' = shown
  <2>1. RunsOK'
    BY <1>2 DEF RunsOK, RunOK
  <2>2. ASSUME NEW v \in LdWindows, NEW p \in S PROVE ~Awaits(p, v)
    <3> SUFFICES ASSUME Awaits(r, v) PROVE FALSE
      OBVIOUS
    <3>1. SweepAlive(r) /\ r.kind = "time" /\ v \in Members(r.todo)
      BY DEF Awaits, SweepAlive, RunOK
    <3>2. 1 \in DOMAIN r.todo
      BY <1>1, <3>1 DEF Members
    <3>3. 1 \in NextIn(r, ldWin)
      BY <3>1, <3>2 DEF NextIn, PassedOver
    <3> QED BY <1>2, <3>1, <3>3
  <2>3. \A v \in LdWindows : Stays(S, shown, v)
    BY <1>2, <2>2 DEF Stays
  <2> QED BY <1>2, <2>1, <2>3 DEF Moved
<1>3. ASSUME SweepAlive(r), NEW i \in NextIn(r, ldWin),
             LET s == [r EXCEPT !.w = r.todo[i], !.todo = SubSeq(r.todo, i + 1, Len(r.todo))]
                 win == Reached(s, ldWin[s.w])
             IN  /\ ldRuns' = (ldRuns \ S) \cup {Loading(s, win)}
                 /\ ldWin' = [ldWin EXCEPT ![s.w] = win]
                 /\ ldShown' = Wiped(shown, s)
      PROVE  ldWin' \in [LdWindows -> Wins] /\ ldShown' \in [LdWindows -> Pictures] /\ RunsOK' /\ Moved(S, shown)
  <2>1. PICK s : s = [r EXCEPT !.w = r.todo[i], !.todo = SubSeq(r.todo, i + 1, Len(r.todo))]
    OBVIOUS
  <2>2. /\ s \in RunRecords /\ s.w = r.todo[i] /\ s.w \in LdWindows /\ s.todo = SubSeq(r.todo, i + 1, Len(r.todo))
        /\ s.kind = r.kind /\ s.gen = r.gen /\ s.base = r.base /\ s.fresh = r.fresh /\ s.stage = r.stage /\ s.delta = r.delta
    BY <1>1, <2>1, NextAfter DEF RunRecords
  <2>3. r.kind \in {"time", "level"}
    <3>1. r.todo # <<>>
      BY <1>1, NextAfter
    <3> QED BY <3>1 DEF RunOK
  <2>4. PICK win : win = Reached(s, ldWin[s.w])
    OBVIOUS
  <2>5. win \in Wins /\ win.seq = ldWin[s.w].seq + 1
    BY <2>2, <2>3, <2>4, ReachedTypes DEF RunOK
  <2>5a. win.seq \in Nat /\ ldWin[s.w].seq \in Nat /\ \A v \in LdWindows : ldWin[v].seq \in Nat
    BY <2>2, <2>5 DEF Wins
  <2>6. PICK n : n = Loading(s, win)
    OBVIOUS
  <2>7. /\ n \in RunRecords /\ n.seq = win.seq /\ n.want = Picture(win) /\ n.stage \in {"cycles", "data"}
        /\ n.kind = s.kind /\ n.gen = s.gen /\ n.base = s.base /\ n.delta = s.delta /\ n.todo = s.todo /\ n.w = s.w
        /\ n.fresh = s.fresh
    BY <2>2, <2>5, <2>6, LoadingTypes
  <2>8. /\ ldRuns' = (ldRuns \ S) \cup {n} /\ ldWin' = [ldWin EXCEPT ![s.w] = win] /\ ldShown' = Wiped(shown, s)
    BY <1>3, <2>1, <2>4, <2>6
  <2>9. ldWin' \in [LdWindows -> Wins] /\ ldWin'[s.w] = win /\ \A v \in LdWindows : v # s.w => ldWin'[v] = ldWin[v]
    BY <2>2, <2>5, <2>8
  <2>10. ldShown' \in [LdWindows -> Pictures] /\ \A v \in LdWindows : v # s.w => ldShown'[v] = shown[v]
    BY <2>2, <2>8, WipedTypes
  <2>11. RunOK(n)'
    <3>1. r.kind = "time" => ~r.fresh
      BY DEF RunOK
    <3>2. n.stage = IF s.fresh THEN "cycles" ELSE "data"
      BY <2>2, <2>6 DEF Loading, RunRecords
    <3>3. n.gen <= ldGen' /\ n.seq <= ldWin'[n.w].seq
      BY <2>2, <2>5, <2>5a, <2>7, <2>9 DEF RunOK
    <3>4. (n.kind \in {"level", "nav"} => n.base \in 1 .. Len(Levels)) /\ (n.gen # 0 => n.kind = "time")
      BY <2>2, <2>7 DEF RunOK
    <3>5. n.kind = r.kind /\ n.fresh = r.fresh
      BY <2>2, <2>7
    <3>6. n.kind = "time" => ~n.fresh /\ n.stage \in {"data", "palette"}
      BY <2>2, <3>1, <3>2, <3>5
    <3> QED BY <2>3, <2>7, <3>3, <3>4, <3>5, <3>6 DEF RunOK
  <2>12. RunsOK'
    <3>1. \A v \in LdWindows : ldWin[v].seq <= ldWin'[v].seq
      <4> SUFFICES ASSUME NEW v \in LdWindows PROVE ldWin[v].seq <= ldWin'[v].seq
        OBVIOUS
      <4>1. CASE v = s.w
        <5>1. ldWin'[v].seq = ldWin[v].seq + 1 /\ ldWin[v].seq \in Nat
          BY <2>5, <2>5a, <2>9, <4>1
        <5> QED BY ONLY <5>1
      <4>2. CASE v # s.w
        <5>1. ldWin'[v].seq = ldWin[v].seq /\ ldWin[v].seq \in Nat
          BY <2>5a, <2>9, <4>2
        <5> QED BY ONLY <5>1
      <4> QED BY <4>1, <4>2
    <3>2. \A q \in ldRuns' : q \in ldRuns \/ RunOK(q)'
      BY <2>8, <2>11 DEF RunOK
    <3>3. ldGen <= ldGen'
      OBVIOUS
    <3> QED BY <2>9, <3>1, <3>2, <3>3, RunsKept
  <2>13. Starts(s.w)
    <3>1. n \in ldRuns' /\ n.w = s.w /\ n.stage \in LoadStages /\ n.seq = ldWin'[s.w].seq /\ n.want = Picture(ldWin'[s.w])
      BY <2>2, <2>7, <2>8, <2>9 DEF LoadStages
    <3>2. \A q \in ldRuns' : q = n \/ q \in ldRuns
      BY <2>8
    <3>3. ldWin'[s.w].seq = ldWin[s.w].seq + 1
      BY <2>5, <2>9
    <3> QED BY <2>2, <3>1, <3>2, <3>3, StartedIsRight
  <2>14. ASSUME NEW v \in LdWindows, v # s.w PROVE Stays(S, shown, v)
    <3>1. \A q \in ldRuns' : q.w = v /\ q.stage \in LoadStages => q \in ldRuns \ S
      BY <2>7, <2>8, <2>14
    <3>2. ASSUME NEW p \in S, Awaits(p, v) PROVE Awaits(n, v)'
      <4>1. Awaits(r, v) /\ r.kind = "time"
        BY <3>2 DEF Awaits, RunOK
      <4>2. v \in Members(s.todo)
        BY <1>1, <2>2, <2>14, <4>1, NextAfter DEF Awaits
      <4> QED BY <2>2, <2>7, <4>1, <4>2 DEF Awaits
    <3> QED BY <2>8, <2>9, <2>10, <2>14, <3>1, <3>2 DEF Stays, Awaits
  <2>15. Moved(S, shown)
    BY <2>8, <2>13, <2>14 DEF Moved
  <2> QED BY <2>9, <2>10, <2>12, <2>15
<1> QED BY <1>2, <1>3 DEF GoOn

(* What a load draws is the picture its window is set to, when nothing has   *)
(* overtaken it.                                                             *)
LEMMA DrawnIsRight ==
    ASSUME LTypes, NEW p \in ldRuns, NEW shown, Moved({p}, shown), ldGen' = ldGen,
           NEW v \in LdWindows, Safe(v), InLoad(p, v), p.stage # "preset", shown[v] = p.want
    PROVE  Safe(v)'
<1>1. CASE Starts(v) \/ Coming(v)'
  BY <1>1 DEF Starts, Safe
<1>2. CASE Stays({p}, shown, v)
  <2>1. CASE Coming(v)
    <3>1. PICK r \in ldRuns : r.stage = "preload" \/ (r.stage = "style" /\ r.kind = "alloc" /\ r.w = v) \/ Awaits(r, v)
      BY <2>1 DEF Coming
    <3>2. CASE r = p
      <4>1. PICK q \in ldRuns' : Awaits(q, v)
        BY <1>2, <3>1, <3>2 DEF Stays, Moved
      <4> QED BY <4>1 DEF Coming, Awaits, Safe
    <3>3. CASE r # p
      <4>1. r \in ldRuns'
        BY <3>3 DEF Moved
      <4> QED BY <3>1, <4>1 DEF Coming, Awaits, Safe
    <3> QED BY <3>2, <3>3
  <2>2. CASE Right(v)
    <3>1. p.want = Picture(ldWin[v])
      BY <2>2 DEF Right
    <3>2. ldWin'[v] = ldWin[v] /\ ldShown'[v] = Picture(ldWin[v])
      BY <1>2, <3>1 DEF Stays
    <3>3. \A q \in ldRuns' : q.w = v /\ q.stage \in LoadStages => q \in ldRuns
      BY <1>2 DEF Stays
    <3>4. Right(v)'
      BY <2>2, <3>2, <3>3 DEF Right, InLoad, Picture
    <3> QED BY <3>4 DEF Safe
  <2> QED BY <2>1, <2>2 DEF Safe
<1> QED BY <1>1, <1>2 DEF Moved

LEMMA Initiators == LTypes => \A w \in LdWindows : Initiator(w) \in LdWindows
BY DEF LTypes, Initiator

LEMMA DealtWindows ==
    ASSUME NEW wins \in [LdWindows -> Wins], NEW mode \in LdModes, NEW win \in Wins
    PROVE  Dealt(wins, mode, win) \in [LdWindows -> Wins] /\ \A v \in LdWindows : Dealt(wins, mode, win)[v].seq = wins[v].seq
<1> SUFFICES ASSUME NEW v \in LdWindows
             PROVE  LET e == [Allocated(mode, win, PositionOf(v)) EXCEPT !.seq = wins[v].seq, !.init = wins[v].init]
                    IN  e \in Wins /\ e.seq = wins[v].seq
  BY DEF Dealt
<1>1. PICK a \in Wins : a = Allocated(mode, win, PositionOf(v))
  <2>1. PositionOf(v) \in Nat \ {0}
    BY Places
  <2> QED BY <2>1, DealtTypes
<1>2. PICK k \in Nat : k = wins[v].seq
  BY DEF Wins
<1>3. PICK j \in Int : j = wins[v].init
  BY DEF Wins
<1> DEFINE b == [a EXCEPT !.seq = k]
           c == [b EXCEPT !.init = j]
<1>4. b \in Wins /\ b.seq = k
  BY DEF Wins
<1>5. c = [a EXCEPT !.seq = wins[v].seq, !.init = wins[v].init]
  BY <1>2, <1>3
<1> HIDE DEF b
<1>6. c \in Wins /\ c.seq = b.seq
  BY <1>4 DEF Wins
<1> QED BY <1>1, <1>2, <1>4, <1>5, <1>6

LEMMA DealRunOK ==
    ASSUME LTypes, NEW mode \in LdModes, NEW id \in Nat, NEW wins \in [LdWindows -> Wins]
    PROVE  LET n == DealRun(mode, id, wins)
           IN  n \in RunRecords /\ n.kind = "deal" /\ n.stage = "preload" /\ n.gen = 0 /\ n.seq = NoSeq /\ n.todo = <<>>
<1>1. NewRun("deal") \in RunRecords
  BY NewRunTypes DEF LTypes, Kinds
<1>2. Initiator(ldFocus) \in LdWindows
  BY Initiators DEF LTypes
<1>3. Picture(wins[Initiator(ldFocus)]) \in Pictures
  BY <1>2, PictureTypes
<1>4. PICK n \in RunRecords : n = NewRun("deal")
  BY <1>1
<1>5. n.kind = "deal" /\ n.gen = 0 /\ n.seq = NoSeq /\ n.todo = <<>>
  BY <1>4 DEF NewRun
<1>6. PICK b \in LdWindows : b = Initiator(ldFocus)
  BY <1>2
<1>7. PICK p \in Pictures : p = Picture(wins[b])
  BY <1>3, <1>6
<1> DEFINE n1 == [n EXCEPT !.id = id]
           n2 == [n1 EXCEPT !.mode = mode]
           n3 == [n2 EXCEPT !.w = b]
           n4 == [n3 EXCEPT !.want = p]
           n5 == [n4 EXCEPT !.stage = "preload"]
<1>8. DealRun(mode, id, wins) = n5
  BY <1>4, <1>6, <1>7 DEF DealRun
<1>9. n1 \in RunRecords /\ n1.kind = "deal" /\ n1.gen = 0 /\ n1.seq = NoSeq /\ n1.todo = <<>>
  BY <1>5 DEF RunRecords
<1> HIDE DEF n1
<1>10. n2 \in RunRecords /\ n2.kind = "deal" /\ n2.gen = 0 /\ n2.seq = NoSeq /\ n2.todo = <<>>
  BY <1>9 DEF RunRecords
<1> HIDE DEF n2
<1>11. n3 \in RunRecords /\ n3.kind = "deal" /\ n3.gen = 0 /\ n3.seq = NoSeq /\ n3.todo = <<>>
  BY <1>10 DEF RunRecords
<1> HIDE DEF n3
<1>12. n4 \in RunRecords /\ n4.kind = "deal" /\ n4.gen = 0 /\ n4.seq = NoSeq /\ n4.todo = <<>>
  BY <1>11 DEF RunRecords
<1> HIDE DEF n4
<1>13. n5 \in RunRecords /\ n5.kind = "deal" /\ n5.gen = 0 /\ n5.seq = NoSeq /\ n5.todo = <<>> /\ n5.stage = "preload"
  BY <1>12 DEF RunRecords, Stages
<1> QED BY <1>8, <1>13

LEMMA DealOutMoves ==
    ASSUME LTypes, RunsOK, NEW mode \in LdModes, NEW id \in Nat, NEW base \in LdWindows, NEW was \in Pictures,
           NEW others \in SUBSET ldRuns, ldGen' = ldGen, DealOut(mode, id, base, was, others)
    PROVE  /\ ldWin' \in [LdWindows -> Wins] /\ ldAnchor' \in LdWindows /\ ldAuto' \subseteq LdWindows /\ RunsOK'
           /\ others \subseteq ldRuns' /\ \A v \in LdWindows : Coming(v)'
<1>1. PICK anchor \in LdWindows : anchor = Initiator(base)
  BY Initiators
<1>2. PICK k \in RunRecords : k = NewRun("alloc")
  BY NewRunTypes DEF LTypes, Kinds
<1>3. k.kind = "alloc" /\ k.gen = 0 /\ k.seq = NoSeq /\ k.todo = <<>>
  BY <1>2 DEF NewRun
<1> DEFINE K(i) == [NewRun("alloc") EXCEPT !.id = id, !.mode = mode, !.w = Visible[i], !.fresh = TRUE,
                     !.stage = "style",
                     !.want = IF Visible[i] = base THEN was ELSE Blank]
<1>4. ASSUME NEW i \in DOMAIN Visible
      PROVE  /\ K(i) \in RunRecords /\ K(i).kind = "alloc" /\ K(i).gen = 0 /\ K(i).seq = NoSeq /\ K(i).todo = <<>>
             /\ K(i).stage = "style" /\ K(i).w = Visible[i]
  <2>1. Visible[i] \in LdWindows
    BY DEF LdWindows
  <2>2. PICK p \in Pictures : p = IF Visible[i] = base THEN was ELSE Blank
    BY BlankIsPicture
  <2> DEFINE n1 == [k EXCEPT !.id = id]
             n2 == [n1 EXCEPT !.mode = mode]
             n3 == [n2 EXCEPT !.w = Visible[i]]
             n4 == [n3 EXCEPT !.fresh = TRUE]
             n5 == [n4 EXCEPT !.stage = "style"]
             n6 == [n5 EXCEPT !.want = p]
  <2>3. K(i) = n6
    BY <1>2, <2>2
  <2>4. n1 \in RunRecords /\ n1.kind = "alloc" /\ n1.gen = 0 /\ n1.seq = NoSeq /\ n1.todo = <<>>
    BY <1>3 DEF RunRecords
  <2> HIDE DEF n1
  <2>5. n2 \in RunRecords /\ n2.kind = "alloc" /\ n2.gen = 0 /\ n2.seq = NoSeq /\ n2.todo = <<>>
    BY <2>4 DEF RunRecords
  <2> HIDE DEF n2
  <2>6. n3 \in RunRecords /\ n3.kind = "alloc" /\ n3.gen = 0 /\ n3.seq = NoSeq /\ n3.todo = <<>> /\ n3.w = Visible[i]
    BY <2>1, <2>5 DEF RunRecords
  <2> HIDE DEF n3
  <2>7. n4 \in RunRecords /\ n4.kind = "alloc" /\ n4.gen = 0 /\ n4.seq = NoSeq /\ n4.todo = <<>> /\ n4.w = Visible[i]
    BY <2>6 DEF RunRecords
  <2> HIDE DEF n4
  <2>8. n5 \in RunRecords /\ n5.kind = "alloc" /\ n5.gen = 0 /\ n5.seq = NoSeq /\ n5.todo = <<>> /\ n5.w = Visible[i]
        /\ n5.stage = "style"
    BY <2>7 DEF RunRecords, Stages
  <2> HIDE DEF n5
  <2>9. n6 \in RunRecords /\ n6.kind = "alloc" /\ n6.gen = 0 /\ n6.seq = NoSeq /\ n6.todo = <<>> /\ n6.w = Visible[i]
        /\ n6.stage = "style"
    BY <2>2, <2>8 DEF RunRecords
  <2> HIDE DEF K, n6
  <2> QED BY <2>3, <2>9
<1>5. /\ ldWin' = Dealt(ldWin, mode, ldWin[anchor]) /\ ldAnchor' = anchor /\ ldAuto' = LdWindows \ {anchor}
      /\ ldRuns' = others \cup {K(i) : i \in DOMAIN Visible}
  BY <1>1 DEF DealOut
<1> HIDE DEF K
<1>w. ldWin \in [LdWindows -> Wins] /\ ldWin[anchor] \in Wins /\ \A v \in LdWindows : ldWin[v].seq \in Nat
  BY DEF LTypes, Wins
<1>6. ldWin' \in [LdWindows -> Wins] /\ \A v \in LdWindows : ldWin'[v].seq = ldWin[v].seq
  BY <1>5, <1>w, DealtWindows
<1>f. PICK f : f = [i \in DOMAIN Visible |-> K(i)]
  OBVIOUS
<1>g. \A i \in DOMAIN Visible : f[i] = K(i)
  BY <1>f
<1>h. ldRuns' = others \cup {f[i] : i \in DOMAIN Visible}
  BY <1>5, <1>g
<1>k. ASSUME NEW i \in DOMAIN Visible
      PROVE  /\ f[i] \in RunRecords /\ f[i].kind = "alloc" /\ f[i].gen = 0 /\ f[i].seq = NoSeq /\ f[i].todo = <<>>
             /\ f[i].stage = "style" /\ f[i].w = Visible[i]
  BY <1>4, <1>g
<1>7. ASSUME NEW i \in DOMAIN Visible PROVE RunOK(f[i])'
  <2>0. f[i].w \in LdWindows
    BY <1>k DEF LdWindows
  <2>1. ldGen' \in Nat /\ ldWin'[f[i].w].seq \in Nat
    BY <2>0, <1>6, <1>w DEF LTypes
  <2>2. f[i].gen <= ldGen' /\ f[i].seq <= ldWin'[f[i].w].seq
    BY <1>k, <2>1 DEF NoSeq
  <2> QED BY ONLY <1>k, <2>2 DEF RunOK
<1>8. RunsOK'
  <2>1. \A v \in LdWindows : ldWin[v].seq <= ldWin'[v].seq
    BY <1>6, <1>w
  <2>2. ASSUME NEW q \in ldRuns', q \notin ldRuns PROVE RunOK(q)'
    <3>1. PICK i \in DOMAIN Visible : q = f[i]
      BY <1>h, <2>2
    <3> QED BY <1>7, <3>1 DEF RunOK
  <2> QED BY <1>6, <2>1, <2>2, RunsKept DEF LTypes
<1>9. ASSUME NEW v \in LdWindows PROVE Coming(v)'
  <2>1. PICK i \in DOMAIN Visible : Visible[i] = v
    BY DEF LdWindows
  <2>2. f[i] \in ldRuns'
    BY <1>h
  <2> QED BY <1>k, <2>1, <2>2 DEF Coming
<1> QED BY <1>5, <1>h, <1>6, <1>8, <1>9

LEMMA OneRunMore ==
    ASSUME LTypes, RunsOK, NEW n, RunOK(n)', NEW others \in SUBSET ldRuns, ldRuns' = others \cup {n}, ldGen' = ldGen,
           ldWin' \in [LdWindows -> Wins], \A v \in LdWindows : ldWin[v].seq <= ldWin'[v].seq
    PROVE  RunsOK'
<1>1. \A q \in ldRuns' : q \in ldRuns \/ RunOK(q)'
  BY DEF RunOK
<1>2. ldGen \in Nat /\ ldGen' \in Nat /\ ldGen <= ldGen' /\ ldWin \in [LdWindows -> Wins]
  BY DEF LTypes
<1> QED BY <1>1, <1>2, RunsKept

LEMMA StartMoves ==
    ASSUME LTypes, RunsOK, NEW mode \in LdModes, NEW id \in Nat,
           NEW others \in SUBSET ldRuns, ldGen' = ldGen, StartAllocation(mode, id, others)
    PROVE  /\ ldWin' \in [LdWindows -> Wins] /\ ldAnchor' \in LdWindows /\ ldAuto' \subseteq LdWindows /\ RunsOK'
           /\ ldMode' \in LdModes /\ others \subseteq ldRuns' /\ \A v \in LdWindows : Coming(v)'
<1>w. ldWin \in [LdWindows -> Wins] /\ ldFocus \in LdWindows /\ \A v \in LdWindows : ldWin[v].seq \in Nat
  BY DEF LTypes, Wins
<1>1. CASE mode = "model"
  <2>1. PICK n : n = DealRun(mode, id, ldWin)
    OBVIOUS
  <2>2. n \in RunRecords /\ n.kind = "deal" /\ n.stage = "preload" /\ n.gen = 0 /\ n.seq = NoSeq /\ n.todo = <<>>
    BY <1>w, <2>1, DealRunOK
  <2>3. ldRuns' = others \cup {n} /\ UNCHANGED <<ldWin, ldAnchor, ldAuto>> /\ ldMode' = mode
    BY <1>1, <2>1 DEF StartAllocation
  <2>4. n.w \in LdWindows
    BY <2>2 DEF RunRecords
  <2>5. n.gen <= ldGen' /\ n.seq <= ldWin'[n.w].seq
    BY <1>w, <2>2, <2>3, <2>4 DEF NoSeq, LTypes
  <2>6. RunOK(n)'
    BY ONLY <2>2, <2>5 DEF RunOK
  <2>7. RunsOK'
    <3>1. \A v \in LdWindows : ldWin[v].seq <= ldWin'[v].seq
      BY <1>w, <2>3
    <3> QED BY <1>w, <2>3, <2>6, <3>1, OneRunMore
  <2>8. \A v \in LdWindows : Coming(v)'
    BY <2>2, <2>3 DEF Coming
  <2> QED BY <2>3, <2>7, <2>8, <1>w DEF LTypes
<1>2. CASE mode # "model"
  <2>1. PICK base \in LdWindows : base = Initiator(ldFocus)
    BY <1>w, Initiators
  <2>2. PICK was \in Pictures : was = Picture(ldWin[base])
    BY <1>w, PictureTypes
  <2>3. DealOut(mode, id, base, was, others) /\ ldMode' = mode
    BY <1>2, <2>1, <2>2 DEF StartAllocation
  <2> QED BY <2>3, DealOutMoves
<1> QED BY <1>1, <1>2

LEMMA RefreshMoves ==
    ASSUME LTypes, RunsOK, NEW w \in LdWindows, NEW id \in Nat, NEW others \in SUBSET ldRuns,
           ldGen' = ldGen, ldWin' = ldWin, Refresh(w, id, others)
    PROVE  /\ ldRefresh' \in [LdWindows -> Nat] /\ RunsOK'
           /\ others \subseteq ldRuns' /\ \A q \in ldRuns' : q \in others \/ q.stage = "refresh"
<1>1. PICK k \in RunRecords : k = NewRun("refresh")
  BY NewRunTypes DEF LTypes, Kinds
<1>2. k.kind = "refresh" /\ k.gen = 0 /\ k.seq = NoSeq /\ k.todo = <<>>
  BY <1>1 DEF NewRun
<1>3. PICK b \in Int : b \in Nat /\ b = ldRefresh[w] + 1
  BY DEF LTypes
<1> DEFINE n1 == [k EXCEPT !.id = id]
           n2 == [n1 EXCEPT !.w = w]
           n3 == [n2 EXCEPT !.base = b]
           n4 == [n3 EXCEPT !.stage = "refresh"]
<1>4. ldRefresh' = [ldRefresh EXCEPT ![w] = b] /\ ldRuns' = others \cup {n4}
  BY <1>1, <1>3 DEF Refresh
<1>5. n1 \in RunRecords /\ n1.kind = "refresh" /\ n1.gen = 0 /\ n1.seq = NoSeq /\ n1.todo = <<>>
  BY <1>2 DEF RunRecords
<1> HIDE DEF n1
<1>6. n2 \in RunRecords /\ n2.kind = "refresh" /\ n2.gen = 0 /\ n2.seq = NoSeq /\ n2.todo = <<>> /\ n2.w = w
  BY <1>5 DEF RunRecords
<1> HIDE DEF n2
<1>7. n3 \in RunRecords /\ n3.kind = "refresh" /\ n3.gen = 0 /\ n3.seq = NoSeq /\ n3.todo = <<>> /\ n3.w = w
  BY <1>6 DEF RunRecords
<1> HIDE DEF n3
<1>8. PICK n : n = n4
  OBVIOUS
<1>9. n \in RunRecords /\ n.kind = "refresh" /\ n.gen = 0 /\ n.seq = NoSeq /\ n.todo = <<>> /\ n.w = w /\ n.stage = "refresh"
  BY <1>7, <1>8 DEF RunRecords, Stages
<1> HIDE DEF n4
<1>w. ldWin \in [LdWindows -> Wins] /\ \A v \in LdWindows : ldWin[v].seq \in Nat
  BY DEF LTypes, Wins
<1>10. n.gen <= ldGen' /\ n.seq <= ldWin'[n.w].seq
  BY <1>w, <1>9 DEF NoSeq, LTypes
<1>11. RunOK(n)'
  BY ONLY <1>9, <1>10 DEF RunOK
<1>12. ldRuns' = others \cup {n}
  BY <1>4, <1>8
<1>13. RunsOK'
  <2>1. \A v \in LdWindows : ldWin[v].seq <= ldWin'[v].seq
    BY <1>w
  <2> QED BY <1>11, <1>12, <1>w, <2>1, OneRunMore
<1>14. ldRefresh' \in [LdWindows -> Nat]
  <2>1. ldRefresh \in [LdWindows -> Nat] /\ b \in Nat
    BY <1>3 DEF LTypes
  <2> QED BY <1>4, <2>1
<1> QED BY <1>9, <1>12, <1>13, <1>14

(* The run that takes a selected level on to the other windows.              *)
LEMMA NavRunOK ==
    ASSUME LTypes, NEW r, RunOK(r), r.kind = "nav", r.stage \in {"data", "palette"}, NEW todo \in Seq(LdWindows)
    PROVE  LET n == [r EXCEPT !.kind = "level", !.mode = ldMode, !.todo = todo]
           IN  RunOK(n) /\ n.kind = "level" /\ n.gen = 0
<1>1. r \in RunRecords /\ r.gen = 0 /\ r.base \in 1 .. Len(Levels) /\ r.gen <= ldGen /\ r.seq <= ldWin[r.w].seq
  BY DEF RunOK
<1>2. PICK m \in LdModes : m = ldMode
  BY DEF LTypes
<1> DEFINE n1 == [r EXCEPT !.kind = "level"]
           n2 == [n1 EXCEPT !.mode = m]
           n3 == [n2 EXCEPT !.todo = todo]
<1>3. n3 = [r EXCEPT !.kind = "level", !.mode = ldMode, !.todo = todo]
  BY <1>2
<1>4. n1 \in RunRecords /\ n1.kind = "level" /\ n1.base = r.base /\ n1.gen = 0 /\ n1.seq = r.seq /\ n1.w = r.w /\ n1.stage = r.stage
  BY <1>1 DEF RunRecords, Kinds
<1> HIDE DEF n1
<1>5. n2 \in RunRecords /\ n2.kind = "level" /\ n2.base = r.base /\ n2.gen = 0 /\ n2.seq = r.seq /\ n2.w = r.w /\ n2.stage = r.stage
  BY <1>4 DEF RunRecords
<1> HIDE DEF n2
<1>6. PICK n : n = n3
  OBVIOUS
<1>7. n \in RunRecords /\ n.kind = "level" /\ n.base = r.base /\ n.gen = 0 /\ n.seq = r.seq /\ n.w = r.w /\ n.stage = r.stage
  BY <1>5, <1>6 DEF RunRecords
<1> HIDE DEF n3
<1>8. RunOK(n)
  BY <1>1, <1>7 DEF RunOK
<1> QED BY <1>3, <1>6, <1>7, <1>8

(* What a return of a load does: it moves on to the next window, or starts   *)
(* what follows it.                                                          *)
LEMMA ReturnMoves ==
    ASSUME LTypes, RunsOK, NEW r \in ldRuns, r.stage \in {"data", "palette"}, NEW shown \in [LdWindows -> Pictures],
           UNCHANGED <<ldFocus, ldGen, ldCalls>>, Return(r, shown)
    PROVE  /\ ldWin' \in [LdWindows -> Wins] /\ ldShown' \in [LdWindows -> Pictures] /\ RunsOK' /\ Moved({r}, shown)
           /\ ldMode' \in LdModes /\ ldAnchor' \in LdWindows /\ ldAuto' \subseteq LdWindows
           /\ ldRefresh' \in [LdWindows -> Nat] /\ ldMixed' \in BOOLEAN
<1>1. RunOK(r) /\ r.kind # "deal" /\ r \in RunRecords /\ r.w \in LdWindows /\ r.id \in Nat
  BY DEF RunsOK, RunOK, RunRecords
<1>2. {r} \in SUBSET ldRuns /\ \A p \in {r} : p.stage \notin {"preload", "style"}
  OBVIOUS
<1>w. ldWin \in [LdWindows -> Wins] /\ ldFocus \in LdWindows /\ \A v \in LdWindows : ldWin[v].seq \in Nat
  BY DEF LTypes, Wins
<1>g. ldGen' = ldGen
  OBVIOUS
<1>3. CASE r.kind \in {"time", "level", "one", "alloc", "reload", "refresh"}
  <2>1. GoOn(r, ldWin, shown, ldRuns \ {r}) /\ UNCHANGED <<ldMode, ldAnchor, ldAuto, ldRefresh, ldMixed>>
    BY <1>3 DEF Return
  <2>2. ldWin' \in [LdWindows -> Wins] /\ ldShown' \in [LdWindows -> Pictures] /\ RunsOK' /\ Moved({r}, shown)
    BY <1>1, <1>2, <1>g, <2>1, GoOnMoves
  <2> QED BY <2>1, <2>2 DEF LTypes
<1>n. r.kind # "time" => \A v \in LdWindows : ~Awaits(r, v)
  BY <1>1 DEF Awaits, RunOK
<1>4. CASE r.kind = "model"
  <2>1. Refresh(r.w, r.id, ldRuns \ {r}) /\ ldShown' = shown /\ UNCHANGED <<ldWin, ldMode, ldAnchor, ldAuto, ldMixed>>
    BY <1>4 DEF Return
  <2>2. /\ ldRefresh' \in [LdWindows -> Nat] /\ RunsOK'
        /\ ldRuns \ {r} \subseteq ldRuns' /\ \A q \in ldRuns' : q \in ldRuns \ {r} \/ q.stage = "refresh"
    BY <1>1, <1>g, <2>1, RefreshMoves
  <2>3. \A v \in LdWindows : Stays({r}, shown, v)
    BY <1>4, <1>n, <2>1, <2>2 DEF Stays, LoadStages
  <2> QED BY <1>2, <2>1, <2>2, <2>3 DEF LTypes, Moved
<1>5. CASE r.kind = "data"
  <2>1. ldShown' = shown /\ UNCHANGED ldRefresh
    BY <1>5 DEF Return
  <2>2. CASE ldMode # "none" /\ r.w = ldFocus
    <3>1. StartAllocation(ldMode, r.id, ldRuns \ {r}) /\ Disturbs
      BY <1>5, <2>2 DEF Return
    <3>2. ldMode \in LdModes
      BY DEF LTypes
    <3>3. /\ ldWin' \in [LdWindows -> Wins] /\ ldAnchor' \in LdWindows /\ ldAuto' \subseteq LdWindows /\ RunsOK'
          /\ ldMode' \in LdModes /\ ldRuns \ {r} \subseteq ldRuns' /\ \A v \in LdWindows : Coming(v)'
      BY <1>1, <1>g, <3>1, <3>2, StartMoves
    <3>4. ldMixed' \in BOOLEAN
      BY <3>1 DEF Disturbs
    <3> QED BY <1>2, <2>1, <3>3, <3>4 DEF LTypes, Moved
  <2>3. CASE ~(ldMode # "none" /\ r.w = ldFocus)
    <3>1. ldRuns' = ldRuns \ {r} /\ UNCHANGED <<ldWin, ldMode, ldAnchor, ldAuto, ldMixed>>
      BY <1>5, <2>3 DEF Return
    <3>2. RunsOK'
      BY <1>g, <3>1 DEF RunsOK, RunOK
    <3>3. \A v \in LdWindows : Stays({r}, shown, v)
      BY <1>5, <1>n, <2>1, <3>1 DEF Stays
    <3> QED BY <1>2, <2>1, <3>1, <3>2, <3>3 DEF LTypes, Moved
  <2> QED BY <2>2, <2>3
<1>6. CASE r.kind = "nav"
  <2>0. NavReturn(r, shown, ldRuns \ {r}) /\ UNCHANGED <<ldRefresh, ldMixed>>
    BY <1>6 DEF Return
  <2>b. r.base \in 1 .. Len(Levels) /\ r.gen = 0
    BY <1>1, <1>6 DEF RunOK
  <2>1. CASE r.w = ldFocus /\ ldMode \in {"step", "time"}
    <3>1. PICK rest : rest = SubSeq(Visible, 1, PositionOf(ldFocus) - 1) \o SubSeq(Visible, PositionOf(ldFocus) + 1, Len(Visible))
      OBVIOUS
    <3>2. rest \in Seq(LdWindows)
      <4>1. PICK k \in 1 .. Len(Visible) : k = PositionOf(ldFocus)
        BY <1>w, Places
      <4>2. Visible \in Seq(LdWindows)
        BY WindowLoadsAssumption
      <4>3. SubSeq(Visible, 1, k - 1) \in Seq(LdWindows) /\ SubSeq(Visible, k + 1, Len(Visible)) \in Seq(LdWindows)
        BY <4>1, <4>2
      <4> QED BY <3>1, <4>1, <4>3
    <3>3. PICK n : n = [r EXCEPT !.kind = "level", !.mode = ldMode, !.todo = rest]
      OBVIOUS
    <3>4. GoOn(n, ldWin, shown, ldRuns \ {r}) /\ UNCHANGED <<ldMode, ldAnchor, ldAuto>>
      BY <2>0, <2>1, <3>1, <3>3 DEF NavReturn
    <3>9. RunOK(n) /\ n.kind = "level"
      BY <1>1, <1>6, <3>2, <3>3, NavRunOK
    <3>10. \A p \in {r} : p.stage \notin {"preload", "style"} /\ \A v \in LdWindows : Awaits(p, v) => Awaits(n, v)
      BY <1>6, <1>n
    <3>11. ldWin' \in [LdWindows -> Wins] /\ ldShown' \in [LdWindows -> Pictures] /\ RunsOK' /\ Moved({r}, shown)
      BY <1>2, <1>g, <3>4, <3>9, <3>10, GoOnMoves
    <3> QED BY <2>0, <3>4, <3>11 DEF LTypes
  <2>2. CASE r.w = ldFocus /\ ldMode = "model"
    <3>1. PICK i \in LdWindows : i = Initiator(ldFocus)
      BY <1>w, Initiators
    <3>2. PICK wins : wins = [ldWin EXCEPT ![i].level = r.base]
      OBVIOUS
    <3>3. wins \in [LdWindows -> Wins] /\ \A v \in LdWindows : wins[v].seq = ldWin[v].seq
      <4> DEFINE win == [ldWin[i] EXCEPT !.level = r.base]
      <4>1. win \in Wins /\ win.seq = ldWin[i].seq
        BY <1>w, <2>b DEF Wins
      <4>2. wins = [ldWin EXCEPT ![i] = win]
        BY <3>2
      <4> HIDE DEF win
      <4> QED BY <1>w, <4>1, <4>2
    <3>4. PICK n : n = DealRun("model", r.id, wins)
      OBVIOUS
    <3>5. n \in RunRecords /\ n.kind = "deal" /\ n.stage = "preload" /\ n.gen = 0 /\ n.seq = NoSeq /\ n.todo = <<>>
      BY <1>1, <3>3, <3>4, DealRunOK DEF LdModes
    <3>6. ldWin' = wins /\ ldShown' = shown /\ ldRuns' = (ldRuns \ {r}) \cup {n} /\ UNCHANGED <<ldMode, ldAnchor, ldAuto>>
      BY <2>0, <2>2, <3>1, <3>2, <3>4 DEF NavReturn
    <3>7. n.w \in LdWindows
      BY <3>5 DEF RunRecords
    <3>8. n.gen <= ldGen' /\ n.seq <= ldWin'[n.w].seq
      <4>1. ldWin'[n.w].seq \in Nat /\ ldGen' \in Nat
        BY <1>w, <1>g, <3>3, <3>6, <3>7 DEF LTypes
      <4> QED BY <3>5, <4>1 DEF NoSeq
    <3>9. RunOK(n)'
      BY ONLY <3>5, <3>8 DEF RunOK
    <3>10. RunsOK'
      <4>1. \A v \in LdWindows : ldWin[v].seq <= ldWin'[v].seq
        BY <1>w, <3>3, <3>6
      <4> QED BY <1>g, <3>3, <3>6, <3>9, <4>1, OneRunMore
    <3>11. \A v \in LdWindows : Coming(v)'
      BY <3>5, <3>6 DEF Coming
    <3> QED BY <1>2, <2>0, <3>3, <3>6, <3>10, <3>11 DEF LTypes, Moved
  <2>3. CASE ~(r.w = ldFocus /\ ldMode \in {"step", "time", "model"})
    <3>1. ldRuns' = ldRuns \ {r} /\ ldShown' = shown /\ UNCHANGED <<ldWin, ldMode, ldAnchor, ldAuto>>
      BY <2>0, <2>3 DEF NavReturn
    <3>2. RunsOK'
      BY <1>g, <3>1 DEF RunsOK, RunOK
    <3>3. \A v \in LdWindows : Stays({r}, shown, v)
      BY <1>6, <1>n, <3>1 DEF Stays
    <3> QED BY <1>2, <2>0, <3>1, <3>2, <3>3 DEF LTypes, Moved
  <2> QED BY <2>1, <2>2, <2>3
<1> QED BY <1>1, <1>3, <1>4, <1>5, <1>6 DEF RunRecords, Kinds
-----------------------------------------------------------------------------
LEMMA MovedAway ==
    ASSUME NEW S, NEW shown, Moved(S, shown), NEW v \in Restarted
    PROVE  Safe(v)'
<1>1. v \in LdWindows /\ ldWin'[v].seq # ldWin[v].seq
  BY DEF Restarted
<1>2. ~Stays(S, shown, v)
  BY <1>1 DEF Stays
<1> QED BY <1>1, <1>2 DEF Moved, Starts, Safe

LEMMA ReturnKeeps ==
    ASSUME LInv, NEW r \in ldRuns, Dropped(r) \/ FetchFails(r) \/ Drawn(r) \/ PaletteReady(r)
    PROVE  LInv'
<1>0. LTypes /\ RunsOK /\ r.stage \in {"data", "palette"} /\ UNCHANGED <<ldFocus, ldGen, ldCalls>>
  BY DEF LInv, Dropped, FetchFails, Drawn, PaletteReady
<1>1. r \in RunRecords /\ r.w \in LdWindows /\ r.want \in Pictures
  BY <1>0 DEF RunsOK, RunOK, RunRecords
<1>2. PICK shown \in [LdWindows -> Pictures] :
         /\ Return(r, shown)
         /\ \A v \in LdWindows : v # r.w => shown[v] = ldShown[v]
         /\ \/ shown[r.w] = ldShown[r.w] /\ (Outdated(r) \/ r.w \in ldHole' \/ r.w \in Restarted)
            \/ shown[r.w] = r.want /\ ((~Outdated(r) /\ r.seq # NoSeq) \/ r.w \in ldHole' \/ r.w \in Restarted)
  <2>1. ldShown \in [LdWindows -> Pictures]
    BY <1>0 DEF LTypes
  <2>2. CASE Dropped(r)
    BY <2>1, <2>2 DEF Dropped
  <2>3. CASE FetchFails(r)
    BY <1>1, <2>1, <2>3 DEF FetchFails
  <2>4. CASE Drawn(r) \/ PaletteReady(r)
    <3>1. PICK shown : shown = [ldShown EXCEPT ![r.w] = r.want]
      OBVIOUS
    <3>2. shown \in [LdWindows -> Pictures] /\ shown[r.w] = r.want /\ \A v \in LdWindows : v # r.w => shown[v] = ldShown[v]
      BY <1>1, <2>1, <3>1
    <3>3. Return(r, shown) /\ ((~Outdated(r) /\ r.seq # NoSeq) \/ r.w \in ldHole' \/ r.w \in Restarted)
      BY <2>4, <3>1 DEF Drawn, PaletteReady
    <3> QED BY <3>2, <3>3
  <2> QED BY <2>2, <2>3, <2>4
<1>3. /\ ldWin' \in [LdWindows -> Wins] /\ ldShown' \in [LdWindows -> Pictures] /\ RunsOK' /\ Moved({r}, shown)
      /\ ldMode' \in LdModes /\ ldAnchor' \in LdWindows /\ ldAuto' \subseteq LdWindows
      /\ ldRefresh' \in [LdWindows -> Nat] /\ ldMixed' \in BOOLEAN
  BY <1>0, <1>2, ReturnMoves
<1>4. /\ ldHole' \subseteq LdWindows
      /\ \A v \in LdWindows : v \notin ldHole' => v \in Restarted \/ v \notin ldHole
  BY <1>0, <1>1 DEF LTypes, Dropped, FetchFails, Drawn, PaletteReady
<1>5. LTypes'
  BY <1>0, <1>3, <1>4 DEF LTypes
<1>6. ASSUME NEW v \in LdWindows, v \notin ldHole', v \notin Restarted PROVE Safe(v)'
  <2>1. Safe(v)
    BY <1>4, <1>6 DEF LInv
  <2>2. {r} \in SUBSET ldRuns /\ ldGen' = ldGen
    BY <1>0
  <2>3. CASE InLoad(r, v)
    <3>1. v = r.w /\ r.seq = ldWin[r.w].seq /\ ~Outdated(r)
      BY <2>3 DEF InLoad, Outdated
    <3>2. shown[v] = r.want
      BY <1>2, <1>6, <3>1
    <3> QED BY <1>0, <1>3, <2>1, <2>2, <2>3, <3>2, DrawnIsRight
  <2>4. CASE ~InLoad(r, v)
    <3>1. shown[v] = ldShown[v]
      <4>1. CASE v # r.w
        BY <1>2, <4>1
      <4>2. CASE v = r.w
        <5>1. r.seq # ldWin[r.w].seq
          BY <1>0, <2>4, <4>2 DEF InLoad, LoadStages
        <5> QED BY <1>2, <1>6, <4>2, <5>1 DEF Outdated
      <4> QED BY <4>1, <4>2
    <3>2. \A p \in {r} : ~InLoad(p, v)
      BY <2>4
    <3> QED BY <1>0, <1>3, <2>1, <2>2, <3>1, <3>2, MovedKeeps
  <2> QED BY <2>3, <2>4
<1>7. \A v \in LdWindows \ ldHole' : Safe(v)'
  <2>1. ASSUME NEW v \in LdWindows \ ldHole', v \in Restarted PROVE Safe(v)'
    BY <1>3, <2>1, MovedAway
  <2> QED BY <1>6, <2>1
<1> QED BY <1>3, <1>5, <1>7 DEF LInv

(* A step that gives window w a new number and a load of its own.            *)
LEMMA StartOne ==
    ASSUME LTypes, RunsOK, NEW w \in LdWindows, NEW win \in Wins, win.seq = ldWin[w].seq + 1,
           NEW S \in SUBSET ldRuns, \A p \in S : p.stage \in {"style", "refresh"} /\ p.w = w,
           NEW n \in RunRecords, n.w = w, n.seq = win.seq, n.stage \in LoadStages, n.stage = "preset" \/ n.want = Picture(win),
           n.kind \notin {"time", "level", "deal"}, n.todo = <<>>, n.gen = 0,
           n.kind = "nav" => n.base \in 1 .. Len(Levels), n.kind = "data" => n.delta \in PresetLevels,
           n.stage = "preset" => n.kind = "data",
           ldWin' = [ldWin EXCEPT ![w] = win], ldRuns' = (ldRuns \ S) \cup {n}, ldGen' = ldGen,
           \A v \in LdWindows : v # w => ldShown'[v] = ldShown[v]
    PROVE  /\ ldWin' \in [LdWindows -> Wins] /\ RunsOK'
           /\ Safe(w)' /\ \A v \in LdWindows : v # w /\ Safe(v) => Safe(v)'
<1>w. ldWin \in [LdWindows -> Wins] /\ win.seq \in Nat /\ ldGen \in Nat /\ \A v \in LdWindows : ldWin[v].seq \in Nat
  BY DEF LTypes, Wins
<1>1. ldWin' \in [LdWindows -> Wins] /\ ldWin'[w] = win /\ \A v \in LdWindows : v # w => ldWin'[v] = ldWin[v]
  BY <1>w
<1>2. RunOK(n)'
  <2>1. n.gen <= ldGen' /\ n.seq <= ldWin'[n.w].seq
    BY <1>w, <1>1
  <2> QED BY <2>1 DEF RunOK, LoadStages
<1>3. RunsOK'
  <2>1. \A v \in LdWindows : ldWin[v].seq <= ldWin'[v].seq
    <3> SUFFICES ASSUME NEW v \in LdWindows PROVE ldWin[v].seq <= ldWin'[v].seq
      OBVIOUS
    <3>1. CASE v = w
      <4>1. ldWin'[v].seq = ldWin[v].seq + 1 /\ ldWin[v].seq \in Nat
        BY <1>w, <1>1, <3>1
      <4> QED BY ONLY <4>1
    <3>2. CASE v # w
      <4>1. ldWin'[v].seq = ldWin[v].seq /\ ldWin[v].seq \in Nat
        BY <1>w, <1>1, <3>2
      <4> QED BY ONLY <4>1
    <3> QED BY <3>1, <3>2
  <2>2. ldRuns \ S \in SUBSET ldRuns
    OBVIOUS
  <2> QED BY <1>1, <1>2, <2>1, <2>2, OneRunMore
<1>4. Starts(w)
  <2>1. n \in ldRuns' /\ \A q \in ldRuns' : q = n \/ q \in ldRuns
    OBVIOUS
  <2>2. n.seq = ldWin'[w].seq /\ ldWin'[w].seq = ldWin[w].seq + 1 /\ (n.stage = "preset" \/ n.want = Picture(ldWin'[w]))
    BY <1>1
  <2> QED BY <2>1, <2>2, StartedIsRight
<1>5. ASSUME NEW v \in LdWindows, v # w, Safe(v) PROVE Safe(v)'
  <2>1. \A p \in S : ~Awaits(p, v) /\ ~InLoad(p, v)
    BY <1>5 DEF Awaits, InLoad, LoadStages, RunsOK, RunOK
  <2>2. Stays(S, ldShown, v)
    BY <1>1, <1>5, <2>1 DEF Stays
  <2> QED BY <1>5, <2>1, <2>2, StaysKeeps
<1> QED BY <1>1, <1>3, <1>4, <1>5 DEF Starts, Safe
-----------------------------------------------------------------------------
(* The steps of the runs *)

(* A load that waits for the next of its answers is the same load.           *)
LEMMA StageKeeps ==
    ASSUME LInv, NEW r \in ldRuns, CyclesReady(r) \/ PaletteAsked(r)
    PROVE  LInv'
<1>1. PICK stage \in {"data", "palette"} :
         /\ r.stage \in {"cycles", "data"} /\ ldRuns' = (ldRuns \ {r}) \cup {[r EXCEPT !.stage = stage]}
         /\ UNCHANGED <<ldFocus, ldMode, ldAnchor, ldAuto, ldWin, ldRefresh, ldShown, ldGen, ldCalls, ldHole, ldMixed>>
  BY DEF CyclesReady, PaletteAsked
<1>0. LTypes /\ RunsOK /\ RunOK(r) /\ r \in RunRecords
  BY DEF LInv, RunsOK, RunOK
<1>2. PICK n : n = [r EXCEPT !.stage = stage]
  OBVIOUS
<1>3. /\ n \in RunRecords /\ n.stage = stage /\ n.w = r.w /\ n.seq = r.seq /\ n.want = r.want /\ n.gen = r.gen /\ n.todo = r.todo
      /\ n.kind = r.kind /\ n.base = r.base /\ n.delta = r.delta /\ n.fresh = r.fresh
  BY <1>0, <1>2 DEF RunRecords, Stages
<1>4. LTypes'
  BY <1>0, <1>1 DEF LTypes
<1>5. RunOK(n)'
  <2>1. RunOK(n)
    BY <1>0, <1>1, <1>3 DEF RunOK
  <2> QED BY <1>1, <2>1 DEF RunOK
<1>6. RunsOK'
  <2>1. ldRuns' = (ldRuns \ {r}) \cup {n} /\ ldGen' = ldGen /\ ldWin' = ldWin
    BY <1>1, <1>2
  <2> QED BY <1>0, <1>5, <2>1 DEF RunsOK, RunOK
<1>7. ASSUME NEW v \in LdWindows, Safe(v) PROVE Safe(v)'
  <2>1. /\ ldRuns' = (ldRuns \ {r}) \cup {n} /\ UNCHANGED <<ldWin, ldShown, ldGen>>
        /\ InLoad(n, v) <=> InLoad(r, v)
        /\ Awaits(n, v) <=> Awaits(r, v)
    BY <1>1, <1>2, <1>3 DEF InLoad, LoadStages, Awaits
  <2>2. CASE Coming(v)
    <3>1. PICK q \in ldRuns : q.stage = "preload" \/ (q.stage = "style" /\ q.kind = "alloc" /\ q.w = v) \/ Awaits(q, v)
      BY <2>2 DEF Coming
    <3>2. CASE q = r
      <4>1. Awaits(n, v) /\ n \in ldRuns'
        BY <1>1, <2>1, <3>1, <3>2
      <4> QED BY <2>1, <4>1 DEF Coming, Awaits, Safe
    <3>3. CASE q # r
      BY <2>1, <3>1, <3>3 DEF Coming, Awaits, Safe
    <3> QED BY <3>2, <3>3
  <2>3. CASE Right(v)
    <3>1. \A q \in ldRuns' : InLoad(q, v) => q.stage = "preset" \/ q.want = Picture(ldWin[v])
      BY <1>1, <1>3, <2>1, <2>3 DEF Right
    <3>2. (\E q \in ldRuns : InLoad(q, v)) => \E q \in ldRuns' : InLoad(q, v)
      BY <2>1
    <3>3. Right(v)'
      BY <2>1, <2>3, <3>1, <3>2 DEF Right, InLoad, Picture
    <3> QED BY <3>3 DEF Safe
  <2> QED BY <1>7, <2>2, <2>3 DEF Safe
<1>8. \A v \in LdWindows \ ldHole' : Safe(v)'
  BY <1>1, <1>7 DEF LInv
<1> QED BY <1>4, <1>6, <1>8 DEF LInv

LEMMA PresetReadyKeeps ==
    ASSUME LInv, NEW r \in ldRuns, PresetReady(r)
    PROVE  LInv'
<1>0. LTypes /\ RunsOK /\ RunOK(r) /\ r \in RunRecords /\ r.stage = "preset" /\ r.w \in LdWindows
  BY DEF LInv, RunsOK, RunOK, PresetReady, RunRecords
<1>1. ldWin \in [LdWindows -> Wins] /\ ldWin[r.w] \in Wins /\ ldShown \in [LdWindows -> Pictures]
  BY <1>0 DEF LTypes
<1>2. PICK l : l = Loading(r, ldWin[r.w])
  OBVIOUS
<1>3. /\ l \in RunRecords /\ l.want = Picture(ldWin[r.w]) /\ l.stage \in {"cycles", "data"}
      /\ l.kind = r.kind /\ l.gen = r.gen /\ l.base = r.base /\ l.delta = r.delta /\ l.todo = r.todo /\ l.w = r.w
  BY <1>0, <1>1, <1>2, LoadingTypes
<1>4. PICK n : n = [l EXCEPT !.seq = r.seq]
  OBVIOUS
<1>5. /\ n \in RunRecords /\ n.want = Picture(ldWin[r.w]) /\ n.stage \in {"cycles", "data"} /\ n.seq = r.seq
      /\ n.kind = r.kind /\ n.gen = r.gen /\ n.base = r.base /\ n.delta = r.delta /\ n.todo = r.todo /\ n.w = r.w
  <2>1. r.seq \in Nat \cup {NoSeq}
    BY <1>0 DEF RunRecords
  <2> QED BY <1>3, <1>4, <2>1 DEF RunRecords
<1>6. /\ ldRuns' = (ldRuns \ {r}) \cup {n} /\ ldShown' = Wiped(ldShown, r)
      /\ ldHole' = IF ldWin[r.w].seq # r.seq THEN ldHole \cup {r.w} ELSE ldHole
      /\ UNCHANGED <<ldFocus, ldMode, ldAnchor, ldAuto, ldWin, ldRefresh, ldGen, ldCalls, ldMixed>>
  BY <1>2, <1>4 DEF PresetReady
<1>7. /\ ldShown' \in [LdWindows -> Pictures] /\ ldHole' \subseteq LdWindows
      /\ \A v \in LdWindows : v # r.w => ldShown'[v] = ldShown[v]
  BY <1>0, <1>1, <1>6, WipedTypes DEF LTypes
<1>8. LTypes'
  BY <1>0, <1>6, <1>7 DEF LTypes
<1>9. RunOK(n)'
  <2>1. r.kind \in {"data", "alloc"}
    BY <1>0 DEF RunOK
  <2>2. RunOK(n)
    BY <1>0, <1>5, <2>1 DEF RunOK
  <2> QED BY <1>6, <2>2 DEF RunOK
<1>10. RunsOK'
  BY <1>0, <1>6, <1>9 DEF RunsOK, RunOK
<1>11. \A v \in LdWindows : ~Awaits(r, v) /\ r.kind \in {"data", "alloc"}
  BY <1>0 DEF Awaits, RunOK
<1>12. ASSUME NEW v \in LdWindows \ ldHole' PROVE Safe(v)'
  <2>1. Safe(v)
    BY <1>6, <1>12 DEF LInv
  <2>2. CASE v # r.w
    <3>1. Stays({r}, ldShown, v)
      BY <1>5, <1>6, <1>7, <1>11, <2>2 DEF Stays
    <3>2. \A p \in {r} : ~InLoad(p, v)
      BY <2>2 DEF InLoad
    <3> QED BY <1>0, <1>6, <2>1, <2>2, <3>1, <3>2, StaysKeeps
  <2>3. CASE v = r.w
    <3>1. r.seq = ldWin[v].seq
      BY <1>6, <1>12, <2>3
    <3>2. CASE Coming(v)
      <4>1. PICK q \in ldRuns : q.stage = "preload" \/ (q.stage = "style" /\ q.kind = "alloc" /\ q.w = v) \/ Awaits(q, v)
        BY <3>2 DEF Coming
      <4>2. q # r
        BY <1>0, <1>11, <4>1
      <4> QED BY <1>6, <4>1, <4>2 DEF Coming, Awaits, Safe
    <3>3. CASE Right(v)
      <4>1. InLoad(n, v) /\ n.want = Picture(ldWin[v]) /\ n \in ldRuns'
        BY <1>5, <1>6, <2>3, <3>1 DEF InLoad, LoadStages
      <4>2. \A q \in ldRuns' : InLoad(q, v) => q.stage = "preset" \/ q.want = Picture(ldWin[v])
        BY <1>6, <3>3, <4>1 DEF Right
      <4>3. Right(v)'
        BY <1>6, <4>1, <4>2 DEF Right, InLoad, Picture
      <4> QED BY <4>3 DEF Safe
    <3> QED BY <2>1, <3>2, <3>3 DEF Safe
  <2> QED BY <2>2, <2>3
<1> QED BY <1>8, <1>10, <1>12 DEF LInv

LEMMA LevelsKnownKeeps ==
    ASSUME LInv, NEW r \in ldRuns, LevelsKnown(r)
    PROVE  LInv'
<1>0. LTypes /\ RunsOK /\ r.mode \in LdModes /\ r.id \in Nat /\ r.w \in LdWindows /\ r.want \in Pictures
  BY DEF LInv, RunsOK, RunOK, RunRecords
<1>1. /\ DealOut(r.mode, r.id, r.w, r.want, ldRuns \ {r}) /\ ldMixed' \in BOOLEAN
      /\ UNCHANGED <<ldFocus, ldMode, ldRefresh, ldShown, ldGen, ldCalls, ldHole>>
  BY DEF LevelsKnown
<1>2. /\ ldWin' \in [LdWindows -> Wins] /\ ldAnchor' \in LdWindows /\ ldAuto' \subseteq LdWindows /\ RunsOK'
      /\ \A v \in LdWindows : Coming(v)'
  BY <1>0, <1>1, DealOutMoves
<1>3. LTypes'
  BY <1>0, <1>1, <1>2 DEF LTypes
<1> QED BY <1>2, <1>3 DEF LInv, Safe

LEMMA Numbered ==
    ASSUME NEW win \in Wins
    PROVE  [win EXCEPT !.seq = @ + 1] \in Wins /\ [win EXCEPT !.seq = @ + 1].seq = win.seq + 1
<1>1. win.seq + 1 \in Nat
  BY DEF Wins
<1> QED BY <1>1 DEF Wins

LEMMA Changed ==
    ASSUME NEW win \in Wins, NEW c \in Int
    PROVE  /\ [win EXCEPT !.init = c] \in Wins /\ [win EXCEPT !.init = c].seq = win.seq
           /\ Picture([win EXCEPT !.init = c]) = Picture(win)
           /\ [win EXCEPT !.cycle = c] \in Wins /\ [win EXCEPT !.cycle = c].seq = win.seq
<1>3. [win EXCEPT !.init = c] \in Wins /\ [win EXCEPT !.init = c].seq = win.seq
  BY DEF Wins
<1>4. [win EXCEPT !.cycle = c] \in Wins /\ [win EXCEPT !.cycle = c].seq = win.seq
  BY DEF Wins
<1>5. Picture([win EXCEPT !.init = c]) = Picture(win)
  BY DEF Picture, Wins
<1> QED BY <1>3, <1>4, <1>5

LEMMA StyleReadyKeeps ==
    ASSUME LInv, NEW r \in ldRuns, StyleReady(r)
    PROVE  LInv'
<1>0. LTypes /\ RunsOK /\ RunOK(r) /\ r \in RunRecords /\ r.stage = "style" /\ r.w \in LdWindows
  BY DEF LInv, RunsOK, RunOK, StyleReady, RunRecords
<1>1. /\ ldWin \in [LdWindows -> Wins] /\ ldWin[r.w] \in Wins /\ ldShown \in [LdWindows -> Pictures]
      /\ ldRefresh \in [LdWindows -> Nat] /\ ldHole \subseteq LdWindows
  BY <1>0 DEF LTypes
<1>2. r.kind \in {"data", "alloc"} /\ r.todo = <<>> /\ r.gen = 0
  BY <1>0 DEF RunOK
<1>3. UNCHANGED <<ldFocus, ldMode, ldAnchor, ldAuto, ldGen, ldCalls, ldMixed>>
  BY DEF StyleReady
<1>s. {r} \in SUBSET ldRuns /\ \A p \in {r} : p.stage \in {"style", "refresh"} /\ p.w = r.w
  BY <1>0
<1>m. PICK told : told = IF r.kind = "alloc" /\ r.mode \in {"model", "step", "time"}
                         THEN [ldWin EXCEPT ![r.w].init = ldWin[r.w].cycle] ELSE ldWin
  OBVIOUS
<1>t. /\ told[r.w] \in Wins /\ told[r.w].seq = ldWin[r.w].seq /\ Picture(told[r.w]) = Picture(ldWin[r.w])
      /\ told \in [LdWindows -> Wins] /\ \A v \in LdWindows : v # r.w => told[v] = ldWin[v]
  <2>1. PICK c \in Int : c = ldWin[r.w].cycle
    BY <1>1 DEF Wins
  <2>2. PICK e \in Wins : e = [ldWin[r.w] EXCEPT !.init = c] /\ e.seq = ldWin[r.w].seq /\ Picture(e) = Picture(ldWin[r.w])
    BY <1>1, Changed
  <2>3. told = ldWin \/ told = [ldWin EXCEPT ![r.w] = e]
    BY <1>m, <2>1, <2>2
  <2> QED BY <1>0, <1>1, <2>2, <2>3
<1>4. CASE /\ ldRuns' = ldRuns \ {r} /\ ldWin' = told
           /\ ldHole' = IF ldShown[r.w] # Picture(told[r.w]) \/ \E q \in ldRuns \ {r} : q.w = r.w
                        THEN ldHole \cup {r.w} ELSE ldHole
           /\ UNCHANGED <<ldShown, ldRefresh>>
  <2>1. LTypes'
    BY <1>0, <1>1, <1>3, <1>4, <1>t DEF LTypes
  <2>2. RunsOK'
    <3>1. \A v \in LdWindows : ldWin'[v].seq = ldWin[v].seq /\ ldWin[v].seq \in Nat
      BY <1>1, <1>4, <1>t DEF Wins
    <3>2. \A v \in LdWindows : ldWin[v].seq <= ldWin'[v].seq
      BY <3>1
    <3>3. ldGen \in Nat /\ ldGen' \in Nat /\ ldGen <= ldGen' /\ \A q \in ldRuns' : q \in ldRuns
      BY <1>0, <1>3, <1>4 DEF LTypes
    <3> QED BY <1>0, <1>1, <1>4, <1>t, <3>2, <3>3, RunsKept
  <2>3. ASSUME NEW v \in LdWindows \ ldHole' PROVE Safe(v)'
    <3>1. CASE v # r.w
      <4>1. Safe(v)
        BY <1>4, <2>3 DEF LInv
      <4>2. Stays({r}, ldShown, v)
        BY <1>2, <1>4, <1>t, <3>1 DEF Stays, Awaits
      <4>3. \A p \in {r} : ~InLoad(p, v)
        BY <3>1 DEF InLoad
      <4> QED BY <1>0, <1>3, <1>4, <3>1, <4>1, <4>2, <4>3, StaysKeeps
    <3>2. CASE v = r.w
      <4>1. ldShown[v] = Picture(told[v]) /\ \A q \in ldRuns' : q.w # v
        BY <1>4, <2>3, <3>2
      <4>2. Right(v)'
        BY <1>4, <4>1 DEF Right, InLoad, Picture
      <4> QED BY <4>2 DEF Safe
    <3> QED BY <3>1, <3>2
  <2> QED BY <2>1, <2>2, <2>3 DEF LInv
<1>5. ASSUME NEW win \in Wins, win.seq = ldWin[r.w].seq + 1, NEW n \in RunRecords, n.w = r.w, n.seq = win.seq,
             n.stage \in LoadStages, n.stage = "preset" \/ n.want = Picture(win), n.kind = r.kind, n.delta = r.delta,
             n.todo = <<>>, n.gen = 0, n.stage = "preset" => n.kind = "data",
             ldWin' = [ldWin EXCEPT ![r.w] = win], ldRuns' = (ldRuns \ {r}) \cup {n}, ldHole' = ldHole \ {r.w},
             ldShown' \in [LdWindows -> Pictures], \A v \in LdWindows : v # r.w => ldShown'[v] = ldShown[v],
             ldRefresh' \in [LdWindows -> Nat]
      PROVE  LInv'
  <2>1. n.kind = "data" => n.delta \in PresetLevels
    BY <1>0, <1>5 DEF RunOK
  <2>2. /\ ldWin' \in [LdWindows -> Wins] /\ RunsOK'
        /\ Safe(r.w)' /\ \A v \in LdWindows : v # r.w /\ Safe(v) => Safe(v)'
    BY <1>0, <1>2, <1>3, <1>5, <1>s, <2>1, StartOne
  <2>3. LTypes'
    BY <1>0, <1>1, <1>3, <1>5, <2>2 DEF LTypes
  <2>4. \A v \in LdWindows \ ldHole : Safe(v)
    BY DEF LInv
  <2>5. \A v \in LdWindows \ ldHole' : Safe(v)'
    BY <1>5, <2>2, <2>4
  <2> QED BY <2>2, <2>3, <2>5 DEF LInv
<1>6. CASE r.kind = "data" /\ ldHole' = ldHole \ {r.w}
           /\ LET win == [ldWin[r.w] EXCEPT !.seq = @ + 1]
                  preset == [win EXCEPT !.level = r.delta, !.model = 1, !.cycle = 0, !.init = 0]
              IN  /\ ldWin' = [ldWin EXCEPT ![r.w] = preset]
                  /\ ldRefresh' = [ldRefresh EXCEPT ![r.w] = @ + 1]
                  /\ ldRuns' = (ldRuns \ {r}) \cup {[r EXCEPT !.seq = win.seq, !.stage = "preset"]}
                  /\ UNCHANGED ldShown
  <2>0. PICK win : win = [ldWin[r.w] EXCEPT !.seq = @ + 1]
    OBVIOUS
  <2>1. win \in Wins /\ win.seq = ldWin[r.w].seq + 1
    BY <1>1, <2>0, Numbered
  <2>2. r.delta \in 1 .. Len(Levels) /\ 1 \in 1 .. Len(Models)
    BY <1>0, <1>6, WindowLoadsAssumption DEF RunOK
  <2> DEFINE p1 == [win EXCEPT !.level = r.delta]
             p2 == [p1 EXCEPT !.model = 1]
             p3 == [p2 EXCEPT !.cycle = 0]
             p4 == [p3 EXCEPT !.init = 0]
             n1 == [r EXCEPT !.seq = win.seq]
             n2 == [n1 EXCEPT !.stage = "preset"]
  <2>3. ldWin' = [ldWin EXCEPT ![r.w] = p4] /\ ldRuns' = (ldRuns \ {r}) \cup {n2}
    BY <1>6, <2>0
  <2>4. p1 \in Wins /\ p1.seq = win.seq
    BY <2>1, <2>2 DEF Wins
  <2>5. win.seq \in Nat
    BY <2>1 DEF Wins
  <2>6. n1 \in RunRecords /\ n1.w = r.w /\ n1.seq = win.seq /\ n1.kind = r.kind /\ n1.delta = r.delta /\ n1.todo = <<>> /\ n1.gen = 0
    BY <1>0, <1>2, <2>5 DEF RunRecords
  <2> HIDE DEF p1, n1
  <2>7. p2 \in Wins /\ p2.seq = win.seq
    BY <2>2, <2>4 DEF Wins
  <2> HIDE DEF p2
  <2>8. p3 \in Wins /\ p3.seq = win.seq
    BY <2>7 DEF Wins
  <2> HIDE DEF p3
  <2>9. p4 \in Wins /\ p4.seq = win.seq
    BY <2>8 DEF Wins
  <2> HIDE DEF p3
  <2>10. n2 \in RunRecords /\ n2.w = r.w /\ n2.seq = win.seq /\ n2.kind = r.kind /\ n2.delta = r.delta /\ n2.todo = <<>>
         /\ n2.gen = 0 /\ n2.stage = "preset"
    BY <2>6 DEF RunRecords, Stages
  <2> HIDE DEF p4, n2
  <2>11. ldRefresh' \in [LdWindows -> Nat]
    <3>1. ldRefresh' = [ldRefresh EXCEPT ![r.w] = @ + 1]
      BY <1>6
    <3> QED BY <1>0, <1>1, <3>1
  <2>12. PICK w, n : w = p4 /\ n = n2
    OBVIOUS
  <2>13. ldWin' = [ldWin EXCEPT ![r.w] = w] /\ ldRuns' = (ldRuns \ {r}) \cup {n} /\ ldHole' = ldHole \ {r.w} /\ ldShown' = ldShown
    BY <1>6, <2>3, <2>12
  <2>14. n.stage \in LoadStages /\ r.kind = "data"
    BY <1>6, <2>10, <2>12 DEF LoadStages
  <2> QED BY <1>1, <1>5, <2>1, <2>9, <2>10, <2>11, <2>12, <2>13, <2>14
<1>7. CASE r.kind # "data" /\ ldHole' = ldHole \ {r.w}
           /\ LET dealt == [told[r.w] EXCEPT !.seq = @ + 1]
              IN  /\ ldWin' = [ldWin EXCEPT ![r.w] = dealt]
                  /\ ldRuns' = (ldRuns \ {r}) \cup {Loading(r, dealt)}
                  /\ ldShown' = Wiped(ldShown, r)
                  /\ UNCHANGED ldRefresh
  <2>0. PICK win : win = [told[r.w] EXCEPT !.seq = @ + 1]
    OBVIOUS
  <2>1. win \in Wins /\ win.seq = ldWin[r.w].seq + 1
    BY <1>t, <2>0, Numbered
  <2>2. PICK n : n = Loading(r, win)
    OBVIOUS
  <2>3. /\ n \in RunRecords /\ n.seq = win.seq /\ n.want = Picture(win) /\ n.stage \in {"cycles", "data"}
        /\ n.kind = r.kind /\ n.gen = 0 /\ n.delta = r.delta /\ n.todo = <<>> /\ n.w = r.w
    BY <1>0, <1>2, <2>1, <2>2, LoadingTypes
  <2>4. ldShown' \in [LdWindows -> Pictures] /\ \A v \in LdWindows : v # r.w => ldShown'[v] = ldShown[v]
    BY <1>0, <1>1, <1>7, WipedTypes
  <2>5. ldWin' = [ldWin EXCEPT ![r.w] = win] /\ ldRuns' = (ldRuns \ {r}) \cup {n}
    BY <1>7, <2>0, <2>2
  <2>6. n.stage \in LoadStages /\ n.stage # "preset" /\ ldRefresh' = ldRefresh /\ ldHole' = ldHole \ {r.w}
    BY <1>7, <2>3 DEF LoadStages
  <2> QED BY <1>1, <1>5, <2>1, <2>3, <2>4, <2>5, <2>6
<1> QED BY <1>4, <1>6, <1>7, <1>m DEF StyleReady

LEMMA RefreshReadyKeeps ==
    ASSUME LInv, NEW r \in ldRuns, RefreshReady(r)
    PROVE  LInv'
<1>0. LTypes /\ RunsOK /\ RunOK(r) /\ r \in RunRecords /\ r.stage = "refresh" /\ r.w \in LdWindows
  BY DEF LInv, RunsOK, RunOK, RefreshReady, RunRecords
<1>1. /\ ldWin \in [LdWindows -> Wins] /\ ldWin[r.w] \in Wins /\ ldShown \in [LdWindows -> Pictures] /\ ldHole \subseteq LdWindows
  BY <1>0 DEF LTypes
<1>2. r.kind = "refresh" /\ r.todo = <<>> /\ r.gen = 0
  BY <1>0 DEF RunOK
<1>3. UNCHANGED <<ldFocus, ldMode, ldAnchor, ldAuto, ldRefresh, ldShown, ldGen, ldCalls>> /\ ldMixed' \in BOOLEAN
  BY <1>0 DEF RefreshReady, Disturbs, LTypes
<1>c. PICK c \in Int : c = ldWin[r.w].init
  BY <1>1 DEF Wins
<1>4. CASE /\ ldRuns' = ldRuns \ {r}
           /\ ldWin' = ldWin \/ ldWin' = [ldWin EXCEPT ![r.w].cycle = ldWin[r.w].init]
           /\ ldHole' = IF ldWin' = ldWin THEN ldHole ELSE ldHole \cup {r.w}
  <2>1. PICK e : e = [ldWin[r.w] EXCEPT !.cycle = c]
    OBVIOUS
  <2>2. e \in Wins /\ e.seq = ldWin[r.w].seq
    BY <1>1, <2>1, Changed
  <2>3. ldWin' = ldWin \/ ldWin' = [ldWin EXCEPT ![r.w] = e]
    BY <1>4, <1>c, <2>1
  <2>4. /\ ldWin' \in [LdWindows -> Wins] /\ \A v \in LdWindows : ldWin'[v].seq = ldWin[v].seq /\ ldWin[v].seq \in Nat
        /\ \A v \in LdWindows : v # r.w => ldWin'[v] = ldWin[v]
    <3>1. \A v \in LdWindows : ldWin[v].seq \in Nat
      BY <1>1 DEF Wins
    <3> QED BY <1>0, <1>1, <2>2, <2>3, <3>1
  <2>5. LTypes'
    BY <1>0, <1>1, <1>3, <1>4, <2>4 DEF LTypes
  <2>6. RunsOK'
    <3>1. \A v \in LdWindows : ldWin[v].seq <= ldWin'[v].seq
      BY <2>4
    <3>2. ldGen \in Nat /\ ldGen' \in Nat /\ ldGen <= ldGen' /\ \A q \in ldRuns' : q \in ldRuns
      BY <1>0, <1>3, <1>4 DEF LTypes
    <3> QED BY <1>0, <1>1, <2>4, <3>1, <3>2, RunsKept
  <2>7. ASSUME NEW v \in LdWindows \ ldHole' PROVE Safe(v)'
    <3>1. Safe(v) /\ ldWin'[v] = ldWin[v]
      BY <1>4, <2>4, <2>7 DEF LInv
    <3>2. Stays({r}, ldShown, v)
      BY <1>2, <1>3, <1>4, <3>1 DEF Stays, Awaits
    <3>3. \A p \in {r} : ~InLoad(p, v) /\ p.stage = "refresh"
      BY <1>0 DEF InLoad, LoadStages
    <3> QED BY <1>0, <1>3, <1>4, <3>1, <3>2, <3>3, StaysKeeps
  <2> QED BY <2>5, <2>6, <2>7 DEF LInv
<1>n. PICK next : next = [ldWin[r.w] EXCEPT !.seq = @ + 1, !.cycle = ldWin[r.w].init]
  OBVIOUS
<1>5. CASE /\ ldWin' = [ldWin EXCEPT ![r.w] = next] /\ ldRuns' = (ldRuns \ {r}) \cup {Loading(r, next)}
           /\ ldHole' = ldHole \ {r.w}
  <2>1. PICK a : a = [ldWin[r.w] EXCEPT !.seq = @ + 1]
    OBVIOUS
  <2>2. a \in Wins /\ a.seq = ldWin[r.w].seq + 1
    BY <1>1, <2>1, Numbered
  <2>3. PICK win : win = [a EXCEPT !.cycle = c]
    OBVIOUS
  <2>4. win \in Wins /\ win.seq = ldWin[r.w].seq + 1
    BY <2>2, <2>3, Changed
  <2>5. win = next
    BY <1>c, <1>n, <2>1, <2>3
  <2>6. PICK n : n = Loading(r, win)
    OBVIOUS
  <2>7. /\ n \in RunRecords /\ n.seq = win.seq /\ n.want = Picture(win) /\ n.stage \in {"cycles", "data"}
        /\ n.kind = r.kind /\ n.gen = 0 /\ n.todo = <<>> /\ n.w = r.w
    BY <1>0, <1>2, <2>4, <2>6, LoadingTypes
  <2>8. ldWin' = [ldWin EXCEPT ![r.w] = win] /\ ldRuns' = (ldRuns \ {r}) \cup {n}
    BY <1>5, <2>5, <2>6
  <2>9. n.stage \in LoadStages /\ n.stage # "preset" /\ n.kind = "refresh"
    BY <1>2, <2>7 DEF LoadStages
  <2>10. {r} \in SUBSET ldRuns /\ \A p \in {r} : p.stage \in {"style", "refresh"} /\ p.w = r.w
    BY <1>0
  <2>11. /\ ldWin' \in [LdWindows -> Wins] /\ RunsOK'
         /\ Safe(r.w)' /\ \A v \in LdWindows : v # r.w /\ Safe(v) => Safe(v)'
    BY <1>0, <1>3, <2>4, <2>7, <2>8, <2>9, <2>10, StartOne
  <2>12. LTypes'
    BY <1>0, <1>1, <1>3, <1>5, <2>11 DEF LTypes
  <2>13. \A v \in LdWindows \ ldHole : Safe(v)
    BY DEF LInv
  <2>14. \A v \in LdWindows \ ldHole' : Safe(v)'
    BY <1>5, <2>11, <2>13
  <2> QED BY <2>11, <2>12, <2>14 DEF LInv
<1>6. CASE ~(ldRefresh[r.w] = r.base /\ ldWin[r.w].cycle # ldWin[r.w].init /\ r.w = ldFocus)
  <2>1. /\ ldRuns' = ldRuns \ {r}
        /\ ldWin' = IF ldRefresh[r.w] = r.base THEN [ldWin EXCEPT ![r.w].cycle = ldWin[r.w].init] ELSE ldWin
        /\ ldHole' = IF ldWin' = ldWin THEN ldHole ELSE ldHole \cup {r.w}
    BY <1>6 DEF RefreshReady
  <2> QED BY <1>4, <2>1
<1>7. CASE ldRefresh[r.w] = r.base /\ ldWin[r.w].cycle # ldWin[r.w].init /\ r.w = ldFocus
  <2>1. ldHole' = ldHole \ {r.w}
    BY <1>7 DEF RefreshReady
  <2>2. ldRuns' = (ldRuns \ {r}) \cup {Loading(r, next)}
    BY <1>7, <1>n DEF RefreshReady
  <2>3. ldWin' = [ldWin EXCEPT ![r.w] = next]
    BY <1>7, <1>n DEF RefreshReady
  <2> QED BY <1>5, <2>1, <2>2, <2>3
<1> QED BY <1>6, <1>7
-----------------------------------------------------------------------------
(* The operator's handlers *)

LEMMA LevelStepGoes ==
    ASSUME LInv, NEW delta \in {1, -1}, LevelStep(delta)
    PROVE  \E n : RunOK(n) /\ n.kind = "level" /\ GoOn(n, ldWin, ldShown, ldRuns)
<1>0. LTypes /\ RunsOK /\ ldGen' = ldGen /\ ldFocus \in LdWindows /\ ldWin \in [LdWindows -> Wins]
      /\ ldShown \in [LdWindows -> Pictures] /\ ldHole \subseteq LdWindows
  BY DEF LInv, LTypes, LevelStep
<1>1. PICK k \in RunRecords : k = NewRun("level")
  BY <1>0, NewRunTypes DEF LTypes, Kinds
<1>2. k.kind = "level" /\ k.gen = 0 /\ k.seq = NoSeq /\ k.stage = "data" /\ k.w \in LdWindows
  BY <1>1 DEF NewRun, RunRecords
<1>3. PICK b \in Int : b \in 1 .. Len(Levels) /\ b = Shift(ldWin[ldFocus].level, delta)
  <2>1. ldWin[ldFocus].level \in 1 .. Len(Levels) /\ Len(Levels) \in Nat \ {0}
    BY <1>0, WindowLoadsAssumption DEF Wins
  <2> QED BY <2>1 DEF Shift
<1>4. PICK todo \in Seq(LdWindows) : todo = IF ldMode # "none" THEN Visible ELSE <<ldFocus>>
  <2>1. Visible \in Seq(LdWindows) /\ <<ldFocus>> \in Seq(LdWindows)
    BY <1>0, WindowLoadsAssumption
  <2> QED BY <2>1
<1> DEFINE n1 == [k EXCEPT !.delta = delta]
           n2 == [n1 EXCEPT !.base = b]
           n3 == [n2 EXCEPT !.fresh = TRUE]
           n4 == [n3 EXCEPT !.todo = todo]
<1>5. GoOn(n4, ldWin, ldShown, ldRuns)
  BY <1>1, <1>3, <1>4 DEF LevelStep
<1>6. n1 \in RunRecords /\ n1.kind = "level" /\ n1.gen = 0 /\ n1.seq = NoSeq /\ n1.stage = "data" /\ n1.w \in LdWindows
  BY <1>2 DEF RunRecords
<1> HIDE DEF n1
<1>7. n2 \in RunRecords /\ n2.kind = "level" /\ n2.gen = 0 /\ n2.seq = NoSeq /\ n2.stage = "data" /\ n2.w \in LdWindows /\ n2.base = b
  BY <1>6 DEF RunRecords
<1> HIDE DEF n2
<1>8. n3 \in RunRecords /\ n3.kind = "level" /\ n3.gen = 0 /\ n3.seq = NoSeq /\ n3.stage = "data" /\ n3.w \in LdWindows /\ n3.base = b
  BY <1>7 DEF RunRecords
<1> HIDE DEF n3
<1>9. PICK n : n = n4
  OBVIOUS
<1>10. n \in RunRecords /\ n.kind = "level" /\ n.gen = 0 /\ n.seq = NoSeq /\ n.stage = "data" /\ n.w \in LdWindows /\ n.base = b
  BY <1>8, <1>9 DEF RunRecords
<1> HIDE DEF n4
<1>11. RunOK(n)
  <2>1. ldGen \in Nat /\ ldWin[n.w].seq \in Nat
    BY <1>0, <1>10 DEF LTypes, Wins
  <2>2. n.gen <= ldGen /\ n.seq <= ldWin[n.w].seq
    BY <1>10, <2>1 DEF NoSeq
  <2> QED BY <1>3, <1>10, <2>2 DEF RunOK
<1> QED BY <1>5, <1>9, <1>10, <1>11

LEMMA LevelStepKeeps ==
    ASSUME LInv, NEW delta \in {1, -1}, LevelStep(delta)
    PROVE  LInv'
<1>0. LTypes /\ RunsOK /\ ldGen' = ldGen /\ ldFocus \in LdWindows /\ ldWin \in [LdWindows -> Wins]
      /\ ldShown \in [LdWindows -> Pictures] /\ ldHole \subseteq LdWindows
  BY DEF LInv, LTypes, LevelStep
<1>5. /\ ldHole' = ldHole \ Restarted /\ ldCalls' = ldCalls + 1
      /\ UNCHANGED <<ldFocus, ldMode, ldAnchor, ldAuto, ldRefresh, ldMixed>>
  BY DEF LevelStep, Restarted, Call
<1>11. PICK n : RunOK(n) /\ n.kind = "level" /\ GoOn(n, ldWin, ldShown, ldRuns)
  BY LevelStepGoes
<1>12. ldWin' \in [LdWindows -> Wins] /\ ldShown' \in [LdWindows -> Pictures] /\ RunsOK' /\ Moved({}, ldShown)
  <2>1. GoOn(n, ldWin, ldShown, ldRuns \ {})
    BY <1>11
  <2>2. \A p \in {} : p.stage \notin {"preload", "style"} /\ \A v \in LdWindows : Awaits(p, v) => Awaits(n, v)
    OBVIOUS
  <2>3. {} \in SUBSET ldRuns /\ n.kind # "deal"
    BY <1>11
  <2> QED BY ONLY <1>0, <1>11, <2>1, <2>2, <2>3, GoOnMoves
<1>13. LTypes'
  BY <1>0, <1>5, <1>12 DEF LTypes
<1>14. ASSUME NEW v \in LdWindows \ ldHole' PROVE Safe(v)'
  <2>1. CASE v \in Restarted
    BY <1>12, <2>1, MovedAway
  <2>2. CASE v \notin Restarted
    <3>1. Safe(v)
      BY <1>5, <1>14, <2>2 DEF LInv
    <3>2. {} \in SUBSET ldRuns /\ \A p \in {} : ~InLoad(p, v)
      OBVIOUS
    <3> QED BY <1>0, <1>12, <3>1, <3>2, MovedKeeps
  <2> QED BY <2>1, <2>2
<1> QED BY <1>12, <1>13, <1>14 DEF LInv

(* A handler that sets one window and loads it with a number of its own.     *)
LEMMA HandlerStarts ==
    ASSUME LInv, NEW w \in LdWindows, NEW win \in Wins, win.seq = ldWin[w].seq + 1,
           NEW n \in RunRecords, n.w = w, n.seq = win.seq, n.stage \in {"cycles", "data"}, n.want = Picture(win),
           n.kind \in {"one", "nav", "model"}, n.todo = <<>>, n.gen = 0,
           n.kind = "nav" => n.base \in 1 .. Len(Levels),
           ldWin' = [ldWin EXCEPT ![w] = win], ldRuns' = ldRuns \cup {n}, ldHole' = ldHole \ {w},
           ldShown' \in [LdWindows -> Pictures], \A v \in LdWindows : v # w => ldShown'[v] = ldShown[v],
           UNCHANGED <<ldFocus, ldMode, ldAnchor, ldAuto, ldRefresh, ldGen, ldMixed>>, ldCalls' = ldCalls + 1
    PROVE  LInv'
<1>1. LTypes /\ RunsOK /\ ldGen' = ldGen /\ \A v \in LdWindows \ ldHole : Safe(v)
  BY DEF LInv
<1>2. {} \in SUBSET ldRuns /\ ldRuns' = (ldRuns \ {}) \cup {n} /\ \A p \in {} : p.stage \in {"style", "refresh"} /\ p.w = w
  OBVIOUS
<1>3. n.stage \in LoadStages /\ n.stage # "preset" /\ n.kind \notin {"time", "level", "deal", "data"}
  BY DEF LoadStages
<1>4. /\ ldWin' \in [LdWindows -> Wins] /\ RunsOK'
      /\ Safe(w)' /\ \A v \in LdWindows : v # w /\ Safe(v) => Safe(v)'
  BY <1>1, <1>2, <1>3, StartOne
<1>5. LTypes'
  BY <1>1, <1>4 DEF LTypes
<1>6. \A v \in LdWindows \ ldHole' : Safe(v)'
  BY <1>1, <1>4
<1> QED BY <1>4, <1>5, <1>6 DEF LInv

LEMMA LevelSelectKeeps ==
    ASSUME LInv, NEW l \in DOMAIN Levels, LevelSelect(l)
    PROVE  LInv'
<1>0. LTypes /\ ldFocus \in LdWindows /\ ldWin[ldFocus] \in Wins /\ ldShown \in [LdWindows -> Pictures] /\ l \in 1 .. Len(Levels)
  BY WindowLoadsAssumption DEF LInv, LTypes
<1>1. PICK k \in RunRecords : k = NewRun("nav")
  BY <1>0, NewRunTypes DEF LTypes, Kinds
<1>2. k.kind = "nav" /\ k.gen = 0 /\ k.todo = <<>> /\ k.w = ldFocus
  BY <1>1 DEF NewRun
<1> DEFINE r1 == [k EXCEPT !.base = l]
           r2 == [r1 EXCEPT !.fresh = TRUE]
           w1 == [ldWin[ldFocus] EXCEPT !.seq = @ + 1]
           w2 == [w1 EXCEPT !.level = l]
<1>3. r1 \in RunRecords /\ r1.kind = "nav" /\ r1.gen = 0 /\ r1.todo = <<>> /\ r1.w = ldFocus /\ r1.base = l
  BY <1>0, <1>2 DEF RunRecords
<1>4. w1 \in Wins /\ w1.seq = ldWin[ldFocus].seq + 1
  BY <1>0, Numbered
<1>5. r2 = [k EXCEPT !.base = l, !.fresh = TRUE] /\ w2 = [ldWin[ldFocus] EXCEPT !.seq = @ + 1, !.level = l]
  OBVIOUS
<1> HIDE DEF r1, w1
<1>6. r2 \in RunRecords /\ r2.kind = "nav" /\ r2.gen = 0 /\ r2.todo = <<>> /\ r2.w = ldFocus /\ r2.base = l
  BY <1>3 DEF RunRecords
<1>7. w2 \in Wins /\ w2.seq = ldWin[ldFocus].seq + 1
  BY <1>0, <1>4 DEF Wins
<1> HIDE DEF r2, w2
<1>8. PICK r, win : r = r2 /\ win = w2
  OBVIOUS
<1>9. PICK n : n = Loading(r, win)
  OBVIOUS
<1>10. /\ n \in RunRecords /\ n.seq = win.seq /\ n.want = Picture(win) /\ n.stage \in {"cycles", "data"}
       /\ n.kind = "nav" /\ n.gen = 0 /\ n.base = l /\ n.todo = <<>> /\ n.w = ldFocus
  BY <1>6, <1>7, <1>8, <1>9, LoadingTypes
<1>11. /\ ldWin' = [ldWin EXCEPT ![ldFocus] = win] /\ ldRuns' = ldRuns \cup {n} /\ ldHole' = ldHole \ {ldFocus}
       /\ ldShown' = Wiped(ldShown, r)
       /\ UNCHANGED <<ldFocus, ldMode, ldAnchor, ldAuto, ldRefresh, ldGen, ldMixed>> /\ ldCalls' = ldCalls + 1
  <2>1. r = [NewRun("nav") EXCEPT !.base = l, !.fresh = TRUE]
    BY <1>1, <1>5, <1>8
  <2>2. win = [ldWin[r.w] EXCEPT !.seq = @ + 1, !.level = l] /\ r.w = ldFocus
    BY <1>5, <1>6, <1>8
  <2> QED BY <1>9, <2>1, <2>2 DEF LevelSelect, Call
<1>12. ldShown' \in [LdWindows -> Pictures] /\ \A v \in LdWindows : v # ldFocus => ldShown'[v] = ldShown[v]
  BY <1>0, <1>6, <1>8, <1>11, WipedTypes
<1> QED BY <1>0, <1>7, <1>8, <1>10, <1>11, <1>12, HandlerStarts

LEMMA ModelSelectKeeps ==
    ASSUME LInv, NEW m \in DOMAIN Models, ModelSelect(m)
    PROVE  LInv'
<1>0. LTypes /\ ldFocus \in LdWindows /\ ldWin[ldFocus] \in Wins /\ ldShown \in [LdWindows -> Pictures] /\ m \in 1 .. Len(Models)
  BY WindowLoadsAssumption DEF LInv, LTypes
<1>1. PICK k \in RunRecords : k = NewRun("model")
  BY <1>0, NewRunTypes DEF LTypes, Kinds
<1>2. k.kind = "model" /\ k.gen = 0 /\ k.todo = <<>> /\ k.w = ldFocus
  BY <1>1 DEF NewRun
<1>3. PICK r : r = [k EXCEPT !.fresh = TRUE]
  OBVIOUS
<1>4. r \in RunRecords /\ r.kind = "model" /\ r.gen = 0 /\ r.todo = <<>> /\ r.w = ldFocus
  BY <1>2, <1>3 DEF RunRecords
<1> DEFINE w1 == [ldWin[ldFocus] EXCEPT !.seq = @ + 1]
           w2 == [w1 EXCEPT !.model = m]
           w3 == [w2 EXCEPT !.cycle = 0]
<1>5. w1 \in Wins /\ w1.seq = ldWin[ldFocus].seq + 1
  BY <1>0, Numbered
<1>6. w3 = [ldWin[ldFocus] EXCEPT !.seq = @ + 1, !.model = m, !.cycle = 0]
  OBVIOUS
<1> HIDE DEF w1
<1>7. w2 \in Wins /\ w2.seq = ldWin[ldFocus].seq + 1
  BY <1>0, <1>5 DEF Wins
<1> HIDE DEF w2
<1>8. w3 \in Wins /\ w3.seq = ldWin[ldFocus].seq + 1
  BY <1>7 DEF Wins
<1> HIDE DEF w3
<1>9. PICK win : win = w3
  OBVIOUS
<1>10. PICK n : n = Loading(r, win)
  OBVIOUS
<1>11. /\ n \in RunRecords /\ n.seq = win.seq /\ n.want = Picture(win) /\ n.stage \in {"cycles", "data"}
       /\ n.kind = "model" /\ n.gen = 0 /\ n.todo = <<>> /\ n.w = ldFocus
  BY <1>4, <1>8, <1>9, <1>10, LoadingTypes
<1>12. /\ ldWin' = [ldWin EXCEPT ![ldFocus] = win] /\ ldRuns' = ldRuns \cup {n} /\ ldHole' = ldHole \ {ldFocus}
       /\ ldShown' = Wiped(ldShown, r)
       /\ UNCHANGED <<ldFocus, ldMode, ldAnchor, ldAuto, ldRefresh, ldGen, ldMixed>> /\ ldCalls' = ldCalls + 1
  BY <1>1, <1>3, <1>6, <1>9, <1>10 DEF ModelSelect, Call
<1>13. ldShown' \in [LdWindows -> Pictures] /\ \A v \in LdWindows : v # ldFocus => ldShown'[v] = ldShown[v]
  BY <1>0, <1>4, <1>12, WipedTypes
<1> QED BY <1>0, <1>8, <1>9, <1>11, <1>12, <1>13, HandlerStarts

(* A handler that leaves the loads and the pictures alone but for one more   *)
(* run keeps every window that stays out of the exceptions.                  *)
LEMMA NoRunStays ==
    ASSUME LInv, NEW v \in LdWindows, Safe(v), ldRuns \subseteq ldRuns', ldGen' = ldGen,
           ldWin'[v] = ldWin[v], ldShown'[v] = ldShown[v],
           \A q \in ldRuns' : q \in ldRuns \/ q.w # v \/ q.stage \notin LoadStages
    PROVE  Safe(v)'
<1>1. Stays({}, ldShown, v)
  BY DEF Stays
<1>2. LTypes /\ {} \in SUBSET ldRuns /\ ldRuns \ {} \subseteq ldRuns'
  BY DEF LInv
<1>3. \A p \in {} : ~InLoad(p, v) /\ p.stage # "preload" /\ (p.stage = "style" => p.kind # "alloc" \/ p.w # v)
  OBVIOUS
<1> QED BY <1>1, <1>2, <1>3, StaysKeeps

LEMMA LoadDataKeeps ==
    ASSUME LInv, NEW level \in PresetLevels, LoadData(level)
    PROVE  LInv'
<1>0. LTypes /\ RunsOK /\ ldFocus \in LdWindows /\ ldGen \in Nat /\ ldWin \in [LdWindows -> Wins] /\ level \in Int
  BY WindowLoadsAssumption DEF LInv, LTypes
<1>1. PICK k \in RunRecords : k = NewRun("data")
  BY <1>0, NewRunTypes DEF LTypes, Kinds
<1>2. k.kind = "data" /\ k.gen = 0 /\ k.todo = <<>> /\ k.seq = NoSeq
  BY <1>1 DEF NewRun
<1> DEFINE n1 == [k EXCEPT !.delta = level]
           n2 == [n1 EXCEPT !.fresh = TRUE]
           n3 == [n2 EXCEPT !.stage = "style"]
<1>3. n1 \in RunRecords /\ n1.kind = "data" /\ n1.gen = 0 /\ n1.todo = <<>> /\ n1.seq = NoSeq /\ n1.delta = level
  BY <1>0, <1>2 DEF RunRecords
<1>4. n3 = [NewRun("data") EXCEPT !.delta = level, !.fresh = TRUE, !.stage = "style"]
  BY <1>1
<1> HIDE DEF n1
<1>5. n2 \in RunRecords /\ n2.kind = "data" /\ n2.gen = 0 /\ n2.todo = <<>> /\ n2.seq = NoSeq /\ n2.delta = level
  BY <1>3 DEF RunRecords
<1> HIDE DEF n2
<1>6. PICK n : n = n3
  OBVIOUS
<1>7. n \in RunRecords /\ n.kind = "data" /\ n.gen = 0 /\ n.todo = <<>> /\ n.seq = NoSeq /\ n.delta = level /\ n.stage = "style"
  BY <1>5, <1>6 DEF RunRecords, Stages
<1> HIDE DEF n3
<1>8. /\ ldRuns' = ldRuns \cup {n} /\ ldAuto' = ldAuto \ {ldFocus} /\ ldCalls' = ldCalls + 1
      /\ UNCHANGED <<ldFocus, ldMode, ldAnchor, ldWin, ldRefresh, ldShown, ldGen, ldHole, ldMixed>>
  BY <1>4, <1>6 DEF LoadData, Call
<1>9. LTypes'
  BY <1>0, <1>8 DEF LTypes
<1>10. \A v \in LdWindows : ldWin[v].seq \in Nat
  BY <1>0 DEF Wins
<1>11. RunOK(n)'
  <2>1. n.w \in LdWindows
    BY <1>7 DEF RunRecords
  <2>2. n.gen <= ldGen' /\ n.seq <= ldWin'[n.w].seq
    BY <1>0, <1>7, <1>8, <1>10, <2>1 DEF NoSeq
  <2>3. n.delta \in PresetLevels
    BY <1>7
  <2> QED BY ONLY <1>7, <2>2, <2>3 DEF RunOK
<1>12. RunsOK'
  <2>1. ldRuns \in SUBSET ldRuns /\ ldGen' = ldGen /\ ldWin' \in [LdWindows -> Wins]
    BY <1>0, <1>8
  <2>2. \A v \in LdWindows : ldWin[v].seq <= ldWin'[v].seq
    BY <1>8, <1>10
  <2> QED BY <1>0, <1>8, <1>11, <2>1, <2>2, OneRunMore
<1>13. ASSUME NEW v \in LdWindows \ ldHole' PROVE Safe(v)'
  <2>1. Safe(v)
    BY <1>8, <1>13 DEF LInv
  <2>2. \A q \in ldRuns' : q \in ldRuns \/ q.stage \notin LoadStages
    BY <1>7, <1>8 DEF LoadStages
  <2> QED BY <1>8, <2>1, <2>2, NoRunStays
<1> QED BY <1>9, <1>12, <1>13 DEF LInv

LEMMA FocusWindowKeeps ==
    ASSUME LInv, NEW w \in LdWindows, FocusWindow(w)
    PROVE  LInv'
<1>0. LTypes /\ RunsOK /\ ldCalls + 1 \in Nat /\ ldRuns \in SUBSET ldRuns
  BY DEF LInv, LTypes
<1>1. /\ Refresh(w, ldCalls + 1, ldRuns) /\ ldFocus' = w /\ ldCalls' = ldCalls + 1
      /\ UNCHANGED <<ldMode, ldAnchor, ldAuto, ldWin, ldShown, ldGen, ldHole, ldMixed>>
  BY DEF FocusWindow, Call
<1>2. /\ ldRefresh' \in [LdWindows -> Nat] /\ RunsOK' /\ ldRuns \subseteq ldRuns'
      /\ \A q \in ldRuns' : q \in ldRuns \/ q.stage = "refresh"
  BY <1>0, <1>1, RefreshMoves
<1>3. LTypes'
  BY <1>0, <1>1, <1>2 DEF LTypes
<1>4. ASSUME NEW v \in LdWindows \ ldHole' PROVE Safe(v)'
  <2>1. Safe(v)
    BY <1>1, <1>4 DEF LInv
  <2>2. \A q \in ldRuns' : q \in ldRuns \/ q.stage \notin LoadStages
    BY <1>2 DEF LoadStages
  <2> QED BY <1>1, <1>2, <2>1, <2>2, NoRunStays
<1> QED BY <1>2, <1>3, <1>4 DEF LInv

LEMMA AllocateKeeps ==
    ASSUME LInv, NEW mode \in LdModes, Allocate(mode)
    PROVE  LInv'
<1>0. LTypes /\ RunsOK /\ ldCalls + 1 \in Nat /\ ldRuns \in SUBSET ldRuns
  BY DEF LInv, LTypes
<1>1. /\ ldCalls' = ldCalls + 1 /\ ldMixed' \in BOOLEAN
      /\ UNCHANGED <<ldFocus, ldRefresh, ldShown, ldGen, ldHole>>
  BY <1>0 DEF Allocate, Call, Disturbs
<1>2. CASE mode = "none"
  <2>1. ldMode' = mode /\ UNCHANGED <<ldWin, ldAnchor, ldAuto, ldRuns>>
    BY <1>2 DEF Allocate
  <2>2. LTypes'
    BY <1>0, <1>1, <2>1 DEF LTypes
  <2>3. RunsOK'
    BY <1>0, <1>1, <2>1 DEF RunsOK, RunOK
  <2>4. \A v \in LdWindows \ ldHole' : Safe(v)'
    <3>1. ASSUME NEW v \in LdWindows \ ldHole' PROVE Safe(v)'
      <4>1. Safe(v)
        BY <1>1, <3>1 DEF LInv
      <4> QED BY <1>1, <2>1, <4>1, NoRunStays
    <3> QED BY <3>1
  <2> QED BY <2>2, <2>3, <2>4 DEF LInv
<1>3. CASE mode # "none"
  <2>1. StartAllocation(mode, ldCalls + 1, ldRuns)
    BY <1>3 DEF Allocate
  <2>2. /\ ldWin' \in [LdWindows -> Wins] /\ ldAnchor' \in LdWindows /\ ldAuto' \subseteq LdWindows /\ RunsOK'
        /\ ldMode' \in LdModes /\ \A v \in LdWindows : Coming(v)'
    BY <1>0, <1>1, <2>1, StartMoves
  <2>3. LTypes'
    BY <1>0, <1>1, <2>2 DEF LTypes
  <2> QED BY <2>2, <2>3 DEF LInv, Safe
<1> QED BY <1>2, <1>3

LEMMA ReloadKeeps ==
    ASSUME LInv, NEW fresh \in BOOLEAN, Reload(fresh)
    PROVE  LInv'
<1>0. /\ LTypes /\ RunsOK /\ ldFocus \in LdWindows /\ ldGen \in Nat /\ ldWin \in [LdWindows -> Wins]
      /\ ldWin[ldFocus] \in Wins /\ ldShown \in [LdWindows -> Pictures] /\ ldHole \subseteq LdWindows
  BY DEF LInv, LTypes
<1>1. PICK k \in RunRecords : k = NewRun("reload")
  BY <1>0, NewRunTypes DEF LTypes, Kinds
<1>2. k.kind = "reload" /\ k.gen = 0 /\ k.todo = <<>> /\ k.w = ldFocus
  BY <1>1 DEF NewRun
<1>3. PICK r : r = [k EXCEPT !.fresh = fresh]
  OBVIOUS
<1>4. r \in RunRecords /\ r.kind = "reload" /\ r.gen = 0 /\ r.todo = <<>> /\ r.w = ldFocus
  BY <1>2, <1>3 DEF RunRecords
<1>o. PICK old \in Wins : old = ldWin[ldFocus]
  BY <1>0
<1>5. PICK newest : newest = [old EXCEPT !.cycle = 0]
  OBVIOUS
<1>6. newest \in Wins /\ newest.seq = ldWin[ldFocus].seq
  <2>1. newest \in Wins /\ newest.seq = old.seq
    BY <1>5 DEF Wins
  <2> QED BY <1>o, <2>1
<1>7. PICK win \in Wins : win = (IF fresh THEN newest ELSE ldWin[ldFocus]) /\ win.seq = ldWin[ldFocus].seq
  BY <1>0, <1>6
<1>8. PICK l : l = Loading(r, win)
  OBVIOUS
<1>9. l \in RunRecords /\ l.stage \in {"cycles", "data"} /\ l.kind = "reload" /\ l.gen = 0 /\ l.todo = <<>> /\ l.w = ldFocus
  BY <1>4, <1>7, <1>8, LoadingTypes
<1>10. PICK n : n = [l EXCEPT !.seq = NoSeq]
  OBVIOUS
<1>11. n \in RunRecords /\ n.seq = NoSeq /\ n.stage \in {"cycles", "data"} /\ n.kind = "reload" /\ n.gen = 0 /\ n.todo = <<>> /\ n.w = ldFocus
  BY <1>9, <1>10 DEF RunRecords
<1>12. /\ ldWin' = [ldWin EXCEPT ![ldFocus] = win] /\ ldRuns' = ldRuns \cup {n} /\ ldHole' = ldHole \cup {ldFocus}
       /\ ldShown' = Wiped(ldShown, r)
       /\ UNCHANGED <<ldFocus, ldMode, ldAnchor, ldAuto, ldRefresh, ldGen, ldMixed>> /\ ldCalls' = ldCalls + 1
  <2>1. win = IF fresh THEN [ldWin[r.w] EXCEPT !.cycle = 0] ELSE ldWin[r.w]
    BY <1>4, <1>5, <1>7, <1>o
  <2>2. r = [NewRun("reload") EXCEPT !.fresh = fresh] /\ n = [Loading(r, win) EXCEPT !.seq = NoSeq]
    BY <1>1, <1>3, <1>8, <1>10
  <2>3. /\ ldWin' = [ldWin EXCEPT ![r.w] = win] /\ ldRuns' = ldRuns \cup {n} /\ ldHole' = ldHole \cup {r.w}
        /\ ldShown' = Wiped(ldShown, r)
    <3>1. ldWin' = [ldWin EXCEPT ![r.w] = win]
      BY <2>1, <2>2 DEF Reload
    <3>2. ldRuns' = ldRuns \cup {n}
      BY <2>1, <2>2 DEF Reload
    <3>3. ldHole' = ldHole \cup {r.w} /\ ldShown' = Wiped(ldShown, r)
      BY <2>2 DEF Reload
    <3> QED BY <3>1, <3>2, <3>3
  <2>4. UNCHANGED <<ldFocus, ldMode, ldAnchor, ldAuto, ldRefresh, ldGen, ldMixed>> /\ ldCalls' = ldCalls + 1
    BY DEF Reload, Call
  <2> QED BY <1>4, <2>3, <2>4
<1>13. ldShown' \in [LdWindows -> Pictures] /\ \A v \in LdWindows : v # ldFocus => ldShown'[v] = ldShown[v]
  BY <1>0, <1>4, <1>12, WipedTypes
<1>14. /\ ldWin' \in [LdWindows -> Wins] /\ \A v \in LdWindows : v # ldFocus => ldWin'[v] = ldWin[v]
       /\ \A v \in LdWindows : ldWin'[v].seq = ldWin[v].seq
  BY <1>0, <1>7, <1>12
<1>15. \A v \in LdWindows : ldWin[v].seq \in Nat
  BY <1>0 DEF Wins
<1>16. LTypes'
  BY <1>0, <1>12, <1>13, <1>14 DEF LTypes
<1>17. RunOK(n)'
  <2>1. n.gen <= ldGen' /\ n.seq <= ldWin'[n.w].seq
    <3>1. ldWin'[n.w].seq \in Nat /\ ldGen' \in Nat
      BY <1>0, <1>11, <1>12, <1>14, <1>15
    <3> QED BY <1>11, <3>1 DEF NoSeq
  <2> QED BY ONLY <1>11, <2>1 DEF RunOK
<1>18. RunsOK'
  <2>1. ldRuns \in SUBSET ldRuns /\ ldGen' = ldGen
    BY <1>12
  <2>2. \A v \in LdWindows : ldWin[v].seq <= ldWin'[v].seq
    BY <1>14, <1>15
  <2> QED BY <1>0, <1>12, <1>14, <1>17, <2>1, <2>2, OneRunMore
<1>19. ASSUME NEW v \in LdWindows \ ldHole' PROVE Safe(v)'
  <2>1. Safe(v) /\ v # ldFocus
    BY <1>12, <1>19 DEF LInv
  <2>2. \A q \in ldRuns' : q \in ldRuns \/ q.w # v
    BY <1>11, <1>12, <2>1
  <2>3. ldRuns \subseteq ldRuns' /\ ldGen' = ldGen
    BY <1>12
  <2> QED BY <1>13, <1>14, <2>1, <2>2, <2>3, NoRunStays
<1> QED BY <1>16, <1>18, <1>19 DEF LInv

(* A sweep takes a generation of its own, starts the first window and has    *)
(* the others before it.                                                     *)
LEMMA SweepStarts ==
    ASSUME LTypes, RunsOK, NEW dealt \in [LdWindows -> Wins], \A v \in LdWindows : dealt[v].seq = ldWin[v].seq,
           NEW win \in Wins, win.seq = ldWin[Visible[1]].seq + 1,
           NEW n \in RunRecords, n.w = Visible[1], n.seq = win.seq, n.want = Picture(win), n.stage = "data", ~n.fresh,
           n.kind = "time", n.todo = Tail(Visible), n.gen = ldGen + 1,
           ldWin' = [dealt EXCEPT ![Visible[1]] = win], ldRuns' = ldRuns \cup {n}, ldGen' = ldGen + 1
    PROVE  ldWin' \in [LdWindows -> Wins] /\ RunsOK' /\ \A v \in LdWindows : Safe(v)'
<1>0. Visible[1] \in LdWindows /\ 1 \in DOMAIN Visible
  BY WindowLoadsAssumption DEF LdWindows
<1>w. PICK w \in LdWindows : w = Visible[1]
  BY <1>0
<1>1. /\ ldWin' \in [LdWindows -> Wins] /\ ldWin'[w] = win /\ \A v \in LdWindows : v # w => ldWin'[v] = dealt[v]
  BY <1>w
<1>g. ldGen \in Nat /\ ldWin \in [LdWindows -> Wins]
  BY DEF LTypes
<1>2. ldGen \in Nat /\ ldGen' \in Nat /\ ldGen <= ldGen' /\ ldWin \in [LdWindows -> Wins] /\ \A v \in LdWindows : ldWin[v].seq \in Nat
  <2>1. \A v \in LdWindows : ldWin[v].seq \in Nat
    BY <1>g DEF Wins
  <2>2. ldGen' = ldGen + 1
    OBVIOUS
  <2>3. ldGen' \in Nat /\ ldGen <= ldGen'
    BY ONLY <1>g, <2>2
  <2> QED BY ONLY <1>g, <2>1, <2>3
<1>3. RunOK(n)'
  <2>1. n.gen <= ldGen' /\ n.gen \in Nat
    BY <1>2
  <2>2. n.seq <= ldWin'[n.w].seq
    <3>1. win.seq \in Nat
      BY DEF Wins
    <3> QED BY <1>1, <1>w, <3>1
  <2> QED BY <2>1, <2>2 DEF RunOK
<1>4. RunsOK'
  <2>1. ASSUME NEW v \in LdWindows PROVE ldWin[v].seq <= ldWin'[v].seq
    <3>1. CASE v = w
      <4>1. ldWin'[v].seq = ldWin[v].seq + 1 /\ ldWin[v].seq \in Nat
        BY <1>1, <1>2, <1>w, <3>1
      <4> QED BY ONLY <4>1
    <3>2. CASE v # w
      <4>1. ldWin'[v].seq = ldWin[v].seq /\ ldWin[v].seq \in Nat
        BY <1>1, <1>2, <3>2
      <4> QED BY ONLY <4>1
    <3> QED BY <3>1, <3>2
  <2>2. \A q \in ldRuns' : q \in ldRuns \/ RunOK(q)'
    BY <1>3 DEF RunOK
  <2> QED BY <1>1, <1>2, <2>1, <2>2, RunsKept
<1>5. Starts(w)
  <2>1. n \in ldRuns' /\ \A q \in ldRuns' : q = n \/ q \in ldRuns
    OBVIOUS
  <2>2. n.seq = ldWin'[w].seq /\ ldWin'[w].seq = ldWin[w].seq + 1 /\ n.want = Picture(ldWin'[w]) /\ n.w = w
    BY <1>1, <1>w
  <2>3. n.stage \in LoadStages
    BY DEF LoadStages
  <2> QED BY <2>1, <2>2, <2>3, StartedIsRight
<1>6. ASSUME NEW v \in LdWindows, v # w PROVE Coming(v)'
  <2>1. Visible \in Seq(LdWindows) /\ PositionOf(v) \in 1 .. Len(Visible) /\ Visible[PositionOf(v)] = v
    BY WindowLoadsAssumption, Places
  <2>2. PICK i \in 2 .. Len(Visible) : Visible[i] = v
    BY <1>6, <1>w, <2>1
  <2>3. PICK t : t = Tail(Visible)
    OBVIOUS
  <2>4. i - 1 \in DOMAIN t /\ t[i - 1] = v
    BY <2>1, <2>2, <2>3
  <2>5. v \in Members(n.todo)
    BY <2>3, <2>4 DEF Members
  <2>6. n.gen # 0 /\ n.gen = ldGen'
    BY <1>2
  <2> QED BY <2>5, <2>6 DEF Coming, Awaits
<1>7. ASSUME NEW v \in LdWindows PROVE Safe(v)'
  BY <1>5, <1>6 DEF Starts, Safe
<1> QED BY <1>1, <1>4, <1>7

LEMMA TimeRunTypes ==
    ASSUME LTypes, NEW p \in Int
    PROVE  LET r == TimeRun(p)
           IN  /\ r \in RunRecords /\ r.kind = (IF ldMode # "none" THEN "time" ELSE "one") /\ r.mode = ldMode
               /\ r.stage = "data" /\ ~r.fresh /\ r.gen = (IF ldMode # "none" THEN ldGen + 1 ELSE 0)
               /\ r.todo = (IF ldMode # "none" THEN Visible ELSE <<ldFocus>>)
<1>0. ldFocus \in LdWindows /\ ldGen \in Nat /\ ldWin \in [LdWindows -> Wins] /\ ldMode \in LdModes
  BY DEF LTypes
<1>1. PICK kind \in {"time", "one"} : kind = IF ldMode # "none" THEN "time" ELSE "one"
  OBVIOUS
<1>2. PICK k \in RunRecords : k = NewRun(kind)
  BY <1>0, <1>1, NewRunTypes DEF LTypes, Kinds
<1>3. k.kind = kind /\ k.stage = "data" /\ ~k.fresh /\ k.mode = ldMode
  BY <1>2 DEF NewRun
<1>4. PICK base \in Int : base = IF ldMode = "step"
                                 THEN IF p < PositionOf(ldFocus) THEN 1 ELSE p - PositionOf(ldFocus) + 1 ELSE p
  BY <1>0, Places
<1>5. PICK gen \in Nat : gen = IF ldMode # "none" THEN ldGen + 1 ELSE 0
  BY <1>0
<1>6. PICK cycle \in Int : cycle = ldWin[ldFocus].init
  BY <1>0 DEF Wins
<1>7. PICK todo \in Seq(LdWindows) : todo = IF ldMode # "none" THEN Visible ELSE <<ldFocus>>
  <2>1. Visible \in Seq(LdWindows) /\ <<ldFocus>> \in Seq(LdWindows)
    BY <1>0, WindowLoadsAssumption
  <2> QED BY <2>1
<1> DEFINE r1 == [k EXCEPT !.base = base]
           r2 == [r1 EXCEPT !.gen = gen]
           r3 == [r2 EXCEPT !.cycle = cycle]
           r4 == [r3 EXCEPT !.todo = todo]
<1>8. PICK r : r = r4
  OBVIOUS
<1>9. r = TimeRun(p)
  <2>1. r = [k EXCEPT !.base = base, !.gen = gen, !.cycle = cycle, !.todo = todo]
    BY <1>8
  <2> QED BY <1>1, <1>2, <1>4, <1>5, <1>6, <1>7, <2>1 DEF TimeRun
<1>10. r1 \in RunRecords /\ r1.kind = kind /\ r1.stage = "data" /\ ~r1.fresh /\ r1.mode = ldMode
  BY <1>3 DEF RunRecords
<1> HIDE DEF r1
<1>11. r2 \in RunRecords /\ r2.kind = kind /\ r2.stage = "data" /\ ~r2.fresh /\ r2.mode = ldMode /\ r2.gen = gen
  BY <1>10 DEF RunRecords
<1> HIDE DEF r2
<1>12. r3 \in RunRecords /\ r3.kind = kind /\ r3.stage = "data" /\ ~r3.fresh /\ r3.mode = ldMode /\ r3.gen = gen
  BY <1>11 DEF RunRecords
<1> HIDE DEF r3
<1>13. r \in RunRecords /\ r.kind = kind /\ r.stage = "data" /\ ~r.fresh /\ r.mode = ldMode /\ r.gen = gen /\ r.todo = todo
  BY <1>8, <1>12 DEF RunRecords
<1> HIDE DEF r4
<1> QED BY <1>1, <1>5, <1>7, <1>9, <1>13

LEMMA DealtAnewTypes ==
    ASSUME LTypes, NEW r \in RunRecords
    PROVE  DealtAnew(r) \in [LdWindows -> Wins] /\ \A v \in LdWindows : DealtAnew(r)[v].seq = ldWin[v].seq
<1>0. ldWin \in [LdWindows -> Wins]
  BY DEF LTypes
<1>1. PICK set : set = [ldWin EXCEPT ![Visible[1]].cycle = r.cycle, ![Visible[1]].period = r.base]
  OBVIOUS
<1>2. PICK dealt : dealt = DealtAnew(r)
  OBVIOUS
<1>3. PICK f \in LdWindows : f = Visible[1]
  <2>1. 1 \in DOMAIN Visible
    BY WindowLoadsAssumption
  <2> QED BY <2>1 DEF LdWindows
<1>4. set \in [LdWindows -> Wins] /\ \A v \in LdWindows : set[v].seq = ldWin[v].seq
  <2>1. PICK old \in Wins : old = ldWin[f]
    BY <1>0
  <2>2. PICK c \in Int, b \in Int : c = r.cycle /\ b = r.base
    BY DEF RunRecords
  <2> DEFINE e1 == [old EXCEPT !.cycle = c]
             e2 == [e1 EXCEPT !.period = b]
  <2>3. e1 \in Wins /\ e1.seq = old.seq
    BY DEF Wins
  <2>4. set = [ldWin EXCEPT ![f] = e2]
    BY <1>0, <1>1, <1>3, <2>1, <2>2
  <2> HIDE DEF e1
  <2>5. e2 \in Wins /\ e2.seq = old.seq
    BY <2>3 DEF Wins
  <2> HIDE DEF e2
  <2> QED BY <1>0, <2>1, <2>4, <2>5
<1>5. CASE ldMode = "time"
  <2>1. PICK i \in Wins : i = set[Initiator(Visible[1])]
    BY <1>3, <1>4, Initiators
  <2>2. dealt = Dealt(set, "time", i) /\ "time" \in LdModes
    BY <1>1, <1>2, <1>5, <2>1 DEF DealtAnew, LdModes
  <2>3. dealt \in [LdWindows -> Wins] /\ \A v \in LdWindows : dealt[v].seq = ldWin[v].seq
    BY <1>4, <2>2, DealtWindows
  <2> QED BY <1>2, <2>3
<1>6. CASE ldMode # "time"
  BY <1>0, <1>6 DEF DealtAnew
<1> QED BY <1>5, <1>6

LEMMA TimeChangeKeeps ==
    ASSUME LInv, NEW p \in Int, TimeChange(p)
    PROVE  LInv'
<1>0. /\ LTypes /\ RunsOK /\ ldFocus \in LdWindows /\ ldGen \in Nat /\ ldWin \in [LdWindows -> Wins] /\ ldMode \in LdModes
      /\ ldShown \in [LdWindows -> Pictures] /\ ldHole \subseteq LdWindows
  BY DEF LInv, LTypes
<1>1. PICK kind \in {"time", "one"} : kind = IF ldMode # "none" THEN "time" ELSE "one"
  OBVIOUS
<1>5. PICK gen \in Nat : gen = IF ldMode # "none" THEN ldGen + 1 ELSE 0
  BY <1>0
<1>7. PICK todo \in Seq(LdWindows) : todo = IF ldMode # "none" THEN Visible ELSE <<ldFocus>>
  <2>1. Visible \in Seq(LdWindows) /\ <<ldFocus>> \in Seq(LdWindows)
    BY <1>0, WindowLoadsAssumption
  <2> QED BY <2>1
<1>9. PICK r : r = TimeRun(p)
  OBVIOUS
<1>13. r \in RunRecords /\ r.kind = kind /\ r.stage = "data" /\ ~r.fresh /\ r.gen = gen /\ r.todo = todo
  BY <1>0, <1>1, <1>5, <1>7, <1>9, TimeRunTypes
<1>14. PICK s : s = [r EXCEPT !.w = Head(r.todo), !.todo = Tail(r.todo)]
  OBVIOUS
<1>15. Head(todo) \in LdWindows /\ Tail(todo) \in Seq(LdWindows)
  <2>1. todo # <<>>
    BY <1>7, WindowLoadsAssumption
  <2> QED BY <2>1
<1>16. /\ s \in RunRecords /\ s.kind = kind /\ s.stage = "data" /\ ~s.fresh /\ s.gen = gen
       /\ s.w = Head(todo) /\ s.todo = Tail(todo) /\ s.w \in LdWindows
  BY <1>13, <1>14, <1>15 DEF RunRecords
<1>18. PICK dealt : dealt = DealtAnew(r)
  OBVIOUS
<1>19. PICK win : win = Reached(s, dealt[s.w])
  OBVIOUS
<1>20. PICK n : n = Loading(s, win)
  OBVIOUS
<1>21. /\ ldGen' = ldGen + (IF ldMode # "none" THEN 1 ELSE 0) /\ ldWin' = [dealt EXCEPT ![s.w] = win]
       /\ ldRuns' = ldRuns \cup {n} /\ ldHole' = ldHole \ {s.w} /\ ldCalls' = ldCalls + 1
       /\ UNCHANGED <<ldFocus, ldMode, ldRefresh, ldShown, ldMixed>>
  <2>1. ldWin' = [dealt EXCEPT ![s.w] = win]
    BY <1>9, <1>14, <1>18, <1>19 DEF TimeChange
  <2>2. ldRuns' = ldRuns \cup {n}
    BY <1>9, <1>14, <1>18, <1>19, <1>20 DEF TimeChange
  <2>3. ldHole' = ldHole \ {s.w}
    BY <1>9, <1>14 DEF TimeChange
  <2>4. /\ ldGen' = ldGen + (IF ldMode # "none" THEN 1 ELSE 0) /\ ldCalls' = ldCalls + 1
        /\ UNCHANGED <<ldFocus, ldMode, ldRefresh, ldShown, ldMixed>>
    BY DEF TimeChange, Call
  <2> QED BY <2>1, <2>2, <2>3, <2>4
<1>22. CASE ldMode = "none"
  <2>1. kind = "one" /\ gen = 0 /\ todo = <<ldFocus>> /\ dealt = ldWin
    BY <1>1, <1>5, <1>7, <1>18, <1>22 DEF DealtAnew
  <2>2. s.w = ldFocus /\ s.todo = <<>>
    BY <1>16, <2>1
  <2>3. win \in Wins /\ win.seq = ldWin[ldFocus].seq + 1
    BY <1>0, <1>16, <1>19, <2>1, <2>2, ReachedTypes
  <2>4. /\ n \in RunRecords /\ n.seq = win.seq /\ n.want = Picture(win) /\ n.stage \in {"cycles", "data"}
        /\ n.kind = "one" /\ n.gen = 0 /\ n.todo = <<>> /\ n.w = ldFocus
    BY <1>16, <1>20, <2>1, <2>2, <2>3, LoadingTypes
  <2>5. UNCHANGED <<ldAnchor, ldAuto>>
    BY <1>22 DEF TimeChange
  <2>6. ldGen' = ldGen
    BY <1>0, <1>21, <1>22
  <2>7. /\ ldWin' = [ldWin EXCEPT ![ldFocus] = win] /\ ldRuns' = ldRuns \cup {n} /\ ldHole' = ldHole \ {ldFocus}
        /\ ldShown' \in [LdWindows -> Pictures] /\ \A v \in LdWindows : v # ldFocus => ldShown'[v] = ldShown[v]
    BY <1>0, <1>21, <2>1, <2>2
  <2>8. UNCHANGED <<ldFocus, ldMode, ldAnchor, ldAuto, ldRefresh, ldGen, ldMixed>> /\ ldCalls' = ldCalls + 1
    BY <1>21, <2>5, <2>6
  <2>9. n.kind \in {"one", "nav", "model"} /\ (n.kind = "nav" => n.base \in 1 .. Len(Levels))
    BY <2>4
  <2> QED BY ONLY LInv, <1>0, <2>3, <2>4, <2>7, <2>8, <2>9, HandlerStarts
<1>23. CASE ldMode # "none"
  <2>1. kind = "time" /\ gen = ldGen + 1 /\ todo = Visible
    BY <1>1, <1>5, <1>7, <1>23
  <2>2. s.w = Visible[1] /\ s.todo = Tail(Visible)
    BY <1>16, <2>1
  <2>3. Visible[1] \in LdWindows
    BY <1>16, <2>2
  <2>5. Initiator(Visible[1]) \in LdWindows
    BY <1>0, <2>3, Initiators
  <2>6. dealt \in [LdWindows -> Wins] /\ \A v \in LdWindows : dealt[v].seq = ldWin[v].seq
    BY <1>0, <1>13, <1>18, DealtAnewTypes
  <2>7. win \in Wins /\ win.seq = ldWin[Visible[1]].seq + 1
    <3>1. win \in Wins /\ win.seq = dealt[s.w].seq + 1
      BY <1>16, <1>19, <2>1, <2>6, ReachedTypes
    <3> QED BY <1>16, <2>2, <2>6, <3>1
  <2>8. /\ n \in RunRecords /\ n.seq = win.seq /\ n.want = Picture(win) /\ n.stage = "data" /\ ~n.fresh
        /\ n.kind = "time" /\ n.gen = ldGen + 1 /\ n.todo = Tail(Visible) /\ n.w = Visible[1]
    <3>1. /\ n \in RunRecords /\ n.seq = win.seq /\ n.want = Picture(win)
          /\ n.kind = s.kind /\ n.gen = s.gen /\ n.todo = s.todo /\ n.w = s.w /\ n.fresh = s.fresh
      BY <1>16, <1>20, <2>7, LoadingTypes
    <3>2. n.stage = "data"
      BY <1>16, <1>20 DEF Loading, RunRecords
    <3> QED BY <1>16, <2>1, <2>2, <3>1, <3>2
  <2>9. ldGen' = ldGen + 1 /\ ldWin' = [dealt EXCEPT ![Visible[1]] = win] /\ ldRuns' = ldRuns \cup {n}
    BY <1>21, <1>23, <2>2
  <2>10. ldWin' \in [LdWindows -> Wins] /\ RunsOK' /\ \A v \in LdWindows : Safe(v)'
    BY <1>0, <2>6, <2>7, <2>8, <2>9, SweepStarts
  <2>11. ldAnchor' \in LdWindows /\ ldAuto' \subseteq LdWindows
    BY <1>0, <2>5 DEF TimeChange, LTypes
  <2>12. LTypes'
    BY <1>0, <1>21, <2>9, <2>10, <2>11 DEF LTypes
  <2> QED BY <2>10, <2>12 DEF LInv
<1> QED BY <1>22, <1>23
-----------------------------------------------------------------------------
LEMMA LInvInit == LdInit => LInv
<1> SUFFICES ASSUME LdInit PROVE LInv
  OBVIOUS
<1>1. Visible[1] \in LdWindows /\ ldFocus = Visible[1] /\ ldMode \in LdModes /\ ldRuns = {} /\ ldGen = 0
  BY WindowLoadsAssumption DEF LdInit, LdWindows
<1>2. PICK start : start = [seq |-> 0, cycle |-> 0, init |-> 0, period |-> 1, level |-> 1, model |-> 1]
  OBVIOUS
<1>3. start \in Wins
  BY <1>2, WindowLoadsAssumption DEF Wins
<1>4. ASSUME NEW w \in LdWindows PROVE ldWin[w] \in Wins
  <2>1. PICK d \in Wins : d = Allocated(ldMode, start, PositionOf(w))
    <3>1. PositionOf(w) \in Nat \ {0}
      BY Places
    <3> QED BY <1>1, <1>3, <3>1, DealtTypes
  <2>2. PICK c \in Int : c = d.cycle
    BY DEF Wins
  <2>3. ldWin[w] = [d EXCEPT !.init = c]
    BY <1>2, <2>1, <2>2 DEF LdInit
  <2> QED BY <2>3, Changed
<1>5. ldWin \in [LdWindows -> Wins]
  <2>1. PICK f : f = ldWin
    OBVIOUS
  <2>2. f = [w \in LdWindows |-> f[w]]
    BY <2>1 DEF LdInit
  <2>3. \A w \in LdWindows : f[w] \in Wins
    BY <1>4, <2>1
  <2> QED BY <2>1, <2>2, <2>3
<1>6. \A w \in LdWindows : ldShown[w] = Picture(ldWin[w]) /\ Picture(ldWin[w]) \in Pictures
  BY <1>5, PictureTypes DEF LdInit
<1>7. ldShown \in [LdWindows -> Pictures]
  <2>1. ldShown = [w \in LdWindows |-> Picture(ldWin[w])]
    BY DEF LdInit
  <2> QED BY <1>6, <2>1
<1>8. ldAnchor \in LdWindows /\ ldAuto \subseteq LdWindows /\ ldHole = {} /\ ldCalls = 0 /\ ldMixed = FALSE
  BY <1>1 DEF LdInit
<1>9. ldRefresh \in [LdWindows -> Nat]
  BY DEF LdInit
<1>10. LTypes
  BY <1>1, <1>5, <1>7, <1>8, <1>9 DEF LTypes
<1>11. RunsOK /\ \A w \in LdWindows : Right(w)
  BY <1>1, <1>6 DEF RunsOK, Right
<1> QED BY <1>10, <1>11 DEF LInv, Safe

LEMMA LInvStep == LInv /\ [LdNext]_ldVars => LInv'
<1> SUFFICES ASSUME LInv, [LdNext]_ldVars PROVE LInv'
  OBVIOUS
<1>1. ASSUME NEW p \in TargetPeriods, TimeChange(p) PROVE LInv'
  <2>1. p \in Int
    BY WindowLoadsAssumption
  <2> QED BY <1>1, <2>1, TimeChangeKeeps
<1>2. ASSUME NEW d \in {1, -1}, LevelStep(d) PROVE LInv'
  BY <1>2, LevelStepKeeps
<1>3. ASSUME NEW m \in DOMAIN Models, ModelSelect(m) PROVE LInv'
  BY <1>3, ModelSelectKeeps
<1>4. ASSUME NEW l \in PresetLevels, LoadData(l) PROVE LInv'
  BY <1>4, LoadDataKeeps
<1>5. ASSUME NEW l \in DOMAIN Levels, LevelSelect(l) PROVE LInv'
  BY <1>5, LevelSelectKeeps
<1>6. ASSUME NEW fresh \in BOOLEAN, Reload(fresh) PROVE LInv'
  BY <1>6, ReloadKeeps
<1>7. ASSUME NEW w \in LdWindows, FocusWindow(w) PROVE LInv'
  BY <1>7, FocusWindowKeeps
<1>8. ASSUME NEW m \in LdModes, Allocate(m) PROVE LInv'
  BY <1>8, AllocateKeeps
<1>9. ASSUME NEW r \in ldRuns, LevelsKnown(r) PROVE LInv'
  BY <1>9, LevelsKnownKeeps
<1>10. ASSUME NEW r \in ldRuns, StyleReady(r) PROVE LInv'
  BY <1>10, StyleReadyKeeps
<1>11. ASSUME NEW r \in ldRuns, PresetReady(r) PROVE LInv'
  BY <1>11, PresetReadyKeeps
<1>12. ASSUME NEW r \in ldRuns, CyclesReady(r) \/ PaletteAsked(r) PROVE LInv'
  BY <1>12, StageKeeps
<1>13. ASSUME NEW r \in ldRuns, RefreshReady(r) PROVE LInv'
  BY <1>13, RefreshReadyKeeps
<1>14. ASSUME NEW r \in ldRuns, Dropped(r) \/ FetchFails(r) \/ Drawn(r) \/ PaletteReady(r) PROVE LInv'
  BY <1>14, ReturnKeeps
<1>15. CASE UNCHANGED ldVars
  <2>1. UNCHANGED <<ldFocus, ldMode, ldAnchor, ldAuto, ldWin, ldRefresh, ldShown, ldGen, ldRuns, ldCalls, ldHole, ldMixed>>
    BY <1>15 DEF ldVars
  <2>2. LTypes'
    BY <2>1 DEF LInv, LTypes
  <2>3. RunsOK'
    BY <2>1 DEF LInv, RunsOK, RunOK
  <2>4. ASSUME NEW v \in LdWindows \ ldHole' PROVE Safe(v)'
    <3>1. Safe(v)
      BY <2>1, <2>4 DEF LInv
    <3> QED BY <2>1, <3>1, NoRunStays
  <2> QED BY <2>2, <2>3, <2>4 DEF LInv
<1> QED
  BY <1>1, <1>2, <1>3, <1>4, <1>5, <1>6, <1>7, <1>8, <1>9, <1>10, <1>11, <1>12, <1>13, <1>14, <1>15 DEF LdNext

(* In every state each window outside ldHole shows what it is set to or has  *)
(* a load coming that will: the numbers loadPresetGroup and loadWeatherField *)
(* compare (presetLoader.js, weatherLoader.js) and the generation of a sweep *)
(* (beginSharedSweep) drop none of the last loads.                           *)
THEOREM LInvHolds == LdSpec => []LInv
<1> QED BY LInvInit, LInvStep, PTL DEF LdSpec

(* In every state the focus, the mode and the windows dealt out are of the   *)
(* tab, each level and model is of its list (stepVerticalLevel stops at both *)
(* ends) and a run waits at one of the awaits of the code.                   *)
THEOREM LoadsTypeCorrect == LdSpec => []LdTypeOK
<1>1. LInv => LdTypeOK
  <2> SUFFICES ASSUME LInv PROVE LdTypeOK
    OBVIOUS
  <2>1. LTypes /\ RunsOK
    BY DEF LInv
  <2>2. \A w \in LdWindows : ldWin[w].level \in DOMAIN Levels /\ ldWin[w].model \in DOMAIN Models
    BY <2>1, WindowLoadsAssumption DEF LTypes, Wins
  <2>3. \A r \in ldRuns : r.stage \in {"preload", "style", "preset", "cycles", "data", "palette", "refresh"}
    BY <2>1 DEF RunsOK, RunOK, RunRecords, Stages
  <2> QED BY <2>1, <2>2, <2>3 DEF LTypes, LdTypeOK
<1> QED BY <1>1, LInvHolds, PTL

LEMMA IntentFollows == LInv => IntentShown
<1> SUFFICES ASSUME LInv, ldRuns = {}, NEW w \in LdWindows \ ldHole PROVE ldShown[w] = Picture(ldWin[w])
  BY DEF IntentShown
<1>1. Safe(w) /\ ~Coming(w)
  BY DEF LInv, Coming
<1> QED BY <1>1 DEF Safe, Right

(* Rapid stepping converges on the last intent: when no handler, sweep,      *)
(* allocation or load is under way, every window shows the lead time, level, *)
(* model and initialisation it is set to, but for one whose last picture no  *)
(* loadSeq guards (reloadConfiguration, a palette awaited after the check).  *)
THEOREM IntentIsShown == LdSpec => []IntentShown
  BY IntentFollows, LInvHolds, PTL
-----------------------------------------------------------------------------
(* The sweeps *)

Sweeps == {r \in ldRuns : r.gen # 0 /\ r.gen = ldGen}

InStep ==
    \A v \in LdWindows :
        /\ ldMode = "step" => ldWin[v].period = ldWin[Visible[1]].period + PositionOf(v) - 1
        /\ ldMode \in {"level", "model"} => ldWin[v].period = ldWin[Visible[1]].period

(* Sweep r has window v before it, or has given it its period.               *)
SweptOver(r, v) == v \in Members(r.todo) \/ ldWin[v].period = SweepPeriod(r, ldWin[v], v)

SweepRuns == \A r \in ldRuns : (r.gen # 0 => r.mode # "none") /\ (r.kind = "time" => r.gen # 0)
Rests == InStep /\ Sweeps = {}
Sweeping(r) == Sweeps = {r} /\ r.mode = ldMode /\ \A v \in LdWindows : SweptOver(r, v)
Covered == ldMixed \/ (\E r \in ldRuns : r.stage = "preload") \/ Rests \/ (\E r \in ldRuns : Sweeping(r))
SweepInv == SweepRuns /\ Covered

LEMMA PlacesMatch == Visible[1] \in LdWindows /\ \A i \in DOMAIN Visible : Visible[i] \in LdWindows /\ PositionOf(Visible[i]) = i
<1>1. 1 \in DOMAIN Visible
  BY WindowLoadsAssumption
<1>2. ASSUME NEW i \in DOMAIN Visible PROVE Visible[i] \in LdWindows /\ PositionOf(Visible[i]) = i
  <2>1. Visible[i] \in LdWindows
    BY DEF LdWindows
  <2>2. PositionOf(Visible[i]) \in DOMAIN Visible /\ Visible[PositionOf(Visible[i])] = Visible[i]
    BY <2>1, Places, WindowLoadsAssumption
  <2> QED BY <2>1, <2>2, WindowLoadsAssumption
<1> QED BY <1>1, <1>2

(* A step that leaves the periods, the mode, the sweeps and the allocations  *)
(* under way as they are.                                                    *)
Unswept ==
    /\ ldGen' = ldGen /\ ldMode' = ldMode /\ (ldMixed => ldMixed')
    /\ \A v \in LdWindows : ldWin'[v].period = ldWin[v].period
    /\ \A r \in ldRuns : r.stage = "preload" \/ (r.gen # 0 /\ r.gen = ldGen) => r \in ldRuns'
    /\ \A q \in ldRuns' : q \in ldRuns \/ (q.gen = 0 /\ q.kind # "time")

LEMMA UnsweptKeeps == ASSUME SweepInv, Unswept PROVE SweepInv'
<1>1. SweepRuns'
  BY DEF SweepInv, SweepRuns, Unswept
<1>2. CASE ldMixed \/ \E r \in ldRuns : r.stage = "preload"
  BY <1>1, <1>2 DEF SweepInv, Covered, Unswept
<1>3. Sweeps' = Sweeps
  BY DEF Sweeps, Unswept
<1>4. CASE Rests
  <2>1. InStep'
    BY <1>4, PlacesMatch DEF Rests, InStep, Unswept
  <2> QED BY <1>1, <1>3, <1>4, <2>1 DEF SweepInv, Covered, Rests
<1>5. ASSUME NEW r \in ldRuns, Sweeping(r) PROVE SweepInv'
  <2>1. r \in ldRuns'
    BY <1>5 DEF Sweeping, Sweeps, Unswept
  <2>2. \A v \in LdWindows : SweptOver(r, v)'
    <3> SUFFICES ASSUME NEW v \in LdWindows, v \notin Members(r.todo)
                 PROVE  ldWin'[v].period = SweepPeriod(r, ldWin'[v], v)
      BY DEF SweptOver
    <3>1. ldWin[v].period = SweepPeriod(r, ldWin[v], v) /\ ldWin'[v].period = ldWin[v].period
      BY <1>5 DEF Sweeping, SweptOver, Unswept
    <3> QED BY <3>1 DEF SweepPeriod
  <2>3. Sweeping(r)'
    BY <1>3, <1>5, <2>2 DEF Sweeping, Unswept
  <2> QED BY <1>1, <2>1, <2>3 DEF SweepInv, Covered
<1> QED BY <1>2, <1>4, <1>5 DEF SweepInv, Covered

(* Windows that are dealt out keep step.                                     *)
LEMMA DealtInStep ==
    ASSUME LTypes, NEW win \in Wins, ldMode' \in LdModes, ldWin' = Dealt(ldWin, ldMode', win)
    PROVE  InStep'
<1> SUFFICES ASSUME NEW v \in LdWindows
             PROVE  /\ ldMode' = "step" => ldWin'[v].period = ldWin'[Visible[1]].period + PositionOf(v) - 1
                    /\ ldMode' \in {"level", "model"} => ldWin'[v].period = ldWin'[Visible[1]].period
  BY DEF InStep
<1>1. PICK mode \in LdModes : mode = ldMode'
  OBVIOUS
<1>2. ASSUME NEW w \in LdWindows
      PROVE  /\ mode = "step" => ldWin'[w].period = win.period + PositionOf(w) - 1
             /\ mode \in {"level", "model"} => ldWin'[w].period = win.period
  <2>1. PICK a \in Wins : a = Allocated(mode, win, PositionOf(w))
    <3>1. PositionOf(w) \in Nat \ {0}
      BY Places
    <3> QED BY <3>1, DealtTypes
  <2>2. a.period = CASE mode = "step" -> win.period + PositionOf(w) - 1
                     [] mode = "time" -> win.period + (PositionOf(w) - 1) * CycleStep
                     [] OTHER         -> win.period
    BY <2>1 DEF Allocated
  <2>3. ldWin'[w] = [a EXCEPT !.seq = ldWin[w].seq, !.init = ldWin[w].init]
    BY <1>1, <2>1 DEF Dealt
  <2>4. ldWin'[w].period = a.period
    BY <2>3 DEF Wins
  <2> QED BY <2>2, <2>4
<1>3. PositionOf(Visible[1]) = 1 /\ Visible[1] \in LdWindows
  BY PlacesMatch, WindowLoadsAssumption
<1>4. win.period \in Int /\ PositionOf(v) \in Int
  BY Places DEF Wins
<1> QED BY <1>1, <1>2, <1>3, <1>4

LEMMA DealKeeps ==
    ASSUME LTypes, SweepInv, NEW mode \in LdModes, NEW id, NEW base \in LdWindows, NEW was, NEW others \in SUBSET ldRuns,
           DealOut(mode, id, base, was, others), ldMixed \/ ldMode' # mode \/ (\E r \in ldRuns : r.gen # 0) => ldMixed'
    PROVE  SweepInv'
<1> DEFINE K(i) == [NewRun("alloc") EXCEPT !.id = id, !.mode = mode, !.w = Visible[i], !.fresh = TRUE,
                     !.stage = "style",
                     !.want = IF Visible[i] = base THEN was ELSE Blank]
<1>1. \A i \in DOMAIN Visible : K(i).gen = 0 /\ K(i).kind = "alloc"
  BY DEF NewRun
<1>2. ldRuns' = others \cup {K(i) : i \in DOMAIN Visible}
  BY DEF DealOut
<1> HIDE DEF K
<1>3. \A q \in ldRuns' : q \in ldRuns \/ (q.gen = 0 /\ q.kind # "time")
  BY <1>1, <1>2
<1>4. SweepRuns'
  BY <1>3 DEF SweepInv, SweepRuns
<1>5. CASE ldMode' # mode \/ \E r \in ldRuns : r.gen # 0
  BY <1>4, <1>5 DEF SweepInv, Covered
<1>6. CASE ldMode' = mode /\ \A r \in ldRuns : r.gen = 0
  <2>1. Sweeps' = {}
    BY <1>3, <1>6 DEF Sweeps
  <2>2. PICK win \in Wins : win = ldWin[Initiator(base)]
    BY Initiators DEF LTypes
  <2>3. ldWin' = Dealt(ldWin, ldMode', win)
    BY <1>6, <2>2 DEF DealOut
  <2>4. InStep'
    BY <1>6, <2>3, DealtInStep
  <2> QED BY <1>4, <2>1, <2>4 DEF SweepInv, Covered, Rests
<1> QED BY <1>5, <1>6

LEMMA AllocationKeeps ==
    ASSUME LTypes, SweepInv, NEW mode \in LdModes, NEW id \in Nat, NEW others \in SUBSET ldRuns,
           StartAllocation(mode, id, others), Disturbs
    PROVE  SweepInv'
<1>1. CASE mode = "model"
  <2>1. PICK n : n = DealRun(mode, id, ldWin)
    OBVIOUS
  <2>2. n.stage = "preload" /\ n.gen = 0 /\ n.kind = "deal"
    <3>1. ldWin \in [LdWindows -> Wins]
      BY DEF LTypes
    <3> QED BY <2>1, <3>1, DealRunOK
  <2>3. ldRuns' = others \cup {n}
    BY <1>1, <2>1 DEF StartAllocation
  <2>4. SweepRuns'
    BY <2>2, <2>3 DEF SweepInv, SweepRuns
  <2> QED BY <2>2, <2>3, <2>4 DEF SweepInv, Covered
<1>2. CASE mode # "model"
  <2>1. PICK base \in LdWindows : base = Initiator(ldFocus)
    BY Initiators DEF LTypes
  <2>2. PICK was : was = Picture(ldWin[base])
    OBVIOUS
  <2>3. DealOut(mode, id, base, was, others) /\ ldMode' = mode
    BY <1>2, <2>1, <2>2 DEF StartAllocation
  <2>4. ldMixed \/ ldMode' # mode \/ (\E r \in ldRuns : r.gen # 0) => ldMixed'
    BY <2>3 DEF Disturbs
  <2> QED BY <2>3, <2>4, DealKeeps
<1> QED BY <1>1, <1>2

LEMMA ReachedPeriod ==
    ASSUME NEW r \in RunRecords, NEW win \in Wins, r.kind \in {"time", "level"}
    PROVE  /\ r.kind = "level" => Reached(r, win).period = win.period
           /\ r.kind = "time" => Reached(r, win).period = SweepPeriod(r, Reached(r, win), r.w)
<1>1. CASE r.kind = "level"
  <2>1. Reached(r, win) = [win EXCEPT !.seq = @ + 1, !.level = SteppedLevel(r, win)]
    BY <1>1 DEF Reached
  <2>2. Reached(r, win).period = win.period
    BY <2>1 DEF Wins
  <2> QED BY <1>1, <2>2
<1>2. CASE r.kind = "time"
  <2>1. PICK c : c = IF r.mode = "time" THEN win.cycle ELSE r.cycle
    OBVIOUS
  <2>2. PICK p : p = SweepPeriod(r, win, r.w)
    OBVIOUS
  <2>3. Reached(r, win) = [win EXCEPT !.seq = @ + 1, !.cycle = c, !.init = c, !.period = p]
    BY <1>2, <2>1, <2>2 DEF Reached
  <2>4. Reached(r, win).period = p
    <3> DEFINE a == [win EXCEPT !.seq = win.seq + 1]
               b == [a EXCEPT !.cycle = c, !.init = c]
               d == [b EXCEPT !.period = p]
    <3>1. "period" \in DOMAIN b
      BY DEF Wins
    <3>2. Reached(r, win) = d
      BY <2>3
    <3> HIDE DEF b
    <3> QED BY <3>1, <3>2
  <2>5. SweepPeriod(r, Reached(r, win), r.w) = p
    BY <2>2, <2>4 DEF SweepPeriod
  <2> QED BY <1>2, <2>4, <2>5
<1> QED BY <1>1, <1>2

(* A run that is no sweep leaves the periods as they are.                    *)
LEMMA LevelGoes ==
    ASSUME LTypes, RunsOK, NEW r, RunOK(r), r.kind \notin {"deal", "time"}, NEW S \in SUBSET ldRuns,
           \A p \in S : p.stage # "preload" /\ p.gen = 0,
           NEW shown, UNCHANGED <<ldGen, ldMode, ldMixed>>, GoOn(r, ldWin, shown, ldRuns \ S)
    PROVE  Unswept
<1>1. r \in RunRecords /\ r.gen = 0
  BY DEF RunOK
<1>2. CASE ldRuns' = ldRuns \ S /\ ldWin' = ldWin
  BY <1>2 DEF Unswept
<1>3. ASSUME NEW i \in NextIn(r, ldWin),
             LET s == [r EXCEPT !.w = r.todo[i], !.todo = SubSeq(r.todo, i + 1, Len(r.todo))]
                 win == Reached(s, ldWin[s.w])
             IN  /\ ldRuns' = (ldRuns \ S) \cup {Loading(s, win)}
                 /\ ldWin' = [ldWin EXCEPT ![s.w] = win]
      PROVE  Unswept
  <2>1. PICK s : s = [r EXCEPT !.w = r.todo[i], !.todo = SubSeq(r.todo, i + 1, Len(r.todo))]
    OBVIOUS
  <2>2. s \in RunRecords /\ s.w \in LdWindows /\ s.kind = r.kind /\ s.gen = 0 /\ s.base = r.base
    BY <1>1, <2>1, NextAfter DEF RunRecords
  <2>3. r.kind = "level"
    <3>1. r.todo # <<>>
      BY <1>1, <1>3, NextAfter
    <3> QED BY <3>1 DEF RunOK
  <2>4. PICK win : win = Reached(s, ldWin[s.w])
    OBVIOUS
  <2>5. ldWin[s.w] \in Wins /\ ldWin \in [LdWindows -> Wins]
    BY <2>2 DEF LTypes
  <2>6. win \in Wins /\ win.period = ldWin[s.w].period
    BY <2>2, <2>3, <2>4, <2>5, ReachedPeriod, ReachedTypes DEF RunOK
  <2>7. PICK n : n = Loading(s, win)
    OBVIOUS
  <2>8. n.gen = 0 /\ n.kind = "level"
    BY <2>2, <2>3, <2>6, <2>7, LoadingTypes
  <2>9. ldRuns' = (ldRuns \ S) \cup {n} /\ ldWin' = [ldWin EXCEPT ![s.w] = win]
    BY <1>3, <2>1, <2>4, <2>7
  <2>10. \A v \in LdWindows : ldWin'[v].period = ldWin[v].period
    BY <2>2, <2>5, <2>6, <2>9
  <2> QED BY <2>8, <2>9, <2>10 DEF Unswept
<1> QED BY <1>2, <1>3 DEF GoOn

(* A sweep that goes on gives the next window its period; when there is none *)
(* left, the windows keep step.                                              *)
LEMMA SweepGoes ==
    ASSUME LTypes, RunsOK, SweepInv, NEW r \in ldRuns, r.kind = "time", r.stage # "preload",
           NEW shown, UNCHANGED <<ldGen, ldMode, ldMixed>>, GoOn(r, ldWin, shown, ldRuns \ {r})
    PROVE  SweepInv'
<1>1. RunOK(r) /\ r \in RunRecords /\ r.gen # 0 /\ r.todo \in Seq(LdWindows)
  BY DEF RunsOK, RunOK, SweepInv, SweepRuns, RunRecords
<1>2. ldWin \in [LdWindows -> Wins]
  BY DEF LTypes
<1>3. CASE r.gen # ldGen
  <2>0. ~SweepAlive(r)
    BY <1>1, <1>3 DEF SweepAlive
  <2>1. ldRuns' = ldRuns \ {r} /\ ldWin' = ldWin
    BY ONLY <2>0, GoOn(r, ldWin, shown, ldRuns \ {r}) DEF GoOn
  <2>2. Unswept
    <3>1. ldGen' = ldGen /\ ldMode' = ldMode /\ ldMixed' = ldMixed
      OBVIOUS
    <3>2. \A q \in ldRuns : q.stage = "preload" \/ (q.gen # 0 /\ q.gen = ldGen) => q \in ldRuns'
      BY <1>3, <2>1
    <3> QED BY ONLY <3>1, <3>2, <2>1 DEF Unswept
  <2> QED BY <2>2, UnsweptKeeps
<1>4. CASE r.gen = ldGen
  <2>1. r \in Sweeps /\ SweepAlive(r)
    BY <1>1, <1>4 DEF Sweeps, SweepAlive
  <2>2. CASE NextIn(r, ldWin) = {}
    <3>1. ldRuns' = ldRuns \ {r} /\ ldWin' = ldWin
      BY <2>2 DEF GoOn
    <3>2. SweepRuns'
      BY <3>1 DEF SweepInv, SweepRuns
    <3>3. Members(r.todo) = {}
      <4> SUFFICES ASSUME NEW i \in DOMAIN r.todo PROVE FALSE
        BY DEF Members
      <4>1. 1 \in DOMAIN r.todo
        BY <1>1
      <4>2. 1 \in NextIn(r, ldWin)
        BY <4>1 DEF NextIn, PassedOver
      <4> QED BY <2>2, <4>2
    <3>4. CASE Sweeping(r)
      <4>1. Sweeps' = {}
        BY <3>1, <3>4 DEF Sweeping, Sweeps
      <4>2. ASSUME NEW v \in LdWindows PROVE ldWin[v].period = SweepPeriod(r, ldWin[v], v)
        BY <3>3, <3>4 DEF Sweeping, SweptOver
      <4>3. PositionOf(Visible[1]) = 1 /\ Visible[1] \in LdWindows /\ r.base \in Int /\ \A v \in LdWindows : PositionOf(v) \in Int
        <5>1. PositionOf(Visible[1]) = 1 /\ Visible[1] \in LdWindows
          BY PlacesMatch, WindowLoadsAssumption
        <5>2. r.base \in Int
          BY <1>1 DEF RunRecords
        <5>3. \A v \in LdWindows : PositionOf(v) \in Int
          BY Places
        <5> QED BY <5>1, <5>2, <5>3
      <4>4. ASSUME NEW v \in LdWindows, ldMode = "step"
            PROVE  ldWin[v].period = ldWin[Visible[1]].period + PositionOf(v) - 1
        <5>1. ldWin[v].period = r.base + PositionOf(v) - 1
          BY <3>4, <4>2, <4>4 DEF Sweeping, SweepPeriod
        <5>2. ldWin[Visible[1]].period = r.base + PositionOf(Visible[1]) - 1
          BY <3>4, <4>2, <4>3, <4>4 DEF Sweeping, SweepPeriod
        <5> QED BY ONLY <4>3, <5>1, <5>2, v \in LdWindows
      <4>5. ASSUME NEW v \in LdWindows, ldMode \in {"level", "model"}
            PROVE  ldWin[v].period = ldWin[Visible[1]].period
        BY <3>4, <4>2, <4>3, <4>5 DEF Sweeping, SweepPeriod
      <4>6. InStep
        BY <4>4, <4>5 DEF InStep
      <4>7. InStep'
        BY <3>1, <4>6 DEF InStep
      <4> QED BY <3>2, <4>1, <4>7 DEF SweepInv, Covered, Rests
    <3>5. CASE ldMixed \/ \E q \in ldRuns : q.stage = "preload"
      BY <3>1, <3>2, <3>5 DEF SweepInv, Covered
    <3> QED BY <2>1, <3>4, <3>5 DEF SweepInv, Covered, Rests, Sweeping
  <2>3. ASSUME NEW i \in NextIn(r, ldWin),
               LET s == [r EXCEPT !.w = r.todo[i], !.todo = SubSeq(r.todo, i + 1, Len(r.todo))]
                   win == Reached(s, ldWin[s.w])
               IN  /\ ldRuns' = (ldRuns \ {r}) \cup {Loading(s, win)}
                   /\ ldWin' = [ldWin EXCEPT ![s.w] = win]
        PROVE  SweepInv'
    <3>1. PICK s : s = [r EXCEPT !.w = r.todo[i], !.todo = SubSeq(r.todo, i + 1, Len(r.todo))]
      OBVIOUS
    <3>2. /\ s \in RunRecords /\ s.w = r.todo[i] /\ s.w \in LdWindows /\ s.todo = SubSeq(r.todo, i + 1, Len(r.todo))
          /\ s.kind = "time" /\ s.gen = r.gen /\ s.base = r.base /\ s.mode = r.mode
      BY <1>1, <2>3, <3>1, NextAfter DEF RunRecords
    <3>3. PICK win : win = Reached(s, ldWin[s.w])
      OBVIOUS
    <3>4. win \in Wins /\ win.period = SweepPeriod(s, win, s.w)
      BY <1>2, <3>2, <3>3, ReachedPeriod, ReachedTypes
    <3>5. PICK n : n = Loading(s, win)
      OBVIOUS
    <3>6. n.gen = r.gen /\ n.kind = "time" /\ n.mode = r.mode /\ n.base = r.base /\ n.todo = s.todo
      BY <3>2, <3>4, <3>5, LoadingTypes
    <3>7. ldRuns' = (ldRuns \ {r}) \cup {n} /\ ldWin' = [ldWin EXCEPT ![s.w] = win]
      BY <2>3, <3>1, <3>3, <3>5
    <3>8. SweepRuns'
      BY <1>1, <3>6, <3>7 DEF SweepInv, SweepRuns
    <3>9. CASE ldMixed \/ \E q \in ldRuns : q.stage = "preload"
      BY <3>7, <3>8, <3>9 DEF SweepInv, Covered
    <3>10. CASE Sweeping(r)
      <4>1. Sweeps' = {n}
        BY <1>4, <3>6, <3>7, <3>10 DEF Sweeping, Sweeps
      <4>2. SweptOver(n, s.w)'
        <5>1. ldWin'[s.w] = win
          BY <1>2, <3>2, <3>7
        <5>2. SweepPeriod(n, win, s.w) = SweepPeriod(s, win, s.w)
          BY <3>2, <3>6 DEF SweepPeriod
        <5> QED BY <3>4, <5>1, <5>2 DEF SweptOver, SweepPeriod
      <4>3. ASSUME NEW v \in LdWindows, v # s.w PROVE SweptOver(n, v)'
        <5>1. ldWin'[v] = ldWin[v]
          BY <1>2, <3>7, <4>3
        <5>2. CASE v \in Members(r.todo)
          <6>1. v \in Members(n.todo)
            BY <1>1, <3>2, <3>6, <4>3, <5>2, <2>3, NextAfter
          <6> QED BY <6>1 DEF SweptOver
        <5>3. CASE ldWin[v].period = SweepPeriod(r, ldWin[v], v)
          BY <3>6, <5>1, <5>3 DEF SweptOver, SweepPeriod
        <5> QED BY <3>10, <5>2, <5>3 DEF Sweeping, SweptOver
      <4>4. Sweeping(n)'
        BY <3>6, <3>10, <4>1, <4>2, <4>3 DEF Sweeping, SweptOver
      <4> QED BY <3>7, <3>8, <4>4 DEF SweepInv, Covered
    <3> QED BY <2>1, <3>9, <3>10 DEF SweepInv, Covered, Rests, Sweeping
  <2> QED BY <2>1, <2>2, <2>3 DEF GoOn
<1> QED BY <1>3, <1>4

LEMMA LoadingFields ==
    ASSUME NEW r \in RunRecords, NEW win
    PROVE  LET n == Loading(r, win)
           IN  n.kind = r.kind /\ n.gen = r.gen /\ n.mode = r.mode /\ n.base = r.base /\ n.todo = r.todo
BY DEF Loading, RunRecords

(* A handler of one window that leaves its period alone.                     *)
LEMMA HandlerUnswept ==
    ASSUME LTypes, NEW w \in LdWindows, NEW win, win.period = ldWin[w].period, ldWin' = [ldWin EXCEPT ![w] = win],
           NEW S \in SUBSET ldRuns, \A p \in S : p.stage # "preload" /\ p.gen = 0,
           NEW n, n.gen = 0, n.kind # "time", ldRuns' = (ldRuns \ S) \cup {n},
           ldGen' = ldGen, ldMode' = ldMode, ldMixed => ldMixed'
    PROVE  Unswept
<1>1. ldWin \in [LdWindows -> Wins]
  BY DEF LTypes
<1>2. \A v \in LdWindows : ldWin'[v].period = ldWin[v].period
  BY <1>1
<1> QED BY <1>2 DEF Unswept

LEMMA HandlersSweep ==
    ASSUME LInv, SweepInv,
           \/ \E l \in DOMAIN Levels : LevelSelect(l)
           \/ \E m \in DOMAIN Models : ModelSelect(m)
           \/ \E fresh \in BOOLEAN : Reload(fresh)
           \/ \E l \in PresetLevels : LoadData(l)
           \/ \E w \in LdWindows : FocusWindow(w)
    PROVE  SweepInv'
<1>0. /\ LTypes /\ ldCalls \in Nat /\ ldMode \in LdModes /\ ldFocus \in LdWindows
      /\ ldWin[ldFocus] \in Wins
  BY DEF LInv, LTypes
<1>s. {} \in SUBSET ldRuns /\ ldRuns \ {} = ldRuns /\ \A p \in {} : p.stage # "preload" /\ p.gen = 0
  OBVIOUS
<1>1. ASSUME NEW l \in DOMAIN Levels, LevelSelect(l) PROVE Unswept
  <2>1. PICK r : r = [NewRun("nav") EXCEPT !.base = l, !.fresh = TRUE]
    OBVIOUS
  <2>2. PICK k \in RunRecords : k = NewRun("nav") /\ k.kind = "nav" /\ k.gen = 0 /\ k.w = ldFocus
    <3>1. NewRun("nav") \in RunRecords
      BY <1>0, NewRunTypes DEF Kinds
    <3> QED BY <3>1 DEF NewRun
  <2>3. r.w = ldFocus /\ r.kind = "nav" /\ r.gen = 0
    BY <2>1, <2>2 DEF RunRecords
  <2>4. PICK win : win = [ldWin[r.w] EXCEPT !.seq = @ + 1, !.level = l]
    OBVIOUS
  <2>5. win.period = ldWin[r.w].period
    BY <1>0, <2>3, <2>4 DEF Wins
  <2>6. PICK n : n = Loading(r, win)
    OBVIOUS
  <2>7. n.gen = 0 /\ n.kind = "nav"
    <3>1. n = [r EXCEPT !.seq = win.seq, !.want = Picture(win), !.stage = IF r.fresh THEN "cycles" ELSE "data"]
      BY <2>6 DEF Loading
    <3>2. n.gen = r.gen /\ n.kind = r.kind
      BY <2>1, <2>2, <3>1 DEF RunRecords
    <3> QED BY <2>3, <3>2
  <2>8. /\ ldWin' = [ldWin EXCEPT ![ldFocus] = win] /\ ldRuns' = ldRuns \cup {n}
        /\ ldGen' = ldGen /\ ldMode' = ldMode /\ ldMixed' = ldMixed
    BY <1>1, <2>1, <2>3, <2>4, <2>6 DEF LevelSelect
  <2> QED BY <1>0, <1>s, <2>3, <2>5, <2>7, <2>8, HandlerUnswept
<1>2. ASSUME NEW m \in DOMAIN Models, ModelSelect(m) PROVE Unswept
  <2>1. PICK r : r = [NewRun("model") EXCEPT !.fresh = TRUE]
    OBVIOUS
  <2>2. PICK k \in RunRecords : k = NewRun("model") /\ k.kind = "model" /\ k.gen = 0
    <3>1. NewRun("model") \in RunRecords
      BY <1>0, NewRunTypes DEF Kinds
    <3> QED BY <3>1 DEF NewRun
  <2>3. r \in RunRecords /\ r.kind = "model" /\ r.gen = 0
    BY <2>1, <2>2 DEF RunRecords
  <2>4. PICK win : win = [ldWin[ldFocus] EXCEPT !.seq = @ + 1, !.model = m, !.cycle = 0]
    OBVIOUS
  <2>5. win.period = ldWin[ldFocus].period
    BY <1>0, <2>4 DEF Wins
  <2>6. PICK n : n = Loading(r, win)
    OBVIOUS
  <2>7. n.gen = 0 /\ n.kind = "model"
    BY <2>3, <2>6, LoadingFields
  <2>8. /\ ldWin' = [ldWin EXCEPT ![ldFocus] = win] /\ ldRuns' = ldRuns \cup {n}
        /\ ldGen' = ldGen /\ ldMode' = ldMode /\ ldMixed' = ldMixed
    BY <1>2, <2>1, <2>4, <2>6 DEF ModelSelect
  <2> QED BY <1>0, <1>s, <2>5, <2>7, <2>8, HandlerUnswept
<1>3. ASSUME NEW fresh \in BOOLEAN, Reload(fresh) PROVE Unswept
  <2>1. PICK r : r = [NewRun("reload") EXCEPT !.fresh = fresh]
    OBVIOUS
  <2>2. PICK k \in RunRecords : k = NewRun("reload") /\ k.kind = "reload" /\ k.gen = 0 /\ k.w = ldFocus
    <3>1. NewRun("reload") \in RunRecords
      BY <1>0, NewRunTypes DEF Kinds
    <3> QED BY <3>1 DEF NewRun
  <2>3. r \in RunRecords /\ r.kind = "reload" /\ r.gen = 0 /\ r.w = ldFocus
    BY <2>1, <2>2 DEF RunRecords
  <2>4. PICK win : win = IF fresh THEN [ldWin[r.w] EXCEPT !.cycle = 0] ELSE ldWin[r.w]
    OBVIOUS
  <2>5. win.period = ldWin[ldFocus].period
    BY <1>0, <2>3, <2>4 DEF Wins
  <2>6. PICK l : l = Loading(r, win)
    OBVIOUS
  <2>7. PICK n : n = [l EXCEPT !.seq = NoSeq]
    OBVIOUS
  <2>8. n.gen = 0 /\ n.kind = "reload"
    <3>1. l = [r EXCEPT !.seq = win.seq, !.want = Picture(win), !.stage = IF r.fresh THEN "cycles" ELSE "data"]
      BY <2>6 DEF Loading
    <3>2. n.gen = r.gen /\ n.kind = r.kind
      BY <2>3, <2>7, <3>1 DEF RunRecords
    <3> QED BY <2>3, <3>2
  <2>9. ldWin' = [ldWin EXCEPT ![ldFocus] = win]
    <3>1. ldWin' = [ldWin EXCEPT ![r.w] = win]
      BY <1>3, <2>1, <2>4 DEF Reload
    <3> QED BY <2>3, <3>1
  <2>10. ldRuns' = ldRuns \cup {n}
    BY <1>3, <2>1, <2>4, <2>6, <2>7 DEF Reload
  <2>11. ldGen' = ldGen /\ ldMode' = ldMode /\ ldMixed' = ldMixed
    BY <1>3 DEF Reload
  <2> QED BY <1>0, <1>s, <2>5, <2>8, <2>9, <2>10, <2>11, HandlerUnswept
<1>4. ASSUME NEW l \in PresetLevels, LoadData(l) PROVE Unswept
  <2>1. PICK n : n = [NewRun("data") EXCEPT !.delta = l, !.fresh = TRUE, !.stage = "style"]
    OBVIOUS
  <2>2. n.gen = 0 /\ n.kind = "data"
    BY <2>1 DEF NewRun
  <2>3. ldRuns' = ldRuns \cup {n} /\ UNCHANGED <<ldWin, ldGen, ldMode, ldMixed>>
    BY <1>4, <2>1 DEF LoadData
  <2> QED BY <2>2, <2>3 DEF Unswept
<1>5. ASSUME NEW w \in LdWindows, FocusWindow(w) PROVE Unswept
  <2>1. PICK n : n = [NewRun("refresh") EXCEPT !.id = ldCalls + 1, !.w = w, !.base = ldRefresh[w] + 1, !.stage = "refresh"]
    OBVIOUS
  <2>2. n.gen = 0 /\ n.kind = "refresh"
    BY <2>1 DEF NewRun
  <2>3. ldRuns' = ldRuns \cup {n} /\ UNCHANGED <<ldWin, ldGen, ldMode, ldMixed>>
    BY <1>5, <2>1 DEF FocusWindow, Refresh
  <2> QED BY <2>2, <2>3 DEF Unswept
<1> QED BY <1>1, <1>2, <1>3, <1>4, <1>5, UnsweptKeeps

LEMMA LevelStepSweep ==
    ASSUME LInv, SweepInv, NEW delta \in {1, -1}, LevelStep(delta)
    PROVE  SweepInv'
<1>1. PICK n : RunOK(n) /\ n.kind = "level" /\ GoOn(n, ldWin, ldShown, ldRuns)
  BY LevelStepGoes
<1>2. LTypes /\ RunsOK /\ UNCHANGED <<ldGen, ldMode, ldMixed>>
  BY DEF LInv, LevelStep
<1>3. {} \in SUBSET ldRuns /\ (\A p \in {} : p.stage # "preload" /\ p.gen = 0) /\ ldRuns \ {} = ldRuns
  OBVIOUS
<1>4. GoOn(n, ldWin, ldShown, ldRuns \ {})
  BY <1>1, <1>3
<1>5. n.kind \notin {"deal", "time"}
  BY <1>1
<1>6. Unswept
  BY ONLY <1>1, <1>2, <1>3, <1>4, <1>5, LevelGoes
<1> QED BY <1>6, UnsweptKeeps

LEMMA AllocateSweep ==
    ASSUME LInv, SweepInv, NEW mode \in LdModes, Allocate(mode)
    PROVE  SweepInv'
<1>1. LTypes /\ ldCalls + 1 \in Nat /\ ldRuns \in SUBSET ldRuns /\ Disturbs /\ ldGen' = ldGen
  BY DEF LInv, LTypes, Allocate
<1>2. CASE mode = "none"
  <2>1. ldMode' = "none" /\ UNCHANGED <<ldWin, ldRuns>>
    BY <1>2 DEF Allocate
  <2>2. SweepRuns'
    BY <2>1 DEF SweepInv, SweepRuns
  <2>3. CASE ldMixed'
    BY <2>2, <2>3 DEF SweepInv, Covered
  <2>4. CASE ~ldMixed'
    <3>1. Sweeps' = {}
      BY <1>1, <2>1, <2>4 DEF Disturbs, Sweeps
    <3>2. InStep'
      BY <2>1 DEF InStep
    <3> QED BY <2>2, <3>1, <3>2 DEF SweepInv, Covered, Rests
  <2> QED BY <2>3, <2>4
<1>3. CASE mode # "none"
  <2>1. StartAllocation(mode, ldCalls + 1, ldRuns)
    BY <1>3 DEF Allocate
  <2> QED BY <1>1, <2>1, AllocationKeeps
<1> QED BY <1>2, <1>3

LEMMA TimeSweep ==
    ASSUME LInv, SweepInv, NEW p \in Int, TimeChange(p)
    PROVE  SweepInv'
<1>0. LTypes /\ RunsOK /\ ldGen \in Nat /\ ldMode' = ldMode /\ ldMode \in LdModes /\ ldFocus \in LdWindows
  BY DEF LInv, LTypes, TimeChange
<1>1. PICK r : r = TimeRun(p)
  OBVIOUS
<1>2. /\ r \in RunRecords /\ r.kind = (IF ldMode # "none" THEN "time" ELSE "one") /\ r.mode = ldMode
      /\ r.gen = (IF ldMode # "none" THEN ldGen + 1 ELSE 0)
      /\ r.todo = (IF ldMode # "none" THEN Visible ELSE <<ldFocus>>)
  BY <1>0, <1>1, TimeRunTypes
<1>3. PICK s : s = [r EXCEPT !.w = Head(r.todo), !.todo = Tail(r.todo)]
  OBVIOUS
<1>4. Head(r.todo) \in LdWindows /\ Tail(r.todo) \in Seq(LdWindows)
  <2>1. r.todo # <<>> /\ r.todo \in Seq(LdWindows)
    BY <1>0, <1>2, WindowLoadsAssumption DEF RunRecords
  <2> QED BY <2>1
<1>5. /\ s \in RunRecords /\ s.w = Head(r.todo) /\ s.w \in LdWindows /\ s.todo = Tail(r.todo)
      /\ s.kind = r.kind /\ s.mode = r.mode /\ s.gen = r.gen /\ s.base = r.base
  BY <1>2, <1>3, <1>4 DEF RunRecords
<1>6. PICK dealt : dealt = DealtAnew(r)
  OBVIOUS
<1>7. PICK win : win = Reached(s, dealt[s.w])
  OBVIOUS
<1>8. PICK n : n = Loading(s, win)
  OBVIOUS
<1>9. n.kind = r.kind /\ n.mode = ldMode /\ n.gen = r.gen /\ n.base = r.base /\ n.todo = s.todo
  BY <1>2, <1>5, <1>8, LoadingFields
<1>10. ldWin' = [dealt EXCEPT ![s.w] = win]
  BY <1>1, <1>3, <1>6, <1>7 DEF TimeChange
<1>11. ldRuns' = ldRuns \cup {n}
  BY <1>1, <1>3, <1>6, <1>7, <1>8 DEF TimeChange
<1>12. ldGen' = ldGen + (IF ldMode # "none" THEN 1 ELSE 0) /\ ldMixed' = ldMixed
  BY DEF TimeChange
<1>13. SweepRuns'
  <2>1. (n.gen # 0 => n.mode # "none") /\ (n.kind = "time" => n.gen # 0)
    BY <1>0, <1>2, <1>9
  <2> QED BY <1>11, <2>1 DEF SweepInv, SweepRuns
<1>14. CASE ldMode = "none"
  <2>1. n.gen = 0 /\ ldGen' = ldGen
    BY <1>0, <1>2, <1>9, <1>12, <1>14
  <2>2. Sweeps' = Sweeps
    BY <1>11, <2>1 DEF Sweeps
  <2>3. InStep'
    BY <1>0, <1>14 DEF InStep
  <2>4. \A q \in ldRuns : ~Sweeping(q)
    BY <1>14 DEF SweepInv, SweepRuns, Sweeping, Sweeps
  <2>5. CASE ldMixed \/ \E q \in ldRuns : q.stage = "preload"
    BY <1>11, <1>12, <1>13, <2>5 DEF SweepInv, Covered
  <2> QED BY <1>13, <2>2, <2>3, <2>4, <2>5 DEF SweepInv, Covered, Rests
<1>15. CASE ldMode # "none"
  <2>1. n.gen = ldGen + 1 /\ ldGen' = ldGen + 1 /\ r.todo = Visible /\ r.kind = "time"
    BY <1>2, <1>9, <1>12, <1>15
  <2>2. s.w = Visible[1] /\ n.todo = Tail(Visible)
    BY <1>5, <1>9, <2>1
  <2>3. Sweeps' = {n}
    <3>1. \A q \in ldRuns : q.gen \in Nat /\ q.gen <= ldGen
      BY <1>0 DEF RunsOK, RunOK, RunRecords
    <3>2. \A q \in ldRuns : q.gen # ldGen'
      BY <1>0, <2>1, <3>1
    <3>3. n.gen # 0 /\ n.gen = ldGen'
      BY <1>0, <2>1
    <3> QED BY ONLY <1>11, <3>2, <3>3 DEF Sweeps
  <2>4. win.period = SweepPeriod(s, win, s.w) /\ s.w \in DOMAIN dealt
    <3>2. dealt \in [LdWindows -> Wins]
      BY <1>0, <1>2, <1>6, DealtAnewTypes
    <3>3. dealt[s.w] \in Wins
      BY <1>5, <3>2
    <3> QED BY <1>5, <1>7, <2>1, <3>2, <3>3, ReachedPeriod
  <2>5. SweptOver(n, Visible[1])'
    <3>1. ldWin'[s.w] = win
      BY <1>10, <2>4
    <3>2. SweepPeriod(n, win, s.w) = SweepPeriod(s, win, s.w)
      BY <1>2, <1>5, <1>9 DEF SweepPeriod
    <3>3. ldWin'[s.w].period = SweepPeriod(n, ldWin'[s.w], s.w)
      BY <2>4, <3>1, <3>2
    <3> QED BY <2>2, <3>3 DEF SweptOver
  <2>6. ASSUME NEW v \in LdWindows, v # Visible[1] PROVE SweptOver(n, v)'
    <3>1. Visible \in Seq(LdWindows) /\ PositionOf(v) \in 1 .. Len(Visible) /\ Visible[PositionOf(v)] = v
      BY WindowLoadsAssumption, Places
    <3>2. PICK i \in 2 .. Len(Visible) : Visible[i] = v
      BY <2>6, <3>1
    <3>3. PICK t : t = Tail(Visible)
      OBVIOUS
    <3>4. i - 1 \in DOMAIN t /\ t[i - 1] = v
      BY <3>1, <3>2, <3>3
    <3>5. v \in Members(n.todo)
      BY <2>2, <3>3, <3>4 DEF Members
    <3> QED BY <3>5 DEF SweptOver
  <2>7. \A v \in LdWindows : SweptOver(n, v)'
    <3> SUFFICES ASSUME NEW v \in LdWindows PROVE SweptOver(n, v)'
      BY DEF SweptOver
    <3> QED BY <2>5, <2>6
  <2>8. Sweeping(n)'
    BY <1>0, <1>9, <2>3, <2>7 DEF Sweeping, SweptOver
  <2> QED BY <1>11, <1>13, <2>8 DEF SweepInv, Covered
<1> QED BY <1>14, <1>15

LEMMA LevelsKnownSweep ==
    ASSUME LInv, SweepInv, NEW r \in ldRuns, LevelsKnown(r)
    PROVE  SweepInv'
<1>1. LTypes /\ r.mode \in LdModes /\ r.w \in LdWindows /\ ldRuns \ {r} \in SUBSET ldRuns
  BY DEF LInv, RunsOK, RunOK, RunRecords
<1>2. /\ DealOut(r.mode, r.id, r.w, r.want, ldRuns \ {r}) /\ ldMode' = ldMode
      /\ ldMixed' = (ldMixed \/ ldMode # r.mode \/ \E q \in ldRuns : q.gen # 0)
  BY DEF LevelsKnown
<1>3. ldMixed \/ ldMode' # r.mode \/ (\E q \in ldRuns : q.gen # 0) => ldMixed'
  BY <1>2
<1> QED BY <1>1, <1>2, <1>3, DealKeeps

LEMMA StyleSweep ==
    ASSUME LInv, SweepInv, NEW r \in ldRuns, StyleReady(r)
    PROVE  SweepInv'
<1>0. /\ LTypes /\ r \in RunRecords /\ r.stage = "style" /\ r.w \in LdWindows /\ r.kind \in {"data", "alloc"} /\ r.gen = 0
      /\ ldWin \in [LdWindows -> Wins] /\ ldWin[r.w] \in Wins
  BY DEF LInv, LTypes, RunsOK, RunOK, StyleReady, RunRecords
<1>1. UNCHANGED <<ldGen, ldMode, ldMixed>>
  BY DEF StyleReady
<1>s. {r} \in SUBSET ldRuns /\ \A p \in {r} : p.stage # "preload" /\ p.gen = 0
  BY <1>0
<1>m. PICK told : told = IF r.kind = "alloc" /\ r.mode \in {"model", "step", "time"}
                         THEN [ldWin EXCEPT ![r.w].init = ldWin[r.w].cycle] ELSE ldWin
  OBVIOUS
<1>t. /\ \A v \in LdWindows : told[v].period = ldWin[v].period
      /\ told[r.w] \in Wins
  <2>1. PICK c \in Int : c = ldWin[r.w].cycle
    BY <1>0 DEF Wins
  <2>2. PICK e : e = [ldWin[r.w] EXCEPT !.init = c]
    OBVIOUS
  <2>3. e.period = ldWin[r.w].period /\ e \in Wins
    BY <1>0, <2>2 DEF Wins
  <2>4. told = ldWin \/ told = [ldWin EXCEPT ![r.w] = e]
    BY <1>m, <2>1, <2>2
  <2> QED BY <1>0, <2>3, <2>4
<1>2. CASE ldRuns' = ldRuns \ {r} /\ ldWin' = told
  <2>1. Unswept
    BY <1>0, <1>1, <1>2, <1>t DEF Unswept
  <2> QED BY <2>1, UnsweptKeeps
<1>3. CASE LET win == [ldWin[r.w] EXCEPT !.seq = @ + 1]
               preset == [win EXCEPT !.level = r.delta, !.model = 1, !.cycle = 0, !.init = 0]
           IN  /\ ldWin' = [ldWin EXCEPT ![r.w] = preset]
               /\ ldRuns' = (ldRuns \ {r}) \cup {[r EXCEPT !.seq = win.seq, !.stage = "preset"]}
  <2>1. PICK win : win = [ldWin[r.w] EXCEPT !.seq = @ + 1]
    OBVIOUS
  <2>2. PICK preset : preset = [win EXCEPT !.level = r.delta, !.model = 1, !.cycle = 0, !.init = 0]
    OBVIOUS
  <2>3. win \in Wins /\ win.period = ldWin[r.w].period
    <3>1. win \in Wins
      BY <1>0, <2>1, Numbered
    <3>2. win.period = ldWin[r.w].period
      BY <1>0, <2>1 DEF Wins
    <3> QED BY <3>1, <3>2
  <2>4. preset.period = ldWin[r.w].period
    BY <2>2, <2>3 DEF Wins
  <2>5. PICK n : n = [r EXCEPT !.seq = win.seq, !.stage = "preset"]
    OBVIOUS
  <2>6. n.gen = 0 /\ n.kind # "time"
    BY <1>0, <2>5 DEF RunRecords
  <2>7. ldWin' = [ldWin EXCEPT ![r.w] = preset] /\ ldRuns' = (ldRuns \ {r}) \cup {n}
    BY <1>3, <2>1, <2>2, <2>5
  <2>8. Unswept
    BY <1>0, <1>1, <1>s, <2>4, <2>6, <2>7, HandlerUnswept
  <2> QED BY <2>8, UnsweptKeeps
<1>4. CASE LET dealt == [told[r.w] EXCEPT !.seq = @ + 1]
           IN  /\ ldWin' = [ldWin EXCEPT ![r.w] = dealt]
               /\ ldRuns' = (ldRuns \ {r}) \cup {Loading(r, dealt)}
  <2>1. PICK win : win = [told[r.w] EXCEPT !.seq = @ + 1]
    OBVIOUS
  <2>2. win.period = ldWin[r.w].period
    <3>1. win.period = told[r.w].period
      BY <1>t, <2>1 DEF Wins
    <3> QED BY <1>0, <1>t, <3>1
  <2>3. PICK n : n = Loading(r, win)
    OBVIOUS
  <2>4. n.gen = 0 /\ n.kind # "time"
    BY <1>0, <2>3, LoadingFields
  <2>5. ldWin' = [ldWin EXCEPT ![r.w] = win] /\ ldRuns' = (ldRuns \ {r}) \cup {n}
    BY <1>4, <2>1, <2>3
  <2>6. Unswept
    BY <1>0, <1>1, <1>s, <2>2, <2>4, <2>5, HandlerUnswept
  <2> QED BY <2>6, UnsweptKeeps
<1> QED BY <1>2, <1>3, <1>4, <1>m DEF StyleReady

LEMMA PresetSweep ==
    ASSUME LInv, SweepInv, NEW r \in ldRuns, PresetReady(r)
    PROVE  SweepInv'
<1>1. r \in RunRecords /\ r.stage = "preset" /\ r.kind \in {"data", "alloc"} /\ r.gen = 0
  BY DEF LInv, RunsOK, RunOK, PresetReady
<1>2. PICK l : l = Loading(r, ldWin[r.w])
  OBVIOUS
<1>3. PICK n : n = [l EXCEPT !.seq = r.seq]
  OBVIOUS
<1>4. n.gen = 0 /\ n.kind # "time"
  <2>1. l = [r EXCEPT !.seq = ldWin[r.w].seq, !.want = Picture(ldWin[r.w]), !.stage = IF r.fresh THEN "cycles" ELSE "data"]
    BY <1>2 DEF Loading
  <2>2. n.gen = r.gen /\ n.kind = r.kind
    BY <1>1, <1>3, <2>1 DEF RunRecords
  <2> QED BY <1>1, <2>2
<1>5. ldRuns' = (ldRuns \ {r}) \cup {n} /\ UNCHANGED <<ldWin, ldGen, ldMode, ldMixed>>
  BY <1>2, <1>3 DEF PresetReady
<1>6. Unswept
  BY <1>1, <1>4, <1>5 DEF Unswept
<1> QED BY <1>6, UnsweptKeeps

LEMMA RefreshSweep ==
    ASSUME LInv, SweepInv, NEW r \in ldRuns, RefreshReady(r)
    PROVE  SweepInv'
<1>0. /\ LTypes /\ r \in RunRecords /\ r.stage = "refresh" /\ r.kind = "refresh" /\ r.w \in LdWindows /\ r.gen = 0
      /\ ldWin \in [LdWindows -> Wins] /\ ldWin[r.w] \in Wins
  BY DEF LInv, LTypes, RunsOK, RunOK, RefreshReady, RunRecords
<1>1. ldGen' = ldGen /\ ldMode' = ldMode /\ (ldMixed => ldMixed')
  BY DEF RefreshReady, Disturbs
<1>c. PICK c \in Int : c = ldWin[r.w].init
  BY <1>0 DEF Wins
<1>n. PICK next : next = [ldWin[r.w] EXCEPT !.seq = @ + 1, !.cycle = ldWin[r.w].init]
  OBVIOUS
<1>2. CASE ldRuns' = ldRuns \ {r} /\ (ldWin' = ldWin \/ ldWin' = [ldWin EXCEPT ![r.w].cycle = ldWin[r.w].init])
  <2>1. PICK e : e = [ldWin[r.w] EXCEPT !.cycle = c]
    OBVIOUS
  <2>2. e.period = ldWin[r.w].period
    BY <1>0, <2>1 DEF Wins
  <2>3. ldWin' = ldWin \/ ldWin' = [ldWin EXCEPT ![r.w] = e]
    BY <1>2, <1>c, <2>1
  <2>4. \A v \in LdWindows : ldWin'[v].period = ldWin[v].period
    BY <1>0, <2>2, <2>3
  <2>5. Unswept
    BY <1>0, <1>1, <1>2, <2>4 DEF Unswept
  <2> QED BY <2>5, UnsweptKeeps
<1>3. CASE ldWin' = [ldWin EXCEPT ![r.w] = next] /\ ldRuns' = (ldRuns \ {r}) \cup {Loading(r, next)}
  <2>1. PICK n : n = Loading(r, next)
    OBVIOUS
  <2>2. n.gen = 0 /\ n.kind # "time"
    BY <1>0, <2>1, LoadingFields
  <2>3. next.period = ldWin[r.w].period
    BY <1>0, <1>n DEF Wins
  <2>4. {r} \in SUBSET ldRuns /\ \A p \in {r} : p.stage # "preload" /\ p.gen = 0
    BY <1>0
  <2>5. Unswept
    BY <1>0, <1>1, <1>3, <2>1, <2>2, <2>3, <2>4, HandlerUnswept
  <2> QED BY <2>5, UnsweptKeeps
<1>4. CASE ~(ldRefresh[r.w] = r.base /\ ldWin[r.w].cycle # ldWin[r.w].init /\ r.w = ldFocus)
  <2>1. /\ ldRuns' = ldRuns \ {r}
        /\ ldWin' = IF ldRefresh[r.w] = r.base THEN [ldWin EXCEPT ![r.w].cycle = ldWin[r.w].init] ELSE ldWin
    BY <1>4 DEF RefreshReady
  <2> QED BY <1>2, <2>1
<1>5. CASE ldRefresh[r.w] = r.base /\ ldWin[r.w].cycle # ldWin[r.w].init /\ r.w = ldFocus
  <2>1. ldRuns' = (ldRuns \ {r}) \cup {Loading(r, next)}
    BY <1>5, <1>n DEF RefreshReady
  <2>2. ldWin' = [ldWin EXCEPT ![r.w] = next]
    BY <1>5, <1>n DEF RefreshReady
  <2> QED BY <1>3, <2>1, <2>2
<1> QED BY <1>4, <1>5

(* A load of a sweep that waits for its next answer is the same sweep.       *)
LEMMA StageSweep ==
    ASSUME LInv, SweepInv, NEW r \in ldRuns, CyclesReady(r) \/ PaletteAsked(r)
    PROVE  SweepInv'
<1>1. PICK stage \in {"data", "palette"} :
         /\ r.stage \in {"cycles", "data"} /\ ldRuns' = (ldRuns \ {r}) \cup {[r EXCEPT !.stage = stage]}
         /\ UNCHANGED <<ldWin, ldGen, ldMode, ldMixed>>
  BY DEF CyclesReady, PaletteAsked
<1>2. r \in RunRecords
  BY DEF LInv, RunsOK, RunOK
<1>3. PICK n : n = [r EXCEPT !.stage = stage]
  OBVIOUS
<1>4. n.gen = r.gen /\ n.kind = r.kind /\ n.mode = r.mode /\ n.base = r.base /\ n.todo = r.todo
  BY <1>2, <1>3 DEF RunRecords
<1>5. ldRuns' = (ldRuns \ {r}) \cup {n} /\ UNCHANGED <<ldWin, ldGen, ldMode, ldMixed>>
  BY <1>1, <1>3
<1>6. SweepRuns'
  BY <1>4, <1>5 DEF SweepInv, SweepRuns
<1>7. CASE ldMixed \/ \E q \in ldRuns : q.stage = "preload"
  BY <1>1, <1>5, <1>6, <1>7 DEF SweepInv, Covered
<1>8. CASE Rests
  <2>1. Sweeps' = {}
    BY <1>4, <1>5, <1>8 DEF Rests, Sweeps
  <2>2. InStep'
    BY <1>5, <1>8 DEF Rests, InStep
  <2> QED BY <1>6, <2>1, <2>2 DEF SweepInv, Covered, Rests
<1>9. ASSUME NEW q \in ldRuns, Sweeping(q) PROVE SweepInv'
  <2>1. CASE q = r
    <3>1. Sweeps' = {n}
      BY <1>4, <1>5, <1>9, <2>1 DEF Sweeping, Sweeps
    <3>2. \A v \in LdWindows : SweptOver(r, v)
      BY <1>9, <2>1 DEF Sweeping
    <3>3. ASSUME NEW v \in LdWindows PROVE SweptOver(n, v)'
      BY <1>4, <1>5, <3>2 DEF SweptOver, SweepPeriod
    <3>4. Sweeping(n)'
      BY <1>4, <1>5, <1>9, <2>1, <3>1, <3>3 DEF Sweeping, SweptOver
    <3> QED BY <1>5, <1>6, <3>4 DEF SweepInv, Covered
  <2>2. CASE q # r
    <3>1. r \notin Sweeps /\ q \in ldRuns'
      BY <1>5, <1>9, <2>2 DEF Sweeping
    <3>2. Sweeps' = Sweeps
      BY <1>4, <1>5, <3>1 DEF Sweeps
    <3>3. Sweeping(q)'
      BY <1>5, <1>9, <3>2 DEF Sweeping, SweptOver
    <3> QED BY <1>6, <3>1, <3>3 DEF SweepInv, Covered
  <2> QED BY <2>1, <2>2
<1> QED BY <1>7, <1>8, <1>9 DEF SweepInv, Covered

LEMMA ReturnSweep ==
    ASSUME LInv, SweepInv, NEW r \in ldRuns, Dropped(r) \/ FetchFails(r) \/ Drawn(r) \/ PaletteReady(r)
    PROVE  SweepInv'
<1>1. PICK shown : Return(r, shown)
  BY DEF Dropped, FetchFails, Drawn, PaletteReady
<1>2. r.stage \in {"data", "palette"} /\ ldGen' = ldGen
  BY DEF Dropped, FetchFails, Drawn, PaletteReady
<1>3. /\ LTypes /\ RunsOK /\ RunOK(r) /\ r \in RunRecords /\ r.w \in LdWindows /\ r.id \in Nat /\ r.kind # "deal"
      /\ ldWin \in [LdWindows -> Wins] /\ ldFocus \in LdWindows /\ ldMode \in LdModes
  BY <1>2 DEF LInv, LTypes, RunsOK, RunOK, RunRecords
<1>4. {r} \in SUBSET ldRuns /\ \A p \in {r} : p.stage # "preload"
  BY <1>2
<1>5. r.kind # "time" => r.gen = 0
  BY <1>3 DEF RunOK
<1>6. CASE r.kind = "time"
  <2>1. GoOn(r, ldWin, shown, ldRuns \ {r}) /\ UNCHANGED <<ldGen, ldMode, ldMixed>>
    BY <1>1, <1>2, <1>6 DEF Return
  <2> QED BY <1>2, <1>3, <1>6, <2>1, SweepGoes
<1>7. CASE r.kind \in {"level", "one", "alloc", "reload", "refresh"}
  <2>1. GoOn(r, ldWin, shown, ldRuns \ {r}) /\ UNCHANGED <<ldGen, ldMode, ldMixed>>
    BY <1>1, <1>2, <1>7 DEF Return
  <2>2. \A p \in {r} : p.stage # "preload" /\ p.gen = 0
    BY <1>4, <1>5, <1>7
  <2>3. r.kind \notin {"deal", "time"}
    BY <1>7
  <2>4. Unswept
    BY ONLY <1>3, <1>4, <2>1, <2>2, <2>3, LevelGoes
  <2> QED BY <2>4, UnsweptKeeps
<1>8. CASE r.kind = "model"
  <2>1. PICK n : n = [NewRun("refresh") EXCEPT !.id = r.id, !.w = r.w, !.base = ldRefresh[r.w] + 1, !.stage = "refresh"]
    OBVIOUS
  <2>2. n.gen = 0 /\ n.kind = "refresh"
    BY <2>1 DEF NewRun
  <2>3. ldRuns' = (ldRuns \ {r}) \cup {n} /\ UNCHANGED <<ldWin, ldGen, ldMode, ldMixed>>
    BY <1>1, <1>2, <1>8, <2>1 DEF Return, Refresh
  <2>4. Unswept
    BY <1>2, <1>5, <1>8, <2>2, <2>3 DEF Unswept
  <2> QED BY <2>4, UnsweptKeeps
<1>9. CASE r.kind = "data"
  <2>1. CASE ldMode # "none" /\ r.w = ldFocus
    <3>1. StartAllocation(ldMode, r.id, ldRuns \ {r}) /\ Disturbs
      BY <1>1, <1>9, <2>1 DEF Return
    <3>2. ldRuns \ {r} \in SUBSET ldRuns
      OBVIOUS
    <3> QED BY <1>3, <3>1, <3>2, AllocationKeeps
  <2>2. CASE ~(ldMode # "none" /\ r.w = ldFocus)
    <3>1. ldRuns' = ldRuns \ {r} /\ UNCHANGED <<ldWin, ldGen, ldMode, ldMixed>>
      BY <1>1, <1>2, <1>9, <2>2 DEF Return
    <3>2. Unswept
      BY <1>2, <1>5, <1>9, <3>1 DEF Unswept
    <3> QED BY <3>2, UnsweptKeeps
  <2> QED BY <2>1, <2>2
<1>10. CASE r.kind = "nav"
  <2>1. NavReturn(r, shown, ldRuns \ {r}) /\ ldMixed' = ldMixed
    BY <1>1, <1>10 DEF Return
  <2>2. ldMode' = ldMode
    BY <2>1 DEF NavReturn
  <2>3. CASE r.w = ldFocus /\ ldMode \in {"step", "time"}
    <3>1. PICK rest : rest = SubSeq(Visible, 1, PositionOf(ldFocus) - 1) \o SubSeq(Visible, PositionOf(ldFocus) + 1, Len(Visible))
      OBVIOUS
    <3>2. rest \in Seq(LdWindows)
      <4>1. PICK k \in 1 .. Len(Visible) : k = PositionOf(ldFocus)
        BY <1>3, Places
      <4>2. Visible \in Seq(LdWindows)
        BY WindowLoadsAssumption
      <4>3. SubSeq(Visible, 1, k - 1) \in Seq(LdWindows) /\ SubSeq(Visible, k + 1, Len(Visible)) \in Seq(LdWindows)
        BY <4>1, <4>2
      <4> QED BY <3>1, <4>1, <4>3
    <3>3. PICK n : n = [r EXCEPT !.kind = "level", !.mode = ldMode, !.todo = rest]
      OBVIOUS
    <3>4. GoOn(n, ldWin, shown, ldRuns \ {r})
      BY <2>1, <2>3, <3>1, <3>3 DEF NavReturn
    <3>5. RunOK(n) /\ n.kind = "level"
      BY <1>2, <1>3, <1>10, <3>2, <3>3, NavRunOK
    <3>6. UNCHANGED <<ldGen, ldMode, ldMixed>> /\ n.kind \notin {"deal", "time"} /\ \A p \in {r} : p.stage # "preload" /\ p.gen = 0
      BY <1>2, <1>4, <1>5, <1>10, <2>1, <2>2, <3>5
    <3>7. Unswept
      BY ONLY <1>3, <1>4, <3>4, <3>5, <3>6, LevelGoes
    <3> QED BY <3>7, UnsweptKeeps
  <2>4. CASE r.w = ldFocus /\ ldMode = "model"
    <3>1. PICK i \in LdWindows : i = Initiator(ldFocus)
      BY <1>3, Initiators
    <3>2. PICK win : win = [ldWin[i] EXCEPT !.level = r.base]
      OBVIOUS
    <3>3. win.period = ldWin[i].period /\ win \in Wins
      <4>1. r.base \in 1 .. Len(Levels)
        BY <1>3, <1>10 DEF RunOK
      <4> QED BY <1>3, <3>2, <4>1 DEF Wins
    <3>4. PICK wins : wins = [ldWin EXCEPT ![i] = win]
      OBVIOUS
    <3>5. PICK n : n = DealRun("model", r.id, wins)
      OBVIOUS
    <3>6. n.gen = 0 /\ n.kind = "deal"
      <4>1. "model" \in LdModes /\ wins \in [LdWindows -> Wins]
        BY <1>3, <3>3, <3>4 DEF LdModes
      <4> QED BY <1>3, <3>5, <4>1, DealRunOK
    <3>7. ldWin' = [ldWin EXCEPT ![i] = win] /\ ldRuns' = (ldRuns \ {r}) \cup {n}
      BY <2>1, <2>4, <3>1, <3>2, <3>4, <3>5 DEF NavReturn
    <3>8. \A p \in {r} : p.stage # "preload" /\ p.gen = 0
      BY <1>4, <1>5, <1>10
    <3>9. n.kind # "time" /\ ldGen' = ldGen /\ ldMode' = ldMode /\ (ldMixed => ldMixed')
      BY <1>2, <2>1, <2>2, <3>6
    <3>10. Unswept
      BY ONLY <1>3, <1>4, <3>3, <3>6, <3>7, <3>8, <3>9, HandlerUnswept
    <3> QED BY <3>10, UnsweptKeeps
  <2>5. CASE ~(r.w = ldFocus /\ ldMode \in {"step", "time", "model"})
    <3>1. ldRuns' = ldRuns \ {r} /\ ldWin' = ldWin
      BY <2>1, <2>5 DEF NavReturn
    <3>2. Unswept
      BY <1>2, <1>5, <1>10, <2>1, <2>2, <3>1 DEF Unswept
    <3> QED BY <3>2, UnsweptKeeps
  <2> QED BY <2>3, <2>4, <2>5
<1> QED BY <1>3, <1>6, <1>7, <1>8, <1>9, <1>10 DEF RunRecords, Kinds

LEMMA SweepInit == LdInit => SweepInv
<1> SUFFICES ASSUME LdInit PROVE SweepInv
  OBVIOUS
<1>1. LTypes /\ ldRuns = {} /\ ldMode \in LdModes
  BY LInvInit DEF LInv, LdInit, LTypes
<1>2. PICK start : start = [seq |-> 0, cycle |-> 0, init |-> 0, period |-> 1, level |-> 1, model |-> 1]
  OBVIOUS
<1>3. start \in Wins
  BY <1>2, WindowLoadsAssumption DEF Wins
<1>4. ASSUME NEW w \in LdWindows
      PROVE  /\ ldMode = "step" => ldWin[w].period = start.period + PositionOf(w) - 1
             /\ ldMode \in {"level", "model"} => ldWin[w].period = start.period
  <2>1. PICK a \in Wins : a = Allocated(ldMode, start, PositionOf(w))
    <3>1. PositionOf(w) \in Nat \ {0}
      BY Places
    <3> QED BY <1>1, <1>3, <3>1, DealtTypes
  <2>2. a.period = CASE ldMode = "step" -> start.period + PositionOf(w) - 1
                     [] ldMode = "time" -> start.period + (PositionOf(w) - 1) * CycleStep
                     [] OTHER           -> start.period
    BY <2>1 DEF Allocated
  <2>3. ldWin[w] = [a EXCEPT !.init = a.cycle]
    BY <1>2, <2>1 DEF LdInit
  <2>4. ldWin[w].period = a.period
    BY <2>3 DEF Wins
  <2> QED BY <2>2, <2>4
<1>5. PositionOf(Visible[1]) = 1 /\ Visible[1] \in LdWindows /\ start.period = 1 /\ \A v \in LdWindows : PositionOf(v) \in Int
  <2>1. PositionOf(Visible[1]) = 1 /\ Visible[1] \in LdWindows
    BY PlacesMatch, WindowLoadsAssumption
  <2>2. \A v \in LdWindows : PositionOf(v) \in Int
    BY Places
  <2> QED BY <1>2, <2>1, <2>2
<1>6. InStep
  <2> SUFFICES ASSUME NEW v \in LdWindows
               PROVE  /\ ldMode = "step" => ldWin[v].period = ldWin[Visible[1]].period + PositionOf(v) - 1
                      /\ ldMode \in {"level", "model"} => ldWin[v].period = ldWin[Visible[1]].period
    BY DEF InStep
  <2> QED BY <1>4, <1>5
<1> QED BY <1>1, <1>6 DEF SweepInv, SweepRuns, Covered, Rests, Sweeps

LEMMA SweepStep == LInv /\ SweepInv /\ [LdNext]_ldVars => SweepInv'
<1> SUFFICES ASSUME LInv, SweepInv, [LdNext]_ldVars PROVE SweepInv'
  OBVIOUS
<1>1. ASSUME NEW p \in TargetPeriods, TimeChange(p) PROVE SweepInv'
  <2>1. p \in Int
    BY WindowLoadsAssumption
  <2> QED BY <1>1, <2>1, TimeSweep
<1>2. ASSUME NEW d \in {1, -1}, LevelStep(d) PROVE SweepInv'
  BY <1>2, LevelStepSweep
<1>3. CASE \/ \E l \in DOMAIN Levels : LevelSelect(l)
           \/ \E m \in DOMAIN Models : ModelSelect(m)
           \/ \E fresh \in BOOLEAN : Reload(fresh)
           \/ \E l \in PresetLevels : LoadData(l)
           \/ \E w \in LdWindows : FocusWindow(w)
  BY <1>3, HandlersSweep
<1>4. ASSUME NEW m \in LdModes, Allocate(m) PROVE SweepInv'
  BY <1>4, AllocateSweep
<1>5. ASSUME NEW r \in ldRuns, LevelsKnown(r) PROVE SweepInv'
  BY <1>5, LevelsKnownSweep
<1>6. ASSUME NEW r \in ldRuns, StyleReady(r) PROVE SweepInv'
  BY <1>6, StyleSweep
<1>7. ASSUME NEW r \in ldRuns, PresetReady(r) PROVE SweepInv'
  BY <1>7, PresetSweep
<1>8. ASSUME NEW r \in ldRuns, CyclesReady(r) \/ PaletteAsked(r) PROVE SweepInv'
  BY <1>8, StageSweep
<1>9. ASSUME NEW r \in ldRuns, RefreshReady(r) PROVE SweepInv'
  BY <1>9, RefreshSweep
<1>10. ASSUME NEW r \in ldRuns, Dropped(r) \/ FetchFails(r) \/ Drawn(r) \/ PaletteReady(r) PROVE SweepInv'
  BY <1>10, ReturnSweep
<1>11. CASE UNCHANGED ldVars
  <2>1. UNCHANGED <<ldGen, ldMode, ldMixed, ldWin, ldRuns>>
    BY <1>11 DEF ldVars
  <2>2. Unswept
    BY <2>1 DEF Unswept
  <2> QED BY <2>2, UnsweptKeeps
<1> QED BY <1>1, <1>2, <1>3, <1>4, <1>5, <1>6, <1>7, <1>8, <1>9, <1>10, <1>11 DEF LdNext

LEMMA CoverFollows == SweepInv => SweepsCover
<1> SUFFICES ASSUME SweepInv, ldRuns = {}, ~ldMixed, NEW i \in DOMAIN Visible
             PROVE  LET first == ldWin[Visible[1]].period
                        this == ldWin[Visible[i]].period
                    IN  CASE ldMode = "step" -> this = first + i - 1
                          [] ldMode \in {"level", "model"} -> this = first
                          [] OTHER -> TRUE
  BY DEF SweepsCover
<1>1. InStep
  BY DEF SweepInv, Covered, Rests
<1>2. Visible[i] \in LdWindows /\ PositionOf(Visible[i]) = i
  BY PlacesMatch
<1> QED BY <1>1, <1>2 DEF InStep

(* A newer sweep never leaves a window behind: when nothing is under way and *)
(* no allocation crossed a sweep, the windows of a split keep step, since a  *)
(* sweep that beginSharedSweep has overtaken stops and the newest one gives  *)
(* every window its period (App.svelte, handleTimeChange).                   *)
THEOREM SweepsAreCovered == LdSpec => []SweepsCover
<1>1. LInv /\ SweepInv /\ [LdNext]_ldVars => (LInv /\ SweepInv)'
  BY LInvStep, SweepStep
<1> QED BY <1>1, LInvInit, SweepInit, CoverFollows, PTL DEF LdSpec
=============================================================================
