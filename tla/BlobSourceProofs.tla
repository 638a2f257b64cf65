-------------------------- MODULE BlobSourceProofs --------------------------
(***************************************************************************)
(* Proofs about Singleflight, BlobSource and the CQL client it fetches     *)
(* over, for every set of goroutines, requests, keys and kinds of access,  *)
(* with lossy caches, failing and panicking fetches, and any number of     *)
(* dials and faults of the connection.                                     *)
(*                                                                         *)
(* The invariant of Singleflight, IInv, says who owns a map entry: a       *)
(* goroutine inside fn has an unfinished entry for its key, a goroutine    *)
(* between wg.Done and the deletion has a finished one holding its result, *)
(* and no two goroutines lead a flight of the same key.  From it: Do is a  *)
(* mutual exclusion over each key, it loses no wakeup, and an entry of the *)
(* map is gone when its leader is.                                         *)
(*                                                                         *)
(* The flights of BlobSource are behaviours of Singleflight, so IInv holds *)
(* of them; the invariant Link says that a request which is between its    *)
(* second look and the end of its Put runs the flight of its key, unless   *)
(* it came by fetchGridLevel, and that only such a request has a Put in    *)
(* progress.  The invariant Values adds what every store, Put, look,       *)
(* flight and answer holds: whose blob an answer is, whether a warmed blob *)
(* is stored, and when Cassandra is asked.                                 *)
(*                                                                         *)
(* That of CQLClient, QueryInv, ties the connection to the mutex: only its *)
(* holder is inside Query, and the connection carries that goroutine's one *)
(* statement while it waits for it, and else nothing.                      *)
(***************************************************************************)
EXTENDS BlobSource, CQLClient, TLAPS

Leads(t, k) == call[t].pc \in {"running", "finishing"} /\ call[t].key = k

OneLeaderPerKey ==
    \A k \in Keys : \A t, u \in Threads : Leads(t, k) /\ Leads(u, k) => t = u

(* A leader's key has an entry in the map, in the state the leader left it. *)
LeaderHasFlight ==
    \A t \in Threads :
        /\ call[t].pc = "running" =>
              call[t].key \in Keys /\ flight[call[t].key] = [done |-> FALSE, val |-> None]
        /\ call[t].pc = "finishing" =>
              /\ call[t].key \in Keys
              /\ call[t].val \in Results
              /\ flight[call[t].key] = [done |-> TRUE, val |-> call[t].val]

IInv == SFTypeOK /\ OneLeaderPerKey /\ LeaderHasFlight

(* A map entry is distinguishable from the absence of one.                 *)
LEMMA FlightIsSome ==
    ASSUME NEW d \in BOOLEAN, NEW v \in Results \cup {None}
    PROVE  /\ [done |-> d, val |-> v] \in Flights
           /\ [done |-> d, val |-> v] # None
  BY SingleflightAssumption DEF Flights

(* The empty map of NewSingleflight satisfies the invariant.               *)
LEMMA IInvInit == SFInit => IInv
  BY DEF SFInit, IInv, SFTypeOK, OneLeaderPerKey, LeaderHasFlight, Leads, Idle,
         PCs

(* A goroutine that leaves Do, by a return or by a panic, takes nobody's   *)
(* flight with it.                                                         *)
LEMMA BackToIdle ==
    ASSUME IInv, NEW t \in Threads,
           call' = [call EXCEPT ![t] = Idle], flight' = flight
    PROVE  IInv'
<1>1. /\ call'[t].pc = "idle"
      /\ call' \in [Threads -> [pc : PCs, key : Keys \cup {None}, val : Results \cup {None}]]
      /\ \A u \in Threads \ {t} : call'[u] = call[u]
  BY DEF IInv, SFTypeOK, Idle, PCs
<1>2. SFTypeOK'
  BY <1>1 DEF IInv, SFTypeOK
<1>3. OneLeaderPerKey'
  BY <1>1 DEF IInv, OneLeaderPerKey, Leads
<1>4. LeaderHasFlight'
  BY <1>1 DEF IInv, LeaderHasFlight
<1> QED BY <1>2, <1>3, <1>4 DEF IInv

(* Every step of Do keeps the ownership of map entries.                    *)
LEMMA IInvStep == IInv /\ [SFNext]_sfVars => IInv'
<1> SUFFICES ASSUME IInv, [SFNext]_sfVars PROVE IInv'
  OBVIOUS
<1> USE SingleflightAssumption
<1>1. ASSUME NEW t \in Threads, NEW k \in Keys, Lead(t, k) PROVE IInv'
  <2>1. /\ flight' = [flight EXCEPT ![k] = [done |-> FALSE, val |-> None]]
        /\ call' = [call EXCEPT ![t] = [pc |-> "running", key |-> k, val |-> None]]
        /\ flight[k] = None /\ call[t].pc = "idle"
    BY <1>1 DEF Lead
  <2>2. SFTypeOK'
    BY <2>1, FlightIsSome DEF IInv, SFTypeOK, PCs
  <2>3. \A u \in Threads : ~ Leads(u, k)
    <3> SUFFICES ASSUME NEW u \in Threads, Leads(u, k) PROVE FALSE
      OBVIOUS
    <3>1. call[u].pc = "running" => flight[k] = [done |-> FALSE, val |-> None]
      BY DEF IInv, LeaderHasFlight, Leads
    <3>2. call[u].pc = "finishing" => /\ call[u].val \in Results
                                      /\ flight[k] = [done |-> TRUE, val |-> call[u].val]
      BY DEF IInv, LeaderHasFlight, Leads
    <3>3. [done |-> FALSE, val |-> None] # None
      BY FlightIsSome
    <3>4. \A v \in Results : [done |-> TRUE, val |-> v] # None
      BY FlightIsSome
    <3> QED BY <2>1, <3>1, <3>2, <3>3, <3>4 DEF Leads
  <2>4. OneLeaderPerKey'
    BY <2>1, <2>3 DEF IInv, OneLeaderPerKey, Leads, SFTypeOK
  <2>5. LeaderHasFlight'
    BY <2>1, <2>3 DEF IInv, LeaderHasFlight, Leads, SFTypeOK
  <2> QED BY <2>2, <2>4, <2>5 DEF IInv
<1>2. ASSUME NEW t \in Threads, NEW k \in Keys, Join(t, k) PROVE IInv'
  <2>1. flight[k] \in Flights
    BY <1>2 DEF Join, IInv, SFTypeOK
  <2>2. SFTypeOK'
    BY <1>2, <2>1 DEF Join, IInv, SFTypeOK, PCs, Flights
  <2>3. OneLeaderPerKey'
    BY <1>2 DEF Join, IInv, OneLeaderPerKey, Leads, SFTypeOK
  <2>4. LeaderHasFlight'
    BY <1>2 DEF Join, IInv, LeaderHasFlight, SFTypeOK
  <2> QED BY <2>2, <2>3, <2>4 DEF IInv
<1>3. ASSUME NEW t \in Threads, NEW r \in Results, Finish(t, r) PROVE IInv'
  <2> DEFINE K == call[t].key
  <2>1. /\ call[t].pc = "running" /\ K \in Keys
        /\ flight' = [flight EXCEPT ![K] = [done |-> TRUE, val |-> r]]
        /\ call' \in [Threads -> [pc : PCs, key : Keys \cup {None}, val : Results \cup {None}]]
        /\ call'[t] = [call[t] EXCEPT !.pc = "finishing", !.val = r]
        /\ \A u \in Threads \ {t} :
              \/ call'[u] = call[u]
              \/ call[u].pc = "waiting" /\ call'[u] = [call[u] EXCEPT !.pc = "returned", !.val = r]
    <3>1. call[t].pc = "running" /\ K \in Keys /\ flight' = [flight EXCEPT ![K] = [done |-> TRUE, val |-> r]]
      BY <1>3 DEF Finish, IInv, LeaderHasFlight
    <3>2. \A u \in Threads : call[u] \in [pc : PCs, key : Keys \cup {None}, val : Results \cup {None}]
      BY DEF IInv, SFTypeOK
    <3>3. DOMAIN call' = Threads /\ call' = [u \in Threads |-> call'[u]]
      BY <1>3 DEF Finish
    <3>4. call'[t] = [call[t] EXCEPT !.pc = "finishing", !.val = r]
      BY <1>3 DEF Finish
    <3>5. \A u \in Threads \ {t} :
             \/ call'[u] = call[u]
             \/ call[u].pc = "waiting" /\ call'[u] = [call[u] EXCEPT !.pc = "returned", !.val = r]
      BY <1>3 DEF Finish
    <3>6. \A u \in Threads : call'[u] \in [pc : PCs, key : Keys \cup {None}, val : Results \cup {None}]
      <4> SUFFICES ASSUME NEW u \in Threads
                   PROVE  call'[u] \in [pc : PCs, key : Keys \cup {None}, val : Results \cup {None}]
        OBVIOUS
      <4>1. call[u] \in [pc : PCs, key : Keys \cup {None}, val : Results \cup {None}]
        BY <3>2
      <4>2. [call[u] EXCEPT !.pc = "finishing", !.val = r] \in [pc : PCs, key : Keys \cup {None}, val : Results \cup {None}]
        BY <4>1 DEF PCs
      <4>3. [call[u] EXCEPT !.pc = "returned", !.val = r] \in [pc : PCs, key : Keys \cup {None}, val : Results \cup {None}]
        BY <4>1 DEF PCs
      <4>4. CASE u = t
        BY <3>4, <4>2, <4>4
      <4>5. CASE u # t
        BY <3>5, <4>1, <4>3, <4>5
      <4> QED BY <4>4, <4>5
    <3> QED BY <3>1, <3>3, <3>4, <3>5, <3>6
  <2>2. SFTypeOK'
    BY <2>1, FlightIsSome DEF IInv, SFTypeOK
  <2>3. \A u \in Threads, k \in Keys : Leads(u, k)' <=> Leads(u, k)
    <3> SUFFICES ASSUME NEW u \in Threads, NEW k \in Keys
                 PROVE  Leads(u, k)' <=> Leads(u, k)
      OBVIOUS
    <3>1. CASE u = t
      <4>1. call'[t].pc = "finishing" /\ call'[t].key = call[t].key
        BY <2>1, call[t] \in [pc : PCs, key : Keys \cup {None}, val : Results \cup {None}] DEF IInv, SFTypeOK
      <4> QED BY <2>1, <3>1, <4>1 DEF Leads
    <3>2. CASE u # t /\ call'[u] = call[u]
      BY <3>2 DEF Leads
    <3>3. CASE u # t /\ call[u].pc = "waiting" /\ call'[u] = [call[u] EXCEPT !.pc = "returned", !.val = r]
      BY <3>3 DEF Leads, IInv, SFTypeOK
    <3> QED BY <2>1, <3>1, <3>2, <3>3
  <2>4. OneLeaderPerKey'
    BY <2>3 DEF IInv, OneLeaderPerKey
  <2>5. \A u \in Threads \ {t} : ~ Leads(u, K)
    BY <2>1 DEF IInv, OneLeaderPerKey, Leads
  <2>6. LeaderHasFlight'
    <3> SUFFICES ASSUME NEW u \in Threads
                 PROVE  /\ call'[u].pc = "running" =>
                             /\ call'[u].key \in Keys
                             /\ flight'[call'[u].key] = [done |-> FALSE, val |-> None]
                        /\ call'[u].pc = "finishing" =>
                             /\ call'[u].key \in Keys
                             /\ call'[u].val \in Results
                             /\ flight'[call'[u].key] = [done |-> TRUE, val |-> call'[u].val]
      BY DEF LeaderHasFlight
    <3>1. CASE u = t
      <4>1. call'[t].pc = "finishing" /\ call'[t].key = K /\ call'[t].val = r
        BY <2>1, call[t] \in [pc : PCs, key : Keys \cup {None}, val : Results \cup {None}]
           DEF IInv, SFTypeOK
      <4>2. flight'[K] = [done |-> TRUE, val |-> r]
        BY <2>1 DEF IInv, SFTypeOK
      <4> QED BY <2>1, <3>1, <4>1, <4>2
    <3>2. CASE u # t /\ call'[u] = call[u]
      <4>1. Leads(u, call[u].key) /\ call[u].key \in Keys =>
              flight'[call[u].key] = flight[call[u].key]
        BY <2>1, <2>5, <3>2 DEF IInv, SFTypeOK
      <4> QED BY <3>2, <4>1 DEF IInv, LeaderHasFlight, Leads
    <3>3. CASE u # t /\ call[u].pc = "waiting" /\ call'[u] = [call[u] EXCEPT !.pc = "returned", !.val = r]
      <4>1. call'[u].pc = "returned"
        BY <3>3, call[u] \in [pc : PCs, key : Keys \cup {None}, val : Results \cup {None}]
           DEF IInv, SFTypeOK
      <4> QED BY <4>1
    <3> QED BY <2>1, <3>1, <3>2, <3>3
  <2> QED BY <2>2, <2>4, <2>6 DEF IInv
<1>4. ASSUME NEW t \in Threads, Unregister(t) PROVE IInv'
  <2> DEFINE K == call[t].key
  <2>1. /\ call[t].pc = "finishing" /\ K \in Keys
        /\ flight' = [flight EXCEPT ![K] = None]
        /\ call' = [call EXCEPT ![t].pc = "returned"]
    BY <1>4 DEF Unregister, IInv, LeaderHasFlight
  <2>2. /\ call'[t].pc = "returned"
        /\ call' \in [Threads -> [pc : PCs, key : Keys \cup {None}, val : Results \cup {None}]]
        /\ \A u \in Threads \ {t} : call'[u] = call[u]
    BY <2>1 DEF IInv, SFTypeOK, PCs
  <2>3. SFTypeOK'
    BY <2>1, <2>2 DEF IInv, SFTypeOK
  <2>4. OneLeaderPerKey'
    BY <2>2 DEF IInv, OneLeaderPerKey, Leads
  <2>5. \A u \in Threads \ {t} : ~ Leads(u, K)
    BY <2>1 DEF IInv, OneLeaderPerKey, Leads
  <2>6. LeaderHasFlight'
    BY <2>1, <2>2, <2>5 DEF IInv, LeaderHasFlight, Leads, SFTypeOK
  <2> QED BY <2>3, <2>4, <2>6 DEF IInv
<1>5. ASSUME NEW t \in Threads, Return(t) PROVE IInv'
  BY <1>5, BackToIdle DEF Return
<1>6. ASSUME NEW t \in Threads, Panic(t) PROVE IInv'
  BY <1>6, BackToIdle DEF Panic
<1>7. CASE UNCHANGED sfVars
  <2>1. SFTypeOK'
    BY <1>7 DEF sfVars, IInv, SFTypeOK
  <2>2. OneLeaderPerKey'
    BY <1>7 DEF sfVars, IInv, OneLeaderPerKey, Leads
  <2>3. LeaderHasFlight'
    BY <1>7 DEF sfVars, IInv, LeaderHasFlight
  <2> QED BY <2>1, <2>2, <2>3 DEF IInv
<1> QED BY <1>1, <1>2, <1>3, <1>4, <1>5, <1>6, <1>7 DEF SFNext

(* The variables keep the types of the Go struct.                          *)
THEOREM TypeCorrect == SFSpec => []SFTypeOK
<1>1. IInv => SFTypeOK
  BY DEF IInv
<1> QED BY IInvInit, IInvStep, <1>1, PTL DEF SFSpec

(* At most one goroutine executes fn for a key, panics included.           *)
THEOREM DoIsExclusive == SFSpec => []OneRunnerPerKey
<1>1. IInv => OneRunnerPerKey
  BY DEF IInv, OneLeaderPerKey, OneRunnerPerKey, Runs, Leads
<1> QED BY IInvInit, IInvStep, <1>1, PTL DEF SFSpec
-----------------------------------------------------------------------------
Calls == [pc : PCs, key : Keys \cup {None}, val : Results \cup {None}]

(* The goroutine that runs fn for a key is the holder of the key.          *)
LEMMA HolderIs ==
    ASSUME IInv, NEW k \in Keys
    PROVE  /\ \A t \in Threads : Runs(t, k) => Holder(k) = t
           /\ (\A t \in Threads : ~ Runs(t, k)) => Holder(k) = None
<1>1. \A t, u \in Threads : Runs(t, k) /\ Runs(u, k) => t = u
  BY DEF IInv, OneLeaderPerKey, Leads, Runs
<1> QED BY <1>1 DEF Holder

(* The same after a step.                                                  *)
LEMMA HolderIsNext ==
    ASSUME IInv', NEW k \in Keys
    PROVE  /\ \A t \in Threads : Runs(t, k)' => Holder(k)' = t
           /\ (\A t \in Threads : ~ Runs(t, k)') => Holder(k)' = None
<1>1. \A t, u \in Threads : Runs(t, k)' /\ Runs(u, k)' => t = u
  BY DEF IInv, OneLeaderPerKey, Leads, Runs
<1> QED BY <1>1 DEF Holder

(* A key whose runners do not change keeps its holder.                     *)
LEMMA HolderStays ==
    ASSUME IInv, IInv', NEW k \in Keys,
           \A t \in Threads : Runs(t, k)' <=> Runs(t, k)
    PROVE  Holder(k)' = Holder(k)
<1>1. CASE \E t \in Threads : Runs(t, k)
  BY <1>1, HolderIs, HolderIsNext
<1>2. CASE \A t \in Threads : ~ Runs(t, k)
  BY <1>2, HolderIs, HolderIsNext
<1> QED BY <1>1, <1>2

(* A step that starts nobody and ends t's run of fn for K releases K.      *)
LEMMA RunEnds ==
    ASSUME IInv, IInv', NEW t \in Threads, NEW K \in Keys,
           Runs(t, K),
           \A u \in Threads, k \in Keys : Runs(u, k)' <=> Runs(u, k) /\ u # t
    PROVE  Mutex!Release(t, K)
<1>1. Holder(K) = t
  BY HolderIs
<1>2. \A u \in Threads : Runs(u, K) => u = t
  BY DEF IInv, OneLeaderPerKey, Leads, Runs
<1>3. Holder(K)' = None
  BY <1>2, HolderIsNext
<1>4. ASSUME NEW k \in Keys, k # K PROVE Holder(k)' = Holder(k)
  <2>1. ~ Runs(t, k)
    BY <1>4 DEF Runs
  <2>2. \A u \in Threads : Runs(u, k)' <=> Runs(u, k)
    BY <2>1
  <2> QED BY <2>2, HolderStays
<1>5. [k \in Keys |-> Holder(k)'] = [[k \in Keys |-> Holder(k)] EXCEPT ![K] = None]
  BY <1>3, <1>4
<1> QED BY <1>1, <1>5 DEF Mutex!Release

(* A step that changes nobody's run of fn leaves all keys alone.           *)
LEMMA NobodyMoves ==
    ASSUME IInv, IInv',
           \A u \in Threads, k \in Keys : Runs(u, k)' <=> Runs(u, k)
    PROVE  [k \in Keys |-> Holder(k)'] = [k \in Keys |-> Holder(k)]
<1>1. \A k \in Keys : Holder(k)' = Holder(k)
  BY HolderStays
<1> QED BY <1>1

(* Every step of Do acquires or releases one key, or none.                 *)
LEMMA MutexStep ==
    IInv /\ IInv' /\ [SFNext]_sfVars => [Mutex!Next]_([k \in Keys |-> Holder(k)])
<1> SUFFICES ASSUME IInv, IInv', [SFNext]_sfVars
             PROVE  \/ Mutex!Next
                    \/ [k \in Keys |-> Holder(k)'] = [k \in Keys |-> Holder(k)]
  OBVIOUS
<1> USE SingleflightAssumption
<1>0. call \in [Threads -> Calls]
  BY DEF IInv, SFTypeOK, Calls
<1>1. ASSUME NEW t \in Threads, NEW k \in Keys, Lead(t, k) PROVE Mutex!Acquire(t, k)
  <2>1. /\ call' = [call EXCEPT ![t] = [pc |-> "running", key |-> k, val |-> None]]
        /\ flight[k] = None /\ call[t].pc = "idle"
    BY <1>1 DEF Lead
  <2>2. \A u \in Threads : ~ Runs(u, k)
    <3> SUFFICES ASSUME NEW u \in Threads, Runs(u, k) PROVE FALSE
      OBVIOUS
    <3>1. flight[k] = [done |-> FALSE, val |-> None]
      BY DEF Runs, IInv, LeaderHasFlight
    <3>2. [done |-> FALSE, val |-> None] # None
      BY FlightIsSome
    <3> QED BY <2>1, <3>1, <3>2
  <2>3. \A u \in Threads, j \in Keys : Runs(u, j)' <=> Runs(u, j) \/ (u = t /\ j = k)
    BY <1>0, <2>1 DEF Runs
  <2>4. Holder(k) = None /\ Holder(k)' = t
    BY <2>2, <2>3, HolderIs, HolderIsNext
  <2>5. \A j \in Keys \ {k} : Holder(j)' = Holder(j)
    BY <2>3, HolderStays
  <2>6. [j \in Keys |-> Holder(j)'] = [[j \in Keys |-> Holder(j)] EXCEPT ![k] = t]
    BY <2>4, <2>5
  <2> QED BY <2>4, <2>6 DEF Mutex!Acquire
<1>2. ASSUME NEW t \in Threads, NEW k \in Keys, Join(t, k)
      PROVE  [j \in Keys |-> Holder(j)'] = [j \in Keys |-> Holder(j)]
  <2>1. \A u \in Threads, j \in Keys : Runs(u, j)' <=> Runs(u, j)
    BY <1>0, <1>2 DEF Join, Runs
  <2> QED BY <2>1, NobodyMoves
<1>3. ASSUME NEW t \in Threads, NEW r \in Results, Finish(t, r)
      PROVE  Mutex!Release(t, call[t].key)
  <2>1. Runs(t, call[t].key) /\ call[t].key \in Keys
    BY <1>3 DEF Finish, Runs, IInv, LeaderHasFlight
  <2>2. /\ call'[t].pc = "finishing"
        /\ \A u \in Threads \ {t} :
              call'[u] = call[u] \/ (call[u].pc = "waiting" /\ call'[u].pc = "returned")
    BY <1>0, <1>3 DEF Finish, Calls
  <2>3. \A u \in Threads, k \in Keys : Runs(u, k)' <=> Runs(u, k) /\ u # t
    BY <2>2 DEF Runs
  <2> QED BY <2>1, <2>3, RunEnds
<1>4. ASSUME NEW t \in Threads, Unregister(t)
      PROVE  [j \in Keys |-> Holder(j)'] = [j \in Keys |-> Holder(j)]
  <2>1. \A u \in Threads, j \in Keys : Runs(u, j)' <=> Runs(u, j)
    BY <1>0, <1>4 DEF Unregister, Runs, Calls
  <2> QED BY <2>1, NobodyMoves
<1>5. ASSUME NEW t \in Threads, Return(t)
      PROVE  [j \in Keys |-> Holder(j)'] = [j \in Keys |-> Holder(j)]
  <2>1. \A u \in Threads, j \in Keys : Runs(u, j)' <=> Runs(u, j)
    BY <1>0, <1>5 DEF Return, Runs, Idle
  <2> QED BY <2>1, NobodyMoves
<1>6. ASSUME NEW t \in Threads, Panic(t) PROVE Mutex!Release(t, call[t].key)
  <2>1. Runs(t, call[t].key) /\ call[t].key \in Keys
    BY <1>6 DEF Panic, Runs, IInv, LeaderHasFlight
  <2>2. \A u \in Threads, k \in Keys : Runs(u, k)' <=> Runs(u, k) /\ u # t
    BY <1>0, <1>6 DEF Panic, Runs, Idle
  <2> QED BY <2>1, <2>2, RunEnds
<1>7. CASE UNCHANGED sfVars
  <2>1. \A u \in Threads, j \in Keys : Runs(u, j)' <=> Runs(u, j)
    BY <1>7 DEF sfVars, Runs
  <2> QED BY <2>1, NobodyMoves
<1>8. ASSUME NEW t \in Threads, Runs(t, call[t].key) PROVE call[t].key \in Keys
  BY <1>8 DEF Runs, IInv, LeaderHasFlight
<1>9. \A t \in Threads, r \in Results : Finish(t, r) => Runs(t, call[t].key)
  BY DEF Finish, Runs
<1>10. \A t \in Threads : Panic(t) => Runs(t, call[t].key)
  BY DEF Panic, Runs
<1> QED
  BY <1>1, <1>2, <1>3, <1>4, <1>5, <1>6, <1>7, <1>8, <1>9, <1>10 DEF SFNext, Mutex!Next

(* Do implements the mutual exclusion: a key is acquired only when free    *)
(* and given up only by its holder, at the end of fn or when fn panics.    *)
THEOREM DoIsMutex == SFSpec => ImplementsMutex
<1>1. SFInit => Mutex!Init
  <2>1. SFInit => \A k \in Keys : Holder(k) = None
    BY DEF SFInit, Idle, Holder, Runs
  <2> QED BY <2>1 DEF Mutex!Init
<1> QED BY IInvInit, IInvStep, <1>1, MutexStep, PTL DEF SFSpec, ImplementsMutex, Mutex!Spec
-----------------------------------------------------------------------------
(* Who sleeps in c.wg.Wait sleeps on the unfinished entry of its key.      *)
WaiterJoined ==
    \A t \in Threads :
        call[t].pc = "waiting" =>
            /\ call[t].key \in Keys
            /\ flight[call[t].key] # None
            /\ ~ flight[call[t].key].done

(* The entry of key k is looked after by goroutine t, which is inside Do.  *)
Tends(t, k) ==
    /\ call[t].key = k
    /\ call[t].pc = IF flight[k].done THEN "finishing" ELSE "running"
    /\ call[t].val = flight[k].val

WInv == IInv /\ WaiterJoined /\ FlightHasLeader

LEMMA WInvInit == SFInit => WInv
  BY IInvInit DEF SFInit, WInv, WaiterJoined, FlightHasLeader, Idle

(* A goroutine that leaves Do without touching the map, and tends no entry *)
(* of a key whose fn does not panic, leaves the sleepers a leader.         *)
LEMMA LeavingKeepsLeaders ==
    ASSUME WInv, NEW t \in Threads,
           call' = [call EXCEPT ![t] = Idle], flight' = flight,
           call[t].pc = "returned" \/ call[t].key \in PanicKeys
    PROVE  WaiterJoined' /\ FlightHasLeader'
<1>1. /\ call'[t].pc = "idle"
      /\ \A u \in Threads \ {t} : call'[u] = call[u]
  BY DEF WInv, IInv, SFTypeOK, Idle
<1>2. WaiterJoined'
  BY <1>1 DEF WInv, WaiterJoined
<1>3. ASSUME NEW k \in Keys \ PanicKeys, flight'[k] # None
      PROVE  \E u \in Threads : Tends(u, k)'
  <2>1. PICK u \in Threads : Tends(u, k)
    BY <1>3 DEF WInv, FlightHasLeader, Tends
  <2>2. u # t
    BY <1>3, <2>1 DEF Tends
  <2> QED BY <1>1, <2>1, <2>2 DEF Tends
<1> QED BY <1>2, <1>3 DEF FlightHasLeader, Tends

(* Every step of Do keeps the sleepers awakable.                           *)
LEMMA WInvStep == WInv /\ [SFNext]_sfVars => WInv'
<1> SUFFICES ASSUME WInv, [SFNext]_sfVars PROVE WaiterJoined' /\ FlightHasLeader'
  BY IInvStep DEF WInv
<1> USE SingleflightAssumption
<1>0. call \in [Threads -> Calls] /\ flight \in [Keys -> Flights \cup {None}]
  BY DEF WInv, IInv, SFTypeOK, Calls
<1>a. \A k \in Keys \ PanicKeys : flight[k] # None => \E u \in Threads : Tends(u, k)
  BY DEF WInv, FlightHasLeader, Tends
<1> DEFINE Goal == /\ WaiterJoined'
                   /\ \A k \in Keys \ PanicKeys :
                        flight'[k] # None => \E u \in Threads : Tends(u, k)'
<1>b. SUFFICES Goal
  BY DEF FlightHasLeader, Tends
<1>1. ASSUME NEW t \in Threads, NEW k \in Keys, Lead(t, k) PROVE Goal
  <2>1. /\ flight[k] = None /\ call[t].pc = "idle"
        /\ flight'[k] = [done |-> FALSE, val |-> None]
        /\ call'[t] = [pc |-> "running", key |-> k, val |-> None]
        /\ \A j \in Keys \ {k} : flight'[j] = flight[j]
        /\ \A u \in Threads \ {t} : call'[u] = call[u]
    BY <1>0, <1>1 DEF Lead
  <2>2. WaiterJoined'
    BY <2>1 DEF WInv, WaiterJoined
  <2>3. Tends(t, k)'
    BY <2>1 DEF Tends
  <2>4. \A u \in Threads, j \in Keys \ {k} : Tends(u, j) => Tends(u, j)'
    BY <2>1 DEF Tends
  <2> QED BY <1>a, <2>1, <2>2, <2>3, <2>4
<1>2. ASSUME NEW t \in Threads, NEW k \in Keys, Join(t, k) PROVE Goal
  <2>1. /\ flight[k] # None /\ call[t].pc = "idle" /\ flight' = flight
        /\ call'[t].pc = IF flight[k].done THEN "returned" ELSE "waiting"
        /\ call'[t].key = k
        /\ \A u \in Threads \ {t} : call'[u] = call[u]
    BY <1>0, <1>2 DEF Join
  <2>2. WaiterJoined'
    BY <2>1 DEF WInv, WaiterJoined
  <2>3. \A u \in Threads, j \in Keys : Tends(u, j) => Tends(u, j)'
    BY <2>1 DEF Tends
  <2> QED BY <1>a, <2>1, <2>2, <2>3
<1>3. ASSUME NEW t \in Threads, NEW r \in Results, Finish(t, r) PROVE Goal
  <2> DEFINE K == call[t].key
  <2>0. call[t] \in Calls /\ K \in Keys
    BY <1>0, <1>3 DEF Finish, WInv, IInv, LeaderHasFlight
  <2>1. /\ call[t].pc = "running"
        /\ flight'[K] = [done |-> TRUE, val |-> r]
        /\ call'[t].pc = "finishing" /\ call'[t].key = K /\ call'[t].val = r
        /\ \A j \in Keys \ {K} : flight'[j] = flight[j]
    BY <1>0, <1>3, <2>0 DEF Finish, Calls
  <2>2. \A u \in Threads \ {t} :
           IF call[u].pc = "waiting" /\ call[u].key = K
           THEN call'[u].pc = "returned"
           ELSE call'[u] = call[u]
    BY <1>0, <1>3 DEF Finish, Calls
  <2>3. WaiterJoined'
    BY <2>0, <2>1, <2>2 DEF WInv, WaiterJoined
  <2>4. Tends(t, K)'
    BY <2>1 DEF Tends
  <2>5. \A u \in Threads, j \in Keys \ {K} : Tends(u, j) => Tends(u, j)'
    BY <2>1, <2>2 DEF Tends
  <2> QED BY <1>a, <2>1, <2>3, <2>4, <2>5
<1>4. ASSUME NEW t \in Threads, Unregister(t) PROVE Goal
  <2> DEFINE K == call[t].key
  <2>0. /\ call[t].pc = "finishing" /\ K \in Keys
        /\ flight[K] = [done |-> TRUE, val |-> call[t].val]
    BY <1>4 DEF Unregister, WInv, IInv, LeaderHasFlight
  <2>a. flight[K].done
    BY <2>0
  <2>1. /\ flight'[K] = None
        /\ call'[t].pc = "returned"
        /\ \A j \in Keys \ {K} : flight'[j] = flight[j]
        /\ \A u \in Threads \ {t} : call'[u] = call[u]
    BY <1>0, <1>4, <2>0 DEF Unregister, Calls
  <2>2. WaiterJoined'
    BY <2>0, <2>a, <2>1 DEF WInv, WaiterJoined
  <2>3. \A u \in Threads, j \in Keys \ {K} : Tends(u, j) => Tends(u, j)'
    BY <2>0, <2>a, <2>1 DEF Tends
  <2> QED BY <1>a, <2>0, <2>1, <2>2, <2>3
<1>5. ASSUME NEW t \in Threads, Return(t) PROVE Goal
  BY <1>5, LeavingKeepsLeaders DEF Return, FlightHasLeader, Tends
<1>6. ASSUME NEW t \in Threads, Panic(t) PROVE Goal
  BY <1>6, LeavingKeepsLeaders DEF Panic, FlightHasLeader, Tends
<1>7. CASE UNCHANGED sfVars
  <2>1. WaiterJoined'
    BY <1>7 DEF sfVars, WInv, WaiterJoined
  <2> QED BY <1>7, <1>a, <2>1 DEF sfVars, Tends
<1> QED BY <1>1, <1>2, <1>3, <1>4, <1>5, <1>6, <1>7 DEF SFNext

(* The map never keeps an entry whose leader is gone, unless fn of that    *)
(* key can panic: a finished call cannot be joined for ever.               *)
THEOREM EntriesAreTended == SFSpec => []FlightHasLeader
<1>1. WInv => FlightHasLeader
  BY DEF WInv
<1> QED BY WInvInit, WInvStep, <1>1, PTL DEF SFSpec

(* No wakeup is lost: while somebody sleeps in c.wg.Wait, somebody runs fn *)
(* for that key and will call wg.Done, unless fn of that key can panic.    *)
THEOREM NoLostWakeup == SFSpec => []WaiterHasRunner
<1>1. WInv => WaiterHasRunner
  <2> SUFFICES ASSUME WInv, NEW t \in Threads,
                      call[t].pc = "waiting", call[t].key \notin PanicKeys
               PROVE  \E u \in Threads : Runs(u, call[t].key)
    BY DEF WaiterHasRunner
  <2> QED BY DEF WInv, WaiterJoined, FlightHasLeader, Runs
<1> QED BY WInvInit, WInvStep, <1>1, PTL DEF SFSpec
-----------------------------------------------------------------------------
(* The source over its cache and its flights                               *)

Reqs == [kind : {"none", "get", "warm", "direct"}, key : Keys \cup {None}, from : Keys \cup {None}, at : Ats,
         reply : Results \cup {None}]
Puts == [pc : {"idle", "begun", "visible"}, key : Keys \cup {None}, blob : Keys \cup {None}]
Looks == [pc : {"idle", "looked", "hit", "miss"}, key : Keys \cup {None},
          blob : Keys \cup {None}]

StoreTyped ==
    /\ store \in [Keys -> Keys \cup {None}]
    /\ put \in [Threads -> Puts]
    /\ look \in [Threads -> Looks]
    /\ \A t \in Threads : look[t].pc \in {"looked", "hit"} => look[t].blob \in Keys

(* What a request asks for, and the blob it asks Cassandra for.            *)
Asked(r) ==
    /\ r.key \in Keys /\ r.kind \in Kinds[r.key] /\ r.from \in Keys
    /\ r.from = r.key \/ (r.kind = "direct" /\ r.from = Alt[r.key])

(* The request of t is where its flight and its Put are.                   *)
LinkOf(t) ==
    /\ req[t].at # "idle" => Asked(req[t])
    /\ req[t].at \in {"recheck", "fetching", "putting"} /\ req[t].kind # "direct"
         => Runs(t, req[t].key)
    /\ put[t].pc # "idle" => req[t].at = "putting" /\ put[t].key = req[t].from

Link == \A t \in Threads : LinkOf(t)

(* Whoever fetches or puts a blob that fetchGridLevel stays away from does *)
(* so in its flight.                                                       *)
LEMMA SharedRuns ==
    ASSUME NEW t \in Threads, LinkOf(t), NEW k \in SharedKeys, req[t].from = k,
           req[t].at \in {"recheck", "fetching", "putting"}
    PROVE  Runs(t, k)
  BY DEF LinkOf, Asked, SharedKeys, Direct

SrcInv == IInv /\ StoreTyped /\ req \in [Threads -> Reqs] /\ Link

LEMMA SrcInvInit == SrcInit => SrcInv
  BY IInvInit, BlobSourceAssumption
     DEF SrcInit, SrcInv, StoreTyped, Link, LinkOf, NoReq, Ats, Reqs, Puts, Looks,
         Store!StoreInit, Store!NoPut, Store!NoLook
-----------------------------------------------------------------------------
(* What the steps of the store do to a request's Put and look.             *)
LEMMA BeginLookIs ==
    ASSUME StoreTyped, NEW t \in Threads, NEW k \in Keys, Store!BeginLook(t, k)
    PROVE  StoreTyped' /\ put' = put
<1>1. /\ look' \in [Threads -> Looks]
      /\ look'[t].pc = (IF store[k] = None THEN "miss" ELSE "looked")
      /\ look'[t].blob = store[k]
      /\ \A u \in Threads \ {t} : look'[u] = look[u]
  BY DEF Store!BeginLook, StoreTyped, Looks
<1>2. store' = store /\ put' = put
  BY DEF Store!BeginLook
<1>3. store[k] # None => store[k] \in Keys
  BY DEF StoreTyped
<1> QED BY <1>1, <1>2, <1>3 DEF StoreTyped

LEMMA SettleIs ==
    ASSUME StoreTyped, NEW t \in Threads, Store!Hit(t) \/ Store!Miss(t) \/ Store!EndLook(t)
    PROVE  StoreTyped' /\ put' = put
<1>1. /\ look' \in [Threads -> Looks]
      /\ look'[t].pc = "hit" => look[t].pc = "looked" /\ look'[t].blob = look[t].blob
      /\ look'[t].pc # "looked"
      /\ \A u \in Threads \ {t} : look'[u] = look[u]
  BY DEF Store!Hit, Store!Miss, Store!EndLook, Store!NoLook, StoreTyped, Looks
<1>2. store' = store /\ put' = put
  BY DEF Store!Hit, Store!Miss, Store!EndLook
<1> QED BY <1>1, <1>2 DEF StoreTyped

LEMMA BeginPutIs ==
    ASSUME StoreTyped, NEW t \in Threads, NEW k \in Keys, Store!BeginPut(t, k, k)
    PROVE  /\ StoreTyped' /\ put'[t].key = k
           /\ \A u \in Threads \ {t} : put'[u] = put[u]
  BY DEF Store!BeginPut, StoreTyped, Puts

LEMMA CommitPutIs ==
    ASSUME StoreTyped, NEW t \in Threads, Store!CommitPut(t)
    PROVE  /\ StoreTyped' /\ put[t].pc # "idle" /\ put'[t].key = put[t].key
           /\ \A u \in Threads \ {t} : put'[u] = put[u]
  BY DEF Store!CommitPut, StoreTyped, Puts

LEMMA EndPutIs ==
    ASSUME StoreTyped, NEW t \in Threads, NEW K \in SUBSET Keys, Store!EndPut(t, K)
    PROVE  /\ StoreTyped' /\ put'[t].pc = "idle"
           /\ \A u \in Threads \ {t} : put'[u] = put[u]
  BY DEF Store!EndPut, Store!Without, Store!NoPut, StoreTyped, Puts
-----------------------------------------------------------------------------
(* What a step does to the requests.                                       *)
LEMMA GotoIs ==
    ASSUME req \in [Threads -> Reqs], NEW t \in Threads, NEW a \in Ats, Goto(t, a)
    PROVE  /\ req' \in [Threads -> Reqs]
           /\ req'[t].at = a /\ req'[t].key = req[t].key /\ req'[t].kind = req[t].kind
           /\ req'[t].from = req[t].from /\ (Asked(req[t]) => Asked(req'[t]))
           /\ \A u \in Threads \ {t} : req'[u] = req[u]
  BY DEF Goto, Reqs, Asked

LEMMA AnswerIs ==
    ASSUME req \in [Threads -> Reqs], NEW t \in Threads, NEW r \in Results \cup {None},
           Answer(t, r)
    PROVE  /\ req' \in [Threads -> Reqs]
           /\ req'[t].at = "answered" /\ req'[t].key = req[t].key
           /\ req'[t].kind = req[t].kind /\ (Asked(req[t]) => Asked(req'[t]))
           /\ \A u \in Threads \ {t} : req'[u] = req[u]
<1> DEFINE new == [req[t] EXCEPT !.at = "answered", !.reply = r]
<1>1. req[t] \in Reqs
  OBVIOUS
<1>2. /\ new \in Reqs /\ new.at = "answered" /\ new.key = req[t].key /\ new.kind = req[t].kind
      /\ Asked(req[t]) => Asked(new)
  BY <1>1 DEF Reqs, Ats, Asked
<1>3. req' = [req EXCEPT ![t] = new]
  BY DEF Answer
<1> HIDE DEF new
<1> QED BY <1>2, <1>3

(* A step of t inside Do, or none.                                         *)
DoAct(t) ==
    \/ \E k \in Keys : Lead(t, k) \/ Join(t, k)
    \/ \E r \in Results : Finish(t, r)
    \/ Unregister(t) \/ Return(t) \/ Panic(t) \/ UNCHANGED sfVars

LEMMA DoActIs == \A t \in Threads : DoAct(t) => [SFNext]_sfVars
  BY DEF DoAct, SFNext

(* It leaves the functions of the others running.                          *)
LEMMA OthersRun ==
    ASSUME IInv, NEW t \in Threads, DoAct(t)
    PROVE  \A u \in Threads \ {t} : \A k \in Keys : Runs(u, k) => Runs(u, k)'
<1>0. call \in [Threads -> [pc : PCs, key : Keys \cup {None}, val : Results \cup {None}]]
  BY DEF IInv, SFTypeOK
<1>1. ASSUME NEW k \in Keys, Lead(t, k) \/ Join(t, k)
      PROVE  \A u \in Threads \ {t} : call'[u] = call[u]
  BY <1>0, <1>1 DEF Lead, Join
<1>2. ASSUME NEW r \in Results, Finish(t, r)
      PROVE  \A u \in Threads \ {t} : call[u].pc = "running" => call'[u] = call[u]
  BY <1>0, <1>2 DEF Finish
<1>3. ASSUME Unregister(t) \/ Return(t) \/ Panic(t) \/ UNCHANGED sfVars
      PROVE  \A u \in Threads \ {t} : call'[u] = call[u]
  BY <1>0, <1>3 DEF Unregister, Return, Panic, sfVars
<1> QED BY <1>1, <1>2, <1>3 DEF Runs, DoAct

(* A step of t keeps Link if it keeps t's part of it.                      *)
LEMMA LinkKept ==
    ASSUME SrcInv, NEW t \in Threads, LinkOf(t)',
           \A u \in Threads \ {t} : req'[u] = req[u] /\ put'[u] = put[u],
           \A u \in Threads \ {t} : \A k \in Keys : Runs(u, k) => Runs(u, k)'
    PROVE  Link'
<1>1. ASSUME NEW u \in Threads \ {t} PROVE LinkOf(u)'
  <2>1. LinkOf(u)
    BY DEF SrcInv, Link
  <2>2. req'[u] = req[u] /\ put'[u] = put[u]
    OBVIOUS
  <2> QED BY <2>1, <2>2 DEF LinkOf, Asked
<1> QED BY <1>1 DEF Link

(* What has to be shown of a step of t.                                    *)
Kept(t) == DoAct(t) /\ StoreTyped' /\ req' \in [Threads -> Reqs] /\ Link'

(* A step that leaves the Puts and Do alone.                               *)
LEMMA QuietStep ==
    ASSUME SrcInv, NEW t \in Threads, UNCHANGED sfVars, StoreTyped', put' = put,
           req' \in [Threads -> Reqs], \A u \in Threads \ {t} : req'[u] = req[u],
           \/ req'[t].at = "idle"
           \/ /\ Asked(req'[t])
              /\ req'[t].at \notin {"recheck", "fetching", "putting"},
           req[t].at # "putting"
    PROVE  Kept(t)
<1>1. DoAct(t)
  BY DEF DoAct
<1>2. put[t].pc = "idle"
  BY DEF SrcInv, Link, LinkOf
<1>3. LinkOf(t)'
  BY <1>2 DEF LinkOf
<1>4. \A u \in Threads \ {t} : \A k \in Keys : Runs(u, k) => Runs(u, k)'
  BY <1>1, OthersRun DEF SrcInv
<1> QED BY <1>1, <1>3, <1>4, LinkKept DEF Kept

(* A step of t that leaves the stretch covered by its flight, or is not    *)
(* in it.                                                                  *)
LEMMA OutsideStep ==
    ASSUME SrcInv, NEW t \in Threads, DoAct(t), StoreTyped',
           \A u \in Threads \ {t} : put'[u] = put[u],
           put'[t].pc = "idle",
           req' \in [Threads -> Reqs], \A u \in Threads \ {t} : req'[u] = req[u],
           \/ req'[t].at = "idle"
           \/ /\ Asked(req'[t])
              /\ \/ req'[t].at \notin {"recheck", "fetching", "putting"}
                 \/ req'[t].kind = "direct"
                 \/ (call'[t].pc = "running" /\ call'[t].key = req'[t].key)
    PROVE  Kept(t)
<1>1. LinkOf(t)'
  BY DEF LinkOf, Runs
<1>2. \A u \in Threads \ {t} : \A k \in Keys : Runs(u, k) => Runs(u, k)'
  BY OthersRun DEF SrcInv
<1> QED BY <1>1, <1>2, LinkKept DEF Kept

(* A result is delivered to the flight, or to a direct request.            *)
LEMMA DeliverStep ==
    ASSUME SrcInv, NEW t \in Threads, NEW r \in Results, Deliver(t, r), StoreTyped',
           \A u \in Threads \ {t} : put'[u] = put[u],
           put'[t].pc = "idle", req[t].at # "idle"
    PROVE  Kept(t)
<1>1. Asked(req[t]) /\ req \in [Threads -> Reqs]
  BY DEF SrcInv, Link, LinkOf
<1>2. CASE req[t].kind = "direct"
  <2>1. Answer(t, ReplyOf(t, r)) /\ ReplyOf(t, r) \in Results \cup {None} /\ DoAct(t)
    BY <1>2, BlobSourceAssumption DEF Deliver, DoAct, ReplyOf
  <2> QED BY <1>1, <2>1, AnswerIs, OutsideStep
<1>3. CASE req[t].kind # "direct"
  <2>1. Goto(t, "finish") /\ DoAct(t)
    BY <1>3 DEF Deliver, DoAct
  <2>2. "finish" \in Ats
    BY DEF Ats
  <2> QED BY <1>1, <2>1, <2>2, GotoIs, OutsideStep
<1> QED BY <1>2, <1>3

(* Every step of a request.                                                *)
LEMMA RequestStep ==
    ASSUME SrcInv, NEW t \in Threads,
           SrcStep(t) \/ \E k \in Keys : \E kind \in Kinds[k] : Request(t, kind, k)
    PROVE  Kept(t)
<1> USE BlobSourceAssumption
<1>0. /\ IInv /\ StoreTyped /\ req \in [Threads -> Reqs] /\ LinkOf(t)
      /\ put[t] \in Puts /\ look[t] \in Looks
  BY DEF SrcInv, Link, StoreTyped, Ats
<1>a. req[t].at # "idle" => Asked(req[t]) /\ req[t].key \in Keys /\ req[t].from \in Keys
  BY <1>0 DEF LinkOf, Asked
<1>b. req[t].at # "putting" => put[t].pc = "idle"
  BY <1>0 DEF LinkOf
<1>c. {"look", "enter", "joined", "recheck", "fetching", "putting", "finish"} \subseteq Ats
  BY DEF Ats
<1>d. Keys \subseteq Results /\ Nil \in Results /\ Err \in Results
  OBVIOUS
<1>1. ASSUME NEW k \in Keys, NEW kind \in Kinds[k], Request(t, kind, k) PROVE Kept(t)
  <2>1. StoreTyped' /\ put' = put
    BY <1>0, <1>1, BeginLookIs DEF Request
  <2>2. /\ [kind |-> kind, key |-> k, from |-> k, at |-> "look", reply |-> None] \in Reqs
        /\ Asked([kind |-> kind, key |-> k, from |-> k, at |-> "look", reply |-> None])
    BY <1>c DEF Reqs, Asked
  <2>3. /\ req' \in [Threads -> Reqs]
        /\ req'[t].at = "look" /\ Asked(req'[t])
        /\ \A u \in Threads \ {t} : req'[u] = req[u]
    BY <1>0, <1>1, <2>2 DEF Request
  <2> QED BY <1>1, <2>1, <2>3, QuietStep DEF Request
<1>2. ASSUME Settle(t) PROVE Kept(t)
  <2>1. StoreTyped' /\ put' = put /\ UNCHANGED <<sfVars, req>> /\ DoAct(t)
    BY <1>0, <1>2, SettleIs DEF Settle, DoAct
  <2>2. LinkOf(t)'
    BY <1>0, <2>1 DEF LinkOf, sfVars, Runs
  <2> QED BY <1>0, <2>1, <2>2, OthersRun, LinkKept DEF Kept
<1>3. ASSUME LookHit(t) PROVE Kept(t)
  <2>1. StoreTyped' /\ put' = put
    BY <1>0, <1>3, SettleIs DEF LookHit
  <2>2. ReplyOf(t, look[t].blob) \in Results \cup {None}
    BY <1>0, <1>d DEF ReplyOf, Looks
  <2> QED BY <1>0, <1>a, <1>3, <2>1, <2>2, AnswerIs, QuietStep DEF LookHit
<1>4. ASSUME LookMiss(t) PROVE Kept(t)
  <2>1. StoreTyped' /\ put' = put /\ DoAct(t)
    BY <1>0, <1>4, SettleIs DEF LookMiss, DoAct
  <2>2. CASE req[t].kind = "direct"
    <3>1. Goto(t, "fetching")
      BY <1>4, <2>2 DEF LookMiss
    <3> QED BY <1>0, <1>a, <1>b, <1>c, <1>4, <2>1, <2>2, <3>1, GotoIs, OutsideStep DEF LookMiss
  <2>3. CASE req[t].kind # "direct"
    <3>1. Goto(t, "enter")
      BY <1>4, <2>3 DEF LookMiss
    <3> QED BY <1>0, <1>a, <1>b, <1>c, <1>4, <2>1, <3>1, GotoIs, OutsideStep DEF LookMiss
  <2> QED BY <2>2, <2>3
<1>4a. ASSUME LookSpoilt(t) PROVE Kept(t)
  <2>1. StoreTyped' /\ put' = put /\ DoAct(t)
    BY <1>0, <1>4a, SettleIs DEF LookSpoilt, DoAct
  <2>2. Goto(t, "fetching") /\ req[t].at = "look" /\ req[t].kind = "direct"
    BY <1>4a DEF LookSpoilt
  <2> QED BY <1>0, <1>a, <1>b, <1>c, <2>1, <2>2, GotoIs, OutsideStep
<1>5. ASSUME EnterLead(t) PROVE Kept(t)
  <2>1. req[t].key \in Keys
    BY <1>a, <1>5 DEF EnterLead
  <2>2. StoreTyped' /\ put' = put /\ DoAct(t)
    BY <1>0, <1>5, <2>1, BeginLookIs DEF EnterLead, DoAct
  <2>3. call'[t].pc = "running" /\ call'[t].key = req[t].key
    BY <1>0, <1>5 DEF EnterLead, Lead, IInv, SFTypeOK
  <2>4. Goto(t, "recheck") /\ req[t].at = "enter"
    BY <1>5 DEF EnterLead
  <2>5. (call'[t].pc = "running" /\ call'[t].key = req'[t].key)
    BY <1>0, <1>c, <2>3, <2>4, GotoIs
  <2> QED BY <1>0, <1>a, <1>b, <1>c, <2>2, <2>4, <2>5, GotoIs, OutsideStep
<1>6. ASSUME EnterJoin(t) PROVE Kept(t)
  <2>1. StoreTyped' /\ put' = put /\ DoAct(t)
    BY <1>0, <1>a, <1>6 DEF EnterJoin, DoAct, storeVars, StoreTyped
  <2>2. Goto(t, "joined") /\ req[t].at = "enter"
    BY <1>6 DEF EnterJoin
  <2> QED BY <1>0, <1>a, <1>b, <1>c, <2>1, <2>2, GotoIs, OutsideStep
<1>7. ASSUME RecheckHit(t) PROVE Kept(t)
  <2>1. RecheckResult(t) \in Results
    BY <1>0, <1>d, <1>7 DEF RecheckHit, RecheckResult, StoreTyped
  <2>2. StoreTyped' /\ put' = put /\ DoAct(t)
    BY <1>0, <1>7, <2>1, SettleIs DEF RecheckHit, DoAct
  <2>3. Goto(t, "finish") /\ req[t].at = "recheck"
    BY <1>7 DEF RecheckHit
  <2> QED BY <1>0, <1>a, <1>b, <1>c, <2>2, <2>3, GotoIs, OutsideStep
<1>8. ASSUME RecheckMiss(t) PROVE Kept(t)
  <2>1. StoreTyped' /\ put' = put /\ DoAct(t)
    BY <1>0, <1>8, SettleIs DEF RecheckMiss, DoAct
  <2>2. Goto(t, "fetching") /\ req[t].at = "recheck"
    BY <1>8 DEF RecheckMiss
  <2>3. req'[t].kind = "direct" \/ (call'[t].pc = "running" /\ call'[t].key = req'[t].key)
    BY <1>0, <1>c, <1>8, <2>2, GotoIs DEF LinkOf, RecheckMiss, sfVars, Runs
  <2> QED BY <1>0, <1>a, <1>b, <1>c, <2>1, <2>2, <2>3, GotoIs, OutsideStep
<1>9. ASSUME FetchOk(t) PROVE Kept(t)
  <2>1. req[t].from \in Keys /\ req[t].at = "fetching" /\ Goto(t, "putting") /\ DoAct(t)
    BY <1>a, <1>9 DEF FetchOk, DoAct
  <2>2. /\ StoreTyped' /\ put'[t].key = req[t].from
        /\ \A u \in Threads \ {t} : put'[u] = put[u]
    BY <1>0, <1>9, <2>1, BeginPutIs DEF FetchOk
  <2>3. req'[t].kind = "direct" \/ (call'[t].pc = "running" /\ call'[t].key = req'[t].key)
    BY <1>0, <1>c, <1>9, <2>1, GotoIs DEF LinkOf, FetchOk, sfVars, Runs
  <2>4. LinkOf(t)'
    BY <1>0, <1>a, <1>c, <2>1, <2>2, <2>3, GotoIs DEF LinkOf, Runs
  <2> QED BY <1>0, <1>c, <2>1, <2>2, <2>4, GotoIs, OthersRun, LinkKept DEF Kept
<1>9a. ASSUME FetchAlt(t) PROVE Kept(t)
  <2> DEFINE new == [req[t] EXCEPT !.from = Alt[req[t].key]]
  <2>1. /\ req' = [req EXCEPT ![t] = new] /\ req[t].at = "fetching" /\ req[t].kind = "direct"
        /\ UNCHANGED <<sfVars, storeVars>>
    BY <1>9a DEF FetchAlt, HasAlt
  <2>2. new \in Reqs /\ new.at = "fetching" /\ new.kind = "direct" /\ Asked(new)
    <3>1. req[t] \in Reqs /\ Asked(req[t]) /\ Alt[req[t].key] \in Keys
      BY <1>0, <1>a, <2>1
    <3> QED BY <2>1, <3>1 DEF Reqs, Asked
  <2> HIDE DEF new
  <2>3. /\ req' \in [Threads -> Reqs] /\ req'[t] = new
        /\ \A u \in Threads \ {t} : req'[u] = req[u]
    BY <1>0, <2>1, <2>2
  <2>4. StoreTyped' /\ put' = put /\ DoAct(t)
    BY <1>0, <2>1 DEF storeVars, StoreTyped, DoAct
  <2> QED BY <1>b, <2>1, <2>2, <2>3, <2>4, OutsideStep
<1>10. ASSUME FetchFailed(t) PROVE Kept(t)
  <2>1. StoreTyped' /\ put' = put
    BY <1>0, <1>10 DEF FetchFailed, storeVars, StoreTyped
  <2> QED BY <1>b, <1>d, <1>10, <2>1, DeliverStep DEF FetchFailed
<1>11. ASSUME FetchPanics(t) PROVE Kept(t)
  <2>1. StoreTyped' /\ put' = put /\ DoAct(t)
    BY <1>0, <1>11 DEF FetchPanics, storeVars, StoreTyped, DoAct
  <2>2. NoReq \in Reqs /\ NoReq.at = "idle"
    BY DEF NoReq, Reqs, Ats
  <2>3. /\ req' \in [Threads -> Reqs] /\ req'[t].at = "idle"
        /\ \A u \in Threads \ {t} : req'[u] = req[u]
    BY <1>0, <1>11, <2>2 DEF FetchPanics
  <2> QED BY <1>b, <1>11, <2>1, <2>3, OutsideStep DEF FetchPanics
<1>12. ASSUME PutVisible(t) PROVE Kept(t)
  <2>1. UNCHANGED <<sfVars, req>> /\ DoAct(t)
    BY <1>12 DEF PutVisible, DoAct
  <2>2. /\ StoreTyped' /\ put[t].pc # "idle" /\ put'[t].key = put[t].key
        /\ \A u \in Threads \ {t} : put'[u] = put[u]
    BY <1>0, <1>12, CommitPutIs DEF PutVisible
  <2>3. LinkOf(t)'
    BY <1>0, <2>1, <2>2 DEF LinkOf, sfVars, Runs
  <2> QED BY <1>0, <2>1, <2>2, <2>3, OthersRun, LinkKept DEF Kept
<1>13. ASSUME PutDone(t) PROVE Kept(t)
  <2>1. /\ StoreTyped' /\ put'[t].pc = "idle"
        /\ \A u \in Threads \ {t} : put'[u] = put[u]
    BY <1>0, <1>13, EndPutIs DEF PutDone
  <2> QED BY <1>a, <1>d, <1>13, <2>1, DeliverStep DEF PutDone
<1>14. ASSUME LeaderLeaves(t) PROVE Kept(t)
  <2>1. StoreTyped' /\ put' = put /\ DoAct(t) /\ req[t].at = "finish" /\ Goto(t, "joined")
    BY <1>0, <1>14 DEF LeaderLeaves, storeVars, StoreTyped, DoAct
  <2> QED BY <1>0, <1>a, <1>b, <1>c, <2>1, GotoIs, OutsideStep
<1>15. ASSUME DoReturns(t) PROVE Kept(t)
  <2>1. StoreTyped' /\ put' = put /\ DoAct(t) /\ req[t].at = "joined"
    BY <1>0, <1>15 DEF DoReturns, storeVars, StoreTyped, DoAct
  <2>2. ReplyOf(t, call[t].val) \in Results \cup {None}
    BY <1>0, <1>d DEF ReplyOf, IInv, SFTypeOK
  <2>3. Answer(t, ReplyOf(t, call[t].val))
    BY <1>15 DEF DoReturns
  <2> QED BY <1>0, <1>a, <1>b, <2>1, <2>2, <2>3, AnswerIs, OutsideStep
<1>16. ASSUME Respond(t) PROVE Kept(t)
  <2>1. NoReq \in Reqs /\ NoReq.at = "idle"
    BY DEF NoReq, Reqs, Ats
  <2>2. /\ req' \in [Threads -> Reqs] /\ req'[t].at = "idle" /\ req[t].at = "answered"
        /\ \A u \in Threads \ {t} : req'[u] = req[u]
    BY <1>0, <1>16, <2>1 DEF Respond
  <2>3. StoreTyped' /\ put' = put /\ DoAct(t)
    BY <1>0, <1>16 DEF Respond, storeVars, StoreTyped, DoAct
  <2> QED BY <1>b, <2>2, <2>3, OutsideStep
<1> QED
  BY <1>1, <1>2, <1>3, <1>4, <1>4a, <1>5, <1>6, <1>7, <1>8, <1>9, <1>9a, <1>10, <1>11, <1>12,
     <1>13, <1>14, <1>15, <1>16 DEF SrcStep

(* Every step keeps the invariant, and is a step of Do or none.            *)
LEMMA SrcInvStep == SrcInv /\ [SrcNext]_srcVars => SrcInv' /\ [SFNext]_sfVars
<1> SUFFICES ASSUME SrcInv, [SrcNext]_srcVars PROVE SrcInv' /\ [SFNext]_sfVars
  OBVIOUS
<1>1. ASSUME NEW t \in Threads, Kept(t) PROVE SrcInv' /\ [SFNext]_sfVars
  <2>1. [SFNext]_sfVars
    BY <1>1, DoActIs DEF Kept
  <2>2. IInv'
    BY <2>1, IInvStep DEF SrcInv
  <2> QED BY <1>1, <2>1, <2>2 DEF Kept, SrcInv
<1>2. ASSUME UNCHANGED <<sfVars, put, look, req>>, store' \in [Keys -> Keys \cup {None}]
      PROVE  SrcInv' /\ [SFNext]_sfVars
  <2>1. IInv'
    BY <1>2, IInvStep DEF SrcInv
  <2>2. StoreTyped' /\ Link'
    BY <1>2 DEF SrcInv, StoreTyped, Link, LinkOf, Runs, sfVars
  <2> QED BY <1>2, <2>1, <2>2 DEF SrcInv
<1>3. CASE Lose
  <2>1. store' \in [Keys -> Keys \cup {None}]
    BY <1>3 DEF Lose, Store!Lose, Store!Without, SrcInv, StoreTyped
  <2> QED BY <1>2, <1>3, <2>1 DEF Lose, Store!Lose
<1>4. CASE UNCHANGED srcVars
  BY <1>2, <1>4 DEF srcVars, storeVars, SrcInv, StoreTyped
<1> QED BY <1>1, <1>3, <1>4, RequestStep DEF SrcNext

(* User requests and prefetch jobs together run at most one Cassandra      *)
(* fetch per blob at a time, for the blobs fetchGridLevel stays away from. *)
THEOREM FetchesAreShared == SrcSpec => []OneFetchPerBlob
<1>1. SrcInv => OneFetchPerBlob
  <2> SUFFICES ASSUME SrcInv, NEW k \in SharedKeys,
                      NEW t \in Threads, NEW u \in Threads, Fetches(t, k), Fetches(u, k)
               PROVE  t = u
    BY DEF OneFetchPerBlob
  <2>1. Runs(t, k) /\ Runs(u, k)
    BY SharedRuns DEF SrcInv, Link, Fetches
  <2> QED BY <2>1 DEF SrcInv, IInv, OneLeaderPerKey, Leads, Runs, SharedKeys
<1> QED BY SrcInvInit, SrcInvStep, <1>1, PTL DEF SrcSpec

(* Two Puts of such a blob are never in progress together, which is what   *)
(* the file cache needs to keep its entries whole.                         *)
THEOREM PutsAreKeptApart == SrcSpec => []PutsKeptApart
<1>1. SrcInv => PutsKeptApart
  <2> SUFFICES ASSUME SrcInv, NEW k \in SharedKeys,
                      NEW t \in Store!Putting(k), NEW u \in Store!Putting(k)
               PROVE  t = u
    BY DEF PutsKeptApart
  <2>1. t \in Threads /\ u \in Threads /\ Runs(t, k) /\ Runs(u, k)
    BY SharedRuns DEF SrcInv, Link, LinkOf, Store!Putting
  <2> QED BY <2>1 DEF SrcInv, IInv, OneLeaderPerKey, Leads, Runs, SharedKeys
<1> QED BY SrcInvInit, SrcInvStep, <1>1, PTL DEF SrcSpec
-----------------------------------------------------------------------------
Steady(k) == k \in Keys \ LossyKeys

(* Without an error a key whose entries cannot get lost is stored.         *)
Stored(k, r) == Steady(k) /\ r # Err => store[k] = k

(* What a flight of k may end with: Warm's flights have no blob.           *)
Outcome(k, r) == r \in {k, Err} \/ (r = Nil /\ "warm" \in Kinds[k])

PutHolds(t) ==
    /\ put[t].pc # "idle" => put[t].blob = put[t].key
    /\ put[t].pc = "visible" /\ Steady(put[t].key) => store[put[t].key] = put[t].key

(* Within a flight no Put of another request can make what a look missed   *)
(* appear.                                                                 *)
LookHolds(t) ==
    LET k == look[t].key IN
    /\ look[t].pc # "idle" => k = req[t].key /\ req[t].at \in {"look", "recheck"}
    /\ look[t].pc \in {"looked", "hit"} => look[t].blob = k /\ (Steady(k) => store[k] = k)
    /\ look[t].pc = "miss" /\ req[t].at = "recheck" /\ Steady(k) /\ k \in SharedKeys
         => store[k] = None

CallHolds(t) ==
    LET k == call[t].key IN
    /\ call[t].pc # "idle" =>
          k = req[t].key /\ req[t].at \in {"recheck", "fetching", "putting", "finish", "joined"}
    /\ call[t].pc # "idle" \/ req[t].at \in {"enter", "recheck", "finish", "joined"} => req[t].kind # "direct"
    /\ call[t].pc \in {"finishing", "returned"} => Outcome(k, call[t].val) /\ Stored(k, call[t].val)

AnswerHolds(t) ==
    req[t].at = "answered" =>
        /\ req[t].kind = "get" => Outcome(req[t].key, req[t].reply)
        /\ req[t].kind = "direct" =>
              req[t].reply \in ({req[t].key, Alt[req[t].key]} \ Malformed) \cup {Err}
        /\ req[t].kind # "direct" => Stored(req[t].key, req[t].reply)

FlightHolds(k) ==
    flight[k] # None /\ flight[k].done => Outcome(k, flight[k].val) /\ Stored(k, flight[k].val)

Holds(t) == PutHolds(t) /\ LookHolds(t) /\ CallHolds(t) /\ AnswerHolds(t)

Values ==
    /\ \A k \in Keys : store[k] \in {k, None} /\ FlightHolds(k)
    /\ \A t \in Threads : Holds(t)

LEMMA ValuesInit == SrcInit => Values
  BY SingleflightAssumption
     DEF SrcInit, SFInit, Idle, NoReq, Store!StoreInit, Store!NoPut, Store!NoLook, Values, FlightHolds, Holds,
         PutHolds, LookHolds, CallHolds, AnswerHolds
-----------------------------------------------------------------------------
(* Where a request stands says which of its parts are at rest.             *)
LEMMA AtRest ==
    ASSUME SrcInv, Values, NEW t \in Threads
    PROVE  /\ req[t].at # "idle" => req[t].key \in Keys /\ req[t].kind \in Kinds[req[t].key]
           /\ req[t].at # "idle" => Asked(req[t])
           /\ req[t].at # "putting" => put[t].pc = "idle"
           /\ put[t].pc # "idle" => put[t].key = req[t].from
           /\ req[t].at \notin {"look", "recheck"} => look[t].pc = "idle"
           /\ req[t].at \notin {"recheck", "fetching", "putting", "finish", "joined"} => call[t].pc = "idle"
           /\ req[t].at \in {"recheck", "fetching", "putting"} /\ req[t].kind # "direct" => Runs(t, req[t].key)
           /\ call[t].pc # "idle" => call[t].key = req[t].key
  BY DEF SrcInv, Link, LinkOf, Asked, Values, Holds, LookHolds, CallHolds

LEMMA Typed ==
    ASSUME SrcInv
    PROVE  /\ call \in [Threads -> [pc : PCs, key : Keys \cup {None}, val : Results \cup {None}]]
           /\ flight \in [Keys -> Flights \cup {None}]
           /\ store \in [Keys -> Keys \cup {None}] /\ put \in [Threads -> Puts] /\ look \in [Threads -> Looks]
           /\ req \in [Threads -> Reqs]
  BY DEF SrcInv, IInv, SFTypeOK, StoreTyped

(* What a step may do to the store: a steady key keeps its blob, and only  *)
(* the step of a Put makes one appear.                                     *)
StoreGrows(t) ==
    \A k \in Keys :
        /\ store'[k] \in {k, None}
        /\ Steady(k) /\ store[k] = k => store'[k] = k
        /\ Steady(k) /\ store[k] = None /\ store'[k] # None => put[t].pc # "idle" /\ put[t].key = k

(* What it may do to the flights: a flight ends as its key allows.         *)
Ends(t, r) ==
    /\ Finish(t, r) /\ Outcome(call[t].key, r)
    /\ Steady(call[t].key) /\ r # Err => store'[call[t].key] = call[t].key

FlightsGo(t) ==
    \/ \E k \in Keys : Lead(t, k) \/ Join(t, k)
    \/ \E r \in Results : Ends(t, r)
    \/ Unregister(t) \/ Return(t) \/ Panic(t) \/ UNCHANGED sfVars

LEMMA FlightsHold ==
    ASSUME SrcInv, Values, NEW t \in Threads, StoreGrows(t), FlightsGo(t)
    PROVE  \A k \in Keys : FlightHolds(k)'
<1> SUFFICES ASSUME NEW k \in Keys, flight'[k] # None, flight'[k].done
             PROVE  Outcome(k, flight'[k].val) /\ (Steady(k) /\ flight'[k].val # Err => store'[k] = k)
  BY DEF FlightHolds, Outcome, Stored, Steady
<1>0. /\ flight \in [Keys -> Flights \cup {None}]
      /\ call[t].pc # "idle" => call[t].key \in Keys
  BY Typed, AtRest DEF Values, Holds, CallHolds
<1>1. CASE flight'[k] = flight[k]
  BY <1>1 DEF Values, FlightHolds, Stored, StoreGrows, Steady
<1>2. CASE \E j \in Keys : Lead(t, j) \/ Join(t, j)
  BY <1>1, <1>2, Typed DEF Lead, Join
<1>3. CASE \E r \in Results : Ends(t, r)
  <2> PICK r \in Results : Ends(t, r)
    BY <1>3
  <2>1. flight' = [flight EXCEPT ![call[t].key] = [done |-> TRUE, val |-> r]]
    BY DEF Ends, Finish
  <2>2. CASE k = call[t].key
    <3>1. flight'[k].val = r
      BY <1>0, <2>1, <2>2
    <3> QED BY <2>2, <3>1 DEF Ends
  <2>3. CASE k # call[t].key
    BY <1>0, <1>1, <2>1, <2>3
  <2> QED BY <2>2, <2>3
<1>4. CASE Unregister(t)
  BY <1>1, <1>4, Typed DEF Unregister
<1>5. CASE Return(t) \/ Panic(t) \/ UNCHANGED sfVars
  BY <1>1, <1>5 DEF Return, Panic, sfVars
<1> QED BY <1>2, <1>3, <1>4, <1>5 DEF FlightsGo

(* The calls of the others go on, or get the result of t's flight.         *)
LEMMA OtherCalls ==
    ASSUME SrcInv, Values, NEW t \in Threads, StoreGrows(t), FlightsGo(t), NEW u \in Threads \ {t}
    PROVE  \/ call'[u] = call[u]
           \/ /\ call[u].pc # "idle" /\ call'[u].key = call[u].key
              /\ Outcome(call[u].key, call'[u].val)
              /\ Steady(call[u].key) /\ call'[u].val # Err => store'[call[u].key] = call[u].key
<1>1. CASE \E r \in Results : Ends(t, r)
  <2> PICK r \in Results : Ends(t, r)
    BY <1>1
  <2>1. CASE call[u].pc = "waiting" /\ call[u].key = call[t].key
    <3>1. call'[u] = [call[u] EXCEPT !.pc = "returned", !.val = r]
      BY <2>1 DEF Ends, Finish
    <3>2. call'[u].key = call[u].key /\ call'[u].val = r
      BY <3>1, Typed
    <3> QED BY <2>1, <3>2 DEF Ends
  <2>2. CASE ~ (call[u].pc = "waiting" /\ call[u].key = call[t].key)
    BY <2>2 DEF Ends, Finish
  <2> QED BY <2>1, <2>2
<1>2. CASE \E k \in Keys : Lead(t, k) \/ Join(t, k)
  BY <1>2, Typed DEF Lead, Join
<1>3. CASE Unregister(t) \/ Return(t) \/ Panic(t) \/ UNCHANGED sfVars
  BY <1>3, Typed DEF Unregister, Return, Panic, sfVars
<1> QED BY <1>1, <1>2, <1>3 DEF FlightsGo

(* A step of t leaves what the others hold.                                *)
LEMMA OthersHold ==
    ASSUME SrcInv, Values, NEW t \in Threads, StoreGrows(t), FlightsGo(t), NEW u \in Threads \ {t},
           req'[u] = req[u], put'[u] = put[u], look'[u] = look[u]
    PROVE  Holds(u)'
<1>0. Holds(u) /\ Holds(t) /\ LinkOf(u) /\ LinkOf(t)
  BY DEF Values, SrcInv, Link
<1>1. PutHolds(u)'
  <2>1. put[u].pc # "idle" => put[u].key \in Keys
    BY <1>0 DEF LinkOf, Asked
  <2> QED BY <1>0, <2>1 DEF Holds, PutHolds, StoreGrows, Steady
<1>2. LookHolds(u)'
  <2> DEFINE k == look[u].key
  <2>1. look[u].pc # "idle" => k \in Keys
    BY <1>0 DEF LinkOf, Asked, Holds, LookHolds
  <2>2. ASSUME look[u].pc = "miss", req[u].at = "recheck", Steady(k), k \in SharedKeys, store'[k] # None
        PROVE  FALSE
    <3>1. store[k] = None /\ k \in Keys /\ req[u].key = k /\ req[u].from = k
      BY <1>0, <2>1, <2>2 DEF Holds, LookHolds, LinkOf, Asked, SharedKeys, Direct
    <3>2. put[t].pc # "idle" /\ put[t].key = k
      BY <2>2, <3>1 DEF StoreGrows
    <3>3. req[t].at = "putting" /\ req[t].from = k
      BY <1>0, <3>2 DEF LinkOf
    <3>4. Runs(t, k) /\ Runs(u, k)
      BY <1>0, <2>2, <3>1, <3>3, SharedRuns
    <3> QED BY <3>1, <3>4 DEF SrcInv, IInv, OneLeaderPerKey, Leads, Runs
  <2>3. look[u].pc \in {"looked", "hit"} /\ Steady(k) => store'[k] = k
    BY <1>0, <2>1 DEF Holds, LookHolds, StoreGrows
  <2> QED BY <1>0, <2>2, <2>3 DEF Holds, LookHolds, Steady
<1>3. CallHolds(u)'
  <2>1. CASE call'[u] = call[u]
    <3>1. call[u].pc # "idle" => call[u].key \in Keys
      BY <1>0 DEF Holds, CallHolds, LinkOf, Asked
    <3> QED BY <1>0, <2>1, <3>1 DEF Holds, CallHolds, Stored, Outcome, StoreGrows, Steady
  <2>2. CASE call'[u] # call[u]
    <3>1. /\ call[u].pc # "idle" /\ call'[u].key = call[u].key
          /\ Outcome(call[u].key, call'[u].val)
          /\ Steady(call[u].key) /\ call'[u].val # Err => store'[call[u].key] = call[u].key
      BY <2>2, OtherCalls
    <3> QED BY <1>0, <3>1 DEF Holds, CallHolds, Stored, Outcome, Steady
  <2> QED BY <2>1, <2>2
<1>4. AnswerHolds(u)'
  <2>1. req[u].at = "answered" => req[u].key \in Keys
    BY <1>0 DEF LinkOf, Asked
  <2> QED BY <1>0, <2>1 DEF Holds, AnswerHolds, Outcome, Stored, StoreGrows, Steady
<1> QED BY <1>1, <1>2, <1>3, <1>4 DEF Holds

(* So a step of t keeps Values if t's own part holds after it.             *)
LEMMA ValuesKept ==
    ASSUME SrcInv, Values, NEW t \in Threads, StoreGrows(t), FlightsGo(t), Holds(t)',
           \A u \in Threads \ {t} : req'[u] = req[u] /\ put'[u] = put[u] /\ look'[u] = look[u]
    PROVE  Values'
<1>1. \A u \in Threads : Holds(u)'
  BY OthersHold
<1> QED BY <1>1, FlightsHold DEF Values, StoreGrows
-----------------------------------------------------------------------------
(* What the steps of the store do to its parts.                            *)
LEMMA LookBegins ==
    ASSUME SrcInv, Values, NEW t \in Threads, NEW k \in Keys, Store!BeginLook(t, k)
    PROVE  /\ StoreGrows(t) /\ store' = store /\ put' = put /\ look[t].pc = "idle"
           /\ look'[t] = [pc |-> IF store[k] = None THEN "miss" ELSE "looked", key |-> k, blob |-> store[k]]
           /\ \A u \in Threads \ {t} : look'[u] = look[u]
  BY Typed DEF Store!BeginLook, StoreGrows, Values

LEMMA LookEnds ==
    ASSUME SrcInv, Values, NEW t \in Threads, Store!EndLook(t)
    PROVE  /\ StoreGrows(t) /\ store' = store /\ put' = put /\ look'[t].pc = "idle"
           /\ \A u \in Threads \ {t} : look'[u] = look[u]
  BY Typed DEF Store!EndLook, Store!NoLook, StoreGrows, Values

LEMMA StoreRests ==
    ASSUME SrcInv, Values, NEW t \in Threads, UNCHANGED storeVars
    PROVE  StoreGrows(t) /\ store' = store /\ put' = put /\ look' = look
  BY DEF storeVars, StoreGrows, Values

LEMMA PutBegins ==
    ASSUME SrcInv, Values, NEW t \in Threads, NEW k \in Keys, Store!BeginPut(t, k, k)
    PROVE  /\ StoreGrows(t) /\ store' = store /\ look' = look
           /\ put'[t] = [pc |-> "begun", key |-> k, blob |-> k]
           /\ \A u \in Threads \ {t} : put'[u] = put[u]
  BY Typed DEF Store!BeginPut, StoreGrows, Values

LEMMA PutCommits ==
    ASSUME SrcInv, Values, NEW t \in Threads, Store!CommitPut(t)
    PROVE  /\ StoreGrows(t) /\ look' = look /\ put[t].pc # "idle"
           /\ put'[t].pc = "visible" /\ put'[t].key = put[t].key /\ put'[t].blob = put[t].blob
           /\ store'[put[t].key] = put[t].key
           /\ \A u \in Threads \ {t} : put'[u] = put[u]
<1>1. put[t].pc # "idle" /\ put[t].key \in Keys /\ put[t].blob = put[t].key
  BY AtRest DEF Store!CommitPut, Values, Holds, PutHolds, SrcInv, Link, LinkOf, Asked
<1>2. /\ look' = look /\ store' = [store EXCEPT ![put[t].key] = put[t].key]
      /\ put' = [put EXCEPT ![t].pc = "visible"]
  BY <1>1 DEF Store!CommitPut
<1> QED BY <1>1, <1>2, Typed DEF StoreGrows, Values, Puts

LEMMA PutEnds ==
    ASSUME SrcInv, Values, NEW t \in Threads, NEW K \in SUBSET Keys, Store!EndPut(t, K)
    PROVE  /\ StoreGrows(t) /\ look' = look /\ put'[t].pc = "idle"
           /\ Steady(put[t].key) => store'[put[t].key] = put[t].key
           /\ \A u \in Threads \ {t} : put'[u] = put[u]
<1>1. /\ look' = look /\ store' = [k \in Keys |-> IF k \in K THEN None ELSE store[k]]
      /\ put' = [put EXCEPT ![t] = Store!NoPut] /\ K \subseteq LossyKeys
      /\ put[t].pc = "visible" \/ put[t].key \in LossyKeys
  BY DEF Store!EndPut, Store!Without
<1>2. put[t].pc = "visible" /\ Steady(put[t].key) => store[put[t].key] = put[t].key
  BY DEF Values, Holds, PutHolds
<1>3. StoreGrows(t)
  BY <1>1 DEF StoreGrows, Values, Steady
<1> QED BY <1>1, <1>2, <1>3, Typed DEF Steady, Store!NoPut

LEMMA AnswerGives ==
    ASSUME SrcInv, NEW t \in Threads, NEW r, Answer(t, r)
    PROVE  /\ req'[t].at = "answered" /\ req'[t].key = req[t].key /\ req'[t].kind = req[t].kind
           /\ req'[t].reply = r /\ req'[t].from = req[t].from
           /\ \A u \in Threads \ {t} : req'[u] = req[u]
  BY Typed DEF Answer, Reqs

LEMMA GotoGives ==
    ASSUME SrcInv, NEW t \in Threads, NEW a, Goto(t, a)
    PROVE  /\ req'[t].at = a /\ req'[t].key = req[t].key /\ req'[t].kind = req[t].kind
           /\ req'[t].from = req[t].from
           /\ \A u \in Threads \ {t} : req'[u] = req[u]
  BY Typed DEF Goto, Reqs

(* What the caller is left with is the result of its look or its flight.   *)
LEMMA ReplyKeeps ==
    ASSUME NEW t \in Threads, NEW k \in Keys, NEW r, Outcome(k, r), Steady(k) /\ r # Err => store[k] = k
    PROVE  /\ req[t].kind = "get" => Outcome(k, ReplyOf(t, r))
           /\ Steady(k) /\ ReplyOf(t, r) # Err => store[k] = k
  BY DEF ReplyOf

(* fetchGridLevel has a grid that decodes, or an error.                    *)
LEMMA GridKeeps ==
    ASSUME NEW t \in Threads, req[t].kind = "direct", NEW k \in Keys, NEW r \in {k, Err}
    PROVE  ReplyOf(t, r) \in ({k} \ Malformed) \cup {Err}
  BY BlobSourceAssumption DEF ReplyOf

(* The function of a flight ends: the request waits for its own call.      *)
LEMMA FlightEnds ==
    ASSUME SrcInv, Values, NEW t \in Threads, NEW r \in Results, StoreGrows(t), Ends(t, r),
           put'[t].pc = "idle", look'[t].pc = "idle",
           \A u \in Threads \ {t} : put'[u] = put[u] /\ look'[u] = look[u],
           req'[t].at = "finish", req'[t].key = req[t].key, req'[t].kind = req[t].kind,
           \A u \in Threads \ {t} : req'[u] = req[u]
    PROVE  Values'
<1>1. /\ call'[t].key = call[t].key /\ call'[t].pc = "finishing" /\ call'[t].val = r
      /\ call[t].key = req[t].key /\ req[t].kind # "direct"
  <2>1. call'[t] = [call[t] EXCEPT !.pc = "finishing", !.val = r] /\ call[t].pc = "running"
    BY DEF Ends, Finish
  <2> QED BY <2>1, Typed, AtRest DEF Values, Holds, CallHolds
<1>2. CallHolds(t)'
  BY <1>1 DEF CallHolds, Ends, Outcome, Stored, Steady
<1>3. Holds(t)'
  BY <1>2 DEF Holds, PutHolds, LookHolds, AnswerHolds
<1> QED BY <1>3, ValuesKept DEF FlightsGo

(* A direct request has no flight.                                         *)
LEMMA DirectFliesNot ==
    ASSUME SrcInv, Values, NEW t \in Threads, req[t].kind = "direct"
    PROVE  call[t].pc = "idle"
  BY DEF Values, Holds, CallHolds

(* The result of a fetch is delivered to the flight or a direct request.   *)
LEMMA DeliverHolds ==
    ASSUME SrcInv, Values, NEW t \in Threads, NEW r \in Results, Deliver(t, r),
           req[t].at \in {"fetching", "putting"}, StoreGrows(t), r \in {req[t].from, Err},
           Steady(req[t].from) /\ r # Err => store'[req[t].from] = req[t].from,
           put'[t].pc = "idle" \/ (put' = put /\ req[t].at = "fetching"), look' = look,
           \A u \in Threads \ {t} : put'[u] = put[u]
    PROVE  Values'
<1>0. put'[t].pc = "idle" /\ look'[t].pc = "idle"
  BY AtRest
<1>1. CASE req[t].kind = "direct"
  <2>1. Answer(t, ReplyOf(t, r)) /\ UNCHANGED sfVars /\ FlightsGo(t)
    BY <1>1 DEF Deliver, FlightsGo
  <2>2. /\ req'[t].at = "answered" /\ req'[t].key = req[t].key /\ req'[t].kind = "direct"
        /\ req'[t].reply = ReplyOf(t, r)
        /\ \A u \in Threads \ {t} : req'[u] = req[u]
    BY <1>1, <2>1, AnswerGives
  <2>3. call'[t].pc = "idle"
    BY <1>1, <2>1, DirectFliesNot DEF sfVars
  <2>4. AnswerHolds(t)'
    <3>1. req[t].from \in Keys /\ req[t].from \in {req[t].key, Alt[req[t].key]}
      BY AtRest DEF Asked
    <3>2. ReplyOf(t, r) \in ({req[t].from} \ Malformed) \cup {Err}
      BY <1>1, <3>1, GridKeeps
    <3> QED BY <2>2, <3>1, <3>2 DEF AnswerHolds
  <2>5. Holds(t)'
    BY <1>0, <2>2, <2>3, <2>4 DEF Holds, PutHolds, LookHolds, CallHolds
  <2> QED BY <2>1, <2>2, <2>5, ValuesKept
<1>2. CASE req[t].kind # "direct"
  <2>1. Finish(t, r) /\ Goto(t, "finish")
    BY <1>2 DEF Deliver
  <2>2. call[t].key = req[t].key
    BY <2>1, AtRest DEF Finish
  <2>3. Ends(t, r)
    <3>1. req[t].from = req[t].key
      BY <1>2, AtRest DEF Asked
    <3> QED BY <2>1, <2>2, <3>1 DEF Ends, Outcome
  <2>4. /\ req'[t].at = "finish" /\ req'[t].key = req[t].key /\ req'[t].kind = req[t].kind
        /\ \A u \in Threads \ {t} : req'[u] = req[u]
    BY <2>1, GotoGives
  <2> QED BY <1>0, <2>3, <2>4, FlightEnds
<1> QED BY <1>1, <1>2
-----------------------------------------------------------------------------
(* Every step of a request.                                                *)
LEMMA ValuesRequest ==
    ASSUME SrcInv, Values, NEW t \in Threads,
           SrcStep(t) \/ \E k \in Keys : \E kind \in Kinds[k] : Request(t, kind, k)
    PROVE  Values'
<1> USE BlobSourceAssumption
<1> DEFINE k == req[t].key
<1>a. /\ req[t].at # "idle" => k \in Keys /\ req[t].kind \in Kinds[k] /\ Asked(req[t]) /\ req[t].from \in Keys
      /\ req[t].at # "putting" => put[t].pc = "idle"
      /\ put[t].pc # "idle" => put[t].key = req[t].from
      /\ req[t].at \notin {"look", "recheck"} => look[t].pc = "idle"
      /\ req[t].at \notin {"recheck", "fetching", "putting", "finish", "joined"} => call[t].pc = "idle"
      /\ req[t].at \in {"recheck", "fetching", "putting"} /\ req[t].kind # "direct" => Runs(t, k)
      /\ call[t].pc # "idle" => call[t].key = k
  BY AtRest DEF Asked
<1>b. PutHolds(t) /\ LookHolds(t) /\ CallHolds(t) /\ AnswerHolds(t) /\ \A j \in Keys : FlightHolds(j) /\ store[j] \in {j, None}
  BY DEF Values, Holds
<1>c. call \in [Threads -> [pc : PCs, key : Keys \cup {None}, val : Results \cup {None}]]
  BY Typed
<1> HIDE DEF k
<1>1. ASSUME NEW j \in Keys, NEW kind \in Kinds[j], Request(t, kind, j) PROVE Values'
  <2>1. /\ StoreGrows(t) /\ store' = store /\ put' = put
        /\ look'[t] = [pc |-> IF store[j] = None THEN "miss" ELSE "looked", key |-> j, blob |-> store[j]]
        /\ \A u \in Threads \ {t} : look'[u] = look[u]
    BY <1>1, LookBegins DEF Request
  <2>2. /\ req[t].at = "idle" /\ UNCHANGED sfVars
        /\ req'[t].key = j /\ req'[t].at = "look" /\ \A u \in Threads \ {t} : req'[u] = req[u]
    BY <1>1, Typed DEF Request
  <2>3. FlightsGo(t)
    BY <2>2 DEF FlightsGo
  <2>4. Holds(t)'
    BY <1>a, <1>b, <2>1, <2>2 DEF Holds, PutHolds, LookHolds, CallHolds, AnswerHolds, sfVars
  <2> QED BY <2>1, <2>2, <2>3, <2>4, ValuesKept
<1>2. ASSUME Settle(t) PROVE Values'
  <2>1. /\ UNCHANGED <<sfVars, req>> /\ store' = store /\ put' = put
        /\ look[t].pc = "looked" /\ \A u \in Threads \ {t} : look'[u] = look[u]
        /\ look'[t].key = look[t].key
        /\ \/ look'[t].pc = "hit" /\ look'[t].blob = look[t].blob
           \/ /\ look'[t].pc = "miss"
              /\ look[t].key \in LossyKeys \/ Store!Putting(look[t].key) # {}
    BY <1>2, Typed DEF Settle, Store!Hit, Store!Miss, Looks
  <2>2. StoreGrows(t) /\ FlightsGo(t)
    BY <1>b, <2>1 DEF StoreGrows, FlightsGo
  <2>3. ASSUME look'[t].pc = "miss", req[t].at = "recheck", Steady(k), k \in SharedKeys PROVE FALSE
    <3>1. look[t].key = k
      BY <1>b, <2>1 DEF LookHolds, k
    <3>2. PICK u \in Threads : put[u].pc # "idle" /\ put[u].key = k
      BY <2>1, <2>3, <3>1 DEF Store!Putting, Steady
    <3>3. LinkOf(u)
      BY DEF SrcInv, Link
    <3>4. req[u].at = "putting" /\ req[u].from = k
      BY <3>2, <3>3 DEF LinkOf
    <3>5. Runs(u, k)
      BY <2>3, <3>3, <3>4, SharedRuns
    <3>6. req[t].kind # "direct"
      BY <1>b, <2>3 DEF CallHolds
    <3>7. Runs(t, k)
      BY <1>a, <2>3, <3>6
    <3> QED BY <2>3, <3>4, <3>5, <3>7 DEF SrcInv, IInv, OneLeaderPerKey, Leads, Runs, Steady
  <2>4. LookHolds(t)'
    BY <1>b, <2>1, <2>3 DEF LookHolds, Steady, k
  <2>5. Holds(t)'
    BY <1>b, <2>1, <2>4 DEF Holds, PutHolds, CallHolds, AnswerHolds, Outcome, Stored, Steady, sfVars
  <2> QED BY <2>1, <2>2, <2>5, ValuesKept
<1>3. ASSUME LookHit(t) PROVE Values'
  <2>1. /\ StoreGrows(t) /\ store' = store /\ put' = put /\ look'[t].pc = "idle"
        /\ \A u \in Threads \ {t} : look'[u] = look[u]
    BY <1>3, LookEnds DEF LookHit
  <2>2. req[t].at = "look" /\ look[t].pc = "hit" /\ UNCHANGED sfVars /\ FlightsGo(t)
    BY <1>3 DEF LookHit, FlightsGo
  <2>3. look[t].blob = k /\ (Steady(k) => store[k] = k)
    BY <1>b, <2>2 DEF LookHolds, k
  <2>4. /\ req'[t].at = "answered" /\ req'[t].key = k /\ req'[t].kind = req[t].kind
        /\ req'[t].reply = ReplyOf(t, look[t].blob) /\ \A u \in Threads \ {t} : req'[u] = req[u]
    BY <1>3, AnswerGives DEF LookHit, k
  <2>5. k \in Keys /\ Outcome(k, look[t].blob)
    BY <1>a, <2>2, <2>3 DEF Outcome
  <2>6. AnswerHolds(t)'
    <3>1. req[t].kind = "direct" => ReplyOf(t, look[t].blob) \in ({k} \ Malformed) \cup {Err}
      BY <2>3, <2>5, GridKeeps
    <3> QED BY <2>1, <2>3, <2>4, <2>5, <3>1, ReplyKeeps DEF AnswerHolds, Outcome, Stored, Steady
  <2>7. Holds(t)'
    BY <1>a, <2>1, <2>2, <2>4, <2>6 DEF Holds, PutHolds, LookHolds, CallHolds, sfVars
  <2> QED BY <2>1, <2>2, <2>4, <2>7, ValuesKept
<1>4. ASSUME LookMiss(t) PROVE Values'
  <2>1. /\ StoreGrows(t) /\ store' = store /\ put' = put /\ look'[t].pc = "idle"
        /\ \A u \in Threads \ {t} : look'[u] = look[u]
    BY <1>4, LookEnds DEF LookMiss
  <2>2. req[t].at = "look" /\ UNCHANGED sfVars /\ FlightsGo(t)
    BY <1>4 DEF LookMiss, FlightsGo
  <2>3. PICK a \in {"fetching", "enter"} : Goto(t, a) /\ (a = "enter" => req[t].kind # "direct")
    BY <1>4 DEF LookMiss
  <2>4. /\ req'[t].at = a /\ req'[t].key = k /\ req'[t].kind = req[t].kind
        /\ \A u \in Threads \ {t} : req'[u] = req[u]
    BY <2>3, GotoGives DEF k
  <2>5. call'[t].pc = "idle" /\ put'[t].pc = "idle"
    BY <1>a, <2>1, <2>2 DEF sfVars
  <2>6. Holds(t)'
    BY <2>1, <2>3, <2>4, <2>5 DEF Holds, PutHolds, LookHolds, CallHolds, AnswerHolds
  <2> QED BY <2>1, <2>2, <2>4, <2>6, ValuesKept
<1>4a. ASSUME LookSpoilt(t) PROVE Values'
  <2>1. /\ StoreGrows(t) /\ store' = store /\ put' = put /\ look'[t].pc = "idle"
        /\ \A u \in Threads \ {t} : look'[u] = look[u]
    BY <1>4a, LookEnds DEF LookSpoilt
  <2>2. /\ req[t].at = "look" /\ UNCHANGED sfVars /\ FlightsGo(t) /\ Goto(t, "fetching")
    BY <1>4a DEF LookSpoilt, FlightsGo
  <2>3. /\ req'[t].at = "fetching" /\ \A u \in Threads \ {t} : req'[u] = req[u]
    BY <2>2, GotoGives
  <2>4. call'[t].pc = "idle" /\ put'[t].pc = "idle"
    BY <1>a, <2>1, <2>2 DEF sfVars
  <2>5. Holds(t)'
    BY <2>1, <2>3, <2>4 DEF Holds, PutHolds, LookHolds, CallHolds, AnswerHolds
  <2> QED BY <2>1, <2>2, <2>3, <2>5, ValuesKept
<1>5. ASSUME EnterLead(t) PROVE Values'
  <2>1. req[t].at = "enter" /\ k \in Keys /\ FlightsGo(t) /\ Lead(t, k) /\ Store!BeginLook(t, k) /\ Goto(t, "recheck")
    BY <1>a, <1>5 DEF EnterLead, FlightsGo, k
  <2>2. /\ StoreGrows(t) /\ store' = store /\ put' = put
        /\ look'[t] = [pc |-> IF store[k] = None THEN "miss" ELSE "looked", key |-> k, blob |-> store[k]]
        /\ \A u \in Threads \ {t} : look'[u] = look[u]
    BY <2>1, LookBegins
  <2>3. /\ req'[t].at = "recheck" /\ req'[t].key = k /\ req'[t].kind = req[t].kind
        /\ \A u \in Threads \ {t} : req'[u] = req[u]
    BY <2>1, GotoGives DEF k
  <2>4. call'[t].pc = "running" /\ call'[t].key = k
    BY <1>c, <2>1 DEF Lead
  <2>5. Holds(t)'
    BY <1>a, <1>b, <2>1, <2>2, <2>3, <2>4 DEF Holds, PutHolds, LookHolds, CallHolds, AnswerHolds
  <2> QED BY <2>1, <2>2, <2>3, <2>5, ValuesKept
<1>6. ASSUME EnterJoin(t) PROVE Values'
  <2>1. req[t].at = "enter" /\ k \in Keys /\ FlightsGo(t) /\ Join(t, k) /\ UNCHANGED storeVars /\ Goto(t, "joined")
    BY <1>a, <1>6 DEF EnterJoin, FlightsGo, k
  <2>2. StoreGrows(t) /\ store' = store /\ put' = put /\ look' = look
    BY <2>1, StoreRests
  <2>3. /\ req'[t].at = "joined" /\ req'[t].key = k /\ req'[t].kind = req[t].kind
        /\ \A u \in Threads \ {t} : req'[u] = req[u]
    BY <2>1, GotoGives DEF k
  <2>4. /\ call'[t].key = k /\ call'[t].pc \in {"waiting", "returned"}
        /\ call'[t].pc = "returned" => flight[k].done /\ call'[t].val = flight[k].val
        /\ flight[k] # None
    BY <1>c, <2>1 DEF Join
  <2>5. CallHolds(t)'
    BY <1>b, <2>1, <2>2, <2>3, <2>4 DEF CallHolds, FlightHolds, Outcome, Stored, Steady
  <2>6. Holds(t)'
    BY <1>a, <2>1, <2>2, <2>3, <2>5 DEF Holds, PutHolds, LookHolds, AnswerHolds
  <2> QED BY <2>1, <2>2, <2>3, <2>6, ValuesKept
<1>7. ASSUME RecheckHit(t) PROVE Values'
  <2>1. /\ StoreGrows(t) /\ store' = store /\ put' = put /\ look'[t].pc = "idle"
        /\ \A u \in Threads \ {t} : look'[u] = look[u]
    BY <1>7, LookEnds DEF RecheckHit
  <2>2. /\ req[t].at = "recheck" /\ look[t].pc = "hit" /\ k \in Keys
        /\ Finish(t, RecheckResult(t)) /\ Goto(t, "finish")
    BY <1>a, <1>7 DEF RecheckHit
  <2>3. look[t].blob = k /\ (Steady(k) => store[k] = k)
    BY <1>b, <2>2 DEF LookHolds, k
  <2>4. RecheckResult(t) \in Results /\ Outcome(k, RecheckResult(t))
    BY <1>a, <2>2, <2>3 DEF RecheckResult, Outcome
  <2>5. call[t].pc = "running" /\ call[t].key = k
    BY <1>a, <2>2 DEF Finish
  <2>6. Ends(t, RecheckResult(t))
    BY <2>1, <2>2, <2>3, <2>4, <2>5 DEF Ends
  <2>7. /\ req'[t].at = "finish" /\ req'[t].key = k /\ req'[t].kind = req[t].kind
        /\ \A u \in Threads \ {t} : req'[u] = req[u]
    BY <2>2, GotoGives DEF k
  <2> QED BY <1>a, <2>1, <2>2, <2>4, <2>6, <2>7, FlightEnds DEF k
<1>8. ASSUME RecheckMiss(t) PROVE Values'
  <2>1. /\ StoreGrows(t) /\ store' = store /\ put' = put /\ look'[t].pc = "idle"
        /\ \A u \in Threads \ {t} : look'[u] = look[u]
    BY <1>8, LookEnds DEF RecheckMiss
  <2>2. req[t].at = "recheck" /\ UNCHANGED sfVars /\ FlightsGo(t) /\ Goto(t, "fetching")
    BY <1>8 DEF RecheckMiss, FlightsGo
  <2>3. /\ req'[t].at = "fetching" /\ req'[t].key = k /\ req'[t].kind = req[t].kind
        /\ \A u \in Threads \ {t} : req'[u] = req[u]
    BY <2>2, GotoGives DEF k
  <2>4. Holds(t)'
    BY <1>a, <1>b, <2>1, <2>2, <2>3 DEF Holds, PutHolds, LookHolds, CallHolds, AnswerHolds, Outcome, Stored, sfVars
  <2> QED BY <2>1, <2>2, <2>3, <2>4, ValuesKept
<1>9. ASSUME FetchOk(t) PROVE Values'
  <2> DEFINE f == req[t].from
  <2>1. /\ req[t].at = "fetching" /\ f \in Keys /\ UNCHANGED sfVars /\ FlightsGo(t) /\ Goto(t, "putting")
        /\ Store!BeginPut(t, f, f)
    BY <1>a, <1>9 DEF FetchOk, FlightsGo
  <2> HIDE DEF f
  <2>2. /\ StoreGrows(t) /\ store' = store /\ look' = look
        /\ put'[t] = [pc |-> "begun", key |-> f, blob |-> f]
        /\ \A u \in Threads \ {t} : put'[u] = put[u]
    BY <2>1, PutBegins
  <2>3. /\ req'[t].at = "putting" /\ req'[t].key = k /\ req'[t].kind = req[t].kind
        /\ \A u \in Threads \ {t} : req'[u] = req[u]
    BY <2>1, GotoGives DEF k
  <2>4. Holds(t)'
    BY <1>a, <1>b, <2>1, <2>2, <2>3 DEF Holds, PutHolds, LookHolds, CallHolds, AnswerHolds, Outcome, Stored, sfVars
  <2> QED BY <2>1, <2>2, <2>3, <2>4, ValuesKept
<1>9a. ASSUME FetchAlt(t) PROVE Values'
  <2>1. /\ req[t].at = "fetching" /\ req[t].kind = "direct" /\ UNCHANGED storeVars /\ UNCHANGED sfVars
        /\ req' = [req EXCEPT ![t].from = Alt[req[t].key]] /\ FlightsGo(t)
    BY <1>9a DEF FetchAlt, HasAlt, FlightsGo
  <2>2. StoreGrows(t) /\ store' = store /\ put' = put /\ look' = look
    BY <2>1, StoreRests
  <2>3. req'[t].at = "fetching" /\ \A u \in Threads \ {t} : req'[u] = req[u]
    BY <2>1, Typed DEF Reqs
  <2>4. call'[t].pc = "idle" /\ put'[t].pc = "idle" /\ look'[t].pc = "idle"
    BY <1>a, <2>1, <2>2, DirectFliesNot DEF sfVars
  <2>5. Holds(t)'
    BY <2>3, <2>4 DEF Holds, PutHolds, LookHolds, CallHolds, AnswerHolds
  <2> QED BY <2>1, <2>2, <2>3, <2>5, ValuesKept
<1>10. ASSUME FetchFailed(t) PROVE Values'
  <2>1. req[t].at = "fetching" /\ Deliver(t, Err) /\ UNCHANGED storeVars
    BY <1>10 DEF FetchFailed
  <2>2. StoreGrows(t) /\ store' = store /\ put' = put /\ look' = look
    BY <2>1, StoreRests
  <2> QED BY <1>a, <2>1, <2>2, DeliverHolds
<1>11. ASSUME FetchPanics(t) PROVE Values'
  <2>1. /\ req[t].at = "fetching" /\ UNCHANGED storeVars /\ k \in Keys
        /\ IF req[t].kind = "direct" THEN UNCHANGED sfVars ELSE Panic(t)
        /\ req' = [req EXCEPT ![t] = NoReq]
    BY <1>a, <1>11 DEF FetchPanics
  <2>2. StoreGrows(t) /\ store' = store /\ put' = put /\ look' = look /\ FlightsGo(t)
    BY <2>1, StoreRests DEF FlightsGo
  <2>3. req'[t].at = "idle" /\ \A u \in Threads \ {t} : req'[u] = req[u]
    BY <2>1, Typed DEF NoReq
  <2>4. call'[t].pc = "idle"
    <3>1. CASE req[t].kind = "direct"
      BY <2>1, <3>1, DirectFliesNot DEF sfVars
    <3>2. CASE req[t].kind # "direct"
      BY <1>c, <2>1, <3>2 DEF Panic, Idle
    <3> QED BY <3>1, <3>2
  <2>5. Holds(t)'
    BY <1>a, <2>1, <2>2, <2>3, <2>4 DEF Holds, PutHolds, LookHolds, CallHolds, AnswerHolds
  <2> QED BY <2>2, <2>3, <2>5, ValuesKept
<1>12. ASSUME PutVisible(t) PROVE Values'
  <2>1. UNCHANGED <<sfVars, req>> /\ FlightsGo(t)
    BY <1>12 DEF PutVisible, FlightsGo
  <2>2. /\ StoreGrows(t) /\ look' = look /\ put[t].pc # "idle"
        /\ put'[t].pc = "visible" /\ put'[t].key = put[t].key /\ put'[t].blob = put[t].blob
        /\ store'[put[t].key] = put[t].key
        /\ \A u \in Threads \ {t} : put'[u] = put[u]
    BY <1>12, PutCommits DEF PutVisible
  <2>3. req[t].at = "putting"
    BY <1>a, <2>2
  <2>4. CallHolds(t)'
    BY <1>b, <2>1, <2>2 DEF CallHolds, Outcome, Stored, Steady, StoreGrows, sfVars
  <2>5. Holds(t)'
    BY <1>a, <1>b, <2>1, <2>2, <2>3, <2>4 DEF Holds, PutHolds, LookHolds, AnswerHolds
  <2> QED BY <2>1, <2>2, <2>5, ValuesKept
<1>13. ASSUME PutDone(t) PROVE Values'
  <2>1. PICK K \in SUBSET Keys : Store!EndPut(t, K)
    BY <1>13 DEF PutDone
  <2>2. req[t].at = "putting" /\ req[t].from \in Keys /\ Deliver(t, req[t].from)
    BY <1>a, <1>13 DEF PutDone
  <2>3. /\ StoreGrows(t) /\ look' = look /\ put'[t].pc = "idle"
        /\ Steady(put[t].key) => store'[put[t].key] = put[t].key
        /\ \A u \in Threads \ {t} : put'[u] = put[u]
    BY <2>1, PutEnds
  <2>4. put[t].key = req[t].from
    BY <1>a, <2>1 DEF Store!EndPut
  <2> QED BY <2>2, <2>3, <2>4, DeliverHolds
<1>14. ASSUME LeaderLeaves(t) PROVE Values'
  <2>1. req[t].at = "finish" /\ FlightsGo(t) /\ Unregister(t) /\ UNCHANGED storeVars /\ Goto(t, "joined")
    BY <1>14 DEF LeaderLeaves, FlightsGo
  <2>2. StoreGrows(t) /\ store' = store /\ put' = put /\ look' = look
    BY <2>1, StoreRests
  <2>3. /\ req'[t].at = "joined" /\ req'[t].key = k /\ req'[t].kind = req[t].kind
        /\ \A u \in Threads \ {t} : req'[u] = req[u]
    BY <2>1, GotoGives DEF k
  <2>4. call'[t].key = call[t].key /\ call'[t].val = call[t].val /\ call[t].pc = "finishing"
    BY <1>c, <2>1 DEF Unregister
  <2>5. CallHolds(t)'
    BY <1>a, <1>b, <2>2, <2>3, <2>4 DEF CallHolds, Outcome, Stored, Steady
  <2>6. Holds(t)'
    BY <1>a, <2>1, <2>2, <2>3, <2>5 DEF Holds, PutHolds, LookHolds, AnswerHolds
  <2> QED BY <2>1, <2>2, <2>3, <2>6, ValuesKept
<1>15. ASSUME DoReturns(t) PROVE Values'
  <2>1. /\ req[t].at = "joined" /\ FlightsGo(t) /\ Return(t) /\ UNCHANGED storeVars
        /\ Answer(t, ReplyOf(t, call[t].val))
    BY <1>15 DEF DoReturns, FlightsGo
  <2>2. StoreGrows(t) /\ store' = store /\ put' = put /\ look' = look
    BY <2>1, StoreRests
  <2>3. /\ req'[t].at = "answered" /\ req'[t].key = k /\ req'[t].kind = req[t].kind
        /\ req'[t].reply = ReplyOf(t, call[t].val) /\ \A u \in Threads \ {t} : req'[u] = req[u]
    BY <2>1, AnswerGives DEF k
  <2>4. k \in Keys /\ Outcome(k, call[t].val) /\ (Steady(k) /\ call[t].val # Err => store[k] = k)
    BY <1>a, <1>b, <2>1 DEF Return, CallHolds, Stored
  <2>5. call'[t].pc = "idle"
    BY <1>c, <2>1 DEF Return, Idle
  <2>6. AnswerHolds(t)'
    <3>1. req[t].kind # "direct"
      BY <1>b, <2>1 DEF CallHolds
    <3> QED BY <2>2, <2>3, <2>4, <3>1, ReplyKeeps DEF AnswerHolds, Outcome, Stored, Steady
  <2>7. Holds(t)'
    BY <1>a, <2>1, <2>2, <2>3, <2>5, <2>6 DEF Holds, PutHolds, LookHolds, CallHolds
  <2> QED BY <2>1, <2>2, <2>3, <2>7, ValuesKept
<1>16. ASSUME Respond(t) PROVE Values'
  <2>1. /\ req[t].at = "answered" /\ UNCHANGED sfVars /\ FlightsGo(t) /\ UNCHANGED storeVars
        /\ req' = [req EXCEPT ![t] = NoReq]
    BY <1>16 DEF Respond, FlightsGo
  <2>2. StoreGrows(t) /\ store' = store /\ put' = put /\ look' = look
    BY <2>1, StoreRests
  <2>3. req'[t].at = "idle" /\ \A u \in Threads \ {t} : req'[u] = req[u]
    BY <2>1, Typed DEF NoReq
  <2>4. Holds(t)'
    BY <1>a, <2>1, <2>2, <2>3 DEF Holds, PutHolds, LookHolds, CallHolds, AnswerHolds, sfVars
  <2> QED BY <2>1, <2>2, <2>3, <2>4, ValuesKept
<1> QED
  BY <1>1, <1>2, <1>3, <1>4, <1>4a, <1>5, <1>6, <1>7, <1>8, <1>9, <1>9a, <1>10, <1>11, <1>12,
     <1>13, <1>14, <1>15, <1>16 DEF SrcStep

LEMMA ValuesStep == SrcInv /\ Values /\ [SrcNext]_srcVars => Values'
<1> SUFFICES ASSUME SrcInv, Values, [SrcNext]_srcVars PROVE Values'
  OBVIOUS
<1>1. ASSUME UNCHANGED <<sfVars, put, look, req>>,
             \A k \in Keys : store'[k] \in {k, None} /\ (Steady(k) => store'[k] = store[k])
      PROVE  Values'
  <2>1. flight' = flight /\ call' = call /\ put' = put /\ look' = look /\ req' = req
    BY <1>1 DEF sfVars
  <2>2. \A k \in Keys : FlightHolds(k)'
    BY <1>1, <2>1 DEF Values, FlightHolds, Outcome, Stored, Steady
  <2>3. ASSUME NEW t \in Threads PROVE Holds(t)'
    BY <1>1, <2>1 DEF Values, Holds, PutHolds, LookHolds, CallHolds, AnswerHolds, Outcome, Stored, Steady
  <2> QED BY <1>1, <2>2, <2>3 DEF Values
<1>2. CASE Lose
  <2>1. PICK K \in SUBSET Keys : Store!Lose(K)
    BY <1>2 DEF Lose
  <2>2. \A k \in Keys : store'[k] \in {k, None} /\ (Steady(k) => store'[k] = store[k])
    BY <2>1 DEF Store!Lose, Store!Without, Values, Steady
  <2>3. UNCHANGED <<sfVars, put, look, req>>
    BY <1>2, <2>1 DEF Lose, Store!Lose
  <2> QED BY <1>1, <2>2, <2>3
<1>3. CASE UNCHANGED srcVars
  BY <1>1, <1>3 DEF srcVars, storeVars, Values
<1> QED BY <1>2, <1>3, ValuesRequest DEF SrcNext
-----------------------------------------------------------------------------
(* Do, the store and the requests keep their types.                        *)
THEOREM SourceTypeCorrect == SrcSpec => []SrcTypeOK
<1>1. SrcInv => SrcTypeOK
  BY DEF SrcInv, IInv, StoreTyped, Puts, Looks, Reqs, SrcTypeOK
<1> QED BY SrcInvInit, SrcInvStep, <1>1, PTL DEF SrcSpec

LEMMA ValuesHold == SrcSpec => [](SrcInv /\ Values)
  BY SrcInvInit, SrcInvStep, ValuesInit, ValuesStep, PTL DEF SrcSpec

(* "GetOrFetch retrieves from Cache or fetches from Fetcher"               *)
(* (blobref.go:72): a caller never has another blob than the one it asked  *)
(* for, however the flights it joins are shared; fetchGridLevel's never    *)
(* has another grid than that of its path or of the other one.             *)
THEOREM AnswersAreOwnBlobs == SrcSpec => []GetYieldsOwnBlob
<1>1. SrcInv /\ Values => GetYieldsOwnBlob
  BY DEF Values, Holds, AnswerHolds, Outcome, GetYieldsOwnBlob
<1> QED BY ValuesHold, <1>1, PTL

(* Where nobody warms, the caller of GetOrFetch has its blob or an error.  *)
THEOREM UnwarmedIsFound ==
    ASSUME \A k \in Keys : "warm" \notin Kinds[k]
    PROVE  SrcSpec => []GetYieldsBlob
<1>1. SrcInv /\ Values => GetYieldsBlob
  BY DEF Values, Holds, AnswerHolds, Outcome, GetYieldsBlob, SrcInv, Link, LinkOf, Asked
<1> QED BY ValuesHold, <1>1, PTL

(* "Warm warms the disk cache for a BlobRef" (blobref.go:103): a Warm that *)
(* reports no error leaves its blob in a cache that loses nothing.         *)
THEOREM WarmStores == SrcSpec => []WarmedIsStored
<1>1. SrcInv /\ Values => WarmedIsStored
  BY BlobSourceAssumption DEF Values, Holds, AnswerHolds, Stored, Steady, WarmedIsStored, SrcInv, Link, LinkOf, Asked
<1> QED BY ValuesHold, <1>1, PTL

(* In such a cache a blob is asked of Cassandra only while the cache lacks *)
(* it: between the second look of a flight and its fetch nobody puts.      *)
THEOREM FetchedOnce == SrcSpec => NoRefetch
<1> DEFINE Needed ==
       \A t \in Threads :
          /\ req[t].at # "fetching" /\ req'[t].at = "fetching"
          /\ req[t].key \in SharedKeys \ LossyKeys
          => store[req[t].key] = None
<1>1. SrcInv /\ Values /\ [SrcNext]_srcVars => Needed
  <2> SUFFICES ASSUME SrcInv, Values, [SrcNext]_srcVars, NEW t \in Threads,
                      req[t].at # "fetching", req'[t].at = "fetching",
                      req[t].key \in SharedKeys \ LossyKeys
               PROVE  store[req[t].key] = None
    OBVIOUS
  <2>1. PICK u \in Threads : SrcStep(u) \/ \E k \in Keys : \E kind \in Kinds[k] : Request(u, kind, k)
    BY DEF SrcNext, Lose, srcVars
  <2>2. LookMiss(t) \/ LookSpoilt(t) \/ RecheckMiss(t)
    BY <2>1, Typed DEF SrcStep, Request, Settle, LookHit, LookMiss, LookSpoilt, FetchAlt, EnterLead, EnterJoin, RecheckHit, RecheckMiss,
       FetchOk, FetchFailed, FetchPanics, PutVisible, PutDone, LeaderLeaves, DoReturns, Respond, Deliver, Goto, Answer,
       NoReq, Reqs
  <2>3. req[t].at # "idle" => req[t].key \in Keys /\ req[t].kind # "direct"
    BY AtRest DEF SharedKeys, Direct
  <2>4. RecheckMiss(t)
    BY <2>2, <2>3, GotoGives DEF LookMiss, LookSpoilt
  <2> QED BY <2>3, <2>4 DEF RecheckMiss, Values, Holds, LookHolds, Steady
<1> QED BY ValuesHold, <1>1, PTL DEF NoRefetch, SrcSpec

-----------------------------------------------------------------------------
(* The CQL client *)

Queries == [pc : {"idle", "execute", "await", "reconnect", "rows", "error"},
            tries : 0..1, dials : 0..MaxDials, answer : Callers \cup {Nobody}]

(* Who is inside Query holds c.mu.                                         *)
MutexHeld == \A t \in Callers : q[t].pc # "idle" <=> mu = t

(* What is on the connection while t waits: its statement or its answer.   *)
OnWire(t) == {[asked |-> <<t>>, replied |-> <<>>], [asked |-> <<>>, replied |-> <<t>>]}

WireOwned ==
    /\ \A t \in Callers : q[t].pc = "await" => conn = "open" /\ wire \in OnWire(t)
    /\ (\A t \in Callers : q[t].pc # "await") => wire = NoWire

(* Query reconnects once, so it enters reconnect with all its dials.       *)
DialsLeft ==
    \A t \in Callers :
        /\ q[t].tries = 0 /\ q[t].pc # "reconnect" => q[t].dials = 0
        /\ q[t].pc = "reconnect" => q[t].tries = 1 /\ q[t].dials < MaxDials

QueryInv == TypeOK /\ MutexHeld /\ WireOwned /\ DialsLeft /\ OwnAnswer

LEMMA OneOnWire ==
    ASSUME NEW t \in Callers
    PROVE  /\ OnWire(t) \cup {NoWire} \subseteq [asked : Seq(Callers), replied : Seq(Callers)]
           /\ Append(<<>>, t) = <<t>> /\ Head(<<t>>) = t /\ Tail(<<t>>) = <<>>
           /\ Len(<<t>>) = 1 /\ <<t>> # <<>>
  BY DEF OnWire, NoWire

LEMMA QueryInvInit == Init => QueryInv
  BY CQLAssumption DEF Init, QueryInv, TypeOK, MutexHeld, WireOwned, DialsLeft, OwnAnswer, Unasked, NoWire

(* The holder of the mutex moves inside Query and leaves the connection as *)
(* its new place demands.                                                  *)
LEMMA HolderMoves ==
    ASSUME QueryInv, NEW t \in Callers, mu \in {t, Nobody}, mu' = t,
           NEW r \in Queries, q' = [q EXCEPT ![t] = r], r.pc # "idle",
           conn' \in {"nil", "open", "closed"}, faults' \in 0..MaxFaults,
           IF r.pc = "await" THEN conn' = "open" /\ wire' \in OnWire(t) ELSE wire' = NoWire,
           r.tries = 0 /\ r.pc # "reconnect" => r.dials = 0,
           r.pc = "reconnect" => r.tries = 1 /\ r.dials < MaxDials,
           r.pc = "rows" => r.answer = t
    PROVE  QueryInv'
<1>1. /\ q'[t] = r /\ q' \in [Callers -> Queries]
      /\ \A u \in Callers \ {t} : q'[u] = q[u] /\ q[u].pc = "idle"
  BY CQLAssumption DEF QueryInv, TypeOK, Queries, MutexHeld
<1>2. TypeOK'
  BY <1>1, OneOnWire DEF TypeOK, Queries
<1>3. MutexHeld' /\ WireOwned' /\ DialsLeft' /\ OwnAnswer'
  BY <1>1 DEF MutexHeld, WireOwned, QueryInv, DialsLeft, OwnAnswer
<1> QED BY <1>2, <1>3 DEF QueryInv

(* The mutex is free, or its holder gives it up, and the connection is     *)
(* clean.                                                                  *)
LEMMA NobodyInside ==
    ASSUME QueryInv, TypeOK', mu' = Nobody, wire' = NoWire,
           \A t \in Callers : q'[t] = Unasked \/ (q'[t] = q[t] /\ q[t].pc = "idle")
    PROVE  QueryInv'
  BY CQLAssumption DEF QueryInv, MutexHeld, WireOwned, DialsLeft, OwnAnswer, Unasked

(* Every step of a query, of the server and of Close keeps the invariant.  *)
LEMMA QueryInvStep == QueryInv /\ [Next]_vars => QueryInv'
<1> SUFFICES ASSUME QueryInv, [Next]_vars PROVE QueryInv'
  OBVIOUS
<1> USE CQLAssumption
<1>0. /\ q \in [Callers -> Queries] /\ faults \in 0..MaxFaults /\ mu \in Callers \cup {Nobody}
      /\ conn \in {"nil", "open", "closed"}
  BY DEF QueryInv, TypeOK, Queries
<1>1. \A t \in Callers : q[t].pc # "idle" => mu = t
  BY DEF QueryInv, MutexHeld
<1>2. \A t \in Callers : q[t].pc # "idle" /\ q[t].pc # "await" => wire = NoWire
  BY DEF QueryInv, MutexHeld, WireOwned
<1>3. ASSUME NEW t \in Callers, Lock(t) PROVE QueryInv'
  <2> DEFINE r == [q[t] EXCEPT !.pc = "execute"]
  <2>1. r \in Queries /\ r.pc = "execute" /\ r.tries = q[t].tries /\ r.dials = q[t].dials
    BY <1>0 DEF Queries
  <2>2. q' = [q EXCEPT ![t] = r]
    BY <1>0, <1>3 DEF Lock
  <2>3. wire = NoWire
    BY <1>3 DEF Lock, QueryInv, MutexHeld, WireOwned
  <2>4. r.tries = 0 => r.dials = 0
    BY <2>1, <1>3 DEF Lock, QueryInv, DialsLeft
  <2> HIDE DEF r
  <2> QED BY <1>0, <1>3, <2>1, <2>2, <2>3, <2>4, HolderMoves DEF Lock
<1>4. ASSUME NEW t \in Callers, Send(t) PROVE QueryInv'
  <2> DEFINE r == [q[t] EXCEPT !.pc = "await"]
  <2>1. r \in Queries /\ r.pc = "await" /\ r.tries = q[t].tries /\ r.dials = q[t].dials
    BY <1>0 DEF Queries
  <2>2. q' = [q EXCEPT ![t] = r]
    BY <1>0, <1>4 DEF Send
  <2>3. wire' \in OnWire(t)
    BY <1>2, <1>4, OneOnWire DEF Send, NoWire, OnWire
  <2>4. r.tries = 0 => r.dials = 0
    BY <2>1, <1>4 DEF Send, QueryInv, DialsLeft
  <2> HIDE DEF r
  <2> QED BY <1>0, <1>1, <1>4, <2>1, <2>2, <2>3, <2>4, HolderMoves DEF Send
<1> DEFINE Fails(t) == /\ q[t].pc \in {"execute", "await"}
                       /\ wire' = NoWire /\ mu' = mu
                       /\ conn' \in {"nil", "open", "closed"} /\ faults' \in 0..MaxFaults
                       /\ Failed(t)
<1>6. ASSUME NEW t \in Callers, Fails(t) PROVE QueryInv'
  <2>1. mu = t /\ mu' = t /\ q[t] \in Queries
    BY <1>0, <1>1, <1>6
  <2>2. CASE q[t].tries = 0
    <3> DEFINE r == [pc |-> "reconnect", tries |-> 1, dials |-> q[t].dials, answer |-> q[t].answer]
    <3>1. r \in Queries /\ r.pc = "reconnect" /\ r.tries = 1 /\ r.dials = q[t].dials
      BY <2>1 DEF Queries
    <3>2. q' = [q EXCEPT ![t] = r]
      BY <1>0, <1>6, <2>2 DEF Failed, Queries
    <3>3. r.tries # 0 /\ r.dials < MaxDials
      BY <3>1, <1>6, <2>2 DEF QueryInv, DialsLeft
    <3> HIDE DEF r
    <3> QED BY <1>6, <2>1, <3>1, <3>2, <3>3, HolderMoves
  <2>3. CASE q[t].tries # 0
    <3> DEFINE e == [q[t] EXCEPT !.pc = "error"]
               r == [e EXCEPT !.tries = 1]
    <3>1. e \in Queries /\ e.pc = "error"
      BY <2>1 DEF Queries
    <3>2. q' = [q EXCEPT ![t] = r]
      BY <1>0, <1>6, <2>3 DEF Failed
    <3> HIDE DEF e
    <3>3. r \in Queries /\ r.pc = "error" /\ r.tries = 1 /\ r.tries # 0
      BY <3>1 DEF Queries
    <3> HIDE DEF r
    <3> QED BY <1>6, <2>1, <3>2, <3>3, HolderMoves
  <2> QED BY <2>2, <2>3
<1>7. \A t \in Callers : SendFails(t) \/ ReadFails(t) => Fails(t)
  BY <1>0 DEF SendFails, ReadFails, CloseConn, Fault
<1>8. ASSUME NEW t \in Callers, q[t].pc = "await", wire.replied # <<>>
      PROVE  wire.asked = <<>> /\ wire.replied = <<t>>
  BY <1>8 DEF QueryInv, WireOwned, OnWire
<1>9. ASSUME NEW t \in Callers, ReceiveError(t) PROVE Fails(t)
  <2>1. wire' = NoWire
    BY <1>8, <1>9, OneOnWire DEF ReceiveError, NoWire, QueryInv, TypeOK
  <2> QED BY <1>0, <1>9, <2>1 DEF ReceiveError, Fault
<1>10. ASSUME NEW t \in Callers, Receive(t) PROVE QueryInv'
  <2> DEFINE r == [q[t] EXCEPT !.pc = "rows", !.answer = t]
  <2>1. r \in Queries /\ r.pc = "rows" /\ r.tries = q[t].tries /\ r.dials = q[t].dials
        /\ r.answer = t
    BY <1>0 DEF Queries
  <2>2. wire' = NoWire /\ q' = [q EXCEPT ![t] = r]
    BY <1>0, <1>8, <1>10, OneOnWire DEF Receive, NoWire, QueryInv, TypeOK
  <2>3. r.tries = 0 => r.dials = 0
    BY <2>1, <1>10 DEF Receive, QueryInv, DialsLeft
  <2> HIDE DEF r
  <2> QED BY <1>0, <1>1, <1>10, <2>1, <2>2, <2>3, HolderMoves DEF Receive
<1>11. ASSUME NEW t \in Callers, Timeout(t) PROVE QueryInv'
  <2> DEFINE r == [q[t] EXCEPT !.pc = "error"]
  <2>1. r \in Queries /\ r.pc = "error" /\ r.tries = q[t].tries /\ r.dials = q[t].dials
    BY <1>0 DEF Queries
  <2>2. q' = [q EXCEPT ![t] = r]
    BY <1>0, <1>11 DEF Timeout
  <2>3. r.tries = 0 => r.dials = 0
    BY <2>1, <1>11 DEF Timeout, QueryInv, DialsLeft
  <2>4. /\ mu = t /\ mu' = t /\ wire' = NoWire
        /\ conn' = "nil" /\ faults' \in 0..MaxFaults
    BY <1>0, <1>1, <1>11 DEF Timeout, CloseConn, Fault
  <2> HIDE DEF r
  <2> QED BY <2>1, <2>2, <2>3, <2>4, HolderMoves
<1>12. ASSUME NEW t \in Callers, DialFails(t) PROVE QueryInv'
  <2>1. /\ q[t] \in Queries /\ q[t].dials < MaxDials /\ q[t].tries = 1
        /\ q[t].dials + 1 \in 0..MaxDials
    BY <1>0, <1>12 DEF DialFails, QueryInv, DialsLeft, Queries
  <2>2. /\ mu = t /\ mu' = t /\ wire' = NoWire
        /\ conn' = "nil" /\ faults' \in 0..MaxFaults
    BY <1>0, <1>1, <1>12 DEF DialFails, CloseConn, Fault
  <2>3. CASE q[t].dials + 1 = MaxDials
    <3> DEFINE r == [q[t] EXCEPT !.dials = q[t].dials + 1, !.pc = "error"]
    <3>1. r \in Queries /\ r.pc = "error" /\ r.tries = q[t].tries
      BY <2>1 DEF Queries
    <3>2. q' = [q EXCEPT ![t] = r]
      BY <1>0, <1>12, <2>3 DEF DialFails
    <3>3. r.tries # 0
      BY <2>1, <3>1
    <3> HIDE DEF r
    <3> QED BY <2>2, <3>1, <3>2, <3>3, HolderMoves
  <2>4. CASE q[t].dials + 1 # MaxDials
    <3> DEFINE r == [q[t] EXCEPT !.dials = q[t].dials + 1, !.pc = "reconnect"]
    <3>1. /\ r \in Queries /\ r.pc = "reconnect" /\ r.tries = q[t].tries
          /\ r.dials = q[t].dials + 1
      BY <2>1 DEF Queries
    <3>2. q' = [q EXCEPT ![t] = r]
      BY <1>0, <1>12, <2>4 DEF DialFails
    <3>3. r.tries = 1 /\ r.tries # 0
      BY <2>1, <3>1
    <3>4. r.dials < MaxDials
      BY <2>1, <2>4, <3>1 DEF Queries
    <3> HIDE DEF r
    <3> QED BY <2>2, <3>1, <3>2, <3>3, <3>4, HolderMoves
  <2> QED BY <2>3, <2>4
<1>13. ASSUME NEW t \in Callers, Dial(t) PROVE QueryInv'
  <2> DEFINE r == [q[t] EXCEPT !.pc = "execute"]
  <2>1. r \in Queries /\ r.pc = "execute" /\ r.tries = q[t].tries /\ r.dials = q[t].dials
    BY <1>0 DEF Queries
  <2>2. q' = [q EXCEPT ![t] = r]
    BY <1>0, <1>13 DEF Dial
  <2>3. r.tries = 1 /\ r.tries # 0
    BY <2>1, <1>13 DEF Dial, QueryInv, DialsLeft
  <2>4. /\ mu = t /\ mu' = t /\ wire' = NoWire
        /\ conn' = "open" /\ faults' \in 0..MaxFaults
    BY <1>0, <1>1, <1>13 DEF Dial
  <2> HIDE DEF r
  <2> QED BY <2>1, <2>2, <2>3, <2>4, HolderMoves
<1>14. ASSUME NEW t \in Callers, Returned(t) PROVE QueryInv'
  <2>1. wire = NoWire
    BY <1>2, <1>14 DEF Returned
  <2>2. /\ q' \in [Callers -> Queries] /\ q'[t] = Unasked
        /\ \A u \in Callers \ {t} : q'[u] = q[u] /\ q[u].pc = "idle"
    <3>1. Unasked \in Queries
      BY DEF Unasked, Queries
    <3>2. \A u \in Callers \ {t} : q[u].pc = "idle"
      BY <1>1, <1>14 DEF Returned
    <3> QED BY <1>0, <1>14, <3>1, <3>2 DEF Returned
  <2>3. TypeOK'
    BY <1>14, <2>1, <2>2 DEF Returned, QueryInv, TypeOK, Queries
  <2> QED BY <1>14, <2>1, <2>2, <2>3, NobodyInside DEF Returned
<1>15. ASSUME ServerAnswers PROVE QueryInv'
  <2>1. PICK t \in Callers : q[t].pc = "await"
    BY <1>15 DEF ServerAnswers, QueryInv, WireOwned, NoWire
  <2>2. wire = [asked |-> <<t>>, replied |-> <<>>]
    BY <1>15, <2>1 DEF ServerAnswers, QueryInv, WireOwned, OnWire
  <2>3. wire' = [asked |-> <<>>, replied |-> <<t>>]
    BY <1>15, <2>2, OneOnWire DEF ServerAnswers
  <2>4. q' = [q EXCEPT ![t] = q[t]] /\ q[t] \in Queries
    BY <1>0, <1>15 DEF ServerAnswers
  <2>5. conn = "open" /\ (q[t].tries = 0 => q[t].dials = 0)
    BY <2>1 DEF QueryInv, WireOwned, DialsLeft
  <2> QED BY <1>0, <1>1, <1>15, <2>1, <2>3, <2>4, <2>5, HolderMoves DEF ServerAnswers, OnWire
<1>16. ASSUME Close PROVE QueryInv'
  <2>1. \A t \in Callers : q[t].pc = "idle"
    BY <1>16 DEF Close, QueryInv, MutexHeld
  <2>2. TypeOK'
    BY <1>16 DEF Close, QueryInv, TypeOK, NoWire
  <2> QED BY <1>16, <2>1, <2>2 DEF Close, QueryInv, MutexHeld, WireOwned, DialsLeft, OwnAnswer
<1>17. CASE UNCHANGED vars
  BY <1>17 DEF vars, QueryInv, TypeOK, MutexHeld, WireOwned, DialsLeft, OwnAnswer
<1> QED
  BY <1>3, <1>4, <1>6, <1>7, <1>9, <1>10, <1>11, <1>12, <1>13, <1>14, <1>15, <1>16, <1>17
     DEF Next, QueryStep

(* The connection, the mutex and the calls keep their types.               *)
THEOREM QueryTypeCorrect == Spec => []TypeOK
<1>1. QueryInv => TypeOK
  BY DEF QueryInv
<1> QED BY QueryInvInit, QueryInvStep, <1>1, PTL DEF Spec

(* A query never returns the rows of another statement, although every     *)
(* frame carries the same stream number.                                   *)
THEOREM AnswersAreOwn == Spec => []OwnAnswer
<1>1. QueryInv => OwnAnswer
  BY DEF QueryInv
<1> QED BY QueryInvInit, QueryInvStep, <1>1, PTL DEF Spec

(* There is never more than one statement on the connection, and none      *)
(* between two queries.                                                    *)
THEOREM ConnectionIsClean == Spec => []WireIsClean
<1>1. QueryInv => WireIsClean
  <2> SUFFICES ASSUME QueryInv PROVE WireIsClean
    OBVIOUS
  <2>1. CASE \A t \in Callers : q[t].pc # "await"
    <3>1. wire = NoWire /\ wire.asked = <<>> /\ wire.replied = <<>>
      BY <2>1 DEF QueryInv, WireOwned, NoWire
    <3>2. Len(wire.asked) + Len(wire.replied) <= 1
      BY <3>1
    <3> QED BY <3>1, <3>2 DEF WireIsClean
  <2>2. CASE \E t \in Callers : q[t].pc = "await"
    <3>1. PICK t \in Callers : q[t].pc = "await"
      BY <2>2
    <3>2. wire \in OnWire(t) /\ mu = t
      BY <3>1 DEF QueryInv, WireOwned, MutexHeld
    <3>3. Len(wire.asked) + Len(wire.replied) <= 1
      <4>1. CASE wire = [asked |-> <<t>>, replied |-> <<>>]
        <5>1. wire.asked = <<t>> /\ wire.replied = <<>>
          BY <4>1
        <5> QED BY <5>1, OneOnWire
      <4>2. CASE wire = [asked |-> <<>>, replied |-> <<t>>]
        <5>1. wire.asked = <<>> /\ wire.replied = <<t>>
          BY <4>2
        <5> QED BY <5>1, OneOnWire
      <4> QED BY <3>2, <4>1, <4>2 DEF OnWire
    <3> QED BY <3>2, <3>3, CQLAssumption DEF WireIsClean
  <2> QED BY <2>1, <2>2
<1> QED BY QueryInvInit, QueryInvStep, <1>1, PTL DEF Spec
=============================================================================
