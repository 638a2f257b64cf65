---------------------------- MODULE Singleflight ----------------------------
(***************************************************************************)
(* filecache.Singleflight.Do (server/filecache/cache.go): concurrent calls *)
(* for one key share the execution of the first caller's function.         *)
(*                                                                         *)
(* flight[k] is the sfCall that the map m holds for k.  call[t] is where   *)
(* goroutine t stands inside Do: it leads a flight ("running" until fn     *)
(* returns, "finishing" between wg.Done and the deletion from the map), it *)
(* sleeps in c.wg.Wait ("waiting"), or Do has its result ("returned").     *)
(* What fn does is left to the modules that extend this one.               *)
(***************************************************************************)
CONSTANTS Threads, Keys,
          Results,      \* the (val, err) pairs fn can return
          None,         \* no flight, no key, no result, no thread
          PanicKeys     \* the keys whose fn may panic (the HTTP server recovers it)

ASSUME SingleflightAssumption ==
    /\ None \notin Keys \cup Results \cup Threads
    /\ None \notin [done : BOOLEAN, val : Results \cup {None}]
    /\ PanicKeys \subseteq Keys

VARIABLES flight, call

sfVars == <<flight, call>>

Flights == [done : BOOLEAN, val : Results \cup {None}]

PCs == {"idle", "running", "waiting", "finishing", "returned"}

Idle == [pc |-> "idle", key |-> None, val |-> None]

SFInit ==
    /\ flight = [k \in Keys |-> None]
    /\ call = [t \in Threads |-> Idle]

(* Mutant of Lead: the map is not looked at under the lock.                *)
BugLead(t, k) ==
    /\ call[t].pc = "idle"
    /\ flight' = [flight EXCEPT ![k] = [done |-> FALSE, val |-> None]]
    /\ call' = [call EXCEPT ![t] = [pc |-> "running", key |-> k, val |-> None]]

(* m has no entry for the key: register a call and run fn.                 *)
Lead(t, k) ==
    /\ call[t].pc = "idle"
    /\ flight[k] = None
    /\ flight' = [flight EXCEPT ![k] = [done |-> FALSE, val |-> None]]
    /\ call' = [call EXCEPT ![t] = [pc |-> "running", key |-> k, val |-> None]]

(* m has an entry: wait for it, or take its result if wg.Done already ran. *)
Join(t, k) ==
    /\ call[t].pc = "idle"
    /\ flight[k] # None
    /\ call' = [call EXCEPT ![t] =
                  [pc  |-> IF flight[k].done THEN "returned" ELSE "waiting",
                   key |-> k,
                   val |-> flight[k].val]]
    /\ UNCHANGED flight

(* Mutant of Finish: wg.Done is forgotten, the waiters stay asleep.        *)
BugFinish(t, r) ==
    /\ call[t].pc = "running"
    /\ flight' = [flight EXCEPT ![call[t].key] = [done |-> TRUE, val |-> r]]
    /\ call' = [call EXCEPT ![t].pc = "finishing", ![t].val = r]

(* fn returned r: store it in the call and release every waiter.           *)
Finish(t, r) ==
    /\ call[t].pc = "running"
    /\ flight' = [flight EXCEPT ![call[t].key] = [done |-> TRUE, val |-> r]]
    /\ call' = [u \in Threads |->
                  CASE u = t -> [call[t] EXCEPT !.pc = "finishing", !.val = r]
                    [] u # t /\ call[u].pc = "waiting" /\ call[u].key = call[t].key
                         -> [call[u] EXCEPT !.pc = "returned", !.val = r]
                    [] OTHER -> call[u]]

(* Mutant of Unregister: the key stays in m.                               *)
BugUnregister(t) ==
    /\ call[t].pc = "finishing"
    /\ call' = [call EXCEPT ![t].pc = "returned"]
    /\ UNCHANGED flight

(* The leader deletes the key from m and returns.                          *)
Unregister(t) ==
    /\ call[t].pc = "finishing"
    /\ flight' = [flight EXCEPT ![call[t].key] = None]
    /\ call' = [call EXCEPT ![t].pc = "returned"]

(* The caller of Do has consumed the result.                               *)
Return(t) ==
    /\ call[t].pc = "returned"
    /\ call' = [call EXCEPT ![t] = Idle]
    /\ UNCHANGED flight

(* fn panics: the stack unwinds past wg.Done and the deletion (neither is  *)
(* deferred), and net/http recovers the goroutine.                         *)
Panic(t) ==
    /\ call[t].pc = "running"
    /\ call[t].key \in PanicKeys
    /\ call' = [call EXCEPT ![t] = Idle]
    /\ UNCHANGED flight

SFNext ==
    \E t \in Threads :
        \/ \E k \in Keys : Lead(t, k) \/ Join(t, k)
        \/ \E r \in Results : Finish(t, r)
        \/ Unregister(t)
        \/ Return(t)
        \/ Panic(t)

SFSpec == SFInit /\ [][SFNext]_sfVars
-----------------------------------------------------------------------------
(* The variables have the types of the Go struct.                          *)
SFTypeOK ==
    /\ flight \in [Keys -> Flights \cup {None}]
    /\ call \in [Threads -> [pc : PCs, key : Keys \cup {None},
                             val : Results \cup {None}]]

Runs(t, k) == call[t].pc = "running" /\ call[t].key = k

(* At most one goroutine executes fn for a key: Cassandra sees one fetch   *)
(* per blob however many requests want it (the purpose of Do).             *)
OneRunnerPerKey ==
    \A k \in Keys : \A t, u \in Threads : Runs(t, k) /\ Runs(u, k) => t = u

(* No wakeup is lost: whoever sleeps in c.wg.Wait has a leader that is     *)
(* still running fn for that key and will call wg.Done, unless fn of that  *)
(* key panicked.                                                           *)
WaiterHasRunner ==
    \A t \in Threads :
        call[t].pc = "waiting" /\ call[t].key \notin PanicKeys =>
            \E u \in Threads : Runs(u, call[t].key)

(* A caller that joins gets the result of the flight it joined, and the    *)
(* map's entry always belongs to a leader that has not returned yet, so a  *)
(* finished call cannot be joined for ever.                                *)
FlightHasLeader ==
    \A k \in Keys \ PanicKeys :
        flight[k] # None =>
            \E t \in Threads :
                /\ call[t].key = k
                /\ call[t].pc = IF flight[k].done THEN "finishing" ELSE "running"
                /\ call[t].val = flight[k].val
-----------------------------------------------------------------------------
Holder(k) == IF \E t \in Threads : Runs(t, k)
             THEN CHOOSE t \in Threads : Runs(t, k)
             ELSE None

(* Do is a mutual exclusion over each key while fn runs.                   *)
Mutex == INSTANCE KeyedMutex
            WITH NoThread <- None, holder <- [k \in Keys |-> Holder(k)]

ImplementsMutex == Mutex!Spec
=============================================================================
