---------------------------- MODULE PrefetchProofs ----------------------------
(***************************************************************************)
(* Proofs about the prefetch handler: its state keeps its types and the    *)
(* queue its bound, no job starts over one of a later generation, and the  *)
(* shutdown closes nothing under a worker, for any sets of workers,        *)
(* handlers, keys and scopes and any queue.                                *)
(***************************************************************************)
EXTENDS Prefetch, TLAPS

(* A request that is being handled has a generation of its own, and an     *)
(* item while one is looked at; a worker that is busy has a job.           *)
HandlerBusy ==
    \A c \in Handlers :
        /\ handler[c].pc # "idle" => handler[c].gen \in Gens
        /\ handler[c].pc \in {"forget", "has", "enqueue"} => handler[c].items # <<>>

WorkerBusy ==
    \A w \in Workers : worker[w].pc \notin {"idle", "stopped"} => worker[w].job \in Jobs

TInv == TypeOK /\ HandlerBusy /\ WorkerBusy

(* Whatever is under way was registered: no request, queued job or job of  *)
(* a worker is of a later generation than its scope's latest.              *)
Registered(scope, gen) == scope # NoScope => gen <= scopeGens[scope]

GensRegistered ==
    /\ \A c \in Handlers : handler[c].pc # "idle" => Registered(handler[c].scope, handler[c].gen)
    /\ \A i \in 1..Len(queue) : Registered(queue[i].scope, queue[i].gen)
    /\ \A w \in Workers : worker[w].pc \notin {"idle", "stopped"} =>
          Registered(worker[w].job.scope, worker[w].job.gen)

-----------------------------------------------------------------------------
(* Types                                                                   *)

LEMMA InitTyped == Init => TInv
BY PrefetchAssumption DEF Init, TInv, TypeOK, HandlerBusy, WorkerBusy, IdleHandler, IdleWorker, AllScopes, Jobs,
   Deferred

(* A payload is a sequence of keys, an item one of them.                   *)
LEMMA PayloadIsSeq == ASSUME NEW items \in Payloads PROVE items \in Seq(Keys)
BY PrefetchAssumption DEF Payloads

LEMMA ItemTyped ==
    ASSUME TypeOK, NEW c \in Handlers, handler[c].items # <<>>
    PROVE  Item(c) \in Keys /\ Tail(handler[c].items) \in Seq(Keys)
BY DEF TypeOK, Item

LEMMA HeadTyped ==
    ASSUME TypeOK, queue # <<>>
    PROVE  /\ Head(queue) \in Jobs /\ Head(queue) = queue[1] /\ Tail(queue) \in Seq(Jobs)
           /\ Len(Tail(queue)) = Len(queue) - 1
           /\ \A i \in 1..Len(Tail(queue)) : Tail(queue)[i] = queue[i + 1] /\ i + 1 \in 1..Len(queue)
BY DEF TypeOK

Requests == [pc : {"idle", "item", "forget", "has", "enqueue"}, scope : AllScopes, gen : Nat, items : Seq(Keys)]
WorkerStates == [pc : {"idle", "check", "negative", "forget", "has", "warming", "asleep", "stopped"}, job : Jobs \cup {None}]

(* A handler, or a worker, moves and the rest of the state keeps its types. *)
LEMMA HandlerMoves ==
    ASSUME TInv, NEW c \in Handlers, NEW r \in Requests, handler' = [handler EXCEPT ![c] = r],
           r.pc # "idle" => r.gen \in Gens,
           r.pc \in {"forget", "has", "enqueue"} => r.items # <<>>,
           UNCHANGED <<cached, abandoned, worker, closing, unwound>>,
           scopeGens' \in [AllScopes -> Nat], negCache' \in [Keys -> {"absent", "live", "stale"}],
           queue' \in Seq(Jobs), Len(queue') <= QueueSize, requests' \in 0..MaxRequests
    PROVE  TInv'
<1>1. handler' \in [Handlers -> Requests] /\ \A d \in Handlers : handler'[d] = IF d = c THEN r ELSE handler[d]
  BY DEF TInv, TypeOK, Requests
<1>2. TypeOK'
  BY <1>1 DEF TInv, TypeOK, Requests
<1>3. HandlerBusy' /\ WorkerBusy'
  BY <1>1 DEF TInv, HandlerBusy, WorkerBusy
<1> QED
  BY <1>2, <1>3 DEF TInv

LEMMA WorkerMoves ==
    ASSUME TInv, NEW w \in Workers, NEW r \in WorkerStates, worker' = [worker EXCEPT ![w] = r],
           r.pc \notin {"idle", "stopped"} => r.job \in Jobs,
           UNCHANGED <<scopeGens, abandoned, handler, closing, unwound, requests>>,
           negCache' \in [Keys -> {"absent", "live", "stale"}], cached' \subseteq Keys,
           queue' \in Seq(Jobs), Len(queue') <= QueueSize
    PROVE  TInv'
<1>1. worker' \in [Workers -> WorkerStates] /\ \A v \in Workers : worker'[v] = IF v = w THEN r ELSE worker[v]
  BY DEF TInv, TypeOK, WorkerStates
<1>2. TypeOK'
  BY <1>1 DEF TInv, TypeOK, WorkerStates
<1>3. HandlerBusy' /\ WorkerBusy'
  BY <1>1 DEF TInv, HandlerBusy, WorkerBusy
<1> QED
  BY <1>2, <1>3 DEF TInv

(* What the steps do to a handler and to a worker: the place they go to,   *)
(* the rest of the request or the job.                                     *)
LEMMA HandlerGoes ==
    ASSUME TypeOK, NEW c \in Handlers, NEW pc \in {"item", "forget", "has", "enqueue"}
    PROVE  /\ [handler[c] EXCEPT !.pc = pc] \in Requests
           /\ HandlerGoto(c, pc) => handler' = [handler EXCEPT ![c] = [handler[c] EXCEPT !.pc = pc]]
           /\ handler[c].items # <<>> =>
                [handler[c] EXCEPT !.pc = "item", !.items = Tail(@)] \in Requests
           /\ NextItem(c) => handler' = [handler EXCEPT ![c] = [handler[c] EXCEPT !.pc = "item", !.items = Tail(@)]]
<1>1. handler[c] \in Requests
  BY DEF TypeOK, Requests
<1>2. [handler[c] EXCEPT !.pc = pc] \in Requests
  BY <1>1 DEF Requests
<1>3. HandlerGoto(c, pc) => handler' = [handler EXCEPT ![c] = [handler[c] EXCEPT !.pc = pc]]
  BY DEF HandlerGoto
<1>4. ASSUME handler[c].items # <<>> PROVE [handler[c] EXCEPT !.pc = "item", !.items = Tail(@)] \in Requests
  <2>1. Tail(handler[c].items) \in Seq(Keys)
    BY <1>4, ItemTyped
  <2> QED BY <1>1, <2>1 DEF Requests
<1>5. NextItem(c) => handler' = [handler EXCEPT ![c] = [handler[c] EXCEPT !.pc = "item", !.items = Tail(@)]]
  BY DEF NextItem
<1> QED BY <1>2, <1>3, <1>4, <1>5

LEMMA WorkerGoes ==
    ASSUME TypeOK, NEW w \in Workers, NEW pc \in {"negative", "forget", "has", "warming", "asleep", "stopped"}
    PROVE  /\ [worker[w] EXCEPT !.pc = pc] \in WorkerStates /\ IdleWorker \in WorkerStates
           /\ WorkerGoto(w, pc) => worker' = [worker EXCEPT ![w] = [worker[w] EXCEPT !.pc = pc]]
           /\ JobDone(w) => worker' = [worker EXCEPT ![w] = IdleWorker]
<1>1. worker[w] \in WorkerStates
  BY DEF TypeOK, WorkerStates
<1>2. [worker[w] EXCEPT !.pc = pc] \in WorkerStates
  BY <1>1 DEF WorkerStates
<1>3. IdleWorker \in WorkerStates
  BY DEF WorkerStates, IdleWorker
<1>4. WorkerGoto(w, pc) => worker' = [worker EXCEPT ![w] = [worker[w] EXCEPT !.pc = pc]]
  BY DEF WorkerGoto
<1>5. JobDone(w) => worker' = [worker EXCEPT ![w] = IdleWorker]
  BY DEF JobDone
<1> QED BY <1>2, <1>3, <1>4, <1>5

LEMMA HandlerStepTyped ==
    ASSUME TInv, NEW c \in Handlers, HandlerStep(c)
    PROVE  TInv'
<1>0. /\ TypeOK /\ handler[c] \in Requests
      /\ handler[c].pc # "idle" => handler[c].gen \in Gens
      /\ handler[c].pc \in {"forget", "has", "enqueue"} => handler[c].items # <<>>
  BY DEF TInv, TypeOK, HandlerBusy, Requests
<1>a. ASSUME NEW pc \in {"item", "forget", "has", "enqueue"}, handler[c].pc # "idle", HandlerGoto(c, pc),
             handler[c].items # <<>>, UNCHANGED <<scopeGens, cached, abandoned, queue, worker, closing, unwound, requests>>,
             negCache' \in [Keys -> {"absent", "live", "stale"}]
      PROVE  TInv'
  <2> DEFINE r == [handler[c] EXCEPT !.pc = pc]
  <2>1. r \in Requests /\ handler' = [handler EXCEPT ![c] = r]
    BY <1>0, <1>a, HandlerGoes
  <2>2. r.gen \in Gens /\ r.items # <<>>
    BY <1>0, <1>a DEF Requests
  <2> HIDE DEF r
  <2> QED
    BY <1>0, <1>a, <2>1, <2>2, HandlerMoves DEF TypeOK
<1>b. ASSUME handler[c].pc # "idle", NextItem(c), handler[c].items # <<>>,
             UNCHANGED <<scopeGens, negCache, cached, abandoned, worker, closing, unwound, requests>>,
             queue' \in Seq(Jobs), Len(queue') <= QueueSize
      PROVE  TInv'
  <2> DEFINE r == [handler[c] EXCEPT !.pc = "item", !.items = Tail(@)]
  <2>1. r \in Requests /\ handler' = [handler EXCEPT ![c] = r]
    BY <1>0, <1>b, HandlerGoes
  <2>2. r.gen \in Gens /\ r.pc = "item"
    BY <1>0, <1>b DEF Requests
  <2> HIDE DEF r
  <2> QED
    BY <1>0, <1>b, <2>1, <2>2, HandlerMoves DEF TypeOK
<1>1. CASE ItemNegative(c)
  BY <1>0, <1>1, <1>a, <1>b DEF ItemNegative, TypeOK
<1>2. CASE ItemForget(c)
  <2>1. negCache' \in [Keys -> {"absent", "live", "stale"}]
    BY <1>0, <1>2 DEF ItemForget, TypeOK
  <2> QED
    BY <1>0, <1>2, <2>1, <1>a DEF ItemForget
<1>3. CASE ItemHas(c)
  BY <1>0, <1>3, <1>a, <1>b DEF ItemHas, TypeOK
<1>4. CASE ItemEnqueue(c)
  <2>1. [scope |-> handler[c].scope, gen |-> handler[c].gen, key |-> Item(c)] \in Jobs
    BY <1>0, <1>4, ItemTyped DEF ItemEnqueue, Requests, Jobs
  <2>2. queue' \in Seq(Jobs) /\ Len(queue') <= QueueSize
    BY <1>0, <1>4, <2>1, PrefetchAssumption DEF ItemEnqueue, TypeOK
  <2> QED
    BY <1>0, <1>4, <2>2, <1>b DEF ItemEnqueue
<1>5. CASE Respond(c)
  <2>1. IdleHandler \in Requests /\ IdleHandler.pc = "idle"
    BY DEF IdleHandler, Requests, AllScopes
  <2> QED
    BY <1>0, <1>5, <2>1, HandlerMoves DEF Respond, TypeOK
<1> QED
  BY <1>1, <1>2, <1>3, <1>4, <1>5 DEF HandlerStep

LEMMA WorkerStepTyped ==
    ASSUME TInv, NEW w \in Workers, WorkerStep(w)
    PROVE  TInv'
<1>0. /\ TypeOK /\ worker[w] \in WorkerStates
      /\ worker[w].pc \notin {"idle", "stopped"} => worker[w].job \in Jobs
  BY DEF TInv, TypeOK, WorkerBusy, WorkerStates
<1>a. ASSUME NEW pc \in {"negative", "forget", "has", "warming", "asleep", "stopped"}, WorkerGoto(w, pc),
             pc = "stopped" \/ worker[w].pc \notin {"idle", "stopped"},
             UNCHANGED <<scopeGens, cached, abandoned, queue, handler, closing, unwound, requests>>,
             negCache' \in [Keys -> {"absent", "live", "stale"}]
      PROVE  TInv'
  <2> DEFINE r == [worker[w] EXCEPT !.pc = pc]
  <2>1. r \in WorkerStates /\ worker' = [worker EXCEPT ![w] = r]
    BY <1>0, <1>a, WorkerGoes
  <2>2. r.pc = pc /\ r.job = worker[w].job
    BY <1>0 DEF WorkerStates
  <2> HIDE DEF r
  <2> QED
    BY <1>0, <1>a, <2>1, <2>2, WorkerMoves DEF TypeOK
<1>b. ASSUME JobDone(w), UNCHANGED <<scopeGens, abandoned, queue, handler, closing, unwound, requests>>,
             negCache' \in [Keys -> {"absent", "live", "stale"}], cached' \subseteq Keys
      PROVE  TInv'
  <2>1. IdleWorker.pc = "idle"
    BY DEF IdleWorker
  <2> QED
    BY <1>0, <1>b, <2>1, WorkerGoes, WorkerMoves DEF TypeOK
<1>1. CASE Dequeue(w)
  <2> DEFINE r == [pc |-> "check", job |-> Head(queue)]
  <2>1. r \in WorkerStates /\ r.job \in Jobs
    BY <1>0, <1>1, HeadTyped DEF Dequeue, WorkerStates
  <2>2. queue' \in Seq(Jobs) /\ Len(queue') <= QueueSize
    BY <1>0, <1>1, HeadTyped, PrefetchAssumption DEF Dequeue, TypeOK
  <2> QED
    BY <1>0, <1>1, <2>1, <2>2, WorkerMoves DEF Dequeue, TypeOK
<1>2. CASE Stop(w)
  BY <1>0, <1>2, <1>a DEF Stop, TypeOK
<1>3. CASE DropSuperseded(w)
  BY <1>0, <1>3, <1>b DEF DropSuperseded, TypeOK
<1>4. CASE Start(w)
  BY <1>0, <1>4, <1>a DEF Start, TypeOK
<1>5. CASE JobNegative(w)
  BY <1>0, <1>5, <1>a, <1>b DEF JobNegative, TypeOK
<1>6. CASE JobForget(w)
  <2>1. negCache' \in [Keys -> {"absent", "live", "stale"}]
    BY <1>0, <1>6 DEF JobForget, TypeOK
  <2> QED
    BY <1>0, <1>6, <2>1, <1>a DEF JobForget
<1>7. CASE JobHas(w)
  BY <1>0, <1>7, <1>a, <1>b DEF JobHas, TypeOK
<1>8. CASE WarmOk(w)
  <2>1. cached' \subseteq Keys
    BY <1>0, <1>8 DEF WarmOk, TypeOK, Jobs
  <2> QED
    BY <1>0, <1>8, <2>1, <1>b DEF WarmOk, TypeOK
<1>9. CASE WarmFails(w)
  <2>1. negCache' \in [Keys -> {"absent", "live", "stale"}]
    BY <1>0, <1>9 DEF WarmFails, TypeOK
  <2> QED
    BY <1>0, <1>9, <2>1, <1>b DEF WarmFails, TypeOK
<1>10. CASE WarmSleeps(w)
  BY <1>0, <1>10, <1>a DEF WarmSleeps, TypeOK
<1> QED
  BY <1>1, <1>2, <1>3, <1>4, <1>5, <1>6, <1>7, <1>8, <1>9, <1>10 DEF WorkerStep

LEMMA NextTyped == TInv /\ [Next]_vars => TInv'
<1> SUFFICES ASSUME TInv, [Next]_vars PROVE TInv'
  OBVIOUS
<1> USE DEF TInv
<1>1. CASE \E c \in Handlers, s \in AllScopes, g \in Gens, items \in Payloads : Receive(c, s, g, items)
  <2> PICK c \in Handlers, s \in AllScopes, g \in Gens, items \in Payloads : Receive(c, s, g, items)
    BY <1>1
  <2> DEFINE r == [pc |-> "item", scope |-> s, gen |-> g, items |-> items]
  <2>1. r \in Requests /\ r.pc = "item" /\ r.gen \in Gens
    BY PayloadIsSeq, PrefetchAssumption DEF Requests
  <2>2. scopeGens' \in [AllScopes -> Nat] /\ requests' \in 0..MaxRequests
    BY PrefetchAssumption DEF Receive, TypeOK
  <2> QED
    BY <2>1, <2>2, HandlerMoves DEF Receive, TypeOK
<1>2. CASE \E c \in Handlers : HandlerStep(c)
  BY <1>2, HandlerStepTyped
<1>3. CASE \E w \in Workers : WorkerStep(w)
  BY <1>3, WorkerStepTyped
<1>4. CASE Leave \/ StopWorkers \/ WorkersGone \/ ClosePart
  <2>1. Len(Deferred) = 3
    BY DEF Deferred
  <2>2. closing' \in {"open", "leaving", "stopping"} /\ unwound' \in 0..Len(Deferred)
    BY <1>4, <2>1 DEF Leave, StopWorkers, WorkersGone, ClosePart, NextDeferred, TypeOK
  <2> QED
    BY <1>4, <2>2 DEF Leave, StopWorkers, WorkersGone, ClosePart, TypeOK, HandlerBusy, WorkerBusy
<1>5. CASE \E k \in Keys : NegativeExpires(k) \/ CacheChanges(k) \/ FlightAbandoned(k)
  BY <1>5 DEF NegativeExpires, CacheChanges, FlightAbandoned, TypeOK, HandlerBusy, WorkerBusy
<1>6. CASE UNCHANGED vars
  BY <1>6 DEF vars, TypeOK, HandlerBusy, WorkerBusy
<1> QED
  BY <1>1, <1>2, <1>3, <1>4, <1>5, <1>6 DEF Next

(* The handler, the queue and the workers keep their types, and the queue  *)
(* never holds more than QueueSize jobs (prefetch_handler.go, NewPrefetch). *)
THEOREM TypeCorrect == Spec => []TypeOK
<1>1. TInv => TypeOK
  BY DEF TInv
<1> QED
  BY InitTyped, NextTyped, <1>1, PTL DEF Spec

-----------------------------------------------------------------------------
(* The shutdown                                                            *)

(* A worker that has left its loop takes no step any more.                 *)
LEMMA StoppedStays ==
    ASSUME [Next]_vars, NEW w \in Workers, TypeOK, worker[w].pc = "stopped"
    PROVE  worker'[w].pc = "stopped"
<1>1. CASE \E v \in Workers : WorkerStep(v)
  <2> PICK v \in Workers : WorkerStep(v)
    BY <1>1
  <2>1. v # w
    BY DEF WorkerStep, Dequeue, Stop, DropSuperseded, Start, JobNegative, JobForget, JobHas, WarmOk, WarmFails, WarmSleeps
  <2>2. worker'[w] = worker[w]
    BY <2>1 DEF WorkerStep, Dequeue, Stop, DropSuperseded, Start, JobNegative, JobForget, JobHas,
                WarmOk, WarmFails, WarmSleeps, WorkerGoto, JobDone, TypeOK
  <2> QED
    BY <2>2
<1>2. CASE UNCHANGED worker
  BY <1>2
<1>3. [Next]_vars /\ ~(\E v \in Workers : WorkerStep(v)) => UNCHANGED worker
  BY DEF Next, vars, Receive, HandlerStep, ItemNegative, ItemForget, ItemHas, ItemEnqueue, Respond,
         Leave, StopWorkers, WorkersGone, ClosePart, NegativeExpires, CacheChanges, FlightAbandoned
<1> QED
  BY <1>1, <1>2, <1>3

(* The deferred calls run from the last to the first, and only the last    *)
(* waits: once it has returned no worker is left.                          *)
ShutdownInv == unwound > 0 => \A w \in Workers : worker[w].pc = "stopped"

LEMMA NothingClosed == unwound = 0 => {"cache", "client"} \subseteq OpenParts
<1> SUFFICES ASSUME unwound = 0 PROVE {"cache", "client"} \subseteq OpenParts
  OBVIOUS
<1>1. Len(Deferred) = 3 /\ Deferred[1] = "client" /\ Deferred[2] = "cache"
  BY DEF Deferred
<1>2. 1 \in 1..(Len(Deferred) - unwound) /\ 2 \in 1..(Len(Deferred) - unwound)
  BY <1>1
<1> QED
  BY <1>1, <1>2 DEF OpenParts

LEMMA ShutdownStep == TInv /\ ShutdownInv /\ [Next]_vars => ShutdownInv'
<1> SUFFICES ASSUME TInv, ShutdownInv, [Next]_vars, unwound' > 0, NEW w \in Workers
             PROVE  worker'[w].pc = "stopped"
  BY DEF ShutdownInv
<1>0. TypeOK /\ unwound \in Nat
  BY DEF TInv, TypeOK
<1>1. CASE unwound > 0
  BY <1>0, <1>1, StoppedStays DEF ShutdownInv
<1>2. CASE unwound = 0
  <2>0. [Next]_vars /\ ~ WorkersGone /\ ~ ClosePart => UNCHANGED unwound
    BY ONLY DEF Next, vars, Receive, HandlerStep, ItemNegative, ItemForget, ItemHas, ItemEnqueue, Respond,
       WorkerStep, Dequeue, Stop, DropSuperseded, Start, JobNegative, JobForget, JobHas, WarmOk, WarmFails,
       WarmSleeps, Leave, StopWorkers, NegativeExpires, CacheChanges, FlightAbandoned
  <2>1. WorkersGone \/ ClosePart
    BY <1>2, <2>0
  <2>2. Len(Deferred) = 3 /\ Deferred[3] = "prefetch"
    BY DEF Deferred
  <2>3. ~ ClosePart
    BY <1>2, <2>2 DEF ClosePart, NextDeferred
  <2>4. worker[w].pc = "stopped"
    BY <2>1, <2>3 DEF WorkersGone
  <2> QED
    BY <1>0, <2>4, StoppedStays
<1> QED
  BY <1>0, <1>1, <1>2

(* A worker in its loop has the file cache and the Cassandra client open   *)
(* under it, whatever the order of jobs, panics and the shutdown (main.go: *)
(* prefetchH.Close is deferred last, so it runs, and waits, first).        *)
THEOREM PartsOutlive == Spec => []PartsOutliveWorkers
<1>1. Init => ShutdownInv
  <2> SUFFICES ASSUME Init PROVE ShutdownInv
    OBVIOUS
  <2>1. unwound = 0
    BY DEF Init
  <2> QED
    BY ONLY <2>1 DEF ShutdownInv
<1>2. TInv /\ ShutdownInv => PartsOutliveWorkers
  <2> SUFFICES ASSUME TInv, ShutdownInv, NEW w \in Workers, worker[w].pc # "stopped"
               PROVE  {"cache", "client"} \subseteq OpenParts
    BY DEF PartsOutliveWorkers
  <2>1. unwound \in Nat
    BY DEF TInv, TypeOK
  <2>2. unwound = 0
    BY <2>1 DEF ShutdownInv
  <2> QED
    BY <2>2, NothingClosed
<1> QED
  BY InitTyped, NextTyped, ShutdownStep, <1>1, <1>2, PTL DEF Spec

-----------------------------------------------------------------------------
(* Generations                                                             *)

(* Generations of a scope only grow, so what was registered stays so.      *)
LEMMA GensGrow ==
    ASSUME TInv, [Next]_vars, NEW s \in AllScopes
    PROVE  scopeGens[s] \in Nat /\ scopeGens'[s] \in Nat /\ scopeGens[s] <= scopeGens'[s]
<1>1. scopeGens \in [AllScopes -> Nat] /\ scopeGens' \in [AllScopes -> Nat]
  BY NextTyped DEF TInv, TypeOK
<1>2. CASE \E c \in Handlers, t \in AllScopes, g \in Gens, items \in Payloads : Receive(c, t, g, items)
  BY <1>1, <1>2, PrefetchAssumption DEF Receive
<1>3. CASE UNCHANGED scopeGens
  BY <1>1, <1>3
<1> QED
  BY <1>2, <1>3 DEF Next, vars, HandlerStep, ItemNegative, ItemForget, ItemHas, ItemEnqueue, Respond,
     WorkerStep, Dequeue, Stop, DropSuperseded, Start, JobNegative, JobForget, JobHas, WarmOk, WarmFails, WarmSleeps,
     Leave, StopWorkers, WorkersGone, ClosePart, NegativeExpires, CacheChanges, FlightAbandoned

LEMMA StaysRegistered ==
    ASSUME TInv, [Next]_vars, NEW s \in AllScopes, NEW g \in Nat, Registered(s, g)
    PROVE  s # NoScope => g <= scopeGens'[s]
BY GensGrow DEF Registered

(* Where a handler's generation, a queued job and a worker's job come from: *)
(* they were there before, or from a request, a handler, the queue.         *)
LEMMA HandlersRegistered ==
    ASSUME TInv, GensRegistered, [Next]_vars, NEW c \in Handlers, handler'[c].pc # "idle"
    PROVE  handler'[c].scope # NoScope => handler'[c].gen <= scopeGens'[handler'[c].scope]
<1>0. /\ handler \in [Handlers -> Requests] /\ scopeGens \in [AllScopes -> Nat]
      /\ scopeGens' \in [AllScopes -> Nat]
  BY NextTyped DEF TInv, TypeOK, Requests
<1>1. CASE \E d \in Handlers, s \in AllScopes, g \in Gens, items \in Payloads : Receive(d, s, g, items)
  <2> PICK d \in Handlers, s \in AllScopes, g \in Gens, items \in Payloads : Receive(d, s, g, items)
    BY <1>1
  <2>1. CASE c = d
    BY <1>0, <2>1, PrefetchAssumption DEF Receive, Registered
  <2>2. CASE c # d
    <3>1. handler'[c] = handler[c]
      BY <1>0, <2>2 DEF Receive
    <3> QED
      BY <1>0, <3>1, StaysRegistered DEF GensRegistered, Requests
  <2> QED
    BY <2>1, <2>2
<1>2. CASE \E d \in Handlers : HandlerStep(d)
  <2> PICK d \in Handlers : HandlerStep(d)
    BY <1>2
  <2>1. handler[c].pc # "idle" /\ handler'[c].scope = handler[c].scope /\ handler'[c].gen = handler[c].gen
    <3>1. CASE Respond(d)
      BY <1>0, <3>1 DEF Respond, IdleHandler, Requests
    <3>2. CASE handler[d].pc # "idle" /\ (NextItem(d) \/ \E pc \in {"forget", "has", "enqueue"} : HandlerGoto(d, pc))
      <4>1. CASE c = d
        BY <1>0, <3>2, <4>1 DEF NextItem, HandlerGoto, Requests
      <4>2. CASE c # d
        BY <1>0, <3>2, <4>2 DEF NextItem, HandlerGoto
      <4> QED
        BY <4>1, <4>2
    <3>3. CASE ItemNegative(d) \/ ItemForget(d) \/ ItemHas(d) \/ ItemEnqueue(d)
      BY <3>2, <3>3 DEF ItemNegative, ItemForget, ItemHas, ItemEnqueue
    <3> QED
      BY <3>1, <3>3 DEF HandlerStep
  <2> QED
    BY <1>0, <2>1, StaysRegistered DEF GensRegistered, Requests
<1>3. CASE UNCHANGED handler
  BY <1>0, <1>3, StaysRegistered DEF GensRegistered, Requests
<1> QED
  BY <1>1, <1>2, <1>3 DEF Next, vars, WorkerStep, Dequeue, Stop, DropSuperseded, Start, JobNegative, JobForget, JobHas,
     WarmOk, WarmFails, WarmSleeps, Leave, StopWorkers, WorkersGone, ClosePart,
     NegativeExpires, CacheChanges, FlightAbandoned

LEMMA QueueRegistered ==
    ASSUME TInv, GensRegistered, [Next]_vars, NEW i \in 1..Len(queue')
    PROVE  queue'[i].scope # NoScope => queue'[i].gen <= scopeGens'[queue'[i].scope]
<1>0. /\ handler \in [Handlers -> Requests] /\ queue \in Seq(Jobs) /\ TypeOK
      /\ \A j \in 1..Len(queue) : queue[j].scope \in AllScopes /\ queue[j].gen \in Nat
  <2>1. /\ handler \in [Handlers -> Requests] /\ queue \in Seq(Jobs) /\ TypeOK
    BY DEF TInv, TypeOK, Requests
  <2>2. \A j \in Jobs : j.scope \in AllScopes /\ j.gen \in Nat
    BY PrefetchAssumption DEF Jobs
  <2> QED
    BY <2>1, <2>2
<1>1. CASE \E c \in Handlers : ItemEnqueue(c)
  <2> PICK c \in Handlers : ItemEnqueue(c)
    BY <1>1
  <2>1. CASE i \in 1..Len(queue)
    <3>1. queue'[i] = queue[i]
      BY <1>0, <2>1 DEF ItemEnqueue
    <3> QED
      BY <1>0, <2>1, <3>1, StaysRegistered DEF GensRegistered
  <2>2. CASE i \notin 1..Len(queue)
    <3>1. queue'[i].scope = handler[c].scope /\ queue'[i].gen = handler[c].gen /\ handler[c].pc # "idle"
      BY <1>0, <2>2 DEF ItemEnqueue
    <3> QED
      BY <1>0, <3>1, StaysRegistered DEF GensRegistered, Requests
  <2> QED
    BY <2>1, <2>2
<1>2. CASE \E w \in Workers : Dequeue(w)
  <2>1. i + 1 \in 1..Len(queue) /\ queue'[i] = queue[i + 1]
    BY <1>0, <1>2, HeadTyped DEF Dequeue
  <2> QED
    BY <1>0, <2>1, StaysRegistered DEF GensRegistered
<1>3. CASE UNCHANGED queue
  BY <1>0, <1>3, StaysRegistered DEF GensRegistered
<1> QED
  BY <1>1, <1>2, <1>3 DEF Next, vars, Receive, HandlerStep, ItemNegative, ItemForget, ItemHas, Respond,
     WorkerStep, Stop, DropSuperseded, Start, JobNegative, JobForget, JobHas, WarmOk, WarmFails, WarmSleeps,
     Leave, StopWorkers, WorkersGone, ClosePart, NegativeExpires, CacheChanges, FlightAbandoned

LEMMA WorkersRegistered ==
    ASSUME TInv, GensRegistered, [Next]_vars, NEW w \in Workers, worker'[w].pc \notin {"idle", "stopped"}
    PROVE  worker'[w].job.scope # NoScope => worker'[w].job.gen <= scopeGens'[worker'[w].job.scope]
<1>0. /\ worker \in [Workers -> WorkerStates] /\ TypeOK
      /\ \A j \in Jobs : j.scope \in AllScopes /\ j.gen \in Nat
  BY PrefetchAssumption DEF TInv, TypeOK, WorkerStates, Jobs
<1>1. CASE Dequeue(w)
  <2>1. worker'[w].job = queue[1] /\ queue[1] \in Jobs /\ 1 \in 1..Len(queue)
    BY <1>0, <1>1, HeadTyped DEF Dequeue, TypeOK
  <2> QED
    BY <1>0, <2>1, StaysRegistered DEF GensRegistered
<1>2. CASE worker'[w].job = worker[w].job /\ worker[w].pc \notin {"idle", "stopped"}
  <2>1. worker[w].job \in Jobs
    BY <1>2 DEF TInv, WorkerBusy
  <2> QED
    BY <1>0, <1>2, <2>1, StaysRegistered DEF GensRegistered
<1>3. CASE \E v \in Workers : WorkerStep(v)
  <2> PICK v \in Workers : WorkerStep(v)
    BY <1>3
  <2>1. CASE v # w
    <3>1. worker'[w] = worker[w]
      BY <1>0, <2>1 DEF WorkerStep, Dequeue, Stop, DropSuperseded, Start, JobNegative, JobForget, JobHas, WarmOk,
                        WarmFails, WarmSleeps, WorkerGoto, JobDone
    <3> QED
      BY <3>1, <1>2
  <2>2. CASE v = w /\ ~Dequeue(w)
    <3>1. worker'[w].job = worker[w].job /\ worker[w].pc \notin {"idle", "stopped"}
      BY <1>0, <2>2 DEF WorkerStep, Stop, DropSuperseded, Start, JobNegative, JobForget, JobHas, WarmOk,
                        WarmFails, WarmSleeps, WorkerGoto, JobDone, IdleWorker, WorkerStates
    <3> QED
      BY <3>1, <1>2
  <2> QED
    BY <2>1, <2>2, <1>1
<1>4. CASE UNCHANGED worker
  BY <1>2, <1>4
<1> QED
  BY <1>3, <1>4 DEF Next, vars, Receive, HandlerStep, ItemNegative, ItemForget, ItemHas, ItemEnqueue, Respond,
     Leave, StopWorkers, WorkersGone, ClosePart, NegativeExpires, CacheChanges, FlightAbandoned

LEMMA RegisteredInv == TInv /\ GensRegistered /\ [Next]_vars => GensRegistered'
BY HandlersRegistered, QueueRegistered, WorkersRegistered DEF GensRegistered, Registered

(* When a worker starts a job, no job of a later generation of its scope   *)
(* is queued or started (prefetch_handler.go, processJob): all of them are *)
(* registered, and the job is not superseded.                              *)
THEOREM NoOlderJobStarts == Spec => NoOlderStarts
<1> DEFINE NewerThan(job, other) == other.scope = job.scope /\ other.gen > job.gen
           Fresh == \A w \in Workers :
              worker[w].pc = "check" /\ worker'[w].pc = "negative" =>
                  LET job == worker[w].job
                      Newer(other) == other.scope = job.scope /\ other.gen > job.gen
                  IN  job.scope # NoScope =>
                        /\ \A i \in 1..Len(queue) : ~ Newer(queue[i])
                        /\ \A v \in Workers : worker[v].pc \in Active => ~ Newer(worker[v].job)
<1>1. TInv /\ GensRegistered /\ [Next]_vars => Fresh
  <2> SUFFICES ASSUME TInv, GensRegistered, [Next]_vars, NEW w \in Workers,
                      worker[w].pc = "check", worker'[w].pc = "negative", worker[w].job.scope # NoScope
               PROVE  /\ \A i \in 1..Len(queue) : ~ NewerThan(worker[w].job, queue[i])
                      /\ \A v \in Workers : worker[v].pc \in Active => ~ NewerThan(worker[w].job, worker[v].job)
    OBVIOUS
  <2>0. /\ worker \in [Workers -> WorkerStates] /\ queue \in Seq(Jobs) /\ worker[w].job \in Jobs
        /\ \A v \in Workers : worker[v].pc \in Active => worker[v].job \in Jobs
        /\ \A j \in Jobs : j.scope \in AllScopes /\ j.gen \in Nat
        /\ \A s \in AllScopes : scopeGens[s] \in Nat
    BY PrefetchAssumption DEF TInv, TypeOK, WorkerStates, WorkerBusy, Jobs, Active
  <2>1. Start(w)
    <3>1. worker' # worker
      OBVIOUS
    <3>2. PICK v \in Workers : WorkerStep(v)
      BY <3>1 DEF Next, vars, Receive, HandlerStep, ItemNegative, ItemForget, ItemHas, ItemEnqueue, Respond,
         Leave, StopWorkers, WorkersGone, ClosePart, NegativeExpires, CacheChanges, FlightAbandoned
    <3>3. v = w
      BY <2>0, <3>2 DEF WorkerStep, Dequeue, Stop, DropSuperseded, Start, JobNegative, JobForget, JobHas, WarmOk,
         WarmFails, WarmSleeps, WorkerGoto, JobDone
    <3> QED
      BY <2>0, <3>2, <3>3 DEF WorkerStep, Dequeue, Stop, DropSuperseded, JobNegative, JobForget, JobHas, WarmOk,
         WarmFails, WarmSleeps, JobDone, IdleWorker
  <2>2. scopeGens[worker[w].job.scope] <= worker[w].job.gen
    BY <2>0, <2>1 DEF Start, Superseded
  <2>3. ASSUME NEW other \in Jobs, Registered(other.scope, other.gen)
        PROVE  ~ NewerThan(worker[w].job, other)
    BY <2>0, <2>2, <2>3 DEF Registered
  <2> QED
    BY <2>0, <2>3 DEF GensRegistered, Active
<1>2. Init => GensRegistered
  BY DEF Init, GensRegistered, IdleHandler, IdleWorker
<1> QED
  BY InitTyped, NextTyped, RegisteredInv, <1>1, <1>2, PTL DEF Spec, NoOlderStarts

=============================================================================
