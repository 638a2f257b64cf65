------------------------------ MODULE Prefetch ------------------------------
(***************************************************************************)
(* PrefetchHandler (server/handler/prefetch_handler.go): POST /api/prefetch *)
(* puts jobs into a bounded queue, a pool of workers warms the blob cache  *)
(* with them.  A request carries a scope (a window of the client) and a    *)
(* generation; jobs of older generations of the scope are dropped.         *)
(*                                                                         *)
(* handler[c] is an HTTP request being handled, worker[w] a worker         *)
(* goroutine with its job.  Each pc is a point where the others can run:   *)
(* the mutexes scopeMu and negMu cover single steps only.  BlobSource.Warm *)
(* is one step that succeeds (the key is then cached) or fails; the cache  *)
(* may lose keys and other requests may fill it.  A user's request whose   *)
(* fetch panics leaves its flight in the map (Singleflight), and a worker  *)
(* that joins that flight sleeps for ever.                                 *)
(*                                                                         *)
(* The end of main (server/cmd/main.go) is part of the module: after       *)
(* srv.Shutdown its deferred calls close the parts of the server.          *)
(***************************************************************************)
EXTENDS Integers, Sequences

CONSTANTS Workers, Handlers, Keys,
          PanicKeys,    \* the keys whose fetch may panic in a user's request
          Scopes,       \* the non-empty scopes
          NoScope,      \* the empty scope
          Gens,         \* the generations requests carry
          QueueSize,
          MaxItems,     \* 16 in the code
          MaxRequests,  \* bound on the requests of a behaviour
          None

ASSUME PrefetchAssumption ==
    /\ Gens \subseteq Nat
    /\ QueueSize \in Nat \ {0} /\ MaxItems \in Nat /\ MaxRequests \in Nat
    /\ NoScope \notin Scopes
    /\ None \notin Keys /\ PanicKeys \subseteq Keys

VARIABLES scopeGens,    \* latest generation per scope
          negCache,     \* per key: "absent", "live" or "stale"
          cached,       \* keys the blob cache holds
          abandoned,    \* keys whose flight a panic left in the map
          queue,        \* the channel of jobs
          handler, worker,
          closing,      \* "open", "leaving" (srv.Shutdown has returned),
                        \* "stopping" (stopChan closed)
          unwound,      \* number of main's deferred calls that have returned
          requests      \* requests so far

vars == <<scopeGens, negCache, cached, abandoned, queue, handler, worker, closing, unwound,
          requests>>

AllScopes == Scopes \cup {NoScope}
Jobs == [scope : AllScopes, gen : Gens, key : Keys]

IdleHandler == [pc |-> "idle", scope |-> NoScope, gen |-> 0, items |-> <<>>]
IdleWorker == [pc |-> "idle", job |-> None]

Payloads == UNION {[1..n -> Keys] : n \in 0..MaxItems}

Init ==
    /\ scopeGens = [s \in AllScopes |-> 0]
    /\ negCache = [k \in Keys |-> "absent"]
    /\ cached = {}
    /\ abandoned = {}
    /\ queue = <<>>
    /\ handler = [c \in Handlers |-> IdleHandler]
    /\ worker = [w \in Workers |-> IdleWorker]
    /\ closing = "open"
    /\ unwound = 0
    /\ requests = 0
-----------------------------------------------------------------------------
(* Handler                                                                 *)

(* Mutant of Receive: the last request wins, whatever its generation.      *)
BugReceive(c, s, g, items) ==
    /\ handler[c].pc = "idle"
    /\ requests < MaxRequests
    /\ requests' = requests + 1
    /\ scopeGens' = IF s # NoScope THEN [scopeGens EXCEPT ![s] = g] ELSE scopeGens
    /\ handler' = [handler EXCEPT ![c] = [pc |-> "item", scope |-> s, gen |-> g,
                                          items |-> items]]
    /\ UNCHANGED <<negCache, cached, abandoned, queue, worker, closing, unwound>>

(* A well-formed request: its generation is registered before its items.   *)
Receive(c, s, g, items) ==
    /\ handler[c].pc = "idle"
    /\ requests < MaxRequests
    /\ requests' = requests + 1
    /\ scopeGens' = IF s # NoScope /\ g > scopeGens[s]
                    THEN [scopeGens EXCEPT ![s] = g] ELSE scopeGens
    /\ handler' = [handler EXCEPT ![c] = [pc |-> "item", scope |-> s, gen |-> g,
                                          items |-> items]]
    /\ UNCHANGED <<negCache, cached, abandoned, queue, worker, closing, unwound>>

Item(c) == Head(handler[c].items)

HandlerGoto(c, pc) == handler' = [handler EXCEPT ![c].pc = pc]
NextItem(c) == handler' = [handler EXCEPT ![c].pc = "item", ![c].items = Tail(@)]

(* isNegativelyCached: the read lock covers the lookup ...                 *)
ItemNegative(c) ==
    /\ handler[c].pc = "item" /\ handler[c].items # <<>>
    /\ CASE negCache[Item(c)] = "live" -> NextItem(c)
         [] negCache[Item(c)] = "stale" -> HandlerGoto(c, "forget")
         [] OTHER -> HandlerGoto(c, "has")
    /\ UNCHANGED <<scopeGens, negCache, cached, abandoned, queue, worker, closing, unwound, requests>>

(* ... and the write lock, taken later, the deletion.                      *)
ItemForget(c) ==
    /\ handler[c].pc = "forget"
    /\ negCache' = [negCache EXCEPT ![Item(c)] = "absent"]
    /\ HandlerGoto(c, "has")
    /\ UNCHANGED <<scopeGens, cached, abandoned, queue, worker, closing, unwound, requests>>

ItemHas(c) ==
    /\ handler[c].pc = "has"
    /\ IF Item(c) \in cached THEN NextItem(c) ELSE HandlerGoto(c, "enqueue")
    /\ UNCHANGED <<scopeGens, negCache, cached, abandoned, queue, worker, closing, unwound, requests>>

(* Mutant of ItemEnqueue: the queue has no bound.                          *)
BugItemEnqueue(c) ==
    /\ handler[c].pc = "enqueue"
    /\ queue' = Append(queue, [scope |-> handler[c].scope, gen |-> handler[c].gen,
                               key |-> Item(c)])
    /\ NextItem(c)
    /\ UNCHANGED <<scopeGens, negCache, cached, abandoned, worker, closing, unwound, requests>>

(* A full queue drops the job; the send never blocks.                      *)
ItemEnqueue(c) ==
    /\ handler[c].pc = "enqueue"
    /\ queue' = IF Len(queue) < QueueSize
                THEN Append(queue, [scope |-> handler[c].scope, gen |-> handler[c].gen,
                                    key |-> Item(c)])
                ELSE queue
    /\ NextItem(c)
    /\ UNCHANGED <<scopeGens, negCache, cached, abandoned, worker, closing, unwound, requests>>

Respond(c) ==
    /\ handler[c].pc = "item" /\ handler[c].items = <<>>
    /\ handler' = [handler EXCEPT ![c] = IdleHandler]
    /\ UNCHANGED <<scopeGens, negCache, cached, abandoned, queue, worker, closing, unwound, requests>>
-----------------------------------------------------------------------------
(* workerLoop and processJob                                               *)

WorkerGoto(w, pc) == worker' = [worker EXCEPT ![w].pc = pc]
JobDone(w) == worker' = [worker EXCEPT ![w] = IdleWorker]

(* select: with stopChan closed and jobs queued, either case may be taken. *)
Dequeue(w) ==
    /\ worker[w].pc = "idle"
    /\ queue # <<>>
    /\ queue' = Tail(queue)
    /\ worker' = [worker EXCEPT ![w] = [pc |-> "check", job |-> Head(queue)]]
    /\ UNCHANGED <<scopeGens, negCache, cached, abandoned, handler, closing, unwound, requests>>

(* Mutants of Stop: the worker waits for the end of Close, which waits for *)
(* the worker; the worker ends when it finds the queue empty.              *)
BugStop(w) ==
    /\ worker[w].pc = "idle"
    /\ closing = "stopping" /\ unwound > 0
    /\ WorkerGoto(w, "stopped")
    /\ UNCHANGED <<scopeGens, negCache, cached, abandoned, queue, handler, closing, unwound, requests>>

BugStopIdle(w) ==
    /\ worker[w].pc = "idle"
    /\ closing = "stopping" \/ queue = <<>>
    /\ WorkerGoto(w, "stopped")
    /\ UNCHANGED <<scopeGens, negCache, cached, abandoned, queue, handler, closing, unwound, requests>>

(* stopChan is closed: the worker leaves its loop.                         *)
Stop(w) ==
    /\ worker[w].pc = "idle"
    /\ closing = "stopping"
    /\ WorkerGoto(w, "stopped")
    /\ UNCHANGED <<scopeGens, negCache, cached, abandoned, queue, handler, closing, unwound, requests>>

(* Supersede check.                                                        *)
Superseded(job) == job.gen < scopeGens[job.scope]

DropSuperseded(w) ==
    /\ worker[w].pc = "check" /\ Superseded(worker[w].job)
    /\ JobDone(w)
    /\ UNCHANGED <<scopeGens, negCache, cached, abandoned, queue, handler, closing, unwound, requests>>

Start(w) ==
    /\ worker[w].pc = "check" /\ ~ Superseded(worker[w].job)
    /\ WorkerGoto(w, "negative")
    /\ UNCHANGED <<scopeGens, negCache, cached, abandoned, queue, handler, closing, unwound, requests>>

JobNegative(w) ==
    /\ worker[w].pc = "negative"
    /\ CASE negCache[worker[w].job.key] = "live" -> JobDone(w)
         [] negCache[worker[w].job.key] = "stale" -> WorkerGoto(w, "forget")
         [] OTHER -> WorkerGoto(w, "has")
    /\ UNCHANGED <<scopeGens, negCache, cached, abandoned, queue, handler, closing, unwound, requests>>

JobForget(w) ==
    /\ worker[w].pc = "forget"
    /\ negCache' = [negCache EXCEPT ![worker[w].job.key] = "absent"]
    /\ WorkerGoto(w, "has")
    /\ UNCHANGED <<scopeGens, cached, abandoned, queue, handler, closing, unwound, requests>>

JobHas(w) ==
    /\ worker[w].pc = "has"
    /\ IF worker[w].job.key \in cached THEN JobDone(w) ELSE WorkerGoto(w, "warming")
    /\ UNCHANGED <<scopeGens, negCache, cached, abandoned, queue, handler, closing, unwound, requests>>

(* Warm looks at the cache before it enters the flight of the key.         *)
WarmOk(w) ==
    /\ worker[w].pc = "warming"
    /\ worker[w].job.key \notin abandoned \ cached
    /\ cached' = cached \cup {worker[w].job.key}
    /\ JobDone(w)
    /\ UNCHANGED <<scopeGens, negCache, abandoned, queue, handler, closing, unwound, requests>>

(* setNegativeCache: the failure is remembered for 30 s.                   *)
WarmFails(w) ==
    /\ worker[w].pc = "warming"
    /\ worker[w].job.key \notin abandoned
    /\ negCache' = [negCache EXCEPT ![worker[w].job.key] = "live"]
    /\ JobDone(w)
    /\ UNCHANGED <<scopeGens, cached, abandoned, queue, handler, closing, unwound, requests>>
(* Warm joins the flight a panic left behind, whose wg.Wait never returns. *)
WarmSleeps(w) ==
    /\ worker[w].pc = "warming"
    /\ worker[w].job.key \in abandoned
    /\ WorkerGoto(w, "asleep")
    /\ UNCHANGED <<scopeGens, negCache, cached, abandoned, queue, handler, closing, unwound, requests>>
-----------------------------------------------------------------------------
(* The end of main, time and the other users of the cache                  *)

(* Mutant of Deferred: the workers are started, and their Close deferred,  *)
(* before the client connects.                                             *)
BugDeferred == <<"prefetch", "client", "cache">>

(* The order in which main defers the calls that close its parts; they run *)
(* last in, first out.                                                     *)
Deferred == <<"client", "cache", "prefetch">>

NextDeferred(part) ==
    /\ closing # "open"
    /\ unwound < Len(Deferred)
    /\ Deferred[Len(Deferred) - unwound] = part

OpenParts == {Deferred[i] : i \in 1..(Len(Deferred) - unwound)}

(* A signal: srv.Shutdown returns once every request is answered, or after *)
(* 5 s, when handlers and connections may still be busy.                   *)
Leave ==
    /\ closing = "open"
    /\ closing' = "leaving"
    /\ UNCHANGED <<scopeGens, negCache, cached, abandoned, queue, handler, worker, unwound, requests>>

(* prefetchH.Close closes stopChan ...                                     *)
StopWorkers ==
    /\ NextDeferred("prefetch")
    /\ closing = "leaving"
    /\ closing' = "stopping"
    /\ UNCHANGED <<scopeGens, negCache, cached, abandoned, queue, handler, worker, unwound, requests>>

(* ... and returns when wg.Wait does.                                      *)
WorkersGone ==
    /\ NextDeferred("prefetch")
    /\ closing = "stopping"
    /\ \A w \in Workers : worker[w].pc = "stopped"
    /\ unwound' = unwound + 1
    /\ UNCHANGED <<scopeGens, negCache, cached, abandoned, queue, handler, worker, closing, requests>>

(* fc.Close, cqlClient.Close.                                              *)
ClosePart ==
    /\ NextDeferred("cache") \/ NextDeferred("client")
    /\ unwound' = unwound + 1
    /\ UNCHANGED <<scopeGens, negCache, cached, abandoned, queue, handler, worker, closing, requests>>

(* 30 s have passed since the failure of k.                                *)
NegativeExpires(k) ==
    /\ negCache[k] = "live"
    /\ negCache' = [negCache EXCEPT ![k] = "stale"]
    /\ UNCHANGED <<scopeGens, cached, abandoned, queue, handler, worker, closing, unwound, requests>>

(* The cache evicts k, or a user's request fetches it.                     *)
CacheChanges(k) ==
    /\ cached' = IF k \in cached THEN cached \ {k} ELSE cached \cup {k}
    /\ UNCHANGED <<scopeGens, negCache, abandoned, queue, handler, worker, closing, unwound, requests>>

(* The fetch of k panics in a user's request: wg.Done and the deletion of  *)
(* the flight (cache.go, Do) are skipped.                                  *)
FlightAbandoned(k) ==
    /\ k \in PanicKeys
    /\ abandoned' = abandoned \cup {k}
    /\ UNCHANGED <<scopeGens, negCache, cached, queue, handler, worker, closing, unwound, requests>>

HandlerStep(c) ==
    ItemNegative(c) \/ ItemForget(c) \/ ItemHas(c) \/ ItemEnqueue(c) \/ Respond(c)

WorkerStep(w) ==
    \/ Dequeue(w) \/ Stop(w)
    \/ DropSuperseded(w) \/ Start(w)
    \/ JobNegative(w) \/ JobForget(w) \/ JobHas(w)
    \/ WarmOk(w) \/ WarmFails(w) \/ WarmSleeps(w)

Next ==
    \/ \E c \in Handlers :
          \/ \E s \in AllScopes, g \in Gens, items \in Payloads : Receive(c, s, g, items)
          \/ HandlerStep(c)
    \/ \E w \in Workers : WorkerStep(w)
    \/ Leave \/ StopWorkers \/ WorkersGone \/ ClosePart
    \/ \E k \in Keys : NegativeExpires(k) \/ CacheChanges(k) \/ FlightAbandoned(k)

Spec == Init /\ [][Next]_vars

(* Goroutines that can run are scheduled, main's among them.  A Warm ends  *)
(* within the deadlines of CQLClient, unless it sleeps in a flight that    *)
(* was abandoned: "asleep" is left by no step.                             *)
FairSpec ==
    /\ Spec
    /\ \A c \in Handlers : WF_vars(HandlerStep(c))
    /\ \A w \in Workers : WF_vars(WorkerStep(w))
    /\ WF_vars(StopWorkers \/ WorkersGone \/ ClosePart)
-----------------------------------------------------------------------------
(* The channel never holds more than QueueSize jobs.                       *)
TypeOK ==
    /\ scopeGens \in [AllScopes -> Nat]
    /\ negCache \in [Keys -> {"absent", "live", "stale"}]
    /\ cached \subseteq Keys
    /\ queue \in Seq(Jobs) /\ Len(queue) <= QueueSize
    /\ handler \in [Handlers -> [pc : {"idle", "item", "forget", "has", "enqueue"},
                                 scope : AllScopes, gen : Nat, items : Seq(Keys)]]
    /\ worker \in [Workers -> [pc : {"idle", "check", "negative", "forget", "has", "warming",
                                     "asleep", "stopped"},
                               job : Jobs \cup {None}]]
    /\ abandoned \subseteq PanicKeys
    /\ closing \in {"open", "leaving", "stopping"}
    /\ unwound \in 0..Len(Deferred)
    /\ requests \in 0..MaxRequests

Active == {"negative", "forget", "has", "warming", "asleep"}

(* "Queued jobs from an older gen of the same scope are dropped before     *)
(* they start" (satellite-prefetch-plan1.md:171): when a worker starts a   *)
(* job, no job of a later generation of that scope is queued or started.   *)
NoOlderStarts ==
    [][\A w \in Workers :
          worker[w].pc = "check" /\ worker'[w].pc = "negative" =>
              LET job == worker[w].job
                  Newer(other) == other.scope = job.scope /\ other.gen > job.gen
              IN  job.scope # NoScope =>
                    /\ \A i \in 1..Len(queue) : ~ Newer(queue[i])
                    /\ \A v \in Workers : worker[v].pc \in Active => ~ Newer(worker[v].job)]_vars

(* "A not-found or decode-invalid result is remembered for 30 s"           *)
(* (satellite-prefetch-plan1.md:172): only the passing of 30 s takes a     *)
(* failure out of the negative cache.                                      *)
NegativeRemembered ==
    [][\A k \in Keys : negCache[k] = "live" => negCache'[k] # "absent"]_vars

(* A worker in its loop has the file cache and the Cassandra client open   *)
(* under it: the order of main's deferred calls, with the wait for the     *)
(* workers in the first of them, closes the two after the last worker,     *)
(* also one that took a job when stopChan was closed or sleeps in a flight.*)
PartsOutliveWorkers ==
    \A w \in Workers : worker[w].pc # "stopped" => {"cache", "client"} \subseteq OpenParts

(* prefetchH.Close returns, whatever the queue holds, and the shutdown ends *)
(* with every part closed, unless a worker sleeps in an abandoned flight:  *)
(* then wg.Wait and so the shutdown never return.                          *)
CloseReturns ==
    closing = "leaving" ~> (OpenParts = {} \/ \E w \in Workers : worker[w].pc = "asleep")

(* Until the shutdown, accepted jobs are taken off the queue, as long as   *)
(* one worker does not sleep in an abandoned flight.                       *)
QueueDrains ==
    []<>(queue = <<>> \/ closing # "open" \/ \A w \in Workers : worker[w].pc = "asleep")
=============================================================================
