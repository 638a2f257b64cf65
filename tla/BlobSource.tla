----------------------------- MODULE BlobSource -----------------------------
(***************************************************************************)
(* BlobSource (server/handler/blobref.go): GetOrFetch and Warm read the    *)
(* blob cache and fill it from Cassandra, sharing one fetch per key through *)
(* the cache's Singleflight.  The profile, line-profile and Hovmoeller      *)
(* handlers repeat GetOrFetch; DerivedHandler.fetchGridLevel fills the     *)
(* same cache without the Singleflight, decodes what it reads and tries a  *)
(* second path when the first has no blob ("direct").                      *)
(*                                                                         *)
(* The cache is the abstract BlobStore, which FileCache implements.  The   *)
(* blob that Cassandra holds under key k is named k, so a blob that reaches *)
(* the wrong key shows.  The results of a flight are a blob, Nil for the   *)
(* pair (nil, nil), and Err for an error.  req[t].at is where request t    *)
(* stands, req[t].from the key it asks Cassandra for.                      *)
(***************************************************************************)
EXTENDS Singleflight

CONSTANTS Nil, Err,
          Kinds,        \* per key: the kinds of request that arrive
          Alt,          \* per key: the other path fetchGridLevel tries
          Malformed,    \* the keys whose blob is no grid
          LossyKeys,    \* the keys whose entries the cache may lose
          FetchFails    \* whether a Cassandra query may fail

(* The blobs that fetchGridLevel is asked for; those it stays away from.   *)
Direct == {k \in Keys : "direct" \in Kinds[k]}
SharedKeys == Keys \ (Direct \cup {Alt[k] : k \in Direct})

ASSUME BlobSourceAssumption ==
    /\ Results = Keys \cup {Nil, Err}
    /\ Nil \notin Keys /\ Err \notin Keys \cup {Nil}
    /\ Kinds \in [Keys -> SUBSET {"get", "warm", "direct"}]
    /\ Alt \in [Keys -> Keys] /\ \A k \in Direct : Alt[k] # k
    /\ LossyKeys \subseteq Keys /\ Malformed \subseteq Keys /\ FetchFails \in BOOLEAN

VARIABLES store, put, look, req

Store == INSTANCE BlobStore WITH Blobs <- Keys

storeVars == <<store, put, look>>
srcVars == <<sfVars, storeVars, req>>

NoReq == [kind |-> "none", key |-> None, from |-> None, at |-> "idle", reply |-> None]

Ats == {"idle", "look", "enter", "joined", "recheck", "fetching", "putting",
        "finish", "answered"}

SrcInit ==
    /\ SFInit
    /\ Store!StoreInit
    /\ req = [t \in Threads |-> NoReq]

Goto(t, at) == req' = [req EXCEPT ![t].at = at]
Answer(t, r) == req' = [req EXCEPT ![t].at = "answered", ![t].reply = r]

(* What the caller is left with: Warm drops the blob and keeps the error,  *)
(* fetchGridLevel returns the grid or the error of its decoding.           *)
ReplyOf(t, r) ==
    CASE req[t].kind = "warm" /\ r # Err -> Nil
      [] req[t].kind = "direct" /\ r \in Malformed -> Err
      [] OTHER -> r

(* What the function of a flight returns after its own look found the blob: *)
(* GetOrFetch's returns the blob, Warm's returns nil, nil.                 *)
RecheckResult(t) == IF req[t].kind = "warm" THEN Nil ELSE look[t].blob

(* A request arrives and looks at the cache (Get, or Has for Warm).        *)
Request(t, kind, k) ==
    /\ req[t].at = "idle"
    /\ req' = [req EXCEPT ![t] = [kind |-> kind, key |-> k, from |-> k, at |-> "look", reply |-> None]]
    /\ Store!BeginLook(t, k)
    /\ UNCHANGED sfVars

(* The cache settles a look, in the request or inside the flight.          *)
Settle(t) ==
    /\ Store!Hit(t) \/ Store!Miss(t)
    /\ UNCHANGED <<sfVars, req>>

LookHit(t) ==
    /\ req[t].at = "look" /\ look[t].pc = "hit"
    /\ Store!EndLook(t)
    /\ Answer(t, ReplyOf(t, look[t].blob))
    /\ UNCHANGED sfVars

(* fetchGridLevel cannot decompress the blob that it found: it goes to     *)
(* Cassandra as after a miss.                                              *)
LookSpoilt(t) ==
    /\ req[t].at = "look" /\ look[t].pc = "hit"
    /\ req[t].kind = "direct" /\ look[t].blob \in Malformed
    /\ Store!EndLook(t)
    /\ Goto(t, "fetching")
    /\ UNCHANGED sfVars

(* On a miss the request goes to Do; fetchGridLevel goes to Cassandra.     *)
LookMiss(t) ==
    /\ req[t].at = "look" /\ look[t].pc = "miss"
    /\ Store!EndLook(t)
    /\ Goto(t, IF req[t].kind = "direct" THEN "fetching" ELSE "enter")
    /\ UNCHANGED sfVars

(* Mutants of EnterLead: a flight without the second look at the cache; a  *)
(* flight that is started although the key has one.                        *)
BugEnterLead(t) ==
    /\ req[t].at = "enter"
    /\ Lead(t, req[t].key)
    /\ Goto(t, "fetching")
    /\ UNCHANGED storeVars

BugEnterLeadAlways(t) ==
    /\ req[t].at = "enter"
    /\ BugLead(t, req[t].key)
    /\ Store!BeginLook(t, req[t].key)
    /\ Goto(t, "recheck")

(* Do: lead a flight, whose function first looks at the cache again ...    *)
EnterLead(t) ==
    /\ req[t].at = "enter"
    /\ Lead(t, req[t].key)
    /\ Store!BeginLook(t, req[t].key)
    /\ Goto(t, "recheck")

(* ... or share the one in progress.                                       *)
EnterJoin(t) ==
    /\ req[t].at = "enter"
    /\ Join(t, req[t].key)
    /\ Goto(t, "joined")
    /\ UNCHANGED storeVars

RecheckHit(t) ==
    /\ req[t].at = "recheck" /\ look[t].pc = "hit"
    /\ Store!EndLook(t)
    /\ Finish(t, RecheckResult(t))
    /\ Goto(t, "finish")

RecheckMiss(t) ==
    /\ req[t].at = "recheck" /\ look[t].pc = "miss"
    /\ Store!EndLook(t)
    /\ Goto(t, "fetching")
    /\ UNCHANGED sfVars

(* The function has result r: the flight finishes, a direct request has    *)
(* its answer.                                                             *)
Deliver(t, r) ==
    IF req[t].kind = "direct"
    THEN Answer(t, ReplyOf(t, r)) /\ UNCHANGED sfVars
    ELSE Finish(t, r) /\ Goto(t, "finish")

HasAlt(t) == req[t].kind = "direct" /\ req[t].from = req[t].key

(* The first path has no blob for fetchGridLevel: it asks for the other.   *)
FetchAlt(t) ==
    /\ FetchFails
    /\ req[t].at = "fetching" /\ HasAlt(t)
    /\ req' = [req EXCEPT ![t].from = Alt[req[t].key]]
    /\ UNCHANGED <<sfVars, storeVars>>

(* Mutant of FetchFailed: the error is ignored and an empty blob is put.   *)
BugFetchFailed(t) ==
    /\ FetchFails
    /\ req[t].at = "fetching"
    /\ Store!BeginPut(t, req[t].key, Nil)
    /\ Goto(t, "putting")
    /\ UNCHANGED sfVars

FetchFailed(t) ==
    /\ FetchFails
    /\ req[t].at = "fetching" /\ ~ HasAlt(t)
    /\ Deliver(t, Err)
    /\ UNCHANGED storeVars

(* The query panics on a malformed frame (parseRowsResult).  net/http      *)
(* recovers a handler's goroutine; a worker's panic ends the process.      *)
FetchPanics(t) ==
    /\ req[t].at = "fetching" /\ req[t].kind # "warm"
    /\ req[t].from \in PanicKeys
    /\ IF req[t].kind = "direct" THEN UNCHANGED sfVars ELSE Panic(t)
    /\ req' = [req EXCEPT ![t] = NoReq]
    /\ UNCHANGED storeVars

(* Mutants of FetchOk: the blob is delivered while the Put goes on behind  *)
(* the flight's back; the blob is delivered and not put; the blob of the   *)
(* other path is put under the path asked for.                             *)
BugFetchOk(t) ==
    /\ req[t].at = "fetching"
    /\ Store!BeginPut(t, req[t].from, req[t].from)
    /\ Deliver(t, req[t].from)

BugFetchOkNoPut(t) ==
    /\ req[t].at = "fetching"
    /\ Deliver(t, req[t].from)
    /\ UNCHANGED storeVars

BugFetchOkAsked(t) ==
    /\ req[t].at = "fetching"
    /\ Store!BeginPut(t, req[t].key, req[t].from)
    /\ Goto(t, "putting")
    /\ UNCHANGED sfVars

(* Put or PutPrefetched of the fetched blob begins, under the key that     *)
(* Cassandra had it for.                                                   *)
FetchOk(t) ==
    /\ req[t].at = "fetching"
    /\ Store!BeginPut(t, req[t].from, req[t].from)
    /\ Goto(t, "putting")
    /\ UNCHANGED sfVars

PutVisible(t) ==
    /\ Store!CommitPut(t)
    /\ UNCHANGED <<sfVars, req>>

PutDone(t) ==
    /\ req[t].at = "putting"
    /\ \E K \in SUBSET Keys : Store!EndPut(t, K)
    /\ Deliver(t, req[t].from)

(* The leader deletes the flight and has its own result.                   *)
LeaderLeaves(t) ==
    /\ req[t].at = "finish"
    /\ Unregister(t)
    /\ Goto(t, "joined")
    /\ UNCHANGED storeVars

(* Do returns to GetOrFetch or Warm.                                       *)
DoReturns(t) ==
    /\ req[t].at = "joined"
    /\ Return(t)
    /\ Answer(t, ReplyOf(t, call[t].val))
    /\ UNCHANGED storeVars

(* The handler has sent its response.                                      *)
Respond(t) ==
    /\ req[t].at = "answered"
    /\ req' = [req EXCEPT ![t] = NoReq]
    /\ UNCHANGED <<sfVars, storeVars>>

(* Eviction, expiry and the sweeper.                                       *)
Lose ==
    /\ \E K \in SUBSET Keys : Store!Lose(K)
    /\ UNCHANGED <<sfVars, req>>

SrcStep(t) ==
    \/ Settle(t) \/ LookHit(t) \/ LookSpoilt(t) \/ LookMiss(t)
    \/ EnterLead(t) \/ EnterJoin(t)
    \/ RecheckHit(t) \/ RecheckMiss(t)
    \/ FetchOk(t) \/ FetchAlt(t) \/ FetchFailed(t) \/ FetchPanics(t)
    \/ PutVisible(t) \/ PutDone(t)
    \/ LeaderLeaves(t) \/ DoReturns(t) \/ Respond(t)

SrcNext ==
    \/ \E t \in Threads :
          \/ \E k \in Keys : \E kind \in Kinds[k] : Request(t, kind, k)
          \/ SrcStep(t)
    \/ Lose

SrcSpec == SrcInit /\ [][SrcNext]_srcVars

(* Every goroutine that can run is scheduled, and Cassandra answers within *)
(* the socket deadline of CQLClient.                                       *)
SrcFairSpec == SrcSpec /\ \A t \in Threads : WF_srcVars(SrcStep(t))
-----------------------------------------------------------------------------
SrcTypeOK ==
    /\ SFTypeOK
    /\ store \in [Keys -> Keys \cup {None}]
    /\ put \in [Threads -> [pc : {"idle", "begun", "visible"}, key : Keys \cup {None},
                            blob : Keys \cup {None}]]
    /\ look \in [Threads -> [pc : {"idle", "looked", "hit", "miss"}, key : Keys \cup {None},
                             blob : Keys \cup {None}]]
    /\ req \in [Threads -> [kind : {"none", "get", "warm", "direct"}, key : Keys \cup {None},
                            from : Keys \cup {None}, at : Ats, reply : Results \cup {None}]]

Fetches(t, k) == req[t].at \in {"fetching", "putting"} /\ req[t].from = k

(* User requests and prefetch jobs together run at most one Cassandra fetch *)
(* per blob at a time ("executing at most one Cassandra fetch per unique   *)
(* blob", Architecture.md 16.7), for the blobs fetchGridLevel stays away   *)
(* from.                                                                   *)
OneFetchPerBlob ==
    \A k \in SharedKeys :
        \A t, u \in Threads : Fetches(t, k) /\ Fetches(u, k) => t = u

(* Two Puts of such a key are never in progress together: the assumption   *)
(* under which FileCache keeps its entries whole.                          *)
PutsKeptApart ==
    \A k \in SharedKeys :
        \A t, u \in Store!Putting(k) : t = u

(* Where the cache loses nothing, Cassandra is asked for such a blob only  *)
(* while the cache lacks it, however a request is delayed between its look *)
(* and its flight: no blob is fetched twice.                               *)
NoRefetch ==
    [][\A t \in Threads :
          /\ req[t].at # "fetching" /\ req'[t].at = "fetching"
          /\ req[t].key \in SharedKeys \ LossyKeys
          => store[req[t].key] = None]_srcVars

(* "GetOrFetch retrieves from Cache or fetches from Fetcher"               *)
(* (blobref.go:72): without an error its caller has the blob it asked for. *)
GetYieldsBlob ==
    \A t \in Threads :
        req[t].at = "answered" /\ req[t].kind = "get" =>
            req[t].reply \in {req[t].key, Err}

(* The same for the blobs that nobody warms, and for the others at least   *)
(* never another blob: a shared flight does not mix its keys up.  The grid *)
(* that fetchGridLevel returns is that of its path or of the other path,   *)
(* never one that does not decode.                                         *)
GetYieldsOwnBlob ==
    \A t \in Threads : req[t].at = "answered" =>
        /\ req[t].kind = "get" =>
              \/ req[t].reply \in {req[t].key, Err}
              \/ req[t].reply = Nil /\ "warm" \in Kinds[req[t].key]
        /\ req[t].kind = "direct" =>
              req[t].reply \in ({req[t].key, Alt[req[t].key]} \ Malformed) \cup {Err}

(* "Warm warms the disk cache for a BlobRef" (blobref.go:103): when Warm   *)
(* reports no error and the cache loses nothing, the blob is in the cache. *)
WarmedIsStored ==
    \A t \in Threads :
        /\ req[t].at = "answered" /\ req[t].kind = "warm" /\ req[t].reply = Nil
        /\ req[t].key \notin LossyKeys
        => store[req[t].key] = req[t].key

(* Every request is answered, unless the fetch of its blob may panic; a    *)
(* panic on one key blocks no request for another.                         *)
EveryRequestAnswered ==
    \A t \in Threads :
        req[t].at # "idle" /\ req[t].key \notin PanicKeys ~> req[t].at = "idle"
=============================================================================
