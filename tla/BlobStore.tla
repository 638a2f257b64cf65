----------------------------- MODULE BlobStore ------------------------------
(***************************************************************************)
(* What the blob cache promises its callers, one key at a time.            *)
(*                                                                         *)
(* store[k] is the blob a reader would find.  A Put of b makes b visible   *)
(* at some point between its beginning and its end, or not at all.  A read *)
(* takes one look at the store and then answers with the blob it saw or    *)
(* with a miss.  The store may lose an entry at any time (eviction,        *)
(* expiry) and never invents one.  A key that is not in LossyKeys loses    *)
(* nothing, and a read of it misses only what was not there when it looked *)
(* or what a Put is replacing.  At most one Put per key is in progress.    *)
(***************************************************************************)
CONSTANTS Threads, Keys, Blobs, None,
          LossyKeys \* the keys whose entries and Puts may get lost

VARIABLES store,    \* the blob at each key, or None
          put,      \* per thread: the Put in progress
          look      \* per thread: the read in progress

storeVars == <<store, put, look>>

NoPut == [pc |-> "idle", key |-> None, blob |-> None]
NoLook == [pc |-> "idle", key |-> None, blob |-> None]

StoreInit ==
    /\ store = [k \in Keys |-> None]
    /\ put = [t \in Threads |-> NoPut]
    /\ look = [t \in Threads |-> NoLook]

Putting(k) == {t \in Threads : put[t].pc # "idle" /\ put[t].key = k}

Without(K) == [k \in Keys |-> IF k \in K THEN None ELSE store[k]]

BeginPut(t, k, b) ==
    /\ put[t].pc = "idle"
    /\ put' = [put EXCEPT ![t] = [pc |-> "begun", key |-> k, blob |-> b]]
    /\ UNCHANGED <<store, look>>

CommitPut(t) ==
    /\ put[t].pc = "begun"
    /\ store' = [store EXCEPT ![put[t].key] = put[t].blob]
    /\ put' = [put EXCEPT ![t].pc = "visible"]
    /\ UNCHANGED look

(* The end of a Put is also where the entries beyond the cap go.           *)
EndPut(t, K) ==
    /\ put[t].pc = "visible" \/ (put[t].pc = "begun" /\ put[t].key \in LossyKeys)
    /\ K \subseteq LossyKeys
    /\ put' = [put EXCEPT ![t] = NoPut]
    /\ store' = Without(K)
    /\ UNCHANGED look

BeginLook(t, k) ==
    /\ look[t].pc = "idle"
    /\ look' = [look EXCEPT ![t] = [pc |-> IF store[k] = None THEN "miss" ELSE "looked",
                                    key |-> k, blob |-> store[k]]]
    /\ UNCHANGED <<store, put>>

Hit(t) ==
    /\ look[t].pc = "looked"
    /\ look' = [look EXCEPT ![t].pc = "hit"]
    /\ UNCHANGED <<store, put>>

Miss(t) ==
    /\ look[t].pc = "looked"
    /\ look[t].key \in LossyKeys \/ Putting(look[t].key) # {}
    /\ look' = [look EXCEPT ![t].pc = "miss", ![t].blob = None]
    /\ UNCHANGED <<store, put>>

EndLook(t) ==
    /\ look[t].pc \in {"hit", "miss"}
    /\ look' = [look EXCEPT ![t] = NoLook]
    /\ UNCHANGED <<store, put>>

(* Eviction and expiry.                                                    *)
Lose(K) ==
    /\ K \subseteq LossyKeys
    /\ store' = Without(K)
    /\ UNCHANGED <<put, look>>

(* The process dies and takes its calls with it.                           *)
Reset ==
    /\ put' = [t \in Threads |-> NoPut]
    /\ look' = [t \in Threads |-> NoLook]
    /\ UNCHANGED store

StoreNext ==
    \/ \E t \in Threads :
          \/ \E k \in Keys :
                \/ BeginLook(t, k)
                \/ Putting(k) = {} /\ \E b \in Blobs : BeginPut(t, k, b)
          \/ CommitPut(t)
          \/ \E K \in SUBSET Keys : EndPut(t, K)
          \/ Hit(t) \/ Miss(t) \/ EndLook(t)
    \/ \E K \in SUBSET Keys : Lose(K)
    \/ Reset

StoreSpec == StoreInit /\ [][StoreNext]_storeVars
=============================================================================
