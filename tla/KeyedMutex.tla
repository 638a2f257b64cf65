----------------------------- MODULE KeyedMutex -----------------------------
(***************************************************************************)
(* What a keyed critical section promises: each key has at most one        *)
(* holder, and only the holder gives the key up.  Singleflight is shown to *)
(* implement it, with "runs the function for the key" as "holds the key".  *)
(***************************************************************************)
CONSTANTS Threads, Keys, NoThread

VARIABLE holder

Init == holder = [k \in Keys |-> NoThread]

Acquire(t, k) ==
    /\ holder[k] = NoThread
    /\ holder' = [holder EXCEPT ![k] = t]

Release(t, k) ==
    /\ holder[k] = t
    /\ holder' = [holder EXCEPT ![k] = NoThread]

Next == \E t \in Threads, k \in Keys : Acquire(t, k) \/ Release(t, k)

Spec == Init /\ [][Next]_holder
=============================================================================
