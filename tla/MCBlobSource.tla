---------------------------- MODULE MCBlobSource ----------------------------
(* TLC instances of BlobSource: the blob of key k is k.                    *)
EXTENDS BlobSource, TLC

CONSTANTS steady,   \* read and warmed, in a cache that loses nothing
          lossy,    \* read and warmed, may get lost
          mixed,    \* read with and without Singleflight, may panic
          spare     \* read without Singleflight, the other path of mixed

MCResults == Keys \cup {Nil, Err}

MCKinds == [k \in Keys |-> CASE k = mixed -> {"get", "direct"}
                              [] k = spare -> {"direct"}
                              [] OTHER -> {"get", "warm"}]

MCAlt == [k \in Keys |-> CASE k = mixed -> spare [] k = spare -> mixed [] OTHER -> k]

Symmetry == Permutations(Threads)
=============================================================================
