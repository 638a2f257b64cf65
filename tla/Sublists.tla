------------------------------ MODULE Sublists ------------------------------
(* Array.prototype.filter, without an operator as a parameter: what is left   *)
(* of a sequence when only the elements at some places are kept.              *)
EXTENDS Integers, Sequences, FiniteSets

OnlyAt(seq, K) ==
    [n \in 1 .. Cardinality(K) |-> seq[CHOOSE i \in K : Cardinality({j \in K : j <= i}) = n]]
=============================================================================
