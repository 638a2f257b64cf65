---------------------------- MODULE MCFileCache -----------------------------
(* TLC instance of FileCache.                                              *)
EXTENDS FileCache, TLC

Symmetry == Permutations(Threads) \cup Permutations(Keys)
=============================================================================
