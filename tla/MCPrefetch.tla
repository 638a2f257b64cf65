----------------------------- MODULE MCPrefetch -----------------------------
(* TLC instances of Prefetch: Prefetch.cfg and PrefetchNegative.cfg give   *)
(* the constants their values; without symmetry, as liveness is checked.   *)
EXTENDS Prefetch
=============================================================================
