----------------------------- MODULE MCCQLClient ----------------------------
(* TLC instance of CQLClient.                                              *)
EXTENDS CQLClient
=============================================================================
