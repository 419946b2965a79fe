---------------------------- MODULE MCPackuments ----------------------------
(* Two processes with two tasks each, while the registry publishes a new version. *)
EXTENDS PackumentCache
CONSTANTS k1, k2, c1, c2
=============================================================================
