---------------------------- MODULE MCTransports ----------------------------
(* Instance of Transports for TLC: the tool calls are interchangeable. *)
EXTENDS Transports

Symmetry == Permutations(Calls)
=============================================================================
