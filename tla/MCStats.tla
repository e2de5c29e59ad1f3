------------------------------ MODULE MCStats ------------------------------
(***************************************************************************)
(* Model-checking instance of Stats: events are symmetric, and clients.    *)
(***************************************************************************)
EXTENDS Stats, TLC

Symmetry == Permutations(Events) \cup Permutations(Ips)
=============================================================================
