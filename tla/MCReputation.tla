---------------------------- MODULE MCReputation ----------------------------
(***************************************************************************)
(* Model-checking instance of Reputation: requests and clients are         *)
(* symmetric.                                                              *)
(***************************************************************************)
EXTENDS Reputation, TLC

Symmetry == Permutations(Requests) \cup Permutations(Ips)
=============================================================================
