------------------------------ MODULE MCProxy ------------------------------
(***************************************************************************)
(* Model-checking instance of Proxy.  A digest has two digits, four bits   *)
(* and one digit of it have to be zero, and nonce 0 has three: the script  *)
(* and the proxy must agree on the boundary.                               *)
(***************************************************************************)
EXTENDS Proxy, TLC

MCDigest ==
    [a \in Addresses |-> [n \in Nonces |->
        CASE n = 0 -> <<1, 9>> [] n = 1 -> <<0, 12>> [] OTHER -> <<0, 0>>]]

Symmetry == Permutations(Addresses)
=============================================================================
