---------------------------- MODULE MCNotifiers ----------------------------
(***************************************************************************)
(* Model-checking instance of Notifiers.  Syslog goes over TCP or over     *)
(* UDP, not both.                                                          *)
(***************************************************************************)
EXTENDS Notifiers

MCSettings ==
    {[discord |-> d, webhook |-> w, tcp |-> t, udp |-> u] :
        d \in {Off, "BLOCK"}, w \in {"LOG", "warn"}, t \in {Off, "CHALLENGE"}, u \in {Off, "ALLOW"}}
    \ {[discord |-> d, webhook |-> w, tcp |-> "CHALLENGE", udp |-> "ALLOW"] :
        d \in {Off, "BLOCK"}, w \in {"LOG", "warn"}}
=============================================================================
