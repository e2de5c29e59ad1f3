---------------------------- MODULE WindowQuota ----------------------------
(***************************************************************************)
(* What a per-client rate limiter promises, whatever its data structures:  *)
(* the log of admitted requests never holds more than Quota requests of    *)
(* one client in any span of Span clock units, nor more than               *)
(* SensitiveQuota requests of one client to sensitive paths.               *)
(*                                                                         *)
(* A log entry is a record [id, ip, at, sensitive].  RateLimiter           *)
(* implements this module (RateLimiter!Admissions).                        *)
(***************************************************************************)
EXTENDS Integers, FiniteSets

CONSTANTS
    Ids,              \* the requests
    Ips,              \* the clients
    Times,            \* the clock values
    Span,             \* the length of the span that is policed
    Quota,            \* admissions per client and span
    SensitiveQuota    \* ... to sensitive paths

VARIABLE log          \* the set of admitted requests

(* The requests that have not been admitted, and the entries for them.     *)
Pending == Ids \ {e.id : e \in log}

Entry == [id : Pending, ip : Ips, at : Times, sensitive : BOOLEAN]

(* The entries of l of client i in the span that starts at t.              *)
InSpan(l, i, t) == {e \in l : e.ip = i /\ t <= e.at /\ e.at < t + Span}

Respected(l) ==
    \A i \in Ips, t \in Times :
        LET span == InSpan(l, i, t) IN
        /\ Cardinality(span) <= Quota
        /\ Cardinality({e \in span : e.sensitive}) <= SensitiveQuota

Init == log = {}

Admit(e) ==
    /\ log' = log \cup {e}
    /\ Respected(log')

Next == \E e \in Entry : Admit(e)

Spec == Init /\ [][Next]_log
=============================================================================
