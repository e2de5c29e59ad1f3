------------------------------ MODULE MCEngine ------------------------------
(***************************************************************************)
(* Model-checking instance of Engine: requests are symmetric, and states   *)
(* that differ only in what no later step and no invariant reads (an       *)
(* Instant after its call, a score after its decision) are one.            *)
(***************************************************************************)
EXTENDS Engine, TLC

Symmetry == Permutations(Requests)

Masked(live, f) == [r \in Requests |-> IF live[r] THEN f[r] ELSE 0]

Alive(stages) == [r \in Requests |-> pc[r] \in stages]

Through == [r \in Requests |-> r \in Forwarded(ip[r], 0, MaxClock + 1)]

Counted == [r \in Requests |-> pc[r] \in Checking \/ r \in stamps[ip[r]] \/ Through[r]]

Admitted == [r \in Requests |-> pc[r] \in {"payload"} \cup Recording \/ Through[r]]

Live ==
    <<world, memory, pc, Masked(Alive(Gating \cup {"recheck", "reevict"}), probe),
      Masked(Counted, checked), Masked(Alive(Recording), now), Masked(Admitted, limit),
      Masked(Alive(Recording), score), Through>>
=============================================================================
