---------------------------- MODULE EngineProofs ----------------------------
(***************************************************************************)
(* Proofs about Engine, for every set of requests, clients and scores,     *)
(* every threshold, window and ban, and every skew and number of restarts. *)
(***************************************************************************)
EXTENDS Engine, SumTheorems

USE RequestsAssumption, NumbersAssumption

-----------------------------------------------------------------------------
(* The steps of a request.                                                 *)

(* Everything that a step of request r leaves to the others.               *)
Others(r) ==
    \A q \in Requests \ {r} :
        /\ pc'[q] = pc[q] /\ answer'[q] = answer[q]
        /\ probe'[q] = probe[q] /\ checked'[q] = checked[q] /\ now'[q] = now[q]
        /\ limit'[q] = limit[q] /\ score'[q] = score[q]

(* All steps of an inspection but the panic.                               *)
Proceed(r) ==
    \/ Enter(r) \/ LookupBan(r) \/ EvictBan(r) \/ Screen(r)
    \/ LookupRateBan(r) \/ EvictRateBan(r) \/ CountRequest(r) \/ InsertRateBan(r)
    \/ Payload(r) \/ AddScore(r) \/ Reenter(r) \/ InsertBan(r) \/ Escalate(r)

LEMMA AnswerMove ==
    ASSUME TypeOK, NEW r \in Requests, NEW a, NEW b, Answer(r, a, b)
    PROVE  /\ pc'[r] = "done" /\ \A q \in Requests \ {r} : pc'[q] = pc[q]
           /\ answer'[r].action = a /\ answer'[r].by = b
           /\ \A q \in Requests \ {r} : answer'[q] = answer[q]
BY DEF Answer, TypeOK

LEMMA AdvanceMove ==
    ASSUME TypeOK, NEW r \in Requests, NEW stage, Advance(r, stage)
    PROVE  /\ pc'[r] = stage /\ \A q \in Requests \ {r} : pc'[q] = pc[q]
           /\ answer' = answer
BY DEF Advance, TypeOK

LEMMA Destination ==
    ASSUME TypeOK, NEW r \in Requests
    PROVE  /\ \A a, b : Answer(r, a, b) => pc'[r] = "done"
           /\ \A stage : Advance(r, stage) => pc'[r] = stage
BY AnswerMove, AdvanceMove

LEMMA DecideTyped == Decide \in {"Log", "Block"}
BY DEF Decide

(* Where each step leads.                                                  *)
LEMMA EnterMoves ==
    ASSUME NEW r \in Requests, Enter(r)
    PROVE  /\ pc[r] = "idle"
           /\ Advance(r, "gate") \/ Answer(r, "Allow", "ALLOWLIST")
BY DEF Enter

LEMMA LookupMoves ==
    ASSUME NEW r \in Requests, LookupBan(r)
    PROVE  \/ pc[r] = "gate" /\ \/ Advance(r, "rules") \/ Advance(r, "evict")
                                \/ Answer(r, "Block", "REP")
           \/ pc[r] = "recheck" /\ \/ Advance(r, "repBan") \/ Advance(r, "reevict")
                                   \/ Advance(r, "session")
<1>1. CASE pc[r] = "gate"
    BY <1>1 DEF LookupBan, Unbanned, Gating
<1>2. CASE pc[r] = "recheck"
    BY <1>2 DEF LookupBan, Unbanned, Gating
<1> QED
    BY <1>1, <1>2 DEF LookupBan

LEMMA EvictMoves ==
    ASSUME NEW r \in Requests, EvictBan(r)
    PROVE  \/ pc[r] = "evict" /\ Advance(r, "rules")
           \/ pc[r] = "reevict" /\ Advance(r, "repBan")
BY DEF EvictBan, Unbanned, Gating

LEMMA ScreenMoves ==
    ASSUME NEW r \in Requests, Screen(r)
    PROVE  /\ pc[r] = "rules"
           /\ \/ Advance(r, "rate") /\ checked' = [checked EXCEPT ![r] = clock]
              \/ /\ \/ Answer(r, "Block", "IP") \/ Answer(r, "Block", "STATIC")
                    \/ \E a \in {"Allow", "Log", "Block"} : Answer(r, a, "VPATCH")
                 /\ checked' = checked
BY DecideTyped DEF Screen

LEMMA LookupRateMoves ==
    ASSUME NEW r \in Requests, LookupRateBan(r)
    PROVE  /\ pc[r] = "rate"
           /\ \/ Advance(r, "count") \/ Advance(r, "rateEvict")
              \/ Answer(r, Decide, "RATE")
BY DEF LookupRateBan

LEMMA CountMoves ==
    ASSUME NEW r \in Requests, CountRequest(r)
    PROVE  pc[r] = "count" /\ (Advance(r, "rateBan") \/ Advance(r, "payload"))
BY DEF CountRequest

LEMMA PayloadMoves ==
    ASSUME NEW r \in Requests, Payload(r)
    PROVE  /\ pc[r] = "payload"
           /\ \/ Answer(r, "Allow", "CLEAN") /\ UNCHANGED <<score, now>>
              \/ /\ Advance(r, "add") /\ now' = [now EXCEPT ![r] = clock]
                 /\ \E s \in Scores : score' = [score EXCEPT ![r] = s]
BY DEF Payload

LEMMA AddMoves ==
    ASSUME NEW r \in Requests, AddScore(r)
    PROVE  pc[r] = "add" /\ (Advance(r, "reenter") \/ Advance(r, "session"))
BY DEF AddScore

LEMMA EscalateMoves ==
    ASSUME NEW r \in Requests, Escalate(r)
    PROVE  /\ pc[r] = "session"
           /\ \E a \in Actions, b \in {"SES", "SES_CHALLENGE", "SCORE"} : Answer(r, a, b)
<1>1. pc[r] = "session"
    BY DEF Escalate
<1>2. \E a \in Actions, b \in {"SES", "SES_CHALLENGE", "SCORE"} : Answer(r, a, b)
    <2>1. "Challenge" \in Actions /\ "Log" \in Actions /\ Decide \in Actions
        BY DecideTyped DEF Actions
    <2> QED
        BY <2>1 DEF Escalate
<1> QED
    BY <1>1, <1>2

(* A step ends in the answer, stays among the stages that use one Instant, *)
(* or enters the next ones with a new Instant.                             *)
LEMMA Stages ==
    ASSUME TypeOK, NEW r \in Requests, Proceed(r)
    PROVE  \/ /\ \E a \in Actions, b \in Rules : Answer(r, a, b)
              /\ UNCHANGED instants
           \/ /\ \E stage \in Gating : Advance(r, stage)
              /\ pc[r] \in Gating /\ UNCHANGED instants
           \/ /\ \E stage \in Checking : Advance(r, stage)
              /\ pc[r] \in Checking /\ UNCHANGED instants
           \/ /\ \E stage \in Recording : Advance(r, stage)
              /\ pc[r] \in Recording /\ UNCHANGED <<checked, now>>
              /\ probe' = probe \/ probe' = [probe EXCEPT ![r] = clock]
           \/ /\ Advance(r, "gate") /\ UNCHANGED <<checked, now>>
              /\ probe' = [probe EXCEPT ![r] = clock]
           \/ /\ Advance(r, "rate") /\ UNCHANGED <<probe, now>>
              /\ checked' = [checked EXCEPT ![r] = clock]
           \/ /\ Advance(r, "add") /\ UNCHANGED <<probe, checked>>
              /\ now' = [now EXCEPT ![r] = clock]
<1> USE DEF instants
<1>1. CASE Enter(r)
    BY <1>1 DEF Enter, Actions, Rules
<1>2. CASE LookupBan(r)
    <2>1. UNCHANGED instants
        BY <1>2 DEF LookupBan
    <2>2. CASE pc[r] = "gate"
        <3>1. Advance(r, "rules") \/ Advance(r, "evict") \/ Answer(r, "Block", "REP")
            BY <1>2, <2>2, LookupMoves
        <3> QED
            BY <2>1, <2>2, <3>1 DEF Gating, Actions, Rules
    <2>3. CASE pc[r] = "recheck"
        <3>1. Advance(r, "repBan") \/ Advance(r, "reevict") \/ Advance(r, "session")
            BY <1>2, <2>3, LookupMoves
        <3> QED
            BY <2>1, <2>3, <3>1 DEF Recording
    <2> QED
        BY <1>2, <2>2, <2>3, LookupMoves
<1>3. CASE EvictBan(r)
    <2>1. UNCHANGED instants
        BY <1>3 DEF EvictBan
    <2> QED
        BY <1>3, <2>1, EvictMoves DEF Gating, Recording
<1>4. CASE Screen(r)
    <2>1. UNCHANGED <<probe, now>>
        BY <1>4 DEF Screen
    <2> QED
        BY <1>4, <2>1, ScreenMoves DEF Actions, Rules
<1>5. CASE LookupRateBan(r)
    <2>1. UNCHANGED instants /\ pc[r] = "rate"
        BY <1>5 DEF LookupRateBan
    <2> QED
        BY <1>5, <2>1, LookupRateMoves, DecideTyped DEF Checking, Actions, Rules
<1>6. CASE EvictRateBan(r)
    BY <1>6 DEF EvictRateBan, Checking
<1>7. CASE CountRequest(r)
    <2>1. UNCHANGED instants /\ pc[r] = "count"
        BY <1>7 DEF CountRequest
    <2> QED
        BY <1>7, <2>1, CountMoves DEF Checking
<1>8. CASE InsertRateBan(r)
    BY <1>8, DecideTyped DEF InsertRateBan, Actions, Rules
<1>9. CASE Payload(r)
    <2>1. UNCHANGED <<probe, checked>>
        BY <1>9 DEF Payload
    <2> QED
        BY <1>9, <2>1, PayloadMoves DEF Actions, Rules
<1>10. CASE AddScore(r)
    <2>1. UNCHANGED instants /\ pc[r] = "add"
        BY <1>10 DEF AddScore
    <2> QED
        BY <1>10, <2>1, AddMoves DEF Recording
<1>11. CASE Reenter(r)
    BY <1>11 DEF Reenter, Recording
<1>12. CASE InsertBan(r)
    BY <1>12 DEF InsertBan, Recording
<1>13. CASE Escalate(r)
    <2>1. UNCHANGED instants
        BY <1>13 DEF Escalate
    <2> QED
        BY <1>13, <2>1, EscalateMoves DEF Rules
<1> QED
    BY <1>1, <1>2, <1>3, <1>4, <1>5, <1>6, <1>7, <1>8, <1>9, <1>10, <1>11,
       <1>12, <1>13 DEF Proceed

(* The books that no step of a request touches, and those that one does.   *)
LEMMA Untouched ==
    ASSUME NEW r \in Requests, Proceed(r)
    PROVE  /\ up /\ UNCHANGED world
           /\ rep' = rep \/ AddScore(r)
           /\ session' = session \/ Escalate(r)
           /\ stamps' = stamps \/ CountRequest(r)
           /\ limit' = limit \/ CountRequest(r)
           /\ score' = score \/ Payload(r)
           /\ pc[r] \in {"idle", "payload"} \cup Gating \cup Checking \cup Recording
<1> USE DEF memory, hits, Gating, Checking, Recording
<1>1. CASE Enter(r)
    BY <1>1 DEF Enter
<1>2. CASE LookupBan(r)
    BY <1>2 DEF LookupBan
<1>3. CASE EvictBan(r)
    BY <1>3 DEF EvictBan
<1>4. CASE Screen(r)
    BY <1>4 DEF Screen
<1>5. CASE LookupRateBan(r)
    BY <1>5 DEF LookupRateBan
<1>6. CASE EvictRateBan(r)
    BY <1>6 DEF EvictRateBan
<1>7. CASE CountRequest(r)
    BY <1>7 DEF CountRequest
<1>8. CASE InsertRateBan(r)
    BY <1>8 DEF InsertRateBan
<1>9. CASE Payload(r)
    BY <1>9 DEF Payload
<1>10. CASE AddScore(r)
    BY <1>10 DEF AddScore
<1>11. CASE Reenter(r)
    BY <1>11 DEF Reenter
<1>12. CASE InsertBan(r)
    BY <1>12 DEF InsertBan
<1>13. CASE Escalate(r)
    BY <1>13 DEF Escalate
<1> QED
    BY <1>1, <1>2, <1>3, <1>4, <1>5, <1>6, <1>7, <1>8, <1>9, <1>10, <1>11,
       <1>12, <1>13 DEF Proceed

LEMMA OthersStay ==
    ASSUME TypeOK, NEW r \in Requests, Proceed(r)
    PROVE  Others(r)
<1>1. \A q \in Requests \ {r} : pc'[q] = pc[q] /\ answer'[q] = answer[q]
    BY Stages, AnswerMove, AdvanceMove
<1>2. \A q \in Requests \ {r} :
        probe'[q] = probe[q] /\ checked'[q] = checked[q] /\ now'[q] = now[q]
    BY Stages DEF TypeOK, instants
<1>3. \A q \in Requests \ {r} : limit'[q] = limit[q]
    <2>1. CASE CountRequest(r)
        BY <2>1 DEF CountRequest, TypeOK
    <2> QED
        BY <2>1, Untouched
<1>4. \A q \in Requests \ {r} : score'[q] = score[q]
    <2>1. CASE Payload(r)
        BY <2>1, PayloadMoves DEF TypeOK
    <2> QED
        BY <2>1, Untouched
<1> QED
    BY <1>1, <1>2, <1>3, <1>4 DEF Others

LEMMA NextSteps ==
    Next <=> \/ \E r \in Requests : Proceed(r) \/ Panic(r)
             \/ Stop \/ Restart \/ Tick
BY DEF Next, Inspect, Continue, Proceed

-----------------------------------------------------------------------------
(* Types.                                                                  *)

LEMMA TypeInit == Init => TypeOK
BY DEF Init, TypeOK, Pcs, NoEntries, NoStamps

LEMMA Typing ==
    ASSUME TypeOK
    PROVE  /\ clock \in 0 .. MaxClock
           /\ \A r \in Requests : /\ ip[r] \in Ips /\ pc[r] \in Pcs
                                  /\ probe[r] \in 0 .. MaxClock
                                  /\ checked[r] \in 0 .. MaxClock
                                  /\ now[r] \in 0 .. MaxClock
                                  /\ score[r] \in Nat /\ limit[r] \in Nat
           /\ \A i \in Ips : rep[i] # None =>
                rep[i] \in [total : Nat, seen : 0 .. MaxClock]
           /\ \A i \in Ips : repBan[i] # None => repBan[i] \in Nat
           /\ \A i \in Ips : session[i] # None =>
                session[i] \in [score : Nat, count : Nat, start : 0 .. MaxClock]
<1>1. \A r \in Requests : score[r] \in Nat
    <2>1. Scores \cup {0} \subseteq Nat
        OBVIOUS
    <2> QED
        BY <2>1 DEF TypeOK
<1>2. \A r \in Requests : limit[r] \in Nat
    <2>1. RateLimits \cup {0} \subseteq Nat
        BY ConfigAssumption
    <2> QED
        BY <2>1 DEF TypeOK
<1> QED
    BY <1>1, <1>2 DEF TypeOK

LEMMA BeforeTyped ==
    ASSUME TypeOK, NEW r \in Requests
    PROVE  /\ Before(r) \in Nat
           /\ rep[ip[r]] # None /\ now[r] - rep[ip[r]].seen <= RepDecay =>
                Before(r) = rep[ip[r]].total
<1>1. /\ ip[r] \in Ips /\ now[r] \in Nat
      /\ rep[ip[r]] # None => rep[ip[r]] \in [total : Nat, seen : 0 .. MaxClock]
    BY Typing
<1> QED
    BY <1>1 DEF Before

LEMMA AccumulatedTyped ==
    ASSUME TypeOK, NEW r \in Requests
    PROVE  Accumulated(r) \in [score : Nat, count : Nat, start : 0 .. MaxClock]
<1>1. ip[r] \in Ips /\ clock \in 0 .. MaxClock
    BY DEF TypeOK
<1>3. score[r] \in Nat
    BY Typing
<1>2. session[ip[r]] # None =>
        session[ip[r]] \in [score : Nat, count : Nat, start : 0 .. MaxClock]
    BY <1>1 DEF TypeOK
<1> QED
    BY <1>1, <1>2, <1>3 DEF Accumulated

LEMMA TypeStep ==
    ASSUME TypeOK, NEW r \in Requests, Proceed(r)
    PROVE  TypeOK'
<1>1. /\ pc' \in [Requests -> Pcs]
      /\ answer' \in [Requests -> [action : Actions, by : Rules] \cup {None}]
    <2>1. ASSUME NEW a \in Actions, NEW b \in Rules, Answer(r, a, b)
          PROVE  /\ pc' \in [Requests -> Pcs]
                 /\ answer' \in [Requests -> [action : Actions, by : Rules] \cup {None}]
        BY <2>1 DEF TypeOK, Answer, Pcs
    <2>2. ASSUME NEW stage \in Pcs, Advance(r, stage)
          PROVE  /\ pc' \in [Requests -> Pcs]
                 /\ answer' \in [Requests -> [action : Actions, by : Rules] \cup {None}]
        BY <2>2 DEF TypeOK, Advance
    <2>3. \/ \E a \in Actions, b \in Rules : Answer(r, a, b)
          \/ \E stage \in Pcs : Advance(r, stage)
        BY Stages DEF Pcs, Gating, Checking, Recording
    <2> QED
        BY <2>1, <2>2, <2>3
<1>2. /\ probe' \in [Requests -> 0 .. MaxClock]
      /\ checked' \in [Requests -> 0 .. MaxClock]
      /\ now' \in [Requests -> 0 .. MaxClock]
    BY Stages DEF TypeOK, instants
<1>3. rep' \in [Ips -> [total : Nat, seen : 0 .. MaxClock] \cup {None}]
    <2>1. CASE AddScore(r)
        <3>1. Before(r) + score[r] \in Nat /\ now[r] \in 0 .. MaxClock
            BY BeforeTyped, Typing
        <3>2. rep' = [rep EXCEPT ![ip[r]] = [total |-> Before(r) + score[r], seen |-> now[r]]]
            BY <2>1 DEF AddScore
        <3> QED
            BY <3>1, <3>2 DEF TypeOK
    <2> QED
        BY <2>1, Untouched DEF TypeOK
<1>4. session' \in [Ips -> [score : Nat, count : Nat, start : 0 .. MaxClock] \cup {None}]
    <2>1. CASE Escalate(r)
        <3>1. session' = [session EXCEPT ![ip[r]] = Accumulated(r)]
            BY <2>1 DEF Escalate
        <3> QED
            BY <3>1, AccumulatedTyped DEF TypeOK
    <2> QED
        BY <2>1, Untouched DEF TypeOK
<1>5. stamps' \in [Ips -> SUBSET Requests] /\ limit' \in [Requests -> RateLimits \cup {0}]
    <2>1. CASE CountRequest(r)
        BY <2>1 DEF CountRequest, Kept, TypeOK
    <2> QED
        BY <2>1, Untouched DEF TypeOK
<1>6. score' \in [Requests -> Scores \cup {0}]
    <2>1. CASE Payload(r)
        BY <2>1, PayloadMoves DEF TypeOK
    <2> QED
        BY <2>1, Untouched DEF TypeOK
<1>7. repBan' \in [Ips -> Nat \cup {None}]
    <2>1. \/ repBan' = repBan \/ repBan' = [repBan EXCEPT ![ip[r]] = None]
          \/ repBan' = [repBan EXCEPT ![ip[r]] = now[r] + RepBan]
        BY DEF Proceed, memory, Enter, LookupBan, EvictBan, Screen, LookupRateBan, EvictRateBan,
               CountRequest, InsertRateBan, Payload, AddScore, Reenter, InsertBan, Escalate
    <2>2. now[r] + RepBan \in Nat /\ repBan \in [Ips -> Nat \cup {None}]
        BY Typing DEF TypeOK
    <2> QED
        BY <2>1, <2>2
<1>8. rateBan' \in [Ips -> Nat \cup {None}]
    <2>1. \/ rateBan' = rateBan \/ rateBan' = [rateBan EXCEPT ![ip[r]] = None]
          \/ rateBan' = [rateBan EXCEPT ![ip[r]] = checked[r] + RateBan]
        BY DEF Proceed, memory, Enter, LookupBan, EvictBan, Screen, LookupRateBan, EvictRateBan,
               CountRequest, InsertRateBan, Payload, AddScore, Reenter, InsertBan, Escalate
    <2>2. checked[r] + RateBan \in Nat /\ rateBan \in [Ips -> Nat \cup {None}]
        BY Typing DEF TypeOK
    <2> QED
        BY <2>1, <2>2
<1>9. challengeable' \in [Requests -> BOOLEAN]
    <2>1. challengeable' = challengeable
          \/ \E c \in BOOLEAN : challengeable' = [challengeable EXCEPT ![r] = c]
        BY DEF Proceed, hits, Enter, LookupBan, EvictBan, Screen, LookupRateBan, EvictRateBan,
               CountRequest, InsertRateBan, Payload, AddScore, Reenter, InsertBan, Escalate
    <2> QED
        BY <2>1 DEF TypeOK
<1>10. UNCHANGED <<mode, challengeOn, compiles, clock, up, stops, ip>>
    BY Untouched DEF world, config
<1> QED
    BY <1>1, <1>2, <1>3, <1>4, <1>5, <1>6, <1>7, <1>8, <1>9, <1>10 DEF TypeOK

LEMMA TypeNext == TypeOK /\ [Next]_vars => TypeOK'
<1> SUFFICES ASSUME TypeOK, [Next]_vars PROVE TypeOK'
    OBVIOUS
<1> USE DEF world, config, memory, instants, hits, requests
<1>1. ASSUME NEW r \in Requests, Proceed(r) PROVE TypeOK'
    BY <1>1, TypeStep
<1>2. ASSUME NEW r \in Requests, Panic(r) PROVE TypeOK'
    BY <1>2 DEF Panic, TypeOK, Pcs
<1>3. CASE Stop
    <2>1. stops' \in 0 .. MaxStops /\ pc' \in [Requests -> Pcs]
        BY <1>3 DEF Stop, TypeOK, Pcs
    <2> QED
        BY <1>3, <2>1 DEF Stop, TypeOK
<1>4. CASE Restart
    BY <1>4 DEF Restart, TypeOK, NoEntries, NoStamps
<1>5. CASE Tick
    BY <1>5 DEF Tick, TypeOK
<1>6. CASE UNCHANGED vars
    BY <1>6 DEF vars, TypeOK
<1> QED
    BY <1>1, <1>2, <1>3, <1>4, <1>5, <1>6, NextSteps

-----------------------------------------------------------------------------
(* The trackers' clocks.                                                   *)

(* The stages after record has left an entry.                              *)
Recorded == {"reenter", "recheck", "reevict", "repBan", "session"}

(* No request is in an inspection while the process is down.               *)
Quiet == ~up => InFlight = {}

(* An Instant is in use for at most MaxSkew.                               *)
Timely ==
    /\ \A r \in Requests : probe[r] <= clock /\ checked[r] <= clock /\ now[r] <= clock
    /\ \A r \in Requests : pc[r] \in Gating => clock <= probe[r] + MaxSkew
    /\ \A r \in Requests : pc[r] \in Checking => clock <= checked[r] + MaxSkew
    /\ \A r \in Requests : pc[r] \in Recording => clock <= now[r] + MaxSkew

(* A request that reputation has recorded, and a session, have a           *)
(* reputation entry of about their time.                                   *)
Recent ==
    /\ \A i \in Ips : rep[i] # None => rep[i].seen <= clock
    /\ \A r \in Requests : pc[r] \in Recorded =>
          rep[ip[r]] # None /\ now[r] <= rep[ip[r]].seen + MaxSkew
    /\ \A i \in Ips : session[i] # None =>
          /\ rep[i] # None
          /\ session[i].start <= clock
          /\ session[i].start <= rep[i].seen + 2 * MaxSkew

Clocks == TypeOK /\ Quiet /\ Timely /\ Recent

(* AddScore brings a request among the recorded, Escalate takes it away.   *)
LEMMA Recorders ==
    ASSUME TypeOK, NEW r \in Requests, Proceed(r)
    PROVE  /\ AddScore(r) => pc[r] = "add" /\ pc'[r] \in Recorded
           /\ Escalate(r) => pc[r] = "session" /\ pc'[r] = "done"
           /\ \/ AddScore(r) \/ Escalate(r) \/ (pc'[r] \in Recorded <=> pc[r] \in Recorded)
           /\ pc[r] \in Recording => now'[r] = now[r]
<1>1. AddScore(r) => pc[r] = "add" /\ pc'[r] \in Recorded
    <2>1. AddScore(r) => pc[r] = "add"
        BY DEF AddScore
    <2> QED
        BY <2>1, AddMoves, Destination DEF Recorded
<1>2. Escalate(r) => pc[r] = "session" /\ pc'[r] = "done"
    <2>1. Escalate(r) => pc[r] = "session"
        BY DEF Escalate
    <2> QED
        BY <2>1, EscalateMoves, Destination
<1>3. \/ AddScore(r) \/ Escalate(r) \/ (pc'[r] \in Recorded <=> pc[r] \in Recorded)
    <2> USE DEF Recorded
    <2>1. CASE Enter(r)
        BY <2>1, EnterMoves, Destination
    <2>2. CASE LookupBan(r)
        <3>1. CASE pc[r] = "gate"
            BY <2>2, <3>1, LookupMoves, Destination
        <3>2. CASE pc[r] = "recheck"
            BY <2>2, <3>2, LookupMoves, Destination
        <3> QED
            BY <2>2, <3>1, <3>2, LookupMoves
    <2>3. CASE EvictBan(r)
        BY <2>3, EvictMoves, Destination
    <2>4. CASE Screen(r)
        BY <2>4, ScreenMoves, Destination
    <2>5. CASE LookupRateBan(r)
        BY <2>5, LookupRateMoves, Destination
    <2>6. CASE EvictRateBan(r)
        BY <2>6, Destination DEF EvictRateBan
    <2>7. CASE CountRequest(r)
        BY <2>7, CountMoves, Destination
    <2>8. CASE InsertRateBan(r)
        BY <2>8, Destination DEF InsertRateBan
    <2>9. CASE Payload(r)
        BY <2>9, PayloadMoves, Destination
    <2>10. CASE Reenter(r)
        BY <2>10, Destination DEF Reenter
    <2>11. CASE InsertBan(r)
        BY <2>11, Destination DEF InsertBan
    <2> QED
        BY <2>1, <2>2, <2>3, <2>4, <2>5, <2>6, <2>7, <2>8, <2>9, <2>10, <2>11
           DEF Proceed
<1>4. pc[r] \in Recording => now'[r] = now[r]
    <2>1. ASSUME pc[r] \in Recording PROVE ~Payload(r)
        BY <2>1 DEF Payload, Recording
    <2>2. ~Payload(r) => now' = now
        BY DEF Proceed, instants, Enter, LookupBan, EvictBan, Screen, LookupRateBan,
               EvictRateBan, CountRequest, InsertRateBan, AddScore, Reenter, InsertBan, Escalate
    <2> QED
        BY <2>1, <2>2
<1> QED
    BY <1>1, <1>2, <1>3, <1>4

(* A panic or a stop takes every inspection with it.                       *)
LEMMA DownMove ==
    ASSUME TypeOK, Stop \/ \E r \in Requests : Panic(r)
    PROVE  /\ ~up' /\ InFlight' = {}
           /\ \A q \in Requests :
                pc'[q] \notin Gating \cup Checking \cup Recording
           /\ \A q \in Requests : q \in InFlight => pc'[q] = "lost"
           /\ \A q \in Requests : q \notin InFlight => pc'[q] = pc[q]
           /\ UNCHANGED <<clock, rep, session, stamps, ip, instants, limit, score, answer>>
<1>1. pc' = [q \in Requests |-> IF q \in InFlight THEN "lost" ELSE pc[q]]
    BY DEF Stop, Panic
<1>2. \A q \in Requests : pc'[q] \notin Gating \cup Checking \cup Recording
    BY <1>1 DEF InFlight, Gating, Checking, Recording
<1>3. InFlight' = {}
    BY <1>2 DEF InFlight
<1> QED
    BY <1>1, <1>2, <1>3 DEF Stop, Panic, memory, hits

LEMMA ClocksInit == Init => Clocks
<1> SUFFICES ASSUME Init PROVE Clocks
    OBVIOUS
<1>1. TypeOK
    BY TypeInit
<1>2. \A r \in Requests : pc[r] = "idle"
    BY DEF Init
<1>3. InFlight = {}
    BY <1>2 DEF InFlight, Gating, Checking, Recording
<1>4. Timely
    BY <1>1, <1>2 DEF Timely, Init, Gating, Checking, Recording
<1>5. Recent
    BY <1>2 DEF Recent, Recorded, Init, NoEntries
<1> QED
    BY <1>1, <1>3, <1>4, <1>5 DEF Clocks, Quiet

LEMMA TimelyStep ==
    ASSUME Clocks, NEW r \in Requests, Proceed(r)
    PROVE  Timely'
<1>a. TypeOK /\ Timely
    BY DEF Clocks
<1>1. clock' = clock /\ clock \in Nat
    BY <1>a, Untouched, Typing DEF world
<1>2. \A q \in Requests \ {r} :
        /\ pc'[q] = pc[q]
        /\ probe'[q] = probe[q] /\ checked'[q] = checked[q] /\ now'[q] = now[q]
    BY <1>a, OthersStay DEF Others
<1>3. /\ probe'[r] <= clock /\ checked'[r] <= clock /\ now'[r] <= clock
      /\ pc'[r] \in Gating => clock <= probe'[r] + MaxSkew
      /\ pc'[r] \in Checking => clock <= checked'[r] + MaxSkew
      /\ pc'[r] \in Recording => clock <= now'[r] + MaxSkew
    <2> USE DEF instants, Timely
    <2>1. /\ probe'[r] \in {probe[r], clock} /\ checked'[r] \in {checked[r], clock}
          /\ now'[r] \in {now[r], clock}
        BY <1>a, Stages DEF TypeOK
    <2>2. probe'[r] <= clock /\ checked'[r] <= clock /\ now'[r] <= clock
        BY <1>a, <1>1, <2>1
    <2>3. pc'[r] \in Gating => clock <= probe'[r] + MaxSkew
        <3>1. pc'[r] \in Gating =>
                (pc[r] \in Gating /\ probe' = probe) \/ probe' = [probe EXCEPT ![r] = clock]
            BY <1>a, Stages, Destination DEF Gating, Checking, Recording
        <3> QED
            BY <1>a, <1>1, <3>1 DEF TypeOK
    <2>4. pc'[r] \in Checking => clock <= checked'[r] + MaxSkew
        <3>1. pc'[r] \in Checking =>
                \/ pc[r] \in Checking /\ checked' = checked
                \/ checked' = [checked EXCEPT ![r] = clock]
            BY <1>a, Stages, Destination DEF Gating, Checking, Recording
        <3> QED
            BY <1>a, <1>1, <3>1 DEF TypeOK
    <2>5. pc'[r] \in Recording => clock <= now'[r] + MaxSkew
        <3>1. pc'[r] \in Recording =>
                (pc[r] \in Recording /\ now' = now) \/ now' = [now EXCEPT ![r] = clock]
            BY <1>a, Stages, Destination DEF Gating, Checking, Recording
        <3> QED
            BY <1>a, <1>1, <3>1 DEF TypeOK
    <2> QED
        BY <2>2, <2>3, <2>4, <2>5
<1> QED
    BY <1>a, <1>1, <1>2, <1>3 DEF Timely

(* The entry that AddScore leaves is at most MaxSkew old.                  *)
LEMMA RecentAddScore ==
    ASSUME Clocks, NEW r \in Requests, AddScore(r)
    PROVE  Recent'
<1>a. TypeOK /\ Timely /\ Recent /\ Proceed(r)
    BY DEF Clocks, Proceed
<1>1. /\ ip[r] \in Ips /\ clock \in Nat /\ now[r] \in Nat
      /\ now[r] <= clock /\ clock <= now[r] + MaxSkew
    BY <1>a, Typing DEF AddScore, Timely, Recording
<1>2. UNCHANGED <<clock, session, ip, now>>
    BY DEF AddScore, world, instants
<1>3. /\ rep'[ip[r]] = [total |-> Before(r) + score[r], seen |-> now[r]]
      /\ \A i \in Ips \ {ip[r]} : rep'[i] = rep[i]
    BY <1>a, <1>1 DEF AddScore, TypeOK
<1>4. rep'[ip[r]] # None /\ rep'[ip[r]].seen = now[r]
    <2>1. Before(r) + score[r] \in Nat
        BY <1>a, BeforeTyped, Typing
    <2> QED
        BY <1>1, <1>3, <2>1, NoneAssumption
<1>5. \A i \in Ips : rep'[i] # None => rep'[i].seen <= clock
    BY <1>a, <1>1, <1>3, <1>4 DEF Recent
<1>6. \A q \in Requests : pc'[q] \in Recorded =>
        rep'[ip[q]] # None /\ now[q] <= rep'[ip[q]].seen + MaxSkew
    <2>1. ASSUME NEW q \in Requests, pc'[q] \in Recorded
          PROVE  rep'[ip[q]] # None /\ now[q] <= rep'[ip[q]].seen + MaxSkew
        <3>1. now[q] <= clock /\ now[q] \in Nat /\ ip[q] \in Ips
            BY <1>a, Typing DEF Timely
        <3>2. CASE ip[q] = ip[r]
            BY <1>1, <1>4, <3>1, <3>2
        <3>3. CASE ip[q] # ip[r]
            <4>1. pc'[q] = pc[q]
                BY <1>a, <3>3, OthersStay DEF Others
            <4> QED
                BY <1>a, <1>3, <2>1, <3>1, <3>3, <4>1 DEF Recent
        <3> QED
            BY <3>2, <3>3
    <2> QED
        BY <2>1
<1>7. ASSUME NEW i \in Ips, session[i] # None
      PROVE  /\ rep'[i] # None /\ session[i].start <= clock
             /\ session[i].start <= rep'[i].seen + 2 * MaxSkew
    <2>1. /\ session[i].start <= clock /\ session[i].start \in Nat
          /\ rep[i] # None /\ session[i].start <= rep[i].seen + 2 * MaxSkew
        BY <1>a, <1>7, Typing DEF Recent
    <2>2. CASE i = ip[r]
        BY <1>1, <1>4, <2>1, <2>2
    <2>3. CASE i # ip[r]
        BY <1>3, <2>1, <2>3
    <2> QED
        BY <2>2, <2>3
<1> QED
    BY <1>2, <1>5, <1>6, <1>7 DEF Recent

(* A session starts at most MaxSkew after its first request's Instant.     *)
LEMMA RecentEscalate ==
    ASSUME Clocks, NEW r \in Requests, Escalate(r)
    PROVE  Recent'
<1>a. TypeOK /\ Timely /\ Recent /\ Proceed(r)
    BY DEF Clocks, Proceed
<1>1. UNCHANGED <<clock, rep, ip, now>>
    BY DEF Escalate, world, instants
<1>2. /\ session'[ip[r]] = Accumulated(r) /\ ip[r] \in Ips
      /\ \A i \in Ips \ {ip[r]} : session'[i] = session[i]
    BY <1>a DEF Escalate, TypeOK
<1>3. \/ Accumulated(r).start = clock
      \/ session[ip[r]] # None /\ Accumulated(r).start = session[ip[r]].start
    BY DEF Accumulated
<1>4. /\ rep[ip[r]] # None /\ now[r] <= rep[ip[r]].seen + MaxSkew
      /\ clock <= now[r] + MaxSkew
    BY <1>a DEF Escalate, Recent, Timely, Recorded, Recording
<1>5. clock \in Nat /\ now[r] \in Nat /\ rep[ip[r]].seen \in Nat
    BY <1>a, <1>2, <1>4, Typing
<1>6. /\ session'[ip[r]].start <= clock
      /\ session'[ip[r]].start <= rep[ip[r]].seen + 2 * MaxSkew
    <2>1. CASE Accumulated(r).start = clock
        BY <1>2, <1>4, <1>5, <2>1
    <2>2. CASE session[ip[r]] # None /\ Accumulated(r).start = session[ip[r]].start
        BY <1>a, <1>2, <2>2 DEF Recent
    <2> QED
        BY <1>3, <2>1, <2>2
<1>7. \A q \in Requests : pc'[q] \in Recorded => pc[q] \in Recorded
    <2>1. pc'[r] = "done" /\ \A q \in Requests \ {r} : pc'[q] = pc[q]
        BY <1>a, Recorders, OthersStay DEF Others
    <2> QED
        BY <2>1 DEF Recorded
<1> QED
    BY <1>a, <1>1, <1>2, <1>4, <1>6, <1>7 DEF Recent

LEMMA RecentStep ==
    ASSUME Clocks, NEW r \in Requests, Proceed(r)
    PROVE  Recent'
<1>a. TypeOK /\ Recent
    BY DEF Clocks
<1>1. CASE AddScore(r)
    BY <1>1, RecentAddScore
<1>2. CASE Escalate(r)
    BY <1>2, RecentEscalate
<1>3. CASE ~AddScore(r) /\ ~Escalate(r)
    <2>1. UNCHANGED <<clock, rep, session, ip>>
        BY <1>3, Untouched DEF world
    <2>2. \A q \in Requests : pc'[q] \in Recorded => pc[q] \in Recorded /\ now'[q] = now[q]
        <3>1. pc'[r] \in Recorded => pc[r] \in Recorded /\ now'[r] = now[r]
            BY <1>a, <1>3, Recorders DEF Recorded, Recording
        <3>2. \A q \in Requests \ {r} : pc'[q] = pc[q] /\ now'[q] = now[q]
            BY <1>a, OthersStay DEF Others
        <3> QED
            BY <3>1, <3>2
    <2> QED
        BY <1>a, <2>1, <2>2 DEF Recent
<1> QED
    BY <1>1, <1>2, <1>3

LEMMA ClocksNext == Clocks /\ [Next]_vars => Clocks'
<1> SUFFICES ASSUME Clocks, [Next]_vars PROVE Clocks'
    OBVIOUS
<1>a. TypeOK /\ TypeOK' /\ Quiet /\ Timely /\ Recent
    BY TypeNext DEF Clocks
<1>1. ASSUME NEW r \in Requests, Proceed(r) PROVE Clocks'
    <2>1. Quiet'
        BY <1>1, Untouched DEF Quiet, world
    <2> QED
        BY <1>a, <1>1, <2>1, TimelyStep, RecentStep DEF Clocks
<1>2. CASE Stop \/ \E r \in Requests : Panic(r)
    <2>1. Quiet'
        BY <1>2, <1>a, DownMove DEF Quiet
    <2>2. Timely'
        BY <1>2, <1>a, DownMove DEF Timely, instants
    <2>3. Recent'
        <3>1. \A q \in Requests : pc'[q] \notin Recorded
            BY <1>2, <1>a, DownMove DEF Recorded, Recording
        <3> QED
            BY <1>2, <1>a, <3>1, DownMove DEF Recent
    <2> QED
        BY <1>a, <2>1, <2>2, <2>3 DEF Clocks
<1>3. CASE Restart
    <2>1. InFlight = {} /\ pc' = pc /\ up' = TRUE
        BY <1>3, <1>a DEF Restart, Quiet, requests
    <2>2. Timely'
        BY <1>3, <1>a DEF Restart, Timely, requests, instants
    <2>3. Recent'
        <3>1. \A q \in Requests : pc'[q] \notin Recorded
            BY <2>1 DEF InFlight, Recorded, Recording
        <3> QED
            BY <1>3, <3>1 DEF Restart, Recent, NoEntries
    <2> QED
        BY <1>a, <2>1, <2>2, <2>3 DEF Clocks, Quiet
<1>4. CASE Tick
    <2>1. /\ clock' = clock + 1 /\ clock \in Nat
          /\ UNCHANGED <<up, pc, ip, probe, checked, now, rep, session>>
        BY <1>4, <1>a, Typing DEF Tick, requests, instants, memory
    <2>2. Quiet'
        BY <1>a, <2>1 DEF Quiet, InFlight
    <2>3. Timely'
        <3>1. \A r \in Requests :
                probe[r] \in Nat /\ checked[r] \in Nat /\ now[r] \in Nat
            BY <1>a, Typing
        <3>2. \A r \in InFlight : clock < Since(r) + MaxSkew
            BY <1>4 DEF Tick
        <3>3. \A r \in Requests : pc[r] \in Gating => clock < probe[r] + MaxSkew
            <4>1. \A r \in Requests : pc[r] \in Gating => r \in InFlight /\ Since(r) = probe[r]
                BY DEF InFlight, Since, Gating, Checking
            <4> QED
                BY <3>2, <4>1
        <3>4. \A r \in Requests : pc[r] \in Checking => clock < checked[r] + MaxSkew
            <4>1. \A r \in Requests : pc[r] \in Checking => r \in InFlight /\ Since(r) = checked[r]
                BY DEF InFlight, Since, Gating, Checking
            <4> QED
                BY <3>2, <4>1
        <3>5. \A r \in Requests : pc[r] \in Recording => clock < now[r] + MaxSkew
            <4>1. \A r \in Requests : pc[r] \in Recording => r \in InFlight /\ Since(r) = now[r]
                BY DEF InFlight, Since, Gating, Checking, Recording
            <4> QED
                BY <3>2, <4>1
        <3> QED
            BY <1>a, <2>1, <3>1, <3>3, <3>4, <3>5 DEF Timely
    <2>4. Recent'
        <3>1. \A i \in Ips : rep[i] # None => rep'[i].seen <= clock'
            BY <1>a, <2>1, Typing DEF Recent
        <3>2. \A i \in Ips : session[i] # None => session'[i].start <= clock'
            BY <1>a, <2>1, Typing DEF Recent
        <3> QED
            BY <1>a, <2>1, <3>1, <3>2 DEF Recent
    <2> QED
        BY <1>a, <2>2, <2>3, <2>4 DEF Clocks
<1>5. CASE UNCHANGED vars
    BY <1>5, <1>a DEF Clocks, Quiet, Timely, Recent, InFlight,
                      vars, world, memory, requests, instants
<1> QED
    BY <1>1, <1>2, <1>3, <1>4, <1>5, NextSteps

-----------------------------------------------------------------------------
(* The session score is covered by the reputation total.                   *)

(* The requests whose score reputation has and the session does not.       *)
Pending(i) == {r \in Requests : pc[r] \in Recorded /\ ip[r] = i}

Owed(i) == SumOver(score, Pending(i))

Open(i) == session[i] # None /\ clock - session[i].start <= SessionWindow

Opened(i) == IF Open(i) THEN session[i].score ELSE 0

(* The total covers the open session and everything that is on its way to  *)
(* it: without the second part the next Escalate could break the first.    *)
Covered ==
    \A i \in Ips : Pending(i) # {} \/ session[i] # None =>
        rep[i] # None /\ Opened(i) + Owed(i) <= rep[i].total

LEMMA OwedNumber ==
    ASSUME TypeOK, NEW i
    PROVE  IsFiniteSet(Pending(i)) /\ Weighs(score, Pending(i)) /\ Owed(i) \in Nat
<1>1. Pending(i) \in SUBSET Requests
    BY DEF Pending
<1>2. IsFiniteSet(Pending(i)) /\ Weighs(score, Pending(i))
    BY <1>1, FS_Subset, Typing DEF Weighs
<1> QED
    BY <1>2, SumOfSet DEF Owed

LEMMA OwedNothing ==
    ASSUME TypeOK, NEW i, Pending(i) = {}
    PROVE  Owed(i) = 0
BY OwedNumber, SumOfSet DEF Owed

LEMMA OpenedNumber ==
    ASSUME TypeOK, NEW i \in Ips
    PROVE  Opened(i) \in Nat
BY Typing DEF Opened, Open

(* A step that leaves the books, who is pending and their scores alone.    *)
LEMMA SameBooks ==
    ASSUME TypeOK, Covered, UNCHANGED <<clock, rep, session, ip>>,
           \A q \in Requests : pc'[q] \in Recorded <=> pc[q] \in Recorded,
           \A q \in Requests : pc[q] \in Recorded => score'[q] = score[q]
    PROVE  Covered'
<1>1. ASSUME NEW i \in Ips PROVE Pending(i)' = Pending(i)
    BY DEF Pending
<1>2. ASSUME NEW i \in Ips PROVE Owed(i)' = Owed(i) /\ Opened(i)' = Opened(i)
    <2>1. \A q \in Pending(i) : score'[q] = score[q]
        BY DEF Pending
    <2>2. SumOver(score', Pending(i)) = SumOver(score, Pending(i))
        BY <2>1, OwedNumber, SumSame
    <2> QED
        BY <1>1, <2>2 DEF Owed, Opened, Open
<1> QED
    BY <1>1, <1>2 DEF Covered

(* Reputation does not decay under an open session or a pending request,   *)
(* by any Instant in use.                                                  *)
LEMMA NoDecay ==
    ASSUME Clocks, RepDecay >= SessionWindow + 2 * MaxSkew,
           NEW i \in Ips, Pending(i) # {} \/ Open(i), NEW r \in Requests
    PROVE  rep[i] # None /\ now[r] - rep[i].seen <= RepDecay
<1> USE DEF Clocks
<1>0. now[r] <= clock /\ now[r] \in Nat /\ clock \in Nat
    BY Typing DEF Timely
<1>1. CASE Pending(i) # {}
    <2>1. PICK q \in Requests : pc[q] \in Recorded /\ ip[q] = i
        BY <1>1 DEF Pending
    <2>2. /\ rep[i] # None /\ now[q] <= rep[i].seen + MaxSkew
          /\ clock <= now[q] + MaxSkew
        BY <2>1 DEF Recent, Timely, Recorded, Recording
    <2>3. rep[i].seen \in Nat /\ now[q] \in Nat
        BY <2>1, <2>2, Typing
    <2> QED
        BY <1>0, <2>2, <2>3
<1>2. CASE Open(i)
    <2>1. /\ rep[i] # None /\ session[i].start <= rep[i].seen + 2 * MaxSkew
          /\ session[i] # None /\ clock - session[i].start <= SessionWindow
        BY <1>2 DEF Open, Recent
    <2>2. rep[i].seen \in Nat /\ session[i].start \in Nat
        BY <2>1, Typing
    <2> QED
        BY <1>0, <2>1, <2>2
<1> QED
    BY <1>1, <1>2

LEMMA CoveredInit == Init => Covered
<1> SUFFICES ASSUME Init, NEW i \in Ips PROVE Pending(i) = {} /\ session[i] = None
    BY DEF Covered
<1> QED
    BY DEF Init, Pending, Recorded, NoEntries

(* The score that AddScore records raises both sides by the same.          *)
LEMMA CoveredRecord ==
    ASSUME Clocks, Clocks', Covered, RepDecay >= SessionWindow + 2 * MaxSkew,
           NEW r \in Requests, AddScore(r)
    PROVE  Covered'
<1> DEFINE i == ip[r]
           total == Before(r) + score[r]
<1>a. TypeOK /\ TypeOK' /\ Proceed(r)
    BY DEF Clocks, Proceed
<1>1. i \in Ips /\ score[r] \in Nat /\ Before(r) \in Nat
    BY <1>a, BeforeTyped, Typing
<1>2. UNCHANGED <<clock, session, ip, score>>
    BY DEF AddScore, world, hits
<1>3. /\ rep'[i] = [total |-> total, seen |-> now[r]]
      /\ \A j \in Ips \ {i} : rep'[j] = rep[j]
    BY <1>a, <1>1 DEF AddScore, TypeOK
<1>4. /\ pc[r] \notin Recorded /\ pc'[r] \in Recorded
      /\ \A q \in Requests \ {r} : pc'[q] = pc[q]
    BY <1>a, Recorders, OthersStay DEF Others, Recorded
<1>5. \A j \in Ips : Opened(j)' = Opened(j) /\ (session[j]' = session[j])
    BY <1>2 DEF Opened, Open
<1>6. ASSUME NEW j \in Ips \ {i}
      PROVE  Pending(j)' = Pending(j) /\ Owed(j)' = Owed(j)
    <2>1. Pending(j)' = Pending(j)
        BY <1>2, <1>4 DEF Pending
    <2> QED
        BY <1>2, <2>1 DEF Owed
<1>7. Owed(i)' = Owed(i) + score[r]
    <2>1. Pending(i)' = Pending(i) \cup {r} /\ r \notin Pending(i)
        BY <1>1, <1>2, <1>4 DEF Pending
    <2>2. Weighs(score, Pending(i) \cup {r})
        BY <1>a, <1>1, OwedNumber DEF Weighs
    <2>3. SumOver(score, Pending(i) \cup {r}) = SumOver(score, Pending(i)) + score[r]
        BY <1>a, <2>1, <2>2, OwedNumber, SumAdd
    <2> QED
        BY <1>2, <2>1, <2>3 DEF Owed
<1>8. Opened(i)' + Owed(i)' <= total
    <2>1. Opened(i)' = Opened(i) /\ Opened(i) \in Nat /\ Owed(i) \in Nat
        BY <1>a, <1>1, <1>2, <1>5, OwedNumber, OpenedNumber
    <2>2. CASE Pending(i) # {} \/ Open(i)
        <3>1. rep[i] # None /\ now[r] - rep[i].seen <= RepDecay
            BY <1>1, <2>2, NoDecay
        <3>2. Before(r) = rep[i].total
            BY <1>a, <3>1, BeforeTyped
        <3>3. Opened(i) + Owed(i) <= rep[i].total
            BY <1>1, <2>2 DEF Covered, Open
        <3> HIDE DEF i
        <3> QED
            BY <1>1, <1>7, <2>1, <3>2, <3>3
    <2>3. CASE Pending(i) = {} /\ ~Open(i)
        <3>1. Owed(i) = 0 /\ Opened(i) = 0
            BY <1>a, <2>3, OwedNothing DEF Opened
        <3> HIDE DEF i
        <3> QED
            BY <1>1, <1>7, <2>1, <3>1
    <2> QED
        BY <2>2, <2>3
<1>9. ASSUME NEW j \in Ips, Pending(j)' # {} \/ session[j]' # None
      PROVE  rep[j]' # None /\ Opened(j)' + Owed(j)' <= rep[j]'.total
    <2>1. CASE j = i
        <3>1. rep'[i] # None /\ rep'[i].total = total
            <4>1. Recent'
                BY DEF Clocks
            <4>2. ip'[r] = i
                BY <1>2
            <4> QED
                BY <1>3, <1>4, <4>1, <4>2 DEF Recent
        <3> QED
            BY <1>2, <1>8, <2>1, <3>1
    <2>2. CASE j # i
        BY <1>3, <1>5, <1>6, <1>9, <2>2 DEF Covered
    <2> QED
        BY <2>1, <2>2
<1> QED
    BY <1>9 DEF Covered

(* Escalate moves a score from what is pending to the session, or to a new *)
(* one.                                                                    *)
LEMMA EscalateBooks ==
    ASSUME TypeOK, NEW r \in Requests, pc[r] = "session"
    PROVE  /\ Accumulated(r).score = Opened(ip[r]) + score[r]
           /\ Owed(ip[r]) = score[r] + SumOver(score, Pending(ip[r]) \ {r})
           /\ SumOver(score, Pending(ip[r]) \ {r}) \in Nat
<1> DEFINE i == ip[r]
<1>1. i \in Ips /\ score[r] \in Nat /\ clock \in Nat
    BY Typing
<1>2. Accumulated(r).score = Opened(i) + score[r]
    <2>1. CASE session[i] = None
        BY <1>1, <2>1 DEF Accumulated, Opened, Open
    <2>2. CASE session[i] # None /\ clock - session[i].start > SessionWindow
        <3>1. ~Open(i)
            BY <1>1, <2>2, Typing DEF Open
        <3> QED
            BY <1>1, <2>2, <3>1 DEF Accumulated, Opened
    <2>3. CASE session[i] # None /\ ~(clock - session[i].start > SessionWindow)
        <3>1. Open(i)
            BY <1>1, <2>3, Typing DEF Open
        <3> QED
            BY <1>1, <2>3, <3>1 DEF Accumulated, Opened
    <2> QED
        BY <2>1, <2>2, <2>3
<1>3. r \in Pending(i)
    BY DEF Pending, Recorded
<1>4. Owed(i) = score[r] + SumOver(score, Pending(i) \ {r})
    BY <1>3, OwedNumber, SumOfSet DEF Owed
<1>5. SumOver(score, Pending(i) \ {r}) \in Nat
    <2>1. Pending(i) \ {r} \in SUBSET Pending(i)
        OBVIOUS
    <2>2. IsFiniteSet(Pending(i) \ {r}) /\ Weighs(score, Pending(i) \ {r})
        BY <2>1, OwedNumber, FS_Subset DEF Weighs
    <2> QED
        BY <2>2, SumOfSet
<1> QED
    BY <1>2, <1>4, <1>5

LEMMA CoveredEscalate ==
    ASSUME Clocks, Clocks', Covered, NEW r \in Requests, Escalate(r)
    PROVE  Covered'
<1> DEFINE i == ip[r]
<1>a. TypeOK /\ TypeOK' /\ Proceed(r)
    BY DEF Clocks, Proceed
<1>1. /\ i \in Ips /\ pc[r] = "session" /\ pc'[r] = "done"
      /\ \A q \in Requests \ {r} : pc'[q] = pc[q]
    BY <1>a, Recorders, OthersStay, Typing DEF Others
<1>b. UNCHANGED <<clock, rep, ip, score>>
    BY DEF Escalate, world
<1>2. /\ session'[i] = Accumulated(r)
      /\ \A j \in Ips \ {i} : session'[j] = session[j]
    BY <1>a, <1>1 DEF Escalate, TypeOK
<1>3. ASSUME NEW j \in Ips \ {i}
      PROVE  Pending(j)' = Pending(j) /\ Owed(j)' = Owed(j) /\ Opened(j)' = Opened(j)
    <2>1. Pending(j)' = Pending(j)
        BY <1>1, <1>b DEF Pending
    <2> QED
        BY <1>b, <1>2, <2>1 DEF Owed, Opened, Open
<1>4. Pending(i)' = Pending(i) \ {r}
    BY <1>1, <1>b DEF Pending, Recorded
<1>5. Opened(i)' <= Opened(i) + score[r]
    <2>1. /\ Opened(i) \in Nat /\ score[r] \in Nat
          /\ Accumulated(r).score = Opened(i) + score[r]
        BY <1>a, <1>1, OpenedNumber, EscalateBooks, Typing
    <2>2. Opened(i)' = Accumulated(r).score \/ Opened(i)' = 0
        BY <1>b, <1>2 DEF Opened, Open
    <2> HIDE DEF i
    <2> QED
        BY <2>1, <2>2
<1>6. rep[i] # None /\ Opened(i) + Owed(i) <= rep[i].total
    BY <1>1 DEF Covered, Pending, Recorded
<1>7. Opened(i)' + Owed(i)' <= rep[i].total
    <2>1. Owed(i)' = SumOver(score, Pending(i) \ {r})
        BY <1>b, <1>4 DEF Owed
    <2>2. Owed(i) = score[r] + Owed(i)' /\ Owed(i)' \in Nat
        BY <1>a, <1>1, <2>1, EscalateBooks
    <2>3. /\ Opened(i) \in Nat /\ Opened(i)' \in Nat /\ score[r] \in Nat
          /\ rep[i].total \in Nat
        <3>1. Opened(i)' \in Nat
            <4>1. Opened(i)' \in {0} \cup {Accumulated(r).score}
                BY <1>b, <1>2 DEF Opened, Open
            <4> QED
                BY <1>a, <4>1, AccumulatedTyped
        <3> QED
            BY <1>a, <1>1, <1>6, <3>1, OpenedNumber, Typing
    <2> HIDE DEF i
    <2> QED
        BY <1>5, <1>6, <2>2, <2>3
<1>8. ASSUME NEW j \in Ips, Pending(j)' # {} \/ session[j]' # None
      PROVE  rep[j]' # None /\ Opened(j)' + Owed(j)' <= rep[j]'.total
    <2>1. CASE j = i
        BY <1>b, <1>6, <1>7, <2>1
    <2>2. CASE j # i
        BY <1>b, <1>2, <1>3, <1>8, <2>2 DEF Covered
    <2> QED
        BY <2>1, <2>2
<1> QED
    BY <1>8 DEF Covered

(* A step after which no request waits and no session has more than before.*)
LEMMA CoveredDown ==
    ASSUME TypeOK, TypeOK', Covered, \A i : Pending(i)' = {},
           UNCHANGED <<clock, rep, session>>
    PROVE  Covered'
<1>1. ASSUME NEW i \in Ips, Pending(i)' # {} \/ session[i]' # None
      PROVE  rep[i]' # None /\ Opened(i)' + Owed(i)' <= rep[i]'.total
    <2>1. Owed(i)' = 0
        <3>1. Owed(i)' = SumOver(score', {})
            BY DEF Owed
        <3>2. IsFiniteSet({}) /\ Weighs(score', {})
            BY FS_EmptySet DEF Weighs
        <3> QED
            BY <3>1, <3>2, SumOfSet
    <2>2. Opened(i)' = Opened(i) /\ Opened(i) \in Nat /\ Owed(i) \in Nat
        BY OpenedNumber, OwedNumber DEF Opened, Open
    <2>3. rep[i] # None /\ Opened(i) + Owed(i) <= rep[i].total
        BY <1>1 DEF Covered
    <2>4. rep[i].total \in Nat
        BY <2>3, Typing
    <2> QED
        BY <2>1, <2>2, <2>3, <2>4
<1> QED
    BY <1>1 DEF Covered

LEMMA CoveredTick ==
    ASSUME TypeOK, Covered, Tick
    PROVE  Covered'
<1>1. ASSUME NEW i \in Ips, Pending(i)' # {} \/ session[i]' # None
      PROVE  rep[i]' # None /\ Opened(i)' + Owed(i)' <= rep[i]'.total
    <2>1. Pending(i)' = Pending(i) /\ UNCHANGED <<rep, session, score>>
        BY DEF Tick, Pending, requests, hits, memory
    <2>2. Owed(i)' = Owed(i) /\ Owed(i) \in Nat /\ Opened(i) \in Nat
        BY <2>1, OwedNumber, OpenedNumber DEF Owed
    <2>3. Opened(i)' = Opened(i) \/ Opened(i)' = 0
        <3>1. Open(i)' => Open(i)
            BY <2>1, Typing DEF Open, Tick
        <3> QED
            BY <2>1, <3>1 DEF Opened
    <2>4. rep[i] # None /\ Opened(i) + Owed(i) <= rep[i].total
        BY <1>1, <2>1 DEF Covered
    <2>5. rep[i].total \in Nat
        BY <2>4, Typing
    <2> QED
        BY <2>1, <2>2, <2>3, <2>4, <2>5
<1> QED
    BY <1>1 DEF Covered

LEMMA CoveredNext ==
    ASSUME RepDecay >= SessionWindow + 2 * MaxSkew, Clocks, Covered, [Next]_vars
    PROVE  Covered'
<1>a. TypeOK /\ TypeOK' /\ Clocks'
    BY ClocksNext DEF Clocks
<1>1. ASSUME NEW r \in Requests, Proceed(r) PROVE Covered'
    <2>1. CASE AddScore(r)
        BY <1>a, <2>1, CoveredRecord
    <2>2. CASE Escalate(r)
        BY <1>a, <2>2, CoveredEscalate
    <2>3. CASE ~AddScore(r) /\ ~Escalate(r)
        <3>1. UNCHANGED <<clock, rep, session, ip>>
            BY <1>1, <2>3, Untouched DEF world
        <3>2. \A q \in Requests : pc'[q] \in Recorded <=> pc[q] \in Recorded
            BY <1>1, <1>a, <2>3, Recorders, OthersStay DEF Others
        <3>3. \A q \in Requests : pc[q] \in Recorded => score'[q] = score[q]
            <4>1. \A q \in Requests \ {r} : score'[q] = score[q]
                BY <1>1, <1>a, OthersStay DEF Others
            <4>2. pc[r] \in Recorded => score' = score
                BY <1>1, Untouched, PayloadMoves DEF Recorded
            <4> QED
                BY <4>1, <4>2
        <3> QED
            BY <1>a, <3>1, <3>2, <3>3, SameBooks
    <2> QED
        BY <2>1, <2>2, <2>3
<1>2. CASE Stop \/ \E r \in Requests : Panic(r)
    <2>1. /\ \A q \in Requests : pc'[q] \notin Recorded
          /\ UNCHANGED <<clock, rep, session>>
        BY <1>a, <1>2, DownMove DEF Recorded, Recording
    <2>2. \A i : Pending(i)' = {}
        BY <2>1 DEF Pending
    <2> QED
        BY <1>a, <2>1, <2>2, CoveredDown
<1>3. CASE Restart
    <2>1. InFlight = {} /\ UNCHANGED <<pc, ip>> /\ session' = NoEntries
        BY <1>3 DEF Restart, Clocks, Quiet, requests
    <2>2. \A i \in Ips : Pending(i)' = {} /\ session'[i] = None
        BY <2>1 DEF Pending, InFlight, Recorded, Recording, NoEntries
    <2> QED
        BY <2>2 DEF Covered
<1>4. CASE Tick
    BY <1>a, <1>4, CoveredTick
<1>5. CASE UNCHANGED vars
    BY <1>a, <1>5, SameBooks DEF vars, world, memory, requests, hits
<1> QED
    BY <1>1, <1>2, <1>3, <1>4, <1>5, NextSteps

-----------------------------------------------------------------------------
(* Every variable keeps its type, for every instance.                      *)
THEOREM TypeCorrect == Spec => []TypeOK
<1>1. Init => TypeOK
    BY TypeInit
<1>2. TypeOK /\ [Next]_vars => TypeOK'
    BY TypeNext
<1> QED
    BY <1>1, <1>2, PTL DEF Spec

LEMMA ClocksAlways == Spec => []Clocks
<1>1. Init => Clocks
    BY ClocksInit
<1>2. Clocks /\ [Next]_vars => Clocks'
    BY ClocksNext
<1> QED
    BY <1>1, <1>2, PTL DEF Spec

LEMMA CoveredAlways ==
    ASSUME RepDecay >= SessionWindow + 2 * MaxSkew
    PROVE  Spec => []Covered
<1>1. Init => Covered
    BY CoveredInit
<1>2. Clocks /\ Covered /\ [Next]_vars => Covered'
    BY CoveredNext
<1> QED
    BY <1>1, <1>2, ClocksAlways, PTL DEF Spec

(* While a session is open the reputation total is no smaller than its     *)
(* score, however the calls of reputation.record and session_tracker.record*)
(* of a client's requests interleave (mod.rs:233-237) and however old their*)
(* Instants are by the time they are used, provided that the               *)
(* reputation does not decay before a session ends.                        *)
THEOREM SessionsStayWithinReputation == Spec => []SessionWithinReputation
<1>1. CASE RepDecay >= SessionWindow + 2 * MaxSkew
    <2>1. Clocks /\ Covered => SessionWithinReputation
        <3> SUFFICES ASSUME Clocks, Covered, NEW i \in Ips, Open(i)
                     PROVE  rep[i] # None /\ session[i].score <= rep[i].total
            BY DEF SessionWithinReputation, Open
        <3>1. rep[i] # None /\ session[i].score + Owed(i) <= rep[i].total
            BY DEF Covered, Opened, Open
        <3>2. Owed(i) \in Nat /\ rep[i].total \in Nat /\ session[i].score \in Nat
            BY <3>1, OwedNumber, Typing DEF Clocks, Open
        <3> QED
            BY <3>1, <3>2
    <2> QED
        BY <1>1, <2>1, ClocksAlways, CoveredAlways, PTL
<1>2. CASE ~(RepDecay >= SessionWindow + 2 * MaxSkew)
    <2>1. SessionWithinReputation
        BY <1>2 DEF SessionWithinReputation
    <2> QED
        BY <2>1, PTL
<1> QED
    BY <1>1, <1>2

-----------------------------------------------------------------------------
(* What gets through in a rate window.                                     *)

(* The rules that answer after the rate limiter let a request pass.        *)
Later == {"CLEAN", "SES", "SES_CHALLENGE", "SCORE"}

(* The rules before it that may forward a request.                         *)
Earlier == {"ALLOWLIST", "VPATCH"}

Passed(r) == \/ pc[r] \in {"payload"} \cup Recording
             \/ answer[r] # None /\ answer[r].by \in Later

(* What passed with an Instant of a span that is shorter than the window   *)
(* by the time an Instant may be in use.                                   *)
Past(i, t) == {r \in Requests : /\ ip[r] = i /\ t <= checked[r]
                                /\ checked[r] < t + RateWindow - MaxSkew
                                /\ Passed(r)}

(* Nothing is forwarded but by the allowlist, a virtual patch or a later   *)
(* rule, and only what is done has an answer.                              *)
Refusals ==
    \A r \in Requests :
        /\ pc[r] # "done" => answer[r] = None
        /\ answer[r] # None /\ mode = "block" =>
              answer[r].by \in Later \cup Earlier \/ answer[r].action = "Block"

(* The limiter remembers what passed within the window ...                 *)
Stamped == \A r \in Requests :
    Passed(r) /\ clock < checked[r] + RateWindow => r \in stamps[ip[r]]

(* ... so that of any requests that passed in a span one has a limit that  *)
(* their number keeps to: the one that was counted last.                   *)
Limited == \A i \in Ips : \A t \in Nat : \A S \in SUBSET Past(i, t) :
    S # {} => \E q \in S : Cardinality(S) <= limit[q]

(* A process that never stopped has lost nothing.                          *)
Passing ==
    /\ Refusals
    /\ stops = 0 /\ compiles => up /\ Stamped /\ Limited

LEMMA PassingInit == Init => Passing
<1> SUFFICES ASSUME Init PROVE Passing
    OBVIOUS
<1>1. \A r \in Requests : answer[r] = None /\ pc[r] = "idle" /\ ~Passed(r)
    BY DEF Init, Passed, Recording
<1>2. \A i, t : Past(i, t) = {}
    BY <1>1 DEF Past
<1>3. Limited
    BY <1>2 DEF Limited
<1> QED
    BY <1>1, <1>3 DEF Passing, Refusals, Stamped, Init

(* What an inspection answers, and when.                                   *)
LEMMA Verdicts ==
    ASSUME NEW r \in Requests, Proceed(r)
    PROVE  /\ pc[r] # "done"
           /\ \/ \E stage : Advance(r, stage)
              \/ \E a, b : /\ Answer(r, a, b)
                           /\ mode = "block" => b \in Later \cup Earlier \/ a = "Block"
<1> USE DEF Later, Earlier
<1>1. CASE Enter(r)
    BY <1>1, EnterMoves
<1>2. CASE LookupBan(r)
    BY <1>2, LookupMoves
<1>3. CASE EvictBan(r)
    BY <1>3, EvictMoves
<1>4. CASE Screen(r)
    BY <1>4, ScreenMoves
<1>5. CASE LookupRateBan(r)
    BY <1>5, LookupRateMoves DEF Decide
<1>6. CASE EvictRateBan(r)
    BY <1>6 DEF EvictRateBan
<1>7. CASE CountRequest(r)
    BY <1>7, CountMoves
<1>8. CASE InsertRateBan(r)
    BY <1>8 DEF InsertRateBan, Decide
<1>9. CASE Payload(r)
    BY <1>9, PayloadMoves
<1>10. CASE AddScore(r)
    BY <1>10, AddMoves
<1>11. CASE Reenter(r)
    BY <1>11 DEF Reenter
<1>12. CASE InsertBan(r)
    BY <1>12 DEF InsertBan
<1>13. CASE Escalate(r)
    BY <1>13, EscalateMoves
<1> QED
    BY <1>1, <1>2, <1>3, <1>4, <1>5, <1>6, <1>7, <1>8, <1>9, <1>10, <1>11,
       <1>12, <1>13 DEF Proceed

LEMMA RefusalsStep ==
    ASSUME TypeOK, Refusals, NEW r \in Requests, Proceed(r)
    PROVE  Refusals'
<1>1. mode' = mode /\ \A q \in Requests \ {r} : pc'[q] = pc[q] /\ answer'[q] = answer[q]
    BY Untouched, OthersStay DEF world, config, Others
<1>2. CASE \E stage : Advance(r, stage)
    <2>1. answer' = answer
        BY <1>2 DEF Advance
    <2> QED
        BY <1>1, <2>1, Verdicts DEF Refusals
<1>3. ASSUME NEW a, NEW b, Answer(r, a, b),
             mode = "block" => b \in Later \cup Earlier \/ a = "Block"
      PROVE  Refusals'
    <2>1. pc'[r] = "done" /\ answer'[r].by = b /\ answer'[r].action = a
        BY <1>3, AnswerMove
    <2> QED
        BY <1>1, <1>3, <2>1 DEF Refusals
<1> QED
    BY <1>2, <1>3, Verdicts

(* A request is past the limiter when CountRequest lets it pass, and by no *)
(* other step.                                                             *)
LEMMA NotYetPassed ==
    ASSUME TypeOK, NEW r \in Requests, answer[r] = None
    PROVE  /\ \A stage : Advance(r, stage) /\ stage \notin {"payload"} \cup Recording =>
                ~Passed(r)'
           /\ \A a, b : Answer(r, a, b) /\ b \notin Later => ~Passed(r)'
<1>1. ASSUME NEW stage, Advance(r, stage), stage \notin {"payload"} \cup Recording
      PROVE  ~Passed(r)'
    BY <1>1, AdvanceMove DEF Passed
<1>2. ASSUME NEW a, NEW b, Answer(r, a, b), b \notin Later
      PROVE  ~Passed(r)'
    <2>1. pc'[r] = "done" /\ answer'[r].by = b
        BY <1>2, AnswerMove
    <2> QED
        BY <1>2, <2>1 DEF Passed, Recording
<1> QED
    BY <1>1, <1>2

LEMMA Passers ==
    ASSUME TypeOK, Refusals, NEW r \in Requests, Proceed(r), ~CountRequest(r)
    PROVE  \A q \in Requests : Passed(q)' => Passed(q) /\ checked'[q] = checked[q]
<1>1. \A q \in Requests \ {r} :
        pc'[q] = pc[q] /\ answer'[q] = answer[q] /\ checked'[q] = checked[q]
    BY OthersStay DEF Others
<1>2. CASE pc[r] \in {"payload"} \cup Recording
    <2>1. Passed(r)
        BY <1>2 DEF Passed
    <2>2. checked' = checked
        <3>1. pc[r] # "rules"
            BY <1>2 DEF Recording
        <3>2. ~Screen(r)
            BY <3>1, ScreenMoves
        <3>3. ~Screen(r) => checked' = checked
            BY DEF Proceed, instants, Enter, LookupBan, EvictBan, LookupRateBan, EvictRateBan,
                   CountRequest, InsertRateBan, Payload, AddScore, Reenter, InsertBan, Escalate
        <3> QED
            BY <3>2, <3>3
    <2> QED
        BY <1>1, <2>1, <2>2 DEF Passed
<1>3. CASE pc[r] \notin {"payload"} \cup Recording
    <2>1. answer[r] = None
        <3>1. pc[r] # "done"
            BY Verdicts
        <3> QED
            BY <3>1 DEF Refusals
    <2>2. ~Passed(r)'
        <3> USE DEF Recording, Later
        <3>1. CASE Enter(r)
            BY <2>1, <3>1, EnterMoves, NotYetPassed
        <3>2. CASE LookupBan(r)
            BY <1>3, <2>1, <3>2, LookupMoves, NotYetPassed
        <3>3. CASE EvictBan(r)
            BY <1>3, <2>1, <3>3, EvictMoves, NotYetPassed
        <3>4. CASE Screen(r)
            BY <2>1, <3>4, ScreenMoves, NotYetPassed
        <3>5. CASE LookupRateBan(r)
            BY <2>1, <3>5, LookupRateMoves, NotYetPassed
        <3>6. CASE EvictRateBan(r)
            BY <2>1, <3>6, NotYetPassed DEF EvictRateBan
        <3>7. CASE InsertRateBan(r)
            BY <2>1, <3>7, NotYetPassed DEF InsertRateBan
        <3>8. ~Payload(r) /\ ~AddScore(r) /\ ~Reenter(r) /\ ~InsertBan(r) /\ ~Escalate(r)
            BY <1>3 DEF Payload, AddScore, Reenter, InsertBan, Escalate
        <3> QED
            BY <3>1, <3>2, <3>3, <3>4, <3>5, <3>6, <3>7, <3>8 DEF Proceed
    <2> QED
        BY <1>1, <2>2 DEF Passed
<1> QED
    BY <1>2, <1>3

(* A step after which nothing has passed that had not.                     *)
LEMMA NothingPasses ==
    ASSUME Stamped, Limited, UNCHANGED <<clock, ip, stamps, limit>>,
           \A r \in Requests : Passed(r)' => Passed(r) /\ checked'[r] = checked[r]
    PROVE  Stamped' /\ Limited'
<1>1. Stamped'
    BY DEF Stamped
<1>2. \A i, t : Past(i, t)' \in SUBSET Past(i, t)
    BY DEF Past
<1>3. Limited'
    BY <1>2 DEF Limited
<1> QED
    BY <1>1, <1>3

(* The entry of a check holds all that passed in the window it counts.     *)
LEMMA KeptHolds ==
    ASSUME TypeOK, Timely, Stamped, NEW r \in Requests, pc[r] = "count",
           NEW t \in Nat, checked[r] < t + RateWindow - MaxSkew,
           NEW q \in Requests, ip[q] = ip[r], Passed(q), t <= checked[q]
    PROVE  q \in Kept(r)
<1>1. /\ checked[r] \in Nat /\ checked[q] \in Nat /\ clock \in Nat
      /\ clock <= checked[r] + MaxSkew
    BY Typing DEF Timely, Checking
<1>2. clock < checked[q] + RateWindow /\ checked[r] - checked[q] < RateWindow
    BY <1>1
<1>3. q \in stamps[ip[r]]
    BY <1>2 DEF Stamped
<1> QED
    BY <1>2, <1>3 DEF Kept

LEMMA CountPasses ==
    ASSUME TypeOK, Timely, Refusals, Stamped, Limited, NEW r \in Requests, CountRequest(r)
    PROVE  Stamped' /\ Limited'
<1> DEFINE i == ip[r]
<1>1. /\ pc[r] = "count" /\ i \in Ips /\ Proceed(r)
      /\ UNCHANGED <<clock, ip, checked>>
    BY Typing DEF CountRequest, Proceed, world, instants
<1>2. /\ stamps'[i] = Kept(r)
      /\ \A j \in Ips \ {i} : stamps'[j] = stamps[j]
    BY <1>1 DEF CountRequest, TypeOK
<1>3. \A q \in Requests \ {r} :
        pc'[q] = pc[q] /\ answer'[q] = answer[q] /\ limit'[q] = limit[q]
    BY <1>1, OthersStay DEF Others
<1>4. \A q \in Requests \ {r} : Passed(q)' <=> Passed(q)
    BY <1>3 DEF Passed
<1>5. Passed(r)' => Cardinality(Kept(r)) <= limit'[r]
    <2>1. PICK most \in RateLimits :
            /\ limit' = [limit EXCEPT ![r] = most]
            /\ \/ Cardinality(Kept(r)) > most /\ Advance(r, "rateBan")
               \/ Cardinality(Kept(r)) <= most /\ Advance(r, "payload")
        BY DEF CountRequest
    <2>2. limit'[r] = most
        BY <2>1 DEF TypeOK
    <2>3. Advance(r, "rateBan") => ~Passed(r)'
        BY <1>1, NotYetPassed DEF Refusals, Recording
    <2> QED
        BY <2>1, <2>2, <2>3
<1>6. Stamped'
    <2>1. ASSUME NEW q \in Requests, Passed(q)', clock < checked[q] + RateWindow
          PROVE  q \in stamps'[ip[q]]
        <3>1. CASE q = r
            BY <1>2, <3>1 DEF Kept
        <3>2. CASE q # r
            <4>1. q \in stamps[ip[q]] /\ ip[q] \in Ips
                BY <1>4, <2>1, <3>2, Typing DEF Stamped
            <4>2. checked[r] - checked[q] < RateWindow
                <5>1. checked[r] \in Nat /\ checked[q] \in Nat /\ clock \in Nat
                    BY Typing
                <5>2. checked[r] <= clock
                    BY DEF Timely
                <5> QED
                    BY <2>1, <5>1, <5>2
            <4>3. ip[q] = i => q \in Kept(r)
                BY <4>1, <4>2 DEF Kept
            <4> QED
                BY <1>2, <4>1, <4>3
        <3> QED
            BY <3>1, <3>2
    <2> QED
        BY <1>1, <2>1 DEF Stamped
<1>7. ASSUME NEW j \in Ips, NEW t \in Nat, NEW S \in SUBSET Past(j, t)', S # {}
      PROVE  \E q \in S : Cardinality(S) <= limit'[q]
    <2>1. \A q \in S : /\ q \in Requests /\ ip[q] = j /\ t <= checked[q] /\ Passed(q)'
                       /\ checked[q] < t + RateWindow - MaxSkew
        BY <1>1 DEF Past
    <2>2. CASE r \in S
        <3>1. \A q \in S : q \in Kept(r)
            <4>1. ASSUME NEW q \in S, q # r PROVE q \in Kept(r)
                BY <1>1, <1>4, <2>1, <2>2, <4>1, KeptHolds
            <4> QED
                BY <4>1 DEF Kept
        <3>2. Kept(r) \in SUBSET Requests
            BY <1>1 DEF Kept, TypeOK
        <3>3. /\ IsFiniteSet(Kept(r)) /\ Cardinality(Kept(r)) \in Nat
              /\ S \in SUBSET Kept(r)
            BY <3>1, <3>2, FS_Subset, FS_CardinalityType
        <3>4. Cardinality(S) <= Cardinality(Kept(r)) /\ Cardinality(S) \in Nat
            BY <3>3, FS_Subset, FS_CardinalityType
        <3>5. limit'[r] \in Nat
            <4>1. TypeOK'
                BY <1>1, TypeStep
            <4>2. RateLimits \cup {0} \subseteq Nat
                BY ConfigAssumption
            <4> QED
                BY <4>1, <4>2 DEF TypeOK
        <3> QED
            BY <1>5, <2>1, <2>2, <3>3, <3>4, <3>5
    <2>3. CASE r \notin S
        <3>1. S \in SUBSET Past(j, t)
            BY <1>4, <2>1, <2>3 DEF Past
        <3>2. PICK q \in S : Cardinality(S) <= limit[q]
            BY <1>7, <3>1 DEF Limited
        <3> QED
            BY <1>3, <2>1, <2>3, <3>2
    <2> QED
        BY <2>2, <2>3
<1> QED
    BY <1>6, <1>7 DEF Limited

LEMMA PassingNext ==
    ASSUME Clocks, Passing, [Next]_vars
    PROVE  Passing'
<1>a. TypeOK /\ Timely /\ Refusals
    BY DEF Clocks, Passing
<1>1. ASSUME NEW r \in Requests, Proceed(r) PROVE Passing'
    <2>1. UNCHANGED <<compiles, stops, up, clock, ip>>
        BY <1>1, Untouched DEF world, config
    <2>2. Refusals'
        BY <1>a, <1>1, RefusalsStep
    <2>3. ASSUME Stamped, Limited PROVE Stamped' /\ Limited'
        <3>1. CASE CountRequest(r)
            BY <1>a, <2>3, <3>1, CountPasses
        <3>2. CASE ~CountRequest(r)
            <4>1. UNCHANGED <<stamps, limit>>
                BY <1>1, <3>2, Untouched
            <4> QED
                BY <1>a, <1>1, <2>1, <2>3, <3>2, <4>1, Passers, NothingPasses
        <3> QED
            BY <3>1, <3>2
    <2> QED
        BY <2>1, <2>2, <2>3 DEF Passing
<1>2. CASE Stop \/ \E r \in Requests : Panic(r)
    <2>1. ~(stops' = 0 /\ compiles')
        BY <1>2, <1>a DEF Stop, Panic, config, TypeOK
    <2>2. Refusals'
        <3>1. UNCHANGED <<answer, mode>>
            BY <1>2 DEF Stop, Panic, config
        <3>2. \A q \in Requests : pc'[q] # "done" => pc[q] # "done"
            BY <1>a, <1>2, DownMove DEF InFlight, Gating, Checking, Recording
        <3> QED
            BY <1>a, <3>1, <3>2 DEF Refusals
    <2> QED
        BY <2>1, <2>2 DEF Passing
<1>3. CASE Restart
    <2>1. ~(stops' = 0 /\ compiles')
        BY <1>3 DEF Restart, Passing, config
    <2>2. Refusals'
        BY <1>3, <1>a DEF Restart, config, requests, Refusals
    <2> QED
        BY <2>1, <2>2 DEF Passing
<1>4. CASE Tick
    <2>1. /\ UNCHANGED <<mode, compiles, stops, up, ip, stamps, checked, limit, pc, answer>>
          /\ clock' = clock + 1 /\ clock \in Nat
        BY <1>4, <1>a, Typing DEF Tick, config, memory, requests, instants
    <2>2. Refusals'
        BY <1>a, <2>1 DEF Refusals
    <2>3. \A q \in Requests : Passed(q)' <=> Passed(q)
        BY <2>1 DEF Passed
    <2>4. ASSUME Stamped PROVE Stamped'
        <3>1. \A q \in Requests :
                clock' < checked[q] + RateWindow => clock < checked[q] + RateWindow
            <4>1. \A q \in Requests : checked[q] \in Nat
                BY <1>a, Typing
            <4> QED
                BY <2>1, <4>1
        <3> QED
            BY <2>1, <2>3, <2>4, <3>1 DEF Stamped
    <2>5. ASSUME Limited PROVE Limited'
        <3>1. \A i, t : Past(i, t)' = Past(i, t)
            BY <2>1, <2>3 DEF Past
        <3> QED
            BY <2>1, <2>5, <3>1 DEF Limited
    <2> QED
        BY <2>1, <2>2, <2>4, <2>5 DEF Passing
<1>5. CASE UNCHANGED vars
    <2>1. UNCHANGED <<mode, compiles, stops, up, clock, ip, stamps, checked, limit, pc, answer>>
        BY <1>5 DEF vars, world, config, memory, requests, instants
    <2>2. Refusals'
        BY <1>a, <2>1 DEF Refusals
    <2>3. \A q \in Requests : Passed(q)' => Passed(q) /\ checked'[q] = checked[q]
        BY <2>1 DEF Passed
    <2>4. ASSUME Stamped, Limited PROVE Stamped' /\ Limited'
        BY <2>1, <2>3, <2>4, NothingPasses
    <2> QED
        BY <2>1, <2>2, <2>4 DEF Passing
<1> QED
    BY <1>1, <1>2, <1>3, <1>4, <1>5, NextSteps

(* In block mode a client's requests that were forwarded in any span       *)
(* shorter than the rate window by the time a check may be preempted are   *)
(* no more than the limit of one of them, whatever interleaves between the *)
(* map operations of the checks (ratelimit.rs:39-82) and however old the   *)
(* Instant is that a check retains, counts and pushes with (lines 40, 66). *)
THEOREM ForwardedBoundHolds == Spec => []ForwardedBound
<1>1. Init => Passing
    BY PassingInit
<1>2. Clocks /\ Passing /\ [Next]_vars => Passing'
    BY PassingNext
<1>3. Clocks /\ Passing => ForwardedBound
    <2> SUFFICES ASSUME Passing, mode = "block", stops = 0, compiles,
                        NEW i \in Ips, NEW t \in 0 .. MaxClock,
                        Forwarded(i, t, t + RateWindow - MaxSkew) # {}
                 PROVE  \E r \in Forwarded(i, t, t + RateWindow - MaxSkew) :
                          Cardinality(Forwarded(i, t, t + RateWindow - MaxSkew)) <= limit[r]
        BY DEF ForwardedBound
    <2>1. Forwarded(i, t, t + RateWindow - MaxSkew) \in SUBSET Past(i, t)
        BY DEF Forwarded, Passing, Refusals, Past, Passed, Earlier
    <2> QED
        BY <2>1 DEF Passing, Limited
<1> QED
    BY <1>1, <1>2, <1>3, ClocksAlways, PTL DEF Spec
=============================================================================
