-------------------------- MODULE ReputationProofs --------------------------
(***************************************************************************)
(* Proofs about Reputation, for every set of requests and clients, every   *)
(* threshold, ban duration, decay time and preemption bound.               *)
(***************************************************************************)
EXTENDS Reputation, SumTheorems

USE RequestsAssumption, ScoreAssumption, TimeAssumption, InFlightAssumption,
    NoneAssumption

(* The requests that added their score, by where they are.                 *)
Scored == {"probe", "recheck", "reevict", "ban", "recorded", "banned"}

(* The requests whose total reached the threshold.                         *)
OverPcs == {"probe", "recheck", "reevict", "ban", "banned"}

-----------------------------------------------------------------------------
LEMMA TypeInit == Init => TypeOK
<1> SUFFICES ASSUME Init PROVE TypeOK
    OBVIOUS
<1>1. banDuration \in Nat /\ MaxClock \in Nat
    BY DEF Init, MaxClock
<1> QED
    BY <1>1 DEF Init, TypeOK, Pcs

(* What the entry of AddScore holds is within the width of its type.       *)
LEMMA AddedInRange ==
    ASSUME NEW a \in 0 .. MaxScore, NEW s \in Scores
    PROVE  /\ SaturatingAdd(a, s) \in 0 .. MaxScore
           /\ SaturatingAdd(a, s) <= a + s
BY DEF SaturatingAdd

(* What AddScore finds and leaves, without its local names.                *)
LEMMA AddScoreStep ==
    ASSUME TypeOK, NEW r \in Requests, NEW s \in Scores, AddScore(r, s)
    PROVE  \E after \in 0 .. MaxScore :
             /\ scores' = [scores EXCEPT ![ip[r]] =
                             [total |-> after, seen |-> now[r]]]
             /\ total' = [total EXCEPT ![r] = after]
             /\ added' = [added EXCEPT ![r] = s]
             /\ pc[r] = "add"
             /\ pc' = [pc EXCEPT ![r] =
                         IF after >= Threshold THEN "probe" ELSE "recorded"]
             /\ UNCHANGED <<banDuration, clock, bans, ip, probe, now, history>>
             /\ \/ after <= s
                \/ /\ scores[ip[r]] # None
                   /\ Age(now[r], scores[ip[r]].seen) <= DecayAfter
                   /\ after <= scores[ip[r]].total + s
<1>0. s \in Nat
    OBVIOUS
<1> USE DEF TypeOK
<1> DEFINE e == IF scores[ip[r]] = None THEN [total |-> 0, seen |-> now[r]]
                                        ELSE scores[ip[r]]
           before == IF Age(now[r], e.seen) > DecayAfter THEN 0 ELSE e.total
           after == SaturatingAdd(before, s)
<1>1. MaxClock \in Int
    <2>1. banDuration \in Nat
        BY DEF TypeOK
    <2> HIDE DEF e, before, after
    <2> QED
        BY <2>1 DEF MaxClock
<1>2. e.total \in 0 .. MaxScore /\ e.seen \in 0 .. MaxClock
    <2>1. ip[r] \in Ips /\ now[r] \in 0 .. MaxClock
        OBVIOUS
    <2>2. CASE scores[ip[r]] = None
        BY <2>1, <2>2
    <2>3. CASE scores[ip[r]] # None
        <3>1. scores[ip[r]] \in [total : 0 .. MaxScore, seen : 0 .. MaxClock]
            BY <2>1, <2>3
        <3> QED
            BY <2>3, <3>1
    <2> QED
        BY <2>2, <2>3
<1>3. before \in 0 .. MaxScore
    BY <1>2
<1>4. after \in 0 .. MaxScore /\ after <= before + s
    BY <1>3, AddedInRange
<1>5. \/ after <= s
      \/ /\ scores[ip[r]] # None
         /\ Age(now[r], scores[ip[r]].seen) <= DecayAfter
         /\ after <= scores[ip[r]].total + s
    <2>1. CASE before = 0
        <3> HIDE DEF before, after
        <3> QED
            BY <1>0, <1>4, <2>1
    <2>2. CASE before # 0
        <3>1. ~(Age(now[r], e.seen) > DecayAfter) /\ before = e.total
            BY <2>2
        <3>2. scores[ip[r]] # None /\ e = scores[ip[r]]
            BY <2>2, <3>1
        <3>3. Age(now[r], e.seen) \in Int
            BY <1>1, <1>2 DEF Age
        <3> QED
            BY <1>4, <3>1, <3>2, <3>3
    <2> QED
        BY <2>1, <2>2
<1> QED
    BY <1>4, <1>5 DEF AddScore

LEMMA TypeNext == TypeOK /\ [Next]_vars => TypeOK'
<1> SUFFICES ASSUME TypeOK, [Next]_vars PROVE TypeOK'
    OBVIOUS
<1> USE DEF TypeOK, Pcs, history
<1>0. banDuration \in Nat /\ MaxClock \in Nat
    BY DEF MaxClock
<1>1. CASE Tick
    BY <1>0, <1>1 DEF Tick, MaxClock
<1> SUFFICES ASSUME ~Tick, UNCHANGED vars \/ \E r \in Requests : Request(r)
             PROVE  TypeOK'
    BY <1>1 DEF Next
<1>2. UNCHANGED <<banDuration, clock>> /\ MaxClock' = MaxClock
    BY DEF Request, Enter, LookupBan, EvictBan, NoHits, Record, AddScore, Reenter,
           Recheck, Reevict, InsertBan, MaxClock, vars
<1>3. CASE UNCHANGED vars
    BY <1>3 DEF vars, MaxClock
<1>4. ASSUME NEW r \in Requests, Enter(r) PROVE TypeOK'
    <2>1. {q \in Requests : /\ pc[q] = "banned"
                            /\ ip[q] = ip[r]
                            /\ clock < now[q] + banDuration} \in SUBSET Requests
        OBVIOUS
    <2> QED
        BY <1>2, <1>4, <2>1 DEF Enter
<1>5. ASSUME NEW r \in Requests,
             \/ LookupBan(r) \/ NoHits(r) \/ Record(r) \/ Reenter(r) \/ Recheck(r)
      PROVE  TypeOK'
    <2>1. \A i \in Ips, n \in 0 .. MaxClock :
              BanState(i, n) \in {"none", "active", "expired"}
        BY DEF BanState
    <2> QED
        BY <1>2, <1>5, <2>1 DEF LookupBan, NoHits, Record, Reenter, Recheck
<1>6. ASSUME NEW r \in Requests, EvictBan(r) \/ Reevict(r) PROVE TypeOK'
    BY <1>2, <1>6 DEF EvictBan, Reevict
<1>7. ASSUME NEW r \in Requests, NEW s \in Scores, AddScore(r, s) PROVE TypeOK'
    <2>1. PICK after \in 0 .. MaxScore :
             /\ scores' = [scores EXCEPT ![ip[r]] =
                             [total |-> after, seen |-> now[r]]]
             /\ total' = [total EXCEPT ![r] = after]
             /\ added' = [added EXCEPT ![r] = s]
             /\ pc' = [pc EXCEPT ![r] =
                         IF after >= Threshold THEN "probe" ELSE "recorded"]
             /\ UNCHANGED <<banDuration, clock, bans, ip, probe, now, history>>
        BY <1>7, AddScoreStep
    <2>2. [total |-> after, seen |-> now[r]]
             \in [total : 0 .. MaxScore, seen : 0 .. MaxClock]
        OBVIOUS
    <2>3. scores' \in [Ips -> [total : 0 .. MaxScore, seen : 0 .. MaxClock] \cup {None}]
        BY <2>1, <2>2
    <2>4. s \in 0 .. MaxScore
        OBVIOUS
    <2> QED
        BY <1>2, <2>1, <2>3, <2>4
<1>8. ASSUME NEW r \in Requests, InsertBan(r) PROVE TypeOK'
    <2>1. now[r] + banDuration \in Nat
        BY <1>0
    <2> QED
        BY <1>2, <1>8, <2>1 DEF InsertBan
<1> QED
    BY <1>3, <1>4, <1>5, <1>6, <1>7, <1>8 DEF Request

(* The variables of the engine always have their types: no total exceeds   *)
(* u32::MAX, no time lies ahead of the clock's bound.                      *)
THEOREM TypeCorrect == Spec => []TypeOK
BY TypeInit, TypeNext, PTL DEF Spec

-----------------------------------------------------------------------------
(* The time from which MaxSkew counts for a request in flight.             *)
Since(r) == IF pc[r] \in RecordPcs THEN now[r] ELSE probe[r]

(* No time lies ahead of the clock, record's own is_banned reads the clock *)
(* after record, and a request in flight is at most MaxSkew behind.        *)
Timed ==
    /\ \A r \in Requests : now[r] <= clock /\ probe[r] <= clock
    /\ \A r \in Requests : pc[r] \in {"recheck", "reevict"} => now[r] <= probe[r]
    /\ \A r \in InFlight : clock <= Since(r) + MaxSkew

(* A request has a score from AddScore on, and no earlier.                 *)
Staged == \A r \in Requests : added[r] > 0 <=> pc[r] \in Scored

(* What is on its way to a ban, or banned, reached the threshold.          *)
Over == \A r \in Requests : pc[r] \in OverPcs => total[r] >= Threshold

(* Every entry of bans was made by a request that answered with a ban.     *)
Made(b, i) == pc[b] = "banned" /\ ip[b] = i /\ bans[i] = now[b] + banDuration

Rooted == \A i \in Ips : bans[i] # None => \E b \in Requests : Made(b, i)

(* What a request saw banned at its start is banned, and of its client.    *)
Remembered ==
    \A r \in Requests : \A b \in underBan[r] : pc[b] = "banned" /\ ip[b] = ip[r]

SInv == TypeOK /\ Timed /\ Staged /\ Over /\ Rooted /\ Remembered

(* Which request a step may change, and by which action.                   *)
LEMMA Steps ==
    ASSUME TypeOK, [Next]_vars
    PROVE  /\ UNCHANGED <<banDuration, ip>>
           /\ banDuration \in Nat
           /\ clock \in Nat /\ clock' \in Nat /\ clock <= clock'
           /\ contested \subseteq contested'
           /\ \A q \in Requests : pc'[q] # pc[q] => Request(q)
           /\ \A q \in Requests : now'[q] # now[q] => Record(q)
           /\ \A q \in Requests : probe'[q] # probe[q] => Enter(q) \/ Reenter(q)
           /\ \A q \in Requests :
                 added'[q] # added[q] \/ total'[q] # total[q] =>
                     \E s \in Scores : AddScore(q, s)
<1> USE DEF TypeOK
<1>1. CASE Tick
    BY <1>1 DEF Tick, history
<1>2. ASSUME NEW r \in Requests, Request(r)
      PROVE  /\ UNCHANGED <<banDuration, ip>>
             /\ clock' = clock
             /\ contested \subseteq contested'
             /\ \A q \in Requests : q # r => pc'[q] = pc[q]
             /\ \A q \in Requests : now'[q] # now[q] => Record(q)
             /\ \A q \in Requests : probe'[q] # probe[q] => Enter(q) \/ Reenter(q)
             /\ \A q \in Requests :
                   added'[q] # added[q] \/ total'[q] # total[q] =>
                       \E s \in Scores : AddScore(q, s)
    <2>1. ASSUME NEW s \in Scores, AddScore(r, s)
          PROVE  /\ UNCHANGED <<banDuration, ip, clock, contested, now, probe>>
                 /\ \A q \in Requests : q # r =>
                       pc'[q] = pc[q] /\ added'[q] = added[q] /\ total'[q] = total[q]
        BY <2>1, AddScoreStep DEF history
    <2>2. CASE Enter(r) \/ LookupBan(r) \/ EvictBan(r) \/ NoHits(r)
        BY <2>2 DEF Enter, LookupBan, EvictBan, NoHits, history
    <2>3. CASE Record(r) \/ Reenter(r) \/ Recheck(r) \/ Reevict(r) \/ InsertBan(r)
        BY <2>3 DEF Record, Reenter, Recheck, Reevict, InsertBan, history
    <2> QED
        BY <1>2, <2>1, <2>2, <2>3, Zenon DEF Request
<1>3. CASE UNCHANGED vars
    BY <1>3 DEF vars, history
<1> QED
    BY <1>1, <1>2, <1>3 DEF Next

(* How a request gets from one stage to the next.                          *)
LEMMA Stages ==
    ASSUME TypeOK, [Next]_vars, NEW q \in Requests, pc'[q] # pc[q]
    PROVE  /\ clock' = clock
           /\ \/ Enter(q) /\ pc[q] = "idle" /\ pc'[q] = "lookup"
              \/ /\ LookupBan(q) /\ pc[q] = "lookup"
                 /\ pc'[q] \in {"refused", "evict", "inspect"}
              \/ EvictBan(q) /\ pc[q] = "evict" /\ pc'[q] = "inspect"
              \/ NoHits(q) /\ pc[q] = "inspect" /\ pc'[q] = "clean"
              \/ Record(q) /\ pc[q] = "inspect" /\ pc'[q] = "add"
              \/ /\ \E s \in Scores : AddScore(q, s)
                 /\ pc[q] = "add" /\ pc'[q] \in {"probe", "recorded"}
              \/ Reenter(q) /\ pc[q] = "probe" /\ pc'[q] = "recheck"
              \/ /\ Recheck(q) /\ pc[q] = "recheck"
                 /\ pc'[q] \in {"recorded", "reevict", "ban"}
              \/ Reevict(q) /\ pc[q] = "reevict" /\ pc'[q] = "ban"
              \/ InsertBan(q) /\ pc[q] = "ban" /\ pc'[q] = "banned"
<1> USE DEF TypeOK
<1>1. Request(q)
    BY Steps
<1>2. \A i, n : BanState(i, n) \in {"none", "active", "expired"}
    BY DEF BanState
<1>3. ASSUME NEW s \in Scores, AddScore(q, s)
      PROVE  /\ clock' = clock
             /\ pc[q] = "add" /\ pc'[q] \in {"probe", "recorded"}
    BY <1>3, AddScoreStep
<1>4. CASE Enter(q)
    BY <1>4 DEF Enter
<1>5. CASE LookupBan(q)
    BY <1>2, <1>5 DEF LookupBan
<1>6. CASE EvictBan(q) \/ NoHits(q) \/ Record(q) \/ Reenter(q)
    BY <1>6 DEF EvictBan, NoHits, Record, Reenter
<1>7. CASE Recheck(q)
    BY <1>2, <1>7 DEF Recheck
<1>8. CASE Reevict(q) \/ InsertBan(q)
    BY <1>8 DEF Reevict, InsertBan
<1> QED
    BY <1>1, <1>3, <1>4, <1>5, <1>6, <1>7, <1>8 DEF Request

(* What record has taken the time of, and whom it has banned, stays.       *)
LEMMA RecordsStay ==
    ASSUME TypeOK, [Next]_vars, NEW q \in Requests
    PROVE  /\ pc[q] \in Scored => pc'[q] \in Scored
           /\ pc[q] = "banned" => pc'[q] = "banned"
           /\ pc[q] \in Scored \cup {"add"} =>
                 now'[q] = now[q] /\ pc'[q] \in Scored \cup {"add"}
           /\ pc[q] \in Scored => added'[q] = added[q] /\ total'[q] = total[q]
<1>1. pc[q] \in Scored \cup {"add"} => now'[q] = now[q]
    BY Steps DEF Record, Scored
<1>2. pc[q] \in Scored => added'[q] = added[q] /\ total'[q] = total[q]
    <2> SUFFICES ASSUME pc[q] \in Scored
                 PROVE  added'[q] = added[q] /\ total'[q] = total[q]
        OBVIOUS
    <2>1. ~ \E s \in Scores : AddScore(q, s)
        BY DEF AddScore, Scored
    <2> QED
        BY <2>1, Steps
<1> QED
    BY <1>1, <1>2, Stages DEF Scored

LEMMA TimedNext ==
    ASSUME TypeOK, TypeOK', Timed, [Next]_vars
    PROVE  Timed'
<1> USE DEF TypeOK
<1>1. \A r \in Requests : now'[r] <= clock' /\ probe'[r] <= clock'
    <2> SUFFICES ASSUME NEW r \in Requests
                 PROVE  now'[r] <= clock' /\ probe'[r] <= clock'
        OBVIOUS
    <2>1. now'[r] = now[r] \/ now'[r] = clock
        BY Steps DEF Record
    <2>2. probe'[r] = probe[r] \/ probe'[r] = clock
        BY Steps DEF Enter, Reenter
    <2> QED
        BY <2>1, <2>2, Steps DEF Timed
<1>2. ASSUME NEW r \in Requests, pc'[r] \in {"recheck", "reevict"}
      PROVE  now'[r] <= probe'[r]
    <2>1. CASE pc'[r] # pc[r]
        <3>1. \/ Reenter(r)
              \/ Recheck(r) /\ pc[r] = "recheck"
            BY <1>2, <2>1, Stages
        <3> QED
            BY <3>1 DEF Reenter, Recheck, Timed
    <2>2. CASE pc'[r] = pc[r]
        <3>1. now'[r] = now[r] /\ probe'[r] = probe[r]
            BY <1>2, <2>2, Steps DEF Record, Enter, Reenter
        <3> QED
            BY <1>2, <2>2, <3>1 DEF Timed
    <2> QED
        BY <2>1, <2>2
<1>3. ASSUME NEW r \in InFlight' PROVE clock' <= Since(r)' + MaxSkew
    <2>0. r \in Requests
        BY <1>3 DEF InFlight
    <2>1. CASE pc'[r] # pc[r]
        <3>1. clock' = clock
            BY <2>0, <2>1, Stages
        <3>2. CASE Enter(r)
            BY <2>0, <3>1, <3>2 DEF Enter, Since, RecordPcs
        <3>3. CASE Record(r)
            BY <2>0, <3>1, <3>3 DEF Record, Since, RecordPcs
        <3>4. CASE ~Enter(r) /\ ~Record(r)
            <4>1. /\ r \in InFlight
                  /\ pc'[r] \in RecordPcs <=> pc[r] \in RecordPcs
                BY <1>3, <2>0, <2>1, <3>4, Stages DEF InFlight, RecordPcs
            <4>2. now'[r] = now[r]
                BY <2>0, <3>4, Steps
            <4>3. pc[r] \in RecordPcs \/ probe'[r] = probe[r]
                BY <2>0, <3>4, Steps DEF Reenter, RecordPcs
            <4> QED
                BY <3>1, <4>1, <4>2, <4>3 DEF Timed, Since
        <3> QED
            BY <3>2, <3>3, <3>4
    <2>2. CASE pc'[r] = pc[r]
        <3>1. r \in InFlight
            BY <1>3, <2>2 DEF InFlight
        <3>2. now'[r] = now[r] /\ probe'[r] = probe[r]
            <4>1. ~Record(r) /\ ~Enter(r) /\ ~Reenter(r)
                BY <2>0, <2>2 DEF Record, Enter, Reenter
            <4> QED
                BY <2>0, <4>1, Steps
        <3>3. Since(r)' = Since(r) /\ Since(r) \in Int
            BY <2>0, <2>2, <3>2 DEF Since
        <3>4. CASE Tick
            <4>1. clock < Since(r) + MaxSkew
                BY <3>1, <3>4 DEF Tick, Since
            <4> QED
                BY <3>3, <3>4, <4>1 DEF Tick
        <3>5. CASE ~Tick
            <4>1. clock' = clock
                BY <3>5 DEF Next, Request, Enter, LookupBan, EvictBan, NoHits, Record,
                            AddScore, Reenter, Recheck, Reevict, InsertBan, vars
            <4> QED
                BY <3>1, <3>3, <4>1 DEF Timed
        <3> QED
            BY <3>4, <3>5
    <2> QED
        BY <2>1, <2>2
<1> QED
    BY <1>1, <1>2, <1>3 DEF Timed

LEMMA StagedNext ==
    ASSUME TypeOK, Staged, [Next]_vars
    PROVE  Staged'
<1> SUFFICES ASSUME NEW r \in Requests
             PROVE  added'[r] > 0 <=> pc'[r] \in Scored
    BY DEF Staged
<1>1. ASSUME NEW s \in Scores, AddScore(r, s)
      PROVE  added'[r] > 0 /\ pc'[r] \in Scored
    <2>1. s > 0
        OBVIOUS
    <2> QED
        BY <1>1, <2>1, AddScoreStep DEF TypeOK, Scored
<1>2. CASE ~ \E s \in Scores : AddScore(r, s)
    <2>1. added'[r] = added[r]
        BY <1>2, Steps
    <2>2. pc'[r] \in Scored <=> pc[r] \in Scored
        BY <1>2, Stages DEF Scored
    <2> QED
        BY <2>1, <2>2 DEF Staged
<1> QED
    BY <1>1, <1>2

LEMMA OverNext ==
    ASSUME TypeOK, Over, [Next]_vars
    PROVE  Over'
<1> SUFFICES ASSUME NEW r \in Requests, pc'[r] \in OverPcs
             PROVE  total'[r] >= Threshold
    BY DEF Over
<1>1. CASE pc[r] \in OverPcs
    <2>1. total'[r] = total[r]
        BY <1>1, RecordsStay DEF OverPcs, Scored
    <2> QED
        BY <1>1, <2>1 DEF Over
<1>2. CASE pc[r] \notin OverPcs
    <2>1. PICK s \in Scores : AddScore(r, s)
        BY <1>2, Stages DEF OverPcs
    <2> QED
        BY <2>1, AddScoreStep DEF TypeOK, OverPcs
<1> QED
    BY <1>1, <1>2

(* A step changes an entry of bans by a remove or an insert.               *)
LEMMA EntryChanges ==
    ASSUME TypeOK, [Next]_vars, NEW i \in Ips, bans'[i] # bans[i]
    PROVE  \E q \in Requests :
              /\ ip[q] = i
              /\ \/ EvictBan(q) /\ bans'[i] = None
                 \/ Reevict(q) /\ bans'[i] = None
                 \/ InsertBan(q) /\ bans'[i] = now[q] + banDuration
<1> USE DEF TypeOK
<1>1. PICK q \in Requests : Request(q)
    BY DEF Next, Tick, vars
<1>2. ~ \E s \in Scores : AddScore(q, s)
    BY DEF AddScore
<1>3. EvictBan(q) \/ Reevict(q) \/ InsertBan(q)
    BY <1>1, <1>2
       DEF Request, Enter, LookupBan, NoHits, Record, Reenter, Recheck
<1> QED
    BY <1>3 DEF EvictBan, Reevict, InsertBan

LEMMA RootedNext ==
    ASSUME TypeOK, Rooted, [Next]_vars
    PROVE  Rooted'
<1> USE DEF TypeOK
<1> SUFFICES ASSUME NEW i \in Ips, bans'[i] # None
             PROVE  \E b \in Requests : Made(b, i)'
    BY DEF Rooted
<1>1. CASE bans'[i] = bans[i]
    <2>1. PICK b \in Requests : Made(b, i)
        BY <1>1 DEF Rooted
    <2>2. pc'[b] = "banned" /\ now'[b] = now[b] /\ banDuration' = banDuration
        BY <2>1, RecordsStay, Steps DEF Made, Scored
    <2>3. Made(b, i)'
        BY <1>1, <2>1, <2>2, Steps DEF Made
    <2> QED
        BY <2>3
<1>2. CASE bans'[i] # bans[i]
    <2>1. PICK q \in Requests : /\ ip[q] = i
                                /\ InsertBan(q)
                                /\ bans'[i] = now[q] + banDuration
        BY <1>2, EntryChanges
    <2>2. Made(q, i)'
        BY <2>1 DEF InsertBan, Made
    <2> QED
        BY <2>2
<1> QED
    BY <1>1, <1>2

LEMMA RememberedNext ==
    ASSUME TypeOK, Remembered, [Next]_vars
    PROVE  Remembered'
<1> USE DEF TypeOK
<1> SUFFICES ASSUME NEW r \in Requests, NEW b \in underBan'[r]
             PROVE  pc'[b] = "banned" /\ ip'[b] = ip'[r]
    BY DEF Remembered
<1>1. CASE b \in underBan[r]
    BY <1>1, RecordsStay, Steps DEF Remembered
<1>2. CASE b \notin underBan[r]
    <2>1. ASSUME NEW q \in Requests, NEW s \in Scores, AddScore(q, s)
          PROVE  FALSE
        BY <1>2, <2>1 DEF AddScore, history
    <2>2. \E q \in Requests : Enter(q)
        BY <1>2, <2>1
           DEF Next, Tick, Request, LookupBan, EvictBan, NoHits, Record, Reenter,
               Recheck, Reevict, InsertBan, vars, history
    <2>3. b \in Requests /\ pc[b] = "banned" /\ ip[b] = ip[r]
        BY <1>2, <2>2 DEF Enter
    <2> QED
        BY <2>3, RecordsStay, Steps
<1> QED
    BY <1>1, <1>2

LEMMA SInvInit == Init => SInv
<1> SUFFICES ASSUME Init PROVE SInv
    OBVIOUS
<1>1. Timed
    BY DEF Init, Timed, InFlight, RecordPcs
<1>2. Staged /\ Over /\ Rooted /\ Remembered
    BY DEF Init, Staged, Over, Rooted, Remembered, Scored, OverPcs
<1> QED
    BY <1>1, <1>2, TypeInit DEF SInv

LEMMA SInvNext == SInv /\ [Next]_vars => SInv'
BY TypeNext, TimedNext, StagedNext, OverNext, RootedNext, RememberedNext DEF SInv

-----------------------------------------------------------------------------
(* The argument for UncontestedBanHolds: while the ban b is in force, its  *)
(* client's entry in bans can only be replaced by a record on its way,     *)
(* whose time is MaxSkew old at most, and only be removed by a call that   *)
(* found it expired.  Until MaxSkew before the end of b the entry is there.*)

(* The end of the ban of b, less MaxSkew.                                  *)
Due(b) == now[b] + banDuration - MaxSkew

Uncontested(b) == pc[b] = "banned" /\ b \notin contested

(* The entry of an uncontested ban is there until the ban is due.          *)
Standing ==
    \A b \in Requests : Uncontested(b) =>
        \/ clock >= Due(b)
        \/ bans[ip[b]] # None /\ bans[ip[b]] >= Due(b)

(* A remove of the key finds every uncontested ban of the client due.      *)
Ripe ==
    \A b, q \in Requests :
        Uncontested(b) /\ pc[q] \in {"evict", "reevict"} /\ ip[q] = ip[b] =>
            clock >= Due(b)

(* What gets past the bans it met at its start gets past them at their end.*)
Outlasted ==
    \A r \in Requests : pc[r] \in {"evict", "inspect"} =>
        \A b \in underBan[r] \ contested : probe[r] + MaxSkew >= Due(b)

(* Between an uncontested ban's insertion and its end no request of the    *)
(* client gets past is_banned, so none takes the time of a record: each    *)
(* was past is_banned when the ban came, or comes when it is due.          *)
Apart ==
    \A b, q \in Requests : Uncontested(b) /\ ip[q] = ip[b] =>
        /\ pc[q] = "inspect" => probe[q] <= now[b] + MaxSkew \/ clock >= Due(b)
        /\ pc[q] \in Scored \cup {"add"} =>
              now[q] <= now[b] + 2 * MaxSkew \/ now[q] >= Due(b)

BInv == Standing /\ Ripe /\ Outlasted /\ Apart

(* A ban, and what it was inserted with, stays; one that is uncontested    *)
(* after a step was uncontested before, or is inserted by the step.        *)
LEMMA BansStay ==
    ASSUME SInv, [Next]_vars, NEW b \in Requests, Uncontested(b)'
    PROVE  /\ Due(b)' = Due(b) /\ Due(b) \in Int /\ now'[b] = now[b]
           /\ \/ pc[b] = "banned" /\ Uncontested(b)
              \/ /\ pc[b] # "banned" /\ InsertBan(b)
                 /\ clock' = clock
                 /\ now[b] <= clock /\ clock <= now[b] + MaxSkew
                 /\ \A q \in Requests : ip[q] = ip[b] =>
                       pc[q] \notin {"evict", "reevict"}
<1> USE DEF SInv, TypeOK
<1>1. banDuration' = banDuration /\ banDuration \in Nat /\ now[b] \in Nat
    BY Steps
<1>2. CASE pc[b] = "banned"
    <2>1. Uncontested(b)
        BY <1>2, Steps DEF Uncontested
    <2>2. now'[b] = now[b]
        BY <1>2, RecordsStay DEF Scored
    <2> QED
        BY <1>1, <1>2, <2>1, <2>2 DEF Due
<1>3. CASE pc[b] # "banned"
    <2>1. InsertBan(b) /\ clock' = clock
        BY <1>3, Stages DEF Uncontested
    <2>2. now'[b] = now[b]
        BY <2>1 DEF InsertBan
    <2>3. now[b] <= clock /\ clock <= now[b] + MaxSkew
        BY <2>1 DEF InsertBan, Timed, InFlight, Since, RecordPcs
    <2>4. \A q \in Requests : ip[q] = ip[b] => pc[q] \notin {"evict", "reevict"}
        BY <2>1 DEF InsertBan, Uncontested
    <2> QED
        BY <1>1, <1>3, <2>1, <2>2, <2>3, <2>4 DEF Due
<1> QED
    BY <1>2, <1>3

(* The entry of an uncontested ban is replaced by later ones only, and     *)
(* removed only when the ban is due.                                       *)
LEMMA StandingNext ==
    ASSUME SInv, Standing, Ripe, [Next]_vars
    PROVE  Standing'
<1> USE DEF SInv, TypeOK
<1> SUFFICES ASSUME NEW b \in Requests, Uncontested(b)'
             PROVE  \/ clock' >= Due(b)'
                    \/ bans'[ip'[b]] # None /\ bans'[ip'[b]] >= Due(b)'
    BY DEF Standing
<1>1. /\ UNCHANGED ip /\ clock \in Nat /\ clock' \in Nat /\ clock' >= clock
      /\ ip[b] \in Ips
      /\ now[b] \in Nat /\ banDuration \in Nat
    BY Steps
<1>2. Due(b)' = Due(b) /\ Due(b) \in Int
    BY BansStay
<1>3. CASE pc[b] # "banned"
    <2>1. InsertBan(b)
        BY <1>3, BansStay
    <2>2. bans'[ip[b]] = now[b] + banDuration
        BY <1>1, <2>1 DEF InsertBan
    <2> QED
        BY <1>1, <1>2, <2>2 DEF Due
<1>4. CASE pc[b] = "banned"
    <2>1. Uncontested(b)
        BY <1>4, BansStay
    <2>2. CASE clock >= Due(b)
        BY <1>1, <1>2, <2>2
    <2>3. CASE bans'[ip[b]] = bans[ip[b]]
        BY <1>1, <1>2, <2>1, <2>2, <2>3 DEF Standing
    <2>4. CASE bans'[ip[b]] # bans[ip[b]]
        <3>1. PICK q \in Requests :
                 /\ ip[q] = ip[b]
                 /\ \/ EvictBan(q) /\ bans'[ip[b]] = None
                    \/ Reevict(q) /\ bans'[ip[b]] = None
                    \/ InsertBan(q) /\ bans'[ip[b]] = now[q] + banDuration
            BY <1>1, <2>4, EntryChanges
        <3>2. CASE EvictBan(q) \/ Reevict(q)
            <4>1. pc[q] \in {"evict", "reevict"}
                BY <3>2 DEF EvictBan, Reevict
            <4> QED
                BY <2>1, <2>2, <3>1, <4>1 DEF Ripe
        <3>3. CASE InsertBan(q) /\ bans'[ip[b]] = now[q] + banDuration
            <4>1. now[q] \in Nat /\ clock <= now[q] + MaxSkew /\ now[b] <= clock
                BY <3>3 DEF InsertBan, Timed, InFlight, Since, RecordPcs
            <4> QED
                BY <1>1, <1>2, <3>3, <4>1 DEF Due
        <3> QED
            BY <3>1, <3>2, <3>3
    <2> QED
        BY <2>3, <2>4
<1> QED
    BY <1>3, <1>4

(* A call of is_banned that does not answer true finds the uncontested     *)
(* bans of its client due, whether it found an entry or none.              *)
LEMMA PastIsDue ==
    ASSUME SInv, Standing, NEW b \in Requests, Uncontested(b),
           NEW r \in Requests, ip[r] = ip[b], LookupBan(r) \/ Recheck(r),
           BanState(ip[r], probe[r]) # "active"
    PROVE  clock >= Due(b) /\ probe[r] + MaxSkew >= Due(b)
<1> USE DEF SInv, TypeOK
<1>1. bans[ip[b]] = None \/ ~(probe[r] < bans[ip[b]])
    BY DEF BanState
<1>2. probe[r] <= clock /\ clock <= probe[r] + MaxSkew
    BY DEF LookupBan, Recheck, Timed, InFlight, Since, RecordPcs
<1>3. /\ probe[r] \in Nat /\ now[b] \in Nat /\ clock \in Nat
      /\ banDuration \in Nat /\ Due(b) \in Int
    BY DEF Due
<1>4. clock >= Due(b)
    <2>1. CASE bans[ip[b]] # None /\ bans[ip[b]] >= Due(b)
        <3>1. bans[ip[b]] \in Nat
            BY <2>1
        <3> QED
            BY <1>1, <1>2, <1>3, <2>1, <3>1
    <2> QED
        BY <2>1 DEF Standing
<1> QED
    BY <1>2, <1>3, <1>4

LEMMA RipeNext ==
    ASSUME SInv, Standing, Ripe, [Next]_vars
    PROVE  Ripe'
<1> USE DEF SInv, TypeOK
<1> SUFFICES ASSUME NEW b \in Requests, NEW q \in Requests, Uncontested(b)',
                    pc'[q] \in {"evict", "reevict"}, ip'[q] = ip'[b]
             PROVE  clock' >= Due(b)'
    BY DEF Ripe
<1>1. UNCHANGED ip /\ clock \in Nat /\ clock' \in Nat /\ clock' >= clock
    BY Steps
<1>2. Due(b)' = Due(b) /\ Due(b) \in Int
    BY BansStay
<1>3. CASE pc[b] = "banned"
    <2>1. Uncontested(b)
        BY <1>3, BansStay
    <2>2. CASE pc[q] \in {"evict", "reevict"}
        BY <1>1, <1>2, <2>1, <2>2 DEF Ripe
    <2>3. CASE pc[q] \notin {"evict", "reevict"}
        <3>1. \/ LookupBan(q) /\ pc'[q] = "evict"
              \/ Recheck(q) /\ pc'[q] = "reevict"
            BY <2>3, Stages
        <3>2. BanState(ip[q], probe[q]) # "active"
            BY <3>1 DEF LookupBan, Recheck
        <3> QED
            BY <1>1, <1>2, <2>1, <3>1, <3>2, PastIsDue
    <2> QED
        BY <2>2, <2>3
<1>4. CASE pc[b] # "banned"
    <2>1. InsertBan(b) /\ pc[q] \notin {"evict", "reevict"}
        BY <1>1, <1>4, BansStay
    <2> QED
        BY <2>1 DEF InsertBan
<1> QED
    BY <1>3, <1>4

LEMMA OutlastedNext ==
    ASSUME SInv, Standing, Outlasted, [Next]_vars
    PROVE  Outlasted'
<1> USE DEF SInv, TypeOK
<1> SUFFICES ASSUME NEW r \in Requests, pc'[r] \in {"evict", "inspect"},
                    NEW b \in underBan'[r] \ contested'
             PROVE  probe'[r] + MaxSkew >= Due(b)'
    BY DEF Outlasted
<1>1. ~Enter(r) /\ ~Reenter(r)
    BY DEF Enter, Reenter
<1>2. probe'[r] = probe[r]
    BY <1>1, Steps
<1>3. underBan'[r] = underBan[r]
    <2>1. ASSUME NEW q \in Requests, Request(q)
          PROVE  underBan'[r] = underBan[r]
        <3>1. CASE Enter(q)
            BY <1>1, <3>1 DEF Enter
        <3>2. CASE \E s \in Scores : AddScore(q, s)
            BY <3>2 DEF AddScore, history
        <3> QED
            BY <2>1, <3>1, <3>2
               DEF Request, LookupBan, EvictBan, NoHits, Record, Reenter, Recheck,
                   Reevict, InsertBan, history
    <2> QED
        BY <2>1 DEF Next, Tick, vars, history
<1>4. b \in Requests /\ pc[b] = "banned" /\ ip[b] = ip[r] /\ b \notin contested
    BY <1>3, Steps DEF Remembered
<1>5. Uncontested(b) /\ Uncontested(b)'
    BY <1>4, RecordsStay DEF Uncontested
<1>6. Due(b)' = Due(b)
    BY <1>4, <1>5, BansStay
<1>7. CASE pc[r] \in {"evict", "inspect"}
    BY <1>2, <1>3, <1>4, <1>6, <1>7 DEF Outlasted
<1>8. CASE pc[r] \notin {"evict", "inspect"}
    <2>1. LookupBan(r)
        BY <1>8, Stages
    <2>2. BanState(ip[r], probe[r]) # "active"
        BY <2>1 DEF LookupBan
    <2> QED
        BY <1>2, <1>4, <1>5, <1>6, <2>1, <2>2, PastIsDue
<1> QED
    BY <1>7, <1>8

LEMMA ApartNext ==
    ASSUME SInv, Standing, Ripe, Apart, [Next]_vars
    PROVE  Apart'
<1> USE DEF SInv, TypeOK
<1> SUFFICES ASSUME NEW b \in Requests, NEW q \in Requests, Uncontested(b)',
                    ip'[q] = ip'[b]
             PROVE  /\ pc'[q] = "inspect" =>
                          probe'[q] <= now'[b] + MaxSkew \/ clock' >= Due(b)'
                    /\ pc'[q] \in Scored \cup {"add"} =>
                          now'[q] <= now'[b] + 2 * MaxSkew \/ now'[q] >= Due(b)'
    BY DEF Apart
<1>1. /\ ip[q] = ip[b] /\ clock \in Nat /\ clock' \in Nat /\ clock' >= clock
      /\ now[q] \in Nat /\ now[b] \in Nat /\ probe[q] \in Nat
      /\ now[q] <= clock /\ probe[q] <= clock
    BY Steps DEF Timed
<1>2. Due(b)' = Due(b) /\ Due(b) \in Int /\ now'[b] = now[b]
    BY BansStay
<1>3. ASSUME pc'[q] = "inspect"
      PROVE  probe[q] <= now[b] + MaxSkew \/ clock' >= Due(b)
    <2>1. CASE pc[b] # "banned"
        BY <1>1, <2>1, BansStay
    <2>2. CASE pc[b] = "banned"
        <3>1. Uncontested(b)
            BY <2>2, BansStay
        <3>2. CASE pc[q] = "inspect"
            BY <1>1, <1>2, <3>1, <3>2 DEF Apart
        <3>3. CASE pc[q] # "inspect"
            <4>1. LookupBan(q) \/ (EvictBan(q) /\ pc[q] = "evict")
                BY <1>3, <3>3, Stages
            <4>2. CASE LookupBan(q)
                <5>1. BanState(ip[q], probe[q]) # "active"
                    BY <1>3, <4>2 DEF LookupBan
                <5> QED
                    BY <1>1, <1>2, <3>1, <4>2, <5>1, PastIsDue
            <4>3. CASE EvictBan(q) /\ pc[q] = "evict"
                BY <1>1, <1>2, <3>1, <4>3 DEF Ripe
            <4> QED
                BY <4>1, <4>2, <4>3
        <3> QED
            BY <3>2, <3>3
    <2> QED
        BY <2>1, <2>2
<1>4. ASSUME pc'[q] \in Scored \cup {"add"}
      PROVE  now'[q] <= now[b] + 2 * MaxSkew \/ now'[q] >= Due(b)
    <2>1. CASE pc[q] \in Scored \cup {"add"}
        <3>1. now'[q] = now[q]
            BY <2>1, RecordsStay
        <3>2. CASE pc[b] # "banned"
            BY <1>1, <3>1, <3>2, BansStay
        <3>3. CASE pc[b] = "banned"
            BY <1>1, <2>1, <3>1, <3>3, BansStay DEF Apart
        <3> QED
            BY <3>2, <3>3
    <2>2. CASE pc[q] \notin Scored \cup {"add"}
        <3>1. Record(q) /\ pc[q] = "inspect"
            BY <1>4, <2>2, Stages DEF Scored
        <3>2. now'[q] = clock /\ clock <= probe[q] + MaxSkew
            BY <3>1 DEF Record, Timed, InFlight, Since, RecordPcs
        <3>3. CASE pc[b] # "banned"
            BY <3>1, <3>3, BansStay DEF Record, InsertBan
        <3>4. CASE pc[b] = "banned"
            <4>1. probe[q] <= now[b] + MaxSkew \/ clock >= Due(b)
                BY <1>1, <3>1, <3>4, BansStay DEF Apart
            <4> QED
                BY <1>1, <1>2, <3>2, <4>1
        <3> QED
            BY <3>3, <3>4
    <2> QED
        BY <2>1, <2>2
<1>5. pc'[q] = "inspect" => probe'[q] = probe[q]
    BY Steps DEF Enter, Reenter
<1> QED
    BY <1>2, <1>3, <1>4, <1>5

LEMMA BInvInit == Init => BInv
BY DEF Init, BInv, Standing, Ripe, Outlasted, Apart, Uncontested

LEMMA BInvNext == SInv /\ BInv /\ [Next]_vars => BInv'
BY StandingNext, RipeNext, OutlastedNext, ApartNext DEF BInv

(* A ban that no remove raced with holds to its end, less twice the time a *)
(* call may take, for any number of concurrent requests.                   *)
THEOREM UncontestedBanHoldsAlways == Spec => []UncontestedBanHolds
<1>1. SInv /\ BInv => UncontestedBanHolds
    <2> SUFFICES ASSUME SInv, BInv, NEW r \in Requests, pc[r] = "inspect",
                        NEW b \in underBan[r] \ contested
                 PROVE  probe[r] + 2 * MaxSkew >= now[b] + banDuration
        BY DEF UncontestedBanHolds
    <2>1. b \in Requests
        BY DEF SInv, TypeOK
    <2>2. probe[r] + MaxSkew >= Due(b)
        BY DEF BInv, Outlasted
    <2>3. probe[r] \in Nat /\ now[b] \in Nat /\ banDuration \in Nat
        BY <2>1 DEF SInv, TypeOK
    <2> QED
        BY <2>2, <2>3 DEF Due
<1> QED
    BY <1>1, SInvInit, SInvNext, BInvInit, BInvNext, PTL DEF Spec

-----------------------------------------------------------------------------
(* The argument for TotalEarned: the total of an entry is that of the      *)
(* request that wrote it last.  A request that adds to the entry continues *)
(* that request's streak: no idle time separates the two, or the score     *)
(* would have been reset.  And no streak ever loses a request: a request   *)
(* that is recorded late, with a stale clock, falls between two requests   *)
(* that were no further apart than DecayAfter.                             *)

(* The requests recorded for r's client no later than r.                   *)
Mine(r) == {q \in Recorded : ip[q] = ip[r] /\ now[q] <= now[r] + MaxSkew}

(* No idle time among the requests of M separates q from r.                *)
Linked(q, r, M) ==
    \A x \in M :
        now[q] <= now[x] /\ now[x] < now[r] =>
            \E z \in M : now[x] < now[z] /\ now[z] <= now[x] + DecayAfter

(* Every entry of scores was left by a recorded request of its client.     *)
Wrote(r, i) ==
    ip[r] = i /\ total[r] = scores[i].total /\ now[r] = scores[i].seen

Entered == \A i \in Ips : scores[i] # None => \E r \in Recorded : Wrote(r, i)

TInv == Entered /\ TotalEarned

(* Sums of scores are sums.                                                *)
LEMMA SumsOfScores ==
    ASSUME TypeOK, NEW S \in SUBSET Requests
    PROVE  /\ IsFiniteSet(S) /\ Weighs(added, S)
           /\ Sum(S) = SumOver(added, S)
           /\ Sum(S) \in Nat
<1>1. IsFiniteSet(S)
    BY FS_Subset
<1>2. Weighs(added, S)
    BY DEF TypeOK, Weighs
<1>3. Sum(S) = SumOver(added, S)
    BY DEF Sum, SumOver
<1> QED
    BY <1>1, <1>2, <1>3, SumOfSet

LEMMA StreakOfRequests ==
    ASSUME NEW r
    PROVE  Streak(r) \in SUBSET Recorded /\ Streak(r) \in SUBSET Requests
BY DEF Streak, Recorded

(* What is recorded stays recorded, with its data.                         *)
LEMMA RecordedStays ==
    ASSUME SInv, [Next]_vars, NEW q \in Recorded
    PROVE  /\ q \in Requests /\ q \in Recorded'
           /\ now'[q] = now[q] /\ added'[q] = added[q] /\ total'[q] = total[q]
           /\ ip'[q] = ip[q]
<1>1. q \in Requests /\ pc[q] \in Scored
    BY DEF Recorded, SInv, Staged
<1>2. now'[q] = now[q] /\ added'[q] = added[q] /\ total'[q] = total[q]
    BY <1>1, RecordsStay DEF SInv
<1> QED
    BY <1>1, <1>2, Steps DEF Recorded, SInv

(* A streak of requests stays one while more are recorded.                 *)
LEMMA StreakGrows ==
    ASSUME SInv, SInv', [Next]_vars, NEW r \in Recorded
    PROVE  Streak(r) \subseteq Streak(r)'
<1> USE DEF SInv, TypeOK
<1>1. \A q \in Recorded : /\ q \in Requests /\ q \in Recorded'
                          /\ now'[q] = now[q] /\ ip'[q] = ip[q]
    BY RecordedStays
<1>2. Mine(r) \subseteq Mine(r)'
    BY <1>1 DEF Mine
<1>3. \A q \in Mine(r)' : q \in Requests /\ now'[q] \in Nat
    BY DEF Mine, Recorded, MaxClock
<1>4. \A q \in Mine(r) : q \in Recorded /\ q \in Requests /\ now[q] \in Nat
    BY DEF Mine, Recorded, MaxClock
<1> SUFFICES ASSUME NEW q \in Mine(r), Linked(q, r, Mine(r))
             PROVE  Linked(q, r, Mine(r))'
    <2>1. Streak(r) = {q \in Mine(r) : Linked(q, r, Mine(r))}
        BY DEF Streak, Mine, Linked
    <2>2. Streak(r)' = {q \in Mine(r)' : Linked(q, r, Mine(r))'}
        BY DEF Streak, Mine, Linked
    <2> QED
        BY <1>2, <2>1, <2>2
<1> SUFFICES ASSUME NEW x \in Mine(r)', now'[q] <= now'[x], now'[x] < now'[r]
             PROVE  \E z \in Mine(r)' : /\ now'[x] < now'[z]
                                        /\ now'[z] <= now'[x] + DecayAfter
    BY DEF Linked
<1> DEFINE Q == {t \in Nat : t <= now'[x] /\ \E y \in Mine(r) : t = now[y] /\ now[q] <= now[y]}
<1>5. PICK t \in Q : \A u \in Q : u <= t
    <2>1. Q \in SUBSET Nat /\ \A u \in Q : u <= now'[x]
        OBVIOUS
    <2>2. now[q] \in Q
        BY <1>1, <1>4
    <2> HIDE DEF Q
    <2> QED
        BY <1>3, <2>1, <2>2, LargestNumber
<1>6. PICK y \in Mine(r) : t = now[y] /\ now[q] <= now[y] /\ now[y] <= now'[x]
    BY <1>5
<1>7. now[y] < now[r] /\ now[r] \in Nat
    BY <1>1, <1>3, <1>4, <1>6 DEF MaxClock
<1>8. PICK z \in Mine(r) : now[y] < now[z] /\ now[z] <= now[y] + DecayAfter
    BY <1>6, <1>7 DEF Linked
<1>9. now'[x] < now[z]
    <2>1. now[z] \notin Q
        BY <1>3, <1>4, <1>5, <1>6, <1>8
    <2>2. now[q] <= now[z] /\ now[z] \in Nat
        BY <1>4, <1>6, <1>8
    <2> QED
        BY <1>3, <2>1, <2>2
<1>10. z \in Mine(r)' /\ now'[z] = now[z]
    BY <1>1, <1>2, <1>4
<1> QED
    BY <1>3, <1>4, <1>6, <1>8, <1>9, <1>10

(* The sum of a streak only grows.                                         *)
LEMMA EarnedStays ==
    ASSUME SInv, SInv', [Next]_vars, NEW r \in Recorded
    PROVE  Sum(Streak(r)) <= Sum(Streak(r))'
<1>1. Streak(r) \subseteq Streak(r)'
    BY StreakGrows
<1>2. /\ Streak(r) \in SUBSET Requests /\ Streak(r)' \in SUBSET Requests
      /\ \A q \in Streak(r) : added'[q] = added[q]
    BY StreakOfRequests, RecordedStays DEF Streak, Recorded
<1>3. /\ IsFiniteSet(Streak(r)) /\ Weighs(added, Streak(r))
      /\ Sum(Streak(r)) = SumOver(added, Streak(r))
    BY <1>2, SumsOfScores DEF SInv
<1>4. /\ IsFiniteSet(Streak(r)') /\ Weighs(added', Streak(r)')
      /\ Sum(Streak(r))' = SumOver(added', Streak(r)')
    <2>1. IsFiniteSet(Streak(r)')
        BY <1>2, FS_Subset
    <2>2. Weighs(added', Streak(r)')
        BY <1>2 DEF SInv, TypeOK, Weighs
    <2>3. Sum(Streak(r))' = SumOver(added', Streak(r)')
        BY DEF Sum, SumOver, MapThenSumSet, MapThenFoldSet
    <2> QED
        BY <2>1, <2>2, <2>3
<1>5. SumOver(added', Streak(r)) = SumOver(added, Streak(r))
    BY <1>2, <1>3, SumSame
<1>6. SumOver(added', Streak(r)) <= SumOver(added', Streak(r)')
    BY <1>1, <1>4, SumMonotone
<1> QED
    BY <1>3, <1>4, <1>5, <1>6

(* A request that adds its score earns the total that it gets.             *)
LEMMA AddEarned ==
    ASSUME SInv, SInv', TInv, [Next]_vars, NEW r \in Requests, NEW s \in Scores,
           AddScore(r, s)
    PROVE  total'[r] <= Sum(Streak(r))'
<1> USE DEF SInv, TypeOK
<1>1. PICK after \in 0 .. MaxScore :
          /\ total' = [total EXCEPT ![r] = after]
          /\ added' = [added EXCEPT ![r] = s]
          /\ UNCHANGED <<clock, ip, now>>
          /\ pc[r] = "add"
          /\ \/ after <= s
             \/ /\ scores[ip[r]] # None
                /\ Age(now[r], scores[ip[r]].seen) <= DecayAfter
                /\ after <= scores[ip[r]].total + s
    BY AddScoreStep
<1>2. s \in Nat /\ s > 0 /\ added'[r] = s /\ total'[r] = after
    BY <1>1
<1>3. Recorded' = Recorded \cup {r} /\ r \notin Recorded /\ Recorded \in SUBSET Requests
    BY <1>1, <1>2 DEF Recorded, Staged, Scored
<1>4. \A q \in Requests : /\ now[q] \in Nat /\ now[q] <= clock /\ clock \in Nat
                          /\ clock <= now[r] + MaxSkew
    BY <1>1, Steps DEF Timed, InFlight, Since, RecordPcs
<1>5. Mine(r)' = {q \in Recorded \cup {r} : ip[q] = ip[r]}
    BY <1>1, <1>3, <1>4 DEF Mine
<1>6. Streak(r)' = {q \in Mine(r)' : Linked(q, r, Mine(r))'}
    BY DEF Streak, Mine, Linked
<1>7. r \in Streak(r)'
    <2>1. r \in Mine(r)'
        BY <1>5
    <2>2. \A x \in Mine(r)' : ~(now'[r] <= now'[x] /\ now'[x] < now'[r])
        BY <1>1, <1>3, <1>4, <1>5
    <2>3. Linked(r, r, Mine(r))'
        BY <2>2 DEF Linked
    <2> QED
        BY <1>6, <2>1, <2>3
<1>8. /\ IsFiniteSet(Streak(r)') /\ Weighs(added', Streak(r)')
      /\ Sum(Streak(r))' = SumOver(added', Streak(r)')
    <2>1. Streak(r)' \in SUBSET Requests
        BY DEF Streak, Recorded
    <2>2. IsFiniteSet(Streak(r)')
        BY <2>1, FS_Subset
    <2>3. Weighs(added', Streak(r)')
        BY <2>1 DEF Weighs
    <2>4. Sum(Streak(r))' = SumOver(added', Streak(r)')
        BY DEF Sum, SumOver, MapThenSumSet, MapThenFoldSet
    <2> QED
        BY <2>2, <2>3, <2>4
<1>9. CASE after <= s
    <2>1. Streak(r)' \ {r} \subseteq Streak(r)'
        OBVIOUS
    <2>2. /\ IsFiniteSet(Streak(r)' \ {r}) /\ Weighs(added', Streak(r)' \ {r})
        BY <1>8, <2>1, FS_Subset DEF Weighs
    <2>3. SumOver(added', Streak(r)' \ {r}) \in Nat
        BY <2>2, SumOfSet
    <2>4. SumOver(added', Streak(r)') = s + SumOver(added', Streak(r)' \ {r})
        BY <1>2, <1>7, <1>8, SumOfSet
    <2> QED
        BY <1>2, <1>8, <1>9, <2>3, <2>4
<1>10. CASE /\ scores[ip[r]] # None
            /\ Age(now[r], scores[ip[r]].seen) <= DecayAfter
            /\ after <= scores[ip[r]].total + s
    <2>1. PICK last \in Recorded : Wrote(last, ip[r])
        BY <1>10 DEF TInv, Entered
    <2>2. /\ last \in Requests /\ last # r /\ ip[last] = ip[r]
          /\ now[r] <= now[last] + DecayAfter
          /\ after <= total[last] + s
        <3>1. last \in Requests /\ last # r
            BY <1>3
        <3>2. Age(now[r], now[last]) <= DecayAfter
            BY <1>10, <2>1 DEF Wrote
        <3> QED
            BY <1>4, <1>10, <2>1, <3>1, <3>2 DEF Wrote, Age
    <2>3. Streak(last) \subseteq Streak(r)'
        <3> SUFFICES ASSUME NEW q \in Streak(last) PROVE q \in Streak(r)'
            OBVIOUS
        <3>1. q \in Mine(last) /\ Linked(q, last, Mine(last))
            BY DEF Streak, Mine, Linked
        <3>2. q \in Mine(r)'
            BY <1>5, <2>2, <3>1 DEF Mine
        <3> SUFFICES ASSUME NEW x \in Mine(r)', now[q] <= now[x], now[x] < now[r]
                     PROVE  \E z \in Mine(r)' : /\ now[x] < now[z]
                                                /\ now[z] <= now[x] + DecayAfter
            BY <1>1, <1>6, <3>2 DEF Linked
        <3>3. /\ x \in Recorded /\ ip[x] = ip[r] /\ x \in Requests
              /\ now[x] \in Nat /\ now[last] \in Nat /\ now[r] \in Nat
            BY <1>3, <1>4, <1>5, <2>2
        <3>4. CASE now[x] < now[last]
            <4>1. x \in Mine(last)
                BY <2>2, <3>3, <3>4 DEF Mine
            <4>2. PICK z \in Mine(last) : /\ now[x] < now[z]
                                          /\ now[z] <= now[x] + DecayAfter
                BY <3>1, <3>4, <4>1 DEF Linked
            <4>3. z \in Mine(r)'
                BY <1>5, <2>2, <4>2 DEF Mine
            <4> QED
                BY <4>2, <4>3
        <3>5. CASE ~(now[x] < now[last])
            <4>1. r \in Mine(r)' /\ now[r] <= now[x] + DecayAfter
                BY <1>5, <2>2, <3>3, <3>5
            <4> QED
                BY <4>1
        <3> QED
            BY <3>4, <3>5
    <2>4. total[last] <= SumOver(added, Streak(last))
        BY SumsOfScores, StreakOfRequests DEF TInv, TotalEarned
    <2>5. /\ IsFiniteSet(Streak(last)) /\ Weighs(added, Streak(last))
          /\ SumOver(added, Streak(last)) \in Nat
        BY StreakOfRequests, SumsOfScores, SumOfSet
    <2>6. \A q \in Streak(last) : added'[q] = added[q] /\ q # r
        BY <1>1, <1>3, StreakOfRequests
    <2>7. SumOver(added', Streak(last)) = SumOver(added, Streak(last))
        BY <2>5, <2>6, SumSame
    <2>8. Streak(last) \cup {r} \in SUBSET Streak(r)'
        BY <1>7, <2>3
    <2>9. /\ IsFiniteSet(Streak(last) \cup {r})
          /\ Weighs(added', Streak(last) \cup {r})
        BY <1>8, <2>8, FS_Subset DEF Weighs
    <2>10. SumOver(added', Streak(last) \cup {r}) = SumOver(added', Streak(last)) + s
        <3>1. r \notin Streak(last)
            BY <2>6
        <3> QED
            BY <1>2, <2>5, <2>9, <3>1, SumAdd
    <2>11. SumOver(added', Streak(last) \cup {r}) <= SumOver(added', Streak(r)')
        BY <1>8, <2>8, SumMonotone
    <2>12. SumOver(added', Streak(r)') \in Nat /\ total[last] \in Nat
        BY <1>8, <2>2, SumOfSet
    <2> QED
        BY <1>2, <1>8, <2>2, <2>4, <2>5, <2>7, <2>10, <2>11, <2>12
<1> QED
    BY <1>1, <1>9, <1>10

LEMMA TotalEarnedNext ==
    ASSUME SInv, SInv', TInv, [Next]_vars
    PROVE  TotalEarned'
<1> SUFFICES ASSUME NEW r \in Recorded'
             PROVE  total'[r] <= Sum(Streak(r))'
    BY DEF TotalEarned
<1>1. CASE r \in Recorded
    <2>1. total'[r] = total[r] /\ total[r] \in Nat
        BY <1>1, RecordedStays DEF SInv, TypeOK
    <2>2. total[r] <= Sum(Streak(r))
        BY <1>1 DEF TInv, TotalEarned
    <2>3. Sum(Streak(r)) <= Sum(Streak(r))'
        BY <1>1, EarnedStays
    <2>4. Sum(Streak(r)) \in Nat
        BY SumsOfScores, StreakOfRequests DEF SInv
    <2>5. Sum(Streak(r))' \in Nat
        <3>1. IsFiniteSet(Streak(r)') /\ Weighs(added', Streak(r)')
            <4>1. Streak(r)' \in SUBSET Requests
                BY DEF Streak, Recorded
            <4> QED
                BY <4>1, FS_Subset DEF Weighs, SInv, TypeOK
        <3>2. Sum(Streak(r))' = SumOver(added', Streak(r)')
            BY DEF Sum, SumOver, MapThenSumSet, MapThenFoldSet
        <3> QED
            BY <3>1, <3>2, SumOfSet
    <2> QED
        BY <2>1, <2>2, <2>3, <2>4, <2>5
<1>2. CASE r \notin Recorded
    <2>1. r \in Requests /\ added'[r] # added[r]
        BY <1>2 DEF Recorded
    <2>2. PICK s \in Scores : AddScore(r, s)
        BY <2>1, Steps DEF SInv
    <2> QED
        BY <2>1, <2>2, AddEarned
<1> QED
    BY <1>1, <1>2

LEMMA EnteredNext ==
    ASSUME SInv, TInv, [Next]_vars
    PROVE  Entered'
<1> USE DEF SInv, TypeOK
<1> SUFFICES ASSUME NEW i \in Ips, scores'[i] # None
             PROVE  \E r \in Recorded' : Wrote(r, i)'
    BY DEF Entered
<1>1. CASE scores'[i] = scores[i]
    <2>1. PICK r \in Recorded : Wrote(r, i)
        BY <1>1 DEF TInv, Entered
    <2> QED
        BY <1>1, <2>1, RecordedStays DEF Wrote
<1>2. CASE scores'[i] # scores[i]
    <2>1. PICK r \in Requests : \E s \in Scores : AddScore(r, s)
        BY <1>2 DEF Next, Tick, Request, Enter, LookupBan, EvictBan, NoHits, Record,
                    Reenter, Recheck, Reevict, InsertBan, vars
    <2>2. PICK s \in Scores : AddScore(r, s)
        BY <2>1
    <2>3. PICK after \in 0 .. MaxScore :
             /\ scores' = [scores EXCEPT ![ip[r]] =
                             [total |-> after, seen |-> now[r]]]
             /\ total' = [total EXCEPT ![r] = after]
             /\ added' = [added EXCEPT ![r] = s]
             /\ UNCHANGED <<ip, now>>
        BY <2>2, AddScoreStep
    <2>4. i = ip[r] /\ scores'[i] = [total |-> after, seen |-> now[r]]
        BY <1>2, <2>3
    <2>5. s > 0 /\ r \in Recorded'
        BY <2>3 DEF Recorded
    <2> QED
        BY <2>3, <2>4, <2>5 DEF Wrote
<1> QED
    BY <1>1, <1>2

LEMMA TInvInit == Init => TInv
<1> SUFFICES ASSUME Init PROVE TInv
    OBVIOUS
<1>1. Recorded = {}
    BY DEF Init, Recorded
<1> QED
    BY <1>1 DEF Init, TInv, Entered, TotalEarned

LEMMA TInvNext == SInv /\ SInv' /\ TInv /\ [Next]_vars => TInv'
BY TotalEarnedNext, EnteredNext DEF TInv

(* Every point is earned, in whatever order calls with stale clocks reach  *)
(* the entry: no total exceeds the scores of the client since it was last  *)
(* idle for more than decay_after.                                         *)
THEOREM TotalEarnedHolds == Spec => []TotalEarned
<1>1. TInv => TotalEarned
    BY DEF TInv
<1> QED
    BY <1>1, SInvInit, SInvNext, TInvInit, TInvNext, PTL DEF Spec

-----------------------------------------------------------------------------
(* A request is refused for a ban that its probe met in force.             *)
Refused ==
    \A r \in Requests : pc[r] = "refused" =>
        \E b \in Requests : /\ pc[b] = "banned"
                            /\ ip[b] = ip[r]
                            /\ probe[r] < now[b] + banDuration

LEMMA RefusedNext ==
    ASSUME SInv, Refused, [Next]_vars
    PROVE  Refused'
<1> USE DEF SInv, TypeOK
<1> SUFFICES ASSUME NEW r \in Requests, pc'[r] = "refused"
             PROVE  \E b \in Requests : /\ pc'[b] = "banned"
                                        /\ ip'[b] = ip'[r]
                                        /\ probe'[r] < now'[b] + banDuration'
    BY DEF Refused
<1>1. probe'[r] = probe[r]
    BY Steps DEF Enter, Reenter
<1>2. \E b \in Requests : /\ pc[b] = "banned"
                          /\ ip[b] = ip[r]
                          /\ probe[r] < now[b] + banDuration
    <2>1. CASE pc[r] = "refused"
        BY <2>1 DEF Refused
    <2>2. CASE pc[r] # "refused"
        <3>1. LookupBan(r)
            BY <2>2, Stages
        <3>2. bans[ip[r]] # None /\ probe[r] < bans[ip[r]]
            BY <3>1 DEF LookupBan, BanState
        <3>3. PICK b \in Requests : Made(b, ip[r])
            BY <3>2 DEF Rooted
        <3> QED
            BY <3>2, <3>3 DEF Made
    <2> QED
        BY <2>1, <2>2
<1>3. PICK b \in Requests : /\ pc[b] = "banned"
                            /\ ip[b] = ip[r]
                            /\ probe[r] < now[b] + banDuration
    BY <1>2
<1>4. pc'[b] = "banned" /\ now'[b] = now[b]
    BY <1>3, RecordsStay DEF Scored
<1> QED
    BY <1>1, <1>3, <1>4, Steps

(* A ban was earned: its total reached the threshold, and was earned.      *)
LEMMA BanEarned ==
    ASSUME SInv, TInv, NEW b \in Requests, pc[b] = "banned"
    PROVE  b \in Recorded /\ Sum(Streak(b)) >= Threshold
<1>1. b \in Recorded
    BY DEF SInv, Staged, Recorded, Scored
<1>2. total[b] >= Threshold /\ total[b] \in Nat
    BY DEF SInv, TypeOK, Over, OverPcs
<1>3. Sum(Streak(b)) \in Nat
    BY StreakOfRequests, SumsOfScores DEF SInv
<1> QED
    BY <1>1, <1>2, <1>3 DEF TInv, TotalEarned

(* is_banned answers true only for a client that some request banned, less *)
(* than ban_duration ago, on scores of at least the threshold.             *)
THEOREM RefusalEarnedHolds == Spec => []RefusalEarned
<1>1. Init => Refused
    BY DEF Init, Refused
<1>2. SInv /\ Refused /\ [Next]_vars => Refused'
    BY RefusedNext
<1>3. SInv /\ TInv /\ Refused => RefusalEarned
    BY BanEarned DEF Refused, RefusalEarned
<1> QED
    BY <1>1, <1>2, <1>3, SInvInit, SInvNext, TInvInit, TInvNext, PTL DEF Spec

(* The streak of a request recorded after the end of an uncontested ban    *)
(* that is longer than DecayAfter does not reach back over it.             *)
LEMMA StreakAfterBan ==
    ASSUME SInv, Apart, banDuration > DecayAfter + 4 * MaxSkew,
           NEW b \in Requests, Uncontested(b),
           NEW r \in Requests, r \in Recorded, ip[b] = ip[r],
           now[r] >= now[b] + banDuration,
           NEW q \in Streak(r)
    PROVE  now[q] + 2 * MaxSkew >= now[b] + banDuration
<1> USE DEF SInv, TypeOK
<1>1. /\ \A x \in Requests : now[x] \in Nat
      /\ banDuration \in Nat
    BY DEF MaxClock
<1>2. q \in Mine(r) /\ Linked(q, r, Mine(r))
    BY DEF Streak, Mine, Linked
<1>3. \A x \in Mine(r) : /\ x \in Requests
                         /\ \/ now[x] <= now[b] + 2 * MaxSkew
                            \/ now[x] + MaxSkew >= now[b] + banDuration
    <2> SUFFICES ASSUME NEW x \in Mine(r)
                 PROVE  /\ x \in Requests
                        /\ \/ now[x] <= now[b] + 2 * MaxSkew
                           \/ now[x] + MaxSkew >= now[b] + banDuration
        OBVIOUS
    <2>1. x \in Requests /\ pc[x] \in Scored /\ ip[x] = ip[b]
        BY DEF Mine, Recorded, Staged
    <2>2. now[x] <= now[b] + 2 * MaxSkew \/ now[x] >= Due(b)
        BY <2>1 DEF Apart
    <2> QED
        BY <1>1, <2>1, <2>2 DEF Due
<1> SUFFICES ASSUME now[q] <= now[b] + 2 * MaxSkew
             PROVE  FALSE
    BY <1>1, <1>2, <1>3
<1> DEFINE Q == {t \in Nat : /\ t <= now[b] + 2 * MaxSkew
                             /\ \E x \in Mine(r) : t = now[x] /\ now[q] <= now[x]}
<1>4. PICK t \in Q : \A u \in Q : u <= t
    <2>1. Q \in SUBSET Nat /\ \A u \in Q : u <= now[b] + 2 * MaxSkew
        OBVIOUS
    <2>2. now[q] \in Q
        BY <1>1, <1>2, <1>3
    <2>3. now[b] + 2 * MaxSkew \in Nat
        BY <1>1
    <2> HIDE DEF Q
    <2> QED
        BY <2>1, <2>2, <2>3, LargestNumber
<1>5. PICK x \in Mine(r) : /\ t = now[x] /\ now[q] <= now[x]
                           /\ now[x] <= now[b] + 2 * MaxSkew
    BY <1>4
<1>6. now[x] < now[r]
    BY <1>1, <1>3, <1>5
<1>7. PICK z \in Mine(r) : now[x] < now[z] /\ now[z] <= now[x] + DecayAfter
    BY <1>2, <1>5, <1>6 DEF Linked
<1>8. now[z] \in Nat /\ now[x] \in Nat /\ now[q] \in Nat /\ now[b] \in Nat
    BY <1>1, <1>2, <1>3, <1>5, <1>7
<1>9. CASE now[z] <= now[b] + 2 * MaxSkew
    <2>1. now[z] \in Q
        BY <1>5, <1>7, <1>8, <1>9
    <2> QED
        BY <1>4, <1>5, <1>7, <1>8, <2>1
<1>10. CASE now[z] + MaxSkew >= now[b] + banDuration
    BY <1>1, <1>5, <1>7, <1>8, <1>10
<1> QED
    BY <1>3, <1>7, <1>9, <1>10

(* A ban that has been served is forgiven: the client's next ban needs a   *)
(* full threshold of scores recorded when the first was at its end.        *)
THEOREM ServedBanForgivenHolds == Spec => []ServedBanForgiven
<1>1. SInv /\ BInv /\ TInv => ServedBanForgiven
    <2> SUFFICES ASSUME SInv, BInv, TInv,
                        banDuration > DecayAfter + 4 * MaxSkew,
                        NEW b \in Requests, NEW r \in Requests,
                        pc[b] = "banned", b \notin contested,
                        pc[r] = "banned", ip[b] = ip[r],
                        now[r] >= now[b] + banDuration
                 PROVE  Sum({q \in Recorded :
                               /\ ip[q] = ip[r]
                               /\ now[q] + 2 * MaxSkew >= now[b] + banDuration})
                           >= Threshold
        BY DEF ServedBanForgiven
    <2> DEFINE after == {q \in Recorded :
                           /\ ip[q] = ip[r]
                           /\ now[q] + 2 * MaxSkew >= now[b] + banDuration}
    <2>1. r \in Recorded /\ Sum(Streak(r)) >= Threshold
        BY BanEarned
    <2>2. Uncontested(b) /\ Apart
        BY DEF Uncontested, BInv
    <2>3. Streak(r) \subseteq after
        BY <2>1, <2>2, StreakAfterBan DEF Streak
    <2>4. after \in SUBSET Requests /\ TypeOK
        BY DEF Recorded, SInv
    <2>5. /\ IsFiniteSet(after) /\ Weighs(added, after)
          /\ Sum(after) = SumOver(added, after) /\ Sum(after) \in Nat
        BY <2>4, SumsOfScores
    <2>6. Sum(Streak(r)) = SumOver(added, Streak(r)) /\ Sum(Streak(r)) \in Nat
        BY <2>4, StreakOfRequests, SumsOfScores
    <2>7. SumOver(added, Streak(r)) <= SumOver(added, after)
        BY <2>3, <2>5, SumMonotone
    <2> HIDE DEF after
    <2>8. Sum(after) >= Threshold
        BY <2>1, <2>5, <2>6, <2>7
    <2> QED
        BY <2>8 DEF after
<1> QED
    BY <1>1, SInvInit, SInvNext, BInvInit, BInvNext, TInvInit, TInvNext, PTL DEF Spec
=============================================================================
