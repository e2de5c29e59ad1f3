------------------------- MODULE RateLimiterProofs -------------------------
(***************************************************************************)
(* Proofs about RateLimiter, for every set of requests and clients, every  *)
(* limit, window, ban duration and preemption bound.                       *)
(*                                                                         *)
(* The argument for WindowBound: consider the last check r to pass in a    *)
(* span.  A request of the span that passed before it can only have left   *)
(* the client's Vec if some check had a clock a whole window later         *)
(* (Forgotten); the clock would then be past the span by more than         *)
(* MaxSkew, and r, on its way, could not have a time inside it (Fresh).    *)
(* So r still counts all of them, and passes only within its limit.        *)
(***************************************************************************)
EXTENDS RateLimiter, FiniteSetTheorems, TLAPS

(* No request has a time ahead of the clock, and one on its way is at most *)
(* MaxSkew behind it.                                                      *)
Fresh ==
    /\ \A r \in Requests : now[r] <= clock
    /\ \A r \in InFlight : clock <= now[r] + MaxSkew

(* A Vec holds only requests of its client that were counted.              *)
Filed == \A i \in Ips : timestamps[i] \subseteq {q \in Counted : ip[q] = i}

(* A counted request has left its Vec only when it is a window old.        *)
Forgotten ==
    \A q \in Counted : q \in timestamps[ip[q]] \/ now[q] + Window <= clock

(* WindowBound for the spans that start anywhere.                          *)
SpansBounded ==
    \A i \in Ips, t \in Int :
        /\ Cardinality(AdmittedIn(i, t)) <= Quota
        /\ Cardinality({r \in AdmittedIn(i, t) : sensitive[r]}) <= SensitiveMax

IInv == TypeOK /\ Fresh /\ Filed /\ Forgotten /\ SpansBounded

USE RequestsAssumption, LimitAssumption, TimeAssumption, InFlightAssumption,
    NoBanAssumption

-----------------------------------------------------------------------------
(* Every set of requests is finite and has a cardinality.                  *)
LEMMA RequestSets ==
    ASSUME NEW S \in SUBSET Requests
    PROVE  IsFiniteSet(S) /\ Cardinality(S) \in Nat
BY FS_Subset, FS_CardinalityType

(* A subset of a set of requests is no larger.                             *)
LEMMA RequestSubsets ==
    ASSUME NEW S \in SUBSET Requests, NEW T \in SUBSET S
    PROVE  Cardinality(T) \in Nat /\ Cardinality(T) <= Cardinality(S)
BY RequestSets, FS_Subset

(* The initial states are well typed.                                      *)
LEMMA TypeInit == Init => TypeOK
BY DEF Init, TypeOK, Pcs

(* Every step preserves the types.                                         *)
LEMMA TypeNext == TypeOK /\ [Next]_vars => TypeOK'
<1> SUFFICES ASSUME TypeOK, [Next]_vars PROVE TypeOK'
    OBVIOUS
<1> USE DEF TypeOK, Pcs, history
<1>1. CASE Tick
    BY <1>1 DEF Tick
<1>2. ASSUME NEW r \in Requests, Start(r) PROVE TypeOK'
    <2>1. {q \in Requests : pc[q] = "rate001" /\ ip[q] = ip[r]} \in SUBSET Requests
        OBVIOUS
    <2> QED
        BY <1>2, <2>1 DEF Start
<1>3. ASSUME NEW r \in Requests, LookupBan(r) PROVE TypeOK'
    BY <1>3 DEF LookupBan
<1>4. ASSUME NEW r \in Requests, EvictBan(r) PROVE TypeOK'
    BY <1>4 DEF EvictBan
<1>5. ASSUME NEW r \in Requests, Count(r) PROVE TypeOK'
    <2>1. Kept(r) \cup {r} \in SUBSET Requests
        BY DEF Kept
    <2>2. timestamps' \in [Ips -> SUBSET Requests]
        BY <1>5, <2>1 DEF Count
    <2> QED
        BY <1>5, <2>2 DEF Count
<1>6. ASSUME NEW r \in Requests, InsertBan(r) PROVE TypeOK'
    <2>1. now[r] + BanDuration \in Nat
        OBVIOUS
    <2> QED
        BY <1>6, <2>1 DEF InsertBan
<1>7. CASE UNCHANGED vars
    BY <1>7 DEF vars
<1> QED
    BY <1>1, <1>2, <1>3, <1>4, <1>5, <1>6, <1>7 DEF Next, Check

(* The variables of the limiter always have their types.                   *)
THEOREM TypeCorrect == Spec => []TypeOK
BY TypeInit, TypeNext, PTL DEF Spec

-----------------------------------------------------------------------------
(* Initially no request has been counted.                                  *)
LEMMA IInvInit == Init => IInv
<1> SUFFICES ASSUME Init PROVE IInv
    OBVIOUS
<1>1. TypeOK
    BY TypeInit
<1>2. Counted = {} /\ InFlight = {} /\ Passed = {}
    BY DEF Init, Counted, InFlight, InFlightPcs, Passed
<1>3. Fresh
    BY <1>2 DEF Fresh, Init
<1>4. Filed
    BY DEF Filed, Init
<1>5. Forgotten
    BY <1>2 DEF Forgotten
<1>6. SpansBounded
    <2> SUFFICES ASSUME NEW i \in Ips, NEW t \in Int
                 PROVE  /\ Cardinality(AdmittedIn(i, t)) <= Quota
                        /\ Cardinality({r \in AdmittedIn(i, t) : sensitive[r]})
                             <= SensitiveMax
        BY DEF SpansBounded
    <2>1. /\ AdmittedIn(i, t) = {}
          /\ {r \in AdmittedIn(i, t) : sensitive[r]} = {}
        BY <1>2 DEF AdmittedIn
    <2> QED
        BY <2>1, FS_EmptySet DEF Quota
<1> QED
    BY <1>1, <1>3, <1>4, <1>5, <1>6 DEF IInv

(* A step that admits nobody and moves no admitted request's data leaves   *)
(* the spans as they are.                                                  *)
LEMMA SpansUnchanged ==
    ASSUME SpansBounded, UNCHANGED <<Passed, ip, sensitive>>,
           \A r \in Passed : now'[r] = now[r]
    PROVE  SpansBounded'
<1>1. \A i, t : AdmittedIn(i, t)' = AdmittedIn(i, t)
    BY DEF AdmittedIn
<1> QED
    BY <1>1 DEF SpansBounded

(* The heart of the argument: when check r passes, whatever passed before  *)
(* in a span that holds r is still among the requests r counts.            *)
LEMMA StillCounted ==
    ASSUME IInv, NEW r \in Requests, Count(r), NEW t \in Int,
           NEW i \in Ips, i = ip[r], r \in AdmittedIn(i, t)'
    PROVE  AdmittedIn(i, t) \subseteq Kept(r)
<1> USE DEF IInv, TypeOK
<1>1. t <= now[r] /\ now[r] + MaxSkew < t + Window
    BY DEF Count, AdmittedIn
<1>2. clock <= now[r] + MaxSkew
    BY DEF Count, Fresh, InFlight, InFlightPcs
<1>3. SUFFICES ASSUME NEW s \in AdmittedIn(i, t)
               PROVE  s \in timestamps[ip[r]] /\ Age(now[r], now[s]) < Window
    BY DEF Kept
<1>4. /\ s \in Counted
      /\ ip[s] = ip[r]
      /\ t <= now[s]
    BY <1>3 DEF AdmittedIn, Passed, Counted
<1>5. s \in Requests /\ now[s] \in Int /\ now[r] \in Int
    BY <1>3 DEF AdmittedIn, Passed
<1>6. ~(now[s] + Window <= clock)
    BY <1>1, <1>2, <1>4, <1>5
<1>7. s \in timestamps[ip[r]]
    BY <1>4, <1>6 DEF Forgotten
<1>8. Age(now[r], now[s]) < Window
    BY <1>1, <1>4, <1>5 DEF Age
<1> QED
    BY <1>7, <1>8

(* Counting a request keeps every span within its bounds.                  *)
LEMMA SpansCount ==
    ASSUME IInv, TypeOK', NEW r \in Requests, Count(r)
    PROVE  SpansBounded'
<1> USE DEF IInv, TypeOK
<1>1. \A q \in Requests : q # r => pc'[q] = pc[q]
    BY DEF Count
<1>2. UNCHANGED <<ip, sensitive, now>>
    BY DEF Count
<1>3. SUFFICES ASSUME NEW i \in Ips, NEW t \in Int
               PROVE  /\ Cardinality(AdmittedIn(i, t)') <= Quota
                      /\ Cardinality({q \in AdmittedIn(i, t)' : sensitive'[q]})
                           <= SensitiveMax
    BY DEF SpansBounded, Quota
<1>4. CASE r \notin AdmittedIn(i, t)'
    <2>1. r \notin AdmittedIn(i, t)
        BY DEF Count, AdmittedIn, Passed
    <2>2. AdmittedIn(i, t)' = AdmittedIn(i, t)
        BY <1>1, <1>2, <1>4, <2>1 DEF AdmittedIn, Passed
    <2> QED
        BY <1>2, <2>2 DEF SpansBounded
<1>5. CASE r \in AdmittedIn(i, t)'
    <2>1. i = ip[r]
        BY <1>2, <1>5 DEF AdmittedIn
    <2>2. pc'[r] = "pass"
        BY <1>5 DEF AdmittedIn, Passed
    <2>3. Cardinality(Kept(r) \cup {r}) <= Limit(r)
        <3>1. Kept(r) \cup {r} \in SUBSET Requests
            BY DEF Kept
        <3>2. Cardinality(Kept(r) \cup {r}) \in Nat /\ Limit(r) \in Nat
            BY <3>1, RequestSets DEF Limit
        <3>3. ~(Cardinality(Kept(r) \cup {r}) > Limit(r))
            BY <2>2 DEF Count
        <3> QED
            BY <3>2, <3>3
    <2>4. AdmittedIn(i, t)' \subseteq AdmittedIn(i, t) \cup {r}
        BY <1>1, <1>2 DEF AdmittedIn, Passed
    <2>5. AdmittedIn(i, t)' \subseteq Kept(r) \cup {r}
        BY <1>5, <2>1, <2>4, StillCounted
    <2>6. Kept(r) \cup {r} \in SUBSET Requests
        BY DEF Kept
    <2>7. Limit(r) <= Quota
        BY DEF Limit, Quota
    <2>8. Cardinality(AdmittedIn(i, t)') <= Quota
        <3>1. /\ Cardinality(AdmittedIn(i, t)') \in Nat
              /\ Cardinality(AdmittedIn(i, t)') <= Cardinality(Kept(r) \cup {r})
            BY <2>5, <2>6, RequestSubsets
        <3>2. /\ Cardinality(Kept(r) \cup {r}) \in Nat
              /\ Limit(r) \in Nat /\ Quota \in Nat
            BY <2>6, RequestSets DEF Limit, Quota
        <3> QED
            BY <2>3, <2>7, <3>1, <3>2
    <2>9. Cardinality({q \in AdmittedIn(i, t)' : sensitive'[q]}) <= SensitiveMax
        <3>1. CASE sensitive[r]
            <4>1. Limit(r) = SensitiveMax
                BY <3>1 DEF Limit
            <4>2. {q \in AdmittedIn(i, t)' : sensitive'[q]}
                    \in SUBSET (Kept(r) \cup {r})
                BY <2>5
            <4>3. /\ Cardinality({q \in AdmittedIn(i, t)' : sensitive'[q]}) \in Nat
                  /\ Cardinality({q \in AdmittedIn(i, t)' : sensitive'[q]})
                       <= Cardinality(Kept(r) \cup {r})
                BY <2>6, <4>2, RequestSubsets
            <4>4. Cardinality(Kept(r) \cup {r}) \in Nat
                BY <2>6, RequestSets
            <4> QED
                BY <2>3, <4>1, <4>3, <4>4
        <3>2. CASE ~sensitive[r]
            <4>1. {q \in AdmittedIn(i, t)' : sensitive'[q]}
                    = {q \in AdmittedIn(i, t) : sensitive[q]}
                BY <1>1, <1>2, <3>2 DEF AdmittedIn, Passed
            <4> QED
                BY <4>1 DEF SpansBounded
        <3> QED
            BY <3>1, <3>2
    <2> QED
        BY <2>8, <2>9
<1> QED
    BY <1>4, <1>5

(* Every step preserves the inductive invariant.                           *)
LEMMA IInvNext == IInv /\ [Next]_vars => IInv'
<1> SUFFICES ASSUME IInv, [Next]_vars PROVE IInv'
    OBVIOUS
<1>0. TypeOK'
    BY TypeNext DEF IInv
<1> USE DEF TypeOK
<1>1. CASE Tick
    <2> USE <1>1 DEF Tick, IInv
    <2>1. UNCHANGED <<Counted, InFlight, Passed>>
        BY DEF Counted, InFlight, Passed
    <2>2. Fresh'
        BY <2>1 DEF Fresh, InFlight
    <2>3. Filed'
        BY <2>1 DEF Filed
    <2>4. Forgotten'
        <3>1. Counted \subseteq Requests
            BY DEF Counted
        <3> QED
            BY <2>1, <3>1 DEF Forgotten
    <2>5. SpansBounded'
        BY <2>1, SpansUnchanged
    <2> QED
        BY <1>0, <2>2, <2>3, <2>4, <2>5
<1>2. ASSUME NEW r \in Requests, Start(r) PROVE IInv'
    <2> USE <1>2 DEF Start, IInv
    <2>1. /\ r \notin Counted
          /\ r \notin Passed
          /\ UNCHANGED <<Counted, Passed>>
        BY DEF Counted, Passed
    <2>2. Fresh'
        BY DEF Fresh, InFlight, InFlightPcs
    <2>3. Filed'
        BY <2>1 DEF Filed
    <2>4. Forgotten'
        BY <2>1 DEF Forgotten, Counted
    <2>5. SpansBounded'
        BY <2>1, SpansUnchanged DEF Passed
    <2> QED
        BY <1>0, <2>2, <2>3, <2>4, <2>5
<1>3. ASSUME NEW r \in Requests, LookupBan(r) \/ EvictBan(r) PROVE IInv'
    <2> USE <1>3 DEF LookupBan, EvictBan, IInv
    <2>1. UNCHANGED <<Counted, Passed>>
        BY DEF Counted, Passed
    <2>2. InFlight' \subseteq InFlight
        BY DEF InFlight, InFlightPcs
    <2>3. Fresh'
        BY <2>2 DEF Fresh
    <2>4. Filed'
        BY <2>1 DEF Filed
    <2>5. Forgotten'
        BY <2>1 DEF Forgotten
    <2>6. SpansBounded'
        BY <2>1, SpansUnchanged
    <2> QED
        BY <1>0, <2>3, <2>4, <2>5, <2>6
<1>4. ASSUME NEW r \in Requests, Count(r) PROVE IInv'
    <2> USE <1>4 DEF Count, IInv
    <2>1. Counted' = Counted \cup {r}
        BY DEF Counted
    <2>2. InFlight' \subseteq InFlight
        BY DEF InFlight, InFlightPcs
    <2>3. Fresh'
        BY <2>2 DEF Fresh
    <2>4. Filed'
        BY <2>1 DEF Filed, Kept
    <2>5. Forgotten'
        <3> SUFFICES ASSUME NEW q \in Counted'
                     PROVE  \/ q \in timestamps'[ip[q]]
                            \/ now[q] + Window <= clock
            BY DEF Forgotten
        <3>1. CASE q = r
            BY <3>1
        <3>2. CASE q # r /\ ip[q] # ip[r]
            BY <2>1, <3>2 DEF Forgotten, Counted
        <3>3. CASE q # r /\ ip[q] = ip[r]
            <4>1. q \in Counted /\ q \in Requests
                BY <2>1, <3>3 DEF Counted
            <4>2. CASE q \in Kept(r)
                BY <3>3, <4>2
            <4>3. CASE q \notin timestamps[ip[q]]
                BY <4>1, <4>3 DEF Forgotten
            <4>4. CASE ~(Age(now[r], now[q]) < Window)
                BY <4>1, <4>4 DEF Age, Fresh
            <4> QED
                BY <3>3, <4>2, <4>3, <4>4 DEF Kept
        <3> QED
            BY <3>1, <3>2, <3>3
    <2>6. SpansBounded'
        BY <1>0, SpansCount
    <2> QED
        BY <1>0, <2>3, <2>4, <2>5, <2>6
<1>5. ASSUME NEW r \in Requests, InsertBan(r) PROVE IInv'
    <2> USE <1>5 DEF InsertBan, IInv
    <2>1. UNCHANGED <<Counted, Passed>>
        BY DEF Counted, Passed
    <2>2. InFlight' \subseteq InFlight
        BY DEF InFlight, InFlightPcs
    <2>3. Fresh'
        BY <2>2 DEF Fresh
    <2>4. Filed'
        BY <2>1 DEF Filed
    <2>5. Forgotten'
        BY <2>1 DEF Forgotten
    <2>6. SpansBounded'
        BY <2>1, SpansUnchanged
    <2> QED
        BY <1>0, <2>3, <2>4, <2>5, <2>6
<1>6. CASE UNCHANGED vars
    <2> USE <1>6 DEF vars, IInv
    <2>1. UNCHANGED <<Counted, InFlight, Passed>>
        BY DEF Counted, InFlight, Passed
    <2>2. SpansBounded'
        BY <2>1, SpansUnchanged
    <2> QED
        BY <1>0, <2>1, <2>2 DEF Fresh, Filed, Forgotten
<1> QED
    BY <1>1, <1>2, <1>3, <1>4, <1>5, <1>6 DEF Next, Check

(* No client gets more than its limit through in a span of the window's    *)
(* length less MaxSkew, for every number of concurrent checks.             *)
THEOREM WindowBoundHolds == Spec => []WindowBound
<1>1. IInv => WindowBound
    <2>1. 0 .. MaxClock \subseteq Int
        OBVIOUS
    <2> QED
        BY <2>1 DEF IInv, SpansBounded, WindowBound
<1> QED
    BY <1>1, IInvInit, IInvNext, PTL DEF Spec

-----------------------------------------------------------------------------
(* The counted checks that a RATE-001 of r rests on.                       *)
Cause(r) ==
    {q \in Counted : ip[q] = ip[r] /\ (q = r \/ Age(now[r], now[q]) < Window)}

(* A check over its limit has a cause of more than its limit.              *)
Caused ==
    \A r \in Requests :
        pc[r] \in {"ban", "rate001"} => Cardinality(Cause(r)) > Limit(r)

(* A RATE-001 that may have made the entry of client i.                    *)
Bans(b, i) == pc[b] = "rate001" /\ ip[b] = i /\ bans[i] = now[b] + BanDuration

(* Every entry of bans was made by a RATE-001.                             *)
Rooted ==
    \A i \in Ips : bans[i] # NoBan => \E b \in Requests : Bans(b, i)

(* Every RATE-002 was given under such an entry.                           *)
Refused ==
    \A r \in Requests : pc[r] = "rate002" =>
        \E b \in Requests : /\ pc[b] = "rate001"
                            /\ ip[b] = ip[r]
                            /\ now[r] < now[b] + BanDuration

RInv == IInv /\ Caused /\ Rooted /\ Refused

(* What has been counted stays counted, with its data.                     *)
LEMMA CountedStays ==
    ASSUME TypeOK, [Next]_vars
    PROVE  /\ Counted \subseteq Counted'
           /\ UNCHANGED <<ip, sensitive>>
           /\ \A q \in Requests : pc[q] # "idle" => now'[q] = now[q]
           /\ \A q \in Requests : pc[q] = "rate001" => pc'[q] = "rate001"
<1> USE DEF TypeOK, Counted
<1>1. CASE Tick
    BY <1>1 DEF Tick
<1>2. ASSUME NEW r \in Requests, Check(r)
      PROVE  /\ Counted \subseteq Counted'
             /\ UNCHANGED <<ip, sensitive>>
             /\ \A q \in Requests : pc[q] # "idle" => now'[q] = now[q]
             /\ \A q \in Requests : pc[q] = "rate001" => pc'[q] = "rate001"
    BY <1>2 DEF Check, Start, LookupBan, EvictBan, Count, InsertBan
<1>3. CASE UNCHANGED vars
    BY <1>3 DEF vars
<1> QED
    BY <1>1, <1>2, <1>3 DEF Next

(* A cause only grows, and the limit it is compared with stays.            *)
LEMMA CauseGrows ==
    ASSUME TypeOK, [Next]_vars, NEW r \in Counted
    PROVE  Cause(r) \subseteq Cause(r)' /\ Limit(r)' = Limit(r)
<1>1. \A q \in Counted : q \in Requests /\ pc[q] # "idle"
    BY DEF Counted
<1>2. /\ Counted \subseteq Counted'
      /\ UNCHANGED <<ip, sensitive>>
      /\ \A q \in Counted : now'[q] = now[q]
    BY <1>1, CountedStays
<1>3. Limit(r)' = Limit(r)
    BY <1>2 DEF Limit
<1>4. Cause(r) \subseteq Cause(r)'
    BY <1>2 DEF Cause, Age
<1> QED
    BY <1>3, <1>4

(* A cause above the limit stays above it.                                 *)
LEMMA CauseStays ==
    ASSUME TypeOK, TypeOK', [Next]_vars, NEW r \in Counted,
           Cardinality(Cause(r)) > Limit(r)
    PROVE  Cardinality(Cause(r)') > Limit(r)'
<1>1. Cause(r) \subseteq Cause(r)' /\ Limit(r)' = Limit(r)
    BY CauseGrows
<1>2. Cause(r)' \in SUBSET Requests /\ Cause(r) \in SUBSET Requests
    BY DEF Cause, Counted
<1>3. /\ Cardinality(Cause(r)) \in Nat
      /\ Cardinality(Cause(r)') \in Nat
      /\ Cardinality(Cause(r)) <= Cardinality(Cause(r)')
    BY <1>1, <1>2, RequestSubsets, RequestSets
<1>4. Limit(r) \in Nat
    BY DEF Limit
<1> QED
    BY <1>1, <1>3, <1>4

(* Count gives a check that it sends to its ban a cause.                   *)
LEMMA CountCauses ==
    ASSUME IInv, IInv', NEW r \in Requests, Count(r), pc'[r] = "ban"
    PROVE  Cardinality(Cause(r)') > Limit(r)'
<1> USE DEF IInv, TypeOK
<1>1. Cardinality(Kept(r) \cup {r}) > Limit(r)
    BY DEF Count
<1>2. Limit(r)' = Limit(r) /\ Limit(r) \in Nat
    BY DEF Count, Limit
<1>3. Kept(r) \cup {r} \subseteq Cause(r)'
    <2>1. Counted' = Counted \cup {r}
        BY DEF Count, Counted
    <2>2. \A q \in Kept(r) : q \in Counted /\ ip[q] = ip[r]
        BY DEF Kept, Filed
    <2>3. UNCHANGED <<ip, now>>
        BY DEF Count
    <2> QED
        BY <2>1, <2>2, <2>3 DEF Cause, Kept, Age
<1>4. Cause(r)' \in SUBSET Requests
    BY DEF Cause, Counted
<1>5. /\ Cardinality(Kept(r) \cup {r}) \in Nat
      /\ Cardinality(Cause(r)') \in Nat
      /\ Cardinality(Kept(r) \cup {r}) <= Cardinality(Cause(r)')
    BY <1>3, <1>4, RequestSubsets, RequestSets
<1> QED
    BY <1>1, <1>2, <1>5

(* Every step preserves the causes.                                        *)
LEMMA CausedNext ==
    ASSUME IInv, IInv', Caused, [Next]_vars
    PROVE  Caused'
<1> USE DEF IInv, TypeOK
<1> SUFFICES ASSUME NEW r \in Requests, pc'[r] \in {"ban", "rate001"}
             PROVE  Cardinality(Cause(r)') > Limit(r)'
    BY DEF Caused
<1>1. CASE pc[r] \in {"ban", "rate001"}
    <2>1. r \in Counted /\ Cardinality(Cause(r)) > Limit(r)
        BY <1>1 DEF Caused, Counted
    <2> QED
        BY <2>1, CauseStays
<1>2. CASE pc[r] \notin {"ban", "rate001"}
    <2>1. Count(r) /\ pc'[r] = "ban"
        <3>1. ~UNCHANGED pc
            BY <1>2
        <3>2. PICK q \in Requests : Check(q)
            BY <3>1 DEF Next, Tick, vars
        <3>3. q = r
            BY <1>2, <3>2
               DEF Check, Start, LookupBan, EvictBan, Count, InsertBan
        <3> QED
            BY <1>2, <3>2, <3>3
               DEF Check, Start, LookupBan, EvictBan, Count, InsertBan
    <2> QED
        BY <2>1, CountCauses
<1> QED
    BY <1>1, <1>2

(* Every step leaves every entry of bans with a RATE-001 that made it.     *)
LEMMA RootedNext ==
    ASSUME IInv, Rooted, [Next]_vars
    PROVE  Rooted'
<1> USE DEF IInv, TypeOK
<1> SUFFICES ASSUME NEW i \in Ips, bans'[i] # NoBan
             PROVE  \E b \in Requests : Bans(b, i)'
    BY DEF Rooted
<1>1. CASE bans'[i] = bans[i]
    <2>1. PICK b \in Requests : Bans(b, i)
        BY <1>1 DEF Rooted
    <2>2. Bans(b, i)'
        BY <2>1, CountedStays, <1>1 DEF Bans
    <2> QED
        BY <1>1, <2>2 DEF Bans
<1>2. CASE bans'[i] # bans[i]
    <2>1. PICK r \in Requests : EvictBan(r) \/ InsertBan(r)
        BY <1>2 DEF Next, Check, Tick, Start, LookupBan, Count, vars
    <2>2. CASE EvictBan(r)
        BY <1>2, <2>2 DEF EvictBan
    <2>3. CASE InsertBan(r)
        <3>1. i = ip[r] /\ bans'[i] = now[r] + BanDuration
            BY <1>2, <2>3 DEF InsertBan
        <3>2. Bans(r, i)'
            BY <2>3, <3>1 DEF InsertBan, Bans
        <3> QED
            BY <3>2
    <2> QED
        BY <2>1, <2>2, <2>3
<1> QED
    BY <1>1, <1>2

(* Every step preserves that refusals were given under a ban.              *)
LEMMA RefusedNext ==
    ASSUME IInv, Rooted, Refused, [Next]_vars
    PROVE  Refused'
<1> USE DEF IInv, TypeOK
<1> SUFFICES ASSUME NEW r \in Requests, pc'[r] = "rate002"
             PROVE  \E b \in Requests : /\ pc'[b] = "rate001"
                                        /\ ip'[b] = ip'[r]
                                        /\ now'[r] < now'[b] + BanDuration
    BY DEF Refused
<1>1. CASE pc[r] = "rate002"
    <2>1. PICK b \in Requests : /\ pc[b] = "rate001"
                               /\ ip[b] = ip[r]
                               /\ now[r] < now[b] + BanDuration
        BY <1>1 DEF Refused
    <2> QED
        BY <1>1, <2>1, CountedStays
<1>2. CASE pc[r] # "rate002"
    <2>1. PICK q \in Requests : Check(q)
        BY <1>2 DEF Next, Tick, vars
    <2>2. q = r /\ LookupBan(r)
        BY <1>2, <2>1 DEF Check, Start, LookupBan, EvictBan, Count, InsertBan
    <2>3. bans[ip[r]] # NoBan /\ now[r] < bans[ip[r]]
        BY <1>2, <2>2 DEF LookupBan
    <2>4. PICK b \in Requests : Bans(b, ip[r])
        BY <2>3 DEF Rooted
    <2> QED
        BY <2>2, <2>3, <2>4, CountedStays DEF Bans, LookupBan
<1> QED
    BY <1>1, <1>2

(* No refusal without a cause, for any number of concurrent checks: a      *)
(* RATE-001 rests on more counted checks than the limit, a RATE-002 on a   *)
(* RATE-001 that is younger than the ban.                                  *)
THEOREM RefusalEarnedHolds == Spec => []RefusalEarned
<1>1. Init => RInv
    <2> SUFFICES ASSUME Init PROVE RInv
        OBVIOUS
    <2>1. Caused /\ Rooted /\ Refused
        BY DEF Init, Caused, Rooted, Refused
    <2> QED
        BY <2>1, IInvInit DEF RInv
<1>2. RInv /\ [Next]_vars => RInv'
    BY IInvNext, CausedNext, RootedNext, RefusedNext DEF RInv
<1>3. RInv => RefusalEarned
    BY DEF RInv, Caused, Refused, RefusalEarned, Cause
<1> QED
    BY <1>1, <1>2, <1>3, PTL DEF Spec
-----------------------------------------------------------------------------
(* The argument for UncontestedBanHolds: while the ban b is in force, its  *)
(* client's entry in bans can only be replaced by a check on its way,      *)
(* whose time is MaxSkew old at most, and only be removed by a check that  *)
(* found it expired.  Until MaxSkew before the end of b the entry is there.*)

(* The end of the ban of b, less MaxSkew.                                  *)
Due(b) == now[b] + BanDuration - MaxSkew

Uncontested(b) == pc[b] = "rate001" /\ b \notin contested

(* What a check saw banned at its start is banned, and of its client.      *)
Remembered ==
    \A r \in Requests : \A b \in bannedBefore[r] :
        b \in Requests /\ pc[b] = "rate001" /\ ip[b] = ip[r]

(* The entry of an uncontested ban is there until the ban is due.          *)
Standing ==
    \A b \in Requests : Uncontested(b) =>
        \/ clock >= Due(b)
        \/ bans[ip[b]] # NoBan /\ bans[ip[b]] >= Due(b)

(* A remove of the key finds every uncontested ban of the client due.      *)
Ripe ==
    \A b, q \in Requests :
        Uncontested(b) /\ pc[q] = "evict" /\ ip[q] = ip[b] => clock >= Due(b)

(* What gets past the bans it met at its start gets past them at their end.*)
Outlasted ==
    \A r \in Requests : pc[r] \in {"evict", "count", "pass"} =>
        \A b \in bannedBefore[r] \ contested : now[r] + MaxSkew >= Due(b)

BInv == Remembered /\ Standing /\ Ripe /\ Outlasted

(* A ban, and what it was inserted with, stays; one that is uncontested    *)
(* after a step was uncontested before, or is inserted by the step.        *)
LEMMA BansStay ==
    ASSUME IInv, [Next]_vars
    PROVE  /\ contested \subseteq contested'
           /\ UNCHANGED ip
           /\ clock' \in Int /\ clock' >= clock
           /\ \A b \in Requests : pc[b] = "rate001" =>
                 pc'[b] = "rate001" /\ now'[b] = now[b] /\ Due(b)' = Due(b)
           /\ \A b \in Requests : Uncontested(b)' /\ pc[b] = "rate001" =>
                 Uncontested(b)
           /\ \A b \in Requests : Uncontested(b)' /\ pc[b] # "rate001" =>
                 /\ InsertBan(b)
                 /\ \A q \in Requests : pc[q] = "evict" => ip[q] # ip[b]
           /\ \A b \in Requests : Uncontested(b)' => Due(b) \in Int
<1> USE DEF IInv, TypeOK
<1>1. /\ contested \subseteq contested'
      /\ clock' \in Int /\ clock' >= clock
    <2>1. CASE Tick
        BY <2>1 DEF Tick, history
    <2>2. ASSUME NEW r \in Requests, Check(r)
          PROVE  contested \subseteq contested' /\ clock' = clock
        BY <2>2 DEF history, Check, Start, LookupBan, EvictBan, Count, InsertBan
    <2>3. CASE UNCHANGED vars
        BY <2>3 DEF vars, history
    <2> QED
        BY <2>1, <2>2, <2>3 DEF Next
<1>2. UNCHANGED ip /\ \A b \in Requests : pc[b] = "rate001" =>
                          pc'[b] = "rate001" /\ now'[b] = now[b]
    BY CountedStays
<1>3. \A b \in Requests : Uncontested(b)' /\ pc[b] # "rate001" =>
          /\ InsertBan(b)
          /\ \A q \in Requests : pc[q] = "evict" => ip[q] # ip[b]
    <2> SUFFICES ASSUME NEW b \in Requests, Uncontested(b)', pc[b] # "rate001"
                 PROVE  /\ InsertBan(b)
                        /\ \A q \in Requests : pc[q] = "evict" => ip[q] # ip[b]
        OBVIOUS
    <2>1. PICK r \in Requests : Check(r)
        BY DEF Uncontested, Next, Tick, vars
    <2>2. r = b /\ InsertBan(b)
        BY <2>1 DEF Uncontested, Check, Start, LookupBan, EvictBan, Count, InsertBan
    <2> QED
        BY <2>2 DEF InsertBan, Uncontested
<1> QED
    BY <1>1, <1>2, <1>3 DEF Uncontested, Due

(* The bans that a check remembers.                                        *)
LEMMA RememberedNext ==
    ASSUME IInv, Remembered, [Next]_vars
    PROVE  Remembered'
<1> USE DEF IInv, TypeOK
<1> SUFFICES ASSUME NEW r \in Requests, NEW b \in bannedBefore'[r]
             PROVE  b \in Requests /\ pc'[b] = "rate001" /\ ip'[b] = ip'[r]
    BY DEF Remembered
<1>1. CASE b \in bannedBefore[r]
    BY <1>1, BansStay DEF Remembered
<1>2. CASE b \notin bannedBefore[r]
    <2>1. PICK q \in Requests : Start(q)
        BY <1>2 DEF Next, Tick, Check, LookupBan, EvictBan, Count, InsertBan, vars,
                    history
    <2> QED
        BY <1>2, <2>1, BansStay DEF Start
<1> QED
    BY <1>1, <1>2

(* A step changes an entry of bans by a remove or an insert.               *)
LEMMA EntryChanges ==
    ASSUME IInv, [Next]_vars, NEW i \in Ips, bans'[i] # bans[i]
    PROVE  \E q \in Requests : EvictBan(q) \/ InsertBan(q)
BY DEF Next, Tick, Check, Start, LookupBan, Count, vars

(* The entry of an uncontested ban is replaced by later ones only, and     *)
(* removed only when the ban is due.                                       *)
LEMMA StandingNext ==
    ASSUME IInv, Standing, Ripe, [Next]_vars
    PROVE  Standing'
<1> USE DEF IInv, TypeOK
<1> SUFFICES ASSUME NEW b \in Requests, Uncontested(b)'
             PROVE  \/ clock' >= Due(b)'
                    \/ bans'[ip'[b]] # NoBan /\ bans'[ip'[b]] >= Due(b)'
    BY DEF Standing
<1>1. /\ UNCHANGED ip /\ clock' \in Int /\ clock' >= clock
      /\ ip[b] \in Ips
      /\ now[b] \in Int
    BY BansStay
<1>2. CASE pc[b] # "rate001"
    BY <1>2, BansStay DEF InsertBan, Due
<1>3. CASE pc[b] = "rate001"
    <2>1. Uncontested(b) /\ Due(b)' = Due(b) /\ Due(b) \in Int
        BY <1>3, BansStay
    <2>2. CASE clock >= Due(b)
        BY <1>1, <2>1, <2>2
    <2>3. CASE bans'[ip[b]] = bans[ip[b]]
        BY <1>1, <2>1, <2>2, <2>3 DEF Standing
    <2>4. CASE bans'[ip[b]] # bans[ip[b]]
        <3>1. PICK q \in Requests : EvictBan(q) \/ InsertBan(q)
            BY <1>1, <2>4, EntryChanges
        <3>2. CASE EvictBan(q)
            <4>1. pc[q] = "evict" /\ ip[q] = ip[b]
                BY <1>1, <2>4, <3>2 DEF EvictBan
            <4> QED
                BY <2>1, <2>2, <4>1 DEF Ripe
        <3>3. CASE InsertBan(q)
            <4>1. bans'[ip[b]] = now[q] + BanDuration
                BY <1>1, <2>4, <3>3 DEF InsertBan
            <4>2. now[q] \in Nat /\ clock <= now[q] + MaxSkew /\ now[b] <= clock
                BY <3>3 DEF InsertBan, Fresh, InFlight, InFlightPcs
            <4> QED
                BY <1>1, <2>1, <4>1, <4>2 DEF Due
        <3> QED
            BY <3>1, <3>2, <3>3
    <2> QED
        BY <2>3, <2>4
<1> QED
    BY <1>2, <1>3

(* A check that gets past the get finds the uncontested bans of its client *)
(* due, whether it found an entry or none.                                 *)
LEMMA PastIsDue ==
    ASSUME IInv, Standing, NEW b \in Requests, Uncontested(b),
           NEW r \in Requests, ip[r] = ip[b], LookupBan(r), pc'[r] # "rate002"
    PROVE  clock >= Due(b) /\ now[r] + MaxSkew >= Due(b)
<1> USE DEF IInv, TypeOK
<1>1. bans[ip[b]] = NoBan \/ ~(now[r] < bans[ip[b]])
    BY DEF LookupBan
<1>2. /\ now[r] \in Nat /\ clock \in Nat /\ Due(b) \in Int
      /\ now[r] <= clock /\ clock <= now[r] + MaxSkew
    BY DEF LookupBan, Fresh, InFlight, InFlightPcs, Due
<1>3. clock >= Due(b)
    <2>1. CASE bans[ip[b]] # NoBan /\ bans[ip[b]] >= Due(b)
        <3>1. bans[ip[b]] \in Nat
            BY <2>1
        <3> QED
            BY <1>1, <1>2, <2>1, <3>1
    <2> QED
        BY <2>1 DEF Standing
<1> QED
    BY <1>2, <1>3

(* A check that is about to remove the entry came past the get.            *)
LEMMA RipeNext ==
    ASSUME IInv, Standing, Ripe, [Next]_vars
    PROVE  Ripe'
<1> USE DEF IInv, TypeOK
<1> SUFFICES ASSUME NEW b \in Requests, NEW q \in Requests,
                    Uncontested(b)', pc'[q] = "evict", ip'[q] = ip'[b]
             PROVE  clock' >= Due(b)'
    BY DEF Ripe
<1>1. UNCHANGED ip /\ clock \in Int /\ clock' \in Int /\ clock' >= clock
    BY BansStay
<1>2. CASE pc[b] = "rate001"
    <2>1. Uncontested(b) /\ Due(b)' = Due(b) /\ Due(b) \in Int
        BY <1>2, BansStay
    <2>2. CASE pc[q] = "evict"
        BY <1>1, <2>1, <2>2 DEF Ripe
    <2>3. CASE pc[q] # "evict"
        <3>1. PICK r \in Requests : Check(r)
            BY <2>3 DEF Next, Tick, vars
        <3>2. r = q /\ LookupBan(q)
            BY <2>3, <3>1 DEF Check, Start, LookupBan, EvictBan, Count, InsertBan
        <3> QED
            BY <1>1, <2>1, <3>2, PastIsDue
    <2> QED
        BY <2>2, <2>3
<1>3. CASE pc[b] # "rate001"
    <2>1. InsertBan(b) /\ pc[q] # "evict"
        BY <1>1, <1>3, BansStay
    <2> QED
        BY <2>1 DEF InsertBan
<1> QED
    BY <1>2, <1>3

(* A check that gets past its bans came past the get.                      *)
LEMMA OutlastedNext ==
    ASSUME IInv, Remembered, Standing, Outlasted, [Next]_vars
    PROVE  Outlasted'
<1> USE DEF IInv, TypeOK
<1> SUFFICES ASSUME NEW r \in Requests, pc'[r] \in {"evict", "count", "pass"},
                    NEW b \in bannedBefore'[r] \ contested'
             PROVE  now'[r] + MaxSkew >= Due(b)'
    BY DEF Outlasted
<1>1. bannedBefore'[r] = bannedBefore[r] /\ now'[r] = now[r]
    <2>1. ASSUME NEW q \in Requests, Start(q)
          PROVE  bannedBefore'[r] = bannedBefore[r] /\ now'[r] = now[r]
        BY <2>1 DEF Start
    <2> QED
        BY <2>1 DEF Next, Tick, Check, LookupBan, EvictBan, Count, InsertBan, vars,
                    history
<1>2. /\ b \in Requests /\ pc[b] = "rate001" /\ ip[b] = ip[r]
      /\ b \notin contested
    BY <1>1, BansStay DEF Remembered
<1>3. Due(b)' = Due(b)
    BY <1>2, BansStay
<1>4. CASE pc[r] \in {"evict", "count", "pass"}
    BY <1>1, <1>2, <1>3, <1>4 DEF Outlasted
<1>5. CASE pc[r] \notin {"evict", "count", "pass"}
    <2>1. PICK q \in Requests : Check(q)
        BY <1>5 DEF Next, Tick, vars
    <2>2. q = r /\ LookupBan(r)
        BY <1>5, <2>1
           DEF Check, Start, LookupBan, EvictBan, Count, InsertBan
    <2> QED
        BY <1>1, <1>2, <1>3, <2>2, PastIsDue DEF Uncontested
<1> QED
    BY <1>4, <1>5

(* Initially there is no ban.                                              *)
LEMMA BInvInit == Init => BInv
BY DEF Init, BInv, Remembered, Standing, Ripe, Outlasted, Uncontested

LEMMA BInvNext == IInv /\ BInv /\ [Next]_vars => BInv'
BY RememberedNext, StandingNext, RipeNext, OutlastedNext DEF BInv

(* A ban that no remove raced with holds to its end, less twice the time a *)
(* check may be preempted, for any number of concurrent checks.            *)
THEOREM UncontestedBanHoldsAlways == Spec => []UncontestedBanHolds
<1>1. IInv /\ BInv => UncontestedBanHolds
    <2> SUFFICES ASSUME IInv, BInv, NEW r \in Passed,
                        NEW b \in bannedBefore[r] \ contested
                 PROVE  now[r] + 2 * MaxSkew >= now[b] + BanDuration
        BY DEF UncontestedBanHolds
    <2>1. r \in Requests /\ b \in Requests /\ now[r] + MaxSkew >= Due(b)
        BY DEF BInv, Remembered, Outlasted, Passed
    <2> QED
        BY <2>1 DEF Due, IInv, TypeOK
<1> QED
    BY <1>1, IInvInit, IInvNext, BInvInit, BInvNext, PTL DEF Spec

-----------------------------------------------------------------------------
(* The argument for VecBounded: the entries of a Vec beyond the limit are  *)
(* of checks that answered RATE-001 or are about to.  What a check about   *)
(* to count still finds of them, and the checks about to count beside it,  *)
(* were all on their way at once when the last of these got past the get:  *)
(* a ban inserted before that is due by then, and a window old.            *)

(* No ban of client i was lost to the race with a remove.                  *)
NeverRaced(i) == \A b \in contested : ip[b] # i

(* The checks over the limit that a check r would still count.             *)
Late(r) ==
    {b \in Requests : /\ ip[b] = ip[r]
                      /\ pc[b] \in {"ban", "rate001"}
                      /\ now[b] + Window > now[r]}

Counting(i) == {q \in Requests : ip[q] = i /\ pc[q] = "count"}

Crowd(r) == Late(r) \cup Counting(ip[r])

LongBan == BanDuration >= Window + 2 * MaxSkew

FewInFlight == Cardinality(InFlight) <= MaxInFlight

FewLate ==
    \A r \in Requests :
        LongBan /\ pc[r] = "count" /\ NeverRaced(ip[r]) =>
            Cardinality(Crowd(r)) <= MaxInFlight

(* The entries of checks that passed are within the limit.                 *)
FewPassed ==
    \A i \in Ips : Cardinality({q \in timestamps[i] : pc[q] = "pass"}) <= Quota

VInv == FewInFlight /\ FewLate /\ FewPassed /\ VecBounded

(* Start leaves a place for the check that it starts.                      *)
LEMMA FewInFlightNext ==
    ASSUME IInv, FewInFlight, [Next]_vars
    PROVE  FewInFlight'
<1> USE DEF IInv, TypeOK
<1>0. InFlight \in SUBSET Requests
    BY DEF InFlight
<1>1. ASSUME NEW r \in Requests, Start(r) PROVE FewInFlight'
    <2>1. InFlight' = InFlight \cup {r}
        BY <1>1 DEF Start, InFlight, InFlightPcs
    <2>2. /\ Cardinality(InFlight \cup {r}) <= Cardinality(InFlight) + 1
          /\ Cardinality(InFlight) \in Nat
        <3>1. IsFiniteSet(InFlight) /\ Cardinality(InFlight) \in Nat
            BY <1>0, RequestSets
        <3>2. \/ Cardinality(InFlight \cup {r}) = Cardinality(InFlight)
              \/ Cardinality(InFlight \cup {r}) = Cardinality(InFlight) + 1
            BY <3>1, FS_AddElement
        <3> QED
            BY <3>1, <3>2
    <2>3. InFlight \cup {r} \in SUBSET Requests
        BY <1>0
    <2>4. Cardinality(InFlight \cup {r}) \in Nat
        BY <2>3, RequestSets
    <2> QED
        BY <1>1, <2>1, <2>2, <2>4 DEF Start, FewInFlight
<1>2. ASSUME ~ \E r \in Requests : Start(r) PROVE FewInFlight'
    <2>1. InFlight' \subseteq InFlight
        BY <1>2 DEF Next, Tick, Check, LookupBan, EvictBan, Count, InsertBan, vars,
                    InFlight, InFlightPcs
    <2>2. /\ Cardinality(InFlight') \in Nat
          /\ Cardinality(InFlight') <= Cardinality(InFlight)
          /\ Cardinality(InFlight) \in Nat
        BY <1>0, <2>1, RequestSubsets, RequestSets
    <2> QED
        BY <2>2 DEF FewInFlight
<1> QED
    BY <1>1, <1>2

(* While a check is about to count, either no more checks crowd it than    *)
(* before, or all that crowd it are on their way.                          *)
LEMMA CrowdStep ==
    ASSUME IInv, BInv, [Next]_vars, LongBan,
           NEW r \in Requests, pc'[r] = "count", NeverRaced(ip[r])'
    PROVE  \/ pc[r] = "count" /\ NeverRaced(ip[r]) /\ Crowd(r)' \subseteq Crowd(r)
           \/ Crowd(r)' \subseteq InFlight'
<1> USE DEF IInv, TypeOK
<1>1. UNCHANGED ip /\ contested \subseteq contested' /\ NeverRaced(ip[r])
    BY BansStay DEF NeverRaced
<1>2. CASE \E q \in Requests : /\ ip[q] = ip[r]
                               /\ LookupBan(q) \/ EvictBan(q)
                               /\ pc'[q] = "count"
    <2>1. PICK q \in Requests : /\ ip[q] = ip[r]
                                /\ LookupBan(q) \/ EvictBan(q)
                                /\ pc'[q] = "count"
        BY <1>2
    <2>2. pc' = [pc EXCEPT ![q] = "count"] /\ UNCHANGED <<now, clock>>
        BY <2>1 DEF LookupBan, EvictBan
    <2>3. now[r] \in Nat /\ clock \in Nat /\ clock <= now[r] + MaxSkew
        BY <2>1, <2>2 DEF Fresh, InFlight, InFlightPcs, LookupBan, EvictBan
    <2>4. ASSUME NEW b \in Requests, ip[b] = ip[r], pc[b] = "rate001"
          PROVE  ~(now[b] + Window > now[r])
        <3>1. Uncontested(b)
            BY <1>1, <2>4 DEF Uncontested, NeverRaced
        <3>2. clock >= Due(b)
            <4>1. CASE LookupBan(q)
                BY <2>1, <2>4, <3>1, <4>1, PastIsDue DEF BInv
            <4>2. CASE EvictBan(q)
                BY <2>1, <2>4, <3>1, <4>2 DEF BInv, Ripe, EvictBan
            <4> QED
                BY <2>1, <4>1, <4>2
        <3>3. now[b] \in Nat
            OBVIOUS
        <3> QED
            BY <2>3, <3>2, <3>3 DEF Due, LongBan
    <2>5. \A b \in Requests : pc'[b] = "rate001" => pc[b] = "rate001"
        BY <2>2
    <2>6. Crowd(r)' \subseteq InFlight'
        BY <1>1, <2>2, <2>4, <2>5
           DEF Crowd, Late, Counting, InFlight, InFlightPcs
    <2> QED
        BY <2>6
<1>3. CASE ~ \E q \in Requests : /\ ip[q] = ip[r]
                                 /\ LookupBan(q) \/ EvictBan(q)
                                 /\ pc'[q] = "count"
    <2>1. \A q \in Requests : ip[q] = ip[r] /\ pc'[q] = "count" => pc[q] = "count"
        <3> SUFFICES ASSUME NEW q \in Requests, ip[q] = ip[r], pc'[q] = "count",
                            pc[q] # "count"
                     PROVE  FALSE
            OBVIOUS
        <3>1. PICK x \in Requests : Check(x)
            BY DEF Next, Tick, vars
        <3>2. x = q /\ (LookupBan(q) \/ EvictBan(q))
            BY <3>1 DEF Check, Start, LookupBan, EvictBan, Count, InsertBan
        <3> QED
            BY <1>3, <3>2
    <2>2. \A q \in Requests :
              pc'[q] \in {"ban", "rate001"} =>
                  pc[q] \in {"ban", "rate001", "count"} /\ now'[q] = now[q]
        <3> SUFFICES ASSUME NEW q \in Requests, pc'[q] \in {"ban", "rate001"}
                     PROVE  pc[q] \in {"ban", "rate001", "count"} /\ now'[q] = now[q]
            OBVIOUS
        <3>1. pc[q] \in {"ban", "rate001", "count"}
            <4>1. CASE pc'[q] = pc[q]
                BY <4>1
            <4>2. CASE pc'[q] # pc[q]
                <5>1. PICK x \in Requests : Check(x)
                    BY <4>2 DEF Next, Tick, vars
                <5> QED
                    BY <4>2, <5>1
                       DEF Check, Start, LookupBan, EvictBan, Count, InsertBan
            <4> QED
                BY <4>1, <4>2
        <3> QED
            BY <3>1, CountedStays
    <2>3. pc[r] = "count" /\ now'[r] = now[r]
        BY <2>1, CountedStays
    <2>4. Crowd(r)' \subseteq Crowd(r)
        BY <1>1, <2>1, <2>2, <2>3 DEF Crowd, Late, Counting
    <2> QED
        BY <1>1, <2>3, <2>4
<1> QED
    BY <1>2, <1>3

LEMMA FewLateNext ==
    ASSUME IInv, BInv, FewInFlight', FewLate, [Next]_vars
    PROVE  FewLate'
<1> USE DEF IInv, TypeOK
<1> SUFFICES ASSUME NEW r \in Requests, LongBan, pc'[r] = "count",
                    NeverRaced(ip[r])'
             PROVE  Cardinality(Crowd(r)') <= MaxInFlight
    BY DEF FewLate, LongBan
<1>1. Crowd(r) \in SUBSET Requests /\ InFlight' \in SUBSET Requests
    BY DEF Crowd, Late, Counting, InFlight
<1>2. CASE Crowd(r)' \subseteq InFlight'
    <2>1. /\ Cardinality(Crowd(r)') \in Nat
          /\ Cardinality(Crowd(r)') <= Cardinality(InFlight')
          /\ Cardinality(InFlight') \in Nat
        BY <1>1, <1>2, RequestSubsets, RequestSets
    <2> QED
        BY <2>1 DEF FewInFlight
<1>3. CASE pc[r] = "count" /\ NeverRaced(ip[r]) /\ Crowd(r)' \subseteq Crowd(r)
    <2>1. /\ Cardinality(Crowd(r)') \in Nat
          /\ Cardinality(Crowd(r)') <= Cardinality(Crowd(r))
          /\ Cardinality(Crowd(r)) \in Nat
        BY <1>1, <1>3, RequestSubsets, RequestSets
    <2> QED
        BY <1>3, <2>1 DEF FewLate
<1> QED
    BY <1>2, <1>3, CrowdStep

(* A check that passes leaves no more entries than its limit.              *)
LEMMA PassLeaves ==
    ASSUME IInv, NEW r \in Requests, Count(r), pc'[r] = "pass"
    PROVE  /\ timestamps'[ip[r]] \in SUBSET Requests
           /\ Cardinality(timestamps'[ip[r]]) <= Quota
<1> USE DEF IInv, TypeOK
<1>1. timestamps'[ip[r]] = Kept(r) \cup {r} /\ Kept(r) \cup {r} \in SUBSET Requests
    BY DEF Count, Kept
<1>2. ~(Cardinality(Kept(r) \cup {r}) > Limit(r))
    BY DEF Count
<1>3. /\ Cardinality(Kept(r) \cup {r}) \in Nat /\ Limit(r) \in Nat
      /\ Quota \in Nat /\ Limit(r) <= Quota
    BY <1>1, RequestSets DEF Limit, Quota
<1> QED
    BY <1>1, <1>2, <1>3

LEMMA FewPassedNext ==
    ASSUME IInv, FewPassed, [Next]_vars
    PROVE  FewPassed'
<1> USE DEF IInv, TypeOK
<1> SUFFICES ASSUME NEW i \in Ips
             PROVE  Cardinality({q \in timestamps'[i] : pc'[q] = "pass"}) <= Quota
    BY DEF FewPassed, Quota
<1> DEFINE before == {q \in timestamps[i] : pc[q] = "pass"}
           after == {q \in timestamps'[i] : pc'[q] = "pass"}
<1>1. before \in SUBSET Requests /\ Cardinality(before) <= Quota /\ Quota \in Nat
    BY DEF FewPassed, Quota
<1>2. CASE after \subseteq before
    <2>1. /\ Cardinality(after) \in Nat /\ Cardinality(before) \in Nat
          /\ Cardinality(after) <= Cardinality(before)
        BY <1>1, <1>2, RequestSubsets, RequestSets
    <2> QED
        BY <1>1, <2>1
<1>3. CASE \E r \in Requests : Count(r) /\ pc'[r] = "pass" /\ ip[r] = i
    <2>1. PICK r \in Requests : Count(r) /\ pc'[r] = "pass" /\ ip[r] = i
        BY <1>3
    <2>2. timestamps'[i] \in SUBSET Requests /\ Cardinality(timestamps'[i]) <= Quota
        BY <2>1, PassLeaves
    <2>3. /\ Cardinality(after) \in Nat /\ Cardinality(timestamps'[i]) \in Nat
          /\ Cardinality(after) <= Cardinality(timestamps'[i])
        BY <2>2, RequestSubsets, RequestSets
    <2> QED
        BY <1>1, <2>2, <2>3
<1>4. CASE ~ \E r \in Requests : Count(r) /\ pc'[r] = "pass" /\ ip[r] = i
    <2>1. ASSUME NEW r \in Requests, Count(r) PROVE after \subseteq before
        BY <1>4, <2>1 DEF Count, Kept, Filed, Counted
    <2>2. ASSUME ~ \E r \in Requests : Count(r) PROVE after \subseteq before
        BY <2>2 DEF Next, Tick, Check, Start, LookupBan, EvictBan, InsertBan, vars
    <2> QED
        BY <1>2, <2>1, <2>2
<1> QED
    BY <1>3, <1>4

(* What a check over its limit leaves in the Vec.                          *)
LEMMA VecNext ==
    ASSUME IInv, FewLate, FewPassed, VecBounded, [Next]_vars
    PROVE  VecBounded'
<1> USE DEF IInv, TypeOK
<1> SUFFICES ASSUME LongBan, NEW i \in Ips, NeverRaced(i)'
             PROVE  Cardinality(timestamps'[i]) <= Quota + MaxInFlight
    BY DEF VecBounded, LongBan, NeverRaced, Quota
<1>1. NeverRaced(i)
    BY BansStay DEF NeverRaced
<1>2. Quota \in Nat
    BY DEF Quota
<1>3. CASE timestamps'[i] = timestamps[i]
    BY <1>1, <1>3 DEF VecBounded, LongBan, NeverRaced
<1>4. CASE timestamps'[i] # timestamps[i]
    <2>1. PICK r \in Requests : Count(r)
        BY <1>4 DEF Next, Tick, Check, Start, LookupBan, EvictBan, InsertBan, vars
    <2>2. ip[r] = i /\ timestamps'[i] = Kept(r) \cup {r}
        BY <1>4, <2>1 DEF Count
    <2>3. CASE pc'[r] = "pass"
        <3>1. /\ Cardinality(timestamps'[i]) \in Nat
              /\ Cardinality(timestamps'[i]) <= Quota
            BY <2>1, <2>2, <2>3, PassLeaves, RequestSets
        <3> QED
            BY <1>2, <3>1
    <2>4. CASE pc'[r] # "pass"
        <3> DEFINE passed == {q \in timestamps[i] : pc[q] = "pass"}
        <3>1. Cardinality(Crowd(r)) <= MaxInFlight /\ r \in Crowd(r)
            BY <1>1, <2>1, <2>2 DEF FewLate, Count, Crowd, Counting
        <3>2. passed \in SUBSET Requests /\ Crowd(r) \in SUBSET Requests
            BY DEF Crowd, Late, Counting
        <3>3. Kept(r) \cup {r} \subseteq passed \cup Crowd(r)
            <4> SUFFICES ASSUME NEW q \in Kept(r), pc[q] # "pass"
                         PROVE  q \in Late(r)
                BY <2>2, <3>1 DEF Kept, Crowd
            <4>1. /\ q \in Requests /\ ip[q] = ip[r]
                  /\ pc[q] \in {"ban", "rate001"}
                BY DEF Kept, Filed, Counted
            <4>2. now[q] + Window > now[r]
                BY <4>1 DEF Kept, Age
            <4> QED
                BY <4>1, <4>2 DEF Late
        <3>4. /\ Cardinality(passed \cup Crowd(r))
                   <= Cardinality(passed) + Cardinality(Crowd(r))
              /\ Cardinality(passed) \in Nat /\ Cardinality(Crowd(r)) \in Nat
            <4>1. IsFiniteSet(passed) /\ IsFiniteSet(Crowd(r))
                BY <3>2, RequestSets
            <4>2. /\ Cardinality(passed \cup Crowd(r)) =
                       Cardinality(passed) + Cardinality(Crowd(r))
                         - Cardinality(passed \cap Crowd(r))
                  /\ Cardinality(passed \cap Crowd(r)) \in Nat
                <5>1. passed \cap Crowd(r) \in SUBSET Requests
                    BY <3>2
                <5> QED
                    BY <4>1, <5>1, FS_Union, RequestSets
            <4> QED
                BY <3>2, <4>2, RequestSets
        <3>5. /\ Cardinality(Kept(r) \cup {r}) \in Nat
              /\ Cardinality(Kept(r) \cup {r}) <= Cardinality(passed \cup Crowd(r))
              /\ Cardinality(passed \cup Crowd(r)) \in Nat
            <4>1. passed \cup Crowd(r) \in SUBSET Requests
                BY <3>2
            <4> QED
                BY <3>3, <4>1, RequestSubsets, RequestSets
        <3>6. Cardinality(passed) <= Quota
            BY DEF FewPassed
        <3> QED
            BY <1>2, <2>2, <3>1, <3>4, <3>5, <3>6
    <2> QED
        BY <2>3, <2>4
<1> QED
    BY <1>3, <1>4

LEMMA VInvInit == Init => VInv
<1> SUFFICES ASSUME Init PROVE VInv
    OBVIOUS
<1>1. Cardinality({}) = 0
    BY FS_EmptySet
<1>2. InFlight = {} /\ \A i \in Ips : timestamps[i] = {}
    BY DEF Init, InFlight, InFlightPcs
<1>3. FewInFlight /\ VecBounded
    <2>1. Quota \in Nat
        BY DEF Quota
    <2>2. \A i \in Ips : Cardinality(timestamps[i]) <= Quota + MaxInFlight
        BY <1>1, <1>2, <2>1
    <2>3. FewInFlight
        BY <1>1, <1>2 DEF FewInFlight
    <2> QED
        BY <2>2, <2>3, Zenon DEF VecBounded
<1>4. FewLate
    BY DEF Init, FewLate
<1>5. FewPassed
    <2> SUFFICES ASSUME NEW i \in Ips
                 PROVE  Cardinality({q \in timestamps[i] : pc[q] = "pass"}) <= Quota
        BY DEF FewPassed
    <2>1. {q \in timestamps[i] : pc[q] = "pass"} = {}
        BY <1>2
    <2> QED
        BY <1>1, <2>1 DEF Quota
<1> QED
    BY <1>3, <1>4, <1>5 DEF VInv

LEMMA VInvNext == IInv /\ BInv /\ VInv /\ [Next]_vars => VInv'
BY FewInFlightNext, FewLateNext, FewPassedNext, VecNext DEF VInv

(* A Vec never outgrows the limit by more than the checks on their way, as *)
(* long as its client lost no ban to the race with a remove.               *)
THEOREM VecBoundedAlways == Spec => []VecBounded
<1>1. VInv => VecBounded
    BY DEF VInv
<1> QED
    BY <1>1, IInvInit, IInvNext, BInvInit, BInvNext, VInvInit, VInvNext, PTL
       DEF Spec

-----------------------------------------------------------------------------
(* The log entry of a request, and the log of WindowQuota.                 *)
Admitted(r) == [id |-> r, ip |-> ip[r], at |-> now[r], sensitive |-> sensitive[r]]
Log == {Admitted(r) : r \in Passed}

(* A set of log entries that are all of requests in S is no larger than S. *)
LEMMA EntriesCounted ==
    ASSUME NEW S \in SUBSET Requests,
           NEW L, \A e \in L : \E r \in S : e = Admitted(r)
    PROVE  Cardinality(L) \in Nat /\ Cardinality(L) <= Cardinality(S)
<1> DEFINE request == [e \in L |-> e.id]
<1>1. \A e \in L : e.id \in S /\ e = Admitted(e.id)
    BY DEF Admitted
<1>2. request \in Injection(L, S)
    <2>1. request \in [L -> S]
        BY <1>1
    <2>2. ASSUME NEW e \in L, NEW f \in L, request[e] = request[f]
          PROVE  e = f
        BY <1>1, <2>2, Zenon
    <2> QED
        BY <2>1, <2>2 DEF Injection, IsInjective
<1>3. IsFiniteSet(L) /\ Cardinality(L) <= Cardinality(S)
    BY <1>2, RequestSets, FS_Injection
<1> QED
    BY <1>3, FS_CardinalityType

(* WindowQuota counts as this module does.                                 *)
LEMMA SameCardinality == \A S : Admissions!Cardinality(S) = Cardinality(S)
BY SMT DEF Admissions!Cardinality, Cardinality

(* A log of requests within the limiter's bounds respects the quotas.      *)
LEMMA LogRespected == TypeOK /\ SpansBounded => Admissions!Respected(Log)
<1> SUFFICES ASSUME TypeOK, SpansBounded PROVE Admissions!Respected(Log)
    OBVIOUS
<1> USE DEF TypeOK
<1> SUFFICES ASSUME NEW i \in Ips, NEW t \in 0 .. MaxClock
             PROVE  LET span == Admissions!InSpan(Log, i, t) IN
                    /\ Cardinality(span) <= Quota
                    /\ Cardinality({e \in span : e.sensitive}) <= SensitiveMax
    BY SameCardinality DEF Admissions!Respected
<1> DEFINE span == Admissions!InSpan(Log, i, t)
           careful == {r \in AdmittedIn(i, t) : sensitive[r]}
<1>1. AdmittedIn(i, t) \in SUBSET Requests /\ careful \in SUBSET Requests
    BY DEF AdmittedIn, Passed
<1>2. ASSUME NEW e \in span
      PROVE  \E r \in AdmittedIn(i, t) :
                 e = Admitted(r) /\ e.sensitive = sensitive[r]
    <2>1. e \in Log /\ e.ip = i /\ t <= e.at /\ e.at < t + (Window - MaxSkew)
        BY <1>2 DEF Admissions!InSpan
    <2>2. PICK r \in Passed : e = Admitted(r)
        BY <2>1 DEF Log
    <2>3. e.ip = ip[r] /\ e.at = now[r] /\ e.sensitive = sensitive[r]
        BY <2>2 DEF Admitted
    <2>4. now[r] \in Int
        BY DEF Passed
    <2>5. r \in AdmittedIn(i, t)
        BY <2>1, <2>3, <2>4 DEF AdmittedIn
    <2> QED
        BY <2>2, <2>3, <2>5
<1>3. Cardinality(span) \in Nat /\ Cardinality(span) <= Cardinality(AdmittedIn(i, t))
    BY <1>1, <1>2, EntriesCounted
<1>4. /\ Cardinality({e \in span : e.sensitive}) \in Nat
      /\ Cardinality({e \in span : e.sensitive}) <= Cardinality(careful)
    <2>1. \A e \in {f \in span : f.sensitive} : \E r \in careful : e = Admitted(r)
        BY <1>2, Zenon
    <2> QED
        BY <1>1, <2>1, EntriesCounted
<1>5. /\ Cardinality(AdmittedIn(i, t)) \in Nat /\ Cardinality(careful) \in Nat
      /\ Cardinality(AdmittedIn(i, t)) <= Quota
      /\ Cardinality(careful) <= SensitiveMax
    <2>1. t \in Int
        OBVIOUS
    <2>2. /\ Cardinality(AdmittedIn(i, t)) <= Quota
          /\ Cardinality(careful) <= SensitiveMax
        BY <2>1, Zenon DEF SpansBounded
    <2> QED
        BY <1>1, <2>2, RequestSets
<1>6. Quota \in Nat
    BY DEF Quota
<1> QED
    BY <1>3, <1>4, <1>5, <1>6

(* The check that passes adds its entry to the log.                        *)
LEMMA CountAdmits ==
    ASSUME IInv, IInv', NEW r \in Requests, Count(r), pc'[r] = "pass"
    PROVE  Admissions!Next
<1> USE DEF IInv, TypeOK
<1>1. Passed' = Passed \cup {r} /\ r \notin Passed
    BY DEF Count, Passed
<1>2. UNCHANGED <<ip, now, sensitive>>
    BY DEF Count
<1>3. Log' = Log \cup {Admitted(r)}
    BY <1>1, <1>2 DEF Log, Admitted
<1>4. r \in Requests \ {e.id : e \in Log}
    BY <1>1 DEF Log, Admitted
<1>5. Admitted(r) \in Admissions!Entry
    BY <1>4 DEF Admitted, Admissions!Entry, Admissions!Pending, Log
<1>6. Admissions!Respected(Log)'
    <2>1. (TypeOK /\ SpansBounded)'
        OBVIOUS
    <2> QED
        BY <2>1, LogRespected, PTL
<1> QED
    BY <1>3, <1>5, <1>6
       DEF Admissions!Next, Admissions!Admit, Log, Admitted

(* The limiter implements WindowQuota: its passing checks form a log that  *)
(* never exceeds the quotas, for any number of concurrent checks.          *)
THEOREM LimiterImplementsQuota == Spec => ImplementsWindowQuota
<1>1. Init => Admissions!Init
    BY DEF Init, Passed, Admissions!Init
<1>2. IInv /\ IInv' /\ [Next]_vars => [Admissions!Next]_Log
    <2> SUFFICES ASSUME IInv, IInv', [Next]_vars
                 PROVE  Admissions!Next \/ UNCHANGED Log
        OBVIOUS
    <2> USE DEF IInv, TypeOK
    <2>1. ASSUME NEW r \in Requests, Count(r), pc'[r] = "pass"
          PROVE  Admissions!Next
        BY <2>1, CountAdmits
    <2>2. ASSUME ~ \E r \in Requests : Count(r) /\ pc'[r] = "pass"
          PROVE  UNCHANGED Log
        <3>1. Passed' = Passed
            BY <2>2 DEF Next, Check, Tick, Start, LookupBan, EvictBan, Count,
                        InsertBan, Passed, vars
        <3>2. UNCHANGED <<ip, sensitive>> /\ \A r \in Passed : now'[r] = now[r]
            BY CountedStays DEF Passed
        <3> QED
            BY <3>1, <3>2 DEF Log, Admitted
    <2> QED
        BY <2>1, <2>2
<1>3. IInv /\ [Next]_vars => IInv'
    BY IInvNext
<1> QED
    BY <1>1, <1>2, <1>3, IInvInit, PTL
       DEF Spec, ImplementsWindowQuota, Admissions!Spec, Log, Admitted
=============================================================================
