---------------------------- MODULE StatsProofs ----------------------------
(***************************************************************************)
(* Proofs about Stats and its ring for every finite set of records, every  *)
(* set of clients and every ring size.  First the ring by itself: its      *)
(* invariant, and that it implements RecentEvents.  The index arithmetic   *)
(* of push and tail only ever takes remainders of numbers below twice the  *)
(* size (ModBelowTwice), so that every access is one of two cases, before  *)
(* the wrap or after it.  The statistics only ever push and read, so this  *)
(* carries over; the counters and the tables agree with the records        *)
(* because every step moves one record from one stage to the next and adds *)
(* one for it; and the feed keeps real-time order because a record is      *)
(* pushed before it ends.                                                  *)
(***************************************************************************)
EXTENDS Stats, SumTheorems, SequenceTheorems, FiniteSetTheorems, TLAPS

USE RingSizeAssumption, LimitsAssumption

(* The only remainders the ring takes.                                     *)
LEMMA ModBelowTwice ==
    ASSUME NEW n \in Nat \ {0}, NEW a \in Nat, a < 2 * n
    PROVE  a % n = IF a < n THEN a ELSE a - n
<1>1. CASE a < n
    BY <1>1, SMTT(30)
<1>2. CASE a >= n
    <2>1. a = (n * (a \div n)) + (a % n) /\ a % n \in 0 .. n - 1
        BY SMTT(30)
    <2> QED
        BY <1>2, <2>1, SMTT(30)
<1> QED
    BY <1>1, <1>2

(* Advancing head by one slot.                                             *)
LEMMA NextHead ==
    ASSUME NEW h \in 0 .. RingSize - 1
    PROVE  (h + 1) % RingSize = IF h + 1 < RingSize THEN h + 1 ELSE 0
<1>1. CASE h + 1 < RingSize
    BY <1>1, SMTT(30)
<1>2. CASE h + 1 = RingSize
    BY <1>2, SMTT(30)
<1> QED
    BY <1>1, <1>2

-----------------------------------------------------------------------------
(* An empty ring.                                                          *)
LEMMA RingInit == Init => RingInv
<1> SUFFICES ASSUME Init PROVE RingInv
    OBVIOUS
<1>1. buf \in Seq(Events) /\ Len(buf) = 0
    BY EmptySeq DEF Init
<1>2. full \in BOOLEAN /\ ~full /\ head = 0
    BY Zenon DEF Init
<1> QED
    BY <1>1, <1>2 DEF RingInv

(* push and tail keep the ring well formed.                                *)
LEMMA RingNext == RingInv /\ [Next]_vars => RingInv'
<1> SUFFICES ASSUME RingInv, [Next]_vars PROVE RingInv'
    OBVIOUS
<1> USE DEF RingInv
<1>1. ASSUME NEW e \in Events, PushFull(e) PROVE RingInv'
    <2>1. head' \in 0 .. RingSize - 1
        BY <1>1, NextHead DEF PushFull
    <2>2. buf' \in Seq(Events) /\ Len(buf') = Len(buf)
        BY <1>1 DEF PushFull
    <2> QED
        BY <1>1, <2>1, <2>2 DEF PushFull
<1>2. ASSUME NEW e \in Events, PushGrowing(e) PROVE RingInv'
    <2>1. buf' \in Seq(Events) /\ Len(buf') = Len(buf) + 1
        BY <1>2 DEF PushGrowing
    <2>2. Len(buf) < RingSize
        BY <1>2 DEF PushGrowing
    <2>3. CASE Len(buf') = RingSize
        <3>1. full' \in BOOLEAN /\ full' /\ head' = 0
            BY <1>2, <2>3, Zenon DEF PushGrowing
        <3> QED
            BY <2>1, <2>3, <3>1
    <2>4. CASE Len(buf') # RingSize
        <3>1. full' = full /\ head' = head /\ ~full
            BY <1>2, <2>4 DEF PushGrowing
        <3>2. full' \in BOOLEAN /\ ~full'
            BY <3>1, Zenon
        <3>3. Len(buf') <= RingSize /\ head' = 0
            BY <2>1, <2>2, <3>1
        <3> QED
            BY <2>1, <2>4, <3>2, <3>3
    <2> QED
        BY <2>3, <2>4
<1>3. ASSUME NEW n \in Limits, ReadTail(n) PROVE RingInv'
    BY <1>3 DEF ReadTail
<1>4. CASE UNCHANGED vars
    BY <1>4 DEF vars
<1> QED
    BY <1>1, <1>2, <1>3, <1>4 DEF Next

(* The ring is always well formed: full exactly at RING_SIZE events, with  *)
(* head a valid index.                                                     *)
THEOREM RingCorrect == Spec => []RingInv
BY RingInit, RingNext, PTL DEF Spec

-----------------------------------------------------------------------------
(* Reading the ring from its oldest event on gives a sequence of all of    *)
(* its events.                                                             *)
LEMMA UnrolledSeq ==
    ASSUME RingInv
    PROVE  Unrolled \in Seq(Events) /\ Len(Unrolled) = Len(buf)
<1> USE DEF RingInv
<1>1. \A i \in 1 .. Len(buf) :
        (IF head + i <= Len(buf) THEN buf[head + i] ELSE buf[head + i - Len(buf)])
          \in Events
    OBVIOUS
<1>2. Unrolled \in [1 .. Len(buf) -> Events]
    BY <1>1 DEF Unrolled
<1> QED
    BY <1>2 DEF Unrolled

(* A ring that still grows is read as it lies.                             *)
LEMMA UnrolledGrowing ==
    ASSUME RingInv, ~full
    PROVE  Unrolled = buf
BY DEF RingInv, Unrolled

(* A push that grows the ring appends to the feed.                         *)
LEMMA GrowStep ==
    ASSUME RingInv, RingInv', NEW e \in Events, PushGrowing(e)
    PROVE  Unrolled' = Append(Unrolled, e) /\ Len(Unrolled) < RingSize
<1>1. Unrolled = buf /\ Len(buf) < RingSize
    BY UnrolledGrowing DEF PushGrowing, RingInv
<1>2. head' = 0
    BY DEF PushGrowing, RingInv
<1>3. buf' = Append(buf, e)
    BY DEF PushGrowing
<1>4. Unrolled' = buf'
    BY <1>2 DEF Unrolled, RingInv
<1> QED
    BY <1>1, <1>3, <1>4

(* A push on a full ring drops the feed's oldest event and appends.        *)
LEMMA OverwriteStep ==
    ASSUME RingInv, RingInv', NEW e \in Events, PushFull(e)
    PROVE  Unrolled' = Append(Tail(Unrolled), e) /\ Len(Unrolled) = RingSize
<1> USE DEF RingInv, PushFull
<1>1. Len(buf) = RingSize /\ Len(buf') = RingSize
    OBVIOUS
<1>2. head' = IF head + 1 < RingSize THEN head + 1 ELSE 0
    BY NextHead
<1>3. Unrolled \in Seq(Events) /\ Len(Unrolled) = RingSize
    BY <1>1, UnrolledSeq
<1>4. Append(Tail(Unrolled), e) \in Seq(Events)
      /\ Len(Append(Tail(Unrolled), e)) = RingSize
    BY <1>3
<1>5. Unrolled' = [i \in 1 .. RingSize |->
                     IF head' + i <= RingSize THEN buf'[head' + i]
                                              ELSE buf'[head' + i - RingSize]]
    <2> HIDE DEF PushFull, RingInv
    <2> QED
        BY <1>1, Zenon DEF Unrolled
<1>6. Unrolled' \in Seq(Events) /\ Len(Unrolled') = RingSize
    <2>1. \A i \in 1 .. RingSize :
            (IF head' + i <= RingSize THEN buf'[head' + i]
                                      ELSE buf'[head' + i - RingSize]) \in Events
        BY <1>1
    <2>2. Unrolled' \in [1 .. RingSize -> Events]
        BY <1>5, <2>1
    <2>3. DOMAIN Unrolled' = 1 .. RingSize
        BY <1>5, Zenon
    <2> HIDE DEF PushFull, RingInv
    <2> QED
        BY <2>2, <2>3
<1>7. ASSUME NEW i \in 1 .. RingSize
      PROVE  Unrolled'[i] = Append(Tail(Unrolled), e)[i]
    <2>1. Unrolled'[i] = IF head' + i <= RingSize THEN buf'[head' + i]
                                                  ELSE buf'[head' + i - RingSize]
        BY <1>1, <1>5
    <2>2. CASE i = RingSize
        <3>1. Unrolled'[i] = buf'[head + 1]
            BY <1>2, <2>1, <2>2
        <3>2. buf'[head + 1] = e
            BY <1>1
        <3> QED
            BY <1>3, <1>4, <2>2, <3>1, <3>2
    <2>3. CASE i < RingSize
        <3>1. Append(Tail(Unrolled), e)[i] = Unrolled[i + 1]
            BY <1>3, <2>3
        <3>2. Unrolled[i + 1] = IF head + i + 1 <= RingSize
                                THEN buf[head + i + 1]
                                ELSE buf[head + i + 1 - RingSize]
            BY <1>1, <2>3 DEF Unrolled
        <3>3. Unrolled'[i] = IF head + i + 1 <= RingSize
                             THEN buf[head + i + 1]
                             ELSE buf[head + i + 1 - RingSize]
            BY <1>1, <1>2, <2>1, <2>3
        <3> QED
            BY <3>1, <3>2, <3>3
    <2>4. i = RingSize \/ i < RingSize
        OBVIOUS
    <2> QED
        BY <2>2, <2>3, <2>4, Zenon
<1> QED
    BY <1>3, <1>4, <1>6, <1>7

(* tail(n) is the suffix of the feed that RecentEvents answers with.       *)
LEMMA TailIsSuffix ==
    ASSUME RingInv, NEW n \in Limits
    PROVE  LET k == IF n < Len(Unrolled) THEN n ELSE Len(Unrolled)
           IN  TailOf(n) = SubSeq(Unrolled, Len(Unrolled) - k + 1, Len(Unrolled))
<1> DEFINE len == Len(buf)
           k == IF n < len THEN n ELSE len
           start == (head + len - k) % len
<1> USE DEF RingInv
<1>1. Unrolled \in Seq(Events) /\ Len(Unrolled) = len
    BY UnrolledSeq
<1>2. SUFFICES TailOf(n) = SubSeq(Unrolled, len - k + 1, len)
    BY <1>1
<1>3. CASE ~full
    <2>1. Unrolled = buf
        BY <1>3, UnrolledGrowing
    <2>2. CASE len = 0
        BY <2>1, <2>2 DEF TailOf
    <2>3. CASE len # 0
        BY <1>3, <2>1, <2>3 DEF TailOf
    <2> QED
        BY <2>2, <2>3
<1>4. CASE full
    <2>1. len = RingSize /\ len \in Nat \ {0} /\ k \in 0 .. len
        BY <1>4
    <2>2. TailOf(n) = [i \in 1 .. k |-> buf[((start + i - 1) % len) + 1]]
        BY <1>4, <2>1 DEF TailOf
    <2>3. start = IF head + len - k < len THEN head + len - k ELSE head - k
        <3> DEFINE a == head + len - k
        <3>1. a \in Nat /\ a < 2 * len
            BY <2>1
        <3>2. a - len = head - k
            BY <2>1
        <3>3. a % len = IF a < len THEN a ELSE a - len
            <4> HIDE DEF a, len
            <4> QED
                BY <2>1, <3>1, ModBelowTwice
        <3> QED
            BY <3>2, <3>3, Zenon
    <2>4. start \in 0 .. len - 1
        BY <2>1, <2>3
    <2>5. ASSUME NEW i \in 1 .. k
          PROVE  buf[((start + i - 1) % len) + 1] = Unrolled[len - k + i]
        <3> DEFINE a == start + i - 1
        <3>1. a % len = IF a < len THEN a ELSE a - len
            <4>1. a \in Nat /\ a < 2 * len
                <5> HIDE DEF start
                <5> QED
                    BY <2>1, <2>4
            <4>2. len \in Nat \ {0}
                BY <2>1
            <4> HIDE DEF a, len, k, start
            <4> QED
                BY <4>1, <4>2, ModBelowTwice
        <3>2. len - k + i \in 1 .. len
            BY <2>1
        <3>3. Unrolled[len - k + i] = IF head + (len - k + i) <= len
                                      THEN buf[head + (len - k + i)]
                                      ELSE buf[head + (len - k + i) - len]
            BY <3>2 DEF Unrolled
        <3> HIDE DEF start
        <3> QED
            BY <2>1, <2>3, <2>4, <3>1, <3>3
    <2>6. SubSeq(Unrolled, len - k + 1, len)
            = [i \in 1 .. k |-> Unrolled[len - k + i]]
        BY <1>1, <2>1
    <2> QED
        BY <2>2, <2>5, <2>6
<1> QED
    BY <1>3, <1>4

-----------------------------------------------------------------------------
(* The dashboard's feed is the latest RING_SIZE events in the order of     *)
(* their pushes, and tail returns its latest n: EventRing implements       *)
(* RecentEvents for every size of the ring.                                *)
THEOREM RingImplementsFeed == Spec => ImplementsRecentEvents
<1>1. Init => Feed!Init
    <2> SUFFICES ASSUME Init PROVE Feed!Init
        OBVIOUS
    <2>1. Len(buf) = 0
        BY EmptySeq DEF Init
    <2>2. Unrolled \in Seq(Events) /\ Len(Unrolled) = 0
        BY <2>1, RingInit, UnrolledSeq
    <2>3. Unrolled = <<>>
        BY <2>2, EmptySeq
    <2> QED
        BY <2>3 DEF Init, Feed!Init
<1>2. RingInv /\ RingInv' /\ [Next]_vars => [Feed!Next]_<<Unrolled, answer>>
    <2> SUFFICES ASSUME RingInv, RingInv', [Next]_vars
                 PROVE  Feed!Next \/ UNCHANGED <<Unrolled, answer>>
        OBVIOUS
    <2>1. ASSUME NEW e \in Events, PushFull(e) PROVE Feed!Push(e)
        <3>1. Unrolled' = Append(Tail(Unrolled), e) /\ Len(Unrolled) = RingSize
            BY <2>1, OverwriteStep
        <3>2. ~(Len(Unrolled) < RingSize)
            BY <3>1
        <3> QED
            BY <2>1, <3>1, <3>2, Zenon DEF Feed!Push, PushFull
    <2>2. ASSUME NEW e \in Events, PushGrowing(e) PROVE Feed!Push(e)
        BY <2>2, GrowStep DEF Feed!Push, PushGrowing
    <2>3. ASSUME NEW n \in Limits, ReadTail(n) PROVE Feed!Read(n)
        <3>1. answer' = TailOf(n)
            BY <2>3 DEF ReadTail
        <3>2. Unrolled' = Unrolled
            BY <2>3 DEF ReadTail, Unrolled
        <3> QED
            BY <3>1, <3>2, TailIsSuffix DEF Feed!Read
    <2>4. CASE UNCHANGED vars
        BY <2>4 DEF vars, Unrolled
    <2> QED
        BY <2>1, <2>2, <2>3, <2>4 DEF Next, Feed!Next
<1> QED
    BY <1>1, <1>2, RingCorrect, PTL DEF Spec, ImplementsRecentEvents, Feed!Spec

-----------------------------------------------------------------------------
USE ClassesAssumption, EventsAssumption

(* Adding one member to a set of records.                                  *)
LEMMA AddOne ==
    ASSUME NEW S \in SUBSET Events, NEW e \in Events, e \notin S
    PROVE  Cardinality(S \cup {e}) = Cardinality(S) + 1
<1>1. IsFiniteSet(S)
    BY FS_Subset
<1> QED
    BY <1>1, FS_AddElement

(* A set of records that gains e, and nothing else, has one member more.   *)
LEMMA Gains ==
    ASSUME NEW S \in SUBSET Events, NEW T, NEW e \in Events,
           e \notin S, T = S \cup {e}
    PROVE  Cardinality(T) = Cardinality(S) + 1
BY AddOne

-----------------------------------------------------------------------------
StatsTypes ==
    /\ stage \in [Events -> Stages]
    /\ class \in [Events -> Classes]
    /\ ip \in [Events -> Ips]
    /\ counter \in [Counters -> Nat]
    /\ topIps \in [Ips -> Nat]
    /\ topRules \in Nat
    /\ \A e \in Events : stage[e] \in {"ips", "rules"} => class[e] \in Flagged

LEMMA TypesInit == StatsInit => StatsTypes
BY DEF StatsInit, StatsTypes, Stages

LEMMA TypesNext == StatsTypes /\ [StatsNext]_statsVars => StatsTypes'
<1> SUFFICES ASSUME StatsTypes, [StatsNext]_statsVars PROVE StatsTypes'
    OBVIOUS
<1> USE DEF StatsTypes, Stages
<1>1. ASSUME NEW e \in Events, CountTotal(e) PROVE StatsTypes'
    BY <1>1 DEF CountTotal, Bump, Advance, tables, Counters
<1>2. ASSUME NEW e \in Events, CountClass(e) PROVE StatsTypes'
    <2>1. class[e] \in Counters
        OBVIOUS
    <2>2. counter' \in [Counters -> Nat]
        BY <1>2, <2>1 DEF CountClass, Bump
    <2> QED
        BY <1>2, <2>2 DEF CountClass, Advance, tables
<1>3. ASSUME NEW e \in Events, Push(e) PROVE StatsTypes'
    BY <1>3 DEF Push, Advance, tables, Counters
<1>4. ASSUME NEW e \in Events, CountIp(e) PROVE StatsTypes'
    BY <1>4 DEF CountIp, Advance, tables, Counters
<1>5. ASSUME NEW e \in Events, CountRules(e) PROVE StatsTypes'
    BY <1>5 DEF CountRules, Advance, tables, Counters
<1>6. CASE Load \/ Return
    BY <1>6 DEF Load, Return, records, tables
<1>7. ASSUME NEW n \in Limits, ReadRecent(n) PROVE StatsTypes'
    BY <1>7 DEF ReadRecent, records, tables
<1>8. CASE UNCHANGED statsVars
    BY <1>8 DEF statsVars, records, tables
<1> QED
    BY <1>1, <1>2, <1>3, <1>4, <1>5, <1>6, <1>7, <1>8 DEF StatsNext, RecordStep

(* Types, and only flagged records are on their way to the tables.         *)
THEOREM StatsTyped == StatsSpec => []StatsTypes
BY TypesInit, TypesNext, PTL DEF StatsSpec

-----------------------------------------------------------------------------
(* No record has begun.                                                    *)
LEMMA CountersInit == StatsInit => CountersAgree
<1> SUFFICES ASSUME StatsInit PROVE CountersAgree
    OBVIOUS
<1>1. Begun = {} /\ \A c \in Counters : CountedIn(c) = {}
    BY DEF StatsInit, Begun, CountedIn
<1>2. Cardinality({}) = 0
    BY FS_EmptySet
<1> QED
    BY <1>1, <1>2, SMTT(30) DEF StatsInit, CountersAgree, Counters

(* A record's steps after its two additions leave the counters' sets.      *)
LEMMA CountersLater ==
    ASSUME CountersAgree, StatsTypes, NEW e \in Events, NEW s \in Stages,
           stage[e] \notin {"idle", "class"}, s \notin {"idle", "class"},
           Advance(e, s), UNCHANGED counter
    PROVE  CountersAgree'
<1>1. Begun' = Begun
    BY DEF Begun, Advance, StatsTypes
<1>2. \A c \in Counters : CountedIn(c)' = CountedIn(c)
    BY DEF CountedIn, Advance, StatsTypes
<1> QED
    BY <1>1, <1>2 DEF CountersAgree

LEMMA CountersNext ==
    StatsTypes /\ CountersAgree /\ [StatsNext]_statsVars => CountersAgree'
<1> SUFFICES ASSUME StatsTypes, CountersAgree, [StatsNext]_statsVars
             PROVE  CountersAgree'
    OBVIOUS
<1>1. ASSUME NEW e \in Events, CountTotal(e) PROVE CountersAgree'
    <2>1. Cardinality(Begun') = Cardinality(Begun) + 1
        <3>1. Begun' = Begun \cup {e}
            BY <1>1 DEF CountTotal, Advance, Begun, StatsTypes
        <3> QED
            BY <1>1, <3>1, Gains DEF CountTotal, Begun
    <2>2. \A c \in Counters : CountedIn(c)' = CountedIn(c)
        BY <1>1 DEF CountTotal, Advance, CountedIn, StatsTypes
    <2>3. /\ counter'["total"] = counter["total"] + 1
          /\ \A c \in Counters \ {"total"} : counter'[c] = counter[c]
        BY <1>1 DEF CountTotal, Bump, StatsTypes, Counters
    <2> QED
        BY <2>1, <2>2, <2>3 DEF CountersAgree
<1>2. ASSUME NEW e \in Events, CountClass(e) PROVE CountersAgree'
    <2>1. Begun' = Begun
        BY <1>2 DEF CountClass, Advance, Begun, StatsTypes
    <2>2. class[e] \in Counters \ {"total"}
        BY DEF StatsTypes
    <2>3. ASSUME NEW c \in Counters, c = class[e]
          PROVE  Cardinality(CountedIn(c)') = Cardinality(CountedIn(c)) + 1
        <3>1. CountedIn(c)' = CountedIn(c) \cup {e}
            BY <1>2, <2>3 DEF CountClass, Advance, CountedIn, StatsTypes
        <3> QED
            BY <1>2, <3>1, Gains DEF CountClass, CountedIn
    <2>4. \A c \in Counters \ {class[e]} : CountedIn(c)' = CountedIn(c)
        BY <1>2 DEF CountClass, Advance, CountedIn, StatsTypes
    <2>5. counter' = [counter EXCEPT ![class[e]] = @ + 1]
        BY <1>2 DEF CountClass, Bump
    <2>6. ASSUME NEW c \in Counters \ {"total"}
          PROVE  counter'[c] = Cardinality(CountedIn(c)')
        <3>1. CASE c = class[e]
            <4>1. counter'[c] = counter[c] + 1
                BY <2>5, <3>1 DEF StatsTypes
            <4> QED
                BY <2>3, <3>1, <4>1 DEF CountersAgree
        <3>2. CASE c # class[e]
            <4>1. counter'[c] = counter[c]
                BY <2>5, <3>2 DEF StatsTypes
            <4> QED
                BY <2>4, <3>2, <4>1 DEF CountersAgree
        <3> QED
            BY <3>1, <3>2
    <2>7. counter'["total"] = Cardinality(Begun')
        <3>1. counter'["total"] = counter["total"]
            BY <2>2, <2>5 DEF StatsTypes, Counters
        <3> QED
            BY <2>1, <3>1 DEF CountersAgree
    <2> QED
        BY <2>6, <2>7 DEF CountersAgree
<1>3. ASSUME NEW e \in Events, Push(e) PROVE CountersAgree'
    BY <1>3, CountersLater DEF Push, Stages
<1>4. ASSUME NEW e \in Events, CountIp(e) PROVE CountersAgree'
    BY <1>4, CountersLater DEF CountIp, Stages
<1>5. ASSUME NEW e \in Events, CountRules(e) PROVE CountersAgree'
    BY <1>5, CountersLater DEF CountRules, Stages
<1>6. CASE UNCHANGED <<records, counter>>
    BY <1>6 DEF records, CountersAgree, Begun, CountedIn
<1>7. (Load \/ Return \/ (\E n \in Limits : ReadRecent(n)) \/ UNCHANGED statsVars)
        => UNCHANGED <<records, counter>>
    BY DEF Load, Return, ReadRecent, statsVars
<1> QED
    BY <1>1, <1>2, <1>3, <1>4, <1>5, <1>6, <1>7 DEF StatsNext, RecordStep

(* No addition is lost or done twice, however the records interleave: each *)
(* counter is the number of records that have reached it (stats.rs:59-67). *)
THEOREM CountersCorrect == StatsSpec => []CountersAgree
BY StatsTyped, CountersInit, CountersNext, PTL DEF StatsSpec

-----------------------------------------------------------------------------
(* The flagged records of a client that have reached the table of clients. *)
AtIps(i) == {e \in Events : /\ stage[e] \in {"rules", "done"}
                            /\ class[e] \in Flagged /\ ip[e] = i}
(* The flagged records that have reached the table of rules.               *)
AtRules == {e \in Ended : class[e] \in Flagged}

LEMMA TablesInit == StatsInit => TablesAgree
<1> SUFFICES ASSUME StatsInit PROVE TablesAgree
    OBVIOUS
<1>1. AtRules = {} /\ \A i \in Ips : AtIps(i) = {}
    BY DEF StatsInit, AtRules, AtIps, Ended
<1>2. Cardinality({}) = 0
    BY FS_EmptySet
<1> QED
    BY <1>1, <1>2 DEF StatsInit, TablesAgree, AtIps, AtRules

(* A step that leaves both sets of records and both tables alone.          *)
LEMMA TablesStay ==
    ASSUME TablesAgree, UNCHANGED tables,
           AtRules' = AtRules, \A i \in Ips : AtIps(i)' = AtIps(i)
    PROVE  TablesAgree'
BY DEF TablesAgree, AtIps, AtRules, tables

LEMMA TablesNext ==
    StatsTypes /\ TablesAgree /\ [StatsNext]_statsVars => TablesAgree'
<1> SUFFICES ASSUME StatsTypes, TablesAgree, [StatsNext]_statsVars
             PROVE  TablesAgree'
    OBVIOUS
<1>1. ASSUME NEW e \in Events, CountTotal(e) PROVE TablesAgree'
    <2>1. AtRules' = AtRules /\ \A i \in Ips : AtIps(i)' = AtIps(i)
        BY <1>1 DEF CountTotal, Advance, AtRules, AtIps, Ended, StatsTypes
    <2> QED
        BY <1>1, <2>1, TablesStay DEF CountTotal
<1>2. ASSUME NEW e \in Events, CountClass(e) PROVE TablesAgree'
    <2>1. AtRules' = AtRules /\ \A i \in Ips : AtIps(i)' = AtIps(i)
        BY <1>2 DEF CountClass, Advance, AtRules, AtIps, Ended, StatsTypes
    <2> QED
        BY <1>2, <2>1, TablesStay DEF CountClass
<1>3. ASSUME NEW e \in Events, Push(e) PROVE TablesAgree'
    <2>1. AtRules' = AtRules /\ \A i \in Ips : AtIps(i)' = AtIps(i)
        BY <1>3 DEF Push, Advance, AtRules, AtIps, Ended, StatsTypes
    <2> QED
        BY <1>3, <2>1, TablesStay DEF Push
<1>4. ASSUME NEW e \in Events, CountIp(e) PROVE TablesAgree'
    <2>1. AtRules' = AtRules /\ topRules' = topRules
        BY <1>4 DEF CountIp, Advance, AtRules, Ended, StatsTypes
    <2>2. ASSUME NEW i \in Ips
          PROVE  topIps'[i] = Cardinality(AtIps(i)')
        <3>1. CASE i = ip[e]
            <4>1. AtIps(i)' = AtIps(i) \cup {e}
                BY <1>4, <3>1 DEF CountIp, Advance, AtIps, StatsTypes
            <4>2. Cardinality(AtIps(i)') = Cardinality(AtIps(i)) + 1
                BY <1>4, <4>1, Gains DEF CountIp, AtIps
            <4>3. topIps'[i] = topIps[i] + 1
                BY <1>4, <3>1 DEF CountIp, StatsTypes
            <4> QED
                BY <4>2, <4>3 DEF TablesAgree, AtIps
        <3>2. CASE i # ip[e]
            <4>1. AtIps(i)' = AtIps(i)
                BY <1>4, <3>2 DEF CountIp, Advance, AtIps, StatsTypes
            <4>2. topIps'[i] = topIps[i]
                BY <1>4, <3>2 DEF CountIp, StatsTypes
            <4> QED
                BY <4>1, <4>2 DEF TablesAgree, AtIps
        <3> QED
            BY <3>1, <3>2
    <2> QED
        BY <2>1, <2>2 DEF TablesAgree, AtIps, AtRules
<1>5. ASSUME NEW e \in Events, CountRules(e) PROVE TablesAgree'
    <2>1. \A i \in Ips : AtIps(i)' = AtIps(i) /\ topIps'[i] = topIps[i]
        BY <1>5 DEF CountRules, Advance, AtIps, StatsTypes
    <2>2. AtRules' = AtRules \cup {e}
        BY <1>5 DEF CountRules, Advance, AtRules, Ended, StatsTypes
    <2>3. Cardinality(AtRules') = Cardinality(AtRules) + 1
        BY <1>5, <2>2, Gains DEF CountRules, AtRules, Ended
    <2> QED
        BY <1>5, <2>1, <2>3 DEF CountRules, TablesAgree, AtIps, AtRules
<1>6. CASE UNCHANGED <<records, tables>>
    BY <1>6 DEF records, tables, TablesAgree, Ended
<1>7. (Load \/ Return \/ (\E n \in Limits : ReadRecent(n)) \/ UNCHANGED statsVars)
        => UNCHANGED <<records, tables>>
    BY DEF Load, Return, ReadRecent, statsVars
<1> QED
    BY <1>1, <1>2, <1>3, <1>4, <1>5, <1>6, <1>7 DEF StatsNext, RecordStep

(* The table of clients holds each flagged record of the client once, the  *)
(* table of rules each of their hits (stats.rs:92-100).                    *)
THEOREM TablesCorrect == StatsSpec => []TablesAgree
BY StatsTyped, TablesInit, TablesNext, PTL DEF StatsSpec

-----------------------------------------------------------------------------
(* The statistics reach the ring through push and tail only.               *)
LEMMA StatsUsesRing == [StatsNext]_statsVars => [Next]_vars
<1> SUFFICES ASSUME [StatsNext]_statsVars PROVE [Next]_vars
    OBVIOUS
<1>1. ASSUME NEW e \in Events, Push(e) PROVE Next
    BY <1>1 DEF Push, Next
<1>2. ASSUME NEW n \in Limits, ReadRecent(n) PROVE Next
    BY <1>2 DEF ReadRecent, Next
<1>3. ASSUME NEW e \in Events,
             CountTotal(e) \/ CountClass(e) \/ CountIp(e) \/ CountRules(e)
      PROVE  UNCHANGED ring
    BY <1>3 DEF CountTotal, CountClass, CountIp, CountRules
<1>4. Load \/ Return \/ UNCHANGED statsVars => UNCHANGED ring
    BY DEF Load, Return, statsVars
<1>5. UNCHANGED ring => UNCHANGED vars
    BY DEF ring, vars
<1> QED
    BY <1>1, <1>2, <1>3, <1>4, <1>5 DEF StatsNext, RecordStep

(* Hence the ring of the running statistics is well formed, ...            *)
THEOREM StatsRing == StatsSpec => []RingInv
<1>1. StatsInit => Init
    BY DEF StatsInit
<1> QED
    BY <1>1, StatsUsesRing, RingCorrect, PTL DEF StatsSpec, Spec

(* ... and the dashboard's feed is that of RecentEvents, whatever records  *)
(* run at the same time.                                                   *)
THEOREM StatsImplementsFeed == StatsSpec => ImplementsRecentEvents
<1>1. StatsInit => Init
    BY DEF StatsInit
<1> QED
    BY <1>1, StatsUsesRing, RingImplementsFeed, PTL DEF StatsSpec, Spec

-----------------------------------------------------------------------------
(* What makes the order of the feed hold: records that are in the ring are *)
(* past their push, a record knows only ended ones as earlier.             *)
FeedInv ==
    /\ \A i \in 1 .. Len(Unrolled) : stage[Unrolled[i]] \in {"ips", "rules", "done"}
    /\ \A e \in Begun : before[e] \subseteq Ended
    /\ \A i, j \in 1 .. Len(Unrolled) : i < j => Unrolled[j] \notin before[Unrolled[i]]
    /\ before \in [Events -> SUBSET Events]

LEMMA FeedInit == StatsInit => FeedInv
<1> SUFFICES ASSUME StatsInit PROVE FeedInv
    OBVIOUS
<1>1. Len(buf) = 0
    BY EmptySeq DEF StatsInit, Init
<1>2. Len(Unrolled) = 0
    BY <1>1, RingInit, UnrolledSeq DEF StatsInit
<1>3. Begun = {} /\ before \in [Events -> SUBSET Events]
    BY DEF StatsInit, Begun
<1> QED
    BY <1>2, <1>3 DEF FeedInv

(* A push puts its record behind all others: those are past their push, so *)
(* none of them began after it had ended.                                  *)
LEMMA FeedPush ==
    ASSUME StatsTypes, RingInv, RingInv', FeedInv, NEW e \in Events, Push(e)
    PROVE  FeedInv'
<1>1. PICK old \in Seq(Events) :
        /\ Unrolled' = Append(old, e)
        /\ \A i \in 1 .. Len(old) : stage[old[i]] \in {"ips", "rules", "done"}
        /\ \A i, j \in 1 .. Len(old) : i < j => old[j] \notin before[old[i]]
    <2>1. Unrolled \in Seq(Events)
        BY UnrolledSeq
    <2>2. CASE PushGrowing(e)
        BY <2>1, <2>2, GrowStep DEF FeedInv
    <2>3. CASE PushFull(e)
        <3>1. Unrolled' = Append(Tail(Unrolled), e) /\ Len(Unrolled) = RingSize
            BY <2>3, OverwriteStep
        <3> DEFINE old == Tail(Unrolled)
        <3>2. Unrolled # <<>>
            BY <2>1, <3>1, RingSizeAssumption, EmptySeq
        <3>3. old \in Seq(Events) /\ Len(old) = Len(Unrolled) - 1
            BY <2>1, <3>2, HeadTailProperties
        <3>4. \A i \in 1 .. Len(old) :
                i + 1 \in 1 .. Len(Unrolled) /\ old[i] = Unrolled[i + 1]
            BY <2>1, <3>2, <3>3
        <3>5. \A i \in 1 .. Len(old) : stage[old[i]] \in {"ips", "rules", "done"}
            BY <3>4 DEF FeedInv
        <3>6. \A i, j \in 1 .. Len(old) : i < j => old[j] \notin before[old[i]]
            BY <3>4 DEF FeedInv
        <3> HIDE DEF old
        <3> QED
            BY <3>1, <3>3, <3>5, <3>6 DEF old
    <2> QED
        BY <2>2, <2>3 DEF Push
<1>2. stage[e] = "ring" /\ before' = before /\ e \notin Ended /\ e \in Begun
    BY DEF Push, Ended, Begun
<1>3. /\ stage'[e] \in {"ips", "rules", "done"}
      /\ \A x \in Events \ {e} : stage'[x] = stage[x]
    BY DEF Push, Advance, StatsTypes
<1>4. Begun' = Begun /\ Ended \subseteq Ended'
    BY <1>2, <1>3 DEF Begun, Ended
<1>5. Len(Unrolled') = Len(old) + 1 /\ Unrolled'[Len(old) + 1] = e
      /\ \A i \in 1 .. Len(old) : Unrolled'[i] = old[i] /\ old[i] \in Events
    BY <1>1
<1>6. \A i \in 1 .. Len(old) : e \notin before[old[i]]
    <2>1. \A i \in 1 .. Len(old) : old[i] \in Begun
        BY <1>1, <1>5 DEF Begun
    <2> QED
        BY <2>1, <1>2 DEF FeedInv
<1>7. \A i \in 1 .. Len(Unrolled') : stage'[Unrolled'[i]] \in {"ips", "rules", "done"}
    BY <1>1, <1>3, <1>5
<1>8. \A i, j \in 1 .. Len(Unrolled') : i < j => Unrolled'[j] \notin before'[Unrolled'[i]]
    BY <1>1, <1>2, <1>5, <1>6
<1> QED
    BY <1>2, <1>4, <1>7, <1>8 DEF FeedInv

LEMMA FeedNext ==
    ASSUME StatsTypes, RingInv, RingInv', FeedInv, [StatsNext]_statsVars
    PROVE  FeedInv'
<1> DEFINE R == {"ips", "rules", "done"}
<1>1. Unrolled \in Seq(Events)
    BY UnrolledSeq
<1>2. ASSUME UNCHANGED ring PROVE Unrolled' = Unrolled
    BY <1>2 DEF ring, Unrolled
<1>3. ASSUME NEW e \in Events, CountTotal(e) PROVE FeedInv'
    <2>1. Unrolled' = Unrolled
        BY <1>2, <1>3 DEF CountTotal
    <2>2. /\ stage[e] = "idle" /\ stage'[e] = "class"
          /\ \A x \in Events \ {e} : stage'[x] = stage[x] /\ before'[x] = before[x]
          /\ before'[e] = Ended /\ before' \in [Events -> SUBSET Events]
        BY <1>3 DEF CountTotal, Advance, StatsTypes, FeedInv, Ended
    <2>3. Ended' = Ended /\ Begun' = Begun \cup {e}
        BY <2>2 DEF Ended, Begun
    <2>4. \A i \in 1 .. Len(Unrolled) : Unrolled[i] \in Events \ {e}
        BY <1>1, <2>2 DEF FeedInv
    <2>5. \A x \in Begun' : before'[x] \subseteq Ended'
        BY <2>2, <2>3 DEF FeedInv, Begun
    <2>6. \A i \in 1 .. Len(Unrolled') : stage'[Unrolled'[i]] \in R
        BY <2>1, <2>2, <2>4 DEF FeedInv
    <2>7. \A i, j \in 1 .. Len(Unrolled') : i < j => Unrolled'[j] \notin before'[Unrolled'[i]]
        BY <2>1, <2>2, <2>4 DEF FeedInv
    <2> QED
        BY <2>2, <2>5, <2>6, <2>7 DEF FeedInv
<1>4. ASSUME NEW e \in Events, NEW s \in Stages \ {"idle"}, UNCHANGED <<ring, before>>,
             stage[e] \in R => s \in R, stage[e] \notin {"idle", "done"}, Advance(e, s)
      PROVE  FeedInv'
    <2>1. Unrolled' = Unrolled /\ before' = before
        BY <1>2, <1>4
    <2>2. stage'[e] = s /\ \A x \in Events \ {e} : stage'[x] = stage[x]
        BY <1>4 DEF Advance, StatsTypes
    <2>3. Begun' = Begun /\ Ended \subseteq Ended'
        BY <1>4, <2>2 DEF Begun, Ended
    <2>4. \A i \in 1 .. Len(Unrolled') : stage'[Unrolled'[i]] \in R
        BY <1>1, <1>4, <2>1, <2>2 DEF FeedInv
    <2> QED
        BY <2>1, <2>3, <2>4 DEF FeedInv
<1>5. ASSUME NEW e \in Events, CountClass(e) \/ CountIp(e) \/ CountRules(e)
      PROVE  FeedInv'
    BY <1>4, <1>5 DEF CountClass, CountIp, CountRules, Stages
<1>6. ASSUME NEW e \in Events, Push(e) PROVE FeedInv'
    BY <1>6, FeedPush
<1>7. CASE UNCHANGED <<records, before>> /\ Unrolled' = Unrolled
    BY <1>7 DEF records, FeedInv, Begun, Ended
<1>8. (Load \/ Return \/ UNCHANGED statsVars) => UNCHANGED <<records, before>> /\ Unrolled' = Unrolled
    BY <1>2 DEF Load, Return, statsVars
<1>9. ASSUME NEW n \in Limits, ReadRecent(n)
      PROVE  UNCHANGED <<records, before>> /\ Unrolled' = Unrolled
    BY <1>9 DEF ReadRecent, ReadTail, Unrolled
<1> QED
    BY <1>3, <1>5, <1>6, <1>7, <1>8, <1>9 DEF StatsNext, RecordStep

(* The feed never shows a record behind one that began after it had ended, *)
(* although the ring is locked long after the time of the event is read    *)
(* (stats.rs:69-89).                                                       *)
THEOREM FeedOrdered == StatsSpec => []FeedInRealTime
<1>1. RingInv /\ FeedInv => FeedInRealTime
    <2> SUFFICES ASSUME RingInv, FeedInv PROVE FeedInRealTime
        OBVIOUS
    <2>1. Len(Unrolled) = Len(buf)
        BY UnrolledSeq
    <2> QED
        BY <2>1 DEF FeedInv, FeedInRealTime
<1>2. StatsTypes /\ RingInv /\ RingInv' /\ FeedInv /\ [StatsNext]_statsVars => FeedInv'
    BY FeedNext
<1> QED
    BY <1>1, <1>2, FeedInit, StatsTyped, StatsRing, PTL DEF StatsSpec

-----------------------------------------------------------------------------
(* The argument for SnapshotBracketed: what had begun when the snapshot    *)
(* did, and was past both its additions, is counted in every load; and no  *)
(* load counts a record that has not begun.                                *)
Settled == Begun \ midway

(* The counters that the reader has loaded.                                *)
Loaded == {LoadOrder[j] : j \in 1 .. loads}

OfClass(S, c) == {e \in S : class[e] = c}

SnapTypes ==
    /\ loads \in 0 .. 6
    /\ snap \in [Counters -> Nat]
    /\ midway \subseteq Begun

(* Holds while a snapshot is being taken.                                  *)
Snapping ==
    /\ finished \subseteq Settled
    /\ \A e \in Settled : stage[e] # "class"
    /\ Cardinality(Settled) <= snap["total"]
    /\ snap["total"] <= Cardinality(Begun)
    /\ \A c \in Loaded \ {"total"} :
          /\ Cardinality(OfClass(Settled, c)) <= snap[c]
          /\ snap[c] <= Cardinality(CountedIn(c))

SnapInv == SnapTypes /\ (loads > 0 => Snapping)

LEMMA Smaller ==
    ASSUME NEW S \in SUBSET Events, NEW T \in SUBSET S
    PROVE  /\ IsFiniteSet(S) /\ IsFiniteSet(T)
           /\ Cardinality(S) \in Nat /\ Cardinality(T) \in Nat
           /\ Cardinality(T) <= Cardinality(S)
<1>1. IsFiniteSet(S)
    BY FS_Subset
<1> QED
    BY <1>1, FS_Subset, FS_CardinalityType

LEMMA LoadedOnes ==
    ASSUME loads \in 0 .. 6
    PROVE  /\ Loaded \subseteq Counters
           /\ loads = 6 => Loaded = Counters
           /\ loads = 1 => Loaded = {"total"}
BY DEF Loaded, LoadOrder, Counters

(* Records that go on leave the snapshot as it is.                         *)
LEMMA SnapRecords ==
    ASSUME StatsTypes, StatsTypes', SnapTypes, Snapping,
           UNCHANGED <<loads, snap, finished, class>>,
           Settled' = Settled, Begun \subseteq Begun',
           \A e \in Settled : stage'[e] # "class",
           \A c \in Counters : CountedIn(c) \subseteq CountedIn(c)'
    PROVE  Snapping'
<1>1. Loaded' = Loaded /\ Loaded \subseteq Counters
    BY LoadedOnes DEF Loaded, SnapTypes
<1>2. \A c : OfClass(Settled, c)' = OfClass(Settled, c)
    BY DEF OfClass
<1>3. /\ Cardinality(Begun) <= Cardinality(Begun')
      /\ Cardinality(Begun) \in Nat /\ Cardinality(Begun') \in Nat
    <2>1. Begun' \in SUBSET Events
        BY DEF Begun
    <2> QED
        BY <2>1, Smaller
<1>4. ASSUME NEW c \in Counters
      PROVE  /\ Cardinality(CountedIn(c)) <= Cardinality(CountedIn(c)')
             /\ Cardinality(CountedIn(c)) \in Nat /\ Cardinality(CountedIn(c)') \in Nat
    <2>1. CountedIn(c)' \in SUBSET Events
        BY DEF CountedIn
    <2> QED
        BY <2>1, Smaller
<1>5. snap["total"] <= Cardinality(Begun')
    BY <1>3 DEF Snapping, SnapTypes, Counters
<1>6. ASSUME NEW c \in Loaded \ {"total"}
      PROVE  /\ Cardinality(OfClass(Settled, c)) <= snap[c]
             /\ snap[c] <= Cardinality(CountedIn(c)')
    <2>1. c \in Counters /\ snap[c] \in Nat
        BY <1>1 DEF SnapTypes
    <2> QED
        BY <1>4, <2>1 DEF Snapping
<1> QED
    BY <1>1, <1>2, <1>5, <1>6 DEF Snapping

LEMMA SnapInit == StatsInit => SnapInv
<1> SUFFICES ASSUME StatsInit PROVE SnapInv
    OBVIOUS
<1>1. loads = 0 /\ midway = {} /\ snap \in [Counters -> Nat]
    BY DEF StatsInit
<1> QED
    BY <1>1 DEF SnapInv, SnapTypes

LEMMA SnapNext ==
    ASSUME StatsTypes, StatsTypes', CountersAgree, SnapInv, [StatsNext]_statsVars
    PROVE  SnapInv'
<1> USE DEF SnapInv
<1>1. ASSUME NEW e \in Events, CountTotal(e) PROVE SnapInv'
    <2>1. /\ UNCHANGED <<loads, snap, finished, class>>
          /\ Begun' = Begun \cup {e} /\ e \notin Begun
          /\ \A c \in Counters : CountedIn(c) \subseteq CountedIn(c)'
          /\ \A q \in Events : q # e => stage'[q] = stage[q]
        BY <1>1 DEF CountTotal, Advance, Begun, CountedIn, StatsTypes
    <2>2. midway' = IF loads = 0 THEN midway ELSE midway \cup {e}
        BY <1>1 DEF CountTotal
    <2>3. SnapTypes'
        BY <2>1, <2>2 DEF SnapTypes
    <2>4. ASSUME loads > 0 PROVE Snapping'
        <3>1. Settled' = Settled /\ e \notin Settled
            BY <2>1, <2>2, <2>4 DEF Settled, SnapTypes
        <3>2. \A q \in Settled : stage'[q] # "class"
            BY <2>1, <2>4, <3>1 DEF Snapping, Settled, Begun
        <3> QED
            BY <2>1, <2>4, <3>1, <3>2, SnapRecords
    <2> QED
        BY <2>1, <2>3, <2>4
<1>2. ASSUME NEW e \in Events,
             CountClass(e) \/ Push(e) \/ CountIp(e) \/ CountRules(e)
      PROVE  SnapInv'
    <2>1. /\ UNCHANGED <<loads, snap, finished, midway, class>>
          /\ stage[e] # "idle"
          /\ \E s \in {"ring", "ips", "rules", "done"} : stage' = [stage EXCEPT ![e] = s]
        BY <1>2 DEF CountClass, Push, CountIp, CountRules, Advance, reader
    <2>2. /\ Begun' = Begun
          /\ \A c \in Counters : CountedIn(c) \subseteq CountedIn(c)'
          /\ \A q \in Events : stage[q] # "class" => stage'[q] # "class"
        BY <2>1 DEF Begun, CountedIn, StatsTypes
    <2>3. SnapTypes' /\ Settled' = Settled
        BY <2>1, <2>2 DEF SnapTypes, Settled
    <2>4. ASSUME loads > 0 PROVE Snapping'
        <3>1. \A q \in Settled : stage'[q] # "class"
            BY <2>2, <2>4 DEF Snapping, Settled, Begun
        <3> QED
            BY <2>1, <2>2, <2>3, <2>4, <3>1, SnapRecords
    <2> QED
        BY <2>1, <2>3, <2>4
<1>3. CASE Load
    <2> DEFINE c == LoadOrder[loads + 1]
    <2>1. /\ loads < 6 /\ loads' = loads + 1 /\ loads \in 0 .. 5
          /\ c \in Counters /\ Loaded' = Loaded \cup {c}
          /\ loads = 0 => c = "total" /\ Loaded = {}
          /\ loads > 0 => c # "total"
        BY <1>3 DEF Load, SnapTypes, LoadOrder, Counters, Loaded
    <2>2. /\ UNCHANGED <<stage, class>>
          /\ snap' = [snap EXCEPT ![c] = counter[c]]
          /\ loads = 0 => finished' = Ended /\ midway' = Midway
          /\ loads # 0 => finished' = finished /\ midway' = midway
        BY <1>3 DEF Load, records
    <2>3. Begun' = Begun /\ \A d : CountedIn(d)' = CountedIn(d)
        BY <2>2 DEF Begun, CountedIn
    <2>4. SnapTypes'
        <3>1. Midway \subseteq Begun
            BY DEF Midway, Begun
        <3>2. snap' \in [Counters -> Nat]
            BY <2>1, <2>2 DEF SnapTypes, StatsTypes
        <3> QED
            BY <2>1, <2>2, <2>3, <3>1, <3>2 DEF SnapTypes
    <2>5. CASE loads = 0
        <3>1. Settled' = Begun \ Midway /\ finished' = Ended
            BY <2>2, <2>3, <2>5 DEF Settled
        <3>2. finished' \subseteq Settled' /\ \A e \in Settled' : stage'[e] # "class"
            BY <2>2, <3>1 DEF Ended, Begun, Midway
        <3>3. snap'["total"] = Cardinality(Begun)
            BY <2>1, <2>2, <2>5 DEF CountersAgree, SnapTypes, Counters
        <3>4. /\ Cardinality(Settled') <= Cardinality(Begun)
              /\ Cardinality(Begun) \in Nat
            BY <3>1, Smaller DEF Begun
        <3> QED
            BY <2>1, <2>3, <2>4, <2>5, <3>2, <3>3, <3>4 DEF Snapping
    <2>6. CASE loads > 0
        <3>1. Settled' = Settled /\ finished' = finished /\ midway' = midway
            BY <2>2, <2>3, <2>6 DEF Settled
        <3>2. \A d \in Counters \ {c} : snap'[d] = snap[d]
            BY <2>2 DEF SnapTypes
        <3>3. snap'[c] = Cardinality(CountedIn(c))
            BY <2>1, <2>2, <2>6 DEF CountersAgree, SnapTypes
        <3>4. Cardinality(OfClass(Settled, c)) <= Cardinality(CountedIn(c))
            <4>1. OfClass(Settled, c) \subseteq CountedIn(c)
                BY <2>6 DEF OfClass, CountedIn, Settled, Begun, Snapping
            <4>2. CountedIn(c) \in SUBSET Events
                BY DEF CountedIn
            <4> QED
                BY <4>1, <4>2, Smaller
        <3>5. Cardinality(CountedIn(c)) <= Cardinality(CountedIn(c))
            BY Smaller DEF CountedIn
        <3>6. \A d : OfClass(Settled, d)' = OfClass(Settled, d)
            BY <2>2, <3>1 DEF OfClass
        <3>7. snap'["total"] = snap["total"]
            BY <2>1, <2>6, <3>2 DEF Counters
        <3>8. ASSUME NEW d \in Loaded' \ {"total"}
              PROVE  /\ Cardinality(OfClass(Settled, d)) <= snap'[d]
                     /\ snap'[d] <= Cardinality(CountedIn(d))
            <4>1. CASE d = c
                BY <3>3, <3>4, <3>5, <4>1
            <4>2. CASE d # c
                <5>1. d \in Loaded \ {"total"} /\ d \in Counters
                    BY <2>1, <4>2, LoadedOnes DEF SnapTypes
                <5> QED
                    BY <2>6, <3>2, <4>2, <5>1 DEF Snapping
            <4> QED
                BY <4>1, <4>2
        <3>9. \A e \in Settled : stage'[e] # "class"
            BY <2>2, <2>6 DEF Snapping
        <3> HIDE DEF c
        <3>10. Snapping'
            BY <2>3, <2>6, <3>1, <3>6, <3>7, <3>8, <3>9 DEF Snapping
        <3> QED
            BY <2>4, <3>10
    <2> QED
        BY <2>1, <2>5, <2>6
<1>4. CASE Return
    BY <1>4 DEF Return, SnapTypes
<1>5. ASSUME UNCHANGED <<records, reader>> PROVE SnapInv'
    BY <1>5 DEF records, reader, SnapTypes, Snapping, Settled, Begun, Loaded,
                OfClass, CountedIn
<1>6. (\E n \in Limits : ReadRecent(n)) \/ UNCHANGED statsVars
        => UNCHANGED <<records, reader>>
    BY DEF ReadRecent, statsVars
<1> QED
    BY <1>1, <1>2, <1>3, <1>4, <1>5, <1>6 DEF StatsNext, RecordStep

(* The parts of a snapshot add up to its total, give or take the records   *)
(* that it met between their two additions, or that began meanwhile.       *)
LEMMA PartsOfSnapshot ==
    ASSUME StatsTypes, SnapInv, loads = 6
    PROVE  Parts - snap["total"] \in (- Cardinality(midway)) .. Cardinality(midway)
<1> DEFINE C == Counters \ {"total"}
           past == Begun \ Midway
<1>0. SnapTypes /\ Snapping
    BY DEF SnapInv
<1>1. IsFiniteSet(C)
    <2>1. C = ((({"ALLOW"} \cup {"BLOCK"}) \cup {"LOG"}) \cup {"CHALLENGE"}) \cup {"ERROR"}
        BY DEF Counters
    <2>2. IsFiniteSet({"ALLOW"})
        BY FS_Singleton
    <2>3. IsFiniteSet(({"ALLOW"} \cup {"BLOCK"}) \cup {"LOG"})
        BY <2>2, FS_AddElement
    <2> HIDE DEF C
    <2>4. IsFiniteSet((({"ALLOW"} \cup {"BLOCK"}) \cup {"LOG"}) \cup {"CHALLENGE"})
        BY <2>3, FS_AddElement
    <2>5. IsFiniteSet(((({"ALLOW"} \cup {"BLOCK"}) \cup {"LOG"}) \cup {"CHALLENGE"})
                         \cup {"ERROR"})
        BY <2>4, FS_AddElement
    <2> QED
        BY <2>1, <2>5
<1>2. /\ Settled \in SUBSET Begun /\ past \in SUBSET Begun /\ Begun \in SUBSET Events
      /\ \A e \in Begun : class[e] \in C
    BY DEF Settled, Begun, StatsTypes
<1>3. /\ IsFiniteSet(Settled) /\ IsFiniteSet(past) /\ IsFiniteSet(Begun)
      /\ Cardinality(Settled) \in Nat /\ Cardinality(past) \in Nat
      /\ Cardinality(Begun) \in Nat /\ Cardinality(past) <= Cardinality(Begun)
    BY <1>2, Smaller
<1>4. /\ Weighs(Sizes(Settled, class, C), C)
      /\ SumOver(Sizes(Settled, class, C), C) = Cardinality(Settled)
      /\ Weighs(Sizes(past, class, C), C)
      /\ SumOver(Sizes(past, class, C), C) = Cardinality(past)
    <2>1. (\A e \in Settled : class[e] \in C) /\ (\A e \in past : class[e] \in C)
        BY <1>2
    <2> HIDE DEF C, past
    <2> QED
        BY <1>1, <1>3, <2>1, SumOfClasses
<1>5. \A c \in C : /\ Sizes(Settled, class, C)[c] <= snap[c]
                   /\ snap[c] <= Sizes(past, class, C)[c]
    <2> SUFFICES ASSUME NEW c \in C
                 PROVE  /\ Sizes(Settled, class, C)[c] <= snap[c]
                        /\ snap[c] <= Sizes(past, class, C)[c]
        OBVIOUS
    <2>1. Sizes(Settled, class, C)[c] = Cardinality(OfClass(Settled, c))
        BY DEF Sizes, OfClass
    <2>2. Sizes(past, class, C)[c] = Cardinality(CountedIn(c))
        <3>1. {e \in past : class[e] = c} = CountedIn(c)
            BY DEF CountedIn, Begun, Midway
        <3>2. Sizes(past, class, C)[c] = Cardinality({e \in past : class[e] = c})
            BY DEF Sizes
        <3> QED
            BY <3>1, <3>2
    <2>3. c \in Loaded
        BY LoadedOnes
    <2> QED
        BY <1>0, <2>1, <2>2, <2>3 DEF Snapping
<1>6. Weighs(snap, C) /\ Parts = SumOver(snap, C)
    <2>1. Parts = SumOver(snap, C)
        BY DEF Parts, SumFunctionOnSet, FoldFunctionOnSet, SumOver, MapThenSumSet
    <2> QED
        BY <1>0, <2>1 DEF SnapTypes, Weighs
<1> HIDE DEF C, past
<1>7. SumOver(snap, C) \in Nat
    BY <1>1, <1>6, SumOfSet
<1>8. Cardinality(Settled) <= Parts
    BY <1>1, <1>4, <1>5, <1>6, SumOfSmaller
<1>9. Parts <= Cardinality(past)
    BY <1>1, <1>4, <1>5, <1>6, SumOfSmaller
<1>10. /\ Cardinality(Begun) = Cardinality(Settled) + Cardinality(midway)
       /\ Cardinality(midway) \in Nat
    <2>1. midway \subseteq Begun /\ Begun \cap midway = midway
        BY <1>0 DEF SnapTypes
    <2>2. Cardinality(Settled) = Cardinality(Begun) - Cardinality(midway)
        BY <1>3, <2>1, FS_Difference DEF Settled
    <2>3. Cardinality(midway) \in Nat
        BY <1>2, <2>1, Smaller
    <2> QED
        BY <1>3, <2>2, <2>3
<1>11. /\ Cardinality(Settled) <= snap["total"] /\ snap["total"] <= Cardinality(Begun)
       /\ snap["total"] \in Nat
    BY <1>0 DEF Snapping, SnapTypes, Counters
<1> QED
    BY <1>3, <1>6, <1>7, <1>8, <1>9, <1>10, <1>11

(* What a snapshot shows lies between what had been counted when it began  *)
(* and what has by its end (stats.rs:104-113), for any number of records   *)
(* that run meanwhile.                                                     *)
THEOREM SnapshotAlwaysBracketed == StatsSpec => []SnapshotBracketed
<1>1. StatsTypes /\ SnapInv => SnapshotBracketed
    <2> SUFFICES ASSUME StatsTypes, SnapInv, loads = 6 PROVE SnapshotBracketed
        BY DEF SnapshotBracketed
    <2>0. SnapTypes /\ Snapping
        BY DEF SnapInv
    <2>1. finished \subseteq Settled /\ Settled \in SUBSET Events
        BY <2>0 DEF Snapping, Settled, Begun
    <2>2. ASSUME NEW c \in Counters \ {"total"}
          PROVE  /\ Cardinality({e \in finished : class[e] = c}) <= snap[c]
                 /\ snap[c] <= Cardinality(CountedIn(c))
        <3>1. c \in Loaded \ {"total"}
            BY <2>2, LoadedOnes
        <3>2. /\ Cardinality(OfClass(Settled, c)) <= snap[c]
              /\ snap[c] <= Cardinality(CountedIn(c)) /\ snap[c] \in Nat
            BY <2>0, <3>1 DEF Snapping, SnapTypes
        <3>3. /\ Cardinality(OfClass(finished, c)) <= Cardinality(OfClass(Settled, c))
              /\ Cardinality(OfClass(finished, c)) \in Nat
              /\ Cardinality(OfClass(Settled, c)) \in Nat
            <4>1. /\ OfClass(finished, c) \in SUBSET OfClass(Settled, c)
                  /\ OfClass(Settled, c) \in SUBSET Events
                BY <2>1 DEF OfClass
            <4> QED
                BY <4>1, Smaller
        <3>4. OfClass(finished, c) = {e \in finished : class[e] = c}
            BY DEF OfClass
        <3> QED
            BY <3>2, <3>3, <3>4
    <2>3. Cardinality(finished) <= snap["total"]
        <3>1. /\ Cardinality(finished) <= Cardinality(Settled)
              /\ Cardinality(finished) \in Nat /\ Cardinality(Settled) \in Nat
            BY <2>1, Smaller
        <3> QED
            BY <2>0, <3>1 DEF Snapping, SnapTypes, Counters
    <2> QED
        BY <2>2, <2>3, PartsOfSnapshot DEF SnapshotBracketed
<1> QED
    BY <1>1, StatsTyped, CountersCorrect, SnapInit, SnapNext, PTL DEF StatsSpec
=============================================================================
