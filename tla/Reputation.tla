----------------------------- MODULE Reputation -----------------------------
(***************************************************************************)
(* The IP reputation engine of the Rust WAF                                *)
(* (Dome/dome-rs/src/engine/reputation.rs) under concurrent requests.      *)
(*                                                                         *)
(* inspect calls is_banned first (engine/mod.rs:121) and, when rules hit,  *)
(* record last (engine/mod.rs:224).  Between two DashMap operations any    *)
(* other request may run, so a request is a process:                       *)
(*                                                                         *)
(*   Enter      is_banned: now = Instant::now()                            *)
(*   LookupBan  is_banned: bans.get, compare                               *)
(*   EvictBan   is_banned: bans.remove, the read guard dropped             *)
(*   NoHits     the pipeline ends without record                           *)
(*   Record     record: now = Instant::now()                               *)
(*   AddScore   record: decay, add, last_seen under the scores entry       *)
(*   Reenter    record's own call of is_banned: now                        *)
(*   Recheck, Reevict   its get and remove                                 *)
(*   InsertBan  bans.insert(ip, now of record + ban_duration)              *)
(*                                                                         *)
(* LookupBan/Recheck and EvictBan/Reevict are the same code, is_banned.    *)
(***************************************************************************)
EXTENDS Integers, FiniteSets, FiniteSetsExt

CONSTANTS
    Requests,       \* the requests
    Ips,            \* client keys
    Scores,         \* the scores a request may add (the sum over its hits)
    MaxScore,       \* u32::MAX
    Threshold,      \* the ban threshold
    BanDurations,   \* values of ban_duration to explore
    DecayAfter,     \* decay_after
    MaxSkew,        \* bound: clock advance while a call is on its way
    MaxInFlight,    \* bound: requests inside the engine at once
    MaxPast,        \* bound: how far the clock runs past the length of a ban
    None            \* no entry in a map

ASSUME RequestsAssumption == IsFiniteSet(Requests)
ASSUME ScoreAssumption ==
    /\ MaxScore \in Nat
    /\ Threshold \in Nat
    /\ Scores \subseteq 1 .. MaxScore
ASSUME TimeAssumption ==
    /\ BanDurations \subseteq Nat
    /\ DecayAfter \in Nat
    /\ MaxSkew \in Nat
    /\ MaxPast \in Nat
ASSUME InFlightAssumption == MaxInFlight \in Nat \ {0}
ASSUME NoneAssumption == None \notin Nat

VARIABLES
    banDuration,    \* ban_duration
    clock,          \* the monotonic clock
    scores,         \* ip -> [total, seen] or None
    bans,           \* ip -> expiry or None
    pc,             \* where each request is
    ip,             \* its client key
    probe,          \* the now of its latest is_banned call
    now,            \* the now of its record call
    added,          \* the score the request recorded, 0 if none
    total,          \* record's local total
    underBan,       \* history: the bans of its client in force at Enter
    contested       \* history: bans inserted while a remove of the key was due

history == <<underBan, contested>>
vars == <<banDuration, clock, scores, bans, pc, ip, probe, now, added, total, history>>

MaxClock == banDuration + MaxPast

Pcs == {"idle", "lookup", "evict", "inspect", "add", "probe", "recheck",
        "reevict", "ban", "refused", "clean", "recorded", "banned"}

(* Inside record.                                                          *)
RecordPcs == {"add", "probe", "recheck", "reevict", "ban"}

InFlight ==
    {r \in Requests : pc[r] \in {"lookup", "evict", "inspect"} \cup RecordPcs}

(* The requests that added their score.                                    *)
Recorded == {r \in Requests : added[r] > 0}

(* Mutant of SaturatingAdd: the plain addition.                            *)
UnboundedAdd(a, b) == a + b

SaturatingAdd(a, b) == IF a + b > MaxScore THEN MaxScore ELSE a + b

(* Instant::duration_since saturates to zero when t is later than n.       *)
Age(n, t) == IF t >= n THEN 0 ELSE n - t

(* Mutant of BanState: a ban that ends now is still active.                *)
BanStateInclusive(i, n) ==
    IF bans[i] = None THEN "none" ELSE IF n <= bans[i] THEN "active" ELSE "expired"

(* bans.get and the comparison under its guard: 35-38.                     *)
BanState(i, n) ==
    IF bans[i] = None THEN "none" ELSE IF n < bans[i] THEN "active" ELSE "expired"

-----------------------------------------------------------------------------
Init ==
    /\ banDuration \in BanDurations
    /\ clock = 0
    /\ scores = [i \in Ips |-> None]
    /\ bans = [i \in Ips |-> None]
    /\ pc = [r \in Requests |-> "idle"]
    /\ ip \in [Requests -> Ips]
    /\ now = [r \in Requests |-> 0]
    /\ probe = [r \in Requests |-> 0]
    /\ added = [r \in Requests |-> 0]
    /\ total = [r \in Requests |-> 0]
    /\ underBan = [r \in Requests |-> {}]
    /\ contested = {}

Enter(r) ==
    /\ pc[r] = "idle"
    /\ Cardinality(InFlight) < MaxInFlight
    /\ probe' = [probe EXCEPT ![r] = clock]
    /\ underBan' = [underBan EXCEPT ![r] =
                      {q \in Requests : /\ pc[q] = "banned"
                                        /\ ip[q] = ip[r]
                                        /\ clock < now[q] + banDuration}]
    /\ pc' = [pc EXCEPT ![r] = "lookup"]
    /\ UNCHANGED <<banDuration, clock, scores, bans, ip, now, added, total, contested>>

LookupBan(r) ==
    /\ pc[r] = "lookup"
    /\ pc' = [pc EXCEPT ![r] =
                CASE BanState(ip[r], probe[r]) = "active"  -> "refused"
                  [] BanState(ip[r], probe[r]) = "expired" -> "evict"
                  [] BanState(ip[r], probe[r]) = "none"    -> "inspect"]
    /\ UNCHANGED <<banDuration, clock, scores, bans, ip, probe, now, added, total, history>>

EvictBan(r) ==
    /\ pc[r] = "evict"
    /\ bans' = [bans EXCEPT ![ip[r]] = None]
    /\ pc' = [pc EXCEPT ![r] = "inspect"]
    /\ UNCHANGED <<banDuration, clock, scores, ip, probe, now, added, total, history>>

(* No rule hit, or an early verdict of the pipeline: no record.            *)
NoHits(r) ==
    /\ pc[r] = "inspect"
    /\ pc' = [pc EXCEPT ![r] = "clean"]
    /\ UNCHANGED <<banDuration, clock, scores, bans, ip, probe, now, added, total, history>>

Record(r) ==
    /\ pc[r] = "inspect"
    /\ now' = [now EXCEPT ![r] = clock]
    /\ pc' = [pc EXCEPT ![r] = "add"]
    /\ UNCHANGED <<banDuration, clock, scores, bans, ip, probe, added, total, history>>

(* Mutant of AddScore: the score never decays.                             *)
AddScoreWithoutDecay(r, s) ==
    LET before == IF scores[ip[r]] = None THEN 0 ELSE scores[ip[r]].total
        after == SaturatingAdd(before, s)
    IN
    /\ pc[r] = "add"
    /\ scores' = [scores EXCEPT ![ip[r]] = [total |-> after, seen |-> now[r]]]
    /\ added' = [added EXCEPT ![r] = s]
    /\ total' = [total EXCEPT ![r] = after]
    /\ pc' = [pc EXCEPT ![r] = IF after >= Threshold THEN "probe" ELSE "recorded"]
    /\ UNCHANGED <<banDuration, clock, bans, ip, probe, now, history>>

(* The scores entry, from or_insert to drop, then the threshold test.      *)
AddScore(r, s) ==
    LET e == IF scores[ip[r]] = None THEN [total |-> 0, seen |-> now[r]]
                                     ELSE scores[ip[r]]
        before == IF Age(now[r], e.seen) > DecayAfter THEN 0 ELSE e.total
        after == SaturatingAdd(before, s)
    IN
    /\ pc[r] = "add"
    /\ scores' = [scores EXCEPT ![ip[r]] = [total |-> after, seen |-> now[r]]]
    /\ added' = [added EXCEPT ![r] = s]
    /\ total' = [total EXCEPT ![r] = after]
    /\ pc' = [pc EXCEPT ![r] = IF after >= Threshold THEN "probe" ELSE "recorded"]
    /\ UNCHANGED <<banDuration, clock, bans, ip, probe, now, history>>

Reenter(r) ==
    /\ pc[r] = "probe"
    /\ probe' = [probe EXCEPT ![r] = clock]
    /\ pc' = [pc EXCEPT ![r] = "recheck"]
    /\ UNCHANGED <<banDuration, clock, scores, bans, ip, now, added, total, history>>

Recheck(r) ==
    /\ pc[r] = "recheck"
    /\ pc' = [pc EXCEPT ![r] =
                CASE BanState(ip[r], probe[r]) = "active"  -> "recorded"
                  [] BanState(ip[r], probe[r]) = "expired" -> "reevict"
                  [] BanState(ip[r], probe[r]) = "none"    -> "ban"]
    /\ UNCHANGED <<banDuration, clock, scores, bans, ip, probe, now, added, total, history>>

Reevict(r) ==
    /\ pc[r] = "reevict"
    /\ bans' = [bans EXCEPT ![ip[r]] = None]
    /\ pc' = [pc EXCEPT ![r] = "ban"]
    /\ UNCHANGED <<banDuration, clock, scores, ip, probe, now, added, total, history>>

(* Mutant of InsertBan: the entry has no duration.                         *)
InsertBanWithoutDuration(r) ==
    /\ pc[r] = "ban"
    /\ bans' = [bans EXCEPT ![ip[r]] = now[r]]
    /\ pc' = [pc EXCEPT ![r] = "banned"]
    /\ contested' = IF \E q \in Requests : /\ pc[q] \in {"evict", "reevict"}
                                          /\ ip[q] = ip[r]
                    THEN contested \cup {r} ELSE contested
    /\ UNCHANGED <<banDuration, clock, scores, ip, probe, now, added, total, underBan>>

(* bans.insert: overwrites whatever entry is there.                        *)
InsertBan(r) ==
    /\ pc[r] = "ban"
    /\ bans' = [bans EXCEPT ![ip[r]] = now[r] + banDuration]
    /\ pc' = [pc EXCEPT ![r] = "banned"]
    /\ contested' = IF \E q \in Requests : /\ pc[q] \in {"evict", "reevict"}
                                          /\ ip[q] = ip[r]
                    THEN contested \cup {r} ELSE contested
    /\ UNCHANGED <<banDuration, clock, scores, ip, probe, now, added, total, underBan>>

(* Time passes; record, or what comes before it, takes MaxSkew at most.    *)
Tick ==
    /\ clock < MaxClock
    /\ \A r \in InFlight :
          clock < (IF pc[r] \in RecordPcs THEN now[r] ELSE probe[r]) + MaxSkew
    /\ clock' = clock + 1
    /\ UNCHANGED <<banDuration, scores, bans, pc, ip, probe, now, added, total, history>>

Request(r) ==
    \/ Enter(r)
    \/ LookupBan(r)
    \/ EvictBan(r)
    \/ NoHits(r)
    \/ Record(r)
    \/ \E s \in Scores : AddScore(r, s)
    \/ Reenter(r)
    \/ Recheck(r)
    \/ Reevict(r)
    \/ InsertBan(r)

Next == Tick \/ \E r \in Requests : Request(r)

Spec == Init /\ [][Next]_vars

-----------------------------------------------------------------------------
TypeOK ==
    /\ banDuration \in BanDurations
    /\ clock \in 0 .. MaxClock
    /\ scores \in [Ips -> [total : 0 .. MaxScore, seen : 0 .. MaxClock] \cup {None}]
    /\ bans \in [Ips -> Nat \cup {None}]
    /\ pc \in [Requests -> Pcs]
    /\ ip \in [Requests -> Ips]
    /\ now \in [Requests -> 0 .. MaxClock]
    /\ probe \in [Requests -> 0 .. MaxClock]
    /\ added \in [Requests -> 0 .. MaxScore]
    /\ total \in [Requests -> 0 .. MaxScore]
    /\ underBan \in [Requests -> SUBSET Requests]
    /\ contested \subseteq Requests

(* The scores recorded by the requests of S together.                      *)
Sum(S) == MapThenSumSet(LAMBDA q : added[q], S)

(* The requests of r's client recorded no later than r, as far as clocks   *)
(* tell, that no idle time of more than DecayAfter separates from r.       *)
Streak(r) ==
    LET mine == {q \in Recorded : ip[q] = ip[r] /\ now[q] <= now[r] + MaxSkew} IN
    {q \in mine :
       \A x \in mine :
          now[q] <= now[x] /\ now[x] < now[r] =>
             \E z \in mine : now[x] < now[z] /\ now[z] <= now[x] + DecayAfter}

(* Every point is earned: the total record compares with the threshold     *)
(* (line 60) never exceeds the scores of the client since it was last idle *)
(* for more than decay_after (line 52), whatever the order in which calls  *)
(* with stale clocks reach the entry.                                      *)
TotalEarned == \A r \in Recorded : total[r] <= Sum(Streak(r))

(* is_banned answers true only when the client was banned, on a total of   *)
(* at least the threshold, less than ban_duration ago.                      *)
RefusalEarned ==
    \A r \in Requests : pc[r] = "refused" =>
        \E b \in Requests : /\ pc[b] = "banned"
                           /\ ip[b] = ip[r]
                           /\ probe[r] < now[b] + banDuration
                           /\ Sum(Streak(b)) >= Threshold

(* A ban lasts to its end ("Returns true if the IP is currently            *)
(* reputation-banned", line 32): a request that enters while a ban of its   *)
(* client is in force gets past is_banned only at the very end of the ban, *)
(* within twice the time a call may take (a record with a stale clock      *)
(* overwrites the expiry; a probe with a stale clock follows the           *)
(* eviction), or when a call that saw an expired ban (line 36) stood       *)
(* before its remove (line 40) while the fresh one was inserted (line 62). *)
UncontestedBanHolds ==
    \A r \in Requests : pc[r] = "inspect" =>
        \A b \in underBan[r] \ contested :
            probe[r] + 2 * MaxSkew >= now[b] + banDuration

(* A ban that has been served is forgiven, although no line resets the     *)
(* score: the ban outlasts decay_after, so the first record after it       *)
(* starts from zero, and the client is banned again only for a full        *)
(* threshold of new scores.  Needs a ban longer than decay_after by the    *)
(* time that calls may straddle its two ends; a shorter ban leaves the old *)
(* total in place, and a single hit bans again.                            *)
ServedBanForgiven ==
    banDuration > DecayAfter + 4 * MaxSkew =>
        \A b, r \in Requests :
            /\ pc[b] = "banned" /\ b \notin contested
            /\ pc[r] = "banned" /\ ip[b] = ip[r]
            /\ now[r] >= now[b] + banDuration
            => Sum({q \in Recorded :
                      /\ ip[q] = ip[r]
                      /\ now[q] + 2 * MaxSkew >= now[b] + banDuration})
                 >= Threshold
=============================================================================
