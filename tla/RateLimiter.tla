---------------------------- MODULE RateLimiter ----------------------------
(***************************************************************************)
(* The rate limiter of the Rust WAF (Dome/dome-rs/src/engine/ratelimit.rs) *)
(* under concurrent requests.                                              *)
(*                                                                         *)
(* RateLimiter::check runs on any thread of the Tokio pool and takes no    *)
(* lock across its body: it touches two DashMaps, bans and timestamps, and *)
(* only each single map operation is atomic.  A request is therefore a     *)
(* process with a program counter, and one action is the code from one     *)
(* map operation to the next:                                              *)
(*                                                                         *)
(*   Start      now = Instant::now()                                       *)
(*   LookupBan  bans.get(ip): banned, expired, or no entry                 *)
(*   EvictBan   bans.remove(ip), after the read guard is dropped           *)
(*   Count      timestamps.entry(ip): retain, push, len under one guard    *)
(*   InsertBan  bans.insert(ip, now + ban)                                 *)
(*                                                                         *)
(* The clock is a discrete monotonic clock.  now[r] is the value the check *)
(* took at its start: every later step uses this value, stale or not.      *)
(* MaxSkew bounds how far the clock runs while a check is on its way (a    *)
(* thread that is preempted between two map operations).                   *)
(***************************************************************************)
EXTENDS Integers, FiniteSets

CONSTANTS
    Requests,       \* the requests: each calls check once
    Ips,            \* client keys
    MaxRequests,    \* cfg.max_requests
    SensitiveMax,   \* cfg.sensitive_max
    Window,         \* cfg.window_seconds
    BanDuration,    \* cfg.ban_duration_secs
    MaxSkew,        \* bound: clock advance while a check is on its way
    MaxInFlight,    \* bound: checks on their way at once
    MaxClock,       \* bound of the clock
    NoBan           \* no entry in bans

ASSUME RequestsAssumption == IsFiniteSet(Requests)
ASSUME LimitAssumption == MaxRequests \in Nat /\ SensitiveMax \in Nat
ASSUME TimeAssumption ==
    /\ Window \in Nat
    /\ BanDuration \in Nat
    /\ MaxSkew \in Nat
    /\ MaxClock \in Nat
ASSUME InFlightAssumption == MaxInFlight \in Nat \ {0}
ASSUME NoBanAssumption == NoBan \notin Nat

VARIABLES
    clock,          \* the monotonic clock
    timestamps,     \* ip -> the checks whose now is in the Vec
    bans,           \* ip -> expiry or NoBan
    pc,             \* where each request is
    ip,             \* its client key
    sensitive,      \* is_sensitive(path)
    now,            \* the Instant it took at its start
    bannedBefore,   \* history: the RATE-001 answers to its client at its start
    contested       \* history: bans inserted while a remove of the key was due

history == <<bannedBefore, contested>>
vars == <<clock, timestamps, bans, pc, ip, sensitive, now, history>>

Pcs == {"idle", "lookup", "evict", "count", "ban",
        "pass", "rate001", "rate002"}

InFlightPcs == {"lookup", "evict", "count", "ban"}

InFlight == {r \in Requests : pc[r] \in InFlightPcs}

(* The requests whose now was pushed.                                      *)
Counted == {r \in Requests : pc[r] \in {"ban", "pass", "rate001"}}

Passed == {r \in Requests : pc[r] = "pass"}

(* Mutant of Limit: sensitive paths get the ordinary limit.                *)
LimitIgnoringSensitive(r) == MaxRequests

(* The limit the check compares with: 57-62.                               *)
Limit(r) == IF sensitive[r] THEN SensitiveMax ELSE MaxRequests

(* Instant::duration_since saturates to zero when t is later than n.       *)
Age(n, t) == IF t >= n THEN 0 ELSE n - t

(* Mutant of Kept: the retain of line 67 is gone.                          *)
KeptWithoutRetain(r) == timestamps[ip[r]]

(* What Vec::retain keeps for the check r.                                 *)
Kept(r) == {q \in timestamps[ip[r]] : Age(now[r], now[q]) < Window}

-----------------------------------------------------------------------------
(* RateLimiter::new: both maps are empty.                                  *)
Init ==
    /\ clock = 0
    /\ timestamps = [i \in Ips |-> {}]
    /\ bans = [i \in Ips |-> NoBan]
    /\ pc = [r \in Requests |-> "idle"]
    /\ ip \in [Requests -> Ips]
    /\ sensitive \in [Requests -> BOOLEAN]
    /\ now = [r \in Requests |-> 0]
    /\ bannedBefore = [r \in Requests |-> {}]
    /\ contested = {}

(* check is called: the request takes the time.                            *)
Start(r) ==
    /\ pc[r] = "idle"
    /\ Cardinality(InFlight) < MaxInFlight
    /\ now' = [now EXCEPT ![r] = clock]
    /\ bannedBefore' = [bannedBefore EXCEPT ![r] =
                          {q \in Requests : pc[q] = "rate001" /\ ip[q] = ip[r]}]
    /\ pc' = [pc EXCEPT ![r] = "lookup"]
    /\ UNCHANGED <<clock, timestamps, bans, ip, sensitive, contested>>

(* Mutant of LookupBan: a ban that ends now still counts.                  *)
LookupBanInclusive(r) ==
    /\ pc[r] = "lookup"
    /\ pc' = [pc EXCEPT ![r] =
                IF bans[ip[r]] = NoBan THEN "count"
                ELSE IF now[r] <= bans[ip[r]] THEN "rate002"
                ELSE "evict"]
    /\ UNCHANGED <<clock, timestamps, bans, ip, sensitive, now, history>>

(* bans.get(ip) and the comparison with the expiry under its read guard.   *)
LookupBan(r) ==
    /\ pc[r] = "lookup"
    /\ pc' = [pc EXCEPT ![r] =
                IF bans[ip[r]] = NoBan THEN "count"
                ELSE IF now[r] < bans[ip[r]] THEN "rate002"
                ELSE "evict"]
    /\ UNCHANGED <<clock, timestamps, bans, ip, sensitive, now, history>>

(* bans.remove(ip): whatever entry is there by now.                        *)
EvictBan(r) ==
    /\ pc[r] = "evict"
    /\ bans' = [bans EXCEPT ![ip[r]] = NoBan]
    /\ pc' = [pc EXCEPT ![r] = "count"]
    /\ UNCHANGED <<clock, timestamps, ip, sensitive, now, history>>

(* Mutant of Count: the length is taken before the push.                   *)
CountBeforePush(r) ==
    /\ pc[r] = "count"
    /\ timestamps' = [timestamps EXCEPT ![ip[r]] = Kept(r) \cup {r}]
    /\ pc' = [pc EXCEPT ![r] =
                IF Cardinality(Kept(r)) > Limit(r) THEN "ban" ELSE "pass"]
    /\ UNCHANGED <<clock, bans, ip, sensitive, now, history>>

(* retain, push and len under the entry's write guard.                     *)
Count(r) ==
    /\ pc[r] = "count"
    /\ timestamps' = [timestamps EXCEPT ![ip[r]] = Kept(r) \cup {r}]
    /\ pc' = [pc EXCEPT ![r] =
                IF Cardinality(Kept(r) \cup {r}) > Limit(r)
                THEN "ban" ELSE "pass"]
    /\ UNCHANGED <<clock, bans, ip, sensitive, now, history>>

(* Mutant of InsertBan: the expiry lies before the ban.                    *)
InsertBanBackwards(r) ==
    /\ pc[r] = "ban"
    /\ bans' = [bans EXCEPT ![ip[r]] = now[r] - BanDuration]
    /\ pc' = [pc EXCEPT ![r] = "rate001"]
    /\ contested' = IF \E q \in Requests : pc[q] = "evict" /\ ip[q] = ip[r]
                    THEN contested \cup {r} ELSE contested
    /\ UNCHANGED <<clock, timestamps, ip, sensitive, now, bannedBefore>>

(* Mutant of InsertBan: the entry has no duration.                         *)
InsertBanWithoutDuration(r) ==
    /\ pc[r] = "ban"
    /\ bans' = [bans EXCEPT ![ip[r]] = now[r]]
    /\ pc' = [pc EXCEPT ![r] = "rate001"]
    /\ contested' = IF \E q \in Requests : pc[q] = "evict" /\ ip[q] = ip[r]
                    THEN contested \cup {r} ELSE contested
    /\ UNCHANGED <<clock, timestamps, ip, sensitive, now, bannedBefore>>

(* bans.insert(ip, now + ban): overwrites whatever entry is there.         *)
InsertBan(r) ==
    /\ pc[r] = "ban"
    /\ bans' = [bans EXCEPT ![ip[r]] = now[r] + BanDuration]
    /\ pc' = [pc EXCEPT ![r] = "rate001"]
    /\ contested' = IF \E q \in Requests : pc[q] = "evict" /\ ip[q] = ip[r]
                    THEN contested \cup {r} ELSE contested
    /\ UNCHANGED <<clock, timestamps, ip, sensitive, now, bannedBefore>>

Tick ==
    /\ clock < MaxClock
    /\ \A r \in InFlight : clock < now[r] + MaxSkew
    /\ clock' = clock + 1
    /\ UNCHANGED <<timestamps, bans, pc, ip, sensitive, now, history>>

Check(r) ==
    \/ Start(r)
    \/ LookupBan(r)
    \/ EvictBan(r)
    \/ Count(r)
    \/ InsertBan(r)

Next == Tick \/ \E r \in Requests : Check(r)

Spec == Init /\ [][Next]_vars

-----------------------------------------------------------------------------
(* Typing of the variables: every map entry is a request of the client it  *)
(* is filed under, every expiry a clock value.                             *)
TypeOK ==
    /\ clock \in 0 .. MaxClock
    /\ timestamps \in [Ips -> SUBSET Requests]
    /\ bans \in [Ips -> Nat \cup {NoBan}]
    /\ pc \in [Requests -> Pcs]
    /\ ip \in [Requests -> Ips]
    /\ sensitive \in [Requests -> BOOLEAN]
    /\ now \in [Requests -> 0 .. MaxClock]
    /\ bannedBefore \in [Requests -> SUBSET Requests]
    /\ contested \subseteq Requests

(* The larger of the two configured limits.                                *)
Quota == IF MaxRequests >= SensitiveMax THEN MaxRequests ELSE SensitiveMax

(* The requests of client i that passed in the span of Window - MaxSkew    *)
(* clock units that starts at t.                                           *)
AdmittedIn(i, t) ==
    {r \in Passed : ip[r] = i /\ t <= now[r] /\ now[r] + MaxSkew < t + Window}

(* In every span of the window's length, less the time a thread may be     *)
(* preempted inside check, no client gets more requests through than its   *)
(* limit: the retain/push/len of concurrent checks with stale clocks       *)
(* (lines 40, 65-69) never undercounts by more than that.                  *)
WindowBound ==
    \A i \in Ips, t \in 0 .. MaxClock :
        /\ Cardinality(AdmittedIn(i, t)) <= Quota
        /\ Cardinality({r \in AdmittedIn(i, t) : sensitive[r]}) <= SensitiveMax

(* No refusal without a cause: RATE-001 is only given when more checks of  *)
(* the client than the limit were counted less than a window ago, and      *)
(* RATE-002 only while a RATE-001 of the same client is younger than the   *)
(* ban (lines 42-50 and 71-80), however the checks interleave.             *)
RefusalEarned ==
    \A r \in Requests :
        /\ pc[r] = "rate001" =>
             Cardinality({q \in Counted : /\ ip[q] = ip[r]
                                          /\ \/ q = r
                                             \/ Age(now[r], now[q]) < Window})
               > Limit(r)
        /\ pc[r] = "rate002" =>
             \E b \in Requests : /\ pc[b] = "rate001"
                                /\ ip[b] = ip[r]
                                /\ now[r] < now[b] + BanDuration

(* A ban holds for its whole duration: a request that starts after a check *)
(* of its client answered RATE-001 passes only when BanDuration has gone   *)
(* by since ("Rate limit exceeded - IP banned", line 76).  Two checks that *)
(* both see an expired ban break it: the remove of the slower one (line    *)
(* 53) takes the entry that another check has inserted since (line 73).    *)
BanHolds ==
    \A r \in Passed : \A b \in bannedBefore[r] :
        now[r] >= now[b] + BanDuration

(* That race is the only way to lose a ban.  When no check of the client   *)
(* stood between get and remove while the ban was inserted, the ban holds  *)
(* to its end, less twice the time a check may be preempted: once for a    *)
(* check that inserts its own, earlier expiry over it, once for the        *)
(* request that gets past on a clock older than the eviction.              *)
UncontestedBanHolds ==
    \A r \in Passed : \A b \in bannedBefore[r] \ contested :
        now[r] + 2 * MaxSkew >= now[b] + BanDuration

(* The Vec of a client stays small: since the bans last longer than the    *)
(* window, it never holds more than the limit and one entry for each check *)
(* that was on its way (line 67 pushes before line 71 compares).  Only a   *)
(* client that never lost a ban to the race of UncontestedBanHolds is      *)
(* bounded so: each lost ban lets as many checks more push their entries.  *)
VecBounded ==
    BanDuration >= Window + 2 * MaxSkew =>
        \A i \in Ips : (\A b \in contested : ip[b] # i) =>
            Cardinality(timestamps[i]) <= Quota + MaxInFlight

(* The limiter implements the abstract promise, with the spans shortened   *)
(* by the time a check may be preempted.                                   *)
Admissions ==
    INSTANCE WindowQuota WITH
        Ids <- Requests,
        Times <- 0 .. MaxClock,
        Span <- Window - MaxSkew,
        SensitiveQuota <- SensitiveMax,
        log <- {[id |-> r, ip |-> ip[r], at |-> now[r],
                 sensitive |-> sensitive[r]] : r \in Passed}

(* Every step of the limiter is a step of WindowQuota or leaves its log    *)
(* alone: RateLimiter implements WindowQuota.                              *)
ImplementsWindowQuota == Admissions!Spec
=============================================================================
