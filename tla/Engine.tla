------------------------------- MODULE Engine -------------------------------
(***************************************************************************)
(* The inspection pipeline of the Rust WAF                                 *)
(* (Dome/dome-rs/src/engine/mod.rs, Engine::inspect) with the three        *)
(* trackers it drives: rate limiter, reputation engine, session tracker.   *)
(*                                                                         *)
(* Every request is a process on its own thread.  A step is one operation  *)
(* on a shared map, or a read of the clock with the local work around it,  *)
(* so that a request may be preempted between any two map operations and   *)
(* go on with an Instant that has gone stale:                              *)
(*                                                                         *)
(*   Enter LookupBan EvictBan      allowlist, reputation.is_banned         *)
(*   Screen                        blocklist, method, path, virtual patch  *)
(*   LookupRateBan EvictRateBan CountRequest InsertRateBan                 *)
(*                                 rate_limiter.check                      *)
(*   Payload, Panic                fingerprint ... payload loop            *)
(*   AddScore Reenter (LookupBan EvictBan) InsertBan                       *)
(*                                 reputation.record                       *)
(*   Escalate                      session_tracker.record, the decision    *)
(*                                                                         *)
(* What a request matches is data: whether a static rule or a virtual      *)
(* patch matches, its total score and whether one of its hits is in a      *)
(* challenge category are chosen when the code looks.                      *)
(***************************************************************************)
EXTENDS Integers, FiniteSets

CONSTANTS
    Requests, Ips,
    AllowedIps, BlockedIps,          \* allowed_ips, blocked_ips
    Modes,                           \* the configured modes to explore
    ChallengeSettings,               \* values of challenge_enabled to explore
    CompileSettings,                 \* do the payload loop's regexes compile?
    Scores,                          \* total scores of flagged requests
    ScoreThreshold,                  \* score_threshold
    RepThreshold, RepBan, RepDecay,  \* reputation_threshold, _ban_secs; decay_after
    SessionChallenge, SessionBlock,  \* session.challenge_threshold, .block_threshold
    SessionMax, SessionWindow,       \* session.max_requests, .window_secs
    RateLimits,                      \* {max_requests, sensitive_max}
    RateWindow, RateBan,             \* window_seconds, ban_duration_secs
    MaxSkew,                         \* bound: how long a read of the clock is in use
    MaxClock,                        \* bound of the clock
    MaxStops,                        \* bound: planned restarts of the service
    None

ASSUME ConfigAssumption ==
    /\ Modes \subseteq {"block", "detect"}
    /\ ChallengeSettings \subseteq BOOLEAN
    /\ CompileSettings \subseteq BOOLEAN
    /\ RateLimits \subseteq Nat /\ RateLimits # {}

ASSUME RequestsAssumption == IsFiniteSet(Requests)

ASSUME NumbersAssumption ==
    /\ Scores \subseteq Nat /\ ScoreThreshold \in Nat
    /\ RepThreshold \in Nat /\ RepBan \in Nat /\ RepDecay \in Nat
    /\ SessionChallenge \in Nat /\ SessionBlock \in Nat
    /\ SessionMax \in Nat /\ SessionWindow \in Nat
    /\ RateWindow \in Nat /\ RateBan \in Nat
    /\ MaxSkew \in Nat /\ MaxClock \in Nat /\ MaxStops \in Nat

ASSUME NoneAssumption ==
    /\ None \notin Nat
    /\ None \notin [total : Nat, seen : Nat]
    /\ None \notin [score : Nat, count : Nat, start : Nat]
    /\ None \notin [action : {"Allow", "Log", "Challenge", "Block"}, by : STRING]

VARIABLES
    mode, challengeOn,   \* cfg.mode, cfg.challenge_enabled
    compiles,            \* the build: the payload loop's regexes compile
    clock,
    up,                  \* the process runs
    stops,               \* planned restarts so far
    rep,                 \* reputation.scores: ip -> [total, seen] or None
    repBan,              \* reputation.bans: ip -> expiry or None
    stamps,              \* rate_limiter.timestamps: ip -> requests counted
    rateBan,             \* rate_limiter.bans: ip -> expiry or None
    session,             \* session_tracker.map: ip -> [score, count, start] or None
    pc, ip,              \* per request: stage and client
    probe,               \* its Instant in is_banned
    checked,             \* its Instant in rate_limiter.check
    now,                 \* its Instant in reputation.record
    limit,               \* the limit that its path falls under, once counted
    score,               \* its total_score
    challengeable,       \* one of its hits is in challenge_categories
    answer               \* the InspectionResult: [action, by] or None

config == <<mode, challengeOn, compiles>>
memory == <<rep, repBan, stamps, rateBan, session>>
world == <<config, clock, up, stops, ip>>
instants == <<probe, checked, now>>
hits == <<score, challengeable>>
requests == <<pc, instants, limit, hits, answer>>
vars == <<world, memory, requests>>

Gating == {"gate", "evict", "rules"}
Checking == {"rate", "rateEvict", "count", "rateBan", "payload"}
Recording == {"add", "reenter", "recheck", "reevict", "repBan", "session"}
Pcs == {"idle", "done", "lost"} \cup Gating \cup Checking \cup Recording
Actions == {"Allow", "Log", "Challenge", "Block"}
Rules == {"ALLOWLIST", "REP", "IP", "STATIC", "VPATCH", "RATE", "CLEAN",
          "SES", "SES_CHALLENGE", "SCORE"}

InFlight == {r \in Requests : pc[r] \in Gating \cup Checking \cup Recording}

(* When a request in flight last took an Instant for a tracker.            *)
Since(r) == CASE pc[r] \in Gating -> probe[r]
              [] pc[r] \in Checking -> checked[r]
              [] OTHER -> now[r]

(* decide_action: 272-274.                                                 *)
Decide == IF mode = "detect" THEN "Log" ELSE "Block"

Answer(r, action, rule) ==
    /\ pc' = [pc EXCEPT ![r] = "done"]
    /\ answer' = [answer EXCEPT ![r] = [action |-> action, by |-> rule]]

Advance(r, stage) ==
    /\ pc' = [pc EXCEPT ![r] = stage]
    /\ UNCHANGED answer

(* The maps of Engine::new.                                                *)
NoEntries == [i \in Ips |-> None]
NoStamps == [i \in Ips |-> {}]

-----------------------------------------------------------------------------
Init ==
    /\ mode \in Modes
    /\ challengeOn \in ChallengeSettings
    /\ compiles \in CompileSettings
    /\ clock = 0
    /\ up = TRUE
    /\ stops = 0
    /\ rep = NoEntries /\ repBan = NoEntries /\ session = NoEntries
    /\ stamps = NoStamps /\ rateBan = NoEntries
    /\ pc = [r \in Requests |-> "idle"]
    /\ ip \in [Requests -> Ips]
    /\ probe = [r \in Requests |-> 0]
    /\ checked = [r \in Requests |-> 0]
    /\ now = [r \in Requests |-> 0]
    /\ limit = [r \in Requests |-> 0]
    /\ score = [r \in Requests |-> 0]
    /\ challengeable = [r \in Requests |-> FALSE]
    /\ answer = [r \in Requests |-> None]

(* Step 1, and the entry into is_banned of step 2.                         *)
Enter(r) ==
    /\ up /\ pc[r] = "idle"
    /\ \/ /\ ip[r] \in AllowedIps
          /\ Answer(r, "Allow", "ALLOWLIST")
          /\ UNCHANGED probe
       \/ /\ ip[r] \notin AllowedIps
          /\ probe' = [probe EXCEPT ![r] = clock]
          /\ Advance(r, "gate")
    /\ UNCHANGED <<world, memory, checked, now, limit, hits>>

(* What follows an is_banned that returns false: the static rules for      *)
(* inspect, the insertion of a ban for record.                             *)
Unbanned(r) == Advance(r, IF pc[r] \in Gating THEN "rules" ELSE "repBan")

(* bans.get of is_banned, called by inspect (gate) or by record (recheck). *)
LookupBan(r) ==
    LET expiry == repBan[ip[r]] IN
    /\ up /\ pc[r] \in {"gate", "recheck"}
    /\ \/ expiry = None /\ Unbanned(r)
       \/ expiry # None /\ probe[r] >= expiry
          /\ Advance(r, IF pc[r] = "gate" THEN "evict" ELSE "reevict")
       \/ expiry # None /\ probe[r] < expiry /\ pc[r] = "gate"
          /\ Answer(r, "Block", "REP")
       \/ expiry # None /\ probe[r] < expiry /\ pc[r] = "recheck"
          /\ Advance(r, "session")
    /\ UNCHANGED <<world, memory, instants, limit, hits>>

(* bans.remove of is_banned: takes whatever is there by now.               *)
EvictBan(r) ==
    /\ up /\ pc[r] \in {"evict", "reevict"}
    /\ repBan' = [repBan EXCEPT ![ip[r]] = None]
    /\ Unbanned(r)
    /\ UNCHANGED <<world, rep, stamps, rateBan, session, instants, limit, hits>>

(* Steps 3 to 6, and the entry into rate_limiter.check of step 7.          *)
Screen(r) ==
    /\ up /\ pc[r] = "rules"
    /\ \/ ip[r] \in BlockedIps /\ Answer(r, "Block", "IP") /\ UNCHANGED checked
       \/ /\ ip[r] \notin BlockedIps
          /\ \/ Answer(r, "Block", "STATIC") /\ UNCHANGED checked
             \/ /\ \E a \in {"Allow", "Log", Decide} : Answer(r, a, "VPATCH")
                /\ UNCHANGED checked
             \/ /\ checked' = [checked EXCEPT ![r] = clock]
                /\ Advance(r, "rate")
    /\ UNCHANGED <<world, memory, probe, now, limit, hits>>

(* bans.get of check.                                                      *)
LookupRateBan(r) ==
    LET expiry == rateBan[ip[r]] IN
    /\ up /\ pc[r] = "rate"
    /\ \/ expiry = None /\ Advance(r, "count")
       \/ expiry # None /\ checked[r] >= expiry /\ Advance(r, "rateEvict")
       \/ expiry # None /\ checked[r] < expiry /\ Answer(r, Decide, "RATE")
    /\ UNCHANGED <<world, memory, instants, limit, hits>>

(* bans.remove of check.                                                   *)
EvictRateBan(r) ==
    /\ up /\ pc[r] = "rateEvict"
    /\ rateBan' = [rateBan EXCEPT ![ip[r]] = None]
    /\ Advance(r, "count")
    /\ UNCHANGED <<world, rep, repBan, stamps, session, instants, limit, hits>>

(* Mutant of Kept: the request is not pushed.                              *)
KeptWithoutPush(r) == {q \in stamps[ip[r]] : checked[r] - checked[q] < RateWindow}

(* The entry of timestamps: retain what is young at this check's Instant,  *)
(* push, count.  Which limit applies depends on the path (is_sensitive).   *)
Kept(r) == {q \in stamps[ip[r]] : checked[r] - checked[q] < RateWindow} \cup {r}

CountRequest(r) ==
    /\ up /\ pc[r] = "count"
    /\ stamps' = [stamps EXCEPT ![ip[r]] = Kept(r)]
    /\ \E most \in RateLimits :
         /\ limit' = [limit EXCEPT ![r] = most]
         /\ \/ Cardinality(Kept(r)) > most /\ Advance(r, "rateBan")
            \/ Cardinality(Kept(r)) <= most /\ Advance(r, "payload")
    /\ UNCHANGED <<world, rep, repBan, rateBan, session, instants, hits>>

(* bans.insert of check: the ban runs from the Instant of its start.       *)
InsertRateBan(r) ==
    /\ up /\ pc[r] = "rateBan"
    /\ rateBan' = [rateBan EXCEPT ![ip[r]] = checked[r] + RateBan]
    /\ Answer(r, Decide, "RATE")
    /\ UNCHANGED <<world, rep, repBan, stamps, session, instants, limit, hits>>

(* Steps 8 to 13, and the entry into reputation.record: no hit, or hits of *)
(* total score s.                                                          *)
Payload(r) ==
    /\ up /\ pc[r] = "payload" /\ compiles
    /\ \/ Answer(r, "Allow", "CLEAN") /\ UNCHANGED <<score, now>>
       \/ /\ \E s \in Scores : score' = [score EXCEPT ![r] = s]
          /\ now' = [now EXCEPT ![r] = clock]
          /\ Advance(r, "add")
    /\ UNCHANGED <<world, memory, probe, checked, limit, challengeable>>

(* Regex::new fails on a look-ahead and unwrap panics; with panic = abort  *)
(* the process ends, and with it every request in it.                      *)
Panic(r) ==
    /\ up /\ pc[r] = "payload" /\ ~compiles
    /\ up' = FALSE
    /\ pc' = [q \in Requests |-> IF q \in InFlight THEN "lost" ELSE pc[q]]
    /\ UNCHANGED <<config, clock, stops, ip, memory, instants, limit, hits, answer>>

(* Mutant of Before: any idle time decays the score.                       *)
BeforeEagerDecay(r) ==
    LET e == rep[ip[r]] IN
    IF e = None \/ now[r] - e.seen > 0 THEN 0 ELSE e.total

(* What record finds under its lock: the total unless it has decayed by    *)
(* the Instant that was read before the lock.                              *)
Before(r) ==
    LET e == rep[ip[r]] IN
    IF e = None \/ now[r] - e.seen > RepDecay THEN 0 ELSE e.total

AddScore(r) ==
    LET total == Before(r) + score[r] IN
    /\ up /\ pc[r] = "add"
    /\ rep' = [rep EXCEPT ![ip[r]] = [total |-> total, seen |-> now[r]]]
    /\ Advance(r, IF total >= RepThreshold THEN "reenter" ELSE "session")
    /\ UNCHANGED <<world, repBan, stamps, rateBan, session, instants, limit, hits>>

(* record calls is_banned, which reads the clock itself.                   *)
Reenter(r) ==
    /\ up /\ pc[r] = "reenter"
    /\ probe' = [probe EXCEPT ![r] = clock]
    /\ Advance(r, "recheck")
    /\ UNCHANGED <<world, memory, checked, now, limit, hits>>

(* bans.insert of record: the ban runs from the Instant of its start.      *)
InsertBan(r) ==
    /\ up /\ pc[r] = "repBan"
    /\ repBan' = [repBan EXCEPT ![ip[r]] = now[r] + RepBan]
    /\ Advance(r, "session")
    /\ UNCHANGED <<world, rep, stamps, rateBan, session, instants, limit, hits>>

(* session_tracker.record: the entry after it (a new entry counts its      *)
(* first request twice).                                                   *)
Accumulated(r) ==
    LET e == session[ip[r]] IN
    IF e = None
    THEN [score |-> score[r], count |-> 2, start |-> clock]
    ELSE IF clock - e.start > SessionWindow
    THEN [score |-> score[r], count |-> 1, start |-> clock]
    ELSE [score |-> e.score + score[r], count |-> e.count + 1, start |-> e.start]

(* Steps 15 and 16: session_tracker.record works on its clock and its      *)
(* entry under one lock; the session's verdict first, then the request's.  *)
Escalate(r) ==
    LET e == Accumulated(r)
        block == e.count > SessionMax \/ e.score >= SessionBlock
        challenge == ~block /\ e.score >= SessionChallenge /\ challengeOn
    IN
    /\ up /\ pc[r] = "session"
    /\ session' = [session EXCEPT ![ip[r]] = e]
    /\ \E c \in BOOLEAN :
         /\ challengeable' = [challengeable EXCEPT ![r] = c]
         /\ \/ block /\ Answer(r, Decide, "SES")
            \/ challenge /\ Answer(r, "Challenge", "SES_CHALLENGE")
            \/ /\ ~block /\ ~challenge
               /\ \/ score[r] < ScoreThreshold /\ Answer(r, "Log", "SCORE")
                  \/ /\ score[r] >= ScoreThreshold
                     /\ IF challengeOn /\ c
                        THEN Answer(r, "Challenge", "SCORE")
                        ELSE Answer(r, Decide, "SCORE")
    /\ UNCHANGED <<world, rep, repBan, stamps, rateBan, instants, limit, score>>

(* The service manager stops a running service (an upgrade, a new config). *)
Stop ==
    /\ up /\ stops < MaxStops
    /\ up' = FALSE
    /\ stops' = stops + 1
    /\ pc' = [q \in Requests |-> IF q \in InFlight THEN "lost" ELSE pc[q]]
    /\ UNCHANGED <<config, clock, ip, memory, instants, limit, hits, answer>>

(* ... and starts it again: every tracker lives in memory only.            *)
Restart ==
    /\ ~up
    /\ up' = TRUE
    /\ rep' = NoEntries /\ repBan' = NoEntries /\ session' = NoEntries
    /\ stamps' = NoStamps /\ rateBan' = NoEntries
    /\ UNCHANGED <<config, clock, stops, ip, requests>>

Tick ==
    /\ clock < MaxClock
    /\ \A r \in InFlight : clock < Since(r) + MaxSkew
    /\ clock' = clock + 1
    /\ UNCHANGED <<config, up, stops, ip, memory, requests>>

(* What a request that has entered does next.                              *)
Continue(r) ==
    \/ LookupBan(r) \/ EvictBan(r) \/ Screen(r)
    \/ LookupRateBan(r) \/ EvictRateBan(r) \/ CountRequest(r) \/ InsertRateBan(r)
    \/ Payload(r) \/ Panic(r)
    \/ AddScore(r) \/ Reenter(r) \/ InsertBan(r)
    \/ Escalate(r)

Inspect(r) == Enter(r) \/ Continue(r)

Next == (\E r \in Requests : Inspect(r)) \/ Stop \/ Restart \/ Tick

Spec == Init /\ [][Next]_vars

(* A runnable task is polled again, and a dead service is started again    *)
(* (Restart=on-failure).                                                   *)
FairSpec ==
    /\ Spec
    /\ \A r \in Requests : WF_vars(Continue(r))
    /\ WF_vars(Restart)

-----------------------------------------------------------------------------
TypeOK ==
    /\ mode \in Modes /\ challengeOn \in ChallengeSettings
    /\ compiles \in CompileSettings
    /\ clock \in 0 .. MaxClock /\ up \in BOOLEAN /\ stops \in 0 .. MaxStops
    /\ rep \in [Ips -> [total : Nat, seen : 0 .. MaxClock] \cup {None}]
    /\ repBan \in [Ips -> Nat \cup {None}]
    /\ stamps \in [Ips -> SUBSET Requests]
    /\ rateBan \in [Ips -> Nat \cup {None}]
    /\ session \in [Ips -> [score : Nat, count : Nat, start : 0 .. MaxClock] \cup {None}]
    /\ pc \in [Requests -> Pcs]
    /\ ip \in [Requests -> Ips]
    /\ probe \in [Requests -> 0 .. MaxClock]
    /\ checked \in [Requests -> 0 .. MaxClock]
    /\ now \in [Requests -> 0 .. MaxClock]
    /\ limit \in [Requests -> RateLimits \cup {0}]
    /\ score \in [Requests -> Scores \cup {0}]
    /\ challengeable \in [Requests -> BOOLEAN]
    /\ answer \in [Requests -> [action : Actions, by : Rules] \cup {None}]

(* The two accumulators of a client agree: while its session is open, the  *)
(* reputation total is no smaller than the session score, although the     *)
(* two are updated by different calls that other requests separate         *)
(* (lines 233 and 237), by Instants that go stale or are fresh, decay by   *)
(* different rules (idle time against tumbling window) and are lost        *)
(* together at a restart.                                                  *)
SessionWithinReputation ==
    RepDecay >= SessionWindow + 2 * MaxSkew =>
        \A i \in Ips :
            session[i] # None /\ clock - session[i].start <= SessionWindow =>
                rep[i] # None /\ session[i].score <= rep[i].total

(* The requests of client i that were counted at an Instant of the span    *)
(* and forwarded; the allowlist and virtual patches answer before the      *)
(* limiter runs (lines 115 and 166).                                       *)
Forwarded(i, from, to) ==
    {r \in Requests :
        /\ ip[r] = i /\ from <= checked[r] /\ checked[r] < to
        /\ answer[r] # None
        /\ answer[r].by \notin {"ALLOWLIST", "VPATCH"}
        /\ answer[r].action \in {"Allow", "Log"}}

(* In block mode a client's requests forwarded in any span that is shorter *)
(* than the rate window by the time a check may be preempted are no more   *)
(* than the limit of one of them, however inspections interleave: sensitive*)
(* paths alone keep to sensitive_max, all paths to max_requests.  A check  *)
(* with an old Instant (ratelimit.rs:40) counts what a newer one has       *)
(* pruned meanwhile (66), so that the full window may let one more pass.   *)
(* A restart forgets the count.                                            *)
ForwardedBound ==
    mode = "block" /\ stops = 0 /\ compiles =>
        \A i \in Ips, t \in 0 .. MaxClock :
            LET through == Forwarded(i, t, t + RateWindow - MaxSkew) IN
            through # {} => \E r \in through : Cardinality(through) <= limit[r]

(* "BLOCK + reputation ban" (session.rs:20): when the session score of a   *)
(* client makes the pipeline answer SES-001, the client is under a         *)
(* reputation ban from then on.  No line of the code does that: a ban      *)
(* comes from reputation's own threshold, which is the higher one as       *)
(* shipped (config.yml:27, :57), and may be evicted by another request.    *)
SessionBlockBans ==
    [][\A r \in Requests :
          /\ answer[r] = None
          /\ answer'[r] # None
          /\ answer'[r].by = "SES"
          /\ session'[ip[r]].score >= SessionBlock
          => repBan'[ip[r]] # None /\ clock < repBan'[ip[r]]]_vars

(* "If session escalates above per-request decision, use session action"   *)
(* (mod.rs:239): the session never makes the answer milder than what the   *)
(* request's own hits call for in lines 257-267.                           *)
SessionOnlyEscalates ==
    \A r \in Requests :
        /\ mode = "block" /\ answer[r] # None
        /\ answer[r].by = "SES_CHALLENGE"
        => score[r] < ScoreThreshold \/ challengeable[r]

(* Every request the pipeline takes in gets an answer.                     *)
EveryRequestAnswered ==
    \A r \in Requests : r \in InFlight ~> pc[r] = "done"
=============================================================================
