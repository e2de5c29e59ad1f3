------------------------------ MODULE Session ------------------------------
(***************************************************************************)
(* The session tracker of the Rust WAF                                     *)
(* (Dome/dome-rs/src/engine/session.rs): per client, a score and a count   *)
(* since the start of a window, and the escalation they call for.          *)
(*                                                                         *)
(* SessionTracker::record holds the DashMap entry of its client from its   *)
(* first line to its last and reads the clock under it, so it is one       *)
(* action.  The rule ids it collects are left out: only distinct_rules,    *)
(* which nothing calls, reads them.  purge_expired has no caller either,   *)
(* but it is an operation of the component, and the properties hold        *)
(* whenever it runs.                                                       *)
(*                                                                         *)
(* log is a history variable: every record with its time, the entry it     *)
(* left in the map, and its answer.                                        *)
(***************************************************************************)
EXTENDS Integers, Sequences, FiniteSets, FiniteSetsExt

CONSTANTS
    Ips,                 \* client keys
    Scores,              \* the scores of flagged requests
    Modulus,             \* u32 arithmetic wraps at this value
    Warn,                \* warn_threshold
    Challenge,           \* challenge_threshold
    Block,               \* block_threshold
    MaxRequests,         \* max_requests
    Window,              \* window_secs
    MaxClock,            \* bound of the clock
    MaxRecords,          \* bound of the calls of record
    NoSession            \* no entry in the map

ASSUME ThresholdAssumption ==
    /\ {Warn, Challenge, Block, MaxRequests} \subseteq Nat
    /\ Warn <= Challenge /\ Challenge <= Block
ASSUME WidthAssumption == Modulus \in Nat \ {0} /\ Scores \subseteq 0 .. Modulus - 1
ASSUME TimeAssumption == Window \in Nat /\ MaxClock \in Nat /\ MaxRecords \in Nat
ASSUME NoSessionAssumption == NoSession \notin [score : Nat, count : Nat, start : Nat]

VARIABLES
    clock,               \* the monotonic clock
    session,             \* ip -> [score, count, start] or NoSession
    log                  \* history: Seq of [ip, at, score, entry, action]

vars == <<clock, session, log>>

Entries == [score : 0 .. Modulus - 1, count : 0 .. Modulus - 1, start : 0 .. MaxClock]
Actions == {"Normal", "Suspicious", "Challenge", "Block"}

Expired(s) == clock - s.start > Window

(* The escalation: the flood test first, then the score from the top.      *)
Escalate(score, count) ==
    IF count > MaxRequests \/ score >= Block THEN "Block"
    ELSE IF score >= Challenge THEN "Challenge"
    ELSE IF score >= Warn THEN "Suspicious"
    ELSE "Normal"

(* What SessionState::new(0) and the reset of lines 123-128 leave.  The    *)
(* first counts a request that record then counts again.                   *)
New == [score |-> 0, count |-> 1, start |-> clock]
Reset == [score |-> 0, count |-> 0, start |-> clock]

(* Mutant of Opened: the reset does not wait for the window's end.         *)
OpenedAfresh(i) == IF session[i] = NoSession THEN New ELSE Reset

(* Mutant of Opened: the window is never reset.                            *)
OpenedWithoutReset(i) == IF session[i] = NoSession THEN New ELSE session[i]

(* Mutant of Opened: the window is reset one unit early.                   *)
OpenedTooEarly(i) ==
    IF session[i] = NoSession THEN New
    ELSE IF clock - session[i].start >= Window THEN Reset
    ELSE session[i]

(* The entry record works on: a new one, a reset one or the old one.       *)
Opened(i) ==
    IF session[i] = NoSession THEN New
    ELSE IF Expired(session[i]) THEN Reset
    ELSE session[i]

-----------------------------------------------------------------------------
Init ==
    /\ clock = 0
    /\ session = [i \in Ips |-> NoSession]
    /\ log = <<>>

(* or_insert_with, reset, add (unchecked u32 additions), escalate.         *)
Record(i, s) ==
    LET e == [score |-> (Opened(i).score + s) % Modulus,
              count |-> (Opened(i).count + 1) % Modulus,
              start |-> Opened(i).start]
    IN
    /\ Len(log) < MaxRecords
    /\ session' = [session EXCEPT ![i] = e]
    /\ log' = Append(log, [ip |-> i, at |-> clock, score |-> s, entry |-> e,
                           action |-> Escalate(e.score, e.count)])
    /\ UNCHANGED clock

PurgeExpired ==
    /\ session' = [i \in Ips |->
                     IF session[i] # NoSession /\ Expired(session[i])
                     THEN NoSession ELSE session[i]]
    /\ session' # session
    /\ UNCHANGED <<clock, log>>

Tick ==
    /\ clock < MaxClock
    /\ clock' = clock + 1
    /\ UNCHANGED <<session, log>>

Next ==
    \/ \E i \in Ips, s \in Scores : Record(i, s)
    \/ PurgeExpired
    \/ Tick

Spec == Init /\ [][Next]_vars

-----------------------------------------------------------------------------
TypeOK ==
    /\ clock \in 0 .. MaxClock
    /\ session \in [Ips -> Entries \cup {NoSession}]
    /\ log \in Seq([ip : Ips, at : 0 .. MaxClock, score : Scores, entry : Entries,
                    action : Actions])

(* The records of client i made in the Window up to the n-th record.       *)
Sliding(i, n) == {k \in 1 .. n : log[k].ip = i /\ log[n].at - log[k].at <= Window}

Total(S) == MapThenSumSet(LAMBDA k : log[k].score, S)

(* No client is escalated for what it did more than a window ago: a        *)
(* Challenge or Block rests on the scores (or, for Block, the number) of   *)
(* the client's flagged requests of the last Window alone (lines 123-146). *)
(* The flood test may come one request early, see FloodAfterMaxRequests.   *)
EscalationEarned ==
    \A n \in 1 .. Len(log) :
        LET S == Sliding(log[n].ip, n) IN
        /\ log[n].action = "Challenge" => Total(S) >= Challenge
        /\ log[n].action = "Block" =>
             Total(S) >= Block \/ Cardinality(S) >= MaxRequests

(* What the tumbling window of lines 123-128 still guarantees: a client    *)
(* cannot collect twice the block threshold, nor twice the flood limit,    *)
(* within any Window without having been answered Block on the way, for    *)
(* any Window meets at most two of the tracker's windows.                  *)
TwiceTheThresholdIsCaught ==
    \A n \in 1 .. Len(log) :
        LET S == Sliding(log[n].ip, n) IN
        (Total(S) >= 2 * Block - 1 \/ Cardinality(S) > 2 * MaxRequests) =>
            \E k \in S : log[k].action = "Block"

(* How severe an answer is.                                                *)
Rank == [Normal |-> 0, Suspicious |-> 1, Challenge |-> 2, Block |-> 3]

(* Within one window of the tracker the escalation never steps back: once  *)
(* a client is answered Challenge or Block it is not treated more mildly   *)
(* before the window has expired.  The unchecked additions of lines        *)
(* 130-131 would break it at the width of u32, a reset on anything but     *)
(* expiry would break it anywhere.                                         *)
NoStepBack ==
    \A n \in 1 .. Len(log) : \A k \in 1 .. n - 1 :
        log[k].ip = log[n].ip /\ Rank[log[n].action] < Rank[log[k].action] =>
            \E m \in k + 1 .. n, j \in 1 .. k :
                /\ log[m].ip = log[n].ip /\ log[j].ip = log[n].ip
                /\ log[m].at - log[j].at > Window
                /\ log[n].at - log[m].at <= Window

(* max_requests is the number of "requests per window before flood-block"  *)
(* (config.yml:58): a Block that the scores do not call for comes after    *)
(* more than that many requests.  A session opened by SessionState::new    *)
(* starts its count at 1 (line 82) and record adds 1 for the same request  *)
(* (line 131), so the Block comes one request early.                       *)
FloodAfterMaxRequests ==
    \A n \in 1 .. Len(log) :
        LET S == Sliding(log[n].ip, n) IN
        log[n].action = "Block" /\ Total(S) < Block =>
            Cardinality(S) > MaxRequests

(* What the module comment says (lines 6 and 12, "sliding time window"):   *)
(* the answer is Block whenever the client's scores of the last Window     *)
(* reach the threshold.  The code's window tumbles, so a client whose      *)
(* scores straddle a reset is answered more mildly.                        *)
SlidingWindow ==
    \A n \in 1 .. Len(log) :
        Total(Sliding(log[n].ip, n)) >= Block => log[n].action = "Block"
=============================================================================
