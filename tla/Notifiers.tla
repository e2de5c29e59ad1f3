----------------------------- MODULE Notifiers -----------------------------
(***************************************************************************)
(* The notifiers (Dome/dome-rs/src/notifiers.rs) among the tasks of the    *)
(* Tokio runtime.                                                          *)
(*                                                                         *)
(* dispatch spawns a task for each alert, which goes through the sinks one *)
(* after another.  At an await a task gives its worker thread back; the    *)
(* UDP syslog sender has none: it looks the host up and sends on the       *)
(* worker itself.  A request's handler needs a worker to run, as an alert  *)
(* does for each of its steps: "never block proxy path" (line 2) holds     *)
(* only while fewer such senders are at work than there are workers.       *)
(*                                                                         *)
(* Time limits (5 s of the HTTP client, 3 s of the TCP connect) show as    *)
(* what they bring about: every call returns in the end, delivered or not. *)
(***************************************************************************)
EXTENDS Integers, Sequences, FiniteSets, SequencesExt

CONSTANTS
    Requests,
    Workers,        \* number of worker threads
    Settings,       \* configurations: per sink Off or its min_action
    Off,
    MaxRestarts     \* bound

ASSUME WorkersAssumption == Workers \in Nat \ {0}
ASSUME RestartsAssumption == MaxRestarts \in Nat

Sinks == <<"discord", "webhook", "tcp", "udp">>
Actions == {"LOG", "CHALLENGE", "BLOCK"}

VARIABLES
    config,         \* NotificationsConfig
    action,         \* per request: what the handler tells
    handler,        \* per request: idle, ready, answered
    alert,          \* per request: its alert's task
    at,             \* per alert: index of the sink it is at
    tried,          \* per alert: the sinks it has called
    got,            \* per alert: the sinks that have received it
    restarts

vars == <<config, action, handler, alert, at, tried, got, restarts>>

Stages == {"none", "runnable", "waiting", "blocking", "done", "lost"}

Init ==
    /\ config \in Settings
    /\ action \in [Requests -> Actions]
    /\ handler = [r \in Requests |-> "idle"]
    /\ alert = [r \in Requests |-> "none"]
    /\ at = [r \in Requests |-> 1]
    /\ tried = [r \in Requests |-> <<>>]
    /\ got = [r \in Requests |-> {}]
    /\ restarts = 0

(* action_order: a word it does not know counts as BLOCK.                  *)
ActionOrder(a) == CASE a = "ALLOW" -> 0 [] a \in {"LOG", "CHALLENGE"} -> 1 [] OTHER -> 2

ShouldSend(a, min) == ActionOrder(a) >= ActionOrder(min)

(* A worker that is not held by a call that blocks.                        *)
Free == Cardinality({r \in Requests : alert[r] = "blocking"}) < Workers

SetAlert(r, stage) == alert' = [alert EXCEPT ![r] = stage]

Arrive(r) ==
    /\ handler[r] = "idle"
    /\ handler' = [handler EXCEPT ![r] = "ready"]
    /\ UNCHANGED <<config, action, alert, at, tried, got, restarts>>

(* Mutant of Answer: the alert's future is made and never spawned.         *)
AnswerUnspawned(r) ==
    /\ handler[r] = "ready" /\ Free
    /\ handler' = [handler EXCEPT ![r] = "answered"]
    /\ UNCHANGED <<config, action, alert, at, tried, got, restarts>>

(* The handler runs on a free worker: dispatch spawns the alert's task.    *)
Answer(r) ==
    /\ handler[r] = "ready" /\ Free
    /\ handler' = [handler EXCEPT ![r] = "answered"]
    /\ SetAlert(r, "runnable")
    /\ UNCHANGED <<config, action, at, tried, got, restarts>>

(* The alert is at its next sink: it leaves a sink out that is not         *)
(* configured or asks for more; it awaits the others, but for UDP syslog.  *)
Step(r) ==
    LET sink == Sinks[at[r]]
    IN  /\ alert[r] = "runnable" /\ Free
        /\ IF config[sink] # Off /\ ShouldSend(action[r], config[sink])
           THEN /\ SetAlert(r, IF sink = "udp" THEN "blocking" ELSE "waiting")
                /\ tried' = [tried EXCEPT ![r] = Append(@, sink)]
                /\ UNCHANGED at
           ELSE /\ IF at[r] = Len(Sinks) THEN SetAlert(r, "done") /\ UNCHANGED at
                   ELSE at' = [at EXCEPT ![r] = @ + 1] /\ UNCHANGED alert
                /\ UNCHANGED tried
        /\ UNCHANGED <<config, action, handler, got, restarts>>

(* On to the next sink, or the end of the task.                            *)
Proceed(r) ==
    IF at[r] = Len(Sinks) THEN SetAlert(r, "done") /\ UNCHANGED at
    ELSE SetAlert(r, "runnable") /\ at' = [at EXCEPT ![r] = @ + 1]

(* The sink has the alert: the call returns, or its time limit comes first. *)
Delivered(r) ==
    /\ alert[r] \in {"waiting", "blocking"}
    /\ got' = [got EXCEPT ![r] = @ \cup {Sinks[at[r]]}]
    /\ Proceed(r)
    /\ UNCHANGED <<config, action, handler, tried, restarts>>

(* Mutant of Failed: an error ends the task.                               *)
FailedForGood(r) ==
    /\ alert[r] \in {"waiting", "blocking"}
    /\ SetAlert(r, "done")
    /\ UNCHANGED <<config, action, handler, at, tried, got, restarts>>

(* The call fails or runs into its time limit: a warning, and on.          *)
Failed(r) ==
    /\ alert[r] \in {"waiting", "blocking"}
    /\ Proceed(r)
    /\ UNCHANGED <<config, action, handler, tried, got, restarts>>

(* The process ends and starts again: handlers and tasks are lost.         *)
Restart ==
    /\ restarts < MaxRestarts
    /\ restarts' = restarts + 1
    /\ handler' = [r \in Requests |-> IF handler[r] = "ready" THEN "lost" ELSE handler[r]]
    /\ alert' = [r \in Requests |-> IF alert[r] \in {"none", "done"} THEN alert[r] ELSE "lost"]
    /\ UNCHANGED <<config, action, at, tried, got>>

Next ==
    \/ \E r \in Requests : Arrive(r) \/ Answer(r) \/ Step(r) \/ Delivered(r) \/ Failed(r)
    \/ Restart

(* The runtime gets round to every runnable task and every call returns:   *)
(* the time limits see to it, and the resolver's own for UDP.              *)
Spec == Init /\ [][Next]_vars
             /\ \A r \in Requests : WF_vars(Answer(r)) /\ WF_vars(Step(r))
                                    /\ WF_vars(Delivered(r) \/ Failed(r))

-----------------------------------------------------------------------------
TypeOK ==
    /\ handler \in [Requests -> {"idle", "ready", "answered", "lost"}]
    /\ alert \in [Requests -> Stages]
    /\ at \in [Requests -> 1 .. Len(Sinks)]
    /\ \A r \in Requests : tried[r] \in Seq(Range(Sinks)) /\ got[r] \subseteq Range(tried[r])
    /\ restarts \in 0 .. MaxRestarts

(* "fire-and-forget: spawned as Tokio tasks, never block proxy path"       *)
(* (line 2): a handler that could run has a worker to run on.  The UDP     *)
(* sender (lines 100-133) holds its worker while it looks the host up, and *)
(* as many of them as there are workers stop every request.                *)
ProxyPathNeverBlocked == \A r \in Requests : handler[r] = "ready" => Free

(* What a sink is configured to hear of.                                   *)
Hears(min) == IF min \in {"ALLOW", "LOG", "CHALLENGE"} THEN Actions ELSE {"BLOCK"}
Wanted(r) == {s \in Range(Sinks) : config[s] # Off /\ action[r] \in Hears(config[s])}
Place(s) == CHOOSE i \in DOMAIN Sinks : Sinks[i] = s

(* An alert calls the sinks that want it, each once and in their order,    *)
(* and all of them by its end, whatever becomes of the calls before.       *)
FailureDoesNotSuppress ==
    \A r \in Requests :
        /\ Range(tried[r]) \subseteq Wanted(r)
        /\ \A i, j \in DOMAIN tried[r] : i < j => Place(tried[r][i]) < Place(tried[r][j])
        /\ alert[r] = "done" => Range(tried[r]) = Wanted(r)

(* Unless the process ends, every request is answered and its alert comes  *)
(* to an end: a resolver that is slow delays requests, it does not keep    *)
(* them forever.                                                           *)
Served == \A r \in Requests :
            handler[r] = "ready" ~> handler[r] = "lost" \/ alert[r] \in {"done", "lost"}
=============================================================================
