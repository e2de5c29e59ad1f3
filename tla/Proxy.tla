------------------------------- MODULE Proxy -------------------------------
(***************************************************************************)
(* The reverse proxy (Dome/dome-rs/src/proxy.rs): what becomes of a        *)
(* request between the client, the inspection, the upstream server, the    *)
(* log file, the statistics and the notifiers.                             *)
(*                                                                         *)
(* A request is a process; an action runs to the next await of its task,   *)
(* or to the next write to something that others can see:                  *)
(*                                                                         *)
(*   Visit, Follow   the client sends it; handle looks at its token        *)
(*   Inspect         the body has been read; Engine::inspect; log          *)
(*   Publish         notifiers.dispatch, stats.record; then the answer or  *)
(*                   the way to forward                                    *)
(*   Send            forward: the body has been read, upstream is called   *)
(*   UpstreamAnswers, UpstreamFails   the call returns; log                *)
(*   Count           stats.record of what upstream did                     *)
(*   Deliver         the response's body has been read, inspected for      *)
(*                   leaks and handed to the client                        *)
(*   HangUp          the client goes away: the task is dropped at its await *)
(*   Restart         the process ends and starts again                     *)
(*                                                                         *)
(* Verdicts are chosen by the environment: Engine models how they come     *)
(* about.  The file is append-only; its lines, the records and the alerts  *)
(* are grouped here by the request that caused them.                       *)
(***************************************************************************)
EXTENDS Challenge

CONSTANTS
    Requests,
    Contents,       \* what a body may hold: "over" cannot be read, "binary" is
                    \* not UTF-8
    ChallengeSettings,  \* values of challenge_enabled to explore
    MaxRestarts,    \* bound
    None

ASSUME ProxyAssumption ==
    /\ "none" \in Contents
    /\ ChallengeSettings \subseteq BOOLEAN
    /\ MaxRestarts \in Nat
    /\ None \notin Contents \cup {"replaced"}
    /\ None \notin {"Allow", "Log", "Challenge", "Block", "Token"}
    /\ None \notin {"page", "403", "500", "502", "upstream"}
ASSUME RequestsAssumption == IsFiniteSet(Requests)

VARIABLES
    challengeOn,    \* AppState.challenge_enabled
    pc, addr, url,  \* per request: stage, client address, tokens in its URL
    body,           \* the body the client sends
    verdict,        \* what decided: an Action, "Token", or None
    held,           \* the bytes of the body that were read
    seen,           \* the text of the body that was inspected
    sent,           \* the bytes that upstream got
    lines,          \* its lines in the log file
    counted,        \* its records in the statistics
    alerts,         \* its notifications
    answer,         \* what the client got
    restarts

request == <<addr, url, body>>
reports == <<lines, counted, alerts>>
vars == <<challengeOn, pc, request, verdict, held, seen, sent, reports, answer, restarts>>

Awaiting == {"body", "forward", "upstream", "collect"}
Running == {"publish", "count"}
Pcs == Awaiting \cup Running \cup {"idle", "done", "gone"}
Classes == {"ALLOW", "LOG", "CHALLENGE", "BLOCK", "ERROR", "DLP"}
Answers == {"page", "403", "500", "502", "upstream"}
Verdicts == {"Allow", "Log", "Block"} \cup (IF challengeOn THEN {"Challenge"} ELSE {})

ClassOf == [Log |-> "LOG", Challenge |-> "CHALLENGE", Block |-> "BLOCK"]

(* axum::body::to_bytes with body_limit: a body over the limit, or one     *)
(* that breaks off, counts as an empty one.                                *)
Read(content) == IF content = "over" THEN "none" ELSE content

(* String::from_utf8_lossy: what is not UTF-8 becomes U+FFFD.              *)
Lossy(content) == IF content = "binary" THEN "replaced" ELSE content

Init ==
    /\ challengeOn \in ChallengeSettings
    /\ pc = [r \in Requests |-> "idle"]
    /\ addr \in [Requests -> Addresses]
    /\ url = [r \in Requests |-> <<>>]
    /\ body \in [Requests -> Contents]
    /\ verdict = [r \in Requests |-> None]
    /\ held = [r \in Requests |-> None]
    /\ seen = [r \in Requests |-> None]
    /\ sent = [r \in Requests |-> None]
    /\ lines = [r \in Requests |-> <<>>]
    /\ counted = [r \in Requests |-> <<>>]
    /\ alerts = [r \in Requests |-> <<>>]
    /\ answer = [r \in Requests |-> None]
    /\ restarts = 0

Goto(r, stage) == pc' = [pc EXCEPT ![r] = stage]
Add(log, r, class) == [log EXCEPT ![r] = Append(@, class)]
Finish(r, what) == Goto(r, "done") /\ answer' = [answer EXCEPT ![r] = what]

(* The start of handle: a valid token goes past the inspection.            *)
Handle(r, u) ==
    /\ pc[r] = "idle"
    /\ url' = [url EXCEPT ![r] = u]
    /\ IF challengeOn /\ Passes(u, addr[r])
       THEN Goto(r, "forward") /\ verdict' = [verdict EXCEPT ![r] = "Token"]
       ELSE Goto(r, "body") /\ UNCHANGED verdict
    /\ UNCHANGED <<challengeOn, addr, body, held, seen, sent, reports, answer, restarts>>

(* A client opens a page: a fresh URL, or one that was used before, by     *)
(* itself or from another address.                                         *)
Visit(r) == \E u \in {<<>>} \cup {url[q] : q \in {p \in Requests : pc[p] = "done"}} :
                Handle(r, u)

(* The script on the challenge page of q has found its nonce and goes back *)
(* to where q came from; by then the client may have another address.      *)
Follow(r) == \E q \in {p \in Requests : answer[p] = "page"} :
                Handle(r, Redirect(url[q], addr[q]))

(* Mutant of Inspect: the body is inspected as it was sent.                *)
InspectWithoutLimit(r) ==
    /\ pc[r] = "body"
    /\ \E v \in Verdicts :
         /\ verdict' = [verdict EXCEPT ![r] = v]
         /\ IF v = "Allow" THEN Goto(r, "forward") /\ UNCHANGED lines
            ELSE /\ lines' = Add(lines, r, ClassOf[v])
                 /\ Goto(r, "publish")
    /\ held' = [held EXCEPT ![r] = Read(body[r])]
    /\ seen' = [seen EXCEPT ![r] = Lossy(body[r])]
    /\ UNCHANGED <<challengeOn, request, sent, counted, alerts, answer, restarts>>

(* The body is read, the request inspected, and a verdict other than Allow *)
(* written to the file.                                                    *)
Inspect(r) ==
    /\ pc[r] = "body"
    /\ \E v \in Verdicts :
         /\ verdict' = [verdict EXCEPT ![r] = v]
         /\ IF v = "Allow" THEN Goto(r, "forward") /\ UNCHANGED lines
            ELSE /\ lines' = Add(lines, r, ClassOf[v])
                 /\ Goto(r, "publish")
    /\ held' = [held EXCEPT ![r] = Read(body[r])]
    /\ seen' = [seen EXCEPT ![r] = Lossy(Read(body[r]))]
    /\ UNCHANGED <<challengeOn, request, sent, counted, alerts, answer, restarts>>

(* Mutant of Publish: the notifiers hear only of what is answered here.    *)
PublishQuietly(r) ==
    /\ pc[r] = "publish"
    /\ alerts' = IF verdict[r] = "Log" THEN alerts ELSE Add(alerts, r, ClassOf[verdict[r]])
    /\ counted' = Add(counted, r, ClassOf[verdict[r]])
    /\ CASE verdict[r] = "Log" -> Goto(r, "forward") /\ UNCHANGED answer
         [] verdict[r] = "Challenge" -> Finish(r, "page")
         [] verdict[r] = "Block" -> Finish(r, "403")
    /\ UNCHANGED <<challengeOn, request, verdict, held, seen, sent, lines, restarts>>

(* notifiers.dispatch and stats.record of a verdict other than Allow, and  *)
(* what follows from it: the page, the 403, or the way on.                 *)
Publish(r) ==
    /\ pc[r] = "publish"
    /\ alerts' = Add(alerts, r, ClassOf[verdict[r]])
    /\ counted' = Add(counted, r, ClassOf[verdict[r]])
    /\ CASE verdict[r] = "Log" -> Goto(r, "forward") /\ UNCHANGED answer
         [] verdict[r] = "Challenge" -> Finish(r, "page")
         [] verdict[r] = "Block" -> Finish(r, "403")
    /\ UNCHANGED <<challengeOn, request, verdict, held, seen, sent, lines, restarts>>

(* forward reads the body it is given: after an inspection the bytes that  *)
(* were read for it, with a token the body of the client.  A request that  *)
(* cannot be built is answered at once, with neither line nor record.      *)
Send(r) ==
    /\ pc[r] = "forward"
    /\ \/ /\ sent' = [sent EXCEPT ![r] = IF verdict[r] = "Token" THEN Read(body[r])
                                          ELSE Read(held[r])]
          /\ Goto(r, "upstream")
          /\ UNCHANGED answer
       \/ Finish(r, "500") /\ UNCHANGED sent
    /\ UNCHANGED <<challengeOn, request, verdict, held, seen, reports, restarts>>

(* Mutant of UpstreamAnswers: the hits were logged already.                *)
UpstreamAnswersOnce(r) ==
    /\ pc[r] = "upstream"
    /\ lines' = IF verdict[r] = "Log" THEN lines ELSE Add(lines, r, "ALLOW")
    /\ Goto(r, "count")
    /\ UNCHANGED <<challengeOn, request, verdict, held, seen, sent, counted, alerts, answer, restarts>>

(* The hits of a Log verdict come along; a token comes with none.          *)
UpstreamAnswers(r) ==
    /\ pc[r] = "upstream"
    /\ lines' = Add(lines, r, IF verdict[r] = "Log" THEN "LOG" ELSE "ALLOW")
    /\ Goto(r, "count")
    /\ UNCHANGED <<challengeOn, request, verdict, held, seen, sent, counted, alerts, answer, restarts>>

(* Mutant of UpstreamFails: the error is answered and not logged.          *)
UpstreamFailsSilently(r) ==
    /\ pc[r] = "upstream"
    /\ Finish(r, "502")
    /\ UNCHANGED <<challengeOn, request, verdict, held, seen, sent, reports, restarts>>

UpstreamFails(r) ==
    /\ pc[r] = "upstream"
    /\ lines' = Add(lines, r, "ERROR")
    /\ Goto(r, "count")
    /\ UNCHANGED <<challengeOn, request, verdict, held, seen, sent, counted, alerts, answer, restarts>>

(* Mutant of Count: what failed is sent again.                             *)
CountAndRetry(r) ==
    /\ pc[r] = "count"
    /\ IF Last(lines[r]) = "ERROR"
       THEN Goto(r, "upstream") /\ lines' = [lines EXCEPT ![r] = Front(@)] /\ UNCHANGED <<counted, answer>>
       ELSE Goto(r, "collect") /\ counted' = Add(counted, r, Last(lines[r])) /\ UNCHANGED <<lines, answer>>
    /\ UNCHANGED <<challengeOn, request, verdict, held, seen, sent, alerts, restarts>>

(* stats.record of what upstream did; a failure is answered at once.       *)
Count(r) ==
    /\ pc[r] = "count"
    /\ counted' = Add(counted, r, Last(lines[r]))
    /\ IF Last(lines[r]) = "ERROR" THEN Finish(r, "502")
                                   ELSE Goto(r, "collect") /\ UNCHANGED answer
    /\ UNCHANGED <<challengeOn, request, verdict, held, seen, sent, lines, alerts, restarts>>

(* Mutant of Deliver: a leak is counted like a verdict.                    *)
DeliverAndCount(r) ==
    /\ pc[r] = "collect"
    /\ \/ UNCHANGED reports
       \/ /\ lines' = Add(lines, r, "DLP") /\ alerts' = Add(alerts, r, "LOG")
          /\ counted' = Add(counted, r, "DLP")
    /\ Finish(r, "upstream")
    /\ UNCHANGED <<challengeOn, request, verdict, held, seen, sent, restarts>>

(* The response's body has been read; a leak in it is logged and notified, *)
(* not counted and not held back.                                          *)
Deliver(r) ==
    /\ pc[r] = "collect"
    /\ \/ UNCHANGED <<lines, alerts>>
       \/ lines' = Add(lines, r, "DLP") /\ alerts' = Add(alerts, r, "LOG")
    /\ Finish(r, "upstream")
    /\ UNCHANGED <<challengeOn, request, verdict, held, seen, sent, counted, restarts>>

(* The client closes its connection: the task is dropped at its await.     *)
HangUp(r) ==
    /\ pc[r] \in Awaiting
    /\ Goto(r, "gone")
    /\ UNCHANGED <<challengeOn, request, verdict, held, seen, sent, reports, answer, restarts>>

(* The process ends, at any point, and is started again: the file is all   *)
(* that stays.                                                             *)
Restart ==
    /\ restarts < MaxRestarts
    /\ restarts' = restarts + 1
    /\ pc' = [r \in Requests |-> IF pc[r] \in {"idle", "done"} THEN pc[r] ELSE "gone"]
    /\ counted' = [r \in Requests |-> <<>>]
    /\ alerts' = [r \in Requests |-> <<>>]
    /\ UNCHANGED <<challengeOn, request, verdict, held, seen, sent, lines, answer>>

(* What waits for nobody: the runtime polls the task until its next await. *)
Own(r) == Publish(r) \/ (verdict[r] # "Token" /\ Send(r)) \/ Count(r)

(* What the client and upstream have a part in: the body arrives, the call *)
(* returns, the response's body arrives.  No line of the code ends such an *)
(* await: upstream_timeout_secs is read nowhere.                           *)
Outside(r) ==
    \/ Inspect(r) \/ (verdict[r] = "Token" /\ Send(r))
    \/ UpstreamAnswers(r) \/ UpstreamFails(r) \/ Deliver(r)

Next ==
    \/ \E r \in Requests :
          Visit(r) \/ Follow(r) \/ Own(r) \/ Outside(r) \/ HangUp(r)
    \/ Restart

(* Clients and upstream do as they like; the runtime serves every task.    *)
Spec == Init /\ [][Next]_vars /\ \A r \in Requests : WF_vars(Own(r))

-----------------------------------------------------------------------------
(* The variables keep their types; a URL never outgrows the requests.      *)
TypeOK ==
    /\ challengeOn \in BOOLEAN
    /\ pc \in [Requests -> Pcs]
    /\ addr \in [Requests -> Addresses]
    /\ \A r \in Requests : url[r] \in Seq(Tokens) /\ Len(url[r]) < Cardinality(Requests)
    /\ body \in [Requests -> Contents]
    /\ verdict \in [Requests -> Verdicts \cup {"Token", None}]
    /\ held \in [Requests -> Contents \cup {None}]
    /\ seen \in [Requests -> Contents \cup {"replaced", None}]
    /\ sent \in [Requests -> Contents \cup {None}]
    /\ \A r \in Requests : lines[r] \in Seq(Classes) /\ counted[r] \in Seq(Classes \ {"DLP"})
                            /\ alerts[r] \in Seq(Classes)
    /\ answer \in [Requests -> Answers \cup {None}]
    /\ restarts \in 0 .. MaxRestarts

(* What was inspected is the text of the very bytes that upstream gets,    *)
(* unless a token went around the inspection: the body is read twice       *)
(* (lines 87 and 164), a body over the limit is emptied at either place,   *)
(* and the text (line 91) is not what is sent on (lines 106 and 116).      *)
SameBody ==
    \A r \in Requests :
        sent[r] # None /\ Lossy(sent[r]) # seen[r] => verdict[r] = "Token" /\ challengeOn

(* The lines of r that tell of a verdict or of upstream: all but that of a *)
(* leak, which can only come last.                                         *)
Leaked(r) == lines[r] # <<>> /\ Last(lines[r]) = "DLP"
Told(r) == IF Leaked(r) THEN Front(lines[r]) ELSE lines[r]

(* The file is never behind the counters the dashboard shows, and ahead of *)
(* them by at most one line of each request, whenever the process ends.    *)
FileAhead ==
    \A r \in Requests :
        /\ IsPrefix(counted[r], Told(r))
        /\ pc[r] \notin {"done", "gone"} => Len(Told(r)) - Len(counted[r]) \in {0, 1}
        /\ pc[r] = "done" /\ restarts = 0 => counted[r] = Told(r)

(* The file tells what the client got: an answer without a line is the     *)
(* 500 of a request that could not be built, and what upstream executed is *)
(* in the file unless the client or the process left before it answered.   *)
FileTellsAnswer ==
    \A r \in Requests :
        /\ Told(r) = <<>> => answer[r] \in {None, "500"}
        /\ answer[r] # None =>
              (sent[r] # None) = (Told(r) # <<>> /\ (Last(Told(r)) \in {"ALLOW", "ERROR"} \/ Len(Told(r)) = 2))
        /\ answer[r] = "502" <=> answer[r] # None /\ "ERROR" \in Range(Told(r))

(* Every verdict but Allow and every leak is notified exactly once, the    *)
(* second line of a Log verdict is not; nothing else is notified.          *)
EachNotifiedOnce ==
    \A r \in Requests : pc[r] = "done" /\ restarts = 0 =>
        Len(alerts[r]) = (IF verdict[r] \in {"Allow", "Token"} THEN 0 ELSE 1)
                         + (IF Leaked(r) THEN 1 ELSE 0)

(* A token the script made for this client, at the front of the URL, is    *)
(* accepted: bits of the script (DIFFICULTY) and hex digits of             *)
(* verify_token ask for the same.                                          *)
OwnTokenPasses ==
    \A r \in Requests :
        pc[r] # "idle" /\ challengeOn /\ url[r] # <<>> /\ Head(url[r]).c = addr[r]
            => verdict[r] = "Token" /\ seen[r] = None

(* If the client and upstream play their part, every request is answered:  *)
(* a failed call is answered and never repeated, and no answer waits for   *)
(* another request.                                                        *)
AnsweredWhenServed ==
    (\A r \in Requests : WF_vars(Outside(r)))
        => \A r \in Requests : pc[r] # "idle" ~> pc[r] \in {"done", "gone"}

(* "upstream_timeout_secs" (config.rs:28, config.yml:5): a call to upstream*)
(* ends.  The setting is read nowhere, and nothing else ends the call.     *)
UpstreamCallEnds == \A r \in Requests : pc[r] = "upstream" ~> pc[r] # "upstream"

(* A browser that has solved the challenge of its client is let through    *)
(* ("redirect back to the original URL with a token", challenge.rs:4-6).   *)
SolvedChallengePasses ==
    \A r \in Requests :
        pc[r] # "idle" /\ url[r] # <<>> /\ Last(url[r]).c = addr[r] => verdict[r] = "Token"
=============================================================================
