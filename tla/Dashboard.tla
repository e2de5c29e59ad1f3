----------------------------- MODULE Dashboard -----------------------------
(***************************************************************************)
(* The admin dashboard and the mode it shows and sets                      *)
(* (Dome/dome-rs/src/dashboard.rs), next to the mode by which the engine   *)
(* decides (Dome/dome-rs/src/engine/mod.rs:273).                           *)
(*                                                                         *)
(* A page asks for the statistics every three seconds without waiting for  *)
(* the last answer: calls overlap, may be answered and may arrive in any   *)
(* order, and may fail.  A call is a message: first on its way to the      *)
(* server, then, with the mode it was answered with, on its way back.      *)
(***************************************************************************)
EXTENDS Integers, FiniteSets

CONSTANTS
    Starts,         \* waf.mode as the configuration may write it, unchecked
    Pages,          \* browser pages that show the dashboard
    Slots,          \* bound: calls that a page has on their way at a time
    MaxToggles,     \* bound: clicks on the mode button, all pages together
    MaxFailures     \* bound: calls that fail

Modes == {"block", "detect"}
Words == Modes \cup {"DETECT", "off"}   \* what a caller of the API may write
Unknown == "none"   \* the badge before the first answer (a dash)

(* str::to_lowercase, and the page's upper and lower case of what it shows. *)
Lowercase(w) == IF w = "DETECT" THEN "detect" ELSE w

VARIABLES
    start,          \* waf.mode of the configuration
    mode,           \* DashState.mode
    badge,          \* per page: what it shows
    call,           \* per page and slot: the call in it
    toggles, failures,
    decision        \* how the engine treated the last request to be blocked

vars == <<start, mode, badge, call, toggles, failures, decision>>

NoCall == [kind |-> "none"]
Get == [kind |-> "get"]
Post(m) == [kind |-> "post", mode |-> m]
Stats(m) == [kind |-> "stats", mode |-> m]
Done == [kind |-> "done"]

Calls == {NoCall, Get, Done} \cup {Post(w) : w \in Words} \cup {Stats(w) : w \in Words}

(* main: the engine gets a copy of the mode, the dashboard another one.    *)
Init ==
    /\ start \in Starts
    /\ mode = start
    /\ badge = [p \in Pages |-> Unknown]
    /\ call = [p \in Pages |-> [s \in Slots |-> NoCall]]
    /\ toggles = 0 /\ failures = 0
    /\ decision = "none"

SetCall(p, s, c) == call' = [call EXCEPT ![p][s] = c]

(* fetchStats, at load and by the timer.                                   *)
Refresh(p, s) ==
    /\ call[p][s] = NoCall
    /\ SetCall(p, s, Get)
    /\ UNCHANGED <<start, mode, badge, toggles, failures, decision>>

(* toggleMode: the other mode than the badge shows; before the first       *)
(* answer that is "block".                                                 *)
Click(p, s) ==
    /\ call[p][s] = NoCall /\ toggles < MaxToggles
    /\ SetCall(p, s, Post(IF badge[p] = "block" THEN "detect" ELSE "block"))
    /\ toggles' = toggles + 1
    /\ UNCHANGED <<start, mode, badge, failures, decision>>

(* api_stats: the mode is read under its lock.                             *)
ApiStats(p, s) ==
    /\ call[p][s] = Get
    /\ SetCall(p, s, Stats(mode))
    /\ UNCHANGED <<start, mode, badge, toggles, failures, decision>>

(* A caller of the API without the page.                                   *)
PostByHand(p, s) ==
    /\ call[p][s] = NoCall /\ toggles < MaxToggles
    /\ \E w \in Words \ Modes : SetCall(p, s, Post(w))
    /\ toggles' = toggles + 1
    /\ UNCHANGED <<start, mode, badge, failures, decision>>

(* api_set_mode: validated in lower case, then written under the lock.     *)
ApiSetMode(p, s) ==
    /\ call[p][s].kind = "post"
    /\ LET m == Lowercase(call[p][s].mode)
       IN  mode' = IF m \in Modes THEN m ELSE mode
    /\ SetCall(p, s, Done)
    /\ UNCHANGED <<start, badge, toggles, failures, decision>>

(* Mutant of ShowStats: the badge keeps what it has shown first.           *)
ShowStatsOnce(p, s) ==
    /\ call[p][s].kind = "stats"
    /\ badge' = [badge EXCEPT ![p] = IF @ = Unknown THEN Lowercase(call[p][s].mode) ELSE @]
    /\ SetCall(p, s, NoCall)
    /\ UNCHANGED <<start, mode, toggles, failures, decision>>

(* The answer has arrived: the badge shows its mode.                       *)
ShowStats(p, s) ==
    /\ call[p][s].kind = "stats"
    /\ badge' = [badge EXCEPT ![p] = Lowercase(call[p][s].mode)]
    /\ SetCall(p, s, NoCall)
    /\ UNCHANGED <<start, mode, toggles, failures, decision>>

(* The answer to the button has arrived: the page asks for the statistics. *)
AfterSetMode(p, s) ==
    /\ call[p][s] = Done
    /\ SetCall(p, s, Get)
    /\ UNCHANGED <<start, mode, badge, toggles, failures, decision>>

(* A call fails on its way; the page catches it and changes nothing.       *)
Fail(p, s) ==
    /\ call[p][s] # NoCall /\ failures < MaxFailures
    /\ failures' = failures + 1
    /\ SetCall(p, s, NoCall)
    /\ UNCHANGED <<start, mode, badge, toggles, decision>>

(* decide_action of a request that rules have matched.                     *)
Decide ==
    /\ decision' = IF start = "detect" THEN "Log" ELSE "Block"
    /\ UNCHANGED <<start, mode, badge, call, toggles, failures>>

Handle(p, s) == ApiStats(p, s) \/ ApiSetMode(p, s) \/ ShowStats(p, s) \/ AfterSetMode(p, s)

Next ==
    \/ \E p \in Pages, s \in Slots : Refresh(p, s) \/ Click(p, s) \/ PostByHand(p, s)
                                  \/ Handle(p, s) \/ Fail(p, s)
    \/ Decide

(* The timer goes on, and a call that does not fail is answered and        *)
(* arrives.                                                                *)
Spec == Init /\ [][Next]_vars
             /\ \A p \in Pages, s \in Slots : WF_vars(Refresh(p, s)) /\ WF_vars(Handle(p, s))

-----------------------------------------------------------------------------
(* Types; a page shows nothing but a mode the server has had.              *)
TypeOK ==
    /\ start \in Starts /\ mode \in Modes \cup {start}
    /\ badge \in [Pages -> Modes \cup {Unknown}]
    /\ call \in [Pages -> [Slots -> Calls]]
    /\ toggles \in 0 .. MaxToggles /\ failures \in 0 .. MaxFailures
    /\ decision \in {"none", "Log", "Block"}

(* However refreshes overlap, fail and overtake each other: once the       *)
(* administrators leave the button alone, all pages show the mode.         *)
BadgesConverge == <>[](\A p \in Pages : badge[p] = Lowercase(mode))

(* The mode of the dashboard is the one by which requests are decided.     *)
DecisionFollowsMode == [][decision' # decision => decision' = IF mode = "detect" THEN "Log" ELSE "Block"]_vars
=============================================================================
