-------------------------- MODULE NotifiersProofs --------------------------
(***************************************************************************)
(* Proofs about Notifiers for every set of requests, every configuration   *)
(* and every number of workers: an alert calls the sinks that want it,     *)
(* each once and in order.                                                 *)
(***************************************************************************)
EXTENDS Notifiers, TLAPS

-----------------------------------------------------------------------------
(* The four sinks are different.                                           *)
LEMMA Places ==
    /\ DOMAIN Sinks = 1 .. 4 /\ Len(Sinks) = 4
    /\ \A i \in 1 .. 4 : Sinks[i] \in Range(Sinks) /\ Place(Sinks[i]) = i
    /\ \A s \in Range(Sinks) : Place(s) \in 1 .. 4 /\ Sinks[Place(s)] = s
<1>1. DOMAIN Sinks = 1 .. 4 /\ Len(Sinks) = 4
    BY DEF Sinks
<1>2. \A i, j \in 1 .. 4 : Sinks[i] = Sinks[j] => i = j
    BY DEF Sinks
<1>3. ASSUME NEW i \in 1 .. 4 PROVE Sinks[i] \in Range(Sinks) /\ Place(Sinks[i]) = i
    BY <1>1, <1>2 DEF Place, Range
<1>4. \A s \in Range(Sinks) : \E i \in 1 .. 4 : s = Sinks[i]
    BY <1>1 DEF Range
<1> QED
    BY <1>1, <1>3, <1>4

(* action_order compares as Hears says, whatever word min is.              *)
LEMMA SendsWhatItHears ==
    ASSUME NEW a \in Actions, NEW min
    PROVE  ShouldSend(a, min) <=> a \in Hears(min)
<1>1. ActionOrder(a) = (IF a = "BLOCK" THEN 2 ELSE 1)
    BY DEF Actions, ActionOrder
<1>2. CASE min = "ALLOW"
    BY <1>1, <1>2 DEF ShouldSend, Hears, ActionOrder, Actions
<1>3. CASE min \in {"LOG", "CHALLENGE"}
    BY <1>1, <1>3 DEF ShouldSend, Hears, ActionOrder, Actions
<1>4. CASE min \notin {"ALLOW", "LOG", "CHALLENGE"}
    <2>1. ActionOrder(min) = 2
        BY <1>4 DEF ActionOrder
    <2> QED
        BY <1>1, <1>4, <2>1 DEF ShouldSend, Hears, Actions
<1> QED
    BY <1>2, <1>3, <1>4

LEMMA AppendRange ==
    ASSUME NEW S, NEW t \in Seq(S), NEW x \in S
    PROVE  /\ Append(t, x) \in Seq(S)
           /\ Range(Append(t, x)) = Range(t) \cup {x}
<1>1. Append(t, x) \in Seq(S) /\ Len(Append(t, x)) = Len(t) + 1
    OBVIOUS
<1>2. \A i \in 1 .. Len(t) : Append(t, x)[i] = t[i]
    OBVIOUS
<1>3. Append(t, x)[Len(t) + 1] = x
    OBVIOUS
<1>4. DOMAIN t = 1 .. Len(t) /\ DOMAIN Append(t, x) = 1 .. Len(t) + 1 /\ Len(t) \in Nat
    BY <1>1
<1> QED
    BY <1>1, <1>2, <1>3, <1>4 DEF Range

-----------------------------------------------------------------------------
(* The inductive invariant: types, and for each alert how far it has come  *)
(* through its sinks.                                                      *)

Types ==
    /\ action \in [Requests -> Actions]
    /\ handler \in [Requests -> {"idle", "ready", "answered", "lost"}]
    /\ alert \in [Requests -> Stages]
    /\ at \in [Requests -> 1 .. 4]
    /\ tried \in [Requests -> Seq(Range(Sinks))]
    /\ got \in [Requests -> SUBSET Range(Sinks)]
    /\ restarts \in 0 .. MaxRestarts


Ordered(t) == \A i, j \in DOMAIN t : i < j => Place(t[i]) < Place(t[j])

(* The sinks of r up to place n that want its alert.                       *)
WantedTo(r, n) == {s \in Wanted(r) : Place(s) <= n}

Progress(r) ==
    /\ handler[r] \in {"idle", "ready"} => alert[r] = "none"
    /\ alert[r] = "none" => tried[r] = <<>> /\ at[r] = 1
    /\ alert[r] = "runnable" => Range(tried[r]) = WantedTo(r, at[r] - 1)
    /\ alert[r] \in {"waiting", "blocking"} =>
          Range(tried[r]) = WantedTo(r, at[r]) /\ Sinks[at[r]] \in Range(tried[r])
    /\ alert[r] = "done" => Range(tried[r]) = Wanted(r)
    /\ Range(tried[r]) \subseteq Wanted(r)
    /\ Ordered(tried[r])
    /\ got[r] \subseteq Range(tried[r])

NotifiersInv == Types /\ \A r \in Requests : Progress(r)

(* Nothing about q changes.                                                *)
Same(q) ==
    /\ handler'[q] = handler[q] /\ alert'[q] = alert[q] /\ at'[q] = at[q]
    /\ tried'[q] = tried[q] /\ got'[q] = got[q]

LEMMA Frame ==
    ASSUME NEW q \in Requests, Progress(q), Same(q), UNCHANGED <<config, action>>
    PROVE  Progress(q)'
<1>1. Wanted(q)' = Wanted(q)
    BY DEF Wanted
<1>2. \A n : WantedTo(q, n)' = WantedTo(q, n)
    BY <1>1 DEF WantedTo
<1> QED
    BY <1>1, <1>2 DEF Progress, Same, Ordered

LEMMA OnlyOne ==
    ASSUME NotifiersInv, Types', NEW r \in Requests, Progress(r)',
           \A q \in Requests \ {r} : Same(q), UNCHANGED <<config, action>>
    PROVE  NotifiersInv'
BY Frame DEF NotifiersInv

-----------------------------------------------------------------------------
LEMMA InitInv == Init => NotifiersInv
<1> SUFFICES ASSUME Init PROVE NotifiersInv
    OBVIOUS
<1> USE DEF Init
<1>1. Types
    BY RestartsAssumption DEF Types, Stages
<1>2. ASSUME NEW r \in Requests PROVE Progress(r)
    BY DEF Progress, Range, Ordered
<1> QED
    BY <1>1, <1>2 DEF NotifiersInv

LEMMA ArriveStep ==
    ASSUME NotifiersInv, NEW r \in Requests, Arrive(r)
    PROVE  NotifiersInv'
<1> USE DEF Arrive
<1>1. Types'
    BY DEF NotifiersInv, Types
<1>2. \A q \in Requests \ {r} : Same(q)
    BY DEF NotifiersInv, Types, Same
<1>3. Progress(r)'
    <2>1. Progress(r) /\ handler[r] = "idle"
        BY DEF NotifiersInv
    <2>2. Wanted(r)' = Wanted(r) /\ \A n : WantedTo(r, n)' = WantedTo(r, n)
        BY DEF Wanted, WantedTo
    <2> QED
        BY <2>1, <2>2 DEF Progress
<1> QED
    BY <1>1, <1>2, <1>3, OnlyOne

(* The handler's answer spawns an alert that has seen no sink.             *)
LEMMA AnswerStep ==
    ASSUME NotifiersInv, NEW r \in Requests, Answer(r)
    PROVE  NotifiersInv'
<1> USE DEF Answer, SetAlert
<1>1. Types'
    BY DEF NotifiersInv, Types, Stages
<1>2. \A q \in Requests \ {r} : Same(q)
    BY DEF NotifiersInv, Types, Same
<1>3. Progress(r)'
    <2>1. Progress(r) /\ handler[r] = "ready" /\ handler'[r] = "answered" /\ alert'[r] = "runnable"
          /\ tried' = tried /\ at' = at /\ got' = got
        BY DEF NotifiersInv, Types
    <2>2. tried[r] = <<>> /\ at[r] = 1
        BY <2>1 DEF Progress
    <2>3. Range(tried'[r]) = {} /\ Ordered(tried'[r])
        BY <2>1, <2>2 DEF Range, Ordered
    <2>4. WantedTo(r, at[r] - 1)' = {}
        <3>1. \A s \in Range(Sinks) : Place(s) \in 1 .. 4
            BY Places
        <3> QED
            BY <2>1, <2>2, <3>1 DEF WantedTo, Wanted
    <2> QED
        BY <2>1, <2>3, <2>4 DEF Progress
<1> QED
    BY <1>1, <1>2, <1>3, OnlyOne

(* The sinks up to the next place.                                         *)
LEMMA NextPlace ==
    ASSUME NEW r \in Requests, NEW n \in 1 .. 4
    PROVE  /\ WantedTo(r, n) = WantedTo(r, n - 1) \cup (Wanted(r) \cap {Sinks[n]})
           /\ WantedTo(r, 4) = Wanted(r)
<1>1. Wanted(r) \subseteq Range(Sinks)
    BY DEF Wanted
<1>2. \A s \in Wanted(r) : Place(s) \in 1 .. 4 /\ (Place(s) = n <=> s = Sinks[n])
    BY <1>1, Places
<1> QED
    BY <1>2 DEF WantedTo

(* A sink is called or left out.                                           *)
LEMMA StepStep ==
    ASSUME NotifiersInv, NEW r \in Requests, Step(r)
    PROVE  NotifiersInv'
<1> DEFINE sink == Sinks[at[r]]
<1>1. /\ alert[r] = "runnable" /\ Progress(r)
      /\ UNCHANGED <<config, action, handler, got, restarts>>
      /\ at[r] \in 1 .. 4 /\ tried[r] \in Seq(Range(Sinks)) /\ action[r] \in Actions
    BY DEF Step, NotifiersInv, Types
<1>2. sink \in Range(Sinks) /\ Place(sink) = at[r]
    BY <1>1, Places
<1>3. config[sink] # Off /\ ShouldSend(action[r], config[sink]) <=> sink \in Wanted(r)
    BY <1>1, <1>2, SendsWhatItHears DEF Wanted
<1>4. Wanted(r)' = Wanted(r) /\ \A n : WantedTo(r, n)' = WantedTo(r, n)
    BY <1>1 DEF Wanted, WantedTo
<1>5. CASE sink \in Wanted(r)
    <2>1. PICK s \in {"blocking", "waiting"} :
             /\ alert' = [alert EXCEPT ![r] = s]
             /\ tried' = [tried EXCEPT ![r] = Append(@, sink)]
             /\ at' = at
        BY <1>3, <1>5 DEF Step, SetAlert
    <2>2. Append(tried[r], sink) \in Seq(Range(Sinks))
          /\ Range(Append(tried[r], sink)) = Range(tried[r]) \cup {sink}
        BY <1>1, <1>2, AppendRange
    <2>3. Types'
        BY <1>1, <2>1, <2>2 DEF NotifiersInv, Types, Stages
    <2>4. \A q \in Requests \ {r} : Same(q)
        BY <1>1, <2>1 DEF NotifiersInv, Types, Same
    <2>5. Ordered(Append(tried[r], sink))
        <3>1. Ordered(tried[r]) /\ Range(tried[r]) = WantedTo(r, at[r] - 1)
            BY <1>1 DEF Progress
        <3>2. \A i \in DOMAIN tried[r] : Place(tried[r][i]) < Place(sink)
            <4>1. \A v \in Range(Sinks) : Place(v) \in 1 .. 4
                BY Places
            <4>2. \A i \in DOMAIN tried[r] : tried[r][i] \in WantedTo(r, at[r] - 1)
                BY <3>1 DEF Range
            <4> QED
                BY <1>1, <1>2, <4>1, <4>2 DEF WantedTo, Wanted
        <3>3. DOMAIN Append(tried[r], sink) = 1 .. Len(tried[r]) + 1
              /\ DOMAIN tried[r] = 1 .. Len(tried[r]) /\ Len(tried[r]) \in Nat
            BY <1>1, <1>2
        <3>4. /\ \A i \in 1 .. Len(tried[r]) : Append(tried[r], sink)[i] = tried[r][i]
              /\ Append(tried[r], sink)[Len(tried[r]) + 1] = sink
            BY <1>1, <1>2
        <3> HIDE DEF sink
        <3> QED
            BY <3>1, <3>2, <3>3, <3>4 DEF Ordered
    <2>6. Range(tried'[r]) = WantedTo(r, at[r])
        <3>1. WantedTo(r, at[r]) = WantedTo(r, at[r] - 1) \cup {sink}
            BY <1>1, <1>5, NextPlace
        <3> QED
            BY <1>1, <2>1, <2>2, <3>1 DEF Progress, NotifiersInv, Types
    <2>7. Progress(r)'
        <3>1. /\ alert'[r] = s /\ tried'[r] = Append(tried[r], sink) /\ at'[r] = at[r]
              /\ handler'[r] = handler[r] /\ got'[r] = got[r]
            BY <1>1, <2>1 DEF NotifiersInv, Types
        <3>2. handler[r] \notin {"idle", "ready"} /\ got[r] \subseteq Range(tried[r])
            BY <1>1 DEF Progress
        <3>3. WantedTo(r, at[r]) \subseteq Wanted(r)
            BY DEF WantedTo
        <3>4. WantedTo(r, at[r])' = WantedTo(r, at[r])
            BY <1>4, <2>1 DEF WantedTo
        <3> HIDE DEF sink
        <3> QED
            BY <1>4, <2>2, <2>5, <2>6, <3>1, <3>2, <3>3, <3>4 DEF Progress, sink
    <2> QED
        BY <1>1, <2>3, <2>4, <2>7, OnlyOne
<1>6. CASE sink \notin Wanted(r)
    <2>1. /\ tried' = tried
          /\ \/ at[r] = 4 /\ alert' = [alert EXCEPT ![r] = "done"] /\ at' = at
             \/ at[r] # 4 /\ at' = [at EXCEPT ![r] = @ + 1] /\ alert' = alert
        BY <1>3, <1>6, Places DEF Step, SetAlert
    <2>2. Types'
        <3>1. at \in [Requests -> 1 .. 4] /\ alert \in [Requests -> Stages]
            BY DEF NotifiersInv, Types
        <3>2. alert' \in [Requests -> Stages]
            BY <2>1, <3>1 DEF Stages
        <3>3. at[r] # 4 => at[r] + 1 \in 1 .. 4
            BY <1>1
        <3>4. at' \in [Requests -> 1 .. 4]
            BY <2>1, <3>1, <3>3
        <3> QED
            BY <1>1, <2>1, <3>2, <3>4 DEF NotifiersInv, Types
    <2>3. \A q \in Requests \ {r} : Same(q)
        BY <1>1, <2>1 DEF NotifiersInv, Types, Same
    <2>4. WantedTo(r, at[r]) = WantedTo(r, at[r] - 1) /\ WantedTo(r, 4) = Wanted(r)
        <3>1. Wanted(r) \cap {Sinks[at[r]]} = {}
            BY <1>6
        <3>2. /\ WantedTo(r, at[r]) = WantedTo(r, at[r] - 1) \cup (Wanted(r) \cap {Sinks[at[r]]})
              /\ WantedTo(r, 4) = Wanted(r)
            BY <1>1, NextPlace
        <3> QED
            BY <3>1, <3>2, Zenon
    <2>5. Progress(r)'
        <3>1. CASE at[r] = 4
            <4>1. alert'[r] = "done" /\ at'[r] = 4 /\ tried'[r] = tried[r]
                BY <2>1, <3>1 DEF NotifiersInv, Types
            <4> QED
                BY <1>1, <1>4, <2>4, <3>1, <4>1 DEF Progress
        <3>2. CASE at[r] # 4
            <4>1. alert'[r] = "runnable" /\ at'[r] = at[r] + 1 /\ tried'[r] = tried[r]
                BY <1>1, <2>1, <3>2 DEF NotifiersInv, Types
            <4>2. at'[r] - 1 = at[r]
                BY <1>1, <4>1
            <4>3. WantedTo(r, at[r] - 1)' = WantedTo(r, at[r])
                BY <1>4, <4>2 DEF WantedTo
            <4> QED
                BY <1>1, <1>4, <2>4, <3>2, <4>1, <4>3 DEF Progress
        <3> QED
            BY <3>1, <3>2
    <2> QED
        BY <1>1, <2>2, <2>3, <2>5, OnlyOne
<1> QED
    BY <1>5, <1>6

(* Whatever becomes of a call, the alert goes on behind it.                *)
LEMMA ReturnStep ==
    ASSUME NotifiersInv, NEW r \in Requests, Delivered(r) \/ Failed(r)
    PROVE  NotifiersInv'
<1>1. /\ alert[r] \in {"waiting", "blocking"} /\ Progress(r)
      /\ UNCHANGED <<config, action, handler, tried, restarts>>
      /\ at[r] \in 1 .. 4
    BY DEF Delivered, Failed, NotifiersInv, Types
<1>2. \/ at[r] = 4 /\ alert' = [alert EXCEPT ![r] = "done"] /\ at' = at
      \/ at[r] # 4 /\ alert' = [alert EXCEPT ![r] = "runnable"] /\ at' = [at EXCEPT ![r] = @ + 1]
    BY Places DEF Delivered, Failed, Proceed, SetAlert
<1>3. \/ got' = got
      \/ got' = [got EXCEPT ![r] = @ \cup {Sinks[at[r]]}]
    BY DEF Delivered, Failed
<1>4. Types'
    <2>1. /\ got \in [Requests -> SUBSET Range(Sinks)]
          /\ at \in [Requests -> 1 .. 4] /\ alert \in [Requests -> Stages]
        BY DEF NotifiersInv, Types
    <2>2. Sinks[at[r]] \in Range(Sinks)
        BY <1>1, Places
    <2>3. got' \in [Requests -> SUBSET Range(Sinks)]
        BY <1>3, <2>1, <2>2
    <2>4. alert' \in [Requests -> Stages]
        BY <1>2, <2>1 DEF Stages
    <2>5. at[r] # 4 => at[r] + 1 \in 1 .. 4
        BY <1>1
    <2>6. at' \in [Requests -> 1 .. 4]
        BY <1>2, <2>1, <2>5
    <2> QED
        BY <1>1, <2>3, <2>4, <2>6 DEF NotifiersInv, Types
<1>5. \A q \in Requests \ {r} : Same(q)
    BY <1>1, <1>2, <1>3 DEF NotifiersInv, Types, Same
<1>6. Progress(r)'
    <2>1. Wanted(r)' = Wanted(r) /\ \A n : WantedTo(r, n)' = WantedTo(r, n)
        BY <1>1 DEF Wanted, WantedTo
    <2>2. Range(tried[r]) = WantedTo(r, at[r]) /\ Sinks[at[r]] \in Range(tried[r])
          /\ handler[r] \notin {"idle", "ready"} /\ Ordered(tried[r])
          /\ Range(tried[r]) \subseteq Wanted(r) /\ got[r] \subseteq Range(tried[r])
        BY <1>1 DEF Progress
    <2>3. got'[r] \subseteq Range(tried[r])
        BY <1>3, <2>2 DEF NotifiersInv, Types
    <2>4. handler'[r] = handler[r] /\ tried'[r] = tried[r]
        BY <1>1
    <2>5. CASE at[r] = 4
        <3>1. alert'[r] = "done"
            BY <1>2, <2>5 DEF NotifiersInv, Types
        <3>2. Range(tried[r]) = Wanted(r)
            BY <1>1, <2>2, <2>5, NextPlace
        <3> QED
            BY <2>1, <2>2, <2>3, <2>4, <3>1, <3>2 DEF Progress
    <2>6. CASE at[r] # 4
        <3>1. alert'[r] = "runnable" /\ at'[r] - 1 = at[r]
            BY <1>1, <1>2, <2>6 DEF NotifiersInv, Types
        <3>2. WantedTo(r, at[r] - 1)' = WantedTo(r, at[r])
            BY <2>1, <3>1 DEF WantedTo
        <3> QED
            BY <2>1, <2>2, <2>3, <2>4, <3>1, <3>2 DEF Progress
    <2> QED
        BY <2>5, <2>6
<1> QED
    BY <1>1, <1>4, <1>5, <1>6, OnlyOne

(* A restart loses handlers and alerts; what was called stays called.      *)
LEMMA RestartStep ==
    ASSUME NotifiersInv, Restart
    PROVE  NotifiersInv'
<1> USE DEF Restart
<1>1. Types'
    BY RestartsAssumption DEF NotifiersInv, Types, Stages
<1>2. ASSUME NEW r \in Requests PROVE Progress(r)'
    <2>1. Progress(r) /\ handler[r] \in {"idle", "ready", "answered", "lost"}
        BY DEF NotifiersInv, Types
    <2>2. Wanted(r)' = Wanted(r)
        BY DEF Wanted
    <2>3. /\ alert'[r] \in {"none", "done", "lost"}
          /\ alert'[r] = "none" <=> alert[r] = "none"
          /\ alert'[r] = "done" <=> alert[r] = "done"
          /\ handler'[r] \in {"idle", "ready"} => handler[r] \in {"idle", "ready"}
        BY DEF NotifiersInv, Types
    <2> QED
        BY <2>1, <2>2, <2>3 DEF Progress
<1> QED
    BY <1>1, <1>2 DEF NotifiersInv

LEMMA NextInv == NotifiersInv /\ [Next]_vars => NotifiersInv'
<1> SUFFICES ASSUME NotifiersInv, [Next]_vars PROVE NotifiersInv'
    OBVIOUS
<1>1. CASE Next
    BY <1>1, ArriveStep, AnswerStep, StepStep, ReturnStep, RestartStep DEF Next
<1>2. CASE UNCHANGED vars
    <2> USE <1>2 DEF vars
    <2>1. Types'
        BY DEF NotifiersInv, Types
    <2>2. \A r \in Requests : Same(r) /\ Progress(r)
        BY DEF NotifiersInv, Same
    <2> QED
        BY <2>1, <2>2, Frame DEF NotifiersInv
<1> QED
    BY <1>1, <1>2

LEMMA NotifiersInductive == Spec => []NotifiersInv
BY InitInv, NextInv, PTL DEF Spec

(* Every variable keeps its type, and a sink has received only what it was *)
(* called with (notifiers.rs:187-255).                                     *)
THEOREM NotifiersTyped == Spec => []TypeOK
<1>1. NotifiersInv => TypeOK
    <2> SUFFICES ASSUME NotifiersInv PROVE TypeOK
        OBVIOUS
    <2>1. \A r \in Requests : got[r] \subseteq Range(tried[r])
        BY DEF NotifiersInv, Progress
    <2> QED
        BY <2>1, Places DEF NotifiersInv, Types, TypeOK
<1> QED
    BY <1>1, NotifiersInductive, PTL

(* An alert calls each sink that wants it once and in order, whatever      *)
(* becomes of the calls before (notifiers.rs:205-255).                     *)
THEOREM FailuresNeverSuppress == Spec => []FailureDoesNotSuppress
<1>1. NotifiersInv => FailureDoesNotSuppress
    BY DEF NotifiersInv, Progress, Ordered, FailureDoesNotSuppress
<1> QED
    BY <1>1, NotifiersInductive, PTL
=============================================================================
