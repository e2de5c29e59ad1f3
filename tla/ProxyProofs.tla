---------------------------- MODULE ProxyProofs ----------------------------
(***************************************************************************)
(* Proofs about Proxy for every set of requests, addresses and nonces and  *)
(* every digest function: the script and verify_token agree on what a      *)
(* solution is, so a token made for a client passes; upstream gets what    *)
(* was inspected; and the file, the counters and the alerts of a request   *)
(* keep step with its stage.                                               *)
(***************************************************************************)
EXTENDS Proxy, SequenceTheorems, FiniteSetTheorems, WellFoundedInduction, TLAPS

-----------------------------------------------------------------------------
(* The arithmetic of the challenge.                                        *)

LEMMA Least ==
    ASSUME NEW S \in SUBSET Nat, S # {}
    PROVE  Min(S) \in S /\ \A y \in S : Min(S) <= y
<1> DEFINE Below == {ss \in Nat \X Nat : ss[1] < ss[2]}
<1>1. Below = OpToRel(<, Nat)
    BY Zenon DEF OpToRel
<1>2. PICK x \in S : \A y \in S : <<y, x>> \notin Below
    <2> HIDE DEF Below
    <2> QED
        BY <1>1, WFMin, NatLessThanWellFounded
<1>3. ASSUME NEW y \in S PROVE x <= y
    <2>1. x \in Nat /\ y \in Nat
        OBVIOUS
    <2>2. y < x => <<y, x>> \in Below
        BY <2>1, SMTT(30)
    <2> HIDE DEF Below
    <2> QED
        BY <1>2, <2>1, <2>2
<1> QED
    BY <1>3, Zenon DEF Min

(* The digits before the first that is not zero.                           *)
LEMMA ZeroDigitsType ==
    ASSUME NEW hex \in Seq(0 .. 15)
    PROVE  /\ ZeroDigits(hex) \in 0 .. Len(hex)
           /\ ZeroDigits(hex) < Len(hex) => hex[ZeroDigits(hex) + 1] \in 1 .. 15
<1> DEFINE nonzero == {i \in DOMAIN hex : hex[i] # 0}
<1>1. nonzero \in SUBSET Nat /\ nonzero \subseteq 1 .. Len(hex)
    OBVIOUS
<1>2. CASE nonzero = {}
    BY <1>2 DEF ZeroDigits
<1>3. CASE nonzero # {}
    <2>1. Min(nonzero) \in nonzero
        <3> HIDE DEF nonzero
        <3> QED
            BY <1>1, <1>3, Least
    <2>2. ZeroDigits(hex) = Min(nonzero) - 1
        BY <1>3 DEF ZeroDigits
    <2>3. Min(nonzero) \in 1 .. Len(hex) /\ hex[Min(nonzero)] \in 1 .. 15
        BY <2>1
    <2> HIDE DEF nonzero
    <2> QED
        BY <2>2, <2>3
<1> QED
    BY <1>2, <1>3

(* As many zero bits as the script wants are as many zero digits as        *)
(* verify_token wants: a digit that is not zero adds three bits at most.   *)
LEMMA BitsAreDigits ==
    ASSUME NEW hex \in Seq(0 .. 15), LeadingZeroBits(hex) >= Difficulty
    PROVE  ZeroDigits(hex) >= Zeros
<1> DEFINE z == ZeroDigits(hex)
<1>1. z \in Nat /\ Zeros \in Nat /\ Difficulty = 4 * Zeros
    BY ZeroDigitsType, DigestAssumption, WorkAssumption
<1>2. CASE z = Len(hex)
    <2>1. 4 * z >= 4 * Zeros
        BY <1>1, <1>2 DEF LeadingZeroBits
    <2> QED
        BY <1>1, <2>1
<1>3. CASE z # Len(hex)
    <2>1. hex[z + 1] \in 1 .. 15
        BY <1>3, ZeroDigitsType
    <2>2. ZeroBitsOfDigit(hex[z + 1]) \in 0 .. 3
        BY <2>1 DEF ZeroBitsOfDigit
    <2>3. LeadingZeroBits(hex) = 4 * z + ZeroBitsOfDigit(hex[z + 1])
        BY <1>3 DEF LeadingZeroBits
    <2> HIDE DEF z
    <2>4. 4 * z + 3 >= 4 * Zeros
        BY <1>1, <2>2, <2>3
    <2> QED
        BY <1>1, <2>4 DEF z
<1> QED
    BY <1>2, <1>3

(* A token as the script makes it.                                         *)
Made == {[c |-> a, n |-> Solve(a), h |-> Digest[a][Solve(a)]] : a \in Addresses}

(* verify_token accepts it for its own client.                             *)
LEMMA MadeVerifies ==
    ASSUME NEW t \in Made
    PROVE  t.c \in Addresses /\ VerifyToken(t, t.c)
<1>1. PICK a \in Addresses : t = [c |-> a, n |-> Solve(a), h |-> Digest[a][Solve(a)]]
    BY DEF Made
<1> DEFINE found == {n \in Nonces : LeadingZeroBits(Digest[a][n]) >= Difficulty}
<1>2. found \in SUBSET Nat /\ found # {}
    BY DigestAssumption, WorkAssumption
<1>3. Solve(a) \in found
    <2>1. Solve(a) = Min(found)
        BY DEF Solve
    <2> HIDE DEF found
    <2> QED
        BY <1>2, <2>1, Least
<1>4. ZeroDigits(t.h) >= Zeros
    BY <1>1, <1>3, BitsAreDigits, DigestAssumption
<1> QED
    BY <1>1, <1>4 DEF VerifyToken

-----------------------------------------------------------------------------
(* The inductive invariant: types, and for each request what its body, its *)
(* token and its books are at its stage.                                   *)

Decisions == {"Allow", "Log", "Challenge", "Block", "Token", None}

ProxyTypes ==
    /\ challengeOn \in BOOLEAN
    /\ pc \in [Requests -> Pcs]
    /\ addr \in [Requests -> Addresses]
    /\ url \in [Requests -> Seq(Made)]
    /\ body \in [Requests -> Contents]
    /\ verdict \in [Requests -> Decisions]
    /\ held \in [Requests -> Contents \cup {None}]
    /\ seen \in [Requests -> Contents \cup {"replaced", None}]
    /\ sent \in [Requests -> Contents \cup {None}]
    /\ lines \in [Requests -> Seq(Classes)]
    /\ counted \in [Requests -> Seq(Classes)]
    /\ alerts \in [Requests -> Seq(Classes)]
    /\ answer \in [Requests -> Answers \cup {None}]
    /\ restarts \in Nat

(* The bytes that go on were read, and so are never "over" any more; what  *)
(* was inspected is their text.                                            *)
BodyInv(r) ==
    /\ pc[r] \in {"idle", "body", "publish", "forward"} => sent[r] = None
    /\ pc[r] = "body" => verdict[r] # "Token"
    /\ verdict[r] = "Token" => challengeOn
    /\ pc[r] \in {"publish", "forward"} /\ verdict[r] # "Token" =>
          held[r] # "over" /\ seen[r] = Lossy(held[r])
    /\ sent[r] # None /\ Lossy(sent[r]) # seen[r] => verdict[r] = "Token"

(* A token of the client itself has been accepted at the start.            *)
TokenInv(r) ==
    /\ pc[r] = "idle" => seen[r] = None /\ verdict[r] = None
    /\ pc[r] # "idle" /\ challengeOn /\ url[r] # <<>> /\ Head(url[r]).c = addr[r]
          => pc[r] # "body" /\ verdict[r] = "Token" /\ seen[r] = None

Alerted(r) == IF verdict[r] \in {"Allow", "Token"} THEN 0 ELSE 1

NoLeak(r) == \A i \in 1 .. Len(lines[r]) : lines[r][i] # "DLP"

(* The file is one line ahead exactly between its write and the counters'; *)
(* alerts go out with the first record and with a leak.                    *)
BookInv(r) ==
    /\ pc[r] \in {"idle", "body"} =>
          lines[r] = <<>> /\ counted[r] = <<>> /\ Len(alerts[r]) = 0
    /\ pc[r] = "publish" => lines[r] = Append(counted[r], ClassOf[verdict[r]])
    /\ pc[r] = "count" =>
          \E c \in Classes \ {"DLP"} : lines[r] = Append(counted[r], c)
    /\ pc[r] \in {"forward", "upstream", "collect"} => lines[r] = counted[r]
    /\ pc[r] \notin {"done", "gone"} => NoLeak(r)
    /\ pc[r] = "publish" => verdict[r] \in {"Log", "Challenge", "Block"} /\ Len(alerts[r]) = 0
    /\ pc[r] \in {"forward", "upstream", "count", "collect"} => Len(alerts[r]) = Alerted(r)
    /\ pc[r] = "done" /\ restarts = 0 =>
          counted[r] = Told(r) /\ Len(alerts[r]) = Alerted(r) + (IF Leaked(r) THEN 1 ELSE 0)
    /\ IsPrefix(counted[r], Told(r))

Good(r) == BodyInv(r) /\ TokenInv(r) /\ BookInv(r)

ProxyInv == ProxyTypes /\ \A r \in Requests : Good(r)

(* Everything about q stays as it is.                                      *)
Same(q) ==
    /\ pc'[q] = pc[q] /\ addr'[q] = addr[q] /\ url'[q] = url[q]
    /\ verdict'[q] = verdict[q] /\ held'[q] = held[q] /\ seen'[q] = seen[q] /\ sent'[q] = sent[q]
    /\ lines'[q] = lines[q] /\ counted'[q] = counted[q] /\ alerts'[q] = alerts[q]

LEMMA Frame ==
    ASSUME NEW q \in Requests, Good(q), Same(q), UNCHANGED <<challengeOn, restarts>>
    PROVE  Good(q)'
<1> USE DEF Same
<1>1. BodyInv(q)'
    BY DEF Good, BodyInv
<1>2. TokenInv(q)'
    BY DEF Good, TokenInv
<1>3. Told(q)' = Told(q) /\ (Leaked(q)' <=> Leaked(q)) /\ Alerted(q)' = Alerted(q)
      /\ (NoLeak(q)' <=> NoLeak(q))
    BY DEF Told, Leaked, Alerted, NoLeak
<1>4. BookInv(q)'
    BY <1>3 DEF Good, BookInv
<1> QED
    BY <1>1, <1>2, <1>4 DEF Good

(* Only r is touched: its own part is what remains to be shown.            *)
LEMMA OnlyOne ==
    ASSUME ProxyInv, ProxyTypes', NEW r \in Requests, Good(r)',
           \A q \in Requests \ {r} : Same(q), UNCHANGED <<challengeOn, restarts>>
    PROVE  ProxyInv'
BY Frame DEF ProxyInv

(* Sequences of lines without a leak.                                      *)
LEMMA NoLeakTold ==
    ASSUME NEW r \in Requests, lines[r] \in Seq(Classes), NoLeak(r)
    PROVE  ~ Leaked(r) /\ Told(r) = lines[r]
<1>1. ~ Leaked(r)
    BY EmptySeq DEF Leaked, NoLeak, Last
<1> QED
    BY <1>1 DEF Told

LEMMA PrefixSelf ==
    ASSUME NEW s \in Seq(Classes)
    PROVE  IsPrefix(s, s) /\ \A c \in Classes : IsPrefix(s, Append(s, c))
<1>1. IsPrefix(s, s)
    BY DEF IsPrefix
<1>2. ASSUME NEW c \in Classes PROVE IsPrefix(s, Append(s, c))
    BY DEF IsPrefix
<1> QED
    BY <1>1, <1>2

LEMMA PrefixEmpty ==
    ASSUME NEW s \in Seq(Classes)
    PROVE  IsPrefix(<<>>, s)
BY DEF IsPrefix

(* A leak's line comes last and is not told.                               *)
LEMMA LeakTold ==
    ASSUME NEW s \in Seq(Classes)
    PROVE  LET t == Append(s, "DLP")
           IN  t # <<>> /\ Last(t) = "DLP" /\ Front(t) = s
<1>1. Append(s, "DLP") \in Seq(Classes) /\ Len(Append(s, "DLP")) = Len(s) + 1
    BY DEF Classes
<1>2. Append(s, "DLP") # <<>> /\ Last(Append(s, "DLP")) = "DLP"
    BY <1>1, EmptySeq DEF Last
<1>3. Front(Append(s, "DLP")) = s
    BY <1>1 DEF Front
<1> QED
    BY <1>2, <1>3

-----------------------------------------------------------------------------
LEMMA ProxyInit == Init => ProxyInv
<1> SUFFICES ASSUME Init PROVE ProxyInv
    OBVIOUS
<1>1. ProxyTypes
    BY ProxyAssumption DEF Init, ProxyTypes, Pcs, Awaiting, Running, Decisions
<1>2. ASSUME NEW r \in Requests PROVE Good(r)
    <2>1. pc[r] = "idle" /\ lines[r] = <<>> /\ counted[r] = <<>> /\ alerts[r] = <<>>
          /\ sent[r] = None /\ seen[r] = None /\ verdict[r] = None
        BY DEF Init
    <2>2. NoLeak(r) /\ Told(r) = <<>> /\ Len(alerts[r]) = 0
        BY <2>1, EmptySeq DEF NoLeak, Told, Leaked
    <2>3. BookInv(r)
        BY <2>1, <2>2, PrefixEmpty, EmptySeq DEF BookInv
    <2>4. verdict[r] = "Token" => challengeOn
        BY <2>1, ProxyAssumption
    <2> QED
        BY <2>1, <2>3, <2>4 DEF Good, BodyInv, TokenInv
<1> QED
    BY <1>1, <1>2 DEF ProxyInv

(* A URL of a browser holds only tokens its script has made.               *)
LEMMA HandleStep ==
    ASSUME ProxyInv, NEW r \in Requests, NEW u \in Seq(Made), Handle(r, u)
    PROVE  ProxyInv'
<1> USE DEF Handle, request, reports
<1>1. ProxyTypes'
    BY DEF ProxyInv, ProxyTypes, Goto, Pcs, Awaiting, Running, Decisions
<1>2. \A q \in Requests \ {r} : Same(q)
    BY DEF ProxyInv, ProxyTypes, Same, Goto
<1>3. Good(r)'
    <2>1. pc[r] = "idle" /\ Good(r) /\ addr[r] \in Addresses
        BY DEF ProxyInv, ProxyTypes
    <2>2. url'[r] = u /\ addr'[r] = addr[r]
        BY DEF ProxyInv, ProxyTypes
    <2>3. lines'[r] = <<>> /\ counted'[r] = <<>> /\ Len(alerts'[r]) = 0 /\ seen'[r] = None
          /\ sent'[r] = None
        BY <2>1 DEF Good, BookInv, TokenInv, BodyInv
    <2>4. NoLeak(r)' /\ Told(r)' = <<>>
        BY <2>3, EmptySeq DEF NoLeak, Told, Leaked
    <2>5. CASE challengeOn /\ Passes(u, addr[r])
        <3>1. pc'[r] = "forward" /\ verdict'[r] = "Token" /\ challengeOn'
            BY <2>5 DEF Goto, ProxyInv, ProxyTypes
        <3>2. BookInv(r)'
            BY <2>3, <2>4, <3>1, PrefixEmpty, EmptySeq DEF BookInv, Alerted
        <3> QED
            BY <2>3, <3>1, <3>2 DEF Good, BodyInv, TokenInv
    <2>6. CASE ~ (challengeOn /\ Passes(u, addr[r]))
        <3>1. pc'[r] = "body" /\ verdict'[r] = verdict[r]
            BY <2>6 DEF Goto, ProxyInv, ProxyTypes
        <3>2. BookInv(r)'
            BY <2>3, <2>4, <3>1, PrefixEmpty, EmptySeq DEF BookInv
        <3>3. ~ (challengeOn /\ u # <<>> /\ Head(u).c = addr[r])
            <4> SUFFICES ASSUME challengeOn, u # <<>>, Head(u).c = addr[r] PROVE FALSE
                OBVIOUS
            <4>1. Head(u) \in Made
                OBVIOUS
            <4> QED
                BY <2>6, <4>1, MadeVerifies DEF Passes
        <3>4. verdict[r] = None /\ (verdict[r] = "Token" => challengeOn)
            BY <2>1, ProxyAssumption DEF Good, TokenInv, BodyInv
        <3>5. verdict[r] # "Token"
            BY <3>4, ProxyAssumption
        <3> QED
            BY <3>5, <2>1, <2>2, <2>3, <3>1, <3>2, <3>3, <3>4 DEF Good, BodyInv, TokenInv
    <2> QED
        BY <2>5, <2>6
<1> QED
    BY <1>1, <1>2, <1>3, OnlyOne

(* What a stage tells of the books.                                        *)
LEMMA BooksOf ==
    ASSUME ProxyInv, NEW r \in Requests
    PROVE  /\ Good(r) /\ lines[r] \in Seq(Classes) /\ counted[r] \in Seq(Classes)
           /\ alerts[r] \in Seq(Classes) /\ verdict[r] \in Decisions
BY DEF ProxyInv, ProxyTypes

LEMMA InspectStep ==
    ASSUME ProxyInv, NEW r \in Requests, Inspect(r)
    PROVE  ProxyInv'
<1> USE DEF Inspect, request
<1>1. PICK v \in Verdicts :
         /\ verdict' = [verdict EXCEPT ![r] = v]
         /\ IF v = "Allow" THEN Goto(r, "forward") /\ UNCHANGED lines
            ELSE /\ lines' = Add(lines, r, ClassOf[v])
                 /\ Goto(r, "publish")
    OBVIOUS
<1>2. v \in {"Allow", "Log", "Challenge", "Block"}
    BY DEF Verdicts
<1>3. v # "Allow" => ClassOf[v] \in Classes \ {"DLP"}
    BY <1>2 DEF ClassOf, Classes
<1>4. Read(body[r]) \in Contents /\ Read(body[r]) # "over"
    BY ProxyAssumption DEF Read, ProxyInv, ProxyTypes
<1>5. ProxyTypes'
    <2>1. lines' \in [Requests -> Seq(Classes)] /\ pc' \in [Requests -> Pcs]
        <3>1. CASE v = "Allow"
            BY <1>1, <3>1 DEF ProxyInv, ProxyTypes, Goto, Pcs, Awaiting, Running
        <3>2. CASE v # "Allow"
            <4>1. lines' = [lines EXCEPT ![r] = Append(@, ClassOf[v])] /\ Goto(r, "publish")
                BY <1>1, <3>2 DEF Add
            <4>2. lines[r] \in Seq(Classes) /\ ClassOf[v] \in Classes
                BY <1>3, <3>2, BooksOf
            <4> HIDE DEF Inspect
            <4>3. Append(lines[r], ClassOf[v]) \in Seq(Classes)
                BY <4>2
            <4> QED
                BY <4>1, <4>3 DEF ProxyInv, ProxyTypes, Goto, Pcs, Awaiting, Running
        <3> QED
            BY <3>1, <3>2
    <2>2. verdict' \in [Requests -> Decisions] /\ held' \in [Requests -> Contents \cup {None}]
          /\ seen' \in [Requests -> Contents \cup {"replaced", None}]
        BY <1>1, <1>2, <1>4 DEF ProxyInv, ProxyTypes, Decisions, Lossy
    <2> QED
        BY <2>1, <2>2 DEF ProxyInv, ProxyTypes
<1>6. \A q \in Requests \ {r} : Same(q)
    BY <1>1 DEF ProxyInv, ProxyTypes, Same, Goto, Add
<1>7. Good(r)'
    <2>1. pc[r] = "body" /\ Good(r) /\ sent'[r] = None /\ verdict'[r] = v
          /\ held'[r] = Read(body[r]) /\ seen'[r] = Lossy(held'[r]) /\ url'[r] = url[r] /\ addr'[r] = addr[r]
          /\ counted'[r] = <<>> /\ Len(alerts'[r]) = 0 /\ lines[r] = <<>>
        BY <1>1, BooksOf DEF ProxyInv, ProxyTypes, Good, BodyInv, BookInv
    <2>2. CASE v = "Allow"
        <3>1. pc'[r] = "forward" /\ lines'[r] = <<>>
            BY <1>1, <2>1, <2>2 DEF Goto, ProxyInv, ProxyTypes
        <3>2. NoLeak(r)' /\ Told(r)' = <<>>
            BY <3>1, EmptySeq DEF NoLeak, Told, Leaked
        <3>3. BookInv(r)'
            BY <2>1, <2>2, <3>1, <3>2, PrefixEmpty, EmptySeq DEF BookInv, Alerted
        <3> QED
            BY <1>2, <1>4, <2>1, <3>1, <3>3 DEF Good, BodyInv, TokenInv
    <2>3. CASE v # "Allow"
        <3>1. pc'[r] = "publish" /\ lines'[r] = Append(<<>>, ClassOf[v])
            BY <1>1, <2>1, <2>3 DEF Goto, Add, ProxyInv, ProxyTypes
        <3>2. NoLeak(r)'
            BY <1>3, <2>3, <3>1 DEF NoLeak
        <3>3. Told(r)' = lines'[r] /\ lines'[r] \in Seq(Classes)
            BY <1>5, <3>2, NoLeakTold DEF ProxyTypes, Told, Leaked, NoLeak, Last
        <3>4. BookInv(r)'
            BY <1>2, <1>3, <2>1, <2>3, <3>1, <3>2, <3>3, PrefixEmpty DEF BookInv
        <3> QED
            BY <1>2, <1>4, <2>1, <3>1, <3>4 DEF Good, BodyInv, TokenInv
    <2> QED
        BY <2>2, <2>3
<1> QED
    BY <1>5, <1>6, <1>7, OnlyOne


(* Adding a class to a log keeps its type and touches one request.         *)
LEMMA AddType ==
    ASSUME NEW log \in [Requests -> Seq(Classes)], NEW r \in Requests, NEW c \in Classes
    PROVE  /\ Add(log, r, c) \in [Requests -> Seq(Classes)]
           /\ Add(log, r, c)[r] = Append(log[r], c)
           /\ \A q \in Requests \ {r} : Add(log, r, c)[q] = log[q]
<1>1. Append(log[r], c) \in Seq(Classes)
    OBVIOUS
<1> QED
    BY <1>1 DEF Add

(* The verdict is told: record, alert, and the answer or the way on.       *)
LEMMA PublishStep ==
    ASSUME ProxyInv, NEW r \in Requests, Publish(r)
    PROVE  ProxyInv'
<1> DEFINE c == ClassOf[verdict[r]]
<1>1. pc[r] = "publish" /\ Good(r) /\ verdict[r] \in {"Log", "Challenge", "Block"}
      /\ Len(alerts[r]) = 0 /\ NoLeak(r) /\ sent[r] = None
      /\ lines[r] = Append(counted[r], c)
    BY BooksOf DEF Good, BookInv, BodyInv, Publish
<1>2. c \in Classes
    BY <1>1 DEF ClassOf, Classes
<1> HIDE DEF c
<1>3. /\ alerts' = Add(alerts, r, c) /\ counted' = Add(counted, r, c)
      /\ UNCHANGED <<challengeOn, addr, url, body, verdict, held, seen, sent, lines, restarts>>
    BY DEF Publish, request, c
<1>4. \/ verdict[r] = "Log" /\ Goto(r, "forward") /\ UNCHANGED answer
      \/ verdict[r] # "Log" /\ Goto(r, "done") /\ \E a \in Answers : answer' = [answer EXCEPT ![r] = a]
    BY <1>1 DEF Publish, Finish, Answers
<1>5. pc' \in [Requests -> Pcs] /\ answer' \in [Requests -> Answers \cup {None}]
      /\ \A q \in Requests \ {r} : pc'[q] = pc[q]
    <2>1. pc \in [Requests -> Pcs] /\ answer \in [Requests -> Answers \cup {None}]
        BY DEF ProxyInv, ProxyTypes
    <2>2. PICK s \in {"forward", "done"} : pc' = [pc EXCEPT ![r] = s]
        BY <1>4 DEF Goto
    <2>3. s \in Pcs
        BY DEF Pcs, Awaiting, Running
    <2>4. answer' \in [Requests -> Answers \cup {None}]
        BY <1>4, <2>1
    <2> QED
        BY <2>1, <2>2, <2>3, <2>4
<1>6. /\ alerts' \in [Requests -> Seq(Classes)] /\ counted' \in [Requests -> Seq(Classes)]
      /\ alerts'[r] = Append(alerts[r], c) /\ counted'[r] = Append(counted[r], c)
      /\ \A q \in Requests \ {r} : alerts'[q] = alerts[q] /\ counted'[q] = counted[q]
    <2>1. alerts \in [Requests -> Seq(Classes)] /\ counted \in [Requests -> Seq(Classes)]
        BY DEF ProxyInv, ProxyTypes
    <2>2. ASSUME NEW log \in [Requests -> Seq(Classes)]
          PROVE  /\ Add(log, r, c) \in [Requests -> Seq(Classes)]
                 /\ Add(log, r, c)[r] = Append(log[r], c)
                 /\ \A q \in Requests \ {r} : Add(log, r, c)[q] = log[q]
        BY <1>2, AddType
    <2> QED
        BY <1>3, <2>1, <2>2
<1>7. ProxyTypes'
    BY <1>3, <1>5, <1>6 DEF ProxyInv, ProxyTypes
<1>8. \A q \in Requests \ {r} : Same(q)
    BY <1>3, <1>5, <1>6 DEF Same
<1>9. Good(r)'
    <2>1. lines'[r] = counted'[r] /\ lines'[r] \in Seq(Classes)
        BY <1>1, <1>3, <1>6, BooksOf
    <2>2. NoLeak(r)' /\ ~ Leaked(r)' /\ Told(r)' = lines'[r]
        BY <1>1, <1>3, NoLeakTold, BooksOf DEF NoLeak, Told, Leaked
    <2>3. Len(alerts'[r]) = 1 /\ Alerted(r)' = 1
        BY <1>1, <1>3, <1>6, BooksOf DEF Alerted
    <2>4. pc'[r] = "forward" \/ pc'[r] = "done"
        BY <1>4 DEF Goto, ProxyInv, ProxyTypes
    <2>5. BookInv(r)'
        BY <2>1, <2>2, <2>3, <2>4, PrefixSelf DEF BookInv
    <2>6. BodyInv(r)'
        BY <1>1, <1>3, <2>4 DEF Good, BodyInv
    <2>7. TokenInv(r)'
        BY <1>1, <1>3, <2>4 DEF Good, TokenInv
    <2> QED
        BY <2>5, <2>6, <2>7 DEF Good
<1> QED
    BY <1>3, <1>7, <1>8, <1>9, OnlyOne

(* The call of upstream, or the 500: nothing is written.                   *)
LEMMA SendStep ==
    ASSUME ProxyInv, NEW r \in Requests, Send(r)
    PROVE  ProxyInv'
<1>1. pc[r] = "forward" /\ Good(r) /\ NoLeak(r) /\ sent[r] = None /\ lines[r] = counted[r]
      /\ Len(alerts[r]) = Alerted(r)
    BY BooksOf DEF Good, BookInv, BodyInv, Send
<1>2. UNCHANGED <<challengeOn, addr, url, body, verdict, held, seen, lines, counted, alerts, restarts>>
    BY DEF Send, request, reports
<1> DEFINE b == IF verdict[r] = "Token" THEN Read(body[r]) ELSE Read(held[r])
<1>3. \/ sent' = [sent EXCEPT ![r] = b] /\ pc' = [pc EXCEPT ![r] = "upstream"] /\ UNCHANGED answer
      \/ sent' = sent /\ pc' = [pc EXCEPT ![r] = "done"] /\ answer' = [answer EXCEPT ![r] = "500"]
    BY DEF Send, Goto, Finish
<1>4. b \in Contents \cup {None} /\ (verdict[r] # "Token" => Lossy(b) = seen[r])
    BY <1>1, ProxyAssumption DEF Good, BodyInv, Read, ProxyInv, ProxyTypes
<1> HIDE DEF b
<1>5. ProxyTypes'
    BY <1>2, <1>3, <1>4 DEF ProxyInv, ProxyTypes, Pcs, Awaiting, Running, Answers
<1>6. \A q \in Requests \ {r} : Same(q)
    BY <1>2, <1>3 DEF Same, ProxyInv, ProxyTypes
<1>7. Good(r)'
    <2>1. lines[r] \in Seq(Classes) /\ pc'[r] \in {"upstream", "done"}
          /\ sent'[r] \in {b, None}
        BY <1>1, <1>3, BooksOf DEF ProxyInv, ProxyTypes
    <2>2. NoLeak(r)' /\ ~ Leaked(r)' /\ Told(r)' = lines'[r] /\ Alerted(r)' = Alerted(r)
        BY <1>1, <1>2, <2>1, NoLeakTold DEF NoLeak, Told, Leaked, Alerted
    <2>3. Alerted(r) \in Nat
        BY DEF Alerted
    <2>4. BookInv(r)'
        BY <1>1, <1>2, <2>1, <2>2, <2>3, PrefixSelf DEF BookInv
    <2>5. BodyInv(r)'
        BY <1>1, <1>2, <1>4, <2>1 DEF Good, BodyInv
    <2>6. TokenInv(r)'
        BY <1>1, <1>2, <2>1 DEF Good, TokenInv
    <2> QED
        BY <2>4, <2>5, <2>6 DEF Good
<1> QED
    BY <1>2, <1>5, <1>6, <1>7, OnlyOne

(* What upstream did is written to the file.                               *)
LEMMA UpstreamStep ==
    ASSUME ProxyInv, NEW r \in Requests, UpstreamAnswers(r) \/ UpstreamFails(r)
    PROVE  ProxyInv'
<1>1. pc[r] = "upstream" /\ Good(r) /\ NoLeak(r) /\ lines[r] = counted[r]
      /\ Len(alerts[r]) = Alerted(r)
    BY BooksOf DEF Good, BookInv, UpstreamAnswers, UpstreamFails
<1>2. /\ UNCHANGED <<challengeOn, addr, url, body, verdict, held, seen, sent, counted, alerts, answer, restarts>>
      /\ pc' = [pc EXCEPT ![r] = "count"]
    BY DEF UpstreamAnswers, UpstreamFails, request, Goto
<1>3. PICK c \in Classes \ {"DLP"} : lines' = Add(lines, r, c)
    <2>1. UpstreamAnswers(r) => lines' = Add(lines, r, "LOG") \/ lines' = Add(lines, r, "ALLOW")
        BY DEF UpstreamAnswers
    <2>2. UpstreamFails(r) => lines' = Add(lines, r, "ERROR")
        BY DEF UpstreamFails
    <2> QED
        BY <2>1, <2>2 DEF Classes
<1>4. /\ lines' \in [Requests -> Seq(Classes)]
      /\ lines'[r] = Append(lines[r], c)
      /\ \A q \in Requests \ {r} : lines'[q] = lines[q]
    <2>1. lines \in [Requests -> Seq(Classes)]
        BY DEF ProxyInv, ProxyTypes
    <2>2. ASSUME NEW log \in [Requests -> Seq(Classes)]
          PROVE  /\ Add(log, r, c) \in [Requests -> Seq(Classes)]
                 /\ Add(log, r, c)[r] = Append(log[r], c)
                 /\ \A q \in Requests \ {r} : Add(log, r, c)[q] = log[q]
        BY AddType
    <2> QED
        BY <1>3, <2>1, <2>2
<1>5. ProxyTypes'
    BY <1>2, <1>4 DEF ProxyInv, ProxyTypes, Pcs, Running
<1>6. \A q \in Requests \ {r} : Same(q)
    BY <1>2, <1>4 DEF Same, ProxyInv, ProxyTypes
<1>7. Good(r)'
    <2>1. lines[r] \in Seq(Classes) /\ pc'[r] = "count" /\ Alerted(r)' = Alerted(r)
        BY <1>2, BooksOf DEF ProxyInv, ProxyTypes, Alerted
    <2>2. NoLeak(r)'
        BY <1>1, <1>4, <2>1 DEF NoLeak
    <2>3. Told(r)' = lines'[r]
        BY <1>4, <2>2, NoLeakTold DEF NoLeak, Told, Leaked, Last
    <2>4. BookInv(r)'
        BY <1>1, <1>2, <1>4, <2>1, <2>2, <2>3, PrefixSelf DEF BookInv
    <2>5. BodyInv(r)'
        BY <1>1, <1>2, <2>1 DEF Good, BodyInv
    <2>6. TokenInv(r)'
        BY <1>1, <1>2, <2>1 DEF Good, TokenInv
    <2> QED
        BY <2>4, <2>5, <2>6 DEF Good
<1> QED
    BY <1>2, <1>5, <1>6, <1>7, OnlyOne

(* The counters catch up with the file.                                    *)
LEMMA CountStep ==
    ASSUME ProxyInv, NEW r \in Requests, Count(r)
    PROVE  ProxyInv'
<1>1. pc[r] = "count" /\ Good(r) /\ NoLeak(r) /\ Len(alerts[r]) = Alerted(r)
    BY BooksOf DEF Good, BookInv, Count
<1>2. PICK c \in Classes \ {"DLP"} : lines[r] = Append(counted[r], c)
    BY <1>1 DEF Good, BookInv
<1>3. Last(lines[r]) = c
    BY <1>2, BooksOf DEF Last
<1>4. /\ UNCHANGED <<challengeOn, addr, url, body, verdict, held, seen, sent, lines, alerts, restarts>>
      /\ counted' = Add(counted, r, c)
      /\ \/ pc' = [pc EXCEPT ![r] = "done"] /\ answer' = [answer EXCEPT ![r] = "502"]
         \/ pc' = [pc EXCEPT ![r] = "collect"] /\ answer' = answer
    BY <1>3 DEF Count, request, Goto, Finish
<1>5. /\ counted' \in [Requests -> Seq(Classes)]
      /\ counted'[r] = Append(counted[r], c)
      /\ \A q \in Requests \ {r} : counted'[q] = counted[q]
    <2>1. counted \in [Requests -> Seq(Classes)]
        BY DEF ProxyInv, ProxyTypes
    <2>2. ASSUME NEW log \in [Requests -> Seq(Classes)]
          PROVE  /\ Add(log, r, c) \in [Requests -> Seq(Classes)]
                 /\ Add(log, r, c)[r] = Append(log[r], c)
                 /\ \A q \in Requests \ {r} : Add(log, r, c)[q] = log[q]
        BY AddType
    <2> QED
        BY <1>4, <2>1, <2>2
<1>6. ProxyTypes'
    BY <1>4, <1>5 DEF ProxyInv, ProxyTypes, Pcs, Awaiting, Answers
<1>7. \A q \in Requests \ {r} : Same(q)
    BY <1>4, <1>5 DEF Same, ProxyInv, ProxyTypes
<1>8. Good(r)'
    <2>1. lines[r] \in Seq(Classes) /\ pc'[r] \in {"done", "collect"} /\ Alerted(r)' = Alerted(r)
        BY <1>4, BooksOf DEF ProxyInv, ProxyTypes, Alerted
    <2>2. NoLeak(r)' /\ ~ Leaked(r)' /\ Told(r)' = lines'[r] /\ lines'[r] = counted'[r]
        BY <1>1, <1>2, <1>4, <1>5, <2>1, NoLeakTold DEF NoLeak, Told, Leaked
    <2>3. Alerted(r) \in Nat
        BY DEF Alerted
    <2>4. BookInv(r)'
        BY <1>1, <1>4, <2>1, <2>2, <2>3, PrefixSelf DEF BookInv
    <2>5. BodyInv(r)'
        BY <1>1, <1>4, <2>1 DEF Good, BodyInv
    <2>6. TokenInv(r)'
        BY <1>1, <1>4, <2>1 DEF Good, TokenInv
    <2> QED
        BY <2>4, <2>5, <2>6 DEF Good
<1> QED
    BY <1>4, <1>6, <1>7, <1>8, OnlyOne

(* A leak adds a line that is not told and an alert; nothing is counted.   *)
LEMMA DeliverStep ==
    ASSUME ProxyInv, NEW r \in Requests, Deliver(r)
    PROVE  ProxyInv'
<1>1. pc[r] = "collect" /\ Good(r) /\ NoLeak(r) /\ Len(alerts[r]) = Alerted(r)
      /\ lines[r] = counted[r]
    BY BooksOf DEF Good, BookInv, Deliver
<1>2. /\ UNCHANGED <<challengeOn, addr, url, body, verdict, held, seen, sent, counted, restarts>>
      /\ pc' = [pc EXCEPT ![r] = "done"] /\ answer' = [answer EXCEPT ![r] = "upstream"]
      /\ \/ lines' = lines /\ alerts' = alerts
         \/ lines' = Add(lines, r, "DLP") /\ alerts' = Add(alerts, r, "LOG")
    BY DEF Deliver, request, Goto, Finish
<1>3. ASSUME NEW log \in [Requests -> Seq(Classes)], NEW c \in {"DLP", "LOG"}
      PROVE  /\ Add(log, r, c) \in [Requests -> Seq(Classes)]
             /\ Add(log, r, c)[r] = Append(log[r], c)
             /\ \A q \in Requests \ {r} : Add(log, r, c)[q] = log[q]
    BY AddType DEF Classes
<1>4. lines \in [Requests -> Seq(Classes)] /\ alerts \in [Requests -> Seq(Classes)]
    BY DEF ProxyInv, ProxyTypes
<1>5. /\ lines' \in [Requests -> Seq(Classes)] /\ alerts' \in [Requests -> Seq(Classes)]
      /\ \A q \in Requests \ {r} : lines'[q] = lines[q] /\ alerts'[q] = alerts[q]
      /\ \/ lines'[r] = lines[r] /\ alerts'[r] = alerts[r]
         \/ lines'[r] = Append(lines[r], "DLP") /\ alerts'[r] = Append(alerts[r], "LOG")
    BY <1>2, <1>3, <1>4
<1>6. ProxyTypes'
    BY <1>2, <1>5 DEF ProxyInv, ProxyTypes, Pcs, Answers
<1>7. \A q \in Requests \ {r} : Same(q)
    BY <1>2, <1>5 DEF Same, ProxyInv, ProxyTypes
<1>8. Good(r)'
    <2>1. lines[r] \in Seq(Classes) /\ alerts[r] \in Seq(Classes) /\ pc'[r] = "done"
          /\ Alerted(r)' = Alerted(r) /\ Alerted(r) \in Nat
        BY <1>2, BooksOf DEF ProxyInv, ProxyTypes, Alerted
    <2>2. CASE lines'[r] = lines[r] /\ alerts'[r] = alerts[r]
        <3>1. ~ Leaked(r)' /\ Told(r)' = lines'[r]
            BY <1>1, <2>1, <2>2, NoLeakTold DEF Told, Leaked
        <3> QED
            BY <1>1, <1>2, <2>1, <2>2, <3>1, PrefixSelf DEF BookInv, Good, BodyInv, TokenInv
    <2>3. CASE lines'[r] = Append(lines[r], "DLP") /\ alerts'[r] = Append(alerts[r], "LOG")
        <3>1. Leaked(r)' /\ Told(r)' = lines[r]
            BY <2>1, <2>3, LeakTold DEF Told, Leaked
        <3>2. Len(alerts'[r]) = Alerted(r) + 1
            BY <1>1, <2>1, <2>3
        <3>3. BookInv(r)'
            BY <1>1, <1>2, <2>1, <3>1, <3>2, PrefixSelf DEF BookInv
        <3> QED
            BY <1>1, <1>2, <2>1, <3>3 DEF Good, BodyInv, TokenInv
    <2> QED
        BY <1>5, <2>2, <2>3
<1> QED
    BY <1>2, <1>6, <1>7, <1>8, OnlyOne

(* The client goes away: whatever was written stays.                       *)
LEMMA HangUpStep ==
    ASSUME ProxyInv, NEW r \in Requests, HangUp(r)
    PROVE  ProxyInv'
<1> USE DEF HangUp, request, reports, Goto
<1>1. ProxyTypes'
    BY DEF ProxyInv, ProxyTypes, Pcs
<1>2. \A q \in Requests \ {r} : Same(q)
    BY DEF Same, ProxyInv, ProxyTypes
<1>3. Good(r)'
    <2>1. Good(r) /\ pc[r] \notin {"idle", "done", "gone"} /\ pc'[r] = "gone"
        BY DEF ProxyInv, ProxyTypes, Awaiting
    <2>2. Told(r)' = Told(r)
        BY DEF Told, Leaked
    <2> QED
        BY <2>1, <2>2 DEF Good, BodyInv, TokenInv, BookInv
<1> QED
    BY <1>1, <1>2, <1>3, OnlyOne

(* A restart empties counters and alerts: the file is ahead of them.       *)
LEMMA RestartStep ==
    ASSUME ProxyInv, Restart
    PROVE  ProxyInv'
<1>1. /\ UNCHANGED <<challengeOn, addr, url, body, verdict, held, seen, sent, lines, answer>>
      /\ restarts' = restarts + 1 /\ restarts \in Nat
      /\ pc' = [r \in Requests |-> IF pc[r] \in {"idle", "done"} THEN pc[r] ELSE "gone"]
      /\ counted' = [r \in Requests |-> <<>>] /\ alerts' = [r \in Requests |-> <<>>]
    BY DEF Restart, request, ProxyInv, ProxyTypes
<1>2. ProxyTypes'
    BY <1>1 DEF ProxyInv, ProxyTypes, Pcs
<1>3. ASSUME NEW r \in Requests PROVE Good(r)'
    <2>1. Good(r) /\ pc[r] \in Pcs /\ lines[r] \in Seq(Classes)
        BY DEF ProxyInv, ProxyTypes
    <2>2. pc'[r] \in {"idle", "done", "gone"} /\ (pc'[r] = "idle" <=> pc[r] = "idle")
          /\ restarts' # 0 /\ counted'[r] = <<>> /\ Len(alerts'[r]) = 0 /\ lines'[r] = lines[r]
        BY <1>1, EmptySeq
    <2>3. Told(r)' \in Seq(Classes) /\ (NoLeak(r)' <=> NoLeak(r))
        BY <1>1, <2>1 DEF Told, Leaked, Front, NoLeak
    <2>4. BookInv(r)'
        BY <2>1, <2>2, <2>3, PrefixEmpty DEF Good, BookInv
    <2> QED
        BY <1>1, <2>1, <2>2, <2>4 DEF Good, BodyInv, TokenInv
<1> QED
    BY <1>2, <1>3 DEF ProxyInv

(* A stuttering step.                                                      *)
LEMMA StutterStep == ProxyInv /\ UNCHANGED vars => ProxyInv'
<1> SUFFICES ASSUME ProxyInv, UNCHANGED vars PROVE ProxyInv'
    OBVIOUS
<1> USE DEF vars, request, reports
<1>1. ProxyTypes'
    BY DEF ProxyInv, ProxyTypes
<1>2. \A q \in Requests : Good(q)'
    BY Frame DEF ProxyInv, Same
<1> QED
    BY <1>1, <1>2 DEF ProxyInv

(* Where a client may come from: URLs made of the script's tokens.         *)
LEMMA ClientStep ==
    ASSUME ProxyInv, NEW r \in Requests, Visit(r) \/ Follow(r)
    PROVE  ProxyInv'
<1>1. url \in [Requests -> Seq(Made)] /\ addr \in [Requests -> Addresses]
    BY DEF ProxyInv, ProxyTypes
<1>2. CASE Visit(r)
    <2>1. PICK u : u \in {<<>>} \cup {url[q] : q \in {p \in Requests : pc[p] = "done"}} /\ Handle(r, u)
        BY <1>2 DEF Visit
    <2>2. u \in Seq(Made)
        BY <1>1, <2>1, EmptySeq
    <2> QED
        BY <2>1, <2>2, HandleStep
<1>3. CASE Follow(r)
    <2>1. PICK q \in Requests : Handle(r, Redirect(url[q], addr[q]))
        BY <1>3 DEF Follow
    <2>2. [c |-> addr[q], n |-> Solve(addr[q]), h |-> Digest[addr[q]][Solve(addr[q])]] \in Made
        BY <1>1 DEF Made
    <2>3. Redirect(url[q], addr[q]) \in Seq(Made)
        BY <1>1, <2>2 DEF Redirect
    <2> QED
        BY <2>1, <2>3, HandleStep
<1> QED
    BY <1>2, <1>3

THEOREM ProxyInductive == Spec => []ProxyInv
<1>1. ProxyInv /\ [Next]_vars => ProxyInv'
    BY ClientStep, InspectStep, PublishStep, SendStep, UpstreamStep, CountStep, DeliverStep,
       HangUpStep, RestartStep, StutterStep DEF Next, Own, Outside
<1> QED
    BY <1>1, ProxyInit, PTL DEF Spec

-----------------------------------------------------------------------------
(* Without a token, what was inspected is the text (proxy.rs:91) of the    *)
(* bytes that upstream gets (lines 106 and 116), although the body is read *)
(* twice and emptied at either place when it is over the limit (lines 87   *)
(* and 164): a text of no more than those bytes, and of all of them.       *)
THEOREM SameBodyHolds == Spec => []SameBody
<1>1. ProxyInv => SameBody
    BY DEF ProxyInv, Good, BodyInv, SameBody
<1> QED
    BY <1>1, ProxyInductive, PTL

(* A token the script makes passes for its client, whatever the digest     *)
(* function is (challenge.rs:66-89 and 131-158).                           *)
THEOREM OwnTokenAlwaysPasses == Spec => []OwnTokenPasses
<1>1. ProxyInv => OwnTokenPasses
    BY DEF ProxyInv, Good, TokenInv, OwnTokenPasses
<1> QED
    BY <1>1, ProxyInductive, PTL

(* A restart loses counters and alerts, never a line: the file is ahead of *)
(* the counters, by one line at most while the request is served.          *)
THEOREM FileStaysAhead == Spec => []FileAhead
<1>1. ProxyInv => FileAhead
    <2> SUFFICES ASSUME ProxyInv, NEW r \in Requests
                 PROVE  /\ IsPrefix(counted[r], Told(r))
                        /\ pc[r] \notin {"done", "gone"} => Len(Told(r)) - Len(counted[r]) \in {0, 1}
                        /\ pc[r] = "done" /\ restarts = 0 => counted[r] = Told(r)
        BY DEF FileAhead
    <2>1. BookInv(r) /\ lines[r] \in Seq(Classes) /\ counted[r] \in Seq(Classes) /\ pc[r] \in Pcs
          /\ verdict[r] \in Decisions
        BY BooksOf DEF Good, ProxyInv, ProxyTypes
    <2>2. ASSUME pc[r] \notin {"done", "gone"}
          PROVE  Len(Told(r)) - Len(counted[r]) \in {0, 1}
        <3>1. Told(r) = lines[r]
            BY <2>1, <2>2, NoLeakTold DEF BookInv
        <3>2. lines[r] = counted[r] \/ \E c \in Classes : lines[r] = Append(counted[r], c)
            BY <2>1, <2>2 DEF BookInv, Pcs, Awaiting, Running, ClassOf, Classes
        <3> QED
            BY <2>1, <3>1, <3>2
    <2> QED
        BY <2>1, <2>2 DEF BookInv
<1> QED
    BY <1>1, ProxyInductive, PTL

(* Every verdict but Allow, and every leak, is notified exactly once.      *)
THEOREM NotifiedExactlyOnce == Spec => []EachNotifiedOnce
<1>1. ProxyInv => EachNotifiedOnce
    BY DEF ProxyInv, Good, BookInv, EachNotifiedOnce, Alerted
<1> QED
    BY <1>1, ProxyInductive, PTL

-----------------------------------------------------------------------------
(* The argument for FileTellsAnswer: at each stage the lines of a request  *)
(* are the one of a Log verdict, if it was one, and that of upstream.      *)
First(r) == IF verdict[r] = "Log" THEN Append(<<>>, "LOG") ELSE <<>>
Success(r) == IF verdict[r] = "Log" THEN "LOG" ELSE "ALLOW"

Ending(r) ==
    \/ /\ answer[r] \in {"page", "403"} /\ sent[r] = None
       /\ lines[r] \in {Append(<<>>, "CHALLENGE"), Append(<<>>, "BLOCK")}
    \/ answer[r] = "500" /\ sent[r] = None /\ lines[r] = First(r)
    \/ answer[r] = "502" /\ sent[r] # None /\ lines[r] = Append(First(r), "ERROR")
    \/ /\ answer[r] = "upstream" /\ sent[r] # None
       /\ \/ lines[r] = Append(First(r), Success(r))
          \/ lines[r] = Append(Append(First(r), Success(r)), "DLP")

Story(r) ==
    /\ pc[r] # "done" => answer[r] = None
    /\ pc[r] = "publish" => lines[r] = Append(<<>>, ClassOf[verdict[r]])
    /\ pc[r] \in {"publish", "forward"} /\ verdict[r] # "Token" => held[r] \in Contents
    /\ pc[r] \in {"forward", "upstream"} => lines[r] = First(r)
    /\ pc[r] \in {"upstream", "count", "collect"} => sent[r] # None
    /\ pc[r] = "count" => \/ lines[r] = Append(First(r), Success(r))
                          \/ lines[r] = Append(First(r), "ERROR")
    /\ pc[r] = "collect" => lines[r] = Append(First(r), Success(r))
    /\ pc[r] = "done" => Ending(r)

Stories == \A r \in Requests : Story(r)

(* A line at the end of a log.                                             *)
LEMMA Appended ==
    ASSUME NEW s \in Seq(Classes), NEW c \in Classes
    PROVE  /\ Append(s, c) \in Seq(Classes) /\ Len(Append(s, c)) = Len(s) + 1
           /\ Append(s, c) # <<>>
           /\ Last(Append(s, c)) = c
           /\ Front(Append(s, c)) = s
           /\ Range(Append(s, c)) = Range(s) \cup {c}
<1>1. /\ Append(s, c) \in Seq(Classes) /\ Len(Append(s, c)) = Len(s) + 1
      /\ Append(s, c)[Len(s) + 1] = c
      /\ \A i \in 1 .. Len(s) : Append(s, c)[i] = s[i]
      /\ Len(s) \in Nat
    OBVIOUS
<1>2. Append(s, c) # <<>> /\ Last(Append(s, c)) = c
    BY <1>1, EmptySeq DEF Last
<1>3. Front(Append(s, c)) = s
    BY <1>1 DEF Front
<1>4. /\ DOMAIN s = 1 .. Len(s)
      /\ DOMAIN Append(s, c) = (1 .. Len(s)) \cup {Len(s) + 1}
    BY <1>1
<1>5. Range(Append(s, c)) = Range(s) \cup {c}
    BY <1>1, <1>4 DEF Range
<1> QED
    BY <1>1, <1>2, <1>3, <1>5

LEMMA EmptyRange == Range(<<>>) = {}
<1>1. DOMAIN <<>> = {}
    OBVIOUS
<1> QED
    BY <1>1 DEF Range

LEMMA OneLine ==
    ASSUME NEW c \in Classes
    PROVE  /\ Append(<<>>, c) \in Seq(Classes) /\ Len(Append(<<>>, c)) = 1
           /\ Append(<<>>, c) # <<>> /\ Last(Append(<<>>, c)) = c
           /\ Range(Append(<<>>, c)) = {c}
<1> DEFINE e == <<>>
<1>1. e \in Seq(Classes) /\ Len(e) = 0 /\ Range(e) = {}
    BY EmptySeq, EmptyRange
<1> HIDE DEF e
<1>2. /\ Append(e, c) \in Seq(Classes) /\ Len(Append(e, c)) = Len(e) + 1
      /\ Append(e, c) # <<>> /\ Last(Append(e, c)) = c
      /\ Range(Append(e, c)) = Range(e) \cup {c}
    BY <1>1, Appended
<1>3. /\ Append(e, c) \in Seq(Classes) /\ Len(Append(e, c)) = 1
      /\ Append(e, c) # <<>> /\ Last(Append(e, c)) = c
      /\ Range(Append(e, c)) = {c}
    BY <1>1, <1>2
<1> QED
    BY <1>3 DEF e

LEMMA FirstLines ==
    ASSUME NEW r
    PROVE  /\ First(r) \in Seq(Classes) /\ "ERROR" \notin Range(First(r))
           /\ \/ /\ verdict[r] = "Log" /\ Len(First(r)) = 1
                 /\ First(r) # <<>> /\ Last(First(r)) = "LOG"
              \/ verdict[r] # "Log" /\ First(r) = <<>>
<1>1. <<>> \in Seq(Classes) /\ Len(<<>>) = 0 /\ Range(<<>>) = {}
    BY EmptySeq, EmptyRange
<1>2. CASE verdict[r] = "Log"
    <2>1. "LOG" \in Classes
        BY DEF Classes
    <2>2. First(r) = Append(<<>>, "LOG")
        BY <1>2 DEF First
    <2> QED
        BY <1>2, <2>1, <2>2, OneLine
<1>3. CASE verdict[r] # "Log"
    BY <1>1, <1>3 DEF First
<1> QED
    BY <1>2, <1>3

(* A step of one request leaves the stories of the others alone.           *)
LEMMA StoryStays ==
    ASSUME NEW q, Story(q),
           pc'[q] = pc[q], verdict'[q] = verdict[q], held'[q] = held[q],
           sent'[q] = sent[q], lines'[q] = lines[q], answer'[q] = answer[q]
    PROVE  Story(q)'
BY DEF Story, Ending, First, Success

LEMMA StoryInit == Init => Stories
<1> SUFFICES ASSUME Init, NEW r \in Requests PROVE Story(r)
    BY DEF Stories
<1> QED
    BY DEF Init, Story

LEMMA StoryHandle ==
    ASSUME ProxyInv, NEW r \in Requests, Story(r), NEW u, Handle(r, u)
    PROVE  Story(r)'
<1> USE DEF ProxyInv, ProxyTypes, Handle, Goto, reports
<1>1. pc[r] = "idle" /\ lines'[r] = <<>> /\ answer'[r] = None
    BY BooksOf DEF Good, BookInv, Story
<1>2. \/ pc'[r] = "forward" /\ verdict'[r] = "Token"
      \/ pc'[r] = "body"
    BY <1>1
<1> QED
    BY <1>1, <1>2 DEF Story, First

LEMMA StoryInspect ==
    ASSUME ProxyInv, NEW r \in Requests, Story(r), Inspect(r)
    PROVE  Story(r)'
<1>1. PICK v \in Verdicts :
         /\ verdict' = [verdict EXCEPT ![r] = v]
         /\ IF v = "Allow" THEN Goto(r, "forward") /\ UNCHANGED lines
            ELSE /\ lines' = Add(lines, r, ClassOf[v])
                 /\ Goto(r, "publish")
    BY DEF Inspect
<1>2. pc[r] = "body" /\ lines[r] = <<>> /\ answer'[r] = None
    BY BooksOf DEF Good, BookInv, Story, Inspect
<1>3. verdict'[r] = v
    BY <1>1 DEF ProxyInv, ProxyTypes
<1>4. held'[r] \in Contents
    BY ProxyAssumption DEF Inspect, Read, ProxyInv, ProxyTypes
<1>5. \/ v = "Allow" /\ pc'[r] = "forward" /\ lines'[r] = <<>>
      \/ v # "Allow" /\ pc'[r] = "publish" /\ lines'[r] = Append(<<>>, ClassOf[v])
    <2>1. CASE v = "Allow"
        BY <1>1, <1>2, <2>1 DEF Goto, ProxyInv, ProxyTypes
    <2>2. CASE v # "Allow"
        <3>1. lines'[r] = Append(<<>>, ClassOf[v])
            BY <1>1, <1>2, <2>2 DEF Add, ProxyInv, ProxyTypes
        <3> QED
            BY <1>1, <2>2, <3>1 DEF Goto, ProxyInv, ProxyTypes
    <2> QED
        BY <2>1, <2>2
<1> QED
    BY <1>2, <1>3, <1>4, <1>5 DEF Story, First

LEMMA StoryPublish ==
    ASSUME ProxyInv, NEW r \in Requests, Story(r), Publish(r)
    PROVE  Story(r)'
<1>1. /\ pc[r] = "publish" /\ answer[r] = None /\ sent[r] = None
      /\ verdict[r] \in {"Log", "Challenge", "Block"}
      /\ lines[r] = Append(<<>>, ClassOf[verdict[r]])
      /\ held[r] \in Contents
    BY BooksOf DEF Good, BookInv, BodyInv, Publish, Story
<1>2. UNCHANGED <<verdict, held, seen, sent, lines>>
    BY DEF Publish
<1>3. \/ verdict[r] = "Log" /\ pc'[r] = "forward" /\ answer'[r] = None
      \/ verdict[r] = "Challenge" /\ pc'[r] = "done" /\ answer'[r] = "page"
      \/ verdict[r] = "Block" /\ pc'[r] = "done" /\ answer'[r] = "403"
    BY <1>1 DEF Publish, Goto, Finish, ProxyInv, ProxyTypes
<1> QED
    BY <1>1, <1>2, <1>3 DEF Story, First, Ending, ClassOf

LEMMA StorySend ==
    ASSUME ProxyInv, NEW r \in Requests, Story(r), Send(r)
    PROVE  Story(r)'
<1> DEFINE b == IF verdict[r] = "Token" THEN Read(body[r]) ELSE Read(held[r])
<1>1. /\ pc[r] = "forward" /\ answer[r] = None /\ sent[r] = None
      /\ lines[r] = First(r)
    BY BooksOf DEF Good, BodyInv, Send, Story
<1>2. UNCHANGED <<verdict, held, seen, lines>>
    BY DEF Send, reports
<1>3. b # None
    BY <1>1, ProxyAssumption DEF Story, Read, ProxyInv, ProxyTypes
<1>4. \/ sent'[r] = b /\ pc'[r] = "upstream" /\ answer'[r] = None
      \/ sent'[r] = None /\ pc'[r] = "done" /\ answer'[r] = "500"
    BY <1>1 DEF Send, Goto, Finish, ProxyInv, ProxyTypes
<1> HIDE DEF b
<1> QED
    BY <1>1, <1>2, <1>3, <1>4 DEF Story, First, Ending

LEMMA StoryUpstream ==
    ASSUME ProxyInv, NEW r \in Requests, Story(r), UpstreamAnswers(r) \/ UpstreamFails(r)
    PROVE  Story(r)'
<1>1. /\ pc[r] = "upstream" /\ answer[r] = None /\ sent[r] # None
      /\ lines[r] = First(r)
    BY DEF UpstreamAnswers, UpstreamFails, Story
<1>2. /\ UNCHANGED <<verdict, held, seen, sent, answer>>
      /\ pc'[r] = "count"
    BY DEF UpstreamAnswers, UpstreamFails, Goto, ProxyInv, ProxyTypes
<1>3. lines'[r] = Append(lines[r], Success(r)) \/ lines'[r] = Append(lines[r], "ERROR")
    BY DEF UpstreamAnswers, UpstreamFails, Add, Success, ProxyInv, ProxyTypes
<1> QED
    BY <1>1, <1>2, <1>3 DEF Story, First, Success

LEMMA StoryCount ==
    ASSUME ProxyInv, NEW r \in Requests, Story(r), Count(r)
    PROVE  Story(r)'
<1>1. /\ pc[r] = "count" /\ answer[r] = None /\ sent[r] # None
      /\ \/ lines[r] = Append(First(r), Success(r))
         \/ lines[r] = Append(First(r), "ERROR")
    BY DEF Count, Story
<1>2. UNCHANGED <<verdict, held, seen, sent, lines>>
    BY DEF Count
<1>3. \/ Last(lines[r]) = "ERROR" /\ pc'[r] = "done" /\ answer'[r] = "502"
      \/ Last(lines[r]) # "ERROR" /\ pc'[r] = "collect" /\ answer'[r] = None
    BY <1>1 DEF Count, Goto, Finish, ProxyInv, ProxyTypes
<1>5. /\ lines[r] = Append(First(r), Success(r)) => Last(lines[r]) # "ERROR"
      /\ lines[r] = Append(First(r), "ERROR") => Last(lines[r]) = "ERROR"
    <2>1. \A c \in {"LOG", "ALLOW", "ERROR"} : Last(Append(First(r), c)) = c
        BY FirstLines, Appended DEF Classes
    <2> QED
        BY <2>1 DEF Success
<1> QED
    BY <1>1, <1>2, <1>3, <1>5 DEF Story, First, Success, Ending

LEMMA StoryDeliver ==
    ASSUME ProxyInv, NEW r \in Requests, Story(r), Deliver(r)
    PROVE  Story(r)'
<1>1. /\ pc[r] = "collect" /\ answer[r] = None /\ sent[r] # None
      /\ lines[r] = Append(First(r), Success(r))
    BY DEF Deliver, Story
<1>2. UNCHANGED <<verdict, held, seen, sent>>
    BY DEF Deliver
<1>3. /\ pc'[r] = "done" /\ answer'[r] = "upstream"
      /\ lines'[r] = lines[r] \/ lines'[r] = Append(lines[r], "DLP")
    BY DEF Deliver, Finish, Goto, Add, ProxyInv, ProxyTypes
<1> QED
    BY <1>1, <1>2, <1>3 DEF Story, First, Success, Ending

LEMMA StoryNext ==
    ASSUME ProxyInv, Stories, [Next]_vars
    PROVE  Stories'
<1> USE DEF ProxyInv, ProxyTypes
<1>1. ASSUME NEW r \in Requests, Visit(r) \/ Follow(r) \/ Own(r) \/ Outside(r) \/ HangUp(r)
      PROVE  Stories'
    <2>1. CASE \E u : Handle(r, u)
        <3>1. PICK u : Handle(r, u)
            BY <2>1
        <3>2. Story(r)'
            BY <3>1, StoryHandle DEF Stories
        <3>3. \A q \in Requests \ {r} : Story(q)'
            BY <3>1, StoryStays DEF Stories, Handle, Goto, reports
        <3> QED
            BY <3>2, <3>3 DEF Stories
    <2>2. CASE Inspect(r)
        <3>1. \A q \in Requests \ {r} : Story(q)'
            <4>1. \A q \in Requests \ {r} :
                     /\ pc'[q] = pc[q] /\ verdict'[q] = verdict[q] /\ held'[q] = held[q]
                     /\ sent'[q] = sent[q] /\ lines'[q] = lines[q] /\ answer'[q] = answer[q]
                BY <2>2 DEF Inspect, Goto, Add
            <4> QED
                BY <4>1, StoryStays DEF Stories
        <3> QED
            BY <2>2, <3>1, StoryInspect DEF Stories
    <2>3. CASE Publish(r)
        <3>1. \A q \in Requests \ {r} : Story(q)'
            <4>1. verdict[r] \in {"Log", "Challenge", "Block"}
                BY <2>3, BooksOf DEF Publish, Good, BookInv
            <4> QED
                BY <2>3, <4>1, StoryStays DEF Stories, Publish, Goto, Finish
        <3> QED
            BY <2>3, <3>1, StoryPublish DEF Stories
    <2>4. CASE Send(r)
        <3>1. \A q \in Requests \ {r} : Story(q)'
            BY <2>4, StoryStays DEF Stories, Send, Goto, Finish, reports
        <3> QED
            BY <2>4, <3>1, StorySend DEF Stories
    <2>5. CASE UpstreamAnswers(r) \/ UpstreamFails(r)
        <3>1. \A q \in Requests \ {r} : Story(q)'
            BY <2>5, StoryStays DEF Stories, UpstreamAnswers, UpstreamFails, Goto, Add
        <3> QED
            BY <2>5, <3>1, StoryUpstream DEF Stories
    <2>6. CASE Count(r)
        <3>1. \A q \in Requests \ {r} : Story(q)'
            BY <2>6, StoryStays DEF Stories, Count, Goto, Finish
        <3> QED
            BY <2>6, <3>1, StoryCount DEF Stories
    <2>7. CASE Deliver(r)
        <3>1. \A q \in Requests \ {r} : Story(q)'
            BY <2>7, StoryStays DEF Stories, Deliver, Goto, Finish, Add
        <3> QED
            BY <2>7, <3>1, StoryDeliver DEF Stories
    <2>8. CASE HangUp(r)
        <3>1. \A q \in Requests \ {r} : Story(q)'
            BY <2>8, StoryStays DEF Stories, HangUp, Goto, reports
        <3>2. Story(r)'
            BY <2>8 DEF Stories, Story, HangUp, Goto, Awaiting, reports
        <3> QED
            BY <3>1, <3>2 DEF Stories
    <2> QED
        BY <1>1, <2>1, <2>2, <2>3, <2>4, <2>5, <2>6, <2>7, <2>8 DEF Visit, Follow, Own, Outside
<1>2. CASE Restart
    <2> SUFFICES ASSUME NEW r \in Requests PROVE Story(r)'
        BY DEF Stories
    <2>1. /\ UNCHANGED <<verdict, held, seen, sent, lines, answer>>
          /\ \/ pc'[r] = pc[r] /\ pc[r] \in {"idle", "done"}
             \/ pc'[r] = "gone" /\ pc[r] # "done"
        BY <1>2 DEF Restart
    <2> QED
        BY <2>1 DEF Stories, Story, Ending, First, Success
<1>3. CASE UNCHANGED vars
    BY <1>3, StoryStays DEF vars, reports, Stories
<1> QED
    BY <1>1, <1>2, <1>3 DEF Next

(* What the lines of an answered request tell.                             *)
LEMMA EndingTells ==
    ASSUME ProxyInv, NEW r \in Requests, Ending(r)
    PROVE  /\ Told(r) = <<>> => answer[r] = "500"
           /\ (sent[r] # None) = (Told(r) # <<>> /\ (Last(Told(r)) \in {"ALLOW", "ERROR"} \/ Len(Told(r)) = 2))
           /\ answer[r] = "502" <=> "ERROR" \in Range(Told(r))
<1>1. /\ First(r) \in Seq(Classes) /\ "ERROR" \notin Range(First(r))
      /\ \/ verdict[r] = "Log" /\ Len(First(r)) = 1 /\ First(r) # <<>> /\ Last(First(r)) = "LOG"
         \/ verdict[r] # "Log" /\ First(r) = <<>>
    BY FirstLines
<1>2. CASE /\ answer[r] \in {"page", "403"} /\ sent[r] = None
           /\ lines[r] \in {Append(<<>>, "CHALLENGE"), Append(<<>>, "BLOCK")}
    <2>1. PICK c \in {"CHALLENGE", "BLOCK"} : lines[r] = Append(<<>>, c)
        BY <1>2
    <2>2. /\ Len(lines[r]) = 1 /\ lines[r] # <<>> /\ Last(lines[r]) = c
          /\ Range(lines[r]) = {c}
        BY <2>1, OneLine DEF Classes
    <2> QED
        BY <1>2, <2>2 DEF Told, Leaked
<1>3. CASE answer[r] = "500" /\ sent[r] = None /\ lines[r] = First(r)
    <2>1. Told(r) = First(r)
        BY <1>1, <1>3 DEF Told, Leaked
    <2>2. First(r) # <<>> => Last(First(r)) = "LOG" /\ Len(First(r)) = 1
        BY <1>1
    <2>3. Told(r) # <<>> => Last(Told(r)) = "LOG" /\ Len(Told(r)) = 1
        BY <2>1, <2>2
    <2>4. "ERROR" \notin Range(Told(r))
        BY <1>1, <2>1
    <2> QED
        BY <1>3, <2>3, <2>4
<1>4. CASE answer[r] = "502" /\ sent[r] # None /\ lines[r] = Append(First(r), "ERROR")
    <2>1. /\ lines[r] # <<>> /\ Last(lines[r]) = "ERROR"
          /\ Range(lines[r]) = Range(First(r)) \cup {"ERROR"}
        BY <1>1, <1>4, Appended DEF Classes
    <2> QED
        BY <1>4, <2>1 DEF Told, Leaked
<1>5. CASE /\ answer[r] = "upstream" /\ sent[r] # None
           /\ \/ lines[r] = Append(First(r), Success(r))
              \/ lines[r] = Append(Append(First(r), Success(r)), "DLP")
    <2> DEFINE t == Append(First(r), Success(r))
    <2>1. Success(r) \in Classes \ {"DLP", "ERROR"}
        BY DEF Success, Classes
    <2>2. /\ t \in Seq(Classes) /\ Len(t) = Len(First(r)) + 1 /\ t # <<>>
          /\ Last(t) = Success(r) /\ Range(t) = Range(First(r)) \cup {Success(r)}
        BY <1>1, <2>1, Appended
    <2> HIDE DEF t
    <2>3. Append(t, "DLP") # <<>> /\ Last(Append(t, "DLP")) = "DLP" /\ Front(Append(t, "DLP")) = t
        BY <2>2, Appended DEF Classes
    <2>4. Told(r) = t
        BY <1>5, <2>1, <2>2, <2>3 DEF Told, Leaked, t
    <2>5. Success(r) = "ALLOW" \/ Len(t) = 2
        <3>1. CASE verdict[r] = "Log"
            <4>1. Len(First(r)) = 1
                BY <1>1, <3>1
            <4> QED
                BY <2>2, <4>1
        <3> QED
            BY <3>1 DEF Success
    <2>6. "ERROR" \notin Range(t)
        BY <1>1, <2>1, <2>2
    <2> QED
        BY <1>5, <2>2, <2>4, <2>5, <2>6
<1> QED
    BY <1>2, <1>3, <1>4, <1>5 DEF Ending

(* The file tells what the client got, and whether upstream executed the   *)
(* request, whoever hangs up and whenever the process ends.                *)
THEOREM FileAlwaysTellsAnswer == Spec => []FileTellsAnswer
<1>1. ProxyInv /\ Stories => FileTellsAnswer
    <2> SUFFICES ASSUME ProxyInv, Stories, NEW r \in Requests
                 PROVE  /\ Told(r) = <<>> => answer[r] \in {None, "500"}
                        /\ answer[r] # None =>
                              (sent[r] # None) = (Told(r) # <<>> /\ (Last(Told(r)) \in {"ALLOW", "ERROR"} \/ Len(Told(r)) = 2))
                        /\ answer[r] = "502" <=> answer[r] # None /\ "ERROR" \in Range(Told(r))
        BY DEF FileTellsAnswer
    <2>1. CASE pc[r] = "done"
        <3>1. Ending(r) /\ answer[r] # None
            BY <2>1, ProxyAssumption DEF Stories, Story, Ending
        <3> QED
            BY <3>1, EndingTells
    <2>2. CASE pc[r] # "done"
        BY <2>2, ProxyAssumption DEF Stories, Story
    <2> QED
        BY <2>1, <2>2
<1> QED
    BY <1>1, ProxyInductive, StoryInit, StoryNext, PTL DEF Spec

-----------------------------------------------------------------------------
(* The argument for TypeOK: a URL grows by a token for each request that   *)
(* went through a challenge page, so it has fewer than there are requests. *)
Active == {r \in Requests : pc[r] # "idle"}

Sized ==
    /\ \A r \in Requests : counted[r] \in Seq(Classes \ {"DLP"})
    /\ \A r \in Requests : verdict[r] = "Challenge" => challengeOn
    /\ restarts <= MaxRestarts
    /\ \A r \in Requests : pc[r] = "idle" => url[r] = <<>>
    /\ \A r \in Active : Len(url[r]) < Cardinality(Active)

LEMMA ActiveFinite ==
    /\ IsFiniteSet(Active) /\ Cardinality(Active) \in Nat
    /\ Cardinality(Active) <= Cardinality(Requests) /\ Cardinality(Requests) \in Nat
<1>1. Active \in SUBSET Requests
    BY DEF Active
<1> QED
    BY <1>1, RequestsAssumption, FS_Subset, FS_CardinalityType

LEMMA SizedInit == Init => Sized
<1> SUFFICES ASSUME Init PROVE Sized
    OBVIOUS
<1>1. restarts <= MaxRestarts
    BY ProxyAssumption DEF Init
<1>2. Active = {}
    BY DEF Init, Active
<1>3. \A r \in Requests : counted[r] \in Seq(Classes \ {"DLP"})
    BY EmptySeq DEF Init
<1>4. \A r \in Requests : verdict[r] # "Challenge" /\ url[r] = <<>>
    BY ProxyAssumption DEF Init
<1> QED
    BY <1>1, <1>2, <1>3, <1>4 DEF Sized

(* A step that begins no request leaves the URLs alone.                    *)
LEMMA UrlsStay ==
    ASSUME Sized, ProxyTypes, UNCHANGED url,
           \A q \in Requests : pc'[q] = "idle" <=> pc[q] = "idle"
    PROVE  /\ \A r \in Requests : pc'[r] = "idle" => url'[r] = <<>>
           /\ \A r \in Active' : Len(url'[r]) < Cardinality(Active')
<1>1. Active' = Active
    BY DEF Active
<1> QED
    BY <1>1 DEF Sized

LEMMA SizedHandle ==
    ASSUME ProxyInv, Sized, NEW r \in Requests, NEW u, Handle(r, u),
           u = <<>> \/ \E q \in Active : Len(u) <= Len(url[q]) + 1 /\ Len(u) \in Nat
    PROVE  Sized'
<1> USE DEF ProxyInv, ProxyTypes, Sized, Handle, Goto, reports
<1>1. /\ pc[r] = "idle" /\ pc'[r] # "idle" /\ url'[r] = u
      /\ \A q \in Requests \ {r} : pc'[q] = pc[q] /\ url'[q] = url[q]
    OBVIOUS
<1>2. Active' = Active \cup {r} /\ r \notin Active
    BY <1>1 DEF Active
<1>3. Cardinality(Active') = Cardinality(Active) + 1
    BY <1>2, ActiveFinite, FS_AddElement
<1>4. \A q \in Active' : Len(url'[q]) < Cardinality(Active')
    <2>1. ASSUME NEW q \in Active PROVE Len(url'[q]) < Cardinality(Active')
        <3>1. q \in Requests /\ url'[q] = url[q] /\ Len(url[q]) \in Nat
            BY <1>1, <1>2 DEF Active
        <3> QED
            BY <1>3, <3>1, ActiveFinite
    <2>2. Len(u) < Cardinality(Active')
        <3>1. CASE u = <<>>
            BY <1>3, <3>1, ActiveFinite, EmptySeq
        <3>2. CASE \E q \in Active : Len(u) <= Len(url[q]) + 1 /\ Len(u) \in Nat
            <4>1. PICK q \in Active : Len(u) <= Len(url[q]) + 1 /\ Len(u) \in Nat
                BY <3>2
            <4>2. url[q] \in Seq(Made) /\ Len(url[q]) < Cardinality(Active)
                <5>1. q \in Requests
                    BY <4>1 DEF Active
                <5> QED
                    BY <4>1, <5>1
            <4>3. Len(url[q]) \in Nat
                BY <4>2, LenProperties
            <4>4. Cardinality(Active) \in Nat
                BY ActiveFinite
            <4> HIDE DEF ProxyInv, ProxyTypes, Sized, Handle, Goto, reports
            <4> QED
                BY <1>3, <4>1, <4>2, <4>3, <4>4
        <3> QED
            BY <3>1, <3>2
    <2> QED
        BY <1>1, <1>2, <2>1, <2>2
<1>5. \A q \in Requests : verdict'[q] = "Challenge" => challengeOn'
    OBVIOUS
<1> QED
    BY <1>1, <1>4, <1>5

LEMMA SizedNext ==
    ASSUME ProxyInv, Stories, Sized, [Next]_vars
    PROVE  Sized'
<1> USE DEF ProxyInv, ProxyTypes
<1>1. ASSUME NEW r \in Requests, Visit(r) PROVE Sized'
    <2>1. PICK u : u \in {<<>>} \cup {url[q] : q \in {p \in Requests : pc[p] = "done"}} /\ Handle(r, u)
        BY <1>1 DEF Visit
    <2>2. u = <<>> \/ \E q \in Active : Len(u) <= Len(url[q]) + 1 /\ Len(u) \in Nat
        <3>1. ASSUME NEW q \in Requests, pc[q] = "done", u = url[q]
              PROVE  q \in Active /\ Len(u) <= Len(url[q]) + 1 /\ Len(u) \in Nat
            <4>1. Len(url[q]) \in Nat
                OBVIOUS
            <4> QED
                BY <3>1, <4>1 DEF Active
        <3> QED
            BY <2>1, <3>1
    <2> QED
        BY <2>1, <2>2, SizedHandle
<1>2. ASSUME NEW r \in Requests, Follow(r) PROVE Sized'
    <2>1. PICK q \in Requests : answer[q] = "page" /\ Handle(r, Redirect(url[q], addr[q]))
        BY <1>2 DEF Follow
    <2>2. q \in Active
        BY <2>1, ProxyAssumption DEF Stories, Story, Active
    <2>3. Len(Redirect(url[q], addr[q])) = Len(url[q]) + 1 /\ Len(url[q]) \in Nat
        BY DEF Redirect
    <2> QED
        BY <2>1, <2>2, <2>3, SizedHandle
<1>3. ASSUME NEW r \in Requests, Inspect(r) PROVE Sized'
    <2>1. PICK v \in Verdicts : verdict' = [verdict EXCEPT ![r] = v]
        BY <1>3 DEF Inspect
    <2>2. \A q \in Requests : verdict'[q] = "Challenge" => challengeOn
        BY <2>1 DEF Sized, Verdicts
    <2>3. /\ UNCHANGED <<challengeOn, counted, restarts, url>>
          /\ \A q \in Requests : pc'[q] = "idle" <=> pc[q] = "idle"
        BY <1>3 DEF Inspect, request, Goto
    <2> QED
        BY <2>2, <2>3, UrlsStay DEF Sized
<1>4. ASSUME NEW r \in Requests, Publish(r) \/ Count(r) PROVE Sized'
    <2>1. PICK c \in Classes \ {"DLP"} : counted' = Add(counted, r, c)
        <3>1. CASE Publish(r)
            <4>1. verdict[r] \in {"Log", "Challenge", "Block"}
                BY <3>1, BooksOf DEF Publish, Good, BookInv
            <4>2. ClassOf[verdict[r]] \in Classes \ {"DLP"}
                BY <4>1 DEF ClassOf, Classes
            <4> QED
                BY <3>1, <4>2 DEF Publish
        <3>2. CASE Count(r)
            <4>1. PICK c \in Classes \ {"DLP"} : lines[r] = Append(counted[r], c)
                BY <3>2, BooksOf DEF Count, Good, BookInv
            <4>2. Last(lines[r]) = c
                BY <4>1, Appended
            <4> QED
                BY <3>2, <4>2 DEF Count
        <3> QED
            BY <1>4, <3>1, <3>2
    <2>2. \A q \in Requests : counted'[q] \in Seq(Classes \ {"DLP"})
        <3>1. counted[r] \in Seq(Classes \ {"DLP"})
            BY DEF Sized
        <3>2. Append(counted[r], c) \in Seq(Classes \ {"DLP"})
            BY <3>1
        <3>3. counted'[r] = Append(counted[r], c) /\ \A q \in Requests \ {r} : counted'[q] = counted[q]
            BY <2>1 DEF Add
        <3> QED
            BY <3>2, <3>3 DEF Sized
    <2>3. UNCHANGED <<challengeOn, verdict, restarts, url>>
        BY <1>4 DEF Publish, Count, request
    <2>4. \A q \in Requests : pc'[q] = "idle" <=> pc[q] = "idle"
        <3>1. pc[r] \in {"publish", "count"}
            BY <1>4 DEF Publish, Count
        <3>2. \E s \in {"forward", "done", "collect"} : pc' = [pc EXCEPT ![r] = s]
            <4>1. CASE Publish(r)
                <5>1. verdict[r] \in {"Log", "Challenge", "Block"}
                    BY <4>1, BooksOf DEF Publish, Good, BookInv
                <5> QED
                    BY <4>1, <5>1 DEF Publish, Goto, Finish
            <4>2. CASE Count(r)
                BY <4>2 DEF Count, Goto, Finish
            <4> QED
                BY <1>4, <4>1, <4>2
        <3> QED
            BY <3>1, <3>2
    <2> QED
        BY <2>2, <2>3, <2>4, UrlsStay DEF Sized
<1>5. ASSUME NEW r \in Requests,
             \/ Send(r) \/ UpstreamAnswers(r) \/ UpstreamFails(r) \/ Deliver(r) \/ HangUp(r)
      PROVE  Sized'
    <2>1. UNCHANGED <<challengeOn, verdict, counted, restarts, url>>
        BY <1>5 DEF Send, UpstreamAnswers, UpstreamFails, Deliver, HangUp, request, reports
    <2>2. /\ pc[r] # "idle"
          /\ \E s \in {"upstream", "done", "count", "gone"} : pc' = [pc EXCEPT ![r] = s]
        BY <1>5 DEF Send, UpstreamAnswers, UpstreamFails, Deliver, HangUp, Goto, Finish, Awaiting
    <2>3. \A q \in Requests : pc'[q] = "idle" <=> pc[q] = "idle"
        BY <2>2
    <2> QED
        BY <2>1, <2>3, UrlsStay DEF Sized
<1>6. CASE Restart
    <2>1. /\ UNCHANGED <<challengeOn, verdict, url>>
          /\ restarts' <= MaxRestarts
          /\ \A q \in Requests : pc'[q] = "idle" <=> pc[q] = "idle"
        BY <1>6, ProxyAssumption DEF Restart, request
    <2>2. \A q \in Requests : counted'[q] \in Seq(Classes \ {"DLP"})
        BY <1>6, EmptySeq DEF Restart
    <2> QED
        BY <2>1, <2>2, UrlsStay DEF Sized
<1>7. CASE UNCHANGED vars
    BY <1>7, UrlsStay DEF vars, request, reports, Sized
<1> QED
    BY <1>1, <1>2, <1>3, <1>4, <1>5, <1>6, <1>7 DEF Next, Own, Outside

(* The script's tokens are tokens.                                         *)
LEMMA MadeTokens == Made \subseteq Tokens
<1> SUFFICES ASSUME NEW a \in Addresses PROVE Solve(a) \in Nonces
    BY DEF Made, Tokens
<1> DEFINE found == {n \in Nonces : LeadingZeroBits(Digest[a][n]) >= Difficulty}
<1>1. found \in SUBSET Nat /\ found # {}
    BY DigestAssumption, WorkAssumption
<1>2. Solve(a) = Min(found)
    BY DEF Solve
<1> HIDE DEF found
<1>3. Solve(a) \in found
    BY <1>1, <1>2, Least
<1> QED
    BY <1>3 DEF found

(* The variables of the proxy keep their types, whatever the clients do:   *)
(* no leak is ever counted, no page answered while the challenge is off.   *)
THEOREM TypeCorrect == Spec => []TypeOK
<1>1. ProxyInv /\ Sized => TypeOK
    <2> SUFFICES ASSUME ProxyInv, Sized PROVE TypeOK
        OBVIOUS
    <2> USE DEF ProxyInv, ProxyTypes
    <2>1. ASSUME NEW r \in Requests
          PROVE  url[r] \in Seq(Tokens) /\ Len(url[r]) < Cardinality(Requests)
        <3>1. url[r] \in Seq(Tokens)
            BY MadeTokens
        <3>2. CASE pc[r] = "idle"
            <4>1. Cardinality(Requests) # 0
                BY RequestsAssumption, FS_EmptySet
            <4>2. Len(url[r]) = 0
                BY <3>2, EmptySeq DEF Sized
            <4> QED
                BY <3>1, <4>1, <4>2, ActiveFinite
        <3>3. CASE pc[r] # "idle"
            <4>1. r \in Active /\ Len(url[r]) \in Nat
                BY <3>3 DEF Active
            <4> QED
                BY <3>1, <4>1, ActiveFinite DEF Sized
        <3> QED
            BY <3>2, <3>3
    <2>2. verdict \in [Requests -> Verdicts \cup {"Token", None}]
        <3>1. \A r \in Requests : verdict[r] \in Verdicts \cup {"Token", None}
            BY DEF Sized, Verdicts, Decisions
        <3> QED
            BY <3>1
    <2>3. restarts \in 0 .. MaxRestarts
        BY ProxyAssumption DEF Sized
    <2> QED
        BY <2>1, <2>2, <2>3 DEF Sized, TypeOK
<1> QED
    BY <1>1, ProxyInductive, StoryInit, StoryNext, SizedInit, SizedNext, PTL DEF Spec
=============================================================================
