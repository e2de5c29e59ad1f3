----------------------------- MODULE Screening -----------------------------
(***************************************************************************)
(* How Engine::inspect screens a request by content: the virtual patches   *)
(* (Dome/dome-rs/src/engine/mod.rs:164-176), and, if none matches, the     *)
(* normalisation of an input before the payload rules see it (line 206).   *)
(*                                                                         *)
(* Both are loops without interaction; the module runs them step by step   *)
(* over bounded sets of patches, requests and texts.                       *)
(***************************************************************************)
EXTENDS VPatch, Normaliser

CONSTANTS
    PatchLists,     \* lists of patches as config.yml may hold them
    PatchRequests,  \* requests as VPatch sees them
    Modes,          \* "block", "detect"
    Texts           \* inputs for the normaliser

ASSUME PatchListsAssumption == \A l \in PatchLists : l \in Seq(Range(l))
ASSUME RequestsAssumption ==
    \A q \in PatchRequests :
        /\ DOMAIN q = {"prefixes", "method", "header", "query", "form", "body"}
        /\ q.query \in Seq(Range(q.query)) /\ q.form \in Seq(Range(q.form))
ASSUME TextsAssumption == Texts \subseteq Seq([enc : Seq(Encodings), base : Bases])

VARIABLES
    raw, mode, req, \* the patches, the mode, the request
    at,             \* the compiled patch that is tried next
    verdict,        \* what a patch decided: its action, and which it was
    input, text,    \* the input and what has become of it
    round,          \* decoding rounds done
    stage

screenVars == <<raw, mode, req, at, verdict, input, text, round, stage>>

ScreenInit ==
    /\ raw \in PatchLists
    /\ mode \in Modes
    /\ req \in PatchRequests
    /\ at = 1
    /\ verdict = None
    /\ input = <<>> /\ text = <<>> /\ round = 0
    /\ stage = "patch"

(* Mutant of TryPatch: the next patch may overrule.                        *)
TryPatchAll ==
    LET rules == Patcher(raw)
    IN  /\ stage = "patch" /\ at <= Len(rules)
        /\ verdict' = IF Matches(rules[at], req)
                      THEN [rule |-> rules[at], action |-> Override(rules[at].action, mode)]
                      ELSE verdict
        /\ IF at = Len(rules) /\ verdict' # None THEN stage' = "answered" /\ UNCHANGED at
                                              ELSE at' = at + 1 /\ UNCHANGED stage
        /\ UNCHANGED <<raw, mode, req, input, text, round>>

(* VPatcher::check: one patch is tried, the first that matches answers.    *)
TryPatch ==
    LET rules == Patcher(raw)
    IN  /\ stage = "patch" /\ at <= Len(rules)
        /\ IF Matches(rules[at], req)
           THEN /\ verdict' = [rule |-> rules[at], action |-> Override(rules[at].action, mode)]
                /\ stage' = "answered"
                /\ UNCHANGED at
           ELSE at' = at + 1 /\ UNCHANGED <<verdict, stage>>
        /\ UNCHANGED <<raw, mode, req, input, text, round>>

(* No patch has matched, and what follows does not depend on them: the     *)
(* state forgets them.                                                     *)
NoPatch ==
    /\ stage = "patch" /\ at > Len(Patcher(raw))
    /\ stage' = "inputs"
    /\ raw' = <<>> /\ mode' = None /\ req' = None /\ at' = 1
    /\ UNCHANGED <<verdict, input, text, round>>

(* One of the strings of collect_inputs.                                   *)
TakeInput ==
    /\ stage = "inputs"
    /\ \E t \in Texts : input' = t /\ text' = t
    /\ stage' = "decode"
    /\ UNCHANGED <<raw, mode, req, at, verdict, round>>

(* One turn of the loop of normalise (lines 76-80).                        *)
Decode ==
    /\ stage = "decode"
    /\ IF round < MaxRounds /\ DecodeRound(text) # text
       THEN text' = DecodeRound(text) /\ round' = round + 1 /\ UNCHANGED stage
       ELSE stage' = "clean" /\ UNCHANGED <<text, round>>
    /\ UNCHANGED <<raw, mode, req, at, verdict, input>>

Normalised ==
    /\ stage = "clean"
    /\ text' = Clean(text)
    /\ stage' = "done"
    /\ UNCHANGED <<raw, mode, req, at, verdict, input, round>>

ScreenNext == TryPatch \/ NoPatch \/ TakeInput \/ Decode \/ Normalised

ScreenSpec == ScreenInit /\ [][ScreenNext]_screenVars

-----------------------------------------------------------------------------
(* The patch that answers is the first of the file that compiles and would *)
(* have answered alone; a patch that does not compile never stands in the  *)
(* way of another.                                                         *)
FirstPatchWins ==
    LET alone(i) == Compiles(raw[i]) /\ Matches(Compiled(raw)[i], req)
        answering == {i \in DOMAIN raw : alone(i)}
    IN  /\ verdict # None => answering # {} /\ verdict.rule = Compiled(raw)[Min(answering)]
        /\ stage = "patch" /\ at > Len(Patcher(raw)) => answering = {}

(* Adding a condition to a patch makes it match less, not more, unless it  *)
(* adds an expression that accepts the empty value to a bare name.         *)
NarrowerMatchesLess ==
    stage = "patch" =>
        \A i, j \in DOMAIN Patcher(raw) :
            LET rule == Patcher(raw)[i]
                base == Patcher(raw)[j]
            IN  Refines(rule, base) /\ ~ Loosens(rule, base) /\ Matches(rule, req)
                    => Matches(base, req)

(* "Optional parameter check (query or body)" (vpatch.rs:30): a patch that *)
(* would match a value of the parameter in the body alone matches the      *)
(* request.  A value in the query hides those of the body.                 *)
QueryOrBody ==
    stage = "patch" =>
        \A i \in DOMAIN Patcher(raw) : \A v \in Range(req.form) :
            Matches(Patcher(raw)[i], [req EXCEPT !.query = <<>>, !.form = <<v>>])
                => Matches(Patcher(raw)[i], req)

(* "Decoding order (applied repeatedly until stable)" (normaliser.rs:4):   *)
(* what the rules get to see cannot be decoded further.  A fifth layer     *)
(* can, and so can what only lower-casing has made an encoding.            *)
DecodedUntilStable == stage = "done" => DecodeRound(text) = text

(* Only layers that a round takes off.                                     *)
Narrow(c) == Range(c.enc) \subseteq Decodable

(* Up to four rounds the rules see the same text however it was encoded,   *)
(* full-width characters included; not what came in capitals, and no       *)
(* percent-encoded bytes of a character that is not ASCII.                 *)
Reached(c) ==
    LET n == Len(c.enc)
        top == SubSeq(c.enc, 1, n - 1)
    IN  \/ /\ Narrow(c) /\ RoundsOf(c.enc) <= MaxRounds
           /\ n > 0 /\ c.enc[n] = "pct" => c.base # "foreign"
        \/ /\ n > 0 /\ c.enc[n] = "wide" /\ Narrow(Char(top, c.base))
           /\ RoundsOf(top) <= MaxRounds
           /\ n > 1 => c.enc[n - 1] # "pct"

EncodingDoesNotMatter ==
    stage = "done" /\ (\A i \in DOMAIN input : Reached(input[i])) =>
        text = Clean([i \in DOMAIN input |-> Char(<<>>, input[i].base)])
=============================================================================
