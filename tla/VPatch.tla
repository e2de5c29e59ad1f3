------------------------------- MODULE VPatch -------------------------------
(***************************************************************************)
(* Virtual patches (Dome/dome-rs/src/engine/vpatch.rs): the rules of       *)
(* config.yml that are tried, in order, before the built-in ones.          *)
(*                                                                         *)
(* A regular expression is the set of values it accepts, or Broken when it *)
(* does not compile; a condition that a rule leaves out is None.  Of a     *)
(* request there is what one rule can ask for: the prefixes its path has,  *)
(* its method, the value of the header, the values of the parameter in     *)
(* query and body, and the body.  Empty is the empty value, which also     *)
(* stands for a header or a parameter that is absent.                      *)
(***************************************************************************)
EXTENDS Subsequence

CONSTANTS None, Broken, Empty

ASSUME PatchAssumption == None # Broken

(* str::to_uppercase on the methods that occur.                            *)
Upper(method) == IF method = "post" THEN "POST" ELSE method

Compiles(rule) == Broken \notin {rule.header_regex, rule.param_regex, rule.body_regex}

(* VPatcher::new: a rule that does not compile is left out with a warning; *)
(* methods are folded once.                                                *)
Compiled(raw) ==
    [i \in DOMAIN raw |->
        [raw[i] EXCEPT !.method = IF @ = None THEN None ELSE Upper(@)]]

Patcher(raw) == Kept(Compiled(raw), {i \in DOMAIN raw : Compiles(raw[i])})

(* One named value with an optional expression: with an expression it must *)
(* be accepted, absent or not; without one it must not be empty.           *)
Accepts(name, regex, value) ==
    name = None \/ IF regex # None THEN value \in regex ELSE value # Empty

(* The first occurrence counts, and the query comes before the body.       *)
Parameter(req) ==
    LET all == req.query \o req.form
    IN  IF all = <<>> THEN Empty ELSE all[1]

(* Mutant of Matches: a body expression alone is enough.                   *)
MatchesOnBody(rule, req) ==
    \/ /\ rule.path_prefix = None \/ rule.path_prefix \in req.prefixes
       /\ rule.method = None \/ Upper(req.method) = rule.method
       /\ Accepts(rule.header_name, rule.header_regex, req.header)
       /\ Accepts(rule.param_name, rule.param_regex, Parameter(req))
       /\ rule.body_regex = None
    \/ rule.body_regex # None /\ req.body \in rule.body_regex

Matches(rule, req) ==
    /\ rule.path_prefix = None \/ rule.path_prefix \in req.prefixes
    /\ rule.method = None \/ Upper(req.method) = rule.method
    /\ Accepts(rule.header_name, rule.header_regex, req.header)
    /\ Accepts(rule.param_name, rule.param_regex, Parameter(req))
    /\ rule.body_regex = None \/ req.body \in rule.body_regex

(* What step 6 of Engine::inspect makes of the action of a patch.          *)
Override(action, mode) ==
    CASE action = "allow" -> "Allow"
      [] action = "log" -> "Log"
      [] OTHER -> IF mode = "detect" THEN "Log" ELSE "Block"

-----------------------------------------------------------------------------
Conditions == {"path_prefix", "method", "header_name", "header_regex",
               "param_name", "param_regex", "body_regex"}

(* rule has all the conditions of base, and perhaps more.                  *)
Refines(rule, base) == \A c \in Conditions : base[c] \in {None, rule[c]}

(* A condition on a value that must be there, refined by an expression     *)
(* that accepts the empty value: the one way in which more is less.        *)
Loosens(rule, base) ==
    \/ base.header_name # None /\ base.header_regex = None
         /\ rule.header_regex # None /\ Empty \in rule.header_regex
    \/ base.param_name # None /\ base.param_regex = None
         /\ rule.param_regex # None /\ Empty \in rule.param_regex
=============================================================================
