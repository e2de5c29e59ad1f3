---------------------------- MODULE MCScreening ----------------------------
(***************************************************************************)
(* Model-checking instance of Screening: pairs of patches that differ in   *)
(* all kinds of conditions, single characters under up to five encodings,  *)
(* and short texts of plain characters, comments and white space.          *)
(***************************************************************************)
EXTENDS Screening

Base == [path_prefix |-> None, method |-> None, header_name |-> None, header_regex |-> None,
         param_name |-> None, param_regex |-> None, body_regex |-> None, action |-> "block"]

Expressions == {None, {"v"}, {Empty, "v"}}

Patches ==
    {[Base EXCEPT !.path_prefix = p, !.header_name = "h", !.header_regex = x]
        : p \in {None, "p"}, x \in Expressions}
    \cup {[Base EXCEPT !.method = m, !.param_name = n, !.param_regex = x, !.action = a]
        : m \in {None, "post"}, n \in {None, "q"}, x \in Expressions, a \in {"allow", "log"}}
    \cup {[Base EXCEPT !.path_prefix = p, !.body_regex = x] : p \in {None, "p"}, x \in {None, {"v"}, Broken}}

MCPatchLists == {<<>>} \cup {<<r, s>> : r \in Patches, s \in Patches}

MCPatchRequests ==
    [prefixes : {{}, {"p"}}, method : {"POST", "GET"}, header : {Empty, "v"},
     query : {<<>>, <<Empty>>, <<"v">>, <<"w", "v">>}, form : {<<>>, <<"v">>}, body : {Empty, "v"}]

(* &amp; and its like stand for one of five characters: what they uncover  *)
(* begins with "&" or is the character itself.                             *)
Possible(enc) ==
    \A i \in 1 .. Len(enc) - 1 :
        enc[i] \in {"ent", "ENT"} => enc[i + 1] \in {"dec", "hex", "ent", "HEX", "ENT"}

Stacks(n, layers) == UNION {[1 .. k -> layers] : k \in 0 .. n}

MCTexts ==
    {<<Char(s, "LETTER")>> : s \in {e \in Stacks(5, Decodable) : Possible(e)}}
    \cup {<<Char(s, "LETTER")>> : s \in {e \in Stacks(3, Decodable \cup Capital) : Possible(e)}}
    \cup {<<Char(s, "foreign")>>
            : s \in {e \in Stacks(3, Decodable) : Possible(e) /\ (e = <<>> \/ Last(e) # "ent")}}
    \cup {<<Char(s \o <<"wide">>, "LETTER")>> : s \in {e \in Stacks(2, Decodable) : Possible(e \o <<"wide">>)}}
    \cup {<<Char(<<"wide">> \o s, "letter")>> : s \in Stacks(1, Decodable \cup Capital)}
    \cup UNION {[1 .. k -> {Char(<<>>, b) : b \in {"letter", "space", "newline", "open", "close"}}]
                    : k \in 0 .. 4}
    \cup [1 .. 3 -> {Char(<<"pct">>, "open"), Char(<<"dec">>, "close"), Char(<<"hex", "pct">>, "space")}]
=============================================================================
