----------------------------- MODULE Normaliser -----------------------------
(***************************************************************************)
(* The input normaliser (Dome/dome-rs/src/engine/normaliser.rs).           *)
(*                                                                         *)
(* A text is a sequence of characters, each under a stack of encodings,    *)
(* the outermost first: a layer encodes the first character of what the    *)
(* layer below it looks like, as in %26lt; or %26LT;.  What a decoding     *)
(* uncovers is the character under the rest of the stack.  "/*" and "*/"   *)
(* are one character each, "open" and "close"; "foreign" is a character    *)
(* out of ASCII that is no white space.                                    *)
(***************************************************************************)
EXTENDS Subsequence, FiniteSetsExt, SequencesExt

Bases == {"letter", "LETTER", "space", "newline", "open", "close", "foreign", "bytes"}

(* Decodings of one round, in the order in which they run: %uXXXX and %XX  *)
(* (decode_pct), then &#n;, &#xh; and the named entities (decode_html).    *)
RoundOrder == <<"upct", "pct", "dec", "hex", "ent">>
Turn(e) == CHOOSE i \in DOMAIN RoundOrder : RoundOrder[i] = e

(* The same in capitals, %UXXXX, &#Xh; and &LT;, which no pattern matches: *)
(* only %XX and the hexadecimal digits are taken in either case.           *)
LowerCase == [UPCT |-> "upct", HEX |-> "hex", ENT |-> "ent"]

Decodable == {"upct", "pct", "dec", "hex", "ent"}
Capital == {"UPCT", "HEX", "ENT"}
Encodings == Decodable \cup Capital \cup {"wide"}
MaxRounds == 4

Char(enc, base) == [enc |-> enc, base |-> base]

(* Not ASCII: several bytes under %XX.                                     *)
OutOfAscii(enc, base) == IF enc = <<>> THEN base = "foreign" ELSE Head(enc) = "wide"

(* One replace_all: what it uncovers is not looked at again.  %XX makes a  *)
(* Latin-1 character of each byte (lines 31-33), and so loses every        *)
(* character that is not ASCII.                                            *)
Peel(c, e) ==
    IF c.enc = <<>> \/ Head(c.enc) # e THEN c
    ELSE IF e = "pct" /\ OutOfAscii(Tail(c.enc), c.base) THEN Char(<<>>, "bytes")
    ELSE Char(Tail(c.enc), c.base)

(* decode_pct and decode_html, on one character.                           *)
DecodePct(c) == Peel(Peel(c, "upct"), "pct")
DecodeHtml(c) == Peel(Peel(Peel(c, "dec"), "hex"), "ent")

(* Mutant of DecodeRound: entities before percents.                        *)
DecodeRoundHtmlFirst(text) == [i \in DOMAIN text |-> DecodePct(DecodeHtml(text[i]))]

DecodeRound(text) == [i \in DOMAIN text |-> DecodeHtml(DecodePct(text[i]))]

(* Full-width characters become ASCII, once, after the rounds.             *)
MapFullwidth(text) ==
    [i \in DOMAIN text |->
        IF text[i].enc # <<>> /\ Head(text[i].enc) = "wide"
        THEN Char(Tail(text[i].enc), text[i].base) ELSE text[i]]

IsPlain(c, base) == c.enc = <<>> /\ c.base = base
IsSpace(c) == IsPlain(c, "space") \/ IsPlain(c, "newline")

(* The comments of a text: for every "close" the first "open" before it    *)
(* from which no other "close" and no newline lies between (".*?" stops    *)
(* at the nearest "close" and does not cross a line).                      *)
Comments(text) ==
    LET fits(i, j) ==
            /\ i < j /\ IsPlain(text[i], "open") /\ IsPlain(text[j], "close")
            /\ \A k \in i + 1 .. j - 1 : ~ IsPlain(text[k], "close")
                                         /\ ~ IsPlain(text[k], "newline")
    IN  {p \in (DOMAIN text) \X (DOMAIN text) :
            fits(p[1], p[2]) /\ \A k \in 1 .. p[1] - 1 : ~ fits(k, p[2])}

(* A comment becomes a space.                                              *)
StripComments(text) ==
    LET starts == {p[1] : p \in Comments(text)}
        inside == UNION {p[1] + 1 .. p[2] : p \in Comments(text)}
    IN  Kept([i \in DOMAIN text |-> IF i \in starts THEN Char(<<>>, "space") ELSE text[i]],
             (DOMAIN text) \ inside)

(* A run of white space becomes one space.                                 *)
CollapseSpace(text) ==
    Kept([i \in DOMAIN text |-> IF IsSpace(text[i]) THEN Char(<<>>, "space") ELSE text[i]],
         {i \in DOMAIN text : ~ (i > 1 /\ IsSpace(text[i]) /\ IsSpace(text[i - 1]))})

(* to_lowercase reaches what encodings are written with: &LT;, which is no *)
(* entity, becomes &lt;, which is one.                                     *)
LowerChar(c) ==
    IF c.enc = <<>> THEN Char(<<>>, IF c.base = "LETTER" THEN "letter" ELSE c.base)
    ELSE Char([k \in DOMAIN c.enc |-> IF c.enc[k] \in Capital THEN LowerCase[c.enc[k]] ELSE c.enc[k]],
              c.base)

Lower(text) == [i \in DOMAIN text |-> LowerChar(text[i])]

Clean(text) == Lower(CollapseSpace(StripComments(MapFullwidth(text))))

-----------------------------------------------------------------------------
(* How many rounds a stack takes: within one, each decoding runs once and  *)
(* in the order of RoundOrder.                                             *)
RoundsOf(enc) ==
    IF enc = <<>> THEN 0
    ELSE 1 + Cardinality({i \in 1 .. Len(enc) - 1 : Turn(enc[i]) >= Turn(enc[i + 1])})
=============================================================================
