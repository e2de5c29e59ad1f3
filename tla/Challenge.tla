----------------------------- MODULE Challenge -----------------------------
(***************************************************************************)
(* The proof-of-work challenge (Dome/dome-rs/src/challenge.rs): the        *)
(* script that the browser runs on the challenge page and the check the    *)
(* proxy makes of the token that the script puts into the URL.             *)
(*                                                                         *)
(* SHA-256 is the constant function Digest: challenge and nonce to a       *)
(* sequence of hexadecimal digits.  The challenge of a client is its       *)
(* address (the code's "dome-<address>").  A URL is the sequence of        *)
(* the tokens in its query; the rest of it does not change on the way.     *)
(***************************************************************************)
EXTENDS Integers, Sequences, FiniteSets, SequencesExt, FiniteSetsExt

CONSTANTS
    Addresses,      \* client addresses
    Nonces,         \* the nonces worth telling apart, 0 .. n
    Digest,         \* SHA-256 of challenge and nonce, as hex digits
    Difficulty,     \* DIFFICULTY of the script, in bits
    Zeros           \* leading hex zeros that verify_token asks for

ASSUME DigestAssumption ==
    /\ Nonces \subseteq Nat
    /\ Difficulty \in Nat /\ Zeros \in Nat
    /\ \A a \in Addresses, n \in Nonces : Digest[a][n] \in Seq(0 .. 15)

Tokens == [c : Addresses, n : Nonces, h : {Digest[a][n] : a \in Addresses, n \in Nonces}]

(* How many digits at the front of a digest are zero.                      *)
ZeroDigits(hex) ==
    LET nonzero == {i \in DOMAIN hex : hex[i] # 0}
    IN  IF nonzero = {} THEN Len(hex) ELSE Min(nonzero) - 1

(* Math.clz32(n) - 28 of one digit.                                        *)
ZeroBitsOfDigit(n) == CASE n >= 8 -> 0 [] n \in 4 .. 7 -> 1 [] n \in 2 .. 3 -> 2 [] n = 1 -> 3

(* Mutant of LeadingZeroBits: the first digit that is not zero counts as   *)
(* four bits more.                                                         *)
LeadingZeroBitsOfNibbles(hex) == 4 * (ZeroDigits(hex) + 1)

LeadingZeroBits(hex) ==
    LET z == ZeroDigits(hex)
    IN  4 * z + (IF z = Len(hex) THEN 0 ELSE ZeroBitsOfDigit(hex[z + 1]))

(* The script and verify_token ask for the same ("20 bits = 5 leading hex   *)
(* zeros"), and the script finds a nonce for every client.                 *)
ASSUME WorkAssumption ==
    /\ Difficulty = 4 * Zeros
    /\ \A a \in Addresses : \E n \in Nonces : LeadingZeroBits(Digest[a][n]) >= Difficulty

(* solve: the first nonce whose digest has enough zero bits.               *)
Solve(c) == Min({n \in Nonces : LeadingZeroBits(Digest[c][n]) >= Difficulty})

(* run: the token goes to the end of the URL the browser came from, which  *)
(* may hold tokens already.                                                *)
Redirect(url, c) == Append(url, [c |-> c, n |-> Solve(c), h |-> Digest[c][Solve(c)]])

(* verify_token: made for this client, the hash recomputed, hard enough.   *)
VerifyToken(token, expected) ==
    /\ token.c = expected
    /\ Digest[token.c][token.n] = token.h
    /\ ZeroDigits(token.h) >= Zeros

(* What the proxy asks of a URL: its first token counts, the others are    *)
(* not looked at.                                                          *)
Passes(url, addr) == url # <<>> /\ VerifyToken(Head(url), addr)
=============================================================================
