----------------------------- MODULE EventRing -----------------------------
(***************************************************************************)
(* The ring buffer behind the dashboard's event feed                       *)
(* (Dome/dome-rs/src/stats.rs:155-196).                                    *)
(*                                                                         *)
(* Stats::record pushes and Stats::recent_events reads under one Mutex, so *)
(* push and tail are one action each.  buf[k] of the code is buf[k + 1]    *)
(* here; head and the arithmetic on it stay zero-based as in the code.     *)
(***************************************************************************)
EXTENDS Integers, Sequences

CONSTANTS
    Events,     \* what is recorded
    RingSize,   \* RING_SIZE
    Limits      \* the limits readers ask for

ASSUME RingSizeAssumption == RingSize \in Nat \ {0}
ASSUME LimitsAssumption == Limits \subseteq Nat

VARIABLES
    buf,        \* the events
    head,       \* index of the oldest event once full
    full,       \* the Vec has reached RING_SIZE
    answer      \* what tail returned last

vars == <<buf, head, full, answer>>

Init ==
    /\ buf = <<>>
    /\ head = 0
    /\ full = FALSE
    /\ answer = <<>>

(* push on a full ring: the oldest event is overwritten in place.          *)
PushFull(e) ==
    /\ full
    /\ buf' = [buf EXCEPT ![head + 1] = e]
    /\ head' = (head + 1) % RingSize
    /\ UNCHANGED <<full, answer>>

(* Mutant of PushGrowing: the length is compared before the push.          *)
PushGrowingTooLong(e) ==
    /\ ~full
    /\ buf' = Append(buf, e)
    /\ IF Len(buf) = RingSize THEN full' = TRUE /\ head' = 0
                              ELSE UNCHANGED <<full, head>>
    /\ UNCHANGED answer

(* Mutant of PushGrowing: the newest event comes first.                    *)
PushGrowingInFront(e) ==
    /\ ~full
    /\ buf' = <<e>> \o buf
    /\ IF Len(buf') = RingSize THEN full' = TRUE /\ head' = 0
                               ELSE UNCHANGED <<full, head>>
    /\ UNCHANGED answer

(* push while the Vec still grows; the last free slot makes it a ring.     *)
PushGrowing(e) ==
    /\ ~full
    /\ buf' = Append(buf, e)
    /\ IF Len(buf') = RingSize THEN full' = TRUE /\ head' = 0
                               ELSE UNCHANGED <<full, head>>
    /\ UNCHANGED answer

(* Mutant of TailOf: a full ring is read from head, whatever n is.         *)
TailOfFromHead(n) ==
    LET len == Len(buf)
        k == IF n < len THEN n ELSE len
    IN
    IF len = 0 THEN <<>>
    ELSE IF ~full THEN SubSeq(buf, len - k + 1, len)
    ELSE [i \in 1 .. k |-> buf[((head + i - 1) % len) + 1]]

(* What tail returns for n.                                                *)
TailOf(n) ==
    LET len == Len(buf)
        k == IF n < len THEN n ELSE len
        start == (head + len - k) % len
    IN
    IF len = 0 THEN <<>>
    ELSE IF ~full THEN SubSeq(buf, len - k + 1, len)
    ELSE [i \in 1 .. k |-> buf[((start + i - 1) % len) + 1]]

ReadTail(n) ==
    /\ answer' = TailOf(n)
    /\ UNCHANGED <<buf, head, full>>

Next ==
    \/ \E e \in Events : PushFull(e) \/ PushGrowing(e)
    \/ \E n \in Limits : ReadTail(n)

Spec == Init /\ [][Next]_vars

-----------------------------------------------------------------------------
(* Types, and the shape of the ring: it is full exactly when the Vec has   *)
(* RING_SIZE events, head stays a valid index, and is zero before that.    *)
RingInv ==
    /\ buf \in Seq(Events)
    /\ Len(buf) <= RingSize
    /\ full \in BOOLEAN
    /\ full <=> Len(buf) = RingSize
    /\ head \in 0 .. RingSize - 1
    /\ ~full => head = 0

(* The ring read from the oldest event on.                                 *)
Unrolled ==
    [i \in 1 .. Len(buf) |->
        IF head + i <= Len(buf) THEN buf[head + i]
                                ELSE buf[head + i - Len(buf)]]

Feed == INSTANCE RecentEvents WITH Size <- RingSize, recent <- Unrolled

(* tail returns the most recent events, oldest first, whatever has been    *)
(* overwritten and wherever the ring starts (lines 166-195).               *)
ImplementsRecentEvents == Feed!Spec
=============================================================================
