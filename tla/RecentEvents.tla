---------------------------- MODULE RecentEvents ----------------------------
(***************************************************************************)
(* What the dashboard's feed of recent events promises: it is the window   *)
(* of the latest Size events in the order in which they were pushed, and   *)
(* a reader gets a suffix of it.  EventRing implements this module.        *)
(***************************************************************************)
EXTENDS Integers, Sequences

CONSTANTS
    Events,     \* what is recorded
    Size,       \* how many are kept
    Limits      \* how many a reader may ask for

VARIABLES
    recent,     \* the kept events, oldest first
    answer      \* the last answer given to a reader

Init == recent = <<>> /\ answer = <<>>

(* The oldest event makes room when the window is full.                    *)
Push(e) ==
    /\ recent' = IF Len(recent) < Size THEN Append(recent, e)
                                       ELSE Append(Tail(recent), e)
    /\ UNCHANGED answer

(* A reader asks for n events and gets the n latest, or all there are.     *)
Read(n) ==
    LET k == IF n < Len(recent) THEN n ELSE Len(recent) IN
    /\ answer' = SubSeq(recent, Len(recent) - k + 1, Len(recent))
    /\ UNCHANGED recent

Next == (\E e \in Events : Push(e)) \/ (\E n \in Limits : Read(n))

Spec == Init /\ [][Next]_<<recent, answer>>
=============================================================================
