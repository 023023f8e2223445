---------------------------- MODULE HintMailbox ----------------------------
(***************************************************************************)
(* What the hint channel between the two lanes of the agent promises,      *)
(* without saying how the lanes work: a mailbox of one slot, in which a    *)
(* newer hint replaces an unread older one, and from which every hint is   *)
(* taken at most once and never after a newer one.                         *)
(*                                                                         *)
(* A hint is named by its source, the number of the user turn it was       *)
(* computed from; 0 is an empty slot.                                      *)
(***************************************************************************)
EXTENDS Naturals, Sequences

CONSTANT MaxTurns      \* bound: turns are numbered 1..MaxTurns

VARIABLES
    slot,              \* the source of the hint that waits, or 0
    taken              \* the sources of the hints taken so far, in order

vars == <<slot, taken>>

\* The source of the newest hint ever put in the slot.
Newest == IF slot # 0 THEN slot
          ELSE IF taken = << >> THEN 0 ELSE taken[Len(taken)]

Init == slot = 0 /\ taken = << >>

Publish == \E s \in 1..MaxTurns :
    /\ s > Newest
    /\ slot' = s
    /\ UNCHANGED taken

Consume ==
    /\ slot # 0
    /\ taken' = Append(taken, slot)
    /\ slot' = 0

Next == Publish \/ Consume

Spec == Init /\ [][Next]_vars
=============================================================================
