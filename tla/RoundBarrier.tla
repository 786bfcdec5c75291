---------------------------- MODULE RoundBarrier ----------------------------
(***************************************************************************)
(* What a round-based protocol promises, whatever carries its messages:    *)
(* a party leaves a round only when every party has reached that round.    *)
(* It says nothing of messages, retries, buffers or errors; a party that   *)
(* failed simply stays where it is.                                        *)
(***************************************************************************)
EXTENDS Integers

CONSTANTS Parties, FirstRound, LastRound

VARIABLE round

Init == round = [p \in Parties |-> FirstRound]

Pass(p) == /\ round[p] <= LastRound
           /\ \A q \in Parties : round[q] >= round[p]
           /\ round' = [round EXCEPT ![p] = round[p] + 1]

Next == \E p \in Parties : Pass(p)

Spec == Init /\ [][Next]_round
=============================================================================
