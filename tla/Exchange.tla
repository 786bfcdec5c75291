------------------------------ MODULE Exchange ------------------------------
(* What the primitives under crates/primitives have in common: two or more   *)
(* parties go through the stages of a scheme, and each stage computes some   *)
(* values.  One of the parties may be faulty; `fault` says where it          *)
(* deviates.  A scheme ends "done", when every honest party has accepted, or *)
(* "refused".                                                                *)
(*                                                                           *)
(* Hashes are the functions below or, where a proof depends on the challenge *)
(* being random, a choice.  Scalars and points are those of PrimeField.      *)
EXTENDS PrimeField, TLC

VARIABLES
    scheme,     \* what is run
    stage,      \* the stage it is in
    fault,      \* where the faulty party deviates, or "none"
    know        \* what the parties have drawn and computed, by name

vars == <<scheme, stage, fault, know>>

\* One stage: what it computes is added to what is known.
Step(from, to, facts) ==
    /\ stage = from
    /\ stage' = to
    /\ know' = facts @@ know
    /\ UNCHANGED <<scheme, fault>>

\* An early return with an error.
Refuse(from) == stage = from /\ stage' = "refused" /\ UNCHANGED <<scheme, fault, know>>

Done(s) == scheme = s /\ stage = "done"

\* A shift that only a faulty party has.
Shift(where, offset) == IF fault = where THEN offset ELSE 0

-----------------------------------------------------------------------------
(* Bits.                                                                     *)

Bit == {0, 1}
Xor(a, b) == (a + b) % 2
XorWords(v, w) == [j \in DOMAIN v |-> Xor(v[j], w[j])]

\* The number that a word of bits 0 .. n - 1 is.
Number(word) == SumFunctionOnSet([j \in DOMAIN word |-> word[j] * 2 ^ j], DOMAIN word)
=============================================================================
