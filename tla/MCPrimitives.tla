---------------------------- MODULE MCPrimitives ----------------------------
(* The primitives under crates/primitives, one behaviour for each execution  *)
(* of each scheme.  Multiplication extends HsmCl and BinaryForms.            *)
EXTENDS Multiplication

CONSTANTS Kappa, Seeds, Words, Corr, OtScalars, Challenge, SkBound, Committees, Draws,
          Challenges, Limit, Secret

Ot == INSTANCE ObliviousTransfer
Threshold == INSTANCE ThresholdCl
Proof == INSTANCE SigmaProofs

\* Discriminants with a class group of a few forms each, and a square one.
MCDiscs == {-375, -343, -459}
MCExponents == {-6, -1, 0, 1, 2, 7, 13, 37}

\* Parameters whose h has an order above one, so that masks mask: 7 (5, 43),
\* 5 (7, 17) and (3, 53), 3 (5, 503).  Parameters that `new` refuses are among
\* them: a composite q, no digits, a p that is a square modulo q, an even p, and
\* p q = 1 mod 4.
Chosen(q, k, p, distance, compact) ==
    [q |-> q, k |-> k, p |-> p, distance |-> distance, compact |-> compact]
MCSetups ==
    {Chosen(5, 1, 43, 2, compact) : compact \in BOOLEAN}
    \cup {Chosen(7, 1, 17, 3, compact) : compact \in BOOLEAN}
    \cup {Chosen(3, 1, 53, 2, compact) : compact \in BOOLEAN}
    \cup {Chosen(5, 1, 0, 4, FALSE), Chosen(5, 2, 503, 2, FALSE), Chosen(9, 1, 1, 2, FALSE),
          Chosen(5, 0, 3, 2, FALSE), Chosen(5, 1, 11, 2, FALSE), Chosen(5, 1, 6, 2, FALSE),
          Chosen(5, 1, 13, 2, FALSE)}

MCJlPrimes == {[p |-> 769, k |-> 8, q |-> 7], [p |-> 193, k |-> 6, q |-> 7]}
MCJlSlack == [s |-> 1, t |-> 1]

MCSeeds == {[i \in 0 .. 1 |-> [j \in 0 .. 2 |-> (i + j) % 2]],
            [i \in 0 .. 1 |-> [j \in 0 .. 2 |-> IF j = i THEN 1 ELSE 0]]}
MCWords == {w \in [0 .. 2 -> Bit] : w[2] = 1}
MCCorr == {c \in [0 .. 1 -> Bit] : c[1] = 1}

MCChallenges == 0 .. 2

\* The secrets of a proof; one below zero loses its sign where digits are written.
MCSecrets == {-1, 1, 3}

\* n = 4 and t = 2 is the least committee whose publicly verified sharings are
\* tested.
MCCommittees == {[n |-> n, t |-> 2] : n \in 2 .. 4}

Init == Begin \/ MtaBegin \/ Ot!Begin \/ Threshold!ThresholdBegin \/ Proof!ProofBegin
AnyNext == Next \/ MtaNext \/ Ot!Next \/ Threshold!ThresholdNext \/ Proof!ProofNext
Spec == Init /\ [][AnyNext]_vars

OtRight == Ot!Right
ThresholdsMeet == Threshold!ThresholdsMeet
FalseClaimRefused == Proof!FalseClaimRefused
TrueClaimAccepted == Proof!TrueClaimAccepted
RangesTwoSided == Proof!RangesTwoSided
VerifiedIsShared == Threshold!VerifiedIsShared
=============================================================================
