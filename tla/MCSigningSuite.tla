--------------------------- MODULE MCSigningSuite ---------------------------
(* Constants for TLC. *)
EXTENDS SigningSuite
\* Parties 1 and 3 of three sign: their positions are not their indices.
MCParties == 1 .. 3
MCQuorum == {1, 3}
MCSharings == {f \in Polynomials(2) : f[0] \in {1, 3} /\ f[1] = 1}
=============================================================================
