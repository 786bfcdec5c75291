---------------------------- MODULE MCKeygenSuite ---------------------------
(* Constants for TLC. *)
EXTENDS KeygenSuite
MCParties == 1 .. 4
\* A party's secret is 1 or 3 and its slope 0 or 2.
MCDealt == {f \in Polynomials(2) : f[0] \in {1, 3} /\ f[1] \in {0, 2}}
=============================================================================
