----------------------------- MODULE PrimeField -----------------------------
(* The scalar field of the curve, and the curve group written as the        *)
(* exponents of its generator.  The group has prime order Q, so a point is  *)
(* the scalar it is a multiple of: G is 1, a sum of points is a sum of       *)
(* scalars and [k]P is k * P.  Nothing below looks at a discrete logarithm   *)
(* that a party of the code could not compute: only "the two points are      *)
(* equal", "add", "multiply by a known scalar" and "x-coordinate" are used.  *)
(*                                                                           *)
(* Shamir sharing and Lagrange interpolation are those of tecdsa-vss, the    *)
(* ECDSA equation and low-s form those of tecdsa-protocol.                   *)
EXTENDS Integers, FiniteSets, Functions

CONSTANT Q                                   \* the order of the group

ASSUME QAssumption == /\ Q \in Nat
                      /\ Q > 2
                      /\ \A a, b \in 1 .. Q - 1 : (a * b) % Q # 0

Field == 0 .. Q - 1

\* What random_scalar can return: it draws again on zero.
RandomScalar == 1 .. Q - 1

Fl(x) == x % Q
Neg(x) == (Q - x) % Q

\* The inverse of a scalar that is not zero; callers test for zero first, as
\* `invert` returns nothing on it.
Inv(x) == CHOOSE y \in Field : (x * y) % Q = 1

\* The sum and the product over S of the values of f, in the field.
Total(f, S) == Fl(SumFunctionOnSet(f, S))
Product(f, S) == FoldFunctionOnSet(LAMBDA a, b : Fl(a * b), 1, f, S)

\* The two points that share an x-coordinate are P and -P; the identity has
\* x-coordinate 0 (xcoord_mod_q of the affine identity).
XCoord(P) == IF P <= Q - P THEN P ELSE Q - P

-----------------------------------------------------------------------------
(* Shamir sharing.  A polynomial is a function on 0 .. t - 1.               *)

Polynomials(t) == [0 .. t - 1 -> Field]

\* x_pow after d rounds of the loop over the coefficients.
XPow(x, d) == Product([k \in 1 .. d |-> x], 1 .. d)

Eval(poly, x) == Total([d \in DOMAIN poly |-> poly[d] * XPow(x, d)], DOMAIN poly)

\* lagrange::coefficients: the coefficient at 0 of index i among `indices`.
Lagrange(indices, i) ==
    Product([j \in indices \ {i} |-> Fl(j * Inv(Fl(j - i)))], indices \ {i})

\* shamir::reconstruct
Reconstruct(shares, indices) ==
    Total([i \in indices |-> shares[i] * Lagrange(indices, i)], indices)

\* feldman::verify: `commitments` are the coefficients times the generator.
FeldmanVerify(share, index, commitments) == share = Eval(commitments, index)

-----------------------------------------------------------------------------
(* ECDSA.                                                                    *)

\* low_s_normalize: s, or -s when s is the larger of the two.
LowS(s) == IF s > Neg(s) THEN Neg(s) ELSE s

\* verify_ecdsa: s is not zero and x((m / s) G + (r / s) pk) is r.
VerifyEcdsa(sig, pk, m) ==
    /\ sig.s # 0
    /\ XCoord(Fl(Fl(m * Inv(sig.s)) + Fl(sig.r * Inv(sig.s)) * pk)) = sig.r

Signatures == [r : Field, s : Field]
=============================================================================
