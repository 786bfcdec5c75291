-------------------------------- MODULE Ku24 --------------------------------
(* tecdsa-ku24: setup (src/setup), key generation (src/keygen), presigning   *)
(* (src/presign) and signing (src/sign) with an honest majority.             *)
(*                                                                           *)
(* The parties share random values without a message (src/prss.rs): every    *)
(* set of n - t of them holds a key, and what its pseudo-random function     *)
(* returns is a part of the value.  Products of shares have degree 2t = n-1, *)
(* at which nothing can be checked, so the triples are checked afterwards;   *)
(* what has degree t is checked when it is opened (src/interp.rs).           *)
(*                                                                           *)
(* A party stands for its index in the committee, at which its shares are    *)
(* evaluated.                                                                *)
EXTENDS ProtocolSession

Ku24Degree == T - 1     \* Committee::degree

\* check_params, when a machine is made: there is an honest majority.
Ku24Majority == Cardinality(Signers) >= 2 * Ku24Degree + 1

-----------------------------------------------------------------------------
(* Pseudo-random secret sharing.                                             *)

Ku24Subsets == {A \in SUBSET Signers : Cardinality(A) = Cardinality(Signers) - Ku24Degree}

Ku24Dealer(A) == CHOOSE i \in A : \A j \in A : i <= j

\* f_a_eval: 1 at 0, and 0 at the parties outside A.
Ku24Fa(A, x) == Product([j \in Signers \ A |-> (j + Neg(x)) * Inv(j)], Signers \ A)

\* PrssKeys::rand, for party i who sees prf[A] for the sets it is in.
Ku24Rand(prf, i) == Total([A \in {B \in Ku24Subsets : i \in B} |-> prf[A] * Ku24Fa(A, i)], {B \in Ku24Subsets : i \in B})

\* PrssKeys::zero: a sharing of zero at degree 2t, from t functions of each set.
Ku24Zero(prf, i) == Total([l \in 1 .. Ku24Degree |-> XPow(i, l) * Ku24Rand(prf[l], i)], 1 .. Ku24Degree)

\* The sharings that the functions may give rise to.
Ku24Draws(values) == {[i \in Signers |-> Ku24Rand(prf, i)] : prf \in [Ku24Subsets -> values]}
Ku24Zeros(values) == {[i \in Signers |-> Ku24Zero(prf, i)] : prf \in [1 .. Ku24Degree -> [Ku24Subsets -> values]]}

\* Interp::scalar and Interp::point: the shares lie on a polynomial of the
\* degree, whose value at 0 is returned.
Ku24Consistent(shares, degree) ==
    \A S, U \in SUBSET Signers : Cardinality(S) = degree + 1 /\ Cardinality(U) = degree + 1
        => Reconstruct(shares, S) = Reconstruct(shares, U)
Ku24Opened(shares, degree) == Reconstruct(shares, {i \in Signers : Position(i) <= degree + 1})

-----------------------------------------------------------------------------
(* Setup and key generation.                                                 *)

\* Ku24SetupMachine::new_with_rng: each set's dealer draws its key, whose
\* function will return prf[A]; a faulty one gives another key to one member.
\* Ku24KeygenMachine::new refuses a share that is zero.
Ku24KeygenBegin ==
    /\ stage = "ku24_setup"
    /\ Ku24Majority
    /\ \E prf \in [Ku24Subsets -> Field], fault \in Faults({"key", "announced"}) :
          /\ know = [prf |-> prf, fault |-> fault]
          /\ key = Total(prf, Ku24Subsets)
          /\ key # 0 /\ \A i \in Signers : Ku24Rand(prf, i) # 0

\* handle of Ku24SetupMachine, then Ku24KeygenMachine::new: with the last key
\* in, the key share is derived and its point announced.
Ku24Derive ==
    LET Seen(i) == [A \in Ku24Subsets |-> know.prf[A]
            + IF know.fault = "key" /\ bent[Ku24Dealer(A)] # 0 /\ i = Victim(Ku24Dealer(A)) THEN bent[Ku24Dealer(A)] ELSE 0]
        x == [i \in Signers |-> Ku24Rand(Seen(i), i)]
    IN Step("ku24_setup", "ku24_keygen",
            [x |-> x, X |-> [i \in Signers |-> Fl(x[i] + Off(i, "announced"))]])

\* try_finalize: the points have to be those of one polynomial.
Ku24KeygenFinish ==
    Return("ku24_keygen", [p \in Signers |->
        LET X == [know.X EXCEPT ![p] = know.x[p]]
        IN IF Ku24Consistent(X, Ku24Degree) THEN KeyShare(know.x[p], X, Ku24Opened(X, Ku24Degree)) ELSE Refused])

Ku24KeygenNext == Ku24Derive \/ Ku24KeygenFinish

-----------------------------------------------------------------------------
(* Presigning, for a batch of one.                                           *)

\* Ku24PresignMachine::new: shares of the nonce k, of its mask a, and of r and
\* beta, with which the triple is checked.
Ku24SignBegin(f) ==
    /\ stage = "ku24_presign_1"
    /\ Ku24Majority
    /\ \E k, a \in Ku24Draws(Scalars), r, beta \in Ku24Draws(Blinds),
          fault \in Faults({"w", "mu", "tau", "r", "beta", "t", "w_share", "R", "s"}) :
          know = [k |-> k, a |-> a, r |-> r, beta |-> beta, fault |-> fault,
                  x |-> [i \in Signers |-> Eval(f, i)]]

\* wmult_contribution: shares of a product at degree 2t, masked.
Ku24Product(x, y, mask, zero, where) == [i \in Signers |-> Fl(x[i] * y[i] + mask[i] + zero[i] + Off(i, where))]

\* What each party keeps of the product e once it is opened: without its share
\* of the mask, a share of it at degree t.
Ku24Reduced(e, mask) == [i \in Signers |-> Fl(Ku24Opened(e, 2 * Ku24Degree) + Neg(mask[i]))]

\* transition_r1_to_r2: shares of w = k a and of mu = r a.
Ku24MultiplyOnce ==
    /\ stage = "ku24_presign_1"
    /\ \E wMask, muMask \in Ku24Draws(Blinds), wZero, muZero \in Ku24Zeros(Blinds) :
          LET w == Ku24Product(know.k, know.a, wMask, wZero, "w")
              mu == Ku24Product(know.r, know.a, muMask, muZero, "mu")
          IN IF Ku24Consistent(w, 2 * Ku24Degree) /\ Ku24Consistent(mu, 2 * Ku24Degree)
             THEN Step("ku24_presign_1", "ku24_presign_2", [w |-> Ku24Reduced(w, wMask), mu |-> Ku24Reduced(mu, muMask)])
             ELSE Return("ku24_presign_1", Everyone(Refused))

\* transition_r2_to_r3: shares of tau = mu k; r and beta are opened.
Ku24MultiplyTwice ==
    /\ stage = "ku24_presign_2"
    /\ \E mask \in Ku24Draws(Blinds), zero \in Ku24Zeros(Blinds) :
          LET tau == Ku24Product(know.mu, know.k, mask, zero, "tau")
          IN IF Ku24Consistent(tau, 2 * Ku24Degree)
             THEN Step("ku24_presign_2", "ku24_presign_3",
                       [tau |-> Ku24Reduced(tau, mask),
                        r |-> [i \in Signers |-> Fl(know.r[i] + Off(i, "r"))],
                        beta |-> [i \in Signers |-> Fl(know.beta[i] + Off(i, "beta"))]])
             ELSE Return("ku24_presign_2", Everyone(Refused))

\* triple_check_share: zero if tau = r w.
Ku24TripleCheck(tau, w, r, beta) == Fl((tau + Neg(Fl(r * w))) * beta)

\* transition_r3_to_r4
Ku24CheckTriple ==
    /\ stage = "ku24_presign_3"
    /\ IF \/ ~Ku24Consistent(know.r, Ku24Degree) \/ ~Ku24Consistent(know.beta, Ku24Degree)
          \/ Ku24Opened(know.beta, Ku24Degree) = 0
       THEN Return("ku24_presign_3", Everyone(Refused))
       ELSE Step("ku24_presign_3", "ku24_presign_4",
              [t |-> [i \in Signers |-> Fl(Off(i, "t") + Ku24TripleCheck(know.tau[i], know.w[i],
                          Ku24Opened(know.r, Ku24Degree), Ku24Opened(know.beta, Ku24Degree)))],
               wSent |-> [i \in Signers |-> Fl(know.w[i] + Off(i, "w_share"))],
               R |-> [i \in Signers |-> Fl(know.k[i] + Off(i, "R"))]])

\* finalize: shares of 1/k, by the inverse of w, and the nonce point.
Ku24Presign ==
    /\ stage = "ku24_presign_4"
    /\ IF \/ ~Ku24Consistent(know.t, Ku24Degree) \/ Ku24Opened(know.t, Ku24Degree) # 0
          \/ ~Ku24Consistent(know.wSent, Ku24Degree) \/ ~Ku24Consistent(know.R, Ku24Degree)
          \/ Ku24Opened(know.wSent, Ku24Degree) = 0 \/ Ku24Opened(know.R, Ku24Degree) = 0
       THEN Return("ku24_presign_4", Everyone(Refused))
       ELSE \E zero \in Ku24Zeros(Blinds) : Step("ku24_presign_4", "ku24_sign_1",
              [kInv |-> [i \in Signers |-> Fl(Inv(Ku24Opened(know.wSent, Ku24Degree)) * know.a[i])],
               R |-> Ku24Opened(know.R, Ku24Degree), zero |-> zero])

-----------------------------------------------------------------------------
(* Signing.                                                                  *)

\* partial_signature: a share of s at degree 2t.
Ku24Partial == Step("ku24_sign_1", "ku24_sign_2",
    [s |-> [i \in Signers |->
         Fl(know.kInv[i] * Fl(digest + XCoord(know.R) * know.x[i]) + know.zero[i] + Off(i, "s"))]])

\* try_finalize
Ku24Combine ==
    /\ stage = "ku24_sign_2"
    /\ IF Ku24Consistent(know.s, 2 * Ku24Degree)
       THEN Step("ku24_sign_2", "ku24_sign_3", [s |-> Ku24Opened(know.s, 2 * Ku24Degree)])
       ELSE Return("ku24_sign_2", Everyone(Refused))
Ku24Finish == Return("ku24_sign_3", Everyone(IF know.s = 0 THEN Refused ELSE Checked(XCoord(know.R), know.s)))

Ku24SignNext == Ku24MultiplyOnce \/ Ku24MultiplyTwice \/ Ku24CheckTriple \/ Ku24Presign \/ Ku24Partial \/ Ku24Combine \/ Ku24Finish

-----------------------------------------------------------------------------
\* The presignature is a sharing of the inverse of its nonce, whoever sent a
\* wrong share of what is opened without redundancy.  (The challenge r is not
\* tested for zero, and the check on the triple is void when it is.)
Ku24Fits == stage = "ku24_sign_1" /\ Ku24Opened(know.r, Ku24Degree) # 0 =>
            Ku24Consistent(know.kInv, Ku24Degree) /\ Fl(Ku24Opened(know.kInv, Ku24Degree) * know.R) = 1

\* Why honest parties may be refused.
Ku24Excuse ==
    \/ know.fault # "none"
    \/ Ku24Opened(know.k, Ku24Degree) = 0 \/ Ku24Opened(know.a, Ku24Degree) = 0
    \/ Ku24Opened(know.beta, Ku24Degree) = 0
    \/ NoSignature(XCoord(Ku24Opened(know.k, Ku24Degree)))
=============================================================================
