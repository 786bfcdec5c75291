-------------------------------- MODULE Wmy23 -------------------------------
(* tecdsa-wmy23: key generation (src/keygen), presigning (src/presign) and   *)
(* online signing (src/sign) over distributed randomness generation (DRG, a  *)
(* Pedersen sharing with encrypted secrets) and CL-based MtA with a check    *)
(* (src/mtawc.rs).                                                           *)
(*                                                                           *)
(* The nonce and its mask are shared at the positions of the signers, the    *)
(* key at their indices.  Every share that is revealed is checked against    *)
(* broadcast MtA material by everyone.                                       *)
EXTENDS ProtocolSession

\* What the dealers' polynomials add up to at the position of each signer.
Wmy23Shared(poly) == [i \in Signers |-> Dealers(poly, Position(i))]

-----------------------------------------------------------------------------
(* Key generation.                                                           *)

\* keygen_round1: the sharing is drawn, and everything that will be broadcast
\* about it is committed to.
Wmy23KeygenBegin ==
    /\ stage = "wmy23_keygen_1"
    /\ \E poly \in [Signers -> Dealt], fault \in Faults({"share", "announced"}) :
          /\ know = [poly |-> poly, fault |-> fault]
          /\ key = Secret(poly)

\* transition_to_r2 and transition_to_r3: the opening and the shares are sent
\* and verified, what was received is added up and announced with X_i.
Wmy23Announce ==
    /\ stage = "wmy23_keygen_1"
    /\ IF \E d \in Signers : Faulty(d, "share") THEN RefuseVictim("wmy23_keygen_1", "share")
       ELSE LET x == Wmy23Shared(know.poly)
            IN Step("wmy23_keygen_1", "wmy23_keygen_3",
                    [x |-> x, X |-> [p \in Signers |-> Fl(x[p] + Off(p, "announced"))]])

\* verify_r3: the R_DL-PC proof ties X_i to the dealers' commitments at i.
Wmy23ExpVf(d) == know.X[d] = Wmy23Shared(know.poly)[d]

\* keygen_finalize: the key is interpolated over everyone.  A party does not
\* verify its own announcement, and uses its own share for it.
Wmy23KeygenFinish ==
    Return("wmy23_keygen_3", [p \in Signers |->
        IF \E d \in Others(p) : ~Wmy23ExpVf(d) THEN Refused
        ELSE LET X == [know.X EXCEPT ![p] = know.x[p]]
             IN KeyShare(know.x[p], X, Total([i \in Signers |-> X[i] * Lagrange(Positions, Position(i))], Signers))])

Wmy23KeygenNext == Wmy23Announce \/ Wmy23KeygenFinish

-----------------------------------------------------------------------------
(* Presigning and signing.                                                   *)

\* drg_presign_round1: sharings of k_i and gamma_i.
Wmy23SignBegin(f) ==
    /\ stage = "wmy23_presign_1"
    /\ \E k \in [Signers -> Scalars], gamma \in [Signers -> Scalars], slope \in Blinds,
          fault \in Faults({"share", "gamma", "alpha", "delta", "s"}) :
          LET Drawn(secret) == [i \in Signers |-> [d \in 0 .. T - 1 |-> IF d = 0 THEN secret[i] ELSE slope]]
          IN know = [kPoly |-> Drawn(k), gammaPoly |-> Drawn(gamma), fault |-> fault,
                     x |-> [i \in Signers |-> Fl(Lagrange(Signers, i) * Eval(f, i))]]

\* Mutant of Wmy23Additive: the coefficient is that of the PartyId.
Wmy23Additive_PartyId(shares) == [i \in Signers |-> Fl(Lagrange(Signers, i) * shares[i])]

\* hat_k_i, hat_gamma_i: a share times the coefficient of its position.
Wmy23Additive(shares) == [i \in Signers |-> Fl(Lagrange(Positions, Position(i)) * shares[i])]

\* drg_presign_round2: the verified shares are added up, g^gamma is revealed.
Wmy23Combine ==
    /\ stage = "wmy23_presign_1"
    /\ IF \E d \in Signers : Faulty(d, "share") THEN RefuseVictim("wmy23_presign_1", "share")
       ELSE LET gamma == Wmy23Additive(Wmy23Shared(know.gammaPoly))
            IN Step("wmy23_presign_1", "wmy23_presign_3",
                    [k |-> Wmy23Additive(Wmy23Shared(know.kPoly)), gamma |-> gamma,
                     Gamma |-> [i \in Signers |-> Fl(gamma[i] + Off(i, "gamma"))]])

\* drg_presign_round3_bob, mtawc_bob: i answers j's encrypted k_j for gamma_i
\* and for x_i, under masks that it keeps as its shares.
Wmy23Answer ==
    /\ stage = "wmy23_presign_3"
    /\ \E beta \in [Pairs -> Scalars], nu \in Scalars :
       Step("wmy23_presign_3", "wmy23_presign_4", [beta |-> beta, nu |-> [p \in Pairs |-> nu]])

\* What i decrypts from j: k_i times b_j minus the mask.
Wmy23Alpha(i, j, b, mask) == Fl(know.k[i] * b[j] + Neg(mask[<<j, i>>]))

\* k_i b_i, what was decrypted from the others, and the masks given to them.
Wmy23ShareOf(i, b, mask) ==
    Fl(know.k[i] * b[i]
       + SumFunctionOnSet([j \in Others(i) |-> Wmy23Alpha(i, j, b, mask) + mask[<<i, j>>]], Others(i)))

\* drg_presign_round4_compute: everyone's revealed points are verified, and
\* what i decrypts is compared with the points of j (Fig. 1, step 3).
Wmy23Reveal ==
    /\ stage = "wmy23_presign_4"
    /\ IF know.Gamma # know.gamma THEN RefuseFaulty("wmy23_presign_4", "gamma")
       ELSE IF \E d \in Signers : Faulty(d, "alpha") THEN RefuseVictim("wmy23_presign_4", "alpha")
       ELSE Step("wmy23_presign_4", "wmy23_presign_5",
                 [delta |-> [i \in Signers |-> Fl(Wmy23ShareOf(i, know.gamma, know.beta) + Off(i, "delta"))],
                  sigma |-> [i \in Signers |-> Wmy23ShareOf(i, know.x, know.nu)],
                  D |-> [i \in Signers |-> Fl(Total(know.gamma, Signers) * know.k[i])]])

\* verify_phase3_party: delta_j without the masks is Gamma^{k_j}, which d_proof
\* says D_j is.
Wmy23Equation2(j) ==
    Fl(know.delta[j] + SumFunctionOnSet([l \in Others(j) |->
        know.beta[<<l, j>>] + Neg(know.beta[<<j, l>>])], Others(j))) = know.D[j]

Wmy23Delta == Total(know.delta, Signers)

\* finalize_r4, drg_presign_finalize
Wmy23Presign ==
    /\ stage = "wmy23_presign_5"
    /\ IF \E j \in Signers : ~Wmy23Equation2(j) THEN RefuseFaulty("wmy23_presign_5", "delta")
       ELSE IF Wmy23Delta # Total(know.D, Signers) \/ Wmy23Delta = 0
       THEN Return("wmy23_presign_5", Everyone(Refused))
       ELSE Step("wmy23_presign_5", "wmy23_sign",
                 [R |-> Fl(Total(know.Gamma, Signers) * Inv(Wmy23Delta))])

\* compute_contribution: the share of s, and R^{mu_ij} for every other j.
Wmy23SShare(i) == Fl(Fl(digest * know.k[i] + XCoord(know.R) * know.sigma[i]) + Off(i, "s"))
Wmy23M(i, j) == Fl(know.R * Wmy23Alpha(i, j, know.x, know.nu))

\* verify_contribution_equation: s_i is consistent with what i and the others
\* revealed of their products.
Wmy23Equation3(i) ==
    Fl(know.R * Wmy23SShare(i) + SumFunctionOnSet([j \in Others(i) |->
            Fl(Wmy23M(j, i) + Neg(Wmy23M(i, j))) * XCoord(know.R)], Others(i)))
      = Fl(Fl(know.D[i] * Inv(Wmy23Delta)) * digest + know.x[i] * XCoord(know.R))

\* verify_and_finish, combine_signatures
Wmy23Finish ==
    /\ stage = "wmy23_sign"
    /\ IF \E i \in Signers : ~Wmy23Equation3(i) THEN RefuseFaulty("wmy23_sign", "s")
       ELSE Return("wmy23_sign",
                   Everyone(Checked(XCoord(know.R), Total([i \in Signers |-> Wmy23SShare(i)], Signers))))

Wmy23SignNext == Wmy23Combine \/ Wmy23Answer \/ Wmy23Reveal \/ Wmy23Presign \/ Wmy23Finish

-----------------------------------------------------------------------------
Wmy23Nonce == Secret(know.kPoly)

\* The presignature fits the nonce and the key.
Wmy23Fits == stage = "wmy23_sign" =>
            /\ Total(know.k, Signers) = Wmy23Nonce
            /\ Fl(Wmy23Nonce * know.R) = 1
            /\ Total(know.sigma, Signers) = Fl(Wmy23Nonce * key)

\* Why honest signers may be refused.
Wmy23Excuse == \/ Wmy23Nonce = 0 \/ Secret(know.gammaPoly) = 0 \/ bent # Straight
               \/ NoSignature(XCoord(Inv(Wmy23Nonce)))
=============================================================================
