-------------------------------- MODULE Trout -------------------------------
(* tecdsa-trout: key generation (src/keygen), one-round presigning           *)
(* (src/presign) and one-round signing (src/sign) by scaled decryption of    *)
(* class-group ciphertexts (tecdsa-class-group/src/scaled_decrypt.rs).       *)
(*                                                                           *)
(* Nobody can decrypt under the joint key.  What every party knows are the   *)
(* randomness of its own ciphertexts and the opening of its own commitment,  *)
(* which is enough to open a sum of plaintexts times a sum of committed      *)
(* values.  A product of class-group elements is written as the exponents    *)
(* it has to the bases h, pk and f; it is in F, where logarithms are easy,   *)
(* when the first two are zero.                                              *)
(*                                                                           *)
(* The nonce share is the eVRF key, which the key share holds: it does not   *)
(* depend on the session nonce that is evaluated.                            *)
EXTENDS ProtocolSession

-----------------------------------------------------------------------------
(* Key generation.                                                           *)

\* new_with_key_material, transition_to_r2: a Feldman sharing, committed to
\* with the contributions to the CL key, and opened.
TroutKeygenBegin ==
    /\ stage = "trout_keygen_2"
    /\ \E poly \in [Signers -> Dealt], fault \in Faults({"opening", "share", "encrypted"}) :
          /\ know = [poly |-> poly, fault |-> fault]
          /\ key = Secret(poly)

\* transition_to_r3: openings and proofs, then the share for this party, are
\* verified, and x_i is encrypted under the product of all contributions.
TroutEncrypt ==
    /\ stage = "trout_keygen_2"
    /\ IF \E d \in Signers : Faulty(d, "opening") THEN RefuseFaulty("trout_keygen_2", "opening")
       ELSE IF \E d \in Signers : Faulty(d, "share") THEN RefuseVictim("trout_keygen_2", "share")
       ELSE LET x == [p \in Signers |-> Dealers(know.poly, Position(p))]
            IN Step("trout_keygen_2", "trout_keygen_3",
                    [x |-> x, ct |-> [p \in Signers |-> Fl(x[p] + Off(p, "encrypted"))]])

\* finalize: R_CL-EC ties the ciphertext of j to X_j, which follows from the
\* sharings.
TroutKeygenFinish ==
    Return("trout_keygen_3", [p \in Signers |->
        LET X == [j \in Signers |-> Dealers(know.poly, Position(j))]
        IN IF \E j \in Others(p) : know.ct[j] # X[j] THEN Refused
           ELSE With([ct |-> [know.ct EXCEPT ![p] = know.x[p]]], KeyShare(know.x[p], X, Secret(know.poly)))])

TroutKeygenNext == TroutEncrypt \/ TroutKeygenFinish

\* The ciphertexts that come with a key share are of the other key shares.
TroutKeyEncrypted == \A p \in Holders : \A j \in Holders : answer[p].ct[j] = answer[j].share

-----------------------------------------------------------------------------
(* Scaled decryption.                                                        *)

TroutSumOf(f) == SumFunctionOnSet(f, Signers)

\* compute_f_share, a2^b_i a1^beta_i B^-alpha_i, where a1 = h^drawn and
\* a2 = pk^drawn f^m add up the ciphertexts, B = h^beta pk^b the commitments;
\* alpha_i is what the party takes for the randomness of its own ciphertext.
TroutFShare(m, drawn, alpha, beta, b, i) ==
    [f |-> Fl(b[i] * TroutSumOf(m)),
     pk |-> b[i] * TroutSumOf(drawn) - alpha[i] * TroutSumOf(b),
     h |-> beta[i] * TroutSumOf(drawn) - alpha[i] * TroutSumOf(beta)]

\* aggregate_and_solve: dlog_in_F of the product of all F-shares, or nothing.
TroutSolve(shares) ==
    IF /\ TroutSumOf([i \in Signers |-> shares[i].pk]) = 0
       /\ TroutSumOf([i \in Signers |-> shares[i].h]) = 0
    THEN {Fl(TroutSumOf([i \in Signers |-> shares[i].f]))} ELSE {}

-----------------------------------------------------------------------------
(* Presigning and signing.                                                   *)

\* presign_round1: k_i is encrypted, u_i committed to, and the ciphertext of x_i
\* in the key share scaled by the Lagrange coefficient.  What the key share
\* holds of earlier randomness, delta, is as good as any.
TroutSignBegin(f) ==
    /\ stage = "trout_presign"
    /\ \E k \in [Signers -> Scalars], alpha \in [Signers -> Scalars], beta \in [Signers -> Scalars],
          u \in Blinds, fault \in Faults({"proof", "scaled", "share"}) :
          know = [k |-> k, alpha |-> alpha, beta |-> beta, fault |-> fault,
                  u |-> [i \in Signers |-> u + i], delta |-> alpha,
                  lx |-> [i \in Signers |-> Fl(Lagrange(Signers, i) * Eval(f, i))]]

\* finalize: the ciphertext is proved to be of the k_i of R_i, and the commitment
\* to be known.  The verdict on the eVRF proof is discarded, and the scaled
\* ciphertext comes without a proof.
TroutPresign ==
    /\ stage = "trout_presign"
    /\ IF \E i \in Signers : Faulty(i, "proof") THEN RefuseFaulty("trout_presign", "proof")
       ELSE Step("trout_presign", "trout_sign_1", [R |-> Total(know.k, Signers),
                  announced |-> [i \in Signers |-> Fl(know.lx[i] + Off(i, "scaled"))]])

\* alpha_z: the randomness of the ciphertext of r lambda_i x_i.
TroutAlphaZ(r, i) == r * Lagrange(Signers, i) * know.delta[i]

\* TroutSignMachine::new: the F-shares of u k and of u (m + r x).  The digest is
\* added to the first ciphertext.  The ciphertexts of l_i x_i, whose randomness
\* is l_i delta_i, are raised to r.
TroutOpen ==
    /\ stage = "trout_sign_1"
    /\ LET r == XCoord(know.R)
           rlx == [i \in Signers |-> r * know.announced[i] + IF i = P1 THEN digest ELSE 0]
           raised == [i \in Signers |-> r * (Lagrange(Signers, i) * know.delta[i])]
           alphaZ == [i \in Signers |-> TroutAlphaZ(r, i)]
       IN Step("trout_sign_1", "trout_sign_2",
            [f1 |-> [i \in Signers |-> TroutFShare(know.k, know.alpha, know.alpha, know.beta, know.u, i)],
             f2 |-> [i \in Signers |-> LET share == TroutFShare(rlx, raised, alphaZ, know.beta, know.u, i)
                                       IN [share EXCEPT !.f = Fl(@ + Off(i, "share"))]]])

\* finalize_signature: the second plaintext over the first, unless that is zero.
TroutQuotients(uk, ux) == {Fl(b * Inv(a)) : a \in uk \ {0}, b \in ux}

\* handle and finalize_signature
TroutFinish ==
    /\ stage = "trout_sign_2"
    /\ LET s == TroutQuotients(TroutSolve(know.f1), TroutSolve(know.f2))
       IN Return("trout_sign_2", Everyone(IF s = {} THEN Refused
                                          ELSE Checked(XCoord(know.R), CHOOSE x \in s : TRUE)))

TroutSignNext == TroutPresign \/ TroutOpen \/ TroutFinish

-----------------------------------------------------------------------------
\* The F-shares can be opened, to u k and u (m + r x).  A ciphertext that was
\* scaled wrongly shows only in the signature.
TroutFits == stage = "trout_sign_2" =>
            LET u == Total(know.u, Signers)
            IN /\ TroutSolve(know.f1) = {Fl(u * know.R)}
               /\ know.fault = "none" => TroutSolve(know.f2) = {Fl(u * (digest + XCoord(know.R) * key))}

\* Why honest signers may be refused.
TroutExcuse ==
    \/ know.fault \in {"proof", "scaled", "share"}
    \/ Total(know.u, Signers) = 0
    \/ IF "R" \in DOMAIN know THEN know.R = 0 \/ NoSignature(XCoord(know.R)) ELSE FALSE
=============================================================================
