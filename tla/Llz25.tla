-------------------------------- MODULE Llz25 -------------------------------
(* tecdsa-llz25: key generation (src/keygen), one-round presigning           *)
(* (src/presign) and one-round signing (src/sign) over non-interactive       *)
(* multiplication (NIM, tecdsa-class-group/src/nim.rs): of what one party    *)
(* encoded with Encode_B and another with Encode_A each decodes a part, and  *)
(* the two parts add up to the product.                                      *)
(*                                                                           *)
(* The presignature does not depend on the message; the nonce is             *)
(* re-randomised by two hashes of it, which are drawn here.                  *)
EXTENDS ProtocolSession

-----------------------------------------------------------------------------
(* Key generation.                                                           *)

\* new_with_setup, transition_to_r2: a Feldman sharing, committed to and opened.
Llz25KeygenBegin ==
    /\ stage = "llz25_keygen_2"
    /\ \E poly \in [Signers -> Dealt], fault \in Faults({"opening", "share", "encoded"}) :
          /\ know = [poly |-> poly, fault |-> fault]
          /\ key = Secret(poly)

\* transition_to_r3: openings and proofs, then the share for this party, are
\* verified; x_i is encoded, for all later presignings.
Llz25Encode ==
    /\ stage = "llz25_keygen_2"
    /\ IF \E d \in Signers : Faulty(d, "opening") THEN RefuseFaulty("llz25_keygen_2", "opening")
       ELSE IF \E d \in Signers : Faulty(d, "share") THEN RefuseVictim("llz25_keygen_2", "share")
       ELSE Step("llz25_keygen_2", "llz25_keygen_3",
                 [x |-> [p \in Signers |-> Dealers(know.poly, Position(p))],
                  peX |-> [p \in Signers |-> Fl(Dealers(know.poly, Position(p)) + Off(p, "encoded"))]])

\* R_CL_DL_EC: what p encoded is the logarithm of X_p.
Llz25Encodes(p, X) == know.peX[p] = X

\* finalize: X_j follows from the sharings, and is what j announced and encoded.
Llz25KeygenFinish ==
    Return("llz25_keygen_3", [p \in Signers |->
        LET X == [j \in Signers |-> Dealers(know.poly, Position(j))]
        IN IF \E j \in Others(p) : ~Llz25Encodes(j, X[j]) THEN Refused
           ELSE With([peX |-> [j \in Signers |-> IF j = p THEN know.x[p] ELSE know.peX[j]]],
                     KeyShare(know.x[p], X, Secret(know.poly)))])

Llz25KeygenNext == Llz25Encode \/ Llz25KeygenFinish

\* The encodings that presigning takes from the key share are of the shares.
Llz25KeyEncrypted == \A p \in Holders : \A j \in Holders : answer[p].peX[j] = answer[j].share

-----------------------------------------------------------------------------
(* Presigning.                                                               *)

\* presign_round1: the one message of a signer encodes k_i and gamma_i.
Llz25SignBegin(f) ==
    /\ stage = "llz25_presign"
    /\ \E k \in [Signers -> Scalars], gamma \in [Signers -> Blinds], fault \in Faults({"proof", "partial"}) :
          know = [k |-> k, gamma |-> gamma, fault |-> fault,
                  x |-> [p \in Parties |-> Eval(f, p)]]

\* pe_x_components: the encoding of x_i from the key share, at the index of i.
Llz25PeX(i) == know.x[i]

\* compute_presign_coefficients: k_i gamma_i and lambda_i x_i gamma_i, plus what
\* i decodes of each other signer's encodings.  The parts that the two signers
\* of a pair decode add up to the product.
Llz25Coefficients ==
    /\ stage = "llz25_presign"
    /\ IF \E i \in Signers : Faulty(i, "proof") THEN RefuseFaulty("llz25_presign", "proof")
       ELSE \E alpha \in [Pairs -> Scalars], mu \in [Pairs -> Blinds] :
            LET lambda == [i \in Signers |-> Lagrange(Signers, i)]
                AlphaBeta(i, j) == alpha[<<i, j>>] + know.k[j] * know.gamma[i] + Neg(alpha[<<j, i>>])
                MuNu(i, j) == lambda[i] * mu[<<i, j>>] + lambda[j] * (Llz25PeX(j) * know.gamma[i] + Neg(mu[<<j, i>>]))
            IN Step("llz25_presign", "llz25_sign_1",
                 [u |-> [i \in Signers |-> Fl(know.k[i] * know.gamma[i]
                            + SumFunctionOnSet([j \in Others(i) |-> AlphaBeta(i, j)], Others(i)))],
                  w |-> [i \in Signers |-> Fl(lambda[i] * know.x[i] * know.gamma[i]
                            + SumFunctionOnSet([j \in Others(i) |-> MuNu(i, j)], Others(i)))]])

-----------------------------------------------------------------------------
(* Online signing.                                                           *)

\* compute_partial_signature: z and y are hashes of the message and of all
\* presigning messages, R = z K + y G.
Llz25Partial == \E z \in Scalars, y \in Blinds :
    /\ stage = "llz25_sign_1"
    /\ LET R == Fl(z * Total(know.k, Signers) + y)
       IN Step("llz25_sign_1", "llz25_sign_2",
            [R |-> R,
             wi |-> [i \in Signers |-> Fl(digest * know.gamma[i] + XCoord(R) * know.w[i] + Off(i, "partial"))],
             ui |-> [i \in Signers |-> Fl(y * know.gamma[i] + z * know.u[i])]])

\* combine_signatures
Llz25Finish ==
    /\ stage = "llz25_sign_2"
    /\ LET u == Total(know.ui, Signers)
           s == IF u = 0 THEN 0 ELSE Fl(Total(know.wi, Signers) * Inv(u))
       IN Return("llz25_sign_2", Everyone(IF u = 0 THEN Refused ELSE Checked(XCoord(know.R), s)))

Llz25SignNext == Llz25Coefficients \/ Llz25Partial \/ Llz25Finish

-----------------------------------------------------------------------------
\* The coefficients of a presignature fit K and the key.
Llz25Fits == stage = "llz25_sign_1" =>
            LET gamma == Total(know.gamma, Signers)
            IN /\ Total(know.u, Signers) = Fl(gamma * Total(know.k, Signers))
               /\ Total(know.w, Signers) = Fl(gamma * key)

\* Why honest signers may be refused.
Llz25Excuse ==
    \/ know.fault \in {"proof", "partial"}
    \/ Total(know.gamma, Signers) = 0
    \/ IF "R" \in DOMAIN know THEN know.R = 0 \/ NoSignature(XCoord(know.R)) ELSE FALSE
=============================================================================
