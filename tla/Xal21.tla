------------------------------- MODULE Xal21 --------------------------------
(* tecdsa-xal21: the key generation machine (src/keygen), offline signing    *)
(* (src/offline_sign.rs) and online signing (src/online_sign.rs).            *)
(*                                                                           *)
(* The key is the sum of the parties' scalars.  Offline signing multiplies   *)
(* P2's nonce by a fresh x1' of P1 (MtA) and re-shares the key as            *)
(* x1' (r1 + k2) + x2'; online signing is one message of P2, and P1 alone    *)
(* has the signature.                                                        *)
(*                                                                           *)
(* A faulty P1 opens another Q1, or re-shares x1 - bent; a faulty P2 has a   *)
(* Paillier key without a valid proof, or adds bent to s2.                   *)
EXTENDS ProtocolSession

-----------------------------------------------------------------------------
(* Key generation.                                                           *)

\* party1_keygen_round1: x1, Q1 and the commitment to it; P2 draws x2.
Xal21KeygenBegin ==
    /\ stage = "xal21_keygen_1"
    /\ \E x1, x2 \in Scalars, opens \in {TRUE, bent[P1] = 0} :
          /\ know = [x1 |-> x1, x2 |-> x2, opens |-> opens]
          /\ key = Fl(x1 + x2)

\* party2_keygen_round2: Q2, and the Paillier key with its proof.
Xal21SendQ2 == \E proven \in {TRUE, bent[P2] = 0} :
    Step("xal21_keygen_1", "xal21_keygen_2", [proven |-> proven])

Xal21PublicShares == OfTwo(know.x1, know.x2)

\* party1_finalize, party2_finalize: Q1 + Q2, of which nobody asks whether it is
\* the identity.
Xal21Share(i) == KeyShare(Xal21PublicShares[i], Xal21PublicShares, Fl(know.x1 + know.x2))

\* handle_p1_waiting_for_r2: P1 verifies Q2 and the Paillier key, opens Q1 and
\* has its share.
Xal21OpenQ1 ==
    /\ stage = "xal21_keygen_2"
    /\ IF know.proven THEN Pass("xal21_keygen_2", "xal21_keygen_3")
       ELSE Return("xal21_keygen_2", OfTwo(Refused, Waiting))

\* handle_p2_waiting_for_r3 (party2_verify_round3): P2 keeps its share only if
\* Q1 is what P1 committed to; P1 has kept its own by then.
Xal21KeygenFinish == Return("xal21_keygen_3",
    OfTwo(Xal21Share(P1), IF know.opens THEN Xal21Share(P2) ELSE Refused))

Xal21KeygenNext == Xal21SendQ2 \/ Xal21OpenQ1 \/ Xal21KeygenFinish

-----------------------------------------------------------------------------
(* Offline and online signing.                                               *)

\* step1_p2_commit: P2 commits to its nonce.
Xal21SignBegin(f) ==
    /\ stage = "xal21_step_1"
    /\ \E x1, k2 \in Scalars :
          know = [x1 |-> x1, x2 |-> Fl(f[0] + Neg(x1)), k2 |-> k2]

\* step2_p1_compute: t_A is minus the mask of P1's MtA reply, and cc re-shares
\* its key.
Xal21Reshare == \E xp, r1 \in Scalars, mask \in {m \in Masks : m < Q * Q} :
    Step("xal21_step_1", "xal21_step_2",
         [xp |-> xp, r1 |-> r1, mask |-> mask,
          cc |-> Fl(MtaReceiverShare(mask) + xp * r1 + Neg(know.x1) + bent[P1])])

Xal21TB == MtaSenderShare(know.xp, know.k2, know.mask, WideN)

\* step2_p2_verify: (t_B + cc) G = (r1 + k2) Q1' - Q1.
Xal21ReshareHolds ==
    Fl(Xal21TB + know.cc) = Fl((know.r1 + know.k2) * know.xp + Neg(know.x1))

\* step2_p2_verify, step3_p1_send_nonce and step3_p2_decommit_and_compute_R.
Xal21Decommit ==
    /\ stage = "xal21_step_2"
    /\ IF ~Xal21ReshareHolds THEN Return("xal21_step_2", Everyone(Refused))
       ELSE \E k1 \in Scalars :
               Step("xal21_step_2", "xal21_step_3",
                    [k1 |-> k1,
                     xp2 |-> Fl(know.x2 + Neg(Fl(Xal21TB + know.cc))),
                     R |-> Fl(k1 * (know.r1 + know.k2))])

\* step3_p1_verify_and_compute_R: P1 adds k1 R2 and k1 r1 G itself.
Xal21VerifyR == Step("xal21_step_3", "xal21_online",
                     [r |-> XCoord(Fl(know.k1 * know.k2 + know.k1 * know.r1))])

\* party2_compute_s2: k2 + r1 may have no inverse.
Xal21S2 == Fl(Inv(Fl(know.k2 + know.r1)) * (digest + XCoord(know.R) * know.xp2) + bent[P2])

\* party1_compute_signature
Xal21Online == Return("xal21_online", Everyone(
    IF Fl(know.k2 + know.r1) = 0 THEN Refused
    ELSE Checked(know.r, Fl(Inv(know.k1) * (Xal21S2 + know.r * know.xp)))))

Xal21SignNext == Xal21Reshare \/ Xal21Decommit \/ Xal21VerifyR \/ Xal21Online

-----------------------------------------------------------------------------
\* Both parties' presignatures are of one nonce, and x1' and x2' share the key
\* (Party1Presignature, Party2Presignature).
Xal21Fits == stage = "xal21_online" =>
            /\ know.r = XCoord(know.R)
            /\ Fl(know.xp * (know.r1 + know.k2) + know.xp2) = key

\* Why honest parties may be refused.
Xal21Excuse == \/ Fl(know.k2 + know.r1) = 0 \/ bent # Straight
               \/ NoSignature(XCoord(know.R))
=============================================================================
