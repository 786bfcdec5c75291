------------------------------- MODULE Lin17 --------------------------------
(* tecdsa-lin17: the key generation machine (src/keygen) and two-party       *)
(* signing (src/sign.rs).                                                    *)
(*                                                                           *)
(* The key is the product of the parties' scalars.  In key generation P1     *)
(* hands P2 an encryption of its scalar, and the PDL protocol (tecdsa-       *)
(* paillier/src/zk/pdl.rs) shows P2 that it encrypts the logarithm of Q1:    *)
(* P2 asks for a x1 + b, which P1 only commits to until P2 has shown that it *)
(* knows a and b.  In signing P2 works under that encryption, and P1 alone   *)
(* decrypts, checks and returns the signature.                               *)
(*                                                                           *)
(* A faulty P1 encrypts x1 + bent; a faulty P2 opens a wrong a, or adds bent *)
(* to its partial signature.                                                 *)
EXTENDS ProtocolSession

-----------------------------------------------------------------------------
(* Key generation.                                                           *)

\* party1_keygen_round1, party2_keygen_round2: x1 and x2 are drawn, and P1
\* commits to Q1, which a faulty one does not open.
Lin17KeygenBegin ==
    /\ stage = "lin17_keygen_1"
    /\ \E x1, x2 \in Scalars, opens \in {TRUE, bent[P1] = 0} :
          /\ know = [x1 |-> x1, x2 |-> x2, opens |-> opens]
          /\ key = Fl(x1 * x2)

\* handle_p1_waiting_for_r2: P1 opens Q1 and encrypts its scalar.
Lin17EncryptKey == Step("lin17_keygen_1", "lin17_keygen_3",
                        [cKey |-> Fl(know.x1 + bent[P1])])

\* party2_verify_round3: the commitment to Q1 opens, and cKey is in range, which
\* does not say that it encrypts x1.
Lin17Round3Holds == know.opens /\ know.cKey \in Field

Lin17Round3Refused ==
    /\ stage = "lin17_keygen_3"
    /\ ~Lin17Round3Holds
    /\ Return("lin17_keygen_3", OfTwo(Waiting, Refused))

\* handle_p2_waiting_for_r3 and verifier_step1: P2 asks for a x1 + b, where a may
\* be drawn as zero.
Lin17Challenge ==
    /\ stage = "lin17_keygen_3"
    /\ Lin17Round3Holds
    /\ \E a \in {0} \cup Scalars, b \in Scalars :
          Step("lin17_keygen_3", "lin17_keygen_4",
               [a |-> a, b |-> b, asked |-> Signed(a * know.cKey + b, WideN),
                QTag |-> Fl(know.x1 * a + b)])

\* prover_step1: P1 decrypts what it is asked and commits to it times G.
Lin17Respond == Step("lin17_keygen_4", "lin17_keygen_5", [alpha |-> know.asked])

\* verifier_step2: P2 opens a and b.
Lin17OpenChallenge == Step("lin17_keygen_5", "lin17_keygen_6", [openedA |-> Fl(know.a + bent[P2])])

\* prover_step2: a and b are those committed to, and alpha is what they call
\* for.  A faulty P1 answers whatever it finds.
Lin17AnswerDue == /\ know.openedA = know.a
                  /\ bent[P1] # 0 \/ know.alpha = know.a * know.x1 + know.b

\* handle_p1_waiting_for_r6: P1 opens its commitment and has its key share,
\* before P2 has checked anything.
Lin17Answer ==
    /\ stage = "lin17_keygen_6"
    /\ IF Lin17AnswerDue THEN Pass("lin17_keygen_6", "lin17_keygen_7")
       ELSE Return("lin17_keygen_6", OfTwo(Refused, Waiting))

Lin17PublicShares == OfTwo(know.x1, know.x2)

\* verifier_finalize
Lin17AnswerHolds == Fl(know.alpha) = know.QTag

\* handle_p2_waiting_for_r7
Lin17Finalize == Return("lin17_keygen_7",
    LET share(x) == KeyShare(x, Lin17PublicShares, Fl(know.x1 * know.x2))
    IN OfTwo(share(know.x1), IF Lin17AnswerHolds THEN share(know.x2) ELSE Refused))

Lin17KeygenNext ==
    \/ Lin17EncryptKey \/ Lin17Round3Refused \/ Lin17Challenge \/ Lin17Respond \/ Lin17OpenChallenge
    \/ Lin17Answer \/ Lin17Finalize

\* What P2 keeps as the encryption of x1 is one, unless a was drawn as zero.
Lin17KeyEncrypted == P2 \in Holders => know.cKey = know.x1 \/ know.a = 0

-----------------------------------------------------------------------------
(* Signing.                                                                  *)

\* party1_round1, party2_round2: the parties draw their nonces.
Lin17SignBegin(f) ==
    /\ stage = "lin17_round_1"
    /\ \E x1, k1, k2 \in Scalars :
          know = [x1 |-> x1, x2 |-> Fl(f[0] * Inv(x1)), k1 |-> k1, k2 |-> k2]

Lin17Nonce == Fl(know.k1 * know.k2)

\* party2_round4: the plaintext of c3, rho q + k2^-1 m + v x1.
Lin17PartialSignature(rho) ==
    rho * Q + Fl(Inv(know.k2) * digest) + bent[P2]
    + Fl(Inv(know.k2) * Fl(XCoord(Lin17Nonce) * know.x2)) * know.x1

Lin17SendPartial == \E rho \in {m \in Masks : m < Q * Q} :
    Step("lin17_round_1", "lin17_round_4", [c3 |-> Lin17PartialSignature(rho)])

\* party1_finalize: the bytes of the decryption are those of its magnitude.
Lin17Magnitude(x) == IF x < 0 THEN -x ELSE x
Lin17SPrime == Fl(Lin17Magnitude(Signed(know.c3, WideN)))

Lin17Finish == Return("lin17_round_4",
                      Everyone(Checked(XCoord(Lin17Nonce), Fl(Inv(know.k1) * Lin17SPrime))))

Lin17SignNext == Lin17SendPartial \/ Lin17Finish

-----------------------------------------------------------------------------
\* Why honest parties may be refused.
Lin17Excuse == bent # Straight \/ NoSignature(XCoord(Lin17Nonce))
=============================================================================
