------------------------------- MODULE Kgg24 --------------------------------
(* tecdsa-kgg24: the key generation machine (src/keygen), the refresh of the *)
(* key shares (src/refresh.rs) and two-party signing (src/sign.rs).          *)
(*                                                                           *)
(* The key is the sum of the parties' scalars, and P2 holds an encryption of *)
(* P1's scalar plus a multiple of q that hides it.  A refresh moves r from   *)
(* P1's share to P2's and replaces that encryption; P1 has replaced its own  *)
(* half before P2 verifies.  In signing P1 alone has the signature.          *)
(*                                                                           *)
(* A faulty P1 encrypts x1 + bent, or refreshes to x1 - r + bent; a faulty   *)
(* P2 opens another X2, or adds bent to its partial signature.               *)
EXTENDS ProtocolSession

\* noise_bound, the range of the multiples of q that hide x1.
Kgg24Noise == {m \in Masks : m < Q * Q}

-----------------------------------------------------------------------------
(* Key generation.                                                           *)

\* party2_keygen_round1: X2 is committed to; P1 draws x1.
Kgg24KeygenBegin ==
    /\ stage = "kgg24_keygen_1"
    /\ \E x1, x2 \in Scalars, opens \in {TRUE, bent[P2] = 0} :
          /\ know = [x1 |-> x1, x2 |-> x2, opens |-> opens]
          /\ key = Fl(x1 + x2)

\* party1_keygen_round2: c_key encrypts x1 + t q.
Kgg24EncryptKey == \E t \in Kgg24Noise :
    Step("kgg24_keygen_1", "kgg24_keygen_2", [cKey |-> know.x1 + bent[P1] + t * Q])

\* What pi_eq claims: the plaintext is the logarithm of X1 modulo q.
Kgg24Encrypts(c, x) == Fl(c) = x

\* handle_p2_waiting_for_r2: P2 verifies, opens X2 and has its share.
Kgg24OpenX2 ==
    /\ stage = "kgg24_keygen_2"
    /\ IF Kgg24Encrypts(know.cKey, know.x1) THEN Pass("kgg24_keygen_2", "kgg24_keygen_3")
       ELSE Return("kgg24_keygen_2", OfTwo(Waiting, Refused))

Kgg24PublicShares == OfTwo(know.x1, know.x2)

\* party1_finalize_keygen, party2_finalize_keygen: X1 + X2.
Kgg24Share(i) == KeyShare(Kgg24PublicShares[i], Kgg24PublicShares, Fl(know.x1 + know.x2))

\* handle_p1_waiting_for_r3 (party1_verify_round3).
Kgg24KeygenFinish == Return("kgg24_keygen_3",
    OfTwo(IF know.opens THEN Kgg24Share(P1) ELSE Refused, Kgg24Share(P2)))

Kgg24KeygenNext == Kgg24EncryptKey \/ Kgg24OpenX2 \/ Kgg24KeygenFinish

\* What P2 keeps as the encryption of x1 is one.
Kgg24KeyEncrypted == P2 \in Holders => Fl(know.cKey) = know.x1

-----------------------------------------------------------------------------
(* Refresh and signing.                                                      *)

\* The shares before the refresh.
Kgg24SignBegin(f) ==
    /\ stage = "kgg24_refresh_1"
    /\ \E x1 \in Scalars : know = [x1 |-> x1, x2 |-> Fl(f[0] + Neg(x1))]

\* party1_refresh: P1's share and decryption key are replaced at once.
Kgg24Refresh1 == \E r \in Scalars, t \in Kgg24Noise :
    LET x1 == Fl(know.x1 + Neg(r) + bent[P1])
    IN Step("kgg24_refresh_1", "kgg24_refresh_2", [r |-> r, x1 |-> x1, cKey |-> x1 + t * Q])

\* X1_new + X2_new is the public key that P2 holds.
Kgg24KeyKept(x2) == Fl(know.x1 + x2) = key

\* party2_refresh: P2 replaces its share and c_key, or refuses and keeps the old
\* ones, which no longer match those of P1.
Kgg24Refresh2 ==
    /\ stage = "kgg24_refresh_2"
    /\ LET x2 == Fl(know.x2 + know.r)
       IN IF Kgg24Encrypts(know.cKey, know.x1) /\ Kgg24KeyKept(x2)
          THEN Step("kgg24_refresh_2", "kgg24_round_1", [x2 |-> x2])
          ELSE Return("kgg24_refresh_2", Everyone(Refused))

\* party1_round1, party2_round2
Kgg24Nonces == \E k1, k2 \in Scalars :
    Step("kgg24_round_1", "kgg24_round_3", [k1 |-> k1, k2 |-> k2])

Kgg24Nonce == Fl(know.k1 * know.k2)

\* party2_compute_partial_sig: the plaintext of c3, where k2^-1 is hidden by a
\* multiple of q as well.
Kgg24PartialSignature(rhoBar, rho) ==
    LET kInv == Inv(know.k2) + rhoBar * Q
        r == XCoord(Kgg24Nonce)
    IN rho * Q + kInv * digest + kInv * r * know.x2 + r * kInv * know.cKey + bent[P2]

\* rho_bound, the range of the multiples of q that hide c3: the plaintext stays
\* within the modulus.
Kgg24RhoBound == Q * Q * Q

Kgg24SendPartial == \E rhoBar \in Scalars, rho \in {m \in Masks : m < Kgg24RhoBound} :
    Step("kgg24_round_3", "kgg24_round_4", [c3 |-> Kgg24PartialSignature(rhoBar, rho)])

\* party1_finalize: decrypt, reduce modulo q, divide by k1.
Kgg24Finish == Return("kgg24_round_4", Everyone(
    Checked(XCoord(Kgg24Nonce), Fl(Inv(know.k1) * (Signed(know.c3, WideN) % Q)))))

Kgg24SignNext == Kgg24Refresh1 \/ Kgg24Refresh2 \/ Kgg24Nonces \/ Kgg24SendPartial \/ Kgg24Finish

-----------------------------------------------------------------------------
\* Refreshed shares are shares of the same key, and c_key encrypts that of P1.
Kgg24Fits == stage = "kgg24_round_1" =>
            /\ Fl(know.x1 + know.x2) = key
            /\ Fl(know.cKey) = know.x1

\* Why honest parties may be refused.
Kgg24Excuse == bent # Straight \/ NoSignature(XCoord(Kgg24Nonce))
=============================================================================
