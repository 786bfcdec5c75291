------------------------------- MODULE Abc24 --------------------------------
(* tecdsa-abc24: the key generation machine (src/keygen) and two-message     *)
(* signing (src/sign.rs) between a server, which is Party1, and a client,    *)
(* Party2.  The key is the sum of the server's x2 and the client's x1.       *)
(*                                                                           *)
(* The client keeps an encryption of x2 that nothing shows to be one: only   *)
(* the verification of the signature tells.  In signing the nonce is         *)
(* k1 (k2 + mu), where mu is a hash of what has been sent, so that neither   *)
(* party chooses it.                                                         *)
(*                                                                           *)
(* A faulty server opens another X2, encrypts x2 + bent or sends a Y that is *)
(* off; a faulty client sends an R that is off, or a ciphertext that is.     *)
EXTENDS ProtocolSession

Abc24Server == P1
Abc24Client == P2

-----------------------------------------------------------------------------
(* Key generation.                                                           *)

\* server_keygen_step1: X2 is committed to; client_keygen_step2 draws x1.
Abc24KeygenBegin ==
    /\ stage = "abc24_keygen_1"
    /\ \E x1, x2 \in Scalars, opens \in {TRUE, bent[Abc24Server] = 0} :
          /\ know = [x1 |-> x1, x2 |-> x2, opens |-> opens]
          /\ key = Fl(x1 + x2)

\* client_keygen_step2: X1 with a proof of knowledge, which a faulty client may
\* not have.
Abc24SendX1 == \E proven \in {TRUE, bent[Abc24Client] = 0} :
    Step("abc24_keygen_1", "abc24_keygen_2", [proven |-> proven])

Abc24PublicShares == OfTwo(know.x2, know.x1)

\* server_finalize_keygen, client_finalize_keygen
Abc24Share(i) == KeyShare(Abc24PublicShares[i], Abc24PublicShares, Fl(know.x1 + know.x2))

\* handle_server_waiting_for_step2: the server opens X2, encrypts x2 and has its
\* share.
Abc24OpenX2 ==
    /\ stage = "abc24_keygen_2"
    /\ IF know.proven
       THEN Step("abc24_keygen_2", "abc24_keygen_3", [encX2 |-> Fl(know.x2 + bent[Abc24Server])])
       ELSE Return("abc24_keygen_2", OfTwo(Refused, Waiting))

\* client_verify_step3: the commitment opens, and the ciphertext is one.
Abc24Opens == know.opens

\* handle_client_waiting_for_step3
Abc24KeygenFinish == Return("abc24_keygen_3",
    OfTwo(Abc24Share(Abc24Server), IF Abc24Opens THEN Abc24Share(Abc24Client) ELSE Refused))

Abc24KeygenNext == Abc24SendX1 \/ Abc24OpenX2 \/ Abc24KeygenFinish

-----------------------------------------------------------------------------
(* Signing.                                                                  *)

\* server_round1: R2 = k2 G and Y = k2 X1.
Abc24SignBegin(f) ==
    /\ stage = "abc24_round_1"
    /\ \E x2, k2 \in Scalars :
          LET x1 == Fl(f[0] + Neg(x2))
          IN know = [x1 |-> x1, x2 |-> x2, k2 |-> k2, Y |-> Fl(k2 * x1 + bent[Abc24Server])]

\* client_round2: (R2, Y) is a Diffie-Hellman pair; mu is what the random oracle
\* answers, and the plaintext of the reply hides its two parts modulo q.
Abc24ClientRound2 ==
    /\ stage = "abc24_round_1"
    /\ IF Fl(know.k2 * know.x1) # know.Y THEN Return("abc24_round_1", Everyone(Refused))
       ELSE \E k1, mu, u, v \in Scalars, off \in {"R", "ciphertext"} :
            LET r == XCoord(Fl(k1 * (know.k2 + mu)))
                bend(what) == IF off = what THEN bent[Abc24Client] ELSE 0
            IN Step("abc24_round_1", "abc24_round_2",
                    [k1 |-> k1, mu |-> mu,
                     R |-> Fl(k1 * know.k2 + bend("R")),
                     sct |-> Fl(Inv(k1) * (digest + r * know.x1)) + u * Q
                             + (Fl(Inv(k1) * r) + v * Q) * know.x2 + bend("ciphertext")])

Abc24Nonce == Fl(know.k1 * (know.k2 + know.mu))

\* server_finalize: R1 is not the identity, and R is k2 R1.
Abc24SameNonce == know.k1 # 0 /\ Fl(know.k1 * know.k2) = know.R

\* server_finalize: decrypt and divide by k2 + mu, which may be zero.
Abc24Finish == Return("abc24_round_2", Everyone(
    IF ~Abc24SameNonce \/ Fl(know.k2 + know.mu) = 0 THEN Refused
    ELSE Checked(XCoord(Abc24Nonce),
                 Fl(Signed(know.sct, WideN) * Inv(Fl(know.k2 + know.mu))))))

Abc24SignNext == Abc24ClientRound2 \/ Abc24Finish

-----------------------------------------------------------------------------
\* Why honest parties may be refused.
Abc24Excuse == \/ bent # Straight \/ Fl(know.k2 + know.mu) = 0
               \/ NoSignature(XCoord(Abc24Nonce))
=============================================================================
