-------------------------------- MODULE Xal23 -------------------------------
(* tecdsa-xal23: key generation (src/keygen), presigning (src/presign) and   *)
(* online signing (src/sign) over MtA with Joye-Libert encryption            *)
(* (tecdsa-joye-libert/src/mta.rs).                                          *)
(*                                                                           *)
(* Presigning adds the key shares up as they are, while key generation       *)
(* shares the key by Feldman's scheme; the trusted dealer shares it          *)
(* additively among those that sign.  `sharing` says where the key shares of *)
(* a session come from.                                                      *)
EXTENDS ProtocolSession

-----------------------------------------------------------------------------
(* Key generation.                                                           *)

\* new_with_jl_keypair, transition_to_r2: a Feldman sharing and a Joye-Libert
\* key with its proof, committed to and opened.
Xal23KeygenBegin ==
    /\ stage = "xal23_keygen_2"
    /\ \E poly \in [Signers -> Dealt], fault \in Faults({"opening", "share"}) :
          /\ know = [poly |-> poly, fault |-> fault]
          /\ key = Secret(poly)

\* check_r2_complete and finalize: there is no round after the shares.
Xal23KeygenFinish ==
    /\ stage = "xal23_keygen_2"
    /\ IF \E d \in Signers : Faulty(d, "opening") THEN RefuseFaulty("xal23_keygen_2", "opening")
       ELSE LET X == [j \in Signers |-> Dealers(know.poly, Position(j))]
            IN Return("xal23_keygen_2", [p \in Signers |->
                   IF \E d \in Others(p) : Faulty(d, "share") /\ p = Victim(d) THEN Refused
                   ELSE KeyShare(X[p], X, Secret(know.poly))])

Xal23KeygenNext == Xal23KeygenFinish

-----------------------------------------------------------------------------
(* Presigning.                                                               *)

\* build_round1: k_i, gamma_i and w_i = x_i; gamma_i and w_i are encrypted.
Xal23SignBegin(f) ==
    /\ stage = "xal23_presign_1"
    /\ \E k \in [Signers -> Scalars], gamma \in [Signers -> Blinds], x1 \in Scalars,
          sharing \in {"additive", "dkg"},
          fault \in Faults({"encrypted", "affine", "opening", "w", "delta", "partial"}) :
          know = [k |-> k, gamma |-> gamma, sharing |-> sharing, fault |-> fault,
                  x |-> IF sharing = "dkg" THEN [i \in Signers |-> Eval(f, i)]
                        ELSE [i \in Signers |-> IF i = P1 THEN Fl(f[0] + Neg(x1)) ELSE
                                                IF i = P2 THEN x1 ELSE 0]]

\* The key that i encrypts under is at its index in the key share, those who
\* verify take the one at its position among the signers.
Xal23KeyIndex(i) == IF know.sharing = "dkg" THEN Cardinality({j \in Parties : j <= i}) ELSE Position(i)
Xal23KeyFound(i) == Xal23KeyIndex(i) = Position(i)

\* transition_r1_to_r2: ZkJlEncProof is verified, and a random number below
\* q^2 2^(2s+t) added to k_i times what was encrypted (here s = t = 1).
Xal23Multiply ==
    /\ stage = "xal23_presign_1"
    /\ IF \E i \in Signers : Faulty(i, "encrypted") THEN RefuseVictim("xal23_presign_1", "encrypted")
       ELSE IF \E i \in Signers : ~Xal23KeyFound(i)
       THEN Return("xal23_presign_1", [i \in Signers |->
                IF \E j \in Others(i) : ~Xal23KeyFound(j) THEN Refused ELSE Waiting])
       ELSE \E mask \in {m \in Masks : m < 8 * Q * Q} :
              Step("xal23_presign_1", "xal23_presign_2",
                   [mask |-> [p \in Pairs |-> mask + p[1]],
                    w |-> [i \in Signers |-> Fl(know.x[i] + Off(i, "w"))]])

\* sender_decrypt: the plaintext was shifted by a multiple of q before it was
\* multiplied by a.
Xal23SenderShare(a, b, mask) == Fl((a * (b + 4 * Q) + mask) % WideN)

\* What i has of k times b: its own product, and for every other signer the
\* negated mask of its answer and what it decrypts.
Xal23Shares(b) == [i \in Signers |-> Fl(know.k[i] * b[i]
    + SumFunctionOnSet([j \in Others(i) |-> MtaReceiverShare(know.mask[<<i, j>>])
                            + Xal23SenderShare(know.k[j], b[i], know.mask[<<j, i>>])], Others(i)))]

\* transition_r2_to_r3: ZkJlAffProof and the opening of Gamma_i are verified.
Xal23Decrypt ==
    /\ stage = "xal23_presign_2"
    /\ IF \E i \in Signers : Faulty(i, "affine") THEN RefuseVictim("xal23_presign_2", "affine")
       ELSE IF \E i \in Signers : Faulty(i, "opening") THEN RefuseFaulty("xal23_presign_2", "opening")
       ELSE LET delta == Xal23Shares(know.gamma)
            IN Step("xal23_presign_2", "xal23_presign_3",
                    [delta |-> [i \in Signers |-> Fl(delta[i] + Off(i, "delta"))],
                     sigma |-> Xal23Shares(know.w)])

\* finalize_r3: R is Gamma over the sum of the deltas, unless that is zero.
Xal23Presign ==
    /\ stage = "xal23_presign_3"
    /\ LET delta == Total(know.delta, Signers)
       IN IF delta = 0 THEN Return("xal23_presign_3", Everyone(Refused))
          ELSE Step("xal23_presign_3", "xal23_sign", [R |-> Fl(Total(know.gamma, Signers) * Inv(delta))])

-----------------------------------------------------------------------------
(* Online signing.                                                           *)

\* Xal23SignMachine::new
Xal23Partial(i) == Fl(digest * know.k[i] + XCoord(know.R) * know.sigma[i] + Off(i, "partial"))

\* handle, try_combine, combine_signatures
Xal23Finish ==
    /\ stage = "xal23_sign"
    /\ Return("xal23_sign", Everyone(Checked(XCoord(know.R), Total([i \in Signers |-> Xal23Partial(i)], Signers))))

Xal23SignNext == Xal23Multiply \/ Xal23Decrypt \/ Xal23Presign \/ Xal23Finish

-----------------------------------------------------------------------------
\* The key shares are not those of a dealer among these signers: somebody's
\* Joye-Libert key is looked up at the wrong place, or the shares do not add up.
Xal23Misfit == (\E i \in Signers : ~Xal23KeyFound(i)) \/ Total(know.x, Signers) # key

\* R is the inverse of the nonce, sigma shares it times the sum of the key
\* shares.  Nothing checks the deltas, or that w_i is the key share.
Xal23Fits == stage = "xal23_sign" /\ know.fault = "none" =>
            /\ Fl(know.R * Total(know.k, Signers)) = 1
            /\ Total(know.sigma, Signers) = Fl(Total(know.x, Signers) * Total(know.k, Signers))
            /\ know.sharing = "additive" => Total(know.x, Signers) = key

\* Where no signature exists, or the nonces add up to zero.
Xal23Hopeless == \/ Total(know.k, Signers) = 0 \/ Total(know.gamma, Signers) = 0
                 \/ IF "R" \in DOMAIN know THEN NoSignature(XCoord(know.R)) ELSE FALSE

\* Why honest signers may be refused.
Xal23Excuse ==
    \/ know.fault # "none"
    \/ Xal23Hopeless
=============================================================================
