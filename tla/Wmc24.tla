-------------------------------- MODULE Wmc24 -------------------------------
(* tecdsa-wmc24: key generation (src/keygen), presigning (src/presign) and   *)
(* online signing (src/sign) over threshold CL and threshold ElGamal         *)
(* encryption.  ThresholdCl models the CL layer; here a ciphertext is its    *)
(* plaintext, which only a joint decryption of all signers shows.            *)
(*                                                                           *)
(* Key generation runs three sharings at once: of the signing key (publicly  *)
(* verified), of the CL key, and of an ElGamal key.  Nothing proves the      *)
(* public share that a party announces in the last round.                    *)
(*                                                                           *)
(* A faulty party fails where `fault` says, by `bent`.                       *)
EXTENDS ProtocolSession

-----------------------------------------------------------------------------
(* Key generation.                                                           *)

\* new_with_keypair and transition_r1_to_r2: each party's CL key is proved, and
\* it deals shares of its parts of the signing key and of the ElGamal key.
Wmc24KeygenBegin ==
    /\ stage = "wmc24_keygen_2"
    /\ \E poly \in [Signers -> Dealt], elgamal \in Dealt,
          fault \in Faults({"sharing", "announced"}) :
          /\ know = [poly |-> poly, elgamal |-> [d \in Signers |-> elgamal], fault |-> fault]
          /\ key = Secret(poly)

\* Round 2 of handle, and transition_r2_to_r3: the sharings are verified by
\* everyone, the decrypted shares are added up and announced.
Wmc24Reveal ==
    /\ stage = "wmc24_keygen_2"
    /\ IF SharingRefused THEN RefuseFaulty("wmc24_keygen_2", "sharing")
       ELSE LET x == [p \in Signers |-> SharesDealt(know.poly, p)]
            IN Step("wmc24_keygen_2", "wmc24_keygen_3",
                    [x |-> x, eldk |-> [p \in Signers |-> Dealers(know.elgamal, p)],
                     X |-> [p \in Signers |-> Fl(x[p] + Off(p, "announced"))]])

\* Mutant of Wmc24Joined: the announced shares are added up as they are.
Wmc24Joined_Sum(shares) == Total(shares, Signers)

\* The key of announced shares: interpolated over all parties (finalize_keygen,
\* dkg_dl_aggregate).
Wmc24Joined(shares) == Reconstruct(shares, Signers)

\* finalize_keygen
Wmc24KeygenFinish ==
    Return("wmc24_keygen_3", [p \in Signers |->
        With([eldk |-> know.eldk[p], elek |-> Wmc24Joined(know.eldk)],
             KeyShare(know.x[p], know.X, Wmc24Joined(know.X)))])

Wmc24KeygenNext == Wmc24Reveal \/ Wmc24KeygenFinish

\* Any T of the parties can decrypt what is encrypted under the ElGamal key.
Wmc24KeyEncrypted ==
    \A S \in SUBSET Holders : Cardinality(S) = T =>
        Reconstruct([p \in S |-> answer[p].eldk], S) = answer[CHOOSE p \in S : TRUE].elek

-----------------------------------------------------------------------------
(* Presigning and signing.                                                   *)

\* Wmc24PresignMachine::new: k_i is encrypted.
Wmc24SignBegin(f) ==
    /\ stage = "wmc24_presign_1"
    /\ \E k \in [Signers -> Scalars],
          fault \in Faults({"xk", "gk", "share", "s"}) :
          know = [k |-> k, fault |-> fault, share |-> [i \in Signers |-> Eval(f, i)]]

\* transition_r1_to_r2: the encrypted nonce is scaled by the weighted key share
\* and by gamma_i, which ElGamal also encrypts, in the exponent.
Wmc24Scale ==
    /\ stage = "wmc24_presign_1"
    /\ \E gamma \in [Signers -> Scalars] :
       LET k == Total(know.k, Signers)
       IN Step("wmc24_presign_1", "wmc24_presign_2",
               [kBar |-> k, gamma |-> gamma,
                xk |-> [i \in Signers |-> Fl(Fl(Lagrange(Signers, i) * know.share[i]) * k + Off(i, "xk"))],
                gk |-> [i \in Signers |-> Fl(gamma[i] * k + Off(i, "gk"))]])

\* pi_dl_cl: the exponent is that of the public share times its coefficient.
Wmc24DlClHolds(i) == know.xk[i] = Fl(Fl(Lagrange(Signers, i) * know.share[i]) * know.kBar)

\* pi_el_cl: the exponent is what D_gamma_i encrypts.
Wmc24ElClHolds(i) == know.gk[i] = Fl(know.gamma[i] * know.kBar)

\* Round 2 of handle, then transition_r2_to_r3: the ciphertexts are added up.
Wmc24Join ==
    /\ stage = "wmc24_presign_2"
    /\ IF \E i \in Signers : ~(Wmc24DlClHolds(i) /\ Wmc24ElClHolds(i))
       THEN RefuseFaulty("wmc24_presign_2", know.fault)
       ELSE Step("wmc24_presign_2", "wmc24_presign_3",
                 [xkBar |-> Total(know.xk, Signers), gkBar |-> Total(know.gk, Signers),
                  Gamma |-> Total(know.gamma, Signers)])

\* finalize: with everyone's proved partial decryptions, gamma k and Gamma are
\* opened, and R is Gamma divided by the first.
Wmc24Presign ==
    /\ stage = "wmc24_presign_3"
    /\ IF \E i \in Signers : Faulty(i, "share") THEN RefuseFaulty("wmc24_presign_3", "share")
       ELSE IF know.gkBar = 0 THEN Return("wmc24_presign_3", Everyone(Refused))
       ELSE Step("wmc24_presign_3", "wmc24_sign", [R |-> Fl(know.Gamma * Inv(know.gkBar))])

\* new_with_setup: c_sig encrypts m k + r k x.
Wmc24CSig == Fl(digest * know.kBar + XCoord(know.R) * know.xkBar)

\* handle and try_finalize: the proved decryptions of c_sig are joined and
\* verified; the second attempt, with -s, is at the same signature.
Wmc24Finish ==
    /\ stage = "wmc24_sign"
    /\ IF \E i \in Signers : Faulty(i, "s") THEN RefuseFaulty("wmc24_sign", "s")
       ELSE Return("wmc24_sign", Everyone(
               IF Checked(XCoord(know.R), Wmc24CSig) # Refused THEN Checked(XCoord(know.R), Wmc24CSig)
               ELSE Checked(XCoord(know.R), Neg(Wmc24CSig))))

Wmc24SignNext == Wmc24Scale \/ Wmc24Join \/ Wmc24Presign \/ Wmc24Finish

-----------------------------------------------------------------------------
\* The ciphertexts of a presignature are those of 1 / R and of that times the
\* key.
Wmc24Fits == stage = "wmc24_sign" =>
            Fl(know.kBar * know.R) = 1 /\ know.xkBar = Fl(know.kBar * key)

\* Why honest signers may be refused.
Wmc24Excuse ==
    \/ Total(know.k, Signers) = 0 \/ bent # Straight
    \/ IF "gamma" \in DOMAIN know THEN Total(know.gamma, Signers) = 0 ELSE FALSE
    \/ NoSignature(XCoord(Inv(Total(know.k, Signers))))
=============================================================================
