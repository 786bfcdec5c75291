-------------------------------- MODULE Gg18 --------------------------------
(* tecdsa-gg18: key generation (src/keygen), presigning (src/presign) and    *)
(* online signing (src/sign).                                                *)
(*                                                                           *)
(* Key generation: every party deals a Feldman sharing of a random scalar    *)
(* and proves knowledge of the share it ends with.  Signing: the signers     *)
(* multiply their nonce shares by each other's mask and key shares under     *)
(* Paillier encryption (MtA), open delta = k * gamma, and check in the       *)
(* exponent that their shares of s add up to a signature before they open    *)
(* them.  In signing it is a share of s that may be off, by `bent`.          *)
EXTENDS ProtocolSession

-----------------------------------------------------------------------------
(* Key generation.                                                           *)

\* Round1State::new: the polynomial is drawn and committed to.  A faulty dealer
\* opens something else, or deals a wrong share.
Gg18KeygenBegin ==
    /\ stage = "gg18_keygen_1"
    /\ \E poly \in [Signers -> Dealt], opened \in {{}, {d \in Signers : bent[d] # 0}} :
          /\ know = [poly |-> poly, opened |-> Signers \ opened]
          /\ key = Secret(poly)

\* Round1State::advance: every commitment is in; decommit and send the shares.
Gg18Deal == Step("gg18_keygen_1", "gg18_keygen_2",
                 [dealt |-> [p \in Signers |-> [d \in Signers |->
                                Bend(Eval(know.poly[d], p), d, p)]]])

\* Mutant of Gg18Round2Fails: the shares are not verified.
Gg18Round2Fails_NoVss(p) == know.opened # Signers

\* Round2State::verify_round2_data: a commitment that does not open, or a share
\* that is not on the dealer's polynomial.
Gg18Round2Fails(p) ==
    \/ Others(p) \ know.opened # {}
    \/ \E d \in Others(p) : ~FeldmanVerify(know.dealt[p][d], p, know.poly[d])

\* Mutant of Gg18PublicShares: the indices are one too high.
Gg18PublicShares_OneHigh == [j \in Signers |-> Dealers(know.poly, j + 1)]

\* Round2State::compute_public_shares: the commitments add up at each index.
Gg18PublicShares == [j \in Signers |-> Dealers(know.poly, j)]

Gg18PublicKey == Total([d \in Signers |-> know.poly[d][0]], Signers)
Gg18SecretShare(p) == Total(know.dealt[p], Signers)

\* Round2State::advance: a party that finds a fault returns before its proof of
\* knowledge is queued, and the others wait for that proof.
Gg18Aggregate ==
    /\ stage = "gg18_keygen_2"
    /\ IF \E p \in Signers : Gg18Round2Fails(p)
       THEN Return("gg18_keygen_2", [p \in Signers |-> IF Gg18Round2Fails(p) THEN Refused ELSE Waiting])
       ELSE Step("gg18_keygen_2", "gg18_keygen_3",
                 [x |-> [p \in Signers |-> Gg18SecretShare(p)]])

\* Round3State::finish: each Schnorr proof is of the sender's public share.
Gg18Confirm ==
    Return("gg18_keygen_3", [p \in Signers |->
        IF \A d \in Others(p) : know.x[d] = Gg18PublicShares[d]
        THEN KeyShare(know.x[p], Gg18PublicShares, Gg18PublicKey) ELSE Refused])

Gg18KeygenNext == Gg18Deal \/ Gg18Aggregate \/ Gg18Confirm

-----------------------------------------------------------------------------
(* Presigning and signing.                                                   *)

\* Round1State::new: k, gamma, and w, the share times its Lagrange coefficient.
Gg18SignBegin(f) ==
    /\ stage = "gg18_round_1"
    /\ \E k, gamma \in [Signers -> Scalars] :
          know = [k |-> k, gamma |-> gamma,
                  w |-> [i \in Signers |-> Fl(Eval(f, i) * Lagrange(Signers, i))]]

\* beta' and nu' are drawn below half of the modulus, half_n.
Gg18MaskRange == {b \in Masks : b < PaillierN \div 2}

\* Round1State::handle_p2p: each signer masks its replies to the others.
Gg18Reply ==
    /\ stage = "gg18_round_1"
    /\ \E beta, nu \in [Pairs -> Gg18MaskRange] :
          Step("gg18_round_1", "gg18_round_2", [beta |-> beta, nu |-> nu])

\* What i decrypts from j's reply: k_i * b_j plus the mask j drew.
Gg18Decrypted(i, b, mask) == Signed(know.k[i] * b + mask, PaillierN)

\* compute_delta_i, compute_sigma_i: the own product, what was decrypted from
\* the others, and minus the masks of the own replies.
Gg18ShareOf(i, b, masks) ==
    Fl(know.k[i] * b[i]
       + SumFunctionOnSet([j \in Others(i) |->
            Gg18Decrypted(i, b[j], masks[<<j, i>>]) + Neg(Fl(masks[<<i, j>>]))], Others(i)))

\* Round2State::advance
Gg18Open == Step("gg18_round_2", "gg18_round_3",
                 [delta |-> [i \in Signers |-> Gg18ShareOf(i, know.gamma, know.beta)],
                  sigma |-> [i \in Signers |-> Gg18ShareOf(i, know.w, know.nu)]])

Gg18Delta == Total(know.delta, Signers)

\* Round3State::finish: reconstruct_delta_inv refuses a sum of zero, compute_R
\* multiplies the sum of the gamma points by the inverse.
Gg18Presign ==
    /\ stage = "gg18_round_3"
    /\ IF Gg18Delta = 0 THEN Return("gg18_round_3", Everyone(Refused))
       ELSE Step("gg18_round_3", "gg18_round_4",
                 [R |-> Fl(Inv(Gg18Delta) * Total(know.gamma, Signers))])

\* compute_s_i_static
Gg18SShare(i) == Fl(digest * know.k[i] + XCoord(know.R) * know.sigma[i])

\* Round4State::new: V_i = s_i R + l_i G and A_i = rho_i G are committed to;
\* Round4State::advance opens them.
Gg18Commit ==
    /\ stage = "gg18_round_4"
    /\ \E l \in [Signers -> Blinds], rho \in [Signers -> Scalars] :
       Step("gg18_round_4", "gg18_round_5",
            [l |-> l, rho |-> rho,
             s |-> [i \in Signers |-> Fl(Gg18SShare(i) + bent[i])]])

\* Mutant of Gg18VCheck: the digest is not subtracted.
Gg18VCheck_NoDigest == Fl(SumFunctionOnSet([i \in Signers |-> know.s[i] * know.R + know.l[i]], Signers)
                          + Neg(Fl(key * XCoord(know.R))))

\* The sum of the V_i without m G and r pk.
Gg18VCheck == Fl(SumFunctionOnSet([i \in Signers |-> know.s[i] * know.R + know.l[i]], Signers)
                 + Neg(digest) + Neg(Fl(key * XCoord(know.R))))
Gg18A == Total(know.rho, Signers)

\* Round5State::advance: U_i = rho_i VCheck and T_i = l_i A, committed to and
\* opened by Round6State::advance.
Gg18Blind == Step("gg18_round_5", "gg18_round_7",
                  [U |-> [i \in Signers |-> Fl(Gg18VCheck * know.rho[i])],
                   T |-> [i \in Signers |-> Fl(know.l[i] * Gg18A)]])

\* Mutant of Gg18ZeroHolds: the check is left out.
Gg18ZeroHolds_Skipped == TRUE

\* The sums of the opened U_i and T_i are the same point.
Gg18ZeroHolds == Total(know.U, Signers) = Total(know.T, Signers)

\* Mutant of Gg18ZeroCheck: signers that find the sums different fall silent.
Gg18ZeroCheck_Silent ==
    /\ stage = "gg18_round_7"
    /\ IF Gg18ZeroHolds THEN Pass("gg18_round_7", "gg18_round_8")
       ELSE Return("gg18_round_7", Everyone(Waiting))

\* Round7State::advance: no share of s is sent unless the sums agree.
Gg18ZeroCheck ==
    /\ stage = "gg18_round_7"
    /\ IF Gg18ZeroHolds THEN Pass("gg18_round_7", "gg18_round_8")
       ELSE Return("gg18_round_7", Everyone(Refused))

\* Round8State::finish
Gg18Finish == Return("gg18_round_8",
                     Everyone(Checked(XCoord(know.R), Total(know.s, Signers))))

Gg18SignNext == Gg18Reply \/ Gg18Open \/ Gg18Presign \/ Gg18Commit \/ Gg18Blind \/ Gg18ZeroCheck \/ Gg18Finish

-----------------------------------------------------------------------------
Gg18Nonce == Total(know.k, Signers)

\* A mask is drawn below half of the modulus, where decryption turns negative:
\* if the product carries it across, the share is off by the modulus.
Gg18Wraps == \E p \in Pairs :
    \/ know.beta[p] < PaillierN \div 2 /\ Gg18Decrypted(p[2], know.gamma[p[1]], know.beta[p]) < 0
    \/ know.nu[p] < PaillierN \div 2 /\ Gg18Decrypted(p[2], know.w[p[1]], know.nu[p]) < 0

\* The presignature fits the nonce and the key (Gg18Presignature).
Gg18Fits == stage = "gg18_round_4" /\ ~Gg18Wraps =>
            /\ Fl(know.R * Gg18Nonce) = 1
            /\ Total(know.sigma, Signers) = Fl(Gg18Nonce * key)

\* No share of s is sent unless the shares are those of a signature, except
\* when the blinding factors rho_i happen to cancel.
Gg18Revealed == stage = "gg18_round_8" /\ Gg18A # 0 =>
                Fl(Total(know.s, Signers) * know.R) = Fl(digest + XCoord(know.R) * key)

\* Why honest signers may be refused.
Gg18Excuse == \/ Gg18Nonce = 0 \/ Total(know.gamma, Signers) = 0 \/ Gg18Wraps
              \/ bent # Straight \/ NoSignature(XCoord(know.R))
=============================================================================
