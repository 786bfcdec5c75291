-------------------------------- MODULE Ln18 --------------------------------
(* tecdsa-ln18: key generation (src/keygen), the trusted signing setup       *)
(* (src/sign/setup.rs), and signing in 2 offline and 6 online rounds         *)
(* (src/sign/state_rounds.rs) over the F_mult functionality (src/f_mult) and *)
(* MtA (src/mta), or all in one process (src/sign/rounds.rs).                *)
(*                                                                           *)
(* The shares of a product that come out of MtA are not proved right one by  *)
(* one: the signers encrypt them under a shared ElGamal key and check in the *)
(* exponent that what is left of the encrypted product, without the shares,  *)
(* encrypts zero (checkDH).  Nothing is verified after that, so the check is *)
(* all that stands between a wrong share and a wrong signature.  A wrong     *)
(* share of a product is off by `bent`; `fault` says of which product.       *)
EXTENDS ProtocolSession

-----------------------------------------------------------------------------
(* Key generation.                                                           *)

\* Round1State::new: the polynomial is drawn and committed to.
Ln18KeygenBegin ==
    /\ stage = "ln18_keygen_1"
    /\ \E poly \in [Signers -> Dealt], opens \in BOOLEAN :
          /\ know = [poly |-> poly, opens |-> opens \/ bent = Straight]
          /\ key = Secret(poly)

\* Round1State::advance
Ln18Deal == Step("ln18_keygen_1", "ln18_keygen_2",
                 [dealt |-> [p \in Signers |-> [d \in Signers |->
                                Bend(Eval(know.poly[d], p), d, p)]]])

\* Round2State::verify_round2_data: the decommitments, then the Feldman shares.
Ln18Round2Fails(p) == \E d \in Others(p) :
    \/ ~know.opens /\ bent[d] # 0
    \/ ~FeldmanVerify(know.dealt[p][d], p, know.poly[d])

\* Round2State::compute_public_shares
Ln18PublicShares == [j \in Signers |-> Dealers(know.poly, j)]

\* Round2State::advance: without a fault, a proof of knowledge of the share.
Ln18Aggregate ==
    /\ stage = "ln18_keygen_2"
    /\ IF \E p \in Signers : Ln18Round2Fails(p)
       THEN Return("ln18_keygen_2", [p \in Signers |-> IF Ln18Round2Fails(p) THEN Refused ELSE Waiting])
       ELSE Step("ln18_keygen_2", "ln18_keygen_3",
                 [x |-> [p \in Signers |-> Total(know.dealt[p], Signers)]])

\* Round3State::finish: each proof is of the public share of its sender.
Ln18Confirm == Return("ln18_keygen_3", [p \in Signers |->
    IF \A d \in Others(p) : know.x[d] = Ln18PublicShares[d]
    THEN KeyShare(know.x[p], Ln18PublicShares, Secret(know.poly)) ELSE Refused])

Ln18KeygenNext == Ln18Deal \/ Ln18Aggregate \/ Ln18Confirm

-----------------------------------------------------------------------------
(* Signing.                                                                  *)

\* build_signing_setup: the weighted key shares.  OfflineInputRound1::new: k_i
\* and rho_i, which are input to F_mult as proved encryptions.
Ln18SignBegin(f) ==
    /\ stage = "ln18_offline"
    /\ \E k, rho \in [Signers -> Scalars],
          fault \in IF bent = Straight THEN {"none"} ELSE {"tau", "beta"} :
          know = [k |-> k, rho |-> rho, fault |-> fault,
                  x |-> [i \in Signers |-> Fl(Eval(f, i) * Lagrange(Signers, i))]]

\* PaillierMtaState::handle_round1 draws beta' below half of the modulus.
Ln18MaskRange == {b \in Masks : b < PaillierN \div 2}

\* PaillierMtaState::finish: the share of a * b that i ends with.
Ln18Share(a, b, masks, i) ==
    Fl(a[i] * b[i] + SumFunctionOnSet([j \in Others(i) |->
         MtaSenderShare(a[i], b[j], masks[<<j, i>>], PaillierN)
         + MtaReceiverShare(masks[<<i, j>>])], Others(i)))

\* The shares that are put into a multiplication.
Ln18Shares(product, a, b, masks) == [i \in Signers |->
    Fl(Ln18Share(a, b, masks, i) + (IF know.fault = product THEN bent[i] ELSE 0))]

\* A mask below half of the modulus that the product carries across it, where
\* decryption turns negative: the shares do not add up to the product.
Ln18Wraps(a, b, masks) ==
    \E p \in Pairs : Signed(a[p[2]] * b[p[1]] + masks[p], PaillierN) < 0

\* OnlineRound3::new: R is opened (element_out), and k * rho multiplied.
Ln18StartTau ==
    /\ stage = "ln18_offline"
    /\ \E masks \in [Pairs -> Ln18MaskRange] :
       Step("ln18_offline", "ln18_round_3",
            [R |-> Total(know.k, Signers), masks |-> masks,
             tau |-> Ln18Shares("tau", know.k, know.rho, masks)])

\* affine: alpha = r x + m is shared by scaling the shares of x and adding m / n.
Ln18Alpha(i) == Fl(know.x[i] * XCoord(know.R) + digest * Inv(Cardinality(Signers)))

\* OnlineRound3Active::advance refuses r = 0, and multiplies rho by alpha.
Ln18StartBeta ==
    /\ stage = "ln18_round_3"
    /\ IF XCoord(know.R) = 0 THEN Return("ln18_round_3", Everyone(Refused))
       ELSE LET alpha == [i \in Signers |-> Ln18Alpha(i)]
            IN \E masks \in [Pairs -> Ln18MaskRange] :
                  Step("ln18_round_3", "ln18_round_4",
                       [alpha |-> alpha, masks |-> masks,
                        wrapped |-> Ln18Wraps(know.k, know.rho, know.masks),
                        beta |-> Ln18Shares("beta", know.rho, alpha, masks)])

\* MultState::handle_round1, handle_round2: the ElGamal encryption of a * b is
\* computed from the proved inputs, and that of the shares taken off; this is
\* the discrete logarithm of what is left.
Ln18Left(a, b, c) == Fl(Total(a, Signers) * Total(b, Signers) - Total(c, Signers))

\* What hides it: factors that do not add up to zero, as they do once in q.
Ln18Rerandomizers == {z \in [Signers -> Scalars] : Total(z, Signers) # 0}

\* Mutant of Ln18CheckDh: the sum is not compared.
Ln18CheckDh_Skipped(left) == TRUE

\* MultState::handle_round3, handle_round4: each signer rerandomizes what is
\* left and raises the sum to its part of the ElGamal key.
Ln18CheckDh(left) == \A z \in Ln18Rerandomizers : Fl(left * Total(z, Signers)) = 0

\* OnlineRound4 to OnlineRound6: the first multiplication is checked, then
\* opened by OnlineRound7; the second one is a round behind.
Ln18CheckTau ==
    /\ stage = "ln18_round_4"
    /\ IF Ln18CheckDh(Ln18Left(know.k, know.rho, know.tau)) THEN Pass("ln18_round_4", "ln18_round_7")
       ELSE Return("ln18_round_4", Everyone(Refused))

\* OnlineRound7::advance: tau is the sum of the opened shares, and the second
\* multiplication is checked.
Ln18CheckBeta ==
    /\ stage = "ln18_round_7"
    /\ IF Ln18CheckDh(Ln18Left(know.rho, know.alpha, know.beta)) THEN Pass("ln18_round_7", "ln18_round_8")
       ELSE Return("ln18_round_7", Everyone(Refused))

\* beta / tau, in low-s form, with no verify_ecdsa and no test for s = 0.
Ln18Answer(r, tau, beta) ==
    IF Total(tau, Signers) = 0 THEN Refused
    ELSE [r |-> r, s |-> LowS(Fl(Inv(Total(tau, Signers)) * Total(beta, Signers)))]

\* OnlineRound8::finish
Ln18Finish == Return("ln18_round_8", Everyone(Ln18Answer(XCoord(know.R), know.tau, know.beta)))

-----------------------------------------------------------------------------
(* The same protocol in one process (src/sign/rounds.rs), with honest        *)
(* parties; where the machines return an error, the process panics.          *)

\* run_paillier_mta, then run_mult_phase or continue_mult_phase.
Ln18Multiply(a, b, masks) == [i \in Signers |-> Ln18Share(a, b, masks, i)]
Ln18Panics(a, b, c) == ~Ln18CheckDh(Ln18Left(a, b, c))

\* ln18_presign_parallel: R is opened, tau stays shared: a presignature.
Ln18LocalPresign ==
    /\ stage = "ln18_offline" /\ know.fault = "none"
    /\ \E masks \in [Pairs -> Ln18MaskRange] :
          LET tau == Ln18Multiply(know.k, know.rho, masks)
          IN IF XCoord(Total(know.k, Signers)) = 0 \/ Ln18Panics(know.k, know.rho, tau)
             THEN Return("ln18_offline", Everyone(Refused))
             ELSE Step("ln18_offline", "ln18_presigned", [R |-> Total(know.k, Signers), tau |-> tau])

\* ln18_online_sign_parallel
Ln18LocalOnline ==
    /\ stage = "ln18_presigned"
    /\ \E masks \in [Pairs -> Ln18MaskRange] :
          LET alpha == [i \in Signers |-> Ln18Alpha(i)]
              beta == Ln18Multiply(know.rho, alpha, masks)
          IN Return("ln18_presigned", Everyone(
                IF Ln18Panics(know.rho, alpha, beta) THEN Refused ELSE Ln18Answer(XCoord(know.R), know.tau, beta)))

Ln18SignNext == Ln18StartTau \/ Ln18StartBeta \/ Ln18CheckTau \/ Ln18CheckBeta \/ Ln18Finish
                \/ Ln18LocalPresign \/ Ln18LocalOnline

-----------------------------------------------------------------------------
\* What is handed out where no signature exists: s = 0, which no verifier takes.
Ln18Zero(outcome) ==
    protocol = "ln18" /\ NoSignature(XCoord(Total(know.k, Signers))) /\ outcome \in [r : Field, s : {0}]

\* A presignature fits the nonce and the mask.
Ln18Fits == stage = "ln18_presigned" =>
            Total(know.tau, Signers) = Fl(know.R * Total(know.rho, Signers))

\* The shares of a product are opened only if they add up to it.
Ln18Revealed ==
    /\ stage = "ln18_round_7" => Total(know.tau, Signers)
                                 = Fl(Total(know.k, Signers) * Total(know.rho, Signers))
    /\ stage = "ln18_round_8" => Total(know.beta, Signers)
                                 = Fl(Total(know.rho, Signers) * Total(know.alpha, Signers))

\* Why honest signers may be refused.
Ln18Excuse ==
    \/ Total(know.k, Signers) = 0 \/ Total(know.rho, Signers) = 0
    \/ bent # Straight
    \/ "masks" \notin DOMAIN know /\ \E masks \in [Pairs -> Ln18MaskRange] :
          \/ Ln18Wraps(know.k, know.rho, masks)
          \/ "R" \in DOMAIN know /\ Ln18Wraps(know.rho, [i \in Signers |-> Ln18Alpha(i)], masks)
    \/ IF "alpha" \in DOMAIN know
       THEN know.wrapped \/ Ln18Wraps(know.rho, know.alpha, know.masks)
       ELSE "masks" \in DOMAIN know /\ Ln18Wraps(know.k, know.rho, know.masks)
=============================================================================
