------------------------------- MODULE Cggmp20 ------------------------------
(* tecdsa-cggmp20: key generation (src/keygen), auxiliary information        *)
(* (src/aux_info), presigning (src/presign) and signing (src/full_sign,      *)
(* src/sign).  As Gg18 in outline; the presignature is normalised by delta,  *)
(* comes with commitments to its shares, and a wrong partial signature is    *)
(* found before the shares are added up.                                     *)
(*                                                                           *)
(* A faulty party fails where `fault` says; `bent` says by how much.         *)
EXTENDS ProtocolSession

-----------------------------------------------------------------------------
(* Key generation and auxiliary information.                                 *)

\* Round1State::new: a sharing is drawn and committed to.
Cggmp20KeygenBegin ==
    /\ stage = "cggmp20_keygen_1"
    /\ \E poly \in [Signers -> Dealt],
          fault \in IF bent = Straight THEN {"none"} ELSE {"opening", "share", "ring", "modulus"} :
          /\ know = [poly |-> poly, fault |-> fault]
          /\ key = Secret(poly)

Cggmp20At(f, d) == know.fault = f /\ bent[d] # 0

\* Round1State::advance: decommit, and send the shares.
Cggmp20Deal == Step("cggmp20_keygen_1", "cggmp20_keygen_2",
                    [dealt |-> [p \in Signers |-> [d \in Signers |->
                       IF know.fault = "share" THEN Bend(Eval(know.poly[d], p), d, p)
                       ELSE Eval(know.poly[d], p)]]])

\* Round2State::verify_round2_data: the opening, then the Feldman share.
Cggmp20Round2Fails(p) == \E d \in Others(p) :
    Cggmp20At("opening", d) \/ ~FeldmanVerify(know.dealt[p][d], p, know.poly[d])

\* Round2State::compute_public_shares
Cggmp20PublicShares == [j \in Signers |-> Dealers(know.poly, j)]

\* Round2State::advance: whoever finds a fault sends no proof for round 3.
Cggmp20Aggregate ==
    /\ stage = "cggmp20_keygen_2"
    /\ IF \E p \in Signers : Cggmp20Round2Fails(p)
       THEN Return("cggmp20_keygen_2", [p \in Signers |-> IF Cggmp20Round2Fails(p) THEN Refused ELSE Waiting])
       ELSE Step("cggmp20_keygen_2", "cggmp20_keygen_3",
                 [x |-> [p \in Signers |-> Total(know.dealt[p], Signers)]])

\* Round3State::finish: every Schnorr proof is of the sender's public share.
Cggmp20Confirm ==
    /\ stage = "cggmp20_keygen_3"
    /\ IF \A d \in Signers : know.x[d] = Cggmp20PublicShares[d]
       THEN Pass("cggmp20_keygen_3", "cggmp20_aux_1")
       ELSE Return("cggmp20_keygen_3", Everyone(Refused))

\* aux_info Round1State::advance, Round2State::advance: everyone opens its
\* Paillier and ring-Pedersen parameters; whoever finds a bad proof of the ring
\* parameters does not send its own proofs.
Cggmp20Ring ==
    /\ stage = "cggmp20_aux_1"
    /\ LET fails == {p \in Signers : \E d \in Others(p) : Cggmp20At("ring", d)}
       IN IF fails = {} THEN Pass("cggmp20_aux_1", "cggmp20_aux_3")
          ELSE Return("cggmp20_aux_1", [p \in Signers |-> IF p \in fails THEN Refused ELSE Waiting])

\* Mutant of Cggmp20Index: the PartyId is stored, which counts from one.
Cggmp20Index_OneBased(p) == p

\* party_index is the position of the own key among paillier_eks.
Cggmp20Index(p) == p - 1

\* paillier_eks: the keys in the order of the parties, counted from zero.
Cggmp20Eks == [n \in {p - 1 : p \in Signers} |-> n + 1]

\* aux_info Round3State::finish: the moduli and their factors are proved.
Cggmp20AuxFinish == Return("cggmp20_aux_3", [p \in Signers |->
    IF \E d \in Others(p) : Cggmp20At("modulus", d) THEN Refused
    ELSE With([index |-> Cggmp20Index(p), eks |-> Cggmp20Eks],
              KeyShare(know.x[p], Cggmp20PublicShares, Secret(know.poly)))])

Cggmp20KeygenNext == Cggmp20Deal \/ Cggmp20Aggregate \/ Cggmp20Confirm \/ Cggmp20Ring \/ Cggmp20AuxFinish

\* A party encrypts with its own key: the one at its own index.
Cggmp20KeyEncrypted == \A p \in Holders :
    answer[p].index \in DOMAIN answer[p].eks /\ answer[p].eks[answer[p].index] = p

-----------------------------------------------------------------------------
(* Presigning and signing.                                                   *)

\* Round1State::new: nonce and mask shares, and the share times its Lagrange
\* coefficient.
Cggmp20SignBegin(f) ==
    /\ stage = "cggmp20_presign_1"
    /\ \E k, gamma \in [Signers -> Scalars],
          fault \in IF bent = Straight THEN {"none"} ELSE {"delta", "sigma"} :
          know = [k |-> k, gamma |-> gamma, fault |-> fault,
                  x |-> [i \in Signers |-> Fl(Eval(f, i) * Lagrange(Signers, i))]]

\* Round1State::advance: each pair masks its two products.
Cggmp20Multiply ==
    /\ stage = "cggmp20_presign_1"
    /\ \E beta, hat \in [Pairs -> Scalars] :
       Step("cggmp20_presign_1", "cggmp20_presign_2", [beta |-> beta, hat |-> hat])

\* What i decrypts from j: its nonce share times b_j, minus j's mask.
Cggmp20Alpha(i, b, mask) == Signed(know.k[i] * b - mask, PaillierN)

\* Round2State::advance: the own product, the decrypted ones and the own masks.
Cggmp20ShareOf(i, b, masks) ==
    Fl(b[i] * know.k[i]
       + SumFunctionOnSet([j \in Others(i) |->
            Cggmp20Alpha(i, b[j], masks[<<j, i>>]) + masks[<<i, j>>]], Others(i)))

Cggmp20Offset(f) == IF know.fault = f THEN bent ELSE Straight

Cggmp20Open == Step("cggmp20_presign_2", "cggmp20_presign_3",
    LET chi == [i \in Signers |-> Cggmp20ShareOf(i, know.x, know.hat)]
        Gamma == Total(know.gamma, Signers)
    IN [delta |-> [i \in Signers |-> Fl(Cggmp20ShareOf(i, know.gamma, know.beta) + Cggmp20Offset("delta")[i])],
        chi |-> chi,
        Gamma |-> Gamma,
        Delta |-> [i \in Signers |-> Fl(Gamma * know.k[i])],
        S |-> [i \in Signers |-> Fl(Gamma * chi[i])]])

\* Round3State::finish: delta G is the sum of the Delta_i, and delta pk that of
\* the S_i.
Cggmp20Consistent == LET delta == Total(know.delta, Signers)
                     IN delta = Total(know.Delta, Signers) /\ Fl(delta * key) = Total(know.S, Signers)

Cggmp20Presign ==
    /\ stage = "cggmp20_presign_3"
    /\ IF ~Cggmp20Consistent \/ Total(know.delta, Signers) = 0
       THEN Return("cggmp20_presign_3", Everyone(Refused))
       ELSE LET inv == Inv(Total(know.delta, Signers))
                Scaled(f) == [i \in Signers |-> Fl(f[i] * inv)]
            IN Step("cggmp20_presign_3", "cggmp20_sign",
                    [kTilde |-> Scaled(know.k), chiTilde |-> Scaled(know.chi),
                     tildeDelta |-> Scaled(know.Delta), tildeS |-> Scaled(know.S)])

\* Presignature::partial_sign
Cggmp20PartialSign(i) == Fl(know.kTilde[i] * digest + XCoord(know.Gamma) * know.chiTilde[i]
                            + Cggmp20Offset("sigma")[i])

\* The partial signature of i against its commitment, in the exponent.
Cggmp20Committed(i) == Fl(know.Gamma * Cggmp20PartialSign(i))
                       = Fl(know.tildeDelta[i] * digest + know.tildeS[i] * XCoord(know.Gamma))

\* PartialSignature::combine: every share against its commitment before any of
\* them is added up.
Cggmp20Combine == Return("cggmp20_sign",
    IF \E i \in Signers : ~Cggmp20Committed(i) THEN Everyone(Refused)
    ELSE Everyone(Checked(XCoord(know.Gamma), Total([i \in Signers |-> Cggmp20PartialSign(i)], Signers))))

Cggmp20SignNext == Cggmp20Multiply \/ Cggmp20Open \/ Cggmp20Presign \/ Cggmp20Combine

-----------------------------------------------------------------------------
Cggmp20Nonce == Total(know.k, Signers)

\* The presignature fits: the shares add up to the inverse of the nonce of R,
\* and to that times the key.
Cggmp20Fits == stage = "cggmp20_sign" =>
            /\ Fl(Total(know.kTilde, Signers) * know.Gamma) = 1
            /\ Total(know.chiTilde, Signers) = Fl(Total(know.kTilde, Signers) * key)

\* A wrong partial signature is pinned on the party that sent it.
Cggmp20Revealed == stage = "cggmp20_sign" =>
                \A i \in Signers : Cggmp20Committed(i) <=> Cggmp20Offset("sigma")[i] = 0

\* Why honest signers may be refused.
Cggmp20Excuse == \/ Cggmp20Nonce = 0 \/ Total(know.gamma, Signers) = 0
                 \/ bent # Straight \/ NoSignature(XCoord(Total(know.gamma, Signers)))
=============================================================================
