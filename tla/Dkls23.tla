------------------------------- MODULE Dkls23 -------------------------------
(* tecdsa-dkls23: key generation (src/keygen), presigning (src/presign) and  *)
(* online signing (src/sign).                                                *)
(*                                                                           *)
(* Key generation has no round in which the parties confirm their shares.    *)
(* In presigning every ordered pair of signers runs a random vector OLE: the *)
(* sender i puts in its nonce and key shares, the receiver j holds a random  *)
(* chi, and they end with c and d such that c + d = chi * input.  A faulty   *)
(* signer puts a nonce share into its OLEs that is off by `bent` from the    *)
(* one it committed to.                                                      *)
EXTENDS ProtocolSession

-----------------------------------------------------------------------------
(* Key generation.                                                           *)

\* Round1State::new: commit to the points p(j) G and p(0) G.  A faulty dealer
\* opens something else, or deals a wrong share.
Dkls23KeygenBegin ==
    /\ stage = "dkls23_keygen_1"
    /\ \E poly \in [Signers -> Dealt], opened \in {{}, {d \in Signers : bent[d] # 0}} :
          /\ know = [poly |-> poly, opened |-> Signers \ opened]
          /\ key = Secret(poly)

\* Round1State::advance: open the points and send the shares.
Dkls23Deal == Step("dkls23_keygen_1", "dkls23_keygen_2",
                   [dealt |-> [p \in Signers |-> [d \in Signers |->
                                  Bend(Eval(know.poly[d], p), d, p)]]])

\* What is checked of each dealer: the opening, and s_ij G = X_ij.
Dkls23DealtFails(p) == \/ Others(p) \ know.opened # {}
                       \/ \E d \in Others(p) : know.dealt[p][d] # Eval(know.poly[d], p)

\* verification_shares of p: its own points plus those of the others.
Dkls23VerificationShares(p) == [j \in Signers |-> Dealers(know.poly, j)]

\* Round3State::finish, in the same call as round 2: a party that finds a fault
\* returns it, and the others keep their shares.
Dkls23KeygenFinish == Return("dkls23_keygen_2", [p \in Signers |->
    IF Dkls23DealtFails(p) THEN Refused
    ELSE KeyShare(Total(know.dealt[p], Signers), Dkls23VerificationShares(p), Secret(know.poly))])

Dkls23KeygenNext == Dkls23Deal \/ Dkls23KeygenFinish

\* Dkls23KeyShare::validate of the share that the party with index p of n holds:
\* party_index is the PartyId, which counts from one.
Dkls23Validates(p, n) == T > 0 /\ T <= n /\ p < n /\ answer[p].pk # 0

-----------------------------------------------------------------------------
(* Presigning and signing.                                                   *)

\* Round1State::new
Dkls23SignBegin(f) ==
    /\ stage = "dkls23_round_1"
    /\ \E r, phi \in [Signers -> Scalars] :
          know = [r |-> r, phi |-> phi,
                  sk |-> [i \in Signers |-> Fl(Eval(f, i) * Lagrange(Signers, i))]]

\* Round1State::advance: j draws its chi for the OLE that i sends in, and
\* MulSender::run (Round2State::advance) leaves i with random c.
Dkls23Multiply ==
    /\ stage = "dkls23_round_1"
    /\ \E chi, cu, cv \in [Pairs -> Scalars] :
       Step("dkls23_round_1", "dkls23_round_2", [chi |-> chi, cu |-> cu, cv |-> cv])

\* Round2State::advance: what i sends j, phi_i minus the chi i holds for j.
Dkls23Psi(i, j) == Fl(know.phi[i] + Neg(know.chi[<<i, j>>]))

\* Round2State::advance: the OLE outputs of the receivers, and psi.
Dkls23Correlate == Step("dkls23_round_2", "dkls23_round_3",
    [psi |-> [p \in Pairs |-> Dkls23Psi(p[1], p[2])],
     du |-> [p \in Pairs |-> Fl(know.chi[p] * (know.r[p[2]] + bent[p[2]])
                                + Neg(know.cu[<<p[2], p[1]>>]))],
     dv |-> [p \in Pairs |-> Fl(know.chi[p] * know.sk[p[2]]
                                + Neg(know.cv[<<p[2], p[1]>>]))]])

\* What i checks of j's OLE: chi R_j - Gamma^u = d^u G, and the same for pk_j.
Dkls23Consistent(i, j) ==
    /\ Fl(know.r[j] * know.chi[<<i, j>>] + Neg(know.cu[<<j, i>>])) = know.du[<<i, j>>]
    /\ Fl(know.sk[j] * know.chi[<<i, j>>] + Neg(know.cv[<<j, i>>])) = know.dv[<<i, j>>]

Dkls23Accepts(i) == \A j \in Others(i) : Dkls23Consistent(i, j)

\* Round3State::finish: a signer that finds a pair of its own inconsistent
\* returns, and the others wait for a round 4 message that it never sends.
Dkls23Check ==
    /\ stage = "dkls23_round_3"
    /\ IF \A i \in Signers : Dkls23Accepts(i)
       THEN Step("dkls23_round_3", "dkls23_round_4", [R |-> Total(know.r, Signers)])
       ELSE Return("dkls23_round_3", [i \in Signers |-> IF Dkls23Accepts(i) THEN Waiting ELSE Refused])

\* Round4State::new: u_i and w_i from the presignature and the digest.
Dkls23Mask(i) == know.phi[i] + SumFunctionOnSet([j \in Others(i) |-> know.psi[<<j, i>>]], Others(i))
Dkls23U(i) == Fl(know.r[i] * Dkls23Mask(i)
                 + SumFunctionOnSet([j \in Others(i) |-> know.cu[<<i, j>>] + know.du[<<i, j>>]], Others(i)))

Dkls23V(i) == Fl(know.sk[i] * Dkls23Mask(i)
                 + SumFunctionOnSet([j \in Others(i) |-> know.cv[<<i, j>>] + know.dv[<<i, j>>]], Others(i)))

Dkls23W(i) == Fl(digest * know.phi[i] + XCoord(know.R) * Dkls23V(i))

Dkls23USum == Total([i \in Signers |-> Dkls23U(i)], Signers)
Dkls23WSum == Total([i \in Signers |-> Dkls23W(i)], Signers)

\* Round4State::finish: s = sum w_i / sum u_i.
Dkls23Finish ==
    /\ stage = "dkls23_round_4"
    /\ Return("dkls23_round_4", Everyone(
            IF Dkls23USum = 0 THEN Refused ELSE Checked(XCoord(know.R), Fl(Dkls23WSum * Inv(Dkls23USum)))))

Dkls23SignNext == Dkls23Multiply \/ Dkls23Correlate \/ Dkls23Check \/ Dkls23Finish

-----------------------------------------------------------------------------
\* The presignature fits: sum u_i = phi * k and sum v_i = phi * key for the
\* nonce k of R, with phi the sum of the mask shares (Dkls23Presignature).
Dkls23Fits == stage = "dkls23_round_4" =>
            /\ Dkls23USum = Fl(Total(know.phi, Signers) * know.R)
            /\ Total([i \in Signers |-> Dkls23V(i)], Signers) = Fl(Total(know.phi, Signers) * key)

\* Why honest signers may be refused.
Dkls23Excuse == \/ Total(know.r, Signers) = 0 \/ Total(know.phi, Signers) = 0
                \/ bent # Straight \/ NoSignature(XCoord(know.R))
=============================================================================
