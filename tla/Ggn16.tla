------------------------------- MODULE Ggn16 --------------------------------
(* tecdsa-ggn16: key generation (src/keygen), presigning (src/presign) and   *)
(* online signing (src/sign) over a Paillier key whose decryption key is     *)
(* shared.  The ECDSA key is the sum of every party's x_i, which only exists *)
(* as the ciphertext alpha; the signers never hold a share of it.            *)
(*                                                                           *)
(* A ciphertext is its plaintext, an integer modulo WideN: the homomorphic   *)
(* operations never reduce modulo q.  A faulty party encrypts another x_i    *)
(* than it published, or decrypts w wrongly, by `bent`.  Plaintexts reach     *)
(* psi * (m u + r v), which WideN is larger than.                             *)
EXTENDS ProtocolSession

-----------------------------------------------------------------------------
(* Key generation.                                                           *)

\* Round1State::new: x_i is drawn, encrypted and committed to.
Ggn16KeygenBegin ==
    /\ stage = "ggn16_keygen_1"
    /\ \E x \in [Signers -> Scalars] :
          /\ know = [x |-> x, alpha |-> [p \in Signers |-> x[p] + bent[p]]]
          /\ key = Total(x, Signers)

\* What the PDL proof of j shows p: alpha_j encrypts the logarithm of y_j.
Ggn16Proven(p, j) == Fl(know.alpha[j]) = know.x[j]

\* Round1State::advance: open y_i, send alpha_i and its proof.
Ggn16Publish == Pass("ggn16_keygen_1", "ggn16_keygen_2")

\* alpha, the homomorphic sum of every alpha_j.
Ggn16Alpha == SumFunctionOnSet(know.alpha, Signers) % WideN

\* Round2State::finish: a party that finds a bad proof returns it, and nothing
\* else is sent that the others would miss.
Ggn16KeygenFinish == Return("ggn16_keygen_2", [p \in Signers |->
    IF \A j \in Others(p) : Ggn16Proven(p, j)
    THEN With([alpha |-> Ggn16Alpha], KeyShare(know.x[p], know.x, Total(know.x, Signers)))
    ELSE Refused])

Ggn16KeygenNext == Ggn16Publish \/ Ggn16KeygenFinish

\* Whoever kept a share, while nobody cheated on it, encrypts under alpha what
\* the public key is the point of.
Ggn16KeyEncrypted == \A p \in Holders : bent[p] = 0 => Fl(answer[p].alpha) = answer[p].pk

-----------------------------------------------------------------------------
(* Presigning and signing.                                                   *)

\* Round1State::new: rho_i may be zero, as sample_below is not random_scalar.
\* x is the plaintext of alpha, which is not reduced.
Ggn16SignBegin(f) ==
    /\ stage = "ggn16_presign_1"
    /\ \E rho \in [Signers -> Scalars \cup {0}], x \in {f[0], f[0] + Q} :
          know = [rho |-> rho, x |-> x]

\* Round1State::advance, Round2State::advance: u and v are the sums of the
\* encryptions of rho_i and of rho_i * alpha, which are proved.
\* The signer then draws its nonce share and masks it with a multiple of q.
Ggn16Nonce ==
    /\ stage = "ggn16_presign_1"
    /\ \E k \in [Signers -> Scalars], c \in [Signers -> {b \in Masks : b < Q * Q}] :
       LET u == SumFunctionOnSet(know.rho, Signers)
           v == SumFunctionOnSet([i \in Signers |-> know.rho[i] * know.x], Signers)
       IN Step("ggn16_presign_1", "ggn16_presign_3",
               [k |-> k, u |-> u, v |-> v,
                w |-> [i \in Signers |-> (k[i] * u + c[i] * Q) % WideN]])

\* Round3State::advance, Round4State::advance: with the proofs that w_i hides
\* the logarithm of r_i; R and w are the sums.
Ggn16Combine == Step("ggn16_presign_3", "ggn16_presign_5",
    [R |-> Total(know.k, Signers), sum |-> SumFunctionOnSet(know.w, Signers) % WideN])

\* combine_partials of w, reduced: nobody proves a partial decryption.
Ggn16Eta == Fl(know.sum + SumFunctionOnSet(bent, Signers))

\* Round5State::finish
Ggn16Presign ==
    /\ stage = "ggn16_presign_5"
    /\ IF Ggn16Eta = 0 THEN Return("ggn16_presign_5", Everyone(Refused))
       ELSE Step("ggn16_presign_5", "ggn16_sign", [psi |-> Inv(Ggn16Eta)])

\* Round6State::new: psi * (m u + r v), in the plaintext space.
Ggn16Sigma == (know.psi * (digest * know.u + XCoord(know.R) * know.v)) % WideN

\* Round6State::finish
Ggn16Finish == Return("ggn16_sign", Everyone(Checked(XCoord(know.R), Fl(Ggn16Sigma))))

Ggn16SignNext == Ggn16Nonce \/ Ggn16Combine \/ Ggn16Presign \/ Ggn16Finish

-----------------------------------------------------------------------------
\* The presignature fits the nonce and the key: psi inverts k * u, and v
\* encrypts u times the key (Ggn16Presignature).
Ggn16Fits == stage = "ggn16_sign" /\ bent = Straight =>
            Fl(know.psi * know.R * know.u) = 1 /\ Fl(know.v) = Fl(know.u * key)

\* Why honest signers may be refused.
Ggn16Excuse == \/ Total(know.k, Signers) = 0 \/ Total(know.rho, Signers) = 0
               \/ bent # Straight \/ NoSignature(XCoord(know.R))
=============================================================================
