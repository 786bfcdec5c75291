------------------------------- MODULE Jtx25 --------------------------------
(* tecdsa-jtx25: key generation (src/keygen), presigning (src/presign) and   *)
(* online signing (src/sign) over threshold CL encryption, in both variants: *)
(* "jtx25", where the nonce is a sum, and "jtx25_robust", where it is shared *)
(* (drg.rs).  A ciphertext is its plaintext, which only T partial            *)
(* decryptions show.                                                         *)
(*                                                                           *)
(* A party may be gone once a robust presignature is there: the online       *)
(* machines are then started with the other signers.                         *)
EXTENDS ProtocolSession

-----------------------------------------------------------------------------
(* Key generation.                                                           *)

\* new_with_keypair, transition_r1_to_r2: proved CL keys, then sharings of the
\* parts of the signing key and of the CL key.
Jtx25KeygenBegin ==
    /\ stage = "jtx25_keygen_2"
    /\ \E poly \in [Signers -> Dealt], cl \in Dealt,
          fault \in Faults({"sharing", "blinded", "reveal", "announced"}) :
          /\ know = [poly |-> poly, cl |-> [d \in Signers |-> cl], fault |-> fault]
          /\ key = Secret(poly)

\* Round 2 of handle and transition_r2_to_r3.  The proof of a sharing is seen
\* by everyone; the chunks of a share of the CL key are verified by the party
\* they are for.
Jtx25Announce ==
    /\ stage = "jtx25_keygen_2"
    /\ IF SharingRefused THEN RefuseFaulty("jtx25_keygen_2", "sharing")
       ELSE IF \E d \in Signers : Faulty(d, "blinded") THEN RefuseVictim("jtx25_keygen_2", "blinded")
       ELSE LET x == [p \in Signers |-> SharesDealt(know.poly, p)]
            IN Step("jtx25_keygen_2", "jtx25_keygen_3",
                    [x |-> x, X |-> [p \in Signers |-> Fl(x[p] + Off(p, "announced"))],
                     clShare |-> [p \in Signers |-> Dealers(know.cl, p)]])

\* Round 3 of handle and finalize_keygen: the lifted CL shares are proved, the
\* points of the key shares are not.
Jtx25KeygenFinish ==
    /\ stage = "jtx25_keygen_3"
    /\ IF \E d \in Signers : Faulty(d, "reveal") THEN RefuseFaulty("jtx25_keygen_3", "reveal")
       ELSE Return("jtx25_keygen_3", [p \in Signers |->
                LET X == [know.X EXCEPT ![p] = know.x[p]]
                IN With([clShare |-> know.clShare[p], clPk |-> Secret(know.cl)],
                        KeyShare(know.x[p], X, Reconstruct(X, Signers)))])

Jtx25KeygenNext == Jtx25Announce \/ Jtx25KeygenFinish

\* Any T of the parties can decrypt what is encrypted under the CL key.
Jtx25KeyEncrypted ==
    \A S \in SUBSET Holders : Cardinality(S) = T =>
        Reconstruct([p \in S |-> answer[p].clShare], S) = answer[CHOOSE p \in S : TRUE].clPk

-----------------------------------------------------------------------------
(* Presigning.                                                               *)

Jtx25SharedNonce == protocol = "jtx25_robust"

\* Jtx25PresignMachine::new and Jtx25RobustPresignMachine::new: phi_i is
\* encrypted, and R_i is committed to or k_i is shared.
Jtx25SignBegin(f) ==
    /\ stage = "jtx25_presign_1"
    /\ \E k \in [Signers -> Scalars], phi \in [Signers -> Blinds], slope \in Blinds,
          fault \in Faults(IF Jtx25SharedNonce THEN {"share", "nonce", "weighted", "opened", "gone"}
                           ELSE {"decommitted", "weighted", "opened", "index"}) :
          know = [drawn |-> [i \in Signers |-> [d \in 0 .. T - 1 |-> IF d = 0 THEN k[i] ELSE slope]],
                  phi |-> Total(phi, Signers), fault |-> fault,
                  x |-> [i \in Signers |-> Eval(f, i)]]

\* drg_comb: the shares of all dealers, at the position of the signer.
Jtx25Combined(i) == Fl(Dealers(know.drawn, Position(i)) + Off(i, "nonce"))

\* phi times the weighted key share, and what R_dl-cl proves of it.
Jtx25Weighted(i) == Fl(know.phi * Fl(Lagrange(Signers, i) * know.x[i]))

\* transition_r1_to_r2: the encrypted phi is scaled by the weighted key share
\* and by the nonce share.
Jtx25Scale ==
    /\ stage = "jtx25_presign_1"
    /\ IF \E d \in Signers : Faulty(d, "share") THEN RefuseVictim("jtx25_presign_1", "share")
       ELSE LET k == [i \in Signers |-> IF Jtx25SharedNonce THEN Jtx25Combined(i) ELSE know.drawn[i][0]]
            IN Step("jtx25_presign_1", "jtx25_presign_2",
                    [k |-> k, phiK |-> [i \in Signers |-> Fl(know.phi * k[i])],
                     phiX |-> [i \in Signers |-> Fl(Jtx25Weighted(i) + Off(i, "weighted"))]])

\* What a signer's part of the nonce counts for: a summand, or a share, which is
\* interpolated at the PartyIds.
Jtx25Weight(i) == IF Jtx25SharedNonce THEN Lagrange(Signers, i) ELSE 1

\* Round 2 of handle, finalize: R is opened.
Jtx25Presign ==
    /\ stage = "jtx25_presign_2"
    /\ IF \E i \in Signers : Faulty(i, "decommitted") THEN RefuseFaulty("jtx25_presign_2", "decommitted")
       ELSE IF \E i \in Signers : know.phiX[i] # Jtx25Weighted(i)
       THEN RefuseFaulty("jtx25_presign_2", "weighted")
       ELSE Step("jtx25_presign_2", "jtx25_sign",
                 [R |-> Fl(SumFunctionOnSet([i \in Signers |-> Jtx25Weight(i) * know.k[i]], Signers))])

-----------------------------------------------------------------------------
(* Online signing.                                                           *)

\* The all_parties that the online machines are started with.
Jtx25Online == {i \in Signers : ~Faulty(i, "gone")}

\* new_with_setup: c0 encrypts phi k and c1 encrypts phi (m + r x), as far as the
\* terms of those that are there make them up.
Jtx25C0 == Fl(SumFunctionOnSet([i \in Jtx25Online |-> Jtx25Weight(i) * know.phiK[i]], Jtx25Online))
Jtx25C1 == Fl(digest * know.phi + XCoord(know.R) * Total(know.phiX, Jtx25Online))

\* handle and try_finalize: the partial decryptions are proved, but not the
\* index that a sender puts on them.  The second attempt, with -s, is at the
\* same signature.
Jtx25Finish ==
    /\ stage = "jtx25_sign"
    /\ IF \E i \in Signers : Faulty(i, "opened") \/ Faulty(i, "index")
       THEN RefuseFaulty("jtx25_sign", know.fault)
       ELSE LET s == IF Jtx25C0 = 0 THEN 0 ELSE Fl(Jtx25C1 * Inv(Jtx25C0))
                outcome == IF s = 0 THEN Refused ELSE Checked(XCoord(know.R), s)
            IN Return("jtx25_sign", [i \in DOMAIN answer |-> IF i \in Jtx25Online THEN outcome ELSE Waiting])

Jtx25SignNext == Jtx25Scale \/ Jtx25Presign \/ Jtx25Finish

-----------------------------------------------------------------------------
\* The ciphertexts of a presignature fit R and the key.
Jtx25Fits == stage = "jtx25_sign" =>
            /\ Fl(SumFunctionOnSet([i \in Signers |-> Jtx25Weight(i) * know.phiK[i]], Signers)) = Fl(know.phi * know.R)
            /\ Total(know.phiX, Signers) = Fl(know.phi * key)

\* A signer has left after presigning, as only the robust variant allows for.
Jtx25Left == Jtx25Online # Signers

\* Why honest signers may be refused.  A wrong nonce share is not among the
\* reasons: R is that of what was encrypted.  Nor is a signer that has left.
Jtx25Excuse ==
    \/ know.fault \in {"share", "decommitted", "weighted", "opened", "index"}
    \/ know.phi = 0
    \/ IF "R" \in DOMAIN know THEN know.R = 0 \/ NoSignature(XCoord(know.R)) ELSE FALSE
=============================================================================
