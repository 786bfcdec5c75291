-------------------------------- MODULE Tx25 --------------------------------
(* tecdsa-tx25: key generation (src/keygen), presigning (src/presign) and    *)
(* online signing (src/sign) over publicly verifiable secret sharing         *)
(* (src/pvss.rs) and publicly checked MtA (src/mpmta.rs).                    *)
(*                                                                           *)
(* A share of s is opened as its products with every other signer's, so that *)
(* any T signers whose products are right make up the signature: cheaters    *)
(* are identified by what everyone saw in presigning, and left out.  Of what *)
(* a party announces in key generation and presigning, nothing proves the    *)
(* point of its key share, and nothing that the point of its nonce share is  *)
(* that of the share it was dealt.                                           *)
EXTENDS ProtocolSession

-----------------------------------------------------------------------------
(* Key generation.                                                           *)

\* new_with_keypair, transition_r1_to_r2: proved CL keys, then the sharings.
Tx25KeygenBegin ==
    /\ stage = "tx25_keygen_2"
    /\ \E poly \in [Signers -> Dealt], fault \in Faults({"sharing", "announced"}) :
          /\ know = [poly |-> poly, fault |-> fault]
          /\ key = Secret(poly)

\* Round 2 of handle and transition_r2_to_r3: the sharings are
\* verified by everyone; the decrypted shares are added up and announced.
Tx25Announce ==
    /\ stage = "tx25_keygen_2"
    /\ IF SharingRefused THEN RefuseFaulty("tx25_keygen_2", "sharing")
       ELSE LET x == [p \in Signers |-> SharesDealt(know.poly, p)]
            IN Step("tx25_keygen_2", "tx25_keygen_3",
                    [x |-> x, X |-> [p \in Signers |-> Fl(x[p] + Off(p, "announced"))]])

\* finalize_keygen: the R_Dec_DL proof of round 3 is of a decryption, and the
\* key is interpolated from the announced points.
Tx25KeygenFinish ==
    Return("tx25_keygen_3", [p \in Signers |->
        LET X == [know.X EXCEPT ![p] = know.x[p]]
        IN KeyShare(know.x[p], X, Reconstruct(X, Signers))])

Tx25KeygenNext == Tx25Announce \/ Tx25KeygenFinish

-----------------------------------------------------------------------------
(* Presigning.                                                               *)

\* Tx25PresignMachine::new: gamma_i is encrypted, a part of the nonce shared.
Tx25SignBegin(f) ==
    /\ stage = "tx25_presign_1"
    /\ \E k \in [Signers -> Scalars], gamma \in [Signers -> Blinds], slope \in Blinds,
          fault \in Faults({"sharing", "nonce", "mta", "delta", "chi", "nonce_and_chi"}) :
          know = [kPoly |-> [i \in Signers |-> [d \in 0 .. T - 1 |-> IF d = 0 THEN k[i] ELSE slope]],
                  gamma |-> gamma, fault |-> fault, x |-> [i \in Signers |-> Eval(f, i)]]

\* transition_r1_to_r2: the sharings are verified by everyone, the decrypted
\* shares of the nonce are added up, and R_i = g^{k_i} is sent with the answers
\* to the others' ciphertexts.
Tx25Combine ==
    /\ stage = "tx25_presign_1"
    /\ IF SharingRefused THEN RefuseFaulty("tx25_presign_1", "sharing")
       ELSE \E beta \in Scalars, nu \in Blinds : Step("tx25_presign_1", "tx25_presign_2",
              [k |-> [i \in Signers |-> Fl(SharesDealt(know.kPoly, i) + Off(i, "nonce") + Off(i, "nonce_and_chi"))],
               beta |-> [p \in Pairs |-> beta], nu |-> [p \in Pairs |-> nu]])

\* What i has of the product of gamma_i and j's b_j: the decrypted answer of j
\* plus the mask of its own answer (mpmta_round2, mpmta_decrypt).
Tx25Products(b, mask) == [i \in Signers |-> [j \in Signers |->
    IF i = j THEN Fl(know.gamma[i] * b[i])
    ELSE Fl(know.gamma[i] * b[j] + Neg(mask[<<j, i>>]) + mask[<<i, j>>])]]

\* finalize: an answer is proved to be by k_j of R_j, and by x_j of X_j; R is
\* interpolated from what everyone announced.
Tx25Presign ==
    /\ stage = "tx25_presign_2"
    /\ IF \E d \in Signers : Faulty(d, "mta") THEN RefuseFaulty("tx25_presign_2", "mta")
       ELSE Step("tx25_presign_2", "tx25_sign_1",
                 [delta |-> Tx25Products(know.k, know.beta), zeta |-> Tx25Products(know.x, know.nu),
                  R |-> Reconstruct(know.k, Signers)])

-----------------------------------------------------------------------------
(* Online signing.                                                           *)

\* zero_poly_eval: a sharing of zero, by T - 1 coefficients.
Tx25ZeroAt(slope, i) == Eval([d \in 0 .. T - 1 |-> IF d = 0 THEN 0 ELSE slope], i)

\* Tx25OnlineSignMachine::new: the products, masked by sharings of zero.
Tx25Broadcast == \E slope \in Blinds :
    Step("tx25_sign_1", "tx25_sign_2",
         [delta |-> [i \in Signers |-> [j \in Signers |->
              Fl(know.delta[i][j] + Tx25ZeroAt(slope, j) + IF j = Victim(i) THEN Off(i, "delta") ELSE 0)]],
          chi |-> [i \in Signers |-> [j \in Signers |->
              Fl(digest * know.gamma[i] + XCoord(know.R) * know.zeta[i][j] + Tx25ZeroAt(slope, j)
                 + IF j = Victim(i) THEN Off(i, "chi") + Off(i, "nonce_and_chi") ELSE 0)]]])

\* What a table of products adds up to over the signers in S.
Tx25Bilinear(table, S) == Reconstruct([i \in S |-> Reconstruct(table[i], S)], S)

Tx25Numerator(S) == Tx25Bilinear(know.chi, S)
Tx25Denominator(S) == Tx25Bilinear(know.delta, S)

\* assemble_signature; zero is not a signature.
Tx25Assembled(S) == IF Tx25Denominator(S) = 0 THEN 0 ELSE Fl(Tx25Numerator(S) * Inv(Tx25Denominator(S)))

\* What j's products come to without the masks, as everyone can compute in the
\* exponent from the points B of presigning.
Tx25Recomputed(j, mask, table) ==
    Total([n \in Signers |-> Lagrange(Signers, n) * (table[n]
              + IF n = j THEN 0 ELSE mask[<<n, j>>] + Neg(mask[<<j, n>>]))], Signers)

\* identify_cheaters: the DDH proof is that D_j and Gamma_j are R and m G + r X
\* times one gamma_j.
Tx25Cheaters == {j \in Signers :
    \/ Tx25Recomputed(j, know.beta, know.delta[j]) # Fl(know.gamma[j] * know.R)
    \/ Tx25Recomputed(j, [p \in Pairs |-> Fl(know.nu[p] * XCoord(know.R))], know.chi[j])
          # Fl(know.gamma[j] * Fl(digest + XCoord(know.R) * key))}

\* handle: with the last message in, the signature is put together from the
\* products of everyone, and, for when that does not verify, without those of
\* the cheaters, if at least T are left.
Tx25Assemble ==
    LET honest == Signers \ Tx25Cheaters
    IN Step("tx25_sign_2", "tx25_sign_3",
            [all |-> Tx25Assembled(Signers),
             rest |-> IF honest # Signers /\ Cardinality(honest) >= T THEN Tx25Assembled(honest) ELSE 0])

\* try_finalize
Tx25Finish ==
    LET Try(s) == IF s = 0 THEN Refused ELSE Checked(XCoord(know.R), s)
    IN Return("tx25_sign_3", Everyone(IF Try(know.all) # Refused THEN Try(know.all) ELSE Try(know.rest)))

Tx25SignNext == Tx25Combine \/ Tx25Presign \/ Tx25Broadcast \/ Tx25Assemble \/ Tx25Finish

-----------------------------------------------------------------------------
\* The presignature fits the nonce and the key.
Tx25Fits == stage = "tx25_sign_1" =>
            LET gamma == Reconstruct(know.gamma, Signers)
            IN /\ Tx25Bilinear(know.delta, Signers) = Fl(know.R * gamma)
               /\ Tx25Bilinear(know.zeta, Signers) = Fl(key * gamma)

\* Whose products the signature is put together from in the end.
Tx25Left == IF know.fault \in {"delta", "chi"} THEN {i \in Signers : bent[i] = 0} ELSE Signers

\* Why honest signers may be refused.  A wrong share in online signing is not
\* among the reasons as long as T signers are left, unless its sender also lied
\* about its nonce share; nor is a wrong share of the nonce that few parties do
\* not see.
Tx25Excuse ==
    \/ know.fault \in {"mta", "nonce_and_chi"} \/ SharingRefused
    \/ Cardinality(Tx25Left) < T \/ Reconstruct(know.gamma, Tx25Left) = 0
    \/ know.R = 0 \/ NoSignature(XCoord(know.R))
=============================================================================
