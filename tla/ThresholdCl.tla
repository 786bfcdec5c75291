----------------------------- MODULE ThresholdCl ----------------------------
(* Sharings under CL encryption (tecdsa-class-group): of a CL key over the   *)
(* integers (dkg_cl.rs) with threshold decryption (t_cl.rs), of a curve key  *)
(* by Pedersen VSS (drg.rs, dkg_dl.rs), and publicly verified with one       *)
(* randomness for all shares (pvss_share.rs, zk/r_sh.rs).                    *)
(*                                                                           *)
(* A group element is the pair of its exponents of h, whose order is not     *)
(* known, and of f, whose order is Q; HsmCl computes in a group of forms.    *)
(* Proofs hold when the relation they are about does (SigmaProofs), but      *)
(* R_Sh, whose verifier is here.                                             *)
EXTENDS Exchange

CONSTANTS
    SkBound,    \* secretkey_bound: secrets and randomness are below it
    Committees, \* [n, t]: the number of parties and the threshold
    Draws       \* coefficients that a dealer may draw in the field

Indices == 1 .. know.n
Secrets == {1, SkBound - 1}

\* One dealer that may be faulty and the others, who all draw alike.
EachDealer(first, rest) == [d \in Indices |-> IF d = 1 THEN first ELSE rest]

\* The recipient whose share a faulty dealer alters.
Hit == 2
Wrong(d, j, where) == IF d = 1 /\ j = Hit THEN Shift(where, 1) ELSE 0

-----------------------------------------------------------------------------
(* The group and CL encryption in it.                                        *)

Elt(x, m) == [h |-> x, f |-> Fl(m)]
Times(a, b) == Elt(a.h + b.h, a.f + b.f)
Power(a, e) == Elt(a.h * e, a.f * Fl(e))
Powers(elts, exps) ==
    Elt(SumFunctionOnSet([i \in DOMAIN elts |-> elts[i].h * exps[i]], DOMAIN elts),
        SumFunctionOnSet([i \in DOMAIN elts |-> elts[i].f * Fl(exps[i])], DOMAIN elts))

Enc(pk, m, r) == [c1 |-> Elt(r, 0), c2 |-> Times(Power(pk, r), Elt(0, m))]

\* dlog_in_F fails on an element that is not a power of f.
NoLog == -1
LogInF(elt) == IF elt.h = 0 THEN elt.f ELSE NoLog
Dec(sk, ct) == LogInF(Times(ct.c2, Power(ct.c1, -sk)))

Sk(j) == 1 + ((j + 1) % (SkBound - 1))
Pk(j) == Elt(Sk(j), 0)

-----------------------------------------------------------------------------
(* dkg_cl.rs: n dealers share over the integers, scaled by n!.               *)

Factorial(n) == FoldFunctionOnSet(LAMBDA a, b : a * b, 1, [i \in 1 .. n |-> i], 1 .. n)
EvalInZ(poly, x) == SumFunctionOnSet([l \in DOMAIN poly |-> poly[l] * x ^ l], DOMAIN poly)

\* shamir_share_delta_signed
DeltaShares(poly, n) ==
    LET scaled == [poly EXCEPT ![0] = Factorial(n) * @]
    IN [j \in 1 .. n |-> EvalInZ(scaled, j)]

\* Mutant of ShareBound: sized for the secret, as it once was.
ShareBound_Secret(n, t) == SkBound

\* share_magnitude_bound
ShareBound(n, t) ==
    SkBound * (Factorial(n) + IF n >= 2 /\ t >= 2 THEN (n ^ t - n) \div (n - 1) ELSE 0)

\* num_chunks_for_bound, decompose_q_ary: base-Q digits.
Length(v) == CHOOSE c \in 1 .. 30 : Q ^ c > v /\ \A b \in 1 .. c - 1 : Q ^ b <= v
Chunk(v, l) == (v \div Q ^ l) % Q

\* dkg_cl_gen and dkg_cl_gen_with_secret; more digits than there is room for
\* are an error.  A faulty dealer deals another share, or encrypts another
\* lowest chunk than it committed to.
DkgClBegin ==
    /\ scheme = "dkg cl" /\ stage = "gen" /\ fault \in {"none", "share", "chunk", "reveal"}
    /\ know \in Committees

DkgClGen ==
    /\ scheme = "dkg cl"
    /\ \E first, rest \in [0 .. know.t - 1 -> Secrets] :
          LET poly == EachDealer(first, rest)
              room == Length(ShareBound(know.n, know.t))
              shares == [d \in Indices |-> [j \in Indices |->
                            DeltaShares(poly[d], know.n)[j] + Wrong(d, j, "share")]]
              Lifted(d, j, l) == Chunk(shares[d][j], l) + IF l = 0 THEN Wrong(d, j, "chunk") ELSE 0
          IN IF \E d, j \in Indices : Length(shares[d][j]) > room THEN Refuse("gen")
             ELSE Step("gen", "verify",
                    [poly |-> poly, committed |-> shares,
                     cts |-> [d \in Indices |-> [j \in Indices |-> [l \in 0 .. room - 1 |->
                                Enc(Pk(j), Lifted(d, j, l), l + d)]]]])

\* dkg_cl_gen_verify: R_Blnt is about the chunks of one recipient, and says
\* nothing of the sharing they are part of.
GenHolds(d, j) == \A l \in DOMAIN know.cts[d][j] :
    Dec(Sk(j), know.cts[d][j][l]) = Chunk(know.committed[d][j], l)

\* dkg_cl_reveal: the chunks put together, over all dealers; a faulty party
\* reveals a share that is off by `slip`.
DkgClReveal ==
    /\ scheme = "dkg cl" /\ stage = "verify"
    /\ IF \A d, j \in Indices : GenHolds(d, j)
       THEN \E slip \in IF fault = "reveal" THEN {1, Q} ELSE {0} :
            LET Weights(j) == [d \in Indices |-> [l \in DOMAIN know.cts[d][j] |-> Q ^ l]]
                Dealt(d, j) == SumFunctionOnSet([l \in DOMAIN know.cts[d][j] |->
                                  Q ^ l * Dec(Sk(j), know.cts[d][j][l])], DOMAIN know.cts[d][j])
                Joined(j) == SumFunctionOnSet([d \in Indices |-> Dealt(d, j)], Indices)
                All(j, part) == [d \in Indices |-> Powers(
                    [l \in DOMAIN know.cts[d][j] |-> know.cts[d][j][l][part]], Weights(j)[d])]
                Each == [d \in Indices |-> 1]
            IN Step("verify", "reveal",
                    [slip |-> slip,
                     share |-> [j \in Indices |-> Joined(j) + IF j = Hit THEN slip ELSE 0],
                     ct |-> [j \in Indices |-> [c1 |-> Powers(All(j, "c1"), Each),
                                                c2 |-> Powers(All(j, "c2"), Each)]]])
       ELSE Refuse("verify")

\* dkg_cl_reveal_verify: the share, modulo Q, is what the ciphertext decrypts to.
RevealHolds(j) == Dec(Sk(j), know.ct[j]) = Fl(know.share[j])

-----------------------------------------------------------------------------
(* t_cl.rs.                                                                  *)

\* Division of rug's integers truncates.
Quotient(a, b) == LET c == (IF a < 0 THEN -a ELSE a) \div (IF b < 0 THEN -b ELSE b)
                  IN IF (a < 0) = (b < 0) THEN c ELSE -c

\* lagrange_coefficients_delta, from index j on.
RECURSIVE DeltaLagrange(_, _, _, _)
DeltaLagrange(coeff, i, P, j) ==
    IF j > know.n THEN coeff
    ELSE DeltaLagrange(IF j \in P \ {i} THEN Quotient(coeff, i - j) * (-j) ELSE coeff, i, P, j + 1)
Delta == Factorial(know.n)
Coefficients(P) == [i \in P |-> DeltaLagrange(Delta, i, P, 1)]

\* dkg_cl_aggregate of the public shares.
Aggregate(P) == Powers([i \in P |-> Elt(know.share[i], 0)], Coefficients(P))

\* partial_decrypt by the parties in P, and final_decrypt: m n!^2 is in the
\* exponent, and divided out by Fermat.
FinalDecrypt(ct, P) ==
    LET parts == [i \in P |-> Power(ct.c1, know.share[i])]
        scaled == LogInF(Times(Power(ct.c2, Delta * Delta), Power(Powers(parts, Coefficients(P)), -1)))
    IN IF scaled = NoLog THEN NoLog ELSE Fl(scaled * Fl(Delta * Delta) ^ (Q - 2))

\* A ciphertext is under the composed key of the dealers, as in JTX25.
DkgClDecrypt ==
    /\ scheme = "dkg cl" /\ stage = "reveal"
    /\ IF \A j \in Indices : RevealHolds(j)
       THEN \E m \in Field, P \in {P \in SUBSET Indices : Cardinality(P) >= know.t} :
               LET sk == SumFunctionOnSet([d \in Indices |-> know.poly[d][0]], Indices)
               IN Step("reveal", "done",
                       [m |-> m, P |-> P, sk |-> sk, aggregate |-> Aggregate(P),
                        opened |-> FinalDecrypt(Enc(Elt(sk, 0), m, 2), P)])
       ELSE Refuse("reveal")

\* Any threshold of parties decrypts, no share outgrows its chunks, and the
\* aggregate is the key times n!^2.  Nothing notices a share that is not on the
\* dealer's polynomial, or one revealed with a multiple of Q added.
DkgClRight ==
    /\ Done("dkg cl") =>
          \/ fault = "share" /\ Hit \in know.P
          \/ fault = "reveal" /\ know.slip = Q /\ Hit \in know.P
          \/ /\ know.opened = know.m
             /\ know.aggregate = Elt(Delta * Delta * know.sk, 0)
    /\ scheme = "dkg cl" /\ stage = "refused" => fault \in {"chunk", "reveal"}
    /\ Done("dkg cl") => fault # "chunk"

-----------------------------------------------------------------------------
(* drg.rs and dkg_dl.rs: Pedersen VSS of curve scalars.  A commitment is the *)
(* pair of its exponents of the two generators.                              *)

Pair(a, b) == <<Fl(a), Fl(b)>>
EvalPairs(coms, x) == Pair(Eval([l \in DOMAIN coms |-> coms[l][1]], x),
                           Eval([l \in DOMAIN coms |-> coms[l][2]], x))

VssBegin ==
    /\ scheme \in {"drg", "dkg dl"} /\ stage = "gen" /\ fault \in {"none", "share", "cipher", "pc"}
    /\ \E committee \in Committees, trusted \in BOOLEAN :
          know = committee @@ [trusted |-> trusted]

\* The ciphertexts of drg_gen are broadcast.
Altered(d, j, where) == IF d = 1 /\ (scheme = "drg" \/ j = Hit) THEN Shift(where, 1) ELSE 0

\* pedersen_vss_share by each dealer; drg_gen encrypts the secret under the
\* dealer's key, dkg_dl_gen each share under the recipient's, with a commitment
\* to what is encrypted.
VssGen ==
    /\ scheme \in {"drg", "dkg dl"}
    /\ \E first, rest \in [0 .. know.t - 1 -> Draws], blind \in Draws :
          LET poly == EachDealer(first, rest)
              blinds == [l \in 0 .. know.t - 1 |-> blind + l]
              Value(d, j) == Fl(Eval(poly[d], j) + Wrong(d, j, "share"))
              To(d, j) == IF scheme = "drg" THEN poly[d][0] ELSE Eval(poly[d], j)
              With(j) == IF scheme = "drg" THEN blind ELSE Eval(blinds, j)
          IN Step("gen", "verify",
                  [poly |-> poly,
                   coms |-> [d \in Indices |-> [l \in 0 .. know.t - 1 |-> Pair(poly[d][l], blinds[l])]],
                   share |-> [d \in Indices |-> [j \in Indices |-> Pair(Value(d, j), Eval(blinds, j))]],
                   pc |-> [d \in Indices |-> [j \in Indices |->
                              Pair(To(d, j) + Altered(d, j, "pc"), With(j))]],
                   ct |-> [d \in Indices |-> [j \in Indices |->
                              Fl(To(d, j) + Altered(d, j, "cipher") + Altered(d, j, "pc"))]]])

\* The commitment beside a ciphertext is the one the dealer's polynomial makes.
PcFits(d, j) == know.pc[d][j] = IF scheme = "drg" THEN know.coms[d][0] ELSE EvalPairs(know.coms[d], j)

\* pedersen_vss_verify
ShareFits(d, j) == know.share[d][j] = EvalPairs(know.coms[d], j)

\* drg_gen_verify and dkg_dl_gen_verify are pedersen_vss_verify and R_Enc-PC,
\* that the ciphertext is of what pc commits to; neither compares pc with the
\* commitments.  WMY23's presigning hands DRG's the first commitment for pc;
\* WMY23's key generation and JTX25 the one in the message, trusted.  WMC24 does
\* not call dkg_dl_gen_verify, and has no share to verify: it compares pc with
\* the commitments itself.
VssHolds(d, j) ==
    /\ scheme = "drg" \/ know.trusted => ShareFits(d, j)
    /\ know.ct[d][j] = know.pc[d][j][1]
    /\ ~know.trusted => PcFits(d, j)

\* drg_comb adds up the shares it verified, and commits to the sum by the
\* dealers' commitments; dkg_dl_reveal adds up what the ciphertexts decrypt to.
VssCombine ==
    /\ scheme \in {"drg", "dkg dl"} /\ stage = "verify"
    /\ IF \A d, j \in Indices : VssHolds(d, j)
       THEN LET Sum(table, j) == Total([d \in Indices |-> table[d][j]], Indices)
                Joint(j, part) == Total([d \in Indices |-> know.share[d][j][part]], Indices)
                joint == [l \in 0 .. know.t - 1 |-> Pair(
                    Total([d \in Indices |-> know.coms[d][l][1]], Indices),
                    Total([d \in Indices |-> know.coms[d][l][2]], Indices))]
            IN Step("verify", "done",
                    [combined |-> [j \in Indices |->
                        IF scheme = "drg" THEN Joint(j, 1) ELSE Sum(know.ct, j)],
                     fits |-> scheme = "drg" =>
                        \A j \in Indices : Pair(Joint(j, 1), Joint(j, 2)) = EvalPairs(joint, j)])
       ELSE Refuse("verify")

\* The combined shares share the sum of the secrets, DRG's open the commitments
\* that everyone can compute, and its ciphertexts are of the secrets.  Where a
\* ciphertext is used, the verifier was handed a pc that fits the commitments,
\* or its caller compared them: dkg_dl.rs:64-66 and 180-182 and drg.rs:350-352
\* say that of the verifiers, whose code leaves it to the caller.
VssRight ==
    LET fitting == ~know.trusted \/ \A d, j \in Indices : PcFits(d, j)
    IN /\ Done("drg") => know.fits
       /\ Done("drg") \/ (Done("dkg dl") /\ fitting) => \A P \in SUBSET Indices : Cardinality(P) = know.t =>
             Reconstruct(know.combined, P) = Total([d \in Indices |-> know.poly[d][0]], Indices)
       /\ Done("drg") /\ fitting => \A d, j \in Indices : know.ct[d][j] = know.poly[d][0]
       /\ scheme \in {"drg", "dkg dl"} /\ stage = "refused" => fault # "none"

-----------------------------------------------------------------------------
(* pvss_share.rs and zk/r_sh.rs.                                             *)

\* A faulty dealer alters one share, or its randomness, or shares with a
\* polynomial whose degree is the threshold.
PvssBegin ==
    /\ scheme = "pvss" /\ stage = "gen" /\ fault \in {"none", "share", "rho", "degree"}
    /\ know \in Committees

\* pvss_share_distribute and pvss_share_distribute_with_secret.
Distribute ==
    /\ scheme = "pvss"
    /\ \E poly \in [0 .. know.t - 1 -> Draws], rho \in Secrets :
          LET Share(j) == Eval(poly, j) + Wrong(1, j, "share") + Shift("degree", j ^ know.t)
          IN Step("gen", "verify",
                  [poly |-> poly, c1 |-> Elt(rho, 0),
                   c2s |-> [j \in Indices |->
                              Times(Power(Pk(j), rho + Wrong(1, j, "rho")), Elt(0, Share(j)))]])

\* The degree of the polynomials that the shares are tested with.
DualDegree == know.n - know.t - 2

\* aggregate_products: exp_i = c_i M + value(i) / prod (i - j) modulo Q.
Weight(coeffs, i) == Fl(Eval(coeffs, i) * Inv(Product([j \in Indices \ {i} |-> Fl(i - j)], Indices \ {i})))
Exponents(coeffs, c) == [i \in Indices |-> c[i] * Q + Weight(coeffs, i)]

\* verify: V = U^rho for c1 = h^rho.  Without a dual code, anything.
PolyVerified(coeffs, c) ==
    LET exps == Exponents(coeffs, c)
    IN Powers(know.c2s, exps) = Power(Powers([i \in Indices |-> Pk(i)], exps), know.c1.h)

\* pvss_share_verify and pvss_share_decrypt; the coefficients and the challenges
\* are hashes of the ciphertexts.
PvssDecrypt ==
    /\ scheme = "pvss" /\ stage = "verify"
    /\ \E coeffs \in [0 .. DualDegree -> Field], c \in [Indices -> Bit] :
          IF DualDegree < 0 \/ PolyVerified(coeffs, c)
          THEN Step("verify", "done",
                    [coeffs |-> coeffs, c |-> c,
                     opened |-> [j \in Indices |-> Dec(Sk(j), [c1 |-> know.c1, c2 |-> know.c2s[j]])]])
          ELSE Refuse("verify")

\* Whether the shares with these indices are on a polynomial of this degree:
\* each is what those of the first degree + 1 interpolate to.
Shifted(i, x) == Fl(i - x)
OnDegree(opened, degree) ==
    LET base == 1 .. degree + 1
        At(x) == Total([i \in base |-> opened[i] * Product([j \in base \ {i} |->
                    Fl(Shifted(x, j) * Inv(Shifted(i, j)))], base \ {i})], base)
    IN \A x \in Indices \ base : opened[x] = At(x)

\* An honest sharing is accepted and opens to shares of the secret.  One that is
\* accepted where shares are tested is of degree T at most, or the test was
\* zero, and every share of it can be decrypted, or its exponent was zero.
PvssRight ==
    /\ scheme = "pvss" /\ stage = "refused" => fault # "none"
    /\ Done("pvss") /\ fault = "none" =>
          \A j \in Indices : know.opened[j] = Eval(know.poly, j)
    /\ Done("pvss") /\ DualDegree >= 0 =>
          /\ \/ fault = "rho" \/ OnDegree(know.opened, know.t)
             \/ \A i \in Indices : Weight(know.coeffs, i) = 0
          /\ \A j \in Indices : know.opened[j] # NoLog \/ Exponents(know.coeffs, know.c)[j] = 0

\* pvss_share_verify: "the encrypted shares are consistent with a polynomial of
\* degree <= t-1 and were produced with shared randomness", unless the hashes
\* are zero.
VerifiedIsShared == Done("pvss") =>
    \/ \A j \in Indices : know.opened[j] # NoLog /\ OnDegree(know.opened, know.t - 1)
    \/ \E i \in Indices : DualDegree >= 0 /\ Exponents(know.coeffs, know.c)[i] = 0

ThresholdBegin == DkgClBegin \/ VssBegin \/ PvssBegin
ThresholdNext == DkgClGen \/ DkgClReveal \/ DkgClDecrypt \/ VssGen \/ VssCombine \/ Distribute \/ PvssDecrypt

ThresholdsMeet == DkgClRight /\ VssRight /\ PvssRight
=============================================================================
