--------------------------- MODULE Multiplication ---------------------------
(* Two parties turn a product of their secrets into a sum: over Paillier     *)
(* (tecdsa-paillier/mta.rs), over Joye-Libert (tecdsa-joye-libert: kgen.rs,  *)
(* enc_dec.rs, mta.rs) and over class groups (tecdsa-class-group: mta.rs,    *)
(* nim.rs, mta_broadcast.rs, scaled_decrypt.rs, and mpmta.rs of TX25).       *)
(*                                                                           *)
(* A Paillier ciphertext is its plaintext modulo N, which decryption reads   *)
(* with a sign; the Joye-Libert and class-group ciphertexts are computed.    *)
(* Proofs are the ranges and relations that their verifiers accept, as       *)
(* SigmaProofs shows.                                                        *)
EXTENDS HsmCl

CONSTANTS MtaN,         \* the modulus of the Paillier key
          MtaMasks,     \* what alpha_prime may be
          MtaInputs,    \* inputs of the class-group multiplications
          JlPrimes,     \* [p, k, q]: p = 1 mod 2^k and q the primes of a key
          JlWindow,     \* W of the Joye-Libert decryption
          JlOrder,      \* the order q of the scalars shared over Joye-Libert
          JlSlack       \* s and t, the statistical parameters

-----------------------------------------------------------------------------
(* Paillier, with one of the three sets of proofs.                           *)

Kinds == {"simple", "gg18", "cggmp20"}
Signed(x) == LET y == x % MtaN IN IF 2 * y > MtaN THEN y - MtaN ELSE y

\* What a faulty party adds to be out of range.
Beyond == ((MtaN \div 2) \div Q) * Q

PaillierBegin ==
    /\ scheme = "paillier mta" /\ stage = "encrypt"
    /\ fault \in {"none", "sender", "mask"}
    /\ know \in [kind : Kinds, a : Field, b : Field]

\* PaillierMtA::sender_encrypt; a faulty sender encrypts a number out of range,
\* or one within the slack of its proof.
SenderEncrypt ==
    /\ scheme = "paillier mta"
    /\ \E excess \in {Q, Beyond} :
          Step("encrypt", "compute", [ct |-> (know.b + Shift("sender", excess)) % MtaN])

\* verify_sender: every set of proofs bounds the plaintext.
SenderProven == LET x == Signed(know.ct) IN -(Q ^ 3) <= x /\ x <= Q ^ 3

\* receiver_compute: a times the ciphertext plus the mask, and minus the mask.
ReceiverCompute ==
    /\ scheme = "paillier mta" /\ stage = "compute"
    /\ IF SenderProven
       THEN \E mask \in MtaMasks, excess \in {Q ^ 3, Beyond} :
               LET alpha == mask + Shift("mask", excess)
               IN Step("compute", "decrypt",
                       [mask |-> alpha, ct2 |-> (know.a * know.ct + alpha) % MtaN,
                        alpha |-> (Q - (mask % Q)) % Q])
       ELSE Refuse("compute")

\* verify_receiver: BobProof (GG18) leaves the mask unbounded.
ReceiverProven == know.kind = "gg18" \/ Signed(know.mask) \in -(Q ^ 7) .. Q ^ 7

\* sender_decrypt
SenderDecrypt ==
    /\ scheme = "paillier mta" /\ stage = "decrypt"
    /\ IF ReceiverProven
       THEN Step("decrypt", "done", [beta |-> Fl(Signed(know.ct2))])
       ELSE Refuse("decrypt")

\* The two shares add up to the product of what was encrypted, and an honest
\* pair is never refused.  A mask that nobody bounds wraps around N.
PaillierRight ==
    /\ Done("paillier mta") /\ ~(know.kind = "gg18" /\ fault = "mask") =>
          Fl(know.alpha + know.beta) = Fl(know.a * know.b)
    /\ scheme = "paillier mta" /\ stage = "refused" => fault # "none"

-----------------------------------------------------------------------------
(* Joye-Libert.                                                              *)

\* generate_keypair_with_qnr, for the least number that is no square modulo
\* either prime and alpha = 1.
JlKeys(prime) ==
    LET n == prime.p * prime.q
        x == CHOOSE x \in 2 .. n - 1 : /\ Kronecker(x, prime.p) = -1 /\ Kronecker(x, prime.q) = -1
                    /\ \A z \in 2 .. x - 1 : ~(Kronecker(z, prime.p) = -1 /\ Kronecker(z, prime.q) = -1)
        pp == (prime.p - 1) \div 2 ^ prime.k
    IN [n |-> n, y |-> x, h |-> PowMod(x, 2 ^ prime.k, n), k |-> prime.k, p |-> prime.p,
        minus |-> InvertMod(PowMod(x, pp, prime.p), prime.p)]

\* encrypt_with_randomness, hadd, hscmul
JlEncrypt(key, m, r) == (PowMod(key.y, m, key.n) * PowMod(key.h, r, key.n)) % key.n
JlAdd(key, c1, c2) == (c1 * c2) % key.n
JlScale(key, c, s) == PowMod(c, s, key.n)

\* decrypt: the bits of the plaintext, a window at a time from the lowest;
\* `table` is for g to the 2^(k - w), and the last window may be narrower.
RECURSIVE JlBlocks(_, _, _, _)
JlBlocks(key, d, inverse, processed) ==
    LET w == IF JlWindow < key.k THEN JlWindow ELSE key.k
        width == IF w < key.k - processed THEN w ELSE key.k - processed
        gw == PowMod(InvertMod(key.minus, key.p), 2 ^ (key.k - w), key.p)
        val == PowMod(d, 2 ^ (key.k - processed - width), key.p)
        raw == CHOOSE j \in 0 .. 2 ^ w - 1 : PowMod(gw, j, key.p) = val
        block == raw \div 2 ^ (w - width)
    IN IF processed = key.k THEN 0
       ELSE block * 2 ^ processed
            + JlBlocks(key, (d * PowMod(inverse, block, key.p)) % key.p,
                       PowMod(inverse, 2 ^ width, key.p), processed + width)
JlDecrypt(key, c) ==
    JlBlocks(key, PowMod(c, (key.p - 1) \div 2 ^ key.k, key.p), key.minus, 0)

JlBegin ==
    /\ scheme = "joye-libert" /\ stage = "encrypt" /\ fault \in {"none", "other ciphertext"}
    /\ know \in [prime : JlPrimes, a : 0 .. JlOrder - 1, b : 0 .. JlOrder - 1]

\* mta_receiver_step1 and JlMtA::sender_encrypt
JlSend ==
    /\ scheme = "joye-libert" /\ stage = "encrypt"
    /\ LET key == JlKeys(know.prime)
       IN \E r \in {0, 3} :
             Step("encrypt", "compute",
                  [key |-> key, r |-> r, ct |-> JlEncrypt(key, know.b, r),
                   wide |-> [m \in {5, 2 ^ key.k - 1 - know.a} |-> JlDecrypt(key, JlEncrypt(key, m, r))]])

\* The sender's plaintext is shifted by q 2^(s + t), to keep it positive.
JlShift == JlOrder * 2 ^ (JlSlack.s + JlSlack.t)
Shifted(key, c) == JlAdd(key, PowMod(key.y, JlShift, key.n), c)
MaskBound == JlOrder * JlOrder * 2 ^ (2 * JlSlack.s + JlSlack.t)

\* mta_sender_step_with_sec and JlMtA::receiver_compute; nothing compares what
\* the mask and the product need with the 2^k that the plaintexts live in.
JlCompute ==
    /\ scheme = "joye-libert"
    /\ \E mask \in {0, 5, MaskBound - 1} :
          LET key == know.key
          IN Step("compute", "decrypt",
                 [ct2 |-> JlAdd(key, JlScale(key, Shifted(key, know.ct), know.a), JlEncrypt(key, mask, 2)),
                  fits |-> know.a * (know.b + JlShift) + mask < 2 ^ key.k,
                  alpha |-> (JlOrder - (mask % JlOrder)) % JlOrder])

\* sender_decrypt: the sender encrypts again with its nonce, and the proof is
\* about that ciphertext; a receiver that used another is refused.
JlFinish ==
    /\ scheme = "joye-libert" /\ stage = "decrypt"
    /\ IF JlEncrypt(know.key, know.b, know.r) = know.ct /\ fault = "none"
       THEN Step("decrypt", "done", [beta |-> JlDecrypt(know.key, know.ct2) % JlOrder])
       ELSE Refuse("decrypt")

\* Decryption reads every bit of a plaintext, and the shares add up to the
\* product as long as the message space holds it.
JlRight == Done("joye-libert") =>
    /\ \A m \in DOMAIN know.wide : know.wide[m] = m
    /\ know.fits => (know.alpha + know.beta) % JlOrder = (know.a * know.b) % JlOrder

-----------------------------------------------------------------------------
(* Class groups.  The key, and a sum of keys, is that of one setup.          *)

ClCompose(x, y) == Compose(know.cl.G, x, y)
ClExp(x, n) == Exp(know.cl.G, x, n)
Fm(x) == x % know.cl.M

ClBeginMta ==
    /\ stage = "start"
    /\ \/ scheme = "cl mta" /\ fault \in {"none", "share"}
       \/ scheme = "nim" /\ fault \in {"none", "role"}
       \/ scheme = "scaled decrypt" /\ fault = "none"
       \/ scheme = "mpmta" /\ fault \in {"none", "answer"}
    /\ \E cl \in {Setup(5, 1, 43, 2, FALSE)} :
          know \in [sk : {3}, cl : {cl}, pk : {PublicKey(cl, 3)}, x : MtaInputs, y : MtaInputs]

\* What all but the scaled decryption begin with: y encrypted.
ClEncrypt ==
    /\ stage = "start" /\ scheme \in {"cl mta", "nim", "mpmta"}
    /\ \E r \in IF scheme = "nim" THEN {0, 1, 3} ELSE {1} :
          Step("start", "compute", [r |-> r, ct |-> Encrypt(know.cl, know.pk, know.y, r)])

\* ClMtA: receiver_compute_with_check; the mask is a secret key modulo q, and
\* the check compares points.
ClCompute ==
    /\ scheme = "cl mta"
    /\ \E big \in {1, 7} :
          LET cl == know.cl
              mask == big % cl.q
              product == Randomised(cl, know.pk, Scal(cl, know.ct, know.x), 1)
          IN Step("compute", "check",
                 [alpha |-> ((cl.q - mask) % cl.q) + Shift("share", 1),
                  ct2 |-> Randomised(cl, know.pk, Add(cl, product, Encrypt(cl, know.pk, mask, 3)), 0)])

\* sender_decrypt and verify_check: G alpha + G beta = b (a G).
ClCheck ==
    /\ scheme = "cl mta" /\ stage = "check"
    /\ LET beta == Fm(Decrypt(know.cl, know.sk, know.ct2))
       IN IF Fm(know.alpha + beta) = Fm(know.x * know.y) THEN Step("check", "done", [beta |-> beta])
          ELSE Refuse("check")

\* extract_f_component: what is left of a form when the lift of its image in
\* the maximal order is divided out.
Label(cl, z) == Reduce(Lift(Reduce(ToMaximalOrder(z, cl.M, cl.Gk.D)), cl.M))

\* QFI::neg of a reduced form.
Negated(f) == IF f.a # f.b /\ f.a # f.c THEN Form(f.a, -f.b, f.c) ELSE f

ExtractF(cl, z, negate) ==
    DlogInF(cl, IF negate THEN ClCompose(Label(cl, z), Negated(z))
                ELSE ClCompose(z, Negated(Label(cl, z))))

\* Nim::encode_a, encode_b, decode_a, decode_b behind NimMtA.
Nim ==
    /\ scheme = "nim" /\ stage = "compute"
    /\ \E r \in {0, 1, 3} :
          LET cl == know.cl
              peA == ClCompose(PowerOfH(cl, r), PkPow(cl, know.pk, know.x))
          IN IF fault = "role" THEN Refuse("compute")
             ELSE Step("compute", "done",
                  [alpha |-> ExtractF(cl, MultiExp(cl.G, know.ct.c1, r, know.ct.c2, know.x), FALSE),
                   beta |-> ExtractF(cl, ClExp(peA, know.r), TRUE)])

\* ScaledDecryptMtA::encode and decode, or scaled_decrypt_local: two parties
\* with summands of both factors; the product of their F_i is f to the product.
Encoding(a, b, alpha, beta) ==
    Encrypt(know.cl, know.pk, a, alpha)
        @@ [u |-> ClCompose(PowerOfH(know.cl, beta), PkPow(know.cl, know.pk, b))]

\* compute_f_share
FShare(sum, b, beta, alpha) ==
    ClCompose(MultiExp(know.cl.G, sum.c2, b, sum.c1, beta), ClExp(sum.u, -alpha))

Summed(e) == [part \in {"c1", "c2", "u"} |-> ClCompose(e[1][part], e[2][part])]

ScaledEncode ==
    /\ scheme = "scaled decrypt"
    /\ \E alpha, beta \in {0, 1, 2} :
          Step("start", "open",
               [r |-> alpha, s |-> beta,
                sum |-> Summed([j \in 1 .. 2 |-> Encoding(<<know.x, 2>>[j], <<1, know.y>>[j],
                                                          <<alpha, 1>>[j], <<3, beta>>[j])])])

ScaledDecrypt ==
    /\ scheme = "scaled decrypt" /\ stage = "open"
    /\ Step("open", "done",
            [opened |-> DlogInF(know.cl, ClCompose(FShare(know.sum, 1, 3, know.r),
                                                   FShare(know.sum, know.y, know.s, 1)))])

\* mpmta_round1, mpmta_round2: one answer to each of two peers with the same
\* k* = k + e q, and one proof about their combination by the challenges.  A
\* faulty party masks its second answer with another number.
Answer(ct, kStar, mask) ==
    Cipher(ClExp(ct.c1, kStar), ClCompose(ClExp(ct.c2, kStar), PowerOfF(know.cl, mask)))

Answered(cts, kStar, betas) ==
    [cts |-> cts,
     answers |-> [j \in 1 .. 2 |->
         Answer(cts[j], kStar, IF j = 2 THEN Shift("answer", 1) - betas[j] ELSE -betas[j])]]

Mpmta ==
    /\ scheme = "mpmta" /\ stage = "compute"
    /\ \E e \in {0, 2}, betas \in [1 .. 2 -> {1, 4}], challenge \in [1 .. 2 -> {0, 2, 3}] :
          LET kStar == know.x + e * know.cl.q
          IN Step("compute", "verify",
                 [betas |-> betas, challenge |-> challenge, kStar |-> kStar]
                 @@ Answered(<<know.ct, Encrypt(know.cl, know.pk, 3, 2)>>, kStar, betas))

\* Mutant of MpmtaProven: the challenges are not applied to the answers.
MpmtaProven_First == ClExp(know.cts[1].c1, know.kStar) = know.answers[1].c1

\* mpmta_verify_round2: both sides of the answers, combined.
MpmtaProven ==
    LET Joined(cts, half) == MultiExp(know.cl.G, cts[1][half], know.challenge[1],
                                      cts[2][half], know.challenge[2])
        beta == know.challenge[1] * know.betas[1] + know.challenge[2] * know.betas[2]
    IN \A half \in {"c1", "c2"} :
           ClCompose(ClExp(Joined(know.cts, half), know.kStar),
                     IF half = "c1" THEN Identity(know.cl.G) ELSE PowerOfF(know.cl, -beta))
               = Joined(know.answers, half)

MpmtaFinish ==
    /\ scheme = "mpmta" /\ stage = "verify"
    /\ IF MpmtaProven
       THEN Step("verify", "done",
                 [deltas |-> [j \in 1 .. 2 |-> Fm(Decrypt(know.cl, know.sk, know.answers[j]) + know.betas[j])]])
       ELSE Refuse("verify")

\* The shares add up to the product, for every peer whose answer the challenge
\* reached.
ClRight ==
    /\ Done("cl mta") \/ Done("nim") => Fm(know.alpha + know.beta) = Fm(know.x * know.y)
    /\ Done("scaled decrypt") => know.opened = Fm((know.x + 2) * (1 + know.y))
    /\ Done("mpmta") =>
          /\ know.deltas[1] = Fm(know.x * know.y)
          /\ know.challenge[2] # 0 => know.deltas[2] = Fm(know.x * 3)
    /\ scheme \in {"cl mta", "nim", "mpmta"} /\ stage = "refused" => fault # "none"

MtaBegin == PaillierBegin \/ JlBegin \/ ClBeginMta
MtaNext == SenderEncrypt \/ ReceiverCompute \/ SenderDecrypt \/ JlSend \/ JlCompute \/ JlFinish
           \/ ClEncrypt \/ ClCompute \/ ClCheck \/ Nim \/ ScaledEncode \/ ScaledDecrypt \/ Mpmta \/ MpmtaFinish

SharesAddUp == PaillierRight /\ JlRight /\ ClRight
=============================================================================
