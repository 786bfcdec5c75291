------------------------------- MODULE HsmCl --------------------------------
(* tecdsa-class-group/cl.rs: the CL encryption over the class group of       *)
(* discriminant -p q^(2k+1), in numbers small enough to be computed.  Its    *)
(* cleartexts are the numbers modulo M = q^k, in the exponent of the form f; *)
(* the compact variant keeps the first half of a ciphertext in the maximal   *)
(* order.  The groups are those of BinaryForms.                              *)
EXTENDS BinaryForms

CONSTANTS Setups,       \* [q, k, p, distance, compact]; p = 0: chosen for q
          Samples       \* what a cleartext or the randomness may be

-----------------------------------------------------------------------------
(* Parameters.                                                               *)

IsPrime(n) == n > 1 /\ \A d \in 2 .. n - 1 : d * d > n \/ n % d # 0

AuxPrime(p, q) == (p * q) % 4 = 3 /\ Kronecker(p, q) = -1

\* with_random_p for a discriminant no longer than q: smallest_aux_prime.
ChosenP(q) ==
    IF q % 4 = 3 THEN 1
    ELSE CHOOSE p \in 3 .. 100 : /\ IsPrime(p) /\ AuxPrime(p, q)
                                 /\ \A r \in 3 .. p - 1 : ~(IsPrime(r) /\ AuxPrime(r, q))

\* The checks that `new` makes of its parameters.
ParametersFit(q, k, p) ==
    /\ k > 0 /\ Odd(q) /\ IsPrime(q)
    /\ p = 1 \/ (Odd(p) /\ IsPrime(p))
    /\ (p * q) % 4 = 3
    /\ p = 1 \/ Kronecker(p, q) = -1

\* build_h: the square of the smallest split prime's form, to the power M.
BuildH(G, M, q, p) ==
    LET Splits(l) == IsPrime(l) /\ l # q /\ l # p /\ Kronecker(G.D, l) = 1
        l == CHOOSE l \in 2 .. 100 : Splits(l) /\ \A j \in 2 .. l - 1 : ~Splits(j)
    IN Exp(G, Square(G, PrimeForm(G, l)), M)

\* classnumber_upper_bound: bits * sqrt |D| * ln 2 / pi, rounded up.
ClassNumberBound(Dk) ==
    LET root == CHOOSE s \in 1 .. 60 : s * s >= -Dk /\ (s - 1) * (s - 1) < -Dk
    IN (Bits(-Dk) * root * 22064 + 99999) \div 100000

\* CL_HSMqk::new
Setup(q, k, p, distance, compact) ==
    LET Dk == -p * q
        M == q ^ k
        G == GroupOf(M * M * Dk)
        Gk == GroupOf(Dk)
        h == BuildH(G, M, q, p)
        bound == ClassNumberBound(Dk) * 2 ^ (IF distance > 2 THEN distance - 2 ELSE 0)
        bits == Bits(bound) + Bits(q) + 2
    IN [q |-> q, k |-> k, p |-> p, M |-> M, G |-> G, Gk |-> Gk, h |-> h, bound |-> bound,
        bits |-> bits, comb |-> Comb(G, h, bits), compact |-> compact,
        gamma |-> Exp(Gk, Reduce(ToMaximalOrder(h, M, Dk)), M),
        large |-> M * M > (1 - Dk) \div 4]

-----------------------------------------------------------------------------
(* The subgroup of f, where discrete logarithms are easy.                    *)

\* lucas_uv with P = 1: <<U_m, V_m>> modulo n, by doubling.
RECURSIVE LucasAt(_, _, _, _)
LucasAt(m, Qp, D, n) ==
    IF m = 1 THEN [u |-> 1, v |-> 1, q |-> Qp % n]
    ELSE LET r == LucasAt(m \div 2, Qp, D, n)
             u == (r.u * r.v) % n
             v == (r.v * r.v - 2 * r.q) % n
             Half(x) == IF Odd(x) THEN (x + n) \div 2 ELSE x \div 2
         IN IF Odd(m) THEN [u |-> Half((v + u) % n), v |-> Half((v + (D % n) * u) % n),
                            q |-> (r.q * r.q * (Qp % n)) % n]
            ELSE [u |-> u, v |-> v, q |-> (r.q * r.q) % n]

RECURSIVE Val(_, _)
Val(x, q) == IF x = 0 \/ x % q # 0 THEN 0 ELSE 1 + Val(Exact(x, q), q)

\* ring_param_from_exponent, form_from_ring_param, power_of_f.
LucasRatio(r, M) == (r.u * InvertMod(r.v, M)) % M
RingParam(cl, m) == LucasRatio(LucasAt(m, (1 - cl.Gk.D) \div 4, cl.Gk.D, cl.M), cl.M)

\* The odd representative of u in (-qj, qj].
Centered(u, qj) == LET odd == IF Odd(u) THEN u ELSE u + qj
                   IN MiddleOf(qj, odd)

ParamForm(cl, qv, qj, u) == Reduce(Form(qj * qj, u * qj, (u * u - qv * qv * cl.Gk.D) \div 4))
FormOfVal(cl, t, qv, qj) == ParamForm(cl, qv, qj, Centered(InvertMod(t \div qv, qj), qj))
FormOfParam(cl, t) ==
    LET v == Val(t, cl.q)
    IN IF t = 0 THEN Identity(cl.G) ELSE FormOfVal(cl, t, cl.q ^ v, cl.q ^ (cl.k - v))

PowerOfF(cl, m) == IF m % cl.M = 0 THEN Identity(cl.G)
                   ELSE FormOfParam(cl, RingParam(cl, m % cl.M))

\* reduce_track_generator: the numerator <<e, f>> of the generator gathered on
\* the way to the reduced form; modulo q, where D_K is zero, or exactly.
RECURSIVE Track(_, _, _), TrackExact(_, _, _)
Track(g, x, q) ==
    IF g.a <= g.c THEN x
    ELSE Track(Rho(g), <<(x[1] * g.b) % q, (x[1] + x[2] * g.b) % q>>, q)
TrackExact(g, x, Dk) ==
    IF g.a <= g.c THEN x
    ELSE TrackExact(Rho(g), <<x[1] * g.b + x[2] * Dk, x[1] + x[2] * g.b>>, Dk)

\* dlog_in_F_large_k1, on the form g in the maximal order.
Slope(q, x) == ((-x[2]) * InvertMod(x[1], q)) % q
SlopeExact(q, y, qv) == Slope(q, <<Exact(y[1], qv), Exact(y[2], qv)>>)
SlopeBeyond(q, y) == SlopeExact(q, y, q ^ Val(y[1], q))
LargeDlog(q, g, Dk) ==
    LET x == Track(g, <<1, 0>>, q)
    IN IF x[1] # 0 THEN Slope(q, x) ELSE SlopeBeyond(q, TrackExact(g, <<1, 0>>, Dk))

\* The ring Z[sqrt D_K] modulo n: ring_mul, ring_inv, ring_pow.
RingMul(x, y, Dk, n) == <<(x[1] * y[1] + x[2] * y[2] * (Dk % n)) % n, (x[1] * y[2] + x[2] * y[1]) % n>>
RingInv(x, Dk, n) ==
    LET i == InvertMod(x[1] * x[1] - x[2] * x[2] * (Dk % n), n)
    IN <<(x[1] * i) % n, (-(i * x[2])) % n>>
RECURSIVE RingPow(_, _, _, _)
RingPow(x, e, Dk, n) ==
    IF e = 0 THEN <<1, 0>>
    ELSE LET r == RingPow(RingMul(x, x, Dk, n), e \div 2, Dk, n)
         IN IF Odd(e) THEN RingMul(r, x, Dk, n) ELSE r

\* The digits of dlog_in_F_general, from the lowest.
RECURSIVE Digits(_, _, _, _)
Digits(cl, cur, alpha, qi) ==
    IF qi = cl.M THEN 0
    ELSE LET Dk == cl.Gk.D
             t == (cur[2] * InvertMod(cur[1], cl.M)) % cl.M
             digit == (t \div qi) % cl.q
             next == RingMul(cur, RingInv(RingPow(alpha, digit, Dk, cl.M), Dk, cl.M), Dk, cl.M)
         IN digit * qi + Digits(cl, next, RingPow(alpha, cl.q, Dk, cl.M), qi * cl.q)

GeneralDlog(cl, form) ==
    LET qj == cl.q ^ (Val(form.a, cl.q) \div 2)
        t == ((cl.M \div qj) * InvertMod(Exact(form.b, qj), qj)) % cl.M
    IN Digits(cl, <<1, t>>, <<1, 1>>, 1)

\* dlog_in_F; more than one digit with large messages is an assertion.
DlogInF(cl, form) ==
    IF form.a = 1 THEN 0
    ELSE IF cl.large
         THEN LargeDlog(cl.q, Normalize(ToMaximalOrder(form, cl.q, cl.Gk.D)), cl.Gk.D)
    ELSE IF cl.k = 1 THEN InvertMod(Exact(form.b, cl.q), cl.q)
    ELSE GeneralDlog(cl, form)

-----------------------------------------------------------------------------
(* Encryption.                                                               *)

\* A power by the comb of the base, where there is one that reaches n.
PowerBy(G, comb, base, combed, n) ==
    IF combed /\ Bits(Abs(n)) <= MaxBits(comb) THEN ExpComb(G, comb, n) ELSE Exp(G, base, n)

InvertedIf(negative, f) == IF negative THEN Inverted(f) ELSE f

\* power_of_h
PowerOfH(cl, n) == InvertedIf(n < 0, PowerBy(cl.G, cl.comb, cl.h, TRUE, Abs(n)))

\* Mutant of Psi: not raised to the power M.
Psi_NotRaised(cl, omega) == Reduce(Lift(omega, cl.M))

\* psi: to the order of conductor M, and to the power M, which forgets what the
\* lift chose.
Psi(cl, omega) == Exp(cl.G, Reduce(Lift(omega, cl.M)), cl.M)

C1Group(cl) == IF cl.compact THEN cl.Gk ELSE cl.G
EncC1(cl, r) == PowerBy(C1Group(cl), cl.comb, IF cl.compact THEN cl.gamma ELSE cl.h, ~cl.compact, r)
EncMask(cl, pk, r) == IF cl.compact THEN Psi(cl, Exp(cl.Gk, pk.elt, r))
                      ELSE ExpComb(cl.G, pk.comb, r)

\* PublicKey::from_secret and its comb.
PublicKey(cl, sk) ==
    LET elt == EncC1(cl, sk)
    IN [elt |-> elt, comb |-> IF cl.compact THEN cl.comb ELSE Comb(cl.G, elt, cl.bits)]

\* pk_pow
PkPow(cl, pk, e) == PowerBy(cl.G, pk.comb, pk.elt, ~cl.compact, e)

Cipher(c1, c2) == [c1 |-> c1, c2 |-> c2]

Encrypt(cl, pk, m, r) ==
    Cipher(EncC1(cl, r), Compose(cl.G, PowerOfF(cl, m), EncMask(cl, pk, r)))

\* Made random again, as every operation on ciphertexts ends.
Randomised(cl, pk, c, r) ==
    Cipher(Compose(C1Group(cl), c.c1, EncC1(cl, r)), Compose(cl.G, c.c2, EncMask(cl, pk, r)))

\* What add_ciphertexts, scal_ciphertexts and addscal_ciphertexts (ca + s cb)
\* make random.
Add(cl, ca, cb) == Cipher(Compose(C1Group(cl), ca.c1, cb.c1), Compose(cl.G, ca.c2, cb.c2))
Scal(cl, c, s) == Cipher(Exp(C1Group(cl), c.c1, s), Exp(cl.G, c.c2, s))
AddScal(cl, ca, cb, s) == Add(cl, ca, Scal(cl, cb, s))

Unmasked(cl, c2, power) ==
    Compose(cl.G, c2, Inverted(IF cl.compact THEN Psi(cl, power) ELSE power))
Decrypt(cl, sk, c) == DlogInF(cl, Unmasked(cl, c.c2, Exp(C1Group(cl), c.c1, sk)))

\* genus: the characters of a represented value coprime to p q.
Genus(cl, f) ==
    LET Coprime(v) == Gcd(v, cl.p * cl.q) = 1
        v == IF Coprime(f.a) THEN f.a ELSE IF Coprime(f.c) THEN f.c ELSE f.a + f.b + f.c
    IN <<IF cl.p = 1 THEN 1 ELSE Kronecker(v, cl.p), Kronecker(v, cl.q)>>

-----------------------------------------------------------------------------
(* A setup, a key, two ciphertexts and what is computed on them.             *)

ClBegin ==
    /\ scheme = "cl" /\ stage = "setup" /\ fault = "none"
    /\ know \in [request : Setups]

SetUp ==
    /\ scheme = "cl" /\ stage = "setup"
    /\ LET s == know.request
           p == IF s.p = 0 THEN ChosenP(s.q) ELSE s.p
       IN IF ParametersFit(s.q, s.k, p)
          THEN Step("setup", "keys", [cl |-> Setup(s.q, s.k, p, s.distance, s.compact)])
          ELSE Refuse("setup")

\* keygen_secret draws below the bound; SecretKey::from_mpz checks the range.
KeyGen ==
    /\ scheme = "cl" /\ stage = "keys"
    /\ \E sk \in {0, 1, 3, know.cl.bound - 1} :
          IF sk < know.cl.bound
          THEN Step("keys", "encrypt", [sk |-> sk, pk |-> PublicKey(know.cl, sk)])
          ELSE Refuse("keys")

\* Cleartext::from_mpz checks the range.
EncryptTwo ==
    /\ scheme = "cl" /\ stage = "encrypt"
    /\ \E m, m2 \in Samples \cup {know.cl.M - 1} :
          IF m < know.cl.M /\ m2 < know.cl.M
          THEN Step("encrypt", "combine",
                   [m |-> m, m2 |-> m2,
                    cts |-> [j \in 1 .. 2 |-> Encrypt(know.cl, know.pk, <<m, m2>>[j], <<know.cl.bound - 1, m>>[j])]])
          ELSE Refuse("encrypt")

RandomiseAll(cl, pk, plain, r) == [c \in DOMAIN plain |-> Randomised(cl, pk, plain[c], r)]
DecryptAll(cl, sk, cts) == [c \in DOMAIN cts |-> Decrypt(cl, sk, cts[c])]
Combined(cl, ct, ct2, s) ==
    [sum |-> Add(cl, ct, ct2), multiple |-> Scal(cl, ct, s), mixed |-> AddScal(cl, ct, ct2, s)]

Combine ==
    /\ scheme = "cl" /\ stage = "combine"
    /\ \E s \in {-2, 0, 3} :
          Step("combine", "done",
               [s |-> s,
                opened |-> DecryptAll(know.cl, know.sk,
                    [none |-> know.cts[1]] @@ RandomiseAll(know.cl, know.pk,
                        Combined(know.cl, know.cts[1], know.cts[2], s), Abs(s))),
                genus |-> Genus(know.cl, know.cts[1].c2), power |-> PkPow(know.cl, know.pk, s)])

Begin == FormsStart \/ ClBegin
Next == FormsNext \/ SetUp \/ KeyGen \/ EncryptTwo \/ Combine

\* Decryption gives back the cleartext, and what was computed on ciphertexts is
\* what would have been computed on cleartexts; ciphertexts are in the principal
\* genus; pk_pow computes powers of the key, but for negative exponents, which it
\* takes as it takes zero.
KeysDecrypt == Done("cl") =>
    LET M == know.cl.M
    IN /\ know.opened = [none |-> know.m, sum |-> (know.m + know.m2) % M,
                          multiple |-> (know.m * know.s) % M,
                          mixed |-> (know.m + know.s * know.m2) % M]
       /\ know.genus = <<1, 1>>
       /\ know.s >= 0 /\ ~know.cl.compact => know.power = Exp(know.cl.G, know.pk.elt, know.s)
=============================================================================
