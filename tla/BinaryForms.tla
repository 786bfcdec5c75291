----------------------------- MODULE BinaryForms -----------------------------
(* tecdsa-class-group/class_group: binary quadratic forms (qfi.rs), the      *)
(* partial reductions behind their composition (hgcd.rs, nt.rs) and the ways *)
(* to raise a form to a power.  A group is its discriminant with the bound L *)
(* at which NUCOMP stops; a form is [a, b, c].                               *)
(*                                                                           *)
(* The code works on integers of thousands of bits through 62-bit heads.     *)
(* Here the widths are HeadBits, HgcdBits and HgcdGap, so small that numbers *)
(* of a few bits go through every branch.                                    *)
EXTENDS Exchange, Sequences

CONSTANTS Discs,        \* discriminants
          RaisedTo,     \* what a form is raised to
          Operands,     \* the largest operand of a partial reduction
          HeadBits,     \* bits of an operand that a Lehmer window looks at
          HgcdBits,     \* HGCD_THRESHOLD_BITS
          HgcdGap,      \* how far above the target hgcd is worth its while
          CombBlocks,   \* COMB_BLOCKS
          NafWidth      \* naf_width of the exponents used

-----------------------------------------------------------------------------
(* nt.rs and the integers.                                                   *)

Abs(x) == IF x < 0 THEN -x ELSE x
Odd(x) == x % 2 = 1

\* The quotient of an exact division, of any sign.
Exact(x, d) == IF d < 0 THEN (-x) \div (-d) ELSE x \div d
Divides(d, x) == d # 0 /\ x % Abs(d) = 0

RECURSIVE Bits(_)
Bits(x) == IF x = 0 THEN 0 ELSE 1 + Bits(x \div 2)
BitAt(x, i) == (x \div 2 ^ i) % 2

\* gcdext: [g, u, v] with g = u a + v b and g >= 0.
RECURSIVE GcdNat(_, _)
GcdNat(a, b) ==
    IF b = 0 THEN [g |-> a, u |-> 1, v |-> 0]
    ELSE LET r == GcdNat(b, a % b)
         IN [g |-> r.g, u |-> r.v, v |-> r.u - (a \div b) * r.v]
BySigns(r, a, b) ==
    [g |-> r.g, u |-> IF a < 0 THEN -r.u ELSE r.u, v |-> IF b < 0 THEN -r.v ELSE r.v]
GcdExt(a, b) == BySigns(GcdNat(Abs(a), Abs(b)), a, b)
Gcd(a, b) == GcdExt(a, b).g
InvertMod(x, n) == GcdExt(x % n, n).u % n

RECURSIVE PowMod(_, _, _)
PowMod(x, e, n) ==
    IF e = 0 THEN 1 % n
    ELSE LET h == PowMod(x, e \div 2, n)
         IN IF Odd(e) THEN (((h * h) % n) * x) % n ELSE (h * h) % n

\* The Kronecker symbol of x over a prime.
Kronecker(x, l) ==
    IF l = 2 THEN IF x % 8 = 1 THEN 1 ELSE IF Odd(x) THEN -1 ELSE 0
    ELSE IF x % l = 0 THEN 0 ELSE IF PowMod(x % l, (l - 1) \div 2, l) = 1 THEN 1 ELSE -1

\* sqrt_mod_prime for p = 3 mod 4, and Tonelli-Shanks otherwise.
RECURSIVE Squarings(_, _, _)
Squarings(x, n, p) == IF n = 0 THEN x ELSE Squarings((x * x) % p, n - 1, p)

\* The loop on (m, c, t, r); r is the root when t is 1.
RECURSIVE TonelliLoop(_, _, _, _, _)
TonelliLoop(m, c, t, r, p) ==
    IF t = 1 THEN r
    ELSE LET i == CHOOSE i \in 1 .. m - 1 :
                     /\ Squarings(t, i, p) = 1
                     /\ \A j \in 1 .. i - 1 : Squarings(t, j, p) # 1
             b == Squarings(c, m - i - 1, p)
         IN TonelliLoop(i, (b * b) % p, (t * b * b) % p, (r * b) % p, p)

SqrtModPrime(x, p) ==
    LET a == x % p
    IN IF a = 0 THEN 0
       ELSE IF p % 4 = 3 THEN PowMod(a, (p + 1) \div 4, p)
       ELSE LET s == CHOOSE s \in 1 .. Bits(p) : Divides(2 ^ s, p - 1) /\ Odd((p - 1) \div 2 ^ s)
                q == (p - 1) \div 2 ^ s
                z == CHOOSE z \in 2 .. p - 1 : Kronecker(z, p) = -1
                              /\ \A y \in 2 .. z - 1 : Kronecker(y, p) # -1
            IN TonelliLoop(s, PowMod(z, q, p), PowMod(a, q, p), PowMod(a, (q + 1) \div 2, p), p)

-----------------------------------------------------------------------------
(* hgcd.rs.  A matrix <<m0, m1, m2, m3>> acts on the column (u; v).          *)

Id == <<1, 0, 0, 1>>
MatMul(a, b) == <<a[1] * b[1] + a[2] * b[3], a[1] * b[2] + a[2] * b[4],
                  a[3] * b[1] + a[4] * b[3], a[3] * b[2] + a[4] * b[4]>>
Det(m) == m[1] * m[4] - m[2] * m[3]
Apply(m, p) == <<m[1] * p[1] + m[2] * p[2], m[3] * p[1] + m[4] * p[2]>>
Quotient(q) == <<0, 1, 1, -q>>

\* Euclid's steps in a machine word until v is at most `stop`.
RECURSIVE WordSteps(_, _, _, _)
WordSteps(u, v, stop, m) ==
    IF v <= stop \/ v = 0 THEN m
    ELSE WordSteps(v, u % v, stop, MatMul(Quotient(u \div v), m))

\* The steps that the heads of the operands determine, whatever follows them.
RECURSIVE HeadSteps(_, _, _), HeadStep(_, _, _, _)

HeadStep(u, v, m, q) ==
    IF q # (u + m[2]) \div (v + m[4]) THEN m
    ELSE HeadSteps(v, u - q * v, MatMul(Quotient(q), m))
HeadSteps(u, v, m) ==
    IF v + m[3] <= 0 \/ v + m[4] <= 0 THEN m
    ELSE HeadStep(u, v, m, (u + m[1]) \div (v + m[3]))

\* One window of Lehmer's algorithm, or one full step when the heads give none.
OrDivision(m, u, v) == IF m = Id THEN Quotient(u \div v) ELSE m
Window(u, v) ==
    LET shift == Bits(u) - HeadBits
    IN OrDivision(HeadSteps(u \div 2 ^ shift, v \div 2 ^ shift, Id), u, v)

\* lehmer_reduce_bits: until v has at most `target` bits.
RECURSIVE ReduceBits(_, _, _), BitsAfter(_, _, _)

\* Mutant of ReduceBits: one step is left out when a power of two is reached.
ReduceBits_PowerOfTwo(u, v, target) ==
    IF v = 0 \/ Bits(v) <= target THEN Id
    ELSE IF Bits(u) <= HeadBits THEN WordSteps(u, v, 2 ^ target, Id)
    ELSE LET m == Window(u, v) IN BitsAfter(m, Apply(m, <<u, v>>), target)

BitsAfter(m, p, target) == MatMul(ReduceBits(p[1], p[2], target), m)
ReduceBits(u, v, target) ==
    IF v = 0 \/ Bits(v) <= target THEN Id
    ELSE IF Bits(u) <= HeadBits THEN WordSteps(u, v, 2 ^ target - 1, Id)
    ELSE LET m == Window(u, v) IN BitsAfter(m, Apply(m, <<u, v>>), target)

\* Half of hgcd: the matrix of the high parts, when it is one for the operands.
Legal(p) == p[1] > p[2] /\ p[2] >= 0

RECURSIVE Hgcd(_, _)
Hgcd(u, v) ==
    LET n == Bits(u)
        target == (n + 1) \div 2
        Stop(p) == p[2] = 0 \/ Bits(p[2]) <= target
    IN IF Stop(<<u, v>>) THEN Id
       ELSE IF n <= HgcdBits THEN ReduceBits(u, v, target)
       ELSE LET s == n \div 2
                r == Hgcd(u \div 2 ^ s, v \div 2 ^ s)
                p == Apply(r, <<u, v>>)
                step == Quotient(p[1] \div p[2])
                p2 == Apply(step, p)
                m == MatMul(step, r)
                low == 2 * target - Bits(p2[1])
                s2 == IF low > 0 THEN low ELSE 0
                r2 == Hgcd(p2[1] \div 2 ^ s2, p2[2] \div 2 ^ s2)
            IN IF ~Legal(p) THEN ReduceBits(u, v, target)
               ELSE IF Stop(p) THEN r
               ELSE IF Stop(p2) THEN m
               ELSE IF Legal(Apply(r2, p2)) THEN MatMul(r2, m)
               ELSE MatMul(ReduceBits(p2[1], p2[2], target), m)

\* partial_reduce_hgcd
RECURSIVE HalfReduce(_, _, _)
HalfReduce(u, v, l) ==
    IF v = 0 \/ Bits(v) <= Bits(l) THEN Id
    ELSE LET m == Hgcd(u, v)
             p == Apply(m, <<u, v>>)
         IN IF Bits(u) <= HgcdBits \/ Bits(u) - Bits(l) < HgcdGap \/ m = Id
            THEN ReduceBits(u, v, Bits(l))
            ELSE MatMul(HalfReduce(p[1], p[2], l), m)

\* partial_reduce_lehmer: until v is at most l.
RECURSIVE LehmerReduce(_, _, _), LehmerAfter(_, _, _)
LehmerAfter(m, p, l) == MatMul(LehmerReduce(p[1], p[2], l), m)
LehmerReduce(u, v, l) ==
    IF v <= l \/ v = 0 THEN Id
    ELSE IF Bits(u) <= HeadBits THEN WordSteps(u, v, l, Id)
    ELSE LET m == Window(u, v) IN LehmerAfter(m, Apply(m, <<u, v>>), l)
-----------------------------------------------------------------------------
(* Forms and their classes.                                                  *)

Form(a, b, c) == [a |-> a, b |-> b, c |-> c]
Discriminant(f) == f.b * f.b - 4 * f.a * f.c

\* ClassGroup::new: L is the fourth root of |D| / 4.
GroupOf(D) == [D |-> D, L |-> CHOOSE x \in 0 .. 40 : x ^ 4 <= Abs(D) \div 4 /\ (x + 1) ^ 4 > Abs(D) \div 4]

Identity(G) == IF G.D % 4 = 1 THEN Form(1, 1, (1 - G.D) \div 4) ELSE Form(1, 0, -G.D \div 4)

\* normalize and rho, the steps of reduce.
Normalize(f) ==
    LET r == (f.a - f.b) \div (2 * f.a)
    IN Form(f.a, f.b + 2 * f.a * r, f.c + r * (f.b + f.a * r))
Rho(f) ==
    LET s == (f.c + f.b) \div (2 * f.c)
    IN Form(f.c, 2 * s * f.c - f.b, f.a + s * (s * f.c - f.b))

RECURSIVE Rhos(_)
Rhos(f) == IF f.a > f.c THEN Rhos(Rho(f)) ELSE f
WithSign(r) == IF r.a = r.c /\ r.b < 0 THEN Form(r.a, -r.b, r.c) ELSE r
Reduce(f) == WithSign(Rhos(Normalize(f)))

Inverted(f) == Reduce(Form(f.a, -f.b, f.c))

\* The form with these first coefficients.
FormFrom(a, b, D) == Form(a, b, (b * b - D) \div (4 * a))

\* The form of a prime that splits.
PrimeForm(G, l) ==
    LET r == SqrtModPrime(G.D, l)
        b == IF Odd(r) THEN r ELSE r + l
    IN Reduce(IF l = 2 THEN Form(2, 1, (1 - G.D) \div 8) ELSE FormFrom(l, b, G.D))

\* primitive_coprime_to: an equivalent form whose first coefficient is coprime to l.
CoprimeTo(f, l) ==
    IF Gcd(f.a, l) = 1 THEN f
    ELSE IF Gcd(f.c, l) = 1 THEN Form(f.c, -f.b, f.a)
    ELSE Form(f.a + f.b + f.c, -f.b - 2 * f.a, f.a)

\* From the maximal order to the order of conductor l, and back.
Lifted(g, l) == Form(g.a, g.b * l, g.c * l * l)
Lift(f, l) == Lifted(CoprimeTo(f, l), l)

MiddleOf(a, b0) == IF b0 > a THEN b0 - 2 * a ELSE b0
Descended(g, e, Dk) == FormFrom(g.a, MiddleOf(g.a, (g.b * e.u + g.a * e.v) % (2 * g.a)), Dk)
DescendedBy(g, l, Dk) == Descended(g, GcdExt(l, g.a), Dk)
ToMaximalOrder(f, l, Dk) == DescendedBy(CoprimeTo(f, l), l, Dk)

-----------------------------------------------------------------------------
(* Composition.                                                              *)

\* solve_lc: x0 and the modulus of a x = b (mod m); callers know it is solvable.
SolveLc(a, b, m) ==
    LET e == GcdExt(a, m)
    IN <<((b \div e.g) * e.u) % (m \div e.g), m \div e.g>>

\* With w the gcd of a1, a2 and g = (b1 + b2) / 2; s = a1 / w, t = a2 / w,
\* u = g / w; k solves the congruences.
DirichletForm(w, s, t, u, h, rhs, k) ==
    LET l == Exact(k * t - h, s)
        m == Exact(t * u * k - rhs, s * t)
    IN Reduce(Form(s * t, w * u - k * t - l * s, k * l - w * m))

DirichletSolve(w, s, t, u, h, rhs, mu) ==
    DirichletForm(w, s, t, u, h, rhs, mu[1] + mu[2] * SolveLc(t * mu[2], h - t * mu[1], s)[1])

DirichletOver(f1, w, s, t, u, h) ==
    LET rhs == h * u + s * f1.c
    IN DirichletSolve(w, s, t, u, h, rhs, SolveLc(t * u, rhs, s * t))

DirichletBy(f1, f2, g, w) ==
    DirichletOver(f1, w, f1.a \div w, f2.a \div w, Exact(g, w), (f2.b - f1.b) \div 2)

Dirichlet(f1, f2) ==
    LET g == (f1.b + f2.b) \div 2
    IN DirichletBy(f1, f2, g, Gcd(Gcd(f1.a, f2.a), g))

\* partial_reduce: the reduced pair and the cofactors of its lower row, the
\* signs turned when the number of steps is odd.
TurnedRow(m, p) == [bx |-> p[2], by |-> Det(m) * p[1], y |-> Det(m) * m[2], x |-> m[4]]
ReducedBy(m, bx, by) == TurnedRow(m, Apply(m, <<by, bx>>))
PartialReduce(G, bx, by) == ReducedBy(LehmerReduce(by, bx, G.L), bx, by)

None == [a |-> 0, b |-> 0, c |-> 0]

\* nucomp_finish: the product, or None where the reduction r has degenerated.
NucompLast(r, by, cx, dx, ay, ax, nc, nd) ==
    LET u3 == by * Exact(nc, r.bx) - ay * Exact(nd, ax)
    IN IF ~Divides(r.bx, nc) \/ ~Divides(ax, nd) \/ u3 = 0 THEN None
       ELSE Reduce(Form(u3, nd + dx * ay - nc - by * cx, r.bx * cx - ax * dx))

NucompRows(r, by, cx, dx, ay, ax, m, ss) ==
    NucompLast(r, by, cx, dx, ay, ax, by * cx + m, dx * ay + ss)

\* Mutant of Nucomp: the sign of an odd number of steps is forgotten.
Nucomp_Unsigned(g, by0, m, ss, r, cxs, dxs) ==
    NucompRows(r, Abs(r.by), Exact(cxs, by0), Exact(dxs, by0), g * r.y, g * r.x, m, ss)

Nucomp(g, by0, m, ss, r, cxs, dxs) ==
    IF r.bx = 0 \/ r.x = 0 \/ ~Divides(by0, cxs) \/ ~Divides(by0, dxs) THEN None
    ELSE NucompRows(r, r.by, Exact(cxs, by0), Exact(dxs, by0), g * r.y, g * r.x, m, ss)

NucompBy(f1, f2, g, by0, m, ss, r) ==
    Nucomp(g, by0, m, ss, r, r.bx * (f2.a \div g) - m * r.x, r.bx * Exact(ss, g) - f2.c * r.x)

\* compose, f1 the one with the larger first coefficient: NUCOMP with the
\* Bezout coefficients e of the first coefficients, and e2 of their gcd with ss;
\* where it degenerates, Dirichlet's composition.
OrDirichlet(r, f1, f2) == IF r = None THEN Dirichlet(f1, f2) ELSE r

ComposeFrom(G, f1, f2, g, bx, m, ss) ==
    LET by == f1.a \div g
    IN OrDirichlet(IF by = 1 THEN None
                   ELSE NucompBy(f1, f2, g, by, m, ss, PartialReduce(G, bx % by, by)), f1, f2)

Start(f1, f2, e, e2, hh, m) ==
    e.u * Exact(m, hh)
    + ((e2.v * (e.u * (f1.c % hh) + e.v * (f2.c % hh))) % hh) * (f1.a \div hh)

ComposeWith(G, f1, f2, e, e2, m, ss) ==
    LET simple == ss % e.g = 0
    IN ComposeFrom(G, f1, f2, IF simple THEN e.g ELSE e2.g,
                   IF simple THEN m * e.u ELSE Start(f1, f2, e, e2, e.g \div e2.g, m), m, ss)

ComposeOrdered(G, f1, f2, e, m, ss) == ComposeWith(G, f1, f2, e, GcdExt(e.g, ss), m, ss)

Compose(G, x, y) ==
    LET f1 == IF x.a >= y.a THEN x ELSE y
        f2 == IF x.a >= y.a THEN y ELSE x
    IN ComposeOrdered(G, f1, f2, GcdExt(f2.a, f1.a), (f2.b - f1.b) \div 2, (f1.b + f2.b) \div 2)

\* nudupl, on the partial reduction r of (e.u c mod by0, by0).
NuduplForm(f, r, ax, ay, dx, dy) ==
    IF r.by * r.by = ay * dy THEN None
    ELSE Reduce(Form(r.by * r.by - ay * dy, 2 * (dx * ay - r.bx * r.by) + f.b, r.bx * r.bx - ax * dx))

NuduplRows(f, r, ax, ay, dx) ==
    IF ~Divides(ax, dx * ay + f.b) THEN None
    ELSE NuduplForm(f, r, ax, ay, dx, Exact(dx * ay + f.b, ax))

Nudupl(f, e, by0, r) ==
    LET twice == r.bx * Exact(f.b, e.g) - f.c * r.x
    IN IF r.bx = 0 \/ r.x = 0 \/ ~Divides(by0, twice) THEN None
       ELSE NuduplRows(f, r, e.g * r.x, e.g * r.y, Exact(twice, by0))

\* square: NUDUPL, else by the inverse of b, else a composition.
ByInverse(f, mu) ==
    Reduce(Form(f.a * f.a, f.b - 2 * mu * f.a, mu * mu - Exact(f.b * mu - f.c, f.a)))

SquareOr(f, e, r) ==
    IF r # None THEN r
    ELSE IF e.g # 1 THEN Dirichlet(f, f)
    ELSE ByInverse(f, (f.c * e.u) % f.a)

SquareWith(G, f, e) ==
    LET by0 == f.a \div e.g
    IN SquareOr(f, e, IF by0 = 1 THEN None
                      ELSE Nudupl(f, e, by0, PartialReduce(G, (e.u * f.c) % by0, by0)))

Square(G, f) == SquareWith(G, f, GcdExt(f.b, f.a))

-----------------------------------------------------------------------------
(* Powers.                                                                   *)

\* wnaf: the signed odd digits of e, lowest first.
RECURSIVE Wnaf(_)
Wnaf(e) ==
    LET r == e % 2 ^ NafWidth
        d == IF ~Odd(e) THEN 0 ELSE IF r >= 2 ^ (NafWidth - 1) THEN r - 2 ^ NafWidth ELSE r
    IN IF e = 0 THEN <<>> ELSE <<d>> \o Wnaf((e - d) \div 2)

\* The odd powers of a form that the digits call for.
RECURSIVE Odds(_, _, _, _)
Odds(G, f, f2, n) ==
    IF n = 1 THEN <<f>>
    ELSE LET rest == Odds(G, f, f2, n - 1) IN Append(rest, Compose(G, rest[n - 1], f2))
OddPowers(G, f) == Odds(G, f, Square(G, f), 2 ^ (NafWidth - 2))

Times(G, x, odds, d) ==
    IF d = 0 THEN x
    ELSE Compose(G, x, IF d > 0 THEN odds[(d + 1) \div 2] ELSE Inverted(odds[(1 - d) \div 2]))

\* The squaring chain that exp_window and multiexp share: for each position
\* from the highest, square and multiply in the digit of every base.
RECURSIVE Chain(_, _, _, _), Column(_, _, _, _, _, _)
Column(G, x, odds, nafs, pos, i) ==
    IF i > Len(nafs) THEN x
    ELSE Column(G, IF pos > Len(nafs[i]) THEN x ELSE Times(G, x, odds[i], nafs[i][pos]),
                odds, nafs, pos, i + 1)
Chain(G, odds, nafs, pos) ==
    IF \A i \in DOMAIN nafs : pos > Len(nafs[i]) THEN Identity(G)
    ELSE Column(G, Square(G, Chain(G, odds, nafs, pos + 1)), odds, nafs, pos, 1)

\* exp: of any sign, by exp_window.
Exp(G, f, n) ==
    LET base == IF n < 0 THEN Inverted(f) ELSE f
    IN IF n = 0 THEN Identity(G) ELSE Chain(G, <<OddPowers(G, base)>>, <<Wnaf(Abs(n))>>, 1)

\* multiexp of two bases.
MultiExp(G, f1, n1, f2, n2) ==
    LET Base(f, n) == IF n < 0 THEN Inverted(f) ELSE f
    IN Chain(G, <<OddPowers(G, Base(f1, n1)), OddPowers(G, Base(f2, n2))>>,
             <<Wnaf(Abs(n1)), Wnaf(Abs(n2))>>, 1)

\* precompute_comb: the products of the base's powers 2^(j * length).
RECURSIVE Doubled(_, _, _)
Doubled(G, f, n) == IF n = 0 THEN f ELSE Doubled(G, Square(G, f), n - 1)

RECURSIVE TableEntry(_, _, _, _)
TableEntry(G, f, length, S) ==
    IF S = {} THEN Identity(G)
    ELSE LET j == CHOOSE j \in S : \A i \in S : j <= i
         IN Compose(G, TableEntry(G, f, length, S \ {j}), Doubled(G, f, j * length))

Comb(G, f, maxbits) ==
    LET length == (maxbits + CombBlocks - 1) \div CombBlocks
    IN [length |-> length,
        table |-> [S \in SUBSET (0 .. CombBlocks - 1) |-> TableEntry(G, f, length, S)]]

MaxBits(comb) == CombBlocks * comb.length

\* exp_comb: the identity for a number that is not positive, and nothing of the
\* bits above max_bits.
RECURSIVE CombFrom(_, _, _, _)
CombFrom(G, comb, e, k) ==
    IF k = comb.length THEN Identity(G)
    ELSE LET S == {j \in 0 .. CombBlocks - 1 : BitAt(e, j * comb.length + k) = 1}
             x == Square(G, CombFrom(G, comb, e, k + 1))
         IN IF S = {} THEN x ELSE Compose(G, x, comb.table[S])
ExpComb(G, comb, e) == IF e <= 0 THEN Identity(G) ELSE CombFrom(G, comb, e, 0)

-----------------------------------------------------------------------------
(* What is computed, and what it should be.                                  *)

\* The reduced forms of a discriminant, one in each class.
Reduced(D) ==
    {f \in {Form(a, b, (b * b - D) \div (4 * a)) :
            a \in {x \in 1 .. 100 : 3 * x * x <= -D}, b \in -100 .. 100} :
        /\ Discriminant(f) = D /\ -f.a < f.b /\ f.b <= f.a /\ f.a <= f.c
        /\ (f.a = f.c => f.b >= 0) /\ Gcd(Gcd(f.a, f.b), f.c) = 1}

FormsBegin ==
    /\ scheme = "forms" /\ stage = "pick" /\ fault = "none"
    /\ \E D \in Discs : know \in [G : {GroupOf(D)}, f : Reduced(D), g : Reduced(D)]

ReduceBegin ==
    /\ scheme = "partial reduction" /\ stage = "pick" /\ fault = "none"
    /\ know \in {k \in [u : 2 .. Operands, v : 0 .. Operands - 1, l : {0, 2, 5}] : k.v < k.u}

Reduction ==
    /\ scheme = "partial reduction"
    /\ Step("pick", "done", [word |-> WordSteps(know.u, know.v, know.l, Id),
                             lehmer |-> LehmerReduce(know.u, know.v, know.l),
                             half |-> HalfReduce(know.u, know.v, know.l)])

Composition ==
    /\ scheme = "forms"
    /\ Step("pick", "composed", [product |-> Compose(know.G, know.f, know.g),
                                 square |-> Square(know.G, know.f),
                                 plain |-> Dirichlet(know.f, know.g)])

Powers ==
    /\ scheme = "forms" /\ stage = "composed" /\ know.f.b >= 0
    /\ LET comb == Comb(know.G, know.f, 4)
       IN \E n \in RaisedTo, n2 \in {-3, 0, 2} :
             Step("composed", "done",
                  [n |-> n, n2 |-> n2, power |-> Exp(know.G, know.f, n),
                   fromComb |-> ExpComb(know.G, comb, n), bits |-> MaxBits(comb),
                   both |-> MultiExp(know.G, know.f, n, know.g, n2)])

FormsStart == FormsBegin \/ ReduceBegin
FormsNext == Reduction \/ Composition \/ Powers

\* Composition by its definition: the form of A = a1 a2 / w^2 whose middle
\* coefficient agrees with those of both factors.
United(f, g) ==
    LET h == (f.b + g.b) \div 2
        w == Gcd(Gcd(f.a, g.a), h)
        A == (f.a * g.a) \div (w * w)
        D == Discriminant(f)
        b == CHOOSE b \in 0 .. 2 * A - 1 :
                /\ (b - f.b) % (2 * (f.a \div w)) = 0
                /\ (b - g.b) % (2 * (g.a \div w)) = 0
                /\ (Exact(h, w) * b - (D + f.b * g.b) \div (2 * w)) % (2 * A) = 0
    IN Reduce(Form(A, b, (b * b - D) \div (4 * A)))

RECURSIVE PowerOf(_, _, _)
PowerOf(G, f, n) ==
    IF n = 0 THEN Identity(G)
    ELSE IF n < 0 THEN PowerOf(G, Reduce(Form(f.a, -f.b, f.c)), -n)
    ELSE LET h == PowerOf(G, f, n \div 2)
         IN IF Odd(n) THEN United(f, United(h, h)) ELSE United(h, h)

\* A partial reduction is made of division steps: it keeps the determinant and
\* ends with operands u > v >= 0, v no longer than it was asked to be.
ReductionRight == Done("partial reduction") =>
    LET Steps(m) == /\ Det(m) \in {-1, 1}
                    /\ Legal(Apply(m, <<know.u, know.v>>))
        Last(m) == Apply(m, <<know.u, know.v>>)[2]
    IN /\ Steps(know.word) /\ Last(know.word) <= know.l
       /\ Steps(know.lehmer) /\ Last(know.lehmer) <= know.l
       /\ Steps(know.half) /\ Bits(Last(know.half)) <= Bits(know.l)

\* NUCOMP, NUDUPL and Dirichlet's composition compute the class of the product,
\* and every way to raise a form to a power computes the repeated product; the
\* comb does so for what its blocks cover.
FormsRight ==
    /\ scheme = "forms" /\ stage = "composed" =>
          /\ know.product = United(know.f, know.g)
          /\ know.plain = know.product
          /\ know.square = United(know.f, know.f)
          /\ United(know.f, Inverted(know.f)) = Identity(know.G)
    /\ Done("forms") =>
          /\ know.power = PowerOf(know.G, know.f, know.n)
          /\ know.n >= 0 /\ Bits(know.n) <= know.bits => know.fromComb = know.power
          /\ know.both = United(know.power, PowerOf(know.G, know.g, know.n2))
=============================================================================
