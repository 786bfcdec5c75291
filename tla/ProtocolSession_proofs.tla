----------------------- MODULE ProtocolSession_proofs -----------------------
(* What the proofs about the signing and key generation protocols share.     *)
(*                                                                           *)
(* First what the scalar field, Shamir's scheme and ECDSA (PrimeField) do,   *)
(* for every prime Q, every set of indices and every threshold: sums and     *)
(* products over finite sets, the arithmetic modulo Q, Lagrange              *)
(* interpolation, and when a signature verifies.  Induction is over sets: a  *)
(* set of finite subsets (or of naturals) that contains each element whose   *)
(* predecessors it contains is the set of all.  Then the session: its        *)
(* parties, its steps, and what a machine may return.                        *)
EXTENDS ProtocolSession, FiniteSetTheorems, WellFoundedInduction, TLAPS

-----------------------------------------------------------------------------
(* Induction.                                                                *)

\* Induction on the subsets of a finite set: what holds of a subset whenever it
\* holds of the subset without any one element holds of all of them.
LEMMA SubsetInduction ==
    ASSUME NEW S, IsFiniteSet(S), NEW P \in SUBSET SUBSET S,
           \A A \in SUBSET S : (\A x \in A : A \ {x} \in P) => A \in P
    PROVE  P = SUBSET S
<1> SUFFICES ASSUME P # SUBSET S PROVE FALSE
  OBVIOUS
<1> DEFINE Bad == (SUBSET S) \ P
<1>1. IsWellFoundedOn(StrictSubsetOrdering(S), SUBSET S)
  <2>1. FiniteSubsetsOf(S) = SUBSET S
    BY FS_FiniteSubsetsOfFinite
  <2>2. IsWellFoundedOn(StrictSubsetOrdering(S), FiniteSubsetsOf(S))
    BY FS_StrictSubsetOrderingWellFounded
  <2> QED BY <2>1, <2>2, Zenon
<1>2. PICK A \in Bad : \A B \in Bad : <<B, A>> \notin StrictSubsetOrdering(S)
  BY <1>1, WFMin
<1>3. ASSUME NEW x \in A PROVE A \ {x} \in P
  <2>1. A \ {x} \in SUBSET S /\ A \ {x} \subseteq A /\ A \ {x} # A
    BY <1>2
  <2>2. <<A \ {x}, A>> \in StrictSubsetOrdering(S)
    BY <1>2, <2>1 DEF StrictSubsetOrdering
  <2> QED BY <1>2, <2>1, <2>2
<1> QED BY <1>2, <1>3

\* A finite set of integers has a least element.
LEMMA LeastElement ==
    ASSUME NEW S \in SUBSET Int, IsFiniteSet(S), S # {}
    PROVE  \E m \in S : \A x \in S : m <= x
<1> DEFINE P == {A \in SUBSET S : A # {} => \E m \in A : \A x \in A : m <= x}
<1>1. ASSUME NEW A \in SUBSET S, \A x \in A : A \ {x} \in P PROVE A \in P
  <2> SUFFICES ASSUME NEW a \in A PROVE \E m \in A : \A x \in A : m <= x
    OBVIOUS
  <2>1. CASE A \ {a} = {}
    BY <2>1
  <2>2. CASE A \ {a} # {}
    <3>1. PICK m \in A \ {a} : \A x \in A \ {a} : m <= x
      BY <1>1, <2>2
    <3>2. a \in Int /\ m \in Int /\ (a <= m \/ m <= a)
      OBVIOUS
    <3>3. CASE m <= a
      BY <3>1, <3>3
    <3>4. CASE a <= m
      <4>1. ASSUME NEW x \in A PROVE a <= x
        <5>1. x \in Int
          OBVIOUS
        <5> QED BY <3>1, <3>2, <3>4, <5>1
      <4> QED BY <4>1
    <3> QED BY <3>2, <3>3, <3>4
  <2> QED BY <2>1, <2>2
<1> HIDE DEF P
<1>2. P \in SUBSET SUBSET S
  BY DEF P
<1>3. P = SUBSET S
  BY <1>1, <1>2, SubsetInduction
<1> QED BY <1>3 DEF P

\* Induction on the naturals.
LEMMA NaturalSetInduction ==
    ASSUME NEW P \in SUBSET Nat, 0 \in P, \A n \in P : n + 1 \in P
    PROVE  P = Nat
<1> SUFFICES ASSUME NEW k \in Nat, k \notin P PROVE FALSE
  OBVIOUS
<1> DEFINE Bad == {n \in 0 .. k : n \notin P}
<1>1. IsFiniteSet(Bad) /\ Bad \in SUBSET Int /\ Bad # {}
  <2>1. IsFiniteSet(0 .. k)
    BY FS_Interval
  <2>2. IsFiniteSet(Bad)
    BY <2>1, FS_Subset
  <2> QED BY <2>2
<1>2. PICK m \in Bad : \A x \in Bad : m <= x
  BY <1>1, LeastElement
<1>3. m # 0 /\ m - 1 \in 0 .. k /\ m - 1 \notin Bad
  BY <1>2
<1> QED BY <1>2, <1>3

-----------------------------------------------------------------------------
(* Arithmetic modulo Q.                                                      *)

\* What a sum or a product is reduced to is in the field ...
LEMMA FlType ==
    ASSUME NEW a \in Int
    PROVE  Fl(a) \in Field
BY QAssumption DEF Fl, Field

\* ... where nothing is left to reduce.
LEMMA FlField ==
    ASSUME NEW a \in Field
    PROVE  Fl(a) = a
BY QAssumption DEF Fl, Field

\* A number is a multiple of Q and what it is reduced to.
LEMMA FlQuotient ==
    ASSUME NEW a \in Int
    PROVE  \E k \in Int : a = k * Q + Fl(a)
<1>1. a = (Q * (a \div Q)) + (a % Q) /\ a \div Q \in Int
  BY QAssumption
<1>2. ASSUME NEW k \in Int, NEW q \in Int PROVE q * k = k * q
  OBVIOUS
<1>3. Q * (a \div Q) = (a \div Q) * Q
  BY <1>1, <1>2, QAssumption
<1> QED BY <1>1, <1>3 DEF Fl

\* Multiples of Q do not count.
LEMMA FlUnique ==
    ASSUME NEW a \in Int, NEW b \in Int, NEW k \in Int, a = b + k * Q
    PROVE  Fl(a) = Fl(b)
<1>1. PICK i \in Int : a = i * Q + Fl(a)
  BY FlQuotient
<1>2. PICK j \in Int : b = j * Q + Fl(b)
  BY FlQuotient
<1>3. Fl(a) - Fl(b) = (j + k - i) * Q /\ j + k - i \in Int
  BY <1>1, <1>2, FlType, QAssumption DEF Field
<1>4. ASSUME NEW x \in Field, NEW y \in Field, NEW d \in Int, x - y = d * Q PROVE x = y
  BY <1>4, QAssumption DEF Field
<1> QED BY <1>3, <1>4, FlType

\* A summand may be reduced first ...
LEMMA FlAdd ==
    ASSUME NEW a \in Int, NEW b \in Int
    PROVE  Fl(Fl(a) + b) = Fl(a + b)
<1>1. PICK i \in Int : a = i * Q + Fl(a)
  BY FlQuotient
<1>2. a + b = (Fl(a) + b) + i * Q /\ Fl(a) \in Int
  BY <1>1, FlType, QAssumption DEF Field
<1> QED BY <1>2, FlUnique

\* ... and so may a factor, ...
LEMMA FlMul ==
    ASSUME NEW a \in Int, NEW b \in Int
    PROVE  Fl(Fl(a) * b) = Fl(a * b)
<1>1. PICK i \in Int : a = i * Q + Fl(a)
  BY FlQuotient
<1>2. ASSUME NEW x \in Int, NEW q \in Int, a = i * q + x
      PROVE  a * b = (x * b) + (i * b) * q
  BY <1>2
<1>3. Fl(a) \in Int /\ Fl(a) * b \in Int /\ i * b \in Int /\ a * b \in Int
  BY FlType, QAssumption DEF Field
<1>4. a * b = (Fl(a) * b) + (i * b) * Q
  BY <1>1, <1>2, <1>3, QAssumption
<1> QED BY <1>3, <1>4, FlUnique

\* ... or both summands ...
LEMMA FlSum ==
    ASSUME NEW a \in Int, NEW b \in Int, NEW c \in Int, NEW d \in Int, Fl(a) = Fl(c), Fl(b) = Fl(d)
    PROVE  Fl(a + b) = Fl(c + d) 
<1> DEFINE x == Fl(a) y == Fl(b)
<1>1. x \in Int /\ y \in Int
  BY FlType DEF Field
<1>2. Fl(a + b) = Fl(x + b) /\ Fl(b + x) = Fl(y + x)
  BY <1>1, FlAdd
<1>3. Fl(c + d) = Fl(x + d) /\ Fl(d + x) = Fl(y + x)
  BY <1>1, FlAdd
<1>4. x + b = b + x /\ x + d = d + x
  BY <1>1
<1> QED BY <1>2, <1>3, <1>4

\* ... and both factors.
LEMMA FlProduct ==
    ASSUME NEW a \in Int, NEW b \in Int, NEW c \in Int, NEW d \in Int, Fl(a) = Fl(c), Fl(b) = Fl(d)
    PROVE  Fl(a * b) = Fl(c * d) 
<1> DEFINE x == Fl(a) y == Fl(b)
<1>1. x \in Int /\ y \in Int
  BY FlType DEF Field
<1>2. Fl(a * b) = Fl(x * b) /\ Fl(b * x) = Fl(y * x)
  BY <1>1, FlMul
<1>3. Fl(c * d) = Fl(x * d) /\ Fl(d * x) = Fl(y * x)
  BY <1>1, FlMul
<1>4. x * b = b * x /\ x * d = d * x
  BY <1>1
<1> QED BY <1>2, <1>3, <1>4

\* The other summand ...
LEMMA FlAddRight ==
    ASSUME NEW a \in Int, NEW b \in Int
    PROVE  Fl(a + Fl(b)) = Fl(a + b)
<1>1. Fl(b) \in Int
  BY FlType DEF Field
<1>2. a + Fl(b) = Fl(b) + a /\ a + b = b + a
  BY <1>1
<1> QED BY <1>1, <1>2, FlAdd

\* ... and the other factor.
LEMMA FlMulRight ==
    ASSUME NEW a \in Int, NEW b \in Int
    PROVE  Fl(a * Fl(b)) = Fl(a * b)
<1>1. Fl(b) \in Int
  BY FlType DEF Field
<1>2. a * Fl(b) = Fl(b) * a /\ a * b = b * a
  BY <1>1
<1> QED BY <1>1, <1>2, FlMul

\* Neg is the negative.
LEMMA NegType ==
    ASSUME NEW a \in Int
    PROVE  Neg(a) \in Field /\ Fl(Neg(a)) = Fl(-a)
<1>1. Neg(a) = Fl(Q - a) /\ Q - a \in Int
  BY QAssumption DEF Neg, Fl
<1>2. Fl(Q - a) = Fl(-a)
  <2>1. Q - a = -a + 1 * Q /\ -a \in Int
    BY QAssumption
  <2> QED BY <2>1, <1>1, FlUnique
<1> QED BY <1>1, <1>2, FlType, FlField

\* Different elements of the field have a difference.
LEMMA FlDistinct ==
    ASSUME NEW a \in Field, NEW b \in Field, a # b
    PROVE  Fl(a - b) # 0
<1>1. a - b \in Int /\ -Q < a - b /\ a - b < Q /\ a - b # 0
  BY QAssumption DEF Field
<1> DEFINE e == a - b
<1>2. CASE e > 0
  BY <1>1, <1>2, FlField, QAssumption DEF Field
<1>3. CASE e < 0
  <2>1. Fl(e + Q) = e + Q
    BY <1>1, <1>3, FlField, QAssumption DEF Field
  <2>2. Fl(e + Q) = Fl(e)
    <3>1. e + Q = e + 1 * Q /\ e + Q \in Int
      BY <1>1, QAssumption
    <3> QED BY <1>1, <3>1, FlUnique
  <2> QED BY <1>1, <2>1, <2>2, QAssumption
<1> QED BY <1>1, <1>2, <1>3

\* Q is prime: a product is zero only when a factor is.
LEMMA FlIntegral ==
    ASSUME NEW a \in Int, NEW b \in Int, Fl(a * b) = 0, Fl(a) # 0
    PROVE  Fl(b) = 0
<1> DEFINE x == Fl(a)
           y == Fl(b)
<1>1. x \in Field /\ y \in Field /\ x \in Int /\ y \in Int
  BY FlType DEF Field
<1>2. Fl(x * b) = 0 /\ Fl(x * y) = Fl(x * b)
  BY <1>1, FlMul, FlMulRight
<1> HIDE DEF x, y
<1>3. y = 0
  BY <1>1, <1>2, QAssumption DEF Field, Fl, x
<1> QED BY <1>3 DEF y

\* What the inverse is.
LEMMA InvType ==
    ASSUME NEW a \in Int, Fl(a) # 0
    PROVE  Inv(a) \in Field /\ Fl(a * Inv(a)) = 1 /\ Inv(a) # 0
<1> DEFINE S == 1 .. Q - 1
           f == [y \in S |-> Fl(a * y)]
<1>1. Fl(a) \in S /\ S \subseteq Int
  BY FlType, QAssumption DEF Field
<1>2. f \in [S -> S]
  <2>1. ASSUME NEW y \in S PROVE Fl(a * y) \in S
    <3>1. Fl(a * y) = Fl(Fl(a) * y) /\ a * y \in Int
      BY FlMul
    <3>2. Fl(Fl(a) * y) # 0
      BY <1>1, QAssumption DEF Fl
    <3> QED BY <3>1, <3>2, FlType, QAssumption DEF Field
  <2> QED BY <2>1
<1>3. ASSUME NEW x \in S, NEW y \in S, f[x] = f[y] PROVE x = y
  <2>1. ASSUME NEW u \in S, NEW v \in S, u < v, Fl(a * u) = Fl(a * v) PROVE FALSE
    <3>1. PICK i \in Int : a * u = i * Q + Fl(a * u)
      BY FlQuotient
    <3>2. PICK j \in Int : a * v = j * Q + Fl(a * v)
      BY FlQuotient
    <3>3. Fl(a * u) \in Int
      BY FlType DEF Field
    <3>4. v - u \in S /\ a * (v - u) = 0 + (j - i) * Q /\ j - i \in Int
      BY <2>1, <3>1, <3>2, <3>3, QAssumption
    <3>5. Fl(a * (v - u)) = Fl(0)
      BY <3>4, FlUnique
    <3>6. Fl(a * (v - u)) \in S
      BY <3>4, <1>2
    <3>7. Fl(0) = 0
      BY FlField, QAssumption DEF Field
    <3> QED BY <3>5, <3>6, <3>7
  <2> QED BY <1>3, <2>1
<1>4. IsFiniteSet(S) /\ Cardinality(S) = Q - 1
  BY FS_Interval, QAssumption
<1>5. PICK y \in S : f[y] = 1
  <2> DEFINE R == {f[y] : y \in S}
  <2>1. R \subseteq S
    <3> HIDE DEF f
    <3> QED BY <1>2
  <2>3. 1 \in S
    BY QAssumption
  <2>2. IsFiniteSet(R) /\ Cardinality(R) = Cardinality(S)
    <3>1. f \in Bijection(S, R)
      <4> HIDE DEF f
      <4> QED BY <1>2, <1>3 DEF Bijection, Injection, Surjection, IsInjective
    <3> QED BY <3>1, <1>4, FS_Bijection DEF ExistsBijection
  <2>4. R = S
    BY <1>4, <2>1, <2>2, FS_Subset
  <2> QED BY <2>3, <2>4
<1>6. y \in Field /\ (a * y) % Q = 1
  BY <1>5, QAssumption DEF Field, Fl
<1>7. Inv(a) \in Field /\ (a * Inv(a)) % Q = 1
  BY <1>6 DEF Inv
<1>8. Inv(a) # 0
  <2>1. (a * 0) % Q = 0
    BY QAssumption
  <2> QED BY <1>7, <2>1
<1> QED BY <1>7, <1>8 DEF Fl

-----------------------------------------------------------------------------
(* Sums and products over finite sets.  Both are folds: `kind` says which.   *)

Unit(kind) == IF kind = "sum" THEN 0 ELSE 1
Op(kind, a, b) == IF kind = "sum" THEN a + b ELSE Fl(a * b)

\* The function that a fold over A is defined by: the folds over its subsets.
FoldsOf(kind, h, f, A) ==
    h = [s \in SUBSET A |->
           IF s = {} THEN Unit(kind)
           ELSE Op(kind, f[CHOOSE x \in s : TRUE], h[s \ {CHOOSE x \in s : TRUE}])]

Fold(kind, f, S) == (CHOOSE h : FoldsOf(kind, h, f, S))[S]

\* The defining equation has one solution on a finite set.
LEMMA FoldsUnique ==
    ASSUME NEW S, IsFiniteSet(S), NEW kind, NEW f, NEW g, NEW h,
           FoldsOf(kind, g, f, S), FoldsOf(kind, h, f, S)
    PROVE  g = h
<1> DEFINE P == {A \in SUBSET S : g[A] = h[A]}
<1>1. ASSUME NEW A \in SUBSET S, \A x \in A : A \ {x} \in P PROVE A \in P
  <2>1. CASE A = {}
    BY <2>1 DEF FoldsOf
  <2>2. CASE A # {}
    <3> DEFINE c == CHOOSE x \in A : TRUE
    <3>1. c \in A
      BY <2>2
    <3>2. g[A \ {c}] = h[A \ {c}]
      BY <1>1, <3>1
    <3> QED BY <2>2, <3>2 DEF FoldsOf
  <2> QED BY <2>1, <2>2
<1> HIDE DEF P
<1>2. P \in SUBSET SUBSET S
  BY DEF P
<1>3. P = SUBSET S
  BY <1>1, <1>2, SubsetInduction
<1>4. g = [A \in SUBSET S |-> g[A]] /\ h = [A \in SUBSET S |-> h[A]]
  BY DEF FoldsOf
<1> QED BY <1>3, <1>4 DEF P

\* Every fold joins the element that is taken first and the fold of the rest.
LEMMA FoldRecursion ==
    ASSUME NEW S, IsFiniteSet(S), NEW kind, NEW f
    PROVE  /\ S = {} => Fold(kind, f, S) = Unit(kind)
           /\ S # {} => \E c \in S : Fold(kind, f, S) = Op(kind, f[c], Fold(kind, f, S \ {c}))
           /\ \E h : FoldsOf(kind, h, f, S)
<1> DEFINE c(A) == CHOOSE x \in A : TRUE
           Sum(A) == Fold(kind, f, A)
           Next(A) == IF A = {} THEN Unit(kind) ELSE Op(kind, f[c(A)], Sum(A \ {c(A)}))
           P == {A \in SUBSET S : \A B \in SUBSET A :
                    Sum(B) = Next(B) /\ \E h : FoldsOf(kind, h, f, B)}
<1>1. ASSUME NEW A \in SUBSET S, \A x \in A : A \ {x} \in P PROVE A \in P
  <2> DEFINE h == [B \in SUBSET A |-> IF B = A THEN Next(A) ELSE Sum(B)]
  <2>1. \A B \in SUBSET A : B # A => Sum(B) = Next(B) /\ \E g : FoldsOf(kind, g, f, B)
    <3> SUFFICES ASSUME NEW B \in SUBSET A, B # A
                 PROVE  Sum(B) = Next(B) /\ \E g : FoldsOf(kind, g, f, B)
      OBVIOUS
    <3>1. PICK x \in A : B \in SUBSET (A \ {x})
      OBVIOUS
    <3> QED BY <1>1, <3>1
  <2>2. FoldsOf(kind, h, f, A)
    <3>1. \A B \in SUBSET A : B # {} => c(B) \in B
      OBVIOUS
    <3>2. \A B \in SUBSET A : B # {} => h[B \ {c(B)}] = Sum(B \ {c(B)})
      BY <3>1
    <3>3. ASSUME NEW B \in SUBSET A PROVE h[B] = Next(B)
      <4> HIDE DEF Next, Sum
      <4>1. h[B] = IF B = A THEN Next(A) ELSE Sum(B)
        OBVIOUS
      <4> QED BY <2>1, <4>1
    <3>4. \A B \in SUBSET A : h[B] = IF B = {} THEN Unit(kind) ELSE Op(kind, f[c(B)], h[B \ {c(B)}])
      BY <3>2, <3>3
    <3>5. h = [B \in SUBSET A |-> h[B]]
      OBVIOUS
    <3> HIDE DEF h
    <3> QED BY <3>4, <3>5 DEF FoldsOf
  <2>3. FoldsOf(kind, CHOOSE g : FoldsOf(kind, g, f, A), f, A)
    <3> HIDE DEF h
    <3> QED BY <2>2
  <2>4. (CHOOSE g : FoldsOf(kind, g, f, A)) = h
    <3>1. IsFiniteSet(A)
      BY FS_Subset
    <3> HIDE DEF h
    <3> QED BY <2>2, <2>3, <3>1, FoldsUnique
  <2>5. Sum(A) = h[A]
    <3> HIDE DEF h
    <3> QED BY <2>4, Zenon DEF Fold
  <2>6. Sum(A) = Next(A)
    BY <2>5
  <2> HIDE DEF h, Next, Sum
  <2> QED BY <2>1, <2>2, <2>6
<1> HIDE DEF P
<1>2. P \in SUBSET SUBSET S
  BY DEF P
<1>3. P = SUBSET S
  BY <1>1, <1>2, SubsetInduction
<1>4. Sum(S) = Next(S) /\ \E h : FoldsOf(kind, h, f, S)
  <2> HIDE DEF Next, Sum
  <2> QED BY <1>3 DEF P
<1>5. S # {} => c(S) \in S
  OBVIOUS
<1>6. S = {} => Sum(S) = Unit(kind)
  BY <1>4
<1>7. S # {} => Sum(S) = Op(kind, f[c(S)], Sum(S \ {c(S)}))
  BY <1>4
<1> HIDE DEF c
<1> QED BY <1>4, <1>5, <1>6, <1>7

\* A fold of integers is an integer.
LEMMA FoldType ==
    ASSUME NEW S, IsFiniteSet(S), NEW kind, NEW f, \A x \in S : f[x] \in Int
    PROVE  Fold(kind, f, S) \in Int
<1> DEFINE P == {A \in SUBSET S : Fold(kind, f, A) \in Int}
<1>1. ASSUME NEW A \in SUBSET S, \A x \in A : A \ {x} \in P PROVE A \in P
  <2>1. CASE A = {}
    BY <2>1, FS_EmptySet, FoldRecursion DEF Unit
  <2>2. CASE A # {}
    <3>1. IsFiniteSet(A)
      BY FS_Subset
    <3>2. PICK c \in A : Fold(kind, f, A) = Op(kind, f[c], Fold(kind, f, A \ {c}))
      BY <2>2, <3>1, FoldRecursion
    <3>3. Fold(kind, f, A \ {c}) \in Int /\ f[c] \in Int
      BY <1>1
    <3>4. ASSUME NEW a \in Int, NEW b \in Int PROVE Op(kind, a, b) \in Int
      BY QAssumption DEF Op, Fl
    <3> QED BY <3>2, <3>3, <3>4
  <2> QED BY <2>1, <2>2
<1> HIDE DEF P
<1>2. P \in SUBSET SUBSET S
  BY DEF P
<1>3. P = SUBSET S
  BY <1>1, <1>2, SubsetInduction
<1> QED BY <1>3 DEF P

\* The order in which values are folded in does not matter.
LEMMA OpSwap ==
    ASSUME NEW kind, NEW a \in Int, NEW b \in Int, NEW r \in Int
    PROVE  Op(kind, a, Op(kind, b, r)) = Op(kind, b, Op(kind, a, r))
<1>1. CASE kind = "sum"
  BY <1>1 DEF Op
<1>2. CASE kind # "sum"
  <2>1. ASSUME NEW x \in Int, NEW y \in Int PROVE Fl(x * Fl(y * r)) = Fl(x * (y * r))
    <3>1. y * r \in Int /\ Fl(y * r) \in Int
      BY FlType DEF Field
    <3>2. x * Fl(y * r) = Fl(y * r) * x /\ x * (y * r) = (y * r) * x
      BY <3>1
    <3> QED BY <3>1, <3>2, FlMul
  <2>2. a * (b * r) = b * (a * r)
    OBVIOUS
  <2> QED BY <1>2, <2>1, <2>2 DEF Op
<1> QED BY <1>1, <1>2

\* Any element may be taken out first: the order of a fold does not matter.
LEMMA FoldStep ==
    ASSUME NEW S, IsFiniteSet(S), NEW kind, NEW f, \A x \in S : f[x] \in Int, NEW a \in S
    PROVE  Fold(kind, f, S) = Op(kind, f[a], Fold(kind, f, S \ {a}))
<1> DEFINE Sum(A) == Fold(kind, f, A)
           P == {A \in SUBSET S : \A x \in A : Sum(A) = Op(kind, f[x], Sum(A \ {x}))}
<1>1. ASSUME NEW A \in SUBSET S, \A x \in A : A \ {x} \in P PROVE A \in P
  <2> SUFFICES ASSUME NEW x \in A PROVE Sum(A) = Op(kind, f[x], Sum(A \ {x}))
    OBVIOUS
  <2>0. IsFiniteSet(A) /\ A # {}
    BY FS_Subset
  <2>1. PICK c \in A : Sum(A) = Op(kind, f[c], Sum(A \ {c}))
    BY <2>0, FoldRecursion
  <2>2. CASE c = x
    BY <2>1, <2>2
  <2>3. CASE c # x
    <3>1. Sum(A \ {c}) = Op(kind, f[x], Sum((A \ {c}) \ {x}))
      BY <1>1, <2>3
    <3>2. Sum(A \ {x}) = Op(kind, f[c], Sum((A \ {x}) \ {c}))
      BY <1>1, <2>3
    <3>3. (A \ {c}) \ {x} = (A \ {x}) \ {c}
      OBVIOUS
    <3> DEFINE r == Sum((A \ {x}) \ {c})
    <3>4. r \in Int /\ f[x] \in Int /\ f[c] \in Int
      <4>1. IsFiniteSet((A \ {x}) \ {c})
        BY FS_Subset
      <4> QED BY <4>1, FoldType
    <3>5. Sum(A) = Op(kind, f[c], Op(kind, f[x], r)) /\ Sum(A \ {x}) = Op(kind, f[c], r)
      BY <2>1, <3>1, <3>2, <3>3
    <3> HIDE DEF r
    <3> QED BY <3>4, <3>5, OpSwap
  <2> QED BY <2>2, <2>3
<1> HIDE DEF P
<1>2. P \in SUBSET SUBSET S
  BY DEF P
<1>3. P = SUBSET S
  BY <1>1, <1>2, SubsetInduction
<1> QED BY <1>3 DEF P

\* The sum of the library's fold, and the product, are these folds.
LEMMA SumIsFold ==
    ASSUME NEW S, IsFiniteSet(S), NEW f
    PROVE  SumFunctionOnSet(f, S) = Fold("sum", f, S)
<1> DEFINE SumsOf(h) == h = [s \in SUBSET S |->
                               IF s = {} THEN 0
                               ELSE f[CHOOSE x \in s : TRUE] + h[s \ {CHOOSE x \in s : TRUE}]]
<1>1. SumFunctionOnSet(f, S) = (CHOOSE h : SumsOf(h))[S]
  BY DEF SumFunctionOnSet, FoldFunctionOnSet, MapThenFoldSet
<1>2. ASSUME NEW h PROVE SumsOf(h) <=> FoldsOf("sum", h, f, S)
  BY DEF FoldsOf, Unit, Op
<1> HIDE DEF SumsOf
<1>3. \E h : FoldsOf("sum", h, f, S)
  BY FoldRecursion
<1>4. FoldsOf("sum", CHOOSE h : FoldsOf("sum", h, f, S), f, S)
  BY <1>3
<1>5. FoldsOf("sum", CHOOSE h : SumsOf(h), f, S)
  BY <1>2, <1>3
<1>6. (CHOOSE h : SumsOf(h)) = (CHOOSE h : FoldsOf("sum", h, f, S))
  BY <1>4, <1>5, FoldsUnique
<1> QED BY <1>1, <1>6, Zenon DEF Fold

LEMMA ProductIsFold ==
    ASSUME NEW S, IsFiniteSet(S), NEW f
    PROVE  Product(f, S) = Fold("product", f, S)
<1> DEFINE ProductsOf(h) == h = [s \in SUBSET S |->
                               IF s = {} THEN 1
                               ELSE Fl(f[CHOOSE x \in s : TRUE] * h[s \ {CHOOSE x \in s : TRUE}])]
<1>1. Product(f, S) = (CHOOSE h : ProductsOf(h))[S]
  BY DEF Product, FoldFunctionOnSet, MapThenFoldSet
<1>2. ASSUME NEW h PROVE ProductsOf(h) <=> FoldsOf("product", h, f, S)
  BY DEF FoldsOf, Unit, Op
<1> HIDE DEF ProductsOf
<1>3. \E h : FoldsOf("product", h, f, S)
  BY FoldRecursion
<1>4. FoldsOf("product", CHOOSE h : FoldsOf("product", h, f, S), f, S)
  BY <1>3
<1>5. FoldsOf("product", CHOOSE h : ProductsOf(h), f, S)
  BY <1>2, <1>3
<1>6. (CHOOSE h : ProductsOf(h)) = (CHOOSE h : FoldsOf("product", h, f, S))
  BY <1>4, <1>5, FoldsUnique
<1> QED BY <1>1, <1>6, Zenon DEF Fold

\* What the rest uses of sums: of the empty set, and one element at a time.
LEMMA SumEmpty ==
    ASSUME NEW f
    PROVE  SumFunctionOnSet(f, {}) = 0
BY FoldRecursion, SumIsFold, FS_EmptySet DEF Unit

\* The same of sums.
LEMMA SumStep ==
    ASSUME NEW S, IsFiniteSet(S), NEW f, \A x \in S : f[x] \in Int, NEW a \in S
    PROVE  SumFunctionOnSet(f, S) = f[a] + SumFunctionOnSet(f, S \ {a})
<1>1. IsFiniteSet(S \ {a})
  BY FS_Subset
<1>2. Fold("sum", f, S) = Op("sum", f[a], Fold("sum", f, S \ {a}))
  BY FoldStep
<1>3. SumFunctionOnSet(f, S) = Fold("sum", f, S)
  BY SumIsFold
<1>4. SumFunctionOnSet(f, S \ {a}) = Fold("sum", f, S \ {a})
  BY <1>1, SumIsFold
<1> QED BY <1>2, <1>3, <1>4 DEF Op

LEMMA SumType ==
    ASSUME NEW S, IsFiniteSet(S), NEW f, \A x \in S : f[x] \in Int
    PROVE  SumFunctionOnSet(f, S) \in Int
BY FoldType, SumIsFold

\* The same of products.
LEMMA ProductEmpty ==
    ASSUME NEW f
    PROVE  Product(f, {}) = 1
BY FoldRecursion, ProductIsFold, FS_EmptySet DEF Unit

LEMMA ProductStep ==
    ASSUME NEW S, IsFiniteSet(S), NEW f, \A x \in S : f[x] \in Int, NEW a \in S
    PROVE  Product(f, S) = Fl(f[a] * Product(f, S \ {a}))
<1>1. IsFiniteSet(S \ {a})
  BY FS_Subset
<1>2. Fold("product", f, S) = Op("product", f[a], Fold("product", f, S \ {a}))
  BY FoldStep
<1>3. Product(f, S) = Fold("product", f, S)
  BY ProductIsFold
<1>4. Product(f, S \ {a}) = Fold("product", f, S \ {a})
  BY <1>1, ProductIsFold
<1> QED BY <1>2, <1>3, <1>4 DEF Op

LEMMA ProductType ==
    ASSUME NEW S, IsFiniteSet(S), NEW f, \A x \in S : f[x] \in Int
    PROVE  Product(f, S) \in Field
<1>1. CASE S = {}
  BY <1>1, ProductEmpty, QAssumption DEF Field
<1>2. CASE S # {}
  <2>1. PICK a \in S : TRUE
    BY <1>2
  <2>2. Product(f, S) = Fl(f[a] * Product(f, S \ {a}))
    BY <2>1, ProductStep
  <2>3. IsFiniteSet(S \ {a}) /\ f[a] \in Int
    BY <2>1, FS_Subset
  <2>4. Product(f, S \ {a}) \in Int
    BY <2>3, FoldType, ProductIsFold
  <2>5. f[a] * Product(f, S \ {a}) \in Int
    BY <2>3, <2>4
  <2> QED BY <2>2, <2>5, FlType
<1> QED BY <1>1, <1>2

\* A total, the sum in the field, is of the field ...
LEMMA TotalType ==
    ASSUME NEW S, IsFiniteSet(S), NEW f, \A x \in S : f[x] \in Int
    PROVE  Total(f, S) \in Field
BY SumType, FlType DEF Total

\* ... that of no values is zero ...
LEMMA TotalEmpty ==
    ASSUME NEW f
    PROVE  Total(f, {}) = 0
BY SumEmpty, FlField, QAssumption DEF Total, Field

\* ... and any one of the values can be set apart.
LEMMA TotalStep ==
    ASSUME NEW S, IsFiniteSet(S), NEW f, \A x \in S : f[x] \in Int, NEW a \in S
    PROVE  Total(f, S) = Fl(f[a] + Total(f, S \ {a}))
<1> DEFINE rest == SumFunctionOnSet(f, S \ {a})
<1>1. rest \in Int /\ f[a] \in Int
  <2>1. IsFiniteSet(S \ {a})
    BY FS_Subset
  <2> QED BY <2>1, SumType
<1>2. Total(f, S) = Fl(f[a] + rest) /\ Total(f, S \ {a}) = Fl(rest)
  BY SumStep DEF Total
<1> HIDE DEF rest
<1>3. Fl(rest) \in Int
  BY <1>1, FlType DEF Field
<1>4. Fl(f[a] + Fl(rest)) = Fl(f[a] + rest)
  <2>1. Fl(Fl(rest) + f[a]) = Fl(rest + f[a])
    BY <1>1, FlAdd
  <2>2. Fl(rest) + f[a] = f[a] + Fl(rest) /\ rest + f[a] = f[a] + rest
    BY <1>1, <1>3
  <2> QED BY <2>1, <2>2
<1> QED BY <1>2, <1>4

\* Totals of values that agree in the field agree.
LEMMA TotalSame ==
    ASSUME NEW S, IsFiniteSet(S), NEW f, NEW g,
           \A x \in S : f[x] \in Int /\ g[x] \in Int /\ Fl(f[x]) = Fl(g[x])
    PROVE  Total(f, S) = Total(g, S)
<1> DEFINE P == {A \in SUBSET S : Total(f, A) = Total(g, A)}
<1>1. ASSUME NEW A \in SUBSET S, \A x \in A : A \ {x} \in P PROVE A \in P
  <2>1. CASE A = {}
    BY <2>1, TotalEmpty
  <2>2. CASE A # {}
    <3>1. PICK a \in A : TRUE
      BY <2>2
    <3>2. IsFiniteSet(A) /\ IsFiniteSet(A \ {a})
      BY FS_Subset
    <3> DEFINE r == Total(f, A \ {a})
    <3>3. r = Total(g, A \ {a})
      BY <1>1, <3>1
    <3>4. r \in Int /\ f[a] \in Int /\ g[a] \in Int /\ Fl(f[a]) = Fl(g[a])
      BY <3>1, <3>2, TotalType DEF Field
    <3>5. Total(f, A) = Fl(f[a] + r)
      BY <3>1, <3>2, TotalStep
    <3>6. Total(g, A) = Fl(g[a] + r)
      BY <3>1, <3>2, <3>3, TotalStep
    <3> HIDE DEF r
    <3>7. Fl(f[a] + r) = Fl(g[a] + r)
      BY <3>4, FlSum
    <3> QED BY <3>5, <3>6, <3>7
  <2> QED BY <2>1, <2>2
<1> HIDE DEF P
<1>2. P \in SUBSET SUBSET S
  BY DEF P
<1>3. P = SUBSET S
  BY <1>1, <1>2, SubsetInduction
<1> QED BY <1>3 DEF P

\* A sum does not depend on what its terms are called.
LEMMA TotalRenamed ==
    ASSUME NEW S, IsFiniteSet(S), NEW U, IsFiniteSet(U), NEW m \in [S -> U],
           \A x, y \in S : m[x] = m[y] => x = y,
           NEW g, \A u \in U : g[u] \in Int,
           NEW h, \A x \in S : h[x] = g[m[x]]
    PROVE  Total(h, S) = Total(g, {m[x] : x \in S})
<1> DEFINE Image(A) == {m[x] : x \in A}
           P == {A \in SUBSET S : Total(h, A) = Total(g, Image(A))}
<1>1. ASSUME NEW A \in SUBSET S, \A x \in A : A \ {x} \in P PROVE A \in P
  <2>1. CASE A = {}
    <3>1. Image(A) = {}
      BY <2>1
    <3> QED BY <2>1, <3>1, TotalEmpty
  <2>2. CASE A # {}
    <3>1. PICK a \in A : TRUE
      BY <2>2
    <3>2. Image(A) \ {m[a]} = Image(A \ {a}) /\ m[a] \in Image(A) /\ Image(A) \in SUBSET U
      BY <3>1
    <3>3. IsFiniteSet(A) /\ IsFiniteSet(Image(A))
      BY <3>2, FS_Subset
    <3>4. Total(h, A \ {a}) = Total(g, Image(A \ {a}))
      BY <1>1, <3>1
    <3>5. /\ \A x \in A : h[x] \in Int
          /\ \A u \in Image(A) : g[u] \in Int
          /\ h[a] = g[m[a]]
      BY <3>1, <3>2
    <3> HIDE DEF Image, P
    <3>6. Total(h, A) = Fl(h[a] + Total(h, A \ {a}))
      BY <3>1, <3>3, <3>5, TotalStep
    <3>7. Total(g, Image(A)) = Fl(g[m[a]] + Total(g, Image(A) \ {m[a]}))
      BY <3>2, <3>3, <3>5, TotalStep
    <3> QED BY <3>2, <3>4, <3>5, <3>6, <3>7 DEF P
  <2> QED BY <2>1, <2>2
<1>2. S \in P
  <2> HIDE DEF P
  <2>1. P \in SUBSET SUBSET S
    BY DEF P
  <2>2. P = SUBSET S
    BY <1>1, <2>1, SubsetInduction
  <2> QED BY <2>2
<1> QED BY <1>2

\* The total of sums is the sum of the totals.
LEMMA TotalSum ==
    ASSUME NEW S, IsFiniteSet(S), NEW f, NEW g, NEW h,
           \A x \in S : f[x] \in Int /\ g[x] \in Int /\ h[x] \in Int /\ Fl(h[x]) = Fl(f[x] + g[x])
    PROVE  Total(h, S) = Fl(Total(f, S) + Total(g, S))
<1> DEFINE P == {A \in SUBSET S : Total(h, A) = Fl(Total(f, A) + Total(g, A))}
<1>1. ASSUME NEW A \in SUBSET S, \A x \in A : A \ {x} \in P PROVE A \in P
  <2>1. CASE A = {}
    <3>1. Fl(0 + 0) = 0
      BY FlField, QAssumption DEF Field
    <3> QED BY <2>1, <3>1, TotalEmpty
  <2>2. CASE A # {}
    <3>1. PICK a \in A : TRUE
      BY <2>2
    <3>2. IsFiniteSet(A) /\ IsFiniteSet(A \ {a})
      BY FS_Subset
    <3> DEFINE r == Total(f, A \ {a})
               s == Total(g, A \ {a})
               t == Total(h, A \ {a})
    <3>3. t = Fl(r + s)
      BY <1>1, <3>1
    <3>4. r \in Int /\ s \in Int /\ t \in Int
      BY <3>1, <3>2, TotalType DEF Field
    <3>5. Total(f, A) = Fl(f[a] + r) /\ Total(g, A) = Fl(g[a] + s) /\ Total(h, A) = Fl(h[a] + t)
      BY <3>1, <3>2, TotalStep
    <3>6. f[a] \in Int /\ g[a] \in Int /\ h[a] \in Int /\ Fl(h[a]) = Fl(f[a] + g[a])
      BY <3>1
    <3> HIDE DEF r, s, t
    <3>7. Fl(h[a] + t) = Fl((f[a] + g[a]) + (r + s))
      <4> DEFINE p == h[a]
                 u == f[a] + g[a]
                 v == r + s
      <4>1. p \in Int /\ u \in Int /\ v \in Int /\ Fl(p) = Fl(u)
        BY <3>4, <3>6
      <4>2. t = Fl(v)
        BY <3>3
      <4> HIDE DEF p, u, v
      <4>3. Fl(t) = Fl(v)
        BY <4>1, <4>2, FlType, FlField
      <4>4. Fl(p + t) = Fl(u + v)
        BY <3>4, <4>1, <4>3, FlSum
      <4> QED BY <4>4 DEF p, u, v
    <3>8. Fl(Fl(f[a] + r) + Fl(g[a] + s)) = Fl((f[a] + r) + (g[a] + s))
      <4> DEFINE u == f[a] + r
                 v == g[a] + s
      <4>1. u \in Int /\ v \in Int
        BY <3>4, <3>6
      <4> HIDE DEF u, v
      <4>2. Fl(u) \in Int /\ Fl(v) \in Int /\ Fl(Fl(u)) = Fl(u) /\ Fl(Fl(v)) = Fl(v)
        BY <4>1, FlType, FlField DEF Field
      <4>3. Fl(Fl(u) + Fl(v)) = Fl(u + v)
        BY <4>1, <4>2, FlSum
      <4> QED BY <4>3 DEF u, v
    <3>9. (f[a] + g[a]) + (r + s) = (f[a] + r) + (g[a] + s)
      BY <3>4, <3>6
    <3> QED BY <3>5, <3>7, <3>8, <3>9
  <2> QED BY <2>1, <2>2
<1> HIDE DEF P
<1>2. P \in SUBSET SUBSET S
  BY DEF P
<1>3. P = SUBSET S
  BY <1>1, <1>2, SubsetInduction
<1> QED BY <1>3 DEF P

\* A factor that all values have can be taken out of the total.
LEMMA TotalScale ==
    ASSUME NEW S, IsFiniteSet(S), NEW c \in Int, NEW f, NEW h,
           \A x \in S : f[x] \in Int /\ h[x] \in Int /\ Fl(h[x]) = Fl(c * f[x])
    PROVE  Total(h, S) = Fl(c * Total(f, S))
<1> DEFINE P == {A \in SUBSET S : Total(h, A) = Fl(c * Total(f, A))}
<1>1. ASSUME NEW A \in SUBSET S, \A x \in A : A \ {x} \in P PROVE A \in P
  <2>1. CASE A = {}
    <3>1. Fl(c * 0) = 0
      BY FlField, QAssumption DEF Field
    <3> QED BY <2>1, <3>1, TotalEmpty
  <2>2. CASE A # {}
    <3>1. PICK a \in A : TRUE
      BY <2>2
    <3>2. IsFiniteSet(A) /\ IsFiniteSet(A \ {a})
      BY FS_Subset
    <3> DEFINE r == Total(f, A \ {a})
               t == Total(h, A \ {a})
    <3>3. t = Fl(c * r)
      BY <1>1, <3>1
    <3>4. r \in Int /\ t \in Int
      BY <3>1, <3>2, TotalType DEF Field
    <3>5. Total(f, A) = Fl(f[a] + r) /\ Total(h, A) = Fl(h[a] + t)
      BY <3>1, <3>2, TotalStep
    <3>6. f[a] \in Int /\ h[a] \in Int /\ Fl(h[a]) = Fl(c * f[a])
      BY <3>1
    <3> HIDE DEF r, t
    <3>7. Fl(h[a] + t) = Fl((c * f[a]) + (c * r))
      <4> DEFINE p == h[a]
                 u == c * f[a]
                 v == c * r
      <4>1. p \in Int /\ u \in Int /\ v \in Int /\ Fl(p) = Fl(u)
        BY <3>4, <3>6
      <4>2. t = Fl(v)
        BY <3>3
      <4> HIDE DEF p, u, v
      <4>3. Fl(t) = Fl(v)
        BY <4>1, <4>2, FlType, FlField
      <4>4. Fl(p + t) = Fl(u + v)
        BY <3>4, <4>1, <4>3, FlSum
      <4> QED BY <4>4 DEF p, u, v
    <3>8. Fl(c * Fl(f[a] + r)) = Fl(c * (f[a] + r))
      <4>1. f[a] + r \in Int
        BY <3>4, <3>6
      <4>2. Fl(f[a] + r) \in Int /\ Fl(Fl(f[a] + r)) = Fl(f[a] + r)
        BY <4>1, FlType, FlField DEF Field
      <4> QED BY <4>1, <4>2, FlProduct
    <3>9. c * (f[a] + r) = (c * f[a]) + (c * r)
      BY <3>4, <3>6
    <3> QED BY <3>5, <3>7, <3>8, <3>9
  <2> QED BY <2>1, <2>2
<1> HIDE DEF P
<1>2. P \in SUBSET SUBSET S
  BY DEF P
<1>3. P = SUBSET S
  BY <1>1, <1>2, SubsetInduction
<1> QED BY <1>3 DEF P

\* A double total can be taken in either order.
LEMMA TotalSwap ==
    ASSUME NEW S, IsFiniteSet(S), NEW D, IsFiniteSet(D), NEW F,
           \A x \in S : \A y \in D : F[x][y] \in Int
    PROVE  Total([x \in S |-> Total([y \in D |-> F[x][y]], D)], S)
             = Total([y \in D |-> Total([x \in S |-> F[x][y]], S)], D)
<1> DEFINE Row(x) == Total([y \in D |-> F[x][y]], D)
           Col(A, y) == Total([x \in S |-> F[x][y]], A)
           rows == [x \in S |-> Row(x)]
           cols(A) == [y \in D |-> Col(A, y)]
           P == {A \in SUBSET S : Total(rows, A) = Total(cols(A), D)}
<1>1. \A x \in S : Row(x) \in Int
  BY TotalType DEF Field
<1>2. \A A \in SUBSET S : \A y \in D : Col(A, y) \in Int
  <2> TAKE A \in SUBSET S
  <2>1. IsFiniteSet(A)
    BY FS_Subset
  <2> TAKE y \in D
  <2>2. \A x \in A : [z \in S |-> F[z][y]][x] \in Int
    OBVIOUS
  <2> QED BY <2>1, <2>2, TotalType DEF Field
<1>3. ASSUME NEW A \in SUBSET S, \A x \in A : A \ {x} \in P PROVE A \in P
  <2>1. CASE A = {}
    <3>1. Total(rows, A) = 0 /\ \A y \in D : cols(A)[y] = 0
      BY <2>1, TotalEmpty
    <3>2. Total(cols(A), D) = 0
      <4> DEFINE g == [y \in D |-> 0]
      <4>1. \A y \in D : g[y] = 0
        OBVIOUS
      <4>2. Total(g, D) = 0
        <5> HIDE DEF g
        <5>1. \A y \in D : g[y] \in Int /\ Fl(g[y]) = Fl(0 * g[y])
          BY <4>1
        <5>2. Total(g, D) = Fl(0 * Total(g, D))
          BY <5>1, TotalScale
        <5>3. Total(g, D) \in Int
          BY <5>1, TotalType DEF Field
        <5>4. 0 * Total(g, D) = 0
          BY <5>3
        <5> QED BY <5>2, <5>4, FlField, QAssumption DEF Field
      <4>3. g = cols(A)
        BY <3>1
      <4> QED BY <4>2, <4>3
    <3> QED BY <3>1, <3>2
  <2>2. CASE A # {}
    <3>1. PICK a \in A : TRUE
      BY <2>2
    <3> DEFINE B == A \ {a}
    <3>2. IsFiniteSet(A) /\ B \in SUBSET S
      BY FS_Subset
    <3>3. Total(rows, A) = Fl(Row(a) + Total(rows, B))
      <4>1. \A x \in A : rows[x] \in Int
        BY <1>1
      <4>2. rows[a] = Row(a)
        BY <3>1
      <4> HIDE DEF rows, Row
      <4> QED BY <3>1, <3>2, <4>1, <4>2, TotalStep
    <3>4. Total(rows, B) = Total(cols(B), D)
      BY <1>3, <3>1
    <3>5. \A y \in D : Col(A, y) = Fl(F[a][y] + Col(B, y))
      <4> TAKE y \in D
      <4>1. \A x \in A : [z \in S |-> F[z][y]][x] \in Int
        OBVIOUS
      <4>2. [z \in S |-> F[z][y]][a] = F[a][y]
        BY <3>1
      <4> QED BY <3>1, <3>2, <4>1, <4>2, TotalStep
    <3>6. Total(cols(A), D) = Fl(Row(a) + Total(cols(B), D))
      <4> DEFINE f == [y \in D |-> F[a][y]]
      <4>1. \A y \in D : f[y] \in Int /\ cols(B)[y] \in Int /\ cols(A)[y] \in Int
        BY <1>2, <3>1, <3>2
      <4>2. \A y \in D : Fl(cols(A)[y]) = Fl(f[y] + cols(B)[y])
        <5> TAKE y \in D
        <5> DEFINE u == f[y] + cols(B)[y]
        <5>1. cols(A)[y] = Fl(u)
          BY <3>5
        <5>2. u \in Int
          <6>1. f[y] \in Int /\ cols(B)[y] \in Int
            BY <4>1
          <6>2. ASSUME NEW p \in Int, NEW q \in Int PROVE p + q \in Int
            OBVIOUS
          <6> HIDE DEF cols, f
          <6> QED BY <6>1, <6>2
        <5> HIDE DEF u, cols
        <5>3. Fl(cols(A)[y]) = Fl(u)
          BY <5>1, <5>2, FlType, FlField
        <5> QED BY <5>3 DEF u
      <4> HIDE DEF cols
      <4>3. Total(cols(A), D) = Fl(Total(f, D) + Total(cols(B), D))
        BY <4>1, <4>2, TotalSum
      <4> QED BY <4>3
    <3> QED BY <3>3, <3>4, <3>6
  <2> QED BY <2>1, <2>2
<1>4. Total(rows, S) = Total(cols(S), D)
  <2> HIDE DEF P
  <2>1. P \in SUBSET SUBSET S
    BY DEF P
  <2>2. P = SUBSET S
    BY <1>3, <2>1, SubsetInduction
  <2> QED BY <2>2 DEF P
<1> QED BY <1>4

\* A constant adds up to its multiple.
LEMMA TotalConstant ==
    ASSUME NEW S, IsFiniteSet(S), NEW c \in Int, NEW f, \A x \in S : f[x] = c
    PROVE  Total(f, S) = Fl(Cardinality(S) * c)
<1> DEFINE P == {A \in SUBSET S : Total(f, A) = Fl(Cardinality(A) * c)}
<1>1. ASSUME NEW A \in SUBSET S, \A x \in A : A \ {x} \in P
      PROVE  A \in P
  <2>1. IsFiniteSet(A) /\ Cardinality(A) \in Nat
    BY FS_Subset, FS_CardinalityType
  <2>2. CASE A = {}
    <3>1. Cardinality(A) * c = 0
      BY <2>2, FS_EmptySet
    <3>2. Fl(0) = 0
      BY QAssumption DEF Fl
    <3>3. Total(f, A) = 0
      BY <2>2, TotalEmpty
    <3> QED BY <3>1, <3>2, <3>3
  <2>3. CASE A # {}
    <3>1. PICK x \in A : TRUE
      BY <2>3
    <3>2. Total(f, A \ {x}) = Fl(Cardinality(A \ {x}) * c)
      BY <1>1, <3>1
    <3>3. Cardinality(A \ {x}) = Cardinality(A) - 1
      BY <2>1, <3>1, FS_RemoveElement
    <3>4. Total(f, A) = Fl(f[x] + Total(f, A \ {x}))
      BY <2>1, <3>1, TotalStep
    <3> DEFINE n == Cardinality(A)
    <3>5. n \in Int /\ f[x] = c
      BY <2>1, <3>1
    <3>6. Total(f, A) = Fl(c + Fl((n - 1) * c))
      BY <3>2, <3>3, <3>4, <3>5
    <3> HIDE DEF n
    <3>7. (n - 1) * c \in Int /\ c + (n - 1) * c = n * c
      BY <3>5
    <3>8. Fl(c + Fl((n - 1) * c)) = Fl(c + (n - 1) * c)
      BY <3>7, FlAddRight
    <3>9. Total(f, A) = Fl(n * c)
      BY <3>6, <3>7, <3>8
    <3> QED BY <3>9 DEF n
  <2> QED BY <2>2, <2>3
<1> HIDE DEF P
<1>2. P = SUBSET S
  <2>1. P \in SUBSET SUBSET S
    BY DEF P
  <2> QED BY <1>1, <2>1, SubsetInduction
<1>3. S \in P
  BY <1>2
<1> QED BY <1>3 DEF P

-----------------------------------------------------------------------------
(* Lagrange interpolation at zero.                                           *)

\* Products of the same values are the same.
LEMMA ProductSame ==
    ASSUME NEW S, IsFiniteSet(S), NEW f, NEW g, \A x \in S : f[x] \in Int /\ f[x] = g[x]
    PROVE  Product(f, S) = Product(g, S)
<1> DEFINE P == {A \in SUBSET S : Product(f, A) = Product(g, A)}
<1>1. ASSUME NEW A \in SUBSET S, \A x \in A : A \ {x} \in P PROVE A \in P
  <2>1. CASE A = {}
    BY <2>1, ProductEmpty
  <2>2. CASE A # {}
    <3>1. PICK a \in A : TRUE
      BY <2>2
    <3>2. IsFiniteSet(A)
      BY FS_Subset
    <3>3. Product(f, A) = Fl(f[a] * Product(f, A \ {a}))
      BY <3>2, ProductStep
    <3>4. Product(g, A) = Fl(g[a] * Product(g, A \ {a}))
      BY <3>2, ProductStep
    <3>5. Product(f, A \ {a}) = Product(g, A \ {a}) /\ f[a] = g[a]
      BY <1>1
    <3> QED BY <3>3, <3>4, <3>5
  <2> QED BY <2>1, <2>2
<1> HIDE DEF P
<1>2. P \in SUBSET SUBSET S
  BY DEF P
<1>3. P = SUBSET S
  BY <1>1, <1>2, SubsetInduction
<1> QED BY <1>3 DEF P

\* The powers: x to the 0 is 1, and each is x times the one before.
LEMMA XPowStep ==
    ASSUME NEW x \in Int, NEW d \in Nat
    PROVE  XPow(x, 0) = 1 /\ XPow(x, d) \in Field /\ XPow(x, d + 1) = Fl(x * XPow(x, d))
<1> DEFINE f(n) == [k \in 1 .. n |-> x]
<1>1. XPow(x, 0) = 1
  <2>1. 1 .. 0 = {}
    OBVIOUS
  <2> QED BY <2>1, ProductEmpty DEF XPow
<1>2. IsFiniteSet(1 .. d) /\ IsFiniteSet(1 .. d + 1)
  BY FS_Interval
<1>3. XPow(x, d) \in Field
  BY <1>2, ProductType DEF XPow
<1>4. XPow(x, d + 1) = Fl(x * XPow(x, d))
  <2>1. Product(f(d + 1), 1 .. d + 1) = Fl(f(d + 1)[d + 1] * Product(f(d + 1), (1 .. d + 1) \ {d + 1}))
    <3>1. \A k \in 1 .. d + 1 : f(d + 1)[k] \in Int
      OBVIOUS
    <3>2. d + 1 \in 1 .. d + 1
      OBVIOUS
    <3> HIDE DEF f
    <3> QED BY <1>2, <3>1, <3>2, ProductStep
  <2>2. (1 .. d + 1) \ {d + 1} = 1 .. d
    OBVIOUS
  <2>3. Product(f(d + 1), 1 .. d) = Product(f(d), 1 .. d)
    <3>1. \A k \in 1 .. d : f(d + 1)[k] \in Int /\ f(d + 1)[k] = f(d)[k]
      OBVIOUS
    <3> HIDE DEF f
    <3> QED BY <1>2, <3>1, ProductSame
  <2>4. f(d + 1)[d + 1] = x
    OBVIOUS
  <2> QED BY <2>1, <2>2, <2>3, <2>4 DEF XPow
<1> QED BY <1>1, <1>3, <1>4

\* The factor of index j in the coefficient of index i is j / (j - i).
LEMMA Factor ==
    ASSUME NEW i \in 1 .. Q - 1, NEW j \in 1 .. Q - 1, i # j
    PROVE  LET w == Fl(j * Inv(Fl(j - i)))
           IN  w \in Field /\ Fl((j - i) * w) = Fl(j)
<1> DEFINE e == j - i
           v == Inv(Fl(e))
           w == Fl(j * v)
<1>1. e \in Int /\ Fl(e) # 0 /\ i \in Int /\ j \in Int
  <2>1. e \in Int /\ -Q < e /\ e < Q /\ e # 0
    BY QAssumption
  <2>2. CASE e > 0
    BY <2>1, <2>2, FlField, QAssumption DEF Field
  <2>3. CASE e < 0
    <3>1. Fl(e + Q) = e + Q
      BY <2>1, <2>3, FlField, QAssumption DEF Field
    <3>2. Fl(e + Q) = Fl(e)
      <4>1. e + Q = e + 1 * Q /\ e + Q \in Int
        BY <2>1, QAssumption
      <4> QED BY <2>1, <4>1, FlUnique
    <3> QED BY <2>1, <3>1, <3>2, QAssumption
  <2> QED BY <2>1, <2>2, <2>3, QAssumption
<1> HIDE DEF e
<1>2. Fl(e) \in Field /\ Fl(e) \in Int /\ Fl(Fl(e)) # 0
  BY <1>1, FlType, FlField DEF Field
<1>3. v \in Int /\ Fl(Fl(e) * v) = 1
  BY <1>2, InvType DEF Field
<1> HIDE DEF v
<1>4. Fl(e * v) = 1
  BY <1>1, <1>3, FlMul
<1>5. w \in Field /\ w \in Int /\ Fl(w) = w
  <2>1. j * v \in Int
    BY <1>1, <1>3
  <2> QED BY <2>1, FlType, FlField DEF Field
<1>6. Fl(e * w) = Fl(e * (j * v))
  <2> DEFINE p == j * v
  <2>1. p \in Int
    BY <1>1, <1>3
  <2>2. Fl(w) = Fl(p)
    BY <1>5
  <2> HIDE DEF p, w
  <2>3. Fl(e * w) = Fl(e * p)
    BY <1>1, <1>5, <2>1, <2>2, FlProduct
  <2> QED BY <2>3 DEF p
<1>7. Fl(e * (j * v)) = Fl(j * 1)
  <2> DEFINE p == e * v
  <2>1. p \in Int /\ Fl(p) = Fl(1)
    BY <1>1, <1>3, <1>4, FlField, QAssumption DEF Field
  <2>2. e * (j * v) = j * p
    BY <1>1, <1>3
  <2> HIDE DEF p
  <2>3. Fl(j * p) = Fl(j * 1)
    BY <1>1, <2>1, FlProduct
  <2> QED BY <2>2, <2>3
<1> QED BY <1>1, <1>5, <1>6, <1>7 DEF e, v

\* Coefficients are in the field ...
LEMMA LagrangeType ==
    ASSUME NEW S \in SUBSET (1 .. Q - 1), IsFiniteSet(S), NEW i \in S
    PROVE  Lagrange(S, i) \in Field
<1> DEFINE f == [j \in S \ {i} |-> Fl(j * Inv(Fl(j - i)))]
<1>1. \A j \in S \ {i} : f[j] \in Int
  BY Factor DEF Field
<1>2. IsFiniteSet(S \ {i})
  BY FS_Subset
<1>3. Lagrange(S, i) = Product(f, S \ {i})
  BY DEF Lagrange
<1> HIDE DEF f
<1> QED BY <1>1, <1>2, <1>3, ProductType

\* A coefficient is the factor of index a and the coefficient without a.
LEMMA LagrangeStep ==
    ASSUME NEW S \in SUBSET (1 .. Q - 1), IsFiniteSet(S), NEW i \in S, NEW a \in S, i # a
    PROVE  Lagrange(S, i) = Fl(Fl(a * Inv(Fl(a - i))) * Lagrange(S \ {a}, i))
<1> DEFINE f == [j \in S \ {i} |-> Fl(j * Inv(Fl(j - i)))]
           g == [j \in (S \ {a}) \ {i} |-> Fl(j * Inv(Fl(j - i)))]
<1>1. \A j \in S \ {i} : f[j] \in Int
  BY Factor DEF Field
<1>2. IsFiniteSet(S \ {i}) /\ IsFiniteSet((S \ {a}) \ {i})
  BY FS_Subset
<1>3. Lagrange(S, i) = Product(f, S \ {i}) /\ Lagrange(S \ {a}, i) = Product(g, (S \ {a}) \ {i})
  BY DEF Lagrange
<1>4. f[a] = Fl(a * Inv(Fl(a - i))) /\ \A j \in (S \ {a}) \ {i} : f[j] = g[j]
  OBVIOUS
<1>5. (S \ {i}) \ {a} = (S \ {a}) \ {i}
  OBVIOUS
<1> HIDE DEF f, g
<1>6. Product(f, S \ {i}) = Fl(f[a] * Product(f, (S \ {i}) \ {a}))
  BY <1>1, <1>2, ProductStep
<1>7. Product(f, (S \ {a}) \ {i}) = Product(g, (S \ {a}) \ {i})
  BY <1>1, <1>2, <1>4, ProductSame
<1> QED BY <1>3, <1>4, <1>5, <1>6, <1>7

\* ... and so is what they reconstruct.
LEMMA ReconstructType ==
    ASSUME NEW S \in SUBSET (1 .. Q - 1), IsFiniteSet(S), NEW g, \A i \in S : g[i] \in Int
    PROVE  Reconstruct(g, S) \in Field
<1>1. \A i \in S : g[i] * Lagrange(S, i) \in Int
  BY LagrangeType DEF Field
<1> QED BY <1>1, TotalType DEF Reconstruct

\* Two integers that are the same in the field differ by a multiple of Q.
LEMMA FlDifference ==
    ASSUME NEW a \in Int, NEW b \in Int, Fl(a) = Fl(b)
    PROVE  \E k \in Int : a = b + k * Q
<1>1. PICK i \in Int : a = i * Q + Fl(a)
  BY FlQuotient
<1>2. PICK j \in Int : b = j * Q + Fl(b)
  BY FlQuotient
<1>3. Fl(a) \in Int
  BY FlType DEF Field
<1>4. a = b + (i - j) * Q /\ i - j \in Int
  BY <1>1, <1>2, <1>3, QAssumption
<1> QED BY <1>4

\* Multiplying each share by its index: what is reconstructed from that is
\* a times what the index a makes of a difference in the reconstruction.
LEMMA ReconstructShift ==
    ASSUME NEW S \in SUBSET (1 .. Q - 1), IsFiniteSet(S), NEW a \in S,
           NEW g, NEW h, \A i \in S : g[i] \in Int /\ h[i] \in Int /\ Fl(h[i]) = Fl(i * g[i])
    PROVE  Reconstruct(h, S) = Fl(a * (Reconstruct(g, S) - Reconstruct(g, S \ {a})))
<1> DEFINE B == S \ {a}
           u == [i \in S |-> g[i] * Lagrange(S, i)]
           v == [i \in B |-> g[i] * Lagrange(B, i)]
           y == [i \in S |-> h[i] * Lagrange(S, i)]
           R == Total(u, S)
           V == Total(v, B)
<1>1. IsFiniteSet(B) /\ B \in SUBSET (1 .. Q - 1) /\ a \in Int
  BY FS_Subset
<1>2. \A i \in S : Lagrange(S, i) \in Int /\ u[i] \in Int /\ y[i] \in Int
  BY LagrangeType DEF Field
<1>3. \A i \in B : Lagrange(B, i) \in Int /\ v[i] \in Int
  BY <1>1, LagrangeType DEF Field
<1>4. Reconstruct(g, S) = R /\ Reconstruct(g, B) = V /\ Reconstruct(h, S) = Total(y, S)
  BY DEF Reconstruct
<1>5. ASSUME NEW i \in S PROVE Fl(y[i]) = Fl(i * u[i])
  <2> DEFINE p == i * g[i]
             l == Lagrange(S, i)
  <2>1. l \in Int /\ p \in Int /\ h[i] \in Int /\ Fl(h[i]) = Fl(p) /\ y[i] = h[i] * l /\ g[i] \in Int /\ i \in Int
    BY <1>2
  <2>2. u[i] = g[i] * l
    OBVIOUS
  <2>3. ASSUME NEW i1 \in Int, NEW g1 \in Int, NEW l1 \in Int PROVE i1 * (g1 * l1) = (i1 * g1) * l1
    OBVIOUS
  <2>4. i * u[i] = p * l
    BY <2>1, <2>2, <2>3
  <2> HIDE DEF p, l, u, y
  <2>5. Fl(h[i] * l) = Fl(p * l)
    BY <2>1, FlProduct
  <2> QED BY <2>1, <2>4, <2>5
<1>6. ASSUME NEW i \in B PROVE Fl(y[i]) = Fl(a * u[i] + (-a) * v[i])
  <2> DEFINE w == Fl(a * Inv(Fl(a - i)))
             l == Lagrange(S, i)
             m == Lagrange(B, i)
             x == g[i]
  <2>1. w \in Int /\ Fl((a - i) * w) = Fl(a)
    BY Factor DEF Field
  <2>2. l = Fl(w * m)
    BY LagrangeStep
  <2>3. l \in Int /\ m \in Int /\ x \in Int /\ i \in Int /\ a - i \in Int
    <3>1. i \in S /\ i \in Int /\ a - i \in Int
      BY <1>1
    <3> HIDE DEF u, v, y, w
    <3>2. l \in Int
      BY <1>2, <3>1
    <3>3. m \in Int
      BY <1>3
    <3> QED BY <3>1, <3>2, <3>3
  <2>4. u[i] = x * l /\ v[i] = x * m
    OBVIOUS
  <2> HIDE DEF w, l, m, x, u, v, y
  <2>5. PICK k \in Int : l = w * m + k * Q
    <3>1. w * m \in Int
      BY <2>1, <2>3
    <3>2. Fl(l) = Fl(w * m)
      BY <2>2, <3>1, FlType, FlField
    <3> QED BY <2>3, <3>1, <3>2, FlDifference
  <2>6. PICK n \in Int : (a - i) * w = a + n * Q
    <3>1. (a - i) * w \in Int
      BY <2>1, <2>3
    <3> QED BY <1>1, <2>1, <3>1, FlDifference
  <2>7. (a - i) * l = a * m + (n * m + (a - i) * k) * Q
    <3>1. ASSUME NEW e \in Int, NEW q \in Int, e * w = a + n * q
          PROVE  e * (w * m + k * q) = a * m + (n * m + e * k) * q
      <4>1. e * (w * m + k * q) = (e * w) * m + (e * k) * q
        BY <2>1, <2>3
      <4>2. (a + n * q) * m = a * m + (n * m) * q
        BY <1>1, <2>3
      <4>3. (n * m) * q + (e * k) * q = (n * m + e * k) * q
        BY <2>3
      <4>4. e * (w * m + k * q) = (a * m + (n * m) * q) + (e * k) * q
        BY <3>1, <4>1, <4>2
      <4>5. ASSUME NEW b1 \in Int, NEW b2 \in Int, NEW b3 \in Int PROVE (b1 + b2) + b3 = b1 + (b2 + b3)
        OBVIOUS
      <4>6. a * m \in Int /\ (n * m) * q \in Int /\ (e * k) * q \in Int
        BY <1>1, <2>3
      <4> QED BY <4>3, <4>4, <4>5, <4>6
    <3> DEFINE e == a - i
    <3>2. e \in Int /\ e * w = a + n * Q
      BY <2>3, <2>6
    <3> HIDE DEF e
    <3>3. e * l = a * m + (n * m + e * k) * Q
      BY <2>5, <3>1, <3>2, QAssumption
    <3> QED BY <3>3 DEF e
  <2> DEFINE j == n * m + (a - i) * k
  <2>8. j \in Int
    BY <2>3
  <2>9. (a - i) * l = a * m + j * Q
    BY <2>7
  <2> HIDE DEF j
  <2>10. i * (x * l) = (a * (x * l) + (-a) * (x * m)) + (-(x * j)) * Q
    <3>1. ASSUME NEW q \in Int, (a - i) * l = a * m + j * q
          PROVE  i * (x * l) = (a * (x * l) + (-a) * (x * m)) + (-(x * j)) * q
      <4>1. i * (x * l) = a * (x * l) - x * ((a - i) * l)
        BY <1>1, <2>3
      <4>2. x * (a * m + j * q) = a * (x * m) + (x * j) * q
        BY <1>1, <2>3, <2>8
      <4>3. i * (x * l) = a * (x * l) - (a * (x * m) + (x * j) * q)
        BY <3>1, <4>1, <4>2
      <4>4. ASSUME NEW p \in Int, NEW r \in Int, NEW e \in Int
            PROVE  a * p - (a * r + e * q) = (a * p + (-a) * r) + (-e) * q
        BY <1>1
      <4>5. x * l \in Int /\ x * m \in Int /\ x * j \in Int
        BY <2>3, <2>8
      <4> QED BY <4>3, <4>4, <4>5
    <3> QED BY <2>9, <3>1, QAssumption
  <2>11. Fl(i * u[i]) = Fl(a * u[i] + (-a) * v[i])
    <3>1. i * (x * l) \in Int /\ a * (x * l) + (-a) * (x * m) \in Int /\ -(x * j) \in Int
      BY <1>1, <2>3, <2>8
    <3> QED BY <2>4, <2>10, <3>1, FlUnique
  <2> QED BY <1>5, <2>11
<1> HIDE DEF u, v, y
<1>7. Total(y, B) = Fl(a * Total(u, B) + (-a) * V)
  <2> DEFINE s == [i \in B |-> a * u[i]]
             t == [i \in B |-> (-a) * v[i]]
  <2>1. \A i \in B : s[i] \in Int /\ t[i] \in Int /\ y[i] \in Int /\ u[i] \in Int /\ v[i] \in Int
    BY <1>1, <1>2, <1>3
  <2>2. \A i \in B : Fl(y[i]) = Fl(s[i] + t[i])
    BY <1>6
  <2>3. \A i \in B : s[i] = a * u[i] /\ t[i] = (-a) * v[i]
    OBVIOUS
  <2> HIDE DEF s, t, B
  <2>4. Total(y, B) = Fl(Total(s, B) + Total(t, B))
    BY <1>1, <2>1, <2>2, TotalSum
  <2>5. Total(s, B) = Fl(a * Total(u, B))
    BY <1>1, <2>1, <2>3, TotalScale
  <2>6. Total(t, B) = Fl((-a) * Total(v, B))
    <3>1. -a \in Int
      BY <1>1
    <3> QED BY <1>1, <2>1, <2>3, <3>1, TotalScale
  <2> DEFINE c == a * Total(u, B)
             d == (-a) * Total(v, B)
  <2>7. Total(u, B) \in Int /\ Total(v, B) \in Int
    <3>1. Total(u, B) \in Field
      BY <1>1, <2>1, TotalType
    <3>2. Total(v, B) \in Field
      BY <1>1, <2>1, TotalType
    <3> QED BY <3>1, <3>2 DEF Field
  <2>8. c \in Int /\ d \in Int
    BY <1>1, <2>7
  <2> HIDE DEF c, d
  <2>9. Fl(c) \in Int /\ Fl(d) \in Int /\ Fl(Fl(c)) = Fl(c) /\ Fl(Fl(d)) = Fl(d)
    BY <2>8, FlType, FlField DEF Field
  <2>10. Fl(Fl(c) + Fl(d)) = Fl(c + d)
    BY <2>8, <2>9, FlSum
  <2> QED BY <2>4, <2>5, <2>6, <2>10 DEF c, d
<1>8. R = Fl(u[a] + Total(u, B)) /\ Total(y, S) = Fl(y[a] + Total(y, B))
  BY <1>2, TotalStep
<1> DEFINE U == Total(u, B)
           z == a * U + (-a) * V
<1>9. U \in Int /\ V \in Int /\ R \in Int
  <2>1. \A i \in B : u[i] \in Int
    BY <1>2
  <2>2. U \in Field
    BY <1>1, <2>1, TotalType
  <2>3. V \in Field
    BY <1>1, <1>3, TotalType
  <2>4. R \in Field
    BY <1>2, TotalType
  <2> QED BY <2>2, <2>3, <2>4 DEF Field
<1>10. u[a] \in Int /\ y[a] \in Int /\ Fl(y[a]) = Fl(a * u[a]) /\ z \in Int /\ a * u[a] \in Int
  BY <1>1, <1>2, <1>5, <1>9
<1>11. Total(y, S) = Fl(a * u[a] + z)
  <2> DEFINE b == y[a]
             c == a * u[a]
  <2>1. Total(y, S) = Fl(b + Fl(z)) /\ b \in Int /\ c \in Int /\ z \in Int /\ Fl(b) = Fl(c)
    BY <1>7, <1>8, <1>10
  <2> HIDE DEF b, c, z
  <2>2. Fl(b + Fl(z)) = Fl(b + z)
    BY <2>1, FlAddRight
  <2>3. Fl(b + z) = Fl(c + z)
    <3>1. Fl(z) = Fl(z)
      OBVIOUS
    <3> QED BY <2>1, <3>1, FlSum
  <2> QED BY <2>1, <2>2, <2>3 DEF c
<1>12. Fl(a * (R - V)) = Fl(a * ((u[a] + U) - V))
  <2> DEFINE b == u[a] + U
             c == b - V
             d == R - V
  <2>1. b \in Int /\ c \in Int /\ d \in Int /\ -V \in Int /\ c = b + (-V) /\ d = R + (-V)
    BY <1>9, <1>10
  <2>2. R = Fl(b)
    BY <1>8
  <2> HIDE DEF b, c, d, R
  <2>3. Fl(R) = Fl(b) /\ R \in Int
    BY <2>1, <2>2, FlType, FlField DEF Field
  <2>4. Fl(d) = Fl(c)
    BY <2>1, <2>3, FlSum
  <2>5. Fl(a * d) = Fl(a * c)
    BY <1>1, <2>1, <2>4, FlProduct
  <2> QED BY <2>5 DEF b, c, d
<1>13. a * ((u[a] + U) - V) = a * u[a] + z
  <2>1. ASSUME NEW p \in Int, NEW q \in Int, NEW r \in Int
        PROVE  a * ((p + q) - r) = a * p + (a * q + (-a) * r)
    BY <1>1
  <2> HIDE DEF U, V
  <2> QED BY <1>9, <1>10, <2>1
<1> QED BY <1>4, <1>11, <1>12, <1>13

\* The constant 1 is reconstructed as 1: the coefficients add up to it.
LEMMA ReconstructOnes ==
    ASSUME NEW S \in SUBSET (1 .. Q - 1), IsFiniteSet(S), S # {},
           NEW g, \A i \in S : g[i] = 1
    PROVE  Reconstruct(g, S) = 1
<1> DEFINE P == {A \in SUBSET S : A # {} => Reconstruct(g, A) = 1}
<1>1. ASSUME NEW A \in SUBSET S, \A x \in A : A \ {x} \in P PROVE A \in P
  <2> SUFFICES ASSUME A # {} PROVE Reconstruct(g, A) = 1
    OBVIOUS
  <2>1. IsFiniteSet(A) /\ A \in SUBSET (1 .. Q - 1)
    BY FS_Subset
  <2>2. PICK a \in A : TRUE
    OBVIOUS
  <2>3. CASE A = {a}
    <3> DEFINE f == [i \in A |-> g[i] * Lagrange(A, i)]
    <3>1. A \ {a} = {}
      BY <2>3
    <3>2. Lagrange(A, a) = 1
      BY <3>1, ProductEmpty DEF Lagrange
    <3>3. \A i \in A : f[i] \in Int
      BY <2>1, LagrangeType DEF Field
    <3>4. f[a] = 1
      BY <2>2, <3>2
    <3>5. Reconstruct(g, A) = Total(f, A)
      BY DEF Reconstruct
    <3> HIDE DEF f
    <3>6. Total(f, A) = Fl(f[a] + Total(f, A \ {a}))
      BY <2>1, <2>2, <3>3, TotalStep
    <3>7. Total(f, A \ {a}) = 0
      BY <3>1, TotalEmpty
    <3> QED BY <3>4, <3>5, <3>6, <3>7, FlField, QAssumption DEF Field
  <2>4. ASSUME NEW b \in A, b # a PROVE Reconstruct(g, A) = 1
    <3> DEFINE R == Reconstruct(g, A)
               h == [i \in A |-> i]
               r == R - 1
    <3>1. \A i \in A : g[i] \in Int /\ h[i] \in Int /\ Fl(h[i]) = Fl(i * g[i]) /\ i \in Int
      OBVIOUS
    <3>2. R \in Field /\ r \in Int
      BY <2>1, <3>1, ReconstructType DEF Field
    <3>3. Reconstruct(g, A \ {a}) = 1 /\ Reconstruct(g, A \ {b}) = 1
      BY <1>1, <2>2, <2>4
    <3>4. Reconstruct(h, A) = Fl(a * r)
      <4> HIDE DEF h
      <4>1. Reconstruct(h, A) = Fl(a * (R - Reconstruct(g, A \ {a})))
        BY <2>1, <3>1, ReconstructShift
      <4> QED BY <3>3, <4>1
    <3>5. Reconstruct(h, A) = Fl(b * r)
      <4> HIDE DEF h
      <4>1. Reconstruct(h, A) = Fl(b * (R - Reconstruct(g, A \ {b})))
        BY <2>1, <3>1, ReconstructShift
      <4> QED BY <3>3, <4>1
    <3> HIDE DEF R, r
    <3>6. a \in Int /\ b \in Int /\ a - b \in Int /\ a * r \in Int /\ b * r \in Int /\ a \in Field /\ b \in Field
      BY <2>1, <3>1, <3>2 DEF Field
    <3>7. Fl((a - b) * r) = 0
      <4>1. PICK k \in Int : a * r = b * r + k * Q
        BY <3>4, <3>5, <3>6, FlDifference
      <4>2. (a - b) * r = a * r - b * r
        BY <3>2, <3>6
      <4>3. (a - b) * r = 0 + k * Q
        BY <3>6, <4>1, <4>2, QAssumption
      <4>4. (a - b) * r \in Int
        BY <3>2, <3>6
      <4>5. Fl((a - b) * r) = Fl(0)
        BY <4>3, <4>4, FlUnique
      <4> QED BY <4>5, FlField, QAssumption DEF Field
    <3>8. Fl(r) = 0
      BY <2>4, <3>2, <3>6, <3>7, FlDistinct, FlIntegral
    <3>9. 1 \in Field
      BY QAssumption DEF Field
    <3>10. R = 1
      BY <3>2, <3>8, <3>9, FlDistinct DEF r
    <3> QED BY <3>10 DEF R
  <2> QED BY <2>2, <2>3, <2>4
<1> HIDE DEF P
<1>2. P \in SUBSET SUBSET S
  BY DEF P
<1>3. P = SUBSET S
  BY <1>1, <1>2, SubsetInduction
<1> QED BY <1>3 DEF P

\* The power d of the index is reconstructed as its value at 0 when there are
\* more indices than d.
LEMMA ReconstructPowers ==
    ASSUME NEW d \in Nat, NEW S \in SUBSET (1 .. Q - 1), IsFiniteSet(S), Cardinality(S) > d
    PROVE  Reconstruct([i \in S |-> XPow(i, d)], S) = IF d = 0 THEN 1 ELSE 0
<1> DEFINE M(n, A) == Reconstruct([i \in A |-> XPow(i, n)], A)
           Sets == {A \in SUBSET (1 .. Q - 1) : IsFiniteSet(A)}
           P == {n \in Nat : \A A \in Sets :
                    Cardinality(A) > n => M(n, A) = IF n = 0 THEN 1 ELSE 0}
<1>1. 0 \in P
  <2> SUFFICES ASSUME NEW A \in Sets, Cardinality(A) > 0 PROVE M(0, A) = 1
    OBVIOUS
  <2>1. A # {}
    BY FS_EmptySet
  <2> DEFINE g == [i \in A |-> XPow(i, 0)]
  <2>2. \A i \in A : g[i] = 1
    BY XPowStep
  <2> HIDE DEF g
  <2>3. Reconstruct(g, A) = 1
    BY <2>1, <2>2, ReconstructOnes
  <2> QED BY <2>3 DEF g
<1>2. ASSUME NEW n \in P PROVE n + 1 \in P
  <2> SUFFICES ASSUME NEW A \in Sets, Cardinality(A) > n + 1 PROVE M(n + 1, A) = 0
    BY DEF P
  <2>1. A # {}
    BY FS_EmptySet
  <2>2. PICK a \in A : TRUE
    BY <2>1
  <2> DEFINE B == A \ {a}
             g == [i \in A |-> XPow(i, n)]
             h == [i \in A |-> XPow(i, n + 1)]
  <2>3. B \in Sets /\ Cardinality(B) > n /\ Cardinality(A) > n
    <3>1. IsFiniteSet(B) /\ Cardinality(B) = Cardinality(A) - 1 /\ Cardinality(A) \in Int
      BY <2>2, FS_RemoveElement, FS_CardinalityType
    <3> QED BY <3>1
  <2>4. \A i \in A : g[i] \in Int /\ h[i] \in Int /\ Fl(h[i]) = Fl(i * g[i])
    <3> TAKE i \in A
    <3>1. i \in Int /\ n \in Nat
      OBVIOUS
    <3>2. g[i] \in Field /\ h[i] = Fl(i * g[i])
      BY <3>1, XPowStep
    <3>3. g[i] \in Int /\ i * g[i] \in Int
      BY <3>1, <3>2 DEF Field
    <3> HIDE DEF g, h
    <3> QED BY <3>2, <3>3, FlType, FlField DEF Field
  <2>5. Reconstruct(g, A) = M(n, A) /\ Reconstruct(h, A) = M(n + 1, A)
    OBVIOUS
  <2>6. Reconstruct(g, B) = M(n, B)
    <3> DEFINE f == [i \in B |-> XPow(i, n)]
    <3>1. [i \in B |-> g[i] * Lagrange(B, i)] = [i \in B |-> f[i] * Lagrange(B, i)]
      OBVIOUS
    <3> QED BY <3>1 DEF Reconstruct
  <2>7. M(n, A) = M(n, B)
    BY <2>3
  <2> HIDE DEF g, h
  <2>8. Reconstruct(h, A) = Fl(a * (Reconstruct(g, A) - Reconstruct(g, B)))
    BY <2>2, <2>4, ReconstructShift
  <2>9. Reconstruct(g, A) - Reconstruct(g, B) = 0
    <3>1. Reconstruct(g, A) \in Int
      BY <2>4, ReconstructType DEF Field
    <3> QED BY <2>5, <2>6, <2>7, <3>1
  <2>10. a * 0 = 0 /\ Fl(0) = 0
    BY <2>2, FlField, QAssumption DEF Field
  <2> QED BY <2>5, <2>8, <2>9, <2>10
<1> HIDE DEF P
<1>3. P \in SUBSET Nat /\ \A n \in P : n + 1 \in P
  BY <1>2 DEF P
<1>4. P = Nat
  BY <1>1, <1>3, NaturalSetInduction
<1> QED BY <1>4 DEF P

\* Reconstruction is linear: from totals over D it gives the total of what is
\* reconstructed from each.
LEMMA ReconstructTotal ==
    ASSUME NEW S \in SUBSET (1 .. Q - 1), IsFiniteSet(S), NEW D, IsFiniteSet(D),
           NEW F, \A j \in D : \A i \in S : F[j][i] \in Int,
           NEW g, \A i \in S : g[i] \in Int /\ Fl(g[i]) = Total([j \in D |-> F[j][i]], D)
    PROVE  Reconstruct(g, S) = Total([j \in D |-> Reconstruct(F[j], S)], D)
<1> DEFINE H == [i \in S |-> [j \in D |-> F[j][i] * Lagrange(S, i)]]
           y == [i \in S |-> g[i] * Lagrange(S, i)]
           row == [i \in S |-> Total([j \in D |-> H[i][j]], D)]
           col == [j \in D |-> Total([i \in S |-> H[i][j]], S)]
<1>1. \A i \in S : Lagrange(S, i) \in Int
  BY LagrangeType DEF Field
<1>2. \A i \in S : \A j \in D : H[i][j] \in Int
  BY <1>1
<1>3. \A i \in S : y[i] \in Int /\ row[i] \in Int /\ Fl(y[i]) = Fl(row[i])
  <2> TAKE i \in S
  <2> DEFINE l == Lagrange(S, i)
             f == [j \in D |-> F[j][i]]
             h == [j \in D |-> H[i][j]]
             x == g[i]
  <2>1. l \in Int /\ x \in Int /\ Fl(x) = Total(f, D) /\ y[i] = x * l /\ row[i] = Total(h, D)
    BY <1>1
  <2>2. \A j \in D : f[j] \in Int /\ h[j] \in Int /\ h[j] = l * f[j]
    <3> TAKE j \in D
    <3>1. f[j] \in Int /\ h[j] = f[j] * l
      OBVIOUS
    <3> HIDE DEF f, h, l
    <3> QED BY <2>1, <3>1
  <2> HIDE DEF l, f, h, x, y, row
  <2>3. Total(h, D) = Fl(l * Total(f, D))
    BY <2>1, <2>2, TotalScale
  <2>4. Fl(l * Fl(x)) = Fl(l * x)
    BY <2>1, FlMulRight
  <2>5. l * x = x * l /\ x * l \in Int
    BY <2>1
  <2>6. row[i] = Fl(y[i])
    BY <2>1, <2>3, <2>4, <2>5
  <2> QED BY <2>1, <2>5, <2>6, FlType, FlField DEF Field
<1>4. Total(row, S) = Total(col, D)
  <2> HIDE DEF H
  <2> QED BY <1>2, TotalSwap
<1>5. Total(y, S) = Total(row, S)
  <2> HIDE DEF y, row
  <2> QED BY <1>3, TotalSame
<1>6. col = [j \in D |-> Reconstruct(F[j], S)]
  <2> SUFFICES ASSUME NEW j \in D PROVE Total([i \in S |-> H[i][j]], S) = Reconstruct(F[j], S)
    OBVIOUS
  <2>1. [i \in S |-> H[i][j]] = [i \in S |-> F[j][i] * Lagrange(S, i)]
    OBVIOUS
  <2> QED BY <2>1 DEF Reconstruct
<1> QED BY <1>4, <1>5, <1>6 DEF Reconstruct

\* A factor of all shares is a factor of the reconstruction.
LEMMA ReconstructScale ==
    ASSUME NEW S \in SUBSET (1 .. Q - 1), IsFiniteSet(S), NEW c \in Int,
           NEW g, NEW h, \A i \in S : g[i] \in Int /\ h[i] \in Int /\ Fl(h[i]) = Fl(c * g[i])
    PROVE  Reconstruct(h, S) = Fl(c * Reconstruct(g, S))
<1> DEFINE u == [i \in S |-> g[i] * Lagrange(S, i)]
           y == [i \in S |-> h[i] * Lagrange(S, i)]
<1>1. \A i \in S : u[i] \in Int /\ y[i] \in Int /\ Fl(y[i]) = Fl(c * u[i])
  <2> TAKE i \in S
  <2> DEFINE p == c * g[i]
             l == Lagrange(S, i)
             q == h[i]
  <2>1. l \in Int /\ g[i] \in Int /\ q \in Int /\ p \in Int /\ Fl(q) = Fl(p)
    BY LagrangeType DEF Field
  <2>2. u[i] = g[i] * l /\ y[i] = q * l
    OBVIOUS
  <2>3. ASSUME NEW g1 \in Int PROVE c * (g1 * l) = (c * g1) * l
    BY <2>1
  <2>4. c * u[i] = p * l
    BY <2>1, <2>2, <2>3
  <2> HIDE DEF p, l, q, u, y
  <2>5. Fl(q * l) = Fl(p * l)
    <3>1. Fl(Fl(q) * l) = Fl(q * l)
      BY <2>1, FlMul
    <3>2. Fl(Fl(p) * l) = Fl(p * l)
      BY <2>1, FlMul
    <3> QED BY <2>1, <3>1, <3>2
  <2> QED BY <2>1, <2>2, <2>4, <2>5
<1>2. Reconstruct(g, S) = Total(u, S) /\ Reconstruct(h, S) = Total(y, S)
  BY DEF Reconstruct
<1> HIDE DEF u, y
<1>3. Total(y, S) = Fl(c * Total(u, S))
  BY <1>1, TotalScale
<1> QED BY <1>2, <1>3

\* A share is in the field.
LEMMA EvalType ==
    ASSUME NEW t \in Nat, NEW poly \in Polynomials(t), NEW x \in Int
    PROVE  Eval(poly, x) \in Field
<1>1. IsFiniteSet(0 .. t - 1) /\ DOMAIN poly = 0 .. t - 1
  BY FS_Interval DEF Polynomials
<1>2. \A d \in 0 .. t - 1 : poly[d] * XPow(x, d) \in Int
  BY XPowStep DEF Polynomials, Field
<1> QED BY <1>1, <1>2, TotalType DEF Eval

\* shamir::reconstruct gives the secret back: as many shares of a polynomial as
\* it has coefficients interpolate to its value at zero.
THEOREM Interpolation ==
    ASSUME NEW S \in SUBSET (1 .. Q - 1), IsFiniteSet(S),
           NEW t \in 1 .. Cardinality(S), NEW poly \in Polynomials(t),
           NEW g, \A i \in S : g[i] = Eval(poly, i)
    PROVE  Reconstruct(g, S) = poly[0]
<1> DEFINE D == 0 .. t - 1
           F == [d \in D |-> [i \in S |-> poly[d] * XPow(i, d)]]
           G(d) == [i \in S |-> XPow(i, d)]
           y == [d \in D |-> Reconstruct(F[d], S)]
<1>1. t \in Nat /\ t > 0 /\ IsFiniteSet(D) /\ DOMAIN poly = D /\ \A d \in D : poly[d] \in Field /\ poly[d] \in Int /\ d \in Nat
  <2>1. t \in Nat /\ t > 0
    BY FS_CardinalityType
  <2>2. IsFiniteSet(D)
    BY <2>1, FS_Interval
  <2> QED BY <2>1, <2>2 DEF Polynomials, Field
<1>2. \A d \in D : \A i \in S : XPow(i, d) \in Int /\ F[d][i] \in Int
  <2> TAKE d \in D
  <2> TAKE i \in S
  <2>1. d \in Nat /\ i \in Int /\ poly[d] \in Int /\ F[d][i] = poly[d] * XPow(i, d)
    BY <1>1
  <2> HIDE DEF F
  <2>2. XPow(i, d) \in Int
    BY <2>1, XPowStep DEF Field
  <2> QED BY <2>1, <2>2
<1>3. Reconstruct(g, S) = Total(y, D)
  <2>1. \A i \in S : g[i] \in Int /\ Fl(g[i]) = Total([d \in D |-> F[d][i]], D)
    <3> TAKE i \in S
    <3>1. g[i] \in Field /\ g[i] \in Int
      <4>1. i \in Int
        OBVIOUS
      <4>2. Eval(poly, i) \in Field
        BY <1>1, <4>1, EvalType
      <4> QED BY <4>2 DEF Field
    <3>2. [d \in D |-> F[d][i]] = [d \in DOMAIN poly |-> poly[d] * XPow(i, d)]
      BY <1>1
    <3>3. g[i] = Total([d \in D |-> F[d][i]], D)
      BY <1>1, <3>2 DEF Eval
    <3> HIDE DEF F, D
    <3> QED BY <3>1, <3>3, FlField
  <2> HIDE DEF F, D
  <2> QED BY <1>1, <1>2, <2>1, ReconstructTotal
<1>4. \A d \in D : y[d] = IF d = 0 THEN poly[0] ELSE 0
  <2> TAKE d \in D
  <2>1. y[d] = Fl(poly[d] * Reconstruct(G(d), S))
    <3>1. \A i \in S : G(d)[i] \in Int /\ F[d][i] \in Int /\ Fl(F[d][i]) = Fl(poly[d] * G(d)[i])
      BY <1>2
    <3>2. y[d] = Reconstruct(F[d], S)
      OBVIOUS
    <3> HIDE DEF F, G, y
    <3> QED BY <1>1, <3>1, <3>2, ReconstructScale
  <2>2. Reconstruct(G(d), S) = IF d = 0 THEN 1 ELSE 0
    <3>1. Cardinality(S) > d
      BY FS_CardinalityType
    <3> QED BY <1>1, <3>1, ReconstructPowers
  <2>3. poly[d] * 1 = poly[d] /\ poly[d] * 0 = 0 /\ Fl(poly[d]) = poly[d] /\ Fl(0) = 0
    BY <1>1, FlField, QAssumption DEF Field
  <2> HIDE DEF y, G, F
  <2> QED BY <2>1, <2>2, <2>3
<1>5. Total(y, D) = poly[0]
  <2>1. 0 \in D /\ \A d \in D : y[d] \in Int
    BY <1>1, <1>4
  <2> DEFINE z == [d \in D \ {0} |-> 0]
  <2>2. IsFiniteSet(D \ {0})
    BY <1>1, FS_Subset
  <2> HIDE DEF y, D
  <2>3. Total(y, D) = Fl(y[0] + Total(y, D \ {0}))
    BY <1>1, <2>1, TotalStep
  <2>4. Total(y, D \ {0}) = Fl(0 * Total(y, D \ {0}))
    <3>1. \A d \in D \ {0} : y[d] \in Int /\ y[d] = 0 /\ 0 * y[d] = 0
      BY <1>4
    <3> QED BY <2>2, <3>1, TotalScale
  <2>5. Total(y, D \ {0}) \in Int
    BY <2>1, <2>2, TotalType DEF Field
  <2>6. Total(y, D \ {0}) = 0
    <3>1. 0 * Total(y, D \ {0}) = 0
      BY <2>5
    <3> QED BY <2>4, <3>1, FlField, QAssumption DEF Field
  <2>7. y[0] = poly[0] /\ poly[0] \in Field /\ poly[0] + 0 = poly[0]
    BY <1>1, <1>4, <2>1
  <2> QED BY <2>3, <2>6, <2>7, FlField
<1> QED BY <1>3, <1>5


-----------------------------------------------------------------------------
(* ECDSA.                                                                    *)

\* In the field, the negative is zero or what is missing to Q.
LEMMA NegField ==
    ASSUME NEW a \in Field
    PROVE  Neg(a) = IF a = 0 THEN 0 ELSE Q - a
<1>1. CASE a = 0
  BY <1>1, QAssumption DEF Neg
<1>2. CASE a # 0
  BY <1>2, QAssumption DEF Neg, Field
<1> QED BY <1>1, <1>2

\* Of s and -s the smaller one is taken, so taking it again changes nothing.
LEMMA LowSType ==
    ASSUME NEW s \in Field
    PROVE  /\ LowS(s) \in Field
           /\ LowS(s) = s \/ (LowS(s) = Q - s /\ s # 0)
           /\ LowS(LowS(s)) = LowS(s)
           /\ LowS(s) = 0 <=> s = 0
<1>1. CASE s = 0
  BY <1>1, NegField, QAssumption DEF LowS, Field
<1>2. CASE s # 0
  <2>1. s \in Int /\ s > 0 /\ s < Q /\ Q \in Int
    BY <1>2, QAssumption DEF Field
  <2>2. Neg(s) = Q - s /\ Q - s \in Field
    BY <1>2, <2>1, NegField DEF Field
  <2>3. Neg(Q - s) = s
    BY <2>1, <2>2, NegField
  <2>4. CASE s > Q - s
    BY <1>2, <2>1, <2>2, <2>3, <2>4 DEF LowS
  <2>5. CASE ~(s > Q - s)
    BY <1>2, <2>1, <2>2, <2>3, <2>5 DEF LowS
  <2> QED BY <2>4, <2>5
<1> QED BY <1>1, <1>2

\* Two points share an x-coordinate when one is minus the other.
LEMMA XCoordType ==
    ASSUME NEW R \in Field
    PROVE  XCoord(R) \in Field /\ XCoord(Fl(-R)) = XCoord(R)
<1>0. R \in Int /\ R >= 0 /\ R < Q /\ Q \in Int /\ Q > 2
  BY QAssumption DEF Field
<1>1. CASE R = 0
  BY <1>0, <1>1, QAssumption DEF XCoord, Field, Fl
<1>2. CASE R # 0
  <2>1. Fl(-R) = Q - R
    <3>1. Q - R \in Field
      BY <1>0, <1>2 DEF Field
    <3>2. Fl(-R) = Fl(Q - R)
      BY <1>0, FlUnique
    <3> QED BY <3>1, <3>2, FlField
  <2> QED BY <1>0, <1>2, <2>1 DEF XCoord, Field
<1> QED BY <1>1, <1>2

\* The signature equation s R = m + r pk, for the nonce point R that r is the
\* x-coordinate of, makes the signature verify, in either form of s.
THEOREM SignatureVerifies ==
    ASSUME NEW R \in Field, NEW pk \in Field, NEW m \in Field, NEW s \in Field, s # 0,
           Fl(s * R) = Fl(m + XCoord(R) * pk)
    PROVE  VerifyEcdsa([r |-> XCoord(R), s |-> LowS(s)], pk, m)
<1> DEFINE r == XCoord(R)
           t == LowS(s)
           i == Inv(t)
<1>0. /\ Q \in Int /\ R \in Int /\ pk \in Int /\ m \in Int /\ s \in Int
      /\ r \in Int /\ r \in Field
  BY QAssumption, XCoordType DEF Field
<1>1. t \in Field /\ t \in Int /\ t # 0 /\ (t = s \/ t = Q - s)
  BY LowSType DEF Field
<1>2. i \in Int /\ Fl(t * i) = 1
  <2>1. Fl(t) # 0
    BY <1>1, FlField
  <2> QED BY <1>1, <2>1, InvType DEF Field
<1> HIDE DEF r, t, i
<1>3. Fl(Fl(m * i) + Fl(r * i) * pk) = Fl(i * (s * R))
  <2>1. Fl(Fl(m * i) + Fl(r * i) * pk) = Fl((m * i) + (r * i) * pk)
    <3>1. Fl(Fl(r * i) * pk) = Fl((r * i) * pk)
      BY <1>0, <1>2, FlMul
    <3>2. Fl(Fl(m * i)) = Fl(m * i)
      <4> DEFINE p == m * i
      <4>1. p \in Int
        BY <1>0, <1>2
      <4> HIDE DEF p
      <4>2. Fl(Fl(p)) = Fl(p)
        BY <4>1, FlType, FlField
      <4> QED BY <4>2 DEF p
    <3>3. /\ m * i \in Int /\ Fl(m * i) \in Int
          /\ (r * i) * pk \in Int /\ Fl(r * i) * pk \in Int
      BY <1>0, <1>2, FlType DEF Field
    <3> DEFINE a == Fl(m * i)
               b == Fl(r * i) * pk
               c == m * i
               d == (r * i) * pk
    <3> HIDE DEF a, b, c, d
    <3>4. Fl(a + b) = Fl(c + d)
      <4>1. a \in Int /\ b \in Int /\ c \in Int /\ d \in Int /\ Fl(a) = Fl(c) /\ Fl(b) = Fl(d)
        BY <3>1, <3>2, <3>3 DEF a, b, c, d
      <4> QED BY <4>1, FlSum
    <3> QED BY <3>4 DEF a, b, c, d
  <2>2. (m * i) + (r * i) * pk = i * (m + r * pk)
    BY <1>0, <1>2
  <2>3. Fl(i * (m + r * pk)) = Fl(i * (s * R))
    <3> DEFINE a == m + r * pk
               b == s * R
    <3>1. a \in Int /\ b \in Int /\ Fl(a) = Fl(b) /\ Fl(i) = Fl(i)
      BY <1>0 DEF r
    <3> HIDE DEF a, b
    <3>2. Fl(i * a) = Fl(i * b)
      BY <1>2, <3>1, FlProduct
    <3> QED BY <3>2 DEF a, b
  <2> QED BY <2>1, <2>2, <2>3
<1>4. XCoord(Fl(i * (s * R))) = r
  <2>1. CASE t = s
    <3>1. Fl(i * (s * R)) = Fl((t * i) * R)
      <4>1. i * (s * R) = (s * i) * R
        BY <1>0, <1>2
      <4> QED BY <2>1, <4>1
    <3>2. Fl((t * i) * R) = Fl(1 * R)
      <4> DEFINE a == t * i
      <4>1. a \in Int /\ Fl(a) = Fl(1)
        <5>1. 1 \in Field
          BY QAssumption DEF Field
        <5> QED BY <1>1, <1>2, <5>1, FlField
      <4> HIDE DEF a
      <4>2. Fl(a * R) = Fl(1 * R)
        BY <1>0, <4>1, FlProduct
      <4> QED BY <4>2 DEF a
    <3>3. Fl(1 * R) = R
      BY <1>0, FlField
    <3> QED BY <3>1, <3>2, <3>3 DEF r
  <2>2. CASE t = Q - s
    <3>1. Fl(i * (s * R)) = Fl((t * i) * (-R))
      <4>1. i * (s * R) = ((Q - s) * i) * (-R) + (i * R) * Q
        BY <1>0, <1>2
      <4>2. /\ i * (s * R) \in Int /\ ((Q - s) * i) * (-R) \in Int /\ i * R \in Int
        BY <1>0, <1>2
      <4> DEFINE a == i * (s * R)
                 b == ((Q - s) * i) * (-R)
                 k == i * R
      <4>3. Fl(a) = Fl(b)
        <5>1. a \in Int /\ b \in Int /\ k \in Int /\ a = b + k * Q
          BY <4>1, <4>2
        <5> HIDE DEF a, b, k
        <5> QED BY <5>1, FlUnique
      <4> QED BY <2>2, <4>3
    <3>2. Fl((t * i) * (-R)) = Fl(1 * (-R))
      <4> DEFINE a == t * i
                 b == -R
      <4>1. a \in Int /\ b \in Int /\ Fl(a) = Fl(1)
        <5>1. 1 \in Field
          BY QAssumption DEF Field
        <5> QED BY <1>0, <1>1, <1>2, <5>1, FlField
      <4> HIDE DEF a, b
      <4>2. Fl(a * b) = Fl(1 * b)
        BY <4>1, FlProduct
      <4> QED BY <4>2 DEF a, b
    <3>3. 1 * (-R) = -R
      BY <1>0
    <3> QED BY <3>1, <3>2, <3>3, XCoordType DEF r
  <2> QED BY <1>1, <2>1, <2>2
<1> QED BY <1>1, <1>3, <1>4 DEF VerifyEcdsa, r, t, i

\* What the sessions' last step returns is, if it verifies, a low-s signature.
LEMMA VerifiedSignature ==
    ASSUME NEW r \in Field, NEW s \in Field
    PROVE  /\ [r |-> r, s |-> LowS(s)] \in Signatures
           /\ LowS(LowS(s)) = LowS(s)
  BY LowSType DEF Signatures

-----------------------------------------------------------------------------
(* Sharings of the polynomials that vanish at some of the parties, and       *)
(* sharings with one share that is wrong.                                    *)

\* A finite set has a subset of every size up to its own.
LEMMA SubsetOfSize ==
    ASSUME NEW D, IsFiniteSet(D), NEW n \in 0 .. Cardinality(D)
    PROVE  \E A \in SUBSET D : IsFiniteSet(A) /\ Cardinality(A) = n
<1> DEFINE P == {A \in SUBSET D : \A k \in Nat : k <= Cardinality(A) =>
                                    \E B \in SUBSET A : IsFiniteSet(B) /\ Cardinality(B) = k}
<1>1. ASSUME NEW A \in SUBSET D, \A x \in A : A \ {x} \in P PROVE A \in P
  <2> SUFFICES ASSUME NEW k \in Nat, k <= Cardinality(A)
               PROVE  \E B \in SUBSET A : IsFiniteSet(B) /\ Cardinality(B) = k
    OBVIOUS
  <2>1. IsFiniteSet(A) /\ Cardinality(A) \in Nat
    BY FS_Subset, FS_CardinalityType
  <2>2. CASE k = Cardinality(A)
    BY <2>1, <2>2
  <2>3. CASE k # Cardinality(A)
    <3>1. k <= Cardinality(A) - 1 /\ A # {}
      BY <2>1, <2>3, FS_EmptySet
    <3>2. PICK x \in A : TRUE
      BY <3>1
    <3>3. Cardinality(A \ {x}) = Cardinality(A) - 1
      BY <2>1, <3>2, FS_RemoveElement
    <3>4. \E B \in SUBSET (A \ {x}) : IsFiniteSet(B) /\ Cardinality(B) = k
      BY <1>1, <3>1, <3>2, <3>3
    <3> QED BY <3>4
  <2> QED BY <2>2, <2>3
<1>2. P \in SUBSET SUBSET D
  OBVIOUS
<1> HIDE DEF P
<1>3. P = SUBSET D
  BY <1>1, <1>2, SubsetInduction
<1>4. \A k \in Nat : k <= Cardinality(D) => \E B \in SUBSET D : IsFiniteSet(B) /\ Cardinality(B) = k
  BY <1>3 DEF P
<1>5. n \in Nat /\ n <= Cardinality(D)
  BY FS_CardinalityType
<1> QED BY <1>4, <1>5

\* A total only depends on where there is something to add.
LEMMA TotalWhere ==
    ASSUME NEW D, IsFiniteSet(D), NEW C \in SUBSET D, NEW f, NEW g,
           \A x \in D : f[x] \in Int, \A x \in C : g[x] = f[x], \A x \in D \ C : Fl(f[x]) = 0
    PROVE  Total(f, D) = Total(g, C)
<1> DEFINE P == {A \in SUBSET D : Total(f, A) = Total(g, A \cap C)}
<1>1. ASSUME NEW A \in SUBSET D, \A x \in A : A \ {x} \in P PROVE A \in P
  <2>1. CASE A = {}
    <3>1. A \cap C = {}
      BY <2>1
    <3> QED BY <2>1, <3>1, TotalEmpty
  <2>2. CASE A # {}
    <3>1. PICK x \in A : TRUE
      BY <2>2
    <3> DEFINE B == A \cap C
               rest == Total(f, A \ {x})
    <3>2. /\ IsFiniteSet(A) /\ \A y \in A : f[y] \in Int
          /\ IsFiniteSet(B) /\ \A y \in B : g[y] \in Int
          /\ IsFiniteSet(A \ {x})
      BY FS_Subset
    <3>3. Total(f, A) = Fl(f[x] + rest) /\ rest \in Field /\ rest \in Int
      <4>1. Total(f, A) = Fl(f[x] + rest)
        BY <3>1, <3>2, TotalStep
      <4>2. rest \in Field
        BY <3>2, TotalType
      <4> QED BY <4>1, <4>2, QAssumption DEF Field
    <3>4. rest = Total(g, (A \ {x}) \cap C)
      BY <1>1, <3>1
    <3>5. CASE x \in C
      <4>1. (A \ {x}) \cap C = B \ {x} /\ x \in B /\ g[x] = f[x]
        BY <3>1, <3>5
      <4> HIDE DEF B, rest
      <4>2. Total(g, B) = Fl(g[x] + Total(g, B \ {x}))
        BY <3>2, <4>1, TotalStep
      <4>3. Total(f, A) = Total(g, B)
        BY <3>3, <3>4, <4>1, <4>2
      <4> QED BY <4>3 DEF B
    <3>6. CASE x \notin C
      <4>1. (A \ {x}) \cap C = B /\ Fl(f[x]) = 0 /\ f[x] \in Int
        BY <3>1, <3>6
      <4> HIDE DEF B, rest
      <4>2. Fl(f[x] + rest) = rest
        <5>1. Fl(Fl(f[x]) + rest) = Fl(f[x] + rest)
          BY <3>3, <4>1, FlAdd
        <5>2. Fl(f[x]) + rest = rest
          BY <3>3, <4>1
        <5> QED BY <3>3, <5>1, <5>2, FlField
      <4>3. Total(f, A) = Total(g, B)
        BY <3>3, <3>4, <4>1, <4>2
      <4> QED BY <4>3 DEF B
    <3> QED BY <3>5, <3>6
  <2> QED BY <2>1, <2>2
<1>2. P \in SUBSET SUBSET D
  OBVIOUS
<1> HIDE DEF P
<1>3. P = SUBSET D
  BY <1>1, <1>2, SubsetInduction
<1>4. Total(f, D) = Total(g, D \cap C)
  BY <1>3 DEF P
<1>5. D \cap C = C
  OBVIOUS
<1> QED BY <1>4, <1>5

\* A product is zero when a factor is, and only then.
LEMMA ProductZero ==
    ASSUME NEW S, IsFiniteSet(S), NEW f, \A x \in S : f[x] \in Int
    PROVE  Product(f, S) = 0 <=> \E x \in S : Fl(f[x]) = 0
<1> DEFINE P == {A \in SUBSET S : Product(f, A) = 0 <=> \E x \in A : Fl(f[x]) = 0}
<1>1. ASSUME NEW A \in SUBSET S, \A x \in A : A \ {x} \in P PROVE A \in P
  <2>1. CASE A = {}
    BY <2>1, ProductEmpty
  <2>2. CASE A # {}
    <3>1. PICK x \in A : TRUE
      BY <2>2
    <3> DEFINE rest == Product(f, A \ {x})
               first == f[x]
    <3>2. IsFiniteSet(A) /\ IsFiniteSet(A \ {x}) /\ \A y \in A : f[y] \in Int
      BY FS_Subset
    <3>3. Product(f, A) = Fl(first * rest)
      BY <3>1, <3>2, ProductStep
    <3>4. rest \in Field /\ rest \in Int /\ first \in Int
      <4>1. rest \in Field
        BY <3>2, ProductType
      <4> QED BY <3>1, <3>2, <4>1, QAssumption DEF Field
    <3>5. rest = 0 <=> \E y \in A \ {x} : Fl(f[y]) = 0
      BY <1>1, <3>1
    <3> HIDE DEF rest, P
    <3>6. Fl(first * rest) = 0 <=> Fl(first) = 0 \/ rest = 0
      <4>1. ASSUME Fl(first * rest) = 0, Fl(first) # 0 PROVE rest = 0
        <5> HIDE DEF first
        <5>1. Fl(rest) = 0
          BY <3>4, <4>1, FlIntegral
        <5> QED BY <3>4, <5>1, FlField
      <4>2. ASSUME Fl(first) = 0 PROVE Fl(first * rest) = 0
        <5> HIDE DEF first
        <5>1. Fl(Fl(first) * rest) = Fl(first * rest)
          BY <3>4, FlMul
        <5>2. Fl(first) * rest = 0
          BY <3>4, <4>2
        <5> QED BY <5>1, <5>2, QAssumption DEF Fl
      <4>3. ASSUME rest = 0 PROVE Fl(first * rest) = 0
        <5> HIDE DEF first
        <5>1. first * rest = 0
          BY <3>4, <4>3
        <5> QED BY <5>1, QAssumption DEF Fl
      <4> QED BY <4>1, <4>2, <4>3
    <3>7. Product(f, A) = 0 <=> \E y \in A : Fl(f[y]) = 0
      <4> HIDE DEF first
      <4>1. Product(f, A) = 0 <=> Fl(first) = 0 \/ \E y \in A \ {x} : Fl(f[y]) = 0
        BY <3>3, <3>5, <3>6
      <4> QED BY <3>1, <4>1 DEF first
    <3> QED BY <3>7 DEF P
  <2> QED BY <2>1, <2>2
<1>2. P \in SUBSET SUBSET S
  OBVIOUS
<1> HIDE DEF P
<1>3. P = SUBSET S
  BY <1>1, <1>2, SubsetInduction
<1> QED BY <1>3 DEF P

LEMMA LagrangeNotZero ==
    ASSUME NEW S \in SUBSET (1 .. Q - 1), IsFiniteSet(S), NEW i \in S
    PROVE  Lagrange(S, i) # 0
<1> DEFINE f == [j \in S \ {i} |-> Fl(j * Inv(Fl(j - i)))]
<1>1. ASSUME NEW j \in S \ {i} PROVE f[j] \in Int /\ Fl(f[j]) # 0
  <2> DEFINE w == Fl(j * Inv(Fl(j - i)))
  <2>1. j \in 1 .. Q - 1 /\ i \in 1 .. Q - 1 /\ i # j
    OBVIOUS
  <2>2. w \in Field /\ Fl((j - i) * w) = Fl(j)
    BY <2>1, Factor
  <2>3. Fl(j) = j /\ j # 0 /\ j \in Int /\ i \in Int
    BY <2>1, FlField, QAssumption DEF Field
  <2>4. w \in Int /\ Fl(w) = w
    BY <2>2, FlField, QAssumption DEF Field
  <2>5. w # 0
    <3> SUFFICES ASSUME w = 0 PROVE FALSE
      OBVIOUS
    <3> HIDE DEF w
    <3>1. (j - i) * w = 0
      BY <2>3
    <3>2. Fl(0) = 0
      BY QAssumption DEF Fl
    <3> QED BY <2>2, <2>3, <3>1, <3>2
  <2> QED BY <2>4, <2>5
<1>2. IsFiniteSet(S \ {i})
  BY FS_Subset
<1>3. Lagrange(S, i) = Product(f, S \ {i})
  BY DEF Lagrange
<1> HIDE DEF f
<1> QED BY <1>1, <1>2, <1>3, ProductZero

LEMMA ReconstructLinear ==
    ASSUME NEW S \in SUBSET (1 .. Q - 1), IsFiniteSet(S), NEW c \in Int, NEW d \in Int,
           NEW g, NEW k, NEW h,
           \A i \in S : /\ g[i] \in Int /\ k[i] \in Int /\ h[i] \in Int
                        /\ Fl(h[i]) = Fl(c * g[i] + d * k[i])
    PROVE  Reconstruct(h, S) = Fl(c * Reconstruct(g, S) + d * Reconstruct(k, S))
<1> DEFINE p == [i \in S |-> c * g[i]]
           q == [i \in S |-> d * k[i]]
           u(f) == [i \in S |-> f[i] * Lagrange(S, i)]
           up == u(p)
           uq == u(q)
           uh == u(h)
<1>1. \A i \in S : p[i] \in Int /\ q[i] \in Int /\ p[i] = c * g[i] /\ q[i] = d * k[i]
  OBVIOUS
<1>2. Reconstruct(p, S) = Fl(c * Reconstruct(g, S)) /\ Reconstruct(q, S) = Fl(d * Reconstruct(k, S))
  <2> HIDE DEF p, q
  <2>1. Reconstruct(p, S) = Fl(c * Reconstruct(g, S))
    BY <1>1, ReconstructScale
  <2>2. Reconstruct(q, S) = Fl(d * Reconstruct(k, S))
    BY <1>1, ReconstructScale
  <2> QED BY <2>1, <2>2
<1>3. \A i \in S : up[i] \in Int /\ uq[i] \in Int /\ uh[i] \in Int /\ Fl(uh[i]) = Fl(up[i] + uq[i])
  <2> TAKE i \in S
  <2> DEFINE l == Lagrange(S, i)
             a == p[i]
             b == q[i]
             e == h[i]
  <2>1. l \in Int /\ a \in Int /\ b \in Int /\ e \in Int
    <3>1. l \in Field
      BY LagrangeType
    <3> QED BY <1>1, <3>1, QAssumption DEF Field
  <2>2. Fl(e) = Fl(a + b)
    BY <1>1
  <2>3. up[i] = a * l /\ uq[i] = b * l /\ uh[i] = e * l
    OBVIOUS
  <2> HIDE DEF p, q, l, a, b, e, up, uq, uh
  <2>4. Fl(e * l) = Fl((a + b) * l)
    <3>1. a + b \in Int
      BY <2>1
    <3> DEFINE ab == a + b
    <3> HIDE DEF ab
    <3>2. Fl(e * l) = Fl(ab * l)
      <4>1. ab \in Int /\ Fl(e) = Fl(ab)
        BY <2>2, <3>1 DEF ab
      <4>2. Fl(Fl(e) * l) = Fl(e * l)
        BY <2>1, FlMul
      <4>3. Fl(Fl(ab) * l) = Fl(ab * l)
        BY <2>1, <4>1, FlMul
      <4> QED BY <4>1, <4>2, <4>3
    <3> QED BY <3>2 DEF ab
  <2>5. (a + b) * l = a * l + b * l
    BY <2>1
  <2>6. a * l \in Int /\ b * l \in Int /\ e * l \in Int
    BY <2>1
  <2> QED BY <2>3, <2>4, <2>5, <2>6
<1>4. /\ Reconstruct(p, S) = Total(up, S) /\ Reconstruct(q, S) = Total(uq, S)
      /\ Reconstruct(h, S) = Total(uh, S)
  BY DEF Reconstruct
<1> HIDE DEF up, uq, uh
<1>5. Total(uh, S) = Fl(Total(up, S) + Total(uq, S))
  BY <1>3, TotalSum
<1>6. \A f : (\A i \in S : f[i] \in Int) => Reconstruct(f, S) \in Int
  <2> SUFFICES ASSUME NEW f, \A i \in S : f[i] \in Int PROVE Reconstruct(f, S) \in Int
    OBVIOUS
  <2>1. Reconstruct(f, S) \in Field
    BY ReconstructType
  <2> QED BY <2>1, QAssumption DEF Field
<1> DEFINE x == c * Reconstruct(g, S)
           y == d * Reconstruct(k, S)
<1>7. x \in Int /\ y \in Int
  BY <1>6
<1>8. Reconstruct(h, S) = Fl(Fl(x) + Fl(y))
  BY <1>2, <1>4, <1>5
<1> HIDE DEF x, y
<1>9. Fl(Fl(x) + Fl(y)) = Fl(x + y)
  <2>1. Fl(x) \in Int /\ Fl(y) \in Int
    BY <1>7, QAssumption DEF Fl
  <2>2. Fl(Fl(x) + Fl(y)) = Fl(x + Fl(y))
    BY <1>7, <2>1, FlAdd
  <2> QED BY <1>7, <2>2, FlAddRight
<1> QED BY <1>8, <1>9 DEF x, y

\* The polynomial that is 1 at 0 and vanishes on B: any of its values that are
\* more than its degree interpolate to 1.
Vanishing(B, x) == Product([j \in B |-> (j + Neg(x)) * Inv(j)], B)

LEMMA VanishingType ==
    ASSUME NEW B \in SUBSET (1 .. Q - 1), IsFiniteSet(B), NEW x \in 1 .. Q - 1
    PROVE  /\ Vanishing(B, x) \in Field /\ Vanishing(B, x) \in Int
           /\ \A j \in B : (j + Neg(x)) * Inv(j) \in Int
           /\ x \in B => Vanishing(B, x) = 0
<1> DEFINE f == [j \in B |-> (j + Neg(x)) * Inv(j)]
<1>1. ASSUME NEW j \in B PROVE (j + Neg(x)) * Inv(j) \in Int /\ f[j] \in Int /\ (j = x => Fl(f[j]) = 0)
  <2> DEFINE a == j + Neg(x)
             b == Inv(j)
  <2>1. j \in Int /\ x \in Int /\ Fl(j) = j /\ j # 0
    BY FlField, QAssumption DEF Field
  <2>2. a \in Int /\ b \in Int
    <3>1. Neg(x) \in Field /\ Inv(j) \in Field
      BY <2>1, NegType, InvType
    <3> QED BY <2>1, <3>1, QAssumption DEF Field
  <2>3. ASSUME j = x PROVE Fl(a * b) = 0
    <3>1. Fl(a) = 0
      <4>1. x \in Field /\ x # 0 /\ x \in Int
        BY <2>1, QAssumption DEF Field
      <4>2. Neg(x) = Q - x
        BY <4>1, NegField
      <4>3. a = Q
        BY <2>1, <2>3, <4>1, <4>2, QAssumption
      <4> QED BY <4>3, QAssumption DEF Fl
    <3> HIDE DEF a, b
    <3>2. Fl(Fl(a) * b) = Fl(a * b)
      BY <2>2, FlMul
    <3>3. Fl(a) * b = 0
      BY <2>2, <3>1
    <3> QED BY <3>2, <3>3, QAssumption DEF Fl
  <2>4. f[j] = a * b
    OBVIOUS
  <2>5. a * b \in Int
    <3> HIDE DEF a, b
    <3> QED BY <2>2
  <2> HIDE DEF f
  <2> QED BY <2>3, <2>4, <2>5
<1>2. Vanishing(B, x) = Product(f, B)
  BY DEF Vanishing
<1> HIDE DEF f
<1>3. Product(f, B) \in Field
  BY <1>1, ProductType
<1>4. x \in B => Product(f, B) = 0
  BY <1>1, ProductZero
<1> QED BY <1>1, <1>2, <1>3, <1>4, QAssumption DEF Field

LEMMA VanishingStep ==
    ASSUME NEW B \in SUBSET (1 .. Q - 1), IsFiniteSet(B), NEW x \in 1 .. Q - 1, NEW a \in B
    PROVE  Vanishing(B, x) = Fl(((a + Neg(x)) * Inv(a)) * Vanishing(B \ {a}, x))
<1> DEFINE f == [j \in B |-> (j + Neg(x)) * Inv(j)]
           g == [j \in B \ {a} |-> (j + Neg(x)) * Inv(j)]
<1>1. \A j \in B : f[j] \in Int
  BY VanishingType
<1>2. \A j \in B \ {a} : f[j] \in Int /\ f[j] = g[j]
  BY <1>1
<1>3. IsFiniteSet(B \ {a})
  BY FS_Subset
<1>4. Vanishing(B, x) = Product(f, B) /\ Vanishing(B \ {a}, x) = Product(g, B \ {a})
      /\ f[a] = (a + Neg(x)) * Inv(a)
  BY DEF Vanishing
<1> HIDE DEF f, g
<1>5. Product(f, B) = Fl(f[a] * Product(f, B \ {a}))
  BY <1>1, ProductStep
<1>6. Product(f, B \ {a}) = Product(g, B \ {a})
  BY <1>2, <1>3, ProductSame
<1> QED BY <1>4, <1>5, <1>6

LEMMA ReconstructVanishing ==
    ASSUME NEW B \in SUBSET (1 .. Q - 1), IsFiniteSet(B),
           NEW S \in SUBSET (1 .. Q - 1), IsFiniteSet(S), Cardinality(S) > Cardinality(B),
           NEW g, \A i \in S : g[i] = Vanishing(B, i)
    PROVE  Reconstruct(g, S) = 1
<1> DEFINE Good(A) == \A U \in SUBSET (1 .. Q - 1) : IsFiniteSet(U) /\ Cardinality(U) > Cardinality(A)
                        => \A f : (\A i \in U : f[i] = Vanishing(A, i)) => Reconstruct(f, U) = 1
           P == {A \in SUBSET B : Good(A)}
<1>1. ASSUME NEW A \in SUBSET B, \A x \in A : A \ {x} \in P PROVE A \in P
  <2> SUFFICES ASSUME NEW U \in SUBSET (1 .. Q - 1), IsFiniteSet(U), Cardinality(U) > Cardinality(A),
                      NEW h, \A i \in U : h[i] = Vanishing(A, i)
               PROVE  Reconstruct(h, U) = 1
    OBVIOUS
  <2>1. /\ IsFiniteSet(A) /\ Cardinality(A) \in Nat /\ A \in SUBSET (1 .. Q - 1)
        /\ Cardinality(U) \in Nat /\ U # {}
    <3>1. IsFiniteSet(A) /\ A \in SUBSET (1 .. Q - 1)
      BY FS_Subset
    <3>2. Cardinality(A) \in Nat /\ Cardinality(U) \in Nat
      BY <3>1, FS_CardinalityType
    <3>3. U # {}
      BY <3>2, FS_EmptySet
    <3> QED BY <3>1, <3>2, <3>3
  <2>2. CASE A = {}
    <3>1. \A i \in U : h[i] = 1
      BY <2>2, ProductEmpty DEF Vanishing
    <3> QED BY <2>1, <3>1, ReconstructOnes
  <2>3. CASE A # {}
    <3>1. PICK x \in A : TRUE
      BY <2>3
    <3>2. PICK z \in U : TRUE
      BY <2>1
    <3> DEFINE C == A \ {x}
               w == Inv(x)
               u == x * w
               v == -w
               f == [i \in U |-> Vanishing(C, i)]
               k == [i \in U |-> i * f[i]]
    <3>3. IsFiniteSet(C) /\ Cardinality(C) = Cardinality(A) - 1 /\ C \in SUBSET (1 .. Q - 1) /\ C \in P
      BY <1>1, <2>1, <3>1, FS_RemoveElement
    <3>4. Reconstruct(f, U) = 1 /\ Reconstruct(f, U \ {z}) = 1
      <4>1. IsFiniteSet(U \ {z}) /\ Cardinality(U \ {z}) = Cardinality(U) - 1
        BY <3>2, FS_RemoveElement
      <4>2. \A i \in U : f[i] = Vanishing(C, i)
        OBVIOUS
      <4>3. Good(C)
        BY <3>3
      <4> HIDE DEF f, C, P
      <4> QED BY <2>1, <3>3, <4>1, <4>2, <4>3
    <3>5. x \in 1 .. Q - 1 /\ x \in Int /\ w \in Int /\ u \in Int /\ v \in Int /\ Fl(u) = 1
      <4>1. x \in 1 .. Q - 1 /\ x \in Int /\ Fl(x) # 0
        BY <2>1, <3>1, FlField, QAssumption DEF Field
      <4>2. w \in Field /\ Fl(u) = 1
        BY <4>1, InvType
      <4>3. w \in Int
        BY <4>2, QAssumption DEF Field
      <4> HIDE DEF w
      <4> QED BY <4>1, <4>2, <4>3
    <3>6. ASSUME NEW i \in U
          PROVE  /\ f[i] \in Int /\ k[i] \in Int /\ h[i] \in Int /\ Fl(k[i]) = Fl(i * f[i])
                 /\ Fl(h[i]) = Fl(u * f[i] + v * k[i])
      <4> DEFINE y == f[i]
                 n == Neg(i)
                 t == (x + n) * w
      <4>1. y \in Int /\ i \in Int /\ i \in 1 .. Q - 1 /\ f[i] = y
        BY <3>3, VanishingType
      <4>2. n \in Int /\ Fl(n) = Fl(-i)
        <5>1. n \in Field /\ Fl(n) = Fl(-i)
          BY <4>1, NegType
        <5> QED BY <5>1, QAssumption DEF Field
      <4>3. h[i] = Fl(t * y)
        <5>1. Vanishing(A, i) = Fl(((x + Neg(i)) * Inv(x)) * Vanishing(A \ {x}, i))
          BY <2>1, <3>1, <4>1, VanishingStep
        <5> QED BY <5>1
      <4>4. k[i] = i * y
        OBVIOUS
      <4> HIDE DEF y, n, f, k, w, u, v
      <4>5. t \in Int /\ Fl(t) = Fl((x - i) * w)
        <5>1. x + n \in Int /\ x - i \in Int
          BY <3>5, <4>1, <4>2
        <5>2. Fl(x + n) = Fl(x - i)
          <6>1. -i \in Int /\ x + (-i) = x - i
            BY <3>5, <4>1
          <6>2. Fl(x + n) = Fl(x + (-i))
            BY <3>5, <4>2, <6>1, FlSum
          <6> QED BY <6>1, <6>2
        <5> DEFINE a == x + n
                   b == x - i
        <5>3. a \in Int /\ b \in Int /\ Fl(a) = Fl(b)
          BY <5>1, <5>2
        <5> HIDE DEF a, b
        <5>4. Fl(a * w) = Fl(b * w)
          <6>1. Fl(Fl(a) * w) = Fl(a * w)
            BY <3>5, <5>3, FlMul
          <6>2. Fl(Fl(b) * w) = Fl(b * w)
            BY <3>5, <5>3, FlMul
          <6> QED BY <5>3, <6>1, <6>2
        <5>5. a * w \in Int
          BY <3>5, <5>3
        <5> QED BY <5>4, <5>5 DEF a, b
      <4>6. (x - i) * w = u + v * i
        <5>1. (x - i) * w = x * w + (-w) * i
          BY <3>5, <4>1
        <5> QED BY <5>1 DEF u, v
      <4>7. Fl(t * y) = Fl((u + v * i) * y)
        <5> DEFINE a == u + v * i
        <5>1. a \in Int /\ Fl(t) = Fl(a)
          BY <3>5, <4>1, <4>5, <4>6
        <5> HIDE DEF a, t
        <5>2. Fl(t * y) = Fl(a * y)
          BY <4>1, <4>5, <5>1, FlProduct
        <5> QED BY <5>2 DEF a
      <4>8. (u + v * i) * y = u * y + v * (i * y)
        <5>1. v * (i * y) = (v * i) * y
          BY <3>5, <4>1
        <5>2. v * i \in Int
          BY <3>5, <4>1
        <5> DEFINE a == v * i
        <5> HIDE DEF a
        <5>3. a \in Int => (u + a) * y = u * y + a * y
          BY <3>5, <4>1
        <5> QED BY <5>1, <5>2, <5>3 DEF a
      <4>9. t * y \in Int
        <5> HIDE DEF t
        <5> QED BY <4>1, <4>5
      <4> DEFINE ty == t * y
      <4>10. h[i] = Fl(ty) /\ ty \in Int
        BY <4>3, <4>9
      <4>11. Fl(ty) = Fl(u * y + v * (i * y))
        BY <4>7, <4>8
      <4> HIDE DEF ty
      <4>12. Fl(h[i]) = Fl(ty) /\ h[i] \in Int
        <5>1. Fl(ty) \in Field
          BY <4>10, FlType
        <5> QED BY <4>10, <5>1, FlField, QAssumption DEF Field
      <4>13. i * y \in Int
        BY <4>1
      <4> QED BY <4>1, <4>4, <4>11, <4>12, <4>13
    <3> HIDE DEF f, k, w, u, v, C, P
    <3>7. Reconstruct(k, U) = Fl(z * (Reconstruct(f, U) - Reconstruct(f, U \ {z})))
      BY <3>2, <3>6, ReconstructShift
    <3>8. Reconstruct(k, U) = 0
      <4>1. z \in Int
        BY <3>2
      <4>2. z * (1 - 1) = 0
        BY <4>1
      <4> QED BY <3>4, <3>7, <4>2, QAssumption DEF Fl
    <3>9. Reconstruct(h, U) = Fl(u * Reconstruct(f, U) + v * Reconstruct(k, U))
      BY <3>5, <3>6, ReconstructLinear
    <3>10. u * 1 + v * 0 = u
      BY <3>5
    <3> QED BY <3>4, <3>5, <3>8, <3>9, <3>10
  <2> QED BY <2>2, <2>3
<1>2. P \in SUBSET SUBSET B
  OBVIOUS
<1>3. P = SUBSET B
  <2> HIDE DEF P
  <2> QED BY <1>1, <1>2, SubsetInduction
<1>4. Good(B)
  BY <1>3
<1> HIDE DEF P
<1> QED BY <1>4

\* One wrong share changes what the shares interpolate to.
THEOREM ReconstructOneWrong ==
    ASSUME NEW S \in SUBSET (1 .. Q - 1), IsFiniteSet(S), NEW v \in S, NEW f, NEW g,
           \A i \in S : f[i] \in Field /\ g[i] \in Field, \A i \in S \ {v} : f[i] = g[i],
           Reconstruct(f, S) = Reconstruct(g, S)
    PROVE  f[v] = g[v]
<1> DEFINE u(h) == [i \in S |-> h[i] * Lagrange(S, i)]
           uf == u(f)
           ug == u(g)
           l == Lagrange(S, v)
           a == f[v]
           b == g[v]
<1>1. \A i \in S : Lagrange(S, i) \in Int /\ f[i] \in Int /\ g[i] \in Int
  <2> TAKE i \in S
  <2>1. Lagrange(S, i) \in Field
    BY LagrangeType
  <2> QED BY <2>1, QAssumption DEF Field
<1>2. \A i \in S : uf[i] \in Int /\ ug[i] \in Int
  BY <1>1
<1>3. \A i \in S \ {v} : uf[i] = ug[i] /\ uf[i] \in Int /\ ug[i] \in Int /\ Fl(uf[i]) = Fl(ug[i])
  BY <1>2
<1>4. Reconstruct(f, S) = Total(uf, S) /\ Reconstruct(g, S) = Total(ug, S)
      /\ uf[v] = a * l /\ ug[v] = b * l
  BY DEF Reconstruct
<1>5. IsFiniteSet(S \ {v})
  BY FS_Subset
<1>6. a \in Field /\ b \in Field /\ a \in Int /\ b \in Int /\ l \in Int
  BY <1>1
<1>7. l \in Field /\ l # 0 /\ Fl(l) = l
  BY LagrangeType, LagrangeNotZero, FlField
<1> HIDE DEF uf, ug
<1> DEFINE r == Total(uf, S \ {v})
<1>8. Total(uf, S) = Fl(uf[v] + r)
  BY <1>2, TotalStep
<1>9. Total(ug, S) = Fl(ug[v] + Total(ug, S \ {v}))
  BY <1>2, TotalStep
<1>10. Total(ug, S \ {v}) = r
  BY <1>3, <1>5, TotalSame
<1>11. r \in Int
  <2>1. r \in Field
    BY <1>3, <1>5, TotalType
  <2> QED BY <2>1, QAssumption DEF Field
<1> HIDE DEF r, l, a, b
<1>12. Fl(a * l + r) = Fl(b * l + r)
  BY <1>4, <1>8, <1>9, <1>10
<1>13. Fl(l * (a - b)) = 0
  <2> DEFINE x == a * l
             y == b * l
  <2>1. x \in Int /\ y \in Int /\ x + r \in Int /\ y + r \in Int
    BY <1>6, <1>11
  <2>2. l * (a - b) = x - y
    BY <1>6
  <2>3. Fl(x + r) = Fl(y + r)
    BY <1>12
  <2> HIDE DEF x, y
  <2>4. PICK k \in Int : x + r = (y + r) + k * Q
    <3> DEFINE c == x + r
               d == y + r
    <3>1. c \in Int /\ d \in Int /\ Fl(c) = Fl(d)
      BY <2>1, <2>3
    <3> HIDE DEF c, d
    <3>2. \E k \in Int : c = d + k * Q
      BY <3>1, FlDifference
    <3> QED BY <3>2 DEF c, d
  <2>5. x - y = 0 + k * Q
    <3>1. k * Q \in Int
      BY QAssumption
    <3> DEFINE c == k * Q
    <3> HIDE DEF c
    <3>2. c \in Int /\ x + r = (y + r) + c
      BY <2>4, <3>1 DEF c
    <3>3. x - y = 0 + c
      BY <1>11, <2>1, <3>2
    <3> QED BY <3>3 DEF c
  <2>6. Fl(x - y) = Fl(0)
    <3> DEFINE c == x - y
    <3>1. c \in Int /\ c = 0 + k * Q
      BY <2>1, <2>5
    <3> HIDE DEF c
    <3>2. Fl(c) = Fl(0)
      BY <3>1, FlUnique
    <3> QED BY <3>2 DEF c
  <2> QED BY <2>2, <2>6, QAssumption DEF Fl
<1>14. Fl(a - b) = 0
  <2> DEFINE c == a - b
  <2>1. c \in Int /\ Fl(l * c) = 0
    BY <1>6, <1>13
  <2> HIDE DEF c
  <2>2. Fl(c) = 0
    BY <1>6, <1>7, <2>1, FlIntegral
  <2> QED BY <2>2 DEF c
<1> QED BY <1>6, <1>14, FlDistinct DEF a, b

-----------------------------------------------------------------------------
(* Sums that vanish, and sums that stay small.                               *)

\* A sum of nothing but zeros.
LEMMA SumZero ==
    ASSUME NEW D, IsFiniteSet(D), NEW f, \A x \in D : f[x] = 0
    PROVE  SumFunctionOnSet(f, D) = 0
<1> DEFINE P == {A \in SUBSET D : SumFunctionOnSet(f, A) = 0}
<1>1. ASSUME NEW A \in SUBSET D, \A x \in A : A \ {x} \in P PROVE A \in P
  <2>1. CASE A = {}
    BY <2>1, SumEmpty
  <2>2. CASE A # {}
    <3>1. PICK x \in A : TRUE
      BY <2>2
    <3>2. IsFiniteSet(A) /\ \A y \in A : f[y] \in Int
      BY FS_Subset
    <3>3. SumFunctionOnSet(f, A) = f[x] + SumFunctionOnSet(f, A \ {x})
      BY <3>1, <3>2, SumStep
    <3>4. SumFunctionOnSet(f, A \ {x}) = 0
      BY <1>1, <3>1
    <3> QED BY <3>1, <3>3, <3>4
  <2> QED BY <2>1, <2>2
<1>2. P \in SUBSET SUBSET D
  OBVIOUS
<1> HIDE DEF P
<1>3. P = SUBSET D
  BY <1>1, <1>2, SubsetInduction
<1> QED BY <1>3 DEF P

\* A sum of naturals that are not larger than c.
LEMMA SumBound ==
    ASSUME NEW D, IsFiniteSet(D), NEW c \in Nat, NEW f, \A x \in D : f[x] \in Nat /\ f[x] <= c
    PROVE  SumFunctionOnSet(f, D) \in Nat /\ SumFunctionOnSet(f, D) <= Cardinality(D) * c
<1> DEFINE P == {A \in SUBSET D : SumFunctionOnSet(f, A) \in Nat
                                  /\ SumFunctionOnSet(f, A) <= Cardinality(A) * c}
<1>1. ASSUME NEW A \in SUBSET D, \A x \in A : A \ {x} \in P PROVE A \in P
  <2>1. CASE A = {}
    BY <2>1, SumEmpty, FS_EmptySet
  <2>2. CASE A # {}
    <3>1. PICK x \in A : TRUE
      BY <2>2
    <3>2. IsFiniteSet(A) /\ IsFiniteSet(A \ {x}) /\ \A y \in A : f[y] \in Int
      BY FS_Subset
    <3>3. SumFunctionOnSet(f, A) = f[x] + SumFunctionOnSet(f, A \ {x})
      BY <3>1, <3>2, SumStep
    <3>4. SumFunctionOnSet(f, A \ {x}) \in Nat /\ SumFunctionOnSet(f, A \ {x}) <= Cardinality(A \ {x}) * c
      BY <1>1, <3>1
    <3>5. Cardinality(A) = Cardinality(A \ {x}) + 1 /\ Cardinality(A \ {x}) \in Nat
      <4>1. Cardinality(A \ {x}) = Cardinality(A) - 1 /\ Cardinality(A) \in Nat
        BY <3>1, <3>2, FS_RemoveElement, FS_CardinalityType
      <4> QED BY <3>2, <4>1, FS_CardinalityType
    <3>6. Cardinality(A) * c = Cardinality(A \ {x}) * c + c
      <4> DEFINE n == Cardinality(A \ {x})
      <4>1. n \in Nat /\ Cardinality(A) = n + 1
        BY <3>5
      <4> HIDE DEF n
      <4>2. (n + 1) * c = n * c + c
        BY <4>1
      <4> QED BY <4>1, <4>2 DEF n
    <3>7. f[x] \in Nat /\ f[x] <= c
      BY <3>1
    <3>8. Cardinality(A \ {x}) * c \in Nat
      BY <3>5
    <3> HIDE DEF P
    <3>9. SumFunctionOnSet(f, A) \in Nat /\ SumFunctionOnSet(f, A) <= Cardinality(A) * c
      BY <3>3, <3>4, <3>6, <3>7, <3>8
    <3> QED BY <3>9 DEF P
  <2> QED BY <2>1, <2>2
<1>2. P \in SUBSET SUBSET D
  OBVIOUS
<1> HIDE DEF P
<1>3. P = SUBSET D
  BY <1>1, <1>2, SubsetInduction
<1> QED BY <1>3 DEF P

\* Sums of integers are linear.
LEMMA SumLinear ==
    ASSUME NEW D, IsFiniteSet(D), NEW c \in Int, NEW d \in Int, NEW f, NEW g, NEW h,
           \A x \in D : f[x] \in Int /\ g[x] \in Int /\ h[x] = f[x] * c - g[x] * d
    PROVE  SumFunctionOnSet(h, D) = SumFunctionOnSet(f, D) * c - SumFunctionOnSet(g, D) * d
<1> DEFINE P == {A \in SUBSET D : SumFunctionOnSet(h, A) = SumFunctionOnSet(f, A) * c - SumFunctionOnSet(g, A) * d}
<1>1. ASSUME NEW A \in SUBSET D, \A x \in A : A \ {x} \in P PROVE A \in P
  <2>1. CASE A = {}
    <3>1. 0 = 0 * c - 0 * d
      OBVIOUS
    <3> QED BY <2>1, <3>1, SumEmpty
  <2>2. CASE A # {}
    <3>1. PICK e \in A : TRUE
      BY <2>2
    <3>2. IsFiniteSet(A) /\ IsFiniteSet(A \ {e})
      BY FS_Subset
    <3>3. \A x \in A : f[x] \in Int /\ g[x] \in Int /\ h[x] \in Int
      <4> SUFFICES ASSUME NEW x \in A PROVE f[x] \in Int /\ g[x] \in Int /\ h[x] \in Int
        OBVIOUS
      <4> DEFINE v == f[x]
                 w == g[x]
      <4>1. v \in Int /\ w \in Int /\ h[x] = v * c - w * d
        OBVIOUS
      <4> HIDE DEF v, w
      <4>2. v * c - w * d \in Int
        BY <4>1
      <4> QED BY <4>1, <4>2 DEF v, w
    <3> DEFINE r == SumFunctionOnSet(f, A \ {e})
               s == SumFunctionOnSet(g, A \ {e})
               a == f[e]
               b == g[e]
    <3>4. a \in Int /\ b \in Int /\ h[e] = a * c - b * d
      BY <3>1
    <3>5. r \in Int /\ s \in Int
      BY <3>2, <3>3, SumType
    <3>6. SumFunctionOnSet(h, A \ {e}) = r * c - s * d
      BY <1>1, <3>1
    <3>7. /\ SumFunctionOnSet(f, A) = a + r
          /\ SumFunctionOnSet(g, A) = b + s
          /\ SumFunctionOnSet(h, A) = h[e] + SumFunctionOnSet(h, A \ {e})
      BY <3>1, <3>2, <3>3, SumStep
    <3> HIDE DEF r, s, a, b, P
    <3>8. (a * c - b * d) + (r * c - s * d) = (a + r) * c - (b + s) * d
      BY <3>4, <3>5
    <3> QED BY <3>4, <3>6, <3>7, <3>8 DEF P
  <2> QED BY <2>1, <2>2
<1>2. P \in SUBSET SUBSET D
  OBVIOUS
<1> HIDE DEF P
<1>3. P = SUBSET D
  BY <1>1, <1>2, SubsetInduction
<1> QED BY <1>3 DEF P

-----------------------------------------------------------------------------
(* Equations in the field.                                                   *)

\* The same added to both sides, and both sides scaled.
LEMMA FlShift ==
    ASSUME NEW x \in Int, NEW y \in Int, NEW z \in Int, Fl(x) = Fl(y)
    PROVE  Fl(x + z) = Fl(y + z) /\ Fl(z + x) = Fl(z + y)
<1>1. Fl(Fl(x) + z) = Fl(x + z) /\ Fl(Fl(y) + z) = Fl(y + z)
  BY FlAdd
<1>2. z + x = x + z /\ z + y = y + z
  OBVIOUS
<1> QED BY <1>1, <1>2

LEMMA FlScale ==
    ASSUME NEW x \in Int, NEW y \in Int, NEW z \in Int, Fl(x) = Fl(y)
    PROVE  Fl(x * z) = Fl(y * z) /\ Fl(z * x) = Fl(z * y)
<1>1. Fl(Fl(x) * z) = Fl(x * z) /\ Fl(Fl(y) * z) = Fl(y * z)
  BY FlMul
<1>2. z * x = x * z /\ z * y = y * z
  OBVIOUS
<1> QED BY <1>1, <1>2

LEMMA FlMinus ==
    ASSUME NEW x \in Int, NEW y \in Int, NEW z \in Int, Fl(x) = Fl(y)
    PROVE  Fl(z - x) = Fl(z - y)
<1>1. PICK k \in Int : x = y + k * Q
  BY FlDifference
<1>2. k * Q \in Int /\ -k \in Int /\ (-k) * Q = -(k * Q)
  BY QAssumption
<1>3. z - x \in Int /\ z - y \in Int /\ z - x = (z - y) + (-k) * Q
  BY <1>1, <1>2
<1> QED BY <1>2, <1>3, FlUnique

\* Neg takes away.
LEMMA FlNeg ==
    ASSUME NEW x \in Int, NEW z \in Int
    PROVE  Fl(z + Neg(x)) = Fl(z - x) /\ Fl(Neg(x) + z) = Fl(z - x)
<1> DEFINE n == Neg(x)
           m == -x
<1>1. n \in Int /\ m \in Int /\ Fl(n) = Fl(m)
  BY NegType, FlField, QAssumption DEF Field
<1>2. z + m = z - x
  OBVIOUS
<1> HIDE DEF n, m
<1>3. Fl(z + n) = Fl(z + m) /\ n + z = z + n
  BY <1>1, FlShift
<1> QED BY <1>2, <1>3 DEF n

\* A factor that is not zero can be left out.
LEMMA FlCancel ==
    ASSUME NEW g \in Int, NEW x \in Int, NEW y \in Int, Fl(g * x) = Fl(g * y), Fl(g) # 0
    PROVE  Fl(x) = Fl(y)
<1>1. g * x \in Int /\ g * y \in Int /\ x - y \in Int
  OBVIOUS
<1>2. PICK k \in Int : g * x = g * y + k * Q
  BY <1>1, FlDifference
<1>3. k * Q \in Int
  BY QAssumption
<1>4. g * (x - y) = g * x - g * y
  OBVIOUS
<1>5. 0 \in Int /\ g * (x - y) \in Int /\ g * (x - y) = 0 + k * Q
  BY <1>1, <1>2, <1>3, <1>4
<1>6. Fl(g * (x - y)) = Fl(0)
  BY <1>5, FlUnique
<1>7. Fl(0) = 0
  BY FlField, QAssumption DEF Field
<1>8. Fl(x - y) = 0
  BY <1>1, <1>6, <1>7, FlIntegral
<1>9. PICK m \in Int : x - y = 0 + m * Q
  BY <1>1, <1>5, <1>7, <1>8, FlDifference
<1>10. m * Q \in Int
  BY QAssumption
<1>11. x = y + m * Q
  BY <1>9, <1>10
<1> QED BY <1>11, FlUnique

\* The quotient of g and a product of k and g is the inverse of k.
LEMMA InverseOver ==
    ASSUME NEW k \in Field, NEW g \in Field, NEW d \in Field, d # 0, d = Fl(k * g),
           NEW R, R = Fl(Inv(d) * g)
    PROVE  Fl(R * k) = 1
<1>1. k \in Int /\ g \in Int /\ d \in Int /\ Fl(d) = d
  BY FlField, QAssumption DEF Field
<1>2. Inv(d) \in Int /\ Fl(d * Inv(d)) = 1
  BY <1>1, InvType, QAssumption DEF Field
<1> DEFINE v == Inv(d)
<1> HIDE DEF v
<1>3. v \in Int /\ Fl(d * v) = 1 /\ R = Fl(v * g)
  BY <1>2 DEF v
<1>4. v * g \in Int /\ k * g \in Int
  BY <1>1, <1>3
<1>5. Fl(R * k) = Fl((v * g) * k)
  BY <1>1, <1>3, <1>4, FlMul
<1>6. (v * g) * k = (k * g) * v
  BY <1>1, <1>3
<1>7. Fl((k * g) * v) = Fl(d * v)
  BY <1>1, <1>3, <1>4, FlMul
<1> QED BY <1>3, <1>5, <1>6, <1>7

\* What is added without a difference is zero.
LEMMA FlAddsNothing ==
    ASSUME NEW x \in Int, NEW y \in Int
    PROVE  Fl(x + y) = Fl(x) <=> Fl(y) = 0
<1>1. ASSUME Fl(x + y) = Fl(x) PROVE Fl(y) = 0
  <2>1. Fl((x + y) + (-x)) = Fl(x + (-x))
    <3> DEFINE u == x + y
               v == -x
    <3>1. u \in Int /\ v \in Int /\ Fl(u) = Fl(x)
      BY <1>1
    <3> HIDE DEF u, v
    <3>2. Fl(u + v) = Fl(x + v)
      BY <3>1, FlShift
    <3> QED BY <3>2 DEF u, v
  <2>2. (x + y) + (-x) = y /\ x + (-x) = 0
    OBVIOUS
  <2>3. Fl(0) = 0
    BY FlField, QAssumption DEF Field
  <2> QED BY <2>1, <2>2, <2>3
<1>2. ASSUME Fl(y) = 0 PROVE Fl(x + y) = Fl(x)
  <2>1. Fl(y) = Fl(0)
    BY <1>2, FlField, QAssumption DEF Field
  <2>2. Fl(x + y) = Fl(x + 0)
    BY <2>1, FlSum
  <2> QED BY <2>2
<1> QED BY <1>1, <1>2
-----------------------------------------------------------------------------
(* The parties.                                                              *)

LEMMA SignersType ==
    /\ Signers \in SUBSET (1 .. Q - 1) /\ Signers \in SUBSET Int /\ IsFiniteSet(Signers)
    /\ Signers # {} /\ Cardinality(Signers) \in Nat /\ Cardinality(Signers) >= T
<1>1. IsFiniteSet(1 .. Q - 1)
  BY QAssumption, FS_Interval
<1>2. /\ Parties \subseteq 1 .. Q - 1 /\ Quorum \subseteq Parties
      /\ T \in Nat \ {0} /\ Cardinality(Quorum) >= T
  BY SigningAssumption
<1>3. IsFiniteSet(Parties)
  BY <1>1, <1>2, FS_Subset
<1>4. IsFiniteSet(Quorum) /\ Cardinality(Quorum) <= Cardinality(Parties)
  BY <1>2, <1>3, FS_Subset
<1>5. Cardinality(Parties) \in Nat /\ Cardinality(Quorum) \in Nat
  BY <1>3, <1>4, FS_CardinalityType
<1>6. \A S \in {Parties, Quorum} :
          /\ S \in SUBSET (1 .. Q - 1) /\ IsFiniteSet(S)
          /\ Cardinality(S) \in Nat /\ Cardinality(S) >= T
  BY <1>2, <1>3, <1>4, <1>5
<1>7. Signers \in {Parties, Quorum}
  BY DEF Signers
<1>8. Signers # {}
  BY <1>2, <1>6, <1>7, FS_EmptySet
<1>9. Signers \in SUBSET Int
  BY <1>6, <1>7, QAssumption
<1> QED BY <1>6, <1>7, <1>8, <1>9

LEMMA OthersType ==
    ASSUME NEW i \in Signers
    PROVE  Others(i) \in SUBSET Signers /\ IsFiniteSet(Others(i)) /\ i \notin Others(i)
  BY SignersType, FS_Subset DEF Others

\* Of two signers or more, P1 has the smallest index and P2 the next.
LEMMA Two ==
    ASSUME Cardinality(Signers) >= 2
    PROVE  P1 \in Signers /\ P2 \in Signers /\ P1 # P2
<1>1. \E i \in Signers : \A j \in Signers : i <= j
  BY SignersType, LeastElement
<1>2. P1 \in Signers
  BY <1>1 DEF P1
<1>3. Others(P1) \in SUBSET Int /\ IsFiniteSet(Others(P1)) /\ P1 \notin Others(P1)
  BY <1>2, SignersType, OthersType
<1>4. Others(P1) # {}
  <2>1. Cardinality(Signers \ {P1}) = Cardinality(Signers) - 1
    BY <1>2, SignersType, FS_RemoveElement
  <2>2. Cardinality({}) = 0
    BY FS_EmptySet
  <2> QED BY <2>1, <2>2, SignersType DEF Others
<1>5. \E i \in Others(P1) : \A j \in Others(P1) : i <= j
  BY <1>3, <1>4, LeastElement
<1>6. P2 \in Others(P1)
  BY <1>5 DEF P2
<1> QED BY <1>2, <1>3, <1>6 DEF Others

LEMMA SameSigners ==
    ASSUME protocol' = protocol
    PROVE  Signers' = Signers
  BY DEF Signers

LEMMA SameTwo ==
    ASSUME protocol' = protocol
    PROVE  P1' = P1 /\ P2' = P2
<1>1. Signers' = Signers
  BY SameSigners
<1>2. P1' = P1
  BY <1>1 DEF P1
<1> QED BY <1>1, <1>2 DEF P2, Others

LEMMA ScalarsType ==
    /\ RandomScalar \subseteq Field /\ Field \subseteq Int
    /\ Scalars \subseteq RandomScalar /\ Blinds \subseteq RandomScalar
    /\ \A x \in RandomScalar : Fl(x) = x /\ x # 0
<1>1. RandomScalar \subseteq Field /\ Field \subseteq Int /\ \A x \in RandomScalar : x # 0
  BY QAssumption DEF RandomScalar, Field
<1>2. \A x \in RandomScalar : Fl(x) = x
  BY <1>1, FlField
<1> QED BY <1>1, <1>2, SigningAssumption

\* The shares that Shamir's scheme gives the signers, each times its Lagrange
\* coefficient, add up to the secret.
LEMMA WeightedShares ==
    ASSUME NEW f \in Sharings, NEW w,
           w = [i \in Signers |-> Fl(Eval(f, i) * Lagrange(Signers, i))]
           \/ w = [i \in Signers |-> Fl(Lagrange(Signers, i) * Eval(f, i))]
    PROVE  w \in [Signers -> Field] /\ Total(w, Signers) = f[0] /\ f[0] \in Field
<1> DEFINE g == [i \in Signers |-> Eval(f, i)]
           h == [i \in Signers |-> g[i] * Lagrange(Signers, i)]
<1>0. f \in Polynomials(T) /\ T \in 1 .. Cardinality(Signers) /\ T \in Nat
  BY SigningAssumption, SignersType
<1>1. \A i \in Signers : /\ Eval(f, i) \in Field /\ Lagrange(Signers, i) \in Field
                         /\ Eval(f, i) \in Int /\ Lagrange(Signers, i) \in Int
  BY <1>0, SignersType, EvalType, LagrangeType, ScalarsType
<1>2. \A i \in Signers : Eval(f, i) * Lagrange(Signers, i) = Lagrange(Signers, i) * Eval(f, i)
  BY <1>1
<1>3. w = [i \in Signers |-> Fl(Eval(f, i) * Lagrange(Signers, i))]
  BY <1>2, Zenon
<1>4. \A i \in Signers : Eval(f, i) * Lagrange(Signers, i) \in Int
  BY <1>1
<1>5. w \in [Signers -> Field]
  BY <1>3, <1>4, FlType
<1>6. Reconstruct(g, Signers) = f[0]
  BY <1>0, SignersType, Interpolation
<1>7. Total(w, Signers) = Total(h, Signers)
  <2>1. \A i \in Signers : w[i] \in Int /\ h[i] \in Int /\ Fl(w[i]) = Fl(h[i])
    <3> SUFFICES ASSUME NEW i \in Signers
                 PROVE  w[i] \in Int /\ h[i] \in Int /\ Fl(w[i]) = Fl(h[i])
      OBVIOUS
    <3>1. h[i] = Eval(f, i) * Lagrange(Signers, i) /\ h[i] \in Int
      BY <1>4
    <3>2. w[i] = Fl(h[i]) /\ w[i] \in Field
      BY <1>3, <1>5, <3>1
    <3> QED BY <3>1, <3>2, FlField, ScalarsType
  <2> QED BY <2>1, SignersType, TotalSame
<1>8. f[0] \in Field
  BY <1>0, SigningAssumption DEF Polynomials
<1> QED BY <1>5, <1>6, <1>7, <1>8 DEF Reconstruct

-----------------------------------------------------------------------------
(* The steps of a session.                                                   *)

\* The shared part of every invariant: until the session has ended, nobody has
\* been answered.
Session ==
    /\ key \in Field /\ digest \in Field
    /\ bent \in [Signers -> Field]
    /\ DOMAIN answer = Signers
    /\ stage # "ended" => answer = [i \in Signers |-> Waiting]

\* A signature that a signer may be handed.
Right(sig) == sig \in Signatures /\ VerifyEcdsa(sig, key, digest) /\ sig.s = LowS(sig.s)

\* What LN18's signers return where no signature exists.
Untested(answers) ==
    /\ protocol = "ln18" /\ NoSignature(XCoord(Total(know.k, Signers)))
    /\ \A i \in Signers : answers[i] \in [r : Field, s : {0}]

\* What the signers may return together.
Lawful(answers) ==
    /\ DOMAIN answers = Signers
    /\ \/ \A i \in Signers : answers[i] \in {Waiting, Refused}
       \/ \E sig : Right(sig) /\ \A i \in Signers : answers[i] \in {Waiting, Refused, sig}
       \/ Untested(answers)

LawfulStep ==
    /\ stage # "ended"
    /\ UNCHANGED <<protocol, key, digest, bent>>
    /\ \/ stage' # "ended" /\ UNCHANGED answer
       \/ stage' = "ended" /\ UNCHANGED know /\ Lawful(answer')

LEMMA SessionStep ==
    ASSUME Session, LawfulStep
    PROVE  Session'
<1>1. Signers' = Signers
  BY SameSigners DEF LawfulStep
<1>2. key' \in Field /\ digest' \in Field /\ bent' \in [Signers' -> Field]
  BY <1>1 DEF Session, LawfulStep
<1>3. DOMAIN answer' = Signers'
  BY <1>1 DEF Session, LawfulStep, Lawful
<1>4. stage' # "ended" => answer' = [i \in Signers' |-> Waiting]
  <2> SUFFICES ASSUME stage' # "ended" PROVE answer' = [i \in Signers' |-> Waiting]
    OBVIOUS
  <2>1. answer' = answer
    BY DEF LawfulStep
  <2>2. answer = [i \in Signers |-> Waiting]
    BY DEF Session, LawfulStep
  <2> QED BY <1>1, <2>1, <2>2
<1> QED BY <1>2, <1>3, <1>4 DEF Session

LEMMA StepLawful ==
    ASSUME NEW from, NEW to, NEW facts, Step(from, to, facts) \/ Pass(from, to), from # "ended", to # "ended"
    PROVE  LawfulStep
  BY DEF Step, Pass, LawfulStep

LEMMA ReturnLawful ==
    ASSUME NEW from, NEW answers, Return(from, answers), Lawful(answers), from # "ended"
    PROVE  LawfulStep /\ stage = from /\ stage' = "ended"
  BY DEF Return, LawfulStep

LEMMA RefusalLawful ==
    ASSUME Session
    PROVE  /\ Lawful(Everyone(Refused))
           /\ \A from, where : from # "ended" /\ (RefuseFaulty(from, where) \/ RefuseVictim(from, where))
                               => LawfulStep /\ stage = from /\ stage' = "ended"
           /\ \A from : from # "ended" /\ Return(from, Everyone(Refused))
                        => LawfulStep /\ stage = from /\ stage' = "ended"
<1>1. Lawful(Everyone(Refused))
  BY DEF Session, Everyone, Lawful
<1>2. ASSUME NEW from, NEW where, from # "ended", RefuseFaulty(from, where)
      PROVE  LawfulStep /\ stage = from /\ stage' = "ended"
  BY <1>2, ReturnLawful DEF Session, RefuseFaulty, Lawful
<1>3. ASSUME NEW from, NEW where, from # "ended", RefuseVictim(from, where)
      PROVE  LawfulStep /\ stage = from /\ stage' = "ended"
  BY <1>3, ReturnLawful DEF Session, RefuseVictim, Lawful
<1>4. ASSUME NEW from, from # "ended", Return(from, Everyone(Refused))
      PROVE  LawfulStep /\ stage = from /\ stage' = "ended"
  BY <1>1, <1>4, ReturnLawful
<1> QED BY <1>1, <1>2, <1>3, <1>4

\* verify_ecdsa decides: what comes out of it is a refusal or a signature.
LEMMA CheckedLawful ==
    ASSUME Session, NEW r \in Field, NEW s \in Field
    PROVE  /\ Checked(r, s) = Refused \/ Right(Checked(r, s))
           /\ Lawful(Everyone(Checked(r, s)))
<1> DEFINE sig == [r |-> r, s |-> LowS(s)]
<1>1. sig \in Signatures /\ sig.s = LowS(sig.s)
  BY VerifiedSignature
<1>2. Checked(r, s) = IF VerifyEcdsa(sig, key, digest) THEN sig ELSE Refused
  BY DEF Checked
<1> HIDE DEF sig
<1>3. Checked(r, s) = Refused \/ Right(Checked(r, s))
  BY <1>1, <1>2 DEF Right
<1>4. \A i \in Signers : Everyone(Checked(r, s))[i] = Checked(r, s)
  BY DEF Session, Everyone
<1>5. DOMAIN Everyone(Checked(r, s)) = Signers
  BY DEF Session, Everyone
<1> QED BY <1>3, <1>4, <1>5 DEF Lawful

\* A signature that satisfies the equation is handed out, unless it is zero.
LEMMA CheckedSucceeds ==
    ASSUME Session, NEW R \in Field, NEW s \in Field,
           Fl(s * R) = Fl(digest + XCoord(R) * key), ~NoSignature(XCoord(R))
    PROVE  Checked(XCoord(R), s) # Refused
<1>1. s # 0
  <2> SUFFICES ASSUME s = 0 PROVE FALSE
    OBVIOUS
  <2>1. s * R = 0
    BY ScalarsType
  <2>2. Fl(0) = 0
    BY QAssumption DEF Fl
  <2> QED BY <2>1, <2>2 DEF NoSignature
<1>2. VerifyEcdsa([r |-> XCoord(R), s |-> LowS(s)], key, digest)
  BY <1>1, SignatureVerifies DEF Session
<1>3. [r |-> XCoord(R), s |-> LowS(s)] # Refused
  BY DEF Refused
<1> QED BY <1>2, <1>3 DEF Checked

-----------------------------------------------------------------------------
(* Decryption.                                                               *)

LEMMA ProductBound ==
    ASSUME NEW a \in Nat, NEW b \in Nat, NEW c \in Nat, NEW d \in Nat, a <= c, b <= d
    PROVE  a * b \in Nat /\ a * b <= c * d
<1>1. a * b <= a * d /\ a * b \in Nat
  OBVIOUS
<1>2. a * d <= c * d
  OBVIOUS
<1> QED BY <1>1, <1>2

LEMMA SignedType ==
    ASSUME NEW x \in Int, NEW n \in Nat, n > 0
    PROVE  /\ Signed(x, n) \in Int
           /\ 0 <= x /\ 2 * x < n => Signed(x, n) = x
<1>1. x % n \in Int
  OBVIOUS
<1>2. Signed(x, n) \in Int
  BY <1>1 DEF Signed
<1>3. ASSUME 0 <= x, 2 * x < n PROVE Signed(x, n) = x
  <2>1. x % n = x
    BY <1>3
  <2> QED BY <1>3, <2>1 DEF Signed
<1> QED BY <1>2, <1>3

\* There are fewer signers than scalars.
LEMMA SignersBound == Cardinality(Signers) \in Nat /\ Cardinality(Signers) <= Q
<1>1. IsFiniteSet(1 .. Q - 1) /\ Cardinality(1 .. Q - 1) = Q - 1
  <2>1. 1 \in Int /\ Q - 1 \in Int /\ 1 <= Q - 1
    BY QAssumption
  <2>2. IsFiniteSet(1 .. Q - 1) /\ Cardinality(1 .. Q - 1) = IF 1 > Q - 1 THEN 0 ELSE (Q - 1) - 1 + 1
    BY <2>1, FS_Interval
  <2> QED BY <2>1, <2>2
<1>2. Cardinality(Signers) <= Q - 1
  <2> DEFINE D == 1 .. Q - 1
  <2>1. IsFiniteSet(D) /\ Cardinality(D) = Q - 1 /\ Signers \in SUBSET D
    BY <1>1, SignersType
  <2> HIDE DEF D
  <2>2. Cardinality(Signers) <= Cardinality(D)
    BY <2>1, FS_Subset
  <2> QED BY <2>1, <2>2
<1> QED BY <1>2, SignersType, QAssumption

\* The powers of Q that a plaintext space is compared with.
LEMMA SpaceType ==
    /\ Q \in Nat /\ Q >= 3 /\ Q * Q \in Nat /\ Q * Q * Q \in Nat
    /\ Q * Q >= 3 * Q /\ Q * Q * Q >= 3 * (Q * Q)
    /\ PaillierN \in Nat /\ PaillierN > 2 * (Q * Q)
    /\ WideN \in Nat /\ WideN > 27 * (Q * Q * Q)
    /\ WideN > (Q * Q * Q) * (Q * Q * Q) * Q
<1>0. Q \in Nat /\ Q >= 3
  BY QAssumption
<1>1. Q * Q \in Nat /\ Q * Q >= 3 * Q
  BY <1>0
<1>2. Q * Q * Q \in Nat /\ Q * Q * Q >= 3 * (Q * Q)
  <2> DEFINE q2 == Q * Q
  <2>1. q2 \in Nat
    BY <1>1
  <2> HIDE DEF q2
  <2>2. q2 * Q \in Nat /\ q2 * Q >= 3 * q2
    BY <1>0, <2>1
  <2> QED BY <2>2 DEF q2
<1>3. PaillierN \in Nat /\ PaillierN > 2 * (Q * Q)
  BY <1>0, <1>1, ModuliAssumption
<1>4. WideN \in Nat /\ WideN > (Q * Q * Q) * (Q * Q * Q) * Q
  <2>1. Q * Q * Q * Q * Q * Q * Q = (Q * Q * Q) * (Q * Q * Q) * Q
    BY <1>0
  <2> QED BY <2>1, ModuliAssumption
<1>5. WideN \in Nat /\ WideN > 27 * (Q * Q * Q)
  <2> DEFINE q3 == Q * Q * Q
  <2>1. q3 \in Nat /\ q3 >= 27
    BY <1>0, <1>1, <1>2
  <2>2. WideN \in Nat /\ WideN > (q3 * q3) * Q
    BY <1>4
  <2> HIDE DEF q3
  <2>3. q3 * q3 >= 27 * q3
    BY <2>1
  <2>5. q3 * q3 \in Nat
    BY <2>1
  <2>4. WideN > q3 * q3
    <3> DEFINE q6 == q3 * q3
    <3> HIDE DEF q6
    <3>1. q6 \in Nat /\ WideN \in Nat /\ WideN > q6 * Q
      BY <2>2, <2>5 DEF q6
    <3>2. q6 * Q \in Nat /\ q6 * Q >= q6
      BY <1>0, <3>1
    <3> QED BY <3>1, <3>2 DEF q6
  <2>6. WideN > 27 * q3
    <3> DEFINE q6 == q3 * q3
    <3>1. q3 \in Nat /\ q6 \in Nat /\ q6 >= 27 * q3 /\ WideN > q6
      BY <2>1, <2>3, <2>4, <2>5
    <3>2. WideN \in Nat
      BY <2>2
    <3> HIDE DEF q6
    <3> QED BY <3>1, <3>2
  <2> QED BY <2>2, <2>6 DEF q3
<1> QED BY <1>0, <1>1, <1>2, <1>3, <1>4, <1>5

\* A wide plaintext holds the product of six scalars.
LEMMA WideProducts ==
    (Q * Q) * ((Q * Q) * (Q * Q)) \in Nat /\ WideN \in Nat /\ WideN > (Q * Q) * ((Q * Q) * (Q * Q))
<1> DEFINE q2 == Q * Q
           q4 == q2 * q2
           t == q2 * q4
<1>1. Q \in Nat /\ Q >= 3 /\ q2 \in Nat
  BY SpaceType
<1>2. t \in Nat
  <2> HIDE DEF q2
  <2>1. q4 \in Nat
    BY <1>1
  <2> HIDE DEF q4
  <2> QED BY <1>1, <2>1
<1>3. Q * Q * Q * Q * Q * Q * Q = Q * t
  BY <1>1
<1>4. Q * t \in Nat /\ 1 * t <= Q * t
  <2> HIDE DEF t
  <2> QED BY <1>1, <1>2, ProductBound
<1>5. WideN \in Nat /\ WideN > Q * t
  BY <1>3, ModuliAssumption
<1> DEFINE w == Q * t
<1>6. w \in Nat /\ t <= w /\ WideN \in Nat /\ WideN > w
  <2> HIDE DEF t
  <2> QED BY <1>2, <1>4, <1>5
<1> HIDE DEF w, t
<1>7. WideN > t
  BY <1>2, <1>6
<1> QED BY <1>2, <1>6, <1>7 DEF t

-----------------------------------------------------------------------------
(* What the machines know.                                                   *)

Ints == [Signers -> Int]
PairInts == [Pairs -> Int]

Has(x, S) == x \in DOMAIN know /\ know[x] \in S

LEMMA SameIndices ==
    ASSUME protocol' = protocol
    PROVE  Signers' = Signers /\ Ints' = Ints /\ Pairs' = Pairs /\ PairInts' = PairInts
  BY SameSigners DEF Ints, Pairs, PairInts

LEMMA FlInt ==
    ASSUME NEW a \in Int
    PROVE  Fl(a) \in Field /\ Fl(a) \in Int /\ Neg(a) \in Int
  BY FlType, NegType, ScalarsType

LEMMA IntsType ==
    ASSUME NEW f, \A i \in Signers : f[i] \in Int
    PROVE  /\ Total(f, Signers) \in Field /\ Total(f, Signers) \in Int
           /\ SumFunctionOnSet(f, Signers) \in Int
  BY SignersType, TotalType, SumType, ScalarsType

\* What a signer adds up over the others.
LEMMA OthersSum ==
    ASSUME NEW i \in Signers, NEW f, \A j \in Others(i) : f[j] \in Int
    PROVE  SumFunctionOnSet(f, Others(i)) \in Int
  BY OthersType, SumType

LEMMA OtherPairs ==
    ASSUME NEW i \in Signers, NEW j \in Others(i)
    PROVE  j \in Signers /\ <<i, j>> \in Pairs /\ <<j, i>> \in Pairs
  BY DEF Others, Pairs

LEMMA DrawnInts ==
    /\ \A f \in [Signers -> Scalars] : f \in Ints
    /\ \A f \in [Signers -> Blinds] : f \in Ints
    /\ \A f \in [Pairs -> Scalars] : f \in PairInts
    /\ \A f \in [Pairs -> Blinds] : f \in PairInts
    /\ Scalars \subseteq Int /\ Blinds \subseteq Int /\ Masks \subseteq Int
<1>1. Scalars \subseteq Int /\ Blinds \subseteq Int /\ Masks \subseteq Int
  BY ScalarsType, SigningAssumption
<1> QED BY <1>1 DEF Ints, PairInts

\* The shares that the signers begin with, as they are and weighted.
LEMMA BeginType ==
    ASSUME NEW f \in Sharings
    PROVE  /\ f[0] \in Field /\ f[0] \in Int
           /\ \A i \in Signers : /\ Eval(f, i) \in Int /\ Lagrange(Signers, i) \in Int
                                 /\ Fl(Eval(f, i) * Lagrange(Signers, i)) \in Int
                                 /\ Fl(Lagrange(Signers, i) * Eval(f, i)) \in Int
<1>0. f \in Polynomials(T) /\ T \in Nat /\ 0 \in 0 .. T - 1
  BY SigningAssumption
<1>1. f[0] \in Field /\ f[0] \in Int
  BY <1>0, ScalarsType DEF Polynomials
<1>2. ASSUME NEW i \in Signers
      PROVE  /\ Eval(f, i) \in Int /\ Lagrange(Signers, i) \in Int
             /\ Fl(Eval(f, i) * Lagrange(Signers, i)) \in Int
             /\ Fl(Lagrange(Signers, i) * Eval(f, i)) \in Int
  <2>1. Eval(f, i) \in Int /\ Lagrange(Signers, i) \in Int
    BY <1>0, SignersType, EvalType, LagrangeType, ScalarsType
  <2>2. Eval(f, i) * Lagrange(Signers, i) \in Int /\ Lagrange(Signers, i) * Eval(f, i) \in Int
    BY <2>1
  <2> QED BY <2>1, <2>2, FlInt
<1> QED BY <1>1, <1>2

LEMMA SignedInt ==
    ASSUME NEW x \in Int
    PROVE  Signed(x, PaillierN) \in Int /\ Signed(x, WideN) \in Int
  BY SignedType, SpaceType

LEMMA PairsType ==
    ASSUME NEW p \in Pairs
    PROVE  p[1] \in Signers /\ p[2] \in Signers /\ <<p[1], p[2]>> \in Pairs /\ <<p[2], p[1]>> \in Pairs
  BY DEF Pairs

\* An inverse is one of something that is not zero.
LEMMA InvInt ==
    ASSUME NEW a \in Field, a # 0
    PROVE  Inv(a) \in Int /\ Inv(a) \in Field
  BY FlField, InvType, ScalarsType

\* The last step of most protocols: a signature that verify_ecdsa has accepted,
\* or an error.
LEMMA FinishLawful ==
    ASSUME Session, NEW from, from # "ended", NEW outcome, Return(from, Everyone(outcome)),
           \/ outcome = Refused
           \/ \E r \in Field, s \in Field : outcome = Checked(r, s)
    PROVE  LawfulStep /\ stage = from /\ stage' = "ended"
<1>1. CASE outcome = Refused
  BY <1>1, RefusalLawful
<1>2. CASE \E r \in Field, s \in Field : outcome = Checked(r, s)
  <2>1. PICK r \in Field, s \in Field : outcome = Checked(r, s)
    BY <1>2
  <2> QED BY <2>1, CheckedLawful, ReturnLawful
<1> QED BY <1>1, <1>2

\* What the steps of a protocol compute with.
LEMMA Operands ==
    ASSUME Session
    PROVE  /\ digest \in Int /\ key \in Int
           /\ \A i \in Signers : bent[i] \in Int
           /\ Cardinality(Signers) >= 2 => bent[P1] \in Int /\ bent[P2] \in Int
  BY Two, ScalarsType DEF Session

LEMMA ScalarInt ==
    ASSUME NEW k \in Scalars \cup Blinds
    PROVE  k \in Field /\ k \in Int /\ Inv(k) \in Int /\ k # 0
  BY ScalarsType, InvInt

LEMMA Remainder ==
    ASSUME NEW x \in Int, NEW n \in Nat, n > 0
    PROVE  x % n \in Int
  OBVIOUS

LEMMA OffType ==
    ASSUME Session, NEW i \in Signers, NEW where
    PROVE  Off(i, where) \in Int
  BY Operands DEF Off

LEMMA LagrangeInt ==
    ASSUME NEW i \in Signers
    PROVE  Lagrange(Signers, i) \in Int /\ i \in Int
  BY SignersType, LagrangeType, ScalarsType

LEMMA ReconstructInt ==
    ASSUME NEW S \in SUBSET Signers, NEW g, \A i \in S : g[i] \in Int
    PROVE  Reconstruct(g, S) \in Field /\ Reconstruct(g, S) \in Int
<1>1. S \in SUBSET (1 .. Q - 1) /\ IsFiniteSet(S)
  BY SignersType, FS_Subset
<1> QED BY <1>1, ReconstructType, ScalarsType

\* Positions are indices of a sharing as well.
LEMMA PositionType ==
    /\ Positions \in SUBSET (1 .. Q - 1) /\ IsFiniteSet(Positions)
    /\ Cardinality(Positions) = Cardinality(Signers)
    /\ \A i \in Signers : Position(i) \in Positions /\ Position(i) \in Int
                          /\ Lagrange(Positions, Position(i)) \in Int
<1>1. Cardinality(Signers) <= Q - 1
  <2>1. IsFiniteSet(1 .. Q - 1) /\ Cardinality(1 .. Q - 1) = Q - 1
    BY QAssumption, FS_Interval
  <2> QED BY <2>1, SignersType, FS_Subset
<1>2. /\ Positions \in SUBSET (1 .. Q - 1) /\ IsFiniteSet(Positions)
      /\ Cardinality(Positions) = Cardinality(Signers)
  <2>1. Cardinality(Signers) \in Nat
    BY SignersType
  <2>2. IsFiniteSet(1 .. Cardinality(Signers)) /\ Cardinality(1 .. Cardinality(Signers)) = Cardinality(Signers)
    <3>1. 1 \in Int /\ Cardinality(Signers) \in Int
      BY <2>1
    <3>2. Cardinality(1 .. Cardinality(Signers))
            = IF 1 > Cardinality(Signers) THEN 0 ELSE Cardinality(Signers) - 1 + 1
      BY <3>1, FS_Interval
    <3> QED BY <2>1, <3>1, <3>2, FS_Interval
  <2>3. Positions \in SUBSET (1 .. Q - 1)
    BY <1>1, <2>1, QAssumption DEF Positions
  <2> QED BY <2>2, <2>3 DEF Positions
<1>3. ASSUME NEW i \in Signers
      PROVE  Position(i) \in Positions /\ Position(i) \in Int
  <2> DEFINE before == {j \in Signers : j <= i}
  <2>1. before \in SUBSET Signers /\ i \in before
    BY SignersType
  <2>2. IsFiniteSet(before) /\ Cardinality(before) <= Cardinality(Signers) /\ Cardinality(before) \in Nat
    BY <2>1, SignersType, FS_Subset, FS_CardinalityType
  <2>3. Cardinality(before) # 0
    BY <2>1, <2>2, FS_EmptySet
  <2>4. Position(i) = Cardinality(before)
    BY DEF Position
  <2> QED BY <2>2, <2>3, <2>4, SignersType DEF Positions
<1>4. ASSUME NEW i \in Signers
      PROVE  Lagrange(Positions, Position(i)) \in Int
  BY <1>2, <1>3, LagrangeType, ScalarsType
<1> QED BY <1>2, <1>3, <1>4

\* The polynomials that signers draw share a secret of their own each.
LEMMA DrawnPolynomials ==
    ASSUME NEW secret \in [Signers -> Scalars], NEW slope \in Blinds
    PROVE  [i \in Signers |-> [d \in 0 .. T - 1 |-> IF d = 0 THEN secret[i] ELSE slope]]
             \in [Signers -> Polynomials(T)]
  BY ScalarsType DEF Polynomials

LEMMA DealersType ==
    ASSUME NEW poly \in [Signers -> Polynomials(T)], NEW x \in Int
    PROVE  Dealers(poly, x) \in Field /\ Dealers(poly, x) \in Int
<1> DEFINE g == [d \in Signers |-> Eval(poly[d], x)]
<1>1. T \in Nat
  BY SigningAssumption
<1>2. \A d \in Signers : g[d] \in Int
  BY <1>1, EvalType, ScalarsType
<1> HIDE DEF g
<1>3. Total(g, Signers) \in Field /\ Total(g, Signers) \in Int
  BY <1>2, IntsType
<1> QED BY <1>3 DEF Dealers, g

LEMMA SharesDealtType ==
    ASSUME Session, NEW poly \in [Signers -> Polynomials(T)], NEW p \in Signers
    PROVE  SharesDealt(poly, p) \in Int
<1> DEFINE g == [d \in Signers |-> IF p = Victim(d) THEN Off(d, "sharing") ELSE 0]
<1>1. \A d \in Signers : g[d] \in Int
  BY OffType
<1> HIDE DEF g
<1>2. Total(g, Signers) \in Int /\ Dealers(poly, p) \in Int
  BY <1>1, IntsType, LagrangeInt, DealersType
<1> QED BY <1>2, FlInt DEF SharesDealt, g

\* The positions of the signers are the numbers from 1 to how many they are.
LEMMA PositionsTaken ==
    /\ \A i, j \in Signers : Position(i) = Position(j) => i = j
    /\ {Position(i) : i \in Signers} = Positions
<1> DEFINE before(i) == {j \in Signers : j <= i}
           m == [i \in Signers |-> Position(i)]
<1>1. ASSUME NEW i \in Signers, NEW j \in Signers, i < j PROVE Position(i) # Position(j)
  <2>1. before(i) \in SUBSET before(j) /\ j \in before(j) /\ j \notin before(i)
    <3>1. i \in Int /\ j \in Int /\ \A x \in Signers : x \in Int
      BY SignersType
    <3>2. \A x \in Signers : x <= i => x <= j
      BY <1>1, <3>1
    <3>3. j <= j /\ ~(j <= i)
      BY <1>1, <3>1
    <3> QED BY <3>2, <3>3
  <2>2. IsFiniteSet(before(j))
    BY SignersType, FS_Subset
  <2>3. Cardinality(before(i)) # Cardinality(before(j))
    BY <2>1, <2>2, FS_Subset
  <2> QED BY <2>3 DEF Position
<1>2. \A i, j \in Signers : Position(i) = Position(j) => i = j
  <2> SUFFICES ASSUME NEW i \in Signers, NEW j \in Signers, i # j PROVE Position(i) # Position(j)
    OBVIOUS
  <2>1. i < j \/ j < i
    BY SignersType
  <2> QED BY <1>1, <2>1
<1>3. m \in Injection(Signers, Positions)
  <2>1. m \in [Signers -> Positions]
    BY PositionType
  <2>2. \A i, j \in Signers : m[i] = m[j] => i = j
    BY <1>2
  <2> QED BY <2>1, <2>2 DEF Injection, IsInjective
<1>4. m \in Surjection(Signers, Positions)
  BY <1>3, PositionType, FS_Injection
<1>5. \A p \in Positions : \E i \in Signers : m[i] = p
  BY <1>4 DEF Surjection
<1>6. {Position(i) : i \in Signers} = Positions
  BY <1>5, PositionType
<1> QED BY <1>2, <1>6

\* The signers at the first n positions are n.
LEMMA FirstPositions ==
    ASSUME NEW n \in 0 .. Cardinality(Signers)
    PROVE  Cardinality({i \in Signers : Position(i) <= n}) = n
<1> DEFINE S == {i \in Signers : Position(i) <= n}
           m == [i \in S |-> Position(i)]
<1>1. IsFiniteSet(S) /\ n \in Nat /\ Cardinality(Signers) \in Nat /\ n <= Cardinality(Signers)
  BY SignersType, FS_Subset
<1>2. m \in [S -> 1 .. n]
  BY <1>1, PositionType DEF Positions
<1>3. m \in Injection(S, 1 .. n)
  BY <1>2, PositionsTaken DEF Injection, IsInjective
<1>4. m \in Surjection(S, 1 .. n)
  <2>1. ASSUME NEW p \in 1 .. n PROVE \E i \in S : m[i] = p
    <3>1. p \in Positions /\ p <= n
      BY <1>1 DEF Positions
    <3>2. PICK i \in Signers : Position(i) = p
      BY <3>1, PositionsTaken
    <3> QED BY <3>1, <3>2
  <2> QED BY <1>2, <2>1 DEF Surjection
<1> HIDE DEF S, m
<1>5. Cardinality(1 .. n) = Cardinality(S)
  BY <1>1, <1>3, <1>4, FS_Surjection
<1>6. Cardinality(1 .. n) = n
  <2>1. 1 \in Int /\ n \in Int
    BY <1>1
  <2>2. Cardinality(1 .. n) = IF 1 > n THEN 0 ELSE n - 1 + 1
    BY <2>1, FS_Interval
  <2> QED BY <1>1, <2>2
<1> QED BY <1>5, <1>6 DEF S

\* Shamir's scheme is linear: what the dealers' shares add up to are shares of
\* the key, and any T of them or more interpolate to it.
LEMMA DealersInterpolate ==
    ASSUME NEW poly \in [Signers -> Polynomials(T)],
           NEW S \in SUBSET (1 .. Q - 1), IsFiniteSet(S), Cardinality(S) >= T,
           NEW g, \A i \in S : g[i] = Dealers(poly, i)
    PROVE  Reconstruct(g, S) = Secret(poly)
<1> DEFINE F == [d \in Signers |-> [i \in S |-> Eval(poly[d], i)]]
           back == [d \in Signers |-> Reconstruct(F[d], S)]
           secrets == [d \in Signers |-> poly[d][0]]
<1>1. T \in Nat \ {0} /\ Cardinality(S) \in Nat /\ T \in 1 .. Cardinality(S)
  BY SigningAssumption, FS_CardinalityType
<1>2. \A i \in S : i \in Int
  BY QAssumption
<1>3. \A d \in Signers : \A i \in S : F[d][i] = Eval(poly[d], i) /\ F[d][i] \in Int
  BY <1>1, <1>2, EvalType, ScalarsType
<1>4. \A i \in S : g[i] \in Int /\ Fl(g[i]) = Total([d \in Signers |-> F[d][i]], Signers)
  <2> SUFFICES ASSUME NEW i \in S
               PROVE  g[i] \in Int /\ Fl(g[i]) = Total([d \in Signers |-> F[d][i]], Signers)
    OBVIOUS
  <2>1. g[i] \in Field /\ g[i] \in Int /\ g[i] = Dealers(poly, i)
    BY <1>2, DealersType
  <2>2. [d \in Signers |-> F[d][i]] = [d \in Signers |-> Eval(poly[d], i)]
    OBVIOUS
  <2> QED BY <2>1, <2>2, FlField DEF Dealers
<1>5. \A d \in Signers : Reconstruct(F[d], S) = poly[d][0]
  BY <1>1, <1>3, Interpolation
<1>6. back = secrets
  BY <1>5
<1> HIDE DEF F, back, secrets
<1>7. Reconstruct(g, S) = Total([d \in Signers |-> Reconstruct(F[d], S)], Signers)
  BY <1>3, <1>4, SignersType, ReconstructTotal
<1> QED BY <1>6, <1>7 DEF back, secrets, Secret

\* So do the shares at the positions of the signers, each times its coefficient.
LEMMA PositionedShares ==
    ASSUME NEW poly \in [Signers -> Polynomials(T)], NEW w,
           w = [i \in Signers |-> Fl(Lagrange(Positions, Position(i)) * Dealers(poly, Position(i)))]
    PROVE  Total(w, Signers) = Secret(poly)
<1> DEFINE g == [p \in Positions |-> Dealers(poly, p)]
           wg == [p \in Positions |-> Fl(g[p] * Lagrange(Positions, p))]
           m == [i \in Signers |-> Position(i)]
<1>1. Positions \in SUBSET (1 .. Q - 1) /\ IsFiniteSet(Positions) /\ Cardinality(Positions) >= T
  BY PositionType, SignersType
<1>2. ASSUME NEW p \in Positions
      PROVE  /\ g[p] \in Int /\ Lagrange(Positions, p) \in Int
             /\ g[p] * Lagrange(Positions, p) \in Int
             /\ g[p] * Lagrange(Positions, p) = Lagrange(Positions, p) * g[p]
             /\ wg[p] \in Int
  <2>1. p \in Int
    BY <1>1, QAssumption
  <2>2. g[p] \in Int
    BY <2>1, DealersType
  <2>3. Lagrange(Positions, p) \in Int
    BY <1>1, LagrangeType, ScalarsType
  <2> HIDE DEF g
  <2>4. g[p] * Lagrange(Positions, p) \in Int /\ g[p] * Lagrange(Positions, p) = Lagrange(Positions, p) * g[p]
    BY <2>2, <2>3
  <2> QED BY <2>2, <2>3, <2>4, FlInt
<1>3. Reconstruct(g, Positions) = Secret(poly)
  BY <1>1, DealersInterpolate
<1>4. Total(w, Signers) = Total(wg, {m[i] : i \in Signers})
  <2>1. m \in [Signers -> Positions] /\ \A i, j \in Signers : m[i] = m[j] => i = j
    BY PositionType, PositionsTaken
  <2>2. \A i \in Signers : w[i] = wg[m[i]]
    <3> SUFFICES ASSUME NEW i \in Signers PROVE w[i] = wg[m[i]]
      OBVIOUS
    <3>1. Position(i) \in Positions
      BY PositionType
    <3>2. g[Position(i)] = Dealers(poly, Position(i))
      BY <3>1
    <3>3. wg[Position(i)] = Fl(g[Position(i)] * Lagrange(Positions, Position(i)))
      BY <3>1
    <3>4. m[i] = Position(i)
      OBVIOUS
    <3> HIDE DEF wg, g, m
    <3> QED BY <1>2, <3>1, <3>2, <3>3, <3>4
  <2>3. \A p \in Positions : wg[p] \in Int
    BY <1>2
  <2> HIDE DEF wg, m
  <2>4. IsFiniteSet(Signers) /\ IsFiniteSet(Positions)
    BY <1>1, SignersType
  <2>5. \A u, v \in Signers : m[u] = m[v] => u = v
    BY <2>1
  <2>6. \A u \in Signers : w[u] = wg[m[u]]
    BY <2>2
  <2> QED BY <2>1, <2>3, <2>4, <2>5, <2>6, TotalRenamed
<1>5. {m[i] : i \in Signers} = Positions
  BY PositionsTaken
<1>6. Reconstruct(g, Positions) = Total(wg, Positions)
  <2> DEFINE h == [p \in Positions |-> g[p] * Lagrange(Positions, p)]
  <2>1. Reconstruct(g, Positions) = Total(h, Positions)
    BY DEF Reconstruct
  <2>2. \A p \in Positions : h[p] \in Int /\ wg[p] = Fl(h[p])
    BY <1>2
  <2> HIDE DEF h, wg, g
  <2>3. \A p \in Positions : h[p] \in Int /\ wg[p] \in Int /\ Fl(h[p]) = Fl(wg[p])
    BY <1>2, <2>2, FlInt, FlField
  <2> QED BY <1>1, <2>1, <2>3, TotalSame
<1> QED BY <1>3, <1>4, <1>5, <1>6

-----------------------------------------------------------------------------
(* Shares of a product.                                                     *)

\* The total of a function that is given by a sum.
LEMMA TotalOthers ==
    ASSUME NEW i \in Signers, NEW h, \A j \in Others(i) : h[j] \in Int
    PROVE  Total(h, Others(i)) = Fl(SumFunctionOnSet(h, Others(i))) /\ Total(h, Others(i)) \in Int
  BY OthersType, TotalType, ScalarsType DEF Total

\* Shares of a product: of u_i v_j, for i and j that differ, signer i gets a and
\* j keeps b, and g is what each has in all.
ProductShared(u, v, a, b, h, g) ==
    /\ u \in Ints /\ v \in Ints /\ a \in PairInts /\ b \in PairInts /\ g \in Ints
    /\ \A p \in Pairs : Fl(a[p] + b[p]) = Fl(u[p[1]] * v[p[2]])
    /\ \A i \in Signers : \A j \in Others(i) : h[i][j] = a[<<i, j>>] + b[<<j, i>>]
    /\ \A i \in Signers : Fl(g[i]) = Fl(u[i] * v[i] + SumFunctionOnSet(h[i], Others(i)))

\* What the signers have adds up to the product of the sums.
LEMMA ProductShares ==
    ASSUME NEW u, NEW v, NEW a, NEW b, NEW h, NEW g, ProductShared(u, v, a, b, h, g)
    PROVE  Total(g, Signers) = Fl(Total(u, Signers) * Total(v, Signers))
<1> USE DEF ProductShared
<1> DEFINE A == [i \in Signers |-> [j \in Signers |-> IF i = j THEN u[i] * v[i] ELSE a[<<i, j>>]]]
           B == [i \in Signers |-> [j \in Signers |-> IF i = j THEN 0 ELSE b[<<i, j>>]]]
           rowA == [i \in Signers |-> Total([j \in Signers |-> A[i][j]], Signers)]
           rowB == [i \in Signers |-> Total([j \in Signers |-> B[i][j]], Signers)]
           colB == [j \in Signers |-> Total([i \in Signers |-> B[i][j]], Signers)]
<1>1. \A i \in Signers : u[i] \in Int /\ v[i] \in Int /\ g[i] \in Int /\ u[i] * v[i] \in Int
  BY DEF Ints
<1>2. \A i, j \in Signers : i # j => <<i, j>> \in Pairs /\ a[<<i, j>>] \in Int /\ b[<<i, j>>] \in Int
  BY DEF Pairs, PairInts
<1>4. \A i, j \in Signers : /\ i = j => A[i][j] = u[i] * v[i] /\ B[i][j] = 0
                            /\ i # j => A[i][j] = a[<<i, j>>] /\ B[i][j] = b[<<i, j>>]
  OBVIOUS
<1> HIDE DEF A, B
<1>3. \A i, j \in Signers : A[i][j] \in Int /\ B[i][j] \in Int
  <2> SUFFICES ASSUME NEW i \in Signers, NEW j \in Signers PROVE A[i][j] \in Int /\ B[i][j] \in Int
    OBVIOUS
  <2>1. CASE i = j
    <3>1. A[i][j] = u[i] * v[i] /\ B[i][j] = 0
      BY <1>4, <2>1
    <3>2. u[i] * v[i] \in Int
      BY <1>1
    <3> QED BY <3>1, <3>2
  <2>2. CASE i # j
    BY <1>2, <1>4, <2>2
  <2> QED BY <2>1, <2>2
<1>5. \A i \in Signers : rowA[i] \in Int /\ rowB[i] \in Int /\ colB[i] \in Int
  BY <1>3, IntsType
<1>6. ASSUME NEW i \in Signers
      PROVE  Fl(g[i]) = Fl(rowA[i] + colB[i])
  <2> DEFINE w == [j \in Signers |-> A[i][j] + B[j][i]]
  <2>1. \A j \in Signers : w[j] \in Int
    BY <1>3
  <2>2. Total(w, Signers) = Fl(w[i] + Total(w, Signers \ {i}))
    BY <2>1, SignersType, TotalStep
  <2>3. w[i] = u[i] * v[i]
    <3>1. w[i] = A[i][i] + B[i][i] /\ A[i][i] = u[i] * v[i] /\ B[i][i] = 0 /\ A[i][i] \in Int
      BY <1>3, <1>4
    <3> HIDE DEF w
    <3> QED BY <3>1
  <2>4. \A j \in Others(i) : h[i][j] \in Int /\ h[i][j] = w[j]
    <3> SUFFICES ASSUME NEW j \in Others(i) PROVE h[i][j] \in Int /\ h[i][j] = w[j]
      OBVIOUS
    <3>1. j \in Signers /\ j # i
      BY DEF Others
    <3>2. A[i][j] = a[<<i, j>>] /\ B[j][i] = b[<<j, i>>]
      BY <1>4, <3>1
    <3> QED BY <2>1, <3>1, <3>2
  <2>5. Total(h[i], Others(i)) = Total(w, Signers \ {i})
    <3>1. \A j \in Others(i) : w[j] \in Int /\ Fl(h[i][j]) = Fl(w[j])
      BY <2>4
    <3> HIDE DEF w
    <3>2. Total(h[i], Others(i)) = Total(w, Others(i))
      BY <2>4, <3>1, OthersType, TotalSame
    <3> QED BY <3>2 DEF Others
  <2>6. Total(h[i], Others(i)) = Fl(SumFunctionOnSet(h[i], Others(i)))
        /\ SumFunctionOnSet(h[i], Others(i)) \in Int
    BY <2>4, TotalOthers, OthersSum
  <2>7. Fl(u[i] * v[i] + Fl(SumFunctionOnSet(h[i], Others(i)))) = Fl(u[i] * v[i] + SumFunctionOnSet(h[i], Others(i)))
    BY <1>1, <2>6, FlAddRight
  <2>8. Fl(g[i]) = Total(w, Signers)
    BY <2>2, <2>3, <2>5, <2>6, <2>7
  <2>9. Total(w, Signers) = Fl(rowA[i] + colB[i])
    <3> DEFINE p == [j \in Signers |-> A[i][j]]
               q == [j \in Signers |-> B[j][i]]
    <3>1. \A j \in Signers : p[j] \in Int /\ q[j] \in Int /\ w[j] \in Int /\ Fl(w[j]) = Fl(p[j] + q[j])
      BY <1>3
    <3>2. rowA[i] = Total(p, Signers) /\ colB[i] = Total(q, Signers)
      OBVIOUS
    <3> HIDE DEF p, q, w, rowA, colB
    <3>3. Total(w, Signers) = Fl(Total(p, Signers) + Total(q, Signers))
      BY <3>1, SignersType, TotalSum
    <3> QED BY <3>2, <3>3
  <2> QED BY <2>8, <2>9
<1>7. Total(g, Signers) = Fl(Total(rowA, Signers) + Total(colB, Signers))
  <2> HIDE DEF rowA, colB
  <2>1. \A i \in Signers : rowA[i] \in Int /\ colB[i] \in Int /\ g[i] \in Int /\ Fl(g[i]) = Fl(rowA[i] + colB[i])
    BY <1>1, <1>5, <1>6
  <2> QED BY <2>1, SignersType, TotalSum
<1>8. Total(colB, Signers) = Total(rowB, Signers)
  BY <1>3, SignersType, TotalSwap
<1> DEFINE r == [i \in Signers |-> u[i] * Total(v, Signers)]
<1>9. Total(v, Signers) \in Int /\ Total(u, Signers) \in Int /\ Total(rowA, Signers) \in Int /\ Total(rowB, Signers) \in Int
  <2> HIDE DEF rowA, rowB
  <2> QED BY <1>1, <1>5, IntsType
<1>10. ASSUME NEW i \in Signers
       PROVE  Fl(r[i]) = Fl(rowA[i] + rowB[i]) /\ r[i] \in Int
  <2> DEFINE p == [j \in Signers |-> A[i][j]]
             q == [j \in Signers |-> B[i][j]]
             w == [j \in Signers |-> u[i] * v[j]]
  <2>1. \A j \in Signers : p[j] \in Int /\ q[j] \in Int /\ w[j] \in Int /\ Fl(w[j]) = Fl(p[j] + q[j])
    <3> SUFFICES ASSUME NEW j \in Signers
                 PROVE  p[j] \in Int /\ q[j] \in Int /\ w[j] \in Int /\ Fl(w[j]) = Fl(p[j] + q[j])
      OBVIOUS
    <3>1. p[j] \in Int /\ q[j] \in Int /\ w[j] \in Int
      BY <1>1, <1>3
    <3>2. CASE i = j
      <4>1. p[j] = u[j] * v[j] /\ q[j] = 0 /\ w[j] = u[j] * v[j]
        BY <1>4, <3>2
      <4> HIDE DEF p, q, w
      <4>2. p[j] + q[j] = w[j]
        BY <3>1, <4>1
      <4> QED BY <3>1, <4>2
    <3>3. CASE i # j
      <4>1. <<i, j>> \in Pairs
        BY <1>2, <3>3
      <4>2. Fl(a[<<i, j>>] + b[<<i, j>>]) = Fl(u[i] * v[j])
        BY <4>1
      <4>3. p[j] = a[<<i, j>>] /\ q[j] = b[<<i, j>>]
        BY <1>4, <3>3
      <4>4. w[j] = u[i] * v[j]
        OBVIOUS
      <4> QED BY <4>2, <4>3, <4>4, <3>1
    <3> QED BY <3>1, <3>2, <3>3
  <2>2. rowA[i] = Total(p, Signers) /\ rowB[i] = Total(q, Signers)
    OBVIOUS
  <2>3. \A j \in Signers : v[j] \in Int /\ w[j] \in Int /\ Fl(w[j]) = Fl(u[i] * v[j])
    BY <1>1, <2>1
  <2>4. r[i] = u[i] * Total(v, Signers) /\ r[i] \in Int
    BY <1>1, <1>9
  <2> HIDE DEF p, q, w, rowA, rowB, r
  <2>5. Total(w, Signers) = Fl(Total(p, Signers) + Total(q, Signers))
    BY <2>1, SignersType, TotalSum
  <2>6. Total(w, Signers) = Fl(u[i] * Total(v, Signers))
    <3>1. u[i] \in Int
      BY <1>1
    <3> QED BY <2>3, <3>1, SignersType, TotalScale
  <2> QED BY <2>2, <2>4, <2>5, <2>6
<1>11. Total(r, Signers) = Fl(Total(rowA, Signers) + Total(rowB, Signers))
  <2> HIDE DEF rowA, rowB, r
  <2> QED BY <1>5, <1>10, SignersType, TotalSum
<1>12. Total(r, Signers) = Fl(Total(v, Signers) * Total(u, Signers))
  <2>1. \A i \in Signers : u[i] \in Int /\ r[i] \in Int /\ Fl(r[i]) = Fl(Total(v, Signers) * u[i])
    <3> SUFFICES ASSUME NEW i \in Signers PROVE u[i] \in Int /\ r[i] \in Int /\ Fl(r[i]) = Fl(Total(v, Signers) * u[i])
      OBVIOUS
    <3>1. ASSUME NEW x \in Int, NEW y \in Int PROVE x * y = y * x
      OBVIOUS
    <3>2. r[i] = Total(v, Signers) * u[i]
      BY <1>1, <1>9, <3>1
    <3> QED BY <1>1, <1>10, <3>2
  <2> HIDE DEF r
  <2> QED BY <1>9, <2>1, SignersType, TotalScale
<1>13. Total(v, Signers) * Total(u, Signers) = Total(u, Signers) * Total(v, Signers)
  BY <1>9
<1> QED BY <1>7, <1>8, <1>11, <1>12, <1>13

\* What a stage leaves alone.
LEMMA StepKeeps ==
    ASSUME NEW from, NEW to, NEW facts, Step(from, to, facts)
    PROVE  /\ stage = from /\ stage' = to
           /\ \A x \in DOMAIN facts : x \in DOMAIN know' /\ know'[x] = facts[x]
           /\ \A x \in DOMAIN know : x \in DOMAIN know' /\ (x \notin DOMAIN facts => know'[x] = know[x])
           /\ protocol' = protocol /\ key' = key /\ digest' = digest /\ bent' = bent
           /\ Signers' = Signers /\ Pairs' = Pairs /\ Ints' = Ints /\ PairInts' = PairInts
<1>1. protocol' = protocol
  BY DEF Step
<1>2. know' = With(facts, know)
  BY DEF Step
<1> QED BY <1>1, <1>2, SameIndices DEF Step, With

\* What a decryption leaves of a masked product that does not turn negative.
LEMMA Unwrapped ==
    ASSUME NEW x \in Nat, NEW n \in Nat, x < n, Signed(x, n) >= 0
    PROVE  Signed(x, n) = x
<1>1. x % n = x
  OBVIOUS
<1> QED BY <1>1 DEF Signed

-----------------------------------------------------------------------------
(* What signatures are made up of: when what the parties multiply and add    *)
(* verifies, and which of their sums stay in the plaintext space.            *)

\* Shares of s that the shares of a product and of the nonce are combined into.
LEMMA CombinedShares ==
    ASSUME NEW d \in Int, NEW r \in Int, NEW k \in Ints, NEW g \in Ints,
           NEW s, \A i \in Signers : s[i] \in Int /\ Fl(s[i]) = Fl(d * k[i] + r * g[i])
    PROVE  Total(s, Signers) = Fl(d * Total(k, Signers) + r * Total(g, Signers))
<1> DEFINE dk == [i \in Signers |-> d * k[i]]
           rg == [i \in Signers |-> r * g[i]]
<1>1. \A i \in Signers : k[i] \in Int /\ g[i] \in Int /\ d * k[i] \in Int /\ r * g[i] \in Int
  <2> SUFFICES ASSUME NEW i \in Signers PROVE k[i] \in Int /\ g[i] \in Int /\ d * k[i] \in Int /\ r * g[i] \in Int
    OBVIOUS
  <2>1. k[i] \in Int /\ g[i] \in Int
    BY DEF Ints
  <2> QED BY <2>1
<1>2. \A i \in Signers : dk[i] = d * k[i] /\ rg[i] = r * g[i]
  OBVIOUS
<1>3. Total(dk, Signers) = Fl(d * Total(k, Signers)) /\ Total(rg, Signers) = Fl(r * Total(g, Signers))
  <2>1. \A i \in Signers : /\ k[i] \in Int /\ dk[i] \in Int /\ Fl(dk[i]) = Fl(d * k[i])
                           /\ g[i] \in Int /\ rg[i] \in Int /\ Fl(rg[i]) = Fl(r * g[i])
    BY <1>1, <1>2
  <2> HIDE DEF dk, rg
  <2> QED BY <2>1, SignersType, TotalScale
<1>4. Total(s, Signers) = Fl(Total(dk, Signers) + Total(rg, Signers))
  <2>1. \A i \in Signers : dk[i] \in Int /\ rg[i] \in Int /\ s[i] \in Int /\ Fl(s[i]) = Fl(dk[i] + rg[i])
    BY <1>1, <1>2
  <2> HIDE DEF dk, rg
  <2> QED BY <2>1, SignersType, TotalSum
<1> DEFINE K == Total(k, Signers)
           G == Total(g, Signers)
<1>5. K \in Int /\ G \in Int
  BY <1>1, IntsType
<1> HIDE DEF dk, rg, K, G
<1>6. d * K \in Int /\ r * G \in Int
  BY <1>5
<1>7. Fl(Fl(d * K) + Fl(r * G)) = Fl(d * K + r * G)
  BY <1>6, FlAdd, FlAddRight, FlInt
<1> QED BY <1>3, <1>4, <1>7 DEF K, G

\* A value modulo Q may be replaced by one that is congruent to it.
LEMMA FlReplace ==
    ASSUME NEW a \in Int, NEW b \in Int, NEW z \in Int, Fl(a) = Fl(b)
    PROVE  Fl(Fl(a) * z) = Fl(b * z)
  BY FlMul, FlScale

\* s is made up of shares of the inverse k of the nonce R and of k times the key.
SharedSignature(R, k, m, x, g, r, s) ==
    /\ R \in Int /\ k \in Int /\ m \in Int /\ x \in Int /\ g \in Int /\ r \in Int
    /\ Fl(R * k) = 1 /\ Fl(g) = Fl(k * x) /\ s = Fl(m * k + r * g)

\* What the shares of s add up to verifies if they multiply the nonce's inverse
\* by the digest and the key.
LEMMA NonceInverted ==
    ASSUME NEW R, NEW k, NEW m, NEW x, NEW g, NEW r, NEW s, SharedSignature(R, k, m, x, g, r, s)
    PROVE  Fl(s * R) = Fl(m + r * x)
<1>0. /\ R \in Int /\ k \in Int /\ m \in Int /\ x \in Int /\ g \in Int /\ r \in Int
      /\ Fl(R * k) = 1 /\ Fl(g) = Fl(k * x) /\ s = Fl(m * k + r * g)
  BY DEF SharedSignature
<1> DEFINE mr == m + r * x
           kk == m * k + r * g
           kmr == k * mr
<1>1. mr \in Int /\ kk \in Int /\ r * x \in Int /\ r * g \in Int /\ m * k \in Int
  <2>1. r * x \in Int /\ r * g \in Int /\ m * k \in Int
    BY <1>0
  <2> QED BY <2>1, <1>0
<1>2. Fl(kk) = Fl(kmr)
  <2> DEFINE kx == k * x
             rg == r * g
             rkx == r * kx
             mk == m * k
  <2>1. kx \in Int /\ mk \in Int
    BY <1>0
  <2> HIDE DEF kx
  <2>2. Fl(rg) = Fl(rkx) /\ rg \in Int /\ rkx \in Int
    <3>1. Fl(r * g) = Fl(r * kx)
      BY <1>0, <2>1, FlScale DEF kx
    <3>2. r * g \in Int /\ r * kx \in Int
      BY <1>0, <2>1
    <3> QED BY <3>1, <3>2
  <2>3. kmr = mk + rkx
    <3>1. r * (k * x) = k * (r * x)
      BY <1>0
    <3>2. k * (m + r * x) = k * m + k * (r * x)
      BY <1>0, <1>1
    <3>3. k * m = m * k
      BY <1>0
    <3> QED BY <3>1, <3>2, <3>3 DEF kx
  <2> HIDE DEF rg, rkx, mk, kmr
  <2>4. Fl(mk + rg) = Fl(mk + rkx)
    BY <1>0, <2>1, <2>2, FlShift
  <2> QED BY <2>3, <2>4 DEF rg, mk
<1> HIDE DEF mr, kk
<1>3. s = Fl(kk)
  BY <1>0 DEF kk
<1>4. kmr \in Int /\ kk * R \in Int /\ kmr * R \in Int /\ Fl(kk) \in Int
  BY <1>0, <1>1, FlInt
<1>5. kmr \in Int /\ kk \in Int /\ Fl(kk) = Fl(kmr) /\ kmr = k * mr
  BY <1>0, <1>1, <1>2, <1>4
<1> HIDE DEF kmr
<1>6. Fl(s * R) = Fl(kmr * R)
  BY <1>0, <1>3, <1>5, FlReplace
<1>7. kmr * R = mr * (R * k)
  <2>1. (k * mr) * R = mr * (R * k)
    BY <1>0, <1>1
  <2> QED BY <2>1, <1>5
<1>8. Fl(mr * (R * k)) = Fl(mr)
  <2> DEFINE rk == R * k
             one == 1
  <2>1. rk \in Int /\ one \in Int /\ Fl(one) = 1 /\ mr * one = mr
    <3>1. 1 \in Field
      BY QAssumption DEF Field
    <3> QED BY <1>0, <1>1, <3>1, FlField
  <2>2. Fl(rk) = Fl(one)
    BY <1>0, <2>1
  <2> HIDE DEF rk, one
  <2>3. Fl(mr * rk) = Fl(mr * one)
    BY <1>1, <2>1, <2>2, FlScale
  <2> QED BY <2>1, <2>3 DEF rk
<1> QED BY <1>6, <1>7, <1>8 DEF mr

\* U masks the nonce and V the key with phi, and W is made up of both.
MaskedSignature(R, phi, x, m, r, U, V, W) ==
    /\ R \in Int /\ phi \in Int /\ x \in Int /\ m \in Int /\ r \in Int
    /\ U \in Field /\ U # 0 /\ U = Fl(phi * R)
    /\ V \in Int /\ Fl(V) = Fl(phi * x)
    /\ W \in Int /\ Fl(W) = Fl(m * phi + r * V)

\* What is left when the mask is divided out verifies.
LEMMA MaskDividedOut ==
    ASSUME NEW R, NEW phi, NEW x, NEW m, NEW r, NEW U, NEW V, NEW W,
           MaskedSignature(R, phi, x, m, r, U, V, W)
    PROVE  Fl(Fl(W * Inv(U)) * R) = Fl(m + r * x)
<1>0. /\ R \in Int /\ phi \in Int /\ x \in Int /\ m \in Int /\ r \in Int
      /\ U \in Field /\ U # 0 /\ U = Fl(phi * R)
      /\ V \in Int /\ Fl(V) = Fl(phi * x)
      /\ W \in Int /\ Fl(W) = Fl(m * phi + r * V)
  BY DEF MaskedSignature
<1> DEFINE v == Inv(U)
           k == phi * v
           g == V * v
           s == Fl(W * v)
<1>1. v \in Int /\ v \in Field /\ U \in Int /\ Fl(U) = U /\ Fl(U * v) = 1
  BY <1>0, InvInt, InvType, FlField, ScalarsType
<1> HIDE DEF v
<1>2. k \in Int /\ g \in Int
  BY <1>0, <1>1
<1>3. Fl(R * k) = 1
  <2> DEFINE pr == phi * R
  <2>1. pr \in Int /\ Fl(pr) = Fl(U)
    BY <1>0, <1>1
  <2>2. R * k = pr * v
    BY <1>0, <1>1
  <2> HIDE DEF pr, k
  <2>3. Fl(pr * v) = Fl(U * v)
    BY <1>1, <2>1, FlScale
  <2> QED BY <1>1, <2>2, <2>3
<1>4. Fl(g) = Fl(k * x)
  <2> DEFINE px == phi * x
  <2>1. px \in Int /\ Fl(V) = Fl(px)
    BY <1>0
  <2>2. k * x = px * v
    BY <1>0, <1>1
  <2> HIDE DEF px, k
  <2>3. Fl(V * v) = Fl(px * v)
    <3>1. V \in Int /\ px \in Int /\ v \in Int /\ Fl(V) = Fl(px)
      BY <1>0, <1>1, <2>1
    <3> QED BY <3>1, FlScale
  <2> QED BY <2>2, <2>3
<1>5. s = Fl(m * k + r * g)
  <2> DEFINE mp == m * phi
             rV == r * V
             y == mp + rV
  <2>1. mp \in Int /\ rV \in Int
    BY <1>0
  <2>2. y \in Int
    BY <2>1
  <2>3. mp * v = m * k /\ rV * v = r * g
    BY <1>0, <1>1
  <2>4. Fl(W) = Fl(y)
    BY <1>0
  <2> HIDE DEF mp, rV, k, g
  <2>5. y * v = mp * v + rV * v
    BY <1>1, <2>1
  <2> HIDE DEF y
  <2>6. Fl(W * v) = Fl(y * v)
    <3>1. W \in Int /\ y \in Int /\ v \in Int /\ Fl(W) = Fl(y)
      BY <1>0, <1>1, <2>2, <2>4
    <3> QED BY <3>1, FlScale
  <2> QED BY <2>3, <2>5, <2>6
<1> HIDE DEF k, g, s
<1>6. SharedSignature(R, k, m, x, g, r, s)
  BY <1>0, <1>2, <1>3, <1>4, <1>5 DEF SharedSignature
<1>7. Fl(s * R) = Fl(m + r * x)
  BY <1>6, NonceInverted
<1> QED BY <1>7 DEF s, v

\* What P1 divides by its nonce k1 is, times the nonce k2 of P2, the digest and
\* the key.
FactoredSignature(k1, k2, u, m, x, r) ==
    /\ k1 \in Field /\ k1 # 0 /\ k2 \in Int /\ u \in Int /\ m \in Int /\ x \in Int /\ r \in Int
    /\ Fl(u * k2) = Fl(m + r * x)

LEMMA NonceFactored ==
    ASSUME NEW k1, NEW k2, NEW u, NEW m, NEW x, NEW r, FactoredSignature(k1, k2, u, m, x, r)
    PROVE  /\ Fl(Inv(k1) * u) \in Field
           /\ Fl(Fl(Inv(k1) * u) * Fl(k1 * k2)) = Fl(m + r * x)
<1>0. /\ k1 \in Field /\ k1 # 0 /\ k2 \in Int /\ u \in Int /\ Fl(u * k2) = Fl(m + r * x)
  BY DEF FactoredSignature
<1> DEFINE v == Inv(k1)
           vu == v * u
           kk == k1 * k2
           kv == k1 * v
           uk == u * k2
           one == 1
<1>1. v \in Int /\ k1 \in Int /\ Fl(k1 * v) = 1
  BY <1>0, InvInt, InvType, FlField, ScalarsType
<1> HIDE DEF v
<1>2. vu \in Int /\ kk \in Int /\ kv \in Int /\ uk \in Int
  BY <1>0, <1>1
<1>3. vu * kk = kv * uk
  BY <1>0, <1>1
<1>4. Fl(kv) = Fl(one) /\ one \in Int /\ one * uk = uk
  <2>1. 1 \in Field
    BY QAssumption DEF Field
  <2> QED BY <1>1, <1>2, <2>1, FlField
<1> HIDE DEF vu, kk, kv, one
<1>5. Fl(kv * uk) = Fl(one * uk)
  BY <1>2, <1>4, FlScale
<1>6. Fl(vu) \in Int /\ Fl(kk) \in Int /\ Fl(vu) \in Field
  BY <1>2, FlInt
<1>7. Fl(Fl(vu) * Fl(kk)) = Fl(vu * kk)
  <2>1. Fl(Fl(vu) * Fl(kk)) = Fl(vu * Fl(kk))
    BY <1>2, <1>6, FlMul
  <2> QED BY <1>2, <2>1, FlMulRight
<1> QED BY <1>0, <1>3, <1>4, <1>5, <1>6, <1>7 DEF vu, kk, v, uk

\* A sum over the signers is bounded by Q times a bound of what is added.
LEMMA SignersSumBound ==
    ASSUME NEW f, NEW c \in Nat, \A i \in Signers : f[i] \in Nat /\ f[i] <= c
    PROVE  SumFunctionOnSet(f, Signers) \in Nat /\ SumFunctionOnSet(f, Signers) <= Q * c
<1> DEFINE n == Cardinality(Signers)
           u == SumFunctionOnSet(f, Signers)
<1>1. u \in Nat /\ u <= n * c
  BY SignersType, SumBound
<1>2. n \in Nat /\ n <= Q
  BY SignersBound
<1> HIDE DEF n, u
<1>3. n * c \in Nat /\ n * c <= Q * c /\ Q * c \in Nat
  BY <1>2, SpaceType, ProductBound
<1>4. u <= Q * c
  BY <1>1, <1>3
<1> QED BY <1>1, <1>4 DEF u

\* psi (m u + r v) stays in the plaintext space.
LEMMA Ggn16Fit ==
    ASSUME NEW psi \in Field, NEW d \in Field, NEW r \in Field,
           NEW u \in Nat, u <= Q * Q, NEW v \in Nat, v <= Q * (Q * (2 * Q))
    PROVE  (psi * (d * u + r * v)) % WideN = psi * (d * u + r * v)
<1> DEFINE q2 == Q * Q
           q4 == q2 * q2
           y == d * u + r * v
           x == psi * y
<1>1. Q \in Nat /\ Q >= 3 /\ q2 \in Nat /\ q2 >= 3 * Q /\ \A a \in Field : a \in Nat /\ a <= Q
  BY SpaceType DEF Field
<1>2. d * u \in Nat /\ d * u <= Q * q2
  BY <1>1, ProductBound
<1>3. r * v \in Nat /\ r * v <= Q * (Q * (Q * (2 * Q)))
  <2>1. Q * (Q * (2 * Q)) \in Nat
    BY <1>1
  <2> QED BY <1>1, <2>1, ProductBound
<1>4. Q * (Q * (Q * (2 * Q))) = 2 * q4
  BY <1>1
<1>5. Q * q2 <= q4 /\ Q * q2 \in Nat /\ q4 \in Nat
  <2>1. Q <= q2
    BY <1>1
  <2> HIDE DEF q2
  <2>2. Q * q2 \in Nat /\ Q * q2 <= q2 * q2 /\ q2 * q2 \in Nat
    BY <1>1, <2>1, ProductBound
  <2> QED BY <2>2
<1>6. WideN \in Nat /\ WideN > q2 * q4
  BY WideProducts
<1>7. q2 * q4 >= Q * (3 * q4)
  <2> DEFINE q3 == 3 * Q
  <2>1. q3 \in Nat /\ q3 <= q2 /\ q4 <= q4
    BY <1>1, <1>5
  <2> HIDE DEF q2, q3, q4
  <2>2. q3 * q4 \in Nat /\ q3 * q4 <= q2 * q4
    BY <1>1, <1>5, <2>1, ProductBound
  <2>3. q3 * q4 = Q * (3 * q4)
    BY <1>1, <1>5 DEF q3
  <2> QED BY <2>2, <2>3, <1>1, <1>5
<1> HIDE DEF q4, q2
<1>8. y \in Nat /\ y <= 3 * q4
  BY <1>2, <1>3, <1>4, <1>5
<1> HIDE DEF y
<1>9. x \in Nat /\ x <= Q * (3 * q4) /\ Q * (3 * q4) \in Nat /\ q2 * q4 \in Nat
  <2> DEFINE t == 3 * q4
  <2>1. t \in Nat /\ y <= t
    BY <1>5, <1>8
  <2> HIDE DEF t
  <2>2. psi * y \in Nat /\ psi * y <= Q * t /\ Q * t \in Nat
    BY <1>1, <1>8, <2>1, ProductBound
  <2>3. q2 * q4 \in Nat
    BY <1>1, <1>5
  <2> QED BY <2>2, <2>3 DEF t
<1> HIDE DEF x
<1>10. x < WideN
  BY <1>6, <1>7, <1>9
<1>11. x % WideN = x
  BY <1>6, <1>9, <1>10
<1> QED BY <1>11 DEF x, y

\* A plaintext around zero that is within half the modulus is decrypted as it is.
LEMMA SignedAround ==
    ASSUME NEW x \in Int, NEW n \in Nat, n > 0, 2 * x < n, -n <= 2 * x
    PROVE  Signed(x, n) = x
<1> DEFINE m == x % n
<1>1. CASE x >= 0
  BY <1>1, SignedType
<1>2. CASE x < 0
  <2>1. m = x + n
    BY <1>2
  <2> QED BY <1>2, <2>1 DEF Signed
<1> QED BY <1>1, <1>2

\* What P2 sends is made up of its inverse nonce, the digest and the key.
LinearPartial(v, k2, x1, x2, m, r, c) ==
    /\ v \in Int /\ k2 \in Int /\ x1 \in Int /\ x2 \in Int /\ m \in Int /\ r \in Int /\ c \in Int
    /\ Fl(k2 * v) = 1
    /\ Fl(c) = Fl(v * m + (v * (r * x2)) * x1)

LEMMA PartialOpened ==
    ASSUME NEW v, NEW k2, NEW x1, NEW x2, NEW m, NEW r, NEW c, LinearPartial(v, k2, x1, x2, m, r, c)
    PROVE  Fl(c * k2) = Fl(m + r * (x1 * x2))
<1>0. /\ v \in Int /\ k2 \in Int /\ x1 \in Int /\ x2 \in Int /\ m \in Int /\ r \in Int /\ c \in Int
      /\ Fl(k2 * v) = 1 /\ Fl(c) = Fl(v * m + (v * (r * x2)) * x1)
  BY DEF LinearPartial
<1> DEFINE e == m + r * (x1 * x2)
           w == v * m + (v * (r * x2)) * x1
           kv == k2 * v
           rx == r * x2
           one == 1
<1>1. rx \in Int /\ v * m \in Int /\ r * (x1 * x2) = rx * x1
  BY <1>0
<1> HIDE DEF rx
<1>2. rx * x1 \in Int /\ (v * rx) * x1 = v * (rx * x1)
  BY <1>0, <1>1
<1> DEFINE y == rx * x1
<1>3. y \in Int /\ e = m + y /\ w = v * m + v * y
  BY <1>1, <1>2 DEF rx
<1> HIDE DEF y, e, w
<1>4. w = v * e /\ e \in Int /\ w \in Int
  BY <1>0, <1>3
<1>5. Fl(c * k2) = Fl(w * k2)
  <2>1. c \in Int /\ w \in Int /\ k2 \in Int /\ Fl(c) = Fl(w)
    BY <1>0, <1>4 DEF w
  <2> QED BY <2>1, FlScale
<1>6. w * k2 = kv * e /\ kv \in Int /\ one \in Int /\ one * e = e
  BY <1>0, <1>4
<1>7. Fl(kv) = Fl(one)
  <2>1. 1 \in Field
    BY QAssumption DEF Field
  <2> QED BY <1>0, <2>1, FlField
<1> HIDE DEF kv, one
<1>8. Fl(kv * e) = Fl(one * e)
  BY <1>4, <1>6, <1>7, FlScale
<1> QED BY <1>5, <1>6, <1>8 DEF e

\* What is the other number times an inverse is, times what was inverted, that number.
LEMMA InverseUndone ==
    ASSUME NEW w \in Int, NEW v \in Int, NEW y \in Int, NEW c \in Int,
           Fl(w * v) = 1, Fl(c) = Fl(v * y)
    PROVE  Fl(c * w) = Fl(y)
<1> DEFINE vy == v * y
           wv == w * v
           one == 1
<1>1. vy \in Int /\ wv \in Int /\ one \in Int /\ one * y = y /\ vy * w = wv * y
  OBVIOUS
<1>2. Fl(c) = Fl(vy)
  OBVIOUS
<1>3. Fl(wv) = Fl(one)
  <2>1. 1 \in Field
    BY QAssumption DEF Field
  <2> QED BY <2>1, FlField
<1> HIDE DEF vy, wv, one
<1>4. Fl(c * w) = Fl(vy * w)
  BY <1>1, <1>2, FlScale
<1>5. Fl(wv * y) = Fl(one * y)
  <2>1. wv \in Int /\ one \in Int /\ y \in Int /\ Fl(wv) = Fl(one)
    BY <1>1, <1>3
  <2> QED BY <2>1, FlScale
<1> QED BY <1>1, <1>4, <1>5

\* s2 is made up of the inverse v of w, the digest and the new share of P2.
ResharedSignature(w, v, s2, xp, xp2, m, r, x) ==
    /\ w \in Int /\ v \in Int /\ s2 \in Int /\ xp \in Int /\ xp2 \in Int /\ m \in Int /\ r \in Int /\ x \in Int
    /\ Fl(w * v) = 1
    /\ Fl(s2) = Fl(v * (m + r * xp2))
    /\ Fl(xp * w + xp2) = Fl(x)

LEMMA ResharedCombined ==
    ASSUME NEW w, NEW v, NEW s2, NEW xp, NEW xp2, NEW m, NEW r, NEW x,
           ResharedSignature(w, v, s2, xp, xp2, m, r, x)
    PROVE  Fl((s2 + r * xp) * w) = Fl(m + r * x)
<1>0. /\ w \in Int /\ v \in Int /\ s2 \in Int /\ xp \in Int /\ xp2 \in Int /\ m \in Int /\ r \in Int /\ x \in Int
      /\ Fl(w * v) = 1
      /\ Fl(s2) = Fl(v * (m + r * xp2))
      /\ Fl(xp * w + xp2) = Fl(x)
  BY DEF ResharedSignature
<1> DEFINE y == m + r * xp2
           e == xp * w + xp2
           rp == r * xp
           rpw == rp * w
           sw == s2 * w
           re == r * e
           rx == r * x
<1>1. y \in Int /\ e \in Int /\ rp \in Int /\ sw \in Int /\ rx \in Int
  <2>1. r * xp2 \in Int /\ xp * w \in Int
    BY <1>0
  <2> QED BY <1>0, <2>1
<1>2. rpw \in Int /\ re \in Int /\ y + rpw = m + re
  <2> DEFINE a == xp * w
             b == r * xp2
  <2>1. a \in Int /\ b \in Int /\ rpw = r * a
    BY <1>0
  <2>2. re = r * (a + xp2) /\ y = m + b /\ b = r * xp2
    OBVIOUS
  <2> HIDE DEF a, b, re, rpw, y
  <2>3. r * (a + xp2) = r * a + r * xp2
    BY <1>0, <2>1
  <2>4. r * a \in Int
    BY <1>0, <2>1
  <2> HIDE DEF y
  <2> QED BY <1>0, <2>1, <2>2, <2>3, <2>4
<1>3. Fl(sw) = Fl(y)
  <2>1. Fl(w * v) = 1 /\ Fl(s2) = Fl(v * y)
    BY <1>0
  <2> HIDE DEF y
  <2> QED BY <1>0, <1>1, <2>1, InverseUndone
<1>4. Fl(re) = Fl(rx)
  <2>1. Fl(e) = Fl(x)
    BY <1>0
  <2> HIDE DEF e
  <2> QED BY <1>0, <1>1, <2>1, FlScale
<1>5. (s2 + r * xp) * w = sw + rpw
  <2> HIDE DEF rp
  <2>1. (s2 + rp) * w = s2 * w + rp * w
    BY <1>0, <1>1
  <2> QED BY <2>1 DEF rp
<1> HIDE DEF y, e, rp, rpw, sw, re
<1>6. Fl(sw + rpw) = Fl(y + rpw)
  <2>1. sw \in Int /\ rpw \in Int /\ y \in Int /\ Fl(sw) = Fl(y)
    BY <1>1, <1>2, <1>3
  <2> QED BY <2>1, FlShift
<1>7. Fl(m + re) = Fl(m + rx)
  BY <1>0, <1>1, <1>2, <1>4, FlShift
<1> QED BY <1>2, <1>5, <1>6, <1>7

\* What hides P1's share, and what P2 multiplies it by, leave the plaintext
\* within half the modulus.
LEMMA Kgg24Fit ==
    ASSUME NEW rho \in Nat, rho <= Q * Q * Q, NEW v \in Nat, v <= Q * Q, NEW m \in Nat, m <= Q,
           NEW r \in Nat, r <= Q, NEW x \in Nat, x <= Q, NEW c \in Nat, c <= Q * Q * Q
    PROVE  LET p == rho * Q + v * m + (v * r) * x + (r * v) * c
           IN  p \in Nat /\ Signed(p, WideN) = p
<1> DEFINE q2 == Q * Q
           q3 == Q * Q * Q
           q4 == q3 * Q
           q6 == q3 * q3
           a == rho * Q
           b == v * m
           d == (v * r) * x
           e == (r * v) * c
           p == a + b + d + e
<1>0. /\ Q \in Nat /\ Q >= 3 /\ q2 \in Nat /\ q3 \in Nat /\ q2 >= 3 * Q /\ q3 >= 3 * q2 /\ q2 * Q = q3
      /\ WideN \in Nat /\ WideN > q6 * Q
  BY SpaceType
<1>1. a \in Nat /\ a <= q4
  BY <1>0, ProductBound
<1>2. b \in Nat /\ b <= q3
  BY <1>0, ProductBound
<1>3. v * r \in Nat /\ v * r <= q3
  BY <1>0, ProductBound
<1>4. r * v \in Nat /\ r * v <= q3
  <2>1. r * v = v * r
    OBVIOUS
  <2> QED BY <1>3, <2>1
<1>5. d \in Nat /\ d <= q4
  <2> DEFINE vr == v * r
  <2>1. vr \in Nat /\ vr <= q3 /\ q3 \in Nat
    BY <1>0, <1>3
  <2> HIDE DEF vr, q3
  <2> QED BY <1>0, <2>1, ProductBound DEF vr
<1>6. e \in Nat /\ e <= q6
  <2> DEFINE rv == r * v
  <2>1. rv \in Nat /\ rv <= q3 /\ q3 \in Nat /\ c <= q3
    BY <1>0, <1>4
  <2> HIDE DEF rv, q3
  <2> QED BY <2>1, ProductBound DEF rv
<1> HIDE DEF a, b, d, e, q2, q3
<1>7. q4 \in Nat /\ q6 \in Nat /\ 9 * q4 <= q6 /\ 27 * q3 <= q6
  <2>1. q3 >= 9 * Q /\ q3 >= 27
    BY <1>0
  <2>2. q3 * q3 >= q3 * (9 * Q)
    <3> DEFINE n == 9 * Q
    <3>1. n \in Nat /\ n <= q3
      BY <1>0, <2>1
    <3> HIDE DEF n
    <3>2. q3 * n \in Nat /\ q3 * n <= q3 * q3
      BY <1>0, <3>1, ProductBound
    <3> QED BY <3>2 DEF n
  <2>3. q3 * (9 * Q) = 9 * q4
    BY <1>0
  <2>4. q3 * q3 >= q3 * 27
    BY <1>0, <2>1, ProductBound
  <2>5. q3 * q3 \in Nat /\ q3 * Q \in Nat
    BY <1>0
  <2> QED BY <1>0, <2>2, <2>3, <2>4, <2>5
<1> HIDE DEF q4, q6
<1>8. q6 * Q \in Nat /\ q6 * Q >= 3 * q6
  BY <1>0, <1>7
<1>9. p \in Nat /\ 2 * p < WideN /\ WideN > 0
  BY <1>0, <1>1, <1>2, <1>5, <1>6, <1>7, <1>8
<1> HIDE DEF p
<1>10. p \in Nat /\ Signed(p, WideN) = p
  BY <1>0, <1>9, SignedType
<1> QED BY <1>10 DEF p, a, b, d, e

\* What the client sends is made up of its inverse nonce, the digest and the
\* parties' shares, each hidden by multiples of Q.
HiddenPartial(v, m, r, x1, x2, a, b, c) ==
    /\ v \in Int /\ m \in Int /\ r \in Int /\ x1 \in Int /\ x2 \in Int /\ a \in Int /\ b \in Int
    /\ Fl(a) = Fl(v * (m + r * x1)) /\ Fl(b) = Fl(v * r)
    /\ c = a + b * x2

LEMMA HiddenPartialIs ==
    ASSUME NEW v, NEW m, NEW r, NEW x1, NEW x2, NEW a, NEW b, NEW c, HiddenPartial(v, m, r, x1, x2, a, b, c)
    PROVE  c \in Int /\ Fl(c) = Fl(v * (m + r * (x1 + x2)))
<1>0. /\ v \in Int /\ m \in Int /\ r \in Int /\ x1 \in Int /\ x2 \in Int /\ a \in Int /\ b \in Int
      /\ Fl(a) = Fl(v * (m + r * x1)) /\ Fl(b) = Fl(v * r) /\ c = a + b * x2
  BY DEF HiddenPartial
<1> DEFINE d == v * (m + r * x1)
           vr == v * r
           bx == b * x2
           w == vr * x2
<1>1. d \in Int /\ vr \in Int /\ bx \in Int /\ w \in Int
  <2>1. r * x1 \in Int /\ v * r \in Int
    BY <1>0
  <2>2. m + r * x1 \in Int
    BY <1>0, <2>1
  <2> DEFINE e == m + r * x1
  <2> HIDE DEF e
  <2>3. v * e \in Int
    BY <1>0, <2>2 DEF e
  <2> QED BY <1>0, <2>1, <2>3 DEF e
<1>2. d + w = v * (m + r * (x1 + x2))
  <2> DEFINE f == r * x1
             g == r * x2
  <2>1. f \in Int /\ g \in Int /\ w = v * g /\ r * (x1 + x2) = f + g /\ d = v * (m + f)
    BY <1>0
  <2> HIDE DEF f, g, d, w
  <2>2. v * (m + f) + v * g = v * (m + (f + g))
    BY <1>0, <2>1
  <2> QED BY <2>1, <2>2
<1>3. Fl(bx) = Fl(w)
  <2> HIDE DEF vr
  <2>1. Fl(b) = Fl(vr)
    BY <1>0 DEF vr
  <2>2. Fl(b * x2) = Fl(vr * x2)
    <3>1. b \in Int /\ vr \in Int /\ x2 \in Int /\ Fl(b) = Fl(vr)
      BY <1>0, <1>1, <2>1
    <3> QED BY <3>1, FlScale
  <2> QED BY <2>2
<1>4. Fl(a) = Fl(d)
  BY <1>0
<1> HIDE DEF d, w, bx
<1>5. Fl(a + bx) = Fl(d + bx)
  <2>1. a \in Int /\ d \in Int /\ bx \in Int /\ Fl(a) = Fl(d)
    BY <1>0, <1>1, <1>4
  <2> QED BY <2>1, FlShift
<1>6. Fl(d + bx) = Fl(d + w)
  BY <1>0, <1>1, <1>3, FlShift
<1>7. c = a + bx
  BY <1>0 DEF bx
<1> QED BY <1>0, <1>1, <1>2, <1>5, <1>6, <1>7

\* Only zero has no x coordinate.
LEMMA XCoordZero ==
    ASSUME NEW R \in Field, XCoord(R) = 0
    PROVE  R = 0
  BY QAssumption DEF XCoord, Field

\* A nonce that times k is one is the inverse of k.
LEMMA InverseUnique ==
    ASSUME NEW R \in Field, NEW k \in Field, Fl(R * k) = 1
    PROVE  k # 0 /\ R = Inv(k)
<1>1. R \in Int /\ k \in Int /\ Fl(R) = R
  BY ScalarsType, FlField
<1>2. k # 0
  <2> SUFFICES ASSUME k = 0 PROVE FALSE
    OBVIOUS
  <2>1. R * k = 0 /\ Fl(0) = 0
    BY <1>1, QAssumption DEF Fl
  <2> QED BY <2>1
<1> DEFINE v == Inv(k)
<1>3. v \in Field /\ v \in Int /\ Fl(k * v) = 1 /\ Fl(k) # 0 /\ Fl(v) = v
  BY <1>1, <1>2, InvInt, InvType, FlField
<1> HIDE DEF v
<1>4. R * k = k * R
  BY <1>1
<1>5. Fl(k * R) = Fl(k * v)
  BY <1>3, <1>4
<1>6. Fl(R) = Fl(v)
  BY <1>1, <1>3, <1>5, FlCancel
<1> QED BY <1>1, <1>2, <1>3, <1>6 DEF v

\* What signer i has of its own, b, and with each of the others, f and g, is c
\* times what each signer has.
Multiplied(i, c, y, b, f, g) ==
    /\ i \in Signers /\ c \in Int /\ y \in Ints /\ b \in Int /\ Fl(b) = Fl(c * y[i])
    /\ \A j \in Others(i) : f[j] \in Int /\ g[j] \in Int /\ Fl(f[j] + g[j]) = Fl(c * y[j])

\* It adds up to c times the total.
LEMMA OneAndOthers ==
    ASSUME NEW i, NEW c, NEW y, NEW b, NEW f, NEW g, Multiplied(i, c, y, b, f, g)
    PROVE  Fl((b + SumFunctionOnSet(f, Others(i))) + SumFunctionOnSet(g, Others(i)))
             = Fl(c * Total(y, Signers))
<1> USE DEF Multiplied
<1> DEFINE F == SumFunctionOnSet(f, Others(i))
           G == SumFunctionOnSet(g, Others(i))
           h == [j \in Others(i) |-> f[j] + g[j]]
           w == [j \in Signers |-> c * y[j]]
           H == SumFunctionOnSet(h, Others(i))
           W == SumFunctionOnSet(w, Others(i))
<1>1. \A j \in Signers : y[j] \in Int /\ w[j] \in Int /\ w[j] = c * y[j]
  <2>1. \A j \in Signers : y[j] \in Int
    BY DEF Ints
  <2> QED BY <2>1
<1>2. \A j \in Others(i) : /\ f[j] \in Int /\ g[j] \in Int /\ h[j] \in Int /\ h[j] = f[j] + g[j]
                           /\ Fl(h[j]) = Fl(f[j] + g[j]) /\ Fl(h[j]) = Fl(w[j]) /\ j \in Signers
  BY OthersType, <1>1
<1> HIDE DEF h, w
<1>3. IsFiniteSet(Others(i)) /\ i \notin Others(i) /\ Signers \ {i} = Others(i)
  BY OthersType DEF Others
<1>4. Total(h, Others(i)) = Fl(Total(f, Others(i)) + Total(g, Others(i)))
  BY <1>2, <1>3, TotalSum
<1>5. Total(h, Others(i)) = Total(w, Others(i))
  BY <1>1, <1>2, <1>3, TotalSame
<1>6. /\ F \in Int /\ G \in Int /\ W \in Int
      /\ Total(f, Others(i)) = Fl(F) /\ Total(g, Others(i)) = Fl(G) /\ Total(w, Others(i)) = Fl(W)
  BY <1>1, <1>2, TotalOthers, OthersSum
<1>7. SumFunctionOnSet(w, Signers) = c * y[i] + W
  <2>1. SumFunctionOnSet(w, Signers) = w[i] + SumFunctionOnSet(w, Signers \ {i})
    BY <1>1, SignersType, SumStep
  <2> QED BY <1>1, <1>3, <2>1
<1>8. Total(w, Signers) = Fl(c * Total(y, Signers))
  <2>1. \A j \in Signers : y[j] \in Int /\ w[j] \in Int /\ Fl(w[j]) = Fl(c * y[j])
    BY <1>1
  <2> QED BY <2>1, SignersType, TotalScale
<1> HIDE DEF F, G, W
<1>9. Fl(F + G) = Fl(W)
  <2>1. Fl(Fl(F) + Fl(G)) = Fl(F + G)
    <3>1. Fl(F) \in Int /\ Fl(G) \in Int
      BY <1>6, FlInt
    <3> QED BY <1>6, <3>1, FlAdd, FlAddRight
  <2>2. Fl(Fl(F + G)) = Fl(F + G)
    <3>1. F + G \in Int
      BY <1>6
    <3> QED BY <3>1, FlInt, FlField
  <2> QED BY <1>4, <1>5, <1>6, <2>1
<1>10. Fl(b + (F + G)) = Fl(c * y[i] + W)
  <2> DEFINE cy == c * y[i]
             fg == F + G
  <2>1. cy \in Int /\ fg \in Int /\ Fl(b) = Fl(cy) /\ Fl(fg) = Fl(W)
    BY <1>1, <1>6, <1>9
  <2> HIDE DEF cy, fg
  <2>2. Fl(b + fg) = Fl(cy + W)
    BY <1>6, <2>1, FlSum
  <2> QED BY <2>2 DEF cy, fg
<1>11. (b + F) + G = b + (F + G)
  BY <1>6
<1>12. Fl(c * y[i] + W) = Fl(c * Total(y, Signers))
  BY <1>7, <1>8 DEF Total
<1> QED BY <1>10, <1>11, <1>12 DEF F, G

\* A share of s, made up of a share k of the nonce and one of its product with
\* the key: what the others have revealed, E, completes the second to x.
PartOfS(R, m, k, r, sg, E, x, v, G, D) ==
    /\ R \in Int /\ m \in Int /\ k \in Int /\ r \in Int /\ sg \in Int /\ E \in Int /\ x \in Int
    /\ v \in Int /\ G \in Int
    /\ Fl(R * sg + E) = Fl(x) /\ D = Fl(G * k) /\ R = Fl(G * v)

LEMMA PartVerifies ==
    ASSUME NEW R, NEW m, NEW k, NEW r, NEW sg, NEW E, NEW x, NEW v, NEW G, NEW D,
           PartOfS(R, m, k, r, sg, E, x, v, G, D)
    PROVE  Fl(R * Fl(m * k + r * sg) + E * r) = Fl(Fl(D * v) * m + x * r)
<1>0. /\ R \in Int /\ m \in Int /\ k \in Int /\ r \in Int /\ sg \in Int /\ E \in Int /\ x \in Int
      /\ v \in Int /\ G \in Int
      /\ Fl(R * sg + E) = Fl(x) /\ D = Fl(G * k) /\ R = Fl(G * v)
  BY DEF PartOfS
<1> DEFINE y == m * k + r * sg
           Rk == R * k
           z == R * sg + E
           mRk == m * Rk
           Er == E * r
           zr == z * r
           xr == x * r
           Ry == R * y
<1>1. /\ m * k \in Int /\ r * sg \in Int /\ R * sg \in Int
      /\ Rk \in Int /\ Er \in Int /\ xr \in Int
  BY <1>0
<1>2. y \in Int /\ z \in Int
  BY <1>0, <1>1
<1>3. Ry \in Int /\ zr \in Int /\ mRk \in Int
  <2> HIDE DEF y, z, Rk
  <2> QED BY <1>0, <1>1, <1>2
<1>4. Ry + Er = mRk + zr
  <2>1. R * (m * k + r * sg) = m * (R * k) + r * (R * sg)
    <3>1. R * (m * k + r * sg) = R * (m * k) + R * (r * sg)
      BY <1>0, <1>1
    <3>2. R * (m * k) = m * (R * k) /\ R * (r * sg) = r * (R * sg)
      BY <1>0
    <3> QED BY <3>1, <3>2
  <2> DEFINE e == R * sg
  <2>2. e \in Int
    BY <1>1
  <2>3. Ry = m * (R * k) + r * e
    BY <2>1
  <2>4. zr = (e + E) * r
    OBVIOUS
  <2> HIDE DEF e, zr, Ry
  <2>5. (e + E) * r = r * e + E * r /\ r * e \in Int
    BY <1>0, <2>2
  <2> HIDE DEF Rk
  <2>6. Ry = mRk + r * e
    BY <2>3 DEF Rk
  <2> HIDE DEF mRk
  <2> QED BY <1>1, <1>3, <2>4, <2>5, <2>6
<1>5. Fl(R * Fl(y) + Er) = Fl(Ry + Er)
  <2> HIDE DEF y, Er
  <2> DEFINE RFy == R * Fl(y)
  <2>1. Fl(R * Fl(y)) = Fl(R * y) /\ Fl(y) \in Int
    BY <1>0, <1>2, FlMulRight, FlInt
  <2>2. RFy \in Int /\ Ry \in Int /\ Er \in Int /\ Fl(RFy) = Fl(Ry)
    BY <1>0, <1>1, <1>3, <2>1
  <2> HIDE DEF RFy, Ry
  <2>3. Fl(RFy + Er) = Fl(Ry + Er)
    BY <2>2, FlShift
  <2> QED BY <2>3 DEF RFy
<1>6. Fl(zr) = Fl(xr)
  <2> HIDE DEF z
  <2>1. z \in Int /\ x \in Int /\ r \in Int /\ Fl(z) = Fl(x)
    BY <1>0, <1>2 DEF z
  <2>2. Fl(z * r) = Fl(x * r)
    BY <2>1, FlScale
  <2> QED BY <2>2
<1>7. Fl(D * v) = Fl(Rk)
  <2> DEFINE gk == G * k
             gv == G * v
  <2>1. gk \in Int /\ gv \in Int /\ gk * v = gv * k
    BY <1>0
  <2> HIDE DEF gk, gv
  <2>2. Fl(Fl(gk) * v) = Fl(gk * v) /\ Fl(Fl(gv) * k) = Fl(gv * k)
    BY <1>0, <2>1, FlMul
  <2> QED BY <1>0, <2>1, <2>2 DEF gk, gv
<1>8. Fl(Fl(D * v) * m) = Fl(mRk)
  <2>1. Rk * m = mRk
    <3> HIDE DEF Rk
    <3> QED BY <1>0, <1>1
  <2> HIDE DEF Rk, mRk
  <2>2. Fl(Fl(Rk) * m) = Fl(Rk * m)
    BY <1>0, <1>1, FlMul
  <2> QED BY <1>7, <2>1, <2>2
<1> DEFINE w == Fl(D * v) * m
<1>9. w \in Int
  <2>1. Fl(D * v) \in Int
    BY <1>1, <1>7, FlInt
  <2> QED BY <1>0, <2>1
<1> HIDE DEF w, mRk, zr, xr, Er, Ry, y
<1>10. Fl(mRk + zr) = Fl(w + xr)
  <2>1. Fl(mRk) = Fl(w)
    BY <1>8 DEF w
  <2> QED BY <1>1, <1>3, <1>6, <1>9, <2>1, FlSum
<1> QED BY <1>4, <1>5, <1>10 DEF w, xr, Er, y

LEMMA SignersSubset ==
    ASSUME NEW S \in SUBSET Signers, Cardinality(S) >= T
    PROVE  /\ S \in SUBSET (1 .. Q - 1) /\ S \in SUBSET Int /\ IsFiniteSet(S) /\ S # {}
           /\ Cardinality(S) \in Nat /\ T \in 1 .. Cardinality(S)
<1>1. S \in SUBSET (1 .. Q - 1) /\ S \in SUBSET Int /\ IsFiniteSet(S)
  BY SignersType, FS_Subset
<1>2. Cardinality(S) \in Nat /\ T \in Nat \ {0}
  BY <1>1, FS_CardinalityType, SigningAssumption
<1>3. S # {}
  <2>1. Cardinality({}) = 0
    BY FS_EmptySet
  <2> QED BY <1>2, <2>1
<1> QED BY <1>1, <1>2, <1>3

\* The masks that everyone can take out of an entry.
LEMMA Unmasked ==
    ASSUME NEW y \in Int, NEW p \in Int, NEW q \in Int, NEW z \in Int, NEW e \in Int
    PROVE  /\ Fl(y + Neg(p) + q) \in Int
           /\ Fl(y + Neg(p) + q) = Fl(y - p + q)
           /\ Fl(Fl(Fl(y + Neg(p) + q) + z + e) + (p + Neg(q))) = Fl((y + z) + e)
<1> DEFINE w == y + Neg(p) + q
           ze == z + e
           t1 == y + ze + q + p + Neg(q)
           t2 == y + ze
           pq == p + Neg(q)
<1>1. Neg(p) \in Int /\ Neg(q) \in Int /\ w \in Int /\ ze \in Int /\ t2 \in Int /\ pq \in Int /\ t1 \in Int
  <2>1. Neg(p) \in Int /\ Neg(q) \in Int
    BY FlInt
  <2> QED BY <2>1
<1>2. Fl(w) \in Int /\ Fl(w) = Fl(y - p + q)
  <2> DEFINE yq == y + q
  <2>1. yq \in Int /\ w = yq + Neg(p) /\ y - p + q = yq - p
    BY <1>1
  <2> HIDE DEF yq
  <2>2. Fl(yq + Neg(p)) = Fl(yq - p)
    BY <2>1, FlNeg
  <2> QED BY <1>1, <2>1, <2>2, FlInt
<1>3. Fl(Fl(Fl(w) + z + e) + pq) = Fl((w + ze) + pq)
  <2> DEFINE a == Fl(w) + ze
             b == w + ze
  <2>1. a \in Int /\ b \in Int /\ Fl(w) + z + e = a
    BY <1>1, <1>2
  <2>2. Fl(a) = Fl(b)
    <3> HIDE DEF w, ze
    <3> QED BY <1>1, FlAdd
  <2> HIDE DEF a, b, w
  <2>3. Fl(Fl(a) + pq) = Fl(a + pq)
    <3> HIDE DEF pq
    <3> QED BY <1>1, <2>1, FlAdd
  <2>4. Fl(a + pq) = Fl(b + pq)
    <3>1. a \in Int /\ b \in Int /\ pq \in Int /\ Fl(a) = Fl(b)
      BY <1>1, <2>1, <2>2
    <3> HIDE DEF pq
    <3> QED BY <3>1, FlShift
  <2> QED BY <2>1, <2>3, <2>4 DEF b
<1>4. (w + ze) + pq = t1 + Neg(p)
  BY <1>1
<1>5. Fl(t1 + Neg(p)) = Fl(t2)
  <2> DEFINE a == t2 + q
  <2>1. t1 - p = a + Neg(q) /\ a \in Int /\ a - q = t2
    BY <1>1
  <2> HIDE DEF t1, t2, a
  <2>2. Fl(t1 + Neg(p)) = Fl(t1 - p)
    BY <1>1, FlNeg
  <2>3. Fl(a + Neg(q)) = Fl(a - q)
    BY <2>1, FlNeg
  <2> QED BY <2>1, <2>2, <2>3
<1>6. t2 = (y + z) + e
  OBVIOUS
<1> QED BY <1>2, <1>3, <1>4, <1>5, <1>6

\* The same of an entry that was scaled by r.
ScaledEntry(c, r, y, p, q, z, e) ==
    Fl(Fl(c + r * Fl(y + Neg(p) + q) + z + e) + (Fl(p * r) + Neg(Fl(q * r)))) = Fl(((c + r * y) + z) + e)

LEMMA UnmaskedScaled ==
    ASSUME NEW c \in Int, NEW r \in Int, NEW y \in Int, NEW p \in Int, NEW q \in Int,
           NEW z \in Int, NEW e \in Int
    PROVE  ScaledEntry(c, r, y, p, q, z, e)
<1> DEFINE W == y + Neg(p) + q
           v == y - p + q
           A == r * y
           B == p * r
           C == q * r
           Y == r * Fl(W)
           ze == z + e
           fB == Fl(B)
           fC == Fl(C)
<1>1. /\ A \in Int /\ B \in Int /\ C \in Int /\ ze \in Int /\ v \in Int
      /\ Fl(W) \in Int /\ Fl(W) = Fl(v)
  <2>1. A \in Int /\ B \in Int /\ C \in Int /\ ze \in Int /\ v \in Int
    OBVIOUS
  <2>2. Fl(W) \in Int /\ Fl(W) = Fl(v)
    BY Unmasked
  <2> QED BY <2>1, <2>2
<1>2. r * v = A - B + C
  OBVIOUS
<1>3. Y \in Int /\ Fl(Y) = Fl(A - B + C)
  <2> HIDE DEF W, v
  <2>1. Y \in Int
    BY <1>1
  <2>2. Fl(r * Fl(v)) = Fl(r * v)
    BY <1>1, FlMulRight
  <2> HIDE DEF A, B, C
  <2> QED BY <1>1, <1>2, <2>1, <2>2
<1>4. fB \in Int /\ fC \in Int /\ Fl(fB) = Fl(B) /\ Fl(fC) = Fl(C) /\ Neg(fC) \in Int
  <2> HIDE DEF B, C
  <2>1. fB \in Int /\ fC \in Int /\ fB \in Field /\ fC \in Field
    BY <1>1, FlInt
  <2>2. Neg(fC) \in Int
    <3> HIDE DEF fC
    <3> QED BY <2>1, FlInt
  <2> QED BY <2>1, <2>2, FlField
<1> HIDE DEF W, v, A, B, C, Y, fB, fC
<1> DEFINE s == c + Y + ze
           D == A - B + C
           s1 == c + D + ze
           n == fB + Neg(fC)
           t == ((c + A) + z) + e
<1>5. s \in Int /\ D \in Int /\ s1 \in Int /\ n \in Int /\ t \in Int /\ c + Y + z + e = s
  BY <1>1, <1>3, <1>4
<1>6. Fl(s) = Fl(s1)
  <2> DEFINE cz == c + ze
  <2>1. cz \in Int /\ s = Y + cz /\ s1 = D + cz /\ Fl(Y) = Fl(D) /\ Y \in Int /\ D \in Int
    BY <1>1, <1>3, <1>5
  <2> HIDE DEF cz, s, s1, D
  <2>2. Y \in Int /\ D \in Int /\ cz \in Int /\ Fl(Y) = Fl(D)
    BY <2>1
  <2>3. Fl(Y + cz) = Fl(D + cz)
    BY <2>2, FlShift
  <2> QED BY <2>1, <2>3
<1>7. Fl(Fl(s) + n) = Fl(s1 + n)
  <2> HIDE DEF s, s1, n
  <2>1. Fl(Fl(s) + n) = Fl(s + n)
    BY <1>5, FlAdd
  <2>2. s \in Int /\ s1 \in Int /\ n \in Int /\ Fl(s) = Fl(s1)
    BY <1>5, <1>6
  <2>3. Fl(s + n) = Fl(s1 + n)
    BY <2>2, FlShift
  <2> QED BY <2>1, <2>3
<1>8. Fl(s1 + n) = Fl(t)
  <2> DEFINE a == s1 + fB
             b == s1 + B
  <2>1. a \in Int /\ b \in Int /\ s1 + n = a + Neg(fC) /\ b - C = t
    BY <1>1, <1>4, <1>5
  <2>2. Fl(a) = Fl(b)
    <3> HIDE DEF s1
    <3> QED BY <1>1, <1>4, <1>5, FlShift
  <2> HIDE DEF a, b, s1, n, t
  <2>3. Fl(a + Neg(fC)) = Fl(a - fC)
    BY <1>4, <2>1, FlNeg
  <2>4. Fl(a - fC) = Fl(a - C)
    BY <1>1, <1>4, <2>1, FlMinus
  <2>5. Fl(a - C) = Fl(b - C)
    <3> DEFINE mc == -C
    <3>1. mc \in Int /\ a - C = a + mc /\ b - C = b + mc
      BY <1>1, <2>1
    <3> HIDE DEF mc
    <3>2. a \in Int /\ b \in Int /\ mc \in Int /\ Fl(a) = Fl(b)
      BY <2>1, <2>2, <3>1
    <3>3. Fl(a + mc) = Fl(b + mc)
      BY <3>2, FlShift
    <3> QED BY <3>1, <3>3
  <2> QED BY <2>1, <2>3, <2>4, <2>5
<1> QED BY <1>5, <1>7, <1>8 DEF ScaledEntry, W, A, B, C, Y, fB, fC
=============================================================================
