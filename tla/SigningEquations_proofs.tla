----------------------- MODULE SigningEquations_proofs ----------------------
(* What the values that the signers hold have to do with each other and with *)
(* the key, for any parties, any key and digest, whatever is drawn and       *)
(* whichever share is wrong: shares of a product add up to it, what a        *)
(* presignature leaves fits the nonce and the key, and what is opened is a   *)
(* signature where the protocol looks first.                                 *)
(*                                                                           *)
(* Each protocol on its own comes first.  For a protocol P, PEquations is    *)
(* what holds at its stages beside PKnown (SigningSuite_proofs);             *)
(* PEquationsBegin says that it holds when the session begins, and           *)
(* PEquationsStep that every step of P keeps it.  PPresignatureFits and      *)
(* PNotInVain are what follows for the properties of SigningSuite.  The      *)
(* suite comes last.                                                         *)
EXTENDS SigningSuite_proofs

-----------------------------------------------------------------------------
(* GG18.                                                                    *)

Gg18Equations ==
    /\ know.k \in [Signers -> Scalars] /\ know.gamma \in [Signers -> Scalars]
    /\ know.w \in [Signers -> Field] /\ Total(know.w, Signers) = key
    /\ stage # "gg18_round_1" => /\ know.beta \in [Pairs -> Gg18MaskRange]
                                 /\ know.nu \in [Pairs -> Gg18MaskRange]
    /\ stage \notin {"gg18_round_1", "gg18_round_2"} /\ ~Gg18Wraps =>
           /\ Gg18Delta = Fl(Gg18Nonce * Total(know.gamma, Signers))
           /\ Total(know.sigma, Signers) = Fl(Gg18Nonce * key)
    /\ stage \notin {"gg18_round_1", "gg18_round_2", "gg18_round_3"} =>
           Gg18Delta # 0 /\ know.R = Fl(Inv(Gg18Delta) * Total(know.gamma, Signers))
    /\ stage \in {"gg18_round_5", "gg18_round_7", "gg18_round_8"} =>
           Has("l", Ints) /\ Has("rho", Ints)
    /\ stage \in {"gg18_round_7", "gg18_round_8"} =>
           /\ Total(know.U, Signers) = Fl(Gg18VCheck * Gg18A)
           /\ Total(know.T, Signers) = Fl(Gg18A * Total(know.l, Signers))
    /\ stage = "gg18_round_8" => Gg18ZeroHolds

LEMMA Gg18EquationsBegin ==
    ASSUME NEW f \in Sharings, key = f[0], Gg18SignBegin(f)
    PROVE  Gg18Equations
<1>1. PICK k \in [Signers -> Scalars], gamma \in [Signers -> Scalars] :
         know = [k |-> k, gamma |-> gamma,
                 w |-> [i \in Signers |-> Fl(Eval(f, i) * Lagrange(Signers, i))]]
  BY DEF Gg18SignBegin
<1>2. know.w \in [Signers -> Field] /\ Total(know.w, Signers) = key
  BY <1>1, WeightedShares
<1> QED BY <1>1, <1>2 DEF Gg18SignBegin, Gg18Equations

\* The shares that MtA leaves add up to the product, unless a mask wraps.
LEMMA Gg18Products ==
    ASSUME know.k \in [Signers -> Scalars], NEW b \in [Signers -> Field],
           NEW masks \in [Pairs -> Gg18MaskRange],
           \A p \in Pairs : Gg18Decrypted(p[2], b[p[1]], masks[p]) >= 0
    PROVE  Total([i \in Signers |-> Gg18ShareOf(i, b, masks)], Signers)
             = Fl(Gg18Nonce * Total(b, Signers))
<1> DEFINE plain == [p \in Pairs |-> Gg18Decrypted(p[1], b[p[2]], masks[<<p[2], p[1]>>])]
           kept == [p \in Pairs |-> Neg(Fl(masks[<<p[2], p[1]>>]))]
           h == [i \in Signers |-> [j \in Others(i) |->
                   Gg18Decrypted(i, b[j], masks[<<j, i>>]) + Neg(Fl(masks[<<i, j>>]))]]
           g == [i \in Signers |-> Gg18ShareOf(i, b, masks)]
<1>1. /\ know.k \in Ints /\ b \in Ints
      /\ \A i \in Signers : know.k[i] \in Field /\ b[i] \in Field
  BY DrawnInts, ScalarsType DEF Ints
<1>2. ASSUME NEW p \in Pairs
      PROVE  /\ plain[p] \in Int /\ kept[p] \in Int
             /\ Fl(plain[p] + kept[p]) = Fl(know.k[p[1]] * b[p[2]])
  <2> DEFINE x == know.k[p[1]] * b[p[2]]
             m == masks[<<p[2], p[1]>>]
  <2>1. p[1] \in Signers /\ p[2] \in Signers /\ <<p[2], p[1]>> \in Pairs
    BY PairsType
  <2>2. m \in Nat /\ 2 * m <= PaillierN
    BY <2>1, SigningAssumption, SpaceType DEF Gg18MaskRange
  <2>3. x \in Nat /\ 2 * x < PaillierN
    <3>1. know.k[p[1]] \in Nat /\ b[p[2]] \in Nat /\ know.k[p[1]] <= Q /\ b[p[2]] <= Q
      BY <1>1, <2>1, QAssumption DEF Field
    <3>2. x \in Nat /\ x <= Q * Q
      BY <3>1, ProductBound, QAssumption
    <3> QED BY <3>2, SpaceType
  <2>4. plain[p] = Signed(x + m, PaillierN)
    BY <2>1 DEF Gg18Decrypted
  <2>5. plain[p] >= 0
    BY <2>1
  <2> HIDE DEF x, m
  <2>6. x + m \in Nat /\ x + m < PaillierN
    BY <2>2, <2>3, SpaceType
  <2>7. plain[p] = x + m
    BY <2>4, <2>5, <2>6, Unwrapped, SpaceType
  <2>8. kept[p] = Neg(Fl(m))
    BY DEF m
  <2>9. Fl(m) \in Field /\ Fl(m) \in Int /\ Neg(Fl(m)) \in Int /\ Fl(Neg(Fl(m))) = Fl(-Fl(m))
    BY <2>2, FlInt, NegType
  <2> HIDE DEF plain, kept
  <2>10. Fl((x + m) + Neg(Fl(m))) = Fl((x + m) + (-Fl(m)))
    BY <2>6, <2>9, FlSum
  <2>11. Fl((x + m) + (-Fl(m))) = Fl(x)
    <3>1. PICK k \in Int : m = k * Q + Fl(m)
      BY <2>2, FlQuotient
    <3>2. k * Q \in Int
      BY <3>1, QAssumption
    <3>3. (x + m) + (-Fl(m)) = x + k * Q
      BY <2>2, <2>3, <2>9, <3>1, <3>2
    <3> QED BY <2>3, <2>2, <2>9, <3>1, <3>3, FlUnique
  <2> QED BY <2>6, <2>7, <2>8, <2>9, <2>10, <2>11 DEF x
<1>3. plain \in PairInts /\ kept \in PairInts
  <2>1. plain \in [Pairs -> Int] /\ kept \in [Pairs -> Int]
    BY <1>2
  <2> QED BY <2>1 DEF PairInts
<1>4. \A p \in Pairs : Fl(plain[p] + kept[p]) = Fl(know.k[p[1]] * b[p[2]])
  BY <1>2
<1>5. ASSUME NEW i \in Signers, NEW j \in Others(i)
      PROVE  h[i][j] = plain[<<i, j>>] + kept[<<j, i>>]
  <2>1. <<i, j>> \in Pairs /\ <<j, i>> \in Pairs
    BY OtherPairs
  <2> QED BY <2>1
<1>6. \A i \in Signers : \A j \in Others(i) : h[i][j] = plain[<<i, j>>] + kept[<<j, i>>]
  BY <1>5
<1>7. ASSUME NEW i \in Signers
      PROVE  g[i] \in Int /\ Fl(g[i]) = Fl(know.k[i] * b[i] + SumFunctionOnSet(h[i], Others(i)))
  <2>1. g[i] = Fl(know.k[i] * b[i] + SumFunctionOnSet(h[i], Others(i)))
    BY DEF Gg18ShareOf
  <2>2. \A j \in Others(i) : h[i][j] \in Int
    <3> SUFFICES ASSUME NEW j \in Others(i) PROVE h[i][j] \in Int
      OBVIOUS
    <3>1. <<i, j>> \in Pairs /\ <<j, i>> \in Pairs
      BY OtherPairs
    <3>2. plain[<<i, j>>] \in Int /\ kept[<<j, i>>] \in Int
      BY <1>2, <3>1
    <3>3. h[i][j] = plain[<<i, j>>] + kept[<<j, i>>]
      BY <1>6
    <3> HIDE DEF plain, kept, h
    <3> QED BY <3>2, <3>3
  <2> HIDE DEF h, g
  <2>3. SumFunctionOnSet(h[i], Others(i)) \in Int
    BY <2>2, OthersSum
  <2>4. know.k[i] * b[i] \in Int
    <3>1. know.k[i] \in Int /\ b[i] \in Int
      BY <1>1, ScalarsType
    <3> QED BY <3>1
  <2>5. know.k[i] * b[i] + SumFunctionOnSet(h[i], Others(i)) \in Int
    BY <2>3, <2>4
  <2> QED BY <2>1, <2>5, FlType, FlField, ScalarsType
<1>8. g \in Ints
  <2>1. g \in [Signers -> Int]
    BY <1>7
  <2> QED BY <2>1 DEF Ints
<1> HIDE DEF plain, kept, h
<1>9. Total(g, Signers) = Fl(Total(know.k, Signers) * Total(b, Signers))
  <2>1. \A i \in Signers : Fl(g[i]) = Fl(know.k[i] * b[i] + SumFunctionOnSet(h[i], Others(i)))
    BY <1>7
  <2>2. ProductShared(know.k, b, plain, kept, h, g)
    BY <1>1, <1>3, <1>4, <1>6, <1>8, <2>1 DEF ProductShared
  <2> QED BY <2>2, ProductShares
<1> QED BY <1>9 DEF Gg18Nonce

LEMMA Gg18VCheckType ==
    ASSUME Session, know.l \in Ints, know.rho \in Ints, know.s \in Ints, know.R \in Field
    PROVE  /\ Gg18A \in Int /\ Gg18VCheck \in Int
           /\ Gg18VCheck = Fl(Total(know.s, Signers) * know.R + Total(know.l, Signers)
                              - digest - key * XCoord(know.R))
<1> DEFINE v == [i \in Signers |-> know.s[i] * know.R + know.l[i]]
           sR == [i \in Signers |-> know.s[i] * know.R]
           S == Total(know.s, Signers)
           L == Total(know.l, Signers)
           kr == key * XCoord(know.R)
<1>1. /\ digest \in Int /\ key \in Int /\ know.R \in Int /\ XCoord(know.R) \in Int
      /\ S \in Int /\ L \in Int /\ Gg18A \in Int /\ know.R * S \in Int
  <2>1. \A i \in Signers : know.s[i] \in Int /\ know.l[i] \in Int /\ know.rho[i] \in Int
    BY DEF Ints
  <2>2. S \in Int /\ L \in Int /\ Gg18A \in Int
    BY <2>1, IntsType DEF Gg18A
  <2>3. know.R \in Int /\ XCoord(know.R) \in Int
    BY XCoordType, ScalarsType
  <2> HIDE DEF S
  <2> QED BY <2>2, <2>3, Operands
<1>2. kr \in Int
  BY <1>1
<1>3. ASSUME NEW i \in Signers
      PROVE  /\ v[i] \in Int /\ sR[i] \in Int /\ know.s[i] \in Int /\ know.l[i] \in Int
             /\ Fl(v[i]) = Fl(sR[i] + know.l[i]) /\ Fl(sR[i]) = Fl(know.R * know.s[i])
  <2>1. know.s[i] \in Int /\ know.l[i] \in Int
    BY DEF Ints
  <2>2. know.s[i] * know.R \in Int /\ know.s[i] * know.R = know.R * know.s[i]
    BY <1>1, <2>1
  <2> QED BY <2>1, <2>2
<1>4. SumFunctionOnSet(v, Signers) \in Int
  <2> HIDE DEF v
  <2> QED BY <1>3, IntsType
<1>5. Fl(SumFunctionOnSet(v, Signers)) = Fl(Total(sR, Signers) + L)
  <2>1. \A i \in Signers : v[i] \in Int /\ sR[i] \in Int /\ know.l[i] \in Int /\ Fl(v[i]) = Fl(sR[i] + know.l[i])
    BY <1>3
  <2> HIDE DEF v, sR
  <2> QED BY <2>1, SignersType, TotalSum DEF Total
<1>6. Total(sR, Signers) = Fl(know.R * S)
  <2>1. \A i \in Signers : know.s[i] \in Int /\ sR[i] \in Int /\ Fl(sR[i]) = Fl(know.R * know.s[i])
    BY <1>3
  <2> HIDE DEF sR
  <2> QED BY <1>1, <2>1, SignersType, TotalScale
<1>7. Gg18VCheck = Fl(SumFunctionOnSet(v, Signers) + Neg(digest) + Neg(Fl(kr)))
  BY DEF Gg18VCheck
<1>8. know.R * S = S * know.R
  <2> HIDE DEF S
  <2> QED BY <1>1
<1> DEFINE V == SumFunctionOnSet(v, Signers)
           M == know.R * S
           d == digest
<1>14. V \in Int /\ M \in Int /\ L \in Int /\ d \in Int /\ Fl(V) = Fl(Total(sR, Signers) + L)
       /\ Total(sR, Signers) = Fl(M) /\ M = S * know.R
  BY <1>1, <1>4, <1>5, <1>6, <1>8
<1>15. Gg18VCheck = Fl(V + Neg(d) + Neg(Fl(kr)))
  BY <1>7
<1> HIDE DEF v, sR, kr, S, L, V, M, d
<1>9. /\ Neg(d) \in Int /\ Fl(Neg(d)) = Fl(-d) /\ Fl(kr) \in Int
      /\ Neg(Fl(kr)) \in Int /\ Fl(Neg(Fl(kr))) = Fl(-kr)
  <2>1. Fl(-Fl(kr)) = Fl(-kr)
    <3>1. Fl(Fl(kr) * (-1)) = Fl(kr * (-1))
      BY <1>2, FlMul
    <3>2. Fl(kr) \in Int
      BY <1>2, FlInt
    <3>3. Fl(kr) * (-1) = -Fl(kr) /\ kr * (-1) = -kr
      BY <1>2, <3>2
    <3> QED BY <3>1, <3>3
  <2>2. Fl(kr) \in Int
    BY <1>2, FlInt
  <2> QED BY <1>14, <2>1, <2>2, FlInt, NegType
<1>10. Fl(V) = Fl(M + L)
  BY <1>14, FlAdd
<1>11. Fl((V + Neg(d)) + Neg(Fl(kr))) = Fl(((M + L) + (-d)) + (-kr))
  <2>0. M + L \in Int /\ -d \in Int
    BY <1>14
  <2>1. Fl(V + Neg(d)) = Fl((M + L) + (-d))
    <3> DEFINE ML == M + L
               md == -d
    <3>1. V \in Int /\ Neg(d) \in Int /\ ML \in Int /\ md \in Int /\ Fl(V) = Fl(ML) /\ Fl(Neg(d)) = Fl(md)
      BY <1>14, <1>9, <1>10, <2>0
    <3> DEFINE nd == Neg(d)
    <3>3. V \in Int /\ nd \in Int /\ ML \in Int /\ md \in Int /\ Fl(V) = Fl(ML) /\ Fl(nd) = Fl(md)
      BY <3>1
    <3> HIDE DEF ML, md, nd
    <3>2. Fl(V + nd) = Fl(ML + md)
      BY <3>3, FlSum
    <3> QED BY <3>2 DEF ML, md, nd
  <2>2. V + Neg(d) \in Int /\ (M + L) + (-d) \in Int /\ -kr \in Int
    BY <1>2, <1>14, <1>9
  <2> QED BY <1>9, <2>1, <2>2, FlSum
<1>12. ((M + L) + (-d)) + (-kr) = M + L - d - kr
       /\ M + L - d - kr \in Int
  BY <1>14, <1>2
<1>13. Gg18VCheck = Fl(M + L - d - kr)
  BY <1>15, <1>11, <1>12
<1> QED BY <1>1, <1>14, <1>12, <1>13, FlInt DEF S, L, kr, d

LEMMA Gg18EquationsStep ==
    ASSUME Session, Gg18Known, Gg18Equations, Gg18SignNext, stage' # "ended"
    PROVE  Gg18Equations'
<1>1. CASE Gg18Reply
  <2>1. PICK beta \in [Pairs -> Gg18MaskRange], nu \in [Pairs -> Gg18MaskRange] :
          Step("gg18_round_1", "gg18_round_2", [beta |-> beta, nu |-> nu])
    BY <1>1 DEF Gg18Reply
  <2>2. /\ stage = "gg18_round_1" /\ stage' = "gg18_round_2"
        /\ know'.beta = beta /\ know'.nu = nu
        /\ know'.k = know.k /\ know'.gamma = know.gamma /\ know'.w = know.w
        /\ key' = key /\ Signers' = Signers /\ Pairs' = Pairs
    BY <2>1, StepKeeps DEF Gg18Known, Has
  <2> QED BY <2>2 DEF Gg18Equations, Gg18MaskRange
<1>2. CASE Gg18Open
  <2> DEFINE delta == [i \in Signers |-> Gg18ShareOf(i, know.gamma, know.beta)]
             sigma == [i \in Signers |-> Gg18ShareOf(i, know.w, know.nu)]
  <2>1. Step("gg18_round_2", "gg18_round_3", [delta |-> delta, sigma |-> sigma])
    BY <1>2 DEF Gg18Open
  <2> HIDE DEF delta, sigma
  <2>2. /\ stage = "gg18_round_2" /\ stage' = "gg18_round_3"
        /\ know'.delta = delta /\ know'.sigma = sigma
    BY <2>1, StepKeeps
  <2>3. /\ know'.k = know.k /\ know'.gamma = know.gamma /\ know'.w = know.w
        /\ know'.beta = know.beta /\ know'.nu = know.nu
        /\ key' = key /\ Signers' = Signers /\ Pairs' = Pairs
    BY <2>1, <2>2, StepKeeps DEF Gg18Known, Has
  <2>4. /\ know.k \in [Signers -> Scalars] /\ know.gamma \in [Signers -> Field]
        /\ know.w \in [Signers -> Field] /\ Total(know.w, Signers) = key
        /\ know.beta \in [Pairs -> Gg18MaskRange] /\ know.nu \in [Pairs -> Gg18MaskRange]
    BY <2>2, ScalarsType DEF Gg18Equations
  <2>5. ASSUME ~Gg18Wraps'
        PROVE  /\ Total(delta, Signers) = Fl(Gg18Nonce * Total(know.gamma, Signers))
               /\ Total(sigma, Signers) = Fl(Gg18Nonce * key)
    <3>1. \A p \in Pairs : /\ Gg18Decrypted(p[2], know.gamma[p[1]], know.beta[p]) >= 0
                           /\ Gg18Decrypted(p[2], know.w[p[1]], know.nu[p]) >= 0
      <4> SUFFICES ASSUME NEW p \in Pairs
                   PROVE  /\ Gg18Decrypted(p[2], know.gamma[p[1]], know.beta[p]) >= 0
                          /\ Gg18Decrypted(p[2], know.w[p[1]], know.nu[p]) >= 0
        OBVIOUS
      <4>1. /\ know.beta[p] < PaillierN \div 2 /\ know.nu[p] < PaillierN \div 2
        BY <2>4 DEF Gg18MaskRange
      <4>2. /\ ~(Gg18Decrypted(p[2], know.gamma[p[1]], know.beta[p]) < 0)
            /\ ~(Gg18Decrypted(p[2], know.w[p[1]], know.nu[p]) < 0)
        BY <2>3, <2>5, <4>1 DEF Gg18Wraps, Gg18Decrypted
      <4>3. /\ know.k[p[2]] * know.gamma[p[1]] + know.beta[p] \in Int
            /\ know.k[p[2]] * know.w[p[1]] + know.nu[p] \in Int
        <5>1. /\ know.k[p[2]] \in Int /\ know.gamma[p[1]] \in Int /\ know.w[p[1]] \in Int
              /\ know.beta[p] \in Int /\ know.nu[p] \in Int
          BY <2>4, PairsType, ScalarsType, DrawnInts DEF Gg18MaskRange
        <5> QED BY <5>1
      <4>4. /\ Gg18Decrypted(p[2], know.gamma[p[1]], know.beta[p]) \in Int
            /\ Gg18Decrypted(p[2], know.w[p[1]], know.nu[p]) \in Int
        BY <4>3, SignedInt DEF Gg18Decrypted
      <4> QED BY <4>2, <4>4
    <3> QED BY <2>4, <3>1, Gg18Products DEF delta, sigma
  <2> QED BY <2>2, <2>3, <2>5 DEF Gg18Equations, Gg18MaskRange, Gg18Delta, Gg18Nonce
<1>3. CASE Gg18Presign
  <2> DEFINE R == Fl(Inv(Gg18Delta) * Total(know.gamma, Signers))
  <2>1. Gg18Delta # 0 /\ Step("gg18_round_3", "gg18_round_4", [R |-> R])
    BY <1>3 DEF Gg18Presign, Return
  <2> HIDE DEF R
  <2>2. stage = "gg18_round_3" /\ stage' = "gg18_round_4" /\ know'.R = R
    BY <2>1, StepKeeps
  <2>3. /\ know'.k = know.k /\ know'.gamma = know.gamma /\ know'.w = know.w
        /\ know'.beta = know.beta /\ know'.nu = know.nu
        /\ know'.delta = know.delta /\ know'.sigma = know.sigma
        /\ key' = key /\ Signers' = Signers /\ Pairs' = Pairs
    BY <2>1, <2>2, StepKeeps DEF Gg18Known, Has
  <2>4. Gg18Wraps' <=> Gg18Wraps
    BY <2>3 DEF Gg18Wraps, Gg18Decrypted
  <2> QED BY <2>1, <2>2, <2>3, <2>4 DEF Gg18Equations, Gg18MaskRange, Gg18Delta, Gg18Nonce, R
<1>4. CASE Gg18Commit
  <2>1. PICK l \in [Signers -> Blinds], rho \in [Signers -> Scalars] :
          Step("gg18_round_4", "gg18_round_5",
               [l |-> l, rho |-> rho, s |-> [i \in Signers |-> Fl(Gg18SShare(i) + bent[i])]])
    BY <1>4 DEF Gg18Commit
  <2> DEFINE s == [i \in Signers |-> Fl(Gg18SShare(i) + bent[i])]
  <2>2. Step("gg18_round_4", "gg18_round_5", [l |-> l, rho |-> rho, s |-> s])
    BY <2>1
  <2> HIDE DEF s
  <2>3. /\ stage = "gg18_round_4" /\ stage' = "gg18_round_5"
        /\ "l" \in DOMAIN know' /\ know'.l = l /\ "rho" \in DOMAIN know' /\ know'.rho = rho
    BY <2>2, StepKeeps
  <2>4. /\ know'.k = know.k /\ know'.gamma = know.gamma /\ know'.w = know.w
        /\ know'.beta = know.beta /\ know'.nu = know.nu
        /\ know'.delta = know.delta /\ know'.sigma = know.sigma /\ know'.R = know.R
        /\ key' = key /\ Signers' = Signers /\ Pairs' = Pairs /\ Ints' = Ints
    BY <2>2, <2>3, StepKeeps DEF Gg18Known, Has
  <2>5. Gg18Wraps' <=> Gg18Wraps
    BY <2>4 DEF Gg18Wraps, Gg18Decrypted
  <2>6. l \in Ints /\ rho \in Ints
    BY DrawnInts
  <2> QED BY <2>3, <2>4, <2>5, <2>6 DEF Gg18Equations, Gg18MaskRange, Gg18Delta, Gg18Nonce, Has
<1>5. CASE Gg18Blind
  <2> DEFINE U == [i \in Signers |-> Fl(Gg18VCheck * know.rho[i])]
             W == [i \in Signers |-> Fl(know.l[i] * Gg18A)]
  <2>1. Step("gg18_round_5", "gg18_round_7", [U |-> U, T |-> W])
    BY <1>5 DEF Gg18Blind
  <2>2. stage = "gg18_round_5" /\ stage' = "gg18_round_7" /\ know'.U = U /\ know'.T = W
    <3> HIDE DEF U, W
    <3> QED BY <2>1, StepKeeps
  <2>3. /\ know'.k = know.k /\ know'.gamma = know.gamma /\ know'.w = know.w
        /\ know'.beta = know.beta /\ know'.nu = know.nu /\ know'.s = know.s
        /\ know'.delta = know.delta /\ know'.sigma = know.sigma /\ know'.R = know.R
        /\ "l" \in DOMAIN know' /\ know'.l = know.l /\ "rho" \in DOMAIN know' /\ know'.rho = know.rho
        /\ key' = key /\ digest' = digest /\ Signers' = Signers /\ Pairs' = Pairs /\ Ints' = Ints
    <3> HIDE DEF U, W
    <3> QED BY <2>1, <2>2, StepKeeps DEF Gg18Known, Gg18Equations, Has
  <2>4. Gg18Wraps' <=> Gg18Wraps
    BY <2>3 DEF Gg18Wraps, Gg18Decrypted
  <2>5. Gg18VCheck' = Gg18VCheck /\ Gg18A' = Gg18A
    BY <2>3 DEF Gg18VCheck, Gg18A
  <2>6. /\ know.l \in Ints /\ know.rho \in Ints /\ know.s \in Ints /\ know.R \in Field
    BY <2>2 DEF Gg18Equations, Gg18Known, Has
  <2>7. Gg18VCheck \in Int /\ Gg18A \in Int
    BY <2>6, Gg18VCheckType
  <2>8. Total(U, Signers) = Fl(Gg18VCheck * Gg18A)
    <3>1. \A i \in Signers : know.rho[i] \in Int /\ U[i] \in Int /\ Fl(U[i]) = Fl(Gg18VCheck * know.rho[i])
      <4> SUFFICES ASSUME NEW i \in Signers
                   PROVE  know.rho[i] \in Int /\ U[i] \in Int /\ Fl(U[i]) = Fl(Gg18VCheck * know.rho[i])
        OBVIOUS
      <4>1. know.rho[i] \in Int
        BY <2>6 DEF Ints
      <4>2. Gg18VCheck * know.rho[i] \in Int
        BY <2>7, <4>1
      <4> QED BY <4>1, <4>2, FlInt, FlField
    <3> HIDE DEF U
    <3> QED BY <2>7, <3>1, SignersType, TotalScale DEF Gg18A
  <2>9. Total(W, Signers) = Fl(Gg18A * Total(know.l, Signers))
    <3>1. \A i \in Signers : know.l[i] \in Int /\ W[i] \in Int /\ Fl(W[i]) = Fl(Gg18A * know.l[i])
      <4> SUFFICES ASSUME NEW i \in Signers
                   PROVE  know.l[i] \in Int /\ W[i] \in Int /\ Fl(W[i]) = Fl(Gg18A * know.l[i])
        OBVIOUS
      <4>1. know.l[i] \in Int
        BY <2>6 DEF Ints
      <4>2. Gg18A * know.l[i] \in Int /\ Gg18A * know.l[i] = know.l[i] * Gg18A
        BY <2>7, <4>1
      <4> QED BY <4>1, <4>2, FlInt, FlField
    <3> HIDE DEF W
    <3> QED BY <2>7, <3>1, SignersType, TotalScale
  <2> HIDE DEF U, W
  <2>10. /\ Total(know.U, Signers)' = Fl(Gg18VCheck' * Gg18A')
         /\ Total(know.T, Signers)' = Fl(Gg18A' * Total(know.l, Signers)')
    BY <2>2, <2>3, <2>5, <2>8, <2>9
  <2> QED BY <2>2, <2>3, <2>4, <2>10 DEF Gg18Equations, Gg18MaskRange, Gg18Delta, Gg18Nonce, Has
<1>6. CASE Gg18ZeroCheck
  <2>1. Gg18ZeroHolds /\ Pass("gg18_round_7", "gg18_round_8")
    BY <1>6 DEF Gg18ZeroCheck, Return
  <2>2. /\ stage = "gg18_round_7" /\ stage' = "gg18_round_8" /\ know' = know
        /\ key' = key /\ digest' = digest
        /\ Signers' = Signers /\ Pairs' = Pairs /\ Ints' = Ints
    BY <2>1, SameIndices DEF Pass
  <2>3. /\ Gg18Wraps' <=> Gg18Wraps
        /\ Gg18VCheck' = Gg18VCheck /\ Gg18A' = Gg18A
    BY <2>2 DEF Gg18Wraps, Gg18Decrypted, Gg18VCheck, Gg18A
  <2> QED BY <2>1, <2>2, <2>3 DEF Gg18Equations, Gg18MaskRange, Gg18Delta, Gg18Nonce, Gg18ZeroHolds, Has
<1>7. CASE Gg18Finish
  BY <1>7 DEF Gg18Finish, Return
<1> QED BY <1>1, <1>2, <1>3, <1>4, <1>5, <1>6, <1>7 DEF Gg18SignNext

\* No share of s is opened unless they add up to a signature.
LEMMA Gg18NotInVain ==
    ASSUME Session, Gg18Known, Gg18Equations
    PROVE  Gg18Revealed
<1> SUFFICES ASSUME stage = "gg18_round_8", Gg18A # 0
             PROVE  Fl(Total(know.s, Signers) * know.R) = Fl(digest + XCoord(know.R) * key)
  BY DEF Gg18Revealed
<1> DEFINE S == Total(know.s, Signers)
           L == Total(know.l, Signers)
           V == Gg18VCheck
           A == Gg18A
           r == XCoord(know.R)
           sR == S * know.R
           kr == key * r
<1>1. know.l \in Ints /\ know.rho \in Ints /\ know.s \in Ints /\ know.R \in Field
  BY DEF Gg18Known, Gg18Equations, Has
<1>2. V \in Int /\ A \in Int /\ V = Fl(sR + L - digest - kr)
  BY <1>1, Gg18VCheckType
<1>3. /\ S \in Int /\ L \in Int /\ L \in Field /\ A \in Field /\ know.R \in Int /\ r \in Int
      /\ digest \in Int /\ key \in Int
  BY <1>1, IntsType, XCoordType, ScalarsType, Operands DEF Ints, Gg18A
<1>4. sR \in Int /\ kr \in Int /\ kr = r * key
  <2> HIDE DEF S, r
  <2> QED BY <1>3
<1>5. Fl(V * A) = Fl(A * L)
  BY DEF Gg18Equations, Gg18ZeroHolds
<1> HIDE DEF S, L, V, A, r, sR, kr
<1>8. Fl(V) = Fl(L)
  <2>1. Fl(A) # 0
    BY <1>3, FlField DEF A
  <2>2. V * A = A * V
    BY <1>2
  <2> QED BY <1>2, <1>3, <1>5, <2>1, <2>2, FlCancel
<1>9. Fl(V) = Fl(sR + L - digest - kr)
  <2>1. sR + L - digest - kr \in Int
    BY <1>3, <1>4
  <2> QED BY <1>2, <2>1, FlType, FlField
<1>10. Fl((sR + L - digest - kr) + (digest + kr - L)) = Fl(L + (digest + kr - L))
  <2> DEFINE left == sR + L - digest - kr
             more == digest + kr - L
  <2>1. left \in Int /\ more \in Int /\ L \in Int /\ Fl(left) = Fl(L)
    BY <1>3, <1>4, <1>8, <1>9
  <2> HIDE DEF left, more
  <2>2. Fl(left + more) = Fl(L + more)
    BY <2>1, FlSum
  <2> QED BY <2>2 DEF left, more
<1>11. (sR + L - digest - kr) + (digest + kr - L) = sR /\ L + (digest + kr - L) = digest + kr
  BY <1>3, <1>4
<1> QED BY <1>4, <1>10, <1>11 DEF sR, S, r

\* A presignature fits the nonce and the key.
LEMMA Gg18PresignatureFits ==
    ASSUME Session, Gg18Known, Gg18Equations
    PROVE  Gg18Fits
<1> SUFFICES ASSUME stage = "gg18_round_4", ~Gg18Wraps
             PROVE  Fl(know.R * Gg18Nonce) = 1
  BY DEF Gg18Fits, Gg18Equations
<1> DEFINE K == Gg18Nonce
           G == Total(know.gamma, Signers)
           D == Gg18Delta
<1>1. K \in Field /\ G \in Field /\ D \in Field
  <2>1. know.k \in Ints /\ know.gamma \in Ints /\ know.delta \in Ints
    BY DEF Gg18Known, Has
  <2> QED BY <2>1, IntsType DEF Ints, Gg18Nonce, Gg18Delta
<1>2. D # 0 /\ know.R = Fl(Inv(D) * G) /\ D = Fl(K * G)
  BY DEF Gg18Equations
<1> HIDE DEF K, G, D
<1>3. Fl(know.R * K) = 1
  BY <1>1, <1>2, InverseOver
<1> QED BY <1>3 DEF K

-----------------------------------------------------------------------------
(* DKLs23.                                                                  *)

Dkls23Equations ==
    /\ Total(know.sk, Signers) = key
    /\ stage \in {"dkls23_round_3", "dkls23_round_4"} => \A p \in Pairs :
           know.psi[p] = Dkls23Psi(p[1], p[2])
    /\ stage = "dkls23_round_4" =>
           /\ know.R = Total(know.r, Signers)
           /\ \A i \in Signers : Dkls23Accepts(i)

LEMMA Dkls23EquationsBegin ==
    ASSUME NEW f \in Sharings, key = f[0], Dkls23SignBegin(f)
    PROVE  Dkls23Equations
<1>1. PICK r \in [Signers -> Scalars], phi \in [Signers -> Scalars] :
         know = [r |-> r, phi |-> phi,
                 sk |-> [i \in Signers |-> Fl(Eval(f, i) * Lagrange(Signers, i))]]
  BY DEF Dkls23SignBegin
<1>2. Total(know.sk, Signers) = key
  BY <1>1, WeightedShares
<1> QED BY <1>2 DEF Dkls23SignBegin, Dkls23Equations

LEMMA Dkls23EquationsStep ==
    ASSUME Session, Dkls23Known, Dkls23Equations, Dkls23SignNext, stage' # "ended"
    PROVE  Dkls23Equations'
<1>1. CASE Dkls23Multiply
  <2>1. PICK chi \in [Pairs -> Scalars], cu \in [Pairs -> Scalars], cv \in [Pairs -> Scalars] :
          Step("dkls23_round_1", "dkls23_round_2", [chi |-> chi, cu |-> cu, cv |-> cv])
    BY <1>1 DEF Dkls23Multiply
  <2>2. stage' = "dkls23_round_2" /\ know'.sk = know.sk /\ key' = key /\ Signers' = Signers
    BY <2>1, StepKeeps DEF Dkls23Known, Has
  <2> QED BY <2>2 DEF Dkls23Equations
<1>2. CASE Dkls23Correlate
  <2> DEFINE psi == [p \in Pairs |-> Dkls23Psi(p[1], p[2])]
             du == [p \in Pairs |-> Fl(know.chi[p] * (know.r[p[2]] + bent[p[2]]) + Neg(know.cu[<<p[2], p[1]>>]))]
             dv == [p \in Pairs |-> Fl(know.chi[p] * know.sk[p[2]] + Neg(know.cv[<<p[2], p[1]>>]))]
  <2>1. Step("dkls23_round_2", "dkls23_round_3", [psi |-> psi, du |-> du, dv |-> dv])
    BY <1>2 DEF Dkls23Correlate
  <2>2. \A p \in Pairs : psi[p] = Dkls23Psi(p[1], p[2])
    OBVIOUS
  <2> HIDE DEF psi, du, dv
  <2>3. /\ stage = "dkls23_round_2" /\ stage' = "dkls23_round_3" /\ know'.psi = psi
        /\ key' = key /\ Signers' = Signers /\ Pairs' = Pairs
    BY <2>1, StepKeeps
  <2>4. know'.sk = know.sk /\ know'.phi = know.phi /\ know'.chi = know.chi
    BY <2>1, <2>3, StepKeeps DEF Dkls23Known, Has
  <2> QED BY <2>2, <2>3, <2>4 DEF Dkls23Equations, Dkls23Psi
<1>3. CASE Dkls23Check
  <2>1. /\ \A i \in Signers : Dkls23Accepts(i)
        /\ Step("dkls23_round_3", "dkls23_round_4", [R |-> Total(know.r, Signers)])
    BY <1>3 DEF Dkls23Check, Return
  <2>2. /\ stage = "dkls23_round_3" /\ stage' = "dkls23_round_4" /\ know'.R = Total(know.r, Signers)
        /\ key' = key /\ Signers' = Signers /\ Pairs' = Pairs
    BY <2>1, StepKeeps
  <2>3. /\ know'.sk = know.sk /\ know'.r = know.r /\ know'.phi = know.phi /\ know'.chi = know.chi
        /\ know'.cu = know.cu /\ know'.cv = know.cv /\ know'.du = know.du /\ know'.dv = know.dv
        /\ know'.psi = know.psi
    BY <2>1, <2>2, StepKeeps DEF Dkls23Known, Has
  <2> QED BY <2>1, <2>2, <2>3 DEF Dkls23Equations, Dkls23Psi, Dkls23Accepts, Dkls23Consistent, Others
<1>4. CASE Dkls23Finish
  BY <1>4 DEF Dkls23Finish, Return
<1> QED BY <1>1, <1>2, <1>3, <1>4 DEF Dkls23SignNext

\* What the OLE leaves the signers with of the product of y and phi: c with the
\* sender, d with the receiver, off by what psi makes up for.
Dkls23Ole(y, c, d, g) ==
    /\ y \in Ints /\ c \in PairInts /\ d \in PairInts
    /\ \A p \in Pairs : Fl(d[p]) = Fl(y[p[2]] * know.chi[p] + Neg(c[<<p[2], p[1]>>]))
    /\ g = [i \in Signers |-> Fl(y[i] * Dkls23Mask(i)
              + SumFunctionOnSet([j \in Others(i) |-> c[<<i, j>>] + d[<<i, j>>]], Others(i)))]

LEMMA Dkls23Shares ==
    ASSUME know.phi \in Ints, know.chi \in PairInts, know.psi \in PairInts,
           \A p \in Pairs : know.psi[p] = Dkls23Psi(p[1], p[2]),
           NEW y, NEW c, NEW d, NEW g, Dkls23Ole(y, c, d, g)
    PROVE  Total(g, Signers) = Fl(Total(y, Signers) * Total(know.phi, Signers))
<1> DEFINE kept == [p \in Pairs |-> y[p[1]] * know.phi[p[2]] - y[p[1]] * know.chi[<<p[2], p[1]>>] + c[p]]
           given == [p \in Pairs |-> y[p[1]] * know.chi[<<p[2], p[1]>>] - c[p]]
           h == [i \in Signers |-> [j \in Others(i) |-> kept[<<i, j>>] + given[<<j, i>>]]]
<1>1. /\ y \in Ints /\ c \in PairInts /\ d \in PairInts
      /\ \A p \in Pairs : Fl(d[p]) = Fl(y[p[2]] * know.chi[p] + Neg(c[<<p[2], p[1]>>]))
      /\ g = [i \in Signers |-> Fl(y[i] * Dkls23Mask(i)
                + SumFunctionOnSet([j \in Others(i) |-> c[<<i, j>>] + d[<<i, j>>]], Others(i)))]
  BY DEF Dkls23Ole
<1>2. ASSUME NEW p \in Pairs
      PROVE  /\ kept[p] \in Int /\ given[p] \in Int
             /\ kept[p] + given[p] = y[p[1]] * know.phi[p[2]]
  <2> DEFINE a == y[p[1]] * know.phi[p[2]]
             b == y[p[1]] * know.chi[<<p[2], p[1]>>]
  <2>1. y[p[1]] \in Int /\ know.phi[p[2]] \in Int /\ know.chi[<<p[2], p[1]>>] \in Int /\ c[p] \in Int
    BY <1>1, PairsType DEF Ints, PairInts
  <2>2. a \in Int /\ b \in Int
    BY <2>1
  <2>3. kept[p] = a - b + c[p] /\ given[p] = b - c[p]
    OBVIOUS
  <2> HIDE DEF a, b, kept, given
  <2>4. kept[p] \in Int /\ given[p] \in Int /\ kept[p] + given[p] = a
    BY <2>1, <2>2, <2>3
  <2> QED BY <2>4 DEF a
<1>3. kept \in PairInts /\ given \in PairInts
  <2>1. kept \in [Pairs -> Int] /\ given \in [Pairs -> Int]
    BY <1>2
  <2> QED BY <2>1 DEF PairInts
<1>4. \A p \in Pairs : Fl(kept[p] + given[p]) = Fl(y[p[1]] * know.phi[p[2]])
  BY <1>2
<1>5. \A i \in Signers : \A j \in Others(i) : h[i][j] = kept[<<i, j>>] + given[<<j, i>>]
  OBVIOUS
<1>6. ASSUME NEW i \in Signers
      PROVE  /\ g[i] \in Int
             /\ Fl(g[i]) = Fl(y[i] * know.phi[i] + SumFunctionOnSet(h[i], Others(i)))
  <2> DEFINE m == [j \in Others(i) |-> know.psi[<<j, i>>]]
             e == [j \in Others(i) |-> c[<<i, j>>] + d[<<i, j>>]]
             ym == [j \in Others(i) |-> y[i] * m[j]]
             M == SumFunctionOnSet(m, Others(i))
             E == SumFunctionOnSet(e, Others(i))
             H == SumFunctionOnSet(h[i], Others(i))
             x == know.phi[i]
             z == y[i]
  <2>1. z \in Int /\ x \in Int
    BY <1>1 DEF Ints
  <2>2. ASSUME NEW j \in Others(i)
        PROVE  /\ m[j] \in Int /\ e[j] \in Int /\ ym[j] \in Int /\ h[i][j] \in Int
               /\ Fl(h[i][j]) = Fl(ym[j] + e[j])
    <3> DEFINE pj == know.phi[j]
               cji == know.chi[<<j, i>>]
               cij == know.chi[<<i, j>>]
               yj == y[j]
               c1 == c[<<i, j>>]
               c2 == c[<<j, i>>]
               d1 == d[<<i, j>>]
               mj == m[j]
    <3>1. j \in Signers /\ <<i, j>> \in Pairs /\ <<j, i>> \in Pairs
      BY OtherPairs
    <3>2. /\ pj \in Int /\ cji \in Int /\ cij \in Int /\ yj \in Int /\ c1 \in Int /\ c2 \in Int
          /\ d1 \in Int /\ mj \in Int
      BY <1>1, <3>1 DEF Ints, PairInts
    <3>3. mj = Fl(pj + Neg(cji)) /\ Fl(d1) = Fl(yj * cij + Neg(c2))
      BY <1>1, <3>1 DEF Dkls23Psi
    <3>4. /\ h[i][j] = (z * pj - z * cji + c1) + (yj * cij - c2)
          /\ ym[j] = z * mj /\ e[j] = c1 + d1
      BY <3>1
    <3> HIDE DEF pj, cji, cij, yj, c1, c2, d1, m, e, ym, h, z, x
    <3>5. z * pj \in Int /\ z * cji \in Int /\ yj * cij \in Int /\ z * mj \in Int
      BY <2>1, <3>2
    <3>6. Fl(z * mj) = Fl(z * pj - z * cji)
      <4>1. Neg(cji) \in Int /\ Fl(Neg(cji)) = Fl(-cji) /\ -cji \in Int
        BY <3>2, NegType, FlInt
      <4>2. Fl(pj + Neg(cji)) = Fl(pj + (-cji))
        <5> DEFINE n == Neg(cji)
                   o == -cji
        <5>1. n \in Int /\ o \in Int /\ Fl(n) = Fl(o)
          BY <4>1
        <5> HIDE DEF n, o
        <5>2. Fl(pj + n) = Fl(pj + o)
          BY <3>2, <5>1, FlSum
        <5> QED BY <5>2 DEF n, o
      <4>3. mj = Fl(pj - cji) /\ pj - cji \in Int
        BY <3>2, <3>3, <4>2
      <4>4. Fl(z * Fl(pj - cji)) = Fl(z * (pj - cji))
        BY <2>1, <4>3, FlMulRight
      <4>5. z * (pj - cji) = z * pj - z * cji
        BY <2>1, <3>2
      <4> QED BY <4>3, <4>4, <4>5
    <3>7. Fl(d1) = Fl(yj * cij - c2)
      <4> DEFINE n == Neg(c2)
                 o == -c2
                 q == yj * cij
      <4>1. n \in Int /\ o \in Int /\ Fl(n) = Fl(o) /\ q \in Int /\ Fl(d1) = Fl(q + n)
        BY <3>2, <3>3, <3>5, NegType, FlInt
      <4>2. q + o = yj * cij - c2
        BY <3>2, <3>5
      <4> HIDE DEF n, o, q
      <4>3. Fl(q + n) = Fl(q + o)
        BY <4>1, FlSum
      <4> QED BY <4>1, <4>2, <4>3
    <3> DEFINE A == z * pj - z * cji
               B == yj * cij - c2
               zm == z * mj
    <3>8. A \in Int /\ B \in Int /\ zm \in Int /\ Fl(zm) = Fl(A) /\ Fl(d1) = Fl(B)
      BY <3>2, <3>5, <3>6, <3>7
    <3>9. h[i][j] = (A + c1) + B /\ ym[j] + e[j] = (zm + c1) + d1
      BY <3>2, <3>4, <3>5, <3>8
    <3> HIDE DEF A, B, zm
    <3>10. zm + c1 \in Int /\ A + c1 \in Int /\ Fl(zm + c1) = Fl(A + c1)
      <4>1. zm \in Int /\ A \in Int /\ c1 \in Int /\ Fl(zm) = Fl(A)
        BY <3>2, <3>8
      <4>2. Fl(zm + c1) = Fl(A + c1)
        BY <4>1, FlShift
      <4> QED BY <4>1, <4>2
    <3>11. Fl((zm + c1) + d1) = Fl((A + c1) + B)
      BY <3>2, <3>8, <3>10, FlSum
    <3>12. h[i][j] \in Int /\ ym[j] \in Int /\ e[j] \in Int /\ m[j] \in Int
      BY <3>2, <3>4, <3>5, <3>8, <3>9 DEF zm, m, mj
    <3> QED BY <3>9, <3>11, <3>12
  <2>3. g[i] = Fl(z * (x + M) + E)
    BY <1>1 DEF Dkls23Mask
  <2>4. \A j \in Others(i) : ym[j] = z * m[j]
    OBVIOUS
  <2>5. /\ \A j \in Others(i) : /\ m[j] \in Int /\ e[j] \in Int /\ ym[j] \in Int /\ h[i][j] \in Int
                                /\ Fl(h[i][j]) = Fl(ym[j] + e[j])
        /\ \A j \in Others(i) : Fl(ym[j]) = Fl(z * m[j])
    BY <2>2, <2>4
  <2> HIDE DEF m, e, ym, h, z, x
  <2>6. /\ M \in Int /\ E \in Int /\ H \in Int
        /\ Total(m, Others(i)) = Fl(M) /\ Total(e, Others(i)) = Fl(E) /\ Total(h[i], Others(i)) = Fl(H)
        /\ Total(ym, Others(i)) \in Int
    BY <2>5, OthersSum, TotalOthers
  <2>7. Total(h[i], Others(i)) = Fl(Total(ym, Others(i)) + Total(e, Others(i)))
    BY <2>5, OthersType, TotalSum
  <2>8. Total(ym, Others(i)) = Fl(z * Total(m, Others(i)))
    <3>1. \A j \in Others(i) : m[j] \in Int /\ ym[j] \in Int /\ Fl(ym[j]) = Fl(z * m[j])
      BY <2>5
    <3> QED BY <2>1, <3>1, OthersType, TotalScale
  <2> HIDE DEF M, E, H
  <2>9. Fl(H) = Fl(z * M + E)
    <3> DEFINE zM == z * M
    <3>1. zM \in Int /\ Fl(z * Fl(M)) = Fl(zM)
      BY <2>1, <2>6, FlMulRight
    <3>2. Fl(H) = Fl(Fl(zM) + Fl(E))
      BY <2>6, <2>7, <2>8, <3>1
    <3> HIDE DEF zM
    <3>3. Fl(Fl(zM) + Fl(E)) = Fl(zM + Fl(E)) /\ Fl(zM + Fl(E)) = Fl(zM + E)
      BY <2>6, <3>1, FlAdd, FlAddRight, FlInt
    <3> QED BY <3>2, <3>3 DEF zM
  <2>10. z * x \in Int /\ z * M \in Int /\ z * (x + M) + E = z * x + (z * M + E)
    BY <2>1, <2>6
  <2>11. Fl(z * x + (z * M + E)) = Fl(z * x + H)
    <3> DEFINE u == z * x
               v == z * M + E
    <3>1. u \in Int /\ v \in Int /\ Fl(v) = Fl(H)
      BY <2>6, <2>9, <2>10
    <3> HIDE DEF u, v
    <3>2. Fl(u + v) = Fl(u + H)
      BY <2>6, <3>1, FlShift
    <3> QED BY <3>2 DEF u, v
  <2>12. z * x + H \in Int
    BY <2>6, <2>10
  <2>13. g[i] = Fl(z * x + H)
    BY <2>3, <2>10, <2>11
  <2>14. g[i] \in Int /\ Fl(g[i]) = Fl(z * x + H)
    BY <2>12, <2>13, FlInt, FlField
  <2> QED BY <2>14 DEF z, x, H
<1>7. g \in Ints
  <2>1. g \in [Signers -> Int]
    BY <1>1, <1>6
  <2> QED BY <2>1 DEF Ints
<1>8. \A i \in Signers : Fl(g[i]) = Fl(y[i] * know.phi[i] + SumFunctionOnSet(h[i], Others(i)))
  BY <1>6
<1>9. ProductShared(y, know.phi, kept, given, h, g)
  <2> HIDE DEF kept, given, h
  <2> QED BY <1>1, <1>3, <1>4, <1>5, <1>7, <1>8 DEF ProductShared
<1> HIDE DEF kept, given, h
<1> QED BY <1>9, ProductShares

\* A presignature fits the nonce and the key.
LEMMA Dkls23PresignatureFits ==
    ASSUME Session, Dkls23Known, Dkls23Equations
    PROVE  Dkls23Fits
<1> SUFFICES ASSUME stage = "dkls23_round_4" PROVE Dkls23Fits
  BY DEF Dkls23Fits
<1> DEFINE u == [i \in Signers |-> Dkls23U(i)]
           v == [i \in Signers |-> Dkls23V(i)]
           P == Total(know.phi, Signers)
<1>1. /\ know.r \in Ints /\ know.phi \in Ints /\ know.sk \in Ints
      /\ know.chi \in PairInts /\ know.cu \in PairInts /\ know.cv \in PairInts
      /\ know.psi \in PairInts /\ know.du \in PairInts /\ know.dv \in PairInts
  BY DEF Dkls23Known, Has
<1>2. /\ \A p \in Pairs : know.psi[p] = Dkls23Psi(p[1], p[2])
      /\ know.R = Total(know.r, Signers) /\ Total(know.sk, Signers) = key
  BY DEF Dkls23Equations
<1>3. ASSUME NEW p \in Pairs
      PROVE  /\ Fl(know.du[p]) = Fl(know.r[p[2]] * know.chi[p] + Neg(know.cu[<<p[2], p[1]>>]))
             /\ Fl(know.dv[p]) = Fl(know.sk[p[2]] * know.chi[p] + Neg(know.cv[<<p[2], p[1]>>]))
  <2>1. p[1] \in Signers /\ p[2] \in Others(p[1]) /\ p = <<p[1], p[2]>> /\ <<p[2], p[1]>> \in Pairs
        /\ p[2] \in Signers
    BY DEF Pairs, Others
  <2>2. Dkls23Consistent(p[1], p[2])
    BY <2>1 DEF Dkls23Equations, Dkls23Accepts
  <2>3. /\ Fl(know.r[p[2]] * know.chi[p] + Neg(know.cu[<<p[2], p[1]>>])) = know.du[p]
        /\ Fl(know.sk[p[2]] * know.chi[p] + Neg(know.cv[<<p[2], p[1]>>])) = know.dv[p]
    BY <2>1, <2>2 DEF Dkls23Consistent
  <2>4. /\ know.r[p[2]] * know.chi[p] + Neg(know.cu[<<p[2], p[1]>>]) \in Int
        /\ know.sk[p[2]] * know.chi[p] + Neg(know.cv[<<p[2], p[1]>>]) \in Int
    <3>1. /\ know.r[p[2]] \in Int /\ know.sk[p[2]] \in Int /\ know.chi[p] \in Int
          /\ Neg(know.cu[<<p[2], p[1]>>]) \in Int /\ Neg(know.cv[<<p[2], p[1]>>]) \in Int
      BY <1>1, <2>1, FlInt DEF Ints, PairInts
    <3>2. know.r[p[2]] * know.chi[p] \in Int /\ know.sk[p[2]] * know.chi[p] \in Int
      BY <3>1
    <3> QED BY <3>1, <3>2
  <2> QED BY <2>3, <2>4, FlInt, FlField
<1>4. Dkls23Ole(know.r, know.cu, know.du, u) /\ Dkls23Ole(know.sk, know.cv, know.dv, v)
  BY <1>1, <1>3 DEF Dkls23Ole, Dkls23U, Dkls23V
<1>5. Dkls23USum = Total(u, Signers)
  BY DEF Dkls23USum
<1> HIDE DEF u, v
<1>6. /\ Total(u, Signers) = Fl(know.R * P)
      /\ Total(v, Signers) = Fl(key * P)
  BY <1>1, <1>2, <1>4, Dkls23Shares
<1>7. know.R * P = P * know.R /\ key * P = P * key
  <2>1. know.R \in Int /\ P \in Int /\ key \in Int
    BY <1>1, <1>2, IntsType, Operands DEF Ints
  <2> HIDE DEF P
  <2> QED BY <2>1
<1> QED BY <1>5, <1>6, <1>7 DEF Dkls23Fits, v

-----------------------------------------------------------------------------
(* GGN16.                                                                   *)

\* A masked nonce share is not reduced by the plaintext space, and neither is
\* the sum of them.
Ggn16Small(w) == w \in Nat /\ w <= 2 * (Q * Q * Q)

Ggn16Equations ==
    /\ know.rho \in [Signers -> Field] /\ Fl(know.x) = key
    /\ stage # "ggn16_presign_1" =>
           /\ Fl(know.v) = Fl(know.u * key)
           /\ \A i \in Signers : Ggn16Small(know.w[i]) /\ Fl(know.w[i]) = Fl(know.u * know.k[i])
    /\ stage \in {"ggn16_presign_5", "ggn16_sign"} => Fl(know.sum) = Fl(know.u * know.R)
    /\ stage = "ggn16_sign" => Ggn16Eta # 0 /\ know.psi = Inv(Ggn16Eta)

LEMMA Ggn16EquationsBegin ==
    ASSUME NEW f \in Sharings, key = f[0], Ggn16SignBegin(f)
    PROVE  Ggn16Equations
<1>1. PICK rho \in [Signers -> Scalars \cup {0}], x \in {f[0], f[0] + Q} : know = [rho |-> rho, x |-> x]
  BY DEF Ggn16SignBegin
<1>2. rho \in [Signers -> Field]
  <2>1. Scalars \subseteq Field /\ 0 \in Field
    BY ScalarsType, QAssumption DEF Field
  <2>2. \A i \in Signers : rho[i] \in Field
    BY <2>1
  <2> QED BY <2>2
<1>3. Fl(x) = key
  <2>1. f[0] \in Int /\ f[0] \in Field /\ f[0] + Q \in Int /\ 1 \in Int /\ f[0] + Q = f[0] + 1 * Q
    BY BeginType, QAssumption
  <2>2. Fl(f[0] + Q) = Fl(f[0])
    BY <2>1, FlUnique
  <2> QED BY <2>1, <2>2, FlField
<1> QED BY <1>1, <1>2, <1>3 DEF Ggn16SignBegin, Ggn16Equations

\* A nonce share under its mask.
LEMMA Ggn16Masked ==
    ASSUME NEW u \in Nat, u <= Q * Q, NEW k \in Field, NEW c \in Nat, c < Q * Q
    PROVE  /\ Ggn16Small((k * u + c * Q) % WideN)
           /\ Fl((k * u + c * Q) % WideN) = Fl(u * k)
<1>1. k \in Nat /\ k <= Q /\ Q \in Nat /\ Q * Q \in Nat
  BY QAssumption, SpaceType DEF Field
<1>2. k * u \in Nat /\ k * u <= Q * (Q * Q)
  BY <1>1, ProductBound
<1>3. c * Q \in Nat /\ c * Q <= (Q * Q) * Q
  BY <1>1, ProductBound
<1>4. Q * (Q * Q) = Q * Q * Q /\ k * u = u * k
  BY <1>1
<1> DEFINE x == k * u + c * Q
<1>5. x \in Nat /\ x <= 2 * (Q * Q * Q) /\ x < WideN
  BY <1>2, <1>3, <1>4, SpaceType
<1>6. Fl(x) = Fl(k * u)
  BY <1>2, <1>3, FlUnique
<1>7. x % WideN = x
  <2> HIDE DEF x
  <2> QED BY <1>5, SpaceType
<1> QED BY <1>4, <1>5, <1>6, <1>7 DEF Ggn16Small

\* Their sum.
LEMMA Ggn16Sum ==
    ASSUME NEW w, \A i \in Signers : Ggn16Small(w[i])
    PROVE  SumFunctionOnSet(w, Signers) % WideN = SumFunctionOnSet(w, Signers)
<1> DEFINE c == 2 * (Q * Q * Q)
           n == Cardinality(Signers)
           s == SumFunctionOnSet(w, Signers)
<1>1. c \in Nat /\ \A i \in Signers : w[i] \in Nat /\ w[i] <= c
  BY SpaceType DEF Ggn16Small
<1>2. n \in Nat /\ n <= Q
  BY SignersBound
<1> HIDE DEF c, n, s
<1>3. s \in Nat /\ s <= n * c
  BY <1>1, SignersType, SumBound DEF n, s
<1>4. n * c \in Nat /\ n * c <= Q * c
  BY <1>1, <1>2, SpaceType, ProductBound
<1>5. Q * c < WideN
  <2> DEFINE q2 == Q * Q
  <2>1. Q \in Nat /\ q2 \in Nat /\ q2 >= 9
    <3>1. q2 >= 3 * Q /\ Q >= 3
      BY SpaceType
    <3> QED BY <3>1, SpaceType
  <2>2. Q * c = 2 * (q2 * q2)
    BY <2>1 DEF c
  <2> DEFINE q4 == q2 * q2
  <2>3. q4 \in Nat /\ q4 > 0
    <3> HIDE DEF q2
    <3>1. q2 * q2 \in Nat /\ q2 * q2 >= 9 * q2
      BY <2>1
    <3> QED BY <2>1, <3>1
  <2>4. WideN \in Nat /\ WideN > q2 * q4 /\ Q * c = 2 * q4
    BY <2>2, WideProducts
  <2> HIDE DEF q4, q2
  <2>5. q2 * q4 >= 9 * q4 /\ q2 * q4 \in Nat
    BY <2>1, <2>3
  <2>6. 2 * q4 <= 9 * q4 /\ 2 * q4 \in Nat
    BY <2>3
  <2> QED BY <2>4, <2>5, <2>6, <2>3
<1>6. Q * c \in Nat
  BY <1>1, SpaceType
<1>7. s < WideN
  BY <1>3, <1>4, <1>5, <1>6, SpaceType
<1>8. s % WideN = s
  BY <1>3, <1>7, SpaceType
<1> QED BY <1>8 DEF s

LEMMA Ggn16EquationsStep ==
    ASSUME Session, Ggn16Known, Ggn16Equations, Ggn16SignNext, stage' # "ended"
    PROVE  Ggn16Equations'
<1>0. key \in Int /\ know.rho \in [Signers -> Field] /\ Fl(know.x) = key /\ know.x \in Int
  BY Operands DEF Ggn16Equations, Ggn16Known, Has
<1>1. CASE Ggn16Nonce
  <2> DEFINE u == SumFunctionOnSet(know.rho, Signers)
             rx == [i \in Signers |-> know.rho[i] * know.x]
             v == SumFunctionOnSet(rx, Signers)
  <2>1. PICK k \in [Signers -> Scalars], c \in [Signers -> {b \in Masks : b < Q * Q}] :
          Step("ggn16_presign_1", "ggn16_presign_3",
               [k |-> k, u |-> u, v |-> v,
                w |-> [i \in Signers |-> (k[i] * u + c[i] * Q) % WideN]])
    BY <1>1 DEF Ggn16Nonce
  <2> DEFINE w == [i \in Signers |-> (k[i] * u + c[i] * Q) % WideN]
  <2>2. Step("ggn16_presign_1", "ggn16_presign_3", [k |-> k, u |-> u, v |-> v, w |-> w])
    BY <2>1
  <2>3. \A i \in Signers : know.rho[i] \in Int /\ know.rho[i] \in Nat /\ know.rho[i] <= Q
    BY <1>0, QAssumption DEF Field
  <2>4. u \in Nat /\ u <= Q * Q
    <3> DEFINE n == Cardinality(Signers)
    <3>1. u \in Nat /\ u <= n * Q
      BY <2>3, SignersType, SpaceType, SumBound
    <3>2. n \in Nat /\ n <= Q
      BY SignersBound
    <3> HIDE DEF n, u
    <3>3. n * Q \in Nat /\ n * Q <= Q * Q
      BY <3>2, SpaceType, ProductBound
    <3> QED BY <3>1, <3>3, SpaceType
  <2>5. \A i \in Signers : Ggn16Small(w[i]) /\ Fl(w[i]) = Fl(u * k[i])
    <3> SUFFICES ASSUME NEW i \in Signers PROVE Ggn16Small(w[i]) /\ Fl(w[i]) = Fl(u * k[i])
      OBVIOUS
    <3> DEFINE ki == k[i]
               ci == c[i]
    <3>1. ki \in Field /\ ci \in Nat /\ ci < Q * Q /\ w[i] = (ki * u + ci * Q) % WideN
      BY ScalarsType, SigningAssumption
    <3> HIDE DEF ki, ci, u, w
    <3>2. Ggn16Small((ki * u + ci * Q) % WideN) /\ Fl((ki * u + ci * Q) % WideN) = Fl(u * ki)
      BY <2>4, <3>1, Ggn16Masked
    <3> QED BY <3>1, <3>2 DEF ki
  <2>6. Fl(v) = Fl(u * key)
    <3> DEFINE x == know.x
               r == know.rho
               ru == Total(r, Signers)
    <3>1. x \in Int /\ Fl(x) = key /\ u \in Int /\ ru = Fl(u)
      BY <1>0, <2>4 DEF Total
    <3>2. Total(rx, Signers) = Fl(v)
      BY DEF Total
    <3>3. \A i \in Signers : rx[i] = r[i] * x
      OBVIOUS
    <3>4. \A i \in Signers : r[i] \in Int
      BY <2>3
    <3> HIDE DEF x, rx, r
    <3>5. ASSUME NEW i \in Signers PROVE rx[i] \in Int /\ Fl(rx[i]) = Fl(x * r[i])
      <4>1. r[i] \in Int
        BY <3>4
      <4>2. r[i] * x \in Int /\ r[i] * x = x * r[i]
        BY <3>1, <4>1
      <4> QED BY <3>3, <4>2
    <3>6. \A i \in Signers : r[i] \in Int /\ rx[i] \in Int /\ Fl(rx[i]) = Fl(x * r[i])
      BY <3>4, <3>5
    <3>7. Total(rx, Signers) = Fl(x * ru)
      BY <3>1, <3>6, SignersType, TotalScale
    <3> HIDE DEF u, v, ru
    <3>8. Fl(x * Fl(u)) = Fl(x * u)
      BY <3>1, FlMulRight
    <3>9. \A a, b \in Int : Fl(Fl(a) * b) = Fl(a * b)
      BY FlMul
    <3>10. Fl(x * u) = Fl(Fl(x) * u)
      BY <3>1, <3>9
    <3>11. key * u = u * key
      BY <1>0, <3>1
    <3> QED BY <3>1, <3>2, <3>7, <3>8, <3>10, <3>11
  <2> HIDE DEF u, v, w, rx
  <2>7. /\ stage = "ggn16_presign_1" /\ stage' = "ggn16_presign_3" /\ key' = key /\ Signers' = Signers
        /\ know'.k = k /\ know'.u = u /\ know'.v = v /\ know'.w = w
    BY <2>2, StepKeeps
  <2>8. know'.rho = know.rho /\ know'.x = know.x
    BY <2>2, StepKeeps DEF Ggn16Known, Has
  <2> QED BY <2>5, <2>6, <2>7, <2>8 DEF Ggn16Equations
<1>2. CASE Ggn16Combine
  <2> DEFINE R == Total(know.k, Signers)
             sum == SumFunctionOnSet(know.w, Signers) % WideN
  <2>1. Step("ggn16_presign_3", "ggn16_presign_5", [R |-> R, sum |-> sum])
    BY <1>2 DEF Ggn16Combine
  <2>2. stage = "ggn16_presign_3"
    BY <2>1 DEF Step
  <2>3. know.u \in Int /\ \A i \in Signers : /\ know.w[i] \in Int /\ know.k[i] \in Int
                                             /\ Ggn16Small(know.w[i])
                                             /\ Fl(know.w[i]) = Fl(know.u * know.k[i])
    BY <2>2 DEF Ggn16Known, Ggn16Equations, Has, Ints
  <2>4. sum = SumFunctionOnSet(know.w, Signers)
    BY <2>3, Ggn16Sum
  <2>5. Total(know.w, Signers) = Fl(know.u * R)
    BY <2>3, SignersType, TotalScale
  <2>6. Fl(sum) = Fl(know.u * R)
    BY <2>4, <2>5 DEF Total
  <2> HIDE DEF R, sum
  <2>7. /\ stage' = "ggn16_presign_5" /\ key' = key /\ Signers' = Signers
        /\ know'.R = R /\ know'.sum = sum
    BY <2>1, StepKeeps
  <2>8. /\ know'.rho = know.rho /\ know'.x = know.x /\ know'.u = know.u /\ know'.v = know.v
        /\ know'.w = know.w /\ know'.k = know.k
    BY <2>1, <2>2, StepKeeps DEF Ggn16Known, Has
  <2> QED BY <2>2, <2>6, <2>7, <2>8 DEF Ggn16Equations
<1>3. CASE Ggn16Presign
  <2>1. Ggn16Eta # 0 /\ Step("ggn16_presign_5", "ggn16_sign", [psi |-> Inv(Ggn16Eta)])
    BY <1>3 DEF Ggn16Presign, Return
  <2>2. /\ stage = "ggn16_presign_5" /\ stage' = "ggn16_sign" /\ know'.psi = Inv(Ggn16Eta)
        /\ key' = key /\ Signers' = Signers /\ bent' = bent
    BY <2>1, StepKeeps
  <2>3. /\ know'.rho = know.rho /\ know'.x = know.x /\ know'.u = know.u /\ know'.v = know.v
        /\ know'.w = know.w /\ know'.k = know.k /\ know'.R = know.R /\ know'.sum = know.sum
    BY <2>1, <2>2, StepKeeps DEF Ggn16Known, Has
  <2>4. Ggn16Eta' = Ggn16Eta
    BY <2>2, <2>3 DEF Ggn16Eta
  <2> QED BY <2>1, <2>2, <2>3, <2>4 DEF Ggn16Equations
<1>4. CASE Ggn16Finish
  BY <1>4 DEF Ggn16Finish, Return
<1> QED BY <1>1, <1>2, <1>3, <1>4 DEF Ggn16SignNext

\* A presignature fits the nonce and the key.
LEMMA Ggn16PresignatureFits ==
    ASSUME Session, Ggn16Known, Ggn16Equations
    PROVE  Ggn16Fits
<1> SUFFICES ASSUME stage = "ggn16_sign", bent = Straight
             PROVE  Fl(know.psi * know.R * know.u) = 1 /\ Fl(know.v) = Fl(know.u * key)
  BY DEF Ggn16Fits
<1>1. know.sum \in Int /\ know.R \in Int /\ know.u \in Int
  BY ScalarsType DEF Ggn16Known, Has
<1>2. Ggn16Eta = Fl(know.sum)
  <2>1. SumFunctionOnSet(bent, Signers) = 0
    <3>1. \A i \in Signers : bent[i] = 0
      BY DEF Straight
    <3> QED BY <3>1, SignersType, SumZero
  <2>2. know.sum + 0 = know.sum
    BY <1>1
  <2> QED BY <2>1, <2>2 DEF Ggn16Eta
<1> DEFINE e == Ggn16Eta
           m == know.u * know.R
           p == know.psi
<1>3. m \in Int /\ e = Fl(m) /\ e # 0 /\ p = Inv(e)
  BY <1>1, <1>2 DEF Ggn16Equations
<1> HIDE DEF e, m, p
<1>4. e \in Int /\ e \in Field /\ Fl(e) = e
  BY <1>3, FlInt, FlField
<1>5. p \in Int /\ Fl(e * p) = 1
  BY <1>3, <1>4, InvType, ScalarsType
<1>6. Fl(m * p) = 1
  BY <1>3, <1>4, <1>5, FlMul
<1>7. know.psi * know.R * know.u = m * p
  BY <1>1, <1>5 DEF m, p
<1> QED BY <1>6, <1>7 DEF Ggn16Equations

-----------------------------------------------------------------------------
(* CGGMP20.                                                                 *)

Cggmp20Equations ==
    /\ stage = "cggmp20_presign_3" => \A i \in Signers :
           /\ know.Delta[i] = Fl(know.Gamma * know.k[i])
           /\ know.S[i] = Fl(know.Gamma * know.chi[i])
    /\ stage = "cggmp20_sign" =>
           /\ know.Gamma # 0
           /\ \A i \in Signers : /\ Fl(know.Gamma * know.kTilde[i]) = know.tildeDelta[i]
                                 /\ Fl(know.Gamma * know.chiTilde[i]) = know.tildeS[i]
           /\ Fl(know.Gamma * Total(know.kTilde, Signers)) = 1
           /\ Fl(know.Gamma * Total(know.chiTilde, Signers)) = key

LEMMA Cggmp20EquationsBegin ==
    ASSUME NEW f \in Sharings, key = f[0], Cggmp20SignBegin(f)
    PROVE  Cggmp20Equations
  BY DEF Cggmp20SignBegin, Cggmp20Equations

\* What a party scales by the inverse of delta it scales in the exponent too.
Cggmp20Scaling(v, g, u, w, su, sw) ==
    /\ v \in Int /\ g \in Int /\ u \in Ints /\ w \in Ints
    /\ \A i \in Signers : w[i] = Fl(g * u[i])
    /\ su = [i \in Signers |-> Fl(u[i] * v)]
    /\ sw = [i \in Signers |-> Fl(w[i] * v)]

LEMMA Cggmp20Scaled ==
    ASSUME NEW v, NEW g, NEW u, NEW w, NEW su, NEW sw, Cggmp20Scaling(v, g, u, w, su, sw)
    PROVE  /\ su \in Ints /\ sw \in Ints
           /\ \A i \in Signers : Fl(g * su[i]) = sw[i]
           /\ Fl(g * Total(su, Signers)) = Fl(v * Total(w, Signers))
<1>0. /\ v \in Int /\ g \in Int /\ u \in Ints /\ w \in Ints
      /\ \A i \in Signers : w[i] = Fl(g * u[i])
      /\ su = [i \in Signers |-> Fl(u[i] * v)]
      /\ sw = [i \in Signers |-> Fl(w[i] * v)]
  BY DEF Cggmp20Scaling
<1>1. ASSUME NEW i \in Signers
      PROVE  /\ u[i] \in Int /\ w[i] \in Int /\ su[i] \in Int /\ sw[i] \in Int
             /\ Fl(g * su[i]) = sw[i] /\ Fl(sw[i]) = Fl(g * su[i]) /\ Fl(sw[i]) = Fl(v * w[i])
  <2> DEFINE x == u[i]
             y == w[i]
  <2>1. x \in Int /\ y \in Int /\ y = Fl(g * x) /\ su[i] = Fl(x * v) /\ sw[i] = Fl(y * v)
    BY <1>0 DEF Ints
  <2> HIDE DEF x, y
  <2>1a. v \in Int /\ g \in Int
    BY <1>0
  <2>2. x * v \in Int /\ y * v \in Int /\ g * x \in Int /\ y * v = v * y
    BY <2>1, <2>1a
  <2>3. Fl(g * Fl(x * v)) = Fl(g * (x * v))
    BY <2>1a, <2>2, FlMulRight
  <2>4. Fl(Fl(g * x) * v) = Fl((g * x) * v)
    BY <2>1a, <2>2, FlMul
  <2>5. g * (x * v) = (g * x) * v
    BY <2>1, <2>1a
  <2>6. Fl(Fl(y * v)) = Fl(y * v) /\ Fl(x * v) \in Int /\ Fl(y * v) \in Int
    BY <2>2, FlInt, FlField
  <2> QED BY <2>1, <2>2, <2>3, <2>4, <2>5, <2>6 DEF x, y
<1>2. su \in Ints /\ sw \in Ints
  BY <1>0, <1>1 DEF Ints
<1>3. Total(sw, Signers) = Fl(v * Total(w, Signers))
  <2>1. \A i \in Signers : w[i] \in Int /\ sw[i] \in Int /\ Fl(sw[i]) = Fl(v * w[i])
    BY <1>1
  <2>2. v \in Int
    BY <1>0
  <2> QED BY <2>1, <2>2, SignersType, TotalScale
<1>4. Total(sw, Signers) = Fl(g * Total(su, Signers))
  <2>1. \A i \in Signers : su[i] \in Int /\ sw[i] \in Int /\ Fl(sw[i]) = Fl(g * su[i])
    BY <1>1
  <2>2. g \in Int
    BY <1>0
  <2> QED BY <2>1, <2>2, SignersType, TotalScale
<1> QED BY <1>1, <1>2, <1>3, <1>4

LEMMA Cggmp20EquationsStep ==
    ASSUME Session, Cggmp20Known, Cggmp20Equations, Cggmp20SignNext, stage' # "ended"
    PROVE  Cggmp20Equations'
<1>1. CASE Cggmp20Multiply
  BY <1>1 DEF Cggmp20Multiply, Step, Cggmp20Equations
<1>2. CASE Cggmp20Open
  <2> DEFINE chi == [i \in Signers |-> Cggmp20ShareOf(i, know.x, know.hat)]
             Gamma == Total(know.gamma, Signers)
             delta == [i \in Signers |-> Fl(Cggmp20ShareOf(i, know.gamma, know.beta) + Cggmp20Offset("delta")[i])]
             Delta == [i \in Signers |-> Fl(Gamma * know.k[i])]
             S == [i \in Signers |-> Fl(Gamma * chi[i])]
  <2>1. Step("cggmp20_presign_2", "cggmp20_presign_3", [chi |-> chi, Gamma |-> Gamma, delta |-> delta, Delta |-> Delta, S |-> S])
    BY <1>2 DEF Cggmp20Open
  <2>2. \A i \in Signers : Delta[i] = Fl(Gamma * know.k[i]) /\ S[i] = Fl(Gamma * chi[i])
    BY DEF Delta, S
  <2> HIDE DEF chi, Gamma, delta, Delta, S
  <2>3. /\ stage = "cggmp20_presign_2" /\ stage' = "cggmp20_presign_3"
        /\ know'.chi = chi /\ know'.Gamma = Gamma /\ know'.Delta = Delta /\ know'.S = S
        /\ Signers' = Signers
    BY <2>1, StepKeeps
  <2>4. know'.k = know.k
    BY <2>1, <2>3, StepKeeps DEF Cggmp20Known, Has
  <2> QED BY <2>2, <2>3, <2>4 DEF Cggmp20Equations
<1>3. CASE Cggmp20Presign
  <2> DEFINE delta == Total(know.delta, Signers)
             inv == Inv(delta)
             kTilde == [i \in Signers |-> Fl(know.k[i] * inv)]
             chiTilde == [i \in Signers |-> Fl(know.chi[i] * inv)]
             tildeDelta == [i \in Signers |-> Fl(know.Delta[i] * inv)]
             tildeS == [i \in Signers |-> Fl(know.S[i] * inv)]
  <2>1. /\ delta = Total(know.Delta, Signers) /\ Fl(delta * key) = Total(know.S, Signers)
        /\ delta # 0
        /\ Step("cggmp20_presign_3", "cggmp20_sign",
                [kTilde |-> kTilde, chiTilde |-> chiTilde, tildeDelta |-> tildeDelta, tildeS |-> tildeS])
    BY <1>3 DEF Cggmp20Presign, Cggmp20Consistent, Return
  <2>2. stage = "cggmp20_presign_3"
    BY <2>1 DEF Step
  <2>3. /\ know.k \in Ints /\ know.chi \in Ints /\ know.Delta \in Ints /\ know.S \in Ints
        /\ know.delta \in Ints /\ know.Gamma \in Field /\ know.Gamma \in Int
        /\ \A i \in Signers : know.Delta[i] = Fl(know.Gamma * know.k[i])
        /\ \A i \in Signers : know.S[i] = Fl(know.Gamma * know.chi[i])
    BY <2>2, ScalarsType DEF Cggmp20Known, Cggmp20Equations, Has
  <2>4. delta \in Field /\ delta \in Int /\ inv \in Int /\ Fl(delta) = delta /\ Fl(delta * inv) = 1
        /\ key \in Int /\ Fl(key) = key
    <3>1. delta \in Field /\ delta \in Int
      BY <2>3, IntsType DEF Ints
    <3> HIDE DEF delta
    <3> QED BY <2>1, <3>1, InvType, FlField, ScalarsType DEF inv, Session
  <2> HIDE DEF inv
  <2>5. /\ \A i \in Signers : Fl(know.Gamma * kTilde[i]) = tildeDelta[i]
        /\ Fl(know.Gamma * Total(kTilde, Signers)) = Fl(inv * Total(know.Delta, Signers))
        /\ kTilde \in Ints
    <3>1. Cggmp20Scaling(inv, know.Gamma, know.k, know.Delta, kTilde, tildeDelta)
      <4> HIDE DEF delta
      <4> QED BY <2>3, <2>4 DEF Cggmp20Scaling
    <3> HIDE DEF delta, kTilde, tildeDelta
    <3> QED BY <3>1, Cggmp20Scaled
  <2>6. /\ \A i \in Signers : Fl(know.Gamma * chiTilde[i]) = tildeS[i]
        /\ Fl(know.Gamma * Total(chiTilde, Signers)) = Fl(inv * Total(know.S, Signers))
        /\ chiTilde \in Ints
    <3>1. Cggmp20Scaling(inv, know.Gamma, know.chi, know.S, chiTilde, tildeS)
      <4> HIDE DEF delta
      <4> QED BY <2>3, <2>4 DEF Cggmp20Scaling
    <3> HIDE DEF delta, chiTilde, tildeS
    <3> QED BY <3>1, Cggmp20Scaled
  <2> HIDE DEF kTilde, chiTilde, tildeDelta, tildeS
  <2>7. Fl(inv * Total(know.Delta, Signers)) = 1
    <3>1. inv * delta = delta * inv
      <4> HIDE DEF delta
      <4> QED BY <2>4
    <3> QED BY <2>1, <2>4, <3>1
  <2>8. Fl(inv * Total(know.S, Signers)) = key
    <3> DEFINE d == delta
    <3>1. d \in Int /\ Total(know.S, Signers) = Fl(d * key) /\ Fl(d * inv) = 1
      BY <2>1, <2>4
    <3> HIDE DEF d, delta
    <3>2. d * key \in Int /\ d * inv \in Int
      BY <2>4, <3>1
    <3>3. Fl(inv * Fl(d * key)) = Fl(inv * (d * key))
      BY <2>4, <3>2, FlMulRight
    <3>4. inv * (d * key) = (d * inv) * key
      BY <2>4, <3>1
    <3>5. Fl((d * inv) * key) = Fl(Fl(d * inv) * key)
      BY <2>4, <3>2, FlMul
    <3>6. Fl(d * inv) * key = key
      BY <2>4, <3>1
    <3> QED BY <2>4, <3>1, <3>3, <3>4, <3>5, <3>6
  <2>9. know.Gamma # 0
    <3> SUFFICES ASSUME know.Gamma = 0 PROVE FALSE
      OBVIOUS
    <3>1. Total(kTilde, Signers) \in Int
      BY <2>5, IntsType DEF Ints
    <3>2. know.Gamma * Total(kTilde, Signers) = 0
      BY <3>1
    <3> QED BY <2>5, <2>7, <3>2, FlField, QAssumption DEF Field
  <2> HIDE DEF delta
  <2>10. /\ stage' = "cggmp20_sign" /\ know'.kTilde = kTilde /\ know'.chiTilde = chiTilde
         /\ know'.tildeDelta = tildeDelta /\ know'.tildeS = tildeS
         /\ key' = key /\ Signers' = Signers
    BY <2>1, StepKeeps
  <2>11. know'.Gamma = know.Gamma
    BY <2>1, <2>2, StepKeeps DEF Cggmp20Known, Has
  <2> QED BY <2>5, <2>6, <2>7, <2>8, <2>9, <2>10, <2>11 DEF Cggmp20Equations
<1>4. CASE Cggmp20Combine
  BY <1>4 DEF Cggmp20Combine, Return
<1> QED BY <1>1, <1>2, <1>3, <1>4 DEF Cggmp20SignNext

\* A partial signature is against its commitment exactly when it is off.
LEMMA Cggmp20NotInVain ==
    ASSUME Session, Cggmp20Known, Cggmp20Equations
    PROVE  Cggmp20Revealed
<1> SUFFICES ASSUME stage = "cggmp20_sign", NEW i \in Signers
             PROVE  Cggmp20Committed(i) <=> Cggmp20Offset("sigma")[i] = 0
  BY DEF Cggmp20Revealed
<1> DEFINE g == know.Gamma
           k == know.kTilde[i]
           x == know.chiTilde[i]
           m == digest
           r == XCoord(know.Gamma)
           e == Cggmp20Offset("sigma")[i]
           kx == k * m + r * x
<1>1. /\ g \in Field /\ g \in Int /\ g # 0 /\ k \in Int /\ x \in Int /\ m \in Int /\ r \in Int
      /\ e \in Int /\ e \in Field
  <2>1. know.Gamma \in Field /\ know.kTilde \in Ints /\ know.chiTilde \in Ints /\ know.Gamma # 0
    BY DEF Cggmp20Known, Cggmp20Equations, Has
  <2>2. e \in Field
    <3>1. bent[i] \in Field /\ Straight[i] = 0 /\ 0 \in Field
      BY QAssumption DEF Session, Straight, Field
    <3> QED BY <3>1 DEF Cggmp20Offset
  <2> HIDE DEF e
  <2> QED BY <2>1, <2>2, XCoordType, ScalarsType, Operands DEF Ints
<1>2. /\ know.tildeDelta[i] = Fl(g * k) /\ know.tildeS[i] = Fl(g * x)
      /\ Cggmp20Committed(i) <=> Fl(g * Fl(k * m + r * x + e)) = Fl(Fl(g * k) * m + Fl(g * x) * r)
  BY DEF Cggmp20Equations, Cggmp20Committed, Cggmp20PartialSign
<1> HIDE DEF g, k, x, m, r, e
<1>3. k * m \in Int /\ r * x \in Int /\ g * k \in Int /\ g * x \in Int /\ g * e \in Int
  BY <1>1
<1>4. (g * k) * m \in Int /\ (g * x) * r \in Int /\ kx \in Int
  BY <1>1, <1>3
<1>5. Fl(Fl(g * k) * m + Fl(g * x) * r) = Fl((g * k) * m + (g * x) * r)
  <2> DEFINE u == Fl(g * k) * m
             v == Fl(g * x) * r
             w == (g * k) * m
             z == (g * x) * r
  <2>1. u \in Int /\ v \in Int
    <3>1. Fl(g * k) \in Int /\ Fl(g * x) \in Int
      BY <1>3, FlInt
    <3> QED BY <1>1, <3>1
  <2>2. Fl(u) = Fl(w) /\ Fl(v) = Fl(z) /\ w \in Int /\ z \in Int
    BY <1>1, <1>3, <1>4, FlMul
  <2> HIDE DEF u, v, w, z
  <2>3. Fl(u + v) = Fl(w + z)
    BY <2>1, <2>2, FlSum
  <2> QED BY <2>3 DEF u, v, w, z
<1>6. Fl(g * Fl(k * m + r * x + e)) = Fl(g * kx + g * e)
  <2>1. kx + e \in Int
    BY <1>1, <1>4
  <2>2. Fl(g * Fl(kx + e)) = Fl(g * (kx + e))
    BY <1>1, <2>1, FlMulRight
  <2> HIDE DEF kx
  <2>3. g * (kx + e) = g * kx + g * e
    BY <1>1, <1>4
  <2> QED BY <2>2, <2>3 DEF kx
<1>7. (g * k) * m + (g * x) * r = g * kx
  <2>1. g * kx = g * (k * m) + g * (r * x)
    BY <1>1, <1>3
  <2>2. (g * k) * m = g * (k * m) /\ (g * x) * r = g * (r * x)
    BY <1>1
  <2> HIDE DEF kx
  <2> QED BY <2>1, <2>2
<1> HIDE DEF kx
<1>8. g * kx \in Int
  BY <1>1, <1>4
<1>9. Fl(g * kx + g * e) = Fl(g * kx) <=> Fl(g * e) = 0
  BY <1>3, <1>8, FlAddsNothing
<1>10. Fl(g * e) = 0 <=> e = 0
  <2>1. ASSUME Fl(g * e) = 0 PROVE e = 0
    <3>1. Fl(g) # 0
      BY <1>1, FlField
    <3>2. Fl(e) = 0
      BY <1>1, <2>1, <3>1, FlIntegral
    <3> QED BY <1>1, <3>2, FlField
  <2>2. ASSUME e = 0 PROVE Fl(g * e) = 0
    <3>1. g * e = 0
      BY <1>1, <2>2
    <3> QED BY <3>1, FlField, QAssumption DEF Field
  <2> QED BY <2>1, <2>2
<1> QED BY <1>2, <1>5, <1>6, <1>7, <1>9, <1>10 DEF e

\* A presignature fits the nonce and the key.
LEMMA Cggmp20PresignatureFits ==
    ASSUME Session, Cggmp20Known, Cggmp20Equations
    PROVE  Cggmp20Fits
<1> SUFFICES ASSUME stage = "cggmp20_sign"
             PROVE  /\ Fl(Total(know.kTilde, Signers) * know.Gamma) = 1
                    /\ Total(know.chiTilde, Signers) = Fl(Total(know.kTilde, Signers) * key)
  BY DEF Cggmp20Fits
<1> DEFINE g == know.Gamma
           k == Total(know.kTilde, Signers)
           x == Total(know.chiTilde, Signers)
<1>1. /\ g \in Int /\ g \in Field /\ g # 0 /\ k \in Int /\ x \in Int /\ x \in Field
      /\ key \in Int /\ key \in Field
  <2>1. know.Gamma \in Field /\ know.kTilde \in Ints /\ know.chiTilde \in Ints /\ know.Gamma # 0
    BY DEF Cggmp20Known, Cggmp20Equations, Has
  <2> QED BY <2>1, IntsType, ScalarsType DEF Ints, Session
<1>2. Fl(g * k) = 1 /\ Fl(g * x) = key
  BY DEF Cggmp20Equations
<1> HIDE DEF g, k, x
<1>3. k * g = g * k /\ k * key \in Int /\ g * k \in Int
  BY <1>1
<1>4. Fl(g * (k * key)) = key
  <2>1. g * (k * key) = (g * k) * key
    BY <1>1
  <2>2. Fl((g * k) * key) = Fl(Fl(g * k) * key)
    BY <1>1, <1>3, FlMul
  <2>3. Fl(g * k) * key = key
    BY <1>1, <1>2
  <2> QED BY <1>1, <2>1, <2>2, <2>3, FlField
<1>5. Fl(x) = Fl(k * key)
  BY <1>1, <1>2, <1>3, <1>4, FlCancel, FlField
<1>6. x = Fl(k * key)
  BY <1>1, <1>5, FlField
<1> QED BY <1>2, <1>3, <1>6 DEF g, k, x

-----------------------------------------------------------------------------
(* XAL21.                                                                   *)

Xal21Equations ==
    /\ know.x2 = Fl(key + Neg(know.x1))
    /\ stage \in {"xal21_step_3", "xal21_online"} =>
           /\ Fl(know.xp * (know.r1 + know.k2) + know.xp2) = key
           /\ know.R = Fl(know.k1 * (know.r1 + know.k2))
    /\ stage = "xal21_online" => know.r = XCoord(know.R)

LEMMA Xal21EquationsBegin ==
    ASSUME NEW f \in Sharings, key = f[0], Xal21SignBegin(f)
    PROVE  Xal21Equations
  BY DEF Xal21SignBegin, Xal21Equations

\* What the check in the exponent says of the new share of P2.
LEMMA Xal21Reshared ==
    ASSUME NEW p \in Int, NEW x1 \in Int, NEW x2 \in Int, NEW w \in Int, NEW pk \in Field,
           x2 = Fl(pk + Neg(x1)), Fl(w) = Fl(p + Neg(x1))
    PROVE  Fl(p + Fl(x2 + Neg(Fl(w)))) = pk
<1> DEFINE o == Fl(w)
<1>1. o \in Int /\ pk \in Int /\ Fl(o) = Fl(w) /\ Fl(pk) = pk
  BY FlInt, FlField, ScalarsType
<1>2. Fl(o) = Fl(p - x1) /\ p - x1 \in Int
  BY <1>1, FlNeg
<1>3. x2 = Fl(pk - x1) /\ pk - x1 \in Int
  BY <1>1, FlNeg
<1>4. Fl(x2) = Fl(pk - x1)
  BY <1>3, FlInt, FlField
<1> HIDE DEF o
<1>5. Fl(x2 + Neg(o)) = Fl(x2 - o) /\ x2 - o \in Int
  <2>1. o \in Int /\ x2 \in Int
    BY <1>1
  <2>2. \A y \in Int, z \in Int : Fl(z + Neg(y)) = Fl(z - y)
    BY FlNeg
  <2>3. x2 - o \in Int
    BY <2>1
  <2> QED BY <2>1, <2>2, <2>3
<1>6. Fl(p + Fl(x2 - o)) = Fl(p + (x2 - o))
  BY <1>5, FlAddRight
<1> DEFINE d == p - x1
           v == p + x2
           u == pk - x1
<1>7. d \in Int /\ v \in Int /\ u \in Int /\ Fl(o) = Fl(d) /\ Fl(x2) = Fl(u) /\ p + (x2 - o) = v - o
  BY <1>1, <1>2, <1>3, <1>4
<1>8. v - d = x2 + x1 /\ u + x1 = pk
  BY <1>1
<1> HIDE DEF d, v, u
<1>9. Fl(v - o) = Fl(v - d)
  BY <1>1, <1>7, FlMinus
<1>10. Fl(x2 + x1) = Fl(u + x1)
  BY <1>7, FlShift
<1> QED BY <1>1, <1>5, <1>6, <1>7, <1>8, <1>9, <1>10 DEF o

LEMMA Xal21EquationsStep ==
    ASSUME Session, Xal21Known, Xal21Equations, Xal21SignNext, Cardinality(Signers) >= 2,
           stage' # "ended"
    PROVE  Xal21Equations'
<1>1. CASE Xal21Reshare
  <2>1. PICK xp \in Scalars, r1 \in Scalars, mask \in {m \in Masks : m < Q * Q} :
          Step("xal21_step_1", "xal21_step_2",
               [xp |-> xp, r1 |-> r1, mask |-> mask,
                cc |-> Fl(MtaReceiverShare(mask) + xp * r1 + Neg(know.x1) + bent[P1])])
    BY <1>1 DEF Xal21Reshare
  <2> DEFINE cc == Fl(MtaReceiverShare(mask) + xp * r1 + Neg(know.x1) + bent[P1])
  <2>2. Step("xal21_step_1", "xal21_step_2", [xp |-> xp, r1 |-> r1, mask |-> mask, cc |-> cc])
    BY <2>1
  <2> HIDE DEF cc
  <2>3. /\ stage' = "xal21_step_2" /\ key' = key
        /\ know'.x1 = know.x1 /\ know'.x2 = know.x2
    BY <2>2, StepKeeps DEF Xal21Known, Has
  <2> QED BY <2>3 DEF Xal21Equations
<1>2. CASE Xal21Decommit
  <2>1. PICK k1 \in Scalars :
          /\ Xal21ReshareHolds
          /\ Step("xal21_step_2", "xal21_step_3",
                  [k1 |-> k1,
                   xp2 |-> Fl(know.x2 + Neg(Fl(Xal21TB + know.cc))),
                   R |-> Fl(k1 * (know.r1 + know.k2))])
    BY <1>2 DEF Xal21Decommit, Return
  <2> DEFINE xp2 == Fl(know.x2 + Neg(Fl(Xal21TB + know.cc)))
             R == Fl(k1 * (know.r1 + know.k2))
  <2>2. Step("xal21_step_2", "xal21_step_3", [k1 |-> k1, xp2 |-> xp2, R |-> R])
    BY <2>1
  <2>3. stage = "xal21_step_2"
    BY <2>2 DEF Step
  <2>4. /\ know.x1 \in Int /\ know.x2 \in Int /\ know.xp \in Int /\ know.r1 \in Int
        /\ know.k2 \in Int /\ know.cc \in Int
    BY <2>3, DrawnInts DEF Xal21Known, Has
  <2> DEFINE p == know.xp * (know.r1 + know.k2)
             w == Xal21TB + know.cc
  <2>5. p \in Int /\ p = (know.r1 + know.k2) * know.xp
    BY <2>4
  <2>6. w \in Int
    <3>1. know.mask \in Int
      BY <2>3 DEF Xal21Known, Has
    <3>2. Xal21TB \in Int
      BY <2>4, <3>1, Xal21TBType
    <3> QED BY <2>4, <3>2
  <2>7. Fl(p + xp2) = key
    <3>1. Fl(w) = Fl(p + Neg(know.x1))
      BY <2>1, <2>5 DEF Xal21ReshareHolds
    <3>2. know.x2 = Fl(key + Neg(know.x1)) /\ key \in Field
      BY DEF Xal21Equations, Session
    <3>3. xp2 = Fl(know.x2 + Neg(Fl(w)))
      OBVIOUS
    <3> HIDE DEF p, w, xp2
    <3> QED BY <2>4, <2>5, <2>6, <3>1, <3>2, <3>3, Xal21Reshared
  <2>8. R = Fl(k1 * (know.r1 + know.k2))
    OBVIOUS
  <2> HIDE DEF xp2, R
  <2>9. /\ stage' = "xal21_step_3" /\ key' = key
        /\ know'.k1 = k1 /\ know'.xp2 = xp2 /\ know'.R = R
    BY <2>2, StepKeeps
  <2>10. /\ know'.x1 = know.x1 /\ know'.x2 = know.x2 /\ know'.xp = know.xp
         /\ know'.r1 = know.r1 /\ know'.k2 = know.k2
    BY <2>2, <2>3, StepKeeps DEF Xal21Known, Has
  <2> QED BY <2>7, <2>8, <2>9, <2>10 DEF Xal21Equations
<1>3. CASE Xal21VerifyR
  <2> DEFINE r == XCoord(Fl(know.k1 * know.k2 + know.k1 * know.r1))
  <2>1. Step("xal21_step_3", "xal21_online", [r |-> r])
    BY <1>3 DEF Xal21VerifyR
  <2>2. stage = "xal21_step_3"
    BY <2>1 DEF Step
  <2>3. r = XCoord(know.R)
    <3>1. know.k1 \in Int /\ know.r1 \in Int /\ know.k2 \in Int
      BY <2>2, DrawnInts DEF Xal21Known, Has
    <3>2. know.k1 * know.k2 + know.k1 * know.r1 = know.k1 * (know.r1 + know.k2)
      BY <3>1
    <3> QED BY <2>2, <3>2 DEF Xal21Equations
  <2> HIDE DEF r
  <2>4. stage' = "xal21_online" /\ key' = key /\ know'.r = r
    BY <2>1, StepKeeps
  <2>5. /\ know'.x1 = know.x1 /\ know'.x2 = know.x2 /\ know'.xp = know.xp
        /\ know'.r1 = know.r1 /\ know'.k2 = know.k2 /\ know'.k1 = know.k1
        /\ know'.xp2 = know.xp2 /\ know'.R = know.R
    BY <2>1, <2>2, StepKeeps DEF Xal21Known, Has
  <2> QED BY <2>2, <2>3, <2>4, <2>5 DEF Xal21Equations
<1>4. CASE Xal21Online
  BY <1>4 DEF Xal21Online, Return
<1> QED BY <1>1, <1>2, <1>3, <1>4 DEF Xal21SignNext

LEMMA Xal21PresignatureFits ==
    ASSUME Session, Xal21Known, Xal21Equations
    PROVE  Xal21Fits
  BY DEF Xal21Equations, Xal21Fits

-----------------------------------------------------------------------------
(* KGG24.                                                                   *)

Kgg24Equations == Kgg24Fits

LEMMA Kgg24EquationsBegin ==
    ASSUME NEW f \in Sharings, key = f[0], Kgg24SignBegin(f)
    PROVE  Kgg24Equations
  BY DEF Kgg24SignBegin, Kgg24Equations, Kgg24Fits

LEMMA Kgg24EquationsStep ==
    ASSUME Session, Kgg24Known, Kgg24Equations, Kgg24SignNext, stage' # "ended"
    PROVE  Kgg24Equations'
<1>1. CASE Kgg24Refresh1
  BY <1>1 DEF Kgg24Refresh1, Step, Kgg24Equations, Kgg24Fits
<1>2. CASE Kgg24Refresh2
  <2> DEFINE x2 == Fl(know.x2 + know.r)
  <2>1. /\ Kgg24Encrypts(know.cKey, know.x1) /\ Kgg24KeyKept(x2)
        /\ Step("kgg24_refresh_2", "kgg24_round_1", [x2 |-> x2])
    BY <1>2 DEF Kgg24Refresh2, Return
  <2> HIDE DEF x2
  <2>2. stage = "kgg24_refresh_2" /\ know'.x2 = x2 /\ key' = key
    BY <2>1, StepKeeps
  <2>3. know'.x1 = know.x1 /\ know'.cKey = know.cKey
    BY <2>1, <2>2, StepKeeps DEF Kgg24Known, Has
  <2> QED BY <2>1, <2>2, <2>3 DEF Kgg24Equations, Kgg24Fits, Kgg24KeyKept, Kgg24Encrypts
<1>3. CASE Kgg24Nonces
  BY <1>3 DEF Kgg24Nonces, Step, Kgg24Equations, Kgg24Fits
<1>4. CASE Kgg24SendPartial
  BY <1>4 DEF Kgg24SendPartial, Step, Kgg24Equations, Kgg24Fits
<1>5. CASE Kgg24Finish
  BY <1>5 DEF Kgg24Finish, Return
<1> QED BY <1>1, <1>2, <1>3, <1>4, <1>5 DEF Kgg24SignNext

-----------------------------------------------------------------------------
(* LN18.                                                                    *)

LEMMA Ln18NotInVain ==
    ASSUME Session, Ln18Known
    PROVE  Ln18Revealed
  BY DEF Ln18Known, Ln18Revealed

LEMMA Ln18PresignatureFits ==
    ASSUME Session, Ln18Known
    PROVE  Ln18Fits
  BY DEF Ln18Known, Ln18Fits, Has

-----------------------------------------------------------------------------
(* WMC24.                                                                   *)

Wmc24Weighted == [i \in Signers |-> Fl(Lagrange(Signers, i) * know.share[i])]

Wmc24Equations ==
    /\ Total(Wmc24Weighted, Signers) = key
    /\ stage # "wmc24_presign_1" => know.kBar \in Field
    /\ stage \in {"wmc24_presign_3", "wmc24_sign"} =>
           /\ know.xkBar = Fl(know.kBar * key)
           /\ know.gkBar = Fl(know.kBar * know.Gamma)
    /\ stage = "wmc24_sign" => Fl(know.R * know.kBar) = 1

LEMMA Wmc24EquationsBegin ==
    ASSUME NEW f \in Sharings, key = f[0], Wmc24SignBegin(f)
    PROVE  Wmc24Equations
<1> DEFINE w == [i \in Signers |-> Fl(Lagrange(Signers, i) * Eval(f, i))]
<1>1. Total(w, Signers) = key
  BY WeightedShares
<1>2. know.share = [i \in Signers |-> Eval(f, i)] /\ stage = "wmc24_presign_1"
  BY DEF Wmc24SignBegin
<1>3. Wmc24Weighted = w
  BY <1>2 DEF Wmc24Weighted
<1> HIDE DEF w
<1> QED BY <1>1, <1>2, <1>3 DEF Wmc24Equations

LEMMA Wmc24WeightedType ==
    ASSUME know.share \in Ints
    PROVE  \A i \in Signers : /\ Wmc24Weighted[i] \in Int
                              /\ Wmc24Weighted[i] = Fl(Lagrange(Signers, i) * know.share[i])
<1> SUFFICES ASSUME NEW i \in Signers
             PROVE  Fl(Lagrange(Signers, i) * know.share[i]) \in Int
  BY DEF Wmc24Weighted
<1>1. Lagrange(Signers, i) \in Int /\ know.share[i] \in Int
  BY LagrangeInt DEF Ints
<1>2. Lagrange(Signers, i) * know.share[i] \in Int
  BY <1>1
<1> QED BY <1>2, FlInt

LEMMA Wmc24EquationsStep ==
    ASSUME Session, Wmc24Known, Wmc24Equations, Wmc24SignNext, stage' # "ended"
    PROVE  Wmc24Equations'
<1>1. CASE Wmc24Scale
  <2> DEFINE k == Total(know.k, Signers)
             xk == [i \in Signers |-> Fl(Fl(Lagrange(Signers, i) * know.share[i]) * k + Off(i, "xk"))]
  <2>1. PICK gamma \in [Signers -> Scalars] :
           Step("wmc24_presign_1", "wmc24_presign_2",
                [kBar |-> k, gamma |-> gamma, xk |-> xk,
                 gk |-> [i \in Signers |-> Fl(gamma[i] * k + Off(i, "gk"))]])
    BY <1>1 DEF Wmc24Scale
  <2> DEFINE gk == [i \in Signers |-> Fl(gamma[i] * k + Off(i, "gk"))]
  <2>2. Step("wmc24_presign_1", "wmc24_presign_2", [kBar |-> k, gamma |-> gamma, xk |-> xk, gk |-> gk])
    BY <2>1
  <2>3. stage = "wmc24_presign_1"
    BY <2>2 DEF Step
  <2>4. k \in Field
    BY <2>3, IntsType DEF Wmc24Known, Has, Ints
  <2> HIDE DEF k, xk, gk
  <2>5. stage' = "wmc24_presign_2" /\ know'.kBar = k /\ key' = key /\ Signers' = Signers
    BY <2>2, StepKeeps
  <2>6. know'.share = know.share
    BY <2>2, StepKeeps DEF Wmc24Known, Has
  <2>7. Wmc24Weighted' = Wmc24Weighted
    BY <2>5, <2>6 DEF Wmc24Weighted
  <2> QED BY <2>4, <2>5, <2>7 DEF Wmc24Equations
<1>2. CASE Wmc24Join
  <2> DEFINE X == Total(know.xk, Signers)
             d == Total(know.gk, Signers)
             g == Total(know.gamma, Signers)
             k == know.kBar
  <2>1. /\ \A i \in Signers : Wmc24DlClHolds(i) /\ Wmc24ElClHolds(i)
        /\ Step("wmc24_presign_2", "wmc24_presign_3", [xkBar |-> X, gkBar |-> d, Gamma |-> g])
    BY <1>2 DEF Wmc24Join, RefuseFaulty, Return
  <2>2. stage = "wmc24_presign_2"
    BY <2>1 DEF Step
  <2>3. /\ know.share \in Ints /\ know.gamma \in Ints /\ know.xk \in Ints /\ know.gk \in Ints
        /\ k \in Field /\ k \in Int
    BY <2>2 DEF Wmc24Known, Has, Wmc24Equations
  <2>4. d = Fl(k * g)
    <3>1. \A i \in Signers : /\ know.gamma[i] \in Int /\ know.gk[i] \in Int
                             /\ Fl(know.gk[i]) = Fl(k * know.gamma[i])
      <4> SUFFICES ASSUME NEW i \in Signers
                   PROVE  /\ know.gamma[i] \in Int /\ know.gk[i] \in Int
                          /\ Fl(know.gk[i]) = Fl(k * know.gamma[i])
        OBVIOUS
      <4>1. know.gamma[i] \in Int /\ know.gk[i] \in Int
        BY <2>3 DEF Ints
      <4> DEFINE gi == know.gamma[i]
      <4>2. know.gk[i] = Fl(gi * k)
        BY <2>1 DEF Wmc24ElClHolds
      <4> HIDE DEF gi, k
      <4>3. gi * k \in Int /\ gi * k = k * gi
        BY <2>3, <4>1 DEF gi
      <4>4. Fl(Fl(gi * k)) = Fl(gi * k)
        BY <4>3, FlInt, FlField
      <4> QED BY <4>1, <4>2, <4>3, <4>4 DEF gi
    <3> HIDE DEF k
    <3> QED BY <2>3, <3>1, SignersType, TotalScale
  <2>5. X = Fl(k * key)
    <3>1. \A i \in Signers : /\ Wmc24Weighted[i] \in Int /\ know.xk[i] \in Int
                             /\ Fl(know.xk[i]) = Fl(k * Wmc24Weighted[i])
      <4> SUFFICES ASSUME NEW i \in Signers
                   PROVE  /\ Wmc24Weighted[i] \in Int /\ know.xk[i] \in Int
                          /\ Fl(know.xk[i]) = Fl(k * Wmc24Weighted[i])
        OBVIOUS
      <4> DEFINE wi == Wmc24Weighted[i]
      <4>1. wi \in Int /\ know.xk[i] \in Int
        BY <2>3, Wmc24WeightedType DEF Ints
      <4>2. know.xk[i] = Fl(wi * k)
        BY <2>1, <2>3, Wmc24WeightedType DEF Wmc24DlClHolds
      <4> HIDE DEF wi, k
      <4>3. wi * k \in Int /\ wi * k = k * wi
        BY <2>3, <4>1
      <4>4. Fl(Fl(wi * k)) = Fl(wi * k)
        BY <4>3, FlInt, FlField
      <4> QED BY <4>1, <4>2, <4>3, <4>4 DEF wi
    <3> HIDE DEF k
    <3>2. X = Fl(k * Total(Wmc24Weighted, Signers))
      BY <2>3, <3>1, SignersType, TotalScale
    <3> QED BY <3>2 DEF Wmc24Equations
  <2> HIDE DEF X, d, g
  <2>6. /\ stage' = "wmc24_presign_3" /\ know'.xkBar = X /\ know'.gkBar = d /\ know'.Gamma = g
        /\ key' = key /\ Signers' = Signers
    BY <2>1, StepKeeps
  <2>7. know'.share = know.share /\ know'.kBar = know.kBar
    BY <2>1, <2>2, StepKeeps DEF Wmc24Known, Has
  <2>8. Wmc24Weighted' = Wmc24Weighted
    BY <2>6, <2>7 DEF Wmc24Weighted
  <2> QED BY <2>2, <2>3, <2>4, <2>5, <2>6, <2>7, <2>8 DEF Wmc24Equations
<1>3. CASE Wmc24Presign
  <2> DEFINE R == Fl(know.Gamma * Inv(know.gkBar))
  <2>1. know.gkBar # 0 /\ Step("wmc24_presign_3", "wmc24_sign", [R |-> R])
    BY <1>3 DEF Wmc24Presign, RefuseFaulty, Return
  <2>2. stage = "wmc24_presign_3"
    BY <2>1 DEF Step
  <2>3. /\ know.gkBar \in Field /\ know.Gamma \in Field /\ know.kBar \in Field
        /\ know.gkBar = Fl(know.kBar * know.Gamma)
    BY <2>2 DEF Wmc24Known, Has, Wmc24Equations
  <2>4. R = Fl(Inv(know.gkBar) * know.Gamma)
    <3>1. know.Gamma \in Int /\ Inv(know.gkBar) \in Int
      BY <2>1, <2>3, InvInt, ScalarsType
    <3>2. know.Gamma * Inv(know.gkBar) = Inv(know.gkBar) * know.Gamma
      BY <3>1
    <3> QED BY <3>2
  <2> HIDE DEF R
  <2>5. Fl(R * know.kBar) = 1
    BY <2>1, <2>3, <2>4, InverseOver
  <2>6. stage' = "wmc24_sign" /\ know'.R = R /\ key' = key /\ Signers' = Signers
    BY <2>1, StepKeeps
  <2>7. /\ know'.share = know.share /\ know'.kBar = know.kBar /\ know'.xkBar = know.xkBar
        /\ know'.gkBar = know.gkBar /\ know'.Gamma = know.Gamma
    BY <2>1, <2>2, StepKeeps DEF Wmc24Known, Has
  <2>8. Wmc24Weighted' = Wmc24Weighted
    BY <2>6, <2>7 DEF Wmc24Weighted
  <2> QED BY <2>2, <2>5, <2>6, <2>7, <2>8 DEF Wmc24Equations
<1>4. CASE Wmc24Finish
  BY <1>4 DEF Wmc24Finish, RefuseFaulty, Return
<1> QED BY <1>1, <1>2, <1>3, <1>4 DEF Wmc24SignNext

LEMMA Wmc24PresignatureFits ==
    ASSUME Session, Wmc24Known, Wmc24Equations
    PROVE  Wmc24Fits
<1> SUFFICES ASSUME stage = "wmc24_sign"
             PROVE  Fl(know.kBar * know.R) = 1 /\ know.xkBar = Fl(know.kBar * key)
  BY DEF Wmc24Fits
<1>1. know.kBar \in Int /\ know.R \in Int
  BY ScalarsType DEF Wmc24Known, Has
<1>2. know.kBar * know.R = know.R * know.kBar
  BY <1>1
<1> QED BY <1>2 DEF Wmc24Equations

-----------------------------------------------------------------------------
(* WMY23.                                                                   *)

Wmy23Equations ==
    /\ Total(know.x, Signers) = key
    /\ Wmy23Nonce \in Field
    /\ stage # "wmy23_presign_1" => Total(know.k, Signers) = Wmy23Nonce
    /\ stage \in {"wmy23_presign_5", "wmy23_sign"} =>
           /\ know.Gamma = know.gamma
           /\ Total(know.D, Signers) = Fl(Wmy23Nonce * Total(know.gamma, Signers))
           /\ Total(know.sigma, Signers) = Fl(Wmy23Nonce * key)
    /\ stage = "wmy23_sign" => Fl(know.R * Wmy23Nonce) = 1

LEMMA Wmy23EquationsBegin ==
    ASSUME NEW f \in Sharings, key = f[0], Wmy23SignBegin(f)
    PROVE  Wmy23Equations
<1> DEFINE w == [i \in Signers |-> Fl(Lagrange(Signers, i) * Eval(f, i))]
<1>1. Total(w, Signers) = key
  BY WeightedShares
<1>2. know.x = w /\ stage = "wmy23_presign_1"
  BY DEF Wmy23SignBegin
<1> HIDE DEF w
<1>3. know.kPoly \in [Signers -> Polynomials(T)]
  BY <1>2, Wmy23Begins DEF Wmy23Known, Has
<1>4. Wmy23Nonce \in Field
  <2>1. ASSUME NEW i \in Signers PROVE know.kPoly[i][0] \in Int
    <3>1. know.kPoly[i] \in Polynomials(T) /\ 0 \in 0 .. T - 1
      BY <1>3, SigningAssumption
    <3>2. know.kPoly[i][0] \in Field
      BY <3>1 DEF Polynomials
    <3> QED BY <3>2, ScalarsType
  <2> DEFINE s == [i \in Signers |-> know.kPoly[i][0]]
  <2>2. \A i \in Signers : s[i] \in Int
    BY <2>1
  <2> HIDE DEF s
  <2>3. Total(s, Signers) \in Field
    BY <2>2, IntsType
  <2> QED BY <2>3 DEF s, Wmy23Nonce, Secret
<1> QED BY <1>1, <1>2, <1>4 DEF Wmy23Equations

\* The shares that MtA leaves add up to the product.
LEMMA Wmy23Products ==
    ASSUME know.k \in Ints, NEW b \in Ints, NEW masks \in PairInts
    PROVE  Total([i \in Signers |-> Wmy23ShareOf(i, b, masks)], Signers)
             = Fl(Total(know.k, Signers) * Total(b, Signers))
<1> DEFINE plain == [p \in Pairs |-> Wmy23Alpha(p[1], p[2], b, masks)]
           kept == [p \in Pairs |-> masks[<<p[2], p[1]>>]]
           h == [i \in Signers |-> [j \in Others(i) |-> Wmy23Alpha(i, j, b, masks) + masks[<<i, j>>]]]
           g == [i \in Signers |-> Wmy23ShareOf(i, b, masks)]
<1>1. ASSUME NEW p \in Pairs
      PROVE  /\ plain[p] \in Int /\ kept[p] \in Int
             /\ Fl(plain[p] + kept[p]) = Fl(know.k[p[1]] * b[p[2]])
  <2> DEFINE u == know.k[p[1]] * b[p[2]]
             m == masks[<<p[2], p[1]>>]
             e == u - m
  <2>1. p[1] \in Signers /\ p[2] \in Signers /\ <<p[2], p[1]>> \in Pairs
    BY PairsType
  <2>2. m \in Int /\ u \in Int
    <3>1. know.k[p[1]] \in Int /\ b[p[2]] \in Int /\ m \in Int
      BY <2>1 DEF Ints, PairInts
    <3> QED BY <3>1
  <2>3. plain[p] = Fl(u + Neg(m)) /\ kept[p] = m
    BY <2>1 DEF Wmy23Alpha
  <2> HIDE DEF u, m, plain, kept
  <2>4. e \in Int /\ e + m = u
    BY <2>2
  <2>5. Fl(u + Neg(m)) = Fl(e)
    BY <2>2, FlNeg
  <2> HIDE DEF e
  <2>6. Fl(Fl(e) + m) = Fl(e + m)
    BY <2>2, <2>4, FlAdd
  <2>7. Fl(e) \in Int
    BY <2>4, FlInt
  <2> QED BY <2>2, <2>3, <2>4, <2>5, <2>6, <2>7 DEF u
<1>2. plain \in PairInts /\ kept \in PairInts
  <2>1. plain \in [Pairs -> Int] /\ kept \in [Pairs -> Int]
    BY <1>1
  <2> QED BY <2>1 DEF PairInts
<1>3. \A p \in Pairs : Fl(plain[p] + kept[p]) = Fl(know.k[p[1]] * b[p[2]])
  BY <1>1
<1>4. ASSUME NEW i \in Signers, NEW j \in Others(i)
      PROVE  h[i][j] = plain[<<i, j>>] + kept[<<j, i>>]
  <2>1. <<i, j>> \in Pairs /\ <<j, i>> \in Pairs
    BY OtherPairs
  <2> QED BY <2>1
<1>5. \A i \in Signers : \A j \in Others(i) : h[i][j] = plain[<<i, j>>] + kept[<<j, i>>]
  BY <1>4
<1>6. ASSUME NEW i \in Signers
      PROVE  g[i] \in Int /\ Fl(g[i]) = Fl(know.k[i] * b[i] + SumFunctionOnSet(h[i], Others(i)))
  <2>1. g[i] = Fl(know.k[i] * b[i] + SumFunctionOnSet(h[i], Others(i)))
    BY DEF Wmy23ShareOf
  <2>2. \A j \in Others(i) : h[i][j] \in Int
    <3> SUFFICES ASSUME NEW j \in Others(i) PROVE h[i][j] \in Int
      OBVIOUS
    <3>1. <<i, j>> \in Pairs /\ <<j, i>> \in Pairs
      BY OtherPairs
    <3>2. plain[<<i, j>>] \in Int /\ kept[<<j, i>>] \in Int
      BY <1>1, <3>1
    <3>3. h[i][j] = plain[<<i, j>>] + kept[<<j, i>>]
      BY <1>5
    <3> HIDE DEF plain, kept, h
    <3> QED BY <3>2, <3>3
  <2> HIDE DEF h, g
  <2>3. SumFunctionOnSet(h[i], Others(i)) \in Int
    BY <2>2, OthersSum
  <2>4. know.k[i] * b[i] \in Int
    <3>1. know.k[i] \in Int /\ b[i] \in Int
      BY DEF Ints
    <3> QED BY <3>1
  <2>5. know.k[i] * b[i] + SumFunctionOnSet(h[i], Others(i)) \in Int
    BY <2>3, <2>4
  <2> QED BY <2>1, <2>5, FlInt, FlField
<1>7. g \in Ints
  <2>1. g \in [Signers -> Int]
    BY <1>6
  <2> QED BY <2>1 DEF Ints
<1> HIDE DEF plain, kept, h
<1>8. Total(g, Signers) = Fl(Total(know.k, Signers) * Total(b, Signers))
  <2>1. \A i \in Signers : Fl(g[i]) = Fl(know.k[i] * b[i] + SumFunctionOnSet(h[i], Others(i)))
    BY <1>6
  <2>2. ProductShared(know.k, b, plain, kept, h, g)
    BY <1>2, <1>3, <1>5, <1>7, <2>1 DEF ProductShared
  <2> QED BY <2>2, ProductShares
<1> QED BY <1>8

LEMMA Wmy23EquationsStep ==
    ASSUME Session, Wmy23Known, Wmy23Equations, Wmy23SignNext, stage' # "ended"
    PROVE  Wmy23Equations'
<1>1. CASE Wmy23Combine
  <2> DEFINE k == Wmy23Additive(Wmy23Shared(know.kPoly))
             gamma == Wmy23Additive(Wmy23Shared(know.gammaPoly))
             Gamma == [i \in Signers |-> Fl(gamma[i] + Off(i, "gamma"))]
  <2>1. Step("wmy23_presign_1", "wmy23_presign_3", [k |-> k, gamma |-> gamma, Gamma |-> Gamma])
    BY <1>1 DEF Wmy23Combine, RefuseVictim, Return
  <2>2. stage = "wmy23_presign_1" /\ know.kPoly \in [Signers -> Polynomials(T)]
    BY <2>1 DEF Step, Wmy23Known, Has
  <2>3. Total(k, Signers) = Wmy23Nonce
    <3>1. k = [i \in Signers |-> Fl(Lagrange(Positions, Position(i)) * Dealers(know.kPoly, Position(i)))]
      BY DEF Wmy23Additive, Wmy23Shared
    <3> HIDE DEF k
    <3> QED BY <2>2, <3>1, PositionedShares DEF Wmy23Nonce
  <2> HIDE DEF k, gamma, Gamma
  <2>4. stage' = "wmy23_presign_3" /\ know'.k = k /\ key' = key /\ Signers' = Signers
    BY <2>1, StepKeeps
  <2>5. know'.x = know.x /\ know'.kPoly = know.kPoly
    BY <2>1, StepKeeps DEF Wmy23Known, Has
  <2>6. Wmy23Nonce' = Wmy23Nonce
    BY <2>4, <2>5 DEF Wmy23Nonce, Secret
  <2> QED BY <2>3, <2>4, <2>5, <2>6 DEF Wmy23Equations
<1>2. CASE Wmy23Answer
  <2>1. PICK beta \in [Pairs -> Scalars], mask \in Scalars :
          Step("wmy23_presign_3", "wmy23_presign_4", [beta |-> beta, nu |-> [p \in Pairs |-> mask]])
    BY <1>2 DEF Wmy23Answer
  <2> DEFINE nu == [p \in Pairs |-> mask]
  <2>2. Step("wmy23_presign_3", "wmy23_presign_4", [beta |-> beta, nu |-> nu])
    BY <2>1
  <2> HIDE DEF nu
  <2>3. stage = "wmy23_presign_3" /\ stage' = "wmy23_presign_4" /\ key' = key /\ Signers' = Signers
    BY <2>2, StepKeeps
  <2>4. know'.x = know.x /\ know'.kPoly = know.kPoly /\ know'.k = know.k
    BY <2>2, <2>3, StepKeeps DEF Wmy23Known, Has
  <2>5. Wmy23Nonce' = Wmy23Nonce
    BY <2>3, <2>4 DEF Wmy23Nonce, Secret
  <2> QED BY <2>3, <2>4, <2>5 DEF Wmy23Equations
<1>3. CASE Wmy23Reveal
  <2> DEFINE delta == [i \in Signers |-> Fl(Wmy23ShareOf(i, know.gamma, know.beta) + Off(i, "delta"))]
             sigma == [i \in Signers |-> Wmy23ShareOf(i, know.x, know.nu)]
             D == [i \in Signers |-> Fl(Total(know.gamma, Signers) * know.k[i])]
  <2>1. know.Gamma = know.gamma
        /\ Step("wmy23_presign_4", "wmy23_presign_5", [delta |-> delta, sigma |-> sigma, D |-> D])
    BY <1>3 DEF Wmy23Reveal, RefuseFaulty, RefuseVictim, Return
  <2>2. stage = "wmy23_presign_4"
    BY <2>1 DEF Step
  <2>3. /\ know.k \in Ints /\ know.gamma \in Ints /\ know.x \in Ints /\ know.nu \in PairInts
        /\ Total(know.k, Signers) = Wmy23Nonce
    BY <2>2 DEF Wmy23Known, Has, Wmy23Equations
  <2>4. Total(sigma, Signers) = Fl(Wmy23Nonce * key)
    <3>1. Total(sigma, Signers) = Fl(Total(know.k, Signers) * Total(know.x, Signers))
      BY <2>3, Wmy23Products
    <3> QED BY <2>3, <3>1 DEF Wmy23Equations
  <2>5. Total(D, Signers) = Fl(Wmy23Nonce * Total(know.gamma, Signers))
    <3> DEFINE g == Total(know.gamma, Signers)
               k == know.k
    <3>1. g \in Int /\ \A i \in Signers : k[i] \in Int
      BY <2>3, IntsType DEF Ints
    <3>2. ASSUME NEW i \in Signers PROVE D[i] \in Int /\ Fl(D[i]) = Fl(g * k[i])
      <4> HIDE DEF g, k
      <4>1. D[i] = Fl(g * k[i]) /\ g * k[i] \in Int
        BY <3>1 DEF g, k
      <4> HIDE DEF D
      <4> QED BY <4>1, FlInt, FlField
    <3>3. Total(k, Signers) = Wmy23Nonce /\ Total(k, Signers) \in Int
      BY <2>3, IntsType DEF Ints
    <3>4. g * Wmy23Nonce = Wmy23Nonce * g
      BY <3>1, <3>3
    <3> HIDE DEF g, k, D
    <3>5. \A i \in Signers : k[i] \in Int /\ D[i] \in Int /\ Fl(D[i]) = Fl(g * k[i])
      BY <3>1, <3>2
    <3>6. Total(D, Signers) = Fl(g * Total(k, Signers))
      BY <3>1, <3>5, SignersType, TotalScale
    <3> QED BY <3>3, <3>4, <3>6 DEF g
  <2> HIDE DEF delta, sigma, D
  <2>6. stage' = "wmy23_presign_5" /\ know'.sigma = sigma /\ know'.D = D /\ key' = key /\ Signers' = Signers
    BY <2>1, StepKeeps
  <2>7. /\ know'.x = know.x /\ know'.kPoly = know.kPoly /\ know'.k = know.k
        /\ know'.gamma = know.gamma /\ know'.Gamma = know.Gamma
    BY <2>1, <2>2, StepKeeps DEF Wmy23Known, Has
  <2>8. Wmy23Nonce' = Wmy23Nonce
    BY <2>6, <2>7 DEF Wmy23Nonce, Secret
  <2> QED BY <2>1, <2>2, <2>4, <2>5, <2>6, <2>7, <2>8 DEF Wmy23Equations
<1>4. CASE Wmy23Presign
  <2> DEFINE R == Fl(Total(know.Gamma, Signers) * Inv(Wmy23Delta))
  <2>1. /\ Wmy23Delta = Total(know.D, Signers) /\ Wmy23Delta # 0
        /\ Step("wmy23_presign_5", "wmy23_sign", [R |-> R])
    BY <1>4 DEF Wmy23Presign, RefuseFaulty, Return
  <2>2. stage = "wmy23_presign_5"
    BY <2>1 DEF Step
  <2> DEFINE g == Total(know.gamma, Signers)
             d == Wmy23Delta
  <2>3. /\ d \in Field /\ d # 0 /\ g \in Field /\ Wmy23Nonce \in Field
        /\ d = Fl(Wmy23Nonce * g) /\ R = Fl(g * Inv(d))
    <3>1. know.D \in Ints /\ know.gamma \in Ints
      BY <2>2 DEF Wmy23Known, Has
    <3> QED BY <2>1, <2>2, <3>1, IntsType DEF Wmy23Equations, Ints
  <2> HIDE DEF R, g, d
  <2>4. R = Fl(Inv(d) * g)
    <3>1. g \in Int /\ Inv(d) \in Int
      BY <2>3, InvInt, ScalarsType
    <3>2. g * Inv(d) = Inv(d) * g
      BY <3>1
    <3> QED BY <2>3, <3>2
  <2>5. Fl(R * Wmy23Nonce) = 1
    BY <2>3, <2>4, InverseOver
  <2>6. stage' = "wmy23_sign" /\ know'.R = R /\ key' = key /\ Signers' = Signers
    BY <2>1, StepKeeps
  <2>7. /\ know'.x = know.x /\ know'.kPoly = know.kPoly /\ know'.k = know.k
        /\ know'.gamma = know.gamma /\ know'.Gamma = know.Gamma
        /\ know'.D = know.D /\ know'.sigma = know.sigma
    BY <2>1, <2>2, StepKeeps DEF Wmy23Known, Has
  <2>8. Wmy23Nonce' = Wmy23Nonce
    BY <2>6, <2>7 DEF Wmy23Nonce, Secret
  <2> QED BY <2>2, <2>5, <2>6, <2>7, <2>8 DEF Wmy23Equations
<1>5. CASE Wmy23Finish
  BY <1>5 DEF Wmy23Finish, RefuseFaulty, Return
<1> QED BY <1>1, <1>2, <1>3, <1>4, <1>5 DEF Wmy23SignNext

LEMMA Wmy23PresignatureFits ==
    ASSUME Session, Wmy23Known, Wmy23Equations
    PROVE  Wmy23Fits
<1> SUFFICES ASSUME stage = "wmy23_sign"
             PROVE  /\ Total(know.k, Signers) = Wmy23Nonce
                    /\ Fl(Wmy23Nonce * know.R) = 1
                    /\ Total(know.sigma, Signers) = Fl(Wmy23Nonce * key)
  BY DEF Wmy23Fits
<1>1. Wmy23Nonce \in Int /\ know.R \in Int
  BY ScalarsType DEF Wmy23Known, Has, Wmy23Equations
<1>2. Wmy23Nonce * know.R = know.R * Wmy23Nonce
  BY <1>1
<1> QED BY <1>2 DEF Wmy23Equations

-----------------------------------------------------------------------------
(* TX25.                                                                    *)

Tx25Equations == Reconstruct(know.x, Signers) = key /\ Tx25Fits

LEMMA Tx25EquationsBegin ==
    ASSUME NEW f \in Sharings, key = f[0], Tx25SignBegin(f)
    PROVE  Tx25Equations
<1> DEFINE x == [i \in Signers |-> Eval(f, i)]
<1>1. know.x = x /\ stage = "tx25_presign_1"
  BY DEF Tx25SignBegin
<1>2. f \in Polynomials(T) /\ T \in 1 .. Cardinality(Signers)
  BY SigningAssumption, SignersType
<1>3. \A i \in Signers : x[i] = Eval(f, i)
  OBVIOUS
<1> HIDE DEF x
<1>4. Reconstruct(x, Signers) = f[0]
  BY <1>2, <1>3, SignersType, Interpolation
<1> QED BY <1>1, <1>4 DEF Tx25Equations, Tx25Fits

\* Over any set of signers the masks of a table of products cancel.
LEMMA Tx25MasksCancel ==
    ASSUME know.gamma \in Ints, NEW b \in Ints, NEW mask \in PairInts,
           NEW S \in SUBSET Signers
    PROVE  Tx25Bilinear(Tx25Products(b, mask), S)
             = Fl(Reconstruct(know.gamma, S) * Reconstruct(b, S))
<1> DEFINE L == [i \in Signers |-> IF i \in S THEN Lagrange(S, i) ELSE 0]
           u == [i \in Signers |-> know.gamma[i] * L[i]]
           v == [i \in Signers |-> b[i] * L[i]]
           fst == [p \in Pairs |-> (L[p[1]] * L[p[2]]) * (know.gamma[p[1]] * b[p[2]] + Neg(mask[<<p[2], p[1]>>]))]
           snd == [p \in Pairs |-> (L[p[1]] * L[p[2]]) * mask[<<p[2], p[1]>>]]
           h == [i \in Signers |-> [j \in Others(i) |-> fst[<<i, j>>] + snd[<<j, i>>]]]
           table == Tx25Products(b, mask)
           row == [i \in Signers |-> Reconstruct(table[i], S)]
           g == [i \in Signers |-> row[i] * L[i]]
<1>1. \A i \in Signers : /\ L[i] \in Int /\ know.gamma[i] \in Int /\ b[i] \in Int
                         /\ i \in S => L[i] = Lagrange(S, i)
                         /\ i \notin S => L[i] = 0
  <2>1. S \in SUBSET (1 .. Q - 1) /\ IsFiniteSet(S)
    BY SignersType, FS_Subset
  <2>2. \A i \in S : Lagrange(S, i) \in Int
    BY <2>1, LagrangeType, ScalarsType
  <2> QED BY <2>2 DEF Ints
<1>2. \A i \in Signers : u[i] \in Int /\ v[i] \in Int /\ u[i] = know.gamma[i] * L[i] /\ v[i] = b[i] * L[i]
  <2> HIDE DEF L
  <2> QED BY <1>1
<1>3. ASSUME NEW p \in Pairs
      PROVE  /\ fst[p] \in Int /\ snd[p] \in Int
             /\ Fl(fst[p] + snd[p]) = Fl(u[p[1]] * v[p[2]])
  <2> DEFINE l == L[p[1]] * L[p[2]]
             y == know.gamma[p[1]] * b[p[2]]
             m == mask[<<p[2], p[1]>>]
             n == Neg(m)
  <2>1. p[1] \in Signers /\ p[2] \in Signers /\ <<p[2], p[1]>> \in Pairs
    BY PairsType
  <2>2. l \in Int /\ y \in Int /\ m \in Int
    <3>1. L[p[1]] \in Int /\ L[p[2]] \in Int /\ know.gamma[p[1]] \in Int /\ b[p[2]] \in Int /\ m \in Int
      BY <1>1, <2>1 DEF PairInts
    <3> HIDE DEF L
    <3> QED BY <3>1
  <2>3. fst[p] = l * (y + n) /\ snd[p] = l * m
    BY <2>1
  <2>4. u[p[1]] * v[p[2]] = l * y
    <3>1. /\ L[p[1]] \in Int /\ L[p[2]] \in Int /\ know.gamma[p[1]] \in Int /\ b[p[2]] \in Int
          /\ u[p[1]] = know.gamma[p[1]] * L[p[1]] /\ v[p[2]] = b[p[2]] * L[p[2]]
      BY <1>1, <1>2, <2>1
    <3> DEFINE La == L[p[1]]
               Lb == L[p[2]]
               ga == know.gamma[p[1]]
               bb == b[p[2]]
    <3>2. La \in Int /\ Lb \in Int /\ ga \in Int /\ bb \in Int
      BY <3>1
    <3> HIDE DEF La, Lb, ga, bb
    <3>3. (ga * La) * (bb * Lb) = (La * Lb) * (ga * bb)
      BY <3>2
    <3> QED BY <3>1, <3>3 DEF La, Lb, ga, bb
  <2> HIDE DEF l, y, m, fst, snd, u, v
  <2>5. n \in Int /\ Fl((y + n) + m) = Fl(y)
    <3>1. n \in Int
      BY <2>2, FlInt
    <3>2. Fl(y + n) = Fl(y - m)
      BY <2>2, FlNeg
    <3> DEFINE e == y - m
               z == y + n
    <3>3. e \in Int /\ z \in Int /\ e + m = y /\ Fl(z) = Fl(e)
      BY <2>2, <3>1, <3>2
    <3> HIDE DEF e, z
    <3>4. Fl(z + m) = Fl(e + m)
      BY <2>2, <3>3, FlShift
    <3> QED BY <3>1, <3>3, <3>4 DEF z
  <2> HIDE DEF n
  <2>6. l * (y + n) \in Int /\ l * m \in Int /\ l * (y + n) + l * m = l * ((y + n) + m)
    <3> DEFINE z == y + n
    <3>1. z \in Int
      BY <2>2, <2>5
    <3> HIDE DEF z
    <3>2. l * z \in Int /\ l * m \in Int /\ l * z + l * m = l * (z + m)
      BY <2>2, <3>1
    <3> QED BY <3>2 DEF z
  <2>7. Fl(l * ((y + n) + m)) = Fl(l * y)
    <3> DEFINE z == (y + n) + m
    <3>1. z \in Int /\ Fl(z) = Fl(y)
      BY <2>2, <2>5
    <3> HIDE DEF z
    <3>2. Fl(l * z) = Fl(l * y)
      BY <2>2, <3>1, FlScale
    <3> QED BY <3>2 DEF z
  <2> QED BY <2>3, <2>4, <2>6, <2>7
<1>4. fst \in PairInts /\ snd \in PairInts
  <2>1. fst \in [Pairs -> Int] /\ snd \in [Pairs -> Int]
    BY <1>3
  <2> QED BY <2>1 DEF PairInts
<1>5. \A p \in Pairs : Fl(fst[p] + snd[p]) = Fl(u[p[1]] * v[p[2]])
  BY <1>3
<1>6. \A i \in Signers : \A j \in Others(i) : h[i][j] = fst[<<i, j>>] + snd[<<j, i>>]
  OBVIOUS
<1>7. table \in [Signers -> Ints]
  BY Tx25ProductsType
<1>8. \A i \in Signers : row[i] \in Int /\ row[i] = Reconstruct(table[i], S)
  BY <1>7, ReconstructInt DEF Ints
<1>9. ASSUME NEW i \in Signers
      PROVE  /\ g[i] \in Int /\ g[i] = row[i] * L[i]
             /\ Fl(g[i]) = Fl(u[i] * v[i] + SumFunctionOnSet(h[i], Others(i)))
  <2> DEFINE w == [j \in Signers |-> IF i = j THEN u[i] * v[i] ELSE h[i][j]]
             tl == [j \in Signers |-> table[i][j] * L[j]]
  <2>1. g[i] = row[i] * L[i] /\ g[i] \in Int
    <3> HIDE DEF L, row
    <3> QED BY <1>1, <1>8
  <2>2. \A j \in Signers : tl[j] \in Int /\ table[i][j] \in Int /\ tl[j] = table[i][j] * L[j]
    <3>1. \A j \in Signers : table[i][j] \in Int /\ L[j] \in Int
      BY <1>1, <1>7 DEF Ints
    <3> HIDE DEF table, L
    <3> QED BY <3>1
  <2>3. ASSUME NEW j \in Others(i)
        PROVE  h[i][j] \in Int /\ Fl(h[i][j]) = Fl(L[i] * tl[j])
    <3> DEFINE l == L[i] * L[j]
               y == know.gamma[i] * b[j]
               n == Neg(mask[<<j, i>>])
               m == mask[<<i, j>>]
    <3>1. j \in Signers /\ i # j /\ <<i, j>> \in Pairs /\ <<j, i>> \in Pairs
      BY OtherPairs DEF Others
    <3>2. h[i][j] = l * (y + n) + (L[j] * L[i]) * m
      <4>1. h[i][j] = fst[<<i, j>>] + snd[<<j, i>>]
        BY <1>6
      <4>2. fst[<<i, j>>] = l * (y + n) /\ snd[<<j, i>>] = (L[j] * L[i]) * m
        BY <3>1
      <4> HIDE DEF h, fst, snd, l, y, n, m
      <4> QED BY <4>1, <4>2
    <3>3. l \in Int /\ y \in Int /\ n \in Int /\ m \in Int /\ L[j] * L[i] = l /\ L[i] \in Int /\ L[j] \in Int
      <4>1. /\ L[i] \in Int /\ L[j] \in Int /\ know.gamma[i] \in Int /\ b[j] \in Int
            /\ mask[<<j, i>>] \in Int /\ m \in Int
        BY <1>1, <3>1 DEF PairInts
      <4>2. n \in Int
        BY <4>1, FlInt
      <4> HIDE DEF L
      <4> QED BY <4>1, <4>2
    <3>4. table[i][j] = Fl(y + n + m)
      BY <3>1 DEF Tx25Products
    <3>5. tl[j] = table[i][j] * L[j]
      BY <2>2, <3>1
    <3> HIDE DEF l, y, n, m, h, tl, table
    <3> DEFINE z == (y + n) + m
               Li == L[i]
               Lj == L[j]
               t == Fl(z)
    <3>6. z \in Int /\ Li \in Int /\ Lj \in Int /\ table[i][j] = t /\ t \in Int /\ l = Li * Lj
      <4>1. z \in Int /\ table[i][j] = t
        BY <3>3, <3>4
      <4>2. t \in Int
        BY <4>1, FlInt
      <4> QED BY <3>3, <4>1, <4>2 DEF l
    <3>7. h[i][j] = l * z
      <4> DEFINE zn == y + n
      <4>1. zn \in Int /\ h[i][j] = l * zn + l * m
        BY <3>2, <3>3
      <4> HIDE DEF zn
      <4>2. l * zn + l * m = l * (zn + m)
        BY <3>3, <4>1
      <4> QED BY <4>1, <4>2 DEF zn
    <3> HIDE DEF z, Li, Lj, t
    <3>8. L[i] * tl[j] = l * t
      <4>1. Li * (t * Lj) = (Li * Lj) * t
        BY <3>6
      <4> QED BY <3>5, <3>6, <4>1 DEF Li, Lj
    <3>9. Fl(l * t) = Fl(l * z)
      <4>1. \A xx \in Int, yy \in Int : Fl(xx * Fl(yy)) = Fl(xx * yy)
        BY FlMulRight
      <4> QED BY <3>3, <3>6, <4>1 DEF t
    <3>10. l * z \in Int
      BY <3>3, <3>6
    <3> QED BY <3>7, <3>8, <3>9, <3>10
  <2>4. tl[i] = Fl(know.gamma[i] * b[i]) * L[i] /\ Fl(u[i] * v[i]) = Fl(L[i] * tl[i]) /\ u[i] * v[i] \in Int
    <3> DEFINE y == know.gamma[i] * b[i]
               ga == know.gamma[i]
               bb == b[i]
               Li == L[i]
               t == Fl(y)
    <3>1. table[i][i] = t
      BY DEF Tx25Products
    <3>2. tl[i] = t * Li
      BY <2>2, <3>1
    <3>3. ga \in Int /\ bb \in Int /\ Li \in Int /\ u[i] = ga * Li /\ v[i] = bb * Li /\ y = ga * bb
      BY <1>1, <1>2
    <3> HIDE DEF ga, bb, Li, u, v, tl
    <3>4. y \in Int
      BY <3>3
    <3> HIDE DEF y
    <3>5. t \in Int
      BY <3>4, FlInt
    <3>6. u[i] * v[i] \in Int /\ u[i] * v[i] = (Li * Li) * y
      <4>1. (ga * Li) * (bb * Li) = (Li * Li) * (ga * bb) /\ (ga * Li) * (bb * Li) \in Int
        BY <3>3
      <4> QED BY <3>3, <4>1
    <3> HIDE DEF t
    <3>7. Li * tl[i] = (Li * Li) * t
      <4>1. Li * (t * Li) = (Li * Li) * t
        BY <3>3, <3>5
      <4> QED BY <3>2, <4>1
    <3> DEFINE ll == Li * Li
    <3>8. ll \in Int
      BY <3>3
    <3> HIDE DEF ll
    <3>9. Fl(ll * Fl(y)) = Fl(ll * y)
      BY <3>4, <3>8, FlMulRight
    <3> QED BY <3>2, <3>6, <3>7, <3>9 DEF t, ll, y, Li
  <2>5. \A j \in Signers : /\ tl[j] \in Int /\ w[j] \in Int /\ Fl(w[j]) = Fl(L[i] * tl[j])
    <3> SUFFICES ASSUME NEW j \in Signers
                 PROVE  tl[j] \in Int /\ w[j] \in Int /\ Fl(w[j]) = Fl(L[i] * tl[j])
      OBVIOUS
    <3>1. CASE i = j
      <4>1. w[j] = u[i] * v[i]
        BY <3>1
      <4> HIDE DEF w, u, v, tl
      <4> QED BY <2>2, <2>4, <3>1, <4>1
    <3>2. CASE i # j
      <4>1. w[j] = h[i][j] /\ j \in Others(i)
        BY <3>2 DEF Others
      <4> HIDE DEF w, h, tl
      <4> QED BY <2>2, <2>3, <4>1
    <3> QED BY <3>1, <3>2
  <2>6. w[i] = u[i] * v[i] /\ \A j \in Others(i) : w[j] = h[i][j] /\ h[i][j] \in Int
    BY <2>3 DEF Others
  <2>7. Reconstruct(table[i], S) = Total(tl, Signers)
    <3> DEFINE on == [j \in S |-> table[i][j] * Lagrange(S, j)]
    <3>1. Reconstruct(table[i], S) = Total(on, S)
      BY DEF Reconstruct
    <3>2. /\ \A j \in Signers : tl[j] \in Int
          /\ \A j \in S : on[j] = tl[j]
          /\ \A j \in Signers \ S : Fl(tl[j]) = 0
      <4>1. ASSUME NEW j \in Signers \ S PROVE Fl(tl[j]) = 0
        <5>1. tl[j] = table[i][j] * 0 /\ table[i][j] \in Int
          BY <1>1, <2>2
        <5>2. tl[j] = 0 /\ 0 \in Field
          <6> HIDE DEF tl, table
          <6> QED BY <5>1, QAssumption DEF Field
        <5> QED BY <5>2, FlField
      <4> QED BY <1>1, <2>2, <4>1
    <3>3. IsFiniteSet(Signers) /\ S \in SUBSET Signers
      BY SignersType
    <3> HIDE DEF on, tl, L, u, v, w, h, g, row, table
    <3>4. Total(tl, Signers) = Total(on, S)
      BY <3>2, <3>3, TotalWhere
    <3> QED BY <3>1, <3>4
  <2> DEFINE tot == Total(tl, Signers)
             Li == L[i]
  <2>8. row[i] = tot /\ Li \in Int /\ tot \in Int
    BY <1>1, <1>8, <2>7
  <2> HIDE DEF w, tl, h, u, v, row, g, table, L
  <2>9. Total(w, Signers) = Fl(Li * tot)
    <3>1. \A j \in Signers : tl[j] \in Int /\ w[j] \in Int /\ Fl(w[j]) = Fl(Li * tl[j])
      BY <2>5
    <3> HIDE DEF Li
    <3> QED BY <2>8, <3>1, SignersType, TotalScale
  <2>10. Total(w, Signers) = Fl(u[i] * v[i] + SumFunctionOnSet(h[i], Others(i)))
    <3>1. Total(w, Signers) = Fl(w[i] + Total(w, Signers \ {i}))
      BY <2>5, SignersType, TotalStep
    <3>2. Total(h[i], Others(i)) = Total(w, Others(i))
      <4>1. \A j \in Others(i) : w[j] \in Int /\ h[i][j] \in Int /\ Fl(h[i][j]) = Fl(w[j])
        BY <2>6
      <4> QED BY <4>1, OthersType, TotalSame
    <3>3. Total(h[i], Others(i)) = Fl(SumFunctionOnSet(h[i], Others(i)))
          /\ SumFunctionOnSet(h[i], Others(i)) \in Int
      BY <2>6, TotalOthers, OthersSum
    <3> DEFINE uv == u[i] * v[i]
               s == SumFunctionOnSet(h[i], Others(i))
    <3>4. uv \in Int /\ s \in Int /\ w[i] = uv /\ Total(w, Signers \ {i}) = Fl(s)
      BY <2>4, <2>6, <3>2, <3>3 DEF Others
    <3> HIDE DEF uv, s
    <3>5. Fl(uv + Fl(s)) = Fl(uv + s)
      BY <3>4, FlAddRight
    <3> QED BY <3>1, <3>4, <3>5 DEF uv, s
  <2>11. row[i] * Li = Li * tot
    <3> HIDE DEF tot, Li
    <3> QED BY <2>8
  <2> QED BY <2>1, <2>9, <2>10, <2>11 DEF Li
<1>10. u \in Ints /\ v \in Ints /\ g \in Ints
  <2>1. u \in [Signers -> Int] /\ v \in [Signers -> Int] /\ g \in [Signers -> Int]
    BY <1>2, <1>9
  <2> QED BY <2>1 DEF Ints
<1>z. \A i \in Signers \ S : u[i] = 0 /\ v[i] = 0 /\ g[i] = 0
  <2>1. \A i \in Signers \ S : /\ u[i] = know.gamma[i] * 0 /\ v[i] = b[i] * 0 /\ g[i] = row[i] * 0
                             /\ know.gamma[i] \in Int /\ b[i] \in Int /\ row[i] \in Int
    BY <1>1, <1>2, <1>8, <1>9
  <2> HIDE DEF u, v, g, row
  <2> QED BY <2>1
<1>y. \A i \in Signers \ S : Fl(u[i]) = 0 /\ Fl(v[i]) = 0 /\ Fl(g[i]) = 0
  <2>1. Fl(0) = 0
    BY QAssumption, FlField DEF Field
  <2> QED BY <1>z, <2>1
<1>11. Tx25Bilinear(table, S) = Total(g, Signers)
  <2> DEFINE on == [i \in S |-> [j \in S |-> Reconstruct(table[j], S)][i] * Lagrange(S, i)]
  <2>1. Tx25Bilinear(table, S) = Total(on, S)
    BY DEF Tx25Bilinear, Reconstruct
  <2>2. (\A i \in Signers : g[i] \in Int) /\ \A i \in S : on[i] = g[i]
    BY <1>1, <1>8, <1>9
  <2>3. IsFiniteSet(Signers) /\ \A i \in Signers \ S : Fl(g[i]) = 0
    BY <1>y, SignersType
  <2> HIDE DEF on, L, u, v, g, row, table, fst, snd, h
  <2>4. Total(g, Signers) = Total(on, S)
    BY <2>2, <2>3, TotalWhere
  <2> QED BY <2>1, <2>4
<1>12. Reconstruct(know.gamma, S) = Total(u, Signers) /\ Reconstruct(b, S) = Total(v, Signers)
  <2> DEFINE ou == [i \in S |-> know.gamma[i] * Lagrange(S, i)]
             ov == [i \in S |-> b[i] * Lagrange(S, i)]
  <2>1. Reconstruct(know.gamma, S) = Total(ou, S) /\ Reconstruct(b, S) = Total(ov, S)
    BY DEF Reconstruct
  <2>2. /\ \A i \in Signers : u[i] \in Int /\ v[i] \in Int
        /\ \A i \in S : ou[i] = u[i] /\ ov[i] = v[i]
    BY <1>1, <1>2
  <2>0. IsFiniteSet(Signers) /\ \A i \in Signers \ S : Fl(u[i]) = 0 /\ Fl(v[i]) = 0
    BY <1>y, SignersType
  <2> HIDE DEF ou, ov, L, u, v, g, row, table, fst, snd, h
  <2>3. Total(u, Signers) = Total(ou, S)
    BY <2>0, <2>2, TotalWhere
  <2>4. Total(v, Signers) = Total(ov, S)
    BY <2>0, <2>2, TotalWhere
  <2> QED BY <2>1, <2>3, <2>4
<1> HIDE DEF L, u, v, fst, snd, h, table, row, g
<1>13. Total(g, Signers) = Fl(Total(u, Signers) * Total(v, Signers))
  <2>1. \A i \in Signers : Fl(g[i]) = Fl(u[i] * v[i] + SumFunctionOnSet(h[i], Others(i)))
    BY <1>9
  <2>2. ProductShared(u, v, fst, snd, h, g)
    BY <1>4, <1>5, <1>6, <1>10, <2>1 DEF ProductShared
  <2> QED BY <2>2, ProductShares
<1> QED BY <1>11, <1>12, <1>13 DEF table

LEMMA Tx25EquationsStep ==
    ASSUME Session, Tx25Known, Tx25Equations, Tx25SignNext, stage' # "ended"
    PROVE  Tx25Equations'
<1>1. CASE Tx25Combine
  <2> DEFINE k == [i \in Signers |-> Fl(SharesDealt(know.kPoly, i) + Off(i, "nonce") + Off(i, "nonce_and_chi"))]
  <2>1. PICK m1 \in Scalars, m2 \in Blinds :
          Step("tx25_presign_1", "tx25_presign_2",
               [k |-> k, beta |-> [p \in Pairs |-> m1], nu |-> [p \in Pairs |-> m2]])
    BY <1>1 DEF Tx25Combine, RefuseFaulty, Return
  <2> DEFINE beta == [p \in Pairs |-> m1]
             nu == [p \in Pairs |-> m2]
  <2>2. Step("tx25_presign_1", "tx25_presign_2", [k |-> k, beta |-> beta, nu |-> nu])
    BY <2>1
  <2> HIDE DEF k, beta, nu
  <2>3. stage' = "tx25_presign_2" /\ key' = key /\ Signers' = Signers
    BY <2>2, StepKeeps
  <2>4. know'.x = know.x
    BY <2>2, StepKeeps DEF Tx25Known, Has
  <2>5. Reconstruct(know.x, Signers)' = Reconstruct(know.x, Signers)
    BY <2>3, <2>4
  <2> QED BY <2>3, <2>5 DEF Tx25Equations, Tx25Fits
<1>2. CASE Tx25Presign
  <2> DEFINE delta == Tx25Products(know.k, know.beta)
             zeta == Tx25Products(know.x, know.nu)
             R == Reconstruct(know.k, Signers)
  <2>1. Step("tx25_presign_2", "tx25_sign_1", [delta |-> delta, zeta |-> zeta, R |-> R])
    BY <1>2 DEF Tx25Presign, RefuseFaulty, Return
  <2>2. stage = "tx25_presign_2"
    BY <2>1 DEF Step
  <2>3. /\ know.k \in Ints /\ know.x \in Ints /\ know.gamma \in Ints
        /\ know.beta \in PairInts /\ know.nu \in PairInts
    BY <2>2 DEF Tx25Known, Has
  <2> DEFINE gamma == Reconstruct(know.gamma, Signers)
  <2>4. gamma \in Int /\ R \in Int /\ key \in Int
    BY <2>3, ReconstructInt, Operands DEF Ints
  <2>5. Tx25Bilinear(delta, Signers) = Fl(gamma * R)
    BY <2>3, Tx25MasksCancel
  <2>6. Tx25Bilinear(zeta, Signers) = Fl(gamma * key)
    BY <2>3, Tx25MasksCancel DEF Tx25Equations
  <2> HIDE DEF delta, zeta, R
  <2>7. /\ stage' = "tx25_sign_1" /\ key' = key /\ Signers' = Signers
        /\ know'.delta = delta /\ know'.zeta = zeta /\ know'.R = R
    BY <2>1, StepKeeps
  <2>8. know'.x = know.x /\ know'.gamma = know.gamma
    BY <2>1, <2>2, StepKeeps DEF Tx25Known, Has
  <2>9. /\ Tx25Bilinear(know.delta, Signers)' = Tx25Bilinear(delta, Signers)
        /\ Tx25Bilinear(know.zeta, Signers)' = Tx25Bilinear(zeta, Signers)
        /\ Reconstruct(know.gamma, Signers)' = gamma
        /\ Reconstruct(know.x, Signers)' = Reconstruct(know.x, Signers)
    BY <2>7, <2>8 DEF Tx25Bilinear
  <2>10. gamma * R = R * gamma /\ gamma * key = key * gamma
    <3> HIDE DEF gamma
    <3> QED BY <2>4
  <2> QED BY <2>5, <2>6, <2>7, <2>9, <2>10 DEF Tx25Equations, Tx25Fits
<1>3. CASE Tx25Broadcast
  <2> DEFINE delta(slope) == [i \in Signers |-> [j \in Signers |->
              Fl(know.delta[i][j] + Tx25ZeroAt(slope, j) + IF j = Victim(i) THEN Off(i, "delta") ELSE 0)]]
             chi(slope) == [i \in Signers |-> [j \in Signers |->
              Fl(digest * know.gamma[i] + XCoord(know.R) * know.zeta[i][j] + Tx25ZeroAt(slope, j)
                 + IF j = Victim(i) THEN Off(i, "chi") + Off(i, "nonce_and_chi") ELSE 0)]]
  <2>1. PICK slope \in Blinds :
          Step("tx25_sign_1", "tx25_sign_2", [delta |-> delta(slope), chi |-> chi(slope)])
    BY <1>3 DEF Tx25Broadcast
  <2> HIDE DEF delta, chi
  <2>2. stage' = "tx25_sign_2" /\ key' = key /\ Signers' = Signers
    BY <2>1, StepKeeps
  <2>3. know'.x = know.x
    BY <2>1, StepKeeps DEF Tx25Known, Has
  <2>4. Reconstruct(know.x, Signers)' = Reconstruct(know.x, Signers)
    BY <2>2, <2>3
  <2> QED BY <2>2, <2>4 DEF Tx25Equations, Tx25Fits
<1>4. CASE Tx25Assemble
  <2> DEFINE all == Tx25Assembled(Signers)
             honest == Signers \ Tx25Cheaters
             rest == IF honest # Signers /\ Cardinality(honest) >= T THEN Tx25Assembled(honest) ELSE 0
  <2>1. Step("tx25_sign_2", "tx25_sign_3", [all |-> all, rest |-> rest])
    BY <1>4 DEF Tx25Assemble
  <2> HIDE DEF all, rest
  <2>2. stage' = "tx25_sign_3" /\ key' = key /\ Signers' = Signers
    BY <2>1, StepKeeps
  <2>3. know'.x = know.x
    BY <2>1, StepKeeps DEF Tx25Known, Has
  <2>4. Reconstruct(know.x, Signers)' = Reconstruct(know.x, Signers)
    BY <2>2, <2>3
  <2> QED BY <2>2, <2>4 DEF Tx25Equations, Tx25Fits
<1>5. CASE Tx25Finish
  BY <1>5 DEF Tx25Finish, Return
<1> QED BY <1>1, <1>2, <1>3, <1>4, <1>5 DEF Tx25SignNext

-----------------------------------------------------------------------------
(* JTX25.                                                                   *)

Jtx25KeyParts == [i \in Signers |-> Fl(Lagrange(Signers, i) * know.x[i])]
Jtx25NonceParts == [i \in Signers |-> Jtx25Weight(i) * know.k[i]]

Jtx25Equations ==
    /\ Total(Jtx25KeyParts, Signers) = key
    /\ stage # "jtx25_presign_1" => \A i \in Signers : know.phiK[i] = Fl(know.phi * know.k[i])
    /\ stage = "jtx25_sign" =>
           /\ know.R = Total(Jtx25NonceParts, Signers)
           /\ \A i \in Signers : know.phiX[i] = Fl(know.phi * Jtx25KeyParts[i])

LEMMA Jtx25EquationsBegin ==
    ASSUME NEW f \in Sharings, key = f[0], Jtx25SignBegin(f)
    PROVE  Jtx25Equations
<1> DEFINE w == [i \in Signers |-> Fl(Lagrange(Signers, i) * Eval(f, i))]
<1>1. Total(w, Signers) = key
  BY WeightedShares
<1>2. know.x = [i \in Signers |-> Eval(f, i)] /\ stage = "jtx25_presign_1"
  BY DEF Jtx25SignBegin
<1>3. Jtx25KeyParts = w
  BY <1>2 DEF Jtx25KeyParts
<1> HIDE DEF w
<1> QED BY <1>1, <1>2, <1>3 DEF Jtx25Equations

LEMMA Jtx25EquationsStep ==
    ASSUME Session, Jtx25Known, Jtx25Equations, Jtx25SignNext, stage' # "ended"
    PROVE  Jtx25Equations'
<1>1. CASE Jtx25Scale
  <2> DEFINE k == [i \in Signers |-> IF Jtx25SharedNonce THEN Jtx25Combined(i) ELSE know.drawn[i][0]]
             phiK == [i \in Signers |-> Fl(know.phi * k[i])]
             phiX == [i \in Signers |-> Fl(Jtx25Weighted(i) + Off(i, "weighted"))]
  <2>1. Step("jtx25_presign_1", "jtx25_presign_2", [k |-> k, phiK |-> phiK, phiX |-> phiX])
    BY <1>1 DEF Jtx25Scale, RefuseVictim, Return
  <2>2. \A i \in Signers : phiK[i] = Fl(know.phi * k[i])
    OBVIOUS
  <2> HIDE DEF k, phiK, phiX
  <2>3. /\ stage' = "jtx25_presign_2" /\ key' = key /\ Signers' = Signers
        /\ know'.k = k /\ know'.phiK = phiK
    BY <2>1, StepKeeps
  <2>4. know'.x = know.x /\ know'.phi = know.phi
    BY <2>1, StepKeeps DEF Jtx25Known, Has
  <2>5. Jtx25KeyParts' = Jtx25KeyParts
    BY <2>3, <2>4 DEF Jtx25KeyParts
  <2> QED BY <2>2, <2>3, <2>4, <2>5 DEF Jtx25Equations
<1>2. CASE Jtx25Presign
  <2> DEFINE R == Total(Jtx25NonceParts, Signers)
  <2>1. /\ \A i \in Signers : know.phiX[i] = Jtx25Weighted(i)
        /\ Step("jtx25_presign_2", "jtx25_sign",
                [R |-> Fl(SumFunctionOnSet([i \in Signers |-> Jtx25Weight(i) * know.k[i]], Signers))])
    BY <1>2 DEF Jtx25Presign, RefuseFaulty, Return
  <2>2. Step("jtx25_presign_2", "jtx25_sign", [R |-> R])
    BY <2>1 DEF Jtx25NonceParts, Total
  <2>3. \A i \in Signers : know.phiX[i] = Fl(know.phi * Jtx25KeyParts[i])
    BY <2>1 DEF Jtx25Weighted, Jtx25KeyParts
  <2> HIDE DEF R
  <2>4. /\ stage = "jtx25_presign_2" /\ stage' = "jtx25_sign" /\ key' = key /\ Signers' = Signers
        /\ protocol' = protocol /\ know'.R = R
    BY <2>2, StepKeeps
  <2>5. /\ know'.x = know.x /\ know'.phi = know.phi /\ know'.k = know.k
        /\ know'.phiK = know.phiK /\ know'.phiX = know.phiX
    BY <2>2, <2>4, StepKeeps DEF Jtx25Known, Has
  <2>6. Jtx25KeyParts' = Jtx25KeyParts /\ Jtx25NonceParts' = Jtx25NonceParts
    BY <2>4, <2>5 DEF Jtx25KeyParts, Jtx25NonceParts, Jtx25Weight, Jtx25SharedNonce
  <2> QED BY <2>3, <2>4, <2>5, <2>6 DEF Jtx25Equations, R
<1>3. CASE Jtx25Finish
  BY <1>3 DEF Jtx25Finish, RefuseFaulty, Return
<1> QED BY <1>1, <1>2, <1>3 DEF Jtx25SignNext

LEMMA Jtx25PresignatureFits ==
    ASSUME Session, Jtx25Known, Jtx25Equations
    PROVE  Jtx25Fits
<1> DEFINE pk == [i \in Signers |-> Jtx25Weight(i) * know.phiK[i]]
           phi == know.phi
           np == Jtx25NonceParts
           kp == Jtx25KeyParts
           px == know.phiX
<1> SUFFICES ASSUME stage = "jtx25_sign"
             PROVE  /\ Fl(SumFunctionOnSet(pk, Signers)) = Fl(phi * know.R)
                    /\ Total(know.phiX, Signers) = Fl(phi * key)
  BY DEF Jtx25Fits
<1>1. /\ phi \in Int /\ know.k \in Ints /\ know.phiK \in Ints /\ know.phiX \in Ints /\ know.x \in Ints
  BY DEF Jtx25Known, Has
<1>2. ASSUME NEW i \in Signers
      PROVE  np[i] \in Int /\ pk[i] \in Int /\ Fl(pk[i]) = Fl(phi * np[i])
  <2> DEFINE c == Jtx25Weight(i)
             ki == know.k[i]
             m == phi * ki
  <2>1. c \in Int /\ ki \in Int
    BY <1>1, Jtx25PartsType DEF Ints, Jtx25Stages
  <2>2. pk[i] = c * know.phiK[i] /\ np[i] = c * ki
    BY DEF Jtx25NonceParts
  <2>3. know.phiK[i] = Fl(m)
    BY DEF Jtx25Equations
  <2> HIDE DEF c, ki, phi, pk, np
  <2>4. m \in Int /\ c * m = phi * (c * ki) /\ c * ki \in Int
    BY <1>1, <2>1
  <2> HIDE DEF m
  <2>5. Fl(m) \in Int
    BY <2>4, FlInt
  <2> DEFINE e == Fl(m)
  <2>6. c * e \in Int
    BY <2>1, <2>5
  <2>7. Fl(c * Fl(m)) = Fl(c * m)
    BY <2>1, <2>4, FlMulRight
  <2> QED BY <2>2, <2>3, <2>4, <2>6, <2>7
<1>3. ASSUME NEW i \in Signers
      PROVE  kp[i] \in Int /\ px[i] \in Int /\ Fl(px[i]) = Fl(phi * kp[i])
  <2>1. kp[i] \in Int
    <3>1. Lagrange(Signers, i) \in Int /\ know.x[i] \in Int
      BY <1>1, LagrangeInt DEF Ints
    <3>2. Lagrange(Signers, i) * know.x[i] \in Int
      BY <3>1
    <3> QED BY <3>2, FlInt DEF Jtx25KeyParts
  <2>2. px[i] = Fl(phi * kp[i])
    BY DEF Jtx25Equations
  <2> HIDE DEF phi, kp, px
  <2>3. phi * kp[i] \in Int
    BY <1>1, <2>1
  <2> QED BY <2>1, <2>2, <2>3, FlInt, FlField
<1>4. Total(np, Signers) = know.R /\ Total(kp, Signers) = key
  BY DEF Jtx25Equations
<1> HIDE DEF pk, phi, np, kp, px
<1>5. Total(pk, Signers) = Fl(phi * Total(np, Signers))
  <2>1. \A i \in Signers : np[i] \in Int /\ pk[i] \in Int /\ Fl(pk[i]) = Fl(phi * np[i])
    BY <1>2
  <2> QED BY <1>1, <2>1, SignersType, TotalScale
<1>6. Total(px, Signers) = Fl(phi * Total(kp, Signers))
  <2>1. \A i \in Signers : kp[i] \in Int /\ px[i] \in Int /\ Fl(px[i]) = Fl(phi * kp[i])
    BY <1>3
  <2> QED BY <1>1, <2>1, SignersType, TotalScale
<1>7. Total(pk, Signers) = Fl(SumFunctionOnSet(pk, Signers))
  BY DEF Total
<1> QED BY <1>4, <1>5, <1>6, <1>7 DEF px

-----------------------------------------------------------------------------
(* LLZ25.                                                                   *)

Llz25KeyParts == [i \in Signers |-> Lagrange(Signers, i) * know.x[i]]

Llz25Equations ==
    /\ Total(Llz25KeyParts, Signers) = key
    /\ stage = "llz25_sign_1" =>
           /\ Total(know.u, Signers) = Fl(Total(know.gamma, Signers) * Total(know.k, Signers))
           /\ Total(know.w, Signers) = Fl(Total(know.gamma, Signers) * key)

LEMMA Llz25EquationsBegin ==
    ASSUME NEW f \in Sharings, key = f[0], Llz25SignBegin(f)
    PROVE  Llz25Equations
<1> DEFINE x == [i \in Signers |-> Eval(f, i)]
           xl == [i \in Signers |-> x[i] * Lagrange(Signers, i)]
<1>1. f \in Polynomials(T) /\ T \in 1 .. Cardinality(Signers)
  BY SigningAssumption, SignersType
<1>2. Signers \subseteq Parties
  BY SigningAssumption DEF Signers
<1>3. know.x = [p \in Parties |-> Eval(f, p)] /\ stage = "llz25_presign"
  BY DEF Llz25SignBegin
<1>4. \A i \in Signers : x[i] = Eval(f, i)
  OBVIOUS
<1>5. ASSUME NEW i \in Signers PROVE Lagrange(Signers, i) * know.x[i] = x[i] * Lagrange(Signers, i)
  <2>1. know.x[i] = Eval(f, i) /\ x[i] = Eval(f, i)
    BY <1>2, <1>3
  <2>2. Eval(f, i) \in Int /\ Lagrange(Signers, i) \in Int
    BY BeginType
  <2>3. Lagrange(Signers, i) * Eval(f, i) = Eval(f, i) * Lagrange(Signers, i)
    BY <2>2
  <2> QED BY <2>1, <2>3
<1>6. Llz25KeyParts = xl
  BY <1>5 DEF Llz25KeyParts
<1>7. Reconstruct(x, Signers) = Total(xl, Signers)
  BY DEF Reconstruct
<1> HIDE DEF x, xl
<1>8. Reconstruct(x, Signers) = f[0]
  BY <1>1, <1>4, SignersType, Interpolation
<1> QED BY <1>3, <1>6, <1>7, <1>8 DEF Llz25Equations

\* What the two signers of a pair decode adds up to the product.
Llz25Decoded(l, b, mask, i, j) == l[i] * mask[<<i, j>>] + l[j] * (b[j] * know.gamma[i] + Neg(mask[<<j, i>>]))

LEMMA Llz25MasksCancel ==
    ASSUME know.gamma \in Ints, NEW l \in Ints, NEW b, \A i \in Signers : b[i] \in Int, NEW mask \in PairInts,
           NEW g, \A i \in Signers :
              /\ g[i] \in Int
              /\ g[i] = Fl(l[i] * b[i] * know.gamma[i]
                           + SumFunctionOnSet([j \in Others(i) |-> Llz25Decoded(l, b, mask, i, j)], Others(i)))
    PROVE  Total(g, Signers) = Fl(Total(know.gamma, Signers) * Total([i \in Signers |-> l[i] * b[i]], Signers))
<1> DEFINE v == [i \in Signers |-> l[i] * b[i]]
           gam == know.gamma
           fst == [p \in Pairs |-> l[p[2]] * (b[p[2]] * gam[p[1]] + Neg(mask[<<p[2], p[1]>>]))]
           snd == [p \in Pairs |-> l[p[2]] * mask[<<p[2], p[1]>>]]
           h == [i \in Signers |-> [j \in Others(i) |-> Llz25Decoded(l, b, mask, i, j)]]
           gg == [i \in Signers |-> g[i]]
<1>1. \A i \in Signers : l[i] \in Int /\ b[i] \in Int /\ gam[i] \in Int
  BY DEF Ints
<1>2. \A i \in Signers : v[i] \in Int /\ v[i] = l[i] * b[i]
  BY <1>1
<1>3. ASSUME NEW p \in Pairs
      PROVE  /\ fst[p] \in Int /\ snd[p] \in Int
             /\ Fl(fst[p] + snd[p]) = Fl(gam[p[1]] * v[p[2]])
  <2> DEFINE c == l[p[2]]
             bb == b[p[2]]
             ga == gam[p[1]]
             y == bb * ga
             m == mask[<<p[2], p[1]>>]
             n == Neg(m)
             z == y + n
             e == y - m
             t == z + m
  <2>1. p[1] \in Signers /\ p[2] \in Signers /\ <<p[2], p[1]>> \in Pairs
    BY PairsType
  <2>2. c \in Int /\ bb \in Int /\ ga \in Int /\ m \in Int
    BY <1>1, <2>1 DEF PairInts
  <2>3. fst[p] = c * z /\ snd[p] = c * m
    OBVIOUS
  <2>4. gam[p[1]] * v[p[2]] = ga * (c * bb)
    BY <1>2, <2>1
  <2> HIDE DEF c, bb, ga, m, fst, snd, v, gam
  <2>5. y \in Int /\ ga * (c * bb) = c * y
    BY <2>2
  <2>6. n \in Int
    BY <2>2, FlInt
  <2>7. Fl(z) = Fl(e)
    BY <2>2, <2>5, FlNeg
  <2> HIDE DEF y, n
  <2>8. z \in Int /\ e \in Int /\ e + m = y
    BY <2>2, <2>5, <2>6
  <2> HIDE DEF z, e
  <2>9. t \in Int /\ Fl(t) = Fl(y)
    <3>1. Fl(z + m) = Fl(e + m)
      BY <2>2, <2>7, <2>8, FlShift
    <3> QED BY <2>2, <2>8, <3>1
  <2>10. c * z \in Int /\ c * m \in Int /\ c * z + c * m = c * t
    BY <2>2, <2>8
  <2> HIDE DEF t
  <2>11. Fl(c * t) = Fl(c * y)
    BY <2>2, <2>5, <2>9, FlScale
  <2> QED BY <2>3, <2>4, <2>5, <2>10, <2>11
<1>4. fst \in PairInts /\ snd \in PairInts
  <2>1. fst \in [Pairs -> Int] /\ snd \in [Pairs -> Int]
    BY <1>3
  <2> QED BY <2>1 DEF PairInts
<1>5. \A p \in Pairs : Fl(fst[p] + snd[p]) = Fl(gam[p[1]] * v[p[2]])
  BY <1>3
<1>6. ASSUME NEW i \in Signers, NEW j \in Others(i)
      PROVE  h[i][j] = fst[<<i, j>>] + snd[<<j, i>>] /\ h[i][j] \in Int
  <2>1. <<i, j>> \in Pairs /\ <<j, i>> \in Pairs
    BY OtherPairs
  <2>2. fst[<<i, j>>] \in Int /\ snd[<<j, i>>] \in Int
    BY <1>3, <2>1
  <2>3. /\ fst[<<i, j>>] = l[j] * (b[j] * gam[i] + Neg(mask[<<j, i>>]))
        /\ snd[<<j, i>>] = l[i] * mask[<<i, j>>]
    BY <2>1
  <2>4. h[i][j] = snd[<<j, i>>] + fst[<<i, j>>]
    BY <2>3 DEF Llz25Decoded
  <2> HIDE DEF fst, snd, h
  <2> QED BY <2>2, <2>4
<1>7. ASSUME NEW i \in Signers
      PROVE  gg[i] \in Int /\ Fl(gg[i]) = Fl(gam[i] * v[i] + SumFunctionOnSet(h[i], Others(i)))
  <2> DEFINE s == SumFunctionOnSet(h[i], Others(i))
             d == l[i] * b[i] * gam[i]
  <2>1. gg[i] = Fl(d + s) /\ gg[i] \in Int
    OBVIOUS
  <2>2. s \in Int
    BY <1>6, OthersSum
  <2>3. d \in Int /\ d = gam[i] * v[i]
    <3>1. l[i] \in Int /\ b[i] \in Int /\ gam[i] \in Int /\ v[i] = l[i] * b[i]
      BY <1>1, <1>2
    <3> HIDE DEF v, gam
    <3> QED BY <3>1
  <2> HIDE DEF d, s, gg
  <2>4. Fl(gg[i]) = Fl(d + s)
    BY <2>1, <2>2, <2>3, FlInt, FlField
  <2> QED BY <2>1, <2>3, <2>4 DEF s
<1>8. gam \in Ints /\ v \in Ints /\ gg \in Ints
  <2>1. v \in [Signers -> Int] /\ gg \in [Signers -> Int]
    BY <1>2, <1>7
  <2> QED BY <2>1 DEF Ints
<1>9. Total(gg, Signers) = Total(g, Signers)
  <2>1. \A i \in Signers : gg[i] \in Int /\ g[i] \in Int /\ Fl(gg[i]) = Fl(g[i])
    OBVIOUS
  <2> HIDE DEF gg
  <2> QED BY <2>1, SignersType, TotalSame
<1> HIDE DEF v, gam, fst, snd, h, gg
<1>10. Total(gg, Signers) = Fl(Total(gam, Signers) * Total(v, Signers))
  <2>1. \A i \in Signers : Fl(gg[i]) = Fl(gam[i] * v[i] + SumFunctionOnSet(h[i], Others(i)))
    BY <1>7
  <2>2. \A i \in Signers : \A j \in Others(i) : h[i][j] = fst[<<i, j>>] + snd[<<j, i>>]
    BY <1>6
  <2>3. ProductShared(gam, v, fst, snd, h, gg)
    BY <1>4, <1>5, <1>8, <2>1, <2>2 DEF ProductShared
  <2> QED BY <2>3, ProductShares
<1> QED BY <1>9, <1>10 DEF v, gam

LEMMA Llz25EquationsStep ==
    ASSUME Session, Llz25Known, Llz25Equations, Llz25SignNext, stage' # "ended"
    PROVE  Llz25Equations'
<1>1. CASE Llz25Coefficients
  <2> DEFINE lambda == [i \in Signers |-> Lagrange(Signers, i)]
  <2>1. PICK alpha \in [Pairs -> Scalars], mu \in [Pairs -> Blinds] :
          LET AlphaBeta(i, j) == alpha[<<i, j>>] + know.k[j] * know.gamma[i] + Neg(alpha[<<j, i>>])
              MuNu(i, j) == lambda[i] * mu[<<i, j>>] + lambda[j] * (Llz25PeX(j) * know.gamma[i] + Neg(mu[<<j, i>>]))
          IN Step("llz25_presign", "llz25_sign_1",
               [u |-> [i \in Signers |-> Fl(know.k[i] * know.gamma[i]
                          + SumFunctionOnSet([j \in Others(i) |-> AlphaBeta(i, j)], Others(i)))],
                w |-> [i \in Signers |-> Fl(lambda[i] * know.x[i] * know.gamma[i]
                          + SumFunctionOnSet([j \in Others(i) |-> MuNu(i, j)], Others(i)))]])
    BY <1>1 DEF Llz25Coefficients, RefuseFaulty, Return
  <2> DEFINE AlphaBeta(i, j) == alpha[<<i, j>>] + know.k[j] * know.gamma[i] + Neg(alpha[<<j, i>>])
             MuNu(i, j) == lambda[i] * mu[<<i, j>>] + lambda[j] * (Llz25PeX(j) * know.gamma[i] + Neg(mu[<<j, i>>]))
             u == [i \in Signers |-> Fl(know.k[i] * know.gamma[i]
                          + SumFunctionOnSet([j \in Others(i) |-> AlphaBeta(i, j)], Others(i)))]
             w == [i \in Signers |-> Fl(lambda[i] * know.x[i] * know.gamma[i]
                          + SumFunctionOnSet([j \in Others(i) |-> MuNu(i, j)], Others(i)))]
             one == [i \in Signers |-> 1]
  <2>2. Step("llz25_presign", "llz25_sign_1", [u |-> u, w |-> w])
    BY <2>1
  <2>3. stage = "llz25_presign"
    BY <2>2 DEF Step
  <2>4. Llz25Known' /\ know'.u = u /\ know'.w = w /\ Ints' = Ints /\ stage' = "llz25_sign_1"
    <3>1. stage' # "ended" => Llz25Known'
      BY Llz25Step
    <3> HIDE DEF u, w
    <3>2. know'.u = u /\ know'.w = w /\ stage' = "llz25_sign_1" /\ Ints' = Ints
      BY <2>2, StepKeeps
    <3> QED BY <3>1, <3>2
  <2>5. u \in Ints /\ w \in Ints
    BY <2>4 DEF Llz25Known, Has
  <2>6. /\ know.gamma \in Ints /\ know.k \in Ints /\ know.x \in [Parties -> Int]
        /\ alpha \in PairInts /\ mu \in PairInts
    BY <2>3, DrawnInts DEF Llz25Known, Has
  <2>7. \A i \in Signers : know.x[i] \in Int /\ know.k[i] \in Int /\ know.gamma[i] \in Int
    BY <2>6, SigningAssumption DEF Signers, Ints
  <2>8. lambda \in Ints /\ one \in Ints
    BY LagrangeInt DEF Ints
  <2>9. Total(w, Signers) = Fl(Total(know.gamma, Signers) * key)
    <3>1. ASSUME NEW i \in Signers
          PROVE  w[i] = Fl(lambda[i] * know.x[i] * know.gamma[i]
                        + SumFunctionOnSet([j \in Others(i) |-> Llz25Decoded(lambda, know.x, mu, i, j)], Others(i)))
      BY DEF Llz25Decoded, Llz25PeX
    <3>2. \A i \in Signers : w[i] \in Int
      BY <2>5 DEF Ints
    <3>3. [i \in Signers |-> lambda[i] * know.x[i]] = Llz25KeyParts
      BY DEF Llz25KeyParts
    <3> DEFINE x == know.x
    <3>4. /\ \A i \in Signers : x[i] \in Int
          /\ \A i \in Signers : /\ w[i] \in Int
                                /\ w[i] = Fl(lambda[i] * x[i] * know.gamma[i]
                                    + SumFunctionOnSet([j \in Others(i) |-> Llz25Decoded(lambda, x, mu, i, j)], Others(i)))
      BY <2>7, <3>1, <3>2
    <3> HIDE DEF w, lambda, x
    <3>5. Total(w, Signers) = Fl(Total(know.gamma, Signers) * Total([i \in Signers |-> lambda[i] * x[i]], Signers))
      BY <2>6, <2>8, <3>4, Llz25MasksCancel
    <3> QED BY <3>3, <3>5 DEF Llz25Equations, x
  <2>10. Total(u, Signers) = Fl(Total(know.gamma, Signers) * Total(know.k, Signers))
    <3> DEFINE k == know.k
    <3>1. ASSUME NEW i \in Signers
          PROVE  u[i] = Fl(one[i] * k[i] * know.gamma[i]
                        + SumFunctionOnSet([j \in Others(i) |-> Llz25Decoded(one, k, alpha, i, j)], Others(i)))
      <4>1. ASSUME NEW j \in Others(i) PROVE AlphaBeta(i, j) = Llz25Decoded(one, k, alpha, i, j)
        <5>1. j \in Signers /\ <<i, j>> \in Pairs /\ <<j, i>> \in Pairs
          BY OtherPairs
        <5>2. alpha[<<i, j>>] \in Int /\ alpha[<<j, i>>] \in Int /\ k[j] \in Int /\ know.gamma[i] \in Int
          BY <2>6, <2>7, <5>1 DEF PairInts
        <5> DEFINE a1 == alpha[<<i, j>>]
                   n == Neg(alpha[<<j, i>>])
                   y == k[j] * know.gamma[i]
        <5>3. a1 \in Int /\ n \in Int /\ y \in Int
          BY <5>2, FlInt
        <5>4. AlphaBeta(i, j) = a1 + y + n
          OBVIOUS
        <5>5. Llz25Decoded(one, k, alpha, i, j) = 1 * a1 + 1 * (y + n)
          BY <5>1 DEF Llz25Decoded
        <5> HIDE DEF a1, n, y, AlphaBeta
        <5> QED BY <5>3, <5>4, <5>5
      <4>2. [j \in Others(i) |-> AlphaBeta(i, j)] = [j \in Others(i) |-> Llz25Decoded(one, k, alpha, i, j)]
        BY <4>1
      <4>3. one[i] * k[i] = k[i]
        BY <2>7
      <4> QED BY <4>2, <4>3
    <3>2. \A i \in Signers : u[i] \in Int
      BY <2>5 DEF Ints
    <3>3. [i \in Signers |-> one[i] * k[i]] = k
      <4>1. \A i \in Signers : one[i] * k[i] = k[i]
        BY <2>7
      <4>2. k \in [Signers -> Int]
        BY <2>6 DEF Ints
      <4> HIDE DEF k, one
      <4> QED BY <4>1, <4>2
    <3>4. \A i \in Signers : k[i] \in Int
      BY <2>7
    <3>5. \A i \in Signers : /\ u[i] \in Int
                             /\ u[i] = Fl(one[i] * k[i] * know.gamma[i]
                                 + SumFunctionOnSet([j \in Others(i) |-> Llz25Decoded(one, k, alpha, i, j)], Others(i)))
      BY <3>1, <3>2
    <3> HIDE DEF u, one, k
    <3>6. Total(u, Signers) = Fl(Total(know.gamma, Signers) * Total([i \in Signers |-> one[i] * k[i]], Signers))
      BY <2>6, <2>8, <3>4, <3>5, Llz25MasksCancel
    <3> QED BY <3>3, <3>6 DEF k
  <2> HIDE DEF u, w
  <2>11. key' = key /\ Signers' = Signers
    BY <2>2, StepKeeps
  <2>12. know'.x = know.x /\ know'.k = know.k /\ know'.gamma = know.gamma
    BY <2>2, <2>3, StepKeeps DEF Llz25Known, Has
  <2>13. Llz25KeyParts' = Llz25KeyParts
    BY <2>11, <2>12 DEF Llz25KeyParts
  <2> QED BY <2>4, <2>9, <2>10, <2>11, <2>12, <2>13 DEF Llz25Equations
<1>2. CASE Llz25Partial
  <2>1. PICK z \in Scalars, y \in Blinds :
          LET R == Fl(z * Total(know.k, Signers) + y)
          IN Step("llz25_sign_1", "llz25_sign_2",
            [R |-> R,
             wi |-> [i \in Signers |-> Fl(digest * know.gamma[i] + XCoord(R) * know.w[i] + Off(i, "partial"))],
             ui |-> [i \in Signers |-> Fl(y * know.gamma[i] + z * know.u[i])]])
    BY <1>2 DEF Llz25Partial
  <2> DEFINE R == Fl(z * Total(know.k, Signers) + y)
             wi == [i \in Signers |-> Fl(digest * know.gamma[i] + XCoord(R) * know.w[i] + Off(i, "partial"))]
             ui == [i \in Signers |-> Fl(y * know.gamma[i] + z * know.u[i])]
  <2>2. Step("llz25_sign_1", "llz25_sign_2", [R |-> R, wi |-> wi, ui |-> ui])
    BY <2>1
  <2> HIDE DEF R, wi, ui
  <2>3. stage' = "llz25_sign_2" /\ key' = key /\ Signers' = Signers
    BY <2>2, StepKeeps
  <2>4. know'.x = know.x
    BY <2>2, StepKeeps DEF Llz25Known, Has
  <2>5. Llz25KeyParts' = Llz25KeyParts
    BY <2>3, <2>4 DEF Llz25KeyParts
  <2> QED BY <2>3, <2>5 DEF Llz25Equations
<1>3. CASE Llz25Finish
  BY <1>3 DEF Llz25Finish, Return
<1> QED BY <1>1, <1>2, <1>3 DEF Llz25SignNext

LEMMA Llz25PresignatureFits ==
    ASSUME Llz25Equations
    PROVE  Llz25Fits
  BY DEF Llz25Equations, Llz25Fits

-----------------------------------------------------------------------------
(* TROUT.                                                                   *)

TroutEquations ==
    /\ "fault" \in DOMAIN know
    /\ know.delta = know.alpha
    /\ Total(know.lx, Signers) = key
    /\ stage # "trout_presign" => /\ know.R = Total(know.k, Signers)
                                  /\ know.fault = "none" => Total(know.announced, Signers) = key
    /\ TroutFits

LEMMA TroutEquationsBegin ==
    ASSUME NEW f \in Sharings, key = f[0], TroutSignBegin(f)
    PROVE  TroutEquations
<1> DEFINE lx == [i \in Signers |-> Fl(Lagrange(Signers, i) * Eval(f, i))]
<1>1. know.lx = lx /\ know.delta = know.alpha /\ stage = "trout_presign" /\ "fault" \in DOMAIN know
  BY DEF TroutSignBegin
<1>2. Total(lx, Signers) = f[0]
  BY WeightedShares
<1> QED BY <1>1, <1>2 DEF TroutEquations, TroutFits

\* F-shares as TroutFShare has them, but for how their f is reduced.
TroutExact(shares, m, drawn, alpha, beta, b) ==
    \A i \in Signers : LET exact == TroutFShare(m, drawn, alpha, beta, b, i)
                       IN /\ shares[i].f \in Int /\ Fl(shares[i].f) = exact.f
                          /\ shares[i].pk = exact.pk /\ shares[i].h = exact.h

\* F-shares of the right randomness leave the exponents of h and of pk at zero,
\* and the product of the sums at that of f.
LEMMA TroutSolved ==
    ASSUME NEW m \in Ints, NEW drawn \in Ints, NEW alpha, NEW beta \in Ints, NEW b \in Ints,
           \A i \in Signers : alpha[i] = drawn[i],
           NEW shares, TroutExact(shares, m, drawn, alpha, beta, b)
    PROVE  TroutSolve(shares) = {Fl(Total(b, Signers) * Total(m, Signers))}
<1> DEFINE sd == TroutSumOf(drawn)
           sb == TroutSumOf(b)
           st == TroutSumOf(beta)
           sm == TroutSumOf(m)
           pk == [i \in Signers |-> shares[i].pk]
           h == [i \in Signers |-> shares[i].h]
           g == [i \in Signers |-> shares[i].f]
<1>1. \A i \in Signers : drawn[i] \in Int /\ beta[i] \in Int /\ b[i] \in Int /\ m[i] \in Int
  BY DEF Ints
<1>2. sd \in Int /\ sb \in Int /\ st \in Int /\ sm \in Int
  BY <1>1, IntsType DEF TroutSumOf
<1>3. \A i \in Signers : /\ pk[i] = b[i] * sd - drawn[i] * sb
                         /\ h[i] = beta[i] * sd - drawn[i] * st
                         /\ g[i] \in Int /\ Fl(g[i]) = Fl(b[i] * sm)
  <2> SUFFICES ASSUME NEW i \in Signers
               PROVE  /\ pk[i] = b[i] * sd - drawn[i] * sb
                      /\ h[i] = beta[i] * sd - drawn[i] * st
                      /\ g[i] \in Int /\ Fl(g[i]) = Fl(b[i] * sm)
    OBVIOUS
  <2>1. pk[i] = shares[i].pk /\ h[i] = shares[i].h /\ g[i] = shares[i].f /\ alpha[i] = drawn[i]
    OBVIOUS
  <2> HIDE DEF pk, h, g
  <2> QED BY <2>1 DEF TroutExact, TroutFShare
<1>4. sd = SumFunctionOnSet(drawn, Signers) /\ sb = SumFunctionOnSet(b, Signers)
      /\ st = SumFunctionOnSet(beta, Signers) /\ sm = SumFunctionOnSet(m, Signers)
  BY DEF TroutSumOf
<1> HIDE DEF sd, sb, st, sm, pk, h, g
<1>5. SumFunctionOnSet(pk, Signers) = sb * sd - sd * sb
  <2>1. \A i \in Signers : b[i] \in Int /\ drawn[i] \in Int /\ pk[i] = b[i] * sd - drawn[i] * sb
    BY <1>1, <1>3
  <2>2. sd \in Int /\ sb \in Int /\ IsFiniteSet(Signers)
    BY <1>2, SignersType
  <2>3. SumFunctionOnSet(pk, Signers) = SumFunctionOnSet(b, Signers) * sd - SumFunctionOnSet(drawn, Signers) * sb
    BY <2>1, <2>2, SumLinear
  <2> QED BY <1>4, <2>3
<1>6. SumFunctionOnSet(h, Signers) = st * sd - sd * st
  <2>1. \A i \in Signers : beta[i] \in Int /\ drawn[i] \in Int /\ h[i] = beta[i] * sd - drawn[i] * st
    BY <1>1, <1>3
  <2>2. sd \in Int /\ st \in Int /\ IsFiniteSet(Signers)
    BY <1>2, SignersType
  <2>3. SumFunctionOnSet(h, Signers) = SumFunctionOnSet(beta, Signers) * sd - SumFunctionOnSet(drawn, Signers) * st
    BY <2>1, <2>2, SumLinear
  <2> QED BY <1>4, <2>3
<1>7. TroutSumOf(pk) = 0 /\ TroutSumOf(h) = 0
  <2>1. sb * sd - sd * sb = 0 /\ st * sd - sd * st = 0
    BY <1>2
  <2> QED BY <1>5, <1>6, <2>1 DEF TroutSumOf
<1>8. Total(g, Signers) = Fl(Total(b, Signers) * Total(m, Signers))
  <2>1. \A i \in Signers : b[i] \in Int /\ g[i] \in Int /\ Fl(g[i]) = Fl(sm * b[i])
    <3>1. \A i \in Signers : b[i] \in Int /\ g[i] \in Int /\ Fl(g[i]) = Fl(b[i] * sm)
      BY <1>1, <1>3
    <3>2. \A x \in Int : x * sm = sm * x
      BY <1>2
    <3> QED BY <3>1, <3>2
  <2>2. Total(g, Signers) = Fl(sm * Total(b, Signers))
    <3>1. sm \in Int
      BY <1>2
    <3> QED BY <2>1, <3>1, SignersType, TotalScale
  <2> DEFINE tb == Total(b, Signers)
             tm == Total(m, Signers)
  <2>3. tb \in Int /\ tm \in Int /\ tm = Fl(sm)
    BY <1>1, <1>4, IntsType DEF Total
  <2> HIDE DEF tb, tm
  <2>4. Fl(tm) = Fl(sm)
    BY <1>2, <2>3, FlInt, FlField
  <2>5. Fl(tm * tb) = Fl(sm * tb)
    BY <1>2, <2>3, <2>4, FlScale
  <2>6. tm * tb = tb * tm
    BY <2>3
  <2> QED BY <2>2, <2>5, <2>6 DEF tb, tm
<1>9. Fl(TroutSumOf(g)) = Total(g, Signers)
  BY DEF TroutSumOf, Total
<1> QED BY <1>7, <1>8, <1>9 DEF TroutSolve, pk, h, g

\* The digest is added once.
LEMMA TroutDigestOnce ==
    ASSUME Session, Cardinality(Signers) >= 2
    PROVE  Total([i \in Signers |-> IF i = P1 THEN digest ELSE 0], Signers) = digest
<1> DEFINE d == [i \in Signers |-> IF i = P1 THEN digest ELSE 0]
<1>1. P1 \in Signers /\ digest \in Int /\ digest \in Field
  BY Two, Operands DEF Session
<1>2. \A i \in Signers : d[i] \in Int
  BY <1>1
<1>3. d[P1] = digest /\ \A i \in Signers \ {P1} : d[i] = 0
  BY <1>1
<1> HIDE DEF d
<1>4. SumFunctionOnSet(d, Signers) = d[P1] + SumFunctionOnSet(d, Signers \ {P1})
  BY <1>1, <1>2, SignersType, SumStep
<1>5. SumFunctionOnSet(d, Signers \ {P1}) = 0
  <2>1. IsFiniteSet(Signers \ {P1})
    BY SignersType, FS_Subset
  <2> QED BY <1>3, <2>1, SumZero
<1>6. SumFunctionOnSet(d, Signers) = digest
  BY <1>1, <1>3, <1>4, <1>5
<1> QED BY <1>1, <1>6, FlField DEF Total, d

LEMMA TroutEquationsStep ==
    ASSUME Session, TroutKnown, TroutEquations, TroutSignNext, Cardinality(Signers) >= 2, stage' # "ended"
    PROVE  TroutEquations'
<1>1. CASE TroutPresign
  <2> DEFINE R == Total(know.k, Signers)
             announced == [i \in Signers |-> Fl(know.lx[i] + Off(i, "scaled"))]
  <2>1. Step("trout_presign", "trout_sign_1", [R |-> R, announced |-> announced])
    BY <1>1 DEF TroutPresign, RefuseFaulty, Return
  <2>2. know.fault = "none" => Total(announced, Signers) = key
    <3> SUFFICES ASSUME know.fault = "none" PROVE Total(announced, Signers) = key
      OBVIOUS
    <3>1. \A i \in Signers : know.lx[i] \in Int
      BY DEF TroutKnown, Has, Ints
    <3>2. ASSUME NEW i \in Signers
          PROVE  announced[i] \in Int /\ know.lx[i] \in Int /\ Fl(announced[i]) = Fl(know.lx[i])
      <4>1. announced[i] = Fl(know.lx[i] + 0)
        BY DEF Off
      <4> DEFINE e == know.lx[i]
      <4>2. e \in Int
        BY <3>1
      <4>3. announced[i] = Fl(e + 0)
        BY <4>1
      <4> HIDE DEF e, announced
      <4>4. e + 0 = e
        BY <4>2
      <4>5. announced[i] \in Int /\ Fl(announced[i]) = Fl(e)
        BY <4>2, <4>3, <4>4, FlInt, FlField
      <4> QED BY <4>2, <4>5 DEF e
    <3> HIDE DEF announced
    <3>3. Total(announced, Signers) = Total(know.lx, Signers)
      BY <3>2, SignersType, TotalSame
    <3> QED BY <3>3 DEF TroutEquations
  <2> HIDE DEF announced
  <2>3. stage' = "trout_sign_1" /\ key' = key /\ Signers' = Signers /\ know'.R = R /\ know'.announced = announced
    BY <2>1, StepKeeps
  <2>4. know'.delta = know.delta /\ know'.alpha = know.alpha /\ know'.lx = know.lx /\ know'.k = know.k
    BY <2>1, StepKeeps DEF TroutKnown, Has
  <2>5. know'.fault = know.fault /\ "fault" \in DOMAIN know'
    BY <2>1, StepKeeps DEF TroutEquations
  <2> QED BY <2>2, <2>3, <2>4, <2>5 DEF TroutEquations, TroutFits
<1>2. CASE TroutOpen
  <2> DEFINE r == XCoord(know.R)
             rlx == [i \in Signers |-> r * know.announced[i] + IF i = P1 THEN digest ELSE 0]
             raised == [i \in Signers |-> r * (Lagrange(Signers, i) * know.delta[i])]
             alphaZ == [i \in Signers |-> TroutAlphaZ(r, i)]
             share(i) == TroutFShare(rlx, raised, alphaZ, know.beta, know.u, i)
             f1 == [i \in Signers |-> TroutFShare(know.k, know.alpha, know.alpha, know.beta, know.u, i)]
             f2 == [i \in Signers |-> [share(i) EXCEPT !.f = Fl(@ + Off(i, "share"))]]
  <2>1. Step("trout_sign_1", "trout_sign_2", [f1 |-> f1, f2 |-> f2])
    BY <1>2 DEF TroutOpen
  <2>2. stage = "trout_sign_1"
    BY <2>1 DEF Step
  <2>3. /\ know.k \in Ints /\ know.alpha \in Ints /\ know.beta \in Ints /\ know.u \in Ints
        /\ know.delta \in Ints /\ know.announced \in Ints /\ know.R \in Field
    BY <2>2 DEF TroutKnown, Has
  <2>4. r \in Int /\ digest \in Int /\ key \in Int
    BY <2>3, XCoordType, ScalarsType, Operands
  <2>5. /\ know.R = Total(know.k, Signers)
        /\ know.fault = "none" => Total(know.announced, Signers) = key
    BY <2>2 DEF TroutEquations
  <2>6. ASSUME NEW i \in Signers PROVE rlx[i] \in Int /\ raised[i] \in Int /\ alphaZ[i] = raised[i]
    <3> DEFINE l == Lagrange(Signers, i)
               de == know.delta[i]
               an == know.announced[i]
    <3>1. l \in Int /\ de \in Int /\ an \in Int
      BY <2>3, LagrangeInt DEF Ints
    <3>2. /\ rlx[i] = r * an + IF i = P1 THEN digest ELSE 0
          /\ raised[i] = r * (l * de) /\ alphaZ[i] = r * l * de
      BY DEF TroutAlphaZ
    <3> HIDE DEF l, de, an, r, rlx, raised, alphaZ
    <3>3. r * an \in Int /\ r * (l * de) \in Int /\ r * l * de = r * (l * de)
      BY <2>4, <3>1
    <3> QED BY <2>4, <3>2, <3>3
  <2>7. rlx \in Ints /\ raised \in Ints
    <3>1. \A i \in Signers : rlx[i] \in Int /\ raised[i] \in Int
      BY <2>6
    <3> QED BY <3>1 DEF Ints
  <2>8. know.fault = "none" => Total(rlx, Signers) = Fl(digest + r * key)
    <3> SUFFICES ASSUME know.fault = "none" PROVE Total(rlx, Signers) = Fl(digest + r * key)
      OBVIOUS
    <3> DEFINE d == [i \in Signers |-> IF i = P1 THEN digest ELSE 0]
               n == know.announced
               ra == [i \in Signers |-> r * n[i]]
    <3>1. Total(d, Signers) = digest
      BY TroutDigestOnce
    <3>2. \A i \in Signers : n[i] \in Int
      BY <2>3 DEF Ints
    <3>3. \A i \in Signers : d[i] \in Int /\ ra[i] = r * n[i] /\ rlx[i] = ra[i] + d[i]
      BY <2>4
    <3>4. Total(n, Signers) = key
      BY <2>5
    <3> HIDE DEF d, n, ra, rlx, r
    <3>5. \A x \in Int : r * x \in Int
      BY <2>4
    <3>6. \A i \in Signers : n[i] \in Int /\ ra[i] \in Int /\ Fl(ra[i]) = Fl(r * n[i])
      BY <3>2, <3>3, <3>5
    <3>7. Total(ra, Signers) = Fl(r * key)
      BY <2>4, <3>4, <3>6, SignersType, TotalScale
    <3>8. \A i \in Signers : ra[i] \in Int /\ d[i] \in Int /\ rlx[i] \in Int /\ Fl(rlx[i]) = Fl(ra[i] + d[i])
      BY <3>3, <3>6
    <3>9. Total(rlx, Signers) = Fl(Total(ra, Signers) + Total(d, Signers))
      BY <3>8, SignersType, TotalSum
    <3> DEFINE p == r * key
    <3>10. p \in Int
      BY <2>4
    <3>11. Total(rlx, Signers) = Fl(Fl(p) + digest)
      BY <3>1, <3>7, <3>9
    <3> HIDE DEF p
    <3>12. Fl(Fl(p) + digest) = Fl(p + digest) /\ p + digest = digest + p
      BY <2>4, <3>10, FlAdd
    <3> QED BY <3>11, <3>12 DEF p
  <2>9. TroutSolve(f1) = {Fl(Total(know.u, Signers) * know.R)}
    <3>1. \A i \in Signers : LET exact == TroutFShare(know.k, know.alpha, know.alpha, know.beta, know.u, i)
                             IN /\ f1[i].f \in Int /\ Fl(f1[i].f) = exact.f
                                /\ f1[i].pk = exact.pk /\ f1[i].h = exact.h
      <4> SUFFICES ASSUME NEW i \in Signers
                   PROVE  LET exact == TroutFShare(know.k, know.alpha, know.alpha, know.beta, know.u, i)
                          IN f1[i].f \in Int /\ Fl(f1[i].f) = exact.f
        OBVIOUS
      <4> DEFINE e == know.u[i] * TroutSumOf(know.k)
      <4>1. know.u[i] \in Int /\ TroutSumOf(know.k) \in Int
        BY <2>3, IntsType DEF Ints, TroutSumOf
      <4>2. e \in Int
        BY <4>1
      <4>3. f1[i].f = Fl(e) /\ TroutFShare(know.k, know.alpha, know.alpha, know.beta, know.u, i).f = Fl(e)
        BY DEF TroutFShare
      <4> HIDE DEF e, f1
      <4>4. Fl(e) \in Field /\ Fl(e) \in Int /\ Fl(Fl(e)) = Fl(e)
        BY <4>2, FlInt, FlField
      <4> QED BY <4>3, <4>4
    <3> DEFINE k == know.k
               al == know.alpha
               be == know.beta
               uu == know.u
    <3>3. k \in Ints /\ al \in Ints /\ be \in Ints /\ uu \in Ints
      BY <2>3
    <3>4. \A i \in Signers : al[i] = al[i]
      OBVIOUS
    <3>5. TroutExact(f1, k, al, al, be, uu)
      BY <3>1 DEF TroutExact
    <3> HIDE DEF f1, k, al, be, uu
    <3>6. TroutSolve(f1) = {Fl(Total(uu, Signers) * Total(k, Signers))}
      BY <3>3, <3>4, <3>5, TroutSolved
    <3>2. TroutSolve(f1) = {Fl(Total(know.u, Signers) * Total(know.k, Signers))}
      BY <3>6 DEF k, uu
    <3> QED BY <2>5, <3>2
  <2>10. know.fault = "none" => TroutSolve(f2) = {Fl(Total(know.u, Signers) * (digest + r * key))}
    <3> SUFFICES ASSUME know.fault = "none"
                 PROVE  TroutSolve(f2) = {Fl(Total(know.u, Signers) * (digest + r * key))}
      OBVIOUS
    <3>1. ASSUME NEW i \in Signers
          PROVE  /\ f2[i].f \in Int /\ Fl(f2[i].f) = share(i).f
                 /\ f2[i].pk = share(i).pk /\ f2[i].h = share(i).h
      <4> DEFINE e == know.u[i] * TroutSumOf(rlx)
      <4>1. know.u[i] \in Int /\ TroutSumOf(rlx) \in Int
        <5> HIDE DEF rlx
        <5> QED BY <2>3, <2>7, IntsType DEF Ints, TroutSumOf
      <4>2. e \in Int
        BY <4>1
      <4>3. share(i).f = Fl(e)
        BY DEF TroutFShare
      <4>4. share(i) = [f |-> share(i).f, pk |-> share(i).pk, h |-> share(i).h]
        BY DEF TroutFShare
      <4>5. f2[i] = [share(i) EXCEPT !.f = Fl(@ + 0)]
        BY DEF Off
      <4> HIDE DEF share, f2, e
      <4>6. f2[i] = [f |-> Fl(share(i).f + 0), pk |-> share(i).pk, h |-> share(i).h]
        BY <4>4, <4>5
      <4>7. Fl(e) \in Field /\ Fl(e) \in Int /\ Fl(e) + 0 = Fl(e) /\ Fl(Fl(e)) = Fl(e)
        BY <4>2, FlInt, FlField
      <4> QED BY <4>3, <4>6, <4>7
    <3>2. \A i \in Signers : LET exact == TroutFShare(rlx, raised, alphaZ, know.beta, know.u, i)
                             IN /\ f2[i].f \in Int /\ Fl(f2[i].f) = exact.f
                                /\ f2[i].pk = exact.pk /\ f2[i].h = exact.h
      BY <3>1
    <3>3. \A i \in Signers : alphaZ[i] = raised[i]
      BY <2>6
    <3>4. Total(rlx, Signers) = Fl(digest + r * key)
      BY <2>8
    <3> HIDE DEF f2, rlx, raised, alphaZ, share
    <3> DEFINE be == know.beta
               uu == know.u
    <3>10. rlx \in Ints /\ raised \in Ints /\ be \in Ints /\ uu \in Ints
      BY <2>3, <2>7
    <3>11. TroutExact(f2, rlx, raised, alphaZ, be, uu)
      BY <3>2 DEF TroutExact
    <3> HIDE DEF be, uu
    <3>12. TroutSolve(f2) = {Fl(Total(uu, Signers) * Total(rlx, Signers))}
      BY <3>3, <3>10, <3>11, TroutSolved
    <3>5. TroutSolve(f2) = {Fl(Total(know.u, Signers) * Total(rlx, Signers))}
      BY <3>12 DEF uu
    <3> DEFINE tu == Total(know.u, Signers)
               e == digest + r * key
    <3>6. tu \in Int
      BY <2>3, IntsType DEF Ints
    <3>7. e \in Int
      <4> HIDE DEF r
      <4>1. r * key \in Int
        BY <2>4
      <4> QED BY <2>4, <4>1
    <3>8. TroutSolve(f2) = {Fl(tu * Fl(e))}
      BY <3>4, <3>5
    <3> HIDE DEF tu, e
    <3>9. Fl(tu * Fl(e)) = Fl(tu * e)
      BY <3>6, <3>7, FlMulRight
    <3> QED BY <3>8, <3>9 DEF tu, e
  <2> HIDE DEF f1, f2
  <2>11. /\ stage' = "trout_sign_2" /\ key' = key /\ digest' = digest /\ Signers' = Signers
         /\ know'.f1 = f1 /\ know'.f2 = f2
    BY <2>1, StepKeeps
  <2>12. /\ know'.delta = know.delta /\ know'.alpha = know.alpha /\ know'.lx = know.lx
         /\ know'.k = know.k /\ know'.u = know.u
    BY <2>1, StepKeeps DEF TroutKnown, Has
  <2>13. know'.fault = know.fault /\ "fault" \in DOMAIN know'
    BY <2>1, StepKeeps DEF TroutEquations
  <2>14. know'.R = know.R /\ know'.announced = know.announced
    BY <2>1, <2>2, StepKeeps DEF TroutKnown, Has
  <2>15. TroutFits'
    <3>1. TroutSolve(know.f1)' = TroutSolve(f1) /\ TroutSolve(know.f2)' = TroutSolve(f2)
      BY <2>11 DEF TroutSolve, TroutSumOf
    <3> QED BY <2>9, <2>10, <2>11, <2>12, <2>13, <2>14, <3>1 DEF TroutFits
  <2> QED BY <2>5, <2>11, <2>12, <2>13, <2>14, <2>15 DEF TroutEquations
<1>3. CASE TroutFinish
  BY <1>3 DEF TroutFinish, Return
<1> QED BY <1>1, <1>2, <1>3 DEF TroutSignNext

-----------------------------------------------------------------------------
(* XAL23.                                                                   *)

\* A mask that leaves a masked product within the plaintext space.
Xal23Mask(m) == m \in Nat /\ m < 8 * Q * Q + Q

Xal23Equations ==
    /\ {"fault", "sharing"} \subseteq DOMAIN know
    /\ know.k \in [Signers -> Field] /\ know.gamma \in [Signers -> Field]
    /\ know.sharing = "additive" => Total(know.x, Signers) = key
    /\ stage # "xal23_presign_1" =>
           /\ \A p \in Pairs : Xal23Mask(know.mask[p])
           /\ know.w \in [Signers -> Field]
           /\ know.fault = "none" => Total(know.w, Signers) = Total(know.x, Signers)
    /\ stage \in {"xal23_presign_3", "xal23_sign"} =>
           /\ know.fault = "none" =>
                  Total(know.delta, Signers) = Fl(Total(know.k, Signers) * Total(know.gamma, Signers))
           /\ know.fault = "none" =>
                  Total(know.sigma, Signers) = Fl(Total(know.x, Signers) * Total(know.k, Signers))
    /\ Xal23Fits

\* The additive shares of the dealer are those of the key.
LEMMA Xal23Dealt ==
    ASSUME NEW f \in Sharings, NEW x1 \in Scalars, Cardinality(Signers) >= 2
    PROVE  Total([i \in Signers |-> IF i = P1 THEN Fl(f[0] + Neg(x1)) ELSE IF i = P2 THEN x1 ELSE 0], Signers) = f[0]
<1> DEFINE a == Fl(f[0] + Neg(x1))
           x == [i \in Signers |-> IF i = P1 THEN a ELSE IF i = P2 THEN x1 ELSE 0]
           A == Signers \ {P1}
           B == A \ {P2}
<1>1. P1 \in Signers /\ P2 \in A /\ IsFiniteSet(A) /\ IsFiniteSet(B)
  BY Two, SignersType, FS_Subset
<1>2. f[0] \in Int /\ f[0] \in Field /\ x1 \in Int /\ a \in Int
  <2>1. f[0] \in Int /\ f[0] \in Field /\ x1 \in Int /\ Neg(x1) \in Int
    BY BeginType, ScalarInt, FlInt
  <2>2. f[0] + Neg(x1) \in Int
    BY <2>1
  <2> QED BY <2>1, <2>2, FlInt
<1>3. a = Fl(f[0] - x1)
  BY <1>2, FlNeg
<1>4. \A i \in Signers : x[i] \in Int
  BY <1>2
<1>5. x[P1] = a /\ x[P2] = x1 /\ \A i \in B : x[i] = 0
  BY <1>1
<1> HIDE DEF x, a
<1>6. SumFunctionOnSet(x, Signers) = x[P1] + SumFunctionOnSet(x, A)
  BY <1>1, <1>4, SignersType, SumStep
<1>7. SumFunctionOnSet(x, A) = x[P2] + SumFunctionOnSet(x, B)
  <2>1. \A i \in A : x[i] \in Int
    BY <1>4
  <2> QED BY <1>1, <2>1, SumStep
<1>8. SumFunctionOnSet(x, B) = 0
  BY <1>1, <1>5, SumZero
<1>9. SumFunctionOnSet(x, Signers) = a + x1
  BY <1>2, <1>5, <1>6, <1>7, <1>8
<1>10. Fl(a + x1) = f[0]
  <2> DEFINE e == f[0]
             d == e - x1
  <2>1. e \in Int /\ d \in Int /\ a = Fl(d) /\ d + x1 = e /\ Fl(e) = e
    BY <1>2, <1>3, FlField
  <2> HIDE DEF e, d
  <2>2. Fl(Fl(d) + x1) = Fl(d + x1)
    BY <1>2, <2>1, FlAdd
  <2> QED BY <2>1, <2>2 DEF e
<1> QED BY <1>9, <1>10 DEF Total, x, a

LEMMA Xal23EquationsBegin ==
    ASSUME NEW f \in Sharings, key = f[0], Cardinality(Signers) >= 2, Xal23SignBegin(f)
    PROVE  Xal23Equations
<1>1. PICK k \in [Signers -> Scalars], gamma \in [Signers -> Blinds], x1 \in Scalars,
           sharing \in {"additive", "dkg"},
           fault \in Faults({"encrypted", "affine", "opening", "w", "delta", "partial"}) :
         know = [k |-> k, gamma |-> gamma, sharing |-> sharing, fault |-> fault,
                 x |-> IF sharing = "dkg" THEN [i \in Signers |-> Eval(f, i)]
                       ELSE [i \in Signers |-> IF i = P1 THEN Fl(f[0] + Neg(x1)) ELSE
                                               IF i = P2 THEN x1 ELSE 0]]
  BY DEF Xal23SignBegin
<1>2. k \in [Signers -> Field] /\ gamma \in [Signers -> Field]
  BY ScalarsType
<1> DEFINE dkg == [i \in Signers |-> Eval(f, i)]
           additive == [i \in Signers |-> IF i = P1 THEN Fl(f[0] + Neg(x1)) ELSE IF i = P2 THEN x1 ELSE 0]
<1>3. Total(additive, Signers) = key
  BY Xal23Dealt
<1>4. /\ know.k = k /\ know.gamma = gamma /\ know.sharing = sharing
      /\ know.x = IF sharing = "dkg" THEN dkg ELSE additive
      /\ {"fault", "sharing"} \subseteq DOMAIN know /\ stage = "xal23_presign_1"
  BY <1>1 DEF Xal23SignBegin
<1> HIDE DEF dkg, additive
<1> QED BY <1>2, <1>3, <1>4 DEF Xal23Equations, Xal23Fits

\* What is decrypted is the product and the mask, for it does not wrap.
LEMMA Xal23Decrypted ==
    ASSUME NEW a \in Field, NEW b \in Field, NEW m, Xal23Mask(m)
    PROVE  Xal23SenderShare(a, b, m) = Fl(a * b + m) /\ a * b + m \in Int
<1>1. /\ a \in Nat /\ a <= Q /\ b \in Nat /\ b <= Q /\ m \in Nat /\ m < 8 * Q * Q + Q
      /\ Q \in Nat /\ Q * Q \in Nat /\ Q <= Q * Q
  BY QAssumption, SpaceType DEF Field, Xal23Mask
<1> DEFINE c == b + 4 * Q
           p == a * c
<1>2. c \in Nat /\ c <= 5 * Q
  BY <1>1
<1>3. 5 * Q \in Nat /\ Q * (5 * Q) = 5 * (Q * Q) /\ 8 * Q * Q = 8 * (Q * Q)
  BY <1>1
<1>4. p \in Nat /\ p <= Q * (5 * Q)
  <2> HIDE DEF c
  <2> QED BY <1>1, <1>2, <1>3, ProductBound
<1>5. p = a * b + (4 * a) * Q /\ a * b \in Nat /\ 4 * a \in Nat
  BY <1>1
<1> DEFINE q2 == Q * Q
<1>6. 14 * q2 < WideN
  <2> DEFINE q3 == Q * Q * Q
  <2>1. q3 >= 3 * q2 /\ WideN > 27 * q3 /\ q3 \in Nat /\ q2 \in Nat /\ WideN \in Nat
    BY SpaceType
  <2> HIDE DEF q2, q3
  <2> QED BY <2>1
<1>7. p + m \in Nat /\ p + m < WideN
  <2>1. p <= 5 * q2 /\ m < 8 * q2 + q2 /\ q2 \in Nat /\ WideN \in Nat
    BY <1>1, <1>3, <1>4, SpaceType
  <2> HIDE DEF p, q2
  <2> QED BY <1>1, <1>4, <1>6, <2>1
<1>8. (p + m) % WideN = p + m
  <2> HIDE DEF p
  <2> QED BY <1>7, SpaceType
<1>9. Fl(p + m) = Fl(a * b + m) /\ a * b + m \in Int
  <2> DEFINE ab == a * b
             d == 4 * a
  <2>1. ab + m \in Int /\ d \in Int /\ p + m = (ab + m) + d * Q
    <3> HIDE DEF p
    <3>1. ab \in Int /\ d \in Int /\ d * Q \in Int /\ p = ab + d * Q
      BY <1>1, <1>5
    <3> HIDE DEF ab, d
    <3> QED BY <1>1, <3>1
  <2> DEFINE e == ab + m
  <2>2. e \in Int /\ p + m = e + d * Q
    BY <2>1
  <2> HIDE DEF p, ab, d, e
  <2>3. Fl(p + m) = Fl(e)
    BY <1>7, <2>1, <2>2, FlUnique
  <2> QED BY <2>2, <2>3 DEF e, ab
<1> QED BY <1>8, <1>9 DEF Xal23SenderShare

\* The signers share the product of the nonce and of what b adds up to.
LEMMA Xal23Product ==
    ASSUME know.k \in [Signers -> Field], \A p \in Pairs : Xal23Mask(know.mask[p]), know.mask \in PairInts,
           NEW b \in [Signers -> Field]
    PROVE  Total(Xal23Shares(b), Signers) = Fl(Total(know.k, Signers) * Total(b, Signers))
<1> DEFINE k == know.k
           fst == [p \in Pairs |-> MtaReceiverShare(know.mask[p])]
           snd == [p \in Pairs |-> Xal23SenderShare(k[p[1]], b[p[2]], know.mask[p])]
           h == [i \in Signers |-> [j \in Others(i) |-> MtaReceiverShare(know.mask[<<i, j>>])
                            + Xal23SenderShare(k[j], b[i], know.mask[<<j, i>>])]]
           g == Xal23Shares(b)
<1>1. k \in Ints /\ b \in Ints /\ k \in [Signers -> Field]
  BY ScalarsType DEF Ints
<1>2. ASSUME NEW p \in Pairs
      PROVE  fst[p] \in Int /\ snd[p] \in Int /\ Fl(fst[p] + snd[p]) = Fl(k[p[1]] * b[p[2]])
  <2> DEFINE m == know.mask[p]
             c == k[p[1]]
             d == b[p[2]]
             y == c * d
             z == y + m
  <2>1. c \in Field /\ d \in Field /\ Xal23Mask(m) /\ m \in Int /\ c \in Int /\ d \in Int
    <3>1. p[1] \in Signers /\ p[2] \in Signers
      BY PairsType
    <3>2. c \in Field /\ d \in Field
      BY <1>1, <3>1
    <3>3. Xal23Mask(m)
      OBVIOUS
    <3> HIDE DEF c, d, m
    <3> QED BY <3>2, <3>3, ScalarsType DEF Xal23Mask
  <2>2. fst[p] = Neg(Fl(m)) /\ snd[p] = Xal23SenderShare(c, d, m)
    BY DEF MtaReceiverShare
  <2>3. k[p[1]] * b[p[2]] = y
    OBVIOUS
  <2> HIDE DEF m, c, d, fst, snd
  <2>4. y \in Int /\ z \in Int /\ snd[p] = Fl(z)
    <3>1. y \in Int
      BY <2>1
    <3>2. snd[p] = Fl(c * d + m)
      BY <2>1, <2>2, Xal23Decrypted
    <3>3. y + m \in Int
      BY <2>1, <3>1
    <3> QED BY <3>1, <3>2, <3>3
  <2>5. z - m = y
    BY <2>1, <2>4
  <2> HIDE DEF y
  <2>6. Fl(m) \in Int /\ Neg(Fl(m)) \in Int /\ Fl(z) \in Int /\ z - m \in Int
    <3>1. Fl(m) \in Int
      BY <2>1, FlInt
    <3> QED BY <2>1, <2>4, <3>1, FlInt
  <2>7. Fl(Neg(Fl(m)) + Fl(z)) = Fl(z - m)
    <3> HIDE DEF z
    <3> DEFINE fm == Fl(m)
               fz == Fl(z)
    <3>1. fm \in Int /\ fz \in Int /\ Fl(fm) = Fl(m) /\ Fl(fz) = Fl(z) /\ m \in Int /\ z \in Int
      <4>1. Fl(m) \in Field /\ Fl(z) \in Field
        BY <2>1, <2>4, FlInt
      <4> QED BY <2>1, <2>4, <2>6, <4>1, FlField
    <3> HIDE DEF fm, fz
    <3>2. Fl(Neg(fm) + fz) = Fl(fz - fm)
      BY <3>1, FlNeg
    <3>3. Fl(fz - fm) = Fl(fz - m)
      BY <3>1, FlMinus
    <3> DEFINE n == 0 - m
    <3>5. n \in Int /\ fz - m = fz + n /\ z - m = z + n
      BY <3>1
    <3> HIDE DEF n
    <3>4. Fl(fz + n) = Fl(z + n)
      BY <3>1, <3>5, FlShift
    <3> QED BY <3>2, <3>3, <3>4, <3>5 DEF fm, fz
  <2> QED BY <2>2, <2>3, <2>4, <2>5, <2>6, <2>7
<1>3. fst \in PairInts /\ snd \in PairInts
  <2>1. \A p \in Pairs : fst[p] \in Int /\ snd[p] \in Int
    BY <1>2
  <2> QED BY <2>1 DEF PairInts
<1>4. ASSUME NEW i \in Signers, NEW j \in Others(i)
      PROVE  h[i][j] = fst[<<i, j>>] + snd[<<j, i>>]
  BY OtherPairs
<1>5. ASSUME NEW i \in Signers
      PROVE  Fl(g[i]) = Fl(k[i] * b[i] + SumFunctionOnSet(h[i], Others(i)))
  <2> DEFINE s == SumFunctionOnSet(h[i], Others(i))
             d == k[i] * b[i]
  <2>1. g[i] = Fl(d + s)
    BY DEF Xal23Shares
  <2>2. s \in Int
    <3>1. \A j \in Others(i) : h[i][j] \in Int
      <4> SUFFICES ASSUME NEW j \in Others(i) PROVE h[i][j] \in Int
        OBVIOUS
      <4>1. fst[<<i, j>>] \in Int /\ snd[<<j, i>>] \in Int /\ h[i][j] = fst[<<i, j>>] + snd[<<j, i>>]
        BY <1>2, <1>4, OtherPairs
      <4> HIDE DEF fst, snd, h
      <4> QED BY <4>1
    <3> HIDE DEF h
    <3> QED BY <3>1, OthersSum
  <2>3. d \in Int
    <3>1. k[i] \in Int /\ b[i] \in Int
      BY <1>1 DEF Ints
    <3> QED BY <3>1
  <2> HIDE DEF d, s, g
  <2>4. d + s \in Int /\ Fl(Fl(d + s)) = Fl(d + s)
    BY <2>2, <2>3, FlInt, FlField
  <2> QED BY <2>1, <2>4 DEF d, s
<1>6. g \in Ints
  BY <1>1, Xal23SharesType
<1> HIDE DEF k, fst, snd, h, g
<1>7. ProductShared(k, b, fst, snd, h, g)
  <2>1. \A p \in Pairs : Fl(fst[p] + snd[p]) = Fl(k[p[1]] * b[p[2]])
    BY <1>2
  <2>2. \A i \in Signers : \A j \in Others(i) : h[i][j] = fst[<<i, j>>] + snd[<<j, i>>]
    BY <1>4
  <2>3. \A i \in Signers : Fl(g[i]) = Fl(k[i] * b[i] + SumFunctionOnSet(h[i], Others(i)))
    BY <1>5
  <2> QED BY <1>1, <1>3, <1>6, <2>1, <2>2, <2>3 DEF ProductShared
<1>8. Total(g, Signers) = Fl(Total(k, Signers) * Total(b, Signers))
  BY <1>7, ProductShares
<1> QED BY <1>8 DEF k, g

\* Without a fault nothing is off.
LEMMA Xal23Straight ==
    ASSUME know.fault = "none", NEW v \in Ints, NEW where, where # "none",
           NEW w, w = [i \in Signers |-> Fl(v[i] + Off(i, where))]
    PROVE  Total(w, Signers) = Total(v, Signers)
<1>1. ASSUME NEW i \in Signers PROVE w[i] \in Int /\ v[i] \in Int /\ Fl(w[i]) = Fl(v[i])
  <2> DEFINE e == v[i]
  <2>1. e \in Int /\ w[i] = Fl(e + 0)
    BY DEF Off, Ints
  <2> HIDE DEF e
  <2>2. e + 0 = e /\ Fl(e) \in Int /\ Fl(Fl(e)) = Fl(e)
    BY <2>1, FlInt, FlField
  <2> QED BY <2>1, <2>2 DEF e
<1> QED BY <1>1, SignersType, TotalSame

LEMMA Xal23EquationsStep ==
    ASSUME Session, Xal23Known, Xal23Equations, Xal23SignNext, stage' # "ended"
    PROVE  Xal23Equations'
<1>0. /\ {"fault", "sharing"} \subseteq DOMAIN know
      /\ know.k \in [Signers -> Field] /\ know.gamma \in [Signers -> Field]
      /\ know.sharing = "additive" => Total(know.x, Signers) = key
  BY DEF Xal23Equations
<1>1. CASE Xal23Multiply
  <2>1. PICK least \in {m \in Masks : m < 8 * Q * Q} :
              Step("xal23_presign_1", "xal23_presign_2",
                   [mask |-> [p \in Pairs |-> least + p[1]],
                    w |-> [i \in Signers |-> Fl(know.x[i] + Off(i, "w"))]])
    BY <1>1 DEF Xal23Multiply, RefuseVictim, Return
  <2> DEFINE mask == [p \in Pairs |-> least + p[1]]
             w == [i \in Signers |-> Fl(know.x[i] + Off(i, "w"))]
  <2>2. Step("xal23_presign_1", "xal23_presign_2", [mask |-> mask, w |-> w])
    BY <2>1
  <2>3. know.x \in Ints
    BY DEF Xal23Known, Has
  <2>4. \A p \in Pairs : Xal23Mask(mask[p])
    <3> SUFFICES ASSUME NEW p \in Pairs PROVE Xal23Mask(least + p[1])
      OBVIOUS
    <3>1. least \in Nat /\ least < 8 * Q * Q /\ Q \in Nat /\ 8 * Q * Q \in Nat
      BY SigningAssumption, QAssumption, SpaceType
    <3>2. p[1] \in 1 .. Q - 1
      BY PairsType, SignersType
    <3> QED BY <3>1, <3>2 DEF Xal23Mask
  <2>5. w \in [Signers -> Field]
    <3> SUFFICES ASSUME NEW i \in Signers PROVE Fl(know.x[i] + Off(i, "w")) \in Field
      OBVIOUS
    <3>1. know.x[i] \in Int /\ Off(i, "w") \in Int
      BY <2>3, OffType DEF Ints
    <3> QED BY <3>1, FlInt
  <2>6. know.fault = "none" => Total(w, Signers) = Total(know.x, Signers)
    BY <2>3, Xal23Straight
  <2> HIDE DEF mask, w
  <2>7. /\ stage' = "xal23_presign_2" /\ key' = key /\ Signers' = Signers /\ Pairs' = Pairs
        /\ know'.mask = mask /\ know'.w = w
    BY <2>2, StepKeeps
  <2>8. know'.k = know.k /\ know'.gamma = know.gamma /\ know'.x = know.x
    BY <2>2, StepKeeps DEF Xal23Known, Has
  <2>9. know'.fault = know.fault /\ know'.sharing = know.sharing /\ {"fault", "sharing"} \subseteq DOMAIN know'
    BY <1>0, <2>2, StepKeeps
  <2> QED BY <1>0, <2>4, <2>5, <2>6, <2>7, <2>8, <2>9 DEF Xal23Equations, Xal23Fits
<1>2. CASE Xal23Decrypt
  <2> DEFINE kg == Xal23Shares(know.gamma)
             delta == [i \in Signers |-> Fl(kg[i] + Off(i, "delta"))]
             sigma == Xal23Shares(know.w)
  <2>1. Step("xal23_presign_2", "xal23_presign_3", [delta |-> delta, sigma |-> sigma])
    BY <1>2 DEF Xal23Decrypt, RefuseVictim, RefuseFaulty, Return
  <2>2. stage = "xal23_presign_2"
    BY <2>1 DEF Step
  <2>3. /\ know.mask \in PairInts /\ \A p \in Pairs : Xal23Mask(know.mask[p])
        /\ know.w \in [Signers -> Field] /\ know.k \in Ints /\ know.gamma \in Ints
        /\ know.fault = "none" => Total(know.w, Signers) = Total(know.x, Signers)
    BY <2>2 DEF Xal23Known, Has, Xal23Equations
  <2>4. know.fault = "none" => Total(delta, Signers) = Fl(Total(know.k, Signers) * Total(know.gamma, Signers))
    <3>1. Total(kg, Signers) = Fl(Total(know.k, Signers) * Total(know.gamma, Signers))
      BY <1>0, <2>3, Xal23Product
    <3>2. kg \in Ints
      BY <2>3, Xal23SharesType
    <3> HIDE DEF kg
    <3>3. know.fault = "none" => Total(delta, Signers) = Total(kg, Signers)
      BY <3>2, Xal23Straight
    <3> QED BY <3>1, <3>3
  <2>5. know.fault = "none" =>
            Total(sigma, Signers) = Fl(Total(know.x, Signers) * Total(know.k, Signers))
    <3> SUFFICES ASSUME know.fault = "none"
                 PROVE  Total(sigma, Signers) = Fl(Total(know.x, Signers) * Total(know.k, Signers))
      OBVIOUS
    <3>1. Total(sigma, Signers) = Fl(Total(know.k, Signers) * Total(know.w, Signers))
      BY <1>0, <2>3, Xal23Product
    <3> DEFINE tk == Total(know.k, Signers)
               tx == Total(know.x, Signers)
    <3>2. tk \in Int /\ tx \in Int
      BY <2>3, IntsType DEF Ints, Xal23Known, Has
    <3>3. Total(sigma, Signers) = Fl(tk * tx)
      BY <2>3, <3>1
    <3> HIDE DEF tk, tx, sigma
    <3>4. tk * tx = tx * tk
      BY <3>2
    <3> QED BY <3>3, <3>4 DEF tk, tx
  <2> HIDE DEF kg, delta, sigma
  <2>6. /\ stage' = "xal23_presign_3" /\ key' = key /\ Signers' = Signers /\ Pairs' = Pairs
        /\ know'.delta = delta /\ know'.sigma = sigma
    BY <2>1, StepKeeps
  <2>7. know'.k = know.k /\ know'.gamma = know.gamma /\ know'.x = know.x
    BY <2>1, StepKeeps DEF Xal23Known, Has
  <2>8. know'.mask = know.mask /\ know'.w = know.w
    BY <2>1, <2>2, StepKeeps DEF Xal23Known, Has
  <2>9. know'.fault = know.fault /\ know'.sharing = know.sharing /\ {"fault", "sharing"} \subseteq DOMAIN know'
    BY <1>0, <2>1, StepKeeps
  <2> QED BY <1>0, <2>3, <2>4, <2>5, <2>6, <2>7, <2>8, <2>9 DEF Xal23Equations, Xal23Fits
<1>3. CASE Xal23Presign
  <2> DEFINE delta == Total(know.delta, Signers)
             tk == Total(know.k, Signers)
             tg == Total(know.gamma, Signers)
             R == Fl(tg * Inv(delta))
  <2>1. delta # 0 /\ Step("xal23_presign_3", "xal23_sign", [R |-> R])
    BY <1>3 DEF Xal23Presign, Return
  <2>2. stage = "xal23_presign_3"
    BY <2>1 DEF Step
  <2>3. /\ know.delta \in Ints /\ know.k \in Ints /\ know.gamma \in Ints
        /\ know.fault = "none" => delta = Fl(tk * tg)
        /\ know.fault = "none" => Total(know.sigma, Signers) = Fl(Total(know.x, Signers) * tk)
        /\ \A p \in Pairs : Xal23Mask(know.mask[p])
        /\ know.w \in [Signers -> Field]
        /\ know.fault = "none" => Total(know.w, Signers) = Total(know.x, Signers)
    BY <2>2 DEF Xal23Known, Has, Xal23Equations
  <2>4. delta \in Field /\ tk \in Field /\ tg \in Field /\ tg \in Int
    BY <2>3, IntsType DEF Ints
  <2>5. know.fault = "none" => Fl(R * tk) = 1
    <3> SUFFICES ASSUME know.fault = "none" PROVE Fl(R * tk) = 1
      OBVIOUS
    <3>1. delta = Fl(tk * tg)
      BY <2>3
    <3> HIDE DEF delta, tk, tg
    <3>2. Inv(delta) \in Int
      BY <2>1, <2>4, InvInt
    <3>3. R = Fl(Inv(delta) * tg)
      <4>1. tg * Inv(delta) = Inv(delta) * tg
        BY <2>4, <3>2
      <4> QED BY <4>1
    <3> HIDE DEF R
    <3> QED BY <2>1, <2>4, <3>1, <3>3, InverseOver
  <2> HIDE DEF R, delta
  <2>6. /\ stage' = "xal23_sign" /\ key' = key /\ Signers' = Signers /\ Pairs' = Pairs
        /\ know'.R = R
    BY <2>1, StepKeeps
  <2>7. know'.k = know.k /\ know'.gamma = know.gamma /\ know'.x = know.x
    BY <2>1, StepKeeps DEF Xal23Known, Has
  <2>8. know'.mask = know.mask /\ know'.w = know.w /\ know'.delta = know.delta /\ know'.sigma = know.sigma
    BY <2>1, <2>2, StepKeeps DEF Xal23Known, Has
  <2>9. know'.fault = know.fault /\ know'.sharing = know.sharing /\ {"fault", "sharing"} \subseteq DOMAIN know'
    BY <1>0, <2>1, StepKeeps
  <2>10. know.fault = "none" => Total(know.delta, Signers) = Fl(tk * tg)
    BY <2>3 DEF delta
  <2> QED BY <1>0, <2>3, <2>5, <2>6, <2>7, <2>8, <2>9, <2>10 DEF Xal23Equations, Xal23Fits
<1>4. CASE Xal23Finish
  BY <1>4 DEF Xal23Finish, Return
<1> QED BY <1>1, <1>2, <1>3, <1>4 DEF Xal23SignNext

-----------------------------------------------------------------------------
(* KU24.                                                                    *)

\* Shares of c at degree d: those of any d + 1 signers or more interpolate to c.
SharedAt(g, d, c) ==
    /\ \A i \in Signers : g[i] \in Int
    /\ \A S \in SUBSET Signers : Cardinality(S) > d => Reconstruct(g, S) = c

\* Sharing is linear.
LEMMA SharedLinear ==
    ASSUME NEW d, NEW x \in Int, NEW y \in Int, NEW g, SharedAt(g, d, x), NEW k, SharedAt(k, d, y),
           NEW c \in Int, NEW e \in Int,
           NEW h, \A i \in Signers : h[i] \in Int /\ Fl(h[i]) = Fl(c * g[i] + e * k[i])
    PROVE  SharedAt(h, d, Fl(c * x + e * y))
<1>1. ASSUME NEW S \in SUBSET Signers, Cardinality(S) > d
      PROVE  Reconstruct(h, S) = Fl(c * x + e * y)
  <2>1. S \in SUBSET (1 .. Q - 1) /\ IsFiniteSet(S)
    BY SignersType, FS_Subset
  <2>2. \A i \in S : /\ g[i] \in Int /\ k[i] \in Int /\ h[i] \in Int
                     /\ Fl(h[i]) = Fl(c * g[i] + e * k[i])
    BY DEF SharedAt
  <2>3. Reconstruct(h, S) = Fl(c * Reconstruct(g, S) + e * Reconstruct(k, S))
    BY <2>1, <2>2, ReconstructLinear
  <2>4. Reconstruct(g, S) = x /\ Reconstruct(k, S) = y
    BY <1>1 DEF SharedAt
  <2> QED BY <2>3, <2>4
<1> QED BY <1>1 DEF SharedAt

LEMMA SharedScale ==
    ASSUME NEW d, NEW x \in Int, NEW g, SharedAt(g, d, x), NEW c \in Int,
           NEW h, \A i \in Signers : h[i] \in Int /\ Fl(h[i]) = Fl(c * g[i])
    PROVE  SharedAt(h, d, Fl(c * x))
<1>1. ASSUME NEW S \in SUBSET Signers, Cardinality(S) > d
      PROVE  Reconstruct(h, S) = Fl(c * x)
  <2>1. S \in SUBSET (1 .. Q - 1) /\ IsFiniteSet(S)
    BY SignersType, FS_Subset
  <2>2. \A i \in S : g[i] \in Int /\ h[i] \in Int /\ Fl(h[i]) = Fl(c * g[i])
    BY DEF SharedAt
  <2>3. Reconstruct(h, S) = Fl(c * Reconstruct(g, S))
    BY <2>1, <2>2, ReconstructScale
  <2>4. Reconstruct(g, S) = x
    BY <1>1 DEF SharedAt
  <2> QED BY <2>3, <2>4
<1> QED BY <1>1 DEF SharedAt

\* The same shares modulo Q.
LEMMA SharedSame ==
    ASSUME NEW d, NEW x \in Field, NEW g, SharedAt(g, d, x),
           NEW h, \A i \in Signers : h[i] \in Int /\ Fl(h[i]) = Fl(g[i])
    PROVE  SharedAt(h, d, x)
<1>1. \A i \in Signers : h[i] \in Int /\ Fl(h[i]) = Fl(1 * g[i])
  <2> TAKE i \in Signers
  <2>1. g[i] \in Int
    BY DEF SharedAt
  <2>2. 1 * g[i] = g[i]
    BY <2>1
  <2> QED BY <2>2
<1>2. x \in Int /\ 1 * x = x /\ Fl(x) = x
  BY FlField, ScalarsType
<1>3. SharedAt(h, d, Fl(1 * x))
  BY <1>1, <1>2, SharedScale
<1> QED BY <1>2, <1>3

LEMMA SharedHigher ==
    ASSUME NEW d \in Nat, NEW e \in Nat, d <= e, NEW c, NEW g, SharedAt(g, d, c)
    PROVE  SharedAt(g, e, c)
<1>1. ASSUME NEW S \in SUBSET Signers, Cardinality(S) > e PROVE Cardinality(S) > d
  <2>1. Cardinality(S) \in Nat
    BY SignersType, FS_Subset, FS_CardinalityType
  <2> QED BY <1>1, <2>1
<1> QED BY <1>1 DEF SharedAt

\* Multiplied by their indices, shares become shares of zero.
LEMMA SharedShift ==
    ASSUME NEW d \in Nat, NEW c \in Int, NEW g, SharedAt(g, d, c),
           NEW h, \A i \in Signers : h[i] \in Int /\ Fl(h[i]) = Fl(i * g[i])
    PROVE  SharedAt(h, d + 1, 0)
<1>1. ASSUME NEW S \in SUBSET Signers, Cardinality(S) > d + 1
      PROVE  Reconstruct(h, S) = 0
  <2>1. S \in SUBSET (1 .. Q - 1) /\ IsFiniteSet(S) /\ Cardinality(S) \in Nat
    BY SignersType, FS_Subset, FS_CardinalityType
  <2>2. PICK a \in S : TRUE
    <3>1. S # {}
      BY <1>1, FS_EmptySet
    <3> QED BY <3>1
  <2>3. Cardinality(S \ {a}) = Cardinality(S) - 1
    BY <2>1, FS_RemoveElement
  <2>4. Reconstruct(g, S) = c /\ Reconstruct(g, S \ {a}) = c
    <3>1. Cardinality(S) > d /\ Cardinality(S \ {a}) > d
      BY <1>1, <2>1, <2>3
    <3>2. S \ {a} \in SUBSET Signers
      OBVIOUS
    <3> QED BY <3>1, <3>2 DEF SharedAt
  <2>5. \A i \in S : g[i] \in Int /\ h[i] \in Int /\ Fl(h[i]) = Fl(i * g[i])
    BY DEF SharedAt
  <2>6. Reconstruct(h, S) = Fl(a * (Reconstruct(g, S) - Reconstruct(g, S \ {a})))
    BY <2>1, <2>5, ReconstructShift
  <2>7. a \in Int /\ a * (c - c) = 0
    BY <2>1
  <2> QED BY <2>4, <2>6, <2>7, QAssumption DEF Fl
<1> QED BY <1>1 DEF SharedAt

\* The value 1 shared at degree 0.
LEMMA SharedOnes == SharedAt([i \in Signers |-> 1], 0, 1)
<1> DEFINE g == [i \in Signers |-> 1]
<1>1. ASSUME NEW S \in SUBSET Signers, Cardinality(S) > 0 PROVE Reconstruct(g, S) = 1
  <2>1. S \in SUBSET (1 .. Q - 1) /\ IsFiniteSet(S)
    BY SignersType, FS_Subset
  <2>0. S # {}
    BY <1>1, FS_EmptySet
  <2>2. \A i \in S : g[i] = 1
    OBVIOUS
  <2> HIDE DEF g
  <2> QED BY <2>0, <2>1, <2>2, ReconstructOnes
<1> QED BY <1>1 DEF SharedAt

\* One more factor of the polynomial that vanishes on B.
LEMMA VanishingFactor ==
    ASSUME NEW B \in SUBSET Signers, NEW a \in B, NEW i \in Signers, NEW u \in Int
    PROVE  /\ Vanishing(B, i) \in Int /\ Vanishing(B \ {a}, i) \in Int /\ Inv(a) \in Int
           /\ Fl(u * Vanishing(B, i))
                = Fl(u * Vanishing(B \ {a}, i) + (-Inv(a)) * (i * (u * Vanishing(B \ {a}, i))))
<1>1. /\ B \in SUBSET (1 .. Q - 1) /\ IsFiniteSet(B) /\ IsFiniteSet(B \ {a}) /\ B \ {a} \in SUBSET (1 .. Q - 1)
      /\ i \in 1 .. Q - 1 /\ i \in Int
  BY SignersType, FS_Subset
<1> DEFINE v == Vanishing(B, i)
           w == Vanishing(B \ {a}, i)
           z == Inv(a)
           n == Neg(i)
<1>2. v \in Int /\ w \in Int
  BY <1>1, VanishingType
<1>3. a \in Int /\ a \in Field /\ a # 0 /\ Fl(a) # 0
  <2>1. a \in Int /\ a \in Field /\ a # 0
    BY <1>1, QAssumption DEF Field
  <2> QED BY <2>1, FlField
<1>4. z \in Int /\ Fl(a * z) = 1
  BY <1>3, InvType, ScalarsType
<1>5. n \in Int /\ Fl(n) = Fl(-i)
  BY <1>1, NegType, ScalarsType
<1>6. v = Fl(((a + n) * z) * w)
  BY <1>1, VanishingStep
<1> HIDE DEF v, w, z, n
<1> DEFINE uw == u * w
           an == (a + n) * z
           az == a * z
           iz == -(i * z)
<1>7. uw \in Int /\ an \in Int /\ az \in Int /\ iz \in Int /\ an * w \in Int
  <2>1. uw \in Int /\ az \in Int /\ iz \in Int
    BY <1>1, <1>2, <1>3, <1>4
  <2>2. a + n \in Int
    BY <1>3, <1>5
  <2>3. an \in Int
    BY <1>4, <2>2
  <2> HIDE DEF an
  <2> QED BY <1>2, <2>1, <2>3
<1>8. Fl(an) = Fl(1 + iz)
  <2> DEFINE nz == n * z
             mi == -i
  <2>1. an = az + nz /\ nz \in Int /\ mi \in Int /\ mi * z = iz
    BY <1>1, <1>3, <1>4, <1>5
  <2>2. Fl(nz) = Fl(mi * z)
    <3>1. mi \in Int /\ Fl(n) = Fl(mi)
      BY <1>5, <2>1
    <3> HIDE DEF mi
    <3> QED BY <1>4, <1>5, <3>1, FlScale
  <2>3. Fl(az) = Fl(1)
    BY <1>4, FlField, QAssumption DEF Field
  <2> HIDE DEF nz, mi, an, az, iz
  <2> QED BY <1>7, <2>1, <2>2, <2>3, FlSum
<1>9. Fl(u * v) = Fl(u * (an * w))
  <2> DEFINE q == an * w
  <2>1. v = Fl(q) /\ q \in Int
    BY <1>6, <1>7
  <2> HIDE DEF q
  <2>2. Fl(u * Fl(q)) = Fl(u * q)
    BY <2>1, FlMulRight
  <2> QED BY <2>1, <2>2 DEF q
<1>10. u * (an * w) = an * uw
  <2> HIDE DEF an
  <2> QED BY <1>2, <1>7
<1>11. Fl(an * uw) = Fl((1 + iz) * uw)
  <2> DEFINE e == 1 + iz
  <2>1. e \in Int /\ Fl(an) = Fl(e)
    BY <1>7, <1>8
  <2> HIDE DEF e, an, uw
  <2>2. Fl(an * uw) = Fl(e * uw)
    BY <1>7, <2>1, FlScale
  <2> QED BY <2>2 DEF e
<1>12. (1 + iz) * uw = uw + (-z) * (i * uw)
  <2>1. uw \in Int /\ i \in Int /\ z \in Int
    BY <1>1, <1>4, <1>7
  <2> HIDE DEF uw
  <2> QED BY <2>1
<1>13. Fl(u * v) = Fl(uw + (-z) * (i * uw))
  BY <1>9, <1>10, <1>11, <1>12
<1> QED BY <1>2, <1>4, <1>13 DEF v, w, z

\* Multiplied by a polynomial that is 1 at 0, shares stay shares of the same value.
LEMMA SharedVanishing ==
    ASSUME NEW d \in Nat, NEW c \in Field, NEW g, SharedAt(g, d, c), NEW B \in SUBSET Signers
    PROVE  SharedAt([i \in Signers |-> g[i] * Vanishing(B, i)], d + Cardinality(B), c)
<1> DEFINE h(A) == [i \in Signers |-> g[i] * Vanishing(A, i)]
           P == {A \in SUBSET Signers : SharedAt(h(A), d + Cardinality(A), c)}
<1>1. c \in Int /\ \A i \in Signers : g[i] \in Int /\ i \in Int
  BY SignersType, ScalarsType DEF SharedAt
<1>2. ASSUME NEW A \in SUBSET Signers, \A x \in A : A \ {x} \in P
      PROVE  A \in P
  <2>1. CASE A = {}
    <3>1. \A i \in Signers : h(A)[i] \in Int /\ h(A)[i] = g[i]
      <4> TAKE i \in Signers
      <4>1. Vanishing(A, i) = 1
        BY <2>1, ProductEmpty DEF Vanishing
      <4> QED BY <1>1, <4>1
    <3>2. Cardinality(A) = 0
      BY <2>1, FS_EmptySet
    <3>3. d + 0 = d
      OBVIOUS
    <3> DEFINE k == h(A)
    <3> HIDE DEF h
    <3>4. SharedAt(k, d, c)
      BY <3>1, SharedSame
    <3> QED BY <3>2, <3>3, <3>4
  <2>2. CASE A # {}
    <3>1. PICK a \in A : TRUE
      BY <2>2
    <3> DEFINE C == A \ {a}
               u == h(C)
               k == h(A)
               e == d + Cardinality(C)
    <3>2. SharedAt(u, e, c)
      BY <1>2, <3>1
    <3>3. /\ C \in SUBSET Signers /\ Cardinality(C) \in Nat /\ Cardinality(A) \in Nat
          /\ Cardinality(C) = Cardinality(A) - 1
      BY <3>1, SignersType, FS_Subset, FS_CardinalityType, FS_RemoveElement
    <3>4. e \in Nat /\ e + 1 = d + Cardinality(A)
      BY <3>3
    <3> DEFINE su == [i \in Signers |-> i * u[i]]
               z == Inv(a)
    <3>5. \A i \in Signers : /\ u[i] \in Int /\ k[i] \in Int /\ z \in Int
                             /\ Fl(k[i]) = Fl(u[i] + (-z) * (i * u[i]))
      <4> TAKE i \in Signers
      <4> DEFINE x == g[i]
      <4>1. x \in Int
        BY <1>1
      <4> HIDE DEF x
      <4>2. /\ Vanishing(A, i) \in Int /\ Vanishing(C, i) \in Int /\ z \in Int
            /\ Fl(x * Vanishing(A, i)) = Fl(x * Vanishing(C, i) + (-z) * (i * (x * Vanishing(C, i))))
        BY <3>1, <4>1, VanishingFactor
      <4>3. u[i] = x * Vanishing(C, i) /\ k[i] = x * Vanishing(A, i)
        BY DEF x
      <4>4. x * Vanishing(A, i) \in Int /\ x * Vanishing(C, i) \in Int
        BY <4>1, <4>2
      <4> HIDE DEF u, k, z, C
      <4> QED BY <4>2, <4>3, <4>4
    <3> HIDE DEF u, k, z, e, h, P
    <3>6. z \in Int /\ -z \in Int
      BY <3>1, <3>5
    <3>7. \A i \in Signers : su[i] \in Int /\ Fl(su[i]) = Fl(i * u[i])
      BY <1>1, <3>5
    <3> DEFINE one == 1
               mz == -z
               zero == 0
    <3>8. \A i \in Signers : k[i] \in Int /\ Fl(k[i]) = Fl(one * u[i] + mz * su[i])
      <4> TAKE i \in Signers
      <4>1. one * u[i] = u[i] /\ su[i] = i * u[i]
        BY <3>5
      <4> QED BY <3>5, <4>1
    <3> HIDE DEF su
    <3>9. SharedAt(su, e + 1, 0)
      BY <1>1, <3>2, <3>4, <3>7, SharedShift
    <3>10. SharedAt(u, e + 1, c)
      BY <3>2, <3>4, SharedHigher
    <3>11. one * c + mz * zero = c /\ Fl(c) = c /\ one \in Int /\ mz \in Int /\ zero \in Int
      BY <1>1, <3>6, FlField
    <3>12. SharedAt(k, e + 1, c)
      <4> DEFINE d1 == e + 1
      <4>1. SharedAt(su, d1, zero) /\ SharedAt(u, d1, c)
        BY <3>9, <3>10
      <4>2. c \in Int
        BY <1>1
      <4> HIDE DEF one, mz, zero, d1
      <4>3. SharedAt(k, d1, Fl(one * c + mz * zero))
        BY <3>8, <3>11, <4>1, <4>2, SharedLinear
      <4> QED BY <3>11, <4>3 DEF d1
    <3>13. SharedAt(h(A), d + Cardinality(A), c)
      BY <3>4, <3>12 DEF k
    <3> QED BY <3>13 DEF P
  <2> QED BY <2>1, <2>2
<1>3. P \in SUBSET SUBSET Signers
  OBVIOUS
<1> HIDE DEF P
<1>4. P = SUBSET Signers
  <2>1. \A A \in SUBSET Signers : (\A x \in A : A \ {x} \in P) => A \in P
    BY <1>2
  <2>2. IsFiniteSet(Signers)
    BY SignersType
  <2> QED BY <1>3, <2>1, <2>2, SubsetInduction
<1>5. B \in P
  BY <1>4
<1> QED BY <1>5 DEF P

\* What several sharings add up to.
LEMMA SharedTotal ==
    ASSUME NEW d, NEW D, IsFiniteSet(D), NEW c, \A j \in D : c[j] \in Int,
           NEW F, \A j \in D : SharedAt(F[j], d, c[j]),
           NEW h, \A i \in Signers : h[i] \in Int /\ Fl(h[i]) = Total([j \in D |-> F[j][i]], D)
    PROVE  SharedAt(h, d, Total(c, D))
<1>1. ASSUME NEW S \in SUBSET Signers, Cardinality(S) > d
      PROVE  Reconstruct(h, S) = Total(c, D)
  <2>1. S \in SUBSET (1 .. Q - 1) /\ IsFiniteSet(S)
    BY SignersType, FS_Subset
  <2>2. \A j \in D : \A i \in S : F[j][i] \in Int
    BY DEF SharedAt
  <2> DEFINE r == [j \in D |-> Reconstruct(F[j], S)]
  <2>3. Reconstruct(h, S) = Total(r, D)
    BY <2>1, <2>2, ReconstructTotal
  <2>4. \A j \in D : r[j] \in Int /\ c[j] \in Int /\ Fl(r[j]) = Fl(c[j])
    BY <1>1 DEF SharedAt
  <2> HIDE DEF r
  <2>5. Total(r, D) = Total(c, D)
    BY <2>4, TotalSame
  <2> QED BY <2>3, <2>5
<1> QED BY <1>1 DEF SharedAt

LEMMA Ku24SubsetsType ==
    /\ IsFiniteSet(Ku24Subsets) /\ Ku24Degree \in Nat /\ Ku24Degree + 1 = T
    /\ \A A \in Ku24Subsets : /\ Signers \ A \in SUBSET Signers
                              /\ Cardinality(Signers \ A) = Ku24Degree
<1>1. IsFiniteSet(Ku24Subsets)
  <2> DEFINE D == SUBSET Signers
  <2>1. IsFiniteSet(D) /\ Ku24Subsets \in SUBSET D
    BY SignersType, FS_SUBSET DEF Ku24Subsets
  <2> HIDE DEF D
  <2> QED BY <2>1, FS_Subset
<1>2. Ku24Degree \in Nat /\ Ku24Degree + 1 = T
  BY SigningAssumption DEF Ku24Degree
<1>3. ASSUME NEW A \in Ku24Subsets PROVE Cardinality(Signers \ A) = Ku24Degree
  <2> DEFINE B == Signers \ A
  <2>1. A \in SUBSET Signers /\ Cardinality(A) = Cardinality(Signers) - Ku24Degree
    BY DEF Ku24Subsets
  <2>2. IsFiniteSet(A) /\ IsFiniteSet(B) /\ Cardinality(A) \in Nat /\ Cardinality(B) \in Nat
    BY <2>1, SignersType, FS_Subset, FS_CardinalityType
  <2>3. A \cap B = {} /\ A \cup B = Signers
    BY <2>1
  <2> HIDE DEF B
  <2>4. Cardinality(A \cup B) = Cardinality(A) + Cardinality(B) - Cardinality(A \cap B)
    BY <2>2, FS_Union
  <2>5. Cardinality(Signers) = Cardinality(A) + Cardinality(B) - 0
    BY <2>3, <2>4, FS_EmptySet
  <2>6. Cardinality(B) = Ku24Degree
    BY <1>2, <2>1, <2>2, <2>5, SignersType
  <2> QED BY <2>6 DEF B
<1> QED BY <1>1, <1>2, <1>3

\* A pseudo-random share, with the sets a party is not in counted at zero.
LEMMA Ku24RandTotal ==
    ASSUME NEW prf \in [Ku24Subsets -> Int], NEW i \in Signers
    PROVE  /\ Ku24Rand(prf, i) \in Field /\ Ku24Rand(prf, i) \in Int
           /\ \A A \in Ku24Subsets : Vanishing(Signers \ A, i) \in Int
           /\ Ku24Rand(prf, i) = Total([A \in Ku24Subsets |-> prf[A] * Vanishing(Signers \ A, i)], Ku24Subsets)
<1> DEFINE C == {B \in Ku24Subsets : i \in B}
           all == [A \in Ku24Subsets |-> prf[A] * Vanishing(Signers \ A, i)]
           seen == [A \in C |-> prf[A] * Ku24Fa(A, i)]
<1>1. \A A \in Ku24Subsets : /\ Ku24Fa(A, i) = Vanishing(Signers \ A, i)
                             /\ Vanishing(Signers \ A, i) \in Int
                             /\ i \notin A => Vanishing(Signers \ A, i) = 0
  <2> TAKE A \in Ku24Subsets
  <2> DEFINE B == Signers \ A
  <2>1. B \in SUBSET (1 .. Q - 1) /\ IsFiniteSet(B) /\ i \in 1 .. Q - 1
    BY SignersType, FS_Subset
  <2>2. Ku24Fa(A, i) = Vanishing(B, i)
    BY DEF Ku24Fa, Vanishing
  <2>3. i \notin A => i \in B
    OBVIOUS
  <2> HIDE DEF B
  <2>4. Vanishing(B, i) \in Int /\ (i \notin A => Vanishing(B, i) = 0)
    BY <2>1, <2>3, VanishingType
  <2> QED BY <2>2, <2>4 DEF B
<1>2. \A A \in Ku24Subsets : all[A] \in Int /\ (i \notin A => all[A] = 0)
  <2> TAKE A \in Ku24Subsets
  <2> DEFINE a == prf[A]
             b == Vanishing(Signers \ A, i)
  <2>1. a \in Int /\ b \in Int /\ all[A] = a * b /\ (i \notin A => b = 0)
    BY <1>1
  <2> HIDE DEF a, b, all
  <2> QED BY <2>1
<1>3. C \in SUBSET Ku24Subsets /\ \A A \in C : seen[A] = all[A]
  BY <1>1
<1>4. \A A \in Ku24Subsets \ C : Fl(all[A]) = 0
  <2> TAKE A \in Ku24Subsets \ C
  <2>1. all[A] = 0
    BY <1>2
  <2> HIDE DEF all
  <2> QED BY <2>1, QAssumption DEF Fl
<1>5. Ku24Rand(prf, i) = Total(seen, C)
  BY DEF Ku24Rand
<1> HIDE DEF C, all, seen
<1>6. Total(all, Ku24Subsets) = Total(seen, C)
  BY <1>2, <1>3, <1>4, Ku24SubsetsType, TotalWhere
<1>7. Total(all, Ku24Subsets) \in Field
  BY <1>2, Ku24SubsetsType, TotalType
<1>8. Total(all, Ku24Subsets) \in Int
  BY <1>7, ScalarsType
<1> QED BY <1>1, <1>5, <1>6, <1>7, <1>8 DEF all

\* The product of shares and pseudo-random shares: the degrees add up, and the
\* values multiply.
LEMMA SharedTimesRand ==
    ASSUME NEW d \in Nat, NEW c \in Field, NEW g, SharedAt(g, d, c),
           NEW prf \in [Ku24Subsets -> Int],
           NEW h, \A i \in Signers : h[i] \in Int /\ Fl(h[i]) = Fl(g[i] * Ku24Rand(prf, i))
    PROVE  SharedAt(h, d + Ku24Degree, Fl(c * Total(prf, Ku24Subsets)))
<1> DEFINE scaled == [A \in Ku24Subsets |-> [i \in Signers |-> prf[A] * g[i]]]
           F == [A \in Ku24Subsets |-> [i \in Signers |-> scaled[A][i] * Vanishing(Signers \ A, i)]]
           v == [A \in Ku24Subsets |-> Fl(prf[A] * c)]
           e == d + Ku24Degree
<1>1. c \in Int /\ \A i \in Signers : g[i] \in Int
  BY ScalarsType DEF SharedAt
<1>2. \A A \in Ku24Subsets : prf[A] \in Int /\ prf[A] * c \in Int
  BY <1>1
<1>3. \A A \in Ku24Subsets : v[A] \in Field /\ v[A] \in Int
  BY <1>2, FlInt
<1>4. ASSUME NEW A \in Ku24Subsets PROVE SharedAt(F[A], e, v[A])
  <2> DEFINE k == [i \in Signers |-> prf[A] * g[i]]
             p == prf[A]
  <2>1. \A i \in Signers : k[i] \in Int /\ Fl(k[i]) = Fl(p * g[i])
    BY <1>1, <1>2
  <2>2. p \in Int /\ v[A] = Fl(p * c)
    BY <1>2
  <2>3. F[A] = [i \in Signers |-> k[i] * Vanishing(Signers \ A, i)]
    OBVIOUS
  <2> HIDE DEF k, p, F, v
  <2>4. SharedAt(k, d, v[A])
    BY <1>1, <2>1, <2>2, SharedScale
  <2> DEFINE B == Signers \ A
  <2>5. B \in SUBSET Signers /\ Cardinality(B) = Ku24Degree /\ F[A] = [i \in Signers |-> k[i] * Vanishing(B, i)]
    BY <2>3, Ku24SubsetsType
  <2> HIDE DEF B, e
  <2>6. SharedAt([i \in Signers |-> k[i] * Vanishing(B, i)], d + Cardinality(B), v[A])
    BY <1>3, <2>4, <2>5, SharedVanishing
  <2> QED BY <2>5, <2>6 DEF e
<1>5. ASSUME NEW i \in Signers
      PROVE  h[i] \in Int /\ Fl(h[i]) = Total([A \in Ku24Subsets |-> F[A][i]], Ku24Subsets)
  <2> DEFINE x == g[i]
             f == [A \in Ku24Subsets |-> prf[A] * Vanishing(Signers \ A, i)]
             u == [A \in Ku24Subsets |-> F[A][i]]
  <2>1. x \in Int /\ \A A \in Ku24Subsets : Vanishing(Signers \ A, i) \in Int
    BY <1>1, Ku24RandTotal
  <2>2. \A A \in Ku24Subsets : f[A] \in Int /\ u[A] \in Int /\ Fl(u[A]) = Fl(x * f[A])
    <3> TAKE A \in Ku24Subsets
    <3> DEFINE p == prf[A]
               y == Vanishing(Signers \ A, i)
    <3>1. p \in Int /\ y \in Int /\ f[A] = p * y /\ u[A] = (p * x) * y
      BY <1>2, <2>1
    <3> HIDE DEF p, y, f, u, x
    <3>2. p * y \in Int /\ (p * x) * y \in Int /\ (p * x) * y = x * (p * y)
      BY <2>1, <3>1
    <3> QED BY <3>1, <3>2
  <2>3. Ku24Rand(prf, i) = Total(f, Ku24Subsets)
    BY Ku24RandTotal
  <2>4. h[i] \in Int /\ Fl(h[i]) = Fl(x * Ku24Rand(prf, i))
    OBVIOUS
  <2> HIDE DEF x, f
  <2>5. Total(u, Ku24Subsets) = Fl(x * Total(f, Ku24Subsets))
    <3> HIDE DEF u
    <3> QED BY <2>1, <2>2, Ku24SubsetsType, TotalScale
  <2> QED BY <2>3, <2>4, <2>5
<1>6. Total(v, Ku24Subsets) = Fl(c * Total(prf, Ku24Subsets))
  <2>1. \A A \in Ku24Subsets : prf[A] \in Int /\ v[A] \in Int /\ Fl(v[A]) = Fl(c * prf[A])
    <3> TAKE A \in Ku24Subsets
    <3> DEFINE y == prf[A]
    <3>1. y \in Int /\ v[A] = Fl(y * c) /\ v[A] \in Field /\ v[A] \in Int
      BY <1>2, <1>3
    <3> HIDE DEF y, v
    <3>2. y * c = c * y
      BY <1>1, <3>1
    <3>3. Fl(v[A]) = v[A]
      BY <3>1, FlField
    <3> QED BY <3>1, <3>2, <3>3 DEF y
  <2> HIDE DEF v
  <2> QED BY <1>1, <2>1, Ku24SubsetsType, TotalScale
<1> HIDE DEF F, v, e
<1>7. SharedAt(h, e, Total(v, Ku24Subsets))
  BY <1>3, <1>4, <1>5, Ku24SubsetsType, SharedTotal
<1> QED BY <1>6, <1>7 DEF e

\* PrssKeys::rand gives a sharing, at degree t.
LEMMA SharedRand ==
    ASSUME NEW prf \in [Ku24Subsets -> Int]
    PROVE  /\ Total(prf, Ku24Subsets) \in Field
           /\ SharedAt([i \in Signers |-> Ku24Rand(prf, i)], Ku24Degree, Total(prf, Ku24Subsets))
<1> DEFINE one == [i \in Signers |-> 1]
           g == [i \in Signers |-> Ku24Rand(prf, i)]
           c == Total(prf, Ku24Subsets)
<1>1. c \in Field
  <2>1. \A A \in Ku24Subsets : prf[A] \in Int
    OBVIOUS
  <2> QED BY <2>1, Ku24SubsetsType, TotalType
<1>2. \A i \in Signers : g[i] \in Int /\ Fl(g[i]) = Fl(one[i] * Ku24Rand(prf, i))
  <2> TAKE i \in Signers
  <2>1. Ku24Rand(prf, i) \in Int
    BY Ku24RandTotal
  <2>2. one[i] * Ku24Rand(prf, i) = Ku24Rand(prf, i)
    BY <2>1
  <2> QED BY <2>1, <2>2
<1>3. SharedAt(one, 0, 1)
  BY SharedOnes
<1>4. 1 \in Field /\ 0 \in Nat
  BY QAssumption DEF Field
<1> HIDE DEF one, g
<1>5. SharedAt(g, 0 + Ku24Degree, Fl(1 * Total(prf, Ku24Subsets)))
  BY <1>2, <1>3, <1>4, SharedTimesRand
<1>6. 0 + Ku24Degree = Ku24Degree /\ Fl(1 * c) = c
  <2>1. c \in Int /\ Fl(c) = c
    BY <1>1, FlField, ScalarsType
  <2> HIDE DEF c
  <2>2. 1 * c = c
    BY <2>1
  <2> QED BY <2>1, <2>2, Ku24SubsetsType
<1> QED BY <1>1, <1>5, <1>6 DEF g

\* Multiplied by powers of their indices, shares become shares of zero.
LEMMA SharedPower ==
    ASSUME NEW d \in Nat, NEW c \in Field, NEW g, SharedAt(g, d, c), NEW l \in Nat
    PROVE  SharedAt([i \in Signers |-> XPow(i, l + 1) * g[i]], d + l + 1, 0)
<1> DEFINE h(n) == [i \in Signers |-> XPow(i, n + 1) * g[i]]
           P == {n \in Nat : SharedAt(h(n), d + n + 1, 0)}
<1>1. c \in Int /\ \A i \in Signers : g[i] \in Int /\ i \in Int
  BY SignersType, ScalarsType DEF SharedAt
<1>2. \A n \in Nat : \A i \in Signers : /\ XPow(i, n) \in Int
                                       /\ XPow(i, 0) = 1 /\ XPow(i, n + 1) = Fl(i * XPow(i, n))
  BY <1>1, XPowStep, ScalarsType
<1>3. ASSUME NEW n \in Nat, NEW u, NEW e \in Nat, NEW v \in Int, SharedAt(u, e, v),
             \A i \in Signers : u[i] = XPow(i, n) * g[i]
      PROVE  SharedAt(h(n), e + 1, 0)
  <2> DEFINE k == h(n)
  <2>1. \A i \in Signers : k[i] \in Int /\ Fl(k[i]) = Fl(i * u[i])
    <3> TAKE i \in Signers
    <3> DEFINE x == XPow(i, n)
               y == g[i]
    <3>1. x \in Int /\ y \in Int /\ i \in Int /\ u[i] = x * y
      BY <1>1, <1>2, <1>3
    <3>2. k[i] = Fl(i * x) * y
      BY <1>2
    <3> HIDE DEF x, y, k
    <3> DEFINE ix == i * x
    <3>3. ix \in Int /\ ix * y \in Int /\ ix * y = i * (x * y)
      BY <3>1
    <3> HIDE DEF ix
    <3>4. Fl(Fl(ix) * y) = Fl(ix * y)
      BY <3>1, <3>3, FlMul
    <3>5. Fl(ix) \in Int
      BY <3>3, FlInt
    <3>6. Fl(ix) * y \in Int
      BY <3>1, <3>5
    <3> QED BY <3>1, <3>2, <3>3, <3>4, <3>6 DEF ix
  <2> HIDE DEF k
  <2>2. SharedAt(k, e + 1, 0)
    BY <1>3, <2>1, SharedShift
  <2> QED BY <2>2 DEF k
<1>4. 0 \in P
  <2>1. \A i \in Signers : g[i] = XPow(i, 0) * g[i]
    <3> TAKE i \in Signers
    <3>1. XPow(i, 0) = 1 /\ g[i] \in Int
      BY <1>1, <1>2
    <3> QED BY <3>1
  <2> HIDE DEF h
  <2>2. SharedAt(h(0), d + 1, 0)
    BY <1>1, <1>3, <2>1
  <2>3. d + 0 + 1 = d + 1
    OBVIOUS
  <2> QED BY <2>2, <2>3
<1>5. ASSUME NEW n \in P PROVE n + 1 \in P
  <2> DEFINE m == n + 1
             e == d + n + 1
             u == h(n)
  <2>1. m \in Nat /\ e \in Nat /\ d + m + 1 = e + 1
    OBVIOUS
  <2>2. SharedAt(u, e, 0)
    OBVIOUS
  <2>3. \A i \in Signers : u[i] = XPow(i, m) * g[i]
    OBVIOUS
  <2> HIDE DEF m, e, u, h
  <2>4. SharedAt(h(m), e + 1, 0)
    BY <1>3, <2>1, <2>2, <2>3
  <2> QED BY <2>1, <2>4 DEF m
<1>6. P \in SUBSET Nat
  OBVIOUS
<1> HIDE DEF P
<1>7. P = Nat
  BY <1>4, <1>5, <1>6, NaturalSetInduction
<1>8. l \in P
  BY <1>7
<1> QED BY <1>8 DEF P

\* PrssKeys::zero gives a sharing of zero, at degree 2t.
LEMMA SharedZero ==
    ASSUME NEW prf \in [1 .. Ku24Degree -> [Ku24Subsets -> Int]]
    PROVE  SharedAt([i \in Signers |-> Ku24Zero(prf, i)], 2 * Ku24Degree, 0)
<1> DEFINE D == 1 .. Ku24Degree
           F == [l \in D |-> [i \in Signers |-> XPow(i, l) * Ku24Rand(prf[l], i)]]
           c == [l \in D |-> 0]
           h == [i \in Signers |-> Ku24Zero(prf, i)]
           e == 2 * Ku24Degree
<1>1. Ku24Degree \in Nat /\ IsFiniteSet(D) /\ e \in Nat
  BY Ku24SubsetsType, FS_Interval
<1>2. ASSUME NEW l \in D PROVE SharedAt(F[l], e, c[l])
  <2> DEFINE g == [i \in Signers |-> Ku24Rand(prf[l], i)]
             n == l - 1
             v == Total(prf[l], Ku24Subsets)
             t == Ku24Degree
  <2>1. n \in Nat /\ n + 1 = l /\ l <= t /\ t \in Nat
    BY <1>1
  <2>2. v \in Field /\ SharedAt(g, t, v)
    BY SharedRand
  <2>3. F[l] = [i \in Signers |-> XPow(i, l) * g[i]]
    OBVIOUS
  <2> HIDE DEF g, v, n, F, D
  <2>4. SharedAt([i \in Signers |-> XPow(i, n + 1) * g[i]], t + n + 1, 0)
    BY <2>1, <2>2, SharedPower
  <2>5. t + n + 1 \in Nat /\ t + n + 1 <= e
    BY <2>1
  <2>6. SharedAt(F[l], t + n + 1, 0)
    BY <2>1, <2>3, <2>4
  <2> DEFINE d == t + n + 1
  <2> HIDE DEF d, e, t
  <2>7. SharedAt(F[l], d, 0) /\ d \in Nat /\ d <= e
    BY <2>5, <2>6 DEF d
  <2>8. SharedAt(F[l], e, 0)
    BY <1>1, <2>7, SharedHigher
  <2> QED BY <2>8
<1>3. ASSUME NEW i \in Signers
      PROVE  h[i] \in Int /\ Fl(h[i]) = Total([l \in D |-> F[l][i]], D)
  <2>1. h[i] \in Field /\ h[i] \in Int
    BY Ku24ZeroType
  <2>2. [l \in D |-> F[l][i]] = [l \in D |-> XPow(i, l) * Ku24Rand(prf[l], i)]
    OBVIOUS
  <2>3. h[i] = Total([l \in D |-> XPow(i, l) * Ku24Rand(prf[l], i)], D)
    BY DEF Ku24Zero
  <2> HIDE DEF h, F, D
  <2> QED BY <2>1, <2>2, <2>3, FlField
<1>4. Total(c, D) = 0
  <2>1. \A l \in D : c[l] = 0
    OBVIOUS
  <2> HIDE DEF c, D
  <2>2. SumFunctionOnSet(c, D) = 0
    BY <1>1, <2>1, SumZero
  <2> QED BY <2>2, QAssumption DEF Total, Fl
<1>5. \A l \in D : c[l] \in Int
  OBVIOUS
<1> HIDE DEF D, F, c, h, e
<1>6. SharedAt(h, e, Total(c, D))
  BY <1>1, <1>2, <1>3, <1>5, SharedTotal
<1> QED BY <1>4, <1>6 DEF h, e

\* What is opened is the value, and it is consistent.
LEMMA SharedOpens ==
    ASSUME NEW d \in Nat, d < Cardinality(Signers), NEW c, NEW g, SharedAt(g, d, c)
    PROVE  Ku24Opened(g, d) = c /\ Ku24Consistent(g, d)
<1> DEFINE n == d + 1
           S == {i \in Signers : Position(i) <= n}
<1>1. n \in 0 .. Cardinality(Signers) /\ n > d
  BY SignersType
<1>2. Ku24Opened(g, d) = Reconstruct(g, S) /\ S \in SUBSET Signers
  BY DEF Ku24Opened
<1>3. Cardinality(S) = n
  <2> HIDE DEF n
  <2> QED BY <1>1, FirstPositions
<1>4. Reconstruct(g, S) = c
  <2> HIDE DEF S, n
  <2> QED BY <1>1, <1>2, <1>3 DEF SharedAt
<1>5. ASSUME NEW U \in SUBSET Signers, Cardinality(U) = n PROVE Reconstruct(g, U) = c
  <2> HIDE DEF n
  <2> QED BY <1>1, <1>5 DEF SharedAt
<1> QED BY <1>2, <1>4, <1>5 DEF Ku24Consistent

\* One wrong share among at least d + 2 is found.
LEMMA SharedFindsTheFault ==
    ASSUME NEW d \in Nat, d + 2 <= Cardinality(Signers), NEW c, NEW f \in [Signers -> Field], SharedAt(f, d, c),
           NEW v \in Signers, NEW g \in [Signers -> Field], \A i \in Signers \ {v} : g[i] = f[i],
           Ku24Consistent(g, d)
    PROVE  g[v] = f[v]
<1> DEFINE n == Cardinality(Signers)
           e == d + 1
<1>1. n \in Nat /\ e \in Nat /\ e > d /\ e >= 1 /\ e <= n - 1
  BY SignersType
<1>2. IsFiniteSet(Signers \ {v}) /\ Cardinality(Signers \ {v}) = n - 1
  BY SignersType, FS_RemoveElement
<1>3. e \in 0 .. Cardinality(Signers \ {v})
  BY <1>1, <1>2
<1>4. PICK U \in SUBSET (Signers \ {v}) : IsFiniteSet(U) /\ Cardinality(U) = e
  <2> HIDE DEF e
  <2> QED BY <1>2, <1>3, SubsetOfSize
<1>5. PICK u \in U : TRUE
  BY <1>1, <1>4, FS_EmptySet
<1> DEFINE S == (U \ {u}) \cup {v}
<1>6. S \in SUBSET Signers /\ v \in S /\ IsFiniteSet(S) /\ Cardinality(S) = e
  <2>1. IsFiniteSet(U \ {u}) /\ Cardinality(U \ {u}) = e - 1
    BY <1>4, <1>5, FS_RemoveElement
  <2>2. IsFiniteSet(S) /\ Cardinality(S) = (e - 1) + 1
    BY <1>4, <2>1, FS_AddElement
  <2> QED BY <1>1, <1>4, <2>2
<1>7. U \in SUBSET Signers /\ U \in SUBSET (1 .. Q - 1) /\ S \in SUBSET (1 .. Q - 1)
  BY <1>4, <1>6, SignersType
<1> HIDE DEF S, n, e
<1>8. Reconstruct(f, U) = c /\ Reconstruct(f, S) = c
  BY <1>1, <1>4, <1>6, <1>7 DEF SharedAt
<1>9. Reconstruct(g, U) = Reconstruct(f, U)
  <2>1. \A i \in U : g[i] = f[i] /\ g[i] \in Int /\ f[i] \in Int
    BY <1>4, ScalarsType
  <2>2. \A i \in U : f[i] \in Int /\ g[i] \in Int /\ Fl(g[i]) = Fl(1 * f[i])
    <3> TAKE i \in U
    <3>1. 1 * f[i] = f[i]
      BY <2>1
    <3> QED BY <2>1, <3>1
  <2>3. Reconstruct(g, U) = Fl(1 * Reconstruct(f, U))
    BY <1>4, <1>7, <2>2, ReconstructScale
  <2>4. Reconstruct(f, U) \in Field /\ Reconstruct(f, U) \in Int
    BY <1>7, <2>1, ReconstructInt
  <2>5. 1 * Reconstruct(f, U) = Reconstruct(f, U)
    BY <2>4
  <2> QED BY <2>3, <2>4, <2>5, FlField
<1>10. Reconstruct(g, S) = Reconstruct(g, U)
  BY <1>4, <1>6, <1>7 DEF Ku24Consistent, e
<1>11. \A i \in S : f[i] \in Field /\ g[i] \in Field
  BY <1>6
<1>12. \A i \in S \ {v} : f[i] = g[i]
  BY <1>6
<1>13. f[v] = g[v]
  BY <1>6, <1>7, <1>8, <1>9, <1>10, <1>11, <1>12, ReconstructOneWrong
<1> QED BY <1>13

\* Addition and subtraction of sharings.
LEMMA SharedSum ==
    ASSUME NEW d, NEW x \in Int, NEW y \in Int, NEW g, SharedAt(g, d, x), NEW k, SharedAt(k, d, y),
           NEW h, \A i \in Signers : h[i] \in Int /\ Fl(h[i]) = Fl(g[i] + k[i])
    PROVE  SharedAt(h, d, Fl(x + y))
<1> DEFINE one == 1
<1>1. one \in Int /\ \A i \in Signers : Fl(h[i]) = Fl(one * g[i] + one * k[i])
  <2> SUFFICES ASSUME NEW i \in Signers PROVE Fl(h[i]) = Fl(one * g[i] + one * k[i])
    OBVIOUS
  <2>1. g[i] \in Int /\ k[i] \in Int
    BY DEF SharedAt
  <2>2. one * g[i] = g[i] /\ one * k[i] = k[i]
    BY <2>1
  <2> QED BY <2>2
<1>2. one * x + one * y = x + y
  OBVIOUS
<1> HIDE DEF one
<1>3. SharedAt(h, d, Fl(one * x + one * y))
  BY <1>1, SharedLinear
<1> QED BY <1>2, <1>3

LEMMA SharedMinus ==
    ASSUME NEW d, NEW x \in Int, NEW y \in Int, NEW g, SharedAt(g, d, x), NEW k, SharedAt(k, d, y),
           NEW h, \A i \in Signers : h[i] \in Int /\ Fl(h[i]) = Fl(g[i] - k[i])
    PROVE  SharedAt(h, d, Fl(x - y))
<1> DEFINE one == 1
           minus == -1
<1>1. one \in Int /\ minus \in Int /\ \A i \in Signers : Fl(h[i]) = Fl(one * g[i] + minus * k[i])
  <2> SUFFICES ASSUME NEW i \in Signers PROVE Fl(h[i]) = Fl(one * g[i] + minus * k[i])
    OBVIOUS
  <2>1. g[i] \in Int /\ k[i] \in Int
    BY DEF SharedAt
  <2>2. one * g[i] + minus * k[i] = g[i] - k[i]
    BY <2>1
  <2> QED BY <2>2
<1>2. one * x + minus * y = x - y
  OBVIOUS
<1> HIDE DEF one, minus
<1>3. SharedAt(h, d, Fl(one * x + minus * y))
  BY <1>1, SharedLinear
<1> QED BY <1>2, <1>3

\* With an honest majority of two signers or more, there are enough of them to
\* open what is shared at degree 2t, and more than are needed at degree t.
LEMMA Ku24Enough ==
    ASSUME Ku24Majority, Cardinality(Signers) >= 2
    PROVE  /\ Ku24Degree \in Nat /\ Ku24Degree < Cardinality(Signers) /\ Ku24Degree + 2 <= Cardinality(Signers)
           /\ 2 * Ku24Degree \in Nat /\ Ku24Degree <= 2 * Ku24Degree /\ 2 * Ku24Degree < Cardinality(Signers)
           /\ Ku24Degree + Ku24Degree = 2 * Ku24Degree
  BY Ku24SubsetsType, SignersType DEF Ku24Majority

\* What the functions give rise to is shared at degree t.
LEMMA Ku24Drawn ==
    ASSUME Ku24Majority, Cardinality(Signers) >= 2,
           NEW y \in Ku24Draws(Scalars) \cup Ku24Draws(Blinds)
    PROVE  /\ y \in Ints
           /\ Ku24Opened(y, Ku24Degree) \in Field /\ Ku24Opened(y, Ku24Degree) \in Int
           /\ SharedAt(y, Ku24Degree, Ku24Opened(y, Ku24Degree))
           /\ \E prf \in [Ku24Subsets -> Int] : /\ y = [i \in Signers |-> Ku24Rand(prf, i)]
                                                /\ Total(prf, Ku24Subsets) = Ku24Opened(y, Ku24Degree)
<1>1. y \in Ints
  BY Ku24DrawsType
<1>2. PICK prf \in [Ku24Subsets -> Int] : y = [i \in Signers |-> Ku24Rand(prf, i)]
  <2>1. Scalars \subseteq Int /\ Blinds \subseteq Int
    BY DrawnInts
  <2>2. PICK values \in {Scalars, Blinds} : y \in Ku24Draws(values)
    OBVIOUS
  <2>3. PICK prf \in [Ku24Subsets -> values] : y = [i \in Signers |-> Ku24Rand(prf, i)]
    BY <2>2 DEF Ku24Draws
  <2>4. prf \in [Ku24Subsets -> Int]
    BY <2>1, <2>2
  <2> QED BY <2>3, <2>4
<1> DEFINE c == Total(prf, Ku24Subsets)
<1>3. c \in Field /\ SharedAt(y, Ku24Degree, c)
  BY <1>2, SharedRand
<1> HIDE DEF c
<1>4. Ku24Opened(y, Ku24Degree) = c
  BY <1>3, Ku24Enough, SharedOpens
<1> QED BY <1>1, <1>2, <1>3, <1>4, ScalarsType DEF c

\* Shares times shares that were drawn are shares of the product at degree 2t.
LEMMA Ku24TimesDrawn ==
    ASSUME Ku24Majority, Cardinality(Signers) >= 2,
           NEW c \in Field, NEW g, SharedAt(g, Ku24Degree, c),
           NEW y \in Ku24Draws(Scalars) \cup Ku24Draws(Blinds),
           NEW h, \A i \in Signers : h[i] \in Int /\ Fl(h[i]) = Fl(g[i] * y[i])
    PROVE  SharedAt(h, 2 * Ku24Degree, Fl(c * Ku24Opened(y, Ku24Degree)))
<1>1. PICK prf \in [Ku24Subsets -> Int] : /\ y = [i \in Signers |-> Ku24Rand(prf, i)]
                                          /\ Total(prf, Ku24Subsets) = Ku24Opened(y, Ku24Degree)
  BY Ku24Drawn
<1>2. \A i \in Signers : h[i] \in Int /\ Fl(h[i]) = Fl(g[i] * Ku24Rand(prf, i))
  BY <1>1
<1>3. SharedAt(h, Ku24Degree + Ku24Degree, Fl(c * Total(prf, Ku24Subsets)))
  BY <1>2, Ku24SubsetsType, SharedTimesRand
<1> QED BY <1>1, <1>3, Ku24Enough

\* What is opened of a sum.
LEMMA Ku24OpenedSum ==
    ASSUME NEW d, NEW g \in Ints, NEW k \in Ints,
           NEW h \in Ints, \A i \in Signers : Fl(h[i]) = Fl(g[i] + k[i])
    PROVE  Ku24Opened(h, d) = Fl(Ku24Opened(g, d) + Ku24Opened(k, d))
<1> DEFINE S == {i \in Signers : Position(i) <= d + 1}
           one == 1
<1>1. S \in SUBSET Signers /\ S \in SUBSET (1 .. Q - 1) /\ IsFiniteSet(S) /\ one \in Int
  <2>1. S \in SUBSET Signers /\ one \in Int
    OBVIOUS
  <2> HIDE DEF S
  <2> QED BY <2>1, SignersType, FS_Subset
<1>2. /\ Ku24Opened(h, d) = Reconstruct(h, S) /\ Ku24Opened(g, d) = Reconstruct(g, S)
      /\ Ku24Opened(k, d) = Reconstruct(k, S)
  BY DEF Ku24Opened
<1>3. \A i \in S : /\ g[i] \in Int /\ k[i] \in Int /\ h[i] \in Int
                   /\ Fl(h[i]) = Fl(one * g[i] + one * k[i])
  <2> SUFFICES ASSUME NEW i \in S
               PROVE  /\ g[i] \in Int /\ k[i] \in Int /\ h[i] \in Int
                      /\ Fl(h[i]) = Fl(one * g[i] + one * k[i])
    OBVIOUS
  <2>1. g[i] \in Int /\ k[i] \in Int /\ h[i] \in Int
    BY DEF Ints
  <2>2. one * g[i] = g[i] /\ one * k[i] = k[i]
    BY <2>1
  <2> QED BY <1>1, <2>1, <2>2
<1> DEFINE a == Reconstruct(g, S)
           b == Reconstruct(k, S)
<1>4. a \in Int /\ b \in Int
  BY <1>1, <1>3, ReconstructInt
<1> HIDE DEF S
<1>5. Reconstruct(h, S) = Fl(one * a + one * b)
  <2> HIDE DEF one
  <2> QED BY <1>1, <1>3, ReconstructLinear
<1> HIDE DEF a, b
<1>6. one * a + one * b = a + b
  BY <1>4
<1> QED BY <1>2, <1>5, <1>6 DEF a, b

\* What the wrong share of a product adds to what is opened.
Ku24Err(where) == Ku24Opened([i \in Signers |-> Off(i, where)], 2 * Ku24Degree)

LEMMA Ku24ErrType ==
    ASSUME Session, NEW where
    PROVE  /\ Ku24Err(where) \in Field /\ Ku24Err(where) \in Int
           /\ [i \in Signers |-> Off(i, where)] \in Ints
           /\ know.fault # where => Ku24Err(where) = 0
<1> DEFINE off == [i \in Signers |-> Off(i, where)]
           d == 2 * Ku24Degree
<1>1. off \in Ints
  BY OffType DEF Ints
<1>2. Ku24Err(where) = Ku24Opened(off, d)
  BY DEF Ku24Err
<1>3. ASSUME know.fault # where PROVE Ku24Opened(off, d) = 0
  <2>1. \A i \in Signers : off[i] = 0
    BY <1>3 DEF Off
  <2> HIDE DEF off, d
  <2> DEFINE S == {i \in Signers : Position(i) <= d + 1}
             zero == 0
  <2>2. S \in SUBSET Signers /\ S \in SUBSET (1 .. Q - 1) /\ IsFiniteSet(S)
    BY SignersType, FS_Subset
  <2>3. \A i \in S : off[i] \in Int /\ Fl(off[i]) = Fl(zero * off[i])
    BY <2>1
  <2>4. Reconstruct(off, S) \in Int /\ zero \in Int /\ Ku24Opened(off, d) = Reconstruct(off, S)
    BY <2>2, <2>3, ReconstructInt DEF Ku24Opened
  <2>5. zero * Reconstruct(off, S) = 0
    BY <2>4
  <2> HIDE DEF S, zero
  <2>6. Reconstruct(off, S) = Fl(zero * Reconstruct(off, S))
    BY <2>2, <2>3, <2>4, ReconstructScale
  <2> QED BY <2>4, <2>5, <2>6, QAssumption DEF Fl
<1> HIDE DEF off, d
<1>4. Ku24Opened(off, d) \in Field /\ Ku24Opened(off, d) \in Int
  BY <1>1, Ku24OpenedType
<1> QED BY <1>1, <1>2, <1>3, <1>4 DEF off

\* Ku24Product and Ku24Reduced: of shares at degree t and a drawn value, they
\* leave shares at degree t of the product and the error.
LEMMA Ku24Multiplied ==
    ASSUME Session, Ku24Majority, Cardinality(Signers) >= 2,
           NEW c \in Field, NEW g \in Ints, SharedAt(g, Ku24Degree, c),
           NEW y \in Ku24Draws(Scalars) \cup Ku24Draws(Blinds),
           NEW mask \in Ku24Draws(Blinds), NEW zero \in Ku24Zeros(Blinds), NEW where
    PROVE  /\ SharedAt(Ku24Reduced(Ku24Product(g, y, mask, zero, where), mask), Ku24Degree,
                       Fl(c * Ku24Opened(y, Ku24Degree) + Ku24Err(where)))
           /\ know.fault # where => Ku24Consistent(Ku24Product(g, y, mask, zero, where), 2 * Ku24Degree)
<1> DEFINE t == Ku24Degree
           d == 2 * Ku24Degree
           b == Ku24Opened(y, t)
           m == Ku24Opened(mask, t)
           err == Ku24Err(where)
           off == [i \in Signers |-> Off(i, where)]
           p == [i \in Signers |-> g[i] * y[i]]
           pm == [i \in Signers |-> p[i] + mask[i]]
           pz == [i \in Signers |-> pm[i] + zero[i]]
           e == Ku24Product(g, y, mask, zero, where)
           O == Ku24Opened(e, d)
           red == Ku24Reduced(e, mask)
<1>1. /\ t \in Nat /\ d \in Nat /\ t <= d /\ d < Cardinality(Signers)
  BY Ku24Enough
<1>2. /\ mask \in Ints /\ m \in Int /\ SharedAt(mask, t, m)
      /\ y \in Ints /\ b \in Int
  BY Ku24Drawn
<1>3. zero \in Ints /\ SharedAt(zero, d, 0)
  <2>1. Blinds \subseteq Int
    BY DrawnInts
  <2>2. PICK prf \in [1 .. Ku24Degree -> [Ku24Subsets -> Blinds]] : zero = [i \in Signers |-> Ku24Zero(prf, i)]
    BY DEF Ku24Zeros
  <2>3. prf \in [1 .. Ku24Degree -> [Ku24Subsets -> Int]]
    BY <2>1
  <2> QED BY <2>2, <2>3, Ku24DrawsType, SharedZero
<1>4. off \in Ints /\ err \in Int /\ err = Ku24Opened(off, d)
  BY Ku24ErrType DEF Ku24Err
<1>5. \A i \in Signers : /\ g[i] \in Int /\ y[i] \in Int /\ mask[i] \in Int /\ zero[i] \in Int /\ off[i] \in Int
  BY <1>2, <1>3, <1>4 DEF Ints
<1>6. \A i \in Signers : p[i] \in Int /\ pm[i] \in Int /\ pz[i] \in Int
  <2> SUFFICES ASSUME NEW i \in Signers PROVE p[i] \in Int /\ pm[i] \in Int /\ pz[i] \in Int
    OBVIOUS
  <2>1. p[i] \in Int
    BY <1>5
  <2> HIDE DEF p
  <2> QED BY <1>5, <2>1
<1>7. pz \in Ints /\ e \in Ints /\ \A i \in Signers : e[i] = Fl(pz[i] + off[i])
  <2>1. e \in Ints
    BY <1>2, <1>3, Ku24ProductType
  <2>2. pz \in Ints
    BY <1>6 DEF Ints
  <2>3. \A i \in Signers : e[i] = Fl(pz[i] + off[i])
    BY DEF Ku24Product
  <2> QED BY <2>1, <2>2, <2>3
<1> DEFINE v1 == Fl(c * b)
           v2 == Fl(v1 + m)
           v3 == Fl(v2 + 0)
<1>8. c \in Int /\ c * b \in Int /\ v1 \in Int /\ v2 \in Int /\ v3 \in Int
  <2>1. c \in Int /\ c * b \in Int
    BY <1>2, ScalarsType
  <2>2. v1 \in Int
    BY <2>1, FlInt
  <2> HIDE DEF v1
  <2>3. v2 \in Int
    BY <1>2, <2>2, FlInt
  <2> HIDE DEF v2
  <2> QED BY <2>1, <2>2, <2>3, FlInt
<1>9. SharedAt(pz, d, v3)
  <2>1. SharedAt(p, d, v1)
    BY <1>5, <1>6, Ku24TimesDrawn
  <2>2. SharedAt(mask, d, m)
    BY <1>1, <1>2, SharedHigher
  <2>3. \A i \in Signers : pm[i] \in Int /\ Fl(pm[i]) = Fl(p[i] + mask[i])
    BY <1>6
  <2>4. \A i \in Signers : pz[i] \in Int /\ Fl(pz[i]) = Fl(pm[i] + zero[i])
    BY <1>6
  <2> DEFINE null == 0
  <2> HIDE DEF p, pm, pz, v1, d
  <2>5. SharedAt(pm, d, v2)
    BY <1>2, <1>8, <2>1, <2>2, <2>3, SharedSum
  <2>6. null \in Int /\ SharedAt(zero, d, null) /\ v3 = Fl(v2 + null)
    BY <1>3
  <2> HIDE DEF v2, null
  <2> QED BY <1>8, <2>4, <2>5, <2>6, SharedSum
<1>c. ASSUME know.fault # where PROVE Ku24Consistent(e, d)
  <2>1. \A i \in Signers : e[i] \in Int /\ Fl(e[i]) = Fl(pz[i])
    <3> SUFFICES ASSUME NEW i \in Signers PROVE e[i] \in Int /\ Fl(e[i]) = Fl(pz[i])
      OBVIOUS
    <3>1. off[i] = 0
      BY <1>c DEF Off
    <3>2. pz[i] \in Int /\ e[i] = Fl(pz[i] + off[i])
      BY <1>6, <1>7
    <3> HIDE DEF e, pz, off
    <3>3. e[i] = Fl(pz[i])
      BY <3>1, <3>2
    <3> QED BY <3>2, <3>3, FlInt, FlField
  <2>2. v3 \in Field
    <3> HIDE DEF v2
    <3>1. v2 \in Int
      BY <1>8 DEF v2
    <3>2. v2 + 0 \in Int
      BY <3>1
    <3> QED BY <3>2, FlInt
  <2> HIDE DEF e, pz, v3, d
  <2>3. SharedAt(e, d, v3)
    BY <1>9, <2>1, <2>2, SharedSame
  <2> QED BY <1>1, <2>3, SharedOpens
<1>10. O = Fl(v3 + err)
  <2>1. \A i \in Signers : Fl(e[i]) = Fl(pz[i] + off[i])
    <3> SUFFICES ASSUME NEW i \in Signers PROVE Fl(Fl(pz[i] + off[i])) = Fl(pz[i] + off[i])
      BY <1>7
    <3>1. pz[i] + off[i] \in Int
      BY <1>5, <1>6
    <3> QED BY <3>1, FlInt, FlField
  <2>2. Ku24Opened(pz, d) = v3
    BY <1>1, <1>9, SharedOpens
  <2> HIDE DEF pz, off, e, d
  <2> QED BY <1>4, <1>7, <2>1, <2>2, Ku24OpenedSum
<1> HIDE DEF e, off, pz, pm, p, err, m, b
<1>11. O \in Int
  BY <1>7, Ku24OpenedType
<1>12. Fl(O - m) = Fl(c * b + err)
  <2> DEFINE cb == c * b
  <2>1. cb \in Int
    BY <1>8
  <2> HIDE DEF cb
  <2>2. Fl(v1) = Fl(cb)
    BY <2>1, FlInt, FlField DEF cb
  <2>3. v2 = Fl(cb + m)
    BY <1>2, <1>8, <2>1, <2>2, FlShift
  <2>4. v3 = Fl(cb + m)
    <3>1. v3 = Fl(v2) /\ cb + m \in Int
      BY <1>2, <1>8, <2>1
    <3> QED BY <2>3, <3>1, FlInt, FlField
  <2>5. Fl(v3) = Fl(cb + m)
    BY <1>2, <2>1, <2>4, FlInt, FlField
  <2>6. Fl(v3 + err) = Fl((cb + m) + err)
    BY <1>2, <1>4, <1>8, <2>1, <2>5, FlShift
  <2>7. Fl(O) = Fl((cb + m) + err)
    <3>1. (cb + m) + err \in Int
      BY <1>2, <1>4, <2>1
    <3> QED BY <1>10, <2>6, <3>1, FlInt, FlField
  <2> HIDE DEF O, v1, v2, v3
  <2>8. Fl(O + (-m)) = Fl(((cb + m) + err) + (-m))
    <3> DEFINE mm == -m
               z == (cb + m) + err
    <3>1. mm \in Int /\ z \in Int
      BY <1>2, <1>4, <2>1
    <3> HIDE DEF mm, z
    <3>2. Fl(O + mm) = Fl(z + mm)
      BY <1>11, <2>7, <3>1, FlShift DEF z
    <3> QED BY <3>2 DEF mm, z
  <2>9. O + (-m) = O - m /\ ((cb + m) + err) + (-m) = cb + err
    BY <1>2, <1>4, <1>11, <2>1
  <2> QED BY <2>8, <2>9 DEF cb
<1> HIDE DEF O, v1, v2, v3
<1>13. SharedAt(red, t, Fl(O - m))
  <2> DEFINE ones == [i \in Signers |-> 1]
             os == [i \in Signers |-> O]
             one == 1
  <2>1. \A i \in Signers : os[i] \in Int /\ Fl(os[i]) = Fl(O * ones[i])
    BY <1>11
  <2>2. SharedAt(ones, 0, 1) /\ 0 \in Nat /\ 0 <= t
    BY <1>1, SharedOnes
  <2>3. SharedAt(ones, t, one) /\ one \in Int
    BY <1>1, <2>2, SharedHigher
  <2>4. Fl(O * one) = O
    <3>1. O * one = O /\ O \in Field
      BY <1>7, <1>11, Ku24OpenedType DEF O
    <3> QED BY <3>1, FlField
  <2> HIDE DEF ones, os, one, t
  <2>5. SharedAt(os, t, O)
    BY <1>11, <2>1, <2>3, <2>4, SharedScale
  <2>6. \A i \in Signers : red[i] \in Int /\ Fl(red[i]) = Fl(os[i] - mask[i])
    <3> SUFFICES ASSUME NEW i \in Signers PROVE red[i] \in Int /\ Fl(red[i]) = Fl(os[i] - mask[i])
      OBVIOUS
    <3>1. red[i] = Fl(O + Neg(mask[i])) /\ os[i] = O
      BY DEF Ku24Reduced, O, d, os
    <3>2. mask[i] \in Int
      BY <1>5
    <3>3. O + Neg(mask[i]) \in Int
      BY <1>11, <3>2, FlInt
    <3> HIDE DEF red
    <3>4. Fl(red[i]) = Fl(O + Neg(mask[i])) /\ red[i] \in Int
      BY <3>1, <3>3, FlInt, FlField
    <3> QED BY <1>11, <3>1, <3>2, <3>4, FlNeg
  <2> HIDE DEF red
  <2> QED BY <1>2, <1>11, <2>5, <2>6, SharedMinus
<1> QED BY <1>12, <1>13, <1>c DEF b, err, e

\* One wrong share of what is checked when it is opened is found: what is
\* opened is what was shared.
LEMMA Ku24FindsTheFault ==
    ASSUME Session, Ku24Majority, Cardinality(Signers) >= 2,
           \E v \in Signers : \A i \in Signers \ {v} : bent[i] = 0,
           NEW c \in Field, NEW f \in Ints, SharedAt(f, Ku24Degree, c), NEW where,
           NEW g, g = [i \in Signers |-> Fl(f[i] + Off(i, where))],
           Ku24Consistent(g, Ku24Degree)
    PROVE  Ku24Opened(g, Ku24Degree) = c
<1> DEFINE t == Ku24Degree
           h == [i \in Signers |-> Fl(f[i])]
<1>1. PICK v \in Signers : \A i \in Signers \ {v} : bent[i] = 0
  OBVIOUS
<1>2. \A i \in Signers : f[i] \in Int /\ Off(i, where) \in Int
  BY OffType DEF Ints
<1>3. h \in [Signers -> Field] /\ g \in [Signers -> Field]
  <2> SUFFICES ASSUME NEW i \in Signers PROVE Fl(f[i]) \in Field /\ Fl(f[i] + Off(i, where)) \in Field
    OBVIOUS
  <2>1. f[i] \in Int /\ f[i] + Off(i, where) \in Int
    BY <1>2
  <2> QED BY <2>1, FlInt
<1>4. SharedAt(h, t, c)
  <2>1. \A i \in Signers : h[i] \in Int /\ Fl(h[i]) = Fl(f[i])
    <3> SUFFICES ASSUME NEW i \in Signers PROVE Fl(f[i]) \in Int /\ Fl(Fl(f[i])) = Fl(f[i])
      OBVIOUS
    <3> QED BY <1>2, FlInt, FlField
  <2> HIDE DEF h
  <2> QED BY <2>1, SharedSame
<1>5. \A i \in Signers \ {v} : g[i] = h[i]
  <2> SUFFICES ASSUME NEW i \in Signers \ {v} PROVE Fl(f[i] + Off(i, where)) = Fl(f[i])
    OBVIOUS
  <2>1. Off(i, where) = 0
    BY <1>1 DEF Off
  <2>2. f[i] + 0 = f[i]
    BY <1>2
  <2> QED BY <2>1, <2>2
<1>6. t \in Nat /\ t + 2 <= Cardinality(Signers) /\ t < Cardinality(Signers)
  BY Ku24Enough
<1> HIDE DEF h
<1>7. g[v] = h[v]
  BY <1>3, <1>4, <1>5, <1>6, SharedFindsTheFault
<1>8. g = h
  BY <1>3, <1>5, <1>7
<1> QED BY <1>4, <1>6, <1>8, SharedOpens

\* A triple that passes the check is right: of three values that are off by an
\* error in one place at most, one of them twice.
LEMMA Ku24TripleRight ==
    ASSUME NEW k \in Field, NEW a \in Field, NEW r \in Field, r # 0, NEW b \in Field, b # 0,
           NEW ew \in Field, NEW em \in Field, NEW et \in Field, ew = 0 \/ (em = 0 /\ et = 0),
           NEW w, w = Fl(k * a + ew),
           NEW tau, tau = Fl(Fl(r * a + em) * k + et),
           Fl((tau - r * w) * b) = 0
    PROVE  w = Fl(k * a)
<1>0. k \in Int /\ a \in Int /\ r \in Int /\ b \in Int /\ Fl(r) # 0 /\ Fl(b) # 0
  BY FlField, ScalarsType
<1> DEFINE ka == k * a
           ra == r * a
<1>1. ka \in Int /\ ra \in Int /\ ra * k \in Int /\ r * ka = ra * k
  BY <1>0
<1>2. CASE ew = 0
  BY <1>1, <1>2
<1>3. CASE em = 0 /\ et = 0
  <2> DEFINE mu == Fl(ra)
  <2>1. mu \in Int /\ mu = Fl(ra + em)
    BY <1>1, <1>3, FlInt
  <2>2. tau = Fl(mu * k)
    <3>1. mu * k \in Int
      BY <1>0, <2>1
    <3> DEFINE mk == mu * k
    <3>2. tau = Fl(mk + 0)
      BY <1>3, <2>1
    <3>3. mk \in Int
      BY <3>1
    <3> HIDE DEF mk
    <3>4. mk + 0 = mk
      BY <3>3
    <3> QED BY <3>2, <3>4 DEF mk
  <2>3. tau = Fl(ra * k)
    BY <1>0, <1>1, <2>2, FlMul
  <2> HIDE DEF mu
  <2>4. w \in Field /\ w \in Int /\ ew \in Int /\ tau \in Int /\ Fl(tau) = tau /\ Fl(w) = w
    <3>1. ew \in Int
      BY ScalarsType
    <3>2. ka + ew \in Int
      BY <1>1, <3>1
    <3>3. w \in Field
      BY <3>2, FlInt
    <3>4. tau \in Field
      BY <1>1, <2>3, FlInt
    <3> QED BY <3>1, <3>3, <3>4, FlField, ScalarsType
  <2> DEFINE rw == r * w
  <2>5. rw \in Int /\ tau - rw \in Int
    BY <1>0, <2>4
  <2>6. Fl(tau - rw) = 0
    <3> DEFINE z == tau - rw
    <3>1. z \in Int /\ Fl(z * b) = 0
      BY <2>5
    <3> HIDE DEF z
    <3>2. z * b = b * z
      BY <1>0, <3>1
    <3>3. Fl(z) = 0
      BY <1>0, <3>1, <3>2, FlIntegral
    <3> QED BY <3>3 DEF z
  <2>7. Fl(rw) = Fl(tau)
    <3> DEFINE z == tau - rw
    <3>1. z \in Int /\ rw + z = tau
      BY <2>4, <2>5
    <3> HIDE DEF rw
    <3>2. Fl(rw + z) = Fl(rw) <=> Fl(z) = 0
      BY <2>5, <3>1, FlAddsNothing
    <3> QED BY <2>6, <3>1, <3>2
  <2>8. Fl(r * w) = Fl(r * ka)
    BY <1>1, <2>3, <2>4, <2>7
  <2> HIDE DEF ka
  <2>9. Fl(w) = Fl(ka)
    BY <1>0, <1>1, <2>4, <2>8, FlCancel
  <2> QED BY <2>4, <2>9 DEF ka
<1> QED BY <1>2, <1>3

\* What the parties drew at the beginning, and that one of them is faulty at most.
Ku24Settled ==
    /\ Ku24Majority
    /\ "fault" \in DOMAIN know
    /\ \E v \in Signers : \A i \in Signers \ {v} : bent[i] = 0
    /\ know.k \in Ku24Draws(Scalars) /\ know.a \in Ku24Draws(Scalars)

Ku24K == Ku24Opened(know.k, Ku24Degree)
Ku24A == Ku24Opened(know.a, Ku24Degree)

\* The products that the parties have shares of.
Ku24W == Fl(Ku24K * Ku24A + Ku24Err("w"))
Ku24Mu(r) == Fl(r * Ku24A + Ku24Err("mu"))
Ku24Tau(r) == Fl(Ku24Mu(r) * Ku24K + Ku24Err("tau"))

Ku24Equations ==
    /\ Ku24Settled
    /\ stage \in {"ku24_presign_1", "ku24_presign_2"} => know.r \in Ku24Draws(Blinds)
    /\ stage \in {"ku24_presign_2", "ku24_presign_3", "ku24_presign_4"} => SharedAt(know.w, Ku24Degree, Ku24W)
    /\ stage = "ku24_presign_2" => SharedAt(know.mu, Ku24Degree, Ku24Mu(Ku24Opened(know.r, Ku24Degree)))
    /\ stage = "ku24_presign_3" =>
         \E r \in Ku24Draws(Blinds) :
            /\ know.r = [i \in Signers |-> Fl(r[i] + Off(i, "r"))]
            /\ SharedAt(know.tau, Ku24Degree, Ku24Tau(Ku24Opened(r, Ku24Degree)))
    /\ stage = "ku24_presign_4" =>
         /\ SharedAt(know.tau, Ku24Degree, Ku24Tau(Ku24Opened(know.r, Ku24Degree)))
         /\ Ku24Opened(know.beta, Ku24Degree) # 0
         /\ know.t = [i \in Signers |-> Fl(Off(i, "t") + Ku24TripleCheck(know.tau[i], know.w[i],
                         Ku24Opened(know.r, Ku24Degree), Ku24Opened(know.beta, Ku24Degree)))]
         /\ know.wSent = [i \in Signers |-> Fl(know.w[i] + Off(i, "w_share"))]
         /\ know.R = [i \in Signers |-> Fl(know.k[i] + Off(i, "R"))]
    /\ stage = "ku24_sign_1" /\ Ku24Opened(know.r, Ku24Degree) # 0 =>
         Ku24Consistent(know.kInv, Ku24Degree) /\ Fl(Ku24Opened(know.kInv, Ku24Degree) * know.R) = 1

LEMMA Ku24EquationsBegin ==
    ASSUME NEW f \in Sharings, key = f[0], Ku24SignBegin(f), Session, Cardinality(Signers) >= 2, bent \in Bent
    PROVE  Ku24Equations
<1>1. PICK k \in Ku24Draws(Scalars), a \in Ku24Draws(Scalars), r \in Ku24Draws(Blinds), beta \in Ku24Draws(Blinds),
           fault \in Faults({"w", "mu", "tau", "r", "beta", "t", "w_share", "R", "s"}) :
         know = [k |-> k, a |-> a, r |-> r, beta |-> beta, fault |-> fault,
                 x |-> [i \in Signers |-> Eval(f, i)]]
  BY DEF Ku24SignBegin
<1>2. know.k = k /\ know.a = a /\ know.r = r /\ "fault" \in DOMAIN know
  BY <1>1
<1>3. stage = "ku24_presign_1" /\ Ku24Majority
  BY DEF Ku24SignBegin
<1>4. \E v \in Signers : \A i \in Signers \ {v} : bent[i] = 0
  <2>1. PICK v \in Signers, e \in Bends : bent = [Straight EXCEPT ![v] = e]
    BY DEF Bent
  <2>2. \A i \in Signers \ {v} : bent[i] = 0
    BY <2>1 DEF Straight
  <2> QED BY <2>2
<1> QED BY <1>2, <1>3, <1>4 DEF Ku24Equations, Ku24Settled

LEMMA Ku24Stays ==
    ASSUME Ku24Known, Ku24Settled, Ku24SignNext, stage' # "ended"
    PROVE  /\ Ku24Settled' /\ know'.fault = know.fault /\ know'.k = know.k /\ know'.a = know.a
           /\ bent' = bent /\ Signers' = Signers
           /\ Ku24Draws(Scalars)' = Ku24Draws(Scalars) /\ Ku24Draws(Blinds)' = Ku24Draws(Blinds)
           /\ Ku24K' = Ku24K /\ Ku24A' = Ku24A
           /\ Ku24Err("w")' = Ku24Err("w") /\ Ku24Err("mu")' = Ku24Err("mu") /\ Ku24Err("tau")' = Ku24Err("tau")
           /\ Ku24W' = Ku24W
<1>1. /\ know'.fault = know.fault /\ know'.k = know.k /\ know'.a = know.a /\ "fault" \in DOMAIN know'
      /\ bent' = bent /\ Signers' = Signers
  <2>1. "fault" \in DOMAIN know /\ "k" \in DOMAIN know /\ "a" \in DOMAIN know
    BY DEF Ku24Settled, Ku24Known, Has
  <2>2. bent' = bent /\ protocol' = protocol
    BY DEF Ku24SignNext, Ku24MultiplyOnce, Ku24MultiplyTwice, Ku24CheckTriple, Ku24Presign, Ku24Partial, Ku24Combine, Ku24Finish, Step, Return
  <2>3. \E new : know' = With(new, know) /\ DOMAIN new \cap {"fault", "k", "a"} = {}
    <3>1. CASE Ku24MultiplyOnce
      <4>1. PICK new : know' = With(new, know) /\ DOMAIN new = {"w", "mu"}
        BY <3>1 DEF Ku24MultiplyOnce, Step, Return
      <4> QED BY <4>1
    <3>2. CASE Ku24MultiplyTwice
      <4>1. PICK new : know' = With(new, know) /\ DOMAIN new = {"tau", "r", "beta"}
        BY <3>2 DEF Ku24MultiplyTwice, Step, Return
      <4> QED BY <4>1
    <3>3. CASE Ku24CheckTriple
      <4>1. PICK new : know' = With(new, know) /\ DOMAIN new = {"t", "wSent", "R"}
        BY <3>3 DEF Ku24CheckTriple, Step, Return
      <4> QED BY <4>1
    <3>4. CASE Ku24Presign
      <4>1. ~Return("ku24_presign_4", Everyone(Refused))
        BY DEF Return
      <4>2. PICK zero : Step("ku24_presign_4", "ku24_sign_1",
                [kInv |-> [i \in Signers |-> Fl(Inv(Ku24Opened(know.wSent, Ku24Degree)) * know.a[i])],
                 R |-> Ku24Opened(know.R, Ku24Degree), zero |-> zero])
        BY <3>4, <4>1 DEF Ku24Presign
      <4>3. PICK new : know' = With(new, know) /\ DOMAIN new = {"kInv", "R", "zero"}
        BY <4>2 DEF Step
      <4> QED BY <4>3
    <3>5. CASE Ku24Partial
      <4>1. PICK new : know' = With(new, know) /\ DOMAIN new = {"s"}
        BY <3>5 DEF Ku24Partial, Step, Return
      <4> QED BY <4>1
    <3>6. CASE Ku24Combine
      <4>1. PICK new : know' = With(new, know) /\ DOMAIN new = {"s"}
        BY <3>6 DEF Ku24Combine, Step, Return
      <4> QED BY <4>1
    <3>7. CASE Ku24Finish
      BY <3>7 DEF Ku24Finish, Return
    <3> QED BY <3>1, <3>2, <3>3, <3>4, <3>5, <3>6, <3>7 DEF Ku24SignNext
  <2>4. PICK new : know' = With(new, know) /\ DOMAIN new \cap {"fault", "k", "a"} = {}
    BY <2>3
  <2>5. \A x \in {"fault", "k", "a"} : x \in DOMAIN know' /\ know'[x] = know[x]
    BY <2>1, <2>4 DEF With
  <2> QED BY <2>2, <2>5, SameIndices
<1>2. Ku24Subsets' = Ku24Subsets
  BY <1>1 DEF Ku24Subsets
<1>3. Ku24Draws(Scalars)' = Ku24Draws(Scalars)
  BY <1>1, <1>2 DEF Ku24Draws, Ku24Rand, Ku24Fa
<1>4. Ku24Draws(Blinds)' = Ku24Draws(Blinds)
  BY <1>1, <1>2 DEF Ku24Draws, Ku24Rand, Ku24Fa
<1>5. Ku24K' = Ku24K
  BY <1>1 DEF Ku24K, Ku24Opened, Position
<1>6. Ku24A' = Ku24A
  BY <1>1 DEF Ku24A, Ku24Opened, Position
<1>7. Ku24Err("w")' = Ku24Err("w")
  BY <1>1 DEF Ku24Err, Ku24Opened, Position, Off
<1>8. Ku24Err("mu")' = Ku24Err("mu")
  BY <1>1 DEF Ku24Err, Ku24Opened, Position, Off
<1>9. Ku24Err("tau")' = Ku24Err("tau")
  BY <1>1 DEF Ku24Err, Ku24Opened, Position, Off
<1>10. Ku24W' = Ku24W
  BY <1>5, <1>6, <1>7 DEF Ku24W
<1>11. Ku24Settled'
  BY <1>1, <1>3 DEF Ku24Settled, Ku24Majority
<1> QED BY <1>1, <1>3, <1>4, <1>5, <1>6, <1>7, <1>8, <1>9, <1>10, <1>11

LEMMA Ku24WType ==
    ASSUME Session, Ku24Settled, Cardinality(Signers) >= 2
    PROVE  Ku24W \in Field
<1>1. Ku24K \in Int /\ Ku24A \in Int
  BY Ku24Drawn DEF Ku24Settled, Ku24K, Ku24A
<1> DEFINE err == Ku24Err("w")
<1>2. err \in Int /\ Ku24W = Fl(Ku24K * Ku24A + err)
  BY Ku24ErrType DEF Ku24W
<1> HIDE DEF err
<1>3. Ku24K * Ku24A + err \in Int
  BY <1>1, <1>2
<1> QED BY <1>2, <1>3, FlInt

\* When w and the nonce point are opened, it is to what was shared.
LEMMA Ku24OpensNonce ==
    ASSUME Session, Ku24Known, Ku24Equations, Cardinality(Signers) >= 2, stage = "ku24_presign_4",
           Ku24Consistent(know.wSent, Ku24Degree), Ku24Consistent(know.R, Ku24Degree)
    PROVE  /\ Ku24Opened(know.wSent, Ku24Degree) = Ku24W /\ Ku24Opened(know.wSent, Ku24Degree) \in Field
           /\ Ku24Opened(know.R, Ku24Degree) = Ku24K
<1>1. Ku24Settled /\ Ku24Majority /\ \E v \in Signers : \A i \in Signers \ {v} : bent[i] = 0
  BY DEF Ku24Equations, Ku24Settled
<1> DEFINE w == know.w
           ws == know.wSent
           k == know.k
           R == know.R
<1>2. /\ w \in Ints /\ SharedAt(w, Ku24Degree, Ku24W) /\ Ku24Consistent(ws, Ku24Degree)
      /\ ws = [i \in Signers |-> Fl(w[i] + Off(i, "w_share"))]
  BY DEF Ku24Equations, Ku24Known, Has
<1>3. /\ k \in Ints /\ Ku24K \in Field /\ SharedAt(k, Ku24Degree, Ku24K) /\ Ku24Consistent(R, Ku24Degree)
      /\ R = [i \in Signers |-> Fl(k[i] + Off(i, "R"))]
  BY <1>1, Ku24Drawn DEF Ku24Equations, Ku24Settled, Ku24K
<1>4. Ku24W \in Field
  BY <1>1, Ku24WType
<1> HIDE DEF w, ws, k, R
<1>5. Ku24Opened(ws, Ku24Degree) = Ku24W
  BY <1>1, <1>2, <1>4, Ku24FindsTheFault
<1>6. Ku24Opened(R, Ku24Degree) = Ku24K
  BY <1>1, <1>3, Ku24FindsTheFault
<1> QED BY <1>4, <1>5, <1>6 DEF ws, R

\* The shares of the check are shares of b times the difference of tau and r w.
LEMMA Ku24CheckShared ==
    ASSUME NEW d, NEW r \in Int, NEW b \in Int, NEW tauV \in Int, NEW wV \in Int,
           NEW tau, SharedAt(tau, d, tauV), NEW w, SharedAt(w, d, wV),
           NEW check, check = [i \in Signers |-> Ku24TripleCheck(tau[i], w[i], r, b)]
    PROVE  /\ Fl(r * wV) \in Int /\ Fl(tauV - Fl(r * wV)) \in Int /\ Fl(b * Fl(tauV - Fl(r * wV))) \in Field
           /\ SharedAt(check, d, Fl(b * Fl(tauV - Fl(r * wV))))
<1> DEFINE rw == [i \in Signers |-> r * w[i]]
           diff == [i \in Signers |-> tau[i] - rw[i]]
<1>6. \A i \in Signers : tau[i] \in Int /\ w[i] \in Int
  BY DEF SharedAt
<1>8. \A i \in Signers : /\ rw[i] \in Int /\ diff[i] \in Int /\ check[i] \in Int
                         /\ Fl(check[i]) = Fl(b * diff[i])
  <2> SUFFICES ASSUME NEW i \in Signers
               PROVE  /\ rw[i] \in Int /\ diff[i] \in Int /\ check[i] \in Int
                      /\ Fl(check[i]) = Fl(b * diff[i])
    OBVIOUS
  <2> DEFINE x == tau[i]
             y == r * w[i]
  <2>1. x \in Int /\ y \in Int
    BY <1>6
  <2>2. rw[i] = y /\ diff[i] = x - y /\ check[i] = Fl((x + Neg(Fl(y))) * b)
    BY DEF Ku24TripleCheck
  <2> HIDE DEF x, y
  <2> DEFINE m == x + Neg(Fl(y))
             e == x - y
  <2>3. m \in Int /\ e \in Int
    BY <2>1, FlInt
  <2>4. Fl(m) = Fl(e)
    <3>1. Fl(y) \in Int /\ Fl(Fl(y)) = Fl(y)
      BY <2>1, FlInt, FlField
    <3>2. Fl(m) = Fl(x - Fl(y))
      BY <2>1, <3>1, FlNeg
    <3>3. Fl(x - Fl(y)) = Fl(e)
      BY <2>1, <3>1, FlMinus
    <3> QED BY <3>2, <3>3
  <2>5. check[i] = Fl(m * b) /\ diff[i] = e
    BY <2>2
  <2> HIDE DEF m, e, diff, rw
  <2>6. m * b \in Int /\ e * b = b * e
    BY <2>3
  <2>7. Fl(m * b) = Fl(e * b)
    BY <2>3, <2>4, FlScale
  <2>8. check[i] \in Int /\ Fl(check[i]) = Fl(m * b)
    BY <2>5, <2>6, FlInt, FlField
  <2> QED BY <2>1, <2>2, <2>3, <2>5, <2>6, <2>7, <2>8
<1> DEFINE rV == Fl(r * wV)
           dV == Fl(tauV - rV)
           cV == Fl(b * dV)
<1>9. rV \in Int /\ dV \in Int /\ cV \in Field
  <2>1. r * wV \in Int
    OBVIOUS
  <2>2. rV \in Int
    BY <2>1, FlInt
  <2>3. tauV - rV \in Int
    BY <2>2
  <2>4. dV \in Int
    BY <2>3, FlInt
  <2>5. b * dV \in Int
    BY <2>4
  <2> QED BY <2>2, <2>4, <2>5, FlInt
<1>10. SharedAt(check, d, cV)
  <2>1. \A i \in Signers : rw[i] \in Int /\ Fl(rw[i]) = Fl(r * w[i])
    BY <1>8
  <2>2. \A i \in Signers : diff[i] \in Int /\ Fl(diff[i]) = Fl(tau[i] - rw[i])
    BY <1>8
  <2> HIDE DEF rw, diff, rV, dV, cV
  <2>3. SharedAt(rw, d, rV)
    BY <2>1, SharedScale DEF rV
  <2>4. SharedAt(diff, d, dV)
    BY <1>9, <2>2, <2>3, SharedMinus DEF dV
  <2> QED BY <1>8, <1>9, <2>4, SharedScale DEF cV
<1> QED BY <1>9, <1>10 DEF rV, dV, cV

\* A triple that passed the check is right, unless the challenge was zero.
LEMMA Ku24CheckedTriple ==
    ASSUME Session, Ku24Known, Ku24Equations, Cardinality(Signers) >= 2, stage = "ku24_presign_4",
           Ku24Consistent(know.t, Ku24Degree), Ku24Opened(know.t, Ku24Degree) = 0,
           Ku24Opened(know.r, Ku24Degree) # 0
    PROVE  Ku24W = Fl(Ku24K * Ku24A)
<1> DEFINE d == Ku24Degree
           r == Ku24Opened(know.r, d)
           b == Ku24Opened(know.beta, d)
           w == know.w
           tau == know.tau
           wV == Ku24W
           tauV == Ku24Tau(r)
           check == [i \in Signers |-> Ku24TripleCheck(tau[i], w[i], r, b)]
           sent == know.t
<1>1. Ku24Settled /\ Ku24Majority /\ \E v \in Signers : \A i \in Signers \ {v} : bent[i] = 0
  BY DEF Ku24Equations, Ku24Settled
<1>2. /\ r \in Field /\ r \in Int /\ b \in Field /\ b \in Int /\ b # 0
      /\ SharedAt(tau, d, tauV) /\ SharedAt(w, d, wV)
      /\ sent = [i \in Signers |-> Fl(Off(i, "t") + Ku24TripleCheck(tau[i], w[i], r, b))]
  <2>1. know.r \in Ints /\ know.beta \in Ints
    BY DEF Ku24Known, Has
  <2>2. r \in Field /\ r \in Int /\ b \in Field /\ b \in Int
    BY <2>1, Ku24OpenedType
  <2> QED BY <2>2 DEF Ku24Equations
<1>3. Ku24K \in Field /\ Ku24A \in Field /\ Ku24K \in Int /\ Ku24A \in Int /\ wV \in Field /\ wV \in Int
  BY <1>1, Ku24Drawn, Ku24WType, ScalarsType DEF Ku24Settled, Ku24K, Ku24A
<1> DEFINE ew == Ku24Err("w")
           em == Ku24Err("mu")
           et == Ku24Err("tau")
<1>4. /\ ew \in Field /\ em \in Field /\ et \in Field /\ em \in Int /\ et \in Int
      /\ ew = 0 \/ (em = 0 /\ et = 0)
  <2>1. CASE know.fault = "w"
    BY <2>1, Ku24ErrType
  <2>2. CASE know.fault # "w"
    BY <2>2, Ku24ErrType
  <2> QED BY <2>1, <2>2
<1>5. wV = Fl(Ku24K * Ku24A + ew) /\ tauV = Fl(Fl(r * Ku24A + em) * Ku24K + et)
  BY DEF Ku24W, Ku24Tau, Ku24Mu
<1>6. \A i \in Signers : tau[i] \in Int /\ w[i] \in Int /\ Off(i, "t") \in Int
  BY <1>2, OffType DEF SharedAt
<1> HIDE DEF r, b, w, tau, wV, tauV, sent, ew, em, et
<1>7. tauV \in Int
  <2>1. r * Ku24A + em \in Int
    BY <1>2, <1>3, <1>4
  <2>2. Fl(r * Ku24A + em) \in Int
    BY <2>1, FlInt
  <2>3. Fl(r * Ku24A + em) * Ku24K + et \in Int
    BY <1>3, <1>4, <2>2
  <2> QED BY <1>5, <2>3, FlInt
<1> DEFINE rV == Fl(r * wV)
           dV == Fl(tauV - rV)
           cV == Fl(b * dV)
<1>9. rV \in Int /\ dV \in Int /\ cV \in Field /\ SharedAt(check, d, cV)
  BY <1>2, <1>3, <1>7, Ku24CheckShared
<1>8. check \in Ints /\ \A i \in Signers : check[i] \in Int
  BY <1>9 DEF SharedAt, Ints
<1>11. cV = 0
  <2>1. sent = [i \in Signers |-> Fl(check[i] + Off(i, "t"))]
    <3>1. \A i \in Signers : Off(i, "t") + Ku24TripleCheck(tau[i], w[i], r, b) = check[i] + Off(i, "t")
      <4> SUFFICES ASSUME NEW i \in Signers
                   PROVE  Off(i, "t") + Ku24TripleCheck(tau[i], w[i], r, b) = check[i] + Off(i, "t")
        OBVIOUS
      <4>1. check[i] = Ku24TripleCheck(tau[i], w[i], r, b) /\ check[i] \in Int /\ Off(i, "t") \in Int
        BY <1>6, <1>8
      <4> QED BY <4>1
    <3> QED BY <1>2, <3>1
  <2>2. check \in Ints
    BY <1>8
  <2> HIDE DEF check, cV
  <2>3. Ku24Opened(sent, Ku24Degree) = cV
    <3>1. Ku24Consistent(sent, Ku24Degree)
      BY DEF sent
    <3> QED BY <1>1, <1>9, <2>1, <2>2, <3>1, Ku24FindsTheFault
  <2> QED BY <2>3 DEF sent
<1>12. Fl((tauV - r * wV) * b) = 0
  <2> DEFINE q == r * wV
             e == tauV - q
             m == tauV - Fl(q)
  <2>1. q \in Int /\ e \in Int /\ rV = Fl(q)
    BY <1>2, <1>3, <1>7
  <2>2. m \in Int /\ dV = Fl(m)
    BY <1>7, <1>9
  <2> HIDE DEF q, rV, dV
  <2>3. Fl(m) = Fl(e)
    <3>1. Fl(q) \in Int /\ Fl(Fl(q)) = Fl(q)
      BY <2>1, FlInt, FlField
    <3> QED BY <1>7, <2>1, <3>1, FlMinus
  <2> HIDE DEF e, m
  <2>4. cV = Fl(b * m)
    BY <1>2, <2>2, FlMulRight
  <2>5. Fl(b * m) = Fl(b * e)
    BY <1>2, <2>1, <2>2, <2>3, FlScale
  <2>6. b * e = e * b
    BY <1>2, <2>1
  <2> QED BY <1>11, <2>4, <2>5, <2>6 DEF e, q
<1>13. r # 0
  BY DEF r
<1>14. wV = Fl(Ku24K * Ku24A)
  <2> DEFINE k == Ku24K
             a == Ku24A
  <2>1. k \in Field /\ a \in Field /\ wV = Fl(k * a + ew) /\ tauV = Fl(Fl(r * a + em) * k + et)
    BY <1>3, <1>5
  <2> HIDE DEF k, a
  <2>2. wV = Fl(k * a)
    BY <1>2, <1>4, <1>12, <1>13, <2>1, Ku24TripleRight
  <2> QED BY <2>2 DEF k, a
<1> QED BY <1>14 DEF wV

LEMMA Ku24EquationsStep ==
    ASSUME Session, Ku24Known, Ku24Equations, Ku24SignNext, Cardinality(Signers) >= 2, stage' # "ended"
    PROVE  Ku24Equations'
<1>s. Ku24Settled
  BY DEF Ku24Equations
<1>k. /\ Ku24Settled' /\ know'.fault = know.fault /\ know'.k = know.k /\ know'.a = know.a
      /\ bent' = bent /\ Signers' = Signers
      /\ Ku24Draws(Scalars)' = Ku24Draws(Scalars) /\ Ku24Draws(Blinds)' = Ku24Draws(Blinds)
      /\ Ku24K' = Ku24K /\ Ku24A' = Ku24A
      /\ Ku24Err("w")' = Ku24Err("w") /\ Ku24Err("mu")' = Ku24Err("mu") /\ Ku24Err("tau")' = Ku24Err("tau")
      /\ Ku24W' = Ku24W
  BY <1>s, Ku24Stays
<1> DEFINE t == Ku24Degree
<1>v. /\ know.k \in Ints /\ Ku24K \in Field /\ Ku24K \in Int /\ SharedAt(know.k, t, Ku24K)
      /\ know.a \in Ints /\ Ku24A \in Field /\ Ku24A \in Int /\ SharedAt(know.a, t, Ku24A)
  BY <1>s, Ku24Drawn DEF Ku24Settled, Ku24K, Ku24A
<1>m. Ku24Majority /\ \E v \in Signers : \A i \in Signers \ {v} : bent[i] = 0
  BY <1>s DEF Ku24Settled
<1>1. CASE Ku24MultiplyOnce
  <2>1. ~Return("ku24_presign_1", Everyone(Refused))
    BY DEF Return
  <2>2. PICK wMask \in Ku24Draws(Blinds), muMask \in Ku24Draws(Blinds),
             wZero \in Ku24Zeros(Blinds), muZero \in Ku24Zeros(Blinds) :
          Step("ku24_presign_1", "ku24_presign_2",
               [w |-> Ku24Reduced(Ku24Product(know.k, know.a, wMask, wZero, "w"), wMask),
                mu |-> Ku24Reduced(Ku24Product(know.r, know.a, muMask, muZero, "mu"), muMask)])
    BY <1>1, <2>1 DEF Ku24MultiplyOnce
  <2> DEFINE w == Ku24Reduced(Ku24Product(know.k, know.a, wMask, wZero, "w"), wMask)
             mu == Ku24Reduced(Ku24Product(know.r, know.a, muMask, muZero, "mu"), muMask)
             r == Ku24Opened(know.r, t)
  <2>3. stage = "ku24_presign_1"
    BY <2>2 DEF Step
  <2>4. know.r \in Ku24Draws(Blinds) /\ know.r \in Ints /\ r \in Field /\ SharedAt(know.r, t, r)
    BY <1>m, <2>3, Ku24Drawn DEF Ku24Equations
  <2>5. SharedAt(w, t, Ku24W)
    <3>1. know.a \in Ku24Draws(Scalars) \cup Ku24Draws(Blinds)
      BY <1>s DEF Ku24Settled
    <3> QED BY <1>m, <1>v, <3>1, Ku24Multiplied DEF Ku24W, Ku24A
  <2>6. SharedAt(mu, t, Ku24Mu(r))
    <3>1. know.a \in Ku24Draws(Scalars) \cup Ku24Draws(Blinds)
      BY <1>s DEF Ku24Settled
    <3> QED BY <1>m, <1>v, <2>4, <3>1, Ku24Multiplied DEF Ku24Mu, Ku24A
  <2>7. Step("ku24_presign_1", "ku24_presign_2", [w |-> w, mu |-> mu])
    BY <2>2
  <2> HIDE DEF w, mu, r
  <2>8. stage' = "ku24_presign_2" /\ know'.w = w /\ know'.mu = mu
    BY <2>7, StepKeeps
  <2>9. know'.r = know.r
    BY <2>7, StepKeeps DEF Ku24Known, Has
  <2>10. Ku24Opened(know.r, Ku24Degree)' = r
    BY <1>k, <2>9 DEF Ku24Opened, Position, r
  <2>11. Ku24Mu(Ku24Opened(know.r, Ku24Degree))' = Ku24Mu(r)
    BY <1>k, <2>10 DEF Ku24Mu
  <2>12. SharedAt(know.w, Ku24Degree, Ku24W)'
    BY <1>k, <2>5, <2>8 DEF SharedAt
  <2>13. SharedAt(know.mu, Ku24Degree, Ku24Mu(Ku24Opened(know.r, Ku24Degree)))'
    BY <1>k, <2>6, <2>8, <2>11 DEF SharedAt
  <2>14. (know.r \in Ku24Draws(Blinds))'
    BY <1>k, <2>4, <2>9
  <2> QED BY <1>k, <2>8, <2>12, <2>13, <2>14 DEF Ku24Equations
<1>2. CASE Ku24MultiplyTwice
  <2>1. ~Return("ku24_presign_2", Everyone(Refused))
    BY DEF Return
  <2>2. PICK mask \in Ku24Draws(Blinds), zero \in Ku24Zeros(Blinds) :
          Step("ku24_presign_2", "ku24_presign_3",
               [tau |-> Ku24Reduced(Ku24Product(know.mu, know.k, mask, zero, "tau"), mask),
                r |-> [i \in Signers |-> Fl(know.r[i] + Off(i, "r"))],
                beta |-> [i \in Signers |-> Fl(know.beta[i] + Off(i, "beta"))]])
    BY <1>2, <2>1 DEF Ku24MultiplyTwice
  <2> DEFINE tau == Ku24Reduced(Ku24Product(know.mu, know.k, mask, zero, "tau"), mask)
             r == [i \in Signers |-> Fl(know.r[i] + Off(i, "r"))]
             beta == [i \in Signers |-> Fl(know.beta[i] + Off(i, "beta"))]
             c == Ku24Mu(Ku24Opened(know.r, t))
  <2>3. stage = "ku24_presign_2"
    BY <2>2 DEF Step
  <2>4. PICK drawn \in Ku24Draws(Blinds) : know.r = drawn
    BY <2>3 DEF Ku24Equations
  <2>5. know.mu \in Ints /\ SharedAt(know.mu, t, c)
    BY <2>3 DEF Ku24Equations, Ku24Known, Has
  <2>6. c \in Field
    <3> DEFINE x == Ku24Opened(know.r, t)
               err == Ku24Err("mu")
    <3>1. x \in Int /\ err \in Int
      BY <1>m, <2>4, Ku24Drawn, Ku24ErrType
    <3>2. c = Fl(x * Ku24A + err)
      BY DEF Ku24Mu
    <3> HIDE DEF x, err, c
    <3>3. x * Ku24A + err \in Int
      BY <1>v, <3>1
    <3> QED BY <3>2, <3>3, FlInt
  <2>7. SharedAt(tau, t, Ku24Tau(Ku24Opened(know.r, t)))
    <3>1. know.k \in Ku24Draws(Scalars) \cup Ku24Draws(Blinds)
      BY <1>s DEF Ku24Settled
    <3> HIDE DEF c
    <3>2. SharedAt(tau, t, Fl(c * Ku24K + Ku24Err("tau")))
      BY <1>m, <2>5, <2>6, <3>1, Ku24Multiplied DEF Ku24K
    <3> QED BY <3>2 DEF Ku24Tau, c
  <2>8. Step("ku24_presign_2", "ku24_presign_3", [tau |-> tau, r |-> r, beta |-> beta])
    BY <2>2
  <2>9. r = [i \in Signers |-> Fl(drawn[i] + Off(i, "r"))]
    BY <2>4
  <2> HIDE DEF tau, r, beta
  <2>10. stage' = "ku24_presign_3" /\ know'.tau = tau /\ know'.r = r
    BY <2>8, StepKeeps
  <2>11. know'.w = know.w
    BY <2>3, <2>8, StepKeeps DEF Ku24Known, Has
  <2>12. SharedAt(know.w, Ku24Degree, Ku24W)
    BY <2>3 DEF Ku24Equations
  <2>13. SharedAt(know.w, Ku24Degree, Ku24W)'
    BY <1>k, <2>11, <2>12 DEF SharedAt
  <2>14. (\E x \in Ku24Draws(Blinds) :
            /\ know.r = [i \in Signers |-> Fl(x[i] + Off(i, "r"))]
            /\ SharedAt(know.tau, Ku24Degree, Ku24Tau(Ku24Opened(x, Ku24Degree))))'
    <3>1. \A x : /\ Ku24Opened(x, Ku24Degree)' = Ku24Opened(x, Ku24Degree)
                 /\ Ku24Tau(Ku24Opened(x, Ku24Degree))' = Ku24Tau(Ku24Opened(x, Ku24Degree))
      <4> TAKE x
      <4>1. Ku24Opened(x, Ku24Degree)' = Ku24Opened(x, Ku24Degree)
        BY <1>k DEF Ku24Opened, Position
      <4>2. Ku24Tau(Ku24Opened(x, Ku24Degree))' = Ku24Tau(Ku24Opened(x, Ku24Degree))
        BY <1>k, <4>1 DEF Ku24Tau, Ku24Mu
      <4> QED BY <4>1, <4>2
    <3>2. know'.r = [i \in Signers' |-> Fl(drawn[i] + Off(i, "r")')]
      BY <1>k, <2>9, <2>10 DEF Off
    <3>3. drawn \in Ku24Draws(Blinds)'
      BY <1>k, <2>4
    <3>4. SharedAt(know.tau, Ku24Degree, Ku24Tau(Ku24Opened(drawn, Ku24Degree)))'
      <4>1. Ku24Tau(Ku24Opened(drawn, Ku24Degree))' = Ku24Tau(Ku24Opened(know.r, t))
        BY <2>4, <3>1
      <4> QED BY <1>k, <2>7, <2>10, <4>1 DEF SharedAt
    <3> QED BY <3>2, <3>3, <3>4
  <2> QED BY <1>k, <2>10, <2>13, <2>14 DEF Ku24Equations
<1>3. CASE Ku24CheckTriple
  <2> DEFINE rO == Ku24Opened(know.r, t)
             bO == Ku24Opened(know.beta, t)
             check == [i \in Signers |-> Fl(Off(i, "t") + Ku24TripleCheck(know.tau[i], know.w[i], rO, bO))]
             wSent == [i \in Signers |-> Fl(know.w[i] + Off(i, "w_share"))]
             R == [i \in Signers |-> Fl(know.k[i] + Off(i, "R"))]
  <2>1. ~Return("ku24_presign_3", Everyone(Refused))
    BY DEF Return
  <2>2. /\ stage = "ku24_presign_3" /\ Ku24Consistent(know.r, t) /\ bO # 0
        /\ Step("ku24_presign_3", "ku24_presign_4", [t |-> check, wSent |-> wSent, R |-> R])
    BY <1>3, <2>1 DEF Ku24CheckTriple
  <2>3. PICK r \in Ku24Draws(Blinds) : /\ know.r = [i \in Signers |-> Fl(r[i] + Off(i, "r"))]
                                       /\ SharedAt(know.tau, t, Ku24Tau(Ku24Opened(r, t)))
    BY <2>2 DEF Ku24Equations
  <2>4. rO = Ku24Opened(r, t)
    <3> DEFINE g == know.r
               c == Ku24Opened(r, t)
    <3>1. r \in Ints /\ c \in Field /\ SharedAt(r, t, c)
      BY <1>m, Ku24Drawn
    <3>2. g = [i \in Signers |-> Fl(r[i] + Off(i, "r"))] /\ Ku24Consistent(g, Ku24Degree)
      BY <2>2, <2>3
    <3> HIDE DEF g, c
    <3>3. Ku24Opened(g, Ku24Degree) = c
      BY <1>m, <3>1, <3>2, Ku24FindsTheFault
    <3> QED BY <3>3 DEF g, c
  <2>5. SharedAt(know.tau, t, Ku24Tau(rO)) /\ SharedAt(know.w, t, Ku24W)
    BY <2>2, <2>3, <2>4 DEF Ku24Equations
  <2>6. /\ check = [i \in Signers |-> Fl(Off(i, "t") + Ku24TripleCheck(know.tau[i], know.w[i], rO, bO))]
        /\ wSent = [i \in Signers |-> Fl(know.w[i] + Off(i, "w_share"))]
        /\ R = [i \in Signers |-> Fl(know.k[i] + Off(i, "R"))]
    OBVIOUS
  <2> HIDE DEF rO, bO, check, wSent, R
  <2>7. stage' = "ku24_presign_4" /\ know'.t = check /\ know'.wSent = wSent /\ know'.R = R
    BY <2>2, StepKeeps
  <2>8. know'.tau = know.tau /\ know'.w = know.w /\ know'.r = know.r /\ know'.beta = know.beta
    BY <2>2, StepKeeps DEF Ku24Known, Has
  <2>9. Ku24Opened(know.r, Ku24Degree)' = rO
    BY <1>k, <2>8 DEF Ku24Opened, Position, rO
  <2>10. Ku24Opened(know.beta, Ku24Degree)' = bO
    BY <1>k, <2>8 DEF Ku24Opened, Position, bO
  <2>11. Ku24Tau(Ku24Opened(know.r, Ku24Degree))' = Ku24Tau(rO)
    BY <1>k, <2>9 DEF Ku24Tau, Ku24Mu
  <2>12. SharedAt(know.tau, Ku24Degree, Ku24Tau(Ku24Opened(know.r, Ku24Degree)))'
    BY <1>k, <2>5, <2>8, <2>11 DEF SharedAt
  <2>13. SharedAt(know.w, Ku24Degree, Ku24W)'
    BY <1>k, <2>5, <2>8 DEF SharedAt
  <2>14. (know.t = [i \in Signers |-> Fl(Off(i, "t") + Ku24TripleCheck(know.tau[i], know.w[i],
                         Ku24Opened(know.r, Ku24Degree), Ku24Opened(know.beta, Ku24Degree)))])'
    BY <1>k, <2>6, <2>7, <2>8, <2>9, <2>10 DEF Off, Ku24TripleCheck
  <2>15. (know.wSent = [i \in Signers |-> Fl(know.w[i] + Off(i, "w_share"))])'
    BY <1>k, <2>6, <2>7, <2>8 DEF Off
  <2>16. (know.R = [i \in Signers |-> Fl(know.k[i] + Off(i, "R"))])'
    BY <1>k, <2>6, <2>7, <2>8 DEF Off
  <2> QED BY <1>k, <2>2, <2>7, <2>10, <2>12, <2>13, <2>14, <2>15, <2>16 DEF Ku24Equations
<1>4. CASE Ku24Presign
  <2> DEFINE rO == Ku24Opened(know.r, t)
             w == Ku24Opened(know.wSent, t)
             kInv == [i \in Signers |-> Fl(Inv(w) * know.a[i])]
             R == Ku24Opened(know.R, t)
  <2>1. ~Return("ku24_presign_4", Everyone(Refused))
    BY DEF Return
  <2>2. PICK zero \in Ku24Zeros(Blinds) : Step("ku24_presign_4", "ku24_sign_1", [kInv |-> kInv, R |-> R, zero |-> zero])
    BY <1>4, <2>1 DEF Ku24Presign
  <2>3. /\ Ku24Consistent(know.t, t) /\ Ku24Opened(know.t, t) = 0
        /\ Ku24Consistent(know.wSent, t) /\ Ku24Consistent(know.R, t) /\ w # 0
    BY <1>4, <2>1 DEF Ku24Presign
  <2>4. stage = "ku24_presign_4"
    BY <2>2 DEF Step
  <2>5. w = Ku24W /\ w \in Field /\ R = Ku24K
    BY <1>m, <2>3, <2>4, Ku24OpensNonce
  <2>6. rO # 0 => w = Fl(Ku24K * Ku24A)
    BY <1>m, <2>3, <2>4, <2>5, Ku24CheckedTriple
  <2> HIDE DEF w, R, rO
  <2>7. Inv(w) \in Int /\ \A i \in Signers : know.a[i] \in Int
    BY <1>v, <2>3, <2>5, InvInt DEF Ints
  <2>8. SharedAt(kInv, t, Fl(Inv(w) * Ku24A))
    <3>1. \A i \in Signers : kInv[i] \in Int /\ Fl(kInv[i]) = Fl(Inv(w) * know.a[i])
      <4> SUFFICES ASSUME NEW i \in Signers
                   PROVE  Fl(Inv(w) * know.a[i]) \in Int /\ Fl(Fl(Inv(w) * know.a[i])) = Fl(Inv(w) * know.a[i])
        OBVIOUS
      <4> DEFINE z == Inv(w) * know.a[i]
      <4>1. z \in Int
        BY <2>7
      <4> HIDE DEF z
      <4>2. Fl(z) \in Int /\ Fl(Fl(z)) = Fl(z)
        BY <4>1, FlInt, FlField
      <4> QED BY <4>2 DEF z
    <3> DEFINE iv == Inv(w)
               a == know.a
    <3>2. iv \in Int /\ SharedAt(a, t, Ku24A) /\ \A i \in Signers : kInv[i] \in Int /\ Fl(kInv[i]) = Fl(iv * a[i])
      BY <1>v, <2>7, <3>1
    <3> HIDE DEF kInv, iv, a
    <3>3. SharedAt(kInv, t, Fl(iv * Ku24A))
      BY <1>v, <3>2, SharedScale
    <3> QED BY <3>3 DEF iv
  <2> HIDE DEF kInv
  <2>9. Ku24Consistent(kInv, t) /\ Ku24Opened(kInv, t) = Fl(Inv(w) * Ku24A)
    BY <1>m, <2>8, Ku24Enough, SharedOpens
  <2>10. rO # 0 => Fl(Ku24Opened(kInv, t) * R) = 1
    BY <1>v, <2>3, <2>5, <2>6, <2>9, InverseOver
  <2>11. stage' = "ku24_sign_1" /\ know'.kInv = kInv /\ know'.R = R
    BY <2>2, StepKeeps
  <2>12. know'.r = know.r
    BY <2>2, StepKeeps DEF Ku24Known, Has
  <2>13. Ku24Opened(know.r, Ku24Degree)' = rO
    BY <1>k, <2>12 DEF Ku24Opened, Position, rO
  <2>14. Ku24Consistent(know.kInv, Ku24Degree)'
    BY <1>k, <2>9, <2>11 DEF Ku24Consistent
  <2>15. Ku24Opened(know.kInv, Ku24Degree)' = Ku24Opened(kInv, t)
    BY <1>k, <2>11 DEF Ku24Opened, Position
  <2>16. (Ku24Opened(know.r, Ku24Degree) # 0 => Fl(Ku24Opened(know.kInv, Ku24Degree) * know.R) = 1)'
    BY <2>10, <2>11, <2>13, <2>15
  <2> QED BY <1>k, <2>11, <2>14, <2>16 DEF Ku24Equations
<1>5. CASE Ku24Partial
  <2>1. stage' = "ku24_sign_2"
    BY <1>5 DEF Ku24Partial, Step
  <2> QED BY <1>k, <2>1 DEF Ku24Equations
<1>6. CASE Ku24Combine
  <2>1. stage' = "ku24_sign_3"
    BY <1>6 DEF Ku24Combine, Step, Return
  <2> QED BY <1>k, <2>1 DEF Ku24Equations
<1>7. CASE Ku24Finish
  BY <1>7 DEF Ku24Finish, Return
<1> QED BY <1>1, <1>2, <1>3, <1>4, <1>5, <1>6, <1>7 DEF Ku24SignNext

LEMMA Ku24PresignatureFits ==
    ASSUME Session, Ku24Known, Ku24Equations
    PROVE  Ku24Fits
  BY DEF Ku24Equations, Ku24Fits

\* Ku24Equations does not change when the state does not.
LEMMA Ku24EquationsStutter ==
    ASSUME Ku24Equations, stage' = stage, know' = know, bent' = bent, protocol' = protocol
    PROVE  Ku24Equations'
<1>1. Signers' = Signers
  BY SameSigners
<1>2. Ku24Subsets' = Ku24Subsets
  BY <1>1 DEF Ku24Subsets
<1>3. Ku24Draws(Scalars)' = Ku24Draws(Scalars) /\ Ku24Draws(Blinds)' = Ku24Draws(Blinds)
  BY <1>1, <1>2 DEF Ku24Draws, Ku24Rand, Ku24Fa
<1>4. Ku24K' = Ku24K /\ Ku24A' = Ku24A
  BY <1>1 DEF Ku24K, Ku24A, Ku24Opened, Position
<1>5. Ku24Err("w")' = Ku24Err("w") /\ Ku24Err("mu")' = Ku24Err("mu") /\ Ku24Err("tau")' = Ku24Err("tau")
  BY <1>1 DEF Ku24Err, Ku24Opened, Position, Off
<1>6. Ku24W' = Ku24W
  BY <1>4, <1>5 DEF Ku24W
<1>7. \A x : /\ Ku24Opened(x, Ku24Degree)' = Ku24Opened(x, Ku24Degree)
             /\ Ku24Mu(x)' = Ku24Mu(x) /\ Ku24Tau(x)' = Ku24Tau(x)
             /\ Ku24Mu(Ku24Opened(x, Ku24Degree))' = Ku24Mu(Ku24Opened(x, Ku24Degree))
             /\ Ku24Tau(Ku24Opened(x, Ku24Degree))' = Ku24Tau(Ku24Opened(x, Ku24Degree))
  <2> TAKE x
  <2>1. Ku24Opened(x, Ku24Degree)' = Ku24Opened(x, Ku24Degree)
    BY <1>1 DEF Ku24Opened, Position
  <2>2. Ku24Mu(x)' = Ku24Mu(x)
    BY <1>4, <1>5 DEF Ku24Mu
  <2>3. Ku24Tau(x)' = Ku24Tau(x)
    BY <1>4, <1>5, <2>2 DEF Ku24Tau
  <2>4. Ku24Mu(Ku24Opened(x, Ku24Degree))' = Ku24Mu(Ku24Opened(x, Ku24Degree))
    BY <1>4, <1>5, <2>1 DEF Ku24Mu
  <2>5. Ku24Tau(Ku24Opened(x, Ku24Degree))' = Ku24Tau(Ku24Opened(x, Ku24Degree))
    BY <1>4, <1>5, <2>4 DEF Ku24Tau
  <2> QED BY <2>1, <2>2, <2>3, <2>4, <2>5
<1>8. Ku24Settled'
  BY <1>1, <1>3 DEF Ku24Equations, Ku24Settled, Ku24Majority
<1>9. /\ Ku24Opened(know.r, Ku24Degree)' = Ku24Opened(know.r, Ku24Degree)
      /\ Ku24Opened(know.beta, Ku24Degree)' = Ku24Opened(know.beta, Ku24Degree)
      /\ Ku24Opened(know.kInv, Ku24Degree)' = Ku24Opened(know.kInv, Ku24Degree)
      /\ Ku24Consistent(know.kInv, Ku24Degree)' = Ku24Consistent(know.kInv, Ku24Degree)
  BY <1>1 DEF Ku24Opened, Position, Ku24Consistent
<1>10. (stage \in {"ku24_presign_1", "ku24_presign_2"} => know.r \in Ku24Draws(Blinds))'
  BY <1>3 DEF Ku24Equations
<1>11. (stage \in {"ku24_presign_2", "ku24_presign_3", "ku24_presign_4"} => SharedAt(know.w, Ku24Degree, Ku24W))'
  BY <1>1, <1>6 DEF Ku24Equations, SharedAt
<1>12. (stage = "ku24_presign_2" => SharedAt(know.mu, Ku24Degree, Ku24Mu(Ku24Opened(know.r, Ku24Degree))))'
  <2>1. Ku24Mu(Ku24Opened(know.r, Ku24Degree))' = Ku24Mu(Ku24Opened(know.r, Ku24Degree))
    BY <1>4, <1>5, <1>9 DEF Ku24Mu
  <2> QED BY <1>1, <2>1 DEF Ku24Equations, SharedAt
<1>13. (stage = "ku24_presign_3" =>
         \E r \in Ku24Draws(Blinds) :
            /\ know.r = [i \in Signers |-> Fl(r[i] + Off(i, "r"))]
            /\ SharedAt(know.tau, Ku24Degree, Ku24Tau(Ku24Opened(r, Ku24Degree))))'
  <2> SUFFICES ASSUME stage = "ku24_presign_3"
               PROVE  (\E r \in Ku24Draws(Blinds) :
                         /\ know.r = [i \in Signers |-> Fl(r[i] + Off(i, "r"))]
                         /\ SharedAt(know.tau, Ku24Degree, Ku24Tau(Ku24Opened(r, Ku24Degree))))'
    OBVIOUS
  <2>1. PICK r \in Ku24Draws(Blinds) :
           /\ know.r = [i \in Signers |-> Fl(r[i] + Off(i, "r"))]
           /\ SharedAt(know.tau, Ku24Degree, Ku24Tau(Ku24Opened(r, Ku24Degree)))
    BY DEF Ku24Equations
  <2>2. know'.r = [i \in Signers' |-> Fl(r[i] + Off(i, "r")')]
    BY <1>1, <2>1 DEF Off
  <2>3. r \in Ku24Draws(Blinds)'
    BY <1>3
  <2>4. SharedAt(know.tau, Ku24Degree, Ku24Tau(Ku24Opened(r, Ku24Degree)))'
    BY <1>1, <1>7, <2>1 DEF SharedAt
  <2> QED BY <2>2, <2>3, <2>4
<1>14. (stage = "ku24_presign_4" =>
         /\ SharedAt(know.tau, Ku24Degree, Ku24Tau(Ku24Opened(know.r, Ku24Degree)))
         /\ Ku24Opened(know.beta, Ku24Degree) # 0)'
  <2>1. Ku24Tau(Ku24Opened(know.r, Ku24Degree))' = Ku24Tau(Ku24Opened(know.r, Ku24Degree))
    BY <1>4, <1>5, <1>9 DEF Ku24Tau, Ku24Mu
  <2> QED BY <1>1, <1>9, <2>1 DEF Ku24Equations, SharedAt
<1>15. (stage = "ku24_presign_4" =>
         /\ know.t = [i \in Signers |-> Fl(Off(i, "t") + Ku24TripleCheck(know.tau[i], know.w[i],
                         Ku24Opened(know.r, Ku24Degree), Ku24Opened(know.beta, Ku24Degree)))]
         /\ know.wSent = [i \in Signers |-> Fl(know.w[i] + Off(i, "w_share"))]
         /\ know.R = [i \in Signers |-> Fl(know.k[i] + Off(i, "R"))])'
  BY <1>1, <1>9 DEF Ku24Equations, Off, Ku24TripleCheck
<1>16. (stage = "ku24_sign_1" /\ Ku24Opened(know.r, Ku24Degree) # 0 =>
         Ku24Consistent(know.kInv, Ku24Degree) /\ Fl(Ku24Opened(know.kInv, Ku24Degree) * know.R) = 1)'
  BY <1>9 DEF Ku24Equations
<1> QED BY <1>8, <1>10, <1>11, <1>12, <1>13, <1>14, <1>15, <1>16 DEF Ku24Equations

-----------------------------------------------------------------------------
(* The equations.                                                            *)

\* SuiteInv, and what the values that the machines hold have to do with each
\* other and with the key.
EquationsInv ==
    /\ SuiteInv
    /\ stage \in Gg18Stages => Gg18Equations
    /\ stage \in Dkls23Stages => Dkls23Equations
    /\ stage \in Ggn16Stages => Ggn16Equations
    /\ stage \in Cggmp20Stages => Cggmp20Equations
    /\ stage \in Xal21Stages => Xal21Equations
    /\ stage \in Kgg24Stages => Kgg24Equations
    /\ stage \in Wmc24Stages => Wmc24Equations
    /\ stage \in Wmy23Stages => Wmy23Equations
    /\ stage \in Tx25Stages => Tx25Equations
    /\ stage \in Jtx25Stages => Jtx25Equations
    /\ stage \in Llz25Stages => Llz25Equations
    /\ stage \in TroutStages => TroutEquations
    /\ stage \in Xal23Stages => Xal23Equations
    /\ stage \in Ku24Stages => Ku24Equations

LEMMA EquationsInit == Init => EquationsInv
<1> SUFFICES ASSUME Init PROVE EquationsInv
  OBVIOUS
<1>1. PICK f \in Sharings : /\ key = f[0]
                            /\ \/ Gg18SignBegin(f)
                               \/ Dkls23SignBegin(f)
                               \/ Ggn16SignBegin(f)
                               \/ Cggmp20SignBegin(f)
                               \/ Lin17SignBegin(f)
                               \/ Xal21SignBegin(f)
                               \/ Kgg24SignBegin(f)
                               \/ Abc24SignBegin(f)
                               \/ (protocol = "ln18" /\ Ln18SignBegin(f))
                               \/ Wmc24SignBegin(f)
                               \/ Wmy23SignBegin(f)
                               \/ Tx25SignBegin(f)
                               \/ Jtx25SignBegin(f)
                               \/ Llz25SignBegin(f)
                               \/ TroutSignBegin(f)
                               \/ Xal23SignBegin(f)
                               \/ Ku24SignBegin(f)
  BY DEF Init
<1>2. Session /\ Cardinality(Signers) >= 2 /\ bent \in Bent
  BY <1>1, BeginSession, TwoSigners DEF Init
<1>3. SuiteInv
  BY SuiteInit
<1>4. CASE Gg18SignBegin(f)
  <2>1. stage \in Gg18Stages
    BY <1>1, <1>2, <1>4, Gg18Begins
  <2>2. Gg18Equations
    BY <1>1, <1>2, <1>4, Gg18EquationsBegin
  <2> QED BY <1>3, <2>1, <2>2, StagesDistinct DEF EquationsInv
<1>5. CASE Dkls23SignBegin(f)
  <2>1. stage \in Dkls23Stages
    BY <1>1, <1>2, <1>5, Dkls23Begins
  <2>2. Dkls23Equations
    BY <1>1, <1>2, <1>5, Dkls23EquationsBegin
  <2> QED BY <1>3, <2>1, <2>2, StagesDistinct DEF EquationsInv
<1>6. CASE Ggn16SignBegin(f)
  <2>1. stage \in Ggn16Stages
    BY <1>1, <1>2, <1>6, Ggn16Begins
  <2>2. Ggn16Equations
    BY <1>1, <1>2, <1>6, Ggn16EquationsBegin
  <2> QED BY <1>3, <2>1, <2>2, StagesDistinct DEF EquationsInv
<1>7. CASE Cggmp20SignBegin(f)
  <2>1. stage \in Cggmp20Stages
    BY <1>1, <1>2, <1>7, Cggmp20Begins
  <2>2. Cggmp20Equations
    BY <1>1, <1>2, <1>7, Cggmp20EquationsBegin
  <2> QED BY <1>3, <2>1, <2>2, StagesDistinct DEF EquationsInv
<1>8. CASE Lin17SignBegin(f)
  <2>1. stage \in Lin17Stages
    BY <1>1, <1>2, <1>8, Lin17Begins
  <2> QED BY <1>3, <2>1, StagesDistinct DEF EquationsInv
<1>9. CASE Xal21SignBegin(f)
  <2>1. stage \in Xal21Stages
    BY <1>1, <1>2, <1>9, Xal21Begins
  <2>2. Xal21Equations
    BY <1>1, <1>2, <1>9, Xal21EquationsBegin
  <2> QED BY <1>3, <2>1, <2>2, StagesDistinct DEF EquationsInv
<1>10. CASE Kgg24SignBegin(f)
  <2>1. stage \in Kgg24Stages
    BY <1>1, <1>2, <1>10, Kgg24Begins
  <2>2. Kgg24Equations
    BY <1>1, <1>2, <1>10, Kgg24EquationsBegin
  <2> QED BY <1>3, <2>1, <2>2, StagesDistinct DEF EquationsInv
<1>11. CASE Abc24SignBegin(f)
  <2>1. stage \in Abc24Stages
    BY <1>1, <1>2, <1>11, Abc24Begins
  <2> QED BY <1>3, <2>1, StagesDistinct DEF EquationsInv
<1>12. CASE protocol = "ln18" /\ Ln18SignBegin(f)
  <2>1. stage \in Ln18Stages
    BY <1>1, <1>2, <1>12, Ln18Begins
  <2> QED BY <1>3, <2>1, StagesDistinct DEF EquationsInv
<1>13. CASE Wmc24SignBegin(f)
  <2>1. stage \in Wmc24Stages
    BY <1>1, <1>2, <1>13, Wmc24Begins
  <2>2. Wmc24Equations
    BY <1>1, <1>2, <1>13, Wmc24EquationsBegin
  <2> QED BY <1>3, <2>1, <2>2, StagesDistinct DEF EquationsInv
<1>14. CASE Wmy23SignBegin(f)
  <2>1. stage \in Wmy23Stages
    BY <1>1, <1>2, <1>14, Wmy23Begins
  <2>2. Wmy23Equations
    BY <1>1, <1>2, <1>14, Wmy23EquationsBegin
  <2> QED BY <1>3, <2>1, <2>2, StagesDistinct DEF EquationsInv
<1>15. CASE Tx25SignBegin(f)
  <2>1. stage \in Tx25Stages
    BY <1>1, <1>2, <1>15, Tx25Begins
  <2>2. Tx25Equations
    BY <1>1, <1>2, <1>15, Tx25EquationsBegin
  <2> QED BY <1>3, <2>1, <2>2, StagesDistinct DEF EquationsInv
<1>16. CASE Jtx25SignBegin(f)
  <2>1. stage \in Jtx25Stages
    BY <1>1, <1>2, <1>16, Jtx25Begins
  <2>2. Jtx25Equations
    BY <1>1, <1>2, <1>16, Jtx25EquationsBegin
  <2> QED BY <1>3, <2>1, <2>2, StagesDistinct DEF EquationsInv
<1>17. CASE Llz25SignBegin(f)
  <2>1. stage \in Llz25Stages
    BY <1>1, <1>2, <1>17, Llz25Begins
  <2>2. Llz25Equations
    BY <1>1, <1>2, <1>17, Llz25EquationsBegin
  <2> QED BY <1>3, <2>1, <2>2, StagesDistinct DEF EquationsInv
<1>18. CASE TroutSignBegin(f)
  <2>1. stage \in TroutStages
    BY <1>1, <1>2, <1>18, TroutBegins
  <2>2. TroutEquations
    BY <1>1, <1>2, <1>18, TroutEquationsBegin
  <2> QED BY <1>3, <2>1, <2>2, StagesDistinct DEF EquationsInv
<1>19. CASE Xal23SignBegin(f)
  <2>1. stage \in Xal23Stages
    BY <1>1, <1>2, <1>19, Xal23Begins
  <2>2. Xal23Equations
    BY <1>1, <1>2, <1>19, Xal23EquationsBegin
  <2> QED BY <1>3, <2>1, <2>2, StagesDistinct DEF EquationsInv
<1>20. CASE Ku24SignBegin(f)
  <2>1. stage \in Ku24Stages
    BY <1>1, <1>2, <1>20, Ku24Begins
  <2>2. Ku24Equations
    BY <1>1, <1>2, <1>20, Ku24EquationsBegin
  <2> QED BY <1>3, <2>1, <2>2, StagesDistinct DEF EquationsInv
<1> QED BY <1>1, <1>4, <1>5, <1>6, <1>7, <1>8, <1>9, <1>10, <1>11, <1>12, <1>13, <1>14, <1>15, <1>16, <1>17, <1>18, <1>19, <1>20

LEMMA EquationsStep ==
    ASSUME EquationsInv, Next
    PROVE  EquationsInv'
<1>1. Session /\ SuiteInv /\ Cardinality(Signers) >= 2
  BY TwoSigners DEF EquationsInv, SuiteInv
<1>2. SuiteInv'
  BY <1>1, SuiteStep
<1>3. CASE stage' = "ended"
  BY <1>2, <1>3, StagesDistinct DEF EquationsInv, Stages
<1>4. CASE stage' # "ended"
  <2>1. CASE Gg18SignNext
    <3>1. stage \in Gg18Stages /\ Gg18Known /\ Gg18Equations
      BY <1>1, <2>1, Gg18Staged DEF EquationsInv, SuiteInv
    <3>2. stage' \in Gg18Stages
      BY <1>1, <1>4, <2>1, <3>1, Gg18Step
    <3>3. Gg18Equations'
      BY <1>1, <1>4, <2>1, <3>1, Gg18EquationsStep
    <3> QED BY <1>2, <3>2, <3>3, StagesDistinct DEF EquationsInv
  <2>2. CASE Dkls23SignNext
    <3>1. stage \in Dkls23Stages /\ Dkls23Known /\ Dkls23Equations
      BY <1>1, <2>2, Dkls23Staged DEF EquationsInv, SuiteInv
    <3>2. stage' \in Dkls23Stages
      BY <1>1, <1>4, <2>2, <3>1, Dkls23Step
    <3>3. Dkls23Equations'
      BY <1>1, <1>4, <2>2, <3>1, Dkls23EquationsStep
    <3> QED BY <1>2, <3>2, <3>3, StagesDistinct DEF EquationsInv
  <2>3. CASE Ggn16SignNext
    <3>1. stage \in Ggn16Stages /\ Ggn16Known /\ Ggn16Equations
      BY <1>1, <2>3, Ggn16Staged DEF EquationsInv, SuiteInv
    <3>2. stage' \in Ggn16Stages
      BY <1>1, <1>4, <2>3, <3>1, Ggn16Step
    <3>3. Ggn16Equations'
      BY <1>1, <1>4, <2>3, <3>1, Ggn16EquationsStep
    <3> QED BY <1>2, <3>2, <3>3, StagesDistinct DEF EquationsInv
  <2>4. CASE Cggmp20SignNext
    <3>1. stage \in Cggmp20Stages /\ Cggmp20Known /\ Cggmp20Equations
      BY <1>1, <2>4, Cggmp20Staged DEF EquationsInv, SuiteInv
    <3>2. stage' \in Cggmp20Stages
      BY <1>1, <1>4, <2>4, <3>1, Cggmp20Step
    <3>3. Cggmp20Equations'
      BY <1>1, <1>4, <2>4, <3>1, Cggmp20EquationsStep
    <3> QED BY <1>2, <3>2, <3>3, StagesDistinct DEF EquationsInv
  <2>5. CASE Lin17SignNext
    <3>1. stage \in Lin17Stages /\ Lin17Known
      BY <1>1, <2>5, Lin17Staged DEF SuiteInv
    <3>2. stage' \in Lin17Stages
      BY <1>1, <1>4, <2>5, <3>1, Lin17Step
    <3> QED BY <1>2, <3>2, StagesDistinct DEF EquationsInv
  <2>6. CASE Xal21SignNext
    <3>1. stage \in Xal21Stages /\ Xal21Known /\ Xal21Equations
      BY <1>1, <2>6, Xal21Staged DEF EquationsInv, SuiteInv
    <3>2. stage' \in Xal21Stages
      BY <1>1, <1>4, <2>6, <3>1, Xal21Step
    <3>3. Xal21Equations'
      BY <1>1, <1>4, <2>6, <3>1, Xal21EquationsStep
    <3> QED BY <1>2, <3>2, <3>3, StagesDistinct DEF EquationsInv
  <2>7. CASE Kgg24SignNext
    <3>1. stage \in Kgg24Stages /\ Kgg24Known /\ Kgg24Equations
      BY <1>1, <2>7, Kgg24Staged DEF EquationsInv, SuiteInv
    <3>2. stage' \in Kgg24Stages
      BY <1>1, <1>4, <2>7, <3>1, Kgg24Step
    <3>3. Kgg24Equations'
      BY <1>1, <1>4, <2>7, <3>1, Kgg24EquationsStep
    <3> QED BY <1>2, <3>2, <3>3, StagesDistinct DEF EquationsInv
  <2>8. CASE Abc24SignNext
    <3>1. stage \in Abc24Stages /\ Abc24Known
      BY <1>1, <2>8, Abc24Staged DEF SuiteInv
    <3>2. stage' \in Abc24Stages
      BY <1>1, <1>4, <2>8, <3>1, Abc24Step
    <3> QED BY <1>2, <3>2, StagesDistinct DEF EquationsInv
  <2>9. CASE Ln18SignNext
    <3>1. stage \in Ln18Stages /\ Ln18Known
      BY <1>1, <2>9, Ln18Staged DEF SuiteInv
    <3>2. stage' \in Ln18Stages
      BY <1>1, <1>4, <2>9, <3>1, Ln18Step
    <3> QED BY <1>2, <3>2, StagesDistinct DEF EquationsInv
  <2>10. CASE Wmc24SignNext
    <3>1. stage \in Wmc24Stages /\ Wmc24Known /\ Wmc24Equations
      BY <1>1, <2>10, Wmc24Staged DEF EquationsInv, SuiteInv
    <3>2. stage' \in Wmc24Stages
      BY <1>1, <1>4, <2>10, <3>1, Wmc24Step
    <3>3. Wmc24Equations'
      BY <1>1, <1>4, <2>10, <3>1, Wmc24EquationsStep
    <3> QED BY <1>2, <3>2, <3>3, StagesDistinct DEF EquationsInv
  <2>11. CASE Wmy23SignNext
    <3>1. stage \in Wmy23Stages /\ Wmy23Known /\ Wmy23Equations
      BY <1>1, <2>11, Wmy23Staged DEF EquationsInv, SuiteInv
    <3>2. stage' \in Wmy23Stages
      BY <1>1, <1>4, <2>11, <3>1, Wmy23Step
    <3>3. Wmy23Equations'
      BY <1>1, <1>4, <2>11, <3>1, Wmy23EquationsStep
    <3> QED BY <1>2, <3>2, <3>3, StagesDistinct DEF EquationsInv
  <2>12. CASE Tx25SignNext
    <3>1. stage \in Tx25Stages /\ Tx25Known /\ Tx25Equations
      BY <1>1, <2>12, Tx25Staged DEF EquationsInv, SuiteInv
    <3>2. stage' \in Tx25Stages
      BY <1>1, <1>4, <2>12, <3>1, Tx25Step
    <3>3. Tx25Equations'
      BY <1>1, <1>4, <2>12, <3>1, Tx25EquationsStep
    <3> QED BY <1>2, <3>2, <3>3, StagesDistinct DEF EquationsInv
  <2>13. CASE Jtx25SignNext
    <3>1. stage \in Jtx25Stages /\ Jtx25Known /\ Jtx25Equations
      BY <1>1, <2>13, Jtx25Staged DEF EquationsInv, SuiteInv
    <3>2. stage' \in Jtx25Stages
      BY <1>1, <1>4, <2>13, <3>1, Jtx25Step
    <3>3. Jtx25Equations'
      BY <1>1, <1>4, <2>13, <3>1, Jtx25EquationsStep
    <3> QED BY <1>2, <3>2, <3>3, StagesDistinct DEF EquationsInv
  <2>14. CASE Llz25SignNext
    <3>1. stage \in Llz25Stages /\ Llz25Known /\ Llz25Equations
      BY <1>1, <2>14, Llz25Staged DEF EquationsInv, SuiteInv
    <3>2. stage' \in Llz25Stages
      BY <1>1, <1>4, <2>14, <3>1, Llz25Step
    <3>3. Llz25Equations'
      BY <1>1, <1>4, <2>14, <3>1, Llz25EquationsStep
    <3> QED BY <1>2, <3>2, <3>3, StagesDistinct DEF EquationsInv
  <2>15. CASE TroutSignNext
    <3>1. stage \in TroutStages /\ TroutKnown /\ TroutEquations
      BY <1>1, <2>15, TroutStaged DEF EquationsInv, SuiteInv
    <3>2. stage' \in TroutStages
      BY <1>1, <1>4, <2>15, <3>1, TroutStep
    <3>3. TroutEquations'
      BY <1>1, <1>4, <2>15, <3>1, TroutEquationsStep
    <3> QED BY <1>2, <3>2, <3>3, StagesDistinct DEF EquationsInv
  <2>16. CASE Xal23SignNext
    <3>1. stage \in Xal23Stages /\ Xal23Known /\ Xal23Equations
      BY <1>1, <2>16, Xal23Staged DEF EquationsInv, SuiteInv
    <3>2. stage' \in Xal23Stages
      BY <1>1, <1>4, <2>16, <3>1, Xal23Step
    <3>3. Xal23Equations'
      BY <1>1, <1>4, <2>16, <3>1, Xal23EquationsStep
    <3> QED BY <1>2, <3>2, <3>3, StagesDistinct DEF EquationsInv
  <2>17. CASE Ku24SignNext
    <3>1. stage \in Ku24Stages /\ Ku24Known /\ Ku24Equations
      BY <1>1, <2>17, Ku24Staged DEF EquationsInv, SuiteInv
    <3>2. stage' \in Ku24Stages
      BY <1>1, <1>4, <2>17, <3>1, Ku24Step
    <3>3. Ku24Equations'
      BY <1>1, <1>4, <2>17, <3>1, Ku24EquationsStep
    <3> QED BY <1>2, <3>2, <3>3, StagesDistinct DEF EquationsInv
  <2> QED BY <2>1, <2>2, <2>3, <2>4, <2>5, <2>6, <2>7, <2>8, <2>9, <2>10, <2>11, <2>12, <2>13, <2>14, <2>15, <2>16, <2>17 DEF Next
<1> QED BY <1>3, <1>4

LEMMA EquationsStutter ==
    ASSUME EquationsInv, UNCHANGED vars
    PROVE  EquationsInv'
<1>1. /\ stage' = stage /\ know' = know /\ key' = key /\ digest' = digest /\ bent' = bent
      /\ answer' = answer /\ protocol' = protocol
  BY DEF vars
<1>2. Signers' = Signers /\ Ints' = Ints /\ Pairs' = Pairs /\ PairInts' = PairInts
  BY <1>1, SameIndices
<1>3. SuiteInv'
  BY SuiteStutter DEF EquationsInv
<1>4. Gg18Equations' = Gg18Equations
  BY <1>1, <1>2 DEF Gg18Equations, Gg18Wraps, Gg18Decrypted, Gg18Delta, Gg18Nonce, Gg18VCheck, Gg18A, Gg18ZeroHolds, Gg18MaskRange, Has
<1>5. Dkls23Equations' = Dkls23Equations
  BY <1>1, <1>2 DEF Dkls23Equations, Dkls23Psi, Dkls23Accepts, Dkls23Consistent, Others
<1>6. Ggn16Equations' = Ggn16Equations
  BY <1>1, <1>2 DEF Ggn16Equations, Ggn16Eta
<1>7. Cggmp20Equations' = Cggmp20Equations
  BY <1>1, <1>2 DEF Cggmp20Equations
<1>8. Xal21Equations' = Xal21Equations
  BY <1>1, <1>2 DEF Xal21Equations
<1>9. Kgg24Equations' = Kgg24Equations
  BY <1>1, <1>2 DEF Kgg24Equations, Kgg24Fits
<1>10. Wmc24Equations' = Wmc24Equations
  BY <1>1, <1>2 DEF Wmc24Equations, Wmc24Weighted
<1>11. Wmy23Equations' = Wmy23Equations
  BY <1>1, <1>2 DEF Wmy23Equations, Wmy23Nonce, Secret
<1>12. Tx25Equations' = Tx25Equations
  BY <1>1, <1>2 DEF Tx25Equations, Tx25Fits, Tx25Bilinear
<1>13. Jtx25Equations' = Jtx25Equations
  BY <1>1, <1>2 DEF Jtx25Equations, Jtx25KeyParts, Jtx25NonceParts, Jtx25Weight, Jtx25SharedNonce
<1>14. Llz25Equations' = Llz25Equations
  BY <1>1, <1>2 DEF Llz25Equations, Llz25KeyParts
<1>15. TroutEquations' = TroutEquations
  BY <1>1, <1>2 DEF TroutEquations, TroutFits, TroutSolve, TroutSumOf
<1>16. Xal23Equations' = Xal23Equations
  BY <1>1, <1>2 DEF Xal23Equations, Xal23Fits
<1>17. Ku24Equations => Ku24Equations'
  BY <1>1, <1>2, Ku24EquationsStutter
<1> QED BY <1>1, <1>3, <1>4, <1>5, <1>6, <1>7, <1>8, <1>9, <1>10, <1>11, <1>12, <1>13, <1>14, <1>15, <1>16, <1>17 DEF EquationsInv

\* The equations hold at every stage of every session.
THEOREM EquationsInvariant == Spec => []EquationsInv
<1>1. Init => EquationsInv
  BY EquationsInit
<1>2. EquationsInv /\ [Next]_vars => EquationsInv'
  BY EquationsStep, EquationsStutter
<1> QED BY <1>1, <1>2, PTL DEF Spec

\* In the protocols that check what they are about to open (the zero check of
\* GG18's phase 5, the point equations of CGGMP20's presignature, the two checks
\* of LN18), the shares of s are opened only when they add up to a signature
\* under the shared key, for every sharing, digest, nonce and mask, and whichever
\* single share is wrong.
THEOREM SigningNotInVain == Spec => []NothingRevealedInVain
<1>1. EquationsInv => NothingRevealedInVain
  <2> SUFFICES ASSUME EquationsInv PROVE NothingRevealedInVain
    OBVIOUS
  <2>1. Session
    BY DEF EquationsInv, SuiteInv
  <2>2. Gg18Revealed
    <3>1. CASE stage \in Gg18Stages
      BY <2>1, <3>1, Gg18NotInVain DEF EquationsInv, SuiteInv
    <3>2. CASE stage \notin Gg18Stages
      BY <3>2 DEF Gg18Stages, Gg18Revealed
    <3> QED BY <3>1, <3>2
  <2>3. Cggmp20Revealed
    <3>1. CASE stage \in Cggmp20Stages
      BY <2>1, <3>1, Cggmp20NotInVain DEF EquationsInv, SuiteInv
    <3>2. CASE stage \notin Cggmp20Stages
      BY <3>2 DEF Cggmp20Stages, Cggmp20Revealed
    <3> QED BY <3>1, <3>2
  <2>4. Ln18Revealed
    <3>1. CASE stage \in Ln18Stages
      BY <2>1, <3>1, Ln18NotInVain DEF EquationsInv, SuiteInv
    <3>2. CASE stage \notin Ln18Stages
      BY <3>2 DEF Ln18Stages, Ln18Revealed
    <3> QED BY <3>1, <3>2
  <2> QED BY <2>2, <2>3, <2>4 DEF NothingRevealedInVain
<1> QED BY <1>1, EquationsInvariant, PTL

\* What presigning leaves fits the nonce and the key, for every sharing, digest,
\* nonce and mask, and whichever single share was wrong where the protocol is to
\* notice it.
THEOREM SigningPresignaturesFit == Spec => []PresignaturesFit
<1>1. EquationsInv => PresignaturesFit
  <2> SUFFICES ASSUME EquationsInv PROVE PresignaturesFit
    OBVIOUS
  <2>0. Session
    BY DEF EquationsInv, SuiteInv
  <2>1. Gg18Fits
    <3>1. CASE stage \in Gg18Stages
      BY <2>0, <3>1, Gg18PresignatureFits DEF EquationsInv, SuiteInv
    <3>2. CASE stage \notin Gg18Stages
      BY <3>2 DEF Gg18Stages, Gg18Fits
    <3> QED BY <3>1, <3>2
  <2>2. Dkls23Fits
    <3>1. CASE stage \in Dkls23Stages
      BY <2>0, <3>1, Dkls23PresignatureFits DEF EquationsInv, SuiteInv
    <3>2. CASE stage \notin Dkls23Stages
      BY <3>2 DEF Dkls23Stages, Dkls23Fits
    <3> QED BY <3>1, <3>2
  <2>3. Ggn16Fits
    <3>1. CASE stage \in Ggn16Stages
      BY <2>0, <3>1, Ggn16PresignatureFits DEF EquationsInv, SuiteInv
    <3>2. CASE stage \notin Ggn16Stages
      BY <3>2 DEF Ggn16Stages, Ggn16Fits
    <3> QED BY <3>1, <3>2
  <2>4. Cggmp20Fits
    <3>1. CASE stage \in Cggmp20Stages
      BY <2>0, <3>1, Cggmp20PresignatureFits DEF EquationsInv, SuiteInv
    <3>2. CASE stage \notin Cggmp20Stages
      BY <3>2 DEF Cggmp20Stages, Cggmp20Fits
    <3> QED BY <3>1, <3>2
  <2>5. Xal21Fits
    <3>1. CASE stage \in Xal21Stages
      BY <2>0, <3>1, Xal21PresignatureFits DEF EquationsInv, SuiteInv
    <3>2. CASE stage \notin Xal21Stages
      BY <3>2 DEF Xal21Stages, Xal21Fits
    <3> QED BY <3>1, <3>2
  <2>6. Kgg24Fits
    <3>1. CASE stage \in Kgg24Stages
      BY <3>1 DEF EquationsInv, Kgg24Equations
    <3>2. CASE stage \notin Kgg24Stages
      BY <3>2 DEF Kgg24Stages, Kgg24Fits
    <3> QED BY <3>1, <3>2
  <2>7. Ln18Fits
    <3>1. CASE stage \in Ln18Stages
      BY <2>0, <3>1, Ln18PresignatureFits DEF EquationsInv, SuiteInv
    <3>2. CASE stage \notin Ln18Stages
      BY <3>2 DEF Ln18Stages, Ln18Fits
    <3> QED BY <3>1, <3>2
  <2>8. Wmc24Fits
    <3>1. CASE stage \in Wmc24Stages
      BY <2>0, <3>1, Wmc24PresignatureFits DEF EquationsInv, SuiteInv
    <3>2. CASE stage \notin Wmc24Stages
      BY <3>2 DEF Wmc24Stages, Wmc24Fits
    <3> QED BY <3>1, <3>2
  <2>9. Wmy23Fits
    <3>1. CASE stage \in Wmy23Stages
      BY <2>0, <3>1, Wmy23PresignatureFits DEF EquationsInv, SuiteInv
    <3>2. CASE stage \notin Wmy23Stages
      BY <3>2 DEF Wmy23Stages, Wmy23Fits
    <3> QED BY <3>1, <3>2
  <2>10. Tx25Fits
    <3>1. CASE stage \in Tx25Stages
      BY <3>1 DEF EquationsInv, Tx25Equations
    <3>2. CASE stage \notin Tx25Stages
      BY <3>2 DEF Tx25Stages, Tx25Fits
    <3> QED BY <3>1, <3>2
  <2>11. Jtx25Fits
    <3>1. CASE stage \in Jtx25Stages
      BY <2>0, <3>1, Jtx25PresignatureFits DEF EquationsInv, SuiteInv
    <3>2. CASE stage \notin Jtx25Stages
      BY <3>2 DEF Jtx25Stages, Jtx25Fits
    <3> QED BY <3>1, <3>2
  <2>12. Llz25Fits
    <3>1. CASE stage \in Llz25Stages
      BY <2>0, <3>1, Llz25PresignatureFits DEF EquationsInv, SuiteInv
    <3>2. CASE stage \notin Llz25Stages
      BY <3>2 DEF Llz25Stages, Llz25Fits
    <3> QED BY <3>1, <3>2
  <2>13. TroutFits
    <3>1. CASE stage \in TroutStages
      BY <3>1 DEF EquationsInv, TroutEquations
    <3>2. CASE stage \notin TroutStages
      BY <3>2 DEF TroutStages, TroutFits
    <3> QED BY <3>1, <3>2
  <2>14. Xal23Fits
    <3>1. CASE stage \in Xal23Stages
      BY <3>1 DEF EquationsInv, Xal23Equations
    <3>2. CASE stage \notin Xal23Stages
      BY <3>2 DEF Xal23Stages, Xal23Fits
    <3> QED BY <3>1, <3>2
  <2>15. Ku24Fits
    <3>1. CASE stage \in Ku24Stages
      BY <2>0, <3>1, Ku24PresignatureFits DEF EquationsInv, SuiteInv
    <3>2. CASE stage \notin Ku24Stages
      BY <3>2 DEF Ku24Stages, Ku24Fits
    <3> QED BY <3>1, <3>2
  <2> QED BY <2>1, <2>2, <2>3, <2>4, <2>5, <2>6, <2>7, <2>8, <2>9, <2>10, <2>11, <2>12, <2>13, <2>14, <2>15 DEF PresignaturesFit
<1> QED BY <1>1, EquationsInvariant, PTL
=============================================================================
