----------------------- MODULE SigningRefusals_proofs ------------------------
(*****************************************************************************)
(* Why a signing session may refuse: in each protocol, what the parties know *)
(* at its last checks when nobody deviates, and that every refusal therefore *)
(* has one of the reasons of RefusedForAReason.  What an honest session must *)
(* know is XComplete for protocol X, on top of XEquations.                   *)
(*****************************************************************************)
EXTENDS SigningEquations_proofs

\* A session returns an error to everyone only if that is what it came to.
LEMMA EveryoneRefused ==
    ASSUME NEW from, NEW outcome, Return(from, Everyone(outcome)),
           NEW i \in DOMAIN answer', answer'[i] = Refused
    PROVE  stage = from /\ outcome = Refused
  BY DEF Return, Everyone

-----------------------------------------------------------------------------
(* GG18.                                                                     *)

\* The shares of s of signers that are not faulty.
Gg18Complete ==
    stage \in {"gg18_round_5", "gg18_round_7", "gg18_round_8"} /\ bent = Straight =>
        Total(know.s, Signers) = Fl(digest * Gg18Nonce + XCoord(know.R) * Total(know.sigma, Signers))

LEMMA Gg18CompleteStep ==
    ASSUME Session, Gg18Known, Gg18Equations, Gg18Complete, Gg18SignNext, stage' # "ended"
    PROVE  Gg18Complete'
<1>1. CASE Gg18Reply \/ Gg18Open \/ Gg18Presign
  BY Zenon, <1>1 DEF Gg18Reply, Gg18Open, Gg18Presign, Step, Return, Gg18Complete
<1>2. CASE Gg18Commit
  <2> DEFINE s == [i \in Signers |-> Fl(Gg18SShare(i) + bent[i])]
  <2>1. PICK l \in [Signers -> Blinds], rho \in [Signers -> Scalars] :
          Step("gg18_round_4", "gg18_round_5", [l |-> l, rho |-> rho, s |-> s])
    BY Zenon, <1>2 DEF Gg18Commit
  <2> HIDE DEF s
  <2>2. /\ stage = "gg18_round_4" /\ stage' = "gg18_round_5" /\ know'.s = s
        /\ digest' = digest /\ bent' = bent /\ Signers' = Signers
    BY <2>1, StepKeeps
  <2>3. know'.k = know.k /\ know'.R = know.R /\ know'.sigma = know.sigma
    BY <2>1, <2>2, StepKeeps DEF Gg18Known, Has
  <2>4. ASSUME bent = Straight
        PROVE  Total(s, Signers) = Fl(digest * Gg18Nonce + XCoord(know.R) * Total(know.sigma, Signers))
    <3>1. /\ digest \in Int /\ XCoord(know.R) \in Int
          /\ know.k \in Ints /\ know.sigma \in Ints
      BY Zenon, <2>2, Operands, XCoordType, ScalarsType DEF Gg18Known, Has
    <3>2. ASSUME NEW i \in Signers
          PROVE  s[i] \in Int /\ Fl(s[i]) = Fl(digest * know.k[i] + XCoord(know.R) * know.sigma[i])
      <4> DEFINE x == digest * know.k[i] + XCoord(know.R) * know.sigma[i]
      <4>1. know.k[i] \in Int /\ know.sigma[i] \in Int
        BY <3>1 DEF Ints
      <4>2. digest * know.k[i] \in Int /\ XCoord(know.R) * know.sigma[i] \in Int
        BY <3>1, <4>1
      <4>3. x \in Int
        BY <4>2
      <4>4. bent[i] = 0
        BY <2>4 DEF Straight
      <4>5. Gg18SShare(i) = Fl(x)
        BY DEF Gg18SShare
      <4> HIDE DEF x
      <4>6. Fl(x) \in Field /\ Fl(x) \in Int
        BY <4>3, FlInt
      <4>7. s[i] = Fl(Fl(x))
        BY <4>4, <4>5, <4>6 DEF s
      <4> QED BY <4>6, <4>7, FlField DEF x
    <3> DEFINE r == XCoord(know.R)
    <3>3. /\ digest \in Int /\ r \in Int /\ know.k \in Ints /\ know.sigma \in Ints
          /\ \A i \in Signers : s[i] \in Int /\ Fl(s[i]) = Fl(digest * know.k[i] + r * know.sigma[i])
      BY <3>1, <3>2
    <3> HIDE DEF r
    <3>4. Total(s, Signers) = Fl(digest * Total(know.k, Signers) + r * Total(know.sigma, Signers))
      BY <3>3, CombinedShares
    <3> QED BY <3>4 DEF Gg18Nonce, r
  <2>5. Straight' = Straight
    BY <2>2 DEF Straight
  <2> QED BY <2>2, <2>3, <2>4, <2>5 DEF Gg18Complete, Gg18Nonce
<1>3. CASE Gg18Blind
  <2> DEFINE U == [i \in Signers |-> Fl(Gg18VCheck * know.rho[i])]
             W == [i \in Signers |-> Fl(know.l[i] * Gg18A)]
  <2>1. Step("gg18_round_5", "gg18_round_7", [U |-> U, T |-> W])
    BY <1>3 DEF Gg18Blind
  <2> HIDE DEF U, W
  <2>2. /\ stage = "gg18_round_5" /\ stage' = "gg18_round_7"
        /\ digest' = digest /\ bent' = bent /\ Signers' = Signers
    BY <2>1, StepKeeps
  <2>3. know'.k = know.k /\ know'.R = know.R /\ know'.sigma = know.sigma /\ know'.s = know.s
    BY <2>1, <2>2, StepKeeps DEF Gg18Known, Has
  <2> QED BY <2>2, <2>3 DEF Gg18Complete, Gg18Nonce, Straight
<1>4. CASE Gg18ZeroCheck
  <2>1. Pass("gg18_round_7", "gg18_round_8")
    BY <1>4 DEF Gg18ZeroCheck, Return
  <2>2. Signers' = Signers
    BY <2>1, SameSigners DEF Pass
  <2> QED BY <2>1, <2>2 DEF Pass, Gg18Complete, Gg18Nonce, Straight
<1>5. CASE Gg18Finish
  BY <1>5 DEF Gg18Finish, Return
<1> QED BY <1>1, <1>2, <1>3, <1>4, <1>5 DEF Gg18SignNext

\* Signers that are not faulty hold shares of the signature.
LEMMA Gg18SharesSigned ==
    ASSUME Session, Gg18Known, Gg18Equations, Gg18Complete, ~Gg18Excuse,
           stage \in {"gg18_round_7", "gg18_round_8"}
    PROVE  Fl(Total(know.s, Signers) * know.R) = Fl(digest + XCoord(know.R) * key)
<1> DEFINE K == Gg18Nonce
           G == Total(know.gamma, Signers)
           D == Gg18Delta
           g == Total(know.sigma, Signers)
           r == XCoord(know.R)
<1>1. /\ know.k \in Ints /\ know.gamma \in Ints /\ know.delta \in Ints /\ know.sigma \in Ints
      /\ know.R \in Field /\ know.s \in Ints
  BY DEF Gg18Known, Has
<1>2. /\ K \in Field /\ G \in Field /\ D \in Field /\ g \in Field /\ K \in Int /\ g \in Int
  BY <1>1, IntsType DEF Ints, Gg18Nonce, Gg18Delta
<1>3. ~Gg18Wraps /\ bent = Straight
  BY DEF Gg18Excuse
<1>4. D # 0 /\ know.R = Fl(Inv(D) * G) /\ D = Fl(K * G) /\ g = Fl(K * key)
  BY <1>3 DEF Gg18Equations
<1>5. Total(know.s, Signers) = Fl(digest * K + r * g)
  BY <1>3 DEF Gg18Complete
<1>6. digest \in Int /\ key \in Int /\ r \in Int /\ know.R \in Int
  BY Zenon, <1>1, Operands, XCoordType, ScalarsType
<1> HIDE DEF K, G, D, g, r
<1>7. Fl(know.R * K) = 1
  BY <1>2, <1>4, InverseOver
<1>8. Fl(g) = Fl(K * key)
  BY <1>2, <1>4, FlField
<1> DEFINE S == Total(know.s, Signers)
<1>9. S = Fl(digest * K + r * g)
  BY <1>5
<1> HIDE DEF S
<1>10. SharedSignature(know.R, K, digest, key, g, r, S)
  BY <1>2, <1>6, <1>7, <1>8, <1>9 DEF SharedSignature
<1>11. Fl(S * know.R) = Fl(digest + r * key)
  BY <1>10, NonceInverted
<1> QED BY <1>11 DEF r, S

LEMMA Gg18Refusals ==
    ASSUME Session, Gg18Known, Gg18Equations, Gg18Complete, Gg18SignNext, stage' = "ended",
           NEW i \in DOMAIN answer', answer'[i] = Refused
    PROVE  Gg18Excuse
<1> SUFFICES ASSUME ~Gg18Excuse PROVE FALSE
  OBVIOUS
<1>0. CASE Gg18Reply \/ Gg18Open \/ Gg18Commit \/ Gg18Blind
  BY <1>0 DEF Gg18Reply, Gg18Open, Gg18Commit, Gg18Blind, Step
<1>1. CASE Gg18Presign
  <2>1. Gg18Delta = 0 /\ stage = "gg18_round_3"
    BY <1>1 DEF Gg18Presign, Step, Return
  <2> DEFINE K == Gg18Nonce
             G == Total(know.gamma, Signers)
  <2>2. K \in Field /\ G \in Field /\ K # 0 /\ G # 0
    BY IntsType DEF Ints, Gg18Nonce, Gg18Known, Has, Gg18Excuse
  <2>3. Fl(K * G) = 0
    BY <2>1 DEF Gg18Equations, Gg18Excuse
  <2> HIDE DEF K, G
  <2> QED BY Zenon, <2>2, <2>3, FlIntegral, FlField, ScalarsType
<1>2. CASE Gg18ZeroCheck
  <2>1. ~Gg18ZeroHolds /\ stage = "gg18_round_7"
    BY <1>2 DEF Gg18ZeroCheck, Pass, Return
  <2> DEFINE S == Total(know.s, Signers)
             L == Total(know.l, Signers)
             V == Gg18VCheck
             A == Gg18A
             r == XCoord(know.R)
             sR == S * know.R
             kr == key * r
  <2>2. Fl(sR) = Fl(digest + r * key)
    BY <2>1, Gg18SharesSigned
  <2>3. know.l \in Ints /\ know.rho \in Ints /\ know.s \in Ints /\ know.R \in Field
    BY <2>1 DEF Gg18Known, Gg18Equations, Has
  <2>4. V \in Int /\ A \in Int /\ V = Fl(sR + L - digest - kr)
    BY <2>3, Gg18VCheckType
  <2>5. /\ S \in Int /\ L \in Int /\ L \in Field /\ know.R \in Int /\ r \in Int
        /\ digest \in Int /\ key \in Int
    BY Zenon, <2>3, IntsType, XCoordType, ScalarsType, Operands DEF Ints
  <2>6. sR \in Int /\ kr \in Int /\ kr = r * key
    <3> HIDE DEF S, r
    <3> QED BY <2>5
  <2>7. /\ Total(know.U, Signers) = Fl(V * A) /\ Total(know.T, Signers) = Fl(A * L)
        /\ Total(know.U, Signers) # Total(know.T, Signers)
    BY <2>1 DEF Gg18Equations, Gg18ZeroHolds
  <2> HIDE DEF S, L, V, A, r, sR, kr
  <2>8. V = L
    <3> DEFINE y == digest + kr
               z == L - digest - kr
    <3>1. y \in Int /\ z \in Int /\ Fl(sR) = Fl(y) /\ y + z = L /\ sR + z = sR + L - digest - kr
      BY <2>2, <2>5, <2>6
    <3> HIDE DEF y, z
    <3>2. Fl(sR + z) = Fl(y + z)
      BY <2>6, <3>1, FlShift
    <3> QED BY <2>4, <2>5, <3>1, <3>2, FlField
  <2>9. V * A = A * L
    BY <2>4, <2>5, <2>8
  <2> QED BY <2>7, <2>9
<1>3. CASE Gg18Finish
  <2> DEFINE S == Total(know.s, Signers)
  <2>1. stage = "gg18_round_8" /\ Checked(XCoord(know.R), S) = Refused
    BY <1>3, EveryoneRefused DEF Gg18Finish
  <2>2. Fl(S * know.R) = Fl(digest + XCoord(know.R) * key)
    BY <2>1, Gg18SharesSigned
  <2>3. know.R \in Field /\ S \in Field
    BY <2>1, IntsType DEF Gg18Known, Has, Ints
  <2> HIDE DEF S
  <2> QED BY <2>1, <2>2, <2>3, CheckedSucceeds DEF Gg18Excuse
<1> QED BY <1>0, <1>1, <1>2, <1>3 DEF Gg18SignNext

-----------------------------------------------------------------------------
(* DKLs23.                                                                   *)

\* What the OLEs of signers that are not faulty give is consistent.
Dkls23Complete ==
    stage = "dkls23_round_3" /\ bent = Straight => \A i \in Signers : Dkls23Accepts(i)

LEMMA Dkls23CompleteStep ==
    ASSUME Session, Dkls23Known, Dkls23SignNext, stage' # "ended"
    PROVE  Dkls23Complete'
<1>1. CASE Dkls23Multiply \/ Dkls23Check \/ Dkls23Finish
  BY <1>1 DEF Dkls23Multiply, Dkls23Check, Dkls23Finish, Step, Return, Dkls23Complete
<1>2. CASE Dkls23Correlate
  <2> DEFINE psi == [p \in Pairs |-> Dkls23Psi(p[1], p[2])]
             du == [p \in Pairs |-> Fl(know.chi[p] * (know.r[p[2]] + bent[p[2]]) + Neg(know.cu[<<p[2], p[1]>>]))]
             dv == [p \in Pairs |-> Fl(know.chi[p] * know.sk[p[2]] + Neg(know.cv[<<p[2], p[1]>>]))]
  <2>1. Step("dkls23_round_2", "dkls23_round_3", [psi |-> psi, du |-> du, dv |-> dv])
    BY <1>2 DEF Dkls23Correlate
  <2>2. ASSUME bent = Straight, NEW i \in Signers, NEW j \in Others(i)
        PROVE  /\ Fl(know.r[j] * know.chi[<<i, j>>] + Neg(know.cu[<<j, i>>])) = du[<<i, j>>]
               /\ Fl(know.sk[j] * know.chi[<<i, j>>] + Neg(know.cv[<<j, i>>])) = dv[<<i, j>>]
    <3>1. j \in Signers /\ <<i, j>> \in Pairs /\ stage = "dkls23_round_2"
      BY Zenon, <2>1, OtherPairs DEF Step
    <3>2. bent[j] = 0
      BY <2>2, <3>1 DEF Straight
    <3>3. know.r[j] \in Int /\ know.sk[j] \in Int /\ know.chi[<<i, j>>] \in Int
      BY <3>1 DEF Dkls23Known, Has, Ints, PairInts
    <3>4. /\ know.r[j] * know.chi[<<i, j>>] = know.chi[<<i, j>>] * (know.r[j] + 0)
          /\ know.sk[j] * know.chi[<<i, j>>] = know.chi[<<i, j>>] * know.sk[j]
      BY <3>3
    <3>5. /\ du[<<i, j>>] = Fl(know.chi[<<i, j>>] * (know.r[j] + bent[j]) + Neg(know.cu[<<j, i>>]))
          /\ dv[<<i, j>>] = Fl(know.chi[<<i, j>>] * know.sk[j] + Neg(know.cv[<<j, i>>]))
      BY <3>1
    <3> QED BY <3>2, <3>4, <3>5
  <2> HIDE DEF psi, du, dv
  <2>3. /\ stage = "dkls23_round_2" /\ stage' = "dkls23_round_3" /\ know'.du = du /\ know'.dv = dv
        /\ bent' = bent /\ Signers' = Signers
    BY <2>1, StepKeeps
  <2>4. /\ know'.r = know.r /\ know'.sk = know.sk /\ know'.chi = know.chi
        /\ know'.cu = know.cu /\ know'.cv = know.cv
    BY <2>1, <2>3, StepKeeps DEF Dkls23Known, Has
  <2>5. Straight' = Straight
    BY <2>3 DEF Straight
  <2>6. ASSUME bent = Straight, NEW i \in Signers, NEW j \in Others(i)
        PROVE  Dkls23Consistent(i, j)'
    BY <2>2, <2>3, <2>4, <2>6 DEF Dkls23Consistent
  <2>7. ASSUME bent = Straight, NEW i \in Signers PROVE Dkls23Accepts(i)'
    <3>1. Others(i)' = Others(i)
      BY <2>3 DEF Others
    <3> QED BY <2>6, <2>7, <3>1 DEF Dkls23Accepts
  <2> QED BY <2>3, <2>5, <2>7 DEF Dkls23Complete
<1> QED BY <1>1, <1>2 DEF Dkls23SignNext

LEMMA Dkls23Refusals ==
    ASSUME Session, Dkls23Known, Dkls23Equations, Dkls23Complete, Dkls23SignNext, stage' = "ended",
           NEW i \in DOMAIN answer', answer'[i] = Refused
    PROVE  Dkls23Excuse
<1> SUFFICES ASSUME ~Dkls23Excuse PROVE FALSE
  OBVIOUS
<1>1. CASE Dkls23Multiply \/ Dkls23Correlate
  BY <1>1 DEF Dkls23Multiply, Dkls23Correlate, Step
<1>2. CASE Dkls23Check
  BY <1>2 DEF Dkls23Check, Step, Return, Dkls23Complete, Dkls23Excuse
<1>3. CASE Dkls23Finish
  <2> DEFINE phi == Total(know.phi, Signers)
             U == Dkls23USum
             v == [j \in Signers |-> Dkls23V(j)]
             w == [j \in Signers |-> Dkls23W(j)]
             V == Total(v, Signers)
             W == Total(w, Signers)
             r == XCoord(know.R)
  <2>1. /\ stage = "dkls23_round_4"
        /\ IF U = 0 THEN TRUE ELSE Checked(r, Fl(W * Inv(U))) = Refused
    BY <1>3, EveryoneRefused DEF Dkls23Finish, Dkls23WSum
  <2>2. know.phi \in Ints /\ know.R \in Field /\ know.R # 0 /\ phi # 0
    BY <2>1 DEF Dkls23Known, Has, Dkls23Excuse, Dkls23Equations
  <2>3. phi \in Field /\ phi \in Int /\ know.R \in Int /\ r \in Int /\ digest \in Int /\ key \in Int
    BY Zenon, <2>2, IntsType, Operands, XCoordType, ScalarsType DEF Ints
  <2>4. U = Fl(phi * know.R) /\ V = Fl(phi * key)
    BY <2>1, Dkls23PresignatureFits DEF Dkls23Fits
  <2>5. v \in Ints /\ \A j \in Signers : w[j] \in Int /\ w[j] \in Field /\ w[j] = Fl(digest * know.phi[j] + r * v[j])
    <3>1. ASSUME NEW j \in Signers
          PROVE  v[j] \in Int /\ w[j] \in Int /\ w[j] \in Field /\ w[j] = Fl(digest * know.phi[j] + r * v[j])
      <4>1. Dkls23V(j) \in Int
        BY <2>1, Dkls23Opened
      <4>2. know.phi[j] \in Int
        BY <2>2 DEF Ints
      <4>3. digest * know.phi[j] \in Int /\ r * Dkls23V(j) \in Int
        BY <2>3, <4>1, <4>2
      <4>4. w[j] = Fl(digest * know.phi[j] + r * Dkls23V(j))
        BY DEF Dkls23W
      <4> HIDE DEF r, w
      <4> QED BY <4>1, <4>3, <4>4, FlInt
    <3> QED BY <3>1 DEF Ints
  <2> HIDE DEF U, r, v, w
  <2>6. W = Fl(digest * phi + r * V)
    <3>1. /\ digest \in Int /\ r \in Int /\ know.phi \in Ints /\ v \in Ints
          /\ \A j \in Signers : w[j] \in Int /\ Fl(w[j]) = Fl(digest * know.phi[j] + r * v[j])
      BY <2>2, <2>3, <2>5, FlField
    <3> QED BY <3>1, CombinedShares
  <2>7. V \in Int /\ V \in Field /\ W \in Int /\ W \in Field
    <3>1. \A j \in Signers : v[j] \in Int /\ w[j] \in Int
      BY <2>5 DEF Ints
    <3> QED BY <3>1, IntsType
  <2> HIDE DEF phi, V, W
  <2>8. U \in Field /\ U # 0
    <3>1. phi * know.R \in Int
      BY <2>3
    <3>2. Fl(phi) # 0 /\ Fl(know.R) # 0
      BY <2>2, <2>3, FlField
    <3> QED BY Zenon, <2>3, <2>4, <3>1, <3>2, FlType, FlIntegral
  <2>9. MaskedSignature(know.R, phi, key, digest, r, U, V, W)
    <3>1. Fl(V) = Fl(phi * key) /\ Fl(W) = Fl(digest * phi + r * V)
      BY <2>4, <2>6, <2>7, FlField
    <3> QED BY <2>3, <2>4, <2>7, <2>8, <3>1 DEF MaskedSignature
  <2> DEFINE s == Fl(W * Inv(U))
  <2>10. Fl(s * know.R) = Fl(digest + XCoord(know.R) * key)
    BY <2>9, MaskDividedOut DEF r
  <2>11. s \in Field
    <3>1. Inv(U) \in Int
      BY <2>8, InvInt
    <3>2. W * Inv(U) \in Int
      BY <2>7, <3>1
    <3> QED BY <3>2, FlType
  <2>12. Checked(XCoord(know.R), s) = Refused
    BY <2>1, <2>8 DEF r
  <2> HIDE DEF s
  <2> QED BY <2>2, <2>10, <2>11, <2>12, CheckedSucceeds DEF Dkls23Excuse
<1> QED BY <1>1, <1>2, <1>3 DEF Dkls23SignNext

-----------------------------------------------------------------------------
(* GGN16.                                                                    *)

\* What is encrypted never exceeds the plaintext space.
Ggn16Complete ==
    /\ know.x \in Nat /\ know.x <= 2 * Q
    /\ stage # "ggn16_presign_1" =>
           /\ know.u = SumFunctionOnSet(know.rho, Signers) /\ know.u \in Nat /\ know.u <= Q * Q
           /\ know.v \in Nat /\ know.v <= Q * (Q * (2 * Q))
    /\ stage \in {"ggn16_presign_5", "ggn16_sign"} => know.R = Total(know.k, Signers)

LEMMA Ggn16CompleteBegin ==
    ASSUME NEW f \in Sharings, Ggn16SignBegin(f)
    PROVE  Ggn16Complete
<1>1. PICK rho \in [Signers -> Scalars \cup {0}], x \in {f[0], f[0] + Q} : know = [rho |-> rho, x |-> x]
  BY Zenon DEF Ggn16SignBegin
<1>2. f[0] \in Nat /\ f[0] <= Q /\ Q \in Nat
  BY BeginType, QAssumption DEF Field
<1>3. know.x \in {f[0], f[0] + Q}
  BY <1>1
<1> QED BY <1>2, <1>3 DEF Ggn16SignBegin, Ggn16Complete

LEMMA Ggn16CompleteStep ==
    ASSUME Session, Ggn16Known, Ggn16Equations, Ggn16Complete, Ggn16SignNext, stage' # "ended"
    PROVE  Ggn16Complete'
<1>0. know.rho \in [Signers -> Field] /\ know.x \in Nat /\ know.x <= 2 * Q
  BY DEF Ggn16Equations, Ggn16Complete
<1>1. CASE Ggn16Nonce
  <2> DEFINE u == SumFunctionOnSet(know.rho, Signers)
             rx == [i \in Signers |-> know.rho[i] * know.x]
             v == SumFunctionOnSet(rx, Signers)
  <2>1. PICK k \in [Signers -> Scalars], c \in [Signers -> {b \in Masks : b < Q * Q}] :
          Step("ggn16_presign_1", "ggn16_presign_3",
               [k |-> k, u |-> u, v |-> v,
                w |-> [i \in Signers |-> (k[i] * u + c[i] * Q) % WideN]])
    BY Zenon, <1>1 DEF Ggn16Nonce
  <2> DEFINE w == [i \in Signers |-> (k[i] * u + c[i] * Q) % WideN]
  <2>2. Step("ggn16_presign_1", "ggn16_presign_3", [k |-> k, u |-> u, v |-> v, w |-> w])
    BY <2>1
  <2>3. \A i \in Signers : know.rho[i] \in Nat /\ know.rho[i] <= Q
    BY <1>0, QAssumption DEF Field
  <2>4. u \in Nat /\ u <= Q * Q
    BY <2>3, SpaceType, SignersSumBound
  <2>5. v \in Nat /\ v <= Q * (Q * (2 * Q))
    <3> DEFINE c2 == Q * (2 * Q)
    <3>1. \A i \in Signers : rx[i] = know.rho[i] * know.x
      OBVIOUS
    <3> HIDE DEF rx
    <3>2. c2 \in Nat
      BY SpaceType
    <3>3. ASSUME NEW i \in Signers PROVE rx[i] \in Nat /\ rx[i] <= c2
      <4>1. know.rho[i] \in Nat /\ know.rho[i] <= Q /\ Q \in Nat /\ 2 * Q \in Nat
        BY <2>3, SpaceType
      <4>2. know.rho[i] * know.x \in Nat /\ know.rho[i] * know.x <= Q * (2 * Q)
        BY <1>0, <4>1, ProductBound
      <4> QED BY <3>1, <4>2
    <3> HIDE DEF c2
    <3>4. v \in Nat /\ v <= Q * c2
      BY <3>2, <3>3, SignersSumBound
    <3> QED BY <3>4 DEF c2
  <2> HIDE DEF u, v, w, rx
  <2>7. /\ stage = "ggn16_presign_1" /\ stage' = "ggn16_presign_3" /\ Signers' = Signers
        /\ know'.u = u /\ know'.v = v
    BY <2>2, StepKeeps
  <2>8. know'.rho = know.rho /\ know'.x = know.x
    BY <2>2, StepKeeps DEF Ggn16Known, Has
  <2> QED BY <1>0, <2>4, <2>5, <2>7, <2>8 DEF Ggn16Complete, u
<1>2. CASE Ggn16Combine
  <2> DEFINE R == Total(know.k, Signers)
             sum == SumFunctionOnSet(know.w, Signers) % WideN
  <2>1. Step("ggn16_presign_3", "ggn16_presign_5", [R |-> R, sum |-> sum])
    BY <1>2 DEF Ggn16Combine
  <2>2. stage = "ggn16_presign_3"
    BY <2>1 DEF Step
  <2> HIDE DEF sum
  <2>7. stage' = "ggn16_presign_5" /\ Signers' = Signers /\ know'.R = R
    BY <2>1, StepKeeps
  <2>8. /\ know'.rho = know.rho /\ know'.x = know.x /\ know'.u = know.u /\ know'.v = know.v
        /\ know'.k = know.k
    BY <2>1, <2>2, StepKeeps DEF Ggn16Known, Has
  <2> QED BY <2>2, <2>7, <2>8 DEF Ggn16Complete
<1>3. CASE Ggn16Presign
  <2>1. Step("ggn16_presign_5", "ggn16_sign", [psi |-> Inv(Ggn16Eta)])
    BY <1>3 DEF Ggn16Presign, Return
  <2>2. stage = "ggn16_presign_5" /\ stage' = "ggn16_sign" /\ Signers' = Signers
    BY <2>1, StepKeeps
  <2>3. /\ know'.rho = know.rho /\ know'.x = know.x /\ know'.u = know.u /\ know'.v = know.v
        /\ know'.k = know.k /\ know'.R = know.R
    BY <2>1, <2>2, StepKeeps DEF Ggn16Known, Has
  <2> QED BY <2>2, <2>3 DEF Ggn16Complete
<1>4. CASE Ggn16Finish
  BY <1>4 DEF Ggn16Finish, Return
<1> QED BY <1>1, <1>2, <1>3, <1>4 DEF Ggn16SignNext

LEMMA Ggn16Refusals ==
    ASSUME Session, Ggn16Known, Ggn16Equations, Ggn16Complete, Ggn16SignNext, stage' = "ended",
           NEW i \in DOMAIN answer', answer'[i] = Refused
    PROVE  Ggn16Excuse
<1> SUFFICES ASSUME ~Ggn16Excuse PROVE FALSE
  OBVIOUS
<1>1. CASE Ggn16Nonce \/ Ggn16Combine
  BY <1>1 DEF Ggn16Nonce, Ggn16Combine, Step
<1>2. CASE Ggn16Presign
  <2>1. stage = "ggn16_presign_5" /\ Ggn16Eta = 0
    BY <1>2 DEF Ggn16Presign, Step, Return
  <2>2. know.sum \in Int /\ know.R \in Field /\ know.u \in Int
    BY <2>1 DEF Ggn16Known, Has
  <2>3. SumFunctionOnSet(bent, Signers) = 0
    <3>1. \A j \in Signers : bent[j] = 0
      BY DEF Straight, Ggn16Excuse
    <3> QED BY Zenon, <3>1, SignersType, SumZero
  <2>4. Fl(know.sum) = 0
    <3>1. know.sum + 0 = know.sum
      BY <2>2
    <3> QED BY <2>1, <2>3, <3>1 DEF Ggn16Eta
  <2>5. Fl(know.u * know.R) = 0
    BY <2>1, <2>4 DEF Ggn16Equations
  <2>6. know.R # 0 /\ Fl(know.u) # 0
    BY <2>1 DEF Ggn16Complete, Ggn16Excuse, Total
  <2> QED BY Zenon, <2>2, <2>5, <2>6, FlIntegral, FlField, ScalarsType
<1>3. CASE Ggn16Finish
  <2> DEFINE r == XCoord(know.R)
             psi == know.psi
             u == know.u
             v == know.v
             k == psi * u
             g == psi * v
             m == digest
             y == m * u + r * v
             x == psi * y
             s == Fl(x)
  <2>1. stage = "ggn16_sign" /\ Checked(r, Fl(Ggn16Sigma)) = Refused
    BY <1>3, EveryoneRefused DEF Ggn16Finish
  <2>2. bent = Straight /\ ~NoSignature(r)
    BY DEF Ggn16Excuse
  <2>3. Fl(psi * know.R * u) = 1 /\ Fl(v) = Fl(u * key)
    BY <2>1, <2>2, Ggn16PresignatureFits DEF Ggn16Fits
  <2>4. /\ know.R \in Field /\ know.R \in Int /\ r \in Field /\ r \in Int /\ m \in Field /\ m \in Int
        /\ key \in Int
    BY Zenon, <2>1, XCoordType, Operands, ScalarsType DEF Ggn16Known, Has, Session
  <2>5. u \in Nat /\ u <= Q * Q /\ v \in Nat /\ v <= Q * (Q * (2 * Q))
    BY <2>1 DEF Ggn16Complete
  <2>6. psi \in Field /\ psi \in Int
    <3>1. Ggn16Eta # 0 /\ psi = Inv(Ggn16Eta)
      BY <2>1 DEF Ggn16Equations
    <3>2. Ggn16Eta \in Field
      <4>1. know.sum \in Int /\ SumFunctionOnSet(bent, Signers) \in Int
        BY <2>1, IntsType, Operands DEF Ggn16Known, Has
      <4>2. know.sum + SumFunctionOnSet(bent, Signers) \in Int
        BY <4>1
      <4> QED BY <4>2, FlType DEF Ggn16Eta
    <3> QED BY <3>1, <3>2, InvInt
  <2> HIDE DEF r, psi, u, v, m
  <2>7. Ggn16Sigma = x
    <3>1. (psi * (m * u + r * v)) % WideN = psi * (m * u + r * v)
      BY <2>4, <2>5, <2>6, Ggn16Fit
    <3> QED BY <3>1 DEF Ggn16Sigma, psi, m, u, v, r
  <2>8. /\ k \in Int /\ g \in Int /\ m * u \in Int /\ r * v \in Int /\ u \in Int /\ v \in Int
    BY <2>4, <2>5, <2>6
  <2>9. psi * know.R * u = know.R * k
    BY <2>4, <2>6, <2>8
  <2>10. x = m * k + r * g /\ x \in Int
    <3>1. psi * (m * u) = m * (psi * u) /\ psi * (r * v) = r * (psi * v)
      BY <2>4, <2>6, <2>8
    <3>2. psi * (m * u + r * v) = psi * (m * u) + psi * (r * v)
      BY <2>6, <2>8
    <3>3. psi * (m * u) \in Int /\ psi * (r * v) \in Int
      BY <2>6, <2>8
    <3> QED BY <3>1, <3>2, <3>3
  <2>11. Fl(g) = Fl(k * key)
    <3> DEFINE ux == u * key
    <3>1. ux \in Int /\ Fl(v) = Fl(ux)
      BY <2>3, <2>4, <2>8
    <3>2. k * key = psi * ux
      BY <2>4, <2>6, <2>8
    <3> HIDE DEF ux, k
    <3>3. Fl(psi * v) = Fl(psi * ux)
      BY Zenon, <2>6, <2>8, <3>1, FlScale
    <3> QED BY <3>2, <3>3
  <2>12. s \in Field
    BY <2>10, FlType
  <2> HIDE DEF k, g, y, x
  <2>13. Fl(know.R * k) = 1
    BY <2>3, <2>9
  <2>14. SharedSignature(know.R, k, m, key, g, r, s)
    BY <2>4, <2>8, <2>10, <2>11, <2>13 DEF SharedSignature
  <2>15. Fl(s * know.R) = Fl(m + r * key)
    BY <2>14, NonceInverted
  <2>16. Checked(XCoord(know.R), s) = Refused
    BY <2>1, <2>7 DEF r
  <2> HIDE DEF s
  <2> QED BY <2>2, <2>4, <2>12, <2>15, <2>16, CheckedSucceeds DEF r, m
<1> QED BY <1>1, <1>2, <1>3 DEF Ggn16SignNext

-----------------------------------------------------------------------------
(* CGGMP20.                                                                  *)

\* What signers that are not faulty hold once they have multiplied.
Cggmp20Complete ==
    /\ know.k \in [Signers -> Scalars] /\ know.gamma \in [Signers -> Scalars]
    /\ know.x \in [Signers -> Field] /\ Total(know.x, Signers) = key
    /\ stage = "cggmp20_presign_2" => /\ know.beta \in [Pairs -> Scalars]
                                      /\ know.hat \in [Pairs -> Scalars]
    /\ stage \in {"cggmp20_presign_3", "cggmp20_sign"} => know.Gamma = Total(know.gamma, Signers)
    /\ stage = "cggmp20_presign_3" =>
           /\ Total(know.chi, Signers) = Fl(Cggmp20Nonce * key)
           /\ bent = Straight => Total(know.delta, Signers) = Fl(Cggmp20Nonce * Total(know.gamma, Signers))

LEMMA Cggmp20CompleteBegin ==
    ASSUME NEW f \in Sharings, key = f[0], Cggmp20SignBegin(f)
    PROVE  Cggmp20Complete
<1> DEFINE x == [i \in Signers |-> Fl(Eval(f, i) * Lagrange(Signers, i))]
<1>1. PICK k \in [Signers -> Scalars], gamma \in [Signers -> Scalars],
           fault \in IF bent = Straight THEN {"none"} ELSE {"delta", "sigma"} :
         know = [k |-> k, gamma |-> gamma, fault |-> fault, x |-> x]
  BY DEF Cggmp20SignBegin
<1>2. x \in [Signers -> Field] /\ Total(x, Signers) = key
  BY WeightedShares
<1> HIDE DEF x
<1> QED BY <1>1, <1>2 DEF Cggmp20SignBegin, Cggmp20Complete

LEMMA Cggmp20CompleteStep ==
    ASSUME Session, Cggmp20Known, Cggmp20Complete, Cggmp20SignNext, stage' # "ended"
    PROVE  Cggmp20Complete'
<1>0. /\ know.k \in [Signers -> Scalars] /\ know.gamma \in [Signers -> Scalars]
      /\ know.x \in [Signers -> Field] /\ Total(know.x, Signers) = key
  BY DEF Cggmp20Complete
<1>1. CASE Cggmp20Multiply
  <2>1. PICK beta \in [Pairs -> Scalars], hat \in [Pairs -> Scalars] :
          Step("cggmp20_presign_1", "cggmp20_presign_2", [beta |-> beta, hat |-> hat])
    BY <1>1 DEF Cggmp20Multiply
  <2>2. /\ stage' = "cggmp20_presign_2" /\ know'.beta = beta /\ know'.hat = hat
        /\ Signers' = Signers /\ Pairs' = Pairs /\ key' = key
    BY <2>1, StepKeeps
  <2>3. know'.k = know.k /\ know'.gamma = know.gamma /\ know'.x = know.x
    BY <2>1, StepKeeps DEF Cggmp20Known, Has
  <2> QED BY <1>0, <2>1, <2>2, <2>3 DEF Cggmp20Complete
<1>2. CASE Cggmp20Open
  <2> DEFINE plain == [i \in Signers |-> Cggmp20ShareOf(i, know.gamma, know.beta)]
             delta == [i \in Signers |-> Fl(Cggmp20ShareOf(i, know.gamma, know.beta) + Cggmp20Offset("delta")[i])]
             chi == [i \in Signers |-> Cggmp20ShareOf(i, know.x, know.hat)]
             Gamma == Total(know.gamma, Signers)
             Delta == [i \in Signers |-> Fl(Gamma * know.k[i])]
             S == [i \in Signers |-> Fl(Gamma * chi[i])]
  <2>1. Step("cggmp20_presign_2", "cggmp20_presign_3",
             [delta |-> delta, chi |-> chi, Gamma |-> Gamma, Delta |-> Delta, S |-> S])
    BY <1>2 DEF Cggmp20Open
  <2>2. stage = "cggmp20_presign_2"
    BY <2>1 DEF Step
  <2>3. know.beta \in [Pairs -> Scalars] /\ know.hat \in [Pairs -> Scalars]
    BY <2>2 DEF Cggmp20Complete
  <2>4. Total(chi, Signers) = Fl(Cggmp20Nonce * key)
    BY <1>0, <2>3, Cggmp20Products DEF Cggmp20Nonce
  <2>5. know.gamma \in [Signers -> Field]
    BY Zenon, <1>0, ScalarsType
  <2>6. Total(plain, Signers) = Fl(Cggmp20Nonce * Total(know.gamma, Signers))
    BY <1>0, <2>3, <2>5, Cggmp20Products DEF Cggmp20Nonce
  <2>7. ASSUME bent = Straight PROVE delta = plain
    <3> SUFFICES ASSUME NEW i \in Signers PROVE delta[i] = plain[i]
      OBVIOUS
    <3>1. Cggmp20Offset("delta")[i] = 0
      BY <2>7 DEF Cggmp20Offset, Straight
    <3> DEFINE c == Cggmp20ShareOf(i, know.gamma, know.beta)
    <3>2. know.k \in Ints /\ know.gamma \in Ints /\ know.beta \in PairInts
      BY <1>0, <2>3, DrawnInts
    <3>3. c \in Field /\ c \in Int
      BY <3>2, Cggmp20ShareType
    <3>4. delta[i] = Fl(c + 0) /\ plain[i] = c
      BY <3>1
    <3> HIDE DEF c, delta, plain
    <3> QED BY <3>3, <3>4, FlField
  <2> HIDE DEF delta, chi, Gamma, Delta, S, plain
  <2>8. /\ stage' = "cggmp20_presign_3" /\ know'.chi = chi /\ know'.delta = delta /\ know'.Gamma = Gamma
        /\ Signers' = Signers /\ key' = key /\ bent' = bent
    BY <2>1, StepKeeps
  <2>9. know'.k = know.k /\ know'.gamma = know.gamma /\ know'.x = know.x
    BY <2>1, <2>2, StepKeeps DEF Cggmp20Known, Has
  <2>10. Straight' = Straight /\ Cggmp20Nonce' = Cggmp20Nonce
    BY <2>8, <2>9 DEF Straight, Cggmp20Nonce
  <2> QED BY <1>0, <2>4, <2>6, <2>7, <2>8, <2>9, <2>10 DEF Cggmp20Complete, Gamma
<1>3. CASE Cggmp20Presign
  <2> DEFINE inv == Inv(Total(know.delta, Signers))
             Scaled(f) == [i \in Signers |-> Fl(f[i] * inv)]
  <2>1. Step("cggmp20_presign_3", "cggmp20_sign",
             [kTilde |-> Scaled(know.k), chiTilde |-> Scaled(know.chi),
              tildeDelta |-> Scaled(know.Delta), tildeS |-> Scaled(know.S)])
    BY <1>3 DEF Cggmp20Presign, Return
  <2> HIDE DEF Scaled
  <2>2. stage = "cggmp20_presign_3" /\ stage' = "cggmp20_sign" /\ Signers' = Signers /\ key' = key
    BY <2>1, StepKeeps
  <2>3. know'.k = know.k /\ know'.gamma = know.gamma /\ know'.x = know.x /\ know'.Gamma = know.Gamma
    BY <2>1, <2>2, StepKeeps DEF Cggmp20Known, Has
  <2> QED BY <1>0, <2>2, <2>3 DEF Cggmp20Complete
<1>4. CASE Cggmp20Combine
  BY <1>4 DEF Cggmp20Combine, Return
<1> QED BY <1>1, <1>2, <1>3, <1>4 DEF Cggmp20SignNext

LEMMA Cggmp20Refusals ==
    ASSUME Session, Cggmp20Known, Cggmp20Equations, Cggmp20Complete, Cggmp20SignNext, stage' = "ended",
           NEW i \in DOMAIN answer', answer'[i] = Refused
    PROVE  Cggmp20Excuse
<1> SUFFICES ASSUME ~Cggmp20Excuse PROVE FALSE
  OBVIOUS
<1>1. CASE Cggmp20Multiply \/ Cggmp20Open
  BY <1>1 DEF Cggmp20Multiply, Cggmp20Open, Step
<1>2. CASE Cggmp20Presign
  <2> DEFINE K == Cggmp20Nonce
             G == Total(know.gamma, Signers)
             D == Total(know.delta, Signers)
             C == Total(know.chi, Signers)
  <2>1. stage = "cggmp20_presign_3" /\ (~Cggmp20Consistent \/ D = 0)
    BY <1>2 DEF Cggmp20Presign, Step, Return
  <2>2. /\ know.k \in Ints /\ know.gamma \in Ints /\ know.delta \in Ints /\ know.chi \in Ints
        /\ know.Delta \in Ints /\ know.S \in Ints /\ know.Gamma = G
    BY <2>1 DEF Cggmp20Known, Has, Cggmp20Complete
  <2>3. /\ K \in Field /\ G \in Field /\ D \in Field /\ C \in Field /\ key \in Int
        /\ K \in Int /\ G \in Int /\ D \in Int /\ C \in Int
    BY <2>2, IntsType, Operands DEF Ints, Cggmp20Nonce
  <2>4. D = Fl(K * G) /\ C = Fl(K * key) /\ K # 0 /\ G # 0
    BY <2>1 DEF Cggmp20Complete, Cggmp20Excuse
  <2>5. Total(know.Delta, Signers) = Fl(G * K)
    <3>1. \A j \in Signers : know.k[j] \in Int /\ know.Delta[j] \in Int /\ know.Delta[j] = Fl(G * know.k[j])
      BY <2>1, <2>2 DEF Cggmp20Equations, Ints
    <3> HIDE DEF G
    <3>2. \A j \in Signers : Fl(know.Delta[j]) = Fl(G * know.k[j])
      <4> SUFFICES ASSUME NEW j \in Signers PROVE Fl(know.Delta[j]) = Fl(G * know.k[j])
        OBVIOUS
      <4>1. G * know.k[j] \in Int
        BY <2>3, <3>1
      <4> QED BY <3>1, <4>1, FlType, FlField
    <3>3. Total(know.Delta, Signers) = Fl(G * Total(know.k, Signers))
      BY Zenon, <2>3, <3>1, <3>2, SignersType, TotalScale
    <3> QED BY <3>3 DEF Cggmp20Nonce
  <2>6. Total(know.S, Signers) = Fl(G * C)
    <3>1. \A j \in Signers : know.chi[j] \in Int /\ know.S[j] \in Int /\ know.S[j] = Fl(G * know.chi[j])
      BY <2>1, <2>2 DEF Cggmp20Equations, Ints
    <3> HIDE DEF G
    <3>2. \A j \in Signers : Fl(know.S[j]) = Fl(G * know.chi[j])
      <4> SUFFICES ASSUME NEW j \in Signers PROVE Fl(know.S[j]) = Fl(G * know.chi[j])
        OBVIOUS
      <4>1. G * know.chi[j] \in Int
        BY <2>3, <3>1
      <4> QED BY <3>1, <4>1, FlType, FlField
    <3> QED BY Zenon, <2>3, <3>1, <3>2, SignersType, TotalScale
  <2> HIDE DEF K, G, D, C
  <2>7. K * G = G * K
    BY <2>3
  <2>8. Fl(D * key) = Fl(G * C)
    <3> DEFINE kg == K * G
               kx == K * key
    <3>1. kg \in Int /\ kx \in Int /\ kg * key = G * kx
      BY <2>3
    <3> HIDE DEF kg, kx
    <3>2. Fl(Fl(kg) * key) = Fl(kg * key)
      BY <2>3, <3>1, FlMul
    <3>3. Fl(G * Fl(kx)) = Fl(G * kx)
      BY <2>3, <3>1, FlMulRight
    <3> QED BY <2>4, <3>1, <3>2, <3>3 DEF kg, kx
  <2>9. Cggmp20Consistent
    BY <2>4, <2>5, <2>6, <2>7, <2>8 DEF Cggmp20Consistent, D
  <2>10. D # 0
    <3>1. Fl(K) # 0 /\ Fl(G) # 0
      BY <2>3, <2>4, FlField
    <3> QED BY <2>3, <2>4, <3>1, FlIntegral
  <2> QED BY <2>1, <2>9, <2>10
<1>3. CASE Cggmp20Combine
  <2> DEFINE w == [j \in Signers |-> Cggmp20PartialSign(j)]
             s == Total(w, Signers)
             R == know.Gamma
             r == XCoord(R)
             k == Total(know.kTilde, Signers)
             g == Total(know.chiTilde, Signers)
  <2>1. stage = "cggmp20_sign"
    BY <1>3 DEF Cggmp20Combine, Return
  <2>2. \A j \in Signers : Cggmp20Offset("sigma")[j] = 0
    BY DEF Cggmp20Offset, Cggmp20Excuse, Straight
  <2>3. \A j \in Signers : Cggmp20Committed(j)
    BY <2>1, <2>2, Cggmp20NotInVain DEF Cggmp20Revealed
  <2>4. Checked(r, s) = Refused
    BY <1>3, <2>3, EveryoneRefused DEF Cggmp20Combine
  <2>5. /\ know.kTilde \in Ints /\ know.chiTilde \in Ints /\ R \in Field /\ R = Total(know.gamma, Signers)
    BY <2>1 DEF Cggmp20Known, Has, Cggmp20Complete
  <2>6. /\ k \in Int /\ g \in Int /\ R \in Int /\ r \in Int /\ digest \in Int /\ key \in Int
        /\ k \in Field /\ g \in Field
    BY Zenon, <2>5, IntsType, XCoordType, Operands, ScalarsType DEF Ints
  <2>7. Fl(R * k) = 1 /\ g = Fl(k * key)
    <3>1. Fl(k * R) = 1 /\ g = Fl(k * key)
      BY <2>1, Cggmp20PresignatureFits DEF Cggmp20Fits
    <3>2. k * R = R * k
      BY <2>6
    <3> QED BY <3>1, <3>2
  <2> HIDE DEF r
  <2>8. ASSUME NEW j \in Signers
        PROVE  w[j] \in Int /\ Fl(w[j]) = Fl(digest * know.kTilde[j] + r * know.chiTilde[j])
    <3>1. know.kTilde[j] \in Int /\ know.chiTilde[j] \in Int
      BY <2>5 DEF Ints
    <3> DEFINE y == digest * know.kTilde[j] + r * know.chiTilde[j]
    <3>2. y \in Int /\ y = know.kTilde[j] * digest + r * know.chiTilde[j] + 0
      BY <2>6, <3>1
    <3>3. w[j] = Fl(y)
      BY <2>2, <3>2 DEF Cggmp20PartialSign, r
    <3> HIDE DEF y, w
    <3> QED BY <3>2, <3>3, FlInt, FlField DEF y
  <2> HIDE DEF w, R
  <2>9. s = Fl(digest * k + r * g)
    <3>1. /\ digest \in Int /\ r \in Int /\ know.kTilde \in Ints /\ know.chiTilde \in Ints
          /\ \A j \in Signers : w[j] \in Int /\ Fl(w[j]) = Fl(digest * know.kTilde[j] + r * know.chiTilde[j])
      BY <2>5, <2>6, <2>8
    <3> QED BY <3>1, CombinedShares
  <2>10. s \in Field
    BY <2>8, IntsType
  <2>11. Fl(g) = Fl(k * key)
    BY <2>6, <2>7, FlField
  <2> HIDE DEF s, k, g
  <2>12. SharedSignature(R, k, digest, key, g, r, s)
    BY <2>6, <2>7, <2>9, <2>11 DEF SharedSignature
  <2>13. Fl(s * R) = Fl(digest + r * key)
    BY <2>12, NonceInverted
  <2>14. ~NoSignature(XCoord(R))
    BY <2>5 DEF Cggmp20Excuse
  <2> QED BY <2>4, <2>5, <2>10, <2>13, <2>14, CheckedSucceeds DEF r
<1> QED BY <1>1, <1>2, <1>3 DEF Cggmp20SignNext

-----------------------------------------------------------------------------
(* LIN17.                                                                   *)

\* The parties' shares multiply to the key, and P1 decrypts what P2 was to send.
Lin17Complete ==
    /\ Fl(know.x1 * know.x2) = key
    /\ stage = "lin17_round_4" /\ bent = Straight =>
           Fl(Lin17SPrime * know.k2) = Fl(digest + XCoord(Lin17Nonce) * key)

LEMMA Lin17CompleteBegin ==
    ASSUME NEW f \in Sharings, key = f[0], Lin17SignBegin(f)
    PROVE  Lin17Complete
<1>1. PICK x1 \in Scalars, k1 \in Scalars, k2 \in Scalars :
        know = [x1 |-> x1, x2 |-> Fl(f[0] * Inv(x1)), k1 |-> k1, k2 |-> k2]
  BY DEF Lin17SignBegin
<1> DEFINE v == Inv(x1)
           fv == key * v
           xv == x1 * v
           one == 1
<1>2. x1 \in Int /\ v \in Int /\ Fl(xv) = 1 /\ key \in Field /\ key \in Int
  BY ScalarInt, InvType, FlField, BeginType
<1>3. know.x1 = x1 /\ know.x2 = Fl(fv)
  BY <1>1
<1> HIDE DEF v
<1>4. fv \in Int /\ xv \in Int /\ x1 * fv = xv * key /\ one \in Int /\ one * key = key
  BY <1>2
<1>5. Fl(one) = 1
  <2>1. 1 \in Field
    BY QAssumption DEF Field
  <2> QED BY <2>1, FlField
<1> HIDE DEF fv, xv, one
<1>6. Fl(x1 * Fl(fv)) = Fl(x1 * fv)
  BY <1>2, <1>4, FlMulRight
<1>7. Fl(xv * key) = Fl(one * key)
  <2>1. xv \in Int /\ one \in Int /\ key \in Int /\ Fl(xv) = Fl(one)
    BY <1>2, <1>4, <1>5 DEF xv
  <2> QED BY Zenon, <2>1, FlScale
<1>8. Fl(know.x1 * know.x2) = key
  BY <1>2, <1>3, <1>4, <1>6, <1>7, FlField
<1> QED BY <1>8 DEF Lin17SignBegin, Lin17Complete

LEMMA Lin17CompleteStep ==
    ASSUME Session, Cardinality(Signers) >= 2, Lin17Known, Lin17Complete, Lin17SignNext, stage' # "ended"
    PROVE  Lin17Complete'
<1>1. CASE Lin17SendPartial
  <2>1. PICK rho \in {m \in Masks : m < Q * Q} :
          Step("lin17_round_1", "lin17_round_4", [c3 |-> Lin17PartialSignature(rho)])
    BY <1>1 DEF Lin17SendPartial
  <2> DEFINE c == Lin17PartialSignature(rho)
             v == Inv(know.k2)
             r == XCoord(Lin17Nonce)
             rx == Fl(r * know.x2)
             a == Fl(v * digest)
             b == Fl(v * rx)
  <2>2. /\ know.x1 \in Field /\ know.x1 \in Int /\ know.k1 \in Int /\ know.k2 \in Int /\ know.x2 \in Int
        /\ v \in Int /\ Fl(know.k2 * v) = 1
    BY ScalarInt, InvType, FlField DEF Lin17Known, Has
  <2>3. r \in Int /\ digest \in Int /\ key \in Int
    <3>1. know.k1 * know.k2 \in Int
      BY <2>2
    <3>2. Lin17Nonce \in Field
      BY <3>1, FlType DEF Lin17Nonce
    <3> QED BY Zenon, <3>2, XCoordType, Operands, ScalarsType
  <2> HIDE DEF v, r
  <2>4. /\ rx \in Int /\ a \in Field /\ a \in Int /\ b \in Field /\ b \in Int
        /\ Fl(rx) = Fl(r * know.x2) /\ Fl(a) = Fl(v * digest) /\ Fl(b) = Fl(v * rx)
    <3>1. r * know.x2 \in Int /\ v * digest \in Int
      BY <2>2, <2>3
    <3>2. rx \in Int /\ Fl(rx) = Fl(r * know.x2)
      BY <3>1, FlInt, FlField
    <3> HIDE DEF rx
    <3>3. v * rx \in Int
      BY <2>2, <3>2
    <3> QED BY <3>1, <3>2, <3>3, FlInt, FlField
  <2> HIDE DEF rx, a, b
  <2>5. ASSUME bent = Straight
        PROVE  c = rho * Q + a + b * know.x1
    <3>1. bent[P2] = 0
      BY <2>5, Two DEF Straight
    <3>2. c = rho * Q + a + bent[P2] + b * know.x1
      BY DEF a, b, rx, v, r, Lin17PartialSignature
    <3>3. rho * Q \in Int /\ b * know.x1 \in Int
      BY <2>2, <2>4, SpaceType, DrawnInts
    <3> QED BY <2>4, <3>1, <3>2, <3>3
  <2> HIDE DEF c
  <2>6. ASSUME bent = Straight
        PROVE  c \in Int /\ Signed(c, WideN) = c /\ c >= 0
    <3> DEFINE q2 == Q * Q
               q3 == Q * Q * Q
    <3>1. rho \in Nat /\ rho <= q2 /\ q2 \in Nat /\ q3 \in Nat /\ q3 >= 3 * q2 /\ q2 >= 3 * Q /\ WideN > 27 * q3
      <4>1. Masks \subseteq Nat
        BY SigningAssumption
      <4> QED BY <4>1, SpaceType
    <3>2. /\ know.x1 \in Nat /\ b \in Nat /\ a \in Nat /\ know.x1 <= Q /\ b <= Q /\ a <= Q /\ Q \in Nat
      BY <2>2, <2>4, QAssumption DEF Field
    <3>3. rho * Q \in Nat /\ rho * Q <= q2 * Q
      BY <3>1, <3>2, ProductBound
    <3>4. b * know.x1 \in Nat /\ b * know.x1 <= q2
      BY <3>2, ProductBound
    <3>5. q2 * Q = q3
      BY <3>2
    <3> HIDE DEF q2, q3
    <3>6. c \in Nat /\ 2 * c < WideN /\ WideN \in Nat /\ WideN > 0
      BY <2>5, <2>6, <3>1, <3>2, <3>3, <3>4, <3>5, SpaceType
    <3> QED BY <3>6, SignedType
  <2>7. ASSUME bent = Straight
        PROVE  Fl(c) = Fl(v * digest + (v * (r * know.x2)) * know.x1)
    <3> DEFINE bx == b * know.x1
               ry == r * know.x2
               vd == v * digest
               g == (v * ry) * know.x1
    <3>1. bx \in Int /\ vd \in Int /\ ry \in Int
      BY <2>2, <2>3, <2>4
    <3> HIDE DEF ry
    <3>2. v * ry \in Int /\ g \in Int /\ v * rx \in Int
      BY <2>2, <2>4, <3>1
    <3>3. Fl(b) = Fl(v * ry)
      BY <2>2, <2>4, <3>1, FlScale DEF ry
    <3> DEFINE vry == v * ry
               x1 == know.x1
    <3>4. Fl(bx) = Fl(g)
      <4>1. b \in Int /\ vry \in Int /\ x1 \in Int /\ Fl(b) = Fl(vry)
        BY <2>2, <2>4, <3>2, <3>3
      <4>2. bx = b * x1 /\ g = vry * x1
        OBVIOUS
      <4> HIDE DEF vry, x1, bx, g
      <4> QED BY Zenon, <4>1, <4>2, FlScale
    <3> HIDE DEF bx, g, vd
    <3>5. Fl(c) = Fl(a + bx)
      <4>1. c = a + bx + rho * Q /\ rho \in Int
        BY <2>2, <2>4, <2>5, <2>7, <3>1, DrawnInts, SpaceType DEF bx
      <4>2. a + bx \in Int /\ c \in Int
        BY <2>4, <2>6, <2>7, <3>1
      <4> QED BY <4>1, <4>2, FlUnique
    <3>6. Fl(a + bx) = Fl(vd + bx)
      BY Zenon, <2>4, <3>1, FlShift DEF vd
    <3>7. Fl(vd + bx) = Fl(vd + g)
      BY <3>1, <3>2, <3>4, FlShift
    <3> QED BY <3>5, <3>6, <3>7 DEF vd, g, ry
  <2>8. ASSUME bent = Straight
        PROVE  Fl(c * know.k2) = Fl(digest + r * key)
    <3>1. LinearPartial(v, know.k2, know.x1, know.x2, digest, r, c)
      BY <2>2, <2>3, <2>6, <2>7, <2>8 DEF LinearPartial
    <3>2. Fl(c * know.k2) = Fl(digest + r * (know.x1 * know.x2))
      BY <3>1, PartialOpened
    <3> DEFINE xx == know.x1 * know.x2
               rxx == r * xx
               rk == r * key
    <3>3. xx \in Int /\ Fl(xx) = Fl(key)
      BY <2>2, Operands, FlField DEF Lin17Complete, Session
    <3> HIDE DEF xx
    <3>4. Fl(rxx) = Fl(rk) /\ rxx \in Int /\ rk \in Int
      BY <2>3, <3>3, FlScale
    <3> HIDE DEF rxx, rk
    <3>5. Fl(digest + rxx) = Fl(digest + rk)
      BY <2>3, <3>4, FlShift
    <3> QED BY <3>2, <3>5 DEF rxx, rk, xx
  <2>9. /\ stage = "lin17_round_1" /\ stage' = "lin17_round_4" /\ know'.c3 = c /\ bent' = bent
        /\ key' = key /\ digest' = digest /\ Signers' = Signers
    BY <2>1, StepKeeps DEF c
  <2>10. know'.x1 = know.x1 /\ know'.x2 = know.x2 /\ know'.k1 = know.k1 /\ know'.k2 = know.k2
    BY <2>1, <2>9, StepKeeps DEF Lin17Known, Has
  <2>11. Straight' = Straight /\ Lin17Nonce' = Lin17Nonce
    BY <2>9, <2>10 DEF Straight, Lin17Nonce
  <2>12. ASSUME bent = Straight PROVE Lin17SPrime' = Fl(c)
    BY <2>6, <2>9, <2>12 DEF Lin17SPrime, Lin17Magnitude
  <2>13. ASSUME bent = Straight PROVE Fl(Fl(c) * know.k2) = Fl(c * know.k2)
    BY Zenon, <2>2, <2>6, <2>13, FlMul
  <2> QED BY <2>8, <2>9, <2>10, <2>11, <2>12, <2>13 DEF Lin17Complete, r
<1>2. CASE Lin17Finish
  BY <1>2 DEF Lin17Finish, Return
<1> QED BY <1>1, <1>2 DEF Lin17SignNext

LEMMA Lin17Refusals ==
    ASSUME Session, Lin17Known, Lin17Complete, Lin17SignNext, stage' = "ended",
           NEW i \in DOMAIN answer', answer'[i] = Refused
    PROVE  Lin17Excuse
<1> SUFFICES ASSUME ~Lin17Excuse PROVE FALSE
  OBVIOUS
<1>1. CASE Lin17SendPartial
  BY <1>1 DEF Lin17SendPartial, Step
<1>2. CASE Lin17Finish
  <2> DEFINE u == Lin17SPrime
             r == XCoord(Lin17Nonce)
             s == Fl(Inv(know.k1) * u)
  <2>1. stage = "lin17_round_4" /\ Checked(r, s) = Refused
    BY <1>2, EveryoneRefused DEF Lin17Finish
  <2>2. Fl(u * know.k2) = Fl(digest + r * key)
    BY <2>1 DEF Lin17Complete, Lin17Excuse
  <2>3. know.k1 \in Field /\ know.k1 \in Int /\ know.k1 # 0 /\ know.k2 \in Int /\ know.c3 \in Int
    BY <2>1, ScalarInt DEF Lin17Known, Has
  <2>4. Lin17Nonce \in Field /\ r \in Int /\ digest \in Int /\ key \in Int
    <3>1. know.k1 * know.k2 \in Int
      BY <2>3
    <3>2. Lin17Nonce \in Field
      BY <3>1, FlType DEF Lin17Nonce
    <3> QED BY Zenon, <3>2, XCoordType, Operands, ScalarsType
  <2>5. u \in Int
    <3>1. Signed(know.c3, WideN) \in Int
      BY <2>3, SignedInt
    <3>2. Lin17Magnitude(Signed(know.c3, WideN)) \in Int
      BY <3>1 DEF Lin17Magnitude
    <3> QED BY <3>2, FlInt DEF Lin17SPrime
  <2> HIDE DEF u, r
  <2>6. FactoredSignature(know.k1, know.k2, u, digest, key, r)
    BY <2>2, <2>3, <2>4, <2>5 DEF FactoredSignature
  <2>7. s \in Field /\ Fl(s * Lin17Nonce) = Fl(digest + r * key)
    BY <2>6, NonceFactored DEF Lin17Nonce
  <2> HIDE DEF s
  <2> QED BY <2>1, <2>4, <2>7, CheckedSucceeds DEF Lin17Excuse, r
<1> QED BY <1>1, <1>2 DEF Lin17SignNext

-----------------------------------------------------------------------------
(* XAL21.                                                                   *)

\* The check of the re-sharing holds between honest parties.
Xal21Complete == stage = "xal21_step_2" /\ bent = Straight => Xal21ReshareHolds

LEMMA Xal21CompleteStep ==
    ASSUME Session, Cardinality(Signers) >= 2, Xal21Known, Xal21Complete, Xal21SignNext, stage' # "ended"
    PROVE  Xal21Complete'
<1>1. CASE Xal21Reshare
  <2>1. PICK xp \in Scalars, r1 \in Scalars, mask \in {m \in Masks : m < Q * Q} :
          Step("xal21_step_1", "xal21_step_2",
               [xp |-> xp, r1 |-> r1, mask |-> mask,
                cc |-> Fl(MtaReceiverShare(mask) + xp * r1 + Neg(know.x1) + bent[P1])])
    BY <1>1 DEF Xal21Reshare
  <2> DEFINE cc == Fl(MtaReceiverShare(mask) + xp * r1 + Neg(know.x1) + bent[P1])
             plain == xp * know.k2 + mask
             kept == Neg(Fl(mask))
             xr == xp * r1
             xk == xp * know.k2
             n == Neg(know.x1)
             all == r1 + know.k2
             tb == Fl(Signed(plain, WideN))
  <2>2. /\ xp \in Nat /\ xp <= Q /\ r1 \in Int /\ know.k2 \in Nat /\ know.k2 <= Q /\ know.x1 \in Int
        /\ mask \in Nat /\ mask <= Q * Q /\ Q \in Nat /\ xp \in Int /\ know.k2 \in Int
    <3>1. xp \in Field /\ r1 \in Int /\ know.k2 \in Field /\ know.x1 \in Int
      BY ScalarInt DEF Xal21Known, Has
    <3>2. Masks \subseteq Nat
      BY SigningAssumption
    <3> QED BY <3>1, <3>2, QAssumption, SpaceType DEF Field
  <2>3. xk \in Nat /\ xk <= Q * Q
    BY <2>2, ProductBound
  <2>4. plain \in Nat /\ 2 * plain < WideN /\ WideN > 0 /\ WideN \in Nat
    <3> DEFINE q2 == Q * Q
               q3 == Q * Q * Q
    <3>1. /\ q2 \in Nat /\ q3 \in Nat /\ q3 >= 3 * q2 /\ WideN \in Nat /\ WideN > 27 * q3
          /\ xk \in Nat /\ xk <= q2 /\ mask \in Nat /\ mask <= q2 /\ plain = xk + mask
      BY <2>2, <2>3, SpaceType
    <3> HIDE DEF q2, q3, xk, plain
    <3> QED BY <3>1
  <2>5. Signed(plain, WideN) = plain
    BY <2>4, SignedType
  <2>6. xr \in Int /\ kept \in Int /\ n \in Int /\ Fl(kept) = Fl(-mask)
    <3>1. Fl(mask) \in Int /\ mask \in Int
      BY <2>2, FlInt
    <3>2. Fl(0 + Neg(Fl(mask))) = Fl(0 - Fl(mask))
      BY <3>1, FlNeg
    <3>3. kept \in Int /\ n \in Int
      BY <2>2, <3>1, FlInt
    <3>4. Fl(0 - Fl(mask)) = Fl(0 - mask)
      <4> DEFINE fm == Fl(mask)
                 zero == 0
      <4>1. fm \in Int /\ mask \in Int /\ zero \in Int /\ Fl(fm) = Fl(mask)
        BY <3>1, FlInt, FlField
      <4> HIDE DEF fm, zero
      <4>2. Fl(zero - fm) = Fl(zero - mask)
        BY <4>1, FlMinus
      <4> QED BY <4>2 DEF zero, fm
    <3>5. 0 + kept = kept /\ 0 - mask = -mask
      BY <2>2, <3>3
    <3>6. xr \in Int
      BY <2>2
    <3> QED BY <3>2, <3>3, <3>4, <3>5, <3>6
  <2>7. ASSUME bent = Straight
        PROVE  Fl(tb + cc) = Fl(all * xp + n)
    <3> DEFINE y == kept + xr + n
               z == xk + xr + n
    <3>1. bent[P1] = 0 /\ cc = Fl(kept + xr + n + bent[P1])
      BY <2>7, Two DEF Straight, MtaReceiverShare
    <3>2. cc = Fl(y) /\ tb = Fl(plain)
      BY <2>5, <2>6, <3>1
    <3>3. y \in Int /\ z \in Int /\ xk \in Int /\ mask \in Int
      BY <2>2, <2>3, <2>6
    <3>4. all * xp + n = z
      <4>1. all * xp = xk + xr /\ xk + xr \in Int
        BY <2>2
      <4> QED BY <2>6, <4>1
    <3> HIDE DEF kept
    <3>5. Fl(tb + cc) = Fl(plain + y)
      <4>1. plain \in Int /\ Fl(y) \in Int
        BY <2>4, <3>3, FlInt
      <4>2. Fl(Fl(plain) + Fl(y)) = Fl(plain + Fl(y))
        BY Zenon, <4>1, FlAdd
      <4> QED BY Zenon, <3>2, <3>3, <4>1, <4>2, FlAddRight
    <3>6. plain + y = kept + (mask + z) /\ (-mask) + (mask + z) = z
      BY <2>6, <3>3
    <3> DEFINE mz == mask + z
               mm == -mask
    <3>7. mz \in Int /\ mm \in Int /\ Fl(kept) = Fl(mm)
      BY <2>6, <3>3
    <3> HIDE DEF mz, mm, z, y, plain
    <3>8. Fl(kept + mz) = Fl(mm + mz)
      BY Zenon, <2>6, <3>7, FlShift
    <3> QED BY <3>4, <3>5, <3>6, <3>8 DEF mz, mm
  <2> HIDE DEF cc
  <2>8. /\ stage' = "xal21_step_2" /\ bent' = bent /\ know'.xp = xp /\ know'.mask = mask /\ know'.cc = cc
        /\ know'.r1 = r1 /\ Signers' = Signers
    BY <2>1, StepKeeps DEF cc
  <2>9. know'.x1 = know.x1 /\ know'.k2 = know.k2
    BY <2>1, StepKeeps DEF Xal21Known, Has
  <2>10. Straight' = Straight
    BY <2>8 DEF Straight
  <2>11. Xal21TB' = tb
    BY <2>8, <2>9 DEF Xal21TB, MtaSenderShare
  <2>12. ASSUME bent = Straight PROVE Xal21ReshareHolds'
    BY <2>7, <2>8, <2>9, <2>11, <2>12 DEF Xal21ReshareHolds
  <2> QED BY <2>8, <2>10, <2>12 DEF Xal21Complete
<1>2. CASE Xal21Decommit \/ Xal21VerifyR \/ Xal21Online
  BY <1>2 DEF Xal21Decommit, Xal21VerifyR, Xal21Online, Step, Return, Xal21Complete
<1> QED BY <1>1, <1>2 DEF Xal21SignNext

LEMMA Xal21Refusals ==
    ASSUME Session, Cardinality(Signers) >= 2, Xal21Known, Xal21Equations, Xal21Complete, Xal21SignNext,
           stage' = "ended", NEW i \in DOMAIN answer', answer'[i] = Refused
    PROVE  Xal21Excuse
<1> SUFFICES ASSUME ~Xal21Excuse PROVE FALSE
  OBVIOUS
<1>1. CASE Xal21Reshare \/ Xal21VerifyR
  BY <1>1 DEF Xal21Reshare, Xal21VerifyR, Step
<1>2. CASE Xal21Decommit
  BY <1>2 DEF Xal21Decommit, Step, Return, Xal21Complete, Xal21Excuse
<1>3. CASE Xal21Online
  <2> DEFINE w == know.r1 + know.k2
             d == Fl(know.k2 + know.r1)
             v == Inv(d)
             y == v * (digest + XCoord(know.R) * know.xp2)
             s2 == Xal21S2
             r == XCoord(know.R)
             u == s2 + r * know.xp
             s == Fl(Inv(know.k1) * u)
  <2>1. stage = "xal21_online" /\ know.r = r /\ bent = Straight /\ d # 0
    BY <1>3 DEF Xal21Online, Return, Xal21Equations, Xal21Excuse
  <2>2. Checked(r, s) = Refused
    BY <1>3, <2>1, EveryoneRefused DEF Xal21Online
  <2>3. /\ know.k1 \in Field /\ know.k1 \in Int /\ know.k1 # 0 /\ know.k2 \in Int /\ know.r1 \in Int
        /\ know.xp \in Int /\ know.xp2 \in Int /\ know.R \in Field
    BY <2>1, ScalarInt DEF Xal21Known, Has
  <2>4. r \in Int /\ digest \in Int /\ key \in Int /\ key \in Field
    BY Zenon, <2>3, XCoordType, Operands, ScalarsType DEF Session
  <2>5. w \in Int /\ d \in Field /\ d = Fl(w) /\ d \in Int
    <3>1. know.k2 + know.r1 = w /\ w \in Int
      BY <2>3
    <3> QED BY <3>1, FlInt
  <2>6. v \in Int /\ Fl(w * v) = 1
    <3>1. Fl(d) # 0 /\ Fl(d) = Fl(w)
      BY <2>1, <2>5, FlField
    <3> HIDE DEF d, w
    <3>2. v \in Int /\ Fl(d * v) = 1
      BY Zenon, <2>5, <3>1, InvType, ScalarsType
    <3> HIDE DEF v
    <3> QED BY <2>5, <3>1, <3>2, FlScale
  <2>7. s2 = Fl(y)
    <3>1. s2 = Fl(y + bent[P2]) /\ bent[P2] = 0
      BY <2>1, Two DEF Xal21S2, Straight
    <3>2. y \in Int
      <4> HIDE DEF v, r
      <4>1. r * know.xp2 \in Int
        BY <2>3, <2>4
      <4>2. v * (digest + r * know.xp2) \in Int
        BY <2>4, <2>6, <4>1
      <4> QED BY <4>2 DEF r
    <3> HIDE DEF y
    <3> QED BY <3>1, <3>2
  <2>8. s2 \in Int /\ Fl(s2) = Fl(v * (digest + r * know.xp2))
    <3> HIDE DEF v
    <3>1. r * know.xp2 \in Int
      BY <2>3, <2>4
    <3> HIDE DEF r
    <3>2. v * (digest + r * know.xp2) \in Int
      BY <2>4, <2>6, <3>1
    <3>3. s2 = Fl(v * (digest + r * know.xp2))
      BY <2>7 DEF r
    <3> QED BY <3>2, <3>3, FlInt, FlField
  <2>9. Fl(know.xp * w + know.xp2) = Fl(key) /\ know.R = Fl(know.k1 * w)
    BY <2>1, <2>4, FlField DEF Xal21Equations
  <2> HIDE DEF w, d, v, s2, r
  <2>10. ResharedSignature(w, v, s2, know.xp, know.xp2, digest, r, key)
    BY <2>3, <2>4, <2>5, <2>6, <2>8, <2>9 DEF ResharedSignature
  <2>11. Fl(u * w) = Fl(digest + r * key)
    BY <2>10, ResharedCombined
  <2>12. u \in Int
    <3>1. r * know.xp \in Int
      BY <2>3, <2>4
    <3> QED BY <2>8, <3>1
  <2> HIDE DEF u
  <2>13. FactoredSignature(know.k1, w, u, digest, key, r)
    BY <2>3, <2>4, <2>5, <2>11, <2>12 DEF FactoredSignature
  <2>14. s \in Field /\ Fl(s * know.R) = Fl(digest + r * key)
    BY <2>9, <2>13, NonceFactored
  <2> HIDE DEF s
  <2> QED BY <2>2, <2>3, <2>14, CheckedSucceeds DEF Xal21Excuse, r
<1> QED BY <1>1, <1>2, <1>3 DEF Xal21SignNext

-----------------------------------------------------------------------------
(* KGG24.                                                                   *)

\* The parties' shares add up to the key, what P2 holds encrypts that of P1, and
\* P1 decrypts what P2 was to send.
Kgg24Complete ==
    /\ stage = "kgg24_refresh_1" => Fl(know.x1 + know.x2) = key /\ know.x1 \in Field
    /\ stage = "kgg24_refresh_2" /\ bent = Straight =>
           /\ Fl(know.x1 + Fl(know.x2 + know.r)) = key
           /\ Fl(know.cKey) = know.x1
    /\ stage \in {"kgg24_refresh_2", "kgg24_round_1", "kgg24_round_3"} =>
           know.x1 \in Field /\ know.cKey \in Nat /\ know.cKey <= Q * Q * Q
    /\ stage \in {"kgg24_round_1", "kgg24_round_3"} =>
           /\ know.x2 \in Field /\ Fl(know.x1 + know.x2) = key
           /\ Fl(know.cKey) = know.x1
    /\ stage = "kgg24_round_4" /\ bent = Straight =>
           Fl((Signed(know.c3, WideN) % Q) * know.k2) = Fl(digest + XCoord(Kgg24Nonce) * key)

LEMMA Kgg24CompleteBegin ==
    ASSUME NEW f \in Sharings, key = f[0], Kgg24SignBegin(f)
    PROVE  Kgg24Complete
<1>1. PICK x1 \in Scalars : know = [x1 |-> x1, x2 |-> Fl(f[0] + Neg(x1))]
  BY DEF Kgg24SignBegin
<1> DEFINE n == Neg(x1)
           kn == key + n
<1>2. x1 \in Field /\ x1 \in Int /\ key \in Field /\ key \in Int /\ n \in Int
  BY ScalarInt, BeginType, FlInt
<1>3. know.x1 = x1 /\ know.x2 = Fl(kn) /\ kn \in Int
  BY <1>1, <1>2
<1>4. x1 + kn = (key + x1) + n
  BY <1>2
<1>5. Fl(x1 + Fl(kn)) = Fl(x1 + kn)
  <2> HIDE DEF kn
  <2> QED BY <1>2, <1>3, FlAddRight
<1>6. Fl((key + x1) + n) = Fl((key + x1) - x1)
  <2> DEFINE z == key + x1
  <2>1. z \in Int
    BY <1>2
  <2> HIDE DEF z
  <2>2. Fl(z + Neg(x1)) = Fl(z - x1)
    BY <1>2, <2>1, FlNeg
  <2> QED BY <2>2 DEF z
<1>7. (key + x1) - x1 = key
  BY <1>2
<1> QED BY <1>2, <1>3, <1>4, <1>5, <1>6, <1>7, FlField DEF Kgg24SignBegin, Kgg24Complete

LEMMA Kgg24CompleteStep ==
    ASSUME Session, Cardinality(Signers) >= 2, Kgg24Known, Kgg24Complete, Kgg24SignNext, stage' # "ended"
    PROVE  Kgg24Complete'
<1>0. digest \in Int /\ key \in Int /\ digest \in Field /\ key \in Field /\ bent[P1] \in Int /\ bent[P2] \in Int
  BY Operands, SigningAssumption DEF Session
<1>1. CASE Kgg24Refresh1
  <2>1. PICK r \in Scalars, t \in Kgg24Noise :
          Step("kgg24_refresh_1", "kgg24_refresh_2",
               [r |-> r, x1 |-> Fl(know.x1 + Neg(r) + bent[P1]),
                cKey |-> Fl(know.x1 + Neg(r) + bent[P1]) + t * Q])
    BY <1>1 DEF Kgg24Refresh1
  <2> DEFINE n == Neg(r)
             x1 == Fl(know.x1 + n + bent[P1])
             cKey == x1 + t * Q
             xr == know.x2 + r
  <2>2. Step("kgg24_refresh_1", "kgg24_refresh_2", [r |-> r, x1 |-> x1, cKey |-> cKey])
    BY <2>1
  <2>3. /\ stage = "kgg24_refresh_1" /\ know.x1 \in Int /\ know.x2 \in Int /\ Fl(know.x1 + know.x2) = key
        /\ r \in Int /\ n \in Int
    BY <2>1, ScalarInt, FlInt DEF Step, Kgg24Known, Kgg24Complete, Has
  <2>4. x1 \in Field /\ x1 \in Int
    <3>1. know.x1 + n + bent[P1] \in Int
      BY <1>0, <2>3
    <3> QED BY <3>1, FlInt
  <2>5. cKey \in Nat /\ cKey <= Q * Q * Q /\ Fl(cKey) = x1
    <3> DEFINE q2 == Q * Q
    <3>1. t \in Nat /\ t < q2 /\ q2 \in Nat /\ q2 * Q = Q * Q * Q /\ Q \in Nat /\ Q >= 3 /\ q2 >= 3 * Q
      BY SigningAssumption, SpaceType DEF Kgg24Noise
    <3>2. x1 \in Nat /\ x1 < Q
      BY <2>4, QAssumption DEF Field
    <3> HIDE DEF q2, x1
    <3>3. t + 1 \in Nat /\ t + 1 <= q2
      BY <3>1
    <3>4. (t + 1) * Q \in Nat /\ (t + 1) * Q <= q2 * Q
      BY <3>1, <3>3, ProductBound
    <3>5. (t + 1) * Q = t * Q + Q /\ t * Q \in Nat
      BY <3>1
    <3>6. Fl(cKey) = Fl(x1)
      BY <2>4, <3>1, <3>5, FlUnique
    <3> QED BY <2>4, <3>1, <3>2, <3>4, <3>5, <3>6, FlField
  <2>6. ASSUME bent = Straight PROVE Fl(x1 + Fl(xr)) = key
    <3> DEFINE y == know.x1 + n
               z == know.x1 + know.x2 + r
    <3>1. bent[P1] = 0
      BY <2>6, Two DEF Straight
    <3>2. x1 = Fl(y) /\ y \in Int /\ xr \in Int /\ z \in Int
      BY <2>3, <3>1
    <3>3. y + xr = z + n /\ z - r = know.x1 + know.x2
      BY <2>3
    <3> HIDE DEF y, xr, z
    <3>4. Fl(Fl(y) + Fl(xr)) = Fl(y + xr)
      <4>1. Fl(xr) \in Int
        BY <3>2, FlInt
      <4>2. Fl(Fl(y) + Fl(xr)) = Fl(y + Fl(xr))
        BY <3>2, <4>1, FlAdd
      <4> QED BY <3>2, <4>2, FlAddRight
    <3>5. Fl(z + n) = Fl(z - r)
      BY <2>3, <3>2, FlNeg
    <3> QED BY <2>3, <3>2, <3>3, <3>4, <3>5
  <2> HIDE DEF x1, cKey
  <2>7. /\ stage' = "kgg24_refresh_2" /\ know'.r = r /\ know'.x1 = x1 /\ know'.cKey = cKey
        /\ bent' = bent /\ key' = key /\ Signers' = Signers
    BY <2>2, StepKeeps
  <2>8. know'.x2 = know.x2
    BY <2>2, StepKeeps DEF Kgg24Known, Has
  <2>9. Straight' = Straight
    BY <2>7 DEF Straight
  <2> QED BY <2>4, <2>5, <2>6, <2>7, <2>8, <2>9 DEF Kgg24Complete
<1>2. CASE Kgg24Refresh2
  <2> DEFINE x2 == Fl(know.x2 + know.r)
  <2>1. /\ Kgg24Encrypts(know.cKey, know.x1) /\ Kgg24KeyKept(x2)
        /\ Step("kgg24_refresh_2", "kgg24_round_1", [x2 |-> x2])
    BY <1>2 DEF Kgg24Refresh2, Return
  <2>2. stage = "kgg24_refresh_2"
    BY <2>1 DEF Step
  <2>3. x2 \in Field
    <3>1. know.x2 + know.r \in Int
      BY <2>2 DEF Kgg24Known, Has
    <3> QED BY <3>1, FlType
  <2> HIDE DEF x2
  <2>4. stage' = "kgg24_round_1" /\ know'.x2 = x2 /\ key' = key
    BY <2>1, StepKeeps
  <2>5. know'.x1 = know.x1 /\ know'.cKey = know.cKey
    BY <2>1, <2>2, StepKeeps DEF Kgg24Known, Has
  <2> QED BY <2>1, <2>2, <2>3, <2>4, <2>5 DEF Kgg24Complete, Kgg24KeyKept, Kgg24Encrypts
<1>3. CASE Kgg24Nonces
  <2>1. PICK k1 \in Scalars, k2 \in Scalars : Step("kgg24_round_1", "kgg24_round_3", [k1 |-> k1, k2 |-> k2])
    BY <1>3 DEF Kgg24Nonces
  <2>2. stage = "kgg24_round_1" /\ stage' = "kgg24_round_3" /\ key' = key
    BY <2>1, StepKeeps
  <2>3. know'.x1 = know.x1 /\ know'.cKey = know.cKey /\ know'.x2 = know.x2
    BY <2>1, <2>2, StepKeeps DEF Kgg24Known, Has
  <2> QED BY <2>2, <2>3 DEF Kgg24Complete
<1>4. CASE Kgg24SendPartial
  <2>1. PICK rhoBar \in Scalars, rho \in {m \in Masks : m < Kgg24RhoBound} :
          Step("kgg24_round_3", "kgg24_round_4", [c3 |-> Kgg24PartialSignature(rhoBar, rho)])
    BY <1>4 DEF Kgg24SendPartial
  <2> DEFINE c == Kgg24PartialSignature(rhoBar, rho)
             k == Inv(know.k2)
             v == k + rhoBar * Q
             r == XCoord(Kgg24Nonce)
             x1 == know.x1
             x2 == know.x2
             cKey == know.cKey
             p == rho * Q + v * digest + (v * r) * x2 + (r * v) * cKey
             y == digest + r * (x2 + cKey)
  <2>2. stage = "kgg24_round_3"
    BY <2>1 DEF Step
  <2>3. /\ x1 \in Field /\ x1 \in Int /\ x2 \in Field /\ x2 \in Int /\ Fl(x1 + x2) = key
        /\ cKey \in Nat /\ cKey <= Q * Q * Q /\ Fl(cKey) = x1
    BY Zenon, <2>2, ScalarsType DEF Kgg24Complete
  <2>4. /\ know.k1 \in Int /\ know.k2 \in Int /\ k \in Field /\ k \in Int /\ Fl(know.k2 * k) = 1
        /\ rhoBar \in Field /\ rhoBar \in Int
    BY <2>2, ScalarInt, InvType, FlField DEF Kgg24Known, Has
  <2>5. r \in Field /\ r \in Int
    <3>1. know.k1 * know.k2 \in Int
      BY <2>4
    <3>2. Kgg24Nonce \in Field
      BY <3>1, FlType DEF Kgg24Nonce
    <3> QED BY Zenon, <3>2, XCoordType, ScalarsType
  <2>6. v \in Nat /\ v <= Q * Q /\ Fl(know.k2 * v) = 1 /\ v \in Int
    <3>1. k \in Nat /\ k < Q /\ rhoBar \in Nat /\ rhoBar + 1 <= Q /\ Q \in Nat
      BY <2>4, QAssumption DEF Field
    <3>2. (rhoBar + 1) * Q \in Nat /\ (rhoBar + 1) * Q <= Q * Q
      BY <3>1, ProductBound
    <3>3. (rhoBar + 1) * Q = rhoBar * Q + Q /\ rhoBar * Q \in Nat
      BY <3>1
    <3>4. Q * Q \in Nat
      BY <3>1
    <3> HIDE DEF k
    <3>5. v \in Nat /\ v <= Q * Q
      BY <3>1, <3>2, <3>3, <3>4
    <3>6. Fl(v) = Fl(k)
      BY <2>4, <3>3, <3>5, FlUnique
    <3> DEFINE k2 == know.k2
    <3> HIDE DEF v, k2
    <3>7. v \in Int /\ k \in Int /\ k2 \in Int /\ Fl(v) = Fl(k)
      BY <2>4, <3>5, <3>6 DEF k2
    <3>8. Fl(k2 * v) = Fl(k2 * k)
      BY <3>7, FlScale
    <3> QED BY <2>4, <3>5, <3>7, <3>8 DEF k2
  <2>7. rho \in Nat /\ rho <= Q * Q * Q
    BY SigningAssumption, SpaceType DEF Kgg24RhoBound
  <2>8. p \in Nat /\ Signed(p, WideN) = p
    <3>1. /\ digest \in Nat /\ digest <= Q /\ r \in Nat /\ r <= Q /\ x2 \in Nat /\ x2 <= Q
      BY <1>0, <2>3, <2>5, QAssumption DEF Field
    <3> DEFINE m == digest
    <3> HIDE DEF v, r, x2, cKey, m
    <3>2. /\ rho \in Nat /\ rho <= Q * Q * Q /\ v \in Nat /\ v <= Q * Q /\ m \in Nat /\ m <= Q
          /\ r \in Nat /\ r <= Q /\ x2 \in Nat /\ x2 <= Q /\ cKey \in Nat /\ cKey <= Q * Q * Q
      BY <2>3, <2>6, <2>7, <3>1 DEF m
    <3> DEFINE pp == rho * Q + v * m + (v * r) * x2 + (r * v) * cKey
    <3>3. pp \in Nat /\ Signed(pp, WideN) = pp
      BY <3>2, Kgg24Fit
    <3> QED BY <3>3 DEF m
  <2>9. ASSUME bent = Straight PROVE c = p
    <3>1. bent[P2] = 0
      BY <2>9, Two DEF Straight
    <3>2. c = p + bent[P2]
      BY DEF Kgg24PartialSignature
    <3> HIDE DEF p, c
    <3> QED BY <2>8, <3>1, <3>2
  <2>10. y \in Int /\ p = rho * Q + v * y
    <3> HIDE DEF v, r, x2, cKey
    <3>1. r * x2 \in Int /\ r * cKey \in Int /\ r * (x2 + cKey) = r * x2 + r * cKey
      BY <2>3, <2>5
    <3>2. (v * r) * x2 = v * (r * x2) /\ (r * v) * cKey = v * (r * cKey)
      BY <2>3, <2>5, <2>6
    <3> DEFINE a == r * x2
               b == r * cKey
    <3>3. a \in Int /\ b \in Int /\ y = digest + a + b /\ p = rho * Q + v * digest + v * a + v * b
      BY <1>0, <3>1, <3>2
    <3> HIDE DEF a, b, y, p
    <3>4. v * (digest + a + b) = v * digest + v * a + v * b
      BY <1>0, <2>6, <3>3
    <3>5. rho * Q \in Int /\ v * digest \in Int /\ v * a \in Int /\ v * b \in Int
      BY <1>0, <2>6, <2>7, <3>3, SpaceType
    <3> QED BY <1>0, <3>3, <3>4, <3>5
  <2>11. Fl(y) = Fl(digest + r * key)
    <3> DEFINE g == x2 + cKey
               rg == r * g
               rk == r * key
    <3>1. Fl(g) = key /\ g \in Int
      <4>1. Fl(x2 + Fl(cKey)) = Fl(x2 + cKey)
        <5>1. x2 \in Int /\ cKey \in Int
          BY <2>3
        <5> HIDE DEF x2, cKey
        <5> QED BY <5>1, FlAddRight
      <4>2. x2 + x1 = x1 + x2
        BY <2>3
      <4> QED BY <2>3, <4>1, <4>2
    <3>2. Fl(g) = Fl(key)
      BY <1>0, <3>1, FlField
    <3> HIDE DEF g, r
    <3> DEFINE pk == key
    <3>3. Fl(rg) = Fl(rk) /\ rg \in Int /\ rk \in Int
      <4>1. g \in Int /\ pk \in Int /\ r \in Int /\ Fl(g) = Fl(pk) /\ rk = r * pk
        BY Zenon, <1>0, <2>5, <3>1, <3>2
      <4> HIDE DEF pk
      <4>2. Fl(r * g) = Fl(r * pk)
        BY <4>1, FlScale
      <4> QED BY <4>1, <4>2
    <3> HIDE DEF rg, rk
    <3>4. Fl(digest + rg) = Fl(digest + rk)
      BY Zenon, <1>0, <3>3, FlShift
    <3> QED BY <3>4 DEF rg, rk, g
  <2> HIDE DEF p, v, y
  <2>12. Fl(p * know.k2) = Fl(y)
    <3> DEFINE vy == v * y
    <3>1. vy \in Int /\ p = vy + rho * Q /\ p \in Int /\ rho \in Int
      <4>1. rho * Q \in Int /\ v * y \in Int
        BY <2>6, <2>7, <2>10, SpaceType
      <4> QED BY <2>7, <2>8, <2>10, <4>1
    <3>2. Fl(p) = Fl(vy)
      <4> HIDE DEF vy
      <4> QED BY <3>1, FlUnique
    <3> DEFINE k2 == know.k2
    <3>3. k2 \in Int /\ v \in Int /\ y \in Int /\ p \in Int /\ Fl(k2 * v) = 1 /\ Fl(p) = Fl(v * y)
      BY <2>4, <2>6, <2>10, <3>1, <3>2
    <3> HIDE DEF k2
    <3>4. Fl(p * k2) = Fl(y)
      BY <3>3, InverseUndone
    <3> QED BY <3>4 DEF k2
  <2>13. Fl(Fl(p) * know.k2) = Fl(p * know.k2)
    <3> DEFINE k2 == know.k2
    <3>1. k2 \in Int /\ p \in Int
      BY <2>4, <2>8
    <3> HIDE DEF k2
    <3>2. Fl(Fl(p) * k2) = Fl(p * k2)
      BY <3>1, FlMul
    <3> QED BY <3>2 DEF k2
  <2> HIDE DEF c
  <2>14. /\ stage' = "kgg24_round_4" /\ know'.c3 = c /\ bent' = bent
         /\ key' = key /\ digest' = digest /\ Signers' = Signers
    BY <2>1, StepKeeps DEF c
  <2>15. know'.k1 = know.k1 /\ know'.k2 = know.k2
    BY <2>1, <2>2, StepKeeps DEF Kgg24Known, Has
  <2>16. Straight' = Straight /\ Kgg24Nonce' = Kgg24Nonce
    BY <2>14, <2>15 DEF Straight, Kgg24Nonce
  <2>17. ASSUME bent = Straight PROVE Signed(know.c3, WideN)' % Q = Fl(p)
    BY <2>8, <2>9, <2>14, <2>17 DEF Fl
  <2> QED BY <2>11, <2>12, <2>13, <2>14, <2>15, <2>16, <2>17 DEF Kgg24Complete, r
<1>5. CASE Kgg24Finish
  BY <1>5 DEF Kgg24Finish, Return
<1> QED BY <1>1, <1>2, <1>3, <1>4, <1>5 DEF Kgg24SignNext

LEMMA Kgg24Refusals ==
    ASSUME Session, Kgg24Known, Kgg24Complete, Kgg24SignNext, stage' = "ended",
           NEW i \in DOMAIN answer', answer'[i] = Refused
    PROVE  Kgg24Excuse
<1> SUFFICES ASSUME ~Kgg24Excuse PROVE FALSE
  OBVIOUS
<1>1. CASE Kgg24Refresh1 \/ Kgg24Nonces \/ Kgg24SendPartial
  BY <1>1 DEF Kgg24Refresh1, Kgg24Nonces, Kgg24SendPartial, Step
<1>2. CASE Kgg24Refresh2
  BY <1>2 DEF Kgg24Refresh2, Step, Return, Kgg24Complete, Kgg24Excuse, Kgg24Encrypts, Kgg24KeyKept
<1>3. CASE Kgg24Finish
  <2> DEFINE u == Signed(know.c3, WideN) % Q
             r == XCoord(Kgg24Nonce)
             s == Fl(Inv(know.k1) * u)
  <2>1. stage = "kgg24_round_4" /\ Checked(r, s) = Refused
    BY <1>3, EveryoneRefused DEF Kgg24Finish
  <2>2. Fl(u * know.k2) = Fl(digest + r * key)
    BY <2>1 DEF Kgg24Complete, Kgg24Excuse
  <2>3. know.k1 \in Field /\ know.k1 \in Int /\ know.k1 # 0 /\ know.k2 \in Int /\ know.c3 \in Int
    BY <2>1, ScalarInt DEF Kgg24Known, Has
  <2>4. Kgg24Nonce \in Field /\ r \in Int /\ digest \in Int /\ key \in Int
    <3>1. know.k1 * know.k2 \in Int
      BY <2>3
    <3>2. Kgg24Nonce \in Field
      BY <3>1, FlType DEF Kgg24Nonce
    <3> QED BY Zenon, <3>2, XCoordType, Operands, ScalarsType
  <2>5. u \in Int
    <3>1. Signed(know.c3, WideN) \in Int
      BY <2>3, SignedInt
    <3> QED BY <3>1, FlInt DEF Fl
  <2> HIDE DEF u, r
  <2>6. FactoredSignature(know.k1, know.k2, u, digest, key, r)
    BY <2>2, <2>3, <2>4, <2>5 DEF FactoredSignature
  <2>7. s \in Field /\ Fl(s * Kgg24Nonce) = Fl(digest + r * key)
    BY <2>6, NonceFactored DEF Kgg24Nonce
  <2>8. Checked(XCoord(Kgg24Nonce), s) = Refused
    BY <2>1 DEF r
  <2> HIDE DEF s
  <2> QED BY <2>4, <2>7, <2>8, CheckedSucceeds DEF Kgg24Excuse, r
<1> QED BY <1>1, <1>2, <1>3 DEF Kgg24SignNext

-----------------------------------------------------------------------------
(* ABC24.                                                                   *)

\* The parties' shares add up to the key, Y is what it has to be, and the server
\* decrypts what the client was to send.
Abc24Complete ==
    /\ know.x1 \in Field /\ Fl(know.x1 + know.x2) = key
    /\ bent = Straight => /\ stage = "abc24_round_1" => Fl(know.k2 * know.x1) = know.Y
                          /\ stage = "abc24_round_2" =>
                                 /\ Fl(know.k1 * know.k2) = know.R
                                 /\ Fl(Signed(know.sct, WideN) * know.k1)
                                      = Fl(digest + XCoord(Abc24Nonce) * key)

LEMMA Abc24CompleteBegin ==
    ASSUME NEW f \in Sharings, key = f[0], Session, Cardinality(Signers) >= 2, Abc24SignBegin(f)
    PROVE  Abc24Complete
<1>1. PICK x2 \in Scalars, k2 \in Scalars :
        know = [x1 |-> Fl(f[0] + Neg(x2)), x2 |-> x2, k2 |-> k2,
                Y |-> Fl(k2 * Fl(f[0] + Neg(x2)) + bent[Abc24Server])]
  BY DEF Abc24SignBegin
<1> DEFINE n == Neg(x2)
           kn == key + n
           x1 == Fl(kn)
<1>2. x2 \in Field /\ x2 \in Int /\ key \in Field /\ key \in Int /\ n \in Int /\ k2 \in Int
  BY ScalarInt, BeginType, FlInt
<1>3. know.x1 = x1 /\ know.x2 = x2 /\ kn \in Int /\ know.k2 = k2 /\ know.Y = Fl(k2 * x1 + bent[P1])
  BY <1>1, <1>2 DEF Abc24Server
<1>4. kn + x2 = (key + x2) + n /\ (key + x2) - x2 = key
  BY <1>2
<1> HIDE DEF kn
<1>5. x1 \in Field /\ x1 \in Int /\ Fl(x1 + x2) = Fl(kn + x2)
  BY <1>2, <1>3, FlInt, FlAdd
<1>6. Fl((key + x2) + n) = Fl((key + x2) - x2)
  <2> DEFINE z == key + x2
  <2>1. z \in Int
    BY <1>2
  <2> HIDE DEF z
  <2>2. Fl(z + Neg(x2)) = Fl(z - x2)
    BY <1>2, <2>1, FlNeg
  <2> QED BY <2>2 DEF z
<1>7. ASSUME bent = Straight PROVE Fl(k2 * x1) = know.Y
  <2>1. bent[P1] = 0
    BY <1>7, Two DEF Straight
  <2> HIDE DEF x1
  <2>2. k2 * x1 \in Int
    BY <1>2, <1>5
  <2> QED BY <1>3, <2>1, <2>2
<1> QED BY <1>2, <1>3, <1>4, <1>5, <1>6, <1>7, FlField DEF Abc24SignBegin, Abc24Complete

LEMMA Abc24CompleteStep ==
    ASSUME Session, Cardinality(Signers) >= 2, Abc24Known, Abc24Complete, Abc24SignNext, stage' # "ended"
    PROVE  Abc24Complete'
<1>0. /\ digest \in Int /\ key \in Int /\ key \in Field
      /\ know.x1 \in Field /\ know.x1 \in Int /\ know.x2 \in Int /\ know.x2 \in Field /\ know.k2 \in Int
      /\ Fl(know.x1 + know.x2) = key
  BY Zenon, Operands, ScalarInt, ScalarsType DEF Session, Abc24Known, Abc24Complete, Has
<1>1. CASE Abc24ClientRound2
  <2>1. PICK k1 \in Scalars, mu \in Scalars, u \in Scalars, v \in Scalars, off \in {"R", "ciphertext"} :
          LET r == XCoord(Fl(k1 * (know.k2 + mu)))
              bend(what) == IF off = what THEN bent[Abc24Client] ELSE 0
          IN Step("abc24_round_1", "abc24_round_2",
                  [k1 |-> k1, mu |-> mu,
                   R |-> Fl(k1 * know.k2 + bend("R")),
                   sct |-> Fl(Inv(k1) * (digest + r * know.x1)) + u * Q
                           + (Fl(Inv(k1) * r) + v * Q) * know.x2 + bend("ciphertext")])
    BY Zenon, <1>1 DEF Abc24ClientRound2, Return
  <2> DEFINE w == know.k2 + mu
             r == XCoord(Fl(k1 * w))
             o == IF off = "R" THEN bent[Abc24Client] ELSE 0
             oc == IF off = "ciphertext" THEN bent[Abc24Client] ELSE 0
             R == Fl(k1 * know.k2 + o)
             i1 == Inv(k1)
             y == i1 * (digest + r * know.x1)
             z == i1 * r
             a == Fl(y) + u * Q
             b == Fl(z) + v * Q
             c == a + b * know.x2 + oc
  <2>2. Step("abc24_round_1", "abc24_round_2", [k1 |-> k1, mu |-> mu, R |-> R, sct |-> c])
    BY <2>1
  <2>3. /\ k1 \in Int /\ mu \in Int /\ u \in Field /\ u \in Int /\ v \in Field /\ v \in Int
        /\ i1 \in Int /\ Fl(k1 * i1) = 1 /\ w \in Int
    BY <1>0, ScalarInt, InvType, FlField
  <2>4. r \in Int
    <3> HIDE DEF w
    <3>1. k1 * w \in Int
      BY <2>3
    <3> QED BY Zenon, <3>1, FlType, XCoordType, ScalarsType
  <2>5. y \in Int /\ z \in Int
    <3> HIDE DEF i1, r
    <3>1. r * know.x1 \in Int
      BY <1>0, <2>4
    <3>2. digest + r * know.x1 \in Int
      BY <1>0, <3>1
    <3> DEFINE e == digest + r * know.x1
    <3> HIDE DEF e
    <3>3. i1 * e \in Int
      BY <2>3, <3>2 DEF e
    <3> QED BY <2>3, <2>4, <3>3 DEF e
  <2> HIDE DEF y, z
  <2>6. /\ a \in Nat /\ a <= Q * Q /\ Fl(a) = Fl(y)
        /\ b \in Nat /\ b <= Q * Q /\ Fl(b) = Fl(z)
    <3>1. ASSUME NEW e \in Field, NEW t \in Field
          PROVE  e + t * Q \in Nat /\ e + t * Q <= Q * Q /\ Fl(e + t * Q) = e
      <4>1. e \in Nat /\ e < Q /\ t \in Nat /\ t + 1 <= Q /\ Q \in Nat /\ t \in Int /\ e \in Int
        BY <3>1, QAssumption DEF Field
      <4>2. (t + 1) * Q \in Nat /\ (t + 1) * Q <= Q * Q
        BY <4>1, ProductBound
      <4>3. (t + 1) * Q = t * Q + Q /\ t * Q \in Nat /\ Q * Q \in Nat
        BY <4>1
      <4> DEFINE g == e + t * Q
      <4>4. g \in Nat /\ g = e + t * Q
        BY <4>1, <4>3
      <4> HIDE DEF g
      <4>5. Fl(g) = Fl(e)
        BY <4>1, <4>4, FlUnique
      <4> QED BY <4>1, <4>2, <4>3, <4>4, <4>5, FlField
    <3>2. Fl(y) \in Field /\ Fl(z) \in Field
      BY <2>5, FlType
    <3> QED BY Zenon, <2>3, <3>1, <3>2
  <2> HIDE DEF a, b
  <2>7. a + b * know.x2 \in Nat /\ 2 * (a + b * know.x2) < WideN
    <3> DEFINE q2 == Q * Q
               q3 == Q * Q * Q
    <3>1. q2 \in Nat /\ q3 \in Nat /\ q2 * Q = q3 /\ q3 >= 3 * q2 /\ WideN > 27 * q3 /\ WideN \in Nat
      BY SpaceType
    <3>2. know.x2 \in Nat /\ know.x2 <= Q /\ Q \in Nat
      BY <1>0, QAssumption DEF Field
    <3> DEFINE bx == b * know.x2
    <3> HIDE DEF q2, q3
    <3>3. bx \in Nat /\ bx <= q2 * Q
      BY <2>6, <3>1, <3>2, ProductBound DEF q2
    <3> HIDE DEF bx
    <3>4. a \in Nat /\ a <= q2
      BY <2>6 DEF q2
    <3>5. a + bx \in Nat /\ 2 * (a + bx) < WideN
      BY <3>1, <3>3, <3>4
    <3> QED BY <3>5 DEF bx
  <2>8. ASSUME bent = Straight PROVE o = 0 /\ oc = 0
    BY <2>8, Two DEF Straight, Abc24Client
  <2>9. ASSUME bent = Straight PROVE Fl(k1 * know.k2) = R
    <3>1. k1 * know.k2 \in Int
      BY <1>0, <2>3
    <3>2. o = 0
      BY <2>8, <2>9
    <3> HIDE DEF o
    <3> QED BY <3>1, <3>2
  <2>10. ASSUME bent = Straight
         PROVE  Fl(Signed(c, WideN) * k1) = Fl(digest + r * key)
    <3> DEFINE p == a + b * know.x2
               g == know.x1 + know.x2
               rg == r * g
               rk == r * key
               t == digest + rg
    <3>1. oc = 0
      BY <2>8, <2>10
    <3> HIDE DEF oc
    <3>2. c = p /\ p \in Int
      BY <2>7, <3>1
    <3>3. Signed(c, WideN) = p
      BY <2>7, <3>2, SignedType, SpaceType
    <3>4. HiddenPartial(i1, digest, r, know.x1, know.x2, a, b, p)
      BY <1>0, <2>3, <2>4, <2>6 DEF HiddenPartial, y, z
    <3>5. Fl(p) = Fl(i1 * (digest + r * (know.x1 + know.x2)))
      BY <3>4, HiddenPartialIs
    <3>6. g \in Int /\ Fl(g) = Fl(key)
      BY <1>0, FlField
    <3>7. Fl(p) = Fl(i1 * t)
      BY <3>5
    <3> HIDE DEF p, g, r, i1
    <3>8. rg \in Int /\ rk \in Int /\ Fl(rg) = Fl(rk)
      <4> DEFINE pk == key
      <4>1. g \in Int /\ pk \in Int /\ r \in Int /\ Fl(g) = Fl(pk) /\ rk = r * pk
        BY <1>0, <2>4, <3>6
      <4> HIDE DEF pk
      <4>2. Fl(r * g) = Fl(r * pk)
        BY <4>1, FlScale
      <4> QED BY <4>1, <4>2
    <3> HIDE DEF rg, rk
    <3>9. Fl(digest + rg) = Fl(digest + rk) /\ t \in Int
      BY <1>0, <3>8, FlShift
    <3> HIDE DEF t
    <3>10. Fl(p * k1) = Fl(t)
      <4>1. k1 \in Int /\ i1 \in Int /\ t \in Int /\ p \in Int /\ Fl(k1 * i1) = 1 /\ Fl(p) = Fl(i1 * t)
        BY <2>3, <3>2, <3>7, <3>9
      <4> QED BY <4>1, InverseUndone
    <3> QED BY <3>3, <3>9, <3>10 DEF t, rk
  <2> HIDE DEF c, R
  <2>11. /\ stage = "abc24_round_1" /\ stage' = "abc24_round_2" /\ know'.k1 = k1 /\ know'.mu = mu
         /\ know'.R = R /\ know'.sct = c /\ bent' = bent
         /\ key' = key /\ digest' = digest /\ Signers' = Signers
    BY <2>2, StepKeeps
  <2>12. know'.x1 = know.x1 /\ know'.x2 = know.x2 /\ know'.k2 = know.k2
    BY <2>2, <2>11, StepKeeps DEF Abc24Known, Has
  <2>13. Straight' = Straight /\ Abc24Nonce' = Fl(k1 * w)
    BY <2>11, <2>12 DEF Straight, Abc24Nonce
  <2> QED BY <1>0, <2>9, <2>10, <2>11, <2>12, <2>13 DEF Abc24Complete
<1>2. CASE Abc24Finish
  BY <1>2 DEF Abc24Finish, Return
<1> QED BY <1>1, <1>2 DEF Abc24SignNext

LEMMA Abc24Refusals ==
    ASSUME Session, Abc24Known, Abc24Complete, Abc24SignNext, stage' = "ended",
           NEW i \in DOMAIN answer', answer'[i] = Refused
    PROVE  Abc24Excuse
<1> SUFFICES ASSUME ~Abc24Excuse PROVE FALSE
  OBVIOUS
<1>1. CASE Abc24ClientRound2
  BY <1>1 DEF Abc24ClientRound2, Step, Return, Abc24Complete, Abc24Excuse
<1>2. CASE Abc24Finish
  <2> DEFINE u == Signed(know.sct, WideN)
             w == know.k2 + know.mu
             d == Fl(w)
             r == XCoord(Abc24Nonce)
             s == Fl(u * Inv(d))
  <2>1. stage = "abc24_round_2" /\ d # 0
    BY <1>2 DEF Abc24Finish, Return, Abc24Excuse
  <2>2. /\ know.k1 \in Field /\ know.k1 \in Int /\ know.k1 # 0 /\ know.k2 \in Int /\ know.mu \in Int
        /\ know.sct \in Int /\ w \in Int /\ d \in Field /\ d \in Int
    BY <2>1, ScalarInt, FlInt DEF Abc24Known, Has
  <2>3. Abc24SameNonce /\ Fl(u * know.k1) = Fl(digest + r * key)
    BY <2>1, <2>2 DEF Abc24Complete, Abc24Excuse, Abc24SameNonce
  <2>4. Checked(r, s) = Refused
    BY <1>2, <2>1, <2>3, EveryoneRefused DEF Abc24Finish
  <2>5. Abc24Nonce = Fl(know.k1 * w) /\ Abc24Nonce = Fl(d * know.k1)
    <3>1. know.k1 * w \in Int /\ know.k1 * w = w * know.k1
      BY <2>2
    <3> DEFINE k1 == know.k1
    <3> HIDE DEF w, d, k1
    <3>2. k1 \in Int /\ w \in Int /\ d = Fl(w)
      BY <2>2 DEF k1, d
    <3>3. Fl(Fl(w) * k1) = Fl(w * k1)
      BY <3>2, FlMul
    <3> QED BY <3>1, <3>2, <3>3 DEF k1, Abc24Nonce, w
  <2>6. Abc24Nonce \in Field /\ r \in Int /\ digest \in Int /\ key \in Int /\ u \in Int
    <3>1. know.k1 * w \in Int
      BY <2>2
    <3>2. Abc24Nonce \in Field
      BY <2>5, <3>1, FlType
    <3> QED BY Zenon, <2>2, <3>2, XCoordType, Operands, ScalarsType, SignedInt
  <2> HIDE DEF u, r, d
  <2>7. FactoredSignature(d, know.k1, u, digest, key, r)
    BY <2>1, <2>2, <2>3, <2>6 DEF FactoredSignature
  <2>8. s = Fl(Inv(d) * u)
    <3>1. Inv(d) \in Int
      BY <2>1, <2>2, InvInt
    <3>2. Inv(d) * u = u * Inv(d)
      BY <2>6, <3>1
    <3> QED BY <3>2
  <2>9. s \in Field /\ Fl(s * Abc24Nonce) = Fl(digest + r * key)
    BY <2>5, <2>7, <2>8, NonceFactored
  <2>10. Checked(XCoord(Abc24Nonce), s) = Refused
    BY <2>4 DEF r
  <2> HIDE DEF s
  <2> QED BY <2>6, <2>9, <2>10, CheckedSucceeds DEF Abc24Excuse, r
<1> QED BY <1>1, <1>2 DEF Abc24SignNext

-----------------------------------------------------------------------------
(* LN18.                                                                     *)

\* What the masks that are left have hidden, and what may have wrapped.
Ln18Complete ==
    /\ stage \in {"ln18_offline", "ln18_round_3"} => "alpha" \notin DOMAIN know
    /\ stage \in {"ln18_offline", "ln18_presigned"} => "masks" \notin DOMAIN know
    /\ stage \in {"ln18_round_3", "ln18_round_4", "ln18_round_7", "ln18_round_8"} =>
           Has("masks", [Pairs -> Ln18MaskRange])
    /\ stage = "ln18_round_3" =>
           (bent = Straight /\ ~Ln18Wraps(know.k, know.rho, know.masks) =>
               Total(know.tau, Signers) = Fl(Total(know.k, Signers) * Total(know.rho, Signers)))
    /\ stage = "ln18_round_4" /\ bent = Straight /\ ~know.wrapped =>
           Total(know.tau, Signers) = Fl(Total(know.k, Signers) * Total(know.rho, Signers))
    /\ stage \in {"ln18_round_4", "ln18_round_7", "ln18_round_8"} => "wrapped" \in DOMAIN know
    /\ stage \in {"ln18_round_4", "ln18_round_7"} =>
           (bent = Straight /\ ~Ln18Wraps(know.rho, know.alpha, know.masks) =>
               Total(know.beta, Signers) = Fl(Total(know.rho, Signers) * Total(know.alpha, Signers)))

LEMMA Ln18CompleteBegin ==
    ASSUME NEW f \in Sharings, Ln18SignBegin(f)
    PROVE  Ln18Complete
  BY DEF Ln18SignBegin, Ln18Complete

LEMMA Ln18AlphaType ==
    ASSUME Session, Ln18Known, "R" \in DOMAIN know, know.R = Total(know.k, Signers)
    PROVE  /\ [i \in Signers |-> Ln18Alpha(i)] \in [Signers -> Field]
           /\ know.R \in Field /\ know.k \in [Signers -> Field] /\ know.rho \in [Signers -> Field]
<1>1. /\ know.k \in [Signers -> Field] /\ know.rho \in [Signers -> Field] /\ know.x \in Ints
      /\ know.k \in Ints
  BY Zenon, DrawnInts, ScalarsType DEF Ln18Known, Has
<1>2. know.R \in Field /\ XCoord(know.R) \in Int
  BY Zenon, <1>1, IntsType, XCoordType, ScalarsType DEF Ints
<1>3. Cardinality(Signers) \in 1 .. Q - 1
  <2>1. IsFiniteSet(1 .. Q - 1) /\ Cardinality(1 .. Q - 1) = Q - 1
    BY QAssumption, FS_Interval
  <2>2. Cardinality(Signers) <= Q - 1
    BY Zenon, <2>1, SignersType, FS_Subset
  <2>3. Cardinality(Signers) # 0
    BY SignersType, FS_EmptySet
  <2> QED BY <2>2, <2>3, SignersType
<1> DEFINE v == Inv(Cardinality(Signers))
           r == XCoord(know.R)
<1>4. v \in Int /\ digest \in Int
  <2>1. Cardinality(Signers) \in Field /\ Cardinality(Signers) # 0
    BY <1>3, QAssumption DEF Field
  <2> QED BY <2>1, InvInt, Operands
<1> HIDE DEF v, r
<1>5. ASSUME NEW i \in Signers PROVE Ln18Alpha(i) \in Field
  <2>1. know.x[i] \in Int /\ r \in Int
    BY <1>1, <1>2 DEF Ints, r
  <2>2. know.x[i] * r \in Int /\ digest * v \in Int
    BY <1>4, <2>1
  <2>3. Fl(know.x[i] * r + digest * v) \in Field
    BY <2>2, FlType
  <2> QED BY <2>3 DEF Ln18Alpha, v, r
<1> QED BY <1>1, <1>2, <1>5

LEMMA Ln18CompleteStep ==
    ASSUME Session, Ln18Known, Ln18Complete, Ln18SignNext, stage' # "ended"
    PROVE  Ln18Complete'
<1>1. CASE Ln18StartTau
  <2>1. PICK masks \in [Pairs -> Ln18MaskRange] :
           Step("ln18_offline", "ln18_round_3",
                [R |-> Total(know.k, Signers), masks |-> masks,
                 tau |-> Ln18Shares("tau", know.k, know.rho, masks)])
    BY <1>1 DEF Ln18StartTau
  <2> DEFINE R == Total(know.k, Signers)
             tau == Ln18Shares("tau", know.k, know.rho, masks)
  <2>2. stage = "ln18_offline"
    BY <2>1, StepKeeps
  <2>3. know.k \in [Signers -> Field] /\ know.rho \in [Signers -> Field]
    BY Zenon, ScalarsType DEF Ln18Known, Has
  <2>4. ASSUME bent = Straight, ~Ln18Wraps(know.k, know.rho, masks)
        PROVE  Total(tau, Signers) = Fl(Total(know.k, Signers) * Total(know.rho, Signers))
    BY <2>3, <2>4, Ln18SharesAdd
  <2> HIDE DEF R, tau
  <2>5. Step("ln18_offline", "ln18_round_3", [R |-> R, masks |-> masks, tau |-> tau])
    BY <2>1 DEF R, tau
  <2>6. /\ stage' = "ln18_round_3" /\ bent' = bent /\ Signers' = Signers /\ Pairs' = Pairs
        /\ know'.tau = tau /\ know'.masks = masks /\ "masks" \in DOMAIN know'
    BY <2>5, StepKeeps
  <2>7. know'.k = know.k /\ know'.rho = know.rho
    BY <2>2, <2>5, StepKeeps DEF Ln18Known, Has
  <2>8. "alpha" \notin DOMAIN know'
    BY <2>2, <2>5 DEF Step, With, Ln18Complete
  <2> QED BY <2>4, <2>6, <2>7, <2>8 DEF Ln18Complete, Ln18Wraps, Straight, Has, Ln18MaskRange
<1>2. CASE Ln18StartBeta
  <2> DEFINE alpha == [i \in Signers |-> Ln18Alpha(i)]
  <2>1. PICK masks \in [Pairs -> Ln18MaskRange] :
           Step("ln18_round_3", "ln18_round_4",
                [alpha |-> alpha, masks |-> masks,
                 wrapped |-> Ln18Wraps(know.k, know.rho, know.masks),
                 beta |-> Ln18Shares("beta", know.rho, alpha, masks)])
    BY Zenon, <1>2 DEF Ln18StartBeta, Return
  <2> DEFINE wrapped == Ln18Wraps(know.k, know.rho, know.masks)
             beta == Ln18Shares("beta", know.rho, alpha, masks)
  <2>2. stage = "ln18_round_3"
    BY <2>1, StepKeeps
  <2>3. alpha \in [Signers -> Field] /\ know.rho \in [Signers -> Field]
    BY <2>2, Ln18AlphaType DEF Ln18Known, Has
  <2> HIDE DEF alpha
  <2>4. ASSUME bent = Straight, ~Ln18Wraps(know.rho, alpha, masks)
        PROVE  Total(beta, Signers) = Fl(Total(know.rho, Signers) * Total(alpha, Signers))
    BY <2>3, <2>4, Ln18SharesAdd
  <2>5. bent = Straight /\ ~wrapped =>
          Total(know.tau, Signers) = Fl(Total(know.k, Signers) * Total(know.rho, Signers))
    BY <2>2 DEF Ln18Complete
  <2>6. Step("ln18_round_3", "ln18_round_4",
             [alpha |-> alpha, masks |-> masks, wrapped |-> wrapped, beta |-> beta])
    BY <2>1
  <2> HIDE DEF wrapped, beta
  <2>7. /\ stage' = "ln18_round_4" /\ bent' = bent /\ Signers' = Signers /\ Pairs' = Pairs
        /\ know'.masks = masks /\ "masks" \in DOMAIN know' /\ "wrapped" \in DOMAIN know'
        /\ know'.alpha = alpha /\ know'.wrapped = wrapped /\ know'.beta = beta
    BY <2>6, StepKeeps
  <2>8. know'.k = know.k /\ know'.rho = know.rho /\ know'.tau = know.tau
    BY <2>2, <2>6, StepKeeps DEF Ln18Known, Has
  <2> QED BY <2>4, <2>5, <2>7, <2>8 DEF Ln18Complete, Ln18Wraps, Straight, Has, Ln18MaskRange
<1>3. CASE Ln18CheckTau \/ Ln18CheckBeta
  <2>1. Pass("ln18_round_4", "ln18_round_7") \/ Pass("ln18_round_7", "ln18_round_8")
    BY <1>3 DEF Ln18CheckTau, Ln18CheckBeta, Return
  <2>2. Signers' = Signers /\ Pairs' = Pairs
    BY <2>1, SameIndices DEF Pass
  <2> QED BY <2>1, <2>2 DEF Pass, Ln18Complete, Ln18Wraps, Straight, Has, Ln18MaskRange
<1>4. CASE Ln18Finish \/ Ln18LocalOnline
  BY Zenon, <1>4 DEF Ln18Finish, Ln18LocalOnline, Return
<1>5. CASE Ln18LocalPresign
  <2>1. PICK masks \in [Pairs -> Ln18MaskRange] :
          Step("ln18_offline", "ln18_presigned",
               [R |-> Total(know.k, Signers), tau |-> Ln18Multiply(know.k, know.rho, masks)])
    BY <1>5 DEF Ln18LocalPresign, Return
  <2> DEFINE R == Total(know.k, Signers)
             tau == Ln18Multiply(know.k, know.rho, masks)
  <2> HIDE DEF R, tau
  <2>2. Step("ln18_offline", "ln18_presigned", [R |-> R, tau |-> tau])
    BY <2>1 DEF R, tau
  <2> QED BY <2>2 DEF Step, With, Ln18Complete
<1> QED BY <1>1, <1>2, <1>3, <1>4, <1>5 DEF Ln18SignNext

LEMMA Ln18Refusals ==
    ASSUME Session, Ln18Known, Ln18Complete, Ln18SignNext, stage' = "ended",
           NEW i \in DOMAIN answer', answer'[i] = Refused
    PROVE  Ln18Excuse
<1> SUFFICES ASSUME ~Ln18Excuse PROVE FALSE
  OBVIOUS
<1> DEFINE K == Total(know.k, Signers)
           H == Total(know.rho, Signers)
<1>0. /\ know.k \in [Signers -> Field] /\ know.rho \in [Signers -> Field]
      /\ know.k \in Ints /\ know.rho \in Ints
      /\ K \in Field /\ K \in Int /\ H \in Field /\ H \in Int /\ K # 0 /\ H # 0
  BY DrawnInts, IntsType, ScalarsType DEF Ln18Known, Has, Ints, Ln18Excuse
<1>a. Fl(K * H) # 0
  <2> HIDE DEF K, H
  <2> QED BY <1>0, FlIntegral, FlField
<1>b. bent = Straight
  BY DEF Ln18Excuse
<1>1. CASE Ln18StartTau
  BY <1>1 DEF Ln18StartTau, Step
<1>2. CASE Ln18StartBeta
  <2>1. stage = "ln18_round_3" /\ XCoord(know.R) = 0
    BY <1>2 DEF Ln18StartBeta, Step
  <2>2. know.R = K
    BY <2>1 DEF Ln18Known, Has
  <2> QED BY <1>0, <2>1, <2>2, XCoordZero
<1>3. CASE Ln18CheckTau
  <2>1. stage = "ln18_round_4" /\ ~Ln18CheckDh(Ln18Left(know.k, know.rho, know.tau))
    BY <1>3 DEF Ln18CheckTau, Pass
  <2>2. "alpha" \in DOMAIN know /\ know.tau \in Ints
    BY <2>1 DEF Ln18Known, Has
  <2>3. ~know.wrapped
    BY <2>2 DEF Ln18Excuse
  <2>4. Total(know.tau, Signers) = Fl(K * H)
    BY <1>b, <2>1, <2>3 DEF Ln18Complete
  <2> QED BY <1>0, <2>1, <2>2, <2>4, Ln18NothingLeft
<1>4. CASE Ln18CheckBeta
  <2>1. stage = "ln18_round_7" /\ ~Ln18CheckDh(Ln18Left(know.rho, know.alpha, know.beta))
    BY <1>4 DEF Ln18CheckBeta, Pass
  <2>2. "alpha" \in DOMAIN know /\ know.alpha \in Ints /\ know.beta \in Ints
    BY <2>1 DEF Ln18Known, Has
  <2>3. ~Ln18Wraps(know.rho, know.alpha, know.masks)
    BY <2>2 DEF Ln18Excuse
  <2>4. Total(know.beta, Signers) = Fl(H * Total(know.alpha, Signers))
    BY <1>b, <2>1, <2>3 DEF Ln18Complete
  <2> QED BY <1>0, <2>1, <2>2, <2>4, Ln18NothingLeft
<1>5. ASSUME NEW r, NEW beta, Ln18Answer(r, know.tau, beta) = Refused,
             Total(know.tau, Signers) = Fl(K * H)
      PROVE  FALSE
  BY <1>a, <1>5 DEF Ln18Answer, Refused
<1>6. CASE Ln18Finish
  <2>1. stage = "ln18_round_8" /\ Ln18Answer(XCoord(know.R), know.tau, know.beta) = Refused
    BY <1>6, EveryoneRefused DEF Ln18Finish
  <2> QED BY <1>5, <2>1 DEF Ln18Known
<1>7. CASE Ln18LocalPresign
  <2>1. PICK masks \in [Pairs -> Ln18MaskRange] :
          XCoord(K) = 0 \/ Ln18Panics(know.k, know.rho, Ln18Multiply(know.k, know.rho, masks))
    BY <1>7 DEF Ln18LocalPresign, Step
  <2> DEFINE tau == Ln18Multiply(know.k, know.rho, masks)
  <2>2. stage = "ln18_offline" /\ "masks" \notin DOMAIN know
    BY <1>7 DEF Ln18LocalPresign, Ln18Complete
  <2>3. ~Ln18Wraps(know.k, know.rho, masks)
    BY <2>2 DEF Ln18Excuse
  <2>4. Total(tau, Signers) = Fl(K * H)
    BY Zenon, <1>0, <2>3, Ln18SharesAdd
  <2>5. tau \in Ints
    <3>1. masks \in PairInts
      BY Zenon, DrawnInts DEF PairInts, Ln18MaskRange
    <3> QED BY Zenon, <1>0, <3>1, Ln18SharesType
  <2> HIDE DEF tau
  <2>6. Ln18CheckDh(Ln18Left(know.k, know.rho, tau))
    BY <1>0, <2>4, <2>5, Ln18NothingLeft
  <2> QED BY <1>0, <2>1, <2>6, XCoordZero DEF Ln18Panics, tau
<1>8. CASE Ln18LocalOnline
  <2> DEFINE alpha == [j \in Signers |-> Ln18Alpha(j)]
  <2>1. PICK masks \in [Pairs -> Ln18MaskRange] :
          LET beta == Ln18Multiply(know.rho, alpha, masks)
          IN Return("ln18_presigned", Everyone(
                IF Ln18Panics(know.rho, alpha, beta) THEN Refused ELSE Ln18Answer(XCoord(know.R), know.tau, beta)))
    BY <1>8 DEF Ln18LocalOnline
  <2> DEFINE beta == Ln18Multiply(know.rho, alpha, masks)
             outcome == IF Ln18Panics(know.rho, alpha, beta) THEN Refused ELSE Ln18Answer(XCoord(know.R), know.tau, beta)
  <2>2. Return("ln18_presigned", Everyone(outcome))
    BY <2>1
  <2>3. stage = "ln18_presigned" /\ outcome = Refused
    <3> HIDE DEF outcome
    <3> QED BY <2>2, EveryoneRefused
  <2>4. "masks" \notin DOMAIN know /\ "R" \in DOMAIN know /\ know.R = K
    BY <2>3 DEF Ln18Complete, Ln18Known, Has
  <2>5. alpha \in [Signers -> Field]
    BY <2>4, Ln18AlphaType
  <2>6. ~Ln18Wraps(know.rho, alpha, masks)
    BY <2>4 DEF Ln18Excuse
  <2> HIDE DEF alpha
  <2>7. Total(beta, Signers) = Fl(H * Total(alpha, Signers))
    BY <1>0, <2>5, <2>6, Ln18SharesAdd
  <2>8. beta \in Ints /\ alpha \in Ints
    <3>1. masks \in PairInts
      BY Zenon, DrawnInts DEF PairInts, Ln18MaskRange
    <3>2. alpha \in Ints
      BY Zenon, <2>5, ScalarsType DEF Ints
    <3> QED BY <1>0, <3>1, <3>2, Ln18SharesType
  <2> HIDE DEF beta
  <2>9. Ln18CheckDh(Ln18Left(know.rho, alpha, beta))
    BY <1>0, <2>7, <2>8, Ln18NothingLeft
  <2>10. Ln18Answer(XCoord(know.R), know.tau, beta) = Refused
    BY <2>3, <2>9 DEF Ln18Panics
  <2>11. Total(know.tau, Signers) = Fl(K * H)
    BY <2>3 DEF Ln18Known
  <2> QED BY <1>5, <2>10, <2>11
<1> QED BY <1>1, <1>2, <1>3, <1>4, <1>6, <1>7, <1>8 DEF Ln18SignNext

-----------------------------------------------------------------------------
(* WMC24.                                                                    *)

\* What is proved of the scaled ciphertexts, and what they are added up to.
Wmc24Complete ==
    /\ stage # "wmc24_presign_1" => know.kBar = Total(know.k, Signers)
    /\ stage = "wmc24_presign_2" /\ bent = Straight =>
           \A i \in Signers : Wmc24DlClHolds(i) /\ Wmc24ElClHolds(i)
    /\ stage \in {"wmc24_presign_3", "wmc24_sign"} => know.Gamma = Total(know.gamma, Signers)

LEMMA Wmc24CompleteBegin ==
    ASSUME NEW f \in Sharings, Wmc24SignBegin(f)
    PROVE  Wmc24Complete
  BY DEF Wmc24SignBegin, Wmc24Complete

LEMMA Wmc24CompleteStep ==
    ASSUME Session, Wmc24Known, Wmc24Complete, Wmc24SignNext, stage' # "ended"
    PROVE  Wmc24Complete'
<1>1. CASE Wmc24Scale
  <2>1. PICK gamma \in [Signers -> Scalars] :
          LET k == Total(know.k, Signers)
          IN Step("wmc24_presign_1", "wmc24_presign_2",
               [kBar |-> k, gamma |-> gamma,
                xk |-> [i \in Signers |-> Fl(Fl(Lagrange(Signers, i) * know.share[i]) * k + Off(i, "xk"))],
                gk |-> [i \in Signers |-> Fl(gamma[i] * k + Off(i, "gk"))]])
    BY Zenon, <1>1 DEF Wmc24Scale
  <2> DEFINE k == Total(know.k, Signers)
             xk == [i \in Signers |-> Fl(Fl(Lagrange(Signers, i) * know.share[i]) * k + Off(i, "xk"))]
             gk == [i \in Signers |-> Fl(gamma[i] * k + Off(i, "gk"))]
  <2>2. Step("wmc24_presign_1", "wmc24_presign_2", [kBar |-> k, gamma |-> gamma, xk |-> xk, gk |-> gk])
    BY <2>1
  <2>3. k \in Int /\ know.share \in Ints /\ gamma \in Ints
    BY IntsType, DrawnInts DEF Wmc24Known, Has, Ints
  <2> HIDE DEF k
  <2>4. ASSUME bent = Straight, NEW i \in Signers
        PROVE  /\ xk[i] = Fl(Fl(Lagrange(Signers, i) * know.share[i]) * k)
               /\ gk[i] = Fl(gamma[i] * k)
    <3>1. Off(i, "xk") = 0 /\ Off(i, "gk") = 0
      BY <2>4 DEF Off, Straight
    <3>2. know.share[i] \in Int /\ gamma[i] \in Int /\ Lagrange(Signers, i) \in Int
      BY <2>3, LagrangeInt DEF Ints
    <3>3. Lagrange(Signers, i) * know.share[i] \in Int
      BY <3>2
    <3> DEFINE w == Fl(Lagrange(Signers, i) * know.share[i])
    <3>4. w \in Int
      BY <3>3, FlInt
    <3>5. xk[i] = Fl(w * k + 0) /\ gk[i] = Fl(gamma[i] * k + 0)
      BY <3>1
    <3> HIDE DEF w, xk, gk
    <3>6. w * k \in Int /\ gamma[i] * k \in Int
      BY <2>3, <3>2, <3>4
    <3>7. w * k + 0 = w * k /\ gamma[i] * k + 0 = gamma[i] * k
      BY <3>6
    <3> QED BY <3>5, <3>7 DEF w
  <2> HIDE DEF xk, gk
  <2>5. /\ stage = "wmc24_presign_1" /\ stage' = "wmc24_presign_2" /\ bent' = bent /\ Signers' = Signers
        /\ know'.kBar = k /\ know'.gamma = gamma /\ know'.xk = xk /\ know'.gk = gk
    BY <2>2, StepKeeps
  <2>6. know'.k = know.k /\ know'.share = know.share
    BY <2>2, StepKeeps DEF Wmc24Known, Has
  <2>7. ASSUME bent = Straight, NEW i \in Signers
        PROVE  (Wmc24DlClHolds(i) /\ Wmc24ElClHolds(i))'
    BY <2>4, <2>5, <2>6, <2>7 DEF Wmc24DlClHolds, Wmc24ElClHolds
  <2>8. Straight' = Straight
    BY <2>5 DEF Straight
  <2> QED BY <2>5, <2>6, <2>7, <2>8 DEF Wmc24Complete, k
<1>2. CASE Wmc24Join
  <2>1. Step("wmc24_presign_2", "wmc24_presign_3",
             [xkBar |-> Total(know.xk, Signers), gkBar |-> Total(know.gk, Signers),
              Gamma |-> Total(know.gamma, Signers)])
    BY <1>2 DEF Wmc24Join, RefuseFaulty, Return
  <2> DEFINE xkBar == Total(know.xk, Signers)
             gkBar == Total(know.gk, Signers)
             Gamma == Total(know.gamma, Signers)
  <2> HIDE DEF xkBar, gkBar, Gamma
  <2>2. Step("wmc24_presign_2", "wmc24_presign_3", [xkBar |-> xkBar, gkBar |-> gkBar, Gamma |-> Gamma])
    BY <2>1 DEF xkBar, gkBar, Gamma
  <2>3. /\ stage = "wmc24_presign_2" /\ stage' = "wmc24_presign_3" /\ Signers' = Signers
        /\ know'.Gamma = Gamma
    BY <2>2, StepKeeps
  <2>4. know'.k = know.k /\ know'.kBar = know.kBar /\ know'.gamma = know.gamma
    BY <2>2, <2>3, StepKeeps DEF Wmc24Known, Has
  <2> QED BY <2>3, <2>4 DEF Wmc24Complete, Gamma
<1>3. CASE Wmc24Presign
  <2>1. Step("wmc24_presign_3", "wmc24_sign", [R |-> Fl(know.Gamma * Inv(know.gkBar))])
    BY <1>3 DEF Wmc24Presign, RefuseFaulty, Return
  <2> DEFINE R == Fl(know.Gamma * Inv(know.gkBar))
  <2> HIDE DEF R
  <2>2. Step("wmc24_presign_3", "wmc24_sign", [R |-> R])
    BY <2>1 DEF R
  <2>3. stage = "wmc24_presign_3" /\ stage' = "wmc24_sign" /\ Signers' = Signers
    BY <2>2, StepKeeps
  <2>4. /\ know'.k = know.k /\ know'.kBar = know.kBar /\ know'.gamma = know.gamma
        /\ know'.Gamma = know.Gamma
    BY <2>2, <2>3, StepKeeps DEF Wmc24Known, Has
  <2> QED BY <2>3, <2>4 DEF Wmc24Complete
<1>4. CASE Wmc24Finish
  BY <1>4 DEF Wmc24Finish, RefuseFaulty, Return
<1> QED BY <1>1, <1>2, <1>3, <1>4 DEF Wmc24SignNext

LEMMA Wmc24Refusals ==
    ASSUME Session, Wmc24Known, Wmc24Equations, Wmc24Complete, Wmc24SignNext, stage' = "ended",
           NEW i \in DOMAIN answer', answer'[i] = Refused
    PROVE  Wmc24Excuse
<1> SUFFICES ASSUME ~Wmc24Excuse PROVE FALSE
  OBVIOUS
<1>0. bent = Straight /\ Total(know.k, Signers) # 0
  BY DEF Wmc24Excuse
<1>a. \A j \in Signers : \A where : ~Faulty(j, where)
  BY <1>0 DEF Faulty, Straight
<1>1. CASE Wmc24Scale
  BY <1>1 DEF Wmc24Scale, Step
<1>2. CASE Wmc24Join
  <2>1. stage = "wmc24_presign_2" /\ \E j \in Signers : ~(Wmc24DlClHolds(j) /\ Wmc24ElClHolds(j))
    BY <1>2 DEF Wmc24Join, Step
  <2> QED BY <1>0, <2>1 DEF Wmc24Complete
<1>3. CASE Wmc24Presign
  <2>1. stage = "wmc24_presign_3" /\ know.gkBar = 0
    BY <1>a, <1>3 DEF Wmc24Presign, Step
  <2> DEFINE K == Total(know.k, Signers)
             G == Total(know.gamma, Signers)
  <2>2. "gamma" \in DOMAIN know /\ know.k \in Ints /\ know.gamma \in Ints
    BY <2>1 DEF Wmc24Known, Has
  <2>3. K \in Field /\ G \in Field /\ K \in Int /\ G \in Int /\ K # 0 /\ G # 0
    BY <1>0, <2>2, IntsType DEF Ints, Wmc24Excuse
  <2>4. Fl(K * G) = 0
    BY <2>1 DEF Wmc24Complete, Wmc24Equations
  <2> HIDE DEF K, G
  <2> QED BY Zenon, <2>3, <2>4, FlIntegral, FlField
<1>4. CASE Wmc24Finish
  <2> DEFINE r == XCoord(know.R)
             s == Wmc24CSig
             k == know.kBar
             g == know.xkBar
  <2>1. stage = "wmc24_sign" /\ Checked(XCoord(know.R), s) = Refused
    <3>1. Return("wmc24_sign", Everyone(
               IF Checked(XCoord(know.R), Wmc24CSig) # Refused THEN Checked(XCoord(know.R), Wmc24CSig)
               ELSE Checked(XCoord(know.R), Neg(Wmc24CSig))))
      BY <1>a, <1>4 DEF Wmc24Finish
    <3> DEFINE c == Checked(XCoord(know.R), Wmc24CSig)
               d == Checked(XCoord(know.R), Neg(Wmc24CSig))
               outcome == IF c # Refused THEN c ELSE d
    <3>2. Return("wmc24_sign", Everyone(outcome))
      BY <3>1
    <3>3. stage = "wmc24_sign" /\ outcome = Refused
      <4> HIDE DEF outcome
      <4> QED BY <3>2, EveryoneRefused
    <3> HIDE DEF c, d
    <3> QED BY <3>3 DEF c
  <2>2. /\ know.R \in Field /\ k \in Field /\ g \in Field /\ Fl(know.R * k) = 1
        /\ g = Fl(k * key) /\ k = Total(know.k, Signers)
    BY <2>1 DEF Wmc24Known, Wmc24Equations, Wmc24Complete, Has
  <2>3. know.R = Inv(k) /\ ~NoSignature(r)
    BY <2>2, InverseUnique DEF Wmc24Excuse
  <2>4. /\ know.R \in Int /\ k \in Int /\ g \in Int /\ r \in Int /\ digest \in Int /\ key \in Int
        /\ Fl(g) = g
    BY Zenon, <2>2, XCoordType, Operands, ScalarsType, FlField
  <2>5. s = Fl(digest * k + r * g)
    BY DEF Wmc24CSig
  <2> DEFINE R == know.R
  <2>6. s \in Field
    <3> HIDE DEF k, g, r
    <3>1. digest * k + r * g \in Int
      BY <2>4
    <3> QED BY <2>5, <3>1, FlType
  <2> HIDE DEF s, r, k, g
  <2>7. SharedSignature(R, k, digest, key, g, r, s)
    BY <2>2, <2>4, <2>5 DEF SharedSignature
  <2> HIDE DEF R
  <2>8. Fl(s * R) = Fl(digest + r * key)
    BY <2>7, NonceInverted
  <2> QED BY <2>1, <2>2, <2>3, <2>6, <2>8, CheckedSucceeds DEF r, R
<1> QED BY <1>1, <1>2, <1>3, <1>4 DEF Wmc24SignNext

-----------------------------------------------------------------------------
(* WMY23.                                                                    *)

\* Every signer's share of s is consistent with what was revealed.
LEMMA Wmy23Consistent ==
    ASSUME Session, Wmy23Known, Wmy23Equations, stage = "wmy23_sign", NEW i \in Signers,
           know.sigma = [l \in Signers |-> Wmy23ShareOf(l, know.x, know.nu)],
           know.D[i] = Fl(Total(know.gamma, Signers) * know.k[i]),
           know.R = Fl(Total(know.Gamma, Signers) * Inv(Wmy23Delta)), Wmy23Delta \in Field, Wmy23Delta # 0,
           Off(i, "s") = 0
    PROVE  Wmy23Equation3(i)
<1> DEFINE R == know.R
           r == XCoord(know.R)
           K == Total(know.k, Signers)
           k == know.k[i]
           x == know.x[i]
           sg == know.sigma[i]
           al == [j \in Others(i) |-> Wmy23Alpha(i, j, know.x, know.nu) + know.nu[<<i, j>>]]
           A == SumFunctionOnSet(al, Others(i))
           f == [j \in Others(i) |-> R * al[j]]
           g == [j \in Others(i) |-> Fl(Wmy23M(j, i) + Neg(Wmy23M(i, j)))]
           gr == [j \in Others(i) |-> Fl(Wmy23M(j, i) + Neg(Wmy23M(i, j))) * XCoord(know.R)]
           c == R * x
           kx == k * x
           b == R * kx
           F == SumFunctionOnSet(f, Others(i))
           E == SumFunctionOnSet(g, Others(i))
<1>1. /\ know.k \in Ints /\ know.x \in Ints /\ know.nu \in PairInts /\ know.gamma \in Ints
      /\ R \in Field /\ R \in Int /\ r \in Int /\ digest \in Int /\ K \in Int /\ K \in Field
      /\ k \in Int /\ x \in Int /\ kx \in Int /\ c \in Int /\ b \in Int
  <2>1. /\ know.k \in Ints /\ know.x \in Ints /\ know.nu \in PairInts /\ know.gamma \in Ints /\ R \in Field
    BY DEF Wmy23Known, Has
  <2>2. R \in Int /\ r \in Int /\ digest \in Int /\ K \in Int /\ K \in Field /\ k \in Int /\ x \in Int
    BY Zenon, <2>1, XCoordType, ScalarsType, Operands, IntsType DEF Ints
  <2>3. kx \in Int /\ c \in Int
    <3> HIDE DEF R, k, x
    <3> QED BY <2>2
  <2>4. b \in Int
    <3> HIDE DEF R, kx
    <3> QED BY <2>2, <2>3
  <2> QED BY <2>1, <2>2, <2>3, <2>4
<1>2. ASSUME NEW j \in Others(i)
      PROVE  /\ al[j] \in Int /\ f[j] \in Int /\ g[j] \in Int /\ gr[j] = g[j] * r
             /\ Fl(f[j] + g[j]) = Fl(c * know.k[j])
  <2> DEFINE p == know.nu[<<i, j>>]
             q == know.nu[<<j, i>>]
             u == k * know.x[j]
             w == know.k[j] * x
             Ru == Wmy23M(i, j)
             Rw == Wmy23M(j, i)
             a1 == Fl(u + Neg(q))
             a2 == Fl(w + Neg(p))
             s == a1 + p
  <2>1. p \in Int /\ q \in Int /\ know.x[j] \in Int /\ know.k[j] \in Int
    BY <1>1, OtherPairs DEF Ints, PairInts
  <2>2. u \in Int /\ w \in Int /\ Neg(q) \in Int /\ Neg(p) \in Int
    <3>1. u \in Int /\ w \in Int
      <4> HIDE DEF k, x
      <4> QED BY <1>1, <2>1
    <3> QED BY <2>1, <3>1, FlInt
  <2>3. u + Neg(q) \in Int /\ w + Neg(p) \in Int
    <3> HIDE DEF u, w, p, q
    <3> QED BY <2>2
  <2>4. a1 \in Int /\ a2 \in Int /\ a2 = Fl(w - p)
    <3> HIDE DEF u, w, p, q
    <3> QED BY Zenon, <2>1, <2>2, <2>3, FlInt, FlNeg
  <2>5. al[j] = a1 + p /\ Ru = Fl(R * a1) /\ Rw = Fl(R * a2) /\ i \in Others(j)
    <3>1. i \in Others(j)
      BY DEF Others
    <3> QED BY <3>1 DEF Wmy23Alpha, Wmy23M
  <2>6. f[j] = R * s /\ g[j] = Fl(Rw + Neg(Ru)) /\ gr[j] = g[j] * r /\ al[j] = s
    BY <2>5
  <2> HIDE DEF p, q, u, a1, a2, f, g, gr, al, Ru, Rw
  <2>7. w = x * know.k[j] /\ c * know.k[j] = R * w
    <3> HIDE DEF R, x
    <3>1. w = know.k[j] * x /\ c = R * x
      OBVIOUS
    <3> HIDE DEF w, c
    <3>2. know.k[j] * x = x * know.k[j] /\ (R * x) * know.k[j] = R * (x * know.k[j])
      BY <1>1, <2>1
    <3> QED BY <3>1, <3>2
  <2> HIDE DEF w, R, c
  <2>8. s \in Int /\ R * s \in Int /\ R * a1 \in Int /\ R * a2 \in Int /\ R * p \in Int /\ R * w \in Int
    BY <1>1, <2>1, <2>2, <2>4
  <2>9. Ru \in Int /\ Rw \in Int /\ Rw + Neg(Ru) \in Int
    <3>1. Ru \in Int /\ Rw \in Int
      BY <2>5, <2>8, FlInt
    <3> QED BY <3>1, FlInt
  <2>10. Fl(Rw + Neg(Ru)) = Fl(R * a2 - R * a1)
    <3> DEFINE y1 == R * a1
               y2 == R * a2
    <3>1. y1 \in Int /\ y2 \in Int /\ Ru = Fl(y1) /\ Rw = Fl(y2) /\ Ru \in Int /\ Rw \in Int
      BY <2>5, <2>8, <2>9
    <3> HIDE DEF y1, y2
    <3>2. Fl(Rw + Neg(Ru)) = Fl(Rw - Ru)
      BY <3>1, FlNeg
    <3>3. Fl(Rw) = Fl(y2) /\ Fl(Ru) = Fl(y1)
      BY <3>1, FlInt, FlField
    <3>4. Fl(Rw - Ru) = Fl(Rw - y1)
      BY Zenon, <3>1, <3>3, FlMinus
    <3> DEFINE n == -y1
    <3>5. n \in Int /\ Rw - y1 = Rw + n /\ y2 - y1 = y2 + n
      BY <3>1
    <3> HIDE DEF n
    <3>6. Fl(Rw + n) = Fl(y2 + n)
      BY Zenon, <3>1, <3>3, <3>5, FlShift
    <3> QED BY <3>2, <3>4, <3>5, <3>6 DEF y1, y2
  <2>11. g[j] \in Int /\ Fl(g[j]) = Fl(R * a2 - R * a1)
    BY <2>6, <2>9, <2>10, FlInt, FlField
  <2>12. Fl(R * s + (R * a2 - R * a1)) = Fl(R * w)
    <3> DEFINE y1 == R * a1
               y2 == R * a2
               y3 == R * p
               y4 == R * w
               y5 == R * (w - p)
    <3>1. y1 \in Int /\ y2 \in Int /\ y3 \in Int /\ y4 \in Int /\ R * s = y1 + y3
      BY <1>1, <2>1, <2>4, <2>8
    <3>2. w - p \in Int /\ y5 = y4 - y3
      BY <1>1, <2>1, <2>2
    <3>3. Fl(y2) = Fl(y5)
      BY <1>1, <2>4, <3>2, FlMulRight
    <3> HIDE DEF y1, y2, y3, y4, y5
    <3>4. R * s + (y2 - y1) = y2 + y3 /\ y5 + y3 = y4 /\ y5 \in Int
      BY <3>1, <3>2
    <3>5. Fl(y2 + y3) = Fl(y5 + y3)
      BY <3>1, <3>3, <3>4, FlShift
    <3> QED BY <3>4, <3>5 DEF y1, y2, y4
  <2>13. Fl(f[j] + g[j]) = Fl(R * w)
    <3> DEFINE y == R * a2 - R * a1
               gj == g[j]
               fj == f[j]
    <3>1. y \in Int /\ gj \in Int /\ fj \in Int /\ Fl(gj) = Fl(y) /\ fj = R * s
      BY <2>6, <2>8, <2>11
    <3> HIDE DEF y, gj, fj
    <3>2. Fl(fj + gj) = Fl(fj + y)
      BY <3>1, FlShift
    <3> QED BY <2>12, <3>1, <3>2 DEF y, gj, fj
  <2> QED BY <2>6, <2>7, <2>8, <2>11, <2>13
<1>3. b = c * k
  <2> HIDE DEF R, k, x
  <2>1. R * (k * x) = (R * x) * k
    BY <1>1
  <2> QED BY <2>1
<1>4. sg = Fl(kx + A)
  BY DEF Wmy23ShareOf
<1> HIDE DEF al
<1>5. A \in Int
  BY <1>2, OthersSum
<1>6. F = R * A
  <2> DEFINE zero == 0
  <2>1. \A j \in Others(i) : al[j] \in Int /\ f[j] = al[j] * R - al[j] * 0
    <3> SUFFICES ASSUME NEW j \in Others(i) PROVE al[j] \in Int /\ f[j] = al[j] * R - al[j] * 0
      OBVIOUS
    <3> DEFINE a == al[j]
    <3>1. a \in Int /\ f[j] = R * a
      BY <1>2
    <3> HIDE DEF f, a, R
    <3>2. R * a = a * R - a * 0
      BY <1>1, <3>1
    <3> QED BY <3>1, <3>2 DEF a
  <2> HIDE DEF f, R
  <2>2. F = A * R - A * 0
    BY <1>1, <2>1, OthersType, SumLinear
  <2> HIDE DEF A, F
  <2> QED BY <1>1, <1>5, <2>2
<1>7. SumFunctionOnSet(gr, Others(i)) = E * r
  <2>1. \A j \in Others(i) : g[j] \in Int /\ gr[j] = g[j] * r - g[j] * 0
    <3> SUFFICES ASSUME NEW j \in Others(i) PROVE g[j] \in Int /\ gr[j] = g[j] * r - g[j] * 0
      OBVIOUS
    <3> DEFINE a == g[j]
    <3>1. a \in Int /\ gr[j] = a * r
      BY <1>2
    <3> HIDE DEF gr, a, r
    <3>2. a * r = a * r - a * 0
      BY <1>1, <3>1
    <3> QED BY <3>1, <3>2 DEF a
  <2>2. E \in Int
    <3> HIDE DEF g
    <3> QED BY <2>1, OthersSum
  <2> HIDE DEF g, gr, r
  <2>3. SumFunctionOnSet(gr, Others(i)) = E * r - E * 0
    BY <1>1, <2>1, OthersType, SumLinear
  <2> HIDE DEF E
  <2> QED BY <1>1, <2>2, <2>3
<1>8. E \in Int /\ F \in Int
  <2> HIDE DEF f, g
  <2> QED BY <1>2, OthersSum
<1>9. Fl((b + F) + E) = Fl(c * K)
  <2>1. b \in Int /\ Fl(b) = Fl(c * know.k[i])
    BY <1>1, <1>3
  <2> HIDE DEF b, c, f, g
  <2>2. Multiplied(i, c, know.k, b, f, g)
    BY <1>1, <1>2, <2>1 DEF Multiplied
  <2>3. Fl((b + SumFunctionOnSet(f, Others(i))) + SumFunctionOnSet(g, Others(i)))
          = Fl(c * Total(know.k, Signers))
    BY <2>2, OneAndOthers
  <2> QED BY <2>3
<1>10. Fl(c * K) = Fl(x)
  <2>1. Fl(R * K) = 1
    BY DEF Wmy23Equations
  <2> HIDE DEF R, K, x
  <2> DEFINE RK == R * K
             one == 1
  <2>2. c * K = RK * x /\ RK \in Int /\ one \in Int /\ one * x = x
    BY <1>1
  <2>3. Fl(RK) = Fl(one)
    <3>1. 1 \in Field
      BY QAssumption DEF Field
    <3> QED BY <2>1, <3>1, FlField
  <2>5. RK \in Int /\ one \in Int /\ x \in Int /\ Fl(RK) = Fl(one)
    BY <1>1, <2>2, <2>3
  <2> HIDE DEF RK, one, c
  <2>4. Fl(RK * x) = Fl(one * x)
    BY <2>5, FlScale
  <2> QED BY <2>2, <2>4
<1> HIDE DEF A, E, F, c, f, g, gr, R, r, K, k, x, kx, sg
<1>11. sg \in Int /\ kx + A \in Int
  BY <1>1, <1>4, <1>5, FlInt
<1>12. Fl(R * sg + E) = Fl(x)
  <2> DEFINE y == kx + A
             Ry == R * y
             Rs == R * sg
  <2>1. Fl(Rs) = Fl(Ry) /\ Rs \in Int /\ Ry \in Int
    <3>1. y \in Int /\ sg = Fl(y)
      BY <1>4, <1>11
    <3> HIDE DEF y
    <3>2. Fl(R * Fl(y)) = Fl(R * y)
      BY <1>1, <3>1, FlMulRight
    <3> QED BY <1>1, <1>11, <3>1, <3>2
  <2>2. Ry = b + F
    <3>1. R * (kx + A) = R * kx + R * A
      BY <1>1, <1>5
    <3> QED BY <1>6, <3>1
  <2> HIDE DEF Rs, Ry, b
  <2>3. Fl(Rs + E) = Fl(Ry + E)
    BY Zenon, <1>8, <2>1, FlShift
  <2> QED BY <1>9, <1>10, <2>2, <2>3 DEF Rs
<1> DEFINE v == Inv(Wmy23Delta)
           G == Total(know.gamma, Signers)
           m == digest
<1>13. v \in Int /\ G \in Int /\ R = Fl(G * v) /\ know.D[i] = Fl(G * k)
  BY <1>1, InvInt, IntsType DEF Wmy23Equations, Ints, R, k
<1> HIDE DEF v, G, m
<1> DEFINE D == know.D[i]
<1> HIDE DEF D
<1>14. PartOfS(R, m, k, r, sg, E, x, v, G, D)
  BY <1>1, <1>8, <1>11, <1>12, <1>13 DEF PartOfS, m, D
<1>15. Fl(R * Fl(m * k + r * sg) + E * r) = Fl(Fl(D * v) * m + x * r)
  BY <1>14, PartVerifies
<1>16. Wmy23SShare(i) = Fl(m * k + r * sg)
  <2> DEFINE y == m * k + r * sg
  <2>1. y \in Int
    <3>1. m * k \in Int /\ r * sg \in Int
      BY <1>1, <1>11 DEF m
    <3> QED BY <3>1
  <2>2. Wmy23SShare(i) = Fl(Fl(y) + 0)
    BY DEF Wmy23SShare, m, k, r, sg
  <2> HIDE DEF y
  <2>3. Fl(y) + 0 = Fl(y) /\ Fl(Fl(y)) = Fl(y)
    BY <2>1, FlInt, FlField
  <2> QED BY <2>2, <2>3 DEF y
<1> QED BY <1>7, <1>15, <1>16 DEF Wmy23Equation3, R, r, x, D, v, m, gr

\* What signers that are not faulty reveal, and how their shares came about.
Wmy23Complete ==
    /\ stage # "wmy23_presign_1" => Total(know.gamma, Signers) = Secret(know.gammaPoly)
    /\ stage \in {"wmy23_presign_3", "wmy23_presign_4"} /\ bent = Straight => know.Gamma = know.gamma
    /\ stage \in {"wmy23_presign_5", "wmy23_sign"} =>
           /\ \A i \in Signers : know.D[i] = Fl(Total(know.gamma, Signers) * know.k[i])
           /\ know.sigma = [i \in Signers |-> Wmy23ShareOf(i, know.x, know.nu)]
           /\ bent = Straight => \A i \in Signers :
                  know.delta[i] = Fl(Wmy23ShareOf(i, know.gamma, know.beta))
    /\ stage = "wmy23_sign" => /\ know.R = Fl(Total(know.Gamma, Signers) * Inv(Wmy23Delta))
                               /\ Wmy23Delta # 0

LEMMA Wmy23CompleteBegin ==
    ASSUME NEW f \in Sharings, Wmy23SignBegin(f)
    PROVE  Wmy23Complete
  BY DEF Wmy23SignBegin, Wmy23Complete

LEMMA Wmy23CompleteStep ==
    ASSUME Session, Wmy23Known, Wmy23Complete, Wmy23SignNext, stage' # "ended"
    PROVE  Wmy23Complete'
<1>1. CASE Wmy23Combine
  <2> DEFINE k == Wmy23Additive(Wmy23Shared(know.kPoly))
             gamma == Wmy23Additive(Wmy23Shared(know.gammaPoly))
             Gamma == [i \in Signers |-> Fl(gamma[i] + Off(i, "gamma"))]
  <2>1. Step("wmy23_presign_1", "wmy23_presign_3", [k |-> k, gamma |-> gamma, Gamma |-> Gamma])
    BY <1>1 DEF Wmy23Combine, RefuseVictim, Return
  <2>2. stage = "wmy23_presign_1" /\ know.gammaPoly \in [Signers -> Polynomials(T)]
    BY <2>1 DEF Step, Wmy23Known, Has
  <2>3. Total(gamma, Signers) = Secret(know.gammaPoly)
    <3>1. gamma = [i \in Signers |-> Fl(Lagrange(Positions, Position(i)) * Dealers(know.gammaPoly, Position(i)))]
      BY DEF Wmy23Additive, Wmy23Shared
    <3> HIDE DEF gamma
    <3> QED BY <2>2, <3>1, PositionedShares
  <2>4. ASSUME bent = Straight PROVE Gamma = gamma
    <3>1. ASSUME NEW i \in Signers PROVE Fl(gamma[i] + Off(i, "gamma")) = gamma[i]
      <4> DEFINE y == Lagrange(Positions, Position(i)) * Wmy23Shared(know.gammaPoly)[i]
      <4>1. y \in Int
        <5>1. Lagrange(Positions, Position(i)) \in Int /\ Wmy23Shared(know.gammaPoly)[i] \in Int
          BY <2>2, PositionType, DealersType DEF Wmy23Shared
        <5> QED BY <5>1
      <4>2. gamma[i] = Fl(y) /\ Off(i, "gamma") = 0
        BY <2>4 DEF Wmy23Additive, Off, Straight
      <4> HIDE DEF y, gamma
      <4>3. Fl(y) + 0 = Fl(y) /\ Fl(Fl(y)) = Fl(y)
        BY <4>1, FlInt, FlField
      <4> QED BY <4>2, <4>3
    <3>2. gamma = [i \in Signers |-> gamma[i]]
      BY DEF Wmy23Additive
    <3> HIDE DEF gamma
    <3> QED BY <3>1, <3>2
  <2> HIDE DEF k, gamma, Gamma
  <2>5. /\ stage' = "wmy23_presign_3" /\ know'.gamma = gamma /\ know'.Gamma = Gamma
        /\ bent' = bent /\ Signers' = Signers
    BY <2>1, StepKeeps
  <2>6. know'.gammaPoly = know.gammaPoly
    BY <2>1, StepKeeps DEF Wmy23Known, Has
  <2>7. Secret(know.gammaPoly)' = Secret(know.gammaPoly) /\ Straight' = Straight
    BY <2>5, <2>6 DEF Secret, Straight
  <2> QED BY <2>3, <2>4, <2>5, <2>7 DEF Wmy23Complete
<1>2. CASE Wmy23Answer
  <2>1. PICK beta \in [Pairs -> Scalars], mask \in Scalars :
          Step("wmy23_presign_3", "wmy23_presign_4", [beta |-> beta, nu |-> [p \in Pairs |-> mask]])
    BY Zenon, <1>2 DEF Wmy23Answer
  <2> DEFINE nu == [p \in Pairs |-> mask]
  <2>2. Step("wmy23_presign_3", "wmy23_presign_4", [beta |-> beta, nu |-> nu])
    BY <2>1
  <2> HIDE DEF nu
  <2>3. stage = "wmy23_presign_3" /\ stage' = "wmy23_presign_4" /\ bent' = bent /\ Signers' = Signers
    BY <2>2, StepKeeps
  <2>4. know'.gammaPoly = know.gammaPoly /\ know'.gamma = know.gamma /\ know'.Gamma = know.Gamma
    BY <2>2, <2>3, StepKeeps DEF Wmy23Known, Has
  <2>5. Secret(know.gammaPoly)' = Secret(know.gammaPoly) /\ Straight' = Straight
    BY <2>3, <2>4 DEF Secret, Straight
  <2> QED BY <2>3, <2>4, <2>5 DEF Wmy23Complete
<1>3. CASE Wmy23Reveal
  <2> DEFINE delta == [i \in Signers |-> Fl(Wmy23ShareOf(i, know.gamma, know.beta) + Off(i, "delta"))]
             sigma == [i \in Signers |-> Wmy23ShareOf(i, know.x, know.nu)]
             D == [i \in Signers |-> Fl(Total(know.gamma, Signers) * know.k[i])]
  <2>1. Step("wmy23_presign_4", "wmy23_presign_5", [delta |-> delta, sigma |-> sigma, D |-> D])
    BY <1>3 DEF Wmy23Reveal, RefuseFaulty, RefuseVictim, Return
  <2>2. stage = "wmy23_presign_4"
    BY <2>1 DEF Step
  <2>3. ASSUME bent = Straight, NEW i \in Signers
        PROVE  delta[i] = Fl(Wmy23ShareOf(i, know.gamma, know.beta))
    <3> DEFINE s == Wmy23ShareOf(i, know.gamma, know.beta)
    <3>1. s \in Int
      BY <2>2, Wmy23ShareType DEF Wmy23Known, Has
    <3>2. delta[i] = Fl(s + 0)
      BY <2>3 DEF Off, Straight
    <3> HIDE DEF s, delta
    <3> QED BY <3>1, <3>2 DEF s
  <2>4. \A i \in Signers : D[i] = Fl(Total(know.gamma, Signers) * know.k[i])
    OBVIOUS
  <2>5. sigma = [i \in Signers |-> Wmy23ShareOf(i, know.x, know.nu)]
    OBVIOUS
  <2> HIDE DEF delta, sigma, D
  <2>6. /\ stage' = "wmy23_presign_5" /\ know'.sigma = sigma /\ know'.D = D /\ know'.delta = delta
        /\ bent' = bent /\ Signers' = Signers
    BY <2>1, StepKeeps
  <2>7. /\ know'.gammaPoly = know.gammaPoly /\ know'.gamma = know.gamma /\ know'.k = know.k
        /\ know'.x = know.x /\ know'.nu = know.nu /\ know'.beta = know.beta
    BY <2>1, <2>2, StepKeeps DEF Wmy23Known, Has
  <2>8. Secret(know.gammaPoly)' = Secret(know.gammaPoly) /\ Straight' = Straight
    BY <2>6, <2>7 DEF Secret, Straight
  <2>9. sigma = [i \in Signers |-> Wmy23ShareOf(i, know.x, know.nu)]'
    <3>1. [i \in Signers |-> Wmy23ShareOf(i, know.x, know.nu)]' = [i \in Signers |-> Wmy23ShareOf(i, know.x, know.nu)]
      BY <2>6, <2>7 DEF Wmy23ShareOf, Wmy23Alpha, Others
    <3> QED BY <2>5, <3>1
  <2>10. \A i \in Signers : Wmy23ShareOf(i, know.gamma, know.beta)' = Wmy23ShareOf(i, know.gamma, know.beta)
    BY <2>6, <2>7 DEF Wmy23ShareOf, Wmy23Alpha, Others
  <2> QED BY <2>2, <2>3, <2>4, <2>6, <2>7, <2>8, <2>9, <2>10 DEF Wmy23Complete
<1>4. CASE Wmy23Presign
  <2> DEFINE R == Fl(Total(know.Gamma, Signers) * Inv(Wmy23Delta))
  <2>1. Wmy23Delta # 0 /\ Step("wmy23_presign_5", "wmy23_sign", [R |-> R])
    BY <1>4 DEF Wmy23Presign, RefuseFaulty, Return
  <2>2. R = Fl(Total(know.Gamma, Signers) * Inv(Wmy23Delta))
    OBVIOUS
  <2> HIDE DEF R
  <2>3. /\ stage = "wmy23_presign_5" /\ stage' = "wmy23_sign" /\ know'.R = R
        /\ bent' = bent /\ Signers' = Signers
    BY <2>1, StepKeeps
  <2>4. /\ know'.gammaPoly = know.gammaPoly /\ know'.gamma = know.gamma /\ know'.Gamma = know.Gamma
        /\ know'.k = know.k /\ know'.x = know.x /\ know'.nu = know.nu /\ know'.beta = know.beta
        /\ know'.delta = know.delta /\ know'.sigma = know.sigma /\ know'.D = know.D
    BY <2>1, <2>3, StepKeeps DEF Wmy23Known, Has
  <2>5. Secret(know.gammaPoly)' = Secret(know.gammaPoly) /\ Straight' = Straight
        /\ Wmy23Delta' = Wmy23Delta
    BY <2>3, <2>4 DEF Secret, Straight, Wmy23Delta
  <2>6. know.sigma = [i \in Signers |-> Wmy23ShareOf(i, know.x, know.nu)]'
    <3>1. [i \in Signers |-> Wmy23ShareOf(i, know.x, know.nu)]' = [i \in Signers |-> Wmy23ShareOf(i, know.x, know.nu)]
      BY <2>3, <2>4 DEF Wmy23ShareOf, Wmy23Alpha, Others
    <3> QED BY <2>3, <3>1 DEF Wmy23Complete
  <2>7. \A i \in Signers : Wmy23ShareOf(i, know.gamma, know.beta)' = Wmy23ShareOf(i, know.gamma, know.beta)
    BY <2>3, <2>4 DEF Wmy23ShareOf, Wmy23Alpha, Others
  <2> QED BY <2>1, <2>2, <2>3, <2>4, <2>5, <2>6, <2>7 DEF Wmy23Complete
<1>5. CASE Wmy23Finish
  BY <1>5 DEF Wmy23Finish, RefuseFaulty, Return
<1> QED BY <1>1, <1>2, <1>3, <1>4, <1>5 DEF Wmy23SignNext

LEMMA Wmy23Refusals ==
    ASSUME Session, Wmy23Known, Wmy23Equations, Wmy23Complete, Wmy23SignNext, stage' = "ended",
           NEW i \in DOMAIN answer', answer'[i] = Refused
    PROVE  Wmy23Excuse
<1> SUFFICES ASSUME ~Wmy23Excuse PROVE FALSE
  OBVIOUS
<1>0. bent = Straight /\ Wmy23Nonce # 0 /\ Secret(know.gammaPoly) # 0 /\ ~NoSignature(XCoord(Inv(Wmy23Nonce)))
  BY DEF Wmy23Excuse
<1>a. \A j \in Signers : \A where : ~Faulty(j, where) /\ Off(j, where) = 0
  BY <1>0 DEF Faulty, Straight, Off
<1>1. CASE Wmy23Combine
  BY <1>a, <1>1 DEF Wmy23Combine, Step
<1>2. CASE Wmy23Answer
  BY <1>2 DEF Wmy23Answer, Step
<1>3. CASE Wmy23Reveal
  <2>1. stage = "wmy23_presign_4" /\ know.Gamma # know.gamma
    BY <1>a, <1>3 DEF Wmy23Reveal, Step
  <2> QED BY <1>0, <2>1 DEF Wmy23Complete
<1>4. CASE Wmy23Presign
  <2>1. stage = "wmy23_presign_5"
    BY <1>4 DEF Wmy23Presign, RefuseFaulty, Return
  <2>2. /\ know.k \in Ints /\ know.gamma \in Ints /\ know.beta \in PairInts /\ know.delta \in Ints
        /\ know.D \in Ints
    BY <2>1 DEF Wmy23Known, Has
  <2>3. ASSUME NEW j \in Signers PROVE Wmy23Equation2(j)
    <3>1. /\ know.delta[j] = Fl(Wmy23ShareOf(j, know.gamma, know.beta))
          /\ know.D[j] = Fl(Total(know.gamma, Signers) * know.k[j])
      BY <1>0, <2>1 DEF Wmy23Complete
    <3> QED BY <2>2, <3>1, Wmy23Opened
  <2>4. Wmy23Delta # Total(know.D, Signers) \/ Wmy23Delta = 0
    BY <1>4, <2>3, <2>1 DEF Wmy23Presign, Step
  <2> DEFINE K == Wmy23Nonce
             G == Total(know.gamma, Signers)
             d == [j \in Signers |-> Wmy23ShareOf(j, know.gamma, know.beta)]
  <2>5. K = Total(know.k, Signers) /\ K \in Field /\ K \in Int /\ G \in Field /\ G \in Int /\ K # 0 /\ G # 0
    BY <1>0, <2>1, <2>2, IntsType DEF Wmy23Equations, Wmy23Complete, Ints
  <2>6. Wmy23Delta = Fl(K * G)
    <3>1. Total(d, Signers) = Fl(K * G)
      BY <2>2, <2>5, Wmy23Products
    <3>2. \A j \in Signers : d[j] \in Int /\ d[j] = Wmy23ShareOf(j, know.gamma, know.beta)
      BY <2>2, Wmy23ShareType
    <3> HIDE DEF d
    <3>3. \A j \in Signers : know.delta[j] \in Int /\ d[j] \in Int /\ know.delta[j] = Fl(d[j])
      BY <1>0, <2>1, <2>2, <3>2 DEF Wmy23Complete, Ints
    <3>4. \A j \in Signers : know.delta[j] \in Int /\ d[j] \in Int /\ Fl(know.delta[j]) = Fl(d[j])
      BY <3>3, FlInt, FlField
    <3>5. Total(know.delta, Signers) = Total(d, Signers)
      BY Zenon, <3>4, SignersType, TotalSame
    <3> QED BY <3>1, <3>5 DEF Wmy23Delta
  <2>7. Total(know.D, Signers) = Fl(K * G)
    BY <2>1 DEF Wmy23Equations
  <2> HIDE DEF K, G
  <2>8. Fl(K * G) # 0
    BY <2>5, FlIntegral, FlField
  <2> QED BY <2>4, <2>6, <2>7, <2>8
<1>5. CASE Wmy23Finish
  <2>1. stage = "wmy23_sign"
    BY <1>5 DEF Wmy23Finish, RefuseFaulty, Return
  <2>2. /\ know.k \in Ints /\ know.sigma \in Ints /\ know.delta \in Ints /\ know.R \in Field
        /\ Wmy23Delta \in Field
    BY <2>1, IntsType DEF Wmy23Known, Has, Ints, Wmy23Delta
  <2>3. ASSUME NEW j \in Signers PROVE Wmy23Equation3(j)
    BY <1>a, <2>1, <2>2, Wmy23Consistent DEF Wmy23Complete
  <2> DEFINE s == [j \in Signers |-> Wmy23SShare(j)]
             S == Total(s, Signers)
  <2>4. Checked(XCoord(know.R), S) = Refused
    <3>1. Return("wmy23_sign", Everyone(Checked(XCoord(know.R), S)))
      BY <1>5, <2>3 DEF Wmy23Finish
    <3> HIDE DEF S
    <3> QED BY <3>1, EveryoneRefused
  <2> DEFINE R == know.R
             r == XCoord(R)
             K == Wmy23Nonce
             sg == know.sigma
             g == Total(sg, Signers)
             m == digest
  <2>5. /\ R \in Field /\ R \in Int /\ r \in Int /\ m \in Int /\ key \in Int
        /\ K \in Field /\ K \in Int /\ g \in Int /\ sg \in Ints /\ know.k \in Ints
    BY Zenon, <2>2, XCoordType, Operands, IntsType, ScalarsType DEF Wmy23Equations, Ints
  <2>6. Fl(R * K) = 1 /\ g = Fl(K * key) /\ Fl(g) = g /\ Total(know.k, Signers) = K
    BY <2>1, <2>5, FlField, FlInt, IntsType DEF Wmy23Equations, Ints
  <2>7. ASSUME NEW j \in Signers
        PROVE  s[j] \in Int /\ Fl(s[j]) = Fl(m * know.k[j] + r * sg[j])
    <3> DEFINE y == m * know.k[j] + r * sg[j]
    <3>1. y \in Int
      <4>1. know.k[j] \in Int /\ sg[j] \in Int
        BY <2>5 DEF Ints
      <4> HIDE DEF sg, r, m
      <4>2. m * know.k[j] \in Int /\ r * sg[j] \in Int
        BY <2>5, <4>1
      <4> QED BY <4>2
    <3>2. s[j] = Fl(Fl(y) + 0)
      BY <1>a DEF Wmy23SShare
    <3> HIDE DEF y, s
    <3>3. Fl(y) + 0 = Fl(y) /\ Fl(y) \in Int /\ Fl(Fl(y)) = Fl(y)
      BY <3>1, FlInt, FlField
    <3> QED BY <3>2, <3>3 DEF y
  <2>8. S = Fl(m * K + r * g)
    <3>1. /\ m \in Int /\ r \in Int /\ know.k \in Ints /\ sg \in Ints
          /\ \A j \in Signers : s[j] \in Int /\ Fl(s[j]) = Fl(m * know.k[j] + r * sg[j])
      BY <2>5, <2>7
    <3> HIDE DEF s, m, r, sg
    <3>2. Total(s, Signers) = Fl(m * Total(know.k, Signers) + r * Total(sg, Signers))
      BY <3>1, CombinedShares
    <3> QED BY <2>6, <3>2
  <2>9. S \in Field
    <3> HIDE DEF s
    <3> QED BY <2>7, IntsType
  <2>10. R = Inv(K)
    BY <2>5, <2>6, InverseUnique
  <2> HIDE DEF s, S, r, K, sg, g, m, R
  <2>11. SharedSignature(R, K, m, key, g, r, S)
    BY <2>5, <2>6, <2>8 DEF SharedSignature
  <2>12. Fl(S * R) = Fl(m + r * key)
    BY <2>11, NonceInverted
  <2> QED BY <1>0, <2>4, <2>5, <2>9, <2>10, <2>12, CheckedSucceeds DEF r, R, K, m
<1> QED BY <1>1, <1>2, <1>3, <1>4, <1>5 DEF Wmy23SignNext

-----------------------------------------------------------------------------
(* TX25.                                                                    *)

\* What i has revealed for j of its products with everyone's nonce, and of those
\* with everyone's key.
Tx25DeltaEntry(i, j, slope) ==
    Fl(Tx25Products(know.k, know.beta)[i][j] + Tx25ZeroAt(slope, j)
         + IF j = Victim(i) THEN Off(i, "delta") ELSE 0)
Tx25ChiEntry(i, j, slope) ==
    Fl(digest * know.gamma[i] + XCoord(know.R) * know.zeta[i][j] + Tx25ZeroAt(slope, j)
         + IF j = Victim(i) THEN Off(i, "chi") + Off(i, "nonce_and_chi") ELSE 0)

\* Where the products come from, and that any T shares make up the key, and the
\* nonce unless a wrong share of it was dealt or announced.
Tx25Complete ==
    /\ Has("fault", {"none", "sharing", "nonce", "mta", "delta", "chi", "nonce_and_chi"})
    /\ \A S \in SUBSET Signers : Cardinality(S) >= T => Reconstruct(know.x, S) = key
    /\ stage # "tx25_presign_1" /\ know.fault \in {"delta", "chi"} =>
           \A S \in SUBSET Signers : Cardinality(S) >= T => Reconstruct(know.k, S) = Secret(know.kPoly)
    /\ stage \in {"tx25_sign_1", "tx25_sign_2", "tx25_sign_3"} =>
           /\ know.R = Reconstruct(know.k, Signers)
           /\ know.zeta = Tx25Products(know.x, know.nu)
    /\ stage = "tx25_sign_1" => know.delta = Tx25Products(know.k, know.beta)
    /\ stage \in {"tx25_sign_2", "tx25_sign_3"} => \E slope \in Blinds : \A i \in Signers : \A j \in Signers :
           know.delta[i][j] = Tx25DeltaEntry(i, j, slope) /\ know.chi[i][j] = Tx25ChiEntry(i, j, slope)
    /\ stage = "tx25_sign_3" =>
           /\ know.all = Tx25Assembled(Signers)
           /\ know.rest = LET honest == Signers \ Tx25Cheaters
                          IN IF honest # Signers /\ Cardinality(honest) >= T THEN Tx25Assembled(honest) ELSE 0

\* What signers that are not faulty reveal makes up the signature, if they are
\* at least T and what blinds it is not zero.
LEMMA Tx25Signs ==
    ASSUME Session, Tx25Known, Tx25Complete, stage \in {"tx25_sign_2", "tx25_sign_3"},
           NEW S \in SUBSET Signers, Cardinality(S) >= T, Reconstruct(know.k, S) = know.R,
           \A i \in S : Off(i, "delta") = 0 /\ Off(i, "chi") = 0 /\ Off(i, "nonce_and_chi") = 0,
           Reconstruct(know.gamma, S) # 0, know.R # 0
    PROVE  /\ Tx25Assembled(S) \in Field
           /\ Fl(Tx25Assembled(S) * know.R) = Fl(digest + XCoord(know.R) * key)
<1> DEFINE P == Tx25Products(know.k, know.beta)
           ga == know.gamma
           G == Reconstruct(know.gamma, S)
           R == know.R
           r == XCoord(know.R)
           m == digest
           rowD == [i \in S |-> Reconstruct(know.delta[i], S)]
           rowP == [i \in S |-> Reconstruct(P[i], S)]
           rowC == [i \in S |-> Reconstruct(know.chi[i], S)]
           rowZ == [i \in S |-> Reconstruct(know.zeta[i], S)]
           V == Tx25Bilinear(know.zeta, S)
<1>1. /\ know.k \in Ints /\ know.x \in Ints /\ ga \in Ints /\ know.beta \in PairInts /\ know.nu \in PairInts
      /\ know.delta \in [Signers -> Ints] /\ know.chi \in [Signers -> Ints]
      /\ know.zeta \in [Signers -> Ints] /\ R \in Field
  BY DEF Tx25Known, Has
<1>2. /\ R \in Int /\ r \in Int /\ m \in Int /\ key \in Int /\ G \in Field /\ G \in Int
      /\ P \in [Signers -> Ints]
  <2>1. P \in [Signers -> Ints]
    BY <1>1, Tx25ProductsType
  <2>2. \A i \in S : ga[i] \in Int
    BY <1>1 DEF Ints
  <2> HIDE DEF P
  <2>3. G \in Field /\ G \in Int
    BY <2>2, ReconstructInt
  <2> QED BY Zenon, <1>1, <2>1, <2>3, XCoordType, ScalarsType, Operands
<1>3. PICK slope \in Blinds : \A i \in Signers : \A j \in Signers :
        know.delta[i][j] = Tx25DeltaEntry(i, j, slope) /\ know.chi[i][j] = Tx25ChiEntry(i, j, slope)
  BY DEF Tx25Complete
<1>4. \A j \in S : Tx25ZeroAt(slope, j) \in Int
  BY Zenon, Tx25ZeroPolynomial, SignersSubset
<1>5. ASSUME NEW i \in S
      PROVE  /\ rowD[i] = rowP[i] /\ rowP[i] \in Int
             /\ rowC[i] \in Int /\ rowZ[i] \in Int /\ ga[i] \in Int
             /\ Fl(rowC[i]) = Fl(m * ga[i] + r * rowZ[i])
  <2>1. ga[i] \in Int /\ \A j \in S : /\ P[i][j] \in Int /\ know.zeta[i][j] \in Int
                                      /\ know.delta[i][j] \in Int /\ know.chi[i][j] \in Int
    <3> HIDE DEF P
    <3> QED BY <1>1, <1>2 DEF Ints
  <2>2. ASSUME NEW j \in S
        PROVE  Fl(know.delta[i][j]) = Fl(P[i][j] + Tx25ZeroAt(slope, j))
    <3> DEFINE e == P[i][j] + Tx25ZeroAt(slope, j)
    <3>1. know.delta[i][j] = Fl(e + 0)
      BY <1>3 DEF Tx25DeltaEntry
    <3>2. e \in Int
      <4> HIDE DEF P
      <4> QED BY <1>4, <2>1
    <3> HIDE DEF e
    <3>3. know.delta[i][j] = Fl(e) /\ Fl(Fl(e)) = Fl(e)
      BY <3>1, <3>2, FlInt, FlField
    <3> QED BY <3>3 DEF e
  <2> DEFINE c == m * ga[i]
             y == [j \in S |-> c + r * know.zeta[i][j]]
             ones == [j \in S |-> 1]
             Z == Reconstruct(know.zeta[i], S)
  <2>3. c \in Int
    <3> HIDE DEF m, ga
    <3> QED BY <1>2, <2>1
  <2>4. ASSUME NEW j \in S
        PROVE  /\ y[j] \in Int /\ Fl(know.chi[i][j]) = Fl(y[j] + Tx25ZeroAt(slope, j))
               /\ ones[j] = 1 /\ Fl(y[j]) = Fl(c * ones[j] + r * know.zeta[i][j])
    <3>1. know.chi[i][j] = Fl(c + r * know.zeta[i][j] + Tx25ZeroAt(slope, j)
                                + IF j = Victim(i) THEN 0 + 0 ELSE 0)
      BY <1>3 DEF Tx25ChiEntry
    <3> DEFINE rz == r * know.zeta[i][j]
               e == c + rz + Tx25ZeroAt(slope, j)
    <3>2. rz \in Int /\ know.zeta[i][j] \in Int
      <4> HIDE DEF r
      <4> QED BY <1>2, <2>1
    <3>3. know.chi[i][j] = Fl(e + 0) /\ y[j] = c + rz
      BY <3>1
    <3>4. e \in Int /\ c + rz \in Int /\ e = (c + rz) + Tx25ZeroAt(slope, j) /\ c * 1 = c
      <4> HIDE DEF rz, c
      <4> QED BY <1>4, <2>3, <3>2
    <3> HIDE DEF e, c
    <3>5. know.chi[i][j] = Fl(e) /\ Fl(Fl(e)) = Fl(e)
      BY <3>3, <3>4, FlInt, FlField
    <3> QED BY <3>3, <3>4, <3>5
  <2> HIDE DEF P, c, y, ones
  <2>5. Reconstruct(know.delta[i], S) = Reconstruct(P[i], S)
    BY <2>1, <2>2, Tx25ZeroVanishes
  <2>6. Reconstruct(know.chi[i], S) = Reconstruct(y, S)
    BY <2>1, <2>4, Tx25ZeroVanishes
  <2>7. Z \in Int /\ Reconstruct(P[i], S) \in Int /\ Reconstruct(know.chi[i], S) \in Int
    BY <2>1, ReconstructInt
  <2>8. Reconstruct(ones, S) = 1
    BY <2>4, SignersSubset, ReconstructOnes
  <2>9. Reconstruct(y, S) = Fl(c * 1 + r * Z)
    <3>1. \A j \in S : /\ ones[j] \in Int /\ know.zeta[i][j] \in Int /\ y[j] \in Int
                       /\ Fl(y[j]) = Fl(c * ones[j] + r * know.zeta[i][j])
      BY <2>1, <2>4
    <3> HIDE DEF r
    <3>2. Reconstruct(y, S) = Fl(c * Reconstruct(ones, S) + r * Reconstruct(know.zeta[i], S))
      BY <1>2, <2>3, <3>1, SignersSubset, ReconstructLinear
    <3> QED BY <2>8, <3>2
  <2>10. Fl(Reconstruct(know.chi[i], S)) = Fl(c + r * Z)
    <3> DEFINE e == c + r * Z
    <3>1. e \in Int /\ c * 1 = c
      <4> HIDE DEF r, Z
      <4>1. r * Z \in Int
        BY <1>2, <2>7
      <4> QED BY <2>3, <4>1
    <3>2. Reconstruct(know.chi[i], S) = Fl(e)
      BY <2>6, <2>9, <3>1
    <3> HIDE DEF e
    <3> QED BY <3>1, <3>2, FlInt, FlField DEF e
  <2> QED BY <2>1, <2>5, <2>7, <2>10 DEF c
<1>6. Tx25Denominator(S) = Fl(G * R)
  <2>1. rowD = rowP
    BY <1>5
  <2>2. Tx25Denominator(S) = Tx25Bilinear(P, S)
    BY <2>1 DEF Tx25Denominator, Tx25Bilinear
  <2> HIDE DEF rowD, rowP, P
  <2>3. Tx25Bilinear(P, S) = Fl(G * Reconstruct(know.k, S))
    BY <1>1, Tx25MasksCancel DEF P
  <2> QED BY <2>2, <2>3
<1>7. V = Fl(G * key)
  <2>1. Reconstruct(know.x, S) = key /\ know.zeta = Tx25Products(know.x, know.nu)
    BY DEF Tx25Complete
  <2> QED BY <1>1, <2>1, Tx25MasksCancel
<1>8. Tx25Numerator(S) = Fl(m * G + r * V)
  <2>1. Tx25Numerator(S) = Reconstruct(rowC, S) /\ V = Reconstruct(rowZ, S)
    BY DEF Tx25Numerator, Tx25Bilinear
  <2>2. \A i \in S : /\ ga[i] \in Int /\ rowZ[i] \in Int /\ rowC[i] \in Int
                     /\ Fl(rowC[i]) = Fl(m * ga[i] + r * rowZ[i])
    BY <1>5
  <2> HIDE DEF rowC, rowZ, m, r, ga, V, G
  <2>3. Reconstruct(rowC, S) = Fl(m * Reconstruct(ga, S) + r * Reconstruct(rowZ, S))
    BY <1>2, <2>2, SignersSubset, ReconstructLinear
  <2> QED BY <2>1, <2>3 DEF G, ga
<1> DEFINE U == Tx25Denominator(S)
           W == Tx25Numerator(S)
<1> HIDE DEF P, rowD, rowP, rowC, rowZ, V, r, ga
<1>9. U \in Field /\ U # 0
  <2> HIDE DEF G, R
  <2>1. Fl(G) # 0 /\ Fl(R) # 0
    BY <1>1, <1>2, FlField DEF R, G
  <2>2. Fl(G * R) # 0
    BY <1>2, <2>1, FlIntegral
  <2>3. G * R \in Int
    BY <1>2
  <2> QED BY <1>6, <2>2, <2>3, FlType
<1>10. V \in Int /\ Fl(V) = V /\ W \in Int /\ Fl(W) = W
  <2> HIDE DEF G, m
  <2>1. G * key \in Int /\ m * G \in Int
    BY <1>2
  <2>2. V \in Int /\ V \in Field
    BY <1>7, <2>1, FlInt
  <2>3. r * V \in Int
    BY <1>2, <2>2
  <2> DEFINE mg == m * G
             rv == r * V
  <2>4. mg + rv \in Int
    BY <2>1, <2>3
  <2> HIDE DEF mg, rv
  <2>5. W \in Int /\ W \in Field
    BY <1>8, <2>4, FlInt DEF mg, rv
  <2> QED BY <2>2, <2>5, FlField
<1>11. MaskedSignature(R, G, key, m, r, U, V, W)
  <2> HIDE DEF U, W, R, G, m
  <2> QED BY <1>2, <1>6, <1>7, <1>8, <1>9, <1>10 DEF MaskedSignature, U, W
<1>12. Fl(Fl(W * Inv(U)) * R) = Fl(m + r * key)
  <2> HIDE DEF U, W, R, G, m
  <2> QED BY <1>11, MaskDividedOut
<1>13. Tx25Assembled(S) = Fl(W * Inv(U))
  BY <1>9 DEF Tx25Assembled
<1>14. Tx25Assembled(S) \in Field
  BY <1>1, Tx25AssembledType
<1> QED BY <1>12, <1>13, <1>14 DEF r

LEMMA Tx25CompleteBegin ==
    ASSUME NEW f \in Sharings, key = f[0], Tx25SignBegin(f)
    PROVE  Tx25Complete
<1>1. PICK k \in [Signers -> Scalars], gamma \in [Signers -> Blinds], slope \in Blinds,
           fault \in Faults({"sharing", "nonce", "mta", "delta", "chi", "nonce_and_chi"}) :
         know = [kPoly |-> [i \in Signers |-> [d \in 0 .. T - 1 |-> IF d = 0 THEN k[i] ELSE slope]],
                 gamma |-> gamma, fault |-> fault, x |-> [i \in Signers |-> Eval(f, i)]]
  BY Zenon DEF Tx25SignBegin
<1> DEFINE x == [i \in Signers |-> Eval(f, i)]
<1>2. know.x = x /\ know.fault = fault /\ "fault" \in DOMAIN know
  BY <1>1
<1>3. fault \in {"none", "sharing", "nonce", "mta", "delta", "chi", "nonce_and_chi"}
  BY DEF Faults
<1>4. ASSUME NEW S \in SUBSET Signers, Cardinality(S) >= T
      PROVE  Reconstruct(x, S) = key
  <2>1. f \in Polynomials(T) /\ \A i \in S : x[i] = Eval(f, i)
    BY SigningAssumption
  <2> HIDE DEF x
  <2> QED BY <1>4, <2>1, SignersSubset, Interpolation
<1>5. stage = "tx25_presign_1"
  BY DEF Tx25SignBegin
<1> HIDE DEF x
<1> QED BY <1>2, <1>3, <1>4, <1>5 DEF Tx25Complete, Has

LEMMA Tx25CompleteStep ==
    ASSUME Session, Tx25Known, Tx25Complete, Tx25SignNext, stage' # "ended"
    PROVE  Tx25Complete'
<1>1. CASE Tx25Combine
  <2> DEFINE k == [i \in Signers |-> Fl(SharesDealt(know.kPoly, i) + Off(i, "nonce") + Off(i, "nonce_and_chi"))]
  <2>1. PICK m1 \in Scalars, m2 \in Blinds :
          Step("tx25_presign_1", "tx25_presign_2",
               [k |-> k, beta |-> [p \in Pairs |-> m1], nu |-> [p \in Pairs |-> m2]])
    BY <1>1 DEF Tx25Combine, RefuseFaulty, Return
  <2> DEFINE beta == [p \in Pairs |-> m1]
             nu == [p \in Pairs |-> m2]
  <2>2. Step("tx25_presign_1", "tx25_presign_2", [k |-> k, beta |-> beta, nu |-> nu])
    BY <2>1
  <2>3. stage = "tx25_presign_1" /\ know.kPoly \in [Signers -> Polynomials(T)]
    BY <2>2 DEF Step, Tx25Known, Has
  <2>4. ASSUME know.fault \in {"delta", "chi"}, NEW i \in Signers
        PROVE  k[i] = Dealers(know.kPoly, i)
    <3> DEFINE D == Dealers(know.kPoly, i)
               off == [d \in Signers |-> IF i = Victim(d) THEN Off(d, "sharing") ELSE 0]
    <3>1. D \in Field /\ D \in Int
      BY <2>3, SignersType, DealersType
    <3>2. \A d \in Signers : off[d] = 0
      BY <2>4 DEF Off
    <3>3. k[i] = Fl(Fl(D + Total(off, Signers)) + 0 + 0)
      BY <2>4 DEF SharesDealt, Off
    <3> HIDE DEF D, off, k
    <3>4. Total(off, Signers) = 0
      <4>1. SumFunctionOnSet(off, Signers) = 0
        BY Zenon, <3>2, SignersType, SumZero
      <4>2. Fl(0) = 0
        BY QAssumption, FlField DEF Field
      <4> QED BY <4>1, <4>2 DEF Total
    <3>5. Fl(D + 0) = D /\ Fl(D + 0 + 0) = D
      <4>1. D + 0 = D /\ D + 0 + 0 = D
        BY <3>1
      <4> QED BY <3>1, <4>1, FlField
    <3> QED BY <3>3, <3>4, <3>5 DEF D
  <2>5. ASSUME know.fault \in {"delta", "chi"}, NEW S \in SUBSET Signers, Cardinality(S) >= T
        PROVE  Reconstruct(k, S) = Secret(know.kPoly)
    <3>1. \A i \in S : k[i] = Dealers(know.kPoly, i)
      BY <2>4, <2>5
    <3> HIDE DEF k
    <3> QED BY <2>3, <2>5, <3>1, SignersSubset, DealersInterpolate
  <2> HIDE DEF k, beta, nu
  <2>6. stage' = "tx25_presign_2" /\ key' = key /\ Signers' = Signers /\ know'.k = k
    BY <2>2, StepKeeps
  <2>7. know'.x = know.x /\ know'.kPoly = know.kPoly
    BY <2>2, <2>3, StepKeeps DEF Tx25Known, Has
  <2>8. "fault" \in DOMAIN know' /\ know'.fault = know.fault
    BY <2>2, StepKeeps DEF Tx25Complete, Has
  <2>9. Secret(know.kPoly)' = Secret(know.kPoly)
    BY <2>6, <2>7 DEF Secret
  <2>10. \A S \in SUBSET Signers : Reconstruct(know.x, S)' = Reconstruct(know.x, S)
    BY <2>7
  <2>11. \A S \in SUBSET Signers : Reconstruct(know.k, S)' = Reconstruct(k, S)
    BY <2>6
  <2> QED BY <2>5, <2>6, <2>8, <2>9, <2>10, <2>11 DEF Tx25Complete, Has
<1>2. CASE Tx25Presign
  <2> DEFINE delta == Tx25Products(know.k, know.beta)
             zeta == Tx25Products(know.x, know.nu)
             R == Reconstruct(know.k, Signers)
  <2>1. Step("tx25_presign_2", "tx25_sign_1", [delta |-> delta, zeta |-> zeta, R |-> R])
    BY <1>2 DEF Tx25Presign, RefuseFaulty, Return
  <2>e. delta = Tx25Products(know.k, know.beta) /\ zeta = Tx25Products(know.x, know.nu)
        /\ R = Reconstruct(know.k, Signers)
    OBVIOUS
  <2> HIDE DEF delta, zeta, R
  <2>2. /\ stage = "tx25_presign_2" /\ stage' = "tx25_sign_1" /\ key' = key /\ Signers' = Signers
        /\ know'.delta = delta /\ know'.zeta = zeta /\ know'.R = R
    BY <2>1, StepKeeps
  <2>3. /\ know'.x = know.x /\ know'.kPoly = know.kPoly /\ know'.k = know.k /\ know'.gamma = know.gamma
        /\ know'.beta = know.beta /\ know'.nu = know.nu
    BY <2>1, <2>2, StepKeeps DEF Tx25Known, Has
  <2>4. "fault" \in DOMAIN know' /\ know'.fault = know.fault
    BY <2>1, StepKeeps DEF Tx25Complete, Has
  <2>5. /\ Secret(know.kPoly)' = Secret(know.kPoly)
        /\ \A S \in SUBSET Signers : Reconstruct(know.x, S)' = Reconstruct(know.x, S)
        /\ \A S \in SUBSET Signers : Reconstruct(know.k, S)' = Reconstruct(know.k, S)
        /\ Tx25Products(know.k, know.beta)' = Tx25Products(know.k, know.beta)
        /\ Tx25Products(know.x, know.nu)' = Tx25Products(know.x, know.nu)
    BY <2>2, <2>3 DEF Secret, Tx25Products
  <2>6. Reconstruct(know.k, Signers)' = R
    BY <2>2, <2>3, <2>e
  <2> QED BY <2>2, <2>4, <2>5, <2>6, <2>e DEF Tx25Complete, Has
<1>3. CASE Tx25Broadcast
  <2> DEFINE delta(slope) == [i \in Signers |-> [j \in Signers |->
              Fl(know.delta[i][j] + Tx25ZeroAt(slope, j) + IF j = Victim(i) THEN Off(i, "delta") ELSE 0)]]
             chi(slope) == [i \in Signers |-> [j \in Signers |->
              Fl(digest * know.gamma[i] + XCoord(know.R) * know.zeta[i][j] + Tx25ZeroAt(slope, j)
                 + IF j = Victim(i) THEN Off(i, "chi") + Off(i, "nonce_and_chi") ELSE 0)]]
  <2>1. PICK slope \in Blinds :
          Step("tx25_sign_1", "tx25_sign_2", [delta |-> delta(slope), chi |-> chi(slope)])
    BY Zenon, <1>3 DEF Tx25Broadcast
  <2>2. stage = "tx25_sign_1" /\ know.delta = Tx25Products(know.k, know.beta)
    BY <2>1 DEF Step, Tx25Complete
  <2>3. \A i \in Signers : \A j \in Signers : /\ delta(slope)[i][j] = Tx25DeltaEntry(i, j, slope)
                                              /\ chi(slope)[i][j] = Tx25ChiEntry(i, j, slope)
    BY <2>2 DEF Tx25DeltaEntry, Tx25ChiEntry
  <2> HIDE DEF delta, chi
  <2>4. /\ stage' = "tx25_sign_2" /\ key' = key /\ digest' = digest /\ bent' = bent /\ Signers' = Signers
        /\ know'.delta = delta(slope) /\ know'.chi = chi(slope)
    BY <2>1, StepKeeps
  <2>5. /\ know'.x = know.x /\ know'.kPoly = know.kPoly /\ know'.k = know.k /\ know'.gamma = know.gamma
        /\ know'.beta = know.beta /\ know'.nu = know.nu /\ know'.zeta = know.zeta /\ know'.R = know.R
    BY <2>1, <2>2, StepKeeps DEF Tx25Known, Has
  <2>6. "fault" \in DOMAIN know' /\ know'.fault = know.fault
    BY <2>1, StepKeeps DEF Tx25Complete, Has
  <2>7. /\ Secret(know.kPoly)' = Secret(know.kPoly)
        /\ \A S \in SUBSET Signers : Reconstruct(know.x, S)' = Reconstruct(know.x, S)
        /\ \A S \in SUBSET Signers : Reconstruct(know.k, S)' = Reconstruct(know.k, S)
        /\ Tx25Products(know.x, know.nu)' = Tx25Products(know.x, know.nu)
        /\ Reconstruct(know.k, Signers)' = Reconstruct(know.k, Signers)
    BY <2>4, <2>5 DEF Secret, Tx25Products
  <2>8. P1' = P1 /\ P2' = P2
    BY <2>1, SameTwo DEF Step
  <2>9. ASSUME NEW i \in Signers, NEW j \in Signers
        PROVE  /\ Tx25DeltaEntry(i, j, slope)' = Tx25DeltaEntry(i, j, slope)
               /\ Tx25ChiEntry(i, j, slope)' = Tx25ChiEntry(i, j, slope)
    <3>1. /\ Victim(i)' = Victim(i)
          /\ Off(i, "delta")' = Off(i, "delta") /\ Off(i, "chi")' = Off(i, "chi")
          /\ Off(i, "nonce_and_chi")' = Off(i, "nonce_and_chi")
      BY <2>4, <2>6, <2>8 DEF Victim, Off
    <3>2. Tx25Products(know.k, know.beta)' = Tx25Products(know.k, know.beta)
      BY <2>4, <2>5 DEF Tx25Products
    <3> QED BY <2>4, <2>5, <3>1, <3>2 DEF Tx25DeltaEntry, Tx25ChiEntry
  <2>10. \A i \in Signers : \A j \in Signers : /\ know'.delta[i][j] = Tx25DeltaEntry(i, j, slope)'
                                               /\ know'.chi[i][j] = Tx25ChiEntry(i, j, slope)'
    BY <2>3, <2>4, <2>9
  <2>11. (\E z \in Blinds : \A i \in Signers : \A j \in Signers :
            know.delta[i][j] = Tx25DeltaEntry(i, j, z) /\ know.chi[i][j] = Tx25ChiEntry(i, j, z))'
    BY <2>4, <2>10
  <2> QED BY <2>2, <2>4, <2>5, <2>6, <2>7, <2>11 DEF Tx25Complete, Has
<1>4. CASE Tx25Assemble
  <2> DEFINE all == Tx25Assembled(Signers)
             honest == Signers \ Tx25Cheaters
             rest == IF honest # Signers /\ Cardinality(honest) >= T THEN Tx25Assembled(honest) ELSE 0
  <2>1. Step("tx25_sign_2", "tx25_sign_3", [all |-> all, rest |-> rest])
    BY <1>4 DEF Tx25Assemble
  <2>2. all = Tx25Assembled(Signers)
        /\ rest = LET h == Signers \ Tx25Cheaters
                  IN IF h # Signers /\ Cardinality(h) >= T THEN Tx25Assembled(h) ELSE 0
    OBVIOUS
  <2> HIDE DEF all, rest
  <2>3. /\ stage = "tx25_sign_2" /\ stage' = "tx25_sign_3" /\ key' = key /\ digest' = digest /\ bent' = bent
        /\ Signers' = Signers /\ Pairs' = Pairs /\ know'.all = all /\ know'.rest = rest
    BY <2>1, StepKeeps
  <2>4. /\ know'.x = know.x /\ know'.kPoly = know.kPoly /\ know'.k = know.k /\ know'.gamma = know.gamma
        /\ know'.beta = know.beta /\ know'.nu = know.nu /\ know'.zeta = know.zeta /\ know'.R = know.R
        /\ know'.delta = know.delta /\ know'.chi = know.chi
    BY <2>1, <2>3, StepKeeps DEF Tx25Known, Has
  <2>5. "fault" \in DOMAIN know' /\ know'.fault = know.fault
    BY <2>1, StepKeeps DEF Tx25Complete, Has
  <2>6. /\ Secret(know.kPoly)' = Secret(know.kPoly)
        /\ \A S \in SUBSET Signers : Reconstruct(know.x, S)' = Reconstruct(know.x, S)
        /\ \A S \in SUBSET Signers : Reconstruct(know.k, S)' = Reconstruct(know.k, S)
        /\ Tx25Products(know.x, know.nu)' = Tx25Products(know.x, know.nu)
        /\ Reconstruct(know.k, Signers)' = Reconstruct(know.k, Signers)
    BY <2>3, <2>4 DEF Secret, Tx25Products
  <2>7. P1' = P1 /\ P2' = P2
    BY <2>1, SameTwo DEF Step
  <2>8. PICK slope \in Blinds : \A i \in Signers : \A j \in Signers :
          know.delta[i][j] = Tx25DeltaEntry(i, j, slope) /\ know.chi[i][j] = Tx25ChiEntry(i, j, slope)
    BY <2>3 DEF Tx25Complete
  <2>9. ASSUME NEW i \in Signers, NEW j \in Signers
        PROVE  /\ Tx25DeltaEntry(i, j, slope)' = Tx25DeltaEntry(i, j, slope)
               /\ Tx25ChiEntry(i, j, slope)' = Tx25ChiEntry(i, j, slope)
    <3>1. /\ Victim(i)' = Victim(i)
          /\ Off(i, "delta")' = Off(i, "delta") /\ Off(i, "chi")' = Off(i, "chi")
          /\ Off(i, "nonce_and_chi")' = Off(i, "nonce_and_chi")
      BY <2>3, <2>5, <2>7 DEF Victim, Off
    <3>2. Tx25Products(know.k, know.beta)' = Tx25Products(know.k, know.beta)
      BY <2>3, <2>4 DEF Tx25Products
    <3> QED BY <2>3, <2>4, <3>1, <3>2 DEF Tx25DeltaEntry, Tx25ChiEntry
  <2>10. (\E z \in Blinds : \A i \in Signers : \A j \in Signers :
            know.delta[i][j] = Tx25DeltaEntry(i, j, z) /\ know.chi[i][j] = Tx25ChiEntry(i, j, z))'
    <3>1. \A i \in Signers : \A j \in Signers : /\ know'.delta[i][j] = Tx25DeltaEntry(i, j, slope)'
                                                /\ know'.chi[i][j] = Tx25ChiEntry(i, j, slope)'
      BY <2>4, <2>8, <2>9
    <3> QED BY <2>3, <3>1
  <2>11. Tx25Cheaters' = Tx25Cheaters
    <3>1. \A j \in Signers : /\ Tx25Recomputed(j, know.beta, know.delta[j])' = Tx25Recomputed(j, know.beta, know.delta[j])
                             /\ Tx25Recomputed(j, [p \in Pairs |-> Fl(know.nu[p] * XCoord(know.R))], know.chi[j])'
                                  = Tx25Recomputed(j, [p \in Pairs |-> Fl(know.nu[p] * XCoord(know.R))], know.chi[j])
      BY <2>3, <2>4 DEF Tx25Recomputed
    <3> QED BY <2>3, <2>4, <3>1 DEF Tx25Cheaters
  <2>12. \A S \in SUBSET Signers : Tx25Assembled(S)' = Tx25Assembled(S)
    <3>1. \A S \in SUBSET Signers : Tx25Numerator(S)' = Tx25Numerator(S) /\ Tx25Denominator(S)' = Tx25Denominator(S)
      BY <2>4 DEF Tx25Numerator, Tx25Denominator, Tx25Bilinear
    <3> QED BY <3>1 DEF Tx25Assembled
  <2>13. know'.all = Tx25Assembled(Signers)'
    BY <2>2, <2>3, <2>12
  <2>14. know'.rest = (LET h == Signers \ Tx25Cheaters
                       IN IF h # Signers /\ Cardinality(h) >= T THEN Tx25Assembled(h) ELSE 0)'
    <3> DEFINE h == Signers \ Tx25Cheaters
    <3>1. (Signers \ Tx25Cheaters)' = h /\ Tx25Assembled(Signers \ Tx25Cheaters)' = Tx25Assembled(h)
      <4>1. (Signers \ Tx25Cheaters)' = h /\ h \in SUBSET Signers
        BY <2>3, <2>11
      <4> QED BY Zenon, <2>12, <4>1 DEF Tx25Assembled, Tx25Numerator, Tx25Denominator, Tx25Bilinear
    <3> QED BY <2>2, <2>3, <3>1
  <2> QED BY <2>3, <2>4, <2>5, <2>6, <2>10, <2>13, <2>14 DEF Tx25Complete, Has
<1>5. CASE Tx25Finish
  BY <1>5 DEF Tx25Finish, Return
<1> QED BY <1>1, <1>2, <1>3, <1>4, <1>5 DEF Tx25SignNext

\* The signers whose products are wrong, and only they, are identified.
LEMMA Tx25CheatersFound ==
    ASSUME Session, Cardinality(Signers) >= 2, Tx25Known, Tx25Complete,
           stage \in {"tx25_sign_2", "tx25_sign_3"}, know.fault \in {"delta", "chi"}
    PROVE  Signers \ Tx25Cheaters = Tx25Left
<1> DEFINE P == Tx25Products(know.k, know.beta)
           R == know.R
           r == XCoord(know.R)
           m == digest
           maskC == [p \in Pairs |-> Fl(know.nu[p] * r)]
<1>1. /\ know.k \in Ints /\ know.x \in Ints /\ know.gamma \in Ints
      /\ know.beta \in PairInts /\ know.nu \in PairInts
      /\ know.delta \in [Signers -> Ints] /\ know.chi \in [Signers -> Ints]
      /\ know.zeta \in [Signers -> Ints] /\ R \in Field
  BY DEF Tx25Known, Has
<1>2. /\ R \in Int /\ r \in Int /\ m \in Int /\ key \in Int /\ Cardinality(Signers) >= T
  BY Zenon, <1>1, XCoordType, ScalarsType, Operands, SignersType
<1>3. PICK slope \in Blinds : \A i \in Signers : \A j \in Signers :
        know.delta[i][j] = Tx25DeltaEntry(i, j, slope) /\ know.chi[i][j] = Tx25ChiEntry(i, j, slope)
  BY DEF Tx25Complete
<1>4. \A n \in Signers : Tx25ZeroAt(slope, n) \in Int
  BY Zenon, Tx25ZeroPolynomial, SignersType
<1>5. Reconstruct(know.k, Signers) = R /\ Reconstruct(know.x, Signers) = key
      /\ know.zeta = Tx25Products(know.x, know.nu)
  BY <1>2 DEF Tx25Complete
<1>6. ASSUME NEW j \in Signers
      PROVE  j \in Tx25Cheaters <=> bent[j] # 0
  <2> DEFINE v == Victim(j)
             ga == know.gamma[j]
             eD == Off(j, "delta")
             eC == Off(j, "chi") + Off(j, "nonce_and_chi")
             c == m * ga
             gr == ga * r
             yD == [n \in Signers |-> ga * know.k[n]]
             bD == [n \in Signers |-> ga * know.k[n] + Tx25ZeroAt(slope, n)]
             yC == [n \in Signers |-> c + r * (ga * know.x[n])]
             bC == [n \in Signers |-> (c + r * (ga * know.x[n])) + Tx25ZeroAt(slope, n)]
             one == [n \in Signers |-> 1]
  <2>1. /\ v \in Signers /\ ga \in Int /\ eD \in Int /\ eC \in Int /\ c \in Int /\ gr \in Int
        /\ bent[j] \in Field
    <3>1. v \in Signers
      BY Two DEF Victim
    <3>2. ga \in Int /\ bent[j] \in Field
      BY <1>1 DEF Ints, Session
    <3>3. eD \in Int /\ Off(j, "chi") \in Int /\ Off(j, "nonce_and_chi") \in Int
      BY OffType
    <3>4. eC \in Int
      BY <3>3
    <3>5. c \in Int /\ gr \in Int
      <4> HIDE DEF m, r, ga
      <4> QED BY <1>2, <3>2
    <3> QED BY <3>1, <3>2, <3>3, <3>4, <3>5
  <2>2. ASSUME NEW n \in Signers
        PROVE  \E p, q \in Int :
                 /\ P[j][n] = Fl(ga * know.k[n] + Neg(p) + q)
                 /\ (IF n = j THEN 0 ELSE know.beta[<<n, j>>] + Neg(know.beta[<<j, n>>])) = p + Neg(q)
    <3>1. CASE n = j
      <4>1. Neg(0) = 0
        BY NegField, QAssumption DEF Field
      <4>2. P[j][n] = Fl(ga * know.k[n])
        BY <3>1 DEF Tx25Products
      <4>3. ga * know.k[n] + Neg(0) + 0 = ga * know.k[n]
        <5>1. ga * know.k[n] \in Int
          <6>1. know.k[n] \in Int
            BY <1>1 DEF Ints
          <6> HIDE DEF ga
          <6> QED BY <2>1, <6>1
        <5> QED BY <4>1, <5>1
      <4>4. 0 \in Int /\ 0 + Neg(0) = 0
        BY <4>1
      <4> HIDE DEF P, ga
      <4> QED BY <3>1, <4>2, <4>3, <4>4
    <3>2. CASE n # j
      <4>1. <<n, j>> \in Pairs /\ <<j, n>> \in Pairs
        BY <3>2 DEF Pairs
      <4>2. know.beta[<<n, j>>] \in Int /\ know.beta[<<j, n>>] \in Int
        BY <1>1, <4>1 DEF PairInts
      <4>3. P[j][n] = Fl(ga * know.k[n] + Neg(know.beta[<<n, j>>]) + know.beta[<<j, n>>])
        BY <3>2 DEF Tx25Products
      <4> HIDE DEF P, ga
      <4> QED BY <3>2, <4>2, <4>3
    <3> QED BY <3>1, <3>2
  <2>3. ASSUME NEW n \in Signers
        PROVE  \E p, q \in Int :
                 /\ know.zeta[j][n] = Fl(ga * know.x[n] + Neg(p) + q)
                 /\ (IF n = j THEN 0 ELSE maskC[<<n, j>>] + Neg(maskC[<<j, n>>])) = Fl(p * r) + Neg(Fl(q * r))
    <3>1. CASE n = j
      <4>1. Neg(0) = 0 /\ Fl(0) = 0
        BY NegField, FlField, QAssumption DEF Field
      <4>2. know.zeta[j][n] = Fl(ga * know.x[n])
        BY <1>5, <3>1 DEF Tx25Products
      <4>3. ga * know.x[n] + Neg(0) + 0 = ga * know.x[n]
        <5>1. ga * know.x[n] \in Int
          <6>1. know.x[n] \in Int
            BY <1>1 DEF Ints
          <6> HIDE DEF ga
          <6> QED BY <2>1, <6>1
        <5> QED BY <4>1, <5>1
      <4>4. 0 \in Int /\ Fl(0 * r) + Neg(Fl(0 * r)) = 0
        <5>1. 0 * r = 0
          <6> HIDE DEF r
          <6> QED BY <1>2
        <5> QED BY <4>1, <5>1
      <4> HIDE DEF ga, r, maskC
      <4> QED BY <3>1, <4>2, <4>3, <4>4
    <3>2. CASE n # j
      <4>1. <<n, j>> \in Pairs /\ <<j, n>> \in Pairs
        BY <3>2 DEF Pairs
      <4>2. know.nu[<<n, j>>] \in Int /\ know.nu[<<j, n>>] \in Int
        BY <1>1, <4>1 DEF PairInts
      <4>3. know.zeta[j][n] = Fl(ga * know.x[n] + Neg(know.nu[<<n, j>>]) + know.nu[<<j, n>>])
        BY <1>5, <3>2 DEF Tx25Products
      <4>4. maskC[<<n, j>>] = Fl(know.nu[<<n, j>>] * r) /\ maskC[<<j, n>>] = Fl(know.nu[<<j, n>>] * r)
        BY <4>1
      <4> HIDE DEF ga, r, maskC
      <4> QED BY <3>2, <4>2, <4>3, <4>4
    <3> QED BY <3>1, <3>2
  <2>4. ASSUME NEW n \in Signers
        PROVE  /\ know.delta[j][n] = Fl(P[j][n] + Tx25ZeroAt(slope, n) + IF n = v THEN eD ELSE 0)
               /\ know.chi[j][n] = Fl(c + r * know.zeta[j][n] + Tx25ZeroAt(slope, n) + IF n = v THEN eC ELSE 0)
    BY <1>3 DEF Tx25DeltaEntry, Tx25ChiEntry
  <2>5. ASSUME NEW n \in Signers
        PROVE  /\ know.k[n] \in Int /\ know.x[n] \in Int
               /\ ga * know.k[n] \in Int /\ ga * know.x[n] \in Int /\ r * (ga * know.x[n]) \in Int
               /\ c + r * (ga * know.x[n]) = c * 1 + gr * know.x[n]
    <3>1. know.k[n] \in Int /\ know.x[n] \in Int
      BY <1>1 DEF Ints
    <3>2. gr * know.x[n] = r * (ga * know.x[n])
      <4> HIDE DEF ga, r
      <4> QED BY <1>2, <2>1, <3>1
    <3>3. ga * know.k[n] \in Int /\ ga * know.x[n] \in Int
      <4> HIDE DEF ga
      <4> QED BY <2>1, <3>1
    <3>4. r * (ga * know.x[n]) \in Int
      <4> DEFINE gx == ga * know.x[n]
      <4> HIDE DEF gx, r
      <4>1. gx \in Int
        BY <3>3 DEF gx
      <4> QED BY <1>2, <4>1 DEF gx
    <3>5. c * 1 = c
      <4> HIDE DEF c
      <4> QED BY <2>1
    <3> QED BY <3>1, <3>2, <3>3, <3>4, <3>5
  <2>6. \A n \in Signers :
          /\ bD[n] = ga * know.k[n] + Tx25ZeroAt(slope, n) /\ yD[n] = ga * know.k[n]
          /\ bC[n] = (c + r * (ga * know.x[n])) + Tx25ZeroAt(slope, n) /\ yC[n] = c + r * (ga * know.x[n])
          /\ one[n] = 1
    OBVIOUS
  <2>7. maskC \in PairInts
    <3>1. ASSUME NEW p \in Pairs PROVE Fl(know.nu[p] * r) \in Int
      <4>1. know.nu[p] \in Int
        BY <1>1 DEF PairInts
      <4> HIDE DEF r
      <4>2. know.nu[p] * r \in Int
        BY <1>2, <4>1
      <4> QED BY <4>2, FlInt
    <3> QED BY <3>1 DEF PairInts
  <2>8. /\ know.delta[j] \in Ints /\ know.chi[j] \in Ints
        /\ \A n \in Signers : know.delta[j][n] \in Int /\ know.chi[j][n] \in Int
    BY <1>1 DEF Ints
  <2> HIDE DEF P, v, ga, eD, eC, c, gr, yD, bD, yC, bC, one, r, m, R, maskC
  <2>9. Tx25Checked(j, know.beta, know.delta[j], bD, v, eD)
    <3> SUFFICES ASSUME NEW n \in Signers
                 PROVE  /\ bD[n] \in Int /\ know.delta[j][n] \in Int
                        /\ Fl(know.delta[j][n] + IF n = j THEN 0 ELSE know.beta[<<n, j>>] + Neg(know.beta[<<j, n>>]))
                             = Fl(bD[n] + IF n = v THEN eD ELSE 0)
      BY <1>1, <2>1 DEF Tx25Checked
    <3>1. PICK p \in Int, q \in Int :
                 /\ P[j][n] = Fl(ga * know.k[n] + Neg(p) + q)
                 /\ (IF n = j THEN 0 ELSE know.beta[<<n, j>>] + Neg(know.beta[<<j, n>>])) = p + Neg(q)
      BY <2>2
    <3> DEFINE y == ga * know.k[n]
               z == Tx25ZeroAt(slope, n)
               e == IF n = v THEN eD ELSE 0
    <3>2. y \in Int /\ z \in Int /\ e \in Int
      BY <1>4, <2>1, <2>5
    <3>3. know.delta[j][n] = Fl(Fl(y + Neg(p) + q) + z + e) /\ bD[n] = y + z
      BY <2>4, <2>6, <3>1
    <3> HIDE DEF y, z, e
    <3>4. Fl(Fl(Fl(y + Neg(p) + q) + z + e) + (p + Neg(q))) = Fl((y + z) + e)
      BY <3>2, Unmasked
    <3>5. bD[n] \in Int
      BY <3>2, <3>3
    <3> QED BY <2>8, <3>1, <3>3, <3>4, <3>5 DEF e
  <2>10. Tx25Checked(j, maskC, know.chi[j], bC, v, eC)
    <3> SUFFICES ASSUME NEW n \in Signers
                 PROVE  /\ bC[n] \in Int /\ know.chi[j][n] \in Int
                        /\ Fl(know.chi[j][n] + IF n = j THEN 0 ELSE maskC[<<n, j>>] + Neg(maskC[<<j, n>>]))
                             = Fl(bC[n] + IF n = v THEN eC ELSE 0)
      BY <2>1, <2>7 DEF Tx25Checked
    <3>1. PICK p \in Int, q \in Int :
                 /\ know.zeta[j][n] = Fl(ga * know.x[n] + Neg(p) + q)
                 /\ (IF n = j THEN 0 ELSE maskC[<<n, j>>] + Neg(maskC[<<j, n>>])) = Fl(p * r) + Neg(Fl(q * r))
      BY <2>3
    <3> DEFINE y == ga * know.x[n]
               z == Tx25ZeroAt(slope, n)
               e == IF n = v THEN eC ELSE 0
    <3>2. y \in Int /\ z \in Int /\ e \in Int /\ r * y \in Int
      BY <1>4, <2>1, <2>5
    <3>3. know.chi[j][n] = Fl(c + r * Fl(y + Neg(p) + q) + z + e) /\ bC[n] = (c + r * y) + z
      BY <2>4, <2>6, <3>1
    <3> HIDE DEF y, z, e
    <3>4. Fl(Fl(c + r * Fl(y + Neg(p) + q) + z + e) + (Fl(p * r) + Neg(Fl(q * r)))) = Fl(((c + r * y) + z) + e)
      <4>1. c \in Int /\ r \in Int /\ y \in Int /\ p \in Int /\ q \in Int /\ z \in Int /\ e \in Int
        BY <1>2, <2>1, <3>1, <3>2
      <4>2. ScaledEntry(c, r, y, p, q, z, e)
        BY Zenon, <4>1, UnmaskedScaled
      <4> QED BY <4>2 DEF ScaledEntry
    <3>5. bC[n] \in Int
      <4> DEFINE ry == r * y
      <4> HIDE DEF ry
      <4>1. ry \in Int /\ bC[n] = (c + ry) + z
        BY <3>2, <3>3 DEF ry
      <4> QED BY <2>1, <3>2, <4>1
    <3> QED BY <2>8, <3>1, <3>3, <3>4, <3>5 DEF e
  <2>11. Reconstruct(bD, Signers) = Fl(ga * R)
    <3>1. \A n \in Signers : /\ yD[n] \in Int /\ bD[n] \in Int /\ Fl(bD[n]) = Fl(yD[n] + Tx25ZeroAt(slope, n))
      BY Zenon, <2>5, <2>6, <2>9 DEF Tx25Checked
    <3>2. Reconstruct(bD, Signers) = Reconstruct(yD, Signers)
      BY <1>2, <3>1, Tx25ZeroVanishes
    <3>3. \A n \in Signers : know.k[n] \in Int /\ yD[n] \in Int /\ Fl(yD[n]) = Fl(ga * know.k[n])
      BY <2>5, <2>6
    <3>4. Reconstruct(yD, Signers) = Fl(ga * Reconstruct(know.k, Signers))
      BY <2>1, <3>3, SignersType, ReconstructScale
    <3> QED BY <1>5, <3>2, <3>4
  <2>12. Reconstruct(bC, Signers) = Fl(ga * Fl(m + r * key))
    <3>1. \A n \in Signers : /\ yC[n] \in Int /\ bC[n] \in Int /\ Fl(bC[n]) = Fl(yC[n] + Tx25ZeroAt(slope, n))
      <4> SUFFICES ASSUME NEW n \in Signers
                   PROVE  yC[n] \in Int /\ bC[n] \in Int /\ Fl(bC[n]) = Fl(yC[n] + Tx25ZeroAt(slope, n))
        OBVIOUS
      <4>1. c + r * (ga * know.x[n]) \in Int
        <5> DEFINE gx == r * (ga * know.x[n])
        <5> HIDE DEF gx
        <5>1. gx \in Int
          BY <2>5 DEF gx
        <5> QED BY <2>1, <5>1 DEF gx
      <4> QED BY Zenon, <2>6, <2>10, <4>1 DEF Tx25Checked
    <3>2. Reconstruct(bC, Signers) = Reconstruct(yC, Signers)
      BY <1>2, <3>1, Tx25ZeroVanishes
    <3>3. \A n \in Signers : /\ one[n] \in Int /\ know.x[n] \in Int /\ yC[n] \in Int
                             /\ Fl(yC[n]) = Fl(c * one[n] + gr * know.x[n])
      BY <2>5, <2>6, <3>1
    <3>4. Reconstruct(yC, Signers) = Fl(c * Reconstruct(one, Signers) + gr * Reconstruct(know.x, Signers))
      BY <2>1, <3>3, SignersType, ReconstructLinear
    <3>5. Reconstruct(one, Signers) = 1
      BY <2>6, SignersType, ReconstructOnes
    <3>6. c * 1 + gr * key = ga * (m + r * key)
      <4>1. c = m * ga /\ gr = ga * r
        BY DEF c, gr
      <4>2. m * ga * 1 + ga * r * key = ga * (m + r * key)
        BY <1>2, <2>1
      <4> QED BY <4>1, <4>2
    <3> DEFINE w == m + r * key
    <3>7. w \in Int
      <4>1. r * key \in Int
        BY <1>2
      <4> QED BY <1>2, <4>1
    <3> HIDE DEF w
    <3>8. Fl(ga * Fl(w)) = Fl(ga * w)
      BY <2>1, <3>7, FlMulRight
    <3> QED BY <1>5, <3>2, <3>4, <3>5, <3>6, <3>8 DEF w
  <2>13. Tx25Recomputed(j, know.beta, know.delta[j]) = Fl(ga * R) <=> Fl(eD) = 0
    BY <2>9, <2>11, Tx25Recheck
  <2>14. Tx25Recomputed(j, maskC, know.chi[j]) = Fl(ga * Fl(m + r * key)) <=> Fl(eC) = 0
    BY <2>10, <2>12, Tx25Recheck
  <2>15. j \in Tx25Cheaters <=> Fl(eD) # 0 \/ Fl(eC) # 0
    BY <2>13, <2>14 DEF Tx25Cheaters, ga, R, m, r, maskC
  <2>16. Fl(0) = 0 /\ Fl(bent[j]) = bent[j]
    BY <2>1, FlField, QAssumption DEF Field
  <2>17. CASE know.fault = "delta"
    <3>1. eD = bent[j] /\ eC = 0
      BY <2>17 DEF eD, eC, Off
    <3> QED BY <2>15, <2>16, <3>1
  <2>18. CASE know.fault = "chi"
    <3>1. eD = 0 /\ eC = bent[j]
      <4>1. Off(j, "chi") = bent[j] /\ Off(j, "nonce_and_chi") = 0 /\ eD = 0
        BY <2>18 DEF Off, eD
      <4>2. bent[j] \in Int
        BY Zenon, <2>1, ScalarsType
      <4>3. bent[j] + 0 = bent[j]
        BY <4>2
      <4> QED BY <4>1, <4>3 DEF eC
    <3> QED BY <2>15, <2>16, <3>1
  <2> QED BY <2>17, <2>18
<1> QED BY <1>6 DEF Tx25Left

LEMMA Tx25Refusals ==
    ASSUME Session, Cardinality(Signers) >= 2, Tx25Known, Tx25Complete, Tx25SignNext, stage' = "ended",
           NEW i \in DOMAIN answer', answer'[i] = Refused
    PROVE  Tx25Excuse
<1> SUFFICES ASSUME ~Tx25Excuse PROVE FALSE
  OBVIOUS
<1>0. /\ know.fault \notin {"mta", "nonce_and_chi"} /\ ~SharingRefused
      /\ ~(Cardinality(Tx25Left) < T) /\ Reconstruct(know.gamma, Tx25Left) # 0
      /\ know.R # 0 /\ ~NoSignature(XCoord(know.R))
  BY DEF Tx25Excuse
<1>1. CASE Tx25Combine
  BY <1>0, <1>1 DEF Tx25Combine, Step
<1>2. CASE Tx25Presign
  BY <1>0, <1>2 DEF Tx25Presign, Step, Faulty
<1>3. CASE Tx25Broadcast
  BY <1>3 DEF Tx25Broadcast, Step
<1>4. CASE Tx25Assemble
  BY <1>4 DEF Tx25Assemble, Step
<1>5. CASE Tx25Finish
  <2> DEFINE Try(s) == IF s = 0 THEN Refused ELSE Checked(XCoord(know.R), s)
             S == Tx25Left
             s == Tx25Assembled(Tx25Left)
  <2>1. stage = "tx25_sign_3" /\ Try(know.all) = Refused /\ Try(know.rest) = Refused
    <3> DEFINE outcome == IF Try(know.all) # Refused THEN Try(know.all) ELSE Try(know.rest)
    <3>1. Return("tx25_sign_3", Everyone(outcome))
      BY <1>5 DEF Tx25Finish
    <3>2. outcome = Refused => Try(know.all) = Refused /\ Try(know.rest) = Refused
      OBVIOUS
    <3> HIDE DEF outcome, Try
    <3> QED BY <3>1, <3>2, EveryoneRefused
  <2>2. /\ know.R \in Field /\ know.R = Reconstruct(know.k, Signers) /\ Cardinality(Signers) >= T
        /\ know.all = Tx25Assembled(Signers)
    BY <2>1, SignersType DEF Tx25Known, Tx25Complete, Has
  <2>3. S \in SUBSET Signers /\ IsFiniteSet(S) /\ Cardinality(S) \in Int
    <3>1. S \in SUBSET Signers
      BY DEF Tx25Left
    <3>2. IsFiniteSet(S)
      BY Zenon, <3>1, SignersType, FS_Subset
    <3>3. Cardinality(S) \in Nat
      BY <3>2, FS_CardinalityType
    <3> HIDE DEF S
    <3> QED BY <3>1, <3>2, <3>3
  <2>4. Cardinality(S) >= T
    <3>1. T \in Int
      BY SigningAssumption
    <3> HIDE DEF S
    <3>2. ~(Cardinality(S) < T)
      BY <1>0 DEF S
    <3> QED BY <2>3, <3>1, <3>2
  <2>5. \A j \in S : Off(j, "delta") = 0 /\ Off(j, "chi") = 0 /\ Off(j, "nonce_and_chi") = 0
    BY <1>0 DEF Tx25Left, Off
  <2>6. Reconstruct(know.k, S) = know.R
    <3>1. CASE know.fault \in {"delta", "chi"}
      <4>1. \A C \in SUBSET Signers : Cardinality(C) >= T => Reconstruct(know.k, C) = Secret(know.kPoly)
        BY <2>1, <3>1 DEF Tx25Complete
      <4> HIDE DEF S
      <4> QED BY <2>2, <2>3, <2>4, <4>1
    <3>2. CASE know.fault \notin {"delta", "chi"}
      BY <2>2, <3>2 DEF Tx25Left
    <3> QED BY <3>1, <3>2
  <2>7. s \in Field /\ Fl(s * know.R) = Fl(digest + XCoord(know.R) * key)
    <3>1. Reconstruct(know.gamma, S) # 0 /\ know.R # 0 /\ stage \in {"tx25_sign_2", "tx25_sign_3"}
      BY <1>0, <2>1
    <3> HIDE DEF S
    <3>2. /\ Tx25Assembled(S) \in Field
          /\ Fl(Tx25Assembled(S) * know.R) = Fl(digest + XCoord(know.R) * key)
      BY <2>3, <2>4, <2>5, <2>6, <3>1, Tx25Signs
    <3> QED BY <3>2 DEF S
  <2>8. know.all = s \/ know.rest = s
    <3>1. CASE S = Signers
      BY <2>2, <3>1
    <3>2. CASE S # Signers
      <4>1. know.fault \in {"delta", "chi"}
        BY <3>2 DEF Tx25Left
      <4>2. Signers \ Tx25Cheaters = Tx25Left
        BY <2>1, <4>1, Tx25CheatersFound
      <4>3. know.rest = LET honest == Signers \ Tx25Cheaters
                        IN IF honest # Signers /\ Cardinality(honest) >= T THEN Tx25Assembled(honest) ELSE 0
        BY <2>1 DEF Tx25Complete
      <4> QED BY <2>4, <3>2, <4>2, <4>3
    <3> QED BY <3>1, <3>2
  <2>9. s # 0
    <3> HIDE DEF s
    <3>1. CASE s = 0
      <4>1. know.R \in Int
        BY Zenon, <2>2, ScalarsType
      <4>2. s * know.R = 0
        BY <3>1, <4>1
      <4>3. Fl(0) = 0
        BY FlField, QAssumption DEF Field
      <4> QED BY <1>0, <2>7, <4>2, <4>3 DEF NoSignature
    <3> QED BY <3>1
  <2>10. Checked(XCoord(know.R), s) = Refused
    BY <2>1, <2>8, <2>9
  <2> HIDE DEF s
  <2> QED BY <1>0, <2>2, <2>7, <2>10, CheckedSucceeds
<1> QED BY <1>1, <1>2, <1>3, <1>4, <1>5 DEF Tx25SignNext

-----------------------------------------------------------------------------
(* JTX25.                                                                    *)

\* What R_dl-cl proves, unless someone deviates there.
Jtx25Complete ==
    /\ "fault" \in DOMAIN know /\ Has("phi", Field)
    /\ stage = "jtx25_presign_2" =>
           \A i \in Signers : know.phiX[i] = Fl(Jtx25Weighted(i) + Off(i, "weighted"))

LEMMA Jtx25CompleteBegin ==
    ASSUME NEW f \in Sharings, Jtx25SignBegin(f)
    PROVE  Jtx25Complete
<1>1. PICK k \in [Signers -> Scalars], phi \in [Signers -> Blinds], slope \in Blinds,
           fault \in Faults(IF Jtx25SharedNonce THEN {"share", "nonce", "weighted", "opened", "gone"}
                            ELSE {"decommitted", "weighted", "opened", "index"}) :
         know = [drawn |-> [i \in Signers |-> [d \in 0 .. T - 1 |-> IF d = 0 THEN k[i] ELSE slope]],
                 phi |-> Total(phi, Signers), fault |-> fault, x |-> [i \in Signers |-> Eval(f, i)]]
  BY Zenon DEF Jtx25SignBegin
<1>2. Total(phi, Signers) \in Field
  BY DrawnInts, IntsType DEF Ints
<1> QED BY <1>1, <1>2 DEF Jtx25SignBegin, Jtx25Complete, Has

LEMMA Jtx25CompleteStep ==
    ASSUME Session, Jtx25Known, Jtx25Complete, Jtx25SignNext, stage' # "ended"
    PROVE  Jtx25Complete'
<1>1. CASE Jtx25Scale
  <2> DEFINE k == [i \in Signers |-> IF Jtx25SharedNonce THEN Jtx25Combined(i) ELSE know.drawn[i][0]]
             phiK == [i \in Signers |-> Fl(know.phi * k[i])]
             phiX == [i \in Signers |-> Fl(Jtx25Weighted(i) + Off(i, "weighted"))]
  <2>1. Step("jtx25_presign_1", "jtx25_presign_2", [k |-> k, phiK |-> phiK, phiX |-> phiX])
    BY <1>1 DEF Jtx25Scale, RefuseVictim, Return
  <2>2. \A i \in Signers : phiX[i] = Fl(Jtx25Weighted(i) + Off(i, "weighted"))
    OBVIOUS
  <2> HIDE DEF k, phiK, phiX
  <2>3. /\ stage = "jtx25_presign_1" /\ stage' = "jtx25_presign_2" /\ Signers' = Signers
        /\ bent' = bent /\ know'.phiX = phiX
    BY <2>1, StepKeeps
  <2>4. know'.phi = know.phi /\ know'.x = know.x
    BY <2>1, StepKeeps DEF Jtx25Known, Has
  <2>5. "fault" \in DOMAIN know' /\ know'.fault = know.fault /\ "phi" \in DOMAIN know' /\ know.phi \in Field
    BY <2>1, StepKeeps DEF Jtx25Complete, Has
  <2>6. ASSUME NEW i \in Signers
        PROVE  Jtx25Weighted(i)' = Jtx25Weighted(i) /\ Off(i, "weighted")' = Off(i, "weighted")
    BY <2>3, <2>4, <2>5 DEF Jtx25Weighted, Off
  <2> QED BY <2>2, <2>3, <2>4, <2>5, <2>6 DEF Jtx25Complete, Has
<1>2. CASE Jtx25Presign
  <2>1. Step("jtx25_presign_2", "jtx25_sign",
             [R |-> Fl(SumFunctionOnSet([i \in Signers |-> Jtx25Weight(i) * know.k[i]], Signers))])
    BY <1>2 DEF Jtx25Presign, RefuseFaulty, Return
  <2> DEFINE R == Fl(SumFunctionOnSet([i \in Signers |-> Jtx25Weight(i) * know.k[i]], Signers))
  <2> HIDE DEF R
  <2>2. Step("jtx25_presign_2", "jtx25_sign", [R |-> R])
    BY <2>1 DEF R
  <2>3. stage' = "jtx25_sign" /\ "fault" \in DOMAIN know' /\ "phi" \in DOMAIN know' /\ know'.phi \in Field
    BY <2>2, StepKeeps DEF Jtx25Complete, Has
  <2> QED BY <2>3 DEF Jtx25Complete, Has
<1>3. CASE Jtx25Finish
  BY <1>3 DEF Jtx25Finish, RefuseFaulty, Return
<1> QED BY <1>1, <1>2, <1>3 DEF Jtx25SignNext

\* With everyone there, what is opened is the masked nonce and signature.
LEMMA Jtx25Signed ==
    ASSUME Session, Jtx25Known, Jtx25Equations, Jtx25Complete, ~Jtx25Excuse, ~Jtx25Left, stage = "jtx25_sign"
    PROVE  LET s == Fl(Jtx25C1 * Inv(Jtx25C0))
           IN Jtx25C0 # 0 /\ s \in Field /\ Fl(s * know.R) = Fl(digest + XCoord(know.R) * key)
<1> DEFINE phi == know.phi
           U == Jtx25C0
           V == Total(know.phiX, Signers)
           W == Jtx25C1
           r == XCoord(know.R)
           R == know.R
           s == Fl(W * Inv(U))
<1>1. /\ phi \in Int /\ phi # 0 /\ know.phiX \in Ints /\ R \in Field /\ R # 0
  BY DEF Jtx25Known, Has, Jtx25Excuse
<1>2. Jtx25Online = Signers
  BY DEF Jtx25Left
<1>3. R \in Int /\ r \in Int /\ digest \in Int /\ key \in Int /\ V \in Field /\ V \in Int
  BY Zenon, <1>1, IntsType, Operands, XCoordType, ScalarsType DEF Ints
<1>4. U = Fl(phi * R) /\ V = Fl(phi * key)
  BY <1>2, Jtx25PresignatureFits DEF Jtx25Fits, Jtx25C0
<1>5. W = Fl(digest * phi + r * V)
  BY <1>2 DEF Jtx25C1
<1>6. U \in Field /\ W \in Int /\ W \in Field
  <2>1. Jtx25C0 \in Field /\ Jtx25C1 \in Int
    BY Jtx25Opened
  <2>2. digest * phi + r * V \in Int
    <3> HIDE DEF r, V, phi
    <3> QED BY <1>1, <1>3
  <2> HIDE DEF r, V, phi
  <2> QED BY <2>1, <2>2, <1>5, FlType
<1>7. Fl(phi) # 0
  BY <1>1, FlField DEF Jtx25Complete, Has
<1> HIDE DEF phi, U, V, W, r, R
<1>8. U # 0
  <2>1. Fl(R) # 0
    BY <1>1, FlField
  <2> QED BY <1>1, <1>3, <1>4, <1>7, <2>1, FlIntegral
<1>9. MaskedSignature(R, phi, key, digest, r, U, V, W)
  <2>1. Fl(V) = Fl(phi * key) /\ Fl(W) = Fl(digest * phi + r * V)
    BY <1>3, <1>4, <1>5, <1>6, FlField
  <2> QED BY <1>1, <1>3, <1>4, <1>6, <1>8, <2>1 DEF MaskedSignature
<1>10. Fl(s * R) = Fl(digest + r * key)
  BY <1>9, MaskDividedOut
<1>11. s \in Field
  <2>1. Inv(U) \in Int
    BY <1>6, <1>8, InvInt
  <2>2. W * Inv(U) \in Int
    BY <1>6, <2>1
  <2> QED BY <2>2, FlType
<1> QED BY <1>8, <1>10, <1>11 DEF U, W, r, R

LEMMA Jtx25Refusals ==
    ASSUME Session, Jtx25Known, Jtx25Equations, Jtx25Complete, Jtx25SignNext, stage' = "ended",
           NEW i \in DOMAIN answer', answer'[i] = Refused, ~Jtx25Left
    PROVE  Jtx25Excuse
<1> SUFFICES ASSUME ~Jtx25Excuse PROVE FALSE
  OBVIOUS
<1>0. know.fault \notin {"share", "decommitted", "weighted", "opened", "index"}
  BY DEF Jtx25Excuse
<1>a. \A j \in Signers : /\ ~Faulty(j, "share") /\ ~Faulty(j, "decommitted") /\ ~Faulty(j, "opened")
                         /\ ~Faulty(j, "index")
  BY <1>0 DEF Faulty
<1>1. CASE Jtx25Scale
  BY <1>a, <1>1 DEF Jtx25Scale, Step
<1>2. CASE Jtx25Presign
  <2>1. stage = "jtx25_presign_2" /\ \E j \in Signers : know.phiX[j] # Jtx25Weighted(j)
    BY <1>a, <1>2 DEF Jtx25Presign, Step
  <2>2. PICK j \in Signers : know.phiX[j] # Jtx25Weighted(j)
    BY <2>1
  <2>3. know.phiX[j] = Fl(Jtx25Weighted(j) + 0)
    BY <1>0, <2>1 DEF Jtx25Complete, Off
  <2>4. Jtx25Weighted(j) \in Field /\ Jtx25Weighted(j) \in Int
    <3>1. know.phi \in Int /\ know.x[j] \in Int /\ Lagrange(Signers, j) \in Int
      BY LagrangeInt DEF Jtx25Known, Has, Ints
    <3>2. Lagrange(Signers, j) * know.x[j] \in Int
      BY <3>1
    <3> DEFINE w == Fl(Lagrange(Signers, j) * know.x[j])
    <3>3. w \in Int
      BY <3>2, FlInt
    <3> HIDE DEF w
    <3>4. know.phi * w \in Int
      BY <3>1, <3>3
    <3>5. Jtx25Weighted(j) = Fl(know.phi * w)
      BY DEF Jtx25Weighted, w
    <3> QED BY Zenon, <3>4, <3>5, FlType, ScalarsType
  <2>5. Jtx25Weighted(j) + 0 = Jtx25Weighted(j)
    BY <2>4
  <2> QED BY <2>2, <2>3, <2>4, <2>5, FlField
<1>3. CASE Jtx25Finish
  <2> DEFINE t == Fl(Jtx25C1 * Inv(Jtx25C0))
             s == IF Jtx25C0 = 0 THEN 0 ELSE t
             outcome == IF s = 0 THEN Refused ELSE Checked(XCoord(know.R), s)
  <2>1. /\ stage = "jtx25_sign"
        /\ answer' = [p \in DOMAIN answer |-> IF p \in Jtx25Online THEN outcome ELSE Waiting]
    BY <1>a, <1>3 DEF Jtx25Finish, Return
  <2> HIDE DEF outcome
  <2>2. outcome = Refused
    <3>1. Waiting # Refused
      BY DEF Waiting, Refused
    <3> QED BY <2>1, <3>1
  <2>3. Jtx25C0 # 0 /\ t \in Field /\ Fl(t * know.R) = Fl(digest + XCoord(know.R) * key)
    BY <2>1, Jtx25Signed
  <2>4. know.R \in Field /\ know.R # 0 /\ ~NoSignature(XCoord(know.R))
    BY <2>1 DEF Jtx25Known, Has, Jtx25Excuse
  <2> HIDE DEF t
  <2>5. t # 0
    <3> SUFFICES ASSUME t = 0 PROVE FALSE
      OBVIOUS
    <3>1. know.R \in Int /\ Fl(0) = 0
      BY <2>4, ScalarsType, FlField, QAssumption DEF Field
    <3>2. t * know.R = 0
      BY <3>1
    <3> QED BY <2>3, <2>4, <3>1, <3>2 DEF NoSignature
  <2>6. Checked(XCoord(know.R), t) = Refused
    BY <2>2, <2>3, <2>5 DEF outcome
  <2> QED BY <2>3, <2>4, <2>6, CheckedSucceeds
<1> QED BY <1>1, <1>2, <1>3 DEF Jtx25SignNext

-----------------------------------------------------------------------------
(* LLZ25.                                                                    *)

\* The masked nonce is that of R: both are made of z and y.
LEMMA Llz25MaskedNonce ==
    ASSUME NEW G \in Int, NEW K \in Int, NEW y \in Int, NEW z \in Int
    PROVE  Fl(y * G + z * Fl(G * K)) = Fl(G * Fl(z * K + y))
<1> DEFINE p == G * K
           a == y * G
           b == z * K + y
<1>1. p \in Int /\ a \in Int /\ b \in Int
  OBVIOUS
<1>2. a + z * p = G * b
  <2>1. z * p = G * (z * K)
    OBVIOUS
  <2>2. G * (z * K) + y * G = G * (z * K + y)
    OBVIOUS
  <2> QED BY <2>1, <2>2
<1> HIDE DEF p, a, b
<1>3. Fl(z * Fl(p)) = Fl(z * p)
  BY <1>1, FlMulRight
<1> DEFINE u == z * Fl(p)
           v == z * p
<1>4. u \in Int /\ v \in Int /\ Fl(u) = Fl(v)
  BY <1>1, <1>3, FlInt
<1> HIDE DEF u, v
<1>5. Fl(u + a) = Fl(v + a)
  BY <1>1, <1>4, FlShift
<1>6. u + a = a + u /\ v + a = a + v
  BY <1>1, <1>4
<1>7. Fl(G * Fl(b)) = Fl(G * b)
  BY <1>1, FlMulRight
<1> QED BY <1>2, <1>5, <1>6, <1>7 DEF p, a, b, u, v

\* What the partial signatures add up to.
Llz25Complete ==
    /\ "fault" \in DOMAIN know
    /\ stage = "llz25_sign_2" =>
         LET gamma == Total(know.gamma, Signers)
         IN /\ Total(know.w, Signers) = Fl(gamma * key)
            /\ Total(know.ui, Signers) = Fl(gamma * know.R)
            /\ know.fault # "partial" =>
                   Total(know.wi, Signers) = Fl(digest * gamma + XCoord(know.R) * Total(know.w, Signers))

LEMMA Llz25CompleteBegin ==
    ASSUME NEW f \in Sharings, Llz25SignBegin(f)
    PROVE  Llz25Complete
  BY DEF Llz25SignBegin, Llz25Complete

LEMMA Llz25CompleteStep ==
    ASSUME Session, Llz25Known, Llz25Equations, Llz25Complete, Llz25SignNext, stage' # "ended"
    PROVE  Llz25Complete'
<1>1. CASE Llz25Coefficients
  <2> DEFINE lambda == [i \in Signers |-> Lagrange(Signers, i)]
  <2>1. PICK alpha \in [Pairs -> Scalars], mu \in [Pairs -> Blinds] :
          LET AlphaBeta(i, j) == alpha[<<i, j>>] + know.k[j] * know.gamma[i] + Neg(alpha[<<j, i>>])
              MuNu(i, j) == lambda[i] * mu[<<i, j>>] + lambda[j] * (Llz25PeX(j) * know.gamma[i] + Neg(mu[<<j, i>>]))
          IN Step("llz25_presign", "llz25_sign_1",
               [u |-> [i \in Signers |-> Fl(know.k[i] * know.gamma[i]
                          + SumFunctionOnSet([j \in Others(i) |-> AlphaBeta(i, j)], Others(i)))],
                w |-> [i \in Signers |-> Fl(lambda[i] * know.x[i] * know.gamma[i]
                          + SumFunctionOnSet([j \in Others(i) |-> MuNu(i, j)], Others(i)))]])
    BY Zenon, <1>1 DEF Llz25Coefficients, RefuseFaulty, Return
  <2> DEFINE AlphaBeta(i, j) == alpha[<<i, j>>] + know.k[j] * know.gamma[i] + Neg(alpha[<<j, i>>])
             MuNu(i, j) == lambda[i] * mu[<<i, j>>] + lambda[j] * (Llz25PeX(j) * know.gamma[i] + Neg(mu[<<j, i>>]))
             u == [i \in Signers |-> Fl(know.k[i] * know.gamma[i]
                          + SumFunctionOnSet([j \in Others(i) |-> AlphaBeta(i, j)], Others(i)))]
             w == [i \in Signers |-> Fl(lambda[i] * know.x[i] * know.gamma[i]
                          + SumFunctionOnSet([j \in Others(i) |-> MuNu(i, j)], Others(i)))]
  <2>2. Step("llz25_presign", "llz25_sign_1", [u |-> u, w |-> w])
    BY <2>1
  <2> HIDE DEF u, w
  <2>3. stage' = "llz25_sign_1" /\ "fault" \in DOMAIN know'
    BY <2>2, StepKeeps DEF Llz25Complete
  <2> QED BY <2>3 DEF Llz25Complete
<1>2. CASE Llz25Partial
  <2>1. PICK z \in Scalars, y \in Blinds :
          LET R == Fl(z * Total(know.k, Signers) + y)
          IN Step("llz25_sign_1", "llz25_sign_2",
            [R |-> R,
             wi |-> [i \in Signers |-> Fl(digest * know.gamma[i] + XCoord(R) * know.w[i] + Off(i, "partial"))],
             ui |-> [i \in Signers |-> Fl(y * know.gamma[i] + z * know.u[i])]])
    BY <1>2 DEF Llz25Partial
  <2> DEFINE G == Total(know.gamma, Signers)
             K == Total(know.k, Signers)
             U == Total(know.u, Signers)
             W == Total(know.w, Signers)
             R == Fl(z * K + y)
             r == XCoord(R)
             wi == [i \in Signers |-> Fl(digest * know.gamma[i] + r * know.w[i] + Off(i, "partial"))]
             ui == [i \in Signers |-> Fl(y * know.gamma[i] + z * know.u[i])]
  <2>2. Step("llz25_sign_1", "llz25_sign_2", [R |-> R, wi |-> wi, ui |-> ui])
    BY <2>1
  <2>3. stage = "llz25_sign_1"
    BY <2>2 DEF Step
  <2>4. know.k \in Ints /\ know.gamma \in Ints /\ know.u \in Ints /\ know.w \in Ints
    BY <2>3 DEF Llz25Known, Has
  <2>5. z \in Int /\ y \in Int /\ G \in Int /\ K \in Int /\ digest \in Int
    BY <2>4, DrawnInts, IntsType, Operands DEF Ints
  <2>6. R \in Field /\ r \in Int
    <3>1. z * K + y \in Int
      BY <2>5
    <3>2. R \in Field
      BY <3>1, FlType
    <3> HIDE DEF R
    <3> QED BY Zenon, <3>2, XCoordType, ScalarsType
  <2>7. Total(ui, Signers) = Fl(G * R)
    <3>1. ASSUME NEW i \in Signers
          PROVE  ui[i] \in Int /\ Fl(ui[i]) = Fl(y * know.gamma[i] + z * know.u[i])
      <4>1. ui[i] = Fl(y * know.gamma[i] + z * know.u[i]) /\ know.gamma[i] \in Int /\ know.u[i] \in Int
        BY <2>4 DEF Ints
      <4>2. y * know.gamma[i] \in Int /\ z * know.u[i] \in Int
        BY <2>5, <4>1
      <4> HIDE DEF ui
      <4> QED BY <4>1, <4>2, FlInt, FlField
    <3> HIDE DEF ui
    <3>2. Total(ui, Signers) = Fl(y * Total(know.gamma, Signers) + z * Total(know.u, Signers))
      <4>1. /\ y \in Int /\ z \in Int /\ know.gamma \in Ints /\ know.u \in Ints
            /\ \A i \in Signers : ui[i] \in Int /\ Fl(ui[i]) = Fl(y * know.gamma[i] + z * know.u[i])
        BY <2>4, <2>5, <3>1
      <4> QED BY <4>1, CombinedShares
    <3>3. U = Fl(G * K)
      BY <2>3 DEF Llz25Equations
    <3> QED BY <2>5, <3>2, <3>3, Llz25MaskedNonce
  <2>8. ASSUME know.fault # "partial"
        PROVE  Total(wi, Signers) = Fl(digest * G + r * W)
    <3> HIDE DEF R, r
    <3>1. ASSUME NEW i \in Signers
          PROVE  wi[i] \in Int /\ Fl(wi[i]) = Fl(digest * know.gamma[i] + r * know.w[i])
      <4>1. wi[i] = Fl(digest * know.gamma[i] + r * know.w[i] + 0)
        BY <2>8 DEF Off
      <4>2. know.gamma[i] \in Int /\ know.w[i] \in Int
        BY <2>4 DEF Ints
      <4> HIDE DEF wi
      <4>3. digest * know.gamma[i] \in Int /\ r * know.w[i] \in Int
        BY <2>5, <2>6, <4>2
      <4>4. digest * know.gamma[i] + r * know.w[i] + 0 = digest * know.gamma[i] + r * know.w[i]
        BY <4>3
      <4> QED BY <4>1, <4>3, <4>4, FlInt, FlField
    <3> HIDE DEF wi
    <3>2. /\ digest \in Int /\ r \in Int /\ know.gamma \in Ints /\ know.w \in Ints
          /\ \A i \in Signers : wi[i] \in Int /\ Fl(wi[i]) = Fl(digest * know.gamma[i] + r * know.w[i])
      BY <2>4, <2>5, <2>6, <3>1
    <3> QED BY <3>2, CombinedShares
  <2>9. W = Fl(G * key)
    BY <2>3 DEF Llz25Equations
  <2> HIDE DEF R, r, wi, ui
  <2>10. /\ stage' = "llz25_sign_2" /\ key' = key /\ digest' = digest /\ Signers' = Signers
         /\ know'.R = R /\ know'.wi = wi /\ know'.ui = ui
    BY <2>2, StepKeeps
  <2>11. know'.gamma = know.gamma /\ know'.w = know.w
    BY <2>2, <2>3, StepKeeps DEF Llz25Known, Has
  <2>12. "fault" \in DOMAIN know' /\ know'.fault = know.fault
    BY <2>2, StepKeeps DEF Llz25Complete
  <2> QED BY <2>7, <2>8, <2>9, <2>10, <2>11, <2>12 DEF Llz25Complete, r
<1>3. CASE Llz25Finish
  BY <1>3 DEF Llz25Finish, Return
<1> QED BY <1>1, <1>2, <1>3 DEF Llz25SignNext

LEMMA Llz25Signed ==
    ASSUME Session, Llz25Known, Llz25Complete, ~Llz25Excuse, stage = "llz25_sign_2"
    PROVE  LET u == Total(know.ui, Signers)
               s == Fl(Total(know.wi, Signers) * Inv(u))
           IN u # 0 /\ s \in Field /\ Fl(s * know.R) = Fl(digest + XCoord(know.R) * key)
<1> DEFINE phi == Total(know.gamma, Signers)
           U == Total(know.ui, Signers)
           V == Total(know.w, Signers)
           W == Total(know.wi, Signers)
           R == know.R
           r == XCoord(know.R)
           s == Fl(W * Inv(U))
<1>1. /\ know.gamma \in Ints /\ know.ui \in Ints /\ know.w \in Ints /\ know.wi \in Ints /\ R \in Field /\ R # 0
      /\ phi # 0 /\ know.fault # "partial"
  BY DEF Llz25Known, Has, Llz25Excuse
<1>2. /\ phi \in Field /\ phi \in Int /\ U \in Field /\ U \in Int /\ V \in Field /\ V \in Int
      /\ W \in Field /\ W \in Int
  BY <1>1, IntsType DEF Ints
<1>3. R \in Int /\ r \in Int /\ digest \in Int /\ key \in Int
  BY Zenon, <1>1, Operands, XCoordType, ScalarsType
<1>4. U = Fl(phi * R) /\ V = Fl(phi * key) /\ W = Fl(digest * phi + r * V)
  BY <1>1 DEF Llz25Complete
<1> HIDE DEF phi, U, V, W, r, R
<1>5. U # 0
  <2>1. Fl(R) # 0 /\ Fl(phi) # 0
    BY <1>1, <1>2, FlField
  <2> QED BY <1>2, <1>3, <1>4, <2>1, FlIntegral
<1>6. MaskedSignature(R, phi, key, digest, r, U, V, W)
  <2>1. Fl(V) = Fl(phi * key) /\ Fl(W) = Fl(digest * phi + r * V)
    BY <1>2, <1>4, FlField
  <2> QED BY <1>2, <1>3, <1>4, <1>5, <2>1 DEF MaskedSignature
<1>7. Fl(s * R) = Fl(digest + r * key)
  BY <1>6, MaskDividedOut
<1>8. s \in Field
  <2>1. Inv(U) \in Int
    BY <1>2, <1>5, InvInt
  <2>2. W * Inv(U) \in Int
    BY <1>2, <2>1
  <2> QED BY <2>2, FlType
<1> QED BY <1>5, <1>7, <1>8 DEF U, W, r, R

LEMMA Llz25Refusals ==
    ASSUME Session, Llz25Known, Llz25Complete, Llz25SignNext, stage' = "ended",
           NEW i \in DOMAIN answer', answer'[i] = Refused
    PROVE  Llz25Excuse
<1> SUFFICES ASSUME ~Llz25Excuse PROVE FALSE
  OBVIOUS
<1>1. CASE Llz25Coefficients
  BY <1>1 DEF Llz25Coefficients, Step, Faulty, Llz25Excuse
<1>2. CASE Llz25Partial
  BY <1>2 DEF Llz25Partial, Step
<1>3. CASE Llz25Finish
  <2> DEFINE u == Total(know.ui, Signers)
             t == Fl(Total(know.wi, Signers) * Inv(u))
             outcome == IF u = 0 THEN Refused ELSE Checked(XCoord(know.R), IF u = 0 THEN 0 ELSE t)
  <2>1. Return("llz25_sign_2", Everyone(outcome))
    BY <1>3 DEF Llz25Finish
  <2> HIDE DEF outcome
  <2>2. stage = "llz25_sign_2" /\ outcome = Refused
    BY <2>1, EveryoneRefused
  <2>3. u # 0 /\ t \in Field /\ Fl(t * know.R) = Fl(digest + XCoord(know.R) * key)
    BY <2>2, Llz25Signed
  <2>4. know.R \in Field /\ know.R # 0 /\ ~NoSignature(XCoord(know.R))
    BY <2>2 DEF Llz25Known, Has, Llz25Excuse
  <2> HIDE DEF t, u
  <2>5. Checked(XCoord(know.R), t) = Refused
    BY <2>2, <2>3 DEF outcome
  <2> QED BY <2>3, <2>4, <2>5, CheckedSucceeds
<1> QED BY <1>1, <1>2, <1>3 DEF Llz25SignNext

-----------------------------------------------------------------------------
(* TROUT.                                                                    *)

TroutComplete ==
    Has("fault", {"none", "proof", "scaled", "share"})

LEMMA TroutCompleteBegin ==
    ASSUME NEW f \in Sharings, TroutSignBegin(f)
    PROVE  TroutComplete
  BY DEF TroutSignBegin, TroutComplete, Has, Faults

LEMMA TroutCompleteStep ==
    ASSUME Session, TroutKnown, TroutComplete, TroutSignNext, stage' # "ended"
    PROVE  TroutComplete'
<1>1. CASE TroutPresign
  <2> DEFINE R == Total(know.k, Signers)
             announced == [i \in Signers |-> Fl(know.lx[i] + Off(i, "scaled"))]
  <2>1. Step("trout_presign", "trout_sign_1", [R |-> R, announced |-> announced])
    BY <1>1 DEF TroutPresign, RefuseFaulty, Return
  <2> HIDE DEF R, announced
  <2> QED BY <2>1, StepKeeps DEF TroutComplete, Has
<1>2. CASE TroutOpen
  <2> DEFINE r == XCoord(know.R)
             rlx == [i \in Signers |-> r * know.announced[i] + IF i = P1 THEN digest ELSE 0]
             raised == [i \in Signers |-> r * (Lagrange(Signers, i) * know.delta[i])]
             alphaZ == [i \in Signers |-> TroutAlphaZ(r, i)]
             share(i) == TroutFShare(rlx, raised, alphaZ, know.beta, know.u, i)
             f1 == [i \in Signers |-> TroutFShare(know.k, know.alpha, know.alpha, know.beta, know.u, i)]
             f2 == [i \in Signers |-> [share(i) EXCEPT !.f = Fl(@ + Off(i, "share"))]]
  <2>1. Step("trout_sign_1", "trout_sign_2", [f1 |-> f1, f2 |-> f2])
    BY <1>2 DEF TroutOpen
  <2> HIDE DEF f1, f2
  <2> QED BY <2>1, StepKeeps DEF TroutComplete, Has
<1>3. CASE TroutFinish
  BY <1>3 DEF TroutFinish, Return
<1> QED BY <1>1, <1>2, <1>3 DEF TroutSignNext

\* Once u is divided out, what is left is s.
LEMMA TroutSigned ==
    ASSUME Session, TroutKnown, TroutEquations, ~TroutExcuse, know.fault = "none", stage = "trout_sign_2"
    PROVE  \E s \in Field : /\ TroutQuotients(TroutSolve(know.f1), TroutSolve(know.f2)) = {s}
                            /\ Fl(s * know.R) = Fl(digest + XCoord(know.R) * key)
<1> DEFINE phi == Total(know.u, Signers)
           R == know.R
           r == XCoord(know.R)
           U == Fl(phi * R)
           V == Fl(phi * key)
           m == digest + r * key
           W == Fl(phi * m)
           s == Fl(W * Inv(U))
<1>1. know.u \in Ints /\ R \in Field /\ R # 0 /\ phi # 0
  BY DEF TroutKnown, Has, TroutExcuse
<1>2. TroutSolve(know.f1) = {U} /\ TroutSolve(know.f2) = {W}
  BY DEF TroutEquations, TroutFits
<1>3. phi \in Field /\ phi \in Int
  BY <1>1, IntsType DEF Ints
<1>4. R \in Int /\ r \in Int /\ digest \in Int /\ key \in Int
  BY Zenon, <1>1, Operands, XCoordType, ScalarsType
<1> HIDE DEF phi, R, r
<1>5. phi * R \in Int /\ phi * key \in Int /\ digest * phi \in Int /\ r * key \in Int
  BY <1>3, <1>4
<1>6. m \in Int
  BY <1>4, <1>5
<1>7. phi * m \in Int
  <2> HIDE DEF m
  <2> QED BY <1>3, <1>6
<1>8. U \in Field /\ V \in Field /\ V \in Int /\ W \in Field /\ W \in Int
  BY Zenon, <1>5, <1>7, FlType, ScalarsType
<1>9. U # 0
  <2>1. Fl(phi) # 0 /\ Fl(R) # 0
    BY <1>1, <1>3, FlField
  <2> QED BY <1>3, <1>4, <2>1, FlIntegral
<1>10. Fl(digest * phi + r * V) = W
  <2> DEFINE p == phi * key
             u == r * Fl(p)
             v == r * p
             a == digest * phi
  <2>1. p \in Int /\ a \in Int /\ v \in Int
    BY <1>4, <1>5
  <2>2. a + v = phi * m
    <3>1. r * (phi * key) = phi * (r * key)
      BY <1>3, <1>4
    <3>2. digest * phi + phi * (r * key) = phi * (digest + r * key)
      BY <1>3, <1>4, <1>5
    <3> QED BY <3>1, <3>2
  <2> HIDE DEF p
  <2>3. Fl(u) = Fl(v) /\ Fl(p) \in Int
    BY Zenon, <1>4, <2>1, FlMulRight, FlInt
  <2>4. u \in Int
    BY <1>4, <2>3
  <2> HIDE DEF u, v, a
  <2>5. Fl(a + u) = Fl(a + v)
    BY <2>1, <2>3, <2>4, FlShift
  <2> QED BY <2>2, <2>5 DEF p, u, v, a
<1> HIDE DEF U, V, W, m
<1>11. MaskedSignature(R, phi, key, digest, r, U, V, W)
  <2>1. Fl(V) = Fl(phi * key) /\ Fl(W) = Fl(digest * phi + r * V) /\ U = Fl(phi * R)
    BY <1>8, <1>10, FlField DEF U, V
  <2> QED BY <1>3, <1>4, <1>8, <1>9, <2>1 DEF MaskedSignature
<1>12. Fl(s * R) = Fl(digest + r * key)
  BY <1>11, MaskDividedOut
<1>13. s \in Field
  <2>1. Inv(U) \in Int
    BY <1>8, <1>9, InvInt
  <2>2. W * Inv(U) \in Int
    BY <1>8, <2>1
  <2> QED BY <2>2, FlType
<1>14. TroutQuotients({U}, {W}) = {s}
  <2>1. {U} \ {0} = {U}
    BY <1>9
  <2> QED BY <2>1 DEF TroutQuotients
<1> HIDE DEF s
<1> QED BY <1>2, <1>12, <1>13, <1>14 DEF R, r

LEMMA TroutRefusals ==
    ASSUME Session, TroutKnown, TroutEquations, TroutComplete, TroutSignNext, stage' = "ended",
           NEW i \in DOMAIN answer', answer'[i] = Refused
    PROVE  TroutExcuse
<1> SUFFICES ASSUME ~TroutExcuse PROVE FALSE
  OBVIOUS
<1>0. know.fault = "none"
  BY DEF TroutExcuse, TroutComplete, Has
<1>1. CASE TroutPresign
  BY <1>0, <1>1 DEF TroutPresign, Step, Faulty
<1>2. CASE TroutOpen
  BY <1>2 DEF TroutOpen, Step
<1>3. CASE TroutFinish
  <2> DEFINE q == TroutQuotients(TroutSolve(know.f1), TroutSolve(know.f2))
             outcome == IF q = {} THEN Refused ELSE Checked(XCoord(know.R), CHOOSE x \in q : TRUE)
  <2>1. Return("trout_sign_2", Everyone(outcome))
    BY <1>3, Zenon DEF TroutFinish
  <2> HIDE DEF outcome
  <2>2. stage = "trout_sign_2" /\ outcome = Refused
    BY <2>1, EveryoneRefused
  <2>3. PICK s \in Field : q = {s} /\ Fl(s * know.R) = Fl(digest + XCoord(know.R) * key)
    BY <1>0, <2>2, TroutSigned
  <2>4. know.R \in Field /\ ~NoSignature(XCoord(know.R))
    BY <2>2 DEF TroutKnown, Has, TroutExcuse
  <2> HIDE DEF q
  <2>5. q # {} /\ (CHOOSE x \in q : TRUE) = s
    BY <2>3
  <2>6. Checked(XCoord(know.R), s) = Refused
    BY Zenon, <2>2, <2>5 DEF outcome
  <2> QED BY <2>3, <2>4, <2>6, CheckedSucceeds
<1> QED BY <1>1, <1>2, <1>3 DEF TroutSignNext

-----------------------------------------------------------------------------
(* XAL23.                                                                    *)

LEMMA Xal23Signed ==
    ASSUME Session, Xal23Known, Xal23Equations, know.fault = "none", Total(know.x, Signers) = key,
           stage = "xal23_sign"
    PROVE  LET s == Total([i \in Signers |-> Xal23Partial(i)], Signers)
           IN s \in Field /\ Fl(s * know.R) = Fl(digest + XCoord(know.R) * key)
<1> DEFINE R == know.R
           r == XCoord(know.R)
           k == Total(know.k, Signers)
           g == Total(know.sigma, Signers)
           one == [i \in Signers |-> Xal23Partial(i)]
           s == Total(one, Signers)
<1>1. know.k \in Ints /\ know.sigma \in Ints /\ R \in Field
  BY DEF Xal23Known, Has
<1>2. Fl(R * k) = 1 /\ g = Fl(key * k)
  BY DEF Xal23Equations, Xal23Fits
<1>3. /\ R \in Int /\ r \in Int /\ k \in Int /\ k \in Field /\ g \in Int /\ g \in Field
      /\ digest \in Int /\ key \in Int /\ Fl(g) = g
  BY Zenon, <1>1, IntsType, XCoordType, Operands, ScalarsType, FlField DEF Ints
<1>4. ASSUME NEW i \in Signers
      PROVE  one[i] \in Int /\ Fl(one[i]) = Fl(digest * know.k[i] + r * know.sigma[i])
  <2>1. one[i] = Fl(digest * know.k[i] + r * know.sigma[i] + 0)
    BY DEF Xal23Partial, Off
  <2>2. know.k[i] \in Int /\ know.sigma[i] \in Int
    BY <1>1 DEF Ints
  <2> HIDE DEF one, r
  <2>3. digest * know.k[i] \in Int /\ r * know.sigma[i] \in Int
    BY <1>3, <2>2
  <2>4. digest * know.k[i] + r * know.sigma[i] + 0 = digest * know.k[i] + r * know.sigma[i]
    BY <2>3
  <2> QED BY <2>1, <2>3, <2>4, FlInt, FlField
<1>5. s \in Field /\ s \in Int
  <2>1. \A i \in Signers : one[i] \in Int
    BY <1>4
  <2> HIDE DEF one
  <2> QED BY <2>1, IntsType
<1> HIDE DEF one, r, R
<1>6. s = Fl(digest * k + r * g)
  <2>1. /\ digest \in Int /\ r \in Int /\ know.k \in Ints /\ know.sigma \in Ints
        /\ \A i \in Signers : one[i] \in Int /\ Fl(one[i]) = Fl(digest * know.k[i] + r * know.sigma[i])
    BY <1>1, <1>3, <1>4
  <2> QED BY <2>1, CombinedShares
<1> HIDE DEF k, g, s
<1>7. key * k = k * key
  BY <1>3
<1>8. SharedSignature(R, k, digest, key, g, r, s)
  BY <1>2, <1>3, <1>5, <1>6, <1>7 DEF SharedSignature
<1>9. Fl(s * R) = Fl(digest + r * key)
  BY <1>8, NonceInverted
<1> QED BY <1>5, <1>9 DEF s, one, R, r

LEMMA Xal23Refusals ==
    ASSUME Session, Xal23Known, Xal23Equations, Xal23SignNext, stage' = "ended",
           NEW i \in DOMAIN answer', answer'[i] = Refused, ~Xal23Misfit
    PROVE  Xal23Excuse
<1> SUFFICES ASSUME ~Xal23Excuse PROVE FALSE
  OBVIOUS
<1>0. know.fault = "none" /\ ~Xal23Hopeless /\ Total(know.x, Signers) = key
  BY DEF Xal23Excuse, Xal23Misfit
<1>1. CASE Xal23Multiply
  <2>1. \A j \in Signers : Xal23KeyFound(j)
    BY DEF Xal23Misfit
  <2> QED BY <1>0, <1>1, <2>1 DEF Xal23Multiply, Step, Faulty
<1>2. CASE Xal23Decrypt
  BY <1>0, <1>2 DEF Xal23Decrypt, Step, Faulty
<1>3. CASE Xal23Presign
  <2>1. stage = "xal23_presign_3" /\ Total(know.delta, Signers) = 0
    BY <1>3 DEF Xal23Presign, Step
  <2> DEFINE K == Total(know.k, Signers)
             G == Total(know.gamma, Signers)
  <2>2. K \in Field /\ G \in Field /\ K \in Int /\ G \in Int /\ K # 0 /\ G # 0
    BY <1>0, IntsType DEF Xal23Known, Has, Ints, Xal23Hopeless
  <2>3. Fl(K * G) = 0
    BY <1>0, <2>1 DEF Xal23Equations
  <2> HIDE DEF K, G
  <2> QED BY Zenon, <2>2, <2>3, FlIntegral, FlField
<1>4. CASE Xal23Finish
  <2> DEFINE s == Total([j \in Signers |-> Xal23Partial(j)], Signers)
  <2>1. Return("xal23_sign", Everyone(Checked(XCoord(know.R), s)))
    BY <1>4 DEF Xal23Finish
  <2> HIDE DEF s
  <2>2. stage = "xal23_sign" /\ Checked(XCoord(know.R), s) = Refused
    BY <2>1, EveryoneRefused
  <2>3. s \in Field /\ Fl(s * know.R) = Fl(digest + XCoord(know.R) * key)
    BY <1>0, <2>2, Xal23Signed DEF s
  <2>4. know.R \in Field /\ ~NoSignature(XCoord(know.R))
    BY <1>0, <2>2 DEF Xal23Known, Has, Xal23Hopeless
  <2> QED BY <2>2, <2>3, <2>4, CheckedSucceeds
<1> QED BY <1>1, <1>2, <1>3, <1>4 DEF Xal23SignNext

-----------------------------------------------------------------------------
(* KU24.                                                                     *)

\* What is shared, unless someone sends a wrong share.
Ku24Complete ==
    know.fault = "none" =>
        /\ SharedAt(know.x, Ku24Degree, key)
        /\ stage \in {"ku24_presign_1", "ku24_presign_2", "ku24_presign_3"} =>
               SharedAt(know.beta, Ku24Degree, Ku24Opened(know.beta, Ku24Degree))
        /\ stage \in {"ku24_sign_1", "ku24_sign_2", "ku24_sign_3"} => know.R = Ku24K
        /\ stage = "ku24_sign_1" =>
               /\ know.zero \in Ku24Zeros(Blinds)
               /\ \E v \in Int : /\ Fl(Fl(v * Ku24A) * Ku24K) = 1
                                 /\ know.kInv = [i \in Signers |-> Fl(v * know.a[i])]
        /\ stage = "ku24_sign_2" =>
               \E c \in Field : /\ SharedAt(know.s, 2 * Ku24Degree, c)
                                /\ Fl(c * Ku24K) = Fl(digest + XCoord(Ku24K) * key)
        /\ stage = "ku24_sign_3" => Fl(know.s * Ku24K) = Fl(digest + XCoord(Ku24K) * key)

LEMMA Ku24CompleteBegin ==
    ASSUME NEW f \in Sharings, key = f[0], Ku24SignBegin(f), Cardinality(Signers) >= 2
    PROVE  Ku24Complete
<1>1. PICK k \in Ku24Draws(Scalars), a \in Ku24Draws(Scalars), r \in Ku24Draws(Blinds), beta \in Ku24Draws(Blinds),
           fault \in Faults({"w", "mu", "tau", "r", "beta", "t", "w_share", "R", "s"}) :
         know = [k |-> k, a |-> a, r |-> r, beta |-> beta, fault |-> fault,
                 x |-> [i \in Signers |-> Eval(f, i)]]
  BY DEF Ku24SignBegin
<1> DEFINE x == [i \in Signers |-> Eval(f, i)]
           d == Ku24Degree
<1>2. know.x = x /\ know.beta = beta /\ stage = "ku24_presign_1" /\ Ku24Majority
  BY <1>1 DEF Ku24SignBegin
<1>3. SharedAt(beta, Ku24Degree, Ku24Opened(beta, Ku24Degree))
  BY <1>2, Ku24Drawn
<1>4. \A i \in Signers : x[i] \in Int /\ x[i] = Eval(f, i)
  BY BeginType
<1>5. f \in Polynomials(T) /\ T >= 1 /\ T \in Nat /\ d \in Nat /\ d + 1 = T
  BY SigningAssumption, Ku24SubsetsType
<1> HIDE DEF x, d
<1>6. ASSUME NEW S \in SUBSET Signers, Cardinality(S) > d
      PROVE  Reconstruct(x, S) = f[0]
  <2>1. S \in SUBSET (1 .. Q - 1) /\ IsFiniteSet(S)
    BY Zenon, SignersType, FS_Subset
  <2>2. Cardinality(S) \in Nat
    BY <2>1, FS_CardinalityType
  <2>3. T \in 1 .. Cardinality(S)
    BY <1>5, <1>6, <2>2
  <2>4. \A i \in S : x[i] = Eval(f, i)
    BY <1>4
  <2> QED BY <1>5, <2>1, <2>3, <2>4, Interpolation
<1>7. SharedAt(x, Ku24Degree, f[0])
  BY <1>4, <1>6 DEF SharedAt, d
<1> QED BY <1>2, <1>3, <1>7 DEF Ku24Complete

LEMMA Ku24Undone ==
    ASSUME NEW v \in Int, NEW a \in Int, NEW k \in Int, NEW z \in Int, Fl(Fl(v * a) * k) = 1
    PROVE  Fl(Fl(v * Fl(z * a)) * k) = Fl(z)
<1> DEFINE va == v * a
           y == va * k
           za == z * a
           x == v * za
<1>1. va \in Int /\ y \in Int /\ za \in Int /\ x \in Int
  OBVIOUS
<1>2. x * k = z * y
  OBVIOUS
<1>3. Fl(v * Fl(za)) = Fl(x)
  BY <1>1, FlMulRight
<1>4. Fl(Fl(va) * k) = Fl(y) /\ Fl(Fl(va) * k) = 1
  BY <1>1, FlMul
<1> HIDE DEF va, y, za, x
<1>5. Fl(Fl(x) * k) = Fl(z * y)
  <2>1. Fl(Fl(x) * k) = Fl(x * k)
    BY <1>1, FlMul
  <2> QED BY <1>2, <2>1
<1> DEFINE one == 1
<1>6. one \in Int /\ Fl(one) = one /\ z * one = z
  BY QAssumption, FlField DEF Field
<1> HIDE DEF one
<1>7. Fl(y) = Fl(one)
  BY <1>4, <1>6 DEF one
<1>8. Fl(z * y) = Fl(z * one)
  BY <1>1, <1>6, <1>7, FlScale
<1> QED BY <1>3, <1>5, <1>6, <1>8 DEF za

\* The partial signatures are shares of the signature.
LEMMA Ku24Signed ==
    ASSUME Session, Ku24Known, Ku24Equations, Ku24Complete, Cardinality(Signers) >= 2,
           know.fault = "none", stage = "ku24_sign_1",
           NEW s, s = [i \in Signers |->
               Fl(know.kInv[i] * Fl(digest + XCoord(know.R) * know.x[i]) + know.zero[i] + Off(i, "s"))]
    PROVE  \E c \in Field : /\ SharedAt(s, 2 * Ku24Degree, c)
                            /\ Fl(c * Ku24K) = Fl(digest + XCoord(Ku24K) * key)
<1> DEFINE t == Ku24Degree
           d == 2 * Ku24Degree
           k == Ku24K
           a == know.a
           A == Ku24A
           x == know.x
           zero == know.zero
           r == XCoord(Ku24K)
           kInv == know.kInv
<1>1. Ku24Settled /\ Ku24Majority /\ a \in Ku24Draws(Scalars) \cup Ku24Draws(Blinds)
  BY DEF Ku24Equations, Ku24Settled
<1>2. /\ k \in Field /\ k \in Int /\ A \in Field /\ A \in Int /\ a \in Ints
  BY <1>1, Ku24Drawn DEF Ku24Settled, Ku24K, Ku24A
<1>3. /\ t \in Nat /\ d \in Nat /\ t <= d
  BY <1>1, Ku24Enough
<1>4. r \in Int /\ digest \in Int /\ key \in Int
  BY Zenon, <1>2, XCoordType, ScalarsType, Operands
<1>5. SharedAt(x, t, key) /\ know.R = k /\ zero \in Ku24Zeros(Blinds)
  BY DEF Ku24Complete
<1>6. PICK v \in Int : Fl(Fl(v * A) * k) = 1 /\ kInv = [i \in Signers |-> Fl(v * a[i])]
  BY DEF Ku24Complete
<1>7. zero \in Ints /\ SharedAt(zero, d, 0)
  <2>1. Blinds \subseteq Int
    BY DrawnInts
  <2>2. PICK prf \in [1 .. Ku24Degree -> [Ku24Subsets -> Blinds]] : zero = [i \in Signers |-> Ku24Zero(prf, i)]
    BY Zenon, <1>5 DEF Ku24Zeros
  <2>3. prf \in [1 .. Ku24Degree -> [Ku24Subsets -> Int]]
    BY Zenon, <2>1
  <2> QED BY <1>5, <2>2, <2>3, Ku24DrawsType, SharedZero
<1>8. s = [i \in Signers |-> Fl(kInv[i] * Fl(digest + r * x[i]) + zero[i] + 0)]
  BY <1>5 DEF Off
<1> HIDE DEF t, d, k, a, A, x, zero, r, kInv
<1> DEFINE y == [i \in Signers |-> Fl(digest + r * x[i])]
           z == Fl(digest + r * key)
<1>9. \A i \in Signers : x[i] \in Int /\ a[i] \in Int /\ zero[i] \in Int /\ y[i] \in Int /\ Fl(y[i]) = y[i]
  <2> SUFFICES ASSUME NEW i \in Signers
               PROVE  x[i] \in Int /\ a[i] \in Int /\ zero[i] \in Int /\ y[i] \in Int /\ Fl(y[i]) = y[i]
    OBVIOUS
  <2>1. x[i] \in Int /\ a[i] \in Int /\ zero[i] \in Int
    BY <1>2, <1>5, <1>7 DEF SharedAt, Ints
  <2>2. digest + r * x[i] \in Int
    BY <1>4, <2>1
  <2> QED BY <2>1, <2>2, FlInt, FlField
<1>10. z \in Field /\ z \in Int /\ Fl(z) = z
  <2>1. digest + r * key \in Int
    BY <1>4
  <2> QED BY <2>1, FlInt, FlField
<1>11. SharedAt(y, t, z)
  <2> DEFINE ones == [i \in Signers |-> 1]
             one == 1
  <2>1. SharedAt(ones, 0, 1) /\ 0 \in Nat /\ 0 <= t
    BY <1>3, SharedOnes
  <2>2. SharedAt(ones, t, one) /\ one \in Int
    BY <1>3, <2>1, SharedHigher
  <2>3. \A i \in Signers : y[i] \in Int /\ Fl(y[i]) = Fl(digest * ones[i] + r * x[i])
    <3> SUFFICES ASSUME NEW i \in Signers PROVE y[i] \in Int /\ Fl(y[i]) = Fl(digest * ones[i] + r * x[i])
      OBVIOUS
    <3>1. y[i] = Fl(digest + r * x[i]) /\ digest * ones[i] = digest
      BY <1>4
    <3> HIDE DEF y, ones
    <3> QED BY <1>9, <3>1
  <2>4. digest * one = digest
    BY <1>4
  <2> HIDE DEF ones, one, y
  <2>5. SharedAt(y, t, Fl(digest * one + r * key))
    BY Zenon, <1>4, <1>5, <2>2, <2>3, SharedLinear
  <2> QED BY <2>4, <2>5
<1>12. \A i \in Signers : s[i] = Fl(kInv[i] * y[i] + zero[i] + 0) /\ kInv[i] = Fl(v * a[i])
  BY <1>6, <1>8
<1> HIDE DEF y, z
<1> DEFINE p == [i \in Signers |-> y[i] * a[i]]
           q == Fl(z * A)
<1>13. \A i \in Signers : p[i] \in Int /\ Fl(p[i]) = Fl(y[i] * a[i])
  BY <1>9
<1>14. SharedAt(p, d, q) /\ q \in Int
  <2>1. z * A \in Int
    BY <1>2, <1>10
  <2> HIDE DEF p
  <2>2. SharedAt(p, 2 * Ku24Degree, Fl(z * Ku24Opened(know.a, Ku24Degree)))
    BY <1>1, <1>10, <1>11, <1>13, Ku24TimesDrawn DEF t, a
  <2> QED BY <2>1, <2>2, FlInt DEF d, A, Ku24A
<1> DEFINE h == [i \in Signers |-> v * p[i]]
           w == Fl(v * q)
<1>15. \A i \in Signers : h[i] \in Int /\ Fl(h[i]) = Fl(v * p[i])
  BY <1>13
<1>16. SharedAt(h, d, w) /\ w \in Int /\ w \in Field
  <2> HIDE DEF h, p, q
  <2>1. v * q \in Int
    BY <1>14
  <2>2. SharedAt(h, d, Fl(v * q))
    BY <1>14, <1>15, SharedScale
  <2> QED BY <2>1, <2>2, FlInt
<1>17. \A i \in Signers : s[i] \in Int /\ Fl(s[i]) = Fl(h[i] + zero[i])
  <2> SUFFICES ASSUME NEW i \in Signers PROVE s[i] \in Int /\ Fl(s[i]) = Fl(h[i] + zero[i])
    OBVIOUS
  <2> DEFINE va == v * a[i]
             m == Fl(va) * y[i]
             n == h[i]
  <2>1. a[i] \in Int /\ y[i] \in Int /\ zero[i] \in Int /\ va \in Int
    BY <1>9
  <2>2. n = va * y[i] /\ n \in Int
    <3>1. n = v * (y[i] * a[i])
      OBVIOUS
    <3> HIDE DEF n
    <3> QED BY <2>1, <3>1
  <2>3. s[i] = Fl(m + zero[i] + 0)
    BY <1>12
  <2> HIDE DEF va, h
  <2>4. Fl(va) \in Int /\ m = Fl(va) * y[i]
    BY <2>1, FlInt
  <2>5. m \in Int
    BY <2>1, <2>4
  <2>6. Fl(m) = Fl(va * y[i])
    BY Zenon, <2>1, FlMul
  <2> HIDE DEF m, n
  <2>7. Fl(m + zero[i]) = Fl(n + zero[i])
    BY Zenon, <2>1, <2>2, <2>5, <2>6, FlShift
  <2>8. m + zero[i] + 0 = m + zero[i] /\ m + zero[i] \in Int
    BY <2>1, <2>5
  <2> QED BY <2>3, <2>7, <2>8, FlInt, FlField DEF n
<1>18. SharedAt(s, d, Fl(w + 0))
  <2> DEFINE null == 0
  <2>1. null \in Int /\ SharedAt(zero, d, null)
    BY <1>7
  <2> HIDE DEF null, w, h, p, q
  <2>2. SharedAt(s, d, Fl(w + null))
    BY <1>16, <1>17, <2>1, SharedSum
  <2> QED BY <2>2 DEF null
<1>19. Fl(w * k) = Fl(z)
  BY <1>2, <1>6, <1>10, Ku24Undone
<1> HIDE DEF w
<1>20. w + 0 = w /\ Fl(w) = w
  BY <1>16, FlField
<1> QED BY <1>10, <1>16, <1>18, <1>19, <1>20 DEF z, d, k, r


\* What is sent to open f, when nobody sends a wrong share.
LEMMA Ku24SentRight ==
    ASSUME NEW d, NEW c \in Field, NEW f, SharedAt(f, d, c), NEW where, know.fault # where,
           NEW g, g = [i \in Signers |-> Fl(f[i] + Off(i, where))]
    PROVE  SharedAt(g, d, c)
<1>1. \A i \in Signers : g[i] \in Int /\ Fl(g[i]) = Fl(f[i])
  <2> SUFFICES ASSUME NEW i \in Signers PROVE g[i] \in Int /\ Fl(g[i]) = Fl(f[i])
    OBVIOUS
  <2>1. f[i] \in Int /\ Off(i, where) = 0
    BY DEF SharedAt, Off
  <2>2. g[i] = Fl(f[i])
    BY <2>1
  <2> QED BY <2>1, <2>2, FlInt, FlField
<1> QED BY <1>1, SharedSame

LEMMA Ku24CompleteStep ==
    ASSUME Session, Ku24Known, Ku24Equations, Ku24Complete, Ku24SignNext, Cardinality(Signers) >= 2, stage' # "ended"
    PROVE  Ku24Complete'
<1>s. Ku24Settled
  BY DEF Ku24Equations
<1>k. /\ know'.fault = know.fault /\ know'.k = know.k /\ know'.a = know.a
      /\ bent' = bent /\ Signers' = Signers /\ Ku24K' = Ku24K /\ Ku24A' = Ku24A
  BY <1>s, Ku24Stays
<1> SUFFICES ASSUME know'.fault = "none" PROVE Ku24Complete'
  BY <1>k DEF Ku24Complete
<1>f. know.fault = "none" /\ SharedAt(know.x, Ku24Degree, key) /\ know.x \in Ints /\ "x" \in DOMAIN know
  BY <1>k DEF Ku24Complete, Ku24Known, Has
<1>o. /\ key' = key /\ digest' = digest /\ know'.x = know.x
  <2>1. key' = key /\ digest' = digest
    BY Zenon DEF Ku24SignNext, Ku24MultiplyOnce, Ku24MultiplyTwice, Ku24CheckTriple, Ku24Presign, Ku24Partial, Ku24Combine, Ku24Finish, Step, Return
  <2>2. \E new : know' = With(new, know) /\ "x" \notin DOMAIN new
    <3>1. CASE Ku24MultiplyOnce
      <4>1. PICK new : know' = With(new, know) /\ DOMAIN new = {"w", "mu"}
        BY <3>1 DEF Ku24MultiplyOnce, Step, Return
      <4> QED BY <4>1
    <3>2. CASE Ku24MultiplyTwice
      <4>1. PICK new : know' = With(new, know) /\ DOMAIN new = {"tau", "r", "beta"}
        BY <3>2 DEF Ku24MultiplyTwice, Step, Return
      <4> QED BY <4>1
    <3>3. CASE Ku24CheckTriple
      <4>1. PICK new : know' = With(new, know) /\ DOMAIN new = {"t", "wSent", "R"}
        BY <3>3 DEF Ku24CheckTriple, Step, Return
      <4> QED BY <4>1
    <3>4. CASE Ku24Presign
      <4>1. ~Return("ku24_presign_4", Everyone(Refused))
        BY DEF Return
      <4>2. PICK zero : Step("ku24_presign_4", "ku24_sign_1",
                [kInv |-> [i \in Signers |-> Fl(Inv(Ku24Opened(know.wSent, Ku24Degree)) * know.a[i])],
                 R |-> Ku24Opened(know.R, Ku24Degree), zero |-> zero])
        BY Zenon, <3>4, <4>1 DEF Ku24Presign
      <4>3. PICK new : know' = With(new, know) /\ DOMAIN new = {"kInv", "R", "zero"}
        BY <4>2 DEF Step
      <4> QED BY <4>3
    <3>5. CASE Ku24Partial
      <4>1. PICK new : know' = With(new, know) /\ DOMAIN new = {"s"}
        BY <3>5 DEF Ku24Partial, Step, Return
      <4> QED BY <4>1
    <3>6. CASE Ku24Combine
      <4>1. PICK new : know' = With(new, know) /\ DOMAIN new = {"s"}
        BY <3>6 DEF Ku24Combine, Step, Return
      <4> QED BY <4>1
    <3>7. CASE Ku24Finish
      BY <3>7 DEF Ku24Finish, Return
    <3> QED BY <3>1, <3>2, <3>3, <3>4, <3>5, <3>6, <3>7 DEF Ku24SignNext
  <2>3. PICK new : know' = With(new, know) /\ "x" \notin DOMAIN new
    BY <2>2
  <2>4. know'.x = know.x
    BY <1>f, <2>3 DEF With
  <2> QED BY <2>1, <2>4
<1>x. SharedAt(know.x, Ku24Degree, key)'
  BY <1>f, <1>k, <1>o DEF SharedAt
<1> DEFINE t == Ku24Degree
<1>1. CASE Ku24MultiplyOnce
  <2>1. PICK w, mu : Step("ku24_presign_1", "ku24_presign_2", [w |-> w, mu |-> mu])
    BY Zenon, <1>1 DEF Ku24MultiplyOnce, Return
  <2>2. stage = "ku24_presign_1" /\ stage' = "ku24_presign_2"
    BY <2>1, StepKeeps
  <2>3. know'.beta = know.beta
    BY <2>1, StepKeeps DEF Ku24Known, Has
  <2>4. SharedAt(know.beta, Ku24Degree, Ku24Opened(know.beta, Ku24Degree))
    BY <1>f, <2>2 DEF Ku24Complete
  <2>5. Ku24Opened(know.beta, Ku24Degree)' = Ku24Opened(know.beta, Ku24Degree)
    BY <1>k, <2>3 DEF Ku24Opened, Position
  <2>6. SharedAt(know.beta, Ku24Degree, Ku24Opened(know.beta, Ku24Degree))'
    BY <1>k, <2>3, <2>4, <2>5 DEF SharedAt
  <2> QED BY <1>x, <2>2, <2>6 DEF Ku24Complete
<1>2. CASE Ku24MultiplyTwice
  <2> DEFINE r == [i \in Signers |-> Fl(know.r[i] + Off(i, "r"))]
             beta == [i \in Signers |-> Fl(know.beta[i] + Off(i, "beta"))]
             c == Ku24Opened(know.beta, t)
  <2>1. PICK tau : Step("ku24_presign_2", "ku24_presign_3", [tau |-> tau, r |-> r, beta |-> beta])
    BY Zenon, <1>2 DEF Ku24MultiplyTwice, Return
  <2>2. beta = [i \in Signers |-> Fl(know.beta[i] + Off(i, "beta"))]
    OBVIOUS
  <2> HIDE DEF r, beta
  <2>3. stage = "ku24_presign_2" /\ stage' = "ku24_presign_3" /\ know'.beta = beta
    BY <2>1, StepKeeps
  <2>4. know.beta \in Ints
    BY DEF Ku24Known, Has
  <2>5. c \in Field /\ SharedAt(know.beta, t, c)
    BY <1>f, <2>3, <2>4, Ku24OpenedType DEF Ku24Complete
  <2> DEFINE f == know.beta
  <2>6. SharedAt(f, t, c) /\ beta = [i \in Signers |-> Fl(f[i] + Off(i, "beta"))] /\ know.fault # "beta"
    BY <1>f, <2>2, <2>5
  <2> HIDE DEF f, c
  <2>7. SharedAt(beta, t, c)
    BY <2>5, <2>6, Ku24SentRight
  <2>8. Ku24Opened(beta, Ku24Degree) = c
    <3>1. Ku24Majority
      BY <1>s DEF Ku24Settled
    <3> QED BY <2>7, <3>1, Ku24Enough, SharedOpens
  <2>9. Ku24Opened(know.beta, Ku24Degree)' = c
    BY <1>k, <2>3, <2>8 DEF Ku24Opened, Position
  <2>10. SharedAt(know.beta, Ku24Degree, Ku24Opened(know.beta, Ku24Degree))'
    BY <1>k, <2>3, <2>7, <2>9 DEF SharedAt
  <2> QED BY <1>x, <2>3, <2>10 DEF Ku24Complete
<1>3. CASE Ku24CheckTriple
  <2>1. stage' = "ku24_presign_4"
    BY <1>3 DEF Ku24CheckTriple, Step, Return
  <2> QED BY <1>x, <2>1 DEF Ku24Complete
<1>4. CASE Ku24Presign
  <2> DEFINE w == Ku24Opened(know.wSent, t)
             kInv == [i \in Signers |-> Fl(Inv(w) * know.a[i])]
             R == Ku24Opened(know.R, t)
  <2>1. ~Return("ku24_presign_4", Everyone(Refused))
    BY DEF Return
  <2>2. PICK zero \in Ku24Zeros(Blinds) : Step("ku24_presign_4", "ku24_sign_1", [kInv |-> kInv, R |-> R, zero |-> zero])
    BY Zenon, <1>4, <2>1 DEF Ku24Presign
  <2>3. /\ stage = "ku24_presign_4" /\ w # 0
        /\ Ku24Consistent(know.wSent, t) /\ Ku24Consistent(know.R, t)
    BY <1>4, <2>1 DEF Ku24Presign, Step
  <2>4. w = Ku24W /\ w \in Field /\ R = Ku24K
    BY <2>3, Ku24OpensNonce
  <2>5. kInv = [i \in Signers |-> Fl(Inv(w) * know.a[i])]
    OBVIOUS
  <2> HIDE DEF w, R, kInv
  <2>6. Ku24K \in Field /\ Ku24K \in Int /\ Ku24A \in Field /\ Ku24A \in Int
    BY <1>s, Ku24Drawn DEF Ku24Settled, Ku24K, Ku24A
  <2>7. w = Fl(Ku24K * Ku24A)
    <3> DEFINE ka == Ku24K * Ku24A
    <3>0. Ku24Err("w") = 0
      BY Zenon, <1>f, Ku24ErrType
    <3>1. Ku24Err("w") = 0 /\ ka \in Int
      BY <2>6, <3>0
    <3>2. w = Fl(ka + 0)
      BY <2>4, <3>1 DEF Ku24W
    <3> HIDE DEF ka
    <3>3. w = Fl(ka)
      BY <3>1, <3>2
    <3> QED BY <3>3 DEF ka
  <2> DEFINE v == Inv(w)
             va == Fl(v * Ku24A)
  <2>8. v \in Int /\ va = Fl(v * Ku24A)
    BY <2>3, <2>4, InvInt
  <2>9. Fl(va * Ku24K) = 1
    <3> DEFINE k == Ku24K
               A == Ku24A
    <3>1. k \in Field /\ A \in Field /\ w \in Field /\ w # 0 /\ w = Fl(k * A) /\ va = Fl(Inv(w) * A)
      BY <2>3, <2>4, <2>6, <2>7
    <3> HIDE DEF k, A, va
    <3>2. Fl(va * k) = 1
      BY <3>1, InverseOver
    <3> QED BY <3>2 DEF k
  <2>10. kInv = [i \in Signers |-> Fl(v * know.a[i])]
    BY <2>5
  <2> HIDE DEF v
  <2>11. stage' = "ku24_sign_1" /\ know'.kInv = kInv /\ know'.R = R /\ know'.zero = zero
    BY <2>2, StepKeeps
  <2>12. Ku24Zeros(Blinds)' = Ku24Zeros(Blinds)
    <3>1. Ku24Subsets' = Ku24Subsets
      BY <1>k DEF Ku24Subsets
    <3> QED BY <1>k, <3>1 DEF Ku24Zeros, Ku24Zero, Ku24Rand, Ku24Fa
  <2>13. (/\ know.zero \in Ku24Zeros(Blinds)
          /\ \E u \in Int : /\ Fl(Fl(u * Ku24A) * Ku24K) = 1
                            /\ know.kInv = [i \in Signers |-> Fl(u * know.a[i])])'
    BY <1>k, <2>2, <2>8, <2>9, <2>10, <2>11, <2>12
  <2> QED BY <1>k, <1>x, <2>4, <2>11, <2>13 DEF Ku24Complete
<1>5. CASE Ku24Partial
  <2> DEFINE s == [i \in Signers |->
                 Fl(know.kInv[i] * Fl(digest + XCoord(know.R) * know.x[i]) + know.zero[i] + Off(i, "s"))]
  <2>1. Step("ku24_sign_1", "ku24_sign_2", [s |-> s])
    BY <1>5 DEF Ku24Partial
  <2>2. stage = "ku24_sign_1"
    BY <2>1 DEF Step
  <2>3. \E c \in Field : /\ SharedAt(s, 2 * Ku24Degree, c)
                         /\ Fl(c * Ku24K) = Fl(digest + XCoord(Ku24K) * key)
    BY <1>f, <2>2, Ku24Signed
  <2> HIDE DEF s
  <2>4. PICK c \in Field : /\ SharedAt(s, 2 * Ku24Degree, c)
                           /\ Fl(c * Ku24K) = Fl(digest + XCoord(Ku24K) * key)
    BY <2>3
  <2>5. stage' = "ku24_sign_2" /\ know'.s = s
    BY <2>1, StepKeeps
  <2>6. know'.R = know.R
    BY <2>1, <2>2, StepKeeps DEF Ku24Known, Has
  <2>7. know.R = Ku24K
    BY <1>f, <2>2 DEF Ku24Complete
  <2>8. SharedAt(know.s, 2 * Ku24Degree, c)'
    BY <1>k, <2>4, <2>5 DEF SharedAt
  <2>9. (\E e \in Field : /\ SharedAt(know.s, 2 * Ku24Degree, e)
                          /\ Fl(e * Ku24K) = Fl(digest + XCoord(Ku24K) * key))'
    BY <1>k, <1>o, <2>4, <2>8
  <2> QED BY <1>k, <1>x, <2>5, <2>6, <2>7, <2>9 DEF Ku24Complete
<1>6. CASE Ku24Combine
  <2> DEFINE s == Ku24Opened(know.s, 2 * Ku24Degree)
  <2>1. Step("ku24_sign_2", "ku24_sign_3", [s |-> s])
    BY <1>6 DEF Ku24Combine, Return
  <2>2. stage = "ku24_sign_2"
    BY <2>1 DEF Step
  <2>3. PICK c \in Field : /\ SharedAt(know.s, 2 * Ku24Degree, c)
                           /\ Fl(c * Ku24K) = Fl(digest + XCoord(Ku24K) * key)
    BY <1>f, <2>2 DEF Ku24Complete
  <2>4. s = c
    <3> DEFINE g == know.s
    <3>1. Ku24Majority /\ SharedAt(g, 2 * Ku24Degree, c)
      BY <1>s, <2>3 DEF Ku24Settled
    <3> HIDE DEF g
    <3>2. Ku24Opened(g, 2 * Ku24Degree) = c
      BY <3>1, Ku24Enough, SharedOpens
    <3> QED BY <3>2 DEF g
  <2> HIDE DEF s
  <2>5. stage' = "ku24_sign_3" /\ know'.s = c
    BY <2>1, <2>4, StepKeeps
  <2>6. know'.R = know.R
    BY <2>1, <2>2, StepKeeps DEF Ku24Known, Has
  <2>7. know.R = Ku24K
    BY <1>f, <2>2 DEF Ku24Complete
  <2> QED BY <1>k, <1>o, <1>x, <2>3, <2>5, <2>6, <2>7 DEF Ku24Complete
<1>7. CASE Ku24Finish
  BY <1>7 DEF Ku24Finish, Return
<1> QED BY <1>1, <1>2, <1>3, <1>4, <1>5, <1>6, <1>7 DEF Ku24SignNext

\* Without a wrong share the check on the triple passes and what is opened with
\* it is what was shared.
LEMMA Ku24OpensRight ==
    ASSUME Session, Ku24Known, Ku24Equations, Ku24Complete, Cardinality(Signers) >= 2,
           know.fault = "none", stage = "ku24_presign_4"
    PROVE  /\ Ku24Consistent(know.t, Ku24Degree) /\ Ku24Opened(know.t, Ku24Degree) = 0
           /\ Ku24Consistent(know.wSent, Ku24Degree) /\ Ku24Consistent(know.R, Ku24Degree)
           /\ Ku24Opened(know.wSent, Ku24Degree) = Fl(Ku24K * Ku24A)
           /\ Ku24Opened(know.R, Ku24Degree) = Ku24K
<1> DEFINE d == Ku24Degree
           k == Ku24K
           a == Ku24A
           r == Ku24Opened(know.r, d)
           b == Ku24Opened(know.beta, d)
           tau == know.tau
           w == know.w
           ka == Fl(k * a)
           ra == Fl(r * a)
           rak == Fl(ra * k)
           check == [i \in Signers |-> Ku24TripleCheck(tau[i], w[i], r, b)]
           sent == know.t
           wSent == know.wSent
           R == know.R
           kShares == know.k
<1>1. Ku24Settled /\ Ku24Majority /\ d \in Nat /\ d < Cardinality(Signers)
  BY Ku24Enough DEF Ku24Equations, Ku24Settled
<1>2. /\ k \in Field /\ k \in Int /\ a \in Field /\ a \in Int /\ SharedAt(kShares, d, k)
  BY <1>1, Ku24Drawn DEF Ku24Settled, Ku24K, Ku24A
<1>3. r \in Int /\ b \in Int
  BY Ku24OpenedType DEF Ku24Known, Has
<1>4. /\ SharedAt(w, d, Ku24W) /\ SharedAt(tau, d, Ku24Tau(r))
      /\ sent = [i \in Signers |-> Fl(Off(i, "t") + Ku24TripleCheck(tau[i], w[i], r, b))]
      /\ wSent = [i \in Signers |-> Fl(w[i] + Off(i, "w_share"))]
      /\ R = [i \in Signers |-> Fl(kShares[i] + Off(i, "R"))]
  BY DEF Ku24Equations
<1>5. Ku24Err("w") = 0 /\ Ku24Err("mu") = 0 /\ Ku24Err("tau") = 0
  BY Zenon, Ku24ErrType
<1>6. Ku24W = Fl(k * a + 0) /\ Ku24Tau(r) = Fl(Fl(r * a + 0) * k + 0)
  BY <1>5 DEF Ku24W, Ku24Tau, Ku24Mu
<1> HIDE DEF k, a, r, b, tau, w, sent, wSent, R, kShares, d
<1>7. k * a \in Int /\ r * a \in Int /\ k * a + 0 = k * a /\ r * a + 0 = r * a
  BY <1>2, <1>3
<1>8. ka \in Field /\ ka \in Int /\ ra \in Int
  BY <1>7, FlInt
<1>9. Ku24W = ka
  BY <1>6, <1>7
<1>10. Ku24Tau(r) = Fl(ra * k + 0)
  BY <1>6, <1>7
<1> HIDE DEF ka, ra
<1>11. ra * k \in Int /\ ra * k + 0 = ra * k
  BY <1>2, <1>8
<1>12. rak \in Int /\ Ku24Tau(r) = rak
  BY <1>10, <1>11, FlInt
<1> DEFINE rka == Fl(r * ka)
<1>13. rak = rka
  <2> DEFINE x == r * a
             y == k * a
  <2>1. x \in Int /\ y \in Int /\ x * k = r * y
    BY <1>2, <1>3
  <2> HIDE DEF x, y
  <2>2. Fl(Fl(x) * k) = Fl(x * k)
    BY <1>2, <2>1, FlMul
  <2>3. Fl(r * Fl(y)) = Fl(r * y)
    BY <1>3, <2>1, FlMulRight
  <2> QED BY <2>1, <2>2, <2>3 DEF x, y, ra, ka
<1> DEFINE e == rak - rka
           cV == Fl(b * Fl(e))
<1>14. SharedAt(check, d, cV)
  <2> HIDE DEF rak
  <2>1. SharedAt(tau, d, rak) /\ SharedAt(w, d, ka)
    BY <1>4, <1>9, <1>12
  <2> QED BY <1>3, <1>8, <1>12, <2>1, Ku24CheckShared
<1>15. cV = 0
  <2>1. e = 0
    <3> HIDE DEF rak, rka
    <3> QED BY <1>12, <1>13
  <2> HIDE DEF e
  <2>2. Fl(e) = 0 /\ b * 0 = 0
    BY <1>3, <2>1, FlField, QAssumption DEF Field
  <2>3. cV = Fl(b * 0)
    BY <2>2
  <2> QED BY <2>2, <2>3, FlField, QAssumption DEF Field
<1> HIDE DEF cV
<1>16. /\ SharedAt(check, d, 0) /\ 0 \in Field
       /\ sent = [i \in Signers |-> Fl(check[i] + Off(i, "t"))]
  <2>1. \A i \in Signers : Off(i, "t") + Ku24TripleCheck(tau[i], w[i], r, b) = check[i] + Off(i, "t")
    <3> SUFFICES ASSUME NEW i \in Signers
                 PROVE  Off(i, "t") + Ku24TripleCheck(tau[i], w[i], r, b) = check[i] + Off(i, "t")
      OBVIOUS
    <3>1. check[i] = Ku24TripleCheck(tau[i], w[i], r, b) /\ check[i] \in Int /\ Off(i, "t") \in Int
      BY <1>14, OffType DEF SharedAt
    <3> QED BY <3>1
  <2>2. 0 \in Field
    BY QAssumption DEF Field
  <2> QED BY <1>4, <1>14, <1>15, <2>1, <2>2
<1> DEFINE null == 0
<1>17. null \in Field /\ SharedAt(check, d, null)
  BY <1>16
<1> HIDE DEF null, check
<1>18. SharedAt(sent, d, null)
  BY Zenon, <1>16, <1>17, Ku24SentRight
<1>19. SharedAt(wSent, d, ka)
  BY Zenon, <1>4, <1>8, <1>9, Ku24SentRight
<1>20. SharedAt(R, d, k)
  BY <1>2, <1>4, Ku24SentRight
<1>21. Ku24Opened(sent, d) = null /\ Ku24Consistent(sent, d)
  BY <1>1, <1>18, SharedOpens
<1>22. Ku24Opened(wSent, d) = ka /\ Ku24Consistent(wSent, d)
  BY <1>1, <1>19, SharedOpens
<1>23. Ku24Opened(R, d) = k /\ Ku24Consistent(R, d)
  BY <1>1, <1>20, SharedOpens
<1> QED BY <1>21, <1>22, <1>23 DEF null, ka, k, a, d, sent, wSent, R

LEMMA Ku24Refusals ==
    ASSUME Session, Cardinality(Signers) >= 2, Ku24Known, Ku24Equations, Ku24Complete, Ku24SignNext,
           stage' = "ended", NEW i \in DOMAIN answer', answer'[i] = Refused
    PROVE  Ku24Excuse
<1> SUFFICES ASSUME ~Ku24Excuse PROVE FALSE
  OBVIOUS
<1>0. /\ know.fault = "none" /\ Ku24K # 0 /\ Ku24A # 0
      /\ Ku24Opened(know.beta, Ku24Degree) # 0 /\ ~NoSignature(XCoord(Ku24K))
  BY DEF Ku24Excuse, Ku24K, Ku24A
<1>s. Ku24Settled /\ Ku24Majority
  BY DEF Ku24Equations, Ku24Settled
<1>v. /\ know.k \in Ints /\ Ku24K \in Field /\ Ku24K \in Int /\ SharedAt(know.k, Ku24Degree, Ku24K)
      /\ Ku24A \in Field /\ Ku24A \in Int
      /\ know.a \in Ku24Draws(Scalars) \cup Ku24Draws(Blinds)
      /\ know.k \in Ku24Draws(Scalars) \cup Ku24Draws(Blinds)
  BY <1>s, Ku24Drawn DEF Ku24Settled, Ku24K, Ku24A
<1>1. CASE Ku24MultiplyOnce
  <2>1. stage = "ku24_presign_1"
    BY <1>1 DEF Ku24MultiplyOnce, Step, Return
  <2>2. PICK wMask \in Ku24Draws(Blinds), muMask \in Ku24Draws(Blinds),
             wZero \in Ku24Zeros(Blinds), muZero \in Ku24Zeros(Blinds) :
          ~(/\ Ku24Consistent(Ku24Product(know.k, know.a, wMask, wZero, "w"), 2 * Ku24Degree)
            /\ Ku24Consistent(Ku24Product(know.r, know.a, muMask, muZero, "mu"), 2 * Ku24Degree))
    BY <1>1 DEF Ku24MultiplyOnce, Step
  <2>3. know.r \in Ints /\ Ku24Opened(know.r, Ku24Degree) \in Field
        /\ SharedAt(know.r, Ku24Degree, Ku24Opened(know.r, Ku24Degree))
    BY <1>s, <2>1, Ku24Drawn DEF Ku24Equations
  <2> DEFINE k == know.k
             a == know.a
             r == know.r
             c == Ku24Opened(know.r, Ku24Degree)
  <2>4. /\ k \in Ints /\ SharedAt(k, Ku24Degree, Ku24K) /\ a \in Ku24Draws(Scalars) \cup Ku24Draws(Blinds)
        /\ r \in Ints /\ SharedAt(r, Ku24Degree, c) /\ c \in Field
        /\ know.fault # "w" /\ know.fault # "mu"
    BY <1>0, <1>v, <2>3
  <2>5. ~(/\ Ku24Consistent(Ku24Product(k, a, wMask, wZero, "w"), 2 * Ku24Degree)
          /\ Ku24Consistent(Ku24Product(r, a, muMask, muZero, "mu"), 2 * Ku24Degree))
    BY <2>2
  <2> HIDE DEF k, a, r, c
  <2>6. Ku24Consistent(Ku24Product(k, a, wMask, wZero, "w"), 2 * Ku24Degree)
    BY <1>s, <1>v, <2>4, Ku24Multiplied
  <2>7. Ku24Consistent(Ku24Product(r, a, muMask, muZero, "mu"), 2 * Ku24Degree)
    BY <1>s, <2>4, Ku24Multiplied
  <2> QED BY <2>5, <2>6, <2>7
<1>2. CASE Ku24MultiplyTwice
  <2>1. stage = "ku24_presign_2"
    BY <1>2 DEF Ku24MultiplyTwice, Step, Return
  <2>2. PICK mask \in Ku24Draws(Blinds), zero \in Ku24Zeros(Blinds) :
          ~Ku24Consistent(Ku24Product(know.mu, know.k, mask, zero, "tau"), 2 * Ku24Degree)
    BY <1>2 DEF Ku24MultiplyTwice, Step
  <2> DEFINE k == know.k
             mu == know.mu
             x == Ku24Opened(know.r, Ku24Degree)
             err == Ku24Err("mu")
             c == Ku24Mu(x)
  <2>3. mu \in Ints /\ SharedAt(mu, Ku24Degree, c)
    BY <2>1 DEF Ku24Equations, Ku24Known, Has
  <2>4. x \in Int /\ err \in Int
    BY Zenon, Ku24ErrType, Ku24OpenedType DEF Ku24Known, Has
  <2>5. c \in Field
    <3>1. c = Fl(x * Ku24A + err)
      BY DEF Ku24Mu
    <3> HIDE DEF x, err, c
    <3>2. x * Ku24A + err \in Int
      BY <1>v, <2>4
    <3> QED BY <3>1, <3>2, FlInt
  <2>6. /\ k \in Ku24Draws(Scalars) \cup Ku24Draws(Blinds) /\ know.fault # "tau"
        /\ ~Ku24Consistent(Ku24Product(mu, k, mask, zero, "tau"), 2 * Ku24Degree)
    BY <1>0, <1>v, <2>2
  <2> HIDE DEF k, mu, c
  <2> QED BY <1>s, <2>3, <2>5, <2>6, Ku24Multiplied
<1>3. CASE Ku24CheckTriple
  <2>1. /\ stage = "ku24_presign_3"
        /\ ~Ku24Consistent(know.r, Ku24Degree) \/ ~Ku24Consistent(know.beta, Ku24Degree)
    BY <1>0, <1>3 DEF Ku24CheckTriple, Step
  <2>2. Ku24Consistent(know.beta, Ku24Degree)
    <3> DEFINE g == know.beta
               c == Ku24Opened(know.beta, Ku24Degree)
    <3>1. SharedAt(g, Ku24Degree, c)
      BY <1>0, <2>1 DEF Ku24Complete
    <3> HIDE DEF g, c
    <3>2. Ku24Consistent(g, Ku24Degree)
      BY <1>s, <3>1, Ku24Enough, SharedOpens
    <3> QED BY <3>2 DEF g
  <2>3. PICK r \in Ku24Draws(Blinds) : know.r = [j \in Signers |-> Fl(r[j] + Off(j, "r"))]
    BY <2>1 DEF Ku24Equations
  <2>4. Ku24Consistent(know.r, Ku24Degree)
    <3> DEFINE g == know.r
               c == Ku24Opened(r, Ku24Degree)
    <3>1. SharedAt(r, Ku24Degree, c) /\ c \in Field
      BY <1>s, Ku24Drawn
    <3>2. g = [j \in Signers |-> Fl(r[j] + Off(j, "r"))] /\ know.fault # "r"
      BY <1>0, <2>3
    <3> HIDE DEF g, c
    <3>3. SharedAt(g, Ku24Degree, c)
      BY <3>1, <3>2, Ku24SentRight
    <3>4. Ku24Consistent(g, Ku24Degree)
      BY <1>s, <3>3, Ku24Enough, SharedOpens
    <3> QED BY <3>4 DEF g
  <2> QED BY <2>1, <2>2, <2>4
<1>4. CASE Ku24Presign
  <2>1. stage = "ku24_presign_4"
    BY <1>4 DEF Ku24Presign, Step, Return
  <2>2. /\ Ku24Consistent(know.t, Ku24Degree) /\ Ku24Opened(know.t, Ku24Degree) = 0
        /\ Ku24Consistent(know.wSent, Ku24Degree) /\ Ku24Consistent(know.R, Ku24Degree)
        /\ Ku24Opened(know.wSent, Ku24Degree) = Fl(Ku24K * Ku24A)
        /\ Ku24Opened(know.R, Ku24Degree) = Ku24K
    BY <1>0, <2>1, Ku24OpensRight
  <2>3. Fl(Ku24K * Ku24A) # 0
    <3> DEFINE k == Ku24K
               a == Ku24A
    <3>1. k \in Field /\ k \in Int /\ a \in Field /\ a \in Int /\ k # 0 /\ a # 0
      BY <1>0, <1>v
    <3> HIDE DEF k, a
    <3>2. Fl(k) # 0 /\ Fl(a) # 0
      BY <3>1, FlField
    <3>3. Fl(k * a) # 0
      BY <3>1, <3>2, FlIntegral
    <3> QED BY <3>3 DEF k, a
  <2> QED BY <1>0, <1>4, <2>2, <2>3 DEF Ku24Presign, Step
<1>5. CASE Ku24Partial
  BY <1>5 DEF Ku24Partial, Step
<1>6. CASE Ku24Combine
  <2>1. stage = "ku24_sign_2" /\ ~Ku24Consistent(know.s, 2 * Ku24Degree)
    BY <1>6 DEF Ku24Combine, Step, Return
  <2>2. PICK c \in Field : SharedAt(know.s, 2 * Ku24Degree, c)
    BY <1>0, <2>1 DEF Ku24Complete
  <2> DEFINE g == know.s
  <2>3. SharedAt(g, 2 * Ku24Degree, c)
    BY <2>2
  <2> HIDE DEF g
  <2>4. Ku24Consistent(g, 2 * Ku24Degree)
    BY <1>s, <2>3, Ku24Enough, SharedOpens
  <2> QED BY <2>1, <2>4 DEF g
<1>7. CASE Ku24Finish
  <2> DEFINE s == know.s
             R == know.R
             outcome == IF s = 0 THEN Refused ELSE Checked(XCoord(R), s)
  <2>1. Return("ku24_sign_3", Everyone(outcome))
    BY <1>7 DEF Ku24Finish
  <2> HIDE DEF outcome
  <2>2. stage = "ku24_sign_3" /\ outcome = Refused
    BY <2>1, EveryoneRefused
  <2>3. R = Ku24K /\ s \in Field /\ Fl(s * R) = Fl(digest + XCoord(R) * key) /\ R \in Field /\ R # 0
    BY <1>0, <1>v, <2>2 DEF Ku24Complete, Ku24Known, Has
  <2>4. ~NoSignature(XCoord(R))
    BY <1>0, <2>3
  <2> HIDE DEF s, R
  <2>5. s # 0
    <3> SUFFICES ASSUME s = 0 PROVE FALSE
      OBVIOUS
    <3>1. R \in Int /\ Fl(0) = 0
      BY <2>3, ScalarsType, FlField, QAssumption DEF Field
    <3>2. s * R = 0
      BY <3>1
    <3> QED BY <2>3, <2>4, <3>1, <3>2 DEF NoSignature
  <2>6. Checked(XCoord(R), s) = Refused
    BY <2>2, <2>5 DEF outcome
  <2> QED BY <2>3, <2>4, <2>6, CheckedSucceeds
<1> QED BY <1>1, <1>2, <1>3, <1>4, <1>5, <1>6, <1>7 DEF Ku24SignNext

-----------------------------------------------------------------------------
(* Why a session is refused.                                                 *)

\* EquationsInv, what makes an honest session complete, and whose stage it is.
RefusedInv ==
    /\ EquationsInv
    /\ stage \in Gg18Stages => protocol = "gg18" /\ Gg18Complete
    /\ stage \in Dkls23Stages => protocol = "dkls23" /\ Dkls23Complete
    /\ stage \in Ggn16Stages => protocol = "ggn16" /\ Ggn16Complete
    /\ stage \in Cggmp20Stages => protocol = "cggmp20" /\ Cggmp20Complete
    /\ stage \in Lin17Stages => protocol = "lin17" /\ Lin17Complete
    /\ stage \in Xal21Stages => protocol = "xal21" /\ Xal21Complete
    /\ stage \in Kgg24Stages => protocol = "kgg24" /\ Kgg24Complete
    /\ stage \in Abc24Stages => protocol = "abc24" /\ Abc24Complete
    /\ stage \in Ln18Stages => protocol = "ln18" /\ Ln18Complete
    /\ stage \in Wmc24Stages => protocol = "wmc24" /\ Wmc24Complete
    /\ stage \in Wmy23Stages => protocol = "wmy23" /\ Wmy23Complete
    /\ stage \in Tx25Stages => protocol = "tx25" /\ Tx25Complete
    /\ stage \in Jtx25Stages => protocol \in {"jtx25", "jtx25_robust"} /\ Jtx25Complete
    /\ stage \in Llz25Stages => protocol = "llz25" /\ Llz25Complete
    /\ stage \in TroutStages => protocol = "trout" /\ TroutComplete
    /\ stage \in Xal23Stages => protocol = "xal23"
    /\ stage \in Ku24Stages => protocol = "ku24" /\ Ku24Complete
    /\ stage = "ended" => RefusedForAReason

\* The reasons depend on what a last stage leaves alone.
LEMMA ReasonsKept ==
    ASSUME know' = know, key' = key, digest' = digest, bent' = bent, protocol' = protocol
    PROVE  /\ Gg18Excuse' = Gg18Excuse
           /\ Dkls23Excuse' = Dkls23Excuse
           /\ Ggn16Excuse' = Ggn16Excuse
           /\ Cggmp20Excuse' = Cggmp20Excuse
           /\ Lin17Excuse' = Lin17Excuse
           /\ Xal21Excuse' = Xal21Excuse
           /\ Kgg24Excuse' = Kgg24Excuse
           /\ Abc24Excuse' = Abc24Excuse
           /\ Ln18Excuse' = Ln18Excuse
           /\ Wmc24Excuse' = Wmc24Excuse
           /\ Wmy23Excuse' = Wmy23Excuse
           /\ Tx25Excuse' = Tx25Excuse
           /\ Jtx25Excuse' = Jtx25Excuse
           /\ Llz25Excuse' = Llz25Excuse
           /\ TroutExcuse' = TroutExcuse
           /\ Xal23Excuse' = Xal23Excuse
           /\ Ku24Excuse' = Ku24Excuse
<1>s. Signers' = Signers /\ Pairs' = Pairs
  BY SameIndices
<1>1. Gg18Excuse' = Gg18Excuse
  BY <1>s DEF Gg18Excuse, Gg18Nonce, Gg18Wraps, Gg18Decrypted, NoSignature, Straight
<1>2. Dkls23Excuse' = Dkls23Excuse
  BY <1>s DEF Dkls23Excuse, NoSignature, Straight
<1>3. Ggn16Excuse' = Ggn16Excuse
  BY <1>s DEF Ggn16Excuse, NoSignature, Straight
<1>4. Cggmp20Excuse' = Cggmp20Excuse
  BY <1>s DEF Cggmp20Excuse, Cggmp20Nonce, NoSignature, Straight
<1>5. Lin17Excuse' = Lin17Excuse
  BY <1>s DEF Lin17Excuse, Lin17Nonce, NoSignature, Straight
<1>6. Xal21Excuse' = Xal21Excuse
  BY <1>s DEF Xal21Excuse, NoSignature, Straight
<1>7. Kgg24Excuse' = Kgg24Excuse
  BY <1>s DEF Kgg24Excuse, Kgg24Nonce, NoSignature, Straight
<1>8. Abc24Excuse' = Abc24Excuse
  BY <1>s DEF Abc24Excuse, Abc24Nonce, NoSignature, Straight
<1>9. Ln18Excuse' = Ln18Excuse
  BY <1>s DEF Ln18Excuse, Ln18Alpha, Ln18Wraps, Straight
<1>10. Wmc24Excuse' = Wmc24Excuse
  BY <1>s DEF Wmc24Excuse, NoSignature, Straight
<1>11. Wmy23Excuse' = Wmy23Excuse
  BY <1>s DEF Wmy23Excuse, NoSignature, Secret, Straight, Wmy23Nonce
<1>12. Tx25Excuse' = Tx25Excuse
  BY <1>s DEF Tx25Excuse, Faulty, NoSignature, SharingRefused, Tx25Left
<1>13. Jtx25Excuse' = Jtx25Excuse
  BY <1>s DEF Jtx25Excuse, NoSignature
<1>14. Llz25Excuse' = Llz25Excuse
  BY <1>s DEF Llz25Excuse, NoSignature
<1>15. TroutExcuse' = TroutExcuse
  BY <1>s DEF TroutExcuse, NoSignature
<1>16. Xal23Excuse' = Xal23Excuse
  BY <1>s DEF Xal23Excuse, NoSignature, Xal23Hopeless
<1>17. Ku24Excuse' = Ku24Excuse
  BY <1>s DEF Ku24Excuse, Ku24Opened, NoSignature, Position
<1> QED BY <1>1, <1>2, <1>3, <1>4, <1>5, <1>6, <1>7, <1>8, <1>9, <1>10, <1>11, <1>12, <1>13, <1>14, <1>15, <1>16, <1>17

LEMMA UnsupportedKept ==
    ASSUME know' = know, key' = key, bent' = bent, protocol' = protocol
    PROVE  Unsupported' = Unsupported
<1>1. Signers' = Signers
  BY SameIndices
<1>2. Jtx25Left' = Jtx25Left
  BY <1>1 DEF Jtx25Left, Jtx25Online, Faulty
<1>3. Xal23Misfit' = Xal23Misfit
  BY <1>1 DEF Xal23Misfit, Xal23KeyFound, Xal23KeyIndex, Position
<1> QED BY <1>2, <1>3 DEF Unsupported

\* The four whose definitions are too deep to be compared in one step.
LEMMA Dkls23CompleteStutter ==
    ASSUME Dkls23Complete, stage' = stage, know' = know, bent' = bent, protocol' = protocol
    PROVE  Dkls23Complete'
<1>1. Signers' = Signers /\ Straight' = Straight
  BY SameSigners DEF Straight
<1>2. \A i : Dkls23Accepts(i)' = Dkls23Accepts(i)
  BY <1>1 DEF Dkls23Accepts, Dkls23Consistent, Others
<1> QED BY <1>1, <1>2 DEF Dkls23Complete

LEMMA Wmy23CompleteStutter ==
    ASSUME Wmy23Complete, stage' = stage, know' = know, bent' = bent, protocol' = protocol
    PROVE  Wmy23Complete'
<1>1. Signers' = Signers /\ Straight' = Straight
  BY SameSigners DEF Straight
<1>2. \A i : /\ Wmy23ShareOf(i, know.x, know.nu)' = Wmy23ShareOf(i, know.x, know.nu)
             /\ Wmy23ShareOf(i, know.gamma, know.beta)' = Wmy23ShareOf(i, know.gamma, know.beta)
  BY <1>1 DEF Wmy23ShareOf, Wmy23Alpha, Others
<1>3. Secret(know.gammaPoly)' = Secret(know.gammaPoly) /\ Wmy23Delta' = Wmy23Delta
  BY <1>1 DEF Secret, Wmy23Delta
<1>4. (stage \in {"wmy23_presign_5", "wmy23_sign"} =>
         /\ \A i \in Signers : know.D[i] = Fl(Total(know.gamma, Signers) * know.k[i])
         /\ know.sigma = [i \in Signers |-> Wmy23ShareOf(i, know.x, know.nu)]
         /\ bent = Straight => \A i \in Signers :
                know.delta[i] = Fl(Wmy23ShareOf(i, know.gamma, know.beta)))'
  BY <1>1, <1>2 DEF Wmy23Complete
<1>5. (stage = "wmy23_sign" => /\ know.R = Fl(Total(know.Gamma, Signers) * Inv(Wmy23Delta))
                               /\ Wmy23Delta # 0)'
  BY <1>1, <1>3 DEF Wmy23Complete
<1>6. /\ (stage # "wmy23_presign_1" => Total(know.gamma, Signers) = Secret(know.gammaPoly))'
      /\ (stage \in {"wmy23_presign_3", "wmy23_presign_4"} /\ bent = Straight => know.Gamma = know.gamma)'
  BY <1>1, <1>3 DEF Wmy23Complete
<1> QED BY <1>4, <1>5, <1>6 DEF Wmy23Complete

LEMMA Tx25CompleteStutter ==
    ASSUME Tx25Complete, stage' = stage, know' = know, key' = key, digest' = digest, bent' = bent,
           protocol' = protocol
    PROVE  Tx25Complete'
<1>1. Signers' = Signers /\ Pairs' = Pairs /\ P1' = P1 /\ P2' = P2
  BY SameIndices, SameTwo
<1>2. /\ Secret(know.kPoly)' = Secret(know.kPoly)
      /\ \A S : Reconstruct(know.x, S)' = Reconstruct(know.x, S)
      /\ \A S : Reconstruct(know.k, S)' = Reconstruct(know.k, S)
      /\ Tx25Products(know.x, know.nu)' = Tx25Products(know.x, know.nu)
      /\ Tx25Products(know.k, know.beta)' = Tx25Products(know.k, know.beta)
  BY <1>1 DEF Secret, Tx25Products
<1>3. \A i : /\ Victim(i)' = Victim(i)
             /\ Off(i, "delta")' = Off(i, "delta") /\ Off(i, "chi")' = Off(i, "chi")
             /\ Off(i, "nonce_and_chi")' = Off(i, "nonce_and_chi")
  BY <1>1 DEF Victim, Off
<1>4. ASSUME NEW i, NEW j, NEW z
      PROVE  /\ Tx25DeltaEntry(i, j, z)' = Tx25DeltaEntry(i, j, z)
             /\ Tx25ChiEntry(i, j, z)' = Tx25ChiEntry(i, j, z)
  BY <1>2, <1>3 DEF Tx25DeltaEntry, Tx25ChiEntry
<1>5. (stage \in {"tx25_sign_2", "tx25_sign_3"} => \E slope \in Blinds : \A i \in Signers : \A j \in Signers :
         know.delta[i][j] = Tx25DeltaEntry(i, j, slope) /\ know.chi[i][j] = Tx25ChiEntry(i, j, slope))'
  <2> SUFFICES ASSUME stage \in {"tx25_sign_2", "tx25_sign_3"}
               PROVE  (\E slope \in Blinds : \A i \in Signers : \A j \in Signers :
                         know.delta[i][j] = Tx25DeltaEntry(i, j, slope) /\ know.chi[i][j] = Tx25ChiEntry(i, j, slope))'
    OBVIOUS
  <2>1. PICK slope \in Blinds : \A i \in Signers : \A j \in Signers :
          know.delta[i][j] = Tx25DeltaEntry(i, j, slope) /\ know.chi[i][j] = Tx25ChiEntry(i, j, slope)
    BY DEF Tx25Complete
  <2>2. \A i \in Signers : \A j \in Signers : /\ know'.delta[i][j] = Tx25DeltaEntry(i, j, slope)'
                                              /\ know'.chi[i][j] = Tx25ChiEntry(i, j, slope)'
    BY <1>4, <2>1
  <2> QED BY <1>1, <2>2
<1>6. Tx25Cheaters' = Tx25Cheaters
  <2>1. \A j : /\ Tx25Recomputed(j, know.beta, know.delta[j])' = Tx25Recomputed(j, know.beta, know.delta[j])
               /\ Tx25Recomputed(j, [p \in Pairs |-> Fl(know.nu[p] * XCoord(know.R))], know.chi[j])'
                    = Tx25Recomputed(j, [p \in Pairs |-> Fl(know.nu[p] * XCoord(know.R))], know.chi[j])
    BY <1>1 DEF Tx25Recomputed
  <2> QED BY <1>1, <1>2, <2>1 DEF Tx25Cheaters
<1>7. \A S : Tx25Assembled(S)' = Tx25Assembled(S)
  BY DEF Tx25Assembled, Tx25Numerator, Tx25Denominator, Tx25Bilinear
<1>8. (stage = "tx25_sign_3" =>
         /\ know.all = Tx25Assembled(Signers)
         /\ know.rest = LET honest == Signers \ Tx25Cheaters
                        IN IF honest # Signers /\ Cardinality(honest) >= T THEN Tx25Assembled(honest) ELSE 0)'
  <2>1. /\ Tx25Assembled(Signers)' = Tx25Assembled(Signers)
        /\ (Signers \ Tx25Cheaters)' = Signers \ Tx25Cheaters
        /\ Tx25Assembled(Signers \ Tx25Cheaters)' = Tx25Assembled(Signers \ Tx25Cheaters)
    BY <1>1, <1>6, <1>7 DEF Tx25Assembled, Tx25Numerator, Tx25Denominator, Tx25Bilinear
  <2> QED BY Zenon, <1>1, <2>1 DEF Tx25Complete
<1>9. (stage = "tx25_sign_1" => know.delta = Tx25Products(know.k, know.beta))'
  BY <1>2 DEF Tx25Complete
<1>10. (stage \in {"tx25_sign_1", "tx25_sign_2", "tx25_sign_3"} =>
          /\ know.R = Reconstruct(know.k, Signers)
          /\ know.zeta = Tx25Products(know.x, know.nu))'
  BY <1>1, <1>2 DEF Tx25Complete
<1> QED BY <1>1, <1>2, <1>5, <1>8, <1>9, <1>10 DEF Tx25Complete, Has

LEMMA Ku24CompleteStutter ==
    ASSUME Ku24Complete, stage' = stage, know' = know, key' = key, digest' = digest, bent' = bent,
           protocol' = protocol
    PROVE  Ku24Complete'
<1>1. Signers' = Signers
  BY SameSigners
<1>2. Ku24Subsets' = Ku24Subsets
  BY <1>1 DEF Ku24Subsets
<1>3. Ku24Zeros(Blinds)' = Ku24Zeros(Blinds)
  BY <1>1, <1>2 DEF Ku24Zeros, Ku24Zero, Ku24Rand, Ku24Fa
<1>4. /\ Ku24K' = Ku24K /\ Ku24A' = Ku24A
      /\ Ku24Opened(know.beta, Ku24Degree)' = Ku24Opened(know.beta, Ku24Degree)
  BY <1>1 DEF Ku24K, Ku24A, Ku24Opened, Position
<1>5. SharedAt(know.x, Ku24Degree, key)' = SharedAt(know.x, Ku24Degree, key)
  BY <1>1 DEF SharedAt
<1>6. SharedAt(know.beta, Ku24Degree, Ku24Opened(know.beta, Ku24Degree))'
        = SharedAt(know.beta, Ku24Degree, Ku24Opened(know.beta, Ku24Degree))
  BY <1>1, <1>4 DEF SharedAt
<1>7. \A c : SharedAt(know.s, 2 * Ku24Degree, c)' = SharedAt(know.s, 2 * Ku24Degree, c)
  BY <1>1 DEF SharedAt
<1>8. (know.fault = "none" /\ stage = "ku24_sign_2" =>
         \E c \in Field : /\ SharedAt(know.s, 2 * Ku24Degree, c)
                          /\ Fl(c * Ku24K) = Fl(digest + XCoord(Ku24K) * key))'
  BY <1>4, <1>7 DEF Ku24Complete
<1>9. (know.fault = "none" /\ stage = "ku24_sign_1" =>
         /\ know.zero \in Ku24Zeros(Blinds)
         /\ \E v \in Int : /\ Fl(Fl(v * Ku24A) * Ku24K) = 1
                           /\ know.kInv = [i \in Signers |-> Fl(v * know.a[i])])'
  BY <1>1, <1>3, <1>4 DEF Ku24Complete
<1>10. (know.fault = "none" /\ stage \in {"ku24_presign_1", "ku24_presign_2", "ku24_presign_3"} =>
          SharedAt(know.beta, Ku24Degree, Ku24Opened(know.beta, Ku24Degree)))'
  BY <1>6 DEF Ku24Complete
<1>11. (know.fault = "none" => SharedAt(know.x, Ku24Degree, key))'
  BY <1>5 DEF Ku24Complete
<1>12. /\ (know.fault = "none" /\ stage \in {"ku24_sign_1", "ku24_sign_2", "ku24_sign_3"} => know.R = Ku24K)'
       /\ (know.fault = "none" /\ stage = "ku24_sign_3" =>
             Fl(know.s * Ku24K) = Fl(digest + XCoord(Ku24K) * key))'
  BY <1>4 DEF Ku24Complete
<1> QED BY <1>8, <1>9, <1>10, <1>11, <1>12 DEF Ku24Complete

\* What makes a session complete does not change when the state does not.
LEMMA CompleteStutter ==
    ASSUME stage' = stage, know' = know, key' = key, digest' = digest, bent' = bent, protocol' = protocol
    PROVE  /\ (Gg18Complete => Gg18Complete')
           /\ (Dkls23Complete => Dkls23Complete')
           /\ (Ggn16Complete => Ggn16Complete')
           /\ (Cggmp20Complete => Cggmp20Complete')
           /\ (Lin17Complete => Lin17Complete')
           /\ (Xal21Complete => Xal21Complete')
           /\ (Kgg24Complete => Kgg24Complete')
           /\ (Abc24Complete => Abc24Complete')
           /\ (Ln18Complete => Ln18Complete')
           /\ (Wmc24Complete => Wmc24Complete')
           /\ (Wmy23Complete => Wmy23Complete')
           /\ (Tx25Complete => Tx25Complete')
           /\ (Jtx25Complete => Jtx25Complete')
           /\ (Llz25Complete => Llz25Complete')
           /\ (TroutComplete => TroutComplete')
           /\ (Ku24Complete => Ku24Complete')
<1>s. /\ Signers' = Signers /\ Pairs' = Pairs
      /\ Straight' = Straight /\ \A i : \A where : Off(i, where)' = Off(i, where)
  BY SameIndices DEF Straight, Off
<1>1. Gg18Complete => Gg18Complete'
  BY <1>s DEF Gg18Complete, Gg18Nonce, Straight
<1>2. Dkls23Complete => Dkls23Complete'
  BY Dkls23CompleteStutter
<1>3. Ggn16Complete => Ggn16Complete'
  BY <1>s DEF Ggn16Complete
<1>4. Cggmp20Complete => Cggmp20Complete'
  BY <1>s DEF Cggmp20Complete, Cggmp20Nonce, Straight
<1>5. Lin17Complete => Lin17Complete'
  BY <1>s DEF Lin17Complete, Lin17Nonce, Lin17SPrime, Straight
<1>6. Xal21Complete => Xal21Complete'
  BY <1>s DEF Xal21Complete, Straight, Xal21ReshareHolds, Xal21TB
<1>7. Kgg24Complete => Kgg24Complete'
  BY <1>s DEF Kgg24Complete, Kgg24Nonce, Straight
<1>8. Abc24Complete => Abc24Complete'
  BY <1>s DEF Abc24Complete, Abc24Nonce, Straight
<1>9. Ln18Complete => Ln18Complete'
  BY <1>s DEF Ln18Complete, Ln18Wraps, Straight, Has
<1>10. Wmc24Complete => Wmc24Complete'
  BY <1>s DEF Wmc24Complete, Straight, Wmc24DlClHolds, Wmc24ElClHolds
<1>11. Wmy23Complete => Wmy23Complete'
  BY Wmy23CompleteStutter
<1>12. Tx25Complete => Tx25Complete'
  BY Tx25CompleteStutter
<1>13. Jtx25Complete => Jtx25Complete'
  BY <1>s DEF Jtx25Complete, Jtx25Weighted, Off, Has
<1>14. Llz25Complete => Llz25Complete'
  BY <1>s DEF Llz25Complete
<1>15. TroutComplete => TroutComplete'
  BY <1>s DEF TroutComplete, Has
<1>17. Ku24Complete => Ku24Complete'
  BY Ku24CompleteStutter
<1> QED BY <1>1, <1>2, <1>3, <1>4, <1>5, <1>6, <1>7, <1>8, <1>9, <1>10, <1>11, <1>12, <1>13, <1>14, <1>15, <1>17

\* Everything that a session begins with.
LEMMA RefusedInit == Init => RefusedInv
<1> SUFFICES ASSUME Init PROVE RefusedInv
  OBVIOUS
<1>1. PICK f \in Sharings : /\ key = f[0]
                            /\ \/ protocol = "gg18" /\ Gg18SignBegin(f)
                               \/ protocol = "dkls23" /\ Dkls23SignBegin(f)
                               \/ protocol = "ggn16" /\ Ggn16SignBegin(f)
                               \/ protocol = "cggmp20" /\ Cggmp20SignBegin(f)
                               \/ protocol = "lin17" /\ Lin17SignBegin(f)
                               \/ protocol = "xal21" /\ Xal21SignBegin(f)
                               \/ protocol = "kgg24" /\ Kgg24SignBegin(f)
                               \/ protocol = "abc24" /\ Abc24SignBegin(f)
                               \/ protocol = "ln18" /\ Ln18SignBegin(f)
                               \/ protocol = "wmc24" /\ Wmc24SignBegin(f)
                               \/ protocol = "wmy23" /\ Wmy23SignBegin(f)
                               \/ protocol = "tx25" /\ Tx25SignBegin(f)
                               \/ protocol \in {"jtx25", "jtx25_robust"} /\ Jtx25SignBegin(f)
                               \/ protocol = "llz25" /\ Llz25SignBegin(f)
                               \/ protocol = "trout" /\ TroutSignBegin(f)
                               \/ protocol = "xal23" /\ Xal23SignBegin(f)
                               \/ protocol = "ku24" /\ Ku24SignBegin(f)
  BY DEF Init
<1>2. Session /\ Cardinality(Signers) >= 2
  BY <1>1, BeginSession, TwoSigners DEF Init
<1>3. EquationsInv
  BY EquationsInit
<1>4. CASE protocol = "gg18" /\ Gg18SignBegin(f)
  <2>1. stage \in Gg18Stages
    BY <1>1, <1>2, <1>4, Gg18Begins
  <2>2. Gg18Complete
    BY <1>4 DEF Gg18SignBegin, Gg18Complete
  <2> QED BY <1>3, <1>4, <2>1, <2>2, StagesDistinct DEF RefusedInv, Stages
<1>5. CASE protocol = "dkls23" /\ Dkls23SignBegin(f)
  <2>1. stage \in Dkls23Stages
    BY <1>1, <1>2, <1>5, Dkls23Begins
  <2>2. Dkls23Complete
    BY <1>5 DEF Dkls23SignBegin, Dkls23Complete
  <2> QED BY <1>3, <1>5, <2>1, <2>2, StagesDistinct DEF RefusedInv, Stages
<1>6. CASE protocol = "ggn16" /\ Ggn16SignBegin(f)
  <2>1. stage \in Ggn16Stages
    BY <1>1, <1>2, <1>6, Ggn16Begins
  <2>2. Ggn16Complete
    BY <1>1, <1>2, <1>6, Ggn16CompleteBegin
  <2> QED BY <1>3, <1>6, <2>1, <2>2, StagesDistinct DEF RefusedInv, Stages
<1>7. CASE protocol = "cggmp20" /\ Cggmp20SignBegin(f)
  <2>1. stage \in Cggmp20Stages
    BY <1>1, <1>2, <1>7, Cggmp20Begins
  <2>2. Cggmp20Complete
    BY <1>1, <1>2, <1>7, Cggmp20CompleteBegin
  <2> QED BY <1>3, <1>7, <2>1, <2>2, StagesDistinct DEF RefusedInv, Stages
<1>8. CASE protocol = "lin17" /\ Lin17SignBegin(f)
  <2>1. stage \in Lin17Stages
    BY <1>1, <1>2, <1>8, Lin17Begins
  <2>2. Lin17Complete
    BY <1>1, <1>2, <1>8, Lin17CompleteBegin
  <2> QED BY <1>3, <1>8, <2>1, <2>2, StagesDistinct DEF RefusedInv, Stages
<1>9. CASE protocol = "xal21" /\ Xal21SignBegin(f)
  <2>1. stage \in Xal21Stages
    BY <1>1, <1>2, <1>9, Xal21Begins
  <2>2. Xal21Complete
    BY <1>9 DEF Xal21SignBegin, Xal21Complete
  <2> QED BY <1>3, <1>9, <2>1, <2>2, StagesDistinct DEF RefusedInv, Stages
<1>10. CASE protocol = "kgg24" /\ Kgg24SignBegin(f)
  <2>1. stage \in Kgg24Stages
    BY <1>1, <1>2, <1>10, Kgg24Begins
  <2>2. Kgg24Complete
    BY <1>1, <1>2, <1>10, Kgg24CompleteBegin
  <2> QED BY <1>3, <1>10, <2>1, <2>2, StagesDistinct DEF RefusedInv, Stages
<1>11. CASE protocol = "abc24" /\ Abc24SignBegin(f)
  <2>1. stage \in Abc24Stages
    BY <1>1, <1>2, <1>11, Abc24Begins
  <2>2. Abc24Complete
    BY <1>1, <1>2, <1>11, Abc24CompleteBegin
  <2> QED BY <1>3, <1>11, <2>1, <2>2, StagesDistinct DEF RefusedInv, Stages
<1>12. CASE protocol = "ln18" /\ Ln18SignBegin(f)
  <2>1. stage \in Ln18Stages
    BY <1>1, <1>2, <1>12, Ln18Begins
  <2>2. Ln18Complete
    BY <1>1, <1>2, <1>12, Ln18CompleteBegin
  <2> QED BY <1>3, <1>12, <2>1, <2>2, StagesDistinct DEF RefusedInv, Stages
<1>13. CASE protocol = "wmc24" /\ Wmc24SignBegin(f)
  <2>1. stage \in Wmc24Stages
    BY <1>1, <1>2, <1>13, Wmc24Begins
  <2>2. Wmc24Complete
    BY <1>1, <1>2, <1>13, Wmc24CompleteBegin
  <2> QED BY <1>3, <1>13, <2>1, <2>2, StagesDistinct DEF RefusedInv, Stages
<1>14. CASE protocol = "wmy23" /\ Wmy23SignBegin(f)
  <2>1. stage \in Wmy23Stages
    BY <1>1, <1>2, <1>14, Wmy23Begins
  <2>2. Wmy23Complete
    BY <1>1, <1>2, <1>14, Wmy23CompleteBegin
  <2> QED BY <1>3, <1>14, <2>1, <2>2, StagesDistinct DEF RefusedInv, Stages
<1>15. CASE protocol = "tx25" /\ Tx25SignBegin(f)
  <2>1. stage \in Tx25Stages
    BY <1>1, <1>2, <1>15, Tx25Begins
  <2>2. Tx25Complete
    BY <1>1, <1>2, <1>15, Tx25CompleteBegin
  <2> QED BY <1>3, <1>15, <2>1, <2>2, StagesDistinct DEF RefusedInv, Stages
<1>16. CASE protocol \in {"jtx25", "jtx25_robust"} /\ Jtx25SignBegin(f)
  <2>1. stage \in Jtx25Stages
    BY <1>1, <1>2, <1>16, Jtx25Begins
  <2>2. Jtx25Complete
    BY <1>1, <1>2, <1>16, Jtx25CompleteBegin
  <2> QED BY <1>3, <1>16, <2>1, <2>2, StagesDistinct DEF RefusedInv, Stages
<1>17. CASE protocol = "llz25" /\ Llz25SignBegin(f)
  <2>1. stage \in Llz25Stages
    BY <1>1, <1>2, <1>17, Llz25Begins
  <2>2. Llz25Complete
    BY <1>1, <1>2, <1>17, Llz25CompleteBegin
  <2> QED BY <1>3, <1>17, <2>1, <2>2, StagesDistinct DEF RefusedInv, Stages
<1>18. CASE protocol = "trout" /\ TroutSignBegin(f)
  <2>1. stage \in TroutStages
    BY <1>1, <1>2, <1>18, TroutBegins
  <2>2. TroutComplete
    BY <1>1, <1>2, <1>18, TroutCompleteBegin
  <2> QED BY <1>3, <1>18, <2>1, <2>2, StagesDistinct DEF RefusedInv, Stages
<1>19. CASE protocol = "xal23" /\ Xal23SignBegin(f)
  <2>1. stage \in Xal23Stages
    BY <1>1, <1>2, <1>19, Xal23Begins
  <2> QED BY <1>3, <1>19, <2>1, StagesDistinct DEF RefusedInv, Stages
<1>20. CASE protocol = "ku24" /\ Ku24SignBegin(f)
  <2>1. stage \in Ku24Stages
    BY <1>1, <1>2, <1>20, Ku24Begins
  <2>2. Ku24Complete
    BY <1>1, <1>2, <1>20, Ku24CompleteBegin
  <2> QED BY <1>3, <1>20, <2>1, <2>2, StagesDistinct DEF RefusedInv, Stages
<1> QED BY <1>1, <1>4, <1>5, <1>6, <1>7, <1>8, <1>9, <1>10, <1>11, <1>12, <1>13, <1>14, <1>15, <1>16, <1>17, <1>18, <1>19, <1>20

\* A step of a session is one of its own protocol's.
LEMMA RefusedStep ==
    ASSUME RefusedInv, Next
    PROVE  RefusedInv'
<1>1. Session /\ SuiteInv /\ Cardinality(Signers) >= 2
  BY TwoSigners DEF RefusedInv, EquationsInv, SuiteInv
<1>2. EquationsInv'
  BY EquationsStep DEF RefusedInv
<1>3. /\ protocol' = protocol /\ key' = key /\ digest' = digest /\ bent' = bent
      /\ stage' = "ended" => know' = know
  BY <1>1, SuiteStep DEF LawfulStep
<1>4. CASE Gg18SignNext
  <2>1. stage \in Gg18Stages /\ Gg18Known /\ Gg18Equations
    BY <1>1, <1>4, Gg18Staged DEF RefusedInv, EquationsInv, SuiteInv
  <2>2. protocol = "gg18" /\ Gg18Complete
    BY <2>1 DEF RefusedInv
  <2>3. CASE stage' # "ended"
    <3>1. stage' \in Gg18Stages
      BY <1>1, <1>4, <2>1, <2>3, Gg18Step
    <3>2. Gg18Complete'
      BY <1>1, <1>4, <2>1, <2>2, <2>3, Gg18CompleteStep
    <3> QED BY <1>2, <1>3, <2>2, <3>1, <3>2, StagesDistinct DEF RefusedInv, Stages
  <2>4. CASE stage' = "ended"
    <3>1. \A i \in DOMAIN answer' : answer'[i] = Refused => Gg18Excuse'
      BY <1>1, <1>3, <1>4, <2>1, <2>2, <2>4, Gg18Refusals, ReasonsKept
    <3>2. RefusedForAReason'
      BY <1>3, <2>2, <3>1 DEF RefusedForAReason, Refused
    <3> QED BY <1>2, <2>4, <3>2, StagesDistinct DEF RefusedInv, Stages
  <2> QED BY <2>3, <2>4
<1>5. CASE Dkls23SignNext
  <2>1. stage \in Dkls23Stages /\ Dkls23Known /\ Dkls23Equations
    BY <1>1, <1>5, Dkls23Staged DEF RefusedInv, EquationsInv, SuiteInv
  <2>2. protocol = "dkls23" /\ Dkls23Complete
    BY <2>1 DEF RefusedInv
  <2>3. CASE stage' # "ended"
    <3>1. stage' \in Dkls23Stages
      BY <1>1, <1>5, <2>1, <2>3, Dkls23Step
    <3>2. Dkls23Complete'
      BY <1>1, <1>5, <2>1, <2>2, <2>3, Dkls23CompleteStep
    <3> QED BY <1>2, <1>3, <2>2, <3>1, <3>2, StagesDistinct DEF RefusedInv, Stages
  <2>4. CASE stage' = "ended"
    <3>1. \A i \in DOMAIN answer' : answer'[i] = Refused => Dkls23Excuse'
      BY <1>1, <1>3, <1>5, <2>1, <2>2, <2>4, Dkls23Refusals, ReasonsKept
    <3>2. RefusedForAReason'
      BY <1>3, <2>2, <3>1 DEF RefusedForAReason, Refused
    <3> QED BY <1>2, <2>4, <3>2, StagesDistinct DEF RefusedInv, Stages
  <2> QED BY <2>3, <2>4
<1>6. CASE Ggn16SignNext
  <2>1. stage \in Ggn16Stages /\ Ggn16Known /\ Ggn16Equations
    BY <1>1, <1>6, Ggn16Staged DEF RefusedInv, EquationsInv, SuiteInv
  <2>2. protocol = "ggn16" /\ Ggn16Complete
    BY <2>1 DEF RefusedInv
  <2>3. CASE stage' # "ended"
    <3>1. stage' \in Ggn16Stages
      BY <1>1, <1>6, <2>1, <2>3, Ggn16Step
    <3>2. Ggn16Complete'
      BY <1>1, <1>6, <2>1, <2>2, <2>3, Ggn16CompleteStep
    <3> QED BY <1>2, <1>3, <2>2, <3>1, <3>2, StagesDistinct DEF RefusedInv, Stages
  <2>4. CASE stage' = "ended"
    <3>1. \A i \in DOMAIN answer' : answer'[i] = Refused => Ggn16Excuse'
      BY <1>1, <1>3, <1>6, <2>1, <2>2, <2>4, Ggn16Refusals, ReasonsKept
    <3>2. RefusedForAReason'
      BY <1>3, <2>2, <3>1 DEF RefusedForAReason, Refused
    <3> QED BY <1>2, <2>4, <3>2, StagesDistinct DEF RefusedInv, Stages
  <2> QED BY <2>3, <2>4
<1>7. CASE Cggmp20SignNext
  <2>1. stage \in Cggmp20Stages /\ Cggmp20Known /\ Cggmp20Equations
    BY <1>1, <1>7, Cggmp20Staged DEF RefusedInv, EquationsInv, SuiteInv
  <2>2. protocol = "cggmp20" /\ Cggmp20Complete
    BY <2>1 DEF RefusedInv
  <2>3. CASE stage' # "ended"
    <3>1. stage' \in Cggmp20Stages
      BY <1>1, <1>7, <2>1, <2>3, Cggmp20Step
    <3>2. Cggmp20Complete'
      BY <1>1, <1>7, <2>1, <2>2, <2>3, Cggmp20CompleteStep
    <3> QED BY <1>2, <1>3, <2>2, <3>1, <3>2, StagesDistinct DEF RefusedInv, Stages
  <2>4. CASE stage' = "ended"
    <3>1. \A i \in DOMAIN answer' : answer'[i] = Refused => Cggmp20Excuse'
      BY <1>1, <1>3, <1>7, <2>1, <2>2, <2>4, Cggmp20Refusals, ReasonsKept
    <3>2. RefusedForAReason'
      BY <1>3, <2>2, <3>1 DEF RefusedForAReason, Refused
    <3> QED BY <1>2, <2>4, <3>2, StagesDistinct DEF RefusedInv, Stages
  <2> QED BY <2>3, <2>4
<1>8. CASE Lin17SignNext
  <2>1. stage \in Lin17Stages /\ Lin17Known
    BY <1>1, <1>8, Lin17Staged DEF SuiteInv
  <2>2. protocol = "lin17" /\ Lin17Complete
    BY <2>1 DEF RefusedInv
  <2>3. CASE stage' # "ended"
    <3>1. stage' \in Lin17Stages
      BY <1>1, <1>8, <2>1, <2>3, Lin17Step
    <3>2. Lin17Complete'
      BY <1>1, <1>8, <2>1, <2>2, <2>3, Lin17CompleteStep
    <3> QED BY <1>2, <1>3, <2>2, <3>1, <3>2, StagesDistinct DEF RefusedInv, Stages
  <2>4. CASE stage' = "ended"
    <3>1. \A i \in DOMAIN answer' : answer'[i] = Refused => Lin17Excuse'
      BY <1>1, <1>3, <1>8, <2>1, <2>2, <2>4, Lin17Refusals, ReasonsKept
    <3>2. RefusedForAReason'
      BY <1>3, <2>2, <3>1 DEF RefusedForAReason, Refused
    <3> QED BY <1>2, <2>4, <3>2, StagesDistinct DEF RefusedInv, Stages
  <2> QED BY <2>3, <2>4
<1>9. CASE Xal21SignNext
  <2>1. stage \in Xal21Stages /\ Xal21Known /\ Xal21Equations
    BY <1>1, <1>9, Xal21Staged DEF RefusedInv, EquationsInv, SuiteInv
  <2>2. protocol = "xal21" /\ Xal21Complete
    BY <2>1 DEF RefusedInv
  <2>3. CASE stage' # "ended"
    <3>1. stage' \in Xal21Stages
      BY <1>1, <1>9, <2>1, <2>3, Xal21Step
    <3>2. Xal21Complete'
      BY <1>1, <1>9, <2>1, <2>2, <2>3, Xal21CompleteStep
    <3> QED BY <1>2, <1>3, <2>2, <3>1, <3>2, StagesDistinct DEF RefusedInv, Stages
  <2>4. CASE stage' = "ended"
    <3>1. \A i \in DOMAIN answer' : answer'[i] = Refused => Xal21Excuse'
      BY <1>1, <1>3, <1>9, <2>1, <2>2, <2>4, Xal21Refusals, ReasonsKept
    <3>2. RefusedForAReason'
      BY <1>3, <2>2, <3>1 DEF RefusedForAReason, Refused
    <3> QED BY <1>2, <2>4, <3>2, StagesDistinct DEF RefusedInv, Stages
  <2> QED BY <2>3, <2>4
<1>10. CASE Kgg24SignNext
  <2>1. stage \in Kgg24Stages /\ Kgg24Known /\ Kgg24Equations
    BY <1>1, <1>10, Kgg24Staged DEF RefusedInv, EquationsInv, SuiteInv
  <2>2. protocol = "kgg24" /\ Kgg24Complete
    BY <2>1 DEF RefusedInv
  <2>3. CASE stage' # "ended"
    <3>1. stage' \in Kgg24Stages
      BY <1>1, <1>10, <2>1, <2>3, Kgg24Step
    <3>2. Kgg24Complete'
      BY <1>1, <1>10, <2>1, <2>2, <2>3, Kgg24CompleteStep
    <3> QED BY <1>2, <1>3, <2>2, <3>1, <3>2, StagesDistinct DEF RefusedInv, Stages
  <2>4. CASE stage' = "ended"
    <3>1. \A i \in DOMAIN answer' : answer'[i] = Refused => Kgg24Excuse'
      BY <1>1, <1>3, <1>10, <2>1, <2>2, <2>4, Kgg24Refusals, ReasonsKept
    <3>2. RefusedForAReason'
      BY <1>3, <2>2, <3>1 DEF RefusedForAReason, Refused
    <3> QED BY <1>2, <2>4, <3>2, StagesDistinct DEF RefusedInv, Stages
  <2> QED BY <2>3, <2>4
<1>11. CASE Abc24SignNext
  <2>1. stage \in Abc24Stages /\ Abc24Known
    BY <1>1, <1>11, Abc24Staged DEF SuiteInv
  <2>2. protocol = "abc24" /\ Abc24Complete
    BY <2>1 DEF RefusedInv
  <2>3. CASE stage' # "ended"
    <3>1. stage' \in Abc24Stages
      BY <1>1, <1>11, <2>1, <2>3, Abc24Step
    <3>2. Abc24Complete'
      BY <1>1, <1>11, <2>1, <2>2, <2>3, Abc24CompleteStep
    <3> QED BY <1>2, <1>3, <2>2, <3>1, <3>2, StagesDistinct DEF RefusedInv, Stages
  <2>4. CASE stage' = "ended"
    <3>1. \A i \in DOMAIN answer' : answer'[i] = Refused => Abc24Excuse'
      BY <1>1, <1>3, <1>11, <2>1, <2>2, <2>4, Abc24Refusals, ReasonsKept
    <3>2. RefusedForAReason'
      BY <1>3, <2>2, <3>1 DEF RefusedForAReason, Refused
    <3> QED BY <1>2, <2>4, <3>2, StagesDistinct DEF RefusedInv, Stages
  <2> QED BY <2>3, <2>4
<1>12. CASE Ln18SignNext
  <2>1. stage \in Ln18Stages /\ Ln18Known
    BY <1>1, <1>12, Ln18Staged DEF SuiteInv
  <2>2. protocol = "ln18" /\ Ln18Complete
    BY <2>1 DEF RefusedInv
  <2>3. CASE stage' # "ended"
    <3>1. stage' \in Ln18Stages
      BY <1>1, <1>12, <2>1, <2>3, Ln18Step
    <3>2. Ln18Complete'
      BY <1>1, <1>12, <2>1, <2>2, <2>3, Ln18CompleteStep
    <3> QED BY <1>2, <1>3, <2>2, <3>1, <3>2, StagesDistinct DEF RefusedInv, Stages
  <2>4. CASE stage' = "ended"
    <3>1. \A i \in DOMAIN answer' : answer'[i] = Refused => Ln18Excuse'
      BY <1>1, <1>3, <1>12, <2>1, <2>2, <2>4, Ln18Refusals, ReasonsKept
    <3>2. RefusedForAReason'
      BY <1>3, <2>2, <3>1 DEF RefusedForAReason, Refused
    <3> QED BY <1>2, <2>4, <3>2, StagesDistinct DEF RefusedInv, Stages
  <2> QED BY <2>3, <2>4
<1>13. CASE Wmc24SignNext
  <2>1. stage \in Wmc24Stages /\ Wmc24Known /\ Wmc24Equations
    BY <1>1, <1>13, Wmc24Staged DEF RefusedInv, EquationsInv, SuiteInv
  <2>2. protocol = "wmc24" /\ Wmc24Complete
    BY <2>1 DEF RefusedInv
  <2>3. CASE stage' # "ended"
    <3>1. stage' \in Wmc24Stages
      BY <1>1, <1>13, <2>1, <2>3, Wmc24Step
    <3>2. Wmc24Complete'
      BY <1>1, <1>13, <2>1, <2>2, <2>3, Wmc24CompleteStep
    <3> QED BY <1>2, <1>3, <2>2, <3>1, <3>2, StagesDistinct DEF RefusedInv, Stages
  <2>4. CASE stage' = "ended"
    <3>1. \A i \in DOMAIN answer' : answer'[i] = Refused => Wmc24Excuse'
      BY <1>1, <1>3, <1>13, <2>1, <2>2, <2>4, Wmc24Refusals, ReasonsKept
    <3>2. RefusedForAReason'
      BY <1>3, <2>2, <3>1 DEF RefusedForAReason, Refused
    <3> QED BY <1>2, <2>4, <3>2, StagesDistinct DEF RefusedInv, Stages
  <2> QED BY <2>3, <2>4
<1>14. CASE Wmy23SignNext
  <2>1. stage \in Wmy23Stages /\ Wmy23Known /\ Wmy23Equations
    BY <1>1, <1>14, Wmy23Staged DEF RefusedInv, EquationsInv, SuiteInv
  <2>2. protocol = "wmy23" /\ Wmy23Complete
    BY <2>1 DEF RefusedInv
  <2>3. CASE stage' # "ended"
    <3>1. stage' \in Wmy23Stages
      BY <1>1, <1>14, <2>1, <2>3, Wmy23Step
    <3>2. Wmy23Complete'
      BY <1>1, <1>14, <2>1, <2>2, <2>3, Wmy23CompleteStep
    <3> QED BY <1>2, <1>3, <2>2, <3>1, <3>2, StagesDistinct DEF RefusedInv, Stages
  <2>4. CASE stage' = "ended"
    <3>1. \A i \in DOMAIN answer' : answer'[i] = Refused => Wmy23Excuse'
      BY <1>1, <1>3, <1>14, <2>1, <2>2, <2>4, Wmy23Refusals, ReasonsKept
    <3>2. RefusedForAReason'
      BY <1>3, <2>2, <3>1 DEF RefusedForAReason, Refused
    <3> QED BY <1>2, <2>4, <3>2, StagesDistinct DEF RefusedInv, Stages
  <2> QED BY <2>3, <2>4
<1>15. CASE Tx25SignNext
  <2>1. stage \in Tx25Stages /\ Tx25Known /\ Tx25Equations
    BY <1>1, <1>15, Tx25Staged DEF RefusedInv, EquationsInv, SuiteInv
  <2>2. protocol = "tx25" /\ Tx25Complete
    BY <2>1 DEF RefusedInv
  <2>3. CASE stage' # "ended"
    <3>1. stage' \in Tx25Stages
      BY <1>1, <1>15, <2>1, <2>3, Tx25Step
    <3>2. Tx25Complete'
      BY <1>1, <1>15, <2>1, <2>2, <2>3, Tx25CompleteStep
    <3> QED BY <1>2, <1>3, <2>2, <3>1, <3>2, StagesDistinct DEF RefusedInv, Stages
  <2>4. CASE stage' = "ended"
    <3>1. \A i \in DOMAIN answer' : answer'[i] = Refused => Tx25Excuse'
      BY <1>1, <1>3, <1>15, <2>1, <2>2, <2>4, Tx25Refusals, ReasonsKept
    <3>2. RefusedForAReason'
      BY <1>3, <2>2, <3>1 DEF RefusedForAReason, Refused
    <3> QED BY <1>2, <2>4, <3>2, StagesDistinct DEF RefusedInv, Stages
  <2> QED BY <2>3, <2>4
<1>16. CASE Jtx25SignNext
  <2>1. stage \in Jtx25Stages /\ Jtx25Known /\ Jtx25Equations
    BY <1>1, <1>16, Jtx25Staged DEF RefusedInv, EquationsInv, SuiteInv
  <2>2. protocol \in {"jtx25", "jtx25_robust"} /\ Jtx25Complete
    BY <2>1 DEF RefusedInv
  <2>3. CASE stage' # "ended"
    <3>1. stage' \in Jtx25Stages
      BY <1>1, <1>16, <2>1, <2>3, Jtx25Step
    <3>2. Jtx25Complete'
      BY <1>1, <1>16, <2>1, <2>2, <2>3, Jtx25CompleteStep
    <3> QED BY <1>2, <1>3, <2>2, <3>1, <3>2, StagesDistinct DEF RefusedInv, Stages
  <2>4. CASE stage' = "ended"
    <3>1. ASSUME ~Unsupported PROVE \A i \in DOMAIN answer' : answer'[i] = Refused => Jtx25Excuse'
      <4>1. ~Jtx25Left
        BY <2>2, <3>1 DEF Unsupported
      <4> QED BY <1>1, <1>3, <1>16, <2>1, <2>2, <2>4, <4>1, Jtx25Refusals, ReasonsKept
    <3>2. ASSUME Unsupported PROVE RefusedForAReason'
      BY <1>3, <2>4, <3>2, UnsupportedKept DEF RefusedForAReason
    <3>3. ASSUME ~Unsupported PROVE RefusedForAReason'
      BY <1>3, <2>2, <3>1, <3>3 DEF RefusedForAReason, Refused
    <3>4. RefusedForAReason'
      BY <3>2, <3>3
    <3> QED BY <1>2, <2>4, <3>4, StagesDistinct DEF RefusedInv, Stages
  <2> QED BY <2>3, <2>4
<1>17. CASE Llz25SignNext
  <2>1. stage \in Llz25Stages /\ Llz25Known /\ Llz25Equations
    BY <1>1, <1>17, Llz25Staged DEF RefusedInv, EquationsInv, SuiteInv
  <2>2. protocol = "llz25" /\ Llz25Complete
    BY <2>1 DEF RefusedInv
  <2>3. CASE stage' # "ended"
    <3>1. stage' \in Llz25Stages
      BY <1>1, <1>17, <2>1, <2>3, Llz25Step
    <3>2. Llz25Complete'
      BY <1>1, <1>17, <2>1, <2>2, <2>3, Llz25CompleteStep
    <3> QED BY <1>2, <1>3, <2>2, <3>1, <3>2, StagesDistinct DEF RefusedInv, Stages
  <2>4. CASE stage' = "ended"
    <3>1. \A i \in DOMAIN answer' : answer'[i] = Refused => Llz25Excuse'
      BY <1>1, <1>3, <1>17, <2>1, <2>2, <2>4, Llz25Refusals, ReasonsKept
    <3>2. RefusedForAReason'
      BY <1>3, <2>2, <3>1 DEF RefusedForAReason, Refused
    <3> QED BY <1>2, <2>4, <3>2, StagesDistinct DEF RefusedInv, Stages
  <2> QED BY <2>3, <2>4
<1>18. CASE TroutSignNext
  <2>1. stage \in TroutStages /\ TroutKnown /\ TroutEquations
    BY <1>1, <1>18, TroutStaged DEF RefusedInv, EquationsInv, SuiteInv
  <2>2. protocol = "trout" /\ TroutComplete
    BY <2>1 DEF RefusedInv
  <2>3. CASE stage' # "ended"
    <3>1. stage' \in TroutStages
      BY <1>1, <1>18, <2>1, <2>3, TroutStep
    <3>2. TroutComplete'
      BY <1>1, <1>18, <2>1, <2>2, <2>3, TroutCompleteStep
    <3> QED BY <1>2, <1>3, <2>2, <3>1, <3>2, StagesDistinct DEF RefusedInv, Stages
  <2>4. CASE stage' = "ended"
    <3>1. \A i \in DOMAIN answer' : answer'[i] = Refused => TroutExcuse'
      BY <1>1, <1>3, <1>18, <2>1, <2>2, <2>4, TroutRefusals, ReasonsKept
    <3>2. RefusedForAReason'
      BY <1>3, <2>2, <3>1 DEF RefusedForAReason, Refused
    <3> QED BY <1>2, <2>4, <3>2, StagesDistinct DEF RefusedInv, Stages
  <2> QED BY <2>3, <2>4
<1>19. CASE Xal23SignNext
  <2>1. stage \in Xal23Stages /\ Xal23Known /\ Xal23Equations
    BY <1>1, <1>19, Xal23Staged DEF RefusedInv, EquationsInv, SuiteInv
  <2>2. protocol = "xal23"
    BY <2>1 DEF RefusedInv
  <2>3. CASE stage' # "ended"
    <3>1. stage' \in Xal23Stages
      BY <1>1, <1>19, <2>1, <2>3, Xal23Step
    <3> QED BY <1>2, <1>3, <2>2, <3>1, StagesDistinct DEF RefusedInv, Stages
  <2>4. CASE stage' = "ended"
    <3>1. ASSUME ~Unsupported PROVE \A i \in DOMAIN answer' : answer'[i] = Refused => Xal23Excuse'
      <4>1. ~Xal23Misfit
        BY <2>2, <3>1 DEF Unsupported
      <4> QED BY <1>1, <1>3, <1>19, <2>1, <2>2, <2>4, <4>1, Xal23Refusals, ReasonsKept
    <3>2. ASSUME Unsupported PROVE RefusedForAReason'
      BY <1>3, <2>4, <3>2, UnsupportedKept DEF RefusedForAReason
    <3>3. ASSUME ~Unsupported PROVE RefusedForAReason'
      BY <1>3, <2>2, <3>1, <3>3 DEF RefusedForAReason, Refused
    <3>4. RefusedForAReason'
      BY <3>2, <3>3
    <3> QED BY <1>2, <2>4, <3>4, StagesDistinct DEF RefusedInv, Stages
  <2> QED BY <2>3, <2>4
<1>20. CASE Ku24SignNext
  <2>1. stage \in Ku24Stages /\ Ku24Known /\ Ku24Equations
    BY <1>1, <1>20, Ku24Staged DEF RefusedInv, EquationsInv, SuiteInv
  <2>2. protocol = "ku24" /\ Ku24Complete
    BY <2>1 DEF RefusedInv
  <2>3. CASE stage' # "ended"
    <3>1. stage' \in Ku24Stages
      BY <1>1, <1>20, <2>1, <2>3, Ku24Step
    <3>2. Ku24Complete'
      BY <1>1, <1>20, <2>1, <2>2, <2>3, Ku24CompleteStep
    <3> QED BY <1>2, <1>3, <2>2, <3>1, <3>2, StagesDistinct DEF RefusedInv, Stages
  <2>4. CASE stage' = "ended"
    <3>1. \A i \in DOMAIN answer' : answer'[i] = Refused => Ku24Excuse'
      BY <1>1, <1>3, <1>20, <2>1, <2>2, <2>4, Ku24Refusals, ReasonsKept
    <3>2. RefusedForAReason'
      BY <1>3, <2>2, <3>1 DEF RefusedForAReason, Refused
    <3> QED BY <1>2, <2>4, <3>2, StagesDistinct DEF RefusedInv, Stages
  <2> QED BY <2>3, <2>4
<1> QED BY <1>4, <1>5, <1>6, <1>7, <1>8, <1>9, <1>10, <1>11, <1>12, <1>13, <1>14, <1>15, <1>16, <1>17, <1>18, <1>19, <1>20 DEF Next

LEMMA RefusedStutter ==
    ASSUME RefusedInv, UNCHANGED vars
    PROVE  RefusedInv'
<1>1. /\ stage' = stage /\ know' = know /\ key' = key /\ digest' = digest /\ bent' = bent
      /\ answer' = answer /\ protocol' = protocol
  BY DEF vars
<1>2. EquationsInv'
  BY EquationsStutter DEF RefusedInv
<1>3. RefusedForAReason => RefusedForAReason'
  <2>1. Gg18Excuse' = Gg18Excuse
    BY <1>1, ReasonsKept
  <2>2. Dkls23Excuse' = Dkls23Excuse
    BY <1>1, ReasonsKept
  <2>3. Ggn16Excuse' = Ggn16Excuse
    BY <1>1, ReasonsKept
  <2>4. Cggmp20Excuse' = Cggmp20Excuse
    BY <1>1, ReasonsKept
  <2>5. Lin17Excuse' = Lin17Excuse
    BY <1>1, ReasonsKept
  <2>6. Xal21Excuse' = Xal21Excuse
    BY <1>1, ReasonsKept
  <2>7. Kgg24Excuse' = Kgg24Excuse
    BY <1>1, ReasonsKept
  <2>8. Abc24Excuse' = Abc24Excuse
    BY <1>1, ReasonsKept
  <2>9. Ln18Excuse' = Ln18Excuse
    BY <1>1, ReasonsKept
  <2>10. Wmc24Excuse' = Wmc24Excuse
    BY <1>1, ReasonsKept
  <2>11. Wmy23Excuse' = Wmy23Excuse
    BY <1>1, ReasonsKept
  <2>12. Tx25Excuse' = Tx25Excuse
    BY <1>1, ReasonsKept
  <2>13. Jtx25Excuse' = Jtx25Excuse
    BY <1>1, ReasonsKept
  <2>14. Llz25Excuse' = Llz25Excuse
    BY <1>1, ReasonsKept
  <2>15. TroutExcuse' = TroutExcuse
    BY <1>1, ReasonsKept
  <2>16. Xal23Excuse' = Xal23Excuse
    BY <1>1, ReasonsKept
  <2>17. Ku24Excuse' = Ku24Excuse
    BY <1>1, ReasonsKept
  <2>18. Unsupported' = Unsupported
    BY <1>1, UnsupportedKept
  <2> QED BY Zenon, <1>1, <2>18, <2>1, <2>2, <2>3, <2>4, <2>5, <2>6, <2>7, <2>8, <2>9, <2>10, <2>11, <2>12, <2>13, <2>14, <2>15, <2>16, <2>17 DEF RefusedForAReason
<1>4. Gg18Complete => Gg18Complete'
  BY <1>1, CompleteStutter
<1>5. Dkls23Complete => Dkls23Complete'
  BY <1>1, CompleteStutter
<1>6. Ggn16Complete => Ggn16Complete'
  BY <1>1, CompleteStutter
<1>7. Cggmp20Complete => Cggmp20Complete'
  BY <1>1, CompleteStutter
<1>8. Lin17Complete => Lin17Complete'
  BY <1>1, CompleteStutter
<1>9. Xal21Complete => Xal21Complete'
  BY <1>1, CompleteStutter
<1>10. Kgg24Complete => Kgg24Complete'
  BY <1>1, CompleteStutter
<1>11. Abc24Complete => Abc24Complete'
  BY <1>1, CompleteStutter
<1>12. Ln18Complete => Ln18Complete'
  BY <1>1, CompleteStutter
<1>13. Wmc24Complete => Wmc24Complete'
  BY <1>1, CompleteStutter
<1>14. Wmy23Complete => Wmy23Complete'
  BY <1>1, CompleteStutter
<1>15. Tx25Complete => Tx25Complete'
  BY <1>1, CompleteStutter
<1>16. Jtx25Complete => Jtx25Complete'
  BY <1>1, CompleteStutter
<1>17. Llz25Complete => Llz25Complete'
  BY <1>1, CompleteStutter
<1>18. TroutComplete => TroutComplete'
  BY <1>1, CompleteStutter
<1>20. Ku24Complete => Ku24Complete'
  BY <1>1, CompleteStutter
<1> QED BY <1>1, <1>2, <1>3, <1>4, <1>5, <1>6, <1>7, <1>8, <1>9, <1>10, <1>11, <1>12, <1>13, <1>14, <1>15, <1>16, <1>17, <1>18, <1>20 DEF RefusedInv

\* What makes an honest session complete holds at every stage of every session.
THEOREM RefusedInvariant == Spec => []RefusedInv
<1>1. Init => RefusedInv
  BY RefusedInit
<1>2. RefusedInv /\ [Next]_vars => RefusedInv'
  BY RefusedStep, RefusedStutter
<1> QED BY <1>1, <1>2, PTL DEF Spec

\* Whichever of the protocols runs, a party that refuses has a reason that the
\* protocol knows: a faulty party's wrong share, or one of the rare values that
\* the code refuses by itself (a zero, a wrapped plaintext, a missing quorum).
\* So a session in which nobody deviates and no such value is drawn is not refused,
\* for any parties, threshold, prime Q, key, digest and draws.  Two kinds of session
\* are Unsupported and not spoken of: robust JTX25's after a signer has left, which
\* its documentation says it tolerates and DropoutsTolerated shows it does not, and
\* XAL23's with key shares that do not add up to the key, or of signers whose
\* Joye-Libert keys are not where they are looked up.
THEOREM SigningRefusedForAReason == Spec => []RefusedForAReason
<1>1. RefusedInv => RefusedForAReason
  <2> SUFFICES ASSUME RefusedInv, stage # "ended" PROVE RefusedForAReason
    BY DEF RefusedInv
  <2>1. Session
    BY DEF RefusedInv, EquationsInv, SuiteInv
  <2>2. \A i \in DOMAIN answer : answer[i] = Waiting
    BY <2>1 DEF Session
  <2>3. Waiting # Refused
    BY DEF Waiting, Refused
  <2> QED BY <2>2, <2>3 DEF RefusedForAReason
<1> QED BY <1>1, RefusedInvariant, PTL
=============================================================================
