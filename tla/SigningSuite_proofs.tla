------------------------ MODULE SigningSuite_proofs -------------------------
(* That every signing protocol implements IdealEcdsa, for any parties, any   *)
(* key and digest, whatever is drawn and whichever share is wrong.           *)
(*                                                                           *)
(* First each protocol on its own: what its machines know at every stage,    *)
(* and that a step of it answers the signers lawfully (LawfulStep of         *)
(* ProtocolSession_proofs): with errors, or with one signature that verifies *)
(* and is in low-s form.  For a protocol P, PStages are its stages and       *)
(* PKnown is the invariant that holds in them: the types of what is known,   *)
(* and for LN18, whose machines do not verify what they return, the          *)
(* equations that stand in for it.  PBegins says that PKnown holds when the  *)
(* session begins, PStep that every step keeps it and is lawful, and PStaged *)
(* that P's actions are taken in its own stages only.  The suite comes last. *)
EXTENDS SigningSuite, ProtocolSession_proofs

-----------------------------------------------------------------------------
(* GG18.                                                                   *)

Gg18Stages == {"gg18_round_1", "gg18_round_2", "gg18_round_3", "gg18_round_4", "gg18_round_5", "gg18_round_7", "gg18_round_8"}

Gg18Known ==
    /\ Has("k", Ints)
    /\ Has("gamma", Ints)
    /\ Has("w", Ints)
    /\ stage # "gg18_round_1" => /\ Has("beta", PairInts)
                                 /\ Has("nu", PairInts)
    /\ stage \in {"gg18_round_3", "gg18_round_4", "gg18_round_5", "gg18_round_7", "gg18_round_8"} =>
           /\ Has("delta", Ints)
           /\ Has("sigma", Ints)
    /\ stage \in {"gg18_round_4", "gg18_round_5", "gg18_round_7", "gg18_round_8"} =>
           Has("R", Field)
    /\ stage \in {"gg18_round_5", "gg18_round_7", "gg18_round_8"} =>
           Has("s", Ints)

\* A share of a product that MtA leaves a signer with.
LEMMA Gg18ShareType ==
    ASSUME know.k \in Ints, NEW b \in Ints, NEW masks \in PairInts
    PROVE  [i \in Signers |-> Gg18ShareOf(i, b, masks)] \in Ints
<1> SUFFICES ASSUME NEW i \in Signers PROVE Gg18ShareOf(i, b, masks) \in Int
  BY DEF Ints
<1> DEFINE g == [j \in Others(i) |->
            Gg18Decrypted(i, b[j], masks[<<j, i>>]) + Neg(Fl(masks[<<i, j>>]))]
<1>1. ASSUME NEW j \in Others(i) PROVE g[j] \in Int
  <2>1. masks[<<j, i>>] \in Int /\ masks[<<i, j>>] \in Int /\ know.k[i] \in Int /\ b[j] \in Int
    BY OtherPairs DEF Ints, PairInts
  <2>2. know.k[i] * b[j] + masks[<<j, i>>] \in Int
    BY <2>1
  <2>3. Gg18Decrypted(i, b[j], masks[<<j, i>>]) \in Int
    BY <2>2, SignedInt DEF Gg18Decrypted
  <2>4. Neg(Fl(masks[<<i, j>>])) \in Int
    BY <2>1, FlInt
  <2> QED BY <1>1, <2>3, <2>4
<1>2. SumFunctionOnSet(g, Others(i)) \in Int
  BY <1>1, OthersSum
<1>3. know.k[i] * b[i] \in Int
  <2>1. know.k[i] \in Int /\ b[i] \in Int
    BY DEF Ints
  <2> QED BY <2>1
<1> HIDE DEF g
<1>4. Fl(know.k[i] * b[i] + SumFunctionOnSet(g, Others(i))) \in Int
  BY <1>2, <1>3, FlInt
<1> QED BY <1>4 DEF Gg18ShareOf, g

LEMMA Gg18Begins ==
    ASSUME NEW f \in Sharings, Gg18SignBegin(f)
    PROVE  Gg18Known /\ stage \in Gg18Stages
<1>1. [i \in Signers |-> Fl(Eval(f, i) * Lagrange(Signers, i))] \in Ints
  BY BeginType DEF Ints
<1> QED BY <1>1, DrawnInts DEF Gg18SignBegin, Gg18Known, Gg18Stages, Has

LEMMA Gg18Step ==
    ASSUME Session, Gg18Known, Gg18SignNext
    PROVE  /\ stage \in Gg18Stages /\ LawfulStep
           /\ stage' # "ended" => Gg18Known' /\ stage' \in Gg18Stages
<1>s. Signers' = Signers /\ Ints' = Ints /\ Pairs' = Pairs /\ PairInts' = PairInts
  <2>1. protocol' = protocol
    BY DEF Gg18SignNext, Gg18Reply, Gg18Open, Gg18Presign, Gg18Commit, Gg18Blind, Gg18ZeroCheck, Gg18Finish, Step, Pass, Return
  <2> QED BY <2>1, SameIndices
<1>1. CASE Gg18Reply
  <2>1. stage = "gg18_round_1" /\ LawfulStep
    BY <1>1, StepLawful DEF Gg18Reply, Step
  <2>2. know.k \in Ints /\ know.gamma \in Ints /\ know.w \in Ints
    BY <2>1 DEF Gg18Known, Has
  <2>3. \A b \in [Pairs -> Gg18MaskRange] : b \in PairInts
    BY DrawnInts DEF Gg18MaskRange, PairInts
  <2>4. Gg18Known' /\ stage' \in Gg18Stages
    BY <1>1, <1>s, <2>3 DEF Gg18Reply, Step, With, Gg18Known, Has, Gg18Stages
  <2> QED BY <2>1, <2>4 DEF Gg18Stages
<1>2. CASE Gg18Open
  <2>1. stage = "gg18_round_2" /\ LawfulStep
    BY <1>2, StepLawful DEF Gg18Open, Step
  <2>2. /\ know.k \in Ints /\ know.gamma \in Ints /\ know.w \in Ints
        /\ know.beta \in PairInts /\ know.nu \in PairInts
    BY <2>1 DEF Gg18Known, Has
  <2>3. /\ [i \in Signers |-> Gg18ShareOf(i, know.gamma, know.beta)] \in Ints
        /\ [i \in Signers |-> Gg18ShareOf(i, know.w, know.nu)] \in Ints
    BY <2>2, Gg18ShareType
  <2>4. Gg18Known' /\ stage' \in Gg18Stages
    BY <1>2, <1>s, <2>3 DEF Gg18Open, Step, With, Gg18Known, Has, Gg18Stages
  <2> QED BY <2>1, <2>4 DEF Gg18Stages
<1>3. CASE Gg18Presign
  <2>1. CASE Return("gg18_round_3", Everyone(Refused))
    BY <2>1, RefusalLawful DEF Gg18Stages
  <2>2. CASE /\ Gg18Delta # 0
             /\ Step("gg18_round_3", "gg18_round_4", [R |-> Fl(Inv(Gg18Delta) * Total(know.gamma, Signers))])
    <3>1. stage = "gg18_round_3" /\ LawfulStep
      BY <2>2, StepLawful DEF Step
    <3>2. /\ know.k \in Ints /\ know.gamma \in Ints /\ know.w \in Ints
          /\ know.beta \in PairInts /\ know.nu \in PairInts
          /\ know.delta \in Ints /\ know.sigma \in Ints
      BY <3>1 DEF Gg18Known, Has
    <3>3. Fl(Inv(Gg18Delta) * Total(know.gamma, Signers)) \in Field
      <4>1. Gg18Delta \in Field /\ Total(know.gamma, Signers) \in Int
        BY <3>2, IntsType DEF Ints, Gg18Delta
      <4>2. Inv(Gg18Delta) \in Int
        BY <2>2, <4>1, FlField, InvType, ScalarsType
      <4> QED BY <4>1, <4>2, FlInt
    <3>4. Gg18Known' /\ stage' \in Gg18Stages
      BY <2>2, <1>s, <3>3 DEF Step, With, Gg18Known, Has, Gg18Stages
    <3> QED BY <3>1, <3>4 DEF Gg18Stages
  <2> QED BY <1>3, <2>1, <2>2 DEF Gg18Presign
<1>4. CASE Gg18Commit
  <2>1. stage = "gg18_round_4" /\ LawfulStep
    BY <1>4, StepLawful DEF Gg18Commit, Step
  <2>2. /\ know.k \in Ints /\ know.gamma \in Ints /\ know.w \in Ints
        /\ know.beta \in PairInts /\ know.nu \in PairInts
        /\ know.delta \in Ints /\ know.sigma \in Ints /\ know.R \in Field
    BY <2>1 DEF Gg18Known, Has
  <2>3. [i \in Signers |-> Fl(Gg18SShare(i) + bent[i])] \in Ints
    <3> SUFFICES ASSUME NEW i \in Signers PROVE Fl(Gg18SShare(i) + bent[i]) \in Int
      BY DEF Ints
    <3>1. know.k[i] \in Int /\ know.sigma[i] \in Int /\ bent[i] \in Int /\ digest \in Int /\ XCoord(know.R) \in Int
      BY <2>2, XCoordType, ScalarsType DEF Ints, Session
    <3>2. digest * know.k[i] + XCoord(know.R) * know.sigma[i] \in Int
      BY <3>1
    <3> QED BY <3>1, <3>2, FlInt DEF Gg18SShare
  <2>4. Gg18Known' /\ stage' \in Gg18Stages
    BY <1>4, <1>s, <2>3 DEF Gg18Commit, Step, With, Gg18Known, Has, Gg18Stages
  <2> QED BY <2>1, <2>4 DEF Gg18Stages
<1>5. CASE Gg18Blind
  <2>1. stage = "gg18_round_5" /\ LawfulStep
    BY <1>5, StepLawful DEF Gg18Blind, Step
  <2>4. Gg18Known' /\ stage' \in Gg18Stages
    BY <1>5, <1>s DEF Gg18Blind, Step, With, Gg18Known, Has, Gg18Stages
  <2> QED BY <2>1, <2>4 DEF Gg18Stages
<1>6. CASE Gg18ZeroCheck
  <2>1. CASE Return("gg18_round_7", Everyone(Refused))
    BY <2>1, RefusalLawful DEF Gg18Stages
  <2>2. CASE Pass("gg18_round_7", "gg18_round_8")
    BY <1>s, <2>2, StepLawful DEF Pass, Gg18Known, Gg18Stages, Has
  <2> QED BY <1>6, <2>1, <2>2 DEF Gg18ZeroCheck
<1>7. CASE Gg18Finish
  <2>1. Return("gg18_round_8", Everyone(Checked(XCoord(know.R), Total(know.s, Signers))))
    BY <1>7 DEF Gg18Finish
  <2>2. XCoord(know.R) \in Field /\ Total(know.s, Signers) \in Field
    BY <2>1, XCoordType, IntsType DEF Return, Gg18Known, Has, Ints
  <2> QED BY <2>1, <2>2, CheckedLawful, ReturnLawful DEF Gg18Stages
<1> QED BY <1>1, <1>2, <1>3, <1>4, <1>5, <1>6, <1>7 DEF Gg18SignNext

LEMMA Gg18Staged ==
    ASSUME Gg18SignNext
    PROVE  stage \in Gg18Stages
  BY DEF Gg18SignNext, Gg18Reply, Gg18Open, Gg18Presign, Gg18Commit,
         Gg18Blind, Gg18ZeroCheck, Gg18Finish, Gg18Stages, Step, Pass, Return

-----------------------------------------------------------------------------
(* DKLs23.                                                                 *)

Dkls23Stages == {"dkls23_round_1", "dkls23_round_2", "dkls23_round_3", "dkls23_round_4"}

Dkls23Known ==
    /\ Has("r", Ints)
    /\ Has("phi", Ints)
    /\ Has("sk", Ints)
    /\ stage # "dkls23_round_1" => /\ Has("chi", PairInts)
                                   /\ Has("cu", PairInts)
                                   /\ Has("cv", PairInts)
    /\ stage \in {"dkls23_round_3", "dkls23_round_4"} => /\ Has("psi", PairInts)
                                                         /\ Has("du", PairInts)
                                                         /\ Has("dv", PairInts)
    /\ stage = "dkls23_round_4" => Has("R", Field)

\* What the signers open.
LEMMA Dkls23Opened ==
    ASSUME Session, Dkls23Known, stage = "dkls23_round_4"
    PROVE  /\ Dkls23USum \in Field /\ Dkls23WSum \in Field /\ XCoord(know.R) \in Field
           /\ \A i \in Signers : Dkls23V(i) \in Int
<1>1. /\ know.r \in Ints /\ know.phi \in Ints /\ know.sk \in Ints
      /\ know.cu \in PairInts /\ know.cv \in PairInts /\ know.psi \in PairInts
      /\ know.du \in PairInts /\ know.dv \in PairInts /\ know.R \in Field
  BY DEF Dkls23Known, Has
<1>2. ASSUME NEW i \in Signers PROVE Dkls23U(i) \in Int /\ Dkls23V(i) \in Int
  <2> DEFINE psi == [j \in Others(i) |-> know.psi[<<j, i>>]]
             u == [j \in Others(i) |-> know.cu[<<i, j>>] + know.du[<<i, j>>]]
             v == [j \in Others(i) |-> know.cv[<<i, j>>] + know.dv[<<i, j>>]]
  <2>1. \A j \in Others(i) : psi[j] \in Int /\ u[j] \in Int /\ v[j] \in Int
    BY <1>1, OtherPairs DEF PairInts
  <2> HIDE DEF psi, u, v
  <2>2. /\ SumFunctionOnSet(psi, Others(i)) \in Int /\ SumFunctionOnSet(u, Others(i)) \in Int
        /\ SumFunctionOnSet(v, Others(i)) \in Int
    BY <2>1, OthersSum
  <2>3. know.r[i] \in Int /\ know.phi[i] \in Int /\ know.sk[i] \in Int
    BY <1>1 DEF Ints
  <2>4. Dkls23Mask(i) \in Int
    BY <2>2, <2>3 DEF Dkls23Mask, psi
  <2>5. know.r[i] * Dkls23Mask(i) \in Int /\ know.sk[i] * Dkls23Mask(i) \in Int
    BY <2>3, <2>4
  <2> QED BY <2>2, <2>5, FlInt DEF Dkls23U, Dkls23V, u, v
<1>3. ASSUME NEW i \in Signers PROVE Dkls23W(i) \in Int
  <2>1. digest \in Int /\ know.phi[i] \in Int /\ XCoord(know.R) \in Int /\ Dkls23V(i) \in Int
    BY <1>1, <1>2, XCoordType, ScalarsType DEF Session, Ints
  <2>2. digest * know.phi[i] + XCoord(know.R) * Dkls23V(i) \in Int
    BY <2>1
  <2> QED BY <2>2, FlInt DEF Dkls23W
<1> QED BY <1>1, <1>2, <1>3, XCoordType, IntsType DEF Dkls23USum, Dkls23WSum

LEMMA Dkls23Begins ==
    ASSUME NEW f \in Sharings, Dkls23SignBegin(f)
    PROVE  Dkls23Known /\ stage \in Dkls23Stages
<1>1. [i \in Signers |-> Fl(Eval(f, i) * Lagrange(Signers, i))] \in Ints
  BY BeginType DEF Ints
<1> QED BY <1>1, DrawnInts DEF Dkls23SignBegin, Dkls23Known, Dkls23Stages, Has

LEMMA Dkls23Step ==
    ASSUME Session, Dkls23Known, Dkls23SignNext
    PROVE  /\ stage \in Dkls23Stages /\ LawfulStep
           /\ stage' # "ended" => Dkls23Known' /\ stage' \in Dkls23Stages
<1>s. Signers' = Signers /\ Ints' = Ints /\ Pairs' = Pairs /\ PairInts' = PairInts
  <2>1. protocol' = protocol
    BY DEF Dkls23SignNext, Dkls23Multiply, Dkls23Correlate, Dkls23Check, Dkls23Finish, Step, Pass, Return
  <2> QED BY <2>1, SameIndices
<1>1. CASE Dkls23Multiply
  <2>1. stage = "dkls23_round_1" /\ LawfulStep
    BY <1>1, StepLawful DEF Dkls23Multiply, Step
  <2>2. know.r \in Ints /\ know.phi \in Ints /\ know.sk \in Ints
    BY <2>1 DEF Dkls23Known, Has
  <2>3. \A b \in [Pairs -> Scalars] : b \in PairInts
    BY DrawnInts
  <2>4. Dkls23Known' /\ stage' \in Dkls23Stages
    BY <1>1, <1>s, <2>3 DEF Dkls23Multiply, Step, With, Dkls23Known, Has, Dkls23Stages
  <2> QED BY <2>1, <2>4 DEF Dkls23Stages
<1>2. CASE Dkls23Correlate
  <2> DEFINE psi == [p \in Pairs |-> Dkls23Psi(p[1], p[2])]
             du == [p \in Pairs |-> Fl(know.chi[p] * (know.r[p[2]] + bent[p[2]])
                                          + Neg(know.cu[<<p[2], p[1]>>]))]
             dv == [p \in Pairs |-> Fl(know.chi[p] * know.sk[p[2]]
                                          + Neg(know.cv[<<p[2], p[1]>>]))]
  <2>1. stage = "dkls23_round_2" /\ LawfulStep
    BY <1>2, StepLawful DEF Dkls23Correlate, Step
  <2>2. /\ know.r \in Ints /\ know.phi \in Ints /\ know.sk \in Ints
        /\ know.chi \in PairInts /\ know.cu \in PairInts
        /\ know.cv \in PairInts
    BY <2>1 DEF Dkls23Known, Has
  <2>3. psi \in PairInts /\ du \in PairInts /\ dv \in PairInts
    <3> SUFFICES ASSUME NEW p \in Pairs
                 PROVE  psi[p] \in Int /\ du[p] \in Int /\ dv[p] \in Int
      BY DEF PairInts
    <3>1. /\ know.phi[p[1]] \in Int /\ know.r[p[2]] \in Int /\ know.sk[p[2]] \in Int /\ bent[p[2]] \in Int
          /\ know.chi[p] \in Int /\ know.chi[<<p[1], p[2]>>] \in Int
          /\ know.cu[<<p[2], p[1]>>] \in Int /\ know.cv[<<p[2], p[1]>>] \in Int
      BY <2>2, PairsType, ScalarsType DEF Ints, PairInts, Session
    <3>2. /\ Neg(know.chi[<<p[1], p[2]>>]) \in Int
          /\ Neg(know.cu[<<p[2], p[1]>>]) \in Int /\ Neg(know.cv[<<p[2], p[1]>>]) \in Int
      BY <3>1, FlInt
    <3>3. know.chi[p] * (know.r[p[2]] + bent[p[2]]) \in Int /\ know.chi[p] * know.sk[p[2]] \in Int
      BY <3>1
    <3> QED BY <3>1, <3>2, <3>3, FlInt DEF Dkls23Psi
  <2>4. Step("dkls23_round_2", "dkls23_round_3", [psi |-> psi, du |-> du, dv |-> dv])
    BY <1>2 DEF Dkls23Correlate
  <2> HIDE DEF psi, du, dv
  <2>5. Dkls23Known' /\ stage' \in Dkls23Stages
    BY <1>s, <2>3, <2>4 DEF Step, With, Dkls23Known, Has, Dkls23Stages
  <2> QED BY <2>1, <2>5 DEF Dkls23Stages
<1>3. CASE Dkls23Check
  <2>1. CASE Return("dkls23_round_3", [i \in Signers |-> IF Dkls23Accepts(i) THEN Waiting ELSE Refused])
    BY <2>1, ReturnLawful DEF Lawful, Dkls23Stages
  <2>2. CASE Step("dkls23_round_3", "dkls23_round_4", [R |-> Total(know.r, Signers)])
    <3>1. stage = "dkls23_round_3" /\ LawfulStep
      BY <2>2, StepLawful DEF Step
    <3>2. /\ know.r \in Ints /\ know.phi \in Ints /\ know.sk \in Ints
          /\ know.chi \in PairInts /\ know.cu \in PairInts
          /\ know.cv \in PairInts /\ know.psi \in PairInts
          /\ know.du \in PairInts /\ know.dv \in PairInts
      BY <3>1 DEF Dkls23Known, Has
    <3>3. Total(know.r, Signers) \in Field
      BY <3>2, IntsType DEF Ints
    <3>4. Dkls23Known' /\ stage' \in Dkls23Stages
      BY <2>2, <1>s, <3>3 DEF Step, With, Dkls23Known, Has, Dkls23Stages
    <3> QED BY <3>1, <3>4 DEF Dkls23Stages
  <2> QED BY <1>3, <2>1, <2>2 DEF Dkls23Check
<1>4. CASE Dkls23Finish
  <2>1. stage = "dkls23_round_4"
    BY <1>4 DEF Dkls23Finish
  <2>2. ASSUME Dkls23USum # 0 PROVE Fl(Dkls23WSum * Inv(Dkls23USum)) \in Field
    <3>1. Dkls23WSum \in Int /\ Inv(Dkls23USum) \in Int
      BY <2>1, <2>2, Dkls23Opened, InvInt, ScalarsType
    <3>2. Dkls23WSum * Inv(Dkls23USum) \in Int
      BY <3>1
    <3> QED BY <3>2, FlInt
  <2> QED BY <1>4, <2>1, <2>2, Dkls23Opened, FinishLawful DEF Dkls23Finish, Dkls23Stages
<1> QED BY <1>1, <1>2, <1>3, <1>4 DEF Dkls23SignNext

LEMMA Dkls23Staged ==
    ASSUME Dkls23SignNext
    PROVE  stage \in Dkls23Stages
  BY DEF Dkls23SignNext, Dkls23Multiply, Dkls23Correlate, Dkls23Check,
         Dkls23Finish, Dkls23Stages, Step, Pass, Return

-----------------------------------------------------------------------------
(* GGN16.                                                                  *)

Ggn16Stages == {"ggn16_presign_1", "ggn16_presign_3", "ggn16_presign_5", "ggn16_sign"}

Ggn16Known ==
    /\ Has("rho", Ints)
    /\ Has("x", Int)
    /\ stage # "ggn16_presign_1" => /\ Has("k", Ints)
                                    /\ Has("w", Ints)
    /\ stage # "ggn16_presign_1" => /\ Has("u", Int)
                                    /\ Has("v", Int)
    /\ stage \in {"ggn16_presign_5", "ggn16_sign"} => Has("R", Field)
    /\ stage \in {"ggn16_presign_5", "ggn16_sign"} => Has("sum", Int)
    /\ stage = "ggn16_sign" => Has("psi", Int)

LEMMA Ggn16Begins ==
    ASSUME NEW f \in Sharings, Ggn16SignBegin(f)
    PROVE  Ggn16Known /\ stage \in Ggn16Stages
<1>1. f[0] \in Int /\ f[0] + Q \in Int
  BY BeginType, SpaceType
<1>2. \A rho \in [Signers -> Scalars \cup {0}] : rho \in Ints
  <2> SUFFICES ASSUME NEW rho \in [Signers -> Scalars \cup {0}] PROVE rho \in Ints
    OBVIOUS
  <2>1. Scalars \cup {0} \subseteq Int
    BY DrawnInts
  <2> QED BY <2>1 DEF Ints
<1> QED BY <1>1, <1>2 DEF Ggn16SignBegin, Ggn16Known, Ggn16Stages, Has

LEMMA Ggn16Step ==
    ASSUME Session, Ggn16Known, Ggn16SignNext
    PROVE  /\ stage \in Ggn16Stages /\ LawfulStep
           /\ stage' # "ended" => Ggn16Known' /\ stage' \in Ggn16Stages
<1>s. Signers' = Signers /\ Ints' = Ints /\ Pairs' = Pairs /\ PairInts' = PairInts
  <2>1. protocol' = protocol
    BY DEF Ggn16SignNext, Ggn16Nonce, Ggn16Combine, Ggn16Presign, Ggn16Finish, Step, Pass, Return
  <2> QED BY <2>1, SameIndices
<1>1. CASE Ggn16Nonce
  <2>1. stage = "ggn16_presign_1" /\ LawfulStep
    BY <1>1, StepLawful DEF Ggn16Nonce, Step
  <2>2. know.rho \in Ints /\ know.x \in Int
    BY <2>1 DEF Ggn16Known, Has
  <2>3. /\ SumFunctionOnSet(know.rho, Signers) \in Int
        /\ SumFunctionOnSet([i \in Signers |-> know.rho[i] * know.x], Signers) \in Int
        /\ \A k \in [Signers -> Scalars], c \in [Signers -> {b \in Masks : b < Q * Q}] :
              /\ k \in Ints
              /\ [i \in Signers |-> (k[i] * SumFunctionOnSet(know.rho, Signers) + c[i] * Q) % WideN] \in Ints
    <3> DEFINE u == SumFunctionOnSet(know.rho, Signers)
               g == [i \in Signers |-> know.rho[i] * know.x]
    <3>1. u \in Int
      BY <2>2, IntsType DEF Ints
    <3>2. \A i \in Signers : know.rho[i] \in Int /\ know.x \in Int
      BY <2>2 DEF Ints
    <3>3. \A i \in Signers : g[i] \in Int
      BY <3>2
    <3>4. SumFunctionOnSet(g, Signers) \in Int
      <4> HIDE DEF g
      <4> QED BY <3>3, IntsType
    <3> HIDE DEF u
    <3>5. ASSUME NEW k \in [Signers -> Scalars], NEW c \in [Signers -> {b \in Masks : b < Q * Q}]
          PROVE  k \in Ints /\ [i \in Signers |-> (k[i] * u + c[i] * Q) % WideN] \in Ints
      <4>1. k \in Ints
        BY DrawnInts
      <4>2. ASSUME NEW i \in Signers PROVE (k[i] * u + c[i] * Q) % WideN \in Int
        <5>1. k[i] \in Int /\ c[i] \in Int /\ Q \in Int
          <6>1. k[i] \in Int
            BY <4>1 DEF Ints
          <6>2. c[i] \in {b \in Masks : b < Q * Q}
            OBVIOUS
          <6>3. c[i] \in Int
            BY <6>2, DrawnInts
          <6> QED BY <6>1, <6>3, QAssumption
        <5>2. k[i] * u + c[i] * Q \in Int
          BY <3>1, <5>1
        <5> QED BY <5>2, SpaceType, Remainder
      <4> QED BY <4>1, <4>2 DEF Ints
    <3> QED BY <3>1, <3>4, <3>5 DEF u
  <2>4. Ggn16Known' /\ stage' \in Ggn16Stages
    BY <1>1, <1>s, <2>3 DEF Ggn16Nonce, Step, With, Ggn16Known, Has, Ggn16Stages
  <2> QED BY <2>1, <2>4 DEF Ggn16Stages
<1>2. CASE Ggn16Combine
  <2>1. stage = "ggn16_presign_3" /\ LawfulStep
    BY <1>2, StepLawful DEF Ggn16Combine, Step
  <2>2. /\ know.rho \in Ints /\ know.x \in Int /\ know.k \in Ints
        /\ know.w \in Ints /\ know.u \in Int /\ know.v \in Int
    BY <2>1 DEF Ggn16Known, Has
  <2>3. Total(know.k, Signers) \in Field /\ SumFunctionOnSet(know.w, Signers) % WideN \in Int
    <3>1. SumFunctionOnSet(know.w, Signers) \in Int
      BY <2>2, IntsType DEF Ints
    <3> QED BY <2>2, <3>1, IntsType, SpaceType, Remainder DEF Ints
  <2>4. Ggn16Known' /\ stage' \in Ggn16Stages
    BY <1>2, <1>s, <2>3 DEF Ggn16Combine, Step, With, Ggn16Known, Has, Ggn16Stages
  <2> QED BY <2>1, <2>4 DEF Ggn16Stages
<1>3. CASE Ggn16Presign
  <2>1. CASE Return("ggn16_presign_5", Everyone(Refused))
    BY <2>1, RefusalLawful DEF Ggn16Stages
  <2>2. CASE Ggn16Eta # 0 /\ Step("ggn16_presign_5", "ggn16_sign", [psi |-> Inv(Ggn16Eta)])
    <3>1. stage = "ggn16_presign_5" /\ LawfulStep
      BY <2>2, StepLawful DEF Step
    <3>2. /\ know.rho \in Ints /\ know.x \in Int /\ know.k \in Ints
          /\ know.w \in Ints /\ know.u \in Int /\ know.v \in Int
          /\ know.R \in Field /\ know.sum \in Int
      BY <3>1 DEF Ggn16Known, Has
    <3>3. Inv(Ggn16Eta) \in Int
      <4>1. \A i \in Signers : bent[i] \in Int
        BY ScalarsType DEF Session
      <4>2. know.sum + SumFunctionOnSet(bent, Signers) \in Int
        BY <3>2, <4>1, IntsType
      <4> QED BY <2>2, <4>2, FlInt, InvInt DEF Ggn16Eta
    <3>4. Ggn16Known' /\ stage' \in Ggn16Stages
      BY <2>2, <1>s, <3>3 DEF Step, With, Ggn16Known, Has, Ggn16Stages
    <3> QED BY <3>1, <3>4 DEF Ggn16Stages
  <2> QED BY <1>3, <2>1, <2>2 DEF Ggn16Presign
<1>4. CASE Ggn16Finish
  <2>1. stage = "ggn16_sign"
    BY <1>4 DEF Ggn16Finish, Return
  <2>2. know.R \in Field /\ know.psi \in Int /\ know.u \in Int /\ know.v \in Int
    BY <2>1 DEF Ggn16Known, Has
  <2>3. XCoord(know.R) \in Field /\ XCoord(know.R) \in Int /\ digest \in Int
    BY <2>2, XCoordType, ScalarsType DEF Session
  <2>4. digest * know.u + XCoord(know.R) * know.v \in Int
    BY <2>2, <2>3
  <2>5. know.psi * (digest * know.u + XCoord(know.R) * know.v) \in Int
    BY <2>2, <2>4
  <2>6. Fl(Ggn16Sigma) \in Field
    BY <2>5, SpaceType, Remainder, FlInt DEF Ggn16Sigma
  <2> QED BY <1>4, <2>1, <2>3, <2>6, FinishLawful DEF Ggn16Finish, Ggn16Stages
<1> QED BY <1>1, <1>2, <1>3, <1>4 DEF Ggn16SignNext

LEMMA Ggn16Staged ==
    ASSUME Ggn16SignNext
    PROVE  stage \in Ggn16Stages
  BY DEF Ggn16SignNext, Ggn16Nonce, Ggn16Combine, Ggn16Presign, Ggn16Finish,
         Ggn16Stages, Step, Pass, Return

-----------------------------------------------------------------------------
(* CGGMP20.                                                                *)

Cggmp20Stages == {"cggmp20_presign_1", "cggmp20_presign_2", "cggmp20_presign_3", "cggmp20_sign"}

Cggmp20Known ==
    /\ Has("k", Ints)
    /\ Has("gamma", Ints)
    /\ Has("x", Ints)
    /\ stage # "cggmp20_presign_1" => /\ Has("beta", PairInts)
                                      /\ Has("hat", PairInts)
    /\ stage \in {"cggmp20_presign_3", "cggmp20_sign"} => /\ Has("delta", Ints)
                                                          /\ Has("chi", Ints)
                                                          /\ Has("Delta", Ints)
                                                          /\ Has("S", Ints)
    /\ stage \in {"cggmp20_presign_3", "cggmp20_sign"} => Has("Gamma", Field)
    /\ stage = "cggmp20_sign" => /\ Has("kTilde", Ints)
                                 /\ Has("chiTilde", Ints)
                                 /\ Has("tildeDelta", Ints)
                                 /\ Has("tildeS", Ints)

\* A share of a product that MtA leaves a signer with.
LEMMA Cggmp20ShareType ==
    ASSUME know.k \in Ints, NEW b \in Ints, NEW masks \in PairInts, NEW i \in Signers
    PROVE  Cggmp20ShareOf(i, b, masks) \in Int /\ Cggmp20ShareOf(i, b, masks) \in Field
<1> DEFINE g == [j \in Others(i) |-> Cggmp20Alpha(i, b[j], masks[<<j, i>>]) + masks[<<i, j>>]]
<1>1. ASSUME NEW j \in Others(i) PROVE g[j] \in Int
  <2>1. masks[<<j, i>>] \in Int /\ masks[<<i, j>>] \in Int /\ know.k[i] \in Int /\ b[j] \in Int
    BY OtherPairs DEF Ints, PairInts
  <2>2. know.k[i] * b[j] - masks[<<j, i>>] \in Int
    BY <2>1
  <2>3. Cggmp20Alpha(i, b[j], masks[<<j, i>>]) \in Int
    BY <2>2, SignedInt DEF Cggmp20Alpha
  <2> QED BY <1>1, <2>1, <2>3
<1>2. SumFunctionOnSet(g, Others(i)) \in Int
  BY <1>1, OthersSum
<1>3. b[i] * know.k[i] \in Int
  <2>1. know.k[i] \in Int /\ b[i] \in Int
    BY DEF Ints
  <2> QED BY <2>1
<1> HIDE DEF g
<1> DEFINE e == b[i] * know.k[i] + SumFunctionOnSet(g, Others(i))
<1>4. Fl(e) \in Int /\ Fl(e) \in Field
  BY <1>2, <1>3, FlInt
<1> QED BY <1>4 DEF Cggmp20ShareOf, g

LEMMA Cggmp20OffsetType ==
    ASSUME Session, NEW where, NEW i \in Signers
    PROVE  Cggmp20Offset(where)[i] \in Int
<1>1. bent[i] \in Int
  BY ScalarsType DEF Session
<1>2. Straight[i] \in Int
  BY DEF Straight
<1> QED BY <1>1, <1>2 DEF Cggmp20Offset

LEMMA Cggmp20Begins ==
    ASSUME NEW f \in Sharings, Cggmp20SignBegin(f)
    PROVE  Cggmp20Known /\ stage \in Cggmp20Stages
<1>1. [i \in Signers |-> Fl(Eval(f, i) * Lagrange(Signers, i))] \in Ints
  BY BeginType DEF Ints
<1> QED BY <1>1, DrawnInts DEF Cggmp20SignBegin, Cggmp20Known, Cggmp20Stages, Has

LEMMA Cggmp20Step ==
    ASSUME Session, Cggmp20Known, Cggmp20SignNext
    PROVE  /\ stage \in Cggmp20Stages /\ LawfulStep
           /\ stage' # "ended" => Cggmp20Known' /\ stage' \in Cggmp20Stages
<1>s. Signers' = Signers /\ Ints' = Ints /\ Pairs' = Pairs /\ PairInts' = PairInts
  <2>1. protocol' = protocol
    BY DEF Cggmp20SignNext, Cggmp20Multiply, Cggmp20Open, Cggmp20Presign, Cggmp20Combine, Step, Pass, Return
  <2> QED BY <2>1, SameIndices
<1>1. CASE Cggmp20Multiply
  <2>1. stage = "cggmp20_presign_1" /\ LawfulStep
    BY <1>1, StepLawful DEF Cggmp20Multiply, Step
  <2>2. know.k \in Ints /\ know.gamma \in Ints /\ know.x \in Ints
    BY <2>1 DEF Cggmp20Known, Has
  <2>3. \A b \in [Pairs -> Scalars] : b \in PairInts
    BY DrawnInts
  <2>4. Cggmp20Known' /\ stage' \in Cggmp20Stages
    BY <1>1, <1>s, <2>3 DEF Cggmp20Multiply, Step, With, Cggmp20Known, Has, Cggmp20Stages
  <2> QED BY <2>1, <2>4 DEF Cggmp20Stages
<1>2. CASE Cggmp20Open
  <2> DEFINE chi == [i \in Signers |-> Cggmp20ShareOf(i, know.x, know.hat)]
             Gamma == Total(know.gamma, Signers)
             delta == [i \in Signers |-> Fl(Cggmp20ShareOf(i, know.gamma, know.beta) + Cggmp20Offset("delta")[i])]
             Delta == [i \in Signers |-> Fl(Gamma * know.k[i])]
             S == [i \in Signers |-> Fl(Gamma * chi[i])]
  <2>1. stage = "cggmp20_presign_2" /\ LawfulStep
    BY <1>2, StepLawful DEF Cggmp20Open, Step
  <2>2. /\ know.k \in Ints /\ know.gamma \in Ints /\ know.x \in Ints
        /\ know.beta \in PairInts /\ know.hat \in PairInts
    BY <2>1 DEF Cggmp20Known, Has
  <2>3. chi \in Ints /\ Gamma \in Field /\ delta \in Ints /\ Delta \in Ints /\ S \in Ints
    <3>1. Gamma \in Field /\ Gamma \in Int
      BY <2>2, IntsType DEF Ints
    <3> HIDE DEF Gamma
    <3>2. ASSUME NEW i \in Signers
          PROVE  chi[i] \in Int /\ delta[i] \in Int /\ Delta[i] \in Int /\ S[i] \in Int
      <4>1. /\ Cggmp20ShareOf(i, know.x, know.hat) \in Int
            /\ Cggmp20ShareOf(i, know.gamma, know.beta) \in Int
            /\ Cggmp20Offset("delta")[i] \in Int /\ know.k[i] \in Int
        BY <2>2, Cggmp20ShareType, Cggmp20OffsetType DEF Ints
      <4>2. /\ Cggmp20ShareOf(i, know.gamma, know.beta) + Cggmp20Offset("delta")[i] \in Int
            /\ Gamma * know.k[i] \in Int /\ Gamma * chi[i] \in Int
        BY <3>1, <4>1
      <4> QED BY <4>1, <4>2, FlInt
    <3> QED BY <3>1, <3>2 DEF Ints
  <2>4. Step("cggmp20_presign_2", "cggmp20_presign_3", [chi |-> chi, Gamma |-> Gamma, delta |-> delta, Delta |-> Delta, S |-> S])
    BY <1>2 DEF Cggmp20Open
  <2> HIDE DEF chi, Gamma, delta, Delta, S
  <2>5. Cggmp20Known' /\ stage' \in Cggmp20Stages
    BY <1>s, <2>3, <2>4 DEF Step, With, Cggmp20Known, Has, Cggmp20Stages
  <2> QED BY <2>1, <2>5 DEF Cggmp20Stages
<1>3. CASE Cggmp20Presign
  <2> DEFINE inv == Inv(Total(know.delta, Signers))
  <2>1. CASE Return("cggmp20_presign_3", Everyone(Refused))
    BY <2>1, RefusalLawful DEF Cggmp20Stages
  <2>2. CASE /\ Total(know.delta, Signers) # 0
             /\ Step("cggmp20_presign_3", "cggmp20_sign",
                     [kTilde |-> [i \in Signers |-> Fl(know.k[i] * inv)],
                      chiTilde |-> [i \in Signers |-> Fl(know.chi[i] * inv)],
                      tildeDelta |-> [i \in Signers |-> Fl(know.Delta[i] * inv)],
                      tildeS |-> [i \in Signers |-> Fl(know.S[i] * inv)]])
    <3> DEFINE kTilde == [i \in Signers |-> Fl(know.k[i] * inv)]
               chiTilde == [i \in Signers |-> Fl(know.chi[i] * inv)]
               tildeDelta == [i \in Signers |-> Fl(know.Delta[i] * inv)]
               tildeS == [i \in Signers |-> Fl(know.S[i] * inv)]
    <3>1. stage = "cggmp20_presign_3" /\ LawfulStep
      BY <2>2, StepLawful DEF Step
    <3>2. /\ know.k \in Ints /\ know.gamma \in Ints /\ know.x \in Ints
          /\ know.beta \in PairInts /\ know.hat \in PairInts
          /\ know.delta \in Ints /\ know.chi \in Ints /\ know.Delta \in Ints
          /\ know.S \in Ints /\ know.Gamma \in Field
      BY <3>1 DEF Cggmp20Known, Has
    <3>3. kTilde \in Ints /\ chiTilde \in Ints /\ tildeDelta \in Ints /\ tildeS \in Ints
      <4>1. inv \in Int
        BY <2>2, <3>2, IntsType, InvInt DEF Ints
      <4> HIDE DEF inv
      <4>2. ASSUME NEW i \in Signers
            PROVE  /\ Fl(know.k[i] * inv) \in Int /\ Fl(know.chi[i] * inv) \in Int
                   /\ Fl(know.Delta[i] * inv) \in Int /\ Fl(know.S[i] * inv) \in Int
        <5>1. know.k[i] \in Int /\ know.chi[i] \in Int /\ know.Delta[i] \in Int /\ know.S[i] \in Int
          BY <3>2 DEF Ints
        <5>2. /\ know.k[i] * inv \in Int /\ know.chi[i] * inv \in Int
              /\ know.Delta[i] * inv \in Int /\ know.S[i] * inv \in Int
          BY <4>1, <5>1
        <5> QED BY <5>2, FlInt
      <4> QED BY <4>2 DEF Ints
    <3>4. Step("cggmp20_presign_3", "cggmp20_sign", [kTilde |-> kTilde, chiTilde |-> chiTilde, tildeDelta |-> tildeDelta, tildeS |-> tildeS])
      BY <2>2
    <3> HIDE DEF kTilde, chiTilde, tildeDelta, tildeS
    <3>5. Cggmp20Known' /\ stage' \in Cggmp20Stages
      BY <1>s, <3>3, <3>4 DEF Step, With, Cggmp20Known, Has, Cggmp20Stages
    <3> QED BY <3>1, <3>5 DEF Cggmp20Stages
  <2> QED BY <1>3, <2>1, <2>2 DEF Cggmp20Presign
<1>4. CASE Cggmp20Combine
  <2>1. stage = "cggmp20_sign"
    BY <1>4 DEF Cggmp20Combine, Return
  <2>2. know.Gamma \in Field /\ know.kTilde \in Ints /\ know.chiTilde \in Ints
    BY <2>1 DEF Cggmp20Known, Has
  <2>3. XCoord(know.Gamma) \in Field /\ XCoord(know.Gamma) \in Int /\ digest \in Int
    BY <2>2, XCoordType, ScalarsType DEF Session
  <2> DEFINE s == [i \in Signers |-> Cggmp20PartialSign(i)]
  <2>4. ASSUME NEW i \in Signers PROVE s[i] \in Int
    <3>1. know.kTilde[i] \in Int /\ know.chiTilde[i] \in Int /\ Cggmp20Offset("sigma")[i] \in Int
      BY <2>2, Cggmp20OffsetType DEF Ints
    <3>2. know.kTilde[i] * digest + XCoord(know.Gamma) * know.chiTilde[i] + Cggmp20Offset("sigma")[i] \in Int
      BY <2>3, <3>1
    <3> QED BY <3>2, FlInt DEF Cggmp20PartialSign
  <2>5. Total(s, Signers) \in Field
    BY <2>4, IntsType
  <2>6. Return("cggmp20_sign", Everyone(Refused))
        \/ Return("cggmp20_sign", Everyone(Checked(XCoord(know.Gamma), Total(s, Signers))))
    BY <1>4, Zenon DEF Cggmp20Combine
  <2> HIDE DEF s
  <2> QED BY <2>3, <2>5, <2>6, RefusalLawful, FinishLawful DEF Cggmp20Stages
<1> QED BY <1>1, <1>2, <1>3, <1>4 DEF Cggmp20SignNext

LEMMA Cggmp20Staged ==
    ASSUME Cggmp20SignNext
    PROVE  stage \in Cggmp20Stages
  BY DEF Cggmp20SignNext, Cggmp20Multiply, Cggmp20Open, Cggmp20Presign,
         Cggmp20Combine, Cggmp20Stages, Step, Pass, Return

-----------------------------------------------------------------------------
(* LIN17.                                                                  *)

Lin17Stages == {"lin17_round_1", "lin17_round_4"}

Lin17Known ==
    /\ Has("x1", Scalars)
    /\ Has("k1", Scalars)
    /\ Has("k2", Scalars)
    /\ Has("x2", Int)
    /\ stage # "lin17_round_1" => Has("c3", Int)

LEMMA Lin17Begins ==
    ASSUME NEW f \in Sharings, Lin17SignBegin(f)
    PROVE  Lin17Known /\ stage \in Lin17Stages
<1>1. ASSUME NEW x1 \in Scalars PROVE Fl(f[0] * Inv(x1)) \in Int
  <2>1. f[0] \in Int /\ Inv(x1) \in Int
    BY BeginType, ScalarInt
  <2>2. f[0] * Inv(x1) \in Int
    BY <2>1
  <2> QED BY <2>2, FlInt
<1> QED BY <1>1 DEF Lin17SignBegin, Lin17Known, Lin17Stages, Has

LEMMA Lin17Step ==
    ASSUME Cardinality(Signers) >= 2, Session, Lin17Known, Lin17SignNext
    PROVE  /\ stage \in Lin17Stages /\ LawfulStep
           /\ stage' # "ended" => Lin17Known' /\ stage' \in Lin17Stages
<1>s. Signers' = Signers /\ Ints' = Ints /\ Pairs' = Pairs /\ PairInts' = PairInts
  <2>1. protocol' = protocol
    BY DEF Lin17SignNext, Lin17SendPartial, Lin17Finish, Step, Pass, Return
  <2> QED BY <2>1, SameIndices
<1>1. CASE Lin17SendPartial
  <2>1. stage = "lin17_round_1" /\ LawfulStep
    BY <1>1, StepLawful DEF Lin17SendPartial, Step
  <2>2. /\ know.x1 \in Scalars /\ know.k1 \in Scalars /\ know.k2 \in Scalars
        /\ know.x2 \in Int
    BY <2>1 DEF Lin17Known, Has
  <2>3. \A rho \in {m \in Masks : m < Q * Q} : Lin17PartialSignature(rho) \in Int
    <3> SUFFICES ASSUME NEW rho \in {m \in Masks : m < Q * Q} PROVE Lin17PartialSignature(rho) \in Int
      OBVIOUS
    <3>1. /\ rho \in Int /\ Inv(know.k2) \in Int /\ digest \in Int /\ bent[P2] \in Int
          /\ know.x1 \in Int /\ know.x2 \in Int /\ know.k1 \in Int /\ know.k2 \in Int
      BY <2>2, DrawnInts, ScalarInt, Operands
    <3>2. know.k1 * know.k2 \in Int /\ Inv(know.k2) * digest \in Int /\ rho * Q \in Int
      BY <3>1, QAssumption
    <3>3. XCoord(Lin17Nonce) \in Int /\ Fl(Inv(know.k2) * digest) \in Int
      BY <3>2, FlInt, XCoordType, ScalarsType DEF Lin17Nonce
    <3>4. Fl(XCoord(Lin17Nonce) * know.x2) \in Int
      <4>1. XCoord(Lin17Nonce) * know.x2 \in Int
        BY <3>1, <3>3
      <4> QED BY <4>1, FlInt
    <3>5. Fl(Inv(know.k2) * Fl(XCoord(Lin17Nonce) * know.x2)) \in Int
      <4>1. Inv(know.k2) * Fl(XCoord(Lin17Nonce) * know.x2) \in Int
        BY <3>1, <3>4
      <4> QED BY <4>1, FlInt
    <3>6. Fl(Inv(know.k2) * Fl(XCoord(Lin17Nonce) * know.x2)) * know.x1 \in Int
      BY <3>1, <3>5
    <3> QED BY <3>1, <3>2, <3>3, <3>6 DEF Lin17PartialSignature
  <2>4. Lin17Known' /\ stage' \in Lin17Stages
    BY <1>1, <1>s, <2>3 DEF Lin17SendPartial, Step, With, Lin17Known, Has, Lin17Stages
  <2> QED BY <2>1, <2>4 DEF Lin17Stages
<1>2. CASE Lin17Finish
  <2>1. stage = "lin17_round_4"
    BY <1>2 DEF Lin17Finish, Return
  <2>2. know.k1 \in Scalars /\ know.k2 \in Scalars /\ know.c3 \in Int
    BY <2>1 DEF Lin17Known, Has
  <2>3. know.k1 \in Int /\ know.k2 \in Int /\ Inv(know.k1) \in Int /\ Signed(know.c3, WideN) \in Int
    BY <2>2, ScalarInt, SignedInt
  <2>4. XCoord(Lin17Nonce) \in Field
    <3>1. know.k1 * know.k2 \in Int
      BY <2>3
    <3> QED BY <3>1, FlInt, XCoordType DEF Lin17Nonce
  <2>5. Lin17SPrime \in Int
    BY <2>3, FlInt DEF Lin17SPrime, Lin17Magnitude
  <2>6. Fl(Inv(know.k1) * Lin17SPrime) \in Field
    <3>1. Inv(know.k1) * Lin17SPrime \in Int
      BY <2>3, <2>5
    <3> QED BY <3>1, FlInt
  <2> QED BY <1>2, <2>4, <2>6, FinishLawful DEF Lin17Finish, Lin17Stages
<1> QED BY <1>1, <1>2 DEF Lin17SignNext

LEMMA Lin17Staged ==
    ASSUME Lin17SignNext
    PROVE  stage \in Lin17Stages
  BY DEF Lin17SignNext, Lin17SendPartial, Lin17Finish, Lin17Stages, Step,
         Pass, Return

-----------------------------------------------------------------------------
(* XAL21.                                                                  *)

Xal21Stages == {"xal21_step_1", "xal21_step_2", "xal21_step_3", "xal21_online"}

Xal21Known ==
    /\ Has("x1", Scalars)
    /\ Has("k2", Scalars)
    /\ Has("x2", Int)
    /\ stage # "xal21_step_1" => /\ Has("xp", Scalars)
                                 /\ Has("r1", Scalars)
    /\ stage # "xal21_step_1" => /\ Has("mask", Int)
                                 /\ Has("cc", Int)
    /\ stage \in {"xal21_step_3", "xal21_online"} => Has("k1", Scalars)
    /\ stage \in {"xal21_step_3", "xal21_online"} => Has("xp2", Int)
    /\ stage \in {"xal21_step_3", "xal21_online"} => Has("R", Field)
    /\ stage = "xal21_online" => Has("r", Field)

LEMMA Xal21TBType ==
    ASSUME know.xp \in Int, know.k2 \in Int, know.mask \in Int
    PROVE  Xal21TB \in Int
<1>1. know.xp * know.k2 + know.mask \in Int
  OBVIOUS
<1> QED BY <1>1, SignedInt, FlInt DEF Xal21TB, MtaSenderShare

LEMMA Xal21Begins ==
    ASSUME NEW f \in Sharings, Xal21SignBegin(f)
    PROVE  Xal21Known /\ stage \in Xal21Stages
<1>1. ASSUME NEW x1 \in Scalars PROVE Fl(f[0] + Neg(x1)) \in Int
  BY BeginType, ScalarInt, FlInt
<1> QED BY <1>1 DEF Xal21SignBegin, Xal21Known, Xal21Stages, Has

LEMMA Xal21Step ==
    ASSUME Cardinality(Signers) >= 2, Session, Xal21Known, Xal21SignNext
    PROVE  /\ stage \in Xal21Stages /\ LawfulStep
           /\ stage' # "ended" => Xal21Known' /\ stage' \in Xal21Stages
<1>s. Signers' = Signers /\ Ints' = Ints /\ Pairs' = Pairs /\ PairInts' = PairInts
  <2>1. protocol' = protocol
    BY DEF Xal21SignNext, Xal21Reshare, Xal21Decommit, Xal21VerifyR, Xal21Online, Step, Pass, Return
  <2> QED BY <2>1, SameIndices
<1>1. CASE Xal21Reshare
  <2>1. stage = "xal21_step_1" /\ LawfulStep
    BY <1>1, StepLawful DEF Xal21Reshare, Step
  <2>2. know.x1 \in Scalars /\ know.k2 \in Scalars /\ know.x2 \in Int
    BY <2>1 DEF Xal21Known, Has
  <2>3. \A xp, r1 \in Scalars, mask \in {m \in Masks : m < Q * Q} :
          /\ mask \in Int
          /\ Fl(MtaReceiverShare(mask) + xp * r1 + Neg(know.x1) + bent[P1]) \in Int
    <3> SUFFICES ASSUME NEW xp \in Scalars, NEW r1 \in Scalars, NEW mask \in {m \in Masks : m < Q * Q}
                 PROVE  mask \in Int /\ Fl(MtaReceiverShare(mask) + xp * r1 + Neg(know.x1) + bent[P1]) \in Int
      OBVIOUS
    <3>1. xp \in Int /\ r1 \in Int /\ mask \in Int /\ know.x1 \in Int /\ bent[P1] \in Int
      BY <2>2, DrawnInts, ScalarInt, Operands
    <3>2. MtaReceiverShare(mask) \in Int /\ Neg(know.x1) \in Int
      BY <3>1, FlInt DEF MtaReceiverShare
    <3>3. xp * r1 \in Int
      BY <3>1
    <3> QED BY <3>1, <3>2, <3>3, FlInt
  <2>4. Xal21Known' /\ stage' \in Xal21Stages
    BY <1>1, <1>s, <2>3 DEF Xal21Reshare, Step, With, Xal21Known, Has, Xal21Stages
  <2> QED BY <2>1, <2>4 DEF Xal21Stages
<1>2. CASE Xal21Decommit
  <2>1. CASE Return("xal21_step_2", Everyone(Refused))
    BY <2>1, RefusalLawful DEF Xal21Stages
  <2>2. CASE \E k1 \in Scalars :
                 Step("xal21_step_2", "xal21_step_3",
                      [k1 |-> k1,
                       xp2 |-> Fl(know.x2 + Neg(Fl(Xal21TB + know.cc))),
                       R |-> Fl(k1 * (know.r1 + know.k2))])
    <3>1. stage = "xal21_step_2" /\ LawfulStep
      BY <2>2, StepLawful DEF Step
    <3>2. /\ know.x1 \in Scalars /\ know.k2 \in Scalars /\ know.x2 \in Int
          /\ know.xp \in Scalars /\ know.r1 \in Scalars /\ know.mask \in Int
          /\ know.cc \in Int
      BY <3>1 DEF Xal21Known, Has
    <3>3. /\ Fl(know.x2 + Neg(Fl(Xal21TB + know.cc))) \in Int
          /\ \A k1 \in Scalars : Fl(k1 * (know.r1 + know.k2)) \in Field
      <4>1. know.xp \in Int /\ know.k2 \in Int /\ know.r1 \in Int
        BY <3>2, ScalarInt
      <4>2. Xal21TB \in Int
        BY <3>2, <4>1, Xal21TBType
      <4>3. Fl(know.x2 + Neg(Fl(Xal21TB + know.cc))) \in Int
        BY <3>2, <4>2, FlInt
      <4>4. ASSUME NEW k1 \in Scalars PROVE Fl(k1 * (know.r1 + know.k2)) \in Field
        <5>1. k1 \in Int
          BY ScalarInt
        <5>2. k1 * (know.r1 + know.k2) \in Int
          BY <4>1, <5>1
        <5> QED BY <5>2, FlInt
      <4> QED BY <4>3, <4>4
    <3>4. Xal21Known' /\ stage' \in Xal21Stages
      BY <2>2, <1>s, <3>3 DEF Step, With, Xal21Known, Has, Xal21Stages
    <3> QED BY <3>1, <3>4 DEF Xal21Stages
  <2> QED BY <1>2, <2>1, <2>2 DEF Xal21Decommit
<1>3. CASE Xal21VerifyR
  <2>1. stage = "xal21_step_3" /\ LawfulStep
    BY <1>3, StepLawful DEF Xal21VerifyR, Step
  <2>2. /\ know.x1 \in Scalars /\ know.k2 \in Scalars /\ know.x2 \in Int
        /\ know.xp \in Scalars /\ know.r1 \in Scalars /\ know.mask \in Int
        /\ know.cc \in Int /\ know.k1 \in Scalars /\ know.xp2 \in Int
        /\ know.R \in Field
    BY <2>1 DEF Xal21Known, Has
  <2>3. XCoord(Fl(know.k1 * know.k2 + know.k1 * know.r1)) \in Field
    <3>1. know.k1 \in Int /\ know.k2 \in Int /\ know.r1 \in Int
      BY <2>2, ScalarInt
    <3>2. know.k1 * know.k2 + know.k1 * know.r1 \in Int
      BY <3>1
    <3> QED BY <3>2, FlInt, XCoordType
  <2>4. Xal21Known' /\ stage' \in Xal21Stages
    BY <1>3, <1>s, <2>3 DEF Xal21VerifyR, Step, With, Xal21Known, Has, Xal21Stages
  <2> QED BY <2>1, <2>4 DEF Xal21Stages
<1>4. CASE Xal21Online
  <2>1. stage = "xal21_online"
    BY <1>4 DEF Xal21Online, Return
  <2>2. /\ know.k1 \in Scalars /\ know.k2 \in Scalars /\ know.xp \in Scalars /\ know.r1 \in Scalars
        /\ know.xp2 \in Int /\ know.R \in Field /\ know.r \in Field
    BY <2>1 DEF Xal21Known, Has
  <2>3. /\ know.k2 \in Int /\ know.r1 \in Int /\ know.xp \in Int /\ Inv(know.k1) \in Int
        /\ know.r \in Int /\ digest \in Int /\ bent[P2] \in Int /\ XCoord(know.R) \in Int
    BY <2>2, ScalarInt, Operands, XCoordType, ScalarsType
  <2>4. ASSUME Fl(know.k2 + know.r1) # 0
        PROVE  Fl(Inv(know.k1) * (Xal21S2 + know.r * know.xp)) \in Field
    <3>1. Inv(Fl(know.k2 + know.r1)) \in Int
      BY <2>3, <2>4, FlInt, InvInt
    <3>2. XCoord(know.R) * know.xp2 \in Int /\ know.r * know.xp \in Int
      BY <2>2, <2>3
    <3>3. Inv(Fl(know.k2 + know.r1)) * (digest + XCoord(know.R) * know.xp2) \in Int
      BY <2>3, <3>1, <3>2
    <3>4. Xal21S2 \in Int
      BY <2>3, <3>3, FlInt DEF Xal21S2
    <3>5. Inv(know.k1) * (Xal21S2 + know.r * know.xp) \in Int
      BY <2>3, <3>2, <3>4
    <3> QED BY <3>5, FlInt
  <2> QED BY <1>4, <2>2, <2>4, FinishLawful DEF Xal21Online, Xal21Stages
<1> QED BY <1>1, <1>2, <1>3, <1>4 DEF Xal21SignNext

LEMMA Xal21Staged ==
    ASSUME Xal21SignNext
    PROVE  stage \in Xal21Stages
  BY DEF Xal21SignNext, Xal21Reshare, Xal21Decommit, Xal21VerifyR,
         Xal21Online, Xal21Stages, Step, Pass, Return

-----------------------------------------------------------------------------
(* KGG24.                                                                  *)

Kgg24Stages == {"kgg24_refresh_1", "kgg24_refresh_2", "kgg24_round_1", "kgg24_round_3", "kgg24_round_4"}

Kgg24Known ==
    /\ Has("x1", Int)
    /\ Has("x2", Int)
    /\ stage # "kgg24_refresh_1" => /\ Has("r", Int)
                                    /\ Has("cKey", Int)
    /\ stage \in {"kgg24_round_3", "kgg24_round_4"} => /\ Has("k1", Scalars)
                                                       /\ Has("k2", Scalars)
    /\ stage = "kgg24_round_4" => Has("c3", Int)

LEMMA Kgg24Begins ==
    ASSUME NEW f \in Sharings, Kgg24SignBegin(f)
    PROVE  Kgg24Known /\ stage \in Kgg24Stages
<1>1. ASSUME NEW x1 \in Scalars PROVE x1 \in Int /\ Fl(f[0] + Neg(x1)) \in Int
  BY BeginType, ScalarInt, FlInt
<1> QED BY <1>1 DEF Kgg24SignBegin, Kgg24Known, Kgg24Stages, Has

LEMMA Kgg24Step ==
    ASSUME Cardinality(Signers) >= 2, Session, Kgg24Known, Kgg24SignNext
    PROVE  /\ stage \in Kgg24Stages /\ LawfulStep
           /\ stage' # "ended" => Kgg24Known' /\ stage' \in Kgg24Stages
<1>s. Signers' = Signers /\ Ints' = Ints /\ Pairs' = Pairs /\ PairInts' = PairInts
  <2>1. protocol' = protocol
    BY DEF Kgg24SignNext, Kgg24Refresh1, Kgg24Refresh2, Kgg24Nonces, Kgg24SendPartial, Kgg24Finish, Step, Pass, Return
  <2> QED BY <2>1, SameIndices
<1>1. CASE Kgg24Refresh1
  <2>1. stage = "kgg24_refresh_1" /\ LawfulStep
    BY <1>1, StepLawful DEF Kgg24Refresh1, Step
  <2>2. know.x1 \in Int /\ know.x2 \in Int
    BY <2>1 DEF Kgg24Known, Has
  <2>3. \A r \in Scalars, t \in Kgg24Noise :
          /\ r \in Int /\ Fl(know.x1 + Neg(r) + bent[P1]) \in Int
          /\ Fl(know.x1 + Neg(r) + bent[P1]) + t * Q \in Int
    <3> SUFFICES ASSUME NEW r \in Scalars, NEW t \in Kgg24Noise
                 PROVE  /\ r \in Int /\ Fl(know.x1 + Neg(r) + bent[P1]) \in Int
                        /\ Fl(know.x1 + Neg(r) + bent[P1]) + t * Q \in Int
      OBVIOUS
    <3>1. r \in Int /\ t \in Int /\ bent[P1] \in Int
      BY ScalarInt, DrawnInts, Operands DEF Kgg24Noise
    <3>2. Fl(know.x1 + Neg(r) + bent[P1]) \in Int
      BY <2>2, <3>1, FlInt
    <3>3. t * Q \in Int
      BY <3>1, QAssumption
    <3> QED BY <3>1, <3>2, <3>3
  <2>4. Kgg24Known' /\ stage' \in Kgg24Stages
    BY <1>1, <1>s, <2>3 DEF Kgg24Refresh1, Step, With, Kgg24Known, Has, Kgg24Stages
  <2> QED BY <2>1, <2>4 DEF Kgg24Stages
<1>2. CASE Kgg24Refresh2
  <2>1. CASE Return("kgg24_refresh_2", Everyone(Refused))
    BY <2>1, RefusalLawful DEF Kgg24Stages
  <2>2. CASE Step("kgg24_refresh_2", "kgg24_round_1", [x2 |-> Fl(know.x2 + know.r)])
    <3>1. stage = "kgg24_refresh_2" /\ LawfulStep
      BY <2>2, StepLawful DEF Step
    <3>2. /\ know.x1 \in Int /\ know.x2 \in Int /\ know.r \in Int
          /\ know.cKey \in Int
      BY <3>1 DEF Kgg24Known, Has
    <3>3. Fl(know.x2 + know.r) \in Int
      BY <3>2, FlInt
    <3>4. Kgg24Known' /\ stage' \in Kgg24Stages
      BY <2>2, <1>s, <3>3 DEF Step, With, Kgg24Known, Has, Kgg24Stages
    <3> QED BY <3>1, <3>4 DEF Kgg24Stages
  <2> QED BY <1>2, <2>1, <2>2 DEF Kgg24Refresh2
<1>3. CASE Kgg24Nonces
  <2>1. stage = "kgg24_round_1" /\ LawfulStep
    BY <1>3, StepLawful DEF Kgg24Nonces, Step
  <2>4. Kgg24Known' /\ stage' \in Kgg24Stages
    BY <1>3, <1>s DEF Kgg24Nonces, Step, With, Kgg24Known, Has, Kgg24Stages
  <2> QED BY <2>1, <2>4 DEF Kgg24Stages
<1>4. CASE Kgg24SendPartial
  <2>1. stage = "kgg24_round_3" /\ LawfulStep
    BY <1>4, StepLawful DEF Kgg24SendPartial, Step
  <2>2. /\ know.x1 \in Int /\ know.x2 \in Int /\ know.r \in Int
        /\ know.cKey \in Int /\ know.k1 \in Scalars /\ know.k2 \in Scalars
    BY <2>1 DEF Kgg24Known, Has
  <2>3. \A rhoBar \in Scalars, rho \in Masks : Kgg24PartialSignature(rhoBar, rho) \in Int
    <3> SUFFICES ASSUME NEW rhoBar \in Scalars, NEW rho \in Masks
                 PROVE  Kgg24PartialSignature(rhoBar, rho) \in Int
      OBVIOUS
    <3> DEFINE kInv == Inv(know.k2) + rhoBar * Q
               r == XCoord(Kgg24Nonce)
    <3>1. /\ rhoBar \in Int /\ rho \in Int /\ Inv(know.k2) \in Int /\ digest \in Int /\ bent[P2] \in Int
          /\ know.k1 \in Int /\ know.k2 \in Int
      BY <2>2, DrawnInts, ScalarInt, Operands
    <3>2. know.k1 * know.k2 \in Int /\ rho * Q \in Int /\ rhoBar * Q \in Int
      BY <3>1, QAssumption
    <3>3. r \in Int
      BY <3>2, FlInt, XCoordType, ScalarsType DEF Kgg24Nonce
    <3>4. kInv \in Int
      BY <3>1, <3>2
    <3>5. Kgg24PartialSignature(rhoBar, rho)
          = rho * Q + kInv * digest + kInv * r * know.x2 + r * kInv * know.cKey + bent[P2]
      BY DEF Kgg24PartialSignature
    <3> HIDE DEF kInv, r
    <3>6. kInv * digest \in Int /\ kInv * r \in Int /\ r * kInv \in Int
      BY <3>1, <3>3, <3>4
    <3>7. kInv * r * know.x2 \in Int /\ r * kInv * know.cKey \in Int
      BY <2>2, <3>6
    <3>8. rho * Q + kInv * digest + kInv * r * know.x2 + r * kInv * know.cKey + bent[P2] \in Int
      BY <3>1, <3>2, <3>6, <3>7
    <3> QED BY <3>5, <3>8
  <2>4. Kgg24Known' /\ stage' \in Kgg24Stages
    BY <1>4, <1>s, <2>3 DEF Kgg24SendPartial, Step, With, Kgg24Known, Has, Kgg24Stages
  <2> QED BY <2>1, <2>4 DEF Kgg24Stages
<1>5. CASE Kgg24Finish
  <2>1. stage = "kgg24_round_4"
    BY <1>5 DEF Kgg24Finish, Return
  <2>2. know.k1 \in Scalars /\ know.k2 \in Scalars /\ know.c3 \in Int
    BY <2>1 DEF Kgg24Known, Has
  <2>3. know.k1 \in Int /\ know.k2 \in Int /\ Inv(know.k1) \in Int /\ Signed(know.c3, WideN) \in Int
    BY <2>2, ScalarInt, SignedInt
  <2>4. XCoord(Kgg24Nonce) \in Field
    <3>1. know.k1 * know.k2 \in Int
      BY <2>3
    <3> QED BY <3>1, FlInt, XCoordType DEF Kgg24Nonce
  <2>5. (Signed(know.c3, WideN) % Q) \in Int
    BY <2>3, QAssumption, Remainder
  <2>6. Fl(Inv(know.k1) * (Signed(know.c3, WideN) % Q)) \in Field
    <3>1. Inv(know.k1) * (Signed(know.c3, WideN) % Q) \in Int
      BY <2>3, <2>5
    <3> QED BY <3>1, FlInt
  <2> QED BY <1>5, <2>4, <2>6, FinishLawful DEF Kgg24Finish, Kgg24Stages
<1> QED BY <1>1, <1>2, <1>3, <1>4, <1>5 DEF Kgg24SignNext

LEMMA Kgg24Staged ==
    ASSUME Kgg24SignNext
    PROVE  stage \in Kgg24Stages
  BY DEF Kgg24SignNext, Kgg24Refresh1, Kgg24Refresh2, Kgg24Nonces,
         Kgg24SendPartial, Kgg24Finish, Kgg24Stages, Step, Pass, Return

-----------------------------------------------------------------------------
(* ABC24.                                                                  *)

Abc24Stages == {"abc24_round_1", "abc24_round_2"}

Abc24Known ==
    /\ Has("x1", Int)
    /\ Has("x2", Scalars)
    /\ Has("k2", Scalars)
    /\ Has("Y", Int)
    /\ stage # "abc24_round_1" => /\ Has("k1", Scalars)
                                  /\ Has("mu", Scalars)
    /\ stage # "abc24_round_1" => /\ Has("R", Int)
                                  /\ Has("sct", Int)

LEMMA Abc24Begins ==
    ASSUME NEW f \in Sharings, Session, Cardinality(Signers) >= 2, Abc24SignBegin(f)
    PROVE  Abc24Known /\ stage \in Abc24Stages
<1>1. ASSUME NEW x2 \in Scalars, NEW k2 \in Scalars
      PROVE  /\ Fl(f[0] + Neg(x2)) \in Int
             /\ Fl(k2 * Fl(f[0] + Neg(x2)) + bent[Abc24Server]) \in Int
  <2>1. x2 \in Int /\ k2 \in Int /\ f[0] \in Int /\ bent[Abc24Server] \in Int
    BY BeginType, ScalarInt, Operands DEF Abc24Server
  <2>2. Fl(f[0] + Neg(x2)) \in Int
    BY <2>1, FlInt
  <2>3. k2 * Fl(f[0] + Neg(x2)) \in Int
    BY <2>1, <2>2
  <2> QED BY <2>1, <2>2, <2>3, FlInt
<1> QED BY <1>1 DEF Abc24SignBegin, Abc24Known, Abc24Stages, Has

LEMMA Abc24Step ==
    ASSUME Cardinality(Signers) >= 2, Session, Abc24Known, Abc24SignNext
    PROVE  /\ stage \in Abc24Stages /\ LawfulStep
           /\ stage' # "ended" => Abc24Known' /\ stage' \in Abc24Stages
<1>s. Signers' = Signers /\ Ints' = Ints /\ Pairs' = Pairs /\ PairInts' = PairInts
  <2>1. protocol' = protocol
    BY DEF Abc24SignNext, Abc24ClientRound2, Abc24Finish, Step, Pass, Return
  <2> QED BY <2>1, SameIndices
<1>1. CASE Abc24ClientRound2
  <2>1. CASE Return("abc24_round_1", Everyone(Refused))
    BY <2>1, RefusalLawful DEF Abc24Stages
  <2>2. CASE ~ Return("abc24_round_1", Everyone(Refused))
    <3>1. PICK k1 \in Scalars, mu \in Scalars, u \in Scalars, v \in Scalars, off \in {"R", "ciphertext"} :
             LET r == XCoord(Fl(k1 * (know.k2 + mu)))
                 bend(what) == IF off = what THEN bent[Abc24Client] ELSE 0
             IN Step("abc24_round_1", "abc24_round_2",
                     [k1 |-> k1, mu |-> mu,
                      R |-> Fl(k1 * know.k2 + bend("R")),
                      sct |-> Fl(Inv(k1) * (digest + r * know.x1)) + u * Q
                              + (Fl(Inv(k1) * r) + v * Q) * know.x2 + bend("ciphertext")])
      BY <1>1, <2>2 DEF Abc24ClientRound2
    <3> DEFINE r == XCoord(Fl(k1 * (know.k2 + mu)))
               bend(what) == IF off = what THEN bent[Abc24Client] ELSE 0
               R == Fl(k1 * know.k2 + bend("R"))
               sct == Fl(Inv(k1) * (digest + r * know.x1)) + u * Q
                      + (Fl(Inv(k1) * r) + v * Q) * know.x2 + bend("ciphertext")
    <3>2. stage = "abc24_round_1" /\ LawfulStep
      BY <3>1, StepLawful DEF Step
    <3>3. know.x1 \in Int /\ know.x2 \in Scalars /\ know.k2 \in Scalars
      BY <3>2 DEF Abc24Known, Has
    <3>4. /\ k1 \in Int /\ mu \in Int /\ u \in Int /\ v \in Int /\ Inv(k1) \in Int
          /\ know.k2 \in Int /\ know.x2 \in Int /\ digest \in Int /\ bent[Abc24Client] \in Int
      BY <3>3, ScalarInt, Operands DEF Abc24Client
    <3>5. bend("R") \in Int /\ bend("ciphertext") \in Int
      BY <3>4
    <3>6. r \in Int
      <4>1. k1 * (know.k2 + mu) \in Int
        BY <3>4
      <4> QED BY <4>1, FlInt, XCoordType, ScalarsType
    <3>7. R \in Int
      <4>1. k1 * know.k2 \in Int
        BY <3>4
      <4> QED BY <3>5, <4>1, FlInt
    <3>8. sct \in Int
      <4> HIDE DEF r, bend
      <4>1. u * Q \in Int /\ v * Q \in Int /\ r * know.x1 \in Int /\ Inv(k1) * r \in Int
        BY <3>3, <3>4, <3>6, QAssumption
      <4>2. Inv(k1) * (digest + r * know.x1) \in Int
        BY <3>4, <4>1
      <4>3. Fl(Inv(k1) * (digest + r * know.x1)) \in Int /\ Fl(Inv(k1) * r) \in Int
        BY <4>1, <4>2, FlInt
      <4>4. (Fl(Inv(k1) * r) + v * Q) * know.x2 \in Int
        BY <3>4, <4>1, <4>3
      <4> QED BY <3>5, <4>1, <4>3, <4>4
    <3>9. Step("abc24_round_1", "abc24_round_2", [k1 |-> k1, mu |-> mu, R |-> R, sct |-> sct])
      BY <3>1
    <3> HIDE DEF R, sct
    <3>10. Abc24Known' /\ stage' \in Abc24Stages
      BY <1>s, <3>7, <3>8, <3>9 DEF Step, With, Abc24Known, Has, Abc24Stages
    <3> QED BY <3>2, <3>10 DEF Abc24Stages
  <2> QED BY <2>1, <2>2
<1>2. CASE Abc24Finish
  <2>1. stage = "abc24_round_2"
    BY <1>2 DEF Abc24Finish, Return
  <2>2. know.k1 \in Scalars /\ know.k2 \in Scalars /\ know.mu \in Scalars /\ know.sct \in Int
    BY <2>1 DEF Abc24Known, Has
  <2>3. know.k1 \in Int /\ know.k2 \in Int /\ know.mu \in Int /\ Signed(know.sct, WideN) \in Int
    BY <2>2, ScalarInt, SignedInt
  <2>4. XCoord(Abc24Nonce) \in Field
    <3>1. know.k1 * (know.k2 + know.mu) \in Int
      BY <2>3
    <3> QED BY <3>1, FlInt, XCoordType DEF Abc24Nonce
  <2>5. ASSUME Fl(know.k2 + know.mu) # 0
        PROVE  Fl(Signed(know.sct, WideN) * Inv(Fl(know.k2 + know.mu))) \in Field
    <3>1. Inv(Fl(know.k2 + know.mu)) \in Int
      BY <2>3, <2>5, FlInt, InvInt
    <3>2. Signed(know.sct, WideN) * Inv(Fl(know.k2 + know.mu)) \in Int
      BY <2>3, <3>1
    <3> QED BY <3>2, FlInt
  <2> QED BY <1>2, <2>4, <2>5, FinishLawful DEF Abc24Finish, Abc24Stages
<1> QED BY <1>1, <1>2 DEF Abc24SignNext

LEMMA Abc24Staged ==
    ASSUME Abc24SignNext
    PROVE  stage \in Abc24Stages
  BY DEF Abc24SignNext, Abc24ClientRound2, Abc24Finish, Abc24Stages, Step,
         Pass, Return

-----------------------------------------------------------------------------
(* LN18.                                                                   *)

Ln18Stages == {"ln18_offline", "ln18_round_3", "ln18_round_4", "ln18_round_7", "ln18_round_8", "ln18_presigned"}

Ln18Known ==
    /\ Has("k", [Signers -> Scalars])
    /\ Has("rho", [Signers -> Scalars])
    /\ Has("x", Ints)
    /\ stage # "ln18_offline" => Has("tau", Ints)
    /\ stage \in {"ln18_round_4", "ln18_round_7", "ln18_round_8"} =>
           /\ Has("alpha", Ints)
           /\ Has("beta", Ints)
    /\ Total(know.x, Signers) = key /\ protocol = "ln18"
    /\ stage # "ln18_offline" => Has("R", {Total(know.k, Signers)})
    /\ stage \in {"ln18_round_4", "ln18_round_7", "ln18_round_8"} =>
           know.alpha = [i \in Signers |-> Ln18Alpha(i)]
    /\ stage \in {"ln18_round_7", "ln18_round_8", "ln18_presigned"} =>
           Total(know.tau, Signers) = Fl(Total(know.k, Signers) * Total(know.rho, Signers))
    /\ stage = "ln18_round_8" =>
           Total(know.beta, Signers) = Fl(Total(know.rho, Signers) * Total(know.alpha, Signers))

\* The check of a multiplication lets nothing pass but shares of the product:
\* whatever is left is found by the same non-zero factor at every signer, which
\* does not add up to zero.
LEMMA Ln18CheckDhDecides ==
    ASSUME NEW left \in Field, NEW k \in [Signers -> Scalars], Ln18CheckDh(left)
    PROVE  left = 0
<1>1. PICK i \in Signers : TRUE
  BY SignersType
<1> DEFINE c == k[i]
           z == [j \in Signers |-> c]
           n == Cardinality(Signers)
<1>2. c \in Scalars /\ c \in Field /\ c # 0 /\ c \in Int /\ left \in Int /\ Fl(c) = c
  BY ScalarsType
<1>3. n \in 1 .. Q - 1
  <2>1. IsFiniteSet(1 .. Q - 1) /\ Cardinality(1 .. Q - 1) = Q - 1
    BY QAssumption, FS_Interval
  <2>2. n <= Q - 1
    BY <2>1, SignersType, FS_Subset
  <2>3. n # 0
    BY SignersType, FS_EmptySet
  <2> QED BY <2>2, <2>3, SignersType
<1> HIDE DEF c, n
<1>4. Total(z, Signers) = Fl(n * c)
  BY <1>2, SignersType, TotalConstant DEF n
<1>5. n \in Int /\ Fl(n) = n /\ n # 0
  <2>1. n \in Field /\ n \in Int /\ n # 0
    BY <1>3, QAssumption DEF Field
  <2> QED BY <2>1, FlField
<1>6. Total(z, Signers) # 0
  BY <1>2, <1>4, <1>5, FlIntegral
<1>7. z \in Ln18Rerandomizers
  BY <1>2, <1>6 DEF Ln18Rerandomizers
<1> DEFINE t == Total(z, Signers)
<1>8. Fl(left * t) = 0
  BY <1>7 DEF Ln18CheckDh
<1>9. t \in Field /\ t \in Int /\ t # 0
  BY <1>2, <1>6, IntsType
<1> HIDE DEF t
<1>10. Fl(t * left) = 0 /\ Fl(t) # 0
  <2>1. t * left = left * t
    BY <1>2, <1>9
  <2> QED BY <1>8, <1>9, <2>1, FlField
<1>11. Fl(left) = 0
  BY <1>2, <1>9, <1>10, FlIntegral
<1> QED BY <1>11, FlField

\* What is left is zero exactly when the shares add up to the product.
LEMMA Ln18LeftZero ==
    ASSUME NEW a \in Ints, NEW b \in Ints, NEW c \in Ints,
           NEW k \in [Signers -> Scalars], Ln18CheckDh(Ln18Left(a, b, c))
    PROVE  Total(c, Signers) = Fl(Total(a, Signers) * Total(b, Signers))
<1> DEFINE x == Total(a, Signers)
           y == Total(b, Signers)
           z == Total(c, Signers)
<1>1. x \in Int /\ y \in Int /\ z \in Int /\ z \in Field
  BY IntsType DEF Ints
<1>2. Ln18Left(a, b, c) = Fl(x * y - z)
  BY DEF Ln18Left
<1> HIDE DEF x, y, z
<1> DEFINE d == x * y
<1>3. d \in Int
  BY <1>1
<1> HIDE DEF d
<1>4. Fl(d - z) \in Field
  BY <1>1, <1>3, FlInt
<1>5. Fl(d - z) = 0
  BY <1>2, <1>4, Ln18CheckDhDecides DEF d
<1>6. Fl(0 + z) = Fl((d - z) + z)
  <2>1. d - z \in Int /\ 0 \in Int /\ Fl(0) = Fl(d - z) /\ Fl(z) = Fl(z)
    BY <1>1, <1>3, <1>5, QAssumption DEF Fl
  <2> DEFINE e == d - z
  <2> HIDE DEF e
  <2>2. Fl(0 + z) = Fl(e + z)
    BY <1>1, <2>1, FlSum DEF e
  <2> QED BY <2>2 DEF e
<1>7. 0 + z = z /\ (d - z) + z = d
  BY <1>1, <1>3
<1>8. Fl(z) = z
  BY <1>1, FlField
<1> QED BY <1>6, <1>7, <1>8 DEF x, y, z, d

\* A share of a product that MtA leaves a signer with.
LEMMA Ln18ShareType ==
    ASSUME NEW a \in Ints, NEW b \in Ints, NEW masks \in PairInts, NEW i \in Signers
    PROVE  Ln18Share(a, b, masks, i) \in Int
<1> DEFINE g == [j \in Others(i) |->
            MtaSenderShare(a[i], b[j], masks[<<j, i>>], PaillierN) + MtaReceiverShare(masks[<<i, j>>])]
<1>1. ASSUME NEW j \in Others(i) PROVE g[j] \in Int
  <2>1. masks[<<j, i>>] \in Int /\ masks[<<i, j>>] \in Int /\ a[i] \in Int /\ b[j] \in Int
    BY OtherPairs DEF Ints, PairInts
  <2>2. a[i] * b[j] + masks[<<j, i>>] \in Int
    BY <2>1
  <2>3. MtaSenderShare(a[i], b[j], masks[<<j, i>>], PaillierN) \in Int
    BY <2>2, SignedInt, FlInt DEF MtaSenderShare
  <2>4. MtaReceiverShare(masks[<<i, j>>]) \in Int
    BY <2>1, FlInt DEF MtaReceiverShare
  <2> QED BY <1>1, <2>3, <2>4
<1>2. SumFunctionOnSet(g, Others(i)) \in Int
  BY <1>1, OthersSum
<1>3. a[i] * b[i] \in Int
  <2>1. a[i] \in Int /\ b[i] \in Int
    BY DEF Ints
  <2> QED BY <2>1
<1> HIDE DEF g
<1>4. Fl(a[i] * b[i] + SumFunctionOnSet(g, Others(i))) \in Int
  BY <1>2, <1>3, FlInt
<1> QED BY <1>4 DEF Ln18Share, g

LEMMA Ln18SharesType ==
    ASSUME Session, NEW a \in Ints, NEW b \in Ints, NEW masks \in PairInts, NEW product
    PROVE  Ln18Shares(product, a, b, masks) \in Ints /\ Ln18Multiply(a, b, masks) \in Ints
<1>1. ASSUME NEW i \in Signers
      PROVE  /\ Fl(Ln18Share(a, b, masks, i) + (IF know.fault = product THEN bent[i] ELSE 0)) \in Int
             /\ Ln18Share(a, b, masks, i) \in Int
  <2>1. (IF know.fault = product THEN bent[i] ELSE 0) \in Int
    BY Operands
  <2>2. Ln18Share(a, b, masks, i) \in Int
    BY Ln18ShareType
  <2> QED BY <2>1, <2>2, FlInt
<1> QED BY <1>1 DEF Ln18Shares, Ln18Multiply, Ints

\* The shares of alpha add up to r x + m.
LEMMA Ln18AlphaTotal ==
    ASSUME Session, NEW x \in Ints, Total(x, Signers) = key, NEW r \in Int, NEW alpha,
           alpha = [i \in Signers |-> Fl(x[i] * r + digest * Inv(Cardinality(Signers)))]
    PROVE  alpha \in Ints /\ Total(alpha, Signers) = Fl(r * key + digest)
<1> DEFINE n == Cardinality(Signers)
           c == digest * Inv(n)
           g == [i \in Signers |-> r * x[i]]
           h == [i \in Signers |-> c]
<1>1. n \in Int /\ Inv(n) \in Int /\ Fl(n * Inv(n)) = 1
  <2>1. n \in 1 .. Q - 1
    <3>1. IsFiniteSet(1 .. Q - 1) /\ Cardinality(1 .. Q - 1) = Q - 1
      BY QAssumption, FS_Interval
    <3>2. n <= Q - 1
      BY <3>1, SignersType, FS_Subset
    <3>3. n # 0
      BY SignersType, FS_EmptySet
    <3> QED BY <3>2, <3>3, SignersType
  <2>2. n \in Field /\ n \in Int /\ n # 0
    BY <2>1, QAssumption DEF Field
  <2>3. Fl(n) # 0
    BY <2>2, FlField
  <2> QED BY <2>2, <2>3, InvType, ScalarsType
<1>2. digest \in Int /\ digest \in Field /\ key \in Int
  BY Operands DEF Session
<1> HIDE DEF n
<1>3. c \in Int
  BY <1>1, <1>2
<1>4. \A i \in Signers : x[i] \in Int /\ r * x[i] \in Int
  <2>1. \A i \in Signers : x[i] \in Int
    BY DEF Ints
  <2> QED BY <2>1
<1>5. alpha = [i \in Signers |-> Fl(x[i] * r + c)]
  BY DEF n
<1>6. n * c \in Int /\ Fl(n * c) = digest
  <2> DEFINE v == Inv(n)
             w == n * v
  <2>1. v \in Int /\ w \in Int /\ Fl(w) = Fl(1)
    <3>1. 1 \in Field
      BY QAssumption DEF Field
    <3> QED BY <1>1, <3>1, FlField
  <2>2. n * c = w * digest
    <3>1. c = digest * v
      OBVIOUS
    <3> HIDE DEF v, c
    <3>2. n * (digest * v) = (n * v) * digest
      BY <1>1, <1>2, <2>1
    <3> QED BY <3>1, <3>2
  <2> HIDE DEF w
  <2>3. Fl(w * digest) = Fl(1 * digest)
    BY <1>2, <2>1, FlProduct
  <2>4. 1 * digest = digest /\ Fl(digest) = digest /\ w * digest \in Int
    BY <1>2, <2>1, FlField
  <2> QED BY <2>2, <2>3, <2>4
<1> HIDE DEF c
<1>7. \A i \in Signers : /\ g[i] \in Int /\ h[i] \in Int /\ alpha[i] \in Int
                         /\ Fl(alpha[i]) = Fl(g[i] + h[i])
  <2> SUFFICES ASSUME NEW i \in Signers
               PROVE  g[i] \in Int /\ h[i] \in Int /\ alpha[i] \in Int /\ Fl(alpha[i]) = Fl(g[i] + h[i])
    OBVIOUS
  <2> DEFINE e == r * x[i]
  <2>1. e \in Int /\ x[i] * r = e
    BY <1>4
  <2>2. g[i] = e /\ h[i] = c /\ alpha[i] = Fl(e + c)
    BY <1>5, <2>1
  <2> HIDE DEF e, g, h
  <2>3. e + c \in Int
    BY <1>3, <2>1
  <2>4. Fl(e + c) \in Int /\ Fl(Fl(e + c)) = Fl(e + c)
    BY <2>3, FlInt, FlField
  <2> QED BY <1>3, <2>1, <2>2, <2>4
<1>8. alpha \in Ints
  BY <1>5, <1>7 DEF Ints
<1>9. Total(alpha, Signers) = Fl(Total(g, Signers) + Total(h, Signers))
  <2> HIDE DEF g, h
  <2> QED BY <1>7, SignersType, TotalSum
<1>10. Total(h, Signers) = Fl(n * c)
  BY <1>3, SignersType, TotalConstant DEF n
<1>11. Total(g, Signers) = Fl(r * key)
  <2>1. \A i \in Signers : x[i] \in Int /\ g[i] \in Int /\ Fl(g[i]) = Fl(r * x[i])
    BY <1>4
  <2> HIDE DEF g
  <2> QED BY <2>1, SignersType, TotalScale
<1> DEFINE rk == r * key
<1>12. rk \in Int
  BY <1>2
<1>13. Total(alpha, Signers) = Fl(Fl(rk) + digest)
  BY <1>6, <1>9, <1>10, <1>11
<1> HIDE DEF rk
<1>14. Fl(Fl(rk) + digest) = Fl(rk + digest)
  <2>1. Fl(rk) \in Int /\ Fl(rk) \in Field
    BY <1>12, FlInt
  <2>2. Fl(Fl(rk)) = Fl(rk)
    BY <2>1, FlField
  <2> DEFINE e == Fl(rk)
  <2> HIDE DEF e
  <2>3. Fl(e + digest) = Fl(rk + digest)
    BY <1>2, <1>12, <2>1, <2>2, FlSum DEF e
  <2> QED BY <2>3 DEF e
<1> QED BY <1>8, <1>13, <1>14 DEF rk

\* What is opened is a signature, although nobody verifies it.
LEMMA Ln18AnswerLawful ==
    ASSUME Session, NEW R \in Field, NEW rho \in Int, NEW tau, NEW beta, NEW a \in Int,
           \A i \in Signers : tau[i] \in Int /\ beta[i] \in Int,
           protocol = "ln18", R = Total(know.k, Signers), a = Fl(XCoord(R) * key + digest),
           Total(tau, Signers) = Fl(R * rho), Total(beta, Signers) = Fl(rho * a)
    PROVE  Lawful(Everyone(Ln18Answer(XCoord(R), tau, beta)))
<1> DEFINE t == Total(tau, Signers)
           b == Total(beta, Signers)
           v == Inv(t)
           s == Fl(v * b)
           sig == [r |-> XCoord(R), s |-> LowS(s)]
<1>1. /\ t \in Field /\ t \in Int /\ b \in Int /\ R \in Int /\ key \in Field /\ digest \in Field
      /\ key \in Int /\ digest \in Int /\ XCoord(R) \in Field /\ XCoord(R) \in Int
  BY IntsType, XCoordType, Operands, ScalarsType DEF Session
<1>2. Ln18Answer(XCoord(R), tau, beta) = IF t = 0 THEN Refused ELSE sig
  BY DEF Ln18Answer
<1>3. ASSUME t # 0, ~NoSignature(XCoord(R)) PROVE Right(sig)
  <2>1. v \in Int /\ Fl(t * v) = 1
    <3>1. Fl(t) # 0
      BY <1>1, <1>3, FlField
    <3> QED BY <1>1, <3>1, InvType, ScalarsType
  <2>2. t = Fl(R * rho) /\ b = Fl(rho * a)
    OBVIOUS
  <2> HIDE DEF t, b, v
  <2>3. s \in Field /\ s \in Int
    <3>1. v * b \in Int
      BY <1>1, <2>1
    <3> QED BY <3>1, FlInt
  <2>4. Fl(s * R) = Fl(a)
    <3> DEFINE x == R * rho
               y == v * b
               z == t * v
               ra == rho * a
               vr == v * R
    <3>1. x \in Int /\ y \in Int /\ z \in Int /\ ra \in Int /\ vr \in Int
      BY <1>1, <2>1
    <3>2. Fl(s * R) = Fl(y * R)
      <4> HIDE DEF y
      <4> QED BY <1>1, <3>1, FlMul DEF y
    <3>3. y * R = vr * b
      BY <1>1, <2>1
    <3>4. Fl(vr * b) = Fl(vr * ra)
      <4> HIDE DEF vr, ra
      <4> QED BY <2>2, <3>1, FlMulRight DEF ra
    <3>5. vr * ra = (a * v) * x
      BY <1>1, <2>1
    <3> DEFINE av == a * v
    <3>6. av \in Int
      BY <2>1
    <3>7. Fl(av * x) = Fl(av * t)
      <4> HIDE DEF av, x
      <4> QED BY <2>2, <3>1, <3>6, FlMulRight DEF x
    <3>8. av * t = a * z
      BY <1>1, <2>1
    <3>9. Fl(a * z) = Fl(a * 1)
      <4> HIDE DEF z
      <4>1. Fl(z) = Fl(1)
        <5>1. 1 \in Field
          BY QAssumption DEF Field
        <5> QED BY <2>1, <5>1, FlField DEF z
      <4> QED BY <3>1, <4>1, FlProduct
    <3>10. a * 1 = a
      OBVIOUS
    <3> HIDE DEF x, y, z, ra, vr, av
    <3> QED BY <3>2, <3>3, <3>4, <3>5, <3>7, <3>8, <3>9, <3>10 DEF av
  <2> DEFINE rk == XCoord(R) * key
  <2>5. rk \in Int /\ a = Fl(rk + digest) /\ rk + digest = digest + rk
    BY <1>1
  <2>6. a \in Field /\ Fl(a) = a
    <3> HIDE DEF rk
    <3>1. rk + digest \in Int
      BY <1>1, <2>5
    <3> QED BY <2>5, <3>1, FlInt, FlField
  <2>7. Fl(s * R) = Fl(digest + XCoord(R) * key)
    BY <2>4, <2>5, <2>6
  <2>8. a # 0
    BY <1>3, <2>5 DEF NoSignature
  <2>9. s # 0
    <3> HIDE DEF s
    <3> SUFFICES ASSUME s = 0 PROVE FALSE
      OBVIOUS
    <3>1. s * R = 0
      BY <1>1
    <3>2. Fl(0) = 0
      BY QAssumption DEF Fl
    <3> QED BY <2>4, <2>6, <2>8, <3>1, <3>2
  <2> HIDE DEF s
  <2>10. VerifyEcdsa(sig, key, digest)
    BY <1>1, <2>3, <2>7, <2>9, SignatureVerifies
  <2>11. sig \in Signatures /\ sig.s = LowS(sig.s)
    BY <1>1, <2>3, VerifiedSignature
  <2> QED BY <2>10, <2>11 DEF Right
<1>z. ASSUME t # 0, NoSignature(XCoord(R)) PROVE sig \in [r : Field, s : {0}]
  <2>1. v \in Int
    <3>1. Fl(t) # 0
      BY <1>1, <1>z, FlField
    <3> QED BY <1>1, <3>1, InvType, ScalarsType
  <2>2. a = 0
    <3>1. XCoord(R) * key + digest = digest + XCoord(R) * key
      BY <1>1
    <3> QED BY <1>z, <3>1 DEF NoSignature
  <2>3. Fl(0) = 0
    BY QAssumption DEF Fl
  <2>4. b = 0
    BY <2>2, <2>3
  <2> HIDE DEF b, v
  <2>5. v * b = 0
    BY <2>1, <2>4
  <2>6. s = 0
    BY <2>3, <2>5
  <2> HIDE DEF s
  <2>7. LowS(s) = 0
    BY <2>6, <2>3, QAssumption DEF LowS, Neg
  <2> QED BY <1>1, <2>7
<1> HIDE DEF t, sig
<1> DEFINE outcome == Ln18Answer(XCoord(R), tau, beta)
<1>4. outcome = Refused \/ Right(outcome) \/ (NoSignature(XCoord(R)) /\ outcome \in [r : Field, s : {0}])
  BY <1>2, <1>3, <1>z
<1> HIDE DEF outcome
<1>5. DOMAIN Everyone(outcome) = Signers /\ \A i \in Signers : Everyone(outcome)[i] = outcome
  BY DEF Session, Everyone
<1>6. Lawful(Everyone(outcome))
  BY <1>4, <1>5 DEF Lawful, Untested
<1> QED BY <1>6 DEF outcome

LEMMA Ln18Begins ==
    ASSUME NEW f \in Sharings, key = f[0], protocol = "ln18", Ln18SignBegin(f)
    PROVE  Ln18Known /\ stage \in Ln18Stages
<1>1. PICK k \in [Signers -> Scalars], rho \in [Signers -> Scalars],
           fault \in IF bent = Straight THEN {"none"} ELSE {"tau", "beta"} :
         know = [k |-> k, rho |-> rho, fault |-> fault,
                 x |-> [i \in Signers |-> Fl(Eval(f, i) * Lagrange(Signers, i))]]
  BY DEF Ln18SignBegin
<1> DEFINE x == [i \in Signers |-> Fl(Eval(f, i) * Lagrange(Signers, i))]
<1>2. x \in [Signers -> Field] /\ Total(x, Signers) = key
  BY WeightedShares
<1>3. x \in Ints
  BY <1>2, ScalarsType DEF Ints
<1>4. know = [k |-> k, rho |-> rho, fault |-> fault, x |-> x]
  BY <1>1
<1> HIDE DEF x
<1> QED BY <1>1, <1>2, <1>3, <1>4 DEF Ln18SignBegin, Ln18Known, Ln18Stages, Has

LEMMA Ln18Step ==
    ASSUME Session, Ln18Known, Ln18SignNext
    PROVE  /\ stage \in Ln18Stages /\ LawfulStep
           /\ stage' # "ended" => Ln18Known' /\ stage' \in Ln18Stages
<1>s. /\ Signers' = Signers /\ Ints' = Ints /\ Pairs' = Pairs /\ PairInts' = PairInts
      /\ protocol' = protocol
  <2>1. protocol' = protocol
    BY DEF Ln18SignNext, Ln18StartTau, Ln18StartBeta, Ln18CheckTau, Ln18CheckBeta, Ln18Finish, Ln18LocalPresign, Ln18LocalOnline, Step, Pass, Return
  <2> QED BY <2>1, SameIndices
<1>1. CASE Ln18StartTau
  <2>1. PICK masks \in [Pairs -> Ln18MaskRange] :
           Step("ln18_offline", "ln18_round_3",
                [R |-> Total(know.k, Signers), masks |-> masks,
                 tau |-> Ln18Shares("tau", know.k, know.rho, masks)])
    BY <1>1 DEF Ln18StartTau
  <2> DEFINE R == Total(know.k, Signers)
             tau == Ln18Shares("tau", know.k, know.rho, masks)

  <2>3. stage = "ln18_offline" /\ LawfulStep
    BY <2>1, StepLawful DEF Step
  <2>4. /\ know.k \in [Signers -> Scalars] /\ know.rho \in [Signers -> Scalars] /\ know.x \in Ints
        /\ know.k \in Ints /\ know.rho \in Ints
        /\ Total(know.x, Signers) = key /\ protocol = "ln18"
    BY <2>3, DrawnInts DEF Ln18Known, Has

  <2>5. masks \in PairInts
    BY DrawnInts DEF Ln18MaskRange, PairInts
  <2>6. tau \in Ints
    BY <2>4, <2>5, Ln18SharesType
  <2>7. Step("ln18_offline", "ln18_round_3", [R |-> R, masks |-> masks, tau |-> tau])
    BY <2>1
  <2> HIDE DEF tau
  <2>8. R = Total(know.k, Signers)
    OBVIOUS
  <2> HIDE DEF R
  <2>9. Ln18Known' /\ stage' \in Ln18Stages
    BY <1>s, <2>4, <2>6, <2>7, <2>8 DEF Step, With, Ln18Known, Has, Ln18Stages
  <2> QED BY <2>3, <2>9 DEF Ln18Stages
<1>2. CASE Ln18StartBeta
  <2>1. CASE Return("ln18_round_3", Everyone(Refused))
    BY <2>1, RefusalLawful DEF Ln18Stages
  <2>2. CASE ~Return("ln18_round_3", Everyone(Refused))
    <3> DEFINE alpha == [i \in Signers |-> Ln18Alpha(i)]
    <3>1. PICK masks \in [Pairs -> Ln18MaskRange] :
             Step("ln18_round_3", "ln18_round_4",
                  [alpha |-> alpha, masks |-> masks,
                   wrapped |-> Ln18Wraps(know.k, know.rho, know.masks),
                   beta |-> Ln18Shares("beta", know.rho, alpha, masks)])
      BY <1>2, <2>2 DEF Ln18StartBeta
    <3> DEFINE wrapped == Ln18Wraps(know.k, know.rho, know.masks)
               beta == Ln18Shares("beta", know.rho, alpha, masks)
    <3>3. stage = "ln18_round_3" /\ LawfulStep
      BY <3>1, StepLawful DEF Step
    <3>4. /\ know.k \in [Signers -> Scalars] /\ know.rho \in [Signers -> Scalars] /\ know.x \in Ints
          /\ know.R = Total(know.k, Signers) /\ know.tau \in Ints
          /\ know.k \in Ints /\ know.rho \in Ints
          /\ Total(know.x, Signers) = key /\ protocol = "ln18"
      BY <3>3, DrawnInts DEF Ln18Known, Has  <3>5. alpha \in Ints /\ Total(alpha, Signers) = Fl(XCoord(know.R) * key + digest)
      <4>1. XCoord(know.R) \in Int
        BY <3>4, IntsType, XCoordType, ScalarsType DEF Ints
      <4>2. alpha = [i \in Signers |-> Fl(know.x[i] * XCoord(know.R) + digest * Inv(Cardinality(Signers)))]
        BY DEF Ln18Alpha
      <4> HIDE DEF alpha
      <4> QED BY <3>4, <4>1, <4>2, Ln18AlphaTotal
    <3>6. masks \in PairInts
      BY DrawnInts DEF Ln18MaskRange, PairInts
    <3>7. beta \in Ints
      <4> HIDE DEF alpha
      <4> QED BY <3>4, <3>5, <3>6, Ln18SharesType
    <3>8. Step("ln18_round_3", "ln18_round_4", [alpha |-> alpha, masks |-> masks, wrapped |-> wrapped, beta |-> beta])
      BY <3>1
    <3> HIDE DEF wrapped, beta
    <3>9. alpha = [i \in Signers |-> Ln18Alpha(i)]
      OBVIOUS
    <3> HIDE DEF alpha
    <3>10. /\ know'.k = know.k /\ know'.rho = know.rho /\ know'.x = know.x /\ know'.R = know.R
           /\ know'.tau = know.tau /\ know'.alpha = alpha /\ know'.beta = beta
           /\ {"k", "rho", "x", "R", "tau", "alpha", "beta"} \subseteq DOMAIN know'
           /\ stage' = "ln18_round_4" /\ digest' = digest /\ key' = key
      BY <3>3, <3>8 DEF Step, With, Ln18Known, Has
    <3>11. [i \in Signers |-> Ln18Alpha(i)]' = alpha
      BY <1>s, <3>9, <3>10 DEF Ln18Alpha
    <3>12. Ln18Known' /\ stage' \in Ln18Stages
      BY <1>s, <3>4, <3>5, <3>7, <3>10, <3>11 DEF Ln18Known, Has, Ln18Stages
    <3> QED BY <3>3, <3>12 DEF Ln18Stages
  <2> QED BY <2>1, <2>2
<1>3. CASE Ln18CheckTau
  <2>1. CASE Return("ln18_round_4", Everyone(Refused))
    BY <2>1, RefusalLawful DEF Ln18Stages
  <2>2. CASE /\ Ln18CheckDh(Ln18Left(know.k, know.rho, know.tau))
             /\ Pass("ln18_round_4", "ln18_round_7")
    <3>1. stage = "ln18_round_4" /\ LawfulStep
      BY <2>2, StepLawful DEF Pass
    <3>2. /\ know.k \in [Signers -> Scalars] /\ know.k \in Ints /\ know.rho \in Ints /\ know.tau \in Ints
      BY <3>1, DrawnInts DEF Ln18Known, Has
    <3>3. Total(know.tau, Signers) = Fl(Total(know.k, Signers) * Total(know.rho, Signers))
      BY <2>2, <3>2, Ln18LeftZero
    <3>4. stage' = "ln18_round_7" /\ know' = know /\ digest' = digest /\ key' = key
      BY <2>2 DEF Pass
    <3>5. [i \in Signers |-> Ln18Alpha(i)]' = [i \in Signers |-> Ln18Alpha(i)]
      BY <1>s, <3>4 DEF Ln18Alpha
    <3>6. Ln18Known' /\ stage' \in Ln18Stages
      BY <1>s, <3>1, <3>3, <3>4, <3>5 DEF Ln18Known, Has, Ln18Stages
    <3> QED BY <3>1, <3>6 DEF Ln18Stages
  <2> QED BY <1>3, <2>1, <2>2 DEF Ln18CheckTau
<1>4. CASE Ln18CheckBeta
  <2>1. CASE Return("ln18_round_7", Everyone(Refused))
    BY <2>1, RefusalLawful DEF Ln18Stages
  <2>2. CASE /\ Ln18CheckDh(Ln18Left(know.rho, know.alpha, know.beta))
             /\ Pass("ln18_round_7", "ln18_round_8")
    <3>1. stage = "ln18_round_7" /\ LawfulStep
      BY <2>2, StepLawful DEF Pass
    <3>2. /\ know.k \in [Signers -> Scalars] /\ know.rho \in Ints /\ know.alpha \in Ints /\ know.beta \in Ints
      BY <3>1, DrawnInts DEF Ln18Known, Has
    <3>3. Total(know.beta, Signers) = Fl(Total(know.rho, Signers) * Total(know.alpha, Signers))
      BY <2>2, <3>2, Ln18LeftZero
    <3>4. stage' = "ln18_round_8" /\ know' = know /\ digest' = digest /\ key' = key
      BY <2>2 DEF Pass
    <3>5. [i \in Signers |-> Ln18Alpha(i)]' = [i \in Signers |-> Ln18Alpha(i)]
      BY <1>s, <3>4 DEF Ln18Alpha
    <3>6. Ln18Known' /\ stage' \in Ln18Stages
      BY <1>s, <3>1, <3>3, <3>4, <3>5 DEF Ln18Known, Has, Ln18Stages
    <3> QED BY <3>1, <3>6 DEF Ln18Stages
  <2> QED BY <1>4, <2>1, <2>2 DEF Ln18CheckBeta
<1>5. CASE Ln18Finish
  <2> DEFINE R == know.R
             rho == Total(know.rho, Signers)
             a == Total(know.alpha, Signers)
  <2>1. Return("ln18_round_8", Everyone(Ln18Answer(XCoord(R), know.tau, know.beta)))
    BY <1>5 DEF Ln18Finish
  <2>3. stage = "ln18_round_8"
    BY <2>1 DEF Return

  <2>4. /\ know.k \in [Signers -> Scalars] /\ know.rho \in [Signers -> Scalars] /\ know.x \in Ints
        /\ know.R = Total(know.k, Signers) /\ know.tau \in Ints /\ know.beta \in Ints
        /\ know.alpha = [i \in Signers |-> Ln18Alpha(i)]
        /\ Total(know.tau, Signers) = Fl(R * rho) /\ Total(know.beta, Signers) = Fl(rho * a)
        /\ know.k \in Ints /\ know.rho \in Ints
        /\ Total(know.x, Signers) = key /\ protocol = "ln18"
    BY <2>3, DrawnInts DEF Ln18Known, Has

  <2>5. a = Fl(XCoord(R) * key + digest)
    <3>1. XCoord(R) \in Int
      BY <2>4, IntsType, XCoordType, ScalarsType DEF Ints
    <3>2. know.alpha = [i \in Signers |-> Fl(know.x[i] * XCoord(R) + digest * Inv(Cardinality(Signers)))]
      BY <2>4 DEF Ln18Alpha
    <3> QED BY <2>4, <3>1, <3>2, Ln18AlphaTotal
  <2>6. R \in Field /\ rho \in Int /\ a \in Int /\ \A i \in Signers : know.tau[i] \in Int /\ know.beta[i] \in Int
    <3>1. R \in Field /\ rho \in Int /\ \A i \in Signers : know.tau[i] \in Int /\ know.beta[i] \in Int
      BY <2>4, IntsType DEF Ints
    <3>2. know.alpha \in Ints
      BY <2>3 DEF Ln18Known, Has
    <3> QED BY <3>1, <3>2, IntsType DEF Ints
  <2>7. R = Total(know.k, Signers) /\ protocol = "ln18"
    BY <2>4
  <2>8. Total(know.tau, Signers) = Fl(R * rho) /\ Total(know.beta, Signers) = Fl(rho * a)
    BY <2>4
  <2> HIDE DEF R, rho, a
  <2>9. Lawful(Everyone(Ln18Answer(XCoord(R), know.tau, know.beta)))
    BY <2>5, <2>6, <2>7, <2>8, Ln18AnswerLawful
  <2> QED BY <2>1, <2>9, ReturnLawful DEF Ln18Stages
<1>6. CASE Ln18LocalPresign
  <2>1. PICK masks \in [Pairs -> Ln18MaskRange] :
           LET tau == Ln18Multiply(know.k, know.rho, masks)
           IN IF XCoord(Total(know.k, Signers)) = 0 \/ Ln18Panics(know.k, know.rho, tau)
              THEN Return("ln18_offline", Everyone(Refused))
              ELSE Step("ln18_offline", "ln18_presigned", [R |-> Total(know.k, Signers), tau |-> tau])
    BY <1>6 DEF Ln18LocalPresign
  <2>2. CASE Return("ln18_offline", Everyone(Refused))
    BY <2>2, RefusalLawful DEF Ln18Stages
  <2>3. CASE ~Return("ln18_offline", Everyone(Refused))
    <3> DEFINE R == Total(know.k, Signers)
               tau == Ln18Multiply(know.k, know.rho, masks)
    <3>1. Step("ln18_offline", "ln18_presigned", [R |-> R, tau |-> tau])
      BY <2>1, <2>3
    <3>2. Ln18CheckDh(Ln18Left(know.k, know.rho, tau))
      BY <2>1, <2>3 DEF Ln18Panics
    <3>3. stage = "ln18_offline" /\ LawfulStep
      BY <3>1, StepLawful DEF Step
    <3>4. /\ know.k \in [Signers -> Scalars] /\ know.rho \in [Signers -> Scalars] /\ know.x \in Ints
          /\ know.k \in Ints /\ know.rho \in Ints
          /\ Total(know.x, Signers) = key /\ protocol = "ln18"
      BY <3>3, DrawnInts DEF Ln18Known, Has
    <3>5. masks \in PairInts
      BY DrawnInts DEF Ln18MaskRange, PairInts
    <3>6. tau \in Ints
      BY <3>4, <3>5, Ln18SharesType
    <3> HIDE DEF tau
    <3>7. Total(tau, Signers) = Fl(Total(know.k, Signers) * Total(know.rho, Signers))
      BY <3>2, <3>4, <3>6, Ln18LeftZero
    <3>8. R = Total(know.k, Signers)
      OBVIOUS
    <3> HIDE DEF R
    <3>9. Ln18Known' /\ stage' \in Ln18Stages
      BY <1>s, <3>1, <3>4, <3>6, <3>7, <3>8 DEF Step, With, Ln18Known, Has, Ln18Stages
    <3> QED BY <3>3, <3>9 DEF Ln18Stages
  <2> QED BY <2>2, <2>3
<1>7. CASE Ln18LocalOnline
  <2> DEFINE R == know.R
             rho == Total(know.rho, Signers)
             alpha == [i \in Signers |-> Ln18Alpha(i)]
             a == Total(alpha, Signers)
  <2>1. PICK masks \in [Pairs -> Ln18MaskRange] :
           LET beta == Ln18Multiply(know.rho, alpha, masks)
           IN Return("ln18_presigned", Everyone(
                 IF Ln18Panics(know.rho, alpha, beta) THEN Refused ELSE Ln18Answer(XCoord(know.R), know.tau, beta)))
    BY <1>7 DEF Ln18LocalOnline
  <2> DEFINE beta == Ln18Multiply(know.rho, alpha, masks)
  <2>2. CASE Ln18Panics(know.rho, alpha, beta)
    BY <2>1, <2>2, RefusalLawful DEF Ln18Stages
  <2>3. CASE ~Ln18Panics(know.rho, alpha, beta)
    <3>1. Return("ln18_presigned", Everyone(Ln18Answer(XCoord(R), know.tau, beta)))
      BY <2>1, <2>3
    <3>2. Ln18CheckDh(Ln18Left(know.rho, alpha, beta))
      BY <2>3 DEF Ln18Panics
    <3>3. stage = "ln18_presigned"
      BY <3>1 DEF Return
    <3>4. /\ know.k \in [Signers -> Scalars] /\ know.rho \in [Signers -> Scalars] /\ know.x \in Ints
          /\ know.R = Total(know.k, Signers) /\ know.tau \in Ints
          /\ Total(know.tau, Signers) = Fl(R * rho)
          /\ know.k \in Ints /\ know.rho \in Ints
          /\ Total(know.x, Signers) = key /\ protocol = "ln18"
      BY <3>3, DrawnInts DEF Ln18Known, Has
    <3>5. alpha \in Ints /\ a = Fl(XCoord(R) * key + digest)
      <4>1. XCoord(R) \in Int
        BY <3>4, IntsType, XCoordType, ScalarsType DEF Ints
      <4>2. alpha = [i \in Signers |-> Fl(know.x[i] * XCoord(R) + digest * Inv(Cardinality(Signers)))]
        BY DEF Ln18Alpha
      <4> HIDE DEF alpha
      <4> QED BY <3>4, <4>1, <4>2, Ln18AlphaTotal
    <3> HIDE DEF alpha
    <3>6. masks \in PairInts
      BY DrawnInts DEF Ln18MaskRange, PairInts
    <3>7. beta \in Ints
      BY <3>4, <3>5, <3>6, Ln18SharesType
    <3> HIDE DEF beta
    <3>8. Total(beta, Signers) = Fl(rho * a)
      BY <3>2, <3>4, <3>5, <3>7, Ln18LeftZero
    <3>9. R \in Field /\ rho \in Int /\ a \in Int /\ \A i \in Signers : know.tau[i] \in Int /\ beta[i] \in Int
      BY <3>4, <3>5, <3>7, IntsType DEF Ints
    <3>10. R = Total(know.k, Signers) /\ protocol = "ln18" /\ Total(know.tau, Signers) = Fl(R * rho)
      BY <3>4
    <3> HIDE DEF R, rho, a
    <3>11. Lawful(Everyone(Ln18Answer(XCoord(R), know.tau, beta)))
      BY <3>5, <3>8, <3>9, <3>10, Ln18AnswerLawful
    <3> QED BY <3>1, <3>11, ReturnLawful DEF Ln18Stages
  <2> QED BY <2>2, <2>3
<1> QED BY <1>1, <1>2, <1>3, <1>4, <1>5, <1>6, <1>7 DEF Ln18SignNext

LEMMA Ln18Staged ==
    ASSUME Ln18SignNext
    PROVE  stage \in Ln18Stages
  BY DEF Ln18SignNext, Ln18StartTau, Ln18StartBeta, Ln18CheckTau,
         Ln18CheckBeta, Ln18Finish, Ln18LocalPresign, Ln18LocalOnline,
         Ln18Stages, Step, Pass, Return

-----------------------------------------------------------------------------
(* WMC24.                                                                  *)

Wmc24Stages == {"wmc24_presign_1", "wmc24_presign_2", "wmc24_presign_3", "wmc24_sign"}

Wmc24Known ==
    /\ Has("k", Ints)
    /\ Has("share", Ints)
    /\ stage # "wmc24_presign_1" => /\ Has("gamma", Ints)
                                    /\ Has("xk", Ints)
                                    /\ Has("gk", Ints)
    /\ stage # "wmc24_presign_1" => Has("kBar", Int)
    /\ stage \in {"wmc24_presign_3", "wmc24_sign"} => /\ Has("xkBar", Field)
                                                      /\ Has("gkBar", Field)
                                                      /\ Has("Gamma", Field)
    /\ stage = "wmc24_sign" => Has("R", Field)

LEMMA Wmc24Begins ==
    ASSUME NEW f \in Sharings, Wmc24SignBegin(f)
    PROVE  Wmc24Known /\ stage \in Wmc24Stages
<1>1. [i \in Signers |-> Eval(f, i)] \in Ints
  BY BeginType DEF Ints
<1> QED BY <1>1, DrawnInts DEF Wmc24SignBegin, Wmc24Known, Wmc24Stages, Has

LEMMA Wmc24Step ==
    ASSUME Session, Wmc24Known, Wmc24SignNext
    PROVE  /\ stage \in Wmc24Stages /\ LawfulStep
           /\ stage' # "ended" => Wmc24Known' /\ stage' \in Wmc24Stages
<1>s. Signers' = Signers /\ Ints' = Ints /\ Pairs' = Pairs /\ PairInts' = PairInts
  <2>1. protocol' = protocol
    BY DEF Wmc24SignNext, Wmc24Scale, Wmc24Join, Wmc24Presign, Wmc24Finish, Step, Pass, Return, RefuseFaulty
  <2> QED BY <2>1, SameIndices
<1>1. CASE Wmc24Scale
  <2> DEFINE k == Total(know.k, Signers)
             xk == [i \in Signers |-> Fl(Fl(Lagrange(Signers, i) * know.share[i]) * k + Off(i, "xk"))]
  <2>1. PICK gamma \in [Signers -> Scalars] :
           Step("wmc24_presign_1", "wmc24_presign_2",
                [kBar |-> k, gamma |-> gamma, xk |-> xk,
                 gk |-> [i \in Signers |-> Fl(gamma[i] * k + Off(i, "gk"))]])
    BY <1>1 DEF Wmc24Scale
  <2> DEFINE gk == [i \in Signers |-> Fl(gamma[i] * k + Off(i, "gk"))]
  <2>2. stage = "wmc24_presign_1" /\ LawfulStep
    BY <2>1, StepLawful DEF Step
  <2>3. know.k \in Ints /\ know.share \in Ints
    BY <2>2 DEF Wmc24Known, Has
  <2>4. k \in Int /\ gamma \in Ints
    BY <2>3, IntsType, DrawnInts DEF Ints
  <2>5. xk \in Ints /\ gk \in Ints
    <3> HIDE DEF k
    <3> SUFFICES ASSUME NEW i \in Signers PROVE xk[i] \in Int /\ gk[i] \in Int
      BY DEF Ints
    <3>1. /\ Lagrange(Signers, i) \in Int /\ know.share[i] \in Int /\ gamma[i] \in Int
          /\ Off(i, "xk") \in Int /\ Off(i, "gk") \in Int
      BY <2>3, <2>4, LagrangeInt, OffType DEF Ints
    <3>2. Lagrange(Signers, i) * know.share[i] \in Int /\ gamma[i] * k \in Int
      BY <2>4, <3>1
    <3>3. Fl(Lagrange(Signers, i) * know.share[i]) * k \in Int
      BY <2>4, <3>2, FlInt
    <3> QED BY <3>1, <3>2, <3>3, FlInt
  <2> HIDE DEF k, xk
  <2>6. Step("wmc24_presign_1", "wmc24_presign_2", [kBar |-> k, gamma |-> gamma, xk |-> xk, gk |-> gk])
    BY <2>1
  <2> HIDE DEF gk
  <2>7. Wmc24Known' /\ stage' \in Wmc24Stages
    BY <1>s, <2>4, <2>5, <2>6 DEF Step, With, Wmc24Known, Has, Wmc24Stages
  <2> QED BY <2>2, <2>7 DEF Wmc24Stages
<1>2. CASE Wmc24Join
  <2>1. CASE RefuseFaulty("wmc24_presign_2", know.fault)
    BY <2>1, RefusalLawful DEF Wmc24Stages
  <2>2. CASE Step("wmc24_presign_2", "wmc24_presign_3",
                  [xkBar |-> Total(know.xk, Signers), gkBar |-> Total(know.gk, Signers),
                   Gamma |-> Total(know.gamma, Signers)])
    <3>1. stage = "wmc24_presign_2" /\ LawfulStep
      BY <2>2, StepLawful DEF Step
    <3>2. /\ know.k \in Ints /\ know.share \in Ints /\ know.gamma \in Ints
          /\ know.xk \in Ints /\ know.gk \in Ints /\ know.kBar \in Int
      BY <3>1 DEF Wmc24Known, Has
    <3>3. /\ Total(know.xk, Signers) \in Field /\ Total(know.gk, Signers) \in Field
          /\ Total(know.gamma, Signers) \in Field
      BY <3>2, IntsType DEF Ints
    <3>4. Wmc24Known' /\ stage' \in Wmc24Stages
      BY <2>2, <1>s, <3>3 DEF Step, With, Wmc24Known, Has, Wmc24Stages
    <3> QED BY <3>1, <3>4 DEF Wmc24Stages
  <2> QED BY <1>2, <2>1, <2>2 DEF Wmc24Join
<1>3. CASE Wmc24Presign
  <2>1. CASE RefuseFaulty("wmc24_presign_3", "share")
    BY <2>1, RefusalLawful DEF Wmc24Stages
  <2>2. CASE Return("wmc24_presign_3", Everyone(Refused))
    BY <2>2, RefusalLawful DEF Wmc24Stages
  <2>3. CASE /\ know.gkBar # 0
             /\ Step("wmc24_presign_3", "wmc24_sign", [R |-> Fl(know.Gamma * Inv(know.gkBar))])
    <3>1. stage = "wmc24_presign_3" /\ LawfulStep
      BY <2>3, StepLawful DEF Step
    <3>2. /\ know.k \in Ints /\ know.share \in Ints /\ know.gamma \in Ints
          /\ know.xk \in Ints /\ know.gk \in Ints /\ know.kBar \in Int
          /\ know.xkBar \in Field /\ know.gkBar \in Field
          /\ know.Gamma \in Field
      BY <3>1 DEF Wmc24Known, Has
    <3>3. Fl(know.Gamma * Inv(know.gkBar)) \in Field
      <4>1. know.Gamma \in Int /\ Inv(know.gkBar) \in Int
        BY <2>3, <3>2, InvInt, ScalarsType
      <4>2. know.Gamma * Inv(know.gkBar) \in Int
        BY <4>1
      <4> QED BY <4>2, FlInt
    <3>4. Wmc24Known' /\ stage' \in Wmc24Stages
      BY <2>3, <1>s, <3>3 DEF Step, With, Wmc24Known, Has, Wmc24Stages
    <3> QED BY <3>1, <3>4 DEF Wmc24Stages
  <2> QED BY <1>3, <2>1, <2>2, <2>3 DEF Wmc24Presign
<1>4. CASE Wmc24Finish
  <2>1. stage = "wmc24_sign"
    BY <1>4 DEF Wmc24Finish
  <2>2. know.kBar \in Int /\ know.xkBar \in Field /\ know.R \in Field
    BY <2>1 DEF Wmc24Known, Has
  <2>3. XCoord(know.R) \in Field /\ Wmc24CSig \in Field /\ Neg(Wmc24CSig) \in Field
    <3>1. /\ XCoord(know.R) \in Field /\ XCoord(know.R) \in Int
          /\ digest \in Int /\ know.xkBar \in Int
      BY <2>2, XCoordType, ScalarsType, Operands
    <3>2. digest * know.kBar + XCoord(know.R) * know.xkBar \in Int
      BY <2>2, <3>1
    <3>3. Wmc24CSig \in Field
      BY <3>2, FlInt DEF Wmc24CSig
    <3> QED BY <3>1, <3>3, NegType, ScalarsType
  <2>4. CASE RefuseFaulty("wmc24_sign", "s")
    BY <2>4, RefusalLawful DEF Wmc24Stages
  <2>5. CASE \E s \in {Wmc24CSig, Neg(Wmc24CSig)} : Return("wmc24_sign", Everyone(Checked(XCoord(know.R), s)))
    BY <2>3, <2>5, FinishLawful DEF Wmc24Stages
  <2> QED BY <1>4, <2>4, <2>5 DEF Wmc24Finish
<1> QED BY <1>1, <1>2, <1>3, <1>4 DEF Wmc24SignNext

LEMMA Wmc24Staged ==
    ASSUME Wmc24SignNext
    PROVE  stage \in Wmc24Stages
  BY DEF Wmc24SignNext, Wmc24Scale, Wmc24Join, Wmc24Presign, Wmc24Finish,
         Wmc24Stages, Step, Pass, Return, RefuseFaulty

-----------------------------------------------------------------------------
(* WMY23.                                                                  *)

Wmy23Stages == {"wmy23_presign_1", "wmy23_presign_3", "wmy23_presign_4", "wmy23_presign_5", "wmy23_sign"}

Wmy23Known ==
    /\ Has("kPoly", [Signers -> Polynomials(T)])
    /\ Has("gammaPoly", [Signers -> Polynomials(T)])
    /\ Has("x", Ints)
    /\ stage # "wmy23_presign_1" => /\ Has("k", Ints)
                                    /\ Has("gamma", Ints)
                                    /\ Has("Gamma", Ints)
    /\ stage \in {"wmy23_presign_4", "wmy23_presign_5", "wmy23_sign"} =>
           /\ Has("beta", PairInts)
           /\ Has("nu", PairInts)
    /\ stage \in {"wmy23_presign_5", "wmy23_sign"} => /\ Has("delta", Ints)
                                                      /\ Has("sigma", Ints)
                                                      /\ Has("D", Ints)
    /\ stage = "wmy23_sign" => Has("R", Field)

LEMMA Wmy23AdditiveType ==
    ASSUME NEW poly \in [Signers -> Polynomials(T)], NEW i \in Signers
    PROVE  Wmy23Additive(Wmy23Shared(poly))[i] \in Int
<1>1. Lagrange(Positions, Position(i)) \in Int /\ Wmy23Shared(poly)[i] \in Int
  BY PositionType, DealersType DEF Wmy23Shared
<1>2. Lagrange(Positions, Position(i)) * Wmy23Shared(poly)[i] \in Int
  BY <1>1
<1> QED BY <1>2, FlInt DEF Wmy23Additive

\* A share of a product that MtA leaves a signer with.
LEMMA Wmy23ShareType ==
    ASSUME know.k \in Ints, NEW b \in Ints, NEW mask \in PairInts, NEW i \in Signers
    PROVE  Wmy23ShareOf(i, b, mask) \in Int
<1> DEFINE g == [j \in Others(i) |-> Wmy23Alpha(i, j, b, mask) + mask[<<i, j>>]]
<1>1. ASSUME NEW j \in Others(i) PROVE g[j] \in Int
  <2>1. mask[<<j, i>>] \in Int /\ mask[<<i, j>>] \in Int /\ know.k[i] \in Int /\ b[j] \in Int
    BY OtherPairs DEF Ints, PairInts
  <2>2. know.k[i] * b[j] + Neg(mask[<<j, i>>]) \in Int
    <3>1. know.k[i] * b[j] \in Int
      BY <2>1
    <3> QED BY <2>1, <3>1, FlInt
  <2> QED BY <1>1, <2>1, <2>2, FlInt DEF Wmy23Alpha
<1>2. SumFunctionOnSet(g, Others(i)) \in Int
  BY <1>1, OthersSum
<1>3. know.k[i] * b[i] \in Int
  <2>1. know.k[i] \in Int /\ b[i] \in Int
    BY DEF Ints
  <2> QED BY <2>1
<1> HIDE DEF g
<1>4. Fl(know.k[i] * b[i] + SumFunctionOnSet(g, Others(i))) \in Int
  BY <1>2, <1>3, FlInt
<1> QED BY <1>4 DEF Wmy23ShareOf, g

LEMMA Wmy23Begins ==
    ASSUME NEW f \in Sharings, Wmy23SignBegin(f)
    PROVE  Wmy23Known /\ stage \in Wmy23Stages
<1>1. PICK k \in [Signers -> Scalars], gamma \in [Signers -> Scalars], slope \in Blinds,
           fault \in Faults({"share", "gamma", "alpha", "delta", "s"}) :
         LET Drawn(secret) == [i \in Signers |-> [d \in 0 .. T - 1 |-> IF d = 0 THEN secret[i] ELSE slope]]
         IN know = [kPoly |-> Drawn(k), gammaPoly |-> Drawn(gamma), fault |-> fault,
                    x |-> [i \in Signers |-> Fl(Lagrange(Signers, i) * Eval(f, i))]]
  BY DEF Wmy23SignBegin
<1> DEFINE kPoly == [i \in Signers |-> [d \in 0 .. T - 1 |-> IF d = 0 THEN k[i] ELSE slope]]
           gammaPoly == [i \in Signers |-> [d \in 0 .. T - 1 |-> IF d = 0 THEN gamma[i] ELSE slope]]
           x == [i \in Signers |-> Fl(Lagrange(Signers, i) * Eval(f, i))]
<1>2. kPoly \in [Signers -> Polynomials(T)] /\ gammaPoly \in [Signers -> Polynomials(T)]
  BY DrawnPolynomials
<1>3. x \in Ints
  BY BeginType DEF Ints
<1>4. know = [kPoly |-> kPoly, gammaPoly |-> gammaPoly, fault |-> fault, x |-> x]
  BY <1>1
<1> HIDE DEF kPoly, gammaPoly, x
<1> QED BY <1>2, <1>3, <1>4 DEF Wmy23SignBegin, Wmy23Known, Wmy23Stages, Has

LEMMA Wmy23Step ==
    ASSUME Session, Wmy23Known, Wmy23SignNext
    PROVE  /\ stage \in Wmy23Stages /\ LawfulStep
           /\ stage' # "ended" => Wmy23Known' /\ stage' \in Wmy23Stages
<1>s. Signers' = Signers /\ Ints' = Ints /\ Pairs' = Pairs /\ PairInts' = PairInts
  <2>1. protocol' = protocol
    BY DEF Wmy23SignNext, Wmy23Combine, Wmy23Answer, Wmy23Reveal, Wmy23Presign, Wmy23Finish, Step, Pass, Return, RefuseFaulty, RefuseVictim
  <2> QED BY <2>1, SameIndices
<1>1. CASE Wmy23Combine
  <2>1. CASE RefuseVictim("wmy23_presign_1", "share")
    BY <2>1, RefusalLawful DEF Wmy23Stages
  <2>2. CASE ~RefuseVictim("wmy23_presign_1", "share")
    <3> DEFINE k == Wmy23Additive(Wmy23Shared(know.kPoly))
               gamma == Wmy23Additive(Wmy23Shared(know.gammaPoly))
               Gamma == [i \in Signers |-> Fl(gamma[i] + Off(i, "gamma"))]
    <3>1. stage = "wmy23_presign_1" /\ LawfulStep
      BY <1>1, <2>2, StepLawful DEF Wmy23Combine, Step
    <3>2. /\ know.kPoly \in [Signers -> Polynomials(T)]
          /\ know.gammaPoly \in [Signers -> Polynomials(T)] /\ know.x \in Ints
      BY <3>1 DEF Wmy23Known, Has
    <3>3. k \in Ints /\ gamma \in Ints /\ Gamma \in Ints
      <4>1. ASSUME NEW i \in Signers PROVE k[i] \in Int /\ gamma[i] \in Int /\ Gamma[i] \in Int
        <5>1. k[i] \in Int /\ gamma[i] \in Int
          BY <3>2, Wmy23AdditiveType
        <5> HIDE DEF gamma
        <5> QED BY <5>1, OffType, FlInt
      <4> QED BY <4>1 DEF Ints, Wmy23Additive
    <3>4. Step("wmy23_presign_1", "wmy23_presign_3", [k |-> k, gamma |-> gamma, Gamma |-> Gamma])
      BY <1>1, <2>2 DEF Wmy23Combine
    <3> HIDE DEF k, gamma, Gamma
    <3>5. Wmy23Known' /\ stage' \in Wmy23Stages
      BY <1>s, <3>3, <3>4 DEF Step, With, Wmy23Known, Has, Wmy23Stages
    <3> QED BY <3>1, <3>5 DEF Wmy23Stages
  <2> QED BY <2>1, <2>2
<1>2. CASE Wmy23Answer
  <2>1. PICK beta \in [Pairs -> Scalars], mask \in Scalars :
          Step("wmy23_presign_3", "wmy23_presign_4", [beta |-> beta, nu |-> [p \in Pairs |-> mask]])
    BY <1>2 DEF Wmy23Answer
  <2> DEFINE nu == [p \in Pairs |-> mask]
  <2>2. stage = "wmy23_presign_3" /\ LawfulStep
    BY <2>1, StepLawful DEF Step
  <2>3. beta \in PairInts /\ nu \in PairInts
    BY DrawnInts DEF PairInts
  <2>4. Step("wmy23_presign_3", "wmy23_presign_4", [beta |-> beta, nu |-> nu])
    BY <2>1
  <2> HIDE DEF nu
  <2>5. Wmy23Known' /\ stage' \in Wmy23Stages
    BY <1>s, <2>3, <2>4 DEF Step, With, Wmy23Known, Has, Wmy23Stages
  <2> QED BY <2>2, <2>5 DEF Wmy23Stages
<1>3. CASE Wmy23Reveal
  <2>1. CASE RefuseFaulty("wmy23_presign_4", "gamma") \/ RefuseVictim("wmy23_presign_4", "alpha")
    BY <2>1, RefusalLawful DEF Wmy23Stages
  <2>2. CASE ~(RefuseFaulty("wmy23_presign_4", "gamma") \/ RefuseVictim("wmy23_presign_4", "alpha"))
    <3> DEFINE delta == [i \in Signers |-> Fl(Wmy23ShareOf(i, know.gamma, know.beta) + Off(i, "delta"))]
               sigma == [i \in Signers |-> Wmy23ShareOf(i, know.x, know.nu)]
               D == [i \in Signers |-> Fl(Total(know.gamma, Signers) * know.k[i])]
    <3>1. stage = "wmy23_presign_4" /\ LawfulStep
      BY <1>3, <2>2, StepLawful DEF Wmy23Reveal, Step
    <3>2. /\ know.kPoly \in [Signers -> Polynomials(T)]
          /\ know.gammaPoly \in [Signers -> Polynomials(T)] /\ know.x \in Ints
          /\ know.k \in Ints /\ know.gamma \in Ints /\ know.Gamma \in Ints
          /\ know.beta \in PairInts /\ know.nu \in PairInts
      BY <3>1 DEF Wmy23Known, Has
    <3>3. delta \in Ints /\ sigma \in Ints /\ D \in Ints
      <4> SUFFICES ASSUME NEW i \in Signers PROVE delta[i] \in Int /\ sigma[i] \in Int /\ D[i] \in Int
        BY DEF Ints
      <4>1. /\ Wmy23ShareOf(i, know.gamma, know.beta) \in Int
            /\ Wmy23ShareOf(i, know.x, know.nu) \in Int
            /\ Off(i, "delta") \in Int /\ know.k[i] \in Int
        BY <3>2, Wmy23ShareType, OffType DEF Ints
      <4>2. Total(know.gamma, Signers) \in Int
        BY <3>2, IntsType DEF Ints
      <4>3. Total(know.gamma, Signers) * know.k[i] \in Int
        BY <4>1, <4>2
      <4> QED BY <4>1, <4>3, FlInt
    <3>4. Step("wmy23_presign_4", "wmy23_presign_5", [delta |-> delta, sigma |-> sigma, D |-> D])
      BY <1>3, <2>2 DEF Wmy23Reveal
    <3> HIDE DEF delta, sigma, D
    <3>5. Wmy23Known' /\ stage' \in Wmy23Stages
      BY <1>s, <3>3, <3>4 DEF Step, With, Wmy23Known, Has, Wmy23Stages
    <3> QED BY <3>1, <3>5 DEF Wmy23Stages
  <2> QED BY <2>1, <2>2
<1>4. CASE Wmy23Presign
  <2>1. CASE RefuseFaulty("wmy23_presign_5", "delta") \/ Return("wmy23_presign_5", Everyone(Refused))
    BY <2>1, RefusalLawful DEF Wmy23Stages
  <2>2. CASE /\ Wmy23Delta # 0
             /\ Step("wmy23_presign_5", "wmy23_sign", [R |-> Fl(Total(know.Gamma, Signers) * Inv(Wmy23Delta))])
    <3>1. stage = "wmy23_presign_5" /\ LawfulStep
      BY <2>2, StepLawful DEF Step
    <3>2. /\ know.kPoly \in [Signers -> Polynomials(T)]
          /\ know.gammaPoly \in [Signers -> Polynomials(T)] /\ know.x \in Ints
          /\ know.k \in Ints /\ know.gamma \in Ints /\ know.Gamma \in Ints
          /\ know.beta \in PairInts /\ know.nu \in PairInts
          /\ know.delta \in Ints /\ know.sigma \in Ints /\ know.D \in Ints
      BY <3>1 DEF Wmy23Known, Has
    <3>3. Fl(Total(know.Gamma, Signers) * Inv(Wmy23Delta)) \in Field
      <4>1. Total(know.Gamma, Signers) \in Int /\ Wmy23Delta \in Field
        BY <3>2, IntsType DEF Ints, Wmy23Delta
      <4>2. Inv(Wmy23Delta) \in Int
        BY <2>2, <4>1, InvInt
      <4>3. Total(know.Gamma, Signers) * Inv(Wmy23Delta) \in Int
        BY <4>1, <4>2
      <4> QED BY <4>3, FlInt
    <3>4. Wmy23Known' /\ stage' \in Wmy23Stages
      BY <2>2, <1>s, <3>3 DEF Step, With, Wmy23Known, Has, Wmy23Stages
    <3> QED BY <3>1, <3>4 DEF Wmy23Stages
  <2> QED BY <1>4, <2>1, <2>2 DEF Wmy23Presign
<1>5. CASE Wmy23Finish
  <2>1. stage = "wmy23_sign"
    BY <1>5 DEF Wmy23Finish
  <2>2. know.k \in Ints /\ know.sigma \in Ints /\ know.R \in Field
    BY <2>1 DEF Wmy23Known, Has
  <2> DEFINE s == [i \in Signers |-> Wmy23SShare(i)]
  <2>3. XCoord(know.R) \in Field /\ XCoord(know.R) \in Int /\ digest \in Int
    BY <2>2, XCoordType, ScalarsType, Operands
  <2>4. ASSUME NEW i \in Signers PROVE s[i] \in Int
    <3>1. know.k[i] \in Int /\ know.sigma[i] \in Int /\ Off(i, "s") \in Int
      BY <2>2, OffType DEF Ints
    <3>2. digest * know.k[i] + XCoord(know.R) * know.sigma[i] \in Int
      BY <2>3, <3>1
    <3> QED BY <3>1, <3>2, FlInt DEF Wmy23SShare
  <2>5. Total(s, Signers) \in Field
    BY <2>4, IntsType
  <2>6. \/ RefuseFaulty("wmy23_sign", "s")
        \/ Return("wmy23_sign", Everyone(Checked(XCoord(know.R), Total(s, Signers))))
    BY <1>5 DEF Wmy23Finish
  <2> HIDE DEF s
  <2> QED BY <2>3, <2>5, <2>6, RefusalLawful, FinishLawful DEF Wmy23Stages
<1> QED BY <1>1, <1>2, <1>3, <1>4, <1>5 DEF Wmy23SignNext

LEMMA Wmy23Staged ==
    ASSUME Wmy23SignNext
    PROVE  stage \in Wmy23Stages
  BY DEF Wmy23SignNext, Wmy23Combine, Wmy23Answer, Wmy23Reveal, Wmy23Presign,
         Wmy23Finish, Wmy23Stages, Step, Pass, Return, RefuseFaulty,
         RefuseVictim

-----------------------------------------------------------------------------
(* TX25.                                                                   *)

Tx25Stages == {"tx25_presign_1", "tx25_presign_2", "tx25_sign_1", "tx25_sign_2", "tx25_sign_3"}

Tx25Known ==
    /\ Has("kPoly", [Signers -> Polynomials(T)])
    /\ Has("gamma", Ints)
    /\ Has("x", Ints)
    /\ stage # "tx25_presign_1" => Has("k", Ints)
    /\ stage # "tx25_presign_1" => /\ Has("beta", PairInts)
                                   /\ Has("nu", PairInts)
    /\ stage \in {"tx25_sign_1", "tx25_sign_2", "tx25_sign_3"} =>
           Has("delta", [Signers -> Ints])
    /\ stage \in {"tx25_sign_1", "tx25_sign_2", "tx25_sign_3"} =>
           Has("zeta", [Signers -> Ints])
    /\ stage \in {"tx25_sign_1", "tx25_sign_2", "tx25_sign_3"} =>
           Has("R", Field)
    /\ stage \in {"tx25_sign_2", "tx25_sign_3"} => Has("chi", [Signers -> Ints])
    /\ stage = "tx25_sign_3" => /\ Has("all", Field)
                                /\ Has("rest", Field)

\* What masks the products is a sharing of zero.
LEMMA Tx25ZeroPolynomial ==
    ASSUME NEW slope \in Blinds
    PROVE  LET zero == [d \in 0 .. T - 1 |-> IF d = 0 THEN 0 ELSE slope]
           IN  /\ zero \in Polynomials(T) /\ zero[0] = 0
               /\ \A x \in Int : Tx25ZeroAt(slope, x) = Eval(zero, x) /\ Tx25ZeroAt(slope, x) \in Int
<1> DEFINE zero == [d \in 0 .. T - 1 |-> IF d = 0 THEN 0 ELSE slope]
<1>1. slope \in Field /\ 0 \in Field /\ T \in Nat /\ 0 \in 0 .. T - 1
  BY ScalarsType, SigningAssumption, QAssumption DEF Field
<1>2. zero \in Polynomials(T) /\ zero[0] = 0
  BY <1>1 DEF Polynomials
<1>3. \A x \in Int : Tx25ZeroAt(slope, x) = Eval(zero, x)
  BY DEF Tx25ZeroAt
<1> HIDE DEF zero
<1>4. \A x \in Int : Eval(zero, x) \in Int
  BY <1>1, <1>2, EvalType, ScalarsType
<1> QED BY <1>2, <1>3, <1>4 DEF zero

LEMMA Tx25ProductsType ==
    ASSUME know.gamma \in Ints, NEW b \in Ints, NEW mask \in PairInts
    PROVE  Tx25Products(b, mask) \in [Signers -> Ints]
<1> SUFFICES ASSUME NEW i \in Signers, NEW j \in Signers
             PROVE  (IF i = j THEN Fl(know.gamma[i] * b[i])
                     ELSE Fl(know.gamma[i] * b[j] + Neg(mask[<<j, i>>]) + mask[<<i, j>>])) \in Int
  BY DEF Tx25Products, Ints
<1>1. know.gamma[i] \in Int /\ b[i] \in Int /\ b[j] \in Int
  BY DEF Ints
<1>2. know.gamma[i] * b[i] \in Int /\ know.gamma[i] * b[j] \in Int
  BY <1>1
<1>3. CASE i = j
  BY <1>2, <1>3, FlInt
<1>4. CASE i # j
  <2>1. <<i, j>> \in Pairs /\ <<j, i>> \in Pairs
    BY <1>4 DEF Pairs
  <2>2. mask[<<i, j>>] \in Int /\ mask[<<j, i>>] \in Int
    BY <2>1 DEF PairInts
  <2>3. Neg(mask[<<j, i>>]) \in Int
    BY <2>2, FlInt
  <2> QED BY <1>2, <1>4, <2>2, <2>3, FlInt
<1> QED BY <1>3, <1>4

LEMMA Tx25AssembledType ==
    ASSUME know.delta \in [Signers -> Ints], know.chi \in [Signers -> Ints], NEW S \in SUBSET Signers
    PROVE  Tx25Assembled(S) \in Field
<1>1. ASSUME NEW table \in [Signers -> Ints]
      PROVE  Tx25Bilinear(table, S) \in Field
  <2>1. \A i \in S : Reconstruct(table[i], S) \in Int
    BY ReconstructInt DEF Ints
  <2> DEFINE g == [i \in S |-> Reconstruct(table[i], S)]
  <2>2. \A i \in S : g[i] \in Int
    BY <2>1
  <2> HIDE DEF g
  <2>3. Reconstruct(g, S) \in Field
    BY <2>2, ReconstructInt
  <2> QED BY <2>3 DEF Tx25Bilinear, g
<1>2. CASE Tx25Denominator(S) = 0
  BY <1>2, QAssumption DEF Tx25Assembled, Field
<1>3. CASE Tx25Denominator(S) # 0
  <2>1. Tx25Numerator(S) \in Int /\ Inv(Tx25Denominator(S)) \in Int
    BY <1>1, <1>3, InvInt, ScalarsType DEF Tx25Numerator, Tx25Denominator
  <2>2. Tx25Numerator(S) * Inv(Tx25Denominator(S)) \in Int
    BY <2>1
  <2> QED BY <1>3, <2>2, FlInt DEF Tx25Assembled
<1> QED BY <1>2, <1>3

LEMMA Tx25Begins ==
    ASSUME NEW f \in Sharings, Tx25SignBegin(f)
    PROVE  Tx25Known /\ stage \in Tx25Stages
<1>1. PICK k \in [Signers -> Scalars], gamma \in [Signers -> Blinds], slope \in Blinds,
           fault \in Faults({"sharing", "nonce", "mta", "delta", "chi", "nonce_and_chi"}) :
         know = [kPoly |-> [i \in Signers |-> [d \in 0 .. T - 1 |-> IF d = 0 THEN k[i] ELSE slope]],
                 gamma |-> gamma, fault |-> fault, x |-> [i \in Signers |-> Eval(f, i)]]
  BY DEF Tx25SignBegin
<1> DEFINE kPoly == [i \in Signers |-> [d \in 0 .. T - 1 |-> IF d = 0 THEN k[i] ELSE slope]]
           x == [i \in Signers |-> Eval(f, i)]
<1>2. kPoly \in [Signers -> Polynomials(T)] /\ gamma \in Ints
  BY DrawnPolynomials, DrawnInts
<1>3. x \in Ints
  BY BeginType DEF Ints
<1>4. know = [kPoly |-> kPoly, gamma |-> gamma, fault |-> fault, x |-> x]
  BY <1>1
<1> HIDE DEF kPoly, x
<1> QED BY <1>2, <1>3, <1>4 DEF Tx25SignBegin, Tx25Known, Tx25Stages, Has

LEMMA Tx25Step ==
    ASSUME Session, Tx25Known, Tx25SignNext
    PROVE  /\ stage \in Tx25Stages /\ LawfulStep
           /\ stage' # "ended" => Tx25Known' /\ stage' \in Tx25Stages
<1>s. Signers' = Signers /\ Ints' = Ints /\ Pairs' = Pairs /\ PairInts' = PairInts
  <2>1. protocol' = protocol
    BY DEF Tx25SignNext, Tx25Combine, Tx25Presign, Tx25Broadcast, Tx25Assemble, Tx25Finish, Step, Pass, Return, RefuseFaulty
  <2> QED BY <2>1, SameIndices
<1>1. CASE Tx25Combine
  <2>1. CASE RefuseFaulty("tx25_presign_1", "sharing")
    BY <2>1, RefusalLawful DEF Tx25Stages
  <2>2. CASE ~RefuseFaulty("tx25_presign_1", "sharing")
    <3> DEFINE k == [i \in Signers |-> Fl(SharesDealt(know.kPoly, i) + Off(i, "nonce") + Off(i, "nonce_and_chi"))]
    <3>1. PICK beta \in Scalars, nu \in Blinds :
            Step("tx25_presign_1", "tx25_presign_2",
                 [k |-> k, beta |-> [p \in Pairs |-> beta], nu |-> [p \in Pairs |-> nu]])
      BY <1>1, <2>2 DEF Tx25Combine
    <3> DEFINE betas == [p \in Pairs |-> beta]
               nus == [p \in Pairs |-> nu]
    <3>2. stage = "tx25_presign_1" /\ LawfulStep
      BY <3>1, StepLawful DEF Step
    <3>3. know.kPoly \in [Signers -> Polynomials(T)]
      BY <3>2 DEF Tx25Known, Has
    <3>4. k \in Ints
      <4> SUFFICES ASSUME NEW i \in Signers PROVE k[i] \in Int
        BY DEF Ints
      <4>1. SharesDealt(know.kPoly, i) \in Int /\ Off(i, "nonce") \in Int /\ Off(i, "nonce_and_chi") \in Int
        BY <3>3, SharesDealtType, OffType
      <4> QED BY <4>1, FlInt
    <3>5. betas \in PairInts /\ nus \in PairInts
      BY DrawnInts DEF PairInts
    <3>6. Step("tx25_presign_1", "tx25_presign_2", [k |-> k, beta |-> betas, nu |-> nus])
      BY <3>1
    <3> HIDE DEF k, betas, nus
    <3>7. Tx25Known' /\ stage' \in Tx25Stages
      BY <1>s, <3>4, <3>5, <3>6 DEF Step, With, Tx25Known, Has, Tx25Stages
    <3> QED BY <3>2, <3>7 DEF Tx25Stages
  <2> QED BY <2>1, <2>2
<1>2. CASE Tx25Presign
  <2>1. CASE RefuseFaulty("tx25_presign_2", "mta")
    BY <2>1, RefusalLawful DEF Tx25Stages
  <2>2. CASE ~RefuseFaulty("tx25_presign_2", "mta")
    <3> DEFINE delta == Tx25Products(know.k, know.beta)
               zeta == Tx25Products(know.x, know.nu)
               R == Reconstruct(know.k, Signers)
    <3>1. stage = "tx25_presign_2" /\ LawfulStep
      BY <1>2, <2>2, StepLawful DEF Tx25Presign, Step
    <3>2. /\ know.kPoly \in [Signers -> Polynomials(T)] /\ know.gamma \in Ints
          /\ know.x \in Ints /\ know.k \in Ints /\ know.beta \in PairInts
          /\ know.nu \in PairInts
      BY <3>1 DEF Tx25Known, Has
    <3>3. delta \in [Signers -> Ints] /\ zeta \in [Signers -> Ints] /\ R \in Field
      BY <3>2, Tx25ProductsType, ReconstructInt DEF Ints
    <3>4. Step("tx25_presign_2", "tx25_sign_1", [delta |-> delta, zeta |-> zeta, R |-> R])
      BY <1>2, <2>2 DEF Tx25Presign
    <3> HIDE DEF delta, zeta, R
    <3>5. Tx25Known' /\ stage' \in Tx25Stages
      BY <1>s, <3>3, <3>4 DEF Step, With, Tx25Known, Has, Tx25Stages
    <3> QED BY <3>1, <3>5 DEF Tx25Stages
  <2> QED BY <2>1, <2>2
<1>3. CASE Tx25Broadcast
  <2>1. PICK slope \in Blinds :
      Step("tx25_sign_1", "tx25_sign_2",
           [delta |-> [i \in Signers |-> [j \in Signers |->
                Fl(know.delta[i][j] + Tx25ZeroAt(slope, j) + IF j = Victim(i) THEN Off(i, "delta") ELSE 0)]],
            chi |-> [i \in Signers |-> [j \in Signers |->
                Fl(digest * know.gamma[i] + XCoord(know.R) * know.zeta[i][j] + Tx25ZeroAt(slope, j)
                   + IF j = Victim(i) THEN Off(i, "chi") + Off(i, "nonce_and_chi") ELSE 0)]]])
    BY <1>3 DEF Tx25Broadcast
  <2> DEFINE deltas(i) == [j \in Signers |->
                Fl(know.delta[i][j] + Tx25ZeroAt(slope, j) + IF j = Victim(i) THEN Off(i, "delta") ELSE 0)]
             chis(i) == [j \in Signers |->
                Fl(digest * know.gamma[i] + XCoord(know.R) * know.zeta[i][j] + Tx25ZeroAt(slope, j)
                   + IF j = Victim(i) THEN Off(i, "chi") + Off(i, "nonce_and_chi") ELSE 0)]
             delta == [i \in Signers |-> deltas(i)]
             chi == [i \in Signers |-> chis(i)]
  <2>2. stage = "tx25_sign_1" /\ LawfulStep
    BY <2>1, StepLawful DEF Step
  <2>3. /\ know.delta \in [Signers -> Ints] /\ know.zeta \in [Signers -> Ints]
        /\ know.gamma \in Ints /\ know.R \in Field
    BY <2>2 DEF Tx25Known, Has
  <2>4. ASSUME NEW i \in Signers, NEW j \in Signers
        PROVE  deltas(i)[j] \in Int /\ chis(i)[j] \in Int
    <3>1. /\ know.delta[i][j] \in Int /\ know.zeta[i][j] \in Int /\ know.gamma[i] \in Int
          /\ digest \in Int /\ XCoord(know.R) \in Int /\ slope \in Int /\ j \in Int
          /\ Off(i, "delta") \in Int /\ Off(i, "chi") \in Int /\ Off(i, "nonce_and_chi") \in Int
      BY <2>3, XCoordType, ScalarsType, Operands, DrawnInts, LagrangeInt, OffType DEF Ints
    <3>2. slope * j \in Int /\ digest * know.gamma[i] \in Int /\ XCoord(know.R) * know.zeta[i][j] \in Int
      BY <3>1
    <3>3. Tx25ZeroAt(slope, j) \in Int
      BY Tx25ZeroPolynomial, LagrangeInt
    <3>4. /\ know.delta[i][j] + Tx25ZeroAt(slope, j) + (IF j = Victim(i) THEN Off(i, "delta") ELSE 0) \in Int
          /\ digest * know.gamma[i] + XCoord(know.R) * know.zeta[i][j] + Tx25ZeroAt(slope, j)
               + (IF j = Victim(i) THEN Off(i, "chi") + Off(i, "nonce_and_chi") ELSE 0) \in Int
      BY <3>1, <3>2, <3>3
    <3> QED BY <3>4, FlInt
  <2>5. delta \in [Signers -> Ints] /\ chi \in [Signers -> Ints]
    BY <2>4 DEF Ints
  <2>6. Step("tx25_sign_1", "tx25_sign_2", [delta |-> delta, chi |-> chi])
    BY <2>1
  <2> HIDE DEF delta, chi
  <2>7. Tx25Known' /\ stage' \in Tx25Stages
    BY <1>s, <2>5, <2>6 DEF Step, With, Tx25Known, Has, Tx25Stages
  <2> QED BY <2>2, <2>7 DEF Tx25Stages
<1>4. CASE Tx25Assemble
  <2> DEFINE all == Tx25Assembled(Signers)
             rest == LET honest == Signers \ Tx25Cheaters IN IF honest # Signers /\ Cardinality(honest) >= T THEN Tx25Assembled(honest) ELSE 0
  <2>1. stage = "tx25_sign_2" /\ LawfulStep
    BY <1>4, StepLawful DEF Tx25Assemble, Step
  <2>2. /\ know.kPoly \in [Signers -> Polynomials(T)] /\ know.gamma \in Ints
        /\ know.x \in Ints /\ know.k \in Ints /\ know.beta \in PairInts
        /\ know.nu \in PairInts /\ know.delta \in [Signers -> Ints]
        /\ know.zeta \in [Signers -> Ints] /\ know.R \in Field
        /\ know.chi \in [Signers -> Ints]
    BY <2>1 DEF Tx25Known, Has
  <2>3. all \in Field /\ rest \in Field
    <3>1. Signers \in SUBSET Signers /\ Signers \ Tx25Cheaters \in SUBSET Signers /\ 0 \in Field
      BY QAssumption DEF Field
    <3> QED BY <2>2, <3>1, Tx25AssembledType
  <2>4. Step("tx25_sign_2", "tx25_sign_3", [all |-> all, rest |-> rest])
    BY <1>4 DEF Tx25Assemble
  <2> HIDE DEF all, rest
  <2>5. Tx25Known' /\ stage' \in Tx25Stages
    BY <1>s, <2>3, <2>4 DEF Step, With, Tx25Known, Has, Tx25Stages
  <2> QED BY <2>1, <2>5 DEF Tx25Stages
<1>5. CASE Tx25Finish
  <2>1. stage = "tx25_sign_3"
    BY <1>5 DEF Tx25Finish, Return
  <2>2. XCoord(know.R) \in Field /\ know.all \in Field /\ know.rest \in Field
    BY <2>1, XCoordType DEF Tx25Known, Has
  <2>3. PICK outcome : /\ Return("tx25_sign_3", Everyone(outcome))
                       /\ \/ outcome = Refused
                          \/ \E s \in {know.all, know.rest} : outcome = Checked(XCoord(know.R), s)
    BY <1>5 DEF Tx25Finish
  <2> QED BY <2>2, <2>3, FinishLawful DEF Tx25Stages
<1> QED BY <1>1, <1>2, <1>3, <1>4, <1>5 DEF Tx25SignNext

LEMMA Tx25Staged ==
    ASSUME Tx25SignNext
    PROVE  stage \in Tx25Stages
  BY DEF Tx25SignNext, Tx25Combine, Tx25Presign, Tx25Broadcast, Tx25Assemble,
         Tx25Finish, Tx25Stages, Step, Pass, Return, RefuseFaulty

-----------------------------------------------------------------------------
(* JTX25, in both variants.                                                *)

Jtx25Stages == {"jtx25_presign_1", "jtx25_presign_2", "jtx25_sign"}

Jtx25Known ==
    /\ Has("drawn", [Signers -> Polynomials(T)])
    /\ Has("phi", Int)
    /\ Has("x", Ints)
    /\ stage # "jtx25_presign_1" => /\ Has("k", Ints)
                                    /\ Has("phiK", Ints)
                                    /\ Has("phiX", Ints)
    /\ stage = "jtx25_sign" => Has("R", Field)

LEMMA Jtx25PartsType ==
    ASSUME Session, Jtx25Known, stage \in Jtx25Stages, NEW i \in Signers
    PROVE  Jtx25Weighted(i) \in Int /\ Jtx25Weight(i) \in Int
<1>1. know.phi \in Int /\ know.x[i] \in Int /\ Lagrange(Signers, i) \in Int
  BY LagrangeInt DEF Jtx25Known, Jtx25Stages, Has, Ints
<1>2. Fl(Lagrange(Signers, i) * know.x[i]) \in Int
  <2>1. Lagrange(Signers, i) * know.x[i] \in Int
    BY <1>1
  <2> QED BY <2>1, FlInt
<1>3. know.phi * Fl(Lagrange(Signers, i) * know.x[i]) \in Int
  BY <1>1, <1>2
<1> QED BY <1>1, <1>3, FlInt DEF Jtx25Weighted, Jtx25Weight

\* What is opened online, as far as there are signers left.
LEMMA Jtx25Opened ==
    ASSUME Session, Jtx25Known, stage = "jtx25_sign"
    PROVE  Jtx25C0 \in Field /\ Jtx25C1 \in Int /\ XCoord(know.R) \in Field
<1>1. know.phiK \in Ints /\ know.phiX \in Ints /\ know.phi \in Int /\ know.R \in Field
  BY DEF Jtx25Known, Has
<1>2. Jtx25Online \in SUBSET Signers /\ IsFiniteSet(Jtx25Online)
  BY SignersType, FS_Subset DEF Jtx25Online
<1> DEFINE g == [i \in Jtx25Online |-> Jtx25Weight(i) * know.phiK[i]]
<1>3. ASSUME NEW i \in Jtx25Online PROVE g[i] \in Int
  <2>1. Jtx25Weight(i) \in Int /\ know.phiK[i] \in Int
    BY <1>1, <1>2, Jtx25PartsType DEF Ints, Jtx25Stages
  <2> QED BY <2>1
<1> HIDE DEF g
<1>4. SumFunctionOnSet(g, Jtx25Online) \in Int
  BY <1>2, <1>3, SumType
<1>5. Total(know.phiX, Jtx25Online) \in Int
  BY <1>1, <1>2, TotalType, ScalarsType DEF Ints
<1>6. XCoord(know.R) \in Field /\ XCoord(know.R) \in Int /\ digest \in Int
  BY <1>1, XCoordType, ScalarsType, Operands
<1>7. digest * know.phi + XCoord(know.R) * Total(know.phiX, Jtx25Online) \in Int
  BY <1>1, <1>5, <1>6
<1> QED BY <1>4, <1>6, <1>7, FlInt DEF Jtx25C0, Jtx25C1, g

LEMMA Jtx25Begins ==
    ASSUME NEW f \in Sharings, Jtx25SignBegin(f)
    PROVE  Jtx25Known /\ stage \in Jtx25Stages
<1>1. PICK k \in [Signers -> Scalars], b \in [Signers -> Blinds], slope \in Blinds,
           fault \in Faults(IF Jtx25SharedNonce THEN {"share", "nonce", "weighted", "opened", "gone"}
                            ELSE {"decommitted", "weighted", "opened", "index"}) :
         know = [drawn |-> [i \in Signers |-> [d \in 0 .. T - 1 |-> IF d = 0 THEN k[i] ELSE slope]],
                 phi |-> Total(b, Signers), fault |-> fault, x |-> [i \in Signers |-> Eval(f, i)]]
  BY DEF Jtx25SignBegin
<1> DEFINE drawn == [i \in Signers |-> [d \in 0 .. T - 1 |-> IF d = 0 THEN k[i] ELSE slope]]
           x == [i \in Signers |-> Eval(f, i)]
           phi == Total(b, Signers)
<1>2. drawn \in [Signers -> Polynomials(T)]
  BY DrawnPolynomials
<1>3. x \in Ints
  BY BeginType DEF Ints
<1>4. phi \in Int
  BY DrawnInts, IntsType DEF Ints
<1>5. know = [drawn |-> drawn, phi |-> phi, fault |-> fault, x |-> x]
  BY <1>1
<1> HIDE DEF drawn, x, phi
<1> QED BY <1>2, <1>3, <1>4, <1>5 DEF Jtx25SignBegin, Jtx25Known, Jtx25Stages, Has

LEMMA Jtx25Step ==
    ASSUME Session, Jtx25Known, Jtx25SignNext
    PROVE  /\ stage \in Jtx25Stages /\ LawfulStep
           /\ stage' # "ended" => Jtx25Known' /\ stage' \in Jtx25Stages
<1>s. Signers' = Signers /\ Ints' = Ints /\ Pairs' = Pairs /\ PairInts' = PairInts
  <2>1. protocol' = protocol
    BY DEF Jtx25SignNext, Jtx25Scale, Jtx25Presign, Jtx25Finish, Step, Pass, Return, RefuseFaulty, RefuseVictim
  <2> QED BY <2>1, SameIndices
<1>1. CASE Jtx25Scale
  <2>1. CASE RefuseVictim("jtx25_presign_1", "share")
    BY <2>1, RefusalLawful DEF Jtx25Stages
  <2>2. CASE ~RefuseVictim("jtx25_presign_1", "share")
    <3> DEFINE k == [i \in Signers |-> IF Jtx25SharedNonce THEN Jtx25Combined(i) ELSE know.drawn[i][0]]
               phiK == [i \in Signers |-> Fl(know.phi * k[i])]
               phiX == [i \in Signers |-> Fl(Jtx25Weighted(i) + Off(i, "weighted"))]
    <3>1. stage = "jtx25_presign_1" /\ LawfulStep
      BY <1>1, <2>2, StepLawful DEF Jtx25Scale, Step
    <3>2. /\ know.drawn \in [Signers -> Polynomials(T)] /\ know.phi \in Int
          /\ know.x \in Ints
      BY <3>1 DEF Jtx25Known, Has
    <3>3. k \in Ints /\ phiK \in Ints /\ phiX \in Ints
      <4> SUFFICES ASSUME NEW i \in Signers PROVE k[i] \in Int /\ phiK[i] \in Int /\ phiX[i] \in Int
        BY DEF Ints
      <4>1. Jtx25Weighted(i) \in Int /\ Off(i, "weighted") \in Int
        BY <3>1, Jtx25PartsType, OffType DEF Jtx25Stages
      <4>2. k[i] \in Int
        <5>1. Jtx25Combined(i) \in Int
          BY <3>2, PositionType, DealersType, OffType, FlInt DEF Jtx25Combined
        <5>2. know.drawn[i][0] \in Int
          <6>1. know.drawn[i] \in Polynomials(T) /\ 0 \in 0 .. T - 1
            BY <3>2, SigningAssumption
          <6> QED BY <6>1, ScalarsType DEF Polynomials
        <5> QED BY <5>1, <5>2
      <4> HIDE DEF k
      <4>3. know.phi * k[i] \in Int
        BY <3>2, <4>2
      <4> QED BY <4>1, <4>2, <4>3, FlInt
    <3>4. Step("jtx25_presign_1", "jtx25_presign_2", [k |-> k, phiK |-> phiK, phiX |-> phiX])
      BY <1>1, <2>2 DEF Jtx25Scale
    <3> HIDE DEF k, phiK, phiX
    <3>5. Jtx25Known' /\ stage' \in Jtx25Stages
      BY <1>s, <3>3, <3>4 DEF Step, With, Jtx25Known, Has, Jtx25Stages
    <3> QED BY <3>1, <3>5 DEF Jtx25Stages
  <2> QED BY <2>1, <2>2
<1>2. CASE Jtx25Presign
  <2>1. CASE RefuseFaulty("jtx25_presign_2", "decommitted") \/ RefuseFaulty("jtx25_presign_2", "weighted")
    BY <2>1, RefusalLawful DEF Jtx25Stages
  <2>2. CASE ~(RefuseFaulty("jtx25_presign_2", "decommitted") \/ RefuseFaulty("jtx25_presign_2", "weighted"))
    <3> DEFINE R == Fl(SumFunctionOnSet([i \in Signers |-> Jtx25Weight(i) * know.k[i]], Signers))
    <3>1. stage = "jtx25_presign_2" /\ LawfulStep
      BY <1>2, <2>2, StepLawful DEF Jtx25Presign, Step
    <3>2. /\ know.drawn \in [Signers -> Polynomials(T)] /\ know.phi \in Int
          /\ know.x \in Ints /\ know.k \in Ints /\ know.phiK \in Ints
          /\ know.phiX \in Ints
      BY <3>1 DEF Jtx25Known, Has
    <3>3. R \in Field
      <4> DEFINE g == [i \in Signers |-> Jtx25Weight(i) * know.k[i]]
      <4>1. ASSUME NEW i \in Signers PROVE g[i] \in Int
        <5>1. Jtx25Weight(i) \in Int /\ know.k[i] \in Int
          BY <3>1, <3>2, Jtx25PartsType DEF Ints, Jtx25Stages
        <5> QED BY <5>1
      <4> HIDE DEF g
      <4>2. SumFunctionOnSet(g, Signers) \in Int
        BY <4>1, IntsType
      <4> QED BY <4>2, FlInt DEF g
    <3>4. Step("jtx25_presign_2", "jtx25_sign", [R |-> R])
      BY <1>2, <2>2 DEF Jtx25Presign
    <3> HIDE DEF R
    <3>5. Jtx25Known' /\ stage' \in Jtx25Stages
      BY <1>s, <3>3, <3>4 DEF Step, With, Jtx25Known, Has, Jtx25Stages
    <3> QED BY <3>1, <3>5 DEF Jtx25Stages
  <2> QED BY <2>1, <2>2
<1>3. CASE Jtx25Finish
  <2>1. stage = "jtx25_sign"
    BY <1>3 DEF Jtx25Finish
  <2>2. CASE RefuseFaulty("jtx25_sign", know.fault)
    BY <2>2, RefusalLawful DEF Jtx25Stages
  <2>3. CASE ~RefuseFaulty("jtx25_sign", know.fault)
    <3> DEFINE s == IF Jtx25C0 = 0 THEN 0 ELSE Fl(Jtx25C1 * Inv(Jtx25C0))
               outcome == IF s = 0 THEN Refused ELSE Checked(XCoord(know.R), s)
               answers == [i \in DOMAIN answer |-> IF i \in Jtx25Online THEN outcome ELSE Waiting]
    <3>1. Return("jtx25_sign", answers)
      BY <1>3, <2>3 DEF Jtx25Finish
    <3>2. s \in Field
      <4>1. CASE Jtx25C0 = 0
        BY <4>1, QAssumption DEF Field
      <4>2. CASE Jtx25C0 # 0
        <5>1. Inv(Jtx25C0) \in Int /\ Jtx25C1 \in Int
          BY <2>1, <4>2, Jtx25Opened, InvInt
        <5>2. Jtx25C1 * Inv(Jtx25C0) \in Int
          BY <5>1
        <5> QED BY <4>2, <5>2, FlInt
      <4> QED BY <4>1, <4>2
    <3> HIDE DEF s
    <3>3. outcome = Refused \/ Right(outcome)
      BY <2>1, <3>2, Jtx25Opened, CheckedLawful
    <3> HIDE DEF outcome
    <3>4. DOMAIN answers = Signers /\ \A i \in Signers : answers[i] \in {Waiting, outcome}
      BY DEF Session
    <3> HIDE DEF answers
    <3>5. Lawful(answers)
      BY <3>3, <3>4 DEF Lawful
    <3> QED BY <3>1, <3>5, ReturnLawful DEF Jtx25Stages
  <2> QED BY <2>2, <2>3
<1> QED BY <1>1, <1>2, <1>3 DEF Jtx25SignNext

LEMMA Jtx25Staged ==
    ASSUME Jtx25SignNext
    PROVE  stage \in Jtx25Stages
  BY DEF Jtx25SignNext, Jtx25Scale, Jtx25Presign, Jtx25Finish, Jtx25Stages,
         Step, Pass, Return, RefuseFaulty, RefuseVictim

-----------------------------------------------------------------------------
(* LLZ25.                                                                  *)

Llz25Stages == {"llz25_presign", "llz25_sign_1", "llz25_sign_2"}

Llz25Known ==
    /\ Has("k", Ints)
    /\ Has("gamma", Ints)
    /\ Has("x", [Parties -> Int])
    /\ stage # "llz25_presign" => /\ Has("u", Ints)
                                  /\ Has("w", Ints)
    /\ stage = "llz25_sign_2" => Has("R", Field)
    /\ stage = "llz25_sign_2" => /\ Has("wi", Ints)
                                 /\ Has("ui", Ints)

LEMMA Llz25Begins ==
    ASSUME NEW f \in Sharings, Llz25SignBegin(f)
    PROVE  Llz25Known /\ stage \in Llz25Stages
<1>1. [p \in Parties |-> Eval(f, p)] \in [Parties -> Int]
  <2>1. f \in Polynomials(T) /\ T \in Nat /\ Parties \subseteq Int
    BY SigningAssumption, QAssumption
  <2> QED BY <2>1, EvalType, ScalarsType
<1> QED BY <1>1, DrawnInts DEF Llz25SignBegin, Llz25Known, Llz25Stages, Has

LEMMA Llz25Step ==
    ASSUME Session, Llz25Known, Llz25SignNext
    PROVE  /\ stage \in Llz25Stages /\ LawfulStep
           /\ stage' # "ended" => Llz25Known' /\ stage' \in Llz25Stages
<1>s. Signers' = Signers /\ Ints' = Ints /\ Pairs' = Pairs /\ PairInts' = PairInts
  <2>1. protocol' = protocol
    BY DEF Llz25SignNext, Llz25Coefficients, Llz25Partial, Llz25Finish, Step, Pass, Return, RefuseFaulty
  <2> QED BY <2>1, SameIndices
<1>1. CASE Llz25Coefficients
  <2>1. CASE RefuseFaulty("llz25_presign", "proof")
    BY <2>1, RefusalLawful DEF Llz25Stages
  <2>2. CASE ~RefuseFaulty("llz25_presign", "proof")
    <3> DEFINE lambda == [i \in Signers |-> Lagrange(Signers, i)]
    <3>1. PICK alpha \in [Pairs -> Scalars], mu \in [Pairs -> Blinds] :
            LET AlphaBeta(i, j) == alpha[<<i, j>>] + know.k[j] * know.gamma[i] + Neg(alpha[<<j, i>>])
                MuNu(i, j) == lambda[i] * mu[<<i, j>>] + lambda[j] * (Llz25PeX(j) * know.gamma[i] + Neg(mu[<<j, i>>]))
            IN Step("llz25_presign", "llz25_sign_1",
                 [u |-> [i \in Signers |-> Fl(know.k[i] * know.gamma[i]
                            + SumFunctionOnSet([j \in Others(i) |-> AlphaBeta(i, j)], Others(i)))],
                  w |-> [i \in Signers |-> Fl(lambda[i] * know.x[i] * know.gamma[i]
                            + SumFunctionOnSet([j \in Others(i) |-> MuNu(i, j)], Others(i)))]])
      BY <1>1, <2>2 DEF Llz25Coefficients
    <3> DEFINE AlphaBeta(i, j) == alpha[<<i, j>>] + know.k[j] * know.gamma[i] + Neg(alpha[<<j, i>>])
               MuNu(i, j) == lambda[i] * mu[<<i, j>>] + lambda[j] * (Llz25PeX(j) * know.gamma[i] + Neg(mu[<<j, i>>]))
               a(i) == [j \in Others(i) |-> AlphaBeta(i, j)]
               m(i) == [j \in Others(i) |-> MuNu(i, j)]
               u == [i \in Signers |-> Fl(know.k[i] * know.gamma[i] + SumFunctionOnSet(a(i), Others(i)))]
               w == [i \in Signers |-> Fl(lambda[i] * know.x[i] * know.gamma[i] + SumFunctionOnSet(m(i), Others(i)))]
    <3>2. stage = "llz25_presign" /\ LawfulStep
      BY <3>1, StepLawful DEF Step
    <3>3. know.k \in Ints /\ know.gamma \in Ints /\ know.x \in [Parties -> Int]
      BY <3>2 DEF Llz25Known, Has
    <3>4. ASSUME NEW i \in Signers
          PROVE  lambda[i] \in Int /\ know.k[i] \in Int /\ know.gamma[i] \in Int /\ know.x[i] \in Int
      <4>1. Signers \subseteq Parties
        BY SigningAssumption DEF Signers
      <4> QED BY <3>3, <4>1, LagrangeInt DEF Ints
    <3> HIDE DEF lambda
    <3>5. ASSUME NEW i \in Signers, NEW j \in Others(i)
          PROVE  AlphaBeta(i, j) \in Int /\ MuNu(i, j) \in Int
      <4>1. /\ alpha[<<i, j>>] \in Int /\ alpha[<<j, i>>] \in Int /\ mu[<<i, j>>] \in Int /\ mu[<<j, i>>] \in Int
            /\ j \in Signers
        BY OtherPairs, DrawnInts DEF PairInts
      <4>2. /\ lambda[i] \in Int /\ lambda[j] \in Int /\ know.k[j] \in Int
            /\ know.gamma[i] \in Int /\ know.x[j] \in Int
        BY <3>4, <4>1
      <4>3. Neg(alpha[<<j, i>>]) \in Int /\ Neg(mu[<<j, i>>]) \in Int
        BY <4>1, FlInt
      <4>4. know.k[j] * know.gamma[i] \in Int /\ know.x[j] * know.gamma[i] \in Int /\ lambda[i] * mu[<<i, j>>] \in Int
        BY <4>1, <4>2
      <4>5. lambda[j] * (know.x[j] * know.gamma[i] + Neg(mu[<<j, i>>])) \in Int
        BY <4>2, <4>3, <4>4
      <4> QED BY <4>1, <4>3, <4>4, <4>5 DEF Llz25PeX
    <3>6. u \in Ints /\ w \in Ints
      <4> HIDE DEF AlphaBeta, MuNu
      <4> SUFFICES ASSUME NEW i \in Signers PROVE u[i] \in Int /\ w[i] \in Int
        BY DEF Ints
      <4>1. \A j \in Others(i) : a(i)[j] \in Int /\ m(i)[j] \in Int
        BY <3>5
      <4> HIDE DEF a, m
      <4>2. SumFunctionOnSet(a(i), Others(i)) \in Int /\ SumFunctionOnSet(m(i), Others(i)) \in Int
        BY <4>1, OthersSum
      <4>3. know.k[i] * know.gamma[i] \in Int /\ lambda[i] * know.x[i] \in Int
        BY <3>4
      <4>4. lambda[i] * know.x[i] * know.gamma[i] \in Int
        BY <3>4, <4>3
      <4> QED BY <4>2, <4>3, <4>4, FlInt
    <3>7. Step("llz25_presign", "llz25_sign_1", [u |-> u, w |-> w])
      BY <3>1
    <3> HIDE DEF u, w
    <3>8. Llz25Known' /\ stage' \in Llz25Stages
      BY <1>s, <3>6, <3>7 DEF Step, With, Llz25Known, Has, Llz25Stages
    <3> QED BY <3>2, <3>8 DEF Llz25Stages
  <2> QED BY <2>1, <2>2
<1>2. CASE Llz25Partial
  <2>1. PICK z \in Scalars, y \in Blinds :
          LET R == Fl(z * Total(know.k, Signers) + y)
          IN Step("llz25_sign_1", "llz25_sign_2",
               [R |-> R,
                wi |-> [i \in Signers |-> Fl(digest * know.gamma[i] + XCoord(R) * know.w[i] + Off(i, "partial"))],
                ui |-> [i \in Signers |-> Fl(y * know.gamma[i] + z * know.u[i])]])
    BY <1>2 DEF Llz25Partial
  <2> DEFINE R == Fl(z * Total(know.k, Signers) + y)
             wi == [i \in Signers |-> Fl(digest * know.gamma[i] + XCoord(R) * know.w[i] + Off(i, "partial"))]
             ui == [i \in Signers |-> Fl(y * know.gamma[i] + z * know.u[i])]
  <2>2. stage = "llz25_sign_1" /\ LawfulStep
    BY <2>1, StepLawful DEF Step
  <2>3. know.k \in Ints /\ know.gamma \in Ints /\ know.u \in Ints /\ know.w \in Ints
    BY <2>2 DEF Llz25Known, Has
  <2>4. z \in Int /\ y \in Int /\ Total(know.k, Signers) \in Int
    BY <2>3, DrawnInts, IntsType DEF Ints
  <2>5. R \in Field
    <3>1. z * Total(know.k, Signers) + y \in Int
      BY <2>4
    <3> QED BY <3>1, FlInt
  <2>6. wi \in Ints /\ ui \in Ints
    <3> HIDE DEF R
    <3> SUFFICES ASSUME NEW i \in Signers PROVE wi[i] \in Int /\ ui[i] \in Int
      BY DEF Ints
    <3>1. /\ know.gamma[i] \in Int /\ know.w[i] \in Int /\ know.u[i] \in Int
          /\ XCoord(R) \in Int /\ digest \in Int /\ Off(i, "partial") \in Int
      BY <2>3, <2>5, XCoordType, ScalarsType, Operands, OffType DEF Ints
    <3>2. /\ digest * know.gamma[i] \in Int /\ XCoord(R) * know.w[i] \in Int
          /\ y * know.gamma[i] \in Int /\ z * know.u[i] \in Int
      BY <2>4, <3>1
    <3> QED BY <3>1, <3>2, FlInt
  <2>7. Step("llz25_sign_1", "llz25_sign_2", [R |-> R, wi |-> wi, ui |-> ui])
    BY <2>1
  <2> HIDE DEF R, wi, ui
  <2>8. Llz25Known' /\ stage' \in Llz25Stages
    BY <1>s, <2>5, <2>6, <2>7 DEF Step, With, Llz25Known, Has, Llz25Stages
  <2> QED BY <2>2, <2>8 DEF Llz25Stages
<1>3. CASE Llz25Finish
  <2> DEFINE u == Total(know.ui, Signers)
             s == IF u = 0 THEN 0 ELSE Fl(Total(know.wi, Signers) * Inv(u))
  <2>1. stage = "llz25_sign_2"
    BY <1>3 DEF Llz25Finish
  <2>2. know.ui \in Ints /\ know.wi \in Ints /\ know.R \in Field
    BY <2>1 DEF Llz25Known, Has
  <2>3. XCoord(know.R) \in Field
    BY <2>2, XCoordType
  <2>4. ASSUME u # 0 PROVE s \in Field
    <3>1. u \in Field /\ Total(know.wi, Signers) \in Int
      BY <2>2, IntsType DEF Ints
    <3> HIDE DEF u
    <3>2. Inv(u) \in Int
      BY <2>4, <3>1, InvInt
    <3>3. Total(know.wi, Signers) * Inv(u) \in Int
      BY <3>1, <3>2
    <3> QED BY <2>4, <3>3, FlInt
  <2>5. Return("llz25_sign_2", Everyone(IF u = 0 THEN Refused ELSE Checked(XCoord(know.R), s)))
    BY <1>3 DEF Llz25Finish
  <2> HIDE DEF u, s
  <2> QED BY <2>3, <2>4, <2>5, FinishLawful DEF Llz25Stages
<1> QED BY <1>1, <1>2, <1>3 DEF Llz25SignNext

LEMMA Llz25Staged ==
    ASSUME Llz25SignNext
    PROVE  stage \in Llz25Stages
  BY DEF Llz25SignNext, Llz25Coefficients, Llz25Partial, Llz25Finish,
         Llz25Stages, Step, Pass, Return, RefuseFaulty

-----------------------------------------------------------------------------
(* TROUT.                                                                  *)

TroutShares == [f : Int, pk : Int, h : Int]

TroutStages == {"trout_presign", "trout_sign_1", "trout_sign_2"}

TroutKnown ==
    /\ Has("k", Ints)
    /\ Has("alpha", Ints)
    /\ Has("beta", Ints)
    /\ Has("u", Ints)
    /\ Has("delta", Ints)
    /\ Has("lx", Ints)
    /\ stage # "trout_presign" => Has("R", Field)
    /\ stage # "trout_presign" => Has("announced", Ints)
    /\ stage = "trout_sign_2" => /\ Has("f1", [Signers -> TroutShares])
                                 /\ Has("f2", [Signers -> TroutShares])

LEMMA TroutFShareType ==
    ASSUME NEW m \in Ints, NEW drawn \in Ints, NEW alpha \in Ints, NEW beta \in Ints, NEW b \in Ints,
           NEW i \in Signers
    PROVE  TroutFShare(m, drawn, alpha, beta, b, i) \in TroutShares
<1>1. \A f \in Ints : TroutSumOf(f) \in Int
  BY IntsType DEF Ints, TroutSumOf
<1>2. b[i] \in Int /\ alpha[i] \in Int /\ beta[i] \in Int
  BY DEF Ints
<1> DEFINE sm == TroutSumOf(m) sd == TroutSumOf(drawn) sb == TroutSumOf(b) st == TroutSumOf(beta)
<1>3. sm \in Int /\ sd \in Int /\ sb \in Int /\ st \in Int
  BY <1>1
<1> HIDE DEF sm, sd, sb, st
<1>4. /\ b[i] * sm \in Int /\ b[i] * sd \in Int /\ alpha[i] * sb \in Int
      /\ beta[i] * sd \in Int /\ alpha[i] * st \in Int
  BY <1>2, <1>3
<1>5. b[i] * sd - alpha[i] * sb \in Int /\ beta[i] * sd - alpha[i] * st \in Int /\ Fl(b[i] * sm) \in Int
  BY <1>4, FlInt
<1> QED BY <1>5 DEF TroutFShare, TroutShares, sm, sd, sb, st

LEMMA TroutSolveType ==
    ASSUME NEW shares \in [Signers -> TroutShares]
    PROVE  TroutSolve(shares) \in SUBSET Field
<1> DEFINE g == [i \in Signers |-> shares[i].f]
<1>1. \A i \in Signers : g[i] \in Int
  BY DEF TroutShares
<1> HIDE DEF g
<1>2. Fl(TroutSumOf(g)) \in Field
  BY <1>1, IntsType, FlInt DEF TroutSumOf
<1> QED BY <1>2 DEF TroutSolve, g

LEMMA TroutBegins ==
    ASSUME NEW f \in Sharings, TroutSignBegin(f)
    PROVE  TroutKnown /\ stage \in TroutStages
<1>1. PICK k \in [Signers -> Scalars], alpha \in [Signers -> Scalars], beta \in [Signers -> Scalars],
           blind \in Blinds, fault \in Faults({"proof", "scaled", "share"}) :
         know = [k |-> k, alpha |-> alpha, beta |-> beta, fault |-> fault,
                 u |-> [i \in Signers |-> blind + i], delta |-> alpha,
                 lx |-> [i \in Signers |-> Fl(Lagrange(Signers, i) * Eval(f, i))]]
  BY DEF TroutSignBegin
<1> DEFINE u == [i \in Signers |-> blind + i]
           lx == [i \in Signers |-> Fl(Lagrange(Signers, i) * Eval(f, i))]
<1>2. k \in Ints /\ alpha \in Ints /\ beta \in Ints
  BY DrawnInts
<1>3. u \in Ints /\ lx \in Ints
  BY DrawnInts, LagrangeInt, BeginType DEF Ints
<1>4. know = [k |-> k, alpha |-> alpha, beta |-> beta, fault |-> fault, u |-> u, delta |-> alpha, lx |-> lx]
  BY <1>1
<1> HIDE DEF u, lx
<1> QED BY <1>2, <1>3, <1>4 DEF TroutSignBegin, TroutKnown, TroutStages, Has

LEMMA TroutStep ==
    ASSUME Session, TroutKnown, TroutSignNext
    PROVE  /\ stage \in TroutStages /\ LawfulStep
           /\ stage' # "ended" => TroutKnown' /\ stage' \in TroutStages
<1>s. Signers' = Signers /\ Ints' = Ints /\ Pairs' = Pairs /\ PairInts' = PairInts
  <2>1. protocol' = protocol
    BY DEF TroutSignNext, TroutPresign, TroutOpen, TroutFinish, Step, Pass, Return, RefuseFaulty
  <2> QED BY <2>1, SameIndices
<1>1. CASE TroutPresign
  <2>1. CASE RefuseFaulty("trout_presign", "proof")
    BY <2>1, RefusalLawful DEF TroutStages
  <2>2. CASE ~RefuseFaulty("trout_presign", "proof")
    <3> DEFINE R == Total(know.k, Signers)
               announced == [i \in Signers |-> Fl(know.lx[i] + Off(i, "scaled"))]
    <3>1. stage = "trout_presign" /\ LawfulStep
      BY <1>1, <2>2, StepLawful DEF TroutPresign, Step
    <3>2. /\ know.k \in Ints /\ know.alpha \in Ints /\ know.beta \in Ints
          /\ know.u \in Ints /\ know.delta \in Ints /\ know.lx \in Ints
      BY <3>1 DEF TroutKnown, Has
    <3>3. R \in Field /\ announced \in Ints
      <4>1. ASSUME NEW i \in Signers PROVE announced[i] \in Int
        <5>1. know.lx[i] \in Int /\ Off(i, "scaled") \in Int
          BY <3>2, OffType DEF Ints
        <5> QED BY <5>1, FlInt
      <4> QED BY <3>2, <4>1, IntsType DEF Ints
    <3>4. Step("trout_presign", "trout_sign_1", [R |-> R, announced |-> announced])
      BY <1>1, <2>2 DEF TroutPresign
    <3> HIDE DEF R, announced
    <3>5. TroutKnown' /\ stage' \in TroutStages
      BY <1>s, <3>3, <3>4 DEF Step, With, TroutKnown, Has, TroutStages
    <3> QED BY <3>1, <3>5 DEF TroutStages
  <2> QED BY <2>1, <2>2
<1>2. CASE TroutOpen
  <2> DEFINE r == XCoord(know.R)
             rlx == [i \in Signers |-> r * know.announced[i] + IF i = P1 THEN digest ELSE 0]
             raised == [i \in Signers |-> r * (Lagrange(Signers, i) * know.delta[i])]
             alphaZ == [i \in Signers |-> TroutAlphaZ(r, i)]
             share(i) == TroutFShare(rlx, raised, alphaZ, know.beta, know.u, i)
             f1 == [i \in Signers |-> TroutFShare(know.k, know.alpha, know.alpha, know.beta, know.u, i)]
             f2 == [i \in Signers |-> [share(i) EXCEPT !.f = Fl(@ + Off(i, "share"))]]
  <2>1. Step("trout_sign_1", "trout_sign_2", [f1 |-> f1, f2 |-> f2])
    BY <1>2 DEF TroutOpen
  <2>2. stage = "trout_sign_1" /\ LawfulStep
    BY <2>1, StepLawful DEF Step
  <2>3. /\ know.k \in Ints /\ know.alpha \in Ints /\ know.beta \in Ints /\ know.u \in Ints
        /\ know.delta \in Ints /\ know.announced \in Ints /\ know.R \in Field
    BY <2>2 DEF TroutKnown, Has
  <2>4. r \in Int /\ digest \in Int
    BY <2>3, XCoordType, ScalarsType, Operands
  <2>5. rlx \in Ints /\ raised \in Ints /\ alphaZ \in Ints
    <3> HIDE DEF r
    <3> SUFFICES ASSUME NEW i \in Signers PROVE rlx[i] \in Int /\ raised[i] \in Int /\ alphaZ[i] \in Int
      BY DEF Ints
    <3>1. Lagrange(Signers, i) \in Int /\ know.delta[i] \in Int /\ know.announced[i] \in Int
      BY <2>3, LagrangeInt DEF Ints
    <3>2. r * know.announced[i] \in Int /\ Lagrange(Signers, i) * know.delta[i] \in Int /\ r * Lagrange(Signers, i) \in Int
      BY <2>4, <3>1
    <3>3. r * (Lagrange(Signers, i) * know.delta[i]) \in Int /\ r * Lagrange(Signers, i) * know.delta[i] \in Int
      BY <2>4, <3>1, <3>2
    <3> QED BY <2>4, <3>2, <3>3 DEF TroutAlphaZ
  <2>6. f1 \in [Signers -> TroutShares]
    BY <2>3, TroutFShareType
  <2>7. f2 \in [Signers -> TroutShares]
    <3> HIDE DEF rlx, raised, alphaZ
    <3> SUFFICES ASSUME NEW i \in Signers PROVE [share(i) EXCEPT !.f = Fl(@ + Off(i, "share"))] \in TroutShares
      OBVIOUS
    <3>1. share(i) \in TroutShares
      BY <2>3, <2>5, TroutFShareType
    <3> HIDE DEF share
    <3>2. Fl(share(i).f + Off(i, "share")) \in Int
      BY <3>1, OffType, FlInt DEF TroutShares
    <3> QED BY <3>1, <3>2 DEF TroutShares
  <2> HIDE DEF f1, f2
  <2>8. TroutKnown' /\ stage' \in TroutStages
    BY <1>s, <2>1, <2>6, <2>7 DEF Step, With, TroutKnown, Has, TroutStages, TroutShares
  <2> QED BY <2>2, <2>8 DEF TroutStages
<1>3. CASE TroutFinish
  <2> DEFINE uk == TroutSolve(know.f1)
             ux == TroutSolve(know.f2)
             s == TroutQuotients(uk, ux)
             outcome == IF s = {} THEN Refused ELSE Checked(XCoord(know.R), CHOOSE x \in s : TRUE)
  <2>1. stage = "trout_sign_2"
    BY <1>3 DEF TroutFinish
  <2>2. know.f1 \in [Signers -> TroutShares] /\ know.f2 \in [Signers -> TroutShares] /\ know.R \in Field
    BY <2>1 DEF TroutKnown, Has
  <2>3. XCoord(know.R) \in Field /\ uk \in SUBSET Field /\ ux \in SUBSET Field
    BY <2>2, XCoordType, TroutSolveType
  <2>4. Return("trout_sign_2", Everyone(outcome))
    BY <1>3, Zenon DEF TroutFinish
  <2> HIDE DEF uk, ux
  <2>5. s \in SUBSET Field
    <3> SUFFICES ASSUME NEW a \in uk \ {0}, NEW b \in ux PROVE Fl(b * Inv(a)) \in Field
      BY DEF TroutQuotients
    <3>1. b \in Int /\ Inv(a) \in Int
      BY <2>3, InvInt, ScalarsType
    <3>2. b * Inv(a) \in Int
      BY <3>1
    <3> QED BY <3>2, FlInt
  <2> HIDE DEF s
  <2>6. s # {} => (CHOOSE x \in s : TRUE) \in Field
    BY <2>5
  <2>7. outcome = Refused \/ \E x \in Field : outcome = Checked(XCoord(know.R), x)
    BY <2>6
  <2> HIDE DEF outcome
  <2> QED BY <2>3, <2>4, <2>7, FinishLawful DEF TroutStages
<1> QED BY <1>1, <1>2, <1>3 DEF TroutSignNext

LEMMA TroutStaged ==
    ASSUME TroutSignNext
    PROVE  stage \in TroutStages
  BY DEF TroutSignNext, TroutPresign, TroutOpen, TroutFinish, TroutStages,
         Step, Pass, Return, RefuseFaulty

-----------------------------------------------------------------------------
(* XAL23.                                                                  *)

Xal23Stages == {"xal23_presign_1", "xal23_presign_2", "xal23_presign_3", "xal23_sign"}

Xal23Known ==
    /\ Has("k", Ints)
    /\ Has("gamma", Ints)
    /\ Has("x", Ints)
    /\ stage # "xal23_presign_1" => Has("mask", PairInts)
    /\ stage # "xal23_presign_1" => Has("w", Ints)
    /\ stage \in {"xal23_presign_3", "xal23_sign"} => /\ Has("delta", Ints)
                                                      /\ Has("sigma", Ints)
    /\ stage = "xal23_sign" => Has("R", Field)

LEMMA Xal23SharesType ==
    ASSUME know.k \in Ints, know.mask \in PairInts, NEW b \in Ints
    PROVE  Xal23Shares(b) \in Ints
<1> DEFINE g(i) == [j \in Others(i) |-> MtaReceiverShare(know.mask[<<i, j>>])
                            + Xal23SenderShare(know.k[j], b[i], know.mask[<<j, i>>])]
<1>1. ASSUME NEW i \in Signers PROVE Fl(know.k[i] * b[i] + SumFunctionOnSet(g(i), Others(i))) \in Int
  <2>1. ASSUME NEW j \in Others(i) PROVE g(i)[j] \in Int
    <3>1. know.mask[<<i, j>>] \in Int /\ know.mask[<<j, i>>] \in Int /\ know.k[j] \in Int /\ b[i] \in Int
      BY OtherPairs DEF Ints, PairInts
    <3>2. MtaReceiverShare(know.mask[<<i, j>>]) \in Int
      BY <3>1, FlInt DEF MtaReceiverShare
    <3>3. know.k[j] * (b[i] + 4 * Q) + know.mask[<<j, i>>] \in Int
      <4>1. b[i] + 4 * Q \in Int
        BY <3>1, QAssumption
      <4>2. know.k[j] * (b[i] + 4 * Q) \in Int
        BY <3>1, <4>1
      <4> QED BY <3>1, <4>2
    <3>4. Xal23SenderShare(know.k[j], b[i], know.mask[<<j, i>>]) \in Int
      BY <3>3, SpaceType, Remainder, FlInt DEF Xal23SenderShare
    <3> QED BY <2>1, <3>2, <3>4
  <2>2. know.k[i] * b[i] \in Int
    <3>1. know.k[i] \in Int /\ b[i] \in Int
      BY DEF Ints
    <3> QED BY <3>1
  <2> HIDE DEF g
  <2>3. SumFunctionOnSet(g(i), Others(i)) \in Int
    BY <2>1, OthersSum
  <2> QED BY <2>2, <2>3, FlInt
<1> QED BY <1>1 DEF Xal23Shares, Ints

LEMMA Xal23Begins ==
    ASSUME NEW f \in Sharings, Xal23SignBegin(f)
    PROVE  Xal23Known /\ stage \in Xal23Stages
<1>1. PICK k \in [Signers -> Scalars], gamma \in [Signers -> Blinds], x1 \in Scalars,
           sharing \in {"additive", "dkg"},
           fault \in Faults({"encrypted", "affine", "opening", "w", "delta", "partial"}) :
         know = [k |-> k, gamma |-> gamma, sharing |-> sharing, fault |-> fault,
                 x |-> IF sharing = "dkg" THEN [i \in Signers |-> Eval(f, i)]
                       ELSE [i \in Signers |-> IF i = P1 THEN Fl(f[0] + Neg(x1)) ELSE
                                               IF i = P2 THEN x1 ELSE 0]]
  BY DEF Xal23SignBegin
<1> DEFINE dkg == [i \in Signers |-> Eval(f, i)]
           additive == [i \in Signers |-> IF i = P1 THEN Fl(f[0] + Neg(x1)) ELSE IF i = P2 THEN x1 ELSE 0]
           x == IF sharing = "dkg" THEN dkg ELSE additive
<1>2. k \in Ints /\ gamma \in Ints
  BY DrawnInts
<1>3. x \in Ints
  <2>1. Fl(f[0] + Neg(x1)) \in Int /\ x1 \in Int
    BY BeginType, ScalarInt, FlInt
  <2>2. additive \in Ints
    BY <2>1 DEF Ints
  <2>3. dkg \in Ints
    BY BeginType DEF Ints
  <2> HIDE DEF additive, dkg
  <2> QED BY <2>2, <2>3
<1>4. know = [k |-> k, gamma |-> gamma, sharing |-> sharing, fault |-> fault, x |-> x]
  BY <1>1
<1> HIDE DEF x
<1> QED BY <1>2, <1>3, <1>4 DEF Xal23SignBegin, Xal23Known, Xal23Stages, Has

LEMMA Xal23Step ==
    ASSUME Session, Xal23Known, Xal23SignNext
    PROVE  /\ stage \in Xal23Stages /\ LawfulStep
           /\ stage' # "ended" => Xal23Known' /\ stage' \in Xal23Stages
<1>s. Signers' = Signers /\ Ints' = Ints /\ Pairs' = Pairs /\ PairInts' = PairInts
  <2>1. protocol' = protocol
    BY DEF Xal23SignNext, Xal23Multiply, Xal23Decrypt, Xal23Presign, Xal23Finish, Step, Pass, Return, RefuseFaulty, RefuseVictim
  <2> QED BY <2>1, SameIndices
<1>1. CASE Xal23Multiply
  <2> DEFINE refusals == [i \in Signers |-> IF \E j \in Others(i) : ~Xal23KeyFound(j) THEN Refused ELSE Waiting]
  <2>1. CASE RefuseVictim("xal23_presign_1", "encrypted")
    BY <2>1, RefusalLawful DEF Xal23Stages
  <2>2. CASE Return("xal23_presign_1", refusals)
    <3>1. Lawful(refusals)
      BY DEF Lawful
    <3> HIDE DEF refusals
    <3> QED BY <2>2, <3>1, ReturnLawful DEF Xal23Stages
  <2>3. CASE \E mask \in {m \in Masks : m < 8 * Q * Q} :
                Step("xal23_presign_1", "xal23_presign_2",
                     [mask |-> [p \in Pairs |-> mask + p[1]],
                      w |-> [i \in Signers |-> Fl(know.x[i] + Off(i, "w"))]])
    <3>1. PICK least \in {m \in Masks : m < 8 * Q * Q} :
                Step("xal23_presign_1", "xal23_presign_2",
                     [mask |-> [p \in Pairs |-> least + p[1]],
                      w |-> [i \in Signers |-> Fl(know.x[i] + Off(i, "w"))]])
      BY <2>3
    <3> DEFINE mask == [p \in Pairs |-> least + p[1]]
               w == [i \in Signers |-> Fl(know.x[i] + Off(i, "w"))]
    <3>2. stage = "xal23_presign_1" /\ LawfulStep
      BY <3>1, StepLawful DEF Step
    <3>3. know.x \in Ints
      BY <3>2 DEF Xal23Known, Has
    <3>4. mask \in PairInts
      <4>1. ASSUME NEW p \in Pairs PROVE least + p[1] \in Int
        <5>1. least \in Int
          BY DrawnInts
        <5>2. p[1] \in Int
          BY PairsType, SignersType
        <5> QED BY <5>1, <5>2
      <4> QED BY <4>1 DEF PairInts
    <3>5. w \in Ints
      <4> SUFFICES ASSUME NEW i \in Signers PROVE w[i] \in Int
        BY DEF Ints
      <4>1. know.x[i] \in Int /\ Off(i, "w") \in Int
        BY <3>3, OffType DEF Ints
      <4> QED BY <4>1, FlInt
    <3>6. Step("xal23_presign_1", "xal23_presign_2", [mask |-> mask, w |-> w])
      BY <3>1
    <3> HIDE DEF mask, w
    <3>7. Xal23Known' /\ stage' \in Xal23Stages
      BY <1>s, <3>4, <3>5, <3>6 DEF Step, With, Xal23Known, Has, Xal23Stages
    <3> QED BY <3>2, <3>7 DEF Xal23Stages
  <2> QED BY <1>1, <2>1, <2>2, <2>3 DEF Xal23Multiply
<1>2. CASE Xal23Decrypt
  <2>1. CASE RefuseVictim("xal23_presign_2", "affine") \/ RefuseFaulty("xal23_presign_2", "opening")
    BY <2>1, RefusalLawful DEF Xal23Stages
  <2>2. CASE ~(RefuseVictim("xal23_presign_2", "affine") \/ RefuseFaulty("xal23_presign_2", "opening"))
    <3> DEFINE delta == [i \in Signers |-> Fl(Xal23Shares(know.gamma)[i] + Off(i, "delta"))]
               sigma == Xal23Shares(know.w)
    <3>1. stage = "xal23_presign_2" /\ LawfulStep
      BY <1>2, <2>2, StepLawful DEF Xal23Decrypt, Step
    <3>2. /\ know.k \in Ints /\ know.gamma \in Ints /\ know.x \in Ints
          /\ know.mask \in PairInts /\ know.w \in Ints
      BY <3>1 DEF Xal23Known, Has
    <3>3. delta \in Ints /\ sigma \in Ints
      <4>1. Xal23Shares(know.gamma) \in Ints /\ sigma \in Ints
        BY <3>2, Xal23SharesType
      <4>2. ASSUME NEW i \in Signers PROVE delta[i] \in Int
        <5>1. Xal23Shares(know.gamma)[i] \in Int /\ Off(i, "delta") \in Int
          BY <4>1, OffType DEF Ints
        <5> QED BY <5>1, FlInt
      <4> QED BY <4>1, <4>2 DEF Ints
    <3>4. Step("xal23_presign_2", "xal23_presign_3", [delta |-> delta, sigma |-> sigma])
      BY <1>2, <2>2 DEF Xal23Decrypt
    <3> HIDE DEF delta, sigma
    <3>5. Xal23Known' /\ stage' \in Xal23Stages
      BY <1>s, <3>3, <3>4 DEF Step, With, Xal23Known, Has, Xal23Stages
    <3> QED BY <3>1, <3>5 DEF Xal23Stages
  <2> QED BY <2>1, <2>2
<1>3. CASE Xal23Presign
  <2> DEFINE delta == Total(know.delta, Signers)
  <2>1. CASE Return("xal23_presign_3", Everyone(Refused))
    BY <2>1, RefusalLawful DEF Xal23Stages
  <2>2. CASE /\ delta # 0
             /\ Step("xal23_presign_3", "xal23_sign", [R |-> Fl(Total(know.gamma, Signers) * Inv(delta))])
    <3>1. stage = "xal23_presign_3" /\ LawfulStep
      BY <2>2, StepLawful DEF Step
    <3>2. /\ know.k \in Ints /\ know.gamma \in Ints /\ know.x \in Ints
          /\ know.mask \in PairInts /\ know.w \in Ints /\ know.delta \in Ints
          /\ know.sigma \in Ints
      BY <3>1 DEF Xal23Known, Has
    <3>3. Fl(Total(know.gamma, Signers) * Inv(delta)) \in Field
      <4>1. delta \in Field /\ Total(know.gamma, Signers) \in Int
        BY <3>2, IntsType DEF Ints
      <4> HIDE DEF delta
      <4>2. Inv(delta) \in Int
        BY <2>2, <4>1, InvInt
      <4>3. Total(know.gamma, Signers) * Inv(delta) \in Int
        BY <4>1, <4>2
      <4> QED BY <4>3, FlInt
    <3>4. Xal23Known' /\ stage' \in Xal23Stages
      BY <2>2, <1>s, <3>3 DEF Step, With, Xal23Known, Has, Xal23Stages
    <3> QED BY <3>1, <3>4 DEF Xal23Stages
  <2> QED BY <1>3, <2>1, <2>2 DEF Xal23Presign
<1>4. CASE Xal23Finish
  <2> DEFINE s == [i \in Signers |-> Xal23Partial(i)]
  <2>1. stage = "xal23_sign"
    BY <1>4 DEF Xal23Finish
  <2>2. know.k \in Ints /\ know.sigma \in Ints /\ know.R \in Field
    BY <2>1 DEF Xal23Known, Has
  <2>3. XCoord(know.R) \in Field /\ XCoord(know.R) \in Int /\ digest \in Int
    BY <2>2, XCoordType, ScalarsType, Operands
  <2>4. ASSUME NEW i \in Signers PROVE s[i] \in Int
    <3>1. know.k[i] \in Int /\ know.sigma[i] \in Int /\ Off(i, "partial") \in Int
      BY <2>2, OffType DEF Ints
    <3>2. digest * know.k[i] + XCoord(know.R) * know.sigma[i] + Off(i, "partial") \in Int
      BY <2>3, <3>1
    <3> QED BY <3>2, FlInt DEF Xal23Partial
  <2>5. Total(s, Signers) \in Field
    BY <2>4, IntsType
  <2>6. Return("xal23_sign", Everyone(Checked(XCoord(know.R), Total(s, Signers))))
    BY <1>4 DEF Xal23Finish
  <2> HIDE DEF s
  <2> QED BY <2>3, <2>5, <2>6, FinishLawful DEF Xal23Stages
<1> QED BY <1>1, <1>2, <1>3, <1>4 DEF Xal23SignNext

LEMMA Xal23Staged ==
    ASSUME Xal23SignNext
    PROVE  stage \in Xal23Stages
  BY DEF Xal23SignNext, Xal23Multiply, Xal23Decrypt, Xal23Presign,
         Xal23Finish, Xal23Stages, Step, Pass, Return, RefuseFaulty,
         RefuseVictim

-----------------------------------------------------------------------------
(* KU24.                                                                   *)

Ku24Stages == {"ku24_presign_1", "ku24_presign_2", "ku24_presign_3", "ku24_presign_4", "ku24_sign_1", "ku24_sign_2", "ku24_sign_3"}

Ku24Known ==
    /\ Has("k", Ints)
    /\ Has("a", Ints)
    /\ Has("r", Ints)
    /\ Has("beta", Ints)
    /\ Has("x", Ints)
    /\ stage # "ku24_presign_1" => /\ Has("w", Ints)
                                   /\ Has("mu", Ints)
    /\ stage \in {"ku24_presign_3", "ku24_presign_4", "ku24_sign_1", "ku24_sign_2", "ku24_sign_3"} =>
           Has("tau", Ints)
    /\ stage \in {"ku24_presign_4", "ku24_sign_1", "ku24_sign_2", "ku24_sign_3"} =>
           /\ Has("t", Ints)
           /\ Has("wSent", Ints)
    /\ stage = "ku24_presign_4" => Has("R", Ints)
    /\ stage \in {"ku24_sign_1", "ku24_sign_2", "ku24_sign_3"} =>
           Has("R", Field)
    /\ stage \in {"ku24_sign_1", "ku24_sign_2", "ku24_sign_3"} =>
           /\ Has("kInv", Ints)
           /\ Has("zero", Ints)
    /\ stage = "ku24_sign_2" => Has("s", Ints)
    /\ stage = "ku24_sign_3" => Has("s", Field)

LEMMA Ku24RandType ==
    ASSUME NEW prf \in [Ku24Subsets -> Int], NEW i \in Signers
    PROVE  Ku24Rand(prf, i) \in Int
<1> DEFINE S == {B \in Ku24Subsets : i \in B}
           g == [A \in S |-> prf[A] * Ku24Fa(A, i)]
<1>1. IsFiniteSet(S)
  <2>1. IsFiniteSet(SUBSET Signers)
    BY SignersType, FS_SUBSET
  <2>2. S \in SUBSET SUBSET Signers
    BY DEF Ku24Subsets
  <2> QED BY <2>1, <2>2, FS_Subset
<1>2. ASSUME NEW A \in S PROVE g[A] \in Int
  <2> DEFINE h == [j \in Signers \ A |-> (j + Neg(i)) * Inv(j)]
  <2>1. ASSUME NEW j \in Signers \ A PROVE h[j] \in Int
    <3>1. j \in Field /\ j # 0 /\ j \in Int /\ i \in Int
      BY SignersType, QAssumption DEF Field
    <3>2. Inv(j) \in Int /\ Neg(i) \in Int
      BY <3>1, InvInt, FlInt
    <3>3. (j + Neg(i)) * Inv(j) \in Int
      BY <3>1, <3>2
    <3> QED BY <2>1, <3>3
  <2>2. IsFiniteSet(Signers \ A)
    BY SignersType, FS_Subset
  <2> HIDE DEF h
  <2>3. Product(h, Signers \ A) \in Int
    BY <2>1, <2>2, ProductType, ScalarsType
  <2>4. Ku24Fa(A, i) \in Int /\ prf[A] \in Int
    BY <2>3 DEF Ku24Fa, h
  <2>5. prf[A] * Ku24Fa(A, i) \in Int
    BY <2>4
  <2> QED BY <1>2, <2>5
<1> HIDE DEF g, S
<1>3. Total(g, S) \in Int
  BY <1>1, <1>2, TotalType, ScalarsType
<1> QED BY <1>3 DEF Ku24Rand, g, S

LEMMA Ku24ZeroType ==
    ASSUME NEW prf \in [1 .. Ku24Degree -> [Ku24Subsets -> Int]], NEW i \in Signers
    PROVE  Ku24Zero(prf, i) \in Field /\ Ku24Zero(prf, i) \in Int
<1> DEFINE parts == [l \in 1 .. Ku24Degree |-> XPow(i, l) * Ku24Rand(prf[l], i)]
<1>1. Ku24Degree \in Nat /\ IsFiniteSet(1 .. Ku24Degree)
  BY SigningAssumption, FS_Interval DEF Ku24Degree
<1>2. ASSUME NEW l \in 1 .. Ku24Degree PROVE parts[l] \in Int
  <2> DEFINE a == XPow(i, l)
             b == Ku24Rand(prf[l], i)
  <2>1. prf[l] \in [Ku24Subsets -> Int] /\ l \in Nat /\ i \in Int
    BY <1>1, LagrangeInt
  <2>2. a \in Int
    BY <2>1, XPowStep, ScalarsType
  <2>3. b \in Int
    BY <2>1, Ku24RandType
  <2>4. parts[l] = a * b
    OBVIOUS
  <2> HIDE DEF a, b, parts
  <2> QED BY <2>2, <2>3, <2>4
<1> HIDE DEF parts
<1>3. Total(parts, 1 .. Ku24Degree) \in Field
  BY <1>1, <1>2, TotalType
<1> QED BY <1>3, ScalarsType DEF Ku24Zero, parts

LEMMA Ku24DrawsType ==
    /\ \A x \in Ku24Draws(Scalars) : x \in Ints
    /\ \A x \in Ku24Draws(Blinds) : x \in Ints
    /\ \A x \in Ku24Zeros(Blinds) : x \in Ints
<1>1. ASSUME NEW values \in SUBSET Int, NEW x \in Ku24Draws(values) PROVE x \in Ints
  <2>1. PICK prf \in [Ku24Subsets -> values] : x = [i \in Signers |-> Ku24Rand(prf, i)]
    BY DEF Ku24Draws
  <2>2. prf \in [Ku24Subsets -> Int]
    OBVIOUS
  <2> QED BY <2>1, <2>2, Ku24RandType DEF Ints
<1>2. ASSUME NEW values \in SUBSET Int, NEW x \in Ku24Zeros(values) PROVE x \in Ints
  <2>1. PICK prf \in [1 .. Ku24Degree -> [Ku24Subsets -> values]] : x = [i \in Signers |-> Ku24Zero(prf, i)]
    BY DEF Ku24Zeros
  <2>2. prf \in [1 .. Ku24Degree -> [Ku24Subsets -> Int]]
    OBVIOUS
  <2> QED BY <2>1, <2>2, Ku24ZeroType DEF Ints
<1> QED BY <1>1, <1>2, DrawnInts

LEMMA Ku24OpenedType ==
    ASSUME NEW shares \in Ints, NEW degree
    PROVE  Ku24Opened(shares, degree) \in Field /\ Ku24Opened(shares, degree) \in Int
<1>1. {i \in Signers : Position(i) <= degree + 1} \in SUBSET Signers
  OBVIOUS
<1> QED BY <1>1, ReconstructInt DEF Ku24Opened, Ints

LEMMA Ku24ProductType ==
    ASSUME Session, NEW x \in Ints, NEW y \in Ints, NEW mask \in Ints, NEW zero \in Ints, NEW where
    PROVE  Ku24Product(x, y, mask, zero, where) \in Ints
<1>1. ASSUME NEW i \in Signers PROVE Fl(x[i] * y[i] + mask[i] + zero[i] + Off(i, where)) \in Int
  <2>1. x[i] \in Int /\ y[i] \in Int /\ mask[i] \in Int /\ zero[i] \in Int /\ Off(i, where) \in Int
    BY OffType DEF Ints
  <2>2. x[i] * y[i] + mask[i] + zero[i] + Off(i, where) \in Int
    BY <2>1
  <2> QED BY <2>2, FlInt
<1> QED BY <1>1 DEF Ku24Product, Ints

LEMMA Ku24ReducedType ==
    ASSUME NEW e \in Ints, NEW mask \in Ints
    PROVE  Ku24Reduced(e, mask) \in Ints
<1>1. ASSUME NEW i \in Signers PROVE Fl(Ku24Opened(e, 2 * Ku24Degree) + Neg(mask[i])) \in Int
  <2>1. Ku24Opened(e, 2 * Ku24Degree) \in Int
    BY Ku24OpenedType
  <2>2. mask[i] \in Int
    BY DEF Ints
  <2>3. Neg(mask[i]) \in Int
    BY <2>2, FlInt
  <2> QED BY <2>1, <2>3, FlInt
<1> QED BY <1>1 DEF Ku24Reduced, Ints

LEMMA Ku24Begins ==
    ASSUME NEW f \in Sharings, Ku24SignBegin(f)
    PROVE  Ku24Known /\ stage \in Ku24Stages
<1>1. PICK k \in Ku24Draws(Scalars), a \in Ku24Draws(Scalars), r \in Ku24Draws(Blinds), beta \in Ku24Draws(Blinds),
           fault \in Faults({"w", "mu", "tau", "r", "beta", "t", "w_share", "R", "s"}) :
         know = [k |-> k, a |-> a, r |-> r, beta |-> beta, fault |-> fault,
                 x |-> [i \in Signers |-> Eval(f, i)]]
  BY DEF Ku24SignBegin
<1> DEFINE x == [i \in Signers |-> Eval(f, i)]
<1>2. k \in Ints /\ a \in Ints /\ r \in Ints /\ beta \in Ints
  BY Ku24DrawsType
<1>3. x \in Ints
  BY BeginType DEF Ints
<1>4. know = [k |-> k, a |-> a, r |-> r, beta |-> beta, fault |-> fault, x |-> x]
  BY <1>1
<1> HIDE DEF x
<1> QED BY <1>2, <1>3, <1>4 DEF Ku24SignBegin, Ku24Known, Ku24Stages, Has

LEMMA Ku24Step ==
    ASSUME Session, Ku24Known, Ku24SignNext
    PROVE  /\ stage \in Ku24Stages /\ LawfulStep
           /\ stage' # "ended" => Ku24Known' /\ stage' \in Ku24Stages
<1>s. Signers' = Signers /\ Ints' = Ints /\ Pairs' = Pairs /\ PairInts' = PairInts
  <2>1. protocol' = protocol
    BY DEF Ku24SignNext, Ku24MultiplyOnce, Ku24MultiplyTwice, Ku24CheckTriple, Ku24Presign, Ku24Partial, Ku24Combine, Ku24Finish, Step, Pass, Return
  <2> QED BY <2>1, SameIndices
<1>1. CASE Ku24MultiplyOnce
  <2>1. CASE Return("ku24_presign_1", Everyone(Refused))
    BY <2>1, RefusalLawful DEF Ku24Stages
  <2>2. CASE ~Return("ku24_presign_1", Everyone(Refused))
    <3>1. PICK wMask \in Ku24Draws(Blinds), muMask \in Ku24Draws(Blinds),
               wZero \in Ku24Zeros(Blinds), muZero \in Ku24Zeros(Blinds) :
            Step("ku24_presign_1", "ku24_presign_2",
                 [w |-> Ku24Reduced(Ku24Product(know.k, know.a, wMask, wZero, "w"), wMask),
                  mu |-> Ku24Reduced(Ku24Product(know.r, know.a, muMask, muZero, "mu"), muMask)])
      BY <1>1, <2>2 DEF Ku24MultiplyOnce
    <3> DEFINE w == Ku24Reduced(Ku24Product(know.k, know.a, wMask, wZero, "w"), wMask)
               mu == Ku24Reduced(Ku24Product(know.r, know.a, muMask, muZero, "mu"), muMask)
    <3>2. stage = "ku24_presign_1" /\ LawfulStep
      BY <3>1, StepLawful DEF Step
    <3>3. /\ know.k \in Ints /\ know.a \in Ints /\ know.r \in Ints
          /\ know.beta \in Ints /\ know.x \in Ints
      BY <3>2 DEF Ku24Known, Has
    <3>4. wMask \in Ints /\ muMask \in Ints /\ wZero \in Ints /\ muZero \in Ints
      BY Ku24DrawsType
    <3>5. w \in Ints /\ mu \in Ints
      BY <3>3, <3>4, Ku24ProductType, Ku24ReducedType
    <3>6. Step("ku24_presign_1", "ku24_presign_2", [w |-> w, mu |-> mu])
      BY <3>1
    <3> HIDE DEF w, mu
    <3>7. Ku24Known' /\ stage' \in Ku24Stages
      BY <1>s, <3>5, <3>6 DEF Step, With, Ku24Known, Has, Ku24Stages
    <3> QED BY <3>2, <3>7 DEF Ku24Stages
  <2> QED BY <2>1, <2>2
<1>2. CASE Ku24MultiplyTwice
  <2>1. CASE Return("ku24_presign_2", Everyone(Refused))
    BY <2>1, RefusalLawful DEF Ku24Stages
  <2>2. CASE ~Return("ku24_presign_2", Everyone(Refused))
    <3>1. PICK mask \in Ku24Draws(Blinds), zero \in Ku24Zeros(Blinds) :
            Step("ku24_presign_2", "ku24_presign_3",
                 [tau |-> Ku24Reduced(Ku24Product(know.mu, know.k, mask, zero, "tau"), mask),
                  r |-> [i \in Signers |-> Fl(know.r[i] + Off(i, "r"))],
                  beta |-> [i \in Signers |-> Fl(know.beta[i] + Off(i, "beta"))]])
      BY <1>2, <2>2 DEF Ku24MultiplyTwice
    <3> DEFINE tau == Ku24Reduced(Ku24Product(know.mu, know.k, mask, zero, "tau"), mask)
               r == [i \in Signers |-> Fl(know.r[i] + Off(i, "r"))]
               beta == [i \in Signers |-> Fl(know.beta[i] + Off(i, "beta"))]
    <3>2. stage = "ku24_presign_2" /\ LawfulStep
      BY <3>1, StepLawful DEF Step
    <3>3. /\ know.k \in Ints /\ know.a \in Ints /\ know.r \in Ints
          /\ know.beta \in Ints /\ know.x \in Ints /\ know.w \in Ints
          /\ know.mu \in Ints
      BY <3>2 DEF Ku24Known, Has
    <3>4. mask \in Ints /\ zero \in Ints
      BY Ku24DrawsType
    <3>5. tau \in Ints /\ r \in Ints /\ beta \in Ints
      <4>1. tau \in Ints
        BY <3>3, <3>4, Ku24ProductType, Ku24ReducedType
      <4>2. ASSUME NEW i \in Signers PROVE r[i] \in Int /\ beta[i] \in Int
        <5>1. know.r[i] \in Int /\ know.beta[i] \in Int /\ Off(i, "r") \in Int /\ Off(i, "beta") \in Int
          BY <3>3, OffType DEF Ints
        <5> QED BY <5>1, FlInt
      <4> HIDE DEF tau
      <4> QED BY <4>1, <4>2 DEF Ints
    <3>6. Step("ku24_presign_2", "ku24_presign_3", [tau |-> tau, r |-> r, beta |-> beta])
      BY <3>1
    <3> HIDE DEF tau, r, beta
    <3>7. Ku24Known' /\ stage' \in Ku24Stages
      BY <1>s, <3>5, <3>6 DEF Step, With, Ku24Known, Has, Ku24Stages
    <3> QED BY <3>2, <3>7 DEF Ku24Stages
  <2> QED BY <2>1, <2>2
<1>3. CASE Ku24CheckTriple
  <2>1. CASE Return("ku24_presign_3", Everyone(Refused))
    BY <2>1, RefusalLawful DEF Ku24Stages
  <2>2. CASE ~Return("ku24_presign_3", Everyone(Refused))
    <3> DEFINE t == [i \in Signers |-> Fl(Off(i, "t") + Ku24TripleCheck(know.tau[i], know.w[i],
                                  Ku24Opened(know.r, Ku24Degree), Ku24Opened(know.beta, Ku24Degree)))]
               wSent == [i \in Signers |-> Fl(know.w[i] + Off(i, "w_share"))]
               R == [i \in Signers |-> Fl(know.k[i] + Off(i, "R"))]
    <3>1. stage = "ku24_presign_3" /\ LawfulStep
      BY <1>3, <2>2, StepLawful DEF Ku24CheckTriple, Step
    <3>2. /\ know.k \in Ints /\ know.a \in Ints /\ know.r \in Ints
          /\ know.beta \in Ints /\ know.x \in Ints /\ know.w \in Ints
          /\ know.mu \in Ints /\ know.tau \in Ints
      BY <3>1 DEF Ku24Known, Has
    <3>3. t \in Ints /\ wSent \in Ints /\ R \in Ints
      <4> SUFFICES ASSUME NEW i \in Signers PROVE t[i] \in Int /\ wSent[i] \in Int /\ R[i] \in Int
        BY DEF Ints
      <4>1. /\ know.tau[i] \in Int /\ know.w[i] \in Int /\ know.k[i] \in Int
            /\ Off(i, "t") \in Int /\ Off(i, "w_share") \in Int /\ Off(i, "R") \in Int
        BY <3>2, OffType DEF Ints
      <4> DEFINE r == Ku24Opened(know.r, Ku24Degree)
                 beta == Ku24Opened(know.beta, Ku24Degree)
      <4>2. r \in Int /\ beta \in Int
        BY <3>2, Ku24OpenedType
      <4> HIDE DEF r, beta
      <4>3. Neg(Fl(r * know.w[i])) \in Int
        <5>1. r * know.w[i] \in Int
          BY <4>1, <4>2
        <5> QED BY <5>1, FlInt
      <4>4. Ku24TripleCheck(know.tau[i], know.w[i], r, beta) \in Int
        <5>1. (know.tau[i] + Neg(Fl(r * know.w[i]))) * beta \in Int
          BY <4>1, <4>2, <4>3
        <5> QED BY <5>1, FlInt DEF Ku24TripleCheck
      <4>5. Fl(Off(i, "t") + Ku24TripleCheck(know.tau[i], know.w[i], r, beta)) \in Int
        BY <4>1, <4>4, FlInt
      <4> QED BY <4>1, <4>5, FlInt DEF r, beta
    <3>4. Step("ku24_presign_3", "ku24_presign_4", [t |-> t, wSent |-> wSent, R |-> R])
      BY <1>3, <2>2 DEF Ku24CheckTriple
    <3> HIDE DEF t, wSent, R
    <3>5. Ku24Known' /\ stage' \in Ku24Stages
      BY <1>s, <3>3, <3>4 DEF Step, With, Ku24Known, Has, Ku24Stages
    <3> QED BY <3>1, <3>5 DEF Ku24Stages
  <2> QED BY <2>1, <2>2
<1>4. CASE Ku24Presign
  <2> DEFINE w == Ku24Opened(know.wSent, Ku24Degree)
  <2>1. CASE Return("ku24_presign_4", Everyone(Refused))
    BY <2>1, RefusalLawful DEF Ku24Stages
  <2>2. CASE ~Return("ku24_presign_4", Everyone(Refused))
    <3>1. PICK zero \in Ku24Zeros(Blinds) : Step("ku24_presign_4", "ku24_sign_1",
                [kInv |-> [i \in Signers |-> Fl(Inv(w) * know.a[i])],
                 R |-> Ku24Opened(know.R, Ku24Degree), zero |-> zero])
      BY <1>4, <2>2 DEF Ku24Presign
    <3>2. w # 0
      BY <1>4, <2>2 DEF Ku24Presign
    <3> DEFINE kInv == [i \in Signers |-> Fl(Inv(w) * know.a[i])]
               R == Ku24Opened(know.R, Ku24Degree)
    <3>3. stage = "ku24_presign_4" /\ LawfulStep
      BY <3>1, StepLawful DEF Step
    <3>4. know.a \in Ints /\ know.R \in Ints /\ know.wSent \in Ints
      BY <3>3 DEF Ku24Known, Has
    <3>5. R \in Field /\ zero \in Ints /\ w \in Field
      BY <3>4, Ku24OpenedType, Ku24DrawsType
    <3> HIDE DEF w
    <3>6. kInv \in Ints
      <4> SUFFICES ASSUME NEW i \in Signers PROVE kInv[i] \in Int
        BY DEF Ints
      <4>1. Inv(w) \in Int /\ know.a[i] \in Int
        BY <3>2, <3>4, <3>5, InvInt DEF Ints
      <4>2. Inv(w) * know.a[i] \in Int
        BY <4>1
      <4> QED BY <4>2, FlInt
    <3>7. Step("ku24_presign_4", "ku24_sign_1", [kInv |-> kInv, R |-> R, zero |-> zero])
      BY <3>1
    <3> HIDE DEF kInv, R
    <3>8. Ku24Known' /\ stage' \in Ku24Stages
      BY <1>s, <3>5, <3>6, <3>7 DEF Step, With, Ku24Known, Has, Ku24Stages
    <3> QED BY <3>3, <3>8 DEF Ku24Stages
  <2> QED BY <2>1, <2>2
<1>5. CASE Ku24Partial
  <2> DEFINE s == [i \in Signers |->
                    Fl(know.kInv[i] * Fl(digest + XCoord(know.R) * know.x[i]) + know.zero[i] + Off(i, "s"))]
  <2>1. stage = "ku24_sign_1" /\ LawfulStep
    BY <1>5, StepLawful DEF Ku24Partial, Step
  <2>2. /\ know.k \in Ints /\ know.a \in Ints /\ know.r \in Ints
        /\ know.beta \in Ints /\ know.x \in Ints /\ know.w \in Ints
        /\ know.mu \in Ints /\ know.tau \in Ints /\ know.t \in Ints
        /\ know.wSent \in Ints /\ know.R \in Field /\ know.kInv \in Ints
        /\ know.zero \in Ints
    BY <2>1 DEF Ku24Known, Has
  <2>3. s \in Ints
    <3> SUFFICES ASSUME NEW i \in Signers PROVE s[i] \in Int
      BY DEF Ints
    <3>1. /\ know.kInv[i] \in Int /\ know.x[i] \in Int /\ know.zero[i] \in Int /\ Off(i, "s") \in Int
          /\ digest \in Int /\ XCoord(know.R) \in Int
      BY <2>2, OffType, Operands, XCoordType, ScalarsType DEF Ints
    <3>2. digest + XCoord(know.R) * know.x[i] \in Int
      BY <3>1
    <3>3. know.kInv[i] * Fl(digest + XCoord(know.R) * know.x[i]) \in Int
      <4>1. Fl(digest + XCoord(know.R) * know.x[i]) \in Int
        BY <3>2, FlInt
      <4> QED BY <3>1, <4>1
    <3> QED BY <3>1, <3>3, FlInt
  <2>4. Step("ku24_sign_1", "ku24_sign_2", [s |-> s])
    BY <1>5 DEF Ku24Partial
  <2> HIDE DEF s
  <2>5. Ku24Known' /\ stage' \in Ku24Stages
    BY <1>s, <2>3, <2>4 DEF Step, With, Ku24Known, Has, Ku24Stages
  <2> QED BY <2>1, <2>5 DEF Ku24Stages
<1>6. CASE Ku24Combine
  <2> DEFINE s == Ku24Opened(know.s, 2 * Ku24Degree)
  <2>1. CASE Return("ku24_sign_2", Everyone(Refused))
    BY <2>1, RefusalLawful DEF Ku24Stages
  <2>2. CASE ~Return("ku24_sign_2", Everyone(Refused))
    <3>1. Step("ku24_sign_2", "ku24_sign_3", [s |-> s])
      BY <1>6, <2>2 DEF Ku24Combine
    <3>2. stage = "ku24_sign_2" /\ LawfulStep
      BY <3>1, StepLawful DEF Step
    <3>3. /\ know.k \in Ints /\ know.a \in Ints /\ know.r \in Ints
          /\ know.beta \in Ints /\ know.x \in Ints /\ know.w \in Ints
          /\ know.mu \in Ints /\ know.tau \in Ints /\ know.t \in Ints
          /\ know.wSent \in Ints /\ know.R \in Field /\ know.kInv \in Ints
          /\ know.zero \in Ints /\ know.s \in Ints
      BY <3>2 DEF Ku24Known, Has
    <3>4. s \in Field
      BY <3>3, Ku24OpenedType
    <3> HIDE DEF s
    <3>5. Ku24Known' /\ stage' \in Ku24Stages
      BY <1>s, <3>1, <3>4 DEF Step, With, Ku24Known, Has, Ku24Stages
    <3> QED BY <3>2, <3>5 DEF Ku24Stages
  <2> QED BY <2>1, <2>2
<1>7. CASE Ku24Finish
  <2>1. stage = "ku24_sign_3"
    BY <1>7 DEF Ku24Finish, Return
  <2>2. XCoord(know.R) \in Field /\ know.s \in Field
    BY <2>1, XCoordType DEF Ku24Known, Has
  <2> QED BY <1>7, <2>2, FinishLawful DEF Ku24Finish, Ku24Stages
<1> QED BY <1>1, <1>2, <1>3, <1>4, <1>5, <1>6, <1>7 DEF Ku24SignNext

LEMMA Ku24Staged ==
    ASSUME Ku24SignNext
    PROVE  stage \in Ku24Stages
  BY DEF Ku24SignNext, Ku24MultiplyOnce, Ku24MultiplyTwice, Ku24CheckTriple,
         Ku24Presign, Ku24Partial, Ku24Combine, Ku24Finish, Ku24Stages, Step,
         Pass, Return

-----------------------------------------------------------------------------
(* Shares of the products that signers leave each other with, and what is    *)
(* left of a product that is checked.                                        *)

\* What the masked multiplications of each pair leave the signers with adds up to
\* the product: no plaintext leaves the range around zero.
LEMMA Cggmp20Products ==
    ASSUME know.k \in [Signers -> Scalars], NEW b \in [Signers -> Field], NEW masks \in [Pairs -> Scalars]
    PROVE  Total([i \in Signers |-> Cggmp20ShareOf(i, b, masks)], Signers)
             = Fl(Total(know.k, Signers) * Total(b, Signers))
<1> DEFINE plain == [p \in Pairs |-> Cggmp20Alpha(p[1], b[p[2]], masks[<<p[2], p[1]>>])]
           kept == [p \in Pairs |-> masks[<<p[2], p[1]>>]]
           h == [i \in Signers |-> [j \in Others(i) |-> Cggmp20Alpha(i, b[j], masks[<<j, i>>]) + masks[<<i, j>>]]]
           g == [i \in Signers |-> Cggmp20ShareOf(i, b, masks)]
<1>0. /\ know.k \in Ints /\ b \in Ints
      /\ \A i \in Signers : know.k[i] \in Field /\ b[i] \in Field
  BY DrawnInts, ScalarsType DEF Ints
<1>1. ASSUME NEW p \in Pairs
      PROVE  /\ plain[p] \in Int /\ kept[p] \in Int
             /\ Fl(plain[p] + kept[p]) = Fl(know.k[p[1]] * b[p[2]])
  <2> DEFINE u == know.k[p[1]] * b[p[2]]
             m == masks[<<p[2], p[1]>>]
             e == u - m
  <2>1. p[1] \in Signers /\ p[2] \in Signers /\ <<p[2], p[1]>> \in Pairs
    BY PairsType
  <2>2. m \in Nat /\ m <= Q /\ u \in Nat /\ u <= Q * Q
    <3>1. know.k[p[1]] \in Nat /\ b[p[2]] \in Nat /\ know.k[p[1]] <= Q /\ b[p[2]] <= Q /\ Q \in Nat
      BY <1>0, <2>1, QAssumption DEF Field
    <3>2. m \in Nat /\ m <= Q
      BY <2>1, ScalarsType, QAssumption DEF Field
    <3> QED BY <3>1, <3>2, ProductBound
  <2>3. plain[p] = Signed(e, PaillierN) /\ kept[p] = m
    BY DEF Cggmp20Alpha
  <2> HIDE DEF u, m, plain, kept
  <2>4. e \in Int /\ e + m = u /\ 2 * e < PaillierN /\ -PaillierN <= 2 * e /\ PaillierN > 0
    BY <2>2, SpaceType
  <2> HIDE DEF e
  <2>5. Signed(e, PaillierN) = e
    BY <2>4, SpaceType, SignedAround
  <2> QED BY <2>2, <2>3, <2>4, <2>5 DEF u
<1>2. plain \in PairInts /\ kept \in PairInts
  <2>1. plain \in [Pairs -> Int] /\ kept \in [Pairs -> Int]
    BY <1>1
  <2> QED BY <2>1 DEF PairInts
<1>3. \A p \in Pairs : Fl(plain[p] + kept[p]) = Fl(know.k[p[1]] * b[p[2]])
  BY <1>1
<1>4. ASSUME NEW i \in Signers, NEW j \in Others(i)
      PROVE  h[i][j] = plain[<<i, j>>] + kept[<<j, i>>]
  <2>1. <<i, j>> \in Pairs /\ <<j, i>> \in Pairs
    BY OtherPairs
  <2> QED BY <2>1
<1>5. \A i \in Signers : \A j \in Others(i) : h[i][j] = plain[<<i, j>>] + kept[<<j, i>>]
  BY <1>4
<1>6. ASSUME NEW i \in Signers
      PROVE  g[i] \in Int /\ Fl(g[i]) = Fl(know.k[i] * b[i] + SumFunctionOnSet(h[i], Others(i)))
  <2>1. g[i] = Fl(b[i] * know.k[i] + SumFunctionOnSet(h[i], Others(i)))
    BY DEF Cggmp20ShareOf
  <2>2. \A j \in Others(i) : h[i][j] \in Int
    <3> SUFFICES ASSUME NEW j \in Others(i) PROVE h[i][j] \in Int
      OBVIOUS
    <3>1. <<i, j>> \in Pairs /\ <<j, i>> \in Pairs
      BY OtherPairs
    <3>2. plain[<<i, j>>] \in Int /\ kept[<<j, i>>] \in Int
      BY <1>1, <3>1
    <3>3. h[i][j] = plain[<<i, j>>] + kept[<<j, i>>]
      BY <1>5
    <3> HIDE DEF plain, kept, h
    <3> QED BY <3>2, <3>3
  <2> HIDE DEF h, g
  <2>3. SumFunctionOnSet(h[i], Others(i)) \in Int
    BY <2>2, OthersSum
  <2>4. know.k[i] * b[i] \in Int /\ b[i] * know.k[i] = know.k[i] * b[i]
    <3>1. know.k[i] \in Int /\ b[i] \in Int
      BY <1>0 DEF Ints
    <3> QED BY <3>1
  <2>5. know.k[i] * b[i] + SumFunctionOnSet(h[i], Others(i)) \in Int
    BY <2>3, <2>4
  <2> QED BY <2>1, <2>4, <2>5, FlInt, FlField
<1>7. g \in Ints
  <2>1. g \in [Signers -> Int]
    BY <1>6
  <2> QED BY <2>1 DEF Ints
<1> HIDE DEF plain, kept, h
<1>8. ProductShared(know.k, b, plain, kept, h, g)
  <2>1. \A i \in Signers : Fl(g[i]) = Fl(know.k[i] * b[i] + SumFunctionOnSet(h[i], Others(i)))
    BY <1>6
  <2> QED BY <1>0, <1>2, <1>3, <1>5, <1>7, <2>1 DEF ProductShared
<1> QED BY <1>8, ProductShares

\* The shares that MtA leaves add up to the product, unless a mask wraps.
LEMMA Ln18Products ==
    ASSUME NEW a \in [Signers -> Field], NEW b \in [Signers -> Field],
           NEW masks \in [Pairs -> Ln18MaskRange], ~Ln18Wraps(a, b, masks),
           NEW g \in Ints, \A i \in Signers : g[i] = Ln18Share(a, b, masks, i)
    PROVE  Total(g, Signers) = Fl(Total(a, Signers) * Total(b, Signers))
<1> DEFINE plain == [p \in Pairs |-> MtaSenderShare(a[p[1]], b[p[2]], masks[<<p[2], p[1]>>], PaillierN)]
           kept == [p \in Pairs |-> MtaReceiverShare(masks[<<p[2], p[1]>>])]
           h == [i \in Signers |-> [j \in Others(i) |->
                   MtaSenderShare(a[i], b[j], masks[<<j, i>>], PaillierN) + MtaReceiverShare(masks[<<i, j>>])]]
<1>1. /\ a \in Ints /\ b \in Ints
      /\ \A i \in Signers : a[i] \in Field /\ b[i] \in Field
  BY ScalarsType DEF Ints
<1>2. ASSUME NEW p \in Pairs
      PROVE  /\ plain[p] \in Int /\ kept[p] \in Int
             /\ Fl(plain[p] + kept[p]) = Fl(a[p[1]] * b[p[2]])
  <2> DEFINE x == a[p[1]] * b[p[2]]
             m == masks[<<p[2], p[1]>>]
             w == Signed(x + m, PaillierN)
  <2>1. p[1] \in Signers /\ p[2] \in Signers /\ <<p[2], p[1]>> \in Pairs
    BY PairsType
  <2>2. m \in Nat /\ 2 * m <= PaillierN
    BY <2>1, SigningAssumption, SpaceType DEF Ln18MaskRange
  <2>3. x \in Nat /\ 2 * x < PaillierN
    <3>1. a[p[1]] \in Nat /\ b[p[2]] \in Nat /\ a[p[1]] <= Q /\ b[p[2]] <= Q
      BY <1>1, <2>1, QAssumption DEF Field
    <3>2. x \in Nat /\ x <= Q * Q
      BY <3>1, ProductBound, QAssumption
    <3> QED BY <3>2, SpaceType
  <2>4. plain[p] = Fl(w)
    BY <2>1 DEF MtaSenderShare
  <2>5. ~(w < 0)
    BY <2>1 DEF Ln18Wraps
  <2>8. kept[p] = Neg(Fl(m))
    BY DEF MtaReceiverShare
  <2> HIDE DEF x, m
  <2>6. x + m \in Nat /\ x + m < PaillierN
    BY <2>2, <2>3, SpaceType
  <2>7. plain[p] = Fl(x + m)
    <3>1. w \in Int
      BY <2>6, SignedInt
    <3>2. w >= 0
      BY <2>5, <3>1
    <3>3. w = x + m
      BY <2>6, <3>2, Unwrapped, SpaceType
    <3> QED BY <2>4, <3>3
  <2>9. Fl(m) \in Field /\ Fl(m) \in Int /\ Neg(Fl(m)) \in Int /\ Fl(Neg(Fl(m))) = Fl(-Fl(m))
    BY <2>2, FlInt, NegType
  <2>12. Fl(x + m) \in Int /\ Fl(Fl(x + m)) = Fl(x + m)
    <3>1. x + m \in Int
      BY <2>6
    <3> QED BY <3>1, FlInt, FlField
  <2> HIDE DEF plain, kept
  <2>10. Fl(Fl(x + m) + Neg(Fl(m))) = Fl((x + m) + (-Fl(m)))
    <3> DEFINE y == x + m
    <3>1. y \in Int /\ Fl(y) \in Int /\ Fl(Fl(y)) = Fl(y)
      BY <2>6, <2>12
    <3> HIDE DEF y
    <3>2. Fl(Fl(y) + Neg(Fl(m))) = Fl(y + (-Fl(m)))
      BY <3>1, <2>9, FlSum
    <3> QED BY <3>2 DEF y
  <2>11. Fl((x + m) + (-Fl(m))) = Fl(x)
    <3>1. PICK k \in Int : m = k * Q + Fl(m)
      BY <2>2, FlQuotient
    <3>2. k * Q \in Int
      BY <3>1, QAssumption
    <3>3. (x + m) + (-Fl(m)) = x + k * Q
      BY <2>2, <2>3, <2>9, <3>1, <3>2
    <3> QED BY <2>3, <2>2, <2>9, <3>1, <3>3, FlUnique
  <2> QED BY <2>7, <2>8, <2>9, <2>10, <2>11, <2>12 DEF x
<1>3. plain \in PairInts /\ kept \in PairInts
  <2>1. plain \in [Pairs -> Int] /\ kept \in [Pairs -> Int]
    BY <1>2
  <2> QED BY <2>1 DEF PairInts
<1>4. \A p \in Pairs : Fl(plain[p] + kept[p]) = Fl(a[p[1]] * b[p[2]])
  BY <1>2
<1>5. ASSUME NEW i \in Signers, NEW j \in Others(i)
      PROVE  h[i][j] = plain[<<i, j>>] + kept[<<j, i>>]
  <2>1. <<i, j>> \in Pairs /\ <<j, i>> \in Pairs
    BY OtherPairs
  <2> QED BY <2>1
<1>6. \A i \in Signers : \A j \in Others(i) : h[i][j] = plain[<<i, j>>] + kept[<<j, i>>]
  BY <1>5
<1>7. ASSUME NEW i \in Signers
      PROVE  Fl(g[i]) = Fl(a[i] * b[i] + SumFunctionOnSet(h[i], Others(i)))
  <2>1. g[i] = Fl(a[i] * b[i] + SumFunctionOnSet(h[i], Others(i)))
    BY DEF Ln18Share
  <2>2. \A j \in Others(i) : h[i][j] \in Int
    <3> SUFFICES ASSUME NEW j \in Others(i) PROVE h[i][j] \in Int
      OBVIOUS
    <3>1. <<i, j>> \in Pairs /\ <<j, i>> \in Pairs
      BY OtherPairs
    <3>2. plain[<<i, j>>] \in Int /\ kept[<<j, i>>] \in Int
      BY <1>2, <3>1
    <3>3. h[i][j] = plain[<<i, j>>] + kept[<<j, i>>]
      BY <1>6
    <3> HIDE DEF plain, kept, h
    <3> QED BY <3>2, <3>3
  <2> HIDE DEF h
  <2>3. SumFunctionOnSet(h[i], Others(i)) \in Int
    BY <2>2, OthersSum
  <2>4. a[i] * b[i] \in Int
    <3>1. a[i] \in Int /\ b[i] \in Int
      BY <1>1, ScalarsType
    <3> QED BY <3>1
  <2>5. a[i] * b[i] + SumFunctionOnSet(h[i], Others(i)) \in Int
    BY <2>3, <2>4
  <2> QED BY <2>1, <2>5, FlType, FlField
<1> HIDE DEF plain, kept, h
<1>9. ProductShared(a, b, plain, kept, h, g)
  BY <1>1, <1>3, <1>4, <1>6, <1>7 DEF ProductShared
<1> QED BY <1>9, ProductShares

\* So do those that signers that are not faulty put into a multiplication.
LEMMA Ln18SharesAdd ==
    ASSUME Session, NEW a \in [Signers -> Field], NEW b \in [Signers -> Field],
           NEW masks \in [Pairs -> Ln18MaskRange], ~Ln18Wraps(a, b, masks), NEW product
    PROVE  /\ Total(Ln18Multiply(a, b, masks), Signers) = Fl(Total(a, Signers) * Total(b, Signers))
           /\ bent = Straight => Total(Ln18Shares(product, a, b, masks), Signers)
                                 = Fl(Total(a, Signers) * Total(b, Signers))
<1>1. /\ a \in Ints /\ b \in Ints /\ masks \in PairInts
  BY DrawnInts, ScalarsType DEF Ints, PairInts, Ln18MaskRange
<1>2. ASSUME NEW g \in Ints, \A i \in Signers : g[i] = Ln18Share(a, b, masks, i)
      PROVE  Total(g, Signers) = Fl(Total(a, Signers) * Total(b, Signers))
  BY <1>2, Ln18Products
<1>3. /\ Ln18Multiply(a, b, masks) \in Ints /\ Ln18Shares(product, a, b, masks) \in Ints
  BY <1>1, Ln18SharesType
<1>4. \A i \in Signers : Ln18Multiply(a, b, masks)[i] = Ln18Share(a, b, masks, i)
  BY DEF Ln18Multiply
<1>5. ASSUME bent = Straight
      PROVE  Total(Ln18Shares(product, a, b, masks), Signers) = Total(Ln18Multiply(a, b, masks), Signers)
  <2> DEFINE g == Ln18Shares(product, a, b, masks)
             h == Ln18Multiply(a, b, masks)
  <2>1. ASSUME NEW i \in Signers
        PROVE  g[i] \in Int /\ h[i] \in Int /\ Fl(g[i]) = Fl(h[i])
    <3>1. g[i] = Fl(h[i] + (IF know.fault = product THEN bent[i] ELSE 0))
      BY DEF Ln18Shares, Ln18Multiply
    <3>2. (IF know.fault = product THEN bent[i] ELSE 0) = 0
      BY <1>5 DEF Straight
    <3>3. h[i] \in Int
      BY <1>3 DEF Ints
    <3> HIDE DEF g, h
    <3>4. g[i] = Fl(h[i])
      BY <3>1, <3>2, <3>3
    <3> QED BY <3>3, <3>4, FlInt, FlField
  <2> HIDE DEF g, h
  <2>2. Total(g, Signers) = Total(h, Signers)
    BY <2>1, SignersType, TotalSame
  <2> QED BY <2>2 DEF g, h
<1> QED BY <1>2, <1>3, <1>4, <1>5

\* Nothing is left of a product when the shares of it add up to it.
LEMMA Ln18NothingLeft ==
    ASSUME NEW a \in Ints, NEW b \in Ints, NEW c \in Ints,
           Total(c, Signers) = Fl(Total(a, Signers) * Total(b, Signers))
    PROVE  Ln18CheckDh(Ln18Left(a, b, c))
<1> DEFINE x == Total(a, Signers)
           y == Total(b, Signers)
           z == Total(c, Signers)
           d == x * y
<1>1. x \in Int /\ y \in Int /\ z \in Int
  BY IntsType DEF Ints
<1>2. Ln18Left(a, b, c) = Fl(d - z) /\ z = Fl(d)
  BY DEF Ln18Left
<1> HIDE DEF x, y, z
<1>3. d \in Int
  BY <1>1
<1> HIDE DEF d
<1>4. Fl(d - z) = 0
  <2>1. Fl(d) = Fl(z)
    BY <1>2, <1>3, FlInt, FlField
  <2>2. Fl(z - d) = Fl(z - z) /\ Fl(d - d) = Fl(d - z)
    BY <1>1, <1>3, <2>1, FlMinus
  <2>3. d - d = 0 /\ Fl(0) = 0
    BY <1>3, QAssumption DEF Fl
  <2> QED BY <2>2, <2>3
<1>5. ASSUME NEW z0 \in Ln18Rerandomizers
      PROVE  Fl(0 * Total(z0, Signers)) = 0
  <2> DEFINE t == Total(z0, Signers)
  <2>1. t \in Int
    BY DrawnInts, IntsType DEF Ln18Rerandomizers, Ints
  <2> HIDE DEF t
  <2>2. 0 * t = 0 /\ Fl(0) = 0
    BY <2>1, QAssumption DEF Fl
  <2> QED BY <2>2 DEF t
<1> QED BY <1>2, <1>4, <1>5 DEF Ln18CheckDh

\* What a signer reveals of its products in presigning is Gamma to its nonce.
LEMMA Wmy23Opened ==
    ASSUME know.k \in Ints, know.gamma \in Ints, know.beta \in PairInts, know.delta \in Ints,
           NEW j \in Signers, know.delta[j] = Fl(Wmy23ShareOf(j, know.gamma, know.beta)),
           know.D[j] = Fl(Total(know.gamma, Signers) * know.k[j])
    PROVE  Wmy23Equation2(j)
<1> DEFINE c == know.k[j]
           y == know.gamma
           b == know.k[j] * y[j]
           f == [l \in Others(j) |-> Wmy23Alpha(j, l, know.gamma, know.beta) + know.beta[<<j, l>>]]
           g == [l \in Others(j) |-> know.beta[<<l, j>>] + Neg(know.beta[<<j, l>>])]
           F == SumFunctionOnSet(f, Others(j))
           G == SumFunctionOnSet(g, Others(j))
<1>1. c \in Int /\ y \in Ints /\ y[j] \in Int /\ b \in Int
  <2>1. c \in Int /\ y[j] \in Int
    BY DEF Ints
  <2> QED BY <2>1
<1>2. ASSUME NEW l \in Others(j)
      PROVE  f[l] \in Int /\ g[l] \in Int /\ Fl(f[l] + g[l]) = Fl(c * y[l])
  <2> DEFINE p == know.beta[<<l, j>>]
             q == know.beta[<<j, l>>]
             u == c * y[l]
             a == u + Neg(p)
  <2>1. p \in Int /\ q \in Int /\ y[l] \in Int /\ u \in Int /\ Neg(p) \in Int /\ Neg(q) \in Int
    <3>1. p \in Int /\ q \in Int /\ y[l] \in Int
      BY OtherPairs DEF Ints, PairInts
    <3> QED BY <1>1, <3>1, FlInt
  <2>2. f[l] = Fl(a) + q /\ g[l] = p + Neg(q)
    BY DEF Wmy23Alpha
  <2> HIDE DEF p, q, u, f, g
  <2>3. a \in Int
    BY <2>1
  <2>4. Fl(a) \in Int /\ Fl(a) = Fl(u - p)
    BY <2>1, <2>3, FlInt, FlNeg
  <2> HIDE DEF a
  <2>5. f[l] \in Int /\ g[l] \in Int
    BY <2>1, <2>2, <2>4
  <2>6. f[l] + g[l] = Fl(a) + (q + (p + Neg(q)))
    BY <2>1, <2>2, <2>4
  <2> DEFINE t == q + (p + Neg(q))
             z == q + p
             up == u - p
  <2>7. t \in Int /\ t = z + Neg(q) /\ z \in Int /\ up \in Int /\ z - q = p /\ up + p = u
    BY <2>1
  <2> HIDE DEF t, z, up
  <2>8. Fl(t) = Fl(p)
    BY <2>1, <2>7, FlNeg
  <2>9. Fl(Fl(a)) = Fl(up)
    BY <2>3, <2>4, <2>7, FlInt, FlField DEF up
  <2>10. Fl(Fl(a) + t) = Fl(up + p)
    <3> DEFINE fa == Fl(a)
    <3>1. fa \in Int /\ t \in Int /\ up \in Int /\ p \in Int /\ Fl(fa) = Fl(up) /\ Fl(t) = Fl(p)
      BY <2>1, <2>4, <2>7, <2>8, <2>9
    <3> HIDE DEF fa
    <3>2. Fl(fa + t) = Fl(up + p)
      BY <3>1, FlSum
    <3> QED BY <3>2 DEF fa
  <2> QED BY <2>5, <2>6, <2>7, <2>10 DEF t, u
<1>3. know.delta[j] = Fl(Fl(b + F))
  BY DEF Wmy23ShareOf
<1>4. Total(y, Signers) \in Int /\ \A l \in Others(j) : f[l] \in Int /\ g[l] \in Int
  BY <1>1, <1>2, IntsType DEF Ints
<1> HIDE DEF f, g
<1>5. F \in Int /\ G \in Int
  BY <1>4, OthersSum
<1>6. Fl((b + F) + G) = Fl(c * Total(y, Signers))
  <2>1. b = c * y[j]
    OBVIOUS
  <2>2. Multiplied(j, c, y, b, f, g)
    BY <1>1, <1>2, <2>1 DEF Multiplied
  <2> HIDE DEF b, c, y, F, G
  <2>3. Fl((b + SumFunctionOnSet(f, Others(j))) + SumFunctionOnSet(g, Others(j)))
          = Fl(c * Total(y, Signers))
    BY <2>2, OneAndOthers
  <2> QED BY <2>3 DEF F, G
<1> HIDE DEF F, G, b
<1>7. b + F \in Int
  BY <1>1, <1>5
<1>8. Fl(know.delta[j] + G) = Fl((b + F) + G)
  <2> DEFINE bf == b + F
  <2> HIDE DEF bf
  <2>1. bf \in Int /\ know.delta[j] = Fl(Fl(bf)) /\ Fl(bf) \in Int /\ Fl(Fl(bf)) = Fl(bf)
    BY <1>3, <1>7, FlInt, FlField DEF bf
  <2>2. Fl(Fl(bf) + G) = Fl(bf + G)
    BY <1>5, <2>1, FlAdd
  <2> QED BY <2>1, <2>2 DEF bf
<1>9. c * Total(y, Signers) = Total(y, Signers) * c
  BY <1>1, <1>4
<1> QED BY <1>6, <1>8, <1>9 DEF Wmy23Equation2, G, g, F, f

\* A sharing of zero changes nothing that T signers open.
LEMMA Tx25ZeroVanishes ==
    ASSUME NEW S \in SUBSET Signers, Cardinality(S) >= T, NEW slope \in Blinds,
           NEW y, NEW h,
           \A j \in S : y[j] \in Int /\ h[j] \in Int /\ Fl(h[j]) = Fl(y[j] + Tx25ZeroAt(slope, j))
    PROVE  Reconstruct(h, S) = Reconstruct(y, S)
<1> DEFINE zero == [d \in 0 .. T - 1 |-> IF d = 0 THEN 0 ELSE slope]
           z == [j \in S |-> Tx25ZeroAt(slope, j)]
           Y == Reconstruct(y, S)
           one == 1
<1>1. zero \in Polynomials(T) /\ zero[0] = 0 /\ \A j \in S : z[j] = Eval(zero, j) /\ z[j] \in Int
  BY Tx25ZeroPolynomial, SignersSubset
<1>2. \A j \in S : z[j] = Tx25ZeroAt(slope, j)
  OBVIOUS
<1> HIDE DEF zero, z
<1>3. Reconstruct(z, S) = 0
  BY <1>1, SignersSubset, Interpolation
<1>4. Y \in Field /\ Y \in Int
  BY ReconstructInt
<1>5. \A j \in S : /\ y[j] \in Int /\ z[j] \in Int /\ h[j] \in Int
                   /\ Fl(h[j]) = Fl(one * y[j] + one * z[j])
  <2> SUFFICES ASSUME NEW j \in S
               PROVE  /\ y[j] \in Int /\ z[j] \in Int /\ h[j] \in Int
                      /\ Fl(h[j]) = Fl(one * y[j] + one * z[j])
    OBVIOUS
  <2>1. one * y[j] = y[j] /\ one * z[j] = z[j]
    BY <1>1
  <2> QED BY <1>1, <1>2, <2>1
<1>6. one \in Int
  OBVIOUS
<1> HIDE DEF one, Y
<1>7. Reconstruct(h, S) = Fl(one * Y + one * Reconstruct(z, S))
  BY <1>5, <1>6, SignersSubset, ReconstructLinear DEF Y
<1>8. one * Y + one * Reconstruct(z, S) = Y
  BY <1>3, <1>4 DEF one
<1> QED BY <1>4, <1>7, <1>8, FlField DEF Y

\* What everyone can compute of a signer's products: they are b, off by e at v.
Tx25Checked(j, mask, table, b, v, e) ==
    /\ j \in Signers /\ v \in Signers /\ e \in Int /\ mask \in PairInts
    /\ \A n \in Signers :
          /\ b[n] \in Int /\ table[n] \in Int
          /\ Fl(table[n] + IF n = j THEN 0 ELSE mask[<<n, j>>] + Neg(mask[<<j, n>>]))
               = Fl(b[n] + IF n = v THEN e ELSE 0)

\* It comes to what b does unless it is off.
LEMMA Tx25Recheck ==
    ASSUME NEW j, NEW mask, NEW table, NEW b, NEW v, NEW e, Tx25Checked(j, mask, table, b, v, e)
    PROVE  Tx25Recomputed(j, mask, table) = Reconstruct(b, Signers) <=> Fl(e) = 0
<1> DEFINE a == [n \in Signers |-> table[n] + IF n = j THEN 0 ELSE mask[<<n, j>>] + Neg(mask[<<j, n>>])]
           L == [n \in Signers |-> Lagrange(Signers, n)]
           la == [n \in Signers |-> L[n] * a[n]]
           g == [n \in Signers |-> Fl(a[n])]
           f == [n \in Signers |-> Fl(b[n])]
           lg == [n \in Signers |-> g[n] * L[n]]
           lf == [n \in Signers |-> f[n] * L[n]]
           lb == [n \in Signers |-> b[n] * L[n]]
<1>1. ASSUME NEW n \in Signers
      PROVE  /\ a[n] \in Int /\ b[n] \in Int /\ L[n] \in Int
             /\ Fl(a[n]) = Fl(b[n] + IF n = v THEN e ELSE 0)
  <2>1. /\ table[n] \in Int /\ b[n] \in Int /\ L[n] \in Int
        /\ Fl(a[n]) = Fl(b[n] + IF n = v THEN e ELSE 0)
    BY LagrangeInt DEF Tx25Checked
  <2>2. CASE n = j
    BY <2>1, <2>2
  <2>3. CASE n # j
    <3>1. <<n, j>> \in Pairs /\ <<j, n>> \in Pairs
      BY <2>3 DEF Tx25Checked, Pairs
    <3>2. mask[<<n, j>>] \in Int /\ mask[<<j, n>>] \in Int
      BY <3>1 DEF Tx25Checked, PairInts
    <3>3. Neg(mask[<<j, n>>]) \in Int
      BY <3>2, FlInt
    <3>4. a[n] = table[n] + (mask[<<n, j>>] + Neg(mask[<<j, n>>]))
      BY <2>3
    <3> HIDE DEF a
    <3> QED BY <2>1, <3>2, <3>3, <3>4
  <2> QED BY <2>2, <2>3
<1>2. Tx25Recomputed(j, mask, table) = Total(la, Signers)
  BY DEF Tx25Recomputed
<1>3. Reconstruct(g, Signers) = Total(lg, Signers) /\ Reconstruct(f, Signers) = Total(lf, Signers)
      /\ Reconstruct(b, Signers) = Total(lb, Signers)
  BY DEF Reconstruct
<1>4. \A n \in Signers : /\ la[n] = L[n] * a[n] /\ lg[n] = g[n] * L[n] /\ g[n] = Fl(a[n])
                         /\ lf[n] = f[n] * L[n] /\ lb[n] = b[n] * L[n] /\ f[n] = Fl(b[n])
  OBVIOUS
<1> HIDE DEF a, L, la, g, f, lg, lf, lb
<1>5. ASSUME NEW n \in Signers
      PROVE  /\ la[n] \in Int /\ lg[n] \in Int /\ Fl(la[n]) = Fl(lg[n])
             /\ lf[n] \in Int /\ lb[n] \in Int /\ Fl(lf[n]) = Fl(lb[n])
             /\ f[n] \in Field /\ g[n] \in Field
  <2> DEFINE an == a[n]
             bn == b[n]
             Ln == L[n]
             ga == Fl(an)
             fb == Fl(bn)
  <2>1. an \in Int /\ bn \in Int /\ Ln \in Int
    BY <1>1
  <2> HIDE DEF an, bn, Ln
  <2>2. ga \in Int /\ ga \in Field /\ fb \in Int /\ fb \in Field /\ Fl(ga) = Fl(an) /\ Fl(fb) = Fl(bn)
    BY <2>1, FlInt, FlField
  <2> HIDE DEF ga, fb
  <2>3. /\ Fl(ga * Ln) = Fl(an * Ln) /\ Fl(fb * Ln) = Fl(bn * Ln)
        /\ an * Ln = Ln * an
        /\ Ln * an \in Int /\ ga * Ln \in Int /\ fb * Ln \in Int /\ bn * Ln \in Int
    <3>1. Fl(ga * Ln) = Fl(an * Ln)
      BY <2>1, <2>2, FlScale
    <3>2. Fl(fb * Ln) = Fl(bn * Ln)
      BY <2>1, <2>2, FlScale
    <3>3. an * Ln = Ln * an /\ Ln * an \in Int /\ ga * Ln \in Int /\ fb * Ln \in Int /\ bn * Ln \in Int
      BY <2>1, <2>2
    <3> QED BY <3>1, <3>2, <3>3
  <2>4. /\ la[n] = Ln * an /\ lg[n] = ga * Ln /\ lf[n] = fb * Ln /\ lb[n] = bn * Ln
        /\ f[n] = fb /\ g[n] = ga
    BY <1>4 DEF an, bn, Ln, ga, fb
  <2> QED BY <2>2, <2>3, <2>4
<1>6. Tx25Recomputed(j, mask, table) = Reconstruct(g, Signers)
  <2>1. Total(la, Signers) = Total(lg, Signers)
    BY <1>5, SignersType, TotalSame
  <2> QED BY <1>2, <1>3, <2>1
<1>7. Reconstruct(b, Signers) = Reconstruct(f, Signers)
  <2>1. Total(lf, Signers) = Total(lb, Signers)
    BY <1>5, SignersType, TotalSame
  <2> QED BY <1>3, <2>1
<1>8. \A n \in Signers : n # v => f[n] = g[n]
  <2> SUFFICES ASSUME NEW n \in Signers, n # v PROVE f[n] = g[n]
    OBVIOUS
  <2>1. Fl(a[n]) = Fl(b[n] + 0) /\ b[n] + 0 = b[n]
    BY <1>1
  <2> QED BY <1>4, <2>1
<1>9. f[v] = g[v] <=> Fl(e) = 0
  <2>1. v \in Signers /\ e \in Int
    BY DEF Tx25Checked
  <2>2. g[v] = Fl(b[v] + e) /\ f[v] = Fl(b[v]) /\ b[v] \in Int
    BY <1>1, <1>4, <2>1
  <2> QED BY <2>1, <2>2, FlAddsNothing
<1>10. ASSUME Fl(e) = 0 PROVE Reconstruct(g, Signers) = Reconstruct(f, Signers)
  <2>1. \A n \in Signers : f[n] = g[n]
    BY <1>8, <1>9, <1>10
  <2>2. \A n \in Signers : lf[n] = lg[n]
    BY <1>4, <2>1
  <2>3. \A n \in Signers : lf[n] \in Int /\ lg[n] \in Int /\ Fl(lf[n]) = Fl(lg[n])
    BY <1>5, <2>2
  <2> QED BY <1>3, <2>3, SignersType, TotalSame
<1>11. ASSUME Reconstruct(g, Signers) = Reconstruct(f, Signers) PROVE Fl(e) = 0
  <2>1. v \in Signers
    BY DEF Tx25Checked
  <2>2. \A n \in Signers \ {v} : f[n] = g[n]
    BY <1>8
  <2>3. \A n \in Signers : f[n] \in Field /\ g[n] \in Field
    BY <1>5
  <2>4. f[v] = g[v]
    BY <1>11, <2>1, <2>2, <2>3, SignersType, ReconstructOneWrong
  <2> QED BY <1>9, <2>4
<1> QED BY <1>6, <1>7, <1>10, <1>11

-----------------------------------------------------------------------------
(* The suite.                                                                *)

Stages == Gg18Stages \cup Dkls23Stages \cup Ggn16Stages \cup Cggmp20Stages \cup Lin17Stages \cup
          Xal21Stages \cup Kgg24Stages \cup Abc24Stages \cup
          Ln18Stages \cup Wmc24Stages \cup Wmy23Stages \cup
          Tx25Stages \cup Jtx25Stages \cup Llz25Stages \cup TroutStages \cup Xal23Stages \cup Ku24Stages

\* What holds all along: nobody is answered before the session ends, and at
\* each stage the machines know what its protocol needs of them.
SuiteInv ==
    /\ Session
    /\ stage \in Stages \cup {"ended"}
    /\ stage \in Gg18Stages => Gg18Known
    /\ stage \in Dkls23Stages => Dkls23Known
    /\ stage \in Ggn16Stages => Ggn16Known
    /\ stage \in Cggmp20Stages => Cggmp20Known
    /\ stage \in Lin17Stages => Lin17Known
    /\ stage \in Xal21Stages => Xal21Known
    /\ stage \in Kgg24Stages => Kgg24Known
    /\ stage \in Abc24Stages => Abc24Known
    /\ stage \in Ln18Stages => Ln18Known
    /\ stage \in Wmc24Stages => Wmc24Known
    /\ stage \in Wmy23Stages => Wmy23Known
    /\ stage \in Tx25Stages => Tx25Known
    /\ stage \in Jtx25Stages => Jtx25Known
    /\ stage \in Llz25Stages => Llz25Known
    /\ stage \in TroutStages => TroutKnown
    /\ stage \in Xal23Stages => Xal23Known
    /\ stage \in Ku24Stages => Ku24Known

\* A stage belongs to one protocol.
LEMMA StagesDistinct ==
    ASSUME NEW s
    PROVE  /\ "ended" \notin Stages
           /\ s \in Gg18Stages => s \notin Dkls23Stages /\ s \notin Ggn16Stages /\ s \notin Cggmp20Stages /\ s \notin Lin17Stages /\ s \notin Xal21Stages /\ s \notin Kgg24Stages /\ s \notin Abc24Stages /\ s \notin Ln18Stages /\ s \notin Wmc24Stages /\ s \notin Wmy23Stages /\ s \notin Tx25Stages /\ s \notin Jtx25Stages /\ s \notin Llz25Stages /\ s \notin TroutStages /\ s \notin Xal23Stages /\ s \notin Ku24Stages
           /\ s \in Dkls23Stages => s \notin Gg18Stages /\ s \notin Ggn16Stages /\ s \notin Cggmp20Stages /\ s \notin Lin17Stages /\ s \notin Xal21Stages /\ s \notin Kgg24Stages /\ s \notin Abc24Stages /\ s \notin Ln18Stages /\ s \notin Wmc24Stages /\ s \notin Wmy23Stages /\ s \notin Tx25Stages /\ s \notin Jtx25Stages /\ s \notin Llz25Stages /\ s \notin TroutStages /\ s \notin Xal23Stages /\ s \notin Ku24Stages
           /\ s \in Ggn16Stages => s \notin Gg18Stages /\ s \notin Dkls23Stages /\ s \notin Cggmp20Stages /\ s \notin Lin17Stages /\ s \notin Xal21Stages /\ s \notin Kgg24Stages /\ s \notin Abc24Stages /\ s \notin Ln18Stages /\ s \notin Wmc24Stages /\ s \notin Wmy23Stages /\ s \notin Tx25Stages /\ s \notin Jtx25Stages /\ s \notin Llz25Stages /\ s \notin TroutStages /\ s \notin Xal23Stages /\ s \notin Ku24Stages
           /\ s \in Cggmp20Stages => s \notin Gg18Stages /\ s \notin Dkls23Stages /\ s \notin Ggn16Stages /\ s \notin Lin17Stages /\ s \notin Xal21Stages /\ s \notin Kgg24Stages /\ s \notin Abc24Stages /\ s \notin Ln18Stages /\ s \notin Wmc24Stages /\ s \notin Wmy23Stages /\ s \notin Tx25Stages /\ s \notin Jtx25Stages /\ s \notin Llz25Stages /\ s \notin TroutStages /\ s \notin Xal23Stages /\ s \notin Ku24Stages
           /\ s \in Lin17Stages => s \notin Gg18Stages /\ s \notin Dkls23Stages /\ s \notin Ggn16Stages /\ s \notin Cggmp20Stages /\ s \notin Xal21Stages /\ s \notin Kgg24Stages /\ s \notin Abc24Stages /\ s \notin Ln18Stages /\ s \notin Wmc24Stages /\ s \notin Wmy23Stages /\ s \notin Tx25Stages /\ s \notin Jtx25Stages /\ s \notin Llz25Stages /\ s \notin TroutStages /\ s \notin Xal23Stages /\ s \notin Ku24Stages
           /\ s \in Xal21Stages => s \notin Gg18Stages /\ s \notin Dkls23Stages /\ s \notin Ggn16Stages /\ s \notin Cggmp20Stages /\ s \notin Lin17Stages /\ s \notin Kgg24Stages /\ s \notin Abc24Stages /\ s \notin Ln18Stages /\ s \notin Wmc24Stages /\ s \notin Wmy23Stages /\ s \notin Tx25Stages /\ s \notin Jtx25Stages /\ s \notin Llz25Stages /\ s \notin TroutStages /\ s \notin Xal23Stages /\ s \notin Ku24Stages
           /\ s \in Kgg24Stages => s \notin Gg18Stages /\ s \notin Dkls23Stages /\ s \notin Ggn16Stages /\ s \notin Cggmp20Stages /\ s \notin Lin17Stages /\ s \notin Xal21Stages /\ s \notin Abc24Stages /\ s \notin Ln18Stages /\ s \notin Wmc24Stages /\ s \notin Wmy23Stages /\ s \notin Tx25Stages /\ s \notin Jtx25Stages /\ s \notin Llz25Stages /\ s \notin TroutStages /\ s \notin Xal23Stages /\ s \notin Ku24Stages
           /\ s \in Abc24Stages => s \notin Gg18Stages /\ s \notin Dkls23Stages /\ s \notin Ggn16Stages /\ s \notin Cggmp20Stages /\ s \notin Lin17Stages /\ s \notin Xal21Stages /\ s \notin Kgg24Stages /\ s \notin Ln18Stages /\ s \notin Wmc24Stages /\ s \notin Wmy23Stages /\ s \notin Tx25Stages /\ s \notin Jtx25Stages /\ s \notin Llz25Stages /\ s \notin TroutStages /\ s \notin Xal23Stages /\ s \notin Ku24Stages
           /\ s \in Ln18Stages => s \notin Gg18Stages /\ s \notin Dkls23Stages /\ s \notin Ggn16Stages /\ s \notin Cggmp20Stages /\ s \notin Lin17Stages /\ s \notin Xal21Stages /\ s \notin Kgg24Stages /\ s \notin Abc24Stages /\ s \notin Wmc24Stages /\ s \notin Wmy23Stages /\ s \notin Tx25Stages /\ s \notin Jtx25Stages /\ s \notin Llz25Stages /\ s \notin TroutStages /\ s \notin Xal23Stages /\ s \notin Ku24Stages
           /\ s \in Wmc24Stages => s \notin Gg18Stages /\ s \notin Dkls23Stages /\ s \notin Ggn16Stages /\ s \notin Cggmp20Stages /\ s \notin Lin17Stages /\ s \notin Xal21Stages /\ s \notin Kgg24Stages /\ s \notin Abc24Stages /\ s \notin Ln18Stages /\ s \notin Wmy23Stages /\ s \notin Tx25Stages /\ s \notin Jtx25Stages /\ s \notin Llz25Stages /\ s \notin TroutStages /\ s \notin Xal23Stages /\ s \notin Ku24Stages
           /\ s \in Wmy23Stages => s \notin Gg18Stages /\ s \notin Dkls23Stages /\ s \notin Ggn16Stages /\ s \notin Cggmp20Stages /\ s \notin Lin17Stages /\ s \notin Xal21Stages /\ s \notin Kgg24Stages /\ s \notin Abc24Stages /\ s \notin Ln18Stages /\ s \notin Wmc24Stages /\ s \notin Tx25Stages /\ s \notin Jtx25Stages /\ s \notin Llz25Stages /\ s \notin TroutStages /\ s \notin Xal23Stages /\ s \notin Ku24Stages
           /\ s \in Tx25Stages => s \notin Gg18Stages /\ s \notin Dkls23Stages /\ s \notin Ggn16Stages /\ s \notin Cggmp20Stages /\ s \notin Lin17Stages /\ s \notin Xal21Stages /\ s \notin Kgg24Stages /\ s \notin Abc24Stages /\ s \notin Ln18Stages /\ s \notin Wmc24Stages /\ s \notin Wmy23Stages /\ s \notin Jtx25Stages /\ s \notin Llz25Stages /\ s \notin TroutStages /\ s \notin Xal23Stages /\ s \notin Ku24Stages
           /\ s \in Jtx25Stages => s \notin Gg18Stages /\ s \notin Dkls23Stages /\ s \notin Ggn16Stages /\ s \notin Cggmp20Stages /\ s \notin Lin17Stages /\ s \notin Xal21Stages /\ s \notin Kgg24Stages /\ s \notin Abc24Stages /\ s \notin Ln18Stages /\ s \notin Wmc24Stages /\ s \notin Wmy23Stages /\ s \notin Tx25Stages /\ s \notin Llz25Stages /\ s \notin TroutStages /\ s \notin Xal23Stages /\ s \notin Ku24Stages
           /\ s \in Llz25Stages => s \notin Gg18Stages /\ s \notin Dkls23Stages /\ s \notin Ggn16Stages /\ s \notin Cggmp20Stages /\ s \notin Lin17Stages /\ s \notin Xal21Stages /\ s \notin Kgg24Stages /\ s \notin Abc24Stages /\ s \notin Ln18Stages /\ s \notin Wmc24Stages /\ s \notin Wmy23Stages /\ s \notin Tx25Stages /\ s \notin Jtx25Stages /\ s \notin TroutStages /\ s \notin Xal23Stages /\ s \notin Ku24Stages
           /\ s \in TroutStages => s \notin Gg18Stages /\ s \notin Dkls23Stages /\ s \notin Ggn16Stages /\ s \notin Cggmp20Stages /\ s \notin Lin17Stages /\ s \notin Xal21Stages /\ s \notin Kgg24Stages /\ s \notin Abc24Stages /\ s \notin Ln18Stages /\ s \notin Wmc24Stages /\ s \notin Wmy23Stages /\ s \notin Tx25Stages /\ s \notin Jtx25Stages /\ s \notin Llz25Stages /\ s \notin Xal23Stages /\ s \notin Ku24Stages
           /\ s \in Xal23Stages => s \notin Gg18Stages /\ s \notin Dkls23Stages /\ s \notin Ggn16Stages /\ s \notin Cggmp20Stages /\ s \notin Lin17Stages /\ s \notin Xal21Stages /\ s \notin Kgg24Stages /\ s \notin Abc24Stages /\ s \notin Ln18Stages /\ s \notin Wmc24Stages /\ s \notin Wmy23Stages /\ s \notin Tx25Stages /\ s \notin Jtx25Stages /\ s \notin Llz25Stages /\ s \notin TroutStages /\ s \notin Ku24Stages
           /\ s \in Ku24Stages => s \notin Gg18Stages /\ s \notin Dkls23Stages /\ s \notin Ggn16Stages /\ s \notin Cggmp20Stages /\ s \notin Lin17Stages /\ s \notin Xal21Stages /\ s \notin Kgg24Stages /\ s \notin Abc24Stages /\ s \notin Ln18Stages /\ s \notin Wmc24Stages /\ s \notin Wmy23Stages /\ s \notin Tx25Stages /\ s \notin Jtx25Stages /\ s \notin Llz25Stages /\ s \notin TroutStages /\ s \notin Xal23Stages
  BY DEF Stages, Gg18Stages, Dkls23Stages, Ggn16Stages, Cggmp20Stages, Lin17Stages,
         Xal21Stages, Kgg24Stages, Abc24Stages, Ln18Stages, Wmc24Stages,
         Wmy23Stages, Tx25Stages, Jtx25Stages, Llz25Stages, TroutStages,
         Xal23Stages, Ku24Stages

LEMMA BeginSession ==
    ASSUME NEW f \in Sharings, key = f[0], digest \in Digests, bent \in Bent,
           answer = [i \in Signers |-> Waiting]
    PROVE  Session
<1>1. key \in Field /\ digest \in Field
  BY BeginType, SigningAssumption
<1>2. bent \in [Signers -> Field]
  <2>1. PICK i \in Signers, e \in Bends : bent = [Straight EXCEPT ![i] = e]
    BY DEF Bent
  <2>2. e \in Field /\ 0 \in Field
    BY SigningAssumption, QAssumption DEF Field
  <2> QED BY <2>1, <2>2 DEF Straight
<1> QED BY <1>1, <1>2 DEF Session

LEMMA TwoSigners == Cardinality(Signers) >= 2
<1>1. IsFiniteSet(Parties)
  <2>1. IsFiniteSet(1 .. Q - 1)
    BY QAssumption, FS_Interval
  <2> QED BY <2>1, SigningAssumption, FS_Subset
<1>2. /\ Cardinality(Quorum) \in Nat /\ Cardinality(Parties) \in Nat
      /\ Cardinality(Quorum) <= Cardinality(Parties)
  BY <1>1, SigningAssumption, FS_Subset, FS_CardinalityType
<1> QED BY <1>2, QuorumAssumption DEF Signers

LEMMA SuiteInit == Init => SuiteInv
<1> SUFFICES ASSUME Init PROVE SuiteInv
  OBVIOUS
<1>1. PICK f \in Sharings : /\ key = f[0]
                            /\ \/ Gg18SignBegin(f)
                               \/ Dkls23SignBegin(f)
                               \/ Ggn16SignBegin(f)
                               \/ Cggmp20SignBegin(f)
                               \/ Lin17SignBegin(f)
                               \/ Xal21SignBegin(f)
                               \/ Kgg24SignBegin(f)
                               \/ Abc24SignBegin(f)
                               \/ (protocol = "ln18" /\ Ln18SignBegin(f))
                               \/ Wmc24SignBegin(f)
                               \/ Wmy23SignBegin(f)
                               \/ Tx25SignBegin(f)
                               \/ Jtx25SignBegin(f)
                               \/ Llz25SignBegin(f)
                               \/ TroutSignBegin(f)
                               \/ Xal23SignBegin(f)
                               \/ Ku24SignBegin(f)
  BY DEF Init
<1>2. Session
  BY <1>1, BeginSession DEF Init
<1>3. Cardinality(Signers) >= 2
  BY TwoSigners
<1>4. CASE Gg18SignBegin(f)
  <2>1. Gg18Known /\ stage \in Gg18Stages
    BY <1>1, <1>2, <1>3, <1>4, Gg18Begins
  <2> QED BY <1>2, <2>1, StagesDistinct DEF SuiteInv, Stages
<1>5. CASE Dkls23SignBegin(f)
  <2>1. Dkls23Known /\ stage \in Dkls23Stages
    BY <1>1, <1>2, <1>3, <1>5, Dkls23Begins
  <2> QED BY <1>2, <2>1, StagesDistinct DEF SuiteInv, Stages
<1>6. CASE Ggn16SignBegin(f)
  <2>1. Ggn16Known /\ stage \in Ggn16Stages
    BY <1>1, <1>2, <1>3, <1>6, Ggn16Begins
  <2> QED BY <1>2, <2>1, StagesDistinct DEF SuiteInv, Stages
<1>7. CASE Cggmp20SignBegin(f)
  <2>1. Cggmp20Known /\ stage \in Cggmp20Stages
    BY <1>1, <1>2, <1>3, <1>7, Cggmp20Begins
  <2> QED BY <1>2, <2>1, StagesDistinct DEF SuiteInv, Stages
<1>8. CASE Lin17SignBegin(f)
  <2>1. Lin17Known /\ stage \in Lin17Stages
    BY <1>1, <1>2, <1>3, <1>8, Lin17Begins
  <2> QED BY <1>2, <2>1, StagesDistinct DEF SuiteInv, Stages
<1>9. CASE Xal21SignBegin(f)
  <2>1. Xal21Known /\ stage \in Xal21Stages
    BY <1>1, <1>2, <1>3, <1>9, Xal21Begins
  <2> QED BY <1>2, <2>1, StagesDistinct DEF SuiteInv, Stages
<1>10. CASE Kgg24SignBegin(f)
  <2>1. Kgg24Known /\ stage \in Kgg24Stages
    BY <1>1, <1>2, <1>3, <1>10, Kgg24Begins
  <2> QED BY <1>2, <2>1, StagesDistinct DEF SuiteInv, Stages
<1>11. CASE Abc24SignBegin(f)
  <2>1. Abc24Known /\ stage \in Abc24Stages
    BY <1>1, <1>2, <1>3, <1>11, Abc24Begins
  <2> QED BY <1>2, <2>1, StagesDistinct DEF SuiteInv, Stages
<1>12. CASE protocol = "ln18" /\ Ln18SignBegin(f)
  <2>1. Ln18Known /\ stage \in Ln18Stages
    BY <1>1, <1>2, <1>3, <1>12, Ln18Begins
  <2> QED BY <1>2, <2>1, StagesDistinct DEF SuiteInv, Stages
<1>13. CASE Wmc24SignBegin(f)
  <2>1. Wmc24Known /\ stage \in Wmc24Stages
    BY <1>1, <1>2, <1>3, <1>13, Wmc24Begins
  <2> QED BY <1>2, <2>1, StagesDistinct DEF SuiteInv, Stages
<1>14. CASE Wmy23SignBegin(f)
  <2>1. Wmy23Known /\ stage \in Wmy23Stages
    BY <1>1, <1>2, <1>3, <1>14, Wmy23Begins
  <2> QED BY <1>2, <2>1, StagesDistinct DEF SuiteInv, Stages
<1>15. CASE Tx25SignBegin(f)
  <2>1. Tx25Known /\ stage \in Tx25Stages
    BY <1>1, <1>2, <1>3, <1>15, Tx25Begins
  <2> QED BY <1>2, <2>1, StagesDistinct DEF SuiteInv, Stages
<1>16. CASE Jtx25SignBegin(f)
  <2>1. Jtx25Known /\ stage \in Jtx25Stages
    BY <1>1, <1>2, <1>3, <1>16, Jtx25Begins
  <2> QED BY <1>2, <2>1, StagesDistinct DEF SuiteInv, Stages
<1>17. CASE Llz25SignBegin(f)
  <2>1. Llz25Known /\ stage \in Llz25Stages
    BY <1>1, <1>2, <1>3, <1>17, Llz25Begins
  <2> QED BY <1>2, <2>1, StagesDistinct DEF SuiteInv, Stages
<1>18. CASE TroutSignBegin(f)
  <2>1. TroutKnown /\ stage \in TroutStages
    BY <1>1, <1>2, <1>3, <1>18, TroutBegins
  <2> QED BY <1>2, <2>1, StagesDistinct DEF SuiteInv, Stages
<1>19. CASE Xal23SignBegin(f)
  <2>1. Xal23Known /\ stage \in Xal23Stages
    BY <1>1, <1>2, <1>3, <1>19, Xal23Begins
  <2> QED BY <1>2, <2>1, StagesDistinct DEF SuiteInv, Stages
<1>20. CASE Ku24SignBegin(f)
  <2>1. Ku24Known /\ stage \in Ku24Stages
    BY <1>1, <1>2, <1>3, <1>20, Ku24Begins
  <2> QED BY <1>2, <2>1, StagesDistinct DEF SuiteInv, Stages
<1> QED BY <1>1, <1>4, <1>5, <1>6, <1>7, <1>8, <1>9, <1>10, <1>11, <1>12, <1>13, <1>14, <1>15, <1>16, <1>17, <1>18, <1>19, <1>20

\* Every step of every protocol keeps the invariant and is lawful.
LEMMA SuiteStep ==
    ASSUME SuiteInv, Next
    PROVE  SuiteInv' /\ LawfulStep
<1>1. Session /\ Cardinality(Signers) >= 2
  BY TwoSigners DEF SuiteInv
<1>2. CASE Gg18SignNext
  <2>1. stage \in Gg18Stages /\ Gg18Known
    BY <1>2, Gg18Staged DEF SuiteInv
  <2>2. LawfulStep /\ (stage' # "ended" => Gg18Known' /\ stage' \in Gg18Stages)
    BY <1>1, <1>2, <2>1, Gg18Step
  <2>3. Session'
    BY <1>1, <2>2, SessionStep
  <2>4. CASE stage' = "ended"
    BY <2>2, <2>3, <2>4, StagesDistinct DEF SuiteInv, Stages
  <2>5. CASE stage' # "ended"
    <3>1. Gg18Known' /\ stage' \in Gg18Stages
      BY <2>2, <2>5
    <3> QED BY <2>2, <2>3, <3>1, StagesDistinct DEF SuiteInv, Stages
  <2> QED BY <2>4, <2>5
<1>3. CASE Dkls23SignNext
  <2>1. stage \in Dkls23Stages /\ Dkls23Known
    BY <1>3, Dkls23Staged DEF SuiteInv
  <2>2. LawfulStep /\ (stage' # "ended" => Dkls23Known' /\ stage' \in Dkls23Stages)
    BY <1>1, <1>3, <2>1, Dkls23Step
  <2>3. Session'
    BY <1>1, <2>2, SessionStep
  <2>4. CASE stage' = "ended"
    BY <2>2, <2>3, <2>4, StagesDistinct DEF SuiteInv, Stages
  <2>5. CASE stage' # "ended"
    <3>1. Dkls23Known' /\ stage' \in Dkls23Stages
      BY <2>2, <2>5
    <3> QED BY <2>2, <2>3, <3>1, StagesDistinct DEF SuiteInv, Stages
  <2> QED BY <2>4, <2>5
<1>4. CASE Ggn16SignNext
  <2>1. stage \in Ggn16Stages /\ Ggn16Known
    BY <1>4, Ggn16Staged DEF SuiteInv
  <2>2. LawfulStep /\ (stage' # "ended" => Ggn16Known' /\ stage' \in Ggn16Stages)
    BY <1>1, <1>4, <2>1, Ggn16Step
  <2>3. Session'
    BY <1>1, <2>2, SessionStep
  <2>4. CASE stage' = "ended"
    BY <2>2, <2>3, <2>4, StagesDistinct DEF SuiteInv, Stages
  <2>5. CASE stage' # "ended"
    <3>1. Ggn16Known' /\ stage' \in Ggn16Stages
      BY <2>2, <2>5
    <3> QED BY <2>2, <2>3, <3>1, StagesDistinct DEF SuiteInv, Stages
  <2> QED BY <2>4, <2>5
<1>5. CASE Cggmp20SignNext
  <2>1. stage \in Cggmp20Stages /\ Cggmp20Known
    BY <1>5, Cggmp20Staged DEF SuiteInv
  <2>2. LawfulStep /\ (stage' # "ended" => Cggmp20Known' /\ stage' \in Cggmp20Stages)
    BY <1>1, <1>5, <2>1, Cggmp20Step
  <2>3. Session'
    BY <1>1, <2>2, SessionStep
  <2>4. CASE stage' = "ended"
    BY <2>2, <2>3, <2>4, StagesDistinct DEF SuiteInv, Stages
  <2>5. CASE stage' # "ended"
    <3>1. Cggmp20Known' /\ stage' \in Cggmp20Stages
      BY <2>2, <2>5
    <3> QED BY <2>2, <2>3, <3>1, StagesDistinct DEF SuiteInv, Stages
  <2> QED BY <2>4, <2>5
<1>6. CASE Lin17SignNext
  <2>1. stage \in Lin17Stages /\ Lin17Known
    BY <1>6, Lin17Staged DEF SuiteInv
  <2>2. LawfulStep /\ (stage' # "ended" => Lin17Known' /\ stage' \in Lin17Stages)
    BY <1>1, <1>6, <2>1, Lin17Step
  <2>3. Session'
    BY <1>1, <2>2, SessionStep
  <2>4. CASE stage' = "ended"
    BY <2>2, <2>3, <2>4, StagesDistinct DEF SuiteInv, Stages
  <2>5. CASE stage' # "ended"
    <3>1. Lin17Known' /\ stage' \in Lin17Stages
      BY <2>2, <2>5
    <3> QED BY <2>2, <2>3, <3>1, StagesDistinct DEF SuiteInv, Stages
  <2> QED BY <2>4, <2>5
<1>7. CASE Xal21SignNext
  <2>1. stage \in Xal21Stages /\ Xal21Known
    BY <1>7, Xal21Staged DEF SuiteInv
  <2>2. LawfulStep /\ (stage' # "ended" => Xal21Known' /\ stage' \in Xal21Stages)
    BY <1>1, <1>7, <2>1, Xal21Step
  <2>3. Session'
    BY <1>1, <2>2, SessionStep
  <2>4. CASE stage' = "ended"
    BY <2>2, <2>3, <2>4, StagesDistinct DEF SuiteInv, Stages
  <2>5. CASE stage' # "ended"
    <3>1. Xal21Known' /\ stage' \in Xal21Stages
      BY <2>2, <2>5
    <3> QED BY <2>2, <2>3, <3>1, StagesDistinct DEF SuiteInv, Stages
  <2> QED BY <2>4, <2>5
<1>8. CASE Kgg24SignNext
  <2>1. stage \in Kgg24Stages /\ Kgg24Known
    BY <1>8, Kgg24Staged DEF SuiteInv
  <2>2. LawfulStep /\ (stage' # "ended" => Kgg24Known' /\ stage' \in Kgg24Stages)
    BY <1>1, <1>8, <2>1, Kgg24Step
  <2>3. Session'
    BY <1>1, <2>2, SessionStep
  <2>4. CASE stage' = "ended"
    BY <2>2, <2>3, <2>4, StagesDistinct DEF SuiteInv, Stages
  <2>5. CASE stage' # "ended"
    <3>1. Kgg24Known' /\ stage' \in Kgg24Stages
      BY <2>2, <2>5
    <3> QED BY <2>2, <2>3, <3>1, StagesDistinct DEF SuiteInv, Stages
  <2> QED BY <2>4, <2>5
<1>9. CASE Abc24SignNext
  <2>1. stage \in Abc24Stages /\ Abc24Known
    BY <1>9, Abc24Staged DEF SuiteInv
  <2>2. LawfulStep /\ (stage' # "ended" => Abc24Known' /\ stage' \in Abc24Stages)
    BY <1>1, <1>9, <2>1, Abc24Step
  <2>3. Session'
    BY <1>1, <2>2, SessionStep
  <2>4. CASE stage' = "ended"
    BY <2>2, <2>3, <2>4, StagesDistinct DEF SuiteInv, Stages
  <2>5. CASE stage' # "ended"
    <3>1. Abc24Known' /\ stage' \in Abc24Stages
      BY <2>2, <2>5
    <3> QED BY <2>2, <2>3, <3>1, StagesDistinct DEF SuiteInv, Stages
  <2> QED BY <2>4, <2>5
<1>10. CASE Ln18SignNext
  <2>1. stage \in Ln18Stages /\ Ln18Known
    BY <1>10, Ln18Staged DEF SuiteInv
  <2>2. LawfulStep /\ (stage' # "ended" => Ln18Known' /\ stage' \in Ln18Stages)
    BY <1>1, <1>10, <2>1, Ln18Step
  <2>3. Session'
    BY <1>1, <2>2, SessionStep
  <2>4. CASE stage' = "ended"
    BY <2>2, <2>3, <2>4, StagesDistinct DEF SuiteInv, Stages
  <2>5. CASE stage' # "ended"
    <3>1. Ln18Known' /\ stage' \in Ln18Stages
      BY <2>2, <2>5
    <3> QED BY <2>2, <2>3, <3>1, StagesDistinct DEF SuiteInv, Stages
  <2> QED BY <2>4, <2>5
<1>11. CASE Wmc24SignNext
  <2>1. stage \in Wmc24Stages /\ Wmc24Known
    BY <1>11, Wmc24Staged DEF SuiteInv
  <2>2. LawfulStep /\ (stage' # "ended" => Wmc24Known' /\ stage' \in Wmc24Stages)
    BY <1>1, <1>11, <2>1, Wmc24Step
  <2>3. Session'
    BY <1>1, <2>2, SessionStep
  <2>4. CASE stage' = "ended"
    BY <2>2, <2>3, <2>4, StagesDistinct DEF SuiteInv, Stages
  <2>5. CASE stage' # "ended"
    <3>1. Wmc24Known' /\ stage' \in Wmc24Stages
      BY <2>2, <2>5
    <3> QED BY <2>2, <2>3, <3>1, StagesDistinct DEF SuiteInv, Stages
  <2> QED BY <2>4, <2>5
<1>12. CASE Wmy23SignNext
  <2>1. stage \in Wmy23Stages /\ Wmy23Known
    BY <1>12, Wmy23Staged DEF SuiteInv
  <2>2. LawfulStep /\ (stage' # "ended" => Wmy23Known' /\ stage' \in Wmy23Stages)
    BY <1>1, <1>12, <2>1, Wmy23Step
  <2>3. Session'
    BY <1>1, <2>2, SessionStep
  <2>4. CASE stage' = "ended"
    BY <2>2, <2>3, <2>4, StagesDistinct DEF SuiteInv, Stages
  <2>5. CASE stage' # "ended"
    <3>1. Wmy23Known' /\ stage' \in Wmy23Stages
      BY <2>2, <2>5
    <3> QED BY <2>2, <2>3, <3>1, StagesDistinct DEF SuiteInv, Stages
  <2> QED BY <2>4, <2>5
<1>13. CASE Tx25SignNext
  <2>1. stage \in Tx25Stages /\ Tx25Known
    BY <1>13, Tx25Staged DEF SuiteInv
  <2>2. LawfulStep /\ (stage' # "ended" => Tx25Known' /\ stage' \in Tx25Stages)
    BY <1>1, <1>13, <2>1, Tx25Step
  <2>3. Session'
    BY <1>1, <2>2, SessionStep
  <2>4. CASE stage' = "ended"
    BY <2>2, <2>3, <2>4, StagesDistinct DEF SuiteInv, Stages
  <2>5. CASE stage' # "ended"
    <3>1. Tx25Known' /\ stage' \in Tx25Stages
      BY <2>2, <2>5
    <3> QED BY <2>2, <2>3, <3>1, StagesDistinct DEF SuiteInv, Stages
  <2> QED BY <2>4, <2>5
<1>14. CASE Jtx25SignNext
  <2>1. stage \in Jtx25Stages /\ Jtx25Known
    BY <1>14, Jtx25Staged DEF SuiteInv
  <2>2. LawfulStep /\ (stage' # "ended" => Jtx25Known' /\ stage' \in Jtx25Stages)
    BY <1>1, <1>14, <2>1, Jtx25Step
  <2>3. Session'
    BY <1>1, <2>2, SessionStep
  <2>4. CASE stage' = "ended"
    BY <2>2, <2>3, <2>4, StagesDistinct DEF SuiteInv, Stages
  <2>5. CASE stage' # "ended"
    <3>1. Jtx25Known' /\ stage' \in Jtx25Stages
      BY <2>2, <2>5
    <3> QED BY <2>2, <2>3, <3>1, StagesDistinct DEF SuiteInv, Stages
  <2> QED BY <2>4, <2>5
<1>15. CASE Llz25SignNext
  <2>1. stage \in Llz25Stages /\ Llz25Known
    BY <1>15, Llz25Staged DEF SuiteInv
  <2>2. LawfulStep /\ (stage' # "ended" => Llz25Known' /\ stage' \in Llz25Stages)
    BY <1>1, <1>15, <2>1, Llz25Step
  <2>3. Session'
    BY <1>1, <2>2, SessionStep
  <2>4. CASE stage' = "ended"
    BY <2>2, <2>3, <2>4, StagesDistinct DEF SuiteInv, Stages
  <2>5. CASE stage' # "ended"
    <3>1. Llz25Known' /\ stage' \in Llz25Stages
      BY <2>2, <2>5
    <3> QED BY <2>2, <2>3, <3>1, StagesDistinct DEF SuiteInv, Stages
  <2> QED BY <2>4, <2>5
<1>16. CASE TroutSignNext
  <2>1. stage \in TroutStages /\ TroutKnown
    BY <1>16, TroutStaged DEF SuiteInv
  <2>2. LawfulStep /\ (stage' # "ended" => TroutKnown' /\ stage' \in TroutStages)
    BY <1>1, <1>16, <2>1, TroutStep
  <2>3. Session'
    BY <1>1, <2>2, SessionStep
  <2>4. CASE stage' = "ended"
    BY <2>2, <2>3, <2>4, StagesDistinct DEF SuiteInv, Stages
  <2>5. CASE stage' # "ended"
    <3>1. TroutKnown' /\ stage' \in TroutStages
      BY <2>2, <2>5
    <3> QED BY <2>2, <2>3, <3>1, StagesDistinct DEF SuiteInv, Stages
  <2> QED BY <2>4, <2>5
<1>17. CASE Xal23SignNext
  <2>1. stage \in Xal23Stages /\ Xal23Known
    BY <1>17, Xal23Staged DEF SuiteInv
  <2>2. LawfulStep /\ (stage' # "ended" => Xal23Known' /\ stage' \in Xal23Stages)
    BY <1>1, <1>17, <2>1, Xal23Step
  <2>3. Session'
    BY <1>1, <2>2, SessionStep
  <2>4. CASE stage' = "ended"
    BY <2>2, <2>3, <2>4, StagesDistinct DEF SuiteInv, Stages
  <2>5. CASE stage' # "ended"
    <3>1. Xal23Known' /\ stage' \in Xal23Stages
      BY <2>2, <2>5
    <3> QED BY <2>2, <2>3, <3>1, StagesDistinct DEF SuiteInv, Stages
  <2> QED BY <2>4, <2>5
<1>18. CASE Ku24SignNext
  <2>1. stage \in Ku24Stages /\ Ku24Known
    BY <1>18, Ku24Staged DEF SuiteInv
  <2>2. LawfulStep /\ (stage' # "ended" => Ku24Known' /\ stage' \in Ku24Stages)
    BY <1>1, <1>18, <2>1, Ku24Step
  <2>3. Session'
    BY <1>1, <2>2, SessionStep
  <2>4. CASE stage' = "ended"
    BY <2>2, <2>3, <2>4, StagesDistinct DEF SuiteInv, Stages
  <2>5. CASE stage' # "ended"
    <3>1. Ku24Known' /\ stage' \in Ku24Stages
      BY <2>2, <2>5
    <3> QED BY <2>2, <2>3, <3>1, StagesDistinct DEF SuiteInv, Stages
  <2> QED BY <2>4, <2>5
<1> QED BY <1>2, <1>3, <1>4, <1>5, <1>6, <1>7, <1>8, <1>9, <1>10, <1>11, <1>12, <1>13, <1>14, <1>15, <1>16, <1>17, <1>18 DEF Next

LEMMA SuiteStutter ==
    ASSUME SuiteInv, UNCHANGED vars
    PROVE  SuiteInv'
<1>1. /\ stage' = stage /\ know' = know /\ key' = key /\ digest' = digest /\ bent' = bent
      /\ answer' = answer /\ protocol' = protocol
  BY DEF vars
<1>2. Signers' = Signers /\ Ints' = Ints /\ PairInts' = PairInts
  BY <1>1, SameIndices
<1>3. Session'
  BY <1>1, <1>2 DEF SuiteInv, Session
<1>4. Gg18Known' = Gg18Known
  BY <1>1, <1>2 DEF Gg18Known, Has
<1>5. Dkls23Known' = Dkls23Known
  BY <1>1, <1>2 DEF Dkls23Known, Has
<1>6. Ggn16Known' = Ggn16Known
  BY <1>1, <1>2 DEF Ggn16Known, Has
<1>7. Cggmp20Known' = Cggmp20Known
  BY <1>1, <1>2 DEF Cggmp20Known, Has
<1>8. Lin17Known' = Lin17Known
  BY <1>1, <1>2 DEF Lin17Known, Has
<1>9. Xal21Known' = Xal21Known
  BY <1>1, <1>2 DEF Xal21Known, Has
<1>10. Kgg24Known' = Kgg24Known
  BY <1>1, <1>2 DEF Kgg24Known, Has
<1>11. Abc24Known' = Abc24Known
  BY <1>1, <1>2 DEF Abc24Known, Has
<1>12. Ln18Known' = Ln18Known
  BY <1>1, <1>2 DEF Ln18Known, Has, Ln18Alpha
<1>13. Wmc24Known' = Wmc24Known
  BY <1>1, <1>2 DEF Wmc24Known, Has
<1>14. Wmy23Known' = Wmy23Known
  BY <1>1, <1>2 DEF Wmy23Known, Has
<1>15. Tx25Known' = Tx25Known
  BY <1>1, <1>2 DEF Tx25Known, Has
<1>16. Jtx25Known' = Jtx25Known
  BY <1>1, <1>2 DEF Jtx25Known, Has
<1>17. Llz25Known' = Llz25Known
  BY <1>1, <1>2 DEF Llz25Known, Has
<1>18. TroutKnown' = TroutKnown
  BY <1>1, <1>2 DEF TroutKnown, Has
<1>19. Xal23Known' = Xal23Known
  BY <1>1, <1>2 DEF Xal23Known, Has
<1>20. Ku24Known' = Ku24Known
  BY <1>1, <1>2 DEF Ku24Known, Has
<1> QED BY <1>1, <1>3, <1>4, <1>5, <1>6, <1>7, <1>8, <1>9, <1>10, <1>11, <1>12, <1>13, <1>14, <1>15, <1>16, <1>17, <1>18, <1>19, <1>20 DEF SuiteInv

-----------------------------------------------------------------------------
(* The refinement.                                                           *)

\* Before the end, what is seen is what was returned: nothing.
LEMMA SeenWaiting ==
    ASSUME Session, stage # "ended"
    PROVE  Seen = answer /\ answer = [i \in Signers |-> Waiting]
<1>1. answer = [i \in Signers |-> Waiting]
  BY DEF Session
<1>2. ASSUME NEW i \in Signers PROVE ~Ln18Zero(answer[i])
  BY <1>1 DEF Ln18Zero, Waiting
<1> QED BY <1>1, <1>2 DEF Seen

\* What is seen of the answers of a last stage.
LEMMA SeenEnd ==
    ASSUME LawfulStep, stage' = "ended", DOMAIN answer' = Signers
    PROVE  /\ DOMAIN Seen' = Signers
           /\ \A i \in Signers : Seen'[i] = IF Ln18Zero(answer[i])' THEN Refused ELSE answer'[i]
           /\ \A i \in Signers : Ln18Zero(answer[i])' <=>
                  /\ protocol = "ln18" /\ NoSignature(XCoord(Total(know.k, Signers)))
                  /\ answer'[i] \in [r : Field, s : {0}]
<1>1. know' = know /\ protocol' = protocol /\ key' = key /\ digest' = digest
  BY DEF LawfulStep
<1>2. Signers' = Signers
  BY <1>1, SameSigners
<1> QED BY <1>1, <1>2 DEF Seen, Ln18Zero, NoSignature

\* A lawful step is one of the trusted party.
LEMMA LawfulIsIdeal ==
    ASSUME Session, LawfulStep, Session'
    PROVE  Ideal!Next \/ (UNCHANGED Seen /\ UNCHANGED <<key, digest>>)
<1>1. UNCHANGED <<key, digest>> /\ Seen = answer /\ answer = [i \in Signers |-> Waiting]
  BY SeenWaiting DEF LawfulStep
<1>2. CASE stage' # "ended" /\ UNCHANGED answer
  <2>1. Seen' = answer'
    <3>1. \A i \in DOMAIN answer' : answer'[i] = Waiting
      BY <1>1, <1>2
    <3>2. \A i \in DOMAIN answer' : ~Ln18Zero(answer[i])'
      BY <3>1 DEF Ln18Zero, Waiting
    <3> QED BY <3>2, <1>1, <1>2 DEF Seen
  <2> QED BY <1>1, <1>2, <2>1
<1>3. CASE stage' = "ended" /\ Lawful(answer')
  <2>2. DOMAIN answer' = Signers
    BY <1>3 DEF Lawful
  <2>s. /\ DOMAIN Seen' = Signers
        /\ \A i \in Signers : Seen'[i] = IF Ln18Zero(answer[i])' THEN Refused ELSE answer'[i]
        /\ \A i \in Signers : Ln18Zero(answer[i])' <=>
               /\ protocol = "ln18" /\ NoSignature(XCoord(Total(know.k, Signers)))
               /\ answer'[i] \in [r : Field, s : {0}]
    BY <1>3, <2>2, SeenEnd
  <2>w. Waiting \notin [r : Field, s : {0}] /\ Refused \notin [r : Field, s : {0}]
    BY DEF Waiting, Refused
  <2>3. CASE \A i \in Signers : Seen'[i] \in {Waiting, Refused}
    <3>1. Ideal!Refuse
      BY <1>1, <2>3 DEF Ideal!Refuse, Ideal!Waiting, Ideal!Refused, Waiting, Refused
    <3> QED BY <1>1, <2>s, <3>1 DEF Ideal!Next
  <2>4. CASE \E sig : Right(sig) /\ \A i \in Signers : answer'[i] \in {Waiting, Refused, sig}
    <3>1. PICK sig : Right(sig) /\ \A i \in Signers : answer'[i] \in {Waiting, Refused, sig}
      BY <2>4
    <3>2. VerifyEcdsa(sig, key, digest) /\ sig.s = LowS(sig.s) /\ sig \in Signatures
      BY <3>1 DEF Right
    <3>3. Ideal!VerifyEcdsa(sig, key, digest)
      BY <3>2 DEF VerifyEcdsa, XCoord, Fl, Inv, Field,
                  Ideal!VerifyEcdsa, Ideal!XCoord, Ideal!Fl, Ideal!Inv, Ideal!Field
    <3>4. sig.s = Ideal!LowS(sig.s) /\ sig \in Ideal!Signatures
      BY <3>2 DEF LowS, Neg, Signatures, Field, Ideal!LowS, Ideal!Neg, Ideal!Signatures, Ideal!Field
    <3>n. sig \notin [r : Field, s : {0}]
      BY <3>2 DEF VerifyEcdsa
    <3>5. \A i \in Signers : Seen'[i] \in {Waiting, Refused, sig}
      BY <2>s, <2>w, <3>1, <3>n
    <3>6. \A i \in DOMAIN Seen : \/ Seen'[i] = Seen[i] /\ Seen[i] \in {Waiting, Refused, sig}
                                 \/ Seen[i] = Waiting /\ Seen'[i] \in {Refused, sig}
      BY <1>1, <3>5
    <3>7. Ideal!Answer(sig)
      BY <3>3, <3>4, <3>6 DEF Ideal!Answer, Ideal!Waiting, Ideal!Refused, Waiting, Refused
    <3> QED BY <1>1, <2>s, <3>4, <3>7 DEF Ideal!Next
  <2>5. CASE \A i \in Signers : answer'[i] \in {Waiting, Refused}
    BY <2>3, <2>5, <2>s, <2>w
  <2>6. CASE Untested(answer')
    BY <2>3, <2>6, <2>s DEF Untested
  <2> QED BY <1>3, <2>4, <2>5, <2>6 DEF Lawful
<1> QED BY <1>2, <1>3 DEF LawfulStep

LEMMA InitIsIdeal ==
    ASSUME Init
    PROVE  Ideal!Init
<1>1. key \in Field /\ digest \in Field
  BY SuiteInit DEF SuiteInv, Session
<1>2. answer = [i \in Signers |-> Waiting] /\ Signers \in SUBSET Parties
  BY SigningAssumption DEF Init, Signers
<1>3. Seen = answer
  BY <1>2 DEF Seen, Ln18Zero, Waiting
<1> QED BY <1>1, <1>2, <1>3 DEF Ideal!Init, Ideal!Field, Ideal!Waiting, Waiting, Field

\* The invariant is one.
THEOREM SuiteInvariant == Spec => []SuiteInv
<1>1. Init => SuiteInv
  BY SuiteInit
<1>2. SuiteInv /\ [Next]_vars => SuiteInv'
  BY SuiteStep, SuiteStutter
<1> QED BY <1>1, <1>2, PTL DEF Spec

\* Every protocol hands each signer the one low-s signature that verifies under
\* the shared key, or an error, as a trusted party would: for every set of
\* parties, threshold and signing subset, every sharing of the key, digest,
\* nonce and mask, and whichever single share is wrong.  Where no signature exists,
\* LN18 returns s = 0, which is seen as an error.
THEOREM SigningIsIdeal == Spec => IsIdealEcdsa
<1>1. Init => Ideal!Init
  BY InitIsIdeal
<1>2. SuiteInv /\ [Next]_vars => [Ideal!Next]_<<key, digest, Seen>>
  <2>1. CASE Next
    <3> SUFFICES ASSUME SuiteInv, Next PROVE [Ideal!Next]_<<key, digest, Seen>>
      BY <2>1
    <3>1. Session /\ LawfulStep /\ Session'
      BY SuiteStep DEF SuiteInv
    <3> QED BY <3>1, LawfulIsIdeal
  <2>2. CASE UNCHANGED vars
    <3>1. Signers' = Signers
      BY <2>2, SameSigners DEF vars
    <3> QED BY <2>2, <3>1 DEF vars, Seen, Ln18Zero, NoSignature
  <2> QED BY <2>1, <2>2
<1> QED BY <1>1, <1>2, SuiteInvariant, PTL DEF Spec, IsIdealEcdsa, Ideal!Spec
=============================================================================
