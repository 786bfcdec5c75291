------------------------- MODULE KeygenSuite_proofs -------------------------
(* That the key shares which a key generation hands out are shares of one    *)
(* key, whatever the dealers draw and whichever of them is faulty: for any   *)
(* number of parties, any threshold, and any field.                          *)
(*                                                                           *)
(* PKeygen is the invariant of the key generation of protocol P: what the    *)
(* machines know at each stage, and what they have returned at the end.      *)
EXTENDS KeygenSuite, ProtocolSession_proofs

-----------------------------------------------------------------------------
(* The parties.                                                              *)

\* Everyone who will hold the key takes part, and the index of a party is its
\* position.
LEMMA Everybody ==
    /\ Signers = 1 .. Cardinality(Signers) /\ Cardinality(Signers) >= 2
    /\ \A i \in Signers : Position(i) = i
    /\ P1 \in Signers /\ P2 \in Signers /\ P1 # P2
    /\ Participants \subseteq Signers /\ IsFiniteSet(Participants) /\ Participants # {}
<1>1. Signers = Parties /\ Signers = Quorum /\ Signers = 1 .. Cardinality(Signers)
  BY KeygenAssumption DEF Signers
<1>2. Cardinality(Signers) >= 2 /\ Cardinality(Signers) \in Nat
  BY <1>1, QuorumAssumption, SignersType
<1>3. ASSUME NEW i \in Signers PROVE Position(i) = i
  <2>1. i \in Nat /\ i >= 1 /\ i <= Cardinality(Signers)
    BY <1>1, <1>2
  <2>2. {j \in Signers : j <= i} = 1 .. i
    BY <1>1, <1>2, <2>1
  <2>3. Cardinality(1 .. i) = i
    <3>1. 1 \in Int /\ i \in Int
      BY <2>1
    <3>2. Cardinality(1 .. i) = IF 1 > i THEN 0 ELSE i - 1 + 1
      BY <3>1, FS_Interval
    <3> QED BY <2>1, <3>2
  <2> QED BY <2>2, <2>3 DEF Position
<1>4. P1 \in Signers /\ P2 \in Signers /\ P1 # P2
  BY <1>2, Two
<1>5. Participants \subseteq Signers /\ Participants # {}
  BY <1>4 DEF Participants
<1>6. IsFiniteSet(Participants)
  BY <1>5, SignersType, FS_Subset
<1> QED BY <1>1, <1>2, <1>3, <1>4, <1>5, <1>6

\* At most one party is faulty, by an offset that is not zero in the field.
LEMMA OneFaulty ==
    ASSUME bent \in Bent
    PROVE  /\ bent \in [Signers -> Field] /\ \A i \in Signers : bent[i] \in Int
           /\ \A i, j \in Signers : bent[i] # 0 /\ bent[j] # 0 => i = j
           /\ bent = Straight => \A i \in Signers : bent[i] = 0
<1>1. PICK i \in Signers, e \in Bends : bent = [Straight EXCEPT ![i] = e]
  BY DEF Bent
<1>2. e \in Field /\ 0 \in Field
  BY SigningAssumption, QAssumption DEF Field
<1>3. bent \in [Signers -> Field] /\ \A j \in Signers : j # i => bent[j] = 0
  BY <1>1, <1>2 DEF Straight
<1> QED BY <1>3, ScalarsType DEF Straight

\* Nobody sends itself a wrong share.
LEMMA VictimIsOther ==
    ASSUME NEW d \in Signers
    PROVE  Victim(d) \in Signers /\ Victim(d) # d
  BY Everybody DEF Victim

LEMMA SameParties ==
    ASSUME protocol' = protocol
    PROVE  Participants' = Participants /\ Signers' = Signers /\ P1' = P1 /\ P2' = P2
  BY SameSigners, SameTwo DEF Participants

-----------------------------------------------------------------------------
(* A session.                                                                *)

\* Nobody has a key share before the session ends.
KeygenSession ==
    /\ bent \in Bent
    /\ DOMAIN answer = Participants
    /\ stage # "ended" => answer = [p \in Participants |-> Waiting]

\* A step that goes on, and one that returns.
GoesOn(to, new) ==
    /\ stage # "ended" /\ stage' = to /\ to # "ended" /\ know' = new
    /\ UNCHANGED <<protocol, key, bent, answer>>
Returns(answers) ==
    /\ stage # "ended" /\ stage' = "ended" /\ answer' = answers /\ DOMAIN answers = Participants
    /\ UNCHANGED <<protocol, key, bent, know>>

LEMMA SessionGoesOn ==
    ASSUME KeygenSession, NEW to, NEW new, GoesOn(to, new)
    PROVE  KeygenSession'
<1>1. bent' \in Bent'
  BY SameParties DEF KeygenSession, GoesOn, Bent, Straight
<1> QED BY <1>1, SameParties DEF KeygenSession, GoesOn

LEMMA SessionReturns ==
    ASSUME KeygenSession, NEW answers, Returns(answers)
    PROVE  KeygenSession'
<1>1. bent' \in Bent'
  BY SameParties DEF KeygenSession, Returns, Bent, Straight
<1> QED BY <1>1, SameParties DEF KeygenSession, Returns

\* The polynomials of the dealers, and the shares that are due from them.
Drawn == Has("poly", [Signers -> Polynomials(T)]) /\ key = Secret(know.poly)
Due(p) == Dealers(know.poly, p)
Shares == [p \in Signers |-> Due(p)]

\* What the dealers send, one share of it bent where a dealer is faulty.
Sent == [p \in Signers |-> [d \in Signers |-> Bend(Eval(know.poly[d], p), d, p)]]
SentRight == [p \in Signers |-> [d \in Signers |-> Eval(know.poly[d], p)]]

\* Whoever holds a share holds the one that is due, and those of the others.
Handed(due) == \A p \in Signers :
    \/ answer[p] \in {Waiting, Refused}
    \/ /\ answer[p].share = due[p] /\ answer[p].pk = key
       /\ \A d \in Signers : answer[p].points[d] = due[d]

\* Any T of the shares make up the key.
Shared(due) == \A S \in SUBSET Signers : Cardinality(S) = T => Reconstruct(due, S) = key

LEMMA DrawnStays ==
    ASSUME Drawn, UNCHANGED <<protocol, key>>,
           "poly" \in DOMAIN know', know'.poly = know.poly
    PROVE  Drawn' /\ \A p : Due(p)' = Due(p)
<1>1. Signers' = Signers
  BY SameSigners
<1>2. Drawn'
  BY <1>1 DEF Drawn, Has, Secret
<1>3. \A p : Dealers(know.poly, p)' = Dealers(know.poly, p)
  BY <1>1 DEF Dealers
<1> QED BY <1>2, <1>3 DEF Due

LEMMA DueType ==
    ASSUME Drawn, NEW x \in Int
    PROVE  Due(x) \in Field /\ Due(x) \in Int
  BY DealersType DEF Drawn, Has, Due

LEMMA SharesShared ==
    ASSUME Drawn
    PROVE  Shared(Shares)
<1> SUFFICES ASSUME NEW S \in SUBSET Signers, Cardinality(S) = T
             PROVE  Reconstruct(Shares, S) = key
  BY DEF Shared
<1>1. S \in SUBSET (1 .. Q - 1) /\ IsFiniteSet(S) /\ Cardinality(S) >= T
  BY SignersType, SigningAssumption, FS_Subset
<1>2. \A i \in S : Shares[i] = Dealers(know.poly, i)
  BY DEF Shares, Due
<1> HIDE DEF Shares
<1> QED BY <1>1, <1>2, DealersInterpolate DEF Drawn, Has

\* The steps of a session, for what the dealers have drawn.
LEMMA StepGoesOn ==
    ASSUME NEW from, NEW to, NEW facts, from # "ended", to # "ended",
           Step(from, to, facts) \/ (Pass(from, to) /\ facts = [x \in {} |-> 0])
    PROVE  /\ stage = from /\ GoesOn(to, know')
           /\ \A x \in DOMAIN facts : x \in DOMAIN know' /\ know'[x] = facts[x]
           /\ \A x \in DOMAIN know : x \notin DOMAIN facts => x \in DOMAIN know' /\ know'[x] = know[x]
  BY DEF Step, Pass, GoesOn, With

LEMMA DealersGoOn ==
    ASSUME KeygenSession, Drawn, NEW from, NEW to, NEW facts, from # "ended", to # "ended",
           Step(from, to, facts) \/ (Pass(from, to) /\ facts = [x \in {} |-> 0]),
           "poly" \notin DOMAIN facts
    PROVE  /\ KeygenSession' /\ Drawn' /\ Shares' = Shares /\ Sent' = Sent /\ SentRight' = SentRight
           /\ stage = from /\ stage' = to /\ UNCHANGED <<protocol, key, bent, answer>>
           /\ \A x \in DOMAIN facts : x \in DOMAIN know' /\ know'[x] = facts[x]
           /\ \A x \in DOMAIN know : x \notin DOMAIN facts => x \in DOMAIN know' /\ know'[x] = know[x]
<1>1. /\ stage = from /\ GoesOn(to, know')
      /\ \A x \in DOMAIN facts : x \in DOMAIN know' /\ know'[x] = facts[x]
      /\ \A x \in DOMAIN know : x \notin DOMAIN facts => x \in DOMAIN know' /\ know'[x] = know[x]
  BY StepGoesOn
<1>2. stage' = to /\ UNCHANGED <<protocol, key, bent, answer>>
  BY <1>1 DEF GoesOn
<1>3. KeygenSession'
  BY <1>1, SessionGoesOn
<1>4. "poly" \in DOMAIN know' /\ know'.poly = know.poly
  BY <1>1 DEF Drawn, Has
<1>5. Drawn' /\ \A p : Due(p)' = Due(p)
  BY <1>2, <1>4, DrawnStays
<1>6. Signers' = Signers /\ P1' = P1 /\ P2' = P2
  BY <1>2, SameParties
<1>7. Shares' = Shares
  BY <1>5, <1>6 DEF Shares
<1>8. Sent' = Sent /\ SentRight' = SentRight
  BY <1>2, <1>4, <1>6 DEF Sent, SentRight, Bend, Victim
<1> QED BY <1>1, <1>2, <1>3, <1>5, <1>7, <1>8

\* A return that hands out the shares that are due, or errors.
LEMMA DealersReturn ==
    ASSUME KeygenSession, Drawn, NEW from, from # "ended", NEW answers,
           Return(from, answers), Participants = Signers, DOMAIN answers = Signers,
           \A p \in Signers :
              \/ answers[p] \in {Waiting, Refused}
              \/ /\ answers[p].share = Shares[p] /\ answers[p].pk = key
                 /\ \A d \in Signers : answers[p].points[d] = Shares[d]
    PROVE  /\ KeygenSession' /\ Drawn' /\ Handed(Shares)' /\ stage = from /\ stage' = "ended"
           /\ answer' = answers /\ UNCHANGED <<protocol, key, bent, know>>
<1>1. Returns(answers) /\ stage = from
  BY DEF Return, Returns
<1>2. KeygenSession'
  BY <1>1, SessionReturns
<1>3. "poly" \in DOMAIN know' /\ know'.poly = know.poly
  BY <1>1 DEF Drawn, Has, Returns
<1>4. Drawn' /\ \A p : Due(p)' = Due(p)
  BY <1>1, <1>3, DrawnStays DEF Returns
<1>5. Signers' = Signers
  BY <1>1, SameSigners DEF Returns
<1>6. Shares' = Shares
  BY <1>4, <1>5 DEF Shares
<1>7. answer' = answers /\ key' = key
  BY <1>1 DEF Returns
<1>8. Handed(Shares)'
  BY <1>5, <1>6, <1>7 DEF Handed
<1> QED BY <1>1, <1>2, <1>4, <1>8 DEF Returns

\* A return of errors only.
LEMMA DealersRefuse ==
    ASSUME KeygenSession, Drawn, Participants = Signers, NEW from, from # "ended",
           \/ \E where : RefuseFaulty(from, where) \/ RefuseVictim(from, where)
           \/ \E answers \in [Signers -> {Waiting, Refused}] : Return(from, answers)
    PROVE  /\ KeygenSession' /\ Drawn' /\ Handed(Shares)' /\ Holders' = {}
           /\ stage = from /\ stage' = "ended" /\ UNCHANGED <<protocol, key, bent, know>>
<1>1. PICK answers \in [Signers -> {Waiting, Refused}] : Return(from, answers)
  BY DEF KeygenSession, RefuseFaulty, RefuseVictim
<1>2. /\ KeygenSession' /\ Drawn' /\ Handed(Shares)' /\ stage = from /\ stage' = "ended"
      /\ answer' = answers /\ UNCHANGED <<protocol, key, bent, know>>
  BY <1>1, DealersReturn
<1>3. Holders' = {}
  BY <1>2 DEF Holders
<1> QED BY <1>2, <1>3

\* A party that verified the shares of the others has the share that is due.
LEMMA DealtShare ==
    ASSUME Drawn, NEW p \in Signers, NEW sent \in {Sent, SentRight},
           \A d \in Others(p) : sent[p][d] = Eval(know.poly[d], p)
    PROVE  Total(sent[p], Signers) = Shares[p]
<1>1. \A d \in Signers : sent[p][d] = Eval(know.poly[d], p)
  <2>1. sent[p][p] = Eval(know.poly[p], p)
    BY VictimIsOther DEF Sent, SentRight, Bend
  <2> QED BY <2>1 DEF Others
<1>2. sent[p] = [d \in Signers |-> sent[p][d]]
  BY DEF Sent, SentRight
<1>3. sent[p] = [d \in Signers |-> Eval(know.poly[d], p)]
  BY <1>1, <1>2
<1> QED BY <1>3 DEF Shares, Due, Dealers

LEMMA KeyShareFields ==
    ASSUME NEW share, NEW points, NEW pk, NEW new,
           "share" \notin DOMAIN new, "points" \notin DOMAIN new, "pk" \notin DOMAIN new
    PROVE  /\ KeyShare(share, points, pk).share = share
           /\ KeyShare(share, points, pk).points = points
           /\ KeyShare(share, points, pk).pk = pk
           /\ With(new, KeyShare(share, points, pk)).share = share
           /\ With(new, KeyShare(share, points, pk)).points = points
           /\ With(new, KeyShare(share, points, pk)).pk = pk
           /\ \A x \in DOMAIN new : With(new, KeyShare(share, points, pk))[x] = new[x]
           /\ KeyShare(share, points, pk) # Refused
  BY DEF KeyShare, With, Refused

-----------------------------------------------------------------------------
(* GG18.                                                                     *)

Gg18KeygenStages == {"gg18_keygen_1", "gg18_keygen_2", "gg18_keygen_3"}

Gg18Keygen ==
    /\ protocol = "gg18" /\ stage \in Gg18KeygenStages \cup {"ended"}
    /\ Drawn
    /\ stage = "gg18_keygen_2" => Has("dealt", {Sent})
    /\ stage = "gg18_keygen_3" => Has("x", {Shares})
    /\ stage = "ended" => Handed(Shares) /\ AllOrNobody

LEMMA Gg18KeygenBegins ==
    ASSUME protocol = "gg18", Gg18KeygenBegin
    PROVE  Gg18Keygen
  BY SigningAssumption DEF Gg18KeygenBegin, Gg18Keygen, Gg18KeygenStages, Drawn, Has

LEMMA Gg18KeygenSteps ==
    ASSUME KeygenSession, Gg18Keygen, Gg18KeygenNext
    PROVE  KeygenSession' /\ Gg18Keygen'
<1>1. Participants = Signers /\ Drawn /\ protocol = "gg18"
  BY DEF Gg18Keygen, Participants, TwoParty
<1>2. CASE Gg18Deal
  <2>1. Step("gg18_keygen_1", "gg18_keygen_2", [dealt |-> Sent])
    BY <1>2 DEF Gg18Deal, Sent
  <2>2. KeygenSession' /\ Drawn' /\ Sent' = Sent /\ stage' = "gg18_keygen_2"
        /\ protocol' = protocol /\ "dealt" \in DOMAIN know' /\ know'["dealt"] = Sent
    <3> DEFINE facts == [dealt |-> Sent]
    <3>1. "poly" \notin DOMAIN facts /\ "dealt" \in DOMAIN facts /\ facts["dealt"] = Sent
      OBVIOUS
    <3> HIDE DEF facts
    <3> QED BY <1>1, <2>1, <3>1, DealersGoOn DEF facts
  <2> QED BY <1>1, <2>2 DEF Gg18Keygen, Gg18KeygenStages, Has
<1>3. CASE Gg18Aggregate
  <2>1. stage = "gg18_keygen_2" /\ know.dealt = Sent
    BY <1>3 DEF Gg18Aggregate, Gg18Keygen, Has
  <2>2. CASE \E p \in Signers : Gg18Round2Fails(p)
    <3> DEFINE answers == [p \in Signers |-> IF Gg18Round2Fails(p) THEN Refused ELSE Waiting]
    <3>1. Return("gg18_keygen_2", answers)
      BY <1>3, <2>2 DEF Gg18Aggregate
    <3>2. DOMAIN answers = Signers /\ \A p \in Signers : answers[p] \in {Waiting, Refused}
      OBVIOUS
    <3> HIDE DEF answers
    <3>3. /\ KeygenSession' /\ Drawn' /\ Handed(Shares)' /\ stage' = "ended"
          /\ answer' = answers /\ protocol' = protocol
      BY <1>1, <3>1, <3>2, DealersReturn
    <3>4. AllOrNobody'
      BY <3>2, <3>3 DEF AllOrNobody, Holders
    <3> QED BY <1>1, <3>3, <3>4 DEF Gg18Keygen
  <2>3. CASE \A p \in Signers : ~Gg18Round2Fails(p)
    <3> DEFINE x == [p \in Signers |-> Gg18SecretShare(p)]
               facts == [x |-> x]
    <3>1. Step("gg18_keygen_2", "gg18_keygen_3", facts)
      BY <1>3, <2>3 DEF Gg18Aggregate
    <3>2. ASSUME NEW p \in Signers PROVE x[p] = Shares[p]
      <4>1. \A d \in Others(p) : Sent[p][d] = Eval(know.poly[d], p)
        BY <2>1, <2>3 DEF Gg18Round2Fails, FeldmanVerify
      <4> QED BY <1>1, <2>1, <4>1, DealtShare DEF Gg18SecretShare
    <3>3. x = Shares
      BY <3>2 DEF Shares
    <3>4. "poly" \notin DOMAIN facts /\ "x" \in DOMAIN facts /\ facts["x"] = Shares
      BY <3>3
    <3> HIDE DEF facts
    <3>5. KeygenSession' /\ Drawn' /\ Shares' = Shares /\ stage' = "gg18_keygen_3"
          /\ protocol' = protocol /\ "x" \in DOMAIN know' /\ know'["x"] = Shares
      BY <1>1, <3>1, <3>4, DealersGoOn
    <3> QED BY <1>1, <3>5 DEF Gg18Keygen, Gg18KeygenStages, Has
  <2> QED BY <2>2, <2>3
<1>4. CASE Gg18Confirm
  <2> DEFINE answers == [p \in Signers |-> KeyShare(Shares[p], Shares, key)]
  <2>1. stage = "gg18_keygen_3" /\ know.x = Shares
    BY <1>4 DEF Gg18Confirm, Return, Gg18Keygen, Has
  <2>2. Gg18PublicShares = Shares /\ Gg18PublicKey = key
    BY <1>1 DEF Gg18PublicShares, Gg18PublicKey, Shares, Due, Drawn, Secret
  <2>3. Return("gg18_keygen_3", answers)
    BY <1>4, <2>1, <2>2 DEF Gg18Confirm, Others
  <2>4. /\ DOMAIN answers = Signers
        /\ \A p \in Signers : /\ answers[p].share = Shares[p] /\ answers[p].pk = key
                              /\ answers[p].points = Shares /\ answers[p] # Refused
    BY KeyShareFields DEF KeyShare, Refused
  <2> HIDE DEF answers
  <2>5. /\ KeygenSession' /\ Drawn' /\ Handed(Shares)' /\ stage' = "ended"
        /\ answer' = answers /\ protocol' = protocol
    BY <1>1, <2>3, <2>4, DealersReturn
  <2>6. AllOrNobody'
    BY <2>4, <2>5 DEF AllOrNobody
  <2> QED BY <1>1, <2>5, <2>6 DEF Gg18Keygen
<1> QED BY <1>2, <1>3, <1>4 DEF Gg18KeygenNext

-----------------------------------------------------------------------------
(* DKLs23.                                                                   *)

Dkls23KeygenStages == {"dkls23_keygen_1", "dkls23_keygen_2"}

Dkls23Keygen ==
    /\ protocol = "dkls23" /\ stage \in Dkls23KeygenStages \cup {"ended"}
    /\ Drawn
    /\ stage = "dkls23_keygen_2" => Has("dealt", {Sent})
    /\ stage = "ended" => Handed(Shares)

LEMMA Dkls23KeygenBegins ==
    ASSUME protocol = "dkls23", Dkls23KeygenBegin
    PROVE  Dkls23Keygen
  BY SigningAssumption DEF Dkls23KeygenBegin, Dkls23Keygen, Dkls23KeygenStages, Drawn, Has

LEMMA Dkls23KeygenSteps ==
    ASSUME KeygenSession, Dkls23Keygen, Dkls23KeygenNext
    PROVE  KeygenSession' /\ Dkls23Keygen'
<1>1. Participants = Signers /\ Drawn /\ protocol = "dkls23"
  BY DEF Dkls23Keygen, Participants, TwoParty
<1>2. CASE Dkls23Deal
  <2> DEFINE facts == [dealt |-> Sent]
  <2>1. Step("dkls23_keygen_1", "dkls23_keygen_2", facts)
    BY <1>2 DEF Dkls23Deal, Sent
  <2>2. "poly" \notin DOMAIN facts /\ "dealt" \in DOMAIN facts /\ facts["dealt"] = Sent
    OBVIOUS
  <2> HIDE DEF facts
  <2>3. KeygenSession' /\ Drawn' /\ Sent' = Sent /\ stage' = "dkls23_keygen_2"
        /\ protocol' = protocol /\ "dealt" \in DOMAIN know' /\ know'["dealt"] = Sent
    BY <1>1, <2>1, <2>2, DealersGoOn
  <2> QED BY <1>1, <2>3 DEF Dkls23Keygen, Dkls23KeygenStages, Has
<1>3. CASE Dkls23KeygenFinish
  <2> DEFINE answers == [p \in Signers |->
                 IF Dkls23DealtFails(p) THEN Refused
                 ELSE KeyShare(Total(know.dealt[p], Signers), Dkls23VerificationShares(p), Secret(know.poly))]
  <2>1. Return("dkls23_keygen_2", answers) /\ stage = "dkls23_keygen_2" /\ know.dealt = Sent
    BY <1>3 DEF Dkls23KeygenFinish, Return, Dkls23Keygen, Has
  <2>2. ASSUME NEW p \in Signers, ~Dkls23DealtFails(p)
        PROVE  answers[p] = KeyShare(Shares[p], Shares, key)
    <3>1. \A d \in Others(p) : Sent[p][d] = Eval(know.poly[d], p)
      BY <2>1, <2>2 DEF Dkls23DealtFails
    <3>2. Total(know.dealt[p], Signers) = Shares[p]
      BY <1>1, <2>1, <3>1, DealtShare
    <3>3. Dkls23VerificationShares(p) = Shares /\ Secret(know.poly) = key
      BY <1>1 DEF Dkls23VerificationShares, Shares, Due, Drawn
    <3> QED BY <2>2, <3>2, <3>3
  <2>3. /\ DOMAIN answers = Signers
        /\ \A p \in Signers : \/ answers[p] = Refused
                              \/ answers[p] = KeyShare(Shares[p], Shares, key)
    BY <2>2
  <2> HIDE DEF answers
  <2>4. \A p \in Signers :
           \/ answers[p] \in {Waiting, Refused}
           \/ /\ answers[p].share = Shares[p] /\ answers[p].pk = key
              /\ \A d \in Signers : answers[p].points[d] = Shares[d]
    BY <2>3 DEF KeyShare
  <2>5. KeygenSession' /\ Drawn' /\ Handed(Shares)' /\ stage' = "ended" /\ protocol' = protocol
    BY <1>1, <2>1, <2>3, <2>4, DealersReturn
  <2> QED BY <1>1, <2>5 DEF Dkls23Keygen
<1> QED BY <1>2, <1>3 DEF Dkls23KeygenNext

-----------------------------------------------------------------------------
(* CGGMP20.                                                                  *)

Cggmp20KeygenStages ==
    {"cggmp20_keygen_1", "cggmp20_keygen_2", "cggmp20_keygen_3", "cggmp20_aux_1", "cggmp20_aux_3"}

Cggmp20Keygen ==
    /\ protocol = "cggmp20" /\ stage \in Cggmp20KeygenStages \cup {"ended"}
    /\ Drawn
    /\ stage = "cggmp20_keygen_2" => Has("dealt", {Sent, SentRight})
    /\ stage \in {"cggmp20_keygen_3", "cggmp20_aux_1", "cggmp20_aux_3"} => Has("x", {Shares})
    /\ stage = "ended" => Handed(Shares) /\ Cggmp20KeyEncrypted

LEMMA Cggmp20KeygenBegins ==
    ASSUME protocol = "cggmp20", Cggmp20KeygenBegin
    PROVE  Cggmp20Keygen
<1>1. PICK poly \in [Signers -> Dealt],
          fault \in IF bent = Straight THEN {"none"} ELSE {"opening", "share", "ring", "modulus"} :
          know = [poly |-> poly, fault |-> fault] /\ key = Secret(poly)
  BY DEF Cggmp20KeygenBegin
<1>2. Drawn
  BY <1>1, SigningAssumption DEF Drawn, Has
<1> QED BY <1>2 DEF Cggmp20KeygenBegin, Cggmp20Keygen, Cggmp20KeygenStages

LEMMA Cggmp20KeygenSteps ==
    ASSUME KeygenSession, Cggmp20Keygen, Cggmp20KeygenNext
    PROVE  KeygenSession' /\ Cggmp20Keygen'
<1>1. Participants = Signers /\ Drawn /\ protocol = "cggmp20"
  BY DEF Cggmp20Keygen, Participants, TwoParty
<1>2. CASE Cggmp20Deal
  <2> DEFINE sent == IF know.fault = "share" THEN Sent ELSE SentRight
             facts == [dealt |-> sent]
  <2>1. [p \in Signers |-> [d \in Signers |->
            IF know.fault = "share" THEN Bend(Eval(know.poly[d], p), d, p)
            ELSE Eval(know.poly[d], p)]] = sent
    BY DEF Sent, SentRight
  <2>2. Step("cggmp20_keygen_1", "cggmp20_keygen_2", facts)
    BY <1>2, <2>1 DEF Cggmp20Deal
  <2>3. "poly" \notin DOMAIN facts /\ "dealt" \in DOMAIN facts /\ facts["dealt"] \in {Sent, SentRight}
    OBVIOUS
  <2> HIDE DEF facts
  <2>4. KeygenSession' /\ Drawn' /\ Sent' = Sent /\ SentRight' = SentRight /\ stage' = "cggmp20_keygen_2"
        /\ protocol' = protocol /\ "dealt" \in DOMAIN know' /\ know'["dealt"] \in {Sent, SentRight}
    BY <1>1, <2>2, <2>3, DealersGoOn
  <2> QED BY <1>1, <2>4 DEF Cggmp20Keygen, Cggmp20KeygenStages, Has
<1>3. CASE Cggmp20Aggregate
  <2>1. stage = "cggmp20_keygen_2" /\ know.dealt \in {Sent, SentRight}
    BY <1>3 DEF Cggmp20Aggregate, Cggmp20Keygen, Has
  <2>2. CASE \E p \in Signers : Cggmp20Round2Fails(p)
    <3>1. \E answers \in [Signers -> {Waiting, Refused}] : Return("cggmp20_keygen_2", answers)
      BY <1>3, <2>2 DEF Cggmp20Aggregate
    <3>2. /\ KeygenSession' /\ Drawn' /\ Handed(Shares)' /\ stage' = "ended"
          /\ Holders' = {} /\ protocol' = protocol
      BY <1>1, <3>1, DealersRefuse
    <3> QED BY <1>1, <3>2 DEF Cggmp20Keygen, Cggmp20KeyEncrypted
  <2>3. CASE \A p \in Signers : ~Cggmp20Round2Fails(p)
    <3> DEFINE x == [p \in Signers |-> Total(know.dealt[p], Signers)]
               facts == [x |-> x]
    <3>1. Step("cggmp20_keygen_2", "cggmp20_keygen_3", facts)
      BY <1>3, <2>3 DEF Cggmp20Aggregate
    <3>2. ASSUME NEW p \in Signers PROVE x[p] = Shares[p]
      <4>1. \A d \in Others(p) : know.dealt[p][d] = Eval(know.poly[d], p)
        BY <2>1, <2>3 DEF Cggmp20Round2Fails, FeldmanVerify
      <4> QED BY <1>1, <2>1, <4>1, DealtShare
    <3>3. x = Shares
      BY <3>2 DEF Shares
    <3>4. "poly" \notin DOMAIN facts /\ "x" \in DOMAIN facts /\ facts["x"] = Shares
      BY <3>3
    <3> HIDE DEF facts
    <3>5. KeygenSession' /\ Drawn' /\ Shares' = Shares /\ stage' = "cggmp20_keygen_3"
          /\ protocol' = protocol /\ "x" \in DOMAIN know' /\ know'["x"] = Shares
      BY <1>1, <3>1, <3>4, DealersGoOn
    <3> QED BY <1>1, <3>5 DEF Cggmp20Keygen, Cggmp20KeygenStages, Has
  <2> QED BY <2>2, <2>3
\* The share stays with the parties while they exchange what else they need.
<1>4. ASSUME NEW from \in {"cggmp20_keygen_3", "cggmp20_aux_1"},
             NEW to \in {"cggmp20_aux_1", "cggmp20_aux_3"}, Pass(from, to)
      PROVE  KeygenSession' /\ Cggmp20Keygen'
  <2> DEFINE none == [x \in {} |-> 0]
  <2>1. "x" \in DOMAIN know /\ know["x"] = Shares
    BY <1>4 DEF Pass, Cggmp20Keygen, Has
  <2>2. "poly" \notin DOMAIN none /\ "x" \notin DOMAIN none
    OBVIOUS
  <2> HIDE DEF none
  <2>3. KeygenSession' /\ Drawn' /\ Shares' = Shares /\ stage' = to
        /\ protocol' = protocol /\ "x" \in DOMAIN know' /\ know'["x"] = Shares
    BY <1>1, <1>4, <2>1, <2>2, DealersGoOn DEF none
  <2> QED BY <1>1, <2>3 DEF Cggmp20Keygen, Cggmp20KeygenStages, Has
<1>5. ASSUME NEW from \in {"cggmp20_keygen_3", "cggmp20_aux_1"},
             \E answers \in [Signers -> {Waiting, Refused}] : Return(from, answers)
      PROVE  KeygenSession' /\ Cggmp20Keygen'
  <2>1. /\ KeygenSession' /\ Drawn' /\ Handed(Shares)' /\ stage' = "ended"
        /\ Holders' = {} /\ protocol' = protocol
    BY <1>1, <1>5, DealersRefuse
  <2> QED BY <1>1, <2>1 DEF Cggmp20Keygen, Cggmp20KeyEncrypted
<1>6. CASE Cggmp20Confirm
  <2>1. Everyone(Refused) \in [Signers -> {Waiting, Refused}]
    BY <1>1 DEF Everyone, KeygenSession
  <2> QED BY <1>4, <1>5, <1>6, <2>1 DEF Cggmp20Confirm
<1>7. CASE Cggmp20Ring
  BY <1>4, <1>5, <1>7 DEF Cggmp20Ring
<1>8. CASE Cggmp20AuxFinish
  <2> DEFINE new(p) == [index |-> Cggmp20Index(p), eks |-> Cggmp20Eks]
             answers == [p \in Signers |->
                 IF \E d \in Others(p) : Cggmp20At("modulus", d) THEN Refused
                 ELSE With(new(p), KeyShare(know.x[p], Cggmp20PublicShares, Secret(know.poly)))]
  <2>1. Return("cggmp20_aux_3", answers) /\ stage = "cggmp20_aux_3" /\ know.x = Shares
    BY <1>8 DEF Cggmp20AuxFinish, Return, Cggmp20Keygen, Has
  <2>2. Cggmp20PublicShares = Shares /\ Secret(know.poly) = key
    BY <1>1 DEF Cggmp20PublicShares, Shares, Due, Drawn
  <2>3. ASSUME NEW p \in Signers
        PROVE  \/ answers[p] = Refused
               \/ /\ answers[p].share = Shares[p] /\ answers[p].pk = key
                  /\ answers[p].points = Shares
                  /\ answers[p].index = Cggmp20Index(p) /\ answers[p].eks = Cggmp20Eks
    <3> DEFINE mine == With(new(p), KeyShare(know.x[p], Cggmp20PublicShares, Secret(know.poly)))
    <3>1. mine.share = Shares[p] /\ mine.pk = key /\ mine.points = Shares
      BY <2>1, <2>2 DEF With, KeyShare
    <3>2. mine.index = Cggmp20Index(p) /\ mine.eks = Cggmp20Eks
      BY DEF With, KeyShare
    <3> QED BY <3>1, <3>2
  <2>4. DOMAIN answers = Signers
    OBVIOUS
  <2> HIDE DEF answers
  <2>5. KeygenSession' /\ Drawn' /\ Handed(Shares)' /\ stage' = "ended" /\ answer' = answers /\ protocol' = protocol
    BY <1>1, <2>1, <2>3, <2>4, DealersReturn
  <2>6. \A p \in Signers : Cggmp20Index(p) \in DOMAIN Cggmp20Eks /\ Cggmp20Eks[Cggmp20Index(p)] = p
    <3>1. \A p \in Signers : p \in Int /\ p - 1 + 1 = p
      BY SignersType
    <3> QED BY <3>1 DEF Cggmp20Index, Cggmp20Eks
  <2>7. Cggmp20KeyEncrypted'
    <3> SUFFICES ASSUME NEW p \in Holders'
                 PROVE  (answer[p].index \in DOMAIN answer[p].eks /\ answer[p].eks[answer[p].index] = p)'
      BY DEF Cggmp20KeyEncrypted
    <3>1. p \in Signers /\ answers[p] # Refused
      BY <2>4, <2>5 DEF Holders
    <3> QED BY <2>3, <2>5, <2>6, <3>1
  <2> QED BY <1>1, <2>5, <2>7 DEF Cggmp20Keygen
<1> QED BY <1>2, <1>3, <1>6, <1>7, <1>8 DEF Cggmp20KeygenNext

-----------------------------------------------------------------------------
(* LN18.                                                                     *)

Ln18KeygenStages == {"ln18_keygen_1", "ln18_keygen_2", "ln18_keygen_3"}

Ln18Keygen ==
    /\ protocol = "ln18" /\ stage \in Ln18KeygenStages \cup {"ended"}
    /\ Drawn
    /\ stage = "ln18_keygen_2" => Has("dealt", {Sent})
    /\ stage = "ln18_keygen_3" => Has("x", {Shares})
    /\ stage = "ended" => Handed(Shares) /\ AllOrNobody

LEMMA Ln18KeygenBegins ==
    ASSUME protocol = "ln18", Ln18KeygenBegin
    PROVE  Ln18Keygen
<1>1. PICK poly \in [Signers -> Dealt], opens \in BOOLEAN :
          know = [poly |-> poly, opens |-> opens] /\ key = Secret(poly)
  BY DEF Ln18KeygenBegin
<1>2. Drawn
  BY <1>1, SigningAssumption DEF Drawn, Has
<1> QED BY <1>2 DEF Ln18KeygenBegin, Ln18Keygen, Ln18KeygenStages

LEMMA Ln18KeygenSteps ==
    ASSUME KeygenSession, Ln18Keygen, Ln18KeygenNext
    PROVE  KeygenSession' /\ Ln18Keygen'
<1>1. Participants = Signers /\ Drawn /\ protocol = "ln18"
  BY DEF Ln18Keygen, Participants, TwoParty
<1>2. CASE Ln18Deal
  <2>1. Step("ln18_keygen_1", "ln18_keygen_2", [dealt |-> Sent])
    BY <1>2 DEF Ln18Deal, Sent
  <2>2. KeygenSession' /\ Drawn' /\ Sent' = Sent /\ stage' = "ln18_keygen_2"
        /\ protocol' = protocol /\ "dealt" \in DOMAIN know' /\ know'["dealt"] = Sent
    <3> DEFINE facts == [dealt |-> Sent]
    <3>1. "poly" \notin DOMAIN facts /\ "dealt" \in DOMAIN facts /\ facts["dealt"] = Sent
      OBVIOUS
    <3> HIDE DEF facts
    <3> QED BY <1>1, <2>1, <3>1, DealersGoOn DEF facts
  <2> QED BY <1>1, <2>2 DEF Ln18Keygen, Ln18KeygenStages, Has
<1>3. CASE Ln18Aggregate
  <2>1. stage = "ln18_keygen_2" /\ know.dealt = Sent
    BY <1>3 DEF Ln18Aggregate, Ln18Keygen, Has
  <2>2. CASE \E p \in Signers : Ln18Round2Fails(p)
    <3> DEFINE answers == [p \in Signers |-> IF Ln18Round2Fails(p) THEN Refused ELSE Waiting]
    <3>1. Return("ln18_keygen_2", answers)
      BY <1>3, <2>2 DEF Ln18Aggregate
    <3>2. DOMAIN answers = Signers /\ \A p \in Signers : answers[p] \in {Waiting, Refused}
      OBVIOUS
    <3> HIDE DEF answers
    <3>3. /\ KeygenSession' /\ Drawn' /\ Handed(Shares)' /\ stage' = "ended"
          /\ answer' = answers /\ protocol' = protocol
      BY <1>1, <3>1, <3>2, DealersReturn
    <3>4. AllOrNobody'
      BY <3>2, <3>3 DEF AllOrNobody, Holders
    <3> QED BY <1>1, <3>3, <3>4 DEF Ln18Keygen
  <2>3. CASE \A p \in Signers : ~Ln18Round2Fails(p)
    <3> DEFINE x == [p \in Signers |-> Total(know.dealt[p], Signers)]
               facts == [x |-> x]
    <3>1. Step("ln18_keygen_2", "ln18_keygen_3", facts)
      BY <1>3, <2>3 DEF Ln18Aggregate
    <3>2. ASSUME NEW p \in Signers PROVE x[p] = Shares[p]
      <4>1. \A d \in Others(p) : Sent[p][d] = Eval(know.poly[d], p)
        BY <2>1, <2>3 DEF Ln18Round2Fails, FeldmanVerify
      <4> QED BY <1>1, <2>1, <4>1, DealtShare
    <3>3. x = Shares
      BY <3>2 DEF Shares
    <3>4. "poly" \notin DOMAIN facts /\ "x" \in DOMAIN facts /\ facts["x"] = Shares
      BY <3>3
    <3> HIDE DEF facts
    <3>5. KeygenSession' /\ Drawn' /\ Shares' = Shares /\ stage' = "ln18_keygen_3"
          /\ protocol' = protocol /\ "x" \in DOMAIN know' /\ know'["x"] = Shares
      BY <1>1, <3>1, <3>4, DealersGoOn
    <3> QED BY <1>1, <3>5 DEF Ln18Keygen, Ln18KeygenStages, Has
  <2> QED BY <2>2, <2>3
<1>4. CASE Ln18Confirm
  <2> DEFINE answers == [p \in Signers |-> KeyShare(Shares[p], Shares, key)]
  <2>1. stage = "ln18_keygen_3" /\ know.x = Shares
    BY <1>4 DEF Ln18Confirm, Return, Ln18Keygen, Has
  <2>2. Ln18PublicShares = Shares /\ Secret(know.poly) = key
    BY <1>1 DEF Ln18PublicShares, Shares, Due, Drawn
  <2>3. Return("ln18_keygen_3", answers)
    BY <1>4, <2>1, <2>2 DEF Ln18Confirm, Others
  <2>4. /\ DOMAIN answers = Signers
        /\ \A p \in Signers : /\ answers[p].share = Shares[p] /\ answers[p].pk = key
                              /\ answers[p].points = Shares /\ answers[p] # Refused
    BY KeyShareFields DEF KeyShare, Refused
  <2> HIDE DEF answers
  <2>5. /\ KeygenSession' /\ Drawn' /\ Handed(Shares)' /\ stage' = "ended"
        /\ answer' = answers /\ protocol' = protocol
    BY <1>1, <2>3, <2>4, DealersReturn
  <2>6. AllOrNobody'
    BY <2>4, <2>5 DEF AllOrNobody
  <2> QED BY <1>1, <2>5, <2>6 DEF Ln18Keygen
<1> QED BY <1>2, <1>3, <1>4 DEF Ln18KeygenNext

-----------------------------------------------------------------------------
(* XAL23.                                                                    *)

Xal23KeygenStages == {"xal23_keygen_2"}

Xal23Keygen ==
    /\ protocol = "xal23" /\ stage \in Xal23KeygenStages \cup {"ended"}
    /\ Drawn
    /\ stage = "ended" => Handed(Shares)

LEMMA Xal23KeygenBegins ==
    ASSUME protocol = "xal23", Xal23KeygenBegin
    PROVE  Xal23Keygen
<1>1. PICK poly \in [Signers -> Dealt], fault \in Faults({"opening", "share"}) :
          know = [poly |-> poly, fault |-> fault] /\ key = Secret(poly)
  BY DEF Xal23KeygenBegin
<1>2. Drawn
  BY <1>1, SigningAssumption DEF Drawn, Has
<1> QED BY <1>2 DEF Xal23KeygenBegin, Xal23Keygen, Xal23KeygenStages

LEMMA Xal23KeygenSteps ==
    ASSUME KeygenSession, Xal23Keygen, Xal23KeygenNext
    PROVE  KeygenSession' /\ Xal23Keygen'
<1>1. Participants = Signers /\ Drawn /\ protocol = "xal23"
  BY DEF Xal23Keygen, Participants, TwoParty
<1>2. CASE RefuseFaulty("xal23_keygen_2", "opening")
  <2>1. KeygenSession' /\ Drawn' /\ Handed(Shares)' /\ stage' = "ended" /\ protocol' = protocol
    BY <1>1, <1>2, DealersRefuse
  <2> QED BY <1>1, <2>1 DEF Xal23Keygen
<1>3. CASE ~RefuseFaulty("xal23_keygen_2", "opening")
  <2> DEFINE X == [j \in Signers |-> Dealers(know.poly, Position(j))]
             answers == [p \in Signers |->
                 IF \E d \in Others(p) : Faulty(d, "share") /\ p = Victim(d) THEN Refused
                 ELSE KeyShare(X[p], X, Secret(know.poly))]
  <2>1. Return("xal23_keygen_2", answers)
    BY <1>3 DEF Xal23KeygenNext, Xal23KeygenFinish
  <2>2. X = Shares /\ Secret(know.poly) = key
    BY <1>1, Everybody DEF Shares, Due, Drawn
  <2>3. /\ DOMAIN answers = Signers
        /\ \A p \in Signers : answers[p] = Refused \/ answers[p] = KeyShare(Shares[p], Shares, key)
    BY <2>2
  <2> HIDE DEF answers
  <2>4. \A p \in Signers :
           \/ answers[p] \in {Waiting, Refused}
           \/ /\ answers[p].share = Shares[p] /\ answers[p].pk = key
              /\ \A d \in Signers : answers[p].points[d] = Shares[d]
    BY <2>3 DEF KeyShare
  <2>5. KeygenSession' /\ Drawn' /\ Handed(Shares)' /\ stage' = "ended" /\ protocol' = protocol
    BY <1>1, <2>1, <2>3, <2>4, DealersReturn
  <2> QED BY <1>1, <2>5 DEF Xal23Keygen
<1> QED BY <1>2, <1>3

-----------------------------------------------------------------------------
(* LLZ25.                                                                    *)

Llz25KeygenStages == {"llz25_keygen_2", "llz25_keygen_3"}

Llz25Keygen ==
    /\ protocol = "llz25" /\ stage \in Llz25KeygenStages \cup {"ended"}
    /\ Drawn
    /\ stage = "llz25_keygen_3" => Has("x", {Shares}) /\ Has("peX", [Signers -> Int])
    /\ stage = "ended" => Handed(Shares) /\ Llz25KeyEncrypted

LEMMA Llz25KeygenBegins ==
    ASSUME protocol = "llz25", Llz25KeygenBegin
    PROVE  Llz25Keygen
<1>1. PICK poly \in [Signers -> Dealt], fault \in Faults({"opening", "share", "encoded"}) :
          know = [poly |-> poly, fault |-> fault] /\ key = Secret(poly)
  BY DEF Llz25KeygenBegin
<1>2. Drawn
  BY <1>1, SigningAssumption DEF Drawn, Has
<1> QED BY <1>2 DEF Llz25KeygenBegin, Llz25Keygen, Llz25KeygenStages

LEMMA Llz25KeygenSteps ==
    ASSUME KeygenSession, Llz25Keygen, Llz25KeygenNext
    PROVE  KeygenSession' /\ Llz25Keygen'
<1>1. Participants = Signers /\ Drawn /\ protocol = "llz25"
  BY DEF Llz25Keygen, Participants, TwoParty
<1>2. ASSUME \E where : RefuseFaulty("llz25_keygen_2", where) \/ RefuseVictim("llz25_keygen_2", where)
      PROVE  KeygenSession' /\ Llz25Keygen'
  <2>1. /\ KeygenSession' /\ Drawn' /\ Handed(Shares)' /\ Holders' = {}
        /\ stage' = "ended" /\ protocol' = protocol
    BY <1>1, <1>2, DealersRefuse
  <2> QED BY <1>1, <2>1 DEF Llz25Keygen, Llz25KeyEncrypted
<1>3. CASE Llz25Encode
  <2> DEFINE x == [p \in Signers |-> Dealers(know.poly, Position(p))]
             peX == [p \in Signers |-> Fl(Dealers(know.poly, Position(p)) + Off(p, "encoded"))]
             facts == [x |-> x, peX |-> peX]
  <2>1. CASE \E where : RefuseFaulty("llz25_keygen_2", where) \/ RefuseVictim("llz25_keygen_2", where)
    BY <1>2, <2>1
  <2>2. CASE Step("llz25_keygen_2", "llz25_keygen_3", facts)
    <3>1. x = Shares
      BY <1>1, Everybody DEF Shares, Due
    <3>2. peX \in [Signers -> Int]
      <4>1. ASSUME NEW p \in Signers PROVE Fl(Dealers(know.poly, Position(p)) + Off(p, "encoded")) \in Int
        <5>1. Dealers(know.poly, Position(p)) \in Int
          BY <1>1, PositionType, DueType DEF Due
        <5>2. Off(p, "encoded") \in Int
          BY OneFaulty DEF KeygenSession, Off
        <5> QED BY <5>1, <5>2, FlInt
      <4> QED BY <4>1
    <3>3. /\ "poly" \notin DOMAIN facts /\ {"x", "peX"} \subseteq DOMAIN facts
          /\ facts["x"] = Shares /\ facts["peX"] \in [Signers -> Int]
      BY <3>1, <3>2
    <3> HIDE DEF facts
    <3>4. KeygenSession' /\ Drawn' /\ Shares' = Shares /\ stage' = "llz25_keygen_3" /\ protocol' = protocol
          /\ "x" \in DOMAIN know' /\ know'["x"] = Shares
          /\ "peX" \in DOMAIN know' /\ know'["peX"] \in [Signers -> Int]
      BY <1>1, <2>2, <3>3, DealersGoOn
    <3> QED BY <1>1, <3>4, SameSigners DEF Llz25Keygen, Llz25KeygenStages, Has
  <2> QED BY <1>3, <2>1, <2>2 DEF Llz25Encode
<1>4. CASE Llz25KeygenFinish
  <2> DEFINE X == [j \in Signers |-> Dealers(know.poly, Position(j))]
             own(p) == [j \in Signers |-> IF j = p THEN know.x[p] ELSE know.peX[j]]
             answers == [p \in Signers |->
                 IF \E j \in Others(p) : ~Llz25Encodes(j, X[j]) THEN Refused
                 ELSE With([peX |-> own(p)], KeyShare(know.x[p], X, Secret(know.poly)))]
  <2>1. Return("llz25_keygen_3", answers) /\ stage = "llz25_keygen_3" /\ know.x = Shares /\ know.peX \in [Signers -> Int]
    BY <1>4 DEF Llz25KeygenFinish, Return, Llz25Keygen, Has
  <2>2. X = Shares /\ Secret(know.poly) = key
    BY <1>1, Everybody DEF Shares, Due, Drawn
  <2>3. ASSUME NEW p \in Signers
        PROVE  \/ answers[p] = Refused
               \/ /\ answers[p].share = Shares[p] /\ answers[p].pk = key
                  /\ answers[p].points = Shares
                  /\ \A j \in Signers : answers[p].peX[j] = Shares[j]
    <3> SUFFICES ASSUME ~\E j \in Others(p) : ~Llz25Encodes(j, X[j])
                 PROVE  /\ answers[p].share = Shares[p] /\ answers[p].pk = key
                        /\ answers[p].points = Shares
                        /\ \A j \in Signers : answers[p].peX[j] = Shares[j]
      OBVIOUS
    <3> DEFINE mine == With([peX |-> own(p)], KeyShare(know.x[p], X, Secret(know.poly)))
    <3>1. answers[p] = mine
      OBVIOUS
    <3>2. mine.share = Shares[p] /\ mine.pk = key /\ mine.points = Shares /\ mine.peX = own(p)
      BY <2>1, <2>2 DEF With, KeyShare
    <3>3. \A j \in Others(p) : know.peX[j] = Shares[j]
      BY <2>2 DEF Llz25Encodes, Others
    <3>4. \A j \in Signers : own(p)[j] = Shares[j]
      BY <2>1, <3>3 DEF Others
    <3> QED BY <3>1, <3>2, <3>4
  <2>4. DOMAIN answers = Signers
    OBVIOUS
  <2> HIDE DEF answers
  <2>5. KeygenSession' /\ Drawn' /\ Handed(Shares)' /\ stage' = "ended" /\ answer' = answers /\ protocol' = protocol
    BY <1>1, <2>1, <2>3, <2>4, DealersReturn
  <2>6. Llz25KeyEncrypted'
    <3> SUFFICES ASSUME NEW p \in Holders', NEW j \in Holders'
                 PROVE  (answer[p].peX[j] = answer[j].share)'
      BY DEF Llz25KeyEncrypted
    <3>1. p \in Signers /\ answers[p] # Refused /\ j \in Signers /\ answers[j] # Refused
      BY <2>4, <2>5 DEF Holders
    <3> QED BY <2>3, <2>5, <3>1
  <2> QED BY <1>1, <2>5, <2>6 DEF Llz25Keygen
<1> QED BY <1>3, <1>4 DEF Llz25KeygenNext

-----------------------------------------------------------------------------
(* TROUT.                                                                    *)

TroutKeygenStages == {"trout_keygen_2", "trout_keygen_3"}

TroutKeygen ==
    /\ protocol = "trout" /\ stage \in TroutKeygenStages \cup {"ended"}
    /\ Drawn
    /\ stage = "trout_keygen_3" => Has("x", {Shares}) /\ Has("ct", [Signers -> Int])
    /\ stage = "ended" => Handed(Shares) /\ TroutKeyEncrypted

LEMMA TroutKeygenBegins ==
    ASSUME protocol = "trout", TroutKeygenBegin
    PROVE  TroutKeygen
<1>1. PICK poly \in [Signers -> Dealt], fault \in Faults({"opening", "share", "encrypted"}) :
          know = [poly |-> poly, fault |-> fault] /\ key = Secret(poly)
  BY DEF TroutKeygenBegin
<1>2. Drawn
  BY <1>1, SigningAssumption DEF Drawn, Has
<1> QED BY <1>2 DEF TroutKeygenBegin, TroutKeygen, TroutKeygenStages

LEMMA TroutKeygenSteps ==
    ASSUME KeygenSession, TroutKeygen, TroutKeygenNext
    PROVE  KeygenSession' /\ TroutKeygen'
<1>1. Participants = Signers /\ Drawn /\ protocol = "trout"
  BY DEF TroutKeygen, Participants, TwoParty
<1>2. ASSUME \E where : RefuseFaulty("trout_keygen_2", where) \/ RefuseVictim("trout_keygen_2", where)
      PROVE  KeygenSession' /\ TroutKeygen'
  <2>1. /\ KeygenSession' /\ Drawn' /\ Handed(Shares)' /\ Holders' = {}
        /\ stage' = "ended" /\ protocol' = protocol
    BY <1>1, <1>2, DealersRefuse
  <2> QED BY <1>1, <2>1 DEF TroutKeygen, TroutKeyEncrypted
<1>3. CASE TroutEncrypt
  <2> DEFINE x == [p \in Signers |-> Dealers(know.poly, Position(p))]
             ct == [p \in Signers |-> Fl(Dealers(know.poly, Position(p)) + Off(p, "encrypted"))]
             facts == [x |-> x, ct |-> ct]
  <2>1. CASE \E where : RefuseFaulty("trout_keygen_2", where) \/ RefuseVictim("trout_keygen_2", where)
    BY <1>2, <2>1
  <2>2. CASE Step("trout_keygen_2", "trout_keygen_3", facts)
    <3>1. x = Shares
      BY <1>1, Everybody DEF Shares, Due
    <3>2. ct \in [Signers -> Int]
      <4>1. ASSUME NEW p \in Signers PROVE Fl(Dealers(know.poly, Position(p)) + Off(p, "encrypted")) \in Int
        <5>1. Dealers(know.poly, Position(p)) \in Int
          BY <1>1, PositionType, DueType DEF Due
        <5>2. Off(p, "encrypted") \in Int
          BY OneFaulty DEF KeygenSession, Off
        <5> QED BY <5>1, <5>2, FlInt
      <4> QED BY <4>1
    <3>3. /\ "poly" \notin DOMAIN facts /\ {"x", "ct"} \subseteq DOMAIN facts
          /\ facts["x"] = Shares /\ facts["ct"] \in [Signers -> Int]
      BY <3>1, <3>2
    <3> HIDE DEF facts
    <3>4. KeygenSession' /\ Drawn' /\ Shares' = Shares /\ stage' = "trout_keygen_3" /\ protocol' = protocol
          /\ "x" \in DOMAIN know' /\ know'["x"] = Shares
          /\ "ct" \in DOMAIN know' /\ know'["ct"] \in [Signers -> Int]
      BY <1>1, <2>2, <3>3, DealersGoOn
    <3> QED BY <1>1, <3>4, SameSigners DEF TroutKeygen, TroutKeygenStages, Has
  <2> QED BY <1>3, <2>1, <2>2 DEF TroutEncrypt
<1>4. CASE TroutKeygenFinish
  <2> DEFINE X == [j \in Signers |-> Dealers(know.poly, Position(j))]
             own(p) == [know.ct EXCEPT ![p] = know.x[p]]
             answers == [p \in Signers |->
                 IF \E j \in Others(p) : know.ct[j] # X[j] THEN Refused
                 ELSE With([ct |-> own(p)], KeyShare(know.x[p], X, Secret(know.poly)))]
  <2>1. Return("trout_keygen_3", answers) /\ stage = "trout_keygen_3" /\ know.x = Shares /\ know.ct \in [Signers -> Int]
    BY <1>4 DEF TroutKeygenFinish, Return, TroutKeygen, Has
  <2>2. X = Shares /\ Secret(know.poly) = key
    BY <1>1, Everybody DEF Shares, Due, Drawn
  <2>3. ASSUME NEW p \in Signers
        PROVE  \/ answers[p] = Refused
               \/ /\ answers[p].share = Shares[p] /\ answers[p].pk = key
                  /\ answers[p].points = Shares
                  /\ \A j \in Signers : answers[p].ct[j] = Shares[j]
    <3> SUFFICES ASSUME ~\E j \in Others(p) : know.ct[j] # X[j]
                 PROVE  /\ answers[p].share = Shares[p] /\ answers[p].pk = key
                        /\ answers[p].points = Shares
                        /\ \A j \in Signers : answers[p].ct[j] = Shares[j]
      OBVIOUS
    <3> DEFINE mine == With([ct |-> own(p)], KeyShare(know.x[p], X, Secret(know.poly)))
    <3>1. answers[p] = mine
      OBVIOUS
    <3>2. mine.share = Shares[p] /\ mine.pk = key /\ mine.points = Shares /\ mine.ct = own(p)
      BY <2>1, <2>2 DEF With, KeyShare
    <3>3. \A j \in Others(p) : know.ct[j] = Shares[j]
      BY <2>2 DEF Others
    <3>4. \A j \in Signers : own(p)[j] = Shares[j]
      BY <2>1, <3>3 DEF Others
    <3> QED BY <3>1, <3>2, <3>4
  <2>4. DOMAIN answers = Signers
    OBVIOUS
  <2> HIDE DEF answers
  <2>5. KeygenSession' /\ Drawn' /\ Handed(Shares)' /\ stage' = "ended" /\ answer' = answers /\ protocol' = protocol
    BY <1>1, <2>1, <2>3, <2>4, DealersReturn
  <2>6. TroutKeyEncrypted'
    <3> SUFFICES ASSUME NEW p \in Holders', NEW j \in Holders'
                 PROVE  (answer[p].ct[j] = answer[j].share)'
      BY DEF TroutKeyEncrypted
    <3>1. p \in Signers /\ answers[p] # Refused /\ j \in Signers /\ answers[j] # Refused
      BY <2>4, <2>5 DEF Holders
    <3> QED BY <2>3, <2>5, <3>1
  <2> QED BY <1>1, <2>5, <2>6 DEF TroutKeygen
<1> QED BY <1>3, <1>4 DEF TroutKeygenNext

-----------------------------------------------------------------------------
(* Publicly verified sharings: WMC24, TX25 and JTX25.                        *)

\* The sharings that everyone verifies: without a fault that goes unnoticed, the
\* decrypted shares are those that are due.
LEMMA SharesDealtRight ==
    ASSUME Drawn, NEW p \in Signers, know.fault # "sharing"
    PROVE  SharesDealt(know.poly, p) = Shares[p]
<1> DEFINE off == [d \in Signers |-> IF p = Victim(d) THEN Off(d, "sharing") ELSE 0]
<1>1. \A d \in Signers : off[d] = 0
  BY DEF Off
<1>2. Total(off, Signers) = 0
  <2>1. \A d \in Signers : off[d] \in Int /\ off[d] = Fl(0)
    BY <1>1, QAssumption DEF Fl
  <2> HIDE DEF off
  <2>2. SumFunctionOnSet(off, Signers) = 0
    BY <1>1, SignersType, SumZero
  <2> QED BY <2>2, QAssumption DEF Total, Fl
<1>3. Dealers(know.poly, p) \in Field /\ Dealers(know.poly, p) \in Int
  BY SignersType, DueType DEF Due
<1>4. Dealers(know.poly, p) + 0 = Dealers(know.poly, p)
  BY <1>3
<1> HIDE DEF off
<1>5. SharesDealt(know.poly, p) = Fl(Dealers(know.poly, p) + Total(off, Signers))
  BY DEF SharesDealt, off
<1> QED BY <1>2, <1>3, <1>4, <1>5, FlField DEF Shares, Due

LEMMA NotFaulty ==
    ASSUME bent \in Bent, NEW places, know.fault \in Faults(places), "none" \notin places,
           know.fault \notin places
    PROVE  know.fault = "none" /\ \A p \in Signers : bent[p] = 0
  BY OneFaulty DEF Faults

\* A return of anything.
LEMMA DealersEnd ==
    ASSUME KeygenSession, Drawn, NEW from, from # "ended", NEW answers,
           Return(from, answers), Participants = Signers, DOMAIN answers = Signers
    PROVE  /\ KeygenSession' /\ Drawn' /\ stage = from /\ stage' = "ended"
           /\ answer' = answers /\ UNCHANGED <<protocol, key, bent, know>>
<1>1. Returns(answers) /\ stage = from
  BY DEF Return, Returns
<1>2. KeygenSession'
  BY <1>1, SessionReturns
<1>3. "poly" \in DOMAIN know' /\ know'.poly = know.poly
  BY <1>1 DEF Drawn, Has, Returns
<1>4. Drawn'
  BY <1>1, <1>3, DrawnStays DEF Returns
<1> QED BY <1>1, <1>2, <1>4 DEF Returns

\* A second key that the dealers share, under which the holders decrypt.
LEMMA SecondKeyShared ==
    ASSUME NEW poly \in [Signers -> Polynomials(T)],
           NEW S \in SUBSET Signers, Cardinality(S) = T,
           NEW g, \A p \in S : g[p] = Dealers(poly, p)
    PROVE  /\ Reconstruct(g, S) = Secret(poly) /\ (CHOOSE p \in S : TRUE) \in S
           /\ Reconstruct([p \in Signers |-> Dealers(poly, p)], Signers) = Secret(poly)
<1>1. S \in SUBSET (1 .. Q - 1) /\ IsFiniteSet(S) /\ T \in Nat /\ T # 0
  BY SignersType, SigningAssumption, FS_Subset
<1>2. Reconstruct(g, S) = Secret(poly)
  BY <1>1, DealersInterpolate
<1>3. S # {}
  BY <1>1, FS_EmptySet
<1>4. Reconstruct([p \in Signers |-> Dealers(poly, p)], Signers) = Secret(poly)
  <2> DEFINE all == [p \in Signers |-> Dealers(poly, p)]
  <2>1. \A p \in Signers : all[p] = Dealers(poly, p)
    OBVIOUS
  <2> HIDE DEF all
  <2> QED BY <2>1, SignersType, DealersInterpolate
<1> QED BY <1>2, <1>3, <1>4

\* What has been decrypted, and what has been announced of it.
Revealed(x, X) ==
    /\ x \in [Signers -> Field] /\ X \in [Signers -> Field]
    /\ know.fault # "sharing" => x = Shares
    /\ know.fault # "announced" => X = x
    /\ \A p \in Signers : bent[p] = 0 => X[p] = x[p]
    /\ know.fault = "sharing" => Cardinality(Signers) < T + 2

\* What is made of it: shares that are due unless a sharing was wrong, points
\* that are theirs unless a wrong one was announced, and a public key, which is
\* that of the dealers unless there was either.
HandedOver ==
    /\ know.fault # "sharing" => \A p \in Holders : p \in Signers /\ answer[p].share = Shares[p]
    /\ know.fault # "announced" => \A p, d \in Holders : answer[p].points[d] = answer[d].share
    /\ know.fault \notin {"sharing", "announced"} => \A p \in Holders : answer[p].pk = key
    /\ \A p, d \in Holders : bent[p] = 0 /\ bent[d] = 0 => answer[p].pk = answer[d].pk
    /\ know.fault = "sharing" => Holders = {} \/ Cardinality(Signers) < T + 2

\* A party replaces its own point, or none.
OwnPoint(p, X) == X \in {know.X, [know.X EXCEPT ![p] = know.x[p]]}

\* What is decrypted, when nobody refuses.
LEMMA Reveals ==
    ASSUME KeygenSession, Drawn, ~SharingRefused, NEW places, "sharing" \in places,
           know.fault \in Faults(places), NEW x, NEW X,
           x = [p \in Signers |-> SharesDealt(know.poly, p)],
           X = [p \in Signers |-> Fl(x[p] + Off(p, "announced"))]
    PROVE  Revealed(x, X)
<1>1. \A p \in Signers : bent[p] \in Int /\ Off(p, "sharing") \in Int /\ Off(p, "announced") \in Int
  BY OneFaulty DEF KeygenSession, Off
<1>2. ASSUME NEW p \in Signers PROVE x[p] \in Field /\ x[p] \in Int
  <2> DEFINE g == [d \in Signers |-> IF p = Victim(d) THEN Off(d, "sharing") ELSE 0]
  <2>1. \A d \in Signers : g[d] \in Int
    BY <1>1
  <2>2. x[p] = Fl(Dealers(know.poly, p) + Total(g, Signers))
    BY DEF SharesDealt
  <2> HIDE DEF g
  <2>3. Total(g, Signers) \in Int /\ Dealers(know.poly, p) \in Int
    BY <2>1, IntsType, LagrangeInt, DealersType DEF Drawn, Has
  <2>4. Dealers(know.poly, p) + Total(g, Signers) \in Int
    BY <2>3
  <2> QED BY <2>2, <2>4, FlType, FlInt
<1>3. ASSUME NEW p \in Signers PROVE X[p] \in Field /\ (Off(p, "announced") = 0 => X[p] = x[p])
  <2>1. X[p] = Fl(x[p] + Off(p, "announced")) /\ x[p] + Off(p, "announced") \in Int
    BY <1>1, <1>2
  <2>2. Off(p, "announced") = 0 => x[p] + Off(p, "announced") = x[p]
    BY <1>2
  <2> QED BY <1>2, <2>1, <2>2, FlType, FlField
<1>4. x \in [Signers -> Field] /\ X \in [Signers -> Field]
  BY <1>2, <1>3
<1>5. ASSUME know.fault # "sharing" PROVE x = Shares
  <2>1. \A p \in Signers : x[p] = Shares[p]
    BY <1>5, SharesDealtRight
  <2> QED BY <1>4, <2>1 DEF Shares
<1>6. ASSUME know.fault # "announced" PROVE X = x
  <2>1. \A p \in Signers : X[p] = x[p]
    BY <1>3, <1>6 DEF Off
  <2> QED BY <1>4, <2>1
<1>7. \A p \in Signers : bent[p] = 0 => X[p] = x[p]
  BY <1>3 DEF Off
<1>8. ASSUME know.fault = "sharing" PROVE Cardinality(Signers) < T + 2
  <2>1. bent # Straight
    BY <1>8 DEF Faults
  <2>2. PICK d \in Signers : bent[d] # 0
    BY <2>1 DEF KeygenSession, Bent, Straight
  <2>3. Faulty(d, "sharing")
    BY <1>8, <2>2 DEF Faulty
  <2>4. ~(Cardinality(Signers) >= T + 2) /\ Cardinality(Signers) \in Int /\ T + 2 \in Int
    BY <2>3, Everybody, SignersType, SigningAssumption DEF SharingRefused
  <2> QED BY <2>4
<1> QED BY <1>4, <1>5, <1>6, <1>7, <1>8 DEF Revealed

LEMMA RevealedStays ==
    ASSUME NEW x, NEW X, Revealed(x, X), UNCHANGED <<protocol, bent>>, Shares' = Shares,
           know'.fault = know.fault, know'.x = x, know'.X = X
    PROVE  Revealed(know.x, know.X)'
<1>1. Signers' = Signers
  BY SameSigners
<1> QED BY <1>1 DEF Revealed

\* The key shares that are made of it.
LEMMA HandsOver ==
    ASSUME KeygenSession, Drawn, Revealed(know.x, know.X), NEW answers,
           answer' = answers, UNCHANGED <<protocol, key, bent, know>>, DOMAIN answers = Signers,
           \A p \in Signers : /\ answers[p].share = know.x[p]
                              /\ OwnPoint(p, answers[p].points)
                              /\ answers[p].pk = Reconstruct(answers[p].points, Signers)
    PROVE  HandedOver'
<1>1. Signers' = Signers
  BY SameSigners
<1>2. Shares' = Shares
  BY <1>1 DEF Shares, Due, Dealers
<1>3. Holders' \subseteq Signers
  BY DEF Holders
<1>4. know.fault # "sharing" => \A p \in Signers : answers[p].share = Shares[p]
  BY DEF Revealed
<1>5. know.X \in [Signers -> Field] /\ know.x \in [Signers -> Field]
  BY DEF Revealed
<1>6. \A p \in Signers : know.X[p] = know.x[p] => answers[p].points = know.X
  BY <1>5 DEF OwnPoint
<1>7. know.fault # "announced" => \A p \in Signers : answers[p].points = know.x
  BY <1>6 DEF Revealed
<1>8. know.fault # "announced" => \A p, d \in Signers : answers[p].points[d] = answers[d].share
  BY <1>7
<1>9. know.fault \notin {"sharing", "announced"} => \A p \in Signers : answers[p].pk = key
  <2>1. ASSUME know.fault \notin {"sharing", "announced"}, NEW p \in Signers PROVE answers[p].pk = key
    <3>1. answers[p].points = Shares
      BY <1>7, <2>1 DEF Revealed
    <3>2. \A i \in Signers : Shares[i] = Dealers(know.poly, i)
      BY DEF Shares, Due
    <3>3. Reconstruct(Shares, Signers) = Secret(know.poly)
      BY <3>2, SignersType, DealersInterpolate DEF Drawn, Has
    <3> QED BY <3>1, <3>3 DEF Drawn
  <2> QED BY <2>1
<1>10. \A p \in Signers : bent[p] = 0 => answers[p].pk = Reconstruct(know.X, Signers)
  BY <1>6 DEF Revealed
<1> QED BY <1>1, <1>2, <1>3, <1>4, <1>8, <1>9, <1>10 DEF HandedOver, Revealed

LEMMA HandedOverStutters ==
    ASSUME UNCHANGED <<protocol, bent, know, answer, key>>, Shares' = Shares
    PROVE  /\ HandedOver' = HandedOver
           /\ Revealed(know.x, know.X)' = Revealed(know.x, know.X)
<1>1. Signers' = Signers /\ Holders' = Holders
  BY SameSigners DEF Holders
<1> QED BY <1>1 DEF HandedOver, Revealed


Tx25KeygenStages == {"tx25_keygen_2", "tx25_keygen_3"}

Tx25Keygen ==
    /\ protocol = "tx25" /\ stage \in Tx25KeygenStages \cup {"ended"}
    /\ Drawn /\ Has("fault", Faults({"sharing", "announced"}))
    /\ stage = "tx25_keygen_3" => "x" \in DOMAIN know /\ "X" \in DOMAIN know /\ Revealed(know.x, know.X)
    /\ stage = "ended" => HandedOver

LEMMA Tx25KeygenBegins ==
    ASSUME protocol = "tx25", Tx25KeygenBegin
    PROVE  Tx25Keygen
<1>1. PICK poly \in [Signers -> Dealt], fault \in Faults({"sharing", "announced"}) :
          know = [poly |-> poly, fault |-> fault] /\ key = Secret(poly)
  BY DEF Tx25KeygenBegin
<1>2. Drawn /\ Has("fault", Faults({"sharing", "announced"}))
  BY <1>1, SigningAssumption DEF Drawn, Has
<1> QED BY <1>2 DEF Tx25KeygenBegin, Tx25Keygen, Tx25KeygenStages

LEMMA Tx25KeygenSteps ==
    ASSUME KeygenSession, Tx25Keygen, Tx25KeygenNext
    PROVE  KeygenSession' /\ Tx25Keygen'
<1>1. /\ Participants = Signers /\ Drawn /\ protocol = "tx25"
      /\ Has("fault", Faults({"sharing", "announced"}))
  BY DEF Tx25Keygen, Participants, TwoParty
<1>2. ASSUME NEW from \in Tx25KeygenStages,
             \E where : RefuseFaulty(from, where) \/ RefuseVictim(from, where)
      PROVE  KeygenSession' /\ Tx25Keygen'
  <2>1. /\ KeygenSession' /\ Drawn' /\ Holders' = {}
        /\ stage' = "ended" /\ UNCHANGED <<protocol, know, bent>>
    BY <1>1, <1>2, DealersRefuse DEF Tx25KeygenStages
  <2>2. Has("fault", Faults({"sharing", "announced"}))'
    BY <1>1, <2>1, SameSigners DEF Has, Faults, Straight
  <2>3. HandedOver'
    BY <2>1 DEF HandedOver
  <2> QED BY <1>1, <2>1, <2>2, <2>3 DEF Tx25Keygen
<1>3. CASE Tx25Announce
  <2> DEFINE x == [p \in Signers |-> SharesDealt(know.poly, p)]
             X == [p \in Signers |-> Fl(x[p] + Off(p, "announced"))]
             facts == [x |-> x, X |-> X]
  <2>1. CASE \E where : RefuseFaulty("tx25_keygen_2", where) \/ RefuseVictim("tx25_keygen_2", where)
    BY <1>2, <2>1 DEF Tx25KeygenStages
  <2>2. CASE ~SharingRefused /\ Step("tx25_keygen_2", "tx25_keygen_3", facts)
    <3>1. Revealed(x, X)
      BY <1>1, <2>2, Reveals DEF Has
    <3>2. /\ {"poly", "fault"} \cap DOMAIN facts = {} /\ {"x", "X"} \subseteq DOMAIN facts
          /\ facts["x"] = x /\ facts["X"] = X
      OBVIOUS
    <3>3. /\ "poly" \in DOMAIN know /\ "fault" \in DOMAIN know
      BY <1>1 DEF Drawn, Has
    <3> HIDE DEF x, X, facts
    <3>4. /\ KeygenSession' /\ Drawn' /\ Shares' = Shares /\ stage' = "tx25_keygen_3"
          /\ protocol' = protocol /\ bent' = bent
          /\ "x" \in DOMAIN know' /\ know'["x"] = x /\ "X" \in DOMAIN know' /\ know'["X"] = X
          /\ "fault" \in DOMAIN know' /\ know'["fault"] = know["fault"]
      BY <1>1, <2>2, <3>2, <3>3, DealersGoOn
    <3>5. Has("fault", Faults({"sharing", "announced"}))'
      BY <1>1, <3>4, SameSigners DEF Has, Faults, Straight
    <3>6. Revealed(know.x, know.X)'
      BY <3>1, <3>4, RevealedStays
    <3> QED BY <1>1, <3>4, <3>5, <3>6 DEF Tx25Keygen, Tx25KeygenStages, Has
  <2> QED BY <1>3, <2>1, <2>2 DEF Tx25Announce
<1>4. CASE Tx25KeygenFinish
  <2> DEFINE X(p) == [know.X EXCEPT ![p] = know.x[p]]
             answers == [p \in Signers |-> KeyShare(know.x[p], X(p), Reconstruct(X(p), Signers))]
  <2>2. CASE Return("tx25_keygen_3", answers)
    <3>1. Return("tx25_keygen_3", answers) /\ stage = "tx25_keygen_3" /\ DOMAIN answers = Signers
      BY <2>2 DEF Return
    <3>2. /\ KeygenSession' /\ Drawn' /\ stage' = "ended" /\ answer' = answers
          /\ UNCHANGED <<protocol, key, know, bent>>
      <4> HIDE DEF answers
      <4> QED BY <1>1, <3>1, DealersEnd DEF Tx25KeygenStages
    <3>3. Has("fault", Faults({"sharing", "announced"}))'
      BY <1>1, <3>2, SameSigners DEF Has, Faults, Straight
    <3>4. HandedOver'
      <4>1. Revealed(know.x, know.X)
        BY <3>1 DEF Tx25Keygen
      <4>2. \A p \in Signers : /\ answers[p].share = know.x[p] /\ answers[p].points = X(p)
                               /\ answers[p].pk = Reconstruct(X(p), Signers)
        BY DEF KeyShare
      <4>3. \A p \in Signers : OwnPoint(p, X(p))
        BY DEF OwnPoint
      <4> HIDE DEF answers, X
      <4> QED BY <1>1, <3>1, <3>2, <4>1, <4>2, <4>3, HandsOver
    <3> QED BY <1>1, <3>2, <3>3, <3>4 DEF Tx25Keygen
  <2> QED BY <1>4, <2>2 DEF Tx25KeygenFinish
<1> QED BY <1>3, <1>4 DEF Tx25KeygenNext


Jtx25KeygenStages == {"jtx25_keygen_2", "jtx25_keygen_3"}

Jtx25Keygen ==
    /\ protocol = "jtx25" /\ stage \in Jtx25KeygenStages \cup {"ended"}
    /\ Drawn /\ Has("fault", Faults({"sharing", "blinded", "reveal", "announced"}))
    /\ Has("cl", [Signers -> Polynomials(T)])
    /\ stage = "jtx25_keygen_3" => "x" \in DOMAIN know /\ "X" \in DOMAIN know /\ Revealed(know.x, know.X)
    /\ stage = "jtx25_keygen_3" => Has("clShare", {[p \in Signers |-> Dealers(know.cl, p)]})
    /\ stage = "ended" => HandedOver
    /\ stage = "ended" => Jtx25KeyEncrypted

LEMMA Jtx25KeygenBegins ==
    ASSUME protocol = "jtx25", Jtx25KeygenBegin
    PROVE  Jtx25Keygen
<1>1. PICK poly \in [Signers -> Dealt], one \in Dealt, fault \in Faults({"sharing", "blinded", "reveal", "announced"}) :
          know = [poly |-> poly, cl |-> [d \in Signers |-> one], fault |-> fault] /\ key = Secret(poly)
  BY DEF Jtx25KeygenBegin
<1>2. Drawn /\ Has("cl", [Signers -> Polynomials(T)]) /\ Has("fault", Faults({"sharing", "blinded", "reveal", "announced"}))
  BY <1>1, SigningAssumption DEF Drawn, Has
<1> QED BY <1>2 DEF Jtx25KeygenBegin, Jtx25Keygen, Jtx25KeygenStages

LEMMA Jtx25KeygenSteps ==
    ASSUME KeygenSession, Jtx25Keygen, Jtx25KeygenNext
    PROVE  KeygenSession' /\ Jtx25Keygen'
<1>1. /\ Participants = Signers /\ Drawn /\ protocol = "jtx25"
      /\ Has("fault", Faults({"sharing", "blinded", "reveal", "announced"})) /\ Has("cl", [Signers -> Polynomials(T)])
  BY DEF Jtx25Keygen, Participants, TwoParty
<1>2. ASSUME NEW from \in Jtx25KeygenStages,
             \E where : RefuseFaulty(from, where) \/ RefuseVictim(from, where)
      PROVE  KeygenSession' /\ Jtx25Keygen'
  <2>1. /\ KeygenSession' /\ Drawn' /\ Holders' = {}
        /\ stage' = "ended" /\ UNCHANGED <<protocol, know, bent>>
    BY <1>1, <1>2, DealersRefuse DEF Jtx25KeygenStages
  <2>2. Has("fault", Faults({"sharing", "blinded", "reveal", "announced"}))' /\ Has("cl", [Signers -> Polynomials(T)])'
    BY <1>1, <2>1, SameSigners DEF Has, Faults, Straight
  <2>3. HandedOver'
    BY <2>1 DEF HandedOver
  <2>4. Jtx25KeyEncrypted'
    <3>1. \A S \in SUBSET Holders' : Cardinality(S) # T
      BY <2>1, FS_EmptySet, SigningAssumption
    <3> QED BY <3>1 DEF Jtx25KeyEncrypted
  <2> QED BY <1>1, <2>1, <2>2, <2>3, <2>4 DEF Jtx25Keygen
<1>3. CASE Jtx25Announce
  <2> DEFINE x == [p \in Signers |-> SharesDealt(know.poly, p)]
             X == [p \in Signers |-> Fl(x[p] + Off(p, "announced"))]
             second == [p \in Signers |-> Dealers(know.cl, p)]
             facts == [x |-> x, X |-> X, clShare |-> second]
  <2>1. CASE \E where : RefuseFaulty("jtx25_keygen_2", where) \/ RefuseVictim("jtx25_keygen_2", where)
    BY <1>2, <2>1 DEF Jtx25KeygenStages
  <2>2. CASE ~SharingRefused /\ Step("jtx25_keygen_2", "jtx25_keygen_3", facts)
    <3>1. Revealed(x, X)
      BY <1>1, <2>2, Reveals DEF Has
    <3>2. /\ {"poly", "fault", "cl"} \cap DOMAIN facts = {} /\ {"x", "X", "clShare"} \subseteq DOMAIN facts
          /\ facts["x"] = x /\ facts["X"] = X /\ facts["clShare"] = second
      OBVIOUS
    <3>3. /\ "poly" \in DOMAIN know /\ "fault" \in DOMAIN know /\ "cl" \in DOMAIN know
      BY <1>1 DEF Drawn, Has
    <3> HIDE DEF x, X, facts, second
    <3>4. /\ KeygenSession' /\ Drawn' /\ Shares' = Shares /\ stage' = "jtx25_keygen_3"
          /\ protocol' = protocol /\ bent' = bent
          /\ "x" \in DOMAIN know' /\ know'["x"] = x /\ "X" \in DOMAIN know' /\ know'["X"] = X
          /\ "fault" \in DOMAIN know' /\ know'["fault"] = know["fault"]
          /\ "cl" \in DOMAIN know' /\ know'["cl"] = know["cl"]
          /\ "clShare" \in DOMAIN know' /\ know'["clShare"] = second
      BY <1>1, <2>2, <3>2, <3>3, DealersGoOn
    <3>5. Has("fault", Faults({"sharing", "blinded", "reveal", "announced"}))' /\ Has("cl", [Signers -> Polynomials(T)])'
      BY <1>1, <3>4, SameSigners DEF Has, Faults, Straight
    <3>6. Revealed(know.x, know.X)'
      BY <3>1, <3>4, RevealedStays
    <3>7. Has("clShare", {[p \in Signers |-> Dealers(know.cl, p)]})'
      <4>1. Signers' = Signers /\ know'.cl = know.cl
        BY <3>4, SameSigners
      <4>2. \A p : Dealers(know.cl, p)' = Dealers(know.cl, p)
        BY <4>1 DEF Dealers
      <4> QED BY <3>4, <4>1, <4>2 DEF Has, second
    <3> QED BY <1>1, <3>4, <3>5, <3>6, <3>7 DEF Jtx25Keygen, Jtx25KeygenStages, Has
  <2> QED BY <1>3, <2>1, <2>2 DEF Jtx25Announce
<1>4. CASE Jtx25KeygenFinish
  <2> DEFINE X(p) == [know.X EXCEPT ![p] = know.x[p]]
             answers == [p \in Signers |-> With([clShare |-> know.clShare[p], clPk |-> Secret(know.cl)], KeyShare(know.x[p], X(p), Reconstruct(X(p), Signers)))]
  <2>1. CASE RefuseFaulty("jtx25_keygen_3", "reveal")
    BY <1>2, <2>1 DEF Jtx25KeygenStages
  <2>2. CASE Return("jtx25_keygen_3", answers)
    <3>1. Return("jtx25_keygen_3", answers) /\ stage = "jtx25_keygen_3" /\ DOMAIN answers = Signers
      BY <2>2 DEF Return
    <3>2. /\ KeygenSession' /\ Drawn' /\ stage' = "ended" /\ answer' = answers
          /\ UNCHANGED <<protocol, key, know, bent>>
      <4> HIDE DEF answers
      <4> QED BY <1>1, <3>1, DealersEnd DEF Jtx25KeygenStages
    <3>3. Has("fault", Faults({"sharing", "blinded", "reveal", "announced"}))' /\ Has("cl", [Signers -> Polynomials(T)])'
      BY <1>1, <3>2, SameSigners DEF Has, Faults, Straight
    <3>4. HandedOver'
      <4>1. Revealed(know.x, know.X)
        BY <3>1 DEF Jtx25Keygen
      <4>2. \A p \in Signers : /\ answers[p].share = know.x[p] /\ answers[p].points = X(p)
                               /\ answers[p].pk = Reconstruct(X(p), Signers)
        BY DEF KeyShare, With
      <4>3. \A p \in Signers : OwnPoint(p, X(p))
        BY DEF OwnPoint
      <4> HIDE DEF answers, X
      <4> QED BY <1>1, <3>1, <3>2, <4>1, <4>2, <4>3, HandsOver
    <3>5. Jtx25KeyEncrypted'
      <4>1. know.clShare = [p \in Signers |-> Dealers(know.cl, p)] /\ know.cl \in [Signers -> Polynomials(T)]
        BY <1>1, <3>1 DEF Jtx25Keygen, Has
      <4>2. \A p \in Signers : /\ answers[p].clShare = Dealers(know.cl, p)
                                 /\ answers[p].clPk = Secret(know.cl)
        BY <4>1 DEF KeyShare, With
      <4> HIDE DEF answers
      <4>3. SUFFICES ASSUME NEW S \in SUBSET Holders', Cardinality(S) = T
                     PROVE  Reconstruct([p \in S |-> answer'[p].clShare], S) = answer'[CHOOSE p \in S : TRUE].clPk
        BY DEF Jtx25KeyEncrypted
      <4>4. S \in SUBSET Signers
        BY <3>1, <3>2 DEF Holders
      <4> DEFINE g == [p \in S |-> answer'[p].clShare]
      <4>5. \A p \in S : g[p] = Dealers(know.cl, p)
        BY <3>2, <4>2, <4>4
      <4> HIDE DEF g
      <4>6. /\ Reconstruct(g, S) = Secret(know.cl) /\ (CHOOSE p \in S : TRUE) \in S
             /\ Reconstruct([p \in Signers |-> Dealers(know.cl, p)], Signers) = Secret(know.cl)
        BY <4>1, <4>3, <4>4, <4>5, SecondKeyShared
      <4>7. answer'[CHOOSE p \in S : TRUE].clPk = Secret(know.cl)
        BY <3>2, <4>1, <4>2, <4>4, <4>6
      <4> QED BY <4>6, <4>7 DEF g
    <3> QED BY <1>1, <3>2, <3>3, <3>4, <3>5 DEF Jtx25Keygen
  <2> QED BY <1>4, <2>1, <2>2 DEF Jtx25KeygenFinish
<1> QED BY <1>3, <1>4 DEF Jtx25KeygenNext


Wmc24KeygenStages == {"wmc24_keygen_2", "wmc24_keygen_3"}

Wmc24Keygen ==
    /\ protocol = "wmc24" /\ stage \in Wmc24KeygenStages \cup {"ended"}
    /\ Drawn /\ Has("fault", Faults({"sharing", "announced"}))
    /\ Has("elgamal", [Signers -> Polynomials(T)])
    /\ stage = "wmc24_keygen_3" => "x" \in DOMAIN know /\ "X" \in DOMAIN know /\ Revealed(know.x, know.X)
    /\ stage = "wmc24_keygen_3" => Has("eldk", {[p \in Signers |-> Dealers(know.elgamal, p)]})
    /\ stage = "ended" => HandedOver
    /\ stage = "ended" => Wmc24KeyEncrypted

LEMMA Wmc24KeygenBegins ==
    ASSUME protocol = "wmc24", Wmc24KeygenBegin
    PROVE  Wmc24Keygen
<1>1. PICK poly \in [Signers -> Dealt], one \in Dealt, fault \in Faults({"sharing", "announced"}) :
          know = [poly |-> poly, elgamal |-> [d \in Signers |-> one], fault |-> fault] /\ key = Secret(poly)
  BY DEF Wmc24KeygenBegin
<1>2. Drawn /\ Has("elgamal", [Signers -> Polynomials(T)]) /\ Has("fault", Faults({"sharing", "announced"}))
  BY <1>1, SigningAssumption DEF Drawn, Has
<1> QED BY <1>2 DEF Wmc24KeygenBegin, Wmc24Keygen, Wmc24KeygenStages

LEMMA Wmc24KeygenSteps ==
    ASSUME KeygenSession, Wmc24Keygen, Wmc24KeygenNext
    PROVE  KeygenSession' /\ Wmc24Keygen'
<1>1. /\ Participants = Signers /\ Drawn /\ protocol = "wmc24"
      /\ Has("fault", Faults({"sharing", "announced"})) /\ Has("elgamal", [Signers -> Polynomials(T)])
  BY DEF Wmc24Keygen, Participants, TwoParty
<1>2. ASSUME NEW from \in Wmc24KeygenStages,
             \E where : RefuseFaulty(from, where) \/ RefuseVictim(from, where)
      PROVE  KeygenSession' /\ Wmc24Keygen'
  <2>1. /\ KeygenSession' /\ Drawn' /\ Holders' = {}
        /\ stage' = "ended" /\ UNCHANGED <<protocol, know, bent>>
    BY <1>1, <1>2, DealersRefuse DEF Wmc24KeygenStages
  <2>2. Has("fault", Faults({"sharing", "announced"}))' /\ Has("elgamal", [Signers -> Polynomials(T)])'
    BY <1>1, <2>1, SameSigners DEF Has, Faults, Straight
  <2>3. HandedOver'
    BY <2>1 DEF HandedOver
  <2>4. Wmc24KeyEncrypted'
    <3>1. \A S \in SUBSET Holders' : Cardinality(S) # T
      BY <2>1, FS_EmptySet, SigningAssumption
    <3> QED BY <3>1 DEF Wmc24KeyEncrypted
  <2> QED BY <1>1, <2>1, <2>2, <2>3, <2>4 DEF Wmc24Keygen
<1>3. CASE Wmc24Reveal
  <2> DEFINE x == [p \in Signers |-> SharesDealt(know.poly, p)]
             X == [p \in Signers |-> Fl(x[p] + Off(p, "announced"))]
             second == [p \in Signers |-> Dealers(know.elgamal, p)]
             facts == [x |-> x, eldk |-> second, X |-> X]
  <2>1. CASE \E where : RefuseFaulty("wmc24_keygen_2", where) \/ RefuseVictim("wmc24_keygen_2", where)
    BY <1>2, <2>1 DEF Wmc24KeygenStages
  <2>2. CASE ~SharingRefused /\ Step("wmc24_keygen_2", "wmc24_keygen_3", facts)
    <3>1. Revealed(x, X)
      BY <1>1, <2>2, Reveals DEF Has
    <3>2. /\ {"poly", "fault", "elgamal"} \cap DOMAIN facts = {} /\ {"x", "X", "eldk"} \subseteq DOMAIN facts
          /\ facts["x"] = x /\ facts["X"] = X /\ facts["eldk"] = second
      OBVIOUS
    <3>3. /\ "poly" \in DOMAIN know /\ "fault" \in DOMAIN know /\ "elgamal" \in DOMAIN know
      BY <1>1 DEF Drawn, Has
    <3> HIDE DEF x, X, facts, second
    <3>4. /\ KeygenSession' /\ Drawn' /\ Shares' = Shares /\ stage' = "wmc24_keygen_3"
          /\ protocol' = protocol /\ bent' = bent
          /\ "x" \in DOMAIN know' /\ know'["x"] = x /\ "X" \in DOMAIN know' /\ know'["X"] = X
          /\ "fault" \in DOMAIN know' /\ know'["fault"] = know["fault"]
          /\ "elgamal" \in DOMAIN know' /\ know'["elgamal"] = know["elgamal"]
          /\ "eldk" \in DOMAIN know' /\ know'["eldk"] = second
      BY <1>1, <2>2, <3>2, <3>3, DealersGoOn
    <3>5. Has("fault", Faults({"sharing", "announced"}))' /\ Has("elgamal", [Signers -> Polynomials(T)])'
      BY <1>1, <3>4, SameSigners DEF Has, Faults, Straight
    <3>6. Revealed(know.x, know.X)'
      BY <3>1, <3>4, RevealedStays
    <3>7. Has("eldk", {[p \in Signers |-> Dealers(know.elgamal, p)]})'
      <4>1. Signers' = Signers /\ know'.elgamal = know.elgamal
        BY <3>4, SameSigners
      <4>2. \A p : Dealers(know.elgamal, p)' = Dealers(know.elgamal, p)
        BY <4>1 DEF Dealers
      <4> QED BY <3>4, <4>1, <4>2 DEF Has, second
    <3> QED BY <1>1, <3>4, <3>5, <3>6, <3>7 DEF Wmc24Keygen, Wmc24KeygenStages, Has
  <2> QED BY <1>3, <2>1, <2>2 DEF Wmc24Reveal
<1>4. CASE Wmc24KeygenFinish
  <2> DEFINE X(p) == know.X
             answers == [p \in Signers |-> With([eldk |-> know.eldk[p], elek |-> Wmc24Joined(know.eldk)], KeyShare(know.x[p], X(p), Wmc24Joined(X(p))))]
  <2>2. CASE Return("wmc24_keygen_3", answers)
    <3>1. Return("wmc24_keygen_3", answers) /\ stage = "wmc24_keygen_3" /\ DOMAIN answers = Signers
      BY <2>2 DEF Return
    <3>2. /\ KeygenSession' /\ Drawn' /\ stage' = "ended" /\ answer' = answers
          /\ UNCHANGED <<protocol, key, know, bent>>
      <4> HIDE DEF answers
      <4> QED BY <1>1, <3>1, DealersEnd DEF Wmc24KeygenStages
    <3>3. Has("fault", Faults({"sharing", "announced"}))' /\ Has("elgamal", [Signers -> Polynomials(T)])'
      BY <1>1, <3>2, SameSigners DEF Has, Faults, Straight
    <3>4. HandedOver'
      <4>1. Revealed(know.x, know.X)
        BY <3>1 DEF Wmc24Keygen
      <4>2. \A p \in Signers : /\ answers[p].share = know.x[p] /\ answers[p].points = X(p)
                               /\ answers[p].pk = Reconstruct(X(p), Signers)
        BY DEF KeyShare, With, Wmc24Joined
      <4>3. \A p \in Signers : OwnPoint(p, X(p))
        BY DEF OwnPoint
      <4> HIDE DEF answers, X
      <4> QED BY <1>1, <3>1, <3>2, <4>1, <4>2, <4>3, HandsOver
    <3>5. Wmc24KeyEncrypted'
      <4>1. know.eldk = [p \in Signers |-> Dealers(know.elgamal, p)] /\ know.elgamal \in [Signers -> Polynomials(T)]
        BY <1>1, <3>1 DEF Wmc24Keygen, Has
      <4>2. \A p \in Signers : /\ answers[p].eldk = Dealers(know.elgamal, p)
                                 /\ answers[p].elek = Wmc24Joined(know.eldk)
        BY <4>1 DEF KeyShare, With
      <4> HIDE DEF answers
      <4>3. SUFFICES ASSUME NEW S \in SUBSET Holders', Cardinality(S) = T
                     PROVE  Reconstruct([p \in S |-> answer'[p].eldk], S) = answer'[CHOOSE p \in S : TRUE].elek
        BY DEF Wmc24KeyEncrypted
      <4>4. S \in SUBSET Signers
        BY <3>1, <3>2 DEF Holders
      <4> DEFINE g == [p \in S |-> answer'[p].eldk]
      <4>5. \A p \in S : g[p] = Dealers(know.elgamal, p)
        BY <3>2, <4>2, <4>4
      <4> HIDE DEF g
      <4>6. /\ Reconstruct(g, S) = Secret(know.elgamal) /\ (CHOOSE p \in S : TRUE) \in S
             /\ Reconstruct([p \in Signers |-> Dealers(know.elgamal, p)], Signers) = Secret(know.elgamal)
        BY <4>1, <4>3, <4>4, <4>5, SecondKeyShared
      <4>7. answer'[CHOOSE p \in S : TRUE].elek = Secret(know.elgamal)
        BY <3>2, <4>1, <4>2, <4>4, <4>6 DEF Wmc24Joined
      <4> QED BY <4>6, <4>7 DEF g
    <3> QED BY <1>1, <3>2, <3>3, <3>4, <3>5 DEF Wmc24Keygen
  <2> QED BY <1>4, <2>2 DEF Wmc24KeygenFinish
<1> QED BY <1>3, <1>4 DEF Wmc24KeygenNext

-----------------------------------------------------------------------------
(* WMY23.                                                                    *)

Wmy23KeygenStages == {"wmy23_keygen_1", "wmy23_keygen_3"}

Wmy23Keygen ==
    /\ protocol = "wmy23" /\ stage \in Wmy23KeygenStages \cup {"ended"}
    /\ Drawn
    /\ stage = "wmy23_keygen_3" => Has("x", {Shares}) /\ Has("X", [Signers -> Int])
    /\ stage = "ended" => Handed(Shares)

LEMMA Wmy23KeygenBegins ==
    ASSUME protocol = "wmy23", Wmy23KeygenBegin
    PROVE  Wmy23Keygen
<1>1. PICK poly \in [Signers -> Dealt], fault \in Faults({"share", "announced"}) :
          know = [poly |-> poly, fault |-> fault] /\ key = Secret(poly)
  BY DEF Wmy23KeygenBegin
<1>2. Drawn
  BY <1>1, SigningAssumption DEF Drawn, Has
<1> QED BY <1>2 DEF Wmy23KeygenBegin, Wmy23Keygen, Wmy23KeygenStages

LEMMA Wmy23KeygenSteps ==
    ASSUME KeygenSession, Wmy23Keygen, Wmy23KeygenNext
    PROVE  KeygenSession' /\ Wmy23Keygen'
<1>1. Participants = Signers /\ Drawn /\ protocol = "wmy23"
  BY DEF Wmy23Keygen, Participants, TwoParty
<1>2. Wmy23Shared(know.poly) = Shares
  BY Everybody DEF Wmy23Shared, Shares, Due
<1>3. CASE Wmy23Announce
  <2> DEFINE x == Wmy23Shared(know.poly)
             X == [p \in Signers |-> Fl(x[p] + Off(p, "announced"))]
             facts == [x |-> x, X |-> X]
  <2>1. CASE RefuseVictim("wmy23_keygen_1", "share")
    <3>1. KeygenSession' /\ Drawn' /\ Handed(Shares)' /\ stage' = "ended" /\ protocol' = protocol
      BY <1>1, <2>1, DealersRefuse
    <3> QED BY <1>1, <3>1 DEF Wmy23Keygen
  <2>2. CASE Step("wmy23_keygen_1", "wmy23_keygen_3", facts)
    <3>1. x = Shares
      BY <1>2
    <3>2. X \in [Signers -> Int]
      <4>1. ASSUME NEW p \in Signers PROVE Fl(Shares[p] + Off(p, "announced")) \in Int
        <5>1. Shares[p] \in Int
          BY <1>1, SignersType, DueType DEF Shares
        <5>2. Off(p, "announced") \in Int
          BY OneFaulty DEF KeygenSession, Off
        <5> QED BY <5>1, <5>2, FlInt
      <4> QED BY <3>1, <4>1
    <3>3. /\ "poly" \notin DOMAIN facts /\ {"x", "X"} \subseteq DOMAIN facts
          /\ facts["x"] = Shares /\ facts["X"] \in [Signers -> Int]
      BY <3>1, <3>2
    <3> HIDE DEF facts
    <3>4. KeygenSession' /\ Drawn' /\ Shares' = Shares /\ stage' = "wmy23_keygen_3" /\ protocol' = protocol
          /\ "x" \in DOMAIN know' /\ know'["x"] = Shares
          /\ "X" \in DOMAIN know' /\ know'["X"] \in [Signers -> Int]
      BY <1>1, <2>2, <3>3, DealersGoOn
    <3> QED BY <1>1, <3>4, SameSigners DEF Wmy23Keygen, Wmy23KeygenStages, Has
  <2> QED BY <1>3, <2>1, <2>2 DEF Wmy23Announce
<1>4. CASE Wmy23KeygenFinish
  <2> DEFINE X(p) == [know.X EXCEPT ![p] = know.x[p]]
             pk(p) == Total([i \in Signers |-> X(p)[i] * Lagrange(Positions, Position(i))], Signers)
             answers == [p \in Signers |->
                 IF \E d \in Others(p) : ~Wmy23ExpVf(d) THEN Refused
                 ELSE KeyShare(know.x[p], X(p), pk(p))]
  <2>1. /\ Return("wmy23_keygen_3", answers) /\ stage = "wmy23_keygen_3"
        /\ know.x = Shares /\ know.X \in [Signers -> Int]
    BY <1>4 DEF Wmy23KeygenFinish, Return, Wmy23Keygen, Has
  <2>2. Total([i \in Signers |-> Shares[i] * Lagrange(Positions, Position(i))], Signers) = key
    <3>1. Positions = Signers
      BY Everybody DEF Positions
    <3>2. [i \in Signers |-> Shares[i] * Lagrange(Positions, Position(i))]
            = [i \in Signers |-> Shares[i] * Lagrange(Signers, i)]
      BY <3>1, Everybody
    <3>3. \A i \in Signers : Shares[i] = Dealers(know.poly, i)
      BY DEF Shares, Due
    <3>4. Reconstruct(Shares, Signers) = Secret(know.poly)
      BY <1>1, <3>3, SignersType, DealersInterpolate DEF Drawn, Has
    <3> QED BY <1>1, <3>2, <3>4 DEF Reconstruct, Drawn
  <2>3. ASSUME NEW p \in Signers
        PROVE  answers[p] = Refused \/ answers[p] = KeyShare(Shares[p], Shares, key)
    <3> SUFFICES ASSUME ~\E d \in Others(p) : ~Wmy23ExpVf(d)
                 PROVE  answers[p] = KeyShare(Shares[p], Shares, key)
      OBVIOUS
    <3>1. \A d \in Others(p) : know.X[d] = Shares[d]
      BY <1>2 DEF Wmy23ExpVf
    <3>2. \A d \in Signers : X(p)[d] = Shares[d]
      BY <2>1, <3>1 DEF Others
    <3>3. X(p) = Shares
      BY <2>1, <3>2 DEF Shares
    <3>4. pk(p) = key
      <4>1. [i \in Signers |-> X(p)[i] * Lagrange(Positions, Position(i))]
              = [i \in Signers |-> Shares[i] * Lagrange(Positions, Position(i))]
        BY <3>2
      <4> QED BY <2>2, <4>1
    <3> QED BY <2>1, <3>3, <3>4
  <2>4. /\ DOMAIN answers = Signers
        /\ \A p \in Signers : answers[p] = Refused \/ answers[p] = KeyShare(Shares[p], Shares, key)
    BY <2>3
  <2> HIDE DEF answers, pk, X
  <2>5. \A p \in Signers :
           \/ answers[p] \in {Waiting, Refused}
           \/ /\ answers[p].share = Shares[p] /\ answers[p].pk = key
              /\ \A d \in Signers : answers[p].points[d] = Shares[d]
    BY <2>4 DEF KeyShare
  <2>6. KeygenSession' /\ Drawn' /\ Handed(Shares)' /\ stage' = "ended" /\ protocol' = protocol
    BY <1>1, <2>1, <2>4, <2>5, DealersReturn
  <2> QED BY <1>1, <2>6 DEF Wmy23Keygen
<1> QED BY <1>3, <1>4 DEF Wmy23KeygenNext

-----------------------------------------------------------------------------
(* Two-party key generation: LIN17, XAL21, KGG24 and ABC24.                  *)

\* Whoever of the two holds a share holds what it has drawn, and the points of
\* both: what P1 has drawn has one name, what P2 has drawn the other.
Parts(one, two) == OfTwo(know[one], know[two])
HandedTwo(one, two) == \A p \in {P1, P2} :
    \/ answer[p] \in {Waiting, Refused}
    \/ answer[p] = KeyShare(Parts(one, two)[p], Parts(one, two), key)

\* What the parties of a two-party protocol have drawn.
TwoDrawn == Has("x1", Scalars) /\ Has("x2", Scalars)

LEMMA TwoTotals ==
    ASSUME NEW f, f[P1] \in Int, f[P2] \in Int
    PROVE  /\ Total(f, {P1, P2}) = Fl(f[P1] + f[P2])
           /\ Product(f, {P1, P2}) = Fl(f[P1] * f[P2])
<1>1. P1 # P2
  BY Everybody
<1>2. /\ IsFiniteSet({P1, P2}) /\ IsFiniteSet({P2}) /\ \A x \in {P1, P2} : f[x] \in Int
      /\ {P1, P2} \ {P1} = {P2} /\ {P2} \ {P2} = {}
  <2>1. IsFiniteSet({P1, P2}) /\ IsFiniteSet({P2})
    BY Everybody, SignersType, FS_Subset
  <2> QED BY <1>1, <2>1
<1>3. /\ SumFunctionOnSet(f, {P1, P2}) = f[P1] + SumFunctionOnSet(f, {P2})
      /\ SumFunctionOnSet(f, {P2}) = f[P2] + SumFunctionOnSet(f, {})
      /\ SumFunctionOnSet(f, {}) = 0
  <2>1. SumFunctionOnSet(f, {P1, P2}) = f[P1] + SumFunctionOnSet(f, {P1, P2} \ {P1})
    BY <1>2, SumStep
  <2>2. SumFunctionOnSet(f, {P2}) = f[P2] + SumFunctionOnSet(f, {P2} \ {P2})
    BY <1>2, SumStep
  <2> QED BY <1>2, <2>1, <2>2, SumEmpty
<1>4. /\ Product(f, {P1, P2}) = Fl(f[P1] * Product(f, {P2}))
      /\ Product(f, {P2}) = Fl(f[P2] * Product(f, {}))
      /\ Product(f, {}) = 1
  <2>1. Product(f, {P1, P2}) = Fl(f[P1] * Product(f, {P1, P2} \ {P1}))
    BY <1>2, ProductStep
  <2>2. Product(f, {P2}) = Fl(f[P2] * Product(f, {P2} \ {P2}))
    BY <1>2, ProductStep
  <2> QED BY <1>2, <2>1, <2>2, ProductEmpty
<1>5. Product(f, {P2}) = Fl(f[P2])
  <2>1. f[P2] * 1 = f[P2]
    OBVIOUS
  <2> QED BY <1>4, <2>1
<1>6. Fl(f[P1] * Fl(f[P2])) = Fl(f[P1] * f[P2])
  BY FlMulRight
<1>7. SumFunctionOnSet(f, {P1, P2}) = f[P1] + f[P2]
  BY <1>3
<1> QED BY <1>4, <1>5, <1>6, <1>7 DEF Total

\* The steps of a two-party key generation.
LEMMA TwoGoOn ==
    ASSUME KeygenSession, TwoDrawn, NEW from, NEW to, NEW facts, from # "ended", to # "ended",
           Step(from, to, facts) \/ (Pass(from, to) /\ facts = [x \in {} |-> 0]),
           {"x1", "x2"} \cap DOMAIN facts = {}
    PROVE  /\ KeygenSession' /\ TwoDrawn'
           /\ stage = from /\ stage' = to /\ UNCHANGED <<protocol, key, bent, answer>>
           /\ know'.x1 = know.x1 /\ know'.x2 = know.x2
           /\ \A x \in DOMAIN facts : x \in DOMAIN know' /\ know'[x] = facts[x]
           /\ \A x \in DOMAIN know : x \notin DOMAIN facts => x \in DOMAIN know' /\ know'[x] = know[x]
<1>1. /\ stage = from /\ GoesOn(to, know')
      /\ \A x \in DOMAIN facts : x \in DOMAIN know' /\ know'[x] = facts[x]
      /\ \A x \in DOMAIN know : x \notin DOMAIN facts => x \in DOMAIN know' /\ know'[x] = know[x]
  BY StepGoesOn
<1>2. KeygenSession'
  BY <1>1, SessionGoesOn
<1>3. TwoDrawn' /\ know'.x1 = know.x1 /\ know'.x2 = know.x2
  BY <1>1 DEF TwoDrawn, Has
<1> QED BY <1>1, <1>2, <1>3 DEF GoesOn

LEMMA TwoPass ==
    ASSUME KeygenSession, TwoDrawn, NEW from, NEW to, from # "ended", to # "ended", Pass(from, to)
    PROVE  /\ KeygenSession' /\ TwoDrawn'
           /\ stage = from /\ stage' = to /\ UNCHANGED <<protocol, key, bent, know, answer>>
<1>1. GoesOn(to, know') /\ stage = from /\ stage' = to /\ UNCHANGED <<protocol, key, bent, know, answer>>
  BY DEF Pass, GoesOn
<1>2. KeygenSession'
  BY <1>1, SessionGoesOn
<1>3. TwoDrawn'
  BY <1>1 DEF TwoDrawn, Has
<1> QED BY <1>1, <1>2, <1>3

LEMMA TwoReturn ==
    ASSUME KeygenSession, TwoDrawn, protocol \in TwoParty, NEW from, from # "ended",
           NEW one, NEW two, NEW of1, NEW of2, Return(from, OfTwo(of1, of2)),
           of1 \in {Waiting, Refused, KeyShare(know[one], Parts(one, two), key)},
           of2 \in {Waiting, Refused, KeyShare(know[two], Parts(one, two), key)}
    PROVE  /\ KeygenSession' /\ TwoDrawn' /\ HandedTwo(one, two)'
           /\ stage = from /\ stage' = "ended" /\ UNCHANGED <<protocol, key, bent, know>>
           /\ of2 \in {Waiting, Refused} => P2' \notin Holders'
<1>1. Participants = {P1, P2} /\ DOMAIN OfTwo(of1, of2) = {P1, P2}
  BY DEF Participants, OfTwo
<1>2. Returns(OfTwo(of1, of2)) /\ stage = from
  BY <1>1 DEF Return, Returns
<1>3. KeygenSession'
  BY <1>2, SessionReturns
<1>4. /\ stage' = "ended" /\ UNCHANGED <<protocol, key, bent, know>> /\ answer' = OfTwo(of1, of2)
      /\ P1' = P1 /\ P2' = P2 /\ P1 # P2
  BY <1>2, SameParties, Everybody DEF Returns
<1>5. TwoDrawn'
  BY <1>4 DEF TwoDrawn, Has
<1>6. /\ answer'[P1] = of1 /\ answer'[P2] = of2 /\ DOMAIN answer' = {P1, P2}
      /\ Parts(one, two)[P1] = know[one] /\ Parts(one, two)[P2] = know[two]
      /\ Parts(one, two)' = Parts(one, two)
  BY <1>4 DEF OfTwo, Parts
<1>7. HandedTwo(one, two)'
  BY <1>4, <1>6 DEF HandedTwo
<1>8. of2 \in {Waiting, Refused} => P2' \notin Holders'
  BY <1>4, <1>6 DEF Holders
<1> QED BY <1>2, <1>3, <1>4, <1>5, <1>7, <1>8

\* One of the two finds a fault, and the other waits.
LEMMA TwoRefuse ==
    ASSUME KeygenSession, TwoDrawn, protocol \in TwoParty, NEW from, from # "ended",
           \/ Return(from, OfTwo(Refused, Waiting))
           \/ Return(from, OfTwo(Waiting, Refused))
    PROVE  /\ KeygenSession' /\ TwoDrawn' /\ HandedTwo("x1", "x2")' /\ HandedTwo("x2", "x1")'
           /\ stage = from /\ stage' = "ended" /\ UNCHANGED <<protocol, key, bent, know>>
           /\ P2' \notin Holders'
<1> DEFINE two == {Waiting, Refused}
<1>1. PICK of1 \in two, of2 \in two : Return(from, OfTwo(of1, of2))
  OBVIOUS
<1>2. ASSUME NEW one, NEW other
      PROVE  /\ KeygenSession' /\ TwoDrawn' /\ HandedTwo(one, other)'
             /\ stage = from /\ stage' = "ended" /\ UNCHANGED <<protocol, key, bent, know>>
             /\ P2' \notin Holders'
  <2>1. /\ of1 \in {Waiting, Refused, KeyShare(know[one], Parts(one, other), key)}
        /\ of2 \in {Waiting, Refused, KeyShare(know[other], Parts(one, other), key)}
    BY <1>1
  <2> QED BY <1>1, <2>1, TwoReturn
<1>3. HandedTwo("x1", "x2")'
  BY <1>2
<1>4. HandedTwo("x2", "x1")'
  BY <1>2
<1> QED BY <1>2, <1>3, <1>4

-----------------------------------------------------------------------------
(* XAL21.                                                                    *)

Xal21KeygenStages == {"xal21_keygen_1", "xal21_keygen_2", "xal21_keygen_3"}

Xal21Keygen ==
    /\ protocol = "xal21" /\ stage \in Xal21KeygenStages \cup {"ended"}
    /\ TwoDrawn /\ key = Fl(know.x1 + know.x2)
    /\ stage = "ended" => HandedTwo("x1", "x2")

LEMMA Xal21KeygenBegins ==
    ASSUME protocol = "xal21", Xal21KeygenBegin
    PROVE  Xal21Keygen
  BY DEF Xal21KeygenBegin, Xal21Keygen, Xal21KeygenStages, TwoDrawn, Has

LEMMA Xal21KeygenSteps ==
    ASSUME KeygenSession, Xal21Keygen, Xal21KeygenNext
    PROVE  KeygenSession' /\ Xal21Keygen'
<1>1. TwoDrawn /\ key = Fl(know.x1 + know.x2) /\ protocol = "xal21" /\ protocol \in TwoParty
  BY DEF Xal21Keygen, TwoParty
<1>2. CASE Xal21SendQ2
  <2>1. PICK proven \in {TRUE, bent[P2] = 0} :
            Step("xal21_keygen_1", "xal21_keygen_2", [proven |-> proven])
    BY <1>2 DEF Xal21SendQ2
  <2> DEFINE facts == [proven |-> proven]
  <2>2. {"x1", "x2"} \cap DOMAIN facts = {}
    OBVIOUS
  <2> HIDE DEF facts
  <2>3. /\ KeygenSession' /\ TwoDrawn' /\ stage' = "xal21_keygen_2" /\ protocol' = protocol
        /\ key' = key /\ know'.x1 = know.x1 /\ know'.x2 = know.x2
    BY <1>1, <2>1, <2>2, TwoGoOn DEF facts
  <2> QED BY <1>1, <2>3 DEF Xal21Keygen, Xal21KeygenStages
<1>3. CASE Xal21OpenQ1
  <2>1. CASE Pass("xal21_keygen_2", "xal21_keygen_3")
    <3>1. /\ KeygenSession' /\ TwoDrawn' /\ stage' = "xal21_keygen_3"
          /\ protocol' = protocol /\ key' = key /\ know' = know
      BY <1>1, <2>1, TwoPass
    <3> QED BY <1>1, <3>1 DEF Xal21Keygen, Xal21KeygenStages
  <2>2. CASE Return("xal21_keygen_2", OfTwo(Refused, Waiting))
    <3>1. /\ KeygenSession' /\ TwoDrawn' /\ HandedTwo("x1", "x2")'
          /\ stage' = "ended" /\ UNCHANGED <<protocol, key, know>>
      BY <1>1, <2>2, TwoRefuse
    <3> QED BY <1>1, <3>1 DEF Xal21Keygen
  <2> QED BY <1>3, <2>1, <2>2 DEF Xal21OpenQ1
<1>4. CASE Xal21KeygenFinish
  <2> DEFINE one == KeyShare(know.x1, Parts("x1", "x2"), key)
             two == KeyShare(know.x2, Parts("x1", "x2"), key)
             of2 == IF know.opens THEN two ELSE Refused
  <2>1. Xal21Share(P1) = one /\ Xal21Share(P2) = two
    BY <1>1, Everybody DEF Xal21Share, Xal21PublicShares, OfTwo, Parts
  <2>2. Return("xal21_keygen_3", OfTwo(one, of2))
    BY <1>4, <2>1 DEF Xal21KeygenFinish
  <2>3. one \in {Waiting, Refused, one} /\ of2 \in {Waiting, Refused, two}
    OBVIOUS
  <2> HIDE DEF of2
  <2>4. /\ KeygenSession' /\ TwoDrawn' /\ HandedTwo("x1", "x2")'
        /\ stage' = "ended" /\ UNCHANGED <<protocol, key, know>>
    BY <1>1, <2>2, <2>3, TwoReturn
  <2> QED BY <1>1, <2>4 DEF Xal21Keygen
<1> QED BY <1>2, <1>3, <1>4 DEF Xal21KeygenNext

-----------------------------------------------------------------------------
(* ABC24.                                                                    *)

Abc24KeygenStages == {"abc24_keygen_1", "abc24_keygen_2", "abc24_keygen_3"}

Abc24Keygen ==
    /\ protocol = "abc24" /\ stage \in Abc24KeygenStages \cup {"ended"}
    /\ TwoDrawn /\ key = Fl(know.x1 + know.x2)
    /\ stage = "ended" => HandedTwo("x2", "x1")

LEMMA Abc24KeygenBegins ==
    ASSUME protocol = "abc24", Abc24KeygenBegin
    PROVE  Abc24Keygen
  BY DEF Abc24KeygenBegin, Abc24Keygen, Abc24KeygenStages, TwoDrawn, Has

LEMMA Abc24KeygenSteps ==
    ASSUME KeygenSession, Abc24Keygen, Abc24KeygenNext
    PROVE  KeygenSession' /\ Abc24Keygen'
<1>1. TwoDrawn /\ key = Fl(know.x1 + know.x2) /\ protocol = "abc24" /\ protocol \in TwoParty
  BY DEF Abc24Keygen, TwoParty
<1>2. CASE Abc24SendX1
  <2>1. PICK proven \in {TRUE, bent[Abc24Client] = 0} :
            Step("abc24_keygen_1", "abc24_keygen_2", [proven |-> proven])
    BY <1>2 DEF Abc24SendX1
  <2> DEFINE facts == [proven |-> proven]
  <2>2. {"x1", "x2"} \cap DOMAIN facts = {}
    OBVIOUS
  <2> HIDE DEF facts
  <2>3. /\ KeygenSession' /\ TwoDrawn' /\ stage' = "abc24_keygen_2" /\ protocol' = protocol
        /\ key' = key /\ know'.x1 = know.x1 /\ know'.x2 = know.x2
    BY <1>1, <2>1, <2>2, TwoGoOn DEF facts
  <2> QED BY <1>1, <2>3 DEF Abc24Keygen, Abc24KeygenStages
<1>3. CASE Abc24OpenX2
  <2> DEFINE facts == [encX2 |-> Fl(know.x2 + bent[Abc24Server])]
  <2>1. CASE Step("abc24_keygen_2", "abc24_keygen_3", facts)
    <3>1. {"x1", "x2"} \cap DOMAIN facts = {}
      OBVIOUS
    <3> HIDE DEF facts
    <3>2. /\ KeygenSession' /\ TwoDrawn' /\ stage' = "abc24_keygen_3" /\ protocol' = protocol
          /\ key' = key /\ know'.x1 = know.x1 /\ know'.x2 = know.x2
      BY <1>1, <2>1, <3>1, TwoGoOn
    <3> QED BY <1>1, <3>2 DEF Abc24Keygen, Abc24KeygenStages
  <2>2. CASE Return("abc24_keygen_2", OfTwo(Refused, Waiting))
    <3>1. /\ KeygenSession' /\ TwoDrawn' /\ HandedTwo("x2", "x1")'
          /\ stage' = "ended" /\ UNCHANGED <<protocol, key, know>>
      BY <1>1, <2>2, TwoRefuse
    <3> QED BY <1>1, <3>1 DEF Abc24Keygen
  <2> QED BY <1>3, <2>1, <2>2 DEF Abc24OpenX2
<1>4. CASE Abc24KeygenFinish
  <2> DEFINE one == KeyShare(know.x2, Parts("x2", "x1"), key)
             two == KeyShare(know.x1, Parts("x2", "x1"), key)
             of2 == IF Abc24Opens THEN two ELSE Refused
  <2>1. Abc24Share(Abc24Server) = one /\ Abc24Share(Abc24Client) = two
    BY <1>1, Everybody DEF Abc24Share, Abc24PublicShares, Abc24Server, Abc24Client, OfTwo, Parts
  <2>2. Return("abc24_keygen_3", OfTwo(one, of2))
    BY <1>4, <2>1 DEF Abc24KeygenFinish
  <2>3. one \in {Waiting, Refused, one} /\ of2 \in {Waiting, Refused, two}
    OBVIOUS
  <2> HIDE DEF of2
  <2>4. /\ KeygenSession' /\ TwoDrawn' /\ HandedTwo("x2", "x1")'
        /\ stage' = "ended" /\ UNCHANGED <<protocol, key, know>>
    BY <1>1, <2>2, <2>3, TwoReturn
  <2> QED BY <1>1, <2>4 DEF Abc24Keygen
<1> QED BY <1>2, <1>3, <1>4 DEF Abc24KeygenNext

-----------------------------------------------------------------------------
(* KGG24.                                                                    *)

Kgg24KeygenStages == {"kgg24_keygen_1", "kgg24_keygen_2", "kgg24_keygen_3"}

Kgg24Keygen ==
    /\ protocol = "kgg24" /\ stage \in Kgg24KeygenStages \cup {"ended"}
    /\ TwoDrawn /\ key = Fl(know.x1 + know.x2)
    /\ stage = "kgg24_keygen_3" => Fl(know.cKey) = know.x1
    /\ stage = "ended" => HandedTwo("x1", "x2") /\ Kgg24KeyEncrypted

LEMMA Kgg24KeygenBegins ==
    ASSUME protocol = "kgg24", Kgg24KeygenBegin
    PROVE  Kgg24Keygen
  BY DEF Kgg24KeygenBegin, Kgg24Keygen, Kgg24KeygenStages, TwoDrawn, Has

LEMMA Kgg24KeygenSteps ==
    ASSUME KeygenSession, Kgg24Keygen, Kgg24KeygenNext
    PROVE  KeygenSession' /\ Kgg24Keygen'
<1>1. TwoDrawn /\ key = Fl(know.x1 + know.x2) /\ protocol = "kgg24" /\ protocol \in TwoParty
  BY DEF Kgg24Keygen, TwoParty
<1>2. CASE Kgg24EncryptKey
  <2>1. PICK t \in Kgg24Noise :
            Step("kgg24_keygen_1", "kgg24_keygen_2", [cKey |-> know.x1 + bent[P1] + t * Q])
    BY <1>2 DEF Kgg24EncryptKey
  <2> DEFINE facts == [cKey |-> know.x1 + bent[P1] + t * Q]
  <2>2. {"x1", "x2"} \cap DOMAIN facts = {}
    OBVIOUS
  <2> HIDE DEF facts
  <2>3. /\ KeygenSession' /\ TwoDrawn' /\ stage' = "kgg24_keygen_2" /\ protocol' = protocol
        /\ key' = key /\ know'.x1 = know.x1 /\ know'.x2 = know.x2
    BY <1>1, <2>1, <2>2, TwoGoOn DEF facts
  <2> QED BY <1>1, <2>3 DEF Kgg24Keygen, Kgg24KeygenStages
<1>3. CASE Kgg24OpenX2
  <2>1. CASE Kgg24Encrypts(know.cKey, know.x1)
    <3>1. Pass("kgg24_keygen_2", "kgg24_keygen_3")
      BY <1>3, <2>1 DEF Kgg24OpenX2
    <3>2. /\ KeygenSession' /\ TwoDrawn' /\ stage' = "kgg24_keygen_3"
          /\ protocol' = protocol /\ key' = key /\ know' = know
      BY <1>1, <3>1, TwoPass
    <3> QED BY <1>1, <2>1, <3>2 DEF Kgg24Keygen, Kgg24KeygenStages, Kgg24Encrypts
  <2>2. CASE Return("kgg24_keygen_2", OfTwo(Waiting, Refused))
    <3>1. /\ KeygenSession' /\ TwoDrawn' /\ HandedTwo("x1", "x2")' /\ P2' \notin Holders'
          /\ stage' = "ended" /\ UNCHANGED <<protocol, key, know>>
      BY <1>1, <2>2, TwoRefuse
    <3> QED BY <1>1, <3>1 DEF Kgg24Keygen, Kgg24KeyEncrypted
  <2> QED BY <1>3, <2>1, <2>2 DEF Kgg24OpenX2
<1>4. CASE Kgg24KeygenFinish
  <2> DEFINE one == KeyShare(know.x1, Parts("x1", "x2"), key)
             two == KeyShare(know.x2, Parts("x1", "x2"), key)
             of1 == IF know.opens THEN one ELSE Refused
  <2>1. Kgg24Share(P1) = one /\ Kgg24Share(P2) = two
    BY <1>1, Everybody DEF Kgg24Share, Kgg24PublicShares, OfTwo, Parts
  <2>2. Return("kgg24_keygen_3", OfTwo(of1, two)) /\ stage = "kgg24_keygen_3"
    BY <1>4, <2>1 DEF Kgg24KeygenFinish, Return
  <2>3. of1 \in {Waiting, Refused, one} /\ two \in {Waiting, Refused, two}
    OBVIOUS
  <2> HIDE DEF of1
  <2>4. /\ KeygenSession' /\ TwoDrawn' /\ HandedTwo("x1", "x2")'
        /\ stage' = "ended" /\ UNCHANGED <<protocol, key, know>>
    BY <1>1, <2>2, <2>3, TwoReturn
  <2> QED BY <1>1, <2>2, <2>4 DEF Kgg24Keygen, Kgg24KeyEncrypted
<1> QED BY <1>2, <1>3, <1>4 DEF Kgg24KeygenNext

-----------------------------------------------------------------------------
(* LIN17.                                                                    *)

Lin17KeygenStages ==
    {"lin17_keygen_1", "lin17_keygen_3", "lin17_keygen_4", "lin17_keygen_5", "lin17_keygen_6", "lin17_keygen_7"}

\* What P2 has asked, and what P1 answers to it.
Lin17Asked ==
    /\ Has("cKey", Field) /\ Has("a", Field) /\ Has("b", Field)
    /\ Has("QTag", {Fl(know.x1 * know.a + know.b)})
    /\ Has("asked", {Signed(know.a * know.cKey + know.b, WideN)})

Lin17Keygen ==
    /\ protocol = "lin17" /\ stage \in Lin17KeygenStages \cup {"ended"}
    /\ TwoDrawn /\ key = Fl(know.x1 * know.x2)
    /\ stage = "lin17_keygen_3" => "cKey" \in DOMAIN know
    /\ stage = "lin17_keygen_4" => Lin17Asked
    /\ stage \in {"lin17_keygen_5", "lin17_keygen_6", "lin17_keygen_7"} =>
          Lin17Asked /\ Has("alpha", {know.asked})
    /\ stage = "ended" => HandedTwo("x1", "x2") /\ Lin17KeyEncrypted

LEMMA Lin17KeygenBegins ==
    ASSUME protocol = "lin17", Lin17KeygenBegin
    PROVE  Lin17Keygen
  BY DEF Lin17KeygenBegin, Lin17Keygen, Lin17KeygenStages, TwoDrawn, Has

\* The answer that P2 expected comes from a ciphertext of x1, unless P2 asked
\* for nothing: an answer is not reduced, and does not wrap.
LEMMA Lin17AnswerShows ==
    ASSUME TwoDrawn, Lin17Asked, know.alpha = know.asked, Lin17AnswerHolds, know.a # 0
    PROVE  know.cKey = know.x1
<1> DEFINE c == know.cKey
           x == know.x1
           a == know.a
           b == know.b
<1>1. c \in Field /\ x \in Field /\ a \in Field /\ b \in Field /\ Field \subseteq Int
  BY ScalarsType DEF TwoDrawn, Lin17Asked, Has
<1>2. /\ know.asked = Signed(a * c + b, WideN) /\ know.QTag = Fl(x * a + b)
      /\ Fl(know.asked) = know.QTag
  BY DEF Lin17Asked, Has, Lin17AnswerHolds
<1>3. a # 0
  OBVIOUS
<1> HIDE DEF c, x, a, b
<1>4. /\ a \in Nat /\ a <= Q /\ b \in Nat /\ b <= Q /\ c \in Nat /\ c <= Q /\ x \in Int
      /\ Q \in Nat /\ Q >= 3 /\ Q * Q \in Nat /\ Q * Q >= 3 * Q
      /\ Q * Q * Q \in Nat /\ Q * Q * Q >= 3 * (Q * Q) /\ WideN \in Nat /\ WideN > 27 * (Q * Q * Q)
  BY <1>1, SpaceType DEF Field
<1>5. a * c \in Nat /\ a * c <= Q * Q
  BY <1>4, ProductBound
<1>6. a * c + b \in Int /\ 0 <= a * c + b /\ 2 * (a * c + b) < WideN /\ WideN > 0
  <2> DEFINE ac == a * c
             q2 == Q * Q
             q3 == Q * Q * Q
  <2>1. ac \in Nat /\ ac <= q2 /\ q2 \in Nat /\ q2 >= 3 * Q /\ q3 \in Nat /\ q3 >= 3 * q2 /\ WideN > 27 * q3
    BY <1>4, <1>5
  <2> HIDE DEF ac, q2, q3
  <2>2. ac + b \in Int /\ 0 <= ac + b /\ 2 * (ac + b) < WideN /\ WideN > 0
    BY <1>4, <2>1
  <2> QED BY <2>2 DEF ac
<1>7. Signed(a * c + b, WideN) = a * c + b
  BY <1>4, <1>6, SignedType
<1>8. Fl(a * c + b) = Fl(x * a + b)
  BY <1>2, <1>7
<1>9. Fl(a * (c - x)) = 0
  <2> DEFINE m == a * c
             n == x * a
  <2>1. m \in Int /\ n \in Int /\ m - n = a * (c - x)
    BY <1>4
  <2>2. Fl(m + b) = Fl(n + b)
    BY <1>8
  <2> HIDE DEF m, n
  <2>3. Fl((m + b) + (- n - b)) = Fl((n + b) + (- n - b))
    <3>1. m + b \in Int /\ n + b \in Int /\ - n - b \in Int
      BY <1>4, <2>1
    <3> QED BY <2>2, <3>1, FlSum
  <2>4. (m + b) + (- n - b) = m - n /\ (n + b) + (- n - b) = 0
    BY <1>4, <2>1
  <2>5. Fl(0) = 0
    BY QAssumption DEF Fl
  <2> QED BY <2>1, <2>3, <2>4, <2>5
<1>10. Fl(a) # 0 /\ a \in Int /\ c - x \in Int
  BY <1>1, <1>3, <1>4, FlField
<1>11. Fl(c - x) = 0
  BY <1>9, <1>10, FlIntegral
<1>12. c = x
  BY <1>1, <1>11, FlDistinct
<1> QED BY <1>12 DEF c, x

LEMMA Lin17KeygenSteps ==
    ASSUME KeygenSession, Lin17Keygen, Lin17KeygenNext
    PROVE  KeygenSession' /\ Lin17Keygen'
<1>1. TwoDrawn /\ key = Fl(know.x1 * know.x2) /\ protocol = "lin17" /\ protocol \in TwoParty
  BY DEF Lin17Keygen, TwoParty
<1>2. CASE Lin17EncryptKey
  <2> DEFINE facts == [cKey |-> Fl(know.x1 + bent[P1])]
  <2>1. Step("lin17_keygen_1", "lin17_keygen_3", facts)
    BY <1>2 DEF Lin17EncryptKey
  <2>2. {"x1", "x2"} \cap DOMAIN facts = {} /\ "cKey" \in DOMAIN facts
    OBVIOUS
  <2> HIDE DEF facts
  <2>3. /\ KeygenSession' /\ TwoDrawn' /\ stage' = "lin17_keygen_3" /\ protocol' = protocol
        /\ "cKey" \in DOMAIN know'
        /\ key' = key /\ know'.x1 = know.x1 /\ know'.x2 = know.x2
    BY <1>1, <2>1, <2>2, TwoGoOn
  <2> QED BY <1>1, <2>3 DEF Lin17Keygen, Lin17KeygenStages
<1>3. ASSUME NEW from \in Lin17KeygenStages,
             \/ Return(from, OfTwo(Waiting, Refused))
             \/ Return(from, OfTwo(Refused, Waiting))
      PROVE  KeygenSession' /\ Lin17Keygen'
  <2>1. /\ KeygenSession' /\ TwoDrawn' /\ HandedTwo("x1", "x2")' /\ P2' \notin Holders'
        /\ stage' = "ended" /\ UNCHANGED <<protocol, key, know>>
    BY <1>1, <1>3, TwoRefuse DEF Lin17KeygenStages
  <2> QED BY <1>1, <2>1 DEF Lin17Keygen, Lin17KeyEncrypted
<1>4. CASE Lin17Round3Refused
  BY <1>3, <1>4 DEF Lin17Round3Refused, Lin17KeygenStages
<1>5. CASE Lin17Challenge
  <2>1. PICK a \in {0} \cup Scalars, b \in Scalars :
          Step("lin17_keygen_3", "lin17_keygen_4",
               [a |-> a, b |-> b, asked |-> Signed(a * know.cKey + b, WideN),
                QTag |-> Fl(know.x1 * a + b)])
    BY <1>5 DEF Lin17Challenge
  <2> DEFINE asked == Signed(a * know.cKey + b, WideN)
             q == Fl(know.x1 * a + b)
             facts == [a |-> a, b |-> b, asked |-> asked, QTag |-> q]
  <2>2. know.cKey \in Field /\ a \in Field /\ b \in Field
    BY <1>5, ScalarsType, QAssumption DEF Lin17Challenge, Lin17Round3Holds, Field
  <2>3. /\ {"x1", "x2", "cKey"} \cap DOMAIN facts = {} /\ DOMAIN facts = {"a", "b", "asked", "QTag"}
        /\ facts["a"] = a /\ facts["b"] = b /\ facts["asked"] = asked /\ facts["QTag"] = q
    OBVIOUS
  <2>4. Step("lin17_keygen_3", "lin17_keygen_4", facts)
    BY <2>1
  <2>c. stage = "lin17_keygen_3" /\ "cKey" \in DOMAIN know
    BY <1>5 DEF Lin17Challenge, Lin17Keygen, Has
  <2> HIDE DEF facts, asked, q
  <2>5. /\ KeygenSession' /\ TwoDrawn' /\ stage' = "lin17_keygen_4" /\ protocol' = protocol
        /\ key' = key /\ know'.x1 = know.x1 /\ know'.x2 = know.x2
        /\ {"a", "b", "asked", "QTag", "cKey"} \subseteq DOMAIN know'
        /\ know'["a"] = a /\ know'["b"] = b /\ know'["asked"] = asked /\ know'["QTag"] = q
        /\ know'["cKey"] = know["cKey"]
    BY <1>1, <2>3, <2>4, <2>c, TwoGoOn
  <2>6. Lin17Asked'
    BY <2>2, <2>5 DEF Lin17Asked, Has, asked, q
  <2> QED BY <1>1, <2>5, <2>6 DEF Lin17Keygen, Lin17KeygenStages
<1>6. CASE Lin17Respond
  <2> DEFINE facts == [alpha |-> know.asked]
  <2>1. Step("lin17_keygen_4", "lin17_keygen_5", facts) /\ Lin17Asked
    BY <1>6 DEF Lin17Respond, Step, Lin17Keygen
  <2>2. {"x1", "x2", "a", "b", "asked", "QTag", "cKey"} \cap DOMAIN facts = {} /\ DOMAIN facts = {"alpha"}
        /\ facts["alpha"] = know["asked"]
    OBVIOUS
  <2>3. {"a", "b", "asked", "QTag", "cKey"} \subseteq DOMAIN know
    BY <2>1 DEF Lin17Asked, Has
  <2> HIDE DEF facts
  <2>4. /\ KeygenSession' /\ TwoDrawn' /\ stage' = "lin17_keygen_5" /\ protocol' = protocol
        /\ key' = key /\ know'.x1 = know.x1 /\ know'.x2 = know.x2
        /\ \A n \in {"a", "b", "asked", "QTag", "cKey"} : n \in DOMAIN know' /\ know'[n] = know[n]
        /\ "alpha" \in DOMAIN know' /\ know'["alpha"] = know["asked"]
    BY <1>1, <2>1, <2>2, <2>3, TwoGoOn
  <2>5. Lin17Asked' /\ Has("alpha", {know.asked})'
    BY <2>1, <2>4 DEF Lin17Asked, Has
  <2> QED BY <1>1, <2>4, <2>5 DEF Lin17Keygen, Lin17KeygenStages
<1>7. CASE Lin17OpenChallenge
  <2> DEFINE facts == [openedA |-> Fl(know.a + bent[P2])]
  <2>1. Step("lin17_keygen_5", "lin17_keygen_6", facts) /\ Lin17Asked /\ Has("alpha", {know.asked})
    BY <1>7 DEF Lin17OpenChallenge, Step, Lin17Keygen
  <2>2. {"x1", "x2", "a", "b", "asked", "QTag", "cKey", "alpha"} \cap DOMAIN facts = {}
    OBVIOUS
  <2>3. {"a", "b", "asked", "QTag", "cKey", "alpha"} \subseteq DOMAIN know
    BY <2>1 DEF Lin17Asked, Has
  <2> HIDE DEF facts
  <2>4. /\ KeygenSession' /\ TwoDrawn' /\ stage' = "lin17_keygen_6" /\ protocol' = protocol
        /\ key' = key /\ know'.x1 = know.x1 /\ know'.x2 = know.x2
        /\ \A n \in {"a", "b", "asked", "QTag", "cKey", "alpha"} : n \in DOMAIN know' /\ know'[n] = know[n]
    BY <1>1, <2>1, <2>2, <2>3, TwoGoOn
  <2>5. Lin17Asked' /\ Has("alpha", {know.asked})'
    BY <2>1, <2>4 DEF Lin17Asked, Has
  <2> QED BY <1>1, <2>4, <2>5 DEF Lin17Keygen, Lin17KeygenStages
<1>8. CASE Lin17Answer
  <2>1. CASE Pass("lin17_keygen_6", "lin17_keygen_7")
    <3>1. Lin17Asked /\ Has("alpha", {know.asked})
      BY <2>1 DEF Pass, Lin17Keygen
    <3>2. /\ KeygenSession' /\ TwoDrawn' /\ stage' = "lin17_keygen_7"
          /\ protocol' = protocol /\ key' = key /\ know' = know
      BY <1>1, <2>1, TwoPass
    <3>3. Lin17Asked' /\ Has("alpha", {know.asked})'
      BY <3>1, <3>2 DEF Lin17Asked, Has
    <3> QED BY <1>1, <3>2, <3>3 DEF Lin17Keygen, Lin17KeygenStages
  <2> QED BY <1>3, <1>8, <2>1 DEF Lin17Answer, Lin17KeygenStages
<1>9. CASE Lin17Finalize
  <2> DEFINE one == KeyShare(know.x1, Parts("x1", "x2"), key)
             two == KeyShare(know.x2, Parts("x1", "x2"), key)
             of2 == IF Lin17AnswerHolds THEN two ELSE Refused
  <2>1. Lin17PublicShares = Parts("x1", "x2")
    BY DEF Lin17PublicShares, Parts
  <2>2. Return("lin17_keygen_7", OfTwo(one, of2)) /\ stage = "lin17_keygen_7"
    BY <1>1, <1>9, <2>1 DEF Lin17Finalize, Return
  <2>3. one \in {Waiting, Refused, one} /\ of2 \in {Waiting, Refused, two}
    OBVIOUS
  <2>4. ~Lin17AnswerHolds => of2 \in {Waiting, Refused}
    OBVIOUS
  <2> HIDE DEF of2
  <2>5. /\ KeygenSession' /\ TwoDrawn' /\ HandedTwo("x1", "x2")'
        /\ stage' = "ended" /\ UNCHANGED <<protocol, key, know>>
        /\ of2 \in {Waiting, Refused} => P2' \notin Holders'
    BY <1>1, <2>2, <2>3, TwoReturn
  <2>6. Lin17Asked /\ know.alpha = know.asked
    BY <2>2 DEF Lin17Keygen, Has
  <2>7. P2' \in Holders' => know.cKey = know.x1 \/ know.a = 0
    BY <1>1, <2>4, <2>5, <2>6, Lin17AnswerShows
  <2>8. Lin17KeyEncrypted'
    BY <2>5, <2>7 DEF Lin17KeyEncrypted
  <2> QED BY <1>1, <2>5, <2>8 DEF Lin17Keygen
<1> QED BY <1>2, <1>4, <1>5, <1>6, <1>7, <1>8, <1>9 DEF Lin17KeygenNext

-----------------------------------------------------------------------------
(* GGN16.                                                                    *)

Ggn16KeygenStages == {"ggn16_keygen_1", "ggn16_keygen_2"}

Ggn16Keygen ==
    /\ protocol = "ggn16" /\ stage \in Ggn16KeygenStages \cup {"ended"}
    /\ Has("x", [Signers -> Scalars]) /\ key = Total(know.x, Signers)
    /\ Has("alpha", {[p \in Signers |-> know.x[p] + bent[p]]})
    /\ stage = "ended" => Handed(know.x) /\ Ggn16KeyEncrypted

LEMMA Ggn16KeygenBegins ==
    ASSUME protocol = "ggn16", Ggn16KeygenBegin
    PROVE  Ggn16Keygen
  BY DEF Ggn16KeygenBegin, Ggn16Keygen, Ggn16KeygenStages, Has

\* A party that found every other ciphertext to encrypt what it should, and
\* whose own does, has the encrypted key: their sum does not wrap.
LEMMA Ggn16Encrypts ==
    ASSUME Ggn16Keygen, KeygenSession, NEW p \in Signers, bent[p] = 0,
           \A j \in Others(p) : Ggn16Proven(p, j)
    PROVE  Fl(Ggn16Alpha) = key
<1> DEFINE x == know.x
           alpha == know.alpha
           sum == SumFunctionOnSet(alpha, Signers)
<1>1. \A j \in Signers : x[j] \in Field /\ x[j] \in Int /\ Fl(x[j]) = x[j]
  BY ScalarsType, FlField DEF Ggn16Keygen, Has
<1>2. \A j \in Signers : bent[j] \in Field
  BY OneFaulty DEF KeygenSession
<1>3. \A j \in Signers : alpha[j] = x[j] + bent[j]
  BY DEF Ggn16Keygen, Has
<1>4. \A j \in Signers : alpha[j] \in Nat /\ alpha[j] \in Int /\ alpha[j] <= 2 * Q
  BY <1>1, <1>2, <1>3, QAssumption DEF Field
<1>5. \A j \in Signers : Fl(alpha[j]) = x[j]
  BY <1>1, <1>3 DEF Ggn16Proven, Others
<1>6. sum \in Nat /\ sum < WideN
  <2> DEFINE n == Cardinality(Signers)
  <2>1. sum \in Nat /\ sum <= n * (2 * Q)
    <3>1. 2 * Q \in Nat
      BY QAssumption
    <3> HIDE DEF alpha
    <3> QED BY <1>4, <3>1, SignersType, SumBound
  <2>2. n \in Nat /\ n <= Q
    BY SignersBound
  <2> HIDE DEF n, sum
  <2>3. n * (2 * Q) <= Q * (2 * Q)
    BY <2>2, SpaceType, ProductBound
  <2>4. Q * (2 * Q) = 2 * (Q * Q)
    BY SpaceType
  <2>5. n * (2 * Q) \in Nat
    BY <2>2, SpaceType
  <2>6. 2 * (Q * Q) < WideN
    BY SpaceType
  <2> QED BY <2>1, <2>3, <2>4, <2>5, <2>6, SpaceType
<1>7. Ggn16Alpha = sum
  <2>1. sum % WideN = sum
    <3> HIDE DEF sum
    <3> QED BY <1>6, SpaceType
  <2> QED BY <2>1 DEF Ggn16Alpha
<1>8. Total(alpha, Signers) = Total(x, Signers)
  <2> HIDE DEF alpha, x
  <2> QED BY <1>1, <1>4, <1>5, SignersType, TotalSame
<1> QED BY <1>7, <1>8 DEF Ggn16Keygen, Total

LEMMA Ggn16KeygenSteps ==
    ASSUME KeygenSession, Ggn16Keygen, Ggn16KeygenNext
    PROVE  KeygenSession' /\ Ggn16Keygen'
<1>1. Participants = Signers /\ protocol = "ggn16"
  BY DEF Ggn16Keygen, Participants, TwoParty
<1>2. CASE Ggn16Publish
  <2>1. /\ GoesOn("ggn16_keygen_2", know) /\ stage' = "ggn16_keygen_2"
        /\ UNCHANGED <<protocol, key, bent, know>>
    BY <1>2 DEF Ggn16Publish, Pass, GoesOn
  <2>2. KeygenSession' /\ Signers' = Signers
    BY <2>1, SessionGoesOn, SameParties
  <2> QED BY <2>1, <2>2 DEF Ggn16Keygen, Ggn16KeygenStages, Has
<1>3. CASE Ggn16KeygenFinish
  <2> DEFINE proven(p) == \A j \in Others(p) : Ggn16Proven(p, j)
             share(p) == With([alpha |-> Ggn16Alpha], KeyShare(know.x[p], know.x, Total(know.x, Signers)))
             answers == [p \in Signers |-> IF proven(p) THEN share(p) ELSE Refused]
  <2>1. Return("ggn16_keygen_2", answers)
    BY <1>3 DEF Ggn16KeygenFinish
  <2>2. Returns(answers)
    BY <1>1, <2>1 DEF Return, Returns
  <2>3. /\ stage' = "ended" /\ UNCHANGED <<protocol, key, bent, know>> /\ answer' = answers
        /\ Signers' = Signers /\ KeygenSession'
    BY <2>2, SessionReturns, SameParties DEF Returns
  <2>4. DOMAIN answers = Signers /\ \A p \in Signers : \/ answers[p] = Refused
                             \/ /\ answers[p].share = know.x[p] /\ answers[p].points = know.x
                                /\ answers[p].pk = key
                                /\ (bent[p] = 0 => Fl(answers[p].alpha) = key)
    <3> SUFFICES ASSUME NEW p \in Signers, proven(p)
                 PROVE  /\ answers[p].share = know.x[p] /\ answers[p].points = know.x
                        /\ answers[p].pk = key /\ (bent[p] = 0 => Fl(answers[p].alpha) = key)
      OBVIOUS
    <3> DEFINE new == [alpha |-> Ggn16Alpha]
    <3>1. answers[p] = With(new, KeyShare(know.x[p], know.x, Total(know.x, Signers)))
      OBVIOUS
    <3>2. "share" \notin DOMAIN new /\ "points" \notin DOMAIN new /\ "pk" \notin DOMAIN new
          /\ "alpha" \in DOMAIN new /\ new["alpha"] = Ggn16Alpha
      OBVIOUS
    <3> HIDE DEF new, answers
    <3>3. /\ answers[p].share = know.x[p] /\ answers[p].points = know.x
          /\ answers[p].pk = Total(know.x, Signers) /\ answers[p].alpha = Ggn16Alpha
      BY <3>1, <3>2, KeyShareFields
    <3>4. bent[p] = 0 => Fl(Ggn16Alpha) = key
      BY Ggn16Encrypts
    <3> QED BY <3>3, <3>4 DEF Ggn16Keygen
  <2> HIDE DEF answers
  <2>5. Handed(know.x)'
    BY <2>3, <2>4 DEF Handed
  <2>6. Ggn16KeyEncrypted'
    <3>1. Holders' \subseteq Signers /\ \A p \in Holders' : answers[p] # Refused
      BY <2>3, <2>4 DEF Holders
    <3> QED BY <2>3, <2>4, <3>1 DEF Ggn16KeyEncrypted
  <2> QED BY <1>1, <2>3, <2>5, <2>6 DEF Ggn16Keygen, Has
<1> QED BY <1>2, <1>3 DEF Ggn16KeygenNext

-----------------------------------------------------------------------------
(* KU24.                                                                     *)

Ku24KeygenStages == {"ku24_setup", "ku24_keygen"}

\* The shares that the sets' functions make up.
Ku24Right == [i \in Signers |-> Ku24Rand(know.prf, i)]

\* The key shares and their announced points are right, but for those of v.
Ku24OneOff(v) == \A i \in Signers \ {v} : know.x[i] = Ku24Right[i] /\ know.X[i] = Ku24Right[i]

Ku24Keygen ==
    /\ protocol = "ku24" /\ stage \in Ku24KeygenStages \cup {"ended"}
    /\ Ku24Majority
    /\ Has("prf", [Ku24Subsets -> Field]) /\ Has("fault", Faults({"key", "announced"}))
    /\ key = Total(know.prf, Ku24Subsets)
    /\ stage = "ku24_keygen" => /\ Has("x", [Signers -> Field]) /\ Has("X", [Signers -> Field])
                                /\ \E v \in Signers : Ku24OneOff(v)
    /\ stage = "ended" => Handed(Ku24Right)

LEMMA Ku24KeygenBegins ==
    ASSUME protocol = "ku24", Ku24KeygenBegin
    PROVE  Ku24Keygen
  BY DEF Ku24KeygenBegin, Ku24Keygen, Ku24KeygenStages, Has

LEMMA Ku24SubsetsType ==
    /\ IsFiniteSet(Ku24Subsets) /\ T \in Nat \ {0} /\ T \in Int
    /\ \A A \in Ku24Subsets :
          /\ A \in SUBSET Signers /\ A # {} /\ Ku24Dealer(A) \in Signers
          /\ IsFiniteSet(Signers \ A) /\ Cardinality(Signers \ A) = T - 1
<1>1. IsFiniteSet(Ku24Subsets)
  <2>1. IsFiniteSet(SUBSET Signers) /\ Ku24Subsets \in SUBSET SUBSET Signers
    BY SignersType, FS_SUBSET DEF Ku24Subsets
  <2> DEFINE D == SUBSET Signers
  <2>2. IsFiniteSet(D) /\ Ku24Subsets \in SUBSET D
    BY <2>1
  <2> HIDE DEF D
  <2> QED BY <2>2, FS_Subset
<1>2. T \in Nat \ {0} /\ T \in Int
  BY SigningAssumption
<1>3. ASSUME NEW A \in Ku24Subsets
      PROVE  /\ A \in SUBSET Signers /\ A # {} /\ Ku24Dealer(A) \in Signers
             /\ IsFiniteSet(Signers \ A) /\ Cardinality(Signers \ A) = T - 1
  <2>1. A \in SUBSET Signers /\ Cardinality(A) = Cardinality(Signers) - (T - 1)
    BY DEF Ku24Subsets, Ku24Degree
  <2>2. IsFiniteSet(A) /\ IsFiniteSet(Signers \ A) /\ Cardinality(A) \in Nat
    BY <2>1, SignersType, FS_Subset, FS_CardinalityType
  <2>3. Cardinality(A) # 0
    BY <1>2, <2>1, SignersType
  <2>4. A # {}
    BY <2>3, FS_EmptySet
  <2>5. Ku24Dealer(A) \in A
    <3>1. \E m \in A : \A x \in A : m <= x
      BY <2>1, <2>2, <2>4, SignersType, LeastElement
    <3> QED BY <3>1 DEF Ku24Dealer
  <2>6. Cardinality(Signers \ A) = T - 1
    <3> DEFINE B == Signers \ A
    <3>1. IsFiniteSet(B) /\ A \cap B = {} /\ A \cup B = Signers
      BY <2>1, <2>2
    <3> HIDE DEF B
    <3>2. Cardinality(A \cup B) = Cardinality(A) + Cardinality(B) - Cardinality(A \cap B)
      BY <2>2, <3>1, FS_Union
    <3>3. Cardinality({}) = 0 /\ Cardinality(B) \in Nat
      BY <3>1, FS_EmptySet, FS_CardinalityType
    <3>4. Cardinality(Signers) = Cardinality(A) + Cardinality(B) - 0
      BY <3>1, <3>2, <3>3
    <3>5. Cardinality(B) = T - 1
      BY <1>2, <2>1, <2>2, <3>3, <3>4, SignersType
    <3> QED BY <3>5 DEF B
  <2> QED BY <2>1, <2>2, <2>4, <2>5, <2>6
<1> QED BY <1>1, <1>2, <1>3

LEMMA Ku24FaVanishes ==
    ASSUME NEW A \in Ku24Subsets, NEW i \in Signers
    PROVE  /\ Ku24Fa(A, i) = Vanishing(Signers \ A, i)
           /\ Ku24Fa(A, i) \in Field /\ Ku24Fa(A, i) \in Int
           /\ i \notin A => Ku24Fa(A, i) = 0
<1>1. Signers \ A \in SUBSET (1 .. Q - 1) /\ i \in 1 .. Q - 1
  BY SignersType
<1>2. IsFiniteSet(Signers \ A)
  BY Ku24SubsetsType
<1>3. Ku24Fa(A, i) = Vanishing(Signers \ A, i)
  BY DEF Ku24Fa, Vanishing
<1> QED BY <1>1, <1>2, <1>3, VanishingType

LEMMA Ku24RandType ==
    ASSUME NEW prf, \A A \in Ku24Subsets : prf[A] \in Int, NEW i \in Signers
    PROVE  /\ Ku24Rand(prf, i) \in Field /\ Ku24Rand(prf, i) \in Int
           /\ Ku24Rand(prf, i) = Total([A \in Ku24Subsets |-> prf[A] * Ku24Fa(A, i)], Ku24Subsets)
<1> DEFINE C == {B \in Ku24Subsets : i \in B}
           all == [A \in Ku24Subsets |-> prf[A] * Ku24Fa(A, i)]
           seen == [A \in C |-> prf[A] * Ku24Fa(A, i)]
<1>1. \A A \in Ku24Subsets : all[A] \in Int /\ all[A] = prf[A] * Ku24Fa(A, i)
  <2> TAKE A \in Ku24Subsets
  <2> DEFINE a == prf[A]
             b == Ku24Fa(A, i)
  <2>1. a \in Int /\ b \in Int /\ all[A] = a * b
    BY Ku24FaVanishes
  <2> HIDE DEF a, b, all
  <2>2. a * b \in Int
    BY <2>1
  <2> QED BY <2>1, <2>2 DEF a, b
<1>2. C \in SUBSET Ku24Subsets /\ \A A \in C : seen[A] = all[A]
  OBVIOUS
<1>3. \A A \in Ku24Subsets \ C : Fl(all[A]) = 0
  <2> SUFFICES ASSUME NEW A \in Ku24Subsets, i \notin A PROVE Fl(all[A]) = 0
    OBVIOUS
  <2>1. Ku24Fa(A, i) = 0
    BY Ku24FaVanishes
  <2>2. prf[A] * 0 = 0
    OBVIOUS
  <2> HIDE DEF all
  <2> QED BY <1>1, <2>1, <2>2, QAssumption DEF Fl
<1>4. Ku24Rand(prf, i) = Total(seen, C)
  BY DEF Ku24Rand
<1> HIDE DEF C, all, seen
<1>5. Total(all, Ku24Subsets) = Total(seen, C)
  BY <1>1, <1>2, <1>3, Ku24SubsetsType, TotalWhere
<1>6. Total(all, Ku24Subsets) \in Field
  BY <1>1, Ku24SubsetsType, TotalType
<1>7. Field \subseteq Int
  BY ScalarsType
<1> QED BY <1>4, <1>5, <1>6, <1>7 DEF all

\* Pseudo-random secret sharing is Shamir's: what the functions return adds up
\* to the value, and any T of the shares or more interpolate to it.
LEMMA Ku24RandShares ==
    ASSUME NEW prf \in [Ku24Subsets -> Field],
           NEW S \in SUBSET Signers, Cardinality(S) >= T,
           NEW g, \A i \in S : g[i] = Ku24Rand(prf, i)
    PROVE  Reconstruct(g, S) = Total(prf, Ku24Subsets)
<1> DEFINE F == [A \in Ku24Subsets |-> [i \in S |-> prf[A] * Ku24Fa(A, i)]]
           fa(A) == [i \in S |-> Ku24Fa(A, i)]
           parts == [A \in Ku24Subsets |-> Reconstruct(F[A], S)]
<1>1. /\ S \in SUBSET (1 .. Q - 1) /\ IsFiniteSet(S) /\ IsFiniteSet(Ku24Subsets)
      /\ Cardinality(S) \in Nat
  BY SignersType, Ku24SubsetsType, FS_Subset, FS_CardinalityType
<1>2. \A A \in Ku24Subsets : prf[A] \in Int /\ prf[A] \in Field /\ Fl(prf[A]) = prf[A]
  BY ScalarsType, FlField
<1>3. \A A \in Ku24Subsets : \A i \in S : F[A][i] \in Int /\ F[A][i] = prf[A] * Ku24Fa(A, i)
  <2> TAKE A \in Ku24Subsets
  <2> TAKE i \in S
  <2> DEFINE a == prf[A]
             b == Ku24Fa(A, i)
  <2>1. a \in Int /\ b \in Int /\ F[A][i] = a * b
    BY <1>2, Ku24FaVanishes
  <2> HIDE DEF a, b, F
  <2>2. a * b \in Int
    BY <2>1
  <2> QED BY <2>1, <2>2 DEF a, b
<1>4. \A i \in S : g[i] \in Int /\ Fl(g[i]) = Total([A \in Ku24Subsets |-> F[A][i]], Ku24Subsets)
  <2> SUFFICES ASSUME NEW i \in S
               PROVE  g[i] \in Int /\ Fl(g[i]) = Total([A \in Ku24Subsets |-> F[A][i]], Ku24Subsets)
    OBVIOUS
  <2>1. /\ g[i] \in Field /\ g[i] \in Int
        /\ g[i] = Total([A \in Ku24Subsets |-> prf[A] * Ku24Fa(A, i)], Ku24Subsets)
    <3>1. i \in Signers /\ g[i] = Ku24Rand(prf, i)
      OBVIOUS
    <3> QED BY <1>2, <3>1, Ku24RandType
  <2>2. [A \in Ku24Subsets |-> F[A][i]] = [A \in Ku24Subsets |-> prf[A] * Ku24Fa(A, i)]
    OBVIOUS
  <2> QED BY <2>1, <2>2, FlField
<1>5. ASSUME NEW A \in Ku24Subsets PROVE Reconstruct(F[A], S) = prf[A]
  <2> DEFINE h == fa(A)
             y == F[A]
  <2>1. \A i \in S : h[i] = Vanishing(Signers \ A, i) /\ h[i] \in Int
    BY Ku24FaVanishes
  <2>2. \A i \in S : h[i] \in Int /\ y[i] \in Int /\ Fl(y[i]) = Fl(prf[A] * h[i])
    BY <1>3, <2>1
  <2>3. /\ Signers \ A \in SUBSET (1 .. Q - 1) /\ IsFiniteSet(Signers \ A)
        /\ Cardinality(S) > Cardinality(Signers \ A)
    BY <1>1, SignersType, Ku24SubsetsType
  <2> HIDE DEF h, y
  <2>4. Reconstruct(h, S) = 1
    BY <1>1, <2>1, <2>3, ReconstructVanishing
  <2>5. Reconstruct(y, S) = Fl(prf[A] * Reconstruct(h, S))
    BY <1>1, <1>2, <2>2, ReconstructScale
  <2>6. prf[A] * 1 = prf[A]
    BY <1>2
  <2> QED BY <1>2, <2>4, <2>5, <2>6 DEF y
<1>6. parts = prf
  BY <1>5
<1> HIDE DEF F, parts
<1>7. Reconstruct(g, S) = Total([A \in Ku24Subsets |-> Reconstruct(F[A], S)], Ku24Subsets)
  BY <1>1, <1>3, <1>4, ReconstructTotal
<1> QED BY <1>6, <1>7 DEF parts

\* One wrong share is found, as long as the majority is honest.
LEMMA Ku24FindsTheFault ==
    ASSUME NEW prf \in [Ku24Subsets -> Field], Ku24Majority,
           NEW v \in Signers, NEW f \in [Signers -> Field],
           \A i \in Signers \ {v} : f[i] = Ku24Rand(prf, i),
           Ku24Consistent(f, Ku24Degree)
    PROVE  f[v] = Ku24Rand(prf, v)
<1> DEFINE g == [i \in Signers |-> Ku24Rand(prf, i)]
           n == Cardinality(Signers)
<1>1. T \in Nat \ {0} /\ n \in Nat /\ n >= 2 * (T - 1) + 1 /\ n >= 2 /\ Ku24Degree + 1 = T
  BY SignersType, Everybody, Ku24SubsetsType DEF Ku24Majority, Ku24Degree
<1>2. IsFiniteSet(Signers \ {v}) /\ Cardinality(Signers \ {v}) = n - 1
  BY SignersType, FS_RemoveElement
<1>3. T \in 0 .. Cardinality(Signers \ {v})
  <2>1. T <= n - 1
    BY <1>1
  <2> QED BY <1>1, <1>2, <2>1
<1>4. PICK U \in SUBSET (Signers \ {v}) : IsFiniteSet(U) /\ Cardinality(U) = T
  BY <1>2, <1>3, SubsetOfSize
<1>5. PICK u \in U : TRUE
  BY <1>1, <1>4, FS_EmptySet
<1> DEFINE S == (U \ {u}) \cup {v}
<1>6. S \in SUBSET Signers /\ v \in S /\ IsFiniteSet(S) /\ Cardinality(S) = T
  <2>1. IsFiniteSet(U \ {u}) /\ Cardinality(U \ {u}) = T - 1
    BY <1>4, <1>5, FS_RemoveElement
  <2>2. IsFiniteSet(S) /\ Cardinality(S) = (T - 1) + 1
    BY <1>4, <2>1, FS_AddElement
  <2> QED BY <1>1, <1>4, <2>2
<1>7. U \in SUBSET Signers /\ \A i \in U : f[i] = Ku24Rand(prf, i)
  BY <1>4
<1>8. \A i \in Signers : g[i] = Ku24Rand(prf, i) /\ g[i] \in Field
  <2>1. \A A \in Ku24Subsets : prf[A] \in Int
    BY ScalarsType
  <2> QED BY <2>1, Ku24RandType
<1> HIDE DEF S, g, n
<1>9. Reconstruct(f, U) = Total(prf, Ku24Subsets)
  BY <1>1, <1>4, <1>7, Ku24RandShares
<1>10. Reconstruct(g, S) = Total(prf, Ku24Subsets)
  BY <1>1, <1>6, <1>8, Ku24RandShares
<1>11. Reconstruct(f, S) = Reconstruct(f, U)
  BY <1>1, <1>4, <1>6, <1>7 DEF Ku24Consistent
<1>12. \A i \in S : f[i] \in Field /\ g[i] \in Field
  BY <1>6, <1>8
<1>13. \A i \in S \ {v} : f[i] = g[i]
  BY <1>6, <1>8
<1>14. S \in SUBSET (1 .. Q - 1)
  BY <1>6, SignersType
<1>15. f[v] = g[v]
  BY <1>6, <1>9, <1>10, <1>11, <1>12, <1>13, <1>14, ReconstructOneWrong
<1> QED BY <1>8, <1>15

\* What is opened is the value.
LEMMA Ku24OpensRight ==
    ASSUME NEW prf \in [Ku24Subsets -> Field],
           NEW f, \A i \in Signers : f[i] = Ku24Rand(prf, i)
    PROVE  Ku24Opened(f, Ku24Degree) = Total(prf, Ku24Subsets)
<1> DEFINE S == {i \in Signers : Position(i) <= Ku24Degree + 1}
<1>1. T \in Nat \ {0} /\ Cardinality(Signers) \in Nat /\ Cardinality(Signers) >= T
  BY SignersType, Ku24SubsetsType
<1>2. Ku24Degree + 1 = T /\ T \in 0 .. Cardinality(Signers)
  BY <1>1 DEF Ku24Degree
<1>3. Cardinality(S) = T
  <2>1. S = {i \in Signers : Position(i) <= T}
    BY <1>2
  <2> HIDE DEF S
  <2> QED BY <1>2, <2>1, FirstPositions
<1>4. S \in SUBSET Signers /\ \A i \in S : f[i] = Ku24Rand(prf, i)
  OBVIOUS
<1>5. Ku24Opened(f, Ku24Degree) = Reconstruct(f, S)
  BY DEF Ku24Opened
<1> HIDE DEF S
<1> QED BY <1>1, <1>3, <1>4, <1>5, Ku24RandShares

LEMMA Ku24Shared ==
    ASSUME Ku24Keygen
    PROVE  Shared(Ku24Right)
<1> SUFFICES ASSUME NEW S \in SUBSET Signers, Cardinality(S) = T
             PROVE  Reconstruct(Ku24Right, S) = key
  BY DEF Shared
<1>1. know.prf \in [Ku24Subsets -> Field] /\ key = Total(know.prf, Ku24Subsets)
  BY DEF Ku24Keygen, Has
<1>2. \A i \in S : Ku24Right[i] = Ku24Rand(know.prf, i)
  BY DEF Ku24Right
<1>3. Cardinality(S) >= T
  BY Ku24SubsetsType
<1> QED BY <1>1, <1>2, <1>3, Ku24RandShares

\* At most one share or announced point goes wrong.
LEMMA Ku24OneGoesWrong ==
    ASSUME KeygenSession, Ku24Keygen, Ku24Derive
    PROVE  /\ stage = "ku24_setup" /\ GoesOn("ku24_keygen", know')
           /\ know'.prf = know.prf /\ know'.fault = know.fault
           /\ {"prf", "fault", "x", "X"} \subseteq DOMAIN know'
           /\ know'.x \in [Signers -> Field] /\ know'.X \in [Signers -> Field]
           /\ \E v \in Signers : \A i \in Signers \ {v} :
                 know'.x[i] = Ku24Right[i] /\ know'.X[i] = Ku24Right[i]
<1> DEFINE Seen(i) == [A \in Ku24Subsets |-> know.prf[A]
               + IF know.fault = "key" /\ bent[Ku24Dealer(A)] # 0 /\ i = Victim(Ku24Dealer(A)) THEN bent[Ku24Dealer(A)] ELSE 0]
           x == [i \in Signers |-> Ku24Rand(Seen(i), i)]
           X == [i \in Signers |-> Fl(x[i] + Off(i, "announced"))]
           facts == [x |-> x, X |-> X]
<1>1. Step("ku24_setup", "ku24_keygen", facts)
  BY DEF Ku24Derive
<1>2. /\ know.prf \in [Ku24Subsets -> Field] /\ {"prf", "fault"} \subseteq DOMAIN know
      /\ \A A \in Ku24Subsets : know.prf[A] \in Field /\ know.prf[A] \in Int
  BY ScalarsType DEF Ku24Keygen, Has
<1>3. /\ \A i \in Signers : bent[i] \in Int
      /\ \A i, j \in Signers : bent[i] # 0 /\ bent[j] # 0 => i = j
  BY OneFaulty DEF KeygenSession
<1>4. \A i \in Signers : \A A \in Ku24Subsets : Seen(i)[A] \in Int
  <2> TAKE i \in Signers
  <2> TAKE A \in Ku24Subsets
  <2>1. Ku24Dealer(A) \in Signers
    BY Ku24SubsetsType
  <2>2. bent[Ku24Dealer(A)] \in Int /\ know.prf[A] \in Int
    BY <1>2, <1>3, <2>1
  <2> QED BY <2>2
<1>5. \A i \in Signers : x[i] \in Field /\ x[i] \in Int
  <2> SUFFICES ASSUME NEW i \in Signers PROVE x[i] \in Field /\ x[i] \in Int
    OBVIOUS
  <2> DEFINE seen == Seen(i)
  <2>1. \A A \in Ku24Subsets : seen[A] \in Int
    BY <1>4
  <2>2. x[i] = Ku24Rand(seen, i)
    OBVIOUS
  <2> HIDE DEF seen, x
  <2> QED BY <2>1, <2>2, Ku24RandType
<1>6. \A i \in Signers : X[i] \in Field /\ (Off(i, "announced") = 0 => X[i] = x[i])
  <2> TAKE i \in Signers
  <2> DEFINE a == x[i]
  <2>1. Off(i, "announced") \in Int /\ a \in Int /\ a \in Field
    BY <1>3, <1>5 DEF Off
  <2>2. X[i] = Fl(a + Off(i, "announced"))
    OBVIOUS
  <2> HIDE DEF a, x, X
  <2>3. Off(i, "announced") = 0 => a + Off(i, "announced") = a
    BY <2>1
  <2>4. a + Off(i, "announced") \in Int
    BY <2>1
  <2>5. X[i] \in Field
    BY <2>2, <2>4, FlType
  <2>6. Fl(a) = a
    BY <2>1, FlField
  <2> QED BY <2>2, <2>3, <2>5, <2>6 DEF a
<1>7. x \in [Signers -> Field] /\ X \in [Signers -> Field]
  BY <1>5, <1>6
<1>8. \E v \in Signers : \A i \in Signers \ {v} : x[i] = Ku24Right[i] /\ X[i] = Ku24Right[i]
  <2>1. PICK d \in Signers : \A j \in Signers : j # d => bent[j] = 0
    BY <1>3, Everybody
  <2> DEFINE v == IF know.fault = "key" THEN Victim(d) ELSE d
  <2>2. v \in Signers
    BY <2>1, VictimIsOther
  <2>3. ASSUME NEW i \in Signers \ {v} PROVE x[i] = Ku24Right[i] /\ X[i] = Ku24Right[i]
    <3>1. ASSUME NEW A \in Ku24Subsets PROVE Seen(i)[A] = know.prf[A]
      <4>1. Ku24Dealer(A) \in Signers /\ know.prf[A] \in Int
        BY <1>2, Ku24SubsetsType
      <4>2. ~(know.fault = "key" /\ bent[Ku24Dealer(A)] # 0 /\ i = Victim(Ku24Dealer(A)))
        BY <2>1, <4>1
      <4>3. know.prf[A] + 0 = know.prf[A]
        BY <4>1
      <4> QED BY <4>2, <4>3
    <3>2. Seen(i) = know.prf
      BY <1>2, <3>1
    <3>3. x[i] = Ku24Right[i]
      BY <3>2 DEF Ku24Right
    <3>4. Off(i, "announced") = 0
      BY <2>1 DEF Off
    <3> HIDE DEF x, X
    <3> QED BY <1>6, <3>3, <3>4
  <2> HIDE DEF v, x, X
  <2> QED BY <2>2, <2>3
<1>9. /\ "prf" \notin DOMAIN facts /\ "fault" \notin DOMAIN facts /\ "x" \in DOMAIN facts
      /\ "X" \in DOMAIN facts /\ facts["x"] = x /\ facts["X"] = X
  OBVIOUS
<1> HIDE DEF facts, x, X
<1>10. /\ stage = "ku24_setup" /\ GoesOn("ku24_keygen", know')
       /\ \A y \in DOMAIN facts : y \in DOMAIN know' /\ know'[y] = facts[y]
       /\ \A y \in DOMAIN know : y \notin DOMAIN facts => y \in DOMAIN know' /\ know'[y] = know[y]
  BY <1>1, StepGoesOn
<1> QED BY <1>2, <1>7, <1>8, <1>9, <1>10

LEMMA Ku24KeygenSteps ==
    ASSUME KeygenSession, Ku24Keygen, Ku24KeygenNext
    PROVE  KeygenSession' /\ Ku24Keygen'
<1>1. /\ Participants = Signers /\ protocol = "ku24" /\ know.prf \in [Ku24Subsets -> Field]
      /\ key = Total(know.prf, Ku24Subsets)
  BY DEF Ku24Keygen, Has, Participants, TwoParty
<1>2. ASSUME UNCHANGED <<protocol, key, bent>>, know'.prf = know.prf, know'.fault = know.fault,
             "prf" \in DOMAIN know', "fault" \in DOMAIN know'
      PROVE  /\ Signers' = Signers /\ Ku24Right' = Ku24Right /\ protocol' = "ku24" /\ Ku24Majority'
             /\ Has("prf", [Ku24Subsets -> Field])' /\ Has("fault", Faults({"key", "announced"}))'
             /\ (key = Total(know.prf, Ku24Subsets))'
  <2>1. Signers' = Signers
    BY <1>2, SameParties
  <2>2. Ku24Subsets' = Ku24Subsets
    BY <2>1 DEF Ku24Subsets
  <2>3. Ku24Right' = Ku24Right
    BY <1>2, <2>1, <2>2 DEF Ku24Right, Ku24Rand, Ku24Fa
  <2>4. Ku24Majority'
    BY <2>1 DEF Ku24Keygen, Ku24Majority
  <2>5. Faults({"key", "announced"})' = Faults({"key", "announced"})
    BY <1>2, <2>1 DEF Faults, Straight
  <2> QED BY <1>1, <1>2, <2>1, <2>2, <2>3, <2>4, <2>5 DEF Ku24Keygen, Has
<1>3. CASE Ku24Derive
  <2>1. /\ GoesOn("ku24_keygen", know')
        /\ know'.prf = know.prf /\ know'.fault = know.fault
        /\ {"prf", "fault", "x", "X"} \subseteq DOMAIN know'
        /\ know'.x \in [Signers -> Field] /\ know'.X \in [Signers -> Field]
        /\ \E v \in Signers : \A i \in Signers \ {v} :
              know'.x[i] = Ku24Right[i] /\ know'.X[i] = Ku24Right[i]
    BY <1>3, Ku24OneGoesWrong
  <2>2. KeygenSession'
    BY <2>1, SessionGoesOn
  <2>3. UNCHANGED <<protocol, key, bent>> /\ stage' = "ku24_keygen"
    BY <2>1 DEF GoesOn
  <2>4. /\ Signers' = Signers /\ Ku24Right' = Ku24Right /\ protocol' = "ku24" /\ Ku24Majority'
        /\ Has("prf", [Ku24Subsets -> Field])' /\ Has("fault", Faults({"key", "announced"}))'
        /\ (key = Total(know.prf, Ku24Subsets))'
    BY <1>2, <2>1, <2>3
  <2>5. (\E v \in Signers : Ku24OneOff(v))'
    BY <2>1, <2>4 DEF Ku24OneOff
  <2>6. Has("x", [Signers -> Field])' /\ Has("X", [Signers -> Field])'
    BY <2>1, <2>4 DEF Has
  <2> QED BY <2>2, <2>3, <2>4, <2>5, <2>6 DEF Ku24Keygen, Ku24KeygenStages
<1>4. CASE Ku24KeygenFinish
  <2> DEFINE seen(p) == [know.X EXCEPT ![p] = know.x[p]]
             answers == [p \in Signers |->
                 IF Ku24Consistent(seen(p), Ku24Degree)
                 THEN KeyShare(know.x[p], seen(p), Ku24Opened(seen(p), Ku24Degree)) ELSE Refused]
  <2>1. Return("ku24_keygen", answers)
    BY <1>4 DEF Ku24KeygenFinish
  <2>2. stage = "ku24_keygen" /\ Returns(answers)
    BY <1>1, <2>1 DEF Return, Returns
  <2>3. know.x \in [Signers -> Field] /\ know.X \in [Signers -> Field]
    BY <2>2 DEF Ku24Keygen, Has
  <2>4. PICK v \in Signers : Ku24OneOff(v)
    BY <2>2 DEF Ku24Keygen
  <2>5. ASSUME NEW p \in Signers, Ku24Consistent(seen(p), Ku24Degree)
        PROVE  /\ know.x[p] = Ku24Right[p] /\ Ku24Opened(seen(p), Ku24Degree) = key
               /\ \A d \in Signers : seen(p)[d] = Ku24Right[d]
    <3> DEFINE f == seen(p)
    <3>1. f \in [Signers -> Field] /\ f[p] = know.x[p]
      BY <2>3
    <3>2. \A i \in Signers \ {v} : f[i] = Ku24Rand(know.prf, i)
      BY <2>3, <2>4 DEF Ku24OneOff, Ku24Right
    <3>3. Ku24Majority
      BY DEF Ku24Keygen
    <3> HIDE DEF f
    <3>4. f[v] = Ku24Rand(know.prf, v)
      BY <1>1, <2>5, <3>1, <3>2, <3>3, Ku24FindsTheFault DEF f
    <3>5. \A i \in Signers : f[i] = Ku24Rand(know.prf, i) /\ f[i] = Ku24Right[i]
      BY <3>2, <3>4 DEF Ku24Right
    <3>6. Ku24Opened(f, Ku24Degree) = key
      BY <1>1, <3>5, Ku24OpensRight
    <3> QED BY <3>1, <3>5, <3>6 DEF f
  <2>6. \A p \in Signers : \/ answers[p] = Refused
                           \/ /\ answers[p].share = Ku24Right[p] /\ answers[p].pk = key
                              /\ \A d \in Signers : answers[p].points[d] = Ku24Right[d]
    <3> SUFFICES ASSUME NEW p \in Signers, Ku24Consistent(seen(p), Ku24Degree)
                 PROVE  /\ answers[p].share = Ku24Right[p] /\ answers[p].pk = key
                        /\ \A d \in Signers : answers[p].points[d] = Ku24Right[d]
      OBVIOUS
    <3> DEFINE f == seen(p)
    <3>1. answers[p] = KeyShare(know.x[p], f, Ku24Opened(f, Ku24Degree))
      OBVIOUS
    <3>2. /\ know.x[p] = Ku24Right[p] /\ Ku24Opened(f, Ku24Degree) = key
          /\ \A d \in Signers : f[d] = Ku24Right[d]
      BY <2>5
    <3> HIDE DEF f, answers
    <3> QED BY <3>1, <3>2 DEF KeyShare
  <2>7. DOMAIN answers = Signers
    OBVIOUS
  <2> HIDE DEF answers
  <2>8. KeygenSession'
    BY <2>2, SessionReturns
  <2>9. /\ stage' = "ended" /\ answer' = answers /\ UNCHANGED <<protocol, key, bent, know>>
    BY <2>2 DEF Returns
  <2>10. /\ Signers' = Signers /\ Ku24Right' = Ku24Right /\ protocol' = "ku24" /\ Ku24Majority'
         /\ Has("prf", [Ku24Subsets -> Field])' /\ Has("fault", Faults({"key", "announced"}))'
         /\ (key = Total(know.prf, Ku24Subsets))'
    BY <1>2, <2>9 DEF Ku24Keygen, Has
  <2>11. Handed(Ku24Right)'
    BY <2>6, <2>9, <2>10 DEF Handed
  <2> QED BY <2>8, <2>9, <2>10, <2>11 DEF Ku24Keygen
<1> QED BY <1>3, <1>4 DEF Ku24KeygenNext

-----------------------------------------------------------------------------
(* The suite.                                                                *)

\* The invariant of the suite: that of the protocol that is run.
KeygenInv ==
    /\ KeygenSession
    /\ protocol \in Protocols
    /\ protocol = "gg18" => Gg18Keygen
    /\ protocol = "dkls23" => Dkls23Keygen
    /\ protocol = "ggn16" => Ggn16Keygen
    /\ protocol = "cggmp20" => Cggmp20Keygen
    /\ protocol = "lin17" => Lin17Keygen
    /\ protocol = "xal21" => Xal21Keygen
    /\ protocol = "kgg24" => Kgg24Keygen
    /\ protocol = "abc24" => Abc24Keygen
    /\ protocol = "ln18" => Ln18Keygen
    /\ protocol = "wmc24" => Wmc24Keygen
    /\ protocol = "wmy23" => Wmy23Keygen
    /\ protocol = "tx25" => Tx25Keygen
    /\ protocol = "jtx25" => Jtx25Keygen
    /\ protocol = "llz25" => Llz25Keygen
    /\ protocol = "trout" => TroutKeygen
    /\ protocol = "xal23" => Xal23Keygen
    /\ protocol = "ku24" => Ku24Keygen

\* The actions of a protocol are taken in its own stages.
LEMMA Gg18KeygenStaged ==
    ASSUME Gg18KeygenNext
    PROVE  stage \in Gg18KeygenStages
  BY DEF Gg18KeygenNext, Gg18KeygenStages, Gg18Deal, Gg18Aggregate, Gg18Confirm, Step, Pass, Return, RefuseFaulty, RefuseVictim

LEMMA Dkls23KeygenStaged ==
    ASSUME Dkls23KeygenNext
    PROVE  stage \in Dkls23KeygenStages
  BY DEF Dkls23KeygenNext, Dkls23KeygenStages, Dkls23Deal, Dkls23KeygenFinish, Step, Pass, Return, RefuseFaulty, RefuseVictim

LEMMA Ggn16KeygenStaged ==
    ASSUME Ggn16KeygenNext
    PROVE  stage \in Ggn16KeygenStages
  BY DEF Ggn16KeygenNext, Ggn16KeygenStages, Ggn16Publish, Ggn16KeygenFinish, Step, Pass, Return, RefuseFaulty, RefuseVictim

LEMMA Cggmp20KeygenStaged ==
    ASSUME Cggmp20KeygenNext
    PROVE  stage \in Cggmp20KeygenStages
  BY DEF Cggmp20KeygenNext, Cggmp20KeygenStages, Cggmp20Deal, Cggmp20Aggregate, Cggmp20Confirm, Cggmp20Ring, Cggmp20AuxFinish, Step, Pass, Return, RefuseFaulty, RefuseVictim

LEMMA Lin17KeygenStaged ==
    ASSUME Lin17KeygenNext
    PROVE  stage \in Lin17KeygenStages
  BY DEF Lin17KeygenNext, Lin17KeygenStages, Lin17EncryptKey, Lin17Round3Refused, Lin17Challenge, Lin17Respond, Lin17OpenChallenge, Lin17Answer, Lin17Finalize, Step, Pass, Return, RefuseFaulty, RefuseVictim

LEMMA Xal21KeygenStaged ==
    ASSUME Xal21KeygenNext
    PROVE  stage \in Xal21KeygenStages
  BY DEF Xal21KeygenNext, Xal21KeygenStages, Xal21SendQ2, Xal21OpenQ1, Xal21KeygenFinish, Step, Pass, Return, RefuseFaulty, RefuseVictim

LEMMA Kgg24KeygenStaged ==
    ASSUME Kgg24KeygenNext
    PROVE  stage \in Kgg24KeygenStages
  BY DEF Kgg24KeygenNext, Kgg24KeygenStages, Kgg24EncryptKey, Kgg24OpenX2, Kgg24KeygenFinish, Step, Pass, Return, RefuseFaulty, RefuseVictim

LEMMA Abc24KeygenStaged ==
    ASSUME Abc24KeygenNext
    PROVE  stage \in Abc24KeygenStages
  BY DEF Abc24KeygenNext, Abc24KeygenStages, Abc24SendX1, Abc24OpenX2, Abc24KeygenFinish, Step, Pass, Return, RefuseFaulty, RefuseVictim

LEMMA Ln18KeygenStaged ==
    ASSUME Ln18KeygenNext
    PROVE  stage \in Ln18KeygenStages
  BY DEF Ln18KeygenNext, Ln18KeygenStages, Ln18Deal, Ln18Aggregate, Ln18Confirm, Step, Pass, Return, RefuseFaulty, RefuseVictim

LEMMA Wmc24KeygenStaged ==
    ASSUME Wmc24KeygenNext
    PROVE  stage \in Wmc24KeygenStages
  BY DEF Wmc24KeygenNext, Wmc24KeygenStages, Wmc24Reveal, Wmc24KeygenFinish, Step, Pass, Return, RefuseFaulty, RefuseVictim

LEMMA Wmy23KeygenStaged ==
    ASSUME Wmy23KeygenNext
    PROVE  stage \in Wmy23KeygenStages
  BY DEF Wmy23KeygenNext, Wmy23KeygenStages, Wmy23Announce, Wmy23KeygenFinish, Step, Pass, Return, RefuseFaulty, RefuseVictim

LEMMA Tx25KeygenStaged ==
    ASSUME Tx25KeygenNext
    PROVE  stage \in Tx25KeygenStages
  BY DEF Tx25KeygenNext, Tx25KeygenStages, Tx25Announce, Tx25KeygenFinish, Step, Pass, Return, RefuseFaulty, RefuseVictim

LEMMA Jtx25KeygenStaged ==
    ASSUME Jtx25KeygenNext
    PROVE  stage \in Jtx25KeygenStages
  BY DEF Jtx25KeygenNext, Jtx25KeygenStages, Jtx25Announce, Jtx25KeygenFinish, Step, Pass, Return, RefuseFaulty, RefuseVictim

LEMMA Llz25KeygenStaged ==
    ASSUME Llz25KeygenNext
    PROVE  stage \in Llz25KeygenStages
  BY DEF Llz25KeygenNext, Llz25KeygenStages, Llz25Encode, Llz25KeygenFinish, Step, Pass, Return, RefuseFaulty, RefuseVictim

LEMMA TroutKeygenStaged ==
    ASSUME TroutKeygenNext
    PROVE  stage \in TroutKeygenStages
  BY DEF TroutKeygenNext, TroutKeygenStages, TroutEncrypt, TroutKeygenFinish, Step, Pass, Return, RefuseFaulty, RefuseVictim

LEMMA Xal23KeygenStaged ==
    ASSUME Xal23KeygenNext
    PROVE  stage \in Xal23KeygenStages
  BY DEF Xal23KeygenNext, Xal23KeygenStages, Xal23KeygenFinish, Step, Pass, Return, RefuseFaulty, RefuseVictim

LEMMA Ku24KeygenStaged ==
    ASSUME Ku24KeygenNext
    PROVE  stage \in Ku24KeygenStages
  BY DEF Ku24KeygenNext, Ku24KeygenStages, Ku24Derive, Ku24KeygenFinish, Step, Pass, Return, RefuseFaulty, RefuseVictim

\* A session that is in a stage of a protocol is one of that protocol.
LEMMA KeygenStage ==
    ASSUME KeygenInv
    PROVE  /\ stage \in Gg18KeygenStages => protocol = "gg18" /\ Gg18Keygen
           /\ stage \in Dkls23KeygenStages => protocol = "dkls23" /\ Dkls23Keygen
           /\ stage \in Ggn16KeygenStages => protocol = "ggn16" /\ Ggn16Keygen
           /\ stage \in Cggmp20KeygenStages => protocol = "cggmp20" /\ Cggmp20Keygen
           /\ stage \in Lin17KeygenStages => protocol = "lin17" /\ Lin17Keygen
           /\ stage \in Xal21KeygenStages => protocol = "xal21" /\ Xal21Keygen
           /\ stage \in Kgg24KeygenStages => protocol = "kgg24" /\ Kgg24Keygen
           /\ stage \in Abc24KeygenStages => protocol = "abc24" /\ Abc24Keygen
           /\ stage \in Ln18KeygenStages => protocol = "ln18" /\ Ln18Keygen
           /\ stage \in Wmc24KeygenStages => protocol = "wmc24" /\ Wmc24Keygen
           /\ stage \in Wmy23KeygenStages => protocol = "wmy23" /\ Wmy23Keygen
           /\ stage \in Tx25KeygenStages => protocol = "tx25" /\ Tx25Keygen
           /\ stage \in Jtx25KeygenStages => protocol = "jtx25" /\ Jtx25Keygen
           /\ stage \in Llz25KeygenStages => protocol = "llz25" /\ Llz25Keygen
           /\ stage \in TroutKeygenStages => protocol = "trout" /\ TroutKeygen
           /\ stage \in Xal23KeygenStages => protocol = "xal23" /\ Xal23Keygen
           /\ stage \in Ku24KeygenStages => protocol = "ku24" /\ Ku24Keygen
<1>1. /\ "ended" \notin UNION {Gg18KeygenStages, Dkls23KeygenStages, Ggn16KeygenStages, Cggmp20KeygenStages, Lin17KeygenStages, Xal21KeygenStages, Kgg24KeygenStages, Abc24KeygenStages, Ln18KeygenStages, Wmc24KeygenStages, Wmy23KeygenStages, Tx25KeygenStages, Jtx25KeygenStages, Llz25KeygenStages, TroutKeygenStages, Xal23KeygenStages, Ku24KeygenStages}
      /\ protocol \in Protocols
  BY DEF KeygenInv, Gg18KeygenStages, Dkls23KeygenStages, Ggn16KeygenStages, Cggmp20KeygenStages, Lin17KeygenStages, Xal21KeygenStages, Kgg24KeygenStages, Abc24KeygenStages, Ln18KeygenStages, Wmc24KeygenStages, Wmy23KeygenStages, Tx25KeygenStages, Jtx25KeygenStages, Llz25KeygenStages, TroutKeygenStages, Xal23KeygenStages, Ku24KeygenStages
<1>2. stage \in Gg18KeygenStages => protocol = "gg18"
  BY DEF KeygenInv, Protocols, Gg18Keygen, Dkls23Keygen, Ggn16Keygen, Cggmp20Keygen, Lin17Keygen, Xal21Keygen, Kgg24Keygen, Abc24Keygen, Ln18Keygen, Wmc24Keygen, Wmy23Keygen, Tx25Keygen, Jtx25Keygen, Llz25Keygen, TroutKeygen, Xal23Keygen, Ku24Keygen, Gg18KeygenStages, Dkls23KeygenStages, Ggn16KeygenStages, Cggmp20KeygenStages, Lin17KeygenStages, Xal21KeygenStages, Kgg24KeygenStages, Abc24KeygenStages, Ln18KeygenStages, Wmc24KeygenStages, Wmy23KeygenStages, Tx25KeygenStages, Jtx25KeygenStages, Llz25KeygenStages, TroutKeygenStages, Xal23KeygenStages, Ku24KeygenStages
<1>3. stage \in Dkls23KeygenStages => protocol = "dkls23"
  BY DEF KeygenInv, Protocols, Gg18Keygen, Dkls23Keygen, Ggn16Keygen, Cggmp20Keygen, Lin17Keygen, Xal21Keygen, Kgg24Keygen, Abc24Keygen, Ln18Keygen, Wmc24Keygen, Wmy23Keygen, Tx25Keygen, Jtx25Keygen, Llz25Keygen, TroutKeygen, Xal23Keygen, Ku24Keygen, Gg18KeygenStages, Dkls23KeygenStages, Ggn16KeygenStages, Cggmp20KeygenStages, Lin17KeygenStages, Xal21KeygenStages, Kgg24KeygenStages, Abc24KeygenStages, Ln18KeygenStages, Wmc24KeygenStages, Wmy23KeygenStages, Tx25KeygenStages, Jtx25KeygenStages, Llz25KeygenStages, TroutKeygenStages, Xal23KeygenStages, Ku24KeygenStages
<1>4. stage \in Ggn16KeygenStages => protocol = "ggn16"
  BY DEF KeygenInv, Protocols, Gg18Keygen, Dkls23Keygen, Ggn16Keygen, Cggmp20Keygen, Lin17Keygen, Xal21Keygen, Kgg24Keygen, Abc24Keygen, Ln18Keygen, Wmc24Keygen, Wmy23Keygen, Tx25Keygen, Jtx25Keygen, Llz25Keygen, TroutKeygen, Xal23Keygen, Ku24Keygen, Gg18KeygenStages, Dkls23KeygenStages, Ggn16KeygenStages, Cggmp20KeygenStages, Lin17KeygenStages, Xal21KeygenStages, Kgg24KeygenStages, Abc24KeygenStages, Ln18KeygenStages, Wmc24KeygenStages, Wmy23KeygenStages, Tx25KeygenStages, Jtx25KeygenStages, Llz25KeygenStages, TroutKeygenStages, Xal23KeygenStages, Ku24KeygenStages
<1>5. stage \in Cggmp20KeygenStages => protocol = "cggmp20"
  BY DEF KeygenInv, Protocols, Gg18Keygen, Dkls23Keygen, Ggn16Keygen, Cggmp20Keygen, Lin17Keygen, Xal21Keygen, Kgg24Keygen, Abc24Keygen, Ln18Keygen, Wmc24Keygen, Wmy23Keygen, Tx25Keygen, Jtx25Keygen, Llz25Keygen, TroutKeygen, Xal23Keygen, Ku24Keygen, Gg18KeygenStages, Dkls23KeygenStages, Ggn16KeygenStages, Cggmp20KeygenStages, Lin17KeygenStages, Xal21KeygenStages, Kgg24KeygenStages, Abc24KeygenStages, Ln18KeygenStages, Wmc24KeygenStages, Wmy23KeygenStages, Tx25KeygenStages, Jtx25KeygenStages, Llz25KeygenStages, TroutKeygenStages, Xal23KeygenStages, Ku24KeygenStages
<1>6. stage \in Lin17KeygenStages => protocol = "lin17"
  BY DEF KeygenInv, Protocols, Gg18Keygen, Dkls23Keygen, Ggn16Keygen, Cggmp20Keygen, Lin17Keygen, Xal21Keygen, Kgg24Keygen, Abc24Keygen, Ln18Keygen, Wmc24Keygen, Wmy23Keygen, Tx25Keygen, Jtx25Keygen, Llz25Keygen, TroutKeygen, Xal23Keygen, Ku24Keygen, Gg18KeygenStages, Dkls23KeygenStages, Ggn16KeygenStages, Cggmp20KeygenStages, Lin17KeygenStages, Xal21KeygenStages, Kgg24KeygenStages, Abc24KeygenStages, Ln18KeygenStages, Wmc24KeygenStages, Wmy23KeygenStages, Tx25KeygenStages, Jtx25KeygenStages, Llz25KeygenStages, TroutKeygenStages, Xal23KeygenStages, Ku24KeygenStages
<1>7. stage \in Xal21KeygenStages => protocol = "xal21"
  BY DEF KeygenInv, Protocols, Gg18Keygen, Dkls23Keygen, Ggn16Keygen, Cggmp20Keygen, Lin17Keygen, Xal21Keygen, Kgg24Keygen, Abc24Keygen, Ln18Keygen, Wmc24Keygen, Wmy23Keygen, Tx25Keygen, Jtx25Keygen, Llz25Keygen, TroutKeygen, Xal23Keygen, Ku24Keygen, Gg18KeygenStages, Dkls23KeygenStages, Ggn16KeygenStages, Cggmp20KeygenStages, Lin17KeygenStages, Xal21KeygenStages, Kgg24KeygenStages, Abc24KeygenStages, Ln18KeygenStages, Wmc24KeygenStages, Wmy23KeygenStages, Tx25KeygenStages, Jtx25KeygenStages, Llz25KeygenStages, TroutKeygenStages, Xal23KeygenStages, Ku24KeygenStages
<1>8. stage \in Kgg24KeygenStages => protocol = "kgg24"
  BY DEF KeygenInv, Protocols, Gg18Keygen, Dkls23Keygen, Ggn16Keygen, Cggmp20Keygen, Lin17Keygen, Xal21Keygen, Kgg24Keygen, Abc24Keygen, Ln18Keygen, Wmc24Keygen, Wmy23Keygen, Tx25Keygen, Jtx25Keygen, Llz25Keygen, TroutKeygen, Xal23Keygen, Ku24Keygen, Gg18KeygenStages, Dkls23KeygenStages, Ggn16KeygenStages, Cggmp20KeygenStages, Lin17KeygenStages, Xal21KeygenStages, Kgg24KeygenStages, Abc24KeygenStages, Ln18KeygenStages, Wmc24KeygenStages, Wmy23KeygenStages, Tx25KeygenStages, Jtx25KeygenStages, Llz25KeygenStages, TroutKeygenStages, Xal23KeygenStages, Ku24KeygenStages
<1>9. stage \in Abc24KeygenStages => protocol = "abc24"
  BY DEF KeygenInv, Protocols, Gg18Keygen, Dkls23Keygen, Ggn16Keygen, Cggmp20Keygen, Lin17Keygen, Xal21Keygen, Kgg24Keygen, Abc24Keygen, Ln18Keygen, Wmc24Keygen, Wmy23Keygen, Tx25Keygen, Jtx25Keygen, Llz25Keygen, TroutKeygen, Xal23Keygen, Ku24Keygen, Gg18KeygenStages, Dkls23KeygenStages, Ggn16KeygenStages, Cggmp20KeygenStages, Lin17KeygenStages, Xal21KeygenStages, Kgg24KeygenStages, Abc24KeygenStages, Ln18KeygenStages, Wmc24KeygenStages, Wmy23KeygenStages, Tx25KeygenStages, Jtx25KeygenStages, Llz25KeygenStages, TroutKeygenStages, Xal23KeygenStages, Ku24KeygenStages
<1>10. stage \in Ln18KeygenStages => protocol = "ln18"
  BY DEF KeygenInv, Protocols, Gg18Keygen, Dkls23Keygen, Ggn16Keygen, Cggmp20Keygen, Lin17Keygen, Xal21Keygen, Kgg24Keygen, Abc24Keygen, Ln18Keygen, Wmc24Keygen, Wmy23Keygen, Tx25Keygen, Jtx25Keygen, Llz25Keygen, TroutKeygen, Xal23Keygen, Ku24Keygen, Gg18KeygenStages, Dkls23KeygenStages, Ggn16KeygenStages, Cggmp20KeygenStages, Lin17KeygenStages, Xal21KeygenStages, Kgg24KeygenStages, Abc24KeygenStages, Ln18KeygenStages, Wmc24KeygenStages, Wmy23KeygenStages, Tx25KeygenStages, Jtx25KeygenStages, Llz25KeygenStages, TroutKeygenStages, Xal23KeygenStages, Ku24KeygenStages
<1>11. stage \in Wmc24KeygenStages => protocol = "wmc24"
  BY DEF KeygenInv, Protocols, Gg18Keygen, Dkls23Keygen, Ggn16Keygen, Cggmp20Keygen, Lin17Keygen, Xal21Keygen, Kgg24Keygen, Abc24Keygen, Ln18Keygen, Wmc24Keygen, Wmy23Keygen, Tx25Keygen, Jtx25Keygen, Llz25Keygen, TroutKeygen, Xal23Keygen, Ku24Keygen, Gg18KeygenStages, Dkls23KeygenStages, Ggn16KeygenStages, Cggmp20KeygenStages, Lin17KeygenStages, Xal21KeygenStages, Kgg24KeygenStages, Abc24KeygenStages, Ln18KeygenStages, Wmc24KeygenStages, Wmy23KeygenStages, Tx25KeygenStages, Jtx25KeygenStages, Llz25KeygenStages, TroutKeygenStages, Xal23KeygenStages, Ku24KeygenStages
<1>12. stage \in Wmy23KeygenStages => protocol = "wmy23"
  BY DEF KeygenInv, Protocols, Gg18Keygen, Dkls23Keygen, Ggn16Keygen, Cggmp20Keygen, Lin17Keygen, Xal21Keygen, Kgg24Keygen, Abc24Keygen, Ln18Keygen, Wmc24Keygen, Wmy23Keygen, Tx25Keygen, Jtx25Keygen, Llz25Keygen, TroutKeygen, Xal23Keygen, Ku24Keygen, Gg18KeygenStages, Dkls23KeygenStages, Ggn16KeygenStages, Cggmp20KeygenStages, Lin17KeygenStages, Xal21KeygenStages, Kgg24KeygenStages, Abc24KeygenStages, Ln18KeygenStages, Wmc24KeygenStages, Wmy23KeygenStages, Tx25KeygenStages, Jtx25KeygenStages, Llz25KeygenStages, TroutKeygenStages, Xal23KeygenStages, Ku24KeygenStages
<1>13. stage \in Tx25KeygenStages => protocol = "tx25"
  BY DEF KeygenInv, Protocols, Gg18Keygen, Dkls23Keygen, Ggn16Keygen, Cggmp20Keygen, Lin17Keygen, Xal21Keygen, Kgg24Keygen, Abc24Keygen, Ln18Keygen, Wmc24Keygen, Wmy23Keygen, Tx25Keygen, Jtx25Keygen, Llz25Keygen, TroutKeygen, Xal23Keygen, Ku24Keygen, Gg18KeygenStages, Dkls23KeygenStages, Ggn16KeygenStages, Cggmp20KeygenStages, Lin17KeygenStages, Xal21KeygenStages, Kgg24KeygenStages, Abc24KeygenStages, Ln18KeygenStages, Wmc24KeygenStages, Wmy23KeygenStages, Tx25KeygenStages, Jtx25KeygenStages, Llz25KeygenStages, TroutKeygenStages, Xal23KeygenStages, Ku24KeygenStages
<1>14. stage \in Jtx25KeygenStages => protocol = "jtx25"
  BY DEF KeygenInv, Protocols, Gg18Keygen, Dkls23Keygen, Ggn16Keygen, Cggmp20Keygen, Lin17Keygen, Xal21Keygen, Kgg24Keygen, Abc24Keygen, Ln18Keygen, Wmc24Keygen, Wmy23Keygen, Tx25Keygen, Jtx25Keygen, Llz25Keygen, TroutKeygen, Xal23Keygen, Ku24Keygen, Gg18KeygenStages, Dkls23KeygenStages, Ggn16KeygenStages, Cggmp20KeygenStages, Lin17KeygenStages, Xal21KeygenStages, Kgg24KeygenStages, Abc24KeygenStages, Ln18KeygenStages, Wmc24KeygenStages, Wmy23KeygenStages, Tx25KeygenStages, Jtx25KeygenStages, Llz25KeygenStages, TroutKeygenStages, Xal23KeygenStages, Ku24KeygenStages
<1>15. stage \in Llz25KeygenStages => protocol = "llz25"
  BY DEF KeygenInv, Protocols, Gg18Keygen, Dkls23Keygen, Ggn16Keygen, Cggmp20Keygen, Lin17Keygen, Xal21Keygen, Kgg24Keygen, Abc24Keygen, Ln18Keygen, Wmc24Keygen, Wmy23Keygen, Tx25Keygen, Jtx25Keygen, Llz25Keygen, TroutKeygen, Xal23Keygen, Ku24Keygen, Gg18KeygenStages, Dkls23KeygenStages, Ggn16KeygenStages, Cggmp20KeygenStages, Lin17KeygenStages, Xal21KeygenStages, Kgg24KeygenStages, Abc24KeygenStages, Ln18KeygenStages, Wmc24KeygenStages, Wmy23KeygenStages, Tx25KeygenStages, Jtx25KeygenStages, Llz25KeygenStages, TroutKeygenStages, Xal23KeygenStages, Ku24KeygenStages
<1>16. stage \in TroutKeygenStages => protocol = "trout"
  BY DEF KeygenInv, Protocols, Gg18Keygen, Dkls23Keygen, Ggn16Keygen, Cggmp20Keygen, Lin17Keygen, Xal21Keygen, Kgg24Keygen, Abc24Keygen, Ln18Keygen, Wmc24Keygen, Wmy23Keygen, Tx25Keygen, Jtx25Keygen, Llz25Keygen, TroutKeygen, Xal23Keygen, Ku24Keygen, Gg18KeygenStages, Dkls23KeygenStages, Ggn16KeygenStages, Cggmp20KeygenStages, Lin17KeygenStages, Xal21KeygenStages, Kgg24KeygenStages, Abc24KeygenStages, Ln18KeygenStages, Wmc24KeygenStages, Wmy23KeygenStages, Tx25KeygenStages, Jtx25KeygenStages, Llz25KeygenStages, TroutKeygenStages, Xal23KeygenStages, Ku24KeygenStages
<1>17. stage \in Xal23KeygenStages => protocol = "xal23"
  BY DEF KeygenInv, Protocols, Gg18Keygen, Dkls23Keygen, Ggn16Keygen, Cggmp20Keygen, Lin17Keygen, Xal21Keygen, Kgg24Keygen, Abc24Keygen, Ln18Keygen, Wmc24Keygen, Wmy23Keygen, Tx25Keygen, Jtx25Keygen, Llz25Keygen, TroutKeygen, Xal23Keygen, Ku24Keygen, Gg18KeygenStages, Dkls23KeygenStages, Ggn16KeygenStages, Cggmp20KeygenStages, Lin17KeygenStages, Xal21KeygenStages, Kgg24KeygenStages, Abc24KeygenStages, Ln18KeygenStages, Wmc24KeygenStages, Wmy23KeygenStages, Tx25KeygenStages, Jtx25KeygenStages, Llz25KeygenStages, TroutKeygenStages, Xal23KeygenStages, Ku24KeygenStages
<1>18. stage \in Ku24KeygenStages => protocol = "ku24"
  BY DEF KeygenInv, Protocols, Gg18Keygen, Dkls23Keygen, Ggn16Keygen, Cggmp20Keygen, Lin17Keygen, Xal21Keygen, Kgg24Keygen, Abc24Keygen, Ln18Keygen, Wmc24Keygen, Wmy23Keygen, Tx25Keygen, Jtx25Keygen, Llz25Keygen, TroutKeygen, Xal23Keygen, Ku24Keygen, Gg18KeygenStages, Dkls23KeygenStages, Ggn16KeygenStages, Cggmp20KeygenStages, Lin17KeygenStages, Xal21KeygenStages, Kgg24KeygenStages, Abc24KeygenStages, Ln18KeygenStages, Wmc24KeygenStages, Wmy23KeygenStages, Tx25KeygenStages, Jtx25KeygenStages, Llz25KeygenStages, TroutKeygenStages, Xal23KeygenStages, Ku24KeygenStages
<1> QED BY <1>2, <1>3, <1>4, <1>5, <1>6, <1>7, <1>8, <1>9, <1>10, <1>11, <1>12, <1>13, <1>14, <1>15, <1>16, <1>17, <1>18 DEF KeygenInv

LEMMA KeygenInit ==
    ASSUME Init
    PROVE  KeygenInv
<1>1. KeygenSession /\ protocol \in Protocols
  <2>1. stage # "ended"
    BY DEF Init, Gg18KeygenBegin, Dkls23KeygenBegin, Ggn16KeygenBegin, Cggmp20KeygenBegin, Lin17KeygenBegin, Xal21KeygenBegin, Kgg24KeygenBegin, Abc24KeygenBegin, Ln18KeygenBegin, Wmc24KeygenBegin, Wmy23KeygenBegin, Tx25KeygenBegin, Jtx25KeygenBegin, Llz25KeygenBegin, TroutKeygenBegin, Xal23KeygenBegin, Ku24KeygenBegin
  <2> QED BY <2>1 DEF Init, KeygenSession
<1>2. CASE protocol = "gg18" /\ Gg18KeygenBegin
  BY <1>1, <1>2, Gg18KeygenBegins DEF KeygenInv
<1>3. CASE protocol = "dkls23" /\ Dkls23KeygenBegin
  BY <1>1, <1>3, Dkls23KeygenBegins DEF KeygenInv
<1>4. CASE protocol = "ggn16" /\ Ggn16KeygenBegin
  BY <1>1, <1>4, Ggn16KeygenBegins DEF KeygenInv
<1>5. CASE protocol = "cggmp20" /\ Cggmp20KeygenBegin
  BY <1>1, <1>5, Cggmp20KeygenBegins DEF KeygenInv
<1>6. CASE protocol = "lin17" /\ Lin17KeygenBegin
  BY <1>1, <1>6, Lin17KeygenBegins DEF KeygenInv
<1>7. CASE protocol = "xal21" /\ Xal21KeygenBegin
  BY <1>1, <1>7, Xal21KeygenBegins DEF KeygenInv
<1>8. CASE protocol = "kgg24" /\ Kgg24KeygenBegin
  BY <1>1, <1>8, Kgg24KeygenBegins DEF KeygenInv
<1>9. CASE protocol = "abc24" /\ Abc24KeygenBegin
  BY <1>1, <1>9, Abc24KeygenBegins DEF KeygenInv
<1>10. CASE protocol = "ln18" /\ Ln18KeygenBegin
  BY <1>1, <1>10, Ln18KeygenBegins DEF KeygenInv
<1>11. CASE protocol = "wmc24" /\ Wmc24KeygenBegin
  BY <1>1, <1>11, Wmc24KeygenBegins DEF KeygenInv
<1>12. CASE protocol = "wmy23" /\ Wmy23KeygenBegin
  BY <1>1, <1>12, Wmy23KeygenBegins DEF KeygenInv
<1>13. CASE protocol = "tx25" /\ Tx25KeygenBegin
  BY <1>1, <1>13, Tx25KeygenBegins DEF KeygenInv
<1>14. CASE protocol = "jtx25" /\ Jtx25KeygenBegin
  BY <1>1, <1>14, Jtx25KeygenBegins DEF KeygenInv
<1>15. CASE protocol = "llz25" /\ Llz25KeygenBegin
  BY <1>1, <1>15, Llz25KeygenBegins DEF KeygenInv
<1>16. CASE protocol = "trout" /\ TroutKeygenBegin
  BY <1>1, <1>16, TroutKeygenBegins DEF KeygenInv
<1>17. CASE protocol = "xal23" /\ Xal23KeygenBegin
  BY <1>1, <1>17, Xal23KeygenBegins DEF KeygenInv
<1>18. CASE protocol = "ku24" /\ Ku24KeygenBegin
  BY <1>1, <1>18, Ku24KeygenBegins DEF KeygenInv
<1> QED BY <1>2, <1>3, <1>4, <1>5, <1>6, <1>7, <1>8, <1>9, <1>10, <1>11, <1>12, <1>13, <1>14, <1>15, <1>16, <1>17, <1>18 DEF Init

LEMMA KeygenStep ==
    ASSUME KeygenInv, Next
    PROVE  KeygenInv'
<1>1. KeygenSession
  BY DEF KeygenInv
<1>2. CASE Gg18KeygenNext
  <2>1. protocol = "gg18" /\ Gg18Keygen
    BY <1>2, KeygenStage, Gg18KeygenStaged
  <2>2. KeygenSession' /\ Gg18Keygen'
    BY <1>1, <1>2, <2>1, Gg18KeygenSteps
  <2>3. protocol' = "gg18"
    BY <2>2 DEF Gg18Keygen
  <2> QED BY <2>2, <2>3 DEF KeygenInv, Protocols
<1>3. CASE Dkls23KeygenNext
  <2>1. protocol = "dkls23" /\ Dkls23Keygen
    BY <1>3, KeygenStage, Dkls23KeygenStaged
  <2>2. KeygenSession' /\ Dkls23Keygen'
    BY <1>1, <1>3, <2>1, Dkls23KeygenSteps
  <2>3. protocol' = "dkls23"
    BY <2>2 DEF Dkls23Keygen
  <2> QED BY <2>2, <2>3 DEF KeygenInv, Protocols
<1>4. CASE Ggn16KeygenNext
  <2>1. protocol = "ggn16" /\ Ggn16Keygen
    BY <1>4, KeygenStage, Ggn16KeygenStaged
  <2>2. KeygenSession' /\ Ggn16Keygen'
    BY <1>1, <1>4, <2>1, Ggn16KeygenSteps
  <2>3. protocol' = "ggn16"
    BY <2>2 DEF Ggn16Keygen
  <2> QED BY <2>2, <2>3 DEF KeygenInv, Protocols
<1>5. CASE Cggmp20KeygenNext
  <2>1. protocol = "cggmp20" /\ Cggmp20Keygen
    BY <1>5, KeygenStage, Cggmp20KeygenStaged
  <2>2. KeygenSession' /\ Cggmp20Keygen'
    BY <1>1, <1>5, <2>1, Cggmp20KeygenSteps
  <2>3. protocol' = "cggmp20"
    BY <2>2 DEF Cggmp20Keygen
  <2> QED BY <2>2, <2>3 DEF KeygenInv, Protocols
<1>6. CASE Lin17KeygenNext
  <2>1. protocol = "lin17" /\ Lin17Keygen
    BY <1>6, KeygenStage, Lin17KeygenStaged
  <2>2. KeygenSession' /\ Lin17Keygen'
    BY <1>1, <1>6, <2>1, Lin17KeygenSteps
  <2>3. protocol' = "lin17"
    BY <2>2 DEF Lin17Keygen
  <2> QED BY <2>2, <2>3 DEF KeygenInv, Protocols
<1>7. CASE Xal21KeygenNext
  <2>1. protocol = "xal21" /\ Xal21Keygen
    BY <1>7, KeygenStage, Xal21KeygenStaged
  <2>2. KeygenSession' /\ Xal21Keygen'
    BY <1>1, <1>7, <2>1, Xal21KeygenSteps
  <2>3. protocol' = "xal21"
    BY <2>2 DEF Xal21Keygen
  <2> QED BY <2>2, <2>3 DEF KeygenInv, Protocols
<1>8. CASE Kgg24KeygenNext
  <2>1. protocol = "kgg24" /\ Kgg24Keygen
    BY <1>8, KeygenStage, Kgg24KeygenStaged
  <2>2. KeygenSession' /\ Kgg24Keygen'
    BY <1>1, <1>8, <2>1, Kgg24KeygenSteps
  <2>3. protocol' = "kgg24"
    BY <2>2 DEF Kgg24Keygen
  <2> QED BY <2>2, <2>3 DEF KeygenInv, Protocols
<1>9. CASE Abc24KeygenNext
  <2>1. protocol = "abc24" /\ Abc24Keygen
    BY <1>9, KeygenStage, Abc24KeygenStaged
  <2>2. KeygenSession' /\ Abc24Keygen'
    BY <1>1, <1>9, <2>1, Abc24KeygenSteps
  <2>3. protocol' = "abc24"
    BY <2>2 DEF Abc24Keygen
  <2> QED BY <2>2, <2>3 DEF KeygenInv, Protocols
<1>10. CASE Ln18KeygenNext
  <2>1. protocol = "ln18" /\ Ln18Keygen
    BY <1>10, KeygenStage, Ln18KeygenStaged
  <2>2. KeygenSession' /\ Ln18Keygen'
    BY <1>1, <1>10, <2>1, Ln18KeygenSteps
  <2>3. protocol' = "ln18"
    BY <2>2 DEF Ln18Keygen
  <2> QED BY <2>2, <2>3 DEF KeygenInv, Protocols
<1>11. CASE Wmc24KeygenNext
  <2>1. protocol = "wmc24" /\ Wmc24Keygen
    BY <1>11, KeygenStage, Wmc24KeygenStaged
  <2>2. KeygenSession' /\ Wmc24Keygen'
    BY <1>1, <1>11, <2>1, Wmc24KeygenSteps
  <2>3. protocol' = "wmc24"
    BY <2>2 DEF Wmc24Keygen
  <2> QED BY <2>2, <2>3 DEF KeygenInv, Protocols
<1>12. CASE Wmy23KeygenNext
  <2>1. protocol = "wmy23" /\ Wmy23Keygen
    BY <1>12, KeygenStage, Wmy23KeygenStaged
  <2>2. KeygenSession' /\ Wmy23Keygen'
    BY <1>1, <1>12, <2>1, Wmy23KeygenSteps
  <2>3. protocol' = "wmy23"
    BY <2>2 DEF Wmy23Keygen
  <2> QED BY <2>2, <2>3 DEF KeygenInv, Protocols
<1>13. CASE Tx25KeygenNext
  <2>1. protocol = "tx25" /\ Tx25Keygen
    BY <1>13, KeygenStage, Tx25KeygenStaged
  <2>2. KeygenSession' /\ Tx25Keygen'
    BY <1>1, <1>13, <2>1, Tx25KeygenSteps
  <2>3. protocol' = "tx25"
    BY <2>2 DEF Tx25Keygen
  <2> QED BY <2>2, <2>3 DEF KeygenInv, Protocols
<1>14. CASE Jtx25KeygenNext
  <2>1. protocol = "jtx25" /\ Jtx25Keygen
    BY <1>14, KeygenStage, Jtx25KeygenStaged
  <2>2. KeygenSession' /\ Jtx25Keygen'
    BY <1>1, <1>14, <2>1, Jtx25KeygenSteps
  <2>3. protocol' = "jtx25"
    BY <2>2 DEF Jtx25Keygen
  <2> QED BY <2>2, <2>3 DEF KeygenInv, Protocols
<1>15. CASE Llz25KeygenNext
  <2>1. protocol = "llz25" /\ Llz25Keygen
    BY <1>15, KeygenStage, Llz25KeygenStaged
  <2>2. KeygenSession' /\ Llz25Keygen'
    BY <1>1, <1>15, <2>1, Llz25KeygenSteps
  <2>3. protocol' = "llz25"
    BY <2>2 DEF Llz25Keygen
  <2> QED BY <2>2, <2>3 DEF KeygenInv, Protocols
<1>16. CASE TroutKeygenNext
  <2>1. protocol = "trout" /\ TroutKeygen
    BY <1>16, KeygenStage, TroutKeygenStaged
  <2>2. KeygenSession' /\ TroutKeygen'
    BY <1>1, <1>16, <2>1, TroutKeygenSteps
  <2>3. protocol' = "trout"
    BY <2>2 DEF TroutKeygen
  <2> QED BY <2>2, <2>3 DEF KeygenInv, Protocols
<1>17. CASE Xal23KeygenNext
  <2>1. protocol = "xal23" /\ Xal23Keygen
    BY <1>17, KeygenStage, Xal23KeygenStaged
  <2>2. KeygenSession' /\ Xal23Keygen'
    BY <1>1, <1>17, <2>1, Xal23KeygenSteps
  <2>3. protocol' = "xal23"
    BY <2>2 DEF Xal23Keygen
  <2> QED BY <2>2, <2>3 DEF KeygenInv, Protocols
<1>18. CASE Ku24KeygenNext
  <2>1. protocol = "ku24" /\ Ku24Keygen
    BY <1>18, KeygenStage, Ku24KeygenStaged
  <2>2. KeygenSession' /\ Ku24Keygen'
    BY <1>1, <1>18, <2>1, Ku24KeygenSteps
  <2>3. protocol' = "ku24"
    BY <2>2 DEF Ku24Keygen
  <2> QED BY <2>2, <2>3 DEF KeygenInv, Protocols
<1> QED BY <1>2, <1>3, <1>4, <1>5, <1>6, <1>7, <1>8, <1>9, <1>10, <1>11, <1>12, <1>13, <1>14, <1>15, <1>16, <1>17, <1>18 DEF Next

LEMMA KeygenStutter ==
    ASSUME KeygenInv, UNCHANGED vars
    PROVE  KeygenInv'
<1>1. /\ stage' = stage /\ know' = know /\ key' = key /\ bent' = bent
      /\ answer' = answer /\ protocol' = protocol
  BY DEF vars
<1>2. Signers' = Signers /\ P1' = P1 /\ P2' = P2 /\ Participants' = Participants
  BY <1>1, SameParties
<1>3. KeygenSession'
  BY <1>1, <1>2 DEF KeygenInv, KeygenSession, Bent, Straight
<1>4. Drawn' = Drawn /\ Shares' = Shares /\ Sent' = Sent /\ SentRight' = SentRight
  BY <1>1, <1>2 DEF Drawn, Has, Secret, Shares, Due, Dealers, Sent, SentRight, Bend, Victim
<1>5. Handed(Shares)' = Handed(Shares) /\ Handed(know.x)' = Handed(know.x)
  BY <1>1, <1>2, <1>4 DEF Handed
<1>6. /\ TwoDrawn' = TwoDrawn /\ HandedTwo("x1", "x2")' = HandedTwo("x1", "x2")
      /\ HandedTwo("x2", "x1")' = HandedTwo("x2", "x1")
  BY <1>1, <1>2 DEF TwoDrawn, Has, HandedTwo, Parts, OfTwo
<1>7. \A places : Faults(places)' = Faults(places)
  BY <1>1, <1>2 DEF Faults, Straight
<1>8. Holders' = Holders
  BY <1>1 DEF Holders
<1>26. HandedOver' = HandedOver /\ Revealed(know.x, know.X)' = Revealed(know.x, know.X)
  BY <1>1, <1>4, HandedOverStutters
<1>9. Gg18Keygen' = Gg18Keygen
  BY <1>1, <1>2, <1>4, <1>5, <1>6, <1>7, <1>8 DEF Gg18Keygen, Has, AllOrNobody
<1>10. Dkls23Keygen' = Dkls23Keygen
  BY <1>1, <1>2, <1>4, <1>5, <1>6, <1>7, <1>8 DEF Dkls23Keygen, Has
<1>11. Ggn16Keygen' = Ggn16Keygen
  BY <1>1, <1>2, <1>4, <1>5, <1>6, <1>7, <1>8 DEF Ggn16Keygen, Has, Ggn16KeyEncrypted
<1>12. Cggmp20Keygen' = Cggmp20Keygen
  BY <1>1, <1>2, <1>4, <1>5, <1>6, <1>7, <1>8 DEF Cggmp20Keygen, Has, Cggmp20KeyEncrypted
<1>13. Lin17Keygen' = Lin17Keygen
  BY <1>1, <1>2, <1>4, <1>5, <1>6, <1>7, <1>8 DEF Lin17Keygen, Has, Lin17KeyEncrypted, Lin17Asked
<1>14. Xal21Keygen' = Xal21Keygen
  BY <1>1, <1>2, <1>4, <1>5, <1>6, <1>7, <1>8 DEF Xal21Keygen, Has
<1>15. Kgg24Keygen' = Kgg24Keygen
  BY <1>1, <1>2, <1>4, <1>5, <1>6, <1>7, <1>8 DEF Kgg24Keygen, Has, Kgg24KeyEncrypted
<1>16. Abc24Keygen' = Abc24Keygen
  BY <1>1, <1>2, <1>4, <1>5, <1>6, <1>7, <1>8 DEF Abc24Keygen, Has
<1>17. Ln18Keygen' = Ln18Keygen
  BY <1>1, <1>2, <1>4, <1>5, <1>6, <1>7, <1>8 DEF Ln18Keygen, Has, AllOrNobody
<1>18. Wmc24Keygen' = Wmc24Keygen
  BY <1>1, <1>2, <1>4, <1>5, <1>6, <1>7, <1>8, <1>26 DEF Wmc24Keygen, Has, Wmc24KeyEncrypted, Dealers
<1>19. Wmy23Keygen' = Wmy23Keygen
  BY <1>1, <1>2, <1>4, <1>5, <1>6, <1>7, <1>8 DEF Wmy23Keygen, Has
<1>20. Tx25Keygen' = Tx25Keygen
  BY <1>1, <1>2, <1>4, <1>5, <1>6, <1>7, <1>8, <1>26 DEF Tx25Keygen, Has
<1>21. Jtx25Keygen' = Jtx25Keygen
  BY <1>1, <1>2, <1>4, <1>5, <1>6, <1>7, <1>8, <1>26 DEF Jtx25Keygen, Has, Jtx25KeyEncrypted, Dealers
<1>22. Llz25Keygen' = Llz25Keygen
  BY <1>1, <1>2, <1>4, <1>5, <1>6, <1>7, <1>8 DEF Llz25Keygen, Has, Llz25KeyEncrypted
<1>23. TroutKeygen' = TroutKeygen
  BY <1>1, <1>2, <1>4, <1>5, <1>6, <1>7, <1>8 DEF TroutKeygen, Has, TroutKeyEncrypted
<1>24. Xal23Keygen' = Xal23Keygen
  BY <1>1, <1>2, <1>4, <1>5, <1>6, <1>7, <1>8 DEF Xal23Keygen, Has
<1>25. Ku24Keygen' = Ku24Keygen
  <2>1. Ku24Subsets' = Ku24Subsets /\ (Ku24Majority' <=> Ku24Majority)
    BY <1>2 DEF Ku24Subsets, Ku24Majority
  <2>2. Ku24Right' = Ku24Right
    BY <1>1, <1>2, <2>1 DEF Ku24Right, Ku24Rand, Ku24Fa
  <2>3. Handed(Ku24Right)' = Handed(Ku24Right)
    BY <1>1, <1>2, <2>2 DEF Handed
  <2> QED BY <1>1, <1>2, <1>7, <2>1, <2>2, <2>3 DEF Ku24Keygen, Has, Ku24OneOff
<1> QED BY <1>1, <1>3, <1>9, <1>10, <1>11, <1>12, <1>13, <1>14, <1>15, <1>16, <1>17, <1>18, <1>19, <1>20, <1>21, <1>22, <1>23, <1>24, <1>25 DEF KeygenInv

\* The invariant is one.
THEOREM KeygenInvariant == Spec => []KeygenInv
<1>1. Init => KeygenInv
  BY KeygenInit
<1>2. KeygenInv /\ [Next]_vars => KeygenInv'
  BY KeygenStep, KeygenStutter
<1> QED BY <1>1, <1>2, PTL DEF Spec

-----------------------------------------------------------------------------
(* What the invariant says of the key shares.                                *)

\* Before the session ends nobody holds anything.
LEMMA NobodyYet ==
    ASSUME KeygenInv, stage # "ended"
    PROVE  Holders = {} /\ DOMAIN answer # {}
  BY Everybody DEF KeygenInv, KeygenSession, Holders

\* Shares that any T of the holders reconstruct the key from.
LEMMA HandedShared ==
    ASSUME DOMAIN answer = Signers, NEW due, Handed(due), Shared(due)
    PROVE  /\ \A p \in Holders : answer[p].pk = key /\ \A d \in Holders : answer[p].points[d] = answer[d].share
           /\ \A S \in SUBSET Holders : Cardinality(S) = T => Reconstruct(Held, S) = key
<1>1. \A p \in Holders : /\ p \in Signers /\ answer[p].share = due[p] /\ answer[p].pk = key
                         /\ \A d \in Signers : answer[p].points[d] = due[d]
  BY DEF Holders, Handed
<1>2. ASSUME NEW S \in SUBSET Holders, Cardinality(S) = T PROVE Reconstruct(Held, S) = key
  <2>1. \A i \in S : Held[i] = due[i]
    BY <1>1 DEF Held
  <2>2. S \in SUBSET Signers
    BY <1>1
  <2>3. [i \in S |-> Held[i] * Lagrange(S, i)] = [i \in S |-> due[i] * Lagrange(S, i)]
    BY <2>1
  <2>4. Reconstruct(Held, S) = Reconstruct(due, S)
    BY <2>3 DEF Reconstruct
  <2> QED BY <1>2, <2>2, <2>4 DEF Shared
<1> QED BY <1>1, <1>2

LEMMA HandedToTwo ==
    ASSUME DOMAIN answer = {P1, P2}, NEW one, NEW two, HandedTwo(one, two),
           know[one] \in Int, know[two] \in Int
    PROVE  /\ \A p \in Holders : answer[p].pk = key /\ \A d \in Holders : answer[p].points[d] = answer[d].share
           /\ Holders = DOMAIN answer =>
                 /\ Total(Held, Holders) = Fl(know[one] + know[two])
                 /\ Product(Held, Holders) = Fl(know[one] * know[two])
<1> DEFINE parts == Parts(one, two)
<1>1. P1 # P2
  BY Everybody
<1>2. parts[P1] = know[one] /\ parts[P2] = know[two]
  BY <1>1 DEF Parts, OfTwo
<1>3. \A p \in Holders : p \in {P1, P2} /\ answer[p] = KeyShare(parts[p], parts, key)
  BY DEF Holders, HandedTwo
<1> HIDE DEF parts
<1>4. \A p \in Holders : answer[p].share = parts[p] /\ answer[p].points = parts /\ answer[p].pk = key
  <2> TAKE p \in Holders
  <2> DEFINE own == parts[p]
  <2>1. answer[p] = KeyShare(own, parts, key)
    BY <1>3
  <2> HIDE DEF own
  <2>2. answer[p].share = own /\ answer[p].points = parts /\ answer[p].pk = key
    BY <2>1 DEF KeyShare
  <2> QED BY <2>2 DEF own
<1>5. ASSUME Holders = {P1, P2}
      PROVE  /\ Total(Held, Holders) = Fl(know[one] + know[two])
             /\ Product(Held, Holders) = Fl(know[one] * know[two])
  <2>1. Held[P1] = know[one] /\ Held[P2] = know[two]
    BY <1>2, <1>4, <1>5 DEF Held
  <2> QED BY <1>5, <2>1, TwoTotals
<1> QED BY <1>4, <1>5

\* Shares that were handed over in protocols that announce their points.
LEMMA AnnouncedShared ==
    ASSUME DOMAIN answer = Signers, HandedOver, Shared(Shares),
           protocol \in Announcing, protocol \notin Additive \cup Multiplicative
    PROVE  SharesOfOneKey
<1>1. ~WrongPoint => \A p, d \in Holders : answer[p].points[d] = answer[d].share
  BY DEF WrongPoint, HandedOver
<1>2. know.fault = "sharing" => Holders = {} \/ WrongSharing
  BY DEF WrongSharing, HandedOver
<1>3. ~WrongPoint /\ ~WrongSharing => \A p \in Holders : answer[p].pk = key
  BY <1>2 DEF WrongPoint, HandedOver
<1>4. ASSUME ~WrongSharing, NEW S \in SUBSET Holders, Cardinality(S) = T
      PROVE  Reconstruct(Held, S) = key
  <2>1. S # {} /\ Holders # {}
    BY <1>4, FS_EmptySet, SigningAssumption
  <2>2. \A p \in Holders : p \in Signers /\ answer[p].share = Shares[p]
    BY <1>2, <1>4, <2>1 DEF HandedOver
  <2>3. \A i \in S : Held[i] = Shares[i] /\ i \in Signers
    BY <2>2 DEF Held
  <2>4. [i \in S |-> Held[i] * Lagrange(S, i)] = [i \in S |-> Shares[i] * Lagrange(S, i)]
    BY <2>3
  <2>5. Reconstruct(Held, S) = Reconstruct(Shares, S)
    BY <2>4 DEF Reconstruct
  <2> QED BY <1>4, <2>3, <2>5 DEF Shared
<1> QED BY <1>1, <1>3, <1>4 DEF SharesOfOneKey, HandedOver

LEMMA KeygenHandsOut ==
    ASSUME KeygenInv
    PROVE  SharesOfOneKey
<1>1. CASE stage # "ended"
  <2>1. Holders = {} /\ Holders # DOMAIN answer
    BY <1>1, NobodyYet
  <2>2. ASSUME NEW S \in SUBSET Holders, Cardinality(S) = T PROVE FALSE
    <3>1. S = {} /\ T # 0
      BY <2>1, SigningAssumption
    <3> QED BY <2>2, <3>1, FS_EmptySet
  <2> QED BY <2>1, <2>2 DEF SharesOfOneKey
<1>2. CASE stage = "ended"
  <2>1. CASE protocol = "gg18"
    <3>1. DOMAIN answer = Signers
      BY <2>1 DEF KeygenInv, KeygenSession, Participants, TwoParty
    <3>2. Handed(Shares)
      BY <1>2, <2>1 DEF KeygenInv, Gg18Keygen
    <3>3. Shared(Shares)
      BY <2>1, SharesShared DEF KeygenInv, Gg18Keygen
    <3>4. /\ \A p \in Holders : answer[p].pk = key /\ \A d \in Holders : answer[p].points[d] = answer[d].share
          /\ \A S \in SUBSET Holders : Cardinality(S) = T => Reconstruct(Held, S) = key
      BY <3>1, <3>2, <3>3, HandedShared
    <3> QED BY <2>1, <3>4 DEF SharesOfOneKey, Additive, Multiplicative
  <2>2. CASE protocol = "dkls23"
    <3>1. DOMAIN answer = Signers
      BY <2>2 DEF KeygenInv, KeygenSession, Participants, TwoParty
    <3>2. Handed(Shares)
      BY <1>2, <2>2 DEF KeygenInv, Dkls23Keygen
    <3>3. Shared(Shares)
      BY <2>2, SharesShared DEF KeygenInv, Dkls23Keygen
    <3>4. /\ \A p \in Holders : answer[p].pk = key /\ \A d \in Holders : answer[p].points[d] = answer[d].share
          /\ \A S \in SUBSET Holders : Cardinality(S) = T => Reconstruct(Held, S) = key
      BY <3>1, <3>2, <3>3, HandedShared
    <3> QED BY <2>2, <3>4 DEF SharesOfOneKey, Additive, Multiplicative
  <2>3. CASE protocol = "ggn16"
    <3>1. DOMAIN answer = Signers /\ know.x \in [Signers -> Scalars] /\ key = Total(know.x, Signers)
      BY <2>3 DEF KeygenInv, KeygenSession, Participants, TwoParty, Ggn16Keygen, Has
    <3>2. Handed(know.x)
      BY <1>2, <2>3 DEF KeygenInv, Ggn16Keygen
    <3>3. \A p \in Holders : /\ p \in Signers /\ answer[p].share = know.x[p] /\ answer[p].pk = key
                             /\ \A d \in Signers : answer[p].points[d] = know.x[d]
      BY <3>1, <3>2 DEF Holders, Handed
    <3>4. ASSUME Holders = Signers PROVE Total(Held, Holders) = key
      <4>1. Held = know.x
        BY <3>1, <3>3, <3>4 DEF Held
      <4> QED BY <3>1, <3>4, <4>1
    <3> QED BY <2>3, <3>1, <3>3, <3>4 DEF SharesOfOneKey, Shamir, Multiplicative
  <2>4. CASE protocol = "cggmp20"
    <3>1. DOMAIN answer = Signers
      BY <2>4 DEF KeygenInv, KeygenSession, Participants, TwoParty
    <3>2. Handed(Shares)
      BY <1>2, <2>4 DEF KeygenInv, Cggmp20Keygen
    <3>3. Shared(Shares)
      BY <2>4, SharesShared DEF KeygenInv, Cggmp20Keygen
    <3>4. /\ \A p \in Holders : answer[p].pk = key /\ \A d \in Holders : answer[p].points[d] = answer[d].share
          /\ \A S \in SUBSET Holders : Cardinality(S) = T => Reconstruct(Held, S) = key
      BY <3>1, <3>2, <3>3, HandedShared
    <3> QED BY <2>4, <3>4 DEF SharesOfOneKey, Additive, Multiplicative
  <2>5. CASE protocol = "lin17"
    <3>1. DOMAIN answer = {P1, P2} /\ TwoDrawn /\ key = Fl(know.x1 * know.x2)
      BY <2>5 DEF KeygenInv, KeygenSession, Participants, TwoParty, Lin17Keygen
    <3>2. HandedTwo("x1", "x2")
      BY <1>2, <2>5 DEF KeygenInv, Lin17Keygen
    <3>3. know["x1"] \in Int /\ know["x2"] \in Int /\ know["x1"] + know["x2"] = know["x2"] + know["x1"]
      <4>1. know["x1"] \in Int /\ know["x2"] \in Int
        BY <3>1, ScalarsType DEF TwoDrawn, Has
      <4> QED BY <4>1
    <3>4. /\ \A p \in Holders : answer[p].pk = key /\ \A d \in Holders : answer[p].points[d] = answer[d].share
          /\ Holders = DOMAIN answer => Product(Held, Holders) = Fl(know["x1"] * know["x2"])
      BY <3>1, <3>2, <3>3, HandedToTwo
    <3> QED BY <2>5, <3>1, <3>3, <3>4 DEF SharesOfOneKey, Shamir, Additive
  <2>6. CASE protocol = "xal21"
    <3>1. DOMAIN answer = {P1, P2} /\ TwoDrawn /\ key = Fl(know.x1 + know.x2)
      BY <2>6 DEF KeygenInv, KeygenSession, Participants, TwoParty, Xal21Keygen
    <3>2. HandedTwo("x1", "x2")
      BY <1>2, <2>6 DEF KeygenInv, Xal21Keygen
    <3>3. know["x1"] \in Int /\ know["x2"] \in Int /\ know["x1"] + know["x2"] = know["x2"] + know["x1"]
      <4>1. know["x1"] \in Int /\ know["x2"] \in Int
        BY <3>1, ScalarsType DEF TwoDrawn, Has
      <4> QED BY <4>1
    <3>4. /\ \A p \in Holders : answer[p].pk = key /\ \A d \in Holders : answer[p].points[d] = answer[d].share
          /\ Holders = DOMAIN answer => Total(Held, Holders) = Fl(know["x1"] + know["x2"])
      BY <3>1, <3>2, <3>3, HandedToTwo
    <3> QED BY <2>6, <3>1, <3>3, <3>4 DEF SharesOfOneKey, Shamir, Multiplicative
  <2>7. CASE protocol = "kgg24"
    <3>1. DOMAIN answer = {P1, P2} /\ TwoDrawn /\ key = Fl(know.x1 + know.x2)
      BY <2>7 DEF KeygenInv, KeygenSession, Participants, TwoParty, Kgg24Keygen
    <3>2. HandedTwo("x1", "x2")
      BY <1>2, <2>7 DEF KeygenInv, Kgg24Keygen
    <3>3. know["x1"] \in Int /\ know["x2"] \in Int /\ know["x1"] + know["x2"] = know["x2"] + know["x1"]
      <4>1. know["x1"] \in Int /\ know["x2"] \in Int
        BY <3>1, ScalarsType DEF TwoDrawn, Has
      <4> QED BY <4>1
    <3>4. /\ \A p \in Holders : answer[p].pk = key /\ \A d \in Holders : answer[p].points[d] = answer[d].share
          /\ Holders = DOMAIN answer => Total(Held, Holders) = Fl(know["x1"] + know["x2"])
      BY <3>1, <3>2, <3>3, HandedToTwo
    <3> QED BY <2>7, <3>1, <3>3, <3>4 DEF SharesOfOneKey, Shamir, Multiplicative
  <2>8. CASE protocol = "abc24"
    <3>1. DOMAIN answer = {P1, P2} /\ TwoDrawn /\ key = Fl(know.x1 + know.x2)
      BY <2>8 DEF KeygenInv, KeygenSession, Participants, TwoParty, Abc24Keygen
    <3>2. HandedTwo("x2", "x1")
      BY <1>2, <2>8 DEF KeygenInv, Abc24Keygen
    <3>3. know["x1"] \in Int /\ know["x2"] \in Int /\ know["x1"] + know["x2"] = know["x2"] + know["x1"]
      <4>1. know["x1"] \in Int /\ know["x2"] \in Int
        BY <3>1, ScalarsType DEF TwoDrawn, Has
      <4> QED BY <4>1
    <3>4. /\ \A p \in Holders : answer[p].pk = key /\ \A d \in Holders : answer[p].points[d] = answer[d].share
          /\ Holders = DOMAIN answer => Total(Held, Holders) = Fl(know["x2"] + know["x1"])
      BY <3>1, <3>2, <3>3, HandedToTwo
    <3> QED BY <2>8, <3>1, <3>3, <3>4 DEF SharesOfOneKey, Shamir, Multiplicative
  <2>9. CASE protocol = "ln18"
    <3>1. DOMAIN answer = Signers
      BY <2>9 DEF KeygenInv, KeygenSession, Participants, TwoParty
    <3>2. Handed(Shares)
      BY <1>2, <2>9 DEF KeygenInv, Ln18Keygen
    <3>3. Shared(Shares)
      BY <2>9, SharesShared DEF KeygenInv, Ln18Keygen
    <3>4. /\ \A p \in Holders : answer[p].pk = key /\ \A d \in Holders : answer[p].points[d] = answer[d].share
          /\ \A S \in SUBSET Holders : Cardinality(S) = T => Reconstruct(Held, S) = key
      BY <3>1, <3>2, <3>3, HandedShared
    <3> QED BY <2>9, <3>4 DEF SharesOfOneKey, Additive, Multiplicative
  <2>10. CASE protocol = "wmc24"
    <3>1. DOMAIN answer = Signers
      BY <2>10 DEF KeygenInv, KeygenSession, Participants, TwoParty
    <3>2. HandedOver
      BY <1>2, <2>10 DEF KeygenInv, Wmc24Keygen
    <3>3. Shared(Shares)
      BY <2>10, SharesShared DEF KeygenInv, Wmc24Keygen
    <3>4. protocol \in Announcing /\ protocol \notin Additive \cup Multiplicative
      BY <2>10 DEF Announcing, Additive, Multiplicative
    <3> QED BY <3>1, <3>2, <3>3, <3>4, AnnouncedShared
  <2>11. CASE protocol = "wmy23"
    <3>1. DOMAIN answer = Signers
      BY <2>11 DEF KeygenInv, KeygenSession, Participants, TwoParty
    <3>2. Handed(Shares)
      BY <1>2, <2>11 DEF KeygenInv, Wmy23Keygen
    <3>3. Shared(Shares)
      BY <2>11, SharesShared DEF KeygenInv, Wmy23Keygen
    <3>4. /\ \A p \in Holders : answer[p].pk = key /\ \A d \in Holders : answer[p].points[d] = answer[d].share
          /\ \A S \in SUBSET Holders : Cardinality(S) = T => Reconstruct(Held, S) = key
      BY <3>1, <3>2, <3>3, HandedShared
    <3> QED BY <2>11, <3>4 DEF SharesOfOneKey, Additive, Multiplicative
  <2>12. CASE protocol = "tx25"
    <3>1. DOMAIN answer = Signers
      BY <2>12 DEF KeygenInv, KeygenSession, Participants, TwoParty
    <3>2. HandedOver
      BY <1>2, <2>12 DEF KeygenInv, Tx25Keygen
    <3>3. Shared(Shares)
      BY <2>12, SharesShared DEF KeygenInv, Tx25Keygen
    <3>4. protocol \in Announcing /\ protocol \notin Additive \cup Multiplicative
      BY <2>12 DEF Announcing, Additive, Multiplicative
    <3> QED BY <3>1, <3>2, <3>3, <3>4, AnnouncedShared
  <2>13. CASE protocol = "jtx25"
    <3>1. DOMAIN answer = Signers
      BY <2>13 DEF KeygenInv, KeygenSession, Participants, TwoParty
    <3>2. HandedOver
      BY <1>2, <2>13 DEF KeygenInv, Jtx25Keygen
    <3>3. Shared(Shares)
      BY <2>13, SharesShared DEF KeygenInv, Jtx25Keygen
    <3>4. protocol \in Announcing /\ protocol \notin Additive \cup Multiplicative
      BY <2>13 DEF Announcing, Additive, Multiplicative
    <3> QED BY <3>1, <3>2, <3>3, <3>4, AnnouncedShared
  <2>14. CASE protocol = "llz25"
    <3>1. DOMAIN answer = Signers
      BY <2>14 DEF KeygenInv, KeygenSession, Participants, TwoParty
    <3>2. Handed(Shares)
      BY <1>2, <2>14 DEF KeygenInv, Llz25Keygen
    <3>3. Shared(Shares)
      BY <2>14, SharesShared DEF KeygenInv, Llz25Keygen
    <3>4. /\ \A p \in Holders : answer[p].pk = key /\ \A d \in Holders : answer[p].points[d] = answer[d].share
          /\ \A S \in SUBSET Holders : Cardinality(S) = T => Reconstruct(Held, S) = key
      BY <3>1, <3>2, <3>3, HandedShared
    <3> QED BY <2>14, <3>4 DEF SharesOfOneKey, Additive, Multiplicative
  <2>15. CASE protocol = "trout"
    <3>1. DOMAIN answer = Signers
      BY <2>15 DEF KeygenInv, KeygenSession, Participants, TwoParty
    <3>2. Handed(Shares)
      BY <1>2, <2>15 DEF KeygenInv, TroutKeygen
    <3>3. Shared(Shares)
      BY <2>15, SharesShared DEF KeygenInv, TroutKeygen
    <3>4. /\ \A p \in Holders : answer[p].pk = key /\ \A d \in Holders : answer[p].points[d] = answer[d].share
          /\ \A S \in SUBSET Holders : Cardinality(S) = T => Reconstruct(Held, S) = key
      BY <3>1, <3>2, <3>3, HandedShared
    <3> QED BY <2>15, <3>4 DEF SharesOfOneKey, Additive, Multiplicative
  <2>16. CASE protocol = "xal23"
    <3>1. DOMAIN answer = Signers
      BY <2>16 DEF KeygenInv, KeygenSession, Participants, TwoParty
    <3>2. Handed(Shares)
      BY <1>2, <2>16 DEF KeygenInv, Xal23Keygen
    <3>3. Shared(Shares)
      BY <2>16, SharesShared DEF KeygenInv, Xal23Keygen
    <3>4. /\ \A p \in Holders : answer[p].pk = key /\ \A d \in Holders : answer[p].points[d] = answer[d].share
          /\ \A S \in SUBSET Holders : Cardinality(S) = T => Reconstruct(Held, S) = key
      BY <3>1, <3>2, <3>3, HandedShared
    <3> QED BY <2>16, <3>4 DEF SharesOfOneKey, Additive, Multiplicative
  <2>17. CASE protocol = "ku24"
    <3>1. DOMAIN answer = Signers
      BY <2>17 DEF KeygenInv, KeygenSession, Participants, TwoParty
    <3>2. Handed(Ku24Right)
      BY <1>2, <2>17 DEF KeygenInv, Ku24Keygen
    <3>3. Shared(Ku24Right)
      BY <2>17, Ku24Shared DEF KeygenInv
    <3>4. /\ \A p \in Holders : answer[p].pk = key /\ \A d \in Holders : answer[p].points[d] = answer[d].share
          /\ \A S \in SUBSET Holders : Cardinality(S) = T => Reconstruct(Held, S) = key
      BY <3>1, <3>2, <3>3, HandedShared
    <3> QED BY <2>17, <3>4 DEF SharesOfOneKey, Additive, Multiplicative
  <2> QED BY <2>1, <2>2, <2>3, <2>4, <2>5, <2>6, <2>7, <2>8, <2>9, <2>10, <2>11, <2>12, <2>13, <2>14, <2>15, <2>16, <2>17 DEF KeygenInv, Protocols
<1> QED BY <1>1, <1>2

LEMMA KeygenEncrypts ==
    ASSUME KeygenInv
    PROVE  EncryptedKeysFit
<1>1. CASE stage # "ended"
  <2>1. Holders = {}
    BY <1>1, NobodyYet
  <2>2. ASSUME NEW S \in SUBSET Holders, Cardinality(S) = T PROVE FALSE
    <3>1. S = {} /\ T # 0
      BY <2>1, SigningAssumption
    <3> QED BY <2>2, <3>1, FS_EmptySet
  <2> QED BY <2>1, <2>2 DEF EncryptedKeysFit, Cggmp20KeyEncrypted, Ggn16KeyEncrypted, Jtx25KeyEncrypted, Kgg24KeyEncrypted, Lin17KeyEncrypted, Llz25KeyEncrypted, TroutKeyEncrypted, Wmc24KeyEncrypted
<1>2. CASE stage = "ended"
  BY <1>2 DEF EncryptedKeysFit, KeygenInv, Ggn16Keygen, Cggmp20Keygen, Lin17Keygen, Kgg24Keygen, Wmc24Keygen, Jtx25Keygen, Llz25Keygen, TroutKeygen
<1> QED BY <1>1, <1>2

LEMMA KeygenConfirms ==
    ASSUME KeygenInv
    PROVE  AllOrNobody
<1>1. CASE stage # "ended"
  BY <1>1, NobodyYet DEF AllOrNobody
<1>2. CASE stage = "ended"
  BY <1>2 DEF AllOrNobody, Confirmed, KeygenInv, Gg18Keygen, Ln18Keygen
<1> QED BY <1>1, <1>2

\* The key shares that a key generation hands out are shares of one key, and
\* the points their holders have of each other's are those of the shares: for
\* any number of parties, any threshold and field, whatever the dealers draw,
\* and whichever single message of the session is wrong in the ways that are
\* modelled.  Of WMC24, TX25 and JTX25 that is not said of two of them: of the
\* points, and the public key, where one party announced a wrong point, and of
\* the shares, and the public key, where one dealt a wrong sharing to fewer than
\* T + 2 parties; that the others agree on the public key is said of both.
THEOREM KeygenShares == Spec => []SharesOfOneKey
<1>1. KeygenInv => SharesOfOneKey
  BY KeygenHandsOut
<1> QED BY <1>1, KeygenInvariant, PTL

\* What a key generation encrypts for later sessions is what it should be: the
\* homomorphic sum of GGN16 does not wrap, the encrypted shares are those of
\* their holders, the encryption keys are filed under their owners, and the
\* second keys of WMC24 and JTX25 are shared as the first one is.
THEOREM KeygenEncrypted == Spec => []EncryptedKeysFit
<1>1. KeygenInv => EncryptedKeysFit
  BY KeygenEncrypts
<1> QED BY <1>1, KeygenInvariant, PTL

\* In GG18 and LN18, which confirm, no party keeps a key share while another one
\* refuses.
THEOREM KeygenConfirmed == Spec => []AllOrNobody
<1>1. KeygenInv => AllOrNobody
  BY KeygenConfirms
<1> QED BY <1>1, KeygenInvariant, PTL

=============================================================================
