----------------------- MODULE LockstepSession_proofs -----------------------
(***************************************************************************)
(* Proofs about LockstepSession, for any two or more parties, any protocol *)
(* rounds and any cap on the iterations.                                   *)
(*                                                                         *)
(* Until a verification fails, iteration k takes every party through the   *)
(* k-th round: what the parties encode is exactly what each of them needs, *)
(* and each decodes all of it.                                             *)
(***************************************************************************)
EXTENDS LockstepSession

USE DEF Rounds, Done, Others

-----------------------------------------------------------------------------
\* Type correctness.

\* iteration is counted only up to the cap, one party at a time decodes, and only
\* running parties are visited.
LoopInv ==
    /\ phase \in {"decode", "finish"} => iteration < MaxIterations
    /\ \A p \in decoding, q \in decoding : p = q
    /\ phase # "over" => \A p \in todo \ decoding : Running(p)

\* What is posted is well-formed.
LEMMA PostedType ==
    ASSUME RunnerTypeOK, NEW p \in Parties
    PROVE  Posted(p) \in SUBSET Envelopes
<1> SUFFICES ASSUME NEW m \in Encoded(p), NEW d \in Recipients(p, m)
             PROVE  Envelope(p, m, d, 0) \in Envelopes
  BY DEF Posted
<1>1. /\ m.tag \in FirstRound..Done /\ m.round \in Rounds
      /\ m.to \in Parties \cup {Everyone}
  BY DEF Encoded, RunnerTypeOK, Outbox
<1>2. d \in Parties
  BY <1>1 DEF Recipients
<1> QED BY <1>1, <1>2 DEF Envelope, Envelopes

LEMMA TypeStep ==
    ASSUME MaxIterations \in Nat
    PROVE  TypeOK /\ LoopInv /\ [Next]_vars => TypeOK'
<1> SUFFICES ASSUME TypeOK, LoopInv, [Next]_vars PROVE TypeOK'
  OBVIOUS
<1>1. ASSUME NEW p \in Parties, EncodeAndPost(p), UNCHANGED <<round, got, seen, buffer, draining>>
      PROVE  /\ mail' \in SUBSET Envelopes
             /\ outbox' \in [Parties -> SUBSET Outbox]
  BY <1>1, PostedType DEF EncodeAndPost, Drained, TypeOK, RunnerTypeOK
<1>2. ASSUME NEW p \in Parties, Encode(p) PROVE TypeOK'
  BY <1>1, <1>2 DEF Encode, Leave, TypeOK, RunnerTypeOK
<1>3. ASSUME NEW p \in Parties, Decode(p) PROVE TypeOK'
  BY <1>3 DEF Decode, Stop, Leave, TypeOK, RunnerTypeOK
<1>4. ASSUME NEW p \in Parties, NEW e \in mail, DecodeMessage(p, e) PROVE TypeOK'
  <2>1. e \in Envelopes
    BY DEF TypeOK
  <2>2. RunnerTypeOK'
    BY <1>4, <2>1, DecodeOneType DEF DecodeMessage, TypeOK
  <2> QED BY <1>4, <2>2 DEF DecodeMessage, TypeOK
<1>5. ASSUME NEW p \in Parties, EndDecode(p) PROVE TypeOK'
  BY <1>5 DEF EndDecode, Leave, TypeOK, RunnerTypeOK
<1>6. ASSUME NEW p \in Parties, Finish(p) PROVE TypeOK'
  <2>1. /\ mail' \in SUBSET Envelopes
        /\ outbox' \in [Parties -> SUBSET Outbox]
    BY <1>1, <1>6 DEF Finish, TypeOK, RunnerTypeOK
  <2> QED BY <1>6, <2>1 DEF Finish, Stop, Leave, TypeOK, RunnerTypeOK
<1>7. CASE NextPhase
  <2>1. iteration' \in 0..MaxIterations
    BY <1>7 DEF NextPhase, LoopInv, TypeOK
  <2> QED BY <1>7, <2>1 DEF NextPhase, Unfinished, Phases, TypeOK, RunnerTypeOK
<1>8. CASE LeaveLoop
  BY <1>8 DEF LeaveLoop, Errors, Phases, TypeOK, RunnerTypeOK
<1>9. CASE UNCHANGED vars
  BY <1>9 DEF vars, TypeOK, RunnerTypeOK
<1> QED BY <1>2, <1>3, <1>4, <1>5, <1>6, <1>7, <1>8, <1>9 DEF Next, PartyNext, Returned

LEMMA LoopStep == TypeOK /\ LoopInv /\ [Next]_vars => LoopInv'
<1> SUFFICES ASSUME TypeOK, LoopInv, [Next]_vars PROVE LoopInv'
  OBVIOUS
<1>1. ASSUME NEW p \in Parties, Encode(p) PROVE LoopInv'
  BY <1>1 DEF Encode, Visit, Leave, LoopInv, Running
<1>2. ASSUME NEW p \in Parties, Decode(p) PROVE LoopInv'
  BY <1>2 DEF Decode, Visit, Stop, Leave, LoopInv, Running, TypeOK, RunnerTypeOK
<1>3. ASSUME NEW p \in Parties, NEW e \in mail, DecodeMessage(p, e) PROVE LoopInv'
  <2>1. \A q \in Parties : q # p => result'[q] = result[q]
    BY <1>3 DEF DecodeMessage, DecodeOne, Handle, Advance, Stop, TypeOK, RunnerTypeOK
  <2> QED BY <1>3, <2>1 DEF DecodeMessage, LoopInv, Running, TypeOK
<1>4. ASSUME NEW p \in Parties, EndDecode(p) PROVE LoopInv'
  <2>1. todo' \subseteq todo \ decoding
    BY <1>4 DEF EndDecode, Leave, LoopInv
  <2> QED BY <1>4, <2>1 DEF EndDecode, LoopInv, Running
<1>5. ASSUME NEW p \in Parties, Finish(p) PROVE LoopInv'
  BY <1>5 DEF Finish, Visit, Stop, Leave, LoopInv, Running, TypeOK, RunnerTypeOK
<1>6. CASE NextPhase
  BY <1>6 DEF NextPhase, Unfinished, LoopInv, Running
<1>7. CASE LeaveLoop
  BY <1>7 DEF LeaveLoop, LoopInv
<1>8. CASE UNCHANGED vars
  BY <1>8 DEF vars, LoopInv, Running
<1> QED BY <1>1, <1>2, <1>3, <1>4, <1>5, <1>6, <1>7, <1>8 DEF Next, PartyNext, Returned

LEMMA TypeInit ==
    ASSUME MaxIterations \in Nat
    PROVE  Init => TypeOK /\ LoopInv
<1> SUFFICES ASSUME Init PROVE TypeOK /\ LoopInv
  OBVIOUS
<1>1. \A p \in Parties : Produced(p, FirstRound) \in SUBSET Outbox
  BY ProducedType, RoundsAssumption
<1>2. RunnerTypeOK
  BY <1>1, RoundsAssumption DEF Init, RunnerInit, RunnerTypeOK
<1>3. LoopInv
  BY DEF Init, RunnerInit, LoopInv, Running
<1> QED BY <1>2, <1>3 DEF Init, TypeOK, Phases

\* The loop of run_multi_party_sync and its mailboxes keep their types: nothing
\* runs past the last round or the cap, whatever the constants.
THEOREM LockstepTypeCorrect ==
    ASSUME MaxIterations \in Nat
    PROVE  Spec => []TypeOK
BY TypeInit, TypeStep, LoopStep, PTL DEF Spec

-----------------------------------------------------------------------------
\* Where every party is, until a verification fails.

\* The round this iteration is about.
Turn == FirstRound + iteration

\* Messages of this round for d, named as the rounds name what they need.
Letter(n, d) == [from |-> n[1], dest |-> d, to |-> n[2], tag |-> Turn, round |-> Turn,
                 copy |-> 0]
Letters(N, d) == {Letter(n, d) : n \in N}

SeenBefore(p) == \A s \in seen[p] : s[2] < Turn

\* p is in the round with part of its messages; the others are in its mailbox.
Hearing(p) ==
    /\ round[p] = Turn
    /\ outbox[p] = {}
    /\ got[p] \subseteq Needed(p, Turn) /\ got[p] # Needed(p, Turn)
    /\ MailFor(p) = Letters(Needed(p, Turn) \ got[p], p)
    /\ \A s \in seen[p] : s[2] < Turn \/ (s[2] = Turn /\ <<s[1], s[3]>> \in got[p])

\* p is through with the round.
Through(p) ==
    /\ round[p] = Turn + 1
    /\ outbox[p] = Produced(p, Turn + 1)
    /\ got[p] = {}
    /\ MailFor(p) = {}
    /\ \A s \in seen[p] : s[2] < Turn + 1

Encoding ==
    /\ decoding = {}
    /\ Turn = Done => todo = {}
    /\ \A p \in Parties :
        /\ round[p] = Turn
        /\ got[p] = {}
        /\ SeenBefore(p)
        /\ result[p] = IF Turn = Done THEN "done" ELSE "running"
        /\ outbox[p] = IF p \in todo THEN Produced(p, Turn) ELSE {}
        /\ MailFor(p) = Letters({n \in Needed(p, Turn) : n[1] \notin todo}, p)

Decoding ==
    /\ Turn < Done
    /\ decoding \subseteq todo
    /\ \A p \in Parties :
        /\ result[p] = "running"
        /\ \/ p \in todo /\ Hearing(p)
           \/ (p \in todo => p \in decoding) /\ Through(p)

Finishing ==
    /\ Turn < Done
    /\ decoding = {}
    /\ \A p \in Parties :
        /\ Through(p)
        /\ result[p] = IF Turn + 1 = Done /\ p \notin todo THEN "done" ELSE "running"

Over ==
    /\ decoding = {}
    /\ \A p \in Parties : result[p] # "done" => Turn < Done /\ iteration = MaxIterations

\* Every party is where the loop expects it.
Lockstep ==
    /\ Turn \in FirstRound..Done
    /\ \A p \in Parties : buffer[p] = {}
    /\ phase = "encode" => Encoding
    /\ phase = "decode" => Decoding
    /\ phase = "finish" => Finishing
    /\ phase = "over" => Over

Aborted == \E p \in Parties : result[p] = "Aborted"

LockstepInv == Aborted \/ Lockstep


-----------------------------------------------------------------------------
\* What a party posts is what the others need from it.
LEMMA PostedLetters ==
    ASSUME RunnerTypeOK, NEW p \in Parties, round[p] = Turn, Turn \in Rounds,
           outbox[p] = Produced(p, Turn), NEW d \in Parties
    PROVE  {e \in Posted(p) : e.dest = d} = Letters({n \in Needed(d, Turn) : n[1] = p}, d)
<1>1. ASSUME NEW m \in Encoded(p)
      PROVE  m.tag = Turn /\ m.round = Turn /\ m.to \in Addressees(p, Turn)
  BY DEF Encoded, Produced
<1>2. ASSUME NEW a \in Addressees(p, Turn)
      PROVE  [tag |-> Turn, round |-> Turn, to |-> a] \in Encoded(p)
  <2>1. [round |-> Turn, to |-> a] \in outbox[p]
    BY DEF Produced
  <2> QED BY <2>1 DEF Encoded
<1>3. ASSUME NEW e \in Posted(p), e.dest = d
      PROVE  e \in Letters({n \in Needed(d, Turn) : n[1] = p}, d)
  <2>1. PICK m \in Encoded(p) : \E c \in Recipients(p, m) : e = Envelope(p, m, c, 0)
    BY <1>3 DEF Posted
  <2>2. d \in Recipients(p, m) /\ e = Envelope(p, m, d, 0)
    BY <1>3, <2>1 DEF Envelope
  <2>3. e = Letter(<<p, m.to>>, d)
    BY <1>1, <2>2 DEF Envelope, Letter
  <2>4. <<p, m.to>> \in Needed(d, Turn)
    BY <1>1, <2>2, PartiesAssumption DEF Recipients, Addressees, Needed
  <2> QED BY <2>3, <2>4 DEF Letters
<1>4. ASSUME NEW n \in Needed(d, Turn), n[1] = p
      PROVE  Letter(n, d) \in Posted(p) /\ Letter(n, d).dest = d
  <2>1. n[2] \in Addressees(p, Turn) /\ p \in Others(d)
    BY <1>4, PartiesAssumption DEF Needed, Addressees
  <2>2. d \in Recipients(p, [tag |-> Turn, round |-> Turn, to |-> n[2]])
    BY <1>4, <2>1, PartiesAssumption DEF Recipients, Needed
  <2>3. Letter(n, d) = Envelope(p, [tag |-> Turn, round |-> Turn, to |-> n[2]], d, 0)
    BY <1>4 DEF Letter, Envelope
  <2> QED BY <1>2, <2>1, <2>2, <2>3 DEF Letter, Posted
<1> QED BY <1>3, <1>4 DEF Letters

\* Different needs are different letters.
LEMMA LettersDiffer ==
    ASSUME NEW d \in Parties, NEW n \in Needed(d, Turn), NEW k \in Needed(d, Turn),
           Letter(n, d) = Letter(k, d)
    PROVE  n = k
<1>1. n[1] = k[1] /\ n[2] = k[2]
  BY DEF Letter
<1> QED BY <1>1 DEF Needed

LEMMA EncodeInStep ==
    ASSUME TypeOK, LoopInv, Lockstep, NEW p \in Parties, Encode(p)
    PROVE  Lockstep'
<1> USE RoundsAssumption
<1>1. /\ phase = "encode" /\ p \in todo /\ Encoding
      /\ UNCHANGED <<round, got, seen, buffer, draining, result, iteration, phase, decoding>>
      /\ outbox' = [outbox EXCEPT ![p] = {}] /\ mail' = mail \cup Posted(p)
      /\ todo' = todo \ {p}
  BY DEF Encode, Visit, Leave, EncodeAndPost, Drained, Lockstep
<1>2. Turn \in Rounds /\ Turn' = Turn
  BY <1>1 DEF Encoding, Lockstep, Turn
<1>3. \A q \in Parties : MailFor(q)' = MailFor(q) \cup {e \in Posted(p) : e.dest = q}
  BY <1>1 DEF MailFor
<1>4. \A q \in Parties : {e \in Posted(p) : e.dest = q}
                            = Letters({n \in Needed(q, Turn) : n[1] = p}, q)
  BY <1>1, <1>2, PostedLetters DEF Encoding, TypeOK
<1>5. ASSUME NEW q \in Parties
      PROVE  MailFor(q)' = Letters({n \in Needed(q, Turn) : n[1] \notin todo'}, q)
  <2>1. MailFor(q) = Letters({n \in Needed(q, Turn) : n[1] \notin todo}, q)
    BY <1>1 DEF Encoding
  <2> QED BY <1>1, <1>3, <1>4, <2>1 DEF Letters
<1>6. \A q \in Parties : outbox'[q] = IF q \in todo' THEN Produced(q, Turn) ELSE {}
  BY <1>1 DEF Encoding, TypeOK, RunnerTypeOK
<1>7. Encoding'
  <2>1. \A q \in Parties : MailFor(q)' = Letters({n \in Needed(q, Turn) : n[1] \notin todo}, q)'
    BY <1>1, <1>2, <1>5 DEF Letters, Letter, Needed
  <2>2. \A q \in Parties : outbox'[q] = (IF q \in todo THEN Produced(q, Turn) ELSE {})'
    BY <1>2, <1>6 DEF Produced, Addressees
  <2>3. \A q \in Parties : SeenBefore(q)'
    BY <1>1, <1>2 DEF Encoding, SeenBefore
  <2> QED BY <1>1, <1>2, <2>1, <2>2, <2>3 DEF Encoding
<1> QED BY <1>1, <1>2, <1>7 DEF Lockstep

\* A party's turn to decode begins.
LEMMA DecodeInStep ==
    ASSUME TypeOK, LoopInv, Lockstep, NEW p \in Parties, Decode(p)
    PROVE  Lockstep'
<1> USE RoundsAssumption
<1>1. /\ phase = "decode" /\ p \in todo /\ decoding = {} /\ Decoding
      /\ UNCHANGED <<round, got, outbox, seen, buffer, draining, mail, iteration, phase>>
  BY DEF Decode, Visit, Lockstep
<1>2. Hearing(p) /\ Turn' = Turn
  BY <1>1 DEF Decoding, Turn
<1>3. ~IsDone(p)
  BY <1>1, <1>2 DEF Hearing, IsDone, Decoding
<1>4. decoding' = {p} /\ UNCHANGED <<todo, result>>
  BY <1>3 DEF Decode
<1>5. \A q \in Parties : (Hearing(q) => Hearing(q)') /\ (Through(q) => Through(q)')
  BY <1>1, <1>2 DEF Hearing, Through, MailFor, Letters, Letter, Needed, Produced, Addressees
<1>6. Decoding'
  BY <1>1, <1>2, <1>4, <1>5 DEF Decoding
<1> QED BY <1>1, <1>2, <1>6 DEF Lockstep

\* A step of p touches nothing of another party's turn.
LEMMA OthersKeep ==
    ASSUME TypeOK, NEW p \in Parties, NEW e \in mail, DecodeMessage(p, e), e.dest = p,
           NEW q \in Parties, q # p
    PROVE  /\ Hearing(q) => Hearing(q)'
           /\ Through(q) => Through(q)'
           /\ result'[q] = result[q] /\ buffer'[q] = buffer[q]
<1>1. /\ round'[q] = round[q] /\ outbox'[q] = outbox[q] /\ got'[q] = got[q]
      /\ seen'[q] = seen[q] /\ buffer'[q] = buffer[q] /\ result'[q] = result[q]
  BY DEF DecodeMessage, DecodeOne, Handle, Advance, Stop, TypeOK, RunnerTypeOK
<1>2. MailFor(q)' = MailFor(q) /\ Turn' = Turn
  BY DEF DecodeMessage, MailFor, Turn
<1> QED BY <1>1, <1>2 DEF Hearing, Through, Letters, Letter, Needed, Produced, Addressees

\* A message of the round: recorded, or the last, or the one that fails.
LEMMA MessageInStep ==
    ASSUME TypeOK, LoopInv, Lockstep, NEW p \in Parties, NEW e \in mail, DecodeMessage(p, e)
    PROVE  Lockstep' \/ Aborted'
<1> USE RoundsAssumption
<1>1. /\ phase = "decode" /\ Decoding
      /\ p \in decoding /\ e \in MailFor(p) /\ Running(p) /\ e.dest = p
      /\ mail' = mail \ {e} /\ DecodeOne(p, e)
      /\ UNCHANGED <<iteration, phase, todo, decoding>>
  BY DEF DecodeMessage, Lockstep, Encoding, Finishing, Over, MailFor, TypeOK, Phases
<1>2. p \in todo /\ Hearing(p) /\ Turn \in Rounds /\ Turn' = Turn
  BY <1>1 DEF Decoding, Through, Lockstep, Turn
<1>3. PICK n \in Needed(p, Turn) \ got[p] : e = Letter(n, p)
  BY <1>1, <1>2 DEF Hearing, Letters
<1>4. /\ n = <<e.from, e.to>> /\ e.tag = Turn /\ e.round = Turn
      /\ Key(e) = <<n[1], Turn, n[2]>>
  BY <1>3 DEF Letter, Key, Needed
<1>5. Key(e) \notin seen[p]
  <2> SUFFICES ASSUME Key(e) \in seen[p] PROVE FALSE
    OBVIOUS
  <2>1. Turn < Turn \/ <<n[1], n[2]>> \in got[p]
    BY <1>2, <1>4 DEF Hearing
  <2>2. <<n[1], n[2]>> = n
    BY <1>3 DEF Needed
  <2> QED BY <1>2, <1>3, <2>1, <2>2
<1>6. ForMachine(p, e) /\ Accepts(p, e)
  BY <1>2, <1>3, <1>4 DEF ForMachine, Accepts, Hearing
<1>7. /\ seen' = [seen EXCEPT ![p] = @ \cup {Key(e)}]
      /\ UNCHANGED <<buffer, draining>> /\ Handle(p, e)
  BY <1>1, <1>5, <1>6 DEF DecodeOne
<1>8. \A s \in seen'[p] : s \in seen[p] \/ s = <<n[1], Turn, n[2]>>
  BY <1>4, <1>7 DEF TypeOK, RunnerTypeOK
<1>9. \A q \in Parties : q # p => /\ Hearing(q) => Hearing(q)'
                                  /\ Through(q) => Through(q)'
                                  /\ result'[q] = result[q]
  BY <1>1, OthersKeep
<1>10. MailFor(p)' = Letters(Needed(p, Turn) \ (got[p] \cup {n}), p)
  <2>1. MailFor(p)' = MailFor(p) \ {e}
    BY <1>1 DEF MailFor
  <2>2. \A k \in Needed(p, Turn) : Letter(k, p) = e => k = n
    BY <1>3, LettersDiffer
  <2> QED BY <1>2, <1>3, <2>1, <2>2 DEF Hearing, Letters
<1>11. ASSUME UNCHANGED result, Hearing(p)' \/ Through(p)'
       PROVE  Lockstep'
  <2>1. Decoding'
    BY <1>1, <1>2, <1>9, <1>11 DEF Decoding
  <2> QED BY <1>1, <1>2, <1>7, <2>1 DEF Lockstep
<1>12. CASE /\ ~Completes(p, e)
            /\ got' = [got EXCEPT ![p] = @ \cup {<<e.from, e.to>>}]
            /\ UNCHANGED <<round, outbox, result>>
  <2>1. got'[p] = got[p] \cup {n}
    BY <1>4, <1>12 DEF TypeOK, RunnerTypeOK
  <2>2. got'[p] \subseteq Needed(p, Turn) /\ got'[p] # Needed(p, Turn)
    BY <1>2, <1>3, <1>4, <1>12, <2>1 DEF Hearing, Completes
  <2>3. \A s \in seen'[p] : s[2] < Turn \/ (s[2] = Turn /\ <<s[1], s[3]>> \in got'[p])
    <3>1. <<n[1], n[2]>> = n
      BY <1>3 DEF Needed
    <3> SUFFICES ASSUME NEW s \in seen'[p]
                 PROVE  s[2] < Turn \/ (s[2] = Turn /\ <<s[1], s[3]>> \in got'[p])
      OBVIOUS
    <3>2. CASE s \in seen[p]
      BY <1>2, <2>1, <3>2 DEF Hearing
    <3>3. CASE s = <<n[1], Turn, n[2]>>
      BY <2>1, <3>1, <3>3
    <3> QED BY <1>8, <3>2, <3>3
  <2>4. Hearing(p)'
    <3>1. /\ round'[p] = Turn /\ outbox'[p] = {}
          /\ MailFor(p)' = Letters(Needed(p, Turn) \ got'[p], p)
      BY <1>2, <1>10, <1>12, <2>1 DEF Hearing
    <3> QED BY <1>2, <2>2, <2>3, <3>1 DEF Hearing, Letters, Letter, Needed
  <2> QED BY <1>11, <1>12, <2>4
<1>13. CASE Completes(p, e) /\ Advance(p) /\ UNCHANGED result
  <2>1. /\ round'[p] = Turn + 1 /\ got'[p] = {} /\ outbox'[p] = Produced(p, Turn + 1)
    BY <1>2, <1>13 DEF Advance, KeptOnAdvance, Hearing, TypeOK, RunnerTypeOK
  <2>2. MailFor(p)' = {}
    BY <1>2, <1>4, <1>10, <1>13 DEF Completes, Hearing, Letters
  <2>3. \A s \in seen'[p] : s[2] < Turn + 1
    <3> SUFFICES ASSUME NEW s \in seen'[p] PROVE s[2] < Turn + 1
      OBVIOUS
    <3>1. CASE s \in seen[p]
      <4>1. s[2] < Turn \/ s[2] = Turn
        BY <1>2, <3>1 DEF Hearing
      <4>2. s[2] \in Int
        BY <3>1 DEF TypeOK, RunnerTypeOK
      <4> QED BY <1>2, <4>1, <4>2
    <3>2. CASE s = <<n[1], Turn, n[2]>>
      BY <1>2, <3>2
    <3> QED BY <1>8, <3>1, <3>2
  <2>4. Through(p)'
    BY <1>2, <2>1, <2>2, <2>3 DEF Through, Produced, Addressees
  <2> QED BY <1>11, <1>13, <2>4
<1>14. CASE Stop(p, "Aborted")
  BY <1>14 DEF Stop, Aborted, TypeOK, RunnerTypeOK
<1> QED BY <1>6, <1>7, <1>12, <1>13, <1>14 DEF Handle

\* step_decode returns only when the party is through with the round.
LEMMA EndInStep ==
    ASSUME TypeOK, LoopInv, Lockstep, NEW p \in Parties, EndDecode(p)
    PROVE  Lockstep'
<1> USE RoundsAssumption
<1>1. /\ phase = "decode" /\ Decoding /\ p \in decoding
      /\ decoding' = {} /\ todo' = todo \ {p} /\ mail' = mail \ MailFor(p)
      /\ UNCHANGED <<round, got, outbox, seen, buffer, draining, result, iteration, phase>>
  BY DEF EndDecode, Leave, Lockstep, Encoding, Finishing, Over, TypeOK, Phases
<1>2. MailFor(p) = {} /\ Turn' = Turn
  BY <1>1 DEF EndDecode, Decoding, Running, Turn
<1>3. ~Hearing(p)
  <2> SUFFICES ASSUME Hearing(p) PROVE FALSE
    OBVIOUS
  <2>1. PICK n \in Needed(p, Turn) \ got[p] : TRUE
    BY DEF Hearing
  <2>2. Letter(n, p) \in MailFor(p)
    BY <2>1 DEF Hearing, Letters
  <2> QED BY <1>2, <2>2
<1>4. UNCHANGED mail
  BY <1>1, <1>2
<1>5. \A q \in Parties : (Hearing(q) => Hearing(q)') /\ (Through(q) => Through(q)')
  BY <1>1, <1>2, <1>4 DEF Hearing, Through, MailFor, Letters, Letter, Needed, Produced,
                          Addressees
<1>6. \A q \in decoding : q = p
  BY <1>1 DEF LoopInv
<1>7. Decoding'
  BY <1>1, <1>2, <1>3, <1>5, <1>6 DEF Decoding
<1> QED BY <1>1, <1>2, <1>7 DEF Lockstep

\* A machine that is done produced nothing more to send.
LEMMA FinishInStep ==
    ASSUME TypeOK, LoopInv, Lockstep, NEW p \in Parties, Finish(p)
    PROVE  Lockstep'
<1> USE RoundsAssumption
<1>1. /\ phase = "finish" /\ p \in todo /\ Finishing /\ todo' = todo \ {p}
      /\ UNCHANGED <<round, got, seen, buffer, draining, iteration, phase, decoding>>
  BY DEF Finish, Visit, Leave, Lockstep
<1>2. Turn' = Turn /\ round[p] = Turn + 1 /\ result[p] = "running"
  BY <1>1 DEF Finishing, Through, Turn
<1>3. UNCHANGED <<outbox, mail>>
  <2>1. CASE IsDone(p)
    <3>1. outbox[p] = {}
      BY <1>1, <1>2, <2>1, DoneProducesNothing DEF IsDone, Finishing, Through
    <3>2. Posted(p) = {}
      BY <3>1 DEF Posted, Encoded
    <3> QED BY <2>1, <3>1, <3>2 DEF Finish, EncodeAndPost, Drained, TypeOK, RunnerTypeOK
  <2>2. CASE ~IsDone(p)
    BY <2>2 DEF Finish
  <2> QED BY <2>1, <2>2
<1>4. \A q \in Parties : Through(q)'
  BY <1>1, <1>2, <1>3 DEF Finishing, Through, MailFor, Produced, Addressees
<1>5. \A q \in Parties : q # p => result'[q] = result[q]
  BY DEF Finish, Stop, TypeOK, RunnerTypeOK
<1>6. result'[p] = IF Turn + 1 = Done THEN "done" ELSE "running"
  BY <1>2 DEF Finish, Stop, IsDone, TypeOK, RunnerTypeOK
<1>7. Finishing'
  BY <1>1, <1>2, <1>4, <1>5, <1>6 DEF Finishing
<1> QED BY <1>1, <1>2, <1>7 DEF Lockstep

\* From one phase to the next, and from one round to the next.
LEMMA PhaseInStep ==
    ASSUME TypeOK, LoopInv, Lockstep, NextPhase, \A p \in Parties : Others(p) # {}
    PROVE  Lockstep'
<1> USE RoundsAssumption
<1>1. /\ todo = {} /\ todo' = Unfinished
      /\ UNCHANGED <<round, got, outbox, seen, buffer, draining, result, mail, decoding>>
  BY DEF NextPhase
<1>2. \A q \in Parties : MailFor(q)' = MailFor(q)
  BY <1>1 DEF MailFor
<1>3. Turn \in Int /\ iteration \in Int
  BY DEF Lockstep, TypeOK
<1>4. CASE phase = "encode"
  <2>1. /\ phase' = "decode" /\ Encoding /\ Unfinished # {} /\ Turn' = Turn
    BY <1>4 DEF NextPhase, Lockstep, Turn
  <2>2. Turn < Done
    <3>1. Turn # Done
      BY <2>1 DEF Encoding, Unfinished, Running
    <3> QED BY <1>3, <3>1 DEF Lockstep
  <2>3. Unfinished = Parties
    BY <2>1, <2>2 DEF Encoding, Unfinished, Running
  <2>4. ASSUME NEW p \in Parties PROVE Hearing(p)'
    <3>1. MailFor(p) = Letters(Needed(p, Turn), p)
      BY <1>1, <2>1 DEF Encoding
    <3>2. Needed(p, Turn) # {}
      BY <1>3, <2>2, NeededFromAll DEF Lockstep
    <3>3. outbox[p] = {} /\ got[p] = {} /\ round[p] = Turn /\ SeenBefore(p)
      BY <1>1, <2>1 DEF Encoding
    <3>4. MailFor(p)' = Letters(Needed(p, Turn) \ got[p], p)'
      BY <1>1, <1>2, <2>1, <3>1, <3>3 DEF Letters, Letter, Needed
    <3>5. /\ Needed(p, Turn)' = Needed(p, Turn) /\ got'[p] = {}
          /\ round'[p] = Turn' /\ outbox'[p] = {} /\ SeenBefore(p)'
      BY <1>1, <2>1, <3>3 DEF Needed, SeenBefore
    <3> QED BY <3>2, <3>4, <3>5 DEF Hearing, SeenBefore
  <2>5. Decoding'
    <3>1. \A p \in Parties : result'[p] = "running" /\ p \in todo'
      <4>1. \A p \in Parties : result[p] = "running"
        BY <2>3 DEF Unfinished, Running
      <4> QED BY <1>1, <2>3, <4>1
    <3>2. Turn' < Done /\ decoding' = {}
      BY <1>1, <2>1, <2>2 DEF Encoding
    <3> QED BY <2>4, <3>1, <3>2 DEF Decoding
  <2> QED BY <1>1, <2>1, <2>5 DEF Lockstep
<1>5. CASE phase = "decode"
  <2>1. /\ phase' = "finish" /\ Decoding /\ Turn' = Turn
    BY <1>5 DEF NextPhase, Lockstep, Turn
  <2>2. Unfinished = Parties /\ decoding = {}
    BY <1>1, <2>1 DEF Decoding, Unfinished, Running
  <2>3. \A p \in Parties : Through(p)'
    BY <1>1, <1>2, <2>1 DEF Decoding, Through, Produced, Addressees
  <2>4. Finishing'
    BY <1>1, <2>1, <2>2, <2>3 DEF Finishing, Decoding
  <2> QED BY <1>1, <2>1, <2>4 DEF Lockstep
<1>6. CASE phase = "finish"
  <2>1. /\ phase' = "encode" /\ Finishing /\ Turn' = Turn + 1
    BY <1>3, <1>6 DEF NextPhase, Lockstep, Turn
  <2>2. todo' = IF Turn + 1 = Done THEN {} ELSE Parties
    BY <1>1, <2>1 DEF Finishing, Unfinished, Running
  <2>3. ASSUME NEW p \in Parties
        PROVE  /\ round'[p] = Turn' /\ got'[p] = {} /\ SeenBefore(p)'
               /\ result'[p] = IF Turn' = Done THEN "done" ELSE "running"
               /\ outbox'[p] = Produced(p, Turn + 1) /\ MailFor(p)' = {}
    BY <1>1, <1>2, <2>1 DEF Finishing, Through, SeenBefore
  <2>4. ASSUME NEW p \in Parties
        PROVE  outbox'[p] = (IF p \in todo THEN Produced(p, Turn) ELSE {})'
    <3>1. Produced(p, Done) = {}
      BY DoneProducesNothing
    <3> QED BY <2>1, <2>2, <2>3, <3>1 DEF Produced, Addressees
  <2>5. ASSUME NEW p \in Parties
        PROVE  MailFor(p)' = Letters({n \in Needed(p, Turn) : n[1] \notin todo}, p)'
    <3>1. Turn + 1 = Done => Needed(p, Turn + 1) = {}
      BY <2>1, KindsAssumption DEF Needed
    <3>2. {n \in Needed(p, Turn + 1) : n[1] \notin todo'} = {}
      BY <2>2, <3>1 DEF Needed
    <3> QED BY <2>1, <2>3, <3>2 DEF Letters, Needed
  <2>6. Encoding'
    BY <1>1, <2>1, <2>2, <2>3, <2>4, <2>5 DEF Encoding, Finishing
  <2>7. Turn' \in FirstRound..Done
    BY <1>3, <2>1 DEF Finishing, Lockstep
  <2> QED BY <1>1, <2>1, <2>6, <2>7 DEF Lockstep
<1> QED BY <1>4, <1>5, <1>6 DEF NextPhase

\* The loop is left with every output, or with the cap used up.
LEMMA LeaveInStep ==
    ASSUME TypeOK, LoopInv, Lockstep, LeaveLoop
    PROVE  Lockstep'
<1> USE RoundsAssumption
<1>1. /\ phase = "encode" /\ phase' = "over" /\ Encoding
      /\ Unfinished = {} \/ iteration = MaxIterations
      /\ result' = [p \in Parties |-> IF Running(p) THEN "MaxRounds" ELSE result[p]]
      /\ UNCHANGED <<buffer, iteration, decoding>> /\ Turn' = Turn
  BY DEF LeaveLoop, Lockstep, Turn
<1>2. ASSUME NEW p \in Parties, result'[p] # "done"
      PROVE  Turn < Done /\ iteration = MaxIterations
  <2>1. result[p] = "running" /\ Turn # Done
    BY <1>1, <1>2 DEF Encoding, Running
  <2> QED BY <1>1, <2>1 DEF Unfinished, Running, Lockstep
<1> QED BY <1>1, <1>2 DEF Lockstep, Over, Encoding

\* A failed verification is not forgotten: its session is over.
LEMMA AbortedStays ==
    ASSUME TypeOK, LoopInv, Aborted, [Next]_vars
    PROVE  Aborted'
<1>1. PICK a \in Parties : result[a] = "Aborted"
  BY DEF Aborted
<1> SUFFICES result'[a] = "Aborted"
  BY DEF Aborted
<1>2. ~Running(a)
  BY <1>1 DEF Running
<1>3. ASSUME NEW p \in Parties, Decode(p) \/ Finish(p) PROVE result'[a] = "Aborted"
  <2>1. p # a
    BY <1>2, <1>3 DEF Decode, Finish, Visit, LoopInv
  <2> QED BY <1>1, <1>3, <2>1 DEF Decode, Finish, Stop, TypeOK, RunnerTypeOK
<1>4. ASSUME NEW p \in Parties, NEW e \in mail, DecodeMessage(p, e) PROVE result'[a] = "Aborted"
  <2>1. p # a
    BY <1>2, <1>4 DEF DecodeMessage
  <2> QED BY <1>1, <1>4, <2>1 DEF DecodeMessage, DecodeOne, Handle, Stop, TypeOK, RunnerTypeOK
<1>5. ASSUME NEW p \in Parties, Encode(p) \/ EndDecode(p) PROVE result'[a] = "Aborted"
  BY <1>1, <1>5 DEF Encode, EndDecode
<1>6. CASE NextPhase \/ UNCHANGED vars
  BY <1>1, <1>6 DEF NextPhase, vars
<1>7. CASE LeaveLoop
  BY <1>1, <1>2, <1>7 DEF LeaveLoop
<1> QED BY <1>3, <1>4, <1>5, <1>6, <1>7 DEF Next, PartyNext, Returned

LEMMA LockstepStep ==
    ASSUME \A p \in Parties : Others(p) # {}
    PROVE  TypeOK /\ LoopInv /\ LockstepInv /\ [Next]_vars => LockstepInv'
<1> SUFFICES ASSUME TypeOK, LoopInv, Lockstep, [Next]_vars PROVE Lockstep' \/ Aborted'
  BY AbortedStays DEF LockstepInv
<1>1. CASE UNCHANGED vars
  <2>1. /\ Turn' = Turn
        /\ UNCHANGED <<round, got, outbox, seen, buffer, result, mail, iteration, phase, todo,
                       decoding>>
    BY <1>1 DEF vars, Turn
  <2>2. \A p \in Parties : /\ Hearing(p) => Hearing(p)'
                           /\ Through(p) => Through(p)'
    BY <2>1 DEF Hearing, Through, MailFor, Letters, Letter, Needed, Produced, Addressees
  <2>3. Encoding => Encoding'
    BY <2>1 DEF Encoding, SeenBefore, MailFor, Letters, Letter, Needed, Produced, Addressees
  <2>4. (Decoding => Decoding') /\ (Finishing => Finishing') /\ (Over => Over')
    BY <2>1, <2>2 DEF Decoding, Finishing, Over
  <2> QED BY <2>1, <2>3, <2>4 DEF Lockstep
<1>2. CASE NextPhase
  BY <1>2, PhaseInStep
<1>3. CASE LeaveLoop
  BY <1>3, LeaveInStep
<1>4. CASE \E p \in Parties : PartyNext(p)
  BY <1>4, EncodeInStep, DecodeInStep, MessageInStep, EndInStep, FinishInStep DEF PartyNext
<1> QED BY <1>1, <1>2, <1>3, <1>4 DEF Next, Returned

LEMMA LockstepInit ==
    ASSUME MaxIterations \in Nat
    PROVE  Init => LockstepInv
<1> SUFFICES ASSUME Init PROVE Lockstep
  BY DEF LockstepInv
<1> USE RoundsAssumption
<1>1. Turn = FirstRound /\ Turn \in FirstRound..Done /\ Turn # Done
  BY DEF Init, Turn
<1>2. \A p \in Parties : MailFor(p) = Letters({n \in Needed(p, Turn) : n[1] \notin todo}, p)
  <2>1. \A p \in Parties : {n \in Needed(p, Turn) : n[1] \notin todo} = {}
    BY DEF Init, Needed
  <2> QED BY <2>1 DEF Init, MailFor, Letters
<1>3. Encoding
  BY <1>1, <1>2 DEF Init, RunnerInit, Encoding, SeenBefore
<1> QED BY <1>1, <1>3 DEF Init, RunnerInit, Lockstep

\* An iteration of the loop begins in step, and a loop that was left without a
\* failed verification and with iterations enough has every output.
LEMMA LockstepMeans ==
    ASSUME TypeOK, LockstepInv
    PROVE  InStep /\ CapIsEnough
<1> USE RoundsAssumption
<1>1. CASE Aborted
  <2>1. ~NobodyFailed
    BY <1>1 DEF Aborted, NobodyFailed
  <2> QED BY <1>1, <2>1 DEF InStep, CapIsEnough, Aborted
<1>2. CASE Lockstep
  <2>1. InStep
    <3> SUFFICES ASSUME phase = "encode", todo = Unfinished
                 PROVE  mail = {} /\ \A p \in Parties : buffer[p] = {} /\ round[p] = Turn
      BY DEF InStep, Turn
    <3>1. Encoding
      BY <1>2 DEF Lockstep
    <3>2. ASSUME NEW p \in Parties PROVE MailFor(p) = {}
      <4>1. CASE Turn = Done
        <5>1. Needed(p, Turn) = {}
          BY <4>1, KindsAssumption DEF Needed
        <5> QED BY <3>1, <5>1 DEF Encoding, Letters
      <4>2. CASE Turn # Done
        <5>1. todo = Parties
          BY <3>1, <4>2 DEF Encoding, Unfinished, Running
        <5>2. {n \in Needed(p, Turn) : n[1] \notin todo} = {}
          BY <5>1 DEF Needed
        <5> QED BY <3>1, <5>2 DEF Encoding, Letters
      <4> QED BY <4>1, <4>2
    <3>3. mail = {}
      BY <3>2 DEF MailFor, TypeOK, Envelopes
    <3> QED BY <1>2, <3>1, <3>3 DEF Lockstep, Encoding
  <2>2. CapIsEnough
    <3> SUFFICES ASSUME phase = "over", MaxIterations >= LastRound - FirstRound + 1,
                        NEW p \in Parties, result[p] # "done"
                 PROVE  FALSE
      BY DEF CapIsEnough
    <3>1. Turn < Done /\ iteration = MaxIterations /\ iteration \in Int
      BY <1>2 DEF Lockstep, Over, TypeOK
    <3> QED BY <3>1 DEF Turn
  <2> QED BY <2>1, <2>2
<1> QED BY <1>1, <1>2 DEF LockstepInv

\* With two or more parties, any rounds, any kind of outbox and any cap: while
\* nobody failed every iteration of run_multi_party_sync begins with all parties
\* in the same round and nothing in a mailbox or a buffer, and as many iterations
\* as there are rounds give every party its output unless a verification failed.
THEOREM LockstepSafe ==
    ASSUME MaxIterations \in Nat, \A p \in Parties : Others(p) # {}
    PROVE  Spec => [](InStep /\ CapIsEnough)
<1>1. TypeOK /\ LockstepInv => InStep /\ CapIsEnough
  BY LockstepMeans
<1> QED BY <1>1, TypeInit, TypeStep, LoopStep, LockstepInit, LockstepStep, PTL DEF Spec

-----------------------------------------------------------------------------
\* The barrier, failures or not: every message belongs to a round its sender has
\* reached.

Reached ==
    /\ \A p \in Parties : \A m \in outbox[p] : m.round <= round[p]
    /\ \A e \in mail : e.round <= round[e.from]
    /\ GotReached

\* What is posted is of a round its party has reached.
LEMMA PostReached ==
    ASSUME TypeOK, Reached, NEW p \in Parties, EncodeAndPost(p), UNCHANGED <<round, got>>
    PROVE  Reached'
<1>1. \A q \in Parties : outbox'[q] \subseteq outbox[q]
  BY DEF EncodeAndPost, Drained, TypeOK, RunnerTypeOK
<1>2. \A e \in mail' : e \in mail \/ (e.from = p /\ e.round <= round[p])
  BY DEF EncodeAndPost, Posted, Encoded, Envelope, Reached
<1> QED BY <1>1, <1>2 DEF Reached, GotReached

\* A message that is decoded moves its machine at most past the barrier.
LEMMA MessageReached ==
    ASSUME TypeOK, Reached, NEW p \in Parties, NEW e \in mail, DecodeMessage(p, e)
    PROVE  Reached' /\ [Barrier!Next]_round
<1>1. /\ e \in Envelopes /\ e.round <= round[e.from] /\ DecodeOne(p, e)
      /\ mail' = mail \ {e} /\ RunnerTypeOK
  BY DEF TypeOK, Reached, DecodeMessage
<1>2. /\ UNCHANGED round \/ Barrier!Pass(p)
      /\ \A q \in Parties : round'[q] \in Int /\ round[q] <= round'[q]
      /\ \A q \in Parties : q # p => outbox'[q] = outbox[q]
      /\ \A m \in outbox'[p] : m.round <= round'[p]
      /\ GotReached'
  BY <1>1, DecodeOneReached DEF Reached
<1>3. ASSUME NEW q \in Parties, NEW m \in outbox'[q] PROVE m.round <= round'[q]
  <2>1. CASE q # p
    <3>1. m \in outbox[q] /\ m.round \in Int /\ round[q] \in Int
      BY <1>2, <2>1, RoundsAssumption DEF TypeOK, RunnerTypeOK, Outbox
    <3> QED BY <1>2, <3>1 DEF Reached
  <2> QED BY <1>2, <2>1
<1>4. ASSUME NEW f \in mail' PROVE f.round <= round'[f.from]
  <2>1. f \in mail /\ f \in Envelopes
    BY <1>1 DEF TypeOK
  <2>2. f.from \in Parties /\ f.round \in Int /\ round[f.from] \in Int
    BY <2>1, RoundsAssumption DEF Envelopes, TypeOK, RunnerTypeOK
  <2> QED BY <1>2, <2>1, <2>2 DEF Reached
<1> QED BY <1>2, <1>3, <1>4 DEF Reached, Barrier!Next

LEMMA ReachedStep == TypeOK /\ Reached /\ [Next]_vars => Reached' /\ [Barrier!Next]_round
<1> SUFFICES ASSUME TypeOK, Reached, [Next]_vars PROVE Reached' /\ [Barrier!Next]_round
  OBVIOUS
<1>1. ASSUME UNCHANGED <<round, got, outbox>>, mail' \subseteq mail
      PROVE  Reached' /\ UNCHANGED round
  BY <1>1 DEF Reached, GotReached
<1>2. ASSUME NEW p \in Parties, Encode(p) PROVE Reached' /\ UNCHANGED round
  BY <1>2, PostReached DEF Encode
<1>3. ASSUME NEW p \in Parties, Finish(p) PROVE Reached' /\ UNCHANGED round
  BY <1>1, <1>3, PostReached DEF Finish
<1>4. ASSUME NEW p \in Parties, Decode(p) \/ EndDecode(p) PROVE Reached' /\ UNCHANGED round
  BY <1>1, <1>4 DEF Decode, EndDecode
<1>5. CASE NextPhase \/ LeaveLoop \/ UNCHANGED vars
  BY <1>1, <1>5 DEF NextPhase, LeaveLoop, vars
<1> QED BY <1>2, <1>3, <1>4, <1>5, MessageReached DEF Next, PartyNext, Returned

\* run_multi_party_sync implements the barrier, whatever fails: a party leaves a
\* round only when every party has reached it.
THEOREM LockstepBarrier ==
    ASSUME MaxIterations \in Nat
    PROVE  Spec => RefinesBarrier
<1>1. Init => Reached /\ Barrier!Init
  BY RoundsAssumption DEF Init, RunnerInit, Reached, GotReached, Produced, Barrier!Init
<1> QED BY <1>1, TypeInit, TypeStep, LoopStep, ReachedStep, PTL
        DEF Spec, RefinesBarrier, Barrier!Spec
=============================================================================
