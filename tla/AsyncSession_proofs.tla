------------------------ MODULE AsyncSession_proofs ------------------------
(***************************************************************************)
(* Proofs about AsyncSession, for any set of parties, any protocol rounds, *)
(* any delivery order, any number of failures and either kind of outbox.   *)
(***************************************************************************)
EXTENDS AsyncSession

USE DEF Rounds, Done, Others

-----------------------------------------------------------------------------
\* Type correctness.

LEMMA EncodingType ==
    ASSUME TypeOK, NEW p \in Parties, Encode(p)
    PROVE  toSend' \in [Parties -> SUBSET Encodings]
<1>1. 0 \in 0..MaxRetries
  BY ConfigAssumption
<1>2. {[tag |-> m.tag, round |-> m.round, to |-> m.to, tries |-> 0] : m \in Encoded(p)}
        \in SUBSET Encodings
  BY <1>1 DEF TypeOK, RunnerTypeOK, Encoded, Encodings, Outbox
<1> QED BY <1>2 DEF Encode, TypeOK

LEMMA DeliveredType ==
    ASSUME TypeOK, NEW p \in Parties, NEW m \in toSend[p],
           NEW ds \in SUBSET Recipients(p, m), Delivered(p, m, ds)
    PROVE  net' \in SUBSET Envelopes
<1>1. m \in Encodings
  BY DEF TypeOK
<1>2. m.to # Everyone => m.to \in Parties
  BY <1>1 DEF Encodings
<1>3. Recipients(p, m) \in SUBSET Parties
  BY <1>2 DEF Recipients
<1>4. m.tries \in Nat
  BY <1>1, ConfigAssumption DEF Encodings
<1>5. \A d \in ds : Envelope(p, m, d, m.tries) \in Envelopes
  BY <1>1, <1>3, <1>4 DEF Envelope, Envelopes, Encodings
<1> QED BY <1>5 DEF Delivered, TypeOK

LEMMA TypeStep == TypeOK /\ [Next]_vars => TypeOK'
<1> SUFFICES ASSUME TypeOK, [Next]_vars PROVE TypeOK'
  OBVIOUS
<1> USE BoundsAssumption
<1>1. ASSUME NEW p \in Parties, Encode(p) PROVE TypeOK'
  BY <1>1, EncodingType DEF Encode, Drained, Goto, Labels, TypeOK, RunnerTypeOK
<1>2. ASSUME NEW p \in Parties, NEW m \in toSend[p], SendOk(p, m) PROVE TypeOK'
  <2>1. net' \in SUBSET Envelopes
    BY <1>2, DeliveredType DEF SendOk
  <2> QED BY <1>2, <2>1 DEF SendOk, TypeOK, RunnerTypeOK
<1>3. ASSUME NEW p \in Parties, NEW m \in toSend[p], SendFails(p, m) PROVE TypeOK'
  <2>1. net' \in SUBSET Envelopes
    BY <1>3, DeliveredType DEF SendFails
  <2>2. m \in Encodings
    BY DEF TypeOK
  <2>3. m.tries < MaxRetries => [m EXCEPT !.tries = m.tries + 1] \in Encodings
    BY <2>2, ConfigAssumption DEF Encodings
  <2>4. toSend' \in [Parties -> SUBSET Encodings]
    BY <1>3, <2>3 DEF SendFails, TypeOK
  <2>5. result' \in [Parties -> {"running", "done"} \cup Errors]
    BY <1>3 DEF SendFails, Stop, Errors, TypeOK, RunnerTypeOK
  <2>6. failures' \in 0..MaxFailures
    BY <1>3 DEF SendFails, TypeOK
  <2> QED BY <1>3, <2>1, <2>4, <2>5, <2>6 DEF SendFails, TypeOK, RunnerTypeOK
<1>4. ASSUME NEW p \in Parties, AfterSend(p) PROVE TypeOK'
  BY <1>4 DEF AfterSend, Stop, Errors, Goto, Labels, TypeOK, RunnerTypeOK
<1>5. ASSUME NEW p \in Parties, EndBatch(p) \/ ReceiveNothing(p) PROVE TypeOK'
  BY <1>5 DEF EndBatch, ReceiveNothing, StartDrain, TakeBuffer, Goto, Labels,
              TypeOK, RunnerTypeOK
<1>6. ASSUME NEW p \in Parties, NEW e \in buffer[p], Drain(p, e) PROVE TypeOK'
  BY <1>6, DrainOneType DEF Drain, sessionVars, TypeOK
<1>7. ASSUME NEW p \in Parties, EndDrain(p) PROVE TypeOK'
  BY <1>7 DEF EndDrain, Goto, Labels, TypeOK, RunnerTypeOK
<1>8. ASSUME NEW p \in Parties, NEW e \in net, Receive(p, e) PROVE TypeOK'
  <2>1. e \in Envelopes
    BY DEF TypeOK
  <2>2. RunnerTypeOK'
    BY <1>8, <2>1, DecodeOneType DEF Receive, TypeOK
  <2> QED BY <1>8, <2>2 DEF Receive, Goto, Labels, TypeOK
<1>9. ASSUME NEW p \in Parties,
             ReceiveStray(p) \/ RoundTimeout(p) \/ ReceiveFails(p) \/ Crash(p)
      PROVE  TypeOK'
  BY <1>9 DEF ReceiveStray, DecodeInvalid, RoundTimeout, ReceiveFails, Crash, Stop, Errors,
              TypeOK, RunnerTypeOK
<1>10. CASE UNCHANGED vars
  BY <1>10 DEF vars, TypeOK, RunnerTypeOK
<1> QED
  BY <1>1, <1>2, <1>3, <1>4, <1>5, <1>6, <1>7, <1>8, <1>9, <1>10
     DEF Next, PartyNext, Local, Arrival, Finished

LEMMA TypeInit == Init => TypeOK
<1> SUFFICES ASSUME Init PROVE TypeOK
  OBVIOUS
<1>1. \A p \in Parties : Produced(p, FirstRound) \in SUBSET Outbox
  BY ProducedType, RoundsAssumption
<1>2. RunnerTypeOK
  BY <1>1, RoundsAssumption DEF Init, RunnerInit, RunnerTypeOK
<1> QED BY <1>2, BoundsAssumption DEF Init, TypeOK, Labels

\* Every variable keeps its type, whatever the constants.
THEOREM TypeCorrect == Spec => []TypeOK
BY TypeInit, TypeStep, PTL DEF Spec

-----------------------------------------------------------------------------
\* The barrier.  Whatever a message has been through, it was produced in a
\* round its sender had reached; so a party that holds a message of its round
\* from every peer knows they all reached it.

ProducedReached ==
    /\ \A p \in Parties : \A m \in outbox[p] \cup toSend[p] : m.round <= round[p]
    /\ \A e \in net : e.round <= round[e.from]
    /\ \A p \in Parties : \A e \in buffer[p] : e.round <= round[e.from]

BarrierInv == ProducedReached /\ GotReached

LEMMA BarrierStep ==
    TypeOK /\ BarrierInv /\ [Next]_vars => BarrierInv' /\ [Barrier!Next]_round
<1> SUFFICES ASSUME TypeOK, BarrierInv, [Next]_vars
             PROVE  BarrierInv' /\ [Barrier!Next]_round
  OBVIOUS
<1>0. /\ RunnerTypeOK
      /\ \A p \in Parties : buffer[p] \subseteq Envelopes /\ round[p] \in Int
      /\ net \subseteq Envelopes
  BY RoundsAssumption DEF TypeOK, RunnerTypeOK
<1>1. ASSUME NEW p \in Parties, NEW e \in Envelopes, e \in net \cup buffer[p],
             Handle(p, e) \/ DecodeOne(p, e),
             \A q \in Parties : buffer'[q] \subseteq buffer[q] \cup {e},
             net' \subseteq net, UNCHANGED toSend
      PROVE  BarrierInv' /\ [Barrier!Next]_round
  <2>1. e.round <= round[e.from]
    BY <1>1 DEF BarrierInv, ProducedReached
  <2>2. /\ UNCHANGED round \/ Barrier!Pass(p)
        /\ \A q \in Parties : round'[q] \in Int /\ round[q] <= round'[q]
        /\ \A q \in Parties : q # p => outbox'[q] = outbox[q]
        /\ \A m \in outbox'[p] : m.round <= round'[p]
        /\ GotReached'
    BY <1>0, <1>1, <2>1, HandleReached, HandleBarrier, DecodeOneReached
       DEF BarrierInv, ProducedReached
  <2>3. \A q \in Parties : \A m \in outbox'[q] \cup toSend'[q] : m.round <= round'[q]
    <3> SUFFICES ASSUME NEW q \in Parties, NEW m \in outbox'[q] \cup toSend'[q]
                 PROVE  m.round <= round'[q]
      OBVIOUS
    <3>1. CASE m \in outbox'[p] /\ q = p
      BY <2>2, <3>1
    <3>2. CASE m \in outbox[q] \cup toSend[q]
      <4>1. m.round \in Int
        BY <3>2, RoundsAssumption DEF TypeOK, RunnerTypeOK, Outbox, Encodings
      <4> QED BY <1>0, <2>2, <3>2, <4>1 DEF BarrierInv, ProducedReached
    <3> QED BY <1>1, <2>2, <3>1, <3>2
  <2>4. \A f \in Envelopes : f.round <= round[f.from] => f.round <= round'[f.from]
    BY <1>0, <2>2, RoundsAssumption DEF Envelopes
  <2>5. \A f \in net' : f.round <= round'[f.from]
    BY <1>0, <1>1, <2>4 DEF BarrierInv, ProducedReached
  <2>6. \A q \in Parties : \A f \in buffer'[q] : f.round <= round'[f.from]
    BY <1>0, <1>1, <2>1, <2>4 DEF BarrierInv, ProducedReached
  <2> QED BY <2>2, <2>3, <2>5, <2>6 DEF BarrierInv, ProducedReached, Barrier!Next
<1>2. ASSUME NEW p \in Parties, Encode(p)
      PROVE  BarrierInv' /\ UNCHANGED round
  <2>1. \A m \in toSend'[p] : m.round <= round[p]
    BY <1>2 DEF Encode, Encoded, BarrierInv, ProducedReached, TypeOK
  <2>2. \A q \in Parties : \A m \in outbox'[q] \cup toSend'[q] : m.round <= round[q]
    BY <1>2, <2>1 DEF Encode, Drained, BarrierInv, ProducedReached, TypeOK, RunnerTypeOK
  <2> QED BY <1>2, <2>2 DEF Encode, BarrierInv, ProducedReached, GotReached
<1>3. ASSUME NEW p \in Parties, NEW m \in toSend[p], SendOk(p, m) \/ SendFails(p, m)
      PROVE  BarrierInv' /\ UNCHANGED round
  <2>1. m.round <= round[p]
    BY DEF BarrierInv, ProducedReached
  <2>2. UNCHANGED <<round, got, outbox, buffer>>
    BY <1>3 DEF SendOk, SendFails
  <2>3. \A e \in net' : e.round <= round[e.from]
    BY <1>3, <2>1 DEF SendOk, SendFails, Delivered, Envelope, BarrierInv, ProducedReached
  <2>4. m \in Encodings
    BY DEF TypeOK
  <2>5. \A q \in Parties : \A o \in toSend'[q] : o.round <= round[q]
    BY <1>3, <2>1, <2>4
       DEF SendOk, SendFails, BarrierInv, ProducedReached, TypeOK, Encodings
  <2> QED BY <2>2, <2>3, <2>5 DEF BarrierInv, ProducedReached, GotReached
<1>4. ASSUME NEW p \in Parties, NEW e \in net, Receive(p, e)
      PROVE  BarrierInv' /\ [Barrier!Next]_round
  <2>1. e \in Envelopes /\ e.round <= round[e.from]
    BY <1>0 DEF BarrierInv, ProducedReached
  <2>2. \A q \in Parties : buffer'[q] \subseteq buffer[q] \cup {e}
    BY <1>0, <1>4, <2>1, DecodeOneReached DEF Receive, BarrierInv, ProducedReached
  <2> QED BY <1>1, <1>4, <2>1, <2>2 DEF Receive
<1>5. ASSUME NEW p \in Parties, NEW e \in buffer[p], Drain(p, e)
      PROVE  BarrierInv' /\ [Barrier!Next]_round
  <2>1. e \in Envelopes
    BY <1>0
  <2>2. \A q \in Parties : buffer'[q] \subseteq buffer[q] \cup {e}
    BY <1>5 DEF Drain, DrainOne, TypeOK, RunnerTypeOK
  <2> QED BY <1>1, <1>5, <2>1, <2>2 DEF Drain, DrainOne, sessionVars
<1>6. ASSUME UNCHANGED <<round, got, outbox, buffer, toSend, net>>
      PROVE  BarrierInv' /\ UNCHANGED round
  BY <1>6 DEF BarrierInv, ProducedReached, GotReached
<1>7. ASSUME NEW p \in Parties,
             \/ AfterSend(p) \/ EndBatch(p) \/ EndDrain(p) \/ ReceiveNothing(p)
             \/ ReceiveStray(p) \/ RoundTimeout(p) \/ ReceiveFails(p) \/ Crash(p)
      PROVE  UNCHANGED <<round, got, outbox, buffer, toSend, net>>
  BY <1>7 DEF AfterSend, EndBatch, EndDrain, ReceiveNothing, StartDrain, TakeBuffer,
              ReceiveStray, DecodeInvalid, RoundTimeout, ReceiveFails, Crash
<1>8. CASE UNCHANGED vars
  BY <1>6, <1>8 DEF vars
<1> QED
  BY <1>2, <1>3, <1>4, <1>5, <1>6, <1>7, <1>8
     DEF Next, PartyNext, Local, Arrival, Finished

LEMMA BarrierInit == Init => BarrierInv /\ Barrier!Init
<1> SUFFICES ASSUME Init PROVE BarrierInv /\ Barrier!Init
  OBVIOUS
<1>1. \A p \in Parties : \A m \in outbox[p] : m.round = round[p]
  BY DEF Init, RunnerInit, Produced
<1> QED BY <1>1, RoundsAssumption
        DEF Init, RunnerInit, BarrierInv, ProducedReached, GotReached, Barrier!Init

\* Whatever the network, the failures and the kind of machine, a party leaves a
\* round only when every party has reached it.
THEOREM BarrierRefined == Spec => RefinesBarrier
<1>1. Init => BarrierInv /\ TypeOK /\ Barrier!Init
  BY BarrierInit, TypeInit
<1>2. TypeOK /\ BarrierInv /\ [Next]_vars => TypeOK' /\ BarrierInv' /\ [Barrier!Next]_round
  BY BarrierStep, TypeStep
<1> QED BY <1>1, <1>2, PTL DEF Spec, RefinesBarrier, Barrier!Spec

-----------------------------------------------------------------------------
\* What reaches the machine.  With an outbox per round a message is stamped
\* with the round it was produced in, so what the runner accepted (`seen`) says
\* exactly what the machine has got in its round, in the rounds before it, and
\* what waits in future_buffer.

\* A message on its way to d is stamped right and is one d needs in its round.
Proper(e, d) == e.tag = e.round /\ <<e.from, e.to>> \in Needed(d, e.round)

Stamped ==
    /\ \A p \in Parties : \A m \in outbox[p] :
          m.round = round[p] /\ m.to \in Addressees(p, m.round)
    /\ \A p \in Parties : \A m \in toSend[p] :
          m.tag = m.round /\ m.to \in Addressees(p, m.round)
    /\ \A e \in net : Proper(e, e.dest)
    /\ \A p \in Parties : \A e \in buffer[p] : Proper(e, p)

GotSeen == \A p \in Parties : \A n \in got[p] : <<n[1], round[p], n[2]>> \in seen[p]

\* What is buffered was accepted once and has not been handled.
BufferSeen ==
    \A p \in Parties : \A e \in buffer[p] :
        /\ Key(e) \in seen[p]
        /\ e.tag = round[p] => <<e.from, e.to>> \notin got[p]
        /\ \A f \in buffer[p] : Key(f) = Key(e) => f = e

\* Nothing is left in the buffer of a round that was left.
BufferAhead ==
    \A p \in Parties : Running(p) =>
        draining[p] <= round[p] /\ \A e \in buffer[p] : round[p] <= e.tag

HeardPast ==
    \A p \in Parties : \A r \in Rounds : r < round[p] =>
        \A n \in Needed(p, r) : <<n[1], r, n[2]>> \in seen[p]

DoneAtEnd == \A p \in Parties : result[p] = "done" => IsDone(p)

FeedInv == /\ Stamped
           /\ GotSeen
           /\ BufferSeen
           /\ BufferAhead
           /\ HeardPast
           /\ DoneAtEnd
           /\ NoRejection

\* Stamped, one step later.
LEMMA StampedNext ==
    ASSUME \A q \in Parties : \A m \in outbox'[q] :
               m.round = round'[q] /\ m.to \in Addressees(q, m.round),
           \A q \in Parties : \A m \in toSend'[q] :
               m.tag = m.round /\ m.to \in Addressees(q, m.round),
           \A e \in net' : Proper(e, e.dest),
           \A q \in Parties : \A e \in buffer'[q] : Proper(e, q)
    PROVE  Stamped'
  BY DEF Stamped, Proper, Addressees, Needed

\* Forgetting messages, or keeping them, spoils no stamp.
LEMMA StampedKept ==
    ASSUME Stamped,
           \A q \in Parties : \A m \in outbox'[q] :
               m.round = round'[q] /\ m.to \in Addressees(q, m.round),
           net' \subseteq net, UNCHANGED toSend,
           \A q \in Parties : buffer'[q] \subseteq buffer[q]
    PROVE  Stamped'
<1>1. \A q \in Parties : \A m \in toSend'[q] :
          m.tag = m.round /\ m.to \in Addressees(q, m.round)
  BY DEF Stamped
<1>2. \A e \in net' : Proper(e, e.dest)
  BY DEF Stamped
<1>3. \A q \in Parties : \A e \in buffer'[q] : Proper(e, q)
  BY DEF Stamped
<1> QED BY <1>1, <1>2, <1>3, StampedNext

\* A message the machine needs and does not have is handled: it is recorded, or
\* completes the round, or fails verification, and is never refused.
LEMMA HandleFed ==
    ASSUME NEW p \in Parties, NEW e \in Envelopes, Proper(e, p),
           e.round = round[p], <<e.from, e.to>> \notin got[p], Handle(p, e)
    PROVE  \/ /\ got' = [got EXCEPT ![p] = @ \cup {<<e.from, e.to>>}]
              /\ UNCHANGED <<round, outbox, result>>
           \/ Completes(p, e) /\ Advance(p) /\ UNCHANGED result
           \/ Stop(p, "Aborted") /\ UNCHANGED <<round, got, outbox>>
  BY DEF Handle, Accepts, Proper

\* One call of handle from step_decode, out of the batch or out of the buffer.
LEMMA FedStep ==
    ASSUME TypeOK, FeedInv, ~Accumulates, NEW p \in Parties, NEW e \in Envelopes,
           Running(p), Proper(e, p), e.tag = round[p], <<e.from, e.to>> \notin got[p],
           Handle(p, e),
           seen' = [seen EXCEPT ![p] = @ \cup {Key(e)}],
           buffer' \in [Parties -> SUBSET Envelopes],
           \A q \in Parties : buffer'[q] \subseteq buffer[q],
           \A f \in buffer'[p] : Key(f) # Key(e),
           net' \subseteq net, UNCHANGED <<toSend, draining>>
    PROVE  FeedInv'
<1> USE RoundsAssumption DEF TypeOK, RunnerTypeOK, FeedInv
<1>0. /\ e.round = round[p]
      /\ \A q \in Parties : round[q] \in Int /\ draining[q] \in Int
      /\ \A f \in Envelopes : f.tag \in Int /\ f.round \in Int
  BY DEF Proper, Envelopes
<1>1. \A q \in Parties : seen[q] \subseteq seen'[q]
  OBVIOUS
<1>2. Key(e) \in seen'[p]
  OBVIOUS
<1>3. CASE /\ got' = [got EXCEPT ![p] = @ \cup {<<e.from, e.to>>}]
           /\ UNCHANGED <<round, outbox, result>>
  <2>1. Stamped'
    BY <1>3, StampedKept DEF Stamped
  <2>2. GotSeen'
    BY <1>1, <1>2, <1>3 DEF GotSeen, Key
  <2>3. BufferSeen'
    <3>1. ASSUME NEW q \in Parties, NEW f \in buffer'[q], f.tag = round[q]
          PROVE  <<f.from, f.to>> \notin got'[q]
      <4>1. f \in buffer[q] /\ <<f.from, f.to>> \notin got[q]
        BY <3>1 DEF BufferSeen
      <4>2. CASE q = p
        <5>1. <<f.from, f.to>> # <<e.from, e.to>>
          BY <3>1, <4>2 DEF Key
        <5> QED BY <1>3, <4>1, <4>2, <5>1
      <4>3. CASE q # p
        BY <1>3, <4>1, <4>3
      <4> QED BY <4>2, <4>3
    <3> QED BY <1>1, <1>3, <3>1 DEF BufferSeen, Key
  <2>4. BufferAhead'
    BY <1>3 DEF BufferAhead, Running
  <2>5. HeardPast'
    BY <1>1, <1>3 DEF HeardPast, Needed
  <2> QED BY <1>3, <2>1, <2>2, <2>3, <2>4, <2>5 DEF DoneAtEnd, IsDone, NoRejection
<1>4. CASE Completes(p, e) /\ Advance(p) /\ UNCHANGED result
  <2>0. /\ round' = [round EXCEPT ![p] = round[p] + 1]
        /\ got' = [got EXCEPT ![p] = {}]
        /\ outbox' = [outbox EXCEPT ![p] = Produced(p, round[p] + 1)]
    BY <1>4 DEF Advance, KeptOnAdvance
  <2>1. Stamped'
    <3>1. \A q \in Parties : \A m \in outbox'[q] :
              m.round = round'[q] /\ m.to \in Addressees(q, m.round)
      BY <2>0 DEF Stamped, Produced
    <3> QED BY <3>1, StampedKept
  <2>2. GotSeen'
    BY <1>1, <2>0 DEF GotSeen
  <2>3. BufferSeen'
    BY <1>0, <1>1, <2>0 DEF BufferSeen, Key
  <2>4. \A f \in buffer'[p] : round[p] + 1 <= f.tag
    <3> SUFFICES ASSUME NEW f \in buffer'[p], f.tag = round[p] PROVE FALSE
      BY <1>0 DEF BufferAhead
    <3>1. <<f.from, f.to>> \in Needed(p, round[p])
      BY DEF Stamped, Proper
    <3>2. <<f.from, f.to>> \notin got[p]
      BY DEF BufferSeen
    <3>3. <<f.from, f.to>> # <<e.from, e.to>>
      BY DEF Key
    <3> QED BY <1>4, <3>1, <3>2, <3>3 DEF Completes
  <2>5. BufferAhead'
    BY <1>0, <1>4, <2>0, <2>4 DEF BufferAhead, Running
  <2>6. HeardPast'
    <3> SUFFICES ASSUME NEW r \in Rounds, r < round'[p], NEW n \in Needed(p, r)
                 PROVE  <<n[1], r, n[2]>> \in seen'[p]
      BY <1>1, <2>0 DEF HeardPast, Needed
    <3>1. CASE r < round[p]
      BY <1>1, <3>1 DEF HeardPast
    <3>2. CASE r = round[p]
      BY <1>1, <1>2, <1>4, <3>2 DEF Completes, GotSeen, Key
    <3> QED BY <1>0, <2>0, <3>1, <3>2
  <2> QED BY <1>4, <2>0, <2>1, <2>2, <2>3, <2>5, <2>6
          DEF DoneAtEnd, IsDone, NoRejection, Running
<1>5. CASE Stop(p, "Aborted") /\ UNCHANGED <<round, got, outbox>>
  <2>1. Stamped'
    BY <1>5, StampedKept DEF Stamped
  <2>2. GotSeen'
    BY <1>1, <1>5 DEF GotSeen
  <2>3. BufferSeen'
    BY <1>1, <1>5 DEF BufferSeen
  <2>4. BufferAhead'
    BY <1>5 DEF BufferAhead, Running, Stop
  <2>5. HeardPast'
    BY <1>1, <1>5 DEF HeardPast, Needed
  <2> QED BY <1>5, <2>1, <2>2, <2>3, <2>4, <2>5 DEF DoneAtEnd, IsDone, NoRejection, Stop
<1> QED BY <1>0, <1>3, <1>4, <1>5, HandleFed

\* A step that neither decodes nor drains: it moves no machine and may only
\* stop a session, or take the buffer of the machine's own round.
LEMMA QuietStep ==
    ASSUME TypeOK, FeedInv, Stamped',
           UNCHANGED <<round, got, seen, buffer>>,
           \A q \in Parties : draining'[q] = draining[q] \/ draining'[q] = round[q],
           \A q \in Parties : \/ result'[q] = result[q]
                              \/ result'[q] \notin {"running", "done", "Rejected"}
                              \/ result'[q] = "done" /\ IsDone(q)
    PROVE  FeedInv'
<1> USE RoundsAssumption DEF TypeOK, RunnerTypeOK, FeedInv
<1>0. UNCHANGED <<round, got, seen, buffer>>
  OBVIOUS
<1>1. GotSeen' /\ BufferSeen'
  BY <1>0 DEF GotSeen, BufferSeen, Key
<1>2. \A q \in Parties : Running(q)' => Running(q)
  BY DEF Running
<1>3. BufferAhead'
  BY <1>0, <1>2 DEF BufferAhead
<1>4. HeardPast'
  BY <1>0 DEF HeardPast, Needed
<1>5. DoneAtEnd' /\ NoRejection'
  BY <1>0 DEF DoneAtEnd, IsDone, NoRejection
<1> QED BY <1>1, <1>3, <1>4, <1>5

\* The decode loop: with three parties or more, what it handles is of the
\* machine's round and new, and what it buffers is of a later round and new.
LEMMA ReceiveFed ==
    ASSUME TypeOK, FeedInv, ~Accumulates, Cardinality(Parties) # 2,
           NEW p \in Parties, NEW e \in net, Receive(p, e)
    PROVE  FeedInv'
<1> USE RoundsAssumption DEF TypeOK, RunnerTypeOK, FeedInv
<1>0. /\ Running(p) /\ Proper(e, p) /\ e \in Envelopes
      /\ net' \subseteq net /\ UNCHANGED toSend
      /\ DecodeOne(p, e)
  BY DEF Receive, Receiving, At, Deliverable, Stamped
<1>1. CASE /\ Stop(p, "Duplicate")
           /\ UNCHANGED <<round, got, outbox, seen, buffer, draining>>
  <2>1. Stamped'
    BY <1>0, <1>1, StampedKept DEF Stamped
  <2> QED BY <1>1, <2>1, QuietStep DEF Stop
<1>2. CASE /\ Key(e) \notin seen[p]
           /\ seen' = [seen EXCEPT ![p] = @ \cup {Key(e)}]
           /\ UNCHANGED <<draining, buffer>>
           /\ ForMachine(p, e)
           /\ Handle(p, e)
  <2>1. e.tag = round[p]
    BY <1>2 DEF ForMachine, TwoPartyP2p
  <2>2. <<e.from, e.to>> \notin got[p]
    BY <1>2, <2>1 DEF GotSeen, Key
  <2>3. \A f \in buffer'[p] : Key(f) # Key(e)
    BY <1>2 DEF BufferSeen
  <2> QED BY <1>0, <1>2, <2>1, <2>2, <2>3, FedStep
<1>3. CASE /\ Key(e) \notin seen[p]
           /\ seen' = [seen EXCEPT ![p] = @ \cup {Key(e)}]
           /\ ~ForMachine(p, e)
           /\ buffer' = [buffer EXCEPT ![p] = @ \cup Early(p, e)]
           /\ UNCHANGED <<round, got, outbox, draining, result>>
  <2>0. e.tag \in Int /\ e.tag # round[p]
    BY <1>0, <1>3 DEF ForMachine, Envelopes
  <2>1. \A q \in Parties : seen[q] \subseteq seen'[q]
    BY <1>3
  <2>2. \A q \in Parties : \A f \in buffer'[q] :
            f \in buffer[q] \/ (q = p /\ f = e /\ e.tag > round[p])
    BY <1>3 DEF Early
  <2>3. Stamped'
    <3>1. /\ \A q \in Parties : \A f \in buffer'[q] : Proper(f, q)
          /\ \A f \in net' : Proper(f, f.dest)
      BY <1>0, <2>2 DEF Stamped
    <3>2. /\ \A q \in Parties : \A m \in outbox'[q] :
                 m.round = round'[q] /\ m.to \in Addressees(q, m.round)
          /\ \A q \in Parties : \A m \in toSend'[q] :
                 m.tag = m.round /\ m.to \in Addressees(q, m.round)
      BY <1>0, <1>3 DEF Stamped
    <3> QED BY <3>1, <3>2, StampedNext
  <2>4. GotSeen'
    BY <1>3, <2>1 DEF GotSeen
  <2>5. BufferSeen'
    <3>1. \A f \in buffer[p] : Key(f) # Key(e)
      BY <1>3 DEF BufferSeen
    <3>2. Key(e) \in seen'[p]
      BY <1>3
    <3> SUFFICES ASSUME NEW q \in Parties, NEW f \in buffer'[q]
                 PROVE  /\ Key(f) \in seen'[q]
                        /\ f.tag = round[q] => <<f.from, f.to>> \notin got[q]
                        /\ \A g \in buffer'[q] : Key(g) = Key(f) => g = f
      BY <1>3 DEF BufferSeen, Key
    <3>3. CASE f \in buffer[q]
      BY <2>1, <2>2, <3>1, <3>3 DEF BufferSeen
    <3>4. CASE q = p /\ f = e
      BY <2>0, <2>2, <3>1, <3>2, <3>4
    <3> QED BY <2>2, <3>3, <3>4
  <2>6. BufferAhead'
    BY <1>3, <2>0, <2>2 DEF BufferAhead, Running
  <2>7. HeardPast'
    BY <1>3, <2>1 DEF HeardPast, Needed
  <2>8. DoneAtEnd' /\ NoRejection'
    BY <1>3 DEF DoneAtEnd, IsDone, NoRejection
  <2> QED BY <2>3, <2>4, <2>5, <2>6, <2>7, <2>8
<1> QED BY <1>0, <1>1, <1>2, <1>3 DEF DecodeOne

\* The drain loop: what was buffered for the round the drain began in is still
\* of the machine's round, although an earlier message may have moved it.
LEMMA DrainFed ==
    ASSUME TypeOK, FeedInv, ~Accumulates, NEW p \in Parties, NEW e \in buffer[p], Drain(p, e)
    PROVE  FeedInv'
<1> USE RoundsAssumption DEF TypeOK, RunnerTypeOK, FeedInv
<1>1. /\ Running(p) /\ e.tag = draining[p] /\ Handle(p, e)
      /\ buffer' = [buffer EXCEPT ![p] = @ \ {e}]
      /\ UNCHANGED <<seen, draining, net, toSend>>
  BY DEF Drain, DrainOne, Taken, At, sessionVars
<1>2. e \in Envelopes /\ Proper(e, p)
  BY DEF Stamped
<1>3. e.tag = round[p]
  BY <1>1, <1>2 DEF BufferAhead, Envelopes
<1>4. /\ Key(e) \in seen[p]
      /\ <<e.from, e.to>> \notin got[p]
      /\ \A f \in buffer'[p] : Key(f) # Key(e)
  BY <1>1, <1>3 DEF BufferSeen
<1>5. seen' = [seen EXCEPT ![p] = @ \cup {Key(e)}]
  BY <1>1, <1>4
<1>6. /\ buffer' \in [Parties -> SUBSET Envelopes]
      /\ \A q \in Parties : buffer'[q] \subseteq buffer[q]
  BY <1>1
<1> QED BY <1>1, <1>2, <1>3, <1>4, <1>5, <1>6, FedStep

\* step_encode stamps a message with the round it was produced in.
LEMMA EncodeFed ==
    ASSUME TypeOK, FeedInv, NEW p \in Parties, Encode(p)
    PROVE  FeedInv'
<1>0. UNCHANGED <<round, got, seen, buffer, draining, result, net>>
  BY DEF Encode
<1>1. \A q \in Parties : \A m \in outbox'[q] : m \in outbox[q]
  BY DEF Encode, Drained, TypeOK, RunnerTypeOK
<1>2. \A m \in toSend'[p] : m.tag = m.round /\ m.to \in Addressees(p, m.round)
  BY DEF Encode, Encoded, FeedInv, Stamped, TypeOK
<1>3. \A q \in Parties : q # p => toSend'[q] = toSend[q]
  BY DEF Encode, TypeOK
<1>4. Stamped'
  <2>1. \A q \in Parties : \A m \in outbox'[q] :
            m.round = round'[q] /\ m.to \in Addressees(q, m.round)
    BY <1>0, <1>1 DEF FeedInv, Stamped
  <2>2. \A q \in Parties : \A m \in toSend'[q] :
            m.tag = m.round /\ m.to \in Addressees(q, m.round)
    BY <1>2, <1>3 DEF FeedInv, Stamped
  <2>3. /\ \A e \in net' : Proper(e, e.dest)
        /\ \A q \in Parties : \A e \in buffer'[q] : Proper(e, q)
    BY <1>0 DEF FeedInv, Stamped
  <2> QED BY <2>1, <2>2, <2>3, StampedNext
<1> QED BY <1>0, <1>4, QuietStep

\* The transport puts a message in the mailbox of those who need it.
LEMMA SentProper ==
    ASSUME NEW p \in Parties, NEW m, NEW d \in Recipients(p, m),
           m.tag = m.round, m.to \in Addressees(p, m.round), NEW copy
    PROVE  Proper(Envelope(p, m, d, copy), d)
<1>1. CASE m.to = Everyone
  BY <1>1, PartiesAssumption DEF Recipients, Envelope, Proper, Addressees, Needed
<1>2. CASE m.to # Everyone
  BY <1>2, PartiesAssumption DEF Recipients, Envelope, Proper, Addressees, Needed
<1> QED BY <1>1, <1>2

LEMMA SendFed ==
    ASSUME TypeOK, FeedInv, NEW p \in Parties, NEW m \in toSend[p],
           SendOk(p, m) \/ SendFails(p, m)
    PROVE  FeedInv'
<1>0. /\ UNCHANGED <<round, got, outbox, seen, buffer, draining>>
      /\ \E ds \in SUBSET Recipients(p, m) : Delivered(p, m, ds)
  BY DEF SendOk, SendFails
<1>1. m \in Encodings /\ m.tag = m.round /\ m.to \in Addressees(p, m.round)
  BY DEF FeedInv, Stamped, TypeOK
<1>2. \A e \in net' : Proper(e, e.dest)
  <2> SUFFICES ASSUME NEW e \in net', e \notin net PROVE Proper(e, e.dest)
    BY DEF FeedInv, Stamped
  <2>1. PICK d \in Recipients(p, m) : e = Envelope(p, m, d, m.tries)
    BY <1>0 DEF Delivered
  <2>2. e.dest = d
    BY <2>1 DEF Envelope
  <2> QED BY <1>1, <2>1, <2>2, SentProper
<1>3. \A q \in Parties : \A o \in toSend'[q] :
          o.tag = o.round /\ o.to \in Addressees(q, o.round)
  <2> SUFFICES ASSUME NEW q \in Parties, NEW o \in toSend'[q], o \notin toSend[q]
               PROVE  o.tag = o.round /\ o.to \in Addressees(q, o.round)
    BY DEF FeedInv, Stamped
  <2>1. q = p /\ o = [m EXCEPT !.tries = m.tries + 1]
    BY DEF SendOk, SendFails, TypeOK
  <2> QED BY <1>1, <2>1 DEF Encodings
<1>4. Stamped'
  <2>1. /\ \A q \in Parties : \A o \in outbox'[q] :
               o.round = round'[q] /\ o.to \in Addressees(q, o.round)
        /\ \A q \in Parties : \A e \in buffer'[q] : Proper(e, q)
    BY <1>0 DEF FeedInv, Stamped
  <2> QED BY <1>2, <1>3, <2>1, StampedNext
<1>5. \A q \in Parties : result'[q] = result[q] \/ result'[q] = "Transport"
  BY DEF SendOk, SendFails, Stop, TypeOK, RunnerTypeOK
<1> QED BY <1>0, <1>4, <1>5, QuietStep

LEMMA FeedStep ==
    ASSUME ~Accumulates, Cardinality(Parties) # 2
    PROVE  TypeOK /\ FeedInv /\ [Next]_vars => FeedInv'
<1> SUFFICES ASSUME TypeOK, FeedInv, [Next]_vars PROVE FeedInv'
  OBVIOUS
<1>1. ASSUME UNCHANGED <<round, got, outbox, seen, buffer, toSend, net>>
      PROVE  Stamped'
  BY <1>1, StampedKept DEF FeedInv, Stamped
<1>2. ASSUME NEW p \in Parties, AfterSend(p) PROVE FeedInv'
  <2>1. UNCHANGED <<round, got, outbox, seen, buffer, draining, toSend, net>>
    BY <1>2 DEF AfterSend
  <2>2. \A q \in Parties : \/ result'[q] = result[q]
                           \/ result'[q] = "MaxRounds"
                           \/ result'[q] = "done" /\ IsDone(q)
    BY <1>2 DEF AfterSend, Stop, TypeOK, RunnerTypeOK
  <2> QED BY <1>1, <2>1, <2>2, QuietStep
<1>3. ASSUME NEW p \in Parties, EndBatch(p) \/ ReceiveNothing(p) PROVE FeedInv'
  <2>1. UNCHANGED <<round, got, outbox, seen, buffer, result, toSend, net>>
    BY <1>3 DEF EndBatch, ReceiveNothing, StartDrain, TakeBuffer
  <2>2. \A q \in Parties : draining'[q] = draining[q] \/ draining'[q] = round[q]
    BY <1>3 DEF EndBatch, ReceiveNothing, StartDrain, TakeBuffer, TypeOK, RunnerTypeOK
  <2> QED BY <1>1, <2>1, <2>2, QuietStep
<1>4. ASSUME NEW p \in Parties,
             EndDrain(p) \/ ReceiveStray(p) \/ RoundTimeout(p) \/ ReceiveFails(p) \/ Crash(p)
      PROVE  FeedInv'
  <2>1. UNCHANGED <<round, got, outbox, seen, buffer, draining, toSend, net>>
    BY <1>4 DEF EndDrain, ReceiveStray, DecodeInvalid, RoundTimeout, ReceiveFails, Crash
  <2>2. \A q \in Parties : \/ result'[q] = result[q]
                           \/ result'[q] \in {"InvalidHeader", "Timeout", "Transport", "Crashed"}
    BY <1>4 DEF EndDrain, ReceiveStray, DecodeInvalid, RoundTimeout, ReceiveFails, Crash,
                Stop, TypeOK, RunnerTypeOK
  <2> QED BY <1>1, <2>1, <2>2, QuietStep
<1>5. CASE UNCHANGED vars
  BY <1>1, <1>5, QuietStep DEF vars
<1> QED
  BY <1>2, <1>3, <1>4, <1>5, EncodeFed, SendFed, ReceiveFed, DrainFed
     DEF Next, PartyNext, Local, Arrival, Finished

LEMMA FeedInit == Init => FeedInv
<1> SUFFICES ASSUME Init PROVE FeedInv
  OBVIOUS
<1>1. Stamped
  BY DEF Init, RunnerInit, Stamped, Produced
<1>2. GotSeen /\ BufferSeen /\ BufferAhead
  BY RoundsAssumption DEF Init, RunnerInit, GotSeen, BufferSeen, BufferAhead
<1>3. HeardPast
  BY RoundsAssumption DEF Init, RunnerInit, HeardPast
<1>4. DoneAtEnd /\ NoRejection
  BY DEF Init, RunnerInit, DoneAtEnd, NoRejection
<1> QED BY <1>1, <1>2, <1>3, <1>4 DEF FeedInv

\* A session that returned left every round, and left none without its messages.
LEMMA FeedMeans ==
    ASSUME TypeOK, FeedInv
    PROVE  NoRejection /\ DoneHeardEveryone /\ NothingDiscarded
<1> USE RoundsAssumption DEF TypeOK, RunnerTypeOK, FeedInv
<1>1. DoneHeardEveryone
  <2>1. \A p \in Parties : result[p] = "done" => \A r \in Rounds : r < round[p]
    BY DEF DoneAtEnd, IsDone
  <2> QED BY <2>1 DEF DoneHeardEveryone, HeardPast
<1>2. NothingDiscarded
  <2> SUFFICES ASSUME NEW e \in net, e.tag < round[e.dest]
               PROVE  Key(e) \in seen[e.dest]
    BY DEF NothingDiscarded, Envelopes
  <2>1. e \in Envelopes /\ e.dest \in Parties
    BY DEF Envelopes
  <2>2. <<e.from, e.to>> \in Needed(e.dest, e.tag) /\ e.tag \in Rounds
    BY <2>1 DEF Stamped, Proper, Envelopes
  <2> QED BY <2>1, <2>2 DEF HeardPast, Key
<1> QED BY <1>1, <1>2

\* With three parties or more and an outbox per round, whatever the network
\* delays, reorders or loses: the machine of an honest party never refuses a
\* message, the runner's silent discard never loses one, and a session returns
\* an output only after every message of every round.
THEOREM HonestFeed ==
    ASSUME ~Accumulates, Cardinality(Parties) # 2
    PROVE  Spec => [](NoRejection /\ DoneHeardEveryone /\ NothingDiscarded)
<1>1. Init => TypeOK /\ FeedInv
  BY TypeInit, FeedInit
<1>2. TypeOK /\ FeedInv /\ [Next]_vars => TypeOK' /\ FeedInv'
  BY TypeStep, FeedStep
<1>3. TypeOK /\ FeedInv => NoRejection /\ DoneHeardEveryone /\ NothingDiscarded
  BY FeedMeans
<1> QED BY <1>1, <1>2, <1>3, PTL DEF Spec

\* ... so the machine of an honest party never refuses a message ...
THEOREM NeverRefused ==
    ASSUME ~Accumulates, Cardinality(Parties) # 2
    PROVE  Spec => []NoRejection
<1>1. Spec => [](NoRejection /\ DoneHeardEveryone /\ NothingDiscarded)
  BY HonestFeed
<1> QED BY <1>1, PTL

\* ... and a session that returned an output has heard from everyone.
THEOREM DoneIsHeard ==
    ASSUME ~Accumulates, Cardinality(Parties) # 2
    PROVE  Spec => []DoneHeardEveryone
<1>1. Spec => [](NoRejection /\ DoneHeardEveryone /\ NothingDiscarded)
  BY HonestFeed
<1> QED BY <1>1, PTL

-----------------------------------------------------------------------------
\* What the runner does with each message, for any number of parties but two,
\* any rounds, any delivery order and any failures: nothing it could use is left
\* in future_buffer, and it meets no duplicate unless a transport call failed.
\*
\* Both rest on one fact about time: while a party still holds messages it has
\* not encoded, nobody has heard of the round it is in, so nobody is past that
\* round, and nothing of a later round can be buffered.

\* What was accepted was produced in a round its sender had reached.
SeenReached == \A d \in Parties : \A s \in seen[d] : s[2] <= round[s[1]]

\* What a party has not encoded yet is of a round nothing was sent in.
Fresh ==
    \A p \in Parties : outbox[p] # {} =>
        /\ \A m \in toSend[p] : m.round < round[p]
        /\ \A e \in net : e.from = p => e.round < round[p]
        /\ \A d \in Parties : \A s \in seen[d] : s[1] = p => s[2] < round[p]

AllLater(p) == \A e \in buffer[p] : e.tag > round[p]

\* Between two batches what is buffered is of a later round; within one a
\* message of the machine's round is buffered only until the party has encoded
\* what it produced on entering the round, and a drain that moved the machine
\* leaves none.
LaterAt(p) ==
    Running(p) =>
        /\ pc[p] \in {"encode", "send", "receive"} => AllLater(p)
        /\ pc[p] \in {"decode", "drain"} /\ outbox[p] = {} => AllLater(p)
        /\ pc[p] = "drain" /\ draining[p] # round[p] => AllLater(p)

BufferLater == \A p \in Parties : LaterAt(p)

DeliveryInv == SeenReached /\ Fresh /\ BufferLater

Invs == TypeOK /\ BarrierInv /\ FeedInv /\ DeliveryInv

-----------------------------------------------------------------------------
\* What the actions that feed the machine have in common: the batch, the buffer.
Feeds(p, e) == Receive(p, e) \/ Drain(p, e)

\* An accepted message was in flight to the party that accepts it.
LEMMA SeenGrows ==
    ASSUME TypeOK, NEW p \in Parties, NEW e, Receive(p, e)
    PROVE  /\ e \in net /\ e.dest = p
           /\ \/ seen' = [seen EXCEPT ![p] = @ \cup {Key(e)}]
              \/ seen' = seen
  BY DEF Receive, Deliverable, DecodeOne

\* A machine that is fed stays in its round with its outbox, or enters the next
\* with what it produces there.
LEMMA FeedMoves ==
    ASSUME TypeOK, ~Accumulates, NEW p \in Parties, NEW e, Feeds(p, e)
    PROVE  \/ UNCHANGED <<round, outbox>>
           \/ /\ round' = [round EXCEPT ![p] = round[p] + 1]
              /\ outbox' = [outbox EXCEPT ![p] = Produced(p, round[p] + 1)]
<1>1. Handle(p, e) \/ UNCHANGED <<round, outbox>>
  BY DEF Feeds, Receive, Drain, DecodeOne, DrainOne
<1>2. Handle(p, e) => UNCHANGED <<round, outbox>> \/ Advance(p)
  BY DEF Handle
<1> QED BY <1>1, <1>2 DEF Advance, KeptOnAdvance

\* A step that feeds no machine leaves every round and what was accepted alone.
LEMMA OnlyFeedsMove ==
    ASSUME [Next]_vars, ~ \E p \in Parties : \E e \in net \cup buffer[p] : Feeds(p, e)
    PROVE  UNCHANGED <<round, seen, got, buffer>>
  BY DEF Next, PartyNext, Local, Arrival, Finished, vars, Feeds, Encode, SendOk,
         SendFails, AfterSend, EndBatch, StartDrain, TakeBuffer, EndDrain,
         ReceiveStray, DecodeInvalid, ReceiveNothing, RoundTimeout, ReceiveFails, Crash

\* Rounds only grow.
LEMMA RoundsGrow ==
    ASSUME TypeOK, BarrierInv, [Next]_vars
    PROVE  \A q \in Parties : /\ round[q] \in Int /\ round'[q] \in Int
                              /\ round[q] <= round'[q]
<1>1. round \in [Parties -> Int]
  BY RoundsAssumption DEF TypeOK, RunnerTypeOK
<1>2. [Barrier!Next]_round
  BY BarrierStep
<1> QED BY <1>1, <1>2 DEF Barrier!Next, Barrier!Pass

\* What is in flight was stamped with the round it was produced in.
LEMMA Arrived ==
    ASSUME Invs, NEW e \in net
    PROVE  /\ e \in Envelopes /\ e.tag = e.round /\ e.round <= round[e.from]
           /\ e.from \in Parties /\ e.tag \in Int /\ e.round \in Int
           /\ Key(e)[1] = e.from /\ Key(e)[2] = e.tag
<1>1. e \in Envelopes
  BY DEF Invs, TypeOK
<1>2. e.tag = e.round
  BY DEF Invs, FeedInv, Stamped, Proper
<1>3. e.round <= round[e.from]
  BY DEF Invs, BarrierInv, ProducedReached
<1> QED BY <1>1, <1>2, <1>3, RoundsAssumption DEF Key, Envelopes

LEMMA SeenReachedStep ==
    ASSUME Invs, [Next]_vars
    PROVE  SeenReached'
<1> USE RoundsAssumption DEF Invs, DeliveryInv
<1>1. ASSUME NEW d \in Parties, NEW s \in seen'[d]
      PROVE  s \in seen[d] \/ \E e \in net : s = Key(e)
  <2>1. CASE \E p \in Parties : \E e \in net : Receive(p, e)
    <3>1. PICK p \in Parties, e \in net : Receive(p, e)
      BY <2>1
    <3>2. seen \in [Parties -> SUBSET (Parties \X (FirstRound..Done)
                                              \X (Parties \cup {Everyone}))]
      BY DEF TypeOK, RunnerTypeOK
    <3> QED BY <1>1, <3>1, <3>2, SeenGrows
  <2>2. CASE UNCHANGED seen
    BY <1>1, <2>2
  <2>3. CASE \E p \in Parties : \E e \in buffer[p] : Drain(p, e)
    BY <1>1, <2>3 DEF Drain, DrainOne
  <2> QED BY <2>1, <2>2, <2>3, OnlyFeedsMove DEF Feeds, Drain, DrainOne, Taken,
             Receive, Deliverable
<1>2. ASSUME NEW d \in Parties, NEW s \in seen'[d]
      PROVE  s[2] <= round'[s[1]]
  <2>1. CASE s \in seen[d]
    <3>1. s[1] \in Parties /\ s[2] \in Int
      BY <2>1 DEF TypeOK, RunnerTypeOK
    <3> QED BY <2>1, <3>1, RoundsGrow DEF SeenReached
  <2>2. ASSUME NEW e \in net, s = Key(e) PROVE s[2] <= round'[s[1]]
    BY <2>2, Arrived, RoundsGrow
  <2> QED BY <1>1, <1>2, <2>1, <2>2
<1> QED BY <1>2 DEF SeenReached
-----------------------------------------------------------------------------
\* Fresh, one step later, for a step that feeds a machine.
LEMMA FreshFed ==
    ASSUME Invs, ~Accumulates, NEW p \in Parties, NEW e, Feeds(p, e),
           e \in net \cup buffer[p]
    PROVE  Fresh'
<1> USE RoundsAssumption DEF Invs, DeliveryInv
<1>1. /\ net' \subseteq net
      /\ UNCHANGED toSend
      /\ round \in [Parties -> Int] /\ outbox \in [Parties -> SUBSET Outbox]
  BY DEF Feeds, Receive, Drain, sessionVars, TypeOK, RunnerTypeOK
<1>2. \A d \in Parties : \A s \in seen'[d] : s \in seen[d] \/ \E f \in net : s = Key(f)
  <2>1. CASE Receive(p, e)
    <3>1. seen \in [Parties -> SUBSET (Parties \X (FirstRound..Done)
                                              \X (Parties \cup {Everyone}))]
      BY DEF TypeOK, RunnerTypeOK
    <3>2. /\ e \in net
          /\ seen' = [seen EXCEPT ![p] = @ \cup {Key(e)}] \/ seen' = seen
      BY <2>1, SeenGrows
    <3> QED BY <3>1, <3>2
  <2>2. CASE Drain(p, e)
    BY <2>2 DEF Drain, DrainOne
  <2> QED BY <2>1, <2>2 DEF Feeds
<1> SUFFICES ASSUME NEW q \in Parties, outbox'[q] # {}
             PROVE  /\ \A m \in toSend[q] : m.round < round'[q]
                    /\ \A f \in net : f.from = q => f.round < round'[q]
                    /\ \A d \in Parties : \A s \in seen'[d] : s[1] = q => s[2] < round'[q]
  BY <1>1 DEF Fresh
<1>3. CASE round'[q] = round[q] /\ outbox[q] # {}
  <2>1. \A f \in net : Key(f)[1] = q => Key(f)[2] < round[q]
    BY <1>3, Arrived DEF Fresh
  <2> QED BY <1>2, <1>3, <2>1 DEF Fresh
<1>4. CASE round'[q] = round[q] + 1
  <2>1. \A m \in toSend[q] : m.round \in Int /\ m.round <= round[q]
    <3>1. \A m \in toSend[q] : m \in Encodings
      BY DEF TypeOK
    <3>2. \A m \in toSend[q] : m.round \in Int
      BY <3>1 DEF Encodings
    <3>3. \A m \in toSend[q] : m.round <= round[q]
      BY DEF BarrierInv, ProducedReached
    <3> QED BY <3>2, <3>3
  <2>2. \A f \in net : f.from = q => f.round \in Int /\ f.round <= round[q]
    BY Arrived
  <2>3. \A d \in Parties : \A s \in seen[d] : s[1] = q => s[2] \in Int /\ s[2] <= round[q]
    BY DEF SeenReached, TypeOK, RunnerTypeOK
  <2>4. \A f \in net : Key(f)[1] = q => Key(f)[2] \in Int /\ Key(f)[2] <= round[q]
    BY Arrived
  <2> QED BY <1>1, <1>2, <1>4, <2>1, <2>2, <2>3, <2>4
<1> QED BY <1>1, <1>3, <1>4, FeedMoves

\* Encoding empties the outbox, so that nothing is claimed of its party any more.
LEMMA FreshEncode ==
    ASSUME Invs, NEW p \in Parties, Encode(p)
    PROVE  Fresh'
<1>1. UNCHANGED <<round, seen, net>>
  BY DEF Encode
<1>2. outbox'[p] = {}
  BY DEF Encode, Drained, Invs, TypeOK, RunnerTypeOK
<1>3. \A q \in Parties : q # p => outbox'[q] = outbox[q] /\ toSend'[q] = toSend[q]
  BY DEF Encode, Drained, Invs, TypeOK, RunnerTypeOK
<1> QED BY <1>1, <1>2, <1>3 DEF Invs, DeliveryInv, Fresh

\* A message that is being sent is of a round its party has left since, or has
\* encoded everything of.
LEMMA FreshSend ==
    ASSUME Invs, NEW p \in Parties, NEW m \in toSend[p], SendOk(p, m) \/ SendFails(p, m)
    PROVE  Fresh'
<1>1. UNCHANGED <<round, outbox, seen>>
  BY DEF SendOk, SendFails
<1>2. \A f \in net' : f \in net \/ (f.from = p /\ f.round = m.round)
  BY DEF SendOk, SendFails, Delivered, Envelope
<1>3. \A q \in Parties : \A o \in toSend'[q] :
          o \in toSend[q] \/ (q = p /\ o.round = m.round)
  <2>1. m \in Encodings /\ [m EXCEPT !.tries = m.tries + 1].round = m.round
    BY DEF Invs, TypeOK, Encodings
  <2> QED BY <2>1 DEF SendOk, SendFails, Invs, TypeOK
<1> SUFFICES ASSUME NEW q \in Parties, outbox[q] # {}
             PROVE  /\ \A o \in toSend'[q] : o.round < round[q]
                    /\ \A f \in net' : f.from = q => f.round < round[q]
                    /\ \A d \in Parties : \A s \in seen[d] : s[1] = q => s[2] < round[q]
  BY <1>1 DEF Fresh
<1>4. \A o \in toSend[q] : o.round < round[q]
  BY DEF Invs, DeliveryInv, Fresh
<1>5. \A f \in net : f.from = q => f.round < round[q]
  BY DEF Invs, DeliveryInv, Fresh
<1>6. \A d \in Parties : \A s \in seen[d] : s[1] = q => s[2] < round[q]
  BY DEF Invs, DeliveryInv, Fresh
<1> QED BY <1>2, <1>3, <1>4, <1>5, <1>6

LEMMA FreshStep ==
    ASSUME Invs, ~Accumulates, [Next]_vars
    PROVE  Fresh'
<1>1. CASE \E p \in Parties : \E e \in net \cup buffer[p] : Feeds(p, e)
  BY <1>1, FreshFed
<1>2. ASSUME NEW p \in Parties,
             \/ AfterSend(p) \/ EndBatch(p) \/ EndDrain(p) \/ ReceiveNothing(p)
             \/ ReceiveStray(p) \/ RoundTimeout(p) \/ ReceiveFails(p) \/ Crash(p)
      PROVE  UNCHANGED <<round, seen, outbox, toSend, net>>
  BY <1>2 DEF AfterSend, EndBatch, EndDrain, ReceiveNothing, StartDrain, TakeBuffer,
              ReceiveStray, DecodeInvalid, RoundTimeout, ReceiveFails, Crash
<1>3. ASSUME UNCHANGED <<round, seen, outbox, toSend, net>>
      PROVE  Fresh'
  BY <1>3 DEF Invs, DeliveryInv, Fresh
<1>4. CASE UNCHANGED vars
  BY <1>3, <1>4 DEF vars
<1> QED BY <1>1, <1>2, <1>3, <1>4, FreshEncode, FreshSend
        DEF Next, PartyNext, Local, Arrival, Finished, Feeds

\* While a party has not encoded what it produced nobody is past its round: who
\* is has heard it.
LEMMA NobodyAhead ==
    ASSUME Invs, NEW p \in Parties, outbox[p] # {}
    PROVE  \A q \in Parties : round[q] <= round[p]
<1> USE RoundsAssumption DEF Invs, TypeOK, RunnerTypeOK
<1> SUFFICES ASSUME NEW q \in Parties, round[q] > round[p] PROVE FALSE
  OBVIOUS
<1>1. round[p] \in Rounds /\ p \in Others(q)
  <2>1. PICK m \in outbox[p] : TRUE
    OBVIOUS
  <2>2. m.round \in Rounds /\ m.round = round[p]
    BY <2>1 DEF FeedInv, Stamped, Outbox
  <2> QED BY <2>2
<1>2. PICK n \in Needed(q, round[p]) : n[1] = p
  BY <1>1, NeededFromAll
<1>3. <<p, round[p], n[2]>> \in seen[q]
  BY <1>1, <1>2 DEF FeedInv, HeardPast
<1>4. round[p] < round[p]
  BY <1>3 DEF DeliveryInv, Fresh
<1> QED BY <1>4

\* So nothing of a later round is buffered then.
LEMMA NothingLater ==
    ASSUME Invs, NEW p \in Parties, outbox[p] # {}, NEW e \in buffer[p]
    PROVE  e.tag <= round[p]
<1>1. e \in Envelopes /\ e.tag = e.round
  BY DEF Invs, TypeOK, RunnerTypeOK, FeedInv, Stamped, Proper
<1>2. e.round <= round[e.from] /\ e.from \in Parties
  BY <1>1 DEF Invs, BarrierInv, ProducedReached, Envelopes
<1>3. round[e.from] <= round[p]
  BY <1>2, NobodyAhead
<1>4. e.round \in Int /\ round[p] \in Int /\ round[e.from] \in Int
  BY <1>1, <1>2, RoundsAssumption DEF Envelopes, Invs, TypeOK, RunnerTypeOK
<1> QED BY <1>1, <1>2, <1>3, <1>4

\* A party that is in a round for which something is buffered produces something
\* on entering that round.
LEMMA BufferedProduces ==
    ASSUME Invs, NEW p \in Parties, NEW e \in buffer[p]
    PROVE  Produced(p, e.tag) # {}
<1>1. e.tag \in Int /\ <<e.from, e.to>> \in Needed(p, e.tag)
  BY RoundsAssumption
     DEF Invs, TypeOK, RunnerTypeOK, FeedInv, Stamped, Proper, Envelopes
<1>2. Addressees(p, e.tag) # {}
  BY <1>1 DEF Needed, Addressees
<1>3. PICK a \in Addressees(p, e.tag) : TRUE
  BY <1>2
<1>4. [round |-> e.tag, to |-> a] \in Produced(p, e.tag)
  BY <1>3 DEF Produced
<1> QED BY <1>4

-----------------------------------------------------------------------------
\* A step of p touches nothing LaterAt says of another party.
LEMMA Elsewhere ==
    ASSUME TypeOK, NEW p \in Parties, NEW q \in Parties, q # p, PartyNext(p), LaterAt(q)
    PROVE  LaterAt(q)'
<1>1. CASE \E e : Feeds(p, e)
  <2>1. PICK e : Feeds(p, e)
    BY <1>1
  <2>2. /\ round'[q] = round[q] /\ outbox'[q] = outbox[q] /\ result'[q] = result[q]
        /\ buffer'[q] = buffer[q] /\ draining'[q] = draining[q] /\ pc'[q] = pc[q]
    BY <2>1 DEF Feeds, Receive, Drain, DrainOne, DecodeOne, Handle, Advance, Stop, Goto,
                sessionVars, TypeOK, RunnerTypeOK
  <2> QED BY <2>2 DEF LaterAt, AllLater, Running
<1>2. CASE Encode(p) \/ \E m \in toSend[p] : SendOk(p, m) \/ SendFails(p, m)
  <2>1. /\ UNCHANGED <<round, buffer, draining>>
        /\ outbox'[q] = outbox[q] /\ result'[q] = result[q] /\ pc'[q] = pc[q]
    BY <1>2 DEF Encode, SendOk, SendFails, Drained, Stop, Goto, TypeOK, RunnerTypeOK
  <2> QED BY <2>1 DEF LaterAt, AllLater, Running
<1>3. CASE \/ AfterSend(p) \/ EndBatch(p) \/ EndDrain(p) \/ ReceiveNothing(p)
           \/ ReceiveStray(p) \/ RoundTimeout(p) \/ ReceiveFails(p) \/ Crash(p)
  <2>1. /\ UNCHANGED <<round, buffer, outbox>>
        /\ result'[q] = result[q] /\ pc'[q] = pc[q] /\ draining'[q] = draining[q]
    BY <1>3 DEF AfterSend, EndBatch, EndDrain, ReceiveNothing, StartDrain, TakeBuffer,
                ReceiveStray, DecodeInvalid, RoundTimeout, ReceiveFails, Crash, Stop, Goto,
                TypeOK, RunnerTypeOK
  <2> QED BY <2>1 DEF LaterAt, AllLater, Running
<1> QED BY <1>1, <1>2, <1>3 DEF PartyNext, Local, Arrival, Feeds

\* The decode loop: on entering a round something is buffered for, the party
\* produces something.
LEMMA LaterReceive ==
    ASSUME Invs, FeedInv', ~Accumulates, NEW p \in Parties, NEW e \in net, Receive(p, e)
    PROVE  LaterAt(p)'
<1> USE RoundsAssumption DEF Invs, DeliveryInv, TypeOK, RunnerTypeOK
<1> SUFFICES ASSUME Running(p)', outbox'[p] = {} PROVE AllLater(p)'
  <2>1. pc'[p] = "decode"
    BY DEF Receive, Goto
  <2> QED BY <2>1 DEF LaterAt
<1>1. Running(p) /\ pc[p] \in {"receive", "decode"} /\ e \in Envelopes
  BY DEF Receive, Receiving, At
<1>2. CASE UNCHANGED <<round, outbox>>
  <2>1. AllLater(p)
    BY <1>1, <1>2 DEF BufferLater, LaterAt
  <2>2. \A f \in buffer'[p] : f \in buffer[p] \/ f.tag > round[p]
    BY DEF Receive, DecodeOne, Early
  <2> QED BY <1>2, <2>1, <2>2 DEF AllLater
<1>3. CASE /\ round' = [round EXCEPT ![p] = round[p] + 1]
           /\ outbox' = [outbox EXCEPT ![p] = Produced(p, round[p] + 1)]
  <2>1. UNCHANGED buffer
    BY <1>3 DEF Receive, DecodeOne
  <2> SUFFICES ASSUME NEW f \in buffer[p], ~(f.tag > round'[p]) PROVE FALSE
    BY <2>1 DEF AllLater
  <2>2. f.tag \in Int /\ f.tag >= round'[p]
    BY <2>1 DEF FeedInv, BufferAhead, Envelopes
  <2>3. f.tag = round[p] + 1
    BY <1>3, <2>2
  <2> QED BY <1>3, <2>3, BufferedProduces
<1> QED BY <1>2, <1>3, FeedMoves DEF Feeds

\* The drain loop: what it handles was received with the messages that brought
\* the machine into its round, so a round it completes is the last anyone is in.
LEMMA LaterDrain ==
    ASSUME Invs, FeedInv', ~Accumulates, NEW p \in Parties, NEW e \in buffer[p], Drain(p, e)
    PROVE  LaterAt(p)'
<1> USE RoundsAssumption DEF Invs, DeliveryInv, TypeOK, RunnerTypeOK
<1>1. /\ Running(p) /\ pc[p] = "drain" /\ e.tag = draining[p]
      /\ buffer' = [buffer EXCEPT ![p] = @ \ {e}]
      /\ UNCHANGED <<draining, pc>>
  BY DEF Drain, DrainOne, Taken, At, sessionVars
<1>2. draining[p] = round[p]
  <2>1. draining[p] <= round[p] /\ round[p] <= e.tag
    BY <1>1 DEF FeedInv, BufferAhead
  <2>2. draining[p] \in Int /\ round[p] \in Int
    OBVIOUS
  <2> QED BY <1>1, <2>1, <2>2
<1>3. outbox[p] # {}
  <2>1. ~AllLater(p)
    BY <1>1, <1>2 DEF AllLater
  <2> QED BY <1>1, <2>1 DEF BufferLater, LaterAt
<1>4. CASE UNCHANGED <<round, outbox>>
  BY <1>1, <1>2, <1>3, <1>4 DEF LaterAt
<1>5. CASE round' = [round EXCEPT ![p] = round[p] + 1]
  <2> SUFFICES ASSUME Running(p)', NEW f \in buffer'[p] PROVE FALSE
    BY DEF LaterAt, AllLater
  <2>1. f \in buffer[p] /\ f.tag \in Int
    BY <1>1 DEF Envelopes
  <2>2. f.tag >= round[p] + 1
    BY <1>5 DEF FeedInv, BufferAhead
  <2> QED BY <1>3, <2>1, <2>2, NothingLater
<1> QED BY <1>4, <1>5, FeedMoves DEF Feeds

\* The steps that move no machine: on to the next place in the loop, or out of it.
LEMMA LaterQuiet ==
    ASSUME Invs, NEW p \in Parties, PartyNext(p), ~ \E e \in net \cup buffer[p] : Feeds(p, e)
    PROVE  LaterAt(p)'
<1> USE RoundsAssumption DEF Invs, DeliveryInv, TypeOK, RunnerTypeOK
<1>0. LaterAt(p)
  BY DEF BufferLater
<1>1. CASE Encode(p) \/ AfterSend(p) \/ \E m \in toSend[p] : SendOk(p, m) \/ SendFails(p, m)
  <2>1. UNCHANGED <<round, buffer>> /\ (Running(p) => AllLater(p))
    BY <1>0, <1>1 DEF Encode, AfterSend, SendOk, SendFails, At, LaterAt
  <2>2. Running(p)' => Running(p)
    BY <1>1 DEF Encode, AfterSend, SendOk, SendFails, At
  <2> QED BY <2>1, <2>2 DEF LaterAt, AllLater
<1>2. CASE EndBatch(p) \/ ReceiveNothing(p)
  <2>1. /\ UNCHANGED <<round, buffer, outbox, result>>
        /\ draining'[p] = round[p] /\ pc'[p] = "drain"
        /\ outbox[p] = {} => AllLater(p)
    BY <1>0, <1>2 DEF EndBatch, ReceiveNothing, StartDrain, TakeBuffer, Goto, At, LaterAt
  <2> QED BY <2>1 DEF LaterAt, AllLater
<1>3. CASE EndDrain(p)
  <2>1. /\ UNCHANGED <<round, buffer, result>>
        /\ Running(p) /\ pc[p] = "drain" /\ Taken(p) = {}
    BY <1>3 DEF EndDrain, At
  <2>2. AllLater(p)
    <3>1. CASE draining[p] = round[p]
      <4> SUFFICES ASSUME NEW f \in buffer[p] PROVE f.tag > round[p]
        BY DEF AllLater
      <4>1. f.tag # round[p]
        BY <2>1, <3>1 DEF Taken
      <4>2. f.tag >= round[p]
        BY <2>1 DEF FeedInv, BufferAhead
      <4>3. f.tag \in Int /\ round[p] \in Int
        BY DEF Envelopes
      <4> QED BY <4>1, <4>2, <4>3
    <3>2. CASE draining[p] # round[p]
      BY <1>0, <2>1, <3>2 DEF LaterAt
    <3> QED BY <3>1, <3>2
  <2> QED BY <2>1, <2>2 DEF LaterAt, AllLater
<1>4. CASE ReceiveStray(p) \/ RoundTimeout(p) \/ ReceiveFails(p) \/ Crash(p)
  <2>1. result'[p] # "running"
    BY <1>4 DEF ReceiveStray, DecodeInvalid, RoundTimeout, ReceiveFails, Crash, Stop
  <2> QED BY <2>1 DEF LaterAt, Running
<1> QED BY <1>1, <1>2, <1>3, <1>4 DEF PartyNext, Local, Arrival, Feeds

LEMMA BufferLaterStep ==
    ASSUME Invs, FeedInv', ~Accumulates, [Next]_vars
    PROVE  BufferLater'
<1>1. ASSUME NEW p \in Parties, PartyNext(p) PROVE BufferLater'
  <2>1. LaterAt(p)'
    <3>1. ASSUME NEW e \in net \cup buffer[p], Feeds(p, e) PROVE LaterAt(p)'
      <4>1. CASE Receive(p, e)
        BY <4>1, LaterReceive DEF Receive, Deliverable
      <4>2. CASE Drain(p, e)
        BY <4>2, LaterDrain DEF Drain, DrainOne, Taken
      <4> QED BY <3>1, <4>1, <4>2 DEF Feeds
    <3> QED BY <1>1, <3>1, LaterQuiet
  <2>2. \A q \in Parties : q # p => LaterAt(q)'
    BY <1>1, Elsewhere DEF Invs, DeliveryInv, BufferLater
  <2> QED BY <2>1, <2>2 DEF BufferLater
<1>2. CASE UNCHANGED vars
  BY <1>2 DEF vars, Invs, DeliveryInv, BufferLater, LaterAt, AllLater, Running
<1> QED BY <1>1, <1>2 DEF Next, Finished

LEMMA InvsInit == Init => Invs
<1> SUFFICES ASSUME Init PROVE Invs
  OBVIOUS
<1>1. SeenReached /\ Fresh /\ BufferLater
  BY DEF Init, RunnerInit, SeenReached, Fresh, BufferLater, LaterAt, AllLater
<1> QED BY <1>1, TypeInit, BarrierInit, FeedInit DEF Invs, DeliveryInv

LEMMA InvsStep ==
    ASSUME ~Accumulates, Cardinality(Parties) # 2
    PROVE  Invs /\ [Next]_vars => Invs'
<1> SUFFICES ASSUME Invs, [Next]_vars PROVE Invs'
  OBVIOUS
<1>1. TypeOK' /\ BarrierInv' /\ FeedInv'
  BY TypeStep, BarrierStep, FeedStep DEF Invs
<1> QED BY <1>1, SeenReachedStep, FreshStep, BufferLaterStep DEF Invs, DeliveryInv

\* With three parties or more and an outbox per round, whatever the network
\* delays, reorders or loses: a session never waits in receive while its
\* future_buffer holds a message of the round it is in.
THEOREM NeverStranded ==
    ASSUME ~Accumulates, Cardinality(Parties) # 2
    PROVE  Spec => []NothingStranded
<1>1. Invs => NothingStranded
  BY DEF Invs, DeliveryInv, BufferLater, LaterAt, AllLater, NothingStranded, At
<1> QED BY <1>1, InvsInit, InvsStep, PTL DEF Spec

-----------------------------------------------------------------------------
\* Every message once.  While no transport call failed, what waits to be sent is
\* not in flight and not accepted, and what is in flight is not accepted yet.

Unsent(p, m) ==
    /\ m.tries = 0
    /\ \A e \in net : e.from = p => <<e.tag, e.to>> # <<m.tag, m.to>>
    /\ \A d \in Parties : <<p, m.tag, m.to>> \notin seen[d]

Unread(e) == e.copy = 0 /\ Key(e) \notin seen[e.dest]

OnceInv == failures = 0 => /\ \A p \in Parties : \A m \in toSend[p] : Unsent(p, m)
                           /\ \A e \in net : Unread(e)
                           /\ \A p \in Parties : result[p] # "Duplicate"

\* What step_encode drains is of a round nothing was sent in before.
LEMMA OnceEncode ==
    ASSUME Invs, OnceInv, NEW p \in Parties, Encode(p)
    PROVE  OnceInv'
<1>1. UNCHANGED <<seen, net, failures, result>>
  BY DEF Encode
<1>2. \A q \in Parties : q # p => toSend'[q] = toSend[q]
  BY DEF Encode, Invs, TypeOK
<1>3. ASSUME NEW m \in toSend'[p] PROVE Unsent(p, m)
  <2>1. outbox[p] # {} /\ m.tag = round[p] /\ m.tries = 0
    BY <1>3 DEF Encode, Encoded, Invs, TypeOK
  <2>2. round[p] \in Int
    BY RoundsAssumption DEF Invs, TypeOK, RunnerTypeOK
  <2>3. \A e \in net : e.from = p => e.tag # m.tag
    BY <2>1, <2>2, Arrived DEF Invs, DeliveryInv, Fresh
  <2>4. \A d \in Parties : \A s \in seen[d] : s[1] = p => s[2] # m.tag
    BY <2>1, <2>2 DEF Invs, DeliveryInv, Fresh
  <2>5. \A d \in Parties : <<p, m.tag, m.to>> \notin seen[d]
    BY <2>4
  <2> QED BY <2>1, <2>3, <2>5 DEF Unsent
<1> QED BY <1>1, <1>2, <1>3 DEF OnceInv, Unsent, Unread, Key

\* Two messages of a round to the same recipient are the same message.
LEMMA OnceSend ==
    ASSUME Invs, OnceInv, NEW p \in Parties, NEW m \in toSend[p], SendOk(p, m)
    PROVE  OnceInv'
<1> SUFFICES ASSUME failures = 0 PROVE OnceInv'
  BY DEF OnceInv, SendOk
<1>1. /\ UNCHANGED <<seen, failures, result>>
      /\ toSend' = [toSend EXCEPT ![p] = @ \ {m}]
      /\ toSend \in [Parties -> SUBSET Encodings]
  BY DEF SendOk, Invs, TypeOK
<1>2. Unsent(p, m)
  BY DEF OnceInv
<1>3. ASSUME NEW e \in net', e \notin net
      PROVE  e.from = p /\ e.tag = m.tag /\ e.to = m.to /\ e.copy = 0 /\ e.dest \in Parties
  <2>1. PICK d \in Recipients(p, m) : e = Envelope(p, m, d, m.tries)
    BY <1>3 DEF SendOk, Delivered
  <2>2. d \in Parties
    BY <2>1 DEF Recipients, Invs, FeedInv, Stamped, Addressees
  <2> QED BY <1>2, <2>1, <2>2 DEF Envelope, Unsent
<1>4. \A e \in net' : Unread(e)
  <2>1. \A e \in net : Unread(e)
    BY DEF OnceInv
  <2>2. \A e \in net' : e \notin net => Unread(e)
    BY <1>2, <1>3 DEF Unsent, Unread, Key
  <2> QED BY <2>1, <2>2
<1>5. ASSUME NEW q \in Parties, NEW o \in toSend'[q], NEW e \in net', e.from = q
      PROVE  <<e.tag, e.to>> # <<o.tag, o.to>>
  <2>1. o \in toSend[q] /\ Unsent(q, o)
    BY <1>1 DEF OnceInv
  <2>2. CASE e \in net
    BY <1>5, <2>1, <2>2 DEF Unsent
  <2>3. CASE e \notin net
    <3>1. q = p /\ o # m
      BY <1>1, <1>3, <1>5, <2>3
    <3>2. /\ o \in Encodings /\ m \in Encodings
          /\ o.round = o.tag /\ m.round = m.tag /\ o.tries = m.tries
      BY <1>1, <1>2, <2>1, <3>1 DEF Invs, FeedInv, Stamped, Unsent
    <3>3. <<m.tag, m.to>> # <<o.tag, o.to>>
      BY <3>1, <3>2 DEF Encodings
    <3> QED BY <1>3, <2>3, <3>3
  <2> QED BY <2>2, <2>3
<1>6. \A q \in Parties : \A o \in toSend'[q] : Unsent(q, o)
  BY <1>1 DEF OnceInv
<1>7. \A q \in Parties : \A o \in toSend'[q] : Unsent(q, o)'
  BY <1>1, <1>5, <1>6 DEF Unsent
<1> QED BY <1>1, <1>4, <1>7 DEF OnceInv, Unread, Key

\* A message that is accepted leaves the network with its only copy.
LEMMA OnceReceive ==
    ASSUME Invs, OnceInv, NEW p \in Parties, NEW e \in net, Receive(p, e)
    PROVE  OnceInv'
<1> SUFFICES ASSUME failures = 0 PROVE OnceInv'
  BY DEF OnceInv, Receive
<1>1. /\ UNCHANGED <<toSend, failures>> /\ net' = net \ {e} /\ e.dest = p
      /\ DecodeOne(p, e)
  BY DEF Receive, Deliverable
<1>2. Unread(e)
  BY DEF OnceInv
<1>3. /\ seen' = [seen EXCEPT ![p] = @ \cup {Key(e)}]
      /\ Handle(p, e) \/ UNCHANGED result
  BY <1>1, <1>2 DEF DecodeOne, Unread
<1>4. \A q \in Parties : result'[q] # "Duplicate"
  BY <1>3 DEF Handle, Stop, Advance, OnceInv, Invs, TypeOK, RunnerTypeOK
<1>5. \A d \in Parties : \A s \in seen'[d] : s \in seen[d] \/ (d = p /\ s = Key(e))
  BY <1>3 DEF Invs, TypeOK, RunnerTypeOK
<1>6. ASSUME NEW f \in net' PROVE Unread(f)'
  <2>1. f \in net /\ f # e /\ Unread(f)
    BY <1>1 DEF OnceInv
  <2>2. f \in Envelopes /\ e \in Envelopes /\ f.tag = f.round /\ e.tag = e.round
    BY <2>1, Arrived
  <2>3. f.dest = p => Key(f) # Key(e)
    BY <1>1, <1>2, <2>1, <2>2 DEF Envelopes, Key, Unread
  <2>4. f.dest \in Parties
    BY <2>2 DEF Envelopes
  <2>5. Key(f) \notin seen'[f.dest]
    BY <1>5, <2>1, <2>3, <2>4 DEF Unread
  <2> QED BY <2>1, <2>5 DEF Unread, Key
<1>7. ASSUME NEW q \in Parties, NEW m \in toSend'[q] PROVE Unsent(q, m)'
  <2>1. Unsent(q, m)
    BY <1>1 DEF OnceInv
  <2>2. <<q, m.tag, m.to>> # Key(e)
    BY <2>1 DEF Unsent, Key
  <2>3. \A d \in Parties : <<q, m.tag, m.to>> \notin seen'[d]
    BY <1>5, <2>1, <2>2 DEF Unsent
  <2> QED BY <1>1, <2>1, <2>3 DEF Unsent
<1> QED BY <1>4, <1>6, <1>7 DEF OnceInv

LEMMA OnceStep == Invs /\ OnceInv /\ [Next]_vars => OnceInv'
<1> SUFFICES ASSUME Invs, OnceInv, [Next]_vars PROVE OnceInv'
  OBVIOUS
<1>1. failures \in Nat
  BY DEF Invs, TypeOK
<1>2. ASSUME NEW p \in Parties, NEW m \in toSend[p], SendFails(p, m) PROVE OnceInv'
  BY <1>1, <1>2 DEF SendFails, OnceInv
<1>3. ASSUME UNCHANGED <<toSend, net, seen, failures>>,
             \A p \in Parties : result'[p] = result[p] \/ result'[p] # "Duplicate"
      PROVE  OnceInv'
  BY <1>3 DEF OnceInv, Unsent, Unread, Key
<1>4. ASSUME NEW p \in Parties, NEW e, Drain(p, e) PROVE OnceInv'
  <2>1. \A q \in Parties : result'[q] = result[q] \/ result'[q] # "Duplicate"
    BY <1>4 DEF Drain, DrainOne, Handle, Stop, Advance, Invs, TypeOK, RunnerTypeOK
  <2> QED BY <1>3, <1>4, <2>1 DEF Drain, DrainOne, sessionVars
<1>5. ASSUME NEW p \in Parties, ReceiveFails(p) PROVE OnceInv'
  BY <1>1, <1>5 DEF ReceiveFails, OnceInv
<1>6. ASSUME NEW p \in Parties,
             \/ AfterSend(p) \/ EndBatch(p) \/ EndDrain(p) \/ ReceiveNothing(p)
             \/ ReceiveStray(p) \/ RoundTimeout(p) \/ Crash(p)
      PROVE  OnceInv'
  <2>1. UNCHANGED <<toSend, net, seen, failures>>
    BY <1>6 DEF AfterSend, EndBatch, EndDrain, ReceiveNothing, StartDrain, TakeBuffer,
                ReceiveStray, DecodeInvalid, RoundTimeout, Crash
  <2>2. \A q \in Parties : result'[q] = result[q] \/ result'[q] # "Duplicate"
    BY <1>6 DEF AfterSend, EndBatch, EndDrain, ReceiveNothing, StartDrain, TakeBuffer,
                ReceiveStray, DecodeInvalid, RoundTimeout, Crash, Stop, Invs, TypeOK,
                RunnerTypeOK
  <2> QED BY <1>3, <2>1, <2>2
<1>7. CASE UNCHANGED vars
  BY <1>3, <1>7 DEF vars
<1> QED BY <1>2, <1>4, <1>5, <1>6, <1>7, OnceEncode, OnceSend, OnceReceive
        DEF Next, PartyNext, Local, Arrival, Finished

\* With three parties or more and an outbox per round: as long as no transport
\* call failed no session ends with DuplicateMessage, however many rounds and
\* kinds of messages there are and in whatever order they arrive.
THEOREM NoFalseDuplicate ==
    ASSUME ~Accumulates, Cardinality(Parties) # 2
    PROVE  Spec => []DuplicatesAreReal
<1>1. Init => OnceInv
  BY DEF Init, RunnerInit, OnceInv, Unsent, Unread
<1>2. OnceInv => DuplicatesAreReal
  BY DEF OnceInv, DuplicatesAreReal
<1> QED BY <1>1, <1>2, InvsInit, InvsStep, OnceStep, PTL DEF Spec

-----------------------------------------------------------------------------
\* What was produced is sent in time.  When a receive returns one message and a
\* peer's messages arrive in the order of its rounds, the message that completes
\* a round is of a peer nothing of the next round was accepted from; so what
\* future_buffer holds never completes that next round in the same step_decode,
\* and the machine leaves a round only after step_encode and the sends.

\* Where run() is when something waits to be encoded or to be sent.
Sends ==
    \A p \in Parties :
        /\ pc[p] \in {"send", "receive"} => outbox[p] = {}
        /\ toSend[p] # {} => pc[p] = "send"
        /\ \A m \in toSend[p] : m.round = round[p]

\* What is in flight to a party is not of an earlier round than what it accepted
\* from the same sender.
InOrder == \A e \in net : \A s \in seen[e.dest] : s[1] = e.from => s[2] <= e.tag

\* Until what a party produced on entering a round is encoded, some peer's
\* message of that round is missing.
MissesOne(p) ==
    pc[p] \in {"decode", "drain"} /\ outbox[p] # {} =>
        \E q \in Others(p) : \A s \in seen[p] : s[1] = q => s[2] < round[p]

\* A message of p of round r that d needs is on its way, or was accepted.
Accounted(p, r, d, to) ==
    \/ [round |-> r, to |-> to] \in outbox[p]
    \/ \E m \in toSend[p] : m.round = r /\ m.to = to
    \/ \E e \in net : e.from = p /\ e.dest = d /\ e.round = r /\ e.to = to
    \/ <<p, r, to>> \in seen[d]

NothingLost ==
    \A p \in Parties : \A r \in Rounds : r <= round[p] => \A d \in Others(p) :
        \A n \in Needed(d, r) : n[1] = p /\ Running(d) => Accounted(p, r, d, n[2])

SentInv == Sends /\ InOrder /\ (\A p \in Parties : MissesOne(p)) /\ NothingLost

\* What a party needs of another the other produces on entering the round.
LEMMA NeededProduced ==
    ASSUME NEW p \in Parties, NEW d \in Others(p), NEW r \in Rounds, NEW n \in Needed(d, r), n[1] = p
    PROVE  [round |-> r, to |-> n[2]] \in Produced(p, r)
<1>1. n[2] \in Addressees(p, r)
  BY DEF Needed, Addressees
<1> QED BY <1>1 DEF Produced

\* What is sent goes to parties of the session.
LEMMA SentTo ==
    ASSUME Invs, NEW p \in Parties, NEW m \in toSend[p], SendOk(p, m) \/ SendFails(p, m),
           NEW e \in net', e \notin net
    PROVE  e.from = p /\ e.tag = m.tag /\ e.dest \in Parties
<1>1. PICK d \in Recipients(p, m) : e = Envelope(p, m, d, m.tries)
  BY DEF SendOk, SendFails, Delivered
<1>2. d \in Parties
  BY <1>1 DEF Recipients, Invs, FeedInv, Stamped, Addressees
<1> QED BY <1>1, <1>2 DEF Envelope

\* The machine moves only when it is fed a message in the batch, and then
\* everything it had produced is encoded and sent: a drain completes no round,
\* for a message that the round needs is missing.
LEMMA MovesWhenSent ==
    ASSUME Invs, SentInv, ~Accumulates, OneMessagePerReceive, NEW p \in Parties,
           NEW e \in net \cup buffer[p], Feeds(p, e)
    PROVE  \/ UNCHANGED <<round, outbox>>
           \/ /\ Receive(p, e)
              /\ outbox[p] = {} /\ toSend[p] = {} /\ pc[p] = "receive"
              /\ Completes(p, e) /\ e.round = round[p] /\ <<e.from, e.to>> \in Needed(p, round[p])
              /\ round' = [round EXCEPT ![p] = round[p] + 1]
              /\ outbox' = [outbox EXCEPT ![p] = Produced(p, round[p] + 1)]
<1> USE RoundsAssumption DEF Invs, DeliveryInv, TypeOK, RunnerTypeOK
<1>1. CASE Receive(p, e)
  <2>1. Running(p) /\ pc[p] = "receive"
    BY <1>1 DEF Receive, Receiving, At
  <2>2. outbox[p] = {} /\ toSend[p] = {}
    BY <2>1 DEF SentInv, Sends
  <2>3. Handle(p, e) \/ UNCHANGED <<round, outbox>>
    BY <1>1 DEF Receive, DecodeOne
  <2>4. Handle(p, e) => \/ UNCHANGED <<round, outbox>>
                        \/ Accepts(p, e) /\ Completes(p, e) /\ Advance(p)
    BY DEF Handle
  <2> QED BY <1>1, <2>1, <2>2, <2>3, <2>4 DEF Accepts, Advance, KeptOnAdvance
<1>2. CASE Drain(p, e)
  <2>1. /\ Running(p) /\ pc[p] = "drain" /\ e.tag = draining[p] /\ e \in buffer[p]
        /\ Handle(p, e)
    BY <1>2 DEF Drain, DrainOne, Taken, At
  <2>2. draining[p] = round[p]
    <3>1. draining[p] <= round[p] /\ round[p] <= e.tag
      BY <2>1 DEF FeedInv, BufferAhead
    <3>2. draining[p] \in Int /\ round[p] \in Int
      OBVIOUS
    <3> QED BY <2>1, <3>1, <3>2
  <2>3. outbox[p] # {}
    <3>1. ~AllLater(p)
      BY <2>1, <2>2 DEF AllLater
    <3> QED BY <2>1, <3>1 DEF BufferLater, LaterAt
  <2>4. PICK q \in Others(p) : \A s \in seen[p] : s[1] = q => s[2] < round[p]
    BY <2>1, <2>3 DEF SentInv, MissesOne
  <2>5. e.round = round[p] /\ round[p] \in Rounds
    <3>1. Proper(e, p)
      BY <2>1 DEF FeedInv, Stamped
    <3>2. e.tag = e.round
      BY <3>1 DEF Proper
    <3>3. e \in Envelopes
      BY <2>1
    <3>4. e.round \in Rounds
      BY <3>3 DEF Envelopes
    <3> QED BY <2>1, <2>2, <3>2, <3>4
  <2>6. PICK n \in Needed(p, round[p]) : n[1] = q
    BY <2>5, NeededFromAll
  <2>7. n \notin got[p]
    <3> SUFFICES ASSUME n \in got[p] PROVE FALSE
      OBVIOUS
    <3> DEFINE k == <<q, round[p], n[2]>>
    <3>1. k \in seen[p]
      BY <2>6 DEF FeedInv, GotSeen
    <3>2. k[1] = q /\ k[2] = round[p]
      OBVIOUS
    <3> HIDE DEF k
    <3>3. round[p] < round[p]
      BY <2>4, <3>1, <3>2
    <3>4. round[p] \in Int
      BY <2>5
    <3> QED BY <3>3, <3>4
  <2>8. n # <<e.from, e.to>>
    <3>1. Key(e) \in seen[p]
      BY <2>1 DEF FeedInv, BufferSeen
    <3> QED BY <2>1, <2>2, <2>4, <2>6, <3>1 DEF Key
  <2>9. ~Completes(p, e)
    BY <2>6, <2>7, <2>8 DEF Completes
  <2> QED BY <2>1, <2>9 DEF Handle
<1> QED BY <1>1, <1>2 DEF Feeds

LEMMA SentInit == Init => SentInv
<1> SUFFICES ASSUME Init PROVE SentInv
  OBVIOUS
<1> USE RoundsAssumption DEF Init, RunnerInit
<1>1. Sends /\ InOrder /\ \A p \in Parties : MissesOne(p)
  BY DEF Sends, InOrder, MissesOne
<1>2. NothingLost
  <2> SUFFICES ASSUME NEW p \in Parties, NEW r \in Rounds, r <= round[p], NEW d \in Others(p),
                      NEW n \in Needed(d, r), n[1] = p
               PROVE  [round |-> r, to |-> n[2]] \in outbox[p]
    BY DEF NothingLost, Accounted
  <2>1. r = FirstRound
    OBVIOUS
  <2> QED BY <2>1, NeededProduced
<1> QED BY <1>1, <1>2 DEF SentInv

\* A step that feeds no machine and sends nothing.
LEMMA SentQuiet ==
    ASSUME Invs, SentInv, NEW p \in Parties,
           \/ AfterSend(p) \/ EndBatch(p) \/ EndDrain(p) \/ ReceiveNothing(p)
           \/ ReceiveStray(p) \/ RoundTimeout(p) \/ ReceiveFails(p) \/ Crash(p)
    PROVE  SentInv'
<1>1. /\ UNCHANGED <<round, outbox, seen, toSend, net>>
      /\ pc \in [Parties -> Labels]
  BY DEF AfterSend, EndBatch, EndDrain, ReceiveNothing, StartDrain, TakeBuffer,
         ReceiveStray, DecodeInvalid, RoundTimeout, ReceiveFails, Crash, Invs, TypeOK
<1>2. \A q \in Parties : Running(q)' => Running(q)
  BY DEF AfterSend, EndBatch, EndDrain, ReceiveNothing, StartDrain, TakeBuffer,
         ReceiveStray, DecodeInvalid, RoundTimeout, ReceiveFails, Crash, Stop, Running,
         Invs, TypeOK, RunnerTypeOK
<1>3. /\ \A q \in Parties : q # p => pc'[q] = pc[q]
      /\ \/ pc'[p] = pc[p]
         \/ pc[p] = "send" /\ toSend[p] = {} /\ pc'[p] = "receive"
         \/ pc[p] \in {"decode", "receive"} /\ pc'[p] = "drain"
         \/ pc[p] = "drain" /\ pc'[p] = "encode"
  BY <1>1 DEF AfterSend, EndBatch, EndDrain, ReceiveNothing, StartDrain, TakeBuffer, At,
         ReceiveStray, DecodeInvalid, RoundTimeout, ReceiveFails, Crash, Goto
<1>4. Sends'
  BY <1>1, <1>3 DEF SentInv, Sends
<1>5. ASSUME NEW q \in Parties PROVE MissesOne(q)'
  BY <1>1, <1>3 DEF SentInv, Sends, MissesOne
<1>6. InOrder'
  BY <1>1 DEF SentInv, InOrder
<1>7. NothingLost'
  BY <1>1, <1>2 DEF SentInv, NothingLost, Accounted
<1> QED BY <1>4, <1>5, <1>6, <1>7 DEF SentInv

\* What is encoded waits to be sent.
LEMMA SentEncode ==
    ASSUME Invs, SentInv, NEW p \in Parties, Encode(p)
    PROVE  SentInv'
<1> USE DEF Invs, TypeOK, RunnerTypeOK
<1>1. /\ UNCHANGED <<round, seen, net, result>> /\ pc[p] = "encode"
      /\ toSend' = [toSend EXCEPT ![p] =
                      {[tag |-> m.tag, round |-> m.round, to |-> m.to, tries |-> 0] :
                          m \in Encoded(p)}]
      /\ outbox' = [outbox EXCEPT ![p] = {}]
      /\ pc' = [pc EXCEPT ![p] = "send"]
  BY DEF Encode, Drained, Goto, At
<1>2. toSend[p] = {}
  BY <1>1 DEF SentInv, Sends
<1>3. \A m \in toSend'[p] : m.round = round[p]
  BY <1>1 DEF Encoded, FeedInv, Stamped
<1>4. \A m \in outbox[p] : \E o \in toSend'[p] : o.round = m.round /\ o.to = m.to
  <2> SUFFICES ASSUME NEW m \in outbox[p]
               PROVE  \E o \in toSend'[p] : o.round = m.round /\ o.to = m.to
    OBVIOUS
  <2>1. [tag |-> round[p], round |-> m.round, to |-> m.to] \in Encoded(p)
    BY DEF Encoded
  <2>2. [tag |-> round[p], round |-> m.round, to |-> m.to, tries |-> 0] \in toSend'[p]
    BY <1>1, <2>1
  <2> QED BY <2>2
<1>5. Sends'
  BY <1>1, <1>3 DEF SentInv, Sends
<1>6. InOrder'
  BY <1>1 DEF SentInv, InOrder
<1>7. ASSUME NEW q \in Parties PROVE MissesOne(q)'
  BY <1>1 DEF SentInv, MissesOne
<1>8. NothingLost'
  <2> SUFFICES ASSUME NEW q \in Parties, NEW r \in Rounds, r <= round[q], NEW d \in Others(q),
                      NEW n \in Needed(d, r), n[1] = q, Running(d)
               PROVE  Accounted(q, r, d, n[2])'
    BY <1>1 DEF NothingLost, Running
  <2>1. Accounted(q, r, d, n[2])
    BY DEF SentInv, NothingLost
  <2>2. CASE q # p
    BY <1>1, <2>1, <2>2 DEF Accounted
  <2>3. CASE q = p
    <3>1. CASE [round |-> r, to |-> n[2]] \in outbox[p]
      BY <1>4, <2>3, <3>1 DEF Accounted
    <3>2. CASE [round |-> r, to |-> n[2]] \notin outbox[p]
      BY <1>1, <1>2, <2>1, <2>3, <3>2 DEF Accounted
    <3> QED BY <3>1, <3>2
  <2> QED BY <2>2, <2>3
<1> QED BY <1>5, <1>6, <1>7, <1>8 DEF SentInv

\* A message leaves toSend when it is in flight to each of its recipients.
LEMMA SentSend ==
    ASSUME Invs, SentInv, NEW p \in Parties, NEW m \in toSend[p], SendOk(p, m) \/ SendFails(p, m)
    PROVE  SentInv'
<1> USE DEF Invs, TypeOK, RunnerTypeOK
<1>1. /\ UNCHANGED <<round, outbox, seen, pc>> /\ pc[p] = "send" /\ net \subseteq net'
      /\ m \in Encodings /\ m.round = round[p] /\ m.tag = m.round /\ m.to \in Addressees(p, m.round)
  BY DEF SendOk, SendFails, Delivered, At, SentInv, Sends, FeedInv, Stamped
<1>2. \A e \in net' : e \in net \/ (e.from = p /\ e.tag = m.tag)
  BY DEF SendOk, SendFails, Delivered, Envelope
<1>3. /\ \A q \in Parties : q # p => toSend'[q] = toSend[q]
      /\ \A o \in toSend'[p] : o.round = round[p]
      /\ \A o \in toSend[p] : \/ \E w \in toSend'[p] : w.round = o.round /\ w.to = o.to
                              \/ o = m /\ SendOk(p, m)
  <2>1. CASE SendOk(p, m)
    BY <2>1 DEF SendOk, SentInv, Sends
  <2>2. CASE SendFails(p, m)
    <3> DEFINE again == [m EXCEPT !.tries = m.tries + 1]
    <3>1. again.round = m.round /\ again.to = m.to
      BY <1>1 DEF Encodings
    <3>2. toSend' = [toSend EXCEPT ![p] = (@ \ {m}) \cup {again}] \/ toSend' = toSend
      BY <2>2 DEF SendFails
    <3> HIDE DEF again
    <3> QED BY <1>1, <3>1, <3>2 DEF SentInv, Sends
  <2> QED BY <2>1, <2>2
<1>4. \A q \in Parties : Running(q)' => Running(q)
  BY DEF SendOk, SendFails, Stop, Running
<1>5. Sends'
  <2>1. \A q \in Parties : toSend'[q] # {} => pc[q] = "send"
    BY <1>1, <1>3 DEF SentInv, Sends
  <2> QED BY <1>1, <1>3, <2>1 DEF SentInv, Sends
<1>6. InOrder'
  <2> SUFFICES ASSUME NEW e \in net', NEW s \in seen[e.dest], s[1] = e.from
               PROVE  s[2] <= e.tag
    BY <1>1 DEF InOrder
  <2>1. CASE e \in net
    BY <2>1 DEF SentInv, InOrder
  <2>2. CASE e \notin net
    <3>1. e.from = p /\ e.tag = round[p] /\ e.dest \in Parties
      BY <1>1, <1>2, <2>2, SentTo
    <3> QED BY <3>1 DEF DeliveryInv, SeenReached
  <2> QED BY <2>1, <2>2
<1>7. ASSUME NEW q \in Parties PROVE MissesOne(q)'
  BY <1>1 DEF SentInv, MissesOne
<1>8. NothingLost'
  <2> SUFFICES ASSUME NEW q \in Parties, NEW r \in Rounds, r <= round[q], NEW d \in Others(q),
                      NEW n \in Needed(d, r), n[1] = q, Running(d)
               PROVE  Accounted(q, r, d, n[2])'
    BY <1>1, <1>4 DEF NothingLost
  <2>1. Accounted(q, r, d, n[2])
    BY DEF SentInv, NothingLost
  <2>2. CASE \E o \in toSend[q] : o.round = r /\ o.to = n[2]
    <3>1. PICK o \in toSend[q] : o.round = r /\ o.to = n[2]
      BY <2>2
    <3>2. CASE \E w \in toSend'[q] : w.round = r /\ w.to = n[2]
      BY <3>2 DEF Accounted
    <3>3. CASE ~ \E w \in toSend'[q] : w.round = r /\ w.to = n[2]
      <4>1. q = p /\ o = m /\ SendOk(p, m)
        BY <1>3, <3>1, <3>3
      <4>2. d \in Recipients(p, m)
        BY <3>1, <4>1 DEF Recipients, Needed
      <4>3. Envelope(p, m, d, m.tries) \in net'
        BY <4>1, <4>2 DEF SendOk, Delivered
      <4>4. /\ Envelope(p, m, d, m.tries).from = p /\ Envelope(p, m, d, m.tries).dest = d
            /\ Envelope(p, m, d, m.tries).round = r /\ Envelope(p, m, d, m.tries).to = n[2]
        BY <3>1, <4>1 DEF Envelope
      <4> QED BY <4>1, <4>3, <4>4 DEF Accounted
    <3> QED BY <3>2, <3>3
  <2>3. CASE ~ \E o \in toSend[q] : o.round = r /\ o.to = n[2]
    BY <1>1, <2>1, <2>3 DEF Accounted
  <2> QED BY <2>2, <2>3
<1> QED BY <1>5, <1>6, <1>7, <1>8 DEF SentInv

\* A message that is handed over is of no later round than the others in flight
\* from its sender, so what is accepted from a peer never goes back a round; and
\* nothing of the round it completes was followed by one of the next.
LEMMA SentReceive ==
    ASSUME Invs, Invs', SentInv, ~Accumulates, OneMessagePerReceive, Ordered,
           NEW p \in Parties, NEW e \in net, Receive(p, e)
    PROVE  SentInv'
<1> USE RoundsAssumption DEF Invs, TypeOK, RunnerTypeOK
<1>1. /\ e.dest = p /\ net' = net \ {e} /\ UNCHANGED toSend /\ DecodeOne(p, e)
      /\ pc' = [pc EXCEPT ![p] = "decode"] /\ pc[p] = "receive" /\ Running(p)
      /\ \A o \in net : o.dest = p /\ o.from = e.from => e.tag <= o.tag
  BY DEF Receive, Deliverable, Goto, Receiving, At
<1>2. outbox[p] = {} /\ toSend[p] = {}
  BY <1>1 DEF SentInv, Sends
<1>3. /\ e \in Envelopes /\ e.tag = e.round /\ e.from \in Parties /\ e.tag \in Int
      /\ Key(e) = <<e.from, e.tag, e.to>>
  BY Arrived DEF Key
<1>4. \/ seen' = [seen EXCEPT ![p] = @ \cup {Key(e)}]
      \/ seen' = seen /\ result' = [result EXCEPT ![p] = "Duplicate"]
  BY <1>1 DEF DecodeOne, Stop
<1>5. /\ \A d \in Parties : \A s \in seen'[d] : s \in seen[d] \/ (d = p /\ s = Key(e))
      /\ \A d \in Parties : seen[d] \subseteq seen'[d]
  BY <1>4
<1>6. \A q \in Parties : Running(q)' => Running(q)
  BY <1>1 DEF DecodeOne, Handle, Stop, Running
<1>7. \/ UNCHANGED <<round, outbox>>
      \/ /\ Completes(p, e) /\ e.round = round[p] /\ <<e.from, e.to>> \in Needed(p, round[p])
         /\ round' = [round EXCEPT ![p] = round[p] + 1]
         /\ outbox' = [outbox EXCEPT ![p] = Produced(p, round[p] + 1)]
  BY MovesWhenSent DEF Feeds
<1>8. \A q \in Parties : q # p => /\ round'[q] = round[q] /\ outbox'[q] = outbox[q]
                                  /\ pc'[q] = pc[q] /\ seen'[q] = seen[q]
  BY <1>1, <1>4, <1>7
<1>9. Sends'
  BY <1>1, <1>2, <1>8 DEF SentInv, Sends
<1>10. InOrder'
  <2> SUFFICES ASSUME NEW f \in net', NEW s \in seen'[f.dest], s[1] = f.from
               PROVE  s[2] <= f.tag
    BY DEF InOrder
  <2>1. f \in net /\ f \in Envelopes /\ f.dest \in Parties
    BY <1>1 DEF Envelopes
  <2>2. CASE s \in seen[f.dest]
    BY <2>1, <2>2 DEF SentInv, InOrder
  <2>3. CASE f.dest = p /\ s = Key(e)
    BY <1>1, <1>3, <2>1, <2>3
  <2> QED BY <1>5, <2>1, <2>2, <2>3
<1>11. ASSUME NEW q \in Parties PROVE MissesOne(q)'
  <2>1. CASE q # p
    BY <1>8, <2>1 DEF SentInv, MissesOne
  <2>2. CASE q = p /\ outbox'[p] = {}
    BY <2>2 DEF MissesOne
  <2>3. CASE q = p /\ outbox'[p] # {}
    <3>1. /\ e.round = round[p] /\ <<e.from, e.to>> \in Needed(p, round[p])
          /\ round'[p] = round[p] + 1
      BY <1>2, <1>7, <2>3
    <3>2. e.from \in Others(p)
      BY <3>1 DEF Needed
    <3>3. \A s \in seen[p] : s[1] = e.from => s[2] \in Int /\ s[2] <= e.tag
      BY <1>1 DEF SentInv, InOrder
    <3>4. \A s \in seen'[p] : s[1] = e.from => s[2] < round'[p]
      BY <1>3, <1>5, <3>1, <3>3
    <3> QED BY <2>3, <3>2, <3>4 DEF MissesOne
  <2> QED BY <2>1, <2>2, <2>3
<1>12. NothingLost'
  <2> SUFFICES ASSUME NEW q \in Parties, NEW r \in Rounds, r <= round'[q], NEW d \in Others(q),
                      NEW n \in Needed(d, r), n[1] = q, Running(d)'
               PROVE  Accounted(q, r, d, n[2])'
    BY DEF NothingLost
  <2>1. CASE r <= round[q]
    <3>1. Accounted(q, r, d, n[2])
      BY <1>6, <2>1 DEF SentInv, NothingLost
    <3>2. CASE [round |-> r, to |-> n[2]] \in outbox[q]
      BY <1>2, <1>8, <3>2 DEF Accounted
    <3>3. CASE \E f \in net : f.from = q /\ f.dest = d /\ f.round = r /\ f.to = n[2]
      <4>1. PICK f \in net : f.from = q /\ f.dest = d /\ f.round = r /\ f.to = n[2]
        BY <3>3
      <4>2. CASE f = e
        <5>1. Key(e) \in seen'[d]
          <6>1. d = p /\ result'[p] = "running"
            BY <1>1, <4>1, <4>2 DEF Running
          <6>2. seen' = [seen EXCEPT ![p] = @ \cup {Key(e)}]
            BY <1>4, <6>1
          <6> QED BY <6>1, <6>2
        <5> QED BY <1>3, <4>1, <4>2, <5>1 DEF Accounted
      <4>3. CASE f # e
        BY <1>1, <4>1, <4>3 DEF Accounted
      <4> QED BY <4>2, <4>3
    <3> QED BY <1>1, <1>5, <3>1, <3>2, <3>3 DEF Accounted
  <2>2. CASE ~(r <= round[q])
    <3>1. q = p /\ r = round[p] + 1 /\ outbox'[p] = Produced(p, r)
      BY <1>7, <2>2
    <3> QED BY <3>1, NeededProduced DEF Accounted
  <2> QED BY <2>1, <2>2
<1> QED BY <1>9, <1>10, <1>11, <1>12 DEF SentInv

LEMMA SentDrain ==
    ASSUME Invs, SentInv, ~Accumulates, OneMessagePerReceive,
           NEW p \in Parties, NEW e \in buffer[p], Drain(p, e)
    PROVE  SentInv'
<1>1. UNCHANGED <<round, outbox, seen, toSend, net, pc>>
  <2>1. UNCHANGED <<round, outbox>>
    BY MovesWhenSent DEF Feeds, Receive, Drain, Receiving, At
  <2> QED BY <2>1 DEF Drain, DrainOne, sessionVars
<1>2. \A q \in Parties : Running(q)' => Running(q)
  BY DEF Drain, DrainOne, Handle, Advance, Stop, Running, Invs, TypeOK, RunnerTypeOK
<1>3. NothingLost'
  BY <1>1, <1>2 DEF SentInv, NothingLost, Accounted
<1> QED BY <1>1, <1>3 DEF SentInv, Sends, InOrder, MissesOne

LEMMA SentStep ==
    ASSUME ~Accumulates, OneMessagePerReceive, Ordered, Cardinality(Parties) # 2
    PROVE  Invs /\ SentInv /\ [Next]_vars => SentInv'
<1> SUFFICES ASSUME Invs, SentInv, [Next]_vars PROVE SentInv'
  OBVIOUS
<1>1. Invs'
  BY InvsStep
<1>2. CASE UNCHANGED vars
  BY <1>2 DEF vars, SentInv, Sends, InOrder, MissesOne, NothingLost, Accounted, Running
<1>3. ASSUME NEW p \in Parties, PartyNext(p) PROVE SentInv'
  <2>1. CASE \E e \in buffer[p] : Drain(p, e)
    BY <2>1, SentDrain
  <2>2. CASE \E e \in net : Receive(p, e)
    BY <1>1, <2>2, SentReceive
  <2>3. CASE Encode(p) \/ \E m \in toSend[p] : SendOk(p, m) \/ SendFails(p, m)
    BY <2>3, SentEncode, SentSend
  <2> QED BY <1>3, <2>1, <2>2, <2>3, SentQuiet DEF PartyNext, Local, Arrival
<1> QED BY <1>2, <1>3 DEF Next, Finished

\* With three parties or more, an outbox per round and a transport that returns
\* one message at a time in the order of its sender's rounds: everything a party
\* produced on entering a round is in flight or accepted when it leaves the
\* round, whatever fails and is retried.
THEOREM SentBeforeLeft ==
    ASSUME ~Accumulates, OneMessagePerReceive, Ordered, Cardinality(Parties) # 2
    PROVE  Spec => []RoundSentBeforeLeft
<1>1. Invs /\ SentInv => RoundSentBeforeLeft
  <2> SUFFICES ASSUME Invs, SentInv, NEW p \in Parties, NEW r \in FirstRound..(round[p] - 1),
                      NEW d \in Others(p), NEW n \in Needed(d, r), n[1] = p, Running(d)
               PROVE  \/ <<p, r, n[2]>> \in seen[d]
                      \/ \E e \in net : e.from = p /\ e.dest = d /\ e.round = r /\ e.to = n[2]
    BY DEF RoundSentBeforeLeft
  <2>1. r \in Rounds /\ r < round[p]
    BY RoundsAssumption DEF Invs, TypeOK, RunnerTypeOK
  <2>2. Accounted(p, r, d, n[2])
    BY <2>1, RoundsAssumption DEF SentInv, NothingLost, Invs, TypeOK, RunnerTypeOK
  <2>3. [round |-> r, to |-> n[2]] \notin outbox[p]
    BY <2>1, RoundsAssumption DEF Invs, FeedInv, Stamped, TypeOK, RunnerTypeOK
  <2>4. \A m \in toSend[p] : m.round # r
    BY <2>1, RoundsAssumption DEF SentInv, Sends, Invs, TypeOK, RunnerTypeOK
  <2> QED BY <2>2, <2>3, <2>4 DEF Accounted
<1> QED BY <1>1, InvsInit, InvsStep, SentInit, SentStep, PTL DEF Spec
=============================================================================
