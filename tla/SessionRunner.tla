--------------------------- MODULE SessionRunner ---------------------------
(***************************************************************************)
(* One party of a protocol run: its round-based StateMachine and the       *)
(* SessionRunner that feeds it (tecdsa-session/src/runner.rs).             *)
(*                                                                         *)
(* The machine is the round pattern the protocol crates share, read here   *)
(* from DKLs23's presign machine: a round has a fixed set of expected      *)
(* messages, a message of another round or a second message of the same    *)
(* sender is an error, and the last expected message advances the machine  *)
(* to the next round, which at once produces that round's messages.        *)
(* Payloads are abstracted to the round they were produced in: whether a   *)
(* payload verifies is the choice of MayAbort.                             *)
(*                                                                         *)
(* This module has no Next of its own. AsyncSession and LockstepSession    *)
(* extend it with the loop that drives the runner and with a transport.    *)
(* The lemmas at its end are for the proofs about either of them.          *)
(***************************************************************************)
EXTENDS Integers, FiniteSets, TLAPS

CONSTANTS
    Parties,          \* the PartyIds of the session
    Everyone,         \* Recipient::Broadcast, 0xFFFF in a header
    FirstRound,       \* round a fresh machine reports (1; 4 for DKLs23 online sign)
    LastRound,        \* last round with messages; the machine is done after it
    BroadcastRounds,  \* rounds in which every party broadcasts
    P2pRounds,        \* rounds in which every party sends to each peer
    Accumulates,      \* TRUE: one outbox for all rounds; FALSE: an outbox per round state
    MayAbort          \* TRUE: advancing may fail on a payload that does not verify

ASSUME PartiesAssumption  == IsFiniteSet(Parties) /\ Everyone \notin Parties
ASSUME RoundsAssumption   == /\ FirstRound \in Nat
                             /\ LastRound \in Nat
                             /\ FirstRound <= LastRound
ASSUME KindsAssumption    == BroadcastRounds \cup P2pRounds = FirstRound..LastRound
ASSUME ModesAssumption    == Accumulates \in BOOLEAN /\ MayAbort \in BOOLEAN

VARIABLES
    round,    \* round[p]: StateMachine::current_round
    got,      \* got[p]: the <<from, to>> received in the current round
    outbox,   \* outbox[p]: messages produced and not drained yet
    seen,     \* seen[p]: SessionRunner::seen, the <<from, header round, to>> accepted
    buffer,   \* buffer[p]: SessionRunner::future_buffer
    draining, \* draining[p]: the round whose buffered messages step_decode took last
    result    \* result[p]: "running", or how the session of p ended

runnerVars == <<round, got, outbox, seen, buffer, draining, result>>

-----------------------------------------------------------------------------
Rounds == FirstRound..LastRound
Done   == LastRound + 1

Others(p) == Parties \ {p}

\* The addressees of what a party pushes in round r, one per Outgoing.
Addressees(p, r) == (IF r \in BroadcastRounds THEN {Everyone} ELSE {})
                    \cup (IF r \in P2pRounds THEN Others(p) ELSE {})

\* The messages a machine pushes when it enters round r; none once it is done.
Produced(p, r) == [round : {r}, to : Addressees(p, r)]

\* The messages round r waits for: every kind of the round from every peer.
Needed(p, r) == Others(p) \X ((IF r \in BroadcastRounds THEN {Everyone} ELSE {})
                              \cup (IF r \in P2pRounds THEN {p} ELSE {}))

\* How a session can end: Ok(output), or the SessionError it returns.  The two
\* Protocol errors are told apart: "Rejected" is a message the machine refuses
\* (wrong round, second of its sender, already finished), "Aborted" a failed
\* verification on advancing.  "Crashed" is the process, not a result.
Errors == {"Rejected", "Aborted", "Duplicate", "InvalidHeader", "Transport",
           "Timeout", "MaxRounds", "Crashed"}

Outbox    == [round : Rounds, to : Parties \cup {Everyone}]
Envelopes == [from : Parties, dest : Parties, to : Parties \cup {Everyone},
              tag : FirstRound..Done, round : Rounds, copy : Nat]

Running(p) == result[p] = "running"
IsDone(p)  == round[p] = Done

\* The values the runner and its machine can hold: a round never runs past Done
\* and what is buffered is an envelope as it was sent.
RunnerTypeOK ==
    /\ round  \in [Parties -> FirstRound..Done]
    /\ got    \in [Parties -> SUBSET (Parties \X (Parties \cup {Everyone}))]
    /\ outbox \in [Parties -> SUBSET Outbox]
    /\ seen   \in [Parties -> SUBSET (Parties \X (FirstRound..Done)
                                              \X (Parties \cup {Everyone}))]
    /\ buffer \in [Parties -> SUBSET Envelopes]
    /\ draining \in [Parties -> FirstRound..Done]
    /\ result \in [Parties -> {"running", "done"} \cup Errors]

-----------------------------------------------------------------------------
\* Machines are constructed with the first round's messages in their outbox.
RunnerInit ==
    /\ round  = [p \in Parties |-> FirstRound]
    /\ got    = [p \in Parties |-> {}]
    /\ outbox = [p \in Parties |-> Produced(p, FirstRound)]
    /\ seen   = [p \in Parties |-> {}]
    /\ buffer = [p \in Parties |-> {}]
    /\ draining = [p \in Parties |-> FirstRound]
    /\ result = [p \in Parties |-> "running"]

\* The session of p returns r; nothing of p is read again.
Stop(p, r) == result' = [result EXCEPT ![p] = r]

\* The round state that is left is dropped together with its own outbox.
KeptOnAdvance(p) == IF Accumulates THEN outbox[p] ELSE {}

\* Mutant of Advance: a state is skipped.
Advance_Skips(p) ==
    /\ round'  = [round EXCEPT ![p] = round[p] + 2]
    /\ got'    = [got EXCEPT ![p] = {}]
    /\ outbox' = [outbox EXCEPT ![p] = KeptOnAdvance(p) \cup Produced(p, round[p] + 2)]

Advance(p) ==
    /\ round'  = [round EXCEPT ![p] = round[p] + 1]
    /\ got'    = [got EXCEPT ![p] = {}]
    /\ outbox' = [outbox EXCEPT ![p] = KeptOnAdvance(p) \cup Produced(p, round[p] + 1)]

\* A machine takes a message only in its own round and once per sender and kind.
Accepts(p, e) == /\ e.round = round[p]
                 /\ <<e.from, e.to>> \in Needed(p, round[p]) \ got[p]

\* Mutant of Completes: expected_count is one peer short.
Completes_OneShort(p, e) ==
    \A to \in {n[2] : n \in Needed(p, round[p])} :
        Cardinality({n \in got[p] \cup {<<e.from, e.to>>} : n[2] = to})
            >= Cardinality(Parties) - 2

\* is_ready after e: nothing else of this round is missing.
Completes(p, e) == Needed(p, round[p]) = got[p] \cup {<<e.from, e.to>>}

\* StateMachine::handle.
Handle(p, e) ==
    \/ /\ Accepts(p, e)
       /\ ~Completes(p, e)
       /\ got' = [got EXCEPT ![p] = @ \cup {<<e.from, e.to>>}]
       /\ UNCHANGED <<round, outbox, result>>
    \/ /\ Accepts(p, e)
       /\ Completes(p, e)
       /\ Advance(p)
       /\ UNCHANGED result
    \/ /\ MayAbort
       /\ Accepts(p, e)
       /\ Completes(p, e)
       /\ Stop(p, "Aborted")
       /\ UNCHANGED <<round, got, outbox>>
    \/ /\ ~Accepts(p, e)
       /\ Stop(p, "Rejected")
       /\ UNCHANGED <<round, got, outbox>>

-----------------------------------------------------------------------------
\* step_encode stamps what it drains with the round the machine is in now.
Encoded(p) == {[tag |-> round[p], round |-> m.round, to |-> m.to] : m \in outbox[p]}

\* Mutant of Drained: the messages are read and stay in the outbox.
Drained_Kept(p) == UNCHANGED outbox

Drained(p) == outbox' = [outbox EXCEPT ![p] = {}]

\* Mutant of Recipients: a broadcast stops after its first recipient.
Recipients_First(p, m) == IF m.to = Everyone THEN {CHOOSE d \in Others(p) : TRUE} ELSE {m.to}

\* The mailboxes a transport call puts an encoded message in.
Recipients(p, m) == IF m.to = Everyone THEN Others(p) ELSE {m.to}

Envelope(p, m, d, copy) ==
    [from |-> p, dest |-> d, to |-> m.to, tag |-> m.tag, round |-> m.round, copy |-> copy]

\* With two parties a point-to-point message of a later round is not buffered.
TwoPartyP2p(e) == Cardinality(Parties) = 2 /\ e.to # Everyone

\* Mutant of ForMachine: the exemption is not limited to two parties.
ForMachine_AnyEarly(p, e) == e.tag >= round[p]

ForMachine(p, e) == e.tag = round[p] \/ (TwoPartyP2p(e) /\ e.tag > round[p])

\* Mutant of Key: the triple without the recipient.
Key_NoTo(e) == <<e.from, e.tag, Everyone>>

Key(e) == <<e.from, e.tag, e.to>>

\* What goes to future_buffer: a message of a past round is dropped instead.
Early(p, e) == IF e.tag > round[p] THEN {e} ELSE {}

\* One turn of step_decode's loop over the received batch.
DecodeOne(p, e) ==
    \/ /\ Key(e) \in seen[p]
       /\ Stop(p, "Duplicate")
       /\ UNCHANGED <<round, got, outbox, seen, buffer, draining>>
    \/ /\ Key(e) \notin seen[p]
       /\ seen' = [seen EXCEPT ![p] = @ \cup {Key(e)}]
       /\ UNCHANGED draining
       /\ \/ /\ ForMachine(p, e)
             /\ Handle(p, e)
             /\ UNCHANGED buffer
          \/ /\ ~ForMachine(p, e)
             /\ buffer' = [buffer EXCEPT ![p] = @ \cup Early(p, e)]
             /\ UNCHANGED <<round, got, outbox, result>>

\* An envelope of another session or protocol, or one that does not decode.
DecodeInvalid(p) == /\ Stop(p, "InvalidHeader")
                    /\ UNCHANGED <<round, got, outbox, seen, buffer, draining>>

\* Mutant of TakeBuffer: the current round is not read again after the batch.
TakeBuffer_Stale(p) == UNCHANGED <<round, got, outbox, seen, buffer, draining, result>>

\* Mutant of TakeBuffer: one round further than the machine is.
TakeBuffer_Next(p) == /\ draining' = [draining EXCEPT ![p] = round[p] + 1]
                      /\ UNCHANGED <<round, got, outbox, seen, buffer, result>>

\* After the batch, step_decode takes what future_buffer holds for the round
\* the batch left the machine in ...
TakeBuffer(p) == /\ draining' = [draining EXCEPT ![p] = round[p]]
                 /\ UNCHANGED <<round, got, outbox, seen, buffer, result>>

\* ... and handles it, even when that moves the machine on.
Taken(p) == {e \in buffer[p] : e.tag = draining[p]}

DrainOne(p, e) == /\ e \in Taken(p)
                  /\ buffer' = [buffer EXCEPT ![p] = @ \ {e}]
                  /\ Handle(p, e)
                  /\ UNCHANGED <<seen, draining>>

-----------------------------------------------------------------------------
\* The machine of an honest party never refuses a message the runner feeds it:
\* copies, late and early messages are filtered by `seen` and future_buffer and
\* never reach it (runner.rs step_decode, "Messages for future rounds are
\* buffered; stale messages are discarded").
NoRejection == \A p \in Parties : result[p] # "Rejected"

\* A party that returned Ok accepted every message of every round of every
\* peer: no output is computed with a message missing, whatever failed.
DoneHeardEveryone ==
    \A p \in Parties : result[p] = "done" =>
        \A r \in Rounds : \A n \in Needed(p, r) : <<n[1], r, n[2]>> \in seen[p]

\* A party leaves a round only when every party has reached it.
Barrier == INSTANCE RoundBarrier
RefinesBarrier == Barrier!Spec

-----------------------------------------------------------------------------
(* Facts about the runner and the machine it drives, for whichever driver    *)
(* calls it: the proofs about both drivers rest on them.                      *)

USE DEF Rounds, Done, Others

\* What a round produces fits an outbox.
LEMMA ProducedType ==
    ASSUME NEW p \in Parties, NEW r \in FirstRound..(Done + 1)
    PROVE  r \in Rounds => Produced(p, r) \in SUBSET Outbox
  BY DEF Produced, Addressees, Outbox

\* A done machine produces nothing.
LEMMA DoneProducesNothing ==
    ASSUME NEW p \in Parties
    PROVE  Produced(p, Done) = {}
<1>1. Done \notin BroadcastRounds \cup P2pRounds
  BY KindsAssumption, RoundsAssumption
<1>2. Addressees(p, Done) = {}
  BY <1>1 DEF Addressees
<1> QED BY <1>2 DEF Produced

\* A message the machine takes belongs to a round, so it is not done.
LEMMA AcceptsInRounds ==
    ASSUME NEW p \in Parties, NEW e \in Envelopes, Accepts(p, e)
    PROVE  round[p] \in Rounds
  BY DEF Accepts, Envelopes

LEMMA HandleType ==
    ASSUME RunnerTypeOK, NEW p \in Parties, NEW e \in Envelopes, Handle(p, e)
    PROVE  /\ round'  \in [Parties -> FirstRound..Done]
           /\ got'    \in [Parties -> SUBSET (Parties \X (Parties \cup {Everyone}))]
           /\ outbox' \in [Parties -> SUBSET Outbox]
           /\ result' \in [Parties -> {"running", "done"} \cup Errors]
<1>1. CASE /\ Accepts(p, e)
           /\ got' = [got EXCEPT ![p] = @ \cup {<<e.from, e.to>>}]
           /\ UNCHANGED <<round, outbox, result>>
  BY <1>1 DEF RunnerTypeOK, Envelopes
<1>2. CASE Accepts(p, e) /\ Advance(p) /\ UNCHANGED result
  <2>1. round[p] \in Rounds
    BY <1>2, AcceptsInRounds
  <2>2. Produced(p, round[p] + 1) \in SUBSET Outbox
    BY <2>1, ProducedType, DoneProducesNothing, RoundsAssumption
  <2>3. KeptOnAdvance(p) \in SUBSET Outbox
    BY DEF KeptOnAdvance, RunnerTypeOK
  <2>4. round[p] + 1 \in FirstRound..Done
    BY <2>1, RoundsAssumption
  <2> QED BY <1>2, <2>2, <2>3, <2>4 DEF Advance, RunnerTypeOK
<1>3. CASE /\ \E r \in {"Aborted", "Rejected"} : Stop(p, r)
           /\ UNCHANGED <<round, got, outbox>>
  BY <1>3 DEF Stop, RunnerTypeOK, Errors
<1> QED BY <1>1, <1>2, <1>3 DEF Handle

LEMMA DecodeOneType ==
    ASSUME RunnerTypeOK, NEW p \in Parties, NEW e \in Envelopes, DecodeOne(p, e)
    PROVE  RunnerTypeOK'
<1>1. CASE /\ Stop(p, "Duplicate")
           /\ UNCHANGED <<round, got, outbox, seen, buffer, draining>>
  BY <1>1 DEF Stop, RunnerTypeOK, Errors
<1>2. CASE /\ seen' = [seen EXCEPT ![p] = @ \cup {Key(e)}]
           /\ UNCHANGED draining
           /\ \/ Handle(p, e) /\ UNCHANGED buffer
              \/ /\ buffer' = [buffer EXCEPT ![p] = @ \cup Early(p, e)]
                 /\ UNCHANGED <<round, got, outbox, result>>
  <2>1. Key(e) \in Parties \X (FirstRound..Done) \X (Parties \cup {Everyone})
    BY DEF Key, Envelopes
  <2>2. seen' \in [Parties -> SUBSET (Parties \X (FirstRound..Done)
                                               \X (Parties \cup {Everyone}))]
    BY <1>2, <2>1 DEF RunnerTypeOK
  <2>3. CASE Handle(p, e) /\ UNCHANGED buffer
    BY <1>2, <2>2, <2>3, HandleType DEF RunnerTypeOK
  <2>4. CASE /\ buffer' = [buffer EXCEPT ![p] = @ \cup Early(p, e)]
             /\ UNCHANGED <<round, got, outbox, result>>
    BY <1>2, <2>2, <2>4 DEF RunnerTypeOK, Early
  <2> QED BY <1>2, <2>3, <2>4
<1> QED BY <1>1, <1>2 DEF DecodeOne

LEMMA DrainOneType ==
    ASSUME RunnerTypeOK, NEW p \in Parties, NEW e \in buffer[p], DrainOne(p, e)
    PROVE  RunnerTypeOK'
<1>1. e \in Envelopes
  BY DEF RunnerTypeOK
<1>2. buffer' \in [Parties -> SUBSET Envelopes]
  BY DEF DrainOne, RunnerTypeOK
<1> QED BY <1>1, <1>2, HandleType DEF DrainOne, RunnerTypeOK

\* Every round waits for something from every peer.
LEMMA NeededFromAll ==
    ASSUME NEW p \in Parties, NEW r \in Rounds, NEW q \in Others(p)
    PROVE  \E n \in Needed(p, r) : n[1] = q
<1>1. r \in BroadcastRounds \/ r \in P2pRounds
  BY KindsAssumption
<1>2. <<q, Everyone>> \in Needed(p, r) \/ <<q, p>> \in Needed(p, r)
  BY <1>1 DEF Needed
<1> QED BY <1>2

-----------------------------------------------------------------------------
\* What a machine got in its round came from peers that had reached it.
GotReached == \A p \in Parties : \A n \in got[p] : round[n[1]] >= round[p]

\* A call of handle either leaves the round, or passes the barrier.
LEMMA HandleBarrier ==
    ASSUME RunnerTypeOK, GotReached, NEW p \in Parties, NEW e \in Envelopes,
           e.round <= round[e.from], Handle(p, e)
    PROVE  UNCHANGED round \/ Barrier!Pass(p)
<1> SUFFICES ASSUME Accepts(p, e), Completes(p, e), Advance(p) PROVE Barrier!Pass(p)
  BY DEF Handle
<1>1. round[p] \in Rounds
  BY AcceptsInRounds
<1>2. \A q \in Others(p) : round[q] >= round[p]
  <2> SUFFICES ASSUME NEW q \in Others(p) PROVE round[q] >= round[p]
    OBVIOUS
  <2>1. PICK n \in Needed(p, round[p]) : n[1] = q
    BY <1>1, NeededFromAll
  <2>2. CASE n \in got[p]
    BY <2>1, <2>2 DEF GotReached
  <2>3. CASE n = <<e.from, e.to>>
    BY <2>1, <2>3 DEF Accepts
  <2> QED BY <2>2, <2>3 DEF Completes
<1>3. \A q \in Parties : round[q] \in Int
  BY RoundsAssumption DEF RunnerTypeOK
<1> QED BY <1>1, <1>2, <1>3 DEF Advance, Barrier!Pass, RunnerTypeOK

\* A call of handle keeps the part of the invariant about p.
LEMMA HandleReached ==
    ASSUME RunnerTypeOK, GotReached, NEW p \in Parties, NEW e \in Envelopes,
           \A m \in outbox[p] : m.round <= round[p],
           e.round <= round[e.from], Handle(p, e)
    PROVE  /\ \A q \in Parties : round'[q] \in Int /\ round[q] <= round'[q]
           /\ \A q \in Parties : q # p => outbox'[q] = outbox[q]
           /\ \A m \in outbox'[p] : m.round <= round'[p]
           /\ GotReached'
<1> USE RoundsAssumption DEF RunnerTypeOK
<1>1. CASE /\ Accepts(p, e)
           /\ got' = [got EXCEPT ![p] = @ \cup {<<e.from, e.to>>}]
           /\ UNCHANGED <<round, outbox, result>>
  <2>1. GotReached'
    BY <1>1 DEF GotReached, Accepts
  <2> QED BY <1>1, <2>1
<1>2. CASE Accepts(p, e) /\ Completes(p, e) /\ Advance(p)
  <2>1. \A m \in outbox'[p] : m.round <= round'[p]
    BY <1>2 DEF Advance, KeptOnAdvance, Produced, Outbox
  <2>2. GotReached'
    BY <1>2 DEF Advance, GotReached
  <2> QED BY <1>2, <2>1, <2>2 DEF Advance
<1>3. CASE UNCHANGED <<round, got, outbox>>
  BY <1>3 DEF GotReached
<1> QED BY <1>1, <1>2, <1>3 DEF Handle

\* One turn of step_decode on a message its sender had reached.
LEMMA DecodeOneReached ==
    ASSUME RunnerTypeOK, GotReached, NEW p \in Parties, NEW e \in Envelopes,
           \A m \in outbox[p] : m.round <= round[p],
           e.round <= round[e.from], DecodeOne(p, e)
    PROVE  /\ UNCHANGED round \/ Barrier!Pass(p)
           /\ \A q \in Parties : round'[q] \in Int /\ round[q] <= round'[q]
           /\ \A q \in Parties : q # p => outbox'[q] = outbox[q]
           /\ \A m \in outbox'[p] : m.round <= round'[p]
           /\ GotReached'
           /\ \A q \in Parties : buffer'[q] \subseteq buffer[q] \cup {e}
<1>1. CASE Handle(p, e) /\ UNCHANGED buffer
  BY <1>1, HandleReached, HandleBarrier
<1>2. CASE UNCHANGED <<round, got, outbox>>
  <2>1. \A q \in Parties : buffer'[q] \subseteq buffer[q] \cup {e}
    BY <1>2 DEF DecodeOne, Early, RunnerTypeOK, Handle
  <2> QED BY <1>2, <2>1, RoundsAssumption DEF GotReached, RunnerTypeOK
<1> QED BY <1>1, <1>2 DEF DecodeOne
=============================================================================
