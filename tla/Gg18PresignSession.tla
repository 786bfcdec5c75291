------------------------- MODULE Gg18PresignSession -------------------------
(* The presign machine of tecdsa-gg18 under a SessionRunner.  Unlike the     *)
(* machines SessionRunner models, it answers inside a round: handle_p2p of   *)
(* round 1 pushes the Round2 reply to the sender at once, and current_round  *)
(* stays 1 until the last message of round 1 is in.                          *)
(*                                                                           *)
(* Lockstep is run_multi_party_sync, where everyone posts and then everyone  *)
(* decodes its whole mailbox; otherwise each party is driven by its own      *)
(* AsyncSession over a transport that returns one message at a time.         *)
EXTENDS Integers, FiniteSets

CONSTANTS Parties, Everyone, Lockstep

VARIABLES round, got, outbox, seen, buffer, draining, result, mailbox, turn

vars == <<round, got, outbox, seen, buffer, draining, result, mailbox, turn>>

Others(p) == Parties \ {p}

Done == 4

\* Gg18SignMsg, with the addressee; a round waits for its kinds of every peer.
KindsOf(r) == IF r = 1 THEN {"Round1Broadcast", "Round1P2p"}
              ELSE IF r = 2 THEN {"Round2"}
              ELSE IF r = 3 THEN {"Round3"} ELSE {}
Kinds == UNION {KindsOf(r) : r \in 1 .. 3}
Message(kind, to) == [kind |-> kind, to |-> to]

\* Round1State::new
Init ==
    /\ round = [p \in Parties |-> 1]
    /\ got = [p \in Parties |-> {}]
    /\ outbox = [p \in Parties |-> {Message("Round1Broadcast", Everyone)}
                                   \cup {Message("Round1P2p", d) : d \in Others(p)}]
    /\ seen = [p \in Parties |-> {}]
    /\ buffer = [p \in Parties |-> {}]
    /\ draining = [p \in Parties |-> 1]
    /\ result = [p \in Parties |-> "running"]
    /\ mailbox = [p \in Parties |-> {}]
    /\ turn = "encode"

Stop(p, why) == result' = [result EXCEPT ![p] = why]

\* Round1State::handle_p2p replies at once; nothing else is answered in place.
Reply(e) == IF e.kind = "Round1P2p" THEN {Message("Round2", e.from)} ELSE {}

\* Mutant of Entered: round 2 starts with an outbox of its own.
Entered_Fresh(p, r, pending) == IF r = 3 THEN {Message("Round3", Everyone)} ELSE {}

\* What the next round pushes: round 2 keeps the outbox with the replies.
Entered(p, r, pending) ==
    IF r = 2 THEN pending
    ELSE IF r = 3 THEN {Message("Round3", Everyone)} ELSE {}

\* Gg18PresignMachine::handle
Handle(p, e) ==
    LET now == got[p] \cup {<<e.from, e.kind>>}
        pending == outbox[p] \cup Reply(e)
        ready == now = Others(p) \X KindsOf(round[p])
    IN \/ /\ e.kind \in KindsOf(round[p]) /\ <<e.from, e.kind>> \notin got[p]
          /\ got' = [got EXCEPT ![p] = IF ready THEN {} ELSE now]
          /\ round' = [round EXCEPT ![p] = IF ready THEN @ + 1 ELSE @]
          /\ outbox' = [outbox EXCEPT ![p] =
                          IF ready THEN Entered(p, round[p] + 1, pending) ELSE pending]
          /\ UNCHANGED result
       \/ /\ e.kind \notin KindsOf(round[p]) \/ <<e.from, e.kind>> \in got[p]
          /\ Stop(p, "RoundMismatch")
          /\ UNCHANGED <<got, round, outbox>>

\* SessionRunner::step_encode: the header carries the round of the machine.
Encode(p) ==
    /\ result[p] = "running" /\ turn = "encode" /\ outbox[p] # {}
    /\ {b \in buffer[p] : b.tag = draining[p]} = {}
    /\ mailbox' = [d \in Parties |-> mailbox[d] \cup
                  {[from |-> p, tag |-> round[p], to |-> m.to, kind |-> m.kind] :
                     m \in {o \in outbox[p] : d # p /\ o.to \in {d, Everyone}}}]
    /\ outbox' = [outbox EXCEPT ![p] = {}]
    /\ UNCHANGED <<round, got, seen, buffer, draining, result, turn>>

\* The triple SessionRunner::seen holds.
Key(e) == <<e.from, e.tag, e.to>>

\* SessionRunner::step_decode, one message of the batch.
Decode(p, e) ==
    /\ result[p] = "running" /\ e \in mailbox[p]
    /\ IF Lockstep THEN turn = "decode" ELSE outbox[p] = {}
    /\ {b \in buffer[p] : b.tag = draining[p]} = {}
    /\ mailbox' = [mailbox EXCEPT ![p] = @ \ {e}]
    /\ IF Key(e) \in seen[p]
       THEN Stop(p, "DuplicateMessage") /\ UNCHANGED <<round, got, outbox, seen, buffer, draining>>
       ELSE /\ seen' = [seen EXCEPT ![p] = @ \cup {Key(e)}]
            /\ \/ e.tag = round[p] /\ Handle(p, e) /\ UNCHANGED buffer
               \/ /\ e.tag # round[p]
                  /\ buffer' = [buffer EXCEPT ![p] = IF e.tag > round[p] THEN @ \cup {e} ELSE @]
                  /\ UNCHANGED <<round, got, outbox, result>>
            /\ draining' = [draining EXCEPT ![p] =
                              IF Lockstep /\ mailbox[p] # {e} THEN @ ELSE round'[p]]
    /\ UNCHANGED turn

\* ... and one message of the round step_decode takes from future_buffer.
Drain(p, e) ==
    /\ result[p] = "running" /\ e \in buffer[p] /\ e.tag = draining[p]
    /\ buffer' = [buffer EXCEPT ![p] = @ \ {e}]
    /\ Handle(p, e)
    /\ UNCHANGED <<seen, draining, mailbox, turn>>

\* A machine that is done is finished by its session.
Finish(p) ==
    /\ result[p] = "running" /\ round[p] = Done /\ outbox[p] = {}
    /\ Stop(p, "done")
    /\ UNCHANGED <<round, got, outbox, seen, buffer, draining, mailbox, turn>>

\* run_multi_party_sync: a phase is over when every party had its turn.
NextPhase ==
    /\ Lockstep
    /\ \/ /\ turn = "encode" /\ turn' = "decode"
          /\ \A p \in Parties : result[p] = "running" => outbox[p] = {}
          /\ \E p \in Parties : mailbox[p] # {}
       \/ /\ turn = "decode" /\ turn' = "encode"
          /\ \A p \in Parties : result[p] = "running" => mailbox[p] = {}
    /\ UNCHANGED <<round, got, outbox, seen, buffer, draining, result, mailbox>>

PartyNext(p) == \/ Encode(p) \/ Finish(p)
                \/ \E e \in mailbox[p] : Decode(p, e)
                \/ \E e \in buffer[p] : Drain(p, e)

Next == NextPhase \/ \E p \in Parties : PartyNext(p)

Spec == Init /\ [][Next]_vars /\ WF_vars(NextPhase)
             /\ \A p \in Parties : WF_vars(PartyNext(p))

-----------------------------------------------------------------------------
\* Types only.
TypeOK ==
    /\ round \in [Parties -> 1 .. Done]
    /\ got \in [Parties -> SUBSET (Parties \X Kinds)]
    /\ result \in [Parties -> {"running", "done", "RoundMismatch", "DuplicateMessage"}]
    /\ turn \in {"encode", "decode"}

\* The runner reports a duplicate only when one arrived: the transport copies
\* nothing here, so it never does (runner.rs:119, "duplicate detection").
DuplicatesAreReal == \A p \in Parties : result[p] # "DuplicateMessage"

\* Every machine is done in the end: no reply is lost between two outboxes and
\* none is stamped with a round its peer has left.
EveryoneCompletes == <>(\A p \in Parties : result[p] = "done")
=============================================================================
