-------------------------- MODULE LockstepSession --------------------------
(***************************************************************************)
(* run_multi_party_sync: every party's SessionRunner driven in turn on one *)
(* thread over a shared InMemoryNetwork                                    *)
(* (tecdsa-session/src/sync_session.rs, tecdsa-transport/src/in_memory.rs).*)
(*                                                                         *)
(* The three phases of an iteration visit the parties one after the other; *)
(* no phase reads what it wrote for another party, so the order of the     *)
(* visits is left open.                                                    *)
(***************************************************************************)
EXTENDS SessionRunner

CONSTANT MaxIterations    \* the max_rounds argument: cap on the outer loop

VARIABLES
    mail,       \* InMemoryNetwork::mailboxes: envelopes sent and not received
    iteration,  \* _round of the outer loop
    phase,      \* the phase the loop is in
    todo,       \* parties this phase has not finished with
    decoding    \* the party whose step_decode is at work, if any

vars == <<round, got, outbox, seen, buffer, draining, result, mail, iteration, phase, todo, decoding>>

Phases == {"encode", "decode", "finish", "over"}

\* The values the loop of run_multi_party_sync and the mailboxes can hold.
TypeOK ==
    /\ RunnerTypeOK
    /\ mail      \in SUBSET Envelopes
    /\ iteration \in 0..MaxIterations
    /\ phase     \in Phases
    /\ todo      \in SUBSET Parties
    /\ decoding  \in SUBSET Parties

Init ==
    /\ RunnerInit
    /\ mail      = {}
    /\ iteration = 0
    /\ phase     = "encode"
    /\ todo      = Parties
    /\ decoding  = {}

-----------------------------------------------------------------------------
Visit(p, ph) == phase = ph /\ p \in todo /\ decoding = {}
Leave(p) == todo' = todo \ {p}

\* step_encode, and every message into the mailboxes of its recipients.
Posted(p) == UNION {{Envelope(p, m, d, 0) : d \in Recipients(p, m)} : m \in Encoded(p)}
EncodeAndPost(p) == Drained(p) /\ mail' = mail \cup Posted(p)

Encode(p) ==
    /\ iteration < MaxIterations
    /\ Visit(p, "encode")
    /\ EncodeAndPost(p)
    /\ Leave(p)
    /\ UNCHANGED <<round, got, seen, buffer, draining, result, iteration, phase, decoding>>

MailFor(p) == {e \in mail : e.dest = p}

\* A runner that is done already is finished without receiving.
Decode(p) ==
    /\ Visit(p, "decode")
    /\ \/ /\ IsDone(p)
          /\ Stop(p, "done")
          /\ Leave(p)
          /\ UNCHANGED decoding
       \/ /\ ~IsDone(p)
          /\ decoding' = {p}
          /\ UNCHANGED <<todo, result>>
    /\ UNCHANGED <<round, got, outbox, seen, buffer, draining, mail, iteration, phase>>

DecodeMessage(p, e) ==
    /\ Running(p)
    /\ p \in decoding
    /\ e \in MailFor(p)
    /\ mail' = mail \ {e}
    /\ DecodeOne(p, e)
    /\ UNCHANGED <<iteration, phase, todo, decoding>>

\* step_decode returned: with an error what was left of the batch is gone.  Its
\* loop over future_buffer has no action here: an iteration leaves nothing in the
\* buffer for the round it ends in, and were there something nothing could go on.
EndDecode(p) ==
    /\ p \in decoding
    /\ Running(p) => MailFor(p) = {} /\ \A e \in buffer[p] : e.tag # round[p]
    /\ mail' = mail \ MailFor(p)
    /\ decoding' = {}
    /\ Leave(p)
    /\ UNCHANGED <<round, got, outbox, seen, buffer, draining, result, iteration, phase>>

\* Mutant of Finish: newly done runners are left to the next iteration.
Finish_Later(p) ==
    /\ Visit(p, "finish")
    /\ Leave(p)
    /\ UNCHANGED <<round, got, outbox, seen, buffer, draining, result, mail, iteration,
                   phase, decoding>>

\* Newly done runners send what their machine still holds and return.
Finish(p) ==
    /\ Visit(p, "finish")
    /\ \/ /\ IsDone(p)
          /\ EncodeAndPost(p)
          /\ Stop(p, "done")
       \/ /\ ~IsDone(p)
          /\ UNCHANGED <<outbox, mail, result>>
    /\ Leave(p)
    /\ UNCHANGED <<round, got, seen, buffer, draining, iteration, phase, decoding>>

-----------------------------------------------------------------------------
Unfinished == {p \in Parties : Running(p)}

NextPhase ==
    /\ todo = {}
    /\ todo' = Unfinished
    /\ \/ /\ phase = "encode"
          /\ iteration < MaxIterations
          /\ Unfinished # {}
          /\ phase' = "decode"
          /\ UNCHANGED iteration
       \/ /\ phase = "decode"
          /\ phase' = "finish"
          /\ UNCHANGED iteration
       \/ /\ phase = "finish"
          /\ phase' = "encode"
          /\ iteration' = iteration + 1
    /\ UNCHANGED <<round, got, outbox, seen, buffer, draining, result, mail, decoding>>

\* The loop is left when every result is set or the iterations are used up.
LeaveLoop ==
    /\ phase = "encode"
    /\ Unfinished = {} \/ iteration = MaxIterations
    /\ phase' = "over"
    /\ result' = [p \in Parties |-> IF Running(p) THEN "MaxRounds" ELSE result[p]]
    /\ UNCHANGED <<round, got, outbox, seen, buffer, draining, mail, iteration, todo, decoding>>

Returned == phase = "over" /\ UNCHANGED vars

PartyNext(p) == \/ Encode(p)
                \/ Decode(p)
                \/ \E e \in mail : DecodeMessage(p, e)
                \/ EndDecode(p)
                \/ Finish(p)

Next == \/ \E p \in Parties : PartyNext(p)
        \/ NextPhase
        \/ LeaveLoop
        \/ Returned

Spec == Init /\ [][Next]_vars

-----------------------------------------------------------------------------
NobodyFailed == \A p \in Parties : result[p] \in {"running", "done"}

\* While nobody failed, iteration k begins with every party in the k-th round,
\* every message delivered and none buffered: the parties never drift apart,
\* whatever kinds of messages the protocol's rounds have.
InStep ==
    phase = "encode" /\ todo = Unfinished /\ NobodyFailed =>
        /\ mail = {}
        /\ \A p \in Parties : /\ buffer[p] = {}
                              /\ round[p] = FirstRound + iteration

\* As many iterations as the protocol has rounds are enough for every party to
\* return its output, unless a verification failed ("hard cap on outer loop
\* iterations (fail-safe)").
CapIsEnough ==
    /\ phase = "over"
    /\ MaxIterations >= LastRound - FirstRound + 1
    /\ \E p \in Parties : result[p] # "done"
    => \E p \in Parties : result[p] = "Aborted"
=============================================================================
