---------------------------- MODULE AsyncSession ----------------------------
(***************************************************************************)
(* The parties of one protocol run, each driving its SessionRunner with    *)
(* AsyncSession::run over its own AsyncTransport                           *)
(* (tecdsa-session/src/async_session.rs, async_transport.rs).              *)
(*                                                                         *)
(* A step is a turn of one of the loops between two points where the code  *)
(* awaits or can return.  The batch a receive returns is never built: the  *)
(* decode loop takes its messages from the network one at a time until it  *)
(* chooses to stop.  Decoding sends nothing, so every such choice is the   *)
(* batch of some receive.                                                  *)
(***************************************************************************)
EXTENDS SessionRunner

CONSTANTS
    MaxRounds,             \* MaxRounds[p]: max_rounds in the config of p
    MaxRetries,            \* RetryPolicy::max_retries
    Ordered,               \* TRUE: the network keeps the order of a sender's rounds
    OneMessagePerReceive,  \* TRUE: a receive returns at most one message
    EmptyReceives,         \* TRUE: a receive may return Ok with no message
    MayTimeout,            \* TRUE: round_timeout may elapse before a message arrives
    MaxFailures,           \* bound: transport calls that fail
    MaxStrays,             \* bound: envelopes of another session that arrive
    MaxCrashes             \* bound: parties whose process dies

ASSUME ConfigAssumption == /\ MaxRounds \in [Parties -> Nat]
                           /\ MaxRetries \in Nat
ASSUME TransportAssumption == /\ Ordered \in BOOLEAN
                              /\ OneMessagePerReceive \in BOOLEAN
                              /\ EmptyReceives \in BOOLEAN
                              /\ MayTimeout \in BOOLEAN
ASSUME BoundsAssumption == /\ MaxFailures \in Nat
                           /\ MaxStrays \in Nat
                           /\ MaxCrashes \in Nat

VARIABLES
    pc,        \* pc[p]: where run() of p is
    toSend,    \* toSend[p]: the encoded messages still to hand to the transport
    net,       \* envelopes sent and not received
    failures, strays, crashes    \* counted against the bounds

sessionVars == <<pc, toSend, net, failures, strays, crashes>>
vars == <<round, got, outbox, seen, buffer, draining, result,
          pc, toSend, net, failures, strays, crashes>>

Labels == {"encode", "send", "receive", "decode", "drain"}

\* tries is the attempt counter of send_with_retry for the message being sent.
Encodings == [tag : FirstRound..Done, round : Rounds,
              to : Parties \cup {Everyone}, tries : 0..MaxRetries]

\* The values the loops of run() and the network between them can hold; the
\* attempt counter of send_with_retry stays within max_retries.
TypeOK ==
    /\ RunnerTypeOK
    /\ pc       \in [Parties -> Labels]
    /\ toSend   \in [Parties -> SUBSET Encodings]
    /\ net      \in SUBSET Envelopes
    /\ failures \in 0..MaxFailures
    /\ strays   \in 0..MaxStrays
    /\ crashes  \in 0..MaxCrashes

Init ==
    /\ RunnerInit
    /\ pc       = [p \in Parties |-> "encode"]
    /\ toSend   = [p \in Parties |-> {}]
    /\ net      = {}
    /\ failures = 0
    /\ strays   = 0
    /\ crashes  = 0

-----------------------------------------------------------------------------
At(p, label) == Running(p) /\ pc[p] = label
Goto(p, label) == pc' = [pc EXCEPT ![p] = label]

\* step_encode at the top of the loop.
Encode(p) ==
    /\ At(p, "encode")
    /\ toSend' = [toSend EXCEPT ![p] =
                    {[tag |-> m.tag, round |-> m.round, to |-> m.to, tries |-> 0] :
                        m \in Encoded(p)}]
    /\ Drained(p)
    /\ Goto(p, "send")
    /\ UNCHANGED <<round, got, seen, buffer, result, draining, net,
                   failures, strays, crashes>>

\* The message send_with_retry is at: one it already failed to send, or any.
Sending(p, m) == /\ m \in toSend[p]
                 /\ \A o \in toSend[p] : o.tries > 0 => o = m

Delivered(p, m, ds) == net' = net \cup {Envelope(p, m, d, m.tries) : d \in ds}

SendOk(p, m) ==
    /\ At(p, "send")
    /\ Sending(p, m)
    /\ Delivered(p, m, Recipients(p, m))
    /\ toSend' = [toSend EXCEPT ![p] = @ \ {m}]
    /\ UNCHANGED <<round, got, outbox, seen, buffer, result, pc, draining,
                   failures, strays, crashes>>

\* Mutant of SendFails: one attempt too many.
SendFails_OneMore(p, m) ==
    /\ At(p, "send")
    /\ Sending(p, m)
    /\ failures < MaxFailures
    /\ failures' = failures + 1
    /\ \E ds \in SUBSET Recipients(p, m) : Delivered(p, m, ds)
    /\ \/ /\ m.tries <= MaxRetries
          /\ toSend' = [toSend EXCEPT ![p] =
                          (@ \ {m}) \cup {[m EXCEPT !.tries = m.tries + 1]}]
          /\ UNCHANGED result
       \/ /\ m.tries > MaxRetries
          /\ Stop(p, "Transport")
          /\ UNCHANGED toSend
    /\ UNCHANGED <<round, got, outbox, seen, buffer, pc, draining, strays, crashes>>

\* The transport call errs, possibly after some recipients got the message.
SendFails(p, m) ==
    /\ At(p, "send")
    /\ Sending(p, m)
    /\ failures < MaxFailures
    /\ failures' = failures + 1
    /\ \E ds \in SUBSET Recipients(p, m) : Delivered(p, m, ds)
    /\ \/ /\ m.tries < MaxRetries
          /\ toSend' = [toSend EXCEPT ![p] =
                          (@ \ {m}) \cup {[m EXCEPT !.tries = m.tries + 1]}]
          /\ UNCHANGED result
       \/ /\ m.tries = MaxRetries
          /\ Stop(p, "Transport")
          /\ UNCHANGED toSend
    /\ UNCHANGED <<round, got, outbox, seen, buffer, pc, draining, strays, crashes>>

\* Everything is sent: the two returns of the loop, or on to receive.
AfterSend(p) ==
    /\ At(p, "send")
    /\ toSend[p] = {}
    /\ \/ /\ IsDone(p)
          /\ Stop(p, "done")
          /\ UNCHANGED pc
       \/ /\ ~IsDone(p)
          /\ round[p] >= MaxRounds[p]
          /\ Stop(p, "MaxRounds")
          /\ UNCHANGED pc
       \/ /\ ~IsDone(p)
          /\ round[p] < MaxRounds[p]
          /\ Goto(p, "receive")
          /\ UNCHANGED result
    /\ UNCHANGED <<round, got, outbox, seen, buffer, toSend, draining, net,
                   failures, strays, crashes>>

-----------------------------------------------------------------------------
Receiving(p) == \/ At(p, "receive")
                \/ ~OneMessagePerReceive /\ At(p, "decode")

\* What the transport may hand over next: anything in flight, or, when it
\* keeps a sender's order, nothing sent in a later round than another.
Deliverable(p, e) ==
    /\ e \in net
    /\ e.dest = p
    /\ Ordered => \A o \in net : o.dest = p /\ o.from = e.from => e.tag <= o.tag

Receive(p, e) ==
    /\ Receiving(p)
    /\ Deliverable(p, e)
    /\ net' = net \ {e}
    /\ DecodeOne(p, e)
    /\ Goto(p, "decode")
    /\ UNCHANGED <<toSend, failures, strays, crashes>>

ReceiveStray(p) ==
    /\ Receiving(p)
    /\ strays < MaxStrays
    /\ strays' = strays + 1
    /\ DecodeInvalid(p)
    /\ UNCHANGED <<pc, toSend, net, failures, crashes>>

\* step_decode leaves its first loop.
StartDrain(p) == /\ TakeBuffer(p)
                 /\ Goto(p, "drain")
                 /\ UNCHANGED <<toSend, net, failures, strays, crashes>>

EndBatch(p) == At(p, "decode") /\ StartDrain(p)

\* The transport's own timeout expired "with whatever has arrived": nothing.
ReceiveNothing(p) == EmptyReceives /\ At(p, "receive") /\ StartDrain(p)

Drain(p, e) ==
    /\ At(p, "drain")
    /\ DrainOne(p, e)
    /\ UNCHANGED sessionVars

EndDrain(p) ==
    /\ At(p, "drain")
    /\ Taken(p) = {}
    /\ Goto(p, "encode")
    /\ UNCHANGED <<round, got, outbox, seen, buffer, draining, result, toSend, net,
                   failures, strays, crashes>>

\* Mutant of RoundTimeout: the timer is armed for the first round only.
RoundTimeout_FirstRound(p) ==
    /\ MayTimeout
    /\ At(p, "receive")
    /\ round[p] = FirstRound
    /\ Stop(p, "Timeout")
    /\ UNCHANGED <<round, got, outbox, seen, buffer, pc, toSend, draining, net,
                   failures, strays, crashes>>

RoundTimeout(p) ==
    /\ MayTimeout
    /\ At(p, "receive")
    /\ Stop(p, "Timeout")
    /\ UNCHANGED <<round, got, outbox, seen, buffer, pc, toSend, draining, net,
                   failures, strays, crashes>>

ReceiveFails(p) ==
    /\ At(p, "receive")
    /\ failures < MaxFailures
    /\ failures' = failures + 1
    /\ Stop(p, "Transport")
    /\ UNCHANGED <<round, got, outbox, seen, buffer, pc, toSend, draining, net,
                   strays, crashes>>

\* The process of p dies; no checkpoint is taken, so it never comes back.
Crash(p) ==
    /\ Running(p)
    /\ crashes < MaxCrashes
    /\ crashes' = crashes + 1
    /\ Stop(p, "Crashed")
    /\ UNCHANGED <<round, got, outbox, seen, buffer, pc, toSend, draining, net,
                   failures, strays>>

-----------------------------------------------------------------------------
\* What p does without the network or the clock.
Local(p) == \/ Encode(p)
            \/ \E m \in toSend[p] : SendOk(p, m) \/ SendFails(p, m)
            \/ AfterSend(p)
            \/ EndBatch(p)
            \/ \E e \in buffer[p] : Drain(p, e)
            \/ EndDrain(p)

Arrival(p) == \E e \in net : Receive(p, e)

PartyNext(p) == \/ Local(p)
                \/ Arrival(p)
                \/ ReceiveStray(p)
                \/ ReceiveNothing(p)
                \/ RoundTimeout(p)
                \/ ReceiveFails(p)
                \/ Crash(p)

AllReturned == \A p \in Parties : ~Running(p)

\* Every session has returned: the run is over.
Finished == AllReturned /\ UNCHANGED vars

Next == (\E p \in Parties : PartyNext(p)) \/ Finished

Spec == Init /\ [][Next]_vars

\* The executor polls every session; what is in flight to a party that keeps
\* receiving is handed over in the end; round_timeout elapses while a party
\* stays in one receive.
Fairness == \A p \in Parties : /\ WF_vars(Local(p))
                               /\ SF_vars(Arrival(p))
                               /\ WF_vars(RoundTimeout(p))

FairSpec == Spec /\ Fairness

-----------------------------------------------------------------------------
\* While a party waits for the network nothing it could use already is left in
\* future_buffer (runner.rs drains the buffer of the round it advanced to).
NothingStranded ==
    \A p \in Parties : At(p, "receive") => \A e \in buffer[p] : e.tag > round[p]

\* What a party produced on entering a round has been handed to the transport
\* before the party leaves that round: each such message is in flight, or was
\* accepted by its addressee, or its session is over.
RoundSentBeforeLeft ==
    \A p \in Parties : \A r \in FirstRound..(round[p] - 1) : \A d \in Others(p) :
        \A n \in Needed(d, r) :
            n[1] = p /\ Running(d) =>
                \/ <<p, r, n[2]>> \in seen[d]
                \/ \E e \in net : e.from = p /\ e.dest = d /\ e.round = r /\ e.to = n[2]

\* A first copy that is in flight to a live session is never of a round that
\* session has left: step_decode's silent discard loses nothing.
NothingDiscarded ==
    \A e \in net : Running(e.dest) /\ Key(e) \notin seen[e.dest] => e.tag >= round[e.dest]

\* A session is ended by DuplicateMessage only when some transport call failed
\* and was retried: two different messages of a peer never look the same
\* (runner.rs, "Tracks (from, round, to) triples to detect duplicate wire messages").
DuplicatesAreReal == failures = 0 => \A p \in Parties : result[p] # "Duplicate"

\* A failed transport call that is then retried with success costs nobody the
\* session (async_session.rs, "Transport failures are retried").  No run checks it:
\* a call that failed after it had delivered is repeated, and the receiver's
\* session ends with DuplicateMessage (README, section 5).
RetryIsHarmless == \A p \in Parties : result[p] # "Duplicate"

\* Every session returns, with its output or an error, whatever failed.
EverySessionReturns == <>AllReturned

\* Every session returns its output.
EveryoneCompletes == <>(\A p \in Parties : result[p] = "done")
=============================================================================
