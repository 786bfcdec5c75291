------------------------------ MODULE MCDrivers ------------------------------
(* The ways in which the repository drives SessionRunners, each in a setting *)
(* of its own: run_multi_party_sync with the rounds of DKLs23's presign      *)
(* (LockstepSession) and with GG18's presign machine, and AsyncSession over  *)
(* a transport that returns one message at a time and, for two parties, with *)
(* everything that can go wrong at once.                                     *)
EXTENDS Integers, FiniteSets

CONSTANTS Parties, Everyone,
          Pair          \* the two parties of the last setting

VARIABLES
    setting,                                        \* what is run
    round, got, outbox, seen, buffer, draining, result,     \* of SessionRunner
    mail, iteration, phase, todo, decoding,         \* of LockstepSession
    pc, toSend, net, failures, strays, crashes,     \* of AsyncSession
    mailbox, turn                                   \* of Gg18PresignSession

runnerVars == <<round, got, outbox, seen, buffer, draining, result>>
lockstepVars == <<mail, iteration, phase, todo, decoding>>
asyncVars == <<pc, toSend, net, failures, strays, crashes>>
gg18Vars == <<mailbox, turn>>
allVars == <<setting, runnerVars, lockstepVars, asyncVars, gg18Vars>>

FirstRound == 1

Sync == INSTANCE LockstepSession WITH
    LastRound <- 3, BroadcastRounds <- {1, 2}, P2pRounds <- {1, 2, 3},
    Accumulates <- FALSE, MayAbort <- TRUE, MaxIterations <- 3

\* Nothing fails and the transport keeps the order of a sender's rounds.
OneMessage == INSTANCE AsyncSession WITH
    LastRound <- 2, BroadcastRounds <- {1}, P2pRounds <- {2},
    Accumulates <- FALSE, MayAbort <- FALSE,
    MaxRounds <- [p \in Parties |-> 3], MaxRetries <- 0, Ordered <- TRUE,
    OneMessagePerReceive <- TRUE, EmptyReceives <- TRUE, MayTimeout <- FALSE,
    MaxFailures <- 0, MaxStrays <- 0, MaxCrashes <- 0

\* One of the two is configured to give up on reaching the last round.
Returns == INSTANCE AsyncSession WITH
    Parties <- Pair, LastRound <- 2, BroadcastRounds <- {1, 2}, P2pRounds <- {2},
    Accumulates <- FALSE, MayAbort <- TRUE,
    MaxRounds <- [p \in Pair |-> IF p = CHOOSE q \in Pair : TRUE THEN 2 ELSE 3],
    MaxRetries <- 1, Ordered <- FALSE, OneMessagePerReceive <- FALSE,
    EmptyReceives <- FALSE, MayTimeout <- TRUE,
    MaxFailures <- 2, MaxStrays <- 1, MaxCrashes <- 1

Gg18 == INSTANCE Gg18PresignSession WITH Lockstep <- TRUE

-----------------------------------------------------------------------------
\* The variables of the drivers that are not at work.
NoLockstep == mail = {} /\ iteration = 0 /\ phase = "over" /\ todo = {} /\ decoding = {}
NoAsync == /\ pc = <<>> /\ toSend = <<>> /\ net = {}
           /\ failures = 0 /\ strays = 0 /\ crashes = 0
NoGg18 == mailbox = <<>> /\ turn = "off"

MCInit ==
    \/ setting = "lockstep" /\ Sync!Init /\ NoAsync /\ NoGg18
    \/ setting = "gg18" /\ Gg18!Init /\ NoLockstep /\ NoAsync
    \/ setting = "one message" /\ OneMessage!Init /\ NoLockstep /\ NoGg18
    \/ setting = "returns" /\ Returns!Init /\ NoLockstep /\ NoGg18

Idle(driver) == setting = driver /\ UNCHANGED setting

InLockstep == Idle("lockstep") /\ Sync!Next /\ UNCHANGED <<asyncVars, gg18Vars>>
InGg18(A) == Idle("gg18") /\ A /\ UNCHANGED <<lockstepVars, asyncVars>>
InAsync(driver, A) == Idle(driver) /\ A /\ UNCHANGED <<lockstepVars, gg18Vars>>

\* All GG18 machines have returned: the run is over.
Gg18Over == setting = "gg18" /\ (\A p \in Parties : result[p] # "running") /\ UNCHANGED allVars

MCNext ==
    \/ InLockstep
    \/ InGg18(Gg18!Next)
    \/ Gg18Over
    \/ InAsync("one message", OneMessage!Next)
    \/ InAsync("returns", Returns!Next)

\* The fairness of each driver: a loop on one thread goes on; the executor polls
\* every session; what is in flight to a party that keeps receiving arrives in
\* the end, where that is needed, and round_timeout elapses where it is armed.
MCFairness ==
    /\ WF_allVars(InLockstep)
    /\ WF_allVars(InGg18(Gg18!Next))
    /\ \A p \in Parties : /\ WF_allVars(InAsync("one message", OneMessage!Local(p)))
                          /\ SF_allVars(InAsync("one message", OneMessage!Arrival(p)))
    /\ \A p \in Pair : /\ WF_allVars(InAsync("returns", Returns!Local(p)))
                       /\ WF_allVars(InAsync("returns", Returns!RoundTimeout(p)))

MCSpec == MCInit /\ [][MCNext]_allVars /\ MCFairness

-----------------------------------------------------------------------------
\* The values of every setting: a round never runs past the last, the attempts
\* of a send stay within max_retries and the loop within its cap.
TypesOK ==
    /\ setting = "lockstep" => Sync!TypeOK
    /\ setting = "gg18" => Gg18!TypeOK
    /\ setting = "one message" => OneMessage!TypeOK
    /\ setting = "returns" => Returns!TypeOK

\* A party that run_multi_party_sync returned an output for accepted every
\* message of every round of every peer.
LockstepHears == setting = "lockstep" => Sync!DoneHeardEveryone

\* While nobody failed, an iteration of run_multi_party_sync begins with every
\* party in the same round and nothing in a mailbox or a buffer.
LockstepInStep == setting = "lockstep" => Sync!InStep

\* As many iterations as the protocol has rounds are enough ("hard cap on outer
\* loop iterations (fail-safe)"), unless a verification failed.
LockstepCapIsEnough == setting = "lockstep" => Sync!CapIsEnough

\* Under run_multi_party_sync a party leaves a round only when every party has
\* reached it.
LockstepBarrier == INSTANCE RoundBarrier WITH
    LastRound <- 3,
    round <- IF setting = "lockstep" THEN round ELSE [p \in Parties |-> FirstRound]
LockstepRefinesBarrier == LockstepBarrier!Spec

\* What a party produced on entering a round has reached the transport before it
\* leaves that round, when a receive returns one message.
RoundSentBeforeLeft == setting = "one message" => OneMessage!RoundSentBeforeLeft

\* The runner reports a duplicate only when something was sent twice
\* (runner.rs, "Tracks (from, round, to) triples to detect duplicate wire
\* messages"): never in lockstep, also with GG18's replies, and under
\* AsyncSession only after a failed call.
DuplicatesAreReal ==
    /\ setting = "returns" => Returns!DuplicatesAreReal
    /\ setting = "one message" => OneMessage!DuplicatesAreReal
    /\ setting = "gg18" => Gg18!DuplicatesAreReal

\* Where nothing fails every session returns its output: no reply of GG18 is lost
\* between two outboxes or stamped with a round its peer has left, and nothing is
\* stranded in a buffer.
EveryoneCompletes ==
    <>(setting \in {"one message", "gg18"} => \A p \in Parties : result[p] = "done")

\* Whatever fails, every session returns with its output or an error.
EverySessionReturns == <>(\A p \in DOMAIN result : result[p] # "running")
=============================================================================
