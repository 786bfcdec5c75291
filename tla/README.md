# A TLA+ model of tecdsa-lib

tecdsa-lib is a Rust library of threshold ECDSA: seventeen protocol crates, the
cryptographic primitives under them, and a framework that runs a protocol's
round-based state machines over a network. This directory models all three
layers:

- **sessions**: what happens to messages that are early, late, duplicated or
  lost, to sends that fail, to processes that die, and what a machine may rely on;
- **protocols**: the key generation and signing of each of the seventeen crates,
  against one specification of what they all promise;
- **primitives**: the algorithms under the protocols, computed on numbers small
  enough for TLC, and every sigma proof as the equations its verifier checks.

Paths below are relative to `src/crates/`; `S/` is `framework/tecdsa-session/src/`.

## 1. Inventory

| Component | State it keeps | Operations | Correct when |
|---|---|---|---|
| `SessionRunner` (`S/runner.rs`) | the machine, `seen`, `future_buffer` | `step_encode`, `step_decode`, `finish` | each message reaches the machine once, in its round |
| `AsyncSession` (`S/async_session.rs`) | a runner, a transport | `run`, `send_with_retry`, `receive_with_timeout` | every session returns; nothing sent is lost by the session itself |
| `SyncSession`, `run_multi_party_sync` (`S/sync_session.rs`) | runners, results, an iteration counter | `run`; a loop of three phases | parties stay in step; the cap suffices |
| `InMemoryNetwork` (`framework/tecdsa-transport`) | a mailbox per party | `send`, `broadcast`, `receive` | each message reaches each addressee once |
| Protocol machines (`protocols/*`) | the round, what was received in it, an outbox, secrets | `handle`, `drain_outgoing`, `finish` | one key is shared; every signer gets the one signature, or an error for a reason |
| Class groups (`primitives/tecdsa-class-group/src/class_group`) | none | reduce, compose, square, raise, change order | the group law, whatever shortcut was taken |
| CL encryption, threshold CL (`cl.rs`, `t_cl.rs`, `dkg_cl.rs`, `dkg_dl.rs`, `drg.rs`, `pvss_share.rs`) | keys, sharings | encrypt, combine, decrypt; deal, verify, reconstruct | plaintexts come back; what verified is shared |
| MtA and RVOLE (`paillier`, `joye-libert`, `class-group`, `ot`) | the parties' states between messages | sender, receiver, check, decrypt | the shares add up to the product, or someone refuses |
| Oblivious transfer (`primitives/tecdsa-ot`) | base OT seeds, correlations | base OT, extension, zero shares | the receiver learns what it chose |
| Sigma proofs (`*/zk`) | none | prove, verify | true claims pass, false ones do not |
| Curve, ECDSA, Shamir (`primitives/tecdsa-vss`, `framework/tecdsa-protocol/src/ecdsa.rs`) | none | split, reconstruct, Lagrange; low-s, verify | as defined |

`PROJECT.json` lists every component with its status, what is left out of it and
why, and the hazards, each with its line and the properties that cover it.

**How they interact.** A run has one session per party; sessions share nothing but
messages. `run` loops: `step_encode` drains the machine's outbox and wraps each
message in a header `(session, protocol, round, from, to)`; the transport carries
it; `receive` returns a batch; `step_decode` validates each envelope, refuses a
second `(from, round, to)`, hands messages of the current round to the machine,
buffers those of later rounds, drops those of earlier ones, and drains the buffer
for the round the batch ended in. `handle` may itself advance the machine, which
then pushes the next round's messages. Key generation hands a key share to
presigning, presigning a presignature to signing; nothing in between checks that
they belong together.

**What is hard.** In the session layer, orders that nobody chooses: which messages
share a batch, how far ahead a peer is, whether a failed send was delivered.
Nothing is persisted: a crash is for ever. In the protocols, one party's wrong
share: who notices, at which step, and what the others hold by then; and indices,
which count parties by `PartyId` in one place and by position in another. In the
primitives, edges of integer ranges: signs, masks that wrap, partial reductions.

## 2. Modules

### Sessions

| Module | Models |
|---|---|
| `RoundBarrier` | the abstract promise: a party leaves a round only when all have reached it |
| `SessionRunner` | one party's round machine and runner: `Handle`, `Advance`, `Encoded`, `DecodeOne`, `TakeBuffer`, `DrainOne`; at its end the lemmas that both drivers' proofs use |
| `AsyncSession` | the sessions of all parties over asynchronous transports |
| `LockstepSession` | `run_multi_party_sync` over `InMemoryNetwork` |
| `Gg18PresignSession` | GG18's presign machine, which replies inside a round, under either driver |
| `MCAsyncSession`, `MCDrivers` | values for TLC; `MCDrivers` runs four settings one after the other |
| `AsyncSession_proofs`, `LockstepSession_proofs` | theorems about the two drivers |

The round machine of `SessionRunner` is read from DKLs23's presign machine
(`dkls23/src/presign`), whose pattern the n-party crates share. `round[p]` is
`current_round()`; `got[p]` are the entries of the round's `BTreeMap`s. A message of
another round, or a second one of its sender and kind, is an error (`Rejected`); the
message that makes `is_ready` true advances the machine inside the same `handle`
call, and verification may then fail (`Aborted`, if `MayAbort`). `BroadcastRounds`
and `P2pRounds` say what a round awaits. An outbox is kept in the state of the round
(`Accumulates = FALSE`: GG18, DKLs23, CGGMP20, ...) or in one list
(`Accumulates = TRUE`: WMY23 key generation, KU24, ...). A message carries the
header's `to` and round (`tag`) and the round its payload belongs to (`round`).

In `AsyncSession`, `pc[p]` is where `run` is: `encode`, `send`, `receive`, `decode`
(the batch loop), `drain` (the buffer loop). Batches are not built: in `decode` a
party takes messages from the network one at a time and stops when it likes; as
decoding sends nothing, every such choice is the batch of some receive. A transport
call may fail after any subset of its recipients got the message, a receive may
fail, return nothing or bring an envelope of another session; `RoundTimeout` and
`Crash` end a session. `MaxFailures`, `MaxStrays` and `MaxCrashes` bound the
environment, never the code. In `LockstepSession` the order of visits within a phase
is left open, since no phase reads what it wrote for another party.

### Protocols

`IdealEcdsa` is what they all promise: a key nobody holds, and each signer handed
the one low-s signature of the digest, or an error, once. `PrimeField` has the
scalars, Shamir's scheme and ECDSA over a field of `Q` elements; a curve point is
the multiple of the generator it is. `ProtocolSession` has what the protocols
share: the constants and what is assumed of them, the variables, `Step`, `Return`,
`With` (what a stage adds to what is known), who takes part (`Signers`, `P1` and
`P2` with `OfTwo`), who is faulty. Seventeen modules, `Gg18`, `Dkls23`, `Ggn16`,
`Cggmp20`, `Lin17`, `Xal21`, `Kgg24`, `Abc24`, `Ln18`, `Wmc24`, `Wmy23`, `Tx25`,
`Jtx25`, `Llz25`, `Trout`, `Xal23`, `Ku24`, each define `...KeygenBegin`,
`...KeygenNext`, `...SignBegin` and `...SignNext`, prefixed by the protocol's name as
all their definitions are. `KeygenSuite` and `SigningSuite` EXTEND them all and
compose them: a behaviour is one session of one protocol.

| Module | Proves |
|---|---|
| `ProtocolSession_proofs` | the arithmetic modulo `Q`, sums and products over sets, Lagrange interpolation, ECDSA verification; what every protocol's proof uses of a session and its parties |
| `SigningSuite_proofs` | the invariant of each signing protocol, and that each implements `IdealEcdsa` |
| `SigningEquations_proofs` | what the signers' values have to do with each other, what a presignature leaves, and what is opened |
| `SigningRefusals_proofs` | what each signing protocol has to know at its checks when nobody deviates, and that, but for the sessions of `Unsupported`, it refuses for no other reason than its `Excuse` |
| `KeygenSuite_proofs` | the invariant of each key generation, and what it hands out |

The named assumptions say what the code takes for granted. `SigningAssumption`: the
PartyIds are nonzero scalars, a quorum has at least `T` parties, what is drawn is in
its range. `QuorumAssumption`: two or more sign. `ModuliAssumption`: a Paillier
plaintext holds the products of two scalars (`PaillierN > 2 Q^2`, so that only a mask
can make it wrap), and the plaintext space of GGN16, LIN17, XAL21, KGG24, ABC24 and
XAL23 holds every masked product (`WideN > Q^7`, as a modulus of 2048 bits is for a q
of 256). `KeygenAssumption` (`KeygenSuite`): all who
will hold the key generate it, and their ids count from 1, as everywhere in the
repository. `Ku24Majority` is not an assumption but a guard: `check_params`
(`ku24/src/prss.rs:235`) refuses to begin without an honest majority.

How a protocol is written:

- **Stages.** A step takes every machine through one round, from the last message of
  a round to the next one's outbox. That is sound because of the layer below: a
  party leaves a round only when all have reached it (`BarrierRefined`, section 4),
  and what a round computes does not depend on the order its messages came in. What
  the lockstep hides, early, duplicated and lost messages, is the session modules'
  subject.
- **Faults.** At most one party is faulty: its share, opening, proof or ciphertext is
  off by `bent` at the place `fault` names, towards everyone or towards one
  `Victim`. Machines that refuse return `Refused`; those that wait for a message that
  never comes stay `Waiting`.
- **Ideal cryptography.** A ciphertext is what it decrypts to (wrapping where the
  plaintext space does: `Signed`), a commitment opens to what was committed, a proof
  verifies when its claim holds. Each module says what a proof claims where it is
  verified; that the proofs claim it is what `SigmaProofs` checks. Where the code
  discards a verdict, or announces a value without proof, so does the model.
- **Who signs.** `Quorum` is `{1, 3}` of three, so positions differ from `PartyId`s;
  `RunByAll` protocols (TX25, robust JTX25, KU24) are run by everyone.

### Primitives

| Module | Models |
|---|---|
| `Exchange` | the stages of an exchange, bits and words |
| `BinaryForms` | `class_group/qfi.rs`, `nt.rs`, `hgcd.rs`: reduction (Lehmer windows, half-gcd), Dirichlet composition, NUCOMP, NUDUPL, windows, combs, several bases |
| `HsmCl` | `cl.rs`: parameters, keys, both variants, homomorphic operations, the logarithm in F |
| `Multiplication` | MtA over Paillier, Joye-Libert (computed) and class groups, NIM, many-party MtA, scaled decryption |
| `ThresholdCl` | `dkg_cl.rs`, `dkg_dl.rs`, `drg.rs`, `t_cl.rs`, `pvss_share.rs`, `zk/r_sh.rs` |
| `ObliviousTransfer` | base OT, the extension and its consistency check, RVOLE, zero shares |
| `SigmaProofs` | every proof as a row of two tables, what its statement claims and what its `verify` tests: equations between exponents, ranges (both ways, from zero on, or only from above) and whether signs survive the wire; a prover with a true or a false claim, a verifier |
| `MCPrimitives` | all of the above for TLC |

`BinaryForms` and `HsmCl` compute with actual forms and integers: the word widths
become `HeadBits`, `HgcdBits`, `HgcdGap`, `CombBlocks` and `NafWidth`, so small that
operands of a few bits take every branch. `ThresholdCl` writes a group element as its
exponents of h (a group of unknown order: an integer) and of f (modulo `Q`). A sigma
proof's bases are exponents in groups of different prime orders, so that an answer
reduced modulo the wrong one does not fit.

## 3. Runs

| Run | Instance | Question |
|---|---|---|
| `AsyncFaults` | 3 parties, rounds {broadcast}, {p2p}, any order, one failed call, stray message or crash (`OneFault`), timeouts, failing verification, empty receives; 806,000 states | is anything refused, dropped, stranded or skipped, and does `RoundBarrier` hold? |
| `Drivers` | lockstep with DKLs23 presign's rounds; one message per receive; two parties with every fault and one configured a round short; GG18's machine in lockstep; 172,000 states | do the drivers keep their promises, and does every session return? |
| `Signing` | 18 protocol variants, Q = 5, T = 2, one fault anywhere; 99,000 states | does each protocol implement `IdealEcdsa`, do presignatures fit, is anything revealed or refused without a reason? |
| `Keygen` | 17 key generations, 4 parties, one that deals, announces or proves something wrong; 144,000 states | are the key shares that are handed out of one key? |
| `Primitives` | every scheme and proof; 89,000 states | do the algorithms compute what they are for? |

What the properties say:

- `NoRejection`, `DoneHeardEveryone`, `NothingStranded`, `NothingDiscarded`,
  `RefinesBarrier`: no honest message is refused; an output needs every message;
  nothing waits in a buffer for a round that has begun; the stale discard loses
  nothing; the barrier is implemented. `Lockstep...` are the same for
  `run_multi_party_sync`, with `LockstepInStep` and `LockstepCapIsEnough`.
  `RoundSentBeforeLeft`: what was produced on entering a round reaches the transport
  before the round is left. `DuplicatesAreReal`: a duplicate is reported only when
  something was sent twice. `EveryoneCompletes`, `EverySessionReturns`: liveness.
- `IsIdealEcdsa` is the refinement of every protocol into `IdealEcdsa`. LN18 may also hand
  out s = 0 where no signature exists: its last step tests nothing
  (`ln18/src/sign/state_rounds.rs:1275`), and `Seen` allows that one answer.
  `PresignaturesFit`: what presigning returns fits nonce and key, since signing
  does not check it. `NothingRevealedInVain`: shares of s (GG18, CGGMP20) and of
  products (LN18) are opened only if they add up. `RefusedForAReason`: each
  protocol's `Excuse` lists the reasons. It says nothing of the sessions of `Unsupported`,
  which the code cannot carry through at all: robust JTX25's with a signer gone
  (`BugDropouts`) and XAL23's over key shares that do not add up. `EverySignerAnswered`: an honest signer's
  machine returns, unless a peer refused and fell silent.
- `SharesOfOneKey`, `EncryptedKeysFit`, `AllOrNobody`, `HonestRunCompletes` are the
  same questions for key generation. `SharesOfOneKey` holds with every fault of every
  protocol but for two named ones of WMC24, TX25 and JTX25: the point of a share may be
  another one's (`WrongPoint`; `BugAnnounced` shows it), though the shares are still of the
  one key, and a wrong sharing among fewer than T + 2 parties cannot be tested
  (`WrongSharing`; not in this run, which has T + 2). With either, honest parties still hold
  the same public key.
- `FormsRight` and `ReductionRight` compare every shortcut with the plain group law;
  `KeysDecrypt` and `SharesAddUp` decrypt; `OtRight`, `ThresholdsMeet`: what is
  transferred, dealt and reconstructed is what was chosen and drawn;
  `TrueClaimAccepted`, `FalseClaimRefused`: completeness and soundness of each proof. A
  secret may be too long on either side of zero, whether or not the proof claims its length.
  `LowUnseen` is the one false claim that passes: a range tested only from above, and an
  answer that keeps its sign on the wire (`BugRange`).
- `ThresholdsMeet` says what sharings and ciphertexts of `dkg_dl.rs` and `drg.rs` are for a
  verifier whose pc fits the dealer's commitments (`fitting`); that neither verifier sees to
  it is in section 5.

Seven runs state what a comment or doc says and are violated by what the code does
(the quotations are in `PROJECT.json`, "findings"):

| Run | What happens |
|---|---|
| `BugLostRound` | one `step_decode` ends a round and completes the next: what the machine had to send in between is dropped with the round state |
| `BugTimeout` | a transport whose own timeout returns `Ok(vec![])` restarts the round timer for ever |
| `BugEagerReply` | GG18 presigning replies within round 1, under a header its round-1 message already used: outside lockstep the peer reports a duplicate |
| `BugDropouts` | a signer leaves after robust JTX25's presigning: the others' terms carry coefficients for all that presigned, and the signature does not verify |
| `BugAnnounced` | WMC24, TX25 and JTX25 prove that a share was decrypted with the right key, not that the announced point is the share's: a wrong one is kept by everyone |
| `BugRange` | the range tests of the MtA proofs look from above only: a secret far below zero passes as short |
| `BugPolyVerify` | the publicly verified sharing is tested one degree too low: degree t passes, and anything does when n <= t + 1 |

### Why the bounds are enough

*Sessions.* Parties are never more than one round apart, so two or three rounds show
every relation of a sender, a receiver and a party that lags. Three parties are the
least with one ahead and one missing; two are the special case the runner makes.
One failed call gives one duplicated or half-delivered message; two exhaust a retry.
Symmetry is used in `AsyncFaults` only, which has no liveness property. There `OneFault`
allows one failed call, one stray envelope or one crash in a behaviour, not two of them
together; combinations are left to the proofs (section 4), which have no such bound.

*Protocols.* The protocols compute sums and products in the field, which has no other
subfield to hide in: a formula that is wrong for large Q is wrong for some values of
Q = 5. The values are chosen so that wrong formulas do not coincide with right ones:
the digest 4 is no x-coordinate r (those are 1 and 2), the sharings have no zero
share in the quorum, and the nonces' sum is sometimes zero, sometimes gives s = 0
(`NoSignature`; in LN18 too). `PaillierN` = 53 is just above the products, so that masks near half
of it wrap; `WideN` holds every product, as the class groups' plaintexts do. Three
parties with T = 2 have a quorum that is not a prefix. `Keygen` has
four parties with T = 2, so that the publicly verified sharings are not all of the code
that would accept anything (n <= t + 1, `BugPolyVerify`): R_Sh has a test to make, and a
wrong sharing is refused.

*Primitives.* Secrets of proofs are below zero, short and too long (`MCSecrets`, and the faults
"long" and "low"). Setups have an h of order 7, 5 or 3, so that masks mask and both variants
and two-digit plaintexts (q = 5, k = 2) occur. `LargeDlog`'s exact branch is the only
one that no input within TLC's integers reaches. The class number must be prime to q,
which the code assumes for large q and the setups satisfy.

### Fairness

`AsyncSession`: `WF(Local)`, an executor polls a ready task; `SF(Arrival)`, a transport
hands over in the end what is in flight to a party that keeps receiving (strong,
because a party does not receive while it sends); `WF(RoundTimeout)`, the timer
elapses if the party stays in one receive. A crash, a failure or a stray is never
fair. `MCFairness` states this per setting; a loop on one thread, as
`run_multi_party_sync` is, goes on (`WF`). The suites have `WF(Next)`: the rounds go on
while no machine waits for a message that will not come, which is what the liveness of
the layer below gives. `EverySignerAnswered` and `HonestRunCompletes` do not promise
more than that.

## 4. Proofs

For any parties, rounds, faults and bounds, under the named assumptions of the modules;
`SessionRunner` ends with the lemmas both drivers share.

*Asynchronous sessions* (`AsyncSession_proofs`):

- `TypeCorrect`: `Spec => []TypeOK`.
- `BarrierRefined`: `Spec => RefinesBarrier`, for both kinds of outbox and any network.
  The barrier speaks of `round` only and is not inductive. `BarrierInv` adds that every
  message, wherever it is (outbox, being sent, in flight, buffered), belongs to a round
  its sender has reached, and that what a machine got in its round came from peers
  that reached it. `HandleBarrier` is the heart: a completed round needs a message from
  every peer.
- `HonestFeed`, `NeverRefused`, `DoneIsHeard`: with an outbox per round and not exactly
  two parties, `Spec => [](NoRejection /\ DoneHeardEveryone /\ NothingDiscarded)`. `FeedInv` ties
  `seen` to what the machine has: headers carry the round their message was produced in
  (`Stamped`), what the machine got or the buffer holds was accepted once (`GotSeen`,
  `BufferSeen`), nothing is buffered for a round that was left (`BufferAhead`), and a
  round that was left was heard in full (`HeardPast`). Both hypotheses are needed:
  `BugEagerReply` is what happens without the first, and section 5 has what happens with two parties.
- `NeverStranded`: under the same hypotheses `Spec => []NothingStranded`. `step_decode`
  drains the buffer once, for the round the batch left the machine in; a drain that
  moves the machine on is not followed by another. That this strands nothing is an
  argument about time: what a party has not encoded was never sent (`Fresh`), so nobody
  is past its round (`NobodyAhead`, from `HeardPast`), so nothing of a later round is
  buffered; and a round that a drain completes was entered in the same receive
  (`BufferLater`).
- `NoFalseDuplicate`: under the same hypotheses `Spec => []DuplicatesAreReal`. While no
  call failed a message is waiting, or in flight once, or accepted (`OnceInv`); what is
  encoded was not sent before because of `Fresh`.
- `SentBeforeLeft`: `Spec => []RoundSentBeforeLeft` with an outbox per round, not two
  parties, a receive that hands over one message at a time (`OneMessagePerReceive`) and a
  network that keeps each sender's order (`Ordered`). A round is left only when every
  peer's message of it is there; under these hypotheses what completed the last round was
  one message of one peer, and nothing of the new round of that peer can have been
  accepted before it (`InOrder`), so the drain that follows completes no second round
  (`MissesOne`), and a machine moves on only once `step_encode` and the sends have
  emptied its outbox (`MovesWhenSent`); so nothing is lost on the way (`NothingLost`). `BugLostRound` is what a batch of two messages does instead.

*run_multi_party_sync* (`LockstepSession_proofs`), with `MaxIterations \in Nat`:

- `LockstepTypeCorrect`: `Spec => []TypeOK`, with `LoopInv` for the loop's counters.
- `LockstepBarrier`: `Spec => RefinesBarrier`.
- `LockstepSafe`: with two or more parties `Spec => [](InStep /\ CapIsEnough)`, for either
  kind of outbox. `LockstepInv` says, until a verification fails, where every party is in
  each phase: before its turn to decode the mailbox of a party holds exactly the letters
  its round needs (`PostedLetters`), and it is `Through` when `step_decode` returns.

`BarrierRefined` is also what lets the protocol modules go by stages.

*Field and sharing* (`ProtocolSession_proofs`), for every prime `Q`. Sums and products
over the signers are folds over a set, so what would be an induction over data is one over
the subsets of a finite set: `SubsetInduction` says that a set of subsets that contains A
whenever it contains every A without an element is the set of all, and each lemma applies
it to a set it defines. From there: totals add up, scale and commute; `Interpolation`, what
`shamir::reconstruct` computes from T or more shares is the secret; `ReconstructOneWrong`,
one wrong share among those that reconstruct always shows; `SignatureVerifies`, when the
s that was put together verifies, in low-s form. `ProductShares` is what every MtA is for:
if u_i v_j is shared between i and j for all pairs, what the signers have in all adds up to
the product of the sums.

*Signing* (`SigningSuite_proofs`, `SigningEquations_proofs`, `SigningRefusals_proofs`):

- `SuiteInvariant`, `SigningIsIdeal`: `Spec => IsIdealEcdsa`. `SuiteInv` says that nobody is
  answered before the session ends and, for each protocol P, what its machines know at each
  of its stages (`PKnown`); every step is lawful (`LawfulStep`): it answers nobody, or each
  signer with the one signature under the shared key or with an error. `SigningIsIdeal` has LN18's s = 0 as the one answer beyond `IdealEcdsa`'s (`Seen`). All protocols but
  LN18 verify what they put together, so there the types are enough. LN18 returns s
  unverified: that it is right follows from its two checks in the exponent, which
  `Ln18Known` carries as equations.
- `EquationsInvariant`: `EquationsInv` adds to `SuiteInv` what the values have to do with
  each other (`PEquations`): after GG18's and DKLs23's products, GGN16's and WMC24's
  homomorphic steps, TX25's bilinear tables, and so on, the shares add up to the product;
  what a consistency check let through fits; and the weighted key shares make up the key at
  every stage. It is needed because a presignature is only right if what came before it
  was: no single stage's values say so.
- `SigningNotInVain`: `Spec => []NothingRevealedInVain`. In GG18 the zero check of phase 5
  compares V and A, T and U in the exponent: it holds only if the s_i add up to a
  signature, for rho summing to a unit; the proof shows what the check decides and what it
  does not.
- `SigningPresignaturesFit`: `Spec => []PresignaturesFit`, every protocol's. In KU24 nothing
  is checked while the degree-2t products are opened: that the opening is right follows from
  a sharing argument, that n >= 2t + 1 replicated shares vanish at all but their holders and
  so any 2t + 1 points interpolate to the same product. `Ku24Fits` has the condition that
  the opened mask r is not zero, which the code does not check either.
- `RefusedInvariant`, `SigningRefusedForAReason`: `Spec => []RefusedForAReason`, for all 17
  protocols, the sessions of `Unsupported` excepted. This is the converse of the refinement: a session without a wrong share,
  and without one of the rare values its protocol's `Excuse` names, is never refused.
  `RefusedInv` adds to the equations what each protocol's checks compare when nobody
  deviates (`PComplete`): LIN17's and ABC24's partial decrypts to what P2 hid, KGG24's and
  GGN16's sums stay in the plaintext space (`Kgg24Fit`, `Ggn16Fit`), TX25's recomputation
  finds the wrong signers and only them (`Tx25CheatersFound`), WMY23's three equations hold
  between honest signers (`Wmy23Consistent`), LN18's two checks in the exponent pass. Then
  every step that answers with an error falsifies one of these, or is in the excuse
  (`PRefusals`). `PComplete` has to be carried along: at the stage that refuses, the values
  that justify it are gone. The lemmas on what a signature is made up of
  (`NonceInverted`, `MaskDividedOut`, `NonceFactored`, `PartialOpened`, ...) are at the end
  of `ProtocolSession_proofs`.
- `Xal23Fits` is stated, as the code has it, for shares that the dealer cut additively; that
  XAL23's own key generation cuts them otherwise is section 5's remark.

*Key generation* (`KeygenSuite_proofs`): `KeygenInv` says what each machine holds while at
most one party deals wrongly, and what it returns: its due, or an error (`KeygenInvariant`).
From it `KeygenShares` (`Spec => []SharesOfOneKey`, with the two exceptions that section 3
names: of WMC24, TX25 and JTX25 it is proved with a wrong point that the shares are of the
one key, and with an untestable sharing that the honest parties' public key is one and the
same), `KeygenEncrypted`
(`Spec => []EncryptedKeysFit`) and `KeygenConfirmed` (`Spec => []AllOrNobody`). Shamir's
scheme is linear, so what verified shares of many dealers add up to are shares of the sum
(`DealersInterpolate`). KU24 has no dealer: its replicated shares vanish at all but the
holders, and with an honest majority one wrong share is found among 2t + 1. GGN16's
ciphertexts are added under N > n q (`SumBound`); the two-party schemes need no polynomial
(`TwoTotals`).

Only model-checked:

- liveness (`EveryoneCompletes`, `EverySessionReturns`, `EverySignerAnswered`,
  `HonestRunCompletes`), which is out of the prover's reach;
- what `MCDrivers` says of its four settings together: `LockstepHears`, the types of
  GG18's presign session and its duplicates in lockstep; two-party sessions beyond the
  barrier;
- the primitives (`FormsRight`, `ReductionRight`, `KeysDecrypt`, `SharesAddUp`, `OtRight`,
  `ThresholdsMeet`, `TrueClaimAccepted`, `FalseClaimRefused`): their modules compute with
  RECURSIVE operators, which the provers do not take. What the signing proofs use of them,
  that the shares of an MtA add up, is proved from the field arithmetic (`ProductShares`).

## 5. Not modelled

- **Numbers at full size**: prime generation, CRT, Paillier key generation and the proofs
  about moduli (`pi_mod`, `correct_key_ni`, `range_ni`), the GMP limb form of the half-gcd,
  hashing and Fiat-Shamir transcripts beyond "the challenge depends on the commitment".
- **Parts of protocols**: CGGMP20's identification and trusted dealer, LN18's hub that
  polls MtA machines and its OT form, TROUT's `identify_cheater`, the blame after WMY23's
  failed equations, XAL23's simulation; see the components' notes.
- **Several sessions at once** over one presignature or key share: the library keeps no
  record of use, so what happens is up to the caller.
- **Wire encoding**, metrics, NetSim, the benchmarks, the testkit, HD derivation, and the
  checkpoint trait, which nothing calls.
- `SyncSession::run`'s endless polling of a silent peer: it has no exit to reach.

Seen while modelling, and not the subject of a run:

- A transport call that failed after it had delivered is retried, and `DuplicateMessage` ends
  the receiver's session: `RetryIsHarmless` as an invariant of `AsyncFaults` fails.
- With two parties a reordered p2p message of a later round is not buffered but handed to
  the machine, which refuses it (`S/runner.rs:145`): `NoRejection` fails in `AsyncFaults` with
  two parties.
- DKLs23 stores `party_index` from 1 and validates it as if from 0
  (`dkls23/src/key_share.rs:85`), so the last party's share is refused:
  `HonestSharesValidate` as an invariant of `Keygen` fails.
- `dkg_dl_gen_verify` is documented to compare the Pedersen commitment `pc` with the dealer's
  polynomial (`dkg_dl.rs:64-66`, `180-182`), and so is the verifier of `drg.rs` (`350-352`).
  Neither does (`dkg_dl.rs:198-216`, `drg.rs:326-355`): with another pc the proof binds the
  ciphertext to the wrong share. WMC24 compares it itself; WMY23's key generation and JTX25's
  DRG take the one in the message. What `VssRight` says of ciphertexts is therefore
  conditional on `fitting`; without that precondition it fails with the fault "pc".
- XAL23's own key generation shares the key by Feldman's scheme while presigning adds shares
  up (`xal23/src/presign/rounds.rs:210`), so only the trusted dealer's shares sign
  (`Xal23Misfit`).
- The mask t1 in Bob's MtA proof has no range test at all, and the answers of the proofs in
  `WithoutSign` lose their sign on the wire, so that an honest proof about a negative secret
  can be refused; both are in the model (`Unranged` answers, `Losing`).
- `pk_pow` (`cl.rs:266`) returns the identity for a negative exponent; with q = 3 and two
  digits the logarithm in F is wrong (`cl.rs:579` takes large q for granted).

## 6. Plan

1. Proofs: GG18's presign session under lockstep; the errors of key generation, as
   `RefusedForAReason` is for signing.
2. `Ln18Online`: the hub and its swallowed errors (`ln18/src/sign/mta_hybrid.rs:208`).
3. CGGMP20's identification: an honest party is never blamed.
4. The testkit's orchestrators and their abort paths.
5. Presignature stores: presign, sign, failure and retry.
