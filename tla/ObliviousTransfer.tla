------------------------- MODULE ObliviousTransfer --------------------------
(* tecdsa-ot: the Simplest OT (base_ot.rs), the SoftSpoken extension of a    *)
(* few OTs to many (soft_spoken.rs), the multiplication built on it          *)
(* (rvole.rs, mta.rs) and shares of zero from pairwise seeds (fzero.rs).     *)
(*                                                                           *)
(* The extension has Kappa base OTs; its receiver's choices are two blocks   *)
(* of OT_SECURITY bits and one random block, and its consistency check is    *)
(* in the field of 2^OT_SECURITY elements.  OT_SECURITY is 1 here: a block   *)
(* is a bit and field_mul the product of bits.                               *)
EXTENDS Exchange

CONSTANTS Kappa,        \* the number of base OTs
          Seeds,        \* what the base OTs' seeds may expand to
          Words,        \* the receiver's choice bits with the random bit
          Corr,         \* what a sender's correlation may be
          OtScalars,    \* scalars that parties draw
          Challenge     \* what the hashes chi_tilde and chi_hat may be

Columns == 0 .. Kappa - 1
Batch == 0 .. 1                 \* BATCH_SIZE
Extended == 0 .. 2              \* EXTENDED_BATCH_SIZE

-----------------------------------------------------------------------------
(* base_ot.rs.  A key is the hash of a point, here the point.                *)

Messages == [choice \in Bit |-> <<"message", choice>>]

\* BaseOtSender::setup
BaseBegin ==
    /\ scheme = "base ot" /\ stage = "setup" /\ fault = "none"
    /\ know \in [a : OtScalars]

\* BaseOtReceiver::choose: x G, or A + x G, and the key x A.
Choose ==
    /\ scheme = "base ot"
    /\ \E x \in OtScalars, choice \in Bit :
          Step("setup", "choose", [choice |-> choice,
              B |-> Fl(choice * know.a + x), key |-> Fl(x * know.a)])

\* BaseOtSender::encrypt: each message under the key of one choice.
EncryptBoth ==
    /\ scheme = "base ot"
    /\ Step("choose", "encrypt", [ct |->
           [c \in Bit |-> [key |-> Fl(Fl(know.B - c * know.a) * know.a), message |-> Messages[c]]]])

\* A payload decrypted with another key is noise.
Opened(ct, key) == IF ct.key = key THEN ct.message ELSE "noise"

\* BaseOtReceiver::decrypt
DecryptOne ==
    /\ scheme = "base ot"
    /\ Step("encrypt", "done", [got |-> Opened(know.ct[know.choice], know.key)])

\* The receiver reads the message it chose and not the other.
BaseOtRight == Done("base ot") =>
    /\ know.got = Messages[know.choice]
    /\ Opened(know.ct[1 - know.choice], know.key) = "noise"

-----------------------------------------------------------------------------
(* soft_spoken.rs.  The base OTs have given the sender of the extension, for *)
(* each column, the seed that its correlation bit selects of the receiver's  *)
(* two.                                                                      *)

\* The values that the hashes and random_scalar take.
Hash(n) == Fl(n * n * n + 3 * n + 1)

\* OtExtensionSender::init and OtExtensionReceiver::init, or from_seeds: the
\* expansions t0, t1 of the receiver's seeds and the correlation.
OtBegin ==
    /\ stage = "init"
    /\ \/ scheme = "ot extension" /\ fault \in {"none", "receiver"}
       \/ scheme = "rvole" /\ fault \in {"none", "sender"}
    /\ \E t0, t1 \in Seeds, corr \in Corr, word \in Words :
          /\ t0 # t1
          /\ know = [t0 |-> t0, t1 |-> t1, corr |-> corr, word |-> word]

\* prg_expand of the seeds that the sender has (extend_seeds).
SenderSeed(i) == IF know.corr[i] = 1 THEN know.t1[i] ELSE know.t0[i]

\* A faulty receiver uses another word in column 0.
Word(i) == IF i = 0 /\ fault = "receiver" THEN [know.word EXCEPT ![0] = 1 - @] ELSE know.word

\* The two field products of the check, over the blocks of a row.
Folded(row, chi) == Xor(Xor(chi[1] * row[0], chi[2] * row[1]), row[2])

\* OtExtensionReceiver::run_phase1.  chi is derive_chi of u.
Extend == scheme \in {"ot extension", "rvole"} /\ \E chi \in [1 .. 2 -> Bit] :
    Step("init", "extend", [chi |-> chi,
        u |-> [i \in Columns |-> XorWords(XorWords(know.t0[i], know.t1[i]), Word(i))],
        verifyX |-> Folded(know.word, chi),
        verifyT |-> [i \in Columns |-> Folded(know.t0[i], chi)]])

\* compute_q
QRow(i) == [j \in Extended |-> Xor(know.corr[i] * know.u[i][j], SenderSeed(i)[j])]

\* Mutant of Consistent: the sender does not compare.
Consistent_Unchecked(q) == TRUE

\* compute_verify_vector and the comparison that follows it.
Consistent(q) == \A i \in Columns :
    Folded(q[i], know.chi) = Xor(know.verifyT[i], know.corr[i] * know.verifyX)

\* cut_and_transpose: row j of the batch, as wide as there are base OTs.
Transposed(rows, j) == [i \in Columns |-> rows[i][j]]

\* TAG_OTE_RANDOMIZE of a row, for an iteration and a position.
Randomize(n, j, row) == Hash(2 ^ (Kappa + 1) * n + 2 ^ Kappa * j + Number(row))

\* OtExtensionSender::run: the sender's outputs v0, and tau, which lets the
\* receiver correct v1 into v0 minus the correlation.
SenderV0(q, n) == [j \in Batch |-> Randomize(n, j, Transposed(q, j))]
SenderV1(q, n) == [j \in Batch |-> Randomize(n, j, XorWords(Transposed(q, j), know.corr))]
Tau(q, n, correlation) ==
    [j \in Batch |-> Fl(SenderV1(q, n)[j] - SenderV0(q, n)[j] + correlation[j])]

\* OtExtensionReceiver::run_phase2
ReceiverOut(n, tau) ==
    [j \in Batch |-> Fl(know.word[j] * tau[j] - Randomize(n, j, Transposed(know.t0, j)))]

-----------------------------------------------------------------------------
(* The extension on its own: one iteration with correlations of the sender.  *)

OtTransfer ==
    /\ scheme = "ot extension" /\ stage = "extend"
    /\ LET q == [i \in Columns |-> QRow(i)]
       IN IF Consistent(q)
          THEN \E a \in OtScalars :
                  LET tau == Tau(q, 0, [j \in Batch |-> a])
                  IN Step("extend", "done", [a |-> a, sent |-> SenderV0(q, 0),
                                             got |-> ReceiverOut(0, tau)])
          ELSE Refuse("extend")

\* The two outputs of a transfer add up to the correlation where the receiver
\* chose 1 and to zero elsewhere, also for a receiver that lied in a column: it is
\* refused, or the sender never used the column, or the challenge missed it.
OtRight == Done("ot extension")
           /\ ~(fault = "receiver" /\ know.corr[0] = 1 /\ know.chi[1] = 0) =>
    \A j \in Batch : Fl(know.sent[j] + know.got[j]) = Fl(know.word[j] * know.a)

-----------------------------------------------------------------------------
(* rvole.rs, mta.rs: the receiver's scalar is the sum of the public gadget   *)
(* over its choice bits.                                                     *)

\* compute_public_gadget
Gadget(nonce) == [j \in Batch |-> Hash(nonce + j + 1)]
Chosen(nonce) == Fl(Gadget(nonce)[0] * know.word[0] + Gadget(nonce)[1] * know.word[1])
Weighted(nonce, z) == Fl(Gadget(nonce)[0] * z[0] + Gadget(nonce)[1] * z[1])

\* MulReceiver::run_phase1 and receiver_respond: b minus what was chosen.
Respond ==
    /\ scheme = "rvole"
    /\ \E nonce, b \in OtScalars :
          Step("extend", "respond", [nonce |-> nonce, b |-> b, delta |-> Fl(b - Chosen(nonce))])

\* A faulty sender correlates position 0 of the batch with another scalar.
Correlation(a, n) == [j \in Batch |-> Fl(a + IF j = 0 /\ n = 0 THEN Shift("sender", 1) ELSE 0)]

\* MulSender::run and sender_compute.  Iterations 0 and 1 carry a_tilde and
\* a_hat; the challenges chi_tilde, chi_hat hash the receiver's message.
Multiply ==
    /\ scheme = "rvole" /\ stage = "respond"
    /\ LET q == [i \in Columns |-> QRow(i)]
       IN IF ~Consistent(q) THEN Refuse("respond")
          ELSE \E a, tilde, hat \in OtScalars, chiTilde, chiHat \in Challenge :
             LET zTilde == SenderV0(q, 0)
                 zHat == SenderV0(q, 1)
             IN Step("respond", "multiply", [a |-> a, chiTilde |-> chiTilde, chiHat |-> chiHat,
                    tau |-> <<Tau(q, 0, Correlation(tilde, 0)), Tau(q, 1, Correlation(hat, 1))>>,
                    r |-> [j \in Batch |-> Fl(chiTilde * zTilde[j] + chiHat * zHat[j])],
                    verifyU |-> Fl(chiTilde * tilde + chiHat * hat),
                    gamma |-> Fl(a - tilde),
                    alpha |-> Fl(Weighted(know.nonce, zTilde) + a * know.delta)])

\* The hash of the rows that the receiver expects is the one it was sent.
Matches(z, zHat) == \A j \in Batch :
    know.r[j] = Fl(Neg(Fl(know.chiTilde * z[j])) + Neg(Fl(know.chiHat * zHat[j]))
                   + know.word[j] * know.verifyU)

\* MulReceiver::run_phase2 and receiver_finish.
FinishMul ==
    /\ scheme = "rvole" /\ stage = "multiply"
    /\ LET z == ReceiverOut(0, know.tau[1])
           zHat == ReceiverOut(1, know.tau[2])
       IN IF Matches(z, zHat)
          THEN Step("multiply", "done",
                   [beta |-> Fl(Chosen(know.nonce) * know.gamma + Weighted(know.nonce, z))])
          ELSE Refuse("multiply")

\* The two shares that a multiplication returns add up to a b, unless a sender
\* that used two scalars had chi_tilde equal to zero.
RvoleRight == Done("rvole") /\ (fault = "sender" => know.chiTilde # 0) =>
    Fl(know.alpha + know.beta) = Fl(know.a * know.b)

\* An honest multiplication is never refused.
OtHonest == scheme \in {"rvole", "ot extension"} /\ stage = "refused" => fault # "none"

-----------------------------------------------------------------------------
(* fzero.rs: each pair has a seed, the xor of a committed one of each.       *)

Zeros == 1 .. 3

\* generate_seed_with_commitment; a faulty party 1 opens another seed.
ZeroBegin ==
    /\ scheme = "fzero" /\ stage = "commit" /\ fault \in {"none", "opening"}
    /\ \E seed \in {s \in [{p \in Zeros \X Zeros : p[1] # p[2]} -> Bit] : s[<<3, 1>>] = 0 /\ s[<<3, 2>>] = 1} :
          know = [committed |-> seed]

SeedsOpened == [p \in DOMAIN know.committed |->
    IF p = <<1, 2>> /\ fault = "opening" THEN 1 - know.committed[p] ELSE know.committed[p]]

\* verify_seed_commitment
ZeroOpen ==
    /\ scheme = "fzero"
    /\ IF SeedsOpened = know.committed
       THEN Step("commit", "open", [seed |-> SeedsOpened])
       ELSE Refuse("commit")

\* combine_seeds
LowestIndex(i, j) == i <= j
Combined(i, j) == Xor(know.seed[<<i, j>>], know.seed[<<j, i>>])

\* ZeroShareState::compute: the share of a party, towards these counterparties.
ZeroShare(i, with) == Total(
    [j \in with \ {i} |-> LET fragment == Hash(Combined(i, j))
                          IN IF LowestIndex(i, j) THEN Neg(fragment) ELSE fragment], with \ {i})

\* Any of the parties may be those that sign.
ZeroFinish ==
    /\ scheme = "fzero"
    /\ \E with \in SUBSET Zeros : with # {} /\
          Step("open", "done", [with |-> with, zero |-> [i \in with |-> ZeroShare(i, with)]])

\* The shares of those that take part add up to zero.
ZerosRight == Done("fzero") => Total(know.zero, know.with) = 0

Begin == BaseBegin \/ OtBegin \/ ZeroBegin
Next == Choose \/ EncryptBoth \/ DecryptOne \/ Extend \/ OtTransfer
        \/ Respond \/ Multiply \/ FinishMul \/ ZeroOpen \/ ZeroFinish

Right == BaseOtRight /\ OtRight /\ RvoleRight /\ OtHonest /\ ZerosRight
=============================================================================
