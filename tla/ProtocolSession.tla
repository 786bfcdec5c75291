--------------------------- MODULE ProtocolSession --------------------------
(* What the key generations and signing protocols have in common: parties   *)
(* that share a key by Shamir's scheme (tecdsa-vss), and machines that go    *)
(* through the stages of their protocol and return a key share, a signature  *)
(* or an error.  Each protocol module defines its stages; KeygenSuite and    *)
(* SigningSuite check them all.                                              *)
(*                                                                           *)
(* The stages are in lockstep.  A stage of a machine ends when the last      *)
(* message of its round is in, a party sends in a round only once it has     *)
(* left the one before (RoundBarrier, which AsyncSession is proved to        *)
(* implement), and what a stage computes does not depend on the order the    *)
(* messages came in; so one step takes every party through the stage.        *)
(*                                                                           *)
(* Encryptions, commitments and proofs are ideal: a ciphertext is what it    *)
(* decrypts to (wrapping where the code's plaintext space does), a           *)
(* commitment opens to what was committed, a proof verifies when what it     *)
(* claims is so.  What a proof claims is said where it is verified, and      *)
(* SigmaProofs checks that the proofs claim it.                              *)
EXTENDS PrimeField

CONSTANTS
    Parties,    \* the PartyIds of the key's holders, which are their sharing indices
    Quorum,     \* those that take part, unless the protocol is RunByAll
    T,          \* the reconstruction threshold
    Sharings,   \* the polynomials the key may be shared with
    Digests,    \* the digests to sign
    Scalars,    \* what random_scalar may return in these runs
    Dealt,      \* the polynomials a party may draw in key generation
    Bends,      \* the offsets of a share that a faulty party may use; 0 is honest
    PaillierN,  \* a Paillier modulus whose plaintexts may wrap
    WideN,      \* a plaintext space that the products of a protocol do not leave
    Masks,      \* what sample_below may return in these runs
    Blinds      \* what random_scalar may return where it hides something

ASSUME SigningAssumption ==
    /\ Parties \subseteq 1 .. Q - 1
    /\ T \in Nat \ {0}
    /\ Quorum \subseteq Parties /\ Cardinality(Quorum) >= T
    /\ Sharings \subseteq Polynomials(T)
    /\ Digests \subseteq Field
    /\ Scalars \subseteq RandomScalar
    /\ Dealt \subseteq Polynomials(T)
    /\ Bends \subseteq Field
    /\ Masks \subseteq Nat
    /\ Blinds \subseteq RandomScalar

\* Two-party protocols are run by two.
ASSUME QuorumAssumption == Cardinality(Quorum) >= 2

\* Masked products do not wrap around the moduli of the Paillier keys.
ASSUME ModuliAssumption ==
    /\ PaillierN \in Nat /\ PaillierN > 2 * Q * Q
    /\ WideN \in Nat /\ WideN > Q * Q * Q * Q * Q * Q * Q

VARIABLES
    protocol,   \* the protocol that is run
    stage,      \* the stage its machines are in
    key,        \* the secret key, which nobody holds
    digest,     \* DataToSign
    bent,       \* by how much each signer's share is off: 0 unless it is faulty
    know,       \* what the machines have drawn and computed, by name
    answer      \* what each machine has returned

vars == <<protocol, stage, key, digest, bent, know, answer>>

\* Robust protocols are run by everyone, so that they can go on without one, and
\* so is KU24, whose products are shared at twice the degree of the key.
RunByAll == {"tx25", "jtx25_robust", "ku24"}
Signers == IF protocol \in RunByAll THEN Parties ELSE Quorum

Others(i) == Signers \ {i}
Pairs == {p \in Signers \X Signers : p[1] # p[2]}

Waiting == [s |-> "waiting"]
Refused == [s |-> "refused"]
Everyone(outcome) == [i \in DOMAIN answer |-> outcome]

\* The two parties of a two-party protocol.
P1 == CHOOSE i \in Signers : \A j \in Signers : i <= j
P2 == CHOOSE i \in Others(P1) : \A j \in Others(P1) : i <= j

\* What P1 and P2 have of something.
OfTwo(one, two) == [i \in {P1, P2} |-> IF i = P1 THEN one ELSE two]

\* Who takes part: of a two-party protocol, P1 and P2.
TwoParty == {"lin17", "xal21", "kgg24", "abc24"}
Participants == IF protocol \in TwoParty THEN {P1, P2} ELSE Signers

\* At most one party is faulty; what its offset is added to is said by each
\* protocol.
Straight == [i \in Signers |-> 0]
Bent == {[Straight EXCEPT ![i] = e] : i \in Signers, e \in Bends}

\* The party that a faulty party sends a wrong share to; the share it keeps is
\* never altered.
Victim(d) == IF d = P1 THEN P2 ELSE P1

\* In protocols with several places to fail at, `fault` names the one where the
\* faulty party deviates.
Faulty(i, where) == know.fault = where /\ bent[i] # 0
Off(i, where) == IF know.fault = where THEN bent[i] ELSE 0
Faults(places) == IF bent = Straight THEN {"none"} ELSE places

\* The position of a party among those that take part, from 1.
Position(i) == Cardinality({j \in Signers : j <= i})
Positions == 1 .. Cardinality(Signers)

\* The fields of `new`, and those of `old` that it does not replace.
With(new, old) == [x \in (DOMAIN new) \cup (DOMAIN old) |->
                      IF x \in DOMAIN new THEN new[x] ELSE old[x]]

\* One stage: what it computes is added to what is known.  (The quantifier over
\* one value has TLC evaluate it once.)
Step(from, to, facts) ==
    /\ stage = from
    /\ stage' = to
    /\ \E new \in {facts} : know' = With(new, know)
    /\ UNCHANGED <<protocol, key, digest, bent, answer>>

\* A stage that only lets the machines go on.
Pass(from, to) == stage = from /\ stage' = to /\ UNCHANGED <<protocol, key, digest, bent, know, answer>>

\* The last stage of a protocol, or an early return of it.
Return(from, answers) ==
    /\ stage = from
    /\ stage' = "ended"
    /\ answer' = answers
    /\ UNCHANGED <<protocol, key, digest, bent, know>>

\* A broadcast that does not verify is refused by everyone but its sender, whose
\* own machine is not followed further.
RefuseFaulty(from, where) ==
    Return(from, [i \in DOMAIN answer |-> IF Faulty(i, where) THEN Waiting ELSE Refused])

\* A message to one party that does not verify is refused by that party, and
\* the others wait for what it would have sent next.
RefuseVictim(from, where) ==
    Return(from, [i \in DOMAIN answer |->
        IF \E d \in DOMAIN answer : Faulty(d, where) /\ i = Victim(d) THEN Refused ELSE Waiting])

\* Paillier decryption returns the integer around zero that the plaintext is
\* congruent to modulo n.
Signed(x, n) == LET m == x % n IN IF 2 * m >= n THEN m - n ELSE m

\* MtA over Paillier (tecdsa-paillier/src/mta.rs): the receiver multiplies the
\* sender's encrypted b by its own a and adds a mask below q^2.  It keeps minus
\* the mask, the sender what it decrypts, and the two add up to a b as long as
\* the plaintext does not wrap.
MtaReceiverShare(mask) == Neg(Fl(mask))
MtaSenderShare(a, b, mask, n) == Fl(Signed(a * b + mask, n))

-----------------------------------------------------------------------------
(* Key generation.                                                           *)

Bend(value, d, p) == IF p = Victim(d) THEN Fl(value + bent[d]) ELSE value

\* What the polynomials of all dealers add up to at x.
Dealers(poly, x) == Total([d \in Signers |-> Eval(poly[d], x)], Signers)

\* The publicly verified sharings of three protocols (pvss_share.rs): the shares
\* of the dealers add up, one of them off by what a faulty dealer bent it by.
SharesDealt(poly, p) ==
    Fl(Dealers(poly, p) + Total([d \in Signers |-> IF p = Victim(d) THEN Off(d, "sharing") ELSE 0], Signers))

\* Whether R_Sh (zk/r_sh.rs) refuses the faulty dealer's sharing: the degree of
\* its dual code, n - T - 2, must not be negative, or nothing is checked.
SharingRefused == (\E d \in Signers : Faulty(d, "sharing")) /\ Cardinality(Signers) >= T + 2

\* The sum of the secrets the dealers drew: the key.
Secret(poly) == Total([d \in Signers |-> poly[d][0]], Signers)

\* A key share: the secret share, the public shares and the public key.
KeyShare(share, points, pk) == [share |-> share, points |-> points, pk |-> pk]

\* Who holds a key share.
Holders == {i \in DOMAIN answer : answer[i] \notin {Waiting, Refused}}
Held == [i \in Holders |-> answer[i].share]

-----------------------------------------------------------------------------
(* Signing.                                                                  *)

\* low_s_normalize, then verify_ecdsa: how every protocol ends.
Checked(r, s) ==
    LET sig == [r |-> r, s |-> LowS(s)]
    IN IF VerifyEcdsa(sig, key, digest) THEN sig ELSE Refused

\* s = 0 has no inverse, whichever protocol computed it: the one digest and
\* nonce in q for which a correct protocol has to give up.
NoSignature(r) == Fl(digest + r * key) = 0
=============================================================================
