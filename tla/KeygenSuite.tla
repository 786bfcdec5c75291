---------------------------- MODULE KeygenSuite -----------------------------
(* Every key generation that is modelled.  A behaviour is one session of one *)
(* protocol, among honest parties and at most one faulty one.                *)
EXTENDS ProtocolSession, Gg18, Dkls23, Ggn16, Cggmp20, Lin17, Xal21, Kgg24, Abc24,
        Ln18, Wmc24, Wmy23, Tx25, Jtx25, Llz25, Trout, Xal23, Ku24

\* A key is generated by all who will hold it, and their PartyIds count from
\* one, as they do wherever the repository runs one: some of the protocols take
\* the PartyId for the index of a share, and others the position.
ASSUME KeygenAssumption == Quorum = Parties /\ Parties = 1 .. Cardinality(Parties)

Protocols ==
    {"gg18", "dkls23", "ggn16", "cggmp20", "lin17", "xal21", "kgg24",
     "abc24", "ln18", "wmc24", "wmy23", "tx25", "jtx25", "llz25",
     "trout", "xal23", "ku24"}

Init ==
    /\ digest = 0
    /\ protocol \in Protocols
    /\ bent \in Bent
    /\ \/ protocol = "gg18" /\ Gg18KeygenBegin
       \/ protocol = "dkls23" /\ Dkls23KeygenBegin
       \/ protocol = "ggn16" /\ Ggn16KeygenBegin
       \/ protocol = "cggmp20" /\ Cggmp20KeygenBegin
       \/ protocol = "lin17" /\ Lin17KeygenBegin
       \/ protocol = "xal21" /\ Xal21KeygenBegin
       \/ protocol = "kgg24" /\ Kgg24KeygenBegin
       \/ protocol = "abc24" /\ Abc24KeygenBegin
       \/ protocol = "ln18" /\ Ln18KeygenBegin
       \/ protocol = "wmc24" /\ Wmc24KeygenBegin
       \/ protocol = "wmy23" /\ Wmy23KeygenBegin
       \/ protocol = "tx25" /\ Tx25KeygenBegin
       \/ protocol = "jtx25" /\ Jtx25KeygenBegin
       \/ protocol = "llz25" /\ Llz25KeygenBegin
       \/ protocol = "trout" /\ TroutKeygenBegin
       \/ protocol = "xal23" /\ Xal23KeygenBegin
       \/ protocol = "ku24" /\ Ku24KeygenBegin
    /\ answer = [p \in Participants |-> Waiting]

Next ==
    \/ Gg18KeygenNext
    \/ Dkls23KeygenNext
    \/ Ggn16KeygenNext
    \/ Cggmp20KeygenNext
    \/ Lin17KeygenNext
    \/ Xal21KeygenNext
    \/ Kgg24KeygenNext
    \/ Abc24KeygenNext
    \/ Ln18KeygenNext
    \/ Wmc24KeygenNext
    \/ Wmy23KeygenNext
    \/ Tx25KeygenNext
    \/ Jtx25KeygenNext
    \/ Llz25KeygenNext
    \/ TroutKeygenNext
    \/ Xal23KeygenNext
    \/ Ku24KeygenNext

Spec == Init /\ [][Next]_vars /\ WF_vars(Next)

-----------------------------------------------------------------------------
\* How the shares make up the key, and whether the parties confirm that they
\* do before they keep them.
Shamir ==
    {"gg18", "dkls23", "cggmp20", "ln18", "wmc24", "wmy23", "tx25",
     "jtx25", "llz25", "trout", "xal23", "ku24"}
Additive ==
    {"ggn16", "xal21", "kgg24", "abc24"}
Multiplicative ==
    {"lin17"}
Confirmed ==
    {"gg18", "ln18"}

\* Protocols whose sharings everyone verifies, and in which a party announces
\* the point of the share it was dealt.
Announcing ==
    {"wmc24", "tx25", "jtx25"}

\* A party announced the point of another share than its own; nothing proves
\* the point, and PointsOfShares shows what comes of it.
WrongPoint == protocol \in Announcing /\ know.fault = "announced"

\* A dealer's sharing is wrong, and R_Sh has nothing to test among so few
\* parties (VerifiedIsShared).
WrongSharing == protocol \in Announcing /\ know.fault = "sharing" /\ Cardinality(Signers) < T + 2

\* Key shares that were handed out are shares of the one key that the dealers
\* drew, although each party verified only what was sent to it: any T of them,
\* or all of them, make it up, unless there was a wrong sharing that could not
\* be tested.  The public share each holds of another is that of the share the
\* other holds, unless that one announced a wrong point; the public key is the
\* dealers' unless there was either; and whatever there was, the parties that
\* deviate from nothing hold the same one.
SharesOfOneKey ==
    /\ ~WrongPoint => \A p, d \in Holders : answer[p].points[d] = answer[d].share
    /\ ~WrongPoint /\ ~WrongSharing => \A p \in Holders : answer[p].pk = key
    /\ \A p, d \in Holders : bent[p] = 0 /\ bent[d] = 0 => answer[p].pk = answer[d].pk
    /\ protocol \in Shamir /\ ~WrongSharing => \A S \in SUBSET Holders :
          Cardinality(S) = T => Reconstruct(Held, S) = key
    /\ Holders = DOMAIN answer =>
          /\ protocol \in Additive => Total(Held, Holders) = key
          /\ protocol \in Multiplicative => Product(Held, Holders) = key

\* What a key share documents (tx25/src/key_share.rs:44): the public share of a
\* party is the point of the share that party holds.
PointsOfShares == \A p, d \in Holders : answer[p].points[d] = answer[d].share

\* A ciphertext that stands for the key in later sessions encrypts it, and what
\* is encrypted to the holders in later sessions can be decrypted by them.
EncryptedKeysFit ==
    /\ protocol = "ggn16" => Ggn16KeyEncrypted
    /\ protocol = "cggmp20" => Cggmp20KeyEncrypted
    /\ protocol = "lin17" => Lin17KeyEncrypted
    /\ protocol = "kgg24" => Kgg24KeyEncrypted
    /\ protocol = "wmc24" => Wmc24KeyEncrypted
    /\ protocol = "jtx25" => Jtx25KeyEncrypted
    /\ protocol = "llz25" => Llz25KeyEncrypted
    /\ protocol = "trout" => TroutKeyEncrypted

\* A bad share or decommitment stops everyone in a protocol that confirms: no
\* party keeps a key share while another refuses, because the one that found
\* the fault never sends its confirmation.
AllOrNobody ==
    protocol \in Confirmed => (Holders # {} => \A p \in DOMAIN answer : answer[p] # Refused)

\* Honest parties are never refused, and all of them end with a key share.
HonestRunCompletes == bent = Straight => <>(Holders = DOMAIN answer)

\* A share an honest key generation hands out passes the validation that is
\* required before it is used (KeyShareValidation, validated.rs).  No run checks
\* it: the last party's share of DKLs23 fails, whose party_index counts from 1 and
\* is validated as if from 0 (dkls23/src/key_share.rs:85; README, section 5).
HonestSharesValidate ==
    \A p \in Holders : protocol = "dkls23" => Dkls23Validates(p, Cardinality(Signers))
=============================================================================
