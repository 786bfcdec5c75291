----------------------------- MODULE IdealEcdsa -----------------------------
(* What every threshold signing protocol of the repository promises,        *)
(* whatever its rounds are: a trusted party holds the key, and each signer   *)
(* is handed the same low-s signature of the digest, or an error.  A signer  *)
(* is answered once.                                                         *)
EXTENDS PrimeField

CONSTANT Parties

VARIABLES key,      \* the secret key that no signer holds
          digest,   \* the digest all of them sign
          answer    \* what each signer's machine has returned

Waiting == [s |-> "waiting"]
Refused == [s |-> "refused"]

Init ==
    /\ key \in Field
    /\ digest \in Field
    /\ \E signers \in SUBSET Parties : answer = [p \in signers |-> Waiting]

\* Some of the waiting signers are answered, all with the one signature `sig`
\* or with an error, and `sig` is what anyone before them was handed.
Answer(sig) ==
    /\ VerifyEcdsa(sig, key, digest)
    /\ sig.s = LowS(sig.s)
    /\ \A p \in DOMAIN answer :
          \/ answer'[p] = answer[p] /\ answer[p] \in {Waiting, Refused, sig}
          \/ answer[p] = Waiting /\ answer'[p] \in {Refused, sig}

Refuse ==
    \A p \in DOMAIN answer : answer'[p] # answer[p] =>
                          answer[p] = Waiting /\ answer'[p] = Refused

Next ==
    /\ UNCHANGED <<key, digest>>
    /\ DOMAIN answer' = DOMAIN answer
    /\ Refuse \/ \E sig \in Signatures : Answer(sig)

Spec == Init /\ [][Next]_<<key, digest, answer>>
=============================================================================
