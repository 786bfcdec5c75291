---------------------------- MODULE SigningSuite ----------------------------
(* Every signing protocol that is modelled, against the one specification    *)
(* they all have: IdealEcdsa.  A behaviour is one session of one protocol,   *)
(* from key shares to signatures.                                            *)
EXTENDS ProtocolSession, Gg18, Dkls23, Ggn16, Cggmp20, Lin17, Xal21, Kgg24, Abc24,
        Ln18, Wmc24, Wmy23, Tx25, Jtx25, Llz25, Trout, Xal23, Ku24

Protocols ==
    {"gg18", "dkls23", "ggn16", "cggmp20", "lin17", "xal21", "kgg24",
     "abc24", "ln18", "wmc24", "wmy23", "tx25", "jtx25", "llz25",
     "trout", "xal23", "ku24", "jtx25_robust"}

Init ==
    /\ digest \in Digests
    /\ protocol \in Protocols
    /\ bent \in Bent
    /\ answer = [i \in Signers |-> Waiting]
    /\ \E f \in Sharings :
          /\ key = f[0]
          /\ \/ protocol = "gg18" /\ Gg18SignBegin(f)
             \/ protocol = "dkls23" /\ Dkls23SignBegin(f)
             \/ protocol = "ggn16" /\ Ggn16SignBegin(f)
             \/ protocol = "cggmp20" /\ Cggmp20SignBegin(f)
             \/ protocol = "lin17" /\ Lin17SignBegin(f)
             \/ protocol = "xal21" /\ Xal21SignBegin(f)
             \/ protocol = "kgg24" /\ Kgg24SignBegin(f)
             \/ protocol = "abc24" /\ Abc24SignBegin(f)
             \/ protocol = "ln18" /\ Ln18SignBegin(f)
             \/ protocol = "wmc24" /\ Wmc24SignBegin(f)
             \/ protocol = "wmy23" /\ Wmy23SignBegin(f)
             \/ protocol = "tx25" /\ Tx25SignBegin(f)
             \/ protocol = "jtx25" /\ Jtx25SignBegin(f)
             \/ protocol = "llz25" /\ Llz25SignBegin(f)
             \/ protocol = "trout" /\ TroutSignBegin(f)
             \/ protocol = "xal23" /\ Xal23SignBegin(f)
             \/ protocol = "ku24" /\ Ku24SignBegin(f)
             \/ protocol = "jtx25_robust" /\ Jtx25SignBegin(f)

Next ==
    \/ Gg18SignNext
    \/ Dkls23SignNext
    \/ Ggn16SignNext
    \/ Cggmp20SignNext
    \/ Lin17SignNext
    \/ Xal21SignNext
    \/ Kgg24SignNext
    \/ Abc24SignNext
    \/ Ln18SignNext
    \/ Wmc24SignNext
    \/ Wmy23SignNext
    \/ Tx25SignNext
    \/ Jtx25SignNext
    \/ Llz25SignNext
    \/ TroutSignNext
    \/ Xal23SignNext
    \/ Ku24SignNext

Spec == Init /\ [][Next]_vars /\ WF_vars(Next)

-----------------------------------------------------------------------------
\* What IdealEcdsa sees is the key, the digest and what was returned.  LN18 does
\* not test s: for the one digest and nonce in q without a signature it returns
\* s = 0, as a signature (state_rounds.rs:1275-1277).  That counts as the error
\* that every other protocol returns.
Seen == [i \in DOMAIN answer |-> IF Ln18Zero(answer[i]) THEN Refused ELSE answer[i]]
Ideal == INSTANCE IdealEcdsa WITH key <- key, digest <- digest, answer <- Seen

\* Every signer is handed the one low-s signature that verifies under the
\* shared key, or an error, whatever the nonces, masks and the signing subset,
\* and whichever share was wrong: what verify_ecdsa at the end of every
\* protocol (tecdsa-protocol/src/ecdsa.rs) is there for.
IsIdealEcdsa == Ideal!Spec

\* A presignature is used without a check: it fits the nonce and the key.
PresignaturesFit ==
    /\ Gg18Fits
    /\ Dkls23Fits
    /\ Ggn16Fits
    /\ Cggmp20Fits
    /\ Xal21Fits
    /\ Kgg24Fits
    /\ Ln18Fits
    /\ Wmc24Fits
    /\ Wmy23Fits
    /\ Tx25Fits
    /\ Jtx25Fits
    /\ Llz25Fits
    /\ TroutFits
    /\ Xal23Fits
    /\ Ku24Fits

\* A share of s is opened only when the shares add up to a signature.
NothingRevealedInVain ==
    /\ Gg18Revealed
    /\ Cggmp20Revealed
    /\ Ln18Revealed

\* Sessions that the code does not carry through, whatever is drawn in them:
\* the online machines of robust JTX25 sum the terms of those that are there, with
\* coefficients for all that presigned (sign/robust.rs:209-272, see
\* DropoutsTolerated), and XAL23 adds up key shares that its own key generation
\* does not share additively (xal23/src/presign/rounds.rs:210).
Unsupported ==
    \/ protocol \in {"jtx25", "jtx25_robust"} /\ Jtx25Left
    \/ protocol = "xal23" /\ Xal23Misfit

\* In any other session signers are refused only over a share that was wrong, or
\* where no signature exists or a shared random value is zero.
RefusedForAReason == Unsupported \/
    \A i \in DOMAIN answer : answer[i] = Refused =>
        CASE protocol = "gg18" -> Gg18Excuse
          [] protocol = "dkls23" -> Dkls23Excuse
          [] protocol = "ggn16" -> Ggn16Excuse
          [] protocol = "cggmp20" -> Cggmp20Excuse
          [] protocol = "lin17" -> Lin17Excuse
          [] protocol = "xal21" -> Xal21Excuse
          [] protocol = "kgg24" -> Kgg24Excuse
          [] protocol = "abc24" -> Abc24Excuse
          [] protocol = "ln18" -> Ln18Excuse
          [] protocol = "wmc24" -> Wmc24Excuse
          [] protocol = "wmy23" -> Wmy23Excuse
          [] protocol = "tx25" -> Tx25Excuse
          [] protocol = "jtx25" -> Jtx25Excuse
          [] protocol = "llz25" -> Llz25Excuse
          [] protocol = "trout" -> TroutExcuse
          [] protocol = "xal23" -> Xal23Excuse
          [] protocol = "ku24" -> Ku24Excuse
          [] protocol = "jtx25_robust" -> Jtx25Excuse

\* "tolerates dropouts after presign" (jtx25/src/lib.rs:10): that a signer has
\* left the robust variant is no reason to refuse the others.
DropoutsTolerated ==
    protocol = "jtx25_robust" /\ Jtx25Left =>
        \A i \in DOMAIN answer : answer[i] = Refused => Jtx25Excuse

\* Every machine of an honest signer returns, unless a message to one signer
\* made that one give up: then its RoundTimeout is left to end the others.
EverySignerAnswered ==
    <>(\A i \in DOMAIN answer : \/ answer[i] # Waiting \/ bent[i] # 0
                              \/ \E j \in DOMAIN answer : answer[j] = Refused)
=============================================================================
