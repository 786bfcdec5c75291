--------------------------- MODULE MCAsyncSession ---------------------------
(* Values of AsyncSession's constants for TLC. *)
EXTENDS AsyncSession, TLC

\* Every session is configured with enough rounds, as by SessionRunConfig::default.
AmpleRounds == [p \in Parties |-> LastRound + 1]

\* Bound: one transport failure, stray message or crash in a run, whichever it
\* is; any number of sessions may time out.
OneFault == failures + strays + crashes <= 1

\* Parties are interchangeable: no definition tells them apart.
Symmetry == Permutations(Parties)
=============================================================================
