---------------------------- MODULE MCTokenCast ----------------------------
(* Small instances of TokenCast for TLC.                                     *)
EXTENDS TokenCast, TLC

CONSTANTS client, charged

\* A client whose calls are charged to the session it names: SES-tc-<id> is the
\* id again once it was cut at 44 characters of "tc-tc-tc-...".  It stands for
\* every program that resolves the session the shadow audit charges.
OneSession == {client}
ChargedToItself == client :> client

\* An ordinary client, whose calls are charged to another session.
TwoSessions == {client, charged}
ChargedToOther == client :> charged

Shadow == [soft |-> 2, hard |-> 3, max_turns |-> 3]
Engine == [soft |-> 1, hard |-> 2, max_turns |-> 2]

Symmetry == Permutations(Procs)

=============================================================================
