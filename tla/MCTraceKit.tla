----------------------------- MODULE MCTraceKit -----------------------------
(* Small instances of TraceKit for TLC. *)
EXTENDS TraceKit, TLC

\* The digests that are not Malformed are interchangeable: no
\* definition names one of them.
Symmetry == Permutations(Digests)

\* A machine whose clock is never set back.
ForwardSpec == Init /\ [][Next /\ clock' >= clock]_vars

=============================================================================
