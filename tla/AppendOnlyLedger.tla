-------------------------- MODULE AppendOnlyLedger --------------------------
(***************************************************************************)
(* What TraceKit promises of a session's ledger, with no hashes, no calls  *)
(* and no processes: entries are added one at a time at the end, in the    *)
(* order of their stamps, and are never changed or removed by the program; *)
(* a ledger freezes only after somebody corrupted it behind the program's  *)
(* back, and a frozen ledger stays as it is.                               *)
(***************************************************************************)
EXTENDS Integers, FiniteSets

CONSTANT Sessions

VARIABLES
    log,        \* session -> position -> entry, a record with a time
    frozen,     \* the sessions that refuse new entries
    corrupted   \* the sessions edited behind the program's back

vars == <<log, frozen, corrupted>>

Init ==
    /\ log = [s \in Sessions |-> [i \in {} |-> 0]]
    /\ frozen = {}
    /\ corrupted = {}

\* Everything but the ledger of s is as it was.
Only(s) == \A t \in Sessions \ {s} : log'[t] = log[t]

Kept(s) == \A i \in DOMAIN log[s] : i \in DOMAIN log'[s] /\ log'[s][i] = log[s][i]

\* One more entry; on a ledger nobody corrupted it goes to the end, and is not
\* older than the one before it.
Add(s) ==
    LET n == Cardinality(DOMAIN log[s]) IN
    /\ s \notin frozen
    /\ Only(s) /\ Kept(s)
    /\ \E i \in DOMAIN log'[s] \ DOMAIN log[s] :
          /\ DOMAIN log'[s] = DOMAIN log[s] \cup {i}
          /\ s \notin corrupted =>
                i = n /\ (n > 0 => log'[s][n].time >= log'[s][n - 1].time)
    /\ UNCHANGED <<frozen, corrupted>>

Freeze(s) ==
    /\ s \in corrupted
    /\ frozen' = frozen \cup {s}
    /\ UNCHANGED <<log, corrupted>>

Corrupt(s) ==
    /\ corrupted' = corrupted \cup {s}
    /\ Only(s)
    /\ UNCHANGED frozen

Next == \E s \in Sessions : Add(s) \/ Freeze(s) \/ Corrupt(s)

Spec == Init /\ [][Next]_vars

=============================================================================
