------------------------------ MODULE TraceKit ------------------------------
(***************************************************************************)
(* The TraceKit audit ledger: tracekit.db, the store every process opens   *)
(* on it (ctxfw.audit.store), the sealed DDL whose triggers guard every    *)
(* row (audit/schema.sql), and the hash-chain verifier                     *)
(* (ctxfw.audit.verifier).                                                 *)
(*                                                                         *)
(* Several processes share the file.  A call stamps its block with the     *)
(* clock BEFORE it opens its transaction, an audit reads the chain, then   *)
(* the latch, then writes its verdict, and other processes run in between; *)
(* BEGIN IMMEDIATE makes each transaction one atomic step, refused with    *)
(* "database is locked" while somebody else writes.  A process may die     *)
(* between two steps.  The file may be edited offline, past the triggers:  *)
(* that is what the hash chain is there to reveal.                         *)
(*                                                                         *)
(* A hash is modelled as its preimage: two hashes are equal exactly when   *)
(* what was hashed is (collisions are out of scope).                       *)
(***************************************************************************)
EXTENDS Integers, Sequences, FiniteSets

CONSTANTS
    Procs,          \* processes, each with its own connection to the file
    Sessions,       \* session ids
    Digests,        \* well-formed intent/reasoning/action digests
    Malformed,      \* a digest that is not 64 lowercase hex characters
    MAX_RETRIES,    \* kernel/retry.py: 3
    MAX_BLOCK_SEQ,  \* CHECK (block_seq BETWEEN 0 AND 1000000)
    MaxClock,       \* bound: the largest time the clock shows
    MaxVerdicts,    \* bound: no audit is begun once a session has this many
    MaxEdits        \* bound: offline edits per session

ASSUME DigestsAssumption == Malformed \notin Digests
ASSUME LimitsAssumption == MAX_RETRIES \in Nat /\ MAX_BLOCK_SEQ \in Nat
ASSUME BoundsAssumption == MaxClock \in Nat /\ MaxVerdicts \in Nat /\ MaxEdits \in Nat

VARIABLES
    clock,     \* the clock every process reads
    sessions,  \* table tracekit_sessions
    blocks,    \* table tracekit_audit_blocks: session -> block_seq -> row
    events,    \* table tracekit_verification_events: session -> verdicts
    call,      \* the ledger call each process is in
    report,    \* what the step just taken returned or raised to its caller, if anything
    edits,     \* history: the offline edits of each session, in order
    endorsed   \* history: the hashes the appends of a session sealed or built upon

tables == <<sessions, blocks, events>>
vars == <<clock, sessions, blocks, events, call, report, edits, endorsed>>

NoSeq == -1
NoSession == [genesis |-> <<>>, created_at |-> 0]
NoRows == [i \in {} |-> 0]

-----------------------------------------------------------------------------
(* Hashes, blocks and verdicts *)

\* derive_genesis_hash: bound to the session id
Genesis(s) == <<"genesis", s>>

\* compute_block_hash over the fixed-width preimage
BlockHash(prev, digest, time) == <<prev, digest, time>>

\* seal_block
SealBlock(prev, digest, time) ==
    [prev |-> prev, digest |-> digest, time |-> time, current |-> BlockHash(prev, digest, time)]

\* ChainVerificationAuditDTO, reduced to the verdict
Audit(broken) == [is_tampered |-> broken # NoSeq, broken |-> broken]
FailClosedAudit == Audit(0)

Latched(s) == \E i \in DOMAIN events[s] : events[s][i].is_tampered

\* latched_broken_seq: the earliest persisted tampered verdict, the one after
\* the clean verdicts the session began with
CleanPrefix(s) == {i \in DOMAIN events[s] : \A j \in 1 .. i : ~events[s][j].is_tampered}
LatchedBrokenSeq(s) ==
    IF Latched(s) THEN events[s][Cardinality(CleanPrefix(s)) + 1].broken ELSE NoSeq

\* Faulty variant: the latch is ignored.
ApplyNoLatch(audit, latched) == audit

\* apply_latch: a latched session is never reported clean
ApplyLatch(audit, latched) ==
    IF latched = NoSeq \/ audit.is_tampered THEN audit ELSE Audit(latched)

-----------------------------------------------------------------------------
(* verify_chain over rows ordered by block_seq *)

Count(rows) == Cardinality(DOMAIN rows)

\* Faulty variants: equal stamps count as a regression; the hash is not
\* recomputed; the link to the predecessor is not compared.
ConsistentStrictTime(genesis, rows, i) ==
    /\ i \in DOMAIN rows
    /\ i > 0 => i - 1 \in DOMAIN rows /\ rows[i].time > rows[i - 1].time
    /\ rows[i].prev = IF i = 0 THEN genesis ELSE rows[i - 1].current
    /\ rows[i].current = BlockHash(rows[i].prev, rows[i].digest, rows[i].time)
ConsistentNoHash(genesis, rows, i) ==
    /\ i \in DOMAIN rows
    /\ i > 0 => i - 1 \in DOMAIN rows /\ rows[i].time >= rows[i - 1].time
    /\ rows[i].prev = IF i = 0 THEN genesis ELSE rows[i - 1].current
ConsistentNoLink(genesis, rows, i) ==
    /\ i \in DOMAIN rows
    /\ i > 0 => i - 1 \in DOMAIN rows /\ rows[i].time >= rows[i - 1].time
    /\ rows[i].current = BlockHash(rows[i].prev, rows[i].digest, rows[i].time)

\* The checks of position i.  (A missing predecessor is itself an earlier
\* inconsistent position, so it may fail this one too.)
Consistent(genesis, rows, i) ==
    /\ i \in DOMAIN rows
    /\ i > 0 => i - 1 \in DOMAIN rows /\ rows[i].time >= rows[i - 1].time
    /\ rows[i].prev = IF i = 0 THEN genesis ELSE rows[i - 1].current
    /\ rows[i].current = BlockHash(rows[i].prev, rows[i].digest, rows[i].time)

\* Faulty variant: one position too many.
PositionsOffByOne(rows) == 0 .. Count(rows)

\* The positions the audit walks through before it meets the first failure,
\* which is therefore at position Cardinality(SoundPrefix(genesis, rows)).
Positions(rows) == 0 .. Count(rows) - 1
SoundPrefix(genesis, rows) ==
    {i \in Positions(rows) : \A j \in 0 .. i : Consistent(genesis, rows, j)}

\* verify_fail_closed after load_blocks: a malformed row fails closed
VerifyChain(s, genesis, rows) ==
    IF \/ \E i \in DOMAIN rows : rows[i].digest = Malformed
       \/ genesis # Genesis(s)
    THEN FailClosedAudit
    ELSE LET sound == SoundPrefix(genesis, rows) IN
         Audit(IF sound = Positions(rows) THEN NoSeq ELSE Cardinality(sound))

-----------------------------------------------------------------------------
(* The ledger FSM (audit/contracts.py): every pair that is not in the table *)
(* is fail-closed, and terminal states absorb.                              *)

TERMINAL_STATES == {"VERIFIED_CLEAN", "TAMPER_DETECTED", "REJECTED_INVALID"}

TRANSITION_TABLE ==
    {<<"RECEIVED", "INTENT_OK", "INTENT_CAPTURED">>,
     <<"INTENT_CAPTURED", "REASONING_OK", "REASONING_CAPTURED">>,
     <<"REASONING_CAPTURED", "ACTION_OK", "ACTION_CAPTURED">>,
     <<"ACTION_CAPTURED", "SEAL_OK", "SEALED">>,
     <<"SEALED", "WAL_COMMIT", "APPENDED">>,
     <<"APPENDED", "VERIFY_START", "VERIFYING">>,
     <<"VERIFYING", "CHAIN_INTACT", "VERIFIED_CLEAN">>,
     <<"VERIFYING", "CHAIN_BROKEN", "TAMPER_DETECTED">>}

Transition(state, event) ==
    IF state \in TERMINAL_STATES THEN state
    ELSE IF \E t \in TRANSITION_TABLE : t[1] = state /\ t[2] = event
         THEN (CHOOSE t \in TRANSITION_TABLE : t[1] = state /\ t[2] = event)[3]
         ELSE "REJECTED_INVALID"

-----------------------------------------------------------------------------
(* The rows the DDL refuses.  The triggers run before the row is stored;    *)
(* when several of them apply, any one of them may be the one that aborts.  *)

\* Faulty variants: a trigger, or the UNIQUE constraint, is missing.
NoTimestampTrigger(s, session, n, b) ==
    LET rows == blocks[s] IN
    {why \in {"tamper_latch", "unique"} :
        \/ why = "tamper_latch" /\ Latched(s)
        \/ why = "unique" /\ n \in DOMAIN rows}
NoLatchTrigger(s, session, n, b) ==
    LET rows == blocks[s] IN
    {why \in {"timestamp_monotonic", "after_session", "unique"} :
        \/ why = "timestamp_monotonic" /\ n - 1 \in DOMAIN rows /\ rows[n - 1].time > b.time
        \/ why = "after_session" /\ n = 0 /\ b.time < session.created_at
        \/ why = "unique" /\ n \in DOMAIN rows}
NoUniqueConstraint(s, session, n, b) ==
    LET rows == blocks[s] IN
    {why \in {"timestamp_monotonic", "after_session", "tamper_latch"} :
        \/ why = "timestamp_monotonic" /\ n - 1 \in DOMAIN rows /\ rows[n - 1].time > b.time
        \/ why = "after_session" /\ n = 0 /\ b.time < session.created_at
        \/ why = "tamper_latch" /\ Latched(s)}

\* Why the DDL aborts INSERT INTO tracekit_audit_blocks of row b at seq n.
BlockAborts(s, session, n, b) ==
    LET rows == blocks[s] IN
    {why \in {"sequential", "chain_link", "timestamp_monotonic", "after_session",
              "tamper_latch", "unique"} :
        \/ why = "sequential" /\ n # Count(rows)
        \/ why = "chain_link"
             /\ b.prev # IF n - 1 \in DOMAIN rows THEN rows[n - 1].current ELSE session.genesis
        \/ why = "timestamp_monotonic" /\ n - 1 \in DOMAIN rows /\ rows[n - 1].time > b.time
        \/ why = "after_session" /\ n = 0 /\ b.time < session.created_at
        \/ why = "tamper_latch" /\ Latched(s)
        \/ why = "unique" /\ n \in DOMAIN rows}

\* Faulty variant: the tamper_sticky trigger is missing.
NoStickyTrigger(s, audit) ==
    {why \in {"broken_seq_in_range"} : audit.is_tampered /\ audit.broken >= Count(blocks[s])}

\* Why the DDL aborts INSERT INTO tracekit_verification_events.
VerdictAborts(s, audit) ==
    {why \in {"tamper_sticky", "broken_seq_in_range"} :
        \/ why = "tamper_sticky" /\ ~audit.is_tampered /\ Latched(s)
        \/ why = "broken_seq_in_range" /\ audit.is_tampered /\ audit.broken >= Count(blocks[s])}

\* _classify_integrity_error
Classify(why) == IF why = "chain_link" THEN "SECURITY" ELSE "BUSINESS"

-----------------------------------------------------------------------------
(* Calls *)

Idle == [pc |-> "idle"]
NoReport == [kind |-> "none"]

Appended(s) ==
    [kind |-> "append", session |-> s, failure |-> "NONE",
     state |-> Transition("SEALED", "WAL_COMMIT")]

\* _rejected
Rejected(s, failure, event) ==
    [kind |-> "append", session |-> s, failure |-> failure,
     state |-> Transition("SEALED", event)]

AuditReport(c, state) ==
    [kind |-> c.kind, session |-> c.session, state |-> state,
     audit |-> c.audit, began_latched |-> c.began_latched]

Begin(p, c) ==
    /\ call[p].pc = "idle"
    /\ call' = [call EXCEPT ![p] = c]
    /\ report' = NoReport

Return(p, r) ==
    /\ call' = [call EXCEPT ![p] = Idle]
    /\ report' = r

Init ==
    /\ clock = 0
    /\ sessions = [s \in Sessions |-> NoSession]
    /\ blocks = [s \in Sessions |-> NoRows]
    /\ events = [s \in Sessions |-> <<>>]
    /\ call = [p \in Procs |-> Idle]
    /\ report = NoReport
    /\ edits = [s \in Sessions |-> <<>>]
    /\ endorsed = [s \in Sessions |-> {}]

\* The wall clock of the host, which may also be set back.
Tick ==
    /\ \E now \in 0 .. MaxClock \ {clock} : clock' = now
    /\ report' = NoReport
    /\ UNCHANGED <<tables, call, edits, endorsed>>

\* record_step and append_event_outcome: the triad is captured and the block
\* stamped; the transaction comes later.
RecordStep(p, s, d) ==
    /\ Begin(p, [pc |-> "append", session |-> s, digest |-> d, time |-> clock, attempts |-> 0])
    /\ UNCHANGED <<clock, tables, edits, endorsed>>

\* record_step, when capture_triad refuses the input.
CaptureRejected(p, s) ==
    /\ call[p].pc = "idle"
    /\ Return(p, Rejected(s, "DETERMINISTIC", "VALIDATION_FAIL"))
    /\ UNCHANGED <<clock, tables, edits, endorsed>>

SessionRow(s, time) ==
    IF sessions[s] = NoSession THEN [genesis |-> Genesis(s), created_at |-> time]
    ELSE sessions[s]

\* The predecessor hash _append_txn reads: the genesis when the row is missing.
PrevHash(s, session) ==
    LET n == Count(blocks[s]) IN
    IF n > 0 /\ n - 1 \in DOMAIN blocks[s] THEN blocks[s][n - 1].current ELSE session.genesis

Insert(rows, n, b) == [i \in DOMAIN rows \cup {n} |-> IF i = n THEN b ELSE rows[i]]

\* Faulty variant: the session row outlives the refused block.
RollbackBlockOnly(s, session) ==
    /\ sessions' = [sessions EXCEPT ![s] = session]
    /\ UNCHANGED <<blocks, events, endorsed>>

\* Every refusal rolls the whole transaction back, the session row it may have
\* inserted included.
Rollback(s, session) == UNCHANGED <<tables, endorsed>>

\* _append_txn and the classification in append_digests.
AppendTxn(p) ==
    LET c == call[p]
        s == c.session
        session == SessionRow(s, c.time)
        n == Count(blocks[s])
        b == SealBlock(PrevHash(s, session), c.digest, c.time)
        invalid == c.digest = Malformed \/ n > MAX_BLOCK_SEQ
        aborts == BlockAborts(s, session, n, b)
    IN
    /\ c.pc = "append"
    /\ \/ /\ invalid
          /\ Return(p, Rejected(s, "DETERMINISTIC", "VALIDATION_FAIL"))
          /\ Rollback(s, session)
       \/ /\ ~invalid
          /\ \E why \in aborts : Return(p, Rejected(s, Classify(why), "VALIDATION_FAIL"))
          /\ Rollback(s, session)
       \/ /\ ~invalid
          /\ aborts = {}
          /\ sessions' = [sessions EXCEPT ![s] = session]
          /\ blocks' = [blocks EXCEPT ![s] = Insert(blocks[s], n, b)]
          /\ endorsed' = [endorsed EXCEPT ![s] = @ \cup {b.prev, b.current}]
          /\ Return(p, Appended(s))
          /\ UNCHANGED events
    /\ UNCHANGED <<clock, edits>>

\* verify_session (kind "verify") and query_audit_ledger ("query"), up to the
\* audit of the blocks they read.
LoadChain(p, s, kind) ==
    /\ call[p].pc = "idle"
    /\ Len(events[s]) < MaxVerdicts
    /\ IF sessions[s] = NoSession
       THEN Return(p, [kind |-> "unknown", session |-> s])
       ELSE Begin(p, [pc |-> "loaded", kind |-> kind, session |-> s,
                      audit |-> VerifyChain(s, sessions[s].genesis, blocks[s]),
                      began_latched |-> Latched(s)])
    /\ UNCHANGED <<clock, tables, edits, endorsed>>

\* Both then read the latch; only verify_session goes on to write.
ReadLatch(p) ==
    LET c == [call[p] EXCEPT !.audit = ApplyLatch(call[p].audit, LatchedBrokenSeq(call[p].session))]
    IN
    /\ call[p].pc = "loaded"
    /\ \/ /\ c.kind = "verify"
          /\ call' = [call EXCEPT ![p] =
                [pc |-> "persist", kind |-> c.kind, session |-> c.session, audit |-> c.audit,
                 began_latched |-> c.began_latched, attempts |-> 0]]
          /\ report' = NoReport
       \/ /\ c.kind = "query"
          /\ Return(p, AuditReport(c, "AUDIT"))
    /\ UNCHANGED <<clock, tables, edits, endorsed>>

\* A verdict that could not be written: verify_session raises.
PersistFailure(c, cause) ==
    AuditReport(c, IF c.audit.is_tampered THEN "LatchPersistenceError" ELSE cause)

\* _persist_verdict_txn
PersistVerdict(p) ==
    LET c == call[p] IN
    /\ c.pc = "persist"
    /\ \/ /\ VerdictAborts(c.session, c.audit) # {}
          /\ Return(p, PersistFailure(c, "IntegrityError"))
          /\ UNCHANGED events
       \/ /\ VerdictAborts(c.session, c.audit) = {}
          /\ events' = [events EXCEPT ![c.session] = Append(@, c.audit)]
          /\ Return(p, AuditReport(c, "AUDIT"))
    /\ UNCHANGED <<clock, sessions, blocks, edits, endorsed>>

\* Faulty variants: the retries are never exhausted, or start over.
WalBusyUnbounded(p) ==
    /\ call[p].pc \in {"append", "persist"}
    /\ call' = [call EXCEPT ![p].attempts = @ + 1]
    /\ report' = NoReport
    /\ UNCHANGED <<clock, tables, edits, endorsed>>
WalBusyStartsOver(p) ==
    /\ call[p].pc \in {"append", "persist"}
    /\ call' = [call EXCEPT ![p].attempts = (@ + 1) % (MAX_RETRIES + 1)]
    /\ report' = NoReport
    /\ UNCHANGED <<clock, tables, edits, endorsed>>

\* run_with_wal_retry: BEGIN IMMEDIATE found the database locked.
WalBusy(p) ==
    LET c == call[p] IN
    /\ c.pc \in {"append", "persist"}
    /\ IF c.attempts < MAX_RETRIES
       THEN /\ call' = [call EXCEPT ![p].attempts = @ + 1]
            /\ report' = NoReport
       ELSE Return(p, IF c.pc = "append"
                      THEN Rejected(c.session, "TRANSIENT", "WAL_RETRY_EXHAUSTED")
                      ELSE PersistFailure(c, "RetryExhausted"))
    /\ UNCHANGED <<clock, tables, edits, endorsed>>

\* The process dies; its open transaction, if any, is rolled back.
Crash(p) ==
    /\ call[p].pc # "idle"
    /\ Return(p, NoReport)
    /\ UNCHANGED <<clock, tables, edits, endorsed>>

-----------------------------------------------------------------------------
(* Offline edits of the file, outside the program: they bypass the triggers *)
(* but know only how to change a row's content ("alter"), to recompute its  *)
(* hash as well ("reseal"), to make it unreadable ("malform"), to remove it *)
(* ("remove") or to replace the session's genesis ("genesis").  Re-chaining *)
(* the blocks after an edited one is outside what the audit claims to see.  *)

EditKinds == {"alter", "reseal", "malform", "remove", "genesis"}
EditRecords == [kind : EditKinds, seq : Nat, last : Int]

Edited(s) == edits[s] # <<>>

EditedRow(row, kind, d) ==
    CASE kind = "alter"   -> [row EXCEPT !.digest = d]
      [] kind = "reseal"  -> SealBlock(row.prev, d, row.time)
      [] kind = "malform" -> [row EXCEPT !.digest = Malformed]

LogEdit(s, kind, k) ==
    edits' = [edits EXCEPT ![s] = Append(@, [kind |-> kind, seq |-> k, last |-> Count(blocks[s]) - 1])]

EditRow(s, k, kind, d) ==
    /\ EditedRow(blocks[s][k], kind, d) # blocks[s][k]
    /\ blocks' = [blocks EXCEPT ![s] = Insert(@, k, EditedRow(@[k], kind, d))]
    /\ LogEdit(s, kind, k)
    /\ UNCHANGED sessions

RemoveRow(s, k) ==
    /\ blocks' = [blocks EXCEPT ![s] = [i \in DOMAIN @ \ {k} |-> @[i]]]
    /\ LogEdit(s, "remove", k)
    /\ UNCHANGED sessions

ForgeGenesis(s) ==
    /\ sessions' = [sessions EXCEPT ![s].genesis = <<"forged", s>>]
    /\ LogEdit(s, "genesis", 0)
    /\ UNCHANGED blocks

OfflineEdit(s) ==
    /\ sessions[s] # NoSession
    /\ Len(edits[s]) < MaxEdits
    /\ \/ \E k \in DOMAIN blocks[s], kind \in {"alter", "reseal", "malform"}, d \in Digests :
             EditRow(s, k, kind, d)
       \/ \E k \in DOMAIN blocks[s] : RemoveRow(s, k)
       \/ ForgeGenesis(s)
    /\ report' = NoReport
    /\ UNCHANGED <<clock, events, call, endorsed>>

-----------------------------------------------------------------------------

\* The steps that carry a call to its end.
Advance(p) == AppendTxn(p) \/ ReadLatch(p) \/ PersistVerdict(p) \/ WalBusy(p)

Call(p) ==
    \E s \in Sessions :
       \/ \E d \in Digests \cup {Malformed} : RecordStep(p, s, d)
       \/ CaptureRejected(p, s)
       \/ \E kind \in {"verify", "query"} : LoadChain(p, s, kind)

Program == Tick \/ \E p \in Procs : Call(p) \/ Advance(p) \/ Crash(p)

Next == Program \/ \E s \in Sessions : OfflineEdit(s)

Spec == Init /\ [][Next]_vars

\* run_with_wal_retry is a loop with bounded pauses and nothing else blocks:
\* a process that does not die keeps taking the steps of its call.
FairSpec == Spec /\ \A p \in Procs : WF_vars(Advance(p))

-----------------------------------------------------------------------------
(* Properties *)

Verdict(s) == VerifyChain(s, sessions[s].genesis, blocks[s])

Verdicts == [is_tampered : BOOLEAN, broken : Int]

Calls ==
    {Idle}
    \cup [pc : {"append"}, session : Sessions, digest : Digests \cup {Malformed}, time : Nat,
          attempts : 0 .. MAX_RETRIES]
    \cup [pc : {"loaded"}, kind : {"verify", "query"}, session : Sessions, audit : Verdicts,
          began_latched : BOOLEAN]
    \cup [pc : {"persist"}, kind : {"verify"}, session : Sessions, audit : Verdicts,
          began_latched : BOOLEAN, attempts : 0 .. MAX_RETRIES]

Genesises == {<<>>} \cup {Genesis(s) : s \in Sessions} \cup {<<"forged", s>> : s \in Sessions}

IsRow(r) ==
    /\ DOMAIN r = {"prev", "digest", "time", "current"}
    /\ r.digest \in Digests \cup {Malformed}
    /\ r.time \in Nat

\* The types of the tables and of the calls in flight.  (A hash has no type
\* of its own: it is the nest of preimages below it.)
TypeOK ==
    /\ clock \in Nat
    /\ sessions \in [Sessions -> [genesis : Genesises, created_at : Nat]]
    /\ DOMAIN blocks = Sessions
    /\ \A s \in Sessions :
          /\ IsFiniteSet(DOMAIN blocks[s])
          /\ \A k \in DOMAIN blocks[s] : k \in Nat /\ IsRow(blocks[s][k])
    /\ events \in [Sessions -> Seq(Verdicts)]
    /\ call \in [Procs -> Calls]
    /\ edits \in [Sessions -> Seq(EditRecords)]

\* The chain of session s is contiguous, linked back to its genesis, sealed by
\* its own content and ordered in time, and the session has a row exactly when
\* it has a block.
ChainSound(s) ==
    LET rows == blocks[s] IN
    /\ sessions[s] = NoSession <=> DOMAIN rows = {}
    /\ DOMAIN rows = 0 .. Count(rows) - 1
    /\ \A k \in DOMAIN rows :
          /\ rows[k].digest \in Digests
          /\ rows[k].time >= sessions[s].created_at
          /\ Consistent(Genesis(s), rows, k)

\* Concurrent appends, crashes and retries keep the chain of a session nobody
\* edited sound (the lazy INSERT of the session row in _append_txn commits or
\* rolls back with its first block).
UneditedChainSound == \A s \in Sessions : ~Edited(s) => ChainSound(s)

\* No interleaving of appends, audits, crashes and lock failures latches a
\* session nobody edited, reports it tampered, or has the DDL refuse its
\* verdict: the latch never fires on a healthy ledger.
NoFalseAlarm ==
    \A s \in Sessions : ~Edited(s) =>
        /\ ~Latched(s)
        /\ report.kind \in {"verify", "query"} /\ report.session = s =>
              report.state \in {"AUDIT", "RetryExhausted"} /\ ~report.audit.is_tampered

\* What makes the two above inductive: the genesis of an unedited session is
\* the derived one, and the audits in flight have found nothing.
LedgerInv ==
    /\ UneditedChainSound
    /\ NoFalseAlarm
    /\ \A s \in Sessions : ~Edited(s) /\ sessions[s] # NoSession => sessions[s].genesis = Genesis(s)
    /\ \A p \in Procs :
          call[p].pc \in {"loaded", "persist"} /\ ~Edited(call[p].session)
             => ~call[p].audit.is_tampered

\* INV-09: an audit that began on a latched session never reports it clean,
\* whatever the chain it read looks like (a truncated chain reads clean).
LatchedNeverReportedClean ==
    report.kind \in {"verify", "query"} /\ report.began_latched => report.audit.is_tampered

\* verify_session reads the chain and the latch before it writes: if another
\* process latches the session in between, the clean verdict is refused and
\* never returned.
CleanVerdictNotLatched ==
    [][report'.kind = "verify" /\ report'.state = "AUDIT" =>
          \A s \in Sessions : report'.session = s =>
             report'.audit.is_tampered = Latched(s)']_vars

\* Once latched a session stays latched and the program never adds a block
\* to it, not even for a call that was stamped before the latch.
KeepsLatch ==
    \A s \in Sessions : Latched(s) =>
       Latched(s)' /\ (edits'[s] = edits[s] => blocks'[s] = blocks[s])
LatchSticky == [][KeepsLatch]_vars

\* No step of the program changes or removes a stored block, on a session
\* with missing rows either (where the next block_seq may be taken).
KeepsBlocks ==
    \A s \in Sessions : edits'[s] = edits[s] =>
       \A k \in DOMAIN blocks[s] : k \in DOMAIN blocks'[s] /\ blocks'[s][k] = blocks[s][k]
AppendOnly == [][KeepsBlocks]_vars

\* Appending to a chain that fails its audit neither repairs it nor moves the
\* reported position: the verdict is about the edit, however late it is asked.
BrokenSeqStable ==
    [][\A s \in Sessions :
          sessions[s] # NoSession /\ Verdict(s).is_tampered /\ edits'[s] = edits[s]
             => Verdict(s)' = Verdict(s)]_vars

\* One offline edit is reported at its own position, or at the next one when
\* the block was re-sealed; the edits that may go unseen are the removal and
\* the re-sealing of the last block (the "honest scope" of verifier.py).
DetectsSingleEdit ==
    \A s \in Sessions : Len(edits[s]) = 1 =>
        LET e == edits[s][1] IN
        /\ e.kind \in {"malform", "genesis"} => Verdict(s).broken = 0
        /\ e.kind = "alter" => Verdict(s).broken = e.seq
        /\ e.kind = "remove" /\ e.seq < e.last => Verdict(s).broken = e.seq
        /\ e.kind = "reseal" /\ e.seq < e.last => Verdict(s).broken = e.seq + 1

\* What a clean verdict proves after any number of edits: the content of every
\* block below the last hashes to something an append sealed or built upon.
\* Only the removal or the re-sealing of the last block can go unseen.
CleanVerdictPinsHistory ==
    \A s \in Sessions : sessions[s] # NoSession /\ ~Verdict(s).is_tampered =>
        \A k \in 0 .. Count(blocks[s]) - 2 :
            LET b == blocks[s][k] IN BlockHash(b.prev, b.digest, b.time) \in endorsed[s]

\* What append_digests returns is what happened: APPENDED added exactly one
\* block with the caller's digest and stamp, every other outcome changed no
\* table, the lazily inserted session row included.
OutcomeMatchesLedger ==
    [][\A p \in Procs :
          call[p].pc = "append" /\ call'[p].pc = "idle" /\ report'.kind = "append" =>
             LET s == call[p].session IN
             IF report'.state = "APPENDED"
             THEN /\ report'.failure = "NONE"
                  /\ sessions'[s] # NoSession
                  /\ \E k \in DOMAIN blocks'[s] \ DOMAIN blocks[s] :
                        /\ DOMAIN blocks'[s] = DOMAIN blocks[s] \cup {k}
                        /\ blocks'[s][k].digest = call[p].digest
                        /\ blocks'[s][k].time = call[p].time
             ELSE report'.failure # "NONE" /\ UNCHANGED tables]_vars

\* The ledger implements the append-only ledger: hashes, stamps, transactions
\* and verdicts are the means, AppendOnlyLedger is the promise.
Entry(b) == [digest |-> b.digest, time |-> b.time]

Ledger == INSTANCE AppendOnlyLedger WITH
    log <- [s \in Sessions |-> [k \in DOMAIN blocks[s] |-> Entry(blocks[s][k])]],
    frozen <- {s \in Sessions : Latched(s)},
    corrupted <- {s \in Sessions : Edited(s)}

ImplementsLedger == Ledger!Spec

\* store.py says of LatchPersistenceError that "the latch is NOT active".
LatchErrorMeansNotLatched ==
    report.kind = "verify" /\ report.state = "LatchPersistenceError" => ~Latched(report.session)

\* The release notes say every tool call is sealed into the chain: a step on a
\* ledger nobody edited may meet a locked database or be malformed, but the
\* ledger's own rules never refuse it.
EveryStepIsSealed ==
    report.kind = "append" /\ ~Edited(report.session) => report.failure # "BUSINESS"

\* Every ledger call of a process that stays alive returns: the retries of a
\* locked database are bounded.
EveryCallReturns == \A p \in Procs : call[p].pc # "idle" ~> call[p].pc = "idle"

=============================================================================
