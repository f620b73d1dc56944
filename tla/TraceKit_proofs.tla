-------------------------- MODULE TraceKit_proofs --------------------------
(***************************************************************************)
(* Theorems about TraceKit for every number of processes, sessions, blocks *)
(* and offline edits.                                                      *)
(***************************************************************************)
EXTENDS TraceKit, Induction

-----------------------------------------------------------------------------
(* Operators *)

\* COUNT(*) of a session's blocks is a natural number.
LEMMA CountType ==
  ASSUME NEW rows, IsFiniteSet(DOMAIN rows)
  PROVE  Count(rows) \in Nat
BY FS_CardinalityType DEF Count

\* COUNT(*) of a contiguous chain is the block_seq of the next block.
LEMMA CountContiguous ==
  ASSUME NEW rows, NEW n \in Nat, DOMAIN rows = 0 .. n - 1
  PROVE  Count(rows) = n /\ IsFiniteSet(DOMAIN rows)
<1>1. IsFiniteSet(0 .. n - 1) /\ Cardinality(0 .. n - 1) = n
  BY FS_Interval, SMT
<1> QED
  BY <1>1 DEF Count

\* The audit of any stored rows is a verdict of the table's type.
LEMMA VerifyChainType ==
  ASSUME NEW s, NEW genesis, NEW rows, IsFiniteSet(DOMAIN rows)
  PROVE  VerifyChain(s, genesis, rows) \in Verdicts
<1> DEFINE sound == SoundPrefix(genesis, rows)
<1>1. IsFiniteSet(Positions(rows))
  BY CountType, FS_Interval, SMT DEF Positions
<1>2. Cardinality(sound) \in Nat
  <2>1. sound \in SUBSET Positions(rows)
    BY DEF SoundPrefix
  <2> QED
    BY <1>1, <2>1, FS_Subset, FS_CardinalityType
<1>3. \A b \in Int : Audit(b) \in Verdicts
  BY DEF Audit, Verdicts
<1> QED
  BY <1>2, <1>3 DEF VerifyChain, FailClosedAudit, NoSeq

\* The latched position is the one of a stored tampered verdict.
LEMMA LatchedBrokenSeqType ==
  ASSUME NEW s \in Sessions, events \in [Sessions -> Seq(Verdicts)]
  PROVE  LatchedBrokenSeq(s) \in Int
<1>1. CASE ~Latched(s)
  BY <1>1 DEF LatchedBrokenSeq, NoSeq
<1>2. CASE Latched(s)
  <2> DEFINE evs == events[s]
  <2>1. PICK t \in DOMAIN evs : evs[t].is_tampered
    BY <1>2 DEF Latched
  <2>2. evs \in Seq(Verdicts) /\ DOMAIN evs = 1 .. Len(evs) /\ Len(evs) \in Nat
    OBVIOUS
  <2>3. CleanPrefix(s) \subseteq DOMAIN evs /\ t \notin CleanPrefix(s)
    BY <2>1, <2>2 DEF CleanPrefix
  <2>4. IsFiniteSet(DOMAIN evs) /\ Cardinality(DOMAIN evs) = Len(evs)
    <3>1. \A n \in Nat : IsFiniteSet(1 .. n) /\ Cardinality(1 .. n) = n
      BY FS_Interval, SMT
    <3> QED
      BY <2>2, <3>1
  <2>5. /\ Cardinality(CleanPrefix(s)) \in Nat
        /\ Cardinality(CleanPrefix(s)) <= Len(evs)
        /\ Cardinality(CleanPrefix(s)) # Len(evs)
    <3>1. CleanPrefix(s) \in SUBSET DOMAIN evs
      BY <2>3
    <3>2. IsFiniteSet(CleanPrefix(s))
      BY <2>4, <3>1, FS_Subset
    <3> QED
      BY <2>1, <2>3, <2>4, <3>1, <3>2, FS_Subset, FS_CardinalityType
  <2>6. Cardinality(CleanPrefix(s)) + 1 \in DOMAIN evs
    BY <2>2, <2>5
  <2>7. evs[Cardinality(CleanPrefix(s)) + 1] \in Verdicts
    BY <2>2, <2>6
  <2> QED
    BY <1>2, <2>7 DEF LatchedBrokenSeq, Verdicts
<1> QED
  BY <1>1, <1>2

\* apply_latch keeps the type of a verdict.
LEMMA ApplyLatchType ==
  ASSUME NEW audit \in Verdicts, NEW latched \in Int
  PROVE  ApplyLatch(audit, latched) \in Verdicts
BY DEF ApplyLatch, Audit, Verdicts, NoSeq

-----------------------------------------------------------------------------
(* Type correctness *)

\* The initial tables and calls are well typed.
LEMMA TypeInit == Init => TypeOK
<1> SUFFICES ASSUME Init PROVE TypeOK
  OBVIOUS
<1>1. \A s \in Sessions : DOMAIN blocks[s] = {}
  BY DEF Init, NoRows
<1>2. NoSession \in [genesis : Genesises, created_at : Nat]
  BY DEF NoSession, Genesises
<1>3. Idle \in Calls
  BY DEF Calls
<1> QED
  BY <1>1, <1>2, <1>3, FS_EmptySet DEF Init, TypeOK

\* A row sealed from typed data is a typed row.
LEMMA SealBlockType ==
  ASSUME NEW prev, NEW d \in Digests \cup {Malformed}, NEW time \in Nat
  PROVE  IsRow(SealBlock(prev, d, time))
BY DEF IsRow, SealBlock

\* Inserting a typed row at a natural position keeps a table typed.
LEMMA InsertType ==
  ASSUME NEW rows, IsFiniteSet(DOMAIN rows), NEW n \in Nat, NEW b, IsRow(b),
         \A k \in DOMAIN rows : k \in Nat /\ IsRow(rows[k])
  PROVE  LET new == Insert(rows, n, b) IN
         /\ IsFiniteSet(DOMAIN new)
         /\ \A k \in DOMAIN new : k \in Nat /\ IsRow(new[k])
<1>1. DOMAIN Insert(rows, n, b) = DOMAIN rows \cup {n}
  BY DEF Insert
<1>2. IsFiniteSet(DOMAIN rows \cup {n})
  BY FS_AddElement
<1> QED
  BY <1>1, <1>2 DEF Insert

\* Ending a call leaves the caller idle.
LEMMA ReturnType ==
  ASSUME NEW p \in Procs, call \in [Procs -> Calls], NEW r, Return(p, r)
  PROVE  call' \in [Procs -> Calls]
BY DEF Return, Calls

\* Beginning a typed call keeps the calls typed.
LEMMA BeginType ==
  ASSUME NEW p \in Procs, call \in [Procs -> Calls], NEW c \in Calls, Begin(p, c)
  PROVE  call' \in [Procs -> Calls]
BY DEF Begin

\* One step of any actor keeps the types.
LEMMA TypeStep == TypeOK /\ [Next]_vars => TypeOK'
<1> SUFFICES ASSUME TypeOK, [Next]_vars PROVE TypeOK'
  OBVIOUS
<1>1. CASE Tick
  BY <1>1 DEF Tick, TypeOK, tables
<1>2. ASSUME NEW p \in Procs, NEW s \in Sessions, NEW d \in Digests \cup {Malformed},
             RecordStep(p, s, d)
      PROVE  TypeOK'
  <2>1. [pc |-> "append", session |-> s, digest |-> d, time |-> clock, attempts |-> 0] \in Calls
    BY LimitsAssumption DEF Calls, TypeOK
  <2>2. call' \in [Procs -> Calls]
    BY <1>2, <2>1, BeginType DEF RecordStep, TypeOK
  <2> QED
    BY <1>2, <2>2 DEF RecordStep, TypeOK, tables
<1>3. ASSUME NEW p \in Procs, NEW s \in Sessions, CaptureRejected(p, s)
      PROVE  TypeOK'
  <2>1. call' \in [Procs -> Calls]
    BY <1>3, ReturnType DEF CaptureRejected, TypeOK
  <2> QED
    BY <1>3, <2>1 DEF CaptureRejected, TypeOK, tables
<1>4. ASSUME NEW p \in Procs, NEW s \in Sessions, NEW kind \in {"verify", "query"},
             LoadChain(p, s, kind)
      PROVE  TypeOK'
  <2> DEFINE c == [pc |-> "loaded", kind |-> kind, session |-> s,
                   audit |-> VerifyChain(s, sessions[s].genesis, blocks[s]),
                   began_latched |-> Latched(s)]
  <2>1. VerifyChain(s, sessions[s].genesis, blocks[s]) \in Verdicts
    BY VerifyChainType DEF TypeOK
  <2>2. Latched(s) \in BOOLEAN
    BY DEF Latched
  <2>3. c \in Calls
    BY <2>1, <2>2 DEF Calls
  <2>4. call' \in [Procs -> Calls]
    <3>1. CASE sessions[s] = NoSession
      BY <1>4, <3>1, ReturnType DEF LoadChain, TypeOK
    <3>2. CASE sessions[s] # NoSession
      <4>1. Begin(p, c)
        BY <1>4, <3>2 DEF LoadChain
      <4> QED
        BY <2>3, <4>1, BeginType DEF TypeOK
    <3> QED
      BY <3>1, <3>2
  <2> QED
    BY <1>4, <2>4 DEF LoadChain, TypeOK, tables
<1>5. ASSUME NEW p \in Procs, AppendTxn(p)
      PROVE  TypeOK'
  <2> DEFINE c == call[p]
             s == c.session
             session == SessionRow(s, c.time)
             n == Count(blocks[s])
             b == SealBlock(PrevHash(s, session), c.digest, c.time)
  <2>1. c \in Calls /\ c.pc = "append"
    BY <1>5 DEF AppendTxn, TypeOK
  <2>2. s \in Sessions /\ c.digest \in Digests \cup {Malformed} /\ c.time \in Nat
    BY <2>1 DEF Calls, Idle
  <2>3. call' \in [Procs -> Calls]
    BY <1>5, ReturnType DEF AppendTxn, TypeOK
  <2>4. clock' = clock /\ edits' = edits /\ events' = events
    BY <1>5 DEF AppendTxn, tables, Rollback
  <2>5. CASE UNCHANGED <<sessions, blocks>>
    BY <2>3, <2>4, <2>5 DEF TypeOK
  <2>6. CASE /\ sessions' = [sessions EXCEPT ![s] = session]
             /\ blocks' = [blocks EXCEPT ![s] = Insert(blocks[s], n, b)]
    <3>1. session \in [genesis : Genesises, created_at : Nat]
      BY <2>2 DEF SessionRow, Genesises, TypeOK
    <3>2. sessions' \in [Sessions -> [genesis : Genesises, created_at : Nat]]
      BY <2>6, <3>1 DEF TypeOK
    <3>3. n \in Nat /\ IsRow(b)
      BY <2>2, CountType, SealBlockType DEF TypeOK
    <3>4. /\ IsFiniteSet(DOMAIN Insert(blocks[s], n, b))
          /\ \A k \in DOMAIN Insert(blocks[s], n, b) : k \in Nat /\ IsRow(Insert(blocks[s], n, b)[k])
      BY <2>2, <3>3, InsertType DEF TypeOK
    <3>5. /\ DOMAIN blocks' = Sessions
          /\ \A t \in Sessions : blocks'[t] = IF t = s THEN Insert(blocks[s], n, b) ELSE blocks[t]
      BY <2>6 DEF TypeOK
    <3> QED
      BY <2>3, <2>4, <3>2, <3>4, <3>5 DEF TypeOK
  <2> QED
    BY <1>5, <2>5, <2>6 DEF AppendTxn, tables, Rollback
<1>6. ASSUME NEW p \in Procs, ReadLatch(p)
      PROVE  TypeOK'
  <2> DEFINE s == call[p].session
             audit == ApplyLatch(call[p].audit, LatchedBrokenSeq(s))
             next == [pc |-> "persist", kind |-> call[p].kind, session |-> s, audit |-> audit,
                      began_latched |-> call[p].began_latched, attempts |-> 0]
  <2>1. call[p] \in Calls /\ call[p].pc = "loaded"
    BY <1>6 DEF ReadLatch, TypeOK
  <2>2. call[p] \in [pc : {"loaded"}, kind : {"verify", "query"}, session : Sessions,
                     audit : Verdicts, began_latched : BOOLEAN]
    BY <2>1 DEF Calls, Idle
  <2>3. audit \in Verdicts
    BY <2>2, LatchedBrokenSeqType, ApplyLatchType DEF TypeOK
  <2>4. CASE call[p].kind = "verify" /\ call' = [call EXCEPT ![p] = next]
    <3>1. next \in Calls
      BY <2>2, <2>3, <2>4, LimitsAssumption DEF Calls
    <3>2. call' \in [Procs -> Calls]
      BY <2>4, <3>1 DEF TypeOK
    <3> QED
      BY <1>6, <3>2 DEF ReadLatch, TypeOK, tables
  <2>5. ASSUME NEW r, Return(p, r)
        PROVE  TypeOK'
    <3>1. call' \in [Procs -> Calls]
      BY <2>5, ReturnType DEF TypeOK
    <3> QED
      BY <1>6, <3>1 DEF ReadLatch, TypeOK, tables
  <2> QED
    BY <1>6, <2>2, <2>4, <2>5 DEF ReadLatch
<1>7. ASSUME NEW p \in Procs, PersistVerdict(p)
      PROVE  TypeOK'
  <2>1. call[p] \in Calls /\ call[p].pc = "persist"
    BY <1>7 DEF PersistVerdict, TypeOK
  <2>2. call[p].session \in Sessions /\ call[p].audit \in Verdicts
    BY <2>1 DEF Calls, Idle
  <2>3. call' \in [Procs -> Calls]
    BY <1>7, ReturnType DEF PersistVerdict, TypeOK
  <2>4. events' \in [Sessions -> Seq(Verdicts)]
    <3>1. Append(events[call[p].session], call[p].audit) \in Seq(Verdicts)
      BY <2>2 DEF TypeOK
    <3>2. \/ events' = events
          \/ events' = [events EXCEPT ![call[p].session] =
                          Append(events[call[p].session], call[p].audit)]
      BY <1>7 DEF PersistVerdict
    <3> QED
      BY <2>2, <3>1, <3>2 DEF TypeOK
  <2> QED
    BY <1>7, <2>3, <2>4 DEF PersistVerdict, TypeOK
<1>8. ASSUME NEW p \in Procs, WalBusy(p)
      PROVE  TypeOK'
  <2>1. call[p] \in Calls /\ call[p].pc \in {"append", "persist"}
    BY <1>8 DEF WalBusy, TypeOK
  <2>2. call' \in [Procs -> Calls]
    <3>1. CASE call[p].attempts < MAX_RETRIES
      <4>1. [call[p] EXCEPT !.attempts = @ + 1] \in Calls
        BY <2>1, <3>1, LimitsAssumption DEF Calls, Idle
      <4> QED
        BY <1>8, <3>1, <4>1 DEF WalBusy, TypeOK
    <3>2. CASE ~(call[p].attempts < MAX_RETRIES)
      BY <1>8, <3>2, ReturnType DEF WalBusy, TypeOK
    <3> QED
      BY <3>1, <3>2
  <2> QED
    BY <1>8, <2>2 DEF WalBusy, TypeOK, tables
<1>9. ASSUME NEW p \in Procs, Crash(p)
      PROVE  TypeOK'
  <2>1. call' \in [Procs -> Calls]
    BY <1>9, ReturnType DEF Crash, TypeOK
  <2> QED
    BY <1>9, <2>1 DEF Crash, TypeOK, tables
<1>10. ASSUME NEW s \in Sessions, OfflineEdit(s)
       PROVE  TypeOK'
  <2>1. /\ clock' = clock /\ events' = events /\ call' = call
        /\ Count(blocks[s]) \in Nat
    BY <1>10, CountType DEF OfflineEdit, TypeOK
  <2>2. ASSUME NEW kind \in EditKinds, NEW k \in Nat, LogEdit(s, kind, k)
        PROVE  edits' \in [Sessions -> Seq(EditRecords)]
    <3>1. [kind |-> kind, seq |-> k, last |-> Count(blocks[s]) - 1]
             \in EditRecords
      BY <2>1 DEF EditRecords
    <3>2. ASSUME NEW e \in EditRecords
          PROVE  Append(edits[s], e) \in Seq(EditRecords)
      BY DEF TypeOK
    <3> QED
      BY <2>2, <3>1, <3>2 DEF LogEdit, TypeOK
  <2>3. ASSUME NEW k \in DOMAIN blocks[s], NEW kind \in {"alter", "reseal", "malform"},
               NEW d \in Digests, EditRow(s, k, kind, d)
        PROVE  TypeOK'
    <3> DEFINE row == EditedRow(blocks[s][k], kind, d)
               rows == Insert(blocks[s], k, row)
    <3>1. IsRow(row)
      BY SealBlockType DEF EditedRow, IsRow, TypeOK
    <3>2. /\ IsFiniteSet(DOMAIN rows)
          /\ \A i \in DOMAIN rows : i \in Nat /\ IsRow(rows[i])
      BY <3>1, InsertType DEF TypeOK
    <3>3. /\ DOMAIN blocks' = Sessions
          /\ \A t \in Sessions : blocks'[t] = IF t = s THEN rows ELSE blocks[t]
      BY <2>3 DEF EditRow, TypeOK
    <3>4. edits' \in [Sessions -> Seq(EditRecords)]
      BY <2>2, <2>3 DEF EditRow, TypeOK, EditKinds
    <3> QED
      BY <2>1, <2>3, <3>2, <3>3, <3>4 DEF EditRow, TypeOK
  <2>4. ASSUME NEW k \in DOMAIN blocks[s], RemoveRow(s, k)
        PROVE  TypeOK'
    <3> DEFINE rows == [i \in DOMAIN blocks[s] \ {k} |-> blocks[s][i]]
    <3>1. IsFiniteSet(DOMAIN blocks[s] \ {k})
      BY FS_RemoveElement DEF TypeOK
    <3>2. /\ IsFiniteSet(DOMAIN rows)
          /\ \A i \in DOMAIN rows : i \in Nat /\ IsRow(rows[i])
      BY <3>1 DEF TypeOK
    <3>3. /\ DOMAIN blocks' = Sessions
          /\ \A t \in Sessions : blocks'[t] = IF t = s THEN rows ELSE blocks[t]
      BY <2>4 DEF RemoveRow, TypeOK
    <3>4. edits' \in [Sessions -> Seq(EditRecords)]
      BY <2>2, <2>4 DEF RemoveRow, TypeOK, EditKinds
    <3> QED
      BY <2>1, <2>4, <3>2, <3>3, <3>4 DEF RemoveRow, TypeOK
  <2>5. CASE ForgeGenesis(s)
    <3>1. sessions' \in [Sessions -> [genesis : Genesises, created_at : Nat]]
      BY <2>5 DEF ForgeGenesis, TypeOK, Genesises
    <3>2. edits' \in [Sessions -> Seq(EditRecords)]
      BY <2>2, <2>5 DEF ForgeGenesis, EditKinds
    <3> QED
      BY <2>1, <2>5, <3>1, <3>2 DEF ForgeGenesis, TypeOK
  <2> QED
    BY <1>10, <2>3, <2>4, <2>5 DEF OfflineEdit
<1>11. CASE UNCHANGED vars
  BY <1>11 DEF vars, tables, TypeOK
<1> QED
  BY <1>1, <1>2, <1>3, <1>4, <1>5, <1>6, <1>7, <1>8, <1>9, <1>10, <1>11
     DEF Next, Program, Call, Advance

\* The tables and the calls in flight keep their types.
THEOREM TypeCorrect == Spec => []TypeOK
<1> QED
  BY TypeInit, TypeStep, PTL DEF Spec

-----------------------------------------------------------------------------
(* The ledger of a session nobody edited: LedgerInv is inductive *)

\* The audit of a sound chain is clean.
LEMMA SoundChainIsClean ==
  ASSUME TypeOK, NEW s \in Sessions, ChainSound(s)
  PROVE  VerifyChain(s, Genesis(s), blocks[s]) = Audit(NoSeq)
<1> DEFINE rows == blocks[s]
<1>1. \A i \in DOMAIN rows : rows[i].digest # Malformed
  BY DigestsAssumption DEF ChainSound
<1>2. Count(rows) \in Nat
  BY CountType DEF TypeOK
<1>3. \A i \in Positions(rows) : Consistent(Genesis(s), rows, i)
  BY DEF ChainSound, Positions
<1>4. \A i \in Positions(rows) : \A j \in 0 .. i : j \in Positions(rows)
  BY <1>2 DEF Positions
<1>5. SoundPrefix(Genesis(s), rows) = Positions(rows)
  BY <1>3, <1>4 DEF SoundPrefix
<1> QED
  BY <1>1, <1>5 DEF VerifyChain

\* A step that leaves the tables, the edits and s alone leaves its chain sound.
LEMMA ChainSoundKept ==
  ASSUME NEW s \in Sessions, ChainSound(s),
         sessions'[s] = sessions[s], blocks'[s] = blocks[s]
  PROVE  ChainSound(s)'
BY DEF ChainSound

\* A block that the DDL accepts extends a sound chain to a sound chain.
LEMMA AppendKeepsChainSound ==
  ASSUME TypeOK, NEW s \in Sessions, ChainSound(s),
         sessions[s] # NoSession => sessions[s].genesis = Genesis(s),
         NEW d \in Digests, NEW time \in Nat, NEW session, session = SessionRow(s, time),
         NEW n, n = Count(blocks[s]),
         NEW b, b = SealBlock(PrevHash(s, session), d, time),
         BlockAborts(s, session, n, b) = {},
         sessions'[s] = session,
         blocks'[s] = Insert(blocks[s], n, b)
  PROVE  ChainSound(s)' /\ sessions'[s] # NoSession /\ sessions'[s].genesis = Genesis(s)
<1> DEFINE rows == blocks[s]
           new == Insert(rows, n, b)
<1>1. n \in Nat /\ DOMAIN rows = 0 .. n - 1
  BY CountType DEF TypeOK, ChainSound
<1>2. DOMAIN new = 0 .. n
  BY <1>1 DEF Insert
<1>3. Count(new) = n + 1
  <2>1. DOMAIN new = 0 .. (n + 1) - 1 /\ n + 1 \in Nat
    BY <1>1, <1>2
  <2> QED
    BY <2>1, CountContiguous
<1>4. /\ \A k \in DOMAIN rows : new[k] = rows[k]
      /\ new[n] = b
  BY <1>1 DEF Insert
<1>5. session.genesis = Genesis(s) /\ session # NoSession
  <2>1. Genesis(s) # <<>>
    BY DEF Genesis
  <2> QED
    BY <2>1 DEF SessionRow, NoSession
<1>6. n > 0 => /\ n - 1 \in DOMAIN rows
               /\ rows[n - 1].time <= time
               /\ session = sessions[s]
               /\ b.prev = rows[n - 1].current
  <2>1. n > 0 => n - 1 \in DOMAIN rows
    BY <1>1
  <2>2. n > 0 => session = sessions[s]
    BY <2>1 DEF ChainSound, SessionRow
  <2>3. n > 0 => ~(rows[n - 1].time > b.time)
    BY <2>1 DEF BlockAborts
  <2>4. n > 0 => rows[n - 1].time \in Nat
    BY <2>1 DEF TypeOK, IsRow
  <2> QED
    BY <2>1, <2>2, <2>3, <2>4 DEF PrevHash, SealBlock
<1>7. n = 0 => time >= session.created_at /\ b.prev = Genesis(s)
  <2>1. n = 0 => ~(b.time < session.created_at)
    BY DEF BlockAborts
  <2>2. session.created_at \in Nat
    BY DEF SessionRow, TypeOK
  <2> QED
    BY <1>5, <2>1, <2>2 DEF PrevHash, SealBlock
<1>8. time >= session.created_at
  <2>1. n > 0 => rows[n - 1].time >= sessions[s].created_at
    BY <1>6 DEF ChainSound
  <2>2. n > 0 => rows[n - 1].time \in Nat /\ sessions[s].created_at \in Nat
    BY <1>6 DEF TypeOK, IsRow
  <2> QED
    BY <1>1, <1>6, <1>7, <2>1, <2>2
<1>9. ASSUME NEW k \in DOMAIN new
      PROVE  /\ new[k].digest \in Digests
             /\ new[k].time >= session.created_at
             /\ Consistent(Genesis(s), new, k)
  <2>1. CASE k = n
    <3>1. b.digest = d /\ b.time = time /\ b.current = BlockHash(b.prev, b.digest, b.time)
      BY DEF SealBlock
    <3>2. n > 0 => n - 1 \in DOMAIN new /\ new[n - 1] = rows[n - 1]
      <4>1. n > 0 => n - 1 \in DOMAIN new
        BY <1>1, <1>2
      <4> QED
        BY <1>4, <1>6, <4>1
    <3>3. Consistent(Genesis(s), new, n)
      BY <1>1, <1>2, <1>4, <1>6, <1>7, <3>1, <3>2 DEF Consistent
    <3> QED
      BY <1>4, <1>8, <2>1, <3>1, <3>3
  <2>2. CASE k # n
    <3>1. k \in DOMAIN rows /\ new[k] = rows[k]
      BY <1>1, <1>2, <1>4, <2>2
    <3>2. k > 0 => k - 1 \in DOMAIN rows /\ k - 1 \in DOMAIN new /\ new[k - 1] = rows[k - 1]
      BY <1>1, <1>2, <1>4, <3>1
    <3>3. rows[k].digest \in Digests /\ rows[k].time >= sessions[s].created_at
          /\ Consistent(Genesis(s), rows, k)
      BY <3>1 DEF ChainSound
    <3>4. session = sessions[s]
      BY <1>1, <1>6, <3>1
    <3>5. Consistent(Genesis(s), new, k)
      BY <1>1, <1>2, <3>1, <3>2, <3>3 DEF Consistent
    <3> QED
      BY <3>1, <3>3, <3>4, <3>5
  <2> QED
    BY <2>1, <2>2
<1> QED
  BY <1>1, <1>2, <1>3, <1>5, <1>9 DEF ChainSound

\* An audit of an unedited session reads nothing wrong, and the latch it then
\* reads is not set.
LEMMA CleanAuditStaysClean ==
  ASSUME NEW s \in Sessions, ~Latched(s), NEW audit, ~audit.is_tampered
  PROVE  ~ApplyLatch(audit, LatchedBrokenSeq(s)).is_tampered
BY DEF LatchedBrokenSeq, ApplyLatch

\* The empty ledger satisfies the invariant.
LEMMA LedgerInit == Init => LedgerInv
<1> SUFFICES ASSUME Init PROVE LedgerInv
  OBVIOUS
<1>1. \A s \in Sessions : DOMAIN blocks[s] = {} /\ sessions[s] = NoSession /\ events[s] = <<>>
  BY DEF Init, NoRows
<1>2. ASSUME NEW s \in Sessions
      PROVE  ChainSound(s) /\ ~Latched(s)
  <2>1. Count(blocks[s]) = 0
    BY <1>1, FS_EmptySet DEF Count
  <2> QED
    BY <1>1, <2>1 DEF ChainSound, Latched
<1> QED
  BY <1>1, <1>2 DEF Init, LedgerInv, UneditedChainSound, NoFalseAlarm, NoReport, Idle

\* Everything the invariant says but for the report just returned.
Quiet ==
    /\ UneditedChainSound
    /\ \A s \in Sessions : ~Edited(s) => ~Latched(s)
    /\ \A s \in Sessions : ~Edited(s) /\ sessions[s] # NoSession => sessions[s].genesis = Genesis(s)
    /\ \A p \in Procs :
          call[p].pc \in {"loaded", "persist"} /\ ~Edited(call[p].session)
             => ~call[p].audit.is_tampered

\* The report of a step is harmless to an unedited session.
HarmlessReport ==
    \A s \in Sessions : ~Edited(s) =>
        (report.kind \in {"verify", "query"} /\ report.session = s =>
           report.state \in {"AUDIT", "RetryExhausted"} /\ ~report.audit.is_tampered)

\* The invariant is the two parts.
LEMMA LedgerInvParts == LedgerInv <=> Quiet /\ HarmlessReport
BY DEF LedgerInv, Quiet, HarmlessReport, NoFalseAlarm

\* A step that changes no table and no edit, and whose calls in flight are
\* either idle, appending or carry an audit that was clean before, keeps the
\* quiet part.
LEMMA QuietKept ==
  ASSUME Quiet, UNCHANGED <<tables, edits>>,
         \A p \in Procs : call'[p].pc \in {"loaded", "persist"} =>
            \/ call'[p].audit = call[p].audit /\ call'[p].session = call[p].session
                 /\ call[p].pc \in {"loaded", "persist"}
            \/ ~Edited(call'[p].session) => ~call'[p].audit.is_tampered
  PROVE  Quiet'
<1>1. \A s \in Sessions : ChainSound(s) => ChainSound(s)'
  BY ChainSoundKept DEF tables
<1>2. \A s : Edited(s)' <=> Edited(s)
  BY DEF Edited
<1>3. \A s : Latched(s)' <=> Latched(s)
  BY DEF Latched, tables
<1>4. UneditedChainSound'
  BY <1>1, <1>2 DEF Quiet, UneditedChainSound
<1>5. ASSUME NEW p \in Procs, call'[p].pc \in {"loaded", "persist"}, ~Edited(call'[p].session)
      PROVE  ~call'[p].audit.is_tampered
  BY <1>5 DEF Quiet
<1> QED
  BY <1>2, <1>3, <1>4, <1>5 DEF Quiet, tables, Edited

\* The quiet part carries over a step of one session's tables that leaves every
\* other session alone.
LEMMA QuietSession ==
  ASSUME TypeOK, Quiet, NEW s \in Sessions,
         \A t \in Sessions \ {s} :
            /\ sessions'[t] = sessions[t] /\ blocks'[t] = blocks[t]
            /\ events'[t] = events[t] /\ edits'[t] = edits[t],
         Edited(s)' \/ /\ ChainSound(s)' /\ ~Latched(s)'
                       /\ sessions'[s] # NoSession => sessions'[s].genesis = Genesis(s),
         \A t \in Sessions : Edited(t) => Edited(t)',
         \A p \in Procs : call'[p].pc \in {"loaded", "persist"} =>
            /\ call[p].pc \in {"loaded", "persist"}
            /\ call'[p].audit = call[p].audit /\ call'[p].session = call[p].session,
         call' \in [Procs -> Calls]
  PROVE  Quiet'
<1>1. ASSUME NEW t \in Sessions, ~Edited(t)'
      PROVE  /\ ChainSound(t)' /\ ~Latched(t)'
             /\ sessions'[t] # NoSession => sessions'[t].genesis = Genesis(t)
  <2>1. CASE t = s
    BY <1>1, <2>1
  <2>2. CASE t # s
    <3>1. ~Edited(t)
      BY <1>1
    <3>2. ChainSound(t)'
      BY <2>2, <3>1, ChainSoundKept DEF Quiet, UneditedChainSound
    <3> QED
      BY <2>2, <3>1, <3>2 DEF Quiet, Latched
  <2> QED
    BY <2>1, <2>2
<1>2. ASSUME NEW p \in Procs
      PROVE  (call[p].pc \in {"loaded", "persist"} /\ ~Edited(call[p].session)
                => ~call[p].audit.is_tampered)'
  <2>1. SUFFICES ASSUME call'[p].pc \in {"loaded", "persist"}, ~Edited(call[p].session)'
                 PROVE  ~call'[p].audit.is_tampered
    OBVIOUS
  <2>2. call'[p].session \in Sessions
    BY <2>1 DEF Calls, Idle
  <2>3. call[p].pc \in {"loaded", "persist"} /\ ~Edited(call[p].session)
    BY <2>1, <2>2 DEF Edited
  <2> QED
    BY <2>1, <2>3 DEF Quiet
<1>3. UneditedChainSound'
  BY <1>1 DEF UneditedChainSound
<1> QED
  BY <1>1, <1>2, <1>3 DEF Quiet

\* One step of any actor keeps the invariant.
LEMMA LedgerStep == TypeOK /\ TypeOK' /\ LedgerInv /\ [Next]_vars => LedgerInv'
<1> SUFFICES ASSUME TypeOK, TypeOK', Quiet, [Next]_vars
             PROVE  Quiet' /\ (HarmlessReport' \/ UNCHANGED vars)
  <2>1. UNCHANGED vars /\ HarmlessReport => HarmlessReport'
    BY DEF vars, HarmlessReport, Edited
  <2>2. LedgerInv' <=> Quiet' /\ HarmlessReport'
    BY DEF LedgerInv, Quiet, HarmlessReport, NoFalseAlarm
  <2> QED
    BY <2>1, <2>2, LedgerInvParts
<1> USE DEF NoReport
<1>1. CASE Tick
  BY <1>1, QuietKept DEF Tick, HarmlessReport
<1>2. ASSUME NEW p \in Procs, NEW s \in Sessions, NEW d \in Digests \cup {Malformed},
             RecordStep(p, s, d)
      PROVE  Quiet' /\ HarmlessReport'
  BY <1>2, QuietKept DEF RecordStep, Begin, HarmlessReport, TypeOK
<1>3. ASSUME NEW p \in Procs, NEW s \in Sessions, CaptureRejected(p, s)
      PROVE  Quiet' /\ HarmlessReport'
  BY <1>3, QuietKept DEF CaptureRejected, Return, Idle, Rejected, HarmlessReport, TypeOK
<1>4. ASSUME NEW p \in Procs, NEW s \in Sessions, NEW kind \in {"verify", "query"},
             LoadChain(p, s, kind)
      PROVE  Quiet' /\ HarmlessReport'
  <2>1. CASE sessions[s] = NoSession
    <3>1. /\ Return(p, [kind |-> "unknown", session |-> s])
          /\ UNCHANGED <<tables, edits>>
      BY <1>4, <2>1 DEF LoadChain
    <3> QED
      BY <3>1, QuietKept DEF Return, Idle, HarmlessReport, TypeOK
  <2>2. CASE sessions[s] # NoSession
    <3>1. ~Edited(s) => ~VerifyChain(s, sessions[s].genesis, blocks[s]).is_tampered
      <4>1. SUFFICES ASSUME ~Edited(s)
                     PROVE  ~VerifyChain(s, sessions[s].genesis, blocks[s]).is_tampered
        OBVIOUS
      <4>2. ChainSound(s) /\ sessions[s].genesis = Genesis(s)
        BY <2>2, <4>1 DEF Quiet, UneditedChainSound
      <4>3. VerifyChain(s, sessions[s].genesis, blocks[s]) = Audit(NoSeq)
        BY <4>2, SoundChainIsClean
      <4>4. ~Audit(NoSeq).is_tampered
        BY DEF Audit
      <4> QED
        BY <4>3, <4>4
    <3>2. /\ call'[p].session = s
          /\ call'[p].audit = VerifyChain(s, sessions[s].genesis, blocks[s])
          /\ \A q \in Procs \ {p} : call'[q] = call[q]
          /\ report' = NoReport
          /\ UNCHANGED <<tables, edits>>
      BY <1>4, <2>2 DEF LoadChain, Begin, TypeOK
    <3> QED
      BY <3>1, <3>2, QuietKept DEF HarmlessReport
  <2> QED
    BY <2>1, <2>2
<1>5. ASSUME NEW p \in Procs, AppendTxn(p)
      PROVE  Quiet' /\ HarmlessReport'
  <2>1. call[p] \in Calls /\ call[p].pc = "append"
    BY <1>5 DEF AppendTxn, TypeOK
  <2>2. PICK s \in Sessions : call[p].session = s
    BY <2>1 DEF Calls, Idle
  <2> DEFINE c == call[p]
             session == SessionRow(s, c.time)
             n == Count(blocks[s])
             b == SealBlock(PrevHash(s, session), c.digest, c.time)
  <2>7. c.digest \in Digests \cup {Malformed} /\ c.time \in Nat
    BY <2>1 DEF Calls, Idle
  <2>3. /\ call' = [call EXCEPT ![p] = Idle] /\ edits' = edits
        /\ report'.kind = "append"
    BY <1>5 DEF AppendTxn, Return, Rejected, Appended
  <2>4. HarmlessReport'
    BY <2>3 DEF HarmlessReport
  <2>5. CASE UNCHANGED tables
    BY <2>3, <2>4, <2>5, QuietKept DEF Idle, TypeOK
  <2>6. CASE /\ c.digest # Malformed
             /\ BlockAborts(s, session, n, b) = {}
             /\ sessions' = [sessions EXCEPT ![s] = session]
             /\ blocks' = [blocks EXCEPT ![s] = Insert(blocks[s], n, b)]
             /\ events' = events
    <3>1. /\ sessions'[s] = session /\ blocks'[s] = Insert(blocks[s], n, b)
          /\ \A t \in Sessions \ {s} : sessions'[t] = sessions[t] /\ blocks'[t] = blocks[t]
      BY <2>2, <2>6 DEF TypeOK
    <3>2. ~Edited(s) => /\ ChainSound(s)' /\ ~Latched(s)'
                        /\ sessions'[s] # NoSession => sessions'[s].genesis = Genesis(s)
      <4>1. SUFFICES ASSUME ~Edited(s)
                     PROVE  /\ ChainSound(s)' /\ ~Latched(s)'
                            /\ sessions'[s] # NoSession => sessions'[s].genesis = Genesis(s)
        OBVIOUS
      <4>2. /\ ChainSound(s) /\ ~Latched(s)
            /\ sessions[s] # NoSession => sessions[s].genesis = Genesis(s)
        BY <2>2, <4>1 DEF Quiet, UneditedChainSound
      <4>3. c.digest \in Digests
        BY <2>6, <2>7
      <4> HIDE DEF c, session, n, b
      <4>4. ChainSound(s)' /\ sessions'[s].genesis = Genesis(s)
        BY <2>6, <2>7, <3>1, <4>2, <4>3, AppendKeepsChainSound DEF session, n, b
      <4>5. ~Latched(s)'
        BY <2>6, <4>2 DEF Latched
      <4> QED
        BY <4>4, <4>5
    <3>3. \A q \in Procs : call'[q].pc \in {"loaded", "persist"} => call'[q] = call[q]
      BY <2>3 DEF Idle, TypeOK
    <3>4. \A t \in Sessions : Edited(t)' <=> Edited(t)
      BY <2>3 DEF Edited
    <3>5. /\ \A t \in Sessions \ {s} : events'[t] = events[t] /\ edits'[t] = edits[t]
          /\ call' \in [Procs -> Calls]
      BY <2>3, <2>6 DEF TypeOK
    <3>6. Quiet'
      BY <2>2, <3>1, <3>2, <3>3, <3>4, <3>5, QuietSession
    <3> QED
      BY <2>4, <3>6
  <2> QED
    BY <1>5, <2>2, <2>5, <2>6 DEF AppendTxn, Rollback
<1>6. ASSUME NEW p \in Procs, ReadLatch(p)
      PROVE  Quiet' /\ HarmlessReport'
  <2> DEFINE s == call[p].session
             audit == ApplyLatch(call[p].audit, LatchedBrokenSeq(s))
  <2>1. call[p] \in Calls /\ call[p].pc = "loaded"
    BY <1>6 DEF ReadLatch, TypeOK
  <2>2. call[p] \in [pc : {"loaded"}, kind : {"verify", "query"}, session : Sessions,
                     audit : Verdicts, began_latched : BOOLEAN]
    BY <2>1 DEF Calls, Idle
  <2>3. ~Edited(s) => ~audit.is_tampered
    BY <2>2, CleanAuditStaysClean DEF Quiet
  <2>4. UNCHANGED <<tables, edits>>
    BY <1>6 DEF ReadLatch
  <2>5. ASSUME call' = [call EXCEPT ![p] =
                  [pc |-> "persist", kind |-> call[p].kind, session |-> s, audit |-> audit,
                   began_latched |-> call[p].began_latched, attempts |-> 0]],
               report' = NoReport
        PROVE  Quiet' /\ HarmlessReport'
    <3>1. /\ call'[p].session = s /\ call'[p].audit = audit
          /\ \A q \in Procs \ {p} : call'[q] = call[q]
      BY <2>5 DEF TypeOK
    <3> QED
      BY <2>3, <2>4, <2>5, <3>1, QuietKept DEF HarmlessReport
  <2>6. ASSUME Return(p, [kind |-> call[p].kind, session |-> s, state |-> "AUDIT",
                          audit |-> audit, began_latched |-> call[p].began_latched])
        PROVE  Quiet' /\ HarmlessReport'
    <3>1. \A q \in Procs : call'[q].pc \in {"loaded", "persist"} => call'[q] = call[q]
      BY <2>6 DEF Return, Idle, TypeOK
    <3>2. Quiet'
      BY <2>4, <3>1, QuietKept
    <3>3. report'.session = s /\ report'.state = "AUDIT" /\ report'.audit = audit
      BY <2>6 DEF Return
    <3>4. \A t \in Sessions : Edited(t)' <=> Edited(t)
      BY <2>4 DEF Edited
    <3> QED
      BY <2>3, <3>2, <3>3, <3>4 DEF HarmlessReport
  <2> QED
    BY <1>6, <2>2, <2>5, <2>6 DEF ReadLatch, AuditReport
<1>7. ASSUME NEW p \in Procs, PersistVerdict(p)
      PROVE  Quiet' /\ HarmlessReport'
  <2> DEFINE c == call[p]
  <2>1. c \in Calls /\ c.pc = "persist"
    BY <1>7 DEF PersistVerdict, TypeOK
  <2>2. PICK s \in Sessions : c.session = s
    BY <2>1 DEF Calls, Idle
  <2>3. ~Edited(s) => ~c.audit.is_tampered /\ ~Latched(s)
    BY <2>1, <2>2 DEF Quiet
  <2>4. ~Edited(s) => VerdictAborts(s, c.audit) = {}
    BY <2>3 DEF VerdictAborts
  <2>5. /\ UNCHANGED <<sessions, blocks, edits>>
        /\ call' = [call EXCEPT ![p] = Idle]
        /\ report'.session = s /\ report'.audit = c.audit
        /\ ~Edited(s) => report'.state = "AUDIT"
    BY <1>7, <2>2, <2>4 DEF PersistVerdict, Return, PersistFailure, AuditReport
  <2>6. \/ events' = events
        \/ events' = [events EXCEPT ![s] = Append(events[s], c.audit)]
    BY <1>7, <2>2 DEF PersistVerdict
  <2>7. \A t \in Sessions \ {s} : events'[t] = events[t]
    BY <2>2, <2>6 DEF TypeOK
  <2>8. ~Edited(s) => ~Latched(s)'
    <3>1. CASE events' = events
      BY <2>3, <3>1 DEF Latched
    <3>2. CASE events' = [events EXCEPT ![s] = Append(events[s], c.audit)]
      <4>1. events'[s] = Append(events[s], c.audit)
        BY <2>2, <3>2 DEF TypeOK
      <4>2. events[s] \in Seq(Verdicts)
        BY <2>2 DEF TypeOK
      <4>3. \A i \in DOMAIN events'[s] :
               \/ i \in DOMAIN events[s] /\ events'[s][i] = events[s][i]
               \/ events'[s][i] = c.audit
        BY <2>2, <4>1, <4>2
      <4> QED
        BY <2>3, <4>3 DEF Latched
    <3> QED
      BY <2>6, <3>1, <3>2
  <2>9. HarmlessReport'
    <3>1. \A t \in Sessions : Edited(t)' <=> Edited(t)
      BY <2>5 DEF Edited
    <3> QED
      BY <2>3, <2>5, <3>1 DEF HarmlessReport
  <2>10. Quiet'
    <3>1. \A q \in Procs : call'[q].pc \in {"loaded", "persist"} => call'[q] = call[q]
      BY <2>5 DEF Idle, TypeOK
    <3>2. \A t \in Sessions : Edited(t)' <=> Edited(t)
      BY <2>5 DEF Edited
    <3>3. ~Edited(s) => /\ ChainSound(s)'
                        /\ sessions'[s] # NoSession => sessions'[s].genesis = Genesis(s)
      BY <2>2, <2>5, ChainSoundKept DEF Quiet, UneditedChainSound
    <3>4. call' \in [Procs -> Calls]
      BY DEF TypeOK
    <3> QED
      BY <2>2, <2>5, <2>7, <2>8, <3>1, <3>2, <3>3, <3>4, QuietSession
  <2> QED
    BY <2>9, <2>10
<1>8. ASSUME NEW p \in Procs, WalBusy(p)
      PROVE  Quiet' /\ HarmlessReport'
  <2> DEFINE c == call[p]
  <2>1. c \in Calls /\ c.pc \in {"append", "persist"} /\ UNCHANGED <<tables, edits>>
    BY <1>8 DEF WalBusy, TypeOK
  <2>2. CASE c.attempts < MAX_RETRIES
    <3>1. call' = [call EXCEPT ![p] = [c EXCEPT !.attempts = @ + 1]] /\ report' = NoReport
      BY <1>8, <2>2 DEF WalBusy, TypeOK
    <3>2. \A q \in Procs : /\ call'[q].pc = call[q].pc
                           /\ q # p => call'[q] = call[q]
      BY <2>1, <3>1 DEF TypeOK, Calls, Idle
    <3>3. c.pc = "persist" => call'[p].audit = c.audit /\ call'[p].session = c.session
      BY <2>1, <3>1 DEF TypeOK, Calls, Idle
    <3> QED
      BY <2>1, <3>1, <3>2, <3>3, QuietKept DEF HarmlessReport
  <2>3. CASE ~(c.attempts < MAX_RETRIES)
    <3>1. /\ call' = [call EXCEPT ![p] = Idle]
          /\ c.pc = "append" => report'.kind = "append"
          /\ c.pc = "persist" => report' = PersistFailure(c, "RetryExhausted")
      BY <1>8, <2>1, <2>3 DEF WalBusy, Return, Rejected
    <3>2. \A q \in Procs : call'[q].pc \in {"loaded", "persist"} => call'[q] = call[q]
      BY <3>1 DEF Idle, TypeOK
    <3>3. Quiet'
      BY <2>1, <3>2, QuietKept
    <3>4. HarmlessReport'
      <4>1. \A t \in Sessions : Edited(t)' <=> Edited(t)
        BY <2>1 DEF Edited
      <4>2. c.pc = "persist" => /\ report'.session = c.session /\ report'.audit = c.audit
                                /\ ~c.audit.is_tampered => report'.state = "RetryExhausted"
        BY <3>1 DEF PersistFailure, AuditReport
      <4>3. c.pc = "persist" => (~Edited(c.session) => ~c.audit.is_tampered)
        BY DEF Quiet
      <4> QED
        BY <2>1, <3>1, <4>1, <4>2, <4>3 DEF HarmlessReport
    <3> QED
      BY <3>3, <3>4
  <2> QED
    BY <2>2, <2>3
<1>9. ASSUME NEW p \in Procs, Crash(p)
      PROVE  Quiet' /\ HarmlessReport'
  BY <1>9, QuietKept DEF Crash, Return, Idle, HarmlessReport, TypeOK
<1>10. ASSUME NEW s \in Sessions, OfflineEdit(s)
       PROVE  Quiet' /\ HarmlessReport'
  <2>1. /\ UNCHANGED <<events, call>> /\ report' = NoReport
        /\ \E kind, k : LogEdit(s, kind, k)
    BY <1>10 DEF OfflineEdit, EditRow, RemoveRow, ForgeGenesis
  <2>2. \A t \in Sessions \ {s} : /\ sessions'[t] = sessions[t] /\ blocks'[t] = blocks[t]
                                  /\ events'[t] = events[t] /\ edits'[t] = edits[t]
    BY <1>10 DEF OfflineEdit, EditRow, RemoveRow, ForgeGenesis, LogEdit, TypeOK
  <2>3. Edited(s)'
    <3>1. PICK e : edits'[s] = Append(edits[s], e)
      BY <2>1 DEF LogEdit, TypeOK
    <3>2. edits[s] \in Seq(EditRecords) /\ edits'[s] \in Seq(EditRecords)
      BY DEF TypeOK
    <3>3. Len(edits'[s]) # 0
      BY <3>1, <3>2
    <3> QED
      BY <3>2, <3>3 DEF Edited
  <2>4. \A t \in Sessions : Edited(t) => Edited(t)'
    BY <2>2, <2>3 DEF Edited
  <2>5. Quiet'
    BY <2>1, <2>2, <2>3, <2>4, QuietSession DEF TypeOK
  <2> QED
    BY <2>1, <2>5 DEF HarmlessReport
<1>11. CASE UNCHANGED vars
  BY <1>11, QuietKept DEF vars, tables
<1> QED
  BY <1>1, <1>2, <1>3, <1>4, <1>5, <1>6, <1>7, <1>8, <1>9, <1>10, <1>11
     DEF Next, Program, Call, Advance

\* The chain of a session nobody edited is sound, in every reachable state.
THEOREM ChainIsSound == Spec => []UneditedChainSound
<1>1. LedgerInv => UneditedChainSound
  BY DEF LedgerInv
<1> QED
  BY <1>1, TypeInit, TypeStep, LedgerInit, LedgerStep, PTL DEF Spec

\* The latch never fires on a ledger nobody edited, and no audit reports one.
THEOREM LatchNeverFiresByItself == Spec => []NoFalseAlarm
<1>1. LedgerInv => NoFalseAlarm
  BY DEF LedgerInv
<1> QED
  BY <1>1, TypeInit, TypeStep, LedgerInit, LedgerStep, PTL DEF Spec

-----------------------------------------------------------------------------
(* What no step may do, on edited sessions too *)

\* Only an append or an offline edit changes the blocks, only a persisted
\* verdict the events.
LEMMA WhoWrites ==
  ASSUME TypeOK, [Next]_vars
  PROVE  \/ UNCHANGED <<blocks, events>>
         \/ \E p \in Procs : AppendTxn(p) /\ UNCHANGED events
         \/ \E p \in Procs : PersistVerdict(p) /\ UNCHANGED blocks
         \/ \E s \in Sessions : OfflineEdit(s) /\ UNCHANGED events
<1>1. \A p \in Procs : AppendTxn(p) => UNCHANGED events
  BY DEF AppendTxn, tables, Rollback
<1>2. \A p \in Procs : PersistVerdict(p) => UNCHANGED blocks
  BY DEF PersistVerdict
<1>3. \A s \in Sessions : OfflineEdit(s) => UNCHANGED events
  BY DEF OfflineEdit
<1>4. \A p \in Procs : ReadLatch(p) \/ WalBusy(p) \/ Crash(p) \/ Call(p) => UNCHANGED <<blocks, events>>
  BY DEF ReadLatch, WalBusy, Crash, Call, RecordStep, CaptureRejected, LoadChain, tables
<1>5. Tick \/ UNCHANGED vars => UNCHANGED <<blocks, events>>
  BY DEF Tick, tables, vars
<1> QED
  BY <1>1, <1>2, <1>3, <1>4, <1>5 DEF Next, Program, Advance

\* What a committed append does to the blocks.
LEMMA AppendWrites ==
  ASSUME TypeOK, NEW p \in Procs, AppendTxn(p)
  PROVE  \/ UNCHANGED blocks
         \/ \E s \in Sessions : \E b :
               /\ ~Latched(s) /\ Count(blocks[s]) \notin DOMAIN blocks[s]
               /\ blocks' = [blocks EXCEPT ![s] = Insert(blocks[s], Count(blocks[s]), b)]
<1> DEFINE c == call[p]
           s == c.session
           session == SessionRow(s, c.time)
           n == Count(blocks[s])
           b == SealBlock(PrevHash(s, session), c.digest, c.time)
<1>1. s \in Sessions
  BY DEF AppendTxn, TypeOK, Calls, Idle
<1>2. BlockAborts(s, session, n, b) = {} => ~Latched(s) /\ n \notin DOMAIN blocks[s]
  BY DEF BlockAborts
<1>3. \/ UNCHANGED blocks
      \/ /\ BlockAborts(s, session, n, b) = {}
         /\ blocks' = [blocks EXCEPT ![s] = Insert(blocks[s], n, b)]
  BY DEF AppendTxn, tables, Rollback
<1> QED
  BY <1>1, <1>2, <1>3

\* The program never changes or removes a stored block.
THEOREM LedgerIsAppendOnly == Spec => AppendOnly
<1>1. TypeOK /\ [Next]_vars => KeepsBlocks
  <2> SUFFICES ASSUME TypeOK, [Next]_vars, NEW s \in Sessions, edits'[s] = edits[s],
                      NEW k \in DOMAIN blocks[s]
               PROVE  k \in DOMAIN blocks'[s] /\ blocks'[s][k] = blocks[s][k]
    BY DEF KeepsBlocks
  <2>1. CASE UNCHANGED blocks
    BY <2>1
  <2>2. ASSUME NEW p \in Procs, AppendTxn(p)
        PROVE  k \in DOMAIN blocks'[s] /\ blocks'[s][k] = blocks[s][k]
    <3>1. SUFFICES ASSUME NEW t \in Sessions, NEW b, Count(blocks[t]) \notin DOMAIN blocks[t],
                          blocks' = [blocks EXCEPT ![t] = Insert(blocks[t], Count(blocks[t]), b)]
                   PROVE  k \in DOMAIN blocks'[s] /\ blocks'[s][k] = blocks[s][k]
      BY <2>1, <2>2, AppendWrites
    <3> QED
      BY <3>1 DEF TypeOK, Insert
  <2>3. ASSUME NEW t \in Sessions, OfflineEdit(t)
        PROVE  k \in DOMAIN blocks'[s] /\ blocks'[s][k] = blocks[s][k]
    <3>1. CASE t = s
      <4>1. PICK e : edits'[s] = Append(edits[s], e)
        BY <2>3, <3>1 DEF OfflineEdit, EditRow, RemoveRow, ForgeGenesis, LogEdit, TypeOK
      <4>2. edits[s] \in Seq(EditRecords)
        BY DEF TypeOK
      <4>3. Len(edits'[s]) = Len(edits[s]) + 1
        BY <4>1, <4>2
      <4> QED
        BY <4>2, <4>3
    <3>2. CASE t # s
      BY <2>3, <3>2 DEF OfflineEdit, EditRow, RemoveRow, ForgeGenesis, TypeOK
    <3> QED
      BY <3>1, <3>2
  <2> QED
    BY <2>1, <2>2, <2>3, WhoWrites
<1> QED
  BY <1>1, TypeCorrect, PTL DEF Spec, AppendOnly

\* No step takes a latch back, or adds a block behind it.
LEMMA LatchStep == TypeOK /\ TypeOK' /\ [Next]_vars => KeepsLatch
<1> SUFFICES ASSUME TypeOK, TypeOK', [Next]_vars, NEW s \in Sessions, Latched(s)
             PROVE  Latched(s)' /\ (edits'[s] = edits[s] => blocks'[s] = blocks[s])
  BY DEF KeepsLatch
<1>1. UNCHANGED events => Latched(s)'
  BY DEF Latched
<1>2. CASE UNCHANGED <<blocks, events>>
  BY <1>1, <1>2
<1>3. ASSUME NEW p \in Procs, AppendTxn(p), UNCHANGED events
      PROVE  Latched(s)' /\ blocks'[s] = blocks[s]
  BY <1>1, <1>3, AppendWrites DEF TypeOK
<1>4. ASSUME NEW p \in Procs, PersistVerdict(p), UNCHANGED blocks
      PROVE  Latched(s)'
  <2>1. \/ events' = events
        \/ events' = [events EXCEPT ![call[p].session] =
                        Append(events[call[p].session], call[p].audit)]
    BY <1>4 DEF PersistVerdict
  <2>2. events[s] \in Seq(Verdicts)
    BY DEF TypeOK
  <2>3. PICK i \in DOMAIN events[s] : events[s][i].is_tampered
    BY DEF Latched
  <2>4. \/ events'[s] = events[s]
        \/ events'[s] = Append(events[s], call[p].audit)
    BY <2>1 DEF TypeOK
  <2>5. i \in DOMAIN events'[s] /\ events'[s][i] = events[s][i]
    BY <2>2, <2>4
  <2> QED
    BY <2>3, <2>5 DEF Latched
<1>5. ASSUME NEW t \in Sessions, OfflineEdit(t), UNCHANGED events
      PROVE  Latched(s)' /\ (edits'[s] = edits[s] => blocks'[s] = blocks[s])
  <2>1. CASE t = s
    <3>1. PICK e : edits'[s] = Append(edits[s], e)
      BY <1>5, <2>1 DEF OfflineEdit, EditRow, RemoveRow, ForgeGenesis, LogEdit, TypeOK
    <3>2. edits[s] \in Seq(EditRecords)
      BY DEF TypeOK
    <3>3. Len(edits'[s]) = Len(edits[s]) + 1
      BY <3>1, <3>2
    <3> QED
      BY <1>1, <1>5, <3>2, <3>3
  <2>2. CASE t # s
    BY <1>1, <1>5, <2>2 DEF OfflineEdit, EditRow, RemoveRow, ForgeGenesis, TypeOK
  <2> QED
    BY <2>1, <2>2
<1> QED
  BY <1>2, <1>3, <1>4, <1>5, WhoWrites

\* A latched session stays latched and gets no further block.
THEOREM LatchHolds == Spec => LatchSticky
<1> QED
  BY LatchStep, TypeCorrect, PTL DEF Spec, LatchSticky

-----------------------------------------------------------------------------
(* Audits *)

\* An audit that finds nothing has found every position consistent.
LEMMA CleanChain ==
  ASSUME NEW s, NEW genesis, NEW rows, IsFiniteSet(DOMAIN rows),
         ~VerifyChain(s, genesis, rows).is_tampered
  PROVE  /\ \A i \in DOMAIN rows : rows[i].digest # Malformed
         /\ genesis = Genesis(s)
         /\ \A i \in 0 .. Count(rows) - 1 : Consistent(genesis, rows, i)
<1> DEFINE sound == SoundPrefix(genesis, rows)
<1>1. ASSUME NEW b \in Nat PROVE Audit(b).is_tampered
  <2>1. b # NoSeq
    BY DEF NoSeq
  <2> QED
    BY <2>1 DEF Audit
<1>2. Cardinality(sound) \in Nat
  <2>1. IsFiniteSet(Positions(rows))
    BY CountType, FS_Interval, SMT DEF Positions
  <2>2. sound \in SUBSET Positions(rows)
    BY DEF SoundPrefix
  <2> HIDE DEF sound
  <2> QED
    BY <2>1, <2>2, FS_Subset, FS_CardinalityType
<1>3. sound = Positions(rows)
  <2> HIDE DEF sound
  <2> QED
    BY <1>1, <1>2 DEF VerifyChain, FailClosedAudit, sound
<1>4. \A i \in Positions(rows) : \A j \in 0 .. i : Consistent(genesis, rows, j)
  BY <1>3 DEF SoundPrefix
<1>5. \A i \in Positions(rows) : i \in 0 .. i
  BY CountType DEF Positions
<1> QED
  BY <1>1, <1>4, <1>5 DEF VerifyChain, FailClosedAudit, Positions

\* An audit reports the first position that is not consistent.
LEMMA FirstFailure ==
  ASSUME NEW s, NEW rows, IsFiniteSet(DOMAIN rows),
         \A i \in DOMAIN rows : rows[i].digest # Malformed,
         NEW k \in Nat, k < Count(rows), ~Consistent(Genesis(s), rows, k),
         \A j \in 0 .. k - 1 : Consistent(Genesis(s), rows, j)
  PROVE  VerifyChain(s, Genesis(s), rows) = Audit(k)
<1> DEFINE sound == SoundPrefix(Genesis(s), rows)
<1>1. Count(rows) \in Nat
  BY CountType
<1>2. k \in Positions(rows) /\ k \notin sound
  BY <1>1 DEF Positions, SoundPrefix
<1>3. sound = 0 .. k - 1
  <2>1. ASSUME NEW i \in sound PROVE i \in 0 .. k - 1
    <3>1. i \in Nat /\ \A j \in 0 .. i : Consistent(Genesis(s), rows, j)
      BY <1>1 DEF SoundPrefix, Positions
    <3>2. ~(k <= i)
      BY <3>1
    <3> QED
      BY <3>1, <3>2
  <2>2. \A i \in 0 .. k - 1 : i \in sound
    BY <1>1 DEF SoundPrefix, Positions
  <2> HIDE DEF sound
  <2> QED
    BY <2>1, <2>2
<1>4. Cardinality(sound) = k
  BY <1>3, FS_Interval, SMT
<1> HIDE DEF sound
<1> QED
  BY <1>2, <1>4 DEF VerifyChain, sound

\* A block added at the end of a chain that fails leaves the report as it is.
LEMMA AppendKeepsReport ==
  ASSUME NEW s, NEW genesis, NEW rows, IsFiniteSet(DOMAIN rows),
         VerifyChain(s, genesis, rows).is_tampered,
         Count(rows) \notin DOMAIN rows, NEW b, b.digest # Malformed
  PROVE  VerifyChain(s, genesis, Insert(rows, Count(rows), b)) = VerifyChain(s, genesis, rows)
<1> DEFINE n == Count(rows)
           new == Insert(rows, n, b)
           sound == SoundPrefix(genesis, rows)
<1>1. n \in Nat
  BY CountType
<1>2. /\ DOMAIN new = DOMAIN rows \cup {n}
      /\ new[n] = b
      /\ \A i \in DOMAIN rows : new[i] = rows[i]
  BY DEF Insert
<1>3. Count(new) = n + 1
  BY <1>2, FS_AddElement DEF Count
<1> HIDE DEF new
<1>4. (\E i \in DOMAIN new : new[i].digest = Malformed)
        <=> \E i \in DOMAIN rows : rows[i].digest = Malformed
  BY <1>2
<1>5. CASE (\E i \in DOMAIN rows : rows[i].digest = Malformed) \/ genesis # Genesis(s)
  BY <1>4, <1>5 DEF VerifyChain, new
<1>6. CASE ~(\E i \in DOMAIN rows : rows[i].digest = Malformed) /\ genesis = Genesis(s)
  <2>1. sound # Positions(rows)
    BY <1>6 DEF VerifyChain, Audit
  <2>2. PICK f \in 0 .. n - 1 : ~Consistent(genesis, rows, f)
    <3>1. PICK i \in Positions(rows) : i \notin sound
      BY <2>1 DEF SoundPrefix
    <3>2. PICK f \in 0 .. i : ~Consistent(genesis, rows, f)
      BY <3>1 DEF SoundPrefix
    <3> QED
      BY <1>1, <3>1, <3>2 DEF Positions
  <2>3. \A j \in 0 .. n - 1 : Consistent(genesis, new, j) <=> Consistent(genesis, rows, j)
    <3>1. ASSUME NEW j \in 0 .. n - 1
          PROVE  Consistent(genesis, new, j) <=> Consistent(genesis, rows, j)
      <4>1. j # n /\ j - 1 # n
        BY <1>1
      <4> QED
        BY <1>2, <4>1 DEF Consistent
    <3> QED
      BY <3>1
  <2>4. SoundPrefix(genesis, new) = sound
    <3>1. Positions(new) = 0 .. n /\ Positions(rows) = 0 .. n - 1
      BY <1>1, <1>3 DEF Positions
    <3>2. ASSUME NEW i \in 0 .. n
          PROVE  (\A j \in 0 .. i : Consistent(genesis, new, j))
                 <=> (i \in 0 .. n - 1 /\ \A j \in 0 .. i : Consistent(genesis, rows, j))
      <4>1. CASE i = n
        BY <1>1, <2>2, <2>3, <4>1
      <4>2. CASE i # n
        BY <1>1, <2>3, <4>2
      <4> QED
        BY <4>1, <4>2
    <3> QED
      BY <1>1, <3>1, <3>2 DEF SoundPrefix
  <2>5. n \in Positions(new) /\ n \notin sound
    BY <1>1, <1>3 DEF Positions, SoundPrefix
  <2> QED
    BY <1>4, <1>6, <2>1, <2>4, <2>5 DEF VerifyChain, new
<1> QED
  BY <1>5, <1>6

\* What an append that changes the tables does.
LEMMA AppendCommits ==
  ASSUME TypeOK, NEW p \in Procs, AppendTxn(p)
  PROVE  /\ UNCHANGED <<clock, events, edits>>
         /\ \/ UNCHANGED <<sessions, blocks, endorsed>> /\ report'.state # "APPENDED"
               /\ report'.failure # "NONE"
            \/ LET s == call[p].session
                   b == SealBlock(PrevHash(s, SessionRow(s, call[p].time)), call[p].digest,
                                  call[p].time)
               IN  /\ s \in Sessions /\ call[p].time \in Nat /\ call[p].digest \in Digests
                   /\ ~Latched(s) /\ Count(blocks[s]) \notin DOMAIN blocks[s]
                   /\ sessions' = [sessions EXCEPT ![s] = SessionRow(s, call[p].time)]
                   /\ blocks' = [blocks EXCEPT ![s] = Insert(blocks[s], Count(blocks[s]), b)]
                   /\ endorsed' = [endorsed EXCEPT ![s] = @ \cup {b.prev, b.current}]
                   /\ report' = Appended(s)
<1> DEFINE c == call[p]
           s == c.session
           session == SessionRow(s, c.time)
           n == Count(blocks[s])
           b == SealBlock(PrevHash(s, session), c.digest, c.time)
<1>1. s \in Sessions /\ c.time \in Nat /\ c.digest \in Digests \cup {Malformed}
  BY DEF AppendTxn, TypeOK, Calls, Idle
<1>2. BlockAborts(s, session, n, b) = {} => ~Latched(s) /\ n \notin DOMAIN blocks[s]
  BY DEF BlockAborts
<1>3. UNCHANGED <<clock, events, edits>>
  BY DEF AppendTxn, tables, Rollback
<1>4. Transition("SEALED", "VALIDATION_FAIL") = "REJECTED_INVALID"
  <2>1. ~\E t \in TRANSITION_TABLE : t[1] = "SEALED" /\ t[2] = "VALIDATION_FAIL"
    BY DEF TRANSITION_TABLE
  <2> QED
    BY <2>1 DEF Transition, TERMINAL_STATES
<1>5. ASSUME NEW failure \in {"DETERMINISTIC", "SECURITY", "BUSINESS"},
             Return(p, Rejected(s, failure, "VALIDATION_FAIL")), Rollback(s, session)
      PROVE  /\ UNCHANGED <<sessions, blocks, endorsed>> /\ report'.state # "APPENDED"
             /\ report'.failure # "NONE"
  BY <1>4, <1>5 DEF Return, Rejected, Rollback, tables
<1>6. \A why : Classify(why) \in {"SECURITY", "BUSINESS"}
  BY DEF Classify
<1>7. CASE c.digest = Malformed \/ n > MAX_BLOCK_SEQ
  BY <1>3, <1>5, <1>7 DEF AppendTxn
<1>8. CASE /\ \E why \in BlockAborts(s, session, n, b) :
                 Return(p, Rejected(s, Classify(why), "VALIDATION_FAIL"))
           /\ Rollback(s, session)
  BY <1>3, <1>5, <1>6, <1>8
<1>9. CASE /\ c.digest # Malformed /\ BlockAborts(s, session, n, b) = {}
           /\ sessions' = [sessions EXCEPT ![s] = session]
           /\ blocks' = [blocks EXCEPT ![s] = Insert(blocks[s], n, b)]
           /\ endorsed' = [endorsed EXCEPT ![s] = @ \cup {b.prev, b.current}]
           /\ Return(p, Appended(s))
  BY <1>1, <1>2, <1>3, <1>9 DEF Return
<1> QED
  BY <1>7, <1>8, <1>9 DEF AppendTxn

-----------------------------------------------------------------------------
(* The latch and the audits in flight *)

\* The position a latched session is reported at is a position.
LEMMA LatchedIsBroken ==
  ASSUME TypeOK, NEW s \in Sessions, Latched(s),
         \A i \in DOMAIN events[s] : events[s][i].is_tampered => events[s][i].broken # NoSeq
  PROVE  LatchedBrokenSeq(s) # NoSeq
<1> DEFINE evs == events[s]
           Tampered == {i \in DOMAIN evs : evs[i].is_tampered}
<1>1. DOMAIN evs = 1 .. Len(evs) /\ Len(evs) \in Nat
  BY DEF TypeOK
<1>2. PICK x \in Tampered : \A y \in Tampered : x <= y
  <2>1. Tampered \in SUBSET Nat /\ Tampered # {}
    BY <1>1 DEF Latched
  <2> HIDE DEF Tampered
  <2> QED
    BY <2>1, LeastNatural
<1>3. x \in Nat /\ x > 0 /\ x \in DOMAIN evs /\ evs[x].is_tampered
  BY <1>1
<1>4. CleanPrefix(s) = 1 .. x - 1
  <2>1. ASSUME NEW i \in CleanPrefix(s) PROVE i \in 1 .. x - 1
    <3>1. i \in 1 .. Len(evs) /\ \A j \in 1 .. i : ~evs[j].is_tampered
      BY <1>1 DEF CleanPrefix
    <3>2. ~(x <= i)
      BY <1>3, <3>1
    <3> QED
      BY <1>3, <3>1, <3>2
  <2>2. ASSUME NEW i \in 1 .. x - 1 PROVE i \in CleanPrefix(s)
    <3>1. i \in DOMAIN evs
      BY <1>1, <1>3
    <3>2. \A j \in 1 .. i : j \in DOMAIN evs /\ ~(x <= j)
      BY <1>1, <1>3
    <3>3. \A j \in 1 .. i : ~evs[j].is_tampered
      BY <1>2, <3>2
    <3> QED
      BY <3>1, <3>3 DEF CleanPrefix
  <2> QED
    BY <2>1, <2>2
<1>5. Cardinality(CleanPrefix(s)) + 1 = x
  <2>1. \A n \in Nat : Cardinality(1 .. n) = n
    BY FS_Interval, SMT
  <2>2. x - 1 \in Nat
    BY <1>3
  <2> HIDE DEF Tampered
  <2> QED
    BY <1>3, <1>4, <2>1, <2>2
<1> QED
  BY <1>3, <1>5 DEF LatchedBrokenSeq

\* The calls that carry an audit, by their stage.
LEMMA AuditingCalls ==
  ASSUME TypeOK, NEW p \in Procs
  PROVE  /\ call[p].pc = "loaded" =>
              call[p] \in [pc : {"loaded"}, kind : {"verify", "query"}, session : Sessions,
                           audit : Verdicts, began_latched : BOOLEAN]
         /\ call[p].pc = "persist" =>
              call[p] \in [pc : {"persist"}, kind : {"verify"}, session : Sessions,
                           audit : Verdicts, began_latched : BOOLEAN,
                           attempts : 0 .. MAX_RETRIES]
BY DEF TypeOK, Calls, Idle

\* An audit that found something says where.
Located(audit) == audit.is_tampered => audit.broken # NoSeq

\* An audit begun on a latched session has the latch to read, and has read it
\* when it writes.
LatchInv ==
    /\ \A s \in Sessions : \A i \in DOMAIN events[s] : Located(events[s][i])
    /\ \A p \in Procs : call[p].pc \in {"loaded", "persist"} =>
          Located(call[p].audit) /\ (call[p].began_latched => Latched(call[p].session))
    /\ \A p \in Procs : call[p].pc = "persist" /\ call[p].began_latched =>
          call[p].audit.is_tampered
    /\ LatchedNeverReportedClean

\* Calls that go on as they were, or end, keep the invariant.
LEMMA LatchInvKept ==
  ASSUME TypeOK, TypeOK', [Next]_vars, LatchInv, UNCHANGED events, LatchedNeverReportedClean',
         \A p \in Procs : call'[p].pc \in {"loaded", "persist"} =>
            /\ call'[p].pc = call[p].pc /\ call'[p].audit = call[p].audit
            /\ call'[p].began_latched = call[p].began_latched
            /\ call'[p].session = call[p].session
  PROVE  LatchInv'
<1>1. \A s : Latched(s) => Latched(s)'
  BY DEF Latched
<1>2. \A s \in Sessions : \A i \in DOMAIN events'[s] : Located(events'[s][i])
  BY DEF LatchInv
<1>3. ASSUME NEW p \in Procs, call'[p].pc \in {"loaded", "persist"}
      PROVE  /\ Located(call'[p].audit)
             /\ call'[p].began_latched => Latched(call'[p].session)
             /\ call'[p].pc = "persist" /\ call'[p].began_latched => call'[p].audit.is_tampered
  BY <1>3 DEF LatchInv
<1>4. ASSUME NEW p \in Procs, call'[p].pc \in {"loaded", "persist"}, call'[p].began_latched
      PROVE  Latched(call[p].session)'
  BY <1>1, <1>3, <1>4 DEF Latched
<1> QED
  BY <1>2, <1>3, <1>4 DEF LatchInv, Located

\* One step of any actor keeps the invariant of the audits in flight.
LEMMA LatchInvStep == TypeOK /\ TypeOK' /\ LatchInv /\ [Next]_vars => LatchInv'
<1> SUFFICES ASSUME TypeOK, TypeOK', LatchInv, [Next]_vars PROVE LatchInv'
  OBVIOUS
<1>a. ASSUME UNCHANGED events, report'.kind \notin {"verify", "query"},
             \A p \in Procs : call'[p].pc \in {"loaded", "persist"} => call'[p] = call[p]
      PROVE  LatchInv'
  BY <1>a, LatchInvKept DEF LatchedNeverReportedClean
<1> USE DEF NoReport
<1>1. CASE Tick
  BY <1>1, <1>a DEF Tick, tables
<1>2. ASSUME NEW p \in Procs, NEW s \in Sessions, NEW d \in Digests \cup {Malformed},
             RecordStep(p, s, d)
      PROVE  LatchInv'
  BY <1>2, <1>a DEF RecordStep, Begin, tables, TypeOK
<1>3. ASSUME NEW p \in Procs, NEW s \in Sessions, CaptureRejected(p, s)
      PROVE  LatchInv'
  BY <1>3, <1>a DEF CaptureRejected, Return, Rejected, Idle, tables, TypeOK
<1>4. ASSUME NEW p \in Procs, NEW s \in Sessions, NEW kind \in {"verify", "query"},
             LoadChain(p, s, kind)
      PROVE  LatchInv'
  <2>1. CASE sessions[s] = NoSession
    BY <1>4, <1>a, <2>1 DEF LoadChain, Return, Idle, tables, TypeOK
  <2>2. CASE sessions[s] # NoSession
    <3> DEFINE audit == VerifyChain(s, sessions[s].genesis, blocks[s])
    <3>1. /\ call'[p] = [pc |-> "loaded", kind |-> kind, session |-> s, audit |-> audit,
                         began_latched |-> Latched(s)]
          /\ \A q \in Procs \ {p} : call'[q] = call[q]
          /\ report' = NoReport /\ UNCHANGED events
      BY <1>4, <2>2 DEF LoadChain, Begin, tables, TypeOK
    <3>2. Located(audit)
      BY DEF VerifyChain, FailClosedAudit, Audit, Located
    <3> HIDE DEF audit
    <3>3. /\ call'[p].pc = "loaded" /\ call'[p].session = s /\ call'[p].audit = audit
          /\ call'[p].began_latched = Latched(s)
      BY <3>1
    <3>4. ASSUME NEW q \in Procs, call'[q].pc \in {"loaded", "persist"}
          PROVE  /\ Located(call'[q].audit)
                 /\ call'[q].began_latched => Latched(call'[q].session)
                 /\ call'[q].pc = "persist" /\ call'[q].began_latched => call'[q].audit.is_tampered
      <4>1. CASE q = p
        BY <3>2, <3>3, <4>1
      <4>2. CASE q # p
        BY <3>1, <3>4, <4>2 DEF LatchInv
      <4> QED
        BY <4>1, <4>2
    <3>5. LatchedNeverReportedClean'
      BY <3>1 DEF LatchedNeverReportedClean
    <3> QED
      BY <3>1, <3>4, <3>5 DEF LatchInv, Latched, Located
  <2> QED
    BY <2>1, <2>2
<1>5. ASSUME NEW p \in Procs, AppendTxn(p)
      PROVE  LatchInv'
  <2>1. call' = [call EXCEPT ![p] = Idle] /\ report'.kind = "append"
    BY <1>5 DEF AppendTxn, Return, Rejected, Appended
  <2>2. UNCHANGED events
    BY <1>5, AppendCommits
  <2> QED
    BY <1>a, <2>1, <2>2 DEF Idle, TypeOK
<1>6. ASSUME NEW p \in Procs, ReadLatch(p)
      PROVE  LatchInv'
  <2> DEFINE s == call[p].session
             audit == ApplyLatch(call[p].audit, LatchedBrokenSeq(s))
  <2>1. /\ call[p] \in [pc : {"loaded"}, kind : {"verify", "query"}, session : Sessions,
                        audit : Verdicts, began_latched : BOOLEAN]
        /\ Located(call[p].audit) /\ (call[p].began_latched => Latched(s))
    BY <1>6, AuditingCalls DEF ReadLatch, LatchInv
  <2>2. UNCHANGED events
    BY <1>6 DEF ReadLatch, tables
  <2>3. Located(audit) /\ (call[p].began_latched => audit.is_tampered)
    <3>1. Latched(s) => LatchedBrokenSeq(s) # NoSeq
      BY <2>1, LatchedIsBroken DEF LatchInv, Located
    <3>2. \A b : b # NoSeq => Audit(b).is_tampered /\ Audit(b).broken # NoSeq
      <4>1. ASSUME NEW b, b # NoSeq PROVE Audit(b).is_tampered /\ Audit(b).broken = b
        BY <4>1 DEF Audit
      <4> QED
        BY <4>1
    <3> QED
      BY <2>1, <3>1, <3>2 DEF ApplyLatch, Located
  <2> HIDE DEF audit
  <2>4. CASE /\ call' = [call EXCEPT ![p] =
                   [pc |-> "persist", kind |-> call[p].kind, session |-> s, audit |-> audit,
                    began_latched |-> call[p].began_latched, attempts |-> 0]]
             /\ report' = NoReport
    <3>1. /\ call'[p].pc = "persist" /\ call'[p].session = s /\ call'[p].audit = audit
          /\ call'[p].began_latched = call[p].began_latched
          /\ \A q \in Procs \ {p} : call'[q] = call[q]
      BY <2>4 DEF TypeOK
    <3>2. ASSUME NEW q \in Procs, call'[q].pc \in {"loaded", "persist"}
          PROVE  /\ Located(call'[q].audit)
                 /\ call'[q].began_latched => Latched(call'[q].session)
                 /\ call'[q].pc = "persist" /\ call'[q].began_latched => call'[q].audit.is_tampered
      <4>1. CASE q = p
        BY <2>1, <2>3, <3>1, <4>1
      <4>2. CASE q # p
        BY <3>1, <3>2, <4>2 DEF LatchInv
      <4> QED
        BY <4>1, <4>2
    <3>3. LatchedNeverReportedClean'
      BY <2>4 DEF LatchedNeverReportedClean
    <3> QED
      BY <2>2, <3>2, <3>3 DEF LatchInv, Latched, Located
  <2>5. CASE Return(p, [kind |-> call[p].kind, session |-> s, state |-> "AUDIT",
                        audit |-> audit, began_latched |-> call[p].began_latched])
    <3>1. \A q \in Procs : call'[q].pc \in {"loaded", "persist"} => call'[q] = call[q]
      BY <2>5 DEF Return, Idle, TypeOK
    <3>2. LatchedNeverReportedClean'
      BY <2>3, <2>5 DEF Return, LatchedNeverReportedClean
    <3> QED
      BY <2>2, <3>1, <3>2, LatchInvKept
  <2> QED
    BY <1>6, <2>1, <2>4, <2>5 DEF ReadLatch, AuditReport, audit
<1>7. ASSUME NEW p \in Procs, PersistVerdict(p)
      PROVE  LatchInv'
  <2> DEFINE c == call[p]
             s == c.session
  <2>1. /\ s \in Sessions /\ c.audit \in Verdicts /\ c.pc = "persist"
        /\ Located(c.audit) /\ (c.began_latched => c.audit.is_tampered)
    BY <1>7, AuditingCalls DEF PersistVerdict, LatchInv
  <2>2. /\ call' = [call EXCEPT ![p] = Idle]
        /\ report'.audit = c.audit /\ report'.began_latched = c.began_latched
    BY <1>7 DEF PersistVerdict, Return, PersistFailure, AuditReport
  <2>3. \/ events' = events
        \/ events' = [events EXCEPT ![s] = Append(events[s], c.audit)]
    BY <1>7 DEF PersistVerdict
  <2>4. \A t \in Sessions : Latched(t) => Latched(t)'
    BY LatchStep DEF KeepsLatch
  <2>5. ASSUME NEW t \in Sessions, NEW i \in DOMAIN events'[t]
        PROVE  Located(events'[t][i])
    <3>1. \/ events'[t] = events[t]
          \/ t = s /\ events'[t] = Append(events[t], c.audit)
      BY <2>1, <2>3 DEF TypeOK
    <3>2. events[t] \in Seq(Verdicts)
      BY DEF TypeOK
    <3>3. \/ i \in DOMAIN events[t] /\ events'[t][i] = events[t][i]
          \/ events'[t][i] = c.audit
      BY <3>1, <3>2
    <3> QED
      BY <2>1, <3>3 DEF LatchInv
  <2>6. \A q \in Procs : call'[q].pc \in {"loaded", "persist"} => call'[q] = call[q]
    BY <2>2 DEF Idle, TypeOK
  <2>7. ASSUME NEW q \in Procs, call'[q].pc \in {"loaded", "persist"}
        PROVE  /\ Located(call'[q].audit)
               /\ call'[q].began_latched => Latched(call[q].session)' /\ call'[q] = call[q]
               /\ call'[q].pc = "persist" /\ call'[q].began_latched => call'[q].audit.is_tampered
    <3>1. call'[q] = call[q] /\ call[q].session \in Sessions
      BY <2>6, <2>7, AuditingCalls
    <3>2. call[q].began_latched => Latched(call[q].session)
      BY <2>7, <3>1 DEF LatchInv
    <3>3. call[q].began_latched => \E i \in DOMAIN events'[call[q].session] :
                                      events'[call[q].session][i].is_tampered
      BY <2>4, <3>1, <3>2 DEF Latched
    <3> QED
      BY <2>7, <3>1, <3>3 DEF LatchInv, Latched
  <2>8. LatchedNeverReportedClean'
    BY <2>1, <2>2 DEF LatchedNeverReportedClean
  <2> QED
    BY <2>5, <2>7, <2>8 DEF LatchInv, Located, Latched
<1>8. ASSUME NEW p \in Procs, WalBusy(p)
      PROVE  LatchInv'
  <2> DEFINE c == call[p]
  <2>1. c \in Calls /\ c.pc \in {"append", "persist"} /\ UNCHANGED events
    BY <1>8 DEF WalBusy, TypeOK, tables
  <2>2. CASE c.attempts < MAX_RETRIES
    <3>1. call' = [call EXCEPT ![p] = [c EXCEPT !.attempts = @ + 1]] /\ report' = NoReport
      BY <1>8, <2>2 DEF WalBusy, TypeOK
    <3>2. ASSUME NEW q \in Procs, call'[q].pc \in {"loaded", "persist"}
          PROVE  /\ call'[q].pc = call[q].pc /\ call'[q].audit = call[q].audit
                 /\ call'[q].began_latched = call[q].began_latched
                 /\ call'[q].session = call[q].session
      <4>1. CASE q = p
        <5>1. call'[p] = [c EXCEPT !.attempts = @ + 1]
          BY <3>1 DEF TypeOK
        <5>2. c.pc = "persist"
          BY <2>1, <3>2, <4>1, <5>1 DEF Calls, Idle
        <5>3. c \in [pc : {"persist"}, kind : {"verify"}, session : Sessions, audit : Verdicts,
                     began_latched : BOOLEAN, attempts : 0 .. MAX_RETRIES]
          BY <5>2, AuditingCalls
        <5> QED
          BY <4>1, <5>1, <5>3
      <4>2. CASE q # p
        BY <3>1, <4>2 DEF TypeOK
      <4> QED
        BY <4>1, <4>2
    <3>3. LatchedNeverReportedClean'
      BY <3>1 DEF LatchedNeverReportedClean
    <3> QED
      BY <2>1, <3>2, <3>3, LatchInvKept
  <2>3. CASE ~(c.attempts < MAX_RETRIES)
    <3>1. /\ call' = [call EXCEPT ![p] = Idle]
          /\ c.pc = "append" => report'.kind = "append"
          /\ c.pc = "persist" => /\ report'.audit = c.audit
                                 /\ report'.began_latched = c.began_latched
      BY <1>8, <2>1, <2>3 DEF WalBusy, Return, Rejected, PersistFailure, AuditReport
    <3>2. \A q \in Procs : call'[q].pc \in {"loaded", "persist"} => call'[q] = call[q]
      BY <3>1 DEF Idle, TypeOK
    <3>3. LatchedNeverReportedClean'
      BY <2>1, <3>1 DEF LatchInv, LatchedNeverReportedClean
    <3> QED
      BY <2>1, <3>2, <3>3, LatchInvKept
  <2> QED
    BY <2>2, <2>3
<1>9. ASSUME NEW p \in Procs, Crash(p)
      PROVE  LatchInv'
  BY <1>9, <1>a DEF Crash, Return, Idle, tables, TypeOK
<1>10. ASSUME NEW s \in Sessions, OfflineEdit(s)
       PROVE  LatchInv'
  BY <1>10, <1>a DEF OfflineEdit
<1>11. CASE UNCHANGED vars
  BY <1>11, LatchInvKept DEF vars, LatchInv, LatchedNeverReportedClean
<1> QED
  BY <1>1, <1>2, <1>3, <1>4, <1>5, <1>6, <1>7, <1>8, <1>9, <1>10, <1>11
     DEF Next, Program, Call, Advance

\* INV-09: an audit that began on a latched session never reports it clean.
THEOREM LatchedIsReported == Spec => []LatchedNeverReportedClean
<1>1. Init => LatchInv
  BY DEF Init, LatchInv, LatchedNeverReportedClean, Idle, NoReport
<1>2. LatchInv => LatchedNeverReportedClean
  BY DEF LatchInv
<1> QED
  BY <1>1, <1>2, LatchInvStep, TypeCorrect, PTL DEF Spec

\* A clean verdict is written, and returned, only while the latch is not set.
THEOREM CleanVerdictsAreNotLatched == Spec => CleanVerdictNotLatched
<1> DEFINE Tells == report'.kind = "verify" /\ report'.state = "AUDIT" =>
                       \A s \in Sessions : report'.session = s =>
                          report'.audit.is_tampered = Latched(s)'
<1>1. TypeOK /\ Next => Tells
  <2> SUFFICES ASSUME TypeOK, Next PROVE Tells
    OBVIOUS
  <2> USE DEF NoReport
  <2>1. ASSUME NEW p \in Procs, PersistVerdict(p) PROVE Tells
    <3>0. call[p].session \in Sessions /\ call[p].audit \in Verdicts
      BY <2>1, AuditingCalls DEF PersistVerdict
    <3> DEFINE c == call[p]
    <3>1. PICK s \in Sessions : s = c.session
      BY <3>0
    <3>2. CASE VerdictAborts(s, c.audit) # {}
      <4>1. report'.state \in {"LatchPersistenceError", "IntegrityError"}
        BY <2>1, <3>1, <3>2 DEF PersistVerdict, Return, PersistFailure, AuditReport
      <4> QED
        BY <4>1
    <3>3. CASE VerdictAborts(s, c.audit) = {}
      <4>1. /\ report'.session = s /\ report'.audit = c.audit
            /\ events'[s] = Append(events[s], c.audit)
        BY <2>1, <3>0, <3>1, <3>3 DEF PersistVerdict, Return, AuditReport, TypeOK
      <4>2. ~c.audit.is_tampered => ~Latched(s)
        BY <3>3 DEF VerdictAborts
      <4>3. events[s] \in Seq(Verdicts)
        BY <3>1 DEF TypeOK
      <4>4. /\ DOMAIN events'[s] = DOMAIN events[s] \cup {Len(events[s]) + 1}
            /\ events'[s][Len(events[s]) + 1] = c.audit
            /\ \A i \in DOMAIN events[s] : events'[s][i] = events[s][i]
        BY <3>0, <4>1, <4>3
      <4>5. c.audit.is_tampered <=> Latched(s)'
        BY <4>2, <4>4 DEF Latched
      <4>6. Latched(s)' \in BOOLEAN /\ c.audit.is_tampered \in BOOLEAN
        BY <3>0 DEF Latched, Verdicts
      <4>7. c.audit.is_tampered = Latched(s)'
        BY <4>5, <4>6, Zenon
      <4> QED
        BY <4>1, <4>7
    <3> QED
      BY <3>2, <3>3
  <2>2. ASSUME NEW p \in Procs, ReadLatch(p) PROVE Tells
    <3>1. report'.kind \in {"none", "query"}
      BY <2>2 DEF ReadLatch, Return, AuditReport
    <3> QED
      BY <3>1
  <2>3. ASSUME NEW p \in Procs, WalBusy(p) PROVE Tells
    <3>1. \/ report'.kind \in {"none", "append"}
          \/ report'.state \in {"LatchPersistenceError", "RetryExhausted"}
      BY <2>3 DEF WalBusy, Return, Rejected, PersistFailure, AuditReport
    <3> QED
      BY <3>1
  <2>4. ASSUME NEW p \in Procs, AppendTxn(p) PROVE Tells
    <3>1. report'.kind = "append"
      BY <2>4 DEF AppendTxn, Return, Rejected, Appended
    <3> QED
      BY <3>1
  <2>5. ASSUME NEW p \in Procs, Call(p) \/ Crash(p) PROVE Tells
    <3>1. report'.kind \in {"none", "append", "unknown"}
      BY <2>5 DEF Call, Crash, RecordStep, CaptureRejected, LoadChain, Begin, Return, Rejected
    <3> QED
      BY <3>1
  <2>6. ASSUME Tick \/ \E s \in Sessions : OfflineEdit(s) PROVE Tells
    BY <2>6 DEF Tick, OfflineEdit
  <2> HIDE DEF Tells
  <2> QED
    BY <2>1, <2>2, <2>3, <2>4, <2>5, <2>6 DEF Next, Program, Advance
<1>2. TypeOK /\ [Next]_vars => [Tells]_vars
  BY <1>1
<1>3. [][Tells]_vars <=> CleanVerdictNotLatched
  BY DEF CleanVerdictNotLatched
<1> QED
  BY <1>2, <1>3, TypeCorrect, PTL DEF Spec

\* What append_digests returns is what happened to the ledger.
THEOREM OutcomesMatch == Spec => OutcomeMatchesLedger
<1> DEFINE Matches ==
       \A p \in Procs :
          call[p].pc = "append" /\ call'[p].pc = "idle" /\ report'.kind = "append" =>
             LET s == call[p].session IN
             IF report'.state = "APPENDED"
             THEN /\ report'.failure = "NONE"
                  /\ sessions'[s] # NoSession
                  /\ \E k \in DOMAIN blocks'[s] \ DOMAIN blocks[s] :
                        /\ DOMAIN blocks'[s] = DOMAIN blocks[s] \cup {k}
                        /\ blocks'[s][k].digest = call[p].digest
                        /\ blocks'[s][k].time = call[p].time
             ELSE report'.failure # "NONE" /\ UNCHANGED tables
<1>1. TypeOK /\ Next => Matches
  <2> SUFFICES ASSUME TypeOK, Next PROVE Matches
    OBVIOUS
  <2> USE DEF NoReport
  <2>1. ASSUME NEW p \in Procs, AppendTxn(p) PROVE Matches
    <3> DEFINE s == call[p].session
               session == SessionRow(s, call[p].time)
               n == Count(blocks[s])
               b == SealBlock(PrevHash(s, session), call[p].digest, call[p].time)
    <3>1. \A q \in Procs : call[q].pc = "append" /\ call'[q].pc = "idle" => q = p
      BY <2>1 DEF AppendTxn, Return, TypeOK
    <3>2. CASE /\ UNCHANGED <<sessions, blocks, events>>
               /\ report'.state # "APPENDED" /\ report'.failure # "NONE"
      BY <3>1, <3>2 DEF tables
    <3>3. CASE /\ s \in Sessions /\ n \notin DOMAIN blocks[s]
               /\ sessions' = [sessions EXCEPT ![s] = session]
               /\ blocks' = [blocks EXCEPT ![s] = Insert(blocks[s], n, b)]
               /\ report' = Appended(s)
      <4>1. sessions'[s] = session /\ session # NoSession
        <5>1. Genesis(s) # <<>>
          BY DEF Genesis
        <5> QED
          BY <3>3, <5>1 DEF SessionRow, NoSession, TypeOK
      <4>2. Transition("SEALED", "WAL_COMMIT") = "APPENDED"
        <5>1. \A t \in TRANSITION_TABLE :
                 t[1] = "SEALED" /\ t[2] = "WAL_COMMIT" => t = <<"SEALED", "WAL_COMMIT", "APPENDED">>
          BY DEF TRANSITION_TABLE
        <5>2. \E t \in TRANSITION_TABLE : t[1] = "SEALED" /\ t[2] = "WAL_COMMIT"
          BY DEF TRANSITION_TABLE
        <5>3. (CHOOSE t \in TRANSITION_TABLE : t[1] = "SEALED" /\ t[2] = "WAL_COMMIT")
                 = <<"SEALED", "WAL_COMMIT", "APPENDED">>
          BY <5>1, <5>2
        <5>4. Transition("SEALED", "WAL_COMMIT") = "APPENDED"
          <6>1. "SEALED" \notin TERMINAL_STATES
            BY DEF TERMINAL_STATES
          <6>2. <<"SEALED", "WAL_COMMIT", "APPENDED">>[3] = "APPENDED"
            OBVIOUS
          <6> QED
            BY <5>2, <5>3, <6>1, <6>2, Zenon DEF Transition
        <5> QED
          BY <5>4
      <4>3. report'.state = "APPENDED" /\ report'.failure = "NONE"
        BY <3>3, <4>2 DEF Appended
      <4>4. blocks'[s] = Insert(blocks[s], n, b)
        BY <3>3 DEF TypeOK
      <4>5. /\ DOMAIN blocks'[s] = DOMAIN blocks[s] \cup {n} /\ blocks'[s][n] = b
            /\ n \in DOMAIN blocks'[s] \ DOMAIN blocks[s]
        BY <3>3, <4>4 DEF Insert
      <4>6. b.digest = call[p].digest /\ b.time = call[p].time
        BY DEF SealBlock
      <4> HIDE DEF n, b, session
      <4> QED
        BY <3>1, <4>1, <4>3, <4>5, <4>6
    <3> HIDE DEF Matches
    <3> QED
      BY <2>1, <3>2, <3>3, AppendCommits
  <2>2. ASSUME NEW p \in Procs, WalBusy(p) PROVE Matches
    <3>1. UNCHANGED tables /\ \A q \in Procs \ {p} : call'[q] = call[q]
      BY <2>2 DEF WalBusy, Return, TypeOK
    <3>2. call[p].pc = "append" /\ call'[p].pc = "idle"
             => report'.failure = "TRANSIENT" /\ report'.state = "REJECTED_INVALID"
      <4>1. ~\E t \in TRANSITION_TABLE : t[1] = "SEALED" /\ t[2] = "WAL_RETRY_EXHAUSTED"
        BY DEF TRANSITION_TABLE
      <4>2. Transition("SEALED", "WAL_RETRY_EXHAUSTED") = "REJECTED_INVALID"
        BY <4>1 DEF Transition, TERMINAL_STATES
      <4>3. call[p].attempts < MAX_RETRIES => call'[p].pc = call[p].pc
        BY <2>2 DEF WalBusy, TypeOK, Calls, Idle
      <4> QED
        BY <2>2, <4>2, <4>3 DEF WalBusy, Return, Rejected
    <3> QED
      BY <3>1, <3>2
  <2>3. ASSUME NEW p \in Procs, ReadLatch(p) \/ PersistVerdict(p) \/ Call(p) \/ Crash(p)
        PROVE  Matches
    <3>1. \A q \in Procs \ {p} : call'[q] = call[q]
      BY <2>3 DEF ReadLatch, PersistVerdict, Call, RecordStep, CaptureRejected, LoadChain,
                        Crash, Begin, Return, TypeOK
    <3>2. call[p].pc # "append" \/ report'.kind = "none"
      BY <2>3 DEF ReadLatch, PersistVerdict, Call, RecordStep, CaptureRejected, LoadChain,
                        Crash, Begin, Return
    <3> QED
      BY <3>1, <3>2
  <2>4. ASSUME Tick \/ \E s \in Sessions : OfflineEdit(s) PROVE Matches
    BY <2>4 DEF Tick, OfflineEdit
  <2> HIDE DEF Matches
  <2> QED
    BY <2>1, <2>2, <2>3, <2>4 DEF Next, Program, Advance
<1>2. TypeOK /\ [Next]_vars => [Matches]_vars
  BY <1>1
<1>3. [][Matches]_vars <=> OutcomeMatchesLedger
  BY DEF OutcomeMatchesLedger
<1> QED
  BY <1>2, <1>3, TypeCorrect, PTL DEF Spec


-----------------------------------------------------------------------------
(* A step as one session sees it *)

\* A block was sealed onto the chain of s.
SealedOnto(s) ==
    /\ edits'[s] = edits[s]
    /\ Count(blocks[s]) \notin DOMAIN blocks[s]
    /\ \E time \in Nat, digest \in Digests :
          LET session == SessionRow(s, time)
              b == SealBlock(PrevHash(s, session), digest, time)
          IN  /\ sessions'[s] = session
              /\ blocks'[s] = Insert(blocks[s], Count(blocks[s]), b)
              /\ endorsed'[s] = endorsed[s] \cup {b.prev, b.current}

\* The file was edited at s, as e records.
EditedAs(s, e) ==
    /\ sessions[s] # NoSession
    /\ endorsed'[s] = endorsed[s]
    /\ edits'[s] = Append(edits[s], e)
    /\ e.last = Count(blocks[s]) - 1
    /\ \/ /\ sessions'[s] = sessions[s]
          /\ e.seq \in DOMAIN blocks[s]
          /\ \/ /\ e.kind \in {"alter", "reseal", "malform"}
                /\ \E digest \in Digests :
                      /\ EditedRow(blocks[s][e.seq], e.kind, digest) # blocks[s][e.seq]
                      /\ blocks'[s] = Insert(blocks[s], e.seq,
                                             EditedRow(blocks[s][e.seq], e.kind, digest))
             \/ /\ e.kind = "remove"
                /\ blocks'[s] = [i \in DOMAIN blocks[s] \ {e.seq} |-> blocks[s][i]]
       \/ /\ e.kind = "genesis"
          /\ sessions'[s] = [sessions[s] EXCEPT !.genesis = <<"forged", s>>]
          /\ blocks'[s] = blocks[s]

\* An edit records itself at its own session and touches no other.
LEMMA OfflineEditRecords ==
  ASSUME TypeOK, NEW t \in Sessions, OfflineEdit(t), DOMAIN endorsed = Sessions
  PROVE  /\ \E e \in EditRecords : EditedAs(t, e)
         /\ \A s \in Sessions \ {t} :
               UNCHANGED <<sessions[s], blocks[s], edits[s], endorsed[s]>>
<1>0. sessions[t] # NoSession /\ UNCHANGED endorsed
  BY DEF OfflineEdit
<1>1. ASSUME NEW kind \in EditKinds, NEW k \in Nat, LogEdit(t, kind, k)
      PROVE  LET e == [kind |-> kind, seq |-> k, last |-> Count(blocks[t]) - 1] IN
             /\ e \in EditRecords /\ edits'[t] = Append(edits[t], e)
             /\ e.kind = kind /\ e.seq = k /\ e.last = Count(blocks[t]) - 1
             /\ \A s \in Sessions \ {t} : edits'[s] = edits[s]
  <2>1. Count(blocks[t]) \in Nat
    BY CountType DEF TypeOK
  <2> QED
    BY <1>1, <2>1 DEF LogEdit, EditRecords, TypeOK
<1>2. ASSUME NEW k \in DOMAIN blocks[t], NEW kind \in {"alter", "reseal", "malform"},
             NEW d \in Digests, EditRow(t, k, kind, d)
      PROVE  /\ \E e \in EditRecords : EditedAs(t, e)
             /\ \A s \in Sessions \ {t} :
                   UNCHANGED <<sessions[s], blocks[s], edits[s], endorsed[s]>>
  <2> DEFINE e == [kind |-> kind, seq |-> k, last |-> Count(blocks[t]) - 1]
  <2>1. k \in Nat /\ kind \in EditKinds
    BY DEF TypeOK, EditKinds
  <2>2. LogEdit(t, kind, k)
    BY <1>2 DEF EditRow
  <2>3. /\ e \in EditRecords /\ edits'[t] = Append(edits[t], e)
        /\ e.kind = kind /\ e.seq = k /\ e.last = Count(blocks[t]) - 1
        /\ \A s \in Sessions \ {t} : edits'[s] = edits[s]
    BY <1>1, <2>1, <2>2
  <2>4. /\ EditedRow(blocks[t][k], kind, d) # blocks[t][k]
        /\ blocks'[t] = Insert(blocks[t], k, EditedRow(blocks[t][k], kind, d))
        /\ sessions' = sessions
        /\ \A s \in Sessions \ {t} : blocks'[s] = blocks[s]
    BY <1>2 DEF EditRow, TypeOK
  <2> HIDE DEF e
  <2>5. EditedAs(t, e)
    BY <1>0, <2>3, <2>4 DEF EditedAs
  <2> QED
    BY <1>0, <2>3, <2>4, <2>5
<1>3. ASSUME NEW k \in DOMAIN blocks[t], RemoveRow(t, k)
      PROVE  /\ \E e \in EditRecords : EditedAs(t, e)
             /\ \A s \in Sessions \ {t} :
                   UNCHANGED <<sessions[s], blocks[s], edits[s], endorsed[s]>>
  <2> DEFINE e == [kind |-> "remove", seq |-> k, last |-> Count(blocks[t]) - 1]
  <2>1. k \in Nat /\ "remove" \in EditKinds
    BY DEF TypeOK, EditKinds
  <2>2. LogEdit(t, "remove", k)
    BY <1>3 DEF RemoveRow
  <2>3. /\ e \in EditRecords /\ edits'[t] = Append(edits[t], e)
        /\ e.kind = "remove" /\ e.seq = k /\ e.last = Count(blocks[t]) - 1
        /\ \A s \in Sessions \ {t} : edits'[s] = edits[s]
    BY <1>1, <2>1, <2>2
  <2>4. /\ blocks'[t] = [i \in DOMAIN blocks[t] \ {k} |-> blocks[t][i]]
        /\ sessions' = sessions
        /\ \A s \in Sessions \ {t} : blocks'[s] = blocks[s]
    BY <1>3 DEF RemoveRow, TypeOK
  <2> HIDE DEF e
  <2>5. EditedAs(t, e)
    BY <1>0, <2>3, <2>4 DEF EditedAs
  <2> QED
    BY <1>0, <2>3, <2>4, <2>5
<1>4. ASSUME ForgeGenesis(t)
      PROVE  /\ \E e \in EditRecords : EditedAs(t, e)
             /\ \A s \in Sessions \ {t} :
                   UNCHANGED <<sessions[s], blocks[s], edits[s], endorsed[s]>>
  <2> DEFINE e == [kind |-> "genesis", seq |-> 0, last |-> Count(blocks[t]) - 1]
  <2>1. "genesis" \in EditKinds
    BY DEF EditKinds
  <2>2. LogEdit(t, "genesis", 0)
    BY <1>4 DEF ForgeGenesis
  <2>3. /\ e \in EditRecords /\ edits'[t] = Append(edits[t], e)
        /\ e.kind = "genesis" /\ e.last = Count(blocks[t]) - 1
        /\ \A s \in Sessions \ {t} : edits'[s] = edits[s]
    BY <1>1, <2>1, <2>2
  <2>4. /\ sessions'[t] = [sessions[t] EXCEPT !.genesis = <<"forged", t>>]
        /\ blocks' = blocks
        /\ \A s \in Sessions \ {t} : sessions'[s] = sessions[s]
    BY <1>4 DEF ForgeGenesis, TypeOK
  <2> HIDE DEF e
  <2>5. EditedAs(t, e)
    BY <1>0, <2>3, <2>4 DEF EditedAs
  <2> QED
    BY <1>0, <2>3, <2>4, <2>5
<1> QED
  BY <1>2, <1>3, <1>4 DEF OfflineEdit

\* endorsed keeps an entry for each session.
LEMMA EndorsedStep ==
  ASSUME TypeOK, [Next]_vars, DOMAIN endorsed = Sessions
  PROVE  DOMAIN endorsed' = Sessions
<1>1. ASSUME NEW p \in Procs, AppendTxn(p) PROVE DOMAIN endorsed' = Sessions
  BY <1>1, AppendCommits
<1>2. ASSUME NEW p \in Procs,
             ReadLatch(p) \/ PersistVerdict(p) \/ WalBusy(p) \/ Crash(p) \/ Call(p)
      PROVE  UNCHANGED endorsed
  BY <1>2 DEF ReadLatch, PersistVerdict, WalBusy, Crash, Call, RecordStep, CaptureRejected,
              LoadChain
<1>3. ASSUME Tick \/ UNCHANGED vars \/ \E s \in Sessions : OfflineEdit(s) PROVE UNCHANGED endorsed
  BY <1>3 DEF Tick, OfflineEdit, vars
<1> QED
  BY <1>1, <1>2, <1>3 DEF Next, Program, Advance

\* What any step does to one session: nothing, one sealed block, or one edit.
LEMMA SessionStep ==
  ASSUME TypeOK, [Next]_vars, DOMAIN endorsed = Sessions, NEW s \in Sessions
  PROVE  \/ UNCHANGED <<sessions[s], blocks[s], edits[s], endorsed[s]>>
         \/ SealedOnto(s)
         \/ \E e \in EditRecords : EditedAs(s, e)
<1>1. ASSUME NEW p \in Procs, AppendTxn(p)
      PROVE  UNCHANGED <<sessions[s], blocks[s], edits[s], endorsed[s]>> \/ SealedOnto(s)
  <2>1. edits' = edits
    BY <1>1, AppendCommits
  <2>2. CASE UNCHANGED <<sessions, blocks, endorsed>>
    BY <2>1, <2>2
  <2>3. CASE ~UNCHANGED <<sessions, blocks, endorsed>>
    <3> DEFINE t == call[p].session
               session == SessionRow(t, call[p].time)
               b == SealBlock(PrevHash(t, session), call[p].digest, call[p].time)
    <3>1. /\ t \in Sessions /\ call[p].time \in Nat /\ call[p].digest \in Digests
          /\ Count(blocks[t]) \notin DOMAIN blocks[t]
          /\ sessions' = [sessions EXCEPT ![t] = session]
          /\ blocks' = [blocks EXCEPT ![t] = Insert(blocks[t], Count(blocks[t]), b)]
          /\ endorsed' = [endorsed EXCEPT ![t] = @ \cup {b.prev, b.current}]
      BY <1>1, <2>3, AppendCommits
    <3>2. CASE s = t
      <4>1. /\ sessions'[s] = session
            /\ blocks'[s] = Insert(blocks[s], Count(blocks[s]), b)
            /\ endorsed'[s] = endorsed[s] \cup {b.prev, b.current}
        BY <3>1, <3>2 DEF TypeOK
      <4> QED
        BY <2>1, <3>1, <3>2, <4>1 DEF SealedOnto
    <3>3. CASE s # t
      BY <2>1, <3>1, <3>3 DEF TypeOK
    <3> QED
      BY <3>1, <3>2, <3>3
  <2> QED
    BY <2>2, <2>3
<1>2. ASSUME NEW t \in Sessions, OfflineEdit(t)
      PROVE  \/ UNCHANGED <<sessions[s], blocks[s], edits[s], endorsed[s]>>
             \/ \E e \in EditRecords : EditedAs(s, e)
  <2>1. UNCHANGED endorsed
    BY <1>2 DEF OfflineEdit
  <2>2. CASE s = t
    BY <1>2, <2>1, <2>2, OfflineEditRecords
  <2>3. CASE s # t
    BY <1>2, <2>1, <2>3, OfflineEditRecords
  <2> QED
    BY <2>2, <2>3
<1>3. ASSUME NEW p \in Procs,
             ReadLatch(p) \/ PersistVerdict(p) \/ WalBusy(p) \/ Crash(p) \/ Call(p)
      PROVE  UNCHANGED <<sessions, blocks, edits, endorsed>>
  BY <1>3 DEF ReadLatch, PersistVerdict, WalBusy, Crash, Call, RecordStep, CaptureRejected,
              LoadChain, tables
<1>4. ASSUME Tick \/ UNCHANGED vars
      PROVE  UNCHANGED <<sessions, blocks, edits, endorsed>>
  BY <1>4 DEF Tick, tables, vars
<1>5. UNCHANGED <<sessions, blocks, edits, endorsed>>
        => UNCHANGED <<sessions[s], blocks[s], edits[s], endorsed[s]>>
  OBVIOUS
<1> QED
  BY <1>1, <1>2, <1>3, <1>4, <1>5 DEF Next, Program, Advance

\* The log of a session's edits only grows by an edit.
LEMMA EditGrowsLog ==
  ASSUME TypeOK, NEW s \in Sessions, NEW e \in EditRecords, EditedAs(s, e)
  PROVE  /\ Len(edits'[s]) = Len(edits[s]) + 1 /\ Len(edits[s]) \in Nat
         /\ edits'[s] # edits[s] /\ edits'[s] # <<>>
         /\ Len(edits'[s]) = 1 => edits[s] = <<>> /\ edits'[s][1] = e
<1>1. edits[s] \in Seq(EditRecords) /\ edits'[s] = Append(edits[s], e)
  BY DEF TypeOK, EditedAs
<1>2. Len(edits'[s]) = Len(edits[s]) + 1 /\ Len(edits[s]) \in Nat
  BY <1>1
<1>3. Len(edits'[s]) = 1 => Len(edits[s]) = 0 /\ edits'[s][1] = e
  BY <1>1, <1>2
<1>4. Len(edits[s]) = 0 => edits[s] = <<>>
  BY <1>1
<1> QED
  BY <1>1, <1>2, <1>3, <1>4

-----------------------------------------------------------------------------
(* What a verdict says of an edited chain, however late it is asked *)

\* A step that does not edit s leaves what is reported of it as it is.
LEMMA VerdictStable ==
  ASSUME TypeOK, NEW s \in Sessions, sessions[s] # NoSession, Verdict(s).is_tampered,
         SealedOnto(s) \/ UNCHANGED <<sessions[s], blocks[s]>>
  PROVE  Verdict(s)' = Verdict(s) /\ sessions'[s] = sessions[s]
<1>1. CASE UNCHANGED <<sessions[s], blocks[s]>>
  BY <1>1 DEF Verdict
<1>2. CASE SealedOnto(s)
  <2>1. PICK time \in Nat, digest \in Digests :
           LET session == SessionRow(s, time)
               b == SealBlock(PrevHash(s, session), digest, time)
           IN  sessions'[s] = session /\ blocks'[s] = Insert(blocks[s], Count(blocks[s]), b)
    BY <1>2 DEF SealedOnto
  <2> DEFINE b == SealBlock(PrevHash(s, SessionRow(s, time)), digest, time)
  <2>2. sessions'[s] = sessions[s]
    BY <2>1 DEF SessionRow
  <2>3. b.digest # Malformed
    BY DigestsAssumption DEF SealBlock
  <2>4. blocks'[s] = Insert(blocks[s], Count(blocks[s]), b)
    BY <2>1
  <2>5. /\ Count(blocks[s]) \notin DOMAIN blocks[s] /\ IsFiniteSet(DOMAIN blocks[s])
        /\ VerifyChain(s, sessions[s].genesis, blocks[s]).is_tampered
    BY <1>2 DEF SealedOnto, TypeOK, Verdict
  <2> HIDE DEF b
  <2>6. VerifyChain(s, sessions[s].genesis, Insert(blocks[s], Count(blocks[s]), b))
           = VerifyChain(s, sessions[s].genesis, blocks[s])
    BY <2>3, <2>5, AppendKeepsReport
  <2> QED
    BY <2>2, <2>4, <2>6 DEF Verdict
<1> QED
  BY <1>1, <1>2

\* Whatever is edited, every stored block still names a predecessor that an
\* append sealed or built upon.
PredecessorsEndorsed ==
    /\ DOMAIN endorsed = Sessions
    /\ \A s \in Sessions : \A k \in DOMAIN blocks[s] : blocks[s][k].prev \in endorsed[s]

\* Any number of edits and appends, in any order, keeps the predecessors named.
LEMMA PredecessorsStep == TypeOK /\ PredecessorsEndorsed /\ [Next]_vars => PredecessorsEndorsed'
<1> SUFFICES ASSUME TypeOK, PredecessorsEndorsed, [Next]_vars PROVE PredecessorsEndorsed'
  OBVIOUS
<1>1. ASSUME NEW s \in Sessions, NEW k \in DOMAIN blocks'[s]
      PROVE  blocks'[s][k].prev \in endorsed'[s]
  <2>1. CASE UNCHANGED <<blocks[s], endorsed[s]>>
    BY <1>1, <2>1 DEF PredecessorsEndorsed
  <2>2. CASE SealedOnto(s)
    <3>1. PICK b : /\ blocks'[s] = Insert(blocks[s], Count(blocks[s]), b)
                   /\ endorsed'[s] = endorsed[s] \cup {b.prev, b.current}
      BY <2>2 DEF SealedOnto
    <3>2. k \in DOMAIN blocks[s] \cup {Count(blocks[s])}
      BY <1>1, <3>1 DEF Insert
    <3>3. blocks'[s][k] = IF k = Count(blocks[s]) THEN b ELSE blocks[s][k]
      BY <3>1, <3>2 DEF Insert
    <3> QED
      BY <3>1, <3>2, <3>3 DEF PredecessorsEndorsed
  <2>3. ASSUME NEW e \in EditRecords, EditedAs(s, e)
        PROVE  blocks'[s][k].prev \in endorsed'[s]
    <3>1. endorsed'[s] = endorsed[s]
      BY <2>3 DEF EditedAs
    <3>2. CASE blocks'[s] = blocks[s]
      BY <1>1, <3>1, <3>2 DEF PredecessorsEndorsed
    <3>3. CASE blocks'[s] = [i \in DOMAIN blocks[s] \ {e.seq} |-> blocks[s][i]]
      BY <1>1, <3>1, <3>3 DEF PredecessorsEndorsed
    <3>4. ASSUME NEW digest, e.seq \in DOMAIN blocks[s],
                 e.kind \in {"alter", "reseal", "malform"},
                 blocks'[s] = Insert(blocks[s], e.seq, EditedRow(blocks[s][e.seq], e.kind, digest))
          PROVE  blocks'[s][k].prev \in endorsed'[s]
      <4>1. k \in DOMAIN blocks[s]
        BY <1>1, <3>4 DEF Insert
      <4>2. EditedRow(blocks[s][e.seq], e.kind, digest).prev = blocks[s][e.seq].prev
        BY <3>4 DEF EditedRow, SealBlock, TypeOK, IsRow
      <4>3. blocks'[s][k].prev = blocks[s][k].prev
        BY <3>4, <4>1, <4>2 DEF Insert
      <4> QED
        BY <3>1, <4>1, <4>3 DEF PredecessorsEndorsed
    <3> QED
      BY <2>3, <3>2, <3>3, <3>4 DEF EditedAs
  <2> QED
    BY <2>1, <2>2, <2>3, SessionStep DEF PredecessorsEndorsed
<1>2. DOMAIN endorsed' = Sessions
  BY EndorsedStep DEF PredecessorsEndorsed
<1> QED
  BY <1>1, <1>2 DEF PredecessorsEndorsed

\* Every stored block names a predecessor that an append sealed or built upon.
LEMMA PredecessorsHold == Spec => []PredecessorsEndorsed
<1>1. Init => PredecessorsEndorsed
  BY DEF Init, PredecessorsEndorsed, NoRows
<1> QED
  BY <1>1, PredecessorsStep, TypeCorrect, PTL DEF Spec

\* Appending to a chain that fails its audit never moves the reported position.
THEOREM ReportsAreStable == Spec => BrokenSeqStable
<1> DEFINE Stable == \A s \in Sessions :
              sessions[s] # NoSession /\ Verdict(s).is_tampered /\ edits'[s] = edits[s]
                 => Verdict(s)' = Verdict(s)
<1>1. TypeOK /\ PredecessorsEndorsed /\ [Next]_vars => Stable
  <2> SUFFICES ASSUME TypeOK, PredecessorsEndorsed, [Next]_vars, NEW s \in Sessions,
                      sessions[s] # NoSession, Verdict(s).is_tampered, edits'[s] = edits[s]
               PROVE  Verdict(s)' = Verdict(s)
    OBVIOUS
  <2>1. ~\E e \in EditRecords : EditedAs(s, e)
    BY EditGrowsLog
  <2> QED
    BY <2>1, SessionStep, VerdictStable DEF PredecessorsEndorsed
<1>2. [][Stable]_vars <=> BrokenSeqStable
  BY DEF BrokenSeqStable
<1> QED
  BY <1>1, <1>2, TypeCorrect, PredecessorsHold, PTL DEF Spec

\* A clean verdict pins the content of every block below the last one.
THEOREM CleanVerdictsPinHistory == Spec => []CleanVerdictPinsHistory
<1>1. TypeOK /\ PredecessorsEndorsed => CleanVerdictPinsHistory
  <2> SUFFICES ASSUME TypeOK, PredecessorsEndorsed, NEW s \in Sessions,
                      ~Verdict(s).is_tampered, NEW k \in 0 .. Count(blocks[s]) - 2
               PROVE  BlockHash(blocks[s][k].prev, blocks[s][k].digest, blocks[s][k].time)
                         \in endorsed[s]
    BY DEF CleanVerdictPinsHistory
  <2>1. IsFiniteSet(DOMAIN blocks[s]) /\ Count(blocks[s]) \in Nat
    BY CountType DEF TypeOK
  <2>2. \A i \in 0 .. Count(blocks[s]) - 1 : Consistent(sessions[s].genesis, blocks[s], i)
    BY <2>1, CleanChain DEF Verdict
  <2>3. k \in 0 .. Count(blocks[s]) - 1 /\ k + 1 \in 0 .. Count(blocks[s]) - 1
    BY <2>1
  <2>4. blocks[s][k].current = BlockHash(blocks[s][k].prev, blocks[s][k].digest, blocks[s][k].time)
    BY <2>2, <2>3 DEF Consistent
  <2>5. k + 1 \in DOMAIN blocks[s] /\ blocks[s][k + 1].prev = blocks[s][k].current
    <3>1. k + 1 # 0 /\ (k + 1) - 1 = k
      BY <2>3
    <3> QED
      BY <2>2, <2>3, <3>1 DEF Consistent
  <2> QED
    BY <2>4, <2>5 DEF PredecessorsEndorsed
<1> QED
  BY <1>1, PredecessorsHold, TypeCorrect, PTL DEF Spec

-----------------------------------------------------------------------------
(* One offline edit and the position it is reported at *)

\* Every block of s is what sealing its own content yields.
RowsSealed(s) ==
    \A k \in DOMAIN blocks[s] :
       blocks[s][k] = SealBlock(blocks[s][k].prev, blocks[s][k].digest, blocks[s][k].time)

\* What the audit of s says once e is the only edit of its file.
ReportedAs(s, e) ==
    /\ e.kind \in {"malform", "genesis"} => Verdict(s) = Audit(0)
    /\ e.kind = "alter" => Verdict(s) = Audit(e.seq)
    /\ e.kind = "remove" /\ e.seq < e.last => Verdict(s) = Audit(e.seq)
    /\ e.kind = "reseal" /\ e.seq < e.last => Verdict(s) = Audit(e.seq + 1)

Reported(s) == ReportedAs(s, edits[s][1])

SingleEditInv ==
    \A s \in Sessions :
       /\ ~Edited(s) => RowsSealed(s)
       /\ Len(edits[s]) = 1 => sessions[s] # NoSession /\ Reported(s)

\* Changing the content of a block of a sound chain without its hash is
\* reported at that block.
LEMMA AlterationFound ==
  ASSUME TypeOK, NEW s \in Sessions, ChainSound(s), RowsSealed(s),
         NEW k \in DOMAIN blocks[s], NEW d \in Digests,
         NEW row, row = [blocks[s][k] EXCEPT !.digest = d], row # blocks[s][k]
  PROVE  VerifyChain(s, Genesis(s), Insert(blocks[s], k, row)) = Audit(k)
<1> DEFINE rows == blocks[s]
           new == Insert(rows, k, row)
<1>1. /\ Count(rows) \in Nat /\ DOMAIN rows = 0 .. Count(rows) - 1 /\ IsFiniteSet(DOMAIN rows)
      /\ k \in Nat /\ k < Count(rows)
  BY CountType DEF TypeOK, ChainSound
<1>2. /\ DOMAIN new = DOMAIN rows /\ new[k] = row
      /\ \A i \in DOMAIN rows \ {k} : new[i] = rows[i]
      /\ Count(new) = Count(rows)
  BY DEF Insert, Count
<1>3. /\ row.digest = d /\ row.prev = rows[k].prev /\ row.time = rows[k].time
      /\ row.current = rows[k].current
  BY DEF TypeOK, IsRow
<1>4. d # rows[k].digest
  <2>1. rows[k] = SealBlock(rows[k].prev, rows[k].digest, rows[k].time)
    BY DEF RowsSealed
  <2>2. d = rows[k].digest => [rows[k] EXCEPT !.digest = d] = rows[k]
    BY <2>1 DEF SealBlock
  <2> QED
    BY <2>2
<1>5. rows[k].current = BlockHash(rows[k].prev, rows[k].digest, rows[k].time)
  BY DEF ChainSound, Consistent
<1>6. row.current # BlockHash(row.prev, row.digest, row.time)
  BY <1>3, <1>4, <1>5 DEF BlockHash
<1> HIDE DEF new
<1>7. ~Consistent(Genesis(s), new, k)
  BY <1>2, <1>6 DEF Consistent
<1>8. ASSUME NEW j \in 0 .. k - 1 PROVE Consistent(Genesis(s), new, j)
  <2>1. /\ j \in DOMAIN rows /\ j # k /\ j - 1 # k /\ (j > 0 => j - 1 \in DOMAIN rows)
        /\ (j = 0 \/ j > 0)
    BY <1>1
  <2>2. Consistent(Genesis(s), rows, j)
    BY <2>1 DEF ChainSound
  <2> QED
    BY <1>2, <2>1, <2>2 DEF Consistent
<1>9. \A i \in DOMAIN new : new[i].digest # Malformed
  <2>1. \A i \in DOMAIN rows : rows[i].digest # Malformed
    BY DigestsAssumption DEF ChainSound
  <2>2. d # Malformed
    BY DigestsAssumption
  <2>3. \A i \in DOMAIN rows \ {k} : new[i].digest # Malformed
    BY <1>2, <2>1
  <2>4. new[k].digest # Malformed
    BY <1>2, <1>3, <2>2, Zenon
  <2> QED
    BY <1>2, <2>3, <2>4
<1> QED
  BY <1>1, <1>2, <1>7, <1>8, <1>9, FirstFailure DEF new

\* Re-sealing a block of a sound chain, the last one excepted, is reported at
\* the next block.
LEMMA ResealFound ==
  ASSUME TypeOK, NEW s \in Sessions, ChainSound(s), RowsSealed(s),
         NEW k \in DOMAIN blocks[s], k < Count(blocks[s]) - 1, NEW d \in Digests,
         NEW row, row = SealBlock(blocks[s][k].prev, d, blocks[s][k].time), row # blocks[s][k]
  PROVE  VerifyChain(s, Genesis(s), Insert(blocks[s], k, row)) = Audit(k + 1)
<1> DEFINE rows == blocks[s]
           new == Insert(rows, k, row)
<1>1. /\ Count(rows) \in Nat /\ DOMAIN rows = 0 .. Count(rows) - 1 /\ IsFiniteSet(DOMAIN rows)
      /\ k \in Nat /\ k + 1 < Count(rows) /\ k + 1 \in DOMAIN rows
  BY CountType DEF TypeOK, ChainSound
<1>2. /\ DOMAIN new = DOMAIN rows /\ new[k] = row
      /\ \A i \in DOMAIN rows \ {k} : new[i] = rows[i]
      /\ Count(new) = Count(rows)
  BY DEF Insert, Count
<1>3. /\ row.digest = d /\ row.prev = rows[k].prev /\ row.time = rows[k].time
      /\ row.current = BlockHash(rows[k].prev, d, rows[k].time)
  BY DEF SealBlock
<1>4. rows[k] = SealBlock(rows[k].prev, rows[k].digest, rows[k].time)
  BY DEF RowsSealed
<1>5. d # rows[k].digest
  BY <1>4
<1>6. rows[k].current # row.current
  <2>1. rows[k].current = BlockHash(rows[k].prev, rows[k].digest, rows[k].time)
    BY DEF ChainSound, Consistent
  <2> QED
    BY <1>3, <1>5, <2>1 DEF BlockHash
<1>7. k + 1 # k /\ k + 1 # 0 /\ (k + 1) - 1 = k
  BY <1>1
<1>8. new[k + 1].prev # new[k].current
  <2>1. rows[k + 1].prev = rows[k].current
    BY <1>1, <1>7 DEF ChainSound, Consistent
  <2> QED
    BY <1>1, <1>2, <1>6, <1>7, <2>1
<1> HIDE DEF new
<1>9. ~Consistent(Genesis(s), new, k + 1)
  BY <1>7, <1>8 DEF Consistent
<1>10. ASSUME NEW j \in 0 .. k PROVE Consistent(Genesis(s), new, j)
  <2>1. /\ j \in DOMAIN rows /\ j - 1 # k /\ (j > 0 => j - 1 \in DOMAIN rows)
        /\ (j = 0 \/ j > 0)
    BY <1>1
  <2>2. Consistent(Genesis(s), rows, j)
    BY <2>1 DEF ChainSound
  <2>3. CASE j = k
    BY <1>2, <1>3, <2>1, <2>2, <2>3 DEF Consistent
  <2>4. CASE j # k
    BY <1>2, <2>1, <2>2, <2>4 DEF Consistent
  <2> QED
    BY <2>3, <2>4
<1>11. \A i \in DOMAIN new : new[i].digest # Malformed
  <2>1. \A i \in DOMAIN rows : rows[i].digest # Malformed
    BY DigestsAssumption DEF ChainSound
  <2>2. d # Malformed
    BY DigestsAssumption
  <2>3. \A i \in DOMAIN rows \ {k} : new[i].digest # Malformed
    BY <1>2, <2>1
  <2>4. new[k].digest # Malformed
    BY <1>2, <1>3, <2>2, Zenon
  <2> QED
    BY <1>2, <2>3, <2>4
<1>12. k + 1 \in Nat /\ (k + 1) - 1 = k /\ k + 1 < Count(new) /\ IsFiniteSet(DOMAIN new)
  BY <1>1, <1>2
<1>13. \A j \in 0 .. (k + 1) - 1 : Consistent(Genesis(s), new, j)
  BY <1>10, <1>12
<1>14. VerifyChain(s, Genesis(s), new) = Audit(k + 1)
  BY <1>9, <1>11, <1>12, <1>13, FirstFailure
<1> QED
  BY <1>14 DEF new

\* Removing a block of a sound chain, the last one excepted, is reported at
\* the position it left.
LEMMA RemovalFound ==
  ASSUME TypeOK, NEW s \in Sessions, ChainSound(s),
         NEW k \in DOMAIN blocks[s], k < Count(blocks[s]) - 1,
         NEW new, new = [i \in DOMAIN blocks[s] \ {k} |-> blocks[s][i]]
  PROVE  VerifyChain(s, Genesis(s), new) = Audit(k)
<1> DEFINE rows == blocks[s]
<1>1. /\ Count(rows) \in Nat /\ DOMAIN rows = 0 .. Count(rows) - 1 /\ IsFiniteSet(DOMAIN rows)
      /\ k \in Nat /\ k + 1 < Count(rows)
  BY CountType DEF TypeOK, ChainSound
<1>2. /\ DOMAIN new = DOMAIN rows \ {k} /\ IsFiniteSet(DOMAIN new)
      /\ \A i \in DOMAIN new : new[i] = rows[i]
  BY <1>1, FS_RemoveElement
<1>3. Count(new) = Count(rows) - 1
  BY <1>1, <1>2, FS_RemoveElement DEF Count
<1>4. ~Consistent(Genesis(s), new, k)
  BY <1>2 DEF Consistent
<1>5. ASSUME NEW j \in 0 .. k - 1 PROVE Consistent(Genesis(s), new, j)
  <2>1. /\ j \in DOMAIN new /\ (j > 0 => j - 1 \in DOMAIN new)
        /\ (j = 0 \/ j > 0)
    BY <1>1, <1>2
  <2>2. Consistent(Genesis(s), rows, j)
    BY <1>2, <2>1 DEF ChainSound
  <2> QED
    BY <1>2, <2>1, <2>2 DEF Consistent
<1>6. \A i \in DOMAIN new : new[i].digest # Malformed
  BY <1>2, DigestsAssumption DEF ChainSound
<1>7. k < Count(new)
  BY <1>1, <1>3
<1> QED
  BY <1>1, <1>2, <1>4, <1>5, <1>6, <1>7, FirstFailure

\* The first edit of a session is reported where the audit claims to see it.
LEMMA FirstEditReported ==
  ASSUME TypeOK, NEW s \in Sessions, ChainSound(s), RowsSealed(s),
         sessions[s].genesis = Genesis(s), NEW e \in EditRecords, EditedAs(s, e)
  PROVE  sessions'[s] # NoSession /\ ReportedAs(s, e)'
<1>1. CASE e.kind = "genesis"
  <2>1. /\ blocks'[s] = blocks[s]
        /\ sessions'[s] = [sessions[s] EXCEPT !.genesis = <<"forged", s>>]
    BY <1>1 DEF EditedAs
  <2>2. sessions[s] \in [genesis : Genesises, created_at : Nat]
    BY DEF TypeOK
  <2>3. sessions'[s].genesis = <<"forged", s>>
    BY <2>1, <2>2
  <2>4. <<"forged", s>> # <<>> /\ <<"forged", s>> # Genesis(s)
    BY DEF Genesis
  <2>5. Verdict(s)' = Audit(0)
    BY <2>3, <2>4 DEF Verdict, VerifyChain, FailClosedAudit
  <2>6. sessions'[s] # NoSession
    <3>1. NoSession.genesis = <<>>
      BY DEF NoSession
    <3> QED
      BY <2>3, <2>4, <3>1, Zenon
  <2> QED
    BY <1>1, <2>5, <2>6 DEF ReportedAs
<1>2. CASE e.kind # "genesis"
  <2>1. /\ sessions'[s] = sessions[s] /\ sessions[s] # NoSession /\ e.seq \in DOMAIN blocks[s]
        /\ e.last = Count(blocks[s]) - 1
    BY <1>2 DEF EditedAs
  <2>2. Verdict(s)' = VerifyChain(s, Genesis(s), blocks'[s])
    BY <2>1 DEF Verdict
  <2>3. CASE e.kind = "remove"
    <3>1. blocks'[s] = [i \in DOMAIN blocks[s] \ {e.seq} |-> blocks[s][i]]
      BY <2>3 DEF EditedAs
    <3>2. e.seq < Count(blocks[s]) - 1 => VerifyChain(s, Genesis(s), blocks'[s]) = Audit(e.seq)
      BY <2>1, <3>1, RemovalFound
    <3> QED
      BY <2>1, <2>2, <2>3, <3>2 DEF ReportedAs
  <2>4. CASE e.kind # "remove"
    <3>1. PICK digest \in Digests :
             LET row == EditedRow(blocks[s][e.seq], e.kind, digest) IN
             row # blocks[s][e.seq] /\ blocks'[s] = Insert(blocks[s], e.seq, row)
      BY <1>2, <2>4 DEF EditedAs
    <3>2. PICK row : /\ row = EditedRow(blocks[s][e.seq], e.kind, digest)
                     /\ row # blocks[s][e.seq] /\ blocks'[s] = Insert(blocks[s], e.seq, row)
      BY <3>1
    <3>3. e.kind \in {"alter", "reseal", "malform"}
      BY <1>2, <2>4 DEF EditedAs
    <3>4. CASE e.kind = "alter"
      <4>1. row = [blocks[s][e.seq] EXCEPT !.digest = digest]
        BY <3>2, <3>4 DEF EditedRow
      <4>2. VerifyChain(s, Genesis(s), blocks'[s]) = Audit(e.seq)
        BY <2>1, <3>2, <4>1, AlterationFound
      <4> QED
        BY <2>1, <2>2, <3>4, <4>2 DEF ReportedAs
    <3>5. CASE e.kind = "reseal"
      <4>1. row = SealBlock(blocks[s][e.seq].prev, digest, blocks[s][e.seq].time)
        BY <3>2, <3>5 DEF EditedRow
      <4>2. e.seq < Count(blocks[s]) - 1
               => VerifyChain(s, Genesis(s), blocks'[s]) = Audit(e.seq + 1)
        BY <2>1, <3>2, <4>1, ResealFound
      <4> QED
        BY <2>1, <2>2, <3>5, <4>2 DEF ReportedAs
    <3>6. CASE e.kind = "malform"
      <4>1. row.digest = Malformed
        BY <2>1, <3>2, <3>6 DEF EditedRow, TypeOK, IsRow
      <4>2. e.seq \in DOMAIN blocks'[s] /\ blocks'[s][e.seq] = row
        BY <3>2 DEF Insert
      <4>3. VerifyChain(s, Genesis(s), blocks'[s]) = Audit(0)
        BY <4>1, <4>2 DEF VerifyChain, FailClosedAudit
      <4> QED
        BY <2>1, <2>2, <3>6, <4>3 DEF ReportedAs
    <3> QED
      BY <3>3, <3>4, <3>5, <3>6
  <2> QED
    BY <2>3, <2>4
<1> QED
  BY <1>1, <1>2

\* Later appends leave the report of the one edit where it was.
LEMMA ReportKept ==
  ASSUME TypeOK, NEW s \in Sessions, sessions[s] # NoSession,
         NEW e \in EditRecords, ReportedAs(s, e),
         SealedOnto(s) \/ UNCHANGED <<sessions[s], blocks[s]>>
  PROVE  sessions'[s] # NoSession /\ ReportedAs(s, e)'
<1>1. \A b \in Nat : Audit(b).is_tampered
  <2>1. \A b \in Nat : b # NoSeq
    BY DEF NoSeq
  <2> QED
    BY <2>1 DEF Audit
<1>2. 0 \in Nat /\ e.seq \in Nat /\ e.seq + 1 \in Nat
  BY DEF EditRecords
<1>3. \A b \in Nat : Verdict(s) = Audit(b) => Verdict(s)' = Audit(b)
  BY <1>1, VerdictStable
<1>4. sessions'[s] # NoSession
  BY DEF SealedOnto, SessionRow, NoSession
<1> QED
  BY <1>2, <1>3, <1>4 DEF ReportedAs

\* One step of the program or of the editor keeps the reports.
LEMMA SingleEditStep ==
  TypeOK /\ LedgerInv /\ PredecessorsEndorsed /\ SingleEditInv /\ [Next]_vars => SingleEditInv'
<1> SUFFICES ASSUME TypeOK, LedgerInv, PredecessorsEndorsed, SingleEditInv, [Next]_vars,
                    NEW s \in Sessions
             PROVE  /\ edits'[s] = <<>> => RowsSealed(s)'
                    /\ Len(edits'[s]) = 1 => sessions'[s] # NoSession /\ Reported(s)'
  BY DEF SingleEditInv, Edited
<1>1. /\ edits[s] = <<>> => RowsSealed(s)
      /\ Len(edits[s]) = 1 => sessions[s] # NoSession /\ Reported(s)
      /\ edits[s] \in Seq(EditRecords)
  BY DEF SingleEditInv, Edited, TypeOK
<1>2. CASE UNCHANGED edits[s] /\ (SealedOnto(s) \/ UNCHANGED <<sessions[s], blocks[s]>>)
  <2>1. ASSUME edits'[s] = <<>> PROVE RowsSealed(s)'
    <3>1. RowsSealed(s)
      BY <1>1, <1>2, <2>1
    <3>2. CASE SealedOnto(s)
      <4>1. PICK prev, time, digest :
               blocks'[s] = Insert(blocks[s], Count(blocks[s]), SealBlock(prev, digest, time))
        BY <3>2 DEF SealedOnto
      <4> DEFINE b == SealBlock(prev, digest, time)
      <4>2. b = SealBlock(b.prev, b.digest, b.time)
        BY DEF SealBlock
      <4>3. \A k \in DOMAIN blocks'[s] :
               \/ blocks'[s][k] = b
               \/ k \in DOMAIN blocks[s] /\ blocks'[s][k] = blocks[s][k]
        BY <4>1 DEF Insert
      <4> HIDE DEF b
      <4> QED
        BY <3>1, <4>2, <4>3 DEF RowsSealed
    <3> QED
      BY <1>2, <3>1, <3>2 DEF RowsSealed
  <2>2. ASSUME Len(edits'[s]) = 1
        PROVE  sessions'[s] # NoSession /\ Reported(s)'
    <3>1. PICK e \in EditRecords : e = edits[s][1]
      BY <1>1, <1>2, <2>2
    <3>2. sessions[s] # NoSession /\ ReportedAs(s, e)
      BY <1>1, <1>2, <2>2, <3>1 DEF Reported
    <3>3. sessions'[s] # NoSession /\ ReportedAs(s, e)'
      BY <1>2, <3>2, ReportKept
    <3> QED
      BY <1>2, <3>1, <3>3 DEF Reported, ReportedAs
  <2> QED
    BY <2>1, <2>2
<1>3. ASSUME NEW e \in EditRecords, EditedAs(s, e)
      PROVE  /\ edits'[s] # <<>>
             /\ Len(edits'[s]) = 1 => sessions'[s] # NoSession /\ Reported(s)'
  <2>1. edits'[s] # <<>> /\ (Len(edits'[s]) = 1 => edits[s] = <<>> /\ edits'[s][1] = e)
    BY <1>3, EditGrowsLog
  <2>2. ASSUME edits[s] = <<>>
        PROVE  sessions'[s] # NoSession /\ ReportedAs(s, e)'
    <3>1. sessions[s] # NoSession
      BY <1>3 DEF EditedAs
    <3>2. ChainSound(s) /\ sessions[s].genesis = Genesis(s) /\ RowsSealed(s)
      BY <1>1, <2>2, <3>1 DEF LedgerInv, UneditedChainSound, Edited
    <3> QED
      BY <1>3, <3>2, FirstEditReported
  <2> QED
    BY <2>1, <2>2 DEF Reported, ReportedAs
<1> QED
  BY <1>2, <1>3, SessionStep DEF PredecessorsEndorsed, SealedOnto

\* One offline edit is reported at its own position, or at the next one when
\* the block was re-sealed, however many blocks are appended afterwards.
THEOREM SingleEditsAreDetected == Spec => []DetectsSingleEdit
<1>1. Init => SingleEditInv
  <2>1. Len(<<>>) # 1
    OBVIOUS
  <2> QED
    BY <2>1 DEF Init, SingleEditInv, RowsSealed, NoRows
<1>2. SingleEditInv => DetectsSingleEdit
  <2>1. \A b : Audit(b).broken = b
    BY DEF Audit
  <2> QED
    BY <2>1 DEF SingleEditInv, Reported, ReportedAs, DetectsSingleEdit
<1> QED
  BY <1>1, <1>2, SingleEditStep, PredecessorsHold, TypeCorrect, TypeInit, TypeStep,
     LedgerInit, LedgerStep, PTL DEF Spec

-----------------------------------------------------------------------------
(* TraceKit implements the append-only ledger *)

\* The refinement mapping of ImplementsLedger.
LogOf == [s \in Sessions |-> [k \in DOMAIN blocks[s] |-> Entry(blocks[s][k])]]
Frozen == {s \in Sessions : Latched(s)}
Corrupted == {s \in Sessions : Edited(s)}

\* The abstract entries of a session are its blocks.
LEMMA LogOfSession ==
  ASSUME NEW s \in Sessions
  PROVE  /\ LogOf[s] = [k \in DOMAIN blocks[s] |-> Entry(blocks[s][k])]
         /\ LogOf'[s] = [k \in DOMAIN blocks'[s] |-> Entry(blocks'[s][k])]
         /\ DOMAIN LogOf[s] = DOMAIN blocks[s] /\ DOMAIN LogOf'[s] = DOMAIN blocks'[s]
         /\ \A k \in DOMAIN blocks[s] : LogOf[s][k] = Entry(blocks[s][k])
         /\ \A k \in DOMAIN blocks'[s] : LogOf'[s][k] = Entry(blocks'[s][k])
         /\ blocks'[s] = blocks[s] => LogOf'[s] = LogOf[s]
BY DEF LogOf

\* A sealed block is one more entry of the abstract ledger, at its end and in
\* the order of the stamps unless the file was edited.
LEMMA AppendAdds ==
  ASSUME TypeOK, TypeOK', LedgerInv, LedgerInv', NEW p \in Procs, AppendTxn(p),
         NEW s \in Sessions, ~Latched(s), Count(blocks[s]) \notin DOMAIN blocks[s],
         NEW b, blocks' = [blocks EXCEPT ![s] = Insert(blocks[s], Count(blocks[s]), b)]
  PROVE  Ledger!Add(s)
<1> DEFINE n == Count(blocks[s])
<1>1. UNCHANGED <<events, edits>>
  BY AppendCommits
<1>2. /\ blocks'[s] = Insert(blocks[s], n, b)
      /\ \A t \in Sessions \ {s} : blocks'[t] = blocks[t]
  BY DEF TypeOK
<1>3. /\ DOMAIN blocks'[s] = DOMAIN blocks[s] \cup {n}
      /\ \A k \in DOMAIN blocks[s] : k \in DOMAIN blocks'[s] /\ blocks'[s][k] = blocks[s][k]
      /\ n \in DOMAIN blocks'[s] \ DOMAIN blocks[s]
  BY <1>2 DEF Insert
<1>4. s \notin Frozen
  BY DEF Frozen
<1>5. \A t \in Sessions \ {s} : LogOf'[t] = LogOf[t]
  BY <1>2, LogOfSession
<1>6. \A k \in DOMAIN LogOf[s] : k \in DOMAIN LogOf'[s] /\ LogOf'[s][k] = LogOf[s][k]
  <2>1. ASSUME NEW k \in DOMAIN LogOf[s]
        PROVE  k \in DOMAIN LogOf'[s] /\ LogOf'[s][k] = LogOf[s][k]
    <3>1. k \in DOMAIN blocks[s] /\ LogOf[s][k] = Entry(blocks[s][k])
      BY LogOfSession
    <3>2. k \in DOMAIN blocks'[s] /\ blocks'[s][k] = blocks[s][k]
      BY <1>3, <3>1
    <3>3. k \in DOMAIN LogOf'[s] /\ LogOf'[s][k] = Entry(blocks'[s][k])
      BY <3>2, LogOfSession
    <3> QED
      BY <3>1, <3>2, <3>3
  <2> QED
    BY <2>1
<1>7. Cardinality(DOMAIN LogOf[s]) = n
  BY LogOfSession DEF Count
<1>8. /\ n \in DOMAIN LogOf'[s] \ DOMAIN LogOf[s]
      /\ DOMAIN LogOf'[s] = DOMAIN LogOf[s] \cup {n}
  BY <1>3, LogOfSession
<1>9. ASSUME s \notin Corrupted, n > 0
      PROVE  LogOf'[s][n].time >= LogOf'[s][n - 1].time
  <2>1. ~Edited(s) /\ ~Edited(s)'
    BY <1>1, <1>9 DEF Corrupted, Edited
  <2>2. ChainSound(s)'
    BY <2>1 DEF LedgerInv, UneditedChainSound
  <2>3. Consistent(Genesis(s), blocks'[s], n)
    BY <1>3, <2>2 DEF ChainSound
  <2>4. n - 1 \in DOMAIN blocks'[s] /\ blocks'[s][n].time >= blocks'[s][n - 1].time
    BY <1>9, <2>3 DEF Consistent
  <2>5. /\ LogOf'[s][n] = Entry(blocks'[s][n])
        /\ LogOf'[s][n - 1] = Entry(blocks'[s][n - 1])
    BY <1>3, <2>4, LogOfSession
  <2> QED
    BY <2>4, <2>5 DEF Entry
<1>10. UNCHANGED <<Frozen, Corrupted>>
  BY <1>1 DEF Frozen, Corrupted, Latched, Edited
<1> HIDE DEF n
<1>11. Ledger!Only(s)
  BY <1>5 DEF Ledger!Only, LogOf
<1>12. Ledger!Kept(s)
  BY <1>6 DEF Ledger!Kept, LogOf
<1>13. \E i \in DOMAIN LogOf'[s] \ DOMAIN LogOf[s] :
          /\ DOMAIN LogOf'[s] = DOMAIN LogOf[s] \cup {i}
          /\ s \notin Corrupted =>
                i = n /\ (n > 0 => LogOf'[s][n].time >= LogOf'[s][n - 1].time)
  BY <1>8, <1>9
<1> DEFINE AtTheEnd(m) ==
       \E i \in DOMAIN LogOf'[s] \ DOMAIN LogOf[s] :
          /\ DOMAIN LogOf'[s] = DOMAIN LogOf[s] \cup {i}
          /\ s \notin Corrupted =>
                i = m /\ (m > 0 => LogOf'[s][m].time >= LogOf'[s][m - 1].time)
<1>14. AtTheEnd(Cardinality(DOMAIN LogOf[s]))
  BY <1>7, <1>13, Zenon
<1>15. /\ s \notin Frozen /\ Ledger!Only(s) /\ Ledger!Kept(s)
       /\ AtTheEnd(Cardinality(DOMAIN LogOf[s]))
       /\ UNCHANGED <<Frozen, Corrupted>>
       => Ledger!Add(s)
  <2>1. \A S : Ledger!Cardinality(S) = Cardinality(S)
    BY Zenon DEF Ledger!Cardinality, Cardinality
  <2> QED
    BY <2>1 DEF Ledger!Add, LogOf, Frozen, Corrupted
<1> HIDE DEF AtTheEnd
<1> QED
  BY <1>4, <1>10, <1>11, <1>12, <1>14, <1>15

\* A verdict freezes a ledger only when it was corrupted.
LEMMA VerdictFreezes ==
  ASSUME TypeOK, TypeOK', LedgerInv, LedgerInv', NEW p \in Procs, PersistVerdict(p)
  PROVE  (\E s \in Sessions : Ledger!Freeze(s)) \/ UNCHANGED <<LogOf, Frozen, Corrupted>>
<1>1. UNCHANGED <<blocks, edits>>
  BY DEF PersistVerdict
<1>2. UNCHANGED <<LogOf, Corrupted>>
  BY <1>1 DEF LogOf, Corrupted, Edited
<1>3. CASE UNCHANGED events
  BY <1>2, <1>3 DEF Frozen, Latched
<1>4. CASE ~UNCHANGED events
  <2>0. call[p].session \in Sessions
    BY AuditingCalls DEF PersistVerdict
  <2>1. PICK s \in Sessions : s = call[p].session
    BY <2>0
  <2>2. events' = [events EXCEPT ![s] = Append(events[s], call[p].audit)]
    BY <1>4, <2>1 DEF PersistVerdict
  <2>3. \A t \in Sessions \ {s} : events'[t] = events[t]
    BY <2>2 DEF TypeOK
  <2>4. \A t \in Sessions \ {s} : Latched(t)' <=> Latched(t)
    BY <2>3 DEF Latched
  <2>5. Latched(s) => Latched(s)'
    BY LatchStep DEF KeepsLatch, Next, Program, Advance
  <2>6. CASE Latched(s)' <=> Latched(s)
    BY <1>2, <2>4, <2>6 DEF Frozen
  <2>7. CASE Latched(s)' /\ ~Latched(s)
    <3>1. Frozen' = Frozen \cup {s}
      BY <2>4, <2>7 DEF Frozen
    <3>2. Edited(s)'
      BY <2>7 DEF LedgerInv, NoFalseAlarm
    <3>3. s \in Corrupted
      BY <1>1, <3>2 DEF Corrupted, Edited
    <3> QED
      BY <1>2, <3>1, <3>3 DEF Ledger!Freeze, LogOf, Frozen, Corrupted
  <2> QED
    BY <2>5, <2>6, <2>7
<1> QED
  BY <1>3, <1>4

\* An offline edit corrupts the ledger of one session.
LEMMA EditCorrupts ==
  ASSUME TypeOK, PredecessorsEndorsed, NEW s \in Sessions, OfflineEdit(s)
  PROVE  Ledger!Corrupt(s)
<1>1. PICK e \in EditRecords : EditedAs(s, e)
  BY OfflineEditRecords DEF PredecessorsEndorsed
<1>2. \A t \in Sessions \ {s} : blocks'[t] = blocks[t] /\ edits'[t] = edits[t]
  BY OfflineEditRecords DEF PredecessorsEndorsed
<1>3. edits'[s] # <<>>
  BY <1>1, EditGrowsLog
<1>4. Corrupted' = Corrupted \cup {s}
  BY <1>2, <1>3 DEF Corrupted, Edited
<1>5. \A t \in Sessions \ {s} : LogOf'[t] = LogOf[t]
  BY <1>2, LogOfSession
<1>6. UNCHANGED Frozen
  BY DEF OfflineEdit, Frozen, Latched
<1> QED
  BY <1>4, <1>5, <1>6 DEF Ledger!Corrupt, Ledger!Only, LogOf, Frozen, Corrupted

\* Every step of the store, the audits and the editor is a step of the
\* append-only ledger, or none of its business.
THEOREM ImplementsAppendOnlyLedger == Spec => ImplementsLedger
<1> DEFINE Inv == TypeOK /\ LedgerInv /\ PredecessorsEndorsed
<1>1. Init => Ledger!Init
  BY DEF Init, Ledger!Init, NoRows, Latched, Edited
<1>2. Inv /\ Inv' /\ [Next]_vars => [Ledger!Next]_Ledger!vars
  <2> SUFFICES ASSUME TypeOK, TypeOK', LedgerInv, LedgerInv', PredecessorsEndorsed, [Next]_vars
               PROVE  Ledger!Next \/ UNCHANGED <<LogOf, Frozen, Corrupted>>
    BY DEF Ledger!vars, LogOf, Frozen, Corrupted
  <2>1. CASE UNCHANGED <<blocks, events, edits>>
    BY <2>1 DEF LogOf, Frozen, Corrupted, Latched, Edited
  <2>2. ASSUME NEW p \in Procs, AppendTxn(p)
        PROVE  Ledger!Next \/ UNCHANGED <<LogOf, Frozen, Corrupted>>
    <3>1. CASE UNCHANGED blocks
      BY <2>1, <2>2, <3>1, AppendCommits
    <3>2. CASE ~UNCHANGED blocks
      <4>1. PICK s \in Sessions : \E b :
               /\ ~Latched(s) /\ Count(blocks[s]) \notin DOMAIN blocks[s]
               /\ blocks' = [blocks EXCEPT ![s] = Insert(blocks[s], Count(blocks[s]), b)]
        BY <2>2, <3>2, AppendWrites
      <4>2. Ledger!Add(s)
        BY <2>2, <4>1, AppendAdds
      <4> QED
        BY <4>2 DEF Ledger!Next
    <3> QED
      BY <3>1, <3>2
  <2>3. ASSUME NEW p \in Procs, PersistVerdict(p)
        PROVE  Ledger!Next \/ UNCHANGED <<LogOf, Frozen, Corrupted>>
    BY <2>3, VerdictFreezes DEF Ledger!Next
  <2>4. ASSUME NEW s \in Sessions, OfflineEdit(s)
        PROVE  Ledger!Next
    BY <2>4, EditCorrupts DEF Ledger!Next
  <2>5. ASSUME NEW p \in Procs, ReadLatch(p) \/ WalBusy(p) \/ Crash(p) \/ Call(p)
        PROVE  UNCHANGED <<blocks, events, edits>>
    BY <2>5 DEF ReadLatch, WalBusy, Crash, Call, RecordStep, CaptureRejected, LoadChain, tables
  <2>6. ASSUME Tick \/ UNCHANGED vars
        PROVE  UNCHANGED <<blocks, events, edits>>
    BY <2>6 DEF Tick, tables, vars
  <2> QED
    BY <2>1, <2>2, <2>3, <2>4, <2>5, <2>6 DEF Next, Program, Advance
<1>3. Spec => []Inv
  BY PredecessorsHold, TypeInit, TypeStep, LedgerInit, LedgerStep, PTL DEF Spec
<1> HIDE DEF Inv
<1>4. Spec => Ledger!Spec
  BY <1>1, <1>2, <1>3, PTL DEF Spec, Ledger!Spec
<1> QED
  BY <1>4 DEF ImplementsLedger

=============================================================================
