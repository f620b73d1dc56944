-------------------------- MODULE TokenCast_proofs --------------------------
(***************************************************************************)
(* Theorems about TokenCast for every number of threads, sessions, turns   *)
(* and events, and every pair of budgets.                                  *)
(***************************************************************************)
EXTENDS TokenCast, Induction

-----------------------------------------------------------------------------
(* Operators *)

\* The breaker's decision is one of the three kinds.
LEMMA DecideType ==
  ASSUME NEW b, NEW history, NEW horizon
  PROVE  Decide(b, history, horizon) \in DecisionKinds
BY DEF Decide, DecisionKinds

\* The absent budget is none of the budgets.
LEMMA NoBudgetDiffers == NoBudget \notin Budgets
BY BudgetsAssumption DEF NoBudget, Budgets

\* Becoming a typed call keeps the calls typed.
LEMMA BecomeType ==
  ASSUME NEW p \in Procs, call \in [Procs -> Calls], NEW c \in Calls, Become(p, c)
  PROVE  call' \in [Procs -> Calls]
BY DEF Become

\* A resolution that found its decision goes on to a typed call.
LEMMA ResolvedType ==
  ASSUME NEW p \in Procs, call \in [Procs -> Calls], NEW c \in Resolutions, Resolved(p, c)
  PROVE  call' \in [Procs -> Calls]
<1>1. CASE Bundle(c.decision) = "full"
  <2>1. [c EXCEPT !.pc = "answer", !.budget = NoBudget] \in Calls
    BY DEF Resolutions, Calls
  <2> QED
    BY <1>1, <2>1, BecomeType DEF Resolved
<1>2. CASE Bundle(c.decision) # "full"
  <2>1. c.decision \in DecisionKinds \ {"CONTINUE"}
    BY <1>2 DEF Bundle, Resolutions, DecisionKinds
  <2>2. [c EXCEPT !.pc = "enforce_budget", !.budget = NoBudget] \in Calls
    BY <2>1 DEF Resolutions, Enforcements, Calls
  <2> QED
    BY <1>2, <2>2, BecomeType DEF Resolved
<1> QED
  BY <1>1, <1>2

\* A typed enforcement stays typed when a thread moves it on.
LEMMA EnforcementType ==
  ASSUME NEW p \in Procs, call \in [Procs -> Calls], call[p] \in Enforcements,
         NEW pc \in {"enforce_create", "enforce_latest", "enforce_record", "answer"},
         Goto(p, pc)
  PROVE  call' \in [Procs -> Calls]
<1>1. [call[p] EXCEPT !.pc = pc] \in Calls
  BY DEF Resolutions, Enforcements, Calls
<1> QED
  BY <1>1 DEF Goto

\* So does a typed charge.
LEMMA ChargeType ==
  ASSUME NEW p \in Procs, call \in [Procs -> Calls], call[p] \in Charges,
         NEW pc \in {"charge_budget", "charge_create", "charge_turns", "charge_insert"},
         Goto(p, pc)
  PROVE  call' \in [Procs -> Calls]
<1>1. [call[p] EXCEPT !.pc = pc] \in Calls
  BY DEF Charges, Calls
<1> QED
  BY <1>1 DEF Goto

\* Where a call is tells which kind of call it is.
LEMMA KindOfCall ==
  ASSUME NEW p \in Procs, call \in [Procs -> Calls]
  PROVE  /\ call[p].pc \in {"read_budget", "read_turns", "read_events", "answer"}
              => call[p] \in Resolutions /\ call[p].session \in Sessions
         /\ call[p].pc \in {"enforce_budget", "enforce_create", "enforce_latest", "enforce_record"}
              => call[p] \in Enforcements /\ call[p].session \in Sessions
         /\ call[p].pc \in {"charge_budget", "charge_create", "charge_turns", "charge_insert"}
              => call[p] \in Charges /\ call[p].session \in Sessions
<1>1. call[p] \in Calls
  OBVIOUS
<1> QED
  BY <1>1 DEF Calls, Idle, Resolutions, Enforcements, Charges

\* New calls are typed.
LEMMA NewCallType ==
  /\ Idle \in Calls
  /\ \A s \in Sessions : Charge(s) \in Calls
  /\ \A s \in Sessions, supplied \in DecisionKinds \cup {"none"} :
        Resolution(s, supplied) \in Resolutions
<1>1. \A s, supplied : Begun(s, supplied) \in Begins
  BY DEF Begun, Begins
<1> QED
  BY <1>1 DEF Calls, Charge, Charges, Resolution, Resolutions

-----------------------------------------------------------------------------
(* Who writes to the ledger *)

\* The statements that change a table.
InsertBudget(s, b) ==
    /\ budgets[s] = NoBudget
    /\ budgets' = [budgets EXCEPT ![s] = b]
    /\ UNCHANGED <<turns, events>>

InsertTelemetry(s, turn, tokens) ==
    /\ ~TurnRefused(s, turn)
    /\ InsertTurn(s, turn, tokens)
    /\ UNCHANGED <<budgets, events>>

InsertEvent(s, decision) ==
    /\ ~EventRefused(s, decision)
    /\ events' = [events EXCEPT ![s] = Append(@, decision)]
    /\ UNCHANGED <<budgets, turns>>

LedgerStep ==
    \/ UNCHANGED ledger
    \/ \E s \in Sessions, b \in Budgets : InsertBudget(s, b)
    \/ \E s \in Sessions, turn \in Nat, tokens \in TurnTokens : InsertTelemetry(s, turn, tokens)
    \/ \E s \in Sessions, decision \in DecisionKinds : InsertEvent(s, decision)

\* Whatever a thread does, it makes at most one of those statements.
LEMMA WhoWrites == TypeOK /\ [Next]_vars => LedgerStep
<1> SUFFICES ASSUME TypeOK, [Next]_vars, ~UNCHANGED ledger PROVE LedgerStep
  BY DEF LedgerStep
<1>1. ASSUME NEW p \in Procs, NEW s \in Sessions, NEW b \in Budgets, CreateBudget(p, s, b)
      PROVE  LedgerStep
  BY <1>1 DEF CreateBudget, LedgerStep, InsertBudget
<1>2. ASSUME NEW p \in Procs, NEW s \in Sessions, NEW turn \in 0 .. EngineBudget.max_turns,
             NEW tokens \in TurnTokens, RecordTurn(p, s, turn, tokens)
      PROVE  LedgerStep
  <2>1. turn \in Nat /\ InsertTelemetry(s, turn, tokens)
    BY <1>2 DEF RecordTurn, InsertTelemetry
  <2> QED
    BY <2>1 DEF LedgerStep
<1>3. ASSUME NEW p \in Procs, NEW s \in Sessions, NEW decision \in DecisionKinds,
             BuildWithBudget(p, s, decision)
      PROVE  LedgerStep
  <2>1. InsertEvent(s, decision)
    BY <1>3 DEF BuildWithBudget, InsertEvent, ledger
  <2> QED
    BY <2>1 DEF LedgerStep
<1>4. ASSUME NEW p \in Procs, EnforceCreate(p)
      PROVE  LedgerStep
  <2>1. call[p].session \in Sessions
    BY <1>4, KindOfCall DEF EnforceCreate, At, TypeOK
  <2>2. InsertBudget(call[p].session, EngineBudget)
    BY <1>4 DEF EnforceCreate, InsertBudget, ledger
  <2> QED
    BY <2>1, <2>2 DEF LedgerStep, Budgets
<1>5. ASSUME NEW p \in Procs, EnforceRecord(p)
      PROVE  LedgerStep
  <2>1. call[p] \in Enforcements /\ call[p].session \in Sessions
    BY <1>5, KindOfCall DEF EnforceRecord, At, TypeOK
  <2>2. call[p].decision \in DecisionKinds
    BY <2>1 DEF Enforcements
  <2>3. InsertEvent(call[p].session, call[p].decision)
    BY <1>5 DEF EnforceRecord, InsertEvent, ledger
  <2> QED
    BY <2>1, <2>2, <2>3 DEF LedgerStep
<1>6. ASSUME NEW p \in Procs, ChargeCreate(p)
      PROVE  LedgerStep
  <2>1. call[p].session \in Sessions
    BY <1>6, KindOfCall DEF ChargeCreate, At, TypeOK
  <2>2. InsertBudget(call[p].session, ShadowBudget)
    BY <1>6 DEF ChargeCreate, InsertBudget, ledger
  <2> QED
    BY <2>1, <2>2 DEF LedgerStep, Budgets
<1>7. ASSUME NEW p \in Procs, ChargeInsert(p)
      PROVE  LedgerStep
  <2>1. call[p] \in Charges /\ call[p].session \in Sessions
    BY <1>7, KindOfCall DEF ChargeInsert, At, TypeOK
  <2>2. PICK tokens \in ChargedTokens : InsertTelemetry(call[p].session, call[p].turn, tokens)
    BY <1>7 DEF ChargeInsert, InsertTelemetry, ledger
  <2>3. tokens \in TurnTokens /\ call[p].turn \in Nat
    BY <2>1 DEF ChargedTokens, Charges
  <2> QED
    BY <2>1, <2>2, <2>3 DEF LedgerStep
<1> QED
  BY <1>1, <1>2, <1>3, <1>4, <1>5, <1>6, <1>7
     DEF Next, Begin, Advance, BuildContext, CallTool, ReadBudget, ReadTurns, ReadEvents,
         EnforceBudget, EnforceLatest, Answer, ChargeBudget, ChargeTurns, Locked, Crash, vars, ledger

-----------------------------------------------------------------------------
(* Type correctness *)

\* The initial ledger and calls are well typed.
LEMMA TypeInit == Init => TypeOK
<1> SUFFICES ASSUME Init PROVE TypeOK
  OBVIOUS
<1>1. \A s \in Sessions : DOMAIN turns[s] = {}
  BY DEF Init, NoTurns
<1> QED
  BY <1>1, NewCallType DEF Init, TypeOK

\* The statements keep the tables typed.
LEMMA TablesType ==
  ASSUME TypeOK, LedgerStep
  PROVE  /\ budgets' \in [Sessions -> Budgets \cup {NoBudget}]
         /\ DOMAIN turns' = Sessions
         /\ \A s \in Sessions : \A i \in DOMAIN turns'[s] : i \in Nat /\ turns'[s][i] \in TurnTokens
         /\ events' \in [Sessions -> Seq(DecisionKinds)]
<1>1. CASE UNCHANGED ledger
  BY <1>1 DEF ledger, TypeOK
<1>2. ASSUME NEW s \in Sessions, NEW b \in Budgets, InsertBudget(s, b)
      PROVE  budgets' \in [Sessions -> Budgets \cup {NoBudget}] /\ UNCHANGED <<turns, events>>
  BY <1>2 DEF InsertBudget, TypeOK
<1>3. ASSUME NEW s \in Sessions, NEW turn \in Nat, NEW tokens \in TurnTokens,
             InsertTelemetry(s, turn, tokens)
      PROVE  /\ UNCHANGED <<budgets, events>>
             /\ DOMAIN turns' = Sessions
             /\ \A t \in Sessions : \A i \in DOMAIN turns'[t] :
                   i \in Nat /\ turns'[t][i] \in TurnTokens
  BY <1>3 DEF InsertTelemetry, InsertTurn, TypeOK
<1>4. ASSUME NEW s \in Sessions, NEW decision \in DecisionKinds, InsertEvent(s, decision)
      PROVE  events' \in [Sessions -> Seq(DecisionKinds)] /\ UNCHANGED <<budgets, turns>>
  BY <1>4 DEF InsertEvent, TypeOK
<1> QED
  BY <1>1, <1>2, <1>3, <1>4 DEF LedgerStep, TypeOK

\* The turns of every session are 0, 1, ..., n - 1, and n is within its budget.
\* COUNT(*) is a number only because of this, so the types rest on it.
Contiguous ==
    \A s \in Sessions : \E n \in Nat :
        DOMAIN turns[s] = 0 .. n - 1 /\ n <= budgets[s].max_turns

\* COUNT(*) of contiguous turns is the next turn index.
LEMMA CountIs ==
  ASSUME NEW s \in Sessions, NEW n \in Nat, DOMAIN turns[s] = 0 .. n - 1
  PROVE  Count(s) = n
<1>1. Cardinality(0 .. n - 1) = n
  BY FS_Interval, SMT
<1> QED
  BY <1>1 DEF Count

LEMMA CountIsNext ==
  ASSUME NEW s \in Sessions, NEW n \in Nat, DOMAIN turns'[s] = 0 .. n - 1
  PROVE  Count(s)' = n
<1>1. Cardinality(0 .. n - 1) = n
  BY FS_Interval, SMT
<1> QED
  BY <1>1 DEF Count

\* The statements keep the turns contiguous: a budget is created for a session
\* without turns, and a turn is inserted only at COUNT(*) and below max_turns.
LEMMA ContiguousStep ==
  ASSUME TypeOK, Contiguous, LedgerStep
  PROVE  Contiguous'
<1>1. CASE UNCHANGED ledger
  BY <1>1 DEF ledger, Contiguous
<1>2. ASSUME NEW s \in Sessions, NEW b \in Budgets, InsertBudget(s, b)
      PROVE  Contiguous'
  <2> SUFFICES ASSUME NEW t \in Sessions
               PROVE  \E n \in Nat : DOMAIN turns'[t] = 0 .. n - 1 /\ n <= budgets'[t].max_turns
    BY DEF Contiguous
  <2>1. PICK n \in Nat : DOMAIN turns[t] = 0 .. n - 1 /\ n <= budgets[t].max_turns
    BY DEF Contiguous
  <2>2. CASE t # s
    BY <1>2, <2>1, <2>2 DEF InsertBudget, TypeOK
  <2>3. CASE t = s
    <3>1. n = 0
      BY <1>2, <2>1, <2>3 DEF InsertBudget, NoBudget
    <3>2. budgets'[t] = b /\ turns'[t] = turns[t]
      BY <1>2, <2>3 DEF InsertBudget, TypeOK
    <3>3. 0 <= b.max_turns
      BY BudgetsAssumption
    <3>4. DOMAIN turns'[t] = 0 .. n - 1 /\ n <= budgets'[t].max_turns
      BY <2>1, <3>1, <3>2, <3>3
    <3> QED
      BY <3>4
  <2> QED
    BY <2>2, <2>3
<1>3. ASSUME NEW s \in Sessions, NEW turn \in Nat, NEW tokens \in TurnTokens,
             InsertTelemetry(s, turn, tokens)
      PROVE  Contiguous'
  <2> SUFFICES ASSUME NEW t \in Sessions
               PROVE  \E n \in Nat : DOMAIN turns'[t] = 0 .. n - 1 /\ n <= budgets'[t].max_turns
    BY DEF Contiguous
  <2>1. PICK n \in Nat : DOMAIN turns[t] = 0 .. n - 1 /\ n <= budgets[t].max_turns
    BY DEF Contiguous
  <2>2. CASE t # s
    BY <1>3, <2>1, <2>2 DEF InsertTelemetry, InsertTurn, TypeOK
  <2>3. CASE t = s
    <3>1. turn = n /\ budgets[t] # NoBudget /\ ~(turn >= budgets[t].max_turns)
      BY <1>3, <2>1, <2>3, CountIs DEF InsertTelemetry, TurnRefused
    <3>2. budgets[t].max_turns \in Nat
      BY <3>1, BudgetsAssumption DEF TypeOK
    <3>3. DOMAIN turns'[t] = 0 .. (n + 1) - 1 /\ budgets'[t] = budgets[t]
      <4>1. DOMAIN turns'[t] = (0 .. n - 1) \cup {n}
        BY <1>3, <2>1, <2>3, <3>1 DEF InsertTelemetry, InsertTurn, TypeOK
      <4> QED
        BY <1>3, <4>1 DEF InsertTelemetry
    <3>4. n + 1 \in Nat /\ n + 1 <= budgets'[t].max_turns
      <4>1. n + 1 <= budgets[t].max_turns
        BY <3>1, <3>2
      <4> QED
        BY <3>3, <4>1
    <3> QED
      BY <3>3, <3>4
  <2> QED
    BY <2>2, <2>3
<1>4. ASSUME NEW s \in Sessions, NEW decision \in DecisionKinds, InsertEvent(s, decision)
      PROVE  Contiguous'
  BY <1>4 DEF InsertEvent, Contiguous
<1> QED
  BY <1>1, <1>2, <1>3, <1>4 DEF LedgerStep

\* Every step keeps the calls typed.
LEMMA CallsType ==
  ASSUME TypeOK, Contiguous, [Next]_vars
  PROVE  call' \in [Procs -> Calls]
<1>0. call \in [Procs -> Calls]
  BY DEF TypeOK
<1>1. CASE UNCHANGED call
  BY <1>0, <1>1
<1>2. ASSUME NEW p \in Procs, NEW s \in Sessions, NEW supplied \in DecisionKinds \cup {"none"},
             BuildContext(p, s, supplied)
      PROVE  call' \in [Procs -> Calls]
  <2>1. Resolution(s, supplied) \in Resolutions /\ Resolution(s, supplied) \in Calls
    BY NewCallType DEF Calls
  <2> QED
    BY <1>0, <1>2, <2>1, BecomeType, ResolvedType DEF BuildContext
<1>3. ASSUME NEW p \in Procs, NEW s \in Sessions, NEW decision \in DecisionKinds,
             BuildWithBudget(p, s, decision)
      PROVE  call' \in [Procs -> Calls]
  <2>1. Resolution(s, decision) \in Resolutions
    BY NewCallType
  <2>2. [Resolution(s, decision) EXCEPT !.served = FALSE] \in Resolutions
    BY <2>1 DEF Resolutions
  <2> QED
    BY <1>0, <1>3, <2>1, <2>2, ResolvedType DEF BuildWithBudget
<1>4. ASSUME NEW p \in Procs, ReadBudget(p) \/ ReadTurns(p) \/ ReadEvents(p)
      PROVE  call' \in [Procs -> Calls]
  <2>1. call[p] \in Resolutions /\ call[p].session \in Sessions
    BY <1>0, <1>4, KindOfCall DEF ReadBudget, ReadTurns, ReadEvents, At
  <2>2. CASE ReadBudget(p)
    <3>1. [call[p] EXCEPT !.pc = "read_turns", !.budget = budgets[call[p].session]] \in Calls
      BY <2>1 DEF Resolutions, Calls, TypeOK
    <3> QED
      BY <1>0, <2>2, <3>1, BecomeType DEF ReadBudget
  <2>3. CASE ReadTurns(p)
    <3>1. [call[p] EXCEPT !.pc = "read_events", !.budget = NoBudget] \in Calls
      BY <2>1 DEF Resolutions, Calls
    <3>2. ASSUME NEW d \in DecisionKinds \cup {"none"}
          PROVE  [call[p] EXCEPT !.decision = d] \in Resolutions
      BY <2>1 DEF Resolutions
    <3>3. \A b, history : Decide(b, history, HORIZON_TURNS) \in DecisionKinds
      BY DecideType
    <3> QED
      BY <1>0, <2>3, <3>1, <3>2, <3>3, BecomeType, ResolvedType DEF ReadTurns
  <2>4. CASE ReadEvents(p)
    <3> DEFINE seen == events[call[p].session]
               d == IF Len(seen) = 0 THEN "none" ELSE seen[Len(seen)]
    <3>1. seen \in Seq(DecisionKinds)
      BY <2>1 DEF TypeOK
    <3>2. d \in DecisionKinds \cup {"none"}
      BY <3>1
    <3>3. [call[p] EXCEPT !.decision = d] \in Resolutions
      BY <2>1, <3>2 DEF Resolutions
    <3> QED
      BY <1>0, <2>4, <3>3, ResolvedType DEF ReadEvents
  <2> QED
    BY <1>4, <2>2, <2>3, <2>4
<1>5. ASSUME NEW p \in Procs,
             EnforceBudget(p) \/ EnforceCreate(p) \/ EnforceLatest(p) \/ EnforceRecord(p)
      PROVE  call' \in [Procs -> Calls]
  <2>1. call[p] \in Enforcements
    BY <1>0, <1>5, KindOfCall DEF EnforceBudget, EnforceCreate, EnforceLatest, EnforceRecord, At
  <2>2. [call[p] EXCEPT !.pc = "answer", !.served = FALSE] \in Calls
    BY <2>1 DEF Enforcements, Resolutions, Calls
  <2> QED
    BY <1>0, <1>5, <2>1, <2>2, BecomeType, EnforcementType
       DEF EnforceBudget, EnforceCreate, EnforceLatest, EnforceRecord
<1>6. ASSUME NEW p \in Procs, Answer(p)
      PROVE  call' \in [Procs -> Calls]
  <2>1. \A c \in Clients : Charge(Charged[c]) \in Calls
    BY SessionsAssumption, NewCallType
  <2> QED
    BY <1>0, <1>6, <2>1, BecomeType, NewCallType DEF Answer
<1>7. ASSUME NEW p \in Procs, NEW c \in Clients, CallTool(p, c)
      PROVE  call' \in [Procs -> Calls]
  <2>1. Charge(Charged[c]) \in Calls
    BY SessionsAssumption, NewCallType
  <2> QED
    BY <1>0, <1>7, <2>1, BecomeType DEF CallTool
<1>8. ASSUME NEW p \in Procs,
             ChargeBudget(p) \/ ChargeCreate(p) \/ ChargeTurns(p) \/ ChargeInsert(p)
      PROVE  call' \in [Procs -> Calls]
  <2>1. call[p] \in Charges /\ call[p].session \in Sessions
    BY <1>0, <1>8, KindOfCall DEF ChargeBudget, ChargeCreate, ChargeTurns, ChargeInsert, At
  <2>2. [call[p] EXCEPT !.pc = "charge_insert", !.turn = Count(call[p].session)] \in Calls
    <3>1. Count(call[p].session) \in Nat
      BY <2>1, CountIs DEF Contiguous
    <3> QED
      BY <2>1, <3>1 DEF Charges, Calls
  <2> QED
    BY <1>0, <1>8, <2>1, <2>2, BecomeType, ChargeType, NewCallType
       DEF ChargeBudget, ChargeCreate, ChargeTurns, ChargeInsert
<1>9. ASSUME NEW p \in Procs, Locked(p)
      PROVE  call' \in [Procs -> Calls]
  <2>1. call[p] \in Resolutions =>
          [call[p] EXCEPT !.pc = "answer", !.budget = NoBudget, !.served = FALSE] \in Calls
    BY DEF Resolutions, Calls
  <2>2. call[p] \in Enforcements => [call[p] EXCEPT !.pc = "answer", !.served = FALSE] \in Calls
    BY DEF Enforcements, Resolutions, Calls
  <2> QED
    BY <1>0, <1>9, <2>1, <2>2, KindOfCall, BecomeType, NewCallType DEF Locked
<1>10. ASSUME NEW p \in Procs, Crash(p)
       PROVE  call' \in [Procs -> Calls]
  BY <1>0, <1>10, BecomeType, NewCallType DEF Crash
<1> QED
  BY <1>1, <1>2, <1>3, <1>4, <1>5, <1>6, <1>7, <1>8, <1>9, <1>10
     DEF Next, Begin, Advance, CreateBudget, RecordTurn, vars

\* Types and contiguity together are inductive.
LEMMA TypeStep == TypeOK /\ Contiguous /\ [Next]_vars => TypeOK' /\ Contiguous'
<1> SUFFICES ASSUME TypeOK, Contiguous, [Next]_vars PROVE TypeOK' /\ Contiguous'
  OBVIOUS
<1>1. LedgerStep
  BY WhoWrites
<1> QED
  BY <1>1, TablesType, ContiguousStep, CallsType DEF TypeOK

LEMMA ContiguousInit == Init => Contiguous
<1> SUFFICES ASSUME Init, NEW s \in Sessions
             PROVE  \E n \in Nat : DOMAIN turns[s] = 0 .. n - 1 /\ n <= budgets[s].max_turns
  BY DEF Contiguous
<1>1. DOMAIN turns[s] = 0 .. 0 - 1 /\ 0 <= budgets[s].max_turns
  BY DEF Init, NoTurns, NoBudget
<1> QED
  BY <1>1

LEMMA TypedAndContiguous == Spec => [](TypeOK /\ Contiguous)
<1> QED
  BY TypeInit, ContiguousInit, TypeStep, PTL DEF Spec

\* The tables and the calls in flight keep their types.
THEOREM TypeCorrect == Spec => []TypeOK
<1> QED
  BY TypedAndContiguous, PTL

\* However many threads charge a session, its turns have no gap and stay
\* within its budget.
THEOREM TurnsHaveNoGap == Spec => []TurnsContiguous
<1>1. Contiguous => TurnsContiguous
  BY CountIs DEF Contiguous, TurnsContiguous
<1> QED
  BY <1>1, TypedAndContiguous, PTL

-----------------------------------------------------------------------------
(* The latch *)

\* A halted session keeps its turns, and only halts are added to its events.
THEOREM HaltHolds == Spec => HaltLatch
<1>1. TypeOK /\ LedgerStep => KeepsHalt
  <2> SUFFICES ASSUME TypeOK, LedgerStep, NEW s \in Sessions, Halted(s)
               PROVE  /\ turns'[s] = turns[s]
                      /\ Len(events'[s]) >= Len(events[s])
                      /\ \A i \in DOMAIN events'[s] :
                            IF i \in DOMAIN events[s] THEN events'[s][i] = events[s][i]
                            ELSE events'[s][i] = "EMERGENCY_HALT"
    BY DEF KeepsHalt
  <2>1. events[s] \in Seq(DecisionKinds)
    BY DEF TypeOK
  <2>2. CASE turns'[s] = turns[s] /\ events'[s] = events[s]
    BY <2>1, <2>2
  <2>3. ASSUME NEW t \in Sessions, NEW turn \in Nat, NEW tokens \in TurnTokens,
               InsertTelemetry(t, turn, tokens)
        PROVE  turns'[s] = turns[s] /\ events'[s] = events[s]
    BY <2>3 DEF InsertTelemetry, TurnRefused, InsertTurn, TypeOK
  <2>4. ASSUME NEW t \in Sessions, NEW d \in DecisionKinds, InsertEvent(t, d)
        PROVE  \/ turns'[s] = turns[s] /\ events'[s] = events[s]
               \/ turns'[s] = turns[s] /\ events'[s] = Append(events[s], "EMERGENCY_HALT")
    BY <2>4 DEF InsertEvent, EventRefused, TypeOK
  <2>5. CASE turns'[s] = turns[s] /\ events'[s] = Append(events[s], "EMERGENCY_HALT")
    BY <2>1, <2>5
  <2> QED
    BY <2>2, <2>3, <2>4, <2>5 DEF LedgerStep, ledger, InsertBudget
<1> QED
  BY <1>1, TypedAndContiguous, WhoWrites, PTL DEF Spec, HaltLatch

-----------------------------------------------------------------------------
(* Calls in flight.  What a call read stays true enough of the ledger while *)
(* other threads write to it, because budgets are never removed, turns only *)
(* grow, and a halt freezes the turns and stays the latest event.           *)

HaltIsLast ==
    \A s \in Sessions : Halted(s) =>
        events[s] # <<>> /\ events[s][Len(events[s])] = "EMERGENCY_HALT"

CallSound(c) ==
    /\ c.pc \in {"read_budget", "read_turns", "read_events"} /\ c.began = "halted" =>
          turns[c.session] = NoTurns /\ Halted(c.session)
    /\ c.pc \in {"enforce_budget", "enforce_create", "enforce_latest", "enforce_record", "answer"}
          /\ c.began = "halted" /\ c.served => c.decision = "EMERGENCY_HALT"
    /\ c.pc \in {"enforce_latest", "enforce_record"} => budgets[c.session] # NoBudget
    /\ c.pc = "answer" /\ c.served /\ c.decision = "EMERGENCY_HALT" => Halted(c.session)
    /\ c.pc \in {"charge_turns", "charge_insert"} => budgets[c.session] # NoBudget
    /\ c.pc = "charge_insert" => c.turn <= Count(c.session) /\ c.turn < SHADOW_TURNS

CallsSound == \A p \in Procs : CallSound(call[p])

IInv == TypeOK /\ Contiguous /\ HaltIsLast /\ CallsSound

\* A halt stays the latest event of its session.
LEMMA HaltIsLastStep ==
  ASSUME TypeOK, HaltIsLast, LedgerStep
  PROVE  HaltIsLast'
<1> SUFFICES ASSUME NEW s \in Sessions, Halted(s)'
             PROVE  events'[s] # <<>> /\ events'[s][Len(events'[s])] = "EMERGENCY_HALT"
  BY DEF HaltIsLast
<1>1. events[s] \in Seq(DecisionKinds)
  BY DEF TypeOK
<1>2. CASE events'[s] = events[s]
  BY <1>2 DEF HaltIsLast, Halted
<1>3. ASSUME NEW d \in DecisionKinds, ~EventRefused(s, d), events'[s] = Append(events[s], d)
      PROVE  events'[s] # <<>> /\ events'[s][Len(events'[s])] = "EMERGENCY_HALT"
  <2>1. events'[s] # <<>> /\ events'[s][Len(events'[s])] = d
    BY <1>1, <1>3
  <2>2. CASE d = "EMERGENCY_HALT"
    BY <2>1, <2>2
  <2>3. CASE d # "EMERGENCY_HALT"
    <3>1. ~Halted(s)
      BY <1>3, <2>3 DEF EventRefused
    <3>2. PICK i \in DOMAIN events'[s] : events'[s][i] = "EMERGENCY_HALT"
      BY DEF Halted
    <3>3. i \in DOMAIN events[s] /\ events'[s][i] = events[s][i]
      BY <1>1, <1>3, <2>1, <2>3, <3>2
    <3> QED
      BY <3>1, <3>2, <3>3 DEF Halted
  <2> QED
    BY <2>2, <2>3
<1>4. \/ events'[s] = events[s]
      \/ \E d \in DecisionKinds : ~EventRefused(s, d) /\ events'[s] = Append(events[s], d)
  BY DEF LedgerStep, ledger, InsertBudget, InsertTelemetry, InsertEvent, TypeOK
<1> QED
  BY <1>2, <1>3, <1>4

\* What a thread knows of a session survives the steps of the others.
LEMMA LedgerGrows ==
  ASSUME TypeOK, Contiguous, LedgerStep, NEW s \in Sessions
  PROVE  /\ budgets[s] # NoBudget => budgets'[s] # NoBudget
         /\ Halted(s) => Halted(s)' /\ turns'[s] = turns[s]
         /\ Count(s) <= Count(s)'
<1>1. events[s] \in Seq(DecisionKinds)
  BY DEF TypeOK
<1>2. budgets[s] # NoBudget => budgets'[s] # NoBudget
  BY DEF LedgerStep, ledger, InsertBudget, InsertTelemetry, InsertEvent, TypeOK
<1>3. \/ events'[s] = events[s]
      \/ \E d \in DecisionKinds : events'[s] = Append(events[s], d)
  BY DEF LedgerStep, ledger, InsertBudget, InsertTelemetry, InsertEvent, TypeOK
<1>4. Halted(s) => Halted(s)'
  <2> SUFFICES ASSUME Halted(s) PROVE Halted(s)'
    OBVIOUS
  <2>1. PICK i \in DOMAIN events[s] : events[s][i] = "EMERGENCY_HALT"
    BY DEF Halted
  <2>2. i \in DOMAIN events'[s] /\ events'[s][i] = events[s][i]
    BY <1>1, <1>3, <2>1
  <2> QED
    BY <2>1, <2>2 DEF Halted
<1>5. \/ turns'[s] = turns[s]
      \/ /\ ~Halted(s)
         /\ \E turn \in Nat : turn = Count(s) /\ DOMAIN turns'[s] = DOMAIN turns[s] \cup {turn}
  BY DEF LedgerStep, ledger, InsertBudget, InsertTelemetry, InsertEvent, InsertTurn,
         TurnRefused, TypeOK
<1>6. Count(s) <= Count(s)'
  <2>1. PICK n \in Nat : DOMAIN turns[s] = 0 .. n - 1
    BY DEF Contiguous
  <2>2. Count(s) = n
    BY <2>1, CountIs
  <2>3. CASE turns'[s] = turns[s]
    BY <2>2, <2>3 DEF Count
  <2>4. CASE DOMAIN turns'[s] = DOMAIN turns[s] \cup {n}
    <3>1. DOMAIN turns'[s] = 0 .. n
      BY <2>1, <2>4
    <3>2. Cardinality(0 .. n) = n + 1
      BY FS_Interval, SMT
    <3>3. Count(s)' = n + 1
      BY <3>1, <3>2 DEF Count
    <3> QED
      BY <2>2, <3>3
  <2> QED
    BY <1>5, <2>2, <2>3, <2>4
<1> QED
  BY <1>2, <1>4, <1>5, <1>6

\* A call that its thread leaves alone stays sound.
LEMMA CallSoundKept ==
  ASSUME TypeOK, Contiguous, LedgerStep, NEW p \in Procs, CallSound(call[p]),
         call'[p] = call[p]
  PROVE  CallSound(call[p])'
<1>1. call[p] \in Calls
  BY DEF TypeOK
<1>2. CASE call[p] = Idle
  BY <1>2 DEF CallSound, Idle
<1>3. CASE call[p] \in Resolutions \cup Enforcements
  <2>1. call[p].session \in Sessions
    BY <1>3 DEF Resolutions, Enforcements
  <2>2. call[p].pc \notin {"charge_turns", "charge_insert"}
    BY <1>3 DEF Resolutions, Enforcements
  <2> QED
    BY <2>1, <2>2, LedgerGrows DEF CallSound
<1>4. CASE call[p] \in Charges
  <2>1. PICK s \in Sessions : call[p].session = s
    BY <1>4 DEF Charges
  <2>2. /\ call[p].pc \in {"charge_budget", "charge_create", "charge_turns", "charge_insert"}
        /\ call[p].turn \in Nat
    BY <1>4 DEF Charges
  <2>3. Count(s) \in Nat
    BY CountIs DEF Contiguous
  <2>4. Count(s)' \in Nat
    BY ContiguousStep, CountIsNext DEF Contiguous
  <2>5. call[p].pc = "charge_insert" => call[p].turn <= Count(s) /\ call[p].turn < SHADOW_TURNS
    BY <2>1 DEF CallSound
  <2>6. call[p].pc = "charge_insert" => call[p].turn <= Count(s)'
    BY <2>2, <2>3, <2>4, <2>5, LedgerGrows
  <2>7. /\ call[p].pc \in {"charge_turns", "charge_insert"} => budgets'[s] # NoBudget
    BY <2>1, LedgerGrows DEF CallSound
  <2> QED
    BY <2>1, <2>2, <2>5, <2>6, <2>7 DEF CallSound, Count
<1> QED
  BY <1>1, <1>2, <1>3, <1>4 DEF Calls

\* The call of a thread that goes idle, begins a charge or acts on what its
\* resolution found is sound.
LEMMA SoundIdle ==
  ASSUME NEW p \in Procs, call'[p] = Idle \/ \E s \in Sessions : call'[p] = Charge(s)
  PROVE  CallSound(call[p])'
<1>1. CASE call'[p] = Idle
  BY <1>1 DEF CallSound, Idle
<1>2. ASSUME NEW s \in Sessions, call'[p] = Charge(s)
      PROVE  CallSound(call[p])'
  BY <1>2 DEF CallSound, Charge
<1> QED
  BY <1>1, <1>2

LEMMA SoundResolved ==
  ASSUME TypeOK, NEW p \in Procs, NEW c \in Resolutions, Resolved(p, c),
         c.began = "halted" /\ c.served => c.decision = "EMERGENCY_HALT"
  PROVE  CallSound(call[p])'
<1>1. CASE Bundle(c.decision) = "full"
  <2>1. c.decision # "EMERGENCY_HALT"
    BY <1>1 DEF Bundle
  <2>2. call'[p] = [c EXCEPT !.pc = "answer", !.budget = NoBudget]
    BY <1>1 DEF Resolved, Become, TypeOK
  <2>3. /\ call'[p].pc = "answer" /\ call'[p].began = c.began
        /\ call'[p].served = c.served /\ call'[p].decision = c.decision
    BY <2>2 DEF Resolutions
  <2> QED
    BY <2>1, <2>3 DEF CallSound
<1>2. CASE Bundle(c.decision) # "full"
  <2>1. call'[p] = [c EXCEPT !.pc = "enforce_budget", !.budget = NoBudget]
    BY <1>2 DEF Resolved, Become, TypeOK
  <2>2. /\ call'[p].pc = "enforce_budget" /\ call'[p].began = c.began
        /\ call'[p].served = c.served /\ call'[p].decision = c.decision
    BY <2>1 DEF Resolutions
  <2> QED
    BY <2>2 DEF CallSound
<1> QED
  BY <1>1, <1>2

\* So is the call of a thread that records its decision: the budget exists when
\* the decision is recorded, and a halt is on record when it is answered.
LEMMA SoundEnforcement ==
  ASSUME IInv, NEW p \in Procs,
         EnforceBudget(p) \/ EnforceCreate(p) \/ EnforceLatest(p) \/ EnforceRecord(p)
  PROVE  CallSound(call[p])'
<1> DEFINE c == call[p]
           s == c.session
           seen == events[s]
           HaltNext(t) == \E i \in DOMAIN events'[t] : events'[t][i] = "EMERGENCY_HALT"
<1>1. /\ call \in [Procs -> Calls] /\ CallSound(c)
      /\ c \in Enforcements /\ s \in Sessions
  BY KindOfCall DEF IInv, TypeOK, CallsSound, EnforceBudget, EnforceCreate, EnforceLatest,
                    EnforceRecord, At
<1>2. ASSUME NEW pc \in {"enforce_create", "enforce_latest", "enforce_record", "answer"},
             Goto(p, pc)
      PROVE  /\ call'[p].pc = pc /\ call'[p].session = s /\ call'[p].began = c.began
             /\ call'[p].served = c.served /\ call'[p].decision = c.decision
  BY <1>1, <1>2 DEF Goto, Enforcements
<1>3. c.began = "halted" /\ c.served => c.decision = "EMERGENCY_HALT"
  BY <1>1 DEF CallSound, Enforcements
<1>4. seen \in Seq(DecisionKinds)
  BY <1>1 DEF IInv, TypeOK
<1>5. CASE EnforceBudget(p)
  BY <1>2, <1>3, <1>5 DEF EnforceBudget, ledger, CallSound
<1>6. CASE EnforceCreate(p)
  <2>1. CASE Goto(p, "enforce_latest") /\ budgets' = [budgets EXCEPT ![s] = EngineBudget]
    <3>1. budgets'[s] # NoBudget
      BY <1>1, <2>1, NoBudgetDiffers DEF IInv, TypeOK, Budgets
    <3> QED
      BY <1>2, <1>3, <2>1, <3>1 DEF CallSound
  <2>2. CASE Become(p, [c EXCEPT !.pc = "answer", !.served = FALSE])
    <3>1. call'[p] = [c EXCEPT !.pc = "answer", !.served = FALSE]
      BY <1>1, <2>2 DEF Become
    <3>2. call'[p].pc = "answer" /\ ~call'[p].served
      BY <1>1, <3>1 DEF Enforcements
    <3> QED
      BY <3>2 DEF CallSound
  <2> QED
    BY <1>6, <2>1, <2>2 DEF EnforceCreate
<1>7. CASE EnforceLatest(p)
  <2>1. budgets[s] # NoBudget /\ UNCHANGED ledger
    BY <1>1, <1>7 DEF CallSound, EnforceLatest, At
  <2>2. CASE Goto(p, "answer") /\ seen # <<>> /\ seen[Len(seen)] = c.decision
    <3>1. c.decision = "EMERGENCY_HALT" => HaltNext(s)
      <4>1. Len(seen) \in DOMAIN seen /\ events'[s] = seen
        BY <1>4, <2>1, <2>2 DEF ledger
      <4> QED
        BY <2>2, <4>1 DEF Halted
    <3> QED
      BY <1>2, <1>3, <2>2, <3>1 DEF CallSound, Halted
  <2>3. CASE Goto(p, "enforce_record")
    BY <1>2, <1>3, <2>1, <2>3 DEF CallSound, ledger
  <2> QED
    BY <1>7, <2>2, <2>3 DEF EnforceLatest
<1>8. CASE EnforceRecord(p)
  <2>1. budgets[s] # NoBudget
    BY <1>1, <1>8 DEF CallSound, EnforceRecord, At
  <2>2. c.decision = "EMERGENCY_HALT" => HaltNext(s)
    <3> SUFFICES ASSUME c.decision = "EMERGENCY_HALT" PROVE HaltNext(s)
      OBVIOUS
    <3>1. ~EventRefused(s, c.decision)
      BY <2>1 DEF EventRefused
    <3>2. events'[s] = Append(seen, "EMERGENCY_HALT")
      BY <1>1, <1>8, <3>1 DEF EnforceRecord, IInv, TypeOK
    <3>3. /\ Len(seen) + 1 \in DOMAIN events'[s]
          /\ events'[s][Len(seen) + 1] = "EMERGENCY_HALT"
      BY <1>4, <3>2
    <3> QED
      BY <3>3 DEF Halted
  <2>3. Goto(p, "answer")
    BY <1>8 DEF EnforceRecord
  <2> QED
    BY <1>2, <1>3, <2>2, <2>3 DEF CallSound, Halted
<1> QED
  BY <1>5, <1>6, <1>7, <1>8

\* So is the call of a thread that charges a session.
LEMMA SoundCharge ==
  ASSUME IInv, NEW p \in Procs,
         ChargeBudget(p) \/ ChargeCreate(p) \/ ChargeTurns(p) \/ ChargeInsert(p)
  PROVE  CallSound(call[p])'
<1> DEFINE c == call[p]
           s == c.session
<1>1. /\ call \in [Procs -> Calls] /\ CallSound(c)
      /\ c \in Charges /\ s \in Sessions
  BY KindOfCall DEF IInv, TypeOK, CallsSound, ChargeBudget, ChargeCreate, ChargeTurns,
                    ChargeInsert, At
<1>2. ASSUME NEW pc \in {"charge_create", "charge_turns"}, Goto(p, pc)
      PROVE  call'[p].pc = pc /\ call'[p].session = s
  BY <1>1, <1>2 DEF Goto, Charges
<1>3. ASSUME Become(p, Idle)
      PROVE  CallSound(call[p])'
  BY <1>1, <1>3, SoundIdle DEF Become
<1>4. CASE ChargeBudget(p)
  BY <1>2, <1>4 DEF ChargeBudget, ledger, CallSound
<1>5. CASE ChargeCreate(p)
  <2>1. CASE Goto(p, "charge_turns") /\ budgets' = [budgets EXCEPT ![s] = ShadowBudget]
    <3>1. budgets'[s] # NoBudget
      BY <1>1, <2>1, NoBudgetDiffers DEF IInv, TypeOK, Budgets
    <3> QED
      BY <1>2, <2>1, <3>1 DEF CallSound
  <2> QED
    BY <1>3, <1>5, <2>1 DEF ChargeCreate
<1>6. CASE ChargeTurns(p)
  <2>1. budgets[s] # NoBudget /\ UNCHANGED ledger
    BY <1>1, <1>6 DEF CallSound, ChargeTurns, At
  <2>2. PICK n \in Nat : n = Count(s)
    BY <1>1, CountIs DEF IInv, Contiguous
  <2>3. CASE n < SHADOW_TURNS /\ Become(p, [c EXCEPT !.pc = "charge_insert", !.turn = n])
    <3>1. call'[p] = [c EXCEPT !.pc = "charge_insert", !.turn = n]
      BY <1>1, <2>3 DEF Become
    <3>2. call'[p].pc = "charge_insert" /\ call'[p].session = s /\ call'[p].turn = n
      BY <1>1, <3>1 DEF Charges
    <3>3. Count(call[p].session)' = n
      BY <2>1, <2>2, <3>2 DEF Count, ledger
    <3>4. budgets'[s] # NoBudget /\ n <= n
      BY <2>1, <2>2 DEF ledger
    <3> QED
      BY <2>3, <3>2, <3>3, <3>4 DEF CallSound
  <2> QED
    BY <1>3, <1>6, <2>2, <2>3 DEF ChargeTurns
<1>7. CASE ChargeInsert(p)
  BY <1>3, <1>7 DEF ChargeInsert
<1> QED
  BY <1>4, <1>5, <1>6, <1>7

\* A thread that gives up on a locked database knows nothing: its answer is not
\* served by the ledger.
LEMMA SoundLocked ==
  ASSUME IInv, NEW p \in Procs, Locked(p)
  PROVE  CallSound(call[p])'
<1> DEFINE c == call[p]
<1>1. call \in [Procs -> Calls]
  BY DEF IInv, TypeOK
<1>2. CASE Become(p, Idle)
  BY <1>1, <1>2, SoundIdle DEF Become
<1>3. CASE c \in Resolutions /\ Become(p, [c EXCEPT !.pc = "answer", !.budget = NoBudget, !.served = FALSE])
  <2>1. call'[p] = [c EXCEPT !.pc = "answer", !.budget = NoBudget, !.served = FALSE]
    BY <1>1, <1>3 DEF Become
  <2>2. call'[p].pc = "answer" /\ ~call'[p].served
    BY <1>3, <2>1 DEF Resolutions
  <2> QED
    BY <2>2 DEF CallSound
<1>4. CASE c \in Enforcements /\ Become(p, [c EXCEPT !.pc = "answer", !.served = FALSE])
  <2>1. call'[p] = [c EXCEPT !.pc = "answer", !.served = FALSE]
    BY <1>1, <1>4 DEF Become
  <2>2. call'[p].pc = "answer" /\ ~call'[p].served
    BY <1>4, <2>1 DEF Enforcements
  <2> QED
    BY <2>2 DEF CallSound
<1> QED
  BY <1>1, <1>2, <1>3, <1>4, KindOfCall DEF Locked

\* Only a thread's own steps change its call.
LEMMA OwnStep ==
  ASSUME call \in [Procs -> Calls], [Next]_vars, NEW p \in Procs, call'[p] # call[p]
  PROVE  \/ \E s \in Sessions, supplied \in DecisionKinds \cup {"none"} :
               BuildContext(p, s, supplied)
         \/ \E s \in Sessions, decision \in DecisionKinds : BuildWithBudget(p, s, decision)
         \/ \E client \in Clients : CallTool(p, client)
         \/ Advance(p) \/ Locked(p) \/ Crash(p)
<1>1. PICK q \in Procs : Begin(q) \/ Advance(q) \/ Locked(q) \/ Crash(q)
  BY DEF Next, vars
<1>2. CASE q # p
  BY <1>1, <1>2 DEF Begin, Advance, Locked, Crash, CreateBudget, RecordTurn, BuildContext,
     BuildWithBudget, CallTool, ReadBudget, ReadTurns, ReadEvents, EnforceBudget, EnforceCreate,
     EnforceLatest, EnforceRecord, Answer, ChargeBudget, ChargeCreate, ChargeTurns, ChargeInsert,
     Resolved, Become, Goto
<1>3. CASE q = p
  BY <1>1, <1>3 DEF Begin, CreateBudget, RecordTurn
<1> QED
  BY <1>2, <1>3

\* A thread's own step leaves its call sound; a thread that takes no step of
\* its own keeps the call it had.
LEMMA CallSoundStep ==
  ASSUME IInv, [Next]_vars, NEW p \in Procs
  PROVE  CallSound(call[p])'
<1>0. /\ TypeOK /\ Contiguous /\ HaltIsLast /\ LedgerStep
      /\ CallSound(call[p])
      /\ call \in [Procs -> Calls]
  BY WhoWrites DEF IInv, CallsSound, TypeOK
<1>1. CASE call'[p] = call[p]
  BY <1>0, <1>1, CallSoundKept
<1>2. ASSUME NEW s \in Sessions, NEW supplied \in DecisionKinds \cup {"none"},
             BuildContext(p, s, supplied)
      PROVE  CallSound(call[p])'
  <2> DEFINE c == Resolution(s, supplied)
  <2>1. c \in Resolutions
    BY NewCallType
  <2>2. CASE supplied = "none"
    <3>1. call'[p] = c
      BY <1>0, <1>2, <2>2 DEF BuildContext, Become
    <3>2. c.began = "halted" => turns[s] = NoTurns /\ Halted(s)
      BY DEF Resolution, Begun
    <3>3. c.session = s /\ c.pc = "read_budget"
      BY DEF Resolution
    <3>4. turns'[s] = turns[s] /\ (Halted(s) <=> Halted(s)')
      BY <1>2 DEF BuildContext, ledger, Halted
    <3> HIDE DEF c
    <3> QED
      BY <3>1, <3>2, <3>3, <3>4 DEF CallSound, Halted
  <2>3. CASE supplied # "none"
    <3>1. c.began = "supplied"
      BY <2>3 DEF Resolution, Begun
    <3>2. Resolved(p, c)
      BY <1>2, <2>3 DEF BuildContext
    <3> QED
      BY <1>0, <2>1, <3>1, <3>2, SoundResolved
  <2> QED
    BY <2>2, <2>3
<1>3. ASSUME NEW s \in Sessions, NEW decision \in DecisionKinds, BuildWithBudget(p, s, decision)
      PROVE  CallSound(call[p])'
  <2> DEFINE c == Resolution(s, decision)
  <2>1. c \in Resolutions /\ c.began = "supplied"
    BY NewCallType DEF Resolution, Begun, DecisionKinds
  <2>2. [c EXCEPT !.served = FALSE] \in Resolutions /\ [c EXCEPT !.served = FALSE].began = "supplied"
    BY <2>1 DEF Resolutions
  <2>3. Resolved(p, c) \/ Resolved(p, [c EXCEPT !.served = FALSE])
    BY <1>3 DEF BuildWithBudget
  <2> QED
    BY <1>0, <2>1, <2>2, <2>3, SoundResolved
<1>4. CASE ReadBudget(p)
  <2>1. call[p] \in Resolutions
    BY <1>0, <1>4, KindOfCall DEF ReadBudget, At
  <2>2. call'[p] = [call[p] EXCEPT !.pc = "read_turns", !.budget = budgets[call[p].session]]
    BY <1>0, <1>4 DEF ReadBudget, Become
  <2>3. /\ call'[p].pc = "read_turns" /\ call'[p].session = call[p].session
        /\ call'[p].began = call[p].began
    BY <2>1, <2>2 DEF Resolutions
  <2> QED
    BY <1>0, <1>4, <2>3 DEF CallSound, ReadBudget, At, ledger, Halted
<1>5. CASE ReadTurns(p)
  <2> DEFINE c == call[p]
  <2>1. c \in Resolutions
    BY <1>0, <1>5, KindOfCall DEF ReadTurns, At
  <2>2. c.began = "halted" => turns[c.session] = NoTurns /\ Halted(c.session)
    BY <1>0, <1>5 DEF CallSound, ReadTurns, At
  <2>3. CASE Become(p, [c EXCEPT !.pc = "read_events", !.budget = NoBudget])
    <3>1. call'[p] = [c EXCEPT !.pc = "read_events", !.budget = NoBudget]
      BY <1>0, <2>3 DEF Become
    <3>2. /\ call'[p].pc = "read_events" /\ call'[p].session = c.session
          /\ call'[p].began = c.began
      BY <2>1, <3>1 DEF Resolutions
    <3> QED
      BY <1>5, <2>2, <3>2 DEF CallSound, ReadTurns, ledger, Halted
  <2>4. ASSUME NEW d \in DecisionKinds \cup {"none"}, turns[c.session] # NoTurns,
               Resolved(p, [c EXCEPT !.decision = d])
        PROVE  CallSound(call[p])'
    <3>1. [c EXCEPT !.decision = d] \in Resolutions /\ [c EXCEPT !.decision = d].began = c.began
      BY <2>1 DEF Resolutions
    <3> QED
      BY <1>0, <2>2, <2>4, <3>1, SoundResolved
  <2>5. \A b, history : Decide(b, history, HORIZON_TURNS) \in DecisionKinds
    BY DecideType
  <2> QED
    BY <1>5, <2>3, <2>4, <2>5 DEF ReadTurns
<1>6. CASE ReadEvents(p)
  <2> DEFINE c == call[p]
             seen == events[c.session]
             d == IF Len(seen) = 0 THEN "none" ELSE seen[Len(seen)]
  <2>1. c \in Resolutions /\ c.session \in Sessions
    BY <1>0, <1>6, KindOfCall DEF ReadEvents, At
  <2>2. seen \in Seq(DecisionKinds)
    BY <1>0, <2>1 DEF TypeOK
  <2>3. c.began = "halted" => d = "EMERGENCY_HALT"
    <3>1. c.began = "halted" => Halted(c.session)
      BY <1>0, <1>6 DEF CallSound, ReadEvents, At
    <3> QED
      BY <1>0, <2>1, <2>2, <3>1 DEF HaltIsLast
  <2>4. d \in DecisionKinds \cup {"none"}
    BY <2>2
  <2>5. Resolved(p, [c EXCEPT !.decision = d])
    BY <1>6 DEF ReadEvents
  <2> HIDE DEF d
  <2>6. /\ [c EXCEPT !.decision = d] \in Resolutions
        /\ [c EXCEPT !.decision = d].began = c.began
        /\ [c EXCEPT !.decision = d].decision = d
    BY <2>1, <2>4 DEF Resolutions
  <2> QED
    BY <1>0, <2>3, <2>5, <2>6, SoundResolved
<1>7. CASE Answer(p)
  <2>1. \A client \in Clients : Charged[client] \in Sessions
    BY SessionsAssumption
  <2>2. call'[p] = Idle \/ \E s \in Sessions : call'[p] = Charge(s)
    BY <1>0, <1>7, <2>1 DEF Answer, Become
  <2> QED
    BY <2>2, SoundIdle
<1>8. ASSUME NEW client \in Clients, CallTool(p, client)
      PROVE  CallSound(call[p])'
  <2>1. Charged[client] \in Sessions /\ call'[p] = Charge(Charged[client])
    BY <1>0, <1>8, SessionsAssumption DEF CallTool, Become
  <2> QED
    BY <2>1, SoundIdle
<1>9. CASE Locked(p) \/ Crash(p)
  BY <1>0, <1>9, SoundLocked, SoundIdle DEF Crash, Become
<1> QED
  BY <1>0, <1>1, <1>2, <1>3, <1>4, <1>5, <1>6, <1>7, <1>8, <1>9, OwnStep, SoundEnforcement,
     SoundCharge DEF Advance

\* The invariant holds in every reachable state.
LEMMA Invariant == Spec => []IInv
<1>1. Init => IInv
  <2> SUFFICES ASSUME Init PROVE IInv
    OBVIOUS
  <2>1. HaltIsLast
    BY DEF Init, HaltIsLast, Halted
  <2>2. CallsSound
    BY DEF Init, CallsSound, CallSound, Idle
  <2> QED
    BY <2>1, <2>2, TypeInit, ContiguousInit DEF IInv
<1>2. IInv /\ [Next]_vars => IInv'
  <2> SUFFICES ASSUME IInv, [Next]_vars PROVE IInv'
    OBVIOUS
  <2>1. HaltIsLast'
    BY WhoWrites, HaltIsLastStep DEF IInv
  <2>2. CallsSound'
    BY CallSoundStep DEF CallsSound
  <2> QED
    BY <2>1, <2>2, TypeStep DEF IInv
<1> QED
  BY <1>1, <1>2, PTL DEF Spec

\* A session halted before its first turn is contained ever after.
THEOREM HaltedStaysContained == Spec => []HaltedWithoutTurnsIsContained
<1>1. IInv => HaltedWithoutTurnsIsContained
  BY DEF IInv, CallsSound, CallSound, HaltedWithoutTurnsIsContained, At, Bundle
<1> QED
  BY <1>1, Invariant, PTL

\* A containment answered by the ledger is on record in the ledger.
THEOREM ContainmentOnRecord == Spec => []ContainmentIsRecorded
<1>1. IInv => ContainmentIsRecorded
  <2> SUFFICES ASSUME IInv, NEW p \in Procs, At(p, "answer"), call[p].served,
                      Bundle(call[p].decision) = "containment"
               PROVE  Halted(call[p].session)
    BY DEF ContainmentIsRecorded
  <2>1. call[p].decision = "EMERGENCY_HALT"
    BY DEF Bundle
  <2> QED
    BY <2>1 DEF IInv, CallsSound, CallSound, At
<1> QED
  BY <1>1, Invariant, PTL

\* A charge the ledger refuses lost a race or met a session that is closed.
THEOREM ChargeLostOnlyWhenTold == Spec => []ChargeLostOnlyToRace
<1>1. IInv => ChargeLostOnlyToRace
  <2> SUFFICES ASSUME IInv, NEW p \in Procs, At(p, "charge_insert"),
                      TurnRefused(call[p].session, call[p].turn),
                      ~(Count(call[p].session) > call[p].turn), ~Halted(call[p].session)
               PROVE  /\ budgets[call[p].session] # ShadowBudget
                      /\ Count(call[p].session) = budgets[call[p].session].max_turns
    BY DEF ChargeLostOnlyToRace
  <2> DEFINE s == call[p].session
             turn == call[p].turn
  <2>1. s \in Sessions /\ turn \in Nat
    BY KindOfCall DEF IInv, TypeOK, At, Charges
  <2>2. PICK n \in Nat : DOMAIN turns[s] = 0 .. n - 1 /\ n <= budgets[s].max_turns
    BY <2>1 DEF IInv, Contiguous
  <2>3. Count(s) = n
    BY <2>1, <2>2, CountIs
  <2>4. budgets[s] # NoBudget /\ turn <= n /\ turn < SHADOW_TURNS
    BY <2>3 DEF IInv, CallsSound, CallSound, At
  <2>5. turn = n
    BY <2>1, <2>3, <2>4
  <2>6. turn >= budgets[s].max_turns
    BY <2>3, <2>4, <2>5 DEF TurnRefused
  <2>7. budgets[s].max_turns \in Nat
    BY <2>1, <2>4, BudgetsAssumption DEF IInv, TypeOK
  <2>8. n = budgets[s].max_turns
    BY <2>2, <2>5, <2>6, <2>7
  <2>9. budgets[s] # ShadowBudget
    BY <2>4, <2>5, <2>8, ShadowAssumption, NumbersAssumption
  <2> QED
    BY <2>3, <2>8, <2>9
<1> QED
  BY <1>1, Invariant, PTL

-----------------------------------------------------------------------------
(* The hard limit.  A session that is over it stays over it, because its    *)
(* turns are only added to and its budget is never written again; the sum   *)
(* of the history the engine makes of the stored turns is what was spent.   *)

\* The stored turns of a session are a table of tokens.
TurnsAreTables == \A s \in Sessions : turns[s] \in [DOMAIN turns[s] -> TurnTokens]

IsOver(s) ==
    turns[s] # NoTurns /\ budgets[s] # NoBudget /\ Spent(s) > budgets[s].hard

\* What a resolution that began over the hard limit knows: until it read the
\* turns that the session is over it, and then that it has to halt.
OverSound(c) ==
    /\ c.pc \in {"read_budget", "read_turns"} /\ c.began = "over" => IsOver(c.session)
    /\ c.pc = "read_turns" /\ c.began = "over" => c.budget = budgets[c.session]
    /\ c.pc = "read_events" => c.began # "over"
    /\ c.pc \in {"enforce_budget", "enforce_create", "enforce_latest", "enforce_record", "answer"}
          /\ c.began = "over" /\ c.served /\ Readable(c.session)
          => c.decision = "EMERGENCY_HALT"

OverInv == TurnsAreTables /\ \A p \in Procs : OverSound(call[p])

\* The only statement that writes to the turns of a session adds the next one.
AddsTurn(s, turn, tokens) ==
    /\ turn = Count(s)
    /\ turns'[s] = [i \in DOMAIN turns[s] \cup {turn} |->
                       IF i = turn THEN tokens ELSE turns[s][i]]

LEMMA TurnsGrowByOne ==
  ASSUME TypeOK, LedgerStep, NEW s \in Sessions
  PROVE  turns'[s] = turns[s] \/ \E turn \in Nat, tokens \in TurnTokens : AddsTurn(s, turn, tokens)
<1>1. ASSUME NEW t \in Sessions, NEW turn \in Nat, NEW tokens \in TurnTokens,
             InsertTelemetry(t, turn, tokens)
      PROVE  turns'[s] = turns[s] \/ AddsTurn(s, turn, tokens)
  <2>1. CASE t # s
    BY <1>1, <2>1 DEF InsertTelemetry, InsertTurn, TypeOK
  <2>2. CASE t = s
    BY <1>1, <2>2 DEF InsertTelemetry, InsertTurn, TurnRefused, TypeOK, AddsTurn
  <2> QED
    BY <2>1, <2>2
<1>2. turns' = turns \/ \E t \in Sessions, turn \in Nat, tokens \in TurnTokens :
                           InsertTelemetry(t, turn, tokens)
  BY DEF LedgerStep, ledger, InsertBudget, InsertEvent
<1> QED
  BY <1>1, <1>2

LEMMA TablesStep ==
  ASSUME TypeOK, TurnsAreTables, LedgerStep
  PROVE  TurnsAreTables'
<1> SUFFICES ASSUME NEW s \in Sessions PROVE turns'[s] \in [DOMAIN turns'[s] -> TurnTokens]
  BY DEF TurnsAreTables
<1>1. CASE turns'[s] = turns[s]
  BY <1>1 DEF TurnsAreTables
<1>2. ASSUME NEW turn \in Nat, NEW tokens \in TurnTokens, AddsTurn(s, turn, tokens)
      PROVE  turns'[s] \in [DOMAIN turns'[s] -> TurnTokens]
  BY <1>2 DEF TurnsAreTables, AddsTurn
<1> QED
  BY <1>1, <1>2, TurnsGrowByOne

\* The turns of a session are the terms of a sum of natural numbers.
LEMMA SpentType ==
  ASSUME TurnsAreTables, NEW s \in Sessions, NEW n \in Nat, DOMAIN turns[s] = 0 .. n - 1
  PROVE  turns[s] \in [0 .. n - 1 -> Nat] /\ Spent(s) \in Nat
<1>1. turns[s] \in [0 .. n - 1 -> Nat]
  BY NumbersAssumption DEF TurnsAreTables
<1>2. IsFiniteSet(0 .. n - 1)
  BY FS_Interval
<1> QED
  BY <1>1, <1>2, SumOfNaturals DEF Spent

\* A session with turns has a budget.
LEMMA TurnsHaveBudget ==
  ASSUME Contiguous, TurnsAreTables, NEW s \in Sessions, turns[s] # NoTurns
  PROVE  budgets[s] # NoBudget
<1>1. PICK n \in Nat : DOMAIN turns[s] = 0 .. n - 1 /\ n <= budgets[s].max_turns
  BY DEF Contiguous
<1>2. n # 0
  BY <1>1 DEF TurnsAreTables, NoTurns
<1> QED
  BY <1>1, <1>2 DEF NoBudget

\* No statement takes a session back below its hard limit, or makes a turn
\* that cannot be read one that can.
LEMMA OverStaysOver ==
  ASSUME TypeOK, Contiguous, TurnsAreTables, LedgerStep, NEW s \in Sessions
  PROVE  /\ budgets[s] # NoBudget => budgets'[s] = budgets[s]
         /\ Readable(s)' => Readable(s)
         /\ IsOver(s) => IsOver(s)'
<1>1. budgets[s] # NoBudget => budgets'[s] = budgets[s]
  BY DEF LedgerStep, ledger, InsertBudget, InsertTelemetry, InsertEvent, TypeOK
<1>2. PICK n \in Nat : DOMAIN turns[s] = 0 .. n - 1
  BY DEF Contiguous
<1>3. turns[s] \in [0 .. n - 1 -> Nat] /\ Spent(s) \in Nat
  BY <1>2, SpentType
<1>4. CASE turns'[s] = turns[s]
  BY <1>1, <1>4 DEF IsOver, Readable, Spent
<1>5. ASSUME NEW turn \in Nat, NEW tokens \in TurnTokens, AddsTurn(s, turn, tokens)
      PROVE  (Readable(s)' => Readable(s)) /\ (IsOver(s) => IsOver(s)')
  <2> DEFINE f == turns'[s]
  <2>0. f = [i \in (0 .. n - 1) \cup {n} |-> IF i = n THEN tokens ELSE turns[s][i]]
    BY <1>2, <1>5, CountIs DEF AddsTurn
  <2>1. /\ DOMAIN f = 0 .. n /\ f[n] = tokens /\ tokens \in Nat
        /\ \A i \in 0 .. n - 1 : f[i] = turns[s][i] /\ f[i] \in Nat
    BY <1>3, <2>0, NumbersAssumption
  <2>2. f = [i \in 0 .. n |-> f[i]]
    BY <2>0, <2>1
  <2>3. [i \in 0 .. n - 1 |-> f[i]] = turns[s]
    BY <1>3, <2>1
  <2>4. IsFiniteSet(0 .. n)
    BY FS_Interval
  <2>5. (Spent(s))' = SumFunction(f)
    BY DEF Spent
  <2> HIDE DEF f
  <2>6. Terms(f, 0 .. n)
    <3>1. \A i \in 0 .. n : f[i] \in Int
      BY <2>1
    <3> QED
      BY <2>2, <2>4, <3>1 DEF Terms
  <2>7. 0 \in Int /\ n \in Int /\ 0 <= n
    OBVIOUS
  <2>8. SumFunction(f) = SumFunction([i \in 0 .. n - 1 |-> f[i]]) + f[n]
    BY <2>6, <2>7, SumToTheLast
  <2>9. SumFunction(f) = Spent(s) + tokens
    BY <2>1, <2>3, <2>8 DEF Spent
  <2>10. Readable(s)' => Readable(s)
    BY <1>2, <2>1 DEF Readable, f
  <2>11. ASSUME IsOver(s) PROVE IsOver(s)'
    <3>1. turns'[s] # NoTurns
      BY <2>1 DEF NoTurns, f
    <3>2. budgets'[s] = budgets[s] /\ budgets[s].hard \in Nat
      BY <1>1, <2>11, BudgetsAssumption DEF IsOver, TypeOK
    <3>3. Spent(s) > budgets[s].hard
      BY <2>11 DEF IsOver
    <3>4. Spent(s)' > budgets[s].hard
      BY <1>3, <2>1, <2>5, <2>9, <3>2, <3>3
    <3>5. budgets'[s] # NoBudget
      BY <2>11, <3>2 DEF IsOver
    <3> QED
      BY <3>1, <3>2, <3>4, <3>5 DEF IsOver
  <2> QED
    BY <2>10, <2>11
<1> QED
  BY <1>1, <1>4, <1>5, TurnsGrowByOne

\* What the breaker observes of the stored turns is what was spent, so it
\* halts a session that is over its hard limit.
LEMMA OverIsHalted ==
  ASSUME TypeOK, Contiguous, TurnsAreTables, NEW s \in Sessions, IsOver(s)
  PROVE  Decide(budgets[s], StoredHistory(s), HORIZON_TURNS) = "EMERGENCY_HALT"
<1>1. PICK n \in Nat : DOMAIN turns[s] = 0 .. n - 1
  BY DEF Contiguous
<1>2. turns[s] \in [0 .. n - 1 -> Nat] /\ Count(s) = n
  BY <1>1, SpentType, CountIs
<1>3. Tokens(StoredHistory(s)) = [i \in 1 .. n |-> turns[s][i - 1]]
  BY <1>2 DEF Tokens, StoredHistory
<1>4. turns[s] \in [0 .. n - 1 -> Int]
  BY <1>2
<1>5. SumFunction([i \in 1 .. n |-> turns[s][i - 1]]) = SumFunction(turns[s])
  BY <1>4, SumShifted
<1>6. Observed(StoredHistory(s)) = Spent(s)
  BY <1>3, <1>5 DEF Observed, Spent
<1> QED
  BY <1>6 DEF IsOver, Decide

\* A call that its thread leaves alone still knows it.
LEMMA OverSoundKept ==
  ASSUME TypeOK, Contiguous, TurnsAreTables, LedgerStep, NEW p \in Procs, OverSound(call[p]),
         call'[p] = call[p]
  PROVE  OverSound(call[p])'
<1>1. CASE call[p] \in Resolutions \cup Enforcements
  <2>1. call[p].session \in Sessions
    BY <1>1 DEF Resolutions, Enforcements
  <2> QED
    BY <2>1, OverStaysOver DEF OverSound, IsOver
<1>2. CASE call[p] \in Charges \cup {Idle}
  BY <1>2 DEF OverSound, Charges, Idle
<1> QED
  BY <1>1, <1>2 DEF TypeOK, Calls

LEMMA OverIdle ==
  ASSUME NEW p \in Procs, call'[p] = Idle \/ call'[p] \in Charges
  PROVE  OverSound(call[p])'
BY DEF OverSound, Charges, Idle

LEMMA OverResolved ==
  ASSUME TypeOK, NEW p \in Procs, NEW c \in Resolutions, Resolved(p, c),
         c.began = "over" /\ c.served /\ Readable(c.session)' => c.decision = "EMERGENCY_HALT"
  PROVE  OverSound(call[p])'
<1>1. PICK pc \in {"answer", "enforce_budget"} :
         call'[p] = [c EXCEPT !.pc = pc, !.budget = NoBudget]
  BY DEF Resolved, Become, TypeOK
<1>2. /\ call'[p].pc = pc /\ call'[p].began = c.began /\ call'[p].session = c.session
      /\ call'[p].served = c.served /\ call'[p].decision = c.decision
  BY <1>1 DEF Resolutions
<1>3. Readable(call[p].session)' <=> Readable(c.session)'
  BY <1>2 DEF Readable
<1> QED
  BY <1>2, <1>3 DEF OverSound

\* So does a thread that records its decision, or gives up doing so.
LEMMA OverEnforcement ==
  ASSUME TypeOK, Contiguous, TurnsAreTables, LedgerStep, NEW p \in Procs,
         call[p] \in Enforcements, OverSound(call[p]),
         NEW pc \in {"enforce_create", "enforce_latest", "enforce_record", "answer"},
         \/ Goto(p, pc)
         \/ Become(p, [call[p] EXCEPT !.pc = "answer", !.served = FALSE])
  PROVE  OverSound(call[p])'
<1>0. call \in [Procs -> Calls]
  BY DEF TypeOK
<1>1. CASE Goto(p, pc)
  <2>1. /\ call'[p].pc = pc /\ call'[p].session = call[p].session
        /\ call'[p].began = call[p].began /\ call'[p].served = call[p].served
        /\ call'[p].decision = call[p].decision
    BY <1>0, <1>1 DEF Goto, Enforcements
  <2>2. PICK s \in Sessions : s = call[p].session
    BY DEF Enforcements
  <2>3. Readable(s)' => Readable(s)
    BY OverStaysOver
  <2>4. /\ Readable(call[p].session)' => Readable(call[p].session)
        /\ call[p].pc \in {"enforce_budget", "enforce_create", "enforce_latest", "enforce_record"}
    BY <2>1, <2>2, <2>3 DEF Readable, Enforcements
  <2> QED
    BY <2>1, <2>4 DEF OverSound
<1>2. CASE Become(p, [call[p] EXCEPT !.pc = "answer", !.served = FALSE])
  <2>1. call'[p] = [call[p] EXCEPT !.pc = "answer", !.served = FALSE]
    BY <1>0, <1>2 DEF Become
  <2>2. call'[p].pc = "answer" /\ ~call'[p].served
    BY <2>1 DEF Enforcements
  <2> QED
    BY <2>2 DEF OverSound
<1> QED
  BY <1>1, <1>2

\* A thread's own step leaves it with what a resolution over the limit knows.
LEMMA OverStep ==
  ASSUME IInv, OverInv, [Next]_vars, NEW p \in Procs
  PROVE  OverSound(call[p])'
<1>0. /\ TypeOK /\ Contiguous /\ TurnsAreTables /\ LedgerStep
      /\ OverSound(call[p])
      /\ call \in [Procs -> Calls]
  BY WhoWrites DEF IInv, OverInv, TypeOK
<1>1. CASE call'[p] = call[p]
  BY <1>0, <1>1, OverSoundKept
<1>a. ASSUME NEW s \in Sessions, UNCHANGED ledger PROVE Readable(s)' <=> Readable(s)
  BY <1>a DEF Readable, ledger
<1>2. ASSUME NEW s \in Sessions, NEW supplied \in DecisionKinds \cup {"none"},
             BuildContext(p, s, supplied)
      PROVE  OverSound(call[p])'
  <2> DEFINE c == Resolution(s, supplied)
  <2>1. c \in Resolutions
    BY NewCallType
  <2>2. CASE supplied = "none"
    <3>1. call'[p] = c
      BY <1>0, <1>2, <2>2 DEF BuildContext, Become
    <3>2. c.began = "over" => IsOver(s)
      BY <1>0, TurnsHaveBudget DEF Resolution, Begun, IsOver
    <3>3. c.session = s /\ c.pc = "read_budget"
      BY DEF Resolution
    <3>4. IsOver(s) => IsOver(s)'
      BY <1>0, OverStaysOver
    <3> HIDE DEF c
    <3> QED
      BY <3>1, <3>2, <3>3, <3>4 DEF OverSound, IsOver, Spent
  <2>3. CASE supplied # "none"
    <3>1. c.began = "supplied"
      BY <2>3 DEF Resolution, Begun
    <3>2. Resolved(p, c)
      BY <1>2, <2>3 DEF BuildContext
    <3> QED
      BY <1>0, <2>1, <3>1, <3>2, OverResolved
  <2> QED
    BY <2>2, <2>3
<1>3. ASSUME NEW s \in Sessions, NEW decision \in DecisionKinds, BuildWithBudget(p, s, decision)
      PROVE  OverSound(call[p])'
  <2> DEFINE c == Resolution(s, decision)
  <2>1. c \in Resolutions /\ c.began = "supplied"
    BY NewCallType DEF Resolution, Begun, DecisionKinds
  <2>2. [c EXCEPT !.served = FALSE] \in Resolutions /\ [c EXCEPT !.served = FALSE].began = "supplied"
    BY <2>1 DEF Resolutions
  <2>3. Resolved(p, c) \/ Resolved(p, [c EXCEPT !.served = FALSE])
    BY <1>3 DEF BuildWithBudget
  <2> QED
    BY <1>0, <2>1, <2>2, <2>3, OverResolved
<1>4. CASE ReadBudget(p)
  <2>1. call[p] \in Resolutions /\ call[p].pc = "read_budget"
    BY <1>0, <1>4, KindOfCall DEF ReadBudget, At
  <2>2. call'[p] = [call[p] EXCEPT !.pc = "read_turns", !.budget = budgets[call[p].session]]
    BY <1>0, <1>4 DEF ReadBudget, Become
  <2>3. PICK s \in Sessions : s = call[p].session
    BY <2>1 DEF Resolutions
  <2>4. /\ call'[p].pc = "read_turns" /\ call'[p].session = s
        /\ call'[p].began = call[p].began /\ call'[p].budget = budgets[s]
    BY <2>1, <2>2, <2>3 DEF Resolutions
  <2>5. call[p].began = "over" => IsOver(s)
    BY <1>0, <2>1, <2>3 DEF OverSound
  <2>6. IsOver(s) => IsOver(s)'
    BY <1>0, OverStaysOver
  <2>7. budgets' = budgets
    BY <1>4 DEF ReadBudget, ledger
  <2> QED
    BY <2>4, <2>5, <2>6, <2>7 DEF OverSound, IsOver, Spent
<1>5. CASE ReadTurns(p)
  <2> DEFINE c == call[p]
  <2>1. c \in Resolutions /\ c.pc = "read_turns"
    BY <1>0, <1>5, KindOfCall DEF ReadTurns, At
  <2>2. PICK s \in Sessions : s = c.session
    BY <2>1 DEF Resolutions
  <2>3. c.began = "over" => IsOver(s) /\ c.budget = budgets[s]
    BY <1>0, <2>1, <2>2 DEF OverSound
  <2>4. CASE /\ c.budget = NoBudget \/ turns[s] = NoTurns
             /\ Become(p, [c EXCEPT !.pc = "read_events", !.budget = NoBudget])
    <3>1. call'[p] = [c EXCEPT !.pc = "read_events", !.budget = NoBudget]
      BY <1>0, <2>4 DEF Become
    <3>2. call'[p].pc = "read_events" /\ call'[p].began = c.began
      BY <2>1, <3>1 DEF Resolutions
    <3>3. c.began # "over"
      BY <2>3, <2>4 DEF IsOver
    <3> QED
      BY <3>2, <3>3 DEF OverSound
  <2>5. ASSUME NEW d \in DecisionKinds \cup {"none"},
               Resolved(p, [c EXCEPT !.decision = d]),
               c.began = "over" /\ Readable(s) => d = "EMERGENCY_HALT"
        PROVE  OverSound(call[p])'
    <3>1. PICK r \in Resolutions : r = [c EXCEPT !.decision = d]
      BY <2>1 DEF Resolutions
    <3>2. r.began = c.began /\ r.decision = d /\ r.session = s
      BY <2>1, <2>2, <3>1 DEF Resolutions
    <3>3. Readable(r.session)' => Readable(s)
      BY <1>0, <3>2, OverStaysOver DEF Readable
    <3> QED
      BY <1>0, <2>5, <3>1, <3>2, <3>3, OverResolved
  <2>6. PICK d : d = IF Readable(s) THEN Decide(c.budget, StoredHistory(s), HORIZON_TURNS)
                     ELSE "none"
    OBVIOUS
  <2>7. d \in DecisionKinds \cup {"none"}
    BY <2>6, DecideType
  <2>8. c.began = "over" /\ Readable(s) => d = "EMERGENCY_HALT"
    BY <1>0, <2>3, <2>6, OverIsHalted
  <2>9. \/ /\ c.budget = NoBudget \/ turns[s] = NoTurns
           /\ Become(p, [c EXCEPT !.pc = "read_events", !.budget = NoBudget])
        \/ Resolved(p, [c EXCEPT !.decision = d])
    BY <1>5, <2>2, <2>6 DEF ReadTurns
  <2> QED
    BY <2>4, <2>5, <2>7, <2>8, <2>9
<1>6. CASE ReadEvents(p)
  <2> DEFINE c == call[p]
             seen == events[c.session]
             d == IF Len(seen) = 0 THEN "none" ELSE seen[Len(seen)]
  <2>1. c \in Resolutions /\ c.session \in Sessions /\ c.began # "over"
    BY <1>0, <1>6, KindOfCall DEF ReadEvents, At, OverSound
  <2>2. seen \in Seq(DecisionKinds)
    BY <1>0, <2>1 DEF TypeOK
  <2>4. d \in DecisionKinds \cup {"none"}
    BY <2>2
  <2>5. Resolved(p, [c EXCEPT !.decision = d])
    BY <1>6 DEF ReadEvents
  <2> HIDE DEF d
  <2>6. /\ [c EXCEPT !.decision = d] \in Resolutions
        /\ [c EXCEPT !.decision = d].began = c.began
    BY <2>1, <2>4 DEF Resolutions
  <2> QED
    BY <1>0, <2>1, <2>5, <2>6, OverResolved
<1>7. CASE EnforceBudget(p) \/ EnforceCreate(p) \/ EnforceLatest(p) \/ EnforceRecord(p)
  <2>1. call[p] \in Enforcements
    BY <1>0, <1>7, KindOfCall DEF EnforceBudget, EnforceCreate, EnforceLatest, EnforceRecord, At
  <2>2. \/ \E pc \in {"enforce_create", "enforce_latest", "enforce_record", "answer"} : Goto(p, pc)
        \/ Become(p, [call[p] EXCEPT !.pc = "answer", !.served = FALSE])
    BY <1>7 DEF EnforceBudget, EnforceCreate, EnforceLatest, EnforceRecord
  <2> QED
    BY <1>0, <2>1, <2>2, OverEnforcement
<1>8. CASE ChargeBudget(p) \/ ChargeCreate(p) \/ ChargeTurns(p) \/ ChargeInsert(p)
  <2>1. call[p] \in Charges
    BY <1>0, <1>8, KindOfCall DEF ChargeBudget, ChargeCreate, ChargeTurns, ChargeInsert, At
  <2>2. call'[p] \in Calls
    BY <1>0, CallsType
  <2>3. call'[p] = Idle \/ call'[p].pc \in {"charge_create", "charge_turns", "charge_insert"}
    BY <1>0, <1>8, <2>1 DEF ChargeBudget, ChargeCreate, ChargeTurns, ChargeInsert, Goto, Become,
                            Charges
  <2>4. call'[p] = Idle \/ call'[p] \in Charges
    BY <2>2, <2>3 DEF Calls, Resolutions, Enforcements
  <2> QED
    BY <2>4, OverIdle
<1>9. CASE Answer(p) \/ Crash(p)
  <2>1. call'[p] = Idle \/ call'[p] \in Charges
    BY <1>0, <1>9, SessionsAssumption DEF Answer, Crash, Become, Charge, Charges
  <2> QED
    BY <2>1, OverIdle
<1>10. ASSUME NEW client \in Clients, CallTool(p, client)
       PROVE  OverSound(call[p])'
  <2>1. call'[p] \in Charges
    BY <1>0, <1>10, SessionsAssumption DEF CallTool, Become, Charge, Charges
  <2> QED
    BY <2>1, OverIdle
<1>11. CASE Locked(p)
  <2>1. \/ call'[p] = Idle
        \/ /\ call[p] \in Resolutions
           /\ call'[p] = [call[p] EXCEPT !.pc = "answer", !.budget = NoBudget, !.served = FALSE]
        \/ /\ call[p] \in Enforcements
           /\ call'[p] = [call[p] EXCEPT !.pc = "answer", !.served = FALSE]
    BY <1>0, <1>11, KindOfCall DEF Locked, Become
  <2>2. call'[p] = Idle \/ (call'[p].pc = "answer" /\ ~call'[p].served)
    BY <2>1 DEF Resolutions, Enforcements
  <2> QED
    BY <2>2, OverIdle DEF OverSound
<1> QED
  BY <1>0, <1>1, <1>2, <1>3, <1>4, <1>5, <1>6, <1>7, <1>8, <1>9, <1>10, <1>11, OwnStep DEF Advance

\* A session that was over its hard limit when the engine was asked is
\* contained, whatever other threads record between the reads.
THEOREM OverHardStaysContained == Spec => []OverHardIsContained
<1>1. Init => OverInv
  <2> SUFFICES ASSUME Init PROVE OverInv
    OBVIOUS
  <2>1. TurnsAreTables
    BY DEF Init, TurnsAreTables, NoTurns
  <2>2. ASSUME NEW p \in Procs PROVE OverSound(call[p])
    BY DEF Init, OverSound, Idle
  <2> QED
    BY <2>1, <2>2 DEF OverInv
<1>2. IInv /\ OverInv /\ [Next]_vars => OverInv'
  <2> SUFFICES ASSUME IInv, OverInv, [Next]_vars PROVE OverInv'
    OBVIOUS
  <2>1. TurnsAreTables'
    BY WhoWrites, TablesStep DEF IInv, OverInv
  <2> QED
    BY <2>1, OverStep DEF OverInv
<1>3. OverInv => OverHardIsContained
  BY DEF OverInv, OverSound, OverHardIsContained, At, Bundle
<1> QED
  BY <1>1, <1>2, <1>3, Invariant, PTL DEF Spec

=============================================================================
