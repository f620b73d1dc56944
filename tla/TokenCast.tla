----------------------------- MODULE TokenCast -----------------------------
(***************************************************************************)
(* TokenCast at run time: the append-only ledger of session budgets, turns *)
(* and enforcement events (budget/store.py, budget/schema.sql) and the two *)
(* users of it that race: the MCP server's shadow audit, which charges     *)
(* every tool call to the ledger (mcp.py), and the context engine, which   *)
(* asks the circuit breaker before it builds a bundle and records what it  *)
(* decided (core/topological.py).                                          *)
(*                                                                         *)
(* Each statement is its own transaction, so the read and the write of a   *)
(* check-then-act pair are separate steps, and the exception of a refused  *)
(* write is swallowed by both users.                                       *)
(***************************************************************************)
EXTENDS Forecast, FiniteSets

CONSTANTS
    Procs,            \* threads and processes, each with a connection
    Sessions,         \* the session ids of the ledger
    Clients,          \* the session ids MCP clients name
    Charged,          \* client -> the session its calls are charged to: SES-tc-<id>
    TurnTokens,       \* token counts of a turn
    TURN_TOKENS_MAX,  \* largest prompt the breaker's DTO accepts
    ShadowBudget,     \* the budget the shadow audit creates
    EngineBudget,     \* the budget the engine creates for a session without one
    SHADOW_TURNS,     \* turns the shadow audit records per session: 1000
    HORIZON_TURNS,    \* decide's default horizon: 4
    MaxEvents         \* bound: no call begins on a session with this many events

Budgets == {ShadowBudget, EngineBudget}

ASSUME SessionsAssumption == Clients \subseteq Sessions /\ Charged \in [Clients -> Sessions]
ASSUME BudgetsAssumption ==
    \A b \in Budgets :
        /\ DOMAIN b = {"soft", "hard", "max_turns"}
        /\ b.soft \in Nat /\ b.hard \in Nat /\ b.max_turns \in Nat \ {0}
        /\ b.soft <= b.hard
ASSUME ShadowAssumption == ShadowBudget.max_turns = SHADOW_TURNS
ASSUME NumbersAssumption ==
    /\ TurnTokens \subseteq Nat
    /\ TURN_TOKENS_MAX \in Nat /\ SHADOW_TURNS \in Nat
    /\ HORIZON_TURNS \in Nat \ {0} /\ MaxEvents \in Nat

VARIABLES
    budgets,  \* table tokencast_session_budgets
    turns,    \* table tokencast_turn_telemetry: session -> turn_index -> tokens_used
    events,   \* table tokencast_enforcement_events: session -> decisions, by rowid
    call      \* what each thread is doing

ledger == <<budgets, turns, events>>
vars == <<budgets, turns, events, call>>

NoBudget == [soft |-> 0, hard |-> 0, max_turns |-> 0]
NoTurns == [i \in {} |-> 0]

Count(s) == Cardinality(DOMAIN turns[s])
Spent(s) == SumFunction(turns[s])
Halted(s) == \E i \in DOMAIN events[s] : events[s][i] = "EMERGENCY_HALT"

-----------------------------------------------------------------------------
(* What the DDL refuses: keys and checks, then the triggers.               *)

\* Faulty variants: a trigger is missing.
TurnRefusedNoSequence(s, turn) ==
    \/ budgets[s] = NoBudget
    \/ turn \in DOMAIN turns[s]
    \/ turn >= budgets[s].max_turns
    \/ Halted(s)
TurnRefusedNoLatch(s, turn) ==
    \/ budgets[s] = NoBudget
    \/ turn # Count(s)
    \/ turn >= budgets[s].max_turns

\* INSERT INTO tokencast_turn_telemetry
TurnRefused(s, turn) ==
    \/ budgets[s] = NoBudget
    \/ turn # Count(s)
    \/ turn >= budgets[s].max_turns
    \/ Halted(s)

\* Faulty variant: the latch trigger on events is missing.
EventRefusedNoLatch(s, decision) == budgets[s] = NoBudget

\* INSERT INTO tokencast_enforcement_events
EventRefused(s, decision) ==
    \/ budgets[s] = NoBudget
    \/ decision # "EMERGENCY_HALT" /\ Halted(s)

-----------------------------------------------------------------------------
(* Calls.  A resolution carries the session, what it read so far (the       *)
(* budget; the decision, "none" while the breaker is silent) and, as        *)
(* history, how it began and whether the ledger served it throughout.       *)

Idle == [pc |-> "idle"]

At(p, pc) == call[p].pc = pc
Become(p, c) == call' = [call EXCEPT ![p] = c]
Goto(p, pc) == call' = [call EXCEPT ![p].pc = pc]

\* How a resolution begins: with a state supplied by the caller, or on a
\* session that is over its hard limit, halted before its first turn, or free.
Begun(s, supplied) ==
    IF supplied # "none" THEN "supplied"
    ELSE IF turns[s] # NoTurns /\ Spent(s) > budgets[s].hard THEN "over"
    ELSE IF turns[s] = NoTurns /\ Halted(s) THEN "halted"
    ELSE "free"

Resolution(s, supplied) ==
    [pc |-> "read_budget", session |-> s, budget |-> NoBudget, decision |-> supplied,
     began |-> Begun(s, supplied), served |-> TRUE]

Charge(s) == [pc |-> "charge_budget", session |-> s, turn |-> 0]

Bundle(decision) ==
    CASE decision = "EMERGENCY_HALT" -> "containment"
      [] decision = "FORCE_D3_PRUNING" -> "pruned"
      [] OTHER -> "full"

Init ==
    /\ budgets = [s \in Sessions |-> NoBudget]
    /\ turns = [s \in Sessions |-> NoTurns]
    /\ events = [s \in Sessions |-> <<>>]
    /\ call = [p \in Procs |-> Idle]

-----------------------------------------------------------------------------
(* The store's API, called by an embedding program.                        *)

CreateBudget(p, s, b) ==
    /\ At(p, "idle")
    /\ budgets[s] = NoBudget
    /\ budgets' = [budgets EXCEPT ![s] = b]
    /\ UNCHANGED <<turns, events, call>>

InsertTurn(s, turn, tokens) ==
    turns' = [turns EXCEPT ![s] =
        [i \in DOMAIN @ \cup {turn} |-> IF i = turn THEN tokens ELSE @[i]]]

\* record_turn_telemetry
RecordTurn(p, s, turn, tokens) ==
    /\ At(p, "idle")
    /\ ~TurnRefused(s, turn)
    /\ InsertTurn(s, turn, tokens)
    /\ UNCHANGED <<budgets, events, call>>

-----------------------------------------------------------------------------
(* build_context, up to the bundle: the breaker is asked unless the caller  *)
(* supplied its state.                                                      *)

\* Faulty variant: the breaker's own name of the decision is kept instead.
ResolvedByName(p, c) ==
    IF Bundle(c.decision) = "full"
    THEN Become(p, [c EXCEPT !.pc = "answer", !.budget = NoBudget])
    ELSE Become(p, [c EXCEPT !.pc = "enforce_budget", !.budget = NoBudget,
                             !.decision = IF @ = "EMERGENCY_HALT" THEN "HALTED" ELSE "TRIPPED"])

\* The engine goes on with what the resolution found; only a decision that is
\* not CONTINUE is enforced, and enforcing starts with the budget row.
Resolved(p, c) ==
    IF Bundle(c.decision) = "full"
    THEN Become(p, [c EXCEPT !.pc = "answer", !.budget = NoBudget])
    ELSE Become(p, [c EXCEPT !.pc = "enforce_budget", !.budget = NoBudget])

\* resolve_context_bundle of an MCP client, build_context of an embedding
\* program; supplied = "none" asks the ledger.
BuildContext(p, s, supplied) ==
    /\ At(p, "idle")
    /\ Len(events[s]) < MaxEvents
    /\ IF supplied = "none" THEN Become(p, Resolution(s, supplied))
       ELSE Resolved(p, Resolution(s, supplied))
    /\ UNCHANGED ledger

\* build_context_with_budget: the decision, over a history the caller holds, is
\* recorded (a refusal or a locked database is swallowed) and then supplied.
BuildWithBudget(p, s, decision) ==
    LET c == Resolution(s, decision) IN
    /\ At(p, "idle")
    /\ Len(events[s]) < MaxEvents
    /\ \/ /\ ~EventRefused(s, decision)
          /\ events' = [events EXCEPT ![s] = Append(@, decision)]
          /\ Resolved(p, c)
       \/ /\ EventRefused(s, decision)
          /\ Resolved(p, c)
          /\ UNCHANGED events
       \/ /\ Resolved(p, [c EXCEPT !.served = FALSE])
          /\ UNCHANGED events
    /\ UNCHANGED <<budgets, turns>>

ReadBudget(p) ==
    /\ At(p, "read_budget")
    /\ Become(p, [call[p] EXCEPT !.pc = "read_turns", !.budget = budgets[call[p].session]])
    /\ UNCHANGED ledger

\* The history the engine makes of the stored turns: all tokens are prompt.
StoredHistory(s) == [i \in 1 .. Count(s) |-> [prompt |-> turns[s][i - 1], completion |-> 0]]

\* A turn the DTO rejects raises, and the exception leaves the breaker silent.
Readable(s) == \A i \in DOMAIN turns[s] : turns[s][i] <= TURN_TOKENS_MAX

ReadTurns(p) ==
    LET c == call[p]
        s == c.session
    IN
    /\ At(p, "read_turns")
    /\ \/ /\ c.budget = NoBudget \/ turns[s] = NoTurns
          /\ Become(p, [c EXCEPT !.pc = "read_events", !.budget = NoBudget])
       \/ /\ c.budget # NoBudget /\ turns[s] # NoTurns
          /\ Resolved(p, [c EXCEPT !.decision =
                IF Readable(s) THEN Decide(c.budget, StoredHistory(s), HORIZON_TURNS) ELSE "none"])
    /\ UNCHANGED ledger

ReadEvents(p) ==
    LET c == call[p]
        n == Len(events[c.session])
    IN
    /\ At(p, "read_events")
    /\ Resolved(p, [c EXCEPT !.decision = IF n = 0 THEN "none" ELSE events[c.session][n]])
    /\ UNCHANGED ledger

\* Recording the decision: create the budget when it is missing, and append the
\* decision unless it is the latest event already.
EnforceBudget(p) ==
    /\ At(p, "enforce_budget")
    /\ Goto(p, IF budgets[call[p].session] = NoBudget THEN "enforce_create" ELSE "enforce_latest")
    /\ UNCHANGED ledger

\* The loser of two concurrent INSERTs gets an IntegrityError and skips the rest.
EnforceCreate(p) ==
    LET s == call[p].session IN
    /\ At(p, "enforce_create")
    /\ \/ /\ budgets[s] = NoBudget
          /\ budgets' = [budgets EXCEPT ![s] = EngineBudget]
          /\ Goto(p, "enforce_latest")
       \/ /\ budgets[s] # NoBudget
          /\ Become(p, [call[p] EXCEPT !.pc = "answer", !.served = FALSE])
          /\ UNCHANGED budgets
    /\ UNCHANGED <<turns, events>>

\* Faulty variant: any latest event will do.
EnforceLatestAny(p) ==
    /\ At(p, "enforce_latest")
    /\ Goto(p, IF events[call[p].session] # <<>> THEN "answer" ELSE "enforce_record")
    /\ UNCHANGED ledger

EnforceLatest(p) ==
    LET seen == events[call[p].session] IN
    /\ At(p, "enforce_latest")
    /\ Goto(p, IF seen # <<>> /\ seen[Len(seen)] = call[p].decision
               THEN "answer" ELSE "enforce_record")
    /\ UNCHANGED ledger

\* record_enforcement_decision, whose refusal is swallowed
EnforceRecord(p) ==
    LET c == call[p] IN
    /\ At(p, "enforce_record")
    /\ events' = IF EventRefused(c.session, c.decision) THEN events
                 ELSE [events EXCEPT ![c.session] = Append(@, c.decision)]
    /\ Goto(p, "answer")
    /\ UNCHANGED <<budgets, turns>>

\* The bundle is returned; a call of an MCP client is then charged, unless SARA
\* quarantined the bundle.
Answer(p) ==
    LET s == call[p].session IN
    /\ At(p, "answer")
    /\ \/ Become(p, Idle)
       \/ s \in Clients /\ Become(p, Charge(Charged[s]))
    /\ UNCHANGED ledger

-----------------------------------------------------------------------------
(* _record_shadow_audit: the charge of a tool call.                         *)

CallTool(p, c) ==
    /\ At(p, "idle")
    /\ Become(p, Charge(Charged[c]))
    /\ UNCHANGED ledger

ChargeBudget(p) ==
    /\ At(p, "charge_budget")
    /\ Goto(p, IF budgets[call[p].session] = NoBudget THEN "charge_create" ELSE "charge_turns")
    /\ UNCHANGED ledger

ChargeCreate(p) ==
    LET s == call[p].session IN
    /\ At(p, "charge_create")
    /\ \/ /\ budgets[s] = NoBudget
          /\ budgets' = [budgets EXCEPT ![s] = ShadowBudget]
          /\ Goto(p, "charge_turns")
       \/ /\ budgets[s] # NoBudget
          /\ Become(p, Idle)
          /\ UNCHANGED budgets
    /\ UNCHANGED <<turns, events>>

\* Faulty variant: the turns are counted from one.
ChargeTurnsFromOne(p) ==
    /\ At(p, "charge_turns")
    /\ Become(p, [call[p] EXCEPT !.pc = "charge_insert", !.turn = Count(call[p].session) + 1])
    /\ UNCHANGED ledger

ChargeTurns(p) ==
    LET n == Count(call[p].session) IN
    /\ At(p, "charge_turns")
    /\ \/ /\ n < SHADOW_TURNS
          /\ Become(p, [call[p] EXCEPT !.pc = "charge_insert", !.turn = n])
       \/ /\ n >= SHADOW_TURNS
          /\ Become(p, Idle)
    /\ UNCHANGED ledger

\* The estimate is clamped to 200,000 tokens, well within the DTO's limit.
ChargedTokens == {tokens \in TurnTokens : tokens <= TURN_TOKENS_MAX}

\* record_turn_telemetry of the turn computed from the earlier read; a refusal
\* is swallowed.
ChargeInsert(p) ==
    LET c == call[p] IN
    /\ At(p, "charge_insert")
    /\ \/ /\ TurnRefused(c.session, c.turn)
          /\ UNCHANGED turns
       \/ /\ ~TurnRefused(c.session, c.turn)
          /\ \E tokens \in ChargedTokens : InsertTurn(c.session, c.turn, tokens)
    /\ Become(p, Idle)
    /\ UNCHANGED <<budgets, events>>

-----------------------------------------------------------------------------
(* _execute_with_retry gives up: the database stayed locked.  Every caller  *)
(* swallows the exception and goes on without the ledger.                   *)

Locked(p) ==
    LET c == call[p] IN
    /\ \/ /\ c.pc \in {"read_budget", "read_turns", "read_events"}
          /\ Become(p, [c EXCEPT !.pc = "answer", !.budget = NoBudget, !.served = FALSE])
       \/ /\ c.pc \in {"enforce_budget", "enforce_create", "enforce_latest", "enforce_record"}
          /\ Become(p, [c EXCEPT !.pc = "answer", !.served = FALSE])
       \/ /\ c.pc \in {"charge_budget", "charge_create", "charge_turns", "charge_insert"}
          /\ Become(p, Idle)
    /\ UNCHANGED ledger

Crash(p) ==
    /\ ~At(p, "idle")
    /\ Become(p, Idle)
    /\ UNCHANGED ledger

-----------------------------------------------------------------------------

Advance(p) ==
    \/ ReadBudget(p) \/ ReadTurns(p) \/ ReadEvents(p)
    \/ EnforceBudget(p) \/ EnforceCreate(p) \/ EnforceLatest(p) \/ EnforceRecord(p)
    \/ Answer(p)
    \/ ChargeBudget(p) \/ ChargeCreate(p) \/ ChargeTurns(p) \/ ChargeInsert(p)

Begin(p) ==
    \/ \E s \in Sessions, b \in Budgets : CreateBudget(p, s, b)
    \/ \E s \in Sessions, turn \in 0 .. EngineBudget.max_turns, tokens \in TurnTokens :
          RecordTurn(p, s, turn, tokens)
    \/ \E s \in Sessions, supplied \in DecisionKinds \cup {"none"} : BuildContext(p, s, supplied)
    \/ \E s \in Sessions, decision \in DecisionKinds : BuildWithBudget(p, s, decision)
    \/ \E c \in Clients : CallTool(p, c)

Next == \E p \in Procs : Begin(p) \/ Advance(p) \/ Locked(p) \/ Crash(p)

Spec == Init /\ [][Next]_vars

\* The MCP server on its own: no embedding program writes to its ledger and
\* clients never supply the breaker's state.
ServerNext ==
    \E p \in Procs :
       \/ \E c \in Clients : CallTool(p, c) \/ BuildContext(p, c, "none")
       \/ Advance(p)

ServerSpec == Init /\ [][ServerNext]_vars

-----------------------------------------------------------------------------
(* Properties *)

Begins == {"supplied", "over", "halted", "free"}

Resolutions ==
    [pc : {"read_budget", "read_turns", "read_events", "answer"}, session : Sessions,
     budget : Budgets \cup {NoBudget}, decision : DecisionKinds \cup {"none"},
     began : Begins, served : BOOLEAN]

Enforcements ==
    [pc : {"enforce_budget", "enforce_create", "enforce_latest", "enforce_record"},
     session : Sessions, budget : {NoBudget}, decision : DecisionKinds \ {"CONTINUE"},
     began : Begins, served : BOOLEAN]

Charges ==
    [pc : {"charge_budget", "charge_create", "charge_turns", "charge_insert"},
     session : Sessions, turn : Nat]

Calls == {Idle} \cup Resolutions \cup Enforcements \cup Charges

\* The types of the tables and of the calls in flight.
TypeOK ==
    /\ budgets \in [Sessions -> Budgets \cup {NoBudget}]
    /\ DOMAIN turns = Sessions
    /\ \A s \in Sessions : \A i \in DOMAIN turns[s] : i \in Nat /\ turns[s][i] \in TurnTokens
    /\ events \in [Sessions -> Seq(DecisionKinds)]
    /\ call \in [Procs -> Calls]

\* However many threads charge a session at once, its turns are numbered from
\* zero without a gap, stay within max_turns, and belong to a budget.
TurnsContiguous ==
    \A s \in Sessions :
        /\ DOMAIN turns[s] = 0 .. Count(s) - 1
        /\ Count(s) <= budgets[s].max_turns

\* Once EMERGENCY_HALT is recorded the session accepts no turn and no other
\* decision, not even from a call that read the ledger before the halt.
KeepsHalt ==
    \A s \in Sessions : Halted(s) =>
        /\ turns'[s] = turns[s]
        /\ Len(events'[s]) >= Len(events[s])
        /\ \A i \in DOMAIN events'[s] :
              IF i \in DOMAIN events[s] THEN events'[s][i] = events[s][i]
              ELSE events'[s][i] = "EMERGENCY_HALT"
HaltLatch == [][KeepsHalt]_vars

\* A session that was over its hard limit when the engine was asked gets the
\* containment bundle, whatever other threads record meanwhile; the breaker is
\* silent only when the database was locked or a turn is too large for its DTO.
OverHardIsContained ==
    \A p \in Procs :
        At(p, "answer") /\ call[p].began = "over" /\ call[p].served /\ Readable(call[p].session)
            => Bundle(call[p].decision) = "containment"

\* A session halted before it took a turn is contained ever after: no other
\* decision can become its latest event, and no turn can shadow its events.
HaltedWithoutTurnsIsContained ==
    \A p \in Procs :
        At(p, "answer") /\ call[p].began = "halted" /\ call[p].served
            => Bundle(call[p].decision) = "containment"

\* A containment bundle leaves an EMERGENCY_HALT behind, unless the database
\* was locked or another thread was creating the same budget row.
ContainmentIsRecorded ==
    \A p \in Procs :
        At(p, "answer") /\ call[p].served /\ Bundle(call[p].decision) = "containment"
            => Halted(call[p].session)

\* The turn of a charge is lost only to concurrency or a closed session: when
\* the ledger refuses it, another turn took its place, the session is halted,
\* or the budget somebody else created is smaller than the shadow audit's.  (A
\* call that finds no budget and then loses its creation to another one ends
\* in ChargeCreate, before it has a turn.)
ChargeLostOnlyToRace ==
    \A p \in Procs :
        At(p, "charge_insert") /\ TurnRefused(call[p].session, call[p].turn) =>
            LET s == call[p].session IN
            \/ Count(s) > call[p].turn
            \/ Halted(s)
            \/ budgets[s] # ShadowBudget /\ Count(s) = budgets[s].max_turns

\* The release notes say that when hard limits are breached "execution halts
\* fail-closed": a client whose calls are charged past the hard limit gets the
\* containment bundle.
HardLimitHaltsClient ==
    \A p \in Procs, c \in Clients :
        At(p, "answer") /\ call[p].session = c /\ call[p].began # "supplied" /\ call[p].served
          /\ budgets[Charged[c]] # NoBudget /\ Spent(Charged[c]) > budgets[Charged[c]].hard
            => Bundle(call[p].decision) = "containment"

=============================================================================
