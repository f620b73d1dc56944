# ctxfw in TLA+

`ctxfw` is a context firewall and MCP (Model Context Protocol) server for coding agents. Around
an AST pruner it keeps five append-only SQLite ledgers, a cache, a telemetry
outbox and some files it shares with editors. What is hard about it is not any
one function but that several processes (one server per editor, the CLI, the
proxy) share those files, that almost every write is best effort (its exception
is swallowed), and that the guarantees live in SQL triggers rather than in the
Python that relies on them. This directory specifies those guarantees.

Paths below are relative to `src/ctxfw/`.

## 1. Inventory of the system

| Component | State | Operations | Interacts with | Hard behaviour | Correct when |
|---|---|---|---|---|---|
| **TraceKit ledger** `audit/` | `tracekit.db`: sessions, hash-chained blocks, verification events | `record_step`, `append_digests`, `verify_session`, `load_blocks`, `latched_broken_seq` | shadow audit and `query_audit_ledger` of the server, context engine, CLI doctor | several writers, stamp taken before the transaction, WAL retries, crash, offline edits of the file | the chain of an unedited session is sound, edits are detected where they are, the tamper latch never opens again and never fires by itself |
| **TokenCast ledger** `budget/store.py`, `budget/schema.sql` | budgets, turns, enforcement events | `create_session_budget`, `record_turn_telemetry`, `record_enforcement_decision`, reads | shadow audit, context engine | check-then-insert from several threads; refusals swallowed | turns contiguous and within budget, a halt latches |
| **Forecaster, breaker** `budget/forecaster.py`, `budget/breaker.py` | none | `predict_token_trajectory`, `decide` | context engine | integer edges: one turn, last turn, horizon, precedence of limits | acts before a limit is passed; lower limits are never treated more mildly |
| **Context engine** `core/topological.py` | dependency graph per call | `build_context`, `build_context_with_budget`, BFS distances | TokenCast, TraceKit, cache | budget read in three statements, decision recorded later | an exhausted session is contained, and that is on record |
| **MCP server** `mcp.py` | sequence numbers, open stores | stdio loop, `dispatch`, `handle_tools_call`, `_record_shadow_audit`, `query_audit_ledger`, gates | everything | fail-silent hooks around a tool call; one exception path ends the loop | every call is answered, recorded and charged |
| **Rules** `rules/` | manifests, guards, enforcement log | `persist_manifest`, `enforce_and_log` | server | per-process log ids in a shared file, guards missing after a failed load | a blocked call is logged, guards in force are those on disk |
| **SARA** `sara/` | execution logs, payloads, quarantine | `audit_commit`, `audit_commit_fail_closed`, `authorize` | server | replay of an execution id, fallback after a failed commit | stored and returned verdict agree; quarantined means stored |
| **SWE-Gate** `swegate/` | repositories, evaluations | `register_repository`, `record_evaluation`, `evaluate_and_record` | server (`apply_patch`) | verdict reported although not stored | a patch said to be recorded is recorded |
| **Semantic cache** `storage/cache.py` | L1 per process, L2 SQLite | `get`, `set`, `get_d3_symbols_batch`, `set_d3_symbols_batch`, `attribute_project` | context engine | L1 filled before L2, stale L1 | a hit returns what some process stored for that key |
| **Telemetry** `storage/telemetry.py`, `proxy.py` | outbox of events with a synced flag, developer id file | `record_event`, `ingest_batch`, heartbeat push | proxy, remote endpoint | lost answer, crash between post and mark | at least once, never marked without being sent |
| **IDE installer** `installer.py` | editor configuration and its backups | merge, backup, replace, rotate | editors writing the same file | lost update, backup order by copied time | what of others a command may lose is known; what a merge replaces is in a backup |
| **Kernel** `kernel/` | none | clock, WAL retry, mode table, audit port | the ledgers | bounded retries | every call returns |
| **Service, configuration** `service.py`, `config.py` | PID file, JSON file | start, stop, get, set | CLI | check-then-start, lost update | one daemon; no change lost |
| **Sieve, auditor, gatekeeper, pruner, FinOps, CLI** | none | text and report functions | - | - | - |

`PROJECT.json` lists every one of them with its status, and under `hazards` the
lines where each hard behaviour bites.

## 2. Plan

Order of work, most important first.

1. *(done)* `TraceKit` over the abstract `AppendOnlyLedger`; proofs.
2. *(done)* `Forecast` (pure), `TokenCast` (the store, the engine and the
   shadow audit composed over one ledger); proofs.
3. *(done)* `Rules`, `Sara` and `SweGate` as stores and operators, composed by
   `McpServer`: the stdio loop and a tool call from its rules to its answer.
4. *(done)* `Firewall`: the context engine over the semantic cache and the symbol
   index, against a reference definition of distance.
5. *(done)* `Installer` and `Telemetry`, composed by `Workstation`; proofs.
6. *(done)* Proofs of the safety properties of every run: the edit detection of
   `TraceKit` and its refinement of `AppendOnlyLedger`, `McpServer`, `Firewall`, the
   backups of `Installer`, the sums of `TokenCast` and the arithmetic of `Forecast`.
7. Not planned: the PID file of the service and the attribution of cache entries.

## 3. Modules

| Module | Models | Notes |
|---|---|---|
| `AppendOnlyLedger` | what TraceKit promises: add, freeze, corrupt | no hashes, calls or processes |
| `TraceKit` | `audit/store.py`, `audit/schema.sql`, `audit/verifier.py`, the clock and the WAL retry of `kernel/`, `query_audit_ledger` | refines `AppendOnlyLedger` |
| `TraceKit_proofs` | theorems about `TraceKit` | |
| `Induction` | nothing of the code: lemmas about numbers, finite sets and sums that the proofs share | |
| `Forecast` | `predict_token_trajectory`, `CircuitBreaker.decide` | pure operators |
| `TokenCast` | `budget/store.py`, `budget/schema.sql`, the budget half of `build_context`, `build_context_with_budget`, `_record_shadow_audit`'s charge | extends `Forecast` |
| `Forecast_proofs` | theorems about `Forecast`, for the sessions of `MCForecast` | |
| `TokenCast_proofs` | theorems about `TokenCast` | |
| `Rules` | `rules/`: extraction, compilation, identifiers, enforcer, store | state and operators, no specification of its own |
| `Sara` | `sara/`: tiers, risk, verdict, merge over sources, audit sink | as `Rules` |
| `SweGate` | `swegate/`: inspection, verdict, registration, evaluations | as `Rules` |
| `McpServer` | `mcp.py`: loop, dispatch, `handle_tools_call`, its three gates and its shadow audit | extends the three above |
| `McpServer_proofs` | theorems about `McpServer` and its three gates | |
| `Firewall` | `core/topological.py` (graph, distances, views, manifest), `core/pruner.py` (its result), `storage/cache.py`, `load_depth_config` | |
| `Firewall_proofs` | theorems about the caches of `Firewall` | |
| `Distances_proofs` | the theorem about `GetDistances` | extends `Firewall_proofs` |
| `Processes` | the processes of a workstation | parameters of the next three |
| `Installer` | `installer.py`, `config.py` (`load_config`, `save_config`, `set_config_value`), the commands of `cli/main.py` that write files | |
| `Telemetry` | `storage/telemetry.py`, the endpoints of `proxy.py` that record, the end of `run_firewall_cli` | |
| `Workstation` | both on one machine | composes them |
| `Workstation_proofs` | theorems about `Workstation` | |
| `MCTraceKit`, `MCForecast`, `MCTokenCast`, `MCMcpServer`, `MCFirewall`, `MCWorkstation` | small instances | |

Definitions called "faulty variant" are the same definition with a plausible
bug; they are used by no specification and serve to show that a property
notices the bug.

### TraceKit

*State.* `sessions`, `blocks` and `events` are the three tables. `call[p]` is
what process `p` is in the middle of and `report` what the last step returned or
raised. `edits` and `endorsed` are history variables for the properties.

*Steps.* An append is two steps, because the code stamps the block
(`record_step`, line 365) and only then opens `BEGIN IMMEDIATE`: `RecordStep`,
then `AppendTxn` (session row, count, predecessor, seal, insert; atomic, as the
transaction is), or `WalBusy` when the database is locked, up to `MAX_RETRIES`.
`verify_session` is three: `LoadChain` reads and audits the blocks, `ReadLatch`
reads the latch, `PersistVerdict` writes. They hold the store's lock, but that
is a lock of one process and the file is shared. `query_audit_ledger` is the
first two. `Crash` ends a call anywhere. `BlockAborts` and `VerdictAborts` are
the sealed triggers; when several apply, which one SQLite runs first is not
defined, so the reported class is any of theirs. The wall clock (`Tick`) may be
set back.

*Hashes* are their preimages: equal exactly when what was hashed is equal.
Digests are model values; `Malformed` stands for every value a stored row or a
caller may hold that the validators reject.

*Offline edits* are the threat the chain is there for, so they are in the model:
alter a row's content, alter and re-hash it, make it unreadable, delete it,
replace the genesis. Re-chaining all later blocks is outside what
`audit/verifier.py` claims to detect, and is not an edit of the model.

### TokenCast

*State.* Three tables again, and `call[p]` for each thread. Every statement is
its own transaction, so `build_context` is `BuildContext`, `ReadBudget`,
`ReadTurns`, `ReadEvents` (when there are no turns), then, unless the decision
is to continue, `EnforceBudget`, `EnforceCreate`, `EnforceLatest`,
`EnforceRecord`, and `Answer`. The shadow audit's charge is `ChargeBudget`,
`ChargeCreate`, `ChargeTurns` (count) and `ChargeInsert` (at that count). Both
users swallow the exceptions of the store: `Locked` stands for the one a busy
database raises at any of those statements, and a refused insert leaves the
caller to go on. `CreateBudget` and `RecordTurn` are the store's API used by an
embedding program.

The decision is the real one: `ReadTurns` applies `Forecast`'s `Decide` to the
stored turns. Prices, the FSM trace (determined by the decision) and forecast
figures stored with an event are left out.

### Rules, Sara, SweGate and McpServer

*State.* Each of the three gates has its database: manifests, guard rows and the
enforcement log; verdicts and quarantined payloads; repositories, evaluations and
findings. `Rules` also holds the rules files. A server has the job it is serving,
its enforcement counter and its cache of guards. `calls` and `outcome` are
history: the requests received, and what became of each; `enforced` is what was
enforced; `ledger` is the part of `tracekit.db` a call writes (its chain is
`TraceKit`'s subject).

*Steps.* `job[s].pc` is the place of a call in `handle_tools_call`, and each
action is the code from one transaction or file access to the next: `Receive`
(loop and dispatcher), `LoadRules` (one rules file: cache of guards, database,
compiler), `Enforce` (enforcer and log), or `GuardTraversal` and `LogTraversal`
for a path that escapes; `Register`, `RegisterDefault` and `Record` of the patch
gate; `AuditRead` and `FailClosed` of SARA; `ReadingFails` (the tool raises
before its result is judged) and `StoreResult` (the cache); `Trace` and `Shadow`
(the ledger, wrapped: a refusal is swallowed); `Write` and `WriteFails` of
`apply_patch`. A transaction that is refused is an alternative of its action
(`Refused`). An exception that leaves the handler (`Escape`) ends an unframed
loop and is swallowed, without an answer, by a framed one. `Crash` and `Restart`
lose the job, the counter and the cache of a server, and nothing else.

*Data.* A directive of a rules file is what each recogniser of the compiler finds
in it; identifiers, digests in the code, are the fields they are made of, so that
two are equal exactly when those fields are. `Garbled` and `Touches` say which
calls fail to normalise and which a target matches. A text that a tool read is its directives, or
invalid. A patch is its parsed lines. Guards passed to the constructor
(`explicit guards`) replace the files' in the code; the model is the server
without them, as `main` starts it.

### Firewall

*State.* Files with their modification times, the two tables of the cache
(`tokens`, `index`), the first levels of each process (`l1`, `l1Index`), and a
build per engine.

*Steps.* `Begin` scans the project, resolves its imports (`ExtractFromFile`),
measures distances (`GetDistances`, the queue of the code, unfolded) and decides
what becomes of each module (`Route`). Then one step per module and per
transaction: `Visit`, `Store`, `Fetch`, `Stat`, `Parse`, `StoreIndex`; files are
saved between them. `LookupFails` and the refusals of `Store` and `StoreIndex`
end the build, as their exceptions do. `LoadDepthConfig` is the whole of
`load_depth_config` behind the parsing of the file.

*Data.* A view is the text, the depth and whether docstrings were stripped: two
views are equal when the pruner was given the same. Two saves of one file have
different modification times (the code takes times within 0.1 ms as equal).
Roots of different workspaces have different keys; two roots inside one git
repository share a key for equal relative paths, which the runs leave out.

### Installer, Telemetry and Workstation

*Installer.* A document is what a file holds: a part that is not of ctxfw, the
entry of ctxfw, the managed keys that are not of the type a merge expects
(`odd`: `mcpServers` no object, `allowedTools` no list), and its modification
time. `born` numbers the writes: it is a history by which the properties know one
write from another, since the modification time cannot tell them apart. Every command is a sequence of visits (`PlanOf`);
a visit reads (`Read`), names a backup (`Name`), copies (`Copy`), rotates
(`Rotate`) and replaces (`Commit`), each a step, because the code does each with
a system call of its own while other commands and editors write the same file.
Rules files and templates are written in place (`AppendRule`, `WriteTemplate`,
`WriteTorn`); `SPEC.axioms.md` only when it is missing, which is looked up first
(`Create`). `config set` is `Load` and `Save`. An editor saves or deletes a file, or
somebody restores one with the modification time it had (`EditorSaves`: `cp -p`, `mv`,
`rsync -a`); files and backups found at first may have any time.

*Telemetry.* A process is a proxy request or a run of the command line: `Accept`
or `Reject` (the breaker), developer id (`ReadUuid`, `MintUuid`), `Record`,
`Forward`, and the heartbeat: `Fetch`, `Post`, `Mark`. `Post` may lose its
answer, `PostLost` its message; `Killed` and `RecordRefused` are the faults.

*Workstation.* The two halves share no file: a process does one or the other.
They are composed because the fault model is the machine's, and share nothing but
the processes; that neither disturbs the other is by construction, and used as two
lemmas, not claimed as a result.

## 4. Runs

| Run | Instance | What it shows |
|---|---|---|
| `tracekit_concurrent` | 2 processes, chains of 2 blocks, 1 retry, 2 stamps, 2 verdicts, 1 edit (206,544 states) | types; the chain of an unedited session; no false alarm; the latch; what callers are told; stored blocks are never changed by a step of the program; refinement of `AppendOnlyLedger`; every call returns |
| `tracekit_edits` | 1 process, 2 digests, chains of 4 blocks, 2 verdicts, 2 edits (948,216 states) | single edits are found at their position; what a clean verdict proves after any edits; verdicts do not move |
| `tracekit_latch_error` | expected violation | finding 1 |
| `tracekit_lost_step` | expected violation; 2 processes, no edit, a clock that is never set back | finding 2 |
| `forecast` | sessions of up to 4 turns of 0..2 tokens, 24 budgets of 1 to 4 turns (22,392 states) | closed form = turn by turn; interval; lower limits are not treated more mildly; acts in time |
| `tokencast` | 2 threads, 1 session, turns of 1, 2 or 4 tokens, budgets of 3 and 2 turns, 2 events (283,960 states) | contiguity, latch, containment, recorded containment, lost charges |
| `tokencast_hard_limit` | expected violation | finding 3 |
| `mcp_server` | 2 servers, 2 calls out of 12 kinds, 3 contents of 2 rules files, 1 mishap (264,990 states) | stored verdicts, recorded patches, logged enforcements, guards of the right version, every call settles |
| `rules_edited` | expected violation | finding 4 |
| `firewall` | 2 engines, 2 builds, 2 projects of up to 5 modules in 3 layouts, 5 requests, 1 save, 1 refusal (230,227 states) | shortest distances, views by the right key, a current symbol index |
| `workstation` | 2 processes, 8 commands, 4 requests, 2 homes, 1 upset (a save, a deletion, a restoration, a fault or a kill), 2 backups kept, batches of 1 (3,897,056 states) | backups, contents and settings of others, nothing synced before it is ingested |
| `workstation_restore` | expected violation; 1 command, 5 backups kept as in the code, 1 restored file | finding 5 |

*Bounds and why they are enough.* In `TraceKit` the interesting conflicts are
pairwise: two appends, an append and a verdict, a verdict and an edit; two
processes and two stamps produce all of them, one retry distinguishes a retry
from its exhaustion, and chains of two blocks have a first, a linked and (at
`MAX_BLOCK_SEQ`) a refused block. What an audit finds depends on positions, so
`tracekit_edits` has four blocks (first, two inner ones, last) and gives up the
second process. In `tokencast` two threads reach every check-then-act race, and
the budgets of three and two turns and limits of 2 and 3, 1 and 2 tokens let a
session end by turns, by the soft and by the hard limit, in either budget;
4 tokens is the turn its DTO cannot read. `MaxClock`, `MaxVerdicts`, `MaxEdits`
and `MaxEvents` are bounds of the model alone.

In `mcp_server` the conflicts are again pairwise: two servers, or one server twice
with a restart between, meet in the log ids and in the guards; one mishap puts a
refusal, a crash or an edit at every step of every kind of call. The cache of
guards holds one entry (256 in the code), so that it overflows; the limits of
rules, directives and findings are two, so that they cut. In `firewall` the
layouts are a chain of five, a diamond with a cycle back, and a project of
repeated, blank and unparsable texts; one module may be parsed inline (20 in the
code), so the throttle, stale reads and the ceiling of the manifest happen; two
builds find in the caches what the first left there, in the same or another
process. In `workstation` two backups are kept (5 in the code) and up to two writes
fall in one second, so that a rotation deletes a backup and equal names happen; a file
with two older backups and one restored in between put the copy on either side of
the rotation's cut, and two of the files found have managed keys of the wrong type; batches of
one record make a heartbeat meet records made meanwhile. `MaxCalls`,
`MaxMishaps`, `MaxBuilds`, `MaxSaves`, `MaxFaults`, `MaxUpsets` and `PerSecond`
are bounds of the model alone.

*One session* is enough where it is the only one: no statement of either store
reads another session's rows, and the theorems are about any number. The finding
about charges needs two, and has two. In `tokencast` the client's calls are
charged to the session it resolves. That happens in the code for session ids
that map to themselves (`SES-tc-tc-...`), and stands for any program that
resolves the session the server charges; without it the two halves of TokenCast
never meet (finding 3).

*Symmetry* is used only on model values no definition names (the digests, the
threads of TokenCast, the processes of the workstation), and never with liveness.
The deadlock check is off in `Forecast.cfg`, where a halted session takes no turn, and in the
configurations of `McpServer`, `Firewall` and `Workstation`, which stop when the
requests, builds or commands of the bounds are served; everywhere else a deadlock
would be an error.

*Fairness.* Two runs assume any. `tracekit_concurrent` assumes weak fairness of `Advance(p)`
for each process, that is, a process that stays alive goes on with the call it
is in. `run_with_wal_retry` loops with bounded pauses and no other step blocks,
so this is what the operating system's scheduling gives. Fairness of getting the
lock is not assumed: `EveryCallReturns` holds because the retries are bounded.
There is no fairness on starting calls, on the clock, on crashes or on edits.
`mcp_server` assumes weak fairness of `Serve(s)` for each server: the loop is a
single thread that reads a line and runs its handler to the end, so a server that
is alive goes on with the call it has. Nothing makes a transaction succeed, a
server restart or a request arrive; `EveryCallSettles` holds because every
failure is either answered or ends the call. It does not say that every call is
answered: the framed loop swallows what escapes the handler.

## 5. What is proved

TLAPS checks every safety invariant, every action property and every refinement that
a passing run checks, for all values of the constants that satisfy their assumptions:
any number of processes, servers, sessions, modules, commands, turns and edits.

| Module | Theorems (and the property of a run each one states) |
|---|---|
| `TraceKit_proofs` | `TypeCorrect`, `ChainIsSound` (`UneditedChainSound`), `LatchNeverFiresByItself` (`NoFalseAlarm`), `LedgerIsAppendOnly` (`AppendOnly`), `LatchHolds` (`LatchSticky`), `LatchedIsReported` (`LatchedNeverReportedClean`), `CleanVerdictsAreNotLatched` (`CleanVerdictNotLatched`), `OutcomesMatch` (`OutcomeMatchesLedger`), `ReportsAreStable` (`BrokenSeqStable`), `CleanVerdictsPinHistory` (`CleanVerdictPinsHistory`), `SingleEditsAreDetected` (`DetectsSingleEdit`), `ImplementsAppendOnlyLedger` (`ImplementsLedger`) |
| `TokenCast_proofs` | `TypeCorrect`, `TurnsHaveNoGap` (`TurnsContiguous`), `HaltHolds` (`HaltLatch`), `HaltedStaysContained` (`HaltedWithoutTurnsIsContained`), `ContainmentOnRecord` (`ContainmentIsRecorded`), `ChargeLostOnlyWhenTold` (`ChargeLostOnlyToRace`), `OverHardStaysContained` (`OverHardIsContained`) |
| `Forecast_proofs` | `ClosedFormHolds` (`ClosedFormIsTurnByTurn`), `IntervalHolds` (`IntervalHoldsForecast`), `NeverMilder` (`TighterIsNeverMilder`), `BreakerActsInTime` (`ActsInTime`) |
| `McpServer_proofs` | `TypeCorrect`, `RulesCorrect`, `ToldVerdictsAreStored` (`VerdictsAreStored`), `AppliedPatchesAreRecorded` (`PatchAppliedIsRecorded`), `DeniedOnlyPastSkipped` (`DeniedOnlyPastSkippedFiles`), `EnforcementsAreLogged` (`EnforcementIsLogged`) |
| `Firewall_proofs` | `IndexStaysCurrent` (`IndexIsCurrent`), `ShownIsItsView` (`EntriesAreViews`) |
| `Distances_proofs` | `DistancesShortest` (`DistancesAreShortest`) |
| `Workstation_proofs` | `MarkedOnlyIfIngested` (`SyncedIsIngested`), `OthersSurvive` (`OthersAreKept`), `ReplacedStaysBackedUp` (`ReplacedIsBackedUp`) |

### The arguments

*Induction.* The provers cannot instantiate an induction theorem, whose parameter is a
predicate. `Induction` states induction over a *set*: every nonempty set of numbers has
a least one (`LeastNatural`, from the well-foundedness of strict inclusion of finite
sets), so a set with zero and every successor is all of them (`NaturalsFromZero`).
Ranks in a finite set, the unfolding of a step (`Iterates`) and sums follow:
`SumFunction` adds in an order it chooses, and `AnyOrder` shows that any member
may be added last (`SumToTheLast`, `SumOfNaturals`, `SumShifted`).

*TraceKit, chains.* Soundness of the chain is not inductive alone, because
an append is refused once the session is latched and links to whatever genesis
is stored. `LedgerInv` adds that an unedited session is not latched, stores the
derived genesis, and that no audit in flight has found anything in it. Then an
accepted insert extends a sound chain by a sound block (`AppendKeepsChainSound`,
from the triggers), the audit of a sound chain is clean (`SoundChainIsClean`),
so what an audit writes cannot latch it. `AppendOnly` and `LatchSticky` follow
from what `AppendTxn` may write at all (`AppendWrites`).

*TraceKit, the latch and edits.* `LatchInv` carries what an audit in flight knows: one that
began on a latched session has the latch still to read, or has read it when it writes. For a clean verdict after
any edits, `PredecessorsEndorsed` says that the hash a stored block links to was
sealed or built upon by an append, so a clean chain has no other content below
its last block. For a single edit, `SingleEditInv` follows the edited position through
later appends and audits: what an append adds never moves the first
broken place. The refinement maps edits and endorsements to the abstract ledger's
own, step by step.

*TokenCast.* `COUNT(*)` is a number only because turns are
contiguous, so types and contiguity are proved together. All steps reduce to
four kinds of ledger statement (`WhoWrites`); each property of the tables is
shown once per statement. For calls in flight, `IInv` says what a thread may
rely on between its statements: a budget once seen exists, the turn index it
computed is not above the count, a session it saw halted without turns still is,
and a halt is always the latest event. These survive the steps of other threads
because the tables only grow (`LedgerGrows`, `CallSoundKept`). `OverInv` does the same for
the hard limit: a session over it stays over it, since a sum of natural numbers
only grows and a budget is written once (`OverStaysOver`), and the history the engine
makes of the stored turns sums to what was spent (`OverIsHalted`, by `SumShifted`).

*Forecast.* `SessionInv`: the breaker halts a session at its last turn, so the horizon is
never negative. `ClosedForm` is an induction over the horizon, on twice the sum,
where nothing is rounded. The other three theorems rest on it. Each turn ahead adds a natural
number, so the forecast is at least one turn above what was observed (`Predicted`), which
is why the breaker acts in time. `NeverMilder` compares a budget with every one of lower soft and
hard limits, and of a lower turn limit when that one is reached or leaves the breaker
looking as far ahead. It does not hold of a turn limit that cuts the horizon, and is not claimed of it: the
breaker then expects fewer turns, and so fewer tokens. The half width is a natural number because
`ceil_isqrt` and `ceil_div` are (`CeilIsqrtType`, `CeilDivType`).

*McpServer.* `ServerInv` has the shape of the jobs and that a request is served by one
server at most. Each property then has its own invariant over it. Verdicts: `VerdictInv`,
the log holds only numbers of requests received, and a call whose verdict is
stored has nothing left to do but to answer it. Patches: `PatchInv`, the
evaluations of a commit are numbered without a gap and findings belong to evaluations that
exist (`Numbered`), so ids do not collide; what a job carries on is an allowed evaluation on
record, or the rejection it is about to answer (`Carries`). Rules: `RulesInv`, a cached guard list
is what its key compiles to, and a call past its rules read the texts whose guards judged
it. Log: `LogInv`, rows and guards with one id have one verdict, which is why a repeated
id does no harm.

*Firewall.* `IndexInv`: symbols under a time that is still the file's are those of its
text; a save makes a new time, so what is stored late is of a time that is past. `ViewsInv`:
whatever is in a cache under a key is the view the key names, and a build that is about to
store made the view of the module it is at.

*Distances.* The search is unfolded into its states (`Iterates`), one module leaving the
queue at each step. `SearchInv` compares a state with the balls around the target (the
modules within *k* imports): each distance met names the ball a module is in (`Measured`),
the queue is in order of distance (`InLine`), a module met is still queued or all
its imports were met (`Covered`), and all of the ball of the queue's head was met.
A module is queued once, so after as many steps as there are modules the queue is empty.

*Workstation.* A step of the machine is a step of one half and a
stutter of the other, so each half's invariant is proved of it alone and carried
over. For telemetry, `TelemetryInv` adds to the types that a batch that was
answered is at the centre (`AnsweredIsIngested`): the ledger grows at its end and
the centre only grows, so neither a record made meanwhile nor another heartbeat
takes that away. For the installer, `OthersAreKept` speaks of a file nobody wrote since the
command read it, which its `born` tells; so `InstallerInv` says that the clock is
ahead of every write (`ClockAhead`), and that what a command has read is
still what is in the file while no other write was made (`ReadIsCurrent`,
`LoadIsCurrent`). `OwnStep` finds the process whose step it is, `WritingSteps` the four places of a
command that write a file. The theorem holds with its exceptions only, which are the code's: init's own files,
a rules file cut short by a kill, a write lost to another one, a managed key of the wrong type, and
a `config.json` that cannot be read.

For the backups, what is inductive is not that the copy of a file is there but `Safe`: it is
there, or `MaxBackups` of the backups have the file's modification time or a later one. A rotation deletes
backups in order of time, so of `MaxBackups` backups since some time it leaves as many
(`RotationKeepsSince`), and what it deletes has `MaxBackups` of its time or later
(`RotationDropsOldest`); hence it keeps what is safe (`RotationKeepsSafe`). A copy puts
the file as it is among the backups, whatever backup of the same name it replaces (`CopyKeepsBackups`). The second alternative is the exception of `ReplacedIsBackedUp` and really
occurs (finding 5): nothing is assumed of modification times but that they are numbers.

### Assumptions

Each is an `ASSUME` beside the constants it is about, and is evaluated by the runs.

* TraceKit: the malformed digest is not a digest; limits are natural numbers.
* TokenCast: limits, tokens and turns are natural numbers; a budget's soft limit
  does not exceed its hard limit and it allows at least one turn; the shadow audit's budget
  allows as many turns as the shadow audit records (both are 1000 in the code).
* Forecast: tokens and limits are natural numbers; a budget allows a turn and the horizon
  is at least one (`HORIZON_TURNS_MIN`).
* Rules and McpServer: what a recogniser finds depends on the directive's text alone; the
  rules that are built in compile; requests name a rules file, a text or a patch there is.
* Firewall: the scan order is a sequence; layouts and saves are of projects and
  texts there are. `IndexStaysCurrent` also has a hypothesis, `DistinctWorkspaces`: two roots inside
  one git repository share the keys of equal relative paths in the code, so the property
  is claimed of roots that do not. The run has such roots.
* Telemetry: a heartbeat's endpoint is set or not; a batch holds at least one record.
* Installer: files found at first were written before the clock's time, and their
  modification times, like those of the backups, are any natural numbers; a file's backups are
  finitely many and at least one is kept; a configuration found at first has the settings
  there are; commands are those of the command line; a document an editor saves or restores has a
  time and is one of the files modelled; a model of the catalogue brings its two prices and
  nothing else.

### Model-checked only

`EveryCallReturns` and `EveryCallSettles`: liveness under fairness is out of the provers'
reach. The five expected violations are shown by their runs and need no proof.

## 6. Findings

1. `LatchPersistenceError` is documented as "the latch is NOT active"
   (`audit/store.py:85`), but `verify_session` raises it for any tampered
   verdict it cannot write, also on a session that is latched already.
2. "Every tool call ... is sealed" (`docs/RELEASE_NOTES_v4.0.0.md:10`): a step
   stamped before, but appended after, another process's step on the same session
   is refused by the timestamp trigger and is not retried with a new stamp. The run's
   clock is never set back (`ForwardSpec`): one process stamps, the clock goes on, the other
   one stamps and appends, and the first is refused.
3. "When hard limits are breached, execution halts fail-closed"
   (`docs/RELEASE_NOTES_v4.0.0.md:16`): the server charges a client's calls to
   `SES-tc-<id>` (`mcp.py:413`) and asks the breaker about `<id>`
   (`mcp.py:1794`), so a client is never halted by what it spent.
4. ctxfw "enforces `.cursorrules`/`CLAUDE.md` deterministically"
   (`docs/benchmarks/SECURITY_VS_CLOUD_WAFS.md:88`): the id of a guard is made of
   path, line and text (`rules/contracts.py:173`) and is a primary key. After an
   edit that leaves a rule on its line, the new manifest collides with the old
   one's row, the file is skipped (`mcp.py:322`), and none of its rules holds
   until the line changes. `DeniedOnlyPastSkippedFiles` shows that this is the
   only way, together with a refused transaction, past a rule.
5. "Snapshot before mutation", a "non-negotiable" invariant (`installer.py:526`; also
   `README.md:146`): a backup has the modification time of the file it copies, and
   `rotate_backups` keeps the five latest by that time (`installer.py:380`). Of a file
   that was restored with an old time, beside five later backups, the backup just made is the one deleted,
   and the merge replaces the only copy. `ReplacedIsBackedUp` shows that this is the only case.

Seen while reading, and kept as caveats in the properties rather than as runs of
their own: a stored turn above the DTO's limit silences the breaker of that session
for good (`OverHardIsContained` excludes it); a session with turns takes the
recomputed decision even when a halt is on record; ids longer than 48
characters share a charged session; a framed request whose handler raises is
never answered; a gate's answer says `sweGateRecorded` also when nothing could be
stored, but then never allows the patch; `apply_patch` judges `diff_text` and
writes `new_content`; a closing role tag adds risk although the docstring of
`compute_risk_score` gives it none; a batch the centre rejects is posted again
first at every heartbeat, and blocks the queue; a configuration that cannot be read
counts as the defaults, which the next `config set` saves; an `mcpServers` that
is not an object and an `allowedTools` that is not a list are replaced with what they held, although
`README.md:147` promises that custom keys are preserved (`OthersAreKept` excuses it); a
file that is not UTF-8 ends an install half way; `ctxfw init` writes `.mcp.json`, its rules and
its hook over what is there, without a backup (`cli/main.py:263`); `SPEC.axioms.md:127` forbids
depth expansions "strictly exceeding depth level 3", but only the branch of `max_depth` 3 drops
farther modules (`core/topological.py:474`): with the default depth of 2 they are parsed, pruned and shown
at every distance; two concurrent first charges of a session create its budget twice, and the
loser's charge is dropped (`mcp.py:414`).

## 7. Not modelled

* What the parsers and recognisers find in a text (AST and CST pruning, lexical
  scoring, unified diffs, normative clauses): data of the models, chosen by the
  instances. Polyglot pruning needs parsers the models know nothing of.
* `kernel/audit_port.py` and the mode table: no part of the server goes through
  them; stateless.
* FinOps, licences, gatekeeper, auditor, sieve: functions of their arguments,
  with no state that steps of several actors could break.
* Dashboard, roast, reports, `run_doctor`, statistics and exports: they read.
* `service.py`: a PID file around services of the operating system.
* `attribute_project` of the cache: a label the dashboard shows.
* Streaming and the provider's side of the proxy: I/O.

SQLite itself is taken at its word: a transaction is atomic, `BEGIN IMMEDIATE`
excludes other writers, an aborted statement followed by `ROLLBACK` leaves nothing
behind. So is `os.replace`. Loss of power under `synchronous = NORMAL` is not
modelled.
