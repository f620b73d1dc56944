----------------------------- MODULE McpServer -----------------------------
(***************************************************************************)
(* The MCP server (ctxfw.mcp): the stdio loop, the dispatcher, and what a  *)
(* tools/call goes through: the rules of its workspace, the patch gate,    *)
(* the audit of what the tool read, the ledger, the answer.  Several       *)
(* servers, one per editor, share the databases and the rules files.  Each *)
(* database transaction is one step; it may be refused (locked, disk full) *)
(* and a server may be killed between two of them.                         *)
(*                                                                         *)
(* Requests names the requests there are.  One is a record: kind ("call",  *)
(* or what the dispatcher answers by itself), tool, framed (Content-Length *)
(* or line-delimited), root (its workspace), call (what the enforcer reads *)
(* of it), traversal (a path of it escapes), patch with its repository (or *)
(* None), writes (the rules file and the text apply_patch would put in it, *)
(* or None), and texts: the output of the tool followed by the sources it  *)
(* was made from, empty when there is nothing to read.                     *)
(***************************************************************************)
EXTENDS Rules, Sara, SweGate

CONSTANTS
    Servers,
    Requests,       \* name -> request
    FilesOf,        \* workspace -> its rules files, in the order they are read
    InitialRules,   \* the contents the rules files may begin with
    MaxGuardCache,  \* the most entries of the guard cache of a server
    MaxCalls,       \* bound: requests received
    Mishaps,        \* which of "fault", "crash" and "edit" happen
    MaxMishaps      \* bound: transactions refused, servers killed, rules files saved

ASSUME NoneAssumption == None \notin DOMAIN Contents

VARIABLES
    job,        \* server -> the request it is serving
    up,         \* server -> whether it runs
    seq,        \* server -> its enforcement counter
    guardCache, \* server -> key -> guards
    ledger,     \* the TraceKit steps: pairs of a request and the part that wrote it
    calls,      \* the requests received so far; each is known by its number
    outcome,    \* request -> what became of it
    enforced,   \* history: the log id and verdict of each enforcement committed
    budget      \* the mishaps that may still happen

local == <<job, up, seq, guardCache>>
vars == <<rulesText, rulesDb, saraDb, gateDb, local, ledger, calls, outcome,
          enforced, budget>>

NoJob == [pc |-> "idle", n |-> 0, req |-> None, left |-> <<>>, guards |-> <<>>,
          read |-> [f \in RuleFiles |-> None], skipped |-> {}, repo |-> None,
          res |-> "none", eval |-> None]

EmptyCache == [k \in {} |-> <<>>]

-----------------------------------------------------------------------------
(* Steps of a job.                                                         *)

Req(s) == Requests[job[s].req]

At(s, pc) == up[s] /\ job[s].pc = pc

Mishap(kind) == kind \in Mishaps /\ budget > 0 /\ budget' = budget - 1

Granted == UNCHANGED budget
Refused == Mishap("fault")

Goto(s, pc) == job' = [job EXCEPT ![s].pc = pc]

GotoWith(s, pc, res) == job' = [job EXCEPT ![s].pc = pc, ![s].res = res]

\* The answer goes out and the server waits for the next request.
Settle(s, kind) ==
    /\ outcome' = [outcome EXCEPT ![job[s].n] = [kind |-> kind, eval |-> job[s].eval]]
    /\ job' = [job EXCEPT ![s] = NoJob]

\* An exception that leaves dispatch: the framed branch of the loop swallows it
\* and answers nothing, the other one ends the server.
Escape(s) ==
    /\ Settle(s, IF Req(s).framed THEN "dropped" ELSE "died")
    /\ up' = [up EXCEPT ![s] = Req(s).framed]

SweGateTools == {"verify_patch", "apply_patch"}
ReadingTools == {"prune_file", "resolve_context_bundle"}

\* A message is framed or not, a workspace has a list of rules files, apply_patch
\* writes a text, and the gate makes a patch of whatever the arguments are.
ASSUME RequestsAssumption ==
    \A name \in DOMAIN Requests :
        /\ Requests[name].framed \in BOOLEAN
        /\ FilesOf[Requests[name].root] \in Seq(RuleFiles)
        /\ Requests[name].writes # None => Requests[name].writes \in RuleFiles \X DOMAIN Contents
        /\ Requests[name].tool \in SweGateTools => Requests[name].patch # None

\* Where a call goes on once its rules, or its gate, let it.
ToolStep(r) ==
    IF r.tool \in ReadingTools /\ r.texts # <<>> THEN "auditing" ELSE "shadowing"

\* The result a tool that is neither gated nor audited gives.
ToolResult(r) ==
    IF r.tool \in ReadingTools THEN (IF r.texts = <<>> THEN "error" ELSE "none")
    ELSE "plain"

AfterRules(s) ==
    LET r == Req(s) IN
    IF r.tool \in SweGateTools \/ (r.tool \in ReadingTools /\ r.patch # None)
    THEN Goto(s, "registering")
    ELSE GotoWith(s, ToolStep(r), ToolResult(r))

-----------------------------------------------------------------------------
(* Requests.                                                               *)

\* What the dispatcher and the parser answer; a tool's answer is to come.
ReplyTo(kind) ==
    CASE kind = "call" -> "pending"
      [] kind = "notification" -> "silent"
      [] kind \in {"malformed", "unknown"} -> "error"
      [] OTHER -> "plain"

Receive(s, name) ==
    /\ At(s, "idle")
    /\ calls < MaxCalls
    /\ calls' = calls + 1
    /\ outcome' = [n \in 1..(calls + 1) |->
                      IF n <= calls THEN outcome[n]
                      ELSE [kind |-> ReplyTo(Requests[name].kind), eval |-> None]]
    /\ job' = IF Requests[name].kind # "call" THEN job
              ELSE [job EXCEPT ![s] = [NoJob EXCEPT
                       !.pc = IF Requests[name].traversal THEN "guarding"
                              ELSE IF FilesOf[Requests[name].root] = <<>> THEN "enforcing"
                              ELSE "loading",
                       !.n = calls + 1, !.req = name, !.left = FilesOf[Requests[name].root]]]
    /\ UNCHANGED <<rulesText, rulesDb, saraDb, gateDb, up, seq, guardCache, ledger,
                   enforced, budget>>

-----------------------------------------------------------------------------
(* The rules of the workspace.                                             *)

\* Faulty variant: the content is not part of the key.
CacheKeyOfPath(f, text) == <<f, None>>

CacheKey(f, text) == <<f, text>>

Remember(cache, key, guards) ==
    LET kept == IF Cardinality(DOMAIN cache) >= MaxGuardCache THEN {} ELSE DOMAIN cache
    IN [k \in kept \cup {key} |-> IF k = key THEN guards ELSE cache[k]]

\* One guard of each id, the earlier file first.
Collect(guards, more) ==
    LET new == {k \in DOMAIN more : \A i \in DOMAIN guards : guards[i].id # more[k].id}
    IN guards \o [i \in 1..Cardinality(new) |-> more[Nth(new, i)]]

\* The file at hand gives these guards.
Take(s, text, guards) ==
    job' = [job EXCEPT ![s].left = Tail(@),
                       ![s].read[Head(job[s].left)] = text,
                       ![s].guards = Collect(@, guards),
                       ![s].pc = IF Len(job[s].left) = 1 THEN "enforcing" ELSE @]

\* Faulty variant: a file that cannot be stored is tried again.
Retry(s, text) == UNCHANGED job

\* An exception while the file at hand is loaded: it gives none.
Skip(s, text) ==
    job' = [job EXCEPT ![s].left = Tail(@),
                       ![s].read[Head(job[s].left)] = text,
                       ![s].skipped = @ \cup {Head(job[s].left)},
                       ![s].pc = IF Len(job[s].left) = 1 THEN "enforcing" ELSE @]

\* The guards of a text, as the database or the compiler gives them; an
\* extraction that fails gives none, and is remembered as well.
Loads(s, key, text, guards) ==
    /\ Granted
    /\ Take(s, text, guards)
    /\ guardCache' = [guardCache EXCEPT ![s] = Remember(@, key, guards)]

LoadNew(s, f, text, key) ==
    \/ /\ ExtractionFails(text)
       /\ Loads(s, key, text, <<>>)
       /\ UNCHANGED rulesDb
    \/ /\ ~ExtractionFails(text)
       /\ \E m \in Manifests :
             /\ m.id = DeriveManifestId(f, text)
             /\ \/ /\ PersistManifest(m)
                   /\ Loads(s, key, text, m.guards)
                \/ /\ Collides(m)
                   /\ Granted
                   /\ Skip(s, text)
                   /\ UNCHANGED <<manifests, guardRows, guardCache>>
       /\ UNCHANGED logRows
    \/ /\ Refused
       /\ Skip(s, text)
       /\ UNCHANGED <<rulesDb, guardCache>>

LoadRules(s) ==
    /\ At(s, "loading")
    /\ LET f == Head(job[s].left)
           text == rulesText[f]
           key == CacheKey(f, text)
           hit == text # None /\ key \in DOMAIN guardCache[s]
       IN \/ /\ text = None \/ hit
             /\ Granted
             /\ Take(s, text, IF hit THEN guardCache[s][key] ELSE <<>>)
             /\ UNCHANGED <<rulesDb, guardCache>>
          \/ text # None /\ ~hit /\ LoadNew(s, f, text, key)
    /\ UNCHANGED <<rulesText, saraDb, gateDb, up, seq, ledger, calls, outcome, enforced>>

\* What a committed enforcement leaves in the history.
Note(guards, call, k) ==
    enforced' = enforced \cup
        (IF IsLogged(guards, call)
         THEN {<<LogId(guards, call, k), VerdictOn(guards, call)>>} ELSE {})

Enforce(s) ==
    /\ At(s, "enforcing")
    /\ LET guards == job[s].guards
           call == Req(s).call
       IN \/ /\ guards = <<>>
             /\ Granted
             /\ AfterRules(s)
             /\ UNCHANGED <<logRows, seq, up, outcome, enforced>>
          \/ /\ guards # <<>>
             /\ Granted
             /\ seq' = [seq EXCEPT ![s] = @ + 1]
             /\ LogVerdict(guards, call, seq[s] + 1)
             /\ Note(guards, call, seq[s] + 1)
             /\ IF VerdictOn(guards, call) = "BLOCKED"
                THEN GotoWith(s, "tracing", "blocked") ELSE AfterRules(s)
             /\ UNCHANGED <<up, outcome>>
          \/ /\ guards # <<>>
             /\ Refused
             /\ seq' = [seq EXCEPT ![s] = @ + 1]
             /\ Escape(s)
             /\ UNCHANGED <<logRows, enforced>>
    /\ UNCHANGED <<rulesText, manifests, guardRows, saraDb, gateDb, guardCache, ledger, calls>>

SystemManifest == CompileText(SystemPath, SystemText)

\* A path that escapes: the built-in guard is stored first.
GuardTraversal(s) ==
    /\ At(s, "guarding")
    /\ seq' = [seq EXCEPT ![s] = @ + 1]
    /\ \/ /\ Granted
          /\ PersistManifest(SystemManifest)
          /\ job' = [job EXCEPT ![s].guards = SystemManifest.guards, ![s].pc = "logging"]
          /\ UNCHANGED <<up, outcome, logRows>>
       \/ /\ Refused
          /\ Escape(s)
          /\ UNCHANGED rulesDb
    /\ UNCHANGED <<rulesText, saraDb, gateDb, guardCache, ledger, calls, enforced>>

\* Then the call is logged under it, and blocked whatever comes of that.
LogTraversal(s) ==
    /\ At(s, "logging")
    /\ \/ /\ Granted
          /\ LogVerdict(job[s].guards, Req(s).call, seq[s])
          /\ Note(job[s].guards, Req(s).call, seq[s])
       \/ /\ Refused
          /\ UNCHANGED <<logRows, enforced>>
    /\ GotoWith(s, "tracing", "blocked")
    /\ UNCHANGED <<rulesText, manifests, guardRows, saraDb, gateDb, up, seq, guardCache,
                   ledger, calls, outcome>>

-----------------------------------------------------------------------------
(* The patch gate.                                                         *)

DefaultName == "heuristico/ctxfw"

\* Derived from the name when the request has no valid id.
RepoIdOf(patch) == IF patch.repoId = None THEN patch.repoName ELSE patch.repoId

Registers(s, id, name) ==
    /\ Granted
    /\ RegisterRepository(id, name)
    /\ job' = [job EXCEPT ![s].repo = id, ![s].pc = "recording"]

Register(s) ==
    /\ At(s, "registering")
    /\ LET patch == Req(s).patch IN
       \/ Registers(s, RepoIdOf(patch), patch.repoName)
       \/ /\ \/ Refused
             \/ NameIsRefused(RepoIdOf(patch), patch.repoName) /\ Granted
          /\ Goto(s, "registering_default")
          /\ UNCHANGED gateDb
    /\ UNCHANGED <<rulesText, rulesDb, saraDb, up, seq, guardCache, ledger, calls, outcome,
                   enforced>>

\* A second failure is the tool's error.
RegisterDefault(s) ==
    /\ At(s, "registering_default")
    /\ \/ Registers(s, DefaultName, DefaultName)
       \/ /\ \/ Refused
             \/ NameIsRefused(DefaultName, DefaultName) /\ Granted
          /\ GotoWith(s, "shadowing", "error")
          /\ UNCHANGED gateDb
    /\ UNCHANGED <<rulesText, rulesDb, saraDb, up, seq, guardCache, ledger, calls, outcome,
                   enforced>>

\* The commit the evaluation is recorded under: the digest of the diff when the
\* metadata is not valid.
CommitOf(patch) == IF patch.metaOk THEN patch.commit ELSE patch.digest

\* Faulty variant: the result is decided by the audit alone.
GateResultUnrecorded(audit, stored) ==
    IF audit.verdict = "ALLOW_MERGE" THEN "allowed" ELSE "rejected"

\* The patch passes when the audit allows it and the evaluation is stored.
GateResult(audit, stored) ==
    IF audit.verdict = "ALLOW_MERGE" /\ stored /\ AfterCommit(audit.state) = "PASS_GATE"
    THEN "allowed" ELSE "rejected"

\* What the gate finds in the patch of each request.
Audits == {[name |-> r, audit |-> EvaluatePatch(Requests[r].patch)] :
              r \in {r \in DOMAIN Requests : Requests[r].patch # None}}

Record(s) ==
    /\ At(s, "recording")
    /\ LET commit == CommitOf(Req(s).patch) IN
       \E a \in Audits :
          /\ a.name = job[s].req
          /\ \/ /\ Granted
                /\ RecordEvaluation(job[s].repo, commit, a.audit)
                /\ job' = [job EXCEPT ![s].pc = "tracing",
                                      ![s].res = GateResult(a.audit, TRUE),
                                      ![s].eval = EvaluationId(job[s].repo, commit)]
             \/ /\ Refused
                /\ GotoWith(s, "tracing", GateResult(a.audit, FALSE))
                /\ UNCHANGED gateDb
    /\ UNCHANGED <<rulesText, rulesDb, saraDb, up, seq, guardCache, ledger, calls, outcome,
                   enforced>>

\* apply_patch writes new_content; writes is where that is a rules file.
Write(s) ==
    /\ At(s, "writing")
    /\ rulesText' = LET w == Req(s).writes IN
                    IF w = None THEN rulesText ELSE [rulesText EXCEPT ![w[1]] = w[2]]
    /\ Settle(s, "applied")
    /\ UNCHANGED <<rulesDb, saraDb, gateDb, up, seq, guardCache, ledger, calls, enforced,
                   budget>>

\* The write fails, and the answer says so.
WriteFails(s) ==
    /\ At(s, "writing")
    /\ Refused
    /\ Settle(s, "error")
    /\ UNCHANGED <<rulesText, rulesDb, saraDb, gateDb, up, seq, guardCache, ledger, calls,
                   enforced>>

-----------------------------------------------------------------------------
(* The audit of what the tool read.                                        *)

ResultOfVerdict(verdict) ==
    CASE verdict = "ALLOW" -> "released"
      [] verdict = "STRIP_COMMANDS" -> "stripped"
      [] OTHER -> "quarantined"

\* What is found in the texts of each request that can be judged.
Judgements == {[name |-> r, found |-> Merge(Requests[r].texts)] :
                  r \in {r \in DOMAIN Requests :
                            Requests[r].texts # <<>> /\ ~JudgingFails(Requests[r].texts)}}

AuditRead(s) ==
    /\ At(s, "auditing")
    /\ \/ \E j \in Judgements :
             LET verdict == VerdictForRisk(j.found.risk) IN
             /\ j.name = job[s].req
             /\ Granted
             /\ AuditCommit(job[s].n, verdict, Req(s).texts[j.found.source])
             /\ GotoWith(s, IF verdict = "ALLOW" THEN "caching" ELSE "tracing",
                         ResultOfVerdict(verdict))
       \/ /\ \/ Refused
             \/ JudgingFails(Req(s).texts) /\ Granted
          /\ Goto(s, "failclosing")
          /\ UNCHANGED saraDb
    /\ UNCHANGED <<rulesText, rulesDb, gateDb, up, seq, guardCache, ledger, calls, outcome,
                   enforced>>

\* The tool's own work raises before the audit: the semantic cache, or the
\* context engine.  A text that is refused is judged as it was read.
ReadingFails(s) ==
    /\ At(s, "auditing")
    /\ ~Req(s).texts[1].invalid
    /\ Refused
    /\ job' = [job EXCEPT ![s].pc = "shadowing", ![s].res = "error", ![s].eval = None]
    /\ UNCHANGED <<rulesText, rulesDb, saraDb, gateDb, up, seq, guardCache, ledger, calls,
                   outcome, enforced>>

\* What is quarantined when nothing could be judged: the first source that was
\* refused, else the output.
RawForQuarantine(texts) ==
    LET bad == SelectSeq(texts, LAMBDA t : t.invalid)
    IN IF bad = <<>> THEN texts[1] ELSE bad[1]

\* Faulty variant: the verdict that could not be stored is kept.
FailedVerdictKept(name) ==
    IF \E j \in Judgements : j.name = name
    THEN VerdictForRisk((CHOOSE j \in Judgements : j.name = name).found.risk)
    ELSE "QUARANTINE_TOOL"

FailedVerdict(name) == "QUARANTINE_TOOL"

\* The quarantine is reported whether or not it could be stored.
FailClosed(s) ==
    /\ At(s, "failclosing")
    /\ \/ /\ Granted
          /\ AuditCommit(job[s].n, "QUARANTINE_TOOL", RawForQuarantine(Req(s).texts))
       \/ Refused /\ UNCHANGED saraDb
    /\ GotoWith(s, "tracing", ResultOfVerdict(FailedVerdict(job[s].req)))
    /\ UNCHANGED <<rulesText, rulesDb, gateDb, up, seq, guardCache, ledger, calls, outcome,
                   enforced>>

\* prune_file keeps its result; when the semantic cache raises, the call fails.
StoreResult(s) ==
    /\ At(s, "caching")
    /\ \/ Granted /\ Goto(s, "shadowing")
       \/ /\ Refused
          /\ Req(s).tool = "prune_file"
          /\ job' = [job EXCEPT ![s].pc = "shadowing", ![s].res = "error", ![s].eval = None]
    /\ UNCHANGED <<rulesText, rulesDb, saraDb, gateDb, up, seq, guardCache, ledger, calls,
                   outcome, enforced>>

-----------------------------------------------------------------------------
(* The ledger.  Every call of it is wrapped: a step that is refused is     *)
(* lost, and the request goes on.                                          *)

Traced(n, part) ==
    \/ Granted /\ ledger' = ledger \cup {<<n, part>>}
    \/ Refused /\ UNCHANGED ledger

Part(res) ==
    CASE res = "blocked" -> "rules.enforcer"
      [] res \in {"allowed", "rejected"} -> "swe_gate.eval"
      [] OTHER -> "sara.gate"

Trace(s) ==
    /\ At(s, "tracing")
    /\ Traced(job[s].n, Part(job[s].res))
    /\ LET r == Req(s)
           res == job[s].res
       IN IF res = "stripped"
          THEN Goto(s, "caching") /\ UNCHANGED outcome
          ELSE IF res = "allowed" /\ r.tool = "apply_patch"
          THEN Goto(s, "writing") /\ UNCHANGED outcome
          ELSE IF res = "allowed" /\ r.tool \in ReadingTools
          THEN /\ job' = [job EXCEPT ![s].pc = ToolStep(r), ![s].res = ToolResult(r),
                                     ![s].eval = IF r.texts = <<>> THEN None ELSE @]
               /\ UNCHANGED outcome
          ELSE /\ outcome' = [outcome EXCEPT ![job[s].n] =
                                 [kind |-> res,
                                  eval |-> IF res \in {"allowed", "rejected"}
                                           THEN job[s].eval ELSE None]]
               /\ job' = [job EXCEPT ![s] = NoJob]
    /\ UNCHANGED <<rulesText, rulesDb, saraDb, gateDb, up, seq, guardCache, calls, enforced>>

\* _record_shadow_audit
Shadow(s) ==
    /\ At(s, "shadowing")
    /\ Traced(job[s].n, "tool")
    /\ Settle(s, job[s].res)
    /\ UNCHANGED <<rulesText, rulesDb, saraDb, gateDb, up, seq, guardCache, calls, enforced>>

-----------------------------------------------------------------------------
(* What happens to the servers and the files.                              *)

Crash(s) ==
    /\ up[s]
    /\ job[s].pc # "idle"
    /\ Mishap("crash")
    /\ Settle(s, "died")
    /\ up' = [up EXCEPT ![s] = FALSE]
    /\ UNCHANGED <<rulesText, rulesDb, saraDb, gateDb, seq, guardCache, ledger, calls, enforced>>

Restart(s) ==
    /\ ~up[s]
    /\ up' = [up EXCEPT ![s] = TRUE]
    /\ seq' = [seq EXCEPT ![s] = 0]
    /\ guardCache' = [guardCache EXCEPT ![s] = EmptyCache]
    /\ UNCHANGED <<rulesText, rulesDb, saraDb, gateDb, job, ledger, calls, outcome, enforced,
                   budget>>

Edit(f, text) ==
    /\ Mishap("edit")
    /\ EditRules(f, text)
    /\ UNCHANGED <<saraDb, gateDb, local, ledger, calls, outcome, enforced>>

-----------------------------------------------------------------------------
Init ==
    /\ RulesInit /\ rulesText \in InitialRules
    /\ SaraInit
    /\ SweGateInit
    /\ job = [s \in Servers |-> NoJob]
    /\ up = [s \in Servers |-> TRUE]
    /\ seq = [s \in Servers |-> 0]
    /\ guardCache = [s \in Servers |-> EmptyCache]
    /\ ledger = {}
    /\ calls = 0
    /\ outcome = [n \in {} |-> [kind |-> "pending", eval |-> None]]
    /\ enforced = {}
    /\ budget = MaxMishaps

Serve(s) ==
    \/ LoadRules(s) \/ Enforce(s) \/ GuardTraversal(s) \/ LogTraversal(s)
    \/ Register(s) \/ RegisterDefault(s) \/ Record(s) \/ Write(s) \/ WriteFails(s)
    \/ ReadingFails(s) \/ AuditRead(s) \/ FailClosed(s) \/ StoreResult(s) \/ Trace(s) \/ Shadow(s)

Next ==
    \/ \E s \in Servers : \/ \E name \in DOMAIN Requests : Receive(s, name)
                          \/ Serve(s)
                          \/ Crash(s)
                          \/ Restart(s)
    \/ \E f \in RuleFiles, text \in DOMAIN Contents \cup {None} : Edit(f, text)

Spec == Init /\ [][Next]_vars

\* A server that runs goes on with its request.
FairSpec == Spec /\ \A s \in Servers : WF_vars(Serve(s))

-----------------------------------------------------------------------------
(* Properties.                                                             *)

\* What the caller was told of request n, or will be unless something fails.
Says(n, kind) == \/ outcome[n].kind = kind
                 \/ \E s \in Servers : job[s].n = n /\ job[s].res = kind

\* Nothing a tool read reaches a caller unless the verdict that let it is in the
\* audit database, and a payload is kept exactly for the calls whose stored
\* verdict is the quarantine: even when the commit is refused, or the server is
\* killed, between the verdict and the answer (mcp.py:1104-1290).
VerdictsAreStored ==
    /\ \A n \in 1..calls :
         /\ Says(n, "released") => n \in DOMAIN saraLog /\ saraLog[n] = "ALLOW"
         /\ Says(n, "stripped") => n \in DOMAIN saraLog /\ saraLog[n] = "STRIP_COMMANDS"
         /\ Says(n, "quarantined") /\ n \in DOMAIN saraLog => saraLog[n] = "QUARANTINE_TOOL"
    /\ DOMAIN vault = {n \in DOMAIN saraLog : saraLog[n] = "QUARANTINE_TOOL"}

\* A patch is written, or reported as allowed, only under an evaluation that is
\* in the database as ALLOW_MERGE without a finding, and stays there whatever
\* is recorded later for the same commit (mcp.py:961-1068, swegate/store.py:47).
IsAllowed(id) ==
    /\ id \in DOMAIN evals
    /\ evals[id].verdict = "ALLOW_MERGE" /\ evals[id].passed /\ evals[id].violations = 0
    /\ \A f \in findings : f[1] # id

PatchAppliedIsRecorded ==
    /\ \A n \in 1..calls : outcome[n].kind \in {"allowed", "applied"} => IsAllowed(outcome[n].eval)
    /\ \A n \in 1..calls : outcome[n].kind \in {"released", "stripped"}
                           => outcome[n].eval = None \/ IsAllowed(outcome[n].eval)
    /\ \A s \in Servers : job[s].pc = "writing" => IsAllowed(job[s].eval)

\* Every enforcement whose guard has a row is in the log with its own verdict,
\* although ids repeat after a restart, or in another server, and a repeated id
\* is dropped by ON CONFLICT (rules/store.py:138-165).
EnforcementIsLogged ==
    \A e \in enforced : e[1] \in DOMAIN logRows /\ logRows[e[1]] = e[2]

PastRules == {"registering", "registering_default", "recording", "writing", "auditing",
              "failclosing", "caching", "shadowing"}

Denies(f, text, call) == text # None /\ ~ExtractionFails(text)
                         /\ VerdictOn(GuardsOf(f, text), call) = "BLOCKED"

\* A call goes past a rules file that denies it only when that file could not
\* be loaded: never by guards of another version of the file, or of another
\* file, that the server or the database kept (mcp.py:268-325).
DeniedOnlyPastSkippedFiles ==
    \A s \in Servers : job[s].pc \in PastRules =>
        \A f \in RuleFiles : Denies(f, job[s].read[f], Req(s).call)
                             => f \in job[s].skipped

\* The documented promise: a call that its rules file denies is blocked.
DeniedCallsAreBlocked ==
    \A s \in Servers : job[s].pc \in PastRules =>
        \A f \in RuleFiles : ~Denies(f, job[s].read[f], Req(s).call)

\* Every request is answered, or is known to be lost: dropped with an exception
\* that a framed request swallows, or with its server (mcp.py:1941-1975).
EveryCallSettles ==
    \A n \in 1..MaxCalls :
        (n <= calls /\ outcome[n].kind = "pending")
        ~> (n <= calls /\ outcome[n].kind # "pending")

=============================================================================
