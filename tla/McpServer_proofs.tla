-------------------------- MODULE McpServer_proofs --------------------------
(***************************************************************************)
(* Proofs about the MCP server, for any number of servers, requests, rules *)
(* files and contents: what callers are told is in the databases, patches  *)
(* are recorded, enforcements logged, and the guards in force are those of *)
(* the files that were read.                                               *)
(***************************************************************************)
EXTENDS McpServer, Induction, SequenceTheorems

-----------------------------------------------------------------------------
(* Guards.                                                                 *)

AllGuards == UNION {{m.guards[i] : i \in DOMAIN m.guards} : m \in Manifests}

\* A call runs into a guard with this target.
Hits(target, call) ==
    \/ call \in Garbled /\ target.pattern = "PATH_PREFIX"
    \/ call \in Touches[target]

LEMMA NthIsMember ==
    ASSUME NEW S \in SUBSET Int, IsFiniteSet(S), NEW i \in 1..Cardinality(S)
    PROVE  Nth(S, i) \in S /\ Cardinality({m \in S : m <= Nth(S, i)}) = i
BY RankIsOnto DEF Nth

LEMMA NthOfRank ==
    ASSUME NEW S \in SUBSET Int, IsFiniteSet(S), NEW n \in S
    PROVE  \E i \in 1..Cardinality(S) : Nth(S, i) = n
<1>. DEFINE i == Cardinality({m \in S : m <= n})
<1>1. i \in 1..Cardinality(S)
  BY RankIsAPosition
<1>2. Nth(S, i) \in S /\ Cardinality({m \in S : m <= Nth(S, i)}) = i
  <2>. HIDE DEF i
  <2>. QED  BY <1>1, NthIsMember
<1>3. Nth(S, i) = n
  BY <1>2, RankIsInjective
<1>. QED  BY <1>1, <1>3

(* A compiled guard comes from a directive of the text, on its line.       *)
LEMMA GuardsOfText ==
    ASSUME NEW path, NEW text \in DOMAIN Contents
    PROVE  LET lines == Contents[text].lines
               n == Cardinality(Enforceable(lines))
               guards == Guards(path, lines)
           IN  /\ n \in Nat /\ DOMAIN guards = 1..n
               /\ \A i \in 1..n : \E k \in PrepareClauses(lines) :
                     guards[i] = [id |-> <<path, k, lines[k].text>>,
                                  target |-> Classify(lines[k])]
<1>. DEFINE lines == Contents[text].lines
            E == Enforceable(lines)
<1>1. Len(lines) \in Nat /\ DOMAIN lines = 1..Len(lines)
  BY ContentsAssumption
<1>2. PrepareClauses(lines) \in SUBSET (1..Len(lines))
  BY <1>1 DEF PrepareClauses
<1>3. E \in SUBSET PrepareClauses(lines)
  BY DEF Enforceable
<1>4. E \in SUBSET Int /\ IsFiniteSet(E) /\ Cardinality(E) \in Nat
  <2>1. 1..Len(lines) \in SUBSET Int /\ IsFiniteSet(1..Len(lines))
    BY <1>1, FS_Interval
  <2>2. E \in SUBSET (1..Len(lines))
    BY <1>2, <1>3
  <2>. HIDE DEF E, lines
  <2>. QED  BY <2>1, <2>2, FS_Subset, FS_CardinalityType
<1>5. \A i \in 1..Cardinality(E) : Nth(E, i) \in PrepareClauses(lines)
  <2>. HIDE DEF E
  <2>. QED  BY <1>3, <1>4, NthIsMember
<1>. HIDE DEF lines
<1>. QED  BY <1>4, <1>5 DEF Guards, DeriveGuardId, lines

(* The manifest of a text under a path is the one of that id.              *)
LEMMA ManifestGuards ==
    ASSUME NEW path \in RuleFiles \cup {SystemPath}, NEW text \in DOMAIN Contents
    PROVE  /\ GuardsOf(path, text) = Guards(path, Contents[text].lines)
           /\ \A m \in Manifests : m.id = DeriveManifestId(path, text)
                                   => m.guards = GuardsOf(path, text)
           /\ CompileText(path, text) \in Manifests
           /\ CompileText(path, text).id = DeriveManifestId(path, text)
<1>. DEFINE id == DeriveManifestId(path, text)
            it == [id |-> id, guards |-> Guards(path, Contents[text].lines)]
<1>1. it \in Manifests /\ it.id = id
  BY DEF Manifests
<1>2. ASSUME NEW m \in Manifests, m.id = id PROVE m = it
  <2>1. PICK p \in RuleFiles \cup {SystemPath}, t \in DOMAIN Contents :
            m = [id |-> DeriveManifestId(p, t), guards |-> Guards(p, Contents[t].lines)]
    BY DEF Manifests
  <2>2. p = path /\ t = text
    BY <1>2, <2>1 DEF DeriveManifestId
  <2>. QED  BY <2>1, <2>2
<1>3. CompileText(path, text) = it
  <2>. HIDE DEF it
  <2>. QED  BY <1>1, <1>2 DEF CompileText
<1>. QED  BY <1>1, <1>2, <1>3 DEF GuardsOf

LEMMA GuardsAreSequences ==
    ASSUME NEW path \in RuleFiles \cup {SystemPath}, NEW text \in DOMAIN Contents
    PROVE  GuardsOf(path, text) \in Seq(AllGuards)
<1>. DEFINE guards == Guards(path, Contents[text].lines)
            n == Cardinality(Enforceable(Contents[text].lines))
<1>1. n \in Nat /\ DOMAIN guards = 1..n
  BY GuardsOfText
<1>2. guards = [i \in 1..n |-> guards[i]]
  BY DEF Guards
<1>3. \A i \in 1..n : guards[i] \in AllGuards
  <2>1. CompileText(path, text) \in Manifests /\ CompileText(path, text).guards = guards
    BY ManifestGuards DEF GuardsOf
  <2>. QED  BY <1>1, <2>1 DEF AllGuards
<1>4. GuardsOf(path, text) = guards
  BY ManifestGuards
<1>. HIDE DEF guards, n
<1>. QED  BY <1>1, <1>2, <1>3, <1>4, IsASeq

(* A guard's id determines its target.                                     *)
LEMMA IdDeterminesTarget ==
    ASSUME NEW g \in AllGuards, NEW h \in AllGuards, g.id = h.id
    PROVE  g.target = h.target
<1>1. ASSUME NEW f \in AllGuards
      PROVE  \E path, k : \E d \in Directives :
                f = [id |-> <<path, k, d.text>>, target |-> Classify(d)]
  <2>1. PICK path \in RuleFiles \cup {SystemPath}, text \in DOMAIN Contents :
            f \in {Guards(path, Contents[text].lines)[i] :
                      i \in DOMAIN Guards(path, Contents[text].lines)}
    BY <1>1 DEF AllGuards, Manifests
  <2>. DEFINE lines == Contents[text].lines
  <2>2. PICK i \in DOMAIN Guards(path, lines) : f = Guards(path, lines)[i]
    BY <2>1
  <2>5. /\ DOMAIN Guards(path, lines) = 1..Cardinality(Enforceable(lines))
        /\ \A j \in 1..Cardinality(Enforceable(lines)) : \E k \in PrepareClauses(lines) :
              Guards(path, lines)[j] = [id |-> <<path, k, lines[k].text>>,
                                        target |-> Classify(lines[k])]
    BY GuardsOfText
  <2>3. PICK k \in PrepareClauses(lines) :
            f = [id |-> <<path, k, lines[k].text>>, target |-> Classify(lines[k])]
    BY <2>2, <2>5
  <2>4. lines[k] \in Directives
    BY <2>3 DEF Directives
  <2>. HIDE DEF lines
  <2>. QED  BY <2>3, <2>4
<1>2. PICK p1, k1 : \E d \in Directives : g = [id |-> <<p1, k1, d.text>>, target |-> Classify(d)]
  BY <1>1
<1>3. PICK p2, k2 : \E d \in Directives : h = [id |-> <<p2, k2, d.text>>, target |-> Classify(d)]
  BY <1>1
<1>. QED  BY <1>2, <1>3, DirectivesAssumption

-----------------------------------------------------------------------------
(* Guards of several files in one list.                                    *)

(* Collecting keeps the list, and has a guard of every id of the addition. *)
LEMMA CollectedGuards ==
    ASSUME NEW guards \in Seq(AllGuards), NEW more \in Seq(AllGuards)
    PROVE  /\ Collect(guards, more) \in Seq(AllGuards)
           /\ \A i \in DOMAIN guards : \E c \in DOMAIN Collect(guards, more) :
                 Collect(guards, more)[c] = guards[i]
           /\ \A k \in DOMAIN more : \E c \in DOMAIN Collect(guards, more) :
                 Collect(guards, more)[c].id = more[k].id
<1>. DEFINE new == {k \in DOMAIN more : \A i \in DOMAIN guards : guards[i].id # more[k].id}
            n == Cardinality(new)
            rest == [i \in 1..n |-> more[Nth(new, i)]]
<1>1. Len(more) \in Nat /\ DOMAIN more = 1..Len(more) /\ Len(guards) \in Nat
         /\ DOMAIN guards = 1..Len(guards)
  OBVIOUS
<1>2. new \in SUBSET DOMAIN more
  OBVIOUS
<1>3. new \in SUBSET Int /\ IsFiniteSet(new) /\ n \in Nat
  <2>1. 1..Len(more) \in SUBSET Int /\ IsFiniteSet(1..Len(more))
    BY <1>1, FS_Interval
  <2>. HIDE DEF new
  <2>. QED  BY <1>1, <1>2, <2>1, FS_Subset, FS_CardinalityType
<1>4. \A i \in 1..n : Nth(new, i) \in new
  <2>. HIDE DEF new
  <2>. QED  BY <1>3, NthIsMember
<1>5. rest \in Seq(AllGuards) /\ Len(rest) = n
  <2>1. \A i \in 1..n : more[Nth(new, i)] \in AllGuards
    BY <1>1, <1>2, <1>4
  <2>. HIDE DEF new, n
  <2>. QED  BY <1>3, <2>1, IsASeq
<1>6. Collect(guards, more) = guards \o rest
  BY DEF Collect
<1>7. ASSUME NEW k \in DOMAIN more
      PROVE  \E c \in DOMAIN (guards \o rest) : (guards \o rest)[c].id = more[k].id
  <2>1. CASE k \notin new
    <3>1. PICK i \in DOMAIN guards : guards[i].id = more[k].id
      BY <2>1
    <3>. HIDE DEF rest, n, new
    <3>. QED  BY <1>1, <1>3, <1>5, <3>1
  <2>2. CASE k \in new
    <3>1. PICK i \in 1..n : Nth(new, i) = k
      <4>. HIDE DEF new
      <4>. QED  BY <1>3, <2>2, NthOfRank
    <3>2. rest[i] = more[k]
      BY <3>1
    <3>3. Len(guards) + i \in DOMAIN (guards \o rest)
             /\ (guards \o rest)[Len(guards) + i] = rest[i]
      <4>. HIDE DEF rest, n, new
      <4>. QED  BY <1>1, <1>3, <1>5, <3>1
    <3>. HIDE DEF rest, n, new
    <3>. QED  BY <3>2, <3>3
  <2>. QED  BY <2>1, <2>2
<1>. HIDE DEF rest, n, new
<1>8. \A i \in DOMAIN guards : i \in DOMAIN (guards \o rest) /\ (guards \o rest)[i] = guards[i]
  BY <1>1, <1>3, <1>5
<1>. QED  BY <1>5, <1>6, <1>7, <1>8

-----------------------------------------------------------------------------
(* Types, and the request a server is at.                                  *)

Stages == {"idle", "guarding", "loading", "enforcing", "logging", "registering",
           "registering_default", "recording", "writing", "auditing", "failclosing",
           "caching", "tracing", "shadowing"}

Results == {"none", "plain", "error", "blocked", "allowed", "rejected", "released",
            "stripped", "quarantined"}

Kinds == Results \cup {"pending", "silent", "dropped", "died", "applied"}

Texts == DOMAIN Contents \cup {None}

RepoIds == {RepoIdOf(Requests[r].patch) : r \in {r \in DOMAIN Requests : Requests[r].patch # None}}
           \cup {DefaultName, None}

Jobs == [pc : Stages, n : Nat, req : DOMAIN Requests \cup {None}, left : Seq(RuleFiles),
         guards : Seq(AllGuards), read : [RuleFiles -> Texts], skipped : SUBSET RuleFiles,
         repo : RepoIds, res : Results, eval : DOMAIN evals \cup {None}]

Outcomes == [kind : Kinds, eval : DOMAIN evals \cup {None}]

CachesOK ==
    /\ DOMAIN guardCache = Servers
    /\ \A s \in Servers :
          /\ DOMAIN guardCache[s] \subseteq RuleFiles \X DOMAIN Contents
          /\ \A key \in DOMAIN guardCache[s] : guardCache[s][key] \in Seq(AllGuards)

AroundOK ==
    /\ rulesText \in [RuleFiles -> Texts]
    /\ up \in [Servers -> BOOLEAN]
    /\ seq \in [Servers -> Nat]
    /\ CachesOK

TypeOK ==
    /\ AroundOK
    /\ job \in [Servers -> Jobs]
    /\ calls \in Nat
    /\ outcome \in [1..calls -> Outcomes]

(* A server that serves is at a request that was received, is not answered *)
(* yet, and is served by nobody else.                                      *)
ServesOne ==
    /\ \A s \in Servers :
         IF job[s].pc = "idle" THEN job[s] = NoJob
         ELSE /\ job[s].req \in DOMAIN Requests
              /\ job[s].n \in 1..calls
              /\ outcome[job[s].n].kind = "pending"
    /\ \A s, t \in Servers : s # t /\ job[s].n = job[t].n => job[s].n = 0
    /\ \A s \in Servers :
          /\ job[s].pc = "loading" => job[s].left # <<>>
          /\ job[s].pc = "registering" => Req(s).patch # None

ServerInv == TypeOK /\ ServesOne

LEMMA ServerStart == Init => ServerInv
<1>. SUFFICES ASSUME Init PROVE ServerInv
  OBVIOUS
<1>. USE DEF Init, RulesInit, SweGateInit
<1>1. NoJob \in Jobs
  BY DEF NoJob, Jobs, Stages, Texts, RepoIds, Results
<1>2. AroundOK
  BY DEF AroundOK, CachesOK, EmptyCache, Texts
<1>3. TypeOK
  BY <1>1, <1>2 DEF TypeOK
<1>4. ServesOne
  BY DEF ServesOne, NoJob
<1>. QED  BY <1>3, <1>4 DEF ServerInv

(* The server goes on with its request, from one stage to another.         *)
Advances(s, j) ==
    /\ job[s].pc # "idle" /\ j.pc # "idle" /\ j.n = job[s].n /\ j.req = job[s].req
    /\ job' = [job EXCEPT ![s] = j]
    /\ UNCHANGED <<calls, outcome>>

LEMMA AdvanceKeeps ==
    ASSUME ServerInv, NEW s \in Servers, NEW j \in Jobs', Advances(s, j),
           j.pc = "loading" => j.left # <<>>,
           j.pc = "registering" => Requests[j.req].patch # None,
           AroundOK', DOMAIN evals \subseteq DOMAIN evals'
    PROVE  ServerInv'
<1>. USE DEF ServerInv, TypeOK, Advances
<1>1. \A k \in Jobs : k \in Jobs'
  BY DEF Jobs
<1>2. \A o \in Outcomes : o \in Outcomes'
  BY DEF Outcomes
<1>3. TypeOK'
  BY <1>1, <1>2
<1>4. ServesOne'
  BY DEF ServesOne, Req
<1>. QED  BY <1>3, <1>4

(* The request is done with, and the server waits.                         *)
Settles(s, o) ==
    /\ job[s].pc # "idle"
    /\ job' = [job EXCEPT ![s] = NoJob]
    /\ outcome' = [outcome EXCEPT ![job[s].n] = o]
    /\ UNCHANGED calls

LEMMA SettleKeeps ==
    ASSUME ServerInv, NEW s \in Servers, NEW o \in Outcomes', Settles(s, o),
           AroundOK', DOMAIN evals \subseteq DOMAIN evals'
    PROVE  ServerInv'
<1>. USE DEF ServerInv, TypeOK, Settles
<1>1. \A k \in Jobs : k \in Jobs'
  BY DEF Jobs
<1>2. \A r \in Outcomes : r \in Outcomes'
  BY DEF Outcomes
<1>3. NoJob \in Jobs' /\ NoJob.pc = "idle" /\ NoJob.n = 0
  BY DEF NoJob, Jobs, Stages, Texts, RepoIds, Results
<1>4. TypeOK'
  BY <1>1, <1>2, <1>3
<1>5. ServesOne'
  BY <1>3 DEF ServesOne, Req
<1>. QED  BY <1>4, <1>5

(* What is known of a server that is not idle.                             *)
LEMMA AtServes ==
    ASSUME ServerInv, NEW s \in Servers, job[s].pc # "idle"
    PROVE  /\ job[s] \in Jobs /\ job[s].n \in 1..calls /\ job[s].req \in DOMAIN Requests
           /\ outcome[job[s].n] \in Outcomes /\ outcome[job[s].n].kind = "pending"
           /\ \A t \in Servers : t # s => job[t].n # job[s].n
           /\ AroundOK /\ calls \in Nat
BY DEF ServerInv, TypeOK, ServesOne

(* The stage and the result of a job, whatever else is left as it is.      *)
LEMMA GotoAdvances ==
    ASSUME ServerInv, NEW s \in Servers, job[s].pc # "idle",
           NEW pc \in Stages \ {"idle"}, NEW res \in Results,
           UNCHANGED <<calls, outcome>>,
           \/ Goto(s, pc) /\ res = job[s].res
           \/ GotoWith(s, pc, res)
    PROVE  Advances(s, [job[s] EXCEPT !.pc = pc, !.res = res])
<1>1. job[s] \in Jobs
  BY AtServes
<1>2. job' = [job EXCEPT ![s] = [job[s] EXCEPT !.pc = pc, !.res = res]]
  BY <1>1 DEF Goto, GotoWith, Jobs, ServerInv, TypeOK
<1>. QED  BY <1>1, <1>2 DEF Advances, Jobs

LEMMA GotoKeeps ==
    ASSUME ServerInv, NEW s \in Servers, job[s].pc # "idle",
           NEW pc \in Stages \ {"idle", "loading", "registering"}, NEW res \in Results,
           UNCHANGED <<calls, outcome, evals>>, AroundOK',
           \/ Goto(s, pc) /\ res = job[s].res
           \/ GotoWith(s, pc, res)
    PROVE  ServerInv'
<1>. DEFINE j == [job[s] EXCEPT !.pc = pc, !.res = res]
<1>1. job[s] \in Jobs
  BY AtServes
<1>2. j \in Jobs' /\ j.pc = pc
  BY <1>1 DEF Jobs
<1>3. Advances(s, j)
  BY GotoAdvances
<1>. HIDE DEF j
<1>. QED  BY <1>2, <1>3, AdvanceKeeps

(* Past the rules.                                                         *)
LEMMA AfterRulesGoto ==
    ASSUME NEW s \in Servers, job[s].req \in DOMAIN Requests, AfterRules(s)
    PROVE  \/ Req(s).patch # None /\ Goto(s, "registering")
           \/ \E pc \in {"auditing", "shadowing"}, res \in {"none", "plain", "error"} :
                 GotoWith(s, pc, res)
<1>. DEFINE r == Req(s)
<1>1. ToolStep(r) \in {"auditing", "shadowing"} /\ ToolResult(r) \in {"none", "plain", "error"}
  BY DEF ToolStep, ToolResult
<1>2. r.tool \in SweGateTools => r.patch # None
  BY RequestsAssumption DEF Req
<1>3. \/ r.patch # None /\ Goto(s, "registering")
      \/ GotoWith(s, ToolStep(r), ToolResult(r))
  BY <1>2 DEF AfterRules
<1>. HIDE DEF r
<1>. QED  BY <1>1, <1>3 DEF r

LEMMA AfterRulesKeeps ==
    ASSUME ServerInv, NEW s \in Servers, job[s].pc # "idle", AfterRules(s),
           UNCHANGED <<calls, outcome, evals>>, AroundOK'
    PROVE  ServerInv'
<1>1. CASE Req(s).patch # None /\ Goto(s, "registering")
  <2>. DEFINE j == [job[s] EXCEPT !.pc = "registering", !.res = job[s].res]
  <2>1. job[s] \in Jobs
    BY AtServes
  <2>2. j \in Jobs' /\ j.pc = "registering" /\ j.req = job[s].req
    BY <2>1 DEF Jobs, Stages
  <2>3. Advances(s, j)
    BY <1>1, <2>1, GotoAdvances DEF Stages, Jobs
  <2>. HIDE DEF j
  <2>. QED  BY <1>1, <2>2, <2>3, AdvanceKeeps DEF Req
<1>2. ASSUME NEW pc \in {"auditing", "shadowing"}, NEW res \in {"none", "plain", "error"},
             GotoWith(s, pc, res)
      PROVE  ServerInv'
  BY <1>2, GotoKeeps DEF Stages, Results
<1>. QED  BY <1>1, <1>2, AtServes, AfterRulesGoto

(* A received request is known by a number of its own.                     *)
LEMMA ReceiveKeeps ==
    ASSUME ServerInv, NEW s \in Servers, NEW name \in DOMAIN Requests, Receive(s, name)
    PROVE  ServerInv'
<1>. USE DEF ServerInv, TypeOK
<1>. DEFINE r == Requests[name]
            j == [NoJob EXCEPT
                    !.pc = IF r.traversal THEN "guarding"
                           ELSE IF FilesOf[r.root] = <<>> THEN "enforcing" ELSE "loading",
                    !.n = calls + 1, !.req = name, !.left = FilesOf[r.root]]
<1>1. job[s] = NoJob /\ calls' = calls + 1 /\ calls \in Nat
  BY DEF Receive, At, ServesOne
<1>2. NoJob \in Jobs
  BY DEF NoJob, Jobs, Stages, Texts, RepoIds, Results
<1>3. /\ j \in Jobs /\ j.n = calls + 1 /\ j.req = name
      /\ j.pc \in {"guarding", "enforcing", "loading"}
      /\ j.pc = "loading" => j.left # <<>>
  <2>1. FilesOf[r.root] \in Seq(RuleFiles)
    BY RequestsAssumption
  <2>. DEFINE pc == IF r.traversal THEN "guarding"
                    ELSE IF FilesOf[r.root] = <<>> THEN "enforcing" ELSE "loading"
  <2>3. /\ pc \in Stages /\ calls + 1 \in Nat
        /\ pc \in {"guarding", "enforcing", "loading"}
        /\ pc = "loading" => FilesOf[r.root] # <<>>
    BY <1>1 DEF Stages
  <2>4. LET k == [NoJob EXCEPT !.pc = pc, !.n = calls + 1, !.req = name, !.left = FilesOf[r.root]]
        IN  /\ k \in Jobs /\ k.pc = pc /\ k.n = calls + 1 /\ k.req = name
            /\ k.left = FilesOf[r.root]
    <3>. DEFINE left == FilesOf[r.root]
    <3>. HIDE DEF r, pc, left
    <3>. QED  BY <1>2, <2>1, <2>3 DEF Jobs, left
  <2>5. j \in Jobs /\ j.pc = pc /\ j.n = calls + 1 /\ j.req = name /\ j.left = FilesOf[r.root]
    BY <2>4
  <2>. HIDE DEF r, pc, j
  <2>. QED  BY <2>3, <2>5
<1>4. job' = IF r.kind # "call" THEN job ELSE [job EXCEPT ![s] = j]
  BY DEF Receive
<1>5. /\ outcome' \in [1..calls' -> Outcomes']
      /\ \A n \in 1..calls : outcome'[n] = outcome[n]
      /\ r.kind = "call" => outcome'[calls + 1].kind = "pending"
  <2>1. ReplyTo(r.kind) \in Kinds /\ (r.kind = "call" => ReplyTo(r.kind) = "pending")
    BY DEF ReplyTo, Kinds, Results
  <2>2. outcome' = [n \in 1..(calls + 1) |->
                      IF n <= calls THEN outcome[n]
                      ELSE [kind |-> ReplyTo(r.kind), eval |-> None]]
           /\ UNCHANGED evals
    BY DEF Receive, gateDb
  <2>. HIDE DEF r
  <2>. QED  BY <1>1, <2>1, <2>2 DEF Outcomes
<1>6. AroundOK' /\ UNCHANGED evals
  BY DEF Receive, gateDb, AroundOK, CachesOK
<1>7. job' \in [Servers -> Jobs']
  <2>. HIDE DEF j
  <2>. QED  BY <1>3, <1>4, <1>6 DEF Jobs
<1>8. TypeOK'
  BY <1>1, <1>5, <1>6, <1>7
<1>9. ServesOne'
  <2>1. \A t \in Servers : job[t].n \in 0..calls /\ (t # s => job'[t] = job[t])
           /\ job[t].n # calls + 1
    <3>. HIDE DEF j
    <3>. QED  BY <1>1, <1>4 DEF ServesOne, NoJob
  <2>2. r.kind = "call" => job'[s] = j
    <3>. HIDE DEF j
    <3>. QED  BY <1>4
  <2>3. r.kind # "call" => job'[s] = NoJob
    BY <1>1, <1>4
  <2>4. job'[s] = NoJob \/ (job'[s] = j /\ r.kind = "call")
    BY <2>2, <2>3
  <2>5. \A t \in Servers : t # s => job'[t].n # calls + 1 /\ job'[t] = job[t]
    BY <2>1
  <2>. HIDE DEF j, r
  <2>6. \A t \in Servers :
            IF job'[t].pc = "idle" THEN job'[t] = NoJob
            ELSE /\ job'[t].req \in DOMAIN Requests
                 /\ job'[t].n \in 1..calls'
                 /\ outcome'[job'[t].n].kind = "pending"
    <3>1. CASE \E t \in {s} : job'[t] = j /\ r.kind = "call"
      BY <1>1, <1>3, <1>5, <2>5, <3>1 DEF ServesOne
    <3>2. CASE job'[s] = NoJob
      <4>1. NoJob.pc = "idle"
        BY DEF NoJob
      <4>2. ASSUME NEW t \in Servers, t # s, job[t].pc # "idle"
            PROVE  /\ job[t].req \in DOMAIN Requests /\ job[t].n \in 1..calls'
                   /\ outcome'[job[t].n].kind = "pending"
        BY <1>1, <1>5, <4>2 DEF ServesOne
      <4>3. ASSUME NEW t \in Servers, t # s, job[t].pc = "idle" PROVE job[t] = NoJob
        BY <4>3 DEF ServesOne
      <4>. QED  BY <2>5, <3>2, <4>1, <4>2, <4>3
    <3>. QED  BY <2>4, <3>1, <3>2
  <2>7. \A t, u \in Servers : t # u /\ job'[t].n = job'[u].n => job'[t].n = 0
    BY <1>3, <2>1, <2>4, <2>5 DEF ServesOne, NoJob
  <2>8. \A t \in Servers :
            /\ job'[t].pc = "loading" => job'[t].left # <<>>
            /\ job'[t].pc = "registering" => Requests[job'[t].req].patch # None
    BY <1>3, <2>4, <2>5 DEF ServesOne, NoJob, Req
  <2>. QED  BY <2>6, <2>7, <2>8 DEF ServesOne, Req
<1>. QED  BY <1>8, <1>9

(* The file at hand, read or passed over.                                  *)
TakenJob(j, text, guards) ==
    [j EXCEPT !.left = Tail(@), !.read[Head(j.left)] = text, !.guards = Collect(@, guards),
              !.pc = IF Len(j.left) = 1 THEN "enforcing" ELSE @]

SkippedJob(j, text) ==
    [j EXCEPT !.left = Tail(@), !.read[Head(j.left)] = text, !.skipped = @ \cup {Head(j.left)},
              !.pc = IF Len(j.left) = 1 THEN "enforcing" ELSE @]

LEMMA TakenJobIsAJob ==
    ASSUME NEW j \in Jobs, j.left # <<>>, j.pc = "loading", NEW text \in Texts,
           NEW guards \in Seq(AllGuards)
    PROVE  /\ Head(j.left) \in RuleFiles
           /\ LET k == TakenJob(j, text, guards) IN
              /\ k \in Jobs /\ k.n = j.n /\ k.req = j.req /\ k.res = j.res /\ k.eval = j.eval
              /\ k.pc \in {"loading", "enforcing"} /\ (k.pc = "loading" => k.left # <<>>)
              /\ k.skipped = j.skipped /\ k.guards = Collect(j.guards, guards)
              /\ k.read = [j.read EXCEPT ![Head(j.left)] = text]
           /\ LET k == SkippedJob(j, text) IN
              /\ k \in Jobs /\ k.n = j.n /\ k.req = j.req /\ k.res = j.res /\ k.eval = j.eval
              /\ k.pc \in {"loading", "enforcing"} /\ (k.pc = "loading" => k.left # <<>>)
              /\ k.skipped = j.skipped \cup {Head(j.left)} /\ k.guards = j.guards
              /\ k.read = [j.read EXCEPT ![Head(j.left)] = text]
<1>. DEFINE all == Collect(j.guards, guards)
            pc == IF Len(j.left) = 1 THEN "enforcing" ELSE j.pc
            f == Head(j.left)
            rest == Tail(j.left)
            passed == j.skipped \cup {f}
<1>1. j.left \in Seq(RuleFiles) /\ j.guards \in Seq(AllGuards)
         /\ j.read \in [RuleFiles -> Texts] /\ j.skipped \subseteq RuleFiles
  BY DEF Jobs
<1>2. f \in RuleFiles /\ rest \in Seq(RuleFiles) /\ (Len(j.left) # 1 => rest # <<>>)
  <2>1. f \in RuleFiles /\ rest \in Seq(RuleFiles) /\ Len(rest) = Len(j.left) - 1
    BY <1>1, HeadTailProperties
  <2>2. Len(j.left) \in Nat /\ Len(<<>>) = 0
    BY <1>1, LenProperties
  <2>. HIDE DEF f, rest
  <2>3. rest = <<>> => Len(rest) = 0
    BY <2>2, Zenon
  <2>4. Len(j.left) # 1 => Len(rest) # 0
    BY <2>1, <2>2
  <2>. QED  BY <2>1, <2>3, <2>4, Zenon
<1>3. all \in Seq(AllGuards)
  BY <1>1, CollectedGuards
<1>4. pc \in {"loading", "enforcing"} /\ (pc = "loading" => rest # <<>>) /\ pc \in Stages
  BY <1>2 DEF Stages
<1>5. [j.read EXCEPT ![f] = text] \in [RuleFiles -> Texts]
  BY <1>1, <1>2
<1>6. TakenJob(j, text, guards) = [j EXCEPT !.left = rest, !.read = [j.read EXCEPT ![f] = text],
                                            !.guards = all, !.pc = pc]
  BY DEF TakenJob, Jobs
<1>7. SkippedJob(j, text) = [j EXCEPT !.left = rest, !.read = [j.read EXCEPT ![f] = text],
                                      !.skipped = passed, !.pc = pc]
  BY DEF SkippedJob, Jobs
<1>a. passed \in SUBSET RuleFiles
  BY <1>1, <1>2
<1>. HIDE DEF all, pc, f, rest, passed
<1>8. LET k == TakenJob(j, text, guards) IN
              /\ k \in Jobs /\ k.n = j.n /\ k.req = j.req /\ k.res = j.res /\ k.eval = j.eval
              /\ k.pc = pc /\ k.left = rest
              /\ k.skipped = j.skipped /\ k.guards = all
              /\ k.read = [j.read EXCEPT ![f] = text]
  BY <1>1, <1>2, <1>3, <1>4, <1>5, <1>6 DEF Jobs
<1>9. LET k == SkippedJob(j, text) IN
              /\ k \in Jobs /\ k.n = j.n /\ k.req = j.req /\ k.res = j.res /\ k.eval = j.eval
              /\ k.pc = pc /\ k.left = rest
              /\ k.skipped = passed /\ k.guards = j.guards
              /\ k.read = [j.read EXCEPT ![f] = text]
  BY <1>a, <1>2, <1>4, <1>5, <1>7 DEF Jobs
<1>. QED  BY <1>2, <1>4, <1>8, <1>9 DEF f, all, passed

(* What loading a rules file comes to.                                     *)
Took(s, text, guards) ==
    /\ Advances(s, TakenJob(job[s], text, guards))
    /\ guards \in Seq(AllGuards)
    /\ \/ text = None
       \/ ExtractionFails(text)
       \/ /\ Head(job[s].left) \in RuleFiles
          /\ \/ guards = GuardsOf(Head(job[s].left), text)
             \/ /\ CacheKey(Head(job[s].left), text) \in DOMAIN guardCache[s]
                /\ guards = guardCache[s][CacheKey(Head(job[s].left), text)]

LEMMA LoadRulesCases ==
    ASSUME ServerInv, NEW s \in Servers, LoadRules(s)
    PROVE  /\ \/ /\ \E text \in Texts, guards \in Seq(AllGuards) : Took(s, text, guards)
                 /\ UNCHANGED guardCache
              \/ /\ \E text \in DOMAIN Contents : \E guards \in Seq(AllGuards) :
                       /\ Took(s, text, guards)
                       /\ ExtractionFails(text) \/ guards = GuardsOf(Head(job[s].left), text)
                       /\ guardCache' = [guardCache EXCEPT ![s] =
                              Remember(@, CacheKey(Head(job[s].left), text), guards)]
              \/ /\ \E text \in Texts : Advances(s, SkippedJob(job[s], text))
                 /\ UNCHANGED guardCache
           /\ Head(job[s].left) \in RuleFiles
           /\ job[s] \in Jobs /\ job[s].pc = "loading" /\ job[s].left # <<>>
           /\ UNCHANGED <<rulesText, logRows, enforced, saraLog, vault, repos, evals,
                          findings, up, seq, calls, outcome>>
<1>. DEFINE f == Head(job[s].left)
            text == rulesText[f]
            key == CacheKey(f, text)
            hit == text # None /\ key \in DOMAIN guardCache[s]
<1>1. /\ job[s] \in Jobs /\ job[s].pc = "loading" /\ job[s].left # <<>> /\ f \in RuleFiles
      /\ text \in Texts /\ job \in [Servers -> Jobs]
  BY DEF LoadRules, At, ServerInv, ServesOne, TypeOK, AroundOK, Jobs
<1>2. UNCHANGED <<rulesText, saraLog, vault, repos, evals, findings, up, seq, calls, outcome,
                  enforced>>
  BY DEF LoadRules, saraDb, gateDb
<1>3. ASSUME NEW guards \in Seq(AllGuards), Take(s, text, guards)
      PROVE  Advances(s, TakenJob(job[s], text, guards))
  <2>1. job' = [job EXCEPT ![s] = TakenJob(job[s], text, guards)]
    BY <1>1, <1>3 DEF Take, TakenJob
  <2>. QED  BY <1>1, <1>2, <2>1, TakenJobIsAJob DEF Advances
<1>4. ASSUME Skip(s, text) PROVE Advances(s, SkippedJob(job[s], text))
  <2>1. job' = [job EXCEPT ![s] = SkippedJob(job[s], text)]
    BY <1>1, <1>4 DEF Skip, SkippedJob
  <2>. QED  BY <1>1, <1>2, <2>1, TakenJobIsAJob, EmptySeq DEF Advances
<1>5. CASE /\ text = None \/ hit
           /\ Take(s, text, IF hit THEN guardCache[s][key] ELSE <<>>)
           /\ UNCHANGED <<rulesDb, guardCache>>
  <2>. DEFINE guards == IF hit THEN guardCache[s][key] ELSE <<>>
  <2>1. guards \in Seq(AllGuards)
    BY DEF ServerInv, TypeOK, AroundOK, CachesOK
  <2>2. Took(s, text, guards)
    BY <1>1, <1>3, <1>5, <2>1 DEF Took
  <2>. HIDE DEF guards
  <2>. QED  BY <1>1, <1>2, <1>5, <2>1, <2>2 DEF rulesDb
<1>6. CASE /\ text # None /\ ExtractionFails(text)
           /\ Loads(s, key, text, <<>>) /\ UNCHANGED rulesDb
  <2>1. <<>> \in Seq(AllGuards)
    OBVIOUS
  <2>2. Took(s, text, <<>>)
    BY <1>3, <1>6, <2>1 DEF Took, Loads
  <2>3. text \in DOMAIN Contents
    BY <1>1, <1>6 DEF Texts
  <2>. QED  BY <1>1, <1>2, <1>6, <2>1, <2>2, <2>3 DEF rulesDb, Loads
<1>7. ASSUME NEW m \in Manifests, text # None, m.id = DeriveManifestId(f, text),
             Loads(s, key, text, m.guards), UNCHANGED logRows
      PROVE  \E t \in DOMAIN Contents : \E guards \in Seq(AllGuards) :
                 /\ Took(s, t, guards)
                 /\ guards = GuardsOf(f, t)
                 /\ guardCache' = [guardCache EXCEPT ![s] = Remember(@, CacheKey(f, t), guards)]
  <2>1. text \in DOMAIN Contents
    BY <1>1, <1>7 DEF Texts
  <2>2. m.guards = GuardsOf(f, text) /\ m.guards \in Seq(AllGuards)
    BY <1>1, <1>7, <2>1, ManifestGuards, GuardsAreSequences
  <2>3. Took(s, text, m.guards)
    BY <1>1, <1>3, <1>7, <2>2 DEF Took, Loads
  <2>. QED  BY <1>7, <2>1, <2>2, <2>3 DEF Loads
<1>8. \/ /\ text = None \/ hit
         /\ Take(s, text, IF hit THEN guardCache[s][key] ELSE <<>>)
         /\ UNCHANGED <<rulesDb, guardCache>>
      \/ text # None /\ LoadNew(s, f, text, key)
  BY DEF LoadRules
<1>9. CASE text # None /\ LoadNew(s, f, text, key)
  <2>1. \/ ExtractionFails(text) /\ Loads(s, key, text, <<>>) /\ UNCHANGED rulesDb
        \/ \E m \in Manifests : m.id = DeriveManifestId(f, text)
                                /\ Loads(s, key, text, m.guards) /\ UNCHANGED logRows
        \/ Skip(s, text) /\ UNCHANGED <<guardCache, logRows>>
    BY <1>9 DEF LoadNew, rulesDb
  <2>. HIDE DEF text, key, f
  <2>2. CASE ExtractionFails(text) /\ Loads(s, key, text, <<>>) /\ UNCHANGED rulesDb
    BY <1>6, <1>9, <2>2
  <2>3. CASE \E m \in Manifests : m.id = DeriveManifestId(f, text)
                                /\ Loads(s, key, text, m.guards) /\ UNCHANGED logRows
    BY <1>1, <1>2, <1>7, <1>9, <2>3 DEF f
  <2>4. CASE Skip(s, text) /\ UNCHANGED <<guardCache, logRows>>
    BY <1>1, <1>2, <1>4, <2>4 DEF f
  <2>. QED  BY <2>1, <2>2, <2>3, <2>4
<1>. QED  BY <1>5, <1>8, <1>9

LEMMA LoadRulesAdvances ==
    ASSUME ServerInv, NEW s \in Servers, LoadRules(s)
    PROVE  \E j \in Jobs : /\ Advances(s, j) /\ j.pc \in {"loading", "enforcing"}
                           /\ j.res = job[s].res /\ j.eval = job[s].eval
<1>1. job[s] \in Jobs /\ job[s].pc = "loading" /\ job[s].left # <<>>
  BY LoadRulesCases
<1>2. \/ \E text \in Texts, guards \in Seq(AllGuards) :
            Advances(s, TakenJob(job[s], text, guards))
      \/ \E text \in Texts : Advances(s, SkippedJob(job[s], text))
  BY LoadRulesCases DEF Took, Texts
<1>3. ASSUME NEW text \in Texts, NEW guards \in Seq(AllGuards)
      PROVE  LET j == TakenJob(job[s], text, guards)
             IN  j \in Jobs /\ j.pc \in {"loading", "enforcing"} /\ j.res = job[s].res
                 /\ j.eval = job[s].eval
  BY <1>1, TakenJobIsAJob
<1>4. ASSUME NEW text \in Texts
      PROVE  LET j == SkippedJob(job[s], text)
             IN  j \in Jobs /\ j.pc \in {"loading", "enforcing"} /\ j.res = job[s].res
                 /\ j.eval = job[s].eval
  BY <1>1, TakenJobIsAJob, EmptySeq
<1>. QED  BY <1>2, <1>3, <1>4

LEMMA ResetKeeps ==
    ASSUME ServerInv, NEW s \in Servers, NEW kind \in Kinds, job[s].pc # "idle",
           Settle(s, kind), UNCHANGED <<calls, evals>>, AroundOK'
    PROVE  ServerInv'
<1>. DEFINE o == [kind |-> kind, eval |-> job[s].eval]
<1>1. o \in Outcomes'
  BY AtServes DEF Outcomes, Jobs
<1>2. Settles(s, o)
  BY DEF Settle, Settles
<1>. HIDE DEF o
<1>. QED  BY <1>1, <1>2, SettleKeeps

LEMMA EscapeKeeps ==
    ASSUME ServerInv, NEW s \in Servers, job[s].pc # "idle", Escape(s),
           UNCHANGED <<calls, evals, rulesText, guardCache>>, seq' \in [Servers -> Nat]
    PROVE  ServerInv'
<1>1. AroundOK
  BY DEF ServerInv, TypeOK
<1>2. AroundOK'
  <2>1. Req(s).framed \in BOOLEAN
    BY AtServes, RequestsAssumption DEF Req
  <2>. QED  BY <1>1, <2>1 DEF Escape, AroundOK, CachesOK
<1>3. PICK kind \in Kinds : Settle(s, kind)
  BY DEF Escape, Kinds
<1>. QED  BY <1>2, <1>3, ResetKeeps

LEMMA LoadRulesKeeps ==
    ASSUME ServerInv, NEW s \in Servers, LoadRules(s)
    PROVE  ServerInv'
<1>a. /\ AroundOK /\ job[s] \in Jobs /\ job[s].pc = "loading" /\ job[s].left # <<>>
      /\ Head(job[s].left) \in RuleFiles
      /\ UNCHANGED <<rulesText, evals, up, seq, calls, outcome>>
  BY LoadRulesCases DEF ServerInv, TypeOK
<1>b. \A k \in Jobs : k \in Jobs'
  BY <1>a DEF Jobs
<1>1. ASSUME NEW text \in Texts, NEW guards \in Seq(AllGuards), Took(s, text, guards), CachesOK'
      PROVE  ServerInv'
  <2>. DEFINE k == TakenJob(job[s], text, guards)
  <2>1. k \in Jobs /\ k.pc \in {"loading", "enforcing"} /\ (k.pc = "loading" => k.left # <<>>)
    BY <1>a, TakenJobIsAJob
  <2>2. Advances(s, k)
    BY <1>1 DEF Took
  <2>3. AroundOK'
    BY <1>a, <1>1 DEF AroundOK
  <2>. HIDE DEF k
  <2>. QED  BY <1>a, <1>b, <2>1, <2>2, <2>3, AdvanceKeeps
<1>2. ASSUME NEW text \in Texts, Advances(s, SkippedJob(job[s], text)), UNCHANGED guardCache
      PROVE  ServerInv'
  <2>. DEFINE k == SkippedJob(job[s], text)
  <2>1. k \in Jobs /\ k.pc \in {"loading", "enforcing"} /\ (k.pc = "loading" => k.left # <<>>)
    BY <1>a, TakenJobIsAJob, EmptySeq
  <2>2. Advances(s, k)
    BY <1>2
  <2>3. AroundOK'
    BY <1>a, <1>2 DEF AroundOK, CachesOK
  <2>. HIDE DEF k
  <2>. QED  BY <1>a, <1>b, <2>1, <2>2, <2>3, AdvanceKeeps
<1>3. ASSUME UNCHANGED guardCache PROVE CachesOK'
  BY <1>a, <1>3 DEF AroundOK, CachesOK
<1>4. ASSUME NEW text \in DOMAIN Contents, NEW guards \in Seq(AllGuards),
             guardCache' = [guardCache EXCEPT ![s] =
                              Remember(@, CacheKey(Head(job[s].left), text), guards)]
      PROVE  CachesOK'
  <2>. DEFINE key == CacheKey(Head(job[s].left), text)
  <2>1. key \in RuleFiles \X DOMAIN Contents
    BY <1>a DEF CacheKey
  <2>. HIDE DEF key
  <2>. QED  BY <1>a, <1>4, <2>1 DEF AroundOK, CachesOK, Remember, key
<1>. QED  BY <1>1, <1>2, <1>3, <1>4, LoadRulesCases DEF Texts

LEMMA ServerStep == ServerInv /\ [Next]_vars => ServerInv'
<1>. SUFFICES ASSUME ServerInv, [Next]_vars PROVE ServerInv'
  OBVIOUS
<1>a. AroundOK /\ TypeOK /\ (\A s \in Servers : job[s] \in Jobs)
  BY DEF ServerInv, TypeOK
<1>b. ASSUME UNCHANGED <<rulesText, up, seq, guardCache>> PROVE AroundOK'
  BY <1>a, <1>b DEF AroundOK, CachesOK
<1>c. ASSUME NEW s \in Servers, seq' = [seq EXCEPT ![s] = @ + 1] PROVE seq' \in [Servers -> Nat]
  BY <1>a, <1>c DEF AroundOK
<1>1. ASSUME NEW s \in Servers, NEW name \in DOMAIN Requests, Receive(s, name) PROVE ServerInv'
  BY <1>1, ReceiveKeeps
<1>2. ASSUME NEW s \in Servers, LoadRules(s) PROVE ServerInv'
  BY <1>2, LoadRulesKeeps
<1>3. ASSUME NEW s \in Servers, Enforce(s) PROVE ServerInv'
  <2>1. job[s].pc # "idle" /\ UNCHANGED <<rulesText, evals, guardCache, calls>>
    BY <1>3 DEF Enforce, At, gateDb
  <2>2. CASE AfterRules(s) /\ UNCHANGED <<seq, up, outcome>>
    BY <1>b, <2>1, <2>2, AfterRulesKeeps
  <2>3. CASE /\ seq' = [seq EXCEPT ![s] = @ + 1] /\ UNCHANGED <<up, outcome>>
             /\ GotoWith(s, "tracing", "blocked") \/ AfterRules(s)
    <3>1. AroundOK'
      BY <1>a, <1>c, <2>1, <2>3 DEF AroundOK, CachesOK
    <3>2. CASE GotoWith(s, "tracing", "blocked")
      BY <2>1, <2>3, <3>1, <3>2, GotoKeeps DEF Stages, Results
    <3>. QED  BY <2>1, <2>3, <3>1, <3>2, AfterRulesKeeps
  <2>4. CASE seq' = [seq EXCEPT ![s] = @ + 1] /\ Escape(s)
    BY <1>c, <2>1, <2>4, EscapeKeeps
  <2>5. \/ AfterRules(s) /\ UNCHANGED <<seq, up, outcome>>
        \/ /\ seq' = [seq EXCEPT ![s] = @ + 1] /\ UNCHANGED <<up, outcome>>
           /\ GotoWith(s, "tracing", "blocked") \/ AfterRules(s)
        \/ seq' = [seq EXCEPT ![s] = @ + 1] /\ Escape(s)
    BY <1>3 DEF Enforce
  <2>. QED  BY <2>2, <2>3, <2>4, <2>5
<1>4. ASSUME NEW s \in Servers, GuardTraversal(s) PROVE ServerInv'
  <2>1. /\ job[s].pc = "guarding" /\ UNCHANGED <<rulesText, evals, guardCache, calls>>
        /\ seq' = [seq EXCEPT ![s] = @ + 1]
    BY <1>4 DEF GuardTraversal, At, gateDb
  <2>2. CASE Escape(s)
    BY <1>c, <2>1, <2>2, EscapeKeeps
  <2>3. CASE /\ job' = [job EXCEPT ![s].guards = SystemManifest.guards, ![s].pc = "logging"]
             /\ UNCHANGED <<up, outcome>>
    <3>. DEFINE guards == SystemManifest.guards
                j == [job[s] EXCEPT !.guards = guards, !.pc = "logging"]
    <3>1. guards \in Seq(AllGuards)
      BY SystemAssumption, GuardsAreSequences DEF SystemManifest, GuardsOf
    <3>. HIDE DEF guards
    <3>2. j \in Jobs' /\ j.pc = "logging" /\ j.n = job[s].n /\ j.req = job[s].req
      BY <1>a, <2>1, <3>1 DEF Jobs, Stages
    <3>3. job' = [job EXCEPT ![s] = j]
      BY <1>a, <2>3 DEF TypeOK, Jobs, guards
    <3>4. AroundOK'
      BY <1>a, <1>c, <2>1, <2>3 DEF AroundOK, CachesOK
    <3>5. Advances(s, j)
      BY <2>1, <2>3, <3>2, <3>3 DEF Advances
    <3>. HIDE DEF j
    <3>. QED  BY <2>1, <3>2, <3>4, <3>5, AdvanceKeeps
  <2>. QED  BY <1>4, <2>2, <2>3 DEF GuardTraversal
<1>5. ASSUME NEW s \in Servers, LogTraversal(s) PROVE ServerInv'
  BY <1>b, <1>5, GotoKeeps DEF LogTraversal, At, gateDb, Stages, Results
<1>6. ASSUME NEW s \in Servers, NEW id \in RepoIds, NEW name, Registers(s, id, name),
             job[s].pc # "idle", UNCHANGED <<rulesText, up, seq, guardCache, calls, outcome>>
      PROVE  ServerInv'
  <2>. DEFINE j == [job[s] EXCEPT !.repo = id, !.pc = "recording"]
  <2>1. job' = [job EXCEPT ![s] = j] /\ UNCHANGED evals
    BY <1>a, <1>6 DEF Registers, RegisterRepository, TypeOK, Jobs
  <2>2. j \in Jobs' /\ j.pc = "recording" /\ j.n = job[s].n /\ j.req = job[s].req
    BY <1>a, <2>1 DEF Jobs, Stages
  <2>3. Advances(s, j)
    BY <1>6, <2>1, <2>2 DEF Advances
  <2>. HIDE DEF j
  <2>. QED  BY <1>6, <1>b, <2>1, <2>2, <2>3, AdvanceKeeps
<1>7. ASSUME NEW s \in Servers, Register(s) PROVE ServerInv'
  <2>1. /\ job[s].pc = "registering"
        /\ UNCHANGED <<rulesText, up, seq, guardCache, calls, outcome>>
    BY <1>7 DEF Register, At
  <2>2. RepoIdOf(Req(s).patch) \in RepoIds
    BY <2>1 DEF ServerInv, ServesOne, RepoIds, Req
  <2>3. CASE Registers(s, RepoIdOf(Req(s).patch), Req(s).patch.repoName)
    BY <1>6, <2>1, <2>2, <2>3
  <2>4. CASE Goto(s, "registering_default") /\ UNCHANGED gateDb
    BY <1>a, <1>b, <2>1, <2>4, GotoKeeps DEF Stages, Jobs, gateDb
  <2>. QED  BY <1>7, <2>3, <2>4 DEF Register
<1>8. ASSUME NEW s \in Servers, RegisterDefault(s) PROVE ServerInv'
  <2>1. /\ job[s].pc = "registering_default"
        /\ UNCHANGED <<rulesText, up, seq, guardCache, calls, outcome>>
    BY <1>8 DEF RegisterDefault, At
  <2>2. DefaultName \in RepoIds
    BY DEF RepoIds
  <2>3. CASE Registers(s, DefaultName, DefaultName)
    BY <1>6, <2>1, <2>2, <2>3
  <2>4. CASE GotoWith(s, "shadowing", "error") /\ UNCHANGED gateDb
    BY <1>b, <2>1, <2>4, GotoKeeps DEF Stages, Results, gateDb
  <2>. QED  BY <1>8, <2>3, <2>4 DEF RegisterDefault
<1>9. ASSUME NEW s \in Servers, Record(s) PROVE ServerInv'
  <2>. DEFINE id == EvaluationId(job[s].repo, CommitOf(Req(s).patch))
  <2>1. /\ job[s].pc = "recording"
        /\ UNCHANGED <<rulesText, up, seq, guardCache, calls, outcome>>
    BY <1>9 DEF Record, At
  <2>2. PICK a \in Audits :
            \/ /\ RecordEvaluation(job[s].repo, CommitOf(Req(s).patch), a.audit)
               /\ job' = [job EXCEPT ![s].pc = "tracing", ![s].res = GateResult(a.audit, TRUE),
                                     ![s].eval = id]
            \/ /\ GotoWith(s, "tracing", GateResult(a.audit, FALSE))
               /\ UNCHANGED gateDb
    BY <1>9 DEF Record
  <2>. DEFINE res == GateResult(a.audit, TRUE)
              j == [job[s] EXCEPT !.pc = "tracing", !.res = res, !.eval = id]
  <2>3. \A stored : GateResult(a.audit, stored) \in Results
    BY DEF GateResult, Results
  <2>4. CASE GotoWith(s, "tracing", GateResult(a.audit, FALSE)) /\ UNCHANGED gateDb
    BY <1>b, <2>1, <2>3, <2>4, GotoKeeps DEF Stages, gateDb
  <2>5. CASE /\ RecordEvaluation(job[s].repo, CommitOf(Req(s).patch), a.audit)
             /\ job' = [job EXCEPT ![s].pc = "tracing", ![s].res = res, ![s].eval = id]
    <3>1. DOMAIN evals' = DOMAIN evals \cup {id}
      BY <2>5 DEF RecordEvaluation
    <3>2. res \in Results
      BY <2>3
    <3>3. job' = [job EXCEPT ![s] = j]
      <4>. HIDE DEF res, id
      <4>. QED  BY <1>a, <2>5 DEF TypeOK, Jobs
    <3>. HIDE DEF res, id
    <3>4. j \in Jobs' /\ j.pc = "tracing" /\ j.n = job[s].n /\ j.req = job[s].req
      BY <1>a, <3>1, <3>2 DEF Jobs, Stages
    <3>5. Advances(s, j)
      BY <2>1, <3>3, <3>4 DEF Advances
    <3>. HIDE DEF j
    <3>. QED  BY <1>b, <2>1, <3>1, <3>4, <3>5, AdvanceKeeps
  <2>. QED  BY <2>2, <2>4, <2>5
<1>10. ASSUME NEW s \in Servers, Write(s) PROVE ServerInv'
  <2>1. /\ job[s].pc # "idle" /\ UNCHANGED <<up, seq, guardCache, calls, evals>>
        /\ Settle(s, "applied")
    BY <1>10 DEF Write, At, gateDb
  <2>2. rulesText' \in [RuleFiles -> Texts]
    <3>1. CASE Req(s).writes = None
      BY <1>a, <1>10, <3>1 DEF Write, AroundOK
    <3>2. CASE Req(s).writes # None
      BY <1>a, <1>10, <2>1, <3>2, AtServes, RequestsAssumption DEF Write, AroundOK, Texts, Req
    <3>. QED  BY <3>1, <3>2
  <2>3. AroundOK'
    BY <1>a, <2>1, <2>2 DEF AroundOK, CachesOK
  <2>. QED  BY <2>1, <2>3, ResetKeeps DEF Kinds
<1>11. ASSUME NEW s \in Servers, WriteFails(s) PROVE ServerInv'
  BY <1>b, <1>11, ResetKeeps DEF WriteFails, At, gateDb, Kinds, Results
<1>12. ASSUME NEW s \in Servers, AuditRead(s) PROVE ServerInv'
  <2>1. /\ job[s].pc = "auditing"
        /\ UNCHANGED <<rulesText, up, seq, guardCache, calls, outcome, evals>>
    BY <1>12 DEF AuditRead, At, gateDb
  <2>2. \/ Goto(s, "failclosing")
        \/ \E verdict : GotoWith(s, IF verdict = "ALLOW" THEN "caching" ELSE "tracing",
                                 ResultOfVerdict(verdict))
    BY <1>12 DEF AuditRead
  <2>3. \A verdict : ResultOfVerdict(verdict) \in Results
    BY DEF ResultOfVerdict, Results
  <2>. QED  BY <1>a, <1>b, <2>1, <2>2, <2>3, GotoKeeps DEF Stages, Jobs
<1>13. ASSUME NEW s \in Servers, job[s].pc # "idle", NEW pc \in {"shadowing", "auditing"},
              NEW res \in Results, NEW e \in {job[s].eval, None},
              job' = [job EXCEPT ![s].pc = pc, ![s].res = res, ![s].eval = e],
              UNCHANGED <<rulesText, up, seq, guardCache, calls, outcome, evals>>
       PROVE  ServerInv'
  <2>. DEFINE j == [job[s] EXCEPT !.pc = pc, !.res = res, !.eval = e]
  <2>1. job' = [job EXCEPT ![s] = j]
    BY <1>a, <1>13 DEF TypeOK, Jobs
  <2>2. j \in Jobs' /\ j.pc = pc /\ j.n = job[s].n /\ j.req = job[s].req
    BY <1>a, <1>13 DEF Jobs, Stages
  <2>3. Advances(s, j)
    BY <1>13, <2>1, <2>2 DEF Advances
  <2>. HIDE DEF j
  <2>. QED  BY <1>13, <1>b, <2>2, <2>3, AdvanceKeeps
<1>14. ASSUME NEW s \in Servers, ReadingFails(s) PROVE ServerInv'
  BY <1>13, <1>14 DEF ReadingFails, At, gateDb, Results
<1>15. ASSUME NEW s \in Servers, FailClosed(s) PROVE ServerInv'
  <2>1. /\ job[s].pc = "failclosing"
        /\ UNCHANGED <<rulesText, up, seq, guardCache, calls, outcome, evals>>
        /\ GotoWith(s, "tracing", "quarantined")
    BY <1>15 DEF FailClosed, At, gateDb, FailedVerdict, ResultOfVerdict
  <2>. QED  BY <1>b, <2>1, GotoKeeps DEF Stages, Results
<1>16. ASSUME NEW s \in Servers, StoreResult(s) PROVE ServerInv'
  <2>1. /\ job[s].pc = "caching"
        /\ UNCHANGED <<rulesText, up, seq, guardCache, calls, outcome, evals>>
    BY <1>16 DEF StoreResult, At, gateDb
  <2>2. CASE Goto(s, "shadowing")
    BY <1>a, <1>b, <2>1, <2>2, GotoKeeps DEF Stages, Jobs
  <2>3. CASE job' = [job EXCEPT ![s].pc = "shadowing", ![s].res = "error", ![s].eval = None]
    BY <1>13, <2>1, <2>3 DEF Results
  <2>. QED  BY <1>16, <2>2, <2>3 DEF StoreResult
<1>17. ASSUME NEW s \in Servers, Trace(s) PROVE ServerInv'
  <2>1. /\ job[s].pc = "tracing"
        /\ UNCHANGED <<rulesText, up, seq, guardCache, calls, evals>>
    BY <1>17 DEF Trace, At, gateDb
  <2>2. CASE /\ Goto(s, "caching") \/ Goto(s, "writing")
             /\ UNCHANGED outcome
    BY <1>a, <1>b, <2>1, <2>2, GotoKeeps DEF Stages, Jobs
  <2>3. CASE /\ job' = [job EXCEPT ![s].pc = ToolStep(Req(s)), ![s].res = ToolResult(Req(s)),
                                   ![s].eval = IF Req(s).texts = <<>> THEN None ELSE @]
             /\ UNCHANGED outcome
    <3>1. ToolStep(Req(s)) \in {"shadowing", "auditing"} /\ ToolResult(Req(s)) \in Results
      BY DEF ToolStep, ToolResult, Results
    <3>2. \E e \in {job[s].eval, None} :
             job' = [job EXCEPT ![s].pc = ToolStep(Req(s)), ![s].res = ToolResult(Req(s)),
                                ![s].eval = e]
      <4>1. CASE Req(s).texts = <<>>
        BY <2>3, <4>1
      <4>2. CASE Req(s).texts # <<>>
        BY <1>a, <2>3, <4>2 DEF TypeOK, Jobs
      <4>. QED  BY <4>1, <4>2
    <3>. QED  BY <1>13, <2>1, <2>3, <3>1, <3>2
  <2>4. ASSUME NEW e \in {job[s].eval, None},
               outcome' = [outcome EXCEPT ![job[s].n] = [kind |-> job[s].res, eval |-> e]],
               job' = [job EXCEPT ![s] = NoJob]
        PROVE  ServerInv'
    <3>. DEFINE o == [kind |-> job[s].res, eval |-> e]
    <3>1. o \in Outcomes'
      BY <1>a, <2>1, <2>4 DEF Outcomes, Jobs, Kinds
    <3>2. Settles(s, o)
      BY <2>1, <2>4 DEF Settles
    <3>. HIDE DEF o
    <3>. QED  BY <1>b, <2>1, <3>1, <3>2, SettleKeeps
  <2>5. \/ (Goto(s, "caching") \/ Goto(s, "writing")) /\ UNCHANGED outcome
        \/ /\ job' = [job EXCEPT ![s].pc = ToolStep(Req(s)), ![s].res = ToolResult(Req(s)),
                                 ![s].eval = IF Req(s).texts = <<>> THEN None ELSE @]
           /\ UNCHANGED outcome
        \/ \E e \in {job[s].eval, None} :
              /\ outcome' = [outcome EXCEPT ![job[s].n] = [kind |-> job[s].res, eval |-> e]]
              /\ job' = [job EXCEPT ![s] = NoJob]
    BY <1>17 DEF Trace
  <2>. QED  BY <2>2, <2>3, <2>4, <2>5
<1>18. ASSUME NEW s \in Servers, Shadow(s) PROVE ServerInv'
  <2>1. job[s].res \in Kinds
    BY <1>a DEF Jobs, Kinds
  <2>. QED  BY <1>b, <1>18, <2>1, ResetKeeps DEF Shadow, At, gateDb
<1>19. ASSUME NEW s \in Servers, Crash(s) PROVE ServerInv'
  <2>1. AroundOK'
    BY <1>a, <1>19 DEF Crash, AroundOK, CachesOK
  <2>. QED  BY <1>19, <2>1, ResetKeeps DEF Crash, gateDb, Kinds
<1>20. ASSUME UNCHANGED <<job, calls, outcome, evals>>, AroundOK' PROVE ServerInv'
  BY <1>20 DEF ServerInv, TypeOK, ServesOne, Jobs, Outcomes, Req
<1>21. ASSUME NEW s \in Servers, Restart(s) PROVE ServerInv'
  <2>1. AroundOK'
    BY <1>a, <1>21 DEF Restart, AroundOK, CachesOK, EmptyCache
  <2>. QED  BY <1>20, <1>21, <2>1 DEF Restart, gateDb
<1>22. ASSUME NEW f \in RuleFiles, NEW text \in DOMAIN Contents \cup {None}, Edit(f, text)
       PROVE  ServerInv'
  <2>1. AroundOK'
    BY <1>a, <1>22 DEF Edit, EditRules, local, AroundOK, CachesOK, Texts
  <2>. QED  BY <1>20, <1>22, <2>1 DEF Edit, gateDb, local
<1>23. CASE UNCHANGED vars
  BY <1>b, <1>20, <1>23 DEF vars, local, gateDb
<1>. QED  BY <1>1, <1>2, <1>3, <1>4, <1>5, <1>7, <1>8, <1>9, <1>10, <1>11, <1>12, <1>14, <1>15,
             <1>16, <1>17, <1>18, <1>19, <1>21, <1>22, <1>23 DEF Next, Serve

(* Types are kept, and no request is served twice.                         *)
THEOREM TypeCorrect == Spec => []ServerInv
<1>. QED  BY ServerStart, ServerStep, PTL DEF Spec

-----------------------------------------------------------------------------
(* Verdicts.                                                               *)

(* The server goes on by its stage, its result and its evaluation.         *)
Moves(s, pc, res, e) ==
    \E j \in Jobs' :
       /\ Advances(s, j)
       /\ j.pc = pc /\ j.res = res /\ j.eval = e
       /\ j.guards = job[s].guards /\ j.read = job[s].read /\ j.skipped = job[s].skipped

LEMMA GotoMoves ==
    ASSUME ServerInv, NEW s \in Servers, job[s].pc # "idle", UNCHANGED <<calls, outcome>>,
           DOMAIN evals \subseteq DOMAIN evals',
           NEW pc \in Stages \ {"idle"}
    PROVE  /\ Goto(s, pc) => Moves(s, pc, job[s].res, job[s].eval)
           /\ \A res \in Results : GotoWith(s, pc, res) => Moves(s, pc, res, job[s].eval)
           /\ \A res \in Results, e \in DOMAIN evals' \cup {None} :
                 job' = [job EXCEPT ![s].pc = pc, ![s].res = res, ![s].eval = e]
                 => Moves(s, pc, res, e)
           /\ \A id \in RepoIds :
                 job' = [job EXCEPT ![s].repo = id, ![s].pc = pc]
                 => Moves(s, pc, job[s].res, job[s].eval)
<1>1. job[s] \in Jobs /\ job \in [Servers -> Jobs]
  BY AtServes DEF ServerInv, TypeOK
<1>2. ASSUME NEW res \in Results, NEW e \in DOMAIN evals' \cup {None}, NEW id \in RepoIds,
             job' = [job EXCEPT ![s] = [job[s] EXCEPT !.pc = pc, !.res = res, !.eval = e, !.repo = id]]
      PROVE  Moves(s, pc, res, e)
  <2>. DEFINE j == [job[s] EXCEPT !.pc = pc, !.res = res, !.eval = e, !.repo = id]
  <2>1. /\ j \in Jobs' /\ j.pc = pc /\ j.res = res /\ j.eval = e
        /\ j.n = job[s].n /\ j.req = job[s].req
        /\ j.guards = job[s].guards /\ j.read = job[s].read /\ j.skipped = job[s].skipped
    BY <1>1 DEF Jobs
  <2>2. Advances(s, j)
    BY <1>2, <2>1 DEF Advances
  <2>. HIDE DEF j
  <2>. QED  BY <2>1, <2>2 DEF Moves
<1>3. /\ job[s].res \in Results /\ job[s].eval \in DOMAIN evals' \cup {None}
      /\ job[s].repo \in RepoIds
  BY <1>1 DEF Jobs
<1>4. Goto(s, pc) => job' = [job EXCEPT ![s] = [job[s] EXCEPT !.pc = pc, !.res = job[s].res,
                                                !.eval = job[s].eval, !.repo = job[s].repo]]
  BY <1>1 DEF Goto, Jobs
<1>5. \A res : GotoWith(s, pc, res)
               => job' = [job EXCEPT ![s] = [job[s] EXCEPT !.pc = pc, !.res = res,
                                             !.eval = job[s].eval, !.repo = job[s].repo]]
  BY <1>1 DEF GotoWith, Jobs
<1>6. \A res, e : job' = [job EXCEPT ![s].pc = pc, ![s].res = res, ![s].eval = e]
                  => job' = [job EXCEPT ![s] = [job[s] EXCEPT !.pc = pc, !.res = res, !.eval = e,
                                                              !.repo = job[s].repo]]
  BY <1>1 DEF Jobs
<1>7. \A id : job' = [job EXCEPT ![s].repo = id, ![s].pc = pc]
              => job' = [job EXCEPT ![s] = [job[s] EXCEPT !.pc = pc, !.res = job[s].res,
                                            !.eval = job[s].eval, !.repo = id]]
  BY <1>1 DEF Jobs
<1>8. Goto(s, pc) => Moves(s, pc, job[s].res, job[s].eval)
  BY <1>2, <1>3, <1>4
<1>9. ASSUME NEW res \in Results, GotoWith(s, pc, res) PROVE Moves(s, pc, res, job[s].eval)
  BY <1>2, <1>3, <1>5, <1>9
<1>10. ASSUME NEW res \in Results, NEW e \in DOMAIN evals' \cup {None},
              job' = [job EXCEPT ![s].pc = pc, ![s].res = res, ![s].eval = e]
       PROVE  Moves(s, pc, res, e)
  BY <1>2, <1>3, <1>6, <1>10
<1>11. ASSUME NEW id \in RepoIds, job' = [job EXCEPT ![s].repo = id, ![s].pc = pc]
       PROVE  Moves(s, pc, job[s].res, job[s].eval)
  BY <1>2, <1>3, <1>7, <1>11
<1>. QED  BY <1>8, <1>9, <1>10, <1>11

VerdictKinds == {"released", "stripped", "quarantined"}

(* A call whose verdict is stored only has to be answered with it.         *)
VerdictInv ==
    /\ VerdictsAreStored
    /\ DOMAIN saraLog \subseteq 1..calls
    /\ \A s \in Servers : job[s].n \in DOMAIN saraLog =>
          \/ job[s].pc = "shadowing"
          \/ job[s].pc \in {"caching", "tracing"} /\ job[s].res \in VerdictKinds

LEMMA VerdictStart == Init => VerdictInv
BY DEF Init, SaraInit, VerdictInv, VerdictsAreStored

(* Nobody is told of a verdict who was not before.                         *)
LEMMA SaysKeeps ==
    ASSUME VerdictsAreStored, UNCHANGED <<saraDb, calls>>,
           \A n \in 1..calls, kind \in VerdictKinds : Says(n, kind)' => Says(n, kind)
    PROVE  VerdictsAreStored'
<1>1. ASSUME NEW n \in 1..calls
      PROVE  /\ Says(n, "released")' => Says(n, "released")
             /\ Says(n, "stripped")' => Says(n, "stripped")
             /\ Says(n, "quarantined")' => Says(n, "quarantined")
  BY DEF VerdictKinds
<1>. QED  BY <1>1 DEF VerdictsAreStored, saraDb

LEMMA MoveSays ==
    ASSUME ServerInv, NEW s \in Servers, NEW j, Advances(s, j), NEW n, NEW kind,
           Says(n, kind)', ~Says(n, kind)
    PROVE  n = job[s].n /\ kind = j.res
BY DEF Says, Advances, ServerInv, TypeOK

LEMMA VerdictMoves ==
    ASSUME ServerInv, VerdictInv, NEW s \in Servers, NEW pc, NEW res, NEW e, Moves(s, pc, res, e),
           UNCHANGED saraDb, res = job[s].res \/ res \notin VerdictKinds,
           job[s].n \in DOMAIN saraLog =>
              \/ pc = "shadowing"
              \/ pc \in {"caching", "tracing"} /\ res \in VerdictKinds
    PROVE  VerdictInv'
<1>1. PICK j : Advances(s, j) /\ j.pc = pc /\ j.res = res
  BY DEF Moves
<1>2. \A n \in 1..calls, kind \in VerdictKinds : Says(n, kind)' => Says(n, kind)
  BY <1>1, MoveSays DEF Says
<1>3. VerdictsAreStored'
  BY <1>1, <1>2, SaysKeeps DEF VerdictInv, Advances
<1>. QED  BY <1>1, <1>3 DEF VerdictInv, Advances, saraDb, ServerInv, TypeOK

LEMMA VerdictSettles ==
    ASSUME ServerInv, VerdictInv, NEW s \in Servers, NEW o, Settles(s, o), UNCHANGED saraDb,
           o.kind = job[s].res \/ o.kind \notin VerdictKinds
    PROVE  VerdictInv'
<1>. USE DEF Settles
<1>1. /\ NoJob.n = 0 /\ NoJob.pc = "idle" /\ calls \in Nat /\ DOMAIN job = Servers
      /\ DOMAIN outcome = 1..calls /\ job[s].n \in 1..calls
  BY AtServes DEF NoJob, ServerInv, TypeOK
<1>2. \A n \in 1..calls, kind \in VerdictKinds : Says(n, kind)' => Says(n, kind)
  BY <1>1 DEF Says
<1>3. VerdictsAreStored'
  BY <1>2, SaysKeeps DEF VerdictInv
<1>. QED  BY <1>1, <1>3 DEF VerdictInv, saraDb

(* A verdict is stored, and its call goes on to be answered with it.       *)
LEMMA VerdictCommits ==
    ASSUME ServerInv, VerdictInv, NEW s \in Servers, NEW verdict, NEW raw, NEW pc, NEW e,
           AuditCommit(job[s].n, verdict, raw), Moves(s, pc, ResultOfVerdict(verdict), e),
           verdict \in {"ALLOW", "STRIP_COMMANDS", "QUARANTINE_TOOL"},
           pc \in {"caching", "tracing"}
    PROVE  VerdictInv'
<1>. DEFINE n == job[s].n
<1>1. PICK j : Advances(s, j) /\ j.pc = pc /\ j.res = ResultOfVerdict(verdict)
  BY DEF Moves
<1>2. /\ n \in 1..calls /\ outcome[n].kind = "pending" /\ DOMAIN job = Servers
      /\ \A t \in Servers : t # s => job[t].n # n
  BY <1>1, AtServes DEF Advances, ServerInv, TypeOK
<1>3. /\ n \notin DOMAIN saraLog /\ DOMAIN saraLog' = DOMAIN saraLog \cup {n}
      /\ saraLog'[n] = verdict /\ \A m \in DOMAIN saraLog : saraLog'[m] = saraLog[m]
      /\ DOMAIN vault' = IF verdict = "QUARANTINE_TOOL" THEN DOMAIN vault \cup {n} ELSE DOMAIN vault
  BY DEF AuditCommit, CommitIsRefused
<1>4. ResultOfVerdict(verdict) = CASE verdict = "ALLOW" -> "released"
                                   [] verdict = "STRIP_COMMANDS" -> "stripped"
                                   [] OTHER -> "quarantined"
  BY DEF ResultOfVerdict
<1>5. \A m \in 1..calls, kind \in VerdictKinds :
          m = n /\ Says(m, kind)' => kind = ResultOfVerdict(verdict)
  BY <1>1, <1>2 DEF Says, Advances, VerdictKinds
<1>6. \A m \in 1..calls, kind \in VerdictKinds : m # n /\ Says(m, kind)' => Says(m, kind)
  BY <1>1, MoveSays
<1>. HIDE DEF n
<1>7. ASSUME NEW m \in 1..calls
      PROVE  /\ Says(m, "released")' => m \in DOMAIN saraLog' /\ saraLog'[m] = "ALLOW"
             /\ Says(m, "stripped")' => m \in DOMAIN saraLog' /\ saraLog'[m] = "STRIP_COMMANDS"
             /\ Says(m, "quarantined")' /\ m \in DOMAIN saraLog' => saraLog'[m] = "QUARANTINE_TOOL"
  <2>1. CASE m = n
    <3>1. /\ Says(m, "released")' => ResultOfVerdict(verdict) = "released"
          /\ Says(m, "stripped")' => ResultOfVerdict(verdict) = "stripped"
          /\ Says(m, "quarantined")' => ResultOfVerdict(verdict) = "quarantined"
      BY <1>5, <2>1 DEF VerdictKinds
    <3>. QED  BY <1>3, <1>4, <2>1, <3>1
  <2>2. CASE m # n
    BY <1>3, <1>6, <2>2 DEF VerdictInv, VerdictsAreStored, VerdictKinds
  <2>. QED  BY <2>1, <2>2
<1>8. DOMAIN vault' = {m \in DOMAIN saraLog' : saraLog'[m] = "QUARANTINE_TOOL"}
  BY <1>3 DEF VerdictInv, VerdictsAreStored
<1>9. VerdictsAreStored'
  BY <1>1, <1>7, <1>8 DEF VerdictsAreStored, Advances
<1>10. ResultOfVerdict(verdict) \in VerdictKinds
  BY <1>4 DEF VerdictKinds
<1>11. ASSUME NEW t \in Servers, job'[t].n \in DOMAIN saraLog'
       PROVE  \/ job'[t].pc = "shadowing"
              \/ job'[t].pc \in {"caching", "tracing"} /\ job'[t].res \in VerdictKinds
  <2>1. CASE t = s
    BY <1>1, <1>2, <1>10, <2>1 DEF Advances
  <2>2. CASE t # s
    BY <1>1, <1>2, <1>3, <1>11, <2>2 DEF Advances, VerdictInv
  <2>. QED  BY <2>1, <2>2
<1>. QED  BY <1>1, <1>2, <1>3, <1>9, <1>11 DEF VerdictInv, Advances

LEMMA AfterRulesMoves ==
    ASSUME ServerInv, NEW s \in Servers, job[s].pc # "idle", AfterRules(s),
           UNCHANGED <<calls, outcome, evals>>
    PROVE  \/ Moves(s, "registering", job[s].res, job[s].eval)
           \/ \E pc \in {"auditing", "shadowing"}, res \in {"none", "plain", "error"} :
                 Moves(s, pc, res, job[s].eval)
<1>1. CASE Goto(s, "registering")
  BY <1>1, GotoMoves DEF Stages
<1>2. ASSUME NEW pc \in {"auditing", "shadowing"}, NEW res \in {"none", "plain", "error"},
             GotoWith(s, pc, res)
      PROVE  Moves(s, pc, res, job[s].eval)
  BY <1>2, GotoMoves DEF Stages, Results
<1>. QED  BY <1>1, <1>2, AtServes, AfterRulesGoto

(* A gated tool goes on with its own work.                                 *)
LEMMA ToolMoves ==
    ASSUME ServerInv, NEW s \in Servers, job[s].pc # "idle", UNCHANGED <<calls, outcome, evals>>,
           job' = [job EXCEPT ![s].pc = ToolStep(Req(s)), ![s].res = ToolResult(Req(s)),
                              ![s].eval = IF Req(s).texts = <<>> THEN None ELSE @]
    PROVE  \E pc \in {"auditing", "shadowing"}, res \in {"none", "plain", "error"},
              e \in {job[s].eval, None} : Moves(s, pc, res, e)
<1>. DEFINE pc == ToolStep(Req(s))
            res == ToolResult(Req(s))
<1>1. pc \in {"auditing", "shadowing"} /\ res \in {"none", "plain", "error"}
  BY DEF ToolStep, ToolResult
<1>2. PICK e \in {job[s].eval, None} :
         job' = [job EXCEPT ![s].pc = pc, ![s].res = res, ![s].eval = e]
  <2>1. CASE Req(s).texts = <<>>
    BY <2>1
  <2>2. CASE Req(s).texts # <<>>
    BY <2>2, AtServes DEF ServerInv, TypeOK, Jobs
  <2>. QED  BY <2>1, <2>2
<1>3. e \in DOMAIN evals' \cup {None}
  BY AtServes DEF Jobs
<1>. HIDE DEF pc, res
<1>. QED  BY <1>1, <1>2, <1>3, GotoMoves DEF Stages, Results

LEMMA SettleSettles ==
    ASSUME NEW s \in Servers, job[s].pc # "idle", NEW kind, Settle(s, kind), UNCHANGED calls
    PROVE  Settles(s, [kind |-> kind, eval |-> job[s].eval])
BY DEF Settle, Settles

(* A quarantine may be told although it could not be stored.               *)
LEMMA QuarantineIsSaid ==
    ASSUME ServerInv, VerdictInv, NEW s \in Servers, NEW e, Moves(s, "tracing", "quarantined", e),
           UNCHANGED saraDb, job[s].n \notin DOMAIN saraLog
    PROVE  VerdictInv'
<1>1. PICK j : Advances(s, j) /\ j.pc = "tracing" /\ j.res = "quarantined"
  BY DEF Moves
<1>2. \A n \in 1..calls, kind \in VerdictKinds :
          Says(n, kind)' => Says(n, kind) \/ (n = job[s].n /\ kind = "quarantined")
  BY <1>1, MoveSays
<1>3. ASSUME NEW n \in 1..calls
      PROVE  /\ Says(n, "released")' => Says(n, "released")
             /\ Says(n, "stripped")' => Says(n, "stripped")
             /\ Says(n, "quarantined")' => Says(n, "quarantined") \/ n = job[s].n
  BY <1>2 DEF VerdictKinds
<1>4. VerdictsAreStored'
  BY <1>1, <1>3 DEF VerdictInv, VerdictsAreStored, saraDb, Advances
<1>. QED  BY <1>1, <1>4 DEF VerdictInv, Advances, saraDb, ServerInv, TypeOK

LEMMA VerdictStep == ServerInv /\ VerdictInv /\ [Next]_vars => VerdictInv'
<1>. SUFFICES ASSUME ServerInv, VerdictInv, [Next]_vars PROVE VerdictInv'
  OBVIOUS
<1>a. \A s \in Servers : job[s] \in Jobs
  BY DEF ServerInv, TypeOK
<1>b. \A s \in Servers : job[s].n \in DOMAIN saraLog =>
          \/ job[s].pc = "shadowing"
          \/ job[s].pc \in {"caching", "tracing"} /\ job[s].res \in VerdictKinds
  BY DEF VerdictInv
<1>c. ASSUME NEW s \in Servers, job[s].pc # "idle", NEW kind, Settle(s, kind),
             kind = job[s].res \/ kind \notin VerdictKinds, UNCHANGED <<calls, saraDb>>
      PROVE  VerdictInv'
  <2>. DEFINE o == [kind |-> kind, eval |-> job[s].eval]
  <2>1. Settles(s, o) /\ o.kind = kind
    BY <1>c, SettleSettles
  <2>. HIDE DEF o
  <2>. QED  BY <1>c, <2>1, VerdictSettles
<1>d. ASSUME NEW s \in Servers, Escape(s), UNCHANGED <<calls, saraDb>>, job[s].pc # "idle"
      PROVE  VerdictInv'
  BY <1>c, <1>d DEF Escape, VerdictKinds
<1>e. ASSUME NEW s \in Servers, AfterRules(s), UNCHANGED <<calls, outcome, evals, saraDb>>,
             job[s].pc = "enforcing"
      PROVE  VerdictInv'
  BY <1>b, <1>e, AfterRulesMoves, VerdictMoves DEF VerdictKinds
<1>f. ASSUME NEW s \in Servers, NEW pc \in Stages \ {"idle"}, NEW res \in Results,
             job[s].pc # "idle", (Goto(s, pc) /\ res = job[s].res) \/ GotoWith(s, pc, res),
             UNCHANGED <<calls, outcome, evals, saraDb>>, res = job[s].res \/ res \notin VerdictKinds,
             \/ pc = "shadowing"
             \/ pc \in {"caching", "tracing"} /\ job[s].res \in VerdictKinds /\ res = job[s].res
             \/ job[s].pc \notin {"caching", "tracing", "shadowing"}
      PROVE  VerdictInv'
  <2>1. Moves(s, pc, res, job[s].eval)
    BY <1>f, GotoMoves
  <2>. QED  BY <1>b, <1>f, <2>1, VerdictMoves
<1>1. ASSUME NEW s \in Servers, NEW name \in DOMAIN Requests, Receive(s, name) PROVE VerdictInv'
  <2>1. /\ calls' = calls + 1 /\ calls \in Nat /\ UNCHANGED saraDb
        /\ \A t \in Servers : job[t].n \in 0..calls
        /\ \A t \in Servers : t # s => job'[t] = job[t]
        /\ job[s] = NoJob
    BY <1>1, AtServes DEF Receive, At, ServerInv, TypeOK, ServesOne, NoJob
  <2>2. job'[s].res = "none" /\ (job'[s].n = 0 \/ job'[s].n = calls + 1)
    BY <1>1, <2>1 DEF Receive, NoJob, ServerInv, TypeOK
  <2>3. /\ \A n \in 1..calls : outcome'[n] = outcome[n]
        /\ outcome'[calls + 1].kind \notin VerdictKinds
    <3>1. ReplyTo(Requests[name].kind) \in {"pending", "silent", "error", "plain"}
      BY DEF ReplyTo
    <3>. QED  BY <1>1, <2>1, <3>1 DEF Receive, VerdictKinds
  <2>4. ASSUME NEW n \in 1..calls', NEW kind \in VerdictKinds, Says(n, kind)'
        PROVE  n \in 1..calls /\ Says(n, kind)
    BY <2>1, <2>2, <2>3, <2>4 DEF Says, VerdictKinds
  <2>5. VerdictsAreStored'
    <3>1. ASSUME NEW n \in 1..calls'
          PROVE  /\ Says(n, "released")' => n \in 1..calls /\ Says(n, "released")
                 /\ Says(n, "stripped")' => n \in 1..calls /\ Says(n, "stripped")
                 /\ Says(n, "quarantined")' => n \in 1..calls /\ Says(n, "quarantined")
      BY <2>4 DEF VerdictKinds
    <3>. QED  BY <2>1, <3>1 DEF VerdictInv, VerdictsAreStored, saraDb
  <2>6. calls + 1 \notin DOMAIN saraLog /\ DOMAIN saraLog' \subseteq 1..calls'
           /\ 0 \notin DOMAIN saraLog
    BY <2>1 DEF VerdictInv, saraDb
  <2>. QED  BY <1>b, <2>1, <2>2, <2>5, <2>6 DEF VerdictInv, saraDb
<1>2. ASSUME NEW s \in Servers, LoadRules(s) PROVE VerdictInv'
  <2>1. PICK j : Advances(s, j) /\ j.res = job[s].res
    BY <1>2, LoadRulesAdvances
  <2>2. /\ UNCHANGED <<saraDb, calls>> /\ job[s].n \notin DOMAIN saraLog
        /\ DOMAIN job = Servers
    BY <1>2, <1>b DEF LoadRules, At, ServerInv, TypeOK
  <2>3. \A n \in 1..calls, kind \in VerdictKinds : Says(n, kind)' => Says(n, kind)
    BY <2>1, MoveSays DEF Says
  <2>4. VerdictsAreStored'
    BY <2>2, <2>3, SaysKeeps DEF VerdictInv
  <2>. QED  BY <1>b, <2>1, <2>2, <2>4 DEF VerdictInv, Advances, saraDb
<1>3. ASSUME NEW s \in Servers, Enforce(s) PROVE VerdictInv'
  <2>1. job[s].pc = "enforcing" /\ UNCHANGED <<saraDb, evals, calls>>
    BY <1>3 DEF Enforce, At, gateDb
  <2>2. CASE GotoWith(s, "tracing", "blocked") /\ UNCHANGED outcome
    BY <1>f, <2>1, <2>2 DEF Stages, Results, VerdictKinds
  <2>. QED  BY <1>d, <1>e, <1>3, <2>1, <2>2 DEF Enforce
<1>4. ASSUME NEW s \in Servers, GuardTraversal(s) PROVE VerdictInv'
  <2>1. job[s].pc = "guarding" /\ UNCHANGED <<saraDb, calls>>
    BY <1>4 DEF GuardTraversal, At
  <2>2. CASE /\ job' = [job EXCEPT ![s].guards = SystemManifest.guards, ![s].pc = "logging"]
             /\ UNCHANGED <<up, outcome>>
    <3>. DEFINE j == [job[s] EXCEPT !.guards = SystemManifest.guards, !.pc = "logging"]
    <3>1. job' = [job EXCEPT ![s] = j]
      BY <1>a, <2>2 DEF Jobs, ServerInv, TypeOK
    <3>2. j.pc = "logging" /\ j.n = job[s].n /\ j.res = job[s].res /\ j.req = job[s].req
      BY <1>a DEF Jobs
    <3>3. Advances(s, j)
      BY <2>1, <2>2, <3>1, <3>2 DEF Advances
    <3>. HIDE DEF j
    <3>4. \A n \in 1..calls, kind \in VerdictKinds : Says(n, kind)' => Says(n, kind)
      BY <3>2, <3>3, MoveSays DEF Says
    <3>5. VerdictsAreStored'
      BY <2>1, <3>4, SaysKeeps DEF VerdictInv
    <3>. QED  BY <1>b, <2>1, <3>2, <3>3, <3>5 DEF VerdictInv, Advances, saraDb, ServerInv, TypeOK
  <2>. QED  BY <1>d, <1>4, <2>1, <2>2 DEF GuardTraversal
<1>5. ASSUME NEW s \in Servers, LogTraversal(s) PROVE VerdictInv'
  BY <1>f, <1>5 DEF LogTraversal, At, gateDb, Stages, Results, VerdictKinds
<1>6. ASSUME NEW s \in Servers, Register(s) PROVE VerdictInv'
  <2>1. /\ job[s].pc = "registering" /\ UNCHANGED <<saraDb, calls, outcome, evals>>
        /\ RepoIdOf(Req(s).patch) \in RepoIds
    BY <1>6 DEF Register, Registers, RegisterRepository, At, gateDb, ServerInv, ServesOne,
                RepoIds, Req
  <2>2. \E pc \in {"recording", "registering_default"} : Moves(s, pc, job[s].res, job[s].eval)
    BY <1>6, <2>1, GotoMoves DEF Register, Registers, Stages
  <2>. QED  BY <1>b, <2>1, <2>2, VerdictMoves
<1>7. ASSUME NEW s \in Servers, RegisterDefault(s) PROVE VerdictInv'
  <2>1. /\ job[s].pc = "registering_default" /\ UNCHANGED <<saraDb, calls, outcome, evals>>
        /\ DefaultName \in RepoIds
    BY <1>7 DEF RegisterDefault, Registers, RegisterRepository, At, gateDb, RepoIds
  <2>2. \/ Moves(s, "recording", job[s].res, job[s].eval)
        \/ Moves(s, "shadowing", "error", job[s].eval)
    BY <1>7, <2>1, GotoMoves DEF RegisterDefault, Registers, Stages, Results
  <2>. QED  BY <1>b, <2>1, <2>2, VerdictMoves DEF VerdictKinds
<1>8. ASSUME NEW s \in Servers, Record(s) PROVE VerdictInv'
  <2>. DEFINE id == EvaluationId(job[s].repo, CommitOf(Req(s).patch))
  <2>1. job[s].pc = "recording" /\ UNCHANGED <<saraDb, calls, outcome>>
    BY <1>8 DEF Record, At
  <2>2. PICK a \in Audits :
            \/ /\ RecordEvaluation(job[s].repo, CommitOf(Req(s).patch), a.audit)
               /\ job' = [job EXCEPT ![s].pc = "tracing", ![s].res = GateResult(a.audit, TRUE),
                                     ![s].eval = id]
            \/ /\ GotoWith(s, "tracing", GateResult(a.audit, FALSE))
               /\ UNCHANGED gateDb
    BY <1>8 DEF Record
  <2>3. \A stored : GateResult(a.audit, stored) \in {"allowed", "rejected"}
    BY DEF GateResult
  <2>4. CASE GotoWith(s, "tracing", GateResult(a.audit, FALSE)) /\ UNCHANGED gateDb
    BY <1>f, <2>1, <2>3, <2>4 DEF gateDb, Stages, Results, VerdictKinds
  <2>5. CASE /\ RecordEvaluation(job[s].repo, CommitOf(Req(s).patch), a.audit)
             /\ job' = [job EXCEPT ![s].pc = "tracing", ![s].res = GateResult(a.audit, TRUE),
                                   ![s].eval = id]
    <3>1. DOMAIN evals' = DOMAIN evals \cup {id}
      BY <2>5 DEF RecordEvaluation
    <3>2. \E res \in {"allowed", "rejected"} : Moves(s, "tracing", res, id)
      <4>. HIDE DEF id
      <4>. QED  BY <2>1, <2>3, <2>5, <3>1, GotoMoves DEF Stages, Results
    <3>. HIDE DEF id
    <3>. QED  BY <1>b, <2>1, <3>2, VerdictMoves DEF VerdictKinds
  <2>. QED  BY <2>2, <2>4, <2>5
<1>9. ASSUME NEW s \in Servers, Write(s) PROVE VerdictInv'
  BY <1>c, <1>9 DEF Write, At, VerdictKinds
<1>10. ASSUME NEW s \in Servers, WriteFails(s) PROVE VerdictInv'
  BY <1>c, <1>10 DEF WriteFails, At, VerdictKinds
<1>11. ASSUME NEW s \in Servers, ReadingFails(s) PROVE VerdictInv'
  <2>1. Moves(s, "shadowing", "error", None) /\ UNCHANGED saraDb
    BY <1>11, GotoMoves DEF ReadingFails, At, gateDb, Stages, Results
  <2>. QED  BY <2>1, VerdictMoves DEF VerdictKinds
<1>12. ASSUME NEW s \in Servers, AuditRead(s) PROVE VerdictInv'
  <2>1. /\ job[s].pc = "auditing" /\ UNCHANGED <<calls, outcome, evals>>
    BY <1>12 DEF AuditRead, At, gateDb
  <2>2. CASE Goto(s, "failclosing") /\ UNCHANGED saraDb
    BY <1>a, <1>f, <2>1, <2>2 DEF Stages, Jobs
  <2>3. ASSUME NEW verdict, NEW raw, verdict \in {"ALLOW", "STRIP_COMMANDS", "QUARANTINE_TOOL"},
               AuditCommit(job[s].n, verdict, raw),
               GotoWith(s, IF verdict = "ALLOW" THEN "caching" ELSE "tracing",
                        ResultOfVerdict(verdict))
        PROVE  VerdictInv'
    <3>1. ResultOfVerdict(verdict) \in Results
      BY DEF ResultOfVerdict, Results
    <3>2. \E pc \in {"caching", "tracing"} : Moves(s, pc, ResultOfVerdict(verdict), job[s].eval)
      BY <2>1, <2>3, <3>1, GotoMoves DEF Stages
    <3>. QED  BY <2>3, <3>2, VerdictCommits
  <2>4. \A r : VerdictForRisk(r) \in {"ALLOW", "STRIP_COMMANDS", "QUARANTINE_TOOL"}
    BY DEF VerdictForRisk
  <2>. QED  BY <1>12, <2>2, <2>3, <2>4 DEF AuditRead
<1>13. ASSUME NEW s \in Servers, FailClosed(s) PROVE VerdictInv'
  <2>1. /\ job[s].pc = "failclosing" /\ UNCHANGED <<calls, outcome, evals>>
        /\ GotoWith(s, "tracing", "quarantined")
    BY <1>13 DEF FailClosed, At, gateDb, FailedVerdict, ResultOfVerdict
  <2>2. Moves(s, "tracing", "quarantined", job[s].eval)
    BY <2>1, GotoMoves DEF Stages, Results
  <2>3. CASE AuditCommit(job[s].n, "QUARANTINE_TOOL", RawForQuarantine(Req(s).texts))
    <3>1. ResultOfVerdict("QUARANTINE_TOOL") = "quarantined"
      BY DEF ResultOfVerdict
    <3>. QED  BY <2>2, <2>3, <3>1, VerdictCommits
  <2>4. CASE UNCHANGED saraDb
    <3>1. job[s].n \notin DOMAIN saraLog
      BY <1>b, <2>1
    <3>. QED  BY <2>1, <2>2, <2>4, <3>1, QuarantineIsSaid
  <2>. QED  BY <1>13, <2>3, <2>4 DEF FailClosed
<1>14. ASSUME NEW s \in Servers, StoreResult(s) PROVE VerdictInv'
  <2>1. job[s].pc = "caching" /\ UNCHANGED <<calls, outcome, evals, saraDb>>
    BY <1>14 DEF StoreResult, At, gateDb
  <2>2. CASE Goto(s, "shadowing")
    BY <1>a, <1>f, <2>1, <2>2 DEF Stages, Jobs
  <2>3. CASE job' = [job EXCEPT ![s].pc = "shadowing", ![s].res = "error", ![s].eval = None]
    <3>1. Moves(s, "shadowing", "error", None)
      BY <2>1, <2>3, GotoMoves DEF Stages, Results
    <3>. QED  BY <2>1, <3>1, VerdictMoves DEF VerdictKinds
  <2>. QED  BY <1>14, <2>2, <2>3 DEF StoreResult
<1>15. ASSUME NEW s \in Servers, Trace(s) PROVE VerdictInv'
  <2>1. job[s].pc = "tracing" /\ UNCHANGED <<calls, evals, saraDb>>
    BY <1>15 DEF Trace, At, gateDb
  <2>2. CASE job[s].res = "stripped" /\ Goto(s, "caching") /\ UNCHANGED outcome
    BY <1>f, <2>1, <2>2 DEF Stages, Results, VerdictKinds
  <2>3. CASE job[s].res = "allowed" /\ Goto(s, "writing") /\ UNCHANGED outcome
    <3>1. Moves(s, "writing", "allowed", job[s].eval)
      BY <2>1, <2>3, GotoMoves DEF Stages
    <3>. QED  BY <1>b, <2>1, <2>3, <3>1, VerdictMoves DEF VerdictKinds
  <2>4. CASE /\ job[s].res = "allowed" /\ UNCHANGED outcome
             /\ job' = [job EXCEPT ![s].pc = ToolStep(Req(s)), ![s].res = ToolResult(Req(s)),
                                   ![s].eval = IF Req(s).texts = <<>> THEN None ELSE @]
    <3>1. \E pc \in {"auditing", "shadowing"}, res \in {"none", "plain", "error"} : \E e :
             Moves(s, pc, res, e)
      BY <2>1, <2>4, ToolMoves
    <3>. QED  BY <1>b, <2>1, <2>4, <3>1, VerdictMoves DEF VerdictKinds
  <2>5. ASSUME NEW e,
               outcome' = [outcome EXCEPT ![job[s].n] = [kind |-> job[s].res, eval |-> e]],
               job' = [job EXCEPT ![s] = NoJob]
        PROVE  VerdictInv'
    <3>. DEFINE o == [kind |-> job[s].res, eval |-> e]
    <3>1. Settles(s, o) /\ o.kind = job[s].res
      BY <2>1, <2>5 DEF Settles
    <3>. HIDE DEF o
    <3>. QED  BY <2>1, <3>1, VerdictSettles
  <2>. QED  BY <1>15, <2>2, <2>3, <2>4, <2>5 DEF Trace
<1>16. ASSUME NEW s \in Servers, Shadow(s) PROVE VerdictInv'
  BY <1>c, <1>16 DEF Shadow, At
<1>17. ASSUME NEW s \in Servers, Crash(s) PROVE VerdictInv'
  BY <1>c, <1>17 DEF Crash, VerdictKinds
<1>18. ASSUME UNCHANGED <<job, calls, outcome, saraDb>> PROVE VerdictInv'
  BY <1>18 DEF VerdictInv, VerdictsAreStored, Says, saraDb
<1>19. CASE UNCHANGED vars
  BY <1>18, <1>19 DEF vars, local
<1>20. ASSUME NEW f \in RuleFiles, NEW text \in DOMAIN Contents \cup {None}, Edit(f, text)
       PROVE  VerdictInv'
  BY <1>18, <1>20 DEF Edit, local
<1>21. ASSUME NEW s \in Servers, Restart(s) PROVE VerdictInv'
  BY <1>18, <1>21 DEF Restart
<1>. QED  BY <1>1, <1>2, <1>3, <1>4, <1>5, <1>6, <1>7, <1>8, <1>9, <1>10, <1>11, <1>12, <1>13,
             <1>14, <1>15, <1>16, <1>17, <1>19, <1>20, <1>21 DEF Next, Serve

(* What callers are told of an audit is what the audit database keeps,     *)
(* whatever is refused or killed between the two (mcp.py:1104-1290).       *)
THEOREM ToldVerdictsAreStored == Spec => []VerdictsAreStored
<1>1. Init => VerdictInv
  BY VerdictStart
<1>2. ServerInv /\ ServerInv' /\ VerdictInv /\ [Next]_vars => VerdictInv'
  BY VerdictStep
<1>3. VerdictInv => VerdictsAreStored
  BY DEF VerdictInv
<1>. QED  BY <1>1, <1>2, <1>3, TypeCorrect, PTL DEF Spec

-----------------------------------------------------------------------------
(* Patches.                                                                *)

(* The evaluations of a commit are numbered without a gap, and findings    *)
(* are of evaluations there are.                                           *)
Numbered ==
    /\ IsFiniteSet(DOMAIN evals)
    /\ \A e \in DOMAIN evals :
          e[3] \in Nat /\ e[3] < Cardinality({d \in DOMAIN evals : d[1] = e[1] /\ d[2] = e[2]})
    /\ \A f \in findings : f[1] \in DOMAIN evals

(* What a job carries on is allowed, but for the rejection it is about to  *)
(* answer.                                                                 *)
Carries(pc, res, e) ==
    /\ e = None \/ IsAllowed(e) \/ (pc = "tracing" /\ res = "rejected")
    /\ res = "allowed" => pc \in {"tracing", "writing"} /\ IsAllowed(e)
    /\ pc = "writing" => res = "allowed"

PatchInv ==
    /\ PatchAppliedIsRecorded
    /\ Numbered
    /\ \A s \in Servers : Carries(job[s].pc, job[s].res, job[s].eval)

LEMMA PatchStart == Init => PatchInv
<1>. SUFFICES ASSUME Init PROVE PatchInv
  OBVIOUS
<1>1. IsFiniteSet(DOMAIN evals) /\ DOMAIN evals = {} /\ findings = {}
  BY FS_EmptySet DEF Init, SweGateInit
<1>2. Numbered
  BY <1>1 DEF Numbered
<1>3. PatchAppliedIsRecorded
  BY DEF PatchAppliedIsRecorded, Init, NoJob
<1>. QED  BY <1>2, <1>3 DEF PatchInv, Carries, Init, NoJob

(* The number of an evaluation is free, so that what is in the database is *)
(* left as it is, and numbers are still without a gap.                     *)
LEMMA EvaluationsAreKept ==
    ASSUME Numbered, NEW repo, NEW commit, NEW r \in DOMAIN Requests,
           RecordEvaluation(repo, commit, EvaluatePatch(Requests[r].patch))
    PROVE  /\ Numbered'
           /\ \A e : IsAllowed(e) => IsAllowed(e)'
           /\ EvaluatePatch(Requests[r].patch).verdict = "ALLOW_MERGE"
              => \A e : e = EvaluationId(repo, commit) => IsAllowed(e)'
<1>. DEFINE Of(S, e) == {d \in S : d[1] = e[1] /\ d[2] = e[2]}
            n == Cardinality({e \in DOMAIN evals : e[1] = repo /\ e[2] = commit})
            audit == EvaluatePatch(Requests[r].patch)
<1>1. PICK id : id = <<repo, commit, n>>
  OBVIOUS
<1>2. EvaluationId(repo, commit) = id
  BY <1>1 DEF EvaluationId
<1>3. id[1] = repo /\ id[2] = commit /\ id[3] = n
  BY <1>1
<1>4. n = Cardinality(Of(DOMAIN evals, id))
  BY <1>3
<1>5. id \notin DOMAIN evals
  <2>1. id \in DOMAIN evals => n \in Nat /\ n < n
    BY <1>3, <1>4 DEF Numbered
  <2>. HIDE DEF n
  <2>. QED  BY <2>1
<1>6. /\ DOMAIN evals' = DOMAIN evals \cup {id}
      /\ \A e \in DOMAIN evals : evals'[e] = evals[e]
      /\ evals'[id] = [verdict |-> audit.verdict, passed |-> audit.passed,
                       violations |-> audit.violations]
      /\ findings' = findings \cup {<<id, i>> : i \in 1..audit.violations}
  BY <1>2, <1>5 DEF RecordEvaluation
<1>. HIDE DEF n, audit
<1>7. \A e : IsFiniteSet(Of(DOMAIN evals, e)) /\ Cardinality(Of(DOMAIN evals, e)) \in Nat
  <2>1. ASSUME NEW e PROVE Of(DOMAIN evals, e) \in SUBSET DOMAIN evals
    OBVIOUS
  <2>. HIDE DEF Of
  <2>. QED  BY <2>1, FS_Subset, FS_CardinalityType DEF Numbered
<1>8. IsFiniteSet(DOMAIN evals')
  BY <1>6, FS_AddElement DEF Numbered
<1>9. \A e : IsFiniteSet(Of(DOMAIN evals', e))
             /\ Cardinality(Of(DOMAIN evals, e)) <= Cardinality(Of(DOMAIN evals', e))
  <2>1. ASSUME NEW e PROVE Of(DOMAIN evals', e) \in SUBSET DOMAIN evals'
    OBVIOUS
  <2>2. ASSUME NEW e PROVE Of(DOMAIN evals, e) \in SUBSET Of(DOMAIN evals', e)
    BY <1>6
  <2>. HIDE DEF Of
  <2>3. ASSUME NEW e PROVE IsFiniteSet(Of(DOMAIN evals', e))
    BY <1>8, <2>1, FS_Subset
  <2>. QED  BY <2>2, <2>3, FS_Subset
<1>10. n \in Nat /\ n < Cardinality(Of(DOMAIN evals', id))
  <2>1. Of(DOMAIN evals', id) = Of(DOMAIN evals, id) \cup {id}
    BY <1>3, <1>6
  <2>2. id \notin Of(DOMAIN evals, id)
    BY <1>5
  <2>3. IsFiniteSet(Of(DOMAIN evals, id)) /\ Cardinality(Of(DOMAIN evals, id)) \in Nat
    BY <1>7
  <2>. HIDE DEF Of
  <2>4. Cardinality(Of(DOMAIN evals, id) \cup {id}) = Cardinality(Of(DOMAIN evals, id)) + 1
    BY <2>2, <2>3, FS_AddElement
  <2>5. Cardinality(Of(DOMAIN evals', id)) = n + 1 /\ n \in Nat
    BY <1>4, <2>1, <2>3, <2>4
  <2>. QED  BY <2>5
<1>11. ASSUME NEW e \in DOMAIN evals'
       PROVE  e[3] \in Nat /\ e[3] < Cardinality(Of(DOMAIN evals', e))
  <2>1. CASE e = id
    <3>. HIDE DEF Of
    <3>. QED  BY <1>3, <1>10, <2>1
  <2>2. CASE e # id
    <3>1. e[3] \in Nat /\ e[3] < Cardinality(Of(DOMAIN evals, e))
      BY <1>6, <2>2 DEF Numbered
    <3>2. Cardinality(Of(DOMAIN evals', e)) \in Nat
      <4>. HIDE DEF Of
      <4>. QED  BY <1>9, FS_CardinalityType
    <3>3. Cardinality(Of(DOMAIN evals, e)) \in Nat
      BY <1>7
    <3>. HIDE DEF Of
    <3>. QED  BY <1>9, <3>1, <3>2, <3>3
  <2>. QED  BY <2>1, <2>2
<1>12. \A f \in findings' : f[1] \in DOMAIN evals'
  <2>1. ASSUME NEW i PROVE <<id, i>>[1] = id
    OBVIOUS
  <2>. QED  BY <1>6, <2>1 DEF Numbered
<1>13. Numbered'
  BY <1>8, <1>11, <1>12 DEF Numbered
<1>14. \A f \in findings' : f[1] # id => f \in findings
  <2>1. ASSUME NEW i PROVE <<id, i>>[1] = id
    OBVIOUS
  <2>. QED  BY <1>6, <2>1
<1>15. ASSUME NEW e, IsAllowed(e) PROVE IsAllowed(e)'
  BY <1>5, <1>6, <1>14, <1>15 DEF IsAllowed
<1>16. ASSUME audit.verdict = "ALLOW_MERGE" PROVE IsAllowed(id)'
  <2>1. audit.passed /\ audit.violations = 0
    BY <1>16 DEF EvaluatePatch, DecideGateVerdict, audit
  <2>2. \A f \in findings : f[1] # id
    BY <1>5 DEF Numbered
  <2>3. \A f \in findings' : f[1] # id
    BY <1>6, <2>1, <2>2
  <2>. QED  BY <1>6, <1>16, <2>1, <2>3 DEF IsAllowed
<1>. QED  BY <1>2, <1>13, <1>15, <1>16 DEF audit

LEMMA PatchMoves ==
    ASSUME ServerInv, PatchInv, NEW s \in Servers, NEW pc, NEW res, NEW e, Moves(s, pc, res, e),
           UNCHANGED gateDb, Carries(pc, res, e)
    PROVE  PatchInv'
<1>1. PICK j : Advances(s, j) /\ j.pc = pc /\ j.res = res /\ j.eval = e
  BY DEF Moves
<1>2. \A t \in Servers : job'[t] = IF t = s THEN j ELSE job[t]
  BY <1>1 DEF Advances, ServerInv, TypeOK
<1>3. \A x, y, z : Carries(x, y, z) => Carries(x, y, z)'
  BY DEF Carries, IsAllowed, gateDb
<1>4. ASSUME NEW t \in Servers PROVE Carries(job'[t].pc, job'[t].res, job'[t].eval)
  BY <1>1, <1>2 DEF PatchInv
<1>5. \A t \in Servers : job'[t].pc = "writing" => IsAllowed(job'[t].eval)
  BY <1>4 DEF Carries
<1>6. PatchAppliedIsRecorded'
  BY <1>1, <1>5 DEF PatchInv, PatchAppliedIsRecorded, IsAllowed, Advances, gateDb
<1>7. Numbered'
  BY DEF PatchInv, Numbered, gateDb
<1>8. \A t \in Servers : Carries(job[t].pc, job[t].res, job[t].eval)'
  BY <1>4 DEF Carries, IsAllowed, gateDb
<1>. QED  BY <1>6, <1>7, <1>8 DEF PatchInv

LEMMA PatchSettles ==
    ASSUME ServerInv, PatchInv, NEW s \in Servers, NEW o, Settles(s, o), UNCHANGED gateDb,
           o.kind \in {"allowed", "applied"} => IsAllowed(o.eval),
           o.kind \in {"released", "stripped"} => o.eval = None \/ IsAllowed(o.eval)
    PROVE  PatchInv'
<1>1. /\ \A t \in Servers : job'[t] = IF t = s THEN NoJob ELSE job[t]
      /\ \A n \in 1..calls : outcome'[n] = IF n = job[s].n THEN o ELSE outcome[n]
      /\ calls' = calls
  BY DEF Settles, ServerInv, TypeOK
<1>2. NoJob.pc = "idle" /\ NoJob.res = "none" /\ NoJob.eval = None
  BY DEF NoJob
<1>3. PatchAppliedIsRecorded'
  BY <1>1, <1>2 DEF PatchInv, PatchAppliedIsRecorded, IsAllowed, gateDb
<1>4. Numbered'
  BY DEF PatchInv, Numbered, gateDb
<1>5. \A t \in Servers : Carries(job[t].pc, job[t].res, job[t].eval)'
  BY <1>1, <1>2 DEF PatchInv, Carries, IsAllowed, gateDb
<1>. QED  BY <1>3, <1>4, <1>5 DEF PatchInv

LEMMA PatchStep == ServerInv /\ PatchInv /\ [Next]_vars => PatchInv'
<1>. SUFFICES ASSUME ServerInv, PatchInv, [Next]_vars PROVE PatchInv'
  OBVIOUS
<1>a. \A s \in Servers : job[s] \in Jobs /\ Carries(job[s].pc, job[s].res, job[s].eval)
  BY DEF ServerInv, TypeOK, PatchInv
<1>b. ASSUME NEW s \in Servers, NEW pc \in Stages \ {"idle"}, NEW res \in Results,
             job[s].pc # "idle", (Goto(s, pc) /\ res = job[s].res) \/ GotoWith(s, pc, res),
             UNCHANGED <<calls, outcome, gateDb>>, Carries(pc, res, job[s].eval)
      PROVE  PatchInv'
  <2>1. Moves(s, pc, res, job[s].eval)
    BY <1>b, GotoMoves DEF gateDb
  <2>. QED  BY <1>b, <2>1, PatchMoves
<1>c. ASSUME NEW s \in Servers, job[s].pc # "idle", NEW kind, Settle(s, kind),
             UNCHANGED <<calls, gateDb>>,
             kind \in {"allowed", "applied"} => IsAllowed(job[s].eval),
             kind \in {"released", "stripped"} => job[s].eval = None \/ IsAllowed(job[s].eval)
      PROVE  PatchInv'
  <2>. DEFINE o == [kind |-> kind, eval |-> job[s].eval]
  <2>1. Settles(s, o) /\ o.kind = kind /\ o.eval = job[s].eval
    BY <1>c, SettleSettles
  <2>. HIDE DEF o
  <2>. QED  BY <1>c, <2>1, PatchSettles
<1>d. ASSUME NEW s \in Servers, Escape(s), UNCHANGED <<calls, gateDb>>, job[s].pc # "idle"
      PROVE  PatchInv'
  BY <1>c, <1>d DEF Escape
<1>e. ASSUME NEW s \in Servers, AfterRules(s), UNCHANGED <<calls, outcome, gateDb>>,
             job[s].pc = "enforcing"
      PROVE  PatchInv'
  <2>1. UNCHANGED evals
    BY <1>e DEF gateDb
  <2>2. CASE Moves(s, "registering", job[s].res, job[s].eval)
    <3>1. Carries("registering", job[s].res, job[s].eval)
      BY <1>a, <1>e DEF Carries
    <3>. QED  BY <1>e, <2>2, <3>1, PatchMoves
  <2>3. ASSUME NEW pc \in {"auditing", "shadowing"}, NEW res \in {"none", "plain", "error"},
               Moves(s, pc, res, job[s].eval)
        PROVE  PatchInv'
    <3>1. Carries(pc, res, job[s].eval)
      BY <1>a, <1>e DEF Carries
    <3>. QED  BY <1>e, <2>3, <3>1, PatchMoves
  <2>. QED  BY <1>e, <2>1, <2>2, <2>3, AfterRulesMoves
<1>f. ASSUME UNCHANGED gateDb
      PROVE  /\ Numbered'
             /\ \A x, y, z : Carries(x, y, z) => Carries(x, y, z)'
             /\ \A e : IsAllowed(e) => IsAllowed(e)'
  BY <1>f DEF PatchInv, Numbered, Carries, IsAllowed, gateDb
<1>g. ASSUME NEW s \in Servers, NEW j, Advances(s, j), j.pc # "writing", UNCHANGED gateDb,
             Carries(j.pc, j.res, j.eval)
      PROVE  PatchInv'
  <2>1. \A t \in Servers : job'[t] = IF t = s THEN j ELSE job[t]
    BY <1>g DEF Advances, ServerInv, TypeOK
  <2>2. PatchAppliedIsRecorded'
    BY <1>g, <2>1 DEF PatchInv, PatchAppliedIsRecorded, IsAllowed, Advances, gateDb
  <2>3. \A t \in Servers : Carries(job[t].pc, job[t].res, job[t].eval)'
    BY <1>a, <1>g, <2>1 DEF Carries, IsAllowed, gateDb
  <2>. QED  BY <1>f, <1>g, <2>2, <2>3 DEF PatchInv
<1>1. ASSUME NEW s \in Servers, NEW name \in DOMAIN Requests, Receive(s, name) PROVE PatchInv'
  <2>1. /\ calls' = calls + 1 /\ calls \in Nat /\ UNCHANGED gateDb
        /\ \A t \in Servers : t # s => job'[t] = job[t]
        /\ job[s] = NoJob
    BY <1>1 DEF Receive, At, ServerInv, TypeOK, ServesOne
  <2>2. job'[s].res = "none" /\ job'[s].pc # "writing" /\ job'[s].eval = None
    BY <1>1, <2>1 DEF Receive, NoJob, ServerInv, TypeOK
  <2>3. /\ \A n \in 1..calls : outcome'[n] = outcome[n]
        /\ outcome'[calls + 1].kind \notin {"allowed", "applied", "released", "stripped"}
    <3>1. ReplyTo(Requests[name].kind) \in {"pending", "silent", "error", "plain"}
      BY DEF ReplyTo
    <3>. QED  BY <1>1, <2>1, <3>1 DEF Receive
  <2>4. PatchAppliedIsRecorded'
    BY <2>1, <2>2, <2>3 DEF PatchInv, PatchAppliedIsRecorded, IsAllowed, gateDb
  <2>5. \A t \in Servers : Carries(job[t].pc, job[t].res, job[t].eval)'
    BY <1>a, <2>1, <2>2 DEF Carries, IsAllowed, gateDb
  <2>. QED  BY <1>f, <2>1, <2>4, <2>5 DEF PatchInv
<1>2. ASSUME NEW s \in Servers, LoadRules(s) PROVE PatchInv'
  <2>1. PICK j \in Jobs : Advances(s, j) /\ j.pc \in {"loading", "enforcing"}
                          /\ j.res = job[s].res /\ j.eval = job[s].eval
    BY <1>2, LoadRulesAdvances
  <2>2. UNCHANGED gateDb /\ job[s].pc = "loading"
    BY <1>2 DEF LoadRules, At
  <2>3. Carries(j.pc, j.res, j.eval)
    BY <1>a, <2>1, <2>2 DEF Carries
  <2>. QED  BY <1>g, <2>1, <2>2, <2>3
<1>3. ASSUME NEW s \in Servers, Enforce(s) PROVE PatchInv'
  <2>1. job[s].pc = "enforcing" /\ UNCHANGED <<gateDb, calls>>
    BY <1>3 DEF Enforce, At
  <2>2. CASE GotoWith(s, "tracing", "blocked") /\ UNCHANGED outcome
    <3>1. Carries("tracing", "blocked", job[s].eval)
      BY <1>a, <2>1 DEF Carries
    <3>. QED  BY <1>b, <2>1, <2>2, <3>1 DEF Stages, Results
  <2>. QED  BY <1>d, <1>e, <1>3, <2>1, <2>2 DEF Enforce
<1>4. ASSUME NEW s \in Servers, GuardTraversal(s) PROVE PatchInv'
  <2>1. job[s].pc = "guarding" /\ UNCHANGED <<gateDb, calls>>
    BY <1>4 DEF GuardTraversal, At
  <2>2. CASE /\ job' = [job EXCEPT ![s].guards = SystemManifest.guards, ![s].pc = "logging"]
             /\ UNCHANGED <<up, outcome>>
    <3>. DEFINE j == [job[s] EXCEPT !.guards = SystemManifest.guards, !.pc = "logging"]
    <3>1. job' = [job EXCEPT ![s] = j]
      BY <1>a, <2>2 DEF Jobs, ServerInv, TypeOK
    <3>2. j.pc = "logging" /\ j.n = job[s].n /\ j.res = job[s].res /\ j.req = job[s].req
             /\ j.eval = job[s].eval
      BY <1>a DEF Jobs
    <3>3. Advances(s, j)
      BY <2>1, <2>2, <3>1, <3>2 DEF Advances
    <3>. HIDE DEF j
    <3>4. Carries(j.pc, j.res, j.eval)
      BY <1>a, <2>1, <3>2 DEF Carries
    <3>. QED  BY <1>g, <2>1, <3>2, <3>3, <3>4
  <2>. QED  BY <1>d, <1>4, <2>1, <2>2 DEF GuardTraversal
<1>5. ASSUME NEW s \in Servers, LogTraversal(s) PROVE PatchInv'
  <2>1. /\ job[s].pc = "logging" /\ GotoWith(s, "tracing", "blocked")
        /\ UNCHANGED <<gateDb, calls, outcome>>
    BY <1>5 DEF LogTraversal, At
  <2>2. Carries("tracing", "blocked", job[s].eval)
    BY <1>a, <2>1 DEF Carries
  <2>. QED  BY <1>b, <2>1, <2>2 DEF Stages, Results
<1>6. ASSUME NEW s \in Servers, NEW pc \in {"recording", "registering_default", "shadowing"},
             NEW res \in {job[s].res, "error"}, Moves(s, pc, res, job[s].eval),
             UNCHANGED <<evals, findings>>, job[s].pc \in {"registering", "registering_default"}
      PROVE  PatchInv'
  <2>1. PICK j : Advances(s, j) /\ j.pc = pc /\ j.res = res /\ j.eval = job[s].eval
    BY <1>6 DEF Moves
  <2>2. \A t \in Servers : job'[t] = IF t = s THEN j ELSE job[t]
    BY <2>1 DEF Advances, ServerInv, TypeOK
  <2>3. Carries(j.pc, j.res, j.eval)
    BY <1>a, <1>6, <2>1 DEF Carries
  <2>4. PatchAppliedIsRecorded'
    BY <1>6, <2>1, <2>2 DEF PatchInv, PatchAppliedIsRecorded, IsAllowed, Advances
  <2>5. \A t \in Servers : Carries(job[t].pc, job[t].res, job[t].eval)'
    BY <1>a, <1>6, <2>2, <2>3 DEF Carries, IsAllowed
  <2>6. Numbered'
    BY <1>6 DEF PatchInv, Numbered
  <2>. QED  BY <2>4, <2>5, <2>6 DEF PatchInv
<1>7. ASSUME NEW s \in Servers, Register(s) PROVE PatchInv'
  <2>1. /\ job[s].pc = "registering" /\ UNCHANGED <<calls, outcome, evals, findings>>
        /\ RepoIdOf(Req(s).patch) \in RepoIds
    BY <1>7 DEF Register, Registers, RegisterRepository, At, gateDb, ServerInv, ServesOne,
                RepoIds, Req
  <2>2. \E pc \in {"recording", "registering_default"} : Moves(s, pc, job[s].res, job[s].eval)
    BY <1>7, <2>1, GotoMoves DEF Register, Registers, Stages
  <2>. QED  BY <1>6, <2>1, <2>2
<1>8. ASSUME NEW s \in Servers, RegisterDefault(s) PROVE PatchInv'
  <2>1. /\ job[s].pc = "registering_default" /\ UNCHANGED <<calls, outcome, evals, findings>>
        /\ DefaultName \in RepoIds
    BY <1>8 DEF RegisterDefault, Registers, RegisterRepository, At, gateDb, RepoIds
  <2>2. \/ Moves(s, "recording", job[s].res, job[s].eval)
        \/ Moves(s, "shadowing", "error", job[s].eval)
    BY <1>8, <2>1, GotoMoves DEF RegisterDefault, Registers, Stages, Results
  <2>. QED  BY <1>6, <2>1, <2>2
<1>9. ASSUME NEW s \in Servers, Record(s) PROVE PatchInv'
  <2>1. job[s].pc = "recording" /\ UNCHANGED <<calls, outcome>>
    BY <1>9 DEF Record, At
  <2>2. PICK a \in Audits :
            \/ /\ RecordEvaluation(job[s].repo, CommitOf(Req(s).patch), a.audit)
               /\ job' = [job EXCEPT ![s].pc = "tracing", ![s].res = GateResult(a.audit, TRUE),
                                     ![s].eval = EvaluationId(job[s].repo, CommitOf(Req(s).patch))]
            \/ /\ GotoWith(s, "tracing", GateResult(a.audit, FALSE))
               /\ UNCHANGED gateDb
    BY <1>9 DEF Record
  <2>3. PICK r \in DOMAIN Requests : a.audit = EvaluatePatch(Requests[r].patch)
    BY DEF Audits
  <2>4. CASE GotoWith(s, "tracing", GateResult(a.audit, FALSE)) /\ UNCHANGED gateDb
    <3>1. GateResult(a.audit, FALSE) = "rejected"
      BY DEF GateResult
    <3>2. Carries("tracing", "rejected", job[s].eval)
      BY DEF Carries
    <3>. QED  BY <1>b, <2>1, <2>4, <3>1, <3>2 DEF Stages, Results
  <2>5. CASE /\ RecordEvaluation(job[s].repo, CommitOf(Req(s).patch), a.audit)
             /\ job' = [job EXCEPT ![s].pc = "tracing", ![s].res = GateResult(a.audit, TRUE),
                                   ![s].eval = EvaluationId(job[s].repo, CommitOf(Req(s).patch))]
    <3>1. PICK id : id = EvaluationId(job[s].repo, CommitOf(Req(s).patch))
      OBVIOUS
    <3>2. PICK res \in {"allowed", "rejected"} : res = GateResult(a.audit, TRUE)
      BY DEF GateResult
    <3>3. /\ Numbered'
          /\ \A e : IsAllowed(e) => IsAllowed(e)'
          /\ a.audit.verdict = "ALLOW_MERGE" => IsAllowed(id)'
      <4>1. Numbered
        BY DEF PatchInv
      <4>. QED  BY <2>3, <2>5, <3>1, <4>1, EvaluationsAreKept
    <3>4. res = "allowed" => a.audit.verdict = "ALLOW_MERGE"
      BY <3>2 DEF GateResult
    <3>5. DOMAIN evals' = DOMAIN evals \cup {id}
      BY <2>5, <3>1 DEF RecordEvaluation
    <3>6. PICK j : Advances(s, j) /\ j.pc = "tracing" /\ j.res = res /\ j.eval = id
      <4>1. job' = [job EXCEPT ![s].pc = "tracing", ![s].res = res, ![s].eval = id]
        BY <2>5, <3>1, <3>2
      <4>2. Moves(s, "tracing", res, id)
        BY <2>1, <3>2, <3>5, <4>1, GotoMoves DEF Stages, Results
      <4>. QED  BY <4>2 DEF Moves
    <3>7. \A t \in Servers : job'[t] = IF t = s THEN j ELSE job[t]
      BY <3>6 DEF Advances, ServerInv, TypeOK
    <3>8. PatchAppliedIsRecorded'
      <4>1. \A n \in 1..calls :
                /\ outcome[n].kind \in {"allowed", "applied"} => IsAllowed(outcome[n].eval)
                /\ outcome[n].kind \in {"released", "stripped"}
                   => outcome[n].eval = None \/ IsAllowed(outcome[n].eval)
        BY DEF PatchInv, PatchAppliedIsRecorded
      <4>2. \A t \in Servers : job[t].pc = "writing" => IsAllowed(job[t].eval)
        BY DEF PatchInv, PatchAppliedIsRecorded
      <4>. QED  BY <2>1, <3>3, <3>6, <3>7, <4>1, <4>2 DEF PatchAppliedIsRecorded
    <3>9. \A t \in Servers : Carries(job[t].pc, job[t].res, job[t].eval)'
      BY <1>a, <3>2, <3>3, <3>4, <3>6, <3>7 DEF Carries
    <3>. QED  BY <3>3, <3>8, <3>9 DEF PatchInv
  <2>. QED  BY <2>2, <2>4, <2>5
<1>10. ASSUME NEW s \in Servers, Write(s) PROVE PatchInv'
  <2>1. job[s].pc = "writing" /\ Settle(s, "applied") /\ UNCHANGED <<calls, gateDb>>
    BY <1>10 DEF Write, At
  <2>2. IsAllowed(job[s].eval)
    BY <1>a, <2>1 DEF Carries
  <2>. QED  BY <1>c, <2>1, <2>2
<1>11. ASSUME NEW s \in Servers, WriteFails(s) PROVE PatchInv'
  BY <1>c, <1>11 DEF WriteFails, At
<1>12. ASSUME NEW s \in Servers, ReadingFails(s) PROVE PatchInv'
  <2>1. Moves(s, "shadowing", "error", None) /\ UNCHANGED gateDb
    BY <1>12, GotoMoves DEF ReadingFails, At, gateDb, Stages, Results
  <2>2. Carries("shadowing", "error", None)
    BY DEF Carries
  <2>. QED  BY <2>1, <2>2, PatchMoves
<1>13. ASSUME NEW s \in Servers, AuditRead(s) PROVE PatchInv'
  <2>1. job[s].pc = "auditing" /\ UNCHANGED <<calls, outcome, gateDb>>
    BY <1>13 DEF AuditRead, At
  <2>2. CASE Goto(s, "failclosing")
    <3>1. Carries("failclosing", job[s].res, job[s].eval)
      BY <1>a, <2>1 DEF Carries
    <3>. QED  BY <1>a, <1>b, <2>1, <2>2, <3>1 DEF Stages, Jobs
  <2>3. ASSUME NEW pc \in {"caching", "tracing"}, NEW res \in {"released", "stripped", "quarantined"},
               GotoWith(s, pc, res)
        PROVE  PatchInv'
    <3>1. Carries(pc, res, job[s].eval)
      BY <1>a, <2>1 DEF Carries
    <3>. QED  BY <1>b, <2>1, <2>3, <3>1 DEF Stages, Results
  <2>4. \A verdict : ResultOfVerdict(verdict) \in {"released", "stripped", "quarantined"}
    BY DEF ResultOfVerdict
  <2>. QED  BY <1>13, <2>2, <2>3, <2>4 DEF AuditRead
<1>14. ASSUME NEW s \in Servers, FailClosed(s) PROVE PatchInv'
  <2>1. /\ job[s].pc = "failclosing" /\ UNCHANGED <<calls, outcome, gateDb>>
        /\ GotoWith(s, "tracing", "quarantined")
    BY <1>14 DEF FailClosed, At, FailedVerdict, ResultOfVerdict
  <2>2. Carries("tracing", "quarantined", job[s].eval)
    BY <1>a, <2>1 DEF Carries
  <2>. QED  BY <1>b, <2>1, <2>2 DEF Stages, Results
<1>15. ASSUME NEW s \in Servers, StoreResult(s) PROVE PatchInv'
  <2>1. job[s].pc = "caching" /\ UNCHANGED <<calls, outcome, gateDb>>
    BY <1>15 DEF StoreResult, At
  <2>2. CASE Goto(s, "shadowing")
    <3>1. Carries("shadowing", job[s].res, job[s].eval)
      BY <1>a, <2>1 DEF Carries
    <3>. QED  BY <1>a, <1>b, <2>1, <2>2, <3>1 DEF Stages, Jobs
  <2>3. CASE job' = [job EXCEPT ![s].pc = "shadowing", ![s].res = "error", ![s].eval = None]
    <3>1. Moves(s, "shadowing", "error", None)
      BY <2>1, <2>3, GotoMoves DEF Stages, Results, gateDb
    <3>2. Carries("shadowing", "error", None)
      BY DEF Carries
    <3>. QED  BY <2>1, <3>1, <3>2, PatchMoves
  <2>. QED  BY <1>15, <2>2, <2>3 DEF StoreResult
<1>16. ASSUME NEW s \in Servers, Trace(s) PROVE PatchInv'
  <2>1. job[s].pc = "tracing" /\ UNCHANGED <<calls, gateDb, evals>>
    BY <1>16 DEF Trace, At, gateDb
  <2>2. CASE job[s].res = "stripped" /\ Goto(s, "caching") /\ UNCHANGED outcome
    <3>1. Carries("caching", "stripped", job[s].eval)
      BY <1>a, <2>2 DEF Carries
    <3>. QED  BY <1>b, <2>1, <2>2, <3>1 DEF Stages, Results
  <2>3. CASE job[s].res = "allowed" /\ Goto(s, "writing") /\ UNCHANGED outcome
    <3>1. Carries("writing", "allowed", job[s].eval)
      BY <1>a, <2>3 DEF Carries
    <3>. QED  BY <1>b, <2>1, <2>3, <3>1 DEF Stages, Results
  <2>4. CASE /\ job[s].res = "allowed" /\ UNCHANGED outcome
             /\ job' = [job EXCEPT ![s].pc = ToolStep(Req(s)), ![s].res = ToolResult(Req(s)),
                                   ![s].eval = IF Req(s).texts = <<>> THEN None ELSE @]
    <3>1. PICK pc \in {"auditing", "shadowing"}, res \in {"none", "plain", "error"},
               e \in {job[s].eval, None} : Moves(s, pc, res, e)
      BY <2>1, <2>4, ToolMoves
    <3>2. Carries(pc, res, e)
      BY <1>a, <2>4, <3>1 DEF Carries
    <3>. QED  BY <2>1, <3>1, <3>2, PatchMoves
  <2>5. ASSUME NEW e \in {job[s].eval, None},
               job[s].res = "allowed" => e = job[s].eval,
               outcome' = [outcome EXCEPT ![job[s].n] = [kind |-> job[s].res, eval |-> e]],
               job' = [job EXCEPT ![s] = NoJob]
        PROVE  PatchInv'
    <3>. DEFINE o == [kind |-> job[s].res, eval |-> e]
    <3>1. Settles(s, o) /\ o.kind = job[s].res /\ o.eval = e
      BY <2>1, <2>5 DEF Settles
    <3>2. o.kind \notin {"applied"}
      BY <1>a, <3>1 DEF Jobs, Results
    <3>3. /\ o.kind = "allowed" => IsAllowed(o.eval)
          /\ o.kind \in {"released", "stripped"} => o.eval = None \/ IsAllowed(o.eval)
      BY <1>a, <2>5, <3>1 DEF Carries
    <3>. HIDE DEF o
    <3>. QED  BY <2>1, <3>1, <3>2, <3>3, PatchSettles
  <2>6. \/ job[s].res = "stripped" /\ Goto(s, "caching") /\ UNCHANGED outcome
        \/ job[s].res = "allowed" /\ Goto(s, "writing") /\ UNCHANGED outcome
        \/ /\ job[s].res = "allowed" /\ UNCHANGED outcome
           /\ job' = [job EXCEPT ![s].pc = ToolStep(Req(s)), ![s].res = ToolResult(Req(s)),
                                 ![s].eval = IF Req(s).texts = <<>> THEN None ELSE @]
        \/ /\ outcome' = [outcome EXCEPT ![job[s].n] =
                             [kind |-> job[s].res,
                              eval |-> IF job[s].res \in {"allowed", "rejected"}
                                       THEN job[s].eval ELSE None]]
           /\ job' = [job EXCEPT ![s] = NoJob]
    BY <1>16 DEF Trace
  <2>7. CASE /\ outcome' = [outcome EXCEPT ![job[s].n] =
                               [kind |-> job[s].res,
                                eval |-> IF job[s].res \in {"allowed", "rejected"}
                                         THEN job[s].eval ELSE None]]
             /\ job' = [job EXCEPT ![s] = NoJob]
    BY <2>5, <2>7
  <2>. QED  BY <2>2, <2>3, <2>4, <2>6, <2>7
<1>17. ASSUME NEW s \in Servers, Shadow(s) PROVE PatchInv'
  <2>1. job[s].pc = "shadowing" /\ Settle(s, job[s].res) /\ UNCHANGED <<calls, gateDb>>
    BY <1>17 DEF Shadow, At
  <2>2. /\ job[s].res \in Results /\ job[s].res # "allowed"
        /\ job[s].eval = None \/ IsAllowed(job[s].eval)
    BY <1>a, <2>1 DEF Carries, Jobs
  <2>. QED  BY <1>c, <2>1, <2>2 DEF Results
<1>18. ASSUME NEW s \in Servers, Crash(s) PROVE PatchInv'
  BY <1>c, <1>18 DEF Crash
<1>19. ASSUME UNCHANGED <<job, calls, outcome, gateDb>> PROVE PatchInv'
  BY <1>19 DEF PatchInv, PatchAppliedIsRecorded, Numbered, Carries, IsAllowed, gateDb
<1>20. CASE UNCHANGED vars
  BY <1>19, <1>20 DEF vars, local
<1>21. ASSUME NEW f \in RuleFiles, NEW text \in DOMAIN Contents \cup {None}, Edit(f, text)
       PROVE  PatchInv'
  BY <1>19, <1>21 DEF Edit, local
<1>22. ASSUME NEW s \in Servers, Restart(s) PROVE PatchInv'
  BY <1>19, <1>22 DEF Restart
<1>. QED  BY <1>1, <1>2, <1>3, <1>4, <1>5, <1>7, <1>8, <1>9, <1>10, <1>11, <1>12, <1>13, <1>14,
             <1>15, <1>16, <1>17, <1>18, <1>20, <1>21, <1>22 DEF Next, Serve

(* A patch is written, or reported as allowed, only under an evaluation    *)
(* that allows it and stays in the database (mcp.py:961-1068).             *)
THEOREM AppliedPatchesAreRecorded == Spec => []PatchAppliedIsRecorded
<1>1. Init => PatchInv
  BY PatchStart
<1>2. ServerInv /\ ServerInv' /\ PatchInv /\ [Next]_vars => PatchInv'
  BY PatchStep
<1>3. PatchInv => PatchAppliedIsRecorded
  BY DEF PatchInv
<1>. QED  BY <1>1, <1>2, <1>3, TypeCorrect, PTL DEF Spec

-----------------------------------------------------------------------------
(* Rules.                                                                  *)

(* A call is blocked exactly when some guard is hit, and it is logged      *)
(* under a guard that explains the verdict.                                *)
LEMMA VerdictIsHits ==
    ASSUME NEW guards \in Seq(AllGuards), NEW call
    PROVE  /\ VerdictOn(guards, call) \in {"ALLOW", "BLOCKED"}
           /\ VerdictOn(guards, call) = "BLOCKED"
              <=> \E i \in DOMAIN guards : Hits(guards[i].target, call)
           /\ guards # <<>> =>
              \E i \in DOMAIN guards :
                 /\ PrimaryGuard(guards, call) = guards[i].id
                 /\ VerdictOn(guards, call) = IF Hits(guards[i].target, call)
                                              THEN "BLOCKED" ELSE "ALLOW"
<1>. DEFINE E == Evaluate(guards, call)
<1>1. Len(guards) \in Nat /\ DOMAIN guards = 1..Len(guards)
  BY LenProperties
<1>2. E \subseteq DOMAIN guards
  BY DEF Evaluate
<1>3. \A i \in E : Hits(guards[i].target, call)
  BY DEF Evaluate, Hits, IsPathGuard
<1>4. \A i \in DOMAIN guards : Hits(guards[i].target, call) => E # {}
  BY DEF Evaluate, Hits, IsPathGuard
<1>5. VerdictOn(guards, call) = IF E = {} THEN "ALLOW" ELSE "BLOCKED"
  BY DEF VerdictOn
<1>6. E \in SUBSET Int /\ IsFiniteSet(E)
  <2>1. 1..Len(guards) \in SUBSET Int /\ IsFiniteSet(1..Len(guards))
    BY <1>1, FS_Interval
  <2>. HIDE DEF E
  <2>. QED  BY <1>1, <1>2, <2>1, FS_Subset
<1>7. CASE E # {}
  <2>1. 1 \in 1..Cardinality(E)
    <3>. HIDE DEF E
    <3>. QED  BY <1>6, <1>7, FS_EmptySet, FS_CardinalityType
  <2>2. Nth(E, 1) \in E
    <3>. HIDE DEF E
    <3>. QED  BY <1>6, <2>1, NthIsMember
  <2>3. PrimaryGuard(guards, call) = guards[Nth(E, 1)].id
    BY <1>5, <1>7 DEF PrimaryGuard
  <2>. HIDE DEF E
  <2>. QED  BY <1>2, <1>3, <1>5, <1>7, <2>2, <2>3
<1>8. CASE E = {}
  <2>1. PrimaryGuard(guards, call) = guards[1].id
    BY <1>5, <1>8 DEF PrimaryGuard
  <2>2. guards # <<>> => 1 \in DOMAIN guards
    BY <1>1, EmptySeq
  <2>. HIDE DEF E
  <2>. QED  BY <1>4, <1>5, <1>8, <2>1, <2>2
<1>. QED  BY <1>7, <1>8

LEMMA SystemGuards ==
    SystemManifest.guards \in Seq(AllGuards) /\ SystemManifest.guards # <<>>
<1>. DEFINE E == Enforceable(Contents[SystemText].lines)
            guards == Guards(SystemPath, Contents[SystemText].lines)
<1>1. SystemManifest.guards = guards /\ SystemManifest.guards \in Seq(AllGuards)
  BY SystemAssumption, ManifestGuards, GuardsAreSequences DEF SystemManifest, GuardsOf
<1>2. Cardinality(E) \in Nat /\ DOMAIN guards = 1..Cardinality(E)
  BY SystemAssumption, GuardsOfText
<1>3. E # {} /\ IsFiniteSet(E)
  <2>1. E \subseteq 1..Len(Contents[SystemText].lines)
    BY SystemAssumption, ContentsAssumption DEF Enforceable, PrepareClauses
  <2>2. IsFiniteSet(1..Len(Contents[SystemText].lines))
    BY SystemAssumption, ContentsAssumption, FS_Interval
  <2>3. E # {}
    BY SystemAssumption
  <2>. HIDE DEF E
  <2>. QED  BY <2>1, <2>2, <2>3, FS_Subset
<1>4. 1 \in DOMAIN guards
  <2>. HIDE DEF E, guards
  <2>. QED  BY <1>2, <1>3, FS_EmptySet
<1>. HIDE DEF guards, E
<1>. QED  BY <1>1, <1>4

(* The guards of a job cover the files it read.                            *)
Covers(j) ==
    \A f \in RuleFiles :
        \/ j.read[f] = None \/ f \in j.skipped \/ ExtractionFails(j.read[f])
        \/ \A i \in DOMAIN GuardsOf(f, j.read[f]) : \E k \in DOMAIN j.guards :
              j.guards[k].id = GuardsOf(f, j.read[f])[i].id

(* The rules have let the request of this job go on.                       *)
IsPast(pc, res) == pc \in PastRules \/ (pc = "tracing" /\ res # "blocked")

RuledWell(j) ==
    /\ Covers(j)
    /\ j.pc = "guarding" => \A f \in RuleFiles : j.read[f] = None
    /\ j.pc = "logging" => j.guards # <<>>
    /\ IsPast(j.pc, j.res) => VerdictOn(j.guards, Requests[j.req].call) = "ALLOW"

(* The cache of a server, which outlives its requests, has the guards of   *)
(* the very text it is asked for.                                          *)
CachesAreSound ==
    \A s \in Servers : \A f \in RuleFiles, text \in DOMAIN Contents :
        <<f, text>> \in DOMAIN guardCache[s] =>
            ExtractionFails(text) \/ guardCache[s][<<f, text>>] = GuardsOf(f, text)

RulesInv == CachesAreSound /\ \A s \in Servers : RuledWell(job[s])

LEMMA NoJobIsRuledWell == RuledWell(NoJob)
BY DEF RuledWell, NoJob, Covers, IsPast, PastRules

LEMMA RulesStart == Init => RulesInv
BY NoJobIsRuledWell DEF Init, RulesInv, CachesAreSound, EmptyCache

LEMMA RulesAdvance ==
    ASSUME ServerInv, RulesInv, NEW s \in Servers, NEW j, RuledWell(j),
           job' = [job EXCEPT ![s] = j], UNCHANGED guardCache
    PROVE  RulesInv'
<1>1. \A t \in Servers : job'[t] = IF t = s THEN j ELSE job[t]
  BY DEF ServerInv, TypeOK
<1>2. \A t \in Servers : RuledWell(job'[t])
  BY <1>1 DEF RulesInv
<1>. QED  BY <1>2 DEF RulesInv, CachesAreSound

LEMMA RulesSettles ==
    ASSUME ServerInv, RulesInv, NEW s \in Servers, job' = [job EXCEPT ![s] = NoJob],
           UNCHANGED guardCache
    PROVE  RulesInv'
BY RulesAdvance, NoJobIsRuledWell

LEMMA RulesMoves ==
    ASSUME ServerInv, RulesInv, NEW s \in Servers, NEW pc, NEW res, NEW e, Moves(s, pc, res, e),
           UNCHANGED guardCache, pc \notin {"guarding", "logging"},
           IsPast(pc, res) => VerdictOn(job[s].guards, Req(s).call) = "ALLOW"
    PROVE  RulesInv'
<1>1. PICK j : /\ Advances(s, j) /\ j.pc = pc /\ j.res = res
               /\ j.guards = job[s].guards /\ j.read = job[s].read /\ j.skipped = job[s].skipped
  BY DEF Moves
<1>2. Covers(job[s])
  BY DEF RulesInv, RuledWell
<1>3. Covers(j)
  BY <1>1, <1>2 DEF Covers
<1>4. RuledWell(j)
  BY <1>1, <1>3 DEF RuledWell, Advances, Req
<1>. QED  BY <1>1, <1>4, RulesAdvance DEF Advances

(* A file that is read adds guards of its ids to those of the others.      *)
LEMMA TakenIsRuledWell ==
    ASSUME ServerInv, RulesInv, NEW s \in Servers, NEW text \in Texts, NEW guards \in Seq(AllGuards),
           job[s] \in Jobs, job[s].pc = "loading", job[s].left # <<>>,
           Took(s, text, guards)
    PROVE  RuledWell(TakenJob(job[s], text, guards))
<1>. DEFINE j == job[s]
            h == Head(j.left)
            k == TakenJob(j, text, guards)
<1>1. /\ h \in RuleFiles /\ k.pc \in {"loading", "enforcing"} /\ k.skipped = j.skipped
      /\ k.guards = Collect(j.guards, guards) /\ k.read = [j.read EXCEPT ![h] = text]
  BY TakenJobIsAJob
<1>2. j.guards \in Seq(AllGuards) /\ DOMAIN j.read = RuleFiles
  BY DEF Jobs
<1>3. text = None \/ ExtractionFails(text) \/ guards = GuardsOf(h, text)
  <2>1. text # None => text \in DOMAIN Contents
    BY DEF Texts
  <2>. QED  BY <1>1, <2>1 DEF Took, RulesInv, CachesAreSound, CacheKey
<1>4. /\ \A i \in DOMAIN j.guards : \E c \in DOMAIN k.guards : k.guards[c] = j.guards[i]
      /\ \A i \in DOMAIN guards : \E c \in DOMAIN k.guards : k.guards[c].id = guards[i].id
  BY <1>1, <1>2, CollectedGuards
<1>5. Covers(j)
  BY DEF RulesInv, RuledWell
<1>. HIDE DEF k, h
<1>6. ASSUME NEW f \in RuleFiles
      PROVE  \/ k.read[f] = None \/ f \in k.skipped \/ ExtractionFails(k.read[f])
             \/ \A i \in DOMAIN GuardsOf(f, k.read[f]) : \E c \in DOMAIN k.guards :
                   k.guards[c].id = GuardsOf(f, k.read[f])[i].id
  <2>1. CASE f = h
    BY <1>1, <1>2, <1>3, <1>4, <2>1
  <2>2. CASE f # h
    <3>1. k.read[f] = j.read[f]
      BY <1>1, <1>2, <2>2
    <3>2. CASE \A i \in DOMAIN GuardsOf(f, j.read[f]) : \E c \in DOMAIN j.guards :
                  j.guards[c].id = GuardsOf(f, j.read[f])[i].id
      <4>1. ASSUME NEW i \in DOMAIN GuardsOf(f, j.read[f])
            PROVE  \E c \in DOMAIN k.guards : k.guards[c].id = GuardsOf(f, j.read[f])[i].id
        <5>1. PICK b \in DOMAIN j.guards : j.guards[b].id = GuardsOf(f, j.read[f])[i].id
          BY <3>2
        <5>2. PICK c \in DOMAIN k.guards : k.guards[c] = j.guards[b]
          BY <1>4
        <5>. QED  BY <5>1, <5>2
      <4>. QED  BY <3>1, <4>1
    <3>3. CASE j.read[f] = None \/ f \in j.skipped \/ ExtractionFails(j.read[f])
      BY <1>1, <3>1, <3>3
    <3>. QED  BY <1>5, <3>2, <3>3 DEF Covers
  <2>. QED  BY <2>1, <2>2
<1>7. Covers(k)
  BY <1>6 DEF Covers
<1>8. RuledWell(k)
  BY <1>1, <1>7 DEF RuledWell, IsPast, PastRules
<1>. QED  BY <1>8 DEF k

LEMMA SkippedIsRuledWell ==
    ASSUME ServerInv, RulesInv, NEW s \in Servers, NEW text \in Texts,
           job[s] \in Jobs, job[s].pc = "loading", job[s].left # <<>>
    PROVE  RuledWell(SkippedJob(job[s], text))
<1>. DEFINE j == job[s]
            h == Head(j.left)
            k == SkippedJob(j, text)
<1>1. /\ h \in RuleFiles /\ k.pc \in {"loading", "enforcing"} /\ k.skipped = j.skipped \cup {h}
      /\ k.guards = j.guards /\ k.read = [j.read EXCEPT ![h] = text]
  BY TakenJobIsAJob, EmptySeq
<1>2. DOMAIN j.read = RuleFiles
  BY DEF Jobs
<1>3. Covers(j)
  BY DEF RulesInv, RuledWell
<1>. HIDE DEF k, h
<1>4. \A f \in RuleFiles : f # h => k.read[f] = j.read[f]
  BY <1>1, <1>2
<1>5. Covers(k)
  <2>1. ASSUME NEW f \in RuleFiles, f # h, f \notin j.skipped, k.read[f] # None,
               ~ExtractionFails(k.read[f])
        PROVE  \A i \in DOMAIN GuardsOf(f, k.read[f]) : \E c \in DOMAIN k.guards :
                  k.guards[c].id = GuardsOf(f, k.read[f])[i].id
    <3>1. k.read[f] = j.read[f]
      BY <1>4, <2>1
    <3>2. \A i \in DOMAIN GuardsOf(f, j.read[f]) : \E c \in DOMAIN j.guards :
              j.guards[c].id = GuardsOf(f, j.read[f])[i].id
      BY <1>3, <2>1, <3>1 DEF Covers
    <3>. QED  BY <1>1, <3>1, <3>2
  <2>. QED  BY <1>1, <2>1 DEF Covers
<1>6. RuledWell(k)
  BY <1>1, <1>5 DEF RuledWell, IsPast, PastRules
<1>. QED  BY <1>6 DEF k

LEMMA LoadRulesKeepsRules ==
    ASSUME ServerInv, RulesInv, NEW s \in Servers, LoadRules(s)
    PROVE  RulesInv'
<1>1. /\ job[s] \in Jobs /\ job[s].pc = "loading" /\ job[s].left # <<>>
      /\ Head(job[s].left) \in RuleFiles
  BY LoadRulesCases
<1>2. ASSUME NEW text \in Texts, NEW guards \in Seq(AllGuards), Took(s, text, guards)
      PROVE  \A t \in Servers : RuledWell(job'[t])
  <2>1. RuledWell(TakenJob(job[s], text, guards))
    BY <1>1, <1>2, TakenIsRuledWell
  <2>2. job' = [job EXCEPT ![s] = TakenJob(job[s], text, guards)]
    BY <1>2 DEF Took, Advances
  <2>. QED  BY <2>1, <2>2 DEF RulesInv, ServerInv, TypeOK
<1>3. ASSUME NEW text \in Texts, Advances(s, SkippedJob(job[s], text)), UNCHANGED guardCache
      PROVE  RulesInv'
  BY <1>1, <1>3, SkippedIsRuledWell, RulesAdvance DEF Advances
<1>4. ASSUME NEW text \in DOMAIN Contents, NEW guards \in Seq(AllGuards), Took(s, text, guards),
             ExtractionFails(text) \/ guards = GuardsOf(Head(job[s].left), text),
             guardCache' = [guardCache EXCEPT ![s] =
                              Remember(@, CacheKey(Head(job[s].left), text), guards)]
      PROVE  RulesInv'
  <2>. DEFINE h == Head(job[s].left)
              key == <<h, text>>
  <2>1. /\ DOMAIN guardCache = Servers
        /\ DOMAIN guardCache'[s] \subseteq DOMAIN guardCache[s] \cup {key}
        /\ \A x \in DOMAIN guardCache'[s] :
              guardCache'[s][x] = IF x = key THEN guards ELSE guardCache[s][x]
        /\ \A t \in Servers : t # s => guardCache'[t] = guardCache[t]
    BY <1>4 DEF Remember, CacheKey, ServerInv, TypeOK, AroundOK, CachesOK
  <2>2. ASSUME NEW f \in RuleFiles, NEW x \in DOMAIN Contents,
               <<f, x>> \in DOMAIN guardCache'[s], <<f, x>> = key
        PROVE  ExtractionFails(x) \/ guardCache'[s][<<f, x>>] = GuardsOf(f, x)
    BY <1>4, <2>1, <2>2
  <2>. HIDE DEF key
  <2>3. CachesAreSound'
    BY <2>1, <2>2 DEF RulesInv, CachesAreSound
  <2>. QED  BY <1>2, <1>4, <2>3 DEF RulesInv, Texts
<1>5. ASSUME NEW text \in Texts, NEW guards \in Seq(AllGuards), Took(s, text, guards),
             UNCHANGED guardCache
      PROVE  RulesInv'
  BY <1>2, <1>5 DEF RulesInv, CachesAreSound
<1>. QED  BY <1>3, <1>4, <1>5, LoadRulesCases


(* The built-in guard, for a call that has read no file.                   *)
LEMMA TraversalKeepsRules ==
    ASSUME ServerInv, RulesInv, NEW s \in Servers, job[s].pc = "guarding", UNCHANGED guardCache,
           job' = [job EXCEPT ![s].guards = SystemManifest.guards, ![s].pc = "logging"]
    PROVE  RulesInv'
<1>. DEFINE j == [job[s] EXCEPT !.guards = SystemManifest.guards, !.pc = "logging"]
<1>1. job[s] \in Jobs
  BY AtServes
<1>2. j.pc = "logging" /\ j.guards = SystemManifest.guards /\ j.read = job[s].read
  BY <1>1 DEF Jobs
<1>3. job' = [job EXCEPT ![s] = j]
  BY <1>1 DEF Jobs, ServerInv, TypeOK
<1>. HIDE DEF j
<1>4. \A f \in RuleFiles : j.read[f] = None
  BY <1>2 DEF RulesInv, RuledWell
<1>5. j.guards # <<>>
  BY <1>2, SystemGuards
<1>6. RuledWell(j)
  BY <1>2, <1>4, <1>5 DEF RuledWell, Covers, IsPast, PastRules
<1>. QED  BY <1>3, <1>6, RulesAdvance

(* A request begins with nothing read.                                     *)
LEMMA ReceiveKeepsRules ==
    ASSUME ServerInv, RulesInv, NEW s \in Servers, NEW name \in DOMAIN Requests, Receive(s, name)
    PROVE  RulesInv'
<1>. DEFINE r == Requests[name]
            pc == IF r.traversal THEN "guarding"
                  ELSE IF FilesOf[r.root] = <<>> THEN "enforcing" ELSE "loading"
            left == FilesOf[r.root]
            j == [NoJob EXCEPT !.pc = pc, !.n = calls + 1, !.req = name, !.left = left]
<1>1. UNCHANGED guardCache /\ job' = IF r.kind # "call" THEN job ELSE [job EXCEPT ![s] = j]
  BY DEF Receive
<1>2. pc \in {"guarding", "enforcing", "loading"}
  OBVIOUS
<1>3. NoJob.read = [f \in RuleFiles |-> None]
  BY DEF NoJob
<1>4. j.pc = pc /\ j.read = NoJob.read
  <2>. HIDE DEF pc, left
  <2>. QED  BY DEF NoJob
<1>. HIDE DEF j, pc, left, r
<1>5. RuledWell(j)
  BY <1>2, <1>3, <1>4 DEF RuledWell, Covers, IsPast, PastRules
<1>6. CASE job' = job
  BY <1>1, <1>6 DEF RulesInv, CachesAreSound
<1>. QED  BY <1>1, <1>5, <1>6, RulesAdvance

LEMMA RulesStep == ServerInv /\ RulesInv /\ [Next]_vars => RulesInv'
<1>. SUFFICES ASSUME ServerInv, RulesInv, [Next]_vars PROVE RulesInv'
  OBVIOUS
<1>a. \A s \in Servers : job[s] \in Jobs
  BY DEF ServerInv, TypeOK
<1>b. \A s \in Servers : IsPast(job[s].pc, job[s].res)
                         => VerdictOn(job[s].guards, Req(s).call) = "ALLOW"
  BY DEF RulesInv, RuledWell, Req
<1>c. ASSUME NEW s \in Servers, NEW pc, NEW res, NEW e, Moves(s, pc, res, e),
             IsPast(job[s].pc, job[s].res), pc \notin {"guarding", "logging"},
             UNCHANGED guardCache
      PROVE  RulesInv'
  BY <1>b, <1>c, RulesMoves
<1>d. ASSUME NEW s \in Servers, NEW kind, Settle(s, kind), UNCHANGED guardCache PROVE RulesInv'
  BY <1>d, RulesSettles DEF Settle
<1>e. ASSUME NEW s \in Servers, Escape(s), UNCHANGED guardCache PROVE RulesInv'
  BY <1>d, <1>e DEF Escape
<1>1. ASSUME NEW s \in Servers, NEW name \in DOMAIN Requests, Receive(s, name) PROVE RulesInv'
  BY <1>1, ReceiveKeepsRules
<1>2. ASSUME NEW s \in Servers, LoadRules(s) PROVE RulesInv'
  BY <1>2, LoadRulesKeepsRules
<1>3. ASSUME NEW s \in Servers, Enforce(s) PROVE RulesInv'
  <2>. DEFINE verdict == VerdictOn(job[s].guards, Req(s).call)
  <2>1. job[s].pc = "enforcing" /\ UNCHANGED <<guardCache, evals, calls>>
    BY <1>3 DEF Enforce, At, gateDb
  <2>2. job[s].guards \in Seq(AllGuards)
    BY <1>a DEF Jobs
  <2>3. verdict \in {"ALLOW", "BLOCKED"} /\ (job[s].guards = <<>> => verdict = "ALLOW")
    <3>1. verdict \in {"ALLOW", "BLOCKED"}
      BY <2>2, VerdictIsHits
    <3>2. verdict = "BLOCKED" => \E i \in DOMAIN job[s].guards : TRUE
      BY <2>2, VerdictIsHits
    <3>3. job[s].guards = <<>> => ~\E i \in DOMAIN job[s].guards : TRUE
      <4>1. \A i : i \notin DOMAIN <<>>
        OBVIOUS
      <4>. QED  BY <4>1, Zenon
    <3>. HIDE DEF verdict
    <3>. QED  BY <3>1, <3>2, <3>3
  <2>4. CASE verdict = "ALLOW" /\ AfterRules(s) /\ UNCHANGED outcome
    <3>1. \E pc \in {"registering", "auditing", "shadowing"} : \E res : Moves(s, pc, res, job[s].eval)
      BY <2>1, <2>4, AfterRulesMoves
    <3>. QED  BY <2>1, <2>4, <3>1, RulesMoves
  <2>5. CASE GotoWith(s, "tracing", "blocked") /\ UNCHANGED outcome
    <3>1. Moves(s, "tracing", "blocked", job[s].eval)
      BY <2>1, <2>5, GotoMoves DEF Stages, Results
    <3>. QED  BY <2>1, <3>1, RulesMoves DEF IsPast, PastRules
  <2>6. CASE Escape(s)
    BY <1>e, <2>1, <2>6
  <2>7. \/ verdict = "ALLOW" /\ AfterRules(s) /\ UNCHANGED outcome
        \/ GotoWith(s, "tracing", "blocked") /\ UNCHANGED outcome
        \/ Escape(s)
    <3>. HIDE DEF verdict
    <3>1. \/ job[s].guards = <<>> /\ AfterRules(s) /\ UNCHANGED outcome
          \/ /\ IF verdict = "BLOCKED" THEN GotoWith(s, "tracing", "blocked") ELSE AfterRules(s)
             /\ UNCHANGED outcome
          \/ Escape(s)
      BY <1>3 DEF Enforce, verdict
    <3>. QED  BY <2>3, <3>1
  <2>. QED  BY <2>4, <2>5, <2>6, <2>7
<1>4. ASSUME NEW s \in Servers, GuardTraversal(s) PROVE RulesInv'
  BY <1>e, <1>4, TraversalKeepsRules DEF GuardTraversal, At
<1>5. ASSUME NEW s \in Servers, LogTraversal(s) PROVE RulesInv'
  <2>1. Moves(s, "tracing", "blocked", job[s].eval) /\ UNCHANGED guardCache
    BY <1>5, GotoMoves DEF LogTraversal, At, gateDb, Stages, Results
  <2>. QED  BY <2>1, RulesMoves DEF IsPast, PastRules
<1>6. ASSUME NEW s \in Servers, Register(s) PROVE RulesInv'
  <2>1. /\ job[s].pc = "registering" /\ UNCHANGED <<calls, outcome, evals, guardCache>>
        /\ RepoIdOf(Req(s).patch) \in RepoIds
    BY <1>6 DEF Register, Registers, RegisterRepository, At, ServerInv, ServesOne, gateDb,
                RepoIds, Req
  <2>2. \E pc \in {"recording", "registering_default"} : Moves(s, pc, job[s].res, job[s].eval)
    BY <1>6, <2>1, GotoMoves DEF Register, Registers, Stages
  <2>. QED  BY <1>c, <2>1, <2>2 DEF IsPast, PastRules
<1>7. ASSUME NEW s \in Servers, RegisterDefault(s) PROVE RulesInv'
  <2>1. /\ job[s].pc = "registering_default" /\ UNCHANGED <<calls, outcome, evals, guardCache>>
        /\ DefaultName \in RepoIds
    BY <1>7 DEF RegisterDefault, Registers, RegisterRepository, At, gateDb, RepoIds
  <2>2. \/ Moves(s, "recording", job[s].res, job[s].eval)
        \/ Moves(s, "shadowing", "error", job[s].eval)
    BY <1>7, <2>1, GotoMoves DEF RegisterDefault, Registers, Stages, Results
  <2>. QED  BY <1>c, <2>1, <2>2 DEF IsPast, PastRules
<1>8. ASSUME NEW s \in Servers, Record(s) PROVE RulesInv'
  <2>. DEFINE id == EvaluationId(job[s].repo, CommitOf(Req(s).patch))
  <2>1. job[s].pc = "recording" /\ UNCHANGED <<calls, outcome, guardCache>>
    BY <1>8 DEF Record, At
  <2>2. PICK a \in Audits :
            \/ /\ RecordEvaluation(job[s].repo, CommitOf(Req(s).patch), a.audit)
               /\ job' = [job EXCEPT ![s].pc = "tracing", ![s].res = GateResult(a.audit, TRUE),
                                     ![s].eval = id]
            \/ /\ GotoWith(s, "tracing", GateResult(a.audit, FALSE))
               /\ UNCHANGED gateDb
    BY <1>8 DEF Record
  <2>3. \A stored : GateResult(a.audit, stored) \in Results
    BY DEF GateResult, Results
  <2>4. CASE GotoWith(s, "tracing", GateResult(a.audit, FALSE)) /\ UNCHANGED gateDb
    <3>1. \E res : Moves(s, "tracing", res, job[s].eval)
      BY <2>1, <2>3, <2>4, GotoMoves DEF gateDb, Stages
    <3>. QED  BY <1>c, <2>1, <3>1 DEF IsPast, PastRules
  <2>5. CASE /\ RecordEvaluation(job[s].repo, CommitOf(Req(s).patch), a.audit)
             /\ job' = [job EXCEPT ![s].pc = "tracing", ![s].res = GateResult(a.audit, TRUE),
                                   ![s].eval = id]
    <3>1. DOMAIN evals' = DOMAIN evals \cup {id}
      BY <2>5 DEF RecordEvaluation
    <3>. HIDE DEF id
    <3>2. \E res : Moves(s, "tracing", res, id)
      BY <2>1, <2>3, <2>5, <3>1, GotoMoves DEF Stages
    <3>. QED  BY <1>c, <2>1, <3>2 DEF IsPast, PastRules
  <2>. QED  BY <2>2, <2>4, <2>5
<1>9. ASSUME NEW s \in Servers, Write(s) \/ WriteFails(s) \/ Shadow(s) PROVE RulesInv'
  BY <1>d, <1>9 DEF Write, WriteFails, Shadow
<1>10. ASSUME NEW s \in Servers, AuditRead(s) PROVE RulesInv'
  <2>1. job[s].pc = "auditing" /\ UNCHANGED <<calls, outcome, evals, guardCache>>
    BY <1>10 DEF AuditRead, At, gateDb
  <2>2. \A verdict : ResultOfVerdict(verdict) \in Results
    BY DEF ResultOfVerdict, Results
  <2>3. \/ Goto(s, "failclosing")
        \/ \E verdict : \/ GotoWith(s, "caching", ResultOfVerdict(verdict))
                        \/ GotoWith(s, "tracing", ResultOfVerdict(verdict))
    BY <1>10 DEF AuditRead
  <2>4. \E pc \in {"failclosing", "caching", "tracing"} : \E res : Moves(s, pc, res, job[s].eval)
    BY <2>1, <2>2, <2>3, GotoMoves DEF Stages
  <2>. QED  BY <1>c, <2>1, <2>4 DEF IsPast, PastRules
<1>11. ASSUME NEW s \in Servers, ReadingFails(s) PROVE RulesInv'
  <2>1. Moves(s, "shadowing", "error", None) /\ UNCHANGED guardCache /\ job[s].pc = "auditing"
    BY <1>11, GotoMoves DEF ReadingFails, At, gateDb, Stages, Results
  <2>. QED  BY <1>c, <2>1 DEF IsPast, PastRules
<1>12. ASSUME NEW s \in Servers, FailClosed(s) PROVE RulesInv'
  <2>1. ResultOfVerdict("QUARANTINE_TOOL") \in Results
    BY DEF ResultOfVerdict, Results
  <2>2. \E res : Moves(s, "tracing", res, job[s].eval) /\ UNCHANGED guardCache
                 /\ job[s].pc = "failclosing"
    BY <1>12, <2>1, GotoMoves DEF FailClosed, At, gateDb, FailedVerdict, Stages
  <2>. QED  BY <1>c, <2>2 DEF IsPast, PastRules
<1>13. ASSUME NEW s \in Servers, StoreResult(s) PROVE RulesInv'
  <2>1. job[s].pc = "caching" /\ UNCHANGED <<calls, outcome, evals, guardCache>>
    BY <1>13 DEF StoreResult, At, gateDb
  <2>2. CASE Goto(s, "shadowing")
    <3>1. Moves(s, "shadowing", job[s].res, job[s].eval)
      BY <2>1, <2>2, GotoMoves DEF Stages
    <3>. QED  BY <1>c, <2>1, <3>1 DEF IsPast, PastRules
  <2>3. CASE job' = [job EXCEPT ![s].pc = "shadowing", ![s].res = "error", ![s].eval = None]
    <3>1. Moves(s, "shadowing", "error", None)
      BY <2>1, <2>3, GotoMoves DEF Stages, Results
    <3>. QED  BY <1>c, <2>1, <3>1 DEF IsPast, PastRules
  <2>. QED  BY <1>13, <2>2, <2>3 DEF StoreResult
<1>14. ASSUME NEW s \in Servers, Trace(s) PROVE RulesInv'
  <2>1. job[s].pc = "tracing" /\ UNCHANGED <<calls, evals, guardCache>>
    BY <1>14 DEF Trace, At, gateDb
  <2>2. CASE job[s].res # "blocked" /\ UNCHANGED outcome
             /\ (Goto(s, "caching") \/ Goto(s, "writing"))
    <3>1. \E pc \in {"caching", "writing"} : Moves(s, pc, job[s].res, job[s].eval)
      BY <2>1, <2>2, GotoMoves DEF Stages
    <3>. QED  BY <1>c, <2>1, <2>2, <3>1 DEF IsPast
  <2>3. CASE /\ job[s].res = "allowed" /\ UNCHANGED outcome
             /\ job' = [job EXCEPT ![s].pc = ToolStep(Req(s)), ![s].res = ToolResult(Req(s)),
                                   ![s].eval = IF Req(s).texts = <<>> THEN None ELSE @]
    <3>1. \E pc \in {"auditing", "shadowing"} : \E res, e : Moves(s, pc, res, e)
      BY <2>1, <2>3, ToolMoves
    <3>. QED  BY <1>c, <2>1, <2>3, <3>1 DEF IsPast
  <2>4. CASE job' = [job EXCEPT ![s] = NoJob]
    BY <2>1, <2>4, RulesSettles
  <2>. QED  BY <1>14, <2>2, <2>3, <2>4 DEF Trace
<1>15. ASSUME NEW s \in Servers, Crash(s) PROVE RulesInv'
  BY <1>d, <1>15 DEF Crash
<1>16. ASSUME NEW s \in Servers, Restart(s) PROVE RulesInv'
  <2>1. CachesAreSound'
    BY <1>16 DEF Restart, RulesInv, CachesAreSound, EmptyCache, ServerInv, TypeOK, AroundOK,
                 CachesOK
  <2>. QED  BY <1>16, <2>1 DEF Restart, RulesInv
<1>17. ASSUME UNCHANGED <<job, guardCache>> PROVE RulesInv'
  BY <1>17 DEF RulesInv, CachesAreSound
<1>18. ASSUME NEW f \in RuleFiles, NEW text \in DOMAIN Contents \cup {None}, Edit(f, text)
       PROVE  RulesInv'
  BY <1>17, <1>18 DEF Edit, local
<1>19. CASE UNCHANGED vars
  BY <1>17, <1>19 DEF vars, local
<1>. QED  BY <1>1, <1>2, <1>3, <1>4, <1>5, <1>6, <1>7, <1>8, <1>9, <1>10, <1>11, <1>12, <1>13,
             <1>14, <1>15, <1>16, <1>18, <1>19 DEF Next, Serve

(* What a server keeps of the rules is what the files it read compile to,  *)
(* and a call is let on only by their guards (mcp.py:268-325, 412-470).    *)
THEOREM RulesCorrect == Spec => []RulesInv
<1>1. Init => RulesInv
  BY RulesStart
<1>2. ServerInv /\ RulesInv /\ [Next]_vars => RulesInv'
  BY RulesStep
<1>. QED  BY <1>1, <1>2, TypeCorrect, PTL DEF Spec

LEMMA GuardsThatDeny ==
    ASSUME NEW f \in RuleFiles, NEW text \in DOMAIN Contents, NEW guards \in Seq(AllGuards),
           NEW call, VerdictOn(GuardsOf(f, text), call) = "BLOCKED",
           \A i \in DOMAIN GuardsOf(f, text) : \E k \in DOMAIN guards :
              guards[k].id = GuardsOf(f, text)[i].id
    PROVE  VerdictOn(guards, call) = "BLOCKED"
<1>1. PICK more \in Seq(AllGuards) : more = GuardsOf(f, text)
  BY GuardsAreSequences
<1>2. PICK i \in DOMAIN more : Hits(more[i].target, call)
  BY <1>1, VerdictIsHits
<1>3. PICK k \in DOMAIN guards : guards[k].id = more[i].id
  BY <1>1
<1>4. guards[k] \in AllGuards /\ more[i] \in AllGuards
  BY <1>2, <1>3, LenProperties
<1>5. guards[k].target = more[i].target
  BY <1>3, <1>4, IdDeterminesTarget
<1>6. Hits(guards[k].target, call)
  BY <1>2, <1>5
<1>. QED  BY <1>3, <1>6, VerdictIsHits

(* A call goes past a rules file that denies it only when that file could  *)
(* not be loaded: never by guards of another version of it, or of another  *)
(* file, that the server or the database kept (mcp.py:268-325).            *)
THEOREM DeniedOnlyPastSkipped == Spec => []DeniedOnlyPastSkippedFiles
<1>1. ASSUME ServerInv, RulesInv PROVE DeniedOnlyPastSkippedFiles
  <2>1. SUFFICES ASSUME NEW s \in Servers, job[s].pc \in PastRules, NEW f \in RuleFiles,
                        Denies(f, job[s].read[f], Req(s).call), f \notin job[s].skipped
                 PROVE  FALSE
    BY DEF DeniedOnlyPastSkippedFiles
  <2>2. job[s] \in Jobs
    BY <1>1 DEF ServerInv, TypeOK
  <2>3. job[s].read[f] \in DOMAIN Contents /\ ~ExtractionFails(job[s].read[f])
    BY <2>1, <2>2 DEF Denies, Jobs, Texts
  <2>4. \A i \in DOMAIN GuardsOf(f, job[s].read[f]) : \E k \in DOMAIN job[s].guards :
              job[s].guards[k].id = GuardsOf(f, job[s].read[f])[i].id
    BY <1>1, <2>1, <2>3, NoneAssumption DEF RulesInv, RuledWell, Covers
  <2>5. VerdictOn(job[s].guards, Req(s).call) = "BLOCKED"
    <3>1. job[s].guards \in Seq(AllGuards)
      BY <2>2 DEF Jobs
    <3>. QED  BY <2>1, <2>3, <2>4, <3>1, GuardsThatDeny DEF Denies
  <2>6. VerdictOn(job[s].guards, Req(s).call) = "ALLOW"
    BY <1>1, <2>1 DEF RulesInv, RuledWell, IsPast, Req
  <2>. QED  BY <2>5, <2>6
<1>. QED  BY <1>1, TypeCorrect, RulesCorrect, PTL
-----------------------------------------------------------------------------
(* Enforcements.                                                           *)

(* A log row holds the verdict of its call under the guard of its id.      *)
RowsAreSound ==
    \A l \in DOMAIN logRows :
        \E g \in AllGuards :
           /\ l[1] = g.id
           /\ logRows[l] = IF Hits(g.target, l[2]) THEN "BLOCKED" ELSE "ALLOW"

LogInv == EnforcementIsLogged /\ RowsAreSound

(* An enforcement that is logged again has the verdict of the first time.  *)
LEMMA LoggingKeeps ==
    ASSUME EnforcementIsLogged, RowsAreSound,
           NEW guards \in Seq(AllGuards), guards # <<>>, NEW call, NEW k,
           LogVerdict(guards, call, k), Note(guards, call, k)
    PROVE  (EnforcementIsLogged /\ RowsAreSound)'
<1>. DEFINE verdict == VerdictOn(guards, call)
<1>1. PICK g \in AllGuards : /\ PrimaryGuard(guards, call) = g.id
                             /\ verdict = IF Hits(g.target, call) THEN "BLOCKED" ELSE "ALLOW"
  <2>1. \A i \in DOMAIN guards : guards[i] \in AllGuards
    BY LenProperties
  <2>. QED  BY <2>1, VerdictIsHits
<1>2. PICK id : id = <<g.id, call, k>>
  OBVIOUS
<1>3. LogId(guards, call, k) = id /\ id[1] = g.id /\ id[2] = call
  BY <1>1, <1>2 DEF LogId
<1>. HIDE DEF verdict
<1>4. CASE ~IsLogged(guards, call)
  BY <1>4 DEF LogVerdict, Note, EnforcementIsLogged, RowsAreSound
<1>5. CASE IsLogged(guards, call)
  <2>1. logRows' = [l \in DOMAIN logRows \cup {id} |->
                       IF l \in DOMAIN logRows THEN logRows[l] ELSE verdict]
    BY <1>3, <1>5 DEF LogVerdict, verdict
  <2>2. enforced' = enforced \cup {<<id, verdict>>}
    BY <1>3, <1>5 DEF Note, verdict
  <2>3. id \in DOMAIN logRows => logRows[id] = verdict
    <3>1. SUFFICES ASSUME id \in DOMAIN logRows PROVE logRows[id] = verdict
      OBVIOUS
    <3>2. PICK h \in AllGuards :
             id[1] = h.id /\ logRows[id] = IF Hits(h.target, id[2]) THEN "BLOCKED" ELSE "ALLOW"
      BY <3>1 DEF RowsAreSound
    <3>3. h.target = g.target
      BY <1>3, <3>2, IdDeterminesTarget
    <3>. QED  BY <1>1, <1>3, <3>2, <3>3
  <2>4. DOMAIN logRows' = DOMAIN logRows \cup {id} /\ logRows'[id] = verdict
        /\ \A l \in DOMAIN logRows : logRows'[l] = logRows[l]
    BY <2>1, <2>3
  <2>5. EnforcementIsLogged'
    BY <2>2, <2>4 DEF EnforcementIsLogged
  <2>6. RowsAreSound'
    BY <1>1, <1>3, <2>4 DEF RowsAreSound
  <2>. QED  BY <2>5, <2>6
<1>. QED  BY <1>4, <1>5

LEMMA LogStep == ServerInv /\ RulesInv /\ LogInv /\ [Next]_vars => LogInv'
<1>. SUFFICES ASSUME ServerInv, RulesInv, LogInv, [Next]_vars PROVE LogInv'
  OBVIOUS
<1>a. \A s \in Servers : job[s] \in Jobs
  BY DEF ServerInv, TypeOK
<1>b. ASSUME UNCHANGED <<logRows, enforced>> PROVE LogInv'
  BY <1>b DEF LogInv, EnforcementIsLogged, RowsAreSound
<1>1. ASSUME NEW s \in Servers, NEW k, job[s].guards # <<>>,
             LogVerdict(job[s].guards, Req(s).call, k), Note(job[s].guards, Req(s).call, k)
      PROVE  LogInv'
  <2>1. job[s].guards \in Seq(AllGuards)
    BY <1>a DEF Jobs
  <2>. QED  BY <1>1, <2>1, LoggingKeeps DEF LogInv
<1>2. ASSUME NEW s \in Servers, Enforce(s) PROVE LogInv'
  BY <1>b, <1>1, <1>2 DEF Enforce
<1>3. ASSUME NEW s \in Servers, LogTraversal(s) PROVE LogInv'
  BY <1>b, <1>1, <1>3 DEF LogTraversal, At, RulesInv, RuledWell
<1>4. ASSUME NEW s \in Servers, LoadRules(s) PROVE LogInv'
  BY <1>b, <1>4, LoadRulesCases
<1>5. ASSUME NEW s \in Servers, GuardTraversal(s) PROVE LogInv'
  BY <1>b, <1>5 DEF GuardTraversal, PersistManifest, rulesDb
<1>6. ASSUME NEW s \in Servers,
             \/ \E name \in DOMAIN Requests : Receive(s, name)
             \/ Register(s) \/ RegisterDefault(s) \/ Record(s) \/ Write(s) \/ WriteFails(s)
             \/ ReadingFails(s) \/ AuditRead(s) \/ FailClosed(s) \/ StoreResult(s)
             \/ Trace(s) \/ Shadow(s) \/ Crash(s) \/ Restart(s)
      PROVE  LogInv'
  BY <1>b, <1>6 DEF Receive, Register, RegisterDefault, Record, Write, WriteFails, ReadingFails,
              AuditRead, FailClosed, StoreResult, Trace, Shadow, Crash, Restart, rulesDb
<1>7. ASSUME NEW f \in RuleFiles, NEW text \in DOMAIN Contents \cup {None}, Edit(f, text)
      PROVE  LogInv'
  BY <1>b, <1>7 DEF Edit, EditRules, rulesDb
<1>8. CASE UNCHANGED vars
  BY <1>b, <1>8 DEF vars, rulesDb
<1>. QED  BY <1>2, <1>3, <1>4, <1>5, <1>6, <1>7, <1>8 DEF Next, Serve

(* Every enforcement whose guard has a row is in the log with its verdict, *)
(* although ids repeat (rules/store.py:138-165).                           *)
THEOREM EnforcementsAreLogged == Spec => []EnforcementIsLogged
<1>1. Init => LogInv
  BY DEF Init, RulesInit, LogInv, EnforcementIsLogged, RowsAreSound
<1>2. ServerInv /\ RulesInv /\ LogInv /\ [Next]_vars => LogInv'
  BY LogStep
<1>3. LogInv => EnforcementIsLogged
  BY DEF LogInv
<1>. QED  BY <1>1, <1>2, <1>3, TypeCorrect, RulesCorrect, PTL DEF Spec

=============================================================================
