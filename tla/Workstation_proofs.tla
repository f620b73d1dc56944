------------------------- MODULE Workstation_proofs -------------------------
(***************************************************************************)
(* Proofs about the machine: what is marked as synced has been ingested,   *)
(* commands keep what belongs to others, and what a merge replaces is in a *)
(* backup.                                                                 *)
(***************************************************************************)
EXTENDS Workstation, Induction

-----------------------------------------------------------------------------
(* What holds of the telemetry alone, or of the installer alone, holds of  *)
(* the machine.                                                            *)

(* Every behaviour of the machine is one of the telemetry: the commands    *)
(* that write configuration files leave its ledger, its centre and its     *)
(* handlers alone.                                                         *)
LEMMA ImplementsTelemetry == Spec => TelemetrySpec
<1>1. Init => TelemetryInit
  BY DEF Init
<1>2. [Next]_vars => [TelemetryNext]_telemetryVars
  BY DEF Next, Install, Account, Edit, vars, TelemetryNext
<1>. QED  BY <1>1, <1>2, PTL DEF Spec, TelemetrySpec

(* Every behaviour of the machine is one of the installer: requests and    *)
(* heartbeats leave the files, the backups and config.json alone.          *)
LEMMA ImplementsInstaller == Spec => InstallerSpec
<1>1. Init => InstallerInit
  BY DEF Init
<1>2. [Next]_vars => [InstallerNext]_installerVars
  BY DEF Next, Install, Account, Edit, vars, InstallerNext
<1>. QED  BY <1>1, <1>2, PTL DEF Spec, InstallerSpec

-----------------------------------------------------------------------------
(* Telemetry                                                               *)

Amounts == {TokensSaved(req) : req \in Requests} \cup {0}

Uuids == Procs \cup {None}

Stages == {"new", "uuid", "mint", "record", "forward", "fetch", "post", "mark", "done"}

Rows == [by : Procs, uuid : Uuids, saved : Amounts, synced : BOOLEAN]

Progress(n) == [pc : Stages, req : Requests \cup {None}, saved : Amounts, uuid : Uuids,
                push : BOOLEAN, batch : SUBSET (1..n)]

TelemetryTypeOK ==
    /\ uuidFile \in Uuids
    /\ ledger \in Seq(Rows)
    /\ centre \subseteq (1..Len(ledger)) \X Procs
    /\ task \in [Procs -> Progress(Len(ledger))]

(* What a heartbeat is about to mark has been ingested, by itself.         *)
AnsweredIsIngested ==
    \A p \in Procs : task[p].pc = "mark" => \A id \in task[p].batch : <<id, p>> \in centre

TelemetryInv == TelemetryTypeOK /\ AnsweredIsIngested /\ SyncedIsIngested

LEMMA TelemetryStart == TelemetryInit => TelemetryInv
<1>. SUFFICES ASSUME TelemetryInit PROVE TelemetryInv
  OBVIOUS
<1>. USE DEF TelemetryInit, NoTask
<1>1. TelemetryTypeOK
  BY DEF TelemetryTypeOK, Amounts, Uuids, Stages, Rows, Progress
<1>2. AnsweredIsIngested
  BY DEF AnsweredIsIngested
<1>3. SyncedIsIngested
  BY DEF SyncedIsIngested
<1>. QED  BY <1>1, <1>2, <1>3 DEF TelemetryInv

(* A step that leaves the ledger and the centre alone, and puts a handler  *)
(* at a stage that is not the mark.                                        *)
LEMMA StageKeeps ==
    ASSUME TelemetryInv, NEW p \in Procs, NEW t \in Progress(Len(ledger)),
           task' = [task EXCEPT ![p] = t], t.pc # "mark",
           uuidFile' \in Uuids, UNCHANGED <<ledger, centre>>
    PROVE  TelemetryInv'
<1>. USE DEF TelemetryInv
<1>1. TelemetryTypeOK'
  BY DEF TelemetryTypeOK
<1>2. AnsweredIsIngested'
  BY DEF AnsweredIsIngested, TelemetryTypeOK
<1>3. SyncedIsIngested'
  BY DEF SyncedIsIngested
<1>. QED  BY <1>1, <1>2, <1>3

LEMMA TelemetryStep == TelemetryInv /\ [TelemetryNext]_telemetryVars => TelemetryInv'
<1>. SUFFICES ASSUME TelemetryInv, [TelemetryNext]_telemetryVars PROVE TelemetryInv'
  OBVIOUS
<1>a. TelemetryTypeOK /\ AnsweredIsIngested /\ SyncedIsIngested
  BY DEF TelemetryInv
<1>b. Len(ledger) \in Nat /\ DOMAIN ledger = 1..Len(ledger)
  BY <1>a DEF TelemetryTypeOK
<1>c. ASSUME NEW p \in Procs PROVE task[p] \in Progress(Len(ledger))
  BY <1>a DEF TelemetryTypeOK
<1>d. ASSUME NEW p \in Procs, NEW pc \in Stages, pc # "mark", Go(p, pc),
             UNCHANGED <<uuidFile, ledger, centre>>
      PROVE  TelemetryInv'
  <2>. DEFINE t == [task[p] EXCEPT !.pc = pc]
  <2>1. t \in Progress(Len(ledger)) /\ t.pc = pc
    BY <1>c DEF Progress
  <2>2. task' = [task EXCEPT ![p] = t]
    BY <1>d DEF Go
  <2>3. uuidFile' \in Uuids
    BY <1>a, <1>d DEF TelemetryTypeOK
  <2>. HIDE DEF t
  <2>. QED  BY <1>d, <2>1, <2>2, <2>3, StageKeeps
<1>1. ASSUME NEW p \in Procs, NEW req \in Requests, Accept(p, req) PROVE TelemetryInv'
  <2>. DEFINE t == [task[p] EXCEPT !.pc = IF ~req.bypass THEN "uuid"
                                          ELSE IF req.by = "proxy" THEN "forward" ELSE "done",
                                   !.req = req, !.saved = TokensSaved(req)]
  <2>1. t \in Progress(Len(ledger)) /\ t.pc # "mark"
    BY <1>c DEF Progress, Stages, Amounts
  <2>2. task' = [task EXCEPT ![p] = t]
    BY <1>1 DEF Accept
  <2>3. uuidFile' \in Uuids /\ UNCHANGED <<ledger, centre>>
    BY <1>a, <1>1 DEF Accept, TelemetryTypeOK
  <2>. HIDE DEF t
  <2>. QED  BY <2>1, <2>2, <2>3, StageKeeps
<1>2. ASSUME NEW p \in Procs, NEW req \in Requests, Reject(p, req) PROVE TelemetryInv'
  BY <1>2, <1>d DEF Reject, Stages
<1>3. ASSUME NEW p \in Procs, ReadUuid(p) PROVE TelemetryInv'
  <2>. DEFINE t == [task[p] EXCEPT !.uuid = IF uuidFile # None THEN uuidFile ELSE p,
                                   !.pc = IF uuidFile # None THEN "record" ELSE "mint"]
  <2>0. uuidFile \in Uuids
    BY <1>a DEF TelemetryTypeOK
  <2>1. t \in Progress(Len(ledger)) /\ t.pc # "mark"
    BY <1>c, <2>0 DEF Progress, Stages, Uuids
  <2>2. task' = [task EXCEPT ![p] = t]
    BY <1>3, <1>a DEF ReadUuid, TelemetryTypeOK, Progress
  <2>3. uuidFile' \in Uuids /\ UNCHANGED <<ledger, centre>>
    BY <2>0, <1>3 DEF ReadUuid
  <2>. HIDE DEF t
  <2>. QED  BY <2>1, <2>2, <2>3, StageKeeps
<1>4. ASSUME NEW p \in Procs, MintUuid(p) PROVE TelemetryInv'
  <2>. DEFINE t == [task[p] EXCEPT !.pc = "record"]
  <2>1. t \in Progress(Len(ledger)) /\ t.pc # "mark"
    BY <1>c DEF Progress, Stages
  <2>2. task' = [task EXCEPT ![p] = t]
    BY <1>4 DEF MintUuid, Go
  <2>3. uuidFile' \in Uuids /\ UNCHANGED <<ledger, centre>>
    BY <1>a, <1>c, <1>4 DEF MintUuid, TelemetryTypeOK, Progress
  <2>. HIDE DEF t
  <2>. QED  BY <2>1, <2>2, <2>3, StageKeeps
<1>5. ASSUME NEW p \in Procs, Record(p) PROVE TelemetryInv'
  <2>. DEFINE t == [task[p] EXCEPT !.push = Endpoint, !.pc = AfterTelemetry(p, Endpoint)]
  <2>0. RecordOf(p) \in Rows
    BY <1>c DEF RecordOf, Rows, Progress
  <2>1. /\ Len(ledger') = Len(ledger) + 1
        /\ ledger' \in Seq(Rows)
        /\ \A id \in 1..Len(ledger) : ledger'[id] = ledger[id]
        /\ ledger'[Len(ledger) + 1] = RecordOf(p)
    BY <1>5, <1>a, <2>0 DEF Record, TelemetryTypeOK
  <2>2. t \in Progress(Len(ledger)) /\ t.pc # "mark"
    BY <1>c, EndpointAssumption DEF Progress, Stages, AfterTelemetry
  <2>3. task' = [task EXCEPT ![p] = t]
    BY <1>5, <1>a DEF Record, TelemetryTypeOK, Progress
  <2>4. UNCHANGED <<uuidFile, centre>>
    BY <1>5 DEF Record
  <2>5. Progress(Len(ledger)) \subseteq Progress(Len(ledger'))
    BY <1>b, <2>1 DEF Progress
  <2>. HIDE DEF t
  <2>6. TelemetryTypeOK'
    <3>1. task' \in [Procs -> Progress(Len(ledger'))]
      BY <1>a, <2>2, <2>3, <2>5 DEF TelemetryTypeOK
    <3>2. centre' \subseteq (1..Len(ledger')) \X Procs
      BY <1>a, <1>b, <2>1, <2>4 DEF TelemetryTypeOK
    <3>. QED  BY <1>a, <2>1, <2>4, <3>1, <3>2 DEF TelemetryTypeOK
  <2>7. AnsweredIsIngested'
    BY <1>a, <2>2, <2>3, <2>4 DEF AnsweredIsIngested, TelemetryTypeOK
  <2>8. SyncedIsIngested'
    <3>. SUFFICES ASSUME NEW id \in DOMAIN ledger', ledger'[id].synced
                  PROVE  \E q \in Procs : <<id, q>> \in centre'
      BY DEF SyncedIsIngested
    <3>1. id \in 1..Len(ledger)
      <4>1. RecordOf(p).synced = FALSE
        BY DEF RecordOf
      <4>2. id \in 1..(Len(ledger) + 1)
        BY <2>1
      <4>. QED  BY <1>b, <2>1, <4>1, <4>2
    <3>. QED  BY <1>a, <1>b, <2>1, <2>4, <3>1 DEF SyncedIsIngested
  <2>. QED  BY <2>6, <2>7, <2>8 DEF TelemetryInv
<1>6. ASSUME NEW p \in Procs, RecordRefused(p) PROVE TelemetryInv'
  BY <1>6, <1>d DEF RecordRefused, AfterTelemetry, Stages
<1>7. ASSUME NEW p \in Procs, Forward(p) PROVE TelemetryInv'
  BY <1>7, <1>d DEF Forward, Stages
<1>8. ASSUME NEW p \in Procs, Fetch(p) PROVE TelemetryInv'
  <2>. DEFINE t == [task[p] EXCEPT !.batch = OldestUnsynced,
                                   !.pc = IF Unsynced = {} THEN "done" ELSE "post"]
  <2>1. OldestUnsynced \subseteq 1..Len(ledger)
    BY <1>b DEF OldestUnsynced, Unsynced
  <2>2. t \in Progress(Len(ledger)) /\ t.pc # "mark"
    BY <1>c, <2>1 DEF Progress, Stages
  <2>3. task' = [task EXCEPT ![p] = t]
    BY <1>8, <1>a DEF Fetch, TelemetryTypeOK, Progress
  <2>4. uuidFile' \in Uuids /\ UNCHANGED <<ledger, centre>>
    BY <1>a, <1>8 DEF Fetch, TelemetryTypeOK
  <2>. HIDE DEF t
  <2>. QED  BY <2>2, <2>3, <2>4, StageKeeps
<1>9. ASSUME NEW p \in Procs, Post(p) PROVE TelemetryInv'
  <2>1. PICK pc \in {"mark", "done"} : Go(p, pc)
    BY <1>9 DEF Post
  <2>2. centre' = centre \cup (task[p].batch \X {p}) /\ UNCHANGED <<uuidFile, ledger>>
    BY <1>9 DEF Post, Ingest
  <2>3. task[p].batch \subseteq 1..Len(ledger)
    BY <1>c DEF Progress
  <2>4. TelemetryTypeOK'
    <3>1. task' \in [Procs -> Progress(Len(ledger))]
      BY <1>a, <2>1 DEF Go, TelemetryTypeOK, Progress, Stages
    <3>. QED  BY <1>a, <2>2, <2>3, <3>1 DEF TelemetryTypeOK
  <2>5. AnsweredIsIngested'
    BY <1>a, <2>1, <2>2 DEF AnsweredIsIngested, Go, TelemetryTypeOK, Progress
  <2>6. SyncedIsIngested'
    BY <1>a, <2>2 DEF SyncedIsIngested
  <2>. QED  BY <2>4, <2>5, <2>6 DEF TelemetryInv
<1>10. ASSUME NEW p \in Procs, PostLost(p) PROVE TelemetryInv'
  BY <1>10, <1>d DEF PostLost, Stages
<1>11. ASSUME NEW p \in Procs, Mark(p) PROVE TelemetryInv'
  <2>1. \A id \in task[p].batch : <<id, p>> \in centre
    BY <1>a, <1>11 DEF Mark, At, AnsweredIsIngested
  <2>2. /\ ledger' = [id \in DOMAIN ledger |->
                        IF id \in task[p].batch THEN [ledger[id] EXCEPT !.synced = TRUE] ELSE ledger[id]]
        /\ Go(p, "done")
        /\ UNCHANGED <<uuidFile, centre>>
    BY <1>11 DEF Mark, MarkAsSynced
  <2>3. ledger' \in Seq(Rows) /\ Len(ledger') = Len(ledger) /\ DOMAIN ledger' = DOMAIN ledger
    <3>1. \A id \in DOMAIN ledger : ledger[id] \in Rows
      BY <1>a DEF TelemetryTypeOK
    <3>2. \A id \in DOMAIN ledger : ledger'[id] \in Rows
      BY <2>2, <3>1 DEF Rows
    <3>3. ledger' \in [1..Len(ledger) -> Rows]
      BY <1>b, <2>2, <3>2
    <3>. QED  BY <1>b, <3>3
  <2>4. TelemetryTypeOK'
    <3>1. task' \in [Procs -> Progress(Len(ledger))]
      BY <1>a, <2>2 DEF Go, TelemetryTypeOK, Progress, Stages
    <3>. QED  BY <1>a, <2>2, <2>3, <3>1 DEF TelemetryTypeOK
  <2>5. AnsweredIsIngested'
    BY <1>a, <2>2 DEF AnsweredIsIngested, Go, TelemetryTypeOK, Progress
  <2>6. SyncedIsIngested'
    BY <1>a, <2>1, <2>2, <2>3 DEF SyncedIsIngested
  <2>. QED  BY <2>4, <2>5, <2>6 DEF TelemetryInv
<1>12. ASSUME NEW p \in Procs, Killed(p) PROVE TelemetryInv'
  BY <1>12, <1>d DEF Killed, Stages
<1>13. CASE UNCHANGED telemetryVars
  BY <1>13, <1>a DEF telemetryVars, TelemetryInv, TelemetryTypeOK, AnsweredIsIngested,
     SyncedIsIngested
<1>. QED
  BY <1>1, <1>2, <1>3, <1>4, <1>5, <1>6, <1>7, <1>8, <1>9, <1>10, <1>11, <1>12, <1>13
  DEF TelemetryNext, Serve, Report

(* Whatever heartbeats overlap, whatever messages and answers are lost and *)
(* whenever a process is killed, a record is marked as synced only when    *)
(* the centre has ingested it, for any batch limit.                        *)
THEOREM MarkedOnlyIfIngested == Spec => []SyncedIsIngested
<1>1. TelemetrySpec => []TelemetryInv
  BY TelemetryStart, TelemetryStep, PTL DEF TelemetrySpec
<1>2. TelemetryInv => SyncedIsIngested
  BY DEF TelemetryInv
<1>. QED  BY <1>1, <1>2, ImplementsTelemetry, PTL

-----------------------------------------------------------------------------
(* Installer                                                               *)

JobFields == {"pc", "plan", "cmd", "data", "read", "name", "copied"}

\* The stages of a merge after its read.
Prepared == {"name", "copy", "rotate", "commit", "append"}

Hows == {"tools", "plain", "rule", "write", "create", "set"}

Directories == {"cline", "cursor", "desktop", "windsurf", "codeium", ".git"}

Visits == [how : Hows, path : Paths, needs : SUBSET Directories]

\* A job at a visit has it at the head of its plan; one that fills a missing
\* file has read nothing there.
IsJob(j) ==
    /\ DOMAIN j = JobFields
    /\ j.plan \in Seq(Visits)
    /\ j.pc \in {"new", "next", "done"} \/ j.plan # <<>>
    /\ j.pc = "fill" => j.read = 0

JobShape ==
    /\ DOMAIN job = Procs
    /\ \A p \in Procs : IsJob(job[p])

(* Everything was written, and read, before now.                           *)
ClockAhead ==
    /\ now \in Nat /\ now > 0
    /\ DOMAIN file = Paths
    /\ \A path \in Paths : file[path] # None => file[path].born \in Nat \ {0} /\ file[path].born < now
    /\ config.born \in Nat /\ config.born < now
    /\ \A p \in Procs : job[p].read \in Nat /\ job[p].read < now

SettingsShape ==
    /\ DOMAIN config = {"settings", "born"}
    /\ config.settings \in {None, Corrupt} \/ DOMAIN config.settings = DOMAIN Defaults
    /\ \A p \in Procs : job[p].pc = "save" => DOMAIN job[p].data = DOMAIN Defaults

(* A file nobody wrote since it was read is what was read.                  *)
ReadIsCurrent ==
    \A p \in Procs :
        (job[p].pc \in Prepared /\ Doc(p) # None /\ Doc(p).born = job[p].read)
            => job[p].data = Doc(p) /\ Doc(p).kind \notin {"broken", "binary"}

LoadIsCurrent ==
    \A p \in Procs :
        (job[p].pc = "save" /\ config.born = job[p].read)
            => job[p].data = WithValue(Loaded, job[p].cmd.field, job[p].cmd.value)

InstallerInv == JobShape /\ ClockAhead /\ SettingsShape /\ ReadIsCurrent /\ LoadIsCurrent

LEMMA HereIsAFile ==
    ASSUME JobShape, NEW p \in Procs, job[p].pc \notin {"new", "next", "done"}
    PROVE  Here(p).path \in Paths
<1>1. job[p].plan \in Seq(Visits) /\ job[p].plan # <<>>
  BY DEF JobShape, IsJob
<1>2. Here(p) \in Visits
  BY <1>1 DEF Here
<1>. QED  BY <1>2 DEF Visits

LEMMA EmptyPlan == <<>> \in Seq(Visits)
  OBVIOUS

LEMMA PlanShape == \A cmd \in Commands : PlanOf(cmd) \in Seq(Visits)
<1>0. ASSUME NEW how \in Hows, NEW path \in Paths, NEW needs \in SUBSET Directories
      PROVE  Visit(how, path, needs) \in Visits
  BY DEF Visit, Visits
<1>. USE <1>0 DEF Hows, Paths, Directories
<1>1. ClaudeSurfaces \in Seq(Visits) /\ McpSurfaces \in Seq(Visits)
  BY DEF ClaudeSurfaces, McpSurfaces
<1>2. IdePaths \in Seq(Visits)
  BY DEF IdePaths
<1>3. AgentFiles \in Seq(Visits) /\ Perimeter \in Seq(Visits)
  BY DEF AgentFiles, Perimeter
<1>4. <<Visit("set", "config.json", {})>> \in Seq(Visits)
  OBVIOUS
<1>5. AgentFiles \o Perimeter \in Seq(Visits)
  BY <1>3
<1>. QED  BY <1>1, <1>2, <1>3, <1>4, <1>5, CommandsAssumption DEF PlanOf

LEMMA SubPlanShape ==
    \A plan \in Seq(Visits) : \A i \in 1..Len(plan) :
        /\ SubSeq(plan, i, Len(plan)) \in Seq(Visits)
        /\ SubSeq(plan, i, Len(plan)) # <<>>
        /\ plan[i].how \in Hows
<1>. SUFFICES ASSUME NEW plan \in Seq(Visits), NEW i \in 1..Len(plan)
              PROVE  /\ SubSeq(plan, i, Len(plan)) \in Seq(Visits)
                     /\ SubSeq(plan, i, Len(plan)) # <<>>
                     /\ plan[i].how \in Hows
  OBVIOUS
<1>1. SubSeq(plan, i, Len(plan)) \in Seq(Visits)
  OBVIOUS
<1>2. SubSeq(plan, i, Len(plan)) # <<>>
  <2>1. SubSeq(plan, i, Len(plan)) = [k \in 1..(Len(plan) - i + 1) |-> plan[i + k - 1]]
    OBVIOUS
  <2>2. 1 \in 1..(Len(plan) - i + 1)
    OBVIOUS
  <2>3. DOMAIN SubSeq(plan, i, Len(plan)) # {}
    BY <2>1, <2>2
  <2>. QED  BY <2>3
<1>3. plan[i] \in Visits
  OBVIOUS
<1>. QED  BY <1>1, <1>2, <1>3 DEF Visits

LEMMA TailShape == \A plan \in Seq(Visits) : plan # <<>> => Tail(plan) \in Seq(Visits)
  OBVIOUS

LEMMA InstallerStart == InstallerInit => InstallerInv
<1>. SUFFICES ASSUME InstallerInit PROVE InstallerInv
  OBVIOUS
<1>1. PICK home \in Homes :
        /\ file = [path \in Paths |-> IF path \in DOMAIN home.file THEN home.file[path] ELSE None]
        /\ config = [settings |-> home.settings, born |-> 1]
        /\ now = home.now
  BY DEF InstallerInit
<1>2. job = [p \in Procs |-> NoJob]
  BY DEF InstallerInit
<1>3. JobShape
  <2>1. IsJob(NoJob)
    BY EmptyPlan DEF IsJob, NoJob, JobFields
  <2>. QED  BY <1>2, <2>1 DEF JobShape
<1>4. ClockAhead
  BY <1>1, <1>2, HomesAssumption DEF ClockAhead, NoJob
<1>5. SettingsShape
  BY <1>1, <1>2, HomesAssumption DEF SettingsShape, NoJob
<1>6. ReadIsCurrent /\ LoadIsCurrent
  BY <1>2 DEF ReadIsCurrent, LoadIsCurrent, NoJob, Prepared
<1>. QED  BY <1>3, <1>4, <1>5, <1>6 DEF InstallerInv

(* A step that only moves a job, to a stage where nothing is pending.      *)
LEMMA MoveKeeps ==
    ASSUME InstallerInv, NEW p \in Procs, NEW j, job' = [job EXCEPT ![p] = j],
           IsJob(j), j.pc \notin Prepared \cup {"save"},
           j.read \in Nat, j.read < now, UNCHANGED <<file, config, now>>
    PROVE  InstallerInv'
<1>. USE DEF InstallerInv
<1>0. \A q \in Procs : q # p => job'[q] = job[q]
  BY DEF JobShape
<1>1. job'[p] = j
  BY DEF JobShape
<1>2. JobShape'
  BY <1>1 DEF JobShape
<1>3. ClockAhead'
  BY <1>0, <1>1 DEF ClockAhead
<1>4. SettingsShape'
  BY <1>0, <1>1 DEF SettingsShape
<1>5. ReadIsCurrent'
  BY <1>0, <1>1 DEF ReadIsCurrent, Here, Doc
<1>6. LoadIsCurrent'
  BY <1>0, <1>1 DEF LoadIsCurrent, Loaded
<1>. QED  BY <1>2, <1>3, <1>4, <1>5, <1>6

(* A step that moves a job on through its merge.                           *)
LEMMA MergeKeeps ==
    ASSUME InstallerInv, NEW p \in Procs, NEW j, job' = [job EXCEPT ![p] = j],
           IsJob(j), job[p].pc \in Prepared, j.pc \in Prepared,
           j.plan = job[p].plan, j.data = job[p].data, j.read = job[p].read,
           UNCHANGED <<file, config, now>>
    PROVE  InstallerInv'
<1>. USE DEF InstallerInv
<1>0. \A q \in Procs : q # p => job'[q] = job[q]
  BY DEF JobShape
<1>1. job'[p] = j
  BY DEF JobShape
<1>2. JobShape'
  BY <1>1 DEF JobShape
<1>3. ClockAhead'
  BY <1>0, <1>1 DEF ClockAhead
<1>4. SettingsShape'
  BY <1>0, <1>1 DEF SettingsShape, Prepared
<1>5. ReadIsCurrent'
  BY <1>0, <1>1 DEF ReadIsCurrent, Here, Doc
<1>6. LoadIsCurrent'
  BY <1>0, <1>1 DEF LoadIsCurrent, Loaded, Prepared
<1>. QED  BY <1>2, <1>3, <1>4, <1>5, <1>6

(* A file is written, and a job is where nothing is pending.               *)
LEMMA WriteKeeps ==
    ASSUME InstallerInv, NEW path, NEW doc, Write(path, doc),
           doc # None => doc.born = now,
           JobShape',
           \A q \in Procs : \/ job'[q] = job[q]
                            \/ /\ job'[q].pc \notin Prepared \cup {"save"}
                               /\ job'[q].read \in Nat /\ job'[q].read < now,
           UNCHANGED config
    PROVE  InstallerInv'
<1>. USE DEF InstallerInv
<1>1. /\ now' = now + 1
      /\ DOMAIN file' = Paths
      /\ \A other \in Paths : \/ file'[other] = file[other]
                              \/ file'[other] = doc
  BY DEF Write, ClockAhead
<1>2. ClockAhead'
  BY <1>1 DEF ClockAhead
<1>3. SettingsShape'
  BY DEF SettingsShape
<1>4. ReadIsCurrent'
  <2>. SUFFICES ASSUME NEW q \in Procs, job'[q].pc \in Prepared,
                       Doc(q)' # None, Doc(q)'.born = job'[q].read
                PROVE  job'[q].data = Doc(q)' /\ Doc(q)'.kind \notin {"broken", "binary"}
    BY DEF ReadIsCurrent
  <2>1. job'[q] = job[q]
    OBVIOUS
  <2>2. job[q].read < now /\ job[q].read \in Nat /\ now \in Nat
    BY DEF ClockAhead
  <2>3. Here(q)' = Here(q)
    BY <2>1 DEF Here
  <2>4. Here(q).path \in Paths
    BY <2>1, HereIsAFile DEF Prepared
  <2>5. Doc(q)' = Doc(q)
    BY <1>1, <2>1, <2>2, <2>3, <2>4 DEF Doc
  <2>. QED  BY <2>1, <2>3, <2>5 DEF ReadIsCurrent
<1>5. LoadIsCurrent'
  BY DEF LoadIsCurrent, Loaded
<1>. QED  BY <1>2, <1>3, <1>4, <1>5

LEMMA StoppedShape ==
    LET j == [NoJob EXCEPT !.pc = "done"] IN IsJob(j) /\ j.pc = "done" /\ j.read = 0
<1>. DEFINE j == [NoJob EXCEPT !.pc = "done"]
<1>1. DOMAIN j = JobFields /\ j.pc = "done" /\ j.read = 0 /\ j.plan = <<>>
  BY DEF NoJob, JobFields
<1>. HIDE DEF j
<1>2. IsJob(j)
  BY <1>1, EmptyPlan DEF IsJob
<1>. QED  BY <1>1, <1>2 DEF j

(* What an editor leaves was born with its save, whatever time it has.     *)
LEMMA EditedIsBorn ==
    ASSUME now \in Nat, NEW edit \in Editors,
           NEW doc, doc = IF edit.doc = None THEN None
                          ELSE [edit.doc EXCEPT !.born = now,
                                                !.time = IF edit.restored THEN @ ELSE now]
    PROVE  doc # None => doc.born = now /\ doc.time \in Nat
  BY EditorsAssumption

LEMMA InstallerStep == InstallerInv /\ [InstallerNext]_installerVars => InstallerInv'
<1>. SUFFICES ASSUME InstallerInv, [InstallerNext]_installerVars PROVE InstallerInv'
  OBVIOUS
<1>a. JobShape /\ ClockAhead /\ SettingsShape /\ ReadIsCurrent /\ LoadIsCurrent
  BY DEF InstallerInv
<1>b. ASSUME NEW p \in Procs PROVE IsJob(job[p]) /\ job[p].read \in Nat /\ job[p].read < now
  BY <1>a DEF JobShape, ClockAhead
<1>here. ASSUME NEW p \in Procs, job[p].pc \notin {"new", "next", "done"}
         PROVE  Here(p).path \in Paths
  BY <1>a, <1>here, HereIsAFile
<1>stop. ASSUME NEW p \in Procs, Stop(p), UNCHANGED <<file, config, now>> PROVE InstallerInv'
  <2>. DEFINE j == [NoJob EXCEPT !.pc = "done"]
  <2>1. IsJob(j) /\ j.pc = "done" /\ j.read = 0
    BY StoppedShape
  <2>2. job' = [job EXCEPT ![p] = j]
    BY <1>stop DEF Stop
  <2>3. j.read \in Nat /\ j.read < now
    BY <1>a, <2>1 DEF ClockAhead
  <2>4. j.pc \notin Prepared \cup {"save"}
    BY <2>1 DEF Prepared
  <2>. HIDE DEF j
  <2>. QED  BY <1>stop, <2>1, <2>2, <2>3, <2>4, MoveKeeps
<1>onward. ASSUME NEW p \in Procs, Onward(p), job[p].pc \notin {"new", "next", "done"}
           PROVE  /\ job' = [job EXCEPT ![p] = job'[p]]
                  /\ IsJob(job'[p]) /\ job'[p].pc = "next" /\ job'[p].read = job[p].read
  <2>1. /\ job'[p] = [job[p] EXCEPT !.pc = "next", !.plan = Tail(@)]
        /\ job' = [job EXCEPT ![p] = job'[p]]
    BY <1>onward, <1>a DEF Onward, JobShape, IsJob, JobFields
  <2>2. Tail(job[p].plan) \in Seq(Visits)
    BY <1>onward, <1>b, TailShape DEF IsJob
  <2>. QED  BY <1>b, <2>1, <2>2 DEF IsJob, JobFields
<1>next. ASSUME NEW p \in Procs, Onward(p), job[p].pc \notin {"new", "next", "done"},
                UNCHANGED <<file, config, now>>
         PROVE  InstallerInv'
  BY <1>b, <1>next, <1>onward, MoveKeeps DEF Prepared
<1>1. ASSUME NEW p \in Procs, NEW cmd \in Commands, Begin(p, cmd) PROVE InstallerInv'
  <2>. DEFINE j == [job[p] EXCEPT !.pc = "next", !.cmd = cmd, !.plan = PlanOf(cmd)]
  <2>1. DOMAIN j = JobFields /\ j.pc = "next" /\ j.read = job[p].read /\ j.plan = PlanOf(cmd)
    BY <1>b DEF IsJob, JobFields
  <2>2. job' = [job EXCEPT ![p] = j]
    BY <1>1, <1>a DEF Begin, JobShape, IsJob, JobFields
  <2>3. IsJob(j)
    BY <2>1, PlanShape DEF IsJob
  <2>. HIDE DEF j
  <2>. QED  BY <1>b, <1>1, <2>1, <2>2, <2>3, MoveKeeps DEF Begin, Prepared
<1>2. ASSUME NEW p \in Procs, Turn(p) PROVE InstallerInv'
  <2>0. UNCHANGED <<file, config, now>> /\ job[p].plan \in Seq(Visits)
    BY <1>2, <1>b DEF Turn, IsJob
  <2>1. CASE Stop(p)
    BY <2>0, <2>1, <1>stop
  <2>2. ASSUME NEW i \in 1..Len(job[p].plan),
               job' = [job EXCEPT ![p].pc = job[p].plan[i].how,
                                  ![p].plan = SubSeq(job[p].plan, i, Len(job[p].plan))]
        PROVE  InstallerInv'
    <3>. DEFINE plan == SubSeq(job[p].plan, i, Len(job[p].plan))
                how == job[p].plan[i].how
                j == [job[p] EXCEPT !.pc = how, !.plan = plan]
    <3>1. plan \in Seq(Visits) /\ plan # <<>> /\ how \in Hows
      BY <2>0, SubPlanShape
    <3>2. job' = [job EXCEPT ![p].pc = how, ![p].plan = plan]
      BY <2>2
    <3>. HIDE DEF plan, how
    <3>3. DOMAIN j = JobFields /\ j.pc = how /\ j.read = job[p].read /\ j.plan = plan
      BY <1>b DEF IsJob, JobFields
    <3>4. job' = [job EXCEPT ![p] = j]
      BY <3>2, <1>a DEF JobShape, IsJob, JobFields
    <3>. HIDE DEF j
    <3>6. IsJob(j)
      BY <3>1, <3>3 DEF IsJob, Hows
    <3>5. j.pc \notin Prepared \cup {"save"}
      BY <3>1, <3>3 DEF Hows, Prepared
    <3>. QED  BY <1>b, <2>0, <3>3, <3>4, <3>5, <3>6, MoveKeeps
  <2>. QED  BY <1>2, <2>0, <2>1, <2>2 DEF Turn
<1>3. ASSUME NEW p \in Procs, Read(p) PROVE InstallerInv'
  <2>1. /\ job[p].pc \in {"tools", "plain", "rule"}
        /\ Doc(p) # None => Doc(p).kind \notin {"broken", "binary"}
        /\ UNCHANGED <<file, config, now>>
        /\ \A q \in Procs : q # p => job'[q] = job[q]
        /\ job'[p] = [job[p] EXCEPT !.data = Doc(p), !.read = BornOf(Doc(p)),
                                    !.pc = IF Here(p).how = "rule" THEN "append" ELSE "name"]
        /\ DOMAIN job' = Procs
    BY <1>3, <1>a DEF Read, Merging, JobShape, IsJob, JobFields
  <2>2. /\ DOMAIN job'[p] = JobFields /\ job'[p].plan = job[p].plan
        /\ job'[p].data = Doc(p) /\ job'[p].read = BornOf(Doc(p))
        /\ job'[p].pc \in {"append", "name"}
    BY <1>b, <2>1 DEF IsJob, JobFields
  <2>3. IsJob(job'[p])
    BY <1>b, <2>1, <2>2 DEF IsJob
  <2>4. job'[p].read \in Nat /\ job'[p].read < now
    BY <1>a, <1>here, <2>1, <2>2 DEF ClockAhead, BornOf, Doc
  <2>5. JobShape'
    BY <1>a, <2>1, <2>3 DEF JobShape
  <2>6. ClockAhead'
    BY <1>a, <2>1, <2>4 DEF ClockAhead
  <2>7. SettingsShape'
    BY <1>a, <2>1, <2>2 DEF SettingsShape
  <2>8. ReadIsCurrent'
    <3>1. \A q \in Procs : Here(q)' = Here(q) /\ Doc(q)' = Doc(q)
      BY <2>1, <2>2 DEF Here, Doc
    <3>. QED  BY <1>a, <2>1, <2>2, <3>1 DEF ReadIsCurrent
  <2>9. LoadIsCurrent'
    BY <1>a, <2>1, <2>2 DEF LoadIsCurrent, Loaded
  <2>. QED  BY <2>5, <2>6, <2>7, <2>8, <2>9 DEF InstallerInv
<1>4. ASSUME NEW p \in Procs, LeaveAlone(p) PROVE InstallerInv'
  BY <1>4, <1>next DEF LeaveAlone, Merging
<1>5. ASSUME NEW p \in Procs, ReadRaises(p) PROVE InstallerInv'
  BY <1>5, <1>stop DEF ReadRaises
<1>within. ASSUME NEW p \in Procs, NEW j, job' = [job EXCEPT ![p] = j],
                  job[p].pc \in Prepared, j.pc \in Prepared, DOMAIN j = JobFields,
                  j.plan = job[p].plan, j.data = job[p].data, j.read = job[p].read,
                  UNCHANGED <<file, config, now>>
           PROVE  InstallerInv'
  <2>1. IsJob(j)
    BY <1>b, <1>within DEF IsJob, Prepared
  <2>. QED  BY <1>within, <2>1, MergeKeeps
<1>6. ASSUME NEW p \in Procs, Name(p) PROVE InstallerInv'
  <2>0. job[p].pc = "name" /\ UNCHANGED <<file, config, now>>
    BY <1>6 DEF Name, Doing
  <2>1. CASE Doc(p) = None
    <3>. DEFINE j == [job[p] EXCEPT !.pc = "commit", !.copied = 0]
    <3>1. /\ DOMAIN j = JobFields /\ j.pc = "commit"
          /\ j.plan = job[p].plan /\ j.data = job[p].data /\ j.read = job[p].read
      BY <1>b DEF IsJob, JobFields
    <3>2. job' = [job EXCEPT ![p] = j]
      BY <1>6, <2>1, <1>a, <1>b DEF Name, JobShape, IsJob, JobFields
    <3>. HIDE DEF j
    <3>. QED  BY <2>0, <3>1, <3>2, <1>within DEF Prepared
  <2>2. CASE Doc(p) # None
    <3>. DEFINE j == [job[p] EXCEPT !.pc = "copy", !.name = BackupName(Here(p).path)]
    <3>1. /\ DOMAIN j = JobFields /\ j.pc = "copy"
          /\ j.plan = job[p].plan /\ j.data = job[p].data /\ j.read = job[p].read
      BY <1>b DEF IsJob, JobFields
    <3>2. job' = [job EXCEPT ![p] = j]
      BY <1>6, <2>2, <1>a, <1>b DEF Name, JobShape, IsJob, JobFields
    <3>. HIDE DEF j
    <3>. QED  BY <2>0, <3>1, <3>2, <1>within DEF Prepared
  <2>. QED  BY <2>1, <2>2
<1>7. ASSUME NEW p \in Procs, Copy(p) PROVE InstallerInv'
  <2>. DEFINE j == [job[p] EXCEPT !.pc = "rotate", !.copied = Doc(p).born]
  <2>1. /\ DOMAIN j = JobFields /\ j.pc = "rotate"
        /\ j.plan = job[p].plan /\ j.data = job[p].data /\ j.read = job[p].read
    BY <1>b DEF IsJob, JobFields
  <2>2. job' = [job EXCEPT ![p] = j]
    BY <1>7, <1>a, <1>b DEF Copy, JobShape, IsJob, JobFields
  <2>. HIDE DEF j
  <2>. QED  BY <1>7, <2>1, <2>2, <1>within DEF Copy, Doing, Prepared
<1>8. ASSUME NEW p \in Procs, Rotate(p) PROVE InstallerInv'
  <2>. DEFINE j == [job[p] EXCEPT !.pc = "commit"]
  <2>1. /\ DOMAIN j = JobFields /\ j.pc = "commit"
        /\ j.plan = job[p].plan /\ j.data = job[p].data /\ j.read = job[p].read
    BY <1>b DEF IsJob, JobFields
  <2>2. job' = [job EXCEPT ![p] = j]
    BY <1>8, <1>a, <1>b DEF Rotate, Step, JobShape, IsJob, JobFields
  <2>. HIDE DEF j
  <2>. QED  BY <1>8, <2>1, <2>2, <1>within DEF Rotate, Doing, Prepared
<1>write. ASSUME NEW p \in Procs, NEW path, NEW doc, Write(path, doc), Onward(p) \/ Stop(p),
                 doc # None => doc.born = now,
                 job[p].pc \notin {"new", "next", "done"}, UNCHANGED config
          PROVE  InstallerInv'
  <2>1. /\ \A q \in Procs : q # p => job'[q] = job[q]
        /\ DOMAIN job' = Procs
    BY <1>write, <1>a DEF Onward, Stop, JobShape
  <2>2. /\ IsJob(job'[p]) /\ job'[p].pc \in {"next", "done"}
        /\ job'[p].read \in Nat /\ job'[p].read < now
    <3>1. CASE Onward(p)
      BY <3>1, <1>write, <1>onward, <1>b
    <3>2. CASE Stop(p)
      <4>1. job'[p] = [NoJob EXCEPT !.pc = "done"]
        BY <3>2, <1>a DEF Stop, JobShape
      <4>. QED  BY <4>1, <1>a, StoppedShape DEF ClockAhead
    <3>. QED  BY <1>write, <3>1, <3>2
  <2>3. JobShape'
    BY <1>a, <2>1, <2>2 DEF JobShape
  <2>. QED  BY <1>write, <2>1, <2>2, <2>3, WriteKeeps DEF Prepared
<1>9. ASSUME NEW p \in Procs, Commit(p) PROVE InstallerInv'
  <2>1. Merged(job[p].data, Here(p).how, job[p].cmd).born = now
    BY DEF Merged
  <2>. QED  BY <1>9, <2>1, <1>write DEF Commit, Doing
<1>10. ASSUME NEW p \in Procs, AppendRule(p) PROVE InstallerInv'
  <2>1. Merged(job[p].data, "rule", job[p].cmd).born = now
    BY DEF Merged
  <2>. QED  BY <1>10, <2>1, <1>write DEF AppendRule, Doing
<1>11. ASSUME NEW p \in Procs, MergeFails(p) PROVE InstallerInv'
  BY <1>11, <1>next DEF MergeFails, Doing
<1>12. ASSUME NEW p \in Procs, WriteTemplate(p) PROVE InstallerInv'
  <2>1. Template.born = now
    BY DEF Template
  <2>. QED  BY <1>12, <2>1, <1>write DEF WriteTemplate
<1>create. ASSUME NEW p \in Procs, Create(p) PROVE InstallerInv'
  <2>0. job[p].pc = "create" /\ UNCHANGED <<file, config, now>>
    BY <1>create DEF Create, Doing
  <2>1. CASE Doc(p) = None
    <3>. DEFINE j == [job[p] EXCEPT !.pc = "fill", !.read = 0]
    <3>1. DOMAIN j = JobFields /\ j.pc = "fill" /\ j.read = 0 /\ j.plan = job[p].plan
      BY <1>b DEF IsJob, JobFields
    <3>2. job' = [job EXCEPT ![p] = j]
      BY <1>create, <2>1, <1>a, <1>b DEF Create, JobShape, IsJob, JobFields
    <3>. HIDE DEF j
    <3>3. IsJob(j)
      BY <1>b, <2>0, <3>1 DEF IsJob
    <3>4. j.read \in Nat /\ j.read < now
      BY <1>a, <3>1 DEF ClockAhead
    <3>5. j.pc \notin Prepared \cup {"save"}
      BY <3>1 DEF Prepared
    <3>. QED  BY <2>0, <3>2, <3>3, <3>4, <3>5, MoveKeeps
  <2>2. CASE Doc(p) # None
    BY <1>create, <2>0, <2>2, <1>next DEF Create
  <2>. QED  BY <2>1, <2>2
<1>13. ASSUME NEW p \in Procs, WriteTorn(p) PROVE InstallerInv'
  <2>1. Truncated.born = now
    BY DEF Truncated, Template
  <2>. QED  BY <1>13, <2>1, <1>write DEF WriteTorn
<1>14. ASSUME NEW p \in Procs, Load(p) PROVE InstallerInv'
  <2>0. job[p].pc = "set" /\ UNCHANGED <<file, config, now>>
    BY <1>14 DEF Load, Doing
  <2>1. CASE Stop(p)
    BY <2>0, <2>1, <1>stop
  <2>2. CASE ~Stop(p)
    <3>. DEFINE set == WithValue(Loaded, job[p].cmd.field, job[p].cmd.value)
    <3>1. /\ \A q \in Procs : q # p => job'[q] = job[q]
          /\ job'[p] = [job[p] EXCEPT !.pc = "save", !.read = config.born, !.data = set]
          /\ DOMAIN job' = Procs
      BY <1>14, <2>2, <1>a DEF Load, JobShape, IsJob, JobFields
    <3>2. /\ DOMAIN job'[p] = JobFields /\ job'[p].plan = job[p].plan /\ job'[p].cmd = job[p].cmd
          /\ job'[p].pc = "save" /\ job'[p].read = config.born /\ job'[p].data = set
      BY <1>b, <3>1 DEF IsJob, JobFields
    <3>3. DOMAIN set = DOMAIN Defaults
      BY <1>a DEF WithValue, Loaded, SettingsShape
    <3>4. set = WithValue(Loaded, job'[p].cmd.field, job'[p].cmd.value)
      BY <3>2
    <3>. HIDE DEF set
    <3>0. IsJob(job'[p])
      BY <1>b, <2>0, <3>2 DEF IsJob
    <3>5. JobShape'
      BY <1>a, <3>0, <3>1 DEF JobShape
    <3>6. ClockAhead'
      BY <1>a, <2>0, <3>1, <3>2 DEF ClockAhead
    <3>7. SettingsShape'
      BY <1>a, <2>0, <3>1, <3>2, <3>3 DEF SettingsShape
    <3>8. ReadIsCurrent'
      <4>1. \A q \in Procs : q # p => Here(q)' = Here(q) /\ Doc(q)' = Doc(q)
        BY <2>0, <3>1 DEF Here, Doc
      <4>2. job'[p].pc \notin Prepared
        BY <3>2 DEF Prepared
      <4>. QED  BY <1>a, <3>1, <4>1, <4>2 DEF ReadIsCurrent
    <3>9. LoadIsCurrent'
      <4>1. Loaded' = Loaded /\ config' = config
        BY <2>0 DEF Loaded
      <4>. QED  BY <1>a, <3>1, <3>2, <3>4, <4>1 DEF LoadIsCurrent
    <3>. QED  BY <3>5, <3>6, <3>7, <3>8, <3>9 DEF InstallerInv
  <2>. QED  BY <2>1, <2>2
<1>15. ASSUME NEW p \in Procs, Save(p) PROVE InstallerInv'
  <2>1. /\ job[p].pc = "save" /\ UNCHANGED file /\ now' = now + 1
        /\ config' = [settings |-> job[p].data, born |-> now]
        /\ Onward(p)
    BY <1>15 DEF Save, Doing
  <2>2. /\ \A q \in Procs : q # p => job'[q] = job[q]
        /\ DOMAIN job' = Procs
    BY <2>1, <1>a DEF Onward, JobShape
  <2>3. IsJob(job'[p]) /\ job'[p].pc = "next" /\ job'[p].read = job[p].read
    BY <2>1, <1>onward
  <2>4. JobShape'
    BY <1>a, <2>2, <2>3 DEF JobShape
  <2>5. ClockAhead'
    BY <1>a, <2>1, <2>2, <2>3 DEF ClockAhead
  <2>6. SettingsShape'
    BY <1>a, <2>1, <2>2, <2>3 DEF SettingsShape
  <2>7. ReadIsCurrent'
    BY <1>a, <2>1, <2>2, <2>3 DEF ReadIsCurrent, Here, Doc, Prepared
  <2>8. LoadIsCurrent'
    BY <1>a, <2>1, <2>2, <2>3 DEF LoadIsCurrent, ClockAhead
  <2>. QED  BY <2>4, <2>5, <2>6, <2>7, <2>8 DEF InstallerInv
<1>16. ASSUME NEW p \in Procs, Quit(p) PROVE InstallerInv'
  BY <1>16, <1>stop DEF Quit
<1>17. ASSUME EditorSaves PROVE InstallerInv'
  <2>1. UNCHANGED job
    BY <1>17 DEF EditorSaves
  <2>2. ASSUME NEW edit \in Editors, NEW doc, Write(edit.path, doc), UNCHANGED config,
               doc # None => doc.born = now
        PROVE  InstallerInv'
    <3>1. JobShape'
      BY <1>a, <2>1 DEF JobShape
    <3>. QED  BY <2>1, <2>2, <3>1, WriteKeeps
  <2>3. CASE config' = [settings |-> Corrupt, born |-> now] /\ now' = now + 1 /\ UNCHANGED file
    <3>1. JobShape' /\ ReadIsCurrent'
      BY <1>a, <2>1, <2>3 DEF JobShape, ReadIsCurrent, Here, Doc
    <3>2. ClockAhead' /\ SettingsShape'
      BY <1>a, <2>1, <2>3 DEF ClockAhead, SettingsShape
    <3>3. LoadIsCurrent'
      BY <1>a, <2>1, <2>3 DEF LoadIsCurrent, ClockAhead
    <3>. QED  BY <3>1, <3>2, <3>3 DEF InstallerInv
  <2>4. now \in Nat
    BY <1>a DEF ClockAhead
  <2>. QED  BY <1>17, <2>2, <2>3, <2>4, EditedIsBorn DEF EditorSaves
<1>18. CASE UNCHANGED installerVars
  BY <1>18, <1>a DEF installerVars, InstallerInv, JobShape, ClockAhead, SettingsShape,
     ReadIsCurrent, LoadIsCurrent, Here, Doc, Loaded
<1>. QED
  BY <1>1, <1>2, <1>3, <1>4, <1>5, <1>6, <1>7, <1>8, <1>9, <1>10, <1>11, <1>12, <1>13,
     <1>14, <1>15, <1>16, <1>17, <1>18, <1>create DEF InstallerNext, Run, Work

(* A command leaves the progress of the others alone.                      *)
LEMMA OwnProgress ==
    ASSUME JobShape, NEW p \in Procs, NEW q \in Procs, q # p, Run(q) \/ Work(q)
    PROVE  job'[p] = job[p]
<1>. USE DEF JobShape
<1>1. CASE Run(q)
  BY <1>1 DEF Run, Begin
<1>2. CASE Turn(q) \/ Read(q) \/ LeaveAlone(q) \/ ReadRaises(q) \/ Name(q)
  BY <1>2 DEF Turn, Read, LeaveAlone, ReadRaises, Name, Onward, Stop
<1>3. CASE Copy(q) \/ Rotate(q) \/ Commit(q) \/ MergeFails(q) \/ AppendRule(q)
  BY <1>3 DEF Copy, Rotate, Commit, MergeFails, AppendRule, Onward, Step
<1>4. CASE Create(q) \/ WriteTemplate(q) \/ WriteTorn(q) \/ Load(q) \/ Save(q) \/ Quit(q)
  BY <1>4 DEF Create, WriteTemplate, WriteTorn, Load, Save, Quit, Onward, Stop
<1>. QED  BY <1>1, <1>2, <1>3, <1>4 DEF Work

(* A step that changes the progress of a command is one of that command.   *)
LEMMA OwnStep ==
    ASSUME JobShape, NEW p \in Procs, [InstallerNext]_installerVars, job'[p] # job[p]
    PROVE  Run(p) \/ Work(p)
<1>1. ~EditorSaves /\ ~UNCHANGED installerVars
  BY DEF EditorSaves, installerVars
<1>2. ASSUME NEW q \in Procs, q # p PROVE ~(Run(q) \/ Work(q))
  BY <1>2, OwnProgress
<1>. QED  BY <1>1, <1>2 DEF InstallerNext

(* These steps of a command write a file, and this one config.json.        *)
LEMMA WritingSteps ==
    ASSUME NEW p \in Procs, Run(p) \/ Work(p)
    PROVE  /\ file' # file => Commit(p) \/ AppendRule(p) \/ WriteTemplate(p) \/ WriteTorn(p)
           /\ config' # config => Save(p)
<1>1. CASE Run(p)
  BY <1>1 DEF Run, Begin
<1>2. CASE Turn(p) \/ Read(p) \/ LeaveAlone(p) \/ ReadRaises(p) \/ Name(p) \/ Copy(p) \/ Rotate(p)
  BY <1>2 DEF Turn, Read, LeaveAlone, ReadRaises, Name, Copy, Rotate
<1>3. CASE Commit(p) \/ AppendRule(p) \/ WriteTemplate(p) \/ WriteTorn(p)
  BY <1>3 DEF Commit, AppendRule, WriteTemplate, WriteTorn
<1>4. CASE MergeFails(p) \/ Create(p) \/ Load(p) \/ Save(p) \/ Quit(p)
  BY <1>4 DEF MergeFails, Create, Load, Save, Quit
<1>. QED  BY <1>1, <1>2, <1>3, <1>4 DEF Work

LEMMA StepKeepsContents ==
    ASSUME InstallerInv, [InstallerNext]_installerVars, NEW p \in Procs
    PROVE  KeepsContents(p)
<1>. DEFINE here == Here(p).path
            new == file'[here]
            Excused == \/ Doc(p) = None \/ Doing(p, "write")
                       \/ Doing(p, "append") /\ job'[p].pc = "done"
                       \/ Doc(p).born # job[p].read
            Kept == /\ Doc(p).kind \notin {"broken", "binary"}
                    /\ new.other = Doc(p).other
                    /\ Doc(p).odd \ new.odd \subseteq Managed(Here(p).how)
<1>. SUFFICES ASSUME job'[p] # job[p], file' # file
              PROVE  /\ \A path \in Paths \ {here} : file'[path] = file[path]
                     /\ Excused \/ Kept
  BY Zenon DEF KeepsContents
<1>1. Commit(p) \/ AppendRule(p) \/ WriteTemplate(p) \/ WriteTorn(p)
  BY OwnStep, WritingSteps DEF InstallerInv
<1>2. job[p].pc \in {"commit", "append", "write", "fill"}
  BY <1>1 DEF Commit, AppendRule, WriteTemplate, WriteTorn, Doing
<1>3. here \in Paths /\ DOMAIN file = Paths /\ Doc(p) = file[here]
  BY <1>2, HereIsAFile DEF InstallerInv, ClockAhead, Doc
<1>4. ASSUME NEW doc, Write(here, doc)
      PROVE  new = doc /\ \A path \in Paths \ {here} : file'[path] = file[path]
  BY <1>3, <1>4 DEF Write
<1>5. PICK doc : Write(here, doc)
  BY <1>1 DEF Commit, AppendRule, WriteTemplate, WriteTorn
<1>6. \A path \in Paths \ {here} : file'[path] = file[path]
  BY <1>4, <1>5
<1>. SUFFICES Excused \/ Kept
  BY <1>6
<1>7. ASSUME NEW how, Write(here, Merged(job[p].data, how, job[p].cmd)), ~Excused,
             job[p].pc \in {"commit", "append"}, Managed(how) \subseteq Managed(Here(p).how)
      PROVE  Kept
  <2>1. job[p].data = Doc(p) /\ Doc(p).kind \notin {"broken", "binary"} /\ Doc(p) # None
    BY <1>7 DEF InstallerInv, ReadIsCurrent, Prepared
  <2>2. new = Merged(Doc(p), how, job[p].cmd)
    BY <1>4, <1>7, <2>1
  <2>3. new.other = Doc(p).other /\ new.odd = Doc(p).odd \ Managed(how)
    BY <2>1, <2>2 DEF Merged, Other, OddLeft
  <2>. HIDE DEF new
  <2>. QED  BY <1>7, <2>1, <2>3
<1>8. CASE Commit(p)
  BY <1>7, <1>8 DEF Commit, Doing
<1>9. CASE AppendRule(p)
  <2>1. Managed("rule") = {}
    BY DEF Managed
  <2>. QED  BY <1>7, <1>9, <2>1 DEF AppendRule, Doing
<1>10. ASSUME job[p].pc = "fill" PROVE Excused
  <2>1. job[p].read = 0
    BY <1>10 DEF InstallerInv, JobShape, IsJob
  <2>2. Doc(p) # None => Doc(p).born # 0
    BY <1>3 DEF InstallerInv, ClockAhead
  <2>. QED  BY <2>1, <2>2
<1>11. CASE WriteTemplate(p)
  BY <1>10, <1>11 DEF WriteTemplate, Doing
<1>12. CASE WriteTorn(p)
  <2>1. job'[p].pc = "done"
    BY <1>12 DEF WriteTorn, Stop, NoJob, InstallerInv, JobShape
  <2>. QED  BY <1>10, <1>12, <2>1 DEF WriteTorn, Doing
<1>. QED  BY <1>1, <1>8, <1>9, <1>11, <1>12

LEMMA StepKeepsSettings ==
    ASSUME InstallerInv, [InstallerNext]_installerVars, NEW p \in Procs
    PROVE  KeepsSettings(p)
<1>. SUFFICES ASSUME job'[p] # job[p], config' # config, config.born = job[p].read,
                     config.settings \notin {None, Corrupt}, NEW f \in DOMAIN Defaults
              PROVE  \/ config'.settings[f] = config.settings[f]
                     \/ f = job[p].cmd.field
                     \/ job[p].cmd.field = "model" /\ f \in {"input_price", "output_price"}
  BY DEF KeepsSettings
<1>1. Save(p)
  BY OwnStep, WritingSteps DEF InstallerInv
<1>2. config'.settings = WithValue(config.settings, job[p].cmd.field, job[p].cmd.value)
  BY <1>1 DEF Save, Doing, InstallerInv, LoadIsCurrent, Loaded
<1>3. DOMAIN config.settings = DOMAIN Defaults
  BY DEF InstallerInv, SettingsShape
<1>. QED  BY <1>2, <1>3, PricesAssumption DEF WithValue

(* Whatever commands run side by side, whatever editors save or restore    *)
(* and whenever a command fails or is killed, a step of a command changes  *)
(* one file at most, and loses nothing of others in it or in config.json   *)
(* but in the five cases OthersAreKept names.                              *)
THEOREM OthersSurvive == Spec => OthersAreKept
<1>1. InstallerSpec => []InstallerInv
  BY InstallerStart, InstallerStep, PTL DEF InstallerSpec
<1>2. InstallerInv /\ [InstallerNext]_installerVars
        => [\A p \in Procs : KeepsContents(p) /\ KeepsSettings(p)]_installerVars
  BY StepKeepsContents, StepKeepsSettings
<1>3. InstallerSpec => OthersAreKept
  BY <1>1, <1>2, PTL DEF InstallerSpec, OthersAreKept
<1>. QED  BY <1>3, ImplementsInstaller, PTL

-----------------------------------------------------------------------------
(* Backups                                                                 *)

Names == Nat \X Nat

BackupsShape ==
    /\ DOMAIN backups = Paths
    /\ \A path \in Paths :
          /\ file[path] # None => file[path].time \in Nat
          /\ IsFiniteSet(backups[path])
          /\ \A b \in backups[path] : b.name \in Names /\ b.doc.time \in Nat

\* The backups of a time or later.
Since(S, time) == {b \in S : b.doc.time >= time}

\* A document is among the backups, or was restored with a time too old for them.
Safe(S, doc) ==
    \/ \E b \in S : b.doc = doc
    \/ Cardinality(Since(S, doc.time)) >= MaxBackups

Copied(p) ==
    /\ job[p].copied \in Nat /\ job[p].copied < now
    /\ job[p].pc = "copy" => job[p].name \in Names
    /\ (job[p].pc \in {"rotate", "commit"} /\ Doc(p) # None /\ Doc(p).born = job[p].copied)
          => Safe(backups[Here(p).path], Doc(p))

BackupInv == BackupsShape /\ \A p \in Procs : Copied(p)

(* Backups are in a strict order, by time and name.                        *)
LEMMA OlderIsStrict ==
    ASSUME NEW S, \A b \in S : b.name \in Names /\ b.doc.time \in Nat
    PROVE  /\ \A b \in S : ~Older(b, b)
           /\ \A b, c, d \in S : Older(b, c) /\ Older(c, d) => Older(b, d)
           /\ \A b, c \in S : Older(b, c) => b.doc.time <= c.doc.time
<1>1. \A b \in S : b.name[1] \in Nat /\ b.name[2] \in Nat /\ b.doc.time \in Nat
  BY DEF Names
<1>2. \A b \in S : ~Older(b, b)
  BY <1>1 DEF Older
<1>3. ASSUME NEW b \in S, NEW c \in S, NEW d \in S, Older(b, c), Older(c, d) PROVE Older(b, d)
  BY <1>1, <1>3 DEF Older
<1>4. ASSUME NEW b \in S, NEW c \in S, Older(b, c) PROVE b.doc.time <= c.doc.time
  BY <1>1, <1>4 DEF Older
<1>. QED  BY <1>2, <1>3, <1>4

(* In a finite set of backups that is not empty, one has no newer one.     *)
LEMMA NewestOne ==
    ASSUME NEW S, IsFiniteSet(S), \A b \in S : b.name \in Names /\ b.doc.time \in Nat,
           NEW T \in SUBSET S, T # {}
    PROVE  \E m \in T : \A c \in T : ~Older(m, c)
<1>. DEFINE Above(b) == {c \in T : Older(b, c)}
            Ranks == {Cardinality(Above(b)) : b \in T}
<1>1. IsFiniteSet(T)
  BY FS_Subset
<1>2. ASSUME NEW b \in T PROVE IsFiniteSet(Above(b)) /\ Cardinality(Above(b)) \in Nat
  <2>1. Above(b) \subseteq T
    OBVIOUS
  <2>. HIDE DEF Above
  <2>2. IsFiniteSet(Above(b))
    BY <1>1, <2>1, FS_Subset
  <2>. QED  BY <2>2, FS_CardinalityType
<1>3. Ranks \in SUBSET Nat /\ Ranks # {}
  BY <1>2
<1>4. PICK r \in Ranks : \A x \in Ranks : r <= x
  <2>. HIDE DEF Ranks
  <2>. QED  BY <1>3, LeastNatural
<1>5. PICK m \in T : r = Cardinality(Above(m))
  OBVIOUS
<1>6. ASSUME NEW c \in T, Older(m, c) PROVE FALSE
  <2>1. Above(c) \subseteq Above(m) /\ c \in Above(m) /\ c \notin Above(c)
    BY <1>6, OlderIsStrict
  <2>2. Cardinality(Above(m)) <= Cardinality(Above(c))
    BY <1>4, <1>5
  <2>3. Above(c) # Above(m)
    BY <2>1
  <2>4. IsFiniteSet(Above(m)) /\ Cardinality(Above(m)) \in Nat /\ Cardinality(Above(c)) \in Nat
    BY <1>2
  <2>. HIDE DEF Above
  <2>5. Cardinality(Above(c)) <= Cardinality(Above(m))
        /\ (Cardinality(Above(c)) = Cardinality(Above(m)) => Above(c) = Above(m))
    BY <2>1, <2>4, FS_Subset
  <2>. QED  BY <2>2, <2>3, <2>4, <2>5
<1>. QED  BY <1>6

(* The backups of a time or later are the last that rotation deletes: of   *)
(* MaxBackups of them it leaves as many.                                   *)
LEMMA RotationKeepsSince ==
    ASSUME NEW S, IsFiniteSet(S), \A b \in S : b.name \in Names /\ b.doc.time \in Nat,
           NEW time \in Nat, Cardinality(Since(S, time)) >= MaxBackups
    PROVE  Cardinality(Since(Rotated(S), time)) >= MaxBackups
<1>. DEFINE T == Since(S, time)
            K == Since(Rotated(S), time)
<1>1. K \subseteq T /\ T \subseteq S /\ IsFiniteSet(K) /\ Cardinality(K) \in Nat
  <2>1. K \subseteq T /\ T \subseteq S
    BY DEF Since, Rotated
  <2>2. IsFiniteSet(K)
    BY <2>1, FS_Subset
  <2>. QED  BY <2>1, <2>2, FS_CardinalityType
<1>. SUFFICES ASSUME Cardinality(K) < MaxBackups PROVE FALSE
  BY <1>1, MaxBackupsAssumption
<1>2. T \ K # {}
  <2>1. K # T
    BY <1>1, MaxBackupsAssumption
  <2>. HIDE DEF K, T
  <2>. QED  BY <1>1, <2>1
<1>3. PICK m \in T \ K : \A c \in T \ K : ~Older(m, c)
  <2>1. T \ K \in SUBSET S
    BY <1>1
  <2>. HIDE DEF K, T
  <2>. QED  BY <1>2, <2>1, NewestOne
<1>4. {c \in S : Older(m, c)} \subseteq K
  <2>. SUFFICES ASSUME NEW c \in S, Older(m, c) PROVE c \in K
    OBVIOUS
  <2>1. m \in S /\ m.doc.time >= time
    BY <1>1, <1>3 DEF Since
  <2>2. m.doc.time <= c.doc.time /\ m.doc.time \in Nat /\ c.doc.time \in Nat
    BY <2>1, OlderIsStrict
  <2>3. c \in T
    BY <2>1, <2>2 DEF Since
  <2>. HIDE DEF K, T
  <2>. QED  BY <1>3, <2>3
<1>5. Cardinality({c \in S : Older(m, c)}) < MaxBackups
  <2>. DEFINE A == {c \in S : Older(m, c)}
  <2>. HIDE DEF A, K
  <2>1. A \subseteq K
    BY <1>4 DEF A
  <2>2. Cardinality(A) <= Cardinality(K)
    BY <1>1, <2>1, FS_Subset
  <2>3. IsFiniteSet(A)
    BY <1>1, <2>1, FS_Subset
  <2>4. Cardinality(A) \in Nat
    BY <2>3, FS_CardinalityType
  <2>5. Cardinality(A) < MaxBackups
    BY <1>1, <2>2, <2>4, MaxBackupsAssumption
  <2>. QED  BY <2>5 DEF A
<1>6. m \in Rotated(S) /\ m.doc.time >= time
  BY <1>1, <1>3, <1>5 DEF Rotated, Since
<1>. QED  BY <1>3, <1>6 DEF Since

(* What rotation deletes has MaxBackups of its time or later.              *)
LEMMA RotationDropsOldest ==
    ASSUME NEW S, IsFiniteSet(S), \A b \in S : b.name \in Names /\ b.doc.time \in Nat,
           NEW b \in S, b \notin Rotated(S)
    PROVE  Cardinality(Since(S, b.doc.time)) >= MaxBackups
<1>. DEFINE A == {c \in S : Older(b, c)}
            T == Since(S, b.doc.time)
<1>1. ~(Cardinality(A) < MaxBackups)
  BY DEF Rotated
<1>2. A \subseteq T /\ T \subseteq S
  BY OlderIsStrict DEF Since
<1>. HIDE DEF A, T
<1>3. IsFiniteSet(T) /\ IsFiniteSet(A)
  BY <1>2, FS_Subset
<1>4. Cardinality(T) \in Nat /\ Cardinality(A) \in Nat /\ Cardinality(A) <= Cardinality(T)
  BY <1>2, <1>3, FS_Subset, FS_CardinalityType
<1>5. Cardinality(T) >= MaxBackups
  BY <1>1, <1>4, MaxBackupsAssumption
<1>. QED  BY <1>5 DEF T

(* A rotation keeps what is safe.                                          *)
LEMMA RotationKeepsSafe ==
    ASSUME NEW S, IsFiniteSet(S), \A b \in S : b.name \in Names /\ b.doc.time \in Nat,
           NEW doc, doc.time \in Nat, Safe(S, doc)
    PROVE  Safe(Rotated(S), doc)
<1>1. CASE Cardinality(Since(S, doc.time)) >= MaxBackups
  BY <1>1, RotationKeepsSince DEF Safe
<1>2. ASSUME NEW b \in S, b.doc = doc PROVE Safe(Rotated(S), doc)
  <2>1. CASE b \in Rotated(S)
    BY <1>2, <2>1 DEF Safe
  <2>2. CASE b \notin Rotated(S)
    <3>1. Cardinality(Since(S, doc.time)) >= MaxBackups
      BY <1>2, <2>2, RotationDropsOldest
    <3>. QED  BY <1>1, <3>1
  <2>. QED  BY <2>1, <2>2
<1>. QED  BY <1>1, <1>2 DEF Safe

LEMMA NameIsAName ==
    ASSUME now \in Nat, NEW path
    PROVE  BackupName(path) \in Names
<1>1. now \div PerSecond \in Nat
  BY PerSecondAssumption
<1>. QED  BY <1>1 DEF BackupName, Names

LEMMA BackupsStart == InstallerInit => BackupInv
<1>. SUFFICES ASSUME InstallerInit PROVE BackupInv
  OBVIOUS
<1>1. PICK home \in Homes :
        /\ file = [path \in Paths |-> IF path \in DOMAIN home.file THEN home.file[path] ELSE None]
        /\ backups = [path \in Paths |->
                         IF path \in DOMAIN home.backups THEN home.backups[path] ELSE {}]
        /\ now = home.now
  BY DEF InstallerInit
<1>2. BackupsShape
  BY <1>1, HomesAssumption, FS_EmptySet DEF BackupsShape, Names
<1>3. \A p \in Procs : Copied(p)
  <2>1. job = [p \in Procs |-> NoJob] /\ now \in Nat /\ now > 1
    BY <1>1, HomesAssumption DEF InstallerInit
  <2>. QED  BY <2>1 DEF Copied, NoJob
<1>. QED  BY <1>2, <1>3 DEF BackupInv

(* A step that leaves the backups alone, and each job alone or at a stage  *)
(* where there is nothing to lose.                                         *)
LEMMA BackupsKept ==
    ASSUME InstallerInv, BackupInv, UNCHANGED backups,
           \/ file' = file /\ now' \in {now, now + 1}
           \/ \E path \in Paths : \E doc : /\ Write(path, doc)
                                           /\ doc # None => doc.born = now /\ doc.time \in Nat,
           \A p \in Procs :
              \/ job'[p] = job[p]
              \/ /\ job'[p].copied \in {0, job[p].copied}
                 /\ \/ job'[p].pc \notin {"copy", "rotate", "commit"}
                    \/ job'[p].pc = "copy" /\ job'[p].name \in Names
                    \/ job'[p].pc = "commit" /\ file'[Head(job'[p].plan).path] = None
    PROVE  BackupInv'
<1>1. now \in Nat /\ now > 0 /\ now' \in {now, now + 1} /\ now' \in Nat /\ DOMAIN file = Paths
  BY DEF InstallerInv, ClockAhead, Write
<1>2. ASSUME NEW path \in Paths
      PROVE  \/ file'[path] = file[path]
             \/ file'[path] = None
             \/ file'[path] # None /\ file'[path].born = now /\ file'[path].time \in Nat
  BY <1>1 DEF Write
<1>3. BackupsShape'
  BY <1>2 DEF BackupInv, BackupsShape
<1>4. ASSUME NEW p \in Procs PROVE Copied(p)'
  <2>0. Copied(p)
    BY DEF BackupInv
  <2>1. job'[p].copied \in Nat /\ job'[p].copied < now'
    BY <1>1, <2>0 DEF Copied
  <2>2. job'[p].pc = "copy" => job'[p].name \in Names
    BY <2>0 DEF Copied
  <2>3. ASSUME job'[p].pc \in {"rotate", "commit"}, Doc(p)' # None,
               (Doc(p).born)' = job'[p].copied
        PROVE  Safe(backups'[Head(job'[p].plan).path], Doc(p)')
    <3>1. job'[p] = job[p]
      BY <2>3 DEF Doc, Here
    <3>2. Here(p).path \in Paths /\ Doc(p)' = file'[Here(p).path] /\ job[p].copied < now
      <4>1. job[p].pc \notin {"new", "next", "done"}
        BY <2>3, <3>1
      <4>. QED  BY <2>0, <3>1, <4>1, HereIsAFile DEF InstallerInv, Doc, Here, Copied
    <3>3. file'[Here(p).path] = file[Here(p).path]
      BY <1>1, <1>2, <2>0, <2>3, <3>1, <3>2 DEF Copied
    <3>. QED  BY <2>0, <2>3, <3>1, <3>2, <3>3 DEF Copied, Doc, Here
  <2>4. Safe(backups'[Head(job'[p].plan).path], Doc(p)') <=> Safe(backups[Here(p).path], Doc(p))'
    BY DEF Safe, Since, Here
  <2>. QED  BY <2>1, <2>2, <2>3, <2>4 DEF Copied
<1>. QED  BY <1>3, <1>4 DEF BackupInv

(* The copy is of what is in the file by now; a backup it takes the name   *)
(* of may have been the copy another command made.                         *)
LEMMA CopyKeepsBackups ==
    ASSUME InstallerInv, BackupInv, NEW p \in Procs, Copy(p)
    PROVE  BackupInv'
<1>. DEFINE new == [name |-> job[p].name, doc |-> Doc(p)]
            here == Here(p).path
<1>1. /\ now \in Nat /\ UNCHANGED <<file, now>> /\ DOMAIN job = Procs /\ here \in Paths
      /\ Doc(p) # None /\ Doc(p) = file[here] /\ Doc(p).time \in Nat
      /\ Doc(p).born \in Nat /\ Doc(p).born < now /\ job[p].name \in Names
  <2>1. job[p].pc \notin {"new", "next", "done"} /\ job[p].pc = "copy"
    BY DEF Copy, Doing
  <2>2. here \in Paths
    BY <2>1, HereIsAFile DEF InstallerInv
  <2>. QED  BY <2>1, <2>2 DEF Copy, Doc, InstallerInv, JobShape, ClockAhead, BackupInv, Copied,
              BackupsShape
<1>2. /\ backups'[here] = {b \in backups[here] : b.name # job[p].name} \cup {new}
      /\ DOMAIN backups' = Paths
      /\ \A path \in Paths : path # here => backups'[path] = backups[path]
  BY <1>1 DEF Copy, BackupInv, BackupsShape
<1>3. new.doc = Doc(p) /\ new.name = job[p].name
  OBVIOUS
<1>. HIDE DEF new, here
<1>4. BackupsShape'
  <2>1. ASSUME NEW path \in Paths, NEW b \in backups'[path]
        PROVE  b.name \in Names /\ b.doc.time \in Nat
    <3>1. CASE b \in backups[path]
      BY <3>1 DEF BackupInv, BackupsShape
    <3>2. CASE b = new /\ path = here
      BY <1>1, <1>3, <3>2
    <3>. QED  BY <1>2, <2>1, <3>1, <3>2
  <2>2. ASSUME NEW path \in Paths PROVE IsFiniteSet(backups'[path])
    <3>1. IsFiniteSet(backups[path])
      BY DEF BackupInv, BackupsShape
    <3>2. {b \in backups[here] : b.name # job[p].name} \subseteq backups[here]
      OBVIOUS
    <3>3. CASE path = here
      <4>1. IsFiniteSet({b \in backups[here] : b.name # job[p].name})
        BY <3>1, <3>2, <3>3, FS_Subset
      <4>. QED  BY <1>2, <3>3, <4>1, FS_AddElement
    <3>. QED  BY <1>2, <3>1, <3>3
  <2>. QED  BY <1>1, <1>2, <2>1, <2>2 DEF BackupsShape, BackupInv
<1>5. ASSUME NEW q \in Procs, q # p PROVE Copied(q)'
  <2>1. job'[q] = job[q] /\ Copied(q)
    BY <1>1, <1>5 DEF Copy, BackupInv
  <2>2. ASSUME job[q].pc \in {"rotate", "commit"}, Doc(q) # None, Doc(q).born = job[q].copied
        PROVE  Safe(backups'[Here(q).path], Doc(q))
    <3>1. Here(q).path \in Paths
      BY <2>2, HereIsAFile DEF InstallerInv
    <3>2. Safe(backups[Here(q).path], Doc(q))
      BY <2>1, <2>2 DEF Copied
    <3>3. CASE Here(q).path = here
      <4>1. Doc(q) = Doc(p) /\ new \in backups'[Here(q).path]
        BY <1>1, <1>2, <3>3 DEF Doc
      <4>. QED  BY <1>3, <4>1 DEF Safe
    <3>4. CASE Here(q).path # here
      BY <1>2, <3>1, <3>2, <3>4
    <3>. QED  BY <3>3, <3>4
  <2>. QED  BY <1>1, <2>1, <2>2 DEF Copied, Doc, Here, Safe, Since
<1>6. Copied(p)'
  <2>1. /\ job'[p].pc = "rotate" /\ job'[p].copied = Doc(p).born /\ job'[p].plan = job[p].plan
    BY <1>1 DEF Copy, InstallerInv, JobShape, IsJob, JobFields
  <2>2. new \in backups'[here]
    BY <1>2
  <2>3. Safe(backups'[here], Doc(p))
    BY <1>3, <2>2 DEF Safe
  <2>. QED  BY <1>1, <2>1, <2>3 DEF Copied, Doc, Here, here, Safe, Since
<1>. QED  BY <1>4, <1>5, <1>6 DEF BackupInv

(* A rotation, of this command or of another, leaves the copy of what is   *)
(* in the file.                                                            *)
LEMMA RotateKeepsBackups ==
    ASSUME InstallerInv, BackupInv, NEW p \in Procs, Rotate(p)
    PROVE  BackupInv'
<1>. DEFINE here == Here(p).path
<1>1. /\ now \in Nat /\ UNCHANGED <<file, now>> /\ DOMAIN job = Procs /\ here \in Paths
  <2>1. job[p].pc \notin {"new", "next", "done"}
    BY DEF Rotate, Doing
  <2>. QED  BY <2>1, HereIsAFile DEF Rotate, InstallerInv, JobShape, ClockAhead
<1>2. /\ backups'[here] = Rotated(backups[here]) /\ DOMAIN backups' = Paths
      /\ \A path \in Paths : path # here => backups'[path] = backups[path]
  BY <1>1 DEF Rotate, BackupInv, BackupsShape
<1>3. \A path \in Paths : backups'[path] \subseteq backups[path]
  BY <1>2 DEF Rotated
<1>4. BackupsShape'
  <2>1. \A path \in Paths : IsFiniteSet(backups'[path])
    BY <1>3, FS_Subset DEF BackupInv, BackupsShape
  <2>. QED  BY <1>1, <1>2, <1>3, <2>1 DEF BackupInv, BackupsShape
<1>5. ASSUME NEW q \in Procs PROVE Copied(q)'
  <2>1. /\ job'[q].plan = job[q].plan /\ job'[q].copied = job[q].copied
        /\ job'[q].name = job[q].name
        /\ job'[q].pc = job[q].pc \/ (job'[q].pc = "commit" /\ job[q].pc = "rotate")
    BY <1>1 DEF Rotate, Step, Doing, InstallerInv, JobShape, IsJob, JobFields
  <2>2. Copied(q)
    BY DEF BackupInv
  <2>3. ASSUME job[q].pc \in {"rotate", "commit"}, Doc(q) # None, Doc(q).born = job[q].copied
        PROVE  Safe(backups'[Here(q).path], Doc(q))
    <3>1. Here(q).path \in Paths
      BY <2>3, HereIsAFile DEF InstallerInv
    <3>2. Safe(backups[Here(q).path], Doc(q))
      BY <2>2, <2>3 DEF Copied
    <3>3. CASE Here(q).path = here
      <4>1. /\ IsFiniteSet(backups[here])
            /\ \A b \in backups[here] : b.name \in Names /\ b.doc.time \in Nat
        BY <1>1 DEF BackupInv, BackupsShape
      <4>2. Doc(q).time \in Nat
        BY <2>3, <3>1 DEF BackupInv, BackupsShape, Doc
      <4>. HIDE DEF here
      <4>3. Safe(Rotated(backups[here]), Doc(q))
        BY <3>2, <3>3, <4>1, <4>2, RotationKeepsSafe
      <4>. QED  BY <1>2, <3>3, <4>3
    <3>4. CASE Here(q).path # here
      BY <1>2, <3>1, <3>2, <3>4
    <3>. QED  BY <3>3, <3>4
  <2>. QED  BY <1>1, <2>1, <2>2, <2>3 DEF Copied, Doc, Here, Safe, Since
<1>. QED  BY <1>4, <1>5 DEF BackupInv

LEMMA BackupsStep ==
    InstallerInv /\ BackupInv /\ [InstallerNext]_installerVars => BackupInv'
<1>. SUFFICES ASSUME InstallerInv, BackupInv, [InstallerNext]_installerVars PROVE BackupInv'
  OBVIOUS
<1>0. DOMAIN job = Procs /\ (\A p \in Procs : DOMAIN job[p] = JobFields) /\ now \in Nat
  BY DEF InstallerInv, JobShape, IsJob, ClockAhead
(* A step of p that moves its job to a harmless stage, on the same files.  *)
<1>a. ASSUME NEW p \in Procs, UNCHANGED <<backups, file>>, now' \in {now, now + 1},
             \A q \in Procs : q # p => job'[q] = job[q],
             job'[p].copied \in {0, job[p].copied},
             job'[p].pc \notin {"copy", "rotate", "commit"}
      PROVE  BackupInv'
  BY <1>a, BackupsKept
<1>b. ASSUME NEW p \in Procs, UNCHANGED backups,
             NEW path \in Paths, NEW doc, Write(path, doc),
             doc # None => doc.born = now /\ doc.time \in Nat,
             \A q \in Procs : q # p => job'[q] = job[q],
             job'[p].copied \in {0, job[p].copied},
             job'[p].pc \notin {"copy", "rotate", "commit"}
      PROVE  BackupInv'
  BY <1>b, BackupsKept
<1>c. ASSUME NEW p \in Procs, Onward(p)
      PROVE  /\ \A q \in Procs : q # p => job'[q] = job[q]
             /\ job'[p].copied = job[p].copied /\ job'[p].pc = "next"
  BY <1>0, <1>c DEF Onward, JobFields
<1>d. ASSUME NEW p \in Procs, Stop(p)
      PROVE  /\ \A q \in Procs : q # p => job'[q] = job[q]
             /\ job'[p].copied = 0 /\ job'[p].pc = "done"
  BY <1>0, <1>d DEF Stop, NoJob
<1>e. ASSUME NEW p \in Procs, job[p].pc \notin {"new", "next", "done"} PROVE Here(p).path \in Paths
  BY <1>e, HereIsAFile DEF InstallerInv
<1>1. ASSUME NEW p \in Procs, NEW cmd \in Commands, Begin(p, cmd) PROVE BackupInv'
  <2>1. /\ \A q \in Procs : q # p => job'[q] = job[q]
        /\ job'[p].copied = job[p].copied /\ job'[p].pc = "next"
    BY <1>0, <1>1 DEF Begin, JobFields
  <2>. QED  BY <1>1, <1>a, <2>1 DEF Begin
<1>2. ASSUME NEW p \in Procs, Turn(p) PROVE BackupInv'
  <2>1. CASE Stop(p)
    BY <1>2, <1>a, <1>d, <2>1 DEF Turn
  <2>2. ASSUME NEW i \in 1..Len(job[p].plan),
               job' = [job EXCEPT ![p].pc = job[p].plan[i].how,
                                  ![p].plan = SubSeq(job[p].plan, i, Len(job[p].plan))]
        PROVE  BackupInv'
    <3>2. job[p].plan[i].how \in Hows
      BY SubPlanShape DEF InstallerInv, JobShape, IsJob
    <3>3. /\ \A q \in Procs : q # p => job'[q] = job[q]
          /\ job'[p].copied = job[p].copied /\ job'[p].pc = job[p].plan[i].how
      BY <1>0, <2>2 DEF JobFields
    <3>4. job'[p].pc \notin {"copy", "rotate", "commit"}
      BY <3>2, <3>3 DEF Hows
    <3>. QED  BY <1>2, <1>a, <3>3, <3>4 DEF Turn
  <2>3. job[p].plan \in Seq(Visits)
    BY DEF InstallerInv, JobShape, IsJob
  <2>. QED  BY <1>2, <2>1, <2>2, <2>3 DEF Turn
<1>3. ASSUME NEW p \in Procs, Read(p) PROVE BackupInv'
  <2>1. /\ \A q \in Procs : q # p => job'[q] = job[q]
        /\ job'[p].copied = job[p].copied /\ job'[p].pc \in {"append", "name"}
    BY <1>0, <1>3 DEF Read, JobFields
  <2>. QED  BY <1>3, <1>a, <2>1 DEF Read
<1>4. ASSUME NEW p \in Procs, LeaveAlone(p) PROVE BackupInv'
  BY <1>4, <1>a, <1>c DEF LeaveAlone
<1>5. ASSUME NEW p \in Procs, ReadRaises(p) PROVE BackupInv'
  BY <1>5, <1>a, <1>d DEF ReadRaises
<1>6. ASSUME NEW p \in Procs, Name(p) PROVE BackupInv'
  <2>0. UNCHANGED <<file, backups, now>> /\ now \in Nat
    BY <1>6 DEF Name, InstallerInv, ClockAhead
  <2>1. CASE Doc(p) = None
    <3>1. /\ \A q \in Procs : q # p => job'[q] = job[q]
          /\ job'[p].copied = 0 /\ job'[p].pc = "commit" /\ job'[p].plan = job[p].plan
      BY <1>0, <1>6, <2>1 DEF Name, JobFields
    <3>2. file'[Head(job'[p].plan).path] = None
      BY <2>0, <2>1, <3>1 DEF Doc, Here
    <3>. QED  BY <2>0, <3>1, <3>2, BackupsKept
  <2>2. CASE Doc(p) # None
    <3>1. /\ \A q \in Procs : q # p => job'[q] = job[q]
          /\ job'[p].copied = job[p].copied /\ job'[p].pc = "copy"
          /\ job'[p].name = BackupName(Here(p).path)
      BY <1>0, <1>6, <2>2 DEF Name, JobFields
    <3>2. job'[p].name \in Names
      BY <2>0, <3>1, NameIsAName
    <3>. QED  BY <2>0, <3>1, <3>2, BackupsKept
  <2>. QED  BY <2>1, <2>2
<1>7. ASSUME NEW p \in Procs, Copy(p) PROVE BackupInv'
  BY <1>7, CopyKeepsBackups
<1>8. ASSUME NEW p \in Procs, Rotate(p) PROVE BackupInv'
  BY <1>8, RotateKeepsBackups
<1>9. ASSUME NEW p \in Procs, Commit(p) PROVE BackupInv'
  <2>1. PICK doc : Write(Here(p).path, doc) /\ doc.born = now /\ doc.time = now
    BY <1>9 DEF Commit, Merged
  <2>2. Here(p).path \in Paths
    BY <1>9, <1>e DEF Commit, Doing
  <2>. QED  BY <1>0, <1>9, <1>b, <1>c, <2>1, <2>2 DEF Commit
<1>10. ASSUME NEW p \in Procs, MergeFails(p) PROVE BackupInv'
  BY <1>10, <1>a, <1>c DEF MergeFails
<1>11. ASSUME NEW p \in Procs, AppendRule(p) PROVE BackupInv'
  <2>1. PICK doc : Write(Here(p).path, doc) /\ doc.born = now /\ doc.time = now
    BY <1>11 DEF AppendRule, Merged
  <2>2. Here(p).path \in Paths
    BY <1>11, <1>e DEF AppendRule, Doing
  <2>. QED  BY <1>0, <1>11, <1>b, <1>c, <2>1, <2>2 DEF AppendRule
<1>12. ASSUME NEW p \in Procs, WriteTemplate(p) PROVE BackupInv'
  <2>1. Here(p).path \in Paths
    BY <1>12, <1>e DEF WriteTemplate
  <2>2. Template.born = now /\ Template.time \in Nat
    BY <1>0 DEF Template
  <2>. QED  BY <1>12, <1>b, <1>c, <2>1, <2>2 DEF WriteTemplate
<1>create. ASSUME NEW p \in Procs, Create(p) PROVE BackupInv'
  <2>1. CASE Doc(p) = None
    <3>1. /\ \A q \in Procs : q # p => job'[q] = job[q]
          /\ job'[p].copied = job[p].copied /\ job'[p].pc = "fill"
      BY <1>0, <1>create, <2>1 DEF Create, JobFields
    <3>. QED  BY <1>create, <1>a, <3>1 DEF Create
  <2>2. CASE Doc(p) # None
    BY <1>create, <1>a, <1>c, <2>2 DEF Create
  <2>. QED  BY <2>1, <2>2
<1>13. ASSUME NEW p \in Procs, WriteTorn(p) PROVE BackupInv'
  <2>1. Here(p).path \in Paths
    BY <1>13, <1>e DEF WriteTorn
  <2>2. Truncated.born = now /\ Truncated.time \in Nat
    BY <1>0 DEF Truncated, Template
  <2>. QED  BY <1>13, <1>b, <1>d, <2>1, <2>2 DEF WriteTorn
<1>14. ASSUME NEW p \in Procs, Load(p) PROVE BackupInv'
  <2>1. CASE Stop(p)
    BY <1>14, <1>a, <1>d, <2>1 DEF Load
  <2>2. CASE ~Stop(p)
    <3>1. /\ \A q \in Procs : q # p => job'[q] = job[q]
          /\ job'[p].copied = job[p].copied /\ job'[p].pc = "save"
      BY <1>0, <1>14, <2>2 DEF Load, JobFields
    <3>. QED  BY <1>14, <1>a, <3>1 DEF Load
  <2>. QED  BY <2>1, <2>2
<1>15. ASSUME NEW p \in Procs, Save(p) PROVE BackupInv'
  BY <1>15, <1>a, <1>c DEF Save
<1>16. ASSUME NEW p \in Procs, Quit(p) PROVE BackupInv'
  BY <1>16, <1>a, <1>d DEF Quit
<1>17. CASE EditorSaves
  <2>1. UNCHANGED <<backups, job>>
    BY <1>17 DEF EditorSaves
  <2>2. ASSUME NEW edit \in Editors, NEW doc, Write(edit.path, doc),
               doc # None => doc.born = now /\ doc.time \in Nat
        PROVE  BackupInv'
    <3>1. edit.path \in Paths
      BY EditorsAssumption
    <3>. QED  BY <2>1, <2>2, <3>1, BackupsKept
  <2>3. CASE now' = now + 1 /\ UNCHANGED file
    BY <2>1, <2>3, BackupsKept
  <2>. QED  BY <1>0, <1>17, <2>2, <2>3, EditedIsBorn DEF EditorSaves
<1>18. CASE UNCHANGED installerVars
  <2>1. UNCHANGED <<file, now, backups, job>>
    BY <1>18 DEF installerVars
  <2>. QED  BY <2>1, BackupsKept
<1>. QED
  BY <1>1, <1>2, <1>3, <1>4, <1>5, <1>6, <1>7, <1>8, <1>9, <1>10, <1>11, <1>12, <1>13,
     <1>14, <1>15, <1>16, <1>17, <1>18, <1>create DEF InstallerNext, Run, Work

(* What a merge is about to replace is in one of the backups, unless the   *)
(* file was written since it was copied, or restored with a time that      *)
(* MaxBackups of the backups reach: no other rotation and no second backup *)
(* of the same name takes the only copy away.                              *)
THEOREM ReplacedStaysBackedUp == Spec => []ReplacedIsBackedUp
<1>1. InstallerInit => InstallerInv /\ BackupInv
  BY InstallerStart, BackupsStart
<1>2. (InstallerInv /\ BackupInv) /\ [InstallerNext]_installerVars => (InstallerInv /\ BackupInv)'
  BY InstallerStep, BackupsStep
<1>3. InstallerInv /\ BackupInv => ReplacedIsBackedUp
  BY DEF BackupInv, Copied, Safe, Since, ReplacedIsBackedUp, Replacing, InBackup, Doing
<1>4. InstallerSpec => []ReplacedIsBackedUp
  BY <1>1, <1>2, <1>3, PTL DEF InstallerSpec
<1>. QED  BY <1>4, ImplementsInstaller, PTL
=============================================================================
