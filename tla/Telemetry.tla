----------------------------- MODULE Telemetry -----------------------------
(***************************************************************************)
(* What a workstation reports of the tokens it saves: the requests that go *)
(* through the reverse proxy (ctxfw.proxy) and the bundles made by the     *)
(* command line (run_firewall_cli) each leave a record in the local        *)
(* telemetry ledger and then send a heartbeat: the oldest unsynced records *)
(* are posted to the push endpoint of the centre, and marked as synced     *)
(* when it answers 200.  Handlers and commands run side by side; each      *)
(* transaction, file operation and message is a step.  A transaction may   *)
(* be refused, a message or its answer lost, and a process killed.         *)
(*                                                                         *)
(* A request says who serves it (by), whether it asks to bypass the        *)
(* firewall, whether it is over the 40,000 tokens of the breaker, whether  *)
(* its body can be inspected, and the code blocks of its text in order.  A *)
(* block has its tag ("untagged" when no file header precedes it), whether *)
(* its language is known and it parses, and the tokens pruning saves.  For *)
(* the command line the blocks are the files of the bundle, and bypass is  *)
(* the option that prints the prompt and nothing else.                     *)
(***************************************************************************)
EXTENDS Integers, Sequences, FiniteSets, Processes

CONSTANTS
    Requests,   \* what they may be asked to serve
    Endpoint,   \* whether CTXFW_TELEMETRY_ENDPOINT is set
    Limit       \* the records of one heartbeat (100 in the code)

ASSUME EndpointAssumption == Endpoint \in BOOLEAN
ASSUME LimitAssumption == Limit \in Nat \ {0}

VARIABLES
    uuidFile,   \* dev_uuid.txt: the process that generated what it holds, or None
    ledger,     \* the telemetry table: the id of a record is its position
    centre,     \* the rows of the centre: a record id and the heartbeat that brought it
    task        \* process -> its progress

telemetryVars == <<uuidFile, ledger, centre, task>>

NoTask == [pc |-> "new", req |-> None, saved |-> 0, uuid |-> None,
           push |-> FALSE, batch |-> {}]

-----------------------------------------------------------------------------
(* What a request saves.                                                   *)

\* compact_code_snippet: unknown languages, and code that does not parse, pass untouched.
SavedBy(block) == IF block.known /\ block.parses THEN block.gain ELSE 0

\* The blocks compact_text_payload compacts: the tagged ones that are not the
\* target file when there is a tagged one, every fenced block otherwise.
Compacted(blocks) ==
    LET tagged == \E i \in DOMAIN blocks : blocks[i].tag # "untagged"
    IN  SelectSeq(blocks, LAMBDA b : IF tagged THEN b.tag \notin {"untagged", "full"} ELSE TRUE)

TotalSaved(blocks) ==
    LET total[i \in 0..Len(blocks)] ==
            IF i = 0 THEN 0 ELSE total[i - 1] + SavedBy(blocks[i])
    IN  total[Len(blocks)]

\* inspect_and_compact_payload; a body it cannot inspect passes through whole.
TokensSaved(req) ==
    IF req.bypass \/ ~req.inspectable THEN 0 ELSE TotalSaved(Compacted(req.blocks))

-----------------------------------------------------------------------------
(* The ledger.                                                             *)

Unsynced == {id \in DOMAIN ledger : ~ledger[id].synced}

\* get_unsynced_records: the oldest, at most Limit of them.
OldestUnsynced == {id \in Unsynced : Cardinality({i \in Unsynced : i < id}) < Limit}

\* record_event
RecordOf(p) == [by |-> p, uuid |-> task[p].uuid, saved |-> task[p].saved, synced |-> FALSE]

\* A mark by the column instead of by the ids that were posted.
MarkAllUnsynced(ids) ==
    ledger' = [id \in DOMAIN ledger |->
                   IF ids # {} THEN [ledger[id] EXCEPT !.synced = TRUE] ELSE ledger[id]]

\* mark_as_synced
MarkAsSynced(ids) ==
    ledger' = [id \in DOMAIN ledger |->
                   IF id \in ids THEN [ledger[id] EXCEPT !.synced = TRUE] ELSE ledger[id]]

\* ingest_batch at the centre: a row for each record posted, whatever it holds already.
Ingest(p) == centre' = centre \cup (task[p].batch \X {p})

-----------------------------------------------------------------------------
TelemetryInit ==
    /\ uuidFile = None
    /\ ledger = <<>>
    /\ centre = {}
    /\ task = [p \in Procs |-> NoTask]

At(p, pc) == task[p].pc = pc

Go(p, pc) == task' = [task EXCEPT ![p].pc = pc]

\* A handler forwards the request, with the heartbeat as its background task; the
\* command line sends the heartbeat at once.
AfterTelemetry(p, push) ==
    IF task[p].req.by = "proxy" THEN "forward" ELSE IF push THEN "fetch" ELSE "done"

(* chat_completions and messages_completion: the breaker answers 413, the  *)
(* body is inspected and compacted, and a request that bypasses the        *)
(* firewall is forwarded with no record.  run_firewall_cli: the bundle is  *)
(* built and printed, unless only the prompt is wanted.                    *)
Accept(p, req) ==
    /\ At(p, "new")
    /\ ~req.over
    /\ task' = [task EXCEPT ![p] =
                    [@ EXCEPT !.pc = IF ~req.bypass THEN "uuid"
                                     ELSE IF req.by = "proxy" THEN "forward" ELSE "done",
                              !.req = req, !.saved = TokensSaved(req)]]
    /\ UNCHANGED <<uuidFile, ledger, centre>>

\* The breaker: 413, before anything is recorded or forwarded.
Reject(p, req) ==
    /\ At(p, "new")
    /\ req.over
    /\ Go(p, "done")
    /\ UNCHANGED <<uuidFile, ledger, centre>>

\* get_or_create_dev_uuid: the file is read, and when there is none ...
ReadUuid(p) ==
    /\ At(p, "uuid")
    /\ task' = [task EXCEPT ![p].uuid = IF uuidFile # None THEN uuidFile ELSE p,
                            ![p].pc = IF uuidFile # None THEN "record" ELSE "mint"]
    /\ UNCHANGED <<uuidFile, ledger, centre>>

\* ... the new uuid is written over whatever is there by now; a failure is ignored.
MintUuid(p) ==
    /\ At(p, "mint")
    /\ \/ uuidFile' = task[p].uuid
       \/ UNCHANGED uuidFile
    /\ Go(p, "record")
    /\ UNCHANGED <<ledger, centre>>

\* record_request_telemetry, and the end of run_firewall_cli.
Record(p) ==
    /\ At(p, "record")
    /\ ledger' = Append(ledger, RecordOf(p))
    /\ task' = [task EXCEPT ![p].push = Endpoint, ![p].pc = AfterTelemetry(p, Endpoint)]
    /\ UNCHANGED <<uuidFile, centre>>

\* The ledger is locked: no record and no heartbeat, and the request goes on.
RecordRefused(p) ==
    /\ At(p, "record")
    /\ Go(p, AfterTelemetry(p, FALSE))
    /\ UNCHANGED <<uuidFile, ledger, centre>>

\* forward_upstream: an answer or an error of the provider, or a 502; then the background task.
Forward(p) ==
    /\ At(p, "forward")
    /\ Go(p, IF task[p].push THEN "fetch" ELSE "done")
    /\ UNCHANGED <<uuidFile, ledger, centre>>

-----------------------------------------------------------------------------
(* push_telemetry_heartbeat, and the synchronous one of the command line.  *)

Fetch(p) ==
    /\ At(p, "fetch")
    /\ task' = [task EXCEPT ![p].batch = OldestUnsynced,
                            ![p].pc = IF Unsynced = {} THEN "done" ELSE "post"]
    /\ UNCHANGED <<uuidFile, ledger, centre>>

\* The centre ingests the batch and its answer arrives, or does not.
Post(p) ==
    /\ At(p, "post")
    /\ Ingest(p)
    /\ \E pc \in {"mark", "done"} : Go(p, pc)
    /\ UNCHANGED <<uuidFile, ledger>>

\* The centre cannot be reached, or refuses the batch.
PostLost(p) ==
    /\ At(p, "post")
    /\ Go(p, "done")
    /\ UNCHANGED <<uuidFile, ledger, centre>>

Mark(p) ==
    /\ At(p, "mark")
    /\ MarkAsSynced(task[p].batch)
    /\ Go(p, "done")
    /\ UNCHANGED <<uuidFile, centre>>

\* The process is killed, or the mark refused, at any of these points.
Killed(p) ==
    /\ task[p].pc \notin {"new", "done"}
    /\ Go(p, "done")
    /\ UNCHANGED <<uuidFile, ledger, centre>>

-----------------------------------------------------------------------------
Serve(p) == \E req \in Requests : Accept(p, req) \/ Reject(p, req)

Report(p) ==
    \/ ReadUuid(p) \/ MintUuid(p) \/ Record(p) \/ RecordRefused(p) \/ Forward(p)
    \/ Fetch(p) \/ Post(p) \/ PostLost(p) \/ Mark(p) \/ Killed(p)

TelemetryNext == \E p \in Procs : Serve(p) \/ Report(p)

TelemetrySpec == TelemetryInit /\ [][TelemetryNext]_telemetryVars

-----------------------------------------------------------------------------
(* Properties                                                              *)

(* A record marked as synced is at the centre: no lost message, lost       *)
(* answer, killed process or heartbeat that overlaps another, or a record  *)
(* made meanwhile, ever takes a record off the queue that the centre has   *)
(* not ingested (push_telemetry_heartbeat, "Offline Resilience").          *)
SyncedIsIngested ==
    \A id \in DOMAIN ledger : ledger[id].synced => \E p \in Procs : <<id, p>> \in centre

=============================================================================
