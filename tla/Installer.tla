----------------------------- MODULE Installer -----------------------------
(***************************************************************************)
(* What ctxfw writes on a workstation besides its databases: the MCP       *)
(* configuration files of the editors and agents (ctxfw.installer), their  *)
(* rules files, the perimeter of a repository (ctxfw init) and its own     *)
(* ~/.ctxfw/config.json (ctxfw config, ctxfw mode).  Commands run side by  *)
(* side, and the editors save the same files whenever they like.  Reading  *)
(* a file, naming a backup, copying it, rotating the backups and replacing *)
(* the file are each a step; each may fail and a command may be killed.    *)
(*                                                                         *)
(* A document is None (absent) or a record: its kind ("json", "text",      *)
(* "blank", "broken" when it is not a JSON object, "binary" when it is not *)
(* UTF-8), what it holds that is not of ctxfw (other, a model value), the  *)
(* entry of ctxfw (None, or the command it starts), whether it allows the  *)
(* tools of ctxfw, which of the keys that a merge manages hold something   *)
(* else than the object or list they should (odd), its modification time,  *)
(* and the write that made it (born), a history no step looks at.          *)
(***************************************************************************)
EXTENDS Integers, Sequences, FiniteSets, Processes

CONSTANTS
    Commands,       \* what they may be asked to do
    Editors,        \* the saves there may be: a path, a document, and whether it is restored
    Homes,          \* the workstations there may be at first
    Defaults,       \* config.json when there is none: setting -> value
    Accepts,        \* setting -> the values it may have
    Prices,         \* a model of the catalogue -> the settings it brings along
    Corrupt,        \* a config.json that is no configuration
    MaxBackups,     \* the backups kept of a file (5 in the code)
    PerSecond,      \* bound: writes in a second
    MaxUpsets       \* bound: saves of editors, failures and kills

ASSUME MaxBackupsAssumption == MaxBackups \in 1..10
ASSUME PerSecondAssumption == PerSecond \in Nat \ {0}

\* A workstation was written before the commands begin, and its config.json is
\* one of ctxfw when it is a configuration at all.  Its files may have been
\* restored with any modification time, and its backups may be of any age.
ASSUME HomesAssumption ==
    \A home \in Homes :
        /\ home.now \in Nat /\ home.now > 1
        /\ \A path \in DOMAIN home.file :
               home.file[path] # None =>
                   /\ home.file[path].time \in Nat
                   /\ home.file[path].born \in 1..(home.now - 1)
        /\ \A path \in DOMAIN home.backups :
               /\ IsFiniteSet(home.backups[path])
               /\ \A b \in home.backups[path] : b.name \in Nat \X Nat /\ b.doc.time \in Nat
        /\ \/ home.settings \in {None, Corrupt}
           \/ DOMAIN home.settings = DOMAIN Defaults

ASSUME CommandsAssumption ==
    \A cmd \in Commands : cmd.kind \in {"claude", "install", "global", "init", "repo", "set"}

\* resolve_model_spec gives the prices of a model.
ASSUME PricesAssumption ==
    \A model \in DOMAIN Prices : DOMAIN Prices[model] \subseteq {"input_price", "output_price"}

VARIABLES
    file,       \* path -> document
    present,    \* the directories that exist, among those a command asks for
    backups,    \* path -> its backups: a name and a document each
    config,     \* config.json: its settings (or None, or Corrupt) and the write that made it
    now,        \* the clock: it ticks at each write
    job,        \* command -> its progress
    upsets      \* the saves of editors, failures and kills so far

installerVars == <<file, present, backups, config, now, job, upsets>>

\* The files a command writes; the settings in config.json are in config.
Paths == {"antigravityIde", "antigravity", "gemini", "cline", "cursor", "cursorrules",
          "desktop", "code", "windsurf", "workspace", ".mcp.json", "rules.yaml",
          "firewall_laws.md", "SKILL.md", "SPEC.axioms.md", "pre-commit", "config.json"}

\* A save of an editor that matters here is of one of these files.
ASSUME EditorsAssumption ==
    \A edit \in Editors :
        /\ edit.path \in Paths
        /\ edit.doc # None => {"time", "born"} \subseteq DOMAIN edit.doc /\ edit.doc.time \in Nat

NoJob == [pc |-> "new", plan |-> <<>>, cmd |-> None, data |-> None, read |-> 0,
          name |-> None, copied |-> 0]

-----------------------------------------------------------------------------
(* What each command does: the files it visits, in order, each if one of   *)
(* the directories in needs exists ({} when it does not matter).           *)

Visit(how, path, needs) == [how |-> how, path |-> path, needs |-> needs]

\* install_claude_surfaces
ClaudeSurfaces == <<Visit("tools", "code", {}), Visit("plain", "desktop", {})>>

\* resolve_mcp_surfaces and install_mcp_servers
McpSurfaces ==
    <<Visit("plain", "desktop", {}), Visit("tools", "code", {}),
      Visit("plain", "workspace", {}), Visit("plain", "windsurf", {"windsurf", "codeium"})>>

\* resolve_ide_paths and run_global_init; the parent of .claude.json and .cursorrules is the home.
IdePaths ==
    <<Visit("plain", "antigravityIde", {}), Visit("plain", "antigravity", {}),
      Visit("rule", "gemini", {}), Visit("plain", "cline", {"cline"}),
      Visit("plain", "cursor", {"cursor"}), Visit("rule", "cursorrules", {}),
      Visit("plain", "desktop", {"desktop"}), Visit("plain", "code", {}),
      Visit("plain", "windsurf", {"windsurf"})>>

\* handle_init_command
AgentFiles ==
    <<Visit("write", ".mcp.json", {}), Visit("write", "rules.yaml", {}),
      Visit("write", "firewall_laws.md", {}), Visit("write", "SKILL.md", {})>>

\* init_repository_perimeter
Perimeter == <<Visit("create", "SPEC.axioms.md", {}), Visit("write", "pre-commit", {".git"})>>

\* handle_init_cli, handle_install_cli, handle_config_command
PlanOf(cmd) ==
    CASE cmd.kind = "claude" -> ClaudeSurfaces
      [] cmd.kind = "install" -> McpSurfaces
      [] cmd.kind = "global" -> IdePaths
      [] cmd.kind = "init" -> AgentFiles
      [] cmd.kind = "repo" -> AgentFiles \o Perimeter
      [] cmd.kind = "set" -> <<Visit("set", "config.json", {})>>

Wanted(visit) == visit.needs = {} \/ visit.needs \cap present # {}

-----------------------------------------------------------------------------
(* Documents and backups.                                                  *)

\* What a document holds of others, and the write that made it.
Other(doc) == IF doc = None THEN None ELSE doc.other

BornOf(doc) == IF doc = None THEN 0 ELSE doc.born

\* The keys a merge replaces when they do not hold an object or a list.
Managed(how) ==
    CASE how = "tools" -> {"mcpServers", "allowedTools"}
      [] how = "plain" -> {"mcpServers"}
      [] OTHER -> {}

OddLeft(doc, how) == IF doc = None THEN {} ELSE doc.odd \ Managed(how)

\* safe_merge_claude_code_config also wants the tools of ctxfw allowed; the
\* directive of inject_sovereign_rule is known by its marker.
Own(how, cmd) == IF how = "rule" THEN "directive" ELSE cmd.exe

Configured(doc, how, cmd) ==
    doc # None /\ doc.own = Own(how, cmd) /\ (how = "tools" => doc.tools)

\* The entry of ctxfw alone, were the others dropped when none is of ctxfw yet.
MergedAfresh(doc, how, cmd) ==
    [kind |-> "json", own |-> Own(how, cmd), tools |-> how = "tools",
     other |-> IF doc = None \/ doc.own = None THEN None ELSE doc.other,
     odd |-> OddLeft(doc, how), time |-> now, born |-> now]

\* The document with the entry of ctxfw added, made from the one that was read.
Merged(doc, how, cmd) ==
    [kind |-> IF how = "rule" THEN "text" ELSE "json",
     other |-> Other(doc), own |-> Own(how, cmd),
     tools |-> how = "tools" \/ (doc # None /\ doc.tools),
     odd |-> OddLeft(doc, how), time |-> now, born |-> now]

\* A template written over whatever is there.
Template ==
    [kind |-> "text", other |-> None, own |-> "template", tools |-> FALSE, odd |-> {},
     time |-> now, born |-> now]

\* What a write_text killed half way leaves.
Truncated == [Template EXCEPT !.kind = "blank", !.own = None]

\* <name>.bak.<seconds>, or <name>.bak.<seconds>_<nanoseconds> when that one exists.
BackupName(path) ==
    LET second == now \div PerSecond
    IN  IF \E b \in backups[path] : b.name = <<second, 0>> THEN <<second, now>> ELSE <<second, 0>>

\* rotate_backups: by modification time, then by name.
Older(b, c) ==
    \/ b.doc.time < c.doc.time
    \/ b.doc.time = c.doc.time /\ b.name[1] < c.name[1]
    \/ b.doc.time = c.doc.time /\ b.name[1] = c.name[1] /\ b.name[2] < c.name[2]

\* The backups kept, were the newest deleted.
RotatedFromTheEnd(S) == {b \in S : Cardinality({c \in S : Older(c, b)}) < MaxBackups}

Rotated(S) == {b \in S : Cardinality({c \in S : Older(b, c)}) < MaxBackups}

-----------------------------------------------------------------------------
(* config.json                                                             *)

\* load_config: the defaults when there is no file, and when it cannot be read.
Loaded == IF config.settings \in {None, Corrupt} THEN Defaults ELSE config.settings

\* set_config_value: a model of the catalogue brings its prices.
WithValue(settings, field, value) ==
    [f \in DOMAIN settings |->
        IF f = field THEN value
        ELSE IF field = "model" /\ value \in DOMAIN Prices /\ f \in DOMAIN Prices[value]
        THEN Prices[value][f] ELSE settings[f]]

-----------------------------------------------------------------------------
InstallerInit ==
    /\ \E home \in Homes :
          /\ file = [path \in Paths |->
                        IF path \in DOMAIN home.file THEN home.file[path] ELSE None]
          /\ present = home.present
          /\ backups = [path \in Paths |->
                           IF path \in DOMAIN home.backups THEN home.backups[path] ELSE {}]
          /\ config = [settings |-> home.settings, born |-> 1]
          /\ now = home.now
    /\ job = [p \in Procs |-> NoJob]
    /\ upsets = 0

Doing(p, pc) == job[p].pc = pc

Here(p) == Head(job[p].plan)

Doc(p) == file[Here(p).path]

Step(p, pc) == job' = [job EXCEPT ![p].pc = pc]

\* On to the next visit; the end of the command.
Onward(p) == job' = [job EXCEPT ![p].pc = "next", ![p].plan = Tail(@)]

Stop(p) == job' = [job EXCEPT ![p] = [NoJob EXCEPT !.pc = "done"]]

Upset == upsets < MaxUpsets /\ upsets' = upsets + 1

Write(path, doc) == file' = [file EXCEPT ![path] = doc] /\ now' = now + 1

Begin(p, cmd) ==
    /\ Doing(p, "new")
    /\ job' = [job EXCEPT ![p].pc = "next", ![p].cmd = cmd, ![p].plan = PlanOf(cmd)]
    /\ UNCHANGED <<file, present, backups, config, now, upsets>>

\* The visits that do not apply are passed over; the command may be at its end.
Turn(p) ==
    LET plan == job[p].plan IN
    /\ Doing(p, "next")
    /\ \E i \in 1..(Len(plan) + 1) :
          /\ \A j \in 1..(i - 1) : ~Wanted(plan[j])
          /\ \/ i > Len(plan) /\ Stop(p)
             \/ /\ i <= Len(plan) /\ Wanted(plan[i])
                /\ job' = [job EXCEPT ![p].pc = plan[i].how,
                                      ![p].plan = SubSeq(plan, i, Len(plan))]
    /\ UNCHANGED <<file, present, backups, config, now, upsets>>

Merging(p) == job[p].pc \in {"tools", "plain", "rule"}

\* The file is read, and has to be changed.  A rules file is written at once.
Read(p) ==
    /\ Merging(p)
    /\ Doc(p) # None => Doc(p).kind \notin {"broken", "binary"}
    /\ ~Configured(Doc(p), Here(p).how, job[p].cmd)
    /\ job' = [job EXCEPT ![p].data = Doc(p), ![p].read = BornOf(Doc(p)),
                          ![p].pc = IF Here(p).how = "rule" THEN "append" ELSE "name"]
    /\ UNCHANGED <<file, present, backups, config, now, upsets>>

\* It is configured identically already, or its JSON is invalid: it is left alone.
LeaveAlone(p) ==
    /\ Merging(p)
    /\ Doc(p) # None
    /\ \/ Doc(p).kind \notin {"broken", "binary"} /\ Configured(Doc(p), Here(p).how, job[p].cmd)
       \/ Doc(p).kind = "broken"
    /\ Onward(p)
    /\ UNCHANGED <<file, present, backups, config, now, upsets>>

\* It is not UTF-8: the exception ends the command.
ReadRaises(p) ==
    /\ Merging(p)
    /\ Doc(p) # None /\ Doc(p).kind = "binary"
    /\ Stop(p)
    /\ UNCHANGED <<file, present, backups, config, now, upsets>>

Name(p) ==
    /\ Doing(p, "name")
    /\ job' = IF Doc(p) = None
              THEN [job EXCEPT ![p].pc = "commit", ![p].copied = 0]
              ELSE [job EXCEPT ![p].pc = "copy", ![p].name = BackupName(Here(p).path)]
    /\ UNCHANGED <<file, present, backups, config, now, upsets>>

\* shutil.copy2: what is in the file by now, with its modification time.
Copy(p) ==
    /\ Doing(p, "copy")
    /\ Doc(p) # None
    /\ backups' = [backups EXCEPT ![Here(p).path] =
                       {b \in @ : b.name # job[p].name} \cup {[name |-> job[p].name, doc |-> Doc(p)]}]
    /\ job' = [job EXCEPT ![p].pc = "rotate", ![p].copied = Doc(p).born]
    /\ UNCHANGED <<file, present, config, now, upsets>>

Rotate(p) ==
    /\ Doing(p, "rotate")
    /\ backups' = [backups EXCEPT ![Here(p).path] = Rotated(@)]
    /\ Step(p, "commit")
    /\ UNCHANGED <<file, present, config, now, upsets>>

\* The temporary file is complete; os.replace.
Commit(p) ==
    /\ Doing(p, "commit")
    /\ Write(Here(p).path, Merged(job[p].data, Here(p).how, job[p].cmd))
    /\ present' = present \cup {Here(p).path} \cup
                  (IF Here(p).path = "windsurf" THEN {"codeium"} ELSE {})
    /\ Onward(p)
    /\ UNCHANGED <<backups, config, upsets>>

\* The backup or the replacement fails: the file is left alone.  There may be
\* nothing to copy any more.
MergeFails(p) ==
    /\ \/ job[p].pc \in {"copy", "rotate", "commit"} /\ Upset
       \/ Doing(p, "copy") /\ Doc(p) = None /\ UNCHANGED upsets
    /\ Onward(p)
    /\ UNCHANGED <<file, present, backups, config, now>>

\* inject_sovereign_rule: the directive after what was read.
AppendRule(p) ==
    /\ Doing(p, "append")
    /\ Write(Here(p).path, Merged(job[p].data, "rule", job[p].cmd))
    /\ present' = present \cup {Here(p).path}
    /\ Onward(p)
    /\ UNCHANGED <<backups, config, upsets>>

\* init_repository_perimeter: a specification that exists is left alone.
Create(p) ==
    /\ Doing(p, "create")
    /\ IF Doc(p) = None THEN job' = [job EXCEPT ![p].pc = "fill", ![p].read = 0] ELSE Onward(p)
    /\ UNCHANGED <<file, present, backups, config, now, upsets>>

\* The files of init, written over what is there.
WriteTemplate(p) ==
    /\ job[p].pc \in {"write", "fill"}
    /\ Write(Here(p).path, Template)
    /\ Onward(p)
    /\ UNCHANGED <<present, backups, config, upsets>>

\* A write_text killed after the file was truncated.
WriteTorn(p) ==
    /\ job[p].pc \in {"append", "write", "fill"}
    /\ Upset
    /\ Write(Here(p).path, Truncated)
    /\ Stop(p)
    /\ UNCHANGED <<present, backups, config>>

\* set_config_value: an unknown key or a value the setting does not accept is refused.
Load(p) ==
    /\ Doing(p, "set")
    /\ IF /\ job[p].cmd.field \in DOMAIN Defaults
          /\ job[p].cmd.value \in Accepts[job[p].cmd.field]
       THEN job' = [job EXCEPT ![p].pc = "save", ![p].read = config.born,
                        ![p].data = WithValue(Loaded, job[p].cmd.field, job[p].cmd.value)]
       ELSE Stop(p)
    /\ UNCHANGED <<file, present, backups, config, now, upsets>>

\* save_config: a temporary file, and os.replace.
Save(p) ==
    /\ Doing(p, "save")
    /\ config' = [settings |-> job[p].data, born |-> now]
    /\ now' = now + 1
    /\ Onward(p)
    /\ UNCHANGED <<file, present, backups, upsets>>

\* The command is killed, or fails for a reason of its own.
Quit(p) ==
    /\ job[p].pc \notin {"new", "done"}
    /\ Upset
    /\ Stop(p)
    /\ UNCHANGED <<file, present, backups, config, now>>

\* An editor, or the user, saves, deletes or restores a file, or spoils config.json.
\* A file restored by cp -p, mv or rsync -a has the modification time it had.
EditorSaves ==
    /\ Upset
    /\ \/ \E edit \in Editors :
             /\ Write(edit.path,
                      IF edit.doc = None THEN None
                      ELSE [edit.doc EXCEPT !.born = now,
                                            !.time = IF edit.restored THEN @ ELSE now])
             /\ UNCHANGED config
       \/ /\ config' = [settings |-> Corrupt, born |-> now]
          /\ now' = now + 1
          /\ UNCHANGED file
    /\ UNCHANGED <<present, backups, job>>

-----------------------------------------------------------------------------
Run(p) == \E cmd \in Commands : Begin(p, cmd)

Work(p) ==
    \/ Turn(p) \/ Read(p) \/ LeaveAlone(p) \/ ReadRaises(p) \/ Name(p) \/ Copy(p)
    \/ Rotate(p) \/ Commit(p) \/ MergeFails(p) \/ AppendRule(p) \/ Create(p)
    \/ WriteTemplate(p) \/ WriteTorn(p) \/ Load(p) \/ Save(p) \/ Quit(p)

InstallerNext == (\E p \in Procs : Run(p) \/ Work(p)) \/ EditorSaves

InstallerSpec == InstallerInit /\ [][InstallerNext]_installerVars

-----------------------------------------------------------------------------
(* Properties                                                              *)

\* What the merge of p is about to replace, as it was when p copied it.
Replacing(p) == Doing(p, "commit") /\ Doc(p) # None /\ Doc(p).born = job[p].copied

InBackup(p) == \E b \in backups[Here(p).path] : b.doc = Doc(p)

(* When a merge is about to replace a file nobody wrote since the backup   *)
(* was taken, what it replaces is in one of the backups: whatever was      *)
(* written between reading the file and copying it is kept there, and      *)
(* neither the rotation of this command nor that of another one on the     *)
(* same file, nor two backups that get the same name, take away the only   *)
(* copy.  There is one exception: rotate_backups goes by modification      *)
(* time, which copy2 keeps, so a file restored with an old time loses its  *)
(* copy when MaxBackups of the backups have that time or a later one.      *)
ReplacedIsBackedUp ==
    \A p \in Procs :
        Replacing(p) =>
            \/ InBackup(p)
            \/ Cardinality({b \in backups[Here(p).path] : b.doc.time >= Doc(p).time}) >= MaxBackups

(* "Snapshot before mutation", without the exception: what a merge is      *)
(* about to replace is in a backup (safe_merge_mcp_config calls it a       *)
(* non-negotiable invariant).                                              *)
SnapshotBeforeMutation == \A p \in Procs : Replacing(p) => InBackup(p)

\* What the step of p does to the file it is at, and to no other.
KeepsContents(p) ==
    LET new == file'[Here(p).path] IN
    job'[p] # job[p] /\ file' # file =>
        /\ \A path \in Paths \ {Here(p).path} : file'[path] = file[path]
        /\ \/ Doc(p) = None
           \/ Doing(p, "write")
           \/ Doing(p, "append") /\ job'[p].pc = "done"
           \/ Doc(p).born # job[p].read
           \/ /\ Doc(p).kind \notin {"broken", "binary"}
              /\ new.other = Doc(p).other
              /\ Doc(p).odd \ new.odd \subseteq Managed(Here(p).how)

\* What the step of p does to config.json.
KeepsSettings(p) ==
    job'[p] # job[p] /\ config' # config =>
        \/ config.settings \in {None, Corrupt}
        \/ config.born # job[p].read
        \/ \A f \in DOMAIN Defaults :
              \/ config'.settings[f] = config.settings[f]
              \/ f = job[p].cmd.field
              \/ job[p].cmd.field = "model" /\ f \in {"input_price", "output_price"}

(* The servers, keys, rules and settings of others stay in the files a     *)
(* command writes (safe_merge_mcp_config, "Preserves all other             *)
(* pre-existing servers"; set_config_value).  The code does not keep them, *)
(* and the formula excuses it, where                                       *)
(*   - the file is one that init writes over whatever is there: .mcp.json, *)
(*     rules.yaml, the laws, SKILL.md, the hook;                           *)
(*   - a rules file is cut short because the command is killed in          *)
(*     write_text, which truncates it first;                               *)
(*   - somebody wrote the file, or config.json, after the command read it  *)
(*     (or saw that it is missing): that write is lost, there is no lock;  *)
(*   - mcpServers is not an object or allowedTools not a list: the key is  *)
(*     replaced with what it held;                                         *)
(*   - config.json could not be read: it is written from the defaults.     *)
(* In every other step of every command nothing of others is lost, and no  *)
(* file is replaced that a merge could not parse.                          *)
OthersAreKept == [][\A p \in Procs : KeepsContents(p) /\ KeepsSettings(p)]_installerVars

=============================================================================
