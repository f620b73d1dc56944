------------------------------- MODULE Rules -------------------------------
(***************************************************************************)
(* The rules files of a workspace (CLAUDE.md, .cursorrules), compiled to   *)
(* guards, the database that keeps manifests, guards and the log of what   *)
(* was enforced, and the enforcer that judges a tool call by its guards.   *)
(*                                                                         *)
(* A content is a record: refused when extraction raises on the text as a  *)
(* whole, and lines, a sequence of items whose kind is "fence", "blank"     *)
(* (empty, comment, or no normative word) or "directive".  A directive has *)
(* its text and what each recogniser of the compiler finds in it, None     *)
(* when nothing.  The identifiers are digests of the fields they are made  *)
(* of; here they are those fields.                                         *)
(***************************************************************************)
EXTENDS Naturals, Sequences, FiniteSets

CONSTANTS
    RuleFiles,      \* resolved paths of the rules files
    Contents,       \* name -> content
    MaxRules,       \* the most clauses a file may have
    Calls,          \* tool calls, as the enforcer reads them
    Garbled,        \* the calls with a token that does not normalise
    Touches,        \* target -> the calls whose tokens match it
    SystemPath,     \* the path the built-in guard is compiled under
    SystemText,     \* its content
    None

VARIABLES
    rulesText,      \* rules file -> name of its content, or None: no such file
    manifests,      \* the manifest ids in the database
    guardRows,      \* guard id -> the manifest it was inserted with
    logRows         \* log id -> verdict

rulesDb == <<manifests, guardRows, logRows>>

-----------------------------------------------------------------------------
(* The compiler.                                                           *)

IsFenced(lines, n) == Cardinality({k \in 1..n : lines[k].kind = "fence"}) % 2 = 1

\* The clauses, by their line; fenced blocks do not count.
PrepareClauses(lines) ==
    {n \in DOMAIN lines : lines[n].kind = "directive" /\ ~IsFenced(lines, n)}

Refuses(content) ==
    \/ content.refused
    \/ Cardinality(PrepareClauses(content.lines)) > MaxRules

Unextractable == {text \in DOMAIN Contents : Refuses(Contents[text])}

ExtractionFails(text) == text \in Unextractable

\* The first recogniser that finds something decides; a conditional directive
\* is enforceable by none of them.
Classify(d) ==
    IF d.conditional THEN None
    ELSE IF d.ast # None THEN d.ast
    ELSE IF d.import # None THEN d.import
    ELSE IF d.backtick # None THEN d.backtick
    ELSE IF d.command # None THEN d.command
    ELSE d.path

\* The recognisers read the text alone.
Directives ==
    UNION {{Contents[text].lines[n] : n \in PrepareClauses(Contents[text].lines)} :
              text \in DOMAIN Contents}

ASSUME DirectivesAssumption ==
    \A d, e \in Directives : d.text = e.text => Classify(d) = Classify(e)

ASSUME ContentsAssumption ==
    \A text \in DOMAIN Contents :
        LET lines == Contents[text].lines IN Len(lines) \in Nat /\ DOMAIN lines = 1..Len(lines)

DeriveGuardId(path, line, directive) == <<path, line, directive.text>>

DeriveManifestId(path, text) == <<path, text>>

\* The clauses that compile: the first that names each enforceable target.
Enforceable(lines) ==
    LET clauses == PrepareClauses(lines) IN
    {n \in clauses : /\ Classify(lines[n]) # None
                     /\ \A k \in clauses : k < n => Classify(lines[k]) # Classify(lines[n])}

\* The built-in text compiles to a guard.
ASSUME SystemAssumption ==
    SystemText \in DOMAIN Contents /\ Enforceable(Contents[SystemText].lines) # {}

\* The i-th member of a set of numbers.
Nth(S, i) == CHOOSE n \in S : Cardinality({m \in S : m <= n}) = i

\* One guard for each of them, in the order of the file.
Guards(path, lines) ==
    LET at(i) == Nth(Enforceable(lines), i) IN
    [i \in 1..Cardinality(Enforceable(lines)) |->
        [id |-> DeriveGuardId(path, at(i), lines[at(i)]), target |-> Classify(lines[at(i)])]]

\* What each content compiles to, wherever it is.
Manifests ==
    {[id |-> DeriveManifestId(path, text),
      guards |-> Guards(path, Contents[text].lines)] :
        path \in RuleFiles \cup {SystemPath}, text \in DOMAIN Contents}

CompileText(path, text) == CHOOSE m \in Manifests : m.id = DeriveManifestId(path, text)

GuardsOf(path, text) == CompileText(path, text).guards

-----------------------------------------------------------------------------
(* The enforcer.                                                           *)

IsPathGuard(g) == g.target.pattern = "PATH_PREFIX"

\* The guards a call runs into, by their place.  A token that does not normalise
\* blocks the call in the name of every path guard there is.
Evaluate(guards, call) ==
    LET paths == {i \in DOMAIN guards : IsPathGuard(guards[i])} IN
    IF call \in Garbled /\ paths # {} THEN paths
    ELSE {i \in DOMAIN guards : call \in Touches[guards[i].target]}

VerdictOn(guards, call) ==
    IF Evaluate(guards, call) = {} THEN "ALLOW" ELSE "BLOCKED"

-----------------------------------------------------------------------------
(* The store.  Each operator is one committed transaction; a transaction    *)
(* the database refuses leaves everything as it was.                       *)

GuardIds(m) == {m.guards[i].id : i \in DOMAIN m.guards}

\* A row of another manifest already has the primary key of a guard of m.
Collides(m) == m.id \notin manifests /\ GuardIds(m) \cap DOMAIN guardRows # {}

PersistManifest(m) ==
    /\ ~Collides(m)
    /\ manifests' = manifests \cup {m.id}
    /\ guardRows' =
          IF m.id \in manifests THEN guardRows
          ELSE [g \in DOMAIN guardRows \cup GuardIds(m) |->
                   IF g \in DOMAIN guardRows THEN guardRows[g] ELSE m.id]

\* Faulty variant: always the first of them.
FirstGuard(guards, call) == guards[1].id

\* The guard an enforcement is logged under.
PrimaryGuard(guards, call) ==
    IF VerdictOn(guards, call) = "BLOCKED"
    THEN guards[Nth(Evaluate(guards, call), 1)].id
    ELSE guards[1].id

LogId(guards, call, seq) == <<PrimaryGuard(guards, call), call, seq>>

IsLogged(guards, call) == PrimaryGuard(guards, call) \in DOMAIN guardRows

\* INSERT ... ON CONFLICT DO NOTHING, and nothing at all for a guard that has
\* no row.
LogVerdict(guards, call, seq) ==
    LET id == LogId(guards, call, seq) IN
    logRows' = IF ~IsLogged(guards, call) THEN logRows
               ELSE [l \in DOMAIN logRows \cup {id} |->
                        IF l \in DOMAIN logRows THEN logRows[l]
                        ELSE VerdictOn(guards, call)]

-----------------------------------------------------------------------------
RulesInit ==
    /\ rulesText \in [RuleFiles -> DOMAIN Contents \cup {None}]
    /\ manifests = {}
    /\ guardRows = [g \in {} |-> None]
    /\ logRows = [l \in {} |-> None]

\* The user, or a tool, saves a rules file.
EditRules(f, text) ==
    /\ rulesText[f] # text
    /\ rulesText' = [rulesText EXCEPT ![f] = text]
    /\ UNCHANGED rulesDb

=============================================================================
