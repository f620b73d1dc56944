------------------------------ MODULE Firewall ------------------------------
(***************************************************************************)
(* The context engine (ctxfw.core.topological) with its caches: a build    *)
(* scans a project for its imports, measures how far each module is from   *)
(* the target, shows the near ones pruned according to their distance and  *)
(* lists the symbols of the far ones.  Engines, one per process, share the *)
(* database of the semantic cache and its symbol index; each has its own   *)
(* first level.  Files are saved while a build reads them.                 *)
(*                                                                         *)
(* A module is its path, a sequence of names without the suffix: the file  *)
(* pkg/a.py is <<"pkg", "a">>.  Texts names the texts a module may have:   *)
(* whether it parses or is blank, its imports, its public symbols, the     *)
(* marker of a dynamic namespace first.  An import is [level, module,      *)
(* names], names empty for the import statement; a view of a text is what  *)
(* the pruner makes of it.                                                 *)
(***************************************************************************)
EXTENDS Naturals, Sequences, FiniteSets

CONSTANTS
    Engines,
    Projects,
    WorkspaceOf,    \* project -> the workspace its root is in
    Order,          \* the paths a project may have, in alphabetical order
    Ignored,        \* names of directories that are not scanned
    Texts,
    Layouts,        \* what the projects may hold at the beginning
    Requests,       \* the builds asked for: project, target, mode, tripped, and
                    \*   what the configuration file and the environment say
    Saves,          \* the saves there may be: project, module and text, None
                    \*   when the file is removed
    MaxParse,       \* 20: the most modules parsed inline for one manifest
    MaxManifest,    \* the ceiling of the manifest, in symbols and lines
    MinDistractors, MaxDistractors, \* the range of the distractor budget
    DefaultDistractors,
    MaxBuilds,      \* bound: builds
    MaxSaves,       \* bound: files saved or removed
    MaxFaults,      \* bound: transactions the database refuses
    Malformed,
    None

VARIABLES
    files,      \* project -> path -> the name of its text, or None
    mtime,      \* project -> path -> when it was saved
    clock,      \* the time of the last save
    tokens,     \* the semantic cache: key -> view
    index,      \* the symbol index: key -> [mtime, symbols]
    l1,         \* engine -> its first level of the semantic cache
    l1Index,    \* engine -> its first level of the symbol index
    build,      \* engine -> the build it is at, or the last one
    builds,     \* how many were begun
    faults      \* how many transactions were refused

vars == <<files, mtime, clock, tokens, index, l1, l1Index, build, builds, faults>>
disk == <<files, mtime, clock>>
caches == <<tokens, index, l1, l1Index>>

Paths == {Order[k] : k \in DOMAIN Order}

ASSUME OrderAssumption == Len(Order) \in Nat /\ DOMAIN Order = 1..Len(Order)
ASSUME LayoutsAssumption == Layouts \subseteq [Projects -> [Paths -> DOMAIN Texts \cup {None}]]
ASSUME RequestsAssumption == \A asked \in Requests : asked.project \in Projects
ASSUME SavesAssumption ==
    \A w \in Saves : w.project \in Projects /\ w.module \in Paths
                     /\ w.text \in DOMAIN Texts \cup {None}

Files(p) == {m \in Paths : files[p][m] # None}

-----------------------------------------------------------------------------
(* Imports.                                                                *)

\* A module name, looked up from a directory: a file, a package, or the file
\* that its last part is a name of.
ResolveCandidate(found, base, name) ==
    LET package == base \o name \o <<"__init__">>
        prefix == base \o SubSeq(name, 1, Len(name) - 1)
    IN IF base \o name \in found THEN base \o name
       ELSE IF package \in found THEN package
       ELSE IF Len(name) > 1 /\ prefix \in found THEN prefix
       ELSE None

\* From the directory of the importing file up to the root of the project.
ResolveInHierarchy(found, m, name) ==
    LET hits == {k \in 0..(Len(m) - 1) :
                    ResolveCandidate(found, SubSeq(m, 1, k), name) # None}
    IN IF hits = {} THEN None
       ELSE ResolveCandidate(found,
                             SubSeq(m, 1, CHOOSE k \in hits : \A h \in hits : h <= k), name)

\* A dot more than there are directories leaves the project.
VisitRelative(found, m, i) ==
    LET base == SubSeq(m, 1, Len(m) - i.level)
    IN IF i.level > Len(m) THEN {}
       ELSE IF i.module # <<>> THEN {ResolveCandidate(found, base, i.module)}
       ELSE {ResolveCandidate(found, base, <<n>>) : n \in i.names}

\* from package import name: the names are looked at only when the package is
\* nothing by itself.
VisitAbsolute(found, m, i) ==
    LET module == ResolveInHierarchy(found, m, i.module)
    IN IF module # None THEN {module}
       ELSE {ResolveInHierarchy(found, m, Append(i.module, n)) : n \in i.names}

\* A text that does not parse imports nothing.
ExtractFromFile(found, m, text) ==
    LET imports == IF Texts[text].parses THEN Texts[text].imports ELSE {}
    IN (UNION {IF i.level > 0 THEN VisitRelative(found, m, i) ELSE VisitAbsolute(found, m, i)
                 : i \in imports}) \ {m, None}

Scanned(m) == \A k \in DOMAIN m : m[k] \notin Ignored

BuildGraph(p) ==
    [m \in Paths |-> IF m \in Files(p) /\ Scanned(m)
                     THEN ExtractFromFile(Files(p), m, files[p][m]) ELSE {}]

-----------------------------------------------------------------------------
(* Distances.                                                              *)

Listed(S) == CHOOSE q \in [1..Cardinality(S) -> S] : \A m \in S : \E k \in DOMAIN q : q[k] = m

\* Faulty variant: what was met last is looked at first.
ExpandDeep(adjacency, st) ==
    LET m == Head(st.queue)
        met == {n \in adjacency[m] : n \notin DOMAIN st.dist}
    IN [dist |-> [n \in DOMAIN st.dist \cup met |->
                     IF n \in met THEN st.dist[m] + 1 ELSE st.dist[n]],
        queue |-> Listed(met) \o Tail(st.queue)]

\* The module at the head of the queue gives its neighbours, those that were
\* not met before, one more step than its own.
Expand(adjacency, st) ==
    LET m == Head(st.queue)
        met == {n \in adjacency[m] : n \notin DOMAIN st.dist}
    IN [dist |-> [n \in DOMAIN st.dist \cup met |->
                     IF n \in met THEN st.dist[m] + 1 ELSE st.dist[n]],
        queue |-> Tail(st.queue) \o Listed(met)]

\* The search after so many looks at the queue.
Search(adjacency, target) ==
    LET run[k \in 0..Cardinality(Paths)] ==
            IF k = 0 THEN [dist |-> [m \in {target} |-> 0], queue |-> <<target>>]
            ELSE LET st == run[k - 1]
                 IN IF st.queue = <<>> THEN st ELSE Expand(adjacency, st)
    IN run

\* Every module is queued once.
GetDistances(adjacency, target) == Search(adjacency, target)[Cardinality(Paths)].dist

-----------------------------------------------------------------------------
(* The depth configuration.  A raw setting is absent (None), a number or   *)
(* Malformed.                                                              *)

Canonical == [max_depth |-> 2, ambient |-> FALSE, distractors |-> DefaultDistractors,
              clamping |-> TRUE, stale |-> TRUE]

\* A depth out of range, or no number, is taken as 2.
Sanitized(raw) == IF raw = None THEN None ELSE IF raw \in 0..3 THEN raw ELSE 2

Clamped(n) == IF n < MinDistractors THEN MinDistractors
              ELSE IF n > MaxDistractors THEN MaxDistractors ELSE n

Either(a, b) == IF a # None THEN a ELSE b

\* The environment goes before the file.  A budget that is no number is ignored
\* there, but in the file a budget out of range refuses the whole configuration.
LoadDepthConfig(rc, env) ==
    LET depth == Either(Sanitized(env.max_depth), Sanitized(rc.max_depth))
        fromEnv == IF env.distractors \in Nat THEN Clamped(env.distractors) ELSE None
        distractors == Either(fromEnv, rc.distractors)
        ambient == Either(env.ambient, rc.ambient)
        valid == distractors = None \/ distractors \in MinDistractors..MaxDistractors
    IN IF ~valid THEN Canonical
       ELSE [max_depth |-> Either(depth, 2),
             ambient |-> Either(ambient, depth = 3),
             distractors |-> Either(distractors, DefaultDistractors),
             clamping |-> Either(env.clamping, Either(rc.clamping, TRUE)),
             stale |-> Either(env.stale, Either(rc.stale, TRUE))]

-----------------------------------------------------------------------------
(* What becomes of each module.                                            *)

\* "symbols", "skip" or "view".
Route(cfg, tripped, d) ==
    IF tripped /\ d >= 2 THEN "symbols"
    ELSE IF cfg.max_depth <= 1 /\ d > cfg.max_depth THEN "skip"
    ELSE IF (cfg.max_depth = 3 \/ cfg.ambient) /\ d = 3 THEN "symbols"
    ELSE IF cfg.max_depth = 3 /\ d > 3 THEN "skip" ELSE "view"

DepthOf(tripped, d) ==
    IF d = 0 THEN "full" ELSE IF d = 1 /\ ~tripped THEN "interface" ELSE "nominal"

StripDocs(tripped, d) == tripped /\ d > 0

\* The pruner; a text it refuses is shown as it is.
Prune(text, depth, strip) ==
    IF depth = "full" \/ Texts[text].blank \/ ~Texts[text].parses
    THEN [text |-> text, depth |-> "full", strip |-> FALSE]
    ELSE [text |-> text, depth |-> depth, strip |-> strip]

\* Faulty variant: the depth is not part of the key.
GenerateKeyOfText(text, strip, depth) == <<text, strip, "any">>

GenerateKey(text, strip, depth) == <<text, strip, depth>>

\* By distance and then by name.
InOrder(dist, S) ==
    LET place(m) == CHOOSE k \in DOMAIN Order : Order[k] = m
        less(a, b) == dist[a] < dist[b] \/ (dist[a] = dist[b] /\ place(a) < place(b))
        rank(m) == Cardinality({n \in S : less(n, m)}) + 1
    IN [k \in 1..Cardinality(S) |-> CHOOSE m \in S : rank(m) = k]

-----------------------------------------------------------------------------
(* A build.                                                                *)

Empty == [k \in {} |-> None]

NoBuild == [pc |-> "idle", asked |-> None, cfg |-> Canonical, graph |-> Empty,
            dist |-> Empty, order |-> <<>>, cands |-> <<>>, entries |-> Empty,
            pending |-> None, cached |-> Empty, lines |-> <<>>, parsed |-> 0,
            stat |-> 0, records |-> Empty]

Put(f, k, v) == [x \in DOMAIN f \cup {k} |-> IF x = k THEN v ELSE f[x]]

\* Values of g go before those of f.
Over(f, g) == [x \in DOMAIN f \cup DOMAIN g |-> IF x \in DOMAIN g THEN g[x] ELSE f[x]]

At(e, pc) == build[e].pc = pc

Project(e) == build[e].asked.project

Fault == faults < MaxFaults /\ faults' = faults + 1

\* Where a build goes on: the modules to view, then those to list, then the
\* symbols to keep.
Advance(b) ==
    [b EXCEPT !.pc = IF b.order # <<>> THEN "visiting"
                     ELSE IF b.cands = <<>> THEN "done" ELSE "fetching"]

AdvanceList(b) ==
    [b EXCEPT !.pc = IF b.cands # <<>> THEN "listing"
                     ELSE IF DOMAIN b.records # {} THEN "indexing" ELSE "done"]

Update(e, b) == build' = [build EXCEPT ![e] = b]

\* The exception leaves build_context: there is no bundle.
Fails(e) == Update(e, [build[e] EXCEPT !.pc = "failed"])

\* The engine is made for the call, so the scan is always a new one.
Begin(e, asked) ==
    /\ build[e].pc \in {"idle", "done", "failed"}
    /\ builds < MaxBuilds
    /\ asked.target \in Files(asked.project)
    /\ builds' = builds + 1
    /\ LET graph == BuildGraph(asked.project)
           dist == GetDistances(graph, asked.target)
           cfg == LoadDepthConfig(asked.rc, asked.env)
           routed(r) == InOrder(dist, {m \in DOMAIN dist :
                                          Route(cfg, asked.tripped, dist[m]) = r})
       IN Update(e, Advance([NoBuild EXCEPT
             !.asked = asked, !.cfg = cfg, !.graph = graph, !.dist = dist,
             !.order = routed("view"), !.cands = routed("symbols")]))
    /\ UNCHANGED <<disk, caches, faults>>

Shown(b, m, text, view) ==
    Advance([b EXCEPT !.order = Tail(@), !.pending = None,
                      !.entries = Put(@, m, [text |-> text, view |-> view])])

\* One module is read, and looked up by what was read.
Visit(e) ==
    /\ At(e, "visiting")
    /\ LET b == build[e]
           m == Head(b.order)
           text == files[Project(e)][m]
           depth == DepthOf(b.asked.tripped, b.dist[m])
           strip == StripDocs(b.asked.tripped, b.dist[m])
           key == GenerateKey(text, strip, depth)
       IN \/ /\ text = None
             /\ Update(e, Advance([b EXCEPT !.order = Tail(@)]))
             /\ UNCHANGED l1
          \/ /\ text # None
             /\ b.asked.mode = "passthrough"
             /\ Update(e, Shown(b, m, text, Prune(text, "full", FALSE)))
             /\ UNCHANGED l1
          \/ /\ text # None
             /\ b.asked.mode # "passthrough"
             /\ IF ~Texts[text].blank /\ key \in DOMAIN l1[e] \cup DOMAIN tokens
                THEN LET view == Over(tokens, l1[e])[key]
                     IN /\ Update(e, Shown(b, m, text, view))
                        /\ l1' = [l1 EXCEPT ![e] = Put(@, key, view)]
                ELSE /\ Update(e, [b EXCEPT !.pc = "storing",
                                            !.pending = [text |-> text, key |-> key,
                                                         view |-> Prune(text, depth, strip)]])
                     /\ UNCHANGED l1
    /\ UNCHANGED <<disk, tokens, index, l1Index, builds, faults>>

\* LocalSemanticCache.set: the first level comes before the transaction, and a
\* transaction that is refused ends the build.
Store(e) ==
    /\ At(e, "storing")
    /\ LET b == build[e]
           w == b.pending
       IN /\ l1' = [l1 EXCEPT ![e] = Put(@, w.key, w.view)]
          /\ \/ /\ tokens' = Put(tokens, w.key, w.view)
                /\ Update(e, Shown(b, Head(b.order), w.text, w.view))
                /\ UNCHANGED faults
             \/ /\ Fault
                /\ Fails(e)
                /\ UNCHANGED tokens
    /\ UNCHANGED <<disk, index, l1Index, builds>>

-----------------------------------------------------------------------------
(* The ambient manifest.                                                   *)

\* Faulty variant: the workspace is not part of the key.
D3KeyOfPath(p, m) == m

\* By the workspace, which two roots in one repository have in common.
D3ScopedKey(p, m) == <<WorkspaceOf[p], m>>

\* Only modules at the root, and those of the packages that are shown.
InPerimeter(b, m) ==
    LET shown == {Head(n) : n \in {n \in DOMAIN b.entries : Len(n) > 1}}
    IN b.cfg.clamping /\ shown # {} => Len(m) = 1 \/ Head(m) \in shown

\* get_d3_symbols_batch; what the database gives is remembered.
Fetch(e) ==
    /\ At(e, "fetching")
    /\ LET b == build[e]
           valid == SelectSeq(b.cands, LAMBDA m : InPerimeter(b, m))
           key(m) == D3ScopedKey(Project(e), m)
           known == Over(index, l1Index[e])
           kept == {k \in DOMAIN valid : key(valid[k]) \in DOMAIN known}
       IN /\ l1Index' = [l1Index EXCEPT ![e] =
                Over(@, [x \in {key(valid[k]) : k \in kept} |-> known[x]])]
          /\ Update(e, AdvanceList([b EXCEPT
                !.cands = valid,
                !.cached = [m \in {valid[k] : k \in kept} |-> known[key(m)]]]))
    /\ UNCHANGED <<disk, tokens, index, l1, builds, faults>>

\* The database refuses to be read; what the first level holds is not asked of it.
LookupFails(e) ==
    /\ LET b == build[e] IN
       \/ /\ At(e, "visiting")
          /\ b.asked.mode # "passthrough"
          /\ LET m == Head(b.order)
                 text == files[Project(e)][m]
             IN /\ text # None /\ ~Texts[text].blank
                /\ GenerateKey(text, StripDocs(b.asked.tripped, b.dist[m]),
                               DepthOf(b.asked.tripped, b.dist[m])) \notin DOMAIN l1[e]
       \/ /\ At(e, "fetching")
          /\ \E k \in DOMAIN b.cands :
                /\ InPerimeter(b, b.cands[k])
                /\ D3ScopedKey(Project(e), b.cands[k]) \notin DOMAIN l1Index[e]
    /\ Fault
    /\ Fails(e)
    /\ UNCHANGED <<disk, caches, builds>>

\* A text that does not parse has an open namespace and nothing else.
Symbols(text) == IF Texts[text].parses THEN Texts[text].symbols ELSE <<"dynamic">>

Total(lines) ==
    LET sum[k \in 0..Len(lines)] == IF k = 0 THEN 0 ELSE sum[k - 1] + Len(lines[k].symbols)
    IN sum[Len(lines)]

\* The next line of the manifest: as many symbols as the budget has room for;
\* no room, or a line past the ceiling, ends the manifest.
AddLine(b, symbols) ==
    LET room == b.cfg.distractors - Total(b.lines)
        shown == SubSeq(symbols, 1, IF Len(symbols) > room THEN room ELSE Len(symbols))
        size == Total(b.lines) + Len(b.lines) + Len(shown) + 1
    IN IF room <= 0 \/ size > MaxManifest
       THEN AdvanceList([b EXCEPT !.cands = <<>>])
       ELSE AdvanceList([b EXCEPT !.cands = Tail(@),
                !.lines = Append(@, [module |-> Head(b.cands), symbols |-> shown])])

\* The time of the file decides whether what is known of it may be used.  After
\* MaxParse texts the rest is listed as it was once known, or not at all.
Stat(e) ==
    /\ At(e, "listing")
    /\ LET b == build[e]
           m == Head(b.cands)
           now == mtime[Project(e)][m]
           known == m \in DOMAIN b.cached
       IN IF files[Project(e)][m] = None
          THEN Update(e, AdvanceList([b EXCEPT !.cands = Tail(@)]))
          ELSE IF known /\ b.cached[m].mtime = now
          THEN Update(e, AddLine(b, b.cached[m].symbols))
          ELSE IF b.parsed < MaxParse
          THEN Update(e, [b EXCEPT !.pc = "parsing", !.stat = now])
          ELSE IF b.cfg.stale /\ known
          THEN Update(e, AddLine(b, b.cached[m].symbols))
          ELSE Update(e, AdvanceList([b EXCEPT !.cands = <<>>]))
    /\ UNCHANGED <<disk, caches, builds, faults>>

\* The text is read after its time was; a file that is gone ends the build.
Parse(e) ==
    /\ At(e, "parsing")
    /\ LET b == build[e]
           m == Head(b.cands)
           text == files[Project(e)][m]
       IN IF text = None THEN Fails(e)
          ELSE Update(e, AddLine([b EXCEPT
                  !.parsed = @ + 1,
                  !.records = Put(@, m, [mtime |-> b.stat, symbols |-> Symbols(text)])],
                  Symbols(text)))
    /\ UNCHANGED <<disk, caches, builds, faults>>

\* set_d3_symbols_batch, in one transaction.
StoreIndex(e) ==
    /\ At(e, "indexing")
    /\ LET b == build[e]
           new == [x \in {D3ScopedKey(Project(e), m) : m \in DOMAIN b.records} |->
                      b.records[CHOOSE m \in DOMAIN b.records : D3ScopedKey(Project(e), m) = x]]
       IN /\ l1Index' = [l1Index EXCEPT ![e] = Over(@, new)]
          /\ \/ /\ index' = Over(index, new)
                /\ Update(e, [b EXCEPT !.pc = "done"])
                /\ UNCHANGED faults
             \/ /\ Fault
                /\ Fails(e)
                /\ UNCHANGED index
    /\ UNCHANGED <<disk, tokens, l1, builds>>

-----------------------------------------------------------------------------
(* Around it.                                                              *)

\* A file is saved or, with None, removed.
Save(p, m, text) ==
    /\ clock < MaxSaves
    /\ files[p][m] # text
    /\ clock' = clock + 1
    /\ files' = [files EXCEPT ![p][m] = text]
    /\ mtime' = [mtime EXCEPT ![p][m] = clock + 1]
    /\ UNCHANGED <<caches, build, builds, faults>>

\* The process ends and a new one takes its place.
Restart(e) ==
    /\ l1' = [l1 EXCEPT ![e] = Empty]
    /\ l1Index' = [l1Index EXCEPT ![e] = Empty]
    /\ Update(e, NoBuild)
    /\ UNCHANGED <<disk, tokens, index, builds, faults>>

Init ==
    /\ files \in Layouts
    /\ mtime = [p \in Projects |-> [m \in Paths |-> 0]]
    /\ clock = 0
    /\ tokens = Empty
    /\ index = Empty
    /\ l1 = [e \in Engines |-> Empty]
    /\ l1Index = [e \in Engines |-> Empty]
    /\ build = [e \in Engines |-> NoBuild]
    /\ builds = 0
    /\ faults = 0

Next ==
    \/ \E e \in Engines : \/ \E asked \in Requests : Begin(e, asked)
                          \/ Visit(e) \/ Store(e)
                          \/ Fetch(e) \/ LookupFails(e) \/ Stat(e) \/ Parse(e) \/ StoreIndex(e)
                          \/ Restart(e)
    \/ \E w \in Saves : Save(w.project, w.module, w.text)

Spec == Init /\ [][Next]_vars

-----------------------------------------------------------------------------
(* Properties.                                                             *)

Within(graph, target) ==
    LET ball[k \in 0..Cardinality(Paths)] ==
            IF k = 0 THEN {target}
            ELSE LET nearer == ball[k - 1] IN nearer \cup UNION {graph[m] : m \in nearer}
    IN ball

\* A module has the length of the shortest chain of imports from the target as
\* its distance, and has one exactly when there is a chain: also when imports
\* form cycles and diamonds (topological.py:158-188).
DistancesAreShortest ==
    \A e \in Engines : build[e].pc # "idle" =>
        LET b == build[e]
            ball == Within(b.graph, b.asked.target)
        IN /\ DOMAIN b.dist = ball[Cardinality(Paths)]
           /\ \A m \in DOMAIN b.dist :
                 /\ m \in ball[b.dist[m]]
                 /\ b.dist[m] > 0 => m \notin ball[b.dist[m] - 1]

\* What a bundle shows of a module is the view, at the depth of its distance, of
\* the text that was read of it: never the view of another text or another
\* depth, although modules, projects and processes share one cache, and texts
\* that cannot be parsed are kept in it as they are (topological.py:524-575).
EntriesAreViews ==
    \A e \in Engines : \A m \in DOMAIN build[e].entries :
        LET b == build[e]
            text == b.entries[m].text
        IN b.entries[m].view =
              IF b.asked.mode = "passthrough" THEN Prune(text, "full", FALSE)
              ELSE Prune(text, DepthOf(b.asked.tripped, b.dist[m]),
                         StripDocs(b.asked.tripped, b.dist[m]))

\* Whatever is indexed of a file under its present time are the symbols of its
\* present text: although the file may be saved between the stat and the read,
\* another process may index it at the same time, and workspaces have files of
\* the same path (topological.py:613-677, cache.py:314-403).
IndexIsCurrent ==
    \A p \in Projects : \A m \in Files(p) :
        LET key == D3ScopedKey(p, m)
            current(known) == key \in DOMAIN known /\ known[key].mtime = mtime[p][m]
                              => known[key].symbols = Symbols(files[p][m])
        IN current(index) /\ \A e \in Engines : current(l1Index[e])

=============================================================================
