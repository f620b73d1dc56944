--------------------------- MODULE Firewall_proofs ---------------------------
(***************************************************************************)
(* Theorems about Firewall for every project, layout of files, request and *)
(* sequence of saves, and any number of engines.                           *)
(***************************************************************************)
EXTENDS Firewall, Induction

-----------------------------------------------------------------------------
(* Builds as records *)

BuildFields ==
    {"pc", "asked", "cfg", "graph", "dist", "order", "cands", "entries", "pending", "cached",
     "lines", "parsed", "stat", "records"}

IsBuild(b) == DOMAIN b = BuildFields

\* The fields that say what a build is about and has found so far.
Kept(b, c) ==
    /\ c.asked = b.asked /\ c.cfg = b.cfg /\ c.graph = b.graph /\ c.dist = b.dist
    /\ c.stat = b.stat

Files0(b, c) == c.entries = b.entries /\ c.records = b.records /\ c.pending = b.pending

\* Going on with a build changes nothing but its stage.
LEMMA AdvanceKeeps ==
  ASSUME NEW b, IsBuild(b)
  PROVE  /\ IsBuild(Advance(b)) /\ Kept(b, Advance(b)) /\ Files0(b, Advance(b))
         /\ Advance(b).pc \in {"visiting", "done", "fetching"}
         /\ Advance(b).order = b.order /\ Advance(b).cands = b.cands
BY DEF Advance, IsBuild, BuildFields, Kept, Files0

LEMMA AdvanceListKeeps ==
  ASSUME NEW b, IsBuild(b)
  PROVE  /\ IsBuild(AdvanceList(b)) /\ Kept(b, AdvanceList(b)) /\ Files0(b, AdvanceList(b))
         /\ AdvanceList(b).pc \in {"listing", "indexing", "done"}
BY DEF AdvanceList, IsBuild, BuildFields, Kept, Files0

LEMMA AddLineKeeps ==
  ASSUME NEW b, IsBuild(b), NEW symbols
  PROVE  /\ IsBuild(AddLine(b, symbols)) /\ Kept(b, AddLine(b, symbols))
         /\ Files0(b, AddLine(b, symbols))
         /\ AddLine(b, symbols).pc \in {"listing", "indexing", "done"}
<1>1. ASSUME NEW c, IsBuild(c), Kept(b, c), Files0(b, c)
      PROVE  /\ IsBuild(AdvanceList(c)) /\ Kept(b, AdvanceList(c)) /\ Files0(b, AdvanceList(c))
             /\ AdvanceList(c).pc \in {"listing", "indexing", "done"}
  BY <1>1, AdvanceListKeeps DEF Kept, Files0
<1>2. LET c == [b EXCEPT !.cands = <<>>] IN IsBuild(c) /\ Kept(b, c) /\ Files0(b, c)
  BY DEF IsBuild, BuildFields, Kept, Files0
<1>3. ASSUME NEW line
      PROVE  LET c == [b EXCEPT !.cands = Tail(@), !.lines = Append(@, line)]
             IN  IsBuild(c) /\ Kept(b, c) /\ Files0(b, c)
  BY DEF IsBuild, BuildFields, Kept, Files0
<1> QED
  BY <1>1, <1>2, <1>3 DEF AddLine

-----------------------------------------------------------------------------
(* The shapes of the state *)

Shapes ==
    /\ clock \in Nat
    /\ files \in [Projects -> [Paths -> DOMAIN Texts \cup {None}]]
    /\ mtime \in [Projects -> [Paths -> 0 .. clock]]
    /\ DOMAIN l1 = Engines /\ DOMAIN l1Index = Engines /\ DOMAIN build = Engines
    /\ \A e \in Engines :
          /\ IsBuild(build[e])
          /\ build[e].pc # "idle" => build[e].asked \in Requests
          /\ build[e].pc = "idle" => build[e] = NoBuild

\* A build is about one request and one measure of its graph from Begin on.
GoesOn(b, c) ==
    /\ IsBuild(c) /\ c.pc # "idle"
    /\ c.asked = b.asked /\ c.cfg = b.cfg /\ c.graph = b.graph /\ c.dist = b.dist

\* What the step of one engine does to the builds.
LEMMA Updated ==
  ASSUME NEW e \in Engines, DOMAIN build = Engines, NEW b, Update(e, b)
  PROVE  /\ DOMAIN build' = Engines /\ build'[e] = b
         /\ \A f \in Engines \ {e} : build'[f] = build[f]
BY DEF Update

LEMMA FailsGoesOn ==
  ASSUME Shapes, NEW e \in Engines, Fails(e)
  PROVE  /\ DOMAIN build' = Engines /\ GoesOn(build[e], build'[e])
         /\ build'[e].pc = "failed"
         /\ Files0(build[e], build'[e])
         /\ \A f \in Engines \ {e} : build'[f] = build[f]
<1>1. /\ DOMAIN build' = Engines /\ build'[e] = [build[e] EXCEPT !.pc = "failed"]
      /\ \A f \in Engines \ {e} : build'[f] = build[f]
  BY Updated DEF Fails, Shapes
<1>2. IsBuild(build[e])
  BY DEF Shapes
<1> QED
  BY <1>1, <1>2 DEF GoesOn, Files0, IsBuild, BuildFields

Shows(b, c, m, text, view) ==
    /\ GoesOn(b, c)
    /\ c.pc \in {"visiting", "done", "fetching"}
    /\ c.entries = Put(b.entries, m, [text |-> text, view |-> view])
    /\ c.records = b.records

LEMMA ShownGoesOn ==
  ASSUME NEW b, IsBuild(b), NEW m, NEW text, NEW view
  PROVE  Shows(b, Shown(b, m, text, view), m, text, view)
<1> DEFINE c == [b EXCEPT !.order = Tail(@), !.pending = None,
                          !.entries = Put(@, m, [text |-> text, view |-> view])]
<1>1. /\ IsBuild(c) /\ Kept(b, c) /\ c.records = b.records
      /\ c.entries = Put(b.entries, m, [text |-> text, view |-> view])
  BY DEF IsBuild, BuildFields, Kept
<1> HIDE DEF c
<1>2. /\ IsBuild(Advance(c)) /\ Kept(c, Advance(c)) /\ Files0(c, Advance(c))
      /\ Advance(c).pc \in {"visiting", "done", "fetching"}
  BY <1>1, AdvanceKeeps
<1>3. Shown(b, m, text, view) = Advance(c)
  BY DEF Shown, c
<1>4. \A pc \in {"visiting", "done", "fetching"} : pc # "idle"
  OBVIOUS
<1> QED
  BY <1>1, <1>2, <1>3, <1>4 DEF Kept, Files0, GoesOn, Shows

\* How each action of a build, Begin and Restart apart, changes the builds.
LEMMA VisitGoesOn ==
  ASSUME Shapes, NEW e \in Engines, Visit(e)
  PROVE  /\ DOMAIN build' = Engines /\ GoesOn(build[e], build'[e])
         /\ build'[e].records = build[e].records
         /\ build'[e].pc \in {"visiting", "done", "fetching", "storing"}
         /\ \A f \in Engines \ {e} : build'[f] = build[f]
<1> DEFINE b == build[e]
           m == Head(b.order)
           text == files[Project(e)][m]
           depth == DepthOf(b.asked.tripped, b.dist[m])
           strip == StripDocs(b.asked.tripped, b.dist[m])
           key == GenerateKey(text, strip, depth)
<1>0. IsBuild(b) /\ DOMAIN build = Engines
  BY DEF Shapes
<1>a. ASSUME NEW c, Update(e, c), GoesOn(b, c), c.records = b.records,
             c.pc \in {"visiting", "done", "fetching", "storing"}
      PROVE  /\ DOMAIN build' = Engines /\ GoesOn(build[e], build'[e])
             /\ build'[e].records = build[e].records
             /\ build'[e].pc \in {"visiting", "done", "fetching", "storing"}
             /\ \A f \in Engines \ {e} : build'[f] = build[f]
  BY <1>a, <1>0, Updated
<1>1. CASE Update(e, Advance([b EXCEPT !.order = Tail(@)]))
  <2> DEFINE c == [b EXCEPT !.order = Tail(@)]
  <2>1. IsBuild(c) /\ Kept(b, c) /\ c.records = b.records
    BY <1>0 DEF IsBuild, BuildFields, Kept
  <2> HIDE DEF c
  <2>2. /\ IsBuild(Advance(c)) /\ Kept(c, Advance(c)) /\ Files0(c, Advance(c))
        /\ Advance(c).pc \in {"visiting", "done", "fetching"}
    BY <2>1, AdvanceKeeps
  <2>3. GoesOn(b, Advance(c))
    BY <2>1, <2>2 DEF GoesOn, Kept
  <2> QED
    BY <1>1, <1>a, <2>1, <2>2, <2>3 DEF Files0, c
<1>2. CASE \E v : Update(e, Shown(b, m, text, v))
  <2>1. PICK v : Update(e, Shown(b, m, text, v))
    BY <1>2
  <2> HIDE DEF b, m, text
  <2>2. Shows(b, Shown(b, m, text, v), m, text, v)
    BY <1>0, ShownGoesOn
  <2> QED
    BY <1>a, <2>1, <2>2 DEF Shows
<1>3. CASE \E w : Update(e, [b EXCEPT !.pc = "storing", !.pending = w])
  <2>1. PICK w : Update(e, [b EXCEPT !.pc = "storing", !.pending = w])
    BY <1>3
  <2> DEFINE c == [b EXCEPT !.pc = "storing", !.pending = w]
  <2>2. GoesOn(b, c) /\ c.records = b.records /\ c.pc = "storing"
    BY <1>0 DEF GoesOn, IsBuild, BuildFields
  <2> HIDE DEF c
  <2> QED
    BY <1>a, <2>1, <2>2 DEF c
<1> QED
  BY <1>1, <1>2, <1>3 DEF Visit

LEMMA StoreGoesOn ==
  ASSUME Shapes, NEW e \in Engines, Store(e)
  PROVE  /\ DOMAIN build' = Engines /\ GoesOn(build[e], build'[e])
         /\ build'[e].records = build[e].records
         /\ build'[e].pc \in {"visiting", "done", "fetching", "failed"}
         /\ \A f \in Engines \ {e} : build'[f] = build[f]
<1> DEFINE b == build[e]
<1>0. IsBuild(b) /\ DOMAIN build = Engines
  BY DEF Shapes
<1>1. CASE \E m, text, view : Update(e, Shown(b, m, text, view))
  <2>1. PICK m, text, view : Update(e, Shown(b, m, text, view))
    BY <1>1
  <2>2. DOMAIN build' = Engines /\ build'[e] = Shown(b, m, text, view)
        /\ \A f \in Engines \ {e} : build'[f] = build[f]
    BY <1>0, <2>1, Updated
  <2> HIDE DEF b
  <2>3. Shows(b, Shown(b, m, text, view), m, text, view)
    BY <1>0, ShownGoesOn
  <2> QED
    BY <2>2, <2>3 DEF b, Shows
<1>2. CASE Fails(e)
  BY <1>2, FailsGoesOn DEF Files0
<1> QED
  BY <1>1, <1>2 DEF Store

LEMMA FetchGoesOn ==
  ASSUME Shapes, NEW e \in Engines, Fetch(e)
  PROVE  /\ DOMAIN build' = Engines /\ GoesOn(build[e], build'[e])
         /\ Files0(build[e], build'[e])
         /\ build'[e].pc \in {"listing", "indexing", "done"}
         /\ \A f \in Engines \ {e} : build'[f] = build[f]
<1> DEFINE b == build[e]
<1>0. IsBuild(b) /\ DOMAIN build = Engines
  BY DEF Shapes
<1>1. PICK cands, cached : Update(e, AdvanceList([b EXCEPT !.cands = cands, !.cached = cached]))
  BY DEF Fetch
<1>2. PICK c : c = [b EXCEPT !.cands = cands, !.cached = cached]
  OBVIOUS
<1>3. IsBuild(c) /\ Kept(b, c) /\ Files0(b, c)
  BY <1>0, <1>2 DEF IsBuild, BuildFields, Kept, Files0
<1>4. /\ IsBuild(AdvanceList(c)) /\ Kept(c, AdvanceList(c)) /\ Files0(c, AdvanceList(c))
      /\ AdvanceList(c).pc \in {"listing", "indexing", "done"}
  BY <1>3, AdvanceListKeeps
<1>5. /\ DOMAIN build' = Engines /\ build'[e] = AdvanceList(c)
      /\ \A f \in Engines \ {e} : build'[f] = build[f]
  BY <1>0, <1>1, <1>2, Updated
<1>6. GoesOn(b, AdvanceList(c)) /\ Files0(b, AdvanceList(c))
  BY <1>3, <1>4 DEF GoesOn, Kept, Files0
<1> QED
  BY <1>4, <1>5, <1>6

\* A module that has to be parsed is noted with the time its file has now.
LEMMA StatGoesOn ==
  ASSUME Shapes, NEW e \in Engines, Stat(e)
  PROVE  /\ DOMAIN build' = Engines /\ GoesOn(build[e], build'[e])
         /\ Files0(build[e], build'[e])
         /\ build'[e].pc \in {"listing", "indexing", "done", "parsing"}
         /\ build'[e].pc = "parsing" =>
               build'[e].stat = mtime[Project(e)][Head(build'[e].cands)]
         /\ \A f \in Engines \ {e} : build'[f] = build[f]
<1> DEFINE b == build[e]
           Result == /\ DOMAIN build' = Engines /\ GoesOn(build[e], build'[e])
                     /\ Files0(build[e], build'[e])
                     /\ build'[e].pc \in {"listing", "indexing", "done", "parsing"}
                     /\ build'[e].pc = "parsing" =>
                           build'[e].stat = mtime[Project(e)][Head(build'[e].cands)]
                     /\ \A f \in Engines \ {e} : build'[f] = build[f]
<1>0. IsBuild(b) /\ DOMAIN build = Engines
  BY DEF Shapes
<1>a. ASSUME NEW c, Update(e, c), IsBuild(c), Kept(b, c), Files0(b, c),
             c.pc \in {"listing", "indexing", "done"}
      PROVE  Result
  <2>1. /\ DOMAIN build' = Engines /\ build'[e] = c
        /\ \A f \in Engines \ {e} : build'[f] = build[f]
    BY <1>0, <1>a, Updated
  <2> QED
    BY <1>a, <2>1 DEF GoesOn, Kept
<1>1. ASSUME NEW cands, Update(e, AdvanceList([b EXCEPT !.cands = cands])) PROVE Result
  <2>1. PICK c : c = [b EXCEPT !.cands = cands]
    OBVIOUS
  <2>2. IsBuild(c) /\ Kept(b, c) /\ Files0(b, c)
    BY <1>0, <2>1 DEF IsBuild, BuildFields, Kept, Files0
  <2>3. /\ IsBuild(AdvanceList(c)) /\ Kept(c, AdvanceList(c)) /\ Files0(c, AdvanceList(c))
        /\ AdvanceList(c).pc \in {"listing", "indexing", "done"}
    BY <2>2, AdvanceListKeeps
  <2>4. Kept(b, AdvanceList(c)) /\ Files0(b, AdvanceList(c))
    BY <2>2, <2>3 DEF Kept, Files0
  <2>5. Update(e, AdvanceList(c))
    BY <1>1, <2>1
  <2> HIDE DEF Result
  <2> QED
    BY <1>a, <2>3, <2>4, <2>5
<1>2. ASSUME NEW symbols, Update(e, AddLine(b, symbols)) PROVE Result
  <2> HIDE DEF Result, b
  <2> QED
    BY <1>0, <1>2, <1>a, AddLineKeeps
<1>3. ASSUME Update(e, [b EXCEPT !.pc = "parsing", !.stat = mtime[Project(e)][Head(b.cands)]])
      PROVE  Result
  <2>1. /\ DOMAIN build' = Engines
        /\ build'[e] = [b EXCEPT !.pc = "parsing", !.stat = mtime[Project(e)][Head(b.cands)]]
        /\ \A f \in Engines \ {e} : build'[f] = build[f]
    BY <1>0, <1>3, Updated
  <2> QED
    BY <1>0, <2>1 DEF GoesOn, Files0, IsBuild, BuildFields
<1> HIDE DEF Result
<1>4. \/ Update(e, AdvanceList([b EXCEPT !.cands = Tail(b.cands)]))
      \/ Update(e, AdvanceList([b EXCEPT !.cands = <<>>]))
      \/ Update(e, AddLine(b, b.cached[Head(b.cands)].symbols))
      \/ Update(e, [b EXCEPT !.pc = "parsing", !.stat = mtime[Project(e)][Head(b.cands)]])
  BY Zenon DEF Stat
<1>5. Result
  BY <1>1, <1>2, <1>3, <1>4
<1> QED
  BY <1>5 DEF Result

\* What a parse adds to the symbols to keep.
LEMMA ParseGoesOn ==
  ASSUME Shapes, NEW e \in Engines, Parse(e)
  PROVE  LET m == Head(build[e].cands)
             text == files[Project(e)][m]
         IN  /\ DOMAIN build' = Engines /\ GoesOn(build[e], build'[e])
             /\ build'[e].entries = build[e].entries /\ build'[e].pending = build[e].pending
             /\ \/ build'[e].records = build[e].records
                \/ /\ text # None
                   /\ build'[e].records = Put(build[e].records, m,
                                              [mtime |-> build[e].stat, symbols |-> Symbols(text)])
             /\ build'[e].pc \in {"listing", "indexing", "done", "failed"}
             /\ \A f \in Engines \ {e} : build'[f] = build[f]
<1> DEFINE b == build[e]
           m == Head(b.cands)
           text == files[Project(e)][m]
           r == Put(b.records, m, [mtime |-> b.stat, symbols |-> Symbols(text)])
<1>0. IsBuild(b) /\ DOMAIN build = Engines
  BY DEF Shapes
<1>1. CASE Fails(e)
  BY <1>1, FailsGoesOn DEF Files0
<1>2. CASE /\ text # None
           /\ Update(e, AddLine([b EXCEPT !.parsed = @ + 1, !.records = r], Symbols(text)))
  <2>1. PICK c : c = [b EXCEPT !.parsed = @ + 1, !.records = r]
    OBVIOUS
  <2>2. /\ IsBuild(c) /\ Kept(b, c) /\ c.records = r /\ c.entries = b.entries
        /\ c.pending = b.pending
    BY <1>0, <2>1 DEF IsBuild, BuildFields, Kept
  <2>3. PICK d : d = AddLine(c, Symbols(text))
    OBVIOUS
  <2>4. IsBuild(d) /\ Kept(c, d) /\ Files0(c, d) /\ d.pc \in {"listing", "indexing", "done"}
    BY <2>2, <2>3, AddLineKeeps
  <2>5. /\ DOMAIN build' = Engines /\ build'[e] = d
        /\ \A f \in Engines \ {e} : build'[f] = build[f]
    BY <1>0, <1>2, <2>1, <2>3, Updated
  <2>6. GoesOn(b, d)
    BY <2>2, <2>4 DEF GoesOn, Kept
  <2> QED
    BY <1>2, <2>2, <2>4, <2>5, <2>6 DEF Files0
<1> QED
  BY <1>1, <1>2 DEF Parse

LEMMA StoreIndexGoesOn ==
  ASSUME Shapes, NEW e \in Engines, StoreIndex(e)
  PROVE  /\ DOMAIN build' = Engines /\ GoesOn(build[e], build'[e])
         /\ Files0(build[e], build'[e])
         /\ build'[e].pc \in {"done", "failed"}
         /\ \A f \in Engines \ {e} : build'[f] = build[f]
<1>0. IsBuild(build[e]) /\ DOMAIN build = Engines
  BY DEF Shapes
<1>1. CASE Update(e, [build[e] EXCEPT !.pc = "done"])
  <2>1. /\ DOMAIN build' = Engines /\ build'[e] = [build[e] EXCEPT !.pc = "done"]
        /\ \A f \in Engines \ {e} : build'[f] = build[f]
    BY <1>0, <1>1, Updated
  <2> QED
    BY <1>0, <2>1 DEF GoesOn, Files0, IsBuild, BuildFields
<1>2. CASE Fails(e)
  BY <1>2, FailsGoesOn
<1> QED
  BY <1>1, <1>2 DEF StoreIndex

\* A build begins with nothing shown and nothing to keep.
LEMMA BeginStarts ==
  ASSUME Shapes, NEW e \in Engines, NEW asked \in Requests, Begin(e, asked)
  PROVE  /\ DOMAIN build' = Engines /\ IsBuild(build'[e])
         /\ build'[e].asked = asked
         /\ build'[e].graph = BuildGraph(asked.project)
         /\ build'[e].dist = GetDistances(BuildGraph(asked.project), asked.target)
         /\ build'[e].entries = Empty /\ build'[e].records = Empty
         /\ build'[e].pc \in {"visiting", "done", "fetching"}
         /\ \A f \in Engines \ {e} : build'[f] = build[f]
<1>0. DOMAIN build = Engines
  BY DEF Shapes
<1>1. PICK cfg, order, cands :
         Update(e, Advance([NoBuild EXCEPT
             !.asked = asked, !.cfg = cfg, !.graph = BuildGraph(asked.project),
             !.dist = GetDistances(BuildGraph(asked.project), asked.target),
             !.order = order, !.cands = cands]))
  BY DEF Begin
<1>2. PICK graph, dist : /\ graph = BuildGraph(asked.project)
                         /\ dist = GetDistances(BuildGraph(asked.project), asked.target)
  OBVIOUS
<1>3. PICK c : c = [NoBuild EXCEPT !.asked = asked, !.cfg = cfg, !.graph = graph, !.dist = dist,
                                   !.order = order, !.cands = cands]
  OBVIOUS
<1>4. /\ IsBuild(c) /\ c.asked = asked /\ c.graph = graph /\ c.dist = dist
      /\ c.entries = Empty /\ c.records = Empty
  BY <1>3 DEF NoBuild, IsBuild, BuildFields
<1>5. /\ DOMAIN build' = Engines /\ build'[e] = Advance(c)
      /\ \A f \in Engines \ {e} : build'[f] = build[f]
  BY <1>0, <1>1, <1>2, <1>3, Updated
<1> QED
  BY <1>2, <1>4, <1>5, AdvanceKeeps DEF Kept, Files0

-----------------------------------------------------------------------------

LEMMA ShapesInit == Init => Shapes
<1> SUFFICES ASSUME Init PROVE Shapes
  OBVIOUS
<1>1. files \in [Projects -> [Paths -> DOMAIN Texts \cup {None}]]
  BY LayoutsAssumption DEF Init
<1>2. IsBuild(NoBuild) /\ NoBuild.pc = "idle"
  BY DEF NoBuild, IsBuild, BuildFields
<1> QED
  BY <1>1, <1>2 DEF Init, Shapes

\* The state keeps its shape.
LEMMA ShapesStep == Shapes /\ [Next]_vars => Shapes'
<1> SUFFICES ASSUME Shapes, [Next]_vars PROVE Shapes'
  OBVIOUS
<1>a. ASSUME NEW e \in Engines, UNCHANGED disk, DOMAIN l1' = Engines, DOMAIN l1Index' = Engines,
             DOMAIN build' = Engines, IsBuild(build'[e]), build'[e].pc # "idle",
             build'[e].asked \in Requests,
             \A f \in Engines \ {e} : build'[f] = build[f]
      PROVE  Shapes'
  BY <1>a DEF Shapes, disk
<1>b. ASSUME NEW e \in Engines, build[e].pc # "idle", GoesOn(build[e], build'[e])
      PROVE  /\ IsBuild(build'[e]) /\ build'[e].pc # "idle" /\ build'[e].asked \in Requests
  BY <1>b DEF Shapes, GoesOn
<1>c. DOMAIN l1 = Engines /\ DOMAIN l1Index = Engines
  BY DEF Shapes
<1>1. ASSUME NEW e \in Engines, NEW asked \in Requests, Begin(e, asked) PROVE Shapes'
  <2>1. build'[e].pc # "idle"
    BY <1>1, BeginStarts
  <2> QED
    BY <1>1, <1>a, <1>c, <2>1, BeginStarts DEF Begin, caches
<1>2. ASSUME NEW e \in Engines, Visit(e) PROVE Shapes'
  <2>1. build[e].pc # "idle" /\ UNCHANGED <<disk, l1Index>> /\ DOMAIN l1' = Engines
    BY <1>2, <1>c DEF Visit, At
  <2> QED
    BY <1>2, <1>a, <1>b, <1>c, <2>1, VisitGoesOn
<1>3. ASSUME NEW e \in Engines, Store(e) PROVE Shapes'
  <2>1. build[e].pc # "idle" /\ UNCHANGED <<disk, l1Index>> /\ DOMAIN l1' = Engines
    BY <1>3, <1>c DEF Store, At
  <2> QED
    BY <1>3, <1>a, <1>b, <1>c, <2>1, StoreGoesOn
<1>4. ASSUME NEW e \in Engines, Fetch(e) PROVE Shapes'
  <2>1. build[e].pc # "idle" /\ UNCHANGED <<disk, l1>> /\ DOMAIN l1Index' = Engines
    BY <1>4, <1>c DEF Fetch, At
  <2> QED
    BY <1>4, <1>a, <1>b, <1>c, <2>1, FetchGoesOn
<1>5. ASSUME NEW e \in Engines, LookupFails(e) PROVE Shapes'
  <2>1. build[e].pc # "idle" /\ UNCHANGED <<disk, caches>> /\ Fails(e)
    BY <1>5 DEF LookupFails, At
  <2> QED
    BY <1>5, <1>a, <1>b, <1>c, <2>1, FailsGoesOn DEF caches
<1>6. ASSUME NEW e \in Engines, Stat(e) PROVE Shapes'
  <2>1. build[e].pc # "idle" /\ UNCHANGED <<disk, caches>>
    BY <1>6 DEF Stat, At
  <2> QED
    BY <1>6, <1>a, <1>b, <1>c, <2>1, StatGoesOn DEF caches
<1>7. ASSUME NEW e \in Engines, Parse(e) PROVE Shapes'
  <2>1. build[e].pc # "idle" /\ UNCHANGED <<disk, caches>>
    BY <1>7 DEF Parse, At
  <2> QED
    BY <1>7, <1>a, <1>b, <1>c, <2>1, ParseGoesOn DEF caches
<1>8. ASSUME NEW e \in Engines, StoreIndex(e) PROVE Shapes'
  <2>1. build[e].pc # "idle" /\ UNCHANGED <<disk, l1>> /\ DOMAIN l1Index' = Engines
    BY <1>8, <1>c DEF StoreIndex, At
  <2> QED
    BY <1>8, <1>a, <1>b, <1>c, <2>1, StoreIndexGoesOn
<1>9. ASSUME NEW e \in Engines, Restart(e) PROVE Shapes'
  <2>1. IsBuild(NoBuild) /\ NoBuild.pc = "idle"
    BY DEF NoBuild, IsBuild, BuildFields
  <2>2. /\ DOMAIN build' = Engines /\ build'[e] = NoBuild
        /\ \A f \in Engines \ {e} : build'[f] = build[f]
    BY <1>9, Updated DEF Restart, Shapes
  <2> QED
    BY <1>9, <2>1, <2>2 DEF Restart, Shapes, disk
<1>10. ASSUME NEW w \in Saves, Save(w.project, w.module, w.text) PROVE Shapes'
  <2>1. w.project \in Projects /\ w.module \in Paths /\ w.text \in DOMAIN Texts \cup {None}
    BY SavesAssumption
  <2>2. files' \in [Projects -> [Paths -> DOMAIN Texts \cup {None}]]
    BY <1>10, <2>1 DEF Save, Shapes
  <2>3. clock' \in Nat /\ mtime' \in [Projects -> [Paths -> 0 .. clock']]
    BY <1>10, <2>1 DEF Save, Shapes
  <2> QED
    BY <1>10, <2>2, <2>3 DEF Save, Shapes, caches
<1>11. CASE UNCHANGED vars
  BY <1>11 DEF vars, disk, Shapes
<1> QED
  BY <1>1, <1>2, <1>3, <1>4, <1>5, <1>6, <1>7, <1>8, <1>9, <1>10, <1>11 DEF Next

-----------------------------------------------------------------------------
(* The symbol index *)

\* Roots are in different workspaces.  (Two roots inside one repository have
\* the key of equal paths in common, and the index then mixes them.)
DistinctWorkspaces == \A p, q \in Projects : WorkspaceOf[p] = WorkspaceOf[q] => p = q

\* What is known of a file is of its past, or of its present text.
Fresh(known, time, saved, text) ==
    /\ known.mtime \in 0 .. time
    /\ known.mtime = saved /\ text # None => known.symbols = Symbols(text)

AllFresh(level) ==
    \A p \in Projects : \A m \in Paths :
       D3ScopedKey(p, m) \in DOMAIN level
          => Fresh(level[D3ScopedKey(p, m)], clock, mtime[p][m], files[p][m])

\* The symbols a build has yet to keep are as fresh as those that are kept, and
\* the time noted for a file to be parsed is not ahead of the clock.
IndexInv ==
    /\ AllFresh(index)
    /\ \A e \in Engines :
          /\ AllFresh(l1Index[e])
          /\ \A m \in DOMAIN build[e].records \cap Paths :
                Fresh(build[e].records[m], clock, mtime[Project(e)][m], files[Project(e)][m])
          /\ build[e].pc = "parsing" /\ Head(build[e].cands) \in Paths => build[e].stat \in 0 .. clock

\* A save makes what was known of the file a thing of the past.
LEMMA SavesKeepFresh ==
  ASSUME Shapes, NEW p \in Projects, NEW m \in Paths,
         UNCHANGED disk \/ \E w \in Saves : Save(w.project, w.module, w.text),
         NEW known, Fresh(known, clock, mtime[p][m], files[p][m])
  PROVE  Fresh(known, clock', mtime'[p][m], files'[p][m])
<1>1. CASE UNCHANGED disk
  BY <1>1 DEF disk
<1>2. ASSUME NEW w \in Saves, Save(w.project, w.module, w.text)
      PROVE  Fresh(known, clock', mtime'[p][m], files'[p][m])
  <2>1. w.project \in Projects /\ w.module \in Paths /\ w.text \in DOMAIN Texts \cup {None}
    BY SavesAssumption
  <2>2. clock \in Nat /\ clock' = clock + 1 /\ known.mtime \in 0 .. clock
    BY <1>2 DEF Save, Shapes, Fresh
  <2>3. CASE p = w.project /\ m = w.module
    <3>1. mtime'[p][m] = clock + 1
      BY <1>2, <2>1, <2>3 DEF Save, Shapes
    <3> QED
      BY <2>2, <3>1 DEF Fresh
  <2>4. CASE ~(p = w.project /\ m = w.module)
    <3>1. mtime'[p][m] = mtime[p][m] /\ files'[p][m] = files[p][m]
      BY <1>2, <2>1, <2>4 DEF Save, Shapes
    <3> QED
      BY <2>2, <3>1 DEF Fresh
  <2> QED
    BY <2>3, <2>4
<1> QED
  BY <1>1, <1>2

\* Two levels that are fresh are fresh one over the other.
LEMMA OverKeepsFresh ==
  ASSUME NEW f, NEW g, AllFresh(f), AllFresh(g)
  PROVE  AllFresh(Over(f, g))
BY DEF AllFresh, Over

\* The project of a build under way is one of the projects.
LEMMA ProjectOfBuild ==
  ASSUME Shapes, NEW e \in Engines, build[e].pc # "idle"
  PROVE  Project(e) \in Projects
BY RequestsAssumption DEF Shapes, Project

\* What a build has found becomes known without touching what it did not find.
LEMMA RecordsAreFresh ==
  ASSUME DistinctWorkspaces, Shapes, IndexInv, NEW e \in Engines, build[e].pc # "idle",
         NEW new,
         LET b == build[e] IN
         new = [x \in {D3ScopedKey(Project(e), m) : m \in DOMAIN b.records} |->
                   b.records[CHOOSE m \in DOMAIN b.records : D3ScopedKey(Project(e), m) = x]]
  PROVE  AllFresh(new)
<1> DEFINE b == build[e]
<1> SUFFICES ASSUME NEW p \in Projects, NEW m \in Paths, D3ScopedKey(p, m) \in DOMAIN new
             PROVE  Fresh(new[D3ScopedKey(p, m)], clock, mtime[p][m], files[p][m])
  BY DEF AllFresh
<1>1. PICK n \in DOMAIN b.records : D3ScopedKey(p, m) = D3ScopedKey(Project(e), n)
  OBVIOUS
<1>2. Project(e) \in Projects
  BY ProjectOfBuild
<1>3. p = Project(e) /\ m = n
  BY <1>1, <1>2 DEF D3ScopedKey, DistinctWorkspaces
<1>4. \A k \in DOMAIN b.records : D3ScopedKey(Project(e), k) = D3ScopedKey(p, m) => k = m
  BY DEF D3ScopedKey
<1>5. (CHOOSE k \in DOMAIN b.records : D3ScopedKey(Project(e), k) = D3ScopedKey(p, m)) = m
  BY <1>1, <1>3, <1>4
<1>6. new[D3ScopedKey(p, m)] = b.records[m]
  BY <1>5
<1>7. m \in DOMAIN b.records \cap Paths
  BY <1>1, <1>3
<1> QED
  BY <1>3, <1>6, <1>7 DEF IndexInv

\* Steps that only carry builds on, on the same disk.
LEMMA IndexInvKept ==
  ASSUME Shapes, IndexInv, UNCHANGED disk, NEW e \in Engines,
         AllFresh(index)', \A f \in Engines : AllFresh(l1Index[f])',
         \A f \in Engines \ {e} : build'[f] = build[f],
         \/ build'[e].records = build[e].records /\ build'[e].asked = build[e].asked
         \/ build'[e].records = Empty,
         build'[e].pc = "parsing" /\ Head(build'[e].cands) \in Paths => build'[e].stat \in 0 .. clock
  PROVE  IndexInv'
<1>1. UNCHANGED <<clock, mtime, files>>
  BY DEF disk
<1>2. ASSUME NEW f \in Engines
      PROVE  /\ \A m \in DOMAIN build'[f].records \cap Paths :
                   Fresh(build'[f].records[m], clock, mtime[build'[f].asked.project][m],
                         files[build'[f].asked.project][m])
             /\ build'[f].pc = "parsing" /\ Head(build'[f].cands) \in Paths
                   => build'[f].stat \in 0 .. clock
  BY DEF IndexInv, Project, Empty
<1> QED
  BY <1>1, <1>2 DEF IndexInv, Project

LEMMA AllFreshKept ==
  ASSUME IndexInv, UNCHANGED disk
  PROVE  /\ UNCHANGED index => AllFresh(index)'
         /\ UNCHANGED l1Index => \A f \in Engines : AllFresh(l1Index[f])'
BY DEF IndexInv, AllFresh, disk

\* One step of an engine, or a save, keeps everything fresh.
LEMMA IndexStep ==
  ASSUME DistinctWorkspaces
  PROVE  Shapes /\ IndexInv /\ [Next]_vars => IndexInv'
<1> SUFFICES ASSUME Shapes, IndexInv, [Next]_vars PROVE IndexInv'
  OBVIOUS
<1>1. ASSUME NEW e \in Engines, NEW asked \in Requests, Begin(e, asked) PROVE IndexInv'
  <2>1. UNCHANGED <<disk, caches>> /\ build'[e].records = Empty /\ build'[e].pc # "parsing"
    BY <1>1, BeginStarts DEF Begin
  <2> QED
    BY <1>1, <2>1, BeginStarts, AllFreshKept, IndexInvKept DEF caches
<1>2. ASSUME NEW e \in Engines, Visit(e) PROVE IndexInv'
  <2>1. UNCHANGED <<disk, index, l1Index>>
    BY <1>2 DEF Visit
  <2>2. build'[e].pc # "parsing"
    BY <1>2, VisitGoesOn
  <2> QED
    BY <1>2, <2>1, <2>2, VisitGoesOn, AllFreshKept, IndexInvKept DEF GoesOn
<1>3. ASSUME NEW e \in Engines, Store(e) PROVE IndexInv'
  <2>1. UNCHANGED <<disk, index, l1Index>>
    BY <1>3 DEF Store
  <2>2. build'[e].pc # "parsing"
    BY <1>3, StoreGoesOn
  <2> QED
    BY <1>3, <2>1, <2>2, StoreGoesOn, AllFreshKept, IndexInvKept DEF GoesOn
<1>4. ASSUME NEW e \in Engines, Fetch(e) PROVE IndexInv'
  <2>1. UNCHANGED <<disk, index>> /\ DOMAIN l1Index = Engines
    BY <1>4 DEF Fetch, Shapes
  <2>2. build'[e].pc # "parsing"
    BY <1>4, FetchGoesOn
  <2>3. PICK K : /\ K \subseteq DOMAIN Over(index, l1Index[e])
                 /\ l1Index' = [l1Index EXCEPT ![e] =
                                   Over(@, [x \in K |-> Over(index, l1Index[e])[x]])]
    BY <1>4 DEF Fetch
  <2>4. AllFresh(Over(index, l1Index[e]))
    BY OverKeepsFresh DEF IndexInv
  <2>5. AllFresh([x \in K |-> Over(index, l1Index[e])[x]])
    BY <2>3, <2>4 DEF AllFresh
  <2>6. AllFresh(Over(l1Index[e], [x \in K |-> Over(index, l1Index[e])[x]]))
    BY <2>5, OverKeepsFresh DEF IndexInv
  <2>7. \A f \in Engines : AllFresh(l1Index'[f])
    <3>1. l1Index'[e] = Over(l1Index[e], [x \in K |-> Over(index, l1Index[e])[x]])
      BY <2>1, <2>3
    <3>2. \A f \in Engines \ {e} : l1Index'[f] = l1Index[f]
      BY <2>3
    <3> QED
      BY <2>6, <3>1, <3>2 DEF IndexInv
  <2>8. \A f \in Engines : AllFresh(l1Index[f])'
    BY <2>1, <2>7 DEF AllFresh, disk
  <2> QED
    BY <1>4, <2>1, <2>2, <2>8, FetchGoesOn, AllFreshKept, IndexInvKept DEF GoesOn, Files0
<1>5. ASSUME NEW e \in Engines, LookupFails(e) PROVE IndexInv'
  <2>1. UNCHANGED <<disk, caches>> /\ Fails(e)
    BY <1>5 DEF LookupFails
  <2>2. build'[e].pc # "parsing"
    BY <2>1, FailsGoesOn
  <2> QED
    BY <1>5, <2>1, <2>2, FailsGoesOn, AllFreshKept, IndexInvKept DEF GoesOn, Files0, caches
<1>6. ASSUME NEW e \in Engines, Stat(e) PROVE IndexInv'
  <2>1. UNCHANGED <<disk, caches>> /\ build[e].pc # "idle"
    BY <1>6 DEF Stat, At
  <2>2. build'[e].pc = "parsing" /\ Head(build'[e].cands) \in Paths => build'[e].stat \in 0 .. clock
    BY <1>6, <2>1, StatGoesOn, ProjectOfBuild DEF Shapes
  <2> QED
    BY <1>6, <2>1, <2>2, StatGoesOn, AllFreshKept, IndexInvKept DEF GoesOn, Files0, caches
<1>7. ASSUME NEW e \in Engines, Parse(e) PROVE IndexInv'
  <2> DEFINE m == Head(build[e].cands)
             text == files[Project(e)][m]
  <2>1. UNCHANGED <<disk, caches>> /\ build[e].pc = "parsing" /\ Project(e) \in Projects
    BY <1>7, ProjectOfBuild DEF Parse, At
  <2>2. CASE build'[e].records = build[e].records
    <3>1. build'[e].pc # "parsing"
      BY <1>7, ParseGoesOn
    <3> QED
      BY <1>7, <2>1, <2>2, <3>1, ParseGoesOn, AllFreshKept, IndexInvKept DEF GoesOn, caches
  <2>3. CASE /\ text # None
             /\ build'[e].records = Put(build[e].records, m,
                                        [mtime |-> build[e].stat, symbols |-> Symbols(text)])
    <3> DEFINE r == [mtime |-> build[e].stat, symbols |-> Symbols(text)]
    <3>1. m \in Paths => Fresh(r, clock, mtime[Project(e)][m], text)
      BY <2>1 DEF IndexInv, Fresh
    <3>2. ASSUME NEW k \in DOMAIN build'[e].records \cap Paths
          PROVE  Fresh(build'[e].records[k], clock, mtime[Project(e)][k], files[Project(e)][k])
      <4> HIDE DEF r
      <4>1. CASE k = m
        <5>1. build'[e].records[m] = r
          BY <2>3, <4>1 DEF Put, r
        <5> QED
          BY <3>1, <4>1, <5>1
      <4>2. CASE k # m
        <5>1. k \in DOMAIN build[e].records /\ build'[e].records[k] = build[e].records[k]
          BY <2>3, <4>2 DEF Put
        <5> QED
          BY <3>2, <5>1 DEF IndexInv
      <4> QED
        BY <4>1, <4>2
    <3>3. build'[e].asked = build[e].asked /\ build'[e].pc # "parsing"
      BY <1>7, ParseGoesOn DEF GoesOn
    <3>4. \A f \in Engines \ {e} : build'[f] = build[f]
      BY <1>7, ParseGoesOn
    <3>5. UNCHANGED <<clock, mtime, files>>
      BY <2>1 DEF disk
    <3>6. ASSUME NEW f \in Engines
          PROVE  /\ \A k \in DOMAIN build'[f].records \cap Paths :
                       Fresh(build'[f].records[k], clock, mtime[build'[f].asked.project][k],
                             files[build'[f].asked.project][k])
                 /\ build'[f].pc = "parsing" /\ Head(build'[f].cands) \in Paths
                       => build'[f].stat \in 0 .. clock
      BY <3>2, <3>3, <3>4 DEF IndexInv, Project
    <3> QED
      BY <2>1, <3>5, <3>6, AllFreshKept DEF IndexInv, Project, caches
  <2> QED
    BY <1>7, <2>2, <2>3, ParseGoesOn
<1>8. ASSUME NEW e \in Engines, StoreIndex(e) PROVE IndexInv'
  <2>1. UNCHANGED disk /\ build[e].pc # "idle" /\ DOMAIN l1Index = Engines
    BY <1>8 DEF StoreIndex, At, Shapes
  <2>2. build'[e].pc # "parsing"
    BY <1>8, StoreIndexGoesOn
  <2>3. PICK new :
           /\ LET b == build[e] IN
              new = [x \in {D3ScopedKey(Project(e), m) : m \in DOMAIN b.records} |->
                        b.records[CHOOSE m \in DOMAIN b.records : D3ScopedKey(Project(e), m) = x]]
           /\ l1Index' = [l1Index EXCEPT ![e] = Over(@, new)]
           /\ index' = Over(index, new) \/ UNCHANGED index
    BY <1>8 DEF StoreIndex
  <2>4. AllFresh(new)
    BY <2>1, <2>3, RecordsAreFresh
  <2>5. AllFresh(index')
    <3>1. AllFresh(Over(index, new))
      BY <2>4, OverKeepsFresh DEF IndexInv
    <3> QED
      BY <2>3, <3>1 DEF IndexInv
  <2>6. \A f \in Engines : AllFresh(l1Index'[f])
    <3>1. AllFresh(Over(l1Index[e], new))
      BY <2>4, OverKeepsFresh DEF IndexInv
    <3>2. l1Index'[e] = Over(l1Index[e], new) /\ \A f \in Engines \ {e} : l1Index'[f] = l1Index[f]
      BY <2>1, <2>3
    <3> QED
      BY <3>1, <3>2 DEF IndexInv
  <2>7. AllFresh(index)' /\ \A f \in Engines : AllFresh(l1Index[f])'
    BY <2>1, <2>5, <2>6 DEF AllFresh, disk
  <2> QED
    BY <1>8, <2>1, <2>2, <2>7, StoreIndexGoesOn, IndexInvKept DEF GoesOn, Files0
<1>9. ASSUME NEW e \in Engines, Restart(e) PROVE IndexInv'
  <2>1. /\ UNCHANGED <<disk, index>> /\ l1Index' = [l1Index EXCEPT ![e] = Empty]
        /\ DOMAIN l1Index = Engines
    BY <1>9 DEF Restart, Shapes
  <2>2. build'[e] = NoBuild /\ \A f \in Engines \ {e} : build'[f] = build[f]
    BY <1>9, Updated DEF Restart, Shapes
  <2>3. \A f \in Engines : AllFresh(l1Index'[f])
    <3>1. AllFresh(Empty)
      BY DEF AllFresh, Empty
    <3>2. l1Index'[e] = Empty /\ \A f \in Engines \ {e} : l1Index'[f] = l1Index[f]
      BY <2>1
    <3> QED
      BY <3>1, <3>2 DEF IndexInv
  <2>4. \A f \in Engines : AllFresh(l1Index[f])'
    BY <2>1, <2>3 DEF AllFresh, disk
  <2>5. NoBuild.records = Empty /\ NoBuild.pc = "idle"
    BY DEF NoBuild
  <2> QED
    BY <2>1, <2>2, <2>4, <2>5, AllFreshKept, IndexInvKept
<1>10. ASSUME NEW w \in Saves, Save(w.project, w.module, w.text) PROVE IndexInv'
  <2>1. UNCHANGED <<caches, build>> /\ clock \in Nat /\ clock' = clock + 1
    BY <1>10 DEF Save, Shapes
  <2>2. \A p \in Projects, m \in Paths : \A known :
           Fresh(known, clock, mtime[p][m], files[p][m])
              => Fresh(known, clock', mtime'[p][m], files'[p][m])
    BY <1>10, SavesKeepFresh
  <2>3. AllFresh(index)' /\ \A f \in Engines : AllFresh(l1Index[f])'
    BY <2>1, <2>2 DEF IndexInv, AllFresh, caches
  <2>4. ASSUME NEW f \in Engines, NEW m \in DOMAIN build[f].records \cap Paths
        PROVE  Fresh(build[f].records[m], clock', mtime'[Project(f)][m], files'[Project(f)][m])
    <3>1. build[f].pc # "idle"
      BY <2>4 DEF Shapes, NoBuild, Empty
    <3>2. Project(f) \in Projects
      BY <3>1, ProjectOfBuild
    <3>3. Fresh(build[f].records[m], clock, mtime[Project(f)][m], files[Project(f)][m])
      BY DEF IndexInv
    <3> QED
      BY <2>2, <3>2, <3>3
  <2>5. \A f \in Engines : build[f].pc = "parsing" /\ Head(build[f].cands) \in Paths
                              => build[f].stat \in 0 .. clock'
    BY <2>1 DEF IndexInv
  <2> QED
    BY <2>1, <2>3, <2>4, <2>5 DEF IndexInv, Project
<1>11. CASE UNCHANGED vars
  <2>1. UNCHANGED <<disk, caches, build>>
    BY <1>11 DEF vars, disk, caches
  <2> QED
    BY <2>1 DEF IndexInv, AllFresh, Project, disk, caches
<1> QED
  BY <1>1, <1>2, <1>3, <1>4, <1>5, <1>6, <1>7, <1>8, <1>9, <1>10, <1>11 DEF Next

\* Whatever the index or a first level has of a file under its present time are
\* the symbols of its present text, for roots in different workspaces.
THEOREM IndexStaysCurrent ==
  ASSUME DistinctWorkspaces
  PROVE  Spec => []IndexIsCurrent
<1>1. Init => IndexInv
  BY DEF Init, IndexInv, AllFresh, Empty, NoBuild
<1>2. Shapes /\ IndexInv => IndexIsCurrent
  <2>1. \A p : Files(p) \subseteq Paths
    BY DEF Files
  <2> QED
    BY <2>1 DEF IndexInv, AllFresh, Fresh, IndexIsCurrent, Files
<1> QED
  BY <1>1, <1>2, IndexStep, ShapesInit, ShapesStep, PTL DEF Spec

-----------------------------------------------------------------------------
(* The views *)

\* Every key of the cache holds the view it stands for.
AllViews(level) ==
    \A text, strip, depth :
       GenerateKey(text, strip, depth) \in DOMAIN level
          => level[GenerateKey(text, strip, depth)] = Prune(text, depth, strip)

\* The view a build shows of a module it read the text of.
ViewOf(b, m, text) ==
    Prune(text, DepthOf(b.asked.tripped, b.dist[m]), StripDocs(b.asked.tripped, b.dist[m]))

\* The keys of the two levels say what is kept under them, and a build that is
\* about to store a view made it of the module it is at.
ViewsInv ==
    /\ AllViews(tokens)
    /\ \A e \in Engines : AllViews(l1[e])
    /\ \A e \in Engines : build[e].pc = "storing" =>
          LET b == build[e]
              m == Head(b.order)
              text == b.pending.text
          IN  /\ b.asked.mode # "passthrough"
              /\ b.pending.key = GenerateKey(text, StripDocs(b.asked.tripped, b.dist[m]),
                                             DepthOf(b.asked.tripped, b.dist[m]))
              /\ b.pending.view = ViewOf(b, m, text)
    /\ EntriesAreViews

EntryOk(b, m) ==
    b.entries[m].view = IF b.asked.mode = "passthrough" THEN Prune(b.entries[m].text, "full", FALSE)
                        ELSE ViewOf(b, m, b.entries[m].text)

LEMMA EntriesByBuild ==
  EntriesAreViews <=> \A e \in Engines : \A m \in DOMAIN build[e].entries : EntryOk(build[e], m)
BY DEF EntriesAreViews, EntryOk, ViewOf

\* A cached view is the one that pruning the text now would give.
LEMMA PutKeepsViews ==
  ASSUME NEW level, AllViews(level), NEW text, NEW strip, NEW depth
  PROVE  AllViews(Put(level, GenerateKey(text, strip, depth), Prune(text, depth, strip)))
BY DEF AllViews, Put, GenerateKey

LEMMA OverKeepsViews ==
  ASSUME NEW f, NEW g, AllViews(f), AllViews(g)
  PROVE  AllViews(Over(f, g))
BY DEF AllViews, Over

\* One more entry that is the view of its text.
LEMMA EntryAdded ==
  ASSUME NEW b, NEW c, GoesOn(b, c), \A m \in DOMAIN b.entries : EntryOk(b, m),
         NEW m, NEW text, NEW view, c.entries = Put(b.entries, m, [text |-> text, view |-> view]),
         view = IF b.asked.mode = "passthrough" THEN Prune(text, "full", FALSE)
                ELSE ViewOf(b, m, text)
  PROVE  \A n \in DOMAIN c.entries : EntryOk(c, n)
<1> SUFFICES ASSUME NEW n \in DOMAIN c.entries PROVE EntryOk(c, n)
  OBVIOUS
<1>1. CASE n = m
  <2>1. PICK r : r = [text |-> text, view |-> view]
    OBVIOUS
  <2>2. r.text = text /\ r.view = view
    BY <2>1
  <2>3. c.entries[n] = r
    BY <1>1, <2>1 DEF Put
  <2> QED
    BY <1>1, <2>2, <2>3 DEF EntryOk, ViewOf, GoesOn
<1>2. CASE n # m
  <2>1. n \in DOMAIN b.entries /\ c.entries[n] = b.entries[n]
    BY <1>2 DEF Put
  <2>2. EntryOk(b, n)
    BY <2>1
  <2> QED
    BY <2>1, <2>2 DEF EntryOk, ViewOf, GoesOn
<1> QED
  BY <1>1, <1>2

\* A step that shows no more than was shown and is not about to store a view.
LEMMA ViewsInvKept ==
  ASSUME Shapes, ViewsInv, NEW e \in Engines,
         AllViews(tokens'), \A f \in Engines : AllViews(l1'[f]),
         \A f \in Engines \ {e} : build'[f] = build[f],
         build'[e].pc # "storing",
         \A m \in DOMAIN build'[e].entries : EntryOk(build'[e], m)
  PROVE  ViewsInv'
<1>1. \A f \in Engines : \A m \in DOMAIN build[f].entries : EntryOk(build[f], m)
  BY EntriesByBuild DEF ViewsInv
<1>2. \A f \in Engines : \A m \in DOMAIN build'[f].entries : EntryOk(build'[f], m)
  BY <1>1
<1>3. EntriesAreViews'
  BY <1>2 DEF EntriesAreViews, EntryOk, ViewOf
<1>4. AllViews(tokens)' /\ \A f \in Engines : AllViews(l1[f])'
  BY DEF AllViews
<1>5. ASSUME NEW f \in Engines, build'[f].pc = "storing"
      PROVE  f # e /\ build'[f] = build[f]
  BY <1>5
<1> QED
  BY <1>3, <1>4, <1>5 DEF ViewsInv, ViewOf

\* A build that goes on with the same entries keeps them as they are.
LEMMA SameEntries ==
  ASSUME Shapes, ViewsInv, NEW e \in Engines, GoesOn(build[e], build'[e]),
         build'[e].entries = build[e].entries
  PROVE  \A m \in DOMAIN build'[e].entries : EntryOk(build'[e], m)
<1>1. \A m \in DOMAIN build[e].entries : EntryOk(build[e], m)
  BY EntriesByBuild DEF ViewsInv
<1> QED
  BY <1>1 DEF EntryOk, ViewOf, GoesOn

LEMMA ViewsVisit ==
  ASSUME Shapes, ViewsInv, NEW e \in Engines, Visit(e)
  PROVE  ViewsInv'
<1> DEFINE b == build[e]
           m == Head(b.order)
           text == files[Project(e)][m]
           depth == DepthOf(b.asked.tripped, b.dist[m])
           strip == StripDocs(b.asked.tripped, b.dist[m])
           key == GenerateKey(text, strip, depth)
<1>0. IsBuild(b) /\ DOMAIN build = Engines /\ DOMAIN l1 = Engines
  BY DEF Shapes
<1>a. /\ DOMAIN build' = Engines /\ GoesOn(b, build'[e]) /\ UNCHANGED tokens
      /\ \A f \in Engines \ {e} : build'[f] = build[f]
  BY VisitGoesOn DEF Visit
<1>b. /\ \A n \in DOMAIN b.entries : EntryOk(b, n)
      /\ AllViews(tokens) /\ \A f \in Engines : AllViews(l1[f])
  BY EntriesByBuild DEF ViewsInv
<1>1. CASE /\ Update(e, Advance([b EXCEPT !.order = Tail(@)]))
           /\ UNCHANGED l1
  <2>1. PICK c : c = [b EXCEPT !.order = Tail(@)]
    OBVIOUS
  <2>2. IsBuild(c) /\ c.entries = b.entries
    BY <1>0, <2>1 DEF IsBuild, BuildFields
  <2>3. build'[e] = Advance(c)
    BY <1>0, <1>1, <2>1, Updated
  <2>4. build'[e].entries = b.entries /\ build'[e].pc # "storing"
    BY <2>2, <2>3, AdvanceKeeps DEF Files0
  <2> QED
    BY <1>1, <1>a, <1>b, <2>4, SameEntries, ViewsInvKept
<1>2. ASSUME NEW view, Update(e, Shown(b, m, text, view)), \A f \in Engines : AllViews(l1'[f]),
             view = IF b.asked.mode = "passthrough" THEN Prune(text, "full", FALSE)
                    ELSE ViewOf(b, m, text)
      PROVE  ViewsInv'
  <2>1. build'[e] = Shown(b, m, text, view)
    BY <1>0, <1>2, Updated
  <2>2. PICK n, t : n = m /\ t = text
    OBVIOUS
  <2>3. Shows(b, Shown(b, n, t, view), n, t, view)
    BY <1>0, ShownGoesOn
  <2>4. /\ build'[e].pc # "storing"
        /\ build'[e].entries = Put(b.entries, n, [text |-> t, view |-> view])
    BY <2>1, <2>2, <2>3 DEF Shows
  <2>5. \A k \in DOMAIN build'[e].entries : EntryOk(build'[e], k)
    BY <1>2, <1>a, <1>b, <2>2, <2>4, EntryAdded
  <2> QED
    BY <1>2, <1>a, <1>b, <2>4, <2>5, ViewsInvKept
<1>3. CASE /\ b.asked.mode = "passthrough"
           /\ Update(e, Shown(b, m, text, Prune(text, "full", FALSE)))
           /\ UNCHANGED l1
  BY <1>2, <1>3, <1>b
<1>4. CASE /\ b.asked.mode # "passthrough"
           /\ key \in DOMAIN l1[e] \cup DOMAIN tokens
           /\ Update(e, Shown(b, m, text, Over(tokens, l1[e])[key]))
           /\ l1' = [l1 EXCEPT ![e] = Put(@, key, Over(tokens, l1[e])[key])]
  <2>1. key \in DOMAIN Over(tokens, l1[e]) /\ AllViews(Over(tokens, l1[e]))
    BY <1>4, <1>b, OverKeepsViews DEF Over
  <2>2. Over(tokens, l1[e])[key] = Prune(text, depth, strip)
    BY <2>1 DEF AllViews
  <2>3. AllViews(Put(l1[e], key, Prune(text, depth, strip)))
    BY <1>b, PutKeepsViews
  <2>4. l1'[e] = Put(l1[e], key, Prune(text, depth, strip))
        /\ \A f \in Engines \ {e} : l1'[f] = l1[f]
    BY <1>0, <1>4, <2>2
  <2>5. \A f \in Engines : AllViews(l1'[f])
    BY <1>b, <2>3, <2>4
  <2>6. Prune(text, depth, strip) = ViewOf(b, m, text)
    BY DEF ViewOf
  <2> QED
    BY <1>2, <1>4, <2>2, <2>5, <2>6
<1>5. CASE /\ b.asked.mode # "passthrough"
           /\ Update(e, [b EXCEPT !.pc = "storing",
                                  !.pending = [text |-> text, key |-> key,
                                               view |-> Prune(text, depth, strip)]])
           /\ UNCHANGED l1
  <2>1. PICK w : w = [text |-> text, key |-> key, view |-> Prune(text, depth, strip)]
    OBVIOUS
  <2>2. build'[e] = [b EXCEPT !.pc = "storing", !.pending = w]
    BY <1>0, <1>5, <2>1, Updated
  <2>3. /\ build'[e].pending = w /\ build'[e].order = b.order /\ build'[e].entries = b.entries
        /\ build'[e].asked = b.asked /\ build'[e].dist = b.dist
    BY <1>0, <2>2 DEF IsBuild, BuildFields
  <2>4. w.text = text /\ w.key = key /\ w.view = ViewOf(b, m, text)
    BY <2>1 DEF ViewOf
  <2>5. \A k \in DOMAIN build'[e].entries : EntryOk(build'[e], k)
    BY <1>a, <2>3, SameEntries
  <2>6. \A f \in Engines : \A k \in DOMAIN build'[f].entries : EntryOk(build'[f], k)
    BY <1>a, <2>5, EntriesByBuild DEF ViewsInv
  <2>7. EntriesAreViews'
    BY <2>6 DEF EntriesAreViews, EntryOk, ViewOf
  <2>8. AllViews(tokens)' /\ \A f \in Engines : AllViews(l1[f])'
    BY <1>5, <1>a, <1>b DEF AllViews
  <2>9. ASSUME NEW f \in Engines, build'[f].pc = "storing"
        PROVE  LET c == build'[f]
                   n == Head(c.order)
                   t == c.pending.text
               IN  /\ c.asked.mode # "passthrough"
                   /\ c.pending.key = GenerateKey(t, StripDocs(c.asked.tripped, c.dist[n]),
                                                  DepthOf(c.asked.tripped, c.dist[n]))
                   /\ c.pending.view = ViewOf(c, n, t)
    <3>1. CASE f = e
      BY <1>5, <2>3, <2>4, <3>1 DEF ViewOf
    <3>2. CASE f # e
      BY <1>a, <2>9, <3>2 DEF ViewsInv
    <3> QED
      BY <3>1, <3>2
  <2> QED
    BY <2>7, <2>8, <2>9 DEF ViewsInv, ViewOf
<1> QED
  BY <1>1, <1>3, <1>4, <1>5 DEF Visit

\* What is stored, and shown, is the view of the module the build is at.
LEMMA ViewsStore ==
  ASSUME Shapes, ViewsInv, NEW e \in Engines, Store(e)
  PROVE  ViewsInv'
<1> DEFINE b == build[e]
           w == b.pending
           m == Head(b.order)
<1>0. IsBuild(b) /\ DOMAIN build = Engines /\ DOMAIN l1 = Engines
  BY DEF Shapes
<1>a. /\ GoesOn(b, build'[e]) /\ build'[e].pc # "storing"
      /\ \A f \in Engines \ {e} : build'[f] = build[f]
  BY StoreGoesOn
<1>b. /\ \A n \in DOMAIN b.entries : EntryOk(b, n)
      /\ AllViews(tokens) /\ \A f \in Engines : AllViews(l1[f])
  BY EntriesByBuild DEF ViewsInv
<1>c. /\ b.asked.mode # "passthrough" /\ w.view = ViewOf(b, m, w.text)
      /\ w.key = GenerateKey(w.text, StripDocs(b.asked.tripped, b.dist[m]),
                             DepthOf(b.asked.tripped, b.dist[m]))
  BY DEF ViewsInv, Store, At
<1>1. \A level : AllViews(level) => AllViews(Put(level, w.key, w.view))
  BY <1>c, PutKeepsViews DEF ViewOf
<1>2. \A f \in Engines : AllViews(l1'[f])
  <2>1. l1'[e] = Put(l1[e], w.key, w.view) /\ \A f \in Engines \ {e} : l1'[f] = l1[f]
    BY <1>0 DEF Store
  <2> QED
    BY <1>1, <1>b, <2>1
<1>3. CASE tokens' = Put(tokens, w.key, w.view) /\ Update(e, Shown(b, m, w.text, w.view))
  <2>1. build'[e] = Shown(b, m, w.text, w.view)
    BY <1>0, <1>3, Updated
  <2>2. PICK n, t, view : n = m /\ t = w.text /\ view = w.view
    OBVIOUS
  <2>3. Shows(b, Shown(b, n, t, view), n, t, view)
    BY <1>0, ShownGoesOn
  <2>4. build'[e].entries = Put(b.entries, n, [text |-> t, view |-> view])
    BY <2>1, <2>2, <2>3 DEF Shows
  <2>5. \A k \in DOMAIN build'[e].entries : EntryOk(build'[e], k)
    BY <1>a, <1>b, <1>c, <2>2, <2>4, EntryAdded
  <2>6. AllViews(tokens')
    BY <1>1, <1>3, <1>b
  <2> QED
    BY <1>2, <1>a, <2>5, <2>6, ViewsInvKept
<1>4. CASE Fails(e) /\ UNCHANGED tokens
  <2>1. build'[e].entries = b.entries
    BY <1>4, FailsGoesOn DEF Files0
  <2> QED
    BY <1>2, <1>4, <1>a, <1>b, <2>1, SameEntries, ViewsInvKept
<1> QED
  BY <1>3, <1>4 DEF Store

LEMMA ViewsStep == Shapes /\ ViewsInv /\ [Next]_vars => ViewsInv'
<1> SUFFICES ASSUME Shapes, ViewsInv, [Next]_vars PROVE ViewsInv'
  OBVIOUS
<1>0. AllViews(tokens) /\ \A f \in Engines : AllViews(l1[f])
  BY DEF ViewsInv
<1>a. ASSUME NEW e \in Engines, UNCHANGED <<tokens, l1>>, GoesOn(build[e], build'[e]),
             build'[e].entries = build[e].entries, build'[e].pc # "storing",
             \A f \in Engines \ {e} : build'[f] = build[f]
      PROVE  ViewsInv'
  BY <1>a, <1>0, SameEntries, ViewsInvKept
<1>b. ASSUME UNCHANGED <<tokens, l1, build>> PROVE ViewsInv'
  <2>1. AllViews(tokens)' /\ \A f \in Engines : AllViews(l1[f])'
    BY <1>0, <1>b DEF AllViews
  <2>2. EntriesAreViews'
    BY <1>b DEF ViewsInv, EntriesAreViews
  <2>3. \A e \in Engines : build'[e] = build[e]
    BY <1>b
  <2> QED
    BY <2>1, <2>2, <2>3 DEF ViewsInv, ViewOf
<1>1. ASSUME NEW e \in Engines, NEW asked \in Requests, Begin(e, asked) PROVE ViewsInv'
  <2>1. UNCHANGED <<tokens, l1>> /\ build'[e].pc # "storing" /\ build'[e].entries = Empty
        /\ \A f \in Engines \ {e} : build'[f] = build[f]
    BY <1>1, BeginStarts DEF Begin, caches
  <2>2. \A m \in DOMAIN build'[e].entries : EntryOk(build'[e], m)
    BY <2>1 DEF Empty
  <2> QED
    BY <1>0, <2>1, <2>2, ViewsInvKept
<1>2. ASSUME NEW e \in Engines, Visit(e) PROVE ViewsInv'
  BY <1>2, ViewsVisit
<1>3. ASSUME NEW e \in Engines, Store(e) PROVE ViewsInv'
  BY <1>3, ViewsStore
<1>4. ASSUME NEW e \in Engines, Fetch(e) PROVE ViewsInv'
  <2>1. UNCHANGED <<tokens, l1>> /\ build'[e].pc # "storing"
    BY <1>4, FetchGoesOn DEF Fetch
  <2> QED
    BY <1>4, <1>a, <2>1, FetchGoesOn DEF Files0
<1>5. ASSUME NEW e \in Engines, LookupFails(e) PROVE ViewsInv'
  <2>1. UNCHANGED <<tokens, l1>> /\ Fails(e)
    BY <1>5 DEF LookupFails, caches
  <2>2. build'[e].pc # "storing"
    BY <2>1, FailsGoesOn
  <2> QED
    BY <1>a, <2>1, <2>2, FailsGoesOn DEF Files0
<1>6. ASSUME NEW e \in Engines, Stat(e) PROVE ViewsInv'
  <2>1. UNCHANGED <<tokens, l1>> /\ build'[e].pc # "storing"
    BY <1>6, StatGoesOn DEF Stat, caches
  <2> QED
    BY <1>6, <1>a, <2>1, StatGoesOn DEF Files0
<1>7. ASSUME NEW e \in Engines, Parse(e) PROVE ViewsInv'
  <2>1. UNCHANGED <<tokens, l1>> /\ build'[e].pc # "storing"
    BY <1>7, ParseGoesOn DEF Parse, caches
  <2> QED
    BY <1>7, <1>a, <2>1, ParseGoesOn
<1>8. ASSUME NEW e \in Engines, StoreIndex(e) PROVE ViewsInv'
  <2>1. UNCHANGED <<tokens, l1>> /\ build'[e].pc # "storing"
    BY <1>8, StoreIndexGoesOn DEF StoreIndex
  <2> QED
    BY <1>8, <1>a, <2>1, StoreIndexGoesOn DEF Files0
<1>9. ASSUME NEW e \in Engines, Restart(e) PROVE ViewsInv'
  <2>1. /\ UNCHANGED tokens /\ l1' = [l1 EXCEPT ![e] = Empty] /\ DOMAIN l1 = Engines
    BY <1>9 DEF Restart, Shapes
  <2>2. build'[e] = NoBuild /\ \A f \in Engines \ {e} : build'[f] = build[f]
    BY <1>9, Updated DEF Restart, Shapes
  <2>3. \A f \in Engines : AllViews(l1'[f])
    <3>1. AllViews(Empty)
      BY DEF AllViews, Empty
    <3>2. l1'[e] = Empty /\ \A f \in Engines \ {e} : l1'[f] = l1[f]
      BY <2>1
    <3> QED
      BY <1>0, <3>1, <3>2
  <2>4. NoBuild.entries = Empty /\ NoBuild.pc = "idle" /\ DOMAIN Empty = {}
    BY DEF NoBuild, Empty
  <2>5. build'[e].pc # "storing" /\ \A m \in DOMAIN build'[e].entries : EntryOk(build'[e], m)
    BY <2>2, <2>4
  <2> QED
    BY <1>0, <2>1, <2>2, <2>3, <2>5, ViewsInvKept
<1>10. ASSUME NEW w \in Saves, Save(w.project, w.module, w.text) PROVE ViewsInv'
  BY <1>10, <1>b DEF Save, caches
<1>11. CASE UNCHANGED vars
  BY <1>11, <1>b DEF vars
<1> QED
  BY <1>1, <1>2, <1>3, <1>4, <1>5, <1>6, <1>7, <1>8, <1>9, <1>10, <1>11 DEF Next

\* What a bundle shows of a module is the view of the text that was read of it,
\* at the depth of its distance, whatever the caches were filled with.
THEOREM ShownIsItsView == Spec => []EntriesAreViews
<1>1. Init => ViewsInv
  <2>1. NoBuild.entries = Empty /\ NoBuild.pc = "idle" /\ DOMAIN Empty = {}
    BY DEF NoBuild, Empty
  <2>2. AllViews(Empty)
    BY DEF AllViews, Empty
  <2> SUFFICES ASSUME Init PROVE ViewsInv
    OBVIOUS
  <2>3. AllViews(tokens) /\ \A e \in Engines : AllViews(l1[e]) /\ build[e] = NoBuild
    BY <2>2 DEF Init
  <2> QED
    BY <2>1, <2>3 DEF ViewsInv, EntriesAreViews
<1>2. ViewsInv => EntriesAreViews
  BY DEF ViewsInv
<1> QED
  BY <1>1, <1>2, ViewsStep, ShapesInit, ShapesStep, PTL DEF Spec
=============================================================================
