--------------------------- MODULE GraphPublication --------------------------
(* What the workspace publishes for the browser: the graph, the            *)
(* correlations and the planner's recommendations, each built from the     *)
(* database and renamed over its file, and the document of a report.       *)
(* Several processes do it at once: the worker after each analysis, a       *)
(* review, an import, the export command and the preview of a report.      *)
EXTENDS Naturals, Sequences, FiniteSets

CONSTANTS
  Pieces,      \* evidence that can be imported
  Persons,     \* entities
  Valued,      \* the value observed by the analysis of a piece
  Executions,  \* OSINT executions earlier releases have recorded
  RanOn,       \* the entity an execution was run on, or NoPub: a relation
  Found,       \* the entities an execution is linked to, by pairs
  FirstDbs,    \* the databases to begin with
  Together,    \* bound: the exporters that are at work at once
  MaxVersions, \* bound: committed states of the database
  MaxNodes,    \* nodes a snapshot may hold
  MaxIndexed,  \* observations the correlations may index
  NoPub

(* The processes that publish, by role, and the files they publish.         *)
Exporters == {"worker", "review", "import", "export", "report"}
Files     == {"core", "correlation", "planner", "report"}

Derived(e) == <<"derived", e>>
Things     == Pieces \cup {Derived(e) : e \in Pieces}

(* A state of the database: rows, links by pairs, decisions on observations *)
(* by the piece they were extracted from.                                   *)
States ==
  [evidence : SUBSET Things, entities : SUBSET Persons,
   relations : SUBSET (Persons \X Persons), links : SUBSET (Things \X Persons),
   extractions : SUBSET Pieces, rejected : SUBSET Pieces,
   promoted : SUBSET (Pieces \X Persons), executions : SUBSET Executions]

Results(t) == {q \in Found : q[1] \in t.executions}

(* What foreign keys keep: an execution is linked to entities by them, the  *)
(* entity it was run on is not.                                            *)
Anchored(t) ==
  /\ t.extractions \subseteq t.evidence
  /\ \A r \in t.relations : r[1] \in t.entities /\ r[2] \in t.entities
  /\ \A l \in t.links : l[1] \in t.evidence /\ l[2] \in t.entities
  /\ \A q \in t.promoted : q[1] \in t.extractions /\ q[2] \in t.entities
  /\ \A q \in Results(t) : q[2] \in t.entities

ASSUME PublicationAssumption ==
  /\ RanOn \in [Executions -> Persons \cup {NoPub}]
  /\ Found \subseteq Executions \X Persons
  /\ \A t \in FirstDbs : t \in States /\ Anchored(t)
  /\ Together \subseteq SUBSET Exporters
  /\ MaxVersions \in Nat /\ MaxNodes \in Nat /\ MaxIndexed \in Nat
  /\ NoPub \notin Nat

VARIABLES
  history,  \* the committed states of the database, oldest first
  jobs,     \* the analysis of each piece, in the other database
  pub,      \* each process: what it publishes and what it has read
  published \* the published files

pubVars == <<history, jobs, pub, published>>

Version == Len(history)
Now     == history[Version]

Blank   == [nodes |-> {}, edges |-> {}]
Still   == [at |-> "idle", todo |-> <<>>, view |-> NoPub, graph |-> Blank,
            list |-> NoPub, base |-> 0, wrote |-> 0, why |-> NoPub]

(* Two exporters are at work at once: which ones is chosen first.           *)
PubInit(some, first) ==
  /\ history = <<first>>
  /\ jobs = [e \in Pieces |-> IF e \in first.extractions THEN "done" ELSE "none"]
  /\ pub  = [p \in Exporters |-> IF p \in some THEN Still ELSE [Still EXCEPT !.at = "absent"]]
  /\ published = [f \in Files |-> NoPub]

-----------------------------------------------------------------------------
(* The projection of a state: the reference the steps below must reach.    *)

Node(kind, x) == <<kind, x>>
Edge(a, b)    == <<a, b>>

GraphNodes(t)   == {Node("entity", n) : n \in t.entities}
Relations(t)    == {Edge(Node("entity", r[1]), Node("entity", r[2])) : r \in t.relations}
EvidenceNodes(t) == {Node("evidence", e) : e \in t.evidence}
Attachments(t)  == {Edge(Node("evidence", l[1]), Node("entity", l[2])) : l \in t.links}
ExtractionNodes(t) == {Node("extraction", e) : e \in t.extractions}
(* The end of an extraction that is not listed is left out.                *)
ExtractionEdges(t, known) ==
  {Edge(Node("evidence", e), Node("extraction", e)) :
      e \in {x \in t.extractions : Node("evidence", x) \in known}} \cup
  {Edge(Node("extraction", e), Node("evidence", Derived(e))) :
      e \in {x \in t.extractions : Node("evidence", Derived(x)) \in known}}
ObservationNodes(t) == {Node("observation", e) : e \in t.extractions}
ObservationEdges(t, known) ==
  {Edge(Node("evidence", e), Node("observation", e)) : e \in t.extractions} \cup
  {Edge(Node("observation", q[1]), Node("entity", q[2])) : q \in t.promoted} \cup
  {Edge(Node("extraction", e), Node("observation", e)) :
      e \in {x \in t.extractions : Node("extraction", x) \in known}}
ExecutionNodes(t) == {Node("execution", x) : x \in t.executions}
ExecutionEdges(t) ==
  {Edge(Node("entity", RanOn[x]), Node("execution", x)) :
      x \in {y \in t.executions : RanOn[y] # NoPub}} \cup
  {Edge(Node("execution", q[1]), Node("entity", q[2])) : q \in Results(t)}

(* All but the executions, then the whole.                                 *)
WithoutRuns(t) ==
  LET kept == GraphNodes(t) \cup EvidenceNodes(t) \cup ExtractionNodes(t)
  IN [nodes |-> kept \cup ObservationNodes(t),
      edges |-> Relations(t) \cup Attachments(t) \cup ExtractionEdges(t, kept) \cup
                ObservationEdges(t, kept)]
Projection(t) ==
  [nodes |-> WithoutRuns(t).nodes \cup ExecutionNodes(t),
   edges |-> WithoutRuns(t).edges \cup ExecutionEdges(t)]

Fits(g)  == Cardinality(g.nodes) <= MaxNodes
Ended(g) == \A x \in g.edges : x[1] \in g.nodes /\ x[2] \in g.nodes

(* The observations that share a value, of those the index holds.          *)
Groups(t, indexed) ==
  {s \in SUBSET (indexed \ t.rejected) :
     /\ Cardinality(s) >= 2
     /\ \E v \in {Valued[e] : e \in s} : s = {e \in indexed \ t.rejected : Valued[e] = v}}

(* What the selected nodes come from, back to the evidence.                *)
Provenance(g) == {x \in g.edges : x[1][1] # "entity" \/ x[2][1] # "entity"}
Follows(g, s) == \A x \in Provenance(g) : x[2] \in s => x[1] \in s
(* The loop adds the source of one edge at a time until none is missing.    *)
Closure(g, s) ==
  {n \in g.nodes : \A c \in SUBSET g.nodes : s \subseteq c /\ Follows(g, c) => n \in c}

-----------------------------------------------------------------------------
(* The database: each service commits a whole change.                      *)

Committed(t) == Version < MaxVersions /\ history' = Append(history, t)

Everything == <<"core", "correlation", "planner">>
Publish(p, stages, base) ==
  pub' = [pub EXCEPT ![p] = [Still EXCEPT !.at = "next", !.todo = stages, !.base = base]]

(* An entity is given an identifier no other has had.                      *)
Nameable(n) == n \in Now.entities \/ \A v \in 1..Version : n \notin history[v].entities

Relate(n, m) ==
  /\ n # m /\ <<n, m>> \notin Now.relations /\ Nameable(n) /\ Nameable(m)
  /\ Committed([Now EXCEPT !.entities = @ \cup {n, m}, !.relations = @ \cup {<<n, m>>}])
  /\ UNCHANGED <<jobs, pub, published>>

(* What keeps an entity: rows that name it. That an execution was run on it *)
(* is not counted.                                                         *)
Kept(t, n) ==
  \/ \E l \in t.links \cup t.promoted \cup Results(t) : l[2] = n
  \/ \E r \in t.relations : n \in {r[1], r[2]}

(* The promotion is taken back, and the entity with it if nothing keeps it. *)
DetachPiece(e, n) ==
  /\ <<e, n>> \in Now.promoted
  /\ LET t == [Now EXCEPT !.promoted = @ \ {<<e, n>>}, !.links = @ \ {<<e, n>>}]
     IN Committed(IF Kept(t, n) THEN t ELSE [t EXCEPT !.entities = @ \ {n}])
  /\ UNCHANGED <<jobs, pub, published>>

Import(e) ==
  /\ pub["import"].at = "idle" /\ e \notin Now.evidence
  /\ Committed([Now EXCEPT !.evidence = @ \cup {e}])
  /\ Publish("import", Everything, 0) /\ UNCHANGED <<jobs, published>>

Submit(e) ==
  /\ e \in Now.evidence /\ jobs[e] = "none"
  /\ jobs' = [jobs EXCEPT ![e] = "active"] /\ UNCHANGED <<history, pub, published>>

(* The worker commits the analysis, then ends the job, then publishes.      *)
Analyse(e) ==
  /\ pub["worker"].at = "idle" /\ jobs[e] = "active" /\ e \notin Now.extractions
  /\ Committed([Now EXCEPT !.evidence = @ \cup {Derived(e)}, !.extractions = @ \cup {e}])
  /\ UNCHANGED <<jobs, pub, published>>

EndJob(e) ==
  /\ pub["worker"].at = "idle" /\ jobs[e] = "active" /\ e \in Now.extractions
  /\ jobs' = [jobs EXCEPT ![e] = "done"]
  /\ Publish("worker", Everything, 0) /\ UNCHANGED <<history, published>>

Reviewed(t) ==
  /\ pub["review"].at = "idle" /\ pub["review"].base = 0
  /\ Committed(t) /\ Publish("review", Everything, Version + 1) /\ UNCHANGED <<jobs, published>>

Reject(e) == e \in Now.extractions \ Now.rejected
             /\ Reviewed([Now EXCEPT !.rejected = @ \cup {e}])
PromotePiece(e, n) ==
  /\ e \in Now.extractions /\ \A q \in Now.promoted : q[1] # e
  /\ Nameable(n)
  /\ Reviewed([Now EXCEPT !.entities = @ \cup {n}, !.promoted = @ \cup {<<e, n>>},
                          !.links = @ \cup {<<e, n>>}])
WithdrawPiece(e, n) ==
  /\ <<e, n>> \in Now.promoted
  /\ Reviewed([Now EXCEPT !.promoted = @ \ {<<e, n>>}, !.links = @ \ {<<e, n>>}])

(* The same operation again, after a failure or a kill: it is answered from *)
(* the journal and only publishes.                                         *)
ReviewAgain ==
  /\ pub["review"].at = "idle" /\ pub["review"].base # 0
  /\ Publish("review", Everything, pub["review"].base) /\ UNCHANGED <<history, jobs, published>>

ExportCommand ==
  /\ pub["export"].at = "idle"
  /\ Publish("export", <<"correlation", "planner">>, 0) /\ UNCHANGED <<history, jobs, published>>

PreviewReport ==
  /\ pub["report"].at = "idle"
  /\ Publish("report", <<"report">>, 0) /\ UNCHANGED <<history, jobs, published>>

-----------------------------------------------------------------------------
(* A read transaction: it sees the state at its first SELECT to its end.    *)

Seen(p)      == history[pub[p].view]
LookAnew(p)  == Now                    \* Fault: each SELECT on its own.
Look(p)      == Seen(p)
Stage(p)     == Head(pub[p].todo)
Go(p, next)  == pub' = [pub EXCEPT ![p] = next] /\ UNCHANGED <<history, jobs, published>>
Move(p, at)  == [pub[p] EXCEPT !.at = at]

(* Fault: everyone goes on with the next file.                             *)
GoesOn(p, why) == [pub[p] EXCEPT !.at = "next", !.todo = Tail(@), !.why = why]

(* What a failed export means to each caller: the worker goes on with the   *)
(* next file, the others give up; a review can be sent again.              *)
Failed(p, why) ==
  IF p = "worker" THEN [Still EXCEPT !.at = "next", !.todo = Tail(pub[p].todo), !.why = why]
  ELSE [Still EXCEPT !.base = pub[p].base, !.why = why]

BeginRead(p) ==
  /\ pub[p].at = "next" /\ pub[p].todo # <<>>
  /\ Go(p, [Move(p, CASE Stage(p) \in {"core", "report"} -> "graph"
                      [] Stage(p) = "correlation" -> "indexed"
                      [] OTHER -> "pieces")
            EXCEPT !.view = Version, !.graph = Blank, !.list = NoPub])

(* Nodes then edges are added; a full snapshot or an edge without its end   *)
(* refuses the projection. "why" keeps the state so refused.               *)
Grow(p, nodes, edges, next) ==
  LET g == [nodes |-> pub[p].graph.nodes \cup nodes, edges |-> pub[p].graph.edges \cup edges]
  IN Go(p, IF ~Fits(g) THEN Failed(p, NoPub)
           ELSE IF ~Ended(g) THEN Failed(p, pub[p].view)
           ELSE [Move(p, next) EXCEPT !.graph = g])

ReadGraph(p) ==
  /\ pub[p].at = "graph"
  /\ Grow(p, GraphNodes(Look(p)), Relations(Look(p)), "evidence")
ReadEvidence(p) ==
  /\ pub[p].at = "evidence"
  /\ Grow(p, EvidenceNodes(Look(p)), Attachments(Look(p)), "extractions")
ReadExtractions(p) ==
  /\ pub[p].at = "extractions"
  /\ Grow(p, ExtractionNodes(Look(p)), ExtractionEdges(Look(p), pub[p].graph.nodes),
          "observations")
ReadObservations(p) ==
  /\ pub[p].at = "observations"
  /\ Grow(p, ObservationNodes(Look(p)), ObservationEdges(Look(p), pub[p].graph.nodes),
          "executions")
ReadExecutions(p) ==
  /\ pub[p].at = "executions"
  /\ Grow(p, ExecutionNodes(Look(p)), ExecutionEdges(Look(p)),
          IF Stage(p) = "report" THEN "select" ELSE "write")

(* The correlations: evidence, then the observations of each, up to the     *)
(* limit; a truncated index is said to be incomplete.                      *)
IndexObservations(p) ==
  /\ pub[p].at = "indexed"
  /\ \E s \in SUBSET Look(p).extractions :
       /\ Cardinality(s) <= MaxIndexed
       /\ s # Look(p).extractions => Cardinality(s) = MaxIndexed
       /\ Go(p, [Move(p, "write") EXCEPT
              !.list = [groups |-> Groups(Look(p), s), complete |-> s = Look(p).extractions]])

(* The planner: three SELECTs, no transaction, the last on the job store.   *)
ListPieces(p) ==
  /\ pub[p].at = "pieces"
  /\ Go(p, [Move(p, "extracted") EXCEPT !.list = [evidence |-> Now.evidence]])
ListExtractions(p) ==
  /\ pub[p].at = "extracted"
  /\ Go(p, [Move(p, "jobs") EXCEPT !.list =
         [evidence |-> @.evidence, extractions |-> Now.extractions]])
ListJobs(p) ==
  /\ pub[p].at = "jobs"
  /\ LET l == pub[p].list
         active == {e \in Pieces : jobs[e] = "active"}
     IN Go(p, [Move(p, "write") EXCEPT !.list =
          [evidence |-> l.evidence, extractions |-> l.extractions, active |-> active,
           available |-> (l.evidence \cap Pieces) \ (l.extractions \cup active)]])

(* The selection of a report must exist; what it comes from goes with it.   *)
SelectReport(p) ==
  /\ pub[p].at = "select"
  /\ \E s \in SUBSET pub[p].graph.nodes :
       /\ Cardinality(s) = 1
       /\ Go(p, [Move(p, "write") EXCEPT
              !.list = [chosen |-> s, included |-> Closure(pub[p].graph, s)]])

(* The end of the read, the staging file and the rename over the old one.   *)
Product(p) ==
  CASE Stage(p) = "core"  -> [version |-> pub[p].view, graph |-> pub[p].graph]
    [] OTHER -> [version |-> pub[p].view, list |-> pub[p].list]
WriteFile(p) ==
  /\ pub[p].at = "write"
  /\ published' = [published EXCEPT ![Stage(p)] = Product(p)]
  /\ pub' = [pub EXCEPT ![p] =
       [Still EXCEPT !.at = "next", !.todo = Tail(pub[p].todo), !.base = pub[p].base,
          !.wrote = IF pub[p].view >= pub[p].base THEN pub[p].wrote + 1 ELSE pub[p].wrote]]
  /\ UNCHANGED <<history, jobs>>

ExportFails(p) == pub[p].at \notin {"idle", "next", "absent"} /\ Go(p, Failed(p, NoPub))

(* The caller answers once every file is out, or never had to answer.       *)
AnswerExport(p) ==
  /\ pub[p].at = "next" /\ pub[p].todo = <<>>
  /\ Go(p, Still)

KillExporter(p) == pub[p].at \notin {"idle", "absent"} /\ Go(p, [Still EXCEPT !.base = pub[p].base])

-----------------------------------------------------------------------------
Services ==
  \/ \E n, m \in Persons : Relate(n, m)
  \/ \E e \in Pieces : Import(e) \/ Submit(e) \/ Analyse(e) \/ EndJob(e) \/ Reject(e)
  \/ \E e \in Pieces, n \in Persons : 
       PromotePiece(e, n) \/ WithdrawPiece(e, n) \/ DetachPiece(e, n)
  \/ ReviewAgain \/ ExportCommand \/ PreviewReport

Exports(p) ==
  \/ BeginRead(p) \/ ReadGraph(p) \/ ReadEvidence(p) \/ ReadExtractions(p)
  \/ ReadObservations(p) \/ ReadExecutions(p) \/ IndexObservations(p) \/ ListPieces(p) \/ ListExtractions(p)
  \/ ListJobs(p) \/ SelectReport(p) \/ WriteFile(p) \/ ExportFails(p) \/ AnswerExport(p)
  \/ KillExporter(p)

PubNext == Services \/ \E p \in Exporters : Exports(p)

PubSpec == (\E some \in Together, first \in FirstDbs : PubInit(some, first)) /\ [][PubNext]_pubVars
-----------------------------------------------------------------------------
NodeKinds == {"entity", "evidence", "extraction", "observation", "execution"}
AllNodes  == NodeKinds \X (Things \cup Persons \cup Executions)
Graphs    == [nodes : SUBSET AllNodes, edges : SUBSET (AllNodes \X AllNodes)]
Lists ==
  [groups : SUBSET SUBSET Pieces, complete : BOOLEAN] \cup
  [evidence : SUBSET Things] \cup
  [evidence : SUBSET Things, extractions : SUBSET Pieces] \cup
  [evidence : SUBSET Things, extractions : SUBSET Pieces, active : SUBSET Pieces,
   available : SUBSET Pieces] \cup
  [chosen : SUBSET AllNodes, included : SUBSET AllNodes]
Gatherings == {"graph", "evidence", "extractions", "observations", "executions"}
Readings   == Gatherings \cup {"select", "indexed", "pieces", "extracted", "jobs", "write"}
PubRows ==
  [at : Readings \cup {"absent", "idle", "next"}, todo : Seq(Files),
   view : Nat \cup {NoPub}, graph : Graphs, list : Lists \cup {NoPub},
   base : Nat, wrote : Nat, why : Nat \cup {NoPub}]
Products ==
  [version : Nat, graph : Graphs] \cup [version : Nat, list : Lists \cup {NoPub}]

PubTypeOK ==
  /\ history \in Seq(States) /\ Version > 0
  /\ jobs \in [Pieces -> {"none", "active", "done"}]
  /\ pub \in [Exporters -> PubRows]
  /\ published \in [Files -> Products \cup {NoPub}]

(* No state that was committed has an end that dangles, and what is to be   *)
(* analysed is evidence.                                                    *)
StatesAnchored ==
  /\ \A v \in 1..Version : Anchored(history[v])
  /\ \A e \in Pieces : jobs[e] # "none" => e \in Now.evidence

(* Where a process is, which file it makes and which state it looks at.     *)
ReadsOneState ==
  \A p \in Exporters : pub[p].at \in Readings =>
    /\ pub[p].todo # <<>> /\ pub[p].view \in 1..Version
    /\ pub[p].at \in Gatherings => Stage(p) \in {"core", "report"}
    /\ pub[p].at = "select" => Stage(p) = "report"
    /\ pub[p].at = "indexed" => Stage(p) = "correlation"
    /\ pub[p].at \in {"pieces", "extracted", "jobs"} => Stage(p) = "planner"
    /\ pub[p].at = "extracted" => pub[p].list \in [evidence : SUBSET Things]
    /\ pub[p].at = "jobs"
         => pub[p].list \in [evidence : SUBSET Things, extractions : SUBSET Pieces]

(* What a process has of the graph before each reading, of state t.         *)
Gathered(t, at) ==
  CASE at = "graph"       -> Blank
    [] at = "evidence"    -> [nodes |-> GraphNodes(t), edges |-> Relations(t)]
    [] at = "extractions" -> [nodes |-> GraphNodes(t) \cup EvidenceNodes(t),
                              edges |-> Relations(t) \cup Attachments(t)]
    [] at = "observations" ->
         LET kept == GraphNodes(t) \cup EvidenceNodes(t) \cup ExtractionNodes(t)
         IN [nodes |-> kept,
             edges |-> Relations(t) \cup Attachments(t) \cup ExtractionEdges(t, kept)]
    [] at = "executions" -> WithoutRuns(t)
    [] OTHER -> Projection(t)

Whole(list, t)  == list.complete => list.groups = Groups(t, t.extractions)
Backed(list, g) == list.chosen \subseteq g.nodes /\ Follows(g, list.included)

(* The executions of a state that were run on an entity no longer there.    *)
Orphans(t) == {x \in t.executions : RanOn[x] # NoPub /\ RanOn[x] \notin t.entities}

(* A refusal is owed to an orphan.                                         *)
RefusedForOrphan(why) ==
  why # NoPub => why \in 1..Version /\ Orphans(history[why]) # {}

(* What is in hand is of the state looked at, and holds together.           *)
GathersOneState ==
  \A p \in Exporters :
    /\ RefusedForOrphan(pub[p].why)
    /\ pub[p].at \in Readings =>
         /\ Stage(p) \in {"core", "report"} =>
              pub[p].graph = Gathered(Seen(p), pub[p].at) /\ Ended(pub[p].graph)
         /\ pub[p].at = "write" /\ Stage(p) = "correlation" => Whole(pub[p].list, Seen(p))
         /\ pub[p].at = "write" /\ Stage(p) = "report"
              => Backed(pub[p].list, Projection(Seen(p)))

(* Every published file is that of one committed state: the graph is its    *)
(* whole projection and no edge of it lacks an end, correlations said to be  *)
(* complete are all of them, a report holds all its selection comes from. A  *)
(* state is refused for an edge without an end in one case only: an         *)
(* execution in it was run on an entity that has been removed.              *)
PublishedWhole ==
  /\ \A p \in Exporters : RefusedForOrphan(pub[p].why)
  /\ published["core"] # NoPub =>
       /\ published["core"].graph = Projection(history[published["core"].version])
       /\ Ended(published["core"].graph)
  /\ published["correlation"] # NoPub =>
       Whole(published["correlation"].list, history[published["correlation"].version])
  /\ published["report"] # NoPub =>
       Backed(published["report"].list, Projection(history[published["report"].version]))

(* Not kept: no state the services leave is refused for an edge without an  *)
(* end. An entity is removed although an execution was run on it.           *)
NoneRefused == \A p \in Exporters : pub[p].why = NoPub

VersionsKnown ==
  \A f \in Files : published[f] # NoPub => published[f].version \in 1..Version

(* A review that is answered as published has itself written the three      *)
(* files from a state it is part of, however often it had to be sent.       *)
ReviewRefreshed ==
  pub["review"].at = "next" /\ pub["review"].todo = <<>> => pub["review"].wrote = 3

(* What is left to publish for a review and what it has written are three   *)
(* files, and it looks at nothing older than its decision.                  *)
ReviewCounts ==
  LET r == pub["review"]
  IN /\ r.base <= Version
     /\ r.at \notin {"absent", "idle"} => Len(r.todo) + r.wrote = 3
     /\ r.at \in Readings => r.view >= r.base

(* The inductive invariant of what is published.                           *)
PubIInv ==
  /\ PubTypeOK /\ StatesAnchored /\ ReadsOneState /\ GathersOneState
  /\ PublishedWhole /\ VersionsKnown /\ ReviewCounts
=============================================================================
