------------------------------ MODULE MCRecords -----------------------------
(* Records with two connections, an e-mail of two observations and a file   *)
(* that can be dropped, two entities that may be related; beside it,        *)
(* GraphPublication over two pieces of which one is analysed already, and   *)
(* the calls of the data access objects over the rows of one investigation.  *)
(* The three share nothing: "scope" says which one a behaviour is about.    *)
EXTENDS Records, GraphPublication, MCReads, TLC

VARIABLE scope

CONSTANTS c1, c2, mail, file, o1, o2, p1, p2, y1, y2, x1, x2

MCConns        == {c1, c2}
MCEvidence     == {mail}
MCDropped      == {file}
MCEntities     == {n1, n2}
MCObservations == {o1, o2}
MCEvidenceOf   == [o \in {o1, o2} |-> mail]
MCExtracted    == o1 :> n1 @@ o2 :> n1
MCPairs        == {<<n1, n2>>}
MCTypes        == {y1, y2}
MCOps          == {p1, p2}
MCMaxCommits   == 4
MCPieces       == {e1, e2}
MCValued       == e1 :> "v" @@ e2 :> "v"
MCTogether     == {{"worker", "review"}, {"worker", "export"}, {"review", "import"},
                   {"import", "report"}}
(* To begin with: a piece analysed and an execution run on the only entity,  *)
(* for every pair of exporters; both pieces analysed; none, and two         *)
(* executions, one with a result.                                          *)
MCExecutions   == {x1, x2}
MCRanOn        == x1 :> n1 @@ x2 :> NoPub
MCFound        == {<<x2, n2>>}
MCBase         == [evidence |-> {e1, <<"derived", e1>>}, entities |-> {n1}, relations |-> {},
                   links |-> {}, extractions |-> {e1}, rejected |-> {}, promoted |-> {},
                   executions |-> {x1}]
MCFirst        ==
  {MCBase,
   [MCBase EXCEPT !.evidence = @ \cup {e2, <<"derived", e2>>}, !.extractions = {e1, e2},
                  !.executions = {}],
   [MCBase EXCEPT !.evidence = {e1}, !.extractions = {}, !.entities = {n1, n2},
                  !.executions = {x1, x2}]}
MCMeet(some, first) ==
  \/ first = MCBase
  \/ some = {"worker", "review"}
  \/ some = {"import", "report"} /\ first.extractions = {}
MCPerms        == Permutations(MCConns) \cup Permutations(MCOps)

MCInit ==
  /\ RecordsInit /\ ReadsInit
  /\ \/ scope \in {"records", "rows"} /\ PubInit({}, MCBase)
     \/ scope = "publication" /\ \E some \in Together, first \in FirstDbs :
                                  MCMeet(some, first) /\ PubInit(some, first)
MCNext ==
  \/ scope = "records" /\ RecordsNext /\ UNCHANGED <<pubVars, readVars, scope>>
  \/ scope = "publication" /\ PubNext /\ UNCHANGED <<vars, readVars, scope>>
  \/ scope = "rows" /\ ReadsNext /\ UNCHANGED <<vars, pubVars, scope>>
MCSpec == MCInit /\ [][MCNext]_<<vars, pubVars, readVars, scope>>
=============================================================================
