------------------------------ MODULE GraphLoad ------------------------------
(* Loading the investigation graph (investigation_graph_load_task.c,       *)
(* investigation_graph_loader.c, investigation_graph_model.c): a background *)
(* task opens a connection of its own and reads entities, relations and     *)
(* positions in three statements, no transaction around them, while others  *)
(* write the same tables.  Its owner starts, cancels and frees loads on the *)
(* main loop, also from inside the callback of one.                         *)
EXTENDS TaskRuntime

CONSTANTS
  Loads,  \* the tasks that loads may create
  Nodes,  \* entities
  Edges,  \* relations
  Ends    \* the two entities of a relation

ASSUME GraphAssumption ==
  Loads \subseteq Tasks /\ Ends \in [Edges -> Nodes \X Nodes]

VARIABLES
  db,     \* the committed tables
  load,   \* the InvestigationGraphLoadTask
  data,   \* the user data of each start: held, lent to the callback, destroyed
  at,     \* where each worker is
  graph   \* what each worker has read

graphVars == <<runtimeVars, db, load, data, at, graph>>

Nothing == [ents |-> {}, rels |-> {}]

GraphInit ==
  /\ RuntimeInit
  /\ db = Nothing
  /\ load = [refs |-> 1, disposed |-> FALSE, running |-> FALSE, task |-> None,
             callback |-> None, layout |-> None]
  /\ data  = [t \in Loads |-> "none"]
  /\ at    = [t \in Loads |-> "idle"]
  /\ graph = [t \in Loads |-> Nothing]

-----------------------------------------------------------------------------
(* Writers on other connections: the deletion of an entity is refused while *)
(* a relation names it.                                                     *)

Touching(n) == {e \in Edges : n \in {Ends[e][1], Ends[e][2]}}

Write(tables) == db' = tables /\ UNCHANGED <<runtimeVars, load, data, at, graph>>

AddEntity(n) == n \notin db.ents /\ Write([db EXCEPT !.ents = @ \cup {n}])

RemoveEntity(n) ==
  /\ n \in db.ents /\ Touching(n) \cap db.rels = {}
  /\ Write([db EXCEPT !.ents = @ \ {n}])

AddRelation(e) ==
  /\ e \notin db.rels /\ {Ends[e][1], Ends[e][2]} \subseteq db.ents
  /\ Write([db EXCEPT !.rels = @ \cup {e}])

RemoveRelation(e) == e \in db.rels /\ Write([db EXCEPT !.rels = @ \ {e}])

-----------------------------------------------------------------------------
(* The owner, on the main loop: between events or inside a callback.        *)

InCallback == \E t \in Loads : inside = t /\ data[t] = "lent"
OwnerFree  == inside = None \/ InCallback

DestroyData(t) == [data EXCEPT ![t] = "destroyed"]

(* One reference less; the last one destroys the layout not taken.          *)
LetGo(l) == [l EXCEPT !.refs = @ - 1, !.layout = IF l.refs = 1 THEN None ELSE @]

(* investigation_graph_load_task_start: the background task is created and  *)
(* started under the mutex; the completion holds the load task.             *)
LoadStart(t) ==
  /\ OwnerFree /\ ~load.disposed /\ ~load.running /\ tstate[t] = "none"
  /\ tstate' = [tstate EXCEPT ![t] = "running"]
  /\ run' = [run EXCEPT ![t] = "queued"]
  /\ own' = [own EXCEPT ![t] = TRUE]
  /\ refs' = [refs EXCEPT ![t] = 2]
  /\ load' = [load EXCEPT !.refs = @ + 1, !.running = TRUE, !.task = t,
                          !.callback = t, !.layout = None]
  /\ data' = [data EXCEPT ![t] = "held"]
  /\ at' = [at EXCEPT ![t] = "open"]
  /\ UNCHANGED <<asked, result, inside, managerVars, db, graph>>

LoadCancel ==
  /\ OwnerFree /\ ~load.disposed /\ load.running
  /\ CancelTask(load.task)
  /\ UNCHANGED <<db, load, data, at, graph>>

(* The data of a pending callback is destroyed at once, the callback never  *)
(* called, and the running task asked to stop.                              *)
LoadFree ==
  /\ OwnerFree /\ ~load.disposed
  /\ load' = LetGo([load EXCEPT !.disposed = TRUE, !.callback = None])
  /\ data' = IF load.callback = None THEN data ELSE DestroyData(load.callback)
  /\ IF load.running THEN CancelTask(load.task) ELSE UNCHANGED runtimeVars
  /\ UNCHANGED <<db, at, graph>>

TakeLayout ==
  /\ OwnerFree /\ ~load.disposed /\ load.layout # None
  /\ load' = [load EXCEPT !.layout = None]
  /\ UNCHANGED <<runtimeVars, db, data, at, graph>>

-----------------------------------------------------------------------------
(* investigation_graph_load_task_worker *)

Reading(t, step) == run[t] = "working" /\ at[t] = step

Read(t, step, next, what) ==
  /\ Reading(t, step) /\ ~asked[t]
  /\ graph' = [graph EXCEPT ![t] = what]
  /\ at' = [at EXCEPT ![t] = next]
  /\ UNCHANGED <<runtimeVars, db, load, data>>

Open(t) == Read(t, "open", "entities", Nothing)

ReadEntities(t) ==
  Read(t, "entities", "relations", [graph[t] EXCEPT !.ents = db.ents])

(* A relation is only accepted between entities of the model.              *)
Fits(t) == \A e \in db.rels : {Ends[e][1], Ends[e][2]} \subseteq graph[t].ents

(* Fault: the model takes any relation.                                    *)
ReadRelationsBlindly(t) ==
  Read(t, "relations", "positions", [graph[t] EXCEPT !.rels = db.rels])

ReadRelations(t) ==
  Fits(t) /\ Read(t, "relations", "positions", [graph[t] EXCEPT !.rels = db.rels])

ReadPositions(t) == Read(t, "positions", "result", graph[t])

Quit(t, what) ==
  /\ at' = [at EXCEPT ![t] = "idle"]
  /\ graph' = [graph EXCEPT ![t] = what]
  /\ UNCHANGED <<db, load, data>>

(* The cancellable is looked at before each reading and at the end.        *)
LoadStops(t) ==
  at[t] # "idle" /\ asked[t] /\ WorkerReturns(t, FALSE, "stopped") /\ Quit(t, Nothing)

(* A relation whose end was committed after the entities were read, or a   *)
(* database that cannot be opened or read.                                 *)
LoadFails(t) ==
  /\ at[t] \in {"open", "entities", "relations", "positions"}
  /\ WorkerReturns(t, FALSE, "other")
  /\ Quit(t, Nothing)

LoadSucceeds(t) ==
  at[t] = "result" /\ ~asked[t] /\ WorkerReturns(t, TRUE, "none") /\ Quit(t, graph[t])

-----------------------------------------------------------------------------
(* investigation_graph_load_task_on_completed *)

LoadPropagate(t) == Propagate(t) /\ UNCHANGED <<db, load, data, at, graph>>
LoadSettle(t)    == Settle(t) /\ UNCHANGED <<db, load, data, at, graph>>

(* The task of the completion that runs has shown its end and is still the *)
(* one of the load.                                                        *)
Completes(t) == run[t] = "delivering" /\ load.task = t

(* Fault: a disposed load keeps its task.                                  *)
LoadCompletedLeaving(t) ==
  /\ Completes(t)
  /\ load' = IF load.disposed THEN load ELSE
       [load EXCEPT !.running = FALSE, !.task = None, !.callback = None,
                    !.layout = IF tstate[t] = "completed" THEN t ELSE @]
  /\ data' = IF load.callback = None THEN data ELSE [data EXCEPT ![t] = "lent"]
  /\ UNCHANGED <<runtimeVars, db, at, graph>>

(* Under the mutex the callback and its data are taken away, then it is    *)
(* called without it: a new load may start, or the load task be freed.     *)
LoadCompleted(t) ==
  /\ Completes(t)
  /\ load' = [load EXCEPT
       !.running = FALSE, !.task = None, !.callback = None,
       !.layout = IF load.callback # None /\ tstate[t] = "completed" THEN t ELSE @]
  /\ data' = IF load.callback = None THEN data ELSE [data EXCEPT ![load.callback] = "lent"]
  /\ UNCHANGED <<runtimeVars, db, at, graph>>

(* The callback returns: its data is destroyed, the task let go; the graph *)
(* is the owner's.                                                         *)
CallbackReturns(t) ==
  /\ run[t] = "delivering" /\ load.task # t
  /\ Drop(t)
  /\ data' = IF data[t] = "lent" THEN DestroyData(t) ELSE data
  /\ UNCHANGED <<db, load, at, graph>>

LoadDelivered(t) ==
  /\ ~own[t]
  /\ Delivered(t)
  /\ load' = LetGo(load)
  /\ graph' = [graph EXCEPT ![t] = Nothing]
  /\ UNCHANGED <<db, data, at>>

Worker(t) ==
  \/ BeginWork(t) /\ UNCHANGED <<db, load, data, at, graph>>
  \/ Open(t) \/ ReadEntities(t) \/ ReadRelations(t) \/ ReadPositions(t)
  \/ LoadStops(t) \/ LoadFails(t) \/ LoadSucceeds(t)

Completion(t) ==
  LoadSettle(t) \/ LoadCompleted(t) \/ CallbackReturns(t) \/ LoadDelivered(t)

MainLoop(t) == LoadPropagate(t) \/ Completion(t)

Owner ==
  (\E t \in Loads : LoadStart(t)) \/ LoadCancel \/ LoadFree \/ TakeLayout

Writer ==
  \/ \E n \in Nodes : AddEntity(n) \/ RemoveEntity(n)
  \/ \E e \in Edges : AddRelation(e) \/ RemoveRelation(e)

GraphNext == Owner \/ Writer \/ \E t \in Loads : Worker(t) \/ MainLoop(t)

(* Threads of the pool go on and the main loop takes up every completion;  *)
(* owners and writers may do nothing.                                      *)
GraphFairness ==
  \A t \in Loads : WF_graphVars(Worker(t)) /\ SF_graphVars(LoadPropagate(t))
                   /\ WF_graphVars(Completion(t))

GraphSpec == GraphInit /\ [][GraphNext]_graphVars /\ GraphFairness

-----------------------------------------------------------------------------
Pending(t) == run[t] \notin {"none", "done"}

Tables   == [ents : SUBSET Nodes, rels : SUBSET Edges]
LoadRows ==
  [refs : Nat, disposed : BOOLEAN, running : BOOLEAN, task : Loads \cup {None},
   callback : Loads \cup {None}, layout : Loads \cup {None}]

LoadTypeOK ==
  /\ db \in Tables
  /\ load \in LoadRows
  /\ data \in [Loads -> {"none", "held", "lent", "destroyed"}]
  /\ at \in [Loads -> {"idle", "open", "entities", "relations", "positions", "result"}]
  /\ graph \in [Loads -> Tables]

(* The load task is held by its owner and by each completion to come, and  *)
(* a load runs exactly while its task has not been completed.              *)
LoadLedger ==
  /\ load.refs = B(~load.disposed) + Cardinality({t \in Loads : Pending(t)})
  /\ load.running <=> load.task # None
  /\ \A t \in Loads :
       /\ tstate[t] = "running" => load.task = t
       /\ load.task = t => own[t] /\ (tstate[t] = "running" \/ run[t] = "delivering")
  /\ load.callback # None => load.callback = load.task /\ ~load.disposed
  /\ load.refs = 0 => load.layout = None

(* The data of a start is destroyed exactly when nobody will be called     *)
(* with it any more.                                                       *)
DataOnce ==
  \A t \in Loads :
    /\ data[t] = "none" <=> tstate[t] = "none"
    /\ data[t] = "held" <=> load.callback = t
    /\ data[t] = "lent" => run[t] = "delivering" /\ load.task # t /\ own[t]
    /\ run[t] = "done" => data[t] = "destroyed"

Closed(t) == \A e \in graph[t].rels : {Ends[e][1], Ends[e][2]} \subseteq graph[t].ents

(* A graph handed over has both ends of each relation, whatever was        *)
(* written between the readings, and its layout is that of the last load.  *)
GraphsClosed ==
  /\ \A t \in Loads :
       /\ tstate[t] = "none" \/ at[t] \in {"open", "entities", "relations"}
            => graph[t].rels = {}
       /\ at[t] \in {"positions", "result"} \/ run[t] \in {"ok", "completed"}
          \/ tstate[t] = "completed"
            => Closed(t)
  /\ load.layout # None =>
       /\ ~load.running
       /\ tstate[load.layout] \in {"completed", "freed"}
       /\ run[load.layout] \in {"delivering", "done"}
       /\ \A t \in Loads : run[t] = "delivering" => t = load.layout

(* The inductive invariant of a load: tasks, ledger, data and graphs agree. *)
LoadIInv == LoadTypeOK /\ LoadLedger /\ DataOnce /\ GraphsClosed

(* A load ends, also one that is cancelled or whose owner is gone.         *)
LoadEnds == load.running ~> ~load.running
=============================================================================
