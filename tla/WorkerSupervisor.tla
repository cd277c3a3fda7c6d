-------------------------- MODULE WorkerSupervisor --------------------------
(* The workspace server (prototypes/web-graph/workspace_server.py) runs    *)
(* the worker of the open investigation: HTTP handler threads call         *)
(* start_worker and stop_worker, one supervisor thread launches            *)
(* `local-jobs run' again and again while something waits.  They share     *)
(* the handle of the process, the stop event and the thread object; only   *)
(* single accesses are under the server's lock.  The job store and the     *)
(* worker process are reduced to what decides when the process ends: which *)
(* jobs wait or run, which of those that wait the store hands out, and     *)
(* what a new worker makes of those left running (JobStore and JobWorker   *)
(* have the rest).  Objects nobody refers to any more are used again.      *)
EXTENDS Integers, FiniteSets

CONSTANTS
  Handlers,    \* HTTP handler threads
  Threads,     \* supervisor thread objects
  Processes,   \* Popen objects
  Workspaces,  \* investigations of the library
  Jobs,
  Home,        \* the investigation of a job
  Plans,       \* plans of analyses
  PlanOf,      \* the plan of a job, None when it was submitted alone
  MaxFaults,   \* bound: killed workers and failed exports
  None

ASSUME ServerAssumption ==
  /\ Home \in [Jobs -> Workspaces]
  /\ PlanOf \in [Jobs -> Plans \cup {None}]
  /\ MaxFaults \in Nat
  /\ Cardinality(Threads) >= 2
  /\ Cardinality(Processes) >= Cardinality(Handlers) + 2
  /\ None \notin Threads \cup Processes \cup Workspaces \cup Jobs \cup Plans

VARIABLES
  workspace,   \* self.workspace, None when no investigation is open
  job,         \* what the job store of its investigation says of a job
  cancelled,   \* unfinished jobs whose cancellation was asked
  spent,       \* plans that have no active time left
  held,        \* the queue of the investigation is paused or stopped
  supervisor,  \* self.worker_supervisor
  stop_event,  \* self.worker_supervisor_stop
  handle,      \* self.worker
  thread,      \* the supervisor threads
  process,     \* the worker processes
  handler,     \* the requests being served
  faults

storeVars  == <<job, cancelled, spent, held>>
serverVars == <<supervisor, stop_event, handle>>
vars == <<workspace, storeVars, serverVars, thread, process, handler, faults>>

Asleep == [step |-> "dead", proc |-> None, pending |-> FALSE]
Gone   == [life |-> "ended", home |-> None, job |-> None, term |-> FALSE,
           todo |-> {}, flagged |-> {}]
Free   == [step |-> "idle", request |-> None, job |-> None, proc |-> None,
           was_running |-> FALSE]

Init ==
  /\ workspace \in Workspaces
  /\ job = [j \in Jobs |-> "absent"]
  /\ cancelled = {} /\ spent = {}
  /\ held = [w \in Workspaces |-> FALSE]
  /\ supervisor = None /\ stop_event = FALSE /\ handle = None
  /\ thread = [t \in Threads |-> Asleep]
  /\ process = [p \in Processes |-> Gone]
  /\ handler = [h \in Handlers |-> Free]
  /\ faults = 0

Alive(t)     == thread[t].step # "dead"
Running(p)   == process[p].life # "ended"
WaitingIn(w) == {j \in Jobs : Home[j] = w /\ job[j] = "waiting"}
RunningIn(w) == {j \in Jobs : Home[j] = w /\ job[j] = "running"}

(* What waits, and no claim will take.                                     *)
Refused(j)     == j \in cancelled \/ PlanOf[j] \in spent
ClaimableIn(w) == {j \in WaitingIn(w) : ~Refused(j)}

(* A job submitted alone, or the jobs of a plan.                           *)
Batches == {{j} : j \in {k \in Jobs : PlanOf[k] = None}}
             \cup {{j \in Jobs : PlanOf[j] = q} : q \in Plans}

Serve(h, step) == handler' = [handler EXCEPT ![h] = [@ EXCEPT !.step = step]]
Done(h)        == handler' = [handler EXCEPT ![h] = Free]

-----------------------------------------------------------------------------
(* The requests.  Each bridge call is a process of its own.                *)

Asks(h, request, step) ==
  handler' = [handler EXCEPT ![h] = [@ EXCEPT !.step = step, !.request = request]]

Submit(h, S) ==
  /\ handler[h] = Free
  /\ \A j \in S : workspace = Home[j] /\ job[j] = "absent"
  /\ job' = [j \in Jobs |-> IF j \in S THEN "waiting" ELSE job[j]]
  /\ Asks(h, "submit", "start")
  /\ UNCHANGED <<workspace, cancelled, spent, held, serverVars, thread, process,
                 faults>>

(* The export between the submission and start_worker fails: 409.          *)
SubmitFails(h) ==
  /\ handler[h].step = "start" /\ handler[h].request # "cancel"
  /\ faults < MaxFaults
  /\ faults' = faults + 1
  /\ Done(h)
  /\ UNCHANGED <<workspace, storeVars, serverVars, thread, process>>

(* Fault: a pause ends the worker as a stop does.                          *)
PauseStops(h) ==
  /\ handler[h] = Free
  /\ workspace \in Workspaces
  /\ held' = [held EXCEPT ![workspace] = TRUE]
  /\ Asks(h, "pause", "stop")
  /\ UNCHANGED <<workspace, job, cancelled, spent, serverVars, thread, process,
                 faults>>

Pause(h) ==
  /\ handler[h] = Free
  /\ workspace \in Workspaces
  /\ held' = [held EXCEPT ![workspace] = TRUE]
  /\ UNCHANGED <<workspace, job, cancelled, spent, serverVars, thread, process,
                 handler, faults>>

Resume(h) ==
  /\ handler[h] = Free
  /\ workspace \in Workspaces
  /\ held' = [held EXCEPT ![workspace] = FALSE]
  /\ Asks(h, "resume", "start")
  /\ UNCHANGED <<workspace, job, cancelled, spent, serverVars, thread, process,
                 faults>>

Stop(h) ==
  /\ handler[h] = Free
  /\ workspace \in Workspaces
  /\ held' = [held EXCEPT ![workspace] = TRUE]
  /\ Asks(h, "stop", "stop")
  /\ UNCHANGED <<workspace, job, cancelled, spent, serverVars, thread, process,
                 faults>>

(* The command looks whether the job is running before it cancels it.      *)
CancelLook(h, j) ==
  /\ handler[h] = Free
  /\ workspace = Home[j] /\ job[j] \in {"waiting", "running"}
  /\ handler' = [handler EXCEPT ![h] =
       [Free EXCEPT !.step = "cancel", !.request = "cancel", !.job = j,
                    !.was_running = (job[j] = "running")]]
  /\ UNCHANGED <<workspace, storeVars, serverVars, thread, process, faults>>

CancelAsk(h) ==
  LET j == handler[h].job
  IN /\ handler[h].step = "cancel"
     /\ job' = [job EXCEPT ![j] = IF job[j] = "waiting" THEN "ended" ELSE job[j]]
     /\ cancelled' = (cancelled \ {j}) \cup ({j} \cap RunningIn(Home[j]))
     /\ IF job[j] # "ended" /\ handler[h].was_running THEN Serve(h, "stop")
        ELSE Done(h)
     /\ UNCHANGED <<workspace, spent, held, serverVars, thread, process, faults>>

(* Opening and closing an investigation leave the worker alone.            *)
Open(h, w) ==
  /\ handler[h] = Free
  /\ workspace = None
  /\ workspace' = w
  /\ UNCHANGED <<storeVars, serverVars, thread, process, handler, faults>>

Close(h) ==
  /\ handler[h] = Free
  /\ workspace # None
  /\ workspace' = None
  /\ UNCHANGED <<storeVars, serverVars, thread, process, handler, faults>>

-----------------------------------------------------------------------------
(* start_worker and stop_worker.                                           *)

Launched(t) ==
  /\ supervisor' = t
  /\ stop_event' = FALSE
  /\ thread' = [thread EXCEPT ![t] = [Asleep EXCEPT !.step = "launch"]]

(* Fault: it is not looked whether the last thread still runs.             *)
StartAlways(h) ==
  /\ handler[h].step = "start"
  /\ \E t \in Threads : ~Alive(t) /\ Launched(t)
  /\ Done(h)
  /\ UNCHANGED <<workspace, storeVars, handle, process, faults>>

(* A supervisor that is still alive is trusted to notice what is new.      *)
Start(h) ==
  /\ handler[h].step = "start"
  /\ IF supervisor # None /\ Alive(supervisor)
     THEN UNCHANGED <<supervisor, stop_event, thread>>
     ELSE \E t \in Threads : ~Alive(t) /\ Launched(t)
  /\ Done(h)
  /\ UNCHANGED <<workspace, storeVars, handle, process, faults>>

StopSet(h) ==
  /\ handler[h].step = "stop"
  /\ stop_event' = TRUE
  /\ Serve(h, "read")
  /\ UNCHANGED <<workspace, storeVars, supervisor, handle, thread, process, faults>>

StopRead(h) ==
  /\ handler[h].step = "read"
  /\ handler' = [handler EXCEPT ![h] = [@ EXCEPT !.step = "poll", !.proc = handle]]
  /\ UNCHANGED <<workspace, storeVars, serverVars, thread, process, faults>>

StopPoll(h) ==
  LET p == handler[h].proc
  IN /\ handler[h].step = "poll"
     /\ Serve(h, IF p # None /\ Running(p) THEN "kill" ELSE "stopped")
     /\ UNCHANGED <<workspace, storeVars, serverVars, thread, process, faults>>

(* SIGTERM; the request fails when the process has been waited for         *)
(* meanwhile, and goes on when it has ended but is still a zombie.         *)
StopKill(h) ==
  LET p == handler[h].proc
      zombie == \E t \in Threads : thread[t].step = "wait" /\ thread[t].proc = p
  IN /\ handler[h].step = "kill"
     /\ IF Running(p)
        THEN process' = [process EXCEPT ![p] = [@ EXCEPT !.term = TRUE]] /\ Serve(h, "reap")
        ELSE UNCHANGED process /\ (Done(h) \/ (zombie /\ Serve(h, "stopped")))
     /\ UNCHANGED <<workspace, storeVars, serverVars, thread, faults>>

(* Three seconds later, SIGKILL.                                           *)
StopReap(h) ==
  /\ handler[h].step = "reap"
  /\ process' = [process EXCEPT ![handler[h].proc] = Gone]
  /\ Serve(h, "stopped")
  /\ UNCHANGED <<workspace, storeVars, serverVars, thread, faults>>

(* A cancellation goes on to start_worker, a stop request is over.         *)
Stopped(h) ==
  /\ handler[h].step = "stopped"
  /\ IF handler[h].request = "cancel" THEN Serve(h, "start") ELSE Done(h)
  /\ UNCHANGED <<workspace, storeVars, serverVars, thread, process, faults>>

-----------------------------------------------------------------------------
(* The supervisor thread.                                                  *)

Step(t, step) == thread' = [thread EXCEPT ![t] = [@ EXCEPT !.step = step]]

Unused(p) ==
  ~Running(p) /\ p # handle /\ \A h \in Handlers : handler[h].proc # p

(* Where no investigation is open the command refuses at once.             *)
Launch(t) ==
  /\ thread[t].step = "launch"
  /\ \E p \in Processes :
       /\ Unused(p)
       /\ process' = [process EXCEPT ![p] =
            IF workspace = None THEN Gone
            ELSE [Gone EXCEPT !.life = "boot", !.home = workspace]]
       /\ thread' = [thread EXCEPT ![t] = [@ EXCEPT !.step = "register", !.proc = p]]
  /\ UNCHANGED <<workspace, storeVars, serverVars, handler, faults>>

Register(t) ==
  /\ thread[t].step = "register"
  /\ handle' = thread[t].proc
  /\ Step(t, "wait")
  /\ UNCHANGED <<workspace, storeVars, supervisor, stop_event, process,
                 handler, faults>>

Wait(t) ==
  /\ thread[t].step = "wait"
  /\ ~Running(thread[t].proc)
  /\ Step(t, "export")
  /\ UNCHANGED <<workspace, storeVars, serverVars, process, handler, faults>>

(* The snapshot of the investigation that is open now, whichever the       *)
(* process worked for; a failed export counts as nothing waiting.          *)
Export(t) ==
  /\ thread[t].step = "export"
  /\ thread' = [thread EXCEPT ![t] =
       [@ EXCEPT !.step = "decide", !.pending = WaitingIn(workspace) # {}]]
  /\ UNCHANGED <<workspace, storeVars, serverVars, process, handler, faults>>

ExportFails(t) ==
  /\ thread[t].step = "export"
  /\ faults < MaxFaults
  /\ faults' = faults + 1
  /\ thread' = [thread EXCEPT ![t] = [@ EXCEPT !.step = "decide", !.pending = FALSE]]
  /\ UNCHANGED <<workspace, storeVars, serverVars, process, handler>>

(* Fault: one process per start.                                           *)
DecideOnce(t) ==
  /\ thread[t].step = "decide"
  /\ Step(t, "clear")
  /\ UNCHANGED <<workspace, storeVars, serverVars, process, handler, faults>>

(* Fault: the stop event is not looked at.                                 *)
DecideDeaf(t) ==
  /\ thread[t].step = "decide"
  /\ Step(t, IF thread[t].pending THEN "launch" ELSE "clear")
  /\ UNCHANGED <<workspace, storeVars, serverVars, process, handler, faults>>

Decide(t) ==
  /\ thread[t].step = "decide"
  /\ Step(t, IF thread[t].pending /\ ~stop_event THEN "launch" ELSE "clear")
  /\ UNCHANGED <<workspace, storeVars, serverVars, process, handler, faults>>

Clear(t) ==
  /\ thread[t].step = "clear"
  /\ handle' = None
  /\ thread' = [thread EXCEPT ![t] = Asleep]
  /\ UNCHANGED <<workspace, storeVars, supervisor, stop_event, process,
                 handler, faults>>

-----------------------------------------------------------------------------
(* The worker process, as the server sees it.                              *)

Ends(p) == process' = [process EXCEPT ![p] = Gone]

Locked(w) == \E p \in Processes :
  process[p].home = w /\ process[p].life \in {"recover", "idle", "busy"}

(* It leaves when another worker has the lock of the investigation, or on  *)
(* a SIGTERM that comes before its handler; else it takes the lock and     *)
(* lists the jobs, with the cancellations asked so far.                    *)
Boot(p) ==
  LET left == RunningIn(process[p].home)
  IN /\ process[p].life = "boot"
     /\ \/ (process[p].term \/ Locked(process[p].home)) /\ Ends(p)
        \/ /\ ~Locked(process[p].home)
           /\ process' = [process EXCEPT ![p] =
                [@ EXCEPT !.life = "recover", !.todo = left,
                          !.flagged = left \cap cancelled]]
     /\ UNCHANGED <<workspace, storeVars, serverVars, thread, handler, faults>>

(* A job of the list: it had published, or was cancelled when the list was *)
(* read, and ends; else it is to be tried again, whatever was asked since, *)
(* or it has no attempt left and is not touched.                           *)
Recover(p, j) ==
  /\ process[p].life = "recover" /\ j \in process[p].todo
  /\ \/ job' = [job EXCEPT ![j] = "ended"] /\ cancelled' = cancelled \ {j}
     \/ /\ j \notin process[p].flagged
        /\ job' \in {job, [job EXCEPT ![j] = "waiting"]}
        /\ UNCHANGED cancelled
  /\ process' = [process EXCEPT ![p].todo = @ \ {j}]
  /\ UNCHANGED <<workspace, spent, held, serverVars, thread, handler, faults>>

Recovered(p) ==
  /\ process[p].life = "recover" /\ process[p].todo = {}
  /\ process' = [process EXCEPT ![p] = [@ EXCEPT !.life = "idle", !.flagged = {}]]
  /\ UNCHANGED <<workspace, storeVars, serverVars, thread, handler, faults>>

(* The claim may reserve all the active time its plan has left ...         *)
Claim(p) ==
  /\ process[p].life = "idle" /\ ~process[p].term
  /\ ~held[process[p].home]
  /\ \E j \in ClaimableIn(process[p].home) :
       /\ job' = [job EXCEPT ![j] = "running"]
       /\ process' = [process EXCEPT ![p] = [@ EXCEPT !.life = "busy", !.job = j]]
       /\ spent' \in {spent, spent \cup ({PlanOf[j]} \cap Plans)}
  /\ UNCHANGED <<workspace, cancelled, held, serverVars, thread, handler, faults>>

(* ... and the end of the attempt may give some of it back.                *)
Finish(p) ==
  /\ process[p].life = "busy"
  /\ job' = [job EXCEPT ![process[p].job] = "ended"]
  /\ cancelled' = cancelled \ {process[p].job}
  /\ spent' \in {spent, spent \ {PlanOf[process[p].job]}}
  /\ process' = [process EXCEPT ![p] = [@ EXCEPT !.life = "idle", !.job = None]]
  /\ UNCHANGED <<workspace, held, serverVars, thread, handler, faults>>

Leave(p) ==
  /\ process[p].life = "idle"
  /\ process[p].term \/ held[process[p].home] \/ ClaimableIn(process[p].home) = {}
  /\ Ends(p)
  /\ UNCHANGED <<workspace, storeVars, serverVars, thread, handler, faults>>

Die(p) ==
  /\ Running(p)
  /\ faults < MaxFaults
  /\ faults' = faults + 1
  /\ Ends(p)
  /\ UNCHANGED <<workspace, storeVars, serverVars, thread, handler>>

-----------------------------------------------------------------------------
Request(h) ==
  \/ \E S \in Batches : Submit(h, S)
  \/ \E j \in Jobs : CancelLook(h, j)
  \/ Pause(h) \/ Resume(h) \/ Stop(h) \/ Close(h)
  \/ \E w \in Workspaces : Open(h, w)

Handle(h) ==
  \/ CancelAsk(h) \/ Start(h) \/ Stopped(h)
  \/ StopSet(h) \/ StopRead(h) \/ StopPoll(h) \/ StopKill(h) \/ StopReap(h)

Supervise(t) ==
  \/ Launch(t) \/ Register(t) \/ Wait(t) \/ Export(t) \/ Decide(t) \/ Clear(t)

Work(p) ==
  \/ Boot(p) \/ (\E j \in Jobs : Recover(p, j)) \/ Recovered(p)
  \/ Claim(p) \/ Finish(p) \/ Leave(p)

Next ==
  \/ \E h \in Handlers : Request(h) \/ Handle(h) \/ SubmitFails(h)
  \/ \E t \in Threads : Supervise(t) \/ ExportFails(t)
  \/ \E p \in Processes : Work(p) \/ Die(p)

Spec == Init /\ [][Next]_vars

(* Threads and processes that can go on do; nobody has to send a request.  *)
Fairness ==
  /\ \A h \in Handlers : WF_vars(Handle(h))
  /\ \A t \in Threads : WF_vars(Supervise(t))
  /\ \A p \in Processes : WF_vars(Work(p))

FairSpec == Spec /\ Fairness

-----------------------------------------------------------------------------
(* Properties.                                                             *)

ThreadRows ==
  [step : {"dead", "launch", "register", "wait", "export", "decide", "clear"},
   proc : Processes \cup {None}, pending : BOOLEAN]
ProcessRows ==
  [life : {"ended", "boot", "recover", "idle", "busy"},
   home : Workspaces \cup {None}, job : Jobs \cup {None}, term : BOOLEAN,
   todo : SUBSET Jobs, flagged : SUBSET Jobs]
HandlerRows ==
  [step : {"idle", "start", "cancel", "stop", "read", "poll", "kill", "reap", "stopped"},
   request : {None, "submit", "resume", "stop", "cancel"},
   job : Jobs \cup {None}, proc : Processes \cup {None}, was_running : BOOLEAN]

(* Every variable holds a value of its domain.                             *)
TypeOK ==
  /\ workspace \in Workspaces \cup {None}
  /\ job \in [Jobs -> {"absent", "waiting", "running", "ended"}]
  /\ cancelled \subseteq Jobs /\ spent \subseteq Plans
  /\ held \in [Workspaces -> BOOLEAN]
  /\ supervisor \in Threads \cup {None} /\ stop_event \in BOOLEAN
  /\ handle \in Processes \cup {None}
  /\ thread \in [Threads -> ThreadRows]
  /\ process \in [Processes -> ProcessRows]
  /\ handler \in [Handlers -> HandlerRows]
  /\ faults \in 0..MaxFaults

(* However starts, stops and changes of investigation overlap, the server  *)
(* never has two workers at work: a second process would only fight for    *)
(* the lock of the first, or run beside it on another investigation.  And  *)
(* the one at work can be found by stop_worker: it is in self.worker, or   *)
(* the supervisor is just about to put it there.                           *)
OneKnownWorker ==
  /\ \A p, q \in Processes : Running(p) /\ Running(q) => p = q
  /\ \A p \in Processes : Running(p) =>
       handle = p \/ \E t \in Threads : thread[t].step = "register" /\ thread[t].proc = p

(* At most one supervisor thread lives, and it is the one start_worker      *)
(* looks at; only it has a process that runs.                              *)
OneSupervisor ==
  /\ \A t \in Threads : Alive(t) => supervisor = t
  /\ \A p \in Processes : Running(p) =>
       \E t \in Threads : thread[t].step \in {"register", "wait"} /\ thread[t].proc = p
  /\ \A t \in Threads : thread[t].step = "wait" => handle = thread[t].proc

(* The inductive invariant: typed, one supervisor, one known worker.       *)
SupervisorIInv == TypeOK /\ OneSupervisor /\ OneKnownWorker

(* Nobody works on the plan of a refused job: no end of an attempt will    *)
(* give its plan time back.                                                *)
StaysRefused(j) ==
  \/ j \in cancelled
  \/ /\ PlanOf[j] \in spent
     /\ \A p \in Processes : process[p].job # None =>
          PlanOf[process[p].job] # PlanOf[j]

(* What a supervisor has seen waiting is served until nothing waits that   *)
(* the store hands out, unless the queue is held, a stop was asked or the  *)
(* investigation was closed: jobs that it refuses, and that make the       *)
(* supervisor launch worker after worker, do not keep the others waiting.  *)
SeenIsServed ==
  \A t \in Threads, w \in Workspaces :
    (thread[t].step = "decide" /\ thread[t].pending /\ workspace = w)
      ~> \/ \A j \in WaitingIn(w) : StaysRefused(j)
         \/ held[w] \/ stop_event \/ workspace # w \/ faults > 0

(* Once a stop is asked and no start comes after it, the supervisor ends,  *)
(* even where jobs still wait, and leaves no process behind.               *)
StopSettles ==
  <>[]stop_event =>
    <>[]((\A t \in Threads : ~Alive(t)) /\ (\A p \in Processes : ~Running(p)))

(* docs/architecture/WEB_WORKSPACE_CONTROL.md: the worker C executes what  *)
(* was submitted.                                                          *)
SubmittedRuns ==
  \A j \in Jobs : job[j] = "waiting" ~> (job[j] # "waiting" \/ held[Home[j]])

(* What the supervisor counts as waiting is not what a claim takes: where  *)
(* only refused jobs wait, or the queue is paused, it never rests.         *)
SupervisorRests ==
  \A t \in Threads : Alive(t) ~>
    ~Alive(t) \/ ClaimableIn(workspace) # {} \/ stop_event

(* docs/architecture/WEB_WORKSPACE_CONTROL.md: for an active worker, the   *)
(* server stops its session group and starts the reconciliation again.     *)
CancelReconciles ==
  \A j \in Jobs : (job[j] = "running" /\ j \in cancelled) ~> (job[j] = "ended")

(* docs/architecture/WEB_WORKSPACE_CONTROL.md: stop prevents new starts    *)
(* and ends the worker group.                                              *)
StopEndsWork ==
  \A h \in Handlers :
    handler[h].step = "stopped" /\ handler[h].request = "stop"
      => \A p \in Processes : process[p].life # "busy"
=============================================================================
