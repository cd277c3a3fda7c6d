--------------------------- MODULE ToolInitializer --------------------------
(* The initialisation of the external tools (tool_initializer.c,           *)
(* tool_registry.c, tool_catalog.c): a background task registers the        *)
(* catalogue, looks every executable up and asks each one its version.  The *)
(* worker writes the registry without a lock, so everything rests on one    *)
(* bootstrap at a time.  The initializer is kept by its owner and, while a  *)
(* task of its runs, by the worker and by the completion.                   *)
EXTENDS TaskRuntime

CONSTANTS
  Tools,  \* the entries of the catalogue
  Boots,  \* the tasks that the initializer may create
  main,   \* the caller that is the main loop
  Users   \* the callers that use the manager for anything else

ASSUME InitializerAssumption ==
  /\ IsFiniteSet(Tools) /\ Boots \subseteq Tasks
  /\ main \in Callers /\ Users \subseteq Callers

VARIABLES
  ini,       \* the initializer
  boot,      \* where the worker of each task is, and its summary so far
  registry   \* the registry; `known' is FALSE before the catalogue is in

initializerVars == <<ini, boot, registry>>
toolVars        == <<runtimeVars, initializerVars>>

Zero == [available |-> {}, missing |-> {}, detected |-> {}]

ToolInit ==
  /\ RuntimeInit
  /\ ini = [alive |-> TRUE, refs |-> 1, running |-> FALSE, task |-> None,
            previous |-> None, start |-> "idle", summary |-> None]
  /\ boot = [t \in Boots |-> [at |-> "idle", left |-> Tools, sum |-> Zero]]
  /\ registry = [known |-> FALSE,
                 avail |-> [x \in Tools |-> "unknown"], version |-> {}]

(* The main loop runs one thing at a time, a completion up to its callback *)
(* included.                                                               *)
Completing(t) == run[t] \in Finished \/ boot[t].at = "completing"
MainFree   ==
  /\ ini.start = "idle" /\ Doing(main, "idle")
  /\ \A t \in Boots : ~Completing(t)
StartIs(s) == ini.start = s /\ Doing(main, "idle")

-----------------------------------------------------------------------------
(* tool_initializer_start *)

(* Bound: the task objects of Boots are used once.                         *)
Spare == \E t \in Boots : tstate[t] = "none"

At(t, where) == boot' = [boot EXCEPT ![t] = [@ EXCEPT !.at = where]]

Start ==
  /\ MainFree /\ ini.alive /\ Spare
  /\ ~ini.running
  /\ ini' = [ini EXCEPT !.running = TRUE, !.summary = None, !.start = "new"]
  /\ UNCHANGED <<runtimeVars, boot, registry>>

StartNew(t) ==
  /\ StartIs("new")
  /\ New(t)
  /\ ini' = [ini EXCEPT !.start = "add", !.previous = t]
  /\ UNCHANGED <<boot, registry>>

(* The manager tells its own listener before the task is started: a cancel *)
(* from there meets the task of the start before.                          *)
StartAdd ==
  /\ StartIs("add")
  /\ Add(main, ini.previous)
  /\ ini' = [ini EXCEPT !.start = "begin"]
  /\ UNCHANGED <<boot, registry>>

StartBegin ==
  /\ StartIs("begin")
  /\ StartTask(ini.previous)
  /\ ini' = [ini EXCEPT !.start = IF ini.task = None THEN "idle" ELSE "drop",
                        !.task = ini.previous, !.previous = ini.task,
                        !.refs = @ + 2]
  /\ At(ini.previous, "catalog")
  /\ UNCHANGED <<registry>>

StartDrop ==
  /\ StartIs("drop")
  /\ Drop(ini.previous)
  /\ ini' = [ini EXCEPT !.start = "idle", !.previous = None]
  /\ UNCHANGED <<boot, registry>>

(* tool_initializer_cancel: only asks; the initializer stays running.      *)
Cancel ==
  /\ ini.alive /\ ini.running /\ ini.task # None
  /\ MainFree \/ Doing(main, "inform")
  /\ CancelTask(ini.task)
  /\ UNCHANGED initializerVars

-----------------------------------------------------------------------------
(* tool_initializer_bootstrap_worker *)

Stops(t) == asked[t] /\ WorkerReturns(t, FALSE, "stopped")

RegisterCatalog(t) ==
  /\ run[t] = "working" /\ boot[t].at = "catalog" /\ ~asked[t]
  /\ registry' = [registry EXCEPT !.known = TRUE]
  /\ At(t, "refresh")
  /\ UNCHANGED <<runtimeVars, ini>>

(* tool_registry_refresh: what is on the path now; the versions of the     *)
(* last time stay in place.                                                *)
Refresh(t, present) ==
  /\ run[t] = "working" /\ boot[t].at = "refresh" /\ ~asked[t]
  /\ registry' = [registry EXCEPT !.avail =
       [x \in Tools |-> IF x \in present THEN "available" ELSE "missing"]]
  /\ At(t, "check")
  /\ UNCHANGED <<runtimeVars, ini>>

Checked(row, x, detected) ==
  [row EXCEPT !.left = @ \ {x}, !.sum =
    [available |-> @.available \cup (IF registry.avail[x] = "available" THEN {x} ELSE {}),
     missing |-> @.missing \cup (IF registry.avail[x] = "missing" THEN {x} ELSE {}),
     detected |-> @.detected \cup (IF detected THEN {x} ELSE {})]]

(* Fault: the version of a tool that went away is kept.                    *)
CheckKeeping(t, x, detected) ==
  /\ run[t] = "working" /\ boot[t].at = "check" /\ x \in boot[t].left /\ ~asked[t]
  /\ detected => registry.avail[x] = "available"
  /\ registry' = [registry EXCEPT !.version = IF detected THEN @ \cup {x} ELSE @]
  /\ boot' = [boot EXCEPT ![t] = Checked(@, x, detected)]
  /\ UNCHANGED <<runtimeVars, ini>>

(* One turn of the loop: the version of a missing tool, or of one that did *)
(* not tell, is cleared.                                                   *)
Check(t, x, detected) ==
  /\ run[t] = "working" /\ boot[t].at = "check" /\ x \in boot[t].left /\ ~asked[t]
  /\ detected => registry.avail[x] = "available"
  /\ registry' = [registry EXCEPT !.version =
       IF detected THEN @ \cup {x} ELSE @ \ {x}]
  /\ boot' = [boot EXCEPT ![t] = Checked(@, x, detected)]
  /\ UNCHANGED <<runtimeVars, ini>>

(* Every step above begins with a look at the cancellable, and the version *)
(* command reports a cancellation in the middle of it.                     *)
BootStops(t) ==
  /\ boot[t].at \in {"catalog", "refresh", "check"}
  /\ Stops(t)
  /\ At(t, "idle")
  /\ UNCHANGED <<ini, registry>>

(* The registration of the catalogue, which is taken back whole,           *)
(* tool_registry_refresh, or a version that cannot be set.                 *)
BootFails(t) ==
  /\ boot[t].at \in {"catalog", "refresh", "check"}
  /\ WorkerReturns(t, FALSE, "other")
  /\ At(t, "idle")
  /\ UNCHANGED <<ini, registry>>

BootSucceeds(t) ==
  /\ boot[t].at = "check" /\ boot[t].left = {} /\ ~asked[t]
  /\ WorkerReturns(t, TRUE, "none")
  /\ At(t, "idle")
  /\ UNCHANGED <<ini, registry>>

-----------------------------------------------------------------------------
(* Completion and release *)

MyPropagate(t) ==
  MainFree /\ Propagate(t) /\ UNCHANGED initializerVars

(* The task shows its end while the initializer still says it is running.  *)
MySettle(t) ==
  /\ Settle(t)
  /\ At(t, "completing")
  /\ UNCHANGED <<ini, registry>>

(* tool_initializer_on_task_completed, up to the callback.                 *)
MyCompleted(t) ==
  /\ boot[t].at = "completing"
  /\ ini' = [ini EXCEPT !.running = FALSE,
       !.summary = IF tstate[t] = "completed" THEN t ELSE None]
  /\ At(t, "idle")
  /\ UNCHANGED <<runtimeVars, registry>>

(* The callback has returned: the completion's reference goes, and the     *)
(* worker's with the GTask.                                                *)
MyDelivered(t) ==
  /\ MainFree
  /\ Delivered(t)
  /\ ini' = [ini EXCEPT !.refs = @ - 2]
  /\ UNCHANGED <<boot, registry>>

AskIfRunning ==
  IF ini.running /\ ini.task # None /\ tstate[ini.task] = "running"
  THEN CancelTask(ini.task) ELSE UNCHANGED runtimeVars

(* tool_initializer_free: asks the task to stop and lets go.               *)
Free ==
  /\ MainFree /\ ini.alive
  /\ ini' = [ini EXCEPT !.alive = FALSE, !.refs = @ - 1]
  /\ AskIfRunning
  /\ UNCHANGED <<boot, registry>>

(* The last reference drops the task with the initializer.                 *)
Destroy ==
  /\ MainFree /\ ini.refs = 0 /\ ini.task # None
  /\ Drop(ini.task)
  /\ ini' = [ini EXCEPT !.task = None]
  /\ UNCHANGED <<boot, registry>>

(* The rest of the program uses the manager, from the main loop between    *)
(* two events or from another thread.                                      *)
UseManager(c) ==
  /\ \/ ~Doing(c, "idle")
     \/ c \in Users /\ (c = main => MainFree)
  /\ Manage(c)
  /\ UNCHANGED initializerVars

ListenTo(s) == MainFree /\ SetChangedCallback(s) /\ UNCHANGED initializerVars

Bootstrap(t) ==
  \/ BeginWork(t) /\ UNCHANGED initializerVars
  \/ RegisterCatalog(t) \/ \E S \in SUBSET Tools : Refresh(t, S)
  \/ \E x \in Tools, d \in BOOLEAN : Check(t, x, d)
  \/ BootStops(t) \/ BootFails(t) \/ BootSucceeds(t)

Starting == (\E t \in Boots : StartNew(t)) \/ StartAdd \/ StartBegin \/ StartDrop

ToolNext ==
  \/ Start \/ Starting \/ Cancel \/ Free \/ Destroy
  \/ \E t \in Boots :
       Bootstrap(t) \/ MyPropagate(t) \/ MySettle(t) \/ MyCompleted(t) \/ MyDelivered(t)
  \/ \E c \in Users \cup {main} : UseManager(c)
  \/ \E s \in Slots \cup {None} : ListenTo(s)

ToolSpec == ToolInit /\ [][ToolNext]_toolVars

-----------------------------------------------------------------------------
Unfinished(t) == run[t] \notin {"none", "done"}

IniRows ==
  [alive : BOOLEAN, refs : Nat, running : BOOLEAN, task : Boots \cup {None},
   previous : Boots \cup {None}, start : {"idle", "new", "add", "begin", "drop"},
   summary : Boots \cup {None}]
BootRows ==
  [at : {"idle", "catalog", "refresh", "check", "completing"}, left : SUBSET Tools,
   sum : [available : SUBSET Tools, missing : SUBSET Tools, detected : SUBSET Tools]]
Availability == {"unknown", "available", "missing"}

ToolTypeOK ==
  /\ ini \in IniRows
  /\ boot \in [Boots -> BootRows]
  /\ registry \in [known : BOOLEAN, avail : [Tools -> Availability],
                   version : SUBSET Tools]

Unsettled(t) ==
  \/ run[t] \in {"queued", "working"} \cup Verdicts \cup Finished
  \/ boot[t].at = "completing"

(* The registry has one writer: at most one worker of the initializer is   *)
(* queued or at work, and only while the initializer says it is running.   *)
OneBootstrap ==
  /\ \A t \in Boots :
       CASE boot[t].at = "idle" -> TRUE
         [] boot[t].at = "completing" -> run[t] = "delivering"
         [] OTHER -> run[t] \in {"queued", "working"}
  /\ \A t \in Boots : Unsettled(t) => ini.running /\ ini.task = t

(* A start creates its task, lists it and starts it, while no worker runs  *)
(* and no summary is kept; the task it replaces is let go afterwards.      *)
StartInOrder ==
  /\ ini.start \in {"new", "add", "begin"} => \A t \in Boots : ~Unsettled(t)
  /\ ini.start \in {"add", "begin", "drop"} =>
       ini.previous \in Boots /\ own[ini.previous] /\ ini.previous # ini.task
  /\ ini.start \in {"add", "begin"} => tstate[ini.previous] = "pending"
  /\ ini.summary # None => ~ini.running

(* The initializer outlives every worker and completion that uses it, and  *)
(* its last task leaves with it.                                           *)
InitializerHeld ==
  /\ ini.refs = B(ini.alive) + 2 * Cardinality({t \in Boots : Unfinished(t)})
  /\ ini.start # "idle" => ini.alive
  /\ ini.task # None => own[ini.task]

(* What a summary says of the entries done is what the registry says.      *)
SaysOf(t, done) ==
  LET s == boot[t].sum IN
    /\ s.available = {x \in done : registry.avail[x] = "available"}
    /\ s.missing = {x \in done : registry.avail[x] = "missing"}
    /\ s.detected = registry.version \cap done
    /\ \A x \in Tools : registry.avail[x] # "unknown"

(* The worker succeeded, and the summary is on its way to the initializer. *)
Through(t) ==
  \/ run[t] \in {"ok", "completed"}
  \/ boot[t].at = "completing" /\ tstate[t] = "completed"

(* A summary is only kept of a bootstrap that went through, and then says  *)
(* what the registry says.                                                 *)
SummaryIsRegistry ==
  /\ \A t \in Boots :
       /\ tstate[t] \in {"none", "pending"} \/ boot[t].at \in {"catalog", "refresh"} =>
            boot[t].left = Tools /\ boot[t].sum = Zero
       /\ boot[t].at = "check" => SaysOf(t, Tools \ boot[t].left)
       /\ Through(t) => SaysOf(t, Tools)
  /\ ini.summary # None => SaysOf(ini.summary, Tools)

(* The initializer says it is running exactly while a start is under way   *)
(* or a task of its has not been completed: it never blocks the next start    *)
(* for good, whoever cancelled or freed it meanwhile.                       *)
RunningIsBusy ==
  ini.running <=>
    \/ ini.start \in {"new", "add", "begin"}
    \/ \E t \in Boots : Unsettled(t)

(* The inductive invariant of the initializer: typed, one writer of the    *)
(* registry, held while it is used, running exactly while it is busy, and  *)
(* never a summary that contradicts the registry.                          *)
InitializerIInv ==
  /\ ToolTypeOK /\ OneBootstrap /\ StartInOrder /\ InitializerHeld
  /\ RunningIsBusy /\ SummaryIsRegistry
=============================================================================
