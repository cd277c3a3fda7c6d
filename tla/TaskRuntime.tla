---------------------------- MODULE TaskRuntime -----------------------------
(* Background tasks of the desktop core and the manager that lists them    *)
(* (background_task.c, task_manager.c).  A task runs its worker in a        *)
(* thread of a pool and is completed on the main loop; callers on any       *)
(* thread list, remove and cancel tasks.  All of them share tasks and       *)
(* callback registrations by counted references, and neither mutex is held  *)
(* while a callback runs.                                                   *)
EXTENDS Integers, FiniteSets

CONSTANTS
  Tasks,    \* the task objects that may be created
  Callers,  \* threads that call the task manager
  Slots,    \* registrations of the manager's callback that may be created
  None

ASSUME RuntimeAssumption ==
  IsFiniteSet(Tasks) /\ IsFiniteSet(Callers) /\ None \notin Tasks \cup Slots

VARIABLES
  tstate,     \* the state a task shows
  asked,      \* its cancellable is cancelled
  run,        \* where its GTask is: thread, verdict of the worker, end that the
              \* main loop found, delivery
  result,     \* who owns what the worker returned
  refs,       \* its reference count
  own,        \* its creator still holds the first reference
  inside,     \* the task whose completion the main loop runs
  listed,     \* the tasks of the manager
  call,       \* what each caller is doing in the manager
  slot,       \* the registration in force
  slot_refs   \* reference counts of the registrations; 0 is destroyed

taskVars    == <<tstate, asked, run, result, refs, own, inside>>
managerVars == <<listed, call, slot, slot_refs>>
runtimeVars == <<taskVars, managerVars>>

TaskStates == {"none", "pending", "running",
               "completed", "failed", "cancelled", "freed"}
Finished   == {"completed", "failed", "cancelled"}
Verdicts   == {"ok", "stopped", "error"}
Runs       ==
  {"none", "queued", "working", "delivering", "done"} \cup Verdicts \cup Finished
Fresh      == -1

Idle == [op |-> "idle", snap |-> {}, todo |-> {}, hit |-> None,
         some |-> FALSE, slot |-> None]

RuntimeInit ==
  /\ tstate = [t \in Tasks |-> "none"]
  /\ asked  = [t \in Tasks |-> FALSE]
  /\ run    = [t \in Tasks |-> "none"]
  /\ result = [t \in Tasks |-> "none"]
  /\ refs   = [t \in Tasks |-> 0]
  /\ own    = [t \in Tasks |-> FALSE]
  /\ inside = None
  /\ listed = {}
  /\ call = [c \in Callers |-> Idle]
  /\ slot = None
  /\ slot_refs = [s \in Slots |-> Fresh]

-----------------------------------------------------------------------------
(* References.  The last one destroys the result the task still owns.      *)

Ref(S) == refs' = [t \in Tasks |-> refs[t] + IF t \in S THEN 1 ELSE 0]

LastOf(S) == {t \in S : refs[t] = 1}

Unref(S) ==
  /\ refs' = [t \in Tasks |-> refs[t] - IF t \in S THEN 1 ELSE 0]
  /\ tstate' = [t \in Tasks |-> IF t \in LastOf(S) THEN "freed" ELSE tstate[t]]
  /\ result' = [t \in Tasks |->
       IF t \in LastOf(S) /\ result[t] = "task" THEN "destroyed" ELSE result[t]]

-----------------------------------------------------------------------------
(* background_task.c *)

New(t) ==
  /\ tstate[t] = "none"
  /\ tstate' = [tstate EXCEPT ![t] = "pending"]
  /\ own' = [own EXCEPT ![t] = TRUE]
  /\ Ref({t})
  /\ UNCHANGED <<asked, run, result, inside, managerVars>>

(* A second start is refused.                                              *)
StartTask(t) ==
  /\ own[t] /\ tstate[t] = "pending"
  /\ tstate' = [tstate EXCEPT ![t] = "running"]
  /\ run' = [run EXCEPT ![t] = "queued"]
  /\ Ref({t})
  /\ UNCHANGED <<asked, result, own, inside, managerVars>>

(* Only a running task is asked to stop; here by the main loop or in one   *)
(* go, with nothing between the look and the asking.                       *)
CancelTask(t) ==
  /\ own[t] /\ tstate[t] = "running"
  /\ asked' = [asked EXCEPT ![t] = TRUE]
  /\ UNCHANGED <<tstate, run, result, refs, own, inside, managerVars>>

(* The creator lets its reference go.                                      *)
Drop(t) ==
  /\ own[t]
  /\ own' = [own EXCEPT ![t] = FALSE]
  /\ Unref({t})
  /\ UNCHANGED <<asked, run, inside, managerVars>>

(* The pool calls the worker, even of a task already asked to stop.        *)
BeginWork(t) ==
  /\ run[t] = "queued"
  /\ run' = [run EXCEPT ![t] = "working"]
  /\ UNCHANGED <<tstate, asked, result, refs, own, inside, managerVars>>

(* What the worker returns: a result or nothing, an error or none.  The    *)
(* two that contradict each other are failures of the protocol.            *)
Verdict(success, error) ==
  IF success /\ error = "none" THEN "ok"
  ELSE IF ~success /\ error = "stopped" THEN "stopped" ELSE "error"

WorkerReturns(t, success, error) ==
  /\ run[t] = "working"
  /\ error = "stopped" => asked[t]
  /\ run' = [run EXCEPT ![t] = Verdict(success, error)]
  /\ result' = [result EXCEPT ![t] =
       IF Verdict(success, error) = "ok" THEN "gtask" ELSE "destroyed"]
  /\ UNCHANGED <<tstate, asked, refs, own, inside, managerVars>>

(* Fault: what the worker returned wins.                                   *)
FinalUnchecked(t) ==
  CASE run[t] = "stopped" -> "cancelled"
    [] run[t] = "ok" -> "completed"
    [] OTHER -> "failed"

(* g_task_propagate_pointer: a cancellable cancelled by now wins over what *)
(* the worker returned.                                                    *)
Final(t) ==
  CASE asked[t] \/ run[t] = "stopped" -> "cancelled"
    [] ~asked[t] /\ run[t] = "ok" -> "completed"
    [] OTHER -> "failed"

(* The completion on the main loop tests the cancellable and takes what the *)
(* worker returned.                                                        *)
Propagate(t) ==
  /\ run[t] \in Verdicts
  /\ inside = None
  /\ inside' = t
  /\ run' = [run EXCEPT ![t] = Final(t)]
  /\ result' = [result EXCEPT ![t] =
       IF Final(t) = "completed" THEN "loop" ELSE "destroyed"]
  /\ UNCHANGED <<tstate, asked, refs, own, managerVars>>

(* It writes the state it found, under the mutex and without another test: *)
(* until then the task shows itself running and may still be asked to      *)
(* stop.  The callback runs with the mutex released.                       *)
Settle(t) ==
  /\ inside = t /\ run[t] \in Finished
  /\ tstate' = [tstate EXCEPT ![t] = run[t]]
  /\ run' = [run EXCEPT ![t] = "delivering"]
  /\ result' = [result EXCEPT ![t] = IF @ = "loop" THEN "task" ELSE @]
  /\ UNCHANGED <<asked, refs, own, inside, managerVars>>

(* The callback returns.                                                   *)
Delivered(t) ==
  /\ inside = t /\ run[t] = "delivering"
  /\ inside' = None
  /\ run' = [run EXCEPT ![t] = "done"]
  /\ Unref({t})
  /\ UNCHANGED <<asked, own, managerVars>>

-----------------------------------------------------------------------------
(* task_manager.c: a caller takes the mutex once per step.                 *)

Doing(c, op) == call[c].op = op
Then(c, op)  == call' = [call EXCEPT ![c] = [Idle EXCEPT !.op = op]]

Add(c, t) ==
  /\ Doing(c, "idle")
  /\ own[t] /\ tstate[t] # "none" /\ t \notin listed
  /\ listed' = listed \cup {t}
  /\ Ref({t})
  /\ Then(c, "notify")
  /\ UNCHANGED <<tstate, asked, run, result, own, inside, slot, slot_refs>>

TakeOff(c, S) ==
  /\ S # {}
  /\ listed' = listed \ S
  /\ Unref(S)
  /\ Then(c, "notify")
  /\ UNCHANGED <<asked, run, own, inside, slot, slot_refs>>

Remove(c, t) ==
  /\ Doing(c, "idle") /\ t \in listed
  /\ TakeOff(c, {t})

RemoveFinished(c) ==
  /\ Doing(c, "idle")
  /\ TakeOff(c, {t \in listed : tstate[t] \in Finished})

(* Fault: the snapshot borrows the references of the list.                 *)
CancelAllBorrowing(c) ==
  /\ Doing(c, "idle") /\ listed # {}
  /\ call' = [call EXCEPT ![c] =
       [Idle EXCEPT !.op = "cancel", !.todo = listed]]
  /\ UNCHANGED <<taskVars, listed, slot, slot_refs>>

(* cancel_all works on a snapshot that holds references of its own.        *)
CancelAll(c) ==
  /\ Doing(c, "idle") /\ listed # {}
  /\ call' = [call EXCEPT ![c] =
       [Idle EXCEPT !.op = "cancel", !.snap = listed, !.todo = listed]]
  /\ Ref(listed)
  /\ UNCHANGED <<tstate, asked, run, result, own, inside, listed, slot, slot_refs>>

Looked(row, t) ==
  [row EXCEPT !.todo = @ \ {t}, !.hit = IF tstate[t] = "running" THEN t ELSE None,
              !.some = @ \/ tstate[t] = "running"]

CancelLook(c, t) ==
  /\ Doing(c, "cancel") /\ call[c].hit = None /\ t \in call[c].todo
  /\ call' = [call EXCEPT ![c] = Looked(@, t)]
  /\ UNCHANGED <<taskVars, listed, slot, slot_refs>>

(* background_task_cancel releases the mutex before it cancels: the task   *)
(* it saw running may have been completed.                                 *)
CancelHit(c) ==
  /\ Doing(c, "cancel") /\ call[c].hit # None
  /\ asked' = [asked EXCEPT ![call[c].hit] = TRUE]
  /\ call' = [call EXCEPT ![c] = [@ EXCEPT !.hit = None]]
  /\ UNCHANGED <<tstate, run, result, refs, own, inside, listed, slot, slot_refs>>

CancelEnd(c) ==
  /\ Doing(c, "cancel") /\ call[c].todo = {} /\ call[c].hit = None
  /\ Unref(call[c].snap)
  /\ Then(c, IF call[c].some THEN "notify" ELSE "idle")
  /\ UNCHANGED <<asked, run, own, inside, listed, slot, slot_refs>>

SlotDelta(plus, minus) ==
  [s \in Slots |-> slot_refs[s] + (IF s = plus THEN 1 ELSE 0)
                                - (IF s = minus THEN 1 ELSE 0)]

(* The registration in force is referenced under the mutex and called      *)
(* without it, perhaps after another has replaced it.                      *)
Notify(c) ==
  /\ Doing(c, "notify")
  /\ call' = [call EXCEPT ![c] = [Idle EXCEPT
       !.op = IF slot = None THEN "idle" ELSE "inform", !.slot = slot]]
  /\ slot_refs' = SlotDelta(slot, None)
  /\ UNCHANGED <<taskVars, listed, slot>>

Informed(c) ==
  /\ Doing(c, "inform")
  /\ slot_refs' = SlotDelta(None, call[c].slot)
  /\ Then(c, "idle")
  /\ UNCHANGED <<taskVars, listed, slot>>

SetChangedCallback(s) ==
  /\ s # None => slot_refs[s] = Fresh
  /\ slot # s
  /\ slot_refs' = [x \in Slots |->
       IF x = s THEN 1 ELSE SlotDelta(None, slot)[x]]
  /\ slot' = s
  /\ UNCHANGED <<taskVars, listed, call>>

Manage(c) ==
  \/ \E t \in Tasks : Remove(c, t) \/ CancelLook(c, t)
  \/ RemoveFinished(c) \/ CancelAll(c) \/ CancelHit(c) \/ CancelEnd(c)
  \/ Notify(c) \/ Informed(c)

RuntimeNext ==
  \/ \E t \in Tasks :
       \/ New(t) \/ StartTask(t) \/ CancelTask(t) \/ Drop(t)
       \/ BeginWork(t) \/ Propagate(t) \/ Settle(t) \/ Delivered(t)
       \/ \E ok \in BOOLEAN, e \in {"none", "stopped", "other"} :
            WorkerReturns(t, ok, e)
       \/ \E c \in Callers : Add(c, t)
  \/ \E c \in Callers : Manage(c)
  \/ \E s \in Slots \cup {None} : SetChangedCallback(s)

RuntimeSpec == RuntimeInit /\ [][RuntimeNext]_runtimeVars

-----------------------------------------------------------------------------
B(p) == IF p THEN 1 ELSE 0

(* Who holds a reference to a task, and who is calling a registration.     *)
Snapshots(t) == {c \in Callers : t \in call[c].snap}
Holders(t) ==
  B(own[t]) + B(t \in listed) + B(run[t] \notin {"none", "done"})
    + Cardinality(Snapshots(t))
Informing(s) == {c \in Callers : call[c].op = "inform" /\ call[c].slot = s}

CallRows ==
  [op : {"idle", "notify", "inform", "cancel"}, snap : SUBSET Tasks, todo : SUBSET Tasks,
   hit : Tasks \cup {None}, some : BOOLEAN, slot : Slots \cup {None}]

RuntimeTypeOK ==
  /\ tstate \in [Tasks -> TaskStates]
  /\ asked \in [Tasks -> BOOLEAN] /\ own \in [Tasks -> BOOLEAN]
  /\ run \in [Tasks -> Runs]
  /\ result \in [Tasks -> {"none", "gtask", "loop", "task", "destroyed"}]
  /\ refs \in [Tasks -> Nat]
  /\ inside \in Tasks \cup {None}
  /\ listed \subseteq Tasks
  /\ call \in [Callers -> CallRows]
  /\ slot \in Slots \cup {None}
  /\ slot_refs \in [Slots -> Int]

(* The count of a task is the number of those who hold it, whatever the    *)
(* order in which lists, snapshots, threads and creators let it go: nobody *)
(* uses a freed task and none is left behind.                              *)
CountsAreHolders ==
  /\ \A t \in Tasks :
       /\ refs[t] = Holders(t)
       /\ refs[t] = 0 <=> tstate[t] \in {"none", "freed"}
  /\ \A c \in Callers :
       /\ call[c].todo \cup ({call[c].hit} \ {None}) \subseteq call[c].snap
       /\ ~Doing(c, "cancel") => call[c].snap = {}

(* A registration lives as long as it is in force or being called, and is  *)
(* destroyed after that.                                                   *)
SlotsAreHeld ==
  \A s \in Slots :
    IF slot_refs[s] = Fresh THEN slot # s /\ Informing(s) = {}
    ELSE slot_refs[s] = B(slot = s) + Cardinality(Informing(s))

(* A result has one owner, is destroyed with its task at the latest, and   *)
(* belongs to the task exactly when that shows itself completed.           *)
ResultsOwned ==
  \A t \in Tasks :
    /\ result[t] = "gtask" <=> run[t] = "ok"
    /\ result[t] = "loop" <=> run[t] = "completed"
    /\ result[t] = "task" <=> tstate[t] = "completed"
    /\ "cancelled" \in {tstate[t], run[t]} \/ run[t] = "stopped" => asked[t]

(* The state of a task and the place of its GTask agree.                   *)
StatesAgree ==
  \A t \in Tasks :
    /\ run[t] = "none" => tstate[t] \in {"none", "pending", "freed"}
    /\ run[t] \in {"queued", "working"} \cup Verdicts \cup Finished
         => tstate[t] = "running"
    /\ run[t] = "delivering" => tstate[t] \in Finished
    /\ run[t] = "done" => tstate[t] \in Finished \cup {"freed"}
    /\ run[t] \in Finished \cup {"delivering"} <=> inside = t
    /\ own[t] => tstate[t] \notin {"none", "freed"}

RuntimeIInv == RuntimeTypeOK /\ StatesAgree /\ CountsAreHolders /\ SlotsAreHeld /\ ResultsOwned

(* A task whose cancellation was asked before the completion tests it is   *)
(* shown cancelled, even if its worker had succeeded or failed: no later   *)
(* step of anyone finds it completed or failed.                            *)
CancelWins ==
  [][\A t \in Tasks :
       asked[t] /\ tstate[t] = "running" /\ run[t] \notin {"completed", "failed"}
         => /\ tstate'[t] \in {"running", "cancelled"}
            /\ run'[t] \notin {"completed", "failed"}]_runtimeVars

(* Not so of the code, and no run checks it: a cancellation that a thread  *)
(* was granted between the test and the write of the state is lost.        *)
CancelAlwaysWins ==
  [][\A t \in Tasks : asked[t] /\ tstate[t] = "running"
       => tstate'[t] \in {"running", "cancelled"}]_runtimeVars
=============================================================================
