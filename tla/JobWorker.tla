------------------------------ MODULE JobWorker -----------------------------
(* The worker processes of one investigation (tools/local_jobs.c,          *)
(* run_worker) over the job store, and the publication of an analysis      *)
(* (eml_analysis_persistence_service.c, exiftool_persistence_service.c).   *)
(* Three stores that share no transaction: jobs.sqlite, the directory of   *)
(* derivative files, and Enquete.sqlite, where an extraction row makes a   *)
(* result official.  A worker may be killed between any two steps; its     *)
(* flock goes with it and the next worker starts by reconciling what is    *)
(* still RUNNING.                                                          *)
EXTENDS JobStore

CONSTANTS
  EmlJobs,     \* jobs of the e-mail analyser; the others run ExifTool
  MaxCrashes,  \* bound: how often a worker is killed
  MaxSignals,  \* bound: how often a worker is asked to stop
  MaxMisreads, \* bound: how often a recovery fails to read Enquete.sqlite
  MaxUnremoved \* bound: how often a file that must go cannot be removed

ASSUME WorkerAssumption ==
  /\ EmlJobs \subseteq Jobs
  /\ MaxCrashes \in Nat /\ MaxSignals \in Nat /\ MaxMisreads \in Nat
  /\ MaxUnremoved \in Nat
  /\ None \notin Claimers

VARIABLES
  worker_lock,  \* the holder of .labfy/runtime/worker.lock
  worker,       \* what each worker process is doing
  staged,       \* the staging file of the job is there
  derivative,   \* the derivative file of the job
  published,    \* the extraction row of the job is committed
  crashes, signals, misreads,
  unremoved     \* removals that failed

fileVars   == <<staged, derivative, published>>
faultVars  == <<crashes, signals, misreads, unremoved>>
workerVars == <<worker_lock, worker, fileVars, faultVars>>
vars       == <<storeVars, workerVars>>

Executing   == {"start", "prepare", "stage", "rename", "commit", "finish"}
WorkerSteps == {"off", "list", "recover", "ask", "claim"} \cup Executing
Derivatives == {"none", "placed", "altered"}

(* `job', `token' and `ok' are those of the attempt in hand, `todo' the    *)
(* RUNNING jobs the list showed and `cancelled' those it showed with a     *)
(* cancellation, `expired' the budget timer's cancellable, `stop' the      *)
(* flag of the signal handler.                                             *)
Off == [step |-> "off", job |-> None, token |-> 0, ok |-> FALSE, todo |-> {},
        cancelled |-> {}, expired |-> FALSE, stop |-> FALSE]

WorkerInit ==
  /\ worker_lock = None
  /\ worker = [w \in Claimers |-> Off]
  /\ staged = [j \in Jobs |-> FALSE]
  /\ derivative = [j \in Jobs |-> "none"]
  /\ published = [j \in Jobs |-> FALSE]
  /\ crashes = 0 /\ signals = 0 /\ misreads = 0 /\ unremoved = 0

At(w, step)   == worker[w].step = step
Goto(w, step) == worker' = [worker EXCEPT ![w].step = step]
Ended(w, ok)  ==
  worker' = [worker EXCEPT ![w].step = "finish", ![w].ok = ok]
IsEml(w)      == worker[w].job \in EmlJobs

Quit(w) ==
  /\ worker' = [worker EXCEPT ![w] = Off]
  /\ worker_lock' = None

-----------------------------------------------------------------------------
(* Start and recovery.                                                     *)

(* Fault: the worker does not take the lock into account.                  *)
StartUnlocked(w) ==
  /\ At(w, "off")
  /\ worker_lock' = w
  /\ Goto(w, "list")
  /\ UNCHANGED <<storeVars, fileVars, faultVars>>

(* flock(LOCK_EX | LOCK_NB): a second worker leaves at once.               *)
Start(w) ==
  /\ At(w, "off")
  /\ worker_lock = None
  /\ worker_lock' = w
  /\ Goto(w, "list")
  /\ UNCHANGED <<storeVars, fileVars, faultVars>>

(* Fault: the list leaves out the jobs whose cancellation was asked.       *)
ListUncancelled(w) ==
  /\ At(w, "list")
  /\ LET running == {j \in Jobs : state[j] = "RUNNING" /\ ~cancel_requested[j]}
     IN worker' = [worker EXCEPT ![w].step = "recover", ![w].todo = running]
  /\ UNCHANGED <<storeVars, worker_lock, fileVars, faultVars>>

(* The list is a snapshot: what is asked of a job later is not in it.      *)
ListJobs(w) ==
  /\ At(w, "list")
  /\ LET running == {j \in Jobs : state[j] = "RUNNING"}
     IN worker' = [worker EXCEPT
          ![w].step = "recover", ![w].todo = running,
          ![w].cancelled = {j \in running : cancel_requested[j]}]
  /\ UNCHANGED <<storeVars, worker_lock, fileVars, faultVars>>

(* The replay of a published result rereads its derivative.                *)
Replays(j) == published[j] /\ derivative[j] = "placed"

(* Fault: a published result is not looked for.                            *)
RecoverUnseen(w, j, seen) ==
  IF j \in worker[w].cancelled THEN ReconcileInterrupted(j, "CANCELLED")
  ELSE RequeueInterrupted(j)

(* Fault: an ambiguous result is left as it is.                            *)
RecoverLeaving(w, j, seen) ==
  \/ seen /\ Replays(j) /\ ReconcileInterrupted(j, "COMPLETED")
  \/ seen /\ ~Replays(j) /\ UNCHANGED storeVars
  \/ ~seen /\ j \in worker[w].cancelled /\ ReconcileInterrupted(j, "CANCELLED")
  \/ ~seen /\ j \notin worker[w].cancelled /\ RequeueInterrupted(j)

(* What becomes of one job of the list, from the extraction that was seen. *)
(* The store silently refuses to requeue a job that has no attempt left.   *)
Recover(w, j, seen) ==
  \/ seen /\ Replays(j) /\ ReconcileInterrupted(j, "COMPLETED")
  \/ seen /\ ~Replays(j) /\ ReconcileInterrupted(j, "RECOVERY_REQUIRED")
  \/ ~seen /\ j \in worker[w].cancelled /\ ReconcileInterrupted(j, "CANCELLED")
  \/ ~seen /\ j \notin worker[w].cancelled /\ RequeueInterrupted(j)
  \/ /\ ~seen /\ j \notin worker[w].cancelled
     /\ attempt_count[j] = submission[j].maxAttempts
     /\ UNCHANGED storeVars

(* A lookup that fails is taken for an extraction that is not there.       *)
Misread(j) ==
  /\ published[j]
  /\ misreads < MaxMisreads
  /\ misreads' = misreads + 1

RecoverJob(w) ==
  /\ At(w, "recover")
  /\ \E j \in worker[w].todo :
       /\ \A k \in worker[w].todo : submission[j].order <= submission[k].order
       /\ \/ Recover(w, j, published[j]) /\ UNCHANGED misreads
          \/ Misread(j) /\ Recover(w, j, FALSE)
       /\ worker' = [worker EXCEPT ![w].todo = @ \ {j}]
  /\ UNCHANGED <<worker_lock, fileVars, crashes, signals, unremoved>>

Recovered(w) ==
  /\ At(w, "recover")
  /\ worker[w].todo = {}
  /\ Goto(w, "ask")
  /\ UNCHANGED <<storeVars, worker_lock, fileVars, faultVars>>

-----------------------------------------------------------------------------
(* The claim loop.                                                         *)

AskNext(w) ==
  /\ At(w, "ask")
  /\ ~worker[w].stop
  /\ ClaimReadControls(w)
  /\ Goto(w, "claim")
  /\ UNCHANGED <<worker_lock, fileVars, faultVars>>

(* Stopped, or told that the queue is paused or stopped.                   *)
LeaveAsked(w) ==
  /\ At(w, "ask")
  /\ worker[w].stop \/ paused \/ stop_requested
  /\ Quit(w)
  /\ UNCHANGED <<storeVars, fileVars, faultVars>>

TakeJob(w) ==
  /\ At(w, "claim")
  /\ \E j \in Jobs :
       /\ ClaimJob(w, j)
       /\ worker' = [worker EXCEPT
            ![w].step = "start", ![w].job = j, ![w].token = FreshToken(j),
            ![w].expired = FALSE, ![w].ok = FALSE]
  /\ UNCHANGED <<worker_lock, fileVars, faultVars>>

LeaveEmpty(w) ==
  /\ At(w, "claim")
  /\ ClaimNothing(w)
  /\ Quit(w)
  /\ UNCHANGED <<fileVars, faultVars>>

-----------------------------------------------------------------------------
(* The execution of the job in hand.                                       *)

(* A stop or an expiry that came before the execution ends it.             *)
StartJob(w) ==
  /\ At(w, "start")
  /\ IF worker[w].expired \/ worker[w].stop THEN Ended(w, FALSE)
     ELSE Goto(w, "prepare")
  /\ UNCHANGED <<storeVars, worker_lock, fileVars, faultVars>>

(* The preparation sees a published result and replays it, or fails: on    *)
(* the source, on an orphan derivative (e-mail), on its tool, cancelled.   *)
PrepareEnds(w) ==
  /\ At(w, "prepare")
  /\ \E ok \in {FALSE, Replays(worker[w].job)} : Ended(w, ok)
  /\ UNCHANGED <<storeVars, worker_lock, fileVars, faultVars>>

(* Fault: the preparation does not look for a published result.            *)
PrepareUnchecked(w) ==
  /\ At(w, "prepare")
  /\ ~worker[w].expired
  /\ Goto(w, "stage")
  /\ UNCHANGED <<storeVars, worker_lock, fileVars, faultVars>>

(* Only ExifTool's runner listens to the stop signal.                      *)
PrepareDone(w) ==
  /\ At(w, "prepare")
  /\ ~published[worker[w].job]
  /\ ~worker[w].expired
  /\ IF IsEml(w) THEN derivative[worker[w].job] = "none" ELSE ~worker[w].stop
  /\ Goto(w, "stage")
  /\ UNCHANGED <<storeVars, worker_lock, fileVars, faultVars>>

(* Neither service writes over a derivative; only the e-mail service       *)
(* refuses a staging file left there, and a cancellation at this point.    *)
WriteStage(w) ==
  LET j == worker[w].job
  IN /\ At(w, "stage")
     /\ derivative[j] = "none"
     /\ IsEml(w) => ~staged[j] /\ ~worker[w].expired
     /\ staged' = [staged EXCEPT ![j] = TRUE]
     /\ Goto(w, "rename")
     /\ UNCHANGED <<storeVars, worker_lock, derivative, published, faultVars>>

RenameStage(w) ==
  LET j == worker[w].job
  IN /\ At(w, "rename")
     /\ staged' = [staged EXCEPT ![j] = FALSE]
     /\ derivative' = [derivative EXCEPT ![j] = "placed"]
     /\ Goto(w, "commit")
     /\ UNCHANGED <<storeVars, worker_lock, published, faultVars>>

(* Fault: a failed publication keeps its staging file.                     *)
PlaceFailsKeep(w) ==
  /\ At(w, "stage") \/ At(w, "rename")
  /\ Ended(w, FALSE)
  /\ UNCHANGED <<storeVars, worker_lock, fileVars, faultVars>>

(* g_remove may fail: the code ignores it, or only says so.                *)
Unremoved ==
  /\ unremoved < MaxUnremoved
  /\ unremoved' = unremoved + 1

(* A refusal or a failure before the rename removes the staging file.      *)
PlaceFails(w) ==
  /\ At(w, "stage") \/ At(w, "rename")
  /\ \/ /\ staged' = [staged EXCEPT ![worker[w].job] = FALSE]
        /\ UNCHANGED unremoved
     \/ Unremoved /\ UNCHANGED staged
  /\ Ended(w, FALSE)
  /\ UNCHANGED <<storeVars, worker_lock, derivative, published, crashes,
                 signals, misreads>>

Commit(w) ==
  /\ At(w, "commit")
  /\ published' = [published EXCEPT ![worker[w].job] = TRUE]
  /\ Ended(w, TRUE)
  /\ UNCHANGED <<storeVars, worker_lock, staged, derivative, faultVars>>

(* Cancelled after the rename, or refused by Enquete.sqlite: the file that *)
(* was just created is removed.                                            *)
CommitFails(w) ==
  /\ At(w, "commit")
  /\ \/ /\ derivative' = [derivative EXCEPT ![worker[w].job] = "none"]
        /\ UNCHANGED unremoved
     \/ Unremoved /\ UNCHANGED derivative
  /\ Ended(w, FALSE)
  /\ UNCHANGED <<storeVars, worker_lock, staged, published, crashes, signals,
                 misreads>>

(* Fault: only the expiry of the timer keeps a job from being COMPLETED.   *)
VerdictUnexecuted(w) ==
  IF worker[w].stop /\ ~worker[w].ok THEN "CANCELLED"
  ELSE IF worker[w].expired /\ ~worker[w].stop THEN "BLOCKED"
  ELSE "COMPLETED"

Verdict(w) ==
  IF worker[w].stop /\ ~worker[w].ok THEN "CANCELLED"
  ELSE IF worker[w].expired /\ ~worker[w].stop THEN "BLOCKED"
  ELSE IF worker[w].ok THEN "COMPLETED"
  ELSE "FAILED"

Record(w) ==
  /\ At(w, "finish")
  /\ \E ms \in 1..Quantum :
       Finish(worker[w].token, worker[w].job, Verdict(w), ms)
  /\ worker' = [worker EXCEPT ![w].step = "ask", ![w].job = None]
  /\ UNCHANGED <<worker_lock, fileVars, faultVars>>

-----------------------------------------------------------------------------
(* What happens to a worker.                                               *)

(* The timer of the attempt fires between the claim and the record.        *)
Expire(w) ==
  /\ worker[w].step \in Executing
  /\ ~worker[w].expired
  /\ worker' = [worker EXCEPT ![w].expired = TRUE]
  /\ UNCHANGED <<storeVars, worker_lock, fileVars, faultVars>>

Signal(w) ==
  /\ ~At(w, "off") /\ ~worker[w].stop
  /\ signals < MaxSignals
  /\ signals' = signals + 1
  /\ worker' = [worker EXCEPT ![w].stop = TRUE]
  /\ UNCHANGED <<storeVars, worker_lock, fileVars, crashes, misreads,
                 unremoved>>

(* Killed, or out on an error of the store: BEGIN IMMEDIATE is given one   *)
(* second, and any refusal ends the claim loop and the process.            *)
Crash(w) ==
  /\ ~At(w, "off")
  /\ crashes < MaxCrashes
  /\ crashes' = crashes + 1
  /\ Quit(w)
  /\ IF Idle(w) THEN UNCHANGED storeVars ELSE Abandon(w)
  /\ UNCHANGED <<fileVars, signals, misreads, unremoved>>

(* Somebody edits or deletes the source or the derivative of a result.     *)
Damage(j) ==
  /\ published[j] /\ derivative[j] = "placed"
  /\ derivative' = [derivative EXCEPT ![j] = "altered"]
  /\ UNCHANGED <<storeVars, worker_lock, worker, staged, published, faultVars>>

Work(w) ==
  \/ ListJobs(w) \/ RecoverJob(w) \/ Recovered(w)
  \/ AskNext(w) \/ LeaveAsked(w) \/ TakeJob(w) \/ LeaveEmpty(w)
  \/ StartJob(w) \/ PrepareEnds(w) \/ PrepareDone(w)
  \/ WriteStage(w) \/ RenameStage(w) \/ PlaceFails(w)
  \/ Commit(w) \/ CommitFails(w) \/ Record(w)

Others ==
  /\ \/ \E c \in Submitters : Submit(c)
     \/ \E c \in Cancellers : Cancel(c)
     \/ \E c \in Controllers : Control(c)
  /\ UNCHANGED workerVars

Init == StoreInit /\ WorkerInit

Next ==
  \/ \E w \in Claimers : \/ Start(w) \/ Work(w)
                         \/ Expire(w) \/ Signal(w) \/ Crash(w)
  \/ \E j \in Jobs : Damage(j)
  \/ Others

Spec == Init /\ [][Next]_vars

(* A process that runs keeps running, and whenever no worker holds the     *)
(* lock somebody starts one again (the server's supervisor, or `run').     *)
Fairness ==
  /\ \A w \in Claimers : WF_vars(Work(w))
  /\ WF_vars(\E w \in Claimers : Start(w))

FairSpec == Spec /\ Fairness

-----------------------------------------------------------------------------
(* Properties.                                                             *)

WorkerRows ==
  [step : WorkerSteps, job : Jobs \cup {None}, token : Nat, ok : BOOLEAN,
   todo : SUBSET Jobs, cancelled : SUBSET Jobs, expired : BOOLEAN,
   stop : BOOLEAN]

(* Every field holds a value of its domain; the lock is held by the one    *)
(* worker that runs, and only a worker that executes has a job in hand.    *)
TypeOK ==
  /\ worker_lock \in Claimers \cup {None}
  /\ worker \in [Claimers -> WorkerRows]
  /\ staged \in [Jobs -> BOOLEAN]
  /\ derivative \in [Jobs -> Derivatives]
  /\ published \in [Jobs -> BOOLEAN]
  /\ crashes \in 0..MaxCrashes /\ signals \in 0..MaxSignals
  /\ misreads \in 0..MaxMisreads /\ unremoved \in 0..MaxUnremoved
  /\ \A w \in Claimers : /\ (worker_lock = w) <=> ~At(w, "off")
                         /\ (worker[w].job # None) <=> worker[w].step \in Executing

(* A worker that executes a job still owns it: no other worker claimed or  *)
(* recovered it meanwhile, so the end it records is accepted.              *)
WorkerOwnsItsJob ==
  \A w \in Claimers : worker[w].step \in Executing =>
    Owns(worker[w].token, worker[w].job)

(* A job is COMPLETED only once its extraction is committed, whichever way *)
(* it got there: recorded by its worker or acknowledged after a crash.     *)
CompletedIsPublished ==
  \A j \in Jobs : state[j] = "COMPLETED" => published[j]

(* There is no second extraction: a worker never writes anything for a job *)
(* whose result is official, even when recovery could not read that it is; *)
(* when it could, the job is not queued again either.                      *)
NoSecondExtraction ==
  \A j \in Jobs : published[j] =>
    /\ \A w \in Claimers :
         worker[w].job = j => worker[w].step \in {"start", "prepare", "finish"}
    /\ misreads = 0 => state[j] \notin Waiting

(* An interrupted job that recovery could not requeue: it has no attempt   *)
(* left, and it published nothing that recovery could see.                 *)
Exhausted(j) ==
  /\ attempt_count[j] = submission[j].maxAttempts
  /\ published[j] => misreads > 0

(* Once a worker is past recovery, the only RUNNING jobs beside its own    *)
(* are interrupted ones that had no attempt left and published nothing.    *)
LeftoversExhausted ==
  \A w \in Claimers, j \in Jobs :
    /\ worker[w].step \in {"ask", "claim"} \cup Executing
    /\ state[j] = "RUNNING" /\ worker[w].job # j
    => Exhausted(j)

Clean == crashes = 0 /\ unremoved = 0

(* Unless a worker was killed or the file system refused a removal, a file *)
(* without an extraction is the one the worker is publishing: failures and *)
(* cancellations clean up.                                                 *)
NoLitter ==
  Clean =>
    \A j \in Jobs :
      /\ staged[j] => \E w \in Claimers : worker[w].job = j /\ At(w, "rename")
      /\ derivative[j] # "none" /\ ~published[j]
           => \E w \in Claimers : worker[w].job = j /\ At(w, "commit")

(* The inductive invariant.  A worker's token was drawn, what it reports   *)
(* as done is published, nothing is published for a job without a row, and *)
(* recovery has settled what it has taken off its list.                    *)
TokenDrawn ==
  \A w \in Claimers : worker[w].step \in Executing => worker[w].token \in 1..minted

OkIsPublished ==
  \A w \in Claimers :
    worker[w].step \in Executing /\ worker[w].ok => published[worker[w].job]

PublishedExists == \A j \in Jobs : published[j] => Exists(j)

SettledSoFar ==
  \A w \in Claimers, j \in Jobs :
    At(w, "recover") /\ state[j] = "RUNNING" /\ j \notin worker[w].todo
      => Exhausted(j)

WorkerIInv ==
  /\ TypeOK
  /\ TokenDrawn
  /\ WorkerOwnsItsJob
  /\ OkIsPublished
  /\ CompletedIsPublished
  /\ PublishedExists
  /\ NoSecondExtraction
  /\ SettledSoFar
  /\ LeftoversExhausted
  /\ NoLitter

(* An interrupted job with an attempt left does not stay RUNNING.          *)
InterruptedRecovered ==
  \A j \in Jobs :
    (state[j] = "RUNNING" /\ attempt_count[j] < submission[j].maxAttempts)
      ~> state[j] # "RUNNING"

(* The active time of the job's plan is gone: no worker is executing a job *)
(* of that plan, so nothing will be given back either.                     *)
PlanSpent(j) ==
  /\ plan_jobs[j] # None
  /\ BudgetLeft(plan_jobs[j]) <= 0
  /\ \A w \in Claimers :
       worker[w].job # None => plan_jobs[worker[w].job] # plan_jobs[j]

(* Every job whose dependency is completed, or that has none, ends, over   *)
(* interruptions and retries, unless the queue is held, a cancellation was *)
(* asked (a RUNNING job that recovery requeues keeps the request), its     *)
(* plan has no active time left or its attempts were all interrupted.  The *)
(* claim refuses the rest for ever: the jobs behind a dependency that did  *)
(* not complete, and those of a spent plan.                                *)
EveryJobEnds ==
  \A j \in Jobs : Exists(j) /\ DependencyMet(j) ~>
    \/ state[j] \in Final \cup {"BLOCKED"}
    \/ paused \/ stop_requested \/ cancel_requested[j]
    \/ PlanSpent(j)
    \/ state[j] = "RUNNING" /\ crashes >= submission[j].maxAttempts

(* docs/architecture/WEB_WORKSPACE_CONTROL.md: at a restart the core looks *)
(* at each interrupted job first, and it ends COMPLETED, CANCELLED or      *)
(* RECOVERY_REQUIRED or is tried again.                                    *)
RestartSettles ==
  \A w \in Claimers, j \in Jobs :
    At(w, "claim") => state[j] # "RUNNING"

(* docs/architecture/LOCAL_JOBS_RECOVERY.md: `cancel' ends a request that  *)
(* waits.                                                                  *)
CancelEndsWaiting ==
  \A j \in Jobs : state[j] \in Waiting => ~cancel_requested[j]

(* docs/architecture/WEB_WORKSPACE_CONTROL.md: an inconsistency between    *)
(* the files and the extractions is RECOVERY_REQUIRED.                     *)
OrphanIsReported ==
  \A j \in Jobs :
    derivative[j] # "none" /\ ~published[j] => state[j] # "FAILED"
=============================================================================
