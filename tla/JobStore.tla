------------------------------ MODULE JobStore ------------------------------
(***************************************************************************)
(* The persistent job store of an investigation, `.labfy/runtime/          *)
(* jobs.sqlite' (src/core/local_job_store.c): job rows, attempt rows, the  *)
(* transition journal, plans with their shared budget, and the two control *)
(* flags.  Every process that opens the file is a caller, and plays one of *)
(* four roles.  What the code runs between BEGIN IMMEDIATE and COMMIT, or  *)
(* as one autocommit statement, is one action; an operation the code       *)
(* spreads over several statements is several actions, and `call'          *)
(* remembers what the caller read in between.                              *)
(***************************************************************************)
EXTENDS Integers, FiniteSets, FiniteSetsExt

CONSTANTS
  Submitters,   \* processes that submit jobs or plans
  Claimers,     \* worker processes
  Cancellers,   \* processes that cancel jobs
  Controllers,  \* processes that pause, stop or resume the queue
  Jobs,         \* job identifiers
  Analyses,     \* (source evidence, capability) pairs
  Submissions,  \* the job rows a caller may ask for
  Plans,        \* plan idempotency keys (the plan id is derived from the key)
  Admissions,   \* the plans a caller may ask for
  MaxJobs,      \* LOCAL_JOB_STORE_MAX_JOBS
  MaxRank,      \* the largest max_attempts a submission may carry
  Quantum,      \* active milliseconds a claim asks for
  None

(* What local_job_store_enqueue checks of a submission, and the shape of   *)
(* the submissions tools/local_jobs.c builds.  `order' stands for the pair *)
(* (requested_at, job_id): the caller's clock and identifier choose it.    *)
SubmissionShape ==
  [job : Jobs, analysis : Analyses, maxAttempts : 1..MaxRank,
   dep : Jobs \cup {None}, order : Nat, bytes : Nat]

AdmissionShape ==
  [plan : Plans, subs : SUBSET Submissions,
   maxAnalyses : Nat \ {0}, maxAttempts : Nat \ {0}, maxBytes : Nat \ {0},
   maxMs : Nat \ {0}]

ASSUME BoundsAssumption ==
  MaxJobs \in Nat /\ MaxRank \in Nat \ {0} /\ Quantum \in Nat \ {0}

ASSUME SubmissionAssumption == Submissions \subseteq SubmissionShape

ASSUME AdmissionAssumption ==
  /\ Admissions \subseteq AdmissionShape
  /\ \A a \in Admissions : a.subs # {}
  /\ \A a \in Admissions : \A s, t \in a.subs : s.job = t.job => s = t
  /\ \A a \in Admissions : \A s \in a.subs : s.dep = None

ASSUME NoneAssumption ==
  /\ None \notin Jobs /\ None \notin Plans /\ None \notin Nat
  /\ None \notin Submissions /\ None \notin Admissions

-----------------------------------------------------------------------------
Waiting   == {"QUEUED", "RETRY_WAIT"}
Active    == Waiting \cup {"RUNNING"}
Final     == {"COMPLETED", "FAILED", "CANCELLED", "RECOVERY_REQUIRED"}
JobStates == {"ABSENT", "BLOCKED"} \cup Active \cup Final

Finishable   == Final \cup {"BLOCKED"}
Reconcilable == Final

Ranks         == 1..MaxRank
AttemptStates == {"NONE", "RUNNING", "INTERRUPTED"} \cup Finishable
NoAttempt     == [state |-> "NONE", owner |-> None, reserved |-> 0,
                  elapsed |-> 0, settled |-> FALSE]
AttemptRows   == [state : AttemptStates, owner : Nat \cup {None},
                  reserved : Nat, elapsed : Nat, settled : BOOLEAN]

Callers == Submitters \cup Claimers \cup Cancellers \cup Controllers

Steps   == {"idle", "insert", "claim", "cancel", "log", "unstop"}
IdleCall == [step |-> "idle", arg |-> None, before |-> "ABSENT"]

VARIABLES
  state,              \* jobs.state, "ABSENT" where there is no row
  submission,         \* the submitted columns of the row
  cancel_requested,   \* jobs.cancel_requested
  attempt_count,      \* jobs.attempt_count
  owner_token,        \* jobs.owner_token
  attempt,            \* attempts rows by job and rank
  journal,            \* the newest transitions row of the job, <<from, to>>
  admission,          \* plans rows by idempotency key
  plan_jobs,          \* the plan a job is linked to
  consumed_attempts,  \* plans.consumed_attempts
  consumed_active_ms, \* plans.consumed_active_ms
  paused,             \* controls.paused
  stop_requested,     \* controls.stop_requested
  minted,             \* owner tokens drawn so far; a token is its number
  call                \* what a caller is in the middle of

rowVars     == <<state, submission, cancel_requested, attempt_count,
                 owner_token>>
planVars    == <<admission, plan_jobs, consumed_attempts, consumed_active_ms>>
controlVars == <<paused, stop_requested>>
storeVars   == <<state, submission, cancel_requested, attempt_count,
                 owner_token, attempt, journal, admission, plan_jobs,
                 consumed_attempts, consumed_active_ms, paused,
                 stop_requested, minted, call>>

StoreInit ==
  /\ state = [j \in Jobs |-> "ABSENT"]
  /\ submission = [j \in Jobs |-> None]
  /\ cancel_requested = [j \in Jobs |-> FALSE]
  /\ attempt_count = [j \in Jobs |-> 0]
  /\ owner_token = [j \in Jobs |-> None]
  /\ attempt = [j \in Jobs |-> [r \in Ranks |-> NoAttempt]]
  /\ journal = [j \in Jobs |-> <<"ABSENT", "ABSENT">>]
  /\ admission = [p \in Plans |-> None]
  /\ plan_jobs = [j \in Jobs |-> None]
  /\ consumed_attempts = [p \in Plans |-> 0]
  /\ consumed_active_ms = [p \in Plans |-> 0]
  /\ paused = FALSE
  /\ stop_requested = FALSE
  /\ minted = 0
  /\ call = [c \in Callers |-> IdleCall]

Idle(c) == call[c].step = "idle"
Begin(c, step, arg) ==
  call' = [call EXCEPT ![c] = [step |-> step, arg |-> arg, before |-> "ABSENT"]]
Return(c) == call' = [call EXCEPT ![c] = IdleCall]

-----------------------------------------------------------------------------
(* Submission.                                                             *)

Exists(j) == state[j] # "ABSENT"
Rows      == {j \in Jobs : Exists(j)}
JobsOf(S) == {s.job : s \in S}

HasRoomFor(n) == Cardinality(Rows) + n <= MaxJobs

DependencyKnown(s) == s.dep # None => s.dep \in Rows /\ s.dep # s.job

(* Fault: the unique index on active analyses is missing.                  *)
RowConflictNoIndex(s) == s.job \in Rows

(* The primary key and the unique index idx_jobs_active_analysis.          *)
RowConflict(s) ==
  \E j \in Rows : \/ j = s.job
                  \/ /\ state[j] \in Active
                     /\ submission[j].analysis = s.analysis

InsertRows(S) ==
  /\ state' = [j \in Jobs |-> IF j \in JobsOf(S) THEN "QUEUED" ELSE state[j]]
  /\ submission' = [j \in Jobs |-> IF j \in JobsOf(S)
                                   THEN CHOOSE s \in S : s.job = j
                                   ELSE submission[j]]
  /\ UNCHANGED <<cancel_requested, attempt_count, owner_token, attempt,
                 journal>>

(* local_job_store_enqueue called alone runs outside a transaction: the    *)
(* row, the row count and the dependency are read first.  A row that       *)
(* exists answers at once, as reused when its content is the same and as a *)
(* conflict otherwise; a full table or an unknown dependency is refused.   *)
MayInsert(s) == ~Exists(s.job) /\ HasRoomFor(1) /\ DependencyKnown(s)

EnqueueLookup(c, s) ==
  /\ Idle(c)
  /\ IF MayInsert(s) THEN Begin(c, "insert", s) ELSE UNCHANGED call
  /\ UNCHANGED <<rowVars, attempt, journal, planVars, controlVars, minted>>

(* The INSERT follows, against whatever the table is by then.              *)
EnqueueInsert(c) ==
  LET s == call[c].arg
  IN /\ call[c].step = "insert"
     /\ Return(c)
     /\ UNCHANGED <<planVars, controlVars, minted>>
     /\ IF RowConflict(s) THEN UNCHANGED <<rowVars, attempt, journal>>
        ELSE InsertRows({s})

AttemptsOf(S) == MapThenSumSet(LAMBDA s : s.maxAttempts, S)
BytesOf(S)    == MapThenSumSet(LAMBDA s : s.bytes, S)

WithinBudget(a) ==
  /\ Cardinality(a.subs) <= a.maxAnalyses
  /\ AttemptsOf(a.subs) <= a.maxAttempts
  /\ BytesOf(a.subs) <= a.maxBytes

(* Every job of the plan passes local_job_store_enqueue, none as a reuse;  *)
(* submit_plan gives the jobs of a plan no dependency.                     *)
AllInsertable(a) ==
  /\ HasRoomFor(Cardinality(a.subs))
  /\ \A s \in a.subs : ~RowConflict(s)
  /\ \A s, t \in a.subs : s.analysis = t.analysis => s = t

(* Fault: the loop that links the jobs to the plan starts one too far.     *)
LinkedButFirst(a) ==
  {s.job : s \in {t \in a.subs : \E u \in a.subs : u.order < t.order}}

LinkedJobs(a) == JobsOf(a.subs)

(* local_job_store_admit_plan, one transaction: a known key answers as     *)
(* reused or as a conflict, a plan over its own budget or with one job     *)
(* that cannot be inserted is rolled back, any other plan enters whole.    *)
AdmitPlan(c, a) ==
  /\ Idle(c)
  /\ UNCHANGED <<consumed_attempts, consumed_active_ms, controlVars, minted,
                 call>>
  /\ IF admission[a.plan] = None /\ WithinBudget(a) /\ AllInsertable(a)
     THEN /\ InsertRows(a.subs)
          /\ admission' = [admission EXCEPT ![a.plan] = a]
          /\ plan_jobs' = [j \in Jobs |-> IF j \in LinkedJobs(a) THEN a.plan
                                          ELSE plan_jobs[j]]
     ELSE UNCHANGED <<rowVars, attempt, journal, admission, plan_jobs>>

-----------------------------------------------------------------------------
(* Claims.                                                                 *)

Smaller(a, b) == IF a <= b THEN a ELSE b

BudgetLeft(p) == admission[p].maxMs - consumed_active_ms[p]

PlanAllows(j) ==
  LET p == plan_jobs[j]
  IN p # None => /\ consumed_attempts[p] < admission[p].maxAttempts
                 /\ BudgetLeft(p) > 0

(* Fault: a dependency that ended in any way lets the job start.           *)
DependencyEnded(j) ==
  submission[j].dep # None => state[submission[j].dep] \in Final

DependencyMet(j) ==
  submission[j].dep # None => state[submission[j].dep] = "COMPLETED"

Claimable(j) ==
  /\ state[j] \in Waiting
  /\ ~cancel_requested[j]
  /\ attempt_count[j] < submission[j].maxAttempts
  /\ DependencyMet(j)
  /\ PlanAllows(j)

(* ORDER BY requested_at, job_id LIMIT 1.                                  *)
First(j) ==
  /\ Claimable(j)
  /\ \A k \in Jobs : Claimable(k) => submission[j].order <= submission[k].order

(* Fault: the reservation is not clipped to what the plan has left.        *)
ReservationUnclipped(j) == Quantum

(* The active time a claim reserves: what it asks for, within what the     *)
(* plan has left.                                                          *)
Reservation(j) ==
  IF plan_jobs[j] = None THEN Quantum
  ELSE Smaller(Quantum, BudgetLeft(plan_jobs[j]))

(* Fault: the token is only a generation number of its job.                *)
TokenOfRank(j) == attempt_count[j] + 1

(* The worker draws a random UUID for each claim.                          *)
FreshToken(j) == minted + 1

(* The controls are read before the transaction of the claim begins ...    *)
ClaimReadControls(c) ==
  /\ Idle(c)
  /\ ~paused /\ ~stop_requested
  /\ Begin(c, "claim", None)
  /\ UNCHANGED <<rowVars, attempt, journal, planVars, controlVars, minted>>

(* ... and the transaction takes the first claimable job, draws a token,   *)
(* opens the attempt and reserves its active time.                         *)
ClaimJob(c, j) ==
  LET rank == attempt_count[j] + 1
      ms   == Reservation(j)
  IN /\ call[c].step = "claim"
     /\ First(j)
     /\ state' = [state EXCEPT ![j] = "RUNNING"]
     /\ attempt_count' = [attempt_count EXCEPT ![j] = rank]
     /\ owner_token' = [owner_token EXCEPT ![j] = FreshToken(j)]
     /\ attempt' = [attempt EXCEPT ![j][rank] =
                      [state |-> "RUNNING", owner |-> FreshToken(j),
                       reserved |-> ms, elapsed |-> 0, settled |-> FALSE]]
     /\ consumed_attempts' =
          [p \in Plans |-> IF p = plan_jobs[j] THEN consumed_attempts[p] + 1
                           ELSE consumed_attempts[p]]
     /\ consumed_active_ms' =
          [p \in Plans |-> IF p = plan_jobs[j] THEN consumed_active_ms[p] + ms
                           ELSE consumed_active_ms[p]]
     /\ journal' = [journal EXCEPT ![j] = <<"QUEUED", "RUNNING">>]
     /\ minted' = minted + 1
     /\ Return(c)
     /\ UNCHANGED <<submission, cancel_requested, admission, plan_jobs,
                    controlVars>>

ClaimNothing(c) ==
  /\ call[c].step = "claim"
  /\ \A j \in Jobs : ~Claimable(j)
  /\ Return(c)
  /\ UNCHANGED <<rowVars, attempt, journal, planVars, controlVars, minted>>

-----------------------------------------------------------------------------
(* The end of an attempt.                                                  *)

Owns(o, j) == state[j] = "RUNNING" /\ owner_token[j] = o

HeldRanks(j) == {r \in Ranks : attempt[j][r].state = "RUNNING"}

Reserved(o, j) ==
  LET held == {r \in HeldRanks(j) : attempt[j][r].owner = o}
  IN IF held = {} THEN 0 ELSE attempt[j][CHOOSE r \in held : TRUE].reserved

Charge(o, j, ms) == Smaller(ms, Reserved(o, j))

(* Fault: the time spent is given back instead of the time left.           *)
RefundCharge(o, j, ms) == Charge(o, j, ms)

Refund(o, j, ms) == Reserved(o, j) - Charge(o, j, ms)

(* Fault: the token stays on the row when the attempt ends.                *)
EndRowKeepToken(j, to) ==
  /\ state' = [state EXCEPT ![j] = to]
  /\ owner_token' = owner_token
  /\ journal' = [journal EXCEPT ![j] = <<"RUNNING", to>>]

(* Fault: the end of the attempt is not journalled.                        *)
EndRowUnlogged(j, to) ==
  /\ state' = [state EXCEPT ![j] = to]
  /\ owner_token' = [owner_token EXCEPT ![j] = None]
  /\ journal' = journal

EndRow(j, to) ==
  /\ state' = [state EXCEPT ![j] = to]
  /\ owner_token' = [owner_token EXCEPT ![j] = None]
  /\ journal' = [journal EXCEPT ![j] = <<"RUNNING", to>>]

(* local_job_store_finish_budgeted, accepted; when any part of the guard   *)
(* fails the transaction is rolled back and nothing changes.               *)
Finish(o, j, to, ms) ==
  LET p == plan_jobs[j]
  IN /\ Owns(o, j)
     /\ to \in Finishable
     /\ p # None => Refund(o, j, ms) <= consumed_active_ms[p]
     /\ EndRow(j, to)
     /\ attempt' = [attempt EXCEPT ![j] = [r \in Ranks |->
          IF r \in HeldRanks(j) /\ attempt[j][r].owner = o
          THEN [attempt[j][r] EXCEPT !.state = to, !.settled = TRUE,
                                     !.elapsed = Charge(o, j, ms)]
          ELSE attempt[j][r]]]
     /\ consumed_active_ms' = [q \in Plans |->
          IF q = p THEN consumed_active_ms[q] - Refund(o, j, ms)
          ELSE consumed_active_ms[q]]
     /\ UNCHANGED <<submission, cancel_requested, attempt_count, admission,
                    plan_jobs, consumed_attempts, controlVars, minted, call>>

(* Fault: recovery rewrites every attempt of the job.                      *)
CloseEveryAttempt(j, to) ==
  attempt' = [attempt EXCEPT ![j] = [r \in Ranks |->
    IF attempt[j][r].state # "NONE" THEN [attempt[j][r] EXCEPT !.state = to]
    ELSE attempt[j][r]]]

(* Recovery closes the live attempt without settling its reservation.      *)
CloseAttempt(j, to) ==
  attempt' = [attempt EXCEPT ![j] = [r \in Ranks |->
    IF r \in HeldRanks(j) THEN [attempt[j][r] EXCEPT !.state = to]
    ELSE attempt[j][r]]]

(* Fault: an interrupted job is requeued with no attempt left.             *)
RequeueExhausted(j) ==
  /\ state[j] = "RUNNING"
  /\ EndRow(j, "QUEUED")
  /\ CloseAttempt(j, "INTERRUPTED")
  /\ UNCHANGED <<submission, cancel_requested, attempt_count, planVars,
                 controlVars, minted, call>>

RequeueInterrupted(j) ==
  /\ state[j] = "RUNNING"
  /\ attempt_count[j] < submission[j].maxAttempts
  /\ EndRow(j, "QUEUED")
  /\ CloseAttempt(j, "INTERRUPTED")
  /\ UNCHANGED <<submission, cancel_requested, attempt_count, planVars,
                 controlVars, minted, call>>

(* Fault: reconciliation does not check that the job is still RUNNING.     *)
ReconcileAny(j, to) ==
  /\ Exists(j) /\ to \in Reconcilable
  /\ EndRow(j, to)
  /\ CloseAttempt(j, to)
  /\ UNCHANGED <<submission, cancel_requested, attempt_count, planVars,
                 controlVars, minted, call>>

ReconcileInterrupted(j, to) ==
  /\ state[j] = "RUNNING"
  /\ to \in Reconcilable
  /\ EndRow(j, to)
  /\ CloseAttempt(j, to)
  /\ UNCHANGED <<submission, cancel_requested, attempt_count, planVars,
                 controlVars, minted, call>>

-----------------------------------------------------------------------------
(* Cancellation: the row is read, updated, and journalled from what was    *)
(* read, in three statements outside any transaction.                      *)

CancelRead(c, j) ==
  /\ Idle(c)
  /\ Exists(j)
  /\ call' = [call EXCEPT ![c] = [step |-> "cancel", arg |-> j,
                                  before |-> state[j]]]
  /\ UNCHANGED <<rowVars, attempt, journal, planVars, controlVars, minted>>

CancelledState(s) == IF s \in Waiting \cup {"BLOCKED"} THEN "CANCELLED" ELSE s

CancelUpdate(c) ==
  LET j == call[c].arg
  IN /\ call[c].step = "cancel"
     /\ UNCHANGED <<submission, attempt_count, owner_token, attempt, journal,
                    planVars, controlVars, minted>>
     /\ \/ /\ state[j] \notin Final
           /\ state' = [state EXCEPT ![j] = CancelledState(state[j])]
           /\ cancel_requested' = [cancel_requested EXCEPT ![j] = TRUE]
           /\ call' = [call EXCEPT ![c].step = "log"]
        \/ /\ state[j] \in Final
           /\ Return(c)
           /\ UNCHANGED <<state, cancel_requested>>

CancelLog(c) ==
  LET j == call[c].arg
      before == call[c].before
  IN /\ call[c].step = "log"
     /\ journal' = [journal EXCEPT ![j] =
          <<before, IF before = "RUNNING" THEN "RUNNING" ELSE "CANCELLED">>]
     /\ Return(c)
     /\ UNCHANGED <<rowVars, attempt, planVars, controlVars, minted>>

-----------------------------------------------------------------------------
(* Controls; resume lifts the pause and the stop in two statements.        *)

Pause ==
  /\ paused' = TRUE
  /\ UNCHANGED <<rowVars, attempt, journal, planVars, stop_requested, minted,
                 call>>

RequestStop ==
  /\ stop_requested' = TRUE
  /\ UNCHANGED <<rowVars, attempt, journal, planVars, paused, minted, call>>

ResumePaused(c) ==
  /\ Idle(c)
  /\ paused' = FALSE
  /\ Begin(c, "unstop", None)
  /\ UNCHANGED <<rowVars, attempt, journal, planVars, stop_requested, minted>>

ResumeStopped(c) ==
  /\ call[c].step = "unstop"
  /\ stop_requested' = FALSE
  /\ Return(c)
  /\ UNCHANGED <<rowVars, attempt, journal, planVars, paused, minted>>

-----------------------------------------------------------------------------
Submit(c) == \/ \E s \in Submissions : EnqueueLookup(c, s)
             \/ EnqueueInsert(c)
             \/ \E a \in Admissions : AdmitPlan(c, a)

Claim(c) == \/ ClaimReadControls(c)
            \/ \E j \in Jobs : ClaimJob(c, j)
            \/ ClaimNothing(c)

Cancel(c) == \/ \E j \in Jobs : CancelRead(c, j)
             \/ CancelUpdate(c)
             \/ CancelLog(c)

Control(c) == Pause \/ RequestStop \/ ResumePaused(c) \/ ResumeStopped(c)

(* A caller dies, or gives up on a locked file, between two statements.    *)
Abandon(c) ==
  /\ ~Idle(c)
  /\ Return(c)
  /\ UNCHANGED <<rowVars, attempt, journal, planVars, controlVars, minted>>

(* Any caller may present any token ever drawn, however stale.             *)
EndAttempt(j) ==
  \/ \E o \in 1..minted, to \in Finishable, ms \in 1..Quantum :
       Finish(o, j, to, ms)
  \/ RequeueInterrupted(j)
  \/ \E to \in Reconcilable : ReconcileInterrupted(j, to)

StoreNext ==
  \/ \E c \in Submitters : Submit(c)
  \/ \E c \in Claimers : Claim(c)
  \/ \E c \in Cancellers : Cancel(c)
  \/ \E c \in Controllers : Control(c)
  \/ \E c \in Callers : Abandon(c)
  \/ \E j \in Jobs : EndAttempt(j)

StoreSpec == StoreInit /\ [][StoreNext]_storeVars

-----------------------------------------------------------------------------
(* Properties.                                                             *)

CallStates == [step : Steps, arg : Submissions \cup Jobs \cup {None},
               before : JobStates]

(* Every column holds a value of its domain.                               *)
StoreTypeOK ==
  /\ state \in [Jobs -> JobStates]
  /\ submission \in [Jobs -> Submissions \cup {None}]
  /\ cancel_requested \in [Jobs -> BOOLEAN]
  /\ attempt_count \in [Jobs -> 0..MaxRank]
  /\ owner_token \in [Jobs -> Nat \cup {None}]
  /\ attempt \in [Jobs -> [Ranks -> AttemptRows]]
  /\ journal \in [Jobs -> JobStates \X JobStates]
  /\ admission \in [Plans -> Admissions \cup {None}]
  /\ plan_jobs \in [Jobs -> Plans \cup {None}]
  /\ consumed_attempts \in [Plans -> Nat]
  /\ consumed_active_ms \in [Plans -> Nat]
  /\ paused \in BOOLEAN /\ stop_requested \in BOOLEAN
  /\ minted \in Nat
  /\ call \in [Callers -> CallStates]

(* A RUNNING job has exactly one open attempt, its latest, held by the     *)
(* token of the row; no other job has a token or an open attempt.  The     *)
(* claim, finish, requeue and reconcile transactions each write both       *)
(* tables and must leave them agreeing.                                    *)
OneLiveAttempt ==
  \A j \in Jobs :
    IF state[j] = "RUNNING"
    THEN /\ HeldRanks(j) = {attempt_count[j]}
         /\ owner_token[j] = attempt[j][attempt_count[j]].owner
         /\ owner_token[j] # None
    ELSE HeldRanks(j) = {} /\ owner_token[j] = None

(* No token holds two jobs, nor was any token handed out twice: a process  *)
(* that still presents an old token can never end a newer attempt.         *)
TokensUnique ==
  \A j, k \in Jobs : \A r, q \in Ranks :
    /\ attempt[j][r].owner # None
    /\ attempt[j][r].owner = attempt[k][q].owner
    => j = k /\ r = q

(* A plan never spends more attempts or active time than it was admitted   *)
(* with, whatever is reserved, refunded or lost in a crash.                *)
BudgetBound ==
  \A p \in Plans : admission[p] # None =>
    /\ consumed_attempts[p] <= admission[p].maxAttempts
    /\ consumed_active_ms[p] <= admission[p].maxMs

(* What an attempt weighs on its plan: its elapsed time once settled, its  *)
(* whole reservation while it runs or when it was interrupted.             *)
Weight(row) == IF row.settled THEN row.elapsed ELSE row.reserved

PlanJobs(p) == {j \in Jobs : plan_jobs[j] = p}

(* The attempts begun for a plan, and the units of time they weigh.        *)
Begun(p)   == UNION {{j} \X (1..attempt_count[j]) : j \in PlanJobs(p)}
Units(j)   == UNION {{<<j, r>>} \X (1..Weight(attempt[j][r])) : r \in Ranks}
Weighed(p) == UNION {Units(j) : j \in PlanJobs(p)}

(* The two counters of a plan are the sums of its attempts, so no claim,   *)
(* refund or recovery loses or double-counts a reservation.                *)
BudgetLedger ==
  \A p \in Plans :
    /\ consumed_attempts[p] = Cardinality(Begun(p))
    /\ consumed_active_ms[p] = Cardinality(Weighed(p))

(* One analysis (source, capability) is never queued or running twice,     *)
(* however submissions, plans and recoveries interleave.                   *)
OneActiveAnalysis ==
  \A j, k \in Jobs :
    /\ state[j] \in Active /\ state[k] \in Active
    /\ submission[j].analysis = submission[k].analysis
    => j = k

(* A plan is admitted whole: all its jobs exist and are linked to it, and  *)
(* no job is linked to a plan that was refused.                            *)
PlanWhole ==
  /\ \A p \in Plans : admission[p] # None =>
       PlanJobs(p) = JobsOf(admission[p].subs)
  /\ \A j \in Jobs : plan_jobs[j] # None =>
       /\ Exists(j)
       /\ admission[plan_jobs[j]] # None
       /\ submission[j] \in admission[plan_jobs[j]].subs

(* A job that was ever claimed has its dependency completed, and the       *)
(* dependency stays completed.                                             *)
DependencyFirst ==
  \A j \in Jobs :
    attempt_count[j] > 0 /\ submission[j].dep # None
      => state[submission[j].dep] = "COMPLETED"

(* The journal's newest row names the state of the job, except where a     *)
(* cancellation was asked: that row is written apart, from a stale read.   *)
JournalAgrees ==
  \A j \in Jobs :
    /\ ~cancel_requested[j]
    /\ journal[j] # <<"ABSENT", "ABSENT">>
    => journal[j][2] = state[j]

(* A closed attempt is never rewritten: neither a late finish nor a second *)
(* recovery touches it again.                                              *)
KeepsClosedAttempts ==
  \A j \in Jobs : \A r \in Ranks :
    attempt[j][r].state \notin {"NONE", "RUNNING"}
      => attempt'[j][r] = attempt[j][r]

ClosedAttemptsKept == [][KeepsClosedAttempts]_storeVars

(* A job leaves a terminal state never, and BLOCKED only by cancellation.  *)
KeepsTerminal ==
  \A j \in Jobs :
    /\ state[j] \in Final => state'[j] = state[j]
    /\ state[j] = "BLOCKED" => state'[j] \in {"BLOCKED", "CANCELLED"}

TerminalKept == [][KeepsTerminal]_storeVars

(* The inductive invariant.  Beside the properties above it says what the  *)
(* columns of a job without a row are, that a row keeps its submission,    *)
(* that no rank above attempt_count was ever written and no token above    *)
(* `minted' was ever drawn, that a job's plan was admitted, and what a     *)
(* caller between two statements has already done.                         *)
AbsentRowBlank ==
  \A j \in Jobs : ~Exists(j) =>
    /\ submission[j] = None
    /\ ~cancel_requested[j]
    /\ attempt_count[j] = 0
    /\ plan_jobs[j] = None
    /\ journal[j] = <<"ABSENT", "ABSENT">>

RowSubmitted ==
  \A j \in Jobs : Exists(j) =>
    /\ submission[j] \in Submissions
    /\ submission[j].job = j
    /\ attempt_count[j] <= submission[j].maxAttempts

RanksInOrder ==
  \A j \in Jobs : \A r \in Ranks :
    (attempt[j][r].state = "NONE") <=> (r > attempt_count[j])

TokensDrawn ==
  \A j \in Jobs : \A r \in Ranks :
    attempt[j][r].owner # None => attempt[j][r].owner <= minted

PlansKnown ==
  /\ \A j \in Jobs : plan_jobs[j] # None => admission[plan_jobs[j]] # None
  /\ \A p \in Plans : admission[p] = None =>
       consumed_attempts[p] = 0 /\ consumed_active_ms[p] = 0

CallsConsistent ==
  \A c \in Callers :
    /\ call[c].step = "insert" => call[c].arg \in Submissions
    /\ call[c].step \in {"cancel", "log"} =>
         /\ call[c].arg \in Jobs
         /\ Exists(call[c].arg)
    /\ call[c].step = "log" => cancel_requested[call[c].arg]

StoreIInv ==
  /\ StoreTypeOK
  /\ AbsentRowBlank
  /\ RowSubmitted
  /\ RanksInOrder
  /\ OneLiveAttempt
  /\ TokensDrawn
  /\ TokensUnique
  /\ PlansKnown
  /\ BudgetBound
  /\ CallsConsistent
  /\ OneActiveAnalysis
  /\ DependencyFirst
  /\ JournalAgrees

(* What the ledger rests on: an attempt weighs nothing before it begins,   *)
(* its reservation is settled only when it ends, and a plan never has more *)
(* of them than it can count.                                              *)
AttemptsWeighed ==
  \A j \in Jobs : \A r \in Ranks :
    /\ attempt[j][r].state = "NONE" => Weight(attempt[j][r]) = 0
    /\ attempt[j][r].state = "RUNNING" => ~attempt[j][r].settled

PlansCountable ==
  \A p \in Plans : IsFiniteSet(Begun(p)) /\ IsFiniteSet(Weighed(p))

LedgerIInv == AttemptsWeighed /\ PlansCountable /\ BudgetLedger /\ PlanWhole

(* The lease queue this store implements: the live owner token is the      *)
(* lease, the end states other than BLOCKED are done.                      *)
LifeOf(s) == IF s = "ABSENT" THEN "absent"
             ELSE IF s \in Waiting THEN "waiting"
             ELSE IF s = "RUNNING" THEN "leased"
             ELSE IF s = "BLOCKED" THEN "blocked"
             ELSE "done"

Life  == [j \in Jobs |-> LifeOf(state[j])]
Limit == [j \in Jobs |-> IF Exists(j) THEN submission[j].maxAttempts ELSE 0]

Lease == INSTANCE LeaseQueue WITH
  life <- Life,
  limit <- Limit,
  tries <- attempt_count,
  lease <- owner_token,
  issued <- minted

(* Every step of the store is a step of the lease queue: a job is handed   *)
(* out at most max_attempts times, under a fresh token each time.          *)
LeaseRefined == Lease!LeaseSpec
=============================================================================
