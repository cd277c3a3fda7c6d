--------------------------- MODULE JobStore_proofs --------------------------
(* Theorems about JobStore, for every set of callers, jobs, submissions    *)
(* and plans, and every bound.                                             *)
EXTENDS JobStore, FiniteSetTheorems, TLAPS

(* What an admissible submission looks like.                               *)
LEMMA SubmissionFields ==
  ASSUME NEW s \in Submissions
  PROVE  /\ s.job \in Jobs
         /\ s.maxAttempts \in 1..MaxRank
         /\ s.dep \in Jobs \cup {None}
         /\ s.dep # None => s.dep \in Jobs
  BY SubmissionAssumption DEF SubmissionShape

LEMMA AdmissionFields ==
  ASSUME NEW a \in Admissions
  PROVE  /\ a.plan \in Plans
         /\ a.subs \subseteq Submissions
         /\ a.maxAttempts \in Nat /\ a.maxMs \in Nat
         /\ \A s, t \in a.subs : s.job = t.job => s = t
         /\ \A s \in a.subs : s.dep = None
  BY AdmissionAssumption DEF AdmissionShape

(* The empty store satisfies the invariant.                                *)
LEMMA InitInvariant == StoreInit => StoreIInv
  <1> SUFFICES ASSUME StoreInit PROVE StoreIInv
    OBVIOUS
  <1> USE DEF StoreInit
  <1>1. StoreTypeOK
    <2>1. attempt \in [Jobs -> [Ranks -> AttemptRows]]
      BY DEF AttemptRows, NoAttempt, AttemptStates
    <2>2. state \in [Jobs -> JobStates] /\ journal \in [Jobs -> JobStates \X JobStates]
      BY DEF JobStates
    <2>3. call \in [Callers -> CallStates]
      BY DEF CallStates, IdleCall, Steps, JobStates
    <2>4. attempt_count \in [Jobs -> 0..MaxRank]
      BY BoundsAssumption
    <2> QED
      BY <2>1, <2>2, <2>3, <2>4 DEF StoreTypeOK
  <1>2. AbsentRowBlank /\ RowSubmitted
    BY DEF AbsentRowBlank, RowSubmitted, Exists
  <1>3. RanksInOrder /\ TokensDrawn /\ TokensUnique
    BY BoundsAssumption DEF RanksInOrder, TokensDrawn, TokensUnique,
       NoAttempt, Ranks
  <1>4. OneLiveAttempt
    BY DEF OneLiveAttempt, HeldRanks, NoAttempt
  <1>5. PlansKnown /\ BudgetBound
    BY DEF PlansKnown, BudgetBound
  <1>6. CallsConsistent
    BY DEF CallsConsistent, IdleCall
  <1>7. OneActiveAnalysis /\ DependencyFirst /\ JournalAgrees
    BY DEF OneActiveAnalysis, DependencyFirst, JournalAgrees, Active, Waiting
  <1> QED
    BY <1>1, <1>2, <1>3, <1>4, <1>5, <1>6, <1>7 DEF StoreIInv

(* A step that leaves the tables alone keeps the invariant as soon as what *)
(* the callers remember stays consistent.                                  *)
LEMMA QuietStep ==
  ASSUME StoreIInv,
         UNCHANGED <<rowVars, attempt, journal, planVars, minted>>,
         paused' \in BOOLEAN, stop_requested' \in BOOLEAN,
         call' \in [Callers -> CallStates], CallsConsistent'
  PROVE  StoreIInv'
  <1> USE DEF rowVars, planVars
  <1>1. StoreTypeOK'
    BY DEF StoreIInv, StoreTypeOK
  <1>2. AbsentRowBlank' /\ RowSubmitted' /\ RanksInOrder' /\ TokensDrawn'
    BY DEF StoreIInv, AbsentRowBlank, RowSubmitted, RanksInOrder, TokensDrawn,
       Exists
  <1>3. OneLiveAttempt' /\ TokensUnique' /\ PlansKnown' /\ BudgetBound'
    BY DEF StoreIInv, OneLiveAttempt, HeldRanks, TokensUnique, PlansKnown,
       BudgetBound
  <1>4. OneActiveAnalysis' /\ DependencyFirst' /\ JournalAgrees'
    BY DEF StoreIInv, OneActiveAnalysis, DependencyFirst, JournalAgrees
  <1> QED
    BY <1>1, <1>2, <1>3, <1>4 DEF StoreIInv

(* Steps of a caller between two statements.                               *)
LEMMA BeginStep ==
  ASSUME StoreIInv, NEW c \in Callers, NEW step \in {"claim", "unstop"},
         UNCHANGED <<rowVars, attempt, journal, planVars, minted>>,
         paused' \in BOOLEAN, stop_requested' \in BOOLEAN,
         Begin(c, step, None)
  PROVE  StoreIInv'
  <1>1. call' \in [Callers -> CallStates]
    BY DEF StoreIInv, StoreTypeOK, Begin, CallStates, Steps, JobStates
  <1>2. CallsConsistent'
    BY DEF StoreIInv, StoreTypeOK, CallsConsistent, Begin, rowVars, Exists
  <1> QED
    BY <1>1, <1>2, QuietStep

LEMMA ReturnStep ==
  ASSUME StoreIInv, NEW c \in Callers,
         UNCHANGED <<rowVars, attempt, journal, planVars, minted>>,
         paused' \in BOOLEAN, stop_requested' \in BOOLEAN,
         Return(c)
  PROVE  StoreIInv'
  <1>1. call' \in [Callers -> CallStates]
    BY DEF StoreIInv, StoreTypeOK, Return, IdleCall, CallStates, Steps,
       JobStates
  <1>2. CallsConsistent'
    BY DEF StoreIInv, StoreTypeOK, CallsConsistent, Return, IdleCall, rowVars,
       Exists
  <1> QED
    BY <1>1, <1>2, QuietStep

-----------------------------------------------------------------------------
(* Inserting rows: the jobs of S have no row yet, no active job shares an  *)
(* analysis with S, nor do two of S.                                       *)
LEMMA InsertedRow ==
  ASSUME NEW S \in SUBSET Submissions, NEW j \in JobsOf(S)
  PROVE  /\ (CHOOSE s \in S : s.job = j) \in S
         /\ (CHOOSE s \in S : s.job = j).job = j
  BY DEF JobsOf

LEMMA FreshRows ==
  ASSUME StoreIInv, NEW S \in SUBSET Submissions,
         \A s \in S : ~RowConflict(s)
  PROVE  /\ \A j \in JobsOf(S) : j \in Jobs /\ ~Exists(j)
         /\ \A j \in Jobs : \A s \in S :
              state[j] \in Active => submission[j].analysis # s.analysis
  <1>1. \A j \in JobsOf(S) : j \in Jobs /\ ~Exists(j)
    BY SubmissionFields DEF JobsOf, RowConflict, Rows
  <1>2. ASSUME NEW j \in Jobs, NEW s \in S, state[j] \in Active
        PROVE  submission[j].analysis # s.analysis
    <2>1. j \in Rows
      BY <1>2 DEF Rows, Exists, Active, Waiting
    <2> QED
      BY <1>2, <2>1 DEF RowConflict
  <1> QED
    BY <1>1, <1>2

LEMMA InsertStep ==
  ASSUME StoreIInv, NEW S \in SUBSET Submissions,
         \A s \in S : ~RowConflict(s),
         \A s, t \in S : s.analysis = t.analysis => s = t,
         InsertRows(S),
         UNCHANGED <<consumed_attempts, consumed_active_ms, controlVars,
                     minted>>,
         call' \in [Callers -> CallStates],
         \A c \in Callers : call'[c] = call[c] \/ call'[c] = IdleCall,
         admission' \in [Plans -> Admissions \cup {None}],
         plan_jobs' \in [Jobs -> Plans \cup {None}],
         \A p \in Plans : admission[p] # None => admission'[p] = admission[p],
         \A j \in Jobs : plan_jobs'[j] # plan_jobs[j] =>
           j \in JobsOf(S) /\ admission'[plan_jobs'[j]] # None
  PROVE  StoreIInv'
  <1> USE DEF InsertRows, controlVars
  <1>a. \A j \in Jobs : j \in JobsOf(S) => ~Exists(j)
    BY FreshRows
  <1>b. \A j \in JobsOf(S) : /\ (CHOOSE s \in S : s.job = j) \in S
                             /\ (CHOOSE s \in S : s.job = j).job = j
    BY InsertedRow
  <1>c. \A j \in Jobs : IF j \in JobsOf(S)
                        THEN /\ state'[j] = "QUEUED" /\ submission'[j] \in S
                             /\ submission'[j].job = j
                        ELSE /\ state'[j] = state[j]
                             /\ submission'[j] = submission[j]
    BY <1>b
  <1>1. StoreTypeOK'
    <2>1. state' \in [Jobs -> JobStates]
      BY DEF StoreIInv, StoreTypeOK, JobStates, Active, Waiting
    <2>2. submission' \in [Jobs -> Submissions \cup {None}]
      BY <1>b DEF StoreIInv, StoreTypeOK
    <2> QED
      BY <2>1, <2>2 DEF StoreIInv, StoreTypeOK
  <1>2. AbsentRowBlank'
    BY <1>c DEF StoreIInv, AbsentRowBlank, Exists
  <1>3. RowSubmitted'
    <2> SUFFICES ASSUME NEW j \in Jobs, Exists(j)'
                 PROVE  /\ submission'[j] \in Submissions
                        /\ submission'[j].job = j
                        /\ attempt_count'[j] <= submission'[j].maxAttempts
      BY DEF RowSubmitted
    <2>1. CASE j \in JobsOf(S)
      <3>1. attempt_count[j] = 0
        BY <2>1, <1>a DEF StoreIInv, AbsentRowBlank
      <3>2. submission'[j] \in Submissions /\ submission'[j].job = j
        BY <2>1, <1>c
      <3>3. submission'[j].maxAttempts \in 1..MaxRank
        BY <3>2, SubmissionFields
      <3> QED
        BY <3>1, <3>2, <3>3, BoundsAssumption
    <2>2. CASE j \notin JobsOf(S)
      BY <2>2, <1>c DEF StoreIInv, RowSubmitted, Exists
    <2> QED
      BY <2>1, <2>2
  <1>4. RanksInOrder' /\ TokensDrawn' /\ TokensUnique'
    BY DEF StoreIInv, RanksInOrder, TokensDrawn, TokensUnique
  <1>5. OneLiveAttempt'
    BY <1>a, <1>c DEF StoreIInv, OneLiveAttempt, HeldRanks, Exists
  <1>6. PlansKnown' /\ BudgetBound'
    <2>1. ASSUME NEW j \in Jobs, plan_jobs'[j] # None
          PROVE  admission'[plan_jobs'[j]] # None
      BY <2>1 DEF StoreIInv, PlansKnown, StoreTypeOK
    <2>2. ASSUME NEW p \in Plans, admission'[p] = None
          PROVE  consumed_attempts'[p] = 0 /\ consumed_active_ms'[p] = 0
      BY <2>2 DEF StoreIInv, PlansKnown
    <2>3. ASSUME NEW p \in Plans, admission'[p] # None
          PROVE  /\ consumed_attempts'[p] <= admission'[p].maxAttempts
                 /\ consumed_active_ms'[p] <= admission'[p].maxMs
      <3>1. CASE admission[p] # None
        BY <3>1 DEF StoreIInv, BudgetBound
      <3>2. CASE admission[p] = None
        <4>1. admission'[p] \in Admissions
          BY <2>3
        <4> QED
          BY <4>1, <3>2, AdmissionFields DEF StoreIInv, PlansKnown
      <3> QED
        BY <3>1, <3>2
    <2> QED
      BY <2>1, <2>2, <2>3 DEF PlansKnown, BudgetBound
  <1>7. CallsConsistent'
    <2> SUFFICES ASSUME NEW c \in Callers
                 PROVE  /\ call'[c].step = "insert" =>
                             call'[c].arg \in Submissions
                        /\ call'[c].step \in {"cancel", "log"} =>
                             /\ call'[c].arg \in Jobs
                             /\ state'[call'[c].arg] # "ABSENT"
                        /\ call'[c].step = "log" =>
                             cancel_requested'[call'[c].arg]
      BY DEF CallsConsistent, Exists
    <2>1. CASE call'[c] = IdleCall
      BY <2>1 DEF IdleCall
    <2>2. CASE call'[c] = call[c]
      BY <2>2, <1>c DEF StoreIInv, CallsConsistent, Exists
    <2> QED
      BY <2>1, <2>2
  <1>8. OneActiveAnalysis'
    <2> SUFFICES ASSUME NEW j \in Jobs, NEW k \in Jobs,
                        state'[j] \in Active, state'[k] \in Active,
                        submission'[j].analysis = submission'[k].analysis
                 PROVE  j = k
      BY DEF OneActiveAnalysis
    <2>1. \A i \in Jobs : \A s \in S :
            state[i] \in Active => submission[i].analysis # s.analysis
      BY FreshRows
    <2>2. CASE j \in JobsOf(S) /\ k \in JobsOf(S)
      BY <2>2, <1>c
    <2>3. CASE j \in JobsOf(S) /\ k \notin JobsOf(S)
      BY <2>3, <2>1, <1>c
    <2>4. CASE j \notin JobsOf(S) /\ k \in JobsOf(S)
      BY <2>4, <2>1, <1>c
    <2>5. CASE j \notin JobsOf(S) /\ k \notin JobsOf(S)
      BY <2>5, <1>c DEF StoreIInv, OneActiveAnalysis
    <2> QED
      BY <2>2, <2>3, <2>4, <2>5
  <1>9. DependencyFirst'
    <2> SUFFICES ASSUME NEW j \in Jobs, attempt_count'[j] > 0,
                        submission'[j].dep # None
                 PROVE  state'[submission'[j].dep] = "COMPLETED"
      BY DEF DependencyFirst
    <2>1. Exists(j) /\ j \notin JobsOf(S)
      BY <1>a DEF StoreIInv, AbsentRowBlank
    <2>2. state[submission[j].dep] = "COMPLETED"
      BY <2>1, <1>c DEF StoreIInv, DependencyFirst
    <2>3. submission[j].dep \in Jobs
      BY <2>1, <1>c, SubmissionFields DEF StoreIInv, RowSubmitted
    <2> QED
      BY <2>1, <2>2, <2>3, <1>a, <1>c DEF Exists
  <1>10. JournalAgrees'
    BY <1>a, <1>c DEF StoreIInv, JournalAgrees, AbsentRowBlank
  <1> QED
    BY <1>1, <1>2, <1>3, <1>4, <1>5, <1>6, <1>7, <1>8, <1>9, <1>10
    DEF StoreIInv

LEMMA EnqueueStep ==
  ASSUME StoreIInv, NEW c \in Callers, NEW s \in Submissions,
         EnqueueLookup(c, s)
  PROVE  StoreIInv'
  <1> USE DEF EnqueueLookup, controlVars
  <1>1. CASE MayInsert(s)
    <2>1. call' \in [Callers -> CallStates]
      BY <1>1 DEF StoreIInv, StoreTypeOK, Begin, CallStates, Steps, JobStates
    <2>2. CallsConsistent'
      BY <1>1 DEF StoreIInv, StoreTypeOK, CallsConsistent, Begin, rowVars, Exists
    <2> QED
      BY <2>1, <2>2, QuietStep DEF StoreIInv, StoreTypeOK
  <1>2. CASE ~MayInsert(s)
    <2>1. CallsConsistent'
      BY <1>2 DEF StoreIInv, CallsConsistent, rowVars, Exists
    <2> QED
      BY <1>2, <2>1, QuietStep DEF StoreIInv, StoreTypeOK
  <1> QED
    BY <1>1, <1>2

LEMMA InsertRowStep ==
  ASSUME StoreIInv, NEW c \in Callers, EnqueueInsert(c)
  PROVE  StoreIInv'
  <1> DEFINE s == call[c].arg
  <1> USE DEF EnqueueInsert
  <1>1. s \in Submissions
    BY DEF StoreIInv, CallsConsistent
  <1>2. CASE RowConflict(s)
    BY <1>2, ReturnStep DEF StoreIInv, StoreTypeOK, controlVars
  <1>3. CASE ~RowConflict(s)
    <2>1. call' \in [Callers -> CallStates]
      BY DEF StoreIInv, StoreTypeOK, Return, IdleCall, CallStates, Steps,
         JobStates
    <2>2. \A d \in Callers : call'[d] = call[d] \/ call'[d] = IdleCall
      BY DEF Return, StoreIInv, StoreTypeOK
    <2>3. InsertRows({s})
      BY <1>3
    <2> HIDE DEF s, EnqueueInsert
    <2>4. UNCHANGED <<planVars, controlVars, minted>>
      BY DEF EnqueueInsert
    <2> QED
      BY <1>1, <1>3, <2>1, <2>2, <2>3, <2>4, InsertStep
      DEF planVars, StoreIInv, StoreTypeOK
  <1> QED
    BY <1>2, <1>3

LEMMA AdmitStep ==
  ASSUME StoreIInv, NEW c \in Callers, NEW a \in Admissions, AdmitPlan(c, a)
  PROVE  StoreIInv'
  <1>1. a.plan \in Plans /\ a.subs \in SUBSET Submissions
    BY AdmissionFields
  <1>2. CASE admission[a.plan] = None /\ WithinBudget(a) /\ AllInsertable(a)
    <2>1. InsertRows(a.subs)
      BY <1>2 DEF AdmitPlan
    <2>2. /\ \A s \in a.subs : ~RowConflict(s)
          /\ \A s, t \in a.subs : s.analysis = t.analysis => s = t
      BY <1>2 DEF AllInsertable
    <2>3. admission' = [admission EXCEPT ![a.plan] = a]
      BY <1>2 DEF AdmitPlan
    <2>4. plan_jobs' = [j \in Jobs |-> IF j \in JobsOf(a.subs) THEN a.plan
                                       ELSE plan_jobs[j]]
      BY <1>2 DEF AdmitPlan, LinkedJobs
    <2>5. UNCHANGED <<consumed_attempts, consumed_active_ms, controlVars,
                      minted, call>>
      BY DEF AdmitPlan
    <2>6. /\ admission' \in [Plans -> Admissions \cup {None}]
          /\ \A p \in Plans : admission[p] # None => admission'[p] = admission[p]
      BY <1>1, <1>2, <2>3 DEF StoreIInv, StoreTypeOK
    <2>7. plan_jobs' \in [Jobs -> Plans \cup {None}]
      BY <1>1, <2>4 DEF StoreIInv, StoreTypeOK
    <2>8. \A j \in Jobs : plan_jobs'[j] # plan_jobs[j] =>
            j \in JobsOf(a.subs) /\ admission'[plan_jobs'[j]] # None
      BY <1>1, <2>3, <2>4, NoneAssumption DEF StoreIInv, StoreTypeOK
    <2>9. call' \in [Callers -> CallStates]
      BY <2>5 DEF StoreIInv, StoreTypeOK
    <2> QED
      BY <1>1, <2>1, <2>2, <2>5, <2>6, <2>7, <2>8, <2>9, InsertStep
  <1>3. CASE ~(admission[a.plan] = None /\ WithinBudget(a) /\ AllInsertable(a))
    <2>1. UNCHANGED <<rowVars, attempt, journal, planVars, controlVars, minted,
                      call>>
      BY <1>3 DEF AdmitPlan, planVars
    <2>2. CallsConsistent'
      BY <2>1 DEF StoreIInv, CallsConsistent, rowVars, Exists
    <2> QED
      BY <2>1, <2>2, QuietStep DEF StoreIInv, StoreTypeOK, controlVars
  <1> QED
    BY <1>2, <1>3

-----------------------------------------------------------------------------
(* What a claim reserves is natural and fits in the plan.                  *)
LEMMA ReservationFits ==
  ASSUME StoreIInv, NEW j \in Jobs, Claimable(j)
  PROVE  /\ Reservation(j) \in Nat
         /\ plan_jobs[j] # None =>
              /\ plan_jobs[j] \in Plans
              /\ admission[plan_jobs[j]] \in Admissions
              /\ consumed_attempts[plan_jobs[j]] + 1
                   <= admission[plan_jobs[j]].maxAttempts
              /\ consumed_active_ms[plan_jobs[j]] + Reservation(j)
                   <= admission[plan_jobs[j]].maxMs
  <1>1. CASE plan_jobs[j] = None
    BY <1>1, BoundsAssumption DEF Reservation
  <1>2. CASE plan_jobs[j] # None
    <2> DEFINE p == plan_jobs[j]
    <2>1. p \in Plans /\ admission[p] \in Admissions
      BY <1>2 DEF StoreIInv, StoreTypeOK, PlansKnown
    <2>2. /\ admission[p].maxMs \in Nat /\ admission[p].maxAttempts \in Nat
          /\ consumed_active_ms[p] \in Nat /\ consumed_attempts[p] \in Nat
      BY <2>1, AdmissionFields DEF StoreIInv, StoreTypeOK
    <2>3. consumed_attempts[p] < admission[p].maxAttempts /\ BudgetLeft(p) > 0
      BY <1>2 DEF Claimable, PlanAllows
    <2> QED
      BY <1>2, <2>1, <2>2, <2>3, BoundsAssumption
      DEF Reservation, Smaller, BudgetLeft
  <1> QED
    BY <1>1, <1>2

LEMMA ClaimStep ==
  ASSUME StoreIInv, NEW c \in Callers, NEW j \in Jobs, ClaimJob(c, j)
  PROVE  StoreIInv'
  <1> DEFINE rank == attempt_count[j] + 1
             row == [state |-> "RUNNING", owner |-> minted + 1,
                     reserved |-> Reservation(j), elapsed |-> 0,
                     settled |-> FALSE]
  <1>1. Claimable(j) /\ Exists(j)
    BY DEF ClaimJob, First, Claimable, Exists, Waiting
  <1>2. /\ submission[j] \in Submissions /\ submission[j].job = j
        /\ rank <= submission[j].maxAttempts /\ rank \in Ranks
    <2>1. submission[j] \in Submissions /\ submission[j].job = j
      BY <1>1 DEF StoreIInv, RowSubmitted
    <2>2. submission[j].maxAttempts \in 1..MaxRank
      BY <2>1, SubmissionFields
    <2>3. attempt_count[j] \in Nat /\ attempt_count[j] < submission[j].maxAttempts
      BY <1>1 DEF StoreIInv, StoreTypeOK, Claimable
    <2> QED
      BY <2>1, <2>2, <2>3, BoundsAssumption DEF Ranks
  <1>3. /\ state' = [state EXCEPT ![j] = "RUNNING"]
        /\ attempt_count' = [attempt_count EXCEPT ![j] = rank]
        /\ owner_token' = [owner_token EXCEPT ![j] = minted + 1]
        /\ attempt' = [attempt EXCEPT ![j][rank] = row]
        /\ journal' = [journal EXCEPT ![j] = <<"QUEUED", "RUNNING">>]
        /\ minted' = minted + 1
        /\ Return(c)
        /\ UNCHANGED <<submission, cancel_requested, admission, plan_jobs,
                       controlVars>>
    BY DEF ClaimJob, FreshToken
  <1>4. /\ consumed_attempts' =
            [p \in Plans |-> IF p = plan_jobs[j] THEN consumed_attempts[p] + 1
                             ELSE consumed_attempts[p]]
        /\ consumed_active_ms' =
            [p \in Plans |-> IF p = plan_jobs[j]
                             THEN consumed_active_ms[p] + Reservation(j)
                             ELSE consumed_active_ms[p]]
    BY DEF ClaimJob
  <1>5. /\ Reservation(j) \in Nat
        /\ plan_jobs[j] # None =>
             /\ consumed_attempts[plan_jobs[j]] + 1
                  <= admission[plan_jobs[j]].maxAttempts
             /\ consumed_active_ms[plan_jobs[j]] + Reservation(j)
                  <= admission[plan_jobs[j]].maxMs
             /\ admission[plan_jobs[j]] # None
    BY <1>1, ReservationFits, NoneAssumption
  <1>6. /\ minted \in Nat /\ minted + 1 # None /\ row \in AttemptRows
        /\ attempt_count[j] \in Nat /\ state[j] \in Waiting
    BY <1>1, <1>5, NoneAssumption
    DEF StoreIInv, StoreTypeOK, AttemptRows, AttemptStates, Claimable
  <1>7. \A k \in Jobs : \A r \in Ranks :
          attempt'[k][r] = IF k = j /\ r = rank THEN row ELSE attempt[k][r]
    BY <1>2, <1>3 DEF StoreIInv, StoreTypeOK
  <1> HIDE DEF row
  <1>8. row.state = "RUNNING" /\ row.owner = minted + 1
    BY DEF row
  <1>a. StoreTypeOK'
    <2>1. state' \in [Jobs -> JobStates] /\ journal' \in [Jobs -> JobStates \X JobStates]
      BY <1>3 DEF StoreIInv, StoreTypeOK, JobStates, Active, Waiting
    <2>2. attempt' \in [Jobs -> [Ranks -> AttemptRows]]
      BY <1>2, <1>3, <1>6 DEF StoreIInv, StoreTypeOK
    <2>3. attempt_count' \in [Jobs -> 0..MaxRank]
      BY <1>2, <1>3 DEF StoreIInv, StoreTypeOK, Ranks
    <2>4. owner_token' \in [Jobs -> Nat \cup {None}] /\ minted' \in Nat
      BY <1>3, <1>6 DEF StoreIInv, StoreTypeOK
    <2>5. consumed_attempts' \in [Plans -> Nat] /\ consumed_active_ms' \in [Plans -> Nat]
      BY <1>4, <1>5 DEF StoreIInv, StoreTypeOK
    <2>6. call' \in [Callers -> CallStates]
      BY <1>3 DEF StoreIInv, StoreTypeOK, Return, IdleCall, CallStates, Steps,
         JobStates
    <2> QED
      BY <1>3, <2>1, <2>2, <2>3, <2>4, <2>5, <2>6
      DEF StoreIInv, StoreTypeOK, controlVars
  <1>b. AbsentRowBlank' /\ RowSubmitted'
    <2>1. AbsentRowBlank'
      BY <1>1, <1>3 DEF StoreIInv, StoreTypeOK, AbsentRowBlank, Exists
    <2>2. RowSubmitted'
      BY <1>1, <1>2, <1>3 DEF StoreIInv, StoreTypeOK, RowSubmitted, Exists
    <2> QED
      BY <2>1, <2>2
  <1>c. RanksInOrder'
    <2> SUFFICES ASSUME NEW k \in Jobs, NEW r \in Ranks
                 PROVE  (attempt'[k][r].state = "NONE") <=> (r > attempt_count'[k])
      BY DEF RanksInOrder
    <2>1. CASE k # j
      BY <2>1, <1>3, <1>7 DEF StoreIInv, StoreTypeOK, RanksInOrder
    <2>2. CASE k = j /\ r = rank
      BY <2>2, <1>2, <1>3, <1>6, <1>7, <1>8 DEF StoreIInv, StoreTypeOK
    <2>3. CASE k = j /\ r # rank
      <3>1. attempt_count'[k] = rank /\ attempt'[k][r] = attempt[k][r]
        BY <2>3, <1>3, <1>7 DEF StoreIInv, StoreTypeOK
      <3>2. (attempt[k][r].state = "NONE") <=> (r > attempt_count[k])
        BY DEF StoreIInv, RanksInOrder
      <3> QED
        BY <2>3, <3>1, <3>2, <1>6, BoundsAssumption DEF Ranks
    <2> QED
      BY <2>1, <2>2, <2>3
  <1>d. OneLiveAttempt'
    <2>1. ASSUME NEW k \in Jobs, k # j
          PROVE  HeldRanks(k)' = HeldRanks(k)
      BY <2>1, <1>7 DEF HeldRanks
    <2>2. HeldRanks(j)' = {rank}
      <3>1. HeldRanks(j) = {}
        BY <1>6 DEF StoreIInv, OneLiveAttempt, Waiting
      <3> QED
        BY <3>1, <1>2, <1>7, <1>8 DEF HeldRanks
    <2>3. /\ attempt_count'[j] = rank /\ owner_token'[j] = minted + 1
          /\ state'[j] = "RUNNING" /\ attempt'[j][rank] = row
      BY <1>2, <1>3, <1>7 DEF StoreIInv, StoreTypeOK
    <2>4. ASSUME NEW k \in Jobs, k # j
          PROVE  /\ state'[k] = state[k] /\ owner_token'[k] = owner_token[k]
                 /\ attempt_count'[k] = attempt_count[k]
                 /\ \A r \in Ranks : attempt'[k][r] = attempt[k][r]
      BY <2>4, <1>3, <1>7 DEF StoreIInv, StoreTypeOK
    <2> SUFFICES ASSUME NEW k \in Jobs
                 PROVE  IF state'[k] = "RUNNING"
                        THEN /\ HeldRanks(k)' = {attempt_count'[k]}
                             /\ owner_token'[k] = attempt'[k][attempt_count'[k]].owner
                             /\ owner_token'[k] # None
                        ELSE HeldRanks(k)' = {} /\ owner_token'[k] = None
      BY DEF OneLiveAttempt
    <2>5. CASE k = j
      BY <2>5, <2>2, <2>3, <1>6, <1>8
    <2>6. CASE k # j
      <3>1. state[k] = "RUNNING" => attempt_count[k] \in Ranks
        BY DEF StoreIInv, OneLiveAttempt, HeldRanks
      <3> QED
        BY <2>6, <2>1, <2>4, <3>1 DEF StoreIInv, OneLiveAttempt
    <2> QED
      BY <2>5, <2>6
  <1>e. TokensDrawn' /\ TokensUnique'
    <2>1. \A k \in Jobs : \A r \in Ranks :
            attempt[k][r].owner \in Nat \cup {None}
      BY DEF StoreIInv, StoreTypeOK, AttemptRows
    <2>2. TokensDrawn'
      BY <2>1, <1>3, <1>6, <1>7, <1>8 DEF StoreIInv, TokensDrawn
    <2>3. TokensUnique'
      <3> SUFFICES ASSUME NEW k \in Jobs, NEW l \in Jobs, NEW r \in Ranks,
                          NEW q \in Ranks, attempt'[k][r].owner # None,
                          attempt'[k][r].owner = attempt'[l][q].owner
                   PROVE  k = l /\ r = q
        BY DEF TokensUnique
      <3>1. \A i \in Jobs : \A n \in Ranks :
              attempt[i][n].owner # None => attempt[i][n].owner < minted + 1
        BY <2>1, <1>6 DEF StoreIInv, TokensDrawn
      <3>2. CASE k = j /\ r = rank /\ ~(l = j /\ q = rank)
        <4>1. attempt[l][q].owner = minted + 1
          BY <3>2, <1>7, <1>8
        <4> QED
          BY <4>1, <3>1, <1>6
      <3>3. CASE l = j /\ q = rank /\ ~(k = j /\ r = rank)
        <4>1. attempt[k][r].owner = minted + 1
          BY <3>3, <1>7, <1>8
        <4> QED
          BY <4>1, <3>1, <1>6
      <3>4. CASE ~(k = j /\ r = rank) /\ ~(l = j /\ q = rank)
        BY <3>4, <1>7 DEF StoreIInv, TokensUnique
      <3> QED
        BY <3>2, <3>3, <3>4
    <2> QED
      BY <2>2, <2>3
  <1>f. PlansKnown' /\ BudgetBound'
    <2>1. UNCHANGED <<plan_jobs, admission>>
      BY <1>3
    <2>2. ASSUME NEW p \in Plans, p # plan_jobs[j]
          PROVE  /\ consumed_attempts'[p] = consumed_attempts[p]
                 /\ consumed_active_ms'[p] = consumed_active_ms[p]
      BY <2>2, <1>4
    <2>3. ASSUME NEW p \in Plans, p = plan_jobs[j]
          PROVE  /\ admission[p] # None
                 /\ consumed_attempts'[p] <= admission[p].maxAttempts
                 /\ consumed_active_ms'[p] <= admission[p].maxMs
      BY <2>3, <1>4, <1>5, NoneAssumption
    <2>4. PlansKnown'
      BY <2>1, <2>2, <2>3 DEF StoreIInv, PlansKnown
    <2>5. BudgetBound'
      BY <2>1, <2>2, <2>3 DEF StoreIInv, BudgetBound
    <2> QED
      BY <2>4, <2>5
  <1>g. CallsConsistent'
    BY <1>1, <1>3 DEF StoreIInv, StoreTypeOK, CallsConsistent, Return, IdleCall,
       Exists
  <1>h. OneActiveAnalysis'
    BY <1>3, <1>6 DEF StoreIInv, StoreTypeOK, OneActiveAnalysis, Active
  <1>i. DependencyFirst'
    <2>1. \A k \in Jobs : attempt_count'[k] > 0 /\ submission[k].dep # None
            => state[submission[k].dep] = "COMPLETED"
      BY <1>1, <1>3 DEF StoreIInv, StoreTypeOK, DependencyFirst, Claimable,
         DependencyMet
    <2>2. \A k \in Jobs : state[k] = "COMPLETED" => state'[k] = "COMPLETED"
      BY <1>3, <1>6 DEF StoreIInv, StoreTypeOK, Waiting
    <2> SUFFICES ASSUME NEW k \in Jobs, attempt_count'[k] > 0,
                        submission'[k].dep # None
                 PROVE  state'[submission'[k].dep] = "COMPLETED"
      BY DEF DependencyFirst
    <2>3. Exists(k)
      BY <1>1, <1>3 DEF StoreIInv, StoreTypeOK, AbsentRowBlank
    <2>4. submission[k].dep \in Jobs
      BY <2>3, <1>3, SubmissionFields DEF StoreIInv, RowSubmitted
    <2> QED
      BY <2>1, <2>2, <2>4, <1>3
  <1>j. JournalAgrees'
    BY <1>3 DEF StoreIInv, StoreTypeOK, JournalAgrees
  <1> QED
    BY <1>a, <1>b, <1>c, <1>d, <1>e, <1>f, <1>g, <1>h, <1>i, <1>j DEF StoreIInv

-----------------------------------------------------------------------------
(* Ending the live attempt of a job: whatever its end state, and whether   *)
(* the reservation is settled or not.                                      *)
LEMMA EndStep ==
  ASSUME StoreIInv, NEW j \in Jobs, NEW to \in Finishable \cup {"QUEUED"},
         NEW rowTo \in AttemptStates \ {"NONE", "RUNNING"},
         state[j] = "RUNNING", EndRow(j, to),
         attempt' \in [Jobs -> [Ranks -> AttemptRows]],
         \A k \in Jobs : \A r \in Ranks :
           /\ attempt'[k][r].owner = attempt[k][r].owner
           /\ attempt'[k][r].state = IF k = j /\ r \in HeldRanks(j) THEN rowTo
                                     ELSE attempt[k][r].state,
         UNCHANGED <<submission, cancel_requested, attempt_count, admission,
                     plan_jobs, consumed_attempts, controlVars, minted, call>>,
         consumed_active_ms' \in [Plans -> Nat],
         \A p \in Plans : consumed_active_ms'[p] <= consumed_active_ms[p]
  PROVE  StoreIInv'
  <1> USE DEF EndRow, controlVars
  <1>1. /\ state' = [state EXCEPT ![j] = to]
        /\ owner_token' = [owner_token EXCEPT ![j] = None]
        /\ journal' = [journal EXCEPT ![j] = <<"RUNNING", to>>]
        /\ to \in JobStates /\ to # "ABSENT" /\ to # "RUNNING"
    BY DEF Finishable, JobStates, Final, Active, Waiting
  <1>2. StoreTypeOK'
    <2>1. state' \in [Jobs -> JobStates] /\ journal' \in [Jobs -> JobStates \X JobStates]
      BY <1>1 DEF StoreIInv, StoreTypeOK, JobStates, Active
    <2> QED
      BY <1>1, <2>1 DEF StoreIInv, StoreTypeOK
  <1>3. AbsentRowBlank' /\ RowSubmitted'
    BY <1>1 DEF StoreIInv, StoreTypeOK, AbsentRowBlank, RowSubmitted, Exists
  <1>4. RanksInOrder' /\ TokensDrawn' /\ TokensUnique'
    <2>1. ASSUME NEW k \in Jobs, NEW r \in Ranks
          PROVE  (attempt'[k][r].state = "NONE") <=> (attempt[k][r].state = "NONE")
      BY DEF HeldRanks
    <2>2. RanksInOrder'
      BY <2>1 DEF StoreIInv, RanksInOrder
    <2>3. \A k \in Jobs : \A r \in Ranks :
            attempt'[k][r].owner = attempt[k][r].owner
      OBVIOUS
    <2>4. TokensDrawn'
      BY <2>3 DEF StoreIInv, TokensDrawn
    <2>5. TokensUnique'
      <3> SUFFICES ASSUME NEW k \in Jobs, NEW l \in Jobs, NEW r \in Ranks,
                          NEW q \in Ranks, attempt'[k][r].owner # None,
                          attempt'[k][r].owner = attempt'[l][q].owner
                   PROVE  k = l /\ r = q
        BY DEF TokensUnique
      <3>1. /\ attempt'[k][r].owner = attempt[k][r].owner
            /\ attempt'[l][q].owner = attempt[l][q].owner
        BY <2>3
      <3>2. attempt[k][r].owner # None /\ attempt[k][r].owner = attempt[l][q].owner
              => k = l /\ r = q
        BY DEF StoreIInv, TokensUnique
      <3> QED
        BY <3>1, <3>2
    <2> QED
      BY <2>2, <2>4, <2>5
  <1>5. OneLiveAttempt'
    <2> SUFFICES ASSUME NEW k \in Jobs
                 PROVE  IF state'[k] = "RUNNING"
                        THEN /\ HeldRanks(k)' = {attempt_count'[k]}
                             /\ owner_token'[k] = attempt'[k][attempt_count'[k]].owner
                             /\ owner_token'[k] # None
                        ELSE HeldRanks(k)' = {} /\ owner_token'[k] = None
      BY DEF OneLiveAttempt
    <2>1. CASE k = j
      <3>1. HeldRanks(j)' = {}
        BY DEF HeldRanks
      <3> QED
        BY <2>1, <3>1, <1>1 DEF StoreIInv, StoreTypeOK
    <2>2. CASE k # j
      <3>1. HeldRanks(k)' = HeldRanks(k)
        BY <2>2 DEF HeldRanks
      <3>2. state[k] = "RUNNING" => attempt_count[k] \in Ranks
        BY DEF StoreIInv, OneLiveAttempt, HeldRanks
      <3>3. state'[k] = state[k] /\ owner_token'[k] = owner_token[k]
        BY <2>2, <1>1 DEF StoreIInv, StoreTypeOK
      <3> QED
        BY <3>1, <3>2, <3>3 DEF StoreIInv, OneLiveAttempt
    <2> QED
      BY <2>1, <2>2
  <1>6. PlansKnown' /\ BudgetBound'
    <2>1. \A p \in Plans : consumed_active_ms[p] \in Nat /\ consumed_active_ms'[p] \in Nat
      BY DEF StoreIInv, StoreTypeOK
    <2>2. \A p \in Plans : admission[p] # None => admission[p].maxMs \in Nat
      BY AdmissionFields DEF StoreIInv, StoreTypeOK
    <2>3. ASSUME NEW p \in Plans, admission[p] = None
          PROVE  consumed_attempts'[p] = 0 /\ consumed_active_ms'[p] = 0
      <3>1. consumed_attempts[p] = 0 /\ consumed_active_ms[p] = 0
        BY <2>3 DEF StoreIInv, PlansKnown
      <3>2. consumed_active_ms'[p] <= consumed_active_ms[p]
        OBVIOUS
      <3> QED
        BY <3>1, <3>2, <2>1
    <2>4. PlansKnown'
      BY <2>3 DEF StoreIInv, PlansKnown
    <2>5. ASSUME NEW p \in Plans, admission[p] # None
          PROVE  consumed_active_ms'[p] <= admission[p].maxMs
      <3>1. consumed_active_ms[p] <= admission[p].maxMs
        BY <2>5 DEF StoreIInv, BudgetBound
      <3>2. consumed_active_ms'[p] <= consumed_active_ms[p]
        OBVIOUS
      <3> QED
        BY <3>1, <3>2, <2>1, <2>2, <2>5
    <2>6. BudgetBound'
      BY <2>5 DEF StoreIInv, BudgetBound
    <2> QED
      BY <2>4, <2>6
  <1>7. CallsConsistent'
    BY <1>1 DEF StoreIInv, StoreTypeOK, CallsConsistent, Exists
  <1>8. OneActiveAnalysis'
    BY <1>1 DEF StoreIInv, StoreTypeOK, OneActiveAnalysis, Active
  <1>9. DependencyFirst'
    <2>1. ASSUME NEW k \in Jobs, state[k] = "COMPLETED"
          PROVE  state'[k] = "COMPLETED"
      BY <2>1, <1>1 DEF StoreIInv, StoreTypeOK
    <2>2. ASSUME NEW k \in Jobs, attempt_count[k] > 0, submission[k].dep # None
          PROVE  submission[k].dep \in Jobs
      <3>1. submission[k] \in Submissions
        BY <2>2 DEF StoreIInv, AbsentRowBlank, RowSubmitted
      <3> QED
        BY <2>2, <3>1, SubmissionFields
    <2> QED
      BY <2>1, <2>2 DEF StoreIInv, DependencyFirst
  <1>10. JournalAgrees'
    BY <1>1 DEF StoreIInv, StoreTypeOK, JournalAgrees
  <1> QED
    BY <1>2, <1>3, <1>4, <1>5, <1>6, <1>7, <1>8, <1>9, <1>10 DEF StoreIInv

(* The live attempt's reservation is found, and the refund stays within it.*)
LEMMA ChargeBounds ==
  ASSUME StoreIInv, NEW o, NEW j \in Jobs, NEW ms \in Nat
  PROVE  /\ Reserved(o, j) \in Nat
         /\ Charge(o, j, ms) \in Nat
         /\ Refund(o, j, ms) \in Nat
  <1>1. Reserved(o, j) \in Nat
    <2> DEFINE held == {r \in HeldRanks(j) : attempt[j][r].owner = o}
    <2>1. CASE held = {}
      BY <2>1 DEF Reserved
    <2>2. CASE held # {}
      <3>1. (CHOOSE r \in held : TRUE) \in Ranks
        BY <2>2 DEF HeldRanks
      <3> QED
        BY <2>2, <3>1 DEF Reserved, StoreIInv, StoreTypeOK, AttemptRows
    <2> QED
      BY <2>1, <2>2
  <1> QED
    BY <1>1 DEF Charge, Refund, Smaller

LEMMA FinishStep ==
  ASSUME StoreIInv, NEW j \in Jobs, NEW o \in 1..minted,
         NEW to \in Finishable, NEW ms \in 1..Quantum, Finish(o, j, to, ms)
  PROVE  StoreIInv'
  <1>1. minted \in Nat /\ o \in Nat /\ ms \in Nat
    BY BoundsAssumption DEF StoreIInv, StoreTypeOK
  <1>2. /\ Charge(o, j, ms) \in Nat /\ Refund(o, j, ms) \in Nat
        /\ plan_jobs[j] # None => Refund(o, j, ms) <= consumed_active_ms[plan_jobs[j]]
    BY <1>1, ChargeBounds DEF Finish
  <1>3. /\ state[j] = "RUNNING" /\ owner_token[j] = o /\ EndRow(j, to)
        /\ UNCHANGED <<submission, cancel_requested, attempt_count, admission,
                       plan_jobs, consumed_attempts, controlVars, minted, call>>
    BY DEF Finish, Owns
  <1>4. attempt' = [attempt EXCEPT ![j] = [r \in Ranks |->
          IF r \in HeldRanks(j) /\ attempt[j][r].owner = o
          THEN [attempt[j][r] EXCEPT !.state = to, !.settled = TRUE,
                                     !.elapsed = Charge(o, j, ms)]
          ELSE attempt[j][r]]]
    BY DEF Finish
  <1>5. \A r \in HeldRanks(j) : attempt[j][r].owner = o
    BY <1>3 DEF StoreIInv, OneLiveAttempt
  <1>6. to \in AttemptStates \ {"NONE", "RUNNING"}
    BY DEF Finishable, Final, AttemptStates
  <1>a. \A k \in Jobs : \A r \in Ranks : attempt[k][r] \in AttemptRows
    BY DEF StoreIInv, StoreTypeOK
  <1>b. \A r \in Ranks :
          [attempt[j][r] EXCEPT !.state = to, !.settled = TRUE,
                                !.elapsed = Charge(o, j, ms)] \in AttemptRows
    BY <1>a, <1>2, <1>6 DEF AttemptRows
  <1>7. attempt' \in [Jobs -> [Ranks -> AttemptRows]]
    BY <1>4, <1>a, <1>b DEF StoreIInv, StoreTypeOK
  <1>8. ASSUME NEW k \in Jobs, NEW r \in Ranks
        PROVE  /\ attempt'[k][r].owner = attempt[k][r].owner
               /\ attempt'[k][r].state = IF k = j /\ r \in HeldRanks(j) THEN to
                                         ELSE attempt[k][r].state
    <2>1. CASE k = j
      <3>1. attempt'[k][r] =
              IF r \in HeldRanks(j)
              THEN [attempt[j][r] EXCEPT !.state = to, !.settled = TRUE,
                                         !.elapsed = Charge(o, j, ms)]
              ELSE attempt[j][r]
        BY <2>1, <1>4, <1>5 DEF StoreIInv, StoreTypeOK
      <3> QED
        BY <3>1, <2>1, <1>a DEF AttemptRows
    <2>2. CASE k # j
      BY <2>2, <1>4 DEF StoreIInv, StoreTypeOK
    <2> QED
      BY <2>1, <2>2
  <1>9. consumed_active_ms' = [q \in Plans |->
          IF q = plan_jobs[j] THEN consumed_active_ms[q] - Refund(o, j, ms)
          ELSE consumed_active_ms[q]]
    BY DEF Finish
  <1>10. /\ consumed_active_ms' \in [Plans -> Nat]
         /\ \A p \in Plans : consumed_active_ms'[p] <= consumed_active_ms[p]
    BY <1>2, <1>9, NoneAssumption DEF StoreIInv, StoreTypeOK
  <1> QED
    BY <1>3, <1>6, <1>7, <1>8, <1>10, EndStep

LEMMA CloseStep ==
  ASSUME StoreIInv, NEW j \in Jobs, NEW to \in Finishable \cup {"QUEUED"},
         NEW rowTo \in AttemptStates \ {"NONE", "RUNNING"},
         state[j] = "RUNNING", EndRow(j, to), CloseAttempt(j, rowTo),
         UNCHANGED <<submission, cancel_requested, attempt_count, planVars,
                     controlVars, minted, call>>
  PROVE  StoreIInv'
  <1>a. \A k \in Jobs : \A r \in Ranks : attempt[k][r] \in AttemptRows
    BY DEF StoreIInv, StoreTypeOK
  <1>b. \A r \in Ranks : [attempt[j][r] EXCEPT !.state = rowTo] \in AttemptRows
    BY <1>a DEF AttemptRows
  <1>1. attempt' \in [Jobs -> [Ranks -> AttemptRows]]
    BY <1>a, <1>b DEF CloseAttempt, StoreIInv, StoreTypeOK
  <1>2. ASSUME NEW k \in Jobs, NEW r \in Ranks
        PROVE  /\ attempt'[k][r].owner = attempt[k][r].owner
               /\ attempt'[k][r].state = IF k = j /\ r \in HeldRanks(j) THEN rowTo
                                         ELSE attempt[k][r].state
    <2>1. CASE k = j
      <3>1. attempt'[k][r] = IF r \in HeldRanks(j)
                             THEN [attempt[j][r] EXCEPT !.state = rowTo]
                             ELSE attempt[j][r]
        BY <2>1 DEF CloseAttempt, StoreIInv, StoreTypeOK
      <3> QED
        BY <3>1, <2>1, <1>a DEF AttemptRows
    <2>2. CASE k # j
      BY <2>2 DEF CloseAttempt, StoreIInv, StoreTypeOK
    <2> QED
      BY <2>1, <2>2
  <1>3. /\ consumed_active_ms' \in [Plans -> Nat]
        /\ \A p \in Plans : consumed_active_ms'[p] <= consumed_active_ms[p]
    BY DEF planVars, StoreIInv, StoreTypeOK
  <1> QED
    BY <1>1, <1>2, <1>3, EndStep DEF planVars

-----------------------------------------------------------------------------
(* Cancellation.                                                           *)
LEMMA CancelReadStep ==
  ASSUME StoreIInv, NEW c \in Callers, NEW j \in Jobs, CancelRead(c, j)
  PROVE  StoreIInv'
  <1>1. call' \in [Callers -> CallStates]
    BY DEF CancelRead, StoreIInv, StoreTypeOK, CallStates, Steps
  <1>2. CallsConsistent'
    BY DEF CancelRead, StoreIInv, StoreTypeOK, CallsConsistent, rowVars, Exists
  <1> QED
    BY <1>1, <1>2, QuietStep
    DEF CancelRead, StoreIInv, StoreTypeOK, controlVars

LEMMA CancelUpdateStep ==
  ASSUME StoreIInv, NEW c \in Callers, CancelUpdate(c)
  PROVE  StoreIInv'
  <1> DEFINE j == call[c].arg
  <1>1. j \in Jobs /\ Exists(j)
    BY DEF CancelUpdate, StoreIInv, CallsConsistent
  <1>2. CASE state[j] \in Final /\ Return(c) /\ UNCHANGED <<state, cancel_requested>>
    BY <1>2, ReturnStep
    DEF CancelUpdate, rowVars, controlVars, StoreIInv, StoreTypeOK
  <1>3. CASE /\ state[j] \notin Final
             /\ state' = [state EXCEPT ![j] = CancelledState(state[j])]
             /\ cancel_requested' = [cancel_requested EXCEPT ![j] = TRUE]
             /\ call' = [call EXCEPT ![c].step = "log"]
    <2> DEFINE to == CancelledState(state[j])
    <2>1. /\ to \in JobStates
          /\ to = state[j] \/ (to = "CANCELLED" /\ state[j] \in Waiting \cup {"BLOCKED"})
          /\ state[j] # "ABSENT"
      BY <1>1 DEF CancelledState, StoreIInv, StoreTypeOK, JobStates, Final, Exists
    <2>2. UNCHANGED <<submission, attempt_count, owner_token, attempt, journal,
                      planVars, controlVars, minted>>
      BY DEF CancelUpdate
    <2>3. \A k \in Jobs : /\ state'[k] = IF k = j THEN to ELSE state[k]
                          /\ cancel_requested'[k] =
                               IF k = j THEN TRUE ELSE cancel_requested[k]
      BY <1>3 DEF StoreIInv, StoreTypeOK
    <2> HIDE DEF to
    <2>4. StoreTypeOK'
      <3>1. /\ state' \in [Jobs -> JobStates]
            /\ cancel_requested' \in [Jobs -> BOOLEAN]
        <4>1. /\ state \in [Jobs -> JobStates]
              /\ cancel_requested \in [Jobs -> BOOLEAN]
          BY DEF StoreIInv, StoreTypeOK
        <4>2. /\ state' = [state EXCEPT ![j] = to]
              /\ cancel_requested' = [cancel_requested EXCEPT ![j] = TRUE]
          BY <1>3 DEF to
        <4> QED
          BY <2>1, <4>1, <4>2
      <3>2. call' \in [Callers -> CallStates]
        <4>1. /\ call \in [Callers -> CallStates]
              /\ call' = [call EXCEPT ![c].step = "log"]
          BY <1>3 DEF StoreIInv, StoreTypeOK
        <4> QED
          BY <4>1 DEF CallStates, Steps
      <3> QED
        BY <2>2, <3>1, <3>2 DEF StoreIInv, StoreTypeOK, planVars, controlVars
    <2>5. AbsentRowBlank' /\ RowSubmitted'
      BY <2>1, <2>2, <2>3 DEF StoreIInv, AbsentRowBlank, RowSubmitted, Exists,
         planVars
    <2>6. RanksInOrder' /\ TokensDrawn' /\ TokensUnique'
      BY <2>2 DEF StoreIInv, RanksInOrder, TokensDrawn, TokensUnique
    <2>7. OneLiveAttempt'
      <3>1. \A k \in Jobs : HeldRanks(k)' = HeldRanks(k)
        BY <2>2 DEF HeldRanks
      <3>2. \A k \in Jobs : state'[k] = "RUNNING" <=> state[k] = "RUNNING"
        BY <2>1, <2>3 DEF Waiting
      <3> QED
        BY <2>2, <3>1, <3>2 DEF StoreIInv, OneLiveAttempt
    <2>8. PlansKnown' /\ BudgetBound'
      BY <2>2 DEF StoreIInv, PlansKnown, BudgetBound, planVars
    <2>9. CallsConsistent'
      <3> SUFFICES ASSUME NEW d \in Callers
                   PROVE  /\ call'[d].step = "insert" =>
                               call'[d].arg \in Submissions
                          /\ call'[d].step \in {"cancel", "log"} =>
                               /\ call'[d].arg \in Jobs
                               /\ state'[call'[d].arg] # "ABSENT"
                          /\ call'[d].step = "log" =>
                               cancel_requested'[call'[d].arg]
        BY DEF CallsConsistent, Exists
      <3>1. CASE d = c
        <4>1. call'[d].step = "log" /\ call'[d].arg = j
          BY <3>1, <1>3 DEF StoreIInv, StoreTypeOK, CallStates
        <4> QED
          BY <4>1, <1>1, <2>1, <2>3
      <3>2. CASE d # c
        <4>1. call'[d] = call[d]
          BY <3>2, <1>3 DEF StoreIInv, StoreTypeOK
        <4> QED
          BY <4>1, <2>1, <2>3 DEF StoreIInv, CallsConsistent, Exists
      <3> QED
        BY <3>1, <3>2
    <2>10. OneActiveAnalysis'
      <3>1. \A k \in Jobs : state'[k] \in Active => state[k] \in Active
        BY <2>1, <2>3 DEF Active, Waiting
      <3> QED
        BY <2>2, <3>1 DEF StoreIInv, OneActiveAnalysis
    <2>11. DependencyFirst'
      <3>1. ASSUME NEW k \in Jobs, attempt_count[k] > 0, submission[k].dep # None
            PROVE  submission[k].dep \in Jobs
        <4>1. submission[k] \in Submissions
          BY <3>1 DEF StoreIInv, AbsentRowBlank, RowSubmitted
        <4> QED
          BY <3>1, <4>1, SubmissionFields
      <3>2. \A k \in Jobs : state[k] = "COMPLETED" => state'[k] = "COMPLETED"
        BY <2>1, <2>3 DEF Waiting
      <3> QED
        BY <2>2, <3>1, <3>2 DEF StoreIInv, DependencyFirst
    <2>12. JournalAgrees'
      BY <2>2, <2>3 DEF StoreIInv, JournalAgrees
    <2> QED
      BY <2>4, <2>5, <2>6, <2>7, <2>8, <2>9, <2>10, <2>11, <2>12 DEF StoreIInv
  <1> QED
    BY <1>2, <1>3 DEF CancelUpdate

LEMMA CancelLogStep ==
  ASSUME StoreIInv, NEW c \in Callers, CancelLog(c)
  PROVE  StoreIInv'
  <1> DEFINE j == call[c].arg
  <1> USE DEF CancelLog
  <1>1. j \in Jobs /\ Exists(j) /\ cancel_requested[j]
    BY DEF StoreIInv, CallsConsistent
  <1>2. /\ UNCHANGED <<rowVars, attempt, planVars, controlVars, minted>>
        /\ Return(c)
        /\ \A k \in Jobs : k # j => journal'[k] = journal[k]
    BY DEF StoreIInv, StoreTypeOK
  <1>3. journal' \in [Jobs -> JobStates \X JobStates]
    <2>1. call[c].before \in JobStates
      BY DEF StoreIInv, StoreTypeOK, CallStates
    <2> QED
      BY <2>1 DEF StoreIInv, StoreTypeOK, JobStates, Active, Final
  <1>4. call' \in [Callers -> CallStates]
    BY DEF StoreIInv, StoreTypeOK, Return, IdleCall, CallStates, Steps,
       JobStates
  <1> HIDE DEF j, CancelLog
  <1> USE DEF rowVars, planVars, controlVars
  <1>5. StoreTypeOK'
    BY <1>2, <1>3, <1>4 DEF StoreIInv, StoreTypeOK
  <1>6. AbsentRowBlank' /\ RowSubmitted' /\ RanksInOrder' /\ TokensDrawn'
    BY <1>1, <1>2 DEF StoreIInv, AbsentRowBlank, RowSubmitted, RanksInOrder,
       TokensDrawn, Exists
  <1>7. OneLiveAttempt' /\ TokensUnique' /\ PlansKnown' /\ BudgetBound'
    BY <1>2 DEF StoreIInv, OneLiveAttempt, HeldRanks, TokensUnique, PlansKnown,
       BudgetBound
  <1>8. CallsConsistent'
    BY <1>2 DEF StoreIInv, StoreTypeOK, CallsConsistent, Return, IdleCall, Exists
  <1>9. OneActiveAnalysis' /\ DependencyFirst'
    BY <1>2 DEF StoreIInv, OneActiveAnalysis, DependencyFirst
  <1>10. JournalAgrees'
    BY <1>1, <1>2 DEF StoreIInv, JournalAgrees
  <1> QED
    BY <1>5, <1>6, <1>7, <1>8, <1>9, <1>10 DEF StoreIInv

-----------------------------------------------------------------------------
LEMMA ControlStep ==
  ASSUME StoreIInv, NEW c \in Callers, Control(c)
  PROVE  StoreIInv'
  <1>1. CASE Pause \/ RequestStop
    <2>1. /\ UNCHANGED <<rowVars, attempt, journal, planVars, minted, call>>
          /\ paused' \in BOOLEAN /\ stop_requested' \in BOOLEAN
      BY <1>1 DEF Pause, RequestStop, StoreIInv, StoreTypeOK
    <2>2. CallsConsistent' /\ call' \in [Callers -> CallStates]
      BY <2>1 DEF StoreIInv, StoreTypeOK, CallsConsistent, rowVars, Exists
    <2> QED
      BY <2>1, <2>2, QuietStep
  <1>2. CASE ResumePaused(c)
    BY <1>2, BeginStep DEF ResumePaused, StoreIInv, StoreTypeOK
  <1>3. CASE ResumeStopped(c)
    BY <1>3, ReturnStep DEF ResumeStopped, StoreIInv, StoreTypeOK
  <1> QED
    BY <1>1, <1>2, <1>3 DEF Control

(* Every step of the store keeps the invariant.                            *)
LEMMA NextInvariant == StoreIInv /\ [StoreNext]_storeVars => StoreIInv'
  <1> SUFFICES ASSUME StoreIInv, [StoreNext]_storeVars PROVE StoreIInv'
    OBVIOUS
  <1> USE DEF Callers
  <1>1. CASE \E c \in Submitters : Submit(c)
    BY <1>1, EnqueueStep, InsertRowStep, AdmitStep DEF Submit
  <1>2. CASE \E c \in Claimers : Claim(c)
    <2>1. PICK c \in Claimers : Claim(c)
      BY <1>2
    <2>2. CASE ClaimReadControls(c)
      BY <2>2, BeginStep DEF ClaimReadControls, StoreIInv, StoreTypeOK, controlVars
    <2>3. CASE \E j \in Jobs : ClaimJob(c, j)
      BY <2>3, ClaimStep
    <2>4. CASE ClaimNothing(c)
      BY <2>4, ReturnStep DEF ClaimNothing, StoreIInv, StoreTypeOK, controlVars
    <2> QED
      BY <2>1, <2>2, <2>3, <2>4 DEF Claim
  <1>3. CASE \E c \in Cancellers : Cancel(c)
    BY <1>3, CancelReadStep, CancelUpdateStep, CancelLogStep DEF Cancel
  <1>4. CASE \E c \in Controllers : Control(c)
    BY <1>4, ControlStep
  <1>5. CASE \E j \in Jobs : EndAttempt(j)
    <2>1. PICK j \in Jobs : EndAttempt(j)
      BY <1>5
    <2>2. CASE \E o \in 1..minted, to \in Finishable, ms \in 1..Quantum :
                 Finish(o, j, to, ms)
      BY <2>2, FinishStep
    <2>3. CASE RequeueInterrupted(j)
      BY <2>3, CloseStep DEF RequeueInterrupted, AttemptStates
    <2>4. CASE \E to \in Reconcilable : ReconcileInterrupted(j, to)
      <3>1. PICK to \in Reconcilable : ReconcileInterrupted(j, to)
        BY <2>4
      <3>2. to \in Finishable \cup {"QUEUED"} /\ to \in AttemptStates \ {"NONE", "RUNNING"}
        BY DEF Reconcilable, Finishable, Final, AttemptStates
      <3> QED
        BY <3>1, <3>2, CloseStep DEF ReconcileInterrupted
    <2> QED
      BY <2>1, <2>2, <2>3, <2>4 DEF EndAttempt
  <1>6. CASE UNCHANGED storeVars
    <2>1. CallsConsistent' /\ call' \in [Callers -> CallStates]
      BY <1>6 DEF storeVars, StoreIInv, StoreTypeOK, CallsConsistent, Exists
    <2> QED
      BY <1>6, <2>1, QuietStep
      DEF storeVars, rowVars, planVars, StoreIInv, StoreTypeOK
  <1>7. CASE \E c \in Callers : Abandon(c)
    <2>1. PICK c \in Callers : Abandon(c)
      BY <1>7
    <2> QED
      BY <2>1, ReturnStep DEF Abandon, StoreIInv, StoreTypeOK, controlVars
  <1> QED
    BY <1>1, <1>2, <1>3, <1>4, <1>5, <1>6, <1>7 DEF StoreNext

(* In every reachable state of the store, whatever the callers interleave  *)
(* (local_job_store.c, every exported operation), StoreIInv holds.         *)
THEOREM StoreInvariant == StoreSpec => []StoreIInv
  BY InitInvariant, NextInvariant, PTL DEF StoreSpec

(* The columns keep their domains.                                         *)
THEOREM StoreTyped == StoreSpec => []StoreTypeOK
  <1>1. StoreIInv => StoreTypeOK
    BY DEF StoreIInv
  <1> QED
    BY <1>1, StoreInvariant, PTL

(* The row, its open attempt and its token always agree, and no token is   *)
(* ever handed out twice.                                                  *)
THEOREM LeaseExclusive == StoreSpec => [](OneLiveAttempt /\ TokensUnique)
  <1>1. StoreIInv => OneLiveAttempt /\ TokensUnique
    BY DEF StoreIInv
  <1> QED
    BY <1>1, StoreInvariant, PTL

(* No plan overruns its attempts or its active time.                       *)
THEOREM PlanWithinBudget == StoreSpec => []BudgetBound
  <1>1. StoreIInv => BudgetBound
    BY DEF StoreIInv
  <1> QED
    BY <1>1, StoreInvariant, PTL

(* One analysis is never active twice, and no job runs before the job it   *)
(* depends on.                                                             *)
THEOREM QueueOrder == StoreSpec => [](OneActiveAnalysis /\ DependencyFirst)
  <1>1. StoreIInv => OneActiveAnalysis /\ DependencyFirst
    BY DEF StoreIInv
  <1> QED
    BY <1>1, StoreInvariant, PTL

(* The journal names the state of every job nobody asked to cancel.        *)
THEOREM JournalTrue == StoreSpec => []JournalAgrees
  <1>1. StoreIInv => JournalAgrees
    BY DEF StoreIInv
  <1> QED
    BY <1>1, StoreInvariant, PTL

(* A closed attempt is never rewritten.                                    *)
THEOREM ClosedStayClosed == StoreSpec => ClosedAttemptsKept
  <1>1. StoreIInv /\ [StoreNext]_storeVars => [KeepsClosedAttempts]_storeVars
    <2> SUFFICES ASSUME StoreIInv, StoreNext, NEW j \in Jobs, NEW r \in Ranks,
                        attempt[j][r].state \notin {"NONE", "RUNNING"}
                 PROVE  attempt'[j][r] = attempt[j][r]
      BY DEF KeepsClosedAttempts
    <2>1. CASE UNCHANGED attempt
      BY <2>1
    <2>2. ASSUME NEW c \in Claimers, NEW k \in Jobs, ClaimJob(c, k)
          PROVE  attempt'[j][r] = attempt[j][r]
      <3>1. attempt[k][attempt_count[k] + 1].state = "NONE"
              \/ attempt_count[k] + 1 \notin Ranks
        BY <2>2 DEF StoreIInv, StoreTypeOK, RanksInOrder, Ranks
      <3> QED
        BY <2>2, <3>1 DEF ClaimJob, StoreIInv, StoreTypeOK
    <2>3. ASSUME NEW k \in Jobs, EndAttempt(k)
          PROVE  attempt'[j][r] = attempt[j][r]
      <3>1. r \notin HeldRanks(j)
        BY DEF HeldRanks
      <3>2. CASE RequeueInterrupted(k)
        BY <3>1, <3>2 DEF RequeueInterrupted, CloseAttempt, StoreIInv, StoreTypeOK
      <3>3. CASE \E to \in Reconcilable : ReconcileInterrupted(k, to)
        BY <3>1, <3>3 DEF ReconcileInterrupted, CloseAttempt, StoreIInv, StoreTypeOK
      <3>4. CASE \E o \in 1..minted, to \in Finishable, ms \in 1..Quantum :
                   Finish(o, k, to, ms)
        <4>1. PICK o \in 1..minted, to \in Finishable, ms \in 1..Quantum :
                Finish(o, k, to, ms)
          BY <3>4
        <4>2. CASE j # k
          BY <4>1, <4>2 DEF Finish, StoreIInv, StoreTypeOK
        <4>3. CASE j = k
          BY <4>1, <4>3, <3>1 DEF Finish, StoreIInv, StoreTypeOK
        <4> QED
          BY <4>2, <4>3
      <3> QED
        BY <2>3, <3>2, <3>3, <3>4 DEF EndAttempt
    <2> QED
      BY <2>1, <2>2, <2>3 DEF StoreNext, Submit, Claim, Cancel, Control,
         EnqueueLookup, EnqueueInsert, AdmitPlan, InsertRows, ClaimReadControls,
         ClaimNothing, CancelRead, CancelUpdate, CancelLog, Pause, RequestStop,
         ResumePaused, ResumeStopped, Abandon
  <1> QED
    BY <1>1, StoreInvariant, PTL DEF StoreSpec, ClosedAttemptsKept

(* An ended job stays ended.                                               *)
THEOREM EndedStayEnded == StoreSpec => TerminalKept
  <1>1. StoreIInv /\ [StoreNext]_storeVars => [KeepsTerminal]_storeVars
    <2> DEFINE Kept(j) == \/ state'[j] = state[j]
                          \/ state[j] = "BLOCKED" /\ state'[j] = "CANCELLED"
    <2> SUFFICES ASSUME StoreIInv, StoreNext, NEW j \in Jobs,
                        state[j] \in Final \cup {"BLOCKED"}
                 PROVE  Kept(j)
      <3>1. (\A j \in Jobs : state[j] \in Final \cup {"BLOCKED"} => Kept(j))
              => KeepsTerminal
        <4>1. "BLOCKED" \notin Final
          BY DEF Final
        <4> QED
          BY <4>1 DEF KeepsTerminal
      <3> QED
        BY <3>1
    <2>1. CASE UNCHANGED state
      BY <2>1
    <2>2. ASSUME NEW S \in SUBSET Submissions, InsertRows(S),
                 \A s \in S : ~RowConflict(s)
          PROVE  state'[j] = state[j]
      BY <2>2, FreshRows DEF InsertRows, Exists, Final
    <2>3. ASSUME NEW c \in Submitters, Submit(c)
          PROVE  state'[j] = state[j]
      <3>1. CASE EnqueueInsert(c)
        <4>1. call[c].arg \in Submissions
          BY <3>1 DEF EnqueueInsert, StoreIInv, CallsConsistent, Callers
        <4> QED
          BY <3>1, <4>1, <2>2 DEF EnqueueInsert, rowVars
      <3>2. CASE \E a \in Admissions : AdmitPlan(c, a)
        BY <3>2, <2>2, AdmissionFields DEF AdmitPlan, AllInsertable, rowVars
      <3>3. CASE \E s \in Submissions : EnqueueLookup(c, s)
        BY <3>3 DEF EnqueueLookup, rowVars
      <3> QED
        BY <2>3, <3>1, <3>2, <3>3 DEF Submit
    <2>4. ASSUME NEW c \in Claimers, NEW k \in Jobs, ClaimJob(c, k)
          PROVE  state'[j] = state[j]
      BY <2>4 DEF ClaimJob, First, Claimable, Waiting, Final, StoreIInv, StoreTypeOK
    <2>5. ASSUME NEW k \in Jobs, EndAttempt(k)
          PROVE  state'[j] = state[j]
      <3>1. state[k] = "RUNNING" /\ \E to \in JobStates : EndRow(k, to)
        BY <2>5 DEF EndAttempt, Finish, Owns, RequeueInterrupted,
           ReconcileInterrupted, Finishable, Reconcilable, JobStates, Active,
           Waiting
      <3> QED
        BY <3>1 DEF EndRow, Final, StoreIInv, StoreTypeOK
    <2>6. ASSUME NEW c \in Cancellers, CancelUpdate(c)
          PROVE  Kept(j)
      <3>1. CASE state[call[c].arg] \in Final
        BY <2>6, <3>1 DEF CancelUpdate
      <3>2. CASE /\ state[call[c].arg] \notin Final
                 /\ state' = [state EXCEPT ![call[c].arg] =
                                CancelledState(state[call[c].arg])]
        <4>1. CASE call[c].arg = j
          <5>1. state'[j] = CancelledState(state[j]) /\ state[j] = "BLOCKED"
            BY <3>2, <4>1 DEF StoreIInv, StoreTypeOK
          <5> QED
            BY <5>1 DEF CancelledState
        <4>2. CASE call[c].arg # j
          BY <3>2, <4>2 DEF StoreIInv, StoreTypeOK
        <4> QED
          BY <4>1, <4>2
      <3> QED
        BY <2>6, <3>1, <3>2 DEF CancelUpdate
    <2>7. CASE \E c \in Claimers : Claim(c)
      BY <2>7, <2>1, <2>4 DEF Claim, ClaimReadControls, ClaimNothing, rowVars
    <2>8. CASE \E c \in Cancellers : Cancel(c)
      BY <2>8, <2>1, <2>6 DEF Cancel, CancelRead, CancelLog, rowVars
    <2>9. CASE \E c \in Controllers : Control(c)
      BY <2>9, <2>1 DEF Control, Pause, RequestStop, ResumePaused,
         ResumeStopped, rowVars
    <2>10. CASE \E c \in Callers : Abandon(c)
      BY <2>10, <2>1 DEF Abandon, rowVars
    <2> QED
      BY <2>3, <2>5, <2>7, <2>8, <2>9, <2>10 DEF StoreNext
  <1> QED
    BY <1>1, StoreInvariant, PTL DEF StoreSpec, TerminalKept


-----------------------------------------------------------------------------
(* The ledger of a plan: what its attempts weigh is counted unit by unit.  *)

(* As many units as a cell has are added to a set that has none of them.   *)
LEMMA CellAdds ==
  ASSUME NEW R, IsFiniteSet(R), NEW x, NEW n \in Nat, \A m \in 1..n : <<x, m>> \notin R
  PROVE  /\ IsFiniteSet(R \cup ({x} \X (1..n)))
         /\ Cardinality(R \cup ({x} \X (1..n))) = Cardinality(R) + n
  <1> DEFINE C == {x} \X (1..n)
  <1>1. IsFiniteSet({x}) /\ Cardinality({x}) = 1
    BY FS_Singleton
  <1>2. IsFiniteSet(1..n) /\ Cardinality(1..n) = n
    BY FS_Interval
  <1>3. IsFiniteSet(C) /\ Cardinality(C) = n
    <2>1. IsFiniteSet(C) /\ Cardinality(C) = Cardinality({x}) * Cardinality(1..n)
      BY <1>1, <1>2, FS_Product
    <2>2. Cardinality(C) = 1 * n
      BY <1>1, <1>2, <2>1
    <2> HIDE DEF C
    <2> QED
      BY <2>1, <2>2
  <1>4. R \cap C = {}
    OBVIOUS
  <1>5. Cardinality(R) \in Nat
    BY FS_CardinalityType
  <1>6. /\ IsFiniteSet(R \cup C)
        /\ Cardinality(R \cup C) = Cardinality(R) + Cardinality(C) - Cardinality(R \cap C)
    BY <1>3, FS_Union
  <1>7. Cardinality(R \cap C) = 0
    BY <1>4, FS_EmptySet
  <1>8. IsFiniteSet(R \cup C) /\ Cardinality(R \cup C) = Cardinality(R) + n
    <2> HIDE DEF C
    <2> QED
      BY <1>3, <1>5, <1>6, <1>7
  <1> QED
    BY <1>8

LEMMA InBegun ==
  ASSUME NEW p, NEW e
  PROVE  e \in Begun(p) <=>
           \E j \in Jobs : plan_jobs[j] = p /\ \E r \in 1..attempt_count[j] : e = <<j, r>>
  BY DEF Begun, PlanJobs

LEMMA InWeighed ==
  ASSUME NEW p, NEW e
  PROVE  e \in Weighed(p) <=>
           \E j \in Jobs : plan_jobs[j] = p
             /\ \E r \in Ranks : \E m \in 1..Weight(attempt[j][r]) : e = <<<<j, r>>, m>>
  BY DEF Weighed, Units, PlanJobs

(* The same, of the state after a step.                                    *)
LEMMA InBegunNext ==
  ASSUME NEW p, NEW e
  PROVE  e \in Begun(p)' <=>
           \E j \in Jobs : plan_jobs'[j] = p /\ \E r \in 1..attempt_count'[j] : e = <<j, r>>
  BY DEF Begun, PlanJobs

LEMMA InWeighedNext ==
  ASSUME NEW p, NEW e
  PROVE  e \in Weighed(p)' <=>
           \E j \in Jobs : plan_jobs'[j] = p
             /\ \E r \in Ranks : \E m \in 1..Weight(attempt'[j][r]) : e = <<<<j, r>>, m>>
  BY DEF Weighed, Units, PlanJobs, Weight

LEMMA WeightNat ==
  ASSUME StoreIInv, NEW j \in Jobs, NEW r \in Ranks
  PROVE  Weight(attempt[j][r]) \in Nat
  BY DEF StoreIInv, StoreTypeOK, AttemptRows, Weight

(* A step that changes no weight and begins no attempt, and links to a plan *)
(* only jobs that were never claimed, leaves the ledger.                    *)
LEMMA LedgerStays ==
  ASSUME StoreIInv, LedgerIInv,
         UNCHANGED <<attempt_count, consumed_attempts, consumed_active_ms>>,
         \A j \in Jobs : \A r \in Ranks : Weight(attempt'[j][r]) = Weight(attempt[j][r]),
         \A j \in Jobs : plan_jobs'[j] # plan_jobs[j] => attempt_count[j] = 0
  PROVE  PlansCountable' /\ BudgetLedger'
  <1>1. ASSUME NEW j \in Jobs, attempt_count[j] = 0, NEW r \in Ranks
        PROVE  Weight(attempt[j][r]) = 0
    BY <1>1, BoundsAssumption DEF StoreIInv, RanksInOrder, LedgerIInv, AttemptsWeighed, Ranks
  <1>2. ASSUME NEW p \in Plans
        PROVE  Begun(p)' = Begun(p)
    <2>1. ASSUME NEW e PROVE e \in Begun(p)' <=> e \in Begun(p)
      BY InBegun, InBegunNext
    <2> QED
      BY <2>1
  <1>3. ASSUME NEW p \in Plans
        PROVE  Weighed(p)' = Weighed(p)
    <2>1. ASSUME NEW e PROVE e \in Weighed(p)' <=> e \in Weighed(p)
      BY <1>1, InWeighed, InWeighedNext
    <2> QED
      BY <2>1
  <1> QED
    BY <1>2, <1>3 DEF LedgerIInv, PlansCountable, BudgetLedger

(* A claim begins one attempt and adds the units it reserves.              *)
LEMMA ClaimLedger ==
  ASSUME StoreIInv, LedgerIInv, NEW c \in Callers, NEW j \in Jobs, ClaimJob(c, j)
  PROVE  LedgerIInv'
  <1> DEFINE rank == attempt_count[j] + 1
             ms   == Reservation(j)
             row  == [state |-> "RUNNING", owner |-> minted + 1, reserved |-> ms,
                      elapsed |-> 0, settled |-> FALSE]
  <1>1. Claimable(j) /\ Exists(j)
    BY DEF ClaimJob, First, Claimable, Exists, Waiting
  <1>2. /\ attempt_count[j] \in Nat /\ rank \in Ranks /\ ms \in Nat
        /\ attempt_count \in [Jobs -> 0..MaxRank]
    <2>1. submission[j] \in Submissions
      BY <1>1 DEF StoreIInv, RowSubmitted
    <2>2. submission[j].maxAttempts \in 1..MaxRank
      BY <2>1, SubmissionFields
    <2>3. attempt_count[j] \in Nat /\ attempt_count[j] < submission[j].maxAttempts
      BY <1>1 DEF StoreIInv, StoreTypeOK, Claimable
    <2> QED
      BY <1>1, <2>2, <2>3, ReservationFits, BoundsAssumption DEF Ranks, StoreIInv, StoreTypeOK
  <1>3. /\ attempt_count' = [attempt_count EXCEPT ![j] = rank]
        /\ attempt' = [attempt EXCEPT ![j][rank] = row]
        /\ UNCHANGED <<submission, admission, plan_jobs>>
        /\ consumed_attempts' =
             [p \in Plans |-> IF p = plan_jobs[j] THEN consumed_attempts[p] + 1
                              ELSE consumed_attempts[p]]
        /\ consumed_active_ms' =
             [p \in Plans |-> IF p = plan_jobs[j] THEN consumed_active_ms[p] + ms
                              ELSE consumed_active_ms[p]]
        /\ state' = [state EXCEPT ![j] = "RUNNING"]
    BY DEF ClaimJob, FreshToken
  <1>4. \A k \in Jobs : \A r \in Ranks :
          attempt'[k][r] = IF k = j /\ r = rank THEN row ELSE attempt[k][r]
    BY <1>2, <1>3 DEF StoreIInv, StoreTypeOK
  <1>5. Weight(row) = ms /\ row.state = "RUNNING" /\ ~row.settled
    BY DEF Weight
  <1>6. Weight(attempt[j][rank]) = 0
    BY <1>2 DEF LedgerIInv, AttemptsWeighed, StoreIInv, RanksInOrder
  <1> HIDE DEF row, rank, ms
  <1>7. AttemptsWeighed'
    <2> SUFFICES ASSUME NEW k \in Jobs, NEW r \in Ranks
                 PROVE  /\ attempt'[k][r].state = "NONE" => Weight(attempt'[k][r]) = 0
                        /\ attempt'[k][r].state = "RUNNING" => ~attempt'[k][r].settled
      BY DEF AttemptsWeighed, Weight
    <2> QED
      BY <1>4, <1>5 DEF LedgerIInv, AttemptsWeighed
  <1>8. ASSUME NEW p \in Plans, p # plan_jobs[j]
        PROVE  Begun(p)' = Begun(p) /\ Weighed(p)' = Weighed(p)
    <2>1. ASSUME NEW e PROVE e \in Begun(p)' <=> e \in Begun(p)
      BY <1>2, <1>3, <1>8, InBegun, InBegunNext
    <2>2. ASSUME NEW e PROVE e \in Weighed(p)' <=> e \in Weighed(p)
      BY <1>3, <1>4, <1>8, InWeighed, InWeighedNext
    <2> QED
      BY <2>1, <2>2
  <1>9. ASSUME NEW p \in Plans, p = plan_jobs[j]
        PROVE  /\ IsFiniteSet(Begun(p)') /\ IsFiniteSet(Weighed(p)')
               /\ Cardinality(Begun(p)') = consumed_attempts[p] + 1
               /\ Cardinality(Weighed(p)') = consumed_active_ms[p] + ms
    <2>1. /\ IsFiniteSet(Begun(p)) /\ IsFiniteSet(Weighed(p))
          /\ Cardinality(Begun(p)) = consumed_attempts[p]
          /\ Cardinality(Weighed(p)) = consumed_active_ms[p]
      BY DEF LedgerIInv, PlansCountable, BudgetLedger
    <2>2. Begun(p)' = Begun(p) \cup {<<j, rank>>} /\ <<j, rank>> \notin Begun(p)
      <3>1. \A k \in Jobs : attempt_count'[k] = IF k = j THEN rank ELSE attempt_count[k]
        BY <1>2, <1>3
      <3>2. \A r : r \in 1..rank <=> r \in 1..attempt_count[j] \/ r = rank
        BY <1>2 DEF rank
      <3>3. ASSUME NEW e PROVE e \in Begun(p)' <=> e \in Begun(p) \/ e = <<j, rank>>
        BY <1>3, <1>9, <3>1, <3>2, InBegun, InBegunNext
      <3>4. <<j, rank>> \notin Begun(p)
        BY <1>2, InBegun DEF rank
      <3> QED
        BY <3>3, <3>4
    <2>3. \A m \in 1..ms : <<<<j, rank>>, m>> \notin Weighed(p)
      BY <1>6, InWeighed
    <2>4. Weighed(p)' = Weighed(p) \cup ({<<j, rank>>} \X (1..ms))
      <3>1. ASSUME NEW e PROVE e \in Weighed(p)' <=>
                                 e \in Weighed(p) \/ e \in {<<j, rank>>} \X (1..ms)
        <4>1. e \in {<<j, rank>>} \X (1..ms) <=> \E m \in 1..ms : e = <<<<j, rank>>, m>>
          OBVIOUS
        <4>2. \A k \in Jobs : \A r \in Ranks :
                Weight(attempt'[k][r]) = IF k = j /\ r = rank THEN ms ELSE Weight(attempt[k][r])
          BY <1>4, <1>5
        <4>3. \A m : m \notin 1..Weight(attempt[j][rank])
          BY <1>6
        <4> QED
          BY <1>2, <1>3, <1>9, <4>1, <4>2, <4>3, InWeighed, InWeighedNext
      <3> QED
        BY <3>1
    <2>5. /\ IsFiniteSet(Begun(p)')
          /\ Cardinality(Begun(p)') = consumed_attempts[p] + 1
      BY <2>1, <2>2, FS_AddElement
    <2>6. /\ IsFiniteSet(Weighed(p)')
          /\ Cardinality(Weighed(p)') = consumed_active_ms[p] + ms
      <3> DEFINE N == Weighed(p) \cup ({<<j, rank>>} \X (1..ms))
      <3>1. IsFiniteSet(N) /\ Cardinality(N) = Cardinality(Weighed(p)) + ms
        BY <1>2, <2>1, <2>3, CellAdds
      <3> HIDE DEF N
      <3>2. Weighed(p)' = N
        BY <2>4 DEF N
      <3> QED
        BY <2>1, <3>1, <3>2
    <2> QED
      BY <2>5, <2>6
  <1>10. PlansCountable' /\ BudgetLedger'
    BY <1>3, <1>8, <1>9 DEF LedgerIInv, PlansCountable, BudgetLedger
  <1>11. PlanWhole'
    <2>1. \A k \in Jobs : state[k] # "ABSENT" => state'[k] # "ABSENT"
      BY <1>3 DEF StoreIInv, StoreTypeOK
    <2> QED
      BY <1>3, <2>1 DEF LedgerIInv, PlanWhole, PlanJobs, JobsOf, Exists
  <1> QED
    BY <1>7, <1>10, <1>11 DEF LedgerIInv

(* A finish settles one attempt at what was spent, and gives the rest back.*)
LEMMA FinishLedger ==
  ASSUME StoreIInv, LedgerIInv, NEW j \in Jobs, NEW o \in 1..minted,
         NEW to \in Finishable, NEW ms \in 1..Quantum, Finish(o, j, to, ms)
  PROVE  LedgerIInv'
  <1> DEFINE rank   == attempt_count[j]
             res    == Reserved(o, j)
             charge == Charge(o, j, ms)
             x      == <<j, rank>>
  <1>1. minted \in Nat /\ o \in Nat /\ ms \in Nat
    BY BoundsAssumption DEF StoreIInv, StoreTypeOK
  <1>2. /\ res \in Nat /\ charge \in Nat /\ charge <= res
        /\ Refund(o, j, ms) = res - charge /\ Refund(o, j, ms) \in Nat
    BY <1>1, ChargeBounds DEF Refund, Charge, Smaller
  <1>3. /\ state[j] = "RUNNING" /\ owner_token[j] = o
        /\ state' = [state EXCEPT ![j] = to]
        /\ UNCHANGED <<submission, attempt_count, admission, plan_jobs, consumed_attempts>>
    BY DEF Finish, Owns, EndRow
  <1>4. /\ HeldRanks(j) = {rank} /\ attempt[j][rank].owner = o /\ rank \in Ranks
        /\ attempt[j][rank].state = "RUNNING"
    BY <1>3 DEF StoreIInv, OneLiveAttempt, HeldRanks
  <1>5. res = attempt[j][rank].reserved
    <2>1. {r \in HeldRanks(j) : attempt[j][r].owner = o} = {rank}
      BY <1>4
    <2>2. (CHOOSE r \in {rank} : TRUE) = rank
      OBVIOUS
    <2> QED
      BY <2>1, <2>2 DEF Reserved
  <1>6. Weight(attempt[j][rank]) = res
    BY <1>4, <1>5 DEF Weight, LedgerIInv, AttemptsWeighed
  <1> DEFINE row == [attempt[j][rank] EXCEPT !.state = to, !.settled = TRUE, !.elapsed = charge]
  <1>7. \A k \in Jobs : \A r \in Ranks :
          attempt'[k][r] = IF k = j /\ r = rank THEN row ELSE attempt[k][r]
    BY <1>4 DEF Finish, StoreIInv, StoreTypeOK
  <1>8. row.state = to /\ row.settled /\ Weight(row) = charge /\ to \notin {"NONE", "RUNNING"}
    <2>1. attempt[j][rank] \in AttemptRows
      BY <1>4 DEF StoreIInv, StoreTypeOK
    <2> QED
      BY <2>1 DEF AttemptRows, Weight, Finishable, Final
  <1>9. consumed_active_ms' = [q \in Plans |->
          IF q = plan_jobs[j] THEN consumed_active_ms[q] - Refund(o, j, ms)
          ELSE consumed_active_ms[q]]
    BY DEF Finish
  <1> HIDE DEF row, res, charge, rank
  <1>10. AttemptsWeighed'
    <2> SUFFICES ASSUME NEW k \in Jobs, NEW r \in Ranks
                 PROVE  /\ attempt'[k][r].state = "NONE" => Weight(attempt'[k][r]) = 0
                        /\ attempt'[k][r].state = "RUNNING" => ~attempt'[k][r].settled
      BY DEF AttemptsWeighed, Weight
    <2> QED
      BY <1>7, <1>8 DEF LedgerIInv, AttemptsWeighed
  <1>11. \A k \in Jobs : \A r \in Ranks :
           Weight(attempt'[k][r]) = IF k = j /\ r = rank THEN charge ELSE Weight(attempt[k][r])
    BY <1>7, <1>8
  <1>12. ASSUME NEW p \in Plans
         PROVE  Begun(p)' = Begun(p)
    <2>1. ASSUME NEW e PROVE e \in Begun(p)' <=> e \in Begun(p)
      BY <1>3, InBegun, InBegunNext
    <2> QED
      BY <2>1
  <1>13. ASSUME NEW p \in Plans, p # plan_jobs[j]
         PROVE  Weighed(p)' = Weighed(p)
    <2>1. ASSUME NEW e PROVE e \in Weighed(p)' <=> e \in Weighed(p)
      BY <1>3, <1>11, <1>13, InWeighed, InWeighedNext
    <2> QED
      BY <2>1
  <1>14. ASSUME NEW p \in Plans, p = plan_jobs[j]
         PROVE  /\ IsFiniteSet(Weighed(p)')
                /\ Cardinality(Weighed(p)') = consumed_active_ms[p] - Refund(o, j, ms)
    <2> DEFINE R == Weighed(p) \ ({x} \X (1..res))
    <2>1. IsFiniteSet(Weighed(p)) /\ Cardinality(Weighed(p)) = consumed_active_ms[p]
      BY DEF LedgerIInv, PlansCountable, BudgetLedger
    <2>2. IsFiniteSet(R) /\ Cardinality(R) \in Nat
      BY <2>1, FS_Subset, FS_CardinalityType
    <2>3. \A m : <<x, m>> \in Weighed(p) <=> m \in 1..res
      BY <1>4, <1>6, <1>14, InWeighed
    <2>4. \A m : <<x, m>> \notin R
      BY <2>3
    <2>5. Weighed(p) = R \cup ({x} \X (1..res))
      <3>1. {x} \X (1..res) \subseteq Weighed(p)
        BY <2>3
      <3> QED
        BY <3>1
    <2>6. Weighed(p)' = R \cup ({x} \X (1..charge))
      <3>1. ASSUME NEW e PROVE e \in Weighed(p)' <=> e \in R \cup ({x} \X (1..charge))
        <4>1. e \in {x} \X (1..charge) <=> \E m \in 1..charge : e = <<x, m>>
          OBVIOUS
        <4>2. e \in {x} \X (1..res) <=> \E m \in 1..res : e = <<x, m>>
          OBVIOUS
        <4>3. e \in R <=> \E k \in Jobs : plan_jobs[k] = p
                /\ \E r \in Ranks : \E m \in 1..Weight(attempt[k][r]) :
                     e = <<<<k, r>>, m>> /\ ~(k = j /\ r = rank)
          BY <1>6, <4>2, InWeighed
        <4>4. e \in Weighed(p)' <=> \E k \in Jobs : plan_jobs[k] = p
                /\ \E r \in Ranks : \E m \in 1..Weight(attempt'[k][r]) : e = <<<<k, r>>, m>>
          BY <1>3, InWeighedNext
        <4> QED
          BY <1>4, <1>11, <1>14, <4>1, <4>3, <4>4
      <3> QED
        BY <3>1
    <2> HIDE DEF R, x
    <2>7. Cardinality(Weighed(p)) = Cardinality(R) + res
      <3>1. \A m \in 1..res : <<x, m>> \notin R
        BY <2>4
      <3>2. Cardinality(R \cup ({x} \X (1..res))) = Cardinality(R) + res
        BY <1>2, <2>2, <3>1, CellAdds
      <3> QED
        BY <2>5, <3>2
    <2>8. IsFiniteSet(Weighed(p)') /\ Cardinality(Weighed(p)') = Cardinality(R) + charge
      <3> DEFINE N == R \cup ({x} \X (1..charge))
      <3>1. \A m \in 1..charge : <<x, m>> \notin R
        BY <2>4
      <3>2. IsFiniteSet(N) /\ Cardinality(N) = Cardinality(R) + charge
        BY <1>2, <2>2, <3>1, CellAdds
      <3> HIDE DEF N
      <3>3. Weighed(p)' = N
        BY <2>6 DEF N
      <3> QED
        BY <3>2, <3>3
    <2> QED
      BY <1>2, <2>1, <2>2, <2>7, <2>8
  <1>15. PlansCountable' /\ BudgetLedger'
    BY <1>3, <1>9, <1>12, <1>13, <1>14 DEF LedgerIInv, PlansCountable, BudgetLedger
  <1>16. PlanWhole'
    <2>1. to # "ABSENT"
      BY DEF Finishable, Final
    <2>2. \A k \in Jobs : state[k] # "ABSENT" => state'[k] # "ABSENT"
      BY <1>3, <2>1 DEF StoreIInv, StoreTypeOK
    <2> QED
      BY <1>3, <2>2 DEF LedgerIInv, PlanWhole, PlanJobs, JobsOf, Exists
  <1> QED
    BY <1>10, <1>15, <1>16 DEF LedgerIInv

(* An attempt closed by a recovery keeps its whole reservation.            *)
LEMMA CloseLedger ==
  ASSUME StoreIInv, LedgerIInv, NEW j \in Jobs, NEW to \in JobStates \ {"ABSENT"},
         NEW rowTo \in AttemptStates \ {"NONE", "RUNNING"},
         EndRow(j, to), CloseAttempt(j, rowTo),
         UNCHANGED <<submission, attempt_count, planVars>>
  PROVE  LedgerIInv'
  <1>1. ASSUME NEW k \in Jobs, NEW r \in Ranks
        PROVE  /\ attempt'[k][r].state \in {attempt[k][r].state, rowTo}
               /\ attempt'[k][r].settled = attempt[k][r].settled
               /\ Weight(attempt'[k][r]) = Weight(attempt[k][r])
    <2>1. attempt[k][r] \in AttemptRows
      BY DEF StoreIInv, StoreTypeOK
    <2>2. \/ attempt'[k][r] = attempt[k][r]
          \/ attempt'[k][r] = [attempt[k][r] EXCEPT !.state = rowTo]
      BY DEF CloseAttempt, StoreIInv, StoreTypeOK
    <2> QED
      BY <2>1, <2>2 DEF AttemptRows, Weight
  <1>2. AttemptsWeighed'
    <2> SUFFICES ASSUME NEW k \in Jobs, NEW r \in Ranks
                 PROVE  /\ attempt'[k][r].state = "NONE" => Weight(attempt'[k][r]) = 0
                        /\ attempt'[k][r].state = "RUNNING" => ~attempt'[k][r].settled
      BY DEF AttemptsWeighed, Weight
    <2> QED
      BY <1>1 DEF LedgerIInv, AttemptsWeighed
  <1>3. PlansCountable' /\ BudgetLedger'
    BY <1>1, LedgerStays DEF planVars
  <1>4. PlanWhole'
    <2>1. \A k \in Jobs : state[k] # "ABSENT" => state'[k] # "ABSENT"
      BY DEF EndRow, StoreIInv, StoreTypeOK
    <2> QED
      BY <2>1 DEF LedgerIInv, PlanWhole, PlanJobs, JobsOf, Exists, planVars
  <1> QED
    BY <1>2, <1>3, <1>4 DEF LedgerIInv

(* Steps that write neither an attempt nor a plan, and remove no row.      *)
LEMMA QuietLedger ==
  ASSUME StoreIInv, LedgerIInv, UNCHANGED <<submission, attempt_count, attempt, planVars>>,
         \A j \in Jobs : Exists(j) => Exists(j)'
  PROVE  LedgerIInv'
  <1>1. AttemptsWeighed'
    BY DEF LedgerIInv, AttemptsWeighed, Weight
  <1>2. PlansCountable' /\ BudgetLedger'
    BY LedgerStays DEF planVars
  <1>3. PlanWhole'
    BY DEF LedgerIInv, PlanWhole, PlanJobs, JobsOf, planVars
  <1> QED
    BY <1>1, <1>2, <1>3 DEF LedgerIInv

(* Rows that enter have no attempt; those of a plan enter with it, all.    *)
LEMMA InsertLedger ==
  ASSUME StoreIInv, LedgerIInv, NEW S \in SUBSET Submissions,
         \A s \in S : ~RowConflict(s), InsertRows(S), UNCHANGED planVars
  PROVE  LedgerIInv'
  <1>1. \A j \in JobsOf(S) : j \in Jobs /\ ~Exists(j)
    BY FreshRows
  <1>2. /\ UNCHANGED <<attempt_count, attempt>>
        /\ \A j \in Jobs : state'[j] = IF j \in JobsOf(S) THEN "QUEUED" ELSE state[j]
        /\ \A j \in Jobs \ JobsOf(S) : submission'[j] = submission[j]
    BY DEF InsertRows
  <1>3. AttemptsWeighed'
    BY <1>2 DEF LedgerIInv, AttemptsWeighed, Weight
  <1>4. PlansCountable' /\ BudgetLedger'
    BY <1>2, LedgerStays DEF planVars
  <1>5. PlanWhole'
    <2>1. \A j \in Jobs : plan_jobs[j] # None =>
            /\ Exists(j) /\ admission[plan_jobs[j]] # None
            /\ submission[j] \in admission[plan_jobs[j]].subs
      BY DEF LedgerIInv, PlanWhole
    <2>2. \A j \in Jobs : plan_jobs'[j] # None =>
            /\ Exists(j)' /\ admission'[plan_jobs'[j]] # None
            /\ submission'[j] \in admission'[plan_jobs'[j]].subs
      BY <1>1, <1>2, <2>1 DEF planVars, Exists
    <2>3. \A p \in Plans : admission'[p] # None =>
            PlanJobs(p)' = JobsOf(admission'[p].subs)
      BY DEF planVars, LedgerIInv, PlanWhole, PlanJobs
    <2> QED
      BY <2>2, <2>3 DEF PlanWhole, JobsOf
  <1> QED
    BY <1>3, <1>4, <1>5 DEF LedgerIInv

LEMMA AdmitLedger ==
  ASSUME StoreIInv, LedgerIInv, NEW c \in Callers, NEW a \in Admissions, AdmitPlan(c, a)
  PROVE  LedgerIInv'
  <1>1. a.plan \in Plans /\ a.subs \in SUBSET Submissions
    BY AdmissionFields
  <1>2. CASE admission[a.plan] = None /\ WithinBudget(a) /\ AllInsertable(a)
    <2>1. InsertRows(a.subs) /\ \A s \in a.subs : ~RowConflict(s)
      BY <1>2 DEF AdmitPlan, AllInsertable
    <2>2. \A j \in JobsOf(a.subs) : j \in Jobs /\ ~Exists(j)
      BY <1>1, <2>1, FreshRows
    <2>3. /\ UNCHANGED <<attempt_count, attempt, consumed_attempts, consumed_active_ms>>
          /\ \A j \in Jobs : state'[j] = IF j \in JobsOf(a.subs) THEN "QUEUED" ELSE state[j]
          /\ \A j \in Jobs \ JobsOf(a.subs) : submission'[j] = submission[j]
          /\ \A j \in JobsOf(a.subs) : submission'[j] \in a.subs
      BY <1>1, <2>1, <2>2, InsertedRow DEF AdmitPlan, InsertRows
    <2>4. admission' = [admission EXCEPT ![a.plan] = a]
      BY <1>2 DEF AdmitPlan
    <2>5. plan_jobs' = [j \in Jobs |-> IF j \in JobsOf(a.subs) THEN a.plan ELSE plan_jobs[j]]
      BY <1>2 DEF AdmitPlan, LinkedJobs
    <2>6. \A j \in JobsOf(a.subs) : plan_jobs[j] = None /\ attempt_count[j] = 0
      BY <2>2 DEF StoreIInv, AbsentRowBlank
    <2>7. AttemptsWeighed'
      BY <2>3 DEF LedgerIInv, AttemptsWeighed, Weight
    <2>8. PlansCountable' /\ BudgetLedger'
      BY <2>3, <2>5, <2>6, LedgerStays
    <2>9. /\ \A p \in Plans : admission'[p] = IF p = a.plan THEN a ELSE admission[p]
          /\ a # None
      BY <1>1, <2>4, NoneAssumption DEF StoreIInv, StoreTypeOK
    <2>10. PlanWhole'
      <3>1. ASSUME NEW j \in Jobs, plan_jobs'[j] # None
            PROVE  /\ Exists(j)' /\ admission'[plan_jobs'[j]] # None
                   /\ submission'[j] \in admission'[plan_jobs'[j]].subs
        <4>1. CASE j \in JobsOf(a.subs)
          BY <1>1, <2>3, <2>5, <2>9, <4>1 DEF Exists
        <4>2. CASE j \notin JobsOf(a.subs)
          <5>1. plan_jobs'[j] = plan_jobs[j] /\ plan_jobs[j] \in Plans
            BY <2>5, <3>1, <4>2 DEF StoreIInv, StoreTypeOK
          <5>2. /\ Exists(j) /\ admission[plan_jobs[j]] # None
                /\ submission[j] \in admission[plan_jobs[j]].subs
            BY <3>1, <5>1 DEF LedgerIInv, PlanWhole
          <5>3. plan_jobs[j] # a.plan
            BY <1>2, <5>2
          <5> QED
            BY <2>3, <2>9, <4>2, <5>1, <5>2, <5>3 DEF Exists
        <4> QED
          BY <4>1, <4>2
      <3>2. ASSUME NEW p \in Plans, admission'[p] # None
            PROVE  PlanJobs(p)' = JobsOf(admission'[p].subs)
        <4>1. CASE p = a.plan
          <5>1. \A j \in Jobs : plan_jobs[j] # p
            BY <1>1, <1>2, <4>1, NoneAssumption DEF StoreIInv, PlansKnown
          <5> QED
            BY <2>2, <2>5, <2>9, <4>1, <5>1 DEF PlanJobs
        <4>2. CASE p # a.plan
          <5>1. PlanJobs(p) = JobsOf(admission[p].subs)
            BY <2>9, <3>2, <4>2 DEF LedgerIInv, PlanWhole
          <5>2. PlanJobs(p)' = PlanJobs(p)
            BY <1>1, <2>5, <2>6, <4>2, NoneAssumption DEF PlanJobs
          <5> QED
            BY <2>9, <4>2, <5>1, <5>2
        <4> QED
          BY <4>1, <4>2
      <3> QED
        BY <3>1, <3>2 DEF PlanWhole, JobsOf
    <2> QED
      BY <2>7, <2>8, <2>10 DEF LedgerIInv
  <1>3. CASE ~(admission[a.plan] = None /\ WithinBudget(a) /\ AllInsertable(a))
    BY <1>3, QuietLedger DEF AdmitPlan, planVars, rowVars, Exists
  <1> QED
    BY <1>2, <1>3

LEMMA LedgerInit == StoreInit => LedgerIInv
  <1> SUFFICES ASSUME StoreInit PROVE LedgerIInv
    OBVIOUS
  <1>1. AttemptsWeighed
    BY DEF StoreInit, AttemptsWeighed, NoAttempt, Weight
  <1>2. \A p \in Plans : Begun(p) = {} /\ Weighed(p) = {}
    <2> SUFFICES ASSUME NEW p \in Plans PROVE Begun(p) = {} /\ Weighed(p) = {}
      OBVIOUS
    <2>1. \A j \in Jobs : plan_jobs[j] # p
      BY NoneAssumption DEF StoreInit
    <2> QED
      BY <2>1 DEF Begun, Weighed, PlanJobs
  <1>3. PlansCountable /\ BudgetLedger
    BY <1>2, FS_EmptySet DEF PlansCountable, BudgetLedger, StoreInit
  <1>4. PlanWhole
    BY DEF StoreInit, PlanWhole
  <1> QED
    BY <1>1, <1>3, <1>4 DEF LedgerIInv

LEMMA LedgerNext == StoreIInv /\ LedgerIInv /\ [StoreNext]_storeVars => LedgerIInv'
  <1> SUFFICES ASSUME StoreIInv, LedgerIInv, [StoreNext]_storeVars PROVE LedgerIInv'
    OBVIOUS
  <1> USE DEF rowVars, Exists
  <1>1. ASSUME NEW c \in Submitters, Submit(c)
        PROVE  LedgerIInv'
    <2>1. ASSUME NEW s \in Submissions, EnqueueLookup(c, s)
          PROVE  LedgerIInv'
      BY <2>1, QuietLedger DEF EnqueueLookup
    <2>2. CASE EnqueueInsert(c)
      <3>1. CASE RowConflict(call[c].arg)
        BY <2>2, <3>1, QuietLedger DEF EnqueueInsert
      <3>2. CASE ~RowConflict(call[c].arg)
        <4>1. call[c].arg \in Submissions
          BY <2>2 DEF EnqueueInsert, StoreIInv, CallsConsistent, Callers
        <4>2. InsertRows({call[c].arg}) /\ UNCHANGED planVars
          BY <2>2, <3>2 DEF EnqueueInsert
        <4> QED
          BY <3>2, <4>1, <4>2, InsertLedger
      <3> QED
        BY <3>1, <3>2
    <2>3. ASSUME NEW a \in Admissions, AdmitPlan(c, a)
          PROVE  LedgerIInv'
      BY <2>3, AdmitLedger DEF Callers
    <2> QED
      BY <1>1, <2>1, <2>2, <2>3 DEF Submit
  <1>2. ASSUME NEW c \in Claimers, Claim(c)
        PROVE  LedgerIInv'
    BY <1>2, ClaimLedger, QuietLedger DEF Claim, ClaimReadControls, ClaimNothing, Callers
  <1>3. ASSUME NEW c \in Cancellers, Cancel(c)
        PROVE  LedgerIInv'
    <2>1. CASE CancelUpdate(c)
      <3>1. \A j \in Jobs : Exists(j) => Exists(j)'
        BY <2>1 DEF CancelUpdate, CancelledState, StoreIInv, StoreTypeOK
      <3> QED
        BY <2>1, <3>1, QuietLedger DEF CancelUpdate
    <2>2. CASE CancelLog(c) \/ \E j \in Jobs : CancelRead(c, j)
      BY <2>2, QuietLedger DEF CancelLog, CancelRead
    <2> QED
      BY <1>3, <2>1, <2>2 DEF Cancel
  <1>4. ASSUME NEW c \in Controllers, Control(c)
        PROVE  LedgerIInv'
    BY <1>4, QuietLedger DEF Control, Pause, RequestStop, ResumePaused, ResumeStopped
  <1>5. ASSUME NEW c \in Callers, Abandon(c)
        PROVE  LedgerIInv'
    BY <1>5, QuietLedger DEF Abandon
  <1>6. ASSUME NEW j \in Jobs, EndAttempt(j)
        PROVE  LedgerIInv'
    <2>1. CASE \E o \in 1..minted, to \in Finishable, ms \in 1..Quantum : Finish(o, j, to, ms)
      BY <2>1, FinishLedger
    <2>2. CASE RequeueInterrupted(j)
      <3>1. "QUEUED" \in JobStates \ {"ABSENT"}
        BY DEF JobStates, Active, Waiting
      <3>2. "INTERRUPTED" \in AttemptStates \ {"NONE", "RUNNING"}
        BY DEF AttemptStates
      <3> QED
        BY <2>2, <3>1, <3>2, CloseLedger DEF RequeueInterrupted
    <2>3. ASSUME NEW to \in Reconcilable, ReconcileInterrupted(j, to)
          PROVE  LedgerIInv'
      <3>1. to \in JobStates \ {"ABSENT"} /\ to \in AttemptStates \ {"NONE", "RUNNING"}
        BY DEF Reconcilable, Final, JobStates, AttemptStates, Finishable
      <3> QED
        BY <2>3, <3>1, CloseLedger DEF ReconcileInterrupted
    <2> QED
      BY <1>6, <2>1, <2>2, <2>3 DEF EndAttempt
  <1>7. CASE UNCHANGED storeVars
    BY <1>7, QuietLedger DEF storeVars, planVars
  <1> QED
    BY <1>1, <1>2, <1>3, <1>4, <1>5, <1>6, <1>7 DEF StoreNext

LEMMA LedgerInvariant == StoreSpec => []LedgerIInv
  BY StoreInvariant, LedgerInit, LedgerNext, PTL DEF StoreSpec

(* The counters of a plan are the attempts its jobs began and the time they *)
(* weigh: over any claims, refunds, interruptions and recoveries, nothing   *)
(* is charged twice and nothing given back twice (local_job_store.c,        *)
(* the claim, local_job_store_finish_budgeted and the two recoveries).      *)
THEOREM BudgetAddsUp == StoreSpec => []BudgetLedger
  BY LedgerInvariant, PTL DEF LedgerIInv

(* A plan has all the jobs it was admitted with and no other, however many  *)
(* callers admit plans and submit jobs at once                              *)
(* (local_job_store_admit_plan).                                            *)
THEOREM PlanAdmittedWhole == StoreSpec => []PlanWhole
  BY LedgerInvariant, PTL DEF LedgerIInv

-----------------------------------------------------------------------------
(* The job store implements the lease queue.                               *)

LEMMA LifeRow ==
  ASSUME StoreIInv, NEW j \in Jobs
  PROVE  /\ Life[j] = LifeOf(state[j])
         /\ Limit[j] \in 0..MaxRank
         /\ Exists(j) => Limit[j] = submission[j].maxAttempts /\ Limit[j] > 0
         /\ ~Exists(j) => Limit[j] = 0
  BY SubmissionFields, BoundsAssumption
  DEF StoreIInv, RowSubmitted, Life, Limit

(* Rows inserted together enter the queue together.                        *)
LEMMA InsertEnters ==
  ASSUME StoreIInv, StoreIInv', NEW S \in SUBSET Submissions, InsertRows(S),
         \A s \in S : ~RowConflict(s), UNCHANGED minted
  PROVE  Lease!Enter
  <1> DEFINE E == JobsOf(S)
  <1>1. /\ E \subseteq Jobs
        /\ \A j \in E : ~Exists(j)
        /\ \A j \in Jobs : state'[j] = IF j \in E THEN "QUEUED" ELSE state[j]
        /\ \A j \in Jobs \ E : submission'[j] = submission[j]
    BY FreshRows DEF InsertRows
  <1>2. E \in SUBSET {j \in Jobs : Life[j] = "absent"}
    BY <1>1, LifeRow DEF LifeOf, Exists
  <1>3. Limit' \in [Jobs -> 0..MaxRank]
    <2>1. \A j \in Jobs : Limit'[j] \in 0..MaxRank
      <3> SUFFICES ASSUME NEW j \in Jobs PROVE Limit'[j] \in 0..MaxRank
        OBVIOUS
      <3>1. CASE state'[j] = "ABSENT"
        BY <3>1, BoundsAssumption DEF Limit, Exists
      <3>2. CASE state'[j] # "ABSENT"
        <4>1. submission'[j] \in Submissions
          BY <3>2 DEF StoreIInv, RowSubmitted, Exists
        <4> QED
          BY <3>2, <4>1, SubmissionFields, BoundsAssumption DEF Limit, Exists
      <3> QED
        BY <3>1, <3>2
    <2> QED
      BY <2>1 DEF Limit
  <1>4. \A j \in E : Limit'[j] > 0
    <2> SUFFICES ASSUME NEW j \in E PROVE Limit'[j] > 0
      OBVIOUS
    <2>1. j \in Jobs /\ state'[j] # "ABSENT"
      BY <1>1
    <2>2. submission'[j] \in Submissions
      BY <2>1 DEF StoreIInv, RowSubmitted, Exists
    <2> QED
      BY <2>1, <2>2, SubmissionFields, BoundsAssumption DEF Limit, Exists
  <1>5. \A j \in Jobs \ E : Limit'[j] = Limit[j]
    BY <1>1 DEF Limit, Exists
  <1>6. Life' = [j \in Jobs |-> IF j \in E THEN "waiting" ELSE Life[j]]
    BY <1>1 DEF Life, LifeOf, Waiting
  <1>7. UNCHANGED <<attempt_count, owner_token, minted>>
    BY DEF InsertRows
  <1> HIDE DEF E
  <1> QED
    BY <1>2, <1>3, <1>4, <1>5, <1>6, <1>7 DEF Lease!Enter

(* A step that touches no row is a stutter of the queue.                   *)
LEMMA QuietStutters ==
  ASSUME UNCHANGED rowVars, UNCHANGED minted
  PROVE  UNCHANGED Lease!leaseVars
  BY DEF rowVars, Lease!leaseVars, Life, Limit, Exists

LEMMA ClaimGrants ==
  ASSUME StoreIInv, NEW c \in Callers, NEW j \in Jobs, ClaimJob(c, j)
  PROVE  Lease!Grant(j)
  <1>1. state[j] \in Waiting /\ attempt_count[j] < submission[j].maxAttempts
    BY DEF ClaimJob, First, Claimable
  <1>2. Exists(j) /\ Life[j] = "waiting" /\ attempt_count[j] < Limit[j]
    BY <1>1, LifeRow DEF Exists, LifeOf, Waiting
  <1>3. Life' = [Life EXCEPT ![j] = "leased"]
    <2>1. state' = [state EXCEPT ![j] = "RUNNING"]
      BY DEF ClaimJob
    <2> QED
      BY <2>1 DEF Life, LifeOf, Waiting, StoreIInv, StoreTypeOK
  <1>4. Limit' = Limit
    BY <1>1 DEF ClaimJob, Limit, Exists, Waiting, StoreIInv, StoreTypeOK
  <1> QED
    BY <1>2, <1>3, <1>4 DEF ClaimJob, FreshToken, Lease!Grant

LEMMA EndGivesUp ==
  ASSUME StoreIInv, NEW j \in Jobs, EndAttempt(j)
  PROVE  \E to \in Lease!Lives : Lease!GiveUp(j, to)
  <1>1. /\ state[j] = "RUNNING"
        /\ UNCHANGED <<submission, attempt_count, minted>>
        /\ \E to \in Finishable \cup {"QUEUED"} :
             /\ EndRow(j, to)
             /\ to = "QUEUED" => attempt_count[j] < submission[j].maxAttempts
    BY DEF EndAttempt, Finish, Owns, RequeueInterrupted, ReconcileInterrupted,
       Finishable, Reconcilable, Final
  <1>2. PICK to \in Finishable \cup {"QUEUED"} :
          /\ EndRow(j, to)
          /\ to = "QUEUED" => attempt_count[j] < submission[j].maxAttempts
    BY <1>1
  <1>3. /\ Life[j] = "leased" /\ Exists(j)
        /\ Limit[j] = submission[j].maxAttempts
    BY <1>1, LifeRow DEF LifeOf, Exists, Waiting
  <1>4. to # "ABSENT" /\ to # "RUNNING"
    BY DEF Finishable, Final
  <1>5. Life' = [Life EXCEPT ![j] = LifeOf(to)]
    BY <1>2 DEF EndRow, Life, StoreIInv, StoreTypeOK
  <1>6. Limit' = Limit
    BY <1>1, <1>2, <1>4 DEF EndRow, Limit, Exists, StoreIInv, StoreTypeOK
  <1>7. CASE to = "QUEUED"
    <2>1. LifeOf(to) = "waiting" /\ attempt_count[j] < Limit[j]
      BY <1>7, <1>2, <1>3 DEF LifeOf, Waiting
    <2>2. Lease!GiveUp(j, "waiting")
      BY <1>1, <1>2, <1>3, <1>5, <1>6, <2>1 DEF Lease!GiveUp, EndRow
    <2> QED
      BY <2>2 DEF Lease!Lives
  <1>8. CASE to # "QUEUED"
    <2>1. LifeOf(to) \in {"done", "blocked"}
      BY <1>8 DEF LifeOf, Waiting, Finishable, Final
    <2>2. Lease!GiveUp(j, LifeOf(to))
      BY <1>1, <1>2, <1>3, <1>5, <1>6, <2>1 DEF Lease!GiveUp, EndRow
    <2> QED
      BY <2>1, <2>2 DEF Lease!Lives
  <1> QED
    BY <1>7, <1>8

(* A cancellation withdraws a waiting or blocked job, and otherwise does   *)
(* not show.                                                               *)
LEMMA CancelWithdraws ==
  ASSUME StoreIInv, NEW c \in Callers, CancelUpdate(c)
  PROVE  (\E j \in Jobs : Lease!Withdraw(j)) \/ UNCHANGED Lease!leaseVars
  <1> DEFINE j == call[c].arg
             to == CancelledState(state[j])
  <1>1. j \in Jobs /\ Exists(j)
    BY DEF CancelUpdate, StoreIInv, CallsConsistent
  <1>2. UNCHANGED <<submission, attempt_count, owner_token, minted>>
    BY DEF CancelUpdate
  <1>3. CASE UNCHANGED state
    BY <1>2, <1>3 DEF Lease!leaseVars, Life, Limit, Exists
  <1>4. CASE state' = [state EXCEPT ![j] = to] /\ state[j] \in Waiting \cup {"BLOCKED"}
    <2>1. to = "CANCELLED"
      BY <1>4 DEF CancelledState
    <2> HIDE DEF j, to
    <2>2. Life' = [Life EXCEPT ![j] = "done"]
      BY <1>1, <1>4, <2>1 DEF Life, LifeOf, Waiting, StoreIInv, StoreTypeOK
    <2>3. Limit' = Limit
      BY <1>1, <1>2, <1>4, <2>1 DEF Limit, Exists, StoreIInv, StoreTypeOK
    <2>4. Life[j] \in {"waiting", "blocked"}
      BY <1>1, <1>4 DEF Life, LifeOf, Waiting
    <2> QED
      BY <1>1, <1>2, <2>2, <2>3, <2>4 DEF Lease!Withdraw
  <1> QED
    <2>1. \/ UNCHANGED state
          \/ /\ state' = [state EXCEPT ![j] = to]
             /\ state[j] \in Waiting \cup {"BLOCKED"} \/ to = state[j]
      BY DEF CancelUpdate, CancelledState
    <2>2. CASE state' = [state EXCEPT ![j] = to] /\ to = state[j]
      BY <2>2, <1>3, <1>1 DEF StoreIInv, StoreTypeOK
    <2> QED
      BY <2>1, <2>2, <1>3, <1>4

(* The store implements the lease queue: what a claimer, a recovery or a   *)
(* cancellation does to a job is what the queue allows.                    *)
THEOREM StoreIsLeaseQueue == StoreSpec => LeaseRefined
  <1>1. StoreInit => Lease!LeaseInit
    BY DEF StoreInit, Lease!LeaseInit, Life, LifeOf, Limit, Exists
  <1>2. StoreIInv /\ StoreIInv' /\ [StoreNext]_storeVars
          => [Lease!LeaseNext]_Lease!leaseVars
    <2> SUFFICES ASSUME StoreIInv, StoreIInv', [StoreNext]_storeVars
                 PROVE  Lease!LeaseNext \/ UNCHANGED Lease!leaseVars
      OBVIOUS
    <2> USE DEF Callers
    <2>1. CASE UNCHANGED <<rowVars, minted>>
      BY <2>1, QuietStutters
    <2>2. ASSUME NEW c \in Submitters, Submit(c)
          PROVE  Lease!Enter \/ UNCHANGED <<rowVars, minted>>
      <3>1. CASE EnqueueInsert(c)
        <4>1. call[c].arg \in Submissions
          BY <3>1 DEF EnqueueInsert, StoreIInv, CallsConsistent
        <4>2. CASE RowConflict(call[c].arg)
          BY <3>1, <4>2 DEF EnqueueInsert
        <4>3. CASE ~RowConflict(call[c].arg)
          BY <3>1, <4>1, <4>3, InsertEnters DEF EnqueueInsert
        <4> QED
          BY <4>2, <4>3
      <3>2. CASE \E a \in Admissions : AdmitPlan(c, a)
        <4>1. PICK a \in Admissions : AdmitPlan(c, a)
          BY <3>2
        <4>2. CASE AllInsertable(a) /\ InsertRows(a.subs)
          <5>1. \A s \in a.subs : ~RowConflict(s)
            BY <4>2 DEF AllInsertable
          <5>2. a.subs \in SUBSET Submissions /\ UNCHANGED minted
            BY <4>1, AdmissionFields DEF AdmitPlan
          <5> QED
            BY <4>2, <5>1, <5>2, InsertEnters
        <4>3. CASE UNCHANGED rowVars
          BY <4>1, <4>3 DEF AdmitPlan
        <4> QED
          BY <4>1, <4>2, <4>3 DEF AdmitPlan
      <3>3. CASE \E s \in Submissions : EnqueueLookup(c, s)
        BY <3>3 DEF EnqueueLookup
      <3> QED
        BY <2>2, <3>1, <3>2, <3>3 DEF Submit
    <2>3. ASSUME NEW c \in Claimers, Claim(c)
          PROVE  (\E j \in Jobs : Lease!Grant(j)) \/ UNCHANGED <<rowVars, minted>>
      BY <2>3, ClaimGrants DEF Claim, ClaimReadControls, ClaimNothing
    <2>4. ASSUME NEW c \in Cancellers, Cancel(c)
          PROVE  \/ \E j \in Jobs : Lease!Withdraw(j)
                 \/ UNCHANGED <<rowVars, minted>>
                 \/ UNCHANGED Lease!leaseVars
      BY <2>4, CancelWithdraws DEF Cancel, CancelRead, CancelLog
    <2>5. ASSUME NEW c \in Controllers, Control(c)
          PROVE  UNCHANGED <<rowVars, minted>>
      BY <2>5 DEF Control, Pause, RequestStop, ResumePaused, ResumeStopped
    <2>7. CASE \E c \in Callers : Abandon(c)
      BY <2>7, <2>1 DEF Abandon
    <2>6. CASE UNCHANGED storeVars
      BY <2>6, <2>1 DEF storeVars, rowVars
    <2> QED
      BY <2>1, <2>2, <2>3, <2>4, <2>5, <2>6, <2>7, EndGivesUp
      DEF StoreNext, Lease!LeaseNext
  <1> QED
    BY <1>1, <1>2, StoreInvariant, PTL
    DEF StoreSpec, LeaseRefined, Lease!LeaseSpec
=============================================================================
