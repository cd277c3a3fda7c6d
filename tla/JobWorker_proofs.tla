-------------------------- MODULE JobWorker_proofs --------------------------
(* The safety of the worker processes, for any number of workers, jobs and *)
(* submissions: the lock leaves one worker at a time, and that worker, its *)
(* files and the extractions agree with the job store.                     *)
EXTENDS JobWorker, JobStore_proofs

(* Sets of steps the proofs distinguish.                                   *)
Writing == {"stage", "rename", "commit"}
Settled == {"ask", "claim"} \cup Executing

LEMMA StepSets ==
  /\ Executing = {"start", "prepare", "finish"} \cup Writing
  /\ Executing \subseteq WorkerSteps
  /\ "off" \notin Settled /\ "list" \notin Settled /\ "recover" \notin Settled
  /\ {"off", "list", "recover", "ask", "claim"} \cap Executing = {}
  BY DEF Executing, Writing, WorkerSteps, Settled

(* Who runs holds the lock, so nobody else runs.                           *)
LEMMA Alone ==
  ASSUME TypeOK, NEW w \in Claimers, ~At(w, "off")
  PROVE  /\ worker_lock = w
         /\ \A v \in Claimers \ {w} :
              worker[v].step = "off" /\ worker[v].job = None
  BY StepSets DEF TypeOK, At

(* A step of one worker that leaves rows and files alone: what is left to  *)
(* show is about the new step of that worker.                              *)
LEMMA LocalStep ==
  ASSUME StoreIInv, WorkerIInv, NEW w \in Claimers,
         \A v \in Claimers \ {w} : worker'[v] = worker[v],
         \A v \in Claimers \ {w} : worker[v].step = "off" /\ worker[v].job = None,
         worker' \in [Claimers -> WorkerRows],
         worker_lock' = IF worker'[w].step = "off" THEN None ELSE w,
         (worker'[w].job # None) <=> worker'[w].step \in Executing,
         UNCHANGED <<state, submission, attempt_count, owner_token, minted>>,
         UNCHANGED <<fileVars, misreads, unremoved>>,
         crashes' \in 0..MaxCrashes, crashes' >= crashes,
         signals' \in 0..MaxSignals,
         worker'[w].step \in Executing =>
           /\ worker[w].step \in Executing
           /\ worker'[w].job = worker[w].job
           /\ worker'[w].token = worker[w].token
           /\ worker'[w].ok => published[worker[w].job]
           /\ published[worker[w].job] => worker'[w].step \notin Writing,
         worker'[w].step = "recover" =>
           \A j \in Jobs : state[j] = "RUNNING" /\ j \notin worker'[w].todo
             => Exhausted(j),
         worker'[w].step \in Settled =>
           \A j \in Jobs : state[j] = "RUNNING" /\ worker'[w].job # j
             => Exhausted(j),
         Clean' /\ worker[w].step \in {"rename", "commit"} =>
           worker'[w].step = worker[w].step /\ worker'[w].job = worker[w].job
  PROVE  WorkerIInv'
  <1> USE DEF fileVars
  <1>a. /\ \A j \in Jobs : Exhausted(j) => Exhausted(j)'
        /\ Clean' => Clean
    BY DEF Exhausted, WorkerIInv, TypeOK, Clean
  <1>1. TypeOK'
    BY StepSets, WorkerAssumption DEF WorkerIInv, TypeOK, At
  <1>2. TokenDrawn'
    BY StepSets DEF WorkerIInv, TokenDrawn
  <1>3. WorkerOwnsItsJob'
    BY StepSets DEF WorkerIInv, WorkerOwnsItsJob, Owns
  <1>4. OkIsPublished'
    BY StepSets DEF WorkerIInv, OkIsPublished
  <1>5. CompletedIsPublished' /\ PublishedExists'
    BY DEF WorkerIInv, CompletedIsPublished, PublishedExists, Exists
  <1>6. NoSecondExtraction'
    <2>1. ASSUME NEW j \in Jobs, published[j], NEW v \in Claimers,
                 worker'[v].job = j
          PROVE  worker'[v].step \in {"start", "prepare", "finish"}
      BY <2>1, StepSets, NoneAssumption
    <2> QED
      BY <2>1 DEF WorkerIInv, NoSecondExtraction
  <1>7. SettledSoFar'
    BY <1>a DEF SettledSoFar, At
  <1>8. LeftoversExhausted'
    BY <1>a, StepSets DEF LeftoversExhausted, Settled
  <1>9. NoLitter'
    <2> SUFFICES ASSUME Clean', NEW j \in Jobs
                 PROVE  /\ staged[j] => \E v \in Claimers :
                             worker'[v].job = j /\ worker'[v].step = "rename"
                        /\ derivative[j] # "none" /\ ~published[j]
                             => \E v \in Claimers :
                                  worker'[v].job = j /\ worker'[v].step = "commit"
      BY DEF NoLitter, At
    <2>1. ASSUME NEW v \in Claimers, worker[v].step \in {"rename", "commit"}
          PROVE  worker'[v].step = worker[v].step /\ worker'[v].job = worker[v].job
      BY <2>1
    <2> QED
      BY <2>1, <1>a DEF WorkerIInv, NoLitter, At
  <1> QED
    BY <1>1, <1>2, <1>3, <1>4, <1>5, <1>6, <1>7, <1>8, <1>9 DEF WorkerIInv

LEMMA OffRow == Off \in WorkerRows /\ Off.step = "off" /\ Off.job = None
  BY DEF Off, WorkerRows, WorkerSteps

(* Start: nobody held the lock.                                            *)
LEMMA StartStep ==
  ASSUME StoreIInv, WorkerIInv, NEW w \in Claimers, Start(w)
  PROVE  WorkerIInv'
  <1>1. /\ \A v \in Claimers : worker[v].step = "off" /\ worker[v].job = None
        /\ worker \in [Claimers -> WorkerRows]
    BY StepSets, WorkerAssumption DEF Start, WorkerIInv, TypeOK, At
  <1>2. /\ worker' \in [Claimers -> WorkerRows]
        /\ worker'[w].step = "list" /\ worker'[w].job = None
        /\ \A v \in Claimers \ {w} : worker'[v] = worker[v]
    BY <1>1 DEF Start, Goto, WorkerRows, WorkerSteps
  <1>3. UNCHANGED <<state, submission, attempt_count, owner_token, minted,
                    fileVars, crashes, signals, misreads, unremoved>>
    BY DEF Start, storeVars, faultVars
  <1>4. /\ crashes \in 0..MaxCrashes /\ signals \in 0..MaxSignals
        /\ worker_lock' = w
    BY DEF WorkerIInv, TypeOK, Start
  <1>5. crashes' >= crashes
    BY <1>3, <1>4
  <1>6. "list" \notin Executing /\ "list" \notin Settled
    BY StepSets
  <1> QED
    BY <1>1, <1>2, <1>3, <1>4, <1>5, <1>6, LocalStep

(* A worker that runs goes on with the same job, if any.                   *)
LEMMA ActiveStep ==
  ASSUME StoreIInv, WorkerIInv, NEW w \in Claimers, worker[w].step # "off",
         NEW row \in WorkerRows, worker' = [worker EXCEPT ![w] = row],
         row.step # "off", row.job = worker[w].job, row.token = worker[w].token,
         row.step \in Executing <=> worker[w].step \in Executing,
         UNCHANGED <<state, submission, attempt_count, owner_token, minted>>,
         UNCHANGED <<fileVars, misreads, unremoved, crashes, worker_lock>>,
         signals' \in 0..MaxSignals,
         row.step \in Executing /\ row.ok => published[row.job],
         row.step \in Writing => ~published[row.job],
         row.step = "recover" =>
           \A j \in Jobs : state[j] = "RUNNING" /\ j \notin row.todo => Exhausted(j),
         worker[w].step \notin Settled /\ row.step \in Settled =>
           \A j \in Jobs : state[j] = "RUNNING" => Exhausted(j),
         worker[w].step \in {"rename", "commit"} => row.step = worker[w].step
  PROVE  WorkerIInv'
  <1>1. /\ worker_lock = w
        /\ \A v \in Claimers \ {w} : worker[v].step = "off" /\ worker[v].job = None
        /\ worker \in [Claimers -> WorkerRows]
        /\ (row.job # None) <=> row.step \in Executing
    BY Alone DEF WorkerIInv, TypeOK, At
  <1>2. /\ worker'[w] = row /\ worker' \in [Claimers -> WorkerRows]
        /\ \A v \in Claimers \ {w} : worker'[v] = worker[v]
    BY <1>1
  <1>3. crashes' \in 0..MaxCrashes /\ crashes' >= crashes
    BY WorkerAssumption DEF WorkerIInv, TypeOK
  <1>4. row.step \in Settled =>
          \A j \in Jobs : state[j] = "RUNNING" /\ row.job # j => Exhausted(j)
    BY DEF WorkerIInv, LeftoversExhausted, Settled
  <1>5. worker_lock' = IF worker'[w].step = "off" THEN None ELSE w
    BY <1>1, <1>2
  <1> QED
    BY <1>1, <1>2, <1>3, <1>4, <1>5, LocalStep

(* The steps before the first claim.                                       *)
LEMMA RecoverySteps ==
  ASSUME StoreIInv, WorkerIInv, NEW w \in Claimers,
         ListJobs(w) \/ Recovered(w) \/ AskNext(w)
  PROVE  WorkerIInv'
  <1>1. /\ worker \in [Claimers -> WorkerRows]
        /\ signals \in 0..MaxSignals
    BY DEF WorkerIInv, TypeOK
  <1>2. CASE ListJobs(w)
    <2> DEFINE running == {j \in Jobs : state[j] = "RUNNING"}
               seen == {j \in running : cancel_requested[j]}
               row == [worker[w] EXCEPT !.step = "recover", !.todo = running,
                                        !.cancelled = seen]
    <2>1. running \in SUBSET Jobs /\ seen \in SUBSET Jobs
      OBVIOUS
    <2>2. worker' = [worker EXCEPT ![w].step = "recover", ![w].todo = running,
                                   ![w].cancelled = seen]
      BY <1>2 DEF ListJobs
    <2>3. /\ UNCHANGED <<state, submission, attempt_count, owner_token, minted>>
          /\ UNCHANGED <<fileVars, misreads, unremoved, crashes, signals,
                         worker_lock>>
          /\ worker[w].step = "list"
      BY <1>2 DEF ListJobs, storeVars, faultVars, At
    <2>4. \A j \in Jobs : state[j] = "RUNNING" => j \in running
      OBVIOUS
    <2> HIDE DEF running, seen
    <2>5. /\ row \in WorkerRows /\ worker' = [worker EXCEPT ![w] = row]
          /\ row.step = "recover" /\ row.job = worker[w].job
          /\ row.token = worker[w].token /\ row.todo = running
      BY <1>1, <2>1, <2>2 DEF WorkerRows, WorkerSteps
    <2> HIDE DEF row
    <2> QED
      BY <1>1, <2>3, <2>4, <2>5, StepSets, ActiveStep DEF Writing
  <1>3. CASE Recovered(w)
    <2> DEFINE row == [worker[w] EXCEPT !.step = "ask"]
    <2>1. /\ row \in WorkerRows /\ worker' = [worker EXCEPT ![w] = row]
          /\ row.step = "ask" /\ row.job = worker[w].job
          /\ row.token = worker[w].token
          /\ worker[w].step = "recover" /\ worker[w].todo = {}
      BY <1>1, <1>3 DEF Recovered, Goto, At, WorkerRows, WorkerSteps
    <2>2. /\ UNCHANGED <<state, submission, attempt_count, owner_token, minted>>
          /\ UNCHANGED <<fileVars, misreads, unremoved, crashes, signals,
                         worker_lock>>
      BY <1>3 DEF Recovered, storeVars, faultVars
    <2>3. \A j \in Jobs : state[j] = "RUNNING" => Exhausted(j)
      BY <2>1 DEF WorkerIInv, SettledSoFar, At
    <2> HIDE DEF row
    <2> QED
      BY <1>1, <2>1, <2>2, <2>3, StepSets, ActiveStep DEF Writing
  <1>4. CASE AskNext(w)
    <2> DEFINE row == [worker[w] EXCEPT !.step = "claim"]
    <2>1. /\ row \in WorkerRows /\ worker' = [worker EXCEPT ![w] = row]
          /\ row.step = "claim" /\ row.job = worker[w].job
          /\ row.token = worker[w].token
          /\ worker[w].step = "ask"
      BY <1>1, <1>4 DEF AskNext, Goto, At, WorkerRows, WorkerSteps
    <2>2. /\ UNCHANGED <<state, submission, attempt_count, owner_token, minted>>
          /\ UNCHANGED <<fileVars, misreads, unremoved, crashes, signals,
                         worker_lock>>
      BY <1>4 DEF AskNext, ClaimReadControls, rowVars, faultVars
    <2>3. worker[w].step \in Settled
      BY <2>1 DEF Settled
    <2> HIDE DEF row
    <2> QED
      BY <1>1, <2>1, <2>2, <2>3, StepSets, ActiveStep DEF Writing
  <1> QED
    BY <1>2, <1>3, <1>4

(* The steps of an execution that change neither rows nor files.           *)
LEMMA ExecutionSteps ==
  ASSUME StoreIInv, WorkerIInv, NEW w \in Claimers,
         \/ StartJob(w) \/ PrepareEnds(w) \/ PrepareDone(w)
         \/ Expire(w) \/ Signal(w)
  PROVE  WorkerIInv'
  <1>1. /\ worker \in [Claimers -> WorkerRows]
        /\ signals \in 0..MaxSignals
    BY DEF WorkerIInv, TypeOK
  <1>2. CASE StartJob(w) \/ PrepareEnds(w)
    <2>1. PICK step \in {"prepare", "finish"}, ok \in BOOLEAN :
            /\ worker' = [worker EXCEPT ![w] =
                            [worker[w] EXCEPT !.step = step, !.ok = ok]]
            /\ step = "finish" /\ ok => published[worker[w].job]
            /\ step = "prepare" => ok = worker[w].ok
      <3>1. CASE StartJob(w) /\ (worker[w].expired \/ worker[w].stop)
        BY <1>1, <3>1 DEF StartJob, Ended
      <3>2. CASE StartJob(w) /\ ~(worker[w].expired \/ worker[w].stop)
        <4>1. worker' = [worker EXCEPT ![w] =
                [worker[w] EXCEPT !.step = "prepare", !.ok = worker[w].ok]]
          BY <1>1, <3>2 DEF StartJob, Goto, WorkerRows
        <4>2. worker[w].ok \in BOOLEAN
          BY <1>1 DEF WorkerRows
        <4> QED
          BY <4>1, <4>2
      <3>3. CASE PrepareEnds(w)
        <4>1. PICK ok \in {FALSE, Replays(worker[w].job)} : Ended(w, ok)
          BY <3>3 DEF PrepareEnds
        <4>2. ok \in BOOLEAN /\ (ok => published[worker[w].job])
          <5>1. worker[w].job \in Jobs
            BY <1>1, <3>3, StepSets DEF PrepareEnds, At, WorkerIInv, TypeOK,
               Executing, WorkerRows
          <5>2. published[worker[w].job] \in BOOLEAN
            BY <5>1 DEF WorkerIInv, TypeOK
          <5> QED
            BY <4>1, <5>2 DEF Replays
        <4>3. worker' = [worker EXCEPT ![w] =
                [worker[w] EXCEPT !.step = "finish", !.ok = ok]]
          BY <4>1 DEF Ended
        <4> QED
          BY <4>2, <4>3
      <3> QED
        BY <1>2, <3>1, <3>2, <3>3
    <2> DEFINE row == [worker[w] EXCEPT !.step = step, !.ok = ok]
    <2>2. /\ row \in WorkerRows /\ worker' = [worker EXCEPT ![w] = row]
          /\ row.step = step /\ row.ok = ok /\ row.job = worker[w].job
          /\ row.token = worker[w].token
      <3>1. worker[w] \in WorkerRows /\ step \in WorkerSteps
        BY <1>1 DEF WorkerSteps, Executing
      <3>2. /\ row \in WorkerRows /\ row.step = step /\ row.ok = ok
            /\ row.job = worker[w].job /\ row.token = worker[w].token
        BY <3>1 DEF WorkerRows
      <3> QED
        BY <2>1, <3>2
    <2>3. /\ UNCHANGED <<state, submission, attempt_count, owner_token, minted>>
          /\ UNCHANGED <<fileVars, misreads, unremoved, crashes, signals,
                         worker_lock>>
          /\ worker[w].step \in {"start", "prepare"}
      BY <1>2 DEF StartJob, PrepareEnds, storeVars, faultVars, At
    <2>4. step \in Executing /\ worker[w].step \in Executing /\ step \notin Writing
      BY <2>3 DEF Executing, Writing
    <2>5. row.ok => published[row.job]
      BY <2>1, <2>2, <2>4 DEF WorkerIInv, OkIsPublished
    <2>6. worker[w].step \in Settled
      BY <2>4 DEF Settled
    <2> HIDE DEF row
    <2> QED
      BY <1>1, <2>2, <2>3, <2>4, <2>5, <2>6, StepSets, ActiveStep
  <1>3. CASE PrepareDone(w)
    <2> DEFINE row == [worker[w] EXCEPT !.step = "stage"]
    <2>1. /\ row \in WorkerRows /\ worker' = [worker EXCEPT ![w] = row]
          /\ row.step = "stage" /\ row.job = worker[w].job
          /\ row.token = worker[w].token /\ row.ok = worker[w].ok
          /\ worker[w].step = "prepare" /\ ~published[worker[w].job]
      BY <1>1, <1>3 DEF PrepareDone, Goto, At, WorkerRows, WorkerSteps, Executing
    <2>2. /\ UNCHANGED <<state, submission, attempt_count, owner_token, minted>>
          /\ UNCHANGED <<fileVars, misreads, unremoved, crashes, signals,
                         worker_lock>>
      BY <1>3 DEF PrepareDone, storeVars, faultVars
    <2>3. "prepare" \in Executing /\ "stage" \in Executing /\ "prepare" \in Settled
      BY DEF Executing, Settled
    <2>4. row.ok => published[row.job]
      BY <2>1, <2>3 DEF WorkerIInv, OkIsPublished
    <2> HIDE DEF row
    <2> QED
      BY <1>1, <2>1, <2>2, <2>3, <2>4, StepSets, ActiveStep
  <1>4. CASE Expire(w) \/ Signal(w)
    <2>1. PICK expired \in BOOLEAN, stop \in BOOLEAN :
            worker' = [worker EXCEPT ![w] =
                         [worker[w] EXCEPT !.expired = expired, !.stop = stop]]
      <3>1. worker[w].expired \in BOOLEAN /\ worker[w].stop \in BOOLEAN
        BY <1>1 DEF WorkerRows
      <3>2. /\ [worker[w] EXCEPT !.expired = TRUE]
                 = [worker[w] EXCEPT !.expired = TRUE, !.stop = worker[w].stop]
            /\ [worker[w] EXCEPT !.stop = TRUE]
                 = [worker[w] EXCEPT !.expired = worker[w].expired, !.stop = TRUE]
        BY <1>1 DEF WorkerRows
      <3> QED
        BY <1>4, <3>1, <3>2 DEF Expire, Signal
    <2> DEFINE row == [worker[w] EXCEPT !.expired = expired, !.stop = stop]
    <2>2. /\ row \in WorkerRows /\ worker' = [worker EXCEPT ![w] = row]
          /\ row.step = worker[w].step /\ row.job = worker[w].job
          /\ row.token = worker[w].token /\ row.ok = worker[w].ok
          /\ row.todo = worker[w].todo
      BY <1>1, <2>1 DEF WorkerRows
    <2>3. /\ UNCHANGED <<state, submission, attempt_count, owner_token, minted>>
          /\ UNCHANGED <<fileVars, misreads, unremoved, crashes, worker_lock>>
          /\ signals' \in 0..MaxSignals
          /\ worker[w].step # "off"
      BY <1>1, <1>4, StepSets, WorkerAssumption
      DEF Expire, Signal, storeVars, faultVars, At
    <2>4. /\ row.step \in Executing /\ row.ok => published[row.job]
          /\ row.step = "recover" =>
               \A j \in Jobs : state[j] = "RUNNING" /\ j \notin row.todo
                 => Exhausted(j)
      BY <2>2 DEF WorkerIInv, OkIsPublished, SettledSoFar, At
    <2>5. row.step \in Writing => ~published[row.job]
      <3>1. row.step \in Writing => row.job \in Jobs
        BY <1>1, <2>2, StepSets DEF WorkerIInv, TypeOK, WorkerRows
      <3> QED
        BY <2>2, <3>1 DEF WorkerIInv, NoSecondExtraction, Writing
    <2> HIDE DEF row
    <2> QED
      BY <1>1, <2>2, <2>3, <2>4, <2>5, ActiveStep
  <1> QED
    BY <1>2, <1>3, <1>4

(* The ends of a process.                                                  *)
LEMMA QuitSteps ==
  ASSUME StoreIInv, WorkerIInv, NEW w \in Claimers,
         LeaveAsked(w) \/ LeaveEmpty(w) \/ Crash(w)
  PROVE  WorkerIInv'
  <1>1. /\ worker \in [Claimers -> WorkerRows]
        /\ crashes \in 0..MaxCrashes /\ signals \in 0..MaxSignals
    BY DEF WorkerIInv, TypeOK
  <1>2. /\ Quit(w)
        /\ ~At(w, "off")
        /\ UNCHANGED <<state, submission, attempt_count, owner_token, minted>>
        /\ UNCHANGED <<fileVars, misreads, signals, unremoved>>
    BY DEF LeaveAsked, LeaveEmpty, Crash, ClaimNothing, Abandon, storeVars,
       rowVars, faultVars, At
  <1>3. /\ crashes' \in 0..MaxCrashes /\ crashes' >= crashes
        /\ Clean' => worker[w].step \in {"ask", "claim"}
    BY <1>1, WorkerAssumption DEF LeaveAsked, LeaveEmpty, Crash, faultVars, At,
       WorkerIInv, TypeOK, Clean
  <1>4. /\ worker'[w] = Off /\ worker' \in [Claimers -> WorkerRows]
        /\ \A v \in Claimers \ {w} : worker'[v] = worker[v]
        /\ worker_lock' = None
    BY <1>1, <1>2, OffRow DEF Quit
  <1>5. \A v \in Claimers \ {w} : worker[v].step = "off" /\ worker[v].job = None
    BY <1>2, Alone DEF WorkerIInv
  <1>6. "off" \notin Executing
    BY StepSets
  <1> QED
    BY <1>1, <1>2, <1>3, <1>4, <1>5, <1>6, OffRow, StepSets, LocalStep

-----------------------------------------------------------------------------
(* The steps that write files or commit the extraction: they touch only    *)
(* the job in hand.                                                        *)
LEMMA FileStep ==
  ASSUME StoreIInv, WorkerIInv, NEW w \in Claimers, worker[w].step \in Executing,
         NEW row \in WorkerRows, worker' = [worker EXCEPT ![w] = row],
         row.step \in Executing, row.job = worker[w].job,
         row.token = worker[w].token,
         UNCHANGED <<state, submission, attempt_count, owner_token, minted>>,
         UNCHANGED <<worker_lock, crashes, signals, misreads>>,
         unremoved' \in 0..MaxUnremoved, unremoved' >= unremoved,
         staged' \in [Jobs -> BOOLEAN], derivative' \in [Jobs -> Derivatives],
         published' \in [Jobs -> BOOLEAN],
         \A j \in Jobs \ {row.job} : /\ staged'[j] = staged[j]
                                     /\ derivative'[j] = derivative[j]
                                     /\ published'[j] = published[j],
         published[row.job] => published'[row.job],
         row.ok => published'[row.job],
         row.step \in Writing => ~published'[row.job],
         Clean' =>
           /\ staged'[row.job] => row.step = "rename"
           /\ derivative'[row.job] # "none" /\ ~published'[row.job]
                => row.step = "commit"
  PROVE  WorkerIInv'
  <1> DEFINE k == row.job
  <1>1. /\ \A v \in Claimers \ {w} :
             worker'[v] = worker[v] /\ worker[v].step = "off" /\ worker[v].job = None
        /\ worker_lock = w
        /\ worker'[w] = row /\ worker' \in [Claimers -> WorkerRows]
    BY Alone, StepSets DEF WorkerIInv, TypeOK, At
  <1>2. k \in Jobs /\ state[k] = "RUNNING" /\ owner_token[k] = row.token
    BY StepSets DEF WorkerIInv, TypeOK, WorkerOwnsItsJob, Owns, WorkerRows
  <1>3. \A j \in Jobs \ {k} : Exhausted(j) => Exhausted(j)'
    BY DEF Exhausted, faultVars
  <1>4. TypeOK'
    BY <1>1, <1>2, StepSets, NoneAssumption
    DEF WorkerIInv, TypeOK, At, faultVars
  <1>5. TokenDrawn' /\ WorkerOwnsItsJob' /\ OkIsPublished'
    <2>1. row.token \in 1..minted
      BY DEF WorkerIInv, TokenDrawn
    <2>2. \A v \in Claimers : worker'[v].step \in Executing => worker'[v] = row
      BY <1>1, StepSets
    <2> QED
      BY <1>2, <2>1, <2>2 DEF TokenDrawn, WorkerOwnsItsJob, OkIsPublished, Owns
  <1>6. CompletedIsPublished' /\ PublishedExists'
    BY <1>2 DEF WorkerIInv, CompletedIsPublished, PublishedExists, Exists
  <1>7. NoSecondExtraction'
    <2>1. ASSUME NEW j \in Jobs, published'[j], NEW v \in Claimers,
                 worker'[v].job = j
          PROVE  worker'[v].step \in {"start", "prepare", "finish"}
      BY <2>1, <1>1, StepSets, NoneAssumption
    <2>2. ASSUME NEW j \in Jobs, published'[j], misreads = 0
          PROVE  state[j] \notin Waiting
      BY <2>2, <1>2 DEF WorkerIInv, NoSecondExtraction, Waiting
    <2> QED
      BY <2>1, <2>2 DEF NoSecondExtraction, faultVars
  <1>8. SettledSoFar' /\ LeftoversExhausted'
    <2>1. \A v \in Claimers : worker'[v].step \in Settled \cup {"recover"} => v = w
      BY <1>1, StepSets
    <2>2. ASSUME NEW j \in Jobs, state[j] = "RUNNING", j # k
          PROVE  Exhausted(j)'
      BY <2>2, <1>3 DEF WorkerIInv, LeftoversExhausted
    <2>3. row.step # "recover"
      BY StepSets
    <2> QED
      BY <1>1, <2>1, <2>2, <2>3 DEF SettledSoFar, LeftoversExhausted, Settled, At
  <1>9. NoLitter'
    <2> SUFFICES ASSUME Clean', NEW j \in Jobs
                 PROVE  /\ staged'[j] => \E v \in Claimers :
                             worker'[v].job = j /\ worker'[v].step = "rename"
                        /\ derivative'[j] # "none" /\ ~published'[j]
                             => \E v \in Claimers :
                                  worker'[v].job = j /\ worker'[v].step = "commit"
      BY DEF NoLitter, At, faultVars
    <2>1. CASE j = k
      BY <2>1, <1>1
    <2>2. CASE j # k
      <3>1. \A v \in Claimers : worker[v].job # j
        BY <2>2, <1>1, NoneAssumption
      <3>2. Clean
        BY DEF Clean, WorkerIInv, TypeOK
      <3>3. ~staged[j] /\ ~(derivative[j] # "none" /\ ~published[j])
        BY <3>1, <3>2 DEF WorkerIInv, NoLitter
      <3> QED
        BY <2>2, <3>3
    <2> QED
      BY <2>1, <2>2
  <1> QED
    BY <1>4, <1>5, <1>6, <1>7, <1>8, <1>9 DEF WorkerIInv

LEMMA PublicationSteps ==
  ASSUME StoreIInv, WorkerIInv, NEW w \in Claimers,
         WriteStage(w) \/ RenameStage(w) \/ PlaceFails(w) \/ Commit(w) \/ CommitFails(w)
  PROVE  WorkerIInv'
  <1> DEFINE k == worker[w].job
  <1>1. /\ worker \in [Claimers -> WorkerRows]
        /\ staged \in [Jobs -> BOOLEAN] /\ derivative \in [Jobs -> Derivatives]
        /\ published \in [Jobs -> BOOLEAN]
        /\ {"none", "placed"} \subseteq Derivatives
    BY DEF WorkerIInv, TypeOK, Derivatives
  <1>2. worker[w].step \in Writing /\ worker[w].step \in Executing
    BY DEF WriteStage, RenameStage, PlaceFails, Commit, CommitFails, At,
       Writing, Executing
  <1>3. k \in Jobs /\ ~published[k] /\ ~worker[w].ok
    <2>1. k \in Jobs
      BY <1>1, <1>2, StepSets DEF WorkerIInv, TypeOK, WorkerRows
    <2>2. ~published[k]
      BY <1>2, <2>1 DEF WorkerIInv, NoSecondExtraction, Writing
    <2> QED
      BY <1>2, <2>1, <2>2 DEF WorkerIInv, OkIsPublished
  <1>4. Clean => /\ staged[k] => worker[w].step = "rename"
                 /\ derivative[k] # "none" => worker[w].step = "commit"
    <2>1. \A v \in Claimers : worker[v].job = k => v = w
      BY <1>2, <1>3, Alone, StepSets, NoneAssumption DEF WorkerIInv, At
    <2> QED
      BY <1>3, <2>1 DEF WorkerIInv, NoLitter, At
  <1>5. /\ UNCHANGED <<state, submission, attempt_count, owner_token, minted>>
        /\ UNCHANGED <<worker_lock, crashes, signals, misreads>>
        /\ Unremoved \/ UNCHANGED unremoved
    BY DEF WriteStage, RenameStage, PlaceFails, Commit, CommitFails, storeVars,
           faultVars
  <1>u. /\ unremoved \in 0..MaxUnremoved /\ crashes \in 0..MaxCrashes
        /\ MaxUnremoved \in Nat
    BY WorkerAssumption DEF WorkerIInv, TypeOK
  <1>c. /\ unremoved' \in 0..MaxUnremoved /\ unremoved' >= unremoved
        /\ Clean' => Clean
        /\ Unremoved => ~Clean'
    BY <1>5, <1>u DEF Unremoved, Clean
  <1>6. /\ "rename" \in Executing /\ "commit" \in Executing /\ "finish" \in Executing
        /\ "finish" \notin Writing
    BY DEF Executing, Writing
  <1>7. CASE WriteStage(w)
    <2> DEFINE row == [worker[w] EXCEPT !.step = "rename"]
    <2>1. /\ row \in WorkerRows /\ worker' = [worker EXCEPT ![w] = row]
          /\ row.step = "rename" /\ row.job = k /\ row.token = worker[w].token
          /\ row.ok = worker[w].ok
      BY <1>1, <1>6, <1>7 DEF WriteStage, Goto, WorkerRows, WorkerSteps
    <2>2. /\ staged' = [staged EXCEPT ![k] = TRUE]
          /\ UNCHANGED <<derivative, published>> /\ derivative[k] = "none"
      BY <1>7 DEF WriteStage
    <2> HIDE DEF row, k
    <2> QED
      BY <1>1, <1>2, <1>3, <1>5, <1>c, <1>6, <2>1, <2>2, FileStep DEF k
  <1>8. CASE RenameStage(w)
    <2> DEFINE row == [worker[w] EXCEPT !.step = "commit"]
    <2>1. /\ row \in WorkerRows /\ worker' = [worker EXCEPT ![w] = row]
          /\ row.step = "commit" /\ row.job = k /\ row.token = worker[w].token
          /\ row.ok = worker[w].ok
      BY <1>1, <1>6, <1>8 DEF RenameStage, Goto, WorkerRows, WorkerSteps
    <2>2. /\ staged' = [staged EXCEPT ![k] = FALSE]
          /\ derivative' = [derivative EXCEPT ![k] = "placed"]
          /\ UNCHANGED published
      BY <1>8 DEF RenameStage
    <2> HIDE DEF row, k
    <2> QED
      BY <1>1, <1>2, <1>3, <1>5, <1>c, <1>6, <2>1, <2>2, FileStep DEF k
  <1>9. CASE PlaceFails(w) \/ Commit(w) \/ CommitFails(w)
    <2>1. PICK ok \in BOOLEAN :
            Ended(w, ok) /\ (ok <=> Commit(w))
      BY <1>9 DEF PlaceFails, Commit, CommitFails, At
    <2> DEFINE row == [worker[w] EXCEPT !.step = "finish", !.ok = ok]
    <2>2. /\ row \in WorkerRows /\ worker' = [worker EXCEPT ![w] = row]
          /\ row.step = "finish" /\ row.job = k /\ row.token = worker[w].token
          /\ row.ok = ok
      BY <1>1, <1>6, <2>1 DEF Ended, WorkerRows, WorkerSteps
    <2>3. CASE PlaceFails(w)
      <3>1. /\ \/ staged' = [staged EXCEPT ![k] = FALSE]
               \/ ~Clean' /\ UNCHANGED staged
            /\ UNCHANGED <<derivative, published>>
            /\ worker[w].step # "commit" /\ ~ok
        BY <1>c, <2>1, <2>3 DEF PlaceFails, Commit, At
      <3> HIDE DEF row, k
      <3> QED
        BY <1>1, <1>2, <1>3, <1>4, <1>5, <1>c, <1>6, <2>2, <3>1, FileStep DEF k
    <2>4. CASE Commit(w)
      <3>1. /\ published' = [published EXCEPT ![k] = TRUE]
            /\ UNCHANGED <<staged, derivative>>
            /\ worker[w].step # "rename"
        BY <2>4 DEF Commit, At
      <3> HIDE DEF row, k
      <3> QED
        BY <1>1, <1>2, <1>3, <1>4, <1>5, <1>c, <1>6, <2>2, <3>1, FileStep DEF k
    <2>5. CASE CommitFails(w) /\ ~ok
      <3>1. /\ \/ derivative' = [derivative EXCEPT ![k] = "none"]
               \/ ~Clean' /\ UNCHANGED derivative
            /\ UNCHANGED <<staged, published>>
            /\ worker[w].step # "rename"
        BY <1>c, <2>5 DEF CommitFails, At
      <3>2. /\ Clean' => ~staged'[k] /\ derivative'[k] = "none"
            /\ derivative' \in [Jobs -> Derivatives]
            /\ \A j \in Jobs \ {k} : derivative'[j] = derivative[j]
        BY <1>1, <1>3, <1>4, <1>c, <3>1
      <3> HIDE DEF row, k
      <3> QED
        BY <1>1, <1>2, <1>3, <1>5, <1>c, <1>6, <2>2, <2>5, <3>1, <3>2, FileStep
        DEF k
    <2> QED
      BY <1>9, <2>1, <2>3, <2>4, <2>5
  <1> QED
    BY <1>7, <1>8, <1>9

LEMMA DamageStep ==
  ASSUME StoreIInv, WorkerIInv, NEW k \in Jobs, Damage(k)
  PROVE  WorkerIInv'
  <1> USE DEF Damage, storeVars, faultVars
  <1>1. \A j \in Jobs : derivative'[j] # derivative[j] => published[j]
    BY DEF WorkerIInv, TypeOK
  <1>2. TypeOK'
    BY DEF WorkerIInv, TypeOK, Derivatives, At
  <1>3. TokenDrawn' /\ WorkerOwnsItsJob' /\ OkIsPublished' /\ CompletedIsPublished'
    BY DEF WorkerIInv, TokenDrawn, WorkerOwnsItsJob, Owns, OkIsPublished,
       CompletedIsPublished
  <1>4. PublishedExists' /\ NoSecondExtraction'
    BY DEF WorkerIInv, PublishedExists, Exists, NoSecondExtraction
  <1>5. SettledSoFar' /\ LeftoversExhausted'
    BY DEF WorkerIInv, SettledSoFar, LeftoversExhausted, Exhausted, At
  <1>6. NoLitter'
    BY <1>1 DEF WorkerIInv, NoLitter, At, Clean
  <1> QED
    BY <1>2, <1>3, <1>4, <1>5, <1>6 DEF WorkerIInv

-----------------------------------------------------------------------------
(* The steps that change the row of one job k: recovery settles it, the    *)
(* worker claims it or records its end.                                    *)
ChangesRow(w, row, k) ==
  /\ worker[w].step \notin {"off", "rename", "commit"}
  /\ worker' = [worker EXCEPT ![w] = row]
  /\ row.step \notin Writing /\ row.step # "off"
  /\ (row.job # None) <=> row.step \in Executing
  /\ \A j \in Jobs \ {k} : /\ state'[j] = state[j]
                            /\ attempt_count'[j] = attempt_count[j]
  /\ UNCHANGED <<submission, fileVars, crashes, signals, unremoved,
                  worker_lock>>
  /\ misreads' \in 0..MaxMisreads /\ misreads' >= misreads
  /\ row.step \in Executing =>
       /\ row.token \in 1..minted'
       /\ state'[row.job] = "RUNNING" /\ owner_token'[row.job] = row.token
       /\ row.ok => published[row.job]
  /\ state'[k] = "COMPLETED" => published[k]
  /\ published[k] => state'[k] # "ABSENT"
  /\ published[k] /\ misreads' = 0 => state'[k] \notin Waiting
  /\ row.step = "recover" =>
       worker[w].step = "recover" /\ worker[w].todo \ {k} \subseteq row.todo
  /\ row.step \in Settled =>
       worker[w].step \in Settled /\ worker[w].job \in {None, k}
  /\ state'[k] = "RUNNING" /\ row.job # k =>
       /\ attempt_count'[k] = submission[k].maxAttempts
       /\ published[k] => misreads' > 0

LEMMA RowStep ==
  ASSUME StoreIInv, WorkerIInv, NEW w \in Claimers, NEW row \in WorkerRows,
         NEW k \in Jobs, ChangesRow(w, row, k)
  PROVE  WorkerIInv'
  <1> USE DEF fileVars, ChangesRow
  <1>1. /\ \A v \in Claimers \ {w} :
             worker'[v] = worker[v] /\ worker[v].step = "off" /\ worker[v].job = None
        /\ worker_lock = w
        /\ worker'[w] = row /\ worker' \in [Claimers -> WorkerRows]
    BY Alone DEF WorkerIInv, TypeOK, At
  <1>2. misreads \in Nat /\ misreads' \in Nat
    BY WorkerAssumption DEF WorkerIInv, TypeOK
  <1>3. ASSUME NEW j \in Jobs \ {k}, Exhausted(j)
        PROVE  Exhausted(j)'
    BY <1>2, <1>3 DEF Exhausted
  <1>a. state'[k] = "RUNNING" /\ row.job # k => Exhausted(k)'
    BY DEF Exhausted
  <1>4. TypeOK'
    BY <1>1 DEF WorkerIInv, TypeOK, At
  <1>5. TokenDrawn' /\ WorkerOwnsItsJob' /\ OkIsPublished'
    <2>1. \A v \in Claimers : worker'[v].step \in Executing => worker'[v] = row
      BY <1>1, StepSets
    <2> QED
      BY <2>1 DEF TokenDrawn, WorkerOwnsItsJob, OkIsPublished, Owns
  <1>6. CompletedIsPublished' /\ PublishedExists'
    BY DEF WorkerIInv, CompletedIsPublished, PublishedExists, Exists
  <1>7. NoSecondExtraction'
    <2>1. ASSUME NEW j \in Jobs, published'[j], NEW v \in Claimers,
                 worker'[v].job = j
          PROVE  worker'[v].step \in {"start", "prepare", "finish"}
      <3>1. j # None
        BY NoneAssumption
      <3> QED
        BY <2>1, <3>1, <1>1, StepSets
    <2>2. ASSUME NEW j \in Jobs, published'[j], misreads' = 0
          PROVE  state'[j] \notin Waiting
      <3>1. misreads = 0
        BY <1>2, <2>2
      <3> QED
        BY <2>2, <3>1 DEF WorkerIInv, NoSecondExtraction
    <2> QED
      BY <2>1, <2>2 DEF NoSecondExtraction
  <1>8. SettledSoFar'
    <2> SUFFICES ASSUME NEW j \in Jobs, row.step = "recover",
                        state'[j] = "RUNNING", j \notin row.todo
                 PROVE  Exhausted(j)'
      BY <1>1 DEF SettledSoFar, At
    <2>1. CASE j = k
      <3>1. row.job = None
        BY StepSets
      <3> QED
        BY <2>1, <3>1, <1>a, NoneAssumption
    <2>2. CASE j # k
      BY <2>2, <1>3 DEF WorkerIInv, SettledSoFar, At
    <2> QED
      BY <2>1, <2>2
  <1>9. LeftoversExhausted'
    <2> SUFFICES ASSUME NEW j \in Jobs, row.step \in Settled,
                        state'[j] = "RUNNING", row.job # j
                 PROVE  Exhausted(j)'
      <3>1. \A v \in Claimers : worker'[v].step \in Settled => worker'[v] = row
        BY <1>1, StepSets
      <3> QED
        BY <3>1 DEF LeftoversExhausted, Settled
    <2>1. CASE j = k
      BY <2>1, <1>a
    <2>2. CASE j # k
      <3>1. worker[w].job # j
        BY <2>2, NoneAssumption
      <3> QED
        BY <2>2, <3>1, <1>3 DEF WorkerIInv, LeftoversExhausted, Settled
    <2> QED
      BY <2>1, <2>2
  <1>10. NoLitter'
    <2>1. \A v \in Claimers : worker[v].step \notin {"rename", "commit"}
      BY <1>1
    <2> QED
      BY <2>1 DEF WorkerIInv, NoLitter, At, Clean
  <1> QED
    BY <1>4, <1>5, <1>6, <1>7, <1>8, <1>9, <1>10 DEF WorkerIInv

(* What recovery does to a job of its list.                                *)
LEMMA RecoverJobStep ==
  ASSUME StoreIInv, WorkerIInv, NEW w \in Claimers, RecoverJob(w)
  PROVE  WorkerIInv'
  <1>1. /\ worker \in [Claimers -> WorkerRows] /\ misreads \in 0..MaxMisreads
        /\ published \in [Jobs -> BOOLEAN]
        /\ state \in [Jobs -> JobStates] /\ MaxMisreads \in Nat
    BY WorkerAssumption DEF WorkerIInv, TypeOK, StoreIInv, StoreTypeOK
  <1>2. worker[w].step = "recover" /\ worker[w].todo \in SUBSET Jobs
    BY <1>1 DEF RecoverJob, At, WorkerRows
  <1>3. PICK k \in worker[w].todo :
          /\ \/ Recover(w, k, published[k]) /\ UNCHANGED misreads
             \/ Misread(k) /\ Recover(w, k, FALSE)
          /\ worker' = [worker EXCEPT ![w].todo = @ \ {k}]
    BY DEF RecoverJob
  <1>4. k \in Jobs
    BY <1>2
  <1>5. PICK seen \in BOOLEAN :
          /\ Recover(w, k, seen)
          /\ misreads' \in 0..MaxMisreads /\ misreads' >= misreads
          /\ seen => published[k]
          /\ published[k] /\ ~seen => misreads' > 0
    <2>1. CASE Recover(w, k, published[k]) /\ UNCHANGED misreads
      <3>1. published[k] \in BOOLEAN
        BY <1>1, <1>4
      <3> QED
        BY <1>1, <2>1, <3>1
    <2>2. CASE Misread(k) /\ Recover(w, k, FALSE)
      <3>1. misreads' \in 0..MaxMisreads /\ misreads' >= misreads /\ misreads' > 0
        BY <1>1, <2>2 DEF Misread
      <3> QED
        BY <2>2, <3>1
    <2> QED
      BY <1>3, <2>1, <2>2
  <1> DEFINE row == [worker[w] EXCEPT !.todo = worker[w].todo \ {k}]
  <1>6. /\ row \in WorkerRows /\ worker' = [worker EXCEPT ![w] = row]
        /\ row.step = "recover" /\ row.job = worker[w].job
        /\ row.todo = worker[w].todo \ {k}
    BY <1>1, <1>2, <1>3 DEF WorkerRows
  <1>7. "recover" \notin Executing /\ "recover" \notin Writing
    BY StepSets DEF Writing
  <1>8. row.job = None
    BY <1>2, <1>6, <1>7 DEF WorkerIInv, TypeOK
  <1>9. UNCHANGED <<submission, attempt_count, fileVars, crashes, signals,
                    unremoved, worker_lock>>
    BY <1>5 DEF Recover, RecoverJob, ReconcileInterrupted, RequeueInterrupted,
       storeVars
  <1>10. /\ \A j \in Jobs \ {k} : state'[j] = state[j]
         /\ state'[k] = "COMPLETED" => published[k]
         /\ published[k] => state'[k] # "ABSENT"
         /\ state'[k] \in Waiting => ~seen
         /\ state'[k] = "RUNNING" =>
              /\ attempt_count'[k] = submission[k].maxAttempts
              /\ published[k] => misreads' > 0
    <2>1. ASSUME NEW to \in Reconcilable, ReconcileInterrupted(k, to),
                 to = "COMPLETED" => published[k]
          PROVE  /\ \A j \in Jobs \ {k} : state'[j] = state[j]
                 /\ state'[k] = "COMPLETED" => published[k]
                 /\ state'[k] \notin Waiting \cup {"ABSENT", "RUNNING"}
      BY <1>1, <1>4, <2>1
      DEF ReconcileInterrupted, EndRow, Reconcilable, Final, Waiting
    <2>2. CASE RequeueInterrupted(k) /\ ~seen
      BY <1>1, <1>4, <2>2 DEF RequeueInterrupted, EndRow
    <2>3. CASE /\ UNCHANGED storeVars /\ ~seen
               /\ attempt_count[k] = submission[k].maxAttempts
      BY <1>4, <1>5, <1>9, <2>3
      DEF storeVars, WorkerIInv, CompletedIsPublished, PublishedExists, Exists
    <2>4. {"COMPLETED", "RECOVERY_REQUIRED", "CANCELLED"} \subseteq Reconcilable
      BY DEF Reconcilable, Final
    <2> QED
      BY <1>5, <2>1, <2>2, <2>3, <2>4 DEF Recover
  <1>11. published[k] /\ misreads' = 0 => state'[k] \notin Waiting
    BY <1>5, <1>10
  <1> HIDE DEF row
  <1>12. /\ worker[w].step \notin {"off", "rename", "commit"}
         /\ row.step # "off" /\ row.step \notin Executing /\ row.step \notin Writing
         /\ row.step \notin Settled
         /\ worker[w].todo \ {k} \subseteq row.todo
         /\ misreads' \in 0..MaxMisreads /\ misreads' >= misreads
    BY <1>2, <1>5, <1>6, <1>7, StepSets
  <1>13. ChangesRow(w, row, k)
    BY <1>2, <1>6, <1>8, <1>9, <1>10, <1>11, <1>12 DEF ChangesRow
  <1> QED
    BY <1>4, <1>6, <1>13, RowStep

LEMMA TakeJobStep ==
  ASSUME StoreIInv, WorkerIInv, NEW w \in Claimers, TakeJob(w)
  PROVE  WorkerIInv'
  <1>1. /\ worker \in [Claimers -> WorkerRows] /\ misreads \in 0..MaxMisreads
        /\ state \in [Jobs -> JobStates] /\ MaxMisreads \in Nat /\ minted \in Nat
        /\ attempt_count \in [Jobs -> 0..MaxRank]
        /\ owner_token \in [Jobs -> Nat \cup {None}]
    BY WorkerAssumption DEF WorkerIInv, TypeOK, StoreIInv, StoreTypeOK
  <1>2. PICK k \in Jobs :
          /\ ClaimJob(w, k)
          /\ worker' = [worker EXCEPT
               ![w].step = "start", ![w].job = k, ![w].token = FreshToken(k),
               ![w].expired = FALSE, ![w].ok = FALSE]
    BY DEF TakeJob
  <1> DEFINE row == [worker[w] EXCEPT !.step = "start", !.job = k,
                       !.token = minted + 1, !.expired = FALSE, !.ok = FALSE]
  <1>3. /\ row \in WorkerRows /\ worker' = [worker EXCEPT ![w] = row]
        /\ row.step = "start" /\ row.job = k /\ row.token = minted + 1
        /\ row.ok = FALSE
    <2>1. /\ "start" \in WorkerSteps /\ minted + 1 \in Nat
          /\ worker[w] \in WorkerRows
      BY <1>1 DEF WorkerSteps, Executing
    <2>2. row \in WorkerRows
      BY <2>1 DEF WorkerRows
    <2>3. /\ row.step = "start" /\ row.job = k /\ row.token = minted + 1
          /\ row.ok = FALSE
      BY <2>1 DEF WorkerRows
    <2> QED
      BY <1>2, <2>2, <2>3 DEF FreshToken
  <1>4. worker[w].step = "claim" /\ worker[w].job = None
    BY StepSets DEF TakeJob, At, WorkerIInv, TypeOK
  <1>5. /\ \A j \in Jobs \ {k} : /\ state'[j] = state[j]
                                 /\ attempt_count'[j] = attempt_count[j]
        /\ state'[k] = "RUNNING" /\ owner_token'[k] = minted + 1
        /\ minted' = minted + 1
        /\ UNCHANGED <<submission, fileVars, crashes, signals, misreads,
                        unremoved, worker_lock>>
    BY <1>1, <1>2 DEF TakeJob, ClaimJob, FreshToken, faultVars
  <1>6. /\ "start" \in Executing /\ "start" \notin Writing /\ "claim" \in Settled
        /\ "RUNNING" \notin Waiting
    BY DEF Executing, Writing, Settled, Waiting
  <1>7. minted + 1 \in 1..minted' /\ misreads' \in 0..MaxMisreads /\ misreads' >= misreads
    BY <1>1, <1>5
  <1>8. state'[row.job] = "RUNNING" /\ owner_token'[row.job] = row.token
    BY <1>3, <1>5
  <1> HIDE DEF row
  <1>9. /\ worker[w].step \notin {"off", "rename", "commit"}
        /\ row.step # "off" /\ row.step # "recover" /\ row.step \in Executing
        /\ row.step \notin Writing /\ row.job # None /\ row.job = k /\ ~row.ok
        /\ row.token \in 1..minted'
        /\ worker[w].step \in Settled /\ worker[w].job = None
        /\ state'[k] \notin Waiting \cup {"ABSENT", "COMPLETED"}
    BY <1>3, <1>4, <1>5, <1>6, <1>7, NoneAssumption
  <1>10. ChangesRow(w, row, k)
    BY <1>3, <1>5, <1>7, <1>8, <1>9 DEF ChangesRow
  <1> QED
    BY <1>3, <1>10, RowStep

LEMMA RecordStep ==
  ASSUME StoreIInv, WorkerIInv, NEW w \in Claimers, Record(w)
  PROVE  WorkerIInv'
  <1> DEFINE k == worker[w].job
             to == Verdict(w)
             row == [worker[w] EXCEPT !.step = "ask", !.job = None]
  <1>1. /\ worker \in [Claimers -> WorkerRows] /\ misreads \in 0..MaxMisreads
        /\ state \in [Jobs -> JobStates] /\ MaxMisreads \in Nat
    BY WorkerAssumption DEF WorkerIInv, TypeOK, StoreIInv, StoreTypeOK
  <1>2. worker[w].step = "finish" /\ "finish" \in Executing
    BY DEF Record, At, Executing
  <1>3. k \in Jobs
    BY <1>1, <1>2 DEF WorkerIInv, TypeOK, WorkerRows
  <1>4. /\ row \in WorkerRows /\ worker' = [worker EXCEPT ![w] = row]
        /\ row.step = "ask" /\ row.job = None
    BY <1>1 DEF Record, WorkerRows, WorkerSteps
  <1>5. /\ to \in {"CANCELLED", "BLOCKED", "COMPLETED", "FAILED"}
        /\ to = "COMPLETED" => published[k]
    BY <1>2 DEF Verdict, WorkerIInv, OkIsPublished
  <1> HIDE DEF k, to, row
  <1>6. /\ state' = [state EXCEPT ![k] = to]
        /\ UNCHANGED <<submission, attempt_count, fileVars, crashes, signals,
                       misreads, unremoved, worker_lock>>
    BY DEF Record, Finish, EndRow, faultVars, k, to
  <1>7. /\ \A j \in Jobs \ {k} : /\ state'[j] = state[j]
                                 /\ attempt_count'[j] = attempt_count[j]
        /\ state'[k] = to
        /\ misreads' \in 0..MaxMisreads /\ misreads' >= misreads
    BY <1>1, <1>3, <1>6
  <1>8. to \notin Waiting \cup {"ABSENT", "RUNNING"}
    BY <1>5 DEF Waiting
  <1>9. /\ "ask" \notin Executing /\ "ask" \notin Writing
        /\ worker[w].step \in Settled /\ worker[w].job = k
    BY <1>2, StepSets DEF Settled, Writing, k
  <1>10. /\ worker[w].step \notin {"off", "rename", "commit"}
         /\ row.step # "off" /\ row.step # "recover" /\ row.step \notin Executing
         /\ row.step \notin Writing /\ row.job = None
         /\ state'[k] = "COMPLETED" => published[k]
         /\ state'[k] \notin Waiting \cup {"ABSENT", "RUNNING"}
    BY <1>2, <1>4, <1>5, <1>7, <1>8, <1>9
  <1>11. ChangesRow(w, row, k)
    BY <1>4, <1>6, <1>7, <1>9, <1>10 DEF ChangesRow
  <1>12. \A i \in Jobs : ChangesRow(w, row, i) => WorkerIInv'
    BY <1>4, RowStep
  <1> QED
    BY <1>3, <1>11, <1>12

-----------------------------------------------------------------------------
(* Submitters, cancellers and controllers leave RUNNING rows as they are   *)
(* and complete nothing; the rows they add are new.                        *)
OthersKeep ==
  /\ UNCHANGED <<attempt_count, owner_token, minted>>
  /\ \A j \in Jobs :
       /\ (state'[j] = "RUNNING") <=> (state[j] = "RUNNING")
       /\ Exists(j) => state'[j] # "ABSENT" /\ submission'[j] = submission[j]
       /\ state'[j] = "COMPLETED" => state[j] = "COMPLETED"
       /\ state'[j] \in Waiting => state[j] \in Waiting \/ ~Exists(j)

LEMMA InsertKeeps ==
  ASSUME StoreIInv, NEW S \in SUBSET Submissions, \A s \in S : ~RowConflict(s),
         InsertRows(S), UNCHANGED minted
  PROVE  OthersKeep
  <1>1. \A j \in JobsOf(S) : ~Exists(j)
    BY FreshRows
  <1> QED
    BY <1>1 DEF InsertRows, OthersKeep, Exists, Waiting

LEMMA OthersKeepRows ==
  ASSUME StoreIInv, Others
  PROVE  OthersKeep
  <1>1. CASE UNCHANGED <<state, submission, attempt_count, owner_token, minted>>
    BY <1>1 DEF OthersKeep, Exists
  <1>2. CASE \E c \in Submitters : Submit(c)
    <2>1. PICK c \in Submitters : Submit(c)
      BY <1>2
    <2>2. CASE EnqueueInsert(c)
      <3>1. call[c].arg \in Submissions /\ UNCHANGED minted
        BY <2>2 DEF EnqueueInsert, StoreIInv, CallsConsistent, Callers
      <3> QED
        BY <2>2, <3>1, <1>1, InsertKeeps DEF EnqueueInsert, rowVars
    <2>3. CASE \E a \in Admissions : AdmitPlan(c, a)
      BY <2>3, <1>1, InsertKeeps, AdmissionFields
      DEF AdmitPlan, AllInsertable, rowVars
    <2>4. CASE \E s \in Submissions : EnqueueLookup(c, s)
      BY <2>4, <1>1 DEF EnqueueLookup, rowVars
    <2> QED
      BY <2>1, <2>2, <2>3, <2>4 DEF Submit
  <1>3. CASE \E c \in Cancellers : Cancel(c)
    <2>1. PICK c \in Cancellers : Cancel(c)
      BY <1>3
    <2>2. CASE CancelUpdate(c)
      <3> DEFINE k == call[c].arg
      <3>1. k \in Jobs /\ Exists(k) /\ state \in [Jobs -> JobStates]
        BY <2>2 DEF CancelUpdate, StoreIInv, StoreTypeOK, CallsConsistent, Callers
      <3>2. \/ UNCHANGED state
            \/ state' = [state EXCEPT ![k] = CancelledState(state[k])]
        BY <2>2 DEF CancelUpdate
      <3>3. CancelledState(state[k]) \in {state[k], "CANCELLED"}
        BY DEF CancelledState
      <3>4. CancelledState(state[k]) = "CANCELLED" => state[k] # "RUNNING"
        BY DEF CancelledState, Waiting
      <3>5. UNCHANGED <<submission, attempt_count, owner_token, minted>>
        BY <2>2 DEF CancelUpdate
      <3> HIDE DEF k
      <3> QED
        BY <3>1, <3>2, <3>3, <3>4, <3>5 DEF OthersKeep, Exists, Waiting
    <2>3. CASE CancelLog(c) \/ \E j \in Jobs : CancelRead(c, j)
      BY <2>3, <1>1 DEF CancelLog, CancelRead, rowVars
    <2> QED
      BY <2>1, <2>2, <2>3 DEF Cancel
  <1>4. CASE \E c \in Controllers : Control(c)
    BY <1>4, <1>1 DEF Control, Pause, RequestStop, ResumePaused, ResumeStopped,
       rowVars
  <1> QED
    BY <1>2, <1>3, <1>4 DEF Others

LEMMA OthersStep ==
  ASSUME StoreIInv, WorkerIInv, Others
  PROVE  WorkerIInv'
  <1>1. OthersKeep
    BY OthersKeepRows
  <1>2. UNCHANGED workerVars
    BY DEF Others
  <1> USE DEF OthersKeep, workerVars, fileVars, faultVars
  <1>3. \A j \in Jobs : state[j] = "RUNNING" /\ Exhausted(j) => Exhausted(j)'
    BY <1>1, <1>2 DEF Exhausted, Exists
  <1>4. TypeOK' /\ TokenDrawn' /\ OkIsPublished'
    BY <1>1, <1>2 DEF WorkerIInv, TypeOK, TokenDrawn, OkIsPublished, At
  <1>5. WorkerOwnsItsJob'
    <2>1. \A w \in Claimers : worker[w].step \in Executing => worker[w].job \in Jobs
      BY StepSets DEF WorkerIInv, TypeOK, WorkerRows
    <2> QED
      BY <1>1, <1>2, <2>1 DEF WorkerIInv, WorkerOwnsItsJob, Owns
  <1>6. CompletedIsPublished' /\ PublishedExists'
    BY <1>1, <1>2 DEF WorkerIInv, CompletedIsPublished, PublishedExists, Exists
  <1>7. NoSecondExtraction'
    BY <1>1, <1>2 DEF WorkerIInv, NoSecondExtraction, PublishedExists
  <1>8. SettledSoFar' /\ LeftoversExhausted'
    BY <1>1, <1>2, <1>3 DEF WorkerIInv, SettledSoFar, LeftoversExhausted, At
  <1>9. NoLitter'
    BY <1>2 DEF WorkerIInv, NoLitter, At, Clean
  <1> QED
    BY <1>4, <1>5, <1>6, <1>7, <1>8, <1>9 DEF WorkerIInv

-----------------------------------------------------------------------------
(* Whatever a worker does to the store is an operation of the store.       *)
LEMMA StepOfStore ==
  ASSUME StoreIInv, WorkerIInv, [Next]_vars
  PROVE  [StoreNext]_storeVars
  <1>1. CASE UNCHANGED storeVars
    BY <1>1
  <1>2. ASSUME NEW w \in Claimers, Start(w) \/ Work(w) \/ Expire(w) \/ Signal(w) \/ Crash(w)
        PROVE  [StoreNext]_storeVars
    <2>1. CASE AskNext(w)
      BY <2>1 DEF AskNext, StoreNext, Claim
    <2>2. CASE TakeJob(w)
      BY <2>2 DEF TakeJob, StoreNext, Claim
    <2>3. CASE LeaveEmpty(w)
      BY <2>3 DEF LeaveEmpty, StoreNext, Claim
    <2>4. CASE RecoverJob(w)
      <3>1. worker[w].todo \in SUBSET Jobs
        BY DEF WorkerIInv, TypeOK, WorkerRows
      <3>2. PICK k \in worker[w].todo :
              Recover(w, k, published[k]) \/ Recover(w, k, FALSE)
        BY <2>4 DEF RecoverJob
      <3>3. {"COMPLETED", "RECOVERY_REQUIRED", "CANCELLED"} \subseteq Reconcilable
        BY DEF Reconcilable, Final
      <3>4. EndAttempt(k) \/ UNCHANGED storeVars
        BY <3>2, <3>3 DEF Recover, EndAttempt
      <3> QED
        BY <3>1, <3>2, <3>4 DEF StoreNext
    <2>5. CASE Record(w)
      <3>1. PICK ms \in 1..Quantum :
              Finish(worker[w].token, worker[w].job, Verdict(w), ms)
        BY <2>5 DEF Record
      <3>2. worker[w].step \in Executing
        BY <2>5 DEF Record, At, Executing
      <3>3. worker[w].token \in 1..minted /\ worker[w].job \in Jobs
        BY <3>2 DEF WorkerIInv, TokenDrawn, TypeOK, WorkerRows
      <3>4. Verdict(w) \in Finishable
        BY DEF Verdict, Finishable, Final
      <3> QED
        BY <3>1, <3>3, <3>4 DEF StoreNext, EndAttempt
    <2>6. CASE Crash(w)
      BY <2>6 DEF Crash, StoreNext, Callers
    <2>7. CASE \/ Start(w) \/ Expire(w) \/ Signal(w)
               \/ ListJobs(w) \/ Recovered(w) \/ LeaveAsked(w)
               \/ StartJob(w) \/ PrepareEnds(w) \/ PrepareDone(w)
               \/ WriteStage(w) \/ RenameStage(w) \/ PlaceFails(w)
               \/ Commit(w) \/ CommitFails(w)
      BY <2>7, <1>1
      DEF Start, Expire, Signal, ListJobs, Recovered, LeaveAsked, StartJob,
          PrepareEnds, PrepareDone, WriteStage, RenameStage, PlaceFails, Commit,
          CommitFails
    <2> QED
      BY <1>2, <2>1, <2>2, <2>3, <2>4, <2>5, <2>6, <2>7 DEF Work
  <1>3. CASE \E j \in Jobs : Damage(j)
    BY <1>3, <1>1 DEF Damage
  <1>4. CASE Others
    BY <1>4 DEF Others, StoreNext
  <1>5. CASE UNCHANGED vars
    BY <1>5, <1>1 DEF vars
  <1> QED
    BY <1>2, <1>3, <1>4, <1>5 DEF Next

LEMMA StutterKeeps ==
  ASSUME WorkerIInv, UNCHANGED vars
  PROVE  WorkerIInv'
  <1> USE DEF vars, storeVars, workerVars, fileVars, faultVars
  <1>1. TypeOK' /\ TokenDrawn' /\ WorkerOwnsItsJob' /\ OkIsPublished'
    BY DEF WorkerIInv, TypeOK, TokenDrawn, WorkerOwnsItsJob, Owns,
       OkIsPublished, At
  <1>2. CompletedIsPublished' /\ PublishedExists' /\ NoSecondExtraction' /\ NoLitter'
    BY DEF WorkerIInv, CompletedIsPublished, PublishedExists, Exists,
       NoSecondExtraction, NoLitter, Clean, At
  <1>3. SettledSoFar' /\ LeftoversExhausted'
    BY DEF WorkerIInv, SettledSoFar, LeftoversExhausted, Exhausted, At
  <1> QED
    BY <1>1, <1>2, <1>3 DEF WorkerIInv

LEMMA WorkerNext == StoreIInv /\ WorkerIInv /\ [Next]_vars => WorkerIInv'
  <1> SUFFICES ASSUME StoreIInv, WorkerIInv, [Next]_vars PROVE WorkerIInv'
    OBVIOUS
  <1>1. ASSUME NEW w \in Claimers, Start(w) \/ Work(w) \/ Expire(w) \/ Signal(w) \/ Crash(w)
        PROVE  WorkerIInv'
    BY <1>1, StartStep, RecoverySteps, RecoverJobStep, TakeJobStep, QuitSteps,
       ExecutionSteps, PublicationSteps, RecordStep DEF Work
  <1> QED
    BY <1>1, DamageStep, OthersStep, StutterKeeps DEF Next

LEMMA WorkerStarts == Init => StoreIInv /\ WorkerIInv
  <1> SUFFICES ASSUME Init PROVE StoreIInv /\ WorkerIInv
    OBVIOUS
  <1> USE DEF Init, WorkerInit
  <1>1. StoreIInv
    BY InitInvariant
  <1>2. \A w \in Claimers : worker[w].step = "off" /\ worker[w].job = None
    BY OffRow
  <1>3. \A j \in Jobs : state[j] = "ABSENT"
    BY DEF StoreInit
  <1>4. TypeOK
    BY <1>2, OffRow, StepSets, WorkerAssumption DEF TypeOK, Derivatives, At
  <1>5. TokenDrawn /\ WorkerOwnsItsJob /\ OkIsPublished
    BY <1>2, StepSets DEF TokenDrawn, WorkerOwnsItsJob, OkIsPublished
  <1>6. CompletedIsPublished /\ PublishedExists /\ NoSecondExtraction /\ NoLitter
    BY <1>3 DEF CompletedIsPublished, PublishedExists, NoSecondExtraction, NoLitter
  <1>7. SettledSoFar /\ LeftoversExhausted
    BY <1>3 DEF SettledSoFar, LeftoversExhausted
  <1> QED
    BY <1>1, <1>4, <1>5, <1>6, <1>7 DEF WorkerIInv

-----------------------------------------------------------------------------
(* In every reachable state of the workers and the store (run_worker with  *)
(* the callers of local_job_store.c), both inductive invariants hold: in   *)
(* particular what the workers do keeps the job store consistent.          *)
THEOREM WorkerInvariant == Spec => [](StoreIInv /\ WorkerIInv)
  <1>1. StoreIInv /\ WorkerIInv /\ [Next]_vars => (StoreIInv /\ WorkerIInv)'
    BY WorkerNext, StepOfStore, NextInvariant
  <1> QED
    BY <1>1, WorkerStarts, PTL DEF Spec

(* The worker processes implement the store's specification: every store   *)
(* theorem holds of the running workers too.                               *)
THEOREM WorkerIsStore == Spec => StoreSpec
  <1>1. Init => StoreInit
    BY DEF Init
  <1>2. StoreIInv /\ WorkerIInv /\ [Next]_vars => [StoreNext]_storeVars
    BY StepOfStore
  <1> QED
    BY <1>1, <1>2, WorkerInvariant, PTL DEF Spec, StoreSpec

(* The lock leaves one worker at a time, and a worker that executes a job  *)
(* owns it until it records the end (worker_lock, run_worker).             *)
THEOREM WorkerKeepsItsJob == Spec => [](TypeOK /\ WorkerOwnsItsJob)
  <1>1. WorkerIInv => TypeOK /\ WorkerOwnsItsJob
    BY DEF WorkerIInv
  <1> QED
    BY <1>1, WorkerInvariant, PTL

(* COMPLETED means that the extraction is committed, however often the     *)
(* worker was killed on the way.                                           *)
THEOREM CompletedMeansPublished == Spec => []CompletedIsPublished
  <1>1. WorkerIInv => CompletedIsPublished
    BY DEF WorkerIInv
  <1> QED
    BY <1>1, WorkerInvariant, PTL

(* A job with an extraction is never extracted a second time, even when    *)
(* recovery failed to read that it has one.                                *)
THEOREM PublishedOnce == Spec => []NoSecondExtraction
  <1>1. WorkerIInv => NoSecondExtraction
    BY DEF WorkerIInv
  <1> QED
    BY <1>1, WorkerInvariant, PTL

(* What recovery leaves RUNNING had no attempt left.                       *)
THEOREM RecoveryIsComplete == Spec => []LeftoversExhausted
  <1>1. WorkerIInv => LeftoversExhausted
    BY DEF WorkerIInv
  <1> QED
    BY <1>1, WorkerInvariant, PTL

(* Failures and cancellations leave no file behind.                        *)
THEOREM FailuresCleanUp == Spec => []NoLitter
  <1>1. WorkerIInv => NoLitter
    BY DEF WorkerIInv
  <1> QED
    BY <1>1, WorkerInvariant, PTL

=============================================================================
