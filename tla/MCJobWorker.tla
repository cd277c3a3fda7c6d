----------------------------- MODULE MCJobWorker ----------------------------
(* JobWorker with an e-mail job that may be tried again and an ExifTool    *)
(* job that may not. Up to two worker processes are interchangeable.       *)
EXTENDS JobWorker, TLC

CONSTANTS submit, cancel, w1, w2, j1, j2, email, photo

MCSubmitters == {submit}
MCCancellers == {cancel}
MCClaimers   == {w1, w2}
MCJobs       == {j1, j2}
MCAnalyses   == {email, photo}
MCEmlJobs    == {j1}

Asked(j, an, attempts, order) ==
  [job |-> j, analysis |-> an, maxAttempts |-> attempts, dep |-> None,
   order |-> order, bytes |-> 1]

WorkerSymmetry == Permutations(MCClaimers)

(* Two of a crash, a signal and a removal that fails.                       *)
MaxMishaps == 2
MishapSpec ==
  Init /\ [][Next /\ crashes' + signals' + unremoved' <= MaxMishaps]_vars

MCSubmissions ==
  {Asked(j1, email, MaxRank, 1), Asked(j2, photo, 1, 2)}
=============================================================================
