----------------------------- MODULE MCJobStore ------------------------------
(* JobStore in two situations, told apart by "scope".                      *)
(*   "plan": one two-job plan whose claims, refunds, interruptions and     *)
(*     cancellations share a budget.  Three attempts and three units of    *)
(*     active time are admitted and a claim asks for two units: the last   *)
(*     claim gets a clipped reservation and the plan runs out of both.     *)
(*   "queue": stand-alone jobs submitted by two processes under the        *)
(*     controls; j2 asks for the analysis of j1 under another key, and j3  *)
(*     depends on j1.                                                      *)
EXTENDS JobStore

VARIABLE scope

CONSTANTS submit1, submit2, work, cancel, control,
          j1, j2, j3, email, photo, p1

MCSubmitters  == {submit1, submit2}
MCClaimers    == {work}
MCCancellers  == {cancel}
MCControllers == {control}
MCJobs        == {j1, j2, j3}
MCAnalyses    == {email, photo}
MCPlans       == {p1}

Asked(j, an, max, dep, order) ==
  [job |-> j, analysis |-> an, maxAttempts |-> max, dep |-> dep,
   order |-> order, bytes |-> 1]

Planned == {Asked(j1, email, 2, None, 1), Asked(j2, photo, 1, None, 2)}
Single  == {Asked(j1, email, 1, None, 2), Asked(j2, email, 1, None, 3),
            Asked(j3, photo, 1, j1, 1)}

MCSubmissions == Planned \cup Single
MCAdmissions ==
  {[plan |-> p1, subs |-> Planned, maxAnalyses |-> 2,
    maxAttempts |-> 3, maxBytes |-> 2, maxMs |-> 3]}

Concerned == IF scope = "plan" THEN {submit1, work, cancel}
                               ELSE {submit1, submit2, work, control}
Submitted == IF scope = "plan" THEN Planned ELSE Single

(* The calls of one situation only; stand-alone jobs run for one unit.     *)
Within ==
  /\ \A c \in Callers \ Concerned : call'[c] = call[c]
  /\ \A c \in Callers : call'[c].arg \in Submitted \cup {s.job : s \in Submitted} \cup {None}
  /\ \A j \in Jobs : submission'[j] \in Submitted \cup {None}
  /\ IF scope = "plan"
     THEN paused' = paused /\ stop_requested' = stop_requested
     ELSE /\ admission' = admission
          /\ \A j \in Jobs : attempt'[j][1].elapsed < Quantum

MCInit == StoreInit /\ scope \in {"plan", "queue"}
MCNext == StoreNext /\ storeVars' # storeVars /\ Within /\ UNCHANGED scope
MCSpec == MCInit /\ [][MCNext]_<<storeVars, scope>>
=============================================================================
