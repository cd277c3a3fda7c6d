------------------------------ MODULE MCRecovers ----------------------------
(* What must end, one at a time ("scope").                                 *)
(*   "job": the worker of MCJobWorker with one job, which somebody may     *)
(*     cancel, in a queue somebody may hold.                               *)
(*   "pair": with two jobs and nobody else: submitted apart, the second    *)
(*     behind the first or not, or together as a plan whose active time is *)
(*     enough for two attempts, one of which may be interrupted.           *)
(*   "run": ToolRun with a tool and one descendant, two streams of which a *)
(*     byte is kept and two may be written.                                *)
EXTENDS MCJobWorker, ToolRun

VARIABLE scope

CONSTANTS tool, d1, out, err, pack

MCStreams == {out, err}

Behind == [Asked(j2, photo, 1, 2) EXCEPT !.dep = j1]
MCRequests == MCSubmissions \cup {Behind}

MCAdmissions ==
  {[plan |-> pack, subs |-> MCSubmissions, maxAnalyses |-> 2,
    maxAttempts |-> MaxRank + 1, maxBytes |-> 2, maxMs |-> 2 * Quantum]}

Alone == ~Exists(j2)
Quiet == call[cancel] = IdleCall /\ ~paused /\ ~stop_requested

Job(act) == \/ scope = "job" /\ act /\ Alone'
            \/ scope = "pair" /\ act /\ Quiet'
Run(act) == scope = "run" /\ act

MCInit ==
  /\ Init /\ RunInit
  /\ scope \in {"job", "pair", "run"}
  /\ scope # "run" => caller.kind = "local"
MCNext ==
  \/ Job(Next) /\ UNCHANGED <<runVars, scope>>
  \/ Run(RunNext) /\ UNCHANGED <<vars, scope>>

(* Fairness of JobWorker and RunFairness of ToolRun, each where it runs.   *)
MCFairness ==
  /\ \A w \in Claimers : WF_vars(Job(Work(w)))
  /\ WF_vars(Job(\E w \in Claimers : Start(w)))
  /\ WF_runVars(Run(OwnSession \/ Exec))
  /\ WF_runVars(Run(LNext)) /\ WF_runVars(Run(GNext)) /\ WF_runVars(Run(TimeIsUp))
  /\ \A s \in Streams : WF_runVars(Run(GDrain(s)))
MCSpec == MCInit /\ [][MCNext]_<<vars, runVars, scope>> /\ MCFairness
=============================================================================
