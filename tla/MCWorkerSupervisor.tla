------------------------- MODULE MCWorkerSupervisor -------------------------
(* WorkerSupervisor with two investigations of one job each, or with one   *)
(* that has a job submitted alone and a plan of one.                       *)
EXTENDS WorkerSupervisor, TLC

CONSTANTS h1, h2, t1, t2, p1, p2, p3, p4, a, b, ja, jb, pack

MCThreads    == {t1, t2}
MCProcesses  == {p1, p2, p3, p4}
MCWorkspaces == {a, b}
MCJobs       == {ja, jb}
MCHome       == (ja :> a) @@ (jb :> b)

MCThree == {p1, p2, p3}
MCOne   == {a}
MCAlone == [j \in MCJobs |-> None]

MCTogether == (ja :> a) @@ (jb :> a)
MCPacked   == (ja :> None) @@ (jb :> pack)

(* Only the job of the first investigation is ever cancelled.               *)
FirstCancelled == \A h \in Handlers : handler'[h].job # jb
ServerSpec     == Init /\ [][Next /\ FirstCancelled]_vars

ObjectSymmetry ==
  Permutations(MCThreads) \cup Permutations(MCProcesses) \cup Permutations({h1, h2})
=============================================================================
