------------------------- MODULE TaskRuntime_proofs -------------------------
(* The background tasks and their manager, for any number of tasks, callers *)
(* and registrations; then the two users of them, the initializer of the    *)
(* tools and the loading of the graph.                                      *)
EXTENDS ToolInitializer, GraphLoad, FiniteSetTheorems, TLAPS

Results == {"none", "gtask", "loop", "task", "destroyed"}

-----------------------------------------------------------------------------
(* What one caller does to the sets of callers that are counted             *)

LEMMA CallersFinite ==
  ASSUME NEW S \in SUBSET Callers
  PROVE  IsFiniteSet(S) /\ Cardinality(S) \in Nat
  BY RuntimeAssumption, FS_Subset, FS_CardinalityType

(* One member enters a set, leaves it or stays.                            *)
LEMMA SetChanges ==
  ASSUME NEW U, IsFiniteSet(U), NEW S \in SUBSET U, NEW T \in SUBSET U, NEW c \in U,
         \A d \in U \ {c} : d \in T <=> d \in S
  PROVE  /\ Cardinality(S) \in Nat /\ Cardinality(T) \in Nat
         /\ Cardinality(T) = Cardinality(S) + B(c \in T) - B(c \in S)
  <1>1. /\ IsFiniteSet(S) /\ IsFiniteSet(T)
        /\ Cardinality(S) \in Nat /\ Cardinality(T) \in Nat
    BY FS_Subset, FS_CardinalityType
  <1>2. CASE c \in T <=> c \in S
    <2>1. T = S
      BY <1>2
    <2>2. B(c \in T) = B(c \in S) /\ B(c \in S) \in Nat
      BY <1>2 DEF B
    <2> QED
      BY <1>1, <2>1, <2>2
  <1>3. CASE c \in T /\ c \notin S
    <2>1. T = S \cup {c}
      BY <1>3
    <2>2. Cardinality(T) = Cardinality(S) + 1
      BY <1>1, <1>3, <2>1, FS_AddElement
    <2> QED
      BY <1>1, <1>3, <2>2 DEF B
  <1>4. CASE c \notin T /\ c \in S
    <2>1. T = S \ {c}
      BY <1>4
    <2>2. Cardinality(T) = Cardinality(S) - 1
      BY <1>1, <1>4, <2>1, FS_RemoveElement
    <2> QED
      BY <1>1, <1>4, <2>2 DEF B
  <1> QED
    BY <1>2, <1>3, <1>4

(* Caller c has the row r.                                                 *)
Turns(c, r) ==
  /\ call' \in [Callers -> CallRows]
  /\ call'[c] = r
  /\ \A d \in Callers \ {c} : call'[d] = call[d]

LEMMA TurnsCounts ==
  ASSUME NEW c \in Callers, NEW r, Turns(c, r)
  PROVE  /\ \A t \in Tasks :
              /\ Cardinality(Snapshots(t)) \in Nat /\ Cardinality(Snapshots(t)') \in Nat
              /\ Cardinality(Snapshots(t)') =
                   Cardinality(Snapshots(t)) + B(t \in r.snap) - B(t \in call[c].snap)
         /\ \A s \in Slots :
              /\ Cardinality(Informing(s)) \in Nat /\ Cardinality(Informing(s)') \in Nat
              /\ Cardinality(Informing(s)') =
                   Cardinality(Informing(s)) + B(r.op = "inform" /\ r.slot = s)
                     - B(call[c].op = "inform" /\ call[c].slot = s)
  <1>1. ASSUME NEW t \in Tasks
        PROVE  /\ Cardinality(Snapshots(t)) \in Nat /\ Cardinality(Snapshots(t)') \in Nat
               /\ Cardinality(Snapshots(t)') =
                    Cardinality(Snapshots(t)) + B(t \in r.snap) - B(t \in call[c].snap)
    <2> DEFINE S == Snapshots(t)
               T == Snapshots(t)'
    <2>1. /\ S \in SUBSET Callers /\ T \in SUBSET Callers
          /\ \A d \in Callers \ {c} : d \in T <=> d \in S
          /\ c \in T <=> t \in r.snap
          /\ c \in S <=> t \in call[c].snap
      BY DEF Snapshots, Turns
    <2> HIDE DEF S, T
    <2>2. /\ Cardinality(S) \in Nat /\ Cardinality(T) \in Nat
          /\ Cardinality(T) = Cardinality(S) + B(c \in T) - B(c \in S)
      BY <2>1, SetChanges, RuntimeAssumption
    <2>3. B(c \in T) = B(t \in r.snap) /\ B(c \in S) = B(t \in call[c].snap)
      BY <2>1 DEF B
    <2> QED
      BY <2>2, <2>3 DEF S, T
  <1>2. ASSUME NEW s \in Slots
        PROVE  /\ Cardinality(Informing(s)) \in Nat /\ Cardinality(Informing(s)') \in Nat
               /\ Cardinality(Informing(s)') =
                    Cardinality(Informing(s)) + B(r.op = "inform" /\ r.slot = s)
                      - B(call[c].op = "inform" /\ call[c].slot = s)
    <2> DEFINE S == Informing(s)
               T == Informing(s)'
    <2>1. /\ S \in SUBSET Callers /\ T \in SUBSET Callers
          /\ \A d \in Callers \ {c} : d \in T <=> d \in S
          /\ c \in T <=> (r.op = "inform" /\ r.slot = s)
          /\ c \in S <=> (call[c].op = "inform" /\ call[c].slot = s)
      BY DEF Informing, Turns
    <2> HIDE DEF S, T
    <2>2. /\ Cardinality(S) \in Nat /\ Cardinality(T) \in Nat
          /\ Cardinality(T) = Cardinality(S) + B(c \in T) - B(c \in S)
      BY <2>1, SetChanges, RuntimeAssumption
    <2>3. /\ B(c \in T) = B(r.op = "inform" /\ r.slot = s)
          /\ B(c \in S) = B(call[c].op = "inform" /\ call[c].slot = s)
      BY <2>1 DEF B
    <2> QED
      BY <2>2, <2>3 DEF S, T
  <1> QED
    BY <1>1, <1>2

-----------------------------------------------------------------------------
(* Steps of one task                                                        *)

(* What the invariant asks of a task with state s, cancellation a, run r,   *)
(* result res, count n, creator o; `now' is whether it is being delivered.  *)
Sound(s, a, r, res, o, now) ==
  /\ s \in TaskStates /\ a \in BOOLEAN /\ r \in Runs /\ res \in Results /\ o \in BOOLEAN
  /\ r = "none" => s \in {"none", "pending", "freed"}
  /\ r \in {"queued", "working"} \cup Verdicts \cup Finished => s = "running"
  /\ r = "delivering" => s \in Finished
  /\ r = "done" => s \in Finished \cup {"freed"}
  /\ r \in Finished \cup {"delivering"} <=> now
  /\ o => s \notin {"none", "freed"}
  /\ res = "gtask" <=> r = "ok"
  /\ res = "loop" <=> r = "completed"
  /\ res = "task" <=> s = "completed"
  /\ "cancelled" \in {s, r} \/ r = "stopped" => a

(* Task t becomes (s, a, r, res, n, o); the others and the manager stay.    *)
Becomes(t, s, a, r, res, n, o) ==
  /\ tstate' = [tstate EXCEPT ![t] = s] /\ asked' = [asked EXCEPT ![t] = a]
  /\ run' = [run EXCEPT ![t] = r] /\ result' = [result EXCEPT ![t] = res]
  /\ refs' = [refs EXCEPT ![t] = n] /\ own' = [own EXCEPT ![t] = o]
  /\ UNCHANGED managerVars

InHand(r) == B(r \notin {"none", "done"})

LEMMA SoundNow ==
  ASSUME RuntimeIInv, NEW t \in Tasks
  PROVE  Sound(tstate[t], asked[t], run[t], result[t], own[t], inside = t)
  BY DEF RuntimeIInv, RuntimeTypeOK, StatesAgree, ResultsOwned, Sound, Results

LEMMA TaskBecomes ==
  ASSUME RuntimeIInv, NEW t \in Tasks, NEW s, NEW a, NEW r, NEW res, NEW n \in Nat, NEW o,
         Becomes(t, s, a, r, res, n, o), Sound(s, a, r, res, o, inside' = t),
         n = 0 <=> s \in {"none", "freed"},
         n = refs[t] + B(o) - B(own[t]) + InHand(r) - InHand(run[t]),
         inside' \in Tasks \cup {None},
         \A u \in Tasks \ {t} : inside' = u <=> inside = u
  PROVE  RuntimeIInv'
  <1>1. /\ tstate \in [Tasks -> TaskStates] /\ asked \in [Tasks -> BOOLEAN]
        /\ own \in [Tasks -> BOOLEAN] /\ run \in [Tasks -> Runs]
        /\ result \in [Tasks -> Results] /\ refs \in [Tasks -> Nat]
    BY DEF RuntimeIInv, RuntimeTypeOK, Results
  <1>2. /\ tstate'[t] = s /\ asked'[t] = a /\ run'[t] = r /\ result'[t] = res
        /\ refs'[t] = n /\ own'[t] = o
        /\ \A u \in Tasks \ {t} :
             /\ tstate'[u] = tstate[u] /\ asked'[u] = asked[u] /\ run'[u] = run[u]
             /\ result'[u] = result[u] /\ refs'[u] = refs[u] /\ own'[u] = own[u]
    BY <1>1 DEF Becomes
  <1>3. RuntimeTypeOK'
    BY <1>1 DEF Becomes, Sound, RuntimeIInv, RuntimeTypeOK, managerVars, Results
  <1>4. StatesAgree'
    BY <1>2 DEF RuntimeIInv, StatesAgree, Sound
  <1>5. ResultsOwned'
    BY <1>2 DEF RuntimeIInv, ResultsOwned, Sound
  <1>6. SlotsAreHeld'
    BY DEF Becomes, RuntimeIInv, SlotsAreHeld, Informing, managerVars
  <1>7. CountsAreHolders'
    <2>1. \A u \in Tasks : Snapshots(u)' = Snapshots(u)
      BY DEF Becomes, Snapshots, managerVars
    <2>2. ASSUME NEW u \in Tasks
          PROVE  refs'[u] = Holders(u)' /\ (refs'[u] = 0 <=> tstate'[u] \in {"none", "freed"})
      <3>1. /\ refs[u] = Holders(u) /\ (refs[u] = 0 <=> tstate[u] \in {"none", "freed"})
            /\ listed' = listed
        BY DEF RuntimeIInv, CountsAreHolders, Becomes, managerVars
      <3>2. CASE u # t
        <4>1. Holders(u)' = Holders(u)
          BY <1>2, <2>1, <3>1, <3>2 DEF Holders
        <4> QED
          BY <1>2, <3>1, <3>2, <4>1
      <3>3. CASE u = t
        <4> DEFINE k == Cardinality(Snapshots(t))
                   l == B(t \in listed)
        <4>1. k \in Nat /\ l \in Nat
          BY CallersFinite DEF Snapshots, B
        <4>2. Holders(t) = B(own[t]) + l + InHand(run[t]) + k
          BY DEF Holders, InHand
        <4>3. Holders(t)' = B(o) + l + InHand(r) + k
          BY <1>2, <2>1, <3>1 DEF Holders, InHand
        <4> HIDE DEF k, l
        <4>4. /\ B(own[t]) \in Nat /\ B(o) \in Nat /\ InHand(run[t]) \in Nat
              /\ InHand(r) \in Nat
          BY DEF B, InHand
        <4>5. n = Holders(t)'
          BY <3>1, <3>3, <4>1, <4>2, <4>3, <4>4
        <4> QED
          BY <1>2, <3>3, <4>5
      <3> QED
        BY <3>2, <3>3
    <2>3. \A c \in Callers :
             /\ call'[c].todo \cup ({call'[c].hit} \ {None}) \subseteq call'[c].snap
             /\ ~Doing(c, "cancel")' => call'[c].snap = {}
      BY DEF RuntimeIInv, CountsAreHolders, Becomes, managerVars, Doing
    <2> QED
      BY <2>2, <2>3 DEF CountsAreHolders
  <1> QED
    BY <1>3, <1>4, <1>5, <1>6, <1>7 DEF RuntimeIInv

(* The count of a task is at least that of each way to hold it.            *)
LEMMA CountOf ==
  ASSUME RuntimeIInv, NEW t \in Tasks
  PROVE  \E k \in Nat, l \in Nat :
           /\ k = Cardinality(Snapshots(t)) /\ l = B(t \in listed)
           /\ refs[t] = B(own[t]) + l + InHand(run[t]) + k
           /\ refs[t] \in Nat
           /\ refs[t] = 0 <=> tstate[t] \in {"none", "freed"}
  <1> DEFINE k == Cardinality(Snapshots(t))
             l == B(t \in listed)
  <1>1. k \in Nat /\ l \in Nat
    BY CallersFinite DEF Snapshots, B
  <1>2. refs[t] = B(own[t]) + l + InHand(run[t]) + k
    BY DEF RuntimeIInv, CountsAreHolders, Holders, InHand
  <1>3. refs[t] \in Nat /\ (refs[t] = 0 <=> tstate[t] \in {"none", "freed"})
    BY DEF RuntimeIInv, RuntimeTypeOK, CountsAreHolders
  <1> HIDE DEF k, l
  <1>4. k = Cardinality(Snapshots(t)) /\ l = B(t \in listed)
    BY DEF k, l
  <1> QED
    BY <1>1, <1>2, <1>3, <1>4

LEMMA RefOne ==
  ASSUME RuntimeIInv, NEW t \in Tasks, Ref({t})
  PROVE  refs' = [refs EXCEPT ![t] = refs[t] + 1]
  <1>1. refs \in [Tasks -> Nat]
    BY DEF RuntimeIInv, RuntimeTypeOK
  <1>2. \A u \in Tasks : refs'[u] = [refs EXCEPT ![t] = refs[t] + 1][u]
    BY <1>1 DEF Ref
  <1>3. refs' = [u \in Tasks |-> refs'[u]]
    BY DEF Ref
  <1> QED
    BY <1>1, <1>2, <1>3

LEMMA UnrefOne ==
  ASSUME RuntimeIInv, NEW t \in Tasks, Unref({t})
  PROVE  /\ refs' = [refs EXCEPT ![t] = refs[t] - 1]
         /\ tstate' = [tstate EXCEPT ![t] = IF refs[t] = 1 THEN "freed" ELSE tstate[t]]
         /\ result' = [result EXCEPT ![t] =
              IF refs[t] = 1 /\ result[t] = "task" THEN "destroyed" ELSE result[t]]
  <1>1. /\ refs \in [Tasks -> Nat] /\ tstate \in [Tasks -> TaskStates]
        /\ result \in [Tasks -> Results]
    BY DEF RuntimeIInv, RuntimeTypeOK, Results
  <1>2. \A u \in Tasks : refs'[u] = [refs EXCEPT ![t] = refs[t] - 1][u]
    BY <1>1 DEF Unref
  <1>3. refs' = [u \in Tasks |-> refs'[u]]
    BY DEF Unref
  <1>4. refs' = [refs EXCEPT ![t] = refs[t] - 1]
    BY <1>1, <1>2, <1>3
  <1>5. \A u \in Tasks : u \in LastOf({t}) <=> u = t /\ refs[t] = 1
    BY DEF LastOf
  <1>6. tstate' = [tstate EXCEPT ![t] = IF refs[t] = 1 THEN "freed" ELSE tstate[t]]
    BY <1>1, <1>5 DEF Unref
  <1>7. result' = [result EXCEPT ![t] =
          IF refs[t] = 1 /\ result[t] = "task" THEN "destroyed" ELSE result[t]]
    <2> DEFINE res == IF refs[t] = 1 /\ result[t] = "task" THEN "destroyed" ELSE result[t]
    <2>1. result' = [u \in Tasks |-> result'[u]]
      BY DEF Unref
    <2>2. result'[t] = res
      BY <1>5 DEF Unref
    <2>3. \A u \in Tasks \ {t} : result'[u] = result[u]
      BY <1>5 DEF Unref
    <2> HIDE DEF res
    <2>4. result' = [result EXCEPT ![t] = res]
      BY <1>1, <2>1, <2>2, <2>3
    <2> QED
      BY <2>4 DEF res
  <1> QED
    BY <1>4, <1>6, <1>7

LEMMA NewSound ==
  ASSUME RuntimeIInv, NEW t \in Tasks, New(t)
  PROVE  RuntimeIInv'
  <1>1. Becomes(t, "pending", asked[t], run[t], result[t], refs[t] + 1, TRUE)
    BY RefOne DEF New, Becomes, RuntimeIInv, RuntimeTypeOK
  <1>2. /\ tstate[t] = "none" /\ inside' = inside
    BY DEF New
  <1>3. Sound(tstate[t], asked[t], run[t], result[t], own[t], inside = t)
    BY SoundNow
  <1>4. run[t] = "none" /\ ~own[t] /\ refs[t] \in Nat
    BY <1>2, <1>3, CountOf DEF Sound, Runs, Verdicts, Finished
  <1>5. Sound("pending", asked[t], run[t], result[t], TRUE, inside' = t)
    BY <1>2, <1>3, <1>4 DEF Sound, TaskStates, Finished, Verdicts
  <1>6. inside \in Tasks \cup {None}
    BY DEF RuntimeIInv, RuntimeTypeOK
  <1>7. /\ refs[t] + 1 \in Nat
        /\ refs[t] + 1 = 0 <=> "pending" \in {"none", "freed"}
        /\ refs[t] + 1 = refs[t] + B(TRUE) - B(own[t]) + InHand(run[t]) - InHand(run[t])
    BY <1>4 DEF B, InHand
  <1> QED
    BY <1>1, <1>2, <1>5, <1>6, <1>7, TaskBecomes

LEMMA StartSound ==
  ASSUME RuntimeIInv, NEW t \in Tasks, StartTask(t)
  PROVE  RuntimeIInv'
  <1>1. Becomes(t, "running", asked[t], "queued", result[t], refs[t] + 1, own[t])
    BY RefOne DEF StartTask, Becomes, RuntimeIInv, RuntimeTypeOK
  <1>2. /\ tstate[t] = "pending" /\ inside' = inside
    BY DEF StartTask
  <1>3. Sound(tstate[t], asked[t], run[t], result[t], own[t], inside = t)
    BY SoundNow
  <1>4. run[t] = "none" /\ refs[t] \in Nat
    BY <1>2, <1>3, CountOf DEF Sound, Runs, Verdicts, Finished
  <1>5. Sound("running", asked[t], "queued", result[t], own[t], inside' = t)
    BY <1>2, <1>3, <1>4 DEF Sound, TaskStates, Finished, Verdicts, Runs
  <1>6. inside \in Tasks \cup {None}
    BY DEF RuntimeIInv, RuntimeTypeOK
  <1>7. /\ refs[t] + 1 \in Nat
        /\ refs[t] + 1 = 0 <=> "running" \in {"none", "freed"}
        /\ refs[t] + 1 = refs[t] + B(own[t]) - B(own[t]) + InHand("queued") - InHand(run[t])
    BY <1>4 DEF B, InHand
  <1> QED
    BY <1>1, <1>2, <1>5, <1>6, <1>7, TaskBecomes

(* GraphLoad creates and starts a task in one step.                        *)
LEMMA LoadStartSound ==
  ASSUME RuntimeIInv, NEW t \in Tasks, LoadStart(t)
  PROVE  RuntimeIInv'
  <1>1. Becomes(t, "running", asked[t], "queued", result[t], 2, TRUE)
    BY DEF LoadStart, Becomes, RuntimeIInv, RuntimeTypeOK
  <1>2. /\ tstate[t] = "none" /\ inside' = inside
    BY DEF LoadStart
  <1>3. Sound(tstate[t], asked[t], run[t], result[t], own[t], inside = t)
    BY SoundNow
  <1>4. run[t] = "none" /\ ~own[t] /\ refs[t] = 0
    BY <1>2, <1>3, CountOf DEF Sound, Runs, Verdicts, Finished
  <1>5. Sound("running", asked[t], "queued", result[t], TRUE, inside' = t)
    BY <1>2, <1>3, <1>4 DEF Sound, TaskStates, Finished, Verdicts, Runs
  <1>6. inside \in Tasks \cup {None}
    BY DEF RuntimeIInv, RuntimeTypeOK
  <1>7. /\ 2 \in Nat
        /\ 2 = 0 <=> "running" \in {"none", "freed"}
        /\ 2 = refs[t] + B(TRUE) - B(own[t]) + InHand("queued") - InHand(run[t])
    BY <1>4 DEF B, InHand
  <1> QED
    BY <1>1, <1>2, <1>5, <1>6, <1>7, TaskBecomes

LEMMA DropSound ==
  ASSUME RuntimeIInv, NEW t \in Tasks, Drop(t)
  PROVE  RuntimeIInv'
  <1> DEFINE s == IF refs[t] = 1 THEN "freed" ELSE tstate[t]
             res == IF refs[t] = 1 /\ result[t] = "task" THEN "destroyed" ELSE result[t]
  <1>1. Becomes(t, s, asked[t], run[t], res, refs[t] - 1, FALSE)
    BY UnrefOne DEF Drop, Becomes, RuntimeIInv, RuntimeTypeOK
  <1>2. own[t] /\ inside' = inside
    BY DEF Drop
  <1>3. Sound(tstate[t], asked[t], run[t], result[t], own[t], inside = t)
    BY SoundNow
  <1>4. PICK k \in Nat, l \in Nat :
          /\ refs[t] = B(own[t]) + l + InHand(run[t]) + k /\ refs[t] \in Nat
          /\ refs[t] = 0 <=> tstate[t] \in {"none", "freed"}
    BY CountOf
  <1>5. /\ refs[t] - 1 \in Nat
        /\ refs[t] = 1 => run[t] \in {"none", "done"}
        /\ refs[t] - 1 = refs[t] + B(FALSE) - B(own[t]) + InHand(run[t]) - InHand(run[t])
    BY <1>2, <1>4 DEF B, InHand
  <1>6. refs[t] - 1 = 0 <=> s \in {"none", "freed"}
    BY <1>2, <1>4, <1>5 DEF B
  <1>7. Sound(s, asked[t], run[t], res, FALSE, inside' = t)
    BY <1>2, <1>3, <1>5 DEF Sound, TaskStates, Finished, Verdicts, Results
  <1>8. inside \in Tasks \cup {None}
    BY DEF RuntimeIInv, RuntimeTypeOK
  <1> HIDE DEF s, res
  <1> QED
    BY <1>1, <1>2, <1>5, <1>6, <1>7, <1>8, TaskBecomes

LEMMA DeliveredSound ==
  ASSUME RuntimeIInv, NEW t \in Tasks, Delivered(t)
  PROVE  RuntimeIInv'
  <1> DEFINE s == IF refs[t] = 1 THEN "freed" ELSE tstate[t]
             res == IF refs[t] = 1 /\ result[t] = "task" THEN "destroyed" ELSE result[t]
  <1>1. Becomes(t, s, asked[t], "done", res, refs[t] - 1, own[t])
    BY UnrefOne DEF Delivered, Becomes, RuntimeIInv, RuntimeTypeOK
  <1>2. inside = t /\ inside' = None
    BY DEF Delivered
  <1>3. Sound(tstate[t], asked[t], run[t], result[t], own[t], inside = t)
    BY SoundNow
  <1>4. PICK k \in Nat, l \in Nat :
          /\ refs[t] = B(own[t]) + l + InHand(run[t]) + k /\ refs[t] \in Nat
          /\ refs[t] = 0 <=> tstate[t] \in {"none", "freed"}
    BY CountOf
  <1>5. run[t] = "delivering"
    BY DEF Delivered
  <1>6. /\ refs[t] - 1 \in Nat
        /\ refs[t] = 1 => ~own[t]
        /\ refs[t] - 1 = refs[t] + B(own[t]) - B(own[t]) + InHand("done") - InHand(run[t])
    BY <1>4, <1>5 DEF B, InHand
  <1>7. refs[t] - 1 = 0 <=> s \in {"none", "freed"}
    BY <1>4, <1>6
  <1>8. None # t
    BY RuntimeAssumption
  <1>9. Sound(s, asked[t], "done", res, own[t], inside' = t)
    BY <1>2, <1>3, <1>5, <1>6, <1>8 DEF Sound, TaskStates, Finished, Verdicts, Results, Runs
  <1>10. \A u \in Tasks \ {t} : inside' = u <=> inside = u
    BY <1>2, RuntimeAssumption
  <1> HIDE DEF s, res
  <1> QED
    BY <1>1, <1>2, <1>6, <1>7, <1>9, <1>10, TaskBecomes

(* Steps that count nothing: a task is asked to stop, works or is settled. *)
LEMMA UncountedSound ==
  ASSUME RuntimeIInv, NEW t \in Tasks, NEW s, NEW a, NEW r, NEW res,
         Becomes(t, s, a, r, res, refs[t], own[t]), Sound(s, a, r, res, own[t], inside' = t),
         s \in {"none", "freed"} <=> tstate[t] \in {"none", "freed"},
         r \in {"none", "done"} <=> run[t] \in {"none", "done"},
         inside' \in Tasks \cup {None},
         \A u \in Tasks \ {t} : inside' = u <=> inside = u
  PROVE  RuntimeIInv'
  <1>1. /\ refs[t] \in Nat
        /\ refs[t] = 0 <=> s \in {"none", "freed"}
    BY CountOf
  <1>2. refs[t] = refs[t] + B(own[t]) - B(own[t]) + InHand(r) - InHand(run[t])
    BY <1>1 DEF B, InHand
  <1> QED
    BY <1>1, <1>2, TaskBecomes

LEMMA CancelSound ==
  ASSUME RuntimeIInv, NEW t \in Tasks, CancelTask(t)
  PROVE  RuntimeIInv'
  <1>1. Becomes(t, tstate[t], TRUE, run[t], result[t], refs[t], own[t])
    BY DEF CancelTask, Becomes, RuntimeIInv, RuntimeTypeOK
  <1>2. inside' = inside /\ inside \in Tasks \cup {None}
    BY DEF CancelTask, RuntimeIInv, RuntimeTypeOK
  <1>3. Sound(tstate[t], TRUE, run[t], result[t], own[t], inside' = t)
    BY <1>2, SoundNow DEF Sound
  <1> QED
    BY <1>1, <1>2, <1>3, UncountedSound

LEMMA BeginSound ==
  ASSUME RuntimeIInv, NEW t \in Tasks, BeginWork(t)
  PROVE  RuntimeIInv'
  <1>1. Becomes(t, tstate[t], asked[t], "working", result[t], refs[t], own[t])
    BY DEF BeginWork, Becomes, RuntimeIInv, RuntimeTypeOK
  <1>2. /\ run[t] = "queued"
        /\ inside' = inside /\ inside \in Tasks \cup {None}
    BY DEF BeginWork, RuntimeIInv, RuntimeTypeOK
  <1>3. Sound(tstate[t], asked[t], "working", result[t], own[t], inside' = t)
    BY <1>2, SoundNow DEF Sound, Runs, Finished, Verdicts
  <1> QED
    BY <1>1, <1>2, <1>3, UncountedSound

LEMMA ReturnsSound ==
  ASSUME RuntimeIInv, NEW t \in Tasks, NEW success \in BOOLEAN,
         NEW error \in {"none", "stopped", "other"}, WorkerReturns(t, success, error)
  PROVE  RuntimeIInv'
  <1> DEFINE v == Verdict(success, error)
             res == IF v = "ok" THEN "gtask" ELSE "destroyed"
  <1>1. Becomes(t, tstate[t], asked[t], v, res, refs[t], own[t])
    BY DEF WorkerReturns, Becomes, RuntimeIInv, RuntimeTypeOK
  <1>2. /\ run[t] = "working" /\ v \in Verdicts /\ (v = "stopped" => asked[t])
        /\ inside' = inside /\ inside \in Tasks \cup {None}
    BY DEF WorkerReturns, RuntimeIInv, RuntimeTypeOK, Verdict, Verdicts
  <1>3. res = "gtask" <=> v = "ok"
    OBVIOUS
  <1>4. res \in {"gtask", "destroyed"}
    OBVIOUS
  <1> HIDE DEF v, res
  <1>5. Sound(tstate[t], asked[t], v, res, own[t], inside' = t)
    BY <1>2, <1>3, <1>4, SoundNow DEF Sound, Runs, Finished, Verdicts, Results
  <1>6. v \in {"none", "done"} <=> run[t] \in {"none", "done"}
    BY <1>2 DEF Verdicts
  <1> QED
    BY <1>1, <1>2, <1>5, <1>6, UncountedSound

LEMMA PropagateSound ==
  ASSUME RuntimeIInv, NEW t \in Tasks, Propagate(t)
  PROVE  RuntimeIInv'
  <1> DEFINE f == Final(t)
             res == IF f = "completed" THEN "loop" ELSE "destroyed"
  <1>1. Becomes(t, tstate[t], asked[t], f, res, refs[t], own[t])
    BY DEF Propagate, Becomes, RuntimeIInv, RuntimeTypeOK
  <1>2. run[t] \in Verdicts /\ inside = None /\ inside' = t
    BY DEF Propagate
  <1>3. Sound(tstate[t], asked[t], run[t], result[t], own[t], inside = t)
    BY SoundNow
  <1>4. f \in Finished /\ (f = "cancelled" => asked[t])
    BY <1>2, <1>3 DEF Final, Finished, Sound
  <1>5. res \in Results \ {"gtask", "task"} /\ (res = "loop" <=> f = "completed")
    BY DEF Results
  <1> HIDE DEF f, res
  <1>6. Sound(tstate[t], asked[t], f, res, own[t], inside' = t)
    BY <1>2, <1>3, <1>4, <1>5 DEF Sound, Runs, Finished, Verdicts
  <1>7. f \in {"none", "done"} <=> run[t] \in {"none", "done"}
    BY <1>2, <1>4 DEF Verdicts, Finished
  <1>8. \A u \in Tasks \ {t} : inside' = u <=> inside = u
    BY <1>2, RuntimeAssumption
  <1> QED
    BY <1>1, <1>2, <1>6, <1>7, <1>8, UncountedSound

LEMMA SettleSound ==
  ASSUME RuntimeIInv, NEW t \in Tasks, Settle(t)
  PROVE  RuntimeIInv'
  <1> DEFINE res == IF result[t] = "loop" THEN "task" ELSE result[t]
  <1>1. Becomes(t, run[t], asked[t], "delivering", res, refs[t], own[t])
    BY DEF Settle, Becomes, RuntimeIInv, RuntimeTypeOK
  <1>2. run[t] \in Finished /\ inside = t /\ inside' = inside
    BY DEF Settle
  <1>3. Sound(tstate[t], asked[t], run[t], result[t], own[t], inside = t)
    BY SoundNow
  <1>4. tstate[t] = "running" /\ result[t] # "gtask" /\ result[t] # "task"
    BY <1>2, <1>3 DEF Sound, Finished
  <1>5. res \in Results \ {"gtask", "loop"} /\ (res = "task" <=> run[t] = "completed")
    BY <1>3, <1>4 DEF Sound, Results
  <1> HIDE DEF res
  <1>6. Sound(run[t], asked[t], "delivering", res, own[t], inside' = t)
    BY <1>2, <1>3, <1>5 DEF Sound, Runs, Finished, Verdicts, TaskStates
  <1>7. /\ run[t] \notin {"none", "freed", "done"} /\ tstate[t] \notin {"none", "freed"}
    BY <1>2, <1>4 DEF Finished
  <1> QED
    BY <1>1, <1>2, <1>6, <1>7, UncountedSound

-----------------------------------------------------------------------------
(* Steps of a caller of the manager                                         *)

(* Caller c has the row r; every task is counted with it and the list, and *)
(* those whose count ends are freed; at most more tasks are asked to stop. *)
Recounts(c, r) ==
  /\ Turns(c, r)
  /\ listed' \subseteq Tasks
  /\ refs' \in [Tasks -> Int] /\ tstate' \in [Tasks -> TaskStates]
  /\ result' \in [Tasks -> Results] /\ asked' \in [Tasks -> BOOLEAN]
  /\ \A t \in Tasks :
       /\ refs'[t] = refs[t] + B(t \in listed') - B(t \in listed)
                       + B(t \in r.snap) - B(t \in call[c].snap)
       /\ refs'[t] >= refs[t] - 1 /\ (refs[t] = 0 => refs'[t] = 0)
       /\ tstate'[t] = IF refs[t] = 1 /\ refs'[t] = 0 THEN "freed" ELSE tstate[t]
       /\ result'[t] = IF refs[t] = 1 /\ refs'[t] = 0 /\ result[t] = "task"
                         THEN "destroyed" ELSE result[t]
       /\ asked[t] => asked'[t]
  /\ run' = run /\ own' = own /\ inside' = inside
  /\ r.todo \cup ({r.hit} \ {None}) \subseteq r.snap
  /\ r.op # "cancel" => r.snap = {}

(* The registrations are counted with it too.                              *)
Calls(c, r) ==
  /\ Turns(c, r)
  /\ slot' = slot
  /\ slot_refs' \in [Slots -> Int]
  /\ \A s \in Slots :
       slot_refs'[s] = slot_refs[s] + B(r.op = "inform" /\ r.slot = s)
                         - B(call[c].op = "inform" /\ call[c].slot = s)
  /\ r.op = "inform" => r.slot = slot

LEMMA SlotsRecounted ==
  ASSUME RuntimeIInv, NEW c \in Callers, NEW r, Calls(c, r)
  PROVE  SlotsAreHeld'
  <1>1. SUFFICES ASSUME NEW s \in Slots
                 PROVE  IF slot_refs'[s] = Fresh THEN slot' # s /\ Informing(s)' = {}
                        ELSE slot_refs'[s] = B(slot' = s) + Cardinality(Informing(s)')
    BY DEF SlotsAreHeld
  <1> DEFINE old == Cardinality(Informing(s))
             new == Cardinality(Informing(s)')
             came == B(r.op = "inform" /\ r.slot = s)
             went == B(call[c].op = "inform" /\ call[c].slot = s)
             inforce == B(slot = s)
  <1>2. old \in Nat /\ new \in Nat /\ new = old + came - went
    BY TurnsCounts DEF Calls
  <1>3. came \in {0, 1} /\ went \in {0, 1} /\ inforce \in {0, 1}
    BY DEF B
  <1>4. slot_refs'[s] = slot_refs[s] + came - went /\ slot_refs[s] \in Int
    BY DEF Calls, RuntimeIInv, RuntimeTypeOK
  <1>5. IF slot_refs[s] = Fresh THEN slot # s /\ Informing(s) = {}
        ELSE slot_refs[s] = inforce + old
    BY DEF RuntimeIInv, SlotsAreHeld
  <1>6. CASE slot_refs[s] = Fresh
    <2>1. ~(r.op = "inform" /\ r.slot = s) /\ ~(call[c].op = "inform" /\ call[c].slot = s)
      BY <1>5, <1>6 DEF Calls, Informing
    <2>2. came = 0 /\ went = 0
      BY <2>1 DEF B
    <2>3. old = 0
      BY <1>5, <1>6, FS_EmptySet
    <2>4. new = 0 /\ slot_refs'[s] = Fresh
      <3> HIDE DEF old, new, came, went, inforce
      <3> QED
        BY <1>2, <1>4, <1>6, <2>2, <2>3
    <2>5. IsFiniteSet(Informing(s)')
      BY CallersFinite DEF Informing
    <2>6. Informing(s)' = {}
      BY <2>4, <2>5, FS_EmptySet
    <2> QED
      BY <1>5, <1>6, <2>4, <2>6 DEF Calls
  <1>7. CASE slot_refs[s] # Fresh
    <2>1. B(slot' = s) = inforce
      BY DEF Calls
    <2>2. slot_refs'[s] = inforce + new /\ slot_refs'[s] # Fresh
      <3> HIDE DEF old, new, came, went, inforce
      <3> QED
        BY <1>2, <1>3, <1>4, <1>5, <1>7 DEF Fresh
    <2> QED
      BY <2>1, <2>2
  <1> QED
    BY <1>6, <1>7

LEMMA TasksRecounted ==
  ASSUME RuntimeIInv, NEW c \in Callers, NEW r, Recounts(c, r), Calls(c, r)
  PROVE  RuntimeIInv'
  <1>1. /\ tstate \in [Tasks -> TaskStates] /\ asked \in [Tasks -> BOOLEAN]
        /\ own \in [Tasks -> BOOLEAN] /\ run \in [Tasks -> Runs]
        /\ result \in [Tasks -> Results] /\ refs \in [Tasks -> Nat]
        /\ inside \in Tasks \cup {None} /\ slot \in Slots \cup {None}
    BY DEF RuntimeIInv, RuntimeTypeOK, Results
  <1>2. ASSUME NEW t \in Tasks
        PROVE  /\ refs'[t] = Holders(t)' /\ refs'[t] \in Nat
               /\ refs'[t] = 0 => own[t] = FALSE /\ run[t] \in {"none", "done"}
    <2> DEFINE old == Cardinality(Snapshots(t))
               new == Cardinality(Snapshots(t)')
               came == B(t \in r.snap)
               went == B(t \in call[c].snap)
               was == B(t \in listed)
               is == B(t \in listed')
               o == B(own[t])
               h == InHand(run[t])
    <2>1. old \in Nat /\ new \in Nat /\ new = old + came - went
      BY TurnsCounts DEF Recounts
    <2>2. /\ came \in {0, 1} /\ went \in {0, 1} /\ was \in {0, 1} /\ is \in {0, 1}
          /\ o \in {0, 1} /\ h \in {0, 1}
      BY DEF B, InHand
    <2>3. refs[t] = o + was + h + old
      BY DEF RuntimeIInv, CountsAreHolders, Holders, InHand
    <2>4. refs'[t] = refs[t] + is - was + came - went
      BY DEF Recounts
    <2>5. Holders(t)' = o + is + h + new
      BY DEF Holders, InHand, Recounts
    <2>6. (o = 0 => own[t] = FALSE) /\ (h = 0 => run[t] \in {"none", "done"})
      BY <1>1 DEF B, InHand
    <2> HIDE DEF old, new, came, went, was, is, o, h
    <2>7. refs'[t] = o + is + h + new
      BY <1>1, <2>1, <2>2, <2>3, <2>4
    <2> QED
      BY <2>1, <2>2, <2>5, <2>6, <2>7
  <1>3. RuntimeTypeOK'
    <2>1. refs' \in [Tasks -> Nat]
      BY <1>2 DEF Recounts
    <2> QED
      BY <1>1, <2>1 DEF Recounts, Calls, Turns, RuntimeTypeOK, Results
  <1>4. ASSUME NEW t \in Tasks
        PROVE  /\ Sound(tstate'[t], asked'[t], run'[t], result'[t], own'[t], inside' = t)
               /\ refs'[t] = 0 <=> tstate'[t] \in {"none", "freed"}
    <2>1. Sound(tstate[t], asked[t], run[t], result[t], own[t], inside = t)
      BY SoundNow
    <2>2. refs[t] = 0 <=> tstate[t] \in {"none", "freed"}
      BY DEF RuntimeIInv, CountsAreHolders
    <2>3. /\ tstate'[t] = IF refs[t] = 1 /\ refs'[t] = 0 THEN "freed" ELSE tstate[t]
          /\ result'[t] = IF refs[t] = 1 /\ refs'[t] = 0 /\ result[t] = "task"
                            THEN "destroyed" ELSE result[t]
          /\ asked[t] => asked'[t]
          /\ asked'[t] \in BOOLEAN
          /\ run' = run /\ own' = own /\ inside' = inside
      BY DEF Recounts
    <2>4. (refs[t] = 0 => refs'[t] = 0) /\ (refs[t] # 0 /\ refs'[t] = 0 => refs[t] = 1)
      BY <1>1 DEF Recounts
    <2>5. CASE refs[t] = 1 /\ refs'[t] = 0
      BY <1>2, <2>1, <2>2, <2>3, <2>5 DEF Sound, TaskStates, Results, Finished, Verdicts
    <2>6. CASE ~(refs[t] = 1 /\ refs'[t] = 0)
      BY <2>1, <2>2, <2>3, <2>4, <2>6 DEF Sound
    <2> QED
      BY <2>5, <2>6
  <1>5. StatesAgree'
    BY <1>4 DEF StatesAgree, Sound
  <1>6. ResultsOwned'
    BY <1>4 DEF ResultsOwned, Sound
  <1>7. SlotsAreHeld'
    BY SlotsRecounted
  <1>8. CountsAreHolders'
    <2>1. \A d \in Callers :
            /\ call'[d].todo \cup ({call'[d].hit} \ {None}) \subseteq call'[d].snap
            /\ call'[d].op # "cancel" => call'[d].snap = {}
      BY DEF RuntimeIInv, CountsAreHolders, Recounts, Turns, Doing
    <2> QED
      BY <1>2, <1>4, <2>1 DEF CountsAreHolders, Doing
  <1> QED
    BY <1>3, <1>5, <1>6, <1>7, <1>8 DEF RuntimeIInv

(* The two ways a caller changes counts, as far as this task is concerned. *)
LEMMA RefAll ==
  ASSUME RuntimeIInv, NEW S \in SUBSET Tasks, Ref(S)
  PROVE  /\ refs' \in [Tasks -> Int]
         /\ \A t \in Tasks : refs[t] \in Nat /\ refs'[t] = refs[t] + B(t \in S)
  <1>1. refs \in [Tasks -> Nat]
    BY DEF RuntimeIInv, RuntimeTypeOK
  <1>2. \A t \in Tasks : refs'[t] = refs[t] + B(t \in S)
    BY DEF Ref, B
  <1>3. \A t \in Tasks : B(t \in S) \in Int
    BY DEF B
  <1>4. refs' = [t \in Tasks |-> refs'[t]]
    BY DEF Ref
  <1>5. \A t \in Tasks : refs'[t] \in Int
    BY <1>1, <1>2, <1>3
  <1> QED
    BY <1>1, <1>2, <1>4, <1>5

LEMMA UnrefAll ==
  ASSUME RuntimeIInv, NEW S \in SUBSET Tasks, Unref(S)
  PROVE  /\ refs' \in [Tasks -> Int]
         /\ tstate' \in [Tasks -> TaskStates] /\ result' \in [Tasks -> Results]
         /\ \A t \in Tasks :
              /\ refs[t] \in Nat /\ refs'[t] = refs[t] - B(t \in S)
              /\ tstate'[t] = IF refs[t] = 1 /\ refs'[t] = 0 THEN "freed" ELSE tstate[t]
              /\ result'[t] = IF refs[t] = 1 /\ refs'[t] = 0 /\ result[t] = "task"
                                THEN "destroyed" ELSE result[t]
  <1>1. /\ refs \in [Tasks -> Nat] /\ tstate \in [Tasks -> TaskStates]
        /\ result \in [Tasks -> Results]
    BY DEF RuntimeIInv, RuntimeTypeOK, Results
  <1>2. \A t \in Tasks : refs'[t] = refs[t] - B(t \in S)
    BY DEF Unref, B
  <1>3. \A t \in Tasks : B(t \in S) \in Int
    BY DEF B
  <1>4. /\ refs' = [t \in Tasks |-> refs'[t]] /\ tstate' = [t \in Tasks |-> tstate'[t]]
        /\ result' = [t \in Tasks |-> result'[t]]
    BY DEF Unref
  <1>5. \A t \in Tasks : refs'[t] \in Int
    BY <1>1, <1>2, <1>3
  <1>6. ASSUME NEW t \in Tasks
        PROVE  t \in LastOf(S) <=> refs[t] = 1 /\ refs'[t] = 0
    BY <1>1, <1>2 DEF LastOf, B
  <1>7. ASSUME NEW t \in Tasks
        PROVE  /\ tstate'[t] = IF refs[t] = 1 /\ refs'[t] = 0 THEN "freed" ELSE tstate[t]
               /\ result'[t] = IF refs[t] = 1 /\ refs'[t] = 0 /\ result[t] = "task"
                                 THEN "destroyed" ELSE result[t]
    <2>1. /\ tstate'[t] = IF t \in LastOf(S) THEN "freed" ELSE tstate[t]
          /\ result'[t] = IF t \in LastOf(S) /\ result[t] = "task"
                            THEN "destroyed" ELSE result[t]
      BY DEF Unref
    <2> QED
      BY <1>6, <2>1
  <1>8. \A t \in Tasks : tstate'[t] \in TaskStates /\ result'[t] \in Results
    BY <1>1, <1>7 DEF TaskStates, Results
  <1> QED
    BY <1>1, <1>2, <1>4, <1>5, <1>7, <1>8

LEMMA RowTurns ==
  ASSUME RuntimeIInv, NEW c \in Callers, NEW r \in CallRows, call' = [call EXCEPT ![c] = r]
  PROVE  Turns(c, r)
  BY DEF RuntimeIInv, RuntimeTypeOK, Turns

LEMMA ThenTurns ==
  ASSUME RuntimeIInv, NEW c \in Callers, NEW op \in {"idle", "notify"}, Then(c, op)
  PROVE  \E r \in CallRows : /\ Turns(c, r)
                             /\ r.op = op /\ r.snap = {} /\ r.todo = {} /\ r.hit = None
  <1> DEFINE r == [Idle EXCEPT !.op = op]
  <1>1. Idle \in CallRows
    BY DEF Idle, CallRows
  <1>2. r \in CallRows
    BY <1>1 DEF CallRows
  <1>3. r.op = op /\ r.snap = {} /\ r.todo = {} /\ r.hit = None
    BY DEF Idle
  <1>4. call' = [call EXCEPT ![c] = r]
    BY DEF Then
  <1> HIDE DEF r
  <1>5. Turns(c, r)
    BY <1>2, <1>4, RowTurns
  <1> QED
    BY <1>2, <1>3, <1>5

(* A caller that informed nobody and informs nobody leaves the             *)
(* registrations alone.                                                    *)
LEMMA CallsNone ==
  ASSUME RuntimeIInv, NEW c \in Callers, NEW r, Turns(c, r),
         r.op # "inform", ~Doing(c, "inform"), slot' = slot, slot_refs' = slot_refs
  PROVE  Calls(c, r)
  <1>1. /\ slot_refs \in [Slots -> Int] /\ call[c].op # "inform"
    BY DEF RuntimeIInv, RuntimeTypeOK, Doing
  <1>2. \A s \in Slots : /\ B(r.op = "inform" /\ r.slot = s) = 0
                         /\ B(call[c].op = "inform" /\ call[c].slot = s) = 0
    BY <1>1 DEF B
  <1> QED
    BY <1>1, <1>2 DEF Calls

(* What the invariant says of the row of a caller.                         *)
LEMMA RowNow ==
  ASSUME RuntimeIInv, NEW c \in Callers
  PROVE  /\ call[c] \in CallRows
         /\ call[c].todo \cup ({call[c].hit} \ {None}) \subseteq call[c].snap
         /\ call[c].op # "cancel" => call[c].snap = {}
  BY DEF RuntimeIInv, RuntimeTypeOK, CountsAreHolders, Doing

(* Nobody listed, or in a snapshot, is gone.                               *)
LEMMA HeldCounts ==
  ASSUME RuntimeIInv, NEW t \in Tasks
  PROVE  /\ t \in listed => refs[t] > 0
         /\ own[t] => refs[t] > 0
         /\ \A c \in Callers : t \in call[c].snap => refs[t] > 0
  <1>1. PICK k \in Nat, l \in Nat :
          /\ k = Cardinality(Snapshots(t)) /\ l = B(t \in listed)
          /\ refs[t] = B(own[t]) + l + InHand(run[t]) + k
          /\ refs[t] \in Nat
    BY CountOf
  <1>2. B(own[t]) \in {0, 1} /\ InHand(run[t]) \in {0, 1} /\ l \in {0, 1}
    BY <1>1 DEF B, InHand
  <1>3. t \in listed => refs[t] > 0
    BY <1>1, <1>2 DEF B
  <1>4. own[t] => refs[t] > 0
    BY <1>1, <1>2 DEF B
  <1>5. ASSUME NEW c \in Callers, t \in call[c].snap
        PROVE  refs[t] > 0
    <2>1. c \in Snapshots(t) /\ IsFiniteSet(Snapshots(t))
      BY <1>5, CallersFinite DEF Snapshots
    <2>2. k # 0
      BY <1>1, <2>1, FS_EmptySet
    <2> QED
      BY <1>1, <1>2, <2>2
  <1> QED
    BY <1>3, <1>4, <1>5

LEMMA AddSound ==
  ASSUME RuntimeIInv, NEW t \in Tasks, NEW c \in Callers, Add(c, t)
  PROVE  RuntimeIInv'
  <1>1. PICK r \in CallRows : /\ Turns(c, r) /\ r.op = "notify"
                              /\ r.snap = {} /\ r.todo = {} /\ r.hit = None
    BY ThenTurns DEF Add
  <1>2. /\ refs' \in [Tasks -> Int]
        /\ \A u \in Tasks : refs[u] \in Nat /\ refs'[u] = refs[u] + B(u \in {t})
    BY RefAll DEF Add
  <1>3. /\ call[c].op = "idle" /\ call[c].snap = {}
        /\ t \notin listed /\ listed' = listed \cup {t} /\ listed \subseteq Tasks
        /\ own[t]
    BY RowNow DEF Add, Doing, RuntimeIInv, RuntimeTypeOK
  <1>4. /\ tstate' = tstate /\ asked' = asked /\ run' = run /\ result' = result
        /\ own' = own /\ inside' = inside /\ slot' = slot /\ slot_refs' = slot_refs
    BY DEF Add
  <1>5. /\ tstate \in [Tasks -> TaskStates] /\ asked \in [Tasks -> BOOLEAN]
        /\ result \in [Tasks -> Results]
    BY DEF RuntimeIInv, RuntimeTypeOK, Results
  <1>6. ASSUME NEW u \in Tasks
        PROVE  /\ refs'[u] = refs[u] + B(u \in listed') - B(u \in listed)
                               + B(u \in r.snap) - B(u \in call[c].snap)
               /\ refs'[u] >= refs[u]
               /\ refs[u] = 0 => refs'[u] = 0
    <2>1. refs[t] > 0
      BY <1>3, HeldCounts
    <2> QED
      BY <1>1, <1>2, <1>3, <2>1 DEF B
  <1>7. \A u \in Tasks : ~(refs[u] = 1 /\ refs'[u] = 0) /\ refs'[u] >= refs[u] - 1
    BY <1>2, <1>6
  <1>8. Recounts(c, r)
    BY <1>1, <1>2, <1>3, <1>4, <1>5, <1>6, <1>7 DEF Recounts
  <1>9. Calls(c, r)
    BY <1>1, <1>3, <1>4, CallsNone DEF Doing
  <1> QED
    BY <1>8, <1>9, TasksRecounted

LEMMA TakeOffSound ==
  ASSUME RuntimeIInv, NEW c \in Callers, NEW S \in SUBSET listed,
         Doing(c, "idle"), TakeOff(c, S)
  PROVE  RuntimeIInv'
  <1>1. PICK r \in CallRows : /\ Turns(c, r) /\ r.op = "notify"
                              /\ r.snap = {} /\ r.todo = {} /\ r.hit = None
    BY ThenTurns DEF TakeOff
  <1>2. /\ call[c].op = "idle" /\ call[c].snap = {}
        /\ listed' = listed \ S /\ listed \subseteq Tasks
    BY RowNow DEF TakeOff, Doing, RuntimeIInv, RuntimeTypeOK
  <1>3. /\ refs' \in [Tasks -> Int]
        /\ tstate' \in [Tasks -> TaskStates] /\ result' \in [Tasks -> Results]
        /\ \A t \in Tasks :
              /\ refs[t] \in Nat /\ refs'[t] = refs[t] - B(t \in S)
              /\ tstate'[t] = IF refs[t] = 1 /\ refs'[t] = 0 THEN "freed" ELSE tstate[t]
              /\ result'[t] = IF refs[t] = 1 /\ refs'[t] = 0 /\ result[t] = "task"
                                THEN "destroyed" ELSE result[t]
    BY <1>2, UnrefAll DEF TakeOff
  <1>4. /\ asked' = asked /\ run' = run /\ own' = own /\ inside' = inside
        /\ slot' = slot /\ slot_refs' = slot_refs /\ asked \in [Tasks -> BOOLEAN]
    BY DEF TakeOff, RuntimeIInv, RuntimeTypeOK
  <1>5. ASSUME NEW t \in Tasks
        PROVE  /\ refs'[t] = refs[t] + B(t \in listed') - B(t \in listed)
                               + B(t \in r.snap) - B(t \in call[c].snap)
               /\ refs'[t] >= refs[t] - 1
               /\ refs[t] = 0 => refs'[t] = 0
    <2>1. t \in listed => refs[t] > 0
      BY HeldCounts
    <2> QED
      BY <1>1, <1>2, <1>3, <2>1 DEF B
  <1>6. Recounts(c, r)
    BY <1>1, <1>2, <1>3, <1>4, <1>5 DEF Recounts
  <1>7. Calls(c, r)
    BY <1>1, <1>2, <1>4, CallsNone DEF Doing
  <1> QED
    BY <1>6, <1>7, TasksRecounted

LEMMA CancelAllSound ==
  ASSUME RuntimeIInv, NEW c \in Callers, CancelAll(c)
  PROVE  RuntimeIInv'
  <1> DEFINE r == [Idle EXCEPT !.op = "cancel", !.snap = listed, !.todo = listed]
  <1>1. /\ listed \subseteq Tasks /\ listed' = listed
        /\ call[c].op = "idle" /\ call[c].snap = {}
    BY RowNow DEF CancelAll, Doing, RuntimeIInv, RuntimeTypeOK
  <1>2. Idle \in CallRows
    BY DEF Idle, CallRows
  <1>3. r \in CallRows
    BY <1>1, <1>2 DEF CallRows
  <1>4. r.op = "cancel" /\ r.snap = listed /\ r.todo = listed /\ r.hit = None
    BY DEF Idle
  <1>5. call' = [call EXCEPT ![c] = r]
    BY DEF CancelAll
  <1> HIDE DEF r
  <1>6. Turns(c, r)
    BY <1>3, <1>5, RowTurns
  <1>7. /\ refs' \in [Tasks -> Int]
        /\ \A t \in Tasks : refs[t] \in Nat /\ refs'[t] = refs[t] + B(t \in listed)
    BY <1>1, RefAll DEF CancelAll
  <1>8. /\ tstate' = tstate /\ asked' = asked /\ run' = run /\ result' = result
        /\ own' = own /\ inside' = inside /\ slot' = slot /\ slot_refs' = slot_refs
        /\ tstate \in [Tasks -> TaskStates] /\ asked \in [Tasks -> BOOLEAN]
        /\ result \in [Tasks -> Results]
    BY DEF CancelAll, RuntimeIInv, RuntimeTypeOK, Results
  <1>9. ASSUME NEW t \in Tasks
        PROVE  /\ refs'[t] = refs[t] + B(t \in listed') - B(t \in listed)
                               + B(t \in r.snap) - B(t \in call[c].snap)
               /\ refs'[t] >= refs[t] - 1
               /\ refs[t] = 0 => refs'[t] = 0
               /\ ~(refs[t] = 1 /\ refs'[t] = 0)
    <2>1. t \in listed => refs[t] > 0
      BY HeldCounts
    <2> QED
      BY <1>1, <1>4, <1>7, <2>1 DEF B
  <1>10. Recounts(c, r)
    BY <1>1, <1>4, <1>6, <1>7, <1>8, <1>9 DEF Recounts
  <1>11. Calls(c, r)
    BY <1>1, <1>4, <1>6, <1>8, CallsNone DEF Doing
  <1> QED
    BY <1>10, <1>11, TasksRecounted

(* A step of a cancellation in progress that counts nothing.               *)
LEMMA CancelGoesOn ==
  ASSUME RuntimeIInv, NEW c \in Callers, NEW r, Turns(c, r), Doing(c, "cancel"),
         r.op = "cancel", r.snap = call[c].snap,
         r.todo \cup ({r.hit} \ {None}) \subseteq call[c].snap,
         asked' \in [Tasks -> BOOLEAN], \A t \in Tasks : asked[t] => asked'[t],
         UNCHANGED <<tstate, run, result, refs, own, inside, listed, slot, slot_refs>>
  PROVE  RuntimeIInv'
  <1>1. /\ tstate \in [Tasks -> TaskStates] /\ result \in [Tasks -> Results]
        /\ refs \in [Tasks -> Nat] /\ listed \subseteq Tasks
        /\ call[c].op = "cancel"
    BY DEF RuntimeIInv, RuntimeTypeOK, Results, Doing
  <1>2. refs \in [Tasks -> Int]
    BY <1>1
  <1>3. ASSUME NEW t \in Tasks
        PROVE  /\ refs'[t] = refs[t] + B(t \in listed') - B(t \in listed)
                               + B(t \in r.snap) - B(t \in call[c].snap)
               /\ refs'[t] >= refs[t] - 1
               /\ ~(refs[t] = 1 /\ refs'[t] = 0)
    BY <1>1 DEF B
  <1>4. Recounts(c, r)
    BY <1>1, <1>2, <1>3 DEF Recounts
  <1>5. Calls(c, r)
    BY <1>1, CallsNone DEF Doing
  <1> QED
    BY <1>4, <1>5, TasksRecounted

LEMMA CancelLookSound ==
  ASSUME RuntimeIInv, NEW t \in Tasks, NEW c \in Callers, CancelLook(c, t)
  PROVE  RuntimeIInv'
  <1> DEFINE r == Looked(call[c], t)
  <1>1. /\ call[c] \in CallRows /\ call[c].op = "cancel" /\ t \in call[c].todo
        /\ call[c].todo \subseteq call[c].snap
    BY RowNow DEF CancelLook, Doing
  <1>2. r \in CallRows
    BY <1>1 DEF CallRows, Looked
  <1>3. /\ r.op = "cancel" /\ r.snap = call[c].snap /\ r.todo = call[c].todo \ {t}
        /\ r.hit \in {t, None}
    BY <1>1 DEF CallRows, Looked
  <1>4. call' = [call EXCEPT ![c] = r]
    BY DEF CancelLook
  <1> HIDE DEF r
  <1>5. Turns(c, r)
    BY <1>2, <1>4, RowTurns
  <1>6. r.todo \cup ({r.hit} \ {None}) \subseteq call[c].snap
    BY <1>1, <1>3
  <1>7. /\ UNCHANGED <<tstate, run, result, refs, own, inside, listed, slot, slot_refs>>
        /\ asked' = asked /\ asked \in [Tasks -> BOOLEAN]
    BY DEF CancelLook, taskVars, RuntimeIInv, RuntimeTypeOK
  <1>8. Doing(c, "cancel")
    BY <1>1 DEF Doing
  <1> QED
    BY <1>3, <1>5, <1>6, <1>7, <1>8, CancelGoesOn

LEMMA CancelHitSound ==
  ASSUME RuntimeIInv, NEW c \in Callers, CancelHit(c)
  PROVE  RuntimeIInv'
  <1> DEFINE r == [call[c] EXCEPT !.hit = None]
  <1>1. /\ call[c] \in CallRows /\ call[c].op = "cancel"
        /\ call[c].todo \subseteq call[c].snap
    BY RowNow DEF CancelHit, Doing
  <1>2. r \in CallRows
    BY <1>1 DEF CallRows
  <1>3. /\ r.op = "cancel" /\ r.snap = call[c].snap /\ r.todo = call[c].todo /\ r.hit = None
    BY <1>1 DEF CallRows
  <1>4. call' = [call EXCEPT ![c] = r]
    BY DEF CancelHit
  <1> HIDE DEF r
  <1>5. Turns(c, r)
    BY <1>2, <1>4, RowTurns
  <1>6. r.todo \cup ({r.hit} \ {None}) \subseteq call[c].snap
    BY <1>1, <1>3
  <1>7. UNCHANGED <<tstate, run, result, refs, own, inside, listed, slot, slot_refs>>
    BY DEF CancelHit
  <1>8. /\ asked' \in [Tasks -> BOOLEAN]
        /\ \A t \in Tasks : asked[t] => asked'[t]
    BY DEF CancelHit, RuntimeIInv, RuntimeTypeOK
  <1>9. Doing(c, "cancel")
    BY <1>1 DEF Doing
  <1> QED
    BY <1>3, <1>5, <1>6, <1>7, <1>8, <1>9, CancelGoesOn

LEMMA CancelEndSound ==
  ASSUME RuntimeIInv, NEW c \in Callers, CancelEnd(c)
  PROVE  RuntimeIInv'
  <1>1. PICK r \in CallRows : /\ Turns(c, r) /\ r.op \in {"idle", "notify"}
                              /\ r.snap = {} /\ r.todo = {} /\ r.hit = None
    BY ThenTurns DEF CancelEnd
  <1>2. /\ call[c].op = "cancel" /\ call[c].snap \subseteq Tasks
        /\ listed' = listed /\ listed \subseteq Tasks
    BY RowNow DEF CancelEnd, Doing, RuntimeIInv, RuntimeTypeOK, CallRows
  <1>3. /\ refs' \in [Tasks -> Int]
        /\ tstate' \in [Tasks -> TaskStates] /\ result' \in [Tasks -> Results]
        /\ \A t \in Tasks :
              /\ refs[t] \in Nat /\ refs'[t] = refs[t] - B(t \in call[c].snap)
              /\ tstate'[t] = IF refs[t] = 1 /\ refs'[t] = 0 THEN "freed" ELSE tstate[t]
              /\ result'[t] = IF refs[t] = 1 /\ refs'[t] = 0 /\ result[t] = "task"
                                THEN "destroyed" ELSE result[t]
    BY <1>2, UnrefAll DEF CancelEnd
  <1>4. /\ asked' = asked /\ run' = run /\ own' = own /\ inside' = inside
        /\ slot' = slot /\ slot_refs' = slot_refs /\ asked \in [Tasks -> BOOLEAN]
    BY DEF CancelEnd, RuntimeIInv, RuntimeTypeOK
  <1>5. ASSUME NEW t \in Tasks
        PROVE  /\ refs'[t] = refs[t] + B(t \in listed') - B(t \in listed)
                               + B(t \in r.snap) - B(t \in call[c].snap)
               /\ refs'[t] >= refs[t] - 1
               /\ refs[t] = 0 => refs'[t] = 0
    <2>1. t \in call[c].snap => refs[t] > 0
      BY HeldCounts
    <2> QED
      BY <1>1, <1>2, <1>3, <2>1 DEF B
  <1>6. Recounts(c, r)
    BY <1>1, <1>2, <1>3, <1>4, <1>5 DEF Recounts
  <1>7. Calls(c, r)
    BY <1>1, <1>2, <1>4, CallsNone DEF Doing
  <1> QED
    BY <1>6, <1>7, TasksRecounted

(* A step that only concerns the registrations.                            *)
LEMMA TellsSound ==
  ASSUME RuntimeIInv, NEW c \in Callers, NEW r \in CallRows, Turns(c, r), Calls(c, r),
         ~Doing(c, "cancel"), r.op # "cancel", r.snap = {}, r.todo = {}, r.hit = None,
         UNCHANGED <<taskVars, listed>>
  PROVE  RuntimeIInv'
  <1>1. /\ tstate \in [Tasks -> TaskStates] /\ result \in [Tasks -> Results]
        /\ refs \in [Tasks -> Nat] /\ asked \in [Tasks -> BOOLEAN]
        /\ listed \subseteq Tasks /\ call[c].snap = {}
    BY RowNow DEF RuntimeIInv, RuntimeTypeOK, Results, Doing
  <1>2. refs \in [Tasks -> Int]
    BY <1>1
  <1>3. ASSUME NEW t \in Tasks
        PROVE  /\ refs'[t] = refs[t] + B(t \in listed') - B(t \in listed)
                               + B(t \in r.snap) - B(t \in call[c].snap)
               /\ refs'[t] >= refs[t] - 1
               /\ ~(refs[t] = 1 /\ refs'[t] = 0)
    BY <1>1 DEF B, taskVars
  <1>4. Recounts(c, r)
    BY <1>1, <1>2, <1>3 DEF Recounts, taskVars
  <1> QED
    BY <1>4, TasksRecounted

LEMMA NotifySound ==
  ASSUME RuntimeIInv, NEW c \in Callers, Notify(c)
  PROVE  RuntimeIInv'
  <1> DEFINE op == IF slot = None THEN "idle" ELSE "inform"
             r == [Idle EXCEPT !.op = op, !.slot = slot]
  <1>1. /\ slot \in Slots \cup {None} /\ slot_refs \in [Slots -> Int]
        /\ call[c].op = "notify"
    BY DEF Notify, Doing, RuntimeIInv, RuntimeTypeOK
  <1>2. Idle \in CallRows
    BY DEF Idle, CallRows
  <1>3. r \in CallRows
    BY <1>1, <1>2 DEF CallRows
  <1>4. /\ r.op = op /\ r.snap = {} /\ r.todo = {} /\ r.hit = None /\ r.slot = slot
        /\ op # "cancel"
    BY DEF Idle
  <1>5. call' = [call EXCEPT ![c] = r]
    BY DEF Notify
  <1> HIDE DEF r
  <1>6. Turns(c, r)
    BY <1>3, <1>5, RowTurns
  <1>7. slot' = slot /\ slot_refs' = SlotDelta(slot, None)
    BY DEF Notify
  <1>8. slot_refs' \in [Slots -> Int]
    BY <1>1, <1>7 DEF SlotDelta
  <1>9. ASSUME NEW s \in Slots
        PROVE  slot_refs'[s] = slot_refs[s] + B(r.op = "inform" /\ r.slot = s)
                                 - B(call[c].op = "inform" /\ call[c].slot = s)
    BY <1>1, <1>4, <1>7, RuntimeAssumption DEF SlotDelta, B
  <1>10. Calls(c, r)
    BY <1>4, <1>6, <1>7, <1>8, <1>9 DEF Calls
  <1>11. ~Doing(c, "cancel") /\ UNCHANGED <<taskVars, listed>>
    BY <1>1 DEF Doing, Notify
  <1> QED
    BY <1>3, <1>4, <1>6, <1>10, <1>11, TellsSound

LEMMA InformedSound ==
  ASSUME RuntimeIInv, NEW c \in Callers, Informed(c)
  PROVE  RuntimeIInv'
  <1>1. PICK r \in CallRows : /\ Turns(c, r) /\ r.op = "idle"
                              /\ r.snap = {} /\ r.todo = {} /\ r.hit = None
    BY ThenTurns DEF Informed
  <1>2. /\ slot_refs \in [Slots -> Int] /\ call[c].op = "inform"
        /\ slot' = slot /\ slot_refs' = SlotDelta(None, call[c].slot)
    BY DEF Informed, Doing, RuntimeIInv, RuntimeTypeOK
  <1>3. slot_refs' \in [Slots -> Int]
    BY <1>2 DEF SlotDelta
  <1>4. ASSUME NEW s \in Slots
        PROVE  slot_refs'[s] = slot_refs[s] + B(r.op = "inform" /\ r.slot = s)
                                 - B(call[c].op = "inform" /\ call[c].slot = s)
    BY <1>1, <1>2, RuntimeAssumption DEF SlotDelta, B
  <1>5. Calls(c, r)
    BY <1>1, <1>2, <1>3, <1>4 DEF Calls
  <1>6. ~Doing(c, "cancel") /\ UNCHANGED <<taskVars, listed>>
    BY <1>2 DEF Doing, Informed
  <1> QED
    BY <1>1, <1>5, <1>6, TellsSound

LEMMA CallbackSound ==
  ASSUME RuntimeIInv, NEW s \in Slots \cup {None}, SetChangedCallback(s)
  PROVE  RuntimeIInv'
  <1>1. /\ slot_refs \in [Slots -> Int] /\ slot \in Slots \cup {None} /\ slot # s
        /\ s # None => slot_refs[s] = Fresh
        /\ slot' = s /\ call' = call /\ UNCHANGED taskVars /\ listed' = listed
    BY DEF SetChangedCallback, RuntimeIInv, RuntimeTypeOK
  <1>2. \A x \in Slots : slot_refs'[x] = IF x = s THEN 1 ELSE slot_refs[x] - B(x = slot)
    BY <1>1, RuntimeAssumption DEF SetChangedCallback, SlotDelta, B
  <1>3. slot_refs' \in [Slots -> Int]
    <2>1. slot_refs' = [x \in Slots |-> slot_refs'[x]]
      BY DEF SetChangedCallback
    <2>2. \A x \in Slots : slot_refs'[x] \in Int
      BY <1>1, <1>2 DEF B
    <2> QED
      BY <2>1, <2>2
  <1>4. RuntimeTypeOK'
    BY <1>1, <1>3 DEF RuntimeIInv, RuntimeTypeOK, taskVars
  <1>5. StatesAgree' /\ ResultsOwned'
    BY <1>1 DEF RuntimeIInv, StatesAgree, ResultsOwned, taskVars
  <1>6. CountsAreHolders'
    BY <1>1 DEF RuntimeIInv, CountsAreHolders, Holders, Snapshots, Doing, taskVars
  <1>7. ASSUME NEW x \in Slots
        PROVE  IF slot_refs'[x] = Fresh THEN slot' # x /\ Informing(x)' = {}
               ELSE slot_refs'[x] = B(slot' = x) + Cardinality(Informing(x)')
    <2>1. Informing(x)' = Informing(x)
      BY <1>1 DEF Informing
    <2> DEFINE n == Cardinality(Informing(x))
    <2>2. n \in Nat /\ (Informing(x) = {} => n = 0)
      BY CallersFinite, FS_EmptySet DEF Informing
    <2>3. IF slot_refs[x] = Fresh THEN slot # x /\ Informing(x) = {}
          ELSE slot_refs[x] = B(slot = x) + n
      BY DEF RuntimeIInv, SlotsAreHeld
    <2> HIDE DEF n
    <2>4. CASE x = s
      <3>1. slot_refs[x] = Fresh /\ slot_refs'[x] = 1 /\ slot' = x
        BY <1>1, <1>2, <2>4, RuntimeAssumption
      <3> QED
        BY <2>1, <2>2, <2>3, <3>1 DEF B, Fresh, n
    <2>5. CASE x # s
      <3>1. slot_refs'[x] = slot_refs[x] - B(x = slot) /\ slot' # x
        BY <1>1, <1>2, <2>5
      <3>2. CASE slot_refs[x] = Fresh
        BY <2>1, <2>3, <3>1, <3>2 DEF B, Fresh
      <3>3. CASE slot_refs[x] # Fresh
        <4>1. slot_refs'[x] = n
          BY <2>2, <2>3, <3>1, <3>3 DEF B
        <4> QED
          BY <2>1, <2>2, <3>1, <4>1 DEF B, Fresh, n
      <3> QED
        BY <3>2, <3>3
    <2> QED
      BY <2>4, <2>5
  <1> QED
    BY <1>4, <1>5, <1>6, <1>7 DEF RuntimeIInv, SlotsAreHeld

LEMMA ManageSound ==
  ASSUME RuntimeIInv, NEW c \in Callers, Manage(c)
  PROVE  RuntimeIInv'
  <1>1. CASE \E t \in Tasks : Remove(c, t)
    BY <1>1, TakeOffSound DEF Remove
  <1>2. CASE \E t \in Tasks : CancelLook(c, t)
    BY <1>2, CancelLookSound
  <1>3. CASE RemoveFinished(c)
    BY <1>3, TakeOffSound DEF RemoveFinished
  <1>4. CASE CancelAll(c) \/ CancelHit(c) \/ CancelEnd(c)
    BY <1>4, CancelAllSound, CancelHitSound, CancelEndSound
  <1>5. CASE Notify(c) \/ Informed(c)
    BY <1>5, NotifySound, InformedSound
  <1> QED
    BY <1>1, <1>2, <1>3, <1>4, <1>5 DEF Manage

LEMMA RuntimeStays ==
  ASSUME RuntimeIInv, UNCHANGED runtimeVars
  PROVE  RuntimeIInv'
  <1>1. /\ tstate' = tstate /\ asked' = asked /\ run' = run /\ result' = result
        /\ refs' = refs /\ own' = own /\ inside' = inside /\ listed' = listed
        /\ call' = call /\ slot' = slot /\ slot_refs' = slot_refs
    BY DEF runtimeVars, taskVars, managerVars
  <1>2. RuntimeTypeOK' /\ StatesAgree' /\ ResultsOwned'
    BY <1>1 DEF RuntimeIInv, RuntimeTypeOK, StatesAgree, ResultsOwned
  <1>3. CountsAreHolders'
    BY <1>1 DEF RuntimeIInv, CountsAreHolders, Holders, Snapshots, Doing
  <1>4. SlotsAreHeld'
    BY <1>1 DEF RuntimeIInv, SlotsAreHeld, Informing
  <1> QED
    BY <1>2, <1>3, <1>4 DEF RuntimeIInv

LEMMA RuntimeInitSound ==
  ASSUME RuntimeInit
  PROVE  RuntimeIInv
  <1>1. Idle \in CallRows /\ Idle.op = "idle" /\ Idle.snap = {} /\ Idle.todo = {} /\ Idle.hit = None
    BY DEF Idle, CallRows
  <1>2. RuntimeTypeOK
    BY <1>1 DEF RuntimeInit, RuntimeTypeOK, TaskStates, Runs, Fresh
  <1>3. StatesAgree /\ ResultsOwned
    BY RuntimeAssumption DEF RuntimeInit, StatesAgree, ResultsOwned, Verdicts, Finished
  <1>4. /\ \A t \in Tasks : Snapshots(t) = {}
        /\ \A s \in Slots : Informing(s) = {}
    BY <1>1 DEF RuntimeInit, Snapshots, Informing
  <1>5. Cardinality({}) = 0
    BY FS_EmptySet
  <1>6. CountsAreHolders
    BY <1>1, <1>4, <1>5 DEF RuntimeInit, CountsAreHolders, Holders, B, Doing
  <1>7. SlotsAreHeld
    BY <1>4, RuntimeAssumption DEF RuntimeInit, SlotsAreHeld
  <1> QED
    BY <1>2, <1>3, <1>6, <1>7 DEF RuntimeIInv

LEMMA RuntimeNextSound ==
  ASSUME RuntimeIInv, [RuntimeNext]_runtimeVars
  PROVE  RuntimeIInv'
  <1>1. CASE \E t \in Tasks : New(t) \/ StartTask(t) \/ CancelTask(t) \/ Drop(t)
    BY <1>1, NewSound, StartSound, CancelSound, DropSound
  <1>2. CASE \E t \in Tasks : BeginWork(t) \/ Propagate(t) \/ Settle(t) \/ Delivered(t)
    BY <1>2, BeginSound, PropagateSound, SettleSound, DeliveredSound
  <1>3. CASE \E t \in Tasks : \E ok \in BOOLEAN, e \in {"none", "stopped", "other"} :
               WorkerReturns(t, ok, e)
    BY <1>3, ReturnsSound
  <1>4. CASE \E t \in Tasks : \E c \in Callers : Add(c, t)
    BY <1>4, AddSound
  <1>5. CASE \E c \in Callers : Manage(c)
    BY <1>5, ManageSound
  <1>6. CASE \E s \in Slots \cup {None} : SetChangedCallback(s)
    BY <1>6, CallbackSound
  <1>7. CASE UNCHANGED runtimeVars
    BY <1>7, RuntimeStays
  <1> QED
    BY <1>1, <1>2, <1>3, <1>4, <1>5, <1>6, <1>7 DEF RuntimeNext

-----------------------------------------------------------------------------
(* Whoever creates, starts, lists, cancels and drops tasks, in whatever     *)
(* order and from however many threads: the count of a task is the number  *)
(* of its holders, a registration is destroyed when the last caller of it  *)
(* returns, a result has one owner, and the state of a task is that of its *)
(* GTask (background_task.c, task_manager.c).                              *)
THEOREM CountedByHolders == RuntimeSpec => []RuntimeIInv
  <1>1. RuntimeInit => RuntimeIInv
    BY RuntimeInitSound
  <1>2. RuntimeIInv /\ [RuntimeNext]_runtimeVars => RuntimeIInv'
    BY RuntimeNextSound
  <1> QED
    BY <1>1, <1>2, PTL DEF RuntimeSpec

(* The completion finds nothing but a cancellation once it is asked.        *)
LEMMA CancelledEnd ==
  ASSUME RuntimeIInv, [RuntimeNext]_runtimeVars,
         NEW t \in Tasks, asked[t], run[t] \notin {"completed", "failed"}
  PROVE  run'[t] \notin {"completed", "failed"}
  <1>1. run \in [Tasks -> Runs]
    BY DEF RuntimeIInv, RuntimeTypeOK
  <1>2. CASE \E u \in Tasks : New(u) \/ StartTask(u) \/ CancelTask(u) \/ Drop(u)
    BY <1>1, <1>2 DEF New, StartTask, CancelTask, Drop
  <1>3. CASE \E u \in Tasks : BeginWork(u) \/ Settle(u) \/ Delivered(u)
    BY <1>1, <1>3 DEF BeginWork, Settle, Delivered
  <1>4. CASE \E u \in Tasks : Propagate(u)
    BY <1>1, <1>4 DEF Propagate, Final
  <1>5. CASE \E u \in Tasks : \E ok \in BOOLEAN, e \in {"none", "stopped", "other"} :
               WorkerReturns(u, ok, e)
    BY <1>1, <1>5 DEF WorkerReturns, Verdict
  <1>6. CASE \E u \in Tasks : \E c \in Callers : Add(c, u)
    BY <1>6 DEF Add
  <1>7. CASE \E c \in Callers : Manage(c)
    BY <1>7 DEF Manage, Remove, RemoveFinished, TakeOff, CancelLook, CancelAll,
                CancelHit, CancelEnd, Notify, Informed, taskVars
  <1>8. CASE (\E s \in Slots \cup {None} : SetChangedCallback(s)) \/ UNCHANGED runtimeVars
    BY <1>8 DEF SetChangedCallback, runtimeVars, taskVars
  <1> QED
    BY <1>2, <1>3, <1>4, <1>5, <1>6, <1>7, <1>8 DEF RuntimeNext

(* A running task that was asked to stop in time stays running or shows     *)
(* itself cancelled, in every step of the tasks and the manager: it can     *)
(* neither be freed, for its thread holds it, nor end otherwise.           *)
LEMMA CancelledStep ==
  ASSUME RuntimeIInv, [RuntimeNext]_runtimeVars,
         NEW t \in Tasks, asked[t], tstate[t] = "running",
         run[t] \notin {"completed", "failed"}
  PROVE  tstate'[t] \in {"running", "cancelled"}
  <1>1. PICK k \in Nat, l \in Nat :
          /\ k = Cardinality(Snapshots(t)) /\ l = B(t \in listed)
          /\ refs[t] = B(own[t]) + l + InHand(run[t]) + k
          /\ refs[t] \in Nat
    BY CountOf
  <1>2. tstate \in [Tasks -> TaskStates] /\ run[t] \in {"queued", "working", "cancelled"} \cup Verdicts
    BY DEF RuntimeIInv, RuntimeTypeOK, StatesAgree, Runs, Finished
  <1>3. InHand(run[t]) = 1 /\ B(own[t]) \in {0, 1} /\ l \in {0, 1}
    BY <1>1, <1>2 DEF InHand, B, Verdicts
  (* Nobody who lets it go lets the last reference go.                     *)
  <1>4. ASSUME NEW S \in SUBSET Tasks, Unref(S),
               t \in S => own[t] \/ t \in listed \/ k > 0
        PROVE  tstate'[t] = "running"
    <2>1. t \in S => refs[t] # 1
      BY <1>1, <1>3, <1>4 DEF B
    <2> QED
      BY <1>4, <2>1 DEF Unref, LastOf
  <1>5. CASE \E u \in Tasks : New(u) \/ StartTask(u) \/ CancelTask(u) \/ BeginWork(u)
    BY <1>2, <1>5 DEF New, StartTask, CancelTask, BeginWork
  <1>6. CASE \E u \in Tasks : Drop(u)
    <2>1. PICK u \in Tasks : own[u] /\ Unref({u})
      BY <1>6 DEF Drop
    <2> QED
      BY <1>4, <2>1
  <1>7. CASE \E u \in Tasks : Propagate(u) \/ Settle(u)
    BY <1>2, <1>7 DEF Propagate, Settle, Finished
  <1>8. CASE \E u \in Tasks : Delivered(u)
    <2>1. PICK u \in Tasks : run[u] = "delivering" /\ Unref({u})
      BY <1>8 DEF Delivered
    <2>2. u # t
      BY <1>2, <2>1 DEF Verdicts
    <2> QED
      BY <1>4, <2>1, <2>2
  <1>9. CASE \E u \in Tasks :
               \/ \E ok \in BOOLEAN, e \in {"none", "stopped", "other"} :
                    WorkerReturns(u, ok, e)
               \/ \E c \in Callers : Add(c, u)
    BY <1>9 DEF WorkerReturns, Add
  <1>10. ASSUME NEW c \in Callers, Manage(c)
         PROVE  tstate'[t] \in {"running", "cancelled"}
    <2>1. listed \subseteq Tasks /\ call[c].snap \subseteq Tasks
      BY RowNow DEF RuntimeIInv, RuntimeTypeOK, CallRows
    <2>2. CASE \E u \in Tasks : Remove(c, u)
      BY <1>4, <2>1, <2>2 DEF Remove, TakeOff
    <2>3. CASE RemoveFinished(c)
      BY <1>4, <2>1, <2>3 DEF RemoveFinished, TakeOff
    <2>4. CASE CancelEnd(c)
      <3>1. t \in call[c].snap => k > 0
        <4>1. SUFFICES ASSUME t \in call[c].snap PROVE k > 0
          OBVIOUS
        <4>2. c \in Snapshots(t) /\ IsFiniteSet(Snapshots(t))
          BY <4>1, CallersFinite DEF Snapshots
        <4>3. k # 0
          BY <1>1, <4>2, FS_EmptySet
        <4> QED
          BY <1>1, <4>3
      <3> QED
        BY <1>4, <2>1, <2>4, <3>1 DEF CancelEnd
    <2>5. CASE \/ \E u \in Tasks : CancelLook(c, u)
               \/ CancelAll(c) \/ CancelHit(c) \/ Notify(c) \/ Informed(c)
      BY <2>5 DEF CancelLook, CancelAll, CancelHit, Notify, Informed, taskVars
    <2> QED
      BY <1>10, <2>2, <2>3, <2>4, <2>5 DEF Manage
  <1>11. CASE (\E s \in Slots \cup {None} : SetChangedCallback(s)) \/ UNCHANGED runtimeVars
    BY <1>11 DEF SetChangedCallback, runtimeVars, taskVars
  <1> QED
    BY <1>5, <1>6, <1>7, <1>8, <1>9, <1>10, <1>11 DEF RuntimeNext

(* A cancellation asked before the completion tests the cancellable wins    *)
(* over what the worker returned; one that is asked between that test and  *)
(* the write of the state is granted and lost, and the theorem says nothing *)
(* of it (background_task.c: background_task_on_completed).                *)
THEOREM CancellationWins == RuntimeSpec => CancelWins
  <1>1. RuntimeIInv /\ [RuntimeNext]_runtimeVars
          => [\A t \in Tasks :
                asked[t] /\ tstate[t] = "running" /\ run[t] \notin {"completed", "failed"}
                  => /\ tstate'[t] \in {"running", "cancelled"}
                     /\ run'[t] \notin {"completed", "failed"}]_runtimeVars
    BY CancelledStep, CancelledEnd
  <1> QED
    BY <1>1, CountedByHolders, PTL DEF RuntimeSpec, CancelWins

-----------------------------------------------------------------------------
(* The initializer of the tools                                             *)

LEMMA BootsAreTasks == Boots \subseteq Tasks /\ IsFiniteSet(Boots)
  BY InitializerAssumption, RuntimeAssumption, FS_Subset

USE BootsAreTasks

ToolIInv == RuntimeIInv /\ InitializerIInv

Busy == {t \in Boots : Unfinished(t)}

LEMMA BusyChanges ==
  ASSUME NEW t \in Boots, \A u \in Boots \ {t} : run'[u] = run[u]
  PROVE  /\ Cardinality(Busy) \in Nat /\ Cardinality(Busy') \in Nat
         /\ Cardinality(Busy') = Cardinality(Busy) + B(Unfinished(t)') - B(Unfinished(t))
  <1> DEFINE S == Busy
             T == Busy'
  <1>1. /\ S \in SUBSET Boots /\ T \in SUBSET Boots
        /\ \A u \in Boots \ {t} : u \in T <=> u \in S
        /\ t \in T <=> Unfinished(t)'
        /\ t \in S <=> Unfinished(t)
    BY DEF Busy, Unfinished
  <1> HIDE DEF S, T
  <1>2. /\ Cardinality(S) \in Nat /\ Cardinality(T) \in Nat
        /\ Cardinality(T) = Cardinality(S) + B(t \in T) - B(t \in S)
    BY <1>1, SetChanges, RuntimeAssumption
  <1>3. B(t \in T) = B(Unfinished(t)') /\ B(t \in S) = B(Unfinished(t))
    BY <1>1 DEF B
  <1> QED
    BY <1>2, <1>3 DEF S, T

(* Nobody's summary says anything else as long as it and the registry stay. *)
LEMMA SaysSame ==
  ASSUME NEW t, NEW u, NEW done, registry' = registry, boot'[u].sum = boot[t].sum
  PROVE  SaysOf(u, done)' <=> SaysOf(t, done)
  BY DEF SaysOf

(* What the initializer knows of its tasks.                                *)
LEMMA ToolFacts ==
  ASSUME ToolIInv
  PROVE  /\ ini \in IniRows /\ boot \in [Boots -> BootRows]
         /\ registry \in [known : BOOLEAN, avail : [Tools -> Availability],
                          version : SUBSET Tools]
         /\ run \in [Tasks -> Runs] /\ own \in [Tasks -> BOOLEAN]
         /\ tstate \in [Tasks -> TaskStates]
         /\ ini.refs = B(ini.alive) + 2 * Cardinality(Busy)
  BY DEF ToolIInv, InitializerIInv, ToolTypeOK, RuntimeIInv, RuntimeTypeOK,
         InitializerHeld, Busy

(* Steps of other users of the manager, and cancellations.                 *)
LEMMA InitializerUntouched ==
  ASSUME ToolIInv, UNCHANGED initializerVars, run' = run, own' = own,
         \A t \in Boots : own[t] => tstate'[t] = tstate[t],
         \A t \in Boots : tstate'[t] \in {tstate[t], "freed"}
  PROVE  InitializerIInv'
  <1>1. ini' = ini /\ boot' = boot /\ registry' = registry
    BY DEF initializerVars
  <1>2. ToolTypeOK' /\ OneBootstrap' /\ InitializerHeld' /\ RunningIsBusy'
    BY <1>1 DEF ToolIInv, InitializerIInv, ToolTypeOK, OneBootstrap, InitializerHeld,
                RunningIsBusy, Unsettled, Unfinished
  <1>3. StartInOrder'
    BY <1>1 DEF ToolIInv, InitializerIInv, StartInOrder, Unsettled
  <1>4. SummaryIsRegistry'
    BY <1>1 DEF ToolIInv, InitializerIInv, SummaryIsRegistry, SaysOf, Through
  <1> QED
    BY <1>2, <1>3, <1>4 DEF InitializerIInv

LEMMA ManageKeepsTool ==
  ASSUME ToolIInv, NEW c \in Callers, Manage(c), UNCHANGED initializerVars
  PROVE  ToolIInv'
  <1>1. RuntimeIInv'
    BY ManageSound DEF ToolIInv
  <1>2. /\ run' = run /\ own' = own
        /\ \A t \in Boots : tstate'[t] \in {tstate[t], "freed"}
    <2>1. CASE \/ \E t \in Tasks : Remove(c, t)
               \/ RemoveFinished(c) \/ CancelEnd(c)
      BY <2>1 DEF Remove, RemoveFinished, CancelEnd, TakeOff, Unref
    <2>2. CASE \/ \E t \in Tasks : CancelLook(c, t)
               \/ CancelAll(c) \/ CancelHit(c) \/ Notify(c) \/ Informed(c)
      BY <2>2 DEF CancelLook, CancelAll, CancelHit, Notify, Informed, taskVars
    <2> QED
      BY <2>1, <2>2 DEF Manage
  <1>3. \A t \in Boots : own[t] => tstate'[t] = tstate[t]
    BY <1>1, <1>2 DEF RuntimeIInv, StatesAgree
  <1>4. InitializerIInv'
    BY <1>2, <1>3, InitializerUntouched
  <1> QED
    BY <1>1, <1>4 DEF ToolIInv

LEMMA StartKeepsTool ==
  ASSUME ToolIInv, Start
  PROVE  ToolIInv'
  <1>1. RuntimeIInv'
    BY RuntimeStays DEF ToolIInv, Start
  <1>2. /\ ini' = [ini EXCEPT !.running = TRUE, !.summary = None, !.start = "new"]
        /\ boot' = boot /\ registry' = registry /\ run' = run /\ own' = own /\ tstate' = tstate
        /\ ini.start = "idle" /\ ini.alive /\ ~ini.running
    BY DEF Start, MainFree, runtimeVars, taskVars
  <1>3. /\ ini' \in IniRows /\ ini'.alive = ini.alive /\ ini'.refs = ini.refs
        /\ ini'.running = TRUE /\ ini'.task = ini.task /\ ini'.previous = ini.previous
        /\ ini'.start = "new" /\ ini'.summary = None
    BY <1>2, ToolFacts DEF IniRows
  <1>4. \A t \in Boots : ~Unsettled(t)
    BY <1>2 DEF ToolIInv, InitializerIInv, RunningIsBusy
  <1>5. ToolTypeOK'
    BY <1>2, <1>3, ToolFacts DEF ToolTypeOK
  <1>6. OneBootstrap' /\ StartInOrder' /\ RunningIsBusy'
    BY <1>2, <1>3, <1>4 DEF ToolIInv, InitializerIInv, OneBootstrap, StartInOrder,
                            RunningIsBusy, Unsettled
  <1>7. InitializerHeld'
    BY <1>2, <1>3 DEF ToolIInv, InitializerIInv, InitializerHeld, Unfinished
  <1>8. SummaryIsRegistry'
    BY <1>2, <1>3 DEF ToolIInv, InitializerIInv, SummaryIsRegistry, SaysOf, Through
  <1> QED
    BY <1>1, <1>5, <1>6, <1>7, <1>8 DEF ToolIInv, InitializerIInv

LEMMA StartNewKeepsTool ==
  ASSUME ToolIInv, NEW t \in Boots, StartNew(t)
  PROVE  ToolIInv'
  <1>1. RuntimeIInv'
    BY NewSound DEF ToolIInv, StartNew
  <1>2. /\ ini' = [ini EXCEPT !.start = "add", !.previous = t]
        /\ boot' = boot /\ registry' = registry /\ run' = run
        /\ own' = [own EXCEPT ![t] = TRUE] /\ tstate' = [tstate EXCEPT ![t] = "pending"]
        /\ ini.start = "new" /\ tstate[t] = "none"
    BY DEF StartNew, StartIs, New
  <1>3. /\ ini' \in IniRows /\ ini'.alive = ini.alive /\ ini'.refs = ini.refs
        /\ ini'.running = ini.running /\ ini'.task = ini.task /\ ini'.previous = t
        /\ ini'.start = "add" /\ ini'.summary = ini.summary
    BY <1>2, ToolFacts DEF IniRows
  <1>4. /\ ini.task # t
        /\ \A u \in Boots : own[u] => own'[u]
        /\ own'[t] /\ tstate'[t] = "pending"
        /\ \A u \in Boots \ {t} : tstate'[u] = tstate[u]
    BY <1>2, ToolFacts, RuntimeAssumption
       DEF ToolIInv, InitializerIInv, InitializerHeld, RuntimeIInv, StatesAgree, IniRows
  <1>5. ToolTypeOK'
    BY <1>2, <1>3, ToolFacts DEF ToolTypeOK
  <1>6. OneBootstrap' /\ StartInOrder' /\ RunningIsBusy'
    BY <1>2, <1>3, <1>4 DEF ToolIInv, InitializerIInv, OneBootstrap, StartInOrder,
                            RunningIsBusy, Unsettled
  <1>7. InitializerHeld'
    BY <1>2, <1>3, <1>4, ToolFacts
       DEF ToolIInv, InitializerIInv, InitializerHeld, Unfinished, IniRows
  <1>8. SummaryIsRegistry'
    BY <1>2, <1>3, <1>4 DEF ToolIInv, InitializerIInv, SummaryIsRegistry, SaysOf, Through
  <1> QED
    BY <1>1, <1>5, <1>6, <1>7, <1>8 DEF ToolIInv, InitializerIInv

LEMMA StartAddKeepsTool ==
  ASSUME ToolIInv, StartAdd
  PROVE  ToolIInv'
  <1>1. ini.previous \in Boots /\ main \in Callers
    BY InitializerAssumption DEF StartAdd, StartIs, ToolIInv, InitializerIInv, StartInOrder
  <1>2. RuntimeIInv'
    BY <1>1, AddSound DEF ToolIInv, StartAdd
  <1>3. /\ ini' = [ini EXCEPT !.start = "begin"]
        /\ boot' = boot /\ registry' = registry /\ run' = run /\ own' = own
        /\ tstate' = tstate /\ ini.start = "add"
    BY DEF StartAdd, StartIs, Add
  <1>4. /\ ini' \in IniRows /\ ini'.alive = ini.alive /\ ini'.refs = ini.refs
        /\ ini'.running = ini.running /\ ini'.task = ini.task
        /\ ini'.previous = ini.previous
        /\ ini'.start = "begin" /\ ini'.summary = ini.summary
    BY <1>3, ToolFacts DEF IniRows
  <1>5. ToolTypeOK'
    BY <1>3, <1>4, ToolFacts DEF ToolTypeOK
  <1>6. OneBootstrap' /\ StartInOrder' /\ RunningIsBusy'
    BY <1>3, <1>4 DEF ToolIInv, InitializerIInv, OneBootstrap, StartInOrder,
                      RunningIsBusy, Unsettled
  <1>7. InitializerHeld'
    BY <1>3, <1>4 DEF ToolIInv, InitializerIInv, InitializerHeld, Unfinished
  <1>8. SummaryIsRegistry'
    BY <1>3, <1>4 DEF ToolIInv, InitializerIInv, SummaryIsRegistry, SaysOf, Through
  <1> QED
    BY <1>2, <1>5, <1>6, <1>7, <1>8 DEF ToolIInv, InitializerIInv

LEMMA AtMoves ==
  ASSUME ToolIInv, NEW t \in Boots, NEW where \in {"idle", "catalog", "refresh", "check", "completing"},
         At(t, where)
  PROVE  /\ boot' \in [Boots -> BootRows]
         /\ boot'[t].at = where /\ boot'[t].left = boot[t].left /\ boot'[t].sum = boot[t].sum
         /\ \A u \in Boots \ {t} : boot'[u] = boot[u]
         /\ \A u \in Boots : boot'[u].left = boot[u].left /\ boot'[u].sum = boot[u].sum
  <1> DEFINE row == [boot[t] EXCEPT !.at = where]
  <1>1. boot \in [Boots -> BootRows]
    BY ToolFacts
  <1>2. /\ row \in BootRows
        /\ row.at = where /\ row.left = boot[t].left /\ row.sum = boot[t].sum
    BY <1>1 DEF BootRows
  <1>3. boot' = [boot EXCEPT ![t] = row]
    BY DEF At
  <1> HIDE DEF row
  <1> QED
    BY <1>1, <1>2, <1>3

LEMMA StartBeginKeepsTool ==
  ASSUME ToolIInv, StartBegin
  PROVE  ToolIInv'
  <1>1. PICK t \in Boots : t = ini.previous /\ own[t] /\ tstate[t] = "pending" /\ t # ini.task
    BY DEF StartBegin, StartIs, ToolIInv, InitializerIInv, StartInOrder
  <1>2. RuntimeIInv'
    BY <1>1, StartSound DEF ToolIInv, StartBegin
  <1>3. /\ ini' = [ini EXCEPT !.start = IF ini.task = None THEN "idle" ELSE "drop",
                              !.task = t, !.previous = ini.task, !.refs = ini.refs + 2]
        /\ At(t, "catalog") /\ registry' = registry
        /\ run' = [run EXCEPT ![t] = "queued"] /\ own' = own
        /\ tstate' = [tstate EXCEPT ![t] = "running"]
        /\ ini.start = "begin"
    BY <1>1 DEF StartBegin, StartIs, StartTask
  <1>4. /\ ini' \in IniRows /\ ini'.alive = ini.alive /\ ini'.refs = ini.refs + 2
        /\ ini'.running = ini.running /\ ini'.task = t /\ ini'.previous = ini.task
        /\ ini'.start = (IF ini.task = None THEN "idle" ELSE "drop")
        /\ ini'.summary = ini.summary
    <2> DEFINE where == IF ini.task = None THEN "idle" ELSE "drop"
               n == ini.refs + 2
    <2>1. /\ where \in {"idle", "drop"} /\ n \in Nat /\ ini.task \in Boots \cup {None}
          /\ ini \in IniRows
      BY ToolFacts DEF IniRows
    <2>2. ini' = [ini EXCEPT !.start = where, !.task = t, !.previous = ini.task, !.refs = n]
      BY <1>3
    <2> HIDE DEF where, n
    <2>3. /\ ini' \in IniRows /\ ini'.alive = ini.alive /\ ini'.refs = n
          /\ ini'.running = ini.running /\ ini'.task = t /\ ini'.previous = ini.task
          /\ ini'.start = where /\ ini'.summary = ini.summary
      BY <2>1, <2>2 DEF IniRows
    <2> QED
      BY <2>3 DEF where, n
  <1>5. /\ run'[t] = "queued" /\ \A u \in Boots \ {t} : run'[u] = run[u]
        /\ tstate'[t] = "running" /\ \A u \in Boots \ {t} : tstate'[u] = tstate[u]
        /\ run[t] = "none"
    BY <1>1, <1>3, ToolFacts
       DEF ToolIInv, RuntimeIInv, StatesAgree, Runs, Verdicts, Finished
  <1>6. /\ boot' \in [Boots -> BootRows]
        /\ boot'[t].at = "catalog" /\ boot'[t].left = boot[t].left
        /\ boot'[t].sum = boot[t].sum
        /\ \A u \in Boots \ {t} : boot'[u] = boot[u]
        /\ \A u \in Boots : boot'[u].sum = boot[u].sum
    BY <1>1, <1>3, AtMoves
  <1>7. /\ \A u \in Boots : ~Unsettled(u)
        /\ ini.running /\ ini.summary = None
        /\ ini.alive /\ boot[t].left = Tools /\ boot[t].sum = Zero
        /\ ini.task # None => own[ini.task]
    BY <1>1, <1>3 DEF ToolIInv, InitializerIInv, StartInOrder, RunningIsBusy, InitializerHeld,
                      SummaryIsRegistry
  <1>8. ToolTypeOK'
    BY <1>3, <1>4, <1>6, ToolFacts DEF ToolTypeOK
  <1>9. OneBootstrap' /\ RunningIsBusy'
    BY <1>1, <1>4, <1>5, <1>6, <1>7
       DEF ToolIInv, InitializerIInv, OneBootstrap, RunningIsBusy, Unsettled, Verdicts
  <1>10. StartInOrder'
    BY <1>1, <1>3, <1>4, <1>7, ToolFacts DEF StartInOrder, IniRows
  <1>11. InitializerHeld'
    <2>1. /\ Cardinality(Busy) \in Nat /\ Cardinality(Busy') \in Nat
          /\ Cardinality(Busy') = Cardinality(Busy) + B(Unfinished(t)') - B(Unfinished(t))
      BY <1>1, <1>5, BusyChanges
    <2>2. B(Unfinished(t)') = 1 /\ B(Unfinished(t)) = 0 /\ B(ini.alive) \in Nat
      BY <1>5 DEF Unfinished, B, Verdicts
    <2>3. ini.refs = B(ini.alive) + 2 * Cardinality(Busy)
      BY ToolFacts
    <2>4. ini'.refs = B(ini'.alive) + 2 * Cardinality(Busy')
      BY <1>4, <2>1, <2>2, <2>3
    <2> QED
      BY <1>1, <1>3, <1>4, <1>7, <2>4 DEF InitializerHeld, Busy
  <1>12. SummaryIsRegistry'
    <2>1. \A u \in Boots : ~Through(u)'
      BY <1>5, <1>6, <1>7 DEF Unsettled, Through, Verdicts, Finished
    <2>2. \A u \in Boots \ {t} : boot'[u].at = "idle"
      BY <1>6, <1>7 DEF ToolIInv, InitializerIInv, OneBootstrap, Unsettled
    <2> QED
      BY <1>4, <1>5, <1>6, <1>7, <2>1, <2>2
         DEF ToolIInv, InitializerIInv, SummaryIsRegistry
  <1> QED
    BY <1>2, <1>8, <1>9, <1>10, <1>11, <1>12 DEF ToolIInv, InitializerIInv

LEMMA StartDropKeepsTool ==
  ASSUME ToolIInv, StartDrop
  PROVE  ToolIInv'
  <1>1. PICK t \in Boots : t = ini.previous /\ own[t] /\ t # ini.task
    BY DEF StartDrop, StartIs, ToolIInv, InitializerIInv, StartInOrder
  <1>2. RuntimeIInv'
    BY <1>1, DropSound DEF ToolIInv, StartDrop
  <1>3. /\ ini' = [ini EXCEPT !.start = "idle", !.previous = None]
        /\ boot' = boot /\ registry' = registry
        /\ run' = run /\ own' = [own EXCEPT ![t] = FALSE]
        /\ \A u \in Boots : tstate'[u] \in {tstate[u], "freed"}
        /\ ini.start = "drop"
    BY <1>1 DEF StartDrop, StartIs, Drop, Unref
  <1>4. /\ ini' \in IniRows /\ ini'.alive = ini.alive /\ ini'.refs = ini.refs
        /\ ini'.running = ini.running /\ ini'.task = ini.task /\ ini'.previous = None
        /\ ini'.start = "idle" /\ ini'.summary = ini.summary
    BY <1>3, ToolFacts DEF IniRows
  <1>5. ToolTypeOK'
    BY <1>3, <1>4, ToolFacts DEF ToolTypeOK
  <1>6. OneBootstrap' /\ StartInOrder' /\ RunningIsBusy'
    BY <1>3, <1>4 DEF ToolIInv, InitializerIInv, OneBootstrap, StartInOrder,
                      RunningIsBusy, Unsettled
  <1>7. InitializerHeld'
    BY <1>1, <1>3, <1>4, ToolFacts
       DEF ToolIInv, InitializerIInv, InitializerHeld, Unfinished, IniRows
  <1>8. SummaryIsRegistry'
    BY <1>3, <1>4 DEF ToolIInv, InitializerIInv, SummaryIsRegistry, SaysOf, Through
  <1> QED
    BY <1>2, <1>5, <1>6, <1>7, <1>8 DEF ToolIInv, InitializerIInv

LEMMA CancelTaskKeepsTool ==
  ASSUME ToolIInv, NEW t \in Boots, CancelTask(t), UNCHANGED initializerVars
  PROVE  ToolIInv'
  <1>1. RuntimeIInv'
    BY CancelSound DEF ToolIInv
  <1>2. run' = run /\ own' = own /\ tstate' = tstate
    BY DEF CancelTask
  <1>3. InitializerIInv'
    BY <1>2, InitializerUntouched
  <1> QED
    BY <1>1, <1>3 DEF ToolIInv

LEMMA ListenKeepsTool ==
  ASSUME ToolIInv, NEW s \in Slots \cup {None}, ListenTo(s)
  PROVE  ToolIInv'
  <1>1. RuntimeIInv'
    BY CallbackSound DEF ToolIInv, ListenTo
  <1>2. run' = run /\ own' = own /\ tstate' = tstate /\ UNCHANGED initializerVars
    BY DEF ListenTo, SetChangedCallback, taskVars
  <1>3. InitializerIInv'
    BY <1>2, InitializerUntouched
  <1> QED
    BY <1>1, <1>3 DEF ToolIInv

(* Steps of the worker: only task t is unsettled.                          *)
LEMMA OnlyWorker ==
  ASSUME ToolIInv, NEW t \in Boots, run[t] \in {"queued", "working"}
  PROVE  /\ ini.running /\ ini.task = t /\ ini.summary = None
         /\ ini.start \notin {"new", "add", "begin"}
         /\ tstate[t] = "running"
         /\ \A u \in Boots \ {t} : ~Unsettled(u) /\ boot[u].at = "idle"
  BY DEF ToolIInv, InitializerIInv, OneBootstrap, StartInOrder, Unsettled,
         RuntimeIInv, StatesAgree

LEMMA BeginWorkKeepsTool ==
  ASSUME ToolIInv, NEW t \in Boots, BeginWork(t), UNCHANGED initializerVars
  PROVE  ToolIInv'
  <1>1. RuntimeIInv'
    BY BeginSound DEF ToolIInv
  <1>2. /\ run[t] = "queued" /\ run'[t] = "working"
        /\ \A u \in Boots \ {t} : run'[u] = run[u]
        /\ tstate' = tstate /\ own' = own
        /\ ini' = ini /\ boot' = boot /\ registry' = registry
    BY ToolFacts DEF BeginWork, initializerVars
  <1>3. ToolTypeOK'
    BY <1>2, ToolFacts DEF ToolTypeOK
  <1>4. /\ \A u \in Boots : Unsettled(u)' <=> Unsettled(u)
        /\ \A u \in Boots : Unfinished(u)' <=> Unfinished(u)
        /\ \A u \in Boots : Through(u)' <=> Through(u)
        /\ \A u \in Boots : run'[u] = "delivering" <=> run[u] = "delivering"
        /\ \A u \in Boots : run[u] \in {"queued", "working"} => run'[u] \in {"queued", "working"}
    BY <1>2 DEF Unsettled, Unfinished, Through, Verdicts, Finished
  <1>5. OneBootstrap' /\ StartInOrder' /\ RunningIsBusy'
    BY <1>2, <1>4 DEF ToolIInv, InitializerIInv, OneBootstrap, StartInOrder, RunningIsBusy
  <1>6. InitializerHeld'
    <2>1. Busy' = Busy
      BY <1>4 DEF Busy
    <2> QED
      BY <1>2, <2>1 DEF ToolIInv, InitializerIInv, InitializerHeld, Busy
  <1>7. SummaryIsRegistry'
    BY <1>2, <1>4 DEF ToolIInv, InitializerIInv, SummaryIsRegistry, SaysOf
  <1> QED
    BY <1>1, <1>3, <1>5, <1>6, <1>7 DEF ToolIInv, InitializerIInv

(* The worker at work writes the registry and its summary.                 *)
LEMMA WorkKeepsTool ==
  ASSUME ToolIInv, NEW t \in Boots, run[t] = "working",
         boot'[t].at \in {"catalog", "refresh", "check"},
         UNCHANGED <<runtimeVars, ini>>,
         boot' \in [Boots -> BootRows],
         registry' \in [known : BOOLEAN, avail : [Tools -> Availability],
                        version : SUBSET Tools],
         \A u \in Boots \ {t} : boot'[u] = boot[u],
         boot'[t].at \in {"catalog", "refresh"} =>
           boot'[t].left = Tools /\ boot'[t].sum = Zero,
         boot'[t].at = "check" => SaysOf(t, Tools \ boot[t].left)'
  PROVE  ToolIInv'
  <1>1. RuntimeIInv'
    BY RuntimeStays DEF ToolIInv
  <1>2. ini' = ini /\ run' = run /\ tstate' = tstate /\ own' = own
    BY DEF runtimeVars, taskVars
  <1>3. /\ ini.running /\ ini.task = t /\ ini.summary = None
        /\ tstate[t] = "running"
        /\ \A u \in Boots \ {t} : ~Unsettled(u) /\ boot[u].at = "idle"
    BY OnlyWorker
  <1>4. ToolTypeOK'
    BY <1>2, ToolFacts DEF ToolTypeOK
  <1>5. OneBootstrap' /\ StartInOrder' /\ RunningIsBusy'
    BY <1>2, <1>3 DEF ToolIInv, InitializerIInv, OneBootstrap, StartInOrder, RunningIsBusy,
                      Unsettled
  <1>6. InitializerHeld'
    BY <1>2 DEF ToolIInv, InitializerIInv, InitializerHeld, Unfinished
  <1>7. SummaryIsRegistry'
    <2>1. \A u \in Boots : ~Through(u)'
      BY <1>2, <1>3 DEF Unsettled, Through, Verdicts, Finished
    <2>2. ASSUME NEW u \in Boots \ {t}, tstate[u] \in {"none", "pending"}
          PROVE  boot[u].left = Tools /\ boot[u].sum = Zero
      BY <2>2 DEF ToolIInv, InitializerIInv, SummaryIsRegistry
    <2> QED
      BY <1>2, <1>3, <2>1, <2>2 DEF SummaryIsRegistry, SaysOf
  <1> QED
    BY <1>1, <1>4, <1>5, <1>6, <1>7 DEF ToolIInv, InitializerIInv

LEMMA CatalogKeepsTool ==
  ASSUME ToolIInv, NEW t \in Boots, RegisterCatalog(t)
  PROVE  ToolIInv'
  <1>1. /\ run[t] = "working" /\ boot[t].at = "catalog" /\ At(t, "refresh")
        /\ registry' = [registry EXCEPT !.known = TRUE]
        /\ UNCHANGED <<runtimeVars, ini>>
    BY DEF RegisterCatalog
  <1>2. registry' \in [known : BOOLEAN, avail : [Tools -> Availability],
                       version : SUBSET Tools]
    BY <1>1, ToolFacts
  <1>3. boot[t].left = Tools /\ boot[t].sum = Zero
    BY <1>1 DEF ToolIInv, InitializerIInv, SummaryIsRegistry
  <1>4. /\ boot' \in [Boots -> BootRows]
        /\ boot'[t].at = "refresh" /\ boot'[t].left = boot[t].left
        /\ boot'[t].sum = boot[t].sum
        /\ \A u \in Boots \ {t} : boot'[u] = boot[u]
    BY <1>1, AtMoves
  <1> QED
    BY <1>1, <1>2, <1>3, <1>4, WorkKeepsTool

LEMMA RefreshKeepsTool ==
  ASSUME ToolIInv, NEW t \in Boots, NEW S \in SUBSET Tools, Refresh(t, S)
  PROVE  ToolIInv'
  <1> DEFINE avail == [x \in Tools |-> IF x \in S THEN "available" ELSE "missing"]
  <1>1. /\ run[t] = "working" /\ boot[t].at = "refresh" /\ At(t, "check")
        /\ registry' = [registry EXCEPT !.avail = avail]
        /\ UNCHANGED <<runtimeVars, ini>>
    BY DEF Refresh
  <1>2. /\ avail \in [Tools -> Availability]
        /\ \A x \in Tools : avail[x] # "unknown"
    BY DEF Availability
  <1> HIDE DEF avail
  <1>3. /\ registry' \in [known : BOOLEAN, avail : [Tools -> Availability],
                          version : SUBSET Tools]
        /\ registry'.avail = avail
    BY <1>1, <1>2, ToolFacts
  <1>4. boot[t].left = Tools /\ boot[t].sum = Zero
    BY <1>1 DEF ToolIInv, InitializerIInv, SummaryIsRegistry
  <1>5. /\ boot' \in [Boots -> BootRows]
        /\ boot'[t].at = "check" /\ boot'[t].left = boot[t].left
        /\ boot'[t].sum = boot[t].sum
        /\ \A u \in Boots \ {t} : boot'[u] = boot[u]
    BY <1>1, AtMoves
  <1>6. SaysOf(t, Tools \ boot[t].left)'
    BY <1>2, <1>3, <1>4, <1>5 DEF SaysOf, Zero
  <1> QED
    BY <1>1, <1>3, <1>5, <1>6, WorkKeepsTool

LEMMA CheckKeepsTool ==
  ASSUME ToolIInv, NEW t \in Boots, NEW x \in Tools, NEW d \in BOOLEAN, Check(t, x, d)
  PROVE  ToolIInv'
  <1> DEFINE row == Checked(boot[t], x, d)
             known == IF d THEN registry.version \cup {x} ELSE registry.version \ {x}
  <1>1. /\ run[t] = "working" /\ boot[t].at = "check" /\ x \in boot[t].left
        /\ boot' = [boot EXCEPT ![t] = row]
        /\ registry' = [registry EXCEPT !.version = known]
        /\ UNCHANGED <<runtimeVars, ini>>
    BY DEF Check
  <1>2. /\ boot \in [Boots -> BootRows] /\ boot[t] \in BootRows
        /\ registry \in [known : BOOLEAN, avail : [Tools -> Availability],
                         version : SUBSET Tools]
    BY ToolFacts
  <1>3. /\ row.at = "check" /\ row.left = boot[t].left \ {x}
        /\ row.sum.available = boot[t].sum.available
             \cup (IF registry.avail[x] = "available" THEN {x} ELSE {})
        /\ row.sum.missing = boot[t].sum.missing
             \cup (IF registry.avail[x] = "missing" THEN {x} ELSE {})
        /\ row.sum.detected = boot[t].sum.detected \cup (IF d THEN {x} ELSE {})
    BY <1>1, <1>2 DEF Checked, BootRows
  <1>4. row \in BootRows
    BY <1>2 DEF Checked, BootRows
  <1>5. known \in SUBSET Tools
    BY <1>2
  <1>6. /\ known \cap (Tools \ row.left) =
             (registry.version \cap (Tools \ boot[t].left)) \cup (IF d THEN {x} ELSE {})
    BY <1>1, <1>2, <1>3 DEF BootRows
  <1> HIDE DEF row, known
  <1>7. /\ registry' \in [known : BOOLEAN, avail : [Tools -> Availability],
                          version : SUBSET Tools]
        /\ registry'.avail = registry.avail /\ registry'.version = known
    BY <1>1, <1>2, <1>5
  <1>8. /\ boot' \in [Boots -> BootRows] /\ boot'[t] = row
        /\ \A u \in Boots \ {t} : boot'[u] = boot[u]
    BY <1>1, <1>2, <1>4
  <1>9. SaysOf(t, Tools \ boot[t].left)
    BY <1>1 DEF ToolIInv, InitializerIInv, SummaryIsRegistry
  <1>10. Tools \ row.left = (Tools \ boot[t].left) \cup {x}
    BY <1>1, <1>2, <1>3 DEF BootRows
  <1>11. SaysOf(t, Tools \ boot[t].left)'
    <2> DEFINE done == Tools \ boot[t].left
               now == Tools \ row.left
    <2>1. /\ boot[t].sum.available = {y \in done : registry.avail[y] = "available"}
          /\ boot[t].sum.missing = {y \in done : registry.avail[y] = "missing"}
          /\ boot[t].sum.detected = registry.version \cap done
          /\ \A y \in Tools : registry.avail[y] # "unknown"
      BY <1>9 DEF SaysOf
    <2>2. now = done \cup {x}
      BY <1>10
    <2>3. known \cap now = (registry.version \cap done) \cup (IF d THEN {x} ELSE {})
      BY <1>6
    <2> HIDE DEF done, now
    <2>4. row.sum.available = {y \in now : registry.avail[y] = "available"}
      BY <1>3, <2>1, <2>2
    <2>5. row.sum.missing = {y \in now : registry.avail[y] = "missing"}
      BY <1>3, <2>1, <2>2
    <2>6. row.sum.detected = known \cap now
      BY <1>3, <2>1, <2>3
    <2> QED
      BY <1>7, <1>8, <2>1, <2>4, <2>5, <2>6 DEF SaysOf, now
  <1> QED
    BY <1>1, <1>3, <1>7, <1>8, <1>11, WorkKeepsTool

(* The worker returns: it is idle, and what it says is still the registry. *)
LEMMA ReturnKeepsTool ==
  ASSUME ToolIInv, NEW t \in Boots, NEW ok \in BOOLEAN,
         NEW e \in {"none", "stopped", "other"},
         WorkerReturns(t, ok, e), At(t, "idle"), UNCHANGED <<ini, registry>>,
         ok => SaysOf(t, Tools)
  PROVE  ToolIInv'
  <1>1. RuntimeIInv'
    BY ReturnsSound DEF ToolIInv
  <1>2. PICK v \in Verdicts : v = Verdict(ok, e)
    BY DEF Verdict, Verdicts
  <1>3. /\ run[t] = "working" /\ run'[t] = v
        /\ \A u \in Boots \ {t} : run'[u] = run[u]
        /\ tstate' = tstate /\ own' = own /\ ini' = ini /\ registry' = registry
    BY <1>2, ToolFacts DEF WorkerReturns
  <1>4. /\ boot' \in [Boots -> BootRows]
        /\ boot'[t].at = "idle"
        /\ \A u \in Boots \ {t} : boot'[u] = boot[u]
        /\ \A u \in Boots : boot'[u].left = boot[u].left /\ boot'[u].sum = boot[u].sum
    BY AtMoves
  <1>5. /\ \A u \in Boots : Unsettled(u)' <=> Unsettled(u)
        /\ \A u \in Boots : Unfinished(u)' <=> Unfinished(u)
    BY <1>3, <1>4 DEF Unsettled, Unfinished, Verdicts, ToolIInv, InitializerIInv, OneBootstrap
  <1>6. ToolTypeOK'
    BY <1>3, <1>4, ToolFacts DEF ToolTypeOK
  <1>7. OneBootstrap' /\ StartInOrder' /\ RunningIsBusy'
    BY <1>3, <1>4, <1>5 DEF ToolIInv, InitializerIInv, OneBootstrap, StartInOrder, RunningIsBusy
  <1>8. InitializerHeld'
    <2>1. Busy' = Busy
      BY <1>5 DEF Busy
    <2> QED
      BY <1>3, <2>1 DEF ToolIInv, InitializerIInv, InitializerHeld, Busy
  <1>9. SummaryIsRegistry'
    <2>1. /\ ini.summary = None /\ tstate[t] = "running"
          /\ \A u \in Boots \ {t} : ~Unsettled(u) /\ boot[u].at = "idle"
      BY <1>3, OnlyWorker
    <2>2. \A u \in Boots \ {t} : ~Through(u)' /\ boot'[u].at = "idle"
      BY <1>3, <1>4, <2>1 DEF Unsettled, Through, Verdicts, Finished
    <2>3. Through(t)' => SaysOf(t, Tools)'
      <3>1. v = "ok" => ok
        BY <1>2 DEF Verdict
      <3>2. SaysOf(t, Tools)' <=> SaysOf(t, Tools)
        BY <1>3, <1>4 DEF SaysOf
      <3>3. Through(t)' => v = "ok"
        BY <1>2, <1>3, <1>4 DEF Through, Verdicts
      <3> QED
        BY <3>1, <3>2, <3>3
    <2>4. ASSUME NEW u \in Boots, tstate[u] \in {"none", "pending"}
          PROVE  boot'[u].left = Tools /\ boot'[u].sum = Zero
      BY <1>4, <2>4 DEF ToolIInv, InitializerIInv, SummaryIsRegistry
    <2> QED
      BY <1>3, <1>4, <2>1, <2>2, <2>3, <2>4 DEF SummaryIsRegistry
  <1> QED
    BY <1>1, <1>6, <1>7, <1>8, <1>9 DEF ToolIInv, InitializerIInv

LEMMA BootstrapKeepsTool ==
  ASSUME ToolIInv, NEW t \in Boots, Bootstrap(t)
  PROVE  ToolIInv'
  <1>1. CASE BeginWork(t) /\ UNCHANGED initializerVars
    BY <1>1, BeginWorkKeepsTool
  <1>2. CASE RegisterCatalog(t)
    BY <1>2, CatalogKeepsTool
  <1>3. CASE \E S \in SUBSET Tools : Refresh(t, S)
    BY <1>3, RefreshKeepsTool
  <1>4. CASE \E x \in Tools, d \in BOOLEAN : Check(t, x, d)
    BY <1>4, CheckKeepsTool
  <1>5. CASE BootStops(t)
    BY <1>5, ReturnKeepsTool DEF BootStops, Stops
  <1>6. CASE BootFails(t)
    BY <1>6, ReturnKeepsTool DEF BootFails
  <1>7. CASE BootSucceeds(t)
    <2>1. boot[t].at = "check" /\ boot[t].left = {}
      BY <1>7 DEF BootSucceeds
    <2>2. Tools \ boot[t].left = Tools
      BY <2>1
    <2>3. SaysOf(t, Tools)
      BY <2>1, <2>2 DEF ToolIInv, InitializerIInv, SummaryIsRegistry
    <2> QED
      BY <1>7, <2>3, ReturnKeepsTool DEF BootSucceeds
  <1> QED
    BY <1>1, <1>2, <1>3, <1>4, <1>5, <1>6, <1>7 DEF Bootstrap

(* The completion of task t, the only one that is unsettled, goes on to the *)
(* next of its stages: the callback is still to come.                       *)
LEMMA CompletionKeepsTool ==
  ASSUME ToolIInv, RuntimeIInv', NEW t \in Boots, Unsettled(t), Unsettled(t)',
         UNCHANGED <<ini, registry, own>>,
         boot' \in [Boots -> BootRows],
         boot'[t].left = boot[t].left, boot'[t].sum = boot[t].sum,
         \A u \in Boots \ {t} :
           run'[u] = run[u] /\ tstate'[u] = tstate[u] /\ boot'[u] = boot[u],
         tstate'[t] \notin {"none", "pending"},
         Unfinished(t)' <=> Unfinished(t),
         \/ boot'[t].at = "idle"
         \/ boot'[t].at = "completing" /\ run'[t] = "delivering",
         Through(t)' => Through(t)
  PROVE  ToolIInv'
  <1>1. /\ ini.running /\ ini.task = t /\ ini.summary = None
        /\ ini.start \notin {"new", "add", "begin"}
        /\ \A u \in Boots \ {t} : ~Unsettled(u) /\ boot[u].at = "idle"
    BY DEF ToolIInv, InitializerIInv, OneBootstrap, StartInOrder, Unsettled
  <1>2. /\ \A u \in Boots : Unsettled(u)' <=> Unsettled(u)
        /\ \A u \in Boots : Unfinished(u)' <=> Unfinished(u)
        /\ \A u \in Boots \ {t} : ~Through(u)'
    BY <1>1 DEF Unsettled, Unfinished, Through, Verdicts, Finished
  <1>3. ToolTypeOK'
    BY ToolFacts DEF ToolTypeOK
  <1>4. OneBootstrap' /\ RunningIsBusy'
    BY <1>1, <1>2 DEF ToolIInv, InitializerIInv, OneBootstrap, RunningIsBusy
  <1>5. StartInOrder'
    BY <1>1 DEF ToolIInv, InitializerIInv, StartInOrder
  <1>6. InitializerHeld'
    <2>1. Busy' = Busy
      BY <1>2 DEF Busy
    <2> QED
      BY <2>1 DEF ToolIInv, InitializerIInv, InitializerHeld, Busy
  <1>7. SummaryIsRegistry'
    <2>1. ASSUME NEW u \in Boots, tstate'[u] \in {"none", "pending"}
          PROVE  boot'[u].left = Tools /\ boot'[u].sum = Zero
      BY <2>1 DEF ToolIInv, InitializerIInv, SummaryIsRegistry
    <2>2. Through(t)' => SaysOf(t, Tools)'
      BY DEF ToolIInv, InitializerIInv, SummaryIsRegistry, SaysOf
    <2> QED
      BY <1>1, <1>2, <2>1, <2>2 DEF SummaryIsRegistry
  <1> QED
    BY <1>3, <1>4, <1>5, <1>6, <1>7 DEF ToolIInv, InitializerIInv

LEMMA PropagateKeepsTool ==
  ASSUME ToolIInv, NEW t \in Boots, MyPropagate(t)
  PROVE  ToolIInv'
  <1>1. RuntimeIInv'
    BY PropagateSound DEF ToolIInv, MyPropagate
  <1>2. /\ run[t] \in Verdicts /\ run' = [run EXCEPT ![t] = Final(t)] /\ Final(t) \in Finished
        /\ Final(t) = "completed" => run[t] = "ok"
        /\ UNCHANGED <<ini, registry, own, tstate, boot>>
    BY DEF MyPropagate, Propagate, Final, Finished, initializerVars
  <1>3. /\ run'[t] = Final(t) /\ \A u \in Boots \ {t} : run'[u] = run[u]
        /\ boot[t].at = "idle" /\ tstate[t] = "running"
    BY <1>2, ToolFacts DEF ToolIInv, InitializerIInv, OneBootstrap, RuntimeIInv,
                           StatesAgree, Verdicts
  <1>4. /\ Unsettled(t) /\ Unsettled(t)' /\ Unfinished(t) /\ Unfinished(t)'
        /\ Through(t)' => Through(t)
    BY <1>2, <1>3 DEF Unsettled, Unfinished, Through, Verdicts, Finished
  <1> QED
    BY <1>1, <1>2, <1>3, <1>4, CompletionKeepsTool, ToolFacts

LEMMA SettleKeepsTool ==
  ASSUME ToolIInv, NEW t \in Boots, MySettle(t)
  PROVE  ToolIInv'
  <1>1. RuntimeIInv'
    BY SettleSound DEF ToolIInv, MySettle
  <1>2. /\ run[t] \in Finished /\ run' = [run EXCEPT ![t] = "delivering"]
        /\ tstate' = [tstate EXCEPT ![t] = run[t]]
        /\ At(t, "completing") /\ UNCHANGED <<ini, registry, own>>
    BY DEF MySettle, Settle
  <1>3. /\ run'[t] = "delivering" /\ tstate'[t] = run[t]
        /\ \A u \in Boots \ {t} : run'[u] = run[u] /\ tstate'[u] = tstate[u]
    BY <1>2, ToolFacts
  <1>4. /\ boot' \in [Boots -> BootRows] /\ boot'[t].at = "completing"
        /\ \A u \in Boots \ {t} : boot'[u] = boot[u]
        /\ \A u \in Boots : boot'[u].left = boot[u].left /\ boot'[u].sum = boot[u].sum
    BY <1>2, AtMoves
  <1>5. /\ Unsettled(t) /\ Unsettled(t)' /\ Unfinished(t) /\ Unfinished(t)'
        /\ Through(t)' => Through(t)
        /\ tstate'[t] \notin {"none", "pending"}
    BY <1>2, <1>3, <1>4 DEF Unsettled, Unfinished, Through, Finished
  <1> QED
    BY <1>1, <1>2, <1>3, <1>4, <1>5, CompletionKeepsTool

LEMMA CompletedKeepsTool ==
  ASSUME ToolIInv, NEW t \in Boots, MyCompleted(t)
  PROVE  ToolIInv'
  <1> DEFINE kept == IF tstate[t] = "completed" THEN t ELSE None
  <1>1. RuntimeIInv'
    BY RuntimeStays DEF ToolIInv, MyCompleted
  <1>2. /\ boot[t].at = "completing" /\ At(t, "idle")
        /\ ini' = [ini EXCEPT !.running = FALSE, !.summary = kept]
        /\ registry' = registry /\ own' = own /\ run' = run /\ tstate' = tstate
    BY DEF MyCompleted, runtimeVars, taskVars
  <1>3. /\ ini.task = t /\ ini.start \notin {"new", "add", "begin"}
        /\ run[t] = "delivering" /\ kept \in Boots \cup {None}
        /\ \A u \in Boots \ {t} : ~Unsettled(u) /\ boot[u].at = "idle"
        /\ kept # None => kept = t /\ SaysOf(t, Tools)
    BY <1>2 DEF ToolIInv, InitializerIInv, OneBootstrap, StartInOrder, Unsettled,
                SummaryIsRegistry, Through
  <1> HIDE DEF kept
  <1>4. /\ ini' \in IniRows /\ ini'.alive = ini.alive /\ ini'.refs = ini.refs
        /\ ini'.running = FALSE /\ ini'.task = ini.task /\ ini'.previous = ini.previous
        /\ ini'.start = ini.start /\ ini'.summary = kept
    BY <1>2, <1>3, ToolFacts DEF IniRows
  <1>5. /\ boot' \in [Boots -> BootRows]
        /\ \A u \in Boots : boot'[u].at = "idle"
        /\ \A u \in Boots : boot'[u].left = boot[u].left /\ boot'[u].sum = boot[u].sum
    BY <1>2, <1>3, AtMoves
  <1>6. \A u \in Boots : ~Unsettled(u)' /\ ~Through(u)'
    BY <1>2, <1>3, <1>5 DEF Unsettled, Through, Verdicts, Finished
  <1>7. ToolTypeOK'
    BY <1>2, <1>4, <1>5, ToolFacts DEF ToolTypeOK
  <1>8. OneBootstrap' /\ StartInOrder' /\ RunningIsBusy'
    BY <1>2, <1>3, <1>4, <1>5, <1>6
       DEF ToolIInv, InitializerIInv, OneBootstrap, StartInOrder, RunningIsBusy
  <1>9. InitializerHeld'
    <2>1. Busy' = Busy
      BY <1>2 DEF Busy, Unfinished
    <2> QED
      BY <1>2, <1>4, <2>1 DEF ToolIInv, InitializerIInv, InitializerHeld, Busy
  <1>10. SummaryIsRegistry'
    <2>1. ASSUME NEW u \in Boots, tstate'[u] \in {"none", "pending"}
          PROVE  boot'[u].left = Tools /\ boot'[u].sum = Zero
      BY <1>2, <1>5, <2>1 DEF ToolIInv, InitializerIInv, SummaryIsRegistry
    <2>2. ini'.summary # None => ini'.summary = t /\ SaysOf(t, Tools)'
      BY <1>2, <1>3, <1>4, <1>5 DEF SaysOf
    <2> QED
      BY <1>5, <1>6, <2>1, <2>2 DEF SummaryIsRegistry
  <1> QED
    BY <1>1, <1>7, <1>8, <1>9, <1>10 DEF ToolIInv, InitializerIInv

LEMMA DeliveredKeepsTool ==
  ASSUME ToolIInv, NEW t \in Boots, MyDelivered(t)
  PROVE  ToolIInv'
  <1> DEFINE n == ini.refs - 2
  <1>1. RuntimeIInv'
    BY DeliveredSound DEF ToolIInv, MyDelivered
  <1>2. /\ ini.start = "idle" /\ run[t] = "delivering" /\ boot[t].at # "completing"
        /\ ini' = [ini EXCEPT !.refs = n]
        /\ boot' = boot /\ registry' = registry /\ own' = own
        /\ run' = [run EXCEPT ![t] = "done"]
        /\ \A u \in Boots : tstate'[u] \in {tstate[u], "freed"}
    BY DEF MyDelivered, MainFree, Completing, Delivered, Unref
  <1>3. /\ run[t] = "delivering" /\ run'[t] = "done"
        /\ \A u \in Boots \ {t} : run'[u] = run[u]
    BY <1>2, ToolFacts
  <1>4. /\ Cardinality(Busy) \in Nat /\ Cardinality(Busy') \in Nat
        /\ Cardinality(Busy') = Cardinality(Busy) - 1
        /\ n \in Nat /\ n = B(ini.alive) + 2 * Cardinality(Busy')
    <2>1. /\ Cardinality(Busy) \in Nat /\ Cardinality(Busy') \in Nat
          /\ Cardinality(Busy') = Cardinality(Busy) + B(Unfinished(t)') - B(Unfinished(t))
      BY <1>3, BusyChanges
    <2>2. B(Unfinished(t)') = 0 /\ B(Unfinished(t)) = 1 /\ B(ini.alive) \in Nat
      BY <1>3 DEF Unfinished, B, Verdicts
    <2>3. ini.refs = B(ini.alive) + 2 * Cardinality(Busy)
      BY ToolFacts
    <2> QED
      BY <2>1, <2>2, <2>3
  <1> HIDE DEF n
  <1>5. /\ ini' \in IniRows /\ ini'.alive = ini.alive /\ ini'.refs = n
        /\ ini'.running = ini.running /\ ini'.task = ini.task
        /\ ini'.previous = ini.previous
        /\ ini'.start = "idle" /\ ini'.summary = ini.summary
    BY <1>2, <1>4, ToolFacts DEF IniRows
  <1>6. /\ \A u \in Boots : Unsettled(u)' <=> Unsettled(u)
        /\ \A u \in Boots : Through(u)' => Through(u)
        /\ \A u \in Boots : run'[u] \in {"queued", "working"} <=> run[u] \in {"queued", "working"}
        /\ \A u \in Boots : boot[u].at = "completing" => run'[u] = run[u]
    BY <1>2, <1>3 DEF Unsettled, Through, Verdicts, Finished
  <1>7. ToolTypeOK'
    BY <1>2, <1>5, ToolFacts DEF ToolTypeOK
  <1>8. OneBootstrap' /\ StartInOrder' /\ RunningIsBusy'
    BY <1>2, <1>5, <1>6 DEF ToolIInv, InitializerIInv, OneBootstrap, StartInOrder,
                            RunningIsBusy
  <1>9. InitializerHeld'
    BY <1>2, <1>4, <1>5 DEF ToolIInv, InitializerIInv, InitializerHeld, Busy
  <1>10. SummaryIsRegistry'
    BY <1>2, <1>5, <1>6 DEF ToolIInv, InitializerIInv, SummaryIsRegistry, SaysOf
  <1> QED
    BY <1>1, <1>7, <1>8, <1>9, <1>10 DEF ToolIInv, InitializerIInv

LEMMA FreeKeepsTool ==
  ASSUME ToolIInv, Free
  PROVE  ToolIInv'
  <1> DEFINE n == ini.refs - 1
  <1>1. /\ ini.start = "idle" /\ ini.alive
        /\ ini' = [ini EXCEPT !.alive = FALSE, !.refs = n]
        /\ boot' = boot /\ registry' = registry
    BY DEF Free, MainFree
  <1>2. RuntimeIInv' /\ run' = run /\ own' = own /\ tstate' = tstate
    <2>1. CASE UNCHANGED runtimeVars
      BY <2>1, RuntimeStays DEF ToolIInv, runtimeVars, taskVars
    <2>2. CASE ini.task # None /\ CancelTask(ini.task)
      <3>1. ini.task \in Boots
        BY <2>2, ToolFacts DEF IniRows
      <3> QED
        BY <2>2, <3>1, CancelSound DEF ToolIInv, CancelTask
    <2> QED
      BY <2>1, <2>2 DEF Free, AskIfRunning
  <1>3. n \in Nat /\ n = 2 * Cardinality(Busy)
    <2>1. Cardinality(Busy) \in Nat
      BY RuntimeAssumption, FS_Subset, FS_CardinalityType DEF Busy
    <2>2. ini.refs = B(ini.alive) + 2 * Cardinality(Busy) /\ B(ini.alive) = 1
      BY <1>1, ToolFacts DEF B
    <2> QED
      BY <2>1, <2>2
  <1> HIDE DEF n
  <1>4. /\ ini' \in IniRows /\ ini'.alive = FALSE /\ ini'.refs = n
        /\ ini'.running = ini.running /\ ini'.task = ini.task
        /\ ini'.previous = ini.previous
        /\ ini'.start = "idle" /\ ini'.summary = ini.summary
    BY <1>1, <1>3, ToolFacts DEF IniRows
  <1>5. ToolTypeOK'
    BY <1>1, <1>4, ToolFacts DEF ToolTypeOK
  <1>6. OneBootstrap' /\ StartInOrder' /\ RunningIsBusy'
    BY <1>1, <1>2, <1>4 DEF ToolIInv, InitializerIInv, OneBootstrap, StartInOrder,
                            RunningIsBusy, Unsettled
  <1>7. InitializerHeld'
    <2>1. Busy' = Busy
      BY <1>2 DEF Busy, Unfinished
    <2>2. n = B(FALSE) + 2 * Cardinality(Busy)
      <3>1. Cardinality(Busy) \in Nat
        BY RuntimeAssumption, FS_Subset, FS_CardinalityType DEF Busy
      <3> QED
        BY <1>3, <3>1 DEF B
    <2> QED
      BY <1>2, <1>4, <2>1, <2>2 DEF ToolIInv, InitializerIInv, InitializerHeld, Busy
  <1>8. SummaryIsRegistry'
    BY <1>1, <1>2, <1>4 DEF ToolIInv, InitializerIInv, SummaryIsRegistry, SaysOf, Through
  <1> QED
    BY <1>2, <1>5, <1>6, <1>7, <1>8 DEF ToolIInv, InitializerIInv

(* The last reference is gone: no worker, no completion, no start.         *)
LEMMA DestroyKeepsTool ==
  ASSUME ToolIInv, Destroy
  PROVE  ToolIInv'
  <1>1. PICK t \in Boots : t = ini.task
    BY ToolFacts DEF Destroy, IniRows
  <1>2. RuntimeIInv'
    BY <1>1, DropSound DEF ToolIInv, Destroy
  <1>3. /\ ini.start = "idle" /\ ini.refs = 0
        /\ ini' = [ini EXCEPT !.task = None]
        /\ boot' = boot /\ registry' = registry
        /\ run' = run /\ own' = [own EXCEPT ![t] = FALSE]
        /\ \A u \in Boots : tstate'[u] \in {tstate[u], "freed"}
    BY <1>1 DEF Destroy, MainFree, Drop, Unref
  <1>4. /\ ini' \in IniRows /\ ini'.alive = ini.alive /\ ini'.refs = ini.refs
        /\ ini'.running = ini.running /\ ini'.task = None /\ ini'.previous = ini.previous
        /\ ini'.start = "idle" /\ ini'.summary = ini.summary
    BY <1>3, ToolFacts DEF IniRows
  <1>5. \A u \in Boots : ~Unsettled(u)
    <2>1. IsFiniteSet(Busy) /\ Cardinality(Busy) \in Nat
      BY RuntimeAssumption, FS_Subset, FS_CardinalityType DEF Busy
    <2>2. ini.refs = B(ini.alive) + 2 * Cardinality(Busy) /\ B(ini.alive) \in Nat
      BY ToolFacts DEF B
    <2>3. Cardinality(Busy) = 0
      BY <1>3, <2>1, <2>2
    <2>4. Busy = {}
      BY <2>1, <2>3, FS_EmptySet
    <2> QED
      BY <2>4 DEF Busy, Unsettled, Unfinished, Verdicts, Finished,
                  ToolIInv, InitializerIInv, OneBootstrap
  <1>6. ToolTypeOK'
    BY <1>3, <1>4, ToolFacts DEF ToolTypeOK
  <1>7. OneBootstrap' /\ StartInOrder' /\ RunningIsBusy'
    BY <1>3, <1>4, <1>5 DEF ToolIInv, InitializerIInv, OneBootstrap, StartInOrder,
                            RunningIsBusy, Unsettled
  <1>8. InitializerHeld'
    BY <1>3, <1>4 DEF ToolIInv, InitializerIInv, InitializerHeld, Unfinished
  <1>9. SummaryIsRegistry'
    BY <1>3, <1>4 DEF ToolIInv, InitializerIInv, SummaryIsRegistry, SaysOf, Through
  <1> QED
    BY <1>2, <1>6, <1>7, <1>8, <1>9 DEF ToolIInv, InitializerIInv

LEMMA ToolInitSound ==
  ASSUME ToolInit
  PROVE  ToolIInv
  <1>1. RuntimeIInv
    BY RuntimeInitSound DEF ToolInit
  <1>2. /\ ini \in IniRows /\ ini.alive = TRUE /\ ini.refs = 1 /\ ini.running = FALSE
        /\ ini.task = None /\ ini.start = "idle" /\ ini.summary = None
    BY DEF ToolInit, IniRows
  <1>3. /\ boot \in [Boots -> BootRows]
        /\ \A t \in Boots : boot[t].at = "idle" /\ boot[t].left = Tools /\ boot[t].sum = Zero
    BY DEF ToolInit, BootRows, Zero
  <1>4. \A t \in Boots : run[t] = "none" /\ ~Unsettled(t) /\ ~Unfinished(t)
    BY <1>3 DEF ToolInit, RuntimeInit, Unsettled, Unfinished, Verdicts, Finished
  <1>5. ToolTypeOK
    BY <1>2, <1>3 DEF ToolInit, ToolTypeOK, Availability
  <1>6. OneBootstrap /\ StartInOrder /\ RunningIsBusy
    BY <1>2, <1>3, <1>4 DEF OneBootstrap, StartInOrder, RunningIsBusy
  <1>7. InitializerHeld
    <2>1. {t \in Boots : Unfinished(t)} = {}
      BY <1>4
    <2>2. Cardinality({t \in Boots : Unfinished(t)}) = 0
      BY <2>1, FS_EmptySet
    <2>3. B(ini.alive) = 1 /\ 1 = 1 + 2 * 0
      BY <1>2 DEF B
    <2> QED
      BY <1>2, <2>2, <2>3 DEF InitializerHeld
  <1>8. SummaryIsRegistry
    BY <1>2, <1>3, <1>4 DEF SummaryIsRegistry, Through
  <1> QED
    BY <1>1, <1>5, <1>6, <1>7, <1>8 DEF ToolIInv, InitializerIInv

LEMMA ToolNextSound ==
  ASSUME ToolIInv, [ToolNext]_toolVars
  PROVE  ToolIInv'
  <1>1. CASE Start \/ Starting
    BY <1>1, StartKeepsTool, StartNewKeepsTool, StartAddKeepsTool, StartBeginKeepsTool,
       StartDropKeepsTool DEF Starting
  <1>2. CASE Cancel
    <2>1. ini.task \in Boots
      BY <1>2, ToolFacts DEF Cancel, IniRows
    <2> QED
      BY <1>2, <2>1, CancelTaskKeepsTool DEF Cancel
  <1>3. CASE Free \/ Destroy
    BY <1>3, FreeKeepsTool, DestroyKeepsTool
  <1>4. CASE \E t \in Boots :
               \/ Bootstrap(t) \/ MyPropagate(t) \/ MySettle(t)
               \/ MyCompleted(t) \/ MyDelivered(t)
    BY <1>4, BootstrapKeepsTool, PropagateKeepsTool, SettleKeepsTool, CompletedKeepsTool,
       DeliveredKeepsTool
  <1>5. CASE \E c \in Users \cup {main} : UseManager(c)
    BY <1>5, ManageKeepsTool, InitializerAssumption DEF UseManager
  <1>6. CASE \E s \in Slots \cup {None} : ListenTo(s)
    BY <1>6, ListenKeepsTool
  <1>7. CASE UNCHANGED toolVars
    <2>1. RuntimeIInv'
      BY <1>7, RuntimeStays DEF ToolIInv, toolVars
    <2>2. UNCHANGED initializerVars /\ run' = run /\ own' = own /\ tstate' = tstate
      BY <1>7 DEF toolVars, runtimeVars, taskVars
    <2> QED
      BY <2>1, <2>2, InitializerUntouched DEF ToolIInv
  <1> QED
    BY <1>1, <1>2, <1>3, <1>4, <1>5, <1>6, <1>7 DEF ToolNext

(* Whatever is started, cancelled, listed and freed while a worker runs: the *)
(* registry has one writer, the initializer outlives its worker and its     *)
(* completion and is running exactly while it is busy, and a summary kept   *)
(* says what the registry says (tool_initializer.c, tool_registry.c).       *)
THEOREM InitializerSound == ToolSpec => [](RuntimeIInv /\ InitializerIInv)
  <1>1. ToolInit => ToolIInv
    BY ToolInitSound
  <1>2. ToolIInv /\ [ToolNext]_toolVars => ToolIInv'
    BY ToolNextSound
  <1>3. ToolIInv => RuntimeIInv /\ InitializerIInv
    BY DEF ToolIInv
  <1> QED
    BY <1>1, <1>2, <1>3, PTL DEF ToolSpec

(* Each step of the initializer is one of the tasks and their manager, or  *)
(* none of theirs: it uses them as they are meant to be used, and a         *)
(* cancellation wins there too.                                            *)
THEOREM InitializerUsesTasks == ToolSpec => RuntimeSpec
  <1>1. ToolInit => RuntimeInit
    BY DEF ToolInit
  <1>2. ASSUME ToolIInv, [ToolNext]_toolVars
        PROVE  [RuntimeNext]_runtimeVars
    <2>1. CASE Start \/ UNCHANGED toolVars
      BY <2>1 DEF Start, toolVars
    <2>2. CASE Starting
      <3>1. CASE \E t \in Boots : StartNew(t)
        BY <3>1 DEF StartNew, RuntimeNext
      <3>2. CASE StartAdd \/ StartBegin \/ StartDrop
        <4>1. ini.previous \in Boots /\ main \in Callers
          BY <1>2, <3>2, InitializerAssumption
             DEF StartAdd, StartBegin, StartDrop, StartIs, ToolIInv, InitializerIInv,
                 StartInOrder
        <4> QED
          BY <3>2, <4>1 DEF StartAdd, StartBegin, StartDrop, RuntimeNext
      <3> QED
        BY <2>2, <3>1, <3>2 DEF Starting
    <2>3. CASE Cancel \/ Free \/ Destroy
      <3>1. ini.task # None => ini.task \in Boots
        BY <1>2, ToolFacts DEF IniRows
      <3> QED
        BY <2>3, <3>1 DEF Cancel, Free, AskIfRunning, Destroy, RuntimeNext
    <2>4. ASSUME NEW t \in Boots, Bootstrap(t)
          PROVE  [RuntimeNext]_runtimeVars
      <3>1. CASE BeginWork(t)
        BY <3>1 DEF RuntimeNext
      <3>2. CASE \/ RegisterCatalog(t) \/ \E S \in SUBSET Tools : Refresh(t, S)
                 \/ \E x \in Tools, d \in BOOLEAN : Check(t, x, d)
        BY <3>2 DEF RegisterCatalog, Refresh, Check
      <3>3. CASE BootStops(t) \/ BootFails(t) \/ BootSucceeds(t)
        BY <3>3 DEF BootStops, Stops, BootFails, BootSucceeds, RuntimeNext
      <3> QED
        BY <2>4, <3>1, <3>2, <3>3 DEF Bootstrap
    <2>5. CASE \E t \in Boots :
                 MyPropagate(t) \/ MySettle(t) \/ MyCompleted(t) \/ MyDelivered(t)
      BY <2>5 DEF MyPropagate, MySettle, MyCompleted, MyDelivered, RuntimeNext
    <2>6. CASE \E c \in Users \cup {main} : UseManager(c)
      BY <2>6, InitializerAssumption DEF UseManager, RuntimeNext
    <2>7. CASE \E s \in Slots \cup {None} : ListenTo(s)
      BY <2>7 DEF ListenTo, RuntimeNext
    <2> QED
      BY <1>2, <2>1, <2>2, <2>3, <2>4, <2>5, <2>6, <2>7 DEF ToolNext
  <1>3. ToolInit => ToolIInv
    BY ToolInitSound
  <1>4. ToolIInv /\ [ToolNext]_toolVars => ToolIInv'
    BY ToolNextSound
  <1> QED
    BY <1>1, <1>2, <1>3, <1>4, PTL DEF ToolSpec, RuntimeSpec

-----------------------------------------------------------------------------
(* The loading of the graph                                                 *)

LEMMA LoadsAreTasks == Loads \subseteq Tasks /\ IsFiniteSet(Loads)
  BY GraphAssumption, RuntimeAssumption, FS_Subset

HIDE BootsAreTasks
USE LoadsAreTasks

GraphIInv == RuntimeIInv /\ LoadIInv

Waiting == {t \in Loads : Pending(t)}

LEMMA WaitingChanges ==
  ASSUME NEW t \in Loads, \A u \in Loads \ {t} : run'[u] = run[u]
  PROVE  /\ Cardinality(Waiting) \in Nat /\ Cardinality(Waiting') \in Nat
         /\ Cardinality(Waiting') =
              Cardinality(Waiting) + B(Pending(t)') - B(Pending(t))
  <1> DEFINE S == Waiting
             T == Waiting'
  <1>1. /\ S \in SUBSET Loads /\ T \in SUBSET Loads
        /\ \A u \in Loads \ {t} : u \in T <=> u \in S
        /\ t \in T <=> Pending(t)'
        /\ t \in S <=> Pending(t)
    BY DEF Waiting, Pending
  <1> HIDE DEF S, T
  <1>2. /\ Cardinality(S) \in Nat /\ Cardinality(T) \in Nat
        /\ Cardinality(T) = Cardinality(S) + B(t \in T) - B(t \in S)
    BY <1>1, SetChanges, RuntimeAssumption
  <1>3. B(t \in T) = B(Pending(t)') /\ B(t \in S) = B(Pending(t))
    BY <1>1 DEF B
  <1> QED
    BY <1>2, <1>3 DEF S, T

LEMMA LoadFacts ==
  ASSUME GraphIInv
  PROVE  /\ db \in Tables /\ load \in LoadRows /\ graph \in [Loads -> Tables]
         /\ data \in [Loads -> {"none", "held", "lent", "destroyed"}]
         /\ at \in [Loads -> {"idle", "open", "entities", "relations", "positions", "result"}]
         /\ run \in [Tasks -> Runs] /\ own \in [Tasks -> BOOLEAN]
         /\ tstate \in [Tasks -> TaskStates]
         /\ load.refs = B(~load.disposed) + Cardinality(Waiting)
         /\ Cardinality(Waiting) \in Nat
  BY RuntimeAssumption, FS_Subset, FS_CardinalityType
     DEF GraphIInv, LoadIInv, LoadTypeOK, RuntimeIInv, RuntimeTypeOK, LoadLedger, Waiting

(* A task that has not shown its end is the one the load runs.             *)
LEMMA OnlyLoad ==
  ASSUME GraphIInv, NEW t \in Loads, run[t] \in {"queued", "working"} \cup Verdicts \cup Finished
  PROVE  /\ load.running /\ load.task = t /\ load.layout = None
         /\ tstate[t] = "running" /\ own[t]
         /\ \A u \in Loads \ {t} : tstate[u] # "running"
  <1>1. tstate[t] = "running"
    BY DEF GraphIInv, RuntimeIInv, StatesAgree
  <1>2. load.running /\ load.task = t /\ own[t]
    BY <1>1, RuntimeAssumption DEF GraphIInv, LoadIInv, LoadLedger
  <1>3. \A u \in Loads \ {t} : tstate[u] # "running"
    BY <1>2 DEF GraphIInv, LoadIInv, LoadLedger
  <1>4. load.layout = None
    BY <1>2 DEF GraphIInv, LoadIInv, GraphsClosed
  <1> QED
    BY <1>1, <1>2, <1>3, <1>4

(* Writers.                                                                *)
LEMMA WriterKeepsLoad ==
  ASSUME GraphIInv, Writer
  PROVE  GraphIInv'
  <1>1. /\ UNCHANGED <<runtimeVars, load, data, at, graph>> /\ db' \in Tables
    <2>1. CASE \E n \in Nodes : AddEntity(n) \/ RemoveEntity(n)
      BY <2>1, LoadFacts DEF AddEntity, RemoveEntity, Write, Tables
    <2>2. CASE \E e \in Edges : AddRelation(e) \/ RemoveRelation(e)
      BY <2>2, LoadFacts DEF AddRelation, RemoveRelation, Write, Tables
    <2> QED
      BY <2>1, <2>2 DEF Writer
  <1>2. RuntimeIInv'
    BY <1>1, RuntimeStays DEF GraphIInv
  <1>3. /\ tstate' = tstate /\ run' = run /\ own' = own /\ inside' = inside
        /\ load' = load /\ data' = data /\ at' = at /\ graph' = graph
    BY <1>1 DEF runtimeVars, taskVars
  <1>4. LoadIInv'
    BY <1>1, <1>3 DEF GraphIInv, LoadIInv, LoadTypeOK, LoadLedger, DataOnce, GraphsClosed,
                      Closed, Pending
  <1> QED
    BY <1>2, <1>4 DEF GraphIInv

LEMMA LoadStartKeeps ==
  ASSUME GraphIInv, NEW t \in Loads, LoadStart(t)
  PROVE  GraphIInv'
  <1>1. RuntimeIInv'
    BY LoadStartSound DEF GraphIInv
  <1>2. /\ tstate[t] = "none" /\ ~load.disposed /\ ~load.running
        /\ load' = [load EXCEPT !.refs = load.refs + 1, !.running = TRUE, !.task = t,
                                !.callback = t, !.layout = None]
        /\ data' = [data EXCEPT ![t] = "held"] /\ at' = [at EXCEPT ![t] = "open"]
        /\ tstate' = [tstate EXCEPT ![t] = "running"] /\ run' = [run EXCEPT ![t] = "queued"]
        /\ own' = [own EXCEPT ![t] = TRUE]
        /\ inside' = inside /\ db' = db /\ graph' = graph
    BY DEF LoadStart
  <1>3. /\ load' \in LoadRows /\ load'.refs = load.refs + 1 /\ load'.disposed = load.disposed
        /\ load'.running = TRUE /\ load'.task = t /\ load'.callback = t /\ load'.layout = None
    <2> DEFINE n == load.refs + 1
    <2>1. n \in Nat /\ load \in LoadRows
      BY LoadFacts DEF LoadRows
    <2>2. load' = [load EXCEPT !.refs = n, !.running = TRUE, !.task = t,
                               !.callback = t, !.layout = None]
      BY <1>2
    <2> HIDE DEF n
    <2>3. /\ load' \in LoadRows /\ load'.refs = n /\ load'.disposed = load.disposed
          /\ load'.running = TRUE /\ load'.task = t /\ load'.callback = t
          /\ load'.layout = None
      BY <2>1, <2>2 DEF LoadRows
    <2> QED
      BY <2>3 DEF n
  <1>4. /\ data'[t] = "held" /\ at'[t] = "open" /\ tstate'[t] = "running"
        /\ run'[t] = "queued" /\ own'[t]
        /\ \A u \in Loads \ {t} : /\ data'[u] = data[u] /\ at'[u] = at[u]
                                  /\ tstate'[u] = tstate[u] /\ run'[u] = run[u]
                                  /\ own'[u] = own[u]
    BY <1>2, LoadFacts
  <1>5. /\ run[t] = "none"
        /\ load.task = None /\ load.callback = None
        /\ \A u \in Loads : tstate[u] # "running"
    BY <1>2, LoadFacts, RuntimeAssumption
       DEF GraphIInv, RuntimeIInv, StatesAgree, LoadIInv, LoadLedger, Runs, Verdicts, Finished
  <1>6. LoadTypeOK'
    BY <1>2, <1>3, LoadFacts DEF LoadTypeOK
  <1>7. LoadLedger'
    <2>1. /\ Cardinality(Waiting') = Cardinality(Waiting) + B(Pending(t)') - B(Pending(t))
          /\ Cardinality(Waiting) \in Nat /\ Cardinality(Waiting') \in Nat
      BY <1>4, WaitingChanges
    <2>2. B(Pending(t)') = 1 /\ B(Pending(t)) = 0 /\ B(~load.disposed) = 1
      BY <1>2, <1>4, <1>5 DEF Pending, B
    <2>3. load.refs = B(~load.disposed) + Cardinality(Waiting)
      BY LoadFacts
    <2>4. load'.refs = 1 + Cardinality(Waiting') /\ load'.refs # 0
      BY <1>3, <2>1, <2>2, <2>3
    <2>5. B(~load'.disposed) = 1
      BY <1>2, <1>3 DEF B
    <2>6. load'.refs = B(~load'.disposed) + Cardinality({u \in Loads : Pending(u)'})
      BY <2>4, <2>5 DEF Waiting
    <2> QED
      BY <1>2, <1>3, <1>4, <1>5, <2>4, <2>6, RuntimeAssumption DEF LoadLedger
  <1>8. DataOnce'
    BY <1>2, <1>3, <1>4, <1>5, RuntimeAssumption DEF GraphIInv, LoadIInv, DataOnce
  <1>9. GraphsClosed'
    BY <1>2, <1>3, <1>4 DEF GraphIInv, LoadIInv, GraphsClosed, Closed
  <1> QED
    BY <1>1, <1>6, <1>7, <1>8, <1>9 DEF GraphIInv, LoadIInv

(* A step that leaves the load, its data and its graphs alone.             *)
LEMMA LoadUntouched ==
  ASSUME GraphIInv, UNCHANGED <<db, load, data, at, graph>>,
         tstate' = tstate, run' = run, own' = own, inside' = inside
  PROVE  LoadIInv'
  BY DEF GraphIInv, LoadIInv, LoadTypeOK, LoadLedger, DataOnce, GraphsClosed, Closed, Pending

LEMMA LoadCancelKeeps ==
  ASSUME GraphIInv, LoadCancel
  PROVE  GraphIInv'
  <1>1. load.task \in Loads
    BY LoadFacts DEF LoadCancel, LoadRows, GraphIInv, LoadIInv, LoadLedger
  <1>2. RuntimeIInv'
    BY <1>1, CancelSound DEF GraphIInv, LoadCancel
  <1>3. LoadIInv'
    BY LoadUntouched DEF LoadCancel, CancelTask
  <1> QED
    BY <1>2, <1>3 DEF GraphIInv

LEMMA TakeLayoutKeeps ==
  ASSUME GraphIInv, TakeLayout
  PROVE  GraphIInv'
  <1>1. RuntimeIInv'
    BY RuntimeStays DEF GraphIInv, TakeLayout
  <1>2. /\ load' = [load EXCEPT !.layout = None]
        /\ db' = db /\ data' = data /\ at' = at /\ graph' = graph
        /\ tstate' = tstate /\ run' = run /\ own' = own /\ inside' = inside
    BY DEF TakeLayout, runtimeVars, taskVars
  <1>3. /\ load' \in LoadRows /\ load'.refs = load.refs /\ load'.disposed = load.disposed
        /\ load'.running = load.running /\ load'.task = load.task
        /\ load'.callback = load.callback /\ load'.layout = None
    BY <1>2, LoadFacts DEF LoadRows
  <1>4. LoadTypeOK'
    BY <1>2, <1>3 DEF GraphIInv, LoadIInv, LoadTypeOK
  <1>5. LoadLedger' /\ DataOnce' /\ GraphsClosed'
    BY <1>2, <1>3 DEF GraphIInv, LoadIInv, LoadLedger, DataOnce, GraphsClosed, Closed, Pending
  <1> QED
    BY <1>1, <1>4, <1>5 DEF GraphIInv, LoadIInv

(* One reference less, wherever it is let go.                              *)
LEMMA LetGoFields ==
  ASSUME NEW l \in LoadRows, l.refs # 0
  PROVE  /\ LetGo(l) \in LoadRows /\ LetGo(l).refs = l.refs - 1
         /\ LetGo(l).disposed = l.disposed /\ LetGo(l).running = l.running
         /\ LetGo(l).task = l.task /\ LetGo(l).callback = l.callback
         /\ LetGo(l).layout \in {l.layout, None}
         /\ l.refs = 1 => LetGo(l).layout = None
  <1> DEFINE n == l.refs - 1
             layout == IF l.refs = 1 THEN None ELSE l.layout
  <1>1. n \in Nat /\ layout \in Loads \cup {None}
    BY DEF LoadRows
  <1>2. LetGo(l) = [l EXCEPT !.refs = n, !.layout = layout]
    BY DEF LetGo
  <1> HIDE DEF n, layout
  <1>3. /\ LetGo(l) \in LoadRows /\ LetGo(l).refs = n
        /\ LetGo(l).disposed = l.disposed /\ LetGo(l).running = l.running
        /\ LetGo(l).task = l.task /\ LetGo(l).callback = l.callback
        /\ LetGo(l).layout = layout
    BY <1>1, <1>2 DEF LoadRows
  <1> QED
    BY <1>3 DEF n, layout

LEMMA LoadFreeKeeps ==
  ASSUME GraphIInv, LoadFree
  PROVE  GraphIInv'
  <1> DEFINE freed == [load EXCEPT !.disposed = TRUE, !.callback = None]
  <1>1. /\ ~load.disposed /\ load' = LetGo(freed)
        /\ data' = IF load.callback = None THEN data ELSE [data EXCEPT ![load.callback] = "destroyed"]
        /\ db' = db /\ at' = at /\ graph' = graph
    BY DEF LoadFree, DestroyData
  <1>2. RuntimeIInv' /\ tstate' = tstate /\ run' = run /\ own' = own /\ inside' = inside
    <2>1. CASE load.running
      <3>1. load.task \in Loads /\ CancelTask(load.task)
        BY <2>1, LoadFacts DEF LoadFree, LoadRows, GraphIInv, LoadIInv, LoadLedger
      <3> QED
        BY <3>1, CancelSound DEF GraphIInv, CancelTask
    <2>2. CASE ~load.running
      BY <2>2, RuntimeStays DEF LoadFree, GraphIInv, runtimeVars, taskVars
    <2> QED
      BY <2>1, <2>2
  <1>3. /\ load.refs = 1 + Cardinality(Waiting) /\ Cardinality(Waiting) \in Nat
        /\ load.refs # 0
    BY <1>1, LoadFacts DEF B
  <1>4. /\ freed \in LoadRows /\ freed.refs = load.refs /\ freed.disposed = TRUE
        /\ freed.running = load.running /\ freed.task = load.task
        /\ freed.callback = None /\ freed.layout = load.layout
    BY LoadFacts DEF LoadRows
  <1> HIDE DEF freed
  <1>5. /\ load' \in LoadRows /\ load'.refs = Cardinality(Waiting)
        /\ load'.disposed = TRUE /\ load'.running = load.running
        /\ load'.task = load.task /\ load'.callback = None
        /\ load'.layout \in {load.layout, None}
        /\ load'.refs = 0 => load'.layout = None
    BY <1>1, <1>3, <1>4, LetGoFields
  <1>6. /\ data' \in [Loads -> {"none", "held", "lent", "destroyed"}]
        /\ \A t \in Loads :
             /\ load.callback = t => data'[t] = "destroyed"
             /\ load.callback # t => data'[t] = data[t]
    BY <1>1, LoadFacts, RuntimeAssumption DEF LoadRows
  <1>7. LoadTypeOK'
    BY <1>1, <1>5, <1>6 DEF GraphIInv, LoadIInv, LoadTypeOK
  <1>8. LoadLedger'
    <2>1. Waiting' = Waiting
      BY <1>2 DEF Waiting, Pending
    <2>2. load'.refs = B(~load'.disposed) + Cardinality({t \in Loads : Pending(t)'})
      <3>1. Cardinality({t \in Loads : Pending(t)'}) = Cardinality(Waiting)
        BY <2>1 DEF Waiting
      <3>2. B(~load'.disposed) = 0
        BY <1>5 DEF B
      <3> QED
        BY <1>3, <1>5, <3>1, <3>2
    <2> QED
      BY <1>2, <1>5, <2>2 DEF GraphIInv, LoadIInv, LoadLedger
  <1>9. DataOnce'
    BY <1>2, <1>5, <1>6, RuntimeAssumption DEF GraphIInv, LoadIInv, DataOnce
  <1>10. GraphsClosed'
    BY <1>1, <1>2, <1>5 DEF GraphIInv, LoadIInv, GraphsClosed, Closed
  <1> QED
    BY <1>2, <1>7, <1>8, <1>9, <1>10 DEF GraphIInv, LoadIInv

LEMMA BeginWorkKeepsLoad ==
  ASSUME GraphIInv, NEW t \in Loads, BeginWork(t), UNCHANGED <<db, load, data, at, graph>>
  PROVE  GraphIInv'
  <1>1. RuntimeIInv'
    BY BeginSound DEF GraphIInv
  <1>2. /\ run[t] = "queued" /\ run'[t] = "working"
        /\ \A u \in Loads \ {t} : run'[u] = run[u]
        /\ tstate' = tstate /\ own' = own /\ inside' = inside
        /\ db' = db /\ load' = load /\ data' = data /\ at' = at /\ graph' = graph
    BY LoadFacts DEF BeginWork
  <1>3. \A u \in Loads : /\ Pending(u)' <=> Pending(u)
                         /\ run'[u] = "ok" <=> run[u] = "ok"
                         /\ run'[u] = "done" <=> run[u] = "done"
                         /\ run'[u] = "delivering" <=> run[u] = "delivering"
    BY <1>2 DEF Pending
  <1>4. LoadTypeOK' /\ DataOnce'
    BY <1>2, <1>3 DEF GraphIInv, LoadIInv, LoadTypeOK, DataOnce
  <1>5. LoadLedger'
    BY <1>2, <1>3 DEF GraphIInv, LoadIInv, LoadLedger
  <1>6. GraphsClosed'
    BY <1>2, <1>3, LoadFacts DEF GraphIInv, LoadIInv, GraphsClosed, Closed, LoadRows
  <1> QED
    BY <1>1, <1>4, <1>5, <1>6 DEF GraphIInv, LoadIInv

(* Each reading of the worker.                                             *)
LEMMA ReadKeeps ==
  ASSUME GraphIInv, NEW t \in Loads, NEW step,
         NEW next \in {"entities", "relations", "positions", "result"},
         NEW what \in Tables, Read(t, step, next, what),
         next \in {"entities", "relations"} => what.rels = {},
         next \in {"positions", "result"} =>
           \A e \in what.rels : {Ends[e][1], Ends[e][2]} \subseteq what.ents
  PROVE  GraphIInv'
  <1>1. RuntimeIInv'
    BY RuntimeStays DEF GraphIInv, Read
  <1>2. /\ run[t] = "working"
        /\ graph' = [graph EXCEPT ![t] = what] /\ at' = [at EXCEPT ![t] = next]
        /\ db' = db /\ load' = load /\ data' = data
        /\ tstate' = tstate /\ run' = run /\ own' = own /\ inside' = inside
    BY DEF Read, Reading, runtimeVars, taskVars
  <1>3. /\ graph'[t] = what /\ at'[t] = next
        /\ \A u \in Loads \ {t} : graph'[u] = graph[u] /\ at'[u] = at[u]
    BY <1>2, LoadFacts
  <1>4. LoadTypeOK'
    BY <1>2, LoadFacts DEF LoadTypeOK
  <1>5. LoadLedger' /\ DataOnce'
    BY <1>2 DEF GraphIInv, LoadIInv, LoadLedger, DataOnce, Pending
  <1>6. GraphsClosed'
    <2>1. tstate[t] = "running" /\ load.layout = None
      BY <1>2, OnlyLoad
    <2>2. Closed(t)' <=> \A e \in what.rels : {Ends[e][1], Ends[e][2]} \subseteq what.ents
      BY <1>3 DEF Closed
    <2>3. \A u \in Loads \ {t} : Closed(u)' <=> Closed(u)
      BY <1>3 DEF Closed
    <2> QED
      BY <1>2, <1>3, <2>1, <2>2, <2>3 DEF GraphIInv, LoadIInv, GraphsClosed
  <1> QED
    BY <1>1, <1>4, <1>5, <1>6 DEF GraphIInv, LoadIInv

LEMMA ReadingsKeep ==
  ASSUME GraphIInv, NEW t \in Loads,
         Open(t) \/ ReadEntities(t) \/ ReadRelations(t) \/ ReadPositions(t)
  PROVE  GraphIInv'
  <1>1. graph[t] \in Tables /\ db \in Tables
    BY LoadFacts
  <1>2. CASE Open(t)
    <2>1. Nothing \in Tables /\ Nothing.rels = {}
      BY DEF Nothing, Tables
    <2> QED
      BY <1>2, <2>1, ReadKeeps DEF Open
  <1>3. CASE ReadEntities(t)
    <2> DEFINE what == [graph[t] EXCEPT !.ents = db.ents]
    <2>1. graph[t].rels = {}
      BY <1>3 DEF ReadEntities, Read, Reading, GraphIInv, LoadIInv, GraphsClosed
    <2>2. what \in Tables /\ what.rels = {}
      BY <1>1, <2>1 DEF Tables
    <2>3. Read(t, "entities", "relations", what)
      BY <1>3 DEF ReadEntities
    <2> HIDE DEF what
    <2> QED
      BY <2>2, <2>3, ReadKeeps
  <1>4. CASE ReadRelations(t)
    <2> DEFINE what == [graph[t] EXCEPT !.rels = db.rels]
    <2>1. what \in Tables /\ what.rels = db.rels /\ what.ents = graph[t].ents
      BY <1>1 DEF Tables
    <2>2. Read(t, "relations", "positions", what) /\ Fits(t)
      BY <1>4 DEF ReadRelations
    <2> HIDE DEF what
    <2>3. \A e \in what.rels : {Ends[e][1], Ends[e][2]} \subseteq what.ents
      BY <2>1, <2>2 DEF Fits
    <2> QED
      BY <2>1, <2>2, <2>3, ReadKeeps
  <1>5. CASE ReadPositions(t)
    <2>1. Read(t, "positions", "result", graph[t])
      BY <1>5 DEF ReadPositions
    <2>2. Closed(t)
      BY <2>1 DEF Read, Reading, GraphIInv, LoadIInv, GraphsClosed
    <2> QED
      BY <1>1, <2>1, <2>2, ReadKeeps DEF Closed
  <1> QED
    BY <1>2, <1>3, <1>4, <1>5

(* The worker returns: with nothing, or with the closed graph it has.      *)
LEMMA QuitKeeps ==
  ASSUME GraphIInv, NEW t \in Loads, NEW ok \in BOOLEAN,
         NEW e \in {"none", "stopped", "other"}, NEW what \in Tables,
         WorkerReturns(t, ok, e), Quit(t, what),
         \A x \in what.rels : {Ends[x][1], Ends[x][2]} \subseteq what.ents
  PROVE  GraphIInv'
  <1>1. RuntimeIInv'
    BY ReturnsSound DEF GraphIInv
  <1>2. PICK v \in Verdicts : v = Verdict(ok, e)
    BY DEF Verdict, Verdicts
  <1>3. /\ run[t] = "working" /\ run'[t] = v
        /\ \A u \in Loads \ {t} : run'[u] = run[u]
        /\ graph' = [graph EXCEPT ![t] = what] /\ at' = [at EXCEPT ![t] = "idle"]
        /\ db' = db /\ load' = load /\ data' = data
        /\ tstate' = tstate /\ own' = own /\ inside' = inside
    BY <1>2, LoadFacts DEF WorkerReturns, Quit
  <1>4. /\ graph'[t] = what /\ at'[t] = "idle"
        /\ \A u \in Loads \ {t} : graph'[u] = graph[u] /\ at'[u] = at[u]
    BY <1>3, LoadFacts
  <1>5. LoadTypeOK'
    BY <1>3, LoadFacts DEF LoadTypeOK
  <1>6. \A u \in Loads : Pending(u)' <=> Pending(u)
    BY <1>3 DEF Pending, Verdicts
  <1>7. LoadLedger' /\ DataOnce'
    <2>1. Waiting' = Waiting
      BY <1>6 DEF Waiting
    <2>2. LoadLedger'
      BY <1>3, <2>1 DEF GraphIInv, LoadIInv, LoadLedger, Waiting
    <2>3. DataOnce'
      BY <1>3 DEF GraphIInv, LoadIInv, DataOnce, Verdicts
    <2> QED
      BY <2>2, <2>3
  <1>8. GraphsClosed'
    <2>1. tstate[t] = "running" /\ load.layout = None
      BY <1>3, OnlyLoad
    <2>2. Closed(t)'
      BY <1>4 DEF Closed
    <2>3. \A u \in Loads \ {t} : Closed(u)' <=> Closed(u)
      BY <1>4 DEF Closed
    <2> QED
      BY <1>3, <1>4, <2>1, <2>2, <2>3 DEF GraphIInv, LoadIInv, GraphsClosed
  <1> QED
    BY <1>1, <1>5, <1>7, <1>8 DEF GraphIInv, LoadIInv

LEMMA WorkerKeepsLoad ==
  ASSUME GraphIInv, NEW t \in Loads, Worker(t)
  PROVE  GraphIInv'
  <1>1. Nothing \in Tables /\ Nothing.rels = {} /\ graph[t] \in Tables
    BY LoadFacts DEF Nothing, Tables
  <1>2. CASE BeginWork(t) /\ UNCHANGED <<db, load, data, at, graph>>
    BY <1>2, BeginWorkKeepsLoad
  <1>3. CASE Open(t) \/ ReadEntities(t) \/ ReadRelations(t) \/ ReadPositions(t)
    BY <1>3, ReadingsKeep
  <1>4. CASE LoadStops(t)
    BY <1>1, <1>4, QuitKeeps DEF LoadStops
  <1>5. CASE LoadFails(t)
    BY <1>1, <1>5, QuitKeeps DEF LoadFails
  <1>6. CASE LoadSucceeds(t)
    <2>1. Closed(t)
      BY <1>6 DEF LoadSucceeds, GraphIInv, LoadIInv, GraphsClosed
    <2> QED
      BY <1>1, <1>6, <2>1, QuitKeeps DEF LoadSucceeds, Closed
  <1> QED
    BY <1>2, <1>3, <1>4, <1>5, <1>6 DEF Worker

(* The completion takes the result, then shows it; the load is as it was.  *)
LEMMA LoadPropagateKeeps ==
  ASSUME GraphIInv, NEW t \in Loads, LoadPropagate(t)
  PROVE  GraphIInv'
  <1>1. RuntimeIInv'
    BY PropagateSound DEF GraphIInv, LoadPropagate
  <1>2. /\ run[t] \in Verdicts /\ Final(t) \in Finished
        /\ Final(t) = "completed" => run[t] = "ok"
        /\ run'[t] = Final(t) /\ \A u \in Loads \ {t} : run'[u] = run[u]
        /\ tstate' = tstate /\ own' = own
        /\ UNCHANGED <<db, load, data, at, graph>>
    BY LoadFacts DEF LoadPropagate, Propagate, Final, Finished
  <1>3. /\ \A u \in Loads : Pending(u)' <=> Pending(u)
        /\ \A u \in Loads : run'[u] = "delivering" <=> run[u] = "delivering"
        /\ \A u \in Loads : run'[u] = "done" <=> run[u] = "done"
        /\ \A u \in Loads : run'[u] \in {"ok", "completed"} => run[u] \in {"ok", "completed"}
    BY <1>2 DEF Pending, Verdicts, Finished
  <1>4. LoadTypeOK' /\ DataOnce'
    BY <1>2, <1>3 DEF GraphIInv, LoadIInv, LoadTypeOK, DataOnce
  <1>5. LoadLedger'
    BY <1>2, <1>3 DEF GraphIInv, LoadIInv, LoadLedger
  <1>6. GraphsClosed'
    BY <1>2, <1>3, LoadFacts DEF GraphIInv, LoadIInv, GraphsClosed, Closed, LoadRows
  <1> QED
    BY <1>1, <1>4, <1>5, <1>6 DEF GraphIInv, LoadIInv

LEMMA LoadSettleKeeps ==
  ASSUME GraphIInv, NEW t \in Loads, LoadSettle(t)
  PROVE  GraphIInv'
  <1>1. RuntimeIInv'
    BY SettleSound DEF GraphIInv, LoadSettle
  <1>2. /\ run[t] \in Finished /\ run'[t] = "delivering" /\ tstate'[t] = run[t]
        /\ \A u \in Loads \ {t} : run'[u] = run[u] /\ tstate'[u] = tstate[u]
        /\ own' = own /\ UNCHANGED <<db, load, data, at, graph>>
    BY LoadFacts DEF LoadSettle, Settle
  <1>3. /\ load.running /\ load.task = t /\ load.layout = None
        /\ tstate[t] = "running" /\ own[t]
    BY <1>2, OnlyLoad
  <1>4. /\ \A u \in Loads : Pending(u)' <=> Pending(u)
        /\ \A u \in Loads : tstate'[u] = "none" <=> tstate[u] = "none"
        /\ \A u \in Loads : tstate'[u] = "running" => tstate[u] = "running"
    BY <1>2, <1>3 DEF Pending, Finished
  <1>5. LoadTypeOK'
    BY <1>2 DEF GraphIInv, LoadIInv, LoadTypeOK
  <1>6. LoadLedger'
    BY <1>2, <1>3, <1>4 DEF GraphIInv, LoadIInv, LoadLedger
  <1>7. DataOnce'
    BY <1>2, <1>3, <1>4 DEF GraphIInv, LoadIInv, DataOnce, Finished
  <1>8. GraphsClosed'
    <2>1. \A u \in Loads : Closed(u)' <=> Closed(u)
      BY <1>2 DEF Closed
    <2> QED
      BY <1>2, <1>3, <1>4, <2>1 DEF GraphIInv, LoadIInv, GraphsClosed, Finished
  <1> QED
    BY <1>1, <1>5, <1>6, <1>7, <1>8 DEF GraphIInv, LoadIInv

LEMMA LoadCompletedKeeps ==
  ASSUME GraphIInv, NEW t \in Loads, LoadCompleted(t)
  PROVE  GraphIInv'
  <1> DEFINE layout == IF load.callback # None /\ tstate[t] = "completed" THEN t
                       ELSE load.layout
  <1>1. RuntimeIInv'
    BY RuntimeStays DEF GraphIInv, LoadCompleted
  <1>2. /\ run[t] = "delivering" /\ load.task = t
        /\ load' = [load EXCEPT !.running = FALSE, !.task = None, !.callback = None,
                                !.layout = layout]
        /\ data' = IF load.callback = None THEN data
                   ELSE [data EXCEPT ![load.callback] = "lent"]
        /\ UNCHANGED <<tstate, run, own, db, at, graph>>
    BY DEF LoadCompleted, Completes, runtimeVars, taskVars
  <1>3. /\ load.running /\ load.layout = None /\ own[t] /\ tstate[t] \in Finished
        /\ \A u \in Loads \ {t} : tstate[u] # "running" /\ run[u] # "delivering"
        /\ load.callback # None => load.callback = t
    BY <1>2, RuntimeAssumption
       DEF GraphIInv, RuntimeIInv, StatesAgree, LoadIInv, LoadLedger, GraphsClosed
  <1>4. /\ layout \in {t, None} /\ (layout = t => tstate[t] = "completed")
    BY <1>3, RuntimeAssumption
  <1> HIDE DEF layout
  <1>5. /\ load' \in LoadRows /\ load'.refs = load.refs /\ load'.disposed = load.disposed
        /\ load'.running = FALSE /\ load'.task = None /\ load'.callback = None
        /\ load'.layout = layout
    BY <1>2, <1>4, LoadFacts DEF LoadRows
  <1>6. /\ data' \in [Loads -> {"none", "held", "lent", "destroyed"}]
        /\ \A u \in Loads :
             /\ load.callback = u => data'[u] = "lent"
             /\ load.callback # u => data'[u] = data[u]
    BY <1>2, LoadFacts, RuntimeAssumption DEF LoadRows
  <1>7. LoadTypeOK'
    BY <1>2, <1>5, <1>6, LoadFacts DEF LoadTypeOK
  <1>8. LoadLedger'
    <2>1. Waiting' = Waiting
      BY <1>2 DEF Waiting, Pending
    <2>2. load'.refs = B(~load'.disposed) + Cardinality({u \in Loads : Pending(u)'})
      BY <1>5, <2>1, LoadFacts DEF Waiting
    <2>3. load'.refs # 0
      <3>1. t \in Waiting /\ IsFiniteSet(Waiting)
        BY <1>2, RuntimeAssumption, FS_Subset DEF Waiting, Pending
      <3>2. Cardinality(Waiting) # 0 /\ Cardinality(Waiting) \in Nat
        BY <3>1, FS_EmptySet, LoadFacts
      <3>3. B(~load.disposed) \in Nat /\ load.refs = B(~load.disposed) + Cardinality(Waiting)
        BY LoadFacts DEF B
      <3> QED
        BY <1>5, <3>2, <3>3
    <2>4. \A u \in Loads : tstate'[u] # "running"
      BY <1>2, <1>3 DEF Finished
    <2> QED
      BY <1>5, <2>2, <2>3, <2>4, RuntimeAssumption DEF LoadLedger
  <1>9. DataOnce'
    <2>1. ASSUME NEW u \in Loads
          PROVE  /\ data[u] = "none" <=> tstate[u] = "none"
                 /\ data[u] = "held" <=> load.callback = u
                 /\ data[u] # "lent"
                 /\ run[u] = "done" => data[u] = "destroyed"
      BY <1>2, <1>3 DEF GraphIInv, LoadIInv, DataOnce
    <2>2. \A u \in Loads \ {t} : data'[u] = data[u] /\ load.callback # u
      BY <1>3, <1>6, RuntimeAssumption
    <2> QED
      BY <1>2, <1>3, <1>5, <1>6, <2>1, <2>2, RuntimeAssumption DEF DataOnce, Finished
  <1>10. GraphsClosed'
    <2>1. \A u \in Loads : Closed(u)' <=> Closed(u)
      BY <1>2 DEF Closed
    <2> QED
      BY <1>2, <1>3, <1>4, <1>5, <2>1, RuntimeAssumption
         DEF GraphIInv, LoadIInv, GraphsClosed
  <1> QED
    BY <1>1, <1>7, <1>8, <1>9, <1>10 DEF GraphIInv, LoadIInv

LEMMA CallbackReturnsKeeps ==
  ASSUME GraphIInv, NEW t \in Loads, CallbackReturns(t)
  PROVE  GraphIInv'
  <1>1. RuntimeIInv'
    BY DropSound DEF GraphIInv, CallbackReturns
  <1>2. /\ run[t] = "delivering" /\ load.task # t /\ run' = run
        /\ own' = [own EXCEPT ![t] = FALSE]
        /\ \A u \in Loads : tstate'[u] \in {tstate[u], "freed"}
        /\ data' = IF data[t] = "lent" THEN [data EXCEPT ![t] = "destroyed"] ELSE data
        /\ db' = db /\ load' = load /\ at' = at /\ graph' = graph
    BY DEF CallbackReturns, Drop, Unref, DestroyData
  <1>3. \A u \in Loads \ {t} : tstate'[u] = tstate[u] /\ own'[u] = own[u]
    BY LoadFacts DEF CallbackReturns, Drop, Unref, LastOf
  <1>4. run[t] = "delivering" /\ tstate[t] \in Finished /\ tstate'[t] # "running" /\ ~own'[t]
    BY <1>2, LoadFacts DEF GraphIInv, RuntimeIInv, StatesAgree, Finished, CallbackReturns, Drop
  <1>5. /\ data' \in [Loads -> {"none", "held", "lent", "destroyed"}]
        /\ \A u \in Loads \ {t} : data'[u] = data[u]
        /\ data'[t] = IF data[t] = "lent" THEN "destroyed" ELSE data[t]
    BY <1>2, LoadFacts
  <1>6. LoadTypeOK'
    BY <1>2, <1>5, LoadFacts DEF LoadTypeOK
  <1>7. \A u \in Loads : /\ tstate'[u] = "running" <=> tstate[u] = "running"
                         /\ tstate'[u] = "none" <=> tstate[u] = "none"
                         /\ tstate'[u] = "completed" => tstate[u] = "completed"
    BY <1>2, <1>3, <1>4 DEF Finished
  <1>8. LoadLedger'
    BY <1>2, <1>3, <1>4, <1>7 DEF GraphIInv, LoadIInv, LoadLedger, Pending
  <1>9. DataOnce'
    BY <1>2, <1>3, <1>4, <1>5, <1>7 DEF GraphIInv, LoadIInv, DataOnce, Finished
  <1>10. GraphsClosed'
    <2>1. load.layout # None =>
            load.layout \in Loads /\ tstate'[load.layout] \in {"completed", "freed"}
      BY <1>2, LoadFacts DEF GraphIInv, LoadIInv, GraphsClosed, LoadRows
    <2> QED
      BY <1>2, <1>7, <2>1 DEF GraphIInv, LoadIInv, GraphsClosed, Closed
  <1> QED
    BY <1>1, <1>6, <1>8, <1>9, <1>10 DEF GraphIInv, LoadIInv

LEMMA LoadDeliveredKeeps ==
  ASSUME GraphIInv, NEW t \in Loads, LoadDelivered(t)
  PROVE  GraphIInv'
  <1>1. RuntimeIInv'
    BY DeliveredSound DEF GraphIInv, LoadDelivered
  <1>2. /\ run[t] = "delivering" /\ inside = t /\ ~own[t] /\ own' = own
        /\ run' = [run EXCEPT ![t] = "done"]
        /\ \A u \in Loads : tstate'[u] \in {tstate[u], "freed"}
        /\ load' = LetGo(load) /\ graph' = [graph EXCEPT ![t] = Nothing]
        /\ db' = db /\ data' = data /\ at' = at
    BY DEF LoadDelivered, Delivered, Unref
  <1>3. \A u \in Loads \ {t} : tstate'[u] = tstate[u]
    BY LoadFacts DEF LoadDelivered, Delivered, Unref, LastOf
  <1>4. /\ run[t] = "delivering" /\ run'[t] = "done"
        /\ \A u \in Loads \ {t} : run'[u] = run[u] /\ run'[u] # "delivering"
        /\ tstate[t] \in Finished
    BY <1>2, LoadFacts DEF GraphIInv, RuntimeIInv, StatesAgree
  <1>5. \A u \in Loads : /\ tstate'[u] = "running" <=> tstate[u] = "running"
                         /\ tstate'[u] = "none" <=> tstate[u] = "none"
                         /\ tstate'[u] = "completed" => tstate[u] = "completed"
    BY <1>2, <1>3, <1>4 DEF Finished
  <1>6. /\ Cardinality(Waiting') \in Nat
        /\ load.refs = B(~load.disposed) + Cardinality(Waiting') + 1
        /\ load.refs # 0 /\ load.refs - 1 = B(~load.disposed) + Cardinality(Waiting')
    <2>1. /\ Cardinality(Waiting') = Cardinality(Waiting) + B(Pending(t)') - B(Pending(t))
          /\ Cardinality(Waiting) \in Nat /\ Cardinality(Waiting') \in Nat
      BY <1>4, WaitingChanges
    <2>2. B(Pending(t)') = 0 /\ B(Pending(t)) = 1 /\ B(~load.disposed) \in Nat
      BY <1>4 DEF Pending, B
    <2>3. load.refs = B(~load.disposed) + Cardinality(Waiting)
      BY LoadFacts
    <2> QED
      BY <2>1, <2>2, <2>3
  <1>7. /\ load' \in LoadRows /\ load'.refs = load.refs - 1
        /\ load'.disposed = load.disposed /\ load'.running = load.running
        /\ load'.task = load.task /\ load'.callback = load.callback
        /\ load'.layout \in {load.layout, None}
        /\ load'.refs = 0 => load'.layout = None
    <2>1. /\ LetGo(load) \in LoadRows /\ LetGo(load).refs = load.refs - 1
          /\ LetGo(load).disposed = load.disposed /\ LetGo(load).running = load.running
          /\ LetGo(load).task = load.task /\ LetGo(load).callback = load.callback
          /\ LetGo(load).layout \in {load.layout, None}
          /\ load.refs = 1 => LetGo(load).layout = None
      BY <1>6, LoadFacts, LetGoFields
    <2>2. load.refs \in Nat
      BY LoadFacts DEF LoadRows
    <2> QED
      BY <1>2, <2>1, <2>2
  <1>8. Nothing \in Tables /\ Nothing.rels = {}
    BY DEF Nothing, Tables
  <1>9. graph'[t].rels = {} /\ \A u \in Loads \ {t} : graph'[u] = graph[u]
    BY <1>2, <1>8, LoadFacts
  <1>10. LoadTypeOK'
    BY <1>2, <1>7, <1>8, LoadFacts DEF LoadTypeOK
  <1>11. LoadLedger'
    <2>1. load'.refs = B(~load'.disposed) + Cardinality({u \in Loads : Pending(u)'})
      BY <1>6, <1>7 DEF Waiting
    <2> QED
      BY <1>2, <1>5, <1>7, <2>1 DEF GraphIInv, LoadIInv, LoadLedger
  <1>12. DataOnce'
    <2>1. data[t] = "destroyed"
      BY <1>2, <1>4, LoadFacts, RuntimeAssumption
         DEF GraphIInv, LoadIInv, DataOnce, LoadLedger, Finished
    <2> QED
      BY <1>2, <1>4, <1>5, <1>7, <2>1 DEF GraphIInv, LoadIInv, DataOnce
  <1>13. GraphsClosed'
    <2>1. \A u \in Loads : Closed(u) => Closed(u)'
      BY <1>9 DEF Closed
    <2>2. ASSUME load'.layout # None
          PROVE  /\ ~load'.running /\ load'.layout \in Loads
                 /\ tstate'[load'.layout] \in {"completed", "freed"}
                 /\ run'[load'.layout] \in {"delivering", "done"}
                 /\ \A u \in Loads : run'[u] = "delivering" => u = load'.layout
      <3>1. load'.layout = load.layout /\ load.layout \in Loads
        BY <1>7, <2>2, LoadFacts DEF LoadRows
      <3>2. /\ ~load.running /\ tstate[load.layout] \in {"completed", "freed"}
            /\ run[load.layout] \in {"delivering", "done"}
        BY <2>2, <3>1 DEF GraphIInv, LoadIInv, GraphsClosed
      <3> QED
        BY <1>2, <1>4, <1>7, <3>1, <3>2
    <2> QED
      BY <1>2, <1>4, <1>5, <1>9, <2>1, <2>2 DEF GraphIInv, LoadIInv, GraphsClosed, Closed
  <1> QED
    BY <1>1, <1>10, <1>11, <1>12, <1>13 DEF GraphIInv, LoadIInv

LEMMA GraphInitSound ==
  ASSUME GraphInit
  PROVE  GraphIInv
  <1>1. RuntimeIInv
    BY RuntimeInitSound DEF GraphInit
  <1>2. /\ load \in LoadRows /\ load.refs = 1 /\ load.disposed = FALSE
        /\ load.running = FALSE /\ load.task = None /\ load.callback = None
        /\ load.layout = None
    BY DEF GraphInit, LoadRows
  <1>3. /\ Nothing \in Tables /\ Nothing.rels = {}
        /\ \A t \in Loads : graph[t] = Nothing /\ at[t] = "idle" /\ data[t] = "none"
    BY DEF GraphInit, Nothing, Tables
  <1>4. \A t \in Loads : /\ run[t] = "none" /\ tstate[t] = "none" /\ ~Pending(t)
    BY DEF GraphInit, RuntimeInit, Pending
  <1>5. LoadTypeOK
    BY <1>2, <1>3 DEF GraphInit, LoadTypeOK
  <1>6. LoadLedger
    <2>1. {t \in Loads : Pending(t)} = {}
      BY <1>4
    <2>2. Cardinality({}) = 0
      BY FS_EmptySet
    <2> QED
      BY <1>2, <1>4, <2>1, <2>2, RuntimeAssumption DEF LoadLedger, B
  <1>7. DataOnce
    BY <1>2, <1>3, <1>4, RuntimeAssumption DEF DataOnce
  <1>8. GraphsClosed
    BY <1>2, <1>3, <1>4 DEF GraphsClosed, Closed
  <1> QED
    BY <1>1, <1>5, <1>6, <1>7, <1>8 DEF GraphIInv, LoadIInv

LEMMA GraphNextSound ==
  ASSUME GraphIInv, [GraphNext]_graphVars
  PROVE  GraphIInv'
  <1>1. CASE Owner
    BY <1>1, LoadStartKeeps, LoadCancelKeeps, LoadFreeKeeps, TakeLayoutKeeps DEF Owner
  <1>2. CASE Writer
    BY <1>2, WriterKeepsLoad
  <1>3. CASE \E t \in Loads : Worker(t)
    BY <1>3, WorkerKeepsLoad
  <1>4. CASE \E t \in Loads : MainLoop(t)
    BY <1>4, LoadPropagateKeeps, LoadSettleKeeps, LoadCompletedKeeps, CallbackReturnsKeeps,
       LoadDeliveredKeeps DEF MainLoop, Completion
  <1>5. CASE UNCHANGED graphVars
    <2>1. RuntimeIInv'
      BY <1>5, RuntimeStays DEF GraphIInv, graphVars
    <2>2. LoadIInv'
      BY <1>5, LoadUntouched DEF graphVars, runtimeVars, taskVars
    <2> QED
      BY <2>1, <2>2 DEF GraphIInv
  <1> QED
    BY <1>1, <1>2, <1>3, <1>4, <1>5 DEF GraphNext

(* Whatever is written between the readings, and whenever the owner         *)
(* cancels, frees or starts again, also inside the callback: a graph        *)
(* handed over is closed, a load has one task at a time, and the data of a  *)
(* start is destroyed once, after its callback or instead of it             *)
(* (investigation_graph_load_task.c).                                       *)
THEOREM LoadSound == GraphSpec => [](RuntimeIInv /\ LoadIInv)
  <1>1. GraphInit => GraphIInv
    BY GraphInitSound
  <1>2. GraphIInv /\ [GraphNext]_graphVars => GraphIInv'
    BY GraphNextSound
  <1>3. GraphIInv => RuntimeIInv /\ LoadIInv
    BY DEF GraphIInv
  <1> QED
    BY <1>1, <1>2, <1>3, PTL DEF GraphSpec
=============================================================================
