------------------------ MODULE UploadServer_proofs ------------------------
(* The safety of uploads and imports, for any number of uploads, processes  *)
(* and keys: the inductive invariant UploadIInv, then that an import is all *)
(* or nothing and that no replay repairs.                                   *)
EXTENDS UploadServer, FiniteSetTheorems, TLAPS

Steps == Running \cup Ended \cup {"idle"}

ProcRows == [at : Steps, ev : Evidence \cup {None}, key : Keys \cup {None}, sha : Contents]

(* Process p is at a, has hashed s, and works for whom it worked.          *)
Moved(p, a, s) ==
  /\ proc' \in [Procs -> ProcRows]
  /\ proc'[p].at = a /\ proc'[p].sha = s
  /\ proc'[p].ev = proc[p].ev /\ proc'[p].key = proc[p].key
  /\ \A q \in Procs \ {p} : proc'[q] = proc[q]

LEMMA ProcType ==
  ASSUME UploadIInv
  PROVE  proc \in [Procs -> ProcRows]
  BY DEF UploadIInv, UploadTypeOK, ImportTypeOK, ProcRows, Steps

LEMMA GoToMoves ==
  ASSUME UploadIInv, NEW p \in Procs, NEW a \in Steps, GoTo(p, a)
  PROVE  Moved(p, a, proc[p].sha)
  <1> DEFINE row == [proc[p] EXCEPT !.at = a]
  <1>1. proc \in [Procs -> ProcRows] /\ proc[p] \in ProcRows
    BY ProcType
  <1>2. /\ row \in ProcRows /\ row.at = a
        /\ row.ev = proc[p].ev /\ row.key = proc[p].key /\ row.sha = proc[p].sha
    BY <1>1 DEF ProcRows
  <1>3. proc' = [proc EXCEPT ![p] = row]
    BY DEF GoTo
  <1> QED
    BY <1>1, <1>2, <1>3 DEF Moved

(* The steps of a process that touch at most the original of its evidence, *)
(* while that has no row.                                                  *)
OnlyMoves(p) ==
  /\ UNCHANGED <<staged, rows, receipts, intents, altered, mutex, reserved>>
  /\ left' \subseteq Evidence /\ faults' \in 0..MaxFaults
  /\ original' \in [Evidence -> Contents]
  /\ \A e \in Evidence \ {Ev(p)} : original'[e] = original[e]
  /\ original' # original => proc[p].at \in Running \ {"lock", "bind"} /\ rows[Ev(p)] = "none"

(* What the invariant asks of the new step of process p.                   *)
MayMove(p, a, s) ==
  /\ proc[p].at \in Running /\ a \in Running \cup Ended /\ s \in Contents
  /\ lock' \in Procs \cup {None}
  /\ a \in Running \ {"lock"} /\ Key(p) # None <=> lock' = p
  /\ \A q \in Procs \ {p} : lock' = q <=> lock = q
  /\ a \in Running \ {"lock"} =>
       proc[p].at \in Running \ {"lock"} \/ (Ev(p) \in Uploads /\ lock = None)
  /\ a \in {"lock", "bind", "look", "validate", "seal"} => Key(p) # None
  /\ a \in Copying \cup {"hash", "create"} => rows[Ev(p)] = "none"
  /\ a \in Copying \cup {"create"} =>
       s \in {"good", "bad"} /\ (s = "bad" => Ev(p) \in altered)
  /\ a = "record" => Ev(p) \in altered \/ original'[Ev(p)] = s
  /\ Key(p) # None =>
       /\ a \in Running \ {"lock", "bind"} => receipts[Key(p)].of = Ev(p)
       /\ a = "seal" => rows[Ev(p)] = "good"
       /\ a # "done"

LEMMA Moves ==
  ASSUME UploadIInv, NEW p \in Procs, NEW a, NEW s,
         OnlyMoves(p), Moved(p, a, s), MayMove(p, a, s)
  PROVE  UploadIInv'
  <1> USE ImportAssumption DEF UploadIInv, Evidence, Ev, Key, At, State,
        OnlyMoves, Moved, MayMove
  <1>0. /\ a # "idle" /\ proc[p].at # "idle"
        /\ proc \in [Procs -> ProcRows]
    BY ProcType DEF Running, Ended
  <1>1. UploadTypeOK'
    BY <1>0 DEF UploadTypeOK, ImportTypeOK, ProcRows, Steps
  <1>2. ProcsBound'
    BY <1>0 DEF ProcsBound
  <1>3. OneCopier'
    <2>1. ASSUME NEW q \in Procs \ {p}, {proc'[q].at, a} \subseteq Running \ {"lock"}
          PROVE  Ev(p) # Ev(q)
      BY <2>1 DEF OneCopier, ProcsBound
    <2>2. ASSUME NEW q \in Procs
          PROVE  proc'[q].at \in Running \ {"lock"} /\ proc'[q].key # None <=> lock' = q
      BY <2>2 DEF OneCopier
    <2> QED
      BY <2>1, <2>2 DEF OneCopier
  <1>4. CopyOfSource'
    <2>1. ASSUME NEW q \in Procs \ {p}, proc[q].at = "record"
          PROVE  original'[Ev(q)] = original[Ev(q)]
      <3>1. Ev(q) \in Evidence
        BY <2>1, <1>0 DEF ProcsBound, ProcRows
      <3>2. original' # original => Ev(q) # Ev(p)
        BY <2>1 DEF OneCopier, Running
      <3> QED
        BY <3>1, <3>2
    <2> QED
      BY <1>0, <2>1 DEF CopyOfSource
  <1>5. BoundToKey'
    <2>1. \A q \in Procs : proc'[q].ev = proc[q].ev /\ proc'[q].key = proc[q].key
      OBVIOUS
    <2>2. ASSUME NEW q \in Procs \ {p} PROVE proc'[q] = proc[q]
      BY <2>2
    <2> QED
      BY <2>1, <2>2 DEF BoundToKey
  <1>6. DurableBeforeEffect'
    <2>1. ASSUME NEW e \in Uploads, original'[e] # "none", original[e] = "none"
          PROVE  State(e) \in {"CONFIRMING", "IMPORTED"} /\ receipts[intents[e].key].of = e
      <3>1. Ev(p) = e /\ Key(p) # None /\ proc[p].at \in Running \ {"lock", "bind"}
        BY <2>1 DEF ProcsBound
      <3> QED
        BY <3>1 DEF BoundToKey
    <2> QED
      BY <2>1 DEF DurableBeforeEffect
  <1>7. QuotaHeld'
    BY DEF QuotaHeld
  <1> QED
    BY <1>1, <1>2, <1>3, <1>4, <1>5, <1>6, <1>7

LEMMA HashSourceStep ==
  ASSUME UploadIInv, NEW p \in Procs, HashSource(p), UNCHANGED serverVars
  PROVE  UploadIInv'
  <1> DEFINE s == staged[Ev(p)]
             row == [[proc[p] EXCEPT !.at = "create"] EXCEPT !.sha = s]
  <1>1. /\ proc[p].at = "hash" /\ s # "none"
        /\ UNCHANGED <<staged, original, rows, receipts, lock, left, faults, intents,
                       altered, mutex, reserved>>
    BY DEF HashSource, At, Same, files, serverVars
  <1>2. proc[p] \in ProcRows /\ proc \in [Procs -> ProcRows] /\ Ev(p) \in Evidence
    BY <1>1, ProcType DEF UploadIInv, ProcsBound, ProcRows, Ev, At
  <1>3. s \in {"good", "bad"} /\ (s = "bad" => Ev(p) \in altered)
    <2>1. staged[Ev(p)] \in Contents
      BY <1>2 DEF UploadIInv, UploadTypeOK, ImportTypeOK
    <2>2. staged[Ev(p)] # "part" /\ (staged[Ev(p)] = "bad" => Ev(p) \in altered)
      BY <1>2 DEF UploadIInv, CopyOfSource
    <2> QED
      BY <1>1, <2>1, <2>2 DEF Contents
  <1>4. row \in ProcRows /\ row.at = "create" /\ row.sha = s
          /\ row.ev = proc[p].ev /\ row.key = proc[p].key
    BY <1>2, <1>3 DEF ProcRows, Steps, Running, Contents
  <1>5. proc' = [proc EXCEPT ![p] = row]
    BY DEF HashSource
  <1>6. Moved(p, "create", s)
    BY <1>2, <1>4, <1>5 DEF Moved
  <1>7. MayMove(p, "create", s)
    BY <1>1, <1>3 DEF UploadIInv, UploadTypeOK, ImportTypeOK, ProcsBound, OneCopier,
       CopyOfSource, BoundToKey, Running, Copying, Contents, Ev, Key, MayMove
  <1> QED
    BY <1>1, <1>6, <1>7, Moves DEF OnlyMoves, UploadIInv, UploadTypeOK, ImportTypeOK

LEMMA VerifyCopyStep ==
  ASSUME UploadIInv, NEW p \in Procs, VerifyCopy(p), UNCHANGED serverVars
  PROVE  UploadIInv'
  <1>1. /\ proc[p].at = "verify" /\ Verified(p) /\ Moved(p, "record", proc[p].sha)
        /\ proc[p].sha \in Contents /\ original[Ev(p)] = proc[p].sha
    BY ProcType, GoToMoves DEF VerifyCopy, At, Steps, Running, ProcRows, Verified
  <1>2. MayMove(p, "record", proc[p].sha)
    BY <1>1 DEF VerifyCopy, files, UploadIInv, UploadTypeOK, ImportTypeOK, OneCopier, CopyOfSource, BoundToKey,
       Running, Copying, MayMove
  <1> QED
    BY <1>1, <1>2, Moves DEF VerifyCopy, Same, files, serverVars, OnlyMoves, UploadIInv,
       UploadTypeOK, ImportTypeOK

LEMMA TakeLockStep ==
  ASSUME UploadIInv, NEW p \in Procs, TakeLock(p), UNCHANGED serverVars
  PROVE  UploadIInv'
  <1>1. /\ proc[p].at = "lock" /\ lock = None /\ lock' = p
        /\ Moved(p, "bind", proc[p].sha) /\ proc[p].sha \in Contents
        /\ Key(p) # None /\ Ev(p) \in Uploads
    BY ProcType, GoToMoves DEF TakeLock, At, Steps, Running, ProcRows, UploadIInv, ProcsBound
  <1>2. MayMove(p, "bind", proc[p].sha)
    BY <1>1, ImportAssumption DEF Running, Copying, MayMove
  <1> QED
    BY <1>1, <1>2, Moves DEF TakeLock, Same, files, serverVars, OnlyMoves, UploadIInv,
       UploadTypeOK, ImportTypeOK

LEMMA LookForEvidenceStep ==
  ASSUME UploadIInv, NEW p \in Procs, LookForEvidence(p), UNCHANGED serverVars
  PROVE  UploadIInv'
  <1>1. PICK a \in {"validate", "hash"} : GoTo(p, a) /\ (a = "hash" => rows[Ev(p)] = "none")
    BY DEF LookForEvidence
  <1>2. /\ proc[p].at = "look" /\ Moved(p, a, proc[p].sha) /\ proc[p].sha \in Contents
        /\ Key(p) # None
    BY <1>1, ProcType, GoToMoves DEF LookForEvidence, At, Steps, Running, ProcRows, UploadIInv, ProcsBound
  <1>3. MayMove(p, a, proc[p].sha)
    BY <1>1, <1>2 DEF LookForEvidence, files, UploadIInv, UploadTypeOK, ImportTypeOK, OneCopier, BoundToKey,
       Running, Copying, MayMove
  <1> QED
    BY <1>2, <1>3, Moves DEF LookForEvidence, Same, files, serverVars, OnlyMoves, UploadIInv,
       UploadTypeOK, ImportTypeOK

LEMMA ValidatePublishedStep ==
  ASSUME UploadIInv, NEW p \in Procs, ValidatePublished(p), UNCHANGED serverVars
  PROVE  UploadIInv'
  <1>1. /\ proc[p].at = "validate" /\ rows[Ev(p)] = "good"
        /\ Moved(p, "seal", proc[p].sha) /\ proc[p].sha \in Contents /\ Key(p) # None
    BY ProcType, GoToMoves DEF ValidatePublished, Published, At, Steps, Running, ProcRows, UploadIInv, ProcsBound
  <1>2. MayMove(p, "seal", proc[p].sha)
    BY <1>1 DEF ValidatePublished, files, UploadIInv, UploadTypeOK, ImportTypeOK, OneCopier, BoundToKey,
       Running, Copying, MayMove
  <1> QED
    BY <1>1, <1>2, Moves DEF ValidatePublished, Same, files, serverVars, OnlyMoves, UploadIInv,
       UploadTypeOK, ImportTypeOK

(* A process that ends lets go of the lock and leaves the files alone.     *)
LEMMA EndStep ==
  ASSUME UploadIInv, NEW p \in Procs, proc[p].at \in Running, End(p, "refused"), OnlyMoves(p)
  PROVE  UploadIInv'
  <1>1. Moved(p, "refused", proc[p].sha) /\ proc[p].sha \in Contents
    BY ProcType, GoToMoves DEF End, Steps, Ended, ProcRows
  <1>2. MayMove(p, "refused", proc[p].sha)
    BY <1>1, ImportAssumption DEF End, UploadIInv, UploadTypeOK, ImportTypeOK, Running, Copying,
       Ended, MayMove
  <1> QED
    BY <1>1, <1>2, Moves

LEMMA RefuseStep ==
  ASSUME UploadIInv, NEW p \in Procs, Refuse(p), UNCHANGED serverVars
  PROVE  UploadIInv'
  BY EndStep, ImportAssumption DEF Refuse, Same, files, serverVars, OnlyMoves, UploadIInv,
     UploadTypeOK, ImportTypeOK

LEMMA KillStep ==
  ASSUME UploadIInv, NEW p \in Procs, Kill(p), UNCHANGED serverVars
  PROVE  UploadIInv'
  <1>1. proc[p].at \in Copying => Ev(p) \in Evidence
    BY ProcType DEF UploadIInv, ProcsBound, ProcRows, Copying, Ev, At
  <1> QED
    BY <1>1, EndStep, ImportAssumption DEF Kill, Killed, Same, files, serverVars, OnlyMoves,
       UploadIInv, UploadTypeOK, ImportTypeOK

LEMMA CreateDestinationStep ==
  ASSUME UploadIInv, NEW p \in Procs, CreateDestination(p), UNCHANGED serverVars
  PROVE  UploadIInv'
  <1>1. /\ proc[p].at = "create" /\ rows[Ev(p)] = "none"
        /\ Moved(p, "copy", proc[p].sha) /\ proc[p].sha \in Contents
    BY ProcType, GoToMoves DEF CreateDestination, At, Steps, Running, ProcRows, UploadIInv,
       CopyOfSource
  <1>2. MayMove(p, "copy", proc[p].sha)
    BY <1>1 DEF CreateDestination, UploadIInv, UploadTypeOK, ImportTypeOK, OneCopier,
       CopyOfSource, BoundToKey, Running, Copying, MayMove
  <1> QED
    BY <1>1, <1>2, Moves DEF CreateDestination, Same, serverVars, OnlyMoves, UploadIInv,
       UploadTypeOK, ImportTypeOK, Running, Contents

LEMMA CopyContentsStep ==
  ASSUME UploadIInv, NEW p \in Procs, CopyContents(p), UNCHANGED serverVars
  PROVE  UploadIInv'
  <1>1. /\ proc[p].at = "copy" /\ rows[Ev(p)] = "none" /\ Ev(p) \in Evidence
        /\ Moved(p, "verify", proc[p].sha) /\ proc[p].sha \in Contents
    BY ProcType, GoToMoves DEF CopyContents, At, Steps, Running, Copying, ProcRows, UploadIInv,
       CopyOfSource, ProcsBound, Ev
  <1>2. MayMove(p, "verify", proc[p].sha)
    BY <1>1 DEF CopyContents, UploadIInv, UploadTypeOK, ImportTypeOK, OneCopier,
       CopyOfSource, BoundToKey, Running, Copying, MayMove
  <1> QED
    BY <1>1, <1>2, Moves DEF CopyContents, Same, serverVars, OnlyMoves, UploadIInv,
       UploadTypeOK, ImportTypeOK, Running

(* The copy is taken back, or the removal fails too.                       *)
LEMMA GiveUpStep ==
  ASSUME UploadIInv, NEW p \in Procs, GiveUp(p), UNCHANGED serverVars
  PROVE  UploadIInv'
  <1>1. /\ proc[p].at \in Copying /\ rows[Ev(p)] = "none" /\ Ev(p) \in Evidence
        /\ Copying \subseteq Running \ {"lock", "bind"}
    BY ProcType DEF GiveUp, RemoveCopy, UploadIInv, CopyOfSource, ProcsBound, ProcRows, Copying,
       Running, Ev, At
  <1>2. left' \subseteq Evidence /\ faults' \in 0..MaxFaults
    <2>1. \/ left' \ left = {}
          \/ faults < MaxFaults /\ left' \ left \in {{}, {Ev(p)}}
      BY DEF GiveUp, RemoveCopy
    <2>2. \/ Cardinality(left' \ left) = 0
          \/ faults < MaxFaults /\ Cardinality(left' \ left) \in {0, 1}
      BY <2>1, FS_EmptySet, FS_Singleton
    <2> QED
      BY <1>1, <2>2, ImportAssumption DEF GiveUp, RemoveCopy, UploadIInv, UploadTypeOK, ImportTypeOK
  <1>3. OnlyMoves(p)
    BY <1>1, <1>2 DEF GiveUp, RemoveCopy, Same, serverVars, OnlyMoves, UploadIInv, UploadTypeOK,
       ImportTypeOK, Contents
  <1> QED
    BY <1>1, <1>3, EndStep DEF GiveUp, RemoveCopy

(* The row is committed: nobody else works on this evidence.               *)
LEMMA CommitRowStep ==
  ASSUME UploadIInv, NEW p \in Procs, CommitRow(p), UNCHANGED serverVars
  PROVE  UploadIInv'
  <1> USE ImportAssumption DEF UploadIInv, Evidence, Ev, Key, At, State, Moved
  <1> DEFINE e == Ev(p)
  <1>a. PICK a \in {"done", "validate"} : GoTo(p, a) /\ (a = "done" <=> Key(p) = None)
    BY DEF CommitRow
  <1>b. /\ rows' = [rows EXCEPT ![e] = proc[p].sha] /\ rows[e] = "none"
        /\ proc[p].at = "record" /\ proc[p].at \in Running \ {"lock", "bind"}
        /\ UNCHANGED <<staged, original, receipts, lock, left, faults, intents, altered,
                       mutex, reserved>>
    BY DEF CommitRow, Unrecorded, Same, serverVars, Running
  <1>c. /\ Moved(p, a, proc[p].sha) /\ proc \in [Procs -> ProcRows]
        /\ e \in Evidence /\ proc[p].sha \in {"good", "bad"}
        /\ a \in {"done", "validate"} /\ (a = "done" <=> Key(p) = None)
    BY <1>a, <1>b, ProcType, GoToMoves DEF Steps, Running, Ended, ProcsBound, CopyOfSource,
       Copying, ProcRows
  <1>d. /\ rows' \in [Evidence -> {"none", "good", "bad"}] /\ rows'[e] # "none"
        /\ \A x \in Evidence \ {e} : rows'[x] = rows[x]
    BY <1>b, <1>c DEF UploadTypeOK, ImportTypeOK
  <1>1. UploadTypeOK'
    BY <1>b, <1>c, <1>d DEF UploadTypeOK, ImportTypeOK, ProcRows, Steps
  <1>2. ProcsBound'
    BY <1>b, <1>c DEF ProcsBound
  <1>3. OneCopier'
    BY <1>b, <1>c DEF OneCopier, Running
  <1>4. CopyOfSource'
    <2>1. ASSUME NEW q \in Procs, proc'[q].at \in Copying \cup {"hash", "create"}
          PROVE  q # p /\ Ev(q) \in Evidence \ {e}
      BY <2>1, <1>b, <1>c DEF OneCopier, Running, Copying, ProcsBound, ProcRows
    <2> QED
      BY <2>1, <1>b, <1>c, <1>d DEF CopyOfSource, Copying
  <1>5. BoundToKey'
    <2>1. ASSUME NEW q \in Procs, rows[Ev(q)] = "good" PROVE rows'[Ev(q)] = "good"
      BY <2>1, <1>b, <1>c
    <2> QED
      BY <2>1, <1>b, <1>c DEF BoundToKey, Running
  <1>6. DurableBeforeEffect'
    <2>1. e \in Uploads => State(e) \in {"CONFIRMING", "IMPORTED"} /\ receipts[intents[e].key].of = e
      BY <1>b DEF BoundToKey, ProcsBound
    <2>2. ASSUME NEW k \in Keys, rows[receipts[k].of] = "good" PROVE rows'[receipts[k].of] = "good"
      BY <2>2, <1>b, <1>c
    <2> QED
      BY <2>1, <2>2, <1>b, <1>d DEF DurableBeforeEffect
  <1>7. QuotaHeld'
    BY <1>b DEF QuotaHeld
  <1> QED
    BY <1>1, <1>2, <1>3, <1>4, <1>5, <1>6, <1>7

(* The key is given to this upload, or was.                                *)
LEMMA BindStep ==
  ASSUME UploadIInv, NEW p \in Procs, Bind(p), UNCHANGED serverVars
  PROVE  UploadIInv'
  <1> USE ImportAssumption DEF UploadIInv, Evidence, Ev, Key, At, State, Moved
  <1> DEFINE k == Key(p)
             e == Ev(p)
  <1>b. /\ proc[p].at = "bind" /\ receipts[k].of \in {None, e}
        /\ receipts' = IF receipts[k].of # None THEN receipts ELSE
             [receipts EXCEPT ![k] = [of |-> e, state |-> "CONFIRMING"]]
        /\ UNCHANGED <<staged, original, rows, lock, left, faults, intents, altered,
                       mutex, reserved>>
    BY DEF Bind, ReceiptMatches, Same, serverVars
  <1>c. /\ Moved(p, "look", proc[p].sha) /\ proc \in [Procs -> ProcRows]
        /\ k \in Keys /\ e \in Uploads
    BY <1>b, ProcType, GoToMoves DEF Bind, Steps, Running, ProcsBound, ProcRows
  <1>d. /\ receipts' \in [Keys -> [of : Uploads \cup {None},
                                  state : {"none", "CONFIRMING", "IMPORTED"}]]
        /\ receipts'[k].of = e
        /\ \A j \in Keys : receipts[j].of # None => receipts'[j] = receipts[j]
        /\ \A j \in Keys : receipts'[j] # receipts[j] =>
              receipts[j].of = None /\ receipts'[j] = [of |-> e, state |-> "CONFIRMING"]
    BY <1>b, <1>c DEF UploadTypeOK, ImportTypeOK
  <1>1. UploadTypeOK'
    BY <1>b, <1>c, <1>d DEF UploadTypeOK, ImportTypeOK, ProcRows, Steps
  <1>2. ProcsBound'
    BY <1>b, <1>c DEF ProcsBound
  <1>3. OneCopier'
    BY <1>b, <1>c DEF OneCopier, Running
  <1>4. CopyOfSource'
    BY <1>b, <1>c DEF CopyOfSource, Copying
  <1>5. BoundToKey'
    <2>1. ASSUME NEW q \in Procs, Key(q) # None
          PROVE  /\ State(Ev(q)) \in {"CONFIRMING", "IMPORTED"} /\ intents[Ev(q)].key = Key(q)
                 /\ proc'[q].at \in Running \ {"lock", "bind"} => receipts'[Key(q)].of = Ev(q)
                 /\ proc'[q].at = "seal" => rows[Ev(q)] = "good"
                 /\ proc'[q].at = "done" => receipts'[Key(q)].state = "IMPORTED"
      <3>1. Key(q) \in Keys /\ Ev(q) \in Uploads
        BY <2>1, <1>c DEF ProcsBound, ProcRows
      <3>2. CASE q = p
        BY <3>2, <1>c, <1>d DEF BoundToKey
      <3>3. CASE q # p
        BY <3>1, <3>3, <2>1, <1>c, <1>d DEF BoundToKey, ProcsBound
      <3> QED
        BY <3>2, <3>3
    <2>2. ASSUME NEW j \in Keys, receipts'[j].of = None PROVE receipts'[j].state = "none"
      BY <2>2, <1>c, <1>d DEF BoundToKey
    <2> QED
      BY <2>1, <2>2, <1>b, <1>c DEF BoundToKey
  <1>6. DurableBeforeEffect'
    <2>1. ASSUME NEW x \in Uploads, original[x] # "none" \/ rows[x] # "none"
          PROVE  receipts'[intents[x].key].of = x
      <3>1. intents[x].key \in Keys /\ receipts[intents[x].key].of = x
        BY <2>1 DEF DurableBeforeEffect, BoundToKey, UploadTypeOK
      <3> QED
        BY <3>1, <1>d
    <2>2. ASSUME NEW j \in Keys, receipts'[j].state = "IMPORTED"
          PROVE  rows[receipts'[j].of] = "good"
      BY <2>2, <1>d DEF DurableBeforeEffect
    <2>3. ASSUME NEW x \in Uploads, State(x) = "IMPORTED"
          PROVE  receipts'[intents[x].key].state = "IMPORTED"
      <3>1. intents[x].key \in Keys /\ receipts[intents[x].key].state = "IMPORTED"
        BY <2>3 DEF DurableBeforeEffect, BoundToKey, UploadTypeOK
      <3> QED
        BY <3>1, <1>d DEF BoundToKey
    <2> QED
      BY <2>1, <2>2, <2>3, <1>b DEF DurableBeforeEffect
  <1>7. QuotaHeld'
    BY <1>b DEF QuotaHeld
  <1> QED
    BY <1>1, <1>2, <1>3, <1>4, <1>5, <1>6, <1>7

(* The receipt says it is done, and the lock is let go.                    *)
LEMMA WriteReceiptStep ==
  ASSUME UploadIInv, NEW p \in Procs, WriteReceipt(p), UNCHANGED serverVars
  PROVE  UploadIInv'
  <1> USE ImportAssumption DEF UploadIInv, Evidence, Ev, Key, At, State, Moved
  <1> DEFINE k == Key(p)
             e == Ev(p)
             row == [receipts[k] EXCEPT !.state = "IMPORTED"]
  <1>b. /\ proc[p].at = "seal"
        /\ UNCHANGED <<staged, original, rows, left, faults, intents, altered,
                       mutex, reserved>>
    BY DEF WriteReceipt, Same, serverVars
  <1>c. /\ Moved(p, "done", proc[p].sha) /\ proc \in [Procs -> ProcRows]
        /\ k \in Keys /\ e \in Uploads
        /\ receipts[k].of = e /\ rows[e] = "good"
    BY <1>b, ProcType, GoToMoves DEF WriteReceipt, End, Steps, Running, Ended, ProcsBound, ProcRows,
       BoundToKey
  <1>d. /\ lock' \in Procs \cup {None} /\ lock' # p
        /\ \A q \in Procs \ {p} : lock' = q <=> lock = q
    BY DEF WriteReceipt, End, UploadTypeOK, ImportTypeOK
  <1>e. /\ receipts' \in [Keys -> [of : Uploads \cup {None},
                                  state : {"none", "CONFIRMING", "IMPORTED"}]]
        /\ receipts'[k].of = e /\ receipts'[k].state = "IMPORTED"
        /\ \A j \in Keys \ {k} : receipts'[j] = receipts[j]
    <2>1. /\ receipts[k] \in [of : Uploads \cup {None}, state : {"none", "CONFIRMING", "IMPORTED"}]
          /\ receipts \in [Keys -> [of : Uploads \cup {None}, state : {"none", "CONFIRMING", "IMPORTED"}]]
      BY <1>c DEF UploadTypeOK, ImportTypeOK
    <2>2. /\ row \in [of : Uploads \cup {None}, state : {"none", "CONFIRMING", "IMPORTED"}]
          /\ row.of = e /\ row.state = "IMPORTED"
      BY <2>1, <1>c
    <2>3. receipts' = [receipts EXCEPT ![k] = row]
      BY DEF WriteReceipt
    <2> QED
      BY <1>c, <2>1, <2>2, <2>3
  <1>1. UploadTypeOK'
    BY <1>b, <1>c, <1>d, <1>e DEF UploadTypeOK, ImportTypeOK, ProcRows, Steps
  <1>2. ProcsBound'
    BY <1>b, <1>c DEF ProcsBound
  <1>3. OneCopier'
    BY <1>b, <1>c, <1>d DEF OneCopier, Running
  <1>4. CopyOfSource'
    BY <1>b, <1>c DEF CopyOfSource, Copying
  <1>5. BoundToKey'
    <2>1. \A j \in Keys : /\ receipts'[j].of = receipts[j].of
                          /\ receipts[j].state = "IMPORTED" => receipts'[j].state = "IMPORTED"
      BY <1>c, <1>e
    <2>2. \A q \in Procs : Key(q) # None => Key(q) \in Keys
      BY <1>c DEF ProcRows
    <2> QED
      BY <2>1, <2>2, <1>b, <1>c, <1>e DEF BoundToKey, Running
  <1>6. DurableBeforeEffect'
    <2>1. \A x \in Uploads : intents[x].key # None => intents[x].key \in Keys
      BY DEF UploadTypeOK
    <2> QED
      BY <2>1, <1>b, <1>c, <1>e DEF DurableBeforeEffect, BoundToKey
  <1>7. QuotaHeld'
    BY <1>b DEF QuotaHeld
  <1> QED
    BY <1>1, <1>2, <1>3, <1>4, <1>5, <1>6, <1>7

(* Whatever somebody else touches is accounted for.                        *)
LEMMA AlterStep ==
  ASSUME UploadIInv, NEW e \in Evidence, Alter(e), UNCHANGED serverVars
  PROVE  UploadIInv'
  <1> USE DEF UploadIInv, At
  <1>1. /\ UNCHANGED <<rows, receipts, intents, proc, lock, left, faults, mutex, reserved>>
        /\ altered' = altered \cup {e}
        /\ \/ staged[e] # "none" /\ staged' = [staged EXCEPT ![e] = "bad"] /\ UNCHANGED original
           \/ original[e] # "none" /\ original' = [original EXCEPT ![e] = "bad"] /\ UNCHANGED staged
    BY DEF Alter, serverVars
  <1>2. /\ staged' \in [Evidence -> Contents] /\ original' \in [Evidence -> Contents]
        /\ \A x \in Evidence : (staged'[x] = "none" <=> staged[x] = "none")
                             /\ (original'[x] = "none" <=> original[x] = "none")
        /\ \A x \in Evidence \ {e} : staged'[x] = staged[x] /\ original'[x] = original[x]
        /\ staged'[e] \in {staged[e], "bad"}
    BY <1>1 DEF UploadTypeOK, ImportTypeOK, Contents
  <1>3. UploadTypeOK' /\ ProcsBound' /\ OneCopier' /\ BoundToKey'
    BY <1>1, <1>2 DEF UploadTypeOK, ImportTypeOK, ProcsBound, OneCopier, BoundToKey, Ev, Key, State
  <1>4. CopyOfSource'
    <2>1. ASSUME NEW p \in Procs, At(p, "record"), Ev(p) # e
          PROVE  original'[Ev(p)] = original[Ev(p)]
      BY <2>1, <1>2, ProcType, ImportAssumption DEF ProcsBound, ProcRows, Ev
    <2> QED
      BY <2>1, <1>1, <1>2 DEF CopyOfSource, Ev
  <1>5. DurableBeforeEffect'
    BY <1>1, <1>2 DEF DurableBeforeEffect, Evidence, State
  <1>6. QuotaHeld'
    <2>1. \A x \in Uploads : staged'[x] = "none" <=> staged[x] = "none"
      BY <1>2 DEF Evidence
    <2>2. {x \in Uploads : staged'[x] # "none" \/ mutex[x] = "receive"}
            = {x \in Uploads : staged[x] # "none" \/ mutex[x] = "receive"}
      BY <2>1
    <2> QED
      BY <2>2, <1>1 DEF QuotaHeld
  <1> QED
    BY <1>3, <1>4, <1>5, <1>6

(* A process that starts works for e under k.                              *)
Started(p, e, k) ==
  /\ proc' \in [Procs -> ProcRows]
  /\ proc'[p].at = (IF k = None THEN "hash" ELSE "lock")
  /\ proc'[p].ev = e /\ proc'[p].key = k
  /\ \A q \in Procs \ {p} : proc'[q] = proc[q]

LEMMA LaunchStarts ==
  ASSUME UploadIInv, NEW p \in Procs, NEW e \in Evidence, NEW k \in Keys \cup {None},
         Launch(p, e, k)
  PROVE  Started(p, e, k)
  <1> DEFINE a   == IF k = None THEN "hash" ELSE "lock"
             new == [Resting EXCEPT !.at = a, !.ev = e, !.key = k]
  <1>1. a \in Steps /\ Resting \in ProcRows
    BY DEF ProcRows, Steps, Running, Contents, Resting
  <1>2. new \in ProcRows /\ new.at = a /\ new.ev = e /\ new.key = k
    <2> HIDE DEF a
    <2> QED BY <1>1 DEF ProcRows
  <1>3. proc' = [proc EXCEPT ![p] = new]
    BY DEF Launch
  <1> QED
    BY <1>2, <1>3, ProcType DEF Started

(* A task of the desktop takes an identifier nobody else has.              *)
LEMMA StartTaskStep ==
  ASSUME UploadIInv, NEW p \in Procs, NEW e \in Desktop, StartTask(p, e), UNCHANGED serverVars
  PROVE  UploadIInv'
  <1> USE ImportAssumption DEF UploadIInv, Evidence, Ev, Key, At, State, Started
  <1>1. /\ proc[p].at = "idle" /\ rows[e] = "none" /\ \A q \in Procs : Ev(q) # e
        /\ UNCHANGED <<staged, original, rows, receipts, lock, left, faults, intents, altered,
                       mutex, reserved>>
    BY DEF StartTask, Spare, Same, files, serverVars
  <1>2. /\ Started(p, e, None) /\ proc \in [Procs -> ProcRows] /\ e \notin Uploads
        /\ lock # p
    BY <1>1, ProcType, LaunchStarts DEF StartTask, OneCopier, Running
  <1>3. UploadTypeOK' /\ ProcsBound'
    BY <1>1, <1>2 DEF UploadTypeOK, ImportTypeOK, ProcsBound, ProcRows, Steps
  <1>4. OneCopier'
    BY <1>1, <1>2 DEF OneCopier
  <1>5. CopyOfSource' /\ DurableBeforeEffect' /\ QuotaHeld'
    BY <1>1, <1>2 DEF CopyOfSource, Copying, DurableBeforeEffect, QuotaHeld
  <1>6. BoundToKey'
    <2>1. ASSUME NEW x \in Uploads, mutex[x] \in Procs
          PROVE  mutex[x] # p
      BY <2>1, <1>1 DEF BoundToKey, ProcsBound
    <2>2. ASSUME NEW q \in Procs, proc'[q].key # None
          PROVE  q # p
      BY <2>2, <1>2
    <2> QED
      BY <2>1, <2>2, <1>1, <1>2 DEF BoundToKey
  <1> QED
    BY <1>3, <1>4, <1>5, <1>6

(* The intent is bound to the key before the command that has it starts.   *)
LEMMA ConfirmStep ==
  ASSUME UploadIInv, NEW e \in Uploads, NEW k \in Keys, NEW p \in Procs, Confirm(e, k, p)
  PROVE  UploadIInv'
  <1> USE ImportAssumption, UploadAssumption DEF UploadIInv, Evidence, Ev, Key, At, Started
  <1> DEFINE row == [state |-> IF State(e) = "IMPORTED" THEN State(e) ELSE "CONFIRMING", key |-> k]
  <1>1. /\ proc[p].at = "idle" /\ mutex[e] = "free"
        /\ State(e) \in {"PREPARED", "CONFIRMING", "IMPORTED"}
        /\ intents[e].key \in {None, k}
        /\ mutex' = [mutex EXCEPT ![e] = p]
        /\ UNCHANGED <<staged, original, rows, receipts, lock, left, faults, altered, reserved>>
    BY DEF Confirm, Free, Spare, Lock, files
  <1>2. /\ Started(p, e, k) /\ proc \in [Procs -> ProcRows] /\ lock # p
    BY <1>1, ProcType, LaunchStarts DEF Confirm, OneCopier, Running
  <1>3. /\ intents' \in [Evidence ->
             [state : {"none", "RECEIVING", "TRANSFERRING", "PREPARED", "CONFIRMING",
                       "IMPORTED", "CANCELLED", "FAILED", "gone"},
              key : Keys \cup {None}]]
        /\ intents'[e].key = k /\ intents'[e].state \in {"CONFIRMING", "IMPORTED"}
        /\ intents'[e].state = "IMPORTED" <=> State(e) = "IMPORTED"
        /\ \A x \in Evidence \ {e} : intents'[x] = intents[x]
        /\ State(e) \in {"CONFIRMING", "IMPORTED"} => intents[e].key = k
    <2>1. intents' = [intents EXCEPT ![e] = row]
      BY DEF Confirm, State
    <2>2. State(e) \in {"CONFIRMING", "IMPORTED"} => intents[e].key = k
      BY <1>1 DEF BoundToKey
    <2> QED
      BY <2>1, <2>2, <1>1 DEF UploadTypeOK
  <1>4. UploadTypeOK'
    BY <1>1, <1>2, <1>3 DEF UploadTypeOK, ImportTypeOK, ProcRows, Steps
  <1>5. ProcsBound'
    BY <1>1, <1>2 DEF ProcsBound
  <1>6. OneCopier'
    BY <1>1, <1>2 DEF OneCopier
  <1>7. CopyOfSource'
    BY <1>1, <1>2 DEF CopyOfSource, Copying
  <1>8. BoundToKey'
    <2>1. ASSUME NEW x \in Uploads
          PROVE  /\ intents'[x].state \in {"CONFIRMING", "IMPORTED"} => intents'[x].key # None
                 /\ mutex'[x] = "receive" => intents'[x].state \in {"TRANSFERRING", "PREPARED"}
                 /\ mutex'[x] \in Procs => proc'[mutex'[x]].ev = x
      <3>1. CASE x = e
        BY <3>1, <1>1, <1>2, <1>3 DEF UploadTypeOK
      <3>2. CASE x # e
        <4>1. mutex'[x] = mutex[x] /\ intents'[x] = intents[x]
          BY <3>2, <1>1, <1>3 DEF UploadTypeOK
        <4>2. mutex[x] \in Procs => mutex[x] # p
          BY <1>1 DEF BoundToKey, ProcsBound
        <4> QED
          BY <4>1, <4>2, <1>2 DEF BoundToKey, State
      <3> QED
        BY <3>1, <3>2
    <2>2. ASSUME NEW q \in Procs, proc'[q].key # None
          PROVE  /\ intents'[proc'[q].ev].state \in {"CONFIRMING", "IMPORTED"}
                 /\ intents'[proc'[q].ev].key = proc'[q].key
      <3>1. CASE q = p
        BY <3>1, <1>2, <1>3
      <3>2. CASE q # p
        BY <3>2, <2>2, <1>1, <1>2, <1>3 DEF BoundToKey, ProcsBound, State
      <3> QED
        BY <3>1, <3>2
    <2> QED
      BY <2>1, <2>2, <1>1, <1>2 DEF BoundToKey, State
  <1>9. DurableBeforeEffect'
    BY <1>1, <1>3 DEF DurableBeforeEffect, State
  <1>10. QuotaHeld'
    <2>1. /\ {x \in Uploads : mutex'[x] = "receive"} = {x \in Uploads : mutex[x] = "receive"}
          /\ {x \in Uploads : staged[x] # "none" \/ mutex'[x] = "receive"}
               = {x \in Uploads : staged[x] # "none" \/ mutex[x] = "receive"}
      BY <1>1 DEF UploadTypeOK
    <2> QED
      BY <2>1, <1>1 DEF QuotaHeld
  <1> QED
    BY <1>4, <1>5, <1>6, <1>7, <1>8, <1>9, <1>10

UploadStates == {"none", "RECEIVING", "TRANSFERRING", "PREPARED", "CONFIRMING",
                 "IMPORTED", "CANCELLED", "FAILED", "gone"}

(* The intent of e says s, under the key it had.                           *)
Written(e, s) ==
  /\ intents' \in [Evidence -> [state : UploadStates, key : Keys \cup {None}]]
  /\ intents'[e].state = s /\ intents'[e].key = intents[e].key
  /\ \A x \in Evidence \ {e} : intents'[x] = intents[x]

LEMMA WriteWrites ==
  ASSUME UploadIInv, NEW e \in Uploads, NEW s \in UploadStates, Write(e, s)
  PROVE  Written(e, s)
  <1> DEFINE row == [intents[e] EXCEPT !.state = s]
             Rows == [state : UploadStates, key : Keys \cup {None}]
  <1>1. intents \in [Evidence -> Rows] /\ intents[e] \in Rows
    BY DEF UploadIInv, UploadTypeOK, UploadStates, Evidence
  <1>2. row \in Rows /\ row.state = s /\ row.key = intents[e].key
    BY <1>1
  <1>3. intents' = [intents EXCEPT ![e] = row]
    BY DEF Write
  <1> QED
    BY <1>1, <1>2, <1>3 DEF Written, Evidence

(* A process whose end was read is at rest.                                *)
LEMMA AtRest ==
  ASSUME UploadIInv, NEW p \in Procs, proc' = [proc EXCEPT ![p] = Resting]
  PROVE  /\ proc' \in [Procs -> ProcRows]
         /\ proc'[p].at = "idle" /\ proc'[p].ev = None /\ proc'[p].key = None
         /\ \A q \in Procs \ {p} : proc'[q] = proc[q]
  <1>1. Resting \in ProcRows /\ Resting.at = "idle" /\ Resting.ev = None /\ Resting.key = None
    BY DEF Resting, ProcRows, Steps, Contents
  <1> QED
    BY <1>1, ProcType

(* A process at rest leaves nothing behind that the invariant speaks of.   *)
LEMMA Rests ==
  ASSUME UploadIInv, NEW p \in Procs, proc[p].at \in Ended,
         proc' = [proc EXCEPT ![p] = Resting],
         UNCHANGED <<staged, original, rows, receipts, lock, left, altered, faults>>
  PROVE  /\ ImportTypeOK' /\ ProcsBound' /\ OneCopier' /\ CopyOfSource'
  <1> USE ImportAssumption DEF UploadIInv, Ev, Key, At
  <1>1. ImportTypeOK'
    BY AtRest DEF UploadTypeOK, ImportTypeOK, ProcRows, Steps
  <1>2. ProcsBound'
    BY AtRest DEF ProcsBound, Evidence
  <1>3. OneCopier'
    <2>1. "idle" \notin Running /\ proc[p].at \notin Running /\ lock # p
      BY DEF OneCopier, Running, Ended
    <2>2. proc'[p].at = "idle" /\ \A q \in Procs \ {p} : proc'[q] = proc[q]
      BY AtRest
    <2>3. ASSUME NEW q \in Procs, NEW r \in Procs, q # r,
                 {proc'[q].at, proc'[r].at} \subseteq Running \ {"lock"}
          PROVE  proc'[q].ev # proc'[r].ev
      BY <2>1, <2>2, <2>3 DEF OneCopier
    <2>4. ASSUME NEW q \in Procs
          PROVE  proc'[q].at \in Running \ {"lock"} /\ proc'[q].key # None <=> lock = q
      BY <2>1, <2>2 DEF OneCopier
    <2> QED
      BY <2>3, <2>4 DEF OneCopier
  <1>4. CopyOfSource'
    BY AtRest DEF CopyOfSource, Copying
  <1> QED
    BY <1>1, <1>2, <1>3, <1>4

LEMMA ReapStep ==
  ASSUME UploadIInv, NEW p \in Procs, Reap(p)
  PROVE  UploadIInv'
  <1>1. /\ proc[p].at \in Ended /\ \A e \in Uploads : mutex[e] # p
        /\ proc' = [proc EXCEPT ![p] = Resting]
        /\ UNCHANGED <<staged, original, rows, receipts, intents, lock, left, altered, faults,
                       mutex, reserved>>
    BY DEF Reap, files, serverVars
  <1>2. ImportTypeOK' /\ ProcsBound' /\ OneCopier' /\ CopyOfSource'
    BY <1>1, Rests
  <1>3. UploadTypeOK' /\ DurableBeforeEffect' /\ QuotaHeld'
    BY <1>1, <1>2 DEF UploadIInv, UploadTypeOK, DurableBeforeEffect, QuotaHeld, State
  <1>4. BoundToKey'
    BY <1>1, AtRest DEF UploadIInv, BoundToKey, Ev, Key, At, State
  <1> QED
    BY <1>2, <1>3, <1>4 DEF UploadIInv

(* The answer says IMPORTED only when the receipt does.                    *)
LEMMA AnswerStep ==
  ASSUME UploadIInv, NEW e \in Uploads, Answer(e)
  PROVE  UploadIInv'
  <1> USE ImportAssumption, UploadAssumption
  <1> DEFINE p == mutex[e]
  <1>1. /\ p \in Procs /\ proc[p].at \in Ended
        /\ proc' = [proc EXCEPT ![p] = Resting]
        /\ UNCHANGED <<staged, original, rows, receipts, lock, left, altered, faults, reserved>>
        /\ \/ proc[p].at = "done" /\ Write(e, "IMPORTED") /\ Lock(e, "answer")
           \/ intents' = intents /\ Lock(e, "free")
    BY DEF Answer, files, At
  <1>2. /\ Ev(p) = e /\ Key(p) # None /\ intents[e].key = Key(p)
        /\ State(e) \in {"CONFIRMING", "IMPORTED"}
        /\ intents \in [Evidence -> [state : UploadStates, key : Keys \cup {None}]]
    BY <1>1 DEF UploadIInv, BoundToKey, ProcsBound, UploadTypeOK, UploadStates
  <1>3. /\ intents' \in [Evidence -> [state : UploadStates, key : Keys \cup {None}]]
        /\ \A x \in Evidence : intents'[x].key = intents[x].key
        /\ \A x \in Evidence \ {e} : intents'[x] = intents[x]
        /\ intents'[e].state \in {"CONFIRMING", "IMPORTED"}
        /\ intents'[e].state = "IMPORTED" => State(e) = "IMPORTED" \/ proc[p].at = "done"
    <2>1. CASE proc[p].at = "done" /\ Write(e, "IMPORTED")
      <3>1. Written(e, "IMPORTED")
        BY <2>1, WriteWrites DEF UploadStates
      <3> QED
        BY <3>1, <2>1 DEF Written
    <2>2. CASE intents' = intents
      BY <2>2, <1>2 DEF State
    <2> QED
      BY <1>1, <2>1, <2>2
  <1>4. \E m \in {"free", "answer"} : mutex' = [mutex EXCEPT ![e] = m]
    BY <1>1 DEF Lock
  <1>5. mutex' \in [Uploads -> {"free", "receive", "answer"} \cup Procs]
    BY <1>4 DEF UploadIInv, UploadTypeOK
  <1>6. /\ mutex'[e] \in {"free", "answer"} /\ mutex[e] \in Procs
        /\ \A x \in Uploads \ {e} : mutex'[x] = mutex[x]
    BY <1>1, <1>4 DEF UploadIInv, UploadTypeOK
  <1>7. ImportTypeOK' /\ ProcsBound' /\ OneCopier' /\ CopyOfSource'
    BY <1>1, Rests
  <1>8. UploadTypeOK'
    BY <1>1, <1>3, <1>5, <1>7 DEF UploadIInv, UploadTypeOK, UploadStates
  <1>9. BoundToKey'
    <2>1. ASSUME NEW x \in Uploads
          PROVE  /\ intents'[x].state \in {"CONFIRMING", "IMPORTED"} => intents'[x].key # None
                 /\ mutex'[x] = "receive" => intents'[x].state \in {"TRANSFERRING", "PREPARED"}
                 /\ mutex'[x] \in Procs => proc'[mutex'[x]].ev = x
      <3>1. CASE x = e
        BY <3>1, <1>2, <1>3, <1>6
      <3>2. CASE x # e
        <4>1. mutex[x] \in Procs => mutex[x] # p
          BY <3>2, <1>2 DEF UploadIInv, BoundToKey
        <4>2. x \in Evidence \ {e}
          BY <3>2 DEF Evidence
        <4> QED
          BY <3>2, <4>1, <4>2, <1>1, <1>3, <1>6, AtRest DEF UploadIInv, BoundToKey, State, Ev
      <3> QED
        BY <3>1, <3>2
    <2>2. ASSUME NEW q \in Procs, proc'[q].key # None
          PROVE  /\ q # p /\ proc'[q] = proc[q]
                 /\ intents'[proc[q].ev].state \in {"CONFIRMING", "IMPORTED"}
                 /\ intents'[proc[q].ev].key = proc[q].key
      <3>1. q # p /\ proc'[q] = proc[q] /\ proc[q].ev \in Uploads /\ proc[q].ev \in Evidence
        BY <2>2, <1>1, AtRest DEF UploadIInv, ProcsBound, Ev, Key, Evidence
      <3> QED
        BY <3>1, <2>2, <1>3 DEF UploadIInv, BoundToKey, State, Ev, Key
    <2> QED
      BY <2>1, <2>2, <1>1 DEF UploadIInv, BoundToKey, State, Ev, Key, At
  <1>10. DurableBeforeEffect'
    <2>1. ASSUME NEW x \in Uploads
          PROVE  /\ State(x) \in {"CONFIRMING", "IMPORTED"}
                      => intents'[x].state \in {"CONFIRMING", "IMPORTED"}
                 /\ intents'[x].key = intents[x].key
                 /\ intents'[x].state = "IMPORTED" => receipts[intents[x].key].state = "IMPORTED"
      <3>1. CASE x = e
        BY <3>1, <1>1, <1>2, <1>3 DEF UploadIInv, BoundToKey, DurableBeforeEffect, At, Evidence
      <3>2. CASE x # e
        BY <3>2, <1>3 DEF UploadIInv, DurableBeforeEffect, Evidence, State
      <3> QED
        BY <3>1, <3>2
    <2> QED
      BY <2>1, <1>1 DEF UploadIInv, DurableBeforeEffect, State
  <1>11. QuotaHeld'
    <2>1. /\ {x \in Uploads : mutex'[x] = "receive"} = {x \in Uploads : mutex[x] = "receive"}
          /\ {x \in Uploads : staged[x] # "none" \/ mutex'[x] = "receive"}
               = {x \in Uploads : staged[x] # "none" \/ mutex[x] = "receive"}
      BY <1>6
    <2> QED
      BY <2>1, <1>1 DEF UploadIInv, QuotaHeld
  <1> QED
    BY <1>7, <1>8, <1>9, <1>10, <1>11 DEF UploadIInv

-----------------------------------------------------------------------------
(* The operations of the server that start no command: what is left to     *)
(* show is about the intent, the staged file and the lock of each upload.  *)
LEMMA Serves ==
  ASSUME UploadIInv, OnlyIntents,
         staged' \in [Evidence -> Contents],
         \A e \in Evidence : staged'[e] \in {"none", "good", staged[e]},
         intents' \in [Evidence -> [state : UploadStates, key : Keys \cup {None}]],
         mutex' \in [Uploads -> {"free", "receive", "answer"} \cup Procs],
         \A e \in Uploads : mutex'[e] \in Procs => mutex'[e] = mutex[e],
         \A e \in Uploads : mutex'[e] = "receive" =>
           intents'[e].state \in {"TRANSFERRING", "PREPARED"},
         \A e \in Uploads :
           /\ State(e) \in {"CONFIRMING", "IMPORTED"} => intents'[e] = intents[e]
           /\ intents'[e].state \in {"CONFIRMING", "IMPORTED"} => intents'[e] = intents[e],
         QuotaHeld', reserved' \in Nat
  PROVE  UploadIInv'
  <1> USE DEF UploadIInv, OnlyIntents
  <1>1. UploadTypeOK'
    BY DEF UploadTypeOK, ImportTypeOK, UploadStates
  <1>2. ProcsBound' /\ OneCopier' /\ CopyOfSource'
    BY DEF ProcsBound, OneCopier, CopyOfSource, Ev, Key, At
  <1>3. BoundToKey'
    <2>1. ASSUME NEW p \in Procs, Key(p) # None
          PROVE  /\ intents'[Ev(p)] = intents[Ev(p)]
      BY <2>1 DEF ProcsBound, BoundToKey
    <2> QED
      BY <2>1 DEF BoundToKey, State, Ev, Key, At
  <1>4. DurableBeforeEffect'
    BY DEF DurableBeforeEffect, State
  <1> QED
    BY <1>1, <1>2, <1>3, <1>4

(* The staging area holds no more than before.                             *)
LEMMA NoMoreStaged ==
  ASSUME UploadIInv, UNCHANGED mutex, UNCHANGED reserved,
         \A e \in Uploads : staged'[e] # "none" =>
           staged[e] # "none" \/ mutex[e] = "receive"
  PROVE  QuotaHeld'
  <1> DEFINE A == {e \in Uploads : staged[e] # "none" \/ mutex[e] = "receive"}
             B == {e \in Uploads : staged'[e] # "none" \/ mutex[e] = "receive"}
  <1>1. IsFiniteSet(A) /\ B \in SUBSET A
    BY FS_Subset, ImportAssumption DEF Evidence
  <1>2. Cardinality(B) <= Cardinality(A) /\ Cardinality(A) \in Nat /\ Cardinality(B) \in Nat
    BY <1>1, FS_Subset, FS_CardinalityType
  <1>3. Cardinality(A) <= MaxStaging
    BY DEF UploadIInv, QuotaHeld
  <1>4. Cardinality(B) <= MaxStaging
    BY <1>2, <1>3, UploadAssumption
  <1> QED
    BY <1>4 DEF UploadIInv, QuotaHeld

LEMMA PlacePayloadStep ==
  ASSUME UploadIInv, NEW e \in Uploads, PlacePayload(e)
  PROVE  UploadIInv'
  <1>1. /\ OnlyIntents /\ UNCHANGED <<intents, mutex, reserved>>
        /\ mutex[e] = "receive" /\ staged' = [staged EXCEPT ![e] = "good"]
    BY DEF PlacePayload, serverVars
  <1>2. /\ staged' \in [Evidence -> Contents]
        /\ \A x \in Evidence : staged'[x] \in {"none", "good", staged[x]}
        /\ \A x \in Uploads : x # e => staged'[x] = staged[x]
    BY <1>1 DEF UploadIInv, UploadTypeOK, ImportTypeOK, Contents, Evidence
  <1>3. QuotaHeld'
    BY <1>1, <1>2, NoMoreStaged
  <1> QED
    BY <1>1, <1>2, <1>3, Serves DEF UploadIInv, UploadTypeOK, UploadStates, BoundToKey, State

LEMMA PrepareStep ==
  ASSUME UploadIInv, NEW e \in Uploads, Prepare(e)
  PROVE  UploadIInv'
  <1>1. /\ OnlyIntents /\ UNCHANGED <<staged, mutex, reserved>>
        /\ mutex[e] = "receive" /\ State(e) = "TRANSFERRING" /\ Written(e, "PREPARED")
    BY WriteWrites DEF Prepare, serverVars, UploadStates
  <1>2. QuotaHeld'
    BY <1>1 DEF UploadIInv, QuotaHeld
  <1> QED
    BY <1>1, <1>2, Serves DEF UploadIInv, UploadTypeOK, ImportTypeOK, BoundToKey, State, Written,
       Evidence

LEMMA CancelUploadStep ==
  ASSUME UploadIInv, NEW e \in Uploads, CancelUpload(e)
  PROVE  UploadIInv'
  <1>1. /\ OnlyIntents /\ UNCHANGED <<mutex, reserved>>
        /\ mutex[e] = "free" /\ State(e) \notin {"CONFIRMING", "IMPORTED"}
        /\ Written(e, "CANCELLED") /\ staged' = [staged EXCEPT ![e] = "none"]
    BY WriteWrites DEF CancelUpload, Free, serverVars, UploadStates
  <1>2. /\ staged' \in [Evidence -> Contents]
        /\ \A x \in Evidence : staged'[x] \in {"none", staged[x]}
    BY <1>1 DEF UploadIInv, UploadTypeOK, ImportTypeOK, Contents, Evidence
  <1>3. QuotaHeld'
    BY <1>1, <1>2, NoMoreStaged DEF Evidence
  <1> QED
    BY <1>1, <1>2, <1>3, Serves DEF UploadIInv, UploadTypeOK, BoundToKey, State, Written, Evidence

LEMMA CreateUploadStep ==
  ASSUME UploadIInv, NEW e \in Uploads, NEW old \in SUBSET Uploads, CreateUpload(e, old)
  PROVE  UploadIInv'
  <1> DEFINE gone(x) == [intents[x] EXCEPT !.state = "gone"]
  <1>1. /\ OnlyIntents /\ UNCHANGED <<mutex, reserved>> /\ State(e) = "none"
        /\ \A x \in old : mutex[x] = "free" /\ State(x) \in {"RECEIVING", "FAILED", "CANCELLED"}
        /\ intents' = [x \in Evidence |-> IF x = e THEN [state |-> "RECEIVING", key |-> None]
                         ELSE IF x \in old THEN gone(x) ELSE intents[x]]
        /\ staged' = [x \in Evidence |-> IF x \in old THEN "none" ELSE staged[x]]
    BY DEF CreateUpload, Expirable, Free, serverVars
  <1>2. ASSUME NEW x \in Evidence
        PROVE  /\ intents[x] \in [state : UploadStates, key : Keys \cup {None}]
               /\ gone(x) \in [state : UploadStates, key : Keys \cup {None}]
               /\ gone(x).state = "gone"
    <2>1. intents[x] \in [state : UploadStates, key : Keys \cup {None}]
      BY <1>2 DEF UploadIInv, UploadTypeOK, UploadStates
    <2> QED
      BY <2>1 DEF UploadStates
  <1>3. /\ intents' \in [Evidence -> [state : UploadStates, key : Keys \cup {None}]]
        /\ intents'[e].state = "RECEIVING"
        /\ \A x \in old : intents'[x].state \in {"RECEIVING", "gone"}
        /\ \A x \in Evidence : x # e /\ x \notin old => intents'[x] = intents[x]
    <2> HIDE DEF gone
    <2> QED
      BY <1>1, <1>2 DEF UploadStates, Evidence
  <1>4. /\ staged' \in [Evidence -> Contents]
        /\ \A x \in Evidence : staged'[x] \in {"none", staged[x]}
    BY <1>1 DEF UploadIInv, UploadTypeOK, ImportTypeOK, Contents
  <1>5. QuotaHeld'
    BY <1>1, <1>4, NoMoreStaged DEF Evidence
  <1>6. ASSUME NEW x \in Uploads
        PROVE  /\ mutex'[x] = "receive" => intents'[x].state \in {"TRANSFERRING", "PREPARED"}
               /\ State(x) \in {"CONFIRMING", "IMPORTED"} => intents'[x] = intents[x]
               /\ intents'[x].state \in {"CONFIRMING", "IMPORTED"} => intents'[x] = intents[x]
    <2>1. mutex[x] = "receive" => State(x) \in {"TRANSFERRING", "PREPARED"}
      BY DEF UploadIInv, BoundToKey
    <2>2. x \in Evidence
      BY DEF Evidence
    <2> QED
      BY <1>1, <1>3, <2>1, <2>2 DEF State
  <1> QED
    BY <1>1, <1>3, <1>4, <1>5, <1>6, Serves DEF UploadIInv, UploadTypeOK

(* A place and the bytes of one more file are reserved together.           *)
LEMMA ReceiveUploadStep ==
  ASSUME UploadIInv, NEW e \in Uploads, ReceiveUpload(e)
  PROVE  UploadIInv'
  <1> DEFINE R  == {x \in Uploads : mutex[x] = "receive"}
             S  == {x \in Uploads : staged[x] # "none"}
             R2 == {x \in Uploads : mutex'[x] = "receive"}
             A2 == {x \in Uploads : staged[x] # "none" \/ mutex'[x] = "receive"}
  <1>1. /\ OnlyIntents /\ staged' = staged /\ mutex[e] = "free" /\ State(e) = "RECEIVING"
        /\ reserved < MaxActive /\ reserved + Cardinality(S) < MaxStaging
        /\ reserved' = reserved + 1 /\ mutex' = [mutex EXCEPT ![e] = "receive"]
        /\ Written(e, "TRANSFERRING")
    BY WriteWrites DEF ReceiveUpload, Free, Staging, Lock, UploadStates
  <1>2. /\ mutex' \in [Uploads -> {"free", "receive", "answer"} \cup Procs]
        /\ mutex'[e] = "receive" /\ \A x \in Uploads \ {e} : mutex'[x] = mutex[x]
        /\ reserved \in Nat /\ e \notin R
    BY <1>1 DEF UploadIInv, UploadTypeOK
  <1>3. R2 = R \cup {e} /\ A2 = (R \cup S) \cup {e}
    BY <1>2
  <1>4. /\ IsFiniteSet(R) /\ IsFiniteSet(S) /\ IsFiniteSet(R \cup S)
        /\ Cardinality(R) \in Nat /\ Cardinality(S) \in Nat /\ Cardinality(R \cup S) \in Nat
        /\ Cardinality(R \cup S) <= Cardinality(R) + Cardinality(S)
    <2>1. IsFiniteSet(Uploads)
      BY FS_Subset, ImportAssumption DEF Evidence
    <2>2. IsFiniteSet(R) /\ IsFiniteSet(S)
      BY <2>1, FS_Subset
    <2>3. IsFiniteSet(R \cup S) /\ IsFiniteSet(R \cap S)
          /\ Cardinality(R \cup S) = Cardinality(R) + Cardinality(S) - Cardinality(R \cap S)
      BY <2>2, FS_Union, FS_Intersection
    <2>4. Cardinality(R) \in Nat /\ Cardinality(S) \in Nat /\ Cardinality(R \cap S) \in Nat
          /\ Cardinality(R \cup S) \in Nat
      BY <2>2, <2>3, FS_CardinalityType
    <2> QED
      BY <2>2, <2>3, <2>4
  <1>5. reserved = Cardinality(R)
    BY DEF UploadIInv, QuotaHeld
  <1>6. Cardinality(R2) = Cardinality(R) + 1 /\ Cardinality(A2) <= Cardinality(R \cup S) + 1
    <2>1. Cardinality(R \cup {e}) = Cardinality(R) + 1
      BY <1>2, <1>4, FS_AddElement
    <2>2. Cardinality((R \cup S) \cup {e}) <= Cardinality(R \cup S) + 1
      BY <1>4, FS_AddElement
    <2> QED
      BY <1>3, <2>1, <2>2
  <1>7. QuotaHeld'
    <2>1. /\ reserved' = Cardinality(R2) /\ reserved' <= MaxActive
          /\ Cardinality(A2) <= MaxStaging
      <3>1. Cardinality(A2) \in Nat
        <4>1. IsFiniteSet((R \cup S) \cup {e})
          BY <1>4, FS_AddElement
        <4> QED
          BY <4>1, <1>3, FS_CardinalityType
      <3> HIDE DEF R, S, R2, A2
      <3> QED
        BY <1>1, <1>2, <1>4, <1>5, <1>6, <3>1, UploadAssumption
    <2> QED
      BY <2>1, <1>1 DEF QuotaHeld
  <1> QED
    BY <1>1, <1>2, <1>7, Serves, UploadAssumption DEF UploadIInv, UploadTypeOK, ImportTypeOK,
       BoundToKey, State, Written, Evidence

LEMMA EndReceptionStep ==
  ASSUME UploadIInv, NEW e \in Uploads, NEW ok \in BOOLEAN, EndReception(e, ok)
  PROVE  UploadIInv'
  <1> DEFINE R  == {x \in Uploads : mutex[x] = "receive"}
             A  == {x \in Uploads : staged[x] # "none" \/ mutex[x] = "receive"}
             R2 == {x \in Uploads : mutex'[x] = "receive"}
             A2 == {x \in Uploads : staged[x] # "none" \/ mutex'[x] = "receive"}
  <1>1. PICK s \in {"PREPARED", "FAILED"} :
        /\ OnlyIntents /\ staged' = staged /\ mutex[e] = "receive"
        /\ reserved' = reserved - 1 /\ mutex' = [mutex EXCEPT ![e] = "free"]
        /\ Write(e, s)
    BY DEF EndReception, Lock
  <1>2. Written(e, s)
    BY <1>1, WriteWrites DEF UploadStates
  <1>3. /\ mutex' \in [Uploads -> {"free", "receive", "answer"} \cup Procs]
        /\ mutex'[e] = "free" /\ \A x \in Uploads \ {e} : mutex'[x] = mutex[x]
        /\ reserved \in Nat /\ e \in R
    BY <1>1 DEF UploadIInv, UploadTypeOK
  <1>4. R2 = R \ {e} /\ A2 \in SUBSET A
    BY <1>3
  <1>5. IsFiniteSet(R) /\ IsFiniteSet(A)
    BY FS_Subset, ImportAssumption DEF Evidence
  <1>6. /\ Cardinality(R2) = Cardinality(R) - 1 /\ Cardinality(R2) \in Nat
        /\ Cardinality(A2) <= Cardinality(A)
        /\ Cardinality(A2) \in Nat /\ Cardinality(A) \in Nat
    BY <1>3, <1>4, <1>5, FS_RemoveElement, FS_Subset, FS_CardinalityType
  <1>7. reserved = Cardinality(R) /\ reserved <= MaxActive /\ Cardinality(A) <= MaxStaging
    BY DEF UploadIInv, QuotaHeld
  <1>8. QuotaHeld' /\ reserved' \in Nat
    <2>1. /\ reserved' = Cardinality(R2) /\ reserved' <= MaxActive /\ reserved' \in Nat
          /\ Cardinality(A2) <= MaxStaging
      <3> HIDE DEF R, A, R2, A2
      <3> QED
        BY <1>1, <1>3, <1>6, <1>7, UploadAssumption
    <2> QED
      BY <2>1, <1>1 DEF QuotaHeld
  <1> QED
    BY <1>1, <1>2, <1>3, <1>8, Serves, UploadAssumption DEF UploadIInv, UploadTypeOK, ImportTypeOK,
       BoundToKey, State, Written, Evidence

(* The lock of an upload that nobody receives is set free.                 *)
LEMMA UnstageStep ==
  ASSUME UploadIInv, NEW e \in Uploads, Unstage(e)
  PROVE  UploadIInv'
  <1> DEFINE A  == {x \in Uploads : staged[x] # "none" \/ mutex[x] = "receive"}
             A2 == {x \in Uploads : staged'[x] # "none" \/ mutex'[x] = "receive"}
  <1>1. /\ OnlyIntents /\ UNCHANGED <<intents, reserved>> /\ mutex[e] = "answer"
        /\ mutex' = [mutex EXCEPT ![e] = "free"] /\ staged' = [staged EXCEPT ![e] = "none"]
    BY DEF Unstage, Lock
  <1>2. /\ mutex' \in [Uploads -> {"free", "receive", "answer"} \cup Procs]
        /\ mutex'[e] = "free" /\ \A x \in Uploads \ {e} : mutex'[x] = mutex[x]
        /\ staged' \in [Evidence -> Contents]
        /\ \A x \in Evidence : staged'[x] \in {"none", staged[x]}
    BY <1>1 DEF UploadIInv, UploadTypeOK, ImportTypeOK, Contents
  <1>3. /\ {x \in Uploads : mutex'[x] = "receive"} = {x \in Uploads : mutex[x] = "receive"}
        /\ A2 \in SUBSET A
    BY <1>1, <1>2 DEF Evidence
  <1>4. IsFiniteSet(A)
    BY FS_Subset, ImportAssumption DEF Evidence
  <1>5. /\ Cardinality(A2) <= Cardinality(A)
        /\ Cardinality(A2) \in Nat /\ Cardinality(A) \in Nat
    BY <1>3, <1>4, FS_Subset, FS_CardinalityType
  <1>6. Cardinality(A) <= MaxStaging
    BY DEF UploadIInv, QuotaHeld
  <1>7. Cardinality(A2) <= MaxStaging
    <2> HIDE DEF A, A2
    <2> QED
      BY <1>5, <1>6, UploadAssumption
  <1>8. QuotaHeld'
    BY <1>1, <1>3, <1>7 DEF UploadIInv, QuotaHeld
  <1> QED
    BY <1>1, <1>2, <1>8, Serves, UploadAssumption DEF UploadIInv, UploadTypeOK, UploadStates,
       BoundToKey, State

(* A restart frees every lock: commands go on alone.                       *)
LEMMA RestartServerStep ==
  ASSUME UploadIInv, RestartServer
  PROVE  UploadIInv'
  <1> DEFINE A  == {x \in Uploads : staged[x] # "none" \/ mutex[x] = "receive"}
             A2 == {x \in Uploads : staged[x] # "none" \/ mutex'[x] = "receive"}
  <1>1. /\ faults < MaxFaults /\ faults' = faults + 1
        /\ mutex' = [e \in Uploads |-> "free"] /\ reserved' = 0
        /\ UNCHANGED <<staged, original, rows, receipts, intents, proc, lock, left, altered>>
    BY DEF RestartServer, files
  <1>2. UploadTypeOK'
    BY <1>1, ImportAssumption DEF UploadIInv, UploadTypeOK, ImportTypeOK
  <1>3. ProcsBound' /\ OneCopier' /\ CopyOfSource' /\ DurableBeforeEffect'
    BY <1>1 DEF UploadIInv, ProcsBound, OneCopier, CopyOfSource, DurableBeforeEffect, Ev, Key, At,
       State
  <1>4. BoundToKey'
    BY <1>1, UploadAssumption DEF UploadIInv, BoundToKey, Ev, Key, At, State
  <1>5. IsFiniteSet(A) /\ A2 \in SUBSET A /\ {x \in Uploads : mutex'[x] = "receive"} = {}
    BY <1>1, FS_Subset, ImportAssumption DEF Evidence
  <1>6. /\ Cardinality(A2) <= Cardinality(A) /\ Cardinality({}) = 0
        /\ Cardinality(A2) \in Nat /\ Cardinality(A) \in Nat
    BY <1>5, FS_Subset, FS_CardinalityType, FS_EmptySet
  <1>7. Cardinality(A) <= MaxStaging
    BY DEF UploadIInv, QuotaHeld
  <1>8. Cardinality(A2) <= MaxStaging
    <2> HIDE DEF A, A2
    <2> QED
      BY <1>6, <1>7, UploadAssumption
  <1>9. QuotaHeld'
    BY <1>1, <1>5, <1>6, <1>8, UploadAssumption DEF QuotaHeld
  <1> QED
    BY <1>2, <1>3, <1>4, <1>9 DEF UploadIInv

-----------------------------------------------------------------------------
LEMMA UploadInitIInv == UploadInit => UploadIInv
  <1> SUFFICES ASSUME UploadInit PROVE UploadIInv
    OBVIOUS
  <1> USE ImportAssumption, UploadAssumption DEF UploadInit, ImportInit
  <1>1. \A p \in Procs : /\ proc[p].at = "idle" /\ proc[p].ev = None
                         /\ proc[p].key = None /\ proc[p].sha = "none"
    BY DEF Resting
  <1>2. proc \in [Procs -> ProcRows]
    BY DEF Resting, ProcRows, Steps, Contents
  <1>3. UploadTypeOK
    BY <1>2 DEF UploadTypeOK, ImportTypeOK, Contents, ProcRows, Steps
  <1>4. ProcsBound /\ OneCopier
    BY <1>1 DEF ProcsBound, OneCopier, Running, Ev, Key, At, Evidence
  <1>5. CopyOfSource
    BY <1>1 DEF CopyOfSource, Copying, Ev, At
  <1>6. BoundToKey /\ DurableBeforeEffect
    BY <1>1 DEF BoundToKey, DurableBeforeEffect, State, Key, Evidence
  <1>7. QuotaHeld
    <2>1. /\ {e \in Uploads : mutex[e] = "receive"} = {}
          /\ {e \in Uploads : staged[e] # "none" \/ mutex[e] = "receive"} = {}
      BY DEF Evidence
    <2> DEFINE R == {e \in Uploads : mutex[e] = "receive"}
               A == {e \in Uploads : staged[e] # "none" \/ mutex[e] = "receive"}
    <2>2. Cardinality(R) = 0 /\ Cardinality(A) = 0
      BY <2>1, FS_EmptySet
    <2>3. reserved = Cardinality(R) /\ reserved <= MaxActive /\ Cardinality(A) <= MaxStaging
      <3> HIDE DEF R, A
      <3> QED
        BY <2>2
    <2> QED
      BY <2>3 DEF QuotaHeld
  <1> QED
    BY <1>3, <1>4, <1>5, <1>6, <1>7 DEF UploadIInv

LEMMA ImportNextIInv ==
  ASSUME UploadIInv, ImportNext, UNCHANGED serverVars
  PROVE  UploadIInv'
  <1>1. CASE \E p \in Procs : Advance(p)
    BY <1>1, HashSourceStep, CreateDestinationStep, CopyContentsStep, VerifyCopyStep,
       CommitRowStep, TakeLockStep, BindStep, LookForEvidenceStep, ValidatePublishedStep,
       WriteReceiptStep, GiveUpStep, RefuseStep DEF Advance
  <1>2. CASE \E p \in Procs : Kill(p) \/ \E e \in Desktop : StartTask(p, e)
    BY <1>2, KillStep, StartTaskStep
  <1>3. CASE \E e \in Evidence : Alter(e)
    BY <1>3, AlterStep
  <1> QED
    BY <1>1, <1>2, <1>3 DEF ImportNext

LEMMA UploadNextIInv == UploadIInv /\ [UploadNext]_uploadVars => UploadIInv'
  <1> SUFFICES ASSUME UploadIInv, [UploadNext]_uploadVars PROVE UploadIInv'
    OBVIOUS
  <1>1. CASE ImportNext /\ UNCHANGED serverVars
    BY <1>1, ImportNextIInv
  <1>2. ASSUME NEW e \in Uploads,
               \/ \E old \in SUBSET Uploads : CreateUpload(e, old)
               \/ ReceiveUpload(e) \/ PlacePayload(e) \/ Prepare(e)
               \/ \E ok \in BOOLEAN : EndReception(e, ok)
               \/ \E k \in Keys, p \in Procs : Confirm(e, k, p)
               \/ Answer(e) \/ Unstage(e) \/ CancelUpload(e)
        PROVE  UploadIInv'
    BY <1>2, CreateUploadStep, ReceiveUploadStep, PlacePayloadStep, PrepareStep, EndReceptionStep,
       ConfirmStep, AnswerStep, UnstageStep, CancelUploadStep
  <1>3. CASE RestartServer \/ \E p \in Procs : Reap(p)
    BY <1>3, RestartServerStep, ReapStep
  <1>4. CASE UNCHANGED uploadVars
    BY <1>4 DEF uploadVars, importVars, files, serverVars, UploadIInv, UploadTypeOK, ImportTypeOK,
       ProcsBound, OneCopier, CopyOfSource, BoundToKey, DurableBeforeEffect, QuotaHeld, Ev, Key,
       At, State
  <1> QED
    BY <1>1, <1>2, <1>3, <1>4 DEF UploadNext

(* Of any number of uploads, keys and processes, however they interleave,  *)
(* are killed and restarted: no two work on one original, the key and the  *)
(* receipt are written before the first effect, and the quotas hold.       *)
THEOREM UploadsConsistent == UploadSpec => []UploadIInv
  BY UploadInitIInv, UploadNextIInv, PTL DEF UploadSpec

(* The parts of it a reader asks for by name: one copier at a time, the    *)
(* key before the effect, and the staging area within its bounds.          *)
THEOREM KeyBeforeEffect == UploadSpec => [](OneCopier /\ DurableBeforeEffect /\ QuotaHeld)
  <1>1. UploadIInv => OneCopier /\ DurableBeforeEffect /\ QuotaHeld
    BY DEF UploadIInv
  <1> QED
    BY <1>1, UploadsConsistent, PTL

-----------------------------------------------------------------------------
(* All or nothing.  A step that writes neither originals nor rows, and     *)
(* whose processes go on copying or leave their copy behind, keeps it.     *)
LEMMA NothingWritten ==
  ASSUME UploadIInv, AllOrNothing, UNCHANGED <<original, rows>>,
         altered \subseteq altered', left \subseteq left',
         \A p \in Procs : proc[p].at \in Copying =>
           \/ proc'[p].at \in Copying /\ proc'[p].ev = proc[p].ev
           \/ proc[p].ev \in left'
  PROVE  AllOrNothing'
  BY DEF AllOrNothing, Ev

(* The operations of the server stop no copy.                              *)
LEMMA ServerStops ==
  ASSUME UploadIInv, AllOrNothing, NEW e \in Uploads,
         \/ \E old \in SUBSET Uploads : CreateUpload(e, old)
         \/ ReceiveUpload(e) \/ PlacePayload(e) \/ Prepare(e)
         \/ \E ok \in BOOLEAN : EndReception(e, ok)
         \/ Unstage(e) \/ CancelUpload(e)
  PROVE  AllOrNothing'
  BY NothingWritten DEF CreateUpload, ReceiveUpload, PlacePayload, Prepare, EndReception, Unstage,
     CancelUpload, OnlyIntents

LEMMA StartStops ==
  ASSUME UploadIInv, AllOrNothing, NEW p \in Procs, NEW e \in Evidence,
         NEW k \in Keys \cup {None}, proc[p].at = "idle", Launch(p, e, k),
         UNCHANGED <<original, rows, left, altered>>
  PROVE  AllOrNothing'
  <1>1. \A q \in Procs \ {p} : proc'[q] = proc[q]
    BY LaunchStarts DEF Started
  <1>2. proc[p].at \notin Copying
    BY DEF Copying
  <1> QED
    BY <1>1, <1>2, NothingWritten

LEMMA RestStops ==
  ASSUME UploadIInv, AllOrNothing, NEW p \in Procs, proc[p].at \in Ended,
         proc' = [proc EXCEPT ![p] = Resting], UNCHANGED <<original, rows, left, altered>>
  PROVE  AllOrNothing'
  BY AtRest, NothingWritten DEF Copying, Ended

(* The steps of a process that write neither originals nor rows.           *)
LEMMA AdvanceStops ==
  ASSUME UploadIInv, AllOrNothing, NEW p \in Procs,
         \/ HashSource(p) \/ VerifyCopy(p) \/ TakeLock(p) \/ Bind(p) \/ LookForEvidence(p)
         \/ ValidatePublished(p) \/ WriteReceipt(p) \/ Refuse(p) \/ Kill(p)
  PROVE  AllOrNothing'
  <1>1. UNCHANGED <<original, rows, altered>> /\ left \subseteq left'
    BY DEF HashSource, VerifyCopy, TakeLock, Bind, LookForEvidence, ValidatePublished, WriteReceipt,
       Refuse, Kill, Killed, Same, files
  <1>2. \A q \in Procs \ {p} : proc'[q] = proc[q]
    <2>1. CASE HashSource(p)
      BY <2>1, ProcType DEF HashSource
    <2>2. CASE ~HashSource(p)
      <3>1. \E a \in Steps : GoTo(p, a)
        BY <2>2 DEF VerifyCopy, TakeLock, Bind, LookForEvidence, ValidatePublished, WriteReceipt,
           Refuse, Kill, Killed, End, Steps, Running, Ended
      <3> QED
        BY <3>1, GoToMoves DEF Moved
    <2> QED
      BY <2>1, <2>2
  <1>3. proc[p].at \in Copying =>
          \/ proc'[p].at \in Copying /\ proc'[p].ev = proc[p].ev
          \/ proc[p].ev \in left'
    <2>1. CASE VerifyCopy(p)
      BY <2>1, GoToMoves DEF VerifyCopy, Moved, Steps, Running, Copying
    <2>2. CASE Kill(p)
      BY <2>2 DEF Kill, Killed, Ev
    <2>3. CASE ~VerifyCopy(p) /\ ~Kill(p)
      BY <2>3 DEF HashSource, TakeLock, Bind, LookForEvidence, ValidatePublished, WriteReceipt, Refuse,
         At, Copying
    <2> QED
      BY <2>1, <2>2, <2>3
  <1> QED
    BY <1>1, <1>2, <1>3, NothingWritten

LEMMA CreateStops ==
  ASSUME UploadIInv, AllOrNothing, NEW p \in Procs, CreateDestination(p)
  PROVE  AllOrNothing'
  <1>1. Moved(p, "copy", proc[p].sha) /\ proc[p].at = "create" /\ rows[Ev(p)] = "none"
    BY GoToMoves DEF CreateDestination, Steps, Running, At, UploadIInv, CopyOfSource
  <1>2. /\ UNCHANGED <<rows, left, altered>>
        /\ original' = [original EXCEPT ![Ev(p)] = "part"]
    BY DEF CreateDestination, Same
  <1>3. /\ \A e \in Evidence : e # Ev(p) => original'[e] = original[e]
        /\ proc'[p].at \in Copying /\ proc'[p].ev = proc[p].ev
        /\ \A q \in Procs : proc[q].at \in Copying => q # p /\ proc'[q] = proc[q]
    BY <1>1, <1>2 DEF Moved, Copying, UploadIInv, UploadTypeOK, ImportTypeOK
  <1> QED
    BY <1>1, <1>2, <1>3 DEF AllOrNothing, Ev

LEMMA CopyStops ==
  ASSUME UploadIInv, AllOrNothing, NEW p \in Procs, CopyContents(p)
  PROVE  AllOrNothing'
  <1>1. Moved(p, "verify", proc[p].sha) /\ proc[p].at = "copy" /\ rows[Ev(p)] = "none"
    BY GoToMoves DEF CopyContents, Steps, Running, Copying, At, UploadIInv, CopyOfSource
  <1>2. /\ UNCHANGED <<rows, left, altered>>
        /\ original' = [original EXCEPT ![Ev(p)] = staged[Ev(p)]]
    BY DEF CopyContents, Same
  <1>3. /\ \A e \in Evidence : e # Ev(p) => original'[e] = original[e]
        /\ \A q \in Procs : proc[q].at \in Copying => proc'[q].at \in Copying
        /\ \A q \in Procs : proc'[q].ev = proc[q].ev
        /\ proc'[p].at \in Copying
    BY <1>1, <1>2 DEF Moved, Copying, UploadIInv, UploadTypeOK, ImportTypeOK
  <1> QED
    BY <1>1, <1>2, <1>3 DEF AllOrNothing, Ev

(* The row vouches for what was hashed and verified.                       *)
LEMMA CommitStops ==
  ASSUME UploadIInv, AllOrNothing, NEW p \in Procs, CommitRow(p)
  PROVE  AllOrNothing'
  <1>1. /\ proc[p].at = "record" /\ UNCHANGED <<original, left, altered>>
        /\ rows' = [rows EXCEPT ![Ev(p)] = proc[p].sha]
        /\ \E a \in Steps : GoTo(p, a)
    BY DEF CommitRow, At, Same, Steps, Running, Ended
  <1>2. /\ \A q \in Procs \ {p} : proc'[q] = proc[q]
        /\ proc \in [Procs -> ProcRows]
    BY <1>1, GoToMoves, ProcType DEF Moved
  <1>3. /\ proc[p].sha \in {"good", "bad"} /\ (proc[p].sha = "bad" => Ev(p) \in altered)
        /\ Ev(p) \in altered \/ original[Ev(p)] = proc[p].sha
    BY <1>1 DEF UploadIInv, CopyOfSource, Copying, At
  <1>4. \A e \in Evidence : rows'[e] = IF e = Ev(p) THEN proc[p].sha ELSE rows[e]
    BY <1>1 DEF UploadIInv, UploadTypeOK, ImportTypeOK
  <1> QED
    BY <1>1, <1>2, <1>3, <1>4 DEF AllOrNothing, Ev

(* The copy is taken back, or is known to be left.                         *)
LEMMA GiveUpStops ==
  ASSUME UploadIInv, AllOrNothing, NEW p \in Procs, GiveUp(p)
  PROVE  AllOrNothing'
  <1>1. /\ proc[p].at \in Copying /\ rows[Ev(p)] = "none" /\ UNCHANGED <<rows, altered>>
        /\ \/ original' = [original EXCEPT ![Ev(p)] = "none"] /\ UNCHANGED left
           \/ left' = left \cup {Ev(p)} /\ UNCHANGED original
        /\ GoTo(p, "refused")
    BY DEF GiveUp, RemoveCopy, End, Same, UploadIInv, CopyOfSource
  <1>2. \A q \in Procs \ {p} : proc'[q] = proc[q]
    BY <1>1, GoToMoves DEF Moved, Steps, Ended
  <1>3. \A e \in Evidence : e # Ev(p) => original'[e] = original[e]
    BY <1>1 DEF UploadIInv, UploadTypeOK, ImportTypeOK
  <1>4. Ev(p) \in left' \/ (Ev(p) \in Evidence => original'[Ev(p)] = "none")
    BY <1>1 DEF UploadIInv, UploadTypeOK, ImportTypeOK
  <1> QED
    BY <1>1, <1>2, <1>3, <1>4 DEF AllOrNothing, Ev

LEMMA AlterStops ==
  ASSUME UploadIInv, AllOrNothing, NEW e \in Evidence, Alter(e)
  PROVE  AllOrNothing'
  <1>1. /\ UNCHANGED <<rows, proc, left>> /\ altered' = altered \cup {e}
        /\ \A x \in Evidence : original'[x] # "none" => original[x] # "none"
        /\ \A x \in Evidence \ {e} : original'[x] = original[x]
    BY DEF Alter, UploadIInv, UploadTypeOK, ImportTypeOK
  <1> QED
    BY <1>1 DEF AllOrNothing, Ev

LEMMA AllOrNothingStep ==
  ASSUME UploadIInv, AllOrNothing, [UploadNext]_uploadVars
  PROVE  AllOrNothing'
  <1>1. ASSUME NEW p \in Procs, Advance(p) \/ Kill(p)
        PROVE  AllOrNothing'
    BY <1>1, AdvanceStops, CreateStops, CopyStops, CommitStops, GiveUpStops DEF Advance
  <1>2. ASSUME NEW p \in Procs, NEW e \in Desktop, StartTask(p, e)
        PROVE  AllOrNothing'
    BY <1>2, StartStops DEF StartTask, Spare, At, Same, files, Evidence
  <1>3. ASSUME NEW e \in Evidence, Alter(e)
        PROVE  AllOrNothing'
    BY <1>3, AlterStops
  <1>4. CASE ImportNext
    BY <1>4, <1>1, <1>2, <1>3 DEF ImportNext
  <1>5. ASSUME NEW e \in Uploads, NEW k \in Keys, NEW p \in Procs, Confirm(e, k, p)
        PROVE  AllOrNothing'
    BY <1>5, StartStops DEF Confirm, Spare, At, files, Evidence
  <1>6. ASSUME NEW e \in Uploads, Answer(e)
        PROVE  AllOrNothing'
    BY <1>6, RestStops DEF Answer, files
  <1>7. ASSUME NEW p \in Procs, Reap(p)
        PROVE  AllOrNothing'
    BY <1>7, RestStops DEF Reap, files
  <1>8. CASE RestartServer
    BY <1>8, NothingWritten DEF RestartServer, files
  <1>9. CASE UNCHANGED uploadVars
    BY <1>9, NothingWritten DEF uploadVars, importVars, files
  <1> QED
    BY <1>4, <1>5, <1>6, <1>7, <1>8, <1>9, ServerStops DEF UploadNext

(* An import leaves evidence with a row that vouches for the original that *)
(* was verified, or nothing: only a kill or a removal that failed leaves a *)
(* copy without a row (evidence_importer_import, evidence_copy_file).      *)
THEOREM ImportAllOrNothing == UploadSpec => []AllOrNothing
  <1>1. UploadInit => AllOrNothing
    BY DEF UploadInit, ImportInit, AllOrNothing
  <1>2. UploadIInv /\ AllOrNothing /\ [UploadNext]_uploadVars => AllOrNothing'
    BY AllOrNothingStep
  <1> QED
    BY <1>1, <1>2, UploadsConsistent, PTL DEF UploadSpec

-----------------------------------------------------------------------------
(* What a step does to the row and the original of evidence with a row.    *)
Repairs(e) ==
  ~ (/\ rows'[e] = rows[e]
     /\ original'[e] # original[e] => e \in altered')

(* Who creates, copies or removes an original works on one without a row.  *)
LEMMA CopierHasNoRow ==
  ASSUME UploadIInv, NEW e \in Evidence, rows[e] # "none", NEW p \in Procs,
         CreateDestination(p) \/ CopyContents(p) \/ CommitRow(p) \/ GiveUp(p)
  PROVE  ~Repairs(e)
  <1>1. rows[Ev(p)] = "none"
    BY DEF CreateDestination, CopyContents, CommitRow, GiveUp, RemoveCopy, At, Copying, UploadIInv,
       CopyOfSource
  <1>2. /\ \A x \in Evidence : x # Ev(p) => original'[x] = original[x]
        /\ \A x \in Evidence : x # Ev(p) => rows'[x] = rows[x]
    BY DEF CreateDestination, CopyContents, CommitRow, GiveUp, RemoveCopy, UploadIInv, UploadTypeOK,
       ImportTypeOK
  <1> QED
    BY <1>1, <1>2 DEF Repairs

LEMMA NothingRepairs ==
  ASSUME UploadIInv, UploadNext, NEW e \in Evidence, rows[e] # "none"
  PROVE  ~Repairs(e)
  <1>1. ASSUME NEW p \in Procs, Advance(p) \/ Kill(p)
        PROVE  ~Repairs(e)
    <2>1. CASE CreateDestination(p) \/ CopyContents(p) \/ CommitRow(p) \/ GiveUp(p)
      BY <2>1, CopierHasNoRow
    <2>2. CASE ~(CreateDestination(p) \/ CopyContents(p) \/ CommitRow(p) \/ GiveUp(p))
      BY <2>2, <1>1 DEF Advance, HashSource, VerifyCopy, TakeLock, Bind, LookForEvidence,
         ValidatePublished, WriteReceipt, Refuse, Kill, Killed, files, Repairs
    <2> QED
      BY <2>1, <2>2
  <1>2. ASSUME NEW p \in Procs, NEW d \in Desktop, StartTask(p, d)
        PROVE  ~Repairs(e)
    BY <1>2 DEF StartTask, files, Repairs
  <1>3. ASSUME NEW x \in Evidence, Alter(x)
        PROVE  ~Repairs(e)
    BY <1>3 DEF Alter, UploadIInv, UploadTypeOK, ImportTypeOK, Repairs
  <1>4. CASE ImportNext
    BY <1>4, <1>1, <1>2, <1>3 DEF ImportNext
  <1>5. CASE ~ImportNext
    BY <1>5 DEF UploadNext, CreateUpload, ReceiveUpload, PlacePayload, Prepare, EndReception, Confirm,
       Answer, Unstage, CancelUpload, RestartServer, Reap, OnlyIntents, files, Repairs
  <1> QED
    BY <1>4, <1>5

(* A replay of a confirmation finds the evidence and repairs nothing: once *)
(* it has its row, neither the row nor the original is written again.      *)
THEOREM ReplayRepairsNothing == UploadSpec => NoRepair
  <1>1. UploadIInv /\ [UploadNext]_uploadVars =>
          [\A e \in Evidence : rows[e] # "none" =>
             /\ rows'[e] = rows[e]
             /\ original'[e] # original[e] => e \in altered']_importVars
    BY NothingRepairs DEF Repairs, uploadVars
  <1> QED
    BY <1>1, UploadsConsistent, PTL DEF UploadSpec, NoRepair
=============================================================================
