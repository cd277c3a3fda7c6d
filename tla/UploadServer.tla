---------------------------- MODULE UploadServer ----------------------------
(* The uploads of the workspace server (workspace_server.py): a file is     *)
(* announced, received into the staging area under the quotas, and confirmed *)
(* by a command that imports it; every operation on an upload is serialised  *)
(* by a lock of the server process, and what it knows is in intent.json.     *)
EXTENDS EvidenceImport

CONSTANTS
  MaxActive,   \* receptions at once
  MaxStaging   \* files the staging area holds (a file stands for its bytes)

ASSUME UploadAssumption ==
  /\ MaxActive \in Nat /\ MaxStaging \in Nat
  /\ Procs \cap {"free", "receive", "answer"} = {}

VARIABLES
  mutex,     \* who holds the lock of each upload: a reception, a process
  reserved   \* receptions counted by the server

serverVars == <<mutex, reserved>>
uploadVars == <<importVars, serverVars>>

UploadInit ==
  ImportInit /\ mutex = [e \in Uploads |-> "free"] /\ reserved = 0

Free(e)      == mutex[e] = "free"
State(e)     == intents[e].state
Write(e, s)  == intents' = [intents EXCEPT ![e].state = s]
Lock(e, m)   == mutex' = [mutex EXCEPT ![e] = m]
Staging      == Cardinality({e \in Uploads : staged[e] # "none"})

OnlyIntents == UNCHANGED <<original, rows, receipts, proc, lock, left, altered, faults>>

(* Announcing an upload removes those abandoned long enough ago (old),      *)
(* unless somebody is at work on them.                                     *)
Expirable(e) == Free(e) /\ State(e) \in {"RECEIVING", "FAILED", "CANCELLED"}

CreateUpload(e, old) ==
  /\ State(e) = "none" /\ \A x \in old : Expirable(x)
  /\ intents' = [x \in Evidence |->
       IF x = e THEN [state |-> "RECEIVING", key |-> None]
       ELSE IF x \in old THEN [intents[x] EXCEPT !.state = "gone"] ELSE intents[x]]
  /\ staged' = [x \in Evidence |-> IF x \in old THEN "none" ELSE staged[x]]
  /\ OnlyIntents /\ UNCHANGED serverVars

(* Fault: only the bytes already received are counted.                     *)
ReceiveUncounted(e) ==
  /\ Free(e) /\ State(e) = "RECEIVING"
  /\ reserved < MaxActive /\ Staging < MaxStaging
  /\ reserved' = reserved + 1 /\ Lock(e, "receive") /\ Write(e, "TRANSFERRING")
  /\ OnlyIntents /\ UNCHANGED staged

(* Places and bytes are one decision.                                      *)
ReceiveUpload(e) ==
  /\ Free(e) /\ State(e) = "RECEIVING"
  /\ reserved < MaxActive /\ reserved + Staging < MaxStaging
  /\ reserved' = reserved + 1 /\ Lock(e, "receive") /\ Write(e, "TRANSFERRING")
  /\ OnlyIntents /\ UNCHANGED staged

(* The file is renamed, then the intent says so.                           *)
PlacePayload(e) ==
  /\ mutex[e] = "receive" /\ State(e) = "TRANSFERRING" /\ staged[e] = "none"
  /\ staged' = [staged EXCEPT ![e] = "good"]
  /\ OnlyIntents /\ UNCHANGED <<intents, serverVars>>

Prepare(e) ==
  /\ mutex[e] = "receive" /\ State(e) = "TRANSFERRING" /\ staged[e] # "none"
  /\ Write(e, "PREPARED")
  /\ OnlyIntents /\ UNCHANGED <<staged, serverVars>>

(* The reservation is given back whatever happens.  A transfer that fails, *)
(* or a client that is gone when the answer is written, fails the upload.  *)
EndReception(e, ok) ==
  /\ mutex[e] = "receive" /\ (ok => State(e) = "PREPARED")
  /\ Write(e, IF ok THEN "PREPARED" ELSE "FAILED")
  /\ reserved' = reserved - 1 /\ Lock(e, "free")
  /\ OnlyIntents /\ UNCHANGED staged

(* The key is written down before the command is started.                  *)
Confirm(e, k, p) ==
  /\ Free(e) /\ Spare(p)
  /\ State(e) \in {"PREPARED", "CONFIRMING", "IMPORTED"}
  /\ intents[e].key \in {None, k}
  /\ intents' = [intents EXCEPT ![e] =
       [state |-> IF @.state = "IMPORTED" THEN @.state ELSE "CONFIRMING", key |-> k]]
  /\ Launch(p, e, k) /\ Lock(e, p)
  /\ UNCHANGED <<files, lock, left, altered, faults, reserved>>

(* The command has ended; the prepared file is removed once it is imported. *)
Answer(e) ==
  /\ mutex[e] \in Procs /\ proc[mutex[e]].at \in Ended
  /\ IF At(mutex[e], "done")
     THEN Write(e, "IMPORTED") /\ Lock(e, "answer")
     ELSE UNCHANGED intents /\ Lock(e, "free")
  /\ proc' = [proc EXCEPT ![mutex[e]] = Resting]
  /\ UNCHANGED <<files, lock, left, altered, faults, reserved>>

Unstage(e) ==
  /\ mutex[e] = "answer" /\ Lock(e, "free")
  /\ staged' = [staged EXCEPT ![e] = "none"]
  /\ OnlyIntents /\ UNCHANGED <<intents, reserved>>

CancelUpload(e) ==
  /\ Free(e) /\ State(e) \notin {"none", "gone", "CANCELLED", "CONFIRMING", "IMPORTED"}
  /\ Write(e, "CANCELLED") /\ staged' = [staged EXCEPT ![e] = "none"]
  /\ OnlyIntents /\ UNCHANGED serverVars

(* The server stops or crashes; a command that is running goes on alone.   *)
RestartServer ==
  /\ faults < MaxFaults /\ faults' = faults + 1
  /\ \E e \in Uploads : ~Free(e)
  /\ mutex' = [e \in Uploads |-> "free"] /\ reserved' = 0
  /\ UNCHANGED <<files, intents, proc, lock, left, altered>>

(* A process nobody waits for has ended.                                   *)
Reap(p) ==
  /\ proc[p].at \in Ended /\ \A e \in Uploads : mutex[e] # p
  /\ proc' = [proc EXCEPT ![p] = Resting]
  /\ UNCHANGED <<files, intents, lock, left, altered, faults, serverVars>>

UploadNext ==
  \/ ImportNext /\ UNCHANGED serverVars
  \/ \E e \in Uploads :
       \/ \E old \in SUBSET Uploads : CreateUpload(e, old)
       \/ ReceiveUpload(e) \/ PlacePayload(e) \/ Prepare(e)
       \/ \E ok \in BOOLEAN : EndReception(e, ok)
       \/ \E k \in Keys, p \in Procs : Confirm(e, k, p)
       \/ Answer(e) \/ Unstage(e) \/ CancelUpload(e)
  \/ RestartServer \/ \E p \in Procs : Reap(p)

(* Processes that are not killed advance, the server answers when they end, *)
(* the client confirms again until it is told the import is done.           *)
UploadFairness ==
  /\ \A p \in Procs : /\ WF_uploadVars(Advance(p) /\ UNCHANGED serverVars)
                      /\ SF_uploadVars(TakeLock(p) /\ UNCHANGED serverVars)
                      /\ WF_uploadVars(Reap(p))
  /\ \A e \in Uploads :
       /\ WF_uploadVars(Answer(e)) /\ WF_uploadVars(Unstage(e))
       /\ SF_uploadVars(State(e) = "CONFIRMING" /\ \E k \in Keys, p \in Procs : Confirm(e, k, p))

UploadSpec == UploadInit /\ [][UploadNext]_uploadVars /\ UploadFairness

-----------------------------------------------------------------------------
(* The server counts the receptions that are going on, and what they and    *)
(* the prepared files take together never exceeds the staging area.        *)
QuotaHeld ==
  /\ reserved = Cardinality({e \in Uploads : mutex[e] = "receive"})
  /\ reserved <= MaxActive
  /\ Cardinality({e \in Uploads : staged[e] # "none" \/ mutex[e] = "receive"}) <= MaxStaging

UploadTypeOK ==
  /\ ImportTypeOK
  /\ intents \in [Evidence ->
       [state : {"none", "RECEIVING", "TRANSFERRING", "PREPARED", "CONFIRMING",
                 "IMPORTED", "CANCELLED", "FAILED", "gone"},
        key : Keys \cup {None}]]
  /\ mutex \in [Uploads -> {"free", "receive", "answer"} \cup Procs]
  /\ reserved \in Nat

(* The key and the receipt are written before the first effect, and stay:  *)
(* an upload that has a copy or a row is bound to one key, whose receipt   *)
(* names it; one said to be imported, in the receipt or in the intent, has *)
(* its row, and one that may still be cancelled has none.                  *)
DurableBeforeEffect ==
  /\ \A e \in Uploads : original[e] # "none" \/ rows[e] # "none" =>
       /\ State(e) \in {"CONFIRMING", "IMPORTED"}
       /\ receipts[intents[e].key].of = e
  /\ \A k \in Keys : receipts[k].state = "IMPORTED" => rows[receipts[k].of] = "good"
  /\ \A e \in Uploads : State(e) = "IMPORTED" => receipts[intents[e].key].state = "IMPORTED"

(* Why it is so: the lock of an upload covers what its reception or its    *)
(* command does, and a command that goes on alone after a restart still    *)
(* works under the key its upload is bound to.                             *)
BoundToKey ==
  /\ \A e \in Uploads :
       /\ State(e) \in {"CONFIRMING", "IMPORTED"} => intents[e].key # None
       /\ mutex[e] = "receive" => State(e) \in {"TRANSFERRING", "PREPARED"}
       /\ mutex[e] \in Procs => Ev(mutex[e]) = e
  /\ \A p \in Procs : Key(p) # None =>
       /\ State(Ev(p)) \in {"CONFIRMING", "IMPORTED"} /\ intents[Ev(p)].key = Key(p)
       /\ proc[p].at \in Running \ {"lock", "bind"} => receipts[Key(p)].of = Ev(p)
       /\ At(p, "seal") => rows[Ev(p)] = "good"
       /\ At(p, "done") => receipts[Key(p)].state = "IMPORTED"
  /\ \A k \in Keys : receipts[k].of = None => receipts[k].state = "none"

(* The inductive invariant.                                                *)
UploadIInv ==
  /\ UploadTypeOK
  /\ ProcsBound
  /\ OneCopier
  /\ CopyOfSource
  /\ BoundToKey
  /\ DurableBeforeEffect
  /\ QuotaHeld

(* Nothing the code can help stands in the way: the files are those that    *)
(* were received, and the key belongs to no other upload.                  *)
Untouched(e) ==
  e \notin altered /\ \A k \in Keys : intents[e].key = k => receipts[k].of \in {None, e}

(* A confirmed upload is imported in the end if its client keeps asking,   *)
(* its key is its own and no copy of it was left behind.                   *)
ConfirmedEnds ==
  \A e \in Uploads : State(e) = "CONFIRMING" ~>
    State(e) = "IMPORTED" \/ ~Untouched(e) \/ e \in left

(* What the document promises of a replay: whatever killed the command, the *)
(* same key finds its evidence again.                                      *)
ReplayFinds ==
  \A e \in Uploads : State(e) = "CONFIRMING" ~> State(e) = "IMPORTED" \/ ~Untouched(e)
=============================================================================
