--------------------------- MODULE EvidenceImport ---------------------------
(* How a file becomes evidence (evidence_importer.c, evidence_copy.c), by a *)
(* background task of the desktop or by the command that confirms an upload *)
(* (confirm_import of local_jobs.c).  The original is copied under the name *)
(* of its identifier, then its row is committed; a refusal takes the copy   *)
(* back, a killed process leaves it.                                        *)
EXTENDS Naturals, FiniteSets

CONSTANTS
  Uploads,     \* identifiers reserved by the uploads of the server
  Desktop,     \* identifiers drawn by imports of the desktop
  Keys,        \* idempotency keys
  Procs,       \* processes and threads that import
  MaxFaults,   \* bound: kills, refusals of the system, failed removals
  MaxAltered,  \* bound: files altered by somebody else
  None

Evidence == Uploads \cup Desktop

ASSUME ImportAssumption ==
  /\ IsFiniteSet(Evidence) /\ Uploads \cap Desktop = {}
  /\ None \notin Evidence \cup Keys \cup Procs
  /\ MaxFaults \in Nat

VARIABLES
  staged,    \* the prepared file of each identifier
  original,  \* the file kept under the name of the identifier
  rows,      \* the contents its committed row vouches for
  receipts,  \* .labfy/imports, by key
  intents,   \* what the server wrote of each upload: state and key
  proc,      \* what each process is doing
  lock,      \* the process that holds .labfy/import.lock
  left,      \* identifiers whose copy outlived its process
  altered,   \* identifiers whose files somebody else touched
  faults

files      == <<staged, original, rows, receipts>>
importVars == <<files, intents, proc, lock, left, altered, faults>>

Contents == {"none", "part", "good", "bad"}
Running  == {"lock", "bind", "look", "hash", "create", "copy", "verify",
             "record", "validate", "seal"}
(* Fault: the copy is also taken back after its row was committed.         *)
CopyingLate == {"copy", "verify", "record", "validate"}
Copying     == {"copy", "verify", "record"}
Ended    == {"done", "refused"}

Resting == [at |-> "idle", ev |-> None, key |-> None, sha |-> "none"]

ImportInit ==
  /\ staged = [e \in Evidence |-> IF e \in Desktop THEN "good" ELSE "none"]
  /\ original = [e \in Evidence |-> "none"]
  /\ rows = [e \in Evidence |-> "none"]
  /\ receipts = [k \in Keys |-> [of |-> None, state |-> "none"]]
  /\ intents = [e \in Evidence |-> [state |-> "none", key |-> None]]
  /\ proc = [p \in Procs |-> Resting]
  /\ lock = None /\ left = {} /\ altered = {} /\ faults = 0

At(p, a)  == proc[p].at = a
Ev(p)     == proc[p].ev
Key(p)    == proc[p].key
GoTo(p, a) == proc' = [proc EXCEPT ![p].at = a]

(* A process of its own: which one makes no difference.                    *)
Spare(p) == At(p, "idle") /\ p = CHOOSE q \in Procs : At(q, "idle")

Launch(p, e, k) == proc' = [proc EXCEPT ![p] =
  [Resting EXCEPT !.at = IF k = None THEN "hash" ELSE "lock", !.ev = e, !.key = k]]

(* However a process ends, the kernel releases its lock.                   *)
End(p, outcome) ==
  /\ GoTo(p, outcome)
  /\ lock' = IF lock = p THEN None ELSE lock

Same == UNCHANGED <<intents, altered>>

-----------------------------------------------------------------------------
(* evidence_copy_file and evidence_importer_import *)

HashSource(p) ==
  /\ At(p, "hash") /\ staged[Ev(p)] # "none"
  /\ proc' = [proc EXCEPT ![p].at = "create", ![p].sha = staged[Ev(p)]]
  /\ UNCHANGED <<files, lock, left, faults>> /\ Same

(* The file is created only if it is not there.                            *)
CreateDestination(p) ==
  /\ At(p, "create") /\ original[Ev(p)] = "none"
  /\ original' = [original EXCEPT ![Ev(p)] = "part"]
  /\ GoTo(p, "copy")
  /\ UNCHANGED <<staged, rows, receipts, lock, left, faults>> /\ Same

CopyContents(p) ==
  /\ At(p, "copy") /\ staged[Ev(p)] # "none"
  /\ original' = [original EXCEPT ![Ev(p)] = staged[Ev(p)]]
  /\ GoTo(p, "verify")
  /\ UNCHANGED <<staged, rows, receipts, lock, left, faults>> /\ Same

(* The copy and the source must both still be what was hashed first.       *)
Verified(p) == {original[Ev(p)], staged[Ev(p)]} = {proc[p].sha}

VerifyCopy(p) ==
  /\ At(p, "verify") /\ Verified(p)
  /\ GoTo(p, "record")
  /\ UNCHANGED <<files, lock, left, faults>> /\ Same

(* evidence_dao_insert refuses an identifier that has its row.             *)
Unrecorded(e) == rows[e] = "none"

CommitRow(p) ==
  /\ At(p, "record") /\ Unrecorded(Ev(p))
  /\ rows' = [rows EXCEPT ![Ev(p)] = proc[p].sha]
  /\ GoTo(p, IF Key(p) = None THEN "done" ELSE "validate")
  /\ UNCHANGED <<staged, original, receipts, lock, left, faults>> /\ Same

(* Fault: the copy stays where it is.                                      *)
KeepCopy(p) ==
  /\ proc[p].at \in Copying
  /\ End(p, "refused")
  /\ UNCHANGED <<files, left>>

(* Rollback and removal of the copy, which may fail.                       *)
RemoveCopy(p) ==
  /\ proc[p].at \in Copying
  /\ End(p, "refused")
  /\ \/ original' = [original EXCEPT ![Ev(p)] = "none"] /\ UNCHANGED left
     \/ faults < MaxFaults /\ left' = left \cup {Ev(p)} /\ UNCHANGED original
  /\ UNCHANGED <<staged, rows, receipts>>

(* A copy that is not the source, a cancelled task, a database that is     *)
(* busy, a disk that is full.                                              *)
GiveUp(p) ==
  /\ RemoveCopy(p)
  /\ \/ At(p, "verify") /\ ~Verified(p) /\ faults' = faults + Cardinality(left' \ left)
     \/ Key(p) = None /\ faults' = faults + Cardinality(left' \ left)
     \/ faults < MaxFaults /\ faults' = faults + 1
  /\ Same

-----------------------------------------------------------------------------
(* confirm_import of local_jobs.c *)

TakeLock(p) ==
  /\ At(p, "lock") /\ lock = None
  /\ lock' = p /\ GoTo(p, "bind")
  /\ UNCHANGED <<files, left, faults>> /\ Same

(* upload_intent_matches *)
IntentMatches(e, k) ==
  intents[e].state \in {"CONFIRMING", "IMPORTED"} /\ intents[e].key = k

(* receipt_matches: a key belongs to the intent it was first used for.     *)
ReceiptMatches(e, k) == receipts[k].of \in {None, e}

Bind(p) ==
  /\ At(p, "bind") /\ IntentMatches(Ev(p), Key(p)) /\ ReceiptMatches(Ev(p), Key(p))
  /\ receipts' = IF receipts[Key(p)].of # None THEN receipts ELSE
       [receipts EXCEPT ![Key(p)] = [of |-> Ev(p), state |-> "CONFIRMING"]]
  /\ GoTo(p, "look")
  /\ UNCHANGED <<staged, original, rows, lock, left, faults>> /\ Same

(* Fault: nobody looks whether the evidence has its row.                   *)
LookAnew(p) ==
  /\ At(p, "look") /\ staged[Ev(p)] = "good" /\ GoTo(p, "hash")
  /\ UNCHANGED <<files, lock, left, faults>> /\ Same

(* Evidence that has its row is only validated again; else the prepared    *)
(* file must be the one that was announced.                                *)
LookForEvidence(p) ==
  /\ At(p, "look")
  /\ \/ rows[Ev(p)] # "none" /\ GoTo(p, "validate")
     \/ rows[Ev(p)] = "none" /\ staged[Ev(p)] = "good" /\ GoTo(p, "hash")
  /\ UNCHANGED <<files, lock, left, faults>> /\ Same

Published(e) == rows[e] = "good" /\ original[e] = "good"

ValidatePublished(p) ==
  /\ At(p, "validate") /\ Published(Ev(p))
  /\ GoTo(p, "seal")
  /\ UNCHANGED <<files, lock, left, faults>> /\ Same

(* The projections are published after it; one that fails does not make    *)
(* the import fail.                                                        *)
WriteReceipt(p) ==
  /\ At(p, "seal")
  /\ receipts' = [receipts EXCEPT ![Key(p)].state = "IMPORTED"]
  /\ End(p, "done")
  /\ UNCHANGED <<staged, original, rows, left, faults>> /\ Same

Refusal(p) ==
  LET e == Ev(p) IN
  \/ At(p, "bind") /\ ~(IntentMatches(e, Key(p)) /\ ReceiptMatches(e, Key(p)))
  \/ At(p, "look") /\ rows[e] = "none" /\ staged[e] # "good"
  \/ At(p, "hash") /\ staged[e] = "none"
  \/ At(p, "create") /\ original[e] # "none"
  \/ At(p, "validate") /\ ~Published(e)

(* Nothing was written yet, or what is written stays.                      *)
Refuse(p) ==
  /\ proc[p].at \in Running \ (Copying \cup {"lock"})
  /\ \/ Refusal(p) /\ UNCHANGED faults
     \/ Key(p) = None /\ UNCHANGED faults
     \/ faults < MaxFaults /\ faults' = faults + 1
  /\ End(p, "refused")
  /\ UNCHANGED <<files, left>> /\ Same

-----------------------------------------------------------------------------
(* A crash, or the server ending a command that takes too long.            *)
Killed(p) ==
  /\ proc[p].at \in Running /\ End(p, "refused")
  /\ left' = IF proc[p].at \in Copying THEN left \cup {Ev(p)} ELSE left
  /\ UNCHANGED files

Kill(p) ==
  /\ faults < MaxFaults /\ faults' = faults + 1
  /\ Killed(p) /\ Same

(* Somebody else writes over a prepared file or a kept original.           *)
Alter(e) ==
  /\ Cardinality(altered) < MaxAltered /\ altered' = altered \cup {e}
  /\ \/ staged[e] # "none" /\ staged' = [staged EXCEPT ![e] = "bad"] /\ UNCHANGED original
     \/ original[e] # "none" /\ original' = [original EXCEPT ![e] = "bad"] /\ UNCHANGED staged
  /\ UNCHANGED <<rows, receipts, intents, proc, lock, left, faults>>

(* The import task of the desktop: a fresh identifier, no key, no lock.    *)
StartTask(p, e) ==
  /\ Spare(p) /\ e \in Desktop /\ rows[e] = "none" /\ e \notin left
  /\ \A q \in Procs : Ev(q) # e
  /\ Launch(p, e, None)
  /\ UNCHANGED <<files, lock, left, faults>> /\ Same

Advance(p) ==
  \/ HashSource(p) \/ CreateDestination(p) \/ CopyContents(p) \/ VerifyCopy(p)
  \/ CommitRow(p) \/ TakeLock(p) \/ Bind(p) \/ LookForEvidence(p)
  \/ ValidatePublished(p) \/ WriteReceipt(p) \/ GiveUp(p) \/ Refuse(p)

ImportNext ==
  \/ \E p \in Procs : Advance(p) \/ Kill(p) \/ \E e \in Desktop : StartTask(p, e)
  \/ \E e \in Evidence : Alter(e)

-----------------------------------------------------------------------------
ImportTypeOK ==
  /\ staged \in [Evidence -> Contents] /\ original \in [Evidence -> Contents]
  /\ rows \in [Evidence -> {"none", "good", "bad"}]
  /\ receipts \in [Keys -> [of : Uploads \cup {None},
                           state : {"none", "CONFIRMING", "IMPORTED"}]]
  /\ proc \in [Procs -> [at : Running \cup Ended \cup {"idle"},
                        ev : Evidence \cup {None}, key : Keys \cup {None},
                        sha : Contents]]
  /\ lock \in Procs \cup {None} /\ left \subseteq Evidence /\ altered \subseteq Evidence
  /\ faults \in 0..MaxFaults

(* A command works for an upload under a key, a task of the desktop for an *)
(* identifier of its own without one; only a command takes the lock, looks *)
(* for its evidence and validates it.                                      *)
ProcsBound ==
  \A p \in Procs :
    /\ At(p, "idle") <=> Ev(p) = None
    /\ Key(p) # None <=> Ev(p) \in Uploads
    /\ proc[p].at \in {"lock", "bind", "look", "validate", "seal"} => Key(p) # None

(* Two processes never work on one original, and a confirmation past its   *)
(* start holds the lock.                                                   *)
OneCopier ==
  \A p \in Procs :
    /\ proc[p].at \in Running \ {"lock"} /\ Key(p) # None <=> lock = p
    /\ \A q \in Procs : p # q /\ {proc[p].at, proc[q].at} \subseteq Running \ {"lock"}
         => Ev(p) # Ev(q)

(* Only an altered file is not the one that was received; who copies has no *)
(* row yet, and the copy it is about to record is what it hashed.          *)
CopyOfSource ==
  /\ \A e \in Evidence :
       /\ staged[e] # "part"
       /\ staged[e] = "bad" => e \in altered
  /\ \A p \in Procs :
       /\ proc[p].at \in Copying \cup {"hash", "create"} => rows[Ev(p)] = "none"
       /\ proc[p].at \in Copying \cup {"create"} =>
            /\ proc[p].sha \in {"good", "bad"}
            /\ proc[p].sha = "bad" => Ev(p) \in altered
       /\ At(p, "record") => Ev(p) \in altered \/ original[Ev(p)] = proc[p].sha

(* An original without its row is being copied, or was left behind by a    *)
(* killed process or a removal that failed: no refusal, cancellation or    *)
(* rollback leaves one; and a row vouches for what was verified.           *)
AllOrNothing ==
  \A e \in Evidence :
    /\ original[e] # "none" /\ rows[e] = "none" =>
         e \in left \/ \E p \in Procs : Ev(p) = e /\ proc[p].at \in Copying
    /\ rows[e] # "none" /\ e \notin altered => rows[e] = original[e] /\ rows[e] = "good"

(* A replay never repairs: once evidence has its row, neither the row nor  *)
(* the original is written again, except by somebody else.                 *)
NoRepair ==
  [][\A e \in Evidence : rows[e] # "none" =>
       /\ rows'[e] = rows[e]
       /\ original'[e] # original[e] => e \in altered']_importVars
=============================================================================
