----------------------------- MODULE CodeChange -----------------------------
(* Controlled code changes (code_change.py): a change is proposed, edited   *)
(* and tested in a Git worktree of its own, reviewed as a patch and applied  *)
(* to the repository after a second human decision.  One lock serialises    *)
(* the operations, so one is under way at a time; the process may die in     *)
(* any of them, and people work in the repository meanwhile.  What the      *)
(* files of a change contain is one value.                                  *)
EXTENDS Naturals, Sequences, FiniteSets

CONSTANTS
  Changes,        \* change_id
  Recipes,        \* the required tests
  Contents,       \* what the files of a change may contain
  FirstContent,   \* what the first commit contains
  Torn,           \* files a killed Git has written in part
  NoContent,
  MaxCommits, MaxEdits, MaxTests,
  MaxReplaced,    \* replacements in one edit
  MaxMeddling,    \* what people do in the repository
  MaxDeaths

ASSUME ChangeAssumption ==
  /\ FirstContent \in Contents /\ {Torn, NoContent} \cap Contents = {} /\ Torn # NoContent
  /\ {MaxCommits, MaxEdits, MaxTests, MaxReplaced, MaxMeddling, MaxDeaths} \subseteq Nat

VARIABLES
  change,     \* the record of each change, as saved
  worktree,   \* what its development worktree contains, or NoContent
  patch,      \* what its archived patch produces, or NoContent
  commits,    \* the history of the repository: HEAD is the last
  tree,       \* what its working tree contains
  service,    \* the process: where it is, and what it holds in memory
  meddled,    \* how often people changed the working tree
  deaths

changeVars == <<change, worktree, patch, commits, tree, service, meddled, deaths>>

NoTest    == [passed |-> FALSE, of |-> NoContent]
Untested  == [r \in Recipes |-> NoTest]
NoChange  == [state |-> "NONE", base |-> 0, decisions |-> <<>>, started |-> FALSE, edits |-> 0,
              runs |-> 0, tests |-> Untested, digest |-> NoContent, applied |-> NoContent]
Idle      == [at |-> "idle", on |-> {}, applied |-> NoContent]

ChangeInit ==
  /\ change = [c \in Changes |-> NoChange]
  /\ worktree = [c \in Changes |-> NoContent]
  /\ patch = [c \in Changes |-> NoContent]
  /\ commits = <<FirstContent>> /\ tree = FirstContent
  /\ service = Idle /\ meddled = 0 /\ deaths = 0

HeadIs(c)   == Len(commits) = change[c].base
From(c)     == commits[change[c].base]
At(c, here) == service.at = here /\ service.on = {c}
Free        == service.at = "idle"
Continue(c, there) == service' = [service EXCEPT !.at = there, !.on = {c}]
Save(c, rec)   == change' = [change EXCEPT ![c] = rec]
SaveState(c, s) == Save(c, [change[c] EXCEPT !.state = s])
DecideAs(c, gate, s) ==
  Save(c, [change[c] EXCEPT !.state = s, !.decisions = Append(@, gate)])
InRepository == UNCHANGED <<commits, meddled, deaths>>
RecordOnly   == UNCHANGED <<worktree, patch, tree>> /\ InRepository

-----------------------------------------------------------------------------
(* Proposal and first decision                                              *)

Propose(c) ==
  /\ Free /\ change[c].state = "NONE"
  /\ Save(c, [NoChange EXCEPT !.state = "WAITING_DEV_APPROVAL", !.base = Len(commits)])
  /\ RecordOnly /\ UNCHANGED service

Reject(c, expected, target) ==
  /\ Free /\ change[c].state = expected /\ DecideAs(c, "REJECTED", target)
  /\ RecordOnly /\ UNCHANGED service

(* The decision is saved before the worktree is made.                       *)
ApprovePrepare(c) ==
  /\ Free /\ change[c].state = "WAITING_DEV_APPROVAL"
  /\ DecideAs(c, "C1", "PREPARING_WORKTREE") /\ Continue(c, "worktree")
  /\ RecordOnly

AddWorktree(c) ==
  /\ At(c, "worktree") /\ worktree[c] = NoContent
  /\ worktree' = [worktree EXCEPT ![c] = From(c)] /\ Continue(c, "prepared")
  /\ UNCHANGED <<change, patch, tree>> /\ InRepository

WorktreeFails(c) ==
  /\ At(c, "worktree") \/ At(c, "prepared")
  /\ SaveState(c, "FAILED") /\ service' = Idle
  /\ RecordOnly

Prepared(c) ==
  /\ At(c, "prepared") /\ service' = Idle
  /\ Save(c, [change[c] EXCEPT !.state = "EDITING", !.started = TRUE])
  /\ RecordOnly

-----------------------------------------------------------------------------
(* Development                                                              *)

(* Without a start time the budget of the change cannot be computed, and    *)
(* every development operation is refused.                                  *)
Developing(c) == Free /\ change[c].state = "EDITING" /\ change[c].started

(* An edit, a creation or a deletion: the file first, then the record.      *)
Edit(c, v) ==
  /\ Developing(c) /\ change[c].edits < MaxEdits /\ v # worktree[c]
  /\ worktree' = [worktree EXCEPT ![c] = v] /\ Continue(c, "edited")
  /\ UNCHANGED <<change, patch, tree>> /\ InRepository

(* Fault: the results of the tests are kept.                                *)
EditedKeepTests(c) ==
  /\ At(c, "edited") /\ service' = Idle
  /\ \E n \in 1..MaxReplaced : Save(c, [change[c] EXCEPT !.edits = @ + n])
  /\ RecordOnly

(* Each replacement counts as one, and the budget was asked before them:    *)
(* the last edit may pass it.                                               *)
Edited(c) ==
  /\ At(c, "edited") /\ service' = Idle
  /\ \E n \in 1..MaxReplaced :
       Save(c, [change[c] EXCEPT !.edits = @ + n, !.tests = Untested])
  /\ RecordOnly

RunTest(c) ==
  /\ Developing(c) /\ change[c].runs < MaxTests
  /\ Save(c, [change[c] EXCEPT !.state = "TESTING", !.runs = @ + 1]) /\ Continue(c, "testing")
  /\ RecordOnly

TestEnds(c, r, passed) ==
  /\ At(c, "testing") /\ service' = Idle
  /\ Save(c, [change[c] EXCEPT !.state = "EDITING",
                !.tests = [change[c].tests EXCEPT ![r] = [passed |-> passed, of |-> worktree[c]]]])
  /\ RecordOnly

(* A recipe that cannot be started at all leaves by an error of its own: the *)
(* record says TESTING until the next start.                                *)
TestNeverRuns(c) ==
  /\ At(c, "testing") /\ service' = Idle
  /\ UNCHANGED change /\ RecordOnly

(* Fault: one passed recipe is taken for all of them.                       *)
ReadyTooSoon(c) ==
  /\ Free /\ change[c].state = "EDITING"
  /\ \E r \in Recipes : change[c].tests[r].passed
  /\ worktree[c] # From(c)
  /\ patch' = [patch EXCEPT ![c] = worktree[c]] /\ Continue(c, "archived")
  /\ UNCHANGED <<change, worktree, tree>> /\ InRepository

(* Every required test has passed and there is a difference: the patch is   *)
(* archived, then the record names it.                                      *)
ReadyForReview(c) ==
  /\ Free /\ change[c].state = "EDITING"
  /\ \A r \in Recipes : change[c].tests[r].passed
  /\ worktree[c] # From(c)
  /\ patch' = [patch EXCEPT ![c] = worktree[c]] /\ Continue(c, "archived")
  /\ UNCHANGED <<change, worktree, tree>> /\ InRepository

Archived(c) ==
  /\ At(c, "archived") /\ service' = Idle
  /\ Save(c, [change[c] EXCEPT !.state = "WAITING_APPLY_APPROVAL", !.digest = patch[c]])
  /\ RecordOnly

-----------------------------------------------------------------------------
(* Application                                                              *)

(* The repository is still the one the change started from, nobody has     *)
(* touched it, and the patch is the one that was reviewed.                  *)
ApproveApply(c) ==
  /\ Free /\ change[c].state = "WAITING_APPLY_APPROVAL"
  /\ HeadIs(c) /\ tree = From(c) /\ patch[c] = change[c].digest
  /\ DecideAs(c, "C2", "APPLYING") /\ Continue(c, "apply")
  /\ RecordOnly

(* Git changes the files only where they are what the patch expects.        *)
Apply(c) ==
  /\ At(c, "apply")
  /\ IF tree = From(c) THEN tree' = patch[c] /\ Continue(c, "applied")
                       ELSE tree' = tree /\ Continue(c, "compensate")
  /\ UNCHANGED <<change, worktree, patch>> /\ InRepository

Digested(c) ==
  /\ At(c, "applied")
  /\ service' = [service EXCEPT !.at = "retest", !.applied = tree]
  /\ UNCHANGED change /\ RecordOnly

RetestPasses(c) ==
  /\ At(c, "retest") /\ service' = Idle
  /\ Save(c, [change[c] EXCEPT !.state = "APPLIED_LOCAL", !.applied = service.applied])
  /\ RecordOnly

RetestFails(c) ==
  /\ At(c, "retest") /\ Continue(c, "compensate")
  /\ UNCHANGED change /\ RecordOnly

(* Fault: a change whose tests failed is given up where it is.              *)
GiveUp(c) ==
  /\ At(c, "compensate") /\ SaveState(c, "ROLLED_BACK") /\ service' = Idle
  /\ RecordOnly

(* Can the patch be taken back?                                             *)
Compensate(c) ==
  /\ At(c, "compensate")
  /\ IF tree = patch[c] THEN UNCHANGED change /\ Continue(c, "reverse")
                        ELSE SaveState(c, "FAILED") /\ service' = Idle
  /\ RecordOnly

(* A reversal that Git refuses after all leaves the operation by an error   *)
(* of its own: nothing is saved, the record still says APPLYING.            *)
Reverse(c) ==
  /\ At(c, "reverse")
  /\ IF tree = patch[c] THEN tree' = From(c) /\ Continue(c, "reversed")
                        ELSE tree' = tree /\ service' = Idle
  /\ UNCHANGED <<change, worktree, patch>> /\ InRepository

Reversed(c) ==
  /\ At(c, "reversed") /\ service' = Idle
  /\ IF change[c].state = "APPLIED_LOCAL" THEN DecideAs(c, "ROLLBACK", "ROLLED_BACK")
                                          ELSE SaveState(c, "ROLLED_BACK")
  /\ RecordOnly

(* A person takes an applied change back, if nobody has touched it since (no *)
(* route of the server offers it).                                          *)
Rollback(c) ==
  /\ Free /\ change[c].state = "APPLIED_LOCAL"
  /\ HeadIs(c) /\ tree = change[c].applied /\ tree = patch[c]
  /\ Continue(c, "reverse")
  /\ UNCHANGED change /\ RecordOnly

-----------------------------------------------------------------------------
(* The process dies, perhaps while Git writes, and starts again             *)

Writing == service.at \in {"worktree", "apply", "reverse", "undo"}
Result(c) == IF service.at = "apply" THEN [old |-> From(c), new |-> patch[c]]
                                     ELSE [old |-> patch[c], new |-> From(c)]

Dies ==
  /\ service.at # "down" /\ deaths < MaxDeaths /\ deaths' = deaths + 1
  /\ service' = [Idle EXCEPT !.at = "down"]
  /\ UNCHANGED <<change, worktree, patch, commits, tree, meddled>>

DiesWriting(c) ==
  /\ service.on = {c} /\ Writing /\ deaths < MaxDeaths /\ deaths' = deaths + 1
  /\ service' = [Idle EXCEPT !.at = "down"]
  /\ IF service.at = "worktree"
     THEN /\ worktree[c] = NoContent /\ UNCHANGED tree
          /\ \E v \in {Torn, From(c)} : worktree' = [worktree EXCEPT ![c] = v]
     ELSE /\ tree = Result(c).old /\ UNCHANGED worktree
          /\ tree' \in {Torn, Result(c).new}
  /\ UNCHANGED <<change, patch, commits, meddled>>

(* The records are looked through before any request is served.             *)
Interrupted(c) == change[c].state \in {"PREPARING_WORKTREE", "TESTING", "APPLYING"}
Restarts ==
  /\ service.at = "down" /\ service' = [Idle EXCEPT !.at = "recover"]
  /\ UNCHANGED change /\ RecordOnly

Recovering(c) == service.at = "recover" /\ Interrupted(c)

RecoverPrepare(c) ==
  /\ Recovering(c) /\ change[c].state = "PREPARING_WORKTREE"
  /\ SaveState(c, IF worktree[c] # NoContent THEN "EDITING" ELSE "FAILED")
  /\ RecordOnly /\ UNCHANGED service

RecoverTest(c) ==
  /\ Recovering(c) /\ change[c].state = "TESTING" /\ SaveState(c, "EDITING")
  /\ RecordOnly /\ UNCHANGED service

(* Fault: an interrupted application is left for done.                      *)
RecoverApplied(c) ==
  /\ Recovering(c) /\ change[c].state = "APPLYING" /\ SaveState(c, "ROLLED_BACK")
  /\ RecordOnly /\ UNCHANGED service

(* An interrupted application is never repeated; it is taken back when Git  *)
(* can tell that it was complete.                                           *)
RecoverApply(c) ==
  /\ Recovering(c) /\ change[c].state = "APPLYING"
  /\ IF HeadIs(c) /\ patch[c] = change[c].digest /\ tree = patch[c]
     THEN UNCHANGED change /\ Continue(c, "undo")
     ELSE SaveState(c, "FAILED") /\ UNCHANGED service
  /\ RecordOnly

Undo(c) ==
  /\ At(c, "undo")
  /\ IF tree = patch[c] THEN tree' = From(c) /\ Continue(c, "undone")
                        ELSE tree' = tree /\ Continue(c, "stuck")
  /\ UNCHANGED <<change, worktree, patch>> /\ InRepository

Undone(c) ==
  /\ At(c, "undone") \/ At(c, "stuck")
  /\ SaveState(c, IF service.at = "undone" THEN "ROLLED_BACK" ELSE "FAILED")
  /\ service' = [Idle EXCEPT !.at = "recover"]
  /\ RecordOnly

Serves ==
  /\ service.at = "recover" /\ ~\E c \in Changes : Interrupted(c)
  /\ service' = Idle
  /\ UNCHANGED change /\ RecordOnly

-----------------------------------------------------------------------------
(* People in the repository                                                 *)

Meddle(v) ==
  /\ meddled < MaxMeddling /\ v # tree /\ tree' = v /\ meddled' = meddled + 1
  /\ UNCHANGED <<change, worktree, patch, commits, service, deaths>>

Commit ==
  /\ Len(commits) < MaxCommits /\ tree # commits[Len(commits)] /\ tree # Torn
  /\ commits' = Append(commits, tree)
  /\ UNCHANGED <<change, worktree, patch, tree, service, meddled, deaths>>

-----------------------------------------------------------------------------
Develop(c) == \/ Propose(c) \/ ApprovePrepare(c) \/ AddWorktree(c) \/ WorktreeFails(c)
              \/ Prepared(c) \/ Reject(c, "WAITING_DEV_APPROVAL", "DEV_REJECTED")
              \/ (\E v \in Contents : Edit(c, v)) \/ Edited(c) \/ RunTest(c)
              \/ (\E r \in Recipes, p \in BOOLEAN : TestEnds(c, r, p)) \/ TestNeverRuns(c)
              \/ ReadyForReview(c) \/ Archived(c)
Integrates(c) == \/ ApproveApply(c) \/ Apply(c) \/ Digested(c) \/ RetestPasses(c)
              \/ RetestFails(c) \/ Compensate(c) \/ Reverse(c) \/ Reversed(c) \/ Rollback(c)
              \/ Reject(c, "WAITING_APPLY_APPROVAL", "APPLY_REJECTED")
Mends(c) == \/ RecoverPrepare(c) \/ RecoverTest(c) \/ RecoverApply(c)
               \/ Undo(c) \/ Undone(c) \/ DiesWriting(c)

ChangeNext ==
  \/ \E c \in Changes : Develop(c) \/ Integrates(c) \/ Mends(c)
  \/ Dies \/ Restarts \/ Serves \/ Commit
  \/ \E v \in Contents : Meddle(v)

ChangeSpec == ChangeInit /\ [][ChangeNext]_changeVars

-----------------------------------------------------------------------------
ChangeStates == {"NONE", "WAITING_DEV_APPROVAL", "DEV_REJECTED", "PREPARING_WORKTREE", "EDITING",
           "TESTING", "WAITING_APPLY_APPROVAL", "APPLY_REJECTED", "APPLYING",
           "APPLIED_LOCAL", "FAILED", "ROLLED_BACK"}
Stations == {"idle", "down", "recover", "worktree", "prepared", "edited", "testing", "archived",
           "apply", "applied", "retest", "compensate", "reverse", "reversed", "undo", "undone",
           "stuck"}
Values == Contents \cup {Torn, NoContent}
ChangeRows == [state : ChangeStates, base : Nat, decisions : Seq({"C1", "C2", "REJECTED", "ROLLBACK"}),
               started : BOOLEAN, edits : 0..(MaxEdits + MaxReplaced), runs : 0..MaxTests,
               tests : [Recipes -> [passed : BOOLEAN, of : Values]], digest : Values, applied : Values]

(* Types of the records, the files and the process.                         *)
ChangeTypeOK ==
  /\ change \in [Changes -> ChangeRows]
  /\ worktree \in [Changes -> Values] /\ patch \in [Changes -> Values]
  /\ commits \in Seq(Contents) /\ commits # <<>> /\ tree \in Values \ {NoContent}
  /\ service \in [at : Stations, on : SUBSET Changes, applied : Values]
  /\ service.on = {} \/ \E c \in Changes : service.on = {c}
  /\ meddled \in Nat /\ deaths \in Nat

(* The decisions in the record are those its state needs, each once: there  *)
(* is no worktree without the first, no application without the second, and  *)
(* no death or restart applies a change again ("Never replay apply").       *)
DecidedFirst ==
  \A c \in Changes :
    change[c].decisions \in
      CASE change[c].state \in {"NONE", "WAITING_DEV_APPROVAL"} -> {<<>>}
        [] change[c].state = "DEV_REJECTED" -> {<<"REJECTED">>}
        [] change[c].state \in {"PREPARING_WORKTREE", "EDITING", "TESTING",
                                "WAITING_APPLY_APPROVAL"} -> {<<"C1">>}
        [] change[c].state = "APPLY_REJECTED" -> {<<"C1", "REJECTED">>}
        [] change[c].state \in {"APPLYING", "APPLIED_LOCAL"} -> {<<"C1", "C2">>}
        [] change[c].state = "FAILED" -> {<<"C1">>, <<"C1", "C2">>}
        [] OTHER -> {<<"C1", "C2">>, <<"C1", "C2", "ROLLBACK">>}

(* What a person decides about in the end, and what is applied, is the      *)
(* worktree as it stood at the review, in the patch file and by its digest.  *)
ReviewedIsKept ==
  \A c \in Changes :
    change[c].state \in {"WAITING_APPLY_APPROVAL", "APPLYING", "APPLIED_LOCAL"} =>
      patch[c] = change[c].digest /\ patch[c] = worktree[c] /\ patch[c] # From(c)

(* A change under review has passed every required test as it stands,       *)
(* unless the process has died (see EvidenceCurrent).                       *)
ReviewedIsTested ==
  \A c \in Changes, r \in Recipes :
    change[c].state = "WAITING_APPLY_APPROVAL" =>
      change[c].tests[r].passed /\ (deaths = 0 => change[c].tests[r].of = patch[c])

(* While people only commit, a working tree that is not HEAD is explained   *)
(* by a record: a change is applied or being applied; or Git was killed and  *)
(* the record says review required; or the change was committed while it    *)
(* was tested again, and taken back without a look at HEAD.                 *)
Latest == commits[Len(commits)]
Explains(c) ==
  \/ change[c].state \in {"APPLYING", "APPLIED_LOCAL"} /\ tree \in {patch[c], Torn}
  \/ change[c].state = "FAILED" /\ tree = Torn
  \/ change[c].state \in {"APPLYING", "APPLIED_LOCAL", "FAILED", "ROLLED_BACK"}
       /\ tree = From(c) /\ ~HeadIs(c)
TreeExplained == meddled = 0 /\ tree # Latest => \E c \in Changes : Explains(c)

(* A change stands on a commit; from the first edit on it has a worktree;   *)
(* and until the process dies its tests are those of the worktree, unless   *)
(* an edit is being recorded.                                               *)
Standing ==
  \A c \in Changes :
    /\ change[c].state # "NONE" => change[c].base \in 1..Len(commits)
    /\ change[c].state \in {"EDITING", "TESTING", "WAITING_APPLY_APPROVAL", "APPLYING", "APPLIED_LOCAL"}
         => worktree[c] # NoContent
    /\ \A r \in Recipes : change[c].tests[r].passed =>
         /\ change[c].state \notin {"NONE", "WAITING_DEV_APPROVAL", "PREPARING_WORKTREE"}
         /\ deaths = 0 /\ change[c].state \in {"EDITING", "TESTING"} /\ ~At(c, "edited")
              => change[c].tests[r].of = worktree[c]

(* An operation under way finds the record as it left it.                   *)
Underway ==
  /\ service.on = {} <=> service.at \in {"idle", "down", "recover"}
  /\ \A c \in Changes : service.on = {c} =>
       /\ service.at \in {"worktree", "prepared"} => change[c].state = "PREPARING_WORKTREE"
       /\ service.at = "prepared" => worktree[c] # NoContent
       /\ service.at \in {"edited", "archived"} => change[c].state = "EDITING"
       /\ service.at = "edited" => change[c].edits < MaxEdits
       /\ service.at = "testing" => change[c].state = "TESTING"
       /\ service.at = "archived" =>
            /\ patch[c] = worktree[c] /\ patch[c] # From(c)
            /\ \A r \in Recipes : change[c].tests[r].passed
       /\ service.at \in {"apply", "applied", "retest", "compensate", "undo", "undone", "stuck"}
            => change[c].state = "APPLYING"
       /\ service.at \in {"reverse", "reversed"} => change[c].state \in {"APPLYING", "APPLIED_LOCAL"}

(* While people only commit: one application at a time, which knows what is *)
(* in the working tree, and in a process that died at most one.             *)
InTree(c) == \/ HeadIs(c) /\ tree \in {From(c), patch[c], Torn}
             \/ ~HeadIs(c) /\ tree \in {Latest, From(c), Torn}
TreeInHand ==
  meddled = 0 =>
    /\ \A c, d \in Changes : change[c].state = "APPLYING" /\ change[d].state = "APPLYING" => c = d
    /\ \A c \in Changes : change[c].state = "APPLYING" =>
         /\ service.on = {c} \/ service.at \in {"down", "recover"}
         /\ InTree(c)
    /\ \A c \in Changes : service.on = {c} =>
         /\ service.at = "apply" => HeadIs(c) /\ tree = From(c)
         /\ service.at \in {"applied", "retest", "compensate", "reverse", "undo"} => tree = patch[c]
         /\ service.at \in {"reversed", "undone"} => tree = From(c)
         /\ service.at # "stuck"

(* The controlled changes of the code.                                      *)
ChangeIInv ==
  /\ ChangeTypeOK /\ DecidedFirst /\ ReviewedIsKept /\ ReviewedIsTested /\ TreeExplained
  /\ Standing /\ Underway /\ TreeInHand

(* Not kept by the code.  "every source mutation invalidates prior test     *)
(* evidence" (code_change.py:563): the file is written before the record, and *)
(* a death between the two leaves the results of other contents.            *)
EvidenceCurrent ==
  \A c \in Changes, r \in Recipes :
    change[c].state = "WAITING_APPLY_APPROVAL" => change[c].tests[r].of = patch[c]

(* Not kept by the code: a preparation that a death interrupts comes back   *)
(* as EDITING without its start time, and every operation on it is refused.  *)
EditingGoesOn ==
  \A c \in Changes : Free /\ change[c].state = "EDITING" => change[c].started

(* Not kept by the code: a rollback that dies between Git and its record    *)
(* leaves APPLIED_LOCAL over a repository without the change, for good.     *)
AppliedIsThere ==
  \A c \in Changes :
    Free /\ meddled = 0 /\ HeadIs(c) /\ change[c].state = "APPLIED_LOCAL" => tree = patch[c]
=============================================================================
