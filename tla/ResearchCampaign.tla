-------------------------- MODULE ResearchCampaign --------------------------
(* Assisted research (local_job_store.c, tools/local_jobs.c): a plan of      *)
(* actions, the human decisions about them, the grants that select some of  *)
(* them, and the campaigns that contact the provider and publish what it    *)
(* answered as an artefact, a result and a receipt.  Each command is a       *)
(* process of its own; a transaction of the job store is one step.          *)
EXTENDS Integers, FiniteSets, Sequences, Functions

CONSTANTS
  Actions,     \* the actions of the plan
  Wave,        \* research_actions.rank: 0 first wave, 1 second, 2 optional
  Grants,      \* keys of grants
  GrantAsks,   \* what a grant may ask: the decisions, the selection, whether
               \* the subject is excluded
  Campaigns,   \* keys of campaigns
  Requests,    \* lists of actions a campaign may ask for
  Researchers, \* processes that run campaigns
  Overlap,     \* may two processes run the campaign of one key at once?
  MaxResearchFaults, \* kills, refused writes and busy commits
  NoGrant

ASSUME ResearchAssumption ==
  /\ Requests \subseteq Seq(Actions)
  /\ Wave \in [Actions -> 0..2] /\ Overlap \in BOOLEAN /\ MaxResearchFaults \in Nat
  /\ GrantAsks \subseteq [decisions : [Actions -> {"AUTHORIZE", "DEFER", "REFUSE"}],
                          selected : SUBSET Actions \ {{}}, excluded : BOOLEAN]
  /\ NoGrant \notin Campaigns \cup [grant : Grants, wanted : Requests]
  /\ NoGrant \notin [holds : SUBSET Actions, excluded : BOOLEAN, revoked : BOOLEAN, expired : BOOLEAN]

VARIABLES
  planned,    \* research_plans and research_actions: is the plan admitted?
  decided,    \* research_action_decisions
  grants,     \* scope_grants with their actions, NoGrant where there is no row
  campaign,   \* research_campaigns: grant and actions of each key, or NoGrant
  results,    \* research_results with their receipt: the hash of the content
  artefact,   \* the final files, a staging file and a publication mark beside;
              \* stuck once a removal of the final file has failed
  contacted,  \* how often the provider was contacted for a campaign's action
  run,        \* the campaign processes
  troubles    \* kills and failures so far

researchVars == <<planned, decided, grants, campaign, results, artefact, contacted, run, troubles>>

Items    == Campaigns \X Actions
NoFile   == 0
NoFiles  == [final |-> NoFile, staging |-> NoFile, mark |-> NoFile, stuck |-> FALSE]
Resting  == [at |-> "out", key |-> NoGrant, todo |-> <<>>, reused |-> FALSE,
             body |-> NoFile, expired |-> FALSE, denied |-> {}]

ResearchInit ==
  /\ planned = FALSE
  /\ decided = [a \in Actions |-> "NONE"]
  /\ grants = [g \in Grants |-> NoGrant]
  /\ campaign = [k \in Campaigns |-> NoGrant]
  /\ results = [i \in Items |-> NoFile]
  /\ artefact = [i \in Items |-> NoFiles]
  /\ contacted = [i \in Items |-> 0]
  /\ run = [p \in Researchers |-> Resting]
  /\ troubles = 0

Fault == troubles < MaxResearchFaults /\ troubles' = troubles + 1

-----------------------------------------------------------------------------
(* Decisions and grants                                                     *)

(* The plan is admitted whole, once: its key comes back with its content.   *)
AdmitPlan ==
  /\ ~planned /\ planned' = TRUE
  /\ UNCHANGED <<decided, grants, campaign, results, artefact, contacted, run, troubles>>

(* A second wave waits for a recorded result of the authorised first wave.  *)
FirstWaveDone(decisions) ==
  \E a \in Actions : /\ Wave[a] = 0 /\ decisions[a] = "AUTHORIZE"
                     /\ \E k \in Campaigns : results[<<k, a>>] # NoFile

Admissible(a, decisions) ==
  decisions[a] = "AUTHORIZE" /\ (Wave[a] = 1 => FirstWaveDone(decisions))

(* Every action of the plan is decided; a refusal is never taken back.      *)
AdmitGrant(g, ask) ==
  /\ planned /\ grants[g] = NoGrant
  /\ \A a \in Actions : decided[a] = "REFUSE" => ask.decisions[a] = "REFUSE"
  /\ \A a \in ask.selected : Admissible(a, ask.decisions)
  /\ decided' = ask.decisions
  /\ grants' = [grants EXCEPT ![g] = [holds |-> ask.selected, excluded |-> ask.excluded,
                                       revoked |-> FALSE, expired |-> FALSE]]
  /\ UNCHANGED <<planned, campaign, results, artefact, contacted, run, troubles>>

RevokeGrant(g) ==
  /\ grants[g] # NoGrant /\ ~grants[g].revoked
  /\ grants' = [grants EXCEPT ![g] = [@ EXCEPT !.revoked = TRUE]]
  /\ UNCHANGED <<planned, decided, campaign, results, artefact, contacted, run, troubles>>

(* An hour has passed since the grant.                                      *)
ExpireGrant(g) ==
  /\ grants[g] # NoGrant /\ ~grants[g].expired
  /\ grants' = [grants EXCEPT ![g] = [@ EXCEPT !.expired = TRUE]]
  /\ UNCHANGED <<planned, decided, campaign, results, artefact, contacted, run, troubles>>

-----------------------------------------------------------------------------
(* A campaign process                                                       *)
GrantOf(p) == grants[campaign[run[p].key].grant]
Item(p)    == <<run[p].key, Head(run[p].todo)>>
Going(p, place) == run[p].at = place

(* What is refused whatever the wave: kept from the start of the process,   *)
(* for the properties.                                                      *)
Denied(g) ==
  {a \in Actions : \/ a \notin grants[g].holds \/ grants[g].excluded
                   \/ grants[g].revoked \/ grants[g].expired \/ decided[a] = "REFUSE"}

(* The campaign is admitted once per key and content; the instant the       *)
(* policy judges an expiry by is the start of the process.                  *)
Begin(p, k, ask) ==
  /\ run[p] = Resting /\ grants[ask.grant] # NoGrant
  /\ campaign[k] \in {NoGrant, ask}
  /\ Overlap \/ \A q \in Researchers : run[q].key # k
  /\ campaign' = [campaign EXCEPT ![k] = ask]
  /\ run' = [run EXCEPT ![p] =
       [Resting EXCEPT !.at = "next", !.key = k, !.todo = ask.wanted,
                       !.reused = (campaign[k] = ask),
                       !.expired = grants[ask.grant].expired,
                       !.denied = Denied(ask.grant) \cap Range(ask.wanted)]]
  /\ UNCHANGED <<planned, decided, grants, results, artefact, contacted, troubles>>

(* research_store_policy_decide: exclusion, revocation, expiry, then the    *)
(* action's own decision and its wave.                                      *)
Allowed(p, a) ==
  /\ ~GrantOf(p).excluded /\ ~GrantOf(p).revoked /\ ~run[p].expired
  /\ a \in GrantOf(p).holds /\ Admissible(a, decided)

Disk(p, row) == artefact' = [artefact EXCEPT ![Item(p)] = row]
Out(p) == run' = [run EXCEPT ![p] = Resting]
Reach(p, place) == run' = [run EXCEPT ![p] = [@ EXCEPT !.at = place]]
Hold(p, place, body) == run' = [run EXCEPT ![p] = [@ EXCEPT !.at = place, !.body = body]]

(* The next action of the request; a replay does not ask the policy.        *)
TakeAction(p) ==
  /\ Going(p, "next") /\ run[p].todo # <<>>
  /\ IF Head(run[p].todo) \in GrantOf(p).holds
        /\ (run[p].reused \/ Allowed(p, Head(run[p].todo)))
     THEN Reach(p, "look")
     ELSE Out(p)
  /\ UNCHANGED <<planned, decided, grants, campaign, results, artefact, contacted, troubles>>

Answers(p) ==
  /\ Going(p, "next") /\ run[p].todo = <<>> /\ Out(p)
  /\ UNCHANGED <<planned, decided, grants, campaign, results, artefact, contacted, troubles>>

NextAction(p) ==
  run' = [run EXCEPT ![p] = [@ EXCEPT !.at = "next", !.todo = Tail(run[p].todo), !.body = NoFile]]

(* research_reconcile_publication.  What is recorded needs no more than the *)
(* removal of what the publication left.  Here and below a removal may fail *)
(* and nothing tells.                                                       *)
AlreadyRecorded(p) ==
  /\ Going(p, "look") /\ results[Item(p)] # NoFile
  /\ \E m \in {NoFile, artefact[Item(p)].mark}, s \in {NoFile, artefact[Item(p)].staging} :
       Disk(p, [artefact[Item(p)] EXCEPT !.mark = m, !.staging = s])
  /\ NextAction(p)
  /\ UNCHANGED <<planned, decided, grants, campaign, results, contacted, troubles>>

(* Fault: a replay without a mark contacts the provider again.              *)
LookAgain(p) ==
  /\ Going(p, "look") /\ results[Item(p)] = NoFile
  /\ CASE run[p].reused /\ artefact[Item(p)].mark # NoFile ->
            Hold(p, "reconcile", artefact[Item(p)].final)
       [] OTHER -> Reach(p, "contact")
  /\ UNCHANGED <<planned, decided, grants, campaign, results, artefact, contacted, troubles>>

(* A first run contacts the provider; a replay never does: without a mark   *)
(* it passes over the action, or refuses a file nothing accounts for.       *)
LookUnrecorded(p) ==
  /\ Going(p, "look") /\ results[Item(p)] = NoFile
  /\ CASE ~run[p].reused -> Reach(p, "contact")
       [] run[p].reused /\ artefact[Item(p)].mark # NoFile ->
            Hold(p, "reconcile", artefact[Item(p)].final)
       [] run[p].reused /\ artefact[Item(p)].mark = NoFile /\ artefact[Item(p)].final # NoFile ->
            Out(p)
       [] OTHER -> NextAction(p)
  /\ UNCHANGED <<planned, decided, grants, campaign, results, artefact, contacted, troubles>>

(* The artefact the mark vouches for is recorded by the replay.             *)
Reconcile(p) ==
  /\ Going(p, "reconcile") /\ run[p].body # NoFile
  /\ run[p].body = artefact[Item(p)].mark /\ results[Item(p)] = NoFile
  /\ results' = [results EXCEPT ![Item(p)] = run[p].body]
  /\ Reach(p, "unmark")
  /\ UNCHANGED <<planned, decided, grants, campaign, artefact, contacted, troubles>>

(* It does not match, it was recorded meanwhile, or the store is busy.      *)
ReconcileFails(p) ==
  /\ Going(p, "reconcile")
  /\ IF run[p].body = NoFile \/ run[p].body # artefact[Item(p)].mark
        \/ results[Item(p)] # NoFile
     THEN UNCHANGED troubles ELSE Fault
  /\ Reach(p, "remove")
  /\ UNCHANGED <<planned, decided, grants, campaign, results, artefact, contacted>>

(* The one contact, with an answer, or without one: then nothing is to      *)
(* clean up.                                                               *)
Contact(p) ==
  /\ Going(p, "contact")
  /\ contacted' = [contacted EXCEPT ![Item(p)] = @ + 1]
  /\ \/ Hold(p, "stage", contacted'[Item(p)])
     \/ Out(p)
  /\ UNCHANGED <<planned, decided, grants, campaign, results, artefact, troubles>>

(* An artefact of that name ends the command; what fails here removes the   *)
(* staging file if there is one, and the mark.                              *)
Stage(p) ==
  /\ Going(p, "stage")
  /\ IF artefact[Item(p)].final = NoFile
     THEN /\ Reach(p, "mark")
          /\ Disk(p, [artefact[Item(p)] EXCEPT !.staging = run[p].body])
     ELSE Reach(p, "clean") /\ UNCHANGED artefact
  /\ UNCHANGED <<planned, decided, grants, campaign, results, contacted, troubles>>

Mark(p) ==
  /\ Going(p, "mark")
  /\ Disk(p, [artefact[Item(p)] EXCEPT !.mark = run[p].body])
  /\ Reach(p, "rename")
  /\ UNCHANGED <<planned, decided, grants, campaign, results, contacted, troubles>>

Rename(p) ==
  /\ Going(p, "rename") /\ artefact[Item(p)].staging # NoFile
  /\ Disk(p, [artefact[Item(p)] EXCEPT !.final = artefact[Item(p)].staging, !.staging = NoFile])
  /\ Reach(p, "record")
  /\ UNCHANGED <<planned, decided, grants, campaign, results, contacted, troubles>>

(* The staging file could not be written or renamed.                        *)
StageFails(p) ==
  /\ run[p].at \in {"stage", "mark", "rename"}
  /\ IF Going(p, "rename") /\ artefact[Item(p)].staging = NoFile
     THEN UNCHANGED troubles ELSE Fault
  /\ Reach(p, "clean")
  /\ UNCHANGED <<planned, decided, grants, campaign, results, artefact, contacted>>

(* research_store_record_result: result and receipt, once.                  *)
Record(p) ==
  /\ Going(p, "record") /\ results[Item(p)] = NoFile
  /\ results' = [results EXCEPT ![Item(p)] = run[p].body]
  /\ Reach(p, "unmark")
  /\ UNCHANGED <<planned, decided, grants, campaign, artefact, contacted, troubles>>

RecordFails(p) ==
  /\ Going(p, "record")
  /\ IF results[Item(p)] # NoFile THEN UNCHANGED troubles ELSE Fault
  /\ Reach(p, "remove")
  /\ UNCHANGED <<planned, decided, grants, campaign, results, artefact, contacted>>

RemoveFinal(p) ==
  /\ Going(p, "remove")
  /\ \/ Disk(p, [artefact[Item(p)] EXCEPT !.final = NoFile])
     \/ Disk(p, [artefact[Item(p)] EXCEPT !.stuck = TRUE])
  /\ Reach(p, "clean")
  /\ UNCHANGED <<planned, decided, grants, campaign, results, contacted, troubles>>

(* The staging file goes, then the mark, and the command fails.             *)
CleanUp(p) ==
  /\ Going(p, "clean")
  /\ Disk(p, [artefact[Item(p)] EXCEPT !.staging = NoFile]) \/ UNCHANGED artefact
  /\ Reach(p, "fail")
  /\ UNCHANGED <<planned, decided, grants, campaign, results, contacted, troubles>>

FailCampaign(p) ==
  /\ Going(p, "fail")
  /\ Disk(p, [artefact[Item(p)] EXCEPT !.mark = NoFile]) \/ UNCHANGED artefact
  /\ Out(p)
  /\ UNCHANGED <<planned, decided, grants, campaign, results, contacted, troubles>>

Unmark(p) ==
  /\ Going(p, "unmark")
  /\ Disk(p, [artefact[Item(p)] EXCEPT !.mark = NoFile]) \/ UNCHANGED artefact
  /\ NextAction(p)
  /\ UNCHANGED <<planned, decided, grants, campaign, results, contacted, troubles>>

(* The server kills the command after 20 s, or it crashes.                  *)
KillResearch(p) ==
  /\ run[p] # Resting /\ Fault /\ Out(p)
  /\ UNCHANGED <<planned, decided, grants, campaign, results, artefact, contacted>>

-----------------------------------------------------------------------------
Decide ==
  \/ AdmitPlan
  \/ \E g \in Grants, ask \in GrantAsks : AdmitGrant(g, ask)
  \/ \E g \in Grants : RevokeGrant(g) \/ ExpireGrant(g)

Publish(p) ==
  \/ Stage(p) \/ Mark(p) \/ Rename(p) \/ StageFails(p) \/ Record(p) \/ RecordFails(p)
  \/ RemoveFinal(p) \/ CleanUp(p) \/ FailCampaign(p) \/ Unmark(p)

RunCampaign(p) ==
  \/ \E k \in Campaigns, ask \in [grant : Grants, wanted : Requests] : Begin(p, k, ask)
  \/ TakeAction(p) \/ Answers(p)
  \/ AlreadyRecorded(p) \/ LookUnrecorded(p) \/ Reconcile(p) \/ ReconcileFails(p)
  \/ Contact(p) \/ Publish(p) \/ KillResearch(p)

ResearchNext == Decide \/ \E p \in Researchers : RunCampaign(p)
ResearchSpec == ResearchInit /\ [][ResearchNext]_researchVars

-----------------------------------------------------------------------------
GrantRows == [holds : SUBSET Actions, excluded : BOOLEAN, revoked : BOOLEAN, expired : BOOLEAN]
Asks      == [grant : Grants, wanted : Requests]
Placing   == {"stage", "mark", "rename", "record", "remove", "clean", "fail"}
RunPlaces == Placing \cup {"out", "next", "look", "contact", "reconcile", "unmark"}
RunRows   == [at : RunPlaces, key : Campaigns \cup {NoGrant}, todo : Seq(Actions), reused : BOOLEAN,
              body : Nat, expired : BOOLEAN, denied : SUBSET Actions]

ResearchTypeOK ==
  /\ planned \in BOOLEAN
  /\ decided \in [Actions -> {"NONE", "AUTHORIZE", "DEFER", "REFUSE"}]
  /\ grants \in [Grants -> GrantRows \cup {NoGrant}]
  /\ campaign \in [Campaigns -> Asks \cup {NoGrant}]
  /\ results \in [Items -> Nat] /\ contacted \in [Items -> Nat]
  /\ artefact \in [Items -> [final : Nat, staging : Nat, mark : Nat, stuck : BOOLEAN]]
  /\ run \in [Researchers -> RunRows]
  /\ \A k \in Campaigns : campaign[k] # NoGrant => grants[campaign[k].grant] # NoGrant
  /\ troubles \in 0..MaxResearchFaults

(* However often a campaign is sent again, and wherever it was killed, the  *)
(* provider is contacted once for each of its actions.                      *)
ContactedOnce == \A i \in Items : contacted[i] <= 1

(* A contact for the second wave follows a recorded result of the first.    *)
FirstRecorded == \E c \in Campaigns, b \in Actions : Wave[b] = 0 /\ results[<<c, b>>] # NoFile
WavesInOrder ==
  \A k \in Campaigns, a \in Actions :
    Wave[a] = 1 /\ contacted[<<k, a>>] > 0 => FirstRecorded

(* A process that starts after a revocation, a refusal, the expiry or with  *)
(* an excluded subject never gets as far as the contact.                    *)
ContactGranted ==
  \A p \in Researchers : Going(p, "contact") => Head(run[p].todo) \notin run[p].denied

(* A campaign nobody has begun has left nothing; a process works on one     *)
(* that is admitted, on an action that its grant holds, and publishes only  *)
(* with an answer in hand.                                                  *)
NothingOf(k, a) == results[<<k, a>>] = NoFile /\ artefact[<<k, a>>] = NoFiles
CampaignKnown ==
  /\ \A k \in Campaigns, a \in Actions : campaign[k] = NoGrant =>
       contacted[<<k, a>>] = 0 /\ NothingOf(k, a)
  /\ \A p \in Researchers :
       /\ Going(p, "out") => run[p] = Resting
       /\ ~Going(p, "out") => run[p].key \in Campaigns /\ campaign[run[p].key] # NoGrant
       /\ run[p].at \notin {"out", "next"} =>
            run[p].todo # <<>> /\ Head(run[p].todo) \in GrantOf(p).holds
       /\ run[p].at \in {"stage", "mark", "rename", "record"} => run[p].body # NoFile

(* One process at most is the first of its campaign; what it has contacted  *)
(* is recorded, or in its hands; and it contacts what it was allowed to,    *)
(* when it was allowed to.                                                  *)
FirstRun(p) == ~Going(p, "out") /\ ~run[p].reused
FirstContacts ==
  /\ \A p, q \in Researchers : FirstRun(p) /\ FirstRun(q) /\ run[p].key = run[q].key => p = q
  /\ \A p \in Researchers : FirstRun(p) =>
       \A a \in Actions : contacted[<<run[p].key, a>>] > 0 =>
         \/ results[<<run[p].key, a>>] # NoFile
         \/ run[p].at \in Placing /\ a = Head(run[p].todo)
  /\ \A p \in Researchers : Going(p, "contact") =>
       ~run[p].reused /\ contacted[Item(p)] = 0
  /\ \A p \in Researchers : FirstRun(p) /\ run[p].at \in {"look", "contact"} =>
       /\ Head(run[p].todo) \notin run[p].denied
       /\ Wave[Head(run[p].todo)] = 1 => FirstRecorded

(* What was denied at the start stays denied.                               *)
DeniedStays ==
  \A p \in Researchers : ~Going(p, "out") => \A a \in run[p].denied :
    \/ a \notin GrantOf(p).holds \/ GrantOf(p).excluded \/ GrantOf(p).revoked
    \/ run[p].expired \/ decided[a] = "REFUSE"

(* What holds however many processes run a campaign.                        *)
ContactIInv ==
  /\ ResearchTypeOK /\ ContactedOnce /\ WavesInOrder /\ ContactGranted
  /\ CampaignKnown /\ FirstContacts /\ DeniedStays

(* A recorded result has its artefact, with the content it was recorded     *)
(* with, and a grant that held the action.                                  *)
ResultBacked ==
  \A k \in Campaigns, a \in Actions :
    results[<<k, a>>] # NoFile
      => /\ artefact[<<k, a>>].final = results[<<k, a>>]
         /\ a \in grants[campaign[k].grant].holds

(* A final artefact is recorded, or a mark lets the next run record it,     *)
(* unless its removal once failed: then every replay may refuse it.         *)
ArtefactAccounted ==
  \A i \in Items : artefact[i].final # NoFile /\ ~artefact[i].stuck
    => artefact[i].final \in {results[i], artefact[i].mark}

(* Why it is so while one process at a time runs a campaign: the files of   *)
(* its action are as far as the process is, and there are none before its   *)
(* first contact.                                                           *)
Fits(row, file, result) ==
  /\ row.at \in Placing \cup {"contact", "reconcile"} => result = NoFile
  /\ row.at = "reconcile" => row.body = file.final
  /\ row.at \in {"contact", "stage"} => file = NoFiles
  /\ row.at = "mark" => file.staging = row.body /\ file.mark = NoFile /\ file.final = NoFile
  /\ row.at = "rename" => file.staging = row.body /\ file.mark = row.body /\ file.final = NoFile
  /\ row.at = "record" => file.final = row.body /\ file.mark = row.body
  /\ row.at \in {"clean", "fail"} => file.final = NoFile \/ file.stuck
  /\ row.at = "unmark" => result # NoFile
InHand(p) == Fits(run[p], artefact[Item(p)], results[Item(p)])
NothingBefore(p) ==
  FirstRun(p) =>
    /\ \A a \in Actions : contacted[<<run[p].key, a>>] = 0 => NothingOf(run[p].key, a)
    /\ run[p].at \in Placing \cup {"reconcile"} => contacted[Item(p)] > 0
OneAtATime ==
  \A p, q \in Researchers : run[p].key = run[q].key /\ ~Going(p, "out") => p = q
FilesInHand == OneAtATime /\ \A p \in Researchers : InHand(p) /\ NothingBefore(p)

(* The campaigns of assisted research, commands of one key following each   *)
(* other: contacts and what is published of them agree with the decisions.  *)
ResearchIInv == ContactIInv /\ ResultBacked /\ ArtefactAccounted /\ FilesInHand
=============================================================================
