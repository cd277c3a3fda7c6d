-------------------------------- MODULE MCWeb --------------------------------
(* Side by side, one per scope: the library of investigations (once with     *)
(* creations and adoptions, once with creations, openings and closings),     *)
(* the campaigns of assisted research, the controlled changes of the code   *)
(* and the toolbox of the agent.                                            *)
EXTENDS WebLibrary, ResearchCampaign, CodeChange, ToolProvisioning, TLC

CONSTANTS w1, w2, opt, r1, m1, m2, f1, f2, x1, ka, kb, ta, qa, c1, c2,
  va, vb, pk, h1, h2

VARIABLE scope

MCActions   == {w1, w2, opt}
MCWave      == w1 :> 0 @@ w2 :> 1 @@ opt :> 2
GrantAsk(one, two, three, s, x) ==
  [decisions |-> w1 :> one @@ w2 :> two @@ opt :> three, selected |-> s, excluded |-> x]
MCGrantAsks ==
  {GrantAsk("AUTHORIZE", "DEFER", "AUTHORIZE", {w1, opt}, FALSE),
   GrantAsk("AUTHORIZE", "AUTHORIZE", "REFUSE", {w1, w2}, FALSE),
   GrantAsk("AUTHORIZE", "DEFER", "DEFER", {w1}, TRUE)}
MCRequests  == {<<w2>>, <<opt, w1>>}
MCResearchers == {r1}

MCManaged   == {m1, m2}
MCFolders   == {f1, f2}
MCOwnId     == f1 :> x1 @@ f2 :> x1
MCKeys      == {ka, kb}
MCTitles    == {ta}
MCCloseKeys == {qa}
MCThreads   == {c1, c2}

(* Only one scope runs: the values of the library serve the others again.   *)
MCGrants    == MCThreads
MCCampaigns == MCManaged
MCChanges   == MCThreads
MCRecipes   == MCManaged
MCContents  == {va, vb}
MCAdapters  == MCThreads

(* The second folder is a copy of the first that already has its manifest.  *)
MCInit ==
  /\ ResearchInit /\ LibraryInit
  /\ ChangeInit /\ ToolboxInit
  /\ scope \in {"research", "store", "desk", "change", "toolbox"}
  /\ existing[f2].manifest = "theirs"
  /\ scope # "store" => existing[f1].manifest = "theirs"

(* One fault where adoptions are made, MaxLibFaults where they are not.       *)
MaxTrouble == 1
LittleTrouble == libBudget'.faults <= MaxTrouble

(* Keys are alike: the second comes into use where the first is in use.      *)
InUse(k) == \/ \E e \in registry : e.key = k
            \/ intent # Nobody /\ intent.key = k
            \/ \E c \in Threads : libJob[c].key = k
KeysInOrder == ~(InUse(kb)' /\ ~InUse(kb) /\ ~InUse(ka)')

Writers(c) == Creates(c) \/ CallFails(c)
Commands   == \E i \in Managed : MakeNext(i) \/ MakeFails(i) \/ MakeUndo(i)
toolingVars == <<changeVars, toolboxVars>>
webVars     == <<libraryVars, researchVars>>

(* One handler serves what the agent asks for, both serve the decisions;    *)
(* at most one request is written over.                                     *)
MaxLost == 1
AgentAlone == hand'[h2].at \notin {"propose", "adapter", "withdraw"}
              /\ Cardinality(past'.lost) <= MaxLost

(* The agent edits and tests one change at a time; an edit that uses the    *)
(* budget up exactly is left out, the one that passes it is not.             *)
OneDeveloped ==
  /\ Cardinality({c \in Changes : /\ change'[c].state \in {"EDITING", "TESTING"}
                                  /\ change'[c].edits + change'[c].runs > 0}) <= 1
  /\ \A c \in Changes : change'[c].edits # MaxEdits

(* One grant at most is revoked or expires, and not both.                    *)
Over(how(_)) == Cardinality({g \in Grants : ~(grants[g] # NoGrant => ~how(grants[g]))})
OneEnd == LET Revoked(g) == g.revoked
              Expired(g) == g.expired
          IN Over(Revoked)' + Over(Expired)' <= 1

MCNext ==
  \/ scope = "research" /\ ResearchNext /\ OneEnd /\ UNCHANGED <<libraryVars, toolingVars, scope>>
  \/ scope = "change" /\ ChangeNext /\ OneDeveloped /\ UNCHANGED <<webVars, toolboxVars, scope>>
  \/ scope = "toolbox" /\ ToolboxNext /\ AgentAlone /\ UNCHANGED <<webVars, changeVars, scope>>
  \/ /\ scope = "store" /\ UNCHANGED <<researchVars, toolingVars, scope>>
     /\ \/ \E c \in Threads : Writers(c) \/ Adopts(c)
        \/ Commands \/ ServerDies \/ \E n \in Folders : ChangeFolder(n)
     /\ LittleTrouble /\ KeysInOrder
  \/ /\ scope = "desk" /\ UNCHANGED <<researchVars, toolingVars, scope>>
     /\ \/ \E c \in Threads : Writers(c) \/ OpensCloses(c)
        \/ Commands \/ ServerDies
     /\ KeysInOrder

MCSpec == MCInit /\ [][MCNext]_<<webVars, toolingVars, scope>>

MCSymmetry == Permutations(MCThreads) \cup Permutations(MCManaged)
=============================================================================
