-------------------------- MODULE ToolProvisioning --------------------------
(* The toolbox of the agent (tool_provisioning.py and its routes in the     *)
(* server): a package is proposed, built as a generation after the human     *)
(* gate A, given an adapter, and activated after gate B.  Requests,         *)
(* generations, integrations and the current generation are files of their   *)
(* own, each written atomically; there is no lock over them.  The threads   *)
(* of the server read a file, think, and write it back.                     *)
EXTENDS Naturals, FiniteSets, FiniteSetsExt

CONSTANTS
  Demands,        \* request_id
  Packages,
  Adapters,       \* tool_id
  Handlers,       \* threads that serve requests
  Nothing,
  MaxGenerations,
  MaxKills

(* Requests are listed, and compared, in the order of their file names.      *)
ASSUME ToolboxAssumption == /\ Nothing \notin Demands \cup Packages \cup Adapters
                            /\ Demands \subseteq Nat
                            /\ {MaxGenerations, MaxKills} \subseteq Nat

VARIABLES
  demand,       \* requests/<id>.json
  generation,   \* generations/<n>.json
  integration,  \* integrations/<tool_id>.json: the request it was made for
  box,          \* state.json: the current generation
  opened,       \* was the service opened since the server started?
  hand,         \* what each handler does, and what it has read
  task,         \* the one tooling thread, and what it has read
  past,         \* yes at gate A, at gate B; the requests one thread wrote over
                \* what another had written since (for the properties)
  kills

toolboxVars == <<demand, generation, integration, box, opened, hand, task, past, kills>>

Numbers  == 1..MaxGenerations
NoDemand == [state |-> "NONE", package |-> Nothing, number |-> 0, adapter |-> Nothing]
NoImage  == [state |-> "NONE", parent |-> 0, of |-> Nothing]
AtRest   == [at |-> "rest", on |-> Nothing, copy |-> NoDemand, tool |-> Nothing,
             current |-> 0, count |-> 0]

ToolboxInit ==
  /\ demand = [r \in Demands |-> NoDemand]
  /\ generation = [n \in Numbers |-> NoImage]
  /\ integration = [a \in Adapters |-> Nothing]
  /\ box = 0
  /\ opened = FALSE
  /\ hand = [h \in Handlers |-> AtRest] /\ task = AtRest
  /\ past = [A |-> {}, B |-> {}, lost |-> {}] /\ kills = 0

Rests(h)       == opened /\ hand[h] = AtRest
Does(h, what)  == hand[h].at = what
Goes(h, what)  == hand' = [hand EXCEPT ![h].at = what]
Leaves(h)      == hand' = [hand EXCEPT ![h] = AtRest]
Copies(h, what, r) ==
  hand' = [hand EXCEPT ![h] = [AtRest EXCEPT !.at = what, !.on = r, !.copy = demand[r]]]

(* A request is written as it was read, with what the operation changes.    *)
Lost(r, read)  == IF demand[r] = read THEN {} ELSE {r}
Rewrites(h, s) == demand' = [demand EXCEPT ![hand[h].on] = [hand[h].copy EXCEPT !.state = s]]
Overwrites(h)  == past' = [past EXCEPT !.lost = @ \cup Lost(hand[h].on, hand[h].copy)]

Files  == <<generation, integration, box>>
Server == <<opened, past, kills>>

-----------------------------------------------------------------------------
(* Proposal, and the two gates                                              *)
Pending == {"WAITING_PROVISION_APPROVAL", "BUILDING", "QUARANTINED",
            "WAITING_INTEGRATION_APPROVAL", "ACTIVE"}

(* The requests are looked through, the package is resolved in a container, *)
(* and only then is the request written.                                    *)
ProposeLooks(h, p) ==
  /\ Rests(h) /\ \A r \in Demands : ~(demand[r].package = p /\ demand[r].state \in Pending)
  /\ hand' = [hand EXCEPT ![h] = [AtRest EXCEPT !.at = "propose", !.copy.package = p]]
  /\ UNCHANGED <<demand, task>> /\ UNCHANGED Files /\ UNCHANGED Server

ProposeWrites(h, r) ==
  /\ Does(h, "propose") /\ demand[r] = NoDemand
  /\ demand' = [demand EXCEPT ![r] = [hand[h].copy EXCEPT !.state = "WAITING_PROVISION_APPROVAL"]]
  /\ Leaves(h) /\ UNCHANGED task /\ UNCHANGED Files /\ UNCHANGED Server

Answer(gate, yes) == IF yes THEN [A |-> "approve A", B |-> "approve B"][gate]
                            ELSE [A |-> "reject A", B |-> "reject B"][gate]

(* approve_provision, reject_provision, approve_integration and             *)
(* reject_integration: the state is checked, the request written back.      *)
DecisionReads(h, r, gate, yes) ==
  /\ Rests(h)
  /\ demand[r].state = IF gate = "A" THEN "WAITING_PROVISION_APPROVAL"
                                     ELSE "WAITING_INTEGRATION_APPROVAL"
  /\ Copies(h, Answer(gate, yes), r)
  /\ UNCHANGED <<demand, task>> /\ UNCHANGED Files /\ UNCHANGED Server

Rejects(h, gate) ==
  /\ Does(h, Answer(gate, FALSE))
  /\ Rewrites(h, IF gate = "A" THEN "PROVISION_REJECTED" ELSE "INTEGRATION_REJECTED")
  /\ Overwrites(h) /\ Leaves(h) /\ UNCHANGED <<task, opened, kills>> /\ UNCHANGED Files

Approves(h, gate) ==
  /\ Does(h, Answer(gate, TRUE))
  /\ Rewrites(h, IF gate = "A" THEN "BUILDING" ELSE "ACTIVATING")
  /\ past' = [past EXCEPT ![gate] = @ \cup {hand[h].on},
                           !.lost = @ \cup Lost(hand[h].on, hand[h].copy)]
  /\ Goes(h, IF gate = "A" THEN "start" ELSE "activate")
  /\ UNCHANGED <<task, opened, kills>> /\ UNCHANGED Files

-----------------------------------------------------------------------------
(* Building                                                                 *)

(* One tooling task at a time: a second one is refused, after the decision  *)
(* was saved.                                                               *)
StartsTask(h) ==
  /\ Does(h, "start") /\ Leaves(h)
  /\ task' = IF task = AtRest THEN [AtRest EXCEPT !.at = "start", !.on = hand[h].on] ELSE task
  /\ UNCHANGED demand /\ UNCHANGED Files /\ UNCHANGED Server

Taken == {n \in Numbers : generation[n] # NoImage}

(* Fault: the next number after the current generation.                     *)
AfterCurrent == 1 + box

Fresh == 1 + Max({0} \cup Taken)

(* The parent and the number are taken before the image is built.           *)
BuildReads ==
  /\ task.at = "start"
  /\ task' = IF demand[task.on].state = "BUILDING"
             THEN [task EXCEPT !.at = "build", !.copy = demand[task.on],
                               !.current = box, !.count = Fresh]
             ELSE AtRest
  /\ UNCHANGED <<demand, hand>> /\ UNCHANGED Files /\ UNCHANGED Server

Builds ==
  /\ task.at = "build" /\ task.count \in Numbers
  /\ generation' = [generation EXCEPT ![task.count] =
       [state |-> "QUARANTINED", parent |-> task.current, of |-> task.on]]
  /\ task' = [task EXCEPT !.at = "register"]
  /\ UNCHANGED <<demand, integration, box, hand>> /\ UNCHANGED Server

(* The build fails, or the write of the request after the generation: then  *)
(* the request that is written again names it.                              *)
BuildEnds(s) ==
  /\ task.at = "register" \/ (task.at = "build" /\ s = "FAILED")
  /\ demand' = [demand EXCEPT ![task.on] = [task.copy EXCEPT !.state = s,
                                        !.number = IF task.at = "build" THEN @ ELSE task.count]]
  /\ past' = [past EXCEPT !.lost = @ \cup Lost(task.on, task.copy)]
  /\ task' = AtRest
  /\ UNCHANGED <<hand, opened, kills>> /\ UNCHANGED Files

-----------------------------------------------------------------------------
(* Integration and activation                                               *)
AdapterReads(h, r, a) ==
  /\ Rests(h) /\ demand[r].state = "QUARANTINED" /\ integration[a] = Nothing
  /\ hand' = [hand EXCEPT ![h] = [AtRest EXCEPT !.at = "adapter", !.on = r,
                                    !.copy = demand[r], !.tool = a]]
  /\ UNCHANGED <<demand, task>> /\ UNCHANGED Files /\ UNCHANGED Server

(* Fault: an adapter is activated as soon as it is proposed.                *)
AdapterActivates(h) ==
  /\ Does(h, "adapter")
  /\ demand' = [demand EXCEPT ![hand[h].on] =
       [hand[h].copy EXCEPT !.state = "ACTIVATING", !.adapter = hand[h].tool]]
  /\ Overwrites(h) /\ Goes(h, "activate") /\ UNCHANGED <<task, opened, kills>> /\ UNCHANGED Files

AdapterWrites(h) ==
  /\ Does(h, "adapter")
  /\ demand' = [demand EXCEPT ![hand[h].on] =
       [hand[h].copy EXCEPT !.state = "WAITING_INTEGRATION_APPROVAL", !.adapter = hand[h].tool]]
  /\ Overwrites(h) /\ Leaves(h) /\ UNCHANGED <<task, opened, kills>> /\ UNCHANGED Files

(* The handler that approved goes on to activate.                           *)
ActivateReads(h) ==
  /\ Does(h, "activate")
  /\ IF demand[hand[h].on].state = "ACTIVATING" THEN Copies(h, "integrate", hand[h].on)
                                                ELSE Leaves(h)
  /\ UNCHANGED <<demand, task>> /\ UNCHANGED Files /\ UNCHANGED Server

WritesIntegration(h) ==
  /\ Does(h, "integrate")
  /\ integration' = [integration EXCEPT ![hand[h].copy.adapter] = hand[h].on]
  /\ Goes(h, "image")
  /\ UNCHANGED <<demand, generation, box, task>> /\ UNCHANGED Server

(* Fault: the generation stays in quarantine.                               *)
LeavesGeneration(h) ==
  /\ Does(h, "image") /\ Goes(h, "publish")
  /\ UNCHANGED <<demand, task>> /\ UNCHANGED Files /\ UNCHANGED Server

WritesGeneration(h) ==
  /\ Does(h, "image")
  /\ generation' = [generation EXCEPT ![hand[h].copy.number].state = "ACTIVE"]
  /\ Goes(h, "publish")
  /\ UNCHANGED <<demand, integration, box, task>> /\ UNCHANGED Server

Publishes(h) ==
  /\ Does(h, "publish")
  /\ box' = hand[h].copy.number
  /\ Goes(h, "finish")
  /\ UNCHANGED <<demand, generation, integration, task>> /\ UNCHANGED Server

Finishes(h) ==
  /\ Does(h, "finish") /\ Rewrites(h, "ACTIVE") /\ Overwrites(h) /\ Leaves(h)
  /\ UNCHANGED <<task, opened, kills>> /\ UNCHANGED Files

-----------------------------------------------------------------------------
(* Return to the parent of the current generation: an operation of the      *)
(* service that no route of the server offers.                              *)
RollbackReads(h) ==
  /\ Rests(h) /\ box # 0
  /\ hand' = [hand EXCEPT ![h] = [AtRest EXCEPT !.at = "withdraw", !.current = box]]
  /\ UNCHANGED <<demand, task>> /\ UNCHANGED Files /\ UNCHANGED Server

Withdraws(h) ==
  /\ Does(h, "withdraw")
  /\ generation' = [generation EXCEPT ![hand[h].current].state = "ROLLED_BACK"]
  /\ Goes(h, "return")
  /\ UNCHANGED <<demand, integration, box, task>> /\ UNCHANGED Server

Returns(h) ==
  /\ Does(h, "return")
  /\ box' = generation[hand[h].current].parent
  /\ Goes(h, "mark")
  /\ UNCHANGED <<demand, generation, integration, task>> /\ UNCHANGED Server

MarksRequests(h) ==
  /\ Does(h, "mark")
  /\ demand' = [r \in Demands |-> IF demand[r].number = hand[h].current
                                  THEN [demand[r] EXCEPT !.state = "ROLLED_BACK"] ELSE demand[r]]
  /\ Leaves(h) /\ UNCHANGED task /\ UNCHANGED Files /\ UNCHANGED Server

-----------------------------------------------------------------------------
(* The server dies, and the service checks its files when it is next used:  *)
(* the current generation is active, and an integration is that of the      *)
(* first request that names its adapter.                                    *)
Naming(a) == {r \in Demands : demand[r].adapter = a}
Accepted ==
  /\ box # 0 => generation[box].state = "ACTIVE"
  /\ \A a \in Adapters : integration[a] # Nothing =>
       Naming(a) # {} /\ integration[a] = Min(Naming(a))

Opening ==
  /\ ~opened /\ Accepted /\ opened' = TRUE
  /\ UNCHANGED <<demand, hand, task, past, kills>> /\ UNCHANGED Files

ServerKilled ==
  /\ opened /\ kills < MaxKills /\ kills' = kills + 1 /\ opened' = FALSE
  /\ hand' = [h \in Handlers |-> AtRest] /\ task' = AtRest
  /\ UNCHANGED <<demand, past>> /\ UNCHANGED Files

-----------------------------------------------------------------------------
Decides(h) ==
  \/ \E p \in Packages : ProposeLooks(h, p)
  \/ \E r \in Demands : ProposeWrites(h, r)
  \/ \E r \in Demands, gate \in {"A", "B"}, yes \in BOOLEAN : DecisionReads(h, r, gate, yes)
  \/ \E gate \in {"A", "B"} : Rejects(h, gate) \/ Approves(h, gate)
  \/ \E r \in Demands, a \in Adapters : AdapterReads(h, r, a)
  \/ AdapterWrites(h) \/ StartsTask(h)
Activates(h) ==
  \/ ActivateReads(h) \/ WritesIntegration(h) \/ WritesGeneration(h)
  \/ Publishes(h) \/ Finishes(h)
RollsBack(h) == RollbackReads(h) \/ Withdraws(h) \/ Returns(h) \/ MarksRequests(h)

ToolboxNext ==
  \/ \E h \in Handlers : Decides(h) \/ Activates(h) \/ RollsBack(h)
  \/ BuildReads \/ Builds \/ (\E s \in {"QUARANTINED", "FAILED"} : BuildEnds(s))
  \/ Opening \/ ServerKilled

ToolboxSpec == ToolboxInit /\ [][ToolboxNext]_toolboxVars

-----------------------------------------------------------------------------
DemandStates ==
  {"NONE", "WAITING_PROVISION_APPROVAL", "PROVISION_REJECTED", "BUILDING", "QUARANTINED",
   "WAITING_INTEGRATION_APPROVAL", "INTEGRATION_REJECTED", "ACTIVATING", "ACTIVE", "FAILED",
   "ROLLED_BACK"}

HandPlaces == {"rest", "propose", "approve A", "reject A", "start", "adapter", "approve B",
               "reject B", "activate", "integrate", "image", "publish", "finish",
               "withdraw", "return", "mark"}
TaskPlaces == {"rest", "start", "build", "register"}
RequestFiles == [state : DemandStates, package : Packages \cup {Nothing},
                 number : 0..MaxGenerations, adapter : Adapters \cup {Nothing}]
Work(places) == [at : places, on : Demands \cup {Nothing}, copy : RequestFiles,
                 tool : Adapters \cup {Nothing}, current : 0..MaxGenerations, count : Nat]

(* Types of the files and of what the threads hold.                         *)
ToolboxTypeOK ==
  /\ demand \in [Demands -> RequestFiles]
  /\ generation \in [Numbers -> [state : {"NONE", "QUARANTINED", "ACTIVE", "ROLLED_BACK"},
                                 parent : 0..MaxGenerations, of : Demands \cup {Nothing}]]
  /\ integration \in [Adapters -> Demands \cup {Nothing}]
  /\ box \in 0..MaxGenerations
  /\ hand \in [Handlers -> Work(HandPlaces)] /\ task \in Work(TaskPlaces)
  /\ past \in [A : SUBSET Demands, B : SUBSET Demands, lost : SUBSET Demands]

(* Whatever the threads overwrite of each other and wherever the server     *)
(* dies: no image is built without a yes at gate A, and no adapter becomes  *)
(* part of the toolbox, nor a generation current, without one at gate B.    *)
GatesPassed ==
  /\ \A n \in Taken : generation[n].of \in past.A
  /\ \A a \in Adapters : integration[a] # Nothing => integration[a] \in past.B
  /\ \A n \in Taken : generation[n].state # "QUARANTINED" => generation[n].of \in past.B
  /\ box # 0 => generation[box].of \in past.B

(* A generation is the image of one request, older than its own successors. *)
ImageOfRequest ==
  /\ \A r \in Demands : demand[r].number # 0 => generation[demand[r].number].of = r
  /\ \A n \in Taken : generation[n].parent < n

(* While every request names an adapter of its own, nothing is rolled back   *)
(* and no request is written over, an activation may be killed after any of  *)
(* its four files: the current generation is active, and the next start     *)
(* accepts the files.                                                       *)
NamesApart == \A r, q \in Demands : demand[r].adapter = demand[q].adapter =>
                r = q \/ demand[r].adapter = Nothing
RolledBack == \E n \in Numbers : generation[n].state = "ROLLED_BACK"
OpensAgain == NamesApart /\ ~RolledBack /\ past.lost = {} => Accepted

(* A request, and every copy of one, names its own image, once there is one, *)
(* and its adapter from the proposal of the adapter on.                     *)
WithAdapter == {"WAITING_INTEGRATION_APPROVAL", "INTEGRATION_REJECTED", "ACTIVATING", "ACTIVE"}
Sound(r, file) ==
  /\ file.number # 0 => generation[file.number].of = r
  /\ file.state \in WithAdapter \cup {"QUARANTINED"} => file.number # 0
  /\ file.state \in WithAdapter => file.adapter # Nothing
  /\ file.state \notin WithAdapter \cup {"ROLLED_BACK"} => file.adapter = Nothing

(* What is current, was current or is to be returned to left quarantine.    *)
Released(n) == n \in Numbers /\ generation[n].state \in {"ACTIVE", "ROLLED_BACK"}
FilesSound ==
  /\ \A r \in Demands : Sound(r, demand[r])
  /\ box # 0 => Released(box)
  /\ \A n \in Taken : generation[n].parent # 0 => Released(generation[n].parent)

(* What a handler read when it is about to write, and what allowed it.       *)
Works(h, places) == hand[h].at \in places
HandsSound ==
  \A h \in Handlers :
    /\ Works(h, {"propose"}) => hand[h].copy.number = 0 /\ hand[h].copy.adapter = Nothing
    /\ hand[h].on # Nothing => Sound(hand[h].on, hand[h].copy)
    /\ Works(h, {"approve A", "reject A", "approve B", "reject B", "adapter"}) =>
         hand[h].on # Nothing
    /\ Works(h, {"approve A", "reject A"}) =>
         hand[h].copy.state = "WAITING_PROVISION_APPROVAL"
    /\ Works(h, {"approve B", "reject B"}) =>
         hand[h].copy.state = "WAITING_INTEGRATION_APPROVAL"
    /\ Works(h, {"adapter"}) => hand[h].copy.state = "QUARANTINED" /\ hand[h].tool # Nothing
    /\ Works(h, {"start"}) => hand[h].on \in past.A
    /\ Works(h, {"activate", "integrate", "image", "publish", "finish"}) => hand[h].on \in past.B
    /\ Works(h, {"integrate", "image", "publish", "finish"}) => hand[h].copy.state = "ACTIVATING"
    /\ Works(h, {"publish"}) => Released(hand[h].copy.number)
    /\ Works(h, {"withdraw", "return"}) => Released(hand[h].current)

(* The number of a build is above every number taken, and its parent.        *)
TaskSound ==
  /\ task.at # "rest" => task.on \in past.A
  /\ task.at \in {"build", "register"} =>
       /\ task.copy.state = "BUILDING" /\ Sound(task.on, task.copy)
       /\ task.current < task.count /\ (task.current # 0 => Released(task.current))
  /\ task.at = "build" => \A n \in Taken : n < task.count
  /\ task.at = "register" => task.count \in Numbers /\ generation[task.count].of = task.on

(* While no request is written over, an integration is that of a request    *)
(* which names its adapter, from the moment the handler read it.             *)
OriginNamed ==
  past.lost = {} =>
    /\ \A a \in Adapters : integration[a] # Nothing => demand[integration[a]].adapter = a
    /\ \A h \in Handlers : Works(h, {"integrate"}) =>
         demand[hand[h].on].adapter = hand[h].copy.adapter

(* The toolbox.                                                             *)
ToolboxIInv ==
  /\ ToolboxTypeOK /\ GatesPassed /\ ImageOfRequest /\ OpensAgain
  /\ FilesSound /\ HandsSound /\ TaskSound /\ OriginNamed

(* Not kept by the code: a request that was not activated, refused or still  *)
(* waiting, names its adapter; once another request activates that adapter,  *)
(* the next start may take the first for its origin and refuse the toolbox.  *)
OriginFound == ~RolledBack /\ past.lost = {} => Accepted

(* Not kept by the code: a generation built before its parent was rolled    *)
(* back returns to it ("Le rollback explicite choisit une generation        *)
(* anterieure validee", TOOLBOX_GENERATIONS.md:10-11), and a rollback killed *)
(* after its first file leaves a current generation that is not active.     *)
ReturnsToActive == box # 0 => generation[box].state = "ACTIVE"

(* Not kept by the code: a refusal read before an approval was written      *)
(* overwrites it, and the other way round.                                  *)
RefusedStaysInactive ==
  \A r \in Demands : demand[r].state = "INTEGRATION_REJECTED" =>
    \A a \in Adapters : integration[a] # r

(* Not kept by the code: BUILDING without a task to build it, after a death *)
(* or when another task was under way.                                      *)
BuildingIsBuilt ==
  \A r \in Demands : demand[r].state = "BUILDING" =>
    task.on = r \/ \E h \in Handlers : hand[h].on = r
=============================================================================
