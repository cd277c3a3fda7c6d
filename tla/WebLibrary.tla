------------------------------ MODULE WebLibrary -----------------------------
(* The library of investigations (web_library.py) and what the workspace    *)
(* server does with it: creation under an intention that survives a crash,  *)
(* the discovery and adoption of existing folders, opening and closing.     *)
(* The file lock of the registry is held over a whole creation or adoption; *)
(* files are written in steps, the folder by a command of its own (create-  *)
(* workspace of tools/local_jobs.c) that outlives a killed server.          *)
EXTENDS Integers, FiniteSets

CONSTANTS
  Managed,     \* identifiers drawn for the folders under workspaces/
  Folders,     \* existing folders of the library
  OwnId,       \* the identifier each existing folder's database holds
  Keys,        \* idempotency keys, of creations and adoptions alike
  Titles,      \* titles a creation asks for
  CloseKeys,   \* idempotency keys of closings
  Threads,     \* request threads of the server
  MaxEntries,  \* 256 in the code
  MaxLibFaults,    \* crashes of the server, time-outs and failed calls
  MaxDiscoveries,  \* searches of existing folders
  MaxOutside,      \* changes made to existing folders by others
  Nobody

ASSUME LibraryAssumption ==
  /\ OwnId \in [Folders -> {OwnId[n] : n \in Folders}]
  /\ {MaxEntries, MaxLibFaults, MaxDiscoveries, MaxOutside} \subseteq Nat
  /\ Managed \cap (Folders \cup {OwnId[n] : n \in Folders}) = {}
  /\ Nobody \notin Managed \cup Folders \cup Keys \cup Threads

VARIABLES
  registry,    \* entries of registry.json; its generation is their number
  intent,      \* creation-intent.json, or Nobody
  folder,      \* how far each managed folder is written
  maker,       \* the create-workspace command of each managed folder
  existing,    \* existing folders: version of the database, manifest
  holder,      \* the thread that holds the lock of the registry
  candidates,  \* the cache of the last discovery
  libJob,      \* what each thread is doing
  active,      \* active_workspace_id
  root,        \* the investigation whose folder is self.workspace
  lifecycle,   \* the thread that holds workspace_lifecycle_lock
  told,        \* library_generation
  closed,      \* library_close_replays: the request of each key
  closings,    \* how often a key closed an investigation (history)
  crashed,     \* the server died at least once (history)
  theirs,      \* existing folders that got a manifest from others (history)
  libBudget    \* faults, discoveries and outside changes so far

registryVars == <<registry, intent, folder, maker, existing, holder, theirs>>
serverSide   == <<candidates, libJob, active, root, lifecycle, told, closed, closings>>
libraryVars  == <<registryVars, serverSide, crashed, libBudget>>

Progress   == {"absent", "dir", "base", "manifest", "whole"}
IdleThread == [at |-> "out", key |-> Nobody, what |-> Nobody, id |-> Nobody,
               seen |-> 0, found |-> Nobody]

Entry(id, key, what, ref) == [id |-> id, key |-> key, what |-> what, ref |-> ref]
Generation == Cardinality(registry)
Bound(key) == {e \in registry : e.key = key}
Unoffered  == [n \in Folders |-> Nobody]

LibraryInit ==
  /\ registry = {} /\ intent = Nobody /\ holder = Nobody
  /\ folder = [i \in Managed |-> "absent"] /\ maker = [i \in Managed |-> "none"]
  /\ existing \in [Folders -> [version : {0}, manifest : {"none", "theirs"}]]
  /\ theirs = {n \in Folders : existing[n].manifest = "theirs"}
  /\ candidates = Unoffered /\ libJob = [c \in Threads |-> IdleThread]
  /\ active = Nobody /\ root = Nobody /\ lifecycle = Nobody /\ told = 0
  /\ closed = [k \in CloseKeys |-> Nobody] /\ closings = [k \in CloseKeys |-> 0]
  /\ crashed = FALSE
  /\ libBudget = [faults |-> 0, searches |-> 0, outside |-> 0]

Doing(c, place) == libJob[c].at = place
Turn(c, place)  == libJob' = [libJob EXCEPT ![c].at = place]
LeaveWith(c)    == libJob' = [libJob EXCEPT ![c] = IdleThread]
(* The lock is released, then the answer's generation becomes the server's. *)
AnswerWith(c, n) == libJob' = [libJob EXCEPT ![c] = [IdleThread EXCEPT !.at = "tell", !.seen = n]]
LibFault == /\ libBudget.faults < MaxLibFaults
            /\ libBudget' = [libBudget EXCEPT !.faults = @ + 1]

KeepRegistry == UNCHANGED <<registry, intent, folder, maker, existing, theirs>>
KeepServer   == UNCHANGED <<candidates, active, root, lifecycle, told, closed, closings>>
KeepHistory  == UNCHANGED <<crashed, libBudget>>

-----------------------------------------------------------------------------
(* Creation                                                                 *)

(* Under the lock: a key already in the registry brings its investigation   *)
(* back; an interrupted creation is taken up by its own key only.           *)
CreateLook(c, k, t) ==
  /\ libJob[c] = IdleThread /\ holder = Nobody
  /\ UNCHANGED <<registry, folder, maker, existing, theirs>> /\ KeepServer /\ KeepHistory
  /\ \/ \E e \in Bound(k) :
          /\ e.what = t /\ e.ref \in Managed
          /\ intent' = IF intent # Nobody /\ intent.id = e.id THEN Nobody ELSE intent
          /\ AnswerWith(c, Generation) /\ UNCHANGED holder
     \/ /\ Bound(k) = {} /\ Generation < MaxEntries /\ intent = Nobody
        /\ \E i \in Managed :
             /\ folder[i] = "absent"
             /\ libJob' = [libJob EXCEPT ![c] =
                  [IdleThread EXCEPT !.at = "intent", !.key = k, !.what = t, !.id = i]]
        /\ holder' = c /\ UNCHANGED intent
     \/ /\ Bound(k) = {} /\ Generation < MaxEntries
        /\ intent # Nobody /\ intent.key = k /\ intent.what = t
        /\ libJob' = [libJob EXCEPT ![c] =
             [IdleThread EXCEPT !.at = "folder", !.key = k, !.what = t, !.id = intent.id]]
        /\ holder' = c /\ UNCHANGED intent

(* Fault: the folder is made before the intention is durable.               *)
WriteNoIntent(c) ==
  /\ Doing(c, "intent") /\ Turn(c, "folder")
  /\ UNCHANGED <<registryVars>> /\ KeepServer /\ KeepHistory

WriteIntent(c) ==
  /\ Doing(c, "intent")
  /\ intent' = Entry(libJob[c].id, libJob[c].key, libJob[c].what, libJob[c].id)
  /\ Turn(c, "folder")
  /\ UNCHANGED <<registry, folder, maker, existing, theirs, holder>> /\ KeepServer /\ KeepHistory

(* A folder with a database and a manifest counts as created.               *)
LookFolder(c) ==
  LET i == libJob[c].id IN
  /\ Doing(c, "folder")
  /\ folder' = IF folder[i] = "absent" THEN [folder EXCEPT ![i] = "dir"] ELSE folder
  /\ Turn(c, IF folder[i] \in {"manifest", "whole"} THEN "register" ELSE "bridge")
  /\ UNCHANGED <<registry, intent, maker, existing, theirs, holder>> /\ KeepServer /\ KeepHistory

(* create-workspace refuses a folder that holds any of its files, or whose  *)
(* lifecycle lock is taken.                                                 *)
StartMaker(c) ==
  LET i == libJob[c].id IN
  /\ Doing(c, "bridge") /\ folder[i] = "dir" /\ maker[i] = "none"
  /\ maker' = [maker EXCEPT ![i] = "making"] /\ Turn(c, "wait")
  /\ UNCHANGED <<registry, intent, folder, existing, theirs, holder>> /\ KeepServer /\ KeepHistory

MakerRefuses(c) ==
  LET i == libJob[c].id IN
  /\ Doing(c, "bridge") /\ (folder[i] # "dir" \/ maker[i] # "none")
  /\ Turn(c, IF maker[i] = "none" THEN "occupied" ELSE "busy")
  /\ KeepRegistry /\ UNCHANGED holder /\ KeepServer /\ KeepHistory

CreationRefused(c) ==
  /\ libJob[c].at \in {"occupied", "busy"}
  /\ holder' = Nobody /\ LeaveWith(c)
  /\ KeepRegistry /\ KeepServer /\ KeepHistory

(* The command: the database, the manifest, then the job store and the      *)
(* snapshots; what fails takes its own files away, last first.              *)
After == [dir |-> "base", base |-> "manifest", manifest |-> "whole"]
MakeNext(i) ==
  /\ maker[i] = "making" /\ folder[i] \in DOMAIN After
  /\ folder' = [folder EXCEPT ![i] = After[folder[i]]]
  /\ maker' = IF folder[i] = "manifest" THEN [maker EXCEPT ![i] = "none"] ELSE maker
  /\ UNCHANGED <<registry, intent, existing, theirs, holder, serverSide>> /\ KeepHistory

MakeFails(i) ==
  /\ maker[i] = "making" /\ LibFault
  /\ maker' = [maker EXCEPT ![i] = "undoing"]
  /\ UNCHANGED <<registry, intent, folder, existing, theirs, holder, serverSide, crashed>>

MakeUndo(i) ==
  /\ maker[i] = "undoing"
  /\ CASE folder[i] = "manifest" -> folder' = [folder EXCEPT ![i] = "base"] /\ UNCHANGED maker
       [] folder[i] = "base" -> folder' = [folder EXCEPT ![i] = "dir"] /\ UNCHANGED maker
       [] OTHER -> maker' = [maker EXCEPT ![i] = "none"] /\ UNCHANGED folder
  /\ UNCHANGED <<registry, intent, existing, theirs, holder, serverSide>> /\ KeepHistory

(* The server kills the command after 30 s.                                 *)
CreationTimesOut(c) ==
  /\ Doing(c, "wait") /\ maker[libJob[c].id] # "none" /\ LibFault
  /\ maker' = [maker EXCEPT ![libJob[c].id] = "none"]
  /\ holder' = Nobody /\ LeaveWith(c)
  /\ UNCHANGED <<registry, intent, folder, existing, theirs, crashed>> /\ KeepServer

CreationAnswers(c) ==
  LET i == libJob[c].id IN
  /\ Doing(c, "wait") /\ maker[i] = "none"
  /\ IF folder[i] \in {"manifest", "whole"} THEN Turn(c, "register") /\ UNCHANGED holder
     ELSE LeaveWith(c) /\ holder' = Nobody
  /\ KeepRegistry /\ KeepServer /\ KeepHistory

RegisterManaged(c) ==
  /\ Doing(c, "register") /\ libJob[c].found = Nobody
  /\ registry' = registry \cup
       {Entry(libJob[c].id, libJob[c].key, libJob[c].what, libJob[c].id)}
  /\ Turn(c, "forget")
  /\ UNCHANGED <<intent, folder, maker, existing, theirs, holder>> /\ KeepServer /\ KeepHistory

ClearIntent(c) ==
  /\ Doing(c, "forget") /\ intent' = Nobody /\ holder' = Nobody
  /\ AnswerWith(c, Generation)
  /\ UNCHANGED <<registry, folder, maker, existing, theirs>> /\ KeepServer /\ KeepHistory

(* The answer, or a listing: the server keeps the generation it was told.   *)
Tell(c) ==
  /\ Doing(c, "tell") /\ told' = libJob[c].seen /\ LeaveWith(c)
  /\ UNCHANGED <<registryVars, candidates, active, root, lifecycle, closed, closings>>
  /\ KeepHistory

List(c) ==
  /\ libJob[c] = IdleThread /\ holder = Nobody /\ told # Generation
  /\ AnswerWith(c, Generation)
  /\ UNCHANGED registryVars /\ KeepServer /\ KeepHistory

-----------------------------------------------------------------------------
(* Discovery and adoption of existing folders                               *)

(* Without the lock: every folder is inspected ...                          *)
DiscoverLook(c) ==
  /\ libJob[c] = IdleThread /\ libBudget.searches < MaxDiscoveries
  /\ libBudget' = [libBudget EXCEPT !.searches = @ + 1]
  /\ libJob' = [libJob EXCEPT ![c] =
       [IdleThread EXCEPT !.at = "swap", !.seen = Generation,
          !.found = [n \in Folders |->
             [batch |-> libBudget'.searches, version |-> existing[n].version,
              manifest |-> existing[n].manifest,
              known |-> \E e \in registry : e.ref = n /\ e.id = OwnId[n]]]]]
  /\ UNCHANGED <<registryVars, crashed>> /\ KeepServer

(* ... and the whole cache is replaced.                                     *)
DiscoverSwap(c) ==
  /\ Doing(c, "swap") /\ candidates' = libJob[c].found
  /\ AnswerWith(c, libJob[c].seen)
  /\ UNCHANGED <<registryVars, active, root, lifecycle, told, closed, closings>>
  /\ KeepHistory

(* A copy of the candidate is taken before the lock.                        *)
AdoptTake(c, n, k, g) ==
  /\ libJob[c] = IdleThread /\ candidates[n] # Nobody
  /\ libJob' = [libJob EXCEPT ![c] =
       [at |-> "adopt", key |-> k, what |-> <<n, candidates[n].batch, g>>, id |-> n,
        seen |-> g, found |-> candidates[n]]]
  /\ UNCHANGED registryVars /\ KeepServer /\ KeepHistory

Unchanged(n, cand) ==
  existing[n] = [version |-> cand.version, manifest |-> cand.manifest]
(* A manifest was added since, by a first attempt that was interrupted.     *)
Recovers(n, cand) ==
  /\ cand.manifest = "none" /\ existing[n].manifest # "none"
  /\ existing[n].version = cand.version

Adoptable(c) ==
  LET n == libJob[c].id IN
  /\ libJob[c].seen = Generation /\ ~libJob[c].found.known
  /\ Unchanged(n, libJob[c].found) \/ Recovers(n, libJob[c].found)
  /\ \A e \in registry : e.id # OwnId[n] /\ e.ref # n
  /\ Generation < MaxEntries

AdoptLook(c) ==
  LET bound == Bound(libJob[c].key) IN
  /\ Doing(c, "adopt") /\ holder = Nobody
  /\ CASE bound # {} /\ (\A e \in bound : e.what = libJob[c].what) ->
            AnswerWith(c, Generation) /\ UNCHANGED holder
       [] bound = {} /\ Adoptable(c) ->
            /\ Turn(c, IF existing[libJob[c].id].manifest = "none" THEN "describe" ELSE "register")
            /\ holder' = c
       [] OTHER -> LeaveWith(c) /\ UNCHANGED holder
  /\ KeepRegistry /\ KeepServer /\ KeepHistory

(* A manifest written by others meanwhile is not replaced.                  *)
WriteManifest(c) ==
  LET n == libJob[c].id IN
  /\ Doing(c, "describe")
  /\ IF existing[n].manifest = "none"
     THEN /\ existing' = [existing EXCEPT ![n].manifest = "ours"]
          /\ Turn(c, "register") /\ UNCHANGED holder
     ELSE LeaveWith(c) /\ holder' = Nobody /\ UNCHANGED existing
  /\ UNCHANGED <<registry, intent, folder, maker, theirs>> /\ KeepServer /\ KeepHistory

RegisterExisting(c) ==
  LET n == libJob[c].id IN
  /\ Doing(c, "register") /\ libJob[c].found # Nobody
  /\ registry' = registry \cup {Entry(OwnId[n], libJob[c].key, libJob[c].what, n)}
  /\ holder' = Nobody /\ AnswerWith(c, Generation + 1)
  /\ UNCHANGED <<intent, folder, maker, existing, theirs>> /\ KeepServer /\ KeepHistory

-----------------------------------------------------------------------------
(* Opening and closing                                                      *)
Ready(e) ==
  IF e.ref \in Managed THEN folder[e.ref] \in {"manifest", "whole"}
  ELSE existing[e.ref].manifest # "none"

(* Under both locks; an investigation already active is only confirmed.     *)
OpenLook(c, e, g) ==
  /\ libJob[c] = IdleThread /\ lifecycle = Nobody /\ holder = Nobody
  /\ active \in {Nobody, e.id} /\ g = Generation /\ Ready(e)
  /\ IF active = Nobody
     THEN /\ lifecycle' = c /\ UNCHANGED told
          /\ libJob' = [libJob EXCEPT ![c] =
               [IdleThread EXCEPT !.at = "export", !.id = e, !.seen = g]]
     ELSE UNCHANGED <<lifecycle, libJob>> /\ told' = g
  /\ UNCHANGED <<registryVars, candidates, active, root, closed, closings>> /\ KeepHistory

(* The export needs the job store, which the manifest does not vouch for.   *)
Exportable(e) == e.ref \in Managed => folder[e.ref] = "whole"
OpenExport(c) ==
  /\ Doing(c, "export")
  /\ IF Exportable(libJob[c].id) THEN Turn(c, "root") /\ UNCHANGED lifecycle
     ELSE LeaveWith(c) /\ lifecycle' = Nobody
  /\ UNCHANGED <<registryVars, candidates, active, root, told, closed, closings>>
  /\ KeepHistory

OpenRoot(c) ==
  /\ Doing(c, "root") /\ root' = libJob[c].id.id /\ Turn(c, "identity")
  /\ UNCHANGED <<registryVars, candidates, active, lifecycle, told, closed, closings>>
  /\ KeepHistory

OpenActive(c) ==
  /\ Doing(c, "identity") /\ active' = libJob[c].id.id
  /\ told' = libJob[c].seen /\ lifecycle' = Nobody /\ LeaveWith(c)
  /\ UNCHANGED <<registryVars, candidates, root, closed, closings>> /\ KeepHistory

(* A key seen before answers what it answered; otherwise the investigation  *)
(* must be the active one and the generation the server's.                  *)
CloseLook(c, id, g, k) ==
  /\ libJob[c] = IdleThread /\ lifecycle = Nobody /\ closed[k] = Nobody
  /\ id # Nobody /\ active = id /\ g = told
  /\ lifecycle' = c
  /\ libJob' = [libJob EXCEPT ![c] =
       [IdleThread EXCEPT !.at = "cancel", !.key = k, !.id = id, !.seen = g]]
  /\ UNCHANGED <<registryVars, candidates, active, root, told, closed, closings>>
  /\ KeepHistory

(* The turns of the agent ended; the identity goes first, then the root.    *)
CloseActive(c) ==
  /\ Doing(c, "cancel") /\ active' = Nobody /\ Turn(c, "inactive")
  /\ UNCHANGED <<registryVars, candidates, root, lifecycle, told, closed, closings>>
  /\ KeepHistory

CloseRoot(c) ==
  LET k == libJob[c].key IN
  /\ Doing(c, "inactive") /\ root' = Nobody
  /\ closed' = [closed EXCEPT ![k] = <<libJob[c].id, libJob[c].seen>>]
  /\ closings' = [closings EXCEPT ![k] = @ + 1]
  /\ lifecycle' = Nobody /\ LeaveWith(c)
  /\ UNCHANGED <<registryVars, candidates, active, told>> /\ KeepHistory

-----------------------------------------------------------------------------
(* Failures and others                                                      *)

(* A write is refused, a listing or an export fails, or the turns of the    *)
(* agent do not end: the request fails and lets go of its lock.             *)
CallFails(c) ==
  /\ libJob[c].at \in {"intent", "folder", "register", "forget", "describe", "export", "cancel"}
  /\ LibFault /\ LeaveWith(c)
  /\ holder' = IF holder = c THEN Nobody ELSE holder
  /\ lifecycle' = IF lifecycle = c THEN Nobody ELSE lifecycle
  /\ KeepRegistry /\ UNCHANGED <<candidates, active, root, told, closed, closings, crashed>>

(* The server dies and is started again; a command it ran goes on.          *)
ServerDies ==
  /\ LibFault /\ crashed' = TRUE
  /\ libJob' = [c \in Threads |-> IdleThread]
  /\ holder' = Nobody /\ lifecycle' = Nobody
  /\ candidates' = Unoffered
  /\ active' = Nobody /\ root' = Nobody /\ told' = 0
  /\ closed' = [k \in CloseKeys |-> Nobody] /\ closings' = [k \in CloseKeys |-> 0]
  /\ KeepRegistry

(* An existing folder is changed by its owner.                              *)
ChangeFolder(n) ==
  /\ libBudget.outside < MaxOutside
  /\ libBudget' = [libBudget EXCEPT !.outside = @ + 1]
  /\ \/ existing' = [existing EXCEPT ![n].version = @ + 1] /\ UNCHANGED theirs
     \/ /\ existing[n].manifest = "none"
        /\ existing' = [existing EXCEPT ![n].manifest = "theirs"]
        /\ theirs' = theirs \cup {n}
  /\ UNCHANGED <<registry, intent, folder, maker, holder, serverSide, crashed>>

Creates(c) ==
  \/ \E k \in Keys, t \in Titles : CreateLook(c, k, t)
  \/ WriteIntent(c) \/ LookFolder(c) \/ StartMaker(c) \/ MakerRefuses(c)
  \/ CreationRefused(c) \/ CreationTimesOut(c) \/ CreationAnswers(c)
  \/ RegisterManaged(c) \/ ClearIntent(c) \/ Tell(c) \/ List(c)

Adopts(c) ==
  \/ DiscoverLook(c) \/ DiscoverSwap(c)
  \/ \E n \in Folders, k \in Keys, g \in {Generation, told} : AdoptTake(c, n, k, g)
  \/ AdoptLook(c) \/ WriteManifest(c) \/ RegisterExisting(c)

OpensCloses(c) ==
  \/ \E e \in registry, g \in {Generation, told} : OpenLook(c, e, g)
  \/ OpenExport(c) \/ OpenRoot(c) \/ OpenActive(c)
  \/ \E k \in CloseKeys : CloseLook(c, active, told, k)
  \/ CloseActive(c) \/ CloseRoot(c)

LibraryNext ==
  \/ \E c \in Threads : Creates(c) \/ Adopts(c) \/ OpensCloses(c) \/ CallFails(c)
  \/ \E i \in Managed : MakeNext(i) \/ MakeFails(i) \/ MakeUndo(i)
  \/ ServerDies
  \/ \E n \in Folders : ChangeFolder(n)

LibrarySpec == LibraryInit /\ [][LibraryNext]_libraryVars

-----------------------------------------------------------------------------
Ids        == Managed \cup {OwnId[n] : n \in Folders}
Whats      == Titles \cup (Folders \X Nat \X Nat)
Entries    == [id : Ids, key : Keys, what : Whats, ref : Managed \cup Folders]
Manifests  == {"none", "ours", "theirs"}
Candidates == [batch : Nat, version : Nat, manifest : Manifests, known : BOOLEAN]

ASSUME NobodyAssumption == Nobody \notin Entries /\ Nobody \notin Ids \X Nat

(* Where a thread holds the lock of the registry, and the lifecycle lock.   *)
CreatePlaces == {"intent", "folder", "bridge", "wait", "occupied", "busy", "forget"}
LockPlaces   == CreatePlaces \cup {"describe", "register"}
DeskPlaces   == {"export", "root", "identity", "cancel", "inactive"}
Jobs == [at : LockPlaces \cup DeskPlaces \cup {"out", "tell", "swap", "adopt"},
         key : {Nobody} \cup Keys \cup CloseKeys, what : {Nobody} \cup Whats,
         id : {Nobody} \cup Ids \cup Folders \cup Entries, seen : Nat,
         found : {Nobody} \cup [Folders -> Candidates] \cup Candidates]

LibraryTypeOK ==
  /\ registry \subseteq Entries /\ IsFiniteSet(registry) /\ intent \in {Nobody} \cup Entries
  /\ folder \in [Managed -> Progress] /\ maker \in [Managed -> {"none", "making", "undoing"}]
  /\ existing \in [Folders -> [version : 0..libBudget.outside, manifest : Manifests]]
  /\ {holder, lifecycle} \subseteq Threads \cup {Nobody} /\ theirs \subseteq Folders
  /\ candidates \in [Folders -> {Nobody} \cup Candidates] /\ libJob \in [Threads -> Jobs]
  /\ {active, root} \subseteq {Nobody} \cup Ids /\ told \in Nat /\ crashed \in BOOLEAN
  /\ closed \in [CloseKeys -> {Nobody} \cup (Ids \X Nat)] /\ closings \in [CloseKeys -> 0..1]
  /\ libBudget \in [faults : 0..MaxLibFaults, searches : 0..MaxDiscoveries,
                    outside : 0..MaxOutside]

(* An investigation, a folder and a key are registered once; nobody is told *)
(* a generation that the registry has not reached.                          *)
RegisteredOnce ==
  /\ Generation <= MaxEntries
  /\ \A e, f \in registry : e.id = f.id \/ e.key = f.key \/ e.ref = f.ref => e = f
  /\ told <= Generation /\ \A c \in Threads : libJob[c].seen <= Generation

(* No folder is left behind that neither the registry nor the intention to  *)
(* be taken up knows. A key never gets a second folder of its own: what is  *)
(* registered under the key of an intention is that intention's folder, or  *)
(* an existing one that was adopted with the same key.                      *)
NoStrayFolder ==
  /\ \A i \in Managed : maker[i] # "none" => folder[i] # "absent"
  /\ \A i \in Managed : folder[i] # "absent" =>
       (\E e \in registry : e.ref = i) \/ (intent # Nobody /\ intent.id = i)
  /\ intent # Nobody =>
       /\ intent.id \in Managed /\ intent.ref = intent.id /\ intent.key \in Keys
       /\ \A e \in registry : e.id = intent.id => e.key = intent.key
       /\ \A e \in registry : e.key = intent.key => e.id = intent.id \/ e.ref \in Folders

(* What is registered is a folder made for its creation or an existing one  *)
(* with its own identifier and a manifest; while the server lives, database *)
(* and manifest of a managed one are kept: no command is left running in it *)
(* that could take them away.                                               *)
RegisteredIsThere ==
  /\ \A e \in registry :
       \/ e.ref \in Managed /\ e.id = e.ref /\ e.key \in Keys /\ folder[e.ref] # "absent"
       \/ /\ e.ref \in Folders /\ e.id = OwnId[e.ref] /\ e.key \in Keys
          /\ existing[e.ref].manifest # "none"
  /\ ~crashed => \A e \in registry : e.ref \in Managed => folder[e.ref] \in {"manifest", "whole"}
  /\ ~crashed => \A i \in Managed : maker[i] # "none" =>
       \E c \in Threads : Doing(c, "wait") /\ libJob[c].id = i

(* Adoption never replaces a manifest that others wrote.                    *)
ManifestKept == \A n \in theirs : existing[n].manifest = "theirs"

(* The root of the requests is the active investigation's, which is         *)
(* registered; a key closes once in the life of a server.                   *)
ActiveIsRoot ==
  /\ active # Nobody => root = active /\ \E e \in registry : e.id = active
  /\ lifecycle = Nobody => root = active
  /\ \A k \in CloseKeys : closings[k] = 1 => closed[k] # Nobody

(* Each lock is held at its places and only there.                          *)
LocksHeld ==
  \A c \in Threads : /\ holder = c <=> libJob[c].at \in LockPlaces
                     /\ lifecycle = c <=> libJob[c].at \in DeskPlaces

(* What a creation, an adoption, an opening and a closing know at each place*)
(* still holds when they act upon it.                                       *)
Unregistered(key, id, ref) ==
  Generation < MaxEntries /\ \A e \in registry : e.key # key /\ e.id # id /\ e.ref # ref

CreationSound(job) ==
  /\ job.id \in Managed /\ job.key \in Keys /\ job.what \in Whats /\ job.found = Nobody
  /\ IF job.at = "intent" THEN intent = Nobody /\ folder[job.id] = "absent"
     ELSE intent = Entry(job.id, job.key, job.what, job.id)
  /\ IF job.at = "forget" THEN \E e \in registry : e.ref = job.id
     ELSE Unregistered(job.key, job.id, job.id)
  /\ job.at \notin {"intent", "folder"} => folder[job.id] # "absent"
  /\ ~crashed /\ job.at = "register" => folder[job.id] \in {"manifest", "whole"}

AdoptionSound(job) ==
  /\ job.id \in Folders /\ job.key \in Keys /\ job.what \in Whats /\ job.found # Nobody
  /\ job.at # "adopt" => Unregistered(job.key, OwnId[job.id], job.id)
  /\ job.at = "register" => existing[job.id].manifest # "none"

OpeningSound(job) ==
  /\ job.id \in registry /\ active = Nobody
  /\ root = IF job.at = "identity" THEN job.id.id ELSE Nobody

ClosingSound(job) ==
  /\ job.key \in CloseKeys /\ closed[job.key] = Nobody /\ job.id \in Ids /\ root = job.id
  /\ active = IF job.at = "cancel" THEN job.id ELSE Nobody

OfCreation(job) == job.at \in CreatePlaces \/ (job.at = "register" /\ job.found = Nobody)
OfAdoption(job) == job.at \in {"adopt", "describe"} \/ (job.at = "register" /\ job.found # Nobody)

RequestsSound ==
  \A c \in Threads : LET job == libJob[c] IN
    /\ OfCreation(job) => CreationSound(job)
    /\ OfAdoption(job) => AdoptionSound(job)
    /\ job.at = "swap" => job.found \in [Folders -> Candidates]
    /\ job.at \in {"export", "root", "identity"} => OpeningSound(job)
    /\ job.at \in {"cancel", "inactive"} => ClosingSound(job)

(* The library: its registry, folders, manifests and the active             *)
(* investigation agree over crashes, time-outs and outside changes.         *)
LibraryIInv ==
  /\ LibraryTypeOK /\ RegisteredOnce /\ NoStrayFolder /\ RegisteredIsThere
  /\ ManifestKept /\ ActiveIsRoot /\ LocksHeld /\ RequestsSound

(* A creation taken up with its key is not refused because of what the      *)
(* interrupted one left in its own folder.                                  *)
CreationResumes == \A c \in Threads : ~Doing(c, "occupied")

(* Not kept: the key of an intention stays free for the creation that will   *)
(* take it up. An existing folder may be adopted with it meanwhile; the     *)
(* creation is then refused for good, and every other one with it.          *)
IntentionFree ==
  intent # Nobody => \A e \in registry : e.key = intent.key => e.id = intent.id
=============================================================================
