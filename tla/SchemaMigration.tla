--------------------------- MODULE SchemaMigration ---------------------------
(* The database of an investigation (database.c, schema.c) as the projects   *)
(* and sessions over it use it (investigation_project.c,                     *)
(* investigation_session.c): a project is created whole or taken away, an    *)
(* old base is brought to the current version one transaction at a time, and *)
(* readers accept the current version only.                                  *)
EXTENDS Integers, FiniteSets

CONSTANTS
  Openers,     \* sessions that open the investigation
  Creators,    \* calls of investigation_project_create for its folder
  Starts,      \* versions of the base at the start; 0: no project yet
  Together,    \* may two sessions migrate at once?
  MaxBaseFaults \* kills, busy or full disks

Current    == 20
StepsTo(k) == 1..k
ASSUME MigrationAssumption ==
  /\ Starts \subseteq 0..Current + 1 /\ Together \in BOOLEAN /\ MaxBaseFaults \in Nat

VARIABLES
  project,    \* what there is of the folder: its directories, the file
  base,       \* metadata.schema_version (0: none), migrations applied, and
              \* whether schema_current.sql was
  home,       \* is the recorded root the folder itself?
  session,    \* the sessions, with the version they believe the base has
  creator,    \* the creators
  summit,     \* highest version the base ever had (history)
  lost,       \* a process was killed (history)
  recreated,  \* a session's open created a file that was gone (history)
  baseFaults

migrationVars == <<project, base, home, session, creator, summit, lost, recreated, baseFaults>>

NoFolder  == [root |-> FALSE, inner |-> FALSE, file |-> FALSE]
Whole     == [root |-> TRUE, inner |-> TRUE, file |-> TRUE]
EmptyBase == [version |-> 0, steps |-> {}, extended |-> FALSE]
Shut      == [at |-> "shut", version |-> 0]

MigrationInit ==
  /\ \E v \in Starts :
       /\ project = IF v = 0 THEN NoFolder ELSE Whole
       /\ base = [version |-> v, steps |-> StepsTo(v), extended |-> v >= Current]
       /\ summit = v
  /\ home \in (IF base.version = 0 THEN {TRUE} ELSE BOOLEAN)
  /\ session = [s \in Openers |-> Shut] /\ creator = [p \in Creators |-> "out"]
  /\ lost = FALSE /\ recreated = FALSE /\ baseFaults = 0

BaseFault == baseFaults < MaxBaseFaults /\ baseFaults' = baseFaults + 1
InState(s, place) == session[s].at = place
MoveTo(s, place)  == session' = [session EXCEPT ![s].at = place]
Refuse(s)         == session' = [session EXCEPT ![s] = Shut]

-----------------------------------------------------------------------------
(* Opening an investigation                                                 *)

(* The folder, then the file, must be there ...                             *)
LookForBase(s) ==
  /\ session[s] = Shut /\ project.root /\ project.file
  /\ Together \/ \A t \in Openers : session[t].at \in {"shut", "reading"}
  /\ MoveTo(s, "found")
  /\ UNCHANGED <<project, base, home, creator, summit, lost, recreated, baseFaults>>

(* ... but database_open creates a file that has gone since.                *)
OpenBase(s) ==
  /\ InState(s, "found")
  /\ IF project.inner
     THEN /\ MoveTo(s, "version") /\ project' = [project EXCEPT !.file = TRUE]
          /\ recreated' = (recreated \/ ~project.file)
     ELSE Refuse(s) /\ UNCHANGED <<project, recreated>>
  /\ UNCHANGED <<base, home, creator, summit, lost, baseFaults>>

(* The version is read outside any transaction; a missing or newer one is   *)
(* refused.                                                                 *)
ReadVersion(s) ==
  /\ InState(s, "version")
  /\ IF base.version \in 1..Current
     THEN session' = [session EXCEPT ![s] = [at |-> "migrate", version |-> base.version]]
     ELSE Refuse(s)
  /\ UNCHANGED <<project, base, home, creator, summit, lost, recreated, baseFaults>>

(* Scripts that may run again on a base that has them: written with IF NOT  *)
(* EXISTS or rebuilding a table from itself, or looked up first.            *)
Guarded    == {6, 7, 8, 9, 10, 11, 15}
LookedUp   == {17, 18}
Repeatable == Guarded \cup LookedUp \cup (IF 18 \in base.steps THEN {} ELSE {16})
Applies(k) == k \notin base.steps \/ k \in Repeatable

(* Fault: the version is written when the last migration is done.           *)
StampAtEnd(k) == IF k = Current THEN k ELSE base.version
(* The version the transaction of a migration leaves in the metadata.       *)
Stamp(k) == k

(* What the transaction of a migration leaves: the script, then the version. *)
Migrated(k) == [base EXCEPT !.steps = @ \cup {k}, !.version = Stamp(k)]

(* One migration: script and version in a transaction; a script the base    *)
(* refuses is rolled back.                                                  *)
Migrate(s) ==
  LET k == session[s].version + 1 IN
  /\ InState(s, "migrate") /\ session[s].version < Current
  /\ IF Applies(k)
     THEN /\ base' = Migrated(k)
          /\ session' = [session EXCEPT ![s].version = k]
     ELSE MoveTo(s, "stuck") /\ UNCHANGED base
  /\ summit' = IF base'.version > summit THEN base'.version ELSE summit
  /\ UNCHANGED <<project, home, creator, lost, recreated, baseFaults>>

(* The opening fails and the connection is closed.                          *)
MigrationFails(s) ==
  /\ session[s].at \in {"migrate", "stuck"}
  /\ IF InState(s, "stuck") THEN UNCHANGED baseFaults ELSE BaseFault
  /\ Refuse(s)
  /\ UNCHANGED <<project, base, home, creator, summit, lost, recreated>>

(* schema_current.sql runs at every opening, in a transaction of its own.   *)
EnsureCurrent(s) ==
  /\ InState(s, "migrate") /\ session[s].version = Current
  /\ base' = [base EXCEPT !.extended = TRUE] /\ MoveTo(s, "load")
  /\ UNCHANGED <<project, home, creator, summit, lost, recreated, baseFaults>>

(* The record is loaded; a folder that was moved is refused, migrated.      *)
LoadRecord(s) ==
  /\ InState(s, "load")
  /\ IF home THEN MoveTo(s, "open") ELSE Refuse(s)
  /\ UNCHANGED <<project, base, home, creator, summit, lost, recreated, baseFaults>>

(* The commands of the workspace open read-only, and never migrate.         *)
OpenReadOnly(s) ==
  /\ session[s] = Shut /\ project.file /\ base.version = Current
  /\ MoveTo(s, "reading")
  /\ UNCHANGED <<project, base, home, creator, summit, lost, recreated, baseFaults>>

CloseBase(s) ==
  /\ session[s].at \in {"open", "reading"} /\ Refuse(s)
  /\ UNCHANGED <<project, base, home, creator, summit, lost, recreated, baseFaults>>

KillSession(s) ==
  /\ session[s].at \in {"migrate", "load"} /\ BaseFault /\ lost' = TRUE /\ Refuse(s)
  /\ UNCHANGED <<project, base, home, creator, summit, recreated>>

-----------------------------------------------------------------------------
(* Creating a project                                                       *)
Creating(p, place) == creator[p] = place
Step(p, place)     == creator' = [creator EXCEPT ![p] = place]
KeepBase == UNCHANGED <<base, home, session, summit, recreated>>

(* A path that exists is refused; two calls may both see none.              *)
LookForFolder(p) ==
  /\ Creating(p, "out") /\ ~project.root /\ Step(p, "mkdir")
  /\ KeepBase /\ UNCHANGED <<project, lost, baseFaults>>

(* The second mkdir fails, and has nothing to clean up.                     *)
MakeRoot(p) ==
  /\ Creating(p, "mkdir")
  /\ IF project.root THEN Step(p, "out") /\ UNCHANGED project
     ELSE Step(p, "inner") /\ project' = [project EXCEPT !.root = TRUE]
  /\ KeepBase /\ UNCHANGED <<lost, baseFaults>>

MakeInner(p) ==
  /\ Creating(p, "inner") /\ Step(p, "file")
  /\ project' = [project EXCEPT !.inner = TRUE]
  /\ KeepBase /\ UNCHANGED <<lost, baseFaults>>

(* database_initialize: the connection creates the file, one transaction    *)
(* fills it.                                                                *)
MakeFile(p) ==
  /\ Creating(p, "file") /\ Step(p, "initialize")
  /\ project' = [project EXCEPT !.file = TRUE]
  /\ KeepBase /\ UNCHANGED <<lost, baseFaults>>

Initialize(p) ==
  /\ Creating(p, "initialize") /\ base.version = 0 /\ Step(p, "out")
  /\ base' = [version |-> Current, steps |-> StepsTo(Current), extended |-> TRUE]
  /\ summit' = Current
  /\ UNCHANGED <<project, home, session, lost, recreated, baseFaults>>

CreationFails(p) ==
  /\ creator[p] \in {"inner", "file", "initialize"} /\ BaseFault /\ Step(p, "undo")
  /\ KeepBase /\ UNCHANGED <<project, lost>>

(* What was created goes, last first: the file, then the directories, which *)
(* stay when something was put into them meanwhile.                         *)
RemoveBase(p) ==
  /\ Creating(p, "undo") /\ Step(p, "rmdir")
  /\ project' = [project EXCEPT !.file = FALSE]
  /\ KeepBase /\ UNCHANGED <<lost, baseFaults>>

RemoveFolders(p) ==
  /\ Creating(p, "rmdir") /\ Step(p, "out")
  /\ project' = IF project.file THEN project ELSE NoFolder
  /\ KeepBase /\ UNCHANGED <<lost, baseFaults>>

KillCreator(p) ==
  /\ creator[p] # "out" /\ BaseFault /\ lost' = TRUE /\ Step(p, "out")
  /\ KeepBase /\ UNCHANGED project

-----------------------------------------------------------------------------
Opens(s) ==
  \/ LookForBase(s) \/ OpenBase(s) \/ ReadVersion(s) \/ Migrate(s) \/ MigrationFails(s)
  \/ EnsureCurrent(s) \/ LoadRecord(s)
  \/ OpenReadOnly(s) \/ CloseBase(s) \/ KillSession(s)

CreatesProject(p) ==
  \/ LookForFolder(p) \/ MakeRoot(p) \/ MakeInner(p) \/ MakeFile(p) \/ Initialize(p)
  \/ CreationFails(p) \/ RemoveBase(p) \/ RemoveFolders(p) \/ KillCreator(p)

MigrationNext ==
  (\E s \in Openers : Opens(s)) \/ (\E p \in Creators : CreatesProject(p))
MigrationSpec == MigrationInit /\ [][MigrationNext]_migrationVars

-----------------------------------------------------------------------------
Places    == {"shut", "found", "version", "migrate", "stuck", "load", "open", "reading"}
MakerSteps == {"out", "mkdir", "inner", "file", "initialize", "undo", "rmdir"}

BaseTypeOK ==
  /\ project \in [root : BOOLEAN, inner : BOOLEAN, file : BOOLEAN]
  /\ base \in [version : 0..Current + 1, steps : SUBSET (1..Current + 1), extended : BOOLEAN]
  /\ session \in [Openers -> [at : Places, version : 0..Current]]
  /\ creator \in [Creators -> MakerSteps]
  /\ lost \in BOOLEAN /\ recreated \in BOOLEAN /\ baseFaults \in 0..MaxBaseFaults

(* The version never promises a migration that was not made, and the file   *)
(* is never ahead of its directories.                                       *)
StampBacked ==
  /\ StepsTo(base.version) \subseteq base.steps
  /\ base.version # 0 => project = Whole
  /\ project.file => project.inner

(* A version once reached is kept.                                          *)
VersionKept == base.version = summit

(* Wherever a migration was interrupted, the next one is not refused by     *)
(* what it left: an old base is never locked out.                           *)
NeverStuck == \A s \in Openers : ~InState(s, "stuck")

(* An open investigation has the current schema whole.                      *)
OpenedCurrent ==
  \A s \in Openers : session[s].at \in {"load", "open"}
    => base.version = Current /\ base.extended /\ base.steps = StepsTo(Current)

(* A base of a newer program is left as it is.                              *)
NewerUntouched == base.version > Current => base.steps = StepsTo(base.version)

(* A failed creation leaves nothing, short of a kill or of a session that   *)
(* opened what was being removed; it never takes another's base away.       *)
FailureLeavesNothing ==
  /\ project.root /\ base.version = 0 /\ ~lost /\ ~recreated
       => \E p \in Creators : creator[p] \notin {"out", "mkdir"}
  /\ \A p, q \in Creators :
       p # q => creator[p] \in {"out", "mkdir"} \/ creator[q] \in {"out", "mkdir"}

(* A session past the reading of the version has behind it every migration  *)
(* it counts as done, and a base the program knows.                         *)
SessionBacked ==
  \A s \in Openers :
    /\ session[s].at \in {"migrate", "stuck", "load", "open"} => base.version \in 1..Current
    /\ session[s].at \in {"migrate", "stuck"} =>
         session[s].version # 0 /\ StepsTo(session[s].version) \subseteq base.steps

(* The creator that made the folder has it, and what it has made in it,     *)
(* until its base is initialized or the folder is gone again.               *)
CreatorHolds ==
  \A p \in Creators : creator[p] \notin {"out", "mkdir"} =>
    /\ base.version = 0 /\ project.root
    /\ Creating(p, "file") => project.inner
    /\ Creating(p, "initialize") => project = Whole
    /\ Creating(p, "rmdir") /\ project.file => recreated

(* What holds however many sessions migrate at once.                        *)
BaseIInv ==
  /\ BaseTypeOK /\ StampBacked /\ NewerUntouched /\ FailureLeavesNothing
  /\ SessionBacked /\ CreatorHolds

(* Sessions migrate one after the other: then the one that does knows the   *)
(* version the base has, and nothing beyond it was made.                    *)
OneMigrates ==
  /\ base.steps = StepsTo(base.version)
  /\ \A s \in Openers :
       /\ session[s].at \in {"migrate", "stuck"} => session[s].version = base.version
       /\ \A t \in Openers : {session[s].at, session[t].at} \cap {"shut", "reading"} = {} => s = t

(* The inductive invariant of the base of an investigation, with sessions   *)
(* that migrate one after the other.                                        *)
MigrationIInv ==
  BaseIInv /\ OneMigrates /\ VersionKept /\ NeverStuck /\ OpenedCurrent
=============================================================================
