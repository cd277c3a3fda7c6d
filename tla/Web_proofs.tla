----------------------------- MODULE Web_proofs -----------------------------
(* The safety of what an investigation is made of, for any number of        *)
(* sessions, processes and faults.                                          *)
(*                                                                          *)
(* The base: what its version promises however many sessions migrate at     *)
(* once (BaseIInv), and the whole invariant (MigrationIInv) when they       *)
(* migrate one after the other.                                             *)
(*                                                                          *)
(* The campaigns of assisted research: whom they contact, and when, however *)
(* many processes run the campaign of one key (ContactIInv), and what they  *)
(* publish when they run one after the other (ResearchIInv).                *)
(*                                                                          *)
(* The changes of the code: decided, reviewed, tested and applied as their   *)
(* records say, over deaths and people in the repository (ChangeIInv).      *)
(*                                                                          *)
(* The toolbox of the agent: nothing enters it but through its two gates,   *)
(* whoever writes over whom (ToolboxIInv).                                  *)
(*                                                                          *)
(* The library of investigations: registry, intention, folders, manifests   *)
(* and the active investigation agree (LibraryIInv).                        *)
EXTENDS SchemaMigration, ResearchCampaign, CodeChange, ToolProvisioning, WebLibrary,
        SequenceTheorems, FiniteSetTheorems, TLAPS

SessionRows == [at : Places, version : 0..Current]
Bases    == [version : 0..Current + 1, steps : SUBSET (1..Current + 1), extended : BOOLEAN]
Projects == [root : BOOLEAN, inner : BOOLEAN, file : BOOLEAN]

(* Session s is at a and believes the base has version v.                   *)
Stands(s, a, v) ==
  /\ session' \in [Openers -> SessionRows]
  /\ session'[s].at = a /\ session'[s].version = v
  /\ \A t \in Openers \ {s} : session'[t] = session[t]

(* The types of the base and of who works on it.                            *)
LEMMA BaseTypes ==
  ASSUME BaseTypeOK
  PROVE  /\ project \in Projects /\ base \in Bases
         /\ session \in [Openers -> SessionRows] /\ creator \in [Creators -> MakerSteps]
         /\ lost \in BOOLEAN /\ recreated \in BOOLEAN /\ baseFaults \in 0..MaxBaseFaults
  BY DEF BaseTypeOK, SessionRows, Bases, Projects

(* A session that moves keeps what it believes.                             *)
LEMMA MoveStands ==
  ASSUME BaseTypeOK, NEW s \in Openers, NEW a \in Places, MoveTo(s, a)
  PROVE  Stands(s, a, session[s].version)
  <1> DEFINE row == [session[s] EXCEPT !.at = a]
  <1>1. session \in [Openers -> SessionRows] /\ session[s] \in SessionRows
    BY BaseTypes
  <1>2. row \in SessionRows /\ row.at = a /\ row.version = session[s].version
    BY <1>1 DEF SessionRows
  <1>3. session' = [session EXCEPT ![s] = row]
    BY DEF MoveTo
  <1> QED
    BY <1>1, <1>2, <1>3 DEF Stands

(* A session that is given a whole new row, a refusal among them.           *)
LEMMA RowStands ==
  ASSUME BaseTypeOK, NEW s \in Openers, NEW a \in Places, NEW v \in 0..Current,
         session' = [session EXCEPT ![s] = [at |-> a, version |-> v]]
  PROVE  Stands(s, a, v)
  <1> DEFINE row == [at |-> a, version |-> v]
  <1>1. session \in [Openers -> SessionRows]
    BY BaseTypes
  <1>2. row \in SessionRows /\ row.at = a /\ row.version = v
    BY DEF SessionRows
  <1> QED
    BY <1>1, <1>2 DEF Stands

(* A session that is refused leaves.                                        *)
LEMMA RefuseStands ==
  ASSUME BaseTypeOK, NEW s \in Openers, Refuse(s)
  PROVE  Stands(s, "shut", 0)
  <1>1. "shut" \in Places /\ 0 \in 0..Current
    BY DEF Places, Current
  <1> QED
    BY <1>1, RowStands DEF Refuse, Shut

(* A session that moves with a version it has read.                         *)
LEMMA VersionStands ==
  ASSUME BaseTypeOK, NEW s \in Openers, NEW k \in 0..Current,
         session' = [session EXCEPT ![s].version = k]
  PROVE  Stands(s, session[s].at, k)
  <1> DEFINE row == [session[s] EXCEPT !.version = k]
  <1>1. session \in [Openers -> SessionRows] /\ session[s] \in SessionRows
    BY BaseTypes
  <1>2. row \in SessionRows /\ row.at = session[s].at /\ row.version = k
    BY <1>1 DEF SessionRows
  <1> QED
    BY <1>1, <1>2 DEF Stands

-----------------------------------------------------------------------------
(* The steps of a session                                                   *)

(* Where session s may stand, on a base and a project that stay.            *)
MayStand(s, a, v) ==
  /\ a \in Places \ {"stuck"} /\ v \in 0..Current
  /\ a \in {"migrate", "load", "open"} => base.version \in 1..Current
  /\ a = "migrate" => v # 0 /\ v = base.version
  /\ a \in {"load", "open"} => session[s].at \in {"load", "open"}
  /\ session[s].at \in {"shut", "reading"} =>
       a \in {"shut", "reading"}
         \/ Together \/ \A t \in Openers : session[t].at \in {"shut", "reading"}

(* The steps that read: what a session does to its own row only.            *)
Reads(s) ==
  \/ LookForBase(s) \/ ReadVersion(s) \/ MigrationFails(s) \/ LoadRecord(s)
  \/ OpenReadOnly(s) \/ CloseBase(s) \/ KillSession(s)

(* A reading of the version decides where the session goes next.            *)
LEMMA ReadsStand ==
  ASSUME BaseIInv, MigrationAssumption, NEW s \in Openers, Reads(s)
  PROVE  /\ UNCHANGED <<project, base, home, creator, summit, recreated>>
         /\ lost' \in BOOLEAN /\ (lost => lost') /\ baseFaults' \in 0..MaxBaseFaults
         /\ \E a \in Places, v \in 0..Current : Stands(s, a, v) /\ MayStand(s, a, v)
  <1> USE DEF Places, Current
  <1>1. /\ BaseTypeOK /\ session[s] \in SessionRows /\ base \in Bases
        /\ baseFaults \in 0..MaxBaseFaults /\ MaxBaseFaults \in Nat /\ lost \in BOOLEAN
    BY BaseTypes DEF BaseIInv, MigrationAssumption
  <1>2. session[s].at \in Places /\ session[s].version \in 0..Current
    BY <1>1 DEF SessionRows
  <1>3. BaseFault => baseFaults' \in 0..MaxBaseFaults
    BY <1>1 DEF BaseFault
  <1>4. MayStand(s, "shut", 0)
    BY DEF MayStand
  <1>5. Refuse(s) => \E a \in Places, v \in 0..Current : Stands(s, a, v) /\ MayStand(s, a, v)
    BY <1>1, <1>4, RefuseStands
  <1>6. CASE LookForBase(s)
    <2>1. Stands(s, "found", session[s].version)
      BY <1>1, <1>6, MoveStands DEF LookForBase
    <2>2. MayStand(s, "found", session[s].version)
      BY <1>2, <1>6 DEF LookForBase, MayStand
    <2> QED
      BY <1>1, <1>2, <1>6, <2>1, <2>2 DEF LookForBase
  <1>7. CASE ReadVersion(s)
    <2>1. CASE base.version \in 1..Current
      <3>1. Stands(s, "migrate", base.version)
        BY <1>1, <1>7, <2>1, RowStands DEF ReadVersion
      <3>2. MayStand(s, "migrate", base.version)
        BY <1>2, <1>7, <2>1 DEF ReadVersion, MayStand, InState
      <3> QED
        BY <1>1, <1>7, <2>1, <3>1, <3>2 DEF ReadVersion
    <2> QED
      BY <1>1, <1>5, <1>7, <2>1 DEF ReadVersion
  <1>8. CASE MigrationFails(s)
    BY <1>1, <1>3, <1>5, <1>8 DEF MigrationFails
  <1>9. CASE LoadRecord(s)
    <2>1. CASE home
      <3>1. Stands(s, "open", session[s].version)
        BY <1>1, <1>9, <2>1, MoveStands DEF LoadRecord
      <3>2. MayStand(s, "open", session[s].version)
        BY <1>2, <1>9 DEF LoadRecord, MayStand, InState, BaseIInv, SessionBacked
      <3> QED
        BY <1>1, <1>2, <1>9, <3>1, <3>2 DEF LoadRecord
    <2> QED
      BY <1>1, <1>5, <1>9, <2>1 DEF LoadRecord
  <1>10. CASE OpenReadOnly(s)
    <2>1. Stands(s, "reading", session[s].version)
      BY <1>1, <1>10, MoveStands DEF OpenReadOnly
    <2>2. MayStand(s, "reading", session[s].version)
      BY <1>2, <1>10 DEF OpenReadOnly, MayStand
    <2> QED
      BY <1>1, <1>2, <1>10, <2>1, <2>2 DEF OpenReadOnly
  <1>11. CASE CloseBase(s)
    BY <1>1, <1>5, <1>11 DEF CloseBase
  <1>12. CASE KillSession(s)
    BY <1>1, <1>3, <1>5, <1>12 DEF KillSession
  <1> QED
    BY <1>6, <1>7, <1>8, <1>9, <1>10, <1>11, <1>12 DEF Reads

(* Readings leave the base as it is.                                        *)
LEMMA ReadsKeepBase ==
  ASSUME BaseIInv, MigrationAssumption, NEW s \in Openers, Reads(s)
  PROVE  BaseIInv'
  <1>1. /\ UNCHANGED <<project, base, creator, recreated>>
        /\ lost' \in BOOLEAN /\ (lost => lost') /\ baseFaults' \in 0..MaxBaseFaults
    BY ReadsStand
  <1>2. PICK a \in Places, v \in 0..Current : Stands(s, a, v) /\ MayStand(s, a, v)
    BY ReadsStand
  <1>3. BaseTypeOK'
    BY <1>1, <1>2 DEF Stands, BaseIInv, BaseTypeOK, SessionRows
  <1>4. (StampBacked /\ NewerUntouched /\ CreatorHolds)'
    BY <1>1 DEF BaseIInv, StampBacked, NewerUntouched, CreatorHolds, Creating
  <1>5. FailureLeavesNothing'
    BY <1>1, BaseTypes DEF BaseIInv, FailureLeavesNothing
  <1>6. SessionBacked'
    <2> SUFFICES ASSUME NEW t \in Openers
                 PROVE  /\ session'[t].at \in {"migrate", "stuck", "load", "open"}
                             => base.version \in 1..Current
                        /\ session'[t].at \in {"migrate", "stuck"} =>
                             /\ session'[t].version # 0
                             /\ StepsTo(session'[t].version) \subseteq base.steps
      BY <1>1 DEF SessionBacked
    <2>1. CASE t = s
      BY <1>1, <1>2, <2>1 DEF Stands, MayStand, BaseIInv, StampBacked
    <2>2. CASE t # s
      BY <1>1, <1>2, <2>2 DEF Stands, BaseIInv, SessionBacked
    <2> QED
      BY <2>1, <2>2
  <1> QED
    BY <1>3, <1>4, <1>5, <1>6 DEF BaseIInv

(* The file of the base appears, unless it was there.                       *)
LEMMA OpenKeepsBase ==
  ASSUME BaseIInv, NEW s \in Openers, OpenBase(s)
  PROVE  BaseIInv'
  <1> USE DEF Places, Current
  <1>1. /\ BaseTypeOK /\ session[s] \in SessionRows /\ project \in Projects
        /\ session[s].at = "found" /\ session[s].version \in 0..Current
        /\ UNCHANGED <<base, creator, lost, baseFaults>>
    BY BaseTypes DEF BaseIInv, OpenBase, InState, SessionRows
  <1>2. \E a \in {"shut", "version"}, v \in 0..Current : Stands(s, a, v)
    BY <1>1, MoveStands, RefuseStands DEF OpenBase
  <1>3. PICK a \in {"shut", "version"}, v \in 0..Current : Stands(s, a, v)
    BY <1>2
  <1>4. /\ project' \in Projects /\ recreated' \in BOOLEAN
        /\ project'.root = project.root /\ project'.inner = project.inner
        /\ project.file => project' = project
        /\ project' # project => project'.file /\ project.inner /\ recreated'
        /\ recreated => recreated'
    BY <1>1, BaseTypes DEF OpenBase, Projects
  <1>5. BaseTypeOK'
    BY <1>1, <1>3, <1>4 DEF Stands, BaseTypeOK, SessionRows, Projects
  <1>6. StampBacked' /\ NewerUntouched'
    BY <1>1, <1>4 DEF BaseIInv, StampBacked, NewerUntouched, Whole
  <1>7. FailureLeavesNothing'
    BY <1>1, <1>4, BaseTypes DEF BaseIInv, FailureLeavesNothing
  <1>8. SessionBacked'
    BY <1>1, <1>3 DEF BaseIInv, SessionBacked, Stands, InState
  <1>9. CreatorHolds'
    BY <1>1, <1>4 DEF BaseIInv, CreatorHolds, Creating, Whole, Projects
  <1> QED
    BY <1>5, <1>6, <1>7, <1>8, <1>9 DEF BaseIInv

(* A migration adds its script and leaves its number, and goes no further   *)
(* than what its session has counted: none is promised that was not made.   *)
LEMMA MigrateKeepsBase ==
  ASSUME BaseIInv, NEW s \in Openers, Migrate(s)
  PROVE  BaseIInv'
  <1> DEFINE k == session[s].version + 1
  <1> USE DEF Places, Current
  <1>1. /\ BaseTypeOK /\ session[s] \in SessionRows /\ base \in Bases
        /\ session[s].at = "migrate" /\ session[s].version \in 0..Current
        /\ session[s].version < Current
        /\ UNCHANGED <<project, creator, lost, recreated, baseFaults>>
    BY BaseTypes DEF BaseIInv, Migrate, InState, SessionRows
  <1>2. /\ session[s].version # 0 /\ StepsTo(session[s].version) \subseteq base.steps
        /\ base.version \in 1..Current /\ k \in 2..Current
    BY <1>1 DEF BaseIInv, SessionBacked
  <1>3. \A p \in Creators : creator[p] \in {"out", "mkdir"}
    BY <1>2 DEF BaseIInv, CreatorHolds
  <1>4. CASE Applies(k)
    <2>1. base' = Migrated(k) /\ session' = [session EXCEPT ![s].version = k]
      BY <1>4 DEF Migrate
    <2>2. /\ base' \in Bases /\ base'.version = k /\ base'.steps = base.steps \cup {k}
          /\ base'.version \in 1..Current
      <3>1. base' = [base EXCEPT !.steps = base.steps \cup {k}, !.version = k]
        BY <2>1 DEF Migrated, Stamp
      <3>2. k \in 0..Current + 1 /\ base.steps \cup {k} \in SUBSET (1..Current + 1)
        BY <1>1, <1>2 DEF Bases
      <3>3. base' \in Bases /\ base'.version = k /\ base'.steps = base.steps \cup {k}
        BY <1>1, <3>1, <3>2 DEF Bases
      <3> QED
        BY <1>2, <3>3
    <2>3. Stands(s, "migrate", k)
      <3>1. k \in 0..Current
        BY <1>2
      <3>2. Stands(s, session[s].at, k)
        BY <1>1, <2>1, <3>1, VersionStands
      <3> QED
        BY <1>1, <3>2
    <2>4. StepsTo(k) \subseteq base'.steps
      BY <1>1, <1>2, <2>2 DEF StepsTo
    <2>5. BaseTypeOK'
      BY <1>1, <2>2, <2>3 DEF Stands, BaseTypeOK, SessionRows, Bases
    <2>6. StampBacked' /\ NewerUntouched'
      BY <1>1, <1>2, <2>2, <2>4 DEF BaseIInv, StampBacked, NewerUntouched
    <2>7. FailureLeavesNothing' /\ CreatorHolds'
      BY <1>1, <1>2, <1>3, <2>2 DEF BaseIInv, FailureLeavesNothing, CreatorHolds
    <2>8. SessionBacked'
      BY <1>1, <1>2, <2>2, <2>3, <2>4 DEF BaseIInv, SessionBacked, Stands
    <2> QED
      BY <2>5, <2>6, <2>7, <2>8 DEF BaseIInv
  <1>5. CASE ~Applies(k)
    <2>1. MoveTo(s, "stuck") /\ UNCHANGED base
      BY <1>5 DEF Migrate
    <2>2. Stands(s, "stuck", session[s].version)
      BY <1>1, <2>1, MoveStands
    <2>3. BaseTypeOK'
      BY <1>1, <2>1, <2>2 DEF Stands, BaseTypeOK, SessionRows
    <2>4. (StampBacked /\ NewerUntouched /\ FailureLeavesNothing /\ CreatorHolds)'
      BY <1>1, <2>1 DEF BaseIInv, StampBacked, NewerUntouched, FailureLeavesNothing,
                        CreatorHolds, Creating
    <2>5. SessionBacked'
      BY <1>1, <1>2, <2>1, <2>2 DEF BaseIInv, SessionBacked, Stands
    <2> QED
      BY <2>3, <2>4, <2>5 DEF BaseIInv
  <1> QED
    BY <1>4, <1>5

(* So does looking after the extension.                                     *)
LEMMA EnsureKeepsBase ==
  ASSUME BaseIInv, NEW s \in Openers, EnsureCurrent(s)
  PROVE  BaseIInv'
  <1> USE DEF Places, Current
  <1>1. /\ BaseTypeOK /\ session[s] \in SessionRows /\ base \in Bases
        /\ session[s].at = "migrate" /\ session[s].version = Current
        /\ UNCHANGED <<project, creator, lost, recreated, baseFaults>>
    BY BaseTypes DEF BaseIInv, EnsureCurrent, InState
  <1>2. /\ base' \in Bases /\ base'.version = base.version /\ base'.steps = base.steps
        /\ base.version \in 1..Current
    BY <1>1 DEF EnsureCurrent, Bases, BaseIInv, SessionBacked
  <1>3. Stands(s, "load", Current)
    BY <1>1, MoveStands DEF EnsureCurrent
  <1>4. BaseTypeOK'
    BY <1>1, <1>2, <1>3 DEF Stands, BaseTypeOK, SessionRows, Bases
  <1>5. (StampBacked /\ NewerUntouched /\ FailureLeavesNothing /\ CreatorHolds)'
    BY <1>1, <1>2 DEF BaseIInv, StampBacked, NewerUntouched, FailureLeavesNothing,
                      CreatorHolds, Creating
  <1>6. SessionBacked'
    BY <1>1, <1>2, <1>3 DEF BaseIInv, SessionBacked, Stands
  <1> QED
    BY <1>4, <1>5, <1>6 DEF BaseIInv

-----------------------------------------------------------------------------
(* The steps of a creator                                                   *)

(* A creator past the making of the folder is the only one.                 *)
LEMMA CreatorAlone ==
  ASSUME BaseIInv, NEW p \in Creators, creator[p] \notin {"out", "mkdir"}
  PROVE  /\ base.version = 0 /\ project.root
         /\ \A q \in Creators \ {p} : creator[q] \in {"out", "mkdir"}
  BY DEF BaseIInv, CreatorHolds, FailureLeavesNothing

(* The steps of a creator that leave the base: the folder is whole or there *)
(* is no version.                                                           *)
MayMake(p, a) ==
  /\ a \in MakerSteps /\ creator' = [creator EXCEPT ![p] = a]
  /\ UNCHANGED <<base, session, recreated>>
  /\ lost' \in BOOLEAN /\ (lost => lost') /\ baseFaults' \in 0..MaxBaseFaults
  /\ project' \in Projects /\ (project'.file => project'.inner)
  /\ project' = project \/ base.version = 0
  /\ a \notin {"out", "mkdir"} =>
       /\ base.version = 0 /\ project'.root
       /\ \A q \in Creators \ {p} : creator[q] \in {"out", "mkdir"}
       /\ a = "file" => project'.inner
       /\ a = "initialize" => project' = Whole
       /\ a = "rmdir" => ~project'.file
  /\ a \in {"out", "mkdir"} =>
       /\ project' = project \/ \A q \in Creators \ {p} : creator[q] \in {"out", "mkdir"}
       /\ ~project'.root \/ lost' \/ recreated
            \/ (project' = project /\ creator[p] \in {"out", "mkdir"})

(* Nothing is made where something is.                                      *)
LEMMA MayMakeKeepsBase ==
  ASSUME BaseIInv, NEW p \in Creators, NEW a, MayMake(p, a)
  PROVE  BaseIInv'
  <1>1. /\ BaseTypeOK /\ project \in Projects /\ creator \in [Creators -> MakerSteps]
        /\ lost \in BOOLEAN /\ recreated \in BOOLEAN
    BY BaseTypes DEF BaseIInv
  <1>2. /\ creator' \in [Creators -> MakerSteps] /\ creator'[p] = a
        /\ \A q \in Creators \ {p} : creator'[q] = creator[q]
    BY <1>1 DEF MayMake
  <1>3. BaseTypeOK'
    BY <1>1, <1>2 DEF MayMake, BaseTypeOK, Projects
  <1>4. (StampBacked /\ NewerUntouched /\ SessionBacked)'
    BY DEF MayMake, BaseIInv, StampBacked, NewerUntouched, SessionBacked
  <1>5. FailureLeavesNothing'
    <2>1. ASSUME project'.root, base.version = 0, ~lost', ~recreated
          PROVE  \E q \in Creators : creator'[q] \notin {"out", "mkdir"}
      <3>1. CASE a \notin {"out", "mkdir"}
        BY <1>2, <3>1
      <3>2. CASE a \in {"out", "mkdir"}
        <4>1. project' = project /\ creator[p] \in {"out", "mkdir"} /\ ~lost
          BY <2>1, <3>2 DEF MayMake
        <4>2. PICK q \in Creators : creator[q] \notin {"out", "mkdir"}
          BY <2>1, <4>1 DEF BaseIInv, FailureLeavesNothing
        <4> QED
          BY <1>2, <4>1, <4>2
      <3> QED
        BY <3>1, <3>2
    <2>2. ASSUME NEW q \in Creators, NEW r \in Creators, q # r
          PROVE  creator'[q] \in {"out", "mkdir"} \/ creator'[r] \in {"out", "mkdir"}
      <3>1. CASE a \in {"out", "mkdir"}
        BY <1>2, <2>2, <3>1 DEF BaseIInv, FailureLeavesNothing
      <3>2. CASE a \notin {"out", "mkdir"}
        BY <1>2, <2>2, <3>2 DEF MayMake
      <3> QED
        BY <3>1, <3>2
    <2> QED
      BY <2>1, <2>2 DEF FailureLeavesNothing, MayMake
  <1>6. CreatorHolds'
    <2> SUFFICES ASSUME NEW q \in Creators, creator'[q] \notin {"out", "mkdir"}
                 PROVE  /\ base.version = 0 /\ project'.root
                        /\ creator'[q] = "file" => project'.inner
                        /\ creator'[q] = "initialize" => project' = Whole
                        /\ creator'[q] = "rmdir" /\ project'.file => recreated
      BY DEF CreatorHolds, Creating, MayMake
    <2>1. CASE q = p
      BY <1>2, <2>1 DEF MayMake
    <2>2. CASE q # p
      <3>1. creator[q] \notin {"out", "mkdir"} /\ creator'[q] = creator[q]
        BY <1>2, <2>2
      <3>2. a \in {"out", "mkdir"} /\ project' = project
        BY <2>2, <3>1 DEF MayMake
      <3> QED
        BY <3>1, <3>2 DEF BaseIInv, CreatorHolds, Creating
    <2> QED
      BY <2>1, <2>2
  <1> QED
    BY <1>3, <1>4, <1>5, <1>6 DEF BaseIInv

(* Every step of a creator but the transaction that fills its base.         *)
Makes(p) ==
  \/ LookForFolder(p) \/ MakeRoot(p) \/ MakeInner(p) \/ MakeFile(p)
  \/ CreationFails(p) \/ RemoveBase(p) \/ RemoveFolders(p) \/ KillCreator(p)

(* What a creator makes is a base of the current version.                   *)
LEMMA MakesKeepBase ==
  ASSUME BaseIInv, MigrationAssumption, NEW p \in Creators, Makes(p)
  PROVE  BaseIInv'
  <1> USE DEF MakerSteps, Creating, Step, KeepBase
  <1>1. /\ BaseTypeOK /\ project \in Projects /\ creator \in [Creators -> MakerSteps]
        /\ lost \in BOOLEAN /\ recreated \in BOOLEAN /\ base \in Bases
        /\ baseFaults \in 0..MaxBaseFaults /\ MaxBaseFaults \in Nat
        /\ project.file => project.inner
        /\ base.version # 0 => project = Whole
    BY BaseTypes DEF BaseIInv, MigrationAssumption, StampBacked
  <1>2. BaseFault => baseFaults' \in 0..MaxBaseFaults
    BY <1>1 DEF BaseFault
  <1>3. creator[p] \notin {"out", "mkdir"} =>
          /\ base.version = 0 /\ project.root
          /\ \A q \in Creators \ {p} : creator[q] \in {"out", "mkdir"}
          /\ creator[p] = "file" => project.inner
          /\ creator[p] = "rmdir" /\ project.file => recreated
    BY CreatorAlone DEF BaseIInv, CreatorHolds
  <1>4. CASE LookForFolder(p)
    <2>1. MayMake(p, "mkdir")
      BY <1>1, <1>4 DEF LookForFolder, MayMake
    <2> QED
      BY <2>1, MayMakeKeepsBase
  <1>5. CASE MakeRoot(p)
    <2>1. CASE project.root
      <3>1. MayMake(p, "out")
        BY <1>1, <1>5, <2>1 DEF MakeRoot, MayMake
      <3> QED
        BY <3>1, MayMakeKeepsBase
    <2>2. CASE ~project.root
      <3>1. base.version = 0 /\ \A q \in Creators : creator[q] \in {"out", "mkdir"}
        BY <1>1, <2>2, CreatorAlone DEF Whole
      <3>2. project' \in Projects /\ project'.root /\ project'.file = project.file
            /\ project'.inner = project.inner
        BY <1>1, <1>5, <2>2 DEF MakeRoot, Projects
      <3>3. MayMake(p, "inner")
        BY <1>1, <1>5, <2>2, <3>1, <3>2 DEF MakeRoot, MayMake
      <3> QED
        BY <3>3, MayMakeKeepsBase
    <2> QED
      BY <2>1, <2>2
  <1>6. CASE MakeInner(p)
    <2>1. project' \in Projects /\ project'.root = project.root /\ project'.inner
      BY <1>1, <1>6 DEF MakeInner, Projects
    <2>2. MayMake(p, "file")
      BY <1>1, <1>3, <1>6, <2>1 DEF MakeInner, MayMake
    <2> QED
      BY <2>2, MayMakeKeepsBase
  <1>7. CASE MakeFile(p)
    <2>1. project' \in Projects /\ project' = Whole
      BY <1>1, <1>3, <1>7 DEF MakeFile, Projects, Whole
    <2>2. MayMake(p, "initialize")
      BY <1>1, <1>3, <1>7, <2>1 DEF MakeFile, MayMake, Whole
    <2> QED
      BY <2>2, MayMakeKeepsBase
  <1>8. CASE CreationFails(p)
    <2>1. MayMake(p, "undo")
      BY <1>1, <1>2, <1>3, <1>8 DEF CreationFails, MayMake
    <2> QED
      BY <2>1, MayMakeKeepsBase
  <1>9. CASE RemoveBase(p)
    <2>1. project' \in Projects /\ project'.root = project.root /\ ~project'.file
      BY <1>1, <1>9 DEF RemoveBase, Projects
    <2>2. MayMake(p, "rmdir")
      BY <1>1, <1>3, <1>9, <2>1 DEF RemoveBase, MayMake
    <2> QED
      BY <2>2, MayMakeKeepsBase
  <1>10. CASE RemoveFolders(p)
    <2>1. /\ project' \in Projects /\ (project'.file => project' = project)
          /\ ~project'.file => ~project'.root
      BY <1>1, <1>10 DEF RemoveFolders, Projects, NoFolder
    <2>2. MayMake(p, "out")
      BY <1>1, <1>3, <1>10, <2>1 DEF RemoveFolders, MayMake
    <2> QED
      BY <2>2, MayMakeKeepsBase
  <1>11. CASE KillCreator(p)
    <2>1. MayMake(p, "out")
      BY <1>1, <1>2, <1>11 DEF KillCreator, MayMake
    <2> QED
      BY <2>1, MayMakeKeepsBase
  <1> QED
    BY <1>4, <1>5, <1>6, <1>7, <1>8, <1>9, <1>10, <1>11 DEF Makes

(* An empty base is given the current version whole.                        *)
LEMMA InitializeKeepsBase ==
  ASSUME BaseIInv, NEW p \in Creators, Initialize(p)
  PROVE  BaseIInv'
  <1> USE DEF Current
  <1>1. /\ BaseTypeOK /\ creator \in [Creators -> MakerSteps] /\ creator[p] = "initialize"
        /\ base.version = 0 /\ UNCHANGED <<project, session, lost, recreated, baseFaults>>
        /\ creator' = [creator EXCEPT ![p] = "out"]
    BY BaseTypes DEF BaseIInv, Initialize, Creating, Step
  <1>2. /\ base' \in Bases /\ base'.version = Current /\ base'.steps = StepsTo(Current)
    BY DEF Initialize, Bases, StepsTo
  <1>3. project = Whole
    BY <1>1 DEF BaseIInv, CreatorHolds, Creating
  <1>4. /\ creator' \in [Creators -> MakerSteps]
        /\ \A q \in Creators : creator'[q] \in {"out", "mkdir"}
    BY <1>1, CreatorAlone DEF MakerSteps
  <1>5. BaseTypeOK'
    BY <1>1, <1>2, <1>4 DEF BaseTypeOK, Bases
  <1>6. StampBacked' /\ NewerUntouched'
    BY <1>1, <1>2, <1>3 DEF StampBacked, NewerUntouched, Whole
  <1>7. FailureLeavesNothing' /\ CreatorHolds'
    BY <1>1, <1>2, <1>4 DEF FailureLeavesNothing, CreatorHolds
  <1>8. SessionBacked'
    BY <1>1 DEF BaseIInv, SessionBacked
  <1> QED
    BY <1>5, <1>6, <1>7, <1>8 DEF BaseIInv

-----------------------------------------------------------------------------
(* The base a session may find first.                                       *)
LEMMA BaseInit ==
  ASSUME MigrationAssumption, MigrationInit
  PROVE  BaseIInv
  <1> USE DEF Current
  <1>1. PICK v \in Starts :
          /\ project = (IF v = 0 THEN NoFolder ELSE Whole)
          /\ base = [version |-> v, steps |-> StepsTo(v), extended |-> v >= Current]
    BY DEF MigrationInit
  <1>2. v \in 0..Current + 1 /\ StepsTo(v) \subseteq 1..Current + 1
    BY DEF MigrationAssumption, StepsTo
  <1>3. base \in Bases /\ base.version = v /\ base.steps = StepsTo(v)
    BY <1>1, <1>2 DEF Bases
  <1>4. project \in Projects /\ (v = 0 => ~project.root /\ ~project.file)
        /\ (v # 0 => project = Whole)
    BY <1>1 DEF Projects, NoFolder, Whole
  <1>5. /\ session \in [Openers -> SessionRows] /\ creator \in [Creators -> MakerSteps]
        /\ \A s \in Openers : session[s].at = "shut"
        /\ \A p \in Creators : creator[p] = "out"
        /\ lost = FALSE /\ recreated = FALSE /\ baseFaults = 0 /\ MaxBaseFaults \in Nat
    BY DEF MigrationInit, Shut, SessionRows, Places, MakerSteps, MigrationAssumption
  <1>6. BaseTypeOK
    <2>1. baseFaults \in 0..MaxBaseFaults
      BY <1>5
    <2> QED
      BY <1>3, <1>4, <1>5, <2>1 DEF BaseTypeOK, Bases, Projects, SessionRows
  <1>7. StampBacked /\ NewerUntouched
    BY <1>2, <1>3, <1>4 DEF StampBacked, NewerUntouched, Whole, StepsTo
  <1>8. FailureLeavesNothing /\ SessionBacked /\ CreatorHolds
    BY <1>3, <1>4, <1>5 DEF FailureLeavesNothing, SessionBacked, CreatorHolds
  <1> QED
    BY <1>6, <1>7, <1>8 DEF BaseIInv

(* No step breaks what the version of the base promises.                    *)
LEMMA BaseNext ==
  ASSUME BaseIInv, MigrationAssumption, [MigrationNext]_migrationVars
  PROVE  BaseIInv'
  <1>1. ASSUME NEW s \in Openers, Opens(s)
        PROVE  BaseIInv'
    BY <1>1, ReadsKeepBase, OpenKeepsBase, MigrateKeepsBase, EnsureKeepsBase DEF Opens, Reads
  <1>2. ASSUME NEW p \in Creators, CreatesProject(p)
        PROVE  BaseIInv'
    BY <1>2, MakesKeepBase, InitializeKeepsBase DEF CreatesProject, Makes
  <1>3. CASE UNCHANGED migrationVars
    BY <1>3 DEF migrationVars, BaseIInv, BaseTypeOK, StampBacked, NewerUntouched,
                FailureLeavesNothing, SessionBacked, CreatorHolds, Creating, InState
  <1> QED
    BY <1>1, <1>2, <1>3 DEF MigrationNext

(* However many sessions open, migrate and are killed at once: the version  *)
(* of the base never promises a migration that was not made, a newer base   *)
(* stays as it is, and of the calls that create the folder at most one ever *)
(* owns it, which leaves nothing when it fails (schema.c,                   *)
(* investigation_project.c).                                                *)
THEOREM BaseBacked == MigrationSpec => []BaseIInv
  <1>1. MigrationInit => BaseIInv
    BY BaseInit, MigrationAssumption
  <1>2. BaseIInv /\ [MigrationNext]_migrationVars => BaseIInv'
    BY BaseNext, MigrationAssumption
  <1> QED
    BY <1>1, <1>2, PTL DEF MigrationSpec

-----------------------------------------------------------------------------
(* Sessions that migrate one after the other                                *)

Active(s) == session[s].at \notin {"shut", "reading"}

(* The sequential part of the invariant, with the sets spelled out.         *)
LEMMA Sequential ==
  MigrationIInv <=>
    /\ BaseIInv
    /\ base.steps = StepsTo(base.version) /\ summit = base.version
    /\ \A s \in Openers :
         /\ session[s].at # "stuck"
         /\ session[s].at = "migrate" => session[s].version = base.version
         /\ session[s].at \in {"load", "open"} => base.version = Current /\ base.extended
         /\ \A t \in Openers : Active(s) /\ Active(t) => s = t
  BY DEF MigrationIInv, OneMigrates, VersionKept, NeverStuck, OpenedCurrent, InState, Active

(* When one session is active, its row is all there is to look at.          *)
LEMMA AloneKeeps ==
  ASSUME MigrationIInv, BaseIInv', NEW s \in Openers, NEW a \in Places \ {"stuck"},
         NEW v \in 0..Current, Stands(s, a, v),
         base'.steps = StepsTo(base'.version), summit' = base'.version,
         a = "migrate" => v = base'.version,
         a \in {"load", "open"} => base'.version = Current /\ base'.extended,
         a \notin {"shut", "reading"} =>
           Active(s) \/ \A t \in Openers : ~Active(t),
         Active(s) \/ base' = base
  PROVE  MigrationIInv'
  <1>1. /\ \A t \in Openers :
             /\ session[t].at # "stuck"
             /\ session[t].at = "migrate" => session[t].version = base.version
             /\ session[t].at \in {"load", "open"} => base.version = Current /\ base.extended
             /\ \A u \in Openers : Active(t) /\ Active(u) => t = u
    BY Sequential
  <1>2. ASSUME NEW t \in Openers
        PROVE  /\ session'[t].at # "stuck"
               /\ session'[t].at = "migrate" => session'[t].version = base'.version
               /\ session'[t].at \in {"load", "open"} =>
                    base'.version = Current /\ base'.extended
    <2>1. CASE t = s
      BY <2>1 DEF Stands
    <2>2. CASE t # s
      BY <1>1, <2>2 DEF Stands, Active
    <2> QED
      BY <2>1, <2>2
  <1>3. ASSUME NEW t \in Openers, NEW u \in Openers, Active(t)', Active(u)'
        PROVE  t = u
    BY <1>1, <1>3 DEF Stands, Active
  <1> QED
    BY <1>2, <1>3 DEF MigrationIInv, OneMigrates, VersionKept, NeverStuck, OpenedCurrent,
                      InState, Active

(* The steps of the sessions, while they migrate one after the other.       *)
LEMMA SessionsKeep ==
  ASSUME MigrationIInv, MigrationAssumption, ~Together, NEW s \in Openers, Opens(s)
  PROVE  MigrationIInv'
  <1> USE DEF Places, Current
  <1>1. /\ BaseIInv /\ BaseTypeOK /\ session[s] \in SessionRows /\ base \in Bases
        /\ session[s].at \in Places /\ session[s].version \in 0..Current
    BY Sequential, BaseTypes DEF BaseIInv, SessionRows
  <1>2. BaseIInv'
    BY <1>1, MigrationAssumption, BaseNext DEF MigrationNext
  <1>3. /\ base.steps = StepsTo(base.version) /\ summit = base.version
        /\ session[s].at = "migrate" => session[s].version = base.version
        /\ session[s].at # "stuck"
        /\ session[s].at \in {"load", "open"} => base.version = Current /\ base.extended
    BY Sequential
  <1>4. CASE Reads(s)
    <2>1. UNCHANGED <<base, summit>>
      BY <1>1, <1>4, MigrationAssumption, ReadsStand
    <2>2. PICK a \in Places, v \in 0..Current : Stands(s, a, v) /\ MayStand(s, a, v)
      BY <1>1, <1>4, MigrationAssumption, ReadsStand
    <2>3. /\ a \in Places \ {"stuck"} /\ (a = "migrate" => v = base'.version)
          /\ a \in {"load", "open"} => base'.version = Current /\ base'.extended
          /\ a \notin {"shut", "reading"} => Active(s) \/ \A t \in Openers : ~Active(t)
      BY <1>3, <2>1, <2>2 DEF MayStand, Active
    <2> QED
      BY <1>2, <1>3, <2>1, <2>2, <2>3, AloneKeeps
  <1>5. CASE OpenBase(s)
    <2>1. session[s].at = "found" /\ Active(s) /\ UNCHANGED <<base, summit>>
      BY <1>5 DEF OpenBase, InState, Active
    <2>2. \E a \in {"shut", "version"}, v \in 0..Current : Stands(s, a, v)
      BY <1>1, <1>5, MoveStands, RefuseStands DEF OpenBase
    <2> QED
      BY <1>2, <1>3, <2>1, <2>2, AloneKeeps
  <1>6. CASE Migrate(s)
    <2> DEFINE k == session[s].version + 1
    <2>1. /\ session[s].at = "migrate" /\ Active(s) /\ session[s].version = base.version
          /\ base.version \in 1..Current /\ base.version < Current
      BY <1>1, <1>3, <1>6 DEF Migrate, InState, Active, BaseIInv, SessionBacked
    <2>2. k \in 0..Current /\ k = base.version + 1 /\ k \notin base.steps
      BY <1>3, <2>1 DEF StepsTo
    <2>3. /\ base' = Migrated(k) /\ session' = [session EXCEPT ![s].version = k]
          /\ summit' = IF base'.version > summit THEN base'.version ELSE summit
      BY <1>6, <2>2 DEF Migrate, Applies
    <2>4. base' = [base EXCEPT !.steps = base.steps \cup {k}, !.version = k]
      BY <2>3 DEF Migrated, Stamp
    <2>5. base'.version = k /\ base'.steps = base.steps \cup {k}
      BY <1>1, <2>4 DEF Bases
    <2>6. base'.steps = StepsTo(base'.version) /\ summit' = base'.version
      <3>1. base'.version = base.version + 1 /\ base'.steps = base.steps \cup {base.version + 1}
        BY <2>2, <2>5
      <3>2. base'.steps = StepsTo(base'.version)
        BY <1>3, <2>1, <3>1 DEF StepsTo
      <3>3. summit' = base'.version
        BY <1>3, <2>1, <2>3, <3>1
      <3> QED
        BY <3>2, <3>3
    <2>7. Stands(s, "migrate", k)
      <3>1. Stands(s, session[s].at, k)
        BY <1>1, <2>2, <2>3, VersionStands
      <3> QED
        BY <2>1, <3>1
    <2> QED
      BY <1>2, <2>1, <2>2, <2>5, <2>6, <2>7, AloneKeeps
  <1>7. CASE EnsureCurrent(s)
    <2>1. /\ session[s].at = "migrate" /\ session[s].version = Current /\ Active(s)
          /\ base.version = Current /\ UNCHANGED summit
      BY <1>3, <1>7 DEF EnsureCurrent, InState, Active
    <2>2. base'.version = base.version /\ base'.steps = base.steps /\ base'.extended
      BY <1>1, <1>7 DEF EnsureCurrent, Bases
    <2>3. Stands(s, "load", session[s].version)
      BY <1>1, <1>7, MoveStands DEF EnsureCurrent
    <2> QED
      BY <1>1, <1>2, <1>3, <2>1, <2>2, <2>3, AloneKeeps
  <1> QED
    BY <1>4, <1>5, <1>6, <1>7 DEF Opens, Reads

(* The steps of the creators.                                               *)
LEMMA CreatorsKeep ==
  ASSUME MigrationIInv, MigrationAssumption, NEW p \in Creators, CreatesProject(p)
  PROVE  MigrationIInv'
  <1> USE DEF Current
  <1>1. BaseIInv /\ BaseIInv'
    BY MigrationAssumption, BaseNext, Sequential DEF MigrationNext
  <1>2. UNCHANGED session
    BY DEF CreatesProject, LookForFolder, MakeRoot, MakeInner, MakeFile, Initialize,
           CreationFails, RemoveBase, RemoveFolders, KillCreator, KeepBase
  <1>3. CASE Initialize(p)
    <2>1. /\ base.version = 0 /\ summit' = Current
          /\ base' = [version |-> Current, steps |-> StepsTo(Current), extended |-> TRUE]
      BY <1>3 DEF Initialize
    <2>2. base'.version = Current /\ base'.steps = StepsTo(Current)
      BY <2>1
    <2>3. \A s \in Openers : session[s].at \notin {"migrate", "stuck", "load", "open"}
      BY <1>1, <2>1 DEF BaseIInv, SessionBacked
    <2> QED
      BY <1>1, <1>2, <2>1, <2>2, <2>3
         DEF MigrationIInv, OneMigrates, VersionKept, NeverStuck, OpenedCurrent, InState
  <1>4. CASE Makes(p)
    <2>1. UNCHANGED <<base, summit>>
      BY <1>4 DEF Makes, LookForFolder, MakeRoot, MakeInner, MakeFile, CreationFails,
                  RemoveBase, RemoveFolders, KillCreator, KeepBase
    <2> QED
      BY <1>1, <1>2, <2>1
         DEF MigrationIInv, OneMigrates, VersionKept, NeverStuck, OpenedCurrent, InState
  <1> QED
    BY <1>3, <1>4 DEF CreatesProject, Makes

(* When the sessions of an investigation migrate one after the other, an    *)
(* old base reaches the current version through every migration, from       *)
(* wherever a kill or a full disk stopped the one before: no opening is     *)
(* ever refused by what an interrupted one left, no version is lost, and an *)
(* open investigation has the whole schema (schema.c).                      *)
THEOREM OldBasesReachCurrent ==
  ASSUME ~Together
  PROVE  MigrationSpec => []MigrationIInv
  <1>1. MigrationInit => MigrationIInv
    <2> SUFFICES ASSUME MigrationInit PROVE MigrationIInv
      OBVIOUS
    <2>1. BaseIInv
      BY BaseInit, MigrationAssumption
    <2>2. PICK v \in Starts :
            /\ base = [version |-> v, steps |-> StepsTo(v), extended |-> v >= Current]
            /\ summit = v
      BY DEF MigrationInit
    <2>3. base.version = v /\ base.steps = StepsTo(v)
      BY <2>2
    <2>4. \A s \in Openers : session[s].at = "shut"
      BY DEF MigrationInit, Shut
    <2> QED
      BY <2>1, <2>2, <2>3, <2>4
         DEF MigrationIInv, OneMigrates, VersionKept, NeverStuck, OpenedCurrent, InState
  <1>2. MigrationIInv /\ [MigrationNext]_migrationVars => MigrationIInv'
    <2> SUFFICES ASSUME MigrationIInv, [MigrationNext]_migrationVars PROVE MigrationIInv'
      OBVIOUS
    <2>1. CASE MigrationNext
      BY <2>1, MigrationAssumption, SessionsKeep, CreatorsKeep DEF MigrationNext
    <2>2. CASE UNCHANGED migrationVars
      <3>1. BaseIInv'
        BY <2>2, MigrationAssumption, BaseNext, Sequential
      <3> QED
        BY <2>2, <3>1 DEF migrationVars, MigrationIInv, OneMigrates, VersionKept, NeverStuck,
                          OpenedCurrent, InState
    <2> QED
      BY <2>1, <2>2
  <1> QED
    BY <1>1, <1>2, PTL DEF MigrationSpec

-----------------------------------------------------------------------------
(* The campaigns of assisted research                                       *)
FileRows == [final : Nat, staging : Nat, mark : Nat, stuck : BOOLEAN]

(* A process that rests.                                                    *)
LEMMA RestingRow == Resting \in RunRows /\ Resting.at = "out" /\ Resting.key = NoGrant
  <1>1. <<>> \in Seq(Actions)
    OBVIOUS
  <1> QED
    BY <1>1 DEF Resting, RunRows, RunPlaces, NoFile

(* No file at all.                                                          *)
LEMMA NoFilesRow == NoFiles \in FileRows /\ NoFiles.final = 0 /\ NoFiles.staging = 0 /\ NoFiles.mark = 0
  BY DEF NoFiles, FileRows, NoFile

(* The row of a process, and the item it works on.                          *)
LEMMA RunTypes ==
  ASSUME ResearchTypeOK, NEW p \in Researchers
  PROVE  /\ run \in [Researchers -> RunRows] /\ run[p] \in RunRows
         /\ run[p].at \in RunPlaces /\ run[p].key \in Campaigns \cup {NoGrant}
         /\ run[p].todo \in Seq(Actions) /\ run[p].reused \in BOOLEAN /\ run[p].body \in Nat
         /\ run[p].expired \in BOOLEAN /\ run[p].denied \in SUBSET Actions
         /\ run[p].todo # <<>> => /\ Head(run[p].todo) \in Actions
                                  /\ Tail(run[p].todo) \in Seq(Actions)
  <1>1. run \in [Researchers -> RunRows] /\ run[p] \in RunRows
    BY DEF ResearchTypeOK
  <1>2. run[p].at \in RunPlaces /\ run[p].key \in Campaigns \cup {NoGrant}
         /\ run[p].todo \in Seq(Actions) /\ run[p].reused \in BOOLEAN /\ run[p].body \in Nat
         /\ run[p].expired \in BOOLEAN /\ run[p].denied \in SUBSET Actions
    BY <1>1 DEF RunRows
  <1>3. run[p].todo # <<>> => /\ Head(run[p].todo) \in Actions
                              /\ Tail(run[p].todo) \in Seq(Actions)
    BY <1>2
  <1> QED
    BY <1>1, <1>2, <1>3

(* A process in the middle of an action works on an item its grant holds.   *)
LEMMA WorksOn ==
  ASSUME ContactIInv, NEW p \in Researchers, run[p].at \notin {"out", "next"}
  PROVE  /\ Item(p) \in Items /\ run[p].key \in Campaigns /\ Head(run[p].todo) \in Actions
         /\ Head(run[p].todo) \in GrantOf(p).holds /\ run[p].todo # <<>>
         /\ Item(p) = <<run[p].key, Head(run[p].todo)>>
  <1>1. ~Going(p, "out")
    BY DEF Going
  <1>2. run[p].key \in Campaigns /\ run[p].todo # <<>> /\ Head(run[p].todo) \in GrantOf(p).holds
    BY <1>1 DEF ContactIInv, CampaignKnown
  <1>3. Head(run[p].todo) \in Actions
    BY <1>2, RunTypes DEF ContactIInv
  <1> QED
    BY <1>2, <1>3 DEF Item, Items

(* What a process does to its own row: it goes on with its campaign, or     *)
(* leaves it.                                                               *)
Carries(p, row) ==
  /\ row \in RunRows
  /\ run' = [run EXCEPT ![p] = row]
  /\ \/ row = Resting
     \/ /\ row.at # "out" /\ row.key = run[p].key /\ row.reused = run[p].reused
        /\ row.expired = run[p].expired /\ row.denied = run[p].denied
        /\ row.todo = run[p].todo \/ row.at = "next"

(* Going to another place.                                                  *)
LEMMA ReachRow ==
  ASSUME ResearchTypeOK, NEW p \in Researchers, NEW place \in RunPlaces \ {"out"}, Reach(p, place)
  PROVE  \E row : Carries(p, row) /\ row.at = place /\ row.todo = run[p].todo /\ row.body = run[p].body
  <1> DEFINE row == [run[p] EXCEPT !.at = place]
  <1>1. run[p] \in RunRows
    BY RunTypes
  <1>2. row \in RunRows /\ row.at = place /\ row.todo = run[p].todo /\ row.body = run[p].body
        /\ row.key = run[p].key /\ row.reused = run[p].reused
        /\ row.expired = run[p].expired /\ row.denied = run[p].denied
    BY <1>1 DEF RunRows
  <1>3. run' = [run EXCEPT ![p] = row]
    BY DEF Reach
  <1> QED
    BY <1>2, <1>3 DEF Carries

(* Going there with something in hand.                                      *)
LEMMA HoldRow ==
  ASSUME ResearchTypeOK, NEW p \in Researchers, NEW place \in RunPlaces \ {"out"}, NEW body \in Nat,
         Hold(p, place, body)
  PROVE  \E row : Carries(p, row) /\ row.at = place /\ row.todo = run[p].todo /\ row.body = body
  <1> DEFINE row == [run[p] EXCEPT !.at = place, !.body = body]
  <1>1. run[p] \in RunRows
    BY RunTypes
  <1>2. row \in RunRows /\ row.at = place /\ row.todo = run[p].todo /\ row.body = body
        /\ row.key = run[p].key /\ row.reused = run[p].reused
        /\ row.expired = run[p].expired /\ row.denied = run[p].denied
    BY <1>1 DEF RunRows
  <1>3. run' = [run EXCEPT ![p] = row]
    BY DEF Hold
  <1> QED
    BY <1>2, <1>3 DEF Carries

(* Going on to the next action.                                             *)
LEMMA NextRow ==
  ASSUME ResearchTypeOK, NEW p \in Researchers, run[p].todo # <<>>, NextAction(p)
  PROVE  \E row : Carries(p, row) /\ row.at = "next"
  <1> DEFINE row == [run[p] EXCEPT !.at = "next", !.todo = Tail(run[p].todo), !.body = NoFile]
  <1>1. run[p] \in RunRows /\ Tail(run[p].todo) \in Seq(Actions)
    BY RunTypes
  <1>2. row \in RunRows /\ row.at = "next"
        /\ row.key = run[p].key /\ row.reused = run[p].reused
        /\ row.expired = run[p].expired /\ row.denied = run[p].denied
    BY <1>1 DEF RunRows, RunPlaces, NoFile
  <1>3. run' = [run EXCEPT ![p] = row]
    BY DEF NextAction
  <1> QED
    BY <1>2, <1>3 DEF Carries

(* Leaving the campaign.                                                    *)
LEMMA OutRow ==
  ASSUME NEW p, Out(p)
  PROVE  Carries(p, Resting)
  BY RestingRow DEF Out, Carries

(* The other processes stay where they are.                                 *)
LEMMA Carried ==
  ASSUME ResearchTypeOK, NEW p \in Researchers, NEW row, Carries(p, row)
  PROVE  /\ run' \in [Researchers -> RunRows] /\ run'[p] = row
         /\ \A q \in Researchers \ {p} : run'[q] = run[q]
  BY RunTypes DEF Carries

(* What a process does to the tables: it touches its own item, and never    *)
(* takes a result back.                                                     *)
Touches(p) ==
  /\ results' \in [Items -> Nat] /\ contacted' \in [Items -> Nat] /\ artefact' \in [Items -> FileRows]
  /\ \A i \in Items :
       /\ i # Item(p) => /\ results'[i] = results[i] /\ contacted'[i] = contacted[i]
                         /\ artefact'[i] = artefact[i]
       /\ results[i] # NoFile => results'[i] # NoFile
  /\ UNCHANGED <<results, contacted, artefact>> \/ run[p].at \notin {"out", "next"}

(* A step that writes no table touches nothing.                             *)
LEMMA TouchNothing ==
  ASSUME ResearchTypeOK, NEW p, UNCHANGED <<results, contacted, artefact>>
  PROVE  Touches(p)
  BY DEF Touches, ResearchTypeOK, FileRows

(* A step that writes a file of its item.                                   *)
LEMMA TouchFiles ==
  ASSUME ContactIInv, NEW p \in Researchers, run[p].at \notin {"out", "next"},
         NEW row \in FileRows, Disk(p, row), UNCHANGED <<results, contacted>>
  PROVE  Touches(p) /\ artefact'[Item(p)] = row
  <1>1. Item(p) \in Items /\ ResearchTypeOK
    BY WorksOn DEF ContactIInv
  <1>2. artefact \in [Items -> FileRows]
    BY <1>1 DEF ResearchTypeOK, FileRows
  <1>3. /\ artefact' \in [Items -> FileRows] /\ artefact'[Item(p)] = row
        /\ \A i \in Items : i # Item(p) => artefact'[i] = artefact[i]
    BY <1>1, <1>2 DEF Disk
  <1>4. results' = results /\ contacted' = contacted
        /\ results \in [Items -> Nat] /\ contacted \in [Items -> Nat]
    BY <1>1 DEF ResearchTypeOK
  <1> QED
    BY <1>3, <1>4 DEF Touches

(* A step that records the result of its item.                              *)
LEMMA TouchResults ==
  ASSUME ContactIInv, NEW p \in Researchers, run[p].at \notin {"out", "next"}, NEW v \in Nat, v # NoFile,
         results' = [results EXCEPT ![Item(p)] = v], UNCHANGED <<artefact, contacted>>
  PROVE  Touches(p) /\ results'[Item(p)] = v
  <1>1. Item(p) \in Items /\ ResearchTypeOK
    BY WorksOn DEF ContactIInv
  <1>2. artefact \in [Items -> FileRows] /\ results \in [Items -> Nat] /\ contacted \in [Items -> Nat]
    BY <1>1 DEF ResearchTypeOK, FileRows
  <1>3. /\ results' \in [Items -> Nat] /\ results'[Item(p)] = v
        /\ \A i \in Items : i # Item(p) => results'[i] = results[i]
    BY <1>1, <1>2
  <1>4. \A i \in Items : results[i] # NoFile => results'[i] # NoFile
    BY <1>3
  <1> QED
    BY <1>2, <1>3, <1>4 DEF Touches

(* The obligations of a step towards contacts: what it takes in hand is      *)
(* held, allowed and not contacted before.                                  *)
Lawful(p, row) ==
  /\ row.at \notin {"out", "next"} => run[p].todo # <<>> /\ Head(run[p].todo) \in GrantOf(p).holds
  /\ row.at \in {"look", "contact"} /\ ~run[p].reused =>
       /\ Head(run[p].todo) \notin run[p].denied
       /\ Wave[Head(run[p].todo)] = 1 => FirstRecorded
  /\ row.at \in {"stage", "mark", "rename", "record"} => row.body # NoFile
  /\ row.at = "contact" => ~run[p].reused /\ contacted'[Item(p)] = 0
  /\ row.at # "out" /\ ~run[p].reused =>
       \A a \in Actions : contacted'[<<run[p].key, a>>] > 0 =>
         \/ results'[<<run[p].key, a>>] # NoFile
         \/ row.at \in Placing /\ a = Head(run[p].todo)
  /\ UNCHANGED contacted \/
       (Going(p, "contact") /\ contacted'[Item(p)] = 1)

(* A step of a process that is at work keeps what holds of the contacts.     *)
LEMMA CampaignStep ==
  ASSUME ContactIInv, NEW p \in Researchers, ~Going(p, "out"), NEW row, Carries(p, row),
         Touches(p), Lawful(p, row), UNCHANGED <<planned, decided, grants, campaign>>,
         troubles' \in 0..MaxResearchFaults
  PROVE  ContactIInv'
  <1>t. ResearchTypeOK
    BY DEF ContactIInv
  <1>r. /\ run' \in [Researchers -> RunRows] /\ run'[p] = row
        /\ \A q \in Researchers \ {p} : run'[q] = run[q]
    BY <1>t, Carried
  <1>c. /\ row.at = "out" => row = Resting
        /\ row.at # "out" => /\ row.key = run[p].key /\ row.reused = run[p].reused
                             /\ row.expired = run[p].expired /\ row.denied = run[p].denied
                             /\ row.todo = run[p].todo \/ row.at = "next"
    BY RestingRow DEF Carries
  <1>k. run[p].key \in Campaigns /\ campaign[run[p].key] # NoGrant
    BY DEF ContactIInv, CampaignKnown
  <1>i. /\ \A i \in Items : /\ results[i] # NoFile => results'[i] # NoFile
                            /\ results[i] \in Nat /\ results'[i] \in Nat
                            /\ contacted[i] \in Nat /\ contacted'[i] \in Nat
                            /\ contacted'[i] # contacted[i] => Going(p, "contact") /\ i = Item(p) /\ contacted'[i] = 1
                            /\ i[1] # run[p].key => /\ results'[i] = results[i] /\ contacted'[i] = contacted[i]
                                                    /\ artefact'[i] = artefact[i]
    <2>1. CASE UNCHANGED <<results, contacted, artefact>>
      BY <2>1, <1>t DEF ResearchTypeOK
    <2>2. CASE run[p].at \notin {"out", "next"}
      <3>1. Item(p) \in Items /\ Item(p) = <<run[p].key, Head(run[p].todo)>>
        BY <2>2, WorksOn
      <3>2. \A i \in Items : i[1] # run[p].key => i # Item(p)
        BY <3>1
      <3> QED
        BY <3>1, <3>2, <1>t DEF Touches, ResearchTypeOK, Lawful
    <2> QED
      BY <2>1, <2>2 DEF Touches
  <1>1. ResearchTypeOK'
    BY <1>t, <1>r DEF ResearchTypeOK, Touches, FileRows
  <1>2. ContactedOnce'
    BY <1>i DEF ContactIInv, ContactedOnce
  <1>w. FirstRecorded => FirstRecorded'
    <2> SUFFICES ASSUME FirstRecorded PROVE FirstRecorded'
      OBVIOUS
    <2>1. PICK c \in Campaigns, b \in Actions : Wave[b] = 0 /\ results[<<c, b>>] # NoFile
      BY DEF FirstRecorded
    <2>2. results'[<<c, b>>] # NoFile
      BY <2>1, <1>i DEF Items
    <2> QED
      BY <2>1, <2>2 DEF FirstRecorded
  <1>3. WavesInOrder'
    <2> SUFFICES ASSUME NEW k \in Campaigns, NEW a \in Actions, Wave[a] = 1, contacted'[<<k, a>>] > 0
                 PROVE  FirstRecorded'
      BY DEF WavesInOrder, FirstRecorded
    <2>1. CASE contacted[<<k, a>>] > 0
      BY <2>1, <1>w DEF ContactIInv, WavesInOrder
    <2>2. CASE ~(contacted[<<k, a>>] > 0)
      <3>1. Going(p, "contact") /\ <<k, a>> = Item(p)
        BY <2>2, <1>i DEF Items
      <3>2. a = Head(run[p].todo) /\ FirstRun(p)
        BY <3>1 DEF Item, FirstRun, Going, ContactIInv, FirstContacts
      <3> QED
        BY <3>1, <3>2, <1>w DEF ContactIInv, FirstContacts, Going
    <2> QED
      BY <2>1, <2>2
  <1>4. CampaignKnown'
    <2>1. ASSUME NEW k \in Campaigns, NEW a \in Actions, campaign'[k] = NoGrant
          PROVE  contacted'[<<k, a>>] = 0 /\ NothingOf(k, a)'
      <3>1. k # run[p].key
        BY <2>1, <1>k
      <3>2. <<k, a>> \in Items /\ <<k, a>>[1] = k
        BY DEF Items
      <3> QED
        BY <2>1, <3>1, <3>2, <1>i DEF ContactIInv, CampaignKnown, NothingOf
    <2>2. ASSUME NEW q \in Researchers
          PROVE  /\ Going(q, "out")' => run'[q] = Resting
                 /\ ~Going(q, "out")' => run'[q].key \in Campaigns /\ campaign'[run'[q].key] # NoGrant
                 /\ run'[q].at \notin {"out", "next"} =>
                      run'[q].todo # <<>> /\ Head(run'[q].todo) \in GrantOf(q)'.holds
                 /\ run'[q].at \in {"stage", "mark", "rename", "record"} => run'[q].body # NoFile
      <3>1. CASE q = p
        BY <3>1, <1>r, <1>c, <1>k DEF Lawful, Going, GrantOf
      <3>2. CASE q # p
        BY <3>2, <1>r DEF ContactIInv, CampaignKnown, Going, GrantOf
      <3> QED
        BY <3>1, <3>2
    <2> QED
      BY <2>1, <2>2 DEF CampaignKnown
  <1>5. FirstContacts'
    <2>1. ASSUME NEW q \in Researchers, FirstRun(q)'
          PROVE  FirstRun(q) /\ run'[q].key = run[q].key /\ (q = p => run'[p].at # "out")
      BY <2>1, <1>r, <1>c DEF FirstRun, Going
    <2>2. \A q, r \in Researchers : FirstRun(q)' /\ FirstRun(r)' /\ run'[q].key = run'[r].key => q = r
      BY <2>1 DEF ContactIInv, FirstContacts
    <2>3. ASSUME NEW q \in Researchers, FirstRun(q)', NEW a \in Actions, contacted'[<<run'[q].key, a>>] > 0
          PROVE  \/ results'[<<run'[q].key, a>>] # NoFile
                 \/ run'[q].at \in Placing /\ a = Head(run'[q].todo)
      <3>1. CASE q = p
        <4>1. row.at # "out" /\ ~run[p].reused
          BY <2>3, <3>1, <1>r, <1>c DEF FirstRun, Going
        <4>2. row.at \in Placing => row.todo = run[p].todo
          BY <1>c DEF Placing
        <4> QED
          BY <4>1, <4>2, <2>3, <3>1, <1>r, <1>c DEF Lawful
      <3>2. CASE q # p
        <4>1. FirstRun(q) /\ run'[q] = run[q] /\ run[q].key \in Campaigns
          BY <2>1, <2>3, <3>2, <1>r DEF ContactIInv, CampaignKnown, FirstRun, Going
        <4>2. <<run[q].key, a>> \in Items
          BY <4>1 DEF Items
        <4>3. CASE contacted[<<run[q].key, a>>] > 0
          BY <4>1, <4>2, <4>3, <1>i DEF ContactIInv, FirstContacts
        <4>4. CASE ~(contacted[<<run[q].key, a>>] > 0)
          <5>1. Going(p, "contact") /\ <<run[q].key, a>> = Item(p)
            BY <4>1, <4>2, <4>4, <2>3, <1>i
          <5>2. run[q].key = run[p].key /\ FirstRun(p)
            BY <5>1 DEF Item, FirstRun, Going, ContactIInv, FirstContacts
          <5> QED
            BY <5>2, <4>1, <3>2 DEF ContactIInv, FirstContacts
        <4> QED
          BY <4>3, <4>4
      <3> QED
        BY <3>1, <3>2
    <2>4. ASSUME NEW q \in Researchers, Going(q, "contact")'
          PROVE  ~run'[q].reused /\ contacted'[Item(q)'] = 0
      <3>1. CASE q = p
        BY <2>4, <3>1, <1>r, <1>c DEF Lawful, Item, Going
      <3>2. CASE q # p
        <4>1. Going(q, "contact") /\ run'[q] = run[q] /\ Item(q)' = Item(q)
          BY <2>4, <3>2, <1>r DEF Going, Item
        <4>2. ~run[q].reused /\ contacted[Item(q)] = 0 /\ Item(q) \in Items /\ FirstRun(q)
          BY <4>1, WorksOn DEF ContactIInv, FirstContacts, Going, FirstRun
        <4>3. ASSUME contacted'[Item(q)] # contacted[Item(q)] PROVE FALSE
          <5>1. Going(p, "contact") /\ Item(q) = Item(p)
            BY <4>3, <4>2, <1>i
          <5>2. run[q].key = run[p].key /\ FirstRun(p)
            BY <5>1 DEF Item, FirstRun, Going, ContactIInv, FirstContacts
          <5> QED
            BY <5>2, <4>2, <3>2 DEF ContactIInv, FirstContacts
        <4> QED
          BY <4>1, <4>2, <4>3
      <3> QED
        BY <3>1, <3>2
    <2>5. ASSUME NEW q \in Researchers, FirstRun(q)', run'[q].at \in {"look", "contact"}
          PROVE  /\ Head(run'[q].todo) \notin run'[q].denied
                 /\ Wave[Head(run'[q].todo)] = 1 => FirstRecorded'
      <3>1. CASE q = p
        BY <2>5, <3>1, <1>r, <1>c, <1>w DEF Lawful, FirstRun, Going
      <3>2. CASE q # p
        BY <2>5, <2>1, <3>2, <1>r, <1>w DEF ContactIInv, FirstContacts, FirstRun, Going
      <3> QED
        BY <3>1, <3>2
    <2> QED
      BY <2>2, <2>3, <2>4, <2>5 DEF FirstContacts
  <1>6. DeniedStays'
    <2> SUFFICES ASSUME NEW q \in Researchers, ~Going(q, "out")', NEW a \in run'[q].denied
                 PROVE  \/ a \notin GrantOf(q)'.holds \/ GrantOf(q)'.excluded \/ GrantOf(q)'.revoked
                        \/ run'[q].expired \/ decided'[a] = "REFUSE"
      BY DEF DeniedStays
    <2>1. ~Going(q, "out") /\ run'[q].denied = run[q].denied /\ run'[q].expired = run[q].expired
          /\ run'[q].key = run[q].key
      BY <1>r, <1>c DEF Going
    <2> QED
      BY <2>1 DEF ContactIInv, DeniedStays, GrantOf
  <1>7. ContactGranted'
    <2> SUFFICES ASSUME NEW q \in Researchers, Going(q, "contact")'
                 PROVE  Head(run'[q].todo) \notin run'[q].denied
      BY DEF ContactGranted
    <2> QED
      BY <1>5 DEF FirstContacts, FirstRun, Going
  <1> QED
    BY <1>1, <1>2, <1>3, <1>4, <1>5, <1>6, <1>7 DEF ContactIInv

(* Decisions, grants and their ends leave the processes where they are: a   *)
(* grant keeps what it holds, and what it refuses it goes on to refuse.     *)
LEMMA GrantsStep ==
  ASSUME ContactIInv, UNCHANGED <<campaign, results, artefact, contacted, run, troubles>>,
         planned' \in BOOLEAN, decided' \in [Actions -> {"NONE", "AUTHORIZE", "DEFER", "REFUSE"}],
         grants' \in [Grants -> GrantRows \cup {NoGrant}],
         \A a \in Actions : decided[a] = "REFUSE" => decided'[a] = "REFUSE",
         \A g \in Grants : grants[g] # NoGrant =>
           /\ grants'[g] # NoGrant /\ grants'[g].holds = grants[g].holds
           /\ grants[g].excluded => grants'[g].excluded
           /\ grants[g].revoked => grants'[g].revoked
  PROVE  ContactIInv'
  <1>1. ResearchTypeOK'
    BY DEF ContactIInv, ResearchTypeOK, Asks
  <1>2. ContactedOnce' /\ WavesInOrder' /\ ContactGranted' /\ FirstContacts'
    BY DEF ContactIInv, ContactedOnce, WavesInOrder, ContactGranted, FirstContacts, FirstRun, Going,
           FirstRecorded, Item
  <1>3. ASSUME NEW p \in Researchers, ~Going(p, "out")
        PROVE  /\ campaign[run[p].key].grant \in Grants /\ grants[campaign[run[p].key].grant] # NoGrant
               /\ GrantOf(p)'.holds = GrantOf(p).holds
               /\ GrantOf(p).excluded => GrantOf(p)'.excluded
               /\ GrantOf(p).revoked => GrantOf(p)'.revoked
    <2>1. run[p].key \in Campaigns /\ campaign[run[p].key] # NoGrant
      BY <1>3 DEF ContactIInv, CampaignKnown
    <2>2. campaign[run[p].key].grant \in Grants /\ grants[campaign[run[p].key].grant] # NoGrant
      BY <2>1 DEF ContactIInv, ResearchTypeOK, Asks
    <2> QED
      BY <2>2 DEF GrantOf
  <1>4. CampaignKnown'
    BY <1>3 DEF ContactIInv, CampaignKnown, Going, NothingOf
  <1>5. DeniedStays'
    <2> SUFFICES ASSUME NEW p \in Researchers, ~Going(p, "out"), NEW a \in run[p].denied
                 PROVE  \/ a \notin GrantOf(p)'.holds \/ GrantOf(p)'.excluded \/ GrantOf(p)'.revoked
                        \/ run[p].expired \/ decided'[a] = "REFUSE"
      BY DEF DeniedStays, Going
    <2>1. a \in Actions
      BY RunTypes DEF ContactIInv
    <2> QED
      BY <2>1, <1>3 DEF ContactIInv, DeniedStays
  <1> QED
    BY <1>1, <1>2, <1>4, <1>5 DEF ContactIInv

(* The decisions of people keep what holds of the contacts.                 *)
LEMMA DecideStep == ContactIInv /\ Decide => ContactIInv'
  <1> SUFFICES ASSUME ContactIInv, Decide PROVE ContactIInv'
    OBVIOUS
  <1>t. /\ planned \in BOOLEAN /\ decided \in [Actions -> {"NONE", "AUTHORIZE", "DEFER", "REFUSE"}]
        /\ grants \in [Grants -> GrantRows \cup {NoGrant}]
    BY DEF ContactIInv, ResearchTypeOK
  <1>1. CASE AdmitPlan
    BY <1>1, <1>t, GrantsStep DEF AdmitPlan
  <1>2. ASSUME NEW g \in Grants, NEW ask \in GrantAsks, AdmitGrant(g, ask) PROVE ContactIInv'
    <2> DEFINE row == [holds |-> ask.selected, excluded |-> ask.excluded, revoked |-> FALSE, expired |-> FALSE]
    <2>1. ask.decisions \in [Actions -> {"NONE", "AUTHORIZE", "DEFER", "REFUSE"}]
          /\ ask.selected \in SUBSET Actions /\ ask.excluded \in BOOLEAN
      BY ResearchAssumption
    <2>2. row \in GrantRows
      BY <2>1 DEF GrantRows
    <2>3. grants' = [grants EXCEPT ![g] = row]
      BY <1>2 DEF AdmitGrant
    <2> HIDE DEF row
    <2>4. grants' \in [Grants -> GrantRows \cup {NoGrant}] /\ \A h \in Grants : h # g => grants'[h] = grants[h]
      BY <2>2, <2>3, <1>t
    <2>5. \A a \in Actions : decided[a] = "REFUSE" => decided'[a] = "REFUSE"
      BY <1>2 DEF AdmitGrant
    <2>6. decided' \in [Actions -> {"NONE", "AUTHORIZE", "DEFER", "REFUSE"}] /\ planned' \in BOOLEAN
      BY <1>2, <2>1, <1>t DEF AdmitGrant
    <2>7. grants[g] = NoGrant /\ UNCHANGED <<campaign, results, artefact, contacted, run, troubles>>
      BY <1>2 DEF AdmitGrant
    <2> QED
      BY <2>4, <2>5, <2>6, <2>7, GrantsStep
  <1>3. ASSUME NEW g \in Grants, RevokeGrant(g) PROVE ContactIInv'
    <2> DEFINE row == [grants[g] EXCEPT !.revoked = TRUE]
    <2>1. grants[g] \in GrantRows
      BY <1>3, <1>t DEF RevokeGrant
    <2>2. row \in GrantRows /\ row.holds = grants[g].holds /\ row.excluded = grants[g].excluded /\ row.revoked
      BY <2>1 DEF GrantRows
    <2>3. grants' = [grants EXCEPT ![g] = row]
      BY <1>3 DEF RevokeGrant
    <2>n. NoGrant \notin GrantRows
      BY ResearchAssumption DEF GrantRows
    <2> HIDE DEF row
    <2>4. grants' \in [Grants -> GrantRows \cup {NoGrant}] /\ grants'[g] = row
          /\ \A h \in Grants : h # g => grants'[h] = grants[h]
      BY <2>2, <2>3, <1>t
    <2>7. UNCHANGED <<planned, decided, campaign, results, artefact, contacted, run, troubles>>
      BY <1>3 DEF RevokeGrant
    <2> QED
      BY <2>2, <2>4, <2>7, <2>n, <1>t, GrantsStep
  <1>4. ASSUME NEW g \in Grants, ExpireGrant(g) PROVE ContactIInv'
    <2> DEFINE row == [grants[g] EXCEPT !.expired = TRUE]
    <2>1. grants[g] \in GrantRows
      BY <1>4, <1>t DEF ExpireGrant
    <2>2. row \in GrantRows /\ row.holds = grants[g].holds /\ row.excluded = grants[g].excluded
          /\ row.revoked = grants[g].revoked
      BY <2>1 DEF GrantRows
    <2>3. grants' = [grants EXCEPT ![g] = row]
      BY <1>4 DEF ExpireGrant
    <2>n. NoGrant \notin GrantRows
      BY ResearchAssumption DEF GrantRows
    <2> HIDE DEF row
    <2>4. grants' \in [Grants -> GrantRows \cup {NoGrant}] /\ grants'[g] = row
          /\ \A h \in Grants : h # g => grants'[h] = grants[h]
      BY <2>2, <2>3, <1>t
    <2>7. UNCHANGED <<planned, decided, campaign, results, artefact, contacted, run, troubles>>
      BY <1>4 DEF ExpireGrant
    <2> QED
      BY <2>2, <2>4, <2>7, <2>n, <1>t, GrantsStep
  <1> QED
    BY <1>1, <1>2, <1>3, <1>4 DEF Decide

(* A process begins: alone as the first of its campaign, or as a replay.    *)
Begun(p, k, ask, row) ==
  /\ row \in RunRows /\ run' = [run EXCEPT ![p] = row]
  /\ row.at = "next" /\ row.key = k /\ row.reused = (campaign[k] = ask)
  /\ row.expired = grants[ask.grant].expired /\ row.denied \subseteq Denied(ask.grant)

(* The row of a process that begins.                                        *)
LEMMA BeginsRow ==
  ASSUME ContactIInv, NEW p \in Researchers, NEW k \in Campaigns, NEW ask \in Asks, Begin(p, k, ask)
  PROVE  \E row : Begun(p, k, ask, row)
  <1> DEFINE row == [Resting EXCEPT !.at = "next", !.key = k, !.todo = ask.wanted,
                       !.reused = (campaign[k] = ask),
                       !.expired = grants[ask.grant].expired,
                       !.denied = Denied(ask.grant) \cap Range(ask.wanted)]
  <1>1. ask.grant \in Grants /\ ask.wanted \in Requests
    BY DEF Asks
  <1>2. ask.wanted \in Seq(Actions)
    BY <1>1, ResearchAssumption
  <1>3. grants[ask.grant].expired \in BOOLEAN
    <2>1. grants[ask.grant] \in GrantRows
      BY <1>1 DEF ContactIInv, ResearchTypeOK, Begin
    <2> QED
      BY <2>1 DEF GrantRows
  <1>4. Denied(ask.grant) \cap Range(ask.wanted) \in SUBSET Actions
    BY DEF Denied
  <1>5. row \in RunRows /\ row.at = "next" /\ row.key = k /\ row.reused = (campaign[k] = ask)
        /\ row.expired = grants[ask.grant].expired /\ row.denied \subseteq Denied(ask.grant)
    <2> DEFINE d == Denied(ask.grant) \cap Range(ask.wanted)
    <2>1. d \in SUBSET Actions /\ d \subseteq Denied(ask.grant)
      BY <1>4
    <2> HIDE DEF d
    <2> DEFINE b == campaign[k] = ask
               e == grants[ask.grant].expired
    <2>2. row = [Resting EXCEPT !.at = "next", !.key = k, !.todo = ask.wanted, !.reused = b,
                                !.expired = e, !.denied = d]
      BY DEF d
    <2>3. b \in BOOLEAN /\ e \in BOOLEAN
      BY <1>3
    <2> HIDE DEF b, e, row
    <2>4. row \in RunRows /\ row.at = "next" /\ row.key = k /\ row.reused = b /\ row.expired = e
          /\ row.denied = d
      BY <1>2, <2>1, <2>2, <2>3, RestingRow DEF RunRows, RunPlaces
    <2> QED
      BY <2>1, <2>4 DEF b, e
  <1>6. run' = [run EXCEPT ![p] = row]
    BY DEF Begin
  <1> QED
    BY <1>5, <1>6 DEF Begun

(* A process that begins keeps what holds of the contacts.                  *)
LEMMA BeginStep ==
  ASSUME ContactIInv, NEW p \in Researchers, NEW k \in Campaigns, NEW ask \in Asks, Begin(p, k, ask)
  PROVE  ContactIInv'
  <1>t. ResearchTypeOK
    BY DEF ContactIInv
  <1>a. ask.grant \in Grants /\ grants[ask.grant] # NoGrant /\ campaign[k] \in {NoGrant, ask}
        /\ ask # NoGrant /\ run[p] = Resting
    BY ResearchAssumption DEF Asks, Begin
  <1>u. UNCHANGED <<planned, decided, grants, results, artefact, contacted, troubles>>
    BY DEF Begin
  <1>c. /\ campaign' \in [Campaigns -> Asks \cup {NoGrant}] /\ campaign'[k] = ask
        /\ \A j \in Campaigns : j # k => campaign'[j] = campaign[j]
        /\ \A j \in Campaigns : campaign[j] # NoGrant => campaign'[j] = campaign[j]
    BY <1>t, <1>a DEF Begin, ResearchTypeOK
  <1>b. PICK row : Begun(p, k, ask, row)
    BY BeginsRow
  <1>r. /\ run' \in [Researchers -> RunRows] /\ run'[p] = row
        /\ \A q \in Researchers \ {p} : run'[q] = run[q]
    BY <1>b, RunTypes, <1>t DEF Begun
  <1>1. ResearchTypeOK'
    BY <1>t, <1>a, <1>u, <1>c, <1>r DEF ResearchTypeOK
  <1>2. ContactedOnce' /\ WavesInOrder'
    BY <1>u DEF ContactIInv, ContactedOnce, WavesInOrder, FirstRecorded
  <1>g. \A q \in Researchers : q # p /\ ~Going(q, "out") => GrantOf(q)' = GrantOf(q)
    BY <1>r, <1>u, <1>c DEF GrantOf, ContactIInv, CampaignKnown
  <1>3. CampaignKnown'
    <2>1. ASSUME NEW j \in Campaigns, NEW a \in Actions, campaign'[j] = NoGrant
          PROVE  contacted'[<<j, a>>] = 0 /\ NothingOf(j, a)'
      BY <2>1, <1>c, <1>u, <1>a DEF ContactIInv, CampaignKnown, NothingOf
    <2>2. ASSUME NEW q \in Researchers
          PROVE  /\ Going(q, "out")' => run'[q] = Resting
                 /\ ~Going(q, "out")' => run'[q].key \in Campaigns /\ campaign'[run'[q].key] # NoGrant
                 /\ run'[q].at \notin {"out", "next"} =>
                      run'[q].todo # <<>> /\ Head(run'[q].todo) \in GrantOf(q)'.holds
                 /\ run'[q].at \in {"stage", "mark", "rename", "record"} => run'[q].body # NoFile
      <3>1. CASE q = p
        BY <3>1, <1>r, <1>b, <1>c, <1>a DEF Begun, Going
      <3>2. CASE q # p
        <4>1. run'[q] = run[q]
          BY <3>2, <1>r
        <4> QED
          BY <4>1, <3>2, <1>g, <1>c DEF ContactIInv, CampaignKnown, Going
      <3> QED
        BY <3>1, <3>2
    <2> QED
      BY <2>1, <2>2 DEF CampaignKnown
  <1>5. FirstContacts'
    <2>n. FirstRun(p)' => campaign[k] = NoGrant
      BY <1>r, <1>b, <1>a DEF FirstRun, Begun
    <2>o. ASSUME NEW q \in Researchers, q # p, FirstRun(q)'
          PROVE  FirstRun(q) /\ run'[q] = run[q] /\ campaign[run[q].key] # NoGrant
      BY <2>o, <1>r DEF FirstRun, Going, ContactIInv, CampaignKnown
    <2>2. \A q, r \in Researchers : FirstRun(q)' /\ FirstRun(r)' /\ run'[q].key = run'[r].key => q = r
      BY <2>n, <2>o, <1>r, <1>b DEF ContactIInv, FirstContacts, Begun
    <2>3. ASSUME NEW q \in Researchers, FirstRun(q)', NEW a \in Actions, contacted'[<<run'[q].key, a>>] > 0
          PROVE  \/ results'[<<run'[q].key, a>>] # NoFile
                 \/ run'[q].at \in Placing /\ a = Head(run'[q].todo)
      <3>1. CASE q = p
        BY <3>1, <2>3, <2>n, <1>r, <1>b, <1>u DEF ContactIInv, CampaignKnown, Begun
      <3>2. CASE q # p
        BY <3>2, <2>o, <2>3, <1>u DEF ContactIInv, FirstContacts
      <3> QED
        BY <3>1, <3>2
    <2>4. ASSUME NEW q \in Researchers, Going(q, "contact")'
          PROVE  ~run'[q].reused /\ contacted'[Item(q)'] = 0
      <3>1. q # p /\ run'[q] = run[q]
        BY <2>4, <1>r, <1>b DEF Begun, Going
      <3> QED
        BY <3>1, <2>4, <1>u DEF ContactIInv, FirstContacts, Going, Item
    <2>5. ASSUME NEW q \in Researchers, FirstRun(q)', run'[q].at \in {"look", "contact"}
          PROVE  /\ Head(run'[q].todo) \notin run'[q].denied
                 /\ Wave[Head(run'[q].todo)] = 1 => FirstRecorded'
      <3>1. q # p /\ run'[q] = run[q] /\ FirstRun(q)
        BY <2>5, <2>o, <1>r, <1>b DEF Begun, Going
      <3> QED
        BY <3>1, <2>5, <1>u DEF ContactIInv, FirstContacts, FirstRecorded
    <2> QED
      BY <2>2, <2>3, <2>4, <2>5 DEF FirstContacts
  <1>6. DeniedStays'
    <2> SUFFICES ASSUME NEW q \in Researchers, ~Going(q, "out")', NEW a \in run'[q].denied
                 PROVE  \/ a \notin GrantOf(q)'.holds \/ GrantOf(q)'.excluded \/ GrantOf(q)'.revoked
                        \/ run'[q].expired \/ decided'[a] = "REFUSE"
      BY DEF DeniedStays
    <2>1. CASE q = p
      <3>1. a \in Denied(ask.grant) /\ GrantOf(q)' = grants[ask.grant]
            /\ run'[q].expired = grants[ask.grant].expired
        BY <2>1, <1>r, <1>b, <1>c, <1>u DEF Begun, GrantOf
      <3> QED
        BY <3>1, <1>u DEF Denied
    <2>2. CASE q # p
      <3>1. run'[q] = run[q] /\ ~Going(q, "out")
        BY <2>2, <1>r DEF Going
      <3> QED
        BY <3>1, <2>2, <1>g, <1>u DEF ContactIInv, DeniedStays
    <2> QED
      BY <2>1, <2>2
  <1>7. ContactGranted'
    BY <1>5 DEF ContactGranted, FirstContacts, FirstRun, Going
  <1> QED
    BY <1>1, <1>2, <1>3, <1>5, <1>6, <1>7 DEF ContactIInv

(* A step that contacts nobody and takes no action in hand.                 *)
LEMMA QuietStep ==
  ASSUME ContactIInv, NEW p \in Researchers, ~Going(p, "out"), NEW row, Carries(p, row), Touches(p),
         row.at \notin {"look", "contact"},
         row.at \notin {"out", "next"} => run[p].at \notin {"out", "next"},
         row.at \in {"stage", "mark", "rename", "record"} => row.body # NoFile,
         run[p].at \in Placing =>
           row.at \in Placing \cup {"out"} \/ results'[Item(p)] # NoFile,
         UNCHANGED <<planned, decided, grants, campaign, contacted>>,
         troubles' \in 0..MaxResearchFaults
  PROVE  ContactIInv'
  <1>1. row.at \notin {"out", "next"} => run[p].todo # <<>> /\ Head(run[p].todo) \in GrantOf(p).holds
    BY WorksOn
  <1>2. ASSUME row.at # "out", ~run[p].reused, NEW a \in Actions, contacted'[<<run[p].key, a>>] > 0
        PROVE  \/ results'[<<run[p].key, a>>] # NoFile
               \/ row.at \in Placing /\ a = Head(run[p].todo)
    <2>1. FirstRun(p) /\ <<run[p].key, a>> \in Items
      BY <1>2 DEF FirstRun, Items, ContactIInv, CampaignKnown
    <2>2. \/ results[<<run[p].key, a>>] # NoFile
          \/ run[p].at \in Placing /\ a = Head(run[p].todo)
      BY <2>1, <1>2 DEF ContactIInv, FirstContacts
    <2>3. CASE results[<<run[p].key, a>>] # NoFile
      BY <2>1, <2>3 DEF Touches
    <2>4. CASE run[p].at \in Placing /\ a = Head(run[p].todo)
      BY <2>4, <1>2 DEF Item
    <2> QED
      BY <2>2, <2>3, <2>4
  <1>3. Lawful(p, row)
    BY <1>1, <1>2 DEF Lawful
  <1> QED
    BY <1>3, CampaignStep

(* The bound of the faults.                                                 *)
LEMMA TroublesKept ==
  ASSUME ResearchTypeOK
  PROVE  /\ troubles' = troubles => troubles' \in 0..MaxResearchFaults
         /\ Fault => troubles' \in 0..MaxResearchFaults
  BY ResearchAssumption DEF ResearchTypeOK, Fault

(* Taking an action: a first process asks the policy.                       *)
LEMMA TakeActionStep ==
  ASSUME ContactIInv, NEW p \in Researchers, TakeAction(p)
  PROVE  ContactIInv'
  <1>t. ResearchTypeOK /\ troubles' \in 0..MaxResearchFaults
    BY TroublesKept DEF ContactIInv, TakeAction
  <1>0. ~Going(p, "out") /\ run[p].at = "next" /\ Touches(p) /\ run[p].todo # <<>>
        /\ UNCHANGED <<planned, decided, grants, campaign, results, artefact, contacted>>
    BY <1>t, TouchNothing DEF TakeAction, Going
  <1>1. CASE Out(p)
    BY <1>1, <1>0, <1>t, OutRow, RestingRow, QuietStep DEF Placing
  <1>2. CASE Reach(p, "look") /\ Head(run[p].todo) \in GrantOf(p).holds
             /\ (run[p].reused \/ Allowed(p, Head(run[p].todo)))
    <2>1. PICK row : Carries(p, row) /\ row.at = "look" /\ row.todo = run[p].todo
      BY <1>2, <1>t, ReachRow DEF RunPlaces
    <2>2. ASSUME ~run[p].reused
          PROVE  /\ Head(run[p].todo) \notin run[p].denied
                 /\ Wave[Head(run[p].todo)] = 1 => FirstRecorded
      <3>1. Allowed(p, Head(run[p].todo))
        BY <1>2, <2>2
      <3>2. Head(run[p].todo) \notin run[p].denied
        BY <1>0, <3>1 DEF ContactIInv, DeniedStays, Allowed, Admissible
      <3>3. Wave[Head(run[p].todo)] = 1 => FirstRecorded
        BY <3>1 DEF Allowed, Admissible, FirstWaveDone, FirstRecorded
      <3> QED
        BY <3>2, <3>3
    <2>3. ASSUME ~run[p].reused, NEW a \in Actions, contacted[<<run[p].key, a>>] > 0
          PROVE  results[<<run[p].key, a>>] # NoFile
      BY <2>3, <1>0 DEF ContactIInv, FirstContacts, FirstRun, Placing
    <2>4. Lawful(p, row)
      BY <1>0, <1>2, <2>1, <2>2, <2>3 DEF Lawful
    <2> QED
      BY <1>0, <1>t, <2>1, <2>4, CampaignStep
  <1> QED
    BY <1>1, <1>2 DEF TakeAction

(* Looking at what there is of an action.                                   *)
LEMMA LookStep ==
  ASSUME ContactIInv, NEW p \in Researchers, LookUnrecorded(p)
  PROVE  ContactIInv'
  <1>t. ResearchTypeOK /\ troubles' \in 0..MaxResearchFaults
    BY TroublesKept DEF ContactIInv, LookUnrecorded
  <1>0. /\ ~Going(p, "out") /\ run[p].at = "look" /\ Touches(p) /\ results[Item(p)] = NoFile
        /\ UNCHANGED <<planned, decided, grants, campaign, results, artefact, contacted>>
    BY <1>t, TouchNothing DEF LookUnrecorded, Going
  <1>i. /\ Item(p) \in Items /\ Item(p) = <<run[p].key, Head(run[p].todo)>> /\ run[p].todo # <<>>
        /\ Head(run[p].todo) \in GrantOf(p).holds /\ Head(run[p].todo) \in Actions
    BY <1>0, WorksOn
  <1>1. CASE ~run[p].reused /\ Reach(p, "contact")
    <2>1. PICK row : Carries(p, row) /\ row.at = "contact" /\ row.todo = run[p].todo
      BY <1>1, <1>t, ReachRow DEF RunPlaces
    <2>2. FirstRun(p)
      BY <1>0, <1>1 DEF FirstRun
    <2>3. \A a \in Actions : contacted[<<run[p].key, a>>] > 0 => results[<<run[p].key, a>>] # NoFile
      BY <2>2, <1>0 DEF ContactIInv, FirstContacts, Placing
    <2>4. contacted[Item(p)] = 0
      BY <2>3, <1>0, <1>i, <1>t DEF ResearchTypeOK
    <2>5. /\ Head(run[p].todo) \notin run[p].denied
          /\ Wave[Head(run[p].todo)] = 1 => FirstRecorded
      BY <2>2, <1>0 DEF ContactIInv, FirstContacts
    <2>6. Lawful(p, row)
      BY <1>0, <1>i, <1>1, <2>1, <2>3, <2>4, <2>5 DEF Lawful
    <2> QED
      BY <1>0, <1>t, <2>1, <2>6, CampaignStep
  <1>2. CASE Hold(p, "reconcile", artefact[Item(p)].final)
    <2>1. artefact[Item(p)].final \in Nat
      BY <1>i, <1>t DEF ResearchTypeOK
    <2>2. PICK row : Carries(p, row) /\ row.at = "reconcile"
      BY <1>2, <2>1, <1>t, HoldRow DEF RunPlaces
    <2> QED
      BY <2>2, <1>0, <1>t, QuietStep DEF Placing
  <1>3. CASE Out(p)
    BY <1>3, <1>0, <1>t, OutRow, RestingRow, QuietStep DEF Placing
  <1>4. CASE NextAction(p)
    <2>1. PICK row : Carries(p, row) /\ row.at = "next"
      BY <1>4, <1>i, <1>t, NextRow
    <2> QED
      BY <2>1, <1>0, <1>t, QuietStep DEF Placing
  <1> QED
    BY <1>0, <1>1, <1>2, <1>3, <1>4 DEF LookUnrecorded

(* The contact.                                                             *)
LEMMA ContactStep ==
  ASSUME ContactIInv, NEW p \in Researchers, Contact(p)
  PROVE  ContactIInv'
  <1>t. ResearchTypeOK /\ troubles' \in 0..MaxResearchFaults
    BY TroublesKept DEF ContactIInv, Contact
  <1>0. ~Going(p, "out") /\ run[p].at = "contact" /\ UNCHANGED <<planned, decided, grants, campaign, results, artefact>>
    BY DEF Contact, Going
  <1>i. /\ Item(p) \in Items /\ Item(p) = <<run[p].key, Head(run[p].todo)>> /\ run[p].todo # <<>>
        /\ Head(run[p].todo) \in GrantOf(p).holds /\ Head(run[p].todo) \in Actions
        /\ run[p].key \in Campaigns
    BY <1>0, WorksOn
  <1>1. /\ contacted' \in [Items -> Nat] /\ contacted'[Item(p)] = 1
        /\ \A i \in Items : i # Item(p) => contacted'[i] = contacted[i]
    <2>1. contacted[Item(p)] = 0 /\ contacted \in [Items -> Nat]
      BY <1>0, <1>t DEF ContactIInv, FirstContacts, Going, ResearchTypeOK
    <2> QED
      BY <2>1, <1>i DEF Contact
  <1>2. Touches(p)
    BY <1>0, <1>1, <1>t DEF Touches, ResearchTypeOK, FileRows
  <1>3. PICK row : Carries(p, row) /\ row.at \in {"out", "stage"}
                   /\ (row.at = "stage" => row.todo = run[p].todo /\ row.body # NoFile)
    <2>1. CASE Hold(p, "stage", contacted'[Item(p)])
      BY <2>1, <1>1, <1>t, HoldRow DEF RunPlaces, Placing, NoFile
    <2>2. CASE Out(p)
      BY <2>2, OutRow, RestingRow
    <2> QED
      BY <2>1, <2>2 DEF Contact
  <1>4. ASSUME row.at # "out", NEW a \in Actions, contacted'[<<run[p].key, a>>] > 0
        PROVE  \/ results[<<run[p].key, a>>] # NoFile
               \/ row.at \in Placing /\ a = Head(run[p].todo)
    <2>1. CASE a = Head(run[p].todo)
      BY <2>1, <1>3, <1>4 DEF Placing
    <2>2. CASE a # Head(run[p].todo)
      <3>1. <<run[p].key, a>> \in Items /\ <<run[p].key, a>> # Item(p)
        BY <2>2, <1>i DEF Items
      <3>2. contacted[<<run[p].key, a>>] > 0 /\ FirstRun(p)
        BY <3>1, <1>1, <1>4, <1>0 DEF FirstRun, Going, ContactIInv, FirstContacts
      <3> QED
        BY <3>2, <1>0 DEF ContactIInv, FirstContacts, Placing
    <2> QED
      BY <2>1, <2>2
  <1>5. Lawful(p, row)
    BY <1>0, <1>i, <1>1, <1>3, <1>4 DEF Lawful, Going, Carries
  <1> QED
    BY <1>0, <1>t, <1>2, <1>3, <1>5, CampaignStep

(* The steps that publish, and those that find something published.         *)
LEMMA PublishesQuietly ==
  ASSUME ContactIInv, NEW p \in Researchers,
         AlreadyRecorded(p) \/ Reconcile(p) \/ ReconcileFails(p) \/ Publish(p)
  PROVE  ContactIInv'
  <1>t. ResearchTypeOK
    BY DEF ContactIInv
  <1>0. run[p].at \in Placing \cup {"look", "reconcile", "unmark"}
    BY DEF AlreadyRecorded, Reconcile, ReconcileFails, Publish, Stage, Mark, Rename, StageFails, Record,
           RecordFails, RemoveFinal, CleanUp, FailCampaign, Unmark, Going, Placing
  <1>a. run[p].at \notin {"out", "next"} /\ ~Going(p, "out")
    BY <1>0 DEF Placing, Going
  <1>u. UNCHANGED <<planned, decided, grants, campaign, contacted>> /\ troubles' \in 0..MaxResearchFaults
    BY <1>t, TroublesKept
       DEF AlreadyRecorded, Reconcile, ReconcileFails, Publish, Stage, Mark, Rename, StageFails, Record,
           RecordFails, RemoveFinal, CleanUp, FailCampaign, Unmark
  <1>i. Item(p) \in Items /\ run[p].todo # <<>>
    BY <1>a, WorksOn
  <1>f. /\ artefact[Item(p)] \in FileRows /\ run[p].body \in Nat
        /\ artefact[Item(p)].final \in Nat /\ artefact[Item(p)].staging \in Nat /\ artefact[Item(p)].mark \in Nat
        /\ artefact[Item(p)].stuck \in BOOLEAN
    BY <1>i, <1>t, RunTypes DEF ResearchTypeOK, FileRows
  <1>1. Touches(p)
    <2>1. CASE UNCHANGED <<results, artefact>>
      BY <2>1, <1>t, <1>u, TouchNothing
    <2>2. CASE /\ UNCHANGED results
               /\ \/ \E m \in {NoFile, artefact[Item(p)].mark}, s \in {NoFile, artefact[Item(p)].staging} :
                       Disk(p, [artefact[Item(p)] EXCEPT !.mark = m, !.staging = s])
                  \/ Disk(p, [artefact[Item(p)] EXCEPT !.staging = run[p].body])
                  \/ Disk(p, [artefact[Item(p)] EXCEPT !.mark = run[p].body])
                  \/ Disk(p, [artefact[Item(p)] EXCEPT !.final = artefact[Item(p)].staging, !.staging = NoFile])
                  \/ Disk(p, [artefact[Item(p)] EXCEPT !.final = NoFile])
                  \/ Disk(p, [artefact[Item(p)] EXCEPT !.stuck = TRUE])
                  \/ Disk(p, [artefact[Item(p)] EXCEPT !.staging = NoFile])
                  \/ Disk(p, [artefact[Item(p)] EXCEPT !.mark = NoFile])
      <3> DEFINE f == artefact[Item(p)]
      <3>1. /\ \A m, s \in Nat : [f EXCEPT !.mark = m, !.staging = s] \in FileRows
            /\ [f EXCEPT !.staging = run[p].body] \in FileRows
            /\ [f EXCEPT !.mark = run[p].body] \in FileRows
            /\ [f EXCEPT !.final = f.staging, !.staging = NoFile] \in FileRows
            /\ [f EXCEPT !.final = NoFile] \in FileRows
            /\ [f EXCEPT !.stuck = TRUE] \in FileRows
            /\ [f EXCEPT !.staging = NoFile] \in FileRows
            /\ [f EXCEPT !.mark = NoFile] \in FileRows
        BY <1>f DEF FileRows, NoFile
      <3>2. \A row \in FileRows : Disk(p, row) => Touches(p)
        BY <2>2, <1>a, <1>u, TouchFiles
      <3>3. {NoFile, f.mark, f.staging} \subseteq Nat
        BY <1>f DEF NoFile
      <3> QED
        BY <2>2, <3>1, <3>2, <3>3
    <2>3. CASE /\ results' = [results EXCEPT ![Item(p)] = run[p].body] /\ UNCHANGED artefact
               /\ run[p].body # NoFile
      BY <2>3, <1>a, <1>f, <1>u, TouchResults
    <2>4. run[p].at \in {"stage", "mark", "rename", "record"} => run[p].body # NoFile
      BY DEF ContactIInv, CampaignKnown
    <2> QED
      BY <2>1, <2>2, <2>3, <2>4
         DEF Going, AlreadyRecorded, Reconcile, ReconcileFails, Publish, Stage, Mark, Rename, StageFails, Record,
           RecordFails, RemoveFinal, CleanUp, FailCampaign, Unmark
  <1>2. ASSUME NEW place \in Placing, Reach(p, place),
               \/ place \in {"remove", "clean", "fail"}
               \/ run[p].at \in {"stage", "mark", "rename", "record"}
        PROVE ContactIInv'
    <2>1. PICK row : Carries(p, row) /\ row.at = place /\ row.body = run[p].body
      BY <1>2, <1>t, ReachRow DEF RunPlaces, Placing
    <2>2. row.at \notin {"look", "contact"} /\ row.at \in Placing
      BY <2>1 DEF Placing
    <2>3. row.at \in {"stage", "mark", "rename", "record"} => row.body # NoFile
      BY <1>2, <2>1 DEF ContactIInv, CampaignKnown
    <2> QED
      BY <2>1, <2>2, <2>3, <1>1, <1>a, <1>u, QuietStep
  <1>3. CASE Out(p)
    BY <1>3, <1>1, <1>a, <1>u, OutRow, RestingRow, QuietStep
  <1>4. CASE NextAction(p) /\ run[p].at \in {"look", "unmark"}
    <2>1. PICK row : Carries(p, row) /\ row.at = "next"
      BY <1>4, <1>i, <1>t, NextRow
    <2>2. run[p].at \notin Placing
      BY <1>4 DEF Placing
    <2> QED
      BY <2>1, <2>2, <1>1, <1>a, <1>u, QuietStep
  <1>5. CASE Reach(p, "unmark") /\ (run[p].at = "reconcile" \/ results'[Item(p)] # NoFile)
    <2>1. PICK row : Carries(p, row) /\ row.at = "unmark"
      BY <1>5, <1>t, ReachRow DEF RunPlaces
    <2>2. run[p].at \in Placing => results'[Item(p)] # NoFile
      BY <1>5 DEF Placing
    <2> QED
      BY <2>1, <2>2, <1>1, <1>a, <1>u, QuietStep
  <1>6. Record(p) => results'[Item(p)] # NoFile
    BY <1>i, <1>t DEF Record, ResearchTypeOK, ContactIInv, CampaignKnown, Going
  <1> QED
    BY <1>2, <1>3, <1>4, <1>5, <1>6
       DEF AlreadyRecorded, Reconcile, ReconcileFails, Publish, Stage, Mark, Rename, StageFails, Record,
           RecordFails, RemoveFinal, CleanUp, FailCampaign, Unmark, Going, Placing

Backed(file, result) ==
  /\ result # NoFile => file.final = result
  /\ file.final # NoFile /\ ~file.stuck => file.final \in {result, file.mark}

(* While one process at a time runs a campaign, a step only has to account  *)
(* for the files of its own action.                                         *)
LEMMA FilesStep ==
  ASSUME ResearchIInv, NEW p \in Researchers, ~Going(p, "out"), NEW row, Carries(p, row), Touches(p),
         row.at \notin {"out", "next"} => Fits(row, artefact'[Item(p)], results'[Item(p)]),
         row.at \in Placing \cup {"reconcile"} /\ ~run[p].reused => contacted'[Item(p)] > 0,
         \A i \in Items : contacted'[i] = 0 => contacted[i] = 0,
         \/ UNCHANGED <<results, artefact>>
         \/ /\ run[p].reused \/ contacted'[Item(p)] # 0
            /\ Backed(artefact'[Item(p)], results'[Item(p)]),
         UNCHANGED <<grants, campaign>>
  PROVE  FilesInHand' /\ ResultBacked' /\ ArtefactAccounted'
  <1>t. ResearchTypeOK /\ ContactIInv
    BY DEF ResearchIInv, ContactIInv
  <1>r. /\ run' \in [Researchers -> RunRows] /\ run'[p] = row
        /\ \A q \in Researchers \ {p} : run'[q] = run[q]
    BY <1>t, Carried
  <1>c. /\ row.at = "out" => row = Resting
        /\ row.at # "out" => /\ row.key = run[p].key /\ row.reused = run[p].reused
                             /\ row.todo = run[p].todo \/ row.at = "next"
    BY RestingRow DEF Carries
  <1>k. run[p].key \in Campaigns
    BY <1>t DEF ContactIInv, CampaignKnown
  <1>n. NoGrant \notin Campaigns
    BY ResearchAssumption
  <1>w. run[p].at \notin {"out", "next"} =>
          Item(p) \in Items /\ Item(p) = <<run[p].key, Head(run[p].todo)>> /\ Head(run[p].todo) \in GrantOf(p).holds
    BY <1>t, WorksOn
  <1>o. \A i \in Items : i[1] # run[p].key \/ i # Item(p) \/ UNCHANGED <<results, artefact>> =>
          results'[i] = results[i] /\ artefact'[i] = artefact[i]
    BY <1>w DEF Touches
  <1>1. OneAtATime'
    <2> SUFFICES ASSUME NEW q \in Researchers, NEW r \in Researchers, run'[q].key = run'[r].key, run'[q].at # "out"
                 PROVE  q = r
      BY DEF OneAtATime, Going
    <2>1. \A x \in Researchers : run'[x].at # "out" => run'[x].key = run[x].key /\ run[x].at # "out" /\ run[x].key \in Campaigns
      BY <1>r, <1>c, <1>t DEF ContactIInv, CampaignKnown, Going
    <2>2. \A x \in Researchers : run'[x].at = "out" => run'[x].key = NoGrant
      BY <1>r, <1>c, <1>t, RestingRow DEF ContactIInv, CampaignKnown, Going
    <2> QED
      BY <2>1, <2>2, <1>n DEF ResearchIInv, FilesInHand, OneAtATime, Going
  <1>2. ASSUME NEW q \in Researchers, q # p PROVE InHand(q)' /\ NothingBefore(q)'
    <2>1. run'[q] = run[q] /\ Item(q)' = Item(q)
      BY <1>2, <1>r DEF Item
    <2>2. CASE run[q].at = "out"
      BY <2>1, <2>2 DEF InHand, Fits, NothingBefore, FirstRun, Going, Placing
    <2>3. CASE run[q].at # "out"
      <3>1. run[q].key # run[p].key /\ run[q].key \in Campaigns
        BY <1>2, <2>3, <1>t DEF ResearchIInv, FilesInHand, OneAtATime, Going, ContactIInv, CampaignKnown
      <3>2. InHand(q) /\ NothingBefore(q)
        BY DEF ResearchIInv, FilesInHand
      <3>3. \A a \in Actions : <<run[q].key, a>> \in Items /\ <<run[q].key, a>> # Item(p)
                               /\ <<run[q].key, a>>[1] # run[p].key
        BY <3>1 DEF Items, Item
      <3>4. ASSUME run[q].at \notin {"out", "next"}
            PROVE  /\ Item(q) \in Items
                   /\ artefact'[Item(q)] = artefact[Item(q)] /\ results'[Item(q)] = results[Item(q)]
                   /\ contacted'[Item(q)] = contacted[Item(q)]
        <4>1. Item(q) = <<run[q].key, Head(run[q].todo)>> /\ Head(run[q].todo) \in Actions
          BY <3>4, <1>t, WorksOn
        <4> QED
          BY <4>1, <3>3, <1>o DEF Touches
      <3>5. InHand(q)'
        <4>1. CASE run[q].at = "next"
          BY <4>1, <2>1 DEF InHand, Fits, Placing
        <4>2. CASE run[q].at # "next"
          BY <4>2, <2>3, <2>1, <3>2, <3>4 DEF InHand
        <4> QED
          BY <4>1, <4>2
      <3>6. NothingBefore(q)'
        <4> SUFFICES ASSUME FirstRun(q)'
                     PROVE  /\ \A a \in Actions : contacted'[<<run[q].key, a>>] = 0 => NothingOf(run[q].key, a)'
                            /\ run[q].at \in Placing \cup {"reconcile"} => contacted'[Item(q)] > 0
          BY <2>1 DEF NothingBefore
        <4>1. FirstRun(q)
          BY <2>1 DEF FirstRun, Going
        <4>2. \A a \in Actions : contacted'[<<run[q].key, a>>] = 0 => NothingOf(run[q].key, a)'
          BY <4>1, <2>1, <3>2, <3>3, <1>o DEF NothingBefore, NothingOf, Touches
        <4>3. run[q].at \in Placing \cup {"reconcile"} => contacted'[Item(q)] > 0
          BY <4>1, <3>2, <3>4 DEF NothingBefore, Placing
        <4> QED
          BY <4>2, <4>3
      <3> QED
        BY <3>5, <3>6
    <2> QED
      BY <2>2, <2>3
  <1>3. InHand(p)'
    <2>1. CASE row.at \in {"out", "next"}
      BY <2>1, <1>r DEF InHand, Fits, Placing
    <2>2. CASE row.at \notin {"out", "next"}
      BY <2>2, <1>r, <1>c DEF InHand, Item
    <2> QED
      BY <2>1, <2>2
  <1>4. NothingBefore(p)'
    <2> SUFFICES ASSUME FirstRun(p)'
                 PROVE  /\ \A a \in Actions : contacted'[<<row.key, a>>] = 0 => NothingOf(row.key, a)'
                        /\ row.at \in Placing \cup {"reconcile"} => contacted'[Item(p)'] > 0
      BY <1>r DEF NothingBefore
    <2>1. row.at # "out" /\ row.key = run[p].key /\ ~run[p].reused /\ FirstRun(p)
      BY <1>r, <1>c DEF FirstRun, Going
    <2>2. ASSUME NEW a \in Actions, contacted'[<<run[p].key, a>>] = 0 PROVE NothingOf(run[p].key, a)'
      <3>1. <<run[p].key, a>> \in Items
        BY <1>k DEF Items
      <3>2. NothingOf(run[p].key, a)
        BY <2>1, <2>2, <3>1 DEF ResearchIInv, FilesInHand, NothingBefore
      <3>3. UNCHANGED <<results, artefact>> \/ <<run[p].key, a>> # Item(p)
        BY <2>1, <2>2
      <3> QED
        BY <3>1, <3>2, <3>3, <2>1, <1>r, <1>o DEF NothingOf
    <2>3. row.at \in Placing \cup {"reconcile"} => contacted'[Item(p)'] > 0
      BY <2>1, <1>r, <1>c DEF Item, Placing
    <2> QED
      BY <2>1, <2>2, <2>3, <1>r DEF NothingOf
  <1>5. ResultBacked'
    <2> SUFFICES ASSUME NEW k \in Campaigns, NEW a \in Actions, results'[<<k, a>>] # NoFile
                 PROVE  /\ artefact'[<<k, a>>].final = results'[<<k, a>>]
                        /\ a \in grants[campaign[k].grant].holds
      BY DEF ResultBacked
    <2>1. <<k, a>> \in Items
      BY DEF Items
    <2>2. CASE <<k, a>> # Item(p) \/ UNCHANGED <<results, artefact>>
      BY <2>1, <2>2, <1>o DEF ResearchIInv, ResultBacked
    <2>3. CASE <<k, a>> = Item(p) /\ ~UNCHANGED <<results, artefact>>
      <3>1. run[p].at \notin {"out", "next"}
        BY <2>3 DEF Touches
      <3>2. k = run[p].key /\ a = Head(run[p].todo) /\ a \in GrantOf(p).holds
        BY <2>3, <3>1, <1>w DEF Item
      <3> QED
        BY <2>3, <3>2 DEF GrantOf, Backed
    <2> QED
      BY <2>2, <2>3
  <1>6. ArtefactAccounted'
    <2> SUFFICES ASSUME NEW i \in Items, artefact'[i].final # NoFile, ~artefact'[i].stuck
                 PROVE  artefact'[i].final \in {results'[i], artefact'[i].mark}
      BY DEF ArtefactAccounted
    <2> QED
      BY <1>o DEF ResearchIInv, ArtefactAccounted, Backed
  <1> QED
    BY <1>1, <1>2, <1>3, <1>4, <1>5, <1>6 DEF FilesInHand

(* A step that leaves the tables, and goes where it fits them.              *)
LEMMA FilesKept ==
  ASSUME ResearchIInv, NEW p \in Researchers, ~Going(p, "out"), NEW row, Carries(p, row),
         UNCHANGED <<results, artefact, contacted, grants, campaign>>,
         row.at \notin {"out", "next"} => Fits(row, artefact[Item(p)], results[Item(p)]),
         row.at \in Placing \cup {"reconcile"} =>
           run[p].reused \/ run[p].at \in Placing \cup {"reconcile"}
  PROVE  FilesInHand' /\ ResultBacked' /\ ArtefactAccounted'
  <1>1. Touches(p)
    BY TouchNothing DEF ResearchIInv, ContactIInv
  <1>2. run[p].at \in Placing \cup {"reconcile"} /\ ~run[p].reused => contacted[Item(p)] > 0
    BY DEF ResearchIInv, FilesInHand, NothingBefore, FirstRun, Going, Placing
  <1> QED
    BY <1>1, <1>2, FilesStep

(* A step that writes a file of its action.                                 *)
LEMMA FilesWritten ==
  ASSUME ResearchIInv, NEW p \in Researchers, NEW row, Carries(p, row),
         run[p].at \in Placing \cup {"reconcile", "unmark"} \/ (Going(p, "look") /\ results[Item(p)] # NoFile),
         Touches(p), UNCHANGED <<contacted, grants, campaign>>,
         row.at \notin {"out", "next"} => Fits(row, artefact'[Item(p)], results'[Item(p)]),
         row.at \in Placing \cup {"reconcile"} => run[p].at \in Placing,
         Backed(artefact'[Item(p)], results'[Item(p)])
  PROVE  FilesInHand' /\ ResultBacked' /\ ArtefactAccounted'
  <1>1. ~Going(p, "out") /\ run[p].at \notin {"out", "next"}
    BY DEF Going, Placing
  <1>2. /\ Item(p) \in Items /\ Item(p) = <<run[p].key, Head(run[p].todo)>> /\ Head(run[p].todo) \in Actions
        /\ contacted[Item(p)] \in Nat
    BY <1>1, WorksOn DEF ResearchIInv, ContactIInv, ResearchTypeOK
  <1>3. run[p].reused \/ contacted[Item(p)] # 0
    <2> SUFFICES ASSUME ~run[p].reused, contacted[Item(p)] = 0 PROVE FALSE
      OBVIOUS
    <2>1. FirstRun(p) /\ NothingBefore(p) /\ InHand(p)
      BY <1>1 DEF FirstRun, ResearchIInv, FilesInHand
    <2>2. results[Item(p)] = NoFile
      BY <2>1, <1>2 DEF NothingBefore, NothingOf
    <2>3. run[p].at \notin Placing \cup {"reconcile"}
      BY <2>1 DEF NothingBefore
    <2> QED
      BY <2>1, <2>2, <2>3 DEF InHand, Fits
  <1>4. row.at \in Placing \cup {"reconcile"} /\ ~run[p].reused => contacted'[Item(p)] > 0
    BY <1>2, <1>3
  <1> QED
    BY <1>1, <1>3, <1>4, FilesStep

(* Looking goes where the files allow it.                                   *)
LEMMA LookFiles ==
  ASSUME ResearchIInv, NEW p \in Researchers, LookUnrecorded(p)
  PROVE  FilesInHand' /\ ResultBacked' /\ ArtefactAccounted'
  <1>t. ContactIInv /\ ResearchTypeOK
    BY DEF ResearchIInv, ContactIInv
  <1>0. /\ ~Going(p, "out") /\ run[p].at = "look" /\ results[Item(p)] = NoFile
        /\ UNCHANGED <<results, artefact, contacted, grants, campaign>>
    BY DEF LookUnrecorded, Going
  <1>i. /\ Item(p) \in Items /\ Item(p) = <<run[p].key, Head(run[p].todo)>> /\ run[p].todo # <<>>
        /\ Head(run[p].todo) \in Actions
    BY <1>0, <1>t, WorksOn
  <1>1. CASE ~run[p].reused /\ Reach(p, "contact")
    <2>1. PICK row : Carries(p, row) /\ row.at = "contact"
      BY <1>1, <1>t, ReachRow DEF RunPlaces
    <2>2. FirstRun(p) /\ NothingBefore(p)
      BY <1>0, <1>1 DEF FirstRun, ResearchIInv, FilesInHand
    <2>c. \A a \in Actions : contacted[<<run[p].key, a>>] > 0 => results[<<run[p].key, a>>] # NoFile
      BY <2>2, <1>0, <1>t DEF ContactIInv, FirstContacts, Placing
    <2>3. contacted[Item(p)] = 0
      BY <2>c, <1>0, <1>i, <1>t DEF ResearchTypeOK
    <2>4. artefact[Item(p)] = NoFiles
      BY <2>2, <2>3, <1>i DEF NothingBefore, NothingOf
    <2>5. Fits(row, artefact[Item(p)], results[Item(p)])
      BY <2>1, <2>4, <1>0 DEF Fits, Placing
    <2> QED
      BY <2>1, <2>5, <1>0, FilesKept DEF Placing
  <1>2. CASE run[p].reused /\ Hold(p, "reconcile", artefact[Item(p)].final)
    <2>1. artefact[Item(p)].final \in Nat
      BY <1>i, <1>t DEF ResearchTypeOK
    <2>2. PICK row : Carries(p, row) /\ row.at = "reconcile" /\ row.body = artefact[Item(p)].final
      BY <1>2, <2>1, <1>t, HoldRow DEF RunPlaces
    <2>3. Fits(row, artefact[Item(p)], results[Item(p)])
      BY <2>2, <1>0 DEF Fits, Placing
    <2> QED
      BY <2>2, <2>3, <1>0, <1>2, FilesKept
  <1>3. CASE Out(p)
    BY <1>3, <1>0, OutRow, RestingRow, FilesKept DEF Placing
  <1>4. CASE NextAction(p)
    <2>1. PICK row : Carries(p, row) /\ row.at = "next"
      BY <1>4, <1>i, <1>t, NextRow
    <2> QED
      BY <2>1, <1>0, FilesKept DEF Placing
  <1> QED
    BY <1>0, <1>1, <1>2, <1>3, <1>4 DEF LookUnrecorded

(* The contact finds no file of its action.                                 *)
LEMMA ContactFiles ==
  ASSUME ResearchIInv, NEW p \in Researchers, Contact(p)
  PROVE  FilesInHand' /\ ResultBacked' /\ ArtefactAccounted'
  <1>t. ContactIInv /\ ResearchTypeOK
    BY DEF ResearchIInv, ContactIInv
  <1>0. ~Going(p, "out") /\ run[p].at = "contact" /\ UNCHANGED <<results, artefact, grants, campaign>>
    BY DEF Contact, Going
  <1>1. Item(p) \in Items /\ contacted \in [Items -> Nat] /\ contacted[Item(p)] = 0
    BY <1>0, <1>t, WorksOn DEF ResearchTypeOK, ContactIInv, FirstContacts, Going
  <1>2. /\ contacted' \in [Items -> Nat] /\ contacted'[Item(p)] = 1
        /\ \A i \in Items : i # Item(p) => contacted'[i] = contacted[i]
    BY <1>1 DEF Contact
  <1>3. Touches(p)
    BY <1>0, <1>2, <1>t DEF Touches, ResearchTypeOK, FileRows
  <1>4. PICK row : Carries(p, row) /\ row.at \in {"out", "stage"}
    <2>1. CASE Hold(p, "stage", contacted'[Item(p)])
      BY <2>1, <1>2, <1>t, HoldRow DEF RunPlaces, Placing
    <2>2. CASE Out(p)
      BY <2>2, OutRow, RestingRow
    <2> QED
      BY <2>1, <2>2 DEF Contact
  <1>5. row.at = "stage" => Fits(row, artefact[Item(p)], results[Item(p)])
    BY <1>0 DEF Fits, ResearchIInv, FilesInHand, InHand
  <1>6. \A i \in Items : contacted'[i] = 0 => contacted[i] = 0
    BY <1>2
  <1> QED
    BY <1>0, <1>2, <1>3, <1>4, <1>5, <1>6, FilesStep

(* Files are written in their order: staging, mark, final, rows; and        *)
(* removed in theirs: final, staging, mark.                                 *)
LEMMA PublishFiles ==
  ASSUME ResearchIInv, NEW p \in Researchers,
         AlreadyRecorded(p) \/ Reconcile(p) \/ ReconcileFails(p) \/ Publish(p)
  PROVE  FilesInHand' /\ ResultBacked' /\ ArtefactAccounted'
  <1> DEFINE i == Item(p)
             f == artefact[i]
  <1>t. ContactIInv /\ ResearchTypeOK
    BY DEF ResearchIInv, ContactIInv
  <1>0. run[p].at \in Placing \cup {"look", "reconcile", "unmark"}
    BY DEF AlreadyRecorded, Reconcile, ReconcileFails, Publish, Stage, Mark, Rename, StageFails, Record,
           RecordFails, RemoveFinal, CleanUp, FailCampaign, Unmark, Going, Placing
  <1>a. run[p].at \notin {"out", "next"} /\ ~Going(p, "out")
    BY <1>0 DEF Placing, Going
  <1>u. UNCHANGED <<grants, campaign, contacted>>
    BY DEF AlreadyRecorded, Reconcile, ReconcileFails, Publish, Stage, Mark, Rename, StageFails, Record,
           RecordFails, RemoveFinal, CleanUp, FailCampaign, Unmark
  <1>i. i \in Items /\ run[p].todo # <<>> /\ i = <<run[p].key, Head(run[p].todo)>>
        /\ run[p].key \in Campaigns /\ Head(run[p].todo) \in Actions
    BY <1>a, <1>t, WorksOn
  <1>f. f \in FileRows /\ run[p].body \in Nat /\ results[i] \in Nat
        /\ f.final \in Nat /\ f.staging \in Nat /\ f.mark \in Nat /\ f.stuck \in BOOLEAN
    BY <1>i, <1>t, RunTypes DEF ResearchTypeOK, FileRows
  <1>h. Fits(run[p], f, results[i]) /\ Backed(f, results[i])
    BY <1>i DEF ResearchIInv, FilesInHand, InHand, ResultBacked, ArtefactAccounted, Backed
  <1>b. run[p].at \in {"stage", "mark", "rename", "record"} => run[p].body # NoFile
    BY <1>t DEF ContactIInv, CampaignKnown
  <1>g. /\ FileRows = [final : Nat, staging : Nat, mark : Nat, stuck : BOOLEAN] /\ NoFile \in Nat
        /\ NoFiles.final = NoFile /\ NoFiles.staging = NoFile /\ NoFiles.mark = NoFile
    BY DEF FileRows, NoFile, NoFiles
  <1>w. ASSUME NEW row \in FileRows, Disk(p, row), UNCHANGED results
        PROVE  Touches(p) /\ artefact'[i] = row /\ results'[i] = results[i]
    BY <1>w, <1>a, <1>t, <1>u, TouchFiles
  <1>y. /\ UNCHANGED artefact => Disk(p, f)
        /\ \A row \in {[f EXCEPT !.staging = NoFile], [f EXCEPT !.mark = NoFile]} :
             row \in FileRows /\ row.final = f.final /\ row.stuck = f.stuck
    <2>1. UNCHANGED artefact => Disk(p, f)
      BY <1>i, <1>t DEF Disk, ResearchTypeOK
    <2> QED
      BY <2>1, <1>f, <1>g
  <1>p. ASSUME NEW place \in {"mark", "rename", "record", "remove", "clean", "fail", "unmark"}, Reach(p, place)
        PROVE  \E row : Carries(p, row) /\ row.at = place /\ row.body = run[p].body
    BY <1>p, <1>t, ReachRow DEF RunPlaces, Placing
  <1>1. CASE AlreadyRecorded(p)
    <2>1. PICK m \in {NoFile, f.mark}, s \in {NoFile, f.staging} :
            Disk(p, [f EXCEPT !.mark = m, !.staging = s])
      BY <1>1 DEF AlreadyRecorded
    <2> DEFINE row == [f EXCEPT !.mark = m, !.staging = s]
    <2>0. row \in FileRows /\ row.final = f.final
      BY <1>f, <1>g
    <2>2. Disk(p, row) /\ UNCHANGED results /\ Going(p, "look") /\ results[i] # NoFile /\ NextAction(p)
      BY <1>1, <2>1 DEF AlreadyRecorded
    <2> HIDE DEF row
    <2>3. PICK r : Carries(p, r) /\ r.at = "next"
      BY <2>2, <1>i, <1>t, NextRow
    <2>5. f.final = results[i]
      BY <2>2, <1>h DEF Backed
    <2>4. Touches(p) /\ Backed(artefact'[i], results'[i])
      BY <2>0, <2>2, <2>5, <1>w DEF Backed
    <2> QED
      BY <2>2, <2>3, <2>4, <1>u, FilesWritten DEF Placing
  <1>2. CASE Reconcile(p)
    <2>1. /\ Going(p, "reconcile") /\ run[p].body # NoFile /\ run[p].body = f.final /\ UNCHANGED artefact
          /\ results' = [results EXCEPT ![i] = run[p].body]
      BY <1>2, <1>h DEF Reconcile, Fits, Going
    <2>2. Touches(p) /\ results'[i] = run[p].body
      BY <2>1, <1>a, <1>t, <1>f, <1>u, TouchResults
    <2>3. PICK r : Carries(p, r) /\ r.at = "unmark"
      BY <1>2, <1>p DEF Reconcile
    <2>4. Backed(artefact'[i], results'[i]) /\ Fits(r, artefact'[i], results'[i])
      BY <2>1, <2>2, <2>3 DEF Backed, Fits, Placing
    <2> QED
      BY <2>1, <2>2, <2>3, <2>4, <1>u, FilesWritten DEF Placing, Going
  <1>3. CASE ReconcileFails(p) \/ RecordFails(p)
    <2>1. PICK r : Carries(p, r) /\ r.at = "remove"
      BY <1>3, <1>p DEF ReconcileFails, RecordFails
    <2>2. run[p].at \in Placing \cup {"reconcile"} /\ UNCHANGED <<results, artefact>>
      BY <1>3 DEF ReconcileFails, RecordFails, Going, Placing
    <2>3. Fits(r, f, results[i])
      BY <2>1, <2>2, <1>h DEF Fits
    <2> QED
      BY <2>1, <2>2, <2>3, <1>a, <1>u, FilesKept
  <1>4. CASE Stage(p)
    <2> DEFINE row == [f EXCEPT !.staging = run[p].body]
    <2>1. Going(p, "stage") /\ f = NoFiles /\ results[i] = NoFile /\ UNCHANGED results
      BY <1>4, <1>h DEF Stage, Fits, Going, Placing
    <2>2. row \in FileRows /\ row.final = NoFile /\ row.mark = NoFile /\ row.staging = run[p].body
      BY <1>f, <1>g, <2>1
    <2>3. Disk(p, row) /\ Reach(p, "mark")
      BY <1>4, <2>1, <1>g DEF Stage
    <2> HIDE DEF row
    <2>4. PICK r : Carries(p, r) /\ r.at = "mark" /\ r.body = run[p].body
      BY <2>3, <1>p
    <2>5. Touches(p) /\ Backed(artefact'[i], results'[i]) /\ Fits(r, artefact'[i], results'[i])
      BY <2>1, <2>2, <2>3, <2>4, <1>w DEF Backed, Fits
    <2> QED
      BY <2>1, <2>4, <2>5, <1>u, FilesWritten DEF Placing, Going
  <1>5. CASE Mark(p)
    <2> DEFINE row == [f EXCEPT !.mark = run[p].body]
    <2>1. /\ Going(p, "mark") /\ f.staging = run[p].body /\ f.final = NoFile /\ results[i] = NoFile
          /\ UNCHANGED results /\ Disk(p, row) /\ Reach(p, "rename")
      BY <1>5, <1>h DEF Mark, Fits, Going, Placing
    <2>2. row \in FileRows /\ row.final = NoFile /\ row.mark = run[p].body /\ row.staging = run[p].body
      BY <1>f, <1>g, <2>1
    <2> HIDE DEF row
    <2>4. PICK r : Carries(p, r) /\ r.at = "rename" /\ r.body = run[p].body
      BY <2>1, <1>p
    <2>5. Touches(p) /\ Backed(artefact'[i], results'[i]) /\ Fits(r, artefact'[i], results'[i])
      BY <2>1, <2>2, <2>4, <1>w DEF Backed, Fits
    <2> QED
      BY <2>1, <2>4, <2>5, <1>u, FilesWritten DEF Placing, Going
  <1>6. CASE Rename(p)
    <2> DEFINE row == [f EXCEPT !.final = f.staging, !.staging = NoFile]
    <2>1. /\ Going(p, "rename") /\ f.staging = run[p].body /\ f.mark = run[p].body /\ results[i] = NoFile
          /\ UNCHANGED results /\ Disk(p, row) /\ Reach(p, "record")
      BY <1>6, <1>h DEF Rename, Fits, Going, Placing
    <2>2. row \in FileRows /\ row.final = run[p].body /\ row.mark = run[p].body
      BY <1>f, <1>g, <2>1
    <2> HIDE DEF row
    <2>4. PICK r : Carries(p, r) /\ r.at = "record" /\ r.body = run[p].body
      BY <2>1, <1>p
    <2>5. Touches(p) /\ Backed(artefact'[i], results'[i]) /\ Fits(r, artefact'[i], results'[i])
      BY <2>1, <2>2, <2>4, <1>w DEF Backed, Fits
    <2> QED
      BY <2>1, <2>4, <2>5, <1>u, FilesWritten DEF Placing, Going
  <1>7. CASE StageFails(p)
    <2>1. PICK r : Carries(p, r) /\ r.at = "clean"
      BY <1>7, <1>p DEF StageFails
    <2>2. run[p].at \in {"stage", "mark", "rename"} /\ UNCHANGED <<results, artefact>>
      BY <1>7 DEF StageFails
    <2>3. Fits(r, f, results[i]) /\ run[p].at \in Placing
      BY <2>1, <2>2, <1>h, <1>g DEF Fits, Placing
    <2> QED
      BY <2>1, <2>2, <2>3, <1>a, <1>u, FilesKept
  <1>8. CASE Record(p)
    <2>1. /\ Going(p, "record") /\ run[p].body # NoFile /\ f.final = run[p].body /\ UNCHANGED artefact
          /\ results' = [results EXCEPT ![i] = run[p].body] /\ Reach(p, "unmark")
      BY <1>8, <1>h, <1>b DEF Record, Fits, Going
    <2>2. Touches(p) /\ results'[i] = run[p].body
      BY <2>1, <1>a, <1>t, <1>f, <1>u, TouchResults
    <2>3. PICK r : Carries(p, r) /\ r.at = "unmark"
      BY <2>1, <1>p
    <2>4. Backed(artefact'[i], results'[i]) /\ Fits(r, artefact'[i], results'[i])
      BY <2>1, <2>2, <2>3 DEF Backed, Fits, Placing
    <2> QED
      BY <2>1, <2>2, <2>3, <2>4, <1>u, FilesWritten DEF Placing, Going
  <1>9. CASE RemoveFinal(p)
    <2>1. /\ Going(p, "remove") /\ results[i] = NoFile /\ UNCHANGED results /\ Reach(p, "clean")
      BY <1>9, <1>h DEF RemoveFinal, Fits, Going, Placing
    <2>2. PICK row \in FileRows : Disk(p, row) /\ (row.final = NoFile \/ row.stuck)
      <3>1. /\ [f EXCEPT !.final = NoFile] \in FileRows /\ [f EXCEPT !.final = NoFile].final = NoFile
            /\ [f EXCEPT !.stuck = TRUE] \in FileRows /\ [f EXCEPT !.stuck = TRUE].stuck
        BY <1>f, <1>g
      <3> QED
        BY <1>9, <3>1 DEF RemoveFinal
    <2>4. PICK r : Carries(p, r) /\ r.at = "clean"
      BY <2>1, <1>p
    <2>5. Touches(p) /\ Backed(artefact'[i], results'[i]) /\ Fits(r, artefact'[i], results'[i])
      BY <2>1, <2>2, <2>4, <1>w DEF Backed, Fits
    <2> QED
      BY <2>1, <2>4, <2>5, <1>u, FilesWritten DEF Placing, Going
  <1>10. CASE CleanUp(p)
    <2>1. /\ Going(p, "clean") /\ results[i] = NoFile /\ (f.final = NoFile \/ f.stuck)
          /\ UNCHANGED results /\ Reach(p, "fail")
      BY <1>10, <1>h DEF CleanUp, Fits, Going, Placing
    <2>2. PICK row \in FileRows : Disk(p, row) /\ (row.final = NoFile \/ row.stuck)
      BY <2>1, <1>10, <1>f, <1>g, <1>y DEF CleanUp
    <2>4. PICK r : Carries(p, r) /\ r.at = "fail"
      BY <2>1, <1>p
    <2>5. Touches(p) /\ Backed(artefact'[i], results'[i]) /\ Fits(r, artefact'[i], results'[i])
      BY <2>1, <2>2, <2>4, <1>w DEF Backed, Fits
    <2> QED
      BY <2>1, <2>4, <2>5, <1>u, FilesWritten DEF Placing, Going
  <1>11. CASE FailCampaign(p)
    <2>1. /\ Going(p, "fail") /\ results[i] = NoFile /\ (f.final = NoFile \/ f.stuck)
          /\ UNCHANGED results /\ Out(p)
      BY <1>11, <1>h DEF FailCampaign, Fits, Going, Placing
    <2>2. PICK row \in FileRows : Disk(p, row) /\ (row.final = NoFile \/ row.stuck)
      BY <2>1, <1>11, <1>f, <1>g, <1>y DEF FailCampaign
    <2>5. Touches(p) /\ Backed(artefact'[i], results'[i])
      BY <2>1, <2>2, <1>w DEF Backed
    <2> QED
      BY <2>1, <2>5, <1>u, OutRow, RestingRow, FilesWritten DEF Placing, Going
  <1>12. CASE Unmark(p)
    <2>1. /\ Going(p, "unmark") /\ results[i] # NoFile /\ f.final = results[i]
          /\ UNCHANGED results /\ NextAction(p)
      BY <1>12, <1>h DEF Unmark, Fits, Backed, Going
    <2>2. PICK row \in FileRows : Disk(p, row) /\ row.final = f.final
      BY <1>12, <1>f, <1>g, <1>y DEF Unmark
    <2>4. PICK r : Carries(p, r) /\ r.at = "next"
      BY <2>1, <1>i, <1>t, NextRow
    <2>5. Touches(p) /\ Backed(artefact'[i], results'[i])
      BY <2>1, <2>2, <1>w DEF Backed
    <2> QED
      BY <2>1, <2>4, <2>5, <1>u, FilesWritten DEF Placing, Going
  <1> QED
    BY <1>1, <1>2, <1>3, <1>4, <1>5, <1>6, <1>7, <1>8, <1>9, <1>10, <1>11, <1>12 DEF Publish

(* A process that begins finds the files of a campaign nobody works on.     *)
LEMMA BeginFiles ==
  ASSUME ResearchIInv, ~Overlap, NEW p \in Researchers, NEW k \in Campaigns, NEW ask \in Asks, Begin(p, k, ask)
  PROVE  FilesInHand' /\ ResultBacked' /\ ArtefactAccounted'
  <1>t. ContactIInv /\ ResearchTypeOK
    BY DEF ResearchIInv, ContactIInv
  <1>u. UNCHANGED <<grants, results, artefact, contacted>>
    BY DEF Begin
  <1>a. campaign[k] \in {NoGrant, ask} /\ \A q \in Researchers : run[q].key # k
    BY DEF Begin
  <1>c. \A j \in Campaigns : campaign[j] # NoGrant => campaign'[j] = campaign[j]
    BY <1>t, <1>a DEF Begin, ResearchTypeOK
  <1>b. PICK row : Begun(p, k, ask, row)
    BY <1>t, BeginsRow
  <1>r. /\ run'[p] = row /\ row.at = "next" /\ row.key = k /\ row.reused = (campaign[k] = ask)
        /\ \A q \in Researchers \ {p} : run'[q] = run[q]
    BY <1>b, RunTypes, <1>t DEF Begun
  <1>1. OneAtATime'
    BY <1>r, <1>a DEF ResearchIInv, FilesInHand, OneAtATime, Going
  <1>2. ASSUME NEW q \in Researchers PROVE InHand(q)' /\ NothingBefore(q)'
    <2>1. CASE q = p
      <3>1. InHand(q)'
        BY <2>1, <1>r DEF InHand, Fits, Placing
      <3>2. NothingBefore(q)'
        <4> SUFFICES ASSUME FirstRun(q)'
                     PROVE  \A a \in Actions : contacted'[<<k, a>>] = 0 => NothingOf(k, a)'
          BY <2>1, <1>r DEF NothingBefore, NothingOf, Placing
        <4>1. campaign[k] = NoGrant
          BY <2>1, <1>r, <1>a DEF FirstRun
        <4> QED
          BY <4>1, <1>u, <1>t DEF ContactIInv, CampaignKnown, NothingOf
      <3> QED
        BY <3>1, <3>2
    <2>2. CASE q # p
      <3>1. run'[q] = run[q] /\ InHand(q) /\ NothingBefore(q)
        BY <2>2, <1>r DEF ResearchIInv, FilesInHand
      <3> QED
        BY <3>1, <1>u DEF InHand, NothingBefore, FirstRun, Going, NothingOf, Item
    <2> QED
      BY <2>1, <2>2
  <1>3. ResultBacked'
    <2> SUFFICES ASSUME NEW j \in Campaigns, NEW a \in Actions, results'[<<j, a>>] # NoFile
                 PROVE  /\ artefact'[<<j, a>>].final = results'[<<j, a>>]
                        /\ a \in grants'[campaign'[j].grant].holds
      BY DEF ResultBacked
    <2>1. campaign[j] # NoGrant
      BY <1>u, <1>t DEF ContactIInv, CampaignKnown, NothingOf
    <2> QED
      BY <2>1, <1>c, <1>u DEF ResearchIInv, ResultBacked
  <1>4. ArtefactAccounted'
    BY <1>u DEF ResearchIInv, ArtefactAccounted
  <1> QED
    BY <1>1, <1>2, <1>3, <1>4 DEF FilesInHand

(* Decisions and grants touch no file, and a grant keeps what it holds.     *)
LEMMA DecideFiles ==
  ASSUME ResearchIInv, Decide
  PROVE  FilesInHand' /\ ResultBacked' /\ ArtefactAccounted'
  <1>t. ContactIInv /\ ResearchTypeOK
    BY DEF ResearchIInv, ContactIInv
  <1>u. UNCHANGED <<campaign, results, artefact, contacted, run>>
    BY DEF Decide, AdmitPlan, AdmitGrant, RevokeGrant, ExpireGrant
  <1>1. \A g \in Grants : grants[g] # NoGrant => grants'[g].holds = grants[g].holds
    <2>0. grants \in [Grants -> GrantRows \cup {NoGrant}]
      BY <1>t DEF ResearchTypeOK
    <2>1. CASE AdmitPlan
      BY <2>1 DEF AdmitPlan
    <2>2. ASSUME NEW g \in Grants, NEW ask \in GrantAsks, AdmitGrant(g, ask)
          PROVE  \A h \in Grants : grants[h] # NoGrant => grants'[h].holds = grants[h].holds
      BY <2>2, <2>0 DEF AdmitGrant
    <2>3. ASSUME NEW g \in Grants, RevokeGrant(g) \/ ExpireGrant(g)
          PROVE  \A h \in Grants : grants[h] # NoGrant => grants'[h].holds = grants[h].holds
      <3>1. grants[g] \in GrantRows
        BY <2>3, <2>0 DEF RevokeGrant, ExpireGrant
      <3>2. /\ [grants[g] EXCEPT !.revoked = TRUE].holds = grants[g].holds
            /\ [grants[g] EXCEPT !.expired = TRUE].holds = grants[g].holds
        BY <3>1 DEF GrantRows
      <3>3. CASE RevokeGrant(g)
        <4> DEFINE new == [grants[g] EXCEPT !.revoked = TRUE]
        <4>1. grants' = [grants EXCEPT ![g] = new] /\ new.holds = grants[g].holds
          BY <3>2, <3>3 DEF RevokeGrant
        <4> HIDE DEF new
        <4> QED
          BY <4>1, <2>0
      <3>4. CASE ExpireGrant(g)
        <4> DEFINE new == [grants[g] EXCEPT !.expired = TRUE]
        <4>1. grants' = [grants EXCEPT ![g] = new] /\ new.holds = grants[g].holds
          BY <3>2, <3>4 DEF ExpireGrant
        <4> HIDE DEF new
        <4> QED
          BY <4>1, <2>0
      <3> QED
        BY <2>3, <3>3, <3>4
    <2> QED
      BY <2>1, <2>2, <2>3 DEF Decide
  <1>2. ASSUME NEW q \in Researchers PROVE InHand(q)' /\ NothingBefore(q)'
    <2>1. InHand(q) /\ NothingBefore(q)
      BY DEF ResearchIInv, FilesInHand
    <2> QED
      BY <2>1, <1>u DEF InHand, NothingBefore, FirstRun, Going, NothingOf, Item
  <1>3. ResultBacked'
    <2> SUFFICES ASSUME NEW j \in Campaigns, NEW a \in Actions, results'[<<j, a>>] # NoFile
                 PROVE  /\ artefact'[<<j, a>>].final = results'[<<j, a>>]
                        /\ a \in grants'[campaign'[j].grant].holds
      BY DEF ResultBacked
    <2>1. campaign[j] # NoGrant
      BY <1>u, <1>t DEF ContactIInv, CampaignKnown, NothingOf
    <2>2. campaign[j].grant \in Grants /\ grants[campaign[j].grant] # NoGrant
      BY <2>1, <1>t DEF ResearchTypeOK, Asks
    <2> QED
      BY <2>2, <1>1, <1>u DEF ResearchIInv, ResultBacked
  <1> QED
    BY <1>2, <1>3, <1>u DEF ResearchIInv, FilesInHand, OneAtATime, Going, ArtefactAccounted

(* The steps that only move the process.                                    *)
LEMMA MovesFiles ==
  ASSUME ResearchIInv, NEW p \in Researchers, TakeAction(p) \/ Answers(p) \/ KillResearch(p)
  PROVE  FilesInHand' /\ ResultBacked' /\ ArtefactAccounted'
  <1>t. ContactIInv /\ ResearchTypeOK
    BY DEF ResearchIInv, ContactIInv
  <1>u. UNCHANGED <<results, artefact, contacted, grants, campaign>> /\ ~Going(p, "out")
    BY <1>t DEF TakeAction, Answers, KillResearch, Going, ContactIInv, CampaignKnown
  <1>1. CASE Out(p)
    BY <1>1, <1>u, OutRow, RestingRow, FilesKept DEF Placing
  <1>2. CASE Reach(p, "look")
    <2>1. PICK row : Carries(p, row) /\ row.at = "look"
      BY <1>2, <1>t, ReachRow DEF RunPlaces
    <2> QED
      BY <2>1, <1>u, FilesKept DEF Placing, Fits
  <1> QED
    BY <1>1, <1>2 DEF TakeAction, Answers, KillResearch

(* A process that answers or is killed.                                     *)
LEMMA LeavesStep ==
  ASSUME ContactIInv, NEW p \in Researchers, Answers(p) \/ KillResearch(p)
  PROVE  ContactIInv'
  <1>t. ResearchTypeOK /\ troubles' \in 0..MaxResearchFaults
    BY TroublesKept DEF ContactIInv, Answers, KillResearch
  <1>u. /\ UNCHANGED <<planned, decided, grants, campaign, results, artefact, contacted>> /\ ~Going(p, "out")
        /\ Out(p)
    BY DEF Answers, KillResearch, Going, ContactIInv, CampaignKnown
  <1> QED
    BY <1>t, <1>u, TouchNothing, OutRow, RestingRow, QuietStep DEF Placing

(* Before anything was planned.                                             *)
LEMMA ResearchStarts == ResearchInit => ResearchIInv
  <1> SUFFICES ASSUME ResearchInit PROVE ResearchIInv
    OBVIOUS
  <1>r. \A p \in Researchers : run[p] = Resting
    BY DEF ResearchInit
  <1>a. \A i \in Items : results[i] = 0 /\ contacted[i] = 0 /\ artefact[i] = NoFiles /\ artefact[i].final = 0
    BY NoFilesRow DEF ResearchInit, NoFile
  <1>z. /\ results \in [Items -> Nat] /\ contacted \in [Items -> Nat]
        /\ artefact \in [Items -> [final : Nat, staging : Nat, mark : Nat, stuck : BOOLEAN]]
        /\ run \in [Researchers -> RunRows]
    BY RestingRow, NoFilesRow DEF ResearchInit, NoFile, FileRows
  <1>y. /\ planned \in BOOLEAN /\ decided \in [Actions -> {"NONE", "AUTHORIZE", "DEFER", "REFUSE"}]
        /\ grants \in [Grants -> GrantRows \cup {NoGrant}]
        /\ campaign \in [Campaigns -> Asks \cup {NoGrant}] /\ \A k \in Campaigns : campaign[k] = NoGrant
    BY DEF ResearchInit
  <1>x. troubles \in 0..MaxResearchFaults
    BY ResearchAssumption DEF ResearchInit
  <1>1. ResearchTypeOK
    BY <1>z, <1>y, <1>x DEF ResearchTypeOK
  <1>2. ContactedOnce /\ ContactGranted /\ FirstContacts /\ DeniedStays
    BY <1>r, <1>a, RestingRow
       DEF ContactedOnce, ContactGranted, FirstContacts, DeniedStays, FirstRun, Going
  <1>3. WavesInOrder /\ CampaignKnown /\ ResultBacked
    BY <1>r, <1>a, RestingRow
       DEF WavesInOrder, CampaignKnown, ResultBacked, Going, NothingOf, Items, NoFile
  <1>4. ArtefactAccounted
    BY <1>a DEF ArtefactAccounted, NoFile
  <1>5. FilesInHand
    BY <1>r, RestingRow DEF FilesInHand, OneAtATime, Going, InHand, Fits, NothingBefore, FirstRun, Placing
  <1> QED
    BY <1>1, <1>2, <1>3, <1>4, <1>5 DEF ResearchIInv, ContactIInv

(* No step breaks what holds of the contacts.                               *)
LEMMA ContactNext == ContactIInv /\ [ResearchNext]_researchVars => ContactIInv'
  <1> SUFFICES ASSUME ContactIInv, [ResearchNext]_researchVars PROVE ContactIInv'
    OBVIOUS
  <1>1. CASE UNCHANGED researchVars
    <2>0. UNCHANGED <<planned, decided, grants, campaign, results, artefact, contacted, run, troubles>>
      BY <1>1 DEF researchVars
    <2> QED
      BY <2>0, GrantsStep DEF ContactIInv, ResearchTypeOK
  <1>2. CASE Decide
    BY <1>2, DecideStep
  <1>3. ASSUME NEW p \in Researchers, RunCampaign(p) PROVE ContactIInv'
    BY <1>3, BeginStep, TakeActionStep, LookStep, ContactStep, PublishesQuietly, LeavesStep
       DEF RunCampaign, Asks
  <1> QED
    BY <1>1, <1>2, <1>3 DEF ResearchNext

(* Nor, one process at a time, what holds of the files.                     *)
LEMMA FilesNext == ~Overlap /\ ResearchIInv /\ [ResearchNext]_researchVars => ResearchIInv'
  <1> SUFFICES ASSUME ~Overlap, ResearchIInv, [ResearchNext]_researchVars PROVE ResearchIInv'
    OBVIOUS
  <1>0. ContactIInv'
    BY ContactNext DEF ResearchIInv
  <1>1. CASE UNCHANGED researchVars
    <2>1. UNCHANGED <<grants, campaign, results, artefact, contacted, run>>
      BY <1>1 DEF researchVars
    <2>2. OneAtATime' /\ ResultBacked' /\ ArtefactAccounted'
      BY <2>1 DEF ResearchIInv, FilesInHand, OneAtATime, Going, ResultBacked, ArtefactAccounted
    <2>3. ASSUME NEW q \in Researchers PROVE InHand(q)' /\ NothingBefore(q)'
      BY <2>1 DEF ResearchIInv, FilesInHand, InHand, NothingBefore, FirstRun, Going, NothingOf, Item
    <2> QED
      BY <1>0, <2>2, <2>3 DEF ResearchIInv, FilesInHand
  <1>2. CASE Decide
    BY <1>0, <1>2, DecideFiles DEF ResearchIInv
  <1>3. ASSUME NEW p \in Researchers, RunCampaign(p) PROVE FilesInHand' /\ ResultBacked' /\ ArtefactAccounted'
    BY <1>3, BeginFiles, MovesFiles, LookFiles, ContactFiles, PublishFiles DEF RunCampaign, Asks
  <1> QED
    BY <1>0, <1>1, <1>2, <1>3 DEF ResearchNext, ResearchIInv

(* However many processes run a campaign, however often it is sent again    *)
(* and wherever they die: the provider is contacted once at most for each   *)
(* action, with a grant that holds it and was not refused, revoked, expired *)
(* or excluded when the process started, and for the second wave only after *)
(* a result of the first (research_store_policy_decide, run-research).      *)
THEOREM ContactsAllowed == ResearchSpec => []ContactIInv
  <1>1. ResearchInit => ContactIInv
    BY ResearchStarts DEF ResearchIInv
  <1> QED
    BY <1>1, ContactNext, PTL DEF ResearchSpec

(* When the processes of one campaign follow each other: a recorded result  *)
(* has its artefact with the content it was recorded with, and an artefact  *)
(* is recorded or carries the mark that lets the next run record it         *)
(* (research_reconcile_publication).                                        *)
THEOREM CampaignsSound ==
  ASSUME ~Overlap
  PROVE  ResearchSpec => []ResearchIInv
  <1>1. ResearchIInv /\ [ResearchNext]_researchVars => ResearchIInv'
    BY FilesNext
  <1> QED
    BY <1>1, ResearchStarts, PTL DEF ResearchSpec
-----------------------------------------------------------------------------
(* Changes of the code                                                      *)

Services  == [at : Stations, on : SUBSET Changes, applied : Values]
Decisions == Seq({"C1", "C2", "REJECTED", "ROLLBACK"})
Early     == {"NONE", "WAITING_DEV_APPROVAL", "PREPARING_WORKTREE"}
Reviewed  == {"WAITING_APPLY_APPROVAL", "APPLYING", "APPLIED_LOCAL"}

DecisionsOf(s) ==
  CASE s \in {"NONE", "WAITING_DEV_APPROVAL"} -> {<<>>}
    [] s = "DEV_REJECTED" -> {<<"REJECTED">>}
    [] s \in {"PREPARING_WORKTREE", "EDITING", "TESTING", "WAITING_APPLY_APPROVAL"} -> {<<"C1">>}
    [] s = "APPLY_REJECTED" -> {<<"C1", "REJECTED">>}
    [] s \in {"APPLYING", "APPLIED_LOCAL"} -> {<<"C1", "C2">>}
    [] s = "FAILED" -> {<<"C1">>, <<"C1", "C2">>}
    [] OTHER -> {<<"C1", "C2">>, <<"C1", "C2", "ROLLBACK">>}

(* What the invariant says of one change: its record, its files and the     *)
(* history; and the operation under way on it.                              *)
RecordSound(row, w, p, h, died, editing) ==
  /\ row.decisions \in DecisionsOf(row.state)
  /\ row.state \in Reviewed => p = row.digest /\ p = w /\ p # h[row.base]
  /\ row.state = "WAITING_APPLY_APPROVAL" =>
       \A r \in Recipes : row.tests[r].passed /\ (died = 0 => row.tests[r].of = p)
  /\ row.state # "NONE" => row.base \in 1..Len(h)
  /\ row.state \in {"EDITING", "TESTING"} \cup Reviewed => w # NoContent
  /\ \A r \in Recipes : row.tests[r].passed =>
       /\ row.state \notin Early
       /\ died = 0 /\ row.state \in {"EDITING", "TESTING"} /\ ~editing => row.tests[r].of = w

WorkSound(row, w, p, h, at) ==
  /\ at \in {"worktree", "prepared"} => row.state = "PREPARING_WORKTREE"
  /\ at = "prepared" => w # NoContent
  /\ at \in {"edited", "archived"} => row.state = "EDITING"
  /\ at = "edited" => row.edits < MaxEdits
  /\ at = "testing" => row.state = "TESTING"
  /\ at = "archived" => p = w /\ p # h[row.base] /\ \A r \in Recipes : row.tests[r].passed
  /\ at \in {"apply", "applied", "retest", "compensate", "undo", "undone", "stuck"}
       => row.state = "APPLYING"
  /\ at \in {"reverse", "reversed"} => row.state \in {"APPLYING", "APPLIED_LOCAL"}

ChangeSound(c) ==
  /\ RecordSound(change[c], worktree[c], patch[c], commits, deaths, At(c, "edited"))
  /\ service.on = {c} => WorkSound(change[c], worktree[c], patch[c], commits, service.at)

EverySound == \A c \in Changes : ChangeSound(c)
OneWorks == service.on = {} <=> service.at \in {"idle", "down", "recover"}

(* What the invariant says of the records, change by change.                *)
LEMMA ChangeParts ==
  DecidedFirst /\ ReviewedIsKept /\ ReviewedIsTested /\ Standing /\ Underway
    <=> OneWorks /\ EverySound
  <1>1. DecidedFirst <=> \A c \in Changes : change[c].decisions \in DecisionsOf(change[c].state)
    BY DEF DecidedFirst, DecisionsOf
  <1>2. ASSUME DecidedFirst, ReviewedIsKept, ReviewedIsTested, Standing, Underway, NEW c \in Changes
        PROVE  ChangeSound(c)
    <2>1. RecordSound(change[c], worktree[c], patch[c], commits, deaths, At(c, "edited"))
      BY <1>1, <1>2 DEF RecordSound, ReviewedIsKept, ReviewedIsTested, Standing, From, Reviewed, Early
    <2>2. service.on = {c} => WorkSound(change[c], worktree[c], patch[c], commits, service.at)
      BY <1>2 DEF Underway, WorkSound, From
    <2> QED
      BY <2>1, <2>2 DEF ChangeSound
  <1>3. ASSUME OneWorks, EverySound
        PROVE  DecidedFirst /\ ReviewedIsKept /\ ReviewedIsTested /\ Standing /\ Underway
    <2>1. DecidedFirst /\ ReviewedIsKept /\ ReviewedIsTested
      BY <1>1, <1>3 DEF EverySound, ChangeSound, RecordSound, ReviewedIsKept, ReviewedIsTested, From, Reviewed
    <2>2. Standing
      BY <1>3 DEF EverySound, ChangeSound, RecordSound, Standing, Reviewed, Early
    <2>3. Underway
      BY <1>3 DEF EverySound, ChangeSound, WorkSound, Underway, From, OneWorks
    <2> QED
      BY <2>1, <2>2, <2>3
  <1>4. Underway => OneWorks
    BY DEF Underway, OneWorks
  <1> QED
    BY <1>2, <1>3, <1>4 DEF EverySound

(* The record of a change, its files and the process.                       *)
LEMMA ChangeTypes ==
  ASSUME ChangeTypeOK, NEW c \in Changes
  PROVE  /\ change[c] \in ChangeRows /\ worktree[c] \in Values /\ patch[c] \in Values
         /\ change[c].state \in ChangeStates /\ change[c].base \in Nat
         /\ change[c].decisions \in Decisions /\ change[c].started \in BOOLEAN
         /\ change[c].edits \in 0..(MaxEdits + MaxReplaced) /\ change[c].runs \in 0..MaxTests
         /\ change[c].tests \in [Recipes -> [passed : BOOLEAN, of : Values]]
         /\ change[c].digest \in Values /\ change[c].applied \in Values
         /\ service \in Services /\ service.at \in Stations /\ service.on \in SUBSET Changes
         /\ service.applied \in Values
  <1>1. change[c] \in ChangeRows /\ worktree[c] \in Values /\ patch[c] \in Values /\ service \in Services
    BY DEF ChangeTypeOK, Services
  <1> QED
    BY <1>1 DEF ChangeRows, Services, Decisions

(* The record of one change is written.                                     *)
Saves(c, row) ==
  /\ row \in ChangeRows /\ change' \in [Changes -> ChangeRows] /\ change'[c] = row
  /\ \A d \in Changes \ {c} : change'[d] = change[d]

(* The record is written as given.                                          *)
LEMMA SaveRow ==
  ASSUME ChangeTypeOK, NEW c \in Changes, NEW row \in ChangeRows, Save(c, row)
  PROVE  Saves(c, row)
  BY DEF Save, Saves, ChangeTypeOK

(* No record is written.                                                    *)
LEMMA SaveNothing ==
  ASSUME ChangeTypeOK, NEW c \in Changes, UNCHANGED change
  PROVE  Saves(c, change[c])
  BY ChangeTypes DEF Saves, ChangeTypeOK

(* Only the state changes.                                                  *)
LEMMA StateRow ==
  ASSUME ChangeTypeOK, NEW c \in Changes, NEW s \in ChangeStates, SaveState(c, s)
  PROVE  \E row : /\ Saves(c, row) /\ row.state = s /\ row.base = change[c].base
                  /\ row.decisions = change[c].decisions /\ row.tests = change[c].tests
                  /\ row.digest = change[c].digest /\ row.edits = change[c].edits
  <1> DEFINE row == [change[c] EXCEPT !.state = s]
  <1>1. change[c] \in ChangeRows
    BY ChangeTypes
  <1>2. /\ row \in ChangeRows /\ row.state = s /\ row.base = change[c].base
        /\ row.decisions = change[c].decisions /\ row.tests = change[c].tests
        /\ row.digest = change[c].digest /\ row.edits = change[c].edits
    BY <1>1 DEF ChangeRows
  <1>3. Save(c, row)
    BY DEF SaveState
  <1> HIDE DEF row
  <1> QED
    BY <1>2, <1>3, SaveRow

(* A decision is added and the state changes.                               *)
LEMMA DecideRow ==
  ASSUME ChangeTypeOK, NEW c \in Changes, NEW s \in ChangeStates,
         NEW gate \in {"C1", "C2", "REJECTED", "ROLLBACK"}, DecideAs(c, gate, s)
  PROVE  \E row : /\ Saves(c, row) /\ row.state = s /\ row.base = change[c].base
                  /\ row.decisions = Append(change[c].decisions, gate) /\ row.tests = change[c].tests
                  /\ row.digest = change[c].digest /\ row.edits = change[c].edits
  <1> DEFINE new == Append(change[c].decisions, gate)
             row == [change[c] EXCEPT !.state = s, !.decisions = new]
  <1>1. change[c] \in ChangeRows /\ new \in Decisions
    BY ChangeTypes DEF Decisions
  <1>3. Save(c, row)
    BY DEF DecideAs
  <1> HIDE DEF new
  <1>2. /\ row \in ChangeRows /\ row.state = s /\ row.base = change[c].base
        /\ row.decisions = new /\ row.tests = change[c].tests
        /\ row.digest = change[c].digest /\ row.edits = change[c].edits
    BY <1>1 DEF ChangeRows, Decisions
  <1> HIDE DEF row
  <1> QED
    BY <1>2, <1>3, SaveRow DEF new

(* Where the process goes.                                                  *)
Turns(at, on) == service' \in Services /\ service'.at = at /\ service'.on = on

(* The operation goes on at its next step.                                  *)
LEMMA ContinueTurns ==
  ASSUME ChangeTypeOK, NEW c \in Changes, NEW there \in Stations, Continue(c, there)
  PROVE  Turns(there, {c}) /\ service'.applied = service.applied
  BY ChangeTypes DEF Continue, Turns, Services

(* The process serves, is down, or starts.                                  *)
LEMMA IdleTurns ==
  ASSUME ChangeAssumption
  PROVE  /\ Idle \in Services /\ Idle.at = "idle" /\ Idle.on = {}
         /\ [Idle EXCEPT !.at = "down"] \in Services /\ [Idle EXCEPT !.at = "recover"] \in Services
         /\ [Idle EXCEPT !.at = "down"].at = "down" /\ [Idle EXCEPT !.at = "down"].on = {}
         /\ [Idle EXCEPT !.at = "recover"].at = "recover" /\ [Idle EXCEPT !.at = "recover"].on = {}
  BY DEF Idle, Services, Stations, Values

(* A step for one change leaves what is sound of the others.                *)
LEMMA OthersSound ==
  ASSUME ChangeTypeOK, NEW c \in Changes, NEW d \in Changes, d # c, ChangeSound(d),
         change'[d] = change[d], worktree'[d] = worktree[d], patch'[d] = patch[d],
         UNCHANGED commits, deaths' = deaths \/ deaths' # 0,
         service'.on \subseteq {c}, service.on \subseteq {c}
  PROVE  ChangeSound(d)'
  <1>1. service'.on # {d} /\ service.on # {d}
    OBVIOUS
  <1>2. ~At(d, "edited") /\ ~At(d, "edited")'
    BY <1>1 DEF At
  <1> QED
    BY <1>1, <1>2 DEF ChangeSound, RecordSound

(* Step by step: what is to be shown of a step for one change.              *)
LEMMA SoundStep ==
  ASSUME ChangeIInv, NEW c \in Changes, NEW row, Saves(c, row),
         worktree' \in [Changes -> Values], patch' \in [Changes -> Values],
         \A d \in Changes \ {c} : worktree'[d] = worktree[d] /\ patch'[d] = patch[d],
         UNCHANGED commits, deaths' \in Nat, deaths' = deaths \/ deaths' # 0,
         tree' \in Values \ {NoContent}, meddled' \in Nat,
         NEW at \in Stations, NEW on, Turns(at, on), on \in {{}, {c}}, service.on \subseteq {c},
         on = {} <=> at \in {"idle", "down", "recover"},
         RecordSound(row, worktree'[c], patch'[c], commits, deaths', on = {c} /\ at = "edited"),
         on = {c} => WorkSound(row, worktree'[c], patch'[c], commits, at)
  PROVE  /\ ChangeTypeOK' /\ DecidedFirst' /\ ReviewedIsKept' /\ ReviewedIsTested'
         /\ Standing' /\ Underway'
  <1>1. ChangeTypeOK'
    BY DEF ChangeIInv, ChangeTypeOK, Saves, Turns, Services
  <1>2. OneWorks'
    BY DEF OneWorks, Turns
  <1>3. ASSUME NEW d \in Changes PROVE ChangeSound(d)'
    <2>1. CASE d = c
      <3>1. At(c, "edited")' <=> on = {c} /\ at = "edited"
        BY DEF At, Turns
      <3>2. At(c, "edited")' = (on = {c} /\ at = "edited")
        BY <3>1 DEF At
      <3>3. RecordSound(change[c], worktree[c], patch[c], commits, deaths, At(c, "edited"))'
        BY <3>2 DEF Saves
      <3>4. (service.on = {c} => WorkSound(change[c], worktree[c], patch[c], commits, service.at))'
        BY DEF Saves, Turns
      <3> QED
        BY <2>1, <3>3, <3>4 DEF ChangeSound
    <2>2. CASE d # c
      <3>1. ChangeSound(d) /\ ChangeTypeOK
        BY ChangeParts DEF ChangeIInv, EverySound
      <3> QED
        BY <2>2, <3>1, OthersSound DEF Saves, Turns
    <2> QED
      BY <2>1, <2>2
  <1>4. (OneWorks /\ EverySound)'
    BY <1>2, <1>3 DEF EverySound
  <1>5. (DecidedFirst /\ ReviewedIsKept /\ ReviewedIsTested /\ Standing /\ Underway)'
    BY <1>4, ChangeParts, PTL
  <1> QED
    BY <1>1, <1>5

(* The record of a change that was never proposed.                          *)
LEMMA NoChangeRow ==
  /\ NoChange \in ChangeRows /\ NoChange.decisions = <<>> /\ NoChange.tests = Untested
  /\ \A r \in Recipes : ~Untested[r].passed
  <1>1. Untested \in [Recipes -> [passed : BOOLEAN, of : Values]] /\ \A r \in Recipes : ~Untested[r].passed
    BY DEF Untested, NoTest, Values
  <1>2. <<>> \in Seq({"C1", "C2", "REJECTED", "ROLLBACK"}) /\ 0 \in 0..(MaxEdits + MaxReplaced) /\ 0 \in 0..MaxTests
    BY ChangeAssumption
  <1> HIDE DEF Untested
  <1> QED
    BY <1>1, <1>2 DEF NoChange, ChangeRows, ChangeStates, Values

(* A sequence that has one more at its end.                                 *)
LEMMA Grows ==
  ASSUME NEW D, NEW s \in Seq(D), NEW x \in D, NEW t \in Seq(D), Len(t) = Len(s) + 1,
         \A i \in 1..Len(s) : t[i] = s[i], t[Len(s) + 1] = x
  PROVE  Append(s, x) = t
  <1>1. Append(s, x) \in Seq(D) /\ Len(Append(s, x)) = Len(s) + 1 /\ Append(s, x)[Len(s) + 1] = x
    BY AppendProperties
  <1>2. \A i \in 1..Len(s) : Append(s, x)[i] = s[i]
    BY AppendProperties
  <1>3. \A i \in 1..(Len(s) + 1) : i \in 1..Len(s) \/ i = Len(s) + 1
    OBVIOUS
  <1>4. \A i \in 1..Len(t) : Append(s, x)[i] = t[i]
    BY <1>1, <1>2, <1>3
  <1> QED
    BY <1>1, <1>4, SeqEqual

(* The decisions that are added, written out.                               *)
LEMMA Appended ==
  LET D == {"C1", "C2", "REJECTED", "ROLLBACK"} IN
  /\ Append(<<>>, "C1") = <<"C1">> /\ Append(<<>>, "REJECTED") = <<"REJECTED">>
  /\ \A y \in D : Append(<<"C1">>, y) = <<"C1", y>>
  /\ Append(<<"C1", "C2">>, "ROLLBACK") = <<"C1", "C2", "ROLLBACK">>
  <1> DEFINE D == {"C1", "C2", "REJECTED", "ROLLBACK"}
  <1>1. ASSUME NEW x \in D PROVE Append(<<>>, x) = <<x>>
    OBVIOUS
  <1>2. ASSUME NEW y \in D PROVE Append(<<"C1">>, y) = <<"C1", y>>
    <2> DEFINE s == <<"C1">> t == <<"C1", y>>
    <2>1. s \in Seq(D) /\ t \in Seq(D) /\ Len(s) = 1 /\ Len(t) = 2 /\ s[1] = "C1" /\ t[1] = "C1" /\ t[2] = y
      OBVIOUS
    <2> HIDE DEF s, t, D
    <2>2. (\A i \in 1..Len(s) : t[i] = s[i]) /\ Len(t) = Len(s) + 1 /\ t[Len(s) + 1] = y
      BY <2>1
    <2>3. Append(s, y) = t
      BY <1>2, <2>1, <2>2, Grows
    <2> QED
      BY <1>2, <2>3 DEF s, t
  <1>3. Append(<<"C1", "C2">>, "ROLLBACK") = <<"C1", "C2", "ROLLBACK">>
    <2> DEFINE s == <<"C1", "C2">> t == <<"C1", "C2", "ROLLBACK">>
    <2>1. s \in Seq(D) /\ t \in Seq(D) /\ Len(s) = 2 /\ Len(t) = 3 /\ "ROLLBACK" \in D
          /\ s[1] = t[1] /\ s[2] = t[2] /\ t[3] = "ROLLBACK"
      OBVIOUS
    <2> HIDE DEF s, t, D
    <2>2. (\A i \in 1..Len(s) : t[i] = s[i]) /\ Len(t) = Len(s) + 1 /\ t[Len(s) + 1] = "ROLLBACK"
      BY <2>1
    <2>3. Append(s, "ROLLBACK") = t
      BY <2>1, <2>2, Grows
    <2> QED
      BY <2>3 DEF s, t
  <1> QED
    BY <1>1, <1>2, <1>3

(* What is known of a change an operation may work on.                      *)
LEMMA Known ==
  ASSUME ChangeIInv, NEW c \in Changes
  PROVE  /\ ChangeTypeOK /\ OneWorks
         /\ RecordSound(change[c], worktree[c], patch[c], commits, deaths, At(c, "edited"))
         /\ service.on = {c} => WorkSound(change[c], worktree[c], patch[c], commits, service.at)
         /\ worktree \in [Changes -> Values] /\ patch \in [Changes -> Values]
         /\ deaths \in Nat /\ tree \in Values \ {NoContent} /\ meddled \in Nat
         /\ commits \in Seq(Contents) /\ commits # <<>> /\ Len(commits) \in Nat \ {0}
         /\ change[c].state # "NONE" => From(c) \in Contents
  <1>1. OneWorks /\ ChangeSound(c) /\ ChangeTypeOK
    BY ChangeParts DEF ChangeIInv, EverySound
  <1>2. commits \in Seq(Contents) /\ commits # <<>> /\ Len(commits) \in Nat \ {0}
    BY <1>1 DEF ChangeTypeOK
  <1>3. change[c].state # "NONE" => From(c) \in Contents
    BY <1>1, <1>2 DEF ChangeSound, RecordSound, From
  <1> QED
    BY <1>1, <1>2, <1>3 DEF ChangeSound, ChangeTypeOK

(* Proposal, first decision and preparation.                                *)
LEMMA PrepareSound ==
  ASSUME ChangeIInv, NEW c \in Changes,
         \/ Propose(c) \/ ApprovePrepare(c) \/ AddWorktree(c) \/ WorktreeFails(c) \/ Prepared(c)
         \/ Reject(c, "WAITING_DEV_APPROVAL", "DEV_REJECTED")
         \/ Reject(c, "WAITING_APPLY_APPROVAL", "APPLY_REJECTED")
  PROVE  /\ ChangeTypeOK' /\ DecidedFirst' /\ ReviewedIsKept' /\ ReviewedIsTested'
         /\ Standing' /\ Underway'
  <1>k. /\ ChangeTypeOK /\ OneWorks
        /\ RecordSound(change[c], worktree[c], patch[c], commits, deaths, At(c, "edited"))
        /\ service.on = {c} => WorkSound(change[c], worktree[c], patch[c], commits, service.at)
        /\ worktree \in [Changes -> Values] /\ patch \in [Changes -> Values]
        /\ deaths \in Nat /\ tree \in Values \ {NoContent} /\ meddled \in Nat /\ Len(commits) \in Nat \ {0}
        /\ change[c].state # "NONE" => From(c) \in Contents
    BY Known
  <1>i. /\ Idle \in Services /\ Idle.at = "idle" /\ Idle.on = {}
        /\ Free => service.on = {} /\ \A there : ~At(c, there) \/ there = "idle"
        /\ \A there : At(c, there) => service.on = {c} /\ service.at = there
    BY <1>k, ChangeAssumption, IdleTurns DEF Free, OneWorks, At
  <1>s. Services = [at : Stations, on : SUBSET Changes, applied : Values] /\ service \in Services
    BY <1>k, ChangeTypes DEF Services
  <1>1. CASE Propose(c)
    <2> DEFINE row == [NoChange EXCEPT !.state = "WAITING_DEV_APPROVAL", !.base = Len(commits)]
    <2>1. /\ row \in ChangeRows /\ row.state = "WAITING_DEV_APPROVAL" /\ row.base = Len(commits)
          /\ row.decisions = <<>> /\ row.tests = Untested
      BY <1>k, NoChangeRow DEF ChangeRows, ChangeStates
    <2>2. Save(c, row) /\ Free /\ UNCHANGED <<worktree, patch, tree, commits, meddled, deaths, service>>
      BY <1>1 DEF Propose, RecordOnly, InRepository
    <2> HIDE DEF row
    <2>3. Saves(c, row) /\ Turns("idle", {})
      BY <1>k, <1>i, <1>s, <2>1, <2>2, SaveRow DEF Turns, Free
    <2>4. RecordSound(row, worktree'[c], patch'[c], commits, deaths', FALSE)
      BY <1>k, <2>1, <2>2, NoChangeRow DEF RecordSound, DecisionsOf, Reviewed, Early
    <2> QED
      BY <1>k, <1>i, <2>2, <2>3, <2>4, SoundStep DEF Stations
  <1>2. CASE ApprovePrepare(c)
    <2>1. PICK row : /\ Saves(c, row) /\ row.state = "PREPARING_WORKTREE" /\ row.base = change[c].base
                     /\ row.decisions = Append(change[c].decisions, "C1") /\ row.tests = change[c].tests
      BY <1>2, <1>k, DecideRow DEF ApprovePrepare, ChangeStates
    <2>2. /\ Free /\ UNCHANGED <<worktree, patch, tree, commits, meddled, deaths>>
          /\ change[c].state = "WAITING_DEV_APPROVAL" /\ Continue(c, "worktree")
      BY <1>2 DEF ApprovePrepare, RecordOnly, InRepository
    <2>3. Turns("worktree", {c})
      BY <1>k, <2>2, ContinueTurns DEF Stations
    <2>4. RecordSound(row, worktree'[c], patch'[c], commits, deaths', FALSE)
      BY <1>k, <2>1, <2>2, Appended DEF RecordSound, DecisionsOf, Reviewed, Early
    <2>5. WorkSound(row, worktree'[c], patch'[c], commits, "worktree")
      BY <2>1 DEF WorkSound
    <2> QED
      BY <1>k, <1>i, <2>1, <2>2, <2>3, <2>4, <2>5, SoundStep DEF Stations
  <1>3. CASE AddWorktree(c)
    <2>2. /\ At(c, "worktree") /\ UNCHANGED <<change, patch, tree, commits, meddled, deaths>>
          /\ worktree' = [worktree EXCEPT ![c] = From(c)] /\ Continue(c, "prepared")
      BY <1>3 DEF AddWorktree, InRepository
    <2>3. Turns("prepared", {c}) /\ Saves(c, change[c])
      BY <1>k, <2>2, ContinueTurns, SaveNothing DEF Stations
    <2>4. change[c].state = "PREPARING_WORKTREE" /\ From(c) \in Contents /\ Contents \subseteq Values \ {NoContent}
      BY <1>k, <1>i, <2>2, ChangeAssumption DEF WorkSound, Values
    <2>5. /\ worktree' \in [Changes -> Values] /\ worktree'[c] = From(c)
          /\ \A d \in Changes \ {c} : worktree'[d] = worktree[d]
      BY <1>k, <2>2, <2>4
    <2>6. RecordSound(change[c], worktree'[c], patch'[c], commits, deaths', FALSE)
      BY <1>k, <2>2, <2>4 DEF RecordSound, Reviewed, Early
    <2>7. WorkSound(change[c], worktree'[c], patch'[c], commits, "prepared")
      BY <2>4, <2>5 DEF WorkSound
    <2>8. \A d \in Changes \ {c} : worktree'[d] = worktree[d] /\ patch'[d] = patch[d]
      BY <2>2, <2>5
    <2>9. worktree' \in [Changes -> Values] /\ patch' \in [Changes -> Values]
      BY <1>k, <2>2, <2>5
    <2>10. UNCHANGED <<commits, tree, meddled, deaths>> /\ service.on \subseteq {c}
      BY <1>i, <2>2
    <2> QED
      BY <1>k, <2>3, <2>6, <2>7, <2>8, <2>9, <2>10, SoundStep DEF Stations
  <1>4. CASE WorktreeFails(c)
    <2>1. PICK row : /\ Saves(c, row) /\ row.state = "FAILED" /\ row.base = change[c].base
                     /\ row.decisions = change[c].decisions /\ row.tests = change[c].tests
      BY <1>4, <1>k, StateRow DEF WorktreeFails, ChangeStates
    <2>2. /\ At(c, "worktree") \/ At(c, "prepared")
          /\ UNCHANGED <<worktree, patch, tree, commits, meddled, deaths>> /\ service' = Idle
      BY <1>4 DEF WorktreeFails, RecordOnly, InRepository
    <2>3. change[c].state = "PREPARING_WORKTREE" /\ Turns("idle", {})
      BY <1>k, <1>i, <2>2 DEF WorkSound, Turns
    <2>4. RecordSound(row, worktree'[c], patch'[c], commits, deaths', FALSE)
      BY <1>k, <2>1, <2>2, <2>3 DEF RecordSound, DecisionsOf, Reviewed, Early
    <2> QED
      BY <1>k, <1>i, <2>1, <2>2, <2>3, <2>4, SoundStep DEF Stations
  <1>5. CASE Prepared(c)
    <2> DEFINE row == [change[c] EXCEPT !.state = "EDITING", !.started = TRUE]
    <2>1. /\ row \in ChangeRows /\ row.state = "EDITING" /\ row.base = change[c].base
          /\ row.decisions = change[c].decisions /\ row.tests = change[c].tests
      <3>1. change[c] \in ChangeRows
        BY <1>k, ChangeTypes
      <3> QED
        BY <3>1 DEF ChangeRows, ChangeStates
    <2>2. Save(c, row) /\ At(c, "prepared") /\ service' = Idle
          /\ UNCHANGED <<worktree, patch, tree, commits, meddled, deaths>>
      BY <1>5 DEF Prepared, RecordOnly, InRepository
    <2> HIDE DEF row
    <2>3. Saves(c, row) /\ Turns("idle", {}) /\ change[c].state = "PREPARING_WORKTREE" /\ worktree[c] # NoContent
      BY <1>k, <1>i, <2>1, <2>2, SaveRow DEF Turns, WorkSound
    <2>4. RecordSound(row, worktree'[c], patch'[c], commits, deaths', FALSE)
      BY <1>k, <2>1, <2>2, <2>3 DEF RecordSound, DecisionsOf, Reviewed, Early
    <2> QED
      BY <1>k, <1>i, <2>2, <2>3, <2>4, SoundStep DEF Stations
  <1>6. ASSUME NEW expected \in {"WAITING_DEV_APPROVAL", "WAITING_APPLY_APPROVAL"}, NEW target,
               target = IF expected = "WAITING_DEV_APPROVAL" THEN "DEV_REJECTED" ELSE "APPLY_REJECTED",
               Reject(c, expected, target)
        PROVE  /\ ChangeTypeOK' /\ DecidedFirst' /\ ReviewedIsKept' /\ ReviewedIsTested'
               /\ Standing' /\ Underway'
    <2>1. PICK row : /\ Saves(c, row) /\ row.state = target /\ row.base = change[c].base
                     /\ row.decisions = Append(change[c].decisions, "REJECTED") /\ row.tests = change[c].tests
      BY <1>6, <1>k, DecideRow DEF Reject, ChangeStates
    <2>2. /\ Free /\ UNCHANGED <<worktree, patch, tree, commits, meddled, deaths, service>>
          /\ change[c].state = expected
      BY <1>6 DEF Reject, RecordOnly, InRepository
    <2>3. Turns("idle", {})
      BY <1>i, <1>s, <2>2 DEF Turns, Free
    <2> DEFINE sound == RecordSound(row, worktree'[c], patch'[c], commits, deaths', FALSE)
    <2>5. ASSUME expected = "WAITING_DEV_APPROVAL" PROVE sound
      <3>1. target = "DEV_REJECTED" /\ change[c].decisions = <<>>
        BY <1>6, <1>k, <2>2, <2>5 DEF RecordSound, DecisionsOf
      <3>2. row.decisions = <<"REJECTED">>
        BY <2>1, <3>1, Appended
      <3> QED
        BY <1>k, <2>1, <2>2, <2>5, <3>1, <3>2 DEF RecordSound, DecisionsOf, Reviewed, Early
    <2>6. ASSUME expected = "WAITING_APPLY_APPROVAL" PROVE sound
      <3>1. target = "APPLY_REJECTED" /\ change[c].decisions = <<"C1">>
        BY <1>6, <1>k, <2>2, <2>6 DEF RecordSound, DecisionsOf
      <3>2. row.decisions = <<"C1", "REJECTED">>
        BY <2>1, <3>1, Appended
      <3> QED
        BY <1>k, <2>1, <2>2, <2>6, <3>1, <3>2 DEF RecordSound, DecisionsOf, Reviewed, Early
    <2>4. RecordSound(row, worktree'[c], patch'[c], commits, deaths', FALSE)
      BY <1>6, <2>5, <2>6
    <2> QED
      BY <1>k, <1>i, <2>1, <2>2, <2>3, <2>4, SoundStep DEF Stations
  <1> QED
    BY <1>1, <1>2, <1>3, <1>4, <1>5, <1>6

(* Development.                                                             *)
LEMMA DevelopSound ==
  ASSUME ChangeIInv, NEW c \in Changes,
         \/ \E v \in Contents : Edit(c, v)
         \/ Edited(c) \/ RunTest(c)
         \/ \E r \in Recipes, passed \in BOOLEAN : TestEnds(c, r, passed)
         \/ TestNeverRuns(c) \/ ReadyForReview(c) \/ Archived(c)
  PROVE  /\ ChangeTypeOK' /\ DecidedFirst' /\ ReviewedIsKept' /\ ReviewedIsTested'
         /\ Standing' /\ Underway'
  <1>k. /\ ChangeTypeOK /\ OneWorks
        /\ RecordSound(change[c], worktree[c], patch[c], commits, deaths, At(c, "edited"))
        /\ service.on = {c} => WorkSound(change[c], worktree[c], patch[c], commits, service.at)
        /\ worktree \in [Changes -> Values] /\ patch \in [Changes -> Values]
        /\ deaths \in Nat /\ tree \in Values \ {NoContent} /\ meddled \in Nat /\ Len(commits) \in Nat \ {0}
        /\ change[c].state # "NONE" => From(c) \in Contents
    BY Known
  <1>i. /\ Idle \in Services /\ Idle.at = "idle" /\ Idle.on = {}
        /\ Free => service.on = {} /\ \A there : ~At(c, there) \/ there = "idle"
        /\ \A there : At(c, there) => service.on = {c} /\ service.at = there
    BY <1>k, ChangeAssumption, IdleTurns DEF Free, OneWorks, At
  <1>s. Services = [at : Stations, on : SUBSET Changes, applied : Values] /\ service \in Services
    BY <1>k, ChangeTypes DEF Services
  <1>v. Contents \subseteq Values \ {NoContent}
    BY ChangeAssumption DEF Values
  <1>r. change[c] \in ChangeRows /\ change[c].tests \in [Recipes -> [passed : BOOLEAN, of : Values]]
        /\ change[c].edits \in 0..(MaxEdits + MaxReplaced) /\ change[c].runs \in 0..MaxTests
    BY <1>k, ChangeTypes
  <1>1. ASSUME NEW v \in Contents, Edit(c, v)
        PROVE  /\ ChangeTypeOK' /\ DecidedFirst' /\ ReviewedIsKept' /\ ReviewedIsTested'
               /\ Standing' /\ Underway'
    <2>2. /\ Free /\ change[c].state = "EDITING" /\ change[c].edits < MaxEdits
          /\ UNCHANGED <<change, patch, tree, commits, meddled, deaths>>
          /\ worktree' = [worktree EXCEPT ![c] = v] /\ Continue(c, "edited")
      BY <1>1 DEF Edit, Developing, InRepository
    <2>3. Turns("edited", {c}) /\ Saves(c, change[c])
      BY <1>k, <2>2, ContinueTurns, SaveNothing DEF Stations
    <2>5. /\ worktree' \in [Changes -> Values] /\ worktree'[c] = v /\ v # NoContent
          /\ \A d \in Changes \ {c} : worktree'[d] = worktree[d]
      BY <1>k, <1>v, <2>2
    <2>6. RecordSound(change[c], worktree'[c], patch'[c], commits, deaths', TRUE)
      BY <1>k, <2>2, <2>5 DEF RecordSound, Reviewed, Early
    <2>7. WorkSound(change[c], worktree'[c], patch'[c], commits, "edited")
      BY <2>2, <2>5 DEF WorkSound
    <2>8. \A d \in Changes \ {c} : worktree'[d] = worktree[d] /\ patch'[d] = patch[d]
      BY <2>2, <2>5
    <2>9. worktree' \in [Changes -> Values] /\ patch' \in [Changes -> Values]
      BY <1>k, <2>2, <2>5
    <2>10. UNCHANGED <<commits, tree, meddled, deaths>> /\ service.on \subseteq {c}
      BY <1>i, <2>2
    <2> QED
      BY <1>k, <2>3, <2>6, <2>7, <2>8, <2>9, <2>10, SoundStep DEF Stations
  <1>2. CASE Edited(c)
    <2>n. PICK n \in 1..MaxReplaced : Save(c, [change[c] EXCEPT !.edits = @ + n, !.tests = Untested])
      BY <1>2 DEF Edited
    <2> DEFINE row == [change[c] EXCEPT !.edits = change[c].edits + n, !.tests = Untested]
    <2>2. Save(c, row) /\ At(c, "edited") /\ service' = Idle
          /\ UNCHANGED <<worktree, patch, tree, commits, meddled, deaths>>
      BY <1>2, <2>n DEF Edited, RecordOnly, InRepository
    <2>0. change[c].edits < MaxEdits /\ MaxEdits \in Nat /\ MaxReplaced \in Nat
      BY <1>k, <1>i, <2>2, ChangeAssumption DEF WorkSound
    <2>u. change[c].edits + n \in 0..(MaxEdits + MaxReplaced) /\ Untested \in [Recipes -> [passed : BOOLEAN, of : Values]]
      BY <1>r, <2>0 DEF Untested, NoTest, Values
    <2>1. /\ row \in ChangeRows /\ row.state = change[c].state /\ row.base = change[c].base
          /\ row.decisions = change[c].decisions /\ row.tests = Untested /\ row.digest = change[c].digest
      <3> HIDE DEF Untested
      <3> QED
        BY <1>r, <2>u DEF ChangeRows
    <2> HIDE DEF row
    <2>3. Saves(c, row) /\ Turns("idle", {}) /\ change[c].state = "EDITING"
      BY <1>k, <1>i, <2>1, <2>2, SaveRow DEF Turns, WorkSound
    <2>4. RecordSound(row, worktree'[c], patch'[c], commits, deaths', FALSE)
      BY <1>k, <2>1, <2>2, <2>3, NoChangeRow DEF RecordSound, DecisionsOf, Reviewed, Early
    <2> QED
      BY <1>k, <1>i, <2>2, <2>3, <2>4, SoundStep DEF Stations
  <1>3. CASE RunTest(c)
    <2> DEFINE row == [change[c] EXCEPT !.state = "TESTING", !.runs = change[c].runs + 1]
    <2>2. Save(c, row) /\ Free /\ change[c].state = "EDITING" /\ change[c].runs < MaxTests /\ Continue(c, "testing")
          /\ UNCHANGED <<worktree, patch, tree, commits, meddled, deaths>>
      BY <1>3 DEF RunTest, RecordOnly, InRepository, Developing
    <2>u. change[c].runs + 1 \in 0..MaxTests
      BY <1>r, <2>2, ChangeAssumption
    <2>1. /\ row \in ChangeRows /\ row.state = "TESTING" /\ row.base = change[c].base
          /\ row.decisions = change[c].decisions /\ row.tests = change[c].tests
      BY <1>r, <2>u DEF ChangeRows, ChangeStates
    <2> HIDE DEF row
    <2>3. Saves(c, row) /\ Turns("testing", {c}) /\ ~At(c, "edited")
      BY <1>k, <1>i, <2>1, <2>2, SaveRow, ContinueTurns DEF Stations
    <2>4. RecordSound(row, worktree'[c], patch'[c], commits, deaths', FALSE)
      BY <1>k, <2>1, <2>2, <2>3 DEF RecordSound, DecisionsOf, Reviewed, Early
    <2>5. WorkSound(row, worktree'[c], patch'[c], commits, "testing")
      BY <2>1 DEF WorkSound
    <2> QED
      BY <1>k, <1>i, <2>2, <2>3, <2>4, <2>5, SoundStep DEF Stations
  <1>4. ASSUME NEW r \in Recipes, NEW passed \in BOOLEAN, TestEnds(c, r, passed)
        PROVE  /\ ChangeTypeOK' /\ DecidedFirst' /\ ReviewedIsKept' /\ ReviewedIsTested'
               /\ Standing' /\ Underway'
    <2> DEFINE test == [passed |-> passed, of |-> worktree[c]]
               tests == [change[c].tests EXCEPT ![r] = test]
               row == [change[c] EXCEPT !.state = "EDITING", !.tests = tests]
    <2>2. Save(c, row) /\ At(c, "testing") /\ service' = Idle
          /\ UNCHANGED <<worktree, patch, tree, commits, meddled, deaths>>
      BY <1>4 DEF TestEnds, RecordOnly, InRepository
    <2>a. test \in [passed : BOOLEAN, of : Values] /\ test.of = worktree[c]
      BY <1>k
    <2> HIDE DEF test
    <2>b. /\ tests \in [Recipes -> [passed : BOOLEAN, of : Values]] /\ tests[r].of = worktree[c]
          /\ \A q \in Recipes : q # r => tests[q] = change[c].tests[q]
      BY <1>r, <2>a
    <2> HIDE DEF tests
    <2>1. /\ row \in ChangeRows /\ row.state = "EDITING" /\ row.base = change[c].base
          /\ row.decisions = change[c].decisions /\ row.tests = tests
      BY <1>r, <2>b DEF ChangeRows, ChangeStates
    <2> HIDE DEF row
    <2>3. Saves(c, row) /\ Turns("idle", {}) /\ change[c].state = "TESTING" /\ ~At(c, "edited")
      BY <1>k, <1>i, <2>1, <2>2, SaveRow DEF Turns, WorkSound
    <2>c. \A q \in Recipes : tests[q].passed /\ deaths = 0 => tests[q].of = worktree[c]
      BY <1>k, <2>b, <2>3 DEF RecordSound
    <2>4. RecordSound(row, worktree'[c], patch'[c], commits, deaths', FALSE)
      BY <1>k, <2>1, <2>2, <2>3, <2>c DEF RecordSound, DecisionsOf, Reviewed, Early
    <2> QED
      BY <1>k, <1>i, <2>2, <2>3, <2>4, SoundStep DEF Stations
  <1>5. CASE TestNeverRuns(c)
    <2>2. /\ At(c, "testing") /\ UNCHANGED <<change, worktree, patch, tree, commits, meddled, deaths>>
          /\ service' = Idle
      BY <1>5 DEF TestNeverRuns, RecordOnly, InRepository
    <2>3. Turns("idle", {}) /\ Saves(c, change[c]) /\ ~At(c, "edited")
      BY <1>k, <1>i, <2>2, SaveNothing DEF Turns
    <2>4. RecordSound(change[c], worktree'[c], patch'[c], commits, deaths', FALSE)
      BY <1>k, <2>2, <2>3 DEF RecordSound
    <2> QED
      BY <1>k, <1>i, <2>2, <2>3, <2>4, SoundStep DEF Stations
  <1>6. CASE ReadyForReview(c)
    <2>2. /\ Free /\ change[c].state = "EDITING" /\ \A r \in Recipes : change[c].tests[r].passed
          /\ worktree[c] # From(c)
          /\ UNCHANGED <<change, worktree, tree, commits, meddled, deaths>>
          /\ patch' = [patch EXCEPT ![c] = worktree[c]] /\ Continue(c, "archived")
      BY <1>6 DEF ReadyForReview, InRepository
    <2>3. Turns("archived", {c}) /\ Saves(c, change[c]) /\ ~At(c, "edited")
      BY <1>k, <1>i, <2>2, ContinueTurns, SaveNothing DEF Stations
    <2>5. /\ patch' \in [Changes -> Values] /\ patch'[c] = worktree[c]
          /\ \A d \in Changes \ {c} : patch'[d] = patch[d]
      BY <1>k, <2>2
    <2>6. RecordSound(change[c], worktree'[c], patch'[c], commits, deaths', FALSE)
      BY <1>k, <2>2, <2>3 DEF RecordSound, Reviewed, Early
    <2>7. WorkSound(change[c], worktree'[c], patch'[c], commits, "archived")
      BY <2>2, <2>5 DEF WorkSound, From
    <2>8. \A d \in Changes \ {c} : worktree'[d] = worktree[d] /\ patch'[d] = patch[d]
      BY <2>2, <2>5
    <2>9. worktree' \in [Changes -> Values] /\ patch' \in [Changes -> Values]
      BY <1>k, <2>2, <2>5
    <2>10. UNCHANGED <<commits, tree, meddled, deaths>> /\ service.on \subseteq {c}
      BY <1>i, <2>2
    <2> QED
      BY <1>k, <2>3, <2>6, <2>7, <2>8, <2>9, <2>10, SoundStep DEF Stations
  <1>7. CASE Archived(c)
    <2> DEFINE row == [change[c] EXCEPT !.state = "WAITING_APPLY_APPROVAL", !.digest = patch[c]]
    <2>2. Save(c, row) /\ At(c, "archived") /\ service' = Idle
          /\ UNCHANGED <<worktree, patch, tree, commits, meddled, deaths>>
      BY <1>7 DEF Archived, RecordOnly, InRepository
    <2>1. /\ row \in ChangeRows /\ row.state = "WAITING_APPLY_APPROVAL" /\ row.base = change[c].base
          /\ row.decisions = change[c].decisions /\ row.tests = change[c].tests /\ row.digest = patch[c]
      BY <1>k, <1>r DEF ChangeRows, ChangeStates
    <2> HIDE DEF row
    <2>3. /\ Saves(c, row) /\ Turns("idle", {}) /\ change[c].state = "EDITING" /\ ~At(c, "edited")
          /\ patch[c] = worktree[c] /\ patch[c] # commits[change[c].base]
          /\ \A r \in Recipes : change[c].tests[r].passed
      BY <1>k, <1>i, <2>1, <2>2, SaveRow DEF Turns, WorkSound
    <2>4. RecordSound(row, worktree'[c], patch'[c], commits, deaths', FALSE)
      BY <1>k, <2>1, <2>2, <2>3 DEF RecordSound, DecisionsOf, Reviewed, Early
    <2> QED
      BY <1>k, <1>i, <2>2, <2>3, <2>4, SoundStep DEF Stations
  <1> QED
    BY <1>1, <1>2, <1>3, <1>4, <1>5, <1>6, <1>7

(* The application, and what a start does with one that was interrupted.    *)
LEMMA ApplySound ==
  ASSUME ChangeIInv, NEW c \in Changes,
         \/ ApproveApply(c) \/ Apply(c) \/ Digested(c) \/ RetestPasses(c) \/ RetestFails(c)
         \/ Compensate(c) \/ Reverse(c) \/ Reversed(c) \/ Rollback(c)
         \/ RecoverPrepare(c) \/ RecoverTest(c) \/ RecoverApply(c) \/ Undo(c) \/ Undone(c)
  PROVE  /\ ChangeTypeOK' /\ DecidedFirst' /\ ReviewedIsKept' /\ ReviewedIsTested'
         /\ Standing' /\ Underway'
  <1>k. /\ ChangeTypeOK /\ OneWorks
        /\ RecordSound(change[c], worktree[c], patch[c], commits, deaths, At(c, "edited"))
        /\ service.on = {c} => WorkSound(change[c], worktree[c], patch[c], commits, service.at)
        /\ worktree \in [Changes -> Values] /\ patch \in [Changes -> Values]
        /\ deaths \in Nat /\ tree \in Values \ {NoContent} /\ meddled \in Nat /\ Len(commits) \in Nat \ {0}
        /\ change[c].state # "NONE" => From(c) \in Contents
    BY Known
  <1>i. /\ Idle \in Services /\ Idle.at = "idle" /\ Idle.on = {}
        /\ Free => service.on = {} /\ \A there : ~At(c, there) \/ there = "idle"
        /\ \A there : At(c, there) => service.on = {c} /\ service.at = there
    BY <1>k, ChangeAssumption, IdleTurns DEF Free, OneWorks, At
  <1>s. Services = [at : Stations, on : SUBSET Changes, applied : Values] /\ service \in Services
    BY <1>k, ChangeTypes DEF Services
  <1>v. Contents \subseteq Values \ {NoContent}
    BY ChangeAssumption DEF Values
  <1>r. change[c] \in ChangeRows /\ service.applied \in Values
    BY <1>k, ChangeTypes
  <1>f. /\ service.at = "recover" => service.on = {} /\ (Turns("recover", {}) \/ service' # service)
        /\ [Idle EXCEPT !.at = "recover"] \in Services
        /\ [Idle EXCEPT !.at = "recover"].at = "recover" /\ [Idle EXCEPT !.at = "recover"].on = {}
    BY <1>k, <1>s, ChangeAssumption, IdleTurns DEF OneWorks, Turns
  <1>u. /\ UNCHANGED <<worktree, patch, commits, meddled, deaths>>
        /\ \A d \in Changes \ {c} : worktree'[d] = worktree[d] /\ patch'[d] = patch[d]
        /\ worktree' \in [Changes -> Values] /\ patch' \in [Changes -> Values]
    BY <1>k DEF ApproveApply, Apply, Digested, RetestPasses, RetestFails, Compensate, Reverse, Reversed, Rollback,
                RecoverPrepare, RecoverTest, RecoverApply, Undo, Undone, RecordOnly, InRepository
  (* The record as it was, and the process somewhere else.                  *)
  <1>a. ASSUME UNCHANGED change, tree' \in Values \ {NoContent},
               \/ /\ service' = Idle /\ ~At(c, "edited")
               \/ \E there \in {"applied", "compensate", "reverse", "reversed", "retest", "undo", "undone", "stuck"} :
                    /\ Continue(c, there) \/ Turns(there, {c})
                    /\ change[c].state = "APPLYING" \/ (there \in {"reverse", "reversed"} /\ change[c].state = "APPLIED_LOCAL"),
               service.on \subseteq {c}
        PROVE  /\ ChangeTypeOK' /\ DecidedFirst' /\ ReviewedIsKept' /\ ReviewedIsTested'
               /\ Standing' /\ Underway'
    <2>1. Saves(c, change[c])
      BY <1>k, <1>a, SaveNothing
    <2>2. CASE service' = Idle /\ ~At(c, "edited")
      <3>1. Turns("idle", {})
        BY <2>2, <1>i DEF Turns
      <3>2. RecordSound(change[c], worktree'[c], patch'[c], commits, deaths', FALSE)
        BY <2>2, <1>k, <1>u DEF RecordSound
      <3> QED
        BY <1>a, <1>k, <1>u, <2>1, <3>1, <3>2, SoundStep DEF Stations
    <2>3. ASSUME NEW there \in {"applied", "compensate", "reverse", "reversed", "retest", "undo", "undone", "stuck"},
                 Continue(c, there) \/ Turns(there, {c}),
                 change[c].state = "APPLYING" \/ (there \in {"reverse", "reversed"} /\ change[c].state = "APPLIED_LOCAL")
          PROVE  /\ ChangeTypeOK' /\ DecidedFirst' /\ ReviewedIsKept' /\ ReviewedIsTested'
                 /\ Standing' /\ Underway'
      <3>1. Turns(there, {c})
        BY <2>3, <1>k, ContinueTurns DEF Stations
      <3>2. RecordSound(change[c], worktree'[c], patch'[c], commits, deaths', FALSE)
        BY <2>3, <1>k, <1>u DEF RecordSound
      <3>3. WorkSound(change[c], worktree'[c], patch'[c], commits, there)
        BY <2>3 DEF WorkSound
      <3>4. there \in Stations /\ there # "edited" /\ there \notin {"idle", "down", "recover"}
        BY DEF Stations
      <3> QED
        BY <1>a, <1>k, <1>u, <2>1, <3>1, <3>2, <3>3, <3>4, SoundStep
    <2> QED
      BY <1>a, <2>2, <2>3
  (* A new record, and the operation is over.                               *)
  <1>b. ASSUME NEW row, Saves(c, row), UNCHANGED tree, NEW at \in {"idle", "recover"}, Turns(at, {}),
               RecordSound(row, worktree[c], patch[c], commits, deaths, FALSE), service.on \subseteq {c}
        PROVE  /\ ChangeTypeOK' /\ DecidedFirst' /\ ReviewedIsKept' /\ ReviewedIsTested'
               /\ Standing' /\ Underway'
    <2>1. at \in Stations
      BY DEF Stations
    <2> QED
      BY <1>b, <1>k, <1>u, <2>1, SoundStep
  <1>1. CASE ApproveApply(c)
    <2>1. PICK row : /\ Saves(c, row) /\ row.state = "APPLYING" /\ row.base = change[c].base
                     /\ row.decisions = Append(change[c].decisions, "C2") /\ row.tests = change[c].tests
                     /\ row.digest = change[c].digest
      BY <1>1, <1>k, DecideRow DEF ApproveApply, ChangeStates
    <2>2. Free /\ UNCHANGED tree /\ change[c].state = "WAITING_APPLY_APPROVAL" /\ Continue(c, "apply")
      BY <1>1 DEF ApproveApply, RecordOnly
    <2>3. Turns("apply", {c})
      BY <1>k, <2>2, ContinueTurns DEF Stations
    <2>4. RecordSound(row, worktree'[c], patch'[c], commits, deaths', FALSE)
      BY <1>k, <1>u, <2>1, <2>2, Appended DEF RecordSound, DecisionsOf, Reviewed, Early
    <2>5. WorkSound(row, worktree'[c], patch'[c], commits, "apply")
      BY <2>1 DEF WorkSound
    <2> QED
      BY <1>k, <1>i, <1>u, <2>1, <2>2, <2>3, <2>4, <2>5, SoundStep DEF Stations
  <1>p. change[c].state \in {"APPLYING", "APPLIED_LOCAL"} =>
          patch[c] \in Values \ {NoContent} /\ From(c) \in Values \ {NoContent}
    BY <1>k, <1>v DEF RecordSound, Reviewed
  <1>2. CASE Apply(c) \/ Reverse(c) \/ Undo(c)
    <2>1. At(c, "apply") \/ At(c, "reverse") \/ At(c, "undo")
      BY <1>2 DEF Apply, Reverse, Undo
    <2>2. /\ change[c].state \in {"APPLYING", "APPLIED_LOCAL"} /\ service.on = {c} /\ ~At(c, "edited")
          /\ ~At(c, "reverse") => change[c].state = "APPLYING"
      BY <1>k, <1>i, <2>1 DEF WorkSound
    <2>3. tree' \in Values \ {NoContent} /\ UNCHANGED change
      BY <1>2, <1>k, <1>p, <2>2 DEF Apply, Reverse, Undo
    <2>4. \/ service' = Idle
          \/ Continue(c, "reversed")
          \/ change[c].state = "APPLYING" /\ \E there \in {"applied", "compensate", "undone", "stuck"} : Continue(c, there)
      BY <1>2, <1>i, <2>2 DEF Apply, Reverse, Undo, At
    <2> QED
      BY <1>a, <2>2, <2>3, <2>4
  <1>3. CASE Digested(c)
    <2>1. /\ At(c, "applied") /\ UNCHANGED <<change, tree>> /\ service' = [service EXCEPT !.at = "retest", !.applied = tree]
      BY <1>3 DEF Digested, RecordOnly
    <2>2. change[c].state = "APPLYING" /\ service.on = {c}
      BY <1>k, <1>i, <2>1 DEF WorkSound
    <2>3. Turns("retest", {c})
      BY <1>k, <1>s, <2>1, <2>2 DEF Turns, Stations
    <2> QED
      BY <1>a, <1>k, <2>1, <2>2, <2>3
  <1>4. CASE RetestFails(c) \/ Rollback(c)
    <2>1. UNCHANGED <<change, tree>> /\ service.on \subseteq {c}
      BY <1>4, <1>i DEF RetestFails, Rollback, RecordOnly
    <2>2. \/ Continue(c, "compensate") /\ change[c].state = "APPLYING"
          \/ Continue(c, "reverse") /\ change[c].state = "APPLIED_LOCAL"
      BY <1>4, <1>k, <1>i DEF RetestFails, Rollback, WorkSound
    <2> QED
      BY <1>a, <1>k, <2>1, <2>2
  <1>5. CASE RetestPasses(c)
    <2> DEFINE row == [change[c] EXCEPT !.state = "APPLIED_LOCAL", !.applied = service.applied]
    <2>2. Save(c, row) /\ At(c, "retest") /\ service' = Idle /\ UNCHANGED tree
      BY <1>5 DEF RetestPasses, RecordOnly
    <2>1. /\ row \in ChangeRows /\ row.state = "APPLIED_LOCAL" /\ row.base = change[c].base
          /\ row.decisions = change[c].decisions /\ row.tests = change[c].tests /\ row.digest = change[c].digest
      BY <1>k, <1>r DEF ChangeRows, ChangeStates
    <2> HIDE DEF row
    <2>3. Saves(c, row) /\ Turns("idle", {}) /\ change[c].state = "APPLYING" /\ service.on = {c}
      BY <1>k, <1>i, <2>1, <2>2, SaveRow DEF Turns, WorkSound
    <2>4. RecordSound(row, worktree[c], patch[c], commits, deaths, FALSE)
      BY <1>k, <2>1, <2>3 DEF RecordSound, DecisionsOf, Reviewed, Early
    <2> QED
      BY <1>b, <2>2, <2>3, <2>4
  <1>6. CASE Compensate(c)
    <2>1. At(c, "compensate") /\ change[c].state = "APPLYING" /\ service.on = {c} /\ UNCHANGED tree
      BY <1>6, <1>k, <1>i DEF Compensate, WorkSound, RecordOnly
    <2>2. CASE UNCHANGED change /\ Continue(c, "reverse")
      BY <1>a, <1>k, <2>1, <2>2
    <2>3. CASE SaveState(c, "FAILED") /\ service' = Idle
      <3>1. PICK row : /\ Saves(c, row) /\ row.state = "FAILED" /\ row.base = change[c].base
                       /\ row.decisions = change[c].decisions /\ row.tests = change[c].tests
        BY <2>3, <1>k, StateRow DEF ChangeStates
      <3>2. RecordSound(row, worktree[c], patch[c], commits, deaths, FALSE)
        BY <1>k, <2>1, <3>1 DEF RecordSound, DecisionsOf, Reviewed, Early
      <3>3. Turns("idle", {})
        BY <2>3, <1>i DEF Turns
      <3> QED
        BY <1>b, <2>1, <3>1, <3>2, <3>3
    <2> QED
      BY <1>6, <2>2, <2>3 DEF Compensate
  <1>7. CASE Reversed(c)
    <2>1. At(c, "reversed") /\ change[c].state \in {"APPLYING", "APPLIED_LOCAL"} /\ service.on = {c} /\ UNCHANGED tree
          /\ Turns("idle", {})
      BY <1>7, <1>k, <1>i DEF Reversed, WorkSound, RecordOnly, Turns
    <2>2. \E row : /\ Saves(c, row) /\ row.state = "ROLLED_BACK" /\ row.base = change[c].base /\ row.tests = change[c].tests
                   /\ row.decisions \in {change[c].decisions, Append(change[c].decisions, "ROLLBACK")}
      BY <1>7, <1>k, StateRow, DecideRow DEF Reversed, ChangeStates
    <2>3. PICK row : /\ Saves(c, row) /\ row.state = "ROLLED_BACK" /\ row.base = change[c].base /\ row.tests = change[c].tests
                     /\ row.decisions \in {change[c].decisions, Append(change[c].decisions, "ROLLBACK")}
      BY <2>2
    <2>4. RecordSound(row, worktree[c], patch[c], commits, deaths, FALSE)
      BY <1>k, <2>1, <2>3, Appended DEF RecordSound, DecisionsOf, Reviewed, Early
    <2> QED
      BY <1>b, <2>1, <2>3, <2>4
  <1>8. CASE RecoverPrepare(c) \/ RecoverTest(c)
    <2>1. /\ service.at = "recover" /\ UNCHANGED <<tree, service>> /\ service.on = {} /\ Turns("recover", {})
          /\ ~At(c, "edited")
      BY <1>8, <1>f DEF RecoverPrepare, RecoverTest, Recovering, RecordOnly, At
    <2>2. PICK s \in {"EDITING", "FAILED"} :
            /\ SaveState(c, s)
            /\ change[c].state \in {"PREPARING_WORKTREE", "TESTING"}
            /\ s = "EDITING" /\ change[c].state = "PREPARING_WORKTREE" => worktree[c] # NoContent
            /\ change[c].state = "TESTING" => s = "EDITING"
      BY <1>8 DEF RecoverPrepare, RecoverTest
    <2>3. PICK row : /\ Saves(c, row) /\ row.state = s /\ row.base = change[c].base
                     /\ row.decisions = change[c].decisions /\ row.tests = change[c].tests
      BY <2>2, <1>k, StateRow DEF ChangeStates
    <2>4. RecordSound(row, worktree[c], patch[c], commits, deaths, FALSE)
      BY <1>k, <2>1, <2>2, <2>3 DEF RecordSound, DecisionsOf, Reviewed, Early
    <2> QED
      BY <1>b, <2>1, <2>3, <2>4
  <1>9. CASE RecoverApply(c)
    <2>1. /\ service.at = "recover" /\ UNCHANGED tree /\ service.on = {} /\ change[c].state = "APPLYING"
      BY <1>9, <1>f, <1>k DEF RecoverApply, Recovering, RecordOnly, OneWorks
    <2>2. CASE UNCHANGED change /\ Continue(c, "undo")
      BY <1>a, <1>k, <2>1, <2>2
    <2>3. CASE SaveState(c, "FAILED") /\ UNCHANGED service
      <3>1. PICK row : /\ Saves(c, row) /\ row.state = "FAILED" /\ row.base = change[c].base
                       /\ row.decisions = change[c].decisions /\ row.tests = change[c].tests
        BY <2>3, <1>k, StateRow DEF ChangeStates
      <3>2. RecordSound(row, worktree[c], patch[c], commits, deaths, FALSE)
        BY <1>k, <2>1, <3>1 DEF RecordSound, DecisionsOf, Reviewed, Early
      <3> QED
        BY <1>b, <1>f, <2>1, <2>3, <3>1, <3>2
    <2> QED
      BY <1>9, <2>2, <2>3 DEF RecoverApply
  <1>10. CASE Undone(c)
    <2>1. /\ At(c, "undone") \/ At(c, "stuck")
          /\ change[c].state = "APPLYING" /\ service.on = {c} /\ UNCHANGED tree /\ Turns("recover", {})
      BY <1>10, <1>k, <1>i, <1>f DEF Undone, WorkSound, RecordOnly, Turns
    <2>2. PICK s \in {"ROLLED_BACK", "FAILED"} : SaveState(c, s)
      BY <1>10 DEF Undone
    <2>3. PICK row : /\ Saves(c, row) /\ row.state = s /\ row.base = change[c].base
                     /\ row.decisions = change[c].decisions /\ row.tests = change[c].tests
      BY <2>2, <1>k, StateRow DEF ChangeStates
    <2>4. RecordSound(row, worktree[c], patch[c], commits, deaths, FALSE)
      BY <1>k, <2>1, <2>3 DEF RecordSound, DecisionsOf, Reviewed, Early
    <2> QED
      BY <1>b, <2>1, <2>3, <2>4
  <1> QED
    BY <1>1, <1>2, <1>3, <1>4, <1>5, <1>6, <1>7, <1>8, <1>9, <1>10

(* Nobody is at work any more, and the records stand as they were.          *)
LEMMA QuietSound ==
  ASSUME ChangeIInv, NEW at \in {"idle", "down", "recover"}, Turns(at, {}),
         UNCHANGED <<change, worktree, patch, commits, meddled>>,
         tree' \in Values \ {NoContent}, deaths' \in Nat,
         deaths' # 0 \/ (deaths' = deaths /\ service.on = {})
  PROVE  /\ ChangeTypeOK' /\ DecidedFirst' /\ ReviewedIsKept' /\ ReviewedIsTested'
         /\ Standing' /\ Underway'
  <1>1. ChangeTypeOK'
    BY DEF ChangeIInv, ChangeTypeOK, Turns, Services
  <1>2. OneWorks'
    BY DEF OneWorks, Turns
  <1>3. ASSUME NEW d \in Changes PROVE ChangeSound(d)'
    <2>1. RecordSound(change[d], worktree[d], patch[d], commits, deaths, At(d, "edited"))
      BY Known
    <2>2. ~At(d, "edited")' /\ ~(service.on = {d})' /\ (deaths' # 0 \/ ~At(d, "edited"))
      BY DEF At, Turns
    <2>3. RecordSound(change[d], worktree[d], patch[d], commits, deaths, At(d, "edited"))'
      BY <2>1, <2>2 DEF RecordSound
    <2> QED
      BY <2>2, <2>3 DEF ChangeSound
  <1>4. (OneWorks /\ EverySound)'
    BY <1>2, <1>3 DEF EverySound
  <1>5. (DecidedFirst /\ ReviewedIsKept /\ ReviewedIsTested /\ Standing /\ Underway)'
    BY <1>4, ChangeParts, PTL
  <1> QED
    BY <1>1, <1>5

(* The process dies and starts again.                                       *)
LEMMA RestartSound ==
  ASSUME ChangeIInv, Dies \/ Restarts \/ Serves
  PROVE  /\ ChangeTypeOK' /\ DecidedFirst' /\ ReviewedIsKept' /\ ReviewedIsTested'
         /\ Standing' /\ Underway'
  <1>1. /\ tree \in Values \ {NoContent} /\ deaths \in Nat /\ OneWorks
    BY ChangeParts DEF ChangeIInv, ChangeTypeOK
  <1>2. UNCHANGED <<change, worktree, patch, commits, meddled, tree>>
    BY DEF Dies, Restarts, Serves, RecordOnly, InRepository
  <1>3. deaths' \in Nat /\ (deaths' # 0 \/ (deaths' = deaths /\ service.on = {}))
    BY <1>1 DEF Dies, Restarts, Serves, RecordOnly, InRepository, OneWorks
  <1>4. \E at \in {"idle", "down", "recover"} : Turns(at, {})
    BY ChangeAssumption, IdleTurns DEF Dies, Restarts, Serves, Turns
  <1> QED
    BY <1>1, <1>2, <1>3, <1>4, QuietSound

(* It dies while Git writes.                                                *)
LEMMA DiesWritingSound ==
  ASSUME ChangeIInv, NEW c \in Changes, DiesWriting(c)
  PROVE  /\ ChangeTypeOK' /\ DecidedFirst' /\ ReviewedIsKept' /\ ReviewedIsTested'
         /\ Standing' /\ Underway'
  <1>k. /\ ChangeTypeOK /\ OneWorks
        /\ RecordSound(change[c], worktree[c], patch[c], commits, deaths, At(c, "edited"))
        /\ service.on = {c} => WorkSound(change[c], worktree[c], patch[c], commits, service.at)
        /\ worktree \in [Changes -> Values] /\ patch \in [Changes -> Values]
        /\ deaths \in Nat /\ tree \in Values \ {NoContent} /\ meddled \in Nat
        /\ change[c].state # "NONE" => From(c) \in Contents
    BY Known
  <1>v. Contents \subseteq Values \ {NoContent} /\ Torn \in Values \ {NoContent}
    BY ChangeAssumption DEF Values
  <1>1. /\ service.on = {c} /\ deaths' \in Nat /\ deaths' # 0 /\ Turns("down", {})
        /\ UNCHANGED <<change, patch, commits, meddled>>
        /\ service.at \in {"worktree", "apply", "reverse", "undo"}
    BY <1>k, ChangeAssumption, IdleTurns DEF DiesWriting, Turns, Writing
  <1>2. CASE service.at = "worktree"
    <2>1. PICK v \in {Torn, From(c)} : worktree' = [worktree EXCEPT ![c] = v]
      BY <1>2 DEF DiesWriting
    <2>2. change[c].state = "PREPARING_WORKTREE" /\ UNCHANGED tree
      BY <1>k, <1>1, <1>2 DEF WorkSound, DiesWriting
    <2>3. v \in Values
      BY <1>k, <1>v, <2>2
    <2>4. /\ worktree' \in [Changes -> Values]
          /\ \A d \in Changes \ {c} : worktree'[d] = worktree[d] /\ patch'[d] = patch[d]
      BY <1>k, <1>1, <2>1, <2>3
    <2>5. Saves(c, change[c])
      BY <1>k, <1>1, SaveNothing
    <2>6. RecordSound(change[c], worktree'[c], patch'[c], commits, deaths', FALSE)
      BY <1>k, <1>1, <2>2 DEF RecordSound, Reviewed, Early
    <2> QED
      BY <1>k, <1>1, <2>2, <2>4, <2>5, <2>6, SoundStep DEF Stations
  <1>3. CASE service.at # "worktree"
    <2>1. change[c].state \in {"APPLYING", "APPLIED_LOCAL"}
      BY <1>k, <1>1, <1>3 DEF WorkSound
    <2>2. patch[c] \in Values \ {NoContent} /\ From(c) \in Values \ {NoContent}
      BY <1>k, <1>v, <2>1 DEF RecordSound, Reviewed
    <2>3. UNCHANGED worktree /\ tree' \in {Torn, From(c), patch[c]}
      BY <1>3 DEF DiesWriting, Result
    <2> QED
      BY <1>1, <1>v, <2>2, <2>3, QuietSound
  <1> QED
    BY <1>2, <1>3

(* People commit, and work in the repository.                               *)
LEMMA PeopleSound ==
  ASSUME ChangeIInv, Commit \/ \E v \in Contents : Meddle(v)
  PROVE  /\ ChangeTypeOK' /\ DecidedFirst' /\ ReviewedIsKept' /\ ReviewedIsTested'
         /\ Standing' /\ Underway'
  <1>1. UNCHANGED <<change, worktree, patch, service, deaths>>
    BY DEF Commit, Meddle
  <1>2. /\ commits \in Seq(Contents) /\ commits # <<>> /\ Len(commits) \in Nat \ {0}
        /\ tree \in Values \ {NoContent} /\ meddled \in Nat
    BY DEF ChangeIInv, ChangeTypeOK
  <1>3. Contents \subseteq Values \ {NoContent} /\ (tree # Torn => tree \in Contents)
    BY <1>2, ChangeAssumption DEF Values
  <1>4. /\ commits' \in Seq(Contents) /\ commits' # <<>> /\ Len(commits') \in Nat
        /\ Len(commits) <= Len(commits') /\ \A b \in 1..Len(commits) : commits'[b] = commits[b]
    <2>1. CASE Commit
      BY <1>2, <1>3, <2>1, AppendProperties DEF Commit
    <2>2. CASE \E v \in Contents : Meddle(v)
      BY <1>2, <2>2 DEF Meddle
    <2> QED
      BY <2>1, <2>2
  <1>5. tree' \in Values \ {NoContent} /\ meddled' \in Nat
    BY <1>2, <1>3 DEF Commit, Meddle
  <1>6. ChangeTypeOK'
    BY <1>1, <1>4, <1>5 DEF ChangeIInv, ChangeTypeOK
  <1>7. OneWorks'
    BY <1>1, ChangeParts DEF ChangeIInv, OneWorks
  <1>8. ASSUME NEW d \in Changes PROVE ChangeSound(d)'
    <2>1. /\ RecordSound(change[d], worktree[d], patch[d], commits, deaths, At(d, "edited"))
          /\ service.on = {d} => WorkSound(change[d], worktree[d], patch[d], commits, service.at)
      BY Known
    <2>2. At(d, "edited")' = At(d, "edited")
      BY <1>1 DEF At
    <2>3. change[d].state # "NONE" => /\ change[d].base \in 1..Len(commits')
                                      /\ commits'[change[d].base] = commits[change[d].base]
      BY <1>2, <1>4, <2>1 DEF RecordSound
    <2>4. RecordSound(change[d], worktree[d], patch[d], commits, deaths, At(d, "edited"))'
      BY <1>1, <2>1, <2>2, <2>3 DEF RecordSound, Reviewed
    <2>5. (service.on = {d} => WorkSound(change[d], worktree[d], patch[d], commits, service.at))'
      BY <1>1, <2>1, <2>3 DEF WorkSound
    <2> QED
      BY <2>4, <2>5 DEF ChangeSound
  <1>9. (OneWorks /\ EverySound)'
    BY <1>7, <1>8 DEF EverySound
  <1>10. (DecidedFirst /\ ReviewedIsKept /\ ReviewedIsTested /\ Standing /\ Underway)'
    BY <1>9, ChangeParts, PTL
  <1> QED
    BY <1>6, <1>10

-----------------------------------------------------------------------------
(* The working tree                                                         *)

(* What the operation under way on a change knows of the tree.              *)
KnowsTree(c) ==
  /\ service.at = "apply" => HeadIs(c) /\ tree = From(c)
  /\ service.at \in {"applied", "retest", "compensate", "reverse", "undo"} => tree = patch[c]
  /\ service.at \in {"reversed", "undone"} => tree = From(c)
  /\ service.at # "stuck"
Applying(c)  == change[c].state = "APPLYING"
Attended(c)  == service.on = {c} \/ service.at \in {"down", "recover"}
Integrated      == {"APPLYING", "APPLIED_LOCAL", "FAILED", "ROLLED_BACK"}

(* Nobody else applies a change while the process is at work on one, or     *)
(* serves.                                                                  *)
LEMMA NoOther ==
  ASSUME ChangeIInv, meddled = 0, NEW c \in Changes, service.on = {c} \/ Free
  PROVE  \A d \in Changes \ {c} : ~Applying(d)
  BY DEF ChangeIInv, TreeInHand, Free, Underway, Applying

(* What is to be shown of a step for one change.                            *)
LEMMA TreeStep ==
  ASSUME ChangeIInv, NEW c \in Changes, UNCHANGED <<commits, meddled>>,
         \A d \in Changes \ {c} : change'[d] = change[d] /\ patch'[d] = patch[d],
         service'.on \in {{}, {c}},
         meddled = 0 =>
           /\ Applying(c)' => Attended(c)' /\ InTree(c)'
           /\ (service.on = {c})' => KnowsTree(c)'
           /\ \/ \A d \in Changes \ {c} : ~Applying(d)
              \/ ~Applying(c)' /\ UNCHANGED tree /\ service'.at \in {"down", "recover"}
           /\ tree' # Latest => Explains(c)' \/ (UNCHANGED tree /\ ~Explains(c))
  PROVE  TreeExplained' /\ TreeInHand'
  <1>1. CASE meddled # 0
    BY <1>1 DEF TreeExplained, TreeInHand
  <1>2. CASE meddled = 0
    <2>1. ASSUME NEW d \in Changes \ {c}
          PROVE  /\ Explains(d) /\ UNCHANGED tree => Explains(d)'
                 /\ InTree(d) /\ UNCHANGED tree => InTree(d)'
                 /\ Applying(d)' <=> Applying(d)
      BY DEF Explains, InTree, Applying, HeadIs, From, Latest
    <2>2. TreeExplained'
      <3>1. SUFFICES ASSUME tree' # Latest PROVE \E d \in Changes : Explains(d)'
        BY DEF TreeExplained, Latest
      <3>2. CASE UNCHANGED tree /\ ~Explains(c)
        BY <1>2, <2>1, <3>1, <3>2 DEF ChangeIInv, TreeExplained
      <3> QED
        BY <1>2, <3>1, <3>2
    <2>3. ASSUME NEW d \in Changes, Applying(d)'
          PROVE  Attended(d)' /\ InTree(d)'
      <3>1. CASE d = c
        BY <1>2, <2>3, <3>1
      <3>2. CASE d # c
        <4>1. Applying(d)
          BY <2>1, <2>3, <3>2
        <4>2. UNCHANGED tree /\ service'.at \in {"down", "recover"}
          BY <1>2, <3>2, <4>1
        <4>3. InTree(d)
          BY <1>2, <4>1 DEF ChangeIInv, TreeInHand, Applying
        <4> QED
          BY <2>1, <3>2, <4>2, <4>3 DEF Attended
      <3> QED
        BY <3>1, <3>2
    <2>4. ASSUME NEW d \in Changes, NEW e \in Changes, Applying(d)', Applying(e)'
          PROVE  d = e
      <3>1. CASE d # c /\ e # c
        <4>1. Applying(d) /\ Applying(e)
          BY <2>1, <2>4, <3>1
        <4> QED
          BY <1>2, <4>1 DEF ChangeIInv, TreeInHand, Applying
      <3>2. CASE d = c \/ e = c
        BY <1>2, <2>1, <2>4, <3>2
      <3> QED
        BY <3>1, <3>2
    <2>5. ASSUME NEW d \in Changes, (service.on = {d})' PROVE KnowsTree(d)'
      <3>1. d = c
        BY <2>5
      <3> QED
        BY <1>2, <2>5, <3>1
    <2> QED
      BY <2>2, <2>3, <2>4, <2>5 DEF TreeInHand, KnowsTree, Attended, Applying
  <1>3. meddled \in Nat
    BY DEF ChangeIInv, ChangeTypeOK
  <1> QED
    BY <1>1, <1>2

(* A step that neither begins nor ends an application.                      *)
LEMMA ElsewhereTree ==
  ASSUME ChangeIInv, NEW c \in Changes, UNCHANGED <<commits, meddled, tree>>,
         \A d \in Changes \ {c} : change'[d] = change[d] /\ patch'[d] = patch[d],
         service'.on \in {{}, {c}},
         service'.at \in {"idle", "recover", "worktree", "prepared", "edited", "testing", "archived"},
         change[c].state \notin Integrated, change'[c].state # "APPLYING",
         service.on = {c} \/ Free \/ service'.at = "recover"
  PROVE  TreeExplained' /\ TreeInHand'
  <1>1. ~Applying(c)' /\ ~Explains(c)
    BY DEF Applying, Explains, Integrated
  <1>2. (service.on = {c})' => KnowsTree(c)'
    BY DEF KnowsTree
  <1>3. ASSUME meddled = 0
        PROVE  \/ \A d \in Changes \ {c} : ~Applying(d)
               \/ service'.at \in {"down", "recover"}
    BY <1>3, NoOther
  <1> QED
    BY <1>1, <1>2, <1>3, TreeStep

(* Proposal, preparation, development and refusals.                         *)
LEMMA DevelopTree ==
  ASSUME ChangeIInv, NEW c \in Changes,
         Develop(c) \/ Reject(c, "WAITING_APPLY_APPROVAL", "APPLY_REJECTED")
           \/ RecoverPrepare(c) \/ RecoverTest(c)
  PROVE  TreeExplained' /\ TreeInHand'
  <1>k. /\ ChangeTypeOK /\ OneWorks
        /\ service.on = {c} => WorkSound(change[c], worktree[c], patch[c], commits, service.at)
    BY Known
  <1>r. /\ change \in [Changes -> ChangeRows] /\ change[c] \in ChangeRows /\ NoChange \in ChangeRows
        /\ service \in [at : Stations, on : SUBSET Changes, applied : Values] /\ patch \in [Changes -> Values]
    BY <1>k, ChangeTypes, NoChangeRow DEF ChangeTypeOK, Services
  <1>i. Idle.at = "idle" /\ Idle.on = {}
    BY DEF Idle
  <1>1. ASSUME NEW s \in ChangeStates \ {"APPLYING"},
               SaveState(c, s) \/ DecideAs(c, "C1", s) \/ DecideAs(c, "REJECTED", s)
        PROVE  /\ \A d \in Changes \ {c} : change'[d] = change[d]
               /\ change'[c].state # "APPLYING"
    <2>1. \E row : Saves(c, row) /\ row.state = s
      BY <1>k, <1>1, StateRow, DecideRow
    <2> QED
      BY <2>1 DEF Saves
  <1>2. ASSUME NEW there \in Stations, Continue(c, there)
        PROVE  service'.at = there /\ service'.on = {c}
    BY <1>2, <1>r DEF Continue
  <1>3. ASSUME NEW there, At(c, there)
        PROVE  service.on = {c} /\ service.at = there
    BY <1>3 DEF At
  <1>4. Free => service.on = {} /\ service.at = "idle"
    BY <1>k DEF Free, OneWorks
  <1>5. CASE Propose(c)
    <2> DEFINE row == [NoChange EXCEPT !.state = "WAITING_DEV_APPROVAL", !.base = Len(commits)]
    <2>1. row.state = "WAITING_DEV_APPROVAL"
      BY <1>r DEF ChangeRows
    <2> HIDE DEF row
    <2>2. change' = [change EXCEPT ![c] = row] /\ Free /\ change[c].state = "NONE"
          /\ UNCHANGED <<commits, meddled, tree, patch, service>>
      BY <1>5 DEF Propose, Save, RecordOnly, InRepository, row
    <2> QED
      BY <1>r, <1>4, <2>1, <2>2, ElsewhereTree DEF Integrated
  <1>6. CASE ApprovePrepare(c)
    BY <1>6, <1>1, <1>2, <1>4, ElsewhereTree
       DEF ApprovePrepare, RecordOnly, InRepository, Integrated, Stations, ChangeStates
  <1>7. CASE AddWorktree(c)
    BY <1>7, <1>k, <1>2, <1>3, ElsewhereTree
       DEF AddWorktree, InRepository, Integrated, Stations, WorkSound
  <1>8. CASE WorktreeFails(c)
    BY <1>8, <1>k, <1>1, <1>3, <1>i, ElsewhereTree
       DEF WorktreeFails, RecordOnly, InRepository, Integrated, WorkSound, ChangeStates
  <1>9. CASE Prepared(c)
    <2> DEFINE row == [change[c] EXCEPT !.state = "EDITING", !.started = TRUE]
    <2>1. row.state = "EDITING"
      BY <1>r DEF ChangeRows
    <2> HIDE DEF row
    <2>2. change' = [change EXCEPT ![c] = row] /\ At(c, "prepared") /\ service' = Idle
          /\ UNCHANGED <<commits, meddled, tree, patch>>
      BY <1>9 DEF Prepared, Save, RecordOnly, InRepository, row
    <2> QED
      BY <1>k, <1>r, <1>3, <1>i, <2>1, <2>2, ElsewhereTree DEF Integrated, WorkSound
  <1>10. ASSUME NEW expected \in {"WAITING_DEV_APPROVAL", "WAITING_APPLY_APPROVAL"},
                NEW target \in {"DEV_REJECTED", "APPLY_REJECTED"}, Reject(c, expected, target)
         PROVE  TreeExplained' /\ TreeInHand'
    BY <1>10, <1>1, <1>4, ElsewhereTree DEF Reject, RecordOnly, InRepository, Integrated, ChangeStates
  <1>11. ASSUME NEW v \in Contents, Edit(c, v)
         PROVE  TreeExplained' /\ TreeInHand'
    BY <1>11, <1>2, <1>4, ElsewhereTree DEF Edit, Developing, InRepository, Integrated, Stations
  <1>12. CASE Edited(c)
    <2>n. PICK n \in 1..MaxReplaced : Save(c, [change[c] EXCEPT !.edits = @ + n, !.tests = Untested])
      BY <1>12 DEF Edited
    <2> DEFINE row == [change[c] EXCEPT !.edits = change[c].edits + n, !.tests = Untested]
    <2>1. row.state = change[c].state
      BY <1>r DEF ChangeRows
    <2>2. Save(c, row) /\ At(c, "edited") /\ service' = Idle /\ UNCHANGED <<commits, meddled, tree, patch>>
      BY <1>12, <2>n DEF Edited, RecordOnly, InRepository
    <2> HIDE DEF row
    <2> QED
      BY <1>k, <1>r, <1>3, <1>i, <2>1, <2>2, ElsewhereTree DEF Save, Integrated, WorkSound
  <1>13. CASE RunTest(c)
    <2> DEFINE row == [change[c] EXCEPT !.state = "TESTING", !.runs = change[c].runs + 1]
    <2>1. row.state = "TESTING"
      BY <1>r DEF ChangeRows
    <2>2. Save(c, row) /\ Developing(c) /\ Continue(c, "testing") /\ UNCHANGED <<commits, meddled, tree, patch>>
      BY <1>13 DEF RunTest, RecordOnly, InRepository
    <2> HIDE DEF row
    <2> QED
      BY <1>r, <1>2, <1>4, <2>1, <2>2, ElsewhereTree DEF Save, Integrated, Developing, Stations
  <1>14. ASSUME NEW r \in Recipes, NEW passed \in BOOLEAN, TestEnds(c, r, passed)
         PROVE  TreeExplained' /\ TreeInHand'
    <2> DEFINE new == [change[c].tests EXCEPT ![r] = [passed |-> passed, of |-> worktree[c]]]
    <2>0. /\ At(c, "testing") /\ service' = Idle /\ UNCHANGED <<commits, meddled, tree, patch>>
          /\ Save(c, [change[c] EXCEPT !.state = "EDITING", !.tests = new])
      BY <1>14 DEF TestEnds, RecordOnly, InRepository
    <2> HIDE DEF new
    <2> DEFINE row == [change[c] EXCEPT !.state = "EDITING", !.tests = new]
    <2>1. row.state = "EDITING" /\ Save(c, row)
      BY <1>r, <2>0 DEF ChangeRows
    <2> HIDE DEF row
    <2> QED
      BY <1>k, <1>r, <1>3, <1>i, <2>0, <2>1, ElsewhereTree DEF Save, Integrated, WorkSound
  <1>15. CASE TestNeverRuns(c)
    BY <1>15, <1>k, <1>3, <1>i, ElsewhereTree DEF TestNeverRuns, RecordOnly, InRepository, Integrated, WorkSound
  <1>16. CASE ReadyForReview(c)
    BY <1>16, <1>r, <1>2, <1>4, ElsewhereTree DEF ReadyForReview, InRepository, Integrated, Stations
  <1>17. CASE Archived(c)
    <2> DEFINE row == [change[c] EXCEPT !.state = "WAITING_APPLY_APPROVAL", !.digest = patch[c]]
    <2>1. row.state = "WAITING_APPLY_APPROVAL"
      BY <1>r DEF ChangeRows
    <2>2. Save(c, row) /\ At(c, "archived") /\ service' = Idle /\ UNCHANGED <<commits, meddled, tree, patch>>
      BY <1>17 DEF Archived, RecordOnly, InRepository
    <2> HIDE DEF row
    <2> QED
      BY <1>k, <1>r, <1>3, <1>i, <2>1, <2>2, ElsewhereTree DEF Save, Integrated, WorkSound
  <1>18. CASE RecoverPrepare(c) \/ RecoverTest(c)
    <2>1. PICK s \in {"EDITING", "FAILED"} : SaveState(c, s)
      BY <1>18 DEF RecoverPrepare, RecoverTest
    <2>2. /\ service.at = "recover" /\ UNCHANGED <<commits, meddled, tree, patch, service>>
          /\ change[c].state \notin Integrated /\ service.on = {}
      BY <1>18, <1>k DEF RecoverPrepare, RecoverTest, Recovering, RecordOnly, InRepository, Integrated, OneWorks
    <2>3. s \in ChangeStates \ {"APPLYING"}
      BY DEF ChangeStates
    <2> QED
      BY <1>1, <2>1, <2>2, <2>3, ElsewhereTree
  <1> QED
    BY <1>5, <1>6, <1>7, <1>8, <1>9, <1>10, <1>11, <1>12, <1>13, <1>14, <1>15, <1>16, <1>17, <1>18 DEF Develop

(* A step of an application, by the state it leaves, the place it goes to   *)
(* and the tree it leaves.                                                  *)
Placed(c, t) == \/ HeadIs(c) /\ t \in {From(c), patch[c], Torn}
                \/ ~HeadIs(c) /\ t \in {Latest, From(c), Torn}
Told(c, s, t) == \/ s \in {"APPLYING", "APPLIED_LOCAL"} /\ t \in {patch[c], Torn}
                 \/ s = "FAILED" /\ t = Torn
                 \/ s \in Integrated /\ t = From(c) /\ ~HeadIs(c)
Expects(c, at, t) ==
  /\ at = "apply" => HeadIs(c) /\ t = From(c)
  /\ at \in {"applied", "retest", "compensate", "reverse", "undo"} => t = patch[c]
  /\ at \in {"reversed", "undone"} => t = From(c)
  /\ at # "stuck"

(* A step of an application keeps what the tree is explained by.            *)
LEMMA ApplyStep ==
  ASSUME ChangeIInv, NEW c \in Changes, UNCHANGED <<commits, meddled, patch>>,
         NEW row, Saves(c, row), row.base = change[c].base,
         NEW at, NEW on \in {{}, {c}}, Turns(at, on),
         meddled = 0 =>
           /\ row.state = "APPLYING" => (on = {c} \/ at = "down") /\ Placed(c, tree')
           /\ on = {c} => Expects(c, at, tree')
           /\ \/ \A d \in Changes \ {c} : ~Applying(d)
              \/ row.state # "APPLYING" /\ UNCHANGED tree /\ at = "recover"
           /\ tree' # Latest => Told(c, row.state, tree')
  PROVE  TreeExplained' /\ TreeInHand'
  <1>1. /\ change'[c] = row /\ \A d \in Changes \ {c} : change'[d] = change[d]
        /\ service'.at = at /\ service'.on = on
    BY DEF Saves, Turns
  <1>2. /\ From(c)' = From(c) /\ HeadIs(c)' = HeadIs(c)
        /\ Applying(c)' = (row.state = "APPLYING")
    BY <1>1 DEF From, HeadIs, Applying
  <1>3. Placed(c, tree') => InTree(c)'
    BY <1>2 DEF Placed, InTree, Latest
  <1>4. Told(c, row.state, tree') => Explains(c)'
    BY <1>1, <1>2 DEF Told, Explains, Integrated
  <1>5. Expects(c, at, tree') => KnowsTree(c)'
    BY <1>1, <1>2 DEF Expects, KnowsTree
  <1>6. (on = {c} => (service.on = {c})') /\ ((service.on = {c})' => on = {c})
    BY <1>1
  <1>7. on = {c} \/ at = "down" => Attended(c)'
    BY <1>1 DEF Attended
  <1>8. meddled = 0 =>
          /\ Applying(c)' => Attended(c)' /\ InTree(c)'
          /\ (service.on = {c})' => KnowsTree(c)'
          /\ \/ \A d \in Changes \ {c} : ~Applying(d)
             \/ ~Applying(c)' /\ UNCHANGED tree /\ service'.at \in {"down", "recover"}
          /\ tree' # Latest => Explains(c)' \/ (UNCHANGED tree /\ ~Explains(c))
    BY <1>1, <1>2, <1>3, <1>4, <1>5, <1>6, <1>7
  <1>9. service'.on \in {{}, {c}}
    BY <1>1
  <1> QED
    BY <1>1, <1>8, <1>9, TreeStep

(* The application: what the operation knows of the tree.                   *)
LEMMA InHandTree ==
  ASSUME ChangeIInv, NEW c \in Changes
  PROVE  /\ HeadIs(c) => From(c) = Latest
         /\ meddled = 0 /\ service.on = {c} => Expects(c, service.at, tree)
         /\ meddled = 0 /\ change[c].state = "APPLYING" => Placed(c, tree)
         /\ change[c].state \in Reviewed => patch[c] = change[c].digest /\ patch[c] # From(c)
  BY Known DEF ChangeIInv, TreeInHand, Expects, Placed, InTree, HeadIs, From, Latest, RecordSound

(* No step of an application loses hold of the tree.                        *)
LEMMA ApplyTree ==
  ASSUME ChangeIInv, NEW c \in Changes,
         \/ ApproveApply(c) \/ Apply(c) \/ Digested(c) \/ RetestPasses(c) \/ RetestFails(c)
         \/ Compensate(c) \/ Reverse(c) \/ Reversed(c) \/ Rollback(c)
         \/ RecoverApply(c) \/ Undo(c) \/ Undone(c)
  PROVE  TreeExplained' /\ TreeInHand'
  <1>k. /\ ChangeTypeOK /\ OneWorks
        /\ service.on = {c} => WorkSound(change[c], worktree[c], patch[c], commits, service.at)
    BY Known
  <1>s. service \in [at : Stations, on : SUBSET Changes, applied : Values] /\ change[c] \in ChangeRows
    BY <1>k, ChangeTypes DEF Services
  <1>i. /\ \A there : At(c, there) => service.on = {c} /\ service.at = there
        /\ Idle \in Services /\ Idle.at = "idle" /\ Idle.on = {}
        /\ [Idle EXCEPT !.at = "recover"] \in Services
        /\ [Idle EXCEPT !.at = "recover"].at = "recover" /\ [Idle EXCEPT !.at = "recover"].on = {}
    BY ChangeAssumption, IdleTurns DEF At
  <1>u. UNCHANGED <<patch, commits, meddled>>
    BY DEF ApproveApply, Apply, Digested, RetestPasses, RetestFails, Compensate, Reverse, Reversed, Rollback,
           RecoverApply, Undo, Undone, RecordOnly, InRepository
  <1>o. meddled = 0 /\ (service.on = {c} \/ Free) => \A d \in Changes \ {c} : ~Applying(d)
    BY NoOther
  <1>h. /\ HeadIs(c) => From(c) = Latest
        /\ meddled = 0 /\ service.on = {c} => Expects(c, service.at, tree)
        /\ meddled = 0 /\ change[c].state = "APPLYING" => Placed(c, tree)
        /\ change[c].state \in Reviewed => patch[c] = change[c].digest /\ patch[c] # From(c)
    BY InHandTree
  (* The record stays and the operation goes on.                            *)
  <1>a. ASSUME NEW there \in Stations, Continue(c, there) \/ Turns(there, {c}), UNCHANGED change,
               meddled = 0 => /\ \A d \in Changes \ {c} : ~Applying(d)
                              /\ Placed(c, tree') \/ change[c].state = "APPLIED_LOCAL"
                              /\ Expects(c, there, tree')
                              /\ tree' # Latest => Told(c, change[c].state, tree')
        PROVE  TreeExplained' /\ TreeInHand'
    <2>1. Saves(c, change[c]) /\ Turns(there, {c})
      BY <1>k, <1>a, SaveNothing, ContinueTurns
    <2> QED
      BY <1>a, <1>u, <2>1, ApplyStep
  (* A new record, and the operation is over.                               *)
  <1>b. ASSUME NEW s \in {"APPLIED_LOCAL", "FAILED", "ROLLED_BACK"}, NEW row, Saves(c, row),
               row.state = s, row.base = change[c].base, UNCHANGED tree, service.on = {c},
               Turns("idle", {}) \/ Turns("recover", {}),
               meddled = 0 => (tree # Latest => Told(c, s, tree))
        PROVE  TreeExplained' /\ TreeInHand'
    BY <1>b, <1>o, <1>u, ApplyStep
  <1>1. CASE ApproveApply(c)
    <2>1. /\ HeadIs(c) /\ tree = From(c) /\ UNCHANGED tree /\ Free /\ Continue(c, "apply")
          /\ DecideAs(c, "C2", "APPLYING")
      BY <1>1 DEF ApproveApply, RecordOnly
    <2>2. PICK row : Saves(c, row) /\ row.state = "APPLYING" /\ row.base = change[c].base
      BY <1>k, <2>1, DecideRow DEF ChangeStates
    <2>3. Turns("apply", {c})
      BY <1>k, <2>1, ContinueTurns DEF Stations
    <2>4. Placed(c, tree') /\ Expects(c, "apply", tree') /\ tree' = Latest
      BY <1>h, <2>1 DEF Placed, Expects
    <2> QED
      BY <1>o, <1>u, <2>1, <2>2, <2>3, <2>4, ApplyStep
  <1>2. CASE Apply(c)
    <2>1. At(c, "apply") /\ service.on = {c} /\ change[c].state = "APPLYING" /\ UNCHANGED change
      BY <1>2, <1>k, <1>i DEF Apply, WorkSound
    <2>2. CASE tree = From(c)
      <3>1. tree' = patch[c] /\ Continue(c, "applied") /\ "applied" \in Stations
        BY <1>2, <2>2 DEF Apply, Stations
      <3>2. Told(c, "APPLYING", tree') /\ Expects(c, "applied", tree')
        BY <3>1 DEF Told, Expects
      <3>3. meddled = 0 => Placed(c, tree')
        BY <1>h, <1>i, <2>1, <3>1 DEF Placed, Expects
      <3> QED
        BY <1>a, <1>o, <2>1, <3>1, <3>2, <3>3
    <2>3. CASE tree # From(c)
      <3>1. meddled # 0 /\ Continue(c, "compensate") /\ "compensate" \in Stations
        BY <1>2, <1>h, <1>i, <2>1, <2>3 DEF Apply, Expects, Stations
      <3> QED
        BY <1>a, <2>1, <3>1
    <2> QED
      BY <2>2, <2>3
  <1>3. CASE Digested(c) \/ RetestFails(c)
    <2>1. /\ service.on = {c} /\ change[c].state = "APPLYING" /\ UNCHANGED <<change, tree>>
          /\ service.at \in {"applied", "retest"}
      BY <1>3, <1>k, <1>i DEF Digested, RetestFails, WorkSound, RecordOnly
    <2>2. PICK there \in {"retest", "compensate"} : Continue(c, there) \/ Turns(there, {c})
      BY <1>3, <1>s, <1>k, <2>1 DEF Digested, RetestFails, Turns, Services, Stations, ChangeTypeOK
    <2>3. meddled = 0 => /\ Placed(c, tree') /\ Expects(c, there, tree') /\ Told(c, "APPLYING", tree')
      BY <1>h, <2>1 DEF Expects, Told
    <2>4. there \in Stations
      BY DEF Stations
    <2> QED
      BY <1>a, <1>o, <2>1, <2>2, <2>3, <2>4
  <1>4. CASE RetestPasses(c)
    <2> DEFINE row == [change[c] EXCEPT !.state = "APPLIED_LOCAL", !.applied = service.applied]
    <2>1. row \in ChangeRows /\ row.state = "APPLIED_LOCAL" /\ row.base = change[c].base
      BY <1>s DEF ChangeRows, ChangeStates
    <2>2. Save(c, row) /\ At(c, "retest") /\ service' = Idle /\ UNCHANGED tree
      BY <1>4 DEF RetestPasses, RecordOnly
    <2> HIDE DEF row
    <2>3. Saves(c, row) /\ Turns("idle", {}) /\ service.on = {c} /\ service.at = "retest"
      BY <1>k, <1>i, <2>1, <2>2, SaveRow DEF Turns
    <2>4. meddled = 0 => Told(c, "APPLIED_LOCAL", tree)
      BY <1>h, <2>3 DEF Expects, Told
    <2> QED
      BY <1>b, <2>1, <2>2, <2>3, <2>4
  <1>5. CASE Compensate(c)
    <2>1. /\ service.on = {c} /\ service.at = "compensate" /\ change[c].state = "APPLYING" /\ UNCHANGED tree
      BY <1>5, <1>k, <1>i DEF Compensate, WorkSound, RecordOnly
    <2>2. CASE tree = patch[c]
      <3>1. UNCHANGED change /\ Continue(c, "reverse") /\ "reverse" \in Stations
        BY <1>5, <2>2 DEF Compensate, Stations
      <3>2. Expects(c, "reverse", tree') /\ Told(c, "APPLYING", tree')
        BY <2>1, <2>2 DEF Expects, Told
      <3> QED
        BY <1>a, <1>h, <1>o, <2>1, <3>1, <3>2
    <2>3. CASE tree # patch[c]
      <3>1. meddled # 0 /\ SaveState(c, "FAILED") /\ service' = Idle
        BY <1>5, <1>h, <2>1, <2>3 DEF Compensate, Expects
      <3>2. PICK row : Saves(c, row) /\ row.state = "FAILED" /\ row.base = change[c].base
        BY <1>k, <3>1, StateRow DEF ChangeStates
      <3>3. Turns("idle", {})
        BY <1>i, <3>1 DEF Turns
      <3> QED
        BY <1>b, <2>1, <3>1, <3>2, <3>3
    <2> QED
      BY <2>2, <2>3
  <1>6. CASE Reverse(c)
    <2>1. /\ service.on = {c} /\ service.at = "reverse" /\ change[c].state \in {"APPLYING", "APPLIED_LOCAL"}
          /\ UNCHANGED change
      BY <1>6, <1>k, <1>i DEF Reverse, WorkSound
    <2>2. CASE tree = patch[c]
      <3>1. tree' = From(c) /\ Continue(c, "reversed") /\ "reversed" \in Stations
        BY <1>6, <2>2 DEF Reverse, Stations
      <3>2. Expects(c, "reversed", tree') /\ Placed(c, tree')
        BY <3>1 DEF Expects, Placed
      <3>3. tree' # Latest => Told(c, change[c].state, tree')
        BY <1>h, <2>1, <3>1 DEF Told, Integrated
      <3> QED
        BY <1>a, <1>o, <2>1, <3>1, <3>2, <3>3
    <2>3. CASE tree # patch[c]
      <3>1. meddled # 0 /\ service' = Idle
        BY <1>6, <1>h, <2>1, <2>3 DEF Reverse, Expects
      <3>2. Saves(c, change[c]) /\ Turns("idle", {})
        BY <1>k, <1>i, <2>1, <3>1, SaveNothing DEF Turns
      <3> QED
        BY <1>u, <3>1, <3>2, ApplyStep
    <2> QED
      BY <2>2, <2>3
  <1>7. CASE Reversed(c)
    <2>1. /\ service.on = {c} /\ service.at = "reversed" /\ change[c].state \in {"APPLYING", "APPLIED_LOCAL"}
          /\ UNCHANGED tree /\ Turns("idle", {})
      BY <1>7, <1>k, <1>i DEF Reversed, WorkSound, RecordOnly, Turns
    <2>2. \E row : Saves(c, row) /\ row.state = "ROLLED_BACK" /\ row.base = change[c].base
      BY <1>7, <1>k, StateRow, DecideRow DEF Reversed, ChangeStates
    <2>3. meddled = 0 => (tree # Latest => Told(c, "ROLLED_BACK", tree))
      BY <1>h, <2>1 DEF Expects, Told, Integrated
    <2> QED
      BY <1>b, <2>1, <2>2, <2>3
  <1>8. CASE Rollback(c)
    <2>1. /\ Free /\ change[c].state = "APPLIED_LOCAL" /\ tree = patch[c] /\ UNCHANGED <<change, tree>>
          /\ Continue(c, "reverse") /\ "reverse" \in Stations
      BY <1>8 DEF Rollback, RecordOnly, Stations
    <2>2. Expects(c, "reverse", tree') /\ Told(c, "APPLIED_LOCAL", tree')
      BY <2>1 DEF Expects, Told
    <2> QED
      BY <1>a, <1>o, <2>1, <2>2
  <1>9. CASE RecoverApply(c)
    <2>1. /\ service.at = "recover" /\ service.on = {} /\ UNCHANGED tree /\ change[c].state = "APPLYING"
      BY <1>9, <1>k DEF RecoverApply, Recovering, RecordOnly, OneWorks
    <2>2. meddled = 0 => \A d \in Changes \ {c} : ~Applying(d)
      BY <2>1 DEF ChangeIInv, TreeInHand, Applying
    <2>3. CASE HeadIs(c) /\ patch[c] = change[c].digest /\ tree = patch[c]
      <3>1. UNCHANGED change /\ Continue(c, "undo") /\ "undo" \in Stations
        BY <1>9, <2>3 DEF RecoverApply, Stations
      <3>2. Expects(c, "undo", tree') /\ Told(c, "APPLYING", tree') /\ Placed(c, tree')
        BY <2>1, <2>3 DEF Expects, Told, Placed
      <3> QED
        BY <1>a, <2>1, <2>2, <3>1, <3>2
    <2>4. CASE ~(HeadIs(c) /\ patch[c] = change[c].digest /\ tree = patch[c])
      <3>1. SaveState(c, "FAILED") /\ UNCHANGED service
        BY <1>9, <2>4 DEF RecoverApply
      <3>2. PICK row : Saves(c, row) /\ row.state = "FAILED" /\ row.base = change[c].base
        BY <1>k, <3>1, StateRow DEF ChangeStates
      <3>3. Turns("recover", {})
        BY <1>s, <2>1, <3>1 DEF Turns, Services
      <3>4. meddled = 0 /\ tree # Latest => Told(c, "FAILED", tree)
        BY <1>h, <2>1, <2>4 DEF Placed, Told, Integrated, Reviewed
      <3> QED
        BY <1>u, <2>1, <2>2, <3>2, <3>3, <3>4, ApplyStep
    <2> QED
      BY <2>3, <2>4
  <1>10. CASE Undo(c)
    <2>1. /\ service.on = {c} /\ service.at = "undo" /\ change[c].state = "APPLYING" /\ UNCHANGED change
      BY <1>10, <1>k, <1>i DEF Undo, WorkSound
    <2>2. CASE tree = patch[c]
      <3>1. tree' = From(c) /\ Continue(c, "undone") /\ "undone" \in Stations
        BY <1>10, <2>2 DEF Undo, Stations
      <3>2. Expects(c, "undone", tree') /\ Placed(c, tree')
        BY <3>1 DEF Expects, Placed
      <3>3. tree' # Latest => Told(c, change[c].state, tree')
        BY <1>h, <2>1, <3>1 DEF Told, Integrated
      <3> QED
        BY <1>a, <1>o, <2>1, <3>1, <3>2, <3>3
    <2>3. CASE tree # patch[c]
      <3>1. meddled # 0 /\ Continue(c, "stuck") /\ "stuck" \in Stations
        BY <1>10, <1>h, <2>1, <2>3 DEF Undo, Expects, Stations
      <3> QED
        BY <1>a, <2>1, <3>1
    <2> QED
      BY <2>2, <2>3
  <1>11. CASE Undone(c)
    <2>1. /\ service.on = {c} /\ service.at \in {"undone", "stuck"} /\ UNCHANGED tree /\ Turns("recover", {})
          /\ change[c].state = "APPLYING"
      BY <1>11, <1>k, <1>i DEF Undone, RecordOnly, Turns, WorkSound
    <2>2. CASE service.at = "undone"
      <3>1. \E row : Saves(c, row) /\ row.state = "ROLLED_BACK" /\ row.base = change[c].base
        BY <1>11, <1>k, <2>2, StateRow DEF Undone, ChangeStates
      <3>2. meddled = 0 => (tree # Latest => Told(c, "ROLLED_BACK", tree))
        BY <1>h, <2>1, <2>2 DEF Expects, Told, Integrated
      <3> QED
        BY <1>b, <2>1, <3>1, <3>2
    <2>3. CASE service.at = "stuck"
      <3>1. \E row : Saves(c, row) /\ row.state = "FAILED" /\ row.base = change[c].base
        BY <1>11, <1>k, <2>3, StateRow DEF Undone, ChangeStates
      <3>2. meddled # 0
        BY <1>h, <2>1, <2>3 DEF Expects
      <3> QED
        BY <1>b, <2>1, <3>1, <3>2
    <2> QED
      BY <2>1, <2>2, <2>3
  <1> QED
    BY <1>1, <1>2, <1>3, <1>4, <1>5, <1>6, <1>7, <1>8, <1>9, <1>10, <1>11

(* The process dies or starts again.                                        *)
LEMMA RestartTree ==
  ASSUME ChangeIInv, Dies \/ Restarts \/ Serves
  PROVE  TreeExplained' /\ TreeInHand'
  <1>1. UNCHANGED <<change, patch, commits, tree, meddled>>
    BY DEF Dies, Restarts, Serves, RecordOnly, InRepository
  <1>2. /\ service'.on = {}
        /\ service'.at \in {"down", "recover"} \/ \A c \in Changes : ~Applying(c)
    BY DEF Dies, Restarts, Serves, Idle, Interrupted, Applying
  <1>3. TreeExplained'
    BY <1>1 DEF ChangeIInv, TreeExplained, Latest, Explains, From, HeadIs
  <1>4. TreeInHand'
    BY <1>1, <1>2 DEF ChangeIInv, TreeInHand, Applying, InTree, Latest, From, HeadIs
  <1> QED
    BY <1>3, <1>4

(* A death while Git writes leaves a tree that the record still explains.   *)
LEMMA DiesWritingTree ==
  ASSUME ChangeIInv, NEW c \in Changes, DiesWriting(c)
  PROVE  TreeExplained' /\ TreeInHand'
  <1>k. /\ ChangeTypeOK
        /\ service.on = {c} => WorkSound(change[c], worktree[c], patch[c], commits, service.at)
    BY Known
  <1>h. /\ HeadIs(c) => From(c) = Latest
        /\ meddled = 0 /\ service.on = {c} => Expects(c, service.at, tree)
        /\ meddled = 0 /\ change[c].state = "APPLYING" => Placed(c, tree)
    BY InHandTree
  <1>1. /\ service.on = {c} /\ service.at \in {"worktree", "apply", "reverse", "undo"}
        /\ UNCHANGED <<change, patch, commits, meddled>>
    BY DEF DiesWriting, Writing
  <1>2. Saves(c, change[c]) /\ Turns("down", {})
    BY <1>k, <1>1, ChangeAssumption, IdleTurns, SaveNothing DEF DiesWriting, Turns
  <1>o. meddled = 0 => \A d \in Changes \ {c} : ~Applying(d)
    BY <1>1, NoOther
  <1>3. CASE service.at = "worktree"
    <2>1. change[c].state = "PREPARING_WORKTREE" /\ UNCHANGED tree
      BY <1>k, <1>1, <1>3 DEF WorkSound, DiesWriting
    <2>2. ~Applying(c)' /\ ~Explains(c) /\ service'.on = {}
      BY <1>1, <1>2, <2>1 DEF Applying, Explains, Turns
    <2>3. (service.on = {c})' => KnowsTree(c)'
      BY <2>2
    <2> QED
      BY <1>1, <1>o, <2>1, <2>2, <2>3, TreeStep
  <1>4. CASE service.at = "apply"
    <2>1. change[c].state = "APPLYING" /\ tree' \in {Torn, patch[c]}
      BY <1>k, <1>1, <1>4 DEF WorkSound, DiesWriting, Result
    <2>2. meddled = 0 => Placed(c, tree')
      BY <1>h, <1>1, <1>4, <2>1 DEF Placed, Expects
    <2>3. Told(c, "APPLYING", tree')
      BY <2>1 DEF Told
    <2> QED
      BY <1>1, <1>2, <1>o, <2>1, <2>2, <2>3, ApplyStep
  <1>5. CASE service.at \in {"reverse", "undo"}
    <2>1. change[c].state \in {"APPLYING", "APPLIED_LOCAL"} /\ tree' \in {Torn, From(c)}
      BY <1>k, <1>1, <1>5 DEF WorkSound, DiesWriting, Result
    <2>2. Placed(c, tree')
      BY <2>1 DEF Placed
    <2>3. tree' # Latest => Told(c, change[c].state, tree')
      BY <1>h, <2>1 DEF Told, Integrated
    <2> QED
      BY <1>1, <1>2, <1>o, <2>1, <2>2, <2>3, ApplyStep
  <1> QED
    BY <1>1, <1>3, <1>4, <1>5

(* A commit takes what is in the tree, whoever put it there.                *)
LEMMA PeopleTree ==
  ASSUME ChangeIInv, Commit \/ \E v \in Contents : Meddle(v)
  PROVE  TreeExplained' /\ TreeInHand'
  <1>1. CASE \E v \in Contents : Meddle(v)
    <2>1. meddled' # 0
      BY <1>1 DEF Meddle, ChangeIInv, ChangeTypeOK
    <2> QED
      BY <2>1 DEF TreeExplained, TreeInHand
  <1>2. CASE Commit
    <2>1. /\ UNCHANGED <<change, patch, service, tree, meddled>> /\ tree # Latest
          /\ commits' = Append(commits, tree) /\ tree \in Contents
      BY <1>2, ChangeAssumption DEF Commit, Latest, ChangeIInv, ChangeTypeOK, Values
    <2>2. commits \in Seq(Contents) /\ Len(commits) \in Nat \ {0}
      BY DEF ChangeIInv, ChangeTypeOK
    <2>3. /\ Len(commits') = Len(commits) + 1 /\ commits'[Len(commits) + 1] = tree
          /\ \A b \in 1..Len(commits) : commits'[b] = commits[b]
      BY <2>1, <2>2, AppendProperties
    <2>4. Latest' = tree
      BY <2>1, <2>3 DEF Latest
    <2>5. ASSUME NEW c \in Changes, change[c].state # "NONE"
          PROVE  From(c)' = From(c) /\ ~HeadIs(c)'
      <3>1. change[c].base \in 1..Len(commits)
        BY <2>5, Known DEF RecordSound
      <3> QED
        BY <2>1, <2>2, <2>3, <3>1 DEF From, HeadIs
    <2>6. ASSUME NEW c \in Changes, change[c].state = "APPLYING"
          PROVE  InTree(c)'
      BY <2>1, <2>4, <2>5, <2>6 DEF InTree
    <2>7. ASSUME NEW c \in Changes, meddled = 0, service.on = {c}
          PROVE  Expects(c, service.at, tree)'
      <3>1. Expects(c, service.at, tree) /\ (HeadIs(c) => From(c) = Latest)
        BY <2>7, InHandTree
      <3>2. service.at \in {"reversed", "undone"} => change[c].state # "NONE"
        BY <2>7, Known DEF WorkSound
      <3> QED
        BY <2>1, <2>5, <3>1, <3>2 DEF Expects
    <2>8. TreeExplained'
      BY <2>1, <2>4 DEF TreeExplained
    <2>9. TreeInHand'
      BY <2>1, <2>6, <2>7 DEF ChangeIInv, TreeInHand, Expects
    <2> QED
      BY <2>8, <2>9
  <1> QED
    BY <1>1, <1>2

(* The repository before any change.                                        *)
LEMMA ChangeInvInit ==
  ASSUME ChangeInit
  PROVE  ChangeIInv
  <1>1. /\ FirstContent \in Contents /\ FirstContent \in Values \ {NoContent} /\ NoContent \in Values
    BY ChangeAssumption DEF Values
  <1>2. commits \in Seq(Contents) /\ commits # <<>> /\ Len(commits) = 1 /\ Latest = FirstContent
    BY <1>1 DEF ChangeInit, Latest
  <1>3. service \in Services /\ service.at = "idle" /\ service.on = {}
    BY ChangeAssumption, IdleTurns DEF ChangeInit
  <1>4. ASSUME NEW c \in Changes
        PROVE  /\ change[c] = NoChange /\ change[c].state = "NONE" /\ change[c].decisions = <<>>
               /\ \A r \in Recipes : ~change[c].tests[r].passed
    <2>1. change[c] = NoChange /\ NoChange.state = "NONE"
      BY DEF ChangeInit, NoChange
    <2> QED
      BY <2>1, NoChangeRow
  <1>5. change \in [Changes -> ChangeRows]
    BY NoChangeRow DEF ChangeInit
  <1>6. ChangeTypeOK
    BY <1>1, <1>2, <1>3, <1>5 DEF ChangeInit, ChangeTypeOK, Services
  <1>7. OneWorks
    BY <1>3 DEF OneWorks
  <1>8. EverySound
    BY <1>3, <1>4 DEF EverySound, ChangeSound, RecordSound, DecisionsOf, Reviewed, Early
  <1>9. TreeExplained
    BY <1>2 DEF ChangeInit, TreeExplained
  <1>10. TreeInHand
    BY <1>3, <1>4 DEF TreeInHand
  <1> QED
    BY <1>6, <1>7, <1>8, <1>9, <1>10, ChangeParts DEF ChangeIInv

(* Every step of the changes, and of those around them.                     *)
LEMMA ChangeKeeps ==
  ASSUME ChangeIInv, [ChangeNext]_changeVars
  PROVE  ChangeIInv'
  <1>1. ASSUME NEW c \in Changes,
               \/ Propose(c) \/ ApprovePrepare(c) \/ AddWorktree(c) \/ WorktreeFails(c) \/ Prepared(c)
               \/ Reject(c, "WAITING_DEV_APPROVAL", "DEV_REJECTED")
               \/ Reject(c, "WAITING_APPLY_APPROVAL", "APPLY_REJECTED")
        PROVE  ChangeIInv'
    BY <1>1, PrepareSound, DevelopTree DEF ChangeIInv, Develop
  <1>2. ASSUME NEW c \in Changes,
               \/ \E v \in Contents : Edit(c, v)
               \/ Edited(c) \/ RunTest(c)
               \/ \E r \in Recipes, passed \in BOOLEAN : TestEnds(c, r, passed)
               \/ TestNeverRuns(c) \/ ReadyForReview(c) \/ Archived(c)
        PROVE  ChangeIInv'
    BY <1>2, DevelopSound, DevelopTree DEF ChangeIInv, Develop
  <1>3. ASSUME NEW c \in Changes,
               \/ ApproveApply(c) \/ Apply(c) \/ Digested(c) \/ RetestPasses(c) \/ RetestFails(c)
               \/ Compensate(c) \/ Reverse(c) \/ Reversed(c) \/ Rollback(c)
               \/ RecoverApply(c) \/ Undo(c) \/ Undone(c)
        PROVE  ChangeIInv'
    BY <1>3, ApplySound, ApplyTree DEF ChangeIInv
  <1>4. ASSUME NEW c \in Changes, RecoverPrepare(c) \/ RecoverTest(c)
        PROVE  ChangeIInv'
    BY <1>4, ApplySound, DevelopTree DEF ChangeIInv
  <1>5. ASSUME NEW c \in Changes, DiesWriting(c)
        PROVE  ChangeIInv'
    BY <1>5, DiesWritingSound, DiesWritingTree DEF ChangeIInv
  <1>6. CASE Dies \/ Restarts \/ Serves
    BY <1>6, RestartSound, RestartTree DEF ChangeIInv
  <1>7. CASE Commit \/ \E v \in Contents : Meddle(v)
    BY <1>7, PeopleSound, PeopleTree DEF ChangeIInv
  <1>8. CASE UNCHANGED changeVars
    BY <1>8 DEF changeVars, ChangeIInv, ChangeTypeOK, DecidedFirst, ReviewedIsKept, ReviewedIsTested,
                TreeExplained, Standing, Underway, TreeInHand, Explains, Latest, InTree, From, HeadIs, At
  <1> QED
    BY <1>1, <1>2, <1>3, <1>4, <1>5, <1>6, <1>7, <1>8 DEF ChangeNext, Develop, Integrates, Mends

(* Changes of the code behind two human decisions: decided, reviewed, tested *)
(* and applied as recorded, with people at work in the same repository and   *)
(* the process dying anywhere.                                              *)
THEOREM ChangesControlled == ChangeSpec => []ChangeIInv
  <1>1. ChangeInit => ChangeIInv
    BY ChangeInvInit
  <1>2. ChangeIInv /\ [ChangeNext]_changeVars => ChangeIInv'
    BY ChangeKeeps
  <1> QED
    BY <1>1, <1>2, PTL DEF ChangeSpec

-----------------------------------------------------------------------------
(* The toolbox.  What is said of a copy or of a worker depends on the images *)
(* and on the decisions alone, which only grow.                             *)
Freed(n, images) == n \in Numbers /\ images[n].state \in {"ACTIVE", "ROLLED_BACK"}
FileSound(r, file, images) ==
  /\ file.number # 0 => images[file.number].of = r
  /\ file.state \in WithAdapter \cup {"QUARANTINED"} => file.number # 0
  /\ file.state \in WithAdapter => file.adapter # Nothing
  /\ file.state \notin WithAdapter \cup {"ROLLED_BACK"} => file.adapter = Nothing
HandSound(w, given, images) ==
  /\ w.at = "propose" => w.copy.number = 0 /\ w.copy.adapter = Nothing
  /\ w.on # Nothing => FileSound(w.on, w.copy, images)
  /\ w.at \in {"approve A", "reject A", "approve B", "reject B", "adapter"} => w.on # Nothing
  /\ w.at \in {"approve A", "reject A"} => w.copy.state = "WAITING_PROVISION_APPROVAL"
  /\ w.at \in {"approve B", "reject B"} => w.copy.state = "WAITING_INTEGRATION_APPROVAL"
  /\ w.at = "adapter" => w.copy.state = "QUARANTINED" /\ w.tool # Nothing
  /\ w.at = "start" => w.on \in given.A
  /\ w.at \in {"activate", "integrate", "image", "publish", "finish"} => w.on \in given.B
  /\ w.at \in {"integrate", "image", "publish", "finish"} => w.copy.state = "ACTIVATING"
  /\ w.at = "publish" => Freed(w.copy.number, images)
  /\ w.at \in {"withdraw", "return"} => Freed(w.current, images)
BuildSound(w, given, images) ==
  /\ w.at # "rest" => w.on \in given.A
  /\ w.at \in {"build", "register"} =>
       /\ w.copy.state = "BUILDING" /\ FileSound(w.on, w.copy, images)
       /\ w.current < w.count /\ (w.current # 0 => Freed(w.current, images))
  /\ w.at = "build" => \A n \in Numbers : images[n] # NoImage => n < w.count
  /\ w.at = "register" => w.count \in Numbers /\ images[w.count].of = w.on

Images  == [Numbers -> [state : {"NONE", "QUARANTINED", "ACTIVE", "ROLLED_BACK"},
                        parent : 0..MaxGenerations, of : Demands \cup {Nothing}]]
Decided == [A : SUBSET Demands, B : SUBSET Demands, lost : SUBSET Demands]

(* Images and decisions grow.                                               *)
MoreImages(old, new) ==
  \A n \in Numbers : /\ Freed(n, old) => Freed(n, new)
                     /\ old[n] # NoImage => new[n] # NoImage /\ new[n].of = old[n].of
                                            /\ new[n].parent = old[n].parent
MoreDecided(old, new) == old.A \subseteq new.A /\ old.B \subseteq new.B /\ old.lost \subseteq new.lost

(* The invariant, stated of these.                                          *)
ImagesSound(images, given) ==
  \A n \in Numbers : images[n] # NoImage =>
    /\ images[n].of \in given.A /\ images[n].parent < n
    /\ images[n].state # "QUARANTINED" => images[n].of \in given.B
    /\ images[n].parent # 0 => Freed(images[n].parent, images)
OriginsKnown(files, origins, hands, given) ==
  given.lost = {} =>
    /\ \A a \in Adapters : origins[a] # Nothing => files[origins[a]].adapter = a
    /\ \A h \in Handlers : hands[h].at = "integrate" =>
         files[hands[h].on].adapter = hands[h].copy.adapter
ToolboxCore ==
  /\ ToolboxTypeOK /\ ImagesSound(generation, past)
  /\ \A a \in Adapters : integration[a] # Nothing => integration[a] \in past.B
  /\ \A r \in Demands : FileSound(r, demand[r], generation)
  /\ box # 0 => Freed(box, generation)
  /\ \A h \in Handlers : HandSound(hand[h], past, generation)
  /\ BuildSound(task, past, generation)
  /\ OriginsKnown(demand, integration, hand, past)

(* An image that is named by a request is one.                              *)
LEMMA OfIsTaken ==
  ASSUME NEW g \in Images, NEW n \in Numbers, g[n].of # Nothing
  PROVE  g[n] # NoImage
  BY DEF NoImage

LEMMA CoreIsToolbox == ToolboxIInv <=> ToolboxCore
  <1>1. ASSUME ToolboxIInv PROVE ToolboxCore
    <2>1. ImagesSound(generation, past)
      BY <1>1 DEF ToolboxIInv, GatesPassed, ImageOfRequest, FilesSound, ImagesSound, Taken, Released, Freed
    <2>2. OriginsKnown(demand, integration, hand, past)
      BY <1>1 DEF ToolboxIInv, OriginNamed, OriginsKnown, Works
    <2>3. \A h \in Handlers : HandSound(hand[h], past, generation)
      BY <1>1 DEF ToolboxIInv, HandsSound, HandSound, Works, Sound, FileSound, Released, Freed
    <2>4. BuildSound(task, past, generation)
      BY <1>1 DEF ToolboxIInv, TaskSound, BuildSound, Sound, FileSound, Released, Freed, Taken
    <2> QED
      BY <1>1, <2>1, <2>2, <2>3, <2>4
         DEF ToolboxIInv, ToolboxCore, GatesPassed, FilesSound, Sound, FileSound, Released, Freed
  <1>2. ASSUME ToolboxCore PROVE ToolboxIInv
    <2>0. ToolboxTypeOK /\ generation \in Images /\ ImagesSound(generation, past)
      BY <1>2 DEF ToolboxCore, ToolboxTypeOK, Images
    <2>1. ASSUME NEW n \in Numbers, Freed(n, generation)
          PROVE  n \in Taken /\ generation[n].of \in past.B
      BY <2>0, <2>1 DEF ImagesSound, Freed, Taken, NoImage
    <2>2. GatesPassed
      BY <1>2, <2>0, <2>1 DEF ToolboxCore, GatesPassed, ImagesSound, Taken, Freed
    <2>3. ImageOfRequest
      BY <1>2, <2>0 DEF ToolboxCore, ImageOfRequest, FileSound, ImagesSound, Taken
    <2>4. FilesSound
      BY <1>2, <2>0 DEF ToolboxCore, FilesSound, FileSound, Sound, ImagesSound, Taken, Released, Freed
    <2>5. HandsSound
      BY <1>2 DEF ToolboxCore, HandsSound, HandSound, Works, Sound, FileSound, Released, Freed
    <2>6. TaskSound
      BY <1>2 DEF ToolboxCore, TaskSound, BuildSound, Sound, FileSound, Released, Freed, Taken
    <2>7. OriginNamed
      BY <1>2 DEF ToolboxCore, OriginNamed, OriginsKnown, Works
    <2>8. ASSUME NamesApart, ~RolledBack, past.lost = {} PROVE Accepted
      <3>1. box # 0 => generation[box].state = "ACTIVE"
        BY <1>2, <2>8 DEF ToolboxCore, Freed, RolledBack
      <3>2. ASSUME NEW a \in Adapters, integration[a] # Nothing
            PROVE  Naming(a) # {} /\ integration[a] = Min(Naming(a))
        <4>1. integration[a] \in Demands /\ demand[integration[a]].adapter = a /\ a # Nothing
          BY <2>0, <2>7, <2>8, <3>2, ToolboxAssumption DEF OriginNamed, ToolboxTypeOK
        <4>2. Naming(a) = {integration[a]}
          BY <4>1, <2>8 DEF Naming, NamesApart
        <4>3. Min({integration[a]}) = integration[a]
          BY <4>1, ToolboxAssumption DEF Min
        <4> QED
          BY <4>2, <4>3
      <3> QED
        BY <3>1, <3>2 DEF Accepted
    <2> QED
      BY <2>0, <2>2, <2>3, <2>4, <2>5, <2>6, <2>7, <2>8 DEF ToolboxIInv, OpensAgain
  <1> QED
    BY <1>1, <1>2

-----------------------------------------------------------------------------
(* What stays said while images and decisions grow.                         *)
LEMMA FileStays ==
  ASSUME ToolboxAssumption, NEW old \in Images, NEW new \in Images, MoreImages(old, new),
         NEW r \in Demands, NEW file \in RequestFiles, FileSound(r, file, old)
  PROVE  FileSound(r, file, new)
  <1>1. file.number \in 0..MaxGenerations
    BY DEF RequestFiles
  <1>2. ASSUME file.number # 0 PROVE new[file.number].of = r
    <2>1. file.number \in Numbers /\ old[file.number].of = r /\ r # Nothing
      BY <1>1, <1>2, ToolboxAssumption DEF Numbers, FileSound, ToolboxAssumption
    <2> QED
      BY <2>1, OfIsTaken DEF MoreImages
  <1> QED
    BY <1>2 DEF FileSound

LEMMA HandStays ==
  ASSUME ToolboxAssumption, NEW old \in Images, NEW new \in Images, MoreImages(old, new),
         NEW before \in Decided, NEW after \in Decided, MoreDecided(before, after),
         NEW w \in Work(HandPlaces), HandSound(w, before, old)
  PROVE  HandSound(w, after, new)
  <1>1. w.on \in Demands \cup {Nothing} /\ w.copy \in RequestFiles
    BY DEF Work
  <1>2. w.on # Nothing => FileSound(w.on, w.copy, new)
    BY <1>1, FileStays DEF HandSound
  <1>3. \A n : Freed(n, old) => Freed(n, new)
    BY DEF Freed, MoreImages
  <1> HIDE DEF Freed, FileSound
  <1> QED
    BY <1>2, <1>3 DEF HandSound, MoreDecided

LEMMA BuildStays ==
  ASSUME ToolboxAssumption, NEW old \in Images, NEW new \in Images, MoreImages(old, new),
         \A n \in Numbers : new[n] # NoImage => old[n] # NoImage,
         NEW before \in Decided, NEW after \in Decided, MoreDecided(before, after),
         NEW w \in Work(TaskPlaces), BuildSound(w, before, old)
  PROVE  BuildSound(w, after, new)
  <1>1. w.on \in Demands \cup {Nothing} /\ w.copy \in RequestFiles /\ w.at \in TaskPlaces
    BY DEF Work
  <1>2. w.at # "rest" => w.on \in Demands
    BY DEF BuildSound, Decided
  <1>3. w.at \in {"build", "register"} => FileSound(w.on, w.copy, new)
    BY <1>1, <1>2, FileStays DEF BuildSound
  <1>4. \A n : Freed(n, old) => Freed(n, new)
    BY DEF Freed, MoreImages
  <1>5. w.at = "register" => new[w.count].of = w.on
    <2>1. SUFFICES ASSUME w.at = "register" PROVE new[w.count].of = w.on
      OBVIOUS
    <2>2. w.count \in Numbers /\ old[w.count].of = w.on /\ w.on # Nothing
      BY <1>2, <2>1, ToolboxAssumption DEF BuildSound, ToolboxAssumption
    <2> QED
      BY <2>2, OfIsTaken DEF MoreImages
  <1> HIDE DEF Freed, FileSound
  <1> QED
    BY <1>3, <1>4, <1>5 DEF BuildSound, MoreDecided

(* Types, taken apart.                                                      *)
LEMMA ToolboxTypes ==
  ASSUME ToolboxTypeOK
  PROVE  /\ demand \in [Demands -> RequestFiles] /\ generation \in Images
         /\ integration \in [Adapters -> Demands \cup {Nothing}] /\ box \in 0..MaxGenerations
         /\ hand \in [Handlers -> Work(HandPlaces)] /\ task \in Work(TaskPlaces) /\ past \in Decided
  BY DEF ToolboxTypeOK, Images, Decided

(* What is to be shown of any step.                                         *)
LEMMA ToolboxStep ==
  ASSUME ToolboxCore, ToolboxTypeOK', MoreImages(generation, generation'), MoreDecided(past, past'),
         ImagesSound(generation', past'),
         \A a \in Adapters : \/ integration'[a] = integration[a]
                             \/ integration'[a] # Nothing => integration'[a] \in past'.B,
         \A r \in Demands : demand'[r] = demand[r] \/ FileSound(r, demand'[r], generation'),
         box' = box \/ (box' # 0 => Freed(box', generation')),
         \A h \in Handlers : hand'[h] = hand[h] \/ HandSound(hand'[h], past', generation'),
         BuildSound(task', past', generation'),
         OriginsKnown(demand', integration', hand', past')
  PROVE  ToolboxCore'
  <1>1. generation \in Images /\ past \in Decided /\ hand \in [Handlers -> Work(HandPlaces)]
        /\ demand \in [Demands -> RequestFiles]
    BY ToolboxTypes DEF ToolboxCore
  <1>2. generation' \in Images /\ past' \in Decided
    BY DEF ToolboxTypeOK, Images, Decided
  <1>3. \A r \in Demands : FileSound(r, demand'[r], generation')
    BY <1>1, <1>2, FileStays, ToolboxAssumption DEF ToolboxCore
  <1>4. \A h \in Handlers : HandSound(hand'[h], past', generation')
    BY <1>1, <1>2, HandStays, ToolboxAssumption DEF ToolboxCore
  <1>5. \A a \in Adapters : integration'[a] # Nothing => integration'[a] \in past'.B
    BY DEF ToolboxCore, MoreDecided
  <1>6. box' # 0 => Freed(box', generation')
    BY DEF ToolboxCore, MoreImages, Freed
  <1> QED
    BY <1>3, <1>4, <1>5, <1>6 DEF ToolboxCore

(* While nothing is written over, adapters stay named.                      *)
LEMMA OriginStep ==
  ASSUME ToolboxCore, MoreDecided(past, past'),
         past'.lost = {} => \A r \in Demands : demand[r].adapter # Nothing =>
                              demand'[r].adapter = demand[r].adapter,
         \A a \in Adapters : \/ integration'[a] = integration[a]
                             \/ past'.lost = {} => demand'[integration'[a]].adapter = a,
         \A h \in Handlers : hand'[h].at = "integrate" =>
            \/ hand'[h] = hand[h]
            \/ past'.lost = {} => demand'[hand'[h].on].adapter = hand'[h].copy.adapter
  PROVE  OriginsKnown(demand', integration', hand', past')
  <1>1. /\ integration \in [Adapters -> Demands \cup {Nothing}] /\ past \in Decided
        /\ hand \in [Handlers -> Work(HandPlaces)]
    BY ToolboxTypes DEF ToolboxCore
  <1>2. SUFFICES ASSUME past'.lost = {}
        PROVE  /\ \A a \in Adapters : integration'[a] # Nothing => demand'[integration'[a]].adapter = a
               /\ \A h \in Handlers : hand'[h].at = "integrate" =>
                    demand'[hand'[h].on].adapter = hand'[h].copy.adapter
    BY DEF OriginsKnown
  <1>3. past.lost = {}
    BY <1>2 DEF MoreDecided
  <1>4. ASSUME NEW a \in Adapters, integration'[a] # Nothing, integration'[a] = integration[a]
        PROVE  demand'[integration'[a]].adapter = a
    <2>1. integration[a] \in Demands /\ demand[integration[a]].adapter = a /\ a # Nothing
      BY <1>1, <1>3, <1>4, ToolboxAssumption DEF ToolboxCore, OriginsKnown, ToolboxAssumption
    <2> QED
      BY <1>2, <1>4, <2>1
  <1>5. ASSUME NEW h \in Handlers, hand'[h].at = "integrate", hand'[h] = hand[h]
        PROVE  demand'[hand'[h].on].adapter = hand'[h].copy.adapter
    <2>1. /\ hand[h].at = "integrate" /\ hand[h].on \in Demands /\ HandSound(hand[h], past, generation)
          /\ hand[h].on # Nothing
      BY <1>1, <1>5, ToolboxAssumption DEF ToolboxCore, HandSound, Decided, ToolboxAssumption
    <2>2. hand[h].copy.adapter # Nothing
      BY <2>1 DEF HandSound, FileSound, WithAdapter
    <2>3. demand[hand[h].on].adapter = hand[h].copy.adapter
      BY <1>3, <2>1 DEF ToolboxCore, OriginsKnown
    <2> QED
      BY <1>2, <1>5, <2>1, <2>2, <2>3
  <1> QED
    BY <1>2, <1>4, <1>5

-----------------------------------------------------------------------------
(* The row of a handler                                                     *)
Moves(h, row) ==
  /\ row \in Work(HandPlaces) /\ hand' \in [Handlers -> Work(HandPlaces)] /\ hand'[h] = row
  /\ \A g \in Handlers \ {h} : hand'[g] = hand[g]

LEMMA RestRow ==
  ASSUME ToolboxAssumption
  PROVE  /\ AtRest \in Work(HandPlaces) /\ AtRest \in Work(TaskPlaces)
         /\ AtRest.at = "rest" /\ AtRest.on = Nothing /\ AtRest.copy = NoDemand
         /\ NoDemand \in RequestFiles /\ NoDemand.number = 0 /\ NoDemand.adapter = Nothing
         /\ NoDemand.state = "NONE"
  <1>1. NoDemand \in RequestFiles /\ NoDemand.number = 0 /\ NoDemand.adapter = Nothing
        /\ NoDemand.state = "NONE"
    BY ToolboxAssumption DEF NoDemand, RequestFiles, DemandStates, ToolboxAssumption
  <1>2. 0 \in 0..MaxGenerations
    BY ToolboxAssumption DEF ToolboxAssumption
  <1> QED
    BY <1>1, <1>2 DEF AtRest, Work, HandPlaces, TaskPlaces

LEMMA GoesRow ==
  ASSUME ToolboxTypeOK, NEW h \in Handlers, NEW place \in HandPlaces, Goes(h, place)
  PROVE  \E row : /\ Moves(h, row) /\ row.at = place /\ row.on = hand[h].on
                  /\ row.copy = hand[h].copy /\ row.tool = hand[h].tool
                  /\ row.current = hand[h].current
  <1> DEFINE row == [hand[h] EXCEPT !.at = place]
  <1>1. hand \in [Handlers -> Work(HandPlaces)] /\ hand[h] \in Work(HandPlaces)
    BY ToolboxTypes
  <1>2. /\ row \in Work(HandPlaces) /\ row.at = place /\ row.on = hand[h].on
        /\ row.copy = hand[h].copy /\ row.tool = hand[h].tool /\ row.current = hand[h].current
    BY <1>1 DEF Work
  <1>3. hand' = [hand EXCEPT ![h] = row]
    BY DEF Goes
  <1> HIDE DEF row
  <1>4. Moves(h, row)
    BY <1>1, <1>2, <1>3 DEF Moves
  <1> QED
    BY <1>2, <1>4

LEMMA LeavesRow ==
  ASSUME ToolboxTypeOK, ToolboxAssumption, NEW h \in Handlers, Leaves(h)
  PROVE  Moves(h, AtRest)
  <1>1. hand \in [Handlers -> Work(HandPlaces)] /\ AtRest \in Work(HandPlaces)
    BY ToolboxTypes, RestRow
  <1> QED
    BY <1>1 DEF Leaves, Moves

LEMMA CopiesRow ==
  ASSUME ToolboxTypeOK, ToolboxAssumption, NEW h \in Handlers, NEW r \in Demands,
         NEW place \in HandPlaces, Copies(h, place, r)
  PROVE  \E row : /\ Moves(h, row) /\ row.at = place /\ row.on = r /\ row.copy = demand[r]
  <1> DEFINE row == [AtRest EXCEPT !.at = place, !.on = r, !.copy = demand[r]]
  <1>1. /\ hand \in [Handlers -> Work(HandPlaces)] /\ demand[r] \in RequestFiles
        /\ AtRest \in Work(HandPlaces)
    BY ToolboxTypes, RestRow
  <1>2. row \in Work(HandPlaces) /\ row.at = place /\ row.on = r /\ row.copy = demand[r]
    BY <1>1 DEF Work
  <1>3. hand' = [hand EXCEPT ![h] = row]
    BY DEF Copies
  <1> HIDE DEF row
  <1>4. Moves(h, row)
    BY <1>1, <1>2, <1>3 DEF Moves
  <1> QED
    BY <1>2, <1>4

(* A handler at rest may always be.                                         *)
LEMMA RestSound ==
  ASSUME ToolboxAssumption, NEW given, NEW images
  PROVE  HandSound(AtRest, given, images) /\ BuildSound(AtRest, given, images)
  BY RestRow DEF HandSound, BuildSound

-----------------------------------------------------------------------------
(* The steps of a handler                                                   *)

LEMMA SameGrow ==
  ASSUME NEW images, NEW given
  PROVE  MoreImages(images, images) /\ MoreDecided(given, given)
  BY DEF MoreImages, MoreDecided

(* A handler only reads.                                                    *)
LEMMA ReadStep ==
  ASSUME ToolboxCore, NEW h \in Handlers, NEW row, Moves(h, row), HandSound(row, past, generation),
         row.at = "integrate" => demand[row.on].adapter = row.copy.adapter,
         UNCHANGED <<demand, generation, integration, box, task, past>>
  PROVE  ToolboxCore'
  <1>1. ToolboxTypeOK'
    BY DEF ToolboxCore, ToolboxTypeOK, Moves
  <1>2. MoreImages(generation, generation') /\ MoreDecided(past, past')
    BY SameGrow
  <1>3. ImagesSound(generation', past') /\ BuildSound(task', past', generation')
    BY DEF ToolboxCore
  <1>4. \A g \in Handlers : hand'[g] = hand[g] \/ HandSound(hand'[g], past', generation')
    BY DEF Moves
  <1>5. OriginsKnown(demand', integration', hand', past')
    BY <1>2, OriginStep DEF Moves
  <1> QED
    BY <1>1, <1>2, <1>3, <1>4, <1>5, ToolboxStep

(* A handler writes a request.                                              *)
LEMMA WriteStep ==
  ASSUME ToolboxCore, ToolboxAssumption, NEW h \in Handlers, NEW row, Moves(h, row), row.at # "integrate",
         NEW r \in Demands, NEW file \in RequestFiles, FileSound(r, file, generation),
         demand' = [demand EXCEPT ![r] = file], past' \in Decided, MoreDecided(past, past'),
         HandSound(row, past', generation),
         past'.lost = {} /\ demand[r].adapter # Nothing => file.adapter = demand[r].adapter,
         UNCHANGED <<generation, integration, box, task>>
  PROVE  ToolboxCore'
  <1>0. ToolboxTypeOK
    BY DEF ToolboxCore
  <1>1. ToolboxTypeOK'
    BY <1>0, ToolboxTypes DEF ToolboxTypeOK, Moves, Decided
  <1>2. MoreImages(generation, generation')
    BY SameGrow
  <1>3. ImagesSound(generation', past')
    BY DEF ToolboxCore, ImagesSound, MoreDecided
  <1>4. \A g \in Handlers : hand'[g] = hand[g] \/ HandSound(hand'[g], past', generation')
    BY DEF Moves
  <1>5. demand'[r] = file /\ \A q \in Demands \ {r} : demand'[q] = demand[q]
    BY <1>0, ToolboxTypes
  <1>6. BuildSound(task', past', generation')
    BY <1>0, <1>2, BuildStays, ToolboxTypes DEF ToolboxCore
  <1>7. OriginsKnown(demand', integration', hand', past')
    BY <1>5, OriginStep DEF Moves
  <1> QED
    BY <1>1, <1>2, <1>3, <1>4, <1>5, <1>6, <1>7, ToolboxStep

(* What a handler read, by what it does.                                    *)
LEMMA AtWork ==
  ASSUME ToolboxCore, ToolboxAssumption, NEW h \in Handlers
  PROVE  /\ HandSound(hand[h], past, generation) /\ hand[h] \in Work(HandPlaces)
         /\ hand[h].on \in Demands \cup {Nothing} /\ hand[h].copy \in RequestFiles
         /\ hand[h].tool \in Adapters \cup {Nothing} /\ hand[h].current \in 0..MaxGenerations
         /\ hand[h].copy.number \in 0..MaxGenerations
         /\ hand[h].copy.adapter \in Adapters \cup {Nothing}
         /\ hand[h].on # Nothing <=> hand[h].on \in Demands
         /\ hand[h].on \in past.A \cup past.B => hand[h].on \in Demands
  <1>1. /\ HandSound(hand[h], past, generation) /\ hand[h] \in Work(HandPlaces) /\ past \in Decided
    BY ToolboxTypes DEF ToolboxCore
  <1>2. /\ hand[h].on \in Demands \cup {Nothing} /\ hand[h].copy \in RequestFiles
        /\ hand[h].tool \in Adapters \cup {Nothing} /\ hand[h].current \in 0..MaxGenerations
    BY <1>1 DEF Work
  <1> QED
    BY <1>1, <1>2, ToolboxAssumption DEF RequestFiles, Decided, ToolboxAssumption

LEMMA RewriteFile ==
  ASSUME ToolboxCore, ToolboxAssumption, NEW h \in Handlers, NEW s \in DemandStates, Rewrites(h, s)
  PROVE  \E file \in RequestFiles :
           /\ demand' = [demand EXCEPT ![hand[h].on] = file] /\ file.state = s
           /\ file.number = hand[h].copy.number /\ file.adapter = hand[h].copy.adapter
  <1> DEFINE file == [hand[h].copy EXCEPT !.state = s]
  <1>1. hand[h].copy \in RequestFiles
    BY AtWork
  <1>2. /\ file \in RequestFiles /\ file.state = s
        /\ file.number = hand[h].copy.number /\ file.adapter = hand[h].copy.adapter
    BY <1>1 DEF RequestFiles
  <1>3. demand' = [demand EXCEPT ![hand[h].on] = file]
    BY DEF Rewrites
  <1> QED
    BY <1>2, <1>3

LEMMA LostMore ==
  ASSUME ToolboxCore, NEW r \in Demands, NEW read,
         past' = [past EXCEPT !.lost = @ \cup Lost(r, read)]
  PROVE  /\ past' \in Decided /\ MoreDecided(past, past') /\ past'.A = past.A /\ past'.B = past.B
         /\ past'.lost = {} => demand[r] = read
  <1>1. past \in Decided /\ Lost(r, read) \in SUBSET Demands
    BY ToolboxTypes DEF ToolboxCore, Lost
  <1> DEFINE l == past.lost \cup Lost(r, read)
  <1>2. past' = [past EXCEPT !.lost = l]
    OBVIOUS
  <1>3. l \in SUBSET Demands
    BY <1>1 DEF Decided
  <1> HIDE DEF l
  <1>4. past' \in Decided /\ past'.A = past.A /\ past'.B = past.B /\ past'.lost = l
    BY <1>1, <1>2, <1>3 DEF Decided
  <1>5. past.lost \subseteq l /\ (l = {} => demand[r] = read)
    BY DEF l, Lost
  <1> QED
    BY <1>4, <1>5 DEF MoreDecided

LEMMA OverwritesMore ==
  ASSUME ToolboxCore, NEW h \in Handlers, hand[h].on \in Demands, Overwrites(h)
  PROVE  /\ past' \in Decided /\ MoreDecided(past, past') /\ past'.A = past.A /\ past'.B = past.B
         /\ past'.lost = {} => demand[hand[h].on] = hand[h].copy
  BY LostMore DEF Overwrites

(* A proposal.                                                              *)
LEMMA ProposeLooksKeeps ==
  ASSUME ToolboxCore, ToolboxAssumption, NEW h \in Handlers, NEW p \in Packages, ProposeLooks(h, p)
  PROVE  ToolboxCore'
  <1> DEFINE file == [NoDemand EXCEPT !.package = p]
             row  == [AtRest EXCEPT !.at = "propose", !.copy = file]
  <1>1. hand' = [hand EXCEPT ![h] = row]
    <2>1. row = [AtRest EXCEPT !.at = "propose", !.copy.package = p]
      BY DEF AtRest
    <2> QED
      BY <2>1 DEF ProposeLooks
  <1>2. file \in RequestFiles /\ file.number = 0 /\ file.adapter = Nothing /\ file.state = "NONE"
    BY RestRow DEF RequestFiles
  <1> HIDE DEF file
  <1>3. row \in Work(HandPlaces) /\ row.at = "propose" /\ row.on = Nothing /\ row.copy = file
    BY <1>2, RestRow DEF Work, HandPlaces
  <1> HIDE DEF row
  <1>4. hand \in [Handlers -> Work(HandPlaces)]
    BY ToolboxTypes DEF ToolboxCore
  <1>5. Moves(h, row)
    BY <1>1, <1>3, <1>4 DEF Moves
  <1>6. HandSound(row, past, generation)
    BY <1>2, <1>3 DEF HandSound
  <1> QED
    BY <1>3, <1>5, <1>6, ReadStep DEF ProposeLooks, Files, Server

LEMMA ProposeWritesKeeps ==
  ASSUME ToolboxCore, ToolboxAssumption, NEW h \in Handlers, NEW r \in Demands, ProposeWrites(h, r)
  PROVE  ToolboxCore'
  <1> DEFINE file == [hand[h].copy EXCEPT !.state = "WAITING_PROVISION_APPROVAL"]
  <1>1. /\ hand[h].copy \in RequestFiles /\ hand[h].copy.number = 0 /\ hand[h].copy.adapter = Nothing
    BY AtWork DEF HandSound, ProposeWrites, Does
  <1>2. file \in RequestFiles /\ file.number = 0 /\ file.adapter = Nothing
        /\ file.state = "WAITING_PROVISION_APPROVAL"
    BY <1>1 DEF RequestFiles, DemandStates
  <1>3. demand' = [demand EXCEPT ![r] = file]
    BY DEF ProposeWrites
  <1> HIDE DEF file
  <1>4. FileSound(r, file, generation)
    BY <1>2 DEF FileSound, WithAdapter
  <1>5. Moves(h, AtRest) /\ HandSound(AtRest, past', generation) /\ AtRest.at # "integrate"
    BY LeavesRow, RestSound, RestRow DEF ToolboxCore, ProposeWrites
  <1>6. demand[r].adapter = Nothing
    BY RestRow DEF ProposeWrites
  <1>7. past' \in Decided /\ MoreDecided(past, past')
    BY ToolboxTypes, SameGrow DEF ToolboxCore, ProposeWrites, Server
  <1> QED
    BY <1>2, <1>3, <1>4, <1>5, <1>6, <1>7, WriteStep DEF ProposeWrites, Files

(* The two gates.                                                           *)
LEMMA AnswerNames ==
  /\ Answer("A", TRUE) = "approve A" /\ Answer("A", FALSE) = "reject A"
  /\ Answer("B", TRUE) = "approve B" /\ Answer("B", FALSE) = "reject B"
  <1>1. Answer("A", TRUE) = "approve A" /\ Answer("B", TRUE) = "approve B"
    BY DEF Answer
  <1>2. Answer("A", FALSE) = "reject A" /\ Answer("B", FALSE) = "reject B"
    BY DEF Answer
  <1> QED
    BY <1>1, <1>2

LEMMA DecisionReadsKeeps ==
  ASSUME ToolboxCore, ToolboxAssumption, NEW h \in Handlers, NEW r \in Demands,
         NEW gate \in {"A", "B"}, NEW yes \in BOOLEAN, DecisionReads(h, r, gate, yes)
  PROVE  ToolboxCore'
  <1>1. Answer(gate, yes) \in (IF gate = "A" THEN {"approve A", "reject A"} ELSE {"approve B", "reject B"})
    BY AnswerNames
  <1>2. Answer(gate, yes) \in HandPlaces
    BY <1>1 DEF HandPlaces
  <1>3. PICK row : Moves(h, row) /\ row.at = Answer(gate, yes) /\ row.on = r /\ row.copy = demand[r]
    BY <1>2, CopiesRow DEF ToolboxCore, DecisionReads
  <1>4. FileSound(r, demand[r], generation) /\ r # Nothing
    BY ToolboxAssumption DEF ToolboxCore, ToolboxAssumption
  <1>5. HandSound(row, past, generation) /\ row.at # "integrate"
    BY <1>1, <1>3, <1>4 DEF HandSound, DecisionReads
  <1> QED
    BY <1>3, <1>5, ReadStep DEF DecisionReads, Files, Server

LEMMA RejectsKeeps ==
  ASSUME ToolboxCore, ToolboxAssumption, NEW h \in Handlers, NEW gate \in {"A", "B"}, Rejects(h, gate)
  PROVE  ToolboxCore'
  <1> DEFINE s == IF gate = "A" THEN "PROVISION_REJECTED" ELSE "INTEGRATION_REJECTED"
  <1>1. hand[h].at = IF gate = "A" THEN "reject A" ELSE "reject B"
    BY AnswerNames DEF Rejects, Does
  <1>2. /\ hand[h].on \in Demands /\ FileSound(hand[h].on, hand[h].copy, generation)
        /\ hand[h].copy.state = IF gate = "A" THEN "WAITING_PROVISION_APPROVAL"
                                              ELSE "WAITING_INTEGRATION_APPROVAL"
    BY <1>1, AtWork DEF HandSound
  <1>3. s \in DemandStates /\ Rewrites(h, s)
    BY DEF DemandStates, Rejects
  <1>4. PICK file \in RequestFiles :
           /\ demand' = [demand EXCEPT ![hand[h].on] = file] /\ file.state = s
           /\ file.number = hand[h].copy.number /\ file.adapter = hand[h].copy.adapter
    BY <1>3, RewriteFile
  <1>5. FileSound(hand[h].on, file, generation)
    BY <1>2, <1>4 DEF FileSound, WithAdapter
  <1>6. /\ past' \in Decided /\ MoreDecided(past, past')
        /\ past'.lost = {} => demand[hand[h].on] = hand[h].copy
    BY <1>2, OverwritesMore DEF Rejects
  <1>7. Moves(h, AtRest) /\ HandSound(AtRest, past', generation) /\ AtRest.at # "integrate"
    BY LeavesRow, RestSound, RestRow DEF ToolboxCore, Rejects
  <1> QED
    BY <1>2, <1>4, <1>5, <1>6, <1>7, WriteStep DEF Rejects, Files

LEMMA ApprovesMore ==
  ASSUME ToolboxCore, NEW h \in Handlers, NEW gate \in {"A", "B"}, Approves(h, gate),
         hand[h].on \in Demands
  PROVE  /\ past' \in Decided /\ MoreDecided(past, past')
         /\ past'.lost = {} => demand[hand[h].on] = hand[h].copy
         /\ gate = "A" => hand[h].on \in past'.A
         /\ gate = "B" => hand[h].on \in past'.B
  <1> DEFINE r == hand[h].on
             l == past.lost \cup Lost(r, hand[h].copy)
  <1>1. past \in Decided /\ l \in SUBSET Demands
    BY ToolboxTypes DEF ToolboxCore, Lost, Decided
  <1>2. past.lost \subseteq l /\ (l = {} => demand[r] = hand[h].copy)
    BY DEF Lost
  <1>3. CASE gate = "A"
    <2>1. past' = [past EXCEPT !["A"] = @ \cup {r}, !.lost = @ \cup Lost(r, hand[h].copy)]
      BY <1>3 DEF Approves
    <2>2. past' = [past EXCEPT !.A = past.A \cup {r}, !.lost = l]
      BY <1>1, <2>1 DEF Decided
    <2> HIDE DEF l, r
    <2>3. past.A \cup {r} \in SUBSET Demands
      BY <1>1 DEF Decided, r
    <2>4. past' \in Decided /\ past'.A = past.A \cup {r} /\ past'.B = past.B /\ past'.lost = l
      BY <1>1, <2>2, <2>3 DEF Decided
    <2> QED
      BY <1>2, <1>3, <2>4 DEF MoreDecided, r
  <1>4. CASE gate = "B"
    <2>1. past' = [past EXCEPT !["B"] = @ \cup {r}, !.lost = @ \cup Lost(r, hand[h].copy)]
      BY <1>4 DEF Approves
    <2>2. past' = [past EXCEPT !.B = past.B \cup {r}, !.lost = l]
      BY <1>1, <2>1 DEF Decided
    <2> HIDE DEF l, r
    <2>3. past.B \cup {r} \in SUBSET Demands
      BY <1>1 DEF Decided, r
    <2>4. past' \in Decided /\ past'.B = past.B \cup {r} /\ past'.A = past.A /\ past'.lost = l
      BY <1>1, <2>2, <2>3 DEF Decided
    <2> QED
      BY <1>2, <1>4, <2>4 DEF MoreDecided, r
  <1> QED
    BY <1>3, <1>4

LEMMA ApprovesKeeps ==
  ASSUME ToolboxCore, ToolboxAssumption, NEW h \in Handlers, NEW gate \in {"A", "B"}, Approves(h, gate)
  PROVE  ToolboxCore'
  <1> DEFINE s == IF gate = "A" THEN "BUILDING" ELSE "ACTIVATING"
             place == IF gate = "A" THEN "start" ELSE "activate"
  <1>1. hand[h].at = IF gate = "A" THEN "approve A" ELSE "approve B"
    BY AnswerNames DEF Approves, Does
  <1>2. /\ hand[h].on \in Demands /\ FileSound(hand[h].on, hand[h].copy, generation)
        /\ hand[h].copy.state = IF gate = "A" THEN "WAITING_PROVISION_APPROVAL"
                                              ELSE "WAITING_INTEGRATION_APPROVAL"
    BY <1>1, AtWork DEF HandSound
  <1>3. s \in DemandStates /\ Rewrites(h, s) /\ place \in HandPlaces /\ Goes(h, place)
    BY DEF DemandStates, HandPlaces, Approves
  <1>4. PICK file \in RequestFiles :
           /\ demand' = [demand EXCEPT ![hand[h].on] = file] /\ file.state = s
           /\ file.number = hand[h].copy.number /\ file.adapter = hand[h].copy.adapter
    BY <1>3, RewriteFile
  <1>5. FileSound(hand[h].on, file, generation)
    BY <1>2, <1>4 DEF FileSound, WithAdapter
  <1>6. /\ past' \in Decided /\ MoreDecided(past, past')
        /\ past'.lost = {} => demand[hand[h].on] = hand[h].copy
        /\ gate = "A" => hand[h].on \in past'.A
        /\ gate = "B" => hand[h].on \in past'.B
    BY <1>2, ApprovesMore
  <1>7. PICK row : /\ Moves(h, row) /\ row.at = place /\ row.on = hand[h].on /\ row.copy = hand[h].copy
    BY <1>3, GoesRow DEF ToolboxCore
  <1>8. HandSound(row, past', generation) /\ row.at # "integrate"
    BY <1>2, <1>6, <1>7 DEF HandSound
  <1> QED
    BY <1>2, <1>4, <1>5, <1>6, <1>7, <1>8, WriteStep DEF Approves, Files

(* An adapter is proposed.                                                  *)
LEMMA AdapterReadsKeeps ==
  ASSUME ToolboxCore, ToolboxAssumption, NEW h \in Handlers, NEW r \in Demands, NEW a \in Adapters,
         AdapterReads(h, r, a)
  PROVE  ToolboxCore'
  <1> DEFINE row == [AtRest EXCEPT !.at = "adapter", !.on = r, !.copy = demand[r], !.tool = a]
  <1>1. /\ hand \in [Handlers -> Work(HandPlaces)] /\ demand[r] \in RequestFiles
        /\ AtRest \in Work(HandPlaces)
    BY ToolboxTypes, RestRow DEF ToolboxCore
  <1>2. row \in Work(HandPlaces) /\ row.at = "adapter" /\ row.on = r /\ row.copy = demand[r] /\ row.tool = a
    BY <1>1 DEF Work, HandPlaces
  <1>3. hand' = [hand EXCEPT ![h] = row]
    BY DEF AdapterReads
  <1> HIDE DEF row
  <1>4. Moves(h, row)
    BY <1>1, <1>2, <1>3 DEF Moves
  <1>5. FileSound(r, demand[r], generation) /\ r # Nothing /\ a # Nothing
    BY ToolboxAssumption DEF ToolboxCore, ToolboxAssumption
  <1>6. HandSound(row, past, generation)
    BY <1>2, <1>5 DEF HandSound, AdapterReads
  <1> QED
    BY <1>2, <1>4, <1>6, ReadStep DEF AdapterReads, Files, Server

LEMMA AdapterWritesKeeps ==
  ASSUME ToolboxCore, ToolboxAssumption, NEW h \in Handlers, AdapterWrites(h)
  PROVE  ToolboxCore'
  <1> DEFINE file == [hand[h].copy EXCEPT !.state = "WAITING_INTEGRATION_APPROVAL",
                                          !.adapter = hand[h].tool]
  <1>1. /\ hand[h].on \in Demands /\ FileSound(hand[h].on, hand[h].copy, generation)
        /\ hand[h].copy.state = "QUARANTINED" /\ hand[h].copy \in RequestFiles
        /\ hand[h].tool \in Adapters /\ hand[h].tool # Nothing
    BY AtWork DEF HandSound, AdapterWrites, Does
  <1>2. /\ file \in RequestFiles /\ file.state = "WAITING_INTEGRATION_APPROVAL"
        /\ file.number = hand[h].copy.number /\ file.adapter = hand[h].tool
    BY <1>1 DEF RequestFiles, DemandStates
  <1>3. demand' = [demand EXCEPT ![hand[h].on] = file]
    BY DEF AdapterWrites
  <1> HIDE DEF file
  <1>4. FileSound(hand[h].on, file, generation)
    BY <1>1, <1>2 DEF FileSound, WithAdapter
  <1>5. /\ past' \in Decided /\ MoreDecided(past, past')
        /\ past'.lost = {} => demand[hand[h].on] = hand[h].copy
    BY <1>1, OverwritesMore DEF AdapterWrites
  <1>6. Moves(h, AtRest) /\ HandSound(AtRest, past', generation) /\ AtRest.at # "integrate"
    BY LeavesRow, RestSound, RestRow DEF ToolboxCore, AdapterWrites
  <1>7. hand[h].copy.adapter = Nothing
    BY <1>1 DEF FileSound, WithAdapter
  <1> QED
    BY <1>1, <1>2, <1>3, <1>4, <1>5, <1>6, <1>7, WriteStep DEF AdapterWrites, Files

(* A request is given to the tooling thread, if it is free.                 *)
LEMMA StartsTaskKeeps ==
  ASSUME ToolboxCore, ToolboxAssumption, NEW h \in Handlers, StartsTask(h)
  PROVE  ToolboxCore'
  <1> DEFINE row == [AtRest EXCEPT !.at = "start", !.on = hand[h].on]
  <1>1. hand[h].on \in past.A /\ hand[h].on \in Demands /\ ToolboxTypeOK
    BY AtWork DEF HandSound, StartsTask, Does, ToolboxCore
  <1>2. row \in Work(TaskPlaces) /\ row.at = "start" /\ row.on = hand[h].on
    BY <1>1, RestRow DEF Work, TaskPlaces
  <1>3. task' = IF task = AtRest THEN row ELSE task
    BY DEF StartsTask
  <1> HIDE DEF row
  <1>4. task' \in Work(TaskPlaces) /\ BuildSound(task', past, generation)
    BY <1>1, <1>2, <1>3, ToolboxTypes DEF BuildSound, ToolboxCore
  <1>5. Moves(h, AtRest) /\ HandSound(AtRest, past, generation) /\ AtRest.at # "integrate"
    BY LeavesRow, RestSound, RestRow DEF ToolboxCore, StartsTask
  <1>6. UNCHANGED <<demand, generation, integration, box, past>>
    BY DEF StartsTask, Files, Server
  <1>7. ToolboxTypeOK'
    BY <1>1, <1>4, <1>5, <1>6 DEF ToolboxTypeOK, Moves
  <1>8. MoreImages(generation, generation') /\ MoreDecided(past, past')
    BY <1>6, SameGrow
  <1>9. OriginsKnown(demand', integration', hand', past')
    BY <1>5, <1>6, <1>8, OriginStep DEF Moves
  <1>10. \A g \in Handlers : hand'[g] = hand[g] \/ HandSound(hand'[g], past', generation')
    BY <1>5, <1>6 DEF Moves
  <1>11. ImagesSound(generation', past') /\ BuildSound(task', past', generation')
    BY <1>4, <1>6 DEF ToolboxCore
  <1> QED
    BY <1>6, <1>7, <1>8, <1>9, <1>10, <1>11, ToolboxStep

(* The greatest member of a bounded set of naturals.                         *)
LEMMA MaxAbove ==
  ASSUME NEW b \in Nat, NEW S, S \subseteq 0..b, 0 \in S
  PROVE  Max(S) \in S /\ \A n \in S : n <= Max(S)
  <1> DEFINE R == StrictSubsetOrdering(0..b)
             T == {0..k : k \in {k \in 0..b : S \subseteq 0..k}}
  <1>1. IsFiniteSet(0..b)
    BY FS_Interval
  <1>2. IsWellFoundedOn(R, FiniteSubsetsOf(0..b))
    BY <1>1, FS_StrictSubsetOrderingWellFounded
  <1>3. \A k \in 0..b : 0..k \subseteq 0..b /\ IsFiniteSet(0..k)
    BY FS_Interval
  <1>4. T \subseteq FiniteSubsetsOf(0..b)
    BY <1>3 DEF FiniteSubsetsOf
  <1>5. T # {}
    OBVIOUS
  <1>6. PICK U \in T : \A V \in T : <<V, U>> \notin R
    <2> HIDE DEF R, T
    <2> QED
      BY <1>2, <1>4, <1>5, WFMin
  <1>7. PICK m \in 0..b : U = 0..m /\ S \subseteq 0..m
    OBVIOUS
  <1>8. m \in S
    <2>1. SUFFICES ASSUME m \notin S PROVE FALSE
      OBVIOUS
    <2>2. m - 1 \in 0..b /\ S \subseteq 0..(m-1)
      BY <1>7, <2>1
    <2>3. 0..(m-1) \in T
      BY <2>2
    <2>4. 0..(m-1) \subseteq 0..m /\ m \in 0..m /\ m \notin 0..(m-1)
      OBVIOUS
    <2>5. <<0..(m-1), U>> \in R
      BY <1>3, <1>7, <2>2, <2>4 DEF StrictSubsetOrdering
    <2> QED
      BY <1>6, <2>3, <2>5
  <1>9. \E x \in S : \A y \in S : x >= y
    BY <1>7, <1>8
  <1> QED
    BY <1>9 DEF Max

-----------------------------------------------------------------------------
(* Activation and return                                                    *)
LEMMA ActivateReadsKeeps ==
  ASSUME ToolboxCore, ToolboxAssumption, NEW h \in Handlers, ActivateReads(h)
  PROVE  ToolboxCore'
  <1>1. hand[h].on \in Demands /\ hand[h].on \in past.B
    BY AtWork DEF HandSound, ActivateReads, Does
  <1>2. CASE demand[hand[h].on].state = "ACTIVATING"
    <2>1. "integrate" \in HandPlaces /\ Copies(h, "integrate", hand[h].on) /\ ToolboxTypeOK
      BY <1>2 DEF HandPlaces, ActivateReads, ToolboxCore
    <2>2. PICK row : /\ Moves(h, row) /\ row.at = "integrate" /\ row.on = hand[h].on
                     /\ row.copy = demand[hand[h].on]
      <3>1. ASSUME NEW r \in Demands, Copies(h, "integrate", r)
            PROVE  \E row : Moves(h, row) /\ row.at = "integrate" /\ row.on = r /\ row.copy = demand[r]
        BY <2>1, <3>1, CopiesRow
      <3> QED
        BY <1>1, <2>1, <3>1
    <2>3. FileSound(hand[h].on, demand[hand[h].on], generation)
      BY <1>1 DEF ToolboxCore
    <2>4. HandSound(row, past, generation)
      BY <1>1, <1>2, <2>2, <2>3 DEF HandSound
    <2> QED
      BY <2>2, <2>4, ReadStep DEF ActivateReads, Files, Server
  <1>3. CASE demand[hand[h].on].state # "ACTIVATING"
    <2>1. Moves(h, AtRest) /\ HandSound(AtRest, past, generation) /\ AtRest.at # "integrate"
      BY <1>3, LeavesRow, RestSound, RestRow DEF ToolboxCore, ActivateReads
    <2> QED
      BY <2>1, ReadStep DEF ActivateReads, Files, Server
  <1> QED
    BY <1>2, <1>3

(* A handler writes one of the other files.                                 *)
LEMMA FileStep ==
  ASSUME ToolboxCore, ToolboxAssumption, NEW h \in Handlers, NEW row, Moves(h, row), row.at # "integrate",
         generation' \in Images, MoreImages(generation, generation'), ImagesSound(generation', past),
         \A n \in Numbers : generation'[n] # NoImage => generation[n] # NoImage,
         HandSound(row, past, generation'),
         integration' \in [Adapters -> Demands \cup {Nothing}],
         \A a \in Adapters : \/ integration'[a] = integration[a]
                             \/ integration'[a] \in past.B /\ demand[integration'[a]].adapter = a
                             \/ integration'[a] \in past.B /\ past.lost # {},
         box' \in 0..MaxGenerations, box' = box \/ (box' # 0 => Freed(box', generation')),
         UNCHANGED <<demand, task, past>>
  PROVE  ToolboxCore'
  <1>0. ToolboxTypeOK
    BY DEF ToolboxCore
  <1>1. ToolboxTypeOK'
    BY <1>0 DEF ToolboxTypeOK, Moves, Images
  <1>2. MoreDecided(past, past')
    BY SameGrow
  <1>3. BuildSound(task', past', generation')
    BY <1>0, <1>2, BuildStays, ToolboxTypes DEF ToolboxCore
  <1>4. \A g \in Handlers : hand'[g] = hand[g] \/ HandSound(hand'[g], past', generation')
    BY DEF Moves
  <1>5. OriginsKnown(demand', integration', hand', past')
    BY <1>2, OriginStep DEF Moves
  <1> QED
    BY <1>1, <1>2, <1>3, <1>4, <1>5, ToolboxStep

LEMMA SameImages ==
  ASSUME ToolboxCore, UNCHANGED generation
  PROVE  /\ generation' \in Images /\ MoreImages(generation, generation')
         /\ ImagesSound(generation', past)
         /\ \A n \in Numbers : generation'[n] # NoImage => generation[n] # NoImage
  BY ToolboxTypes, SameGrow DEF ToolboxCore

LEMMA WritesIntegrationKeeps ==
  ASSUME ToolboxCore, ToolboxAssumption, NEW h \in Handlers, WritesIntegration(h)
  PROVE  ToolboxCore'
  <1> DEFINE a == hand[h].copy.adapter
             r == hand[h].on
  <1>1. /\ r \in Demands /\ r \in past.B /\ hand[h].copy.state = "ACTIVATING" /\ a # Nothing
        /\ hand[h].at = "integrate" /\ a \in Adapters
    BY AtWork DEF HandSound, FileSound, WithAdapter, WritesIntegration, Does
  <1>2. PICK row : /\ Moves(h, row) /\ row.at = "image" /\ row.on = r /\ row.copy = hand[h].copy
    <2>1. "image" \in HandPlaces /\ Goes(h, "image") /\ ToolboxTypeOK
      BY DEF HandPlaces, WritesIntegration, ToolboxCore
    <2> QED
      BY <2>1, GoesRow
  <1>3. HandSound(row, past, generation)
    BY <1>1, <1>2, AtWork DEF HandSound
  <1>4. integration \in [Adapters -> Demands \cup {Nothing}] /\ box \in 0..MaxGenerations
    BY ToolboxTypes DEF ToolboxCore
  <1>5. past.lost = {} => demand[r].adapter = a
    BY <1>1 DEF ToolboxCore, OriginsKnown
  <1>6. integration' = [integration EXCEPT ![a] = r]
    BY DEF WritesIntegration
  <1> HIDE DEF a, r
  <1>7. /\ integration' \in [Adapters -> Demands \cup {Nothing}]
        /\ \A b \in Adapters : \/ integration'[b] = integration[b]
                               \/ integration'[b] \in past.B /\ demand[integration'[b]].adapter = b
                               \/ integration'[b] \in past.B /\ past.lost # {}
    BY <1>1, <1>4, <1>5, <1>6
  <1>8. UNCHANGED <<generation, box, demand, task, past>>
    BY DEF WritesIntegration, Server
  <1> QED
    BY <1>2, <1>3, <1>4, <1>7, <1>8, SameImages, FileStep

(* The state of one image is written.                                       *)
LEMMA ImageWritten ==
  ASSUME ToolboxCore, NEW n \in Numbers, NEW s \in {"ACTIVE", "ROLLED_BACK"},
         generation[n] # NoImage, generation[n].of \in past.B,
         generation' = [generation EXCEPT ![n].state = s]
  PROVE  /\ generation' \in Images /\ MoreImages(generation, generation')
         /\ ImagesSound(generation', past) /\ Freed(n, generation')
         /\ \A m \in Numbers : generation'[m] # NoImage => generation[m] # NoImage
         /\ \A m \in Numbers : generation'[m].of = generation[m].of
  <1> DEFINE image == [generation[n] EXCEPT !.state = s]
  <1>1. generation \in Images
    BY ToolboxTypes DEF ToolboxCore
  <1>2. generation' = [generation EXCEPT ![n] = image]
    OBVIOUS
  <1>3. /\ image \in [state : {"NONE", "QUARANTINED", "ACTIVE", "ROLLED_BACK"},
                      parent : 0..MaxGenerations, of : Demands \cup {Nothing}]
        /\ image.state = s /\ image.parent = generation[n].parent /\ image.of = generation[n].of
        /\ image # NoImage
    BY <1>1 DEF Images, NoImage
  <1> HIDE DEF image
  <1>4. generation' \in Images /\ generation'[n] = image
        /\ \A m \in Numbers \ {n} : generation'[m] = generation[m]
    BY <1>1, <1>2, <1>3 DEF Images
  <1>5. /\ MoreImages(generation, generation') /\ Freed(n, generation')
        /\ \A m \in Numbers : generation'[m] # NoImage => generation[m] # NoImage
        /\ \A m \in Numbers : generation'[m].of = generation[m].of
    BY <1>3, <1>4 DEF MoreImages, Freed
  <1>6. ASSUME NEW m \in Numbers, generation'[m] # NoImage
        PROVE  /\ generation'[m].of \in past.A /\ generation'[m].parent < m
               /\ generation'[m].state # "QUARANTINED" => generation'[m].of \in past.B
               /\ generation'[m].parent # 0 => Freed(generation'[m].parent, generation')
    <2>1. /\ generation[m] # NoImage /\ generation'[m].of = generation[m].of
          /\ generation'[m].parent = generation[m].parent
          /\ m # n => generation'[m].state = generation[m].state
      BY <1>3, <1>4, <1>5, <1>6
    <2>2. /\ generation[m].of \in past.A /\ generation[m].parent < m
          /\ generation[m].state # "QUARANTINED" => generation[m].of \in past.B
          /\ generation[m].parent # 0 => Freed(generation[m].parent, generation)
      BY <2>1 DEF ToolboxCore, ImagesSound
    <2>3. generation[m].parent # 0 => Freed(generation[m].parent, generation')
      BY <1>5, <2>2 DEF MoreImages, Freed
    <2> QED
      BY <2>1, <2>2, <2>3
  <1>7. ImagesSound(generation', past)
    BY <1>6 DEF ImagesSound
  <1> QED
    BY <1>4, <1>5, <1>7

LEMMA WritesGenerationKeeps ==
  ASSUME ToolboxCore, ToolboxAssumption, NEW h \in Handlers, WritesGeneration(h)
  PROVE  ToolboxCore'
  <1> DEFINE n == hand[h].copy.number
             r == hand[h].on
  <1>1. /\ r \in Demands /\ r \in past.B /\ hand[h].copy.state = "ACTIVATING" /\ n # 0
        /\ n \in Numbers /\ generation[n].of = r /\ FileSound(r, hand[h].copy, generation)
    <2>1. /\ r \in past.B /\ r \in Demands /\ hand[h].copy.state = "ACTIVATING"
          /\ FileSound(r, hand[h].copy, generation) /\ n \in 0..MaxGenerations
      BY AtWork DEF HandSound, WritesGeneration, Does
    <2>2. n # 0 /\ generation[n].of = r
      BY <2>1 DEF FileSound, WithAdapter
    <2> QED
      BY <2>1, <2>2 DEF Numbers
  <1>2. generation[n] # NoImage
    BY <1>1, OfIsTaken, ToolboxTypes, ToolboxAssumption DEF ToolboxCore, ToolboxAssumption
  <1>3. generation' = [generation EXCEPT ![n].state = "ACTIVE"]
    BY DEF WritesGeneration
  <1>4. PICK row : /\ Moves(h, row) /\ row.at = "publish" /\ row.on = r /\ row.copy = hand[h].copy
    <2>1. "publish" \in HandPlaces /\ Goes(h, "publish") /\ ToolboxTypeOK
      BY DEF HandPlaces, WritesGeneration, ToolboxCore
    <2> QED
      BY <2>1, GoesRow
  <1>5. hand[h].copy \in RequestFiles /\ box \in 0..MaxGenerations
        /\ integration \in [Adapters -> Demands \cup {Nothing}]
    BY AtWork, ToolboxTypes DEF ToolboxCore
  <1> HIDE DEF n, r
  <1>6. /\ generation' \in Images /\ MoreImages(generation, generation')
        /\ ImagesSound(generation', past) /\ Freed(n, generation')
        /\ \A m \in Numbers : generation'[m] # NoImage => generation[m] # NoImage
    BY <1>1, <1>2, <1>3, ImageWritten
  <1>7. FileSound(r, hand[h].copy, generation')
    BY <1>1, <1>5, <1>6, FileStays, ToolboxTypes DEF ToolboxCore
  <1>8. HandSound(row, past, generation')
    BY <1>1, <1>4, <1>6, <1>7 DEF HandSound, n
  <1>9. UNCHANGED <<integration, box, demand, task, past>>
    BY DEF WritesGeneration, Server
  <1> QED
    BY <1>4, <1>5, <1>6, <1>8, <1>9, FileStep

LEMMA PublishesKeeps ==
  ASSUME ToolboxCore, ToolboxAssumption, NEW h \in Handlers, Publishes(h)
  PROVE  ToolboxCore'
  <1>1. /\ HandSound(hand[h], past, generation) /\ hand[h].at = "publish"
        /\ hand[h].copy.number \in 0..MaxGenerations /\ Freed(hand[h].copy.number, generation)
    BY AtWork DEF HandSound, Publishes, Does
  <1>2. "finish" \in HandPlaces /\ Goes(h, "finish") /\ ToolboxTypeOK
    BY DEF HandPlaces, Publishes, ToolboxCore
  <1>3. PICK row : /\ Moves(h, row) /\ row.at = "finish" /\ row.on = hand[h].on
                   /\ row.copy = hand[h].copy
    BY <1>2, GoesRow
  <1>4. HandSound(row, past, generation)
    BY <1>1, <1>3 DEF HandSound
  <1>5. integration \in [Adapters -> Demands \cup {Nothing}]
    BY <1>2, ToolboxTypes
  <1>6. box' = hand[h].copy.number /\ UNCHANGED <<demand, generation, integration, task, past>>
    BY DEF Publishes, Server
  <1> QED
    BY <1>1, <1>3, <1>4, <1>5, <1>6, SameImages, FileStep

LEMMA FinishesKeeps ==
  ASSUME ToolboxCore, ToolboxAssumption, NEW h \in Handlers, Finishes(h)
  PROVE  ToolboxCore'
  <1>1. /\ hand[h].on \in Demands /\ FileSound(hand[h].on, hand[h].copy, generation)
        /\ hand[h].copy.state = "ACTIVATING"
    <2>1. hand[h].on \in past.B /\ hand[h].copy.state = "ACTIVATING" /\ hand[h].on \in Demands
      BY AtWork DEF HandSound, Finishes, Does
    <2> QED
      BY <2>1, AtWork DEF HandSound
  <1>2. "ACTIVE" \in DemandStates /\ Rewrites(h, "ACTIVE")
    BY DEF DemandStates, Finishes
  <1>3. PICK file \in RequestFiles :
           /\ demand' = [demand EXCEPT ![hand[h].on] = file] /\ file.state = "ACTIVE"
           /\ file.number = hand[h].copy.number /\ file.adapter = hand[h].copy.adapter
    BY <1>2, RewriteFile
  <1>4. FileSound(hand[h].on, file, generation)
    BY <1>1, <1>3 DEF FileSound, WithAdapter
  <1>5. /\ past' \in Decided /\ MoreDecided(past, past')
        /\ past'.lost = {} => demand[hand[h].on] = hand[h].copy
    BY <1>1, OverwritesMore DEF Finishes
  <1>6. Moves(h, AtRest) /\ HandSound(AtRest, past', generation) /\ AtRest.at # "integrate"
    BY LeavesRow, RestSound, RestRow DEF ToolboxCore, Finishes
  <1> QED
    BY <1>1, <1>3, <1>4, <1>5, <1>6, WriteStep DEF Finishes, Files

LEMMA RollbackReadsKeeps ==
  ASSUME ToolboxCore, ToolboxAssumption, NEW h \in Handlers, RollbackReads(h)
  PROVE  ToolboxCore'
  <1> DEFINE row == [AtRest EXCEPT !.at = "withdraw", !.current = box]
  <1>1. /\ hand \in [Handlers -> Work(HandPlaces)] /\ AtRest \in Work(HandPlaces)
        /\ box \in 0..MaxGenerations
    BY ToolboxTypes, RestRow DEF ToolboxCore
  <1>2. row \in Work(HandPlaces) /\ row.at = "withdraw" /\ row.on = Nothing /\ row.current = box
    BY <1>1, RestRow DEF Work, HandPlaces
  <1>3. hand' = [hand EXCEPT ![h] = row]
    BY DEF RollbackReads
  <1> HIDE DEF row
  <1>4. Moves(h, row)
    BY <1>1, <1>2, <1>3 DEF Moves
  <1>5. Freed(box, generation)
    BY DEF RollbackReads, ToolboxCore
  <1>6. HandSound(row, past, generation)
    BY <1>2, <1>5 DEF HandSound
  <1> QED
    BY <1>2, <1>4, <1>6, ReadStep DEF RollbackReads, Files, Server

LEMMA WithdrawsKeeps ==
  ASSUME ToolboxCore, ToolboxAssumption, NEW h \in Handlers, Withdraws(h)
  PROVE  ToolboxCore'
  <1> DEFINE n == hand[h].current
  <1>1. /\ HandSound(hand[h], past, generation) /\ hand[h].at = "withdraw"
        /\ n \in Numbers /\ Freed(n, generation)
        /\ (hand[h].on # Nothing => FileSound(hand[h].on, hand[h].copy, generation))
        /\ hand[h].copy \in RequestFiles /\ hand[h].on \in Demands \cup {Nothing}
    BY AtWork DEF HandSound, Withdraws, Does, Freed
  <1>2. generation[n] # NoImage /\ generation[n].of \in past.B
    BY <1>1 DEF Freed, NoImage, ToolboxCore, ImagesSound
  <1>3. generation' = [generation EXCEPT ![n].state = "ROLLED_BACK"]
    BY DEF Withdraws
  <1>4. "return" \in HandPlaces /\ Goes(h, "return") /\ ToolboxTypeOK
    BY DEF HandPlaces, Withdraws, ToolboxCore
  <1>5. PICK row : /\ Moves(h, row) /\ row.at = "return" /\ row.on = hand[h].on
                   /\ row.copy = hand[h].copy /\ row.current = n
    BY <1>4, GoesRow
  <1> HIDE DEF n
  <1>6. /\ generation' \in Images /\ MoreImages(generation, generation')
        /\ ImagesSound(generation', past) /\ Freed(n, generation')
        /\ \A m \in Numbers : generation'[m] # NoImage => generation[m] # NoImage
    BY <1>1, <1>2, <1>3, ImageWritten
  <1>7. hand[h].on # Nothing => FileSound(hand[h].on, hand[h].copy, generation')
    BY <1>1, <1>4, <1>6, FileStays, ToolboxTypes
  <1>8. HandSound(row, past, generation')
    BY <1>5, <1>6, <1>7 DEF HandSound
  <1>9. box \in 0..MaxGenerations /\ integration \in [Adapters -> Demands \cup {Nothing}]
    BY <1>4, ToolboxTypes
  <1>10. UNCHANGED <<integration, box, demand, task, past>>
    BY DEF Withdraws, Server
  <1> QED
    BY <1>5, <1>6, <1>8, <1>9, <1>10, FileStep

LEMMA ReturnsKeeps ==
  ASSUME ToolboxCore, ToolboxAssumption, NEW h \in Handlers, Returns(h)
  PROVE  ToolboxCore'
  <1> DEFINE n == hand[h].current
  <1>1. /\ HandSound(hand[h], past, generation) /\ hand[h].at = "return"
        /\ n \in Numbers /\ Freed(n, generation)
    BY AtWork DEF HandSound, Returns, Does, Freed
  <1>2. generation[n] # NoImage /\ generation[n].parent \in 0..MaxGenerations
    BY <1>1, ToolboxTypes DEF Freed, NoImage, ToolboxCore, Images
  <1>3. generation[n].parent # 0 => Freed(generation[n].parent, generation)
    BY <1>1, <1>2 DEF ToolboxCore, ImagesSound
  <1>4. "mark" \in HandPlaces /\ Goes(h, "mark") /\ ToolboxTypeOK
    BY DEF HandPlaces, Returns, ToolboxCore
  <1>5. PICK row : /\ Moves(h, row) /\ row.at = "mark" /\ row.on = hand[h].on
                   /\ row.copy = hand[h].copy
    BY <1>4, GoesRow
  <1>6. HandSound(row, past, generation)
    BY <1>1, <1>5 DEF HandSound
  <1>7. integration \in [Adapters -> Demands \cup {Nothing}]
    BY <1>4, ToolboxTypes
  <1>8. box' = generation[n].parent /\ UNCHANGED <<demand, generation, integration, task, past>>
    BY DEF Returns, Server
  <1> HIDE DEF n
  <1> QED
    BY <1>2, <1>3, <1>5, <1>6, <1>7, <1>8, SameImages, FileStep

LEMMA MarksRequestsKeeps ==
  ASSUME ToolboxCore, ToolboxAssumption, NEW h \in Handlers, MarksRequests(h)
  PROVE  ToolboxCore'
  <1>1. demand \in [Demands -> RequestFiles] /\ \A r \in Demands : FileSound(r, demand[r], generation)
    BY ToolboxTypes DEF ToolboxCore
  <1>2. ASSUME NEW r \in Demands
        PROVE  /\ demand'[r] \in RequestFiles /\ FileSound(r, demand'[r], generation)
               /\ demand'[r].adapter = demand[r].adapter
    <2> DEFINE file == [demand[r] EXCEPT !.state = "ROLLED_BACK"]
    <2>1. demand'[r] = file \/ demand'[r] = demand[r]
      BY DEF MarksRequests
    <2>2. /\ file \in RequestFiles /\ file.state = "ROLLED_BACK" /\ file.number = demand[r].number
          /\ file.adapter = demand[r].adapter
      BY <1>1 DEF RequestFiles, DemandStates
    <2>3. FileSound(r, file, generation)
      BY <1>1, <2>2 DEF FileSound, WithAdapter
    <2> HIDE DEF file
    <2> QED
      BY <1>1, <2>1, <2>2, <2>3
  <1>3. demand' \in [Demands -> RequestFiles]
    <2>1. demand' = [r \in Demands |-> demand'[r]]
      BY DEF MarksRequests
    <2> QED
      BY <1>2, <2>1
  <1>4. Moves(h, AtRest) /\ HandSound(AtRest, past, generation) /\ AtRest.at # "integrate"
    BY LeavesRow, RestSound, RestRow DEF ToolboxCore, MarksRequests
  <1>5. UNCHANGED <<generation, integration, box, task, past>>
    BY DEF MarksRequests, Files, Server
  <1>6. ToolboxTypeOK'
    BY <1>3, <1>4, <1>5 DEF ToolboxCore, ToolboxTypeOK, Moves
  <1>7. MoreImages(generation, generation') /\ MoreDecided(past, past')
    BY <1>5, SameGrow
  <1>8. ImagesSound(generation', past') /\ BuildSound(task', past', generation')
    BY <1>5 DEF ToolboxCore
  <1>9. \A g \in Handlers : hand'[g] = hand[g] \/ HandSound(hand'[g], past', generation')
    BY <1>4, <1>5 DEF Moves
  <1>10. OriginsKnown(demand', integration', hand', past')
    BY <1>2, <1>4, <1>5, <1>7, OriginStep DEF Moves
  <1> QED
    BY <1>2, <1>5, <1>6, <1>7, <1>8, <1>9, <1>10, ToolboxStep

-----------------------------------------------------------------------------
(* The tooling thread                                                       *)
LEMMA TaskAtWork ==
  ASSUME ToolboxCore, ToolboxAssumption, task.at # "rest"
  PROVE  /\ BuildSound(task, past, generation) /\ task \in Work(TaskPlaces)
         /\ task.on \in Demands /\ task.on \in past.A /\ task.on # Nothing
         /\ task.copy \in RequestFiles /\ task.count \in Nat /\ task.current \in 0..MaxGenerations
         /\ demand[task.on] \in RequestFiles
  <1>1. /\ BuildSound(task, past, generation) /\ task \in Work(TaskPlaces) /\ past \in Decided
        /\ demand \in [Demands -> RequestFiles]
    BY ToolboxTypes DEF ToolboxCore
  <1>2. task.on \in past.A /\ task.on \in Demands
    BY <1>1 DEF BuildSound, Decided
  <1> QED
    BY <1>1, <1>2, ToolboxAssumption DEF Work, ToolboxAssumption

(* The number drawn is above every number taken.                            *)
LEMMA FreshAbove ==
  ASSUME ToolboxAssumption
  PROVE  Fresh \in Nat /\ 0 < Fresh /\ \A n \in Taken : n < Fresh
  <1>1. MaxGenerations \in Nat /\ {0} \cup Taken \subseteq 0..MaxGenerations
    BY ToolboxAssumption DEF ToolboxAssumption, Taken, Numbers
  <1>2. /\ Max({0} \cup Taken) \in {0} \cup Taken
        /\ \A n \in {0} \cup Taken : n <= Max({0} \cup Taken)
    BY <1>1, MaxAbove
  <1> DEFINE m == Max({0} \cup Taken)
  <1>3. m \in Nat /\ (\A n \in Taken : n <= m /\ n \in Nat) /\ Fresh = 1 + m
    BY <1>1, <1>2 DEF Fresh
  <1> HIDE DEF m
  <1> QED
    BY <1>3

(* The tooling thread changes its own work, and a request.                  *)
LEMMA TaskStep ==
  ASSUME ToolboxCore, ToolboxAssumption, task' \in Work(TaskPlaces),
         generation' \in Images, MoreImages(generation, generation'), ImagesSound(generation', past'),
         past' \in Decided, MoreDecided(past, past'), BuildSound(task', past', generation'),
         demand' \in [Demands -> RequestFiles],
         \A r \in Demands : demand'[r] = demand[r] \/ FileSound(r, demand'[r], generation'),
         past'.lost = {} => \A r \in Demands : demand[r].adapter # Nothing =>
                              demand'[r].adapter = demand[r].adapter,
         UNCHANGED <<integration, box, hand>>
  PROVE  ToolboxCore'
  <1>1. ToolboxTypeOK'
    BY DEF ToolboxCore, ToolboxTypeOK, Images, Decided
  <1>2. OriginsKnown(demand', integration', hand', past')
    BY OriginStep
  <1> QED
    BY <1>1, <1>2, ToolboxStep

LEMMA BuildReadsKeeps ==
  ASSUME ToolboxCore, ToolboxAssumption, BuildReads
  PROVE  ToolboxCore'
  <1> DEFINE row == [task EXCEPT !.at = "build", !.copy = demand[task.on],
                                 !.current = box, !.count = Fresh]
  <1>1. /\ task.on \in Demands /\ task.on \in past.A /\ demand[task.on] \in RequestFiles
        /\ task \in Work(TaskPlaces)
    BY TaskAtWork DEF BuildReads
  <1>2. box \in 0..MaxGenerations /\ generation \in Images /\ demand \in [Demands -> RequestFiles]
        /\ past \in Decided
    BY ToolboxTypes DEF ToolboxCore
  <1>3. Fresh \in Nat /\ 0 < Fresh /\ \A n \in Taken : n < Fresh
    BY FreshAbove
  <1>4. box < Fresh /\ (box # 0 => Freed(box, generation))
    <2>1. box # 0 => Freed(box, generation)
      BY DEF ToolboxCore
    <2>2. box # 0 => box \in Taken
      BY <2>1 DEF Freed, Taken, NoImage
    <2> QED
      BY <1>3, <2>1, <2>2
  <1>5. /\ row \in Work(TaskPlaces) /\ row.at = "build" /\ row.on = task.on
        /\ row.copy = demand[task.on] /\ row.current = box /\ row.count = Fresh
    <2> HIDE DEF Fresh
    <2> QED
      BY <1>1, <1>2, <1>3 DEF Work, TaskPlaces
  <1>6. \A n \in Numbers : generation[n] # NoImage => n < Fresh
    BY <1>3 DEF Taken
  <1>7. task' = IF demand[task.on].state = "BUILDING" THEN row ELSE AtRest
    BY DEF BuildReads
  <1>8. UNCHANGED <<demand, generation, integration, box, hand, past>>
    BY DEF BuildReads, Files, Server
  <1>9. FileSound(task.on, demand[task.on], generation)
    BY <1>1 DEF ToolboxCore
  <1> HIDE DEF row
  <1>10. demand[task.on].state = "BUILDING" => BuildSound(row, past, generation)
    <2> HIDE DEF Fresh
    <2> QED
      BY <1>1, <1>4, <1>5, <1>6, <1>9 DEF BuildSound
  <1>11. task' \in Work(TaskPlaces) /\ BuildSound(task', past, generation)
    BY <1>5, <1>7, <1>10, RestRow, RestSound
  <1>12. MoreImages(generation, generation') /\ MoreDecided(past, past')
         /\ ImagesSound(generation', past')
    BY <1>8, SameGrow DEF ToolboxCore
  <1> QED
    BY <1>2, <1>8, <1>11, <1>12, TaskStep

LEMMA BuildsKeeps ==
  ASSUME ToolboxCore, ToolboxAssumption, Builds
  PROVE  ToolboxCore'
  <1> DEFINE n == task.count
             image == [state |-> "QUARANTINED", parent |-> task.current, of |-> task.on]
             row == [task EXCEPT !.at = "register"]
  <1>1. /\ BuildSound(task, past, generation) /\ task \in Work(TaskPlaces) /\ task.at = "build"
        /\ task.on \in Demands /\ task.on \in past.A /\ task.on # Nothing
        /\ task.copy \in RequestFiles /\ task.current \in 0..MaxGenerations /\ n \in Numbers
        /\ n \in Nat
    BY TaskAtWork DEF Builds
  <1>2. generation \in Images /\ demand \in [Demands -> RequestFiles] /\ past \in Decided
    BY ToolboxTypes DEF ToolboxCore
  <1>3. generation' = [generation EXCEPT ![n] = image] /\ task' = row
        /\ UNCHANGED <<demand, integration, box, hand, past>>
    BY DEF Builds, Server
  <1>4. /\ row \in Work(TaskPlaces) /\ row.at = "register" /\ row.on = task.on /\ row.copy = task.copy
        /\ row.current = task.current /\ row.count = n
    BY <1>1 DEF Work, TaskPlaces
  <1>5. /\ image \in [state : {"NONE", "QUARANTINED", "ACTIVE", "ROLLED_BACK"},
                      parent : 0..MaxGenerations, of : Demands \cup {Nothing}]
        /\ image.state = "QUARANTINED" /\ image.parent = task.current /\ image.of = task.on
        /\ image # NoImage
    BY <1>1 DEF NoImage
  <1>6. generation[n] = NoImage
    BY <1>1 DEF BuildSound
  <1> HIDE DEF image, row, n
  <1>7. /\ generation' \in Images /\ generation'[n] = image
        /\ \A m \in Numbers \ {n} : generation'[m] = generation[m]
    BY <1>1, <1>2, <1>3, <1>5 DEF Images
  <1>8. MoreImages(generation, generation')
    BY <1>6, <1>7 DEF MoreImages, Freed, NoImage
  <1>9. \A m : Freed(m, generation) => Freed(m, generation')
    BY <1>8 DEF MoreImages, Freed
  <1>10. /\ task.current < n /\ (task.current # 0 => Freed(task.current, generation))
         /\ task.copy.state = "BUILDING" /\ FileSound(task.on, task.copy, generation)
    BY <1>1 DEF BuildSound, n
  <1>11. ImagesSound(generation', past')
    <2>1. \A m \in Numbers \ {n} : generation[m] # NoImage =>
            /\ generation[m].of \in past.A /\ generation[m].parent < m
            /\ generation[m].state # "QUARANTINED" => generation[m].of \in past.B
            /\ generation[m].parent # 0 => Freed(generation[m].parent, generation)
      BY DEF ToolboxCore, ImagesSound
    <2> QED
      BY <1>1, <1>3, <1>5, <1>7, <1>9, <1>10, <2>1 DEF ImagesSound
  <1>12. FileSound(task.on, task.copy, generation')
    BY <1>1, <1>2, <1>7, <1>8, <1>10, FileStays
  <1>13. BuildSound(task', past', generation')
    BY <1>1, <1>3, <1>4, <1>5, <1>7, <1>9, <1>10, <1>12 DEF BuildSound
  <1>14. MoreDecided(past, past')
    BY <1>3, SameGrow
  <1> QED
    BY <1>2, <1>3, <1>4, <1>7, <1>8, <1>11, <1>13, <1>14, TaskStep

LEMMA BuildEndsKeeps ==
  ASSUME ToolboxCore, ToolboxAssumption, NEW s \in {"QUARANTINED", "FAILED"}, BuildEnds(s)
  PROVE  ToolboxCore'
  <1> DEFINE n == IF task.at = "build" THEN task.copy.number ELSE task.count
             file == [task.copy EXCEPT !.state = s, !.number = n]
             r == task.on
  <1>1. /\ BuildSound(task, past, generation) /\ r \in Demands /\ task.copy \in RequestFiles
        /\ task.at = "register" \/ (task.at = "build" /\ s = "FAILED")
    BY TaskAtWork DEF BuildEnds
  <1>2. generation \in Images /\ demand \in [Demands -> RequestFiles] /\ past \in Decided
    BY ToolboxTypes DEF ToolboxCore
  <1>3. task.copy.state = "BUILDING" /\ FileSound(r, task.copy, generation)
        /\ (task.at # "build" => n \in Numbers /\ generation[n].of = r)
    BY <1>1 DEF BuildSound
  <1>4. n \in 0..MaxGenerations
    BY <1>1, <1>3 DEF RequestFiles, Numbers
  <1>5. demand' = [demand EXCEPT ![r] = file] /\ task' = AtRest
        /\ UNCHANGED <<generation, integration, box, hand>>
    BY DEF BuildEnds, Files
  <1>6. past' = [past EXCEPT !.lost = @ \cup Lost(r, task.copy)]
    BY DEF BuildEnds
  <1>7. /\ past' \in Decided /\ MoreDecided(past, past')
        /\ past'.lost = {} => demand[r] = task.copy
    BY <1>1, <1>6, LostMore
  <1>8. n # 0 => generation[n].of = r
    BY <1>3 DEF FileSound
  <1>9. s # "FAILED" => n # 0
    BY <1>1, <1>3 DEF Numbers
  <1> HIDE DEF n
  <1>10. file \in RequestFiles /\ file.state = s /\ file.number = n /\ file.adapter = task.copy.adapter
    BY <1>1, <1>4 DEF RequestFiles, DemandStates
  <1>11. task.copy.adapter = Nothing
    BY <1>3 DEF FileSound, WithAdapter
  <1> HIDE DEF file, r
  <1>12. FileSound(r, file, generation)
    BY <1>8, <1>9, <1>10, <1>11 DEF FileSound, WithAdapter
  <1>13. /\ demand' \in [Demands -> RequestFiles] /\ demand'[r] = file
         /\ \A q \in Demands \ {r} : demand'[q] = demand[q]
    BY <1>1, <1>2, <1>5, <1>10
  <1>14. past'.lost = {} => \A q \in Demands : demand[q].adapter # Nothing =>
                               demand'[q].adapter = demand[q].adapter
    BY <1>7, <1>11, <1>13
  <1>15. ImagesSound(generation', past') /\ MoreImages(generation, generation')
    BY <1>5, <1>7, SameGrow DEF ToolboxCore, ImagesSound, MoreDecided
  <1>16. task' \in Work(TaskPlaces) /\ BuildSound(task', past', generation')
    BY <1>5, RestRow, RestSound
  <1> QED
    BY <1>2, <1>5, <1>7, <1>12, <1>13, <1>14, <1>15, <1>16, TaskStep

-----------------------------------------------------------------------------
LEMMA OpeningKeeps == ToolboxCore /\ Opening => ToolboxCore'
  BY DEF Opening, Files, ToolboxCore, ToolboxTypeOK

LEMMA ServerKilledKeeps ==
  ASSUME ToolboxCore, ToolboxAssumption, ServerKilled
  PROVE  ToolboxCore'
  <1>1. hand' \in [Handlers -> Work(HandPlaces)] /\ task' \in Work(TaskPlaces)
        /\ \A h \in Handlers : hand'[h] = AtRest /\ hand'[h].at # "integrate"
    BY RestRow DEF ServerKilled
  <1>2. UNCHANGED <<demand, generation, integration, box, past>>
    BY DEF ServerKilled, Files
  <1>3. ToolboxTypeOK'
    BY <1>1, <1>2 DEF ToolboxCore, ToolboxTypeOK
  <1>4. MoreImages(generation, generation') /\ MoreDecided(past, past') /\ ImagesSound(generation', past')
    BY <1>2, SameGrow DEF ToolboxCore
  <1>5. OriginsKnown(demand', integration', hand', past')
    BY <1>1, <1>2, <1>4, OriginStep
  <1>6. \A h \in Handlers : HandSound(hand'[h], past', generation')
    BY <1>1, RestSound
  <1>7. BuildSound(task', past', generation')
    BY RestSound DEF ServerKilled
  <1> QED
    BY <1>2, <1>3, <1>4, <1>5, <1>6, <1>7, ToolboxStep

LEMMA ToolboxStarts == ToolboxAssumption /\ ToolboxInit => ToolboxCore
  <1> SUFFICES ASSUME ToolboxAssumption, ToolboxInit PROVE ToolboxCore
    OBVIOUS
  <1>1. 0 \in 0..MaxGenerations
    BY DEF ToolboxAssumption
  <1>2. /\ AtRest \in Work(HandPlaces) /\ AtRest \in Work(TaskPlaces) /\ AtRest.at = "rest"
        /\ NoDemand \in RequestFiles /\ NoDemand.number = 0 /\ NoDemand.adapter = Nothing
        /\ NoDemand.state = "NONE"
    BY RestRow
  <1>3. NoImage \in [state : {"NONE", "QUARANTINED", "ACTIVE", "ROLLED_BACK"},
                     parent : 0..MaxGenerations, of : Demands \cup {Nothing}]
    BY <1>1 DEF NoImage
  <1>4. past = [A |-> {}, B |-> {}, lost |-> {}]
    BY DEF ToolboxInit
  <1>5. ToolboxTypeOK
    BY <1>1, <1>2, <1>3, <1>4 DEF ToolboxInit, ToolboxTypeOK
  <1>6. ImagesSound(generation, past)
    BY DEF ToolboxInit, ImagesSound
  <1>7. \A r \in Demands : FileSound(r, demand[r], generation)
    BY <1>2 DEF ToolboxInit, FileSound, WithAdapter
  <1>8. (\A h \in Handlers : HandSound(hand[h], past, generation)) /\ BuildSound(task, past, generation)
    BY RestSound DEF ToolboxInit
  <1>9. OriginsKnown(demand, integration, hand, past)
    BY <1>2 DEF ToolboxInit, OriginsKnown
  <1> QED
    BY <1>5, <1>6, <1>7, <1>8, <1>9 DEF ToolboxInit, ToolboxCore

LEMMA ToolboxKeeps ==
  ASSUME ToolboxAssumption, ToolboxCore, [ToolboxNext]_toolboxVars
  PROVE  ToolboxCore'
  <1>1. ASSUME NEW h \in Handlers, Decides(h)
        PROVE  ToolboxCore'
    <2>1. CASE \E p \in Packages : ProposeLooks(h, p)
      BY <2>1, ProposeLooksKeeps
    <2>2. CASE \E r \in Demands : ProposeWrites(h, r)
      BY <2>2, ProposeWritesKeeps
    <2>3. CASE \E r \in Demands, gate \in {"A", "B"}, yes \in BOOLEAN : DecisionReads(h, r, gate, yes)
      BY <2>3, DecisionReadsKeeps
    <2>4. CASE \E gate \in {"A", "B"} : Rejects(h, gate) \/ Approves(h, gate)
      BY <2>4, RejectsKeeps, ApprovesKeeps
    <2>5. CASE \E r \in Demands, a \in Adapters : AdapterReads(h, r, a)
      BY <2>5, AdapterReadsKeeps
    <2>6. CASE AdapterWrites(h) \/ StartsTask(h)
      BY <2>6, AdapterWritesKeeps, StartsTaskKeeps
    <2> QED
      BY <1>1, <2>1, <2>2, <2>3, <2>4, <2>5, <2>6 DEF Decides
  <1>2. ASSUME NEW h \in Handlers, Activates(h)
        PROVE  ToolboxCore'
    BY <1>2, ActivateReadsKeeps, WritesIntegrationKeeps, WritesGenerationKeeps, PublishesKeeps,
       FinishesKeeps DEF Activates
  <1>3. ASSUME NEW h \in Handlers, RollsBack(h)
        PROVE  ToolboxCore'
    BY <1>3, RollbackReadsKeeps, WithdrawsKeeps, ReturnsKeeps, MarksRequestsKeeps DEF RollsBack
  <1>4. CASE BuildReads \/ Builds \/ \E s \in {"QUARANTINED", "FAILED"} : BuildEnds(s)
    BY <1>4, BuildReadsKeeps, BuildsKeeps, BuildEndsKeeps
  <1>5. CASE Opening \/ ServerKilled
    BY <1>5, OpeningKeeps, ServerKilledKeeps
  <1>6. CASE UNCHANGED toolboxVars
    BY <1>6 DEF toolboxVars, ToolboxCore, ToolboxTypeOK
  <1> QED
    BY <1>1, <1>2, <1>3, <1>4, <1>5, <1>6 DEF ToolboxNext

(* The toolbox behind its two gates: nothing is built or becomes part of it  *)
(* without its decision, whoever writes over whom; and while nobody does, an *)
(* activation killed anywhere leaves files that the next start accepts.      *)
THEOREM ToolboxGuarded == ToolboxSpec => []ToolboxIInv
  <1>1. ToolboxInit => ToolboxIInv
    BY ToolboxStarts, ToolboxAssumption, CoreIsToolbox
  <1>2. ToolboxIInv <=> ToolboxCore
    BY CoreIsToolbox
  <1>3. ToolboxIInv' <=> ToolboxCore'
    BY CoreIsToolbox, PTL
  <1>4. ToolboxIInv /\ [ToolboxNext]_toolboxVars => ToolboxIInv'
    BY <1>2, <1>3, ToolboxKeeps, ToolboxAssumption
  <1> QED
    BY <1>1, <1>4, PTL DEF ToolboxSpec

-----------------------------------------------------------------------------
(* The library of investigations                                            *)
(* The invariant in two: what the lock of the registry guards, and what the *)
(* lifecycle lock guards.                                                   *)
LockRow(job) ==
  /\ OfCreation(job) => CreationSound(job)
  /\ OfAdoption(job) => AdoptionSound(job)
  /\ job.at = "swap" => job.found \in [Folders -> Candidates]
DeskRow(job) ==
  /\ job.at \in {"export", "root", "identity"} => OpeningSound(job)
  /\ job.at \in {"cancel", "inactive"} => ClosingSound(job)

Shelves == RegisteredOnce /\ NoStrayFolder /\ RegisteredIsThere /\ ManifestKept
LockPart ==
  /\ Shelves
  /\ \A c \in Threads : (holder = c <=> libJob[c].at \in LockPlaces) /\ LockRow(libJob[c])
DeskPart ==
  /\ ActiveIsRoot
  /\ \A c \in Threads : (lifecycle = c <=> libJob[c].at \in DeskPlaces) /\ DeskRow(libJob[c])
LibraryCore == LibraryTypeOK /\ LockPart /\ DeskPart

LEMMA CoreIsLibrary == LibraryIInv <=> LibraryCore
  BY DEF LibraryIInv, LibraryCore, LockPart, DeskPart, Shelves, LocksHeld, RequestsSound, LockRow, DeskRow

serverVars == <<candidates, active, root, lifecycle, told, closed, closings>>

LibPlaces == LockPlaces \cup DeskPlaces \cup {"out", "tell", "swap", "adopt"}

(* Only thread c moves.                                                     *)
Moved(c) ==
  /\ libJob' \in [Threads -> Jobs]
  /\ \A d \in Threads \ {c} : libJob'[d] = libJob[d]
Kept(c) ==
  /\ libJob'[c].key = libJob[c].key /\ libJob'[c].what = libJob[c].what
  /\ libJob'[c].id = libJob[c].id /\ libJob'[c].seen = libJob[c].seen
  /\ libJob'[c].found = libJob[c].found

LEMMA RowSeated ==
  ASSUME LibraryTypeOK, NEW c \in Threads, NEW row \in Jobs, libJob' = [libJob EXCEPT ![c] = row]
  PROVE  Moved(c) /\ libJob'[c] = row
  BY DEF LibraryTypeOK, Moved

LEMMA Turned ==
  ASSUME LibraryTypeOK, NEW c \in Threads, NEW place \in LibPlaces, Turn(c, place)
  PROVE  Moved(c) /\ Kept(c) /\ libJob'[c].at = place
  <1> DEFINE row == [libJob[c] EXCEPT !.at = place]
  <1>1. libJob[c] \in Jobs
    BY DEF LibraryTypeOK
  <1>2. /\ row \in Jobs /\ row.at = place /\ row.key = libJob[c].key /\ row.what = libJob[c].what
        /\ row.id = libJob[c].id /\ row.seen = libJob[c].seen /\ row.found = libJob[c].found
    BY <1>1 DEF Jobs, LibPlaces
  <1>3. libJob' = [libJob EXCEPT ![c] = row]
    BY DEF Turn
  <1> HIDE DEF row
  <1> QED
    BY <1>2, <1>3, RowSeated DEF Kept

LEMMA IdleRow ==
  /\ IdleThread \in Jobs /\ IdleThread.at = "out" /\ IdleThread.seen = 0 /\ IdleThread.found = Nobody
  /\ IdleThread.key = Nobody /\ IdleThread.what = Nobody /\ IdleThread.id = Nobody
  BY DEF IdleThread, Jobs

LEMMA LeftRow ==
  ASSUME LibraryTypeOK, NEW c \in Threads, LeaveWith(c)
  PROVE  Moved(c) /\ libJob'[c].at = "out" /\ libJob'[c].seen = 0
  <1>1. libJob' = [libJob EXCEPT ![c] = IdleThread]
    BY DEF LeaveWith
  <1> QED
    BY <1>1, IdleRow, RowSeated

LEMMA AnsweredRow ==
  ASSUME LibraryTypeOK, NEW c \in Threads, NEW n \in Nat, AnswerWith(c, n)
  PROVE  Moved(c) /\ libJob'[c].at = "tell" /\ libJob'[c].seen = n
  <1> DEFINE row == [IdleThread EXCEPT !.at = "tell", !.seen = n]
  <1>2. row \in Jobs /\ row.at = "tell" /\ row.seen = n
    BY IdleRow DEF Jobs
  <1>3. libJob' = [libJob EXCEPT ![c] = row]
    BY DEF AnswerWith
  <1> HIDE DEF row
  <1> QED
    BY <1>2, <1>3, RowSeated

LEMMA GenerationNat == LibraryTypeOK => Generation \in Nat
  BY FS_CardinalityType DEF LibraryTypeOK, Generation

(* What the lifecycle lock guards is not touched at the places of the other.*)
LEMMA DeskKept ==
  ASSUME LibraryCore, NEW c \in Threads, Moved(c),
         libJob[c].at \notin DeskPlaces, libJob'[c].at \notin DeskPlaces,
         UNCHANGED <<active, root, lifecycle, closed, closings>>, registry \subseteq registry'
  PROVE  DeskPart'
  <1>1. ActiveIsRoot'
    BY DEF LibraryCore, DeskPart, ActiveIsRoot
  <1>2. ASSUME NEW d \in Threads
        PROVE  ((lifecycle = d <=> libJob[d].at \in DeskPlaces) /\ DeskRow(libJob[d]))'
    <2>1. CASE d = c
      BY <2>1 DEF LibraryCore, DeskPart, DeskRow, DeskPlaces
    <2>2. CASE d # c
      BY <2>2 DEF Moved, LibraryCore, DeskPart, DeskRow, OpeningSound, ClosingSound
    <2> QED
      BY <2>1, <2>2
  <1> QED
    BY <1>1, <1>2 DEF DeskPart

(* Whoever holds the lock of the registry is alone with it.                 *)
LEMMA LockAlone ==
  ASSUME LibraryAssumption, LibraryCore, NEW c \in Threads, Moved(c), holder \in {c, Nobody},
         holder' \in {c, Nobody}, holder' = c <=> libJob'[c].at \in LockPlaces,
         LockRow(libJob[c])', Shelves'
  PROVE  LockPart'
  <1>1. ASSUME NEW d \in Threads
        PROVE  ((holder = d <=> libJob[d].at \in LockPlaces) /\ LockRow(libJob[d]))'
    <2>1. CASE d = c
      BY <2>1
    <2>2. CASE d # c
      <3>1. d # holder /\ libJob'[d] = libJob[d] /\ d # holder'
        BY <2>2 DEF Moved, LibraryAssumption
      <3>2. libJob[d].at \notin LockPlaces /\ LockRow(libJob[d])
        BY <3>1 DEF LibraryCore, LockPart
      <3>3. LockRow(libJob[d])'
        BY <3>1, <3>2 DEF LockRow, OfCreation, OfAdoption, AdoptionSound, LockPlaces, CreatePlaces
      <3> QED
        BY <3>1, <3>2, <3>3
    <2> QED
      BY <2>1, <2>2
  <1> QED
    BY <1>1 DEF LockPart

(* The shelves do not change, and no running command is left alone.         *)
LEMMA ShelvesKept ==
  ASSUME LibraryCore, NEW c \in Threads, Moved(c),
         UNCHANGED <<registry, intent, folder, maker, existing, theirs, crashed>>,
         libJob[c].at = "wait" => maker[libJob[c].id] = "none",
         told' <= Generation, libJob'[c].seen <= Generation
  PROVE  Shelves'
  <1>1. RegisteredOnce'
    BY DEF LibraryCore, LockPart, Shelves, RegisteredOnce, Generation, Moved
  <1>2. NoStrayFolder' /\ ManifestKept'
    BY DEF LibraryCore, LockPart, Shelves, NoStrayFolder, ManifestKept
  <1>3. RegisteredIsThere'
    BY DEF LibraryCore, LockPart, Shelves, RegisteredIsThere, Moved, Doing
  <1> QED
    BY <1>1, <1>2, <1>3 DEF Shelves

(* What the lock of the registry guards is not touched elsewhere.           *)
LEMMA LockKept ==
  ASSUME LibraryCore, NEW c \in Threads, Moved(c), UNCHANGED registryVars, crashed' = crashed,
         libJob[c].at \notin LockPlaces, libJob'[c].at \notin LockPlaces,
         LockRow(libJob[c])', told' <= Generation, libJob'[c].seen <= Generation
  PROVE  LockPart'
  <1>1. Shelves'
    BY ShelvesKept DEF registryVars, LockPlaces, CreatePlaces
  <1>2. ASSUME NEW d \in Threads
        PROVE  ((holder = d <=> libJob[d].at \in LockPlaces) /\ LockRow(libJob[d]))'
    <2>1. CASE d = c
      BY <2>1 DEF LibraryCore, LockPart, registryVars
    <2>2. CASE d # c
      BY <2>2 DEF Moved, LibraryCore, LockPart, registryVars, LockRow, OfCreation, OfAdoption,
         CreationSound, AdoptionSound, Unregistered, Generation
    <2> QED
      BY <2>1, <2>2
  <1> QED
    BY <1>1, <1>2 DEF LockPart

-----------------------------------------------------------------------------
LEMMA DeskAlone ==
  ASSUME LibraryAssumption, LibraryCore, NEW c \in Threads, Moved(c), lifecycle \in {c, Nobody},
         lifecycle' \in {c, Nobody}, lifecycle' = c <=> libJob'[c].at \in DeskPlaces,
         DeskRow(libJob[c])', ActiveIsRoot'
  PROVE  DeskPart'
  <1>1. ASSUME NEW d \in Threads
        PROVE  ((lifecycle = d <=> libJob[d].at \in DeskPlaces) /\ DeskRow(libJob[d]))'
    <2>1. CASE d = c
      BY <2>1
    <2>2. CASE d # c
      <3>1. d # lifecycle /\ libJob'[d] = libJob[d] /\ d # lifecycle'
        BY <2>2 DEF Moved, LibraryAssumption
      <3>2. libJob[d].at \notin DeskPlaces
        BY <3>1 DEF LibraryCore, DeskPart
      <3> QED
        BY <3>1, <3>2 DEF DeskRow, DeskPlaces
    <2> QED
      BY <2>1, <2>2
  <1> QED
    BY <1>1 DEF DeskPart

LEMMA IdleOut ==
  ASSUME LibraryCore, NEW c \in Threads, libJob[c] = IdleThread
  PROVE  libJob[c].at = "out" /\ libJob[c].at \notin LockPlaces /\ libJob[c].at \notin DeskPlaces
  BY IdleRow DEF LockPlaces, CreatePlaces, DeskPlaces

(* A row that is at no place of the library's lock is sound there.          *)
LEMMA RowElsewhere ==
  ASSUME NEW c \in Threads, libJob'[c].at \in DeskPlaces \cup {"out", "tell"}
  PROVE  LockRow(libJob[c])' /\ libJob'[c].at \notin LockPlaces
  BY DEF LockRow, OfCreation, OfAdoption, LockPlaces, CreatePlaces, DeskPlaces

LEMMA RowOffDesk ==
  ASSUME NEW c \in Threads, libJob'[c].at \notin DeskPlaces
  PROVE  DeskRow(libJob[c])'
  BY DEF DeskRow, DeskPlaces

LEMMA CoreFacts ==
  ASSUME LibraryCore
  PROVE  /\ LibraryTypeOK /\ told <= Generation /\ Generation \in Nat
         /\ \A c \in Threads : libJob[c].seen <= Generation /\ libJob[c].seen \in Nat
  BY GenerationNat DEF LibraryCore, LockPart, Shelves, RegisteredOnce, LibraryTypeOK, Jobs

LEMMA TellKeeps ==
  ASSUME LibraryAssumption, LibraryCore, NEW c \in Threads, Tell(c)
  PROVE  LibraryCore'
  <1>1. Moved(c) /\ libJob'[c].at = "out" /\ libJob'[c].seen = 0 /\ libJob[c].at = "tell"
    BY CoreFacts, LeftRow DEF Tell, Doing
  <1>2. UNCHANGED <<registryVars, crashed, libBudget, candidates, active, root, lifecycle, closed, closings>>
    BY DEF Tell, KeepHistory
  <1>3. told' \in Nat /\ told' <= Generation
    BY CoreFacts DEF Tell
  <1>4. LibraryTypeOK'
    BY <1>1, <1>2, <1>3, CoreFacts DEF LibraryTypeOK, Moved, registryVars
  <1>5. LockPart'
    BY <1>1, <1>2, <1>3, LockKept, RowElsewhere, CoreFacts DEF LockPlaces, CreatePlaces
  <1>6. DeskPart'
    BY <1>1, <1>2, DeskKept DEF DeskPlaces, registryVars
  <1> QED
    BY <1>4, <1>5, <1>6 DEF LibraryCore

LEMMA ListKeeps ==
  ASSUME LibraryAssumption, LibraryCore, NEW c \in Threads, List(c)
  PROVE  LibraryCore'
  <1>1. Moved(c) /\ libJob'[c].at = "tell" /\ libJob'[c].seen = Generation /\ libJob[c].at = "out"
    BY CoreFacts, AnsweredRow, IdleOut DEF List
  <1>2. UNCHANGED <<registryVars, crashed, libBudget, candidates, active, root, lifecycle, told, closed, closings>>
    BY DEF List, KeepHistory, KeepServer
  <1>4. LibraryTypeOK'
    BY <1>1, <1>2, CoreFacts DEF LibraryTypeOK, Moved, registryVars
  <1>5. LockPart'
    BY <1>1, <1>2, LockKept, RowElsewhere, CoreFacts DEF LockPlaces, CreatePlaces
  <1>6. DeskPart'
    BY <1>1, <1>2, DeskKept DEF DeskPlaces, registryVars
  <1> QED
    BY <1>4, <1>5, <1>6 DEF LibraryCore

-----------------------------------------------------------------------------
(* Opening and closing                                                      *)
LEMMA OpenLookKeeps ==
  ASSUME LibraryAssumption, LibraryCore, NEW c \in Threads, NEW e \in registry, NEW g, OpenLook(c, e, g)
  PROVE  LibraryCore'
  <1>1. /\ UNCHANGED <<registryVars, candidates, active, root, closed, closings, crashed, libBudget>>
        /\ g = Generation /\ lifecycle = Nobody /\ libJob[c].at = "out" /\ e \in Entries
    BY CoreFacts, IdleOut DEF OpenLook, KeepHistory, LibraryTypeOK
  <1>2. CASE active = Nobody
    <2> DEFINE row == [IdleThread EXCEPT !.at = "export", !.id = e, !.seen = g]
    <2>1. row \in Jobs /\ row.at = "export" /\ row.id = e /\ row.seen = g
      BY <1>1, IdleRow, CoreFacts DEF Jobs, DeskPlaces
    <2>2. libJob' = [libJob EXCEPT ![c] = row] /\ lifecycle' = c /\ told' = told
      BY <1>2 DEF OpenLook
    <2> HIDE DEF row
    <2>3. Moved(c) /\ libJob'[c].at = "export" /\ libJob'[c].id = e /\ libJob'[c].seen = Generation
      BY <1>1, <2>1, <2>2, RowSeated, CoreFacts
    <2>4. LibraryTypeOK'
      BY <1>1, <2>2, <2>3, CoreFacts DEF LibraryTypeOK, Moved, registryVars
    <2>5. LockPart'
      BY <1>1, <2>2, <2>3, LockKept, RowElsewhere, CoreFacts DEF LockPlaces, CreatePlaces, DeskPlaces
    <2>6. root = Nobody
      BY <1>1, <1>2 DEF LibraryCore, DeskPart, ActiveIsRoot
    <2>7. DeskRow(libJob[c])'
      BY <1>1, <1>2, <2>3, <2>6 DEF DeskRow, OpeningSound, registryVars
    <2>8. ActiveIsRoot'
      BY <1>1, <1>2, <2>2, <2>6 DEF LibraryCore, DeskPart, ActiveIsRoot
    <2>9. DeskPart'
      BY <1>1, <2>2, <2>3, <2>7, <2>8, DeskAlone DEF DeskPlaces
    <2> QED
      BY <2>4, <2>5, <2>9 DEF LibraryCore
  <1>3. CASE active # Nobody
    <2>1. lifecycle' = lifecycle /\ libJob' = libJob /\ told' = Generation
      BY <1>1, <1>3 DEF OpenLook
    <2>2. Moved(c)
      BY <2>1, CoreFacts DEF Moved, LibraryTypeOK
    <2>4. LibraryTypeOK'
      BY <1>1, <2>1, <2>2, CoreFacts DEF LibraryTypeOK, Moved, registryVars
    <2>5. LockPart'
      BY <1>1, <2>1, <2>2, LockKept, RowElsewhere, CoreFacts DEF LockPlaces, CreatePlaces, DeskPlaces
    <2>6. DeskPart'
      BY <1>1, <2>1, <2>2, DeskKept DEF DeskPlaces, registryVars
    <2> QED
      BY <2>4, <2>5, <2>6 DEF LibraryCore
  <1> QED
    BY <1>2, <1>3

(* At a place of the desk, the thread holds the lifecycle lock.             *)
LEMMA AtDesk ==
  ASSUME LibraryCore, NEW c \in Threads, libJob[c].at \in DeskPlaces
  PROVE  lifecycle = c /\ libJob[c].at \notin LockPlaces /\ DeskRow(libJob[c]) /\ holder # c
  BY DEF LibraryCore, DeskPart, LockPart, DeskPlaces, LockPlaces, CreatePlaces

LEMMA OpenExportKeeps ==
  ASSUME LibraryAssumption, LibraryCore, NEW c \in Threads, OpenExport(c)
  PROVE  LibraryCore'
  <1>1. /\ UNCHANGED <<registryVars, candidates, active, root, told, closed, closings, crashed, libBudget>>
        /\ libJob[c].at = "export"
    BY DEF OpenExport, KeepHistory, Doing
  <1>2. /\ lifecycle = c /\ libJob[c].at \notin LockPlaces
        /\ libJob[c].id \in registry /\ active = Nobody /\ root = Nobody
    BY <1>1, AtDesk DEF DeskRow, OpeningSound, DeskPlaces
  <1>3. CASE Exportable(libJob[c].id)
    <2>1. Moved(c) /\ Kept(c) /\ libJob'[c].at = "root" /\ lifecycle' = lifecycle
      BY <1>3, Turned, CoreFacts DEF OpenExport, LibPlaces, DeskPlaces
    <2>2. LibraryTypeOK'
      BY <1>1, <2>1, CoreFacts DEF LibraryTypeOK, Moved, registryVars
    <2>3. LockPart'
      BY <1>1, <1>2, <2>1, LockKept, RowElsewhere, CoreFacts DEF DeskPlaces, Kept
    <2>4. DeskRow(libJob[c])'
      BY <1>1, <1>2, <2>1 DEF DeskRow, OpeningSound, registryVars, Kept
    <2>5. ActiveIsRoot'
      BY <1>1, <2>1 DEF LibraryCore, DeskPart, ActiveIsRoot, registryVars
    <2>6. DeskPart'
      BY <1>1, <1>2, <2>1, <2>4, <2>5, DeskAlone DEF DeskPlaces
    <2> QED
      BY <2>2, <2>3, <2>6 DEF LibraryCore
  <1>4. CASE ~Exportable(libJob[c].id)
    <2>1. Moved(c) /\ libJob'[c].at = "out" /\ libJob'[c].seen = 0 /\ lifecycle' = Nobody
      BY <1>4, LeftRow, CoreFacts DEF OpenExport
    <2>2. LibraryTypeOK'
      BY <1>1, <2>1, CoreFacts DEF LibraryTypeOK, Moved, registryVars
    <2>3. LockPart'
      BY <1>1, <1>2, <2>1, LockKept, RowElsewhere, CoreFacts
    <2>5. ActiveIsRoot'
      BY <1>1, <1>2, <2>1 DEF LibraryCore, DeskPart, ActiveIsRoot, registryVars
    <2>6. DeskPart'
      BY <1>1, <1>2, <2>1, <2>5, DeskAlone, RowOffDesk DEF DeskPlaces, LibraryAssumption
    <2> QED
      BY <2>2, <2>3, <2>6 DEF LibraryCore
  <1> QED
    BY <1>3, <1>4

LEMMA OpenRootKeeps ==
  ASSUME LibraryAssumption, LibraryCore, NEW c \in Threads, OpenRoot(c)
  PROVE  LibraryCore'
  <1>1. /\ UNCHANGED <<registryVars, candidates, active, lifecycle, told, closed, closings, crashed, libBudget>>
        /\ libJob[c].at = "root" /\ root' = libJob[c].id.id
    BY DEF OpenRoot, KeepHistory, Doing
  <1>2. /\ lifecycle = c /\ libJob[c].at \notin LockPlaces
        /\ libJob[c].id \in registry /\ active = Nobody
    BY <1>1, AtDesk DEF DeskRow, OpeningSound, DeskPlaces
  <1>3. libJob[c].id \in Entries /\ libJob[c].id.id \in Ids
    BY <1>2, CoreFacts DEF LibraryTypeOK, Entries
  <1>4. Moved(c) /\ Kept(c) /\ libJob'[c].at = "identity"
    BY Turned, CoreFacts DEF OpenRoot, LibPlaces, DeskPlaces
  <1>5. LibraryTypeOK'
    BY <1>1, <1>3, <1>4, CoreFacts DEF LibraryTypeOK, Moved, registryVars
  <1>6. LockPart'
    BY <1>1, <1>2, <1>4, LockKept, RowElsewhere, CoreFacts DEF DeskPlaces, Kept
  <1>7. DeskRow(libJob[c])'
    BY <1>1, <1>2, <1>4 DEF DeskRow, OpeningSound, registryVars, Kept
  <1>8. ActiveIsRoot'
    BY <1>1, <1>2 DEF LibraryCore, DeskPart, ActiveIsRoot, registryVars, LibraryAssumption
  <1>9. DeskPart'
    BY <1>1, <1>2, <1>4, <1>7, <1>8, DeskAlone DEF DeskPlaces
  <1> QED
    BY <1>5, <1>6, <1>9 DEF LibraryCore

LEMMA OpenActiveKeeps ==
  ASSUME LibraryAssumption, LibraryCore, NEW c \in Threads, OpenActive(c)
  PROVE  LibraryCore'
  <1>1. /\ UNCHANGED <<registryVars, candidates, root, closed, closings, crashed, libBudget>>
        /\ libJob[c].at = "identity" /\ active' = libJob[c].id.id /\ lifecycle' = Nobody
        /\ told' = libJob[c].seen
    BY DEF OpenActive, KeepHistory, Doing
  <1>2. /\ lifecycle = c /\ libJob[c].at \notin LockPlaces
        /\ libJob[c].id \in registry /\ root = libJob[c].id.id
    BY <1>1, AtDesk DEF DeskRow, OpeningSound, DeskPlaces
  <1>3. libJob[c].id \in Entries /\ libJob[c].id.id \in Ids
    BY <1>2, CoreFacts DEF LibraryTypeOK, Entries
  <1>4. Moved(c) /\ libJob'[c].at = "out" /\ libJob'[c].seen = 0
    BY LeftRow, CoreFacts DEF OpenActive
  <1>5. LibraryTypeOK'
    BY <1>1, <1>3, <1>4, CoreFacts DEF LibraryTypeOK, Moved, registryVars
  <1>6. LockPart'
    BY <1>1, <1>2, <1>4, LockKept, RowElsewhere, CoreFacts
  <1>8. ActiveIsRoot'
    BY <1>1, <1>2 DEF LibraryCore, DeskPart, ActiveIsRoot, registryVars
  <1>9. DeskPart'
    BY <1>1, <1>2, <1>4, <1>8, DeskAlone, RowOffDesk DEF DeskPlaces, LibraryAssumption
  <1> QED
    BY <1>5, <1>6, <1>9 DEF LibraryCore

LEMMA CloseLookKeeps ==
  ASSUME LibraryAssumption, LibraryCore, NEW c \in Threads, NEW k \in CloseKeys,
         CloseLook(c, active, told, k)
  PROVE  LibraryCore'
  <1>1. /\ UNCHANGED <<registryVars, candidates, active, root, told, closed, closings, crashed, libBudget>>
        /\ lifecycle = Nobody /\ lifecycle' = c /\ closed[k] = Nobody /\ active # Nobody
    BY DEF CloseLook, KeepHistory
  <1>2. libJob[c].at \notin LockPlaces /\ libJob[c].at = "out"
    BY IdleOut DEF CloseLook
  <1> DEFINE row == [IdleThread EXCEPT !.at = "cancel", !.key = k, !.id = active, !.seen = told]
  <1>3. active \in Ids /\ told \in Nat /\ told <= Generation
    BY <1>1, CoreFacts DEF LibraryTypeOK
  <1>4. row \in Jobs /\ row.at = "cancel" /\ row.key = k /\ row.id = active /\ row.seen = told
    BY <1>3, IdleRow DEF Jobs, DeskPlaces
  <1>5. libJob' = [libJob EXCEPT ![c] = row]
    BY DEF CloseLook
  <1> HIDE DEF row
  <1>6. Moved(c) /\ libJob'[c] = row
    BY <1>4, <1>5, RowSeated, CoreFacts
  <1>7. LibraryTypeOK'
    BY <1>1, <1>6, CoreFacts DEF LibraryTypeOK, Moved, registryVars
  <1>8. LockPart'
    BY <1>1, <1>2, <1>3, <1>4, <1>6, LockKept, RowElsewhere, CoreFacts DEF DeskPlaces
  <1>9. root = active
    BY <1>1 DEF LibraryCore, DeskPart, ActiveIsRoot
  <1>10. DeskRow(libJob[c])'
    BY <1>1, <1>3, <1>4, <1>6, <1>9 DEF DeskRow, ClosingSound
  <1>11. ActiveIsRoot'
    BY <1>1 DEF LibraryCore, DeskPart, ActiveIsRoot, registryVars
  <1>12. DeskPart'
    BY <1>1, <1>4, <1>6, <1>10, <1>11, DeskAlone DEF DeskPlaces
  <1> QED
    BY <1>7, <1>8, <1>12 DEF LibraryCore

LEMMA CloseActiveKeeps ==
  ASSUME LibraryAssumption, LibraryCore, NEW c \in Threads, CloseActive(c)
  PROVE  LibraryCore'
  <1>1. /\ UNCHANGED <<registryVars, candidates, root, lifecycle, told, closed, closings, crashed, libBudget>>
        /\ libJob[c].at = "cancel" /\ active' = Nobody
    BY DEF CloseActive, KeepHistory, Doing
  <1>2. lifecycle = c /\ libJob[c].at \notin LockPlaces /\ ClosingSound(libJob[c])
    BY <1>1, AtDesk DEF DeskRow, DeskPlaces
  <1>4. Moved(c) /\ Kept(c) /\ libJob'[c].at = "inactive"
    BY Turned, CoreFacts DEF CloseActive, LibPlaces, DeskPlaces
  <1>5. LibraryTypeOK'
    BY <1>1, <1>4, CoreFacts DEF LibraryTypeOK, Moved, registryVars
  <1>6. LockPart'
    BY <1>1, <1>2, <1>4, LockKept, RowElsewhere, CoreFacts DEF DeskPlaces, Kept
  <1>7. DeskRow(libJob[c])'
    BY <1>1, <1>2, <1>4 DEF DeskRow, ClosingSound, Kept
  <1>8. ActiveIsRoot'
    BY <1>1, <1>2 DEF LibraryCore, DeskPart, ActiveIsRoot, registryVars, LibraryAssumption
  <1>9. DeskPart'
    BY <1>1, <1>2, <1>4, <1>7, <1>8, DeskAlone DEF DeskPlaces
  <1> QED
    BY <1>5, <1>6, <1>9 DEF LibraryCore

LEMMA CloseRootKeeps ==
  ASSUME LibraryAssumption, LibraryCore, NEW c \in Threads, CloseRoot(c)
  PROVE  LibraryCore'
  <1> DEFINE k == libJob[c].key
  <1>1. /\ UNCHANGED <<registryVars, candidates, active, told, crashed, libBudget>>
        /\ libJob[c].at = "inactive" /\ root' = Nobody /\ lifecycle' = Nobody
        /\ closed' = [closed EXCEPT ![k] = <<libJob[c].id, libJob[c].seen>>]
    BY DEF CloseRoot, KeepHistory, Doing
  <1>2. /\ lifecycle = c /\ libJob[c].at \notin LockPlaces /\ libJob[c].id \in Ids
        /\ k \in CloseKeys /\ closed[k] = Nobody /\ active = Nobody
    BY <1>1, AtDesk DEF DeskRow, ClosingSound, DeskPlaces
  <1>3. closings \in [CloseKeys -> 0..1] /\ closings[k] = 0
    BY <1>2, CoreFacts DEF LibraryTypeOK, LibraryCore, DeskPart, ActiveIsRoot
  <1>4. closings' = [closings EXCEPT ![k] = closings[k] + 1]
    BY DEF CloseRoot
  <1>5. closings' \in [CloseKeys -> 0..1] /\ \A q \in CloseKeys \ {k} : closings'[q] = closings[q]
    BY <1>2, <1>3, <1>4
  <1>6. <<libJob[c].id, libJob[c].seen>> \in Ids \X Nat
    BY <1>2, CoreFacts
  <1>7. /\ closed' \in [CloseKeys -> {Nobody} \cup (Ids \X Nat)] /\ closed'[k] # Nobody
        /\ \A q \in CloseKeys \ {k} : closed'[q] = closed[q]
    BY <1>1, <1>2, <1>6, CoreFacts, NobodyAssumption DEF LibraryTypeOK
  <1>8. Moved(c) /\ libJob'[c].at = "out" /\ libJob'[c].seen = 0
    BY LeftRow, CoreFacts DEF CloseRoot
  <1>9. LibraryTypeOK'
    BY <1>1, <1>5, <1>7, <1>8, CoreFacts DEF LibraryTypeOK, Moved, registryVars
  <1>10. LockPart'
    BY <1>1, <1>2, <1>8, LockKept, RowElsewhere, CoreFacts
  <1>11. ActiveIsRoot'
    BY <1>1, <1>2, <1>5, <1>7 DEF LibraryCore, DeskPart, ActiveIsRoot
  <1>12. DeskPart'
    BY <1>1, <1>2, <1>8, <1>11, DeskAlone, RowOffDesk DEF DeskPlaces, LibraryAssumption
  <1> QED
    BY <1>9, <1>10, <1>12 DEF LibraryCore

-----------------------------------------------------------------------------
(* Creation                                                                 *)
LEMMA AtLock ==
  ASSUME LibraryCore, NEW c \in Threads, libJob[c].at \in LockPlaces
  PROVE  /\ holder = c /\ libJob[c].at \notin DeskPlaces /\ LockRow(libJob[c])
         /\ lifecycle # c /\ libJob[c] \in Jobs
  BY CoreFacts DEF LibraryCore, DeskPart, LockPart, DeskPlaces, LockPlaces, CreatePlaces, LibraryTypeOK

LEMMA RegistryFacts ==
  ASSUME LibraryCore, NEW e \in registry
  PROVE  /\ e \in Entries
         /\ \/ e.ref \in Managed /\ e.id = e.ref /\ e.key \in Keys /\ folder[e.ref] # "absent"
            \/ /\ e.ref \in Folders /\ e.id = OwnId[e.ref] /\ e.key \in Keys
               /\ existing[e.ref].manifest # "none"
  BY DEF LibraryCore, LockPart, Shelves, RegisteredIsThere, LibraryTypeOK

LEMMA IntentFacts ==
  ASSUME LibraryCore, intent # Nobody
  PROVE  /\ intent \in Entries /\ intent.id \in Managed /\ intent.ref = intent.id /\ intent.key \in Keys
         /\ \A e \in registry : e.id = intent.id => e.key = intent.key
  BY DEF LibraryCore, LockPart, Shelves, NoStrayFolder, LibraryTypeOK

(* An entry read back: what was put in it.                                  *)
LEMMA EntryRead ==
  ASSUME NEW id \in Ids, NEW key \in Keys, NEW what \in Whats,
         NEW ref \in Managed \cup Folders
  PROVE  /\ Entry(id, key, what, ref) \in Entries /\ Entry(id, key, what, ref) # Nobody
         /\ Entry(id, key, what, ref).id = id /\ Entry(id, key, what, ref).key = key
         /\ Entry(id, key, what, ref).what = what /\ Entry(id, key, what, ref).ref = ref
  BY NobodyAssumption DEF Entry, Entries

LEMMA CreateLookKeeps ==
  ASSUME LibraryAssumption, LibraryCore, NEW c \in Threads, NEW k \in Keys, NEW t \in Titles,
         CreateLook(c, k, t)
  PROVE  LibraryCore'
  <1>1. /\ UNCHANGED <<registry, folder, maker, existing, theirs, candidates, active, root,
                       lifecycle, told, closed, closings, crashed, libBudget>>
        /\ holder = Nobody /\ libJob[c].at = "out"
    BY IdleOut DEF CreateLook, KeepServer, KeepHistory
  <1>2. t \in Whats /\ Nobody \notin Threads
    BY DEF Whats, LibraryAssumption
  <1>3. CASE \E e \in Bound(k) :
          /\ e.what = t /\ e.ref \in Managed
          /\ intent' = IF intent # Nobody /\ intent.id = e.id THEN Nobody ELSE intent
          /\ AnswerWith(c, Generation) /\ UNCHANGED holder
    <2>1. PICK e \in registry :
            /\ e.ref \in Managed /\ UNCHANGED holder
            /\ intent' = IF intent # Nobody /\ intent.id = e.id THEN Nobody ELSE intent
            /\ AnswerWith(c, Generation)
      BY <1>3 DEF Bound
    <2>2. Moved(c) /\ libJob'[c].at = "tell" /\ libJob'[c].seen = Generation
      BY <2>1, AnsweredRow, CoreFacts
    <2>3. LibraryTypeOK'
      BY <1>1, <2>1, <2>2, CoreFacts DEF LibraryTypeOK, Moved
    <2>4. RegisteredOnce' /\ ManifestKept'
      BY <1>1, <2>2, CoreFacts DEF LibraryCore, LockPart, Shelves, RegisteredOnce, Generation, Moved, ManifestKept
    <2>5. NoStrayFolder'
      <3>1. e.id = e.ref
        BY <2>1, RegistryFacts DEF LibraryAssumption
      <3> QED
        BY <1>1, <2>1, <3>1 DEF LibraryCore, LockPart, Shelves, NoStrayFolder
    <2>6. RegisteredIsThere'
      BY <1>1, <2>2 DEF LibraryCore, LockPart, Shelves, RegisteredIsThere, Moved, Doing
    <2>7. LockPart'
      BY <1>1, <1>2, <2>1, <2>2, <2>4, <2>5, <2>6, LockAlone, RowElsewhere DEF Shelves, LockPlaces, CreatePlaces
    <2>8. DeskPart'
      BY <1>1, <2>2, DeskKept DEF DeskPlaces
    <2> QED
      BY <2>3, <2>7, <2>8 DEF LibraryCore
  <1>4. CASE /\ Bound(k) = {} /\ Generation < MaxEntries /\ intent = Nobody
             /\ \E i \in Managed :
                  /\ folder[i] = "absent"
                  /\ libJob' = [libJob EXCEPT ![c] =
                       [IdleThread EXCEPT !.at = "intent", !.key = k, !.what = t, !.id = i]]
             /\ holder' = c /\ UNCHANGED intent
    <2>1. PICK i \in Managed :
            /\ folder[i] = "absent"
            /\ libJob' = [libJob EXCEPT ![c] =
                 [IdleThread EXCEPT !.at = "intent", !.key = k, !.what = t, !.id = i]]
      BY <1>4
    <2> DEFINE row == [IdleThread EXCEPT !.at = "intent", !.key = k, !.what = t, !.id = i]
    <2>2. /\ row \in Jobs /\ row.at = "intent" /\ row.key = k /\ row.what = t /\ row.id = i
          /\ row.seen = 0 /\ row.found = Nobody
      BY <1>2, IdleRow DEF Jobs, LockPlaces, CreatePlaces, Ids
    <2>3. libJob' = [libJob EXCEPT ![c] = row]
      BY <2>1
    <2> HIDE DEF row
    <2>4. Moved(c) /\ libJob'[c] = row
      BY <2>2, <2>3, RowSeated, CoreFacts
    <2>5. LibraryTypeOK'
      BY <1>1, <1>4, <2>4, CoreFacts DEF LibraryTypeOK, Moved
    <2>6. Shelves'
      <3>1. UNCHANGED <<registry, intent, folder, maker, existing, theirs, crashed>>
        BY <1>1, <1>4
      <3>2. told' <= Generation /\ libJob'[c].seen <= Generation
        BY <1>1, <2>2, <2>4, CoreFacts
      <3> QED
        BY <1>1, <2>4, <3>1, <3>2, ShelvesKept
    <2>7. Unregistered(k, i, i)
      <3>1. ASSUME NEW e \in registry
            PROVE  e.key # k /\ e.id # i /\ e.ref # i
        BY <1>4, <2>1, RegistryFacts DEF Bound, LibraryAssumption
      <3> QED
        BY <1>4, <3>1 DEF Unregistered
    <2>8. CreationSound(libJob[c])'
      BY <1>1, <1>2, <1>4, <2>1, <2>2, <2>4, <2>7 DEF CreationSound, Unregistered, Generation
    <2>9. LockPart'
      BY <1>1, <1>4, <2>2, <2>4, <2>6, <2>8, LockAlone DEF LockRow, OfAdoption, LockPlaces, CreatePlaces
    <2>10. DeskPart'
      BY <1>1, <2>2, <2>4, DeskKept DEF DeskPlaces
    <2> QED
      BY <2>5, <2>9, <2>10 DEF LibraryCore
  <1>5. CASE /\ Bound(k) = {} /\ Generation < MaxEntries
             /\ intent # Nobody /\ intent.key = k /\ intent.what = t
             /\ libJob' = [libJob EXCEPT ![c] =
                  [IdleThread EXCEPT !.at = "folder", !.key = k, !.what = t, !.id = intent.id]]
             /\ holder' = c /\ UNCHANGED intent
    <2> DEFINE i == intent.id
               row == [IdleThread EXCEPT !.at = "folder", !.key = k, !.what = t, !.id = i]
    <2>1. i \in Managed /\ intent \in Entries /\ \A e \in registry : e.id = i => e.key = k
      BY <1>5, IntentFacts
    <2>2. /\ row \in Jobs /\ row.at = "folder" /\ row.key = k /\ row.what = t /\ row.id = i
          /\ row.seen = 0 /\ row.found = Nobody
      BY <1>2, <2>1, IdleRow DEF Jobs, LockPlaces, CreatePlaces, Ids
    <2>3. libJob' = [libJob EXCEPT ![c] = row]
      BY <1>5
    <2>4. intent = Entry(i, k, t, intent.ref)
      BY <1>5, <2>1 DEF Entries, Entry
    <2>11. intent.ref = i
      BY <1>5, IntentFacts
    <2> HIDE DEF row
    <2>5. Moved(c) /\ libJob'[c] = row
      BY <2>2, <2>3, RowSeated, CoreFacts
    <2>6. LibraryTypeOK'
      BY <1>1, <1>5, <2>5, CoreFacts DEF LibraryTypeOK, Moved
    <2>7. Shelves'
      <3>1. UNCHANGED <<registry, intent, folder, maker, existing, theirs, crashed>>
        BY <1>1, <1>5
      <3>2. told' <= Generation /\ libJob'[c].seen <= Generation
        BY <1>1, <2>2, <2>5, CoreFacts
      <3> QED
        BY <1>1, <2>5, <3>1, <3>2, ShelvesKept
    <2>8. CreationSound(libJob[c])'
      <3>1. ASSUME NEW e \in registry
            PROVE  e.key # k /\ e.id # i /\ e.ref # i
        BY <1>5, <2>1, RegistryFacts DEF Bound, LibraryAssumption
      <3> QED
        BY <1>1, <1>2, <1>5, <2>1, <2>2, <2>4, <2>11, <2>5, <3>1 DEF CreationSound, Unregistered, Generation
    <2>9. LockPart'
      BY <1>1, <1>5, <2>2, <2>5, <2>7, <2>8, LockAlone DEF LockRow, OfAdoption, LockPlaces, CreatePlaces
    <2>10. DeskPart'
      BY <1>1, <2>2, <2>5, DeskKept DEF DeskPlaces
    <2> QED
      BY <2>6, <2>9, <2>10 DEF LibraryCore
  <1> QED
    BY <1>1, <1>3, <1>4, <1>5 DEF CreateLook

LEMMA AtCreation ==
  ASSUME LibraryCore, NEW c \in Threads, OfCreation(libJob[c])
  PROVE  /\ holder = c /\ libJob[c].at \in LockPlaces /\ libJob[c].at \notin DeskPlaces
         /\ CreationSound(libJob[c]) /\ libJob[c] \in Jobs
  <1>1. libJob[c].at \in LockPlaces
    BY DEF OfCreation, LockPlaces
  <1> QED
    BY <1>1, AtLock DEF LockRow

LEMMA FaultCounts ==
  ASSUME LibraryAssumption, LibraryTypeOK, LibFault
  PROVE  /\ libBudget' \in [faults : 0..MaxLibFaults, searches : 0..MaxDiscoveries, outside : 0..MaxOutside]
         /\ libBudget'.outside = libBudget.outside
  <1>1. libBudget' = [libBudget EXCEPT !.faults = libBudget.faults + 1]
    BY DEF LibFault
  <1> QED
    BY <1>1 DEF LibFault, LibraryTypeOK, LibraryAssumption

(* The next place of a creation, the files as they were.                    *)
LEMMA CreationTurns ==
  ASSUME LibraryAssumption, LibraryCore, NEW c \in Threads, Moved(c), Kept(c), OfCreation(libJob[c]),
         libJob[c].at # "wait" \/ maker[libJob[c].id] = "none",
         OfCreation(libJob[c])', CreationSound(libJob[c])',
         UNCHANGED <<registryVars, serverVars, crashed, libBudget>>
  PROVE  LibraryCore'
  <1>1. LibraryTypeOK'
    BY CoreFacts DEF LibraryTypeOK, Moved, registryVars, serverVars
  <1>2. Shelves'
    BY ShelvesKept, CoreFacts DEF registryVars, serverVars, Kept
  <1>3. LockRow(libJob[c])'
    BY DEF LockRow, OfAdoption, OfCreation, CreationSound, CreatePlaces
  <1>4. LockPart'
    BY <1>2, <1>3, AtCreation, LockAlone DEF registryVars, OfCreation, LockPlaces
  <1>5. DeskPart'
    BY AtCreation, DeskKept DEF registryVars, serverVars, OfCreation, CreatePlaces, DeskPlaces
  <1> QED
    BY <1>1, <1>4, <1>5 DEF LibraryCore

(* The request lets go of the lock; what it was to do does not matter.      *)
LEMMA LetsGo ==
  ASSUME LibraryAssumption, LibraryCore, NEW c \in Threads, Moved(c), libJob[c].at \in LockPlaces,
         libJob[c].at = "wait" => maker[libJob[c].id] = "none",
         libJob'[c].at = "out", libJob'[c].seen = 0, holder' = Nobody, LibraryTypeOK',
         UNCHANGED <<registry, intent, folder, maker, existing, theirs, serverVars, crashed>>
  PROVE  LibraryCore'
  <1>1. Shelves'
    BY ShelvesKept, CoreFacts DEF serverVars
  <1>2. LockPart'
    BY <1>1, AtLock, LockAlone, RowElsewhere DEF LibraryAssumption
  <1>3. DeskPart'
    BY AtLock, DeskKept DEF serverVars, DeskPlaces
  <1> QED
    BY <1>2, <1>3 DEF LibraryCore

LEMMA WriteIntentKeeps ==
  ASSUME LibraryAssumption, LibraryCore, NEW c \in Threads, WriteIntent(c)
  PROVE  LibraryCore'
  <1> DEFINE job == libJob[c]
  <1>1. /\ UNCHANGED <<registry, folder, maker, existing, theirs, holder, serverVars, crashed, libBudget>>
        /\ job.at = "intent" /\ intent' = Entry(job.id, job.key, job.what, job.id)
    BY DEF WriteIntent, KeepServer, KeepHistory, Doing, serverVars
  <1>2. /\ holder = c /\ job.id \in Managed /\ job.key \in Keys /\ job.what \in Whats
        /\ job.found = Nobody /\ Unregistered(job.key, job.id, job.id)
        /\ intent = Nobody /\ folder[job.id] = "absent"
    BY <1>1, AtCreation DEF OfCreation, CreatePlaces, CreationSound
  <1>3. Moved(c) /\ Kept(c) /\ libJob'[c].at = "folder"
    BY Turned, CoreFacts DEF WriteIntent, LibPlaces, LockPlaces, CreatePlaces
  <1>4. /\ intent' \in Entries /\ intent' # Nobody /\ intent'.id = job.id
        /\ intent'.key = job.key /\ intent'.ref = job.id
    BY <1>1, <1>2, EntryRead DEF Ids
  <1>5. LibraryTypeOK'
    BY <1>1, <1>3, <1>4, CoreFacts DEF LibraryTypeOK, Moved, serverVars
  <1>6. RegisteredOnce' /\ ManifestKept'
    BY <1>1, <1>3, CoreFacts DEF LibraryCore, LockPart, Shelves, RegisteredOnce, Generation, Moved, Kept, ManifestKept, serverVars
  <1>7. NoStrayFolder'
    BY <1>1, <1>2, <1>4 DEF LibraryCore, LockPart, Shelves, NoStrayFolder, Unregistered
  <1>8. RegisteredIsThere'
    BY <1>1, <1>3 DEF LibraryCore, LockPart, Shelves, RegisteredIsThere, Moved, Doing
  <1>9. LockRow(libJob[c])'
    BY <1>1, <1>2, <1>3 DEF LockRow, OfCreation, OfAdoption, CreatePlaces, CreationSound, Kept, Unregistered, Generation
  <1>10. LockPart'
    BY <1>1, <1>2, <1>3, <1>6, <1>7, <1>8, <1>9, LockAlone DEF Shelves, LockPlaces, CreatePlaces
  <1>11. DeskPart'
    BY <1>1, <1>3, DeskKept DEF serverVars, DeskPlaces
  <1> QED
    BY <1>5, <1>10, <1>11 DEF LibraryCore

LEMMA LookFolderKeeps ==
  ASSUME LibraryAssumption, LibraryCore, NEW c \in Threads, LookFolder(c)
  PROVE  LibraryCore'
  <1> DEFINE job == libJob[c]
             place == IF folder[job.id] \in {"manifest", "whole"} THEN "register" ELSE "bridge"
  <1>1. /\ UNCHANGED <<registry, intent, maker, existing, theirs, holder, serverVars, crashed, libBudget>>
        /\ job.at = "folder"
        /\ folder' = IF folder[job.id] = "absent" THEN [folder EXCEPT ![job.id] = "dir"] ELSE folder
    BY DEF LookFolder, KeepServer, KeepHistory, Doing, serverVars
  <1>2. /\ holder = c /\ job.id \in Managed /\ job.key \in Keys /\ job.what \in Whats
        /\ job.found = Nobody /\ Unregistered(job.key, job.id, job.id)
        /\ intent = Entry(job.id, job.key, job.what, job.id)
    BY <1>1, AtCreation DEF OfCreation, CreatePlaces, CreationSound
  <1>3. Moved(c) /\ Kept(c) /\ libJob'[c].at = place
    <2>1. Turn(c, place) /\ place \in LibPlaces
      BY DEF LookFolder, LibPlaces, LockPlaces, CreatePlaces
    <2> QED
      BY <2>1, Turned, CoreFacts
  <1>4. folder \in [Managed -> Progress]
    BY CoreFacts DEF LibraryTypeOK
  <1>5. /\ folder' \in [Managed -> Progress]
        /\ \A i \in Managed : folder'[i] = IF i = job.id /\ folder[i] = "absent" THEN "dir" ELSE folder[i]
    BY <1>1, <1>2, <1>4 DEF Progress
  <1>6. LibraryTypeOK'
    BY <1>1, <1>3, <1>5, CoreFacts DEF LibraryTypeOK, Moved, serverVars
  <1>7. RegisteredOnce' /\ ManifestKept'
    BY <1>1, <1>3, CoreFacts DEF LibraryCore, LockPart, Shelves, RegisteredOnce, Generation, Moved, Kept, ManifestKept, serverVars
  <1>8. NoStrayFolder'
    <2>1. intent # Nobody /\ intent.id = job.id
      BY <1>2, EntryRead DEF Ids
    <2> QED
      BY <1>1, <1>5, <2>1 DEF LibraryCore, LockPart, Shelves, NoStrayFolder
  <1>9. RegisteredIsThere'
    BY <1>1, <1>3, <1>5 DEF LibraryCore, LockPart, Shelves, RegisteredIsThere, Moved, Doing
  <1>10. LockRow(libJob[c])'
    BY <1>1, <1>2, <1>3, <1>5 DEF LockRow, OfCreation, OfAdoption, CreatePlaces, CreationSound, Kept, Unregistered, Generation
  <1>11. LockPart'
    BY <1>1, <1>2, <1>3, <1>7, <1>8, <1>9, <1>10, LockAlone DEF Shelves, LockPlaces, CreatePlaces
  <1>12. DeskPart'
    BY <1>1, <1>3, DeskKept DEF serverVars, DeskPlaces
  <1> QED
    BY <1>6, <1>11, <1>12 DEF LibraryCore

LEMMA StartMakerKeeps ==
  ASSUME LibraryAssumption, LibraryCore, NEW c \in Threads, StartMaker(c)
  PROVE  LibraryCore'
  <1> DEFINE job == libJob[c]
  <1>1. /\ UNCHANGED <<registry, intent, folder, existing, theirs, holder, serverVars, crashed, libBudget>>
        /\ job.at = "bridge" /\ folder[job.id] = "dir"
        /\ maker' = [maker EXCEPT ![job.id] = "making"]
    BY DEF StartMaker, KeepServer, KeepHistory, Doing, serverVars
  <1>2. holder = c /\ CreationSound(job) /\ job.id \in Managed
    BY <1>1, AtCreation DEF OfCreation, CreatePlaces, CreationSound
  <1>3. Moved(c) /\ Kept(c) /\ libJob'[c].at = "wait"
    BY Turned, CoreFacts DEF StartMaker, LibPlaces, LockPlaces, CreatePlaces
  <1>4. /\ maker' \in [Managed -> {"none", "making", "undoing"}]
        /\ \A i \in Managed \ {job.id} : maker'[i] = maker[i]
    BY <1>1, <1>2, CoreFacts DEF LibraryTypeOK
  <1>5. LibraryTypeOK'
    BY <1>1, <1>3, <1>4, CoreFacts DEF LibraryTypeOK, Moved, serverVars
  <1>6. RegisteredOnce' /\ ManifestKept' /\ NoStrayFolder'
    BY <1>1, <1>3, CoreFacts DEF LibraryCore, LockPart, Shelves, RegisteredOnce, Generation, Moved, Kept, ManifestKept, serverVars, NoStrayFolder
  <1>7. RegisteredIsThere'
    <2>1. ASSUME ~crashed, NEW i \in Managed, maker'[i] # "none"
          PROVE  \E d \in Threads : libJob'[d].at = "wait" /\ libJob'[d].id = i
      <3>1. CASE i = job.id
        BY <1>3, <3>1 DEF Kept
      <3>2. CASE i # job.id
        <4>1. PICK d \in Threads : libJob[d].at = "wait" /\ libJob[d].id = i
          BY <1>4, <2>1, <3>2 DEF LibraryCore, LockPart, Shelves, RegisteredIsThere, Doing
        <4> QED
          BY <1>1, <1>3, <4>1 DEF Moved
      <3> QED
        BY <3>1, <3>2
    <2> QED
      BY <1>1, <2>1 DEF LibraryCore, LockPart, Shelves, RegisteredIsThere, Doing
  <1>8. LockRow(libJob[c])'
    BY <1>1, <1>2, <1>3 DEF LockRow, OfCreation, OfAdoption, CreatePlaces, CreationSound, Kept, Unregistered, Generation
  <1>9. LockPart'
    BY <1>1, <1>2, <1>3, <1>6, <1>7, <1>8, LockAlone DEF Shelves, LockPlaces, CreatePlaces
  <1>10. DeskPart'
    BY <1>1, <1>3, DeskKept DEF serverVars, DeskPlaces
  <1> QED
    BY <1>5, <1>9, <1>10 DEF LibraryCore

LEMMA MakerRefusesKeeps ==
  ASSUME LibraryAssumption, LibraryCore, NEW c \in Threads, MakerRefuses(c)
  PROVE  LibraryCore'
  <1> DEFINE place == IF maker[libJob[c].id] = "none" THEN "occupied" ELSE "busy"
  <1>1. /\ UNCHANGED <<registryVars, serverVars, crashed, libBudget>> /\ libJob[c].at = "bridge"
    BY DEF MakerRefuses, KeepRegistry, KeepServer, KeepHistory, Doing, registryVars, serverVars
  <1>2. OfCreation(libJob[c]) /\ CreationSound(libJob[c])
    BY <1>1, AtCreation DEF OfCreation, CreatePlaces
  <1>3. Moved(c) /\ Kept(c) /\ libJob'[c].at = place
    <2>1. Turn(c, place) /\ place \in LibPlaces
      BY DEF MakerRefuses, LibPlaces, LockPlaces, CreatePlaces
    <2> QED
      BY <2>1, Turned, CoreFacts
  <1>4. CreationSound(libJob[c])'
    BY <1>1, <1>2, <1>3 DEF CreationSound, Kept, Unregistered, Generation, registryVars
  <1> QED
    BY <1>1, <1>2, <1>3, <1>4, CreationTurns DEF OfCreation, CreatePlaces

LEMMA CreationRefusedKeeps ==
  ASSUME LibraryAssumption, LibraryCore, NEW c \in Threads, CreationRefused(c)
  PROVE  LibraryCore'
  <1>1. /\ UNCHANGED <<registry, intent, folder, maker, existing, theirs, serverVars, crashed, libBudget>>
        /\ libJob[c].at \in {"occupied", "busy"} /\ holder' = Nobody
    BY DEF CreationRefused, KeepRegistry, KeepServer, KeepHistory, serverVars
  <1>2. Moved(c) /\ libJob'[c].at = "out" /\ libJob'[c].seen = 0
    BY LeftRow, CoreFacts DEF CreationRefused
  <1>3. LibraryTypeOK'
    BY <1>1, <1>2, CoreFacts DEF LibraryTypeOK, Moved, serverVars
  <1> QED
    BY <1>1, <1>2, <1>3, LetsGo DEF LockPlaces, CreatePlaces

LEMMA CreationTimesOutKeeps ==
  ASSUME LibraryAssumption, LibraryCore, NEW c \in Threads, CreationTimesOut(c)
  PROVE  LibraryCore'
  <1> DEFINE job == libJob[c]
  <1>1. /\ UNCHANGED <<registry, intent, folder, existing, theirs, serverVars, crashed>>
        /\ job.at = "wait" /\ holder' = Nobody /\ LibFault
        /\ maker' = [maker EXCEPT ![job.id] = "none"]
    BY DEF CreationTimesOut, KeepServer, Doing, serverVars
  <1>2. holder = c /\ CreationSound(job) /\ job.id \in Managed
    BY <1>1, AtCreation DEF OfCreation, CreatePlaces, CreationSound
  <1>3. Moved(c) /\ libJob'[c].at = "out" /\ libJob'[c].seen = 0
    BY LeftRow, CoreFacts DEF CreationTimesOut
  <1>4. /\ maker' \in [Managed -> {"none", "making", "undoing"}] /\ maker'[job.id] = "none"
        /\ \A i \in Managed \ {job.id} : maker'[i] = maker[i]
    BY <1>1, <1>2, CoreFacts DEF LibraryTypeOK
  <1>5. LibraryTypeOK'
    BY <1>1, <1>3, <1>4, CoreFacts, FaultCounts DEF LibraryTypeOK, Moved, serverVars
  <1>6. RegisteredOnce' /\ ManifestKept' /\ NoStrayFolder'
    BY <1>1, <1>3, CoreFacts DEF LibraryCore, LockPart, Shelves, RegisteredOnce, Generation, Moved, ManifestKept, serverVars, NoStrayFolder
  <1>7. RegisteredIsThere'
    <2>1. ASSUME ~crashed, NEW i \in Managed, maker'[i] # "none"
          PROVE  \E d \in Threads : libJob'[d].at = "wait" /\ libJob'[d].id = i
      <3>1. PICK d \in Threads : libJob[d].at = "wait" /\ libJob[d].id = i
        BY <1>4, <2>1 DEF LibraryCore, LockPart, Shelves, RegisteredIsThere, Doing
      <3> QED
        BY <1>4, <1>3, <2>1, <3>1 DEF Moved
    <2> QED
      BY <1>1, <2>1 DEF LibraryCore, LockPart, Shelves, RegisteredIsThere, Doing
  <1>9. LockPart'
    BY <1>1, <1>2, <1>3, <1>6, <1>7, LockAlone, RowElsewhere DEF Shelves, LibraryAssumption
  <1>10. DeskPart'
    BY <1>1, <1>3, DeskKept DEF serverVars, DeskPlaces
  <1> QED
    BY <1>5, <1>9, <1>10 DEF LibraryCore

LEMMA CreationAnswersKeeps ==
  ASSUME LibraryAssumption, LibraryCore, NEW c \in Threads, CreationAnswers(c)
  PROVE  LibraryCore'
  <1> DEFINE job == libJob[c]
  <1>1. /\ UNCHANGED <<registry, intent, folder, maker, existing, theirs, serverVars, crashed, libBudget>>
        /\ job.at = "wait" /\ maker[job.id] = "none"
    BY DEF CreationAnswers, KeepRegistry, KeepServer, KeepHistory, Doing, serverVars
  <1>2. OfCreation(job) /\ CreationSound(job)
    BY <1>1, AtCreation DEF OfCreation, CreatePlaces
  <1>3. CASE folder[job.id] \in {"manifest", "whole"}
    <2>1. Moved(c) /\ Kept(c) /\ libJob'[c].at = "register" /\ holder' = holder
      BY <1>3, Turned, CoreFacts DEF CreationAnswers, LibPlaces, LockPlaces
    <2>2. CreationSound(libJob[c])' /\ OfCreation(libJob[c])'
      BY <1>1, <1>2, <1>3, <2>1 DEF CreationSound, OfCreation, Kept, Unregistered, Generation
    <2> QED
      BY <1>1, <1>2, <2>1, <2>2, CreationTurns DEF registryVars
  <1>4. CASE ~(folder[job.id] \in {"manifest", "whole"})
    <2>1. Moved(c) /\ libJob'[c].at = "out" /\ libJob'[c].seen = 0 /\ holder' = Nobody
      BY <1>4, LeftRow, CoreFacts DEF CreationAnswers
    <2>2. LibraryTypeOK'
      BY <1>1, <2>1, CoreFacts DEF LibraryTypeOK, Moved, serverVars
    <2> QED
      BY <1>1, <2>1, <2>2, LetsGo DEF LockPlaces, CreatePlaces
  <1> QED
    BY <1>3, <1>4

(* One more entry, of an investigation, a folder and a key not seen before. *)
LEMMA RegistryGrows ==
  ASSUME LibraryAssumption, LibraryCore, NEW id, NEW key, NEW ref, NEW new \in Entries,
         new.id = id, new.key = key, new.ref = ref, Unregistered(key, id, ref),
         registry' = registry \cup {new}
  PROVE  /\ registry' \subseteq Entries /\ IsFiniteSet(registry') /\ Generation' = Generation + 1
         /\ Generation' <= MaxEntries /\ Generation' \in Nat
         /\ \A e, f \in registry' : e.id = f.id \/ e.key = f.key \/ e.ref = f.ref => e = f
  <1>1. registry \subseteq Entries /\ IsFiniteSet(registry) /\ Generation \in Nat /\ MaxEntries \in Nat
    BY CoreFacts DEF LibraryTypeOK, LibraryAssumption
  <1>2. new \notin registry
    BY DEF Unregistered
  <1>3. IsFiniteSet(registry') /\ Cardinality(registry') = Cardinality(registry) + 1
    BY <1>1, <1>2, FS_AddElement
  <1>4. \A e, f \in registry' : e.id = f.id \/ e.key = f.key \/ e.ref = f.ref => e = f
    BY DEF Unregistered, LibraryCore, LockPart, Shelves, RegisteredOnce
  <1> QED
    BY <1>1, <1>3, <1>4 DEF Generation, Unregistered

LEMMA RegisterManagedKeeps ==
  ASSUME LibraryAssumption, LibraryCore, NEW c \in Threads, RegisterManaged(c)
  PROVE  LibraryCore'
  <1> DEFINE job == libJob[c]
             new == Entry(job.id, job.key, job.what, job.id)
  <1>1. /\ UNCHANGED <<intent, folder, maker, existing, theirs, holder, serverVars, crashed, libBudget>>
        /\ job.at = "register" /\ job.found = Nobody /\ registry' = registry \cup {new}
    BY DEF RegisterManaged, KeepServer, KeepHistory, Doing, serverVars
  <1>2. /\ holder = c /\ job.id \in Managed /\ job.key \in Keys /\ job.what \in Whats
        /\ Unregistered(job.key, job.id, job.id) /\ intent = new /\ folder[job.id] # "absent"
        /\ ~crashed => folder[job.id] \in {"manifest", "whole"}
    BY <1>1, AtCreation DEF OfCreation, CreationSound
  <1>3. Moved(c) /\ Kept(c) /\ libJob'[c].at = "forget"
    BY Turned, CoreFacts DEF RegisterManaged, LibPlaces, LockPlaces, CreatePlaces
  <1>4. new \in Entries /\ new # Nobody /\ new.id = job.id /\ new.key = job.key /\ new.ref = job.id
    BY <1>2, EntryRead DEF Ids
  <1> HIDE DEF new
  <1>5. /\ registry' \subseteq Entries /\ IsFiniteSet(registry') /\ Generation' = Generation + 1
        /\ Generation' <= MaxEntries /\ Generation' \in Nat
        /\ \A e, f \in registry' : e.id = f.id \/ e.key = f.key \/ e.ref = f.ref => e = f
    BY <1>1, <1>2, <1>4, RegistryGrows
  <1>6. LibraryTypeOK'
    BY <1>1, <1>3, <1>5, CoreFacts DEF LibraryTypeOK, Moved, serverVars
  <1>7. RegisteredOnce'
    <2>1. told' <= Generation'
      BY <1>1, <1>5, CoreFacts DEF serverVars, LibraryTypeOK
    <2>2. \A d \in Threads : libJob'[d].seen <= Generation'
      BY <1>3, <1>5, CoreFacts DEF Moved, Kept
    <2> QED
      BY <1>5, <2>1, <2>2 DEF RegisteredOnce
  <1>8. NoStrayFolder' /\ ManifestKept'
    BY <1>1, <1>2, <1>4 DEF LibraryCore, LockPart, Shelves, NoStrayFolder, ManifestKept
  <1>9. RegisteredIsThere'
    BY <1>1, <1>2, <1>3, <1>4 DEF LibraryCore, LockPart, Shelves, RegisteredIsThere, Moved, Doing
  <1>10. LockRow(libJob[c])'
    BY <1>1, <1>2, <1>3, <1>4 DEF LockRow, OfCreation, OfAdoption, CreatePlaces, CreationSound, Kept, new
  <1>11. LockPart'
    BY <1>1, <1>2, <1>3, <1>7, <1>8, <1>9, <1>10, LockAlone DEF Shelves, LockPlaces, CreatePlaces
  <1>12. DeskPart'
    BY <1>1, <1>3, DeskKept DEF serverVars, DeskPlaces
  <1> QED
    BY <1>6, <1>11, <1>12 DEF LibraryCore

LEMMA ClearIntentKeeps ==
  ASSUME LibraryAssumption, LibraryCore, NEW c \in Threads, ClearIntent(c)
  PROVE  LibraryCore'
  <1> DEFINE job == libJob[c]
  <1>1. /\ UNCHANGED <<registry, folder, maker, existing, theirs, serverVars, crashed, libBudget>>
        /\ job.at = "forget" /\ holder' = Nobody /\ intent' = Nobody
    BY DEF ClearIntent, KeepServer, KeepHistory, Doing, serverVars
  <1>2. /\ holder = c /\ intent = Entry(job.id, job.key, job.what, job.id) /\ job.id \in Managed
        /\ job.key \in Keys /\ job.what \in Whats /\ \E e \in registry : e.ref = job.id
    BY <1>1, AtCreation DEF OfCreation, CreatePlaces, CreationSound
  <1>3. Moved(c) /\ libJob'[c].at = "tell" /\ libJob'[c].seen = Generation
    BY AnsweredRow, CoreFacts DEF ClearIntent
  <1>4. intent.id = job.id
    BY <1>2, EntryRead DEF Ids
  <1>5. LibraryTypeOK'
    BY <1>1, <1>3, CoreFacts DEF LibraryTypeOK, Moved, serverVars
  <1>6. RegisteredOnce' /\ ManifestKept' /\ NoStrayFolder'
    BY <1>1, <1>2, <1>3, <1>4, CoreFacts DEF LibraryCore, LockPart, Shelves, RegisteredOnce, Generation, Moved, ManifestKept, serverVars, NoStrayFolder
  <1>7. RegisteredIsThere'
    BY <1>1, <1>3 DEF LibraryCore, LockPart, Shelves, RegisteredIsThere, Moved, Doing
  <1>9. LockPart'
    BY <1>1, <1>2, <1>3, <1>6, <1>7, LockAlone, RowElsewhere DEF Shelves, LibraryAssumption
  <1>10. DeskPart'
    BY <1>1, <1>3, DeskKept DEF serverVars, DeskPlaces
  <1> QED
    BY <1>5, <1>9, <1>10 DEF LibraryCore

-----------------------------------------------------------------------------
(* The command that makes a folder                                          *)

(* Folder i is written on, or the command in it changes: it was running.    *)
LEMMA MakerMoves ==
  ASSUME LibraryAssumption, LibraryCore, NEW i \in Managed, maker[i] # "none",
         NEW f \in Progress \ {"absent"}, NEW m \in {"none", "making", "undoing"}, folder[i] # "absent",
         folder' = [folder EXCEPT ![i] = f], maker' = [maker EXCEPT ![i] = m],
         UNCHANGED <<registry, intent, existing, theirs, holder, libJob, serverVars, crashed>>,
         libBudget' = libBudget \/ LibFault
  PROVE  LibraryCore'
  <1>1. /\ folder' \in [Managed -> Progress] /\ maker' \in [Managed -> {"none", "making", "undoing"}]
        /\ folder'[i] = f /\ \A j \in Managed \ {i} : folder'[j] = folder[j] /\ maker'[j] = maker[j]
    BY CoreFacts DEF LibraryTypeOK
  <1>2. LibraryTypeOK'
    BY <1>1, CoreFacts, FaultCounts DEF LibraryTypeOK, serverVars
  <1>3. RegisteredOnce' /\ ManifestKept'
    BY DEF LibraryCore, LockPart, Shelves, RegisteredOnce, Generation, ManifestKept, serverVars
  <1>4. NoStrayFolder'
    BY <1>1 DEF LibraryCore, LockPart, Shelves, NoStrayFolder
  (* While the server lives, it waits for the command: the folder is not    *)
  (* registered yet.                                                        *)
  <1>5. ASSUME ~crashed
        PROVE  /\ \A e \in registry : e.ref # i
               /\ \A d \in Threads : libJob[d].at = "register" /\ OfCreation(libJob[d]) => libJob[d].id # i
    <2>1. PICK d \in Threads : libJob[d].at = "wait" /\ libJob[d].id = i
      BY <1>5 DEF LibraryCore, LockPart, Shelves, RegisteredIsThere, Doing
    <2>2. holder = d /\ CreationSound(libJob[d])
      BY <2>1, AtCreation DEF OfCreation, CreatePlaces
    <2> QED
      BY <2>1, <2>2, AtCreation DEF CreationSound, Unregistered
  <1>6. RegisteredIsThere'
    BY <1>1, <1>5 DEF LibraryCore, LockPart, Shelves, RegisteredIsThere, Doing
  <1>7. ASSUME NEW d \in Threads
        PROVE  LockRow(libJob[d])'
    BY <1>1, <1>5 DEF LibraryCore, LockPart, LockRow, OfCreation, OfAdoption, CreationSound,
       AdoptionSound, Unregistered, Generation
  <1>8. LockPart'
    BY <1>3, <1>4, <1>6, <1>7 DEF LockPart, Shelves, LibraryCore
  <1>9. DeskPart'
    BY DEF LibraryCore, DeskPart, ActiveIsRoot, DeskRow, OpeningSound, ClosingSound, serverVars
  <1> QED
    BY <1>2, <1>8, <1>9 DEF LibraryCore

LEMMA MakeNextKeeps ==
  ASSUME LibraryAssumption, LibraryCore, NEW i \in Managed, MakeNext(i)
  PROVE  LibraryCore'
  <1> DEFINE m == IF folder[i] = "manifest" THEN "none" ELSE maker[i]
  <1>1. /\ UNCHANGED <<registry, intent, existing, theirs, holder, libJob, serverVars, crashed, libBudget>>
        /\ maker[i] = "making"
    BY DEF MakeNext, serverSide, serverVars, KeepHistory
  <1>2. maker \in [Managed -> {"none", "making", "undoing"}]
    BY CoreFacts DEF LibraryTypeOK
  <1>3. maker' = [maker EXCEPT ![i] = m] /\ m \in {"none", "making", "undoing"}
    BY <1>2 DEF MakeNext
  <1>4. /\ DOMAIN After = {"dir", "base", "manifest"}
        /\ After["dir"] = "base" /\ After["base"] = "manifest" /\ After["manifest"] = "whole"
    BY DEF After
  <1>5. /\ folder[i] \in {"dir", "base", "manifest"} /\ folder' = [folder EXCEPT ![i] = After[folder[i]]]
    BY <1>4 DEF MakeNext
  <1>6. folder[i] # "absent" /\ After[folder[i]] \in Progress \ {"absent"}
    BY <1>4, <1>5 DEF Progress
  <1> QED
    BY <1>1, <1>3, <1>5, <1>6, MakerMoves

LEMMA MakerInFolder ==
  ASSUME LibraryCore, NEW i \in Managed, maker[i] # "none"
  PROVE  folder[i] # "absent"
  BY DEF LibraryCore, LockPart, Shelves, NoStrayFolder

LEMMA MakeFailsKeeps ==
  ASSUME LibraryAssumption, LibraryCore, NEW i \in Managed, MakeFails(i)
  PROVE  LibraryCore'
  <1>1. /\ UNCHANGED <<registry, intent, folder, existing, theirs, holder, libJob, serverVars, crashed>>
        /\ maker[i] = "making" /\ LibFault /\ maker' = [maker EXCEPT ![i] = "undoing"]
    BY DEF MakeFails, serverSide, serverVars
  <1>2. folder[i] \in Progress \ {"absent"} /\ folder' = [folder EXCEPT ![i] = folder[i]]
    BY <1>1, MakerInFolder, CoreFacts DEF LibraryTypeOK
  <1> QED
    BY <1>1, <1>2, MakerMoves

LEMMA MakeUndoKeeps ==
  ASSUME LibraryAssumption, LibraryCore, NEW i \in Managed, MakeUndo(i)
  PROVE  LibraryCore'
  <1>1. /\ UNCHANGED <<registry, intent, existing, theirs, holder, libJob, serverVars, crashed, libBudget>>
        /\ maker[i] = "undoing"
    BY DEF MakeUndo, serverSide, serverVars, KeepHistory
  <1>2. /\ folder[i] \in Progress \ {"absent"} /\ folder = [folder EXCEPT ![i] = folder[i]]
        /\ maker = [maker EXCEPT ![i] = maker[i]]
    BY <1>1, MakerInFolder, CoreFacts DEF LibraryTypeOK
  <1>3. CASE folder[i] = "manifest"
    BY <1>1, <1>2, <1>3, MakerMoves DEF MakeUndo, Progress
  <1>4. CASE folder[i] = "base"
    BY <1>1, <1>2, <1>4, MakerMoves DEF MakeUndo, Progress
  <1>5. CASE folder[i] \notin {"manifest", "base"}
    BY <1>1, <1>2, <1>5, MakerMoves DEF MakeUndo
  <1> QED
    BY <1>3, <1>4, <1>5

-----------------------------------------------------------------------------
(* Discovery and adoption                                                   *)

(* A thread without the lock takes up something else that needs no lock.    *)
LEMMA Unlocked ==
  ASSUME LibraryAssumption, LibraryCore, NEW c \in Threads, Moved(c), LibraryTypeOK',
         libJob[c].at \notin LockPlaces \cup DeskPlaces, libJob'[c].at \notin LockPlaces \cup DeskPlaces,
         LockRow(libJob[c])', libJob'[c].seen <= Generation,
         UNCHANGED <<registryVars, active, root, lifecycle, told, closed, closings, crashed>>
  PROVE  LibraryCore'
  <1>1. LockPart'
    BY LockKept, CoreFacts
  <1>2. DeskPart'
    BY DeskKept DEF registryVars
  <1> QED
    BY <1>1, <1>2 DEF LibraryCore

LEMMA DiscoverLookKeeps ==
  ASSUME LibraryAssumption, LibraryCore, NEW c \in Threads, DiscoverLook(c)
  PROVE  LibraryCore'
  <1> DEFINE seen == [n \in Folders |->
                 [batch |-> libBudget'.searches, version |-> existing[n].version,
                  manifest |-> existing[n].manifest,
                  known |-> \E e \in registry : e.ref = n /\ e.id = OwnId[n]]]
             row == [IdleThread EXCEPT !.at = "swap", !.seen = Generation, !.found = seen]
  <1>1. /\ UNCHANGED <<registryVars, candidates, active, root, lifecycle, told, closed, closings, crashed>>
        /\ libJob[c].at \notin LockPlaces \cup DeskPlaces /\ libJob[c].at = "out"
    BY IdleOut DEF DiscoverLook, KeepServer
  <1>2. /\ libBudget' = [libBudget EXCEPT !.searches = libBudget.searches + 1]
        /\ libBudget.searches < MaxDiscoveries
    BY DEF DiscoverLook
  <1>3. /\ libBudget' \in [faults : 0..MaxLibFaults, searches : 0..MaxDiscoveries, outside : 0..MaxOutside]
        /\ libBudget'.outside = libBudget.outside
    BY <1>2, CoreFacts DEF LibraryTypeOK, LibraryAssumption
  <1>4. seen \in [Folders -> Candidates]
    <2>1. ASSUME NEW n \in Folders
          PROVE  existing[n].version \in Nat /\ existing[n].manifest \in Manifests
      BY CoreFacts DEF LibraryTypeOK
    <2>2. libBudget'.searches \in Nat
      BY <1>3
    <2>3. ASSUME NEW n \in Folders
          PROVE  [batch |-> libBudget'.searches, version |-> existing[n].version,
                  manifest |-> existing[n].manifest,
                  known |-> \E e \in registry : e.ref = n /\ e.id = OwnId[n]] \in Candidates
      <3> DEFINE known == \E e \in registry : e.ref = n /\ e.id = OwnId[n]
      <3>1. known \in BOOLEAN
        BY Zenon
      <3> HIDE DEF known
      <3>2. [batch |-> libBudget'.searches, version |-> existing[n].version,
             manifest |-> existing[n].manifest, known |-> known] \in Candidates
        BY <2>1, <2>2, <3>1 DEF Candidates
      <3> QED
        BY <3>2 DEF known
    <2> QED
      BY <2>3
  <1>5. libJob' = [libJob EXCEPT ![c] = row]
    BY DEF DiscoverLook
  <1> HIDE DEF seen
  <1>6. row \in Jobs /\ row.at = "swap" /\ row.seen = Generation /\ row.found = seen
    BY <1>4, IdleRow, CoreFacts DEF Jobs
  <1> HIDE DEF row
  <1>7. Moved(c) /\ libJob'[c] = row
    BY <1>5, <1>6, RowSeated, CoreFacts
  <1>8. LibraryTypeOK'
    BY <1>1, <1>3, <1>7, CoreFacts DEF LibraryTypeOK, Moved, registryVars
  <1>9. LockRow(libJob[c])'
    BY <1>4, <1>6, <1>7 DEF LockRow, OfCreation, OfAdoption, CreatePlaces
  <1> QED
    BY <1>1, <1>6, <1>7, <1>8, <1>9, Unlocked, CoreFacts DEF LockPlaces, CreatePlaces, DeskPlaces

LEMMA DiscoverSwapKeeps ==
  ASSUME LibraryAssumption, LibraryCore, NEW c \in Threads, DiscoverSwap(c)
  PROVE  LibraryCore'
  <1>1. /\ UNCHANGED <<registryVars, active, root, lifecycle, told, closed, closings, crashed, libBudget>>
        /\ libJob[c].at = "swap" /\ candidates' = libJob[c].found
    BY DEF DiscoverSwap, Doing, KeepHistory
  <1>2. libJob[c].found \in [Folders -> Candidates]
    BY <1>1 DEF LibraryCore, LockPart, LockRow
  <1>3. Moved(c) /\ libJob'[c].at = "tell" /\ libJob'[c].seen = libJob[c].seen
    BY AnsweredRow, CoreFacts DEF DiscoverSwap
  <1>4. candidates' \in [Folders -> {Nobody} \cup Candidates]
    BY <1>1, <1>2
  <1>5. LibraryTypeOK'
    BY <1>1, <1>3, <1>4, CoreFacts DEF LibraryTypeOK, Moved, registryVars
  <1> QED
    BY <1>1, <1>3, <1>5, Unlocked, CoreFacts, RowElsewhere DEF LockPlaces, CreatePlaces, DeskPlaces

LEMMA AdoptTakeKeeps ==
  ASSUME LibraryAssumption, LibraryCore, NEW c \in Threads, NEW n \in Folders, NEW k \in Keys,
         NEW g \in {Generation, told}, AdoptTake(c, n, k, g)
  PROVE  LibraryCore'
  <1> DEFINE row == [at |-> "adopt", key |-> k, what |-> <<n, candidates[n].batch, g>>, id |-> n,
                     seen |-> g, found |-> candidates[n]]
  <1>1. /\ UNCHANGED <<registryVars, candidates, active, root, lifecycle, told, closed, closings, crashed, libBudget>>
        /\ libJob[c].at \notin LockPlaces \cup DeskPlaces /\ libJob[c].at = "out"
        /\ candidates[n] # Nobody
    BY IdleOut DEF AdoptTake, KeepServer, KeepHistory
  <1>2. g \in Nat /\ g <= Generation
    BY CoreFacts DEF LibraryTypeOK
  <1>3. candidates[n] \in Candidates
    BY <1>1, CoreFacts DEF LibraryTypeOK
  <1>4. <<n, candidates[n].batch, g>> \in Whats
    BY <1>2, <1>3 DEF Whats, Candidates
  <1>5. /\ row \in Jobs /\ row.at = "adopt" /\ row.key = k /\ row.what \in Whats /\ row.id = n
        /\ row.seen = g /\ row.found = candidates[n]
    BY <1>2, <1>3, <1>4 DEF Jobs
  <1>6. libJob' = [libJob EXCEPT ![c] = row]
    BY DEF AdoptTake
  <1> HIDE DEF row
  <1>7. Moved(c) /\ libJob'[c] = row
    BY <1>5, <1>6, RowSeated, CoreFacts
  <1>8. LibraryTypeOK'
    BY <1>1, <1>7, CoreFacts DEF LibraryTypeOK, Moved, registryVars
  <1>9. LockRow(libJob[c])'
    BY <1>1, <1>5, <1>7 DEF LockRow, OfCreation, OfAdoption, CreatePlaces, AdoptionSound
  <1> QED
    BY <1>1, <1>2, <1>5, <1>7, <1>8, <1>9, Unlocked DEF LockPlaces, CreatePlaces, DeskPlaces

LEMMA AdoptLookKeeps ==
  ASSUME LibraryAssumption, LibraryCore, NEW c \in Threads, AdoptLook(c)
  PROVE  LibraryCore'
  <1> DEFINE job == libJob[c]
             bound == Bound(job.key)
             replay == bound # {} /\ (\A e \in bound : e.what = job.what)
             place == IF existing[job.id].manifest = "none" THEN "describe" ELSE "register"
  <1>1. /\ UNCHANGED <<registry, intent, folder, maker, existing, theirs, serverVars, crashed, libBudget>>
        /\ job.at = "adopt" /\ holder = Nobody
    BY DEF AdoptLook, Doing, KeepRegistry, KeepServer, KeepHistory, serverVars
  <1>2. AdoptionSound(job) /\ job.at \notin LockPlaces \cup DeskPlaces /\ Nobody \notin Threads
    BY <1>1 DEF LibraryCore, LockPart, LockRow, OfAdoption, LockPlaces, CreatePlaces, DeskPlaces, LibraryAssumption
  <1>3. \/ replay /\ AnswerWith(c, Generation) /\ UNCHANGED holder
        \/ bound = {} /\ Adoptable(c) /\ Turn(c, place) /\ holder' = c
        \/ LeaveWith(c) /\ UNCHANGED holder
    BY DEF AdoptLook
  <1>4. CASE AnswerWith(c, Generation) /\ UNCHANGED holder
    <2>1. Moved(c) /\ libJob'[c].at = "tell" /\ libJob'[c].seen = Generation
      BY <1>4, AnsweredRow, CoreFacts
    <2>2. LibraryTypeOK'
      BY <1>1, <1>4, <2>1, CoreFacts DEF LibraryTypeOK, Moved, serverVars
    <2> QED
      BY <1>1, <1>2, <1>4, <2>1, <2>2, Unlocked, CoreFacts, RowElsewhere
         DEF LockPlaces, CreatePlaces, DeskPlaces, registryVars, serverVars
  <1>5. CASE LeaveWith(c) /\ UNCHANGED holder
    <2>1. Moved(c) /\ libJob'[c].at = "out" /\ libJob'[c].seen = 0
      BY <1>5, LeftRow, CoreFacts
    <2>2. LibraryTypeOK'
      BY <1>1, <1>5, <2>1, CoreFacts DEF LibraryTypeOK, Moved, serverVars
    <2> QED
      BY <1>1, <1>2, <1>5, <2>1, <2>2, Unlocked, CoreFacts, RowElsewhere
         DEF LockPlaces, CreatePlaces, DeskPlaces, registryVars, serverVars
  <1>6. CASE bound = {} /\ Adoptable(c) /\ Turn(c, place) /\ holder' = c
    <2>1. place \in LibPlaces /\ place \in LockPlaces
      BY DEF LibPlaces, LockPlaces
    <2>2. Moved(c) /\ Kept(c) /\ libJob'[c].at = place
      BY <1>6, <2>1, Turned, CoreFacts
    <2>3. LibraryTypeOK'
      BY <1>1, <1>6, <2>2, CoreFacts DEF LibraryTypeOK, Moved, serverVars
    <2>4. Unregistered(job.key, OwnId[job.id], job.id)
      BY <1>6 DEF Bound, Adoptable, Unregistered
    <2>5. AdoptionSound(libJob[c])'
      BY <1>1, <1>2, <2>2, <2>4 DEF AdoptionSound, Kept, Unregistered, Generation
    <2>6. LockRow(libJob[c])'
      BY <1>2, <2>2, <2>5 DEF LockRow, OfCreation, CreatePlaces, Kept, AdoptionSound
    <2>7. Shelves'
      BY <1>1, <2>2, ShelvesKept, CoreFacts DEF serverVars, Kept
    <2>8. LockPart'
      BY <1>1, <1>6, <2>1, <2>2, <2>6, <2>7, LockAlone
    <2>9. DeskPart'
      BY <1>1, <1>2, <2>2, DeskKept DEF serverVars, DeskPlaces
    <2> QED
      BY <2>3, <2>8, <2>9 DEF LibraryCore
  <1> QED
    BY <1>3, <1>4, <1>5, <1>6

LEMMA AtAdoption ==
  ASSUME LibraryCore, NEW c \in Threads, OfAdoption(libJob[c]), libJob[c].at # "adopt"
  PROVE  /\ holder = c /\ libJob[c].at \in LockPlaces /\ libJob[c].at \notin DeskPlaces
         /\ AdoptionSound(libJob[c]) /\ libJob[c].id \in Folders
         /\ Unregistered(libJob[c].key, OwnId[libJob[c].id], libJob[c].id)
  <1>1. libJob[c].at \in LockPlaces
    BY DEF OfAdoption, LockPlaces
  <1> QED
    BY <1>1, AtLock DEF LockRow, AdoptionSound

LEMMA WriteManifestKeeps ==
  ASSUME LibraryAssumption, LibraryCore, NEW c \in Threads, WriteManifest(c)
  PROVE  LibraryCore'
  <1> DEFINE job == libJob[c]
             n == job.id
  <1>1. /\ UNCHANGED <<registry, intent, folder, maker, theirs, serverVars, crashed, libBudget>>
        /\ job.at = "describe"
    BY DEF WriteManifest, Doing, KeepServer, KeepHistory, serverVars
  <1>2. /\ holder = c /\ AdoptionSound(job) /\ n \in Folders
        /\ Unregistered(job.key, OwnId[n], n)
    BY <1>1, AtAdoption DEF OfAdoption
  <1>3. CASE existing[n].manifest = "none"
    <2> DEFINE row == [existing[n] EXCEPT !.manifest = "ours"]
    <2>1. existing' = [existing EXCEPT ![n] = row] /\ holder' = holder
      BY <1>3 DEF WriteManifest
    <2>2. existing \in [Folders -> [version : 0..libBudget.outside, manifest : Manifests]]
      BY CoreFacts DEF LibraryTypeOK
    <2>3. row \in [version : 0..libBudget.outside, manifest : Manifests] /\ row.manifest = "ours"
      BY <1>2, <2>2 DEF Manifests
    <2> HIDE DEF row
    <2>4. /\ existing' \in [Folders -> [version : 0..libBudget.outside, manifest : Manifests]]
          /\ existing'[n].manifest = "ours" /\ \A x \in Folders \ {n} : existing'[x] = existing[x]
      BY <1>2, <2>1, <2>2, <2>3
    <2>5. Moved(c) /\ Kept(c) /\ libJob'[c].at = "register"
      BY <1>3, Turned, CoreFacts DEF WriteManifest, LibPlaces, LockPlaces
    <2>6. LibraryTypeOK'
      BY <1>1, <2>1, <2>4, <2>5, CoreFacts DEF LibraryTypeOK, Moved, serverVars
    <2>7. RegisteredOnce' /\ NoStrayFolder'
      BY <1>1, <2>5, CoreFacts DEF LibraryCore, LockPart, Shelves, RegisteredOnce, Generation, Moved, Kept, serverVars, NoStrayFolder
    <2>8. ManifestKept'
      <3>1. ASSUME NEW x \in theirs
            PROVE  x \in Folders \ {n} /\ existing[x].manifest = "theirs"
        BY <1>3, CoreFacts DEF LibraryCore, LockPart, Shelves, ManifestKept, LibraryTypeOK
      <3>2. \A x \in theirs : existing'[x].manifest = "theirs"
        BY <2>4, <3>1
      <3> QED
        BY <1>1, <3>2 DEF ManifestKept
    <2>9. RegisteredIsThere'
      <3>1. ASSUME NEW e \in registry, existing[e.ref].manifest # "none", e.ref \in Folders
            PROVE  existing'[e.ref].manifest # "none"
        BY <2>4, <3>1
      <3> QED
        BY <1>1, <2>5, <3>1 DEF LibraryCore, LockPart, Shelves, RegisteredIsThere, Moved, Doing
    <2>10. AdoptionSound(libJob[c])'
      BY <1>1, <1>2, <2>4, <2>5 DEF AdoptionSound, Kept, Unregistered, Generation
    <2>11. LockRow(libJob[c])'
      BY <1>2, <2>5, <2>10 DEF LockRow, OfCreation, CreatePlaces, Kept, AdoptionSound
    <2>12. LockPart'
      BY <1>2, <2>1, <2>5, <2>7, <2>8, <2>9, <2>11, LockAlone DEF Shelves, LockPlaces
    <2>13. DeskPart'
      BY <1>1, <2>5, DeskKept DEF serverVars, DeskPlaces
    <2> QED
      BY <2>6, <2>12, <2>13 DEF LibraryCore
  <1>4. CASE existing[n].manifest # "none"
    <2>1. UNCHANGED existing /\ holder' = Nobody /\ LeaveWith(c)
      BY <1>4 DEF WriteManifest
    <2>2. Moved(c) /\ libJob'[c].at = "out" /\ libJob'[c].seen = 0
      BY <2>1, LeftRow, CoreFacts
    <2>3. LibraryTypeOK'
      BY <1>1, <2>1, <2>2, CoreFacts DEF LibraryTypeOK, Moved, serverVars
    <2> QED
      BY <1>1, <2>1, <2>2, <2>3, LetsGo DEF LockPlaces
  <1> QED
    BY <1>3, <1>4

LEMMA RegisterExistingKeeps ==
  ASSUME LibraryAssumption, LibraryCore, NEW c \in Threads, RegisterExisting(c)
  PROVE  LibraryCore'
  <1> DEFINE job == libJob[c]
             n == job.id
             new == Entry(OwnId[n], job.key, job.what, n)
  <1>1. /\ UNCHANGED <<intent, folder, maker, existing, theirs, serverVars, crashed, libBudget>>
        /\ job.at = "register" /\ job.found # Nobody /\ registry' = registry \cup {new}
        /\ holder' = Nobody
    BY DEF RegisterExisting, KeepServer, KeepHistory, Doing, serverVars
  <1>2. /\ holder = c /\ n \in Folders /\ job.key \in Keys /\ job.what \in Whats
        /\ Unregistered(job.key, OwnId[n], n) /\ existing[n].manifest # "none"
    BY <1>1, AtAdoption DEF OfAdoption, AdoptionSound
  <1>3. Moved(c) /\ libJob'[c].at = "tell" /\ libJob'[c].seen = Generation + 1
    BY AnsweredRow, CoreFacts DEF RegisterExisting
  <1>4. OwnId[n] \in Ids
    BY <1>2 DEF Ids
  <1>5. new \in Entries /\ new # Nobody /\ new.id = OwnId[n] /\ new.key = job.key /\ new.ref = n
    BY <1>2, <1>4, EntryRead
  <1> HIDE DEF new
  <1>6. /\ registry' \subseteq Entries /\ IsFiniteSet(registry') /\ Generation' = Generation + 1
        /\ Generation' <= MaxEntries /\ Generation' \in Nat
        /\ \A e, f \in registry' : e.id = f.id \/ e.key = f.key \/ e.ref = f.ref => e = f
    BY <1>1, <1>2, <1>5, RegistryGrows
  <1>7. LibraryTypeOK'
    BY <1>1, <1>3, <1>6, CoreFacts DEF LibraryTypeOK, Moved, serverVars
  <1>8. RegisteredOnce'
    <2>1. told' <= Generation'
      BY <1>1, <1>6, CoreFacts DEF serverVars, LibraryTypeOK
    <2>2. \A d \in Threads : libJob'[d].seen <= Generation'
      BY <1>3, <1>6, CoreFacts DEF Moved
    <2> QED
      BY <1>6, <2>1, <2>2 DEF RegisteredOnce
  (* The identifier cannot be the intention's; the key may be.              *)
  <1>9. NoStrayFolder' /\ ManifestKept'
    <2>1. new.id \notin Managed /\ new.ref \in Folders
      BY <1>2, <1>5 DEF LibraryAssumption
    <2> QED
      BY <1>1, <2>1 DEF LibraryCore, LockPart, Shelves, NoStrayFolder, ManifestKept
  <1>10. RegisteredIsThere'
    <2>1. new.ref \notin Managed
      BY <1>2, <1>5 DEF LibraryAssumption
    <2> QED
      BY <1>1, <1>2, <1>3, <1>5, <2>1 DEF LibraryCore, LockPart, Shelves, RegisteredIsThere, Moved, Doing
  <1>11. LockPart'
    BY <1>1, <1>2, <1>3, <1>8, <1>9, <1>10, LockAlone, RowElsewhere DEF Shelves, LibraryAssumption
  <1>12. DeskPart'
    BY <1>1, <1>3, DeskKept DEF serverVars, DeskPlaces
  <1> QED
    BY <1>7, <1>11, <1>12 DEF LibraryCore

-----------------------------------------------------------------------------
(* Failures and others                                                      *)
LEMMA CallFailsKeeps ==
  ASSUME LibraryAssumption, LibraryCore, NEW c \in Threads, CallFails(c)
  PROVE  LibraryCore'
  <1>1. /\ UNCHANGED <<registry, intent, folder, maker, existing, theirs, candidates, active, root,
                       told, closed, closings, crashed>>
        /\ LibFault
        /\ holder' = IF holder = c THEN Nobody ELSE holder
        /\ lifecycle' = IF lifecycle = c THEN Nobody ELSE lifecycle
    BY DEF CallFails, KeepRegistry
  <1>2. Moved(c) /\ libJob'[c].at = "out" /\ libJob'[c].seen = 0
    BY LeftRow, CoreFacts DEF CallFails
  <1>3. LibraryTypeOK'
    BY <1>1, <1>2, CoreFacts, FaultCounts DEF LibraryTypeOK, Moved
  <1>4. CASE libJob[c].at \in LockPlaces \ {"wait"}
    <2>1. holder' = Nobody /\ lifecycle' = lifecycle
      BY <1>1, <1>4, AtLock
    <2> QED
      BY <1>1, <1>2, <1>3, <1>4, <2>1, LetsGo DEF serverVars
  <1>5. CASE libJob[c].at \in {"export", "cancel"}
    <2>1. lifecycle = c /\ libJob[c].at \notin LockPlaces /\ DeskRow(libJob[c]) /\ holder # c
      BY <1>5, AtDesk DEF DeskPlaces
    <2>2. lifecycle' = Nobody /\ holder' = holder
      BY <1>1, <2>1
    <2>3. LockPart'
      BY <1>1, <1>2, <2>1, <2>2, LockKept, RowElsewhere, CoreFacts DEF registryVars
    <2>4. ActiveIsRoot'
      BY <1>1, <1>5, <2>1 DEF DeskRow, OpeningSound, ClosingSound, LibraryCore, DeskPart, ActiveIsRoot
    <2>5. DeskPart'
      BY <1>2, <2>1, <2>2, <2>4, DeskAlone, RowOffDesk DEF DeskPlaces, LibraryAssumption
    <2> QED
      BY <1>3, <2>3, <2>5 DEF LibraryCore
  <1> QED
    BY <1>4, <1>5 DEF CallFails, LockPlaces, CreatePlaces

LEMMA ServerDiesKeeps ==
  ASSUME LibraryAssumption, LibraryCore, ServerDies
  PROVE  LibraryCore'
  <1>1. /\ UNCHANGED <<registry, intent, folder, maker, existing, theirs>> /\ LibFault /\ crashed' = TRUE
        /\ libJob' = [c \in Threads |-> IdleThread] /\ candidates' = [n \in Folders |-> Nobody]
        /\ holder' = Nobody /\ lifecycle' = Nobody /\ active' = Nobody /\ root' = Nobody /\ told' = 0
        /\ closed' = [k \in CloseKeys |-> Nobody] /\ closings' = [k \in CloseKeys |-> 0]
    BY DEF ServerDies, KeepRegistry, Unoffered
  <1>2. libJob' \in [Threads -> Jobs] /\ \A c \in Threads : libJob'[c] = IdleThread
    BY <1>1, IdleRow
  <1>3. LibraryTypeOK'
    BY <1>1, <1>2, CoreFacts, FaultCounts DEF LibraryTypeOK
  <1>4. Shelves'
    BY <1>1, <1>2, IdleRow, CoreFacts DEF LibraryCore, LockPart, Shelves, RegisteredOnce, Generation,
       NoStrayFolder, ManifestKept, RegisteredIsThere
  <1>5. ASSUME NEW c \in Threads
        PROVE  ((holder = c <=> libJob[c].at \in LockPlaces) /\ LockRow(libJob[c])
                /\ (lifecycle = c <=> libJob[c].at \in DeskPlaces) /\ DeskRow(libJob[c]))'
    <2>1. libJob'[c].at = "out" /\ holder' # c /\ lifecycle' # c
      BY <1>1, <1>2, IdleRow DEF LibraryAssumption
    <2>2. libJob'[c].at \notin DeskPlaces
      BY <2>1 DEF DeskPlaces
    <2> QED
      BY <2>1, <2>2, RowElsewhere, RowOffDesk
  <1>6. ActiveIsRoot'
    BY <1>1 DEF ActiveIsRoot
  <1> QED
    BY <1>3, <1>4, <1>5, <1>6 DEF LibraryCore, LockPart, DeskPart

LEMMA ChangeFolderKeeps ==
  ASSUME LibraryAssumption, LibraryCore, NEW n \in Folders, ChangeFolder(n)
  PROVE  LibraryCore'
  <1> DEFINE Rows(b) == [version : 0..b, manifest : Manifests]
             newer == [existing[n] EXCEPT !.version = existing[n].version + 1]
             other == [existing[n] EXCEPT !.manifest = "theirs"]
  <1>1. /\ UNCHANGED <<registry, intent, folder, maker, holder, libJob, serverVars, crashed>>
        /\ libBudget.outside < MaxOutside
        /\ libBudget' = [libBudget EXCEPT !.outside = libBudget.outside + 1]
    BY DEF ChangeFolder, serverSide, serverVars
  <1>2. /\ libBudget' \in [faults : 0..MaxLibFaults, searches : 0..MaxDiscoveries, outside : 0..MaxOutside]
        /\ libBudget'.outside = libBudget.outside + 1 /\ libBudget.outside \in Nat
    <2>1. MaxOutside \in Nat
      BY DEF LibraryAssumption
    <2>2. libBudget \in [faults : 0..MaxLibFaults, searches : 0..MaxDiscoveries, outside : 0..MaxOutside]
      BY CoreFacts DEF LibraryTypeOK
    <2> QED
      BY <1>1, <2>1, <2>2
  <1>3. existing \in [Folders -> Rows(libBudget.outside)]
    BY CoreFacts DEF LibraryTypeOK
  <1>4. /\ newer \in Rows(libBudget'.outside) /\ newer.manifest = existing[n].manifest
        /\ other \in Rows(libBudget'.outside) /\ other.manifest = "theirs"
    BY <1>2, <1>3 DEF Manifests
  <1>5. existing \in [Folders -> Rows(libBudget'.outside)]
    BY <1>2, <1>3
  <1>6. \/ existing' = [existing EXCEPT ![n] = newer] /\ theirs' = theirs
        \/ existing[n].manifest = "none" /\ existing' = [existing EXCEPT ![n] = other]
           /\ theirs' = theirs \cup {n}
    BY DEF ChangeFolder
  <1> HIDE DEF newer, other
  <1>7. /\ existing' \in [Folders -> Rows(libBudget'.outside)] /\ theirs' \subseteq theirs \cup {n}
        /\ n \in theirs' /\ n \notin theirs => existing'[n].manifest = "theirs"
        /\ \A x \in Folders \ {n} : existing'[x] = existing[x]
        /\ existing'[n].manifest = existing[n].manifest
           \/ (existing[n].manifest = "none" /\ existing'[n].manifest = "theirs")
    <2>1. CASE existing' = [existing EXCEPT ![n] = newer] /\ theirs' = theirs
      BY <1>4, <1>5, <2>1
    <2>2. CASE /\ existing[n].manifest = "none" /\ existing' = [existing EXCEPT ![n] = other]
               /\ theirs' = theirs \cup {n}
      BY <1>4, <1>5, <2>2
    <2> QED
      BY <1>6, <2>1, <2>2
  <1>8. LibraryTypeOK'
    BY <1>1, <1>2, <1>7, CoreFacts DEF LibraryTypeOK, serverVars
  <1>9. RegisteredOnce' /\ NoStrayFolder'
    BY <1>1 DEF LibraryCore, LockPart, Shelves, RegisteredOnce, NoStrayFolder, Generation, serverVars
  <1>10. ManifestKept'
    BY <1>7, CoreFacts DEF LibraryCore, LockPart, Shelves, ManifestKept, LibraryTypeOK
  <1>11. \A x \in Folders : existing[x].manifest # "none" => existing'[x].manifest # "none"
    BY <1>7
  <1>12. RegisteredIsThere'
    BY <1>1, <1>11 DEF LibraryCore, LockPart, Shelves, RegisteredIsThere, Doing
  <1>13. ASSUME NEW c \in Threads
         PROVE  LockRow(libJob[c])'
    BY <1>1, <1>11 DEF LibraryCore, LockPart, LockRow, OfCreation, OfAdoption, CreationSound,
       AdoptionSound, Unregistered, Generation
  <1>14. LockPart'
    BY <1>1, <1>9, <1>10, <1>12, <1>13 DEF LockPart, Shelves, LibraryCore
  <1>15. DeskPart'
    BY <1>1 DEF LibraryCore, DeskPart, ActiveIsRoot, DeskRow, OpeningSound, ClosingSound, serverVars
  <1> QED
    BY <1>8, <1>14, <1>15 DEF LibraryCore

LEMMA LibraryStarts == LibraryAssumption /\ LibraryInit => LibraryCore
  <1> SUFFICES ASSUME LibraryAssumption, LibraryInit
               PROVE  LibraryCore
    OBVIOUS
  <1>1. IsFiniteSet(registry) /\ Generation = 0
    BY FS_EmptySet DEF LibraryInit, Generation
  <1>2. libJob \in [Threads -> Jobs] /\ \A c \in Threads : libJob[c] = IdleThread
    BY IdleRow DEF LibraryInit
  <1>3. libBudget \in [faults : 0..MaxLibFaults, searches : 0..MaxDiscoveries, outside : 0..MaxOutside]
    BY DEF LibraryInit, LibraryAssumption
  <1>4. existing \in [Folders -> [version : 0..libBudget.outside, manifest : Manifests]]
    BY DEF LibraryInit, Manifests
  <1>5. LibraryTypeOK
    <2>1. registry \subseteq Entries /\ IsFiniteSet(registry) /\ intent \in {Nobody} \cup Entries
      BY <1>1 DEF LibraryInit
    <2>2. folder \in [Managed -> Progress] /\ maker \in [Managed -> {"none", "making", "undoing"}]
      BY DEF LibraryInit, Progress
    <2>3. {holder, lifecycle} \subseteq Threads \cup {Nobody} /\ theirs \subseteq Folders
      BY DEF LibraryInit
    <2>4. candidates \in [Folders -> {Nobody} \cup Candidates]
      BY DEF LibraryInit, Unoffered
    <2>5. {active, root} \subseteq {Nobody} \cup Ids /\ told \in Nat /\ crashed \in BOOLEAN
      BY DEF LibraryInit
    <2>6. closed \in [CloseKeys -> {Nobody} \cup (Ids \X Nat)] /\ closings \in [CloseKeys -> 0..1]
      BY DEF LibraryInit
    <2> QED
      BY <1>2, <1>3, <1>4, <2>1, <2>2, <2>3, <2>4, <2>5, <2>6 DEF LibraryTypeOK
  <1>6. Shelves
    BY <1>1, <1>2, IdleRow DEF LibraryInit, Shelves, RegisteredOnce, NoStrayFolder, ManifestKept,
       RegisteredIsThere, LibraryAssumption
  <1>7. ASSUME NEW c \in Threads
        PROVE  /\ (holder = c <=> libJob[c].at \in LockPlaces) /\ LockRow(libJob[c])
               /\ (lifecycle = c <=> libJob[c].at \in DeskPlaces) /\ DeskRow(libJob[c])
    BY <1>2, IdleRow DEF LibraryInit, LockPlaces, CreatePlaces, DeskPlaces, LockRow, DeskRow,
       OfCreation, OfAdoption, LibraryAssumption
  <1>8. ActiveIsRoot
    BY DEF LibraryInit, ActiveIsRoot
  <1> QED
    BY <1>5, <1>6, <1>7, <1>8 DEF LibraryCore, LockPart, DeskPart

LEMMA LibraryKeeps ==
  ASSUME LibraryAssumption, LibraryCore, [LibraryNext]_libraryVars
  PROVE  LibraryCore'
  <1>1. ASSUME NEW c \in Threads, Creates(c)
        PROVE  LibraryCore'
    BY <1>1, CreateLookKeeps, WriteIntentKeeps, LookFolderKeeps, StartMakerKeeps, MakerRefusesKeeps,
       CreationRefusedKeeps, CreationTimesOutKeeps, CreationAnswersKeeps, RegisterManagedKeeps,
       ClearIntentKeeps, TellKeeps, ListKeeps DEF Creates
  <1>2. ASSUME NEW c \in Threads, Adopts(c)
        PROVE  LibraryCore'
    BY <1>2, DiscoverLookKeeps, DiscoverSwapKeeps, AdoptTakeKeeps, AdoptLookKeeps,
       WriteManifestKeeps, RegisterExistingKeeps DEF Adopts
  <1>3. ASSUME NEW c \in Threads, OpensCloses(c)
        PROVE  LibraryCore'
    BY <1>3, OpenLookKeeps, OpenExportKeeps, OpenRootKeeps, OpenActiveKeeps, CloseLookKeeps,
       CloseActiveKeeps, CloseRootKeeps DEF OpensCloses
  <1>4. CASE UNCHANGED libraryVars
    BY <1>4 DEF libraryVars, registryVars, serverSide, LibraryCore, LockPart, DeskPart, LibraryTypeOK, Shelves,
       RegisteredOnce, NoStrayFolder, RegisteredIsThere, ManifestKept, ActiveIsRoot, LockRow, DeskRow,
       OfCreation, OfAdoption, CreationSound, AdoptionSound, OpeningSound, ClosingSound, Unregistered,
       Generation, Doing
  <1> QED
    BY <1>1, <1>2, <1>3, <1>4, CallFailsKeeps, MakeNextKeeps, MakeFailsKeeps, MakeUndoKeeps,
       ServerDiesKeeps, ChangeFolderKeeps DEF LibraryNext

(* The library agrees with its folders and with the server over crashes,    *)
(* time-outs, commands that outlive their caller and changes by others.     *)
THEOREM LibrarySound == LibrarySpec => []LibraryIInv
  <1>1. LibraryInit => LibraryIInv
    BY LibraryStarts, LibraryAssumption, CoreIsLibrary
  <1>2. LibraryIInv <=> LibraryCore
    BY CoreIsLibrary
  <1>3. LibraryIInv' <=> LibraryCore'
    BY CoreIsLibrary, PTL
  <1>4. LibraryIInv /\ [LibraryNext]_libraryVars => LibraryIInv'
    BY <1>2, <1>3, LibraryKeeps, LibraryAssumption
  <1> QED
    BY <1>1, <1>4, PTL DEF LibrarySpec
=============================================================================
