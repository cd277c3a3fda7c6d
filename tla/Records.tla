------------------------------- MODULE Records ------------------------------
(* The records of one investigation and the services that write them: the  *)
(* review of observations, the e-mail pivot, relations and their types,    *)
(* persons, the DNS integration and the drop of an extraction.  A service  *)
(* begins a transaction that takes the write lock, changes a private copy   *)
(* statement by statement, and commits; a refusal, a busy database or a     *)
(* crash takes everything back.  An entity is known by its type and value.  *)
EXTENDS Naturals, FiniteSets

CONSTANTS
  Conns,         \* connections: the desktop, the command line, ...
  Evidence,      \* imported evidence
  Dropped,       \* extraction files, evidence once dropped on the graph
  Entities,
  Observations,
  EvidenceOf,    \* the evidence of an observation
  Extracted,     \* the entity its normalised value stands for
  Pairs,         \* directed pairs of entities that may be related
  Types,         \* relation types
  Ops,           \* identifiers of review operations
  MaxCommits,    \* bound: committed calls
  Manual, None

ASSUME RecordsAssumption ==
  /\ EvidenceOf \in [Observations -> Evidence]
  /\ Extracted \in [Observations -> Entities]
  /\ Pairs \subseteq {p \in Entities \X Entities : p[1] # p[2]}
  /\ Manual \notin Observations /\ None \notin Entities \cup Observations
  /\ MaxCommits \in Nat

VARIABLES
  db,       \* the committed tables
  conn,     \* each connection: its transaction, private tables, and call
  commits   \* how many calls were committed

vars == <<db, conn, commits>>

NoRow == [known |-> FALSE, corrected |-> None, entity |-> None]

RecordsInit ==
  /\ db = [evid |-> Evidence, ents |-> {}, links |-> {}, sources |-> {},
           obs |-> [o \in Observations |-> NoRow],
           types |-> Types, rels |-> {}, relev |-> {}, journal |-> {}]
  /\ conn = [c \in Conns |-> [tx |-> FALSE, call |-> "none", work |-> None, about |-> None]]
  /\ commits = 0

-----------------------------------------------------------------------------
(* Statements.  Each gives the set of tables it can leave: empty when the   *)
(* service or a constraint of the schema refuses it.                       *)

If(ok, t) == IF ok THEN {t} ELSE {}

EvidenceKnown(t, v) == v \in t.evid
EntityKnown(t, n)   == n \in t.ents
EntityRows(t)       == t.ents
RelationRows(t)     == t.rels

InsertEvidence(t, f) == If(~EvidenceKnown(t, f), [t EXCEPT !.evid = @ \cup {f}])
InsertEntity(t, n)   == If(~EntityKnown(t, n), [t EXCEPT !.ents = @ \cup {n}])

Sources(t, v, n) == {s \in t.sources : s[1] = v /\ s[2] = n}

AddSource(t, v, n, kind) ==
  If(EvidenceKnown(t, v) /\ EntityKnown(t, n),
     [t EXCEPT !.links = @ \cup {<<v, n>>}, !.sources = @ \cup {<<v, n, kind>>}])

LinkEvidence(t, v, n) == AddSource(t, v, n, Manual)

(* Fault: the link goes with any of its sources.                           *)
RemoveSourceAndLink(t, v, n, kind) ==
  [t EXCEPT !.sources = @ \ Sources(t, v, n), !.links = @ \ {<<v, n>>}]

(* The link goes with its last source.                                     *)
RemoveSource(t, v, n, kind) ==
  [t EXCEPT !.sources = @ \ {<<v, n, kind>>},
            !.links = IF Sources(t, v, n) \subseteq {<<v, n, kind>>}
                      THEN @ \ {<<v, n>>} ELSE @]

Observed(t, o, row) == [t EXCEPT !.obs = [@ EXCEPT ![o] = row]]
Promote(t, o, n)    == Observed(t, o, [t.obs[o] EXCEPT !.entity = n])

UsesOf(t, n) ==
  {o \in Observations : t.obs[o].entity = n} \cup {l \in t.links : l[2] = n}
    \cup {r \in t.rels : n \in {r[1][1], r[1][2]}}

(* Links and relations restrict the deletion of an entity, an observation  *)
(* lets it go.                                                             *)
DeleteEntity(t, n) ==
  If((\A l \in t.links : l[2] # n) /\ (\A r \in t.rels : n \notin {r[1][1], r[1][2]}),
     [t EXCEPT !.ents = @ \ {n},
        !.obs = [o \in Observations |->
                   IF @[o].entity = n THEN [@[o] EXCEPT !.entity = None] ELSE @[o]]])

Related(t, r)  == r \in t.rels
EndsKnown(t, r) == EntityKnown(t, r[1][1]) /\ EntityKnown(t, r[1][2])

InsertRelation(t, r) ==
  If(EndsKnown(t, r) /\ r[2] \in t.types /\ ~Related(t, r),
     [t EXCEPT !.rels = @ \cup {r}])

ProvenBy(t, r, v) == <<r, v>> \in t.relev

LinkRelation(t, r, v) ==
  If(Related(t, r) /\ EvidenceKnown(t, v) /\ ~ProvenBy(t, r, v),
     [t EXCEPT !.relev = @ \cup {<<r, v>>}])

UnlinkRelation(t, r, v) ==
  If(ProvenBy(t, r, v), [t EXCEPT !.relev = @ \ {<<r, v>>}])

(* Its links to evidence go with a relation.                               *)
DeleteRelation(t, r) ==
  If(Related(t, r), [t EXCEPT !.rels = @ \ {r}, !.relev = {x \in @ : x[1] # r}])

InsertType(t, y) == If(y \notin t.types, [t EXCEPT !.types = @ \cup {y}])

InUse(t, y) == \E r \in t.rels : r[2] = y

DeleteType(t, y) == If(y \in t.types /\ ~InUse(t, y), [t EXCEPT !.types = @ \ {y}])

-----------------------------------------------------------------------------
(* Transactions *)

Locked == \E c \in Conns : conn[c].tx

(* database_transaction_begin: refused inside a transaction, and while any *)
(* other connection holds the write lock.                                  *)
Begin(c) == ~conn[c].tx /\ ~Locked /\ commits < MaxCommits

Idle(c) == conn[c].call = "none"

(* The first statements of a call, or further ones of the same call.       *)
Opens(c, call, about, outcomes) ==
  /\ Begin(c) /\ IF call = "dns" THEN conn[c].call = "seen" ELSE Idle(c)
  /\ \E t \in outcomes :
       conn' = [conn EXCEPT ![c] = [tx |-> TRUE, call |-> call, work |-> t, about |-> about]]
  /\ UNCHANGED <<db, commits>>

Continues(c, call, outcomes) ==
  /\ conn[c].tx /\ conn[c].call = call
  /\ \E t \in outcomes : conn' = [conn EXCEPT ![c] = [@ EXCEPT !.work = t]]
  /\ UNCHANGED <<db, commits>>

Leave(c, open) ==
  conn' = [conn EXCEPT ![c] = [tx |-> open, call |-> "none", about |-> None,
                               work |-> IF open THEN @.work ELSE None]]

Commit(c) ==
  /\ conn[c].tx /\ ~Idle(c)
  /\ db' = conn[c].work /\ commits' = commits + 1
  /\ Leave(c, FALSE)

(* A refused statement, a COMMIT that meets a reader: every service rolls  *)
(* back, save that the two drop services return from a failed COMMIT       *)
(* without it and leave the transaction open.                              *)
Fail(c) ==
  /\ conn[c].tx /\ ~Idle(c)
  /\ UNCHANGED <<db, commits>>
  /\ \/ Leave(c, FALSE)
     \/ conn[c].call = "drop" /\ Leave(c, TRUE)

(* A statement outside of any service commits by itself, or falls into the *)
(* transaction its connection was left with.                               *)
View(c) == IF conn[c].tx THEN conn[c].work ELSE db

Statement(c, outcomes) ==
  /\ Idle(c)
  /\ IF conn[c].tx
     THEN /\ \E t \in outcomes : conn' = [conn EXCEPT ![c] = [@ EXCEPT !.work = t]]
          /\ UNCHANGED <<db, commits>>
     ELSE Begin(c) /\ db' \in outcomes /\ commits' = commits + 1 /\ UNCHANGED conn

(* The connection is closed or its process ends.                           *)
Close(c) ==
  (conn[c].tx \/ ~Idle(c)) /\ UNCHANGED <<db, commits>> /\ Leave(c, FALSE)

-----------------------------------------------------------------------------
(* observation_review_service_apply *)

Entries(t, o)  == {j \in t.journal : j.obs = o}
Revision(t, o) == Cardinality(Entries(t, o))

(* The human correction comes before the normalised value.                 *)
ValueOf(t, o) ==
  IF t.obs[o].corrected = None THEN Extracted[o] ELSE t.obs[o].corrected

Attach(t, o, n) ==
  If(<<EvidenceOf[o], n, o>> \notin t.sources,
     Promote([t EXCEPT !.links = @ \cup {<<EvidenceOf[o], n>>},
                       !.sources = @ \cup {<<EvidenceOf[o], n, o>>}], o, n))

Decided(t, o)      == {t}
Corrected(t, o, n) == {Observed(t, o, [t.obs[o] EXCEPT !.corrected = n])}

PromoteCreate(t, o) ==
  IF t.obs[o].entity # None THEN {} ELSE
  UNION {Attach(u, o, ValueOf(t, o)) : u \in InsertEntity(t, ValueOf(t, o))}

PromoteAttach(t, o) ==
  IF t.obs[o].entity # None \/ ValueOf(t, o) \notin t.ents THEN {}
  ELSE Attach(t, o, ValueOf(t, o))

(* Fault: the link is deleted without a look at its other sources.         *)
WithdrawLink(t, o) ==
  If(t.obs[o].entity # None,
     Promote(RemoveSourceAndLink(t, EvidenceOf[o], t.obs[o].entity, o), o, None))

Withdraw(t, o) ==
  If(t.obs[o].entity # None,
     Promote(RemoveSource(t, EvidenceOf[o], t.obs[o].entity, o), o, None))

Mutations(t, o) ==
  Decided(t, o) \cup (UNION {Corrected(t, o, n) : n \in Entities})
    \cup PromoteCreate(t, o) \cup PromoteAttach(t, o) \cup Withdraw(t, o)

(* The expected revision is compared inside the transaction; an operation  *)
(* already in the journal is answered from it and changes nothing.         *)
Review(c, op, o, expected) ==
  /\ db.obs[o].known
  /\ \A j \in db.journal : j.op # op
  /\ expected = Revision(db, o)
  /\ Opens(c, "review", o,
       {[t EXCEPT !.journal = @ \cup {[op |-> op, obs |-> o, rev |-> expected + 1]}] :
          t \in Mutations(db, o)})

-----------------------------------------------------------------------------
(* eml_integration_apply and its withdrawal *)

(* The observation is found again when it is known; its promotion goes to   *)
(* the entity of the proposal, unless it is promoted to another.           *)
Propose(t, o, promote) ==
  LET known == Observed(t, o, [t.obs[o] EXCEPT !.known = TRUE])
      n     == Extracted[o]
      found == [known EXCEPT !.ents = @ \cup {n}]
  IN IF ~promote THEN {known}
     ELSE {IF u.obs[o].entity \in {None, n} THEN Promote(u, o, n) ELSE u :
             u \in AddSource(found, EvidenceOf[o], n, o)}

Integrate(c, o, promote) ==
  \/ Opens(c, "integrate", o, Propose(db, o, promote))
  \/ /\ conn[c].call = "integrate" /\ EvidenceOf[conn[c].about] = EvidenceOf[o]
     /\ Continues(c, "integrate", Propose(conn[c].work, o, promote))

RemovePromotion(c, o) ==
  LET n   == db.obs[o].entity
      cut == RemoveSource(Promote(db, o, None), EvidenceOf[o], n, o)
  IN /\ n # None
     /\ Opens(c, "remove", o, IF UsesOf(cut, n) = {} THEN DeleteEntity(cut, n) ELSE {cut})

-----------------------------------------------------------------------------
(* Relations, persons, DNS, drops *)

CreateRelation(c, r) == Opens(c, "relation", r, InsertRelation(db, r))

AddProof(c, v) ==
  /\ conn[c].call = "relation"
  /\ Continues(c, "relation", LinkRelation(conn[c].work, conn[c].about, v))

Retyped(r, from, to) == IF r[2] = from THEN <<r[1], to>> ELSE r

MergedTypes(t, from, to) ==
  [t EXCEPT !.rels = {Retyped(r, from, to) : r \in @},
            !.relev = {<<Retyped(x[1], from, to), x[2]>> : x \in @},
            !.types = @ \ {from}]

Conflict(t, from, to) == \E r \in t.rels : r[2] = from /\ <<r[1], to>> \in t.rels

(* The conflict is looked for before the transaction begins; a relation    *)
(* inserted in between meets the unique constraint of the table.           *)
MergeTypes(c, from, to) ==
  /\ {from, to} \subseteq db.types /\ from # to
  /\ Opens(c, "merge", None, If(~Conflict(db, from, to), MergedTypes(db, from, to)))

(* An entity, and its evidence when there is one.                          *)
CreateEntity(c, n, proof) ==
  Opens(c, "entity", n,
    IF proof = None THEN InsertEntity(db, n)
    ELSE UNION {LinkEvidence(t, proof, n) : t \in InsertEntity(db, n)})

(* osint_dns_integration: what exists is read before the transaction; what *)
(* another call has added since is then refused by the tables.             *)
LookUp(c, n) ==
  /\ ~conn[c].tx /\ Idle(c) /\ n \in db.ents /\ commits < MaxCommits
  /\ conn' = [conn EXCEPT ![c] = [tx |-> FALSE, call |-> "seen", about |-> n,
               work |-> [ents |-> EntityRows(db), rels |-> RelationRows(db)]]]
  /\ UNCHANGED <<db, commits>>

DnsOf(t, seen, n, r) ==
  LET m == r[1][2]
      u == IF m \in seen.ents THEN If(EntityKnown(t, m), t) ELSE InsertEntity(t, m)
  IN UNION {IF r \in seen.rels THEN If(Related(t, r), x) ELSE InsertRelation(x, r) : x \in u}

Resolve(c, r) ==
  /\ conn[c].call = "seen" /\ r[1][1] = conn[c].about
  /\ Opens(c, "dns", None, DnsOf(db, conn[c].work, conn[c].about, r))

(* Fault: the file becomes evidence before the transaction begins.         *)
DropEarly(c, f, n) ==
  /\ Begin(c) /\ f \notin db.evid
  /\ db' = [db EXCEPT !.evid = @ \cup {f}] /\ UNCHANGED <<conn, commits>>

EnsureEvidence(t, f) == IF EvidenceKnown(t, f) THEN {t} ELSE InsertEvidence(t, f)

(* The file becomes evidence unless it is, and the entity is linked to it; *)
(* the entity may be created for it.                                       *)
Drop(c, f, n) ==
  Opens(c, "drop", n,
    UNION {LinkEvidence(t, f, n) :
             t \in UNION {EnsureEvidence(u, f) : u \in {db} \cup InsertEntity(db, n)}})

(* evidence_entity_dao_unlink, by a caller that holds a transaction.       *)
Unlink(c, v, n) ==
  <<v, n>> \in db.links /\ Opens(c, "unlink", n, {RemoveSource(db, v, n, Manual)})

(* The data access objects, called without a service.                      *)
Edits(c) ==
  \/ \E p \in Pairs, y \in Types :
       \/ Statement(c, DeleteRelation(View(c), <<p, y>>))
       \/ \E v \in Evidence : Statement(c, UnlinkRelation(View(c), <<p, y>>, v))
  \/ \E y \in Types : \/ Statement(c, InsertType(View(c), y))
                      \/ Statement(c, DeleteType(View(c), y))

Calls(c) ==
  \/ \E o \in Observations :
       \/ \E op \in Ops, k \in 0..Cardinality(Ops) : Review(c, op, o, k)
       \/ \E p \in BOOLEAN : Integrate(c, o, p)
       \/ RemovePromotion(c, o)
  \/ \E p \in Pairs, y \in Types : CreateRelation(c, <<p, y>>) \/ Resolve(c, <<p, y>>)
  \/ \E x, y \in Types : MergeTypes(c, x, y)
  \/ \E v \in Evidence : AddProof(c, v)
  \/ \E n \in Entities :
       \/ LookUp(c, n) \/ \E v \in Evidence \cup {None} : CreateEntity(c, n, v)
       \/ \E f \in Dropped : Drop(c, f, n)
       \/ \E v \in Evidence \cup Dropped : Unlink(c, v, n)

RecordsNext == \E c \in Conns : Calls(c) \/ Edits(c) \/ Commit(c) \/ Fail(c) \/ Close(c)

RecordsSpec == RecordsInit /\ [][RecordsNext]_vars

-----------------------------------------------------------------------------
Tables ==
  [evid : SUBSET (Evidence \cup Dropped), ents : SUBSET Entities,
   links : SUBSET ((Evidence \cup Dropped) \X Entities),
   sources : SUBSET ((Evidence \cup Dropped) \X Entities \X (Observations \cup {Manual})),
   obs : [Observations -> [known : BOOLEAN, corrected : Entities \cup {None},
                           entity : Entities \cup {None}]],
   types : SUBSET Types, rels : SUBSET (Pairs \X Types),
   relev : SUBSET ((Pairs \X Types) \X Evidence),
   journal : SUBSET [op : Ops, obs : Observations, rev : Nat]]

Rows ==
  [tx : BOOLEAN,
   call : {"none", "review", "integrate", "remove", "relation", "merge", "entity", "seen",
           "dns", "drop", "unlink"},
   work : Tables \cup [ents : SUBSET Entities, rels : SUBSET (Pairs \X Types)] \cup {None},
   about : Observations \cup Entities \cup (Pairs \X Types) \cup {None}]

(* What the tables say of one another: a link stands exactly while a source *)
(* gives it a reason, a promoted observation is such a source, nothing      *)
(* dangles, and the reviews of an observation are numbered without a gap.  *)
Sound(t) ==
  /\ Evidence \subseteq t.evid /\ IsFiniteSet(t.journal)
  /\ t.links \subseteq t.evid \X t.ents
  /\ t.links = {<<s[1], s[2]>> : s \in t.sources}
  /\ \A o \in Observations : LET n == t.obs[o].entity IN
       /\ n # None => t.obs[o].known /\ <<EvidenceOf[o], n, o>> \in t.sources
       /\ {j.rev : j \in Entries(t, o)} = 1..Revision(t, o)
  /\ \A r \in t.rels : {r[1][1], r[1][2]} \subseteq t.ents /\ r[2] \in t.types
  /\ \A x \in t.relev : x[1] \in t.rels /\ x[2] \in t.evid

(* What a call that is open may have done to the committed tables b.        *)
Exact(b, t, call, about) ==
  /\ \A s \in b.sources \ t.sources :
       \/ call \in {"review", "remove"} /\ s[3] = about
       \/ call = "unlink" /\ s[3] = Manual
  /\ \A n \in b.ents \ t.ents :
       call = "remove" /\ UsesOf(b, n) \subseteq {about, <<EvidenceOf[about], n>>}
  /\ \A f \in t.evid \ b.evid : \E n \in t.ents : <<f, n, Manual>> \in t.sources

RecordsIInv ==
  /\ db \in Tables /\ commits \in 0..MaxCommits /\ conn \in [Conns -> Rows]
  /\ Sound(db)
  /\ \A c \in Conns : conn[c].tx =>
       /\ commits < MaxCommits
       /\ conn[c].work \in Tables /\ Sound(conn[c].work)
       /\ conn[c].call # "none" => Exact(db, conn[c].work, conn[c].call, conn[c].about)
       /\ \A d \in Conns : conn[d].tx => c = d

(* A service takes nothing but its own and does nothing by halves: a source *)
(* leaves the tables only with the observation it names, the manual one     *)
(* only by an unlink, an entity only when that observation was all that     *)
(* used it; and a dropped file is evidence of the graph or of nothing.      *)
ServicesExact ==
  [][/\ \A s \in db.sources \ db'.sources : \E c \in Conns :
          \/ conn[c].call \in {"review", "remove"} /\ s[3] = conn[c].about
          \/ conn[c].call = "unlink" /\ s[3] = Manual
     /\ \A n \in db.ents \ db'.ents : \E c \in Conns :
          /\ conn[c].call = "remove"
          /\ UsesOf(db, n) \subseteq {conn[c].about, <<EvidenceOf[conn[c].about], n>>}
     /\ \A f \in db'.evid \ db.evid : \E n \in db'.ents : <<f, n, Manual>> \in db'.sources]_vars
=============================================================================
