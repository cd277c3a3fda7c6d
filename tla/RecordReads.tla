---------------------------- MODULE RecordReads ----------------------------
(* The calls of the data access objects, statement by statement, over one   *)
(* base of an investigation that several connections share                  *)
(* (src/src/dao/*_dao.c, src/src/models/*_record.c, database/statement.c).  *)
(* A call checks its arguments, then runs its statements one after the      *)
(* other; a reading statement gives its rows one at a time, and each row    *)
(* must make a valid record again.  SQLite refuses a write, without any     *)
(* waiting, while another connection reads or has a transaction open.       *)
EXTENDS Naturals, Sequences, FiniteSets

CONSTANTS
  Readers,        \* the connections
  CallsOf,        \* for each connection, the calls it makes
  FirstBase,      \* the base found by the first connection
  Malformed,      \* an identifier that is no UUID
  NoCall,         \* no call, no answer
  MaxReadFaults,  \* failed allocations and unreadable rows
  MaxReadCalls    \* for each connection, how many calls it makes

VARIABLES
  base0,    \* the committed rows, by table
  pending,  \* the base as an open transaction sees it, if any
  calls,    \* the call in progress or just ended, its statement, its rows
  asked,    \* how many calls each connection made
  readFaults

readVars == <<base0, pending, calls, asked, readFaults>>

BaseTables == {"evidenceTypes", "entityTypes", "relationTypes", "evidence", "entities",
               "relations", "links", "supports", "observations", "positions", "viewport"}

-----------------------------------------------------------------------------
(* The records: what a row must be, written or read back.                   *)

(* Trimmed, a text may turn out to be empty.                                *)
Trimmed ==
  [plain |-> "plain", other |-> "other", third |-> "third", padded |-> "plain", blank |-> "blank"]

EvidenceDates == {"second", "minute"}
EntityDates   == {"second"}
RelationDates == {"second"}

StatusFromText == {"active", "archived", "deleted"}
RelationStatusFromText == StatusFromText \cup {"disputed"}
IntegrityRange == {"unknown", "valid", "missing", "modified", "error"}

PathFine(text) == Trimmed[text] # "blank"

EvidenceRecordNew(r) ==
  IF /\ r.id # Malformed /\ PathFine(r.text)
     /\ r.date \in EvidenceDates /\ r.status \in IntegrityRange
  THEN {[r EXCEPT !.text = Trimmed[@]]} ELSE {}

EntityRecordNew(r) ==
  IF /\ r.id # Malformed /\ Trimmed[r.text] # "blank"
     /\ r.date \in EntityDates /\ r.status \in StatusFromText
  THEN {[r EXCEPT !.text = Trimmed[@]]} ELSE {}

RelationRecordNew(r) ==
  IF /\ Malformed \notin {r.id, r.from, r.to} /\ r.from # r.to
     /\ Trimmed[r.type] # "blank" /\ r.date \in RelationDates
     /\ r.status \in RelationStatusFromText
  THEN {[r EXCEPT !.type = Trimmed[@]]} ELSE {}

(* A row read makes the record of its table, or nothing.                    *)
EvidenceReads(r) == IF r.status \in IntegrityRange THEN EvidenceRecordNew(r) ELSE {}
EntityReads(r)   == IF r.status \in StatusFromText THEN EntityRecordNew(r) ELSE {}
RelationReads(r) == IF r.status \in RelationStatusFromText THEN RelationRecordNew(r) ELSE {}
PositionReads(r) == IF r.node # Malformed THEN {r} ELSE {}
EntityTypeReads(r)   == IF Trimmed[r.text] # "blank" THEN {r} ELSE {}
EvidenceTypeReads(r) == IF Trimmed[r.text] # "blank" THEN {r} ELSE {}

ReadBack(t, r) ==
  CASE t = "evidence"      -> EvidenceReads(r)
    [] t = "entities"      -> EntityReads(r)
    [] t = "relations"     -> RelationReads(r)
    [] t = "positions"     -> PositionReads(r)
    [] t = "entityTypes"   -> EntityTypeReads(r)
    [] t = "evidenceTypes" -> EvidenceTypeReads(r)
    [] OTHER               -> {r}

-----------------------------------------------------------------------------
(* Statements.  "where" gives the columns a row must have.                  *)
Where(b, t, w) == {r \in b[t] : \A f \in DOMAIN w : r[f] = w[f]}

All == [f \in {} |-> 0]

Given(p)      == [kind |-> "given", holds |-> p]
Absent(t, w)  == [kind |-> "absent", table |-> t, where |-> w]
Present(t, w) == [kind |-> "present", table |-> t, where |-> w]
One(t, w)     == [kind |-> "one", table |-> t, where |-> w]
Each(t, w)    == [kind |-> "each", table |-> t, where |-> w]
Count(t)      == [kind |-> "count", table |-> t, where |-> All]
Put(t, r)     == [kind |-> "put", table |-> t, row |-> r]
Keep(t, r)    == [kind |-> "keep", table |-> t, row |-> r]
Replace(t, w, r) == [kind |-> "replace", table |-> t, where |-> w, row |-> r]
Change(t, w, new) == [kind |-> "change", table |-> t, where |-> w, new |-> new]
Remove(t, w)  == [kind |-> "remove", table |-> t, where |-> w]

Reading == {"absent", "present", "one", "each", "count"}

(* What the base refuses: the unique columns and the missing references.    *)
EvidenceClash(b, r) ==
  \/ \E o \in b.evidence : o.id = r.id \/ o.text = r.text
  \/ Where(b, "evidenceTypes", [id |-> r.type]) = {}

EntityClash(b, r) ==
  \/ \E o \in b.entities : o.id = r.id \/ (o.type = r.type /\ o.text = r.text)
  \/ Where(b, "entityTypes", [id |-> r.type]) = {}

RelationClash(b, r) ==
  \/ \E o \in b.relations :
       o.id = r.id \/ (o.from = r.from /\ o.to = r.to /\ o.type = r.type)
  \/ \E e \in {r.from, r.to} : Where(b, "entities", [id |-> e]) = {}
  \/ Where(b, "relationTypes", [text |-> r.type]) = {}

LinkClash(b, r) ==
  \/ Where(b, "evidence", [id |-> r.evidence]) = {}
  \/ Where(b, "entities", [id |-> r.entity]) = {}

SupportClash(b, r) ==
  \/ Where(b, "relations", [id |-> r.relation]) = {}
  \/ Where(b, "evidence", [id |-> r.evidence]) = {}

Clash(b, t, r) ==
  CASE t = "evidence"  -> EvidenceClash(b, r)
    [] t = "entities"  -> EntityClash(b, r)
    [] t = "relations" -> RelationClash(b, r)
    [] t = "links"     -> LinkClash(b, r)
    [] t = "supports"  -> SupportClash(b, r)
    [] t = "observations" -> Where(b, "evidence", [id |-> r.evidence]) = {}
    [] OTHER           -> FALSE

(* The same observation, or the same pair, once more.                       *)
Twin(b, t, r) ==
  IF t = "observations" THEN \E o \in b[t] : o.evidence = r.evidence /\ o.value = r.value
  ELSE r \in b[t]

-----------------------------------------------------------------------------
(* What each function runs for the row or the key it is given.  A record is *)
(* built, and refused, before it is inserted.                               *)
EvidenceInsert(r) ==
  <<Absent("evidence", [id |-> r.id]), Absent("evidence", [text |-> r.text]),
    Present("evidenceTypes", [id |-> r.type]), Put("evidence", r)>>
EvidenceFind(r)   == <<Given(r.id # Malformed), One("evidence", [id |-> r.id])>>
EvidenceStatus(r) ==
  <<Given(r.id # Malformed /\ r.status \in IntegrityRange),
    Present("evidence", [id |-> r.id]),
    Change("evidence", [id |-> r.id], [status |-> r.status])>>
EvidenceMetadata(r) ==
  <<Given(r.id # Malformed),
    Change("evidence", [id |-> r.id], [type |-> r.type, text |-> r.text])>>
EvidenceCount(r)  == <<Count("evidence")>>
EvidenceList(r)   == <<Each("evidence", All)>>

EntityInsert(r) ==
  <<Absent("entities", [id |-> r.id]), Present("entityTypes", [id |-> r.type]),
    Absent("entities", [type |-> r.type, text |-> r.text]), Put("entities", r)>>
EntityFind(r)  == <<Given(r.id # Malformed), One("entities", [id |-> r.id])>>
EntityCount(r) == <<Count("entities")>>
EntityList(r)  == <<Each("entities", All)>>

TypeResolved(r) == Present("relationTypes", [text |-> r.type])
RelationInsert(r) ==
  <<Absent("relations", [id |-> r.id]), Present("entities", [id |-> r.from]),
    Present("entities", [id |-> r.to]), TypeResolved(r),
    Absent("relations", [from |-> r.from, to |-> r.to, type |-> r.type]),
    Put("relations", r)>>
RelationUpdate(r) ==
  <<TypeResolved(r),
    Change("relations", [id |-> r.id], [type |-> r.type, status |-> r.status])>>
RelationDelete(r) ==
  <<Given(r.id # Malformed), Remove("relations", [id |-> r.id])>>
RelationFind(r)   == <<Given(r.id # Malformed), One("relations", [id |-> r.id])>>
RelationCount(r)  == <<Count("relations")>>
RelationList(r)   == <<Each("relations", All)>>

LinkGiven(r)  == Given(Malformed \notin {r.evidence, r.entity})
LinkExists(r) == <<LinkGiven(r), One("links", r)>>
LinkAdd(r)    == <<LinkGiven(r), Present("evidence", [id |-> r.evidence]),
                   Present("entities", [id |-> r.entity]), Keep("links", r)>>
LinkRemove(r) == <<LinkGiven(r), Present("links", r), Remove("links", r)>>
EntitiesOf(r)  == <<Given(r.evidence # Malformed), Each("links", [evidence |-> r.evidence])>>
EvidencesOf(r) == <<Given(r.entity # Malformed), Each("links", [entity |-> r.entity])>>

SupportGiven(r)  == Given(Malformed \notin {r.relation, r.evidence})
SupportExists(r) == <<SupportGiven(r), One("supports", r)>>
SupportAdd(r) ==
  <<SupportGiven(r), Present("relations", [id |-> r.relation]),
    Present("evidence", [id |-> r.evidence]), Absent("supports", r), Put("supports", r)>>
SupportRemove(r) == <<SupportGiven(r), Present("supports", r), Remove("supports", r)>>
ProofsOf(r) == <<Given(r.relation # Malformed), Each("supports", [relation |-> r.relation])>>
ProvedBy(r) == <<Given(r.evidence # Malformed), Each("supports", [evidence |-> r.evidence])>>

ObservationAdd(r) ==
  <<Given(r.evidence # Malformed), Keep("observations", r),
    One("observations", [evidence |-> r.evidence, value |-> r.value])>>
ObservationExtracted(r) == <<Given(r.evidence # Malformed), Put("observations", r)>>
ObservationFormat(r) ==
  <<Given(r.evidence # Malformed), Each("observations", [evidence |-> r.evidence])>>
ObservationList(r) ==
  <<Given(r.evidence # Malformed), Each("observations", [evidence |-> r.evidence])>>

PositionList(r)   == <<Each("positions", All)>>
PositionUpsert(r) ==
  <<Given(r.node # Malformed), Replace("positions", [node |-> r.node], r)>>
PositionDelete(r) ==
  <<Given(r.node # Malformed), Remove("positions", [node |-> r.node])>>
PositionClear(r)  == <<Remove("positions", All)>>
ViewportLoad(r)   == <<One("viewport", All)>>
ViewportKeep(r)   == <<Replace("viewport", All, r)>>

EntityTypeList(r)   == <<Each("entityTypes", All)>>
EvidenceTypeList(r) == <<Each("evidenceTypes", All)>>

Program(k) ==
  CASE k.op = "evidence insert"   -> EvidenceInsert(k.row)
    [] k.op = "evidence find"     -> EvidenceFind(k.row)
    [] k.op = "evidence status"   -> EvidenceStatus(k.row)
    [] k.op = "evidence metadata" -> EvidenceMetadata(k.row)
    [] k.op = "evidence count"    -> EvidenceCount(k.row)
    [] k.op = "evidence list"     -> EvidenceList(k.row)
    [] k.op = "entity insert"     -> EntityInsert(k.row)
    [] k.op = "entity find"       -> EntityFind(k.row)
    [] k.op = "entity count"      -> EntityCount(k.row)
    [] k.op = "entity list"       -> EntityList(k.row)
    [] k.op = "relation insert"   -> RelationInsert(k.row)
    [] k.op = "relation update"   -> RelationUpdate(k.row)
    [] k.op = "relation delete"   -> RelationDelete(k.row)
    [] k.op = "relation find"     -> RelationFind(k.row)
    [] k.op = "relation count"    -> RelationCount(k.row)
    [] k.op = "relation list"     -> RelationList(k.row)
    [] k.op = "link exists"       -> LinkExists(k.row)
    [] k.op = "link add"          -> LinkAdd(k.row)
    [] k.op = "link remove"       -> LinkRemove(k.row)
    [] k.op = "entities of"       -> EntitiesOf(k.row)
    [] k.op = "evidences of"      -> EvidencesOf(k.row)
    [] k.op = "support exists"    -> SupportExists(k.row)
    [] k.op = "support add"       -> SupportAdd(k.row)
    [] k.op = "support remove"    -> SupportRemove(k.row)
    [] k.op = "proofs of"         -> ProofsOf(k.row)
    [] k.op = "proved by"         -> ProvedBy(k.row)
    [] k.op = "observation add"   -> ObservationAdd(k.row)
    [] k.op = "observation extracted" -> ObservationExtracted(k.row)
    [] k.op = "observation format" -> ObservationFormat(k.row)
    [] k.op = "observation list"  -> ObservationList(k.row)
    [] k.op = "position list"     -> PositionList(k.row)
    [] k.op = "position upsert"   -> PositionUpsert(k.row)
    [] k.op = "position delete"   -> PositionDelete(k.row)
    [] k.op = "position clear"    -> PositionClear(k.row)
    [] k.op = "viewport load"     -> ViewportLoad(k.row)
    [] k.op = "viewport keep"     -> ViewportKeep(k.row)
    [] k.op = "entity types"      -> EntityTypeList(k.row)
    [] OTHER                      -> EvidenceTypeList(k.row)

-----------------------------------------------------------------------------
(* The state of a connection, and what the others impose on it.             *)
NoneAsked == [call |-> NoCall, at |-> 0, open |-> FALSE, got |-> {}, seen |-> {},
          answer |-> NoCall]

ViewOf(c)  == IF pending[c] = {} THEN base0 ELSE CHOOSE b \in pending[c] : TRUE
Calling(c) == calls[c].call # NoCall /\ calls[c].answer = NoCall
ThisOne(c) == Program(calls[c].call)[calls[c].at]
Kind(c)    == ThisOne(c).kind
Hits(c)    == Where(ViewOf(c), ThisOne(c).table, ThisOne(c).where)

OthersRead(c)  == \E d \in Readers \ {c} : calls[d].open
OthersWrite(c) == \E d \in Readers \ {c} : pending[d] # {}

(* Every path out of a statement finalises it.                              *)
CallEnded(k, answer, got) == [k EXCEPT !.open = FALSE, !.answer = answer, !.got = got]
Further(k, got) ==
  IF k.at = Len(Program(k.call)) THEN CallEnded(k, "ok", got)
  ELSE [k EXCEPT !.open = FALSE, !.at = @ + 1]

(* A record is built from what the caller gives, and handed over as built.  *)
Built(k) ==
  CASE k.op = "evidence insert" -> EvidenceRecordNew(k.row)
    [] k.op = "entity insert"   -> EntityRecordNew(k.row)
    [] k.op \in {"relation insert", "relation update"} -> RelationRecordNew(k.row)
    [] OTHER                    -> {k.row}

Ask(c, k) ==
  /\ calls[c].call = NoCall /\ asked[c] < MaxReadCalls[c]
  /\ \E r \in Built(k) :
       calls' = [calls EXCEPT ![c] =
         [@ EXCEPT !.call = [k EXCEPT !.row = r], !.at = 1, !.got = {},
                   !.seen = {ViewOf(c)}, !.answer = NoCall]]
  /\ asked' = [asked EXCEPT ![c] = @ + 1]
  /\ UNCHANGED <<base0, pending, readFaults>>

Check(c) ==
  /\ Calling(c) /\ Kind(c) = "given"
  /\ calls' = [calls EXCEPT ![c] =
                 IF ThisOne(c).holds THEN Further(@, {}) ELSE CallEnded(@, "invalid", {})]
  /\ UNCHANGED <<base0, pending, readFaults, asked>>

(* The caller takes the answer.                                             *)
Return(c) ==
  /\ calls[c].answer # NoCall
  /\ calls' = [calls EXCEPT ![c] = NoneAsked]
  /\ UNCHANGED <<base0, pending, readFaults, asked>>

(* Prepared, bound and stepped: the base is read-locked until the end.      *)
OpenRows(c) ==
  /\ Calling(c) /\ Kind(c) \in Reading /\ ~calls[c].open
  /\ calls' = [calls EXCEPT ![c].open = TRUE]
  /\ UNCHANGED <<base0, pending, readFaults, asked>>

(* A question asks for one row at most, and a count gives a single one.     *)
Told(c) ==
  /\ calls[c].open /\ Kind(c) \in {"absent", "present", "count"}
  /\ calls' = [calls EXCEPT ![c] =
       IF Kind(c) = "absent" /\ Hits(c) # {} THEN CallEnded(@, "conflict", {})
       ELSE IF Kind(c) = "present" /\ Hits(c) = {} THEN CallEnded(@, "missing", {})
       ELSE Further(@, IF Kind(c) = "count" THEN Hits(c) ELSE {})]
  /\ UNCHANGED <<base0, pending, readFaults, asked>>

Unread(c) == {r \in Hits(c) : ReadBack(ThisOne(c).table, r) \cap calls[c].got = {}}

(* A row that makes no record ends the call, and with it what was read.     *)
NextRow(c) ==
  /\ calls[c].open /\ Kind(c) \in {"one", "each"}
  /\ \E r \in Unread(c) :
       calls' = [calls EXCEPT ![c] =
         IF ReadBack(ThisOne(c).table, r) = {} \/ (Kind(c) = "one" /\ @.got # {})
         THEN CallEnded(@, "failed", {})
         ELSE [@ EXCEPT !.got = calls[c].got \cup ReadBack(ThisOne(c).table, r)]]
  /\ UNCHANGED <<base0, pending, readFaults, asked>>

NoMoreRows(c) ==
  /\ calls[c].open /\ Kind(c) \in {"one", "each"} /\ Unread(c) = {}
  /\ calls' = [calls EXCEPT ![c] = Further(@, @.got)]
  /\ UNCHANGED <<base0, pending, readFaults, asked>>

(* Fault: the list read so far is given when a row cannot be read.          *)
ListIsCut(c) ==
  /\ Calling(c) /\ readFaults < MaxReadFaults
  /\ readFaults' = readFaults + 1
  /\ calls' = [calls EXCEPT ![c] =
                 CallEnded(@, IF @.open THEN "ok" ELSE "failed", @.got)]
  /\ UNCHANGED <<base0, pending, asked>>

(* No memory for a row, or a statement that fails, at any moment.           *)
StatementFails(c) ==
  /\ Calling(c) /\ readFaults < MaxReadFaults
  /\ readFaults' = readFaults + 1
  /\ calls' = [calls EXCEPT ![c] = CallEnded(@, "failed", {})]
  /\ UNCHANGED <<base0, pending, asked>>

(* A row with some of its columns set anew.                                 *)
Over(new, r) == [f \in DOMAIN r |-> IF f \in DOMAIN new THEN new[f] ELSE r[f]]

(* The rows after a writing statement; the proofs of a relation go with it. *)
Change0(b, s) ==
  LET hit == Where(b, s.table, s.where) IN
  CASE s.kind = "replace" -> [b EXCEPT ![s.table] = (@ \ hit) \cup {s.row}]
    [] s.kind = "change"  -> [b EXCEPT ![s.table] = (@ \ hit) \cup {Over(s.new, r) : r \in hit}]
    [] s.kind = "remove" /\ s.table = "relations" ->
         [b EXCEPT !.relations = @ \ hit,
                   !.supports = {x \in @ : \A r \in hit : r.id # x.relation}]
    [] OTHER -> [b EXCEPT ![s.table] = @ \ hit]

Written(b, s) ==
  CASE s.kind = "put"  -> [b EXCEPT ![s.table] = @ \cup {s.row}]
    [] s.kind = "keep" -> IF Twin(b, s.table, s.row) THEN b
                          ELSE [b EXCEPT ![s.table] = @ \cup {s.row}]
    [] OTHER           -> Change0(b, s)

(* The base refuses a row for its unique columns or for its references.     *)
RefusedBy(b, s) ==
  CASE s.kind = "put"    -> Clash(b, s.table, s.row) \/ Twin(b, s.table, s.row)
    [] s.kind = "keep"   -> Clash(b, s.table, s.row)
    [] s.kind = "change" -> \E r \in Where(b, s.table, s.where) :
                              Clash([b EXCEPT ![s.table] = @ \ {r}], s.table, Over(s.new, r))
    [] OTHER             -> FALSE

(* Whoever is in the middle of a call sees what is committed meanwhile.     *)
Noticing(d, b) ==
  IF Calling(d) /\ pending[d] = {}
  THEN [calls[d] EXCEPT !.seen = @ \cup {b}] ELSE calls[d]

(* A write by itself is committed at once; in a transaction it waits.       *)
WriteRow(c) ==
  /\ Calling(c) /\ Kind(c) \notin Reading \cup {"given"}
  /\ UNCHANGED <<readFaults, asked>>
  /\ LET new  == Written(ViewOf(c), ThisOne(c))
         done == [Further(calls[c], {}) EXCEPT !.seen = @ \cup {new}]
     IN IF OthersWrite(c)
        THEN calls' = [calls EXCEPT ![c] = CallEnded(@, "failed", {})]
             /\ UNCHANGED <<base0, pending>>
        ELSE IF RefusedBy(ViewOf(c), ThisOne(c))
        THEN calls' = [calls EXCEPT ![c] =
                         CallEnded(@, IF Kind(c) = "change" THEN "failed" ELSE "conflict", {})]
             /\ UNCHANGED <<base0, pending>>
        ELSE IF pending[c] # {}
        THEN /\ pending' = [pending EXCEPT ![c] = {new}]
             /\ calls' = [calls EXCEPT ![c] = done] /\ UNCHANGED base0
        ELSE IF OthersRead(c)
        THEN calls' = [calls EXCEPT ![c] = CallEnded(@, "failed", {})]
             /\ UNCHANGED <<base0, pending>>
        ELSE /\ base0' = new /\ UNCHANGED pending
             /\ calls' = [d \in Readers |-> IF d = c THEN done ELSE Noticing(d, new)]

(* The transaction of a service around its calls.                           *)
OpenTransaction(c) ==
  /\ calls[c].call = NoCall /\ asked[c] + 1 < MaxReadCalls[c]
  /\ \A d \in Readers : pending[d] = {}
  /\ pending' = [pending EXCEPT ![c] = {base0}]
  /\ UNCHANGED <<base0, calls, readFaults, asked>>

CloseTransaction(c) ==
  /\ calls[c].call = NoCall /\ pending[c] # {}
  /\ pending' = [pending EXCEPT ![c] = {}]
  /\ \/ /\ ~OthersRead(c) /\ base0' = ViewOf(c)
        /\ calls' = [d \in Readers |-> IF d = c THEN calls[c] ELSE Noticing(d, ViewOf(c))]
     \/ UNCHANGED <<base0, calls>>
  /\ UNCHANGED <<readFaults, asked>>

-----------------------------------------------------------------------------
ReadsInit ==
  /\ base0 = FirstBase
  /\ pending = [c \in Readers |-> {}]
  /\ calls = [c \in Readers |-> NoneAsked]
  /\ asked = [c \in Readers |-> 0]
  /\ readFaults = 0

MakesCalls(c) ==
  \/ \E k \in CallsOf[c] : Ask(c, k)
  \/ Check(c) \/ Return(c) \/ OpenRows(c) \/ Told(c) \/ NextRow(c) \/ NoMoreRows(c)
  \/ StatementFails(c) \/ WriteRow(c)
  \/ OpenTransaction(c) \/ CloseTransaction(c)

ReadsNext == \E c \in Readers : MakesCalls(c)
ReadsSpec == ReadsInit /\ [][ReadsNext]_readVars

-----------------------------------------------------------------------------
(* What the connections find and ask: rows of their tables, in a base that  *)
(* is sound, and calls that give every column of the record to build.       *)
Shaped(t, r) ==
  CASE t \in {"evidence", "entities"} ->
         r = [id |-> r.id, type |-> r.type, text |-> r.text, date |-> r.date,
              status |-> r.status]
    [] t = "relations" ->
         r = [id |-> r.id, from |-> r.from, to |-> r.to, type |-> r.type, date |-> r.date,
              status |-> r.status]
    [] t = "positions" -> r = [node |-> r.node, at |-> r.at]
    [] OTHER           -> TRUE

(* Every row the calls write makes, when read again, the record it was      *)
(* written from; otherwise every list of its table would fail from then on. *)
Fit(t, r) == Shaped(t, r) /\ ReadBack(t, r) = {r}
RowsReadBack(b) == \A t \in BaseTables : \A r \in b[t] : Fit(t, r)

(* The checks before an insertion run in statements of their own, so only   *)
(* the base keeps two connections from inserting the same thing.            *)
RowsUnique(b) ==
  /\ \A r, o \in b.evidence  : r.id = o.id \/ r.text = o.text => r = o
  /\ \A r, o \in b.entities  :
       r.id = o.id \/ (r.type = o.type /\ r.text = o.text) => r = o
  /\ \A r, o \in b.relations :
       r.id = o.id \/ (r.from = o.from /\ r.to = o.to /\ r.type = o.type) => r = o
  /\ \A r, o \in b.positions : r.node = o.node => r = o

SoundBase(b) == b = [t \in BaseTables |-> b[t]] /\ RowsReadBack(b) /\ RowsUnique(b)

(* The table a call writes the record it builds to.                         *)
TablesBuilt ==
  [op \in {"evidence insert", "entity insert", "relation insert", "relation update"} |->
     CASE op = "evidence insert" -> "evidence" [] op = "entity insert" -> "entities"
       [] OTHER -> "relations"]

(* What callers give: a whole row, values the trimming knows, and, for a    *)
(* reclassified evidence, a path its caller composed                        *)
(* (evidence_reclassification.c:53): the call asks less of it than a record *)
(* does (evidence_dao.c:1373).                                              *)
WellGiven(k) ==
  /\ k = [op |-> k.op, row |-> k.row]
  /\ \A r \in Built(k) : [k EXCEPT !.row = r] # NoCall
  /\ k.op \in DOMAIN TablesBuilt =>
       /\ Shaped(TablesBuilt[k.op], k.row)
       /\ (IF TablesBuilt[k.op] = "relations" THEN k.row.type ELSE k.row.text)
            \in DOMAIN Trimmed
  /\ k.op = "evidence metadata" => Trimmed[k.row.text] = k.row.text /\ PathFine(k.row.text)
  /\ k.op = "position upsert" => Shaped("positions", k.row)

(* No call is no answer; the base found is sound, as a created one is.      *)
ASSUME ReadsAssumption ==
  /\ NoCall \notin {"ok", "missing", "conflict", "invalid", "failed"}
  /\ SoundBase(FirstBase)
  /\ \A c \in Readers : \A k \in CallsOf[c] : WellGiven(k)

-----------------------------------------------------------------------------
(* A call that ended has left no statement open, which would make every     *)
(* write of the other connections fail from then on.                        *)
NothingLeftOpen ==
  \A c \in Readers : calls[c].open => Calling(c) /\ Kind(c) \in Reading

(* Every answer was true of one state of the base between the question and  *)
(* the answer: a list has all the rows of one commit and no other, a row    *)
(* said missing was missing, a conflict existed, a row said written was     *)
(* there, although other connections commit between the statements.         *)
GivenTrue(k, s, b) ==
  LET hit == Where(b, s.table, s.where)
  IN CASE s.kind \in {"one", "each"} -> k.got = UNION {ReadBack(s.table, r) : r \in hit}
       [] s.kind = "count"      -> Cardinality(k.got) = Cardinality(hit)
       [] s.kind = "put"        -> s.row \in b[s.table]
       [] s.kind = "keep"       -> Twin(b, s.table, s.row)
       [] OTHER                 -> b = Written(b, s)

TrueOf(k, b) ==
  LET s == Program(k.call)[k.at] IN
  /\ k.answer = "ok"      => GivenTrue(k, s, b)
  /\ k.answer = "missing" => Where(b, s.table, s.where) = {}
  /\ k.answer = "conflict" =>
       IF s.kind = "absent" THEN Where(b, s.table, s.where) # {} ELSE RefusedBy(b, s)

AnswersTrue ==
  \A c \in Readers : calls[c].answer \in {"ok", "missing", "conflict"} =>
    \E b \in calls[c].seen : TrueOf(calls[c], b)

(* The committed base, and every one a transaction works on, is sound.      *)
BasesSound ==
  /\ pending = [c \in Readers |-> pending[c]]
  /\ \A c \in Readers : pending[c] = {} \/ pending[c] = {ViewOf(c)}
  /\ \A b \in {base0} \cup UNION {pending[c] : c \in Readers} : SoundBase(b)

(* A call in progress saw the base it works on, passed the checks of its    *)
(* arguments, and read nothing but rows that are still the ones asked for.  *)
RowsRead(c) ==
  IF calls[c].open /\ Kind(c) \in {"one", "each"}
  THEN UNION {ReadBack(ThisOne(c).table, r) : r \in Hits(c)} ELSE {}

CallFits(k) ==
  /\ k.op \in DOMAIN TablesBuilt => Fit(TablesBuilt[k.op], k.row)
  /\ k.op = "evidence metadata" => Trimmed[k.row.text] = k.row.text /\ PathFine(k.row.text)
  /\ k.op = "position upsert" => Shaped("positions", k.row)

CallsSound ==
  /\ calls = [c \in Readers |->
       [call |-> calls[c].call, at |-> calls[c].at, open |-> calls[c].open,
        got |-> calls[c].got, seen |-> calls[c].seen, answer |-> calls[c].answer]]
  /\ \A c \in Readers : Calling(c) =>
       /\ CallFits(calls[c].call)
       /\ calls[c].at \in 1..Len(Program(calls[c].call))
       /\ \A i \in 1..(calls[c].at - 1) :
            LET s == Program(calls[c].call)[i] IN s.kind = "given" => s.holds
       /\ ViewOf(c) \in calls[c].seen
       /\ calls[c].got \subseteq RowsRead(c)

ReadsIInv == NothingLeftOpen /\ AnswersTrue /\ BasesSound /\ CallsSound
=============================================================================
