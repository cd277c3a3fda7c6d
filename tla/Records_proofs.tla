--------------------------- MODULE Records_proofs ---------------------------
(* What the tables of an investigation say of one another, whichever        *)
(* services write them at once, and what is published of them.              *)
EXTENDS Records, GraphPublication, RecordReads, FiniteSetTheorems, TLAPS

Good(t) == t \in Tables /\ Sound(t)

(* What a statement that takes nothing leaves behind.                       *)
Grows(t, u) ==
  t.sources \subseteq u.sources /\ t.ents \subseteq u.ents /\ u.evid = t.evid

ObsRow == [known : BOOLEAN, corrected : Entities \cup {None}, entity : Entities \cup {None}]

(* What an observation must have to be promoted.                           *)
Founded(t, o, row) ==
  row.entity # None => row.known /\ <<EvidenceOf[o], row.entity, o>> \in t.sources

LEMMA OneObserved ==
  ASSUME NEW t \in Tables, NEW o \in Observations, NEW row \in ObsRow,
         NEW u, u = Observed(t, o, row)
  PROVE  /\ u \in Tables /\ u.evid = t.evid /\ u.ents = t.ents /\ u.links = t.links
         /\ u.sources = t.sources /\ u.types = t.types /\ u.rels = t.rels
         /\ u.relev = t.relev /\ u.journal = t.journal
         /\ u.obs[o] = row /\ \A x \in Observations \ {o} : u.obs[x] = t.obs[x]
  <1>1. t.obs \in [Observations -> ObsRow]
    BY DEF Tables, ObsRow
  <1>2. [t.obs EXCEPT ![o] = row] \in [Observations -> ObsRow]
    BY <1>1
  <1>3. u = [t EXCEPT !.obs = [t.obs EXCEPT ![o] = row]]
    BY DEF Observed
  <1>4. /\ u.evid = t.evid /\ u.ents = t.ents /\ u.links = t.links
        /\ u.sources = t.sources /\ u.types = t.types /\ u.rels = t.rels
        /\ u.relev = t.relev /\ u.journal = t.journal
        /\ u.obs = [t.obs EXCEPT ![o] = row]
    BY <1>3 DEF Tables
  <1>5. u \in Tables
    BY <1>2, <1>3 DEF Tables, ObsRow
  <1> QED
    BY <1>1, <1>4, <1>5

(* The sums over the journal are of its rows alone.                        *)
LEMMA SameJournal ==
  ASSUME NEW t, NEW u, u.journal = t.journal, NEW o
  PROVE  Entries(u, o) = Entries(t, o) /\ Revision(u, o) = Revision(t, o)
  BY DEF Entries, Revision

LEMMA AddsSource ==
  ASSUME NEW t, Good(t), NEW v \in Evidence \cup Dropped, NEW n \in Entities,
         NEW kind \in Observations \cup {Manual}, NEW u \in AddSource(t, v, n, kind)
  PROVE  /\ Good(u) /\ Grows(t, u) /\ u.obs = t.obs /\ u.journal = t.journal
         /\ <<v, n, kind>> \in u.sources
  <1>1. /\ v \in t.evid /\ n \in t.ents
        /\ u = [t EXCEPT !.links = @ \cup {<<v, n>>}, !.sources = @ \cup {<<v, n, kind>>}]
    BY DEF AddSource, If, EvidenceKnown, EntityKnown
  <1>2. /\ u.evid = t.evid /\ u.ents = t.ents /\ u.links = t.links \cup {<<v, n>>}
        /\ u.sources = t.sources \cup {<<v, n, kind>>} /\ u.types = t.types
        /\ u.rels = t.rels /\ u.relev = t.relev /\ u.journal = t.journal /\ u.obs = t.obs
    BY <1>1 DEF Good, Tables
  <1>3. u \in Tables
    <2>1. t.links \cup {<<v, n>>} \in SUBSET ((Evidence \cup Dropped) \X Entities)
      BY DEF Good, Tables
    <2>2. t.sources \cup {<<v, n, kind>>}
            \in SUBSET ((Evidence \cup Dropped) \X Entities \X (Observations \cup {Manual}))
      BY DEF Good, Tables
    <2> QED
      BY <1>1, <2>1, <2>2 DEF Good, Tables
  <1>4. Sound(u)
    <2>1. u.links = {<<s[1], s[2]>> : s \in u.sources}
      <3>1. t.links = {<<s[1], s[2]>> : s \in t.sources}
        BY DEF Good, Sound
      <3>2. PICK x : x = <<v, n, kind>>
        OBVIOUS
      <3>3. <<x[1], x[2]>> = <<v, n>>
        BY <3>2
      <3>4. {<<s[1], s[2]>> : s \in t.sources \cup {x}} =
              {<<s[1], s[2]>> : s \in t.sources} \cup {<<x[1], x[2]>>}
        OBVIOUS
      <3> QED
        BY <1>2, <3>1, <3>2, <3>3, <3>4
    <2>2. u.links \subseteq u.evid \X u.ents
      BY <1>1, <1>2 DEF Good, Sound
    <2>3. \A o \in Observations : LET m == u.obs[o].entity IN
            /\ m # None => u.obs[o].known /\ <<EvidenceOf[o], m, o>> \in u.sources
            /\ {j.rev : j \in Entries(u, o)} = 1..Revision(u, o)
      BY <1>2, SameJournal DEF Good, Sound
    <2> QED
      BY <1>2, <2>1, <2>2, <2>3 DEF Good, Sound
  <1> QED
    BY <1>2, <1>3, <1>4 DEF Good, Grows

LEMMA InsertsEntity ==
  ASSUME NEW t, Good(t), NEW n \in Entities, NEW u \in InsertEntity(t, n)
  PROVE  /\ Good(u) /\ Grows(t, u) /\ u.obs = t.obs /\ u.journal = t.journal
         /\ n \in u.ents /\ u.sources = t.sources
  <1>1. u = [t EXCEPT !.ents = @ \cup {n}]
    BY DEF InsertEntity, If
  <1>2. /\ u.evid = t.evid /\ u.ents = t.ents \cup {n} /\ u.links = t.links
        /\ u.sources = t.sources /\ u.types = t.types
        /\ u.rels = t.rels /\ u.relev = t.relev /\ u.journal = t.journal /\ u.obs = t.obs
    BY <1>1 DEF Good, Tables
  <1>3. u \in Tables
    BY <1>1 DEF Good, Tables
  <1>4. Sound(u)
    BY <1>2, SameJournal DEF Good, Sound
  <1> QED
    BY <1>2, <1>3, <1>4 DEF Good, Grows

(* A source is taken, with the link when it was the last.                   *)
LEMMA RemovesSource ==
  ASSUME NEW t \in Tables, NEW v, NEW n, NEW kind,
         t.links = {<<s[1], s[2]>> : s \in t.sources}, NEW u,
         u = RemoveSource(t, v, n, kind)
  PROVE  /\ u \in Tables /\ u.evid = t.evid /\ u.ents = t.ents /\ u.types = t.types
         /\ u.rels = t.rels /\ u.relev = t.relev /\ u.journal = t.journal /\ u.obs = t.obs
         /\ u.sources = t.sources \ {<<v, n, kind>>}
         /\ u.links = {<<s[1], s[2]>> : s \in u.sources}
         /\ u.links \subseteq t.links /\ t.links \subseteq u.links \cup {<<v, n>>}
  <1>1. /\ u.evid = t.evid /\ u.ents = t.ents /\ u.types = t.types
        /\ u.rels = t.rels /\ u.relev = t.relev /\ u.journal = t.journal /\ u.obs = t.obs
        /\ u.sources = t.sources \ {<<v, n, kind>>}
        /\ u.links = IF Sources(t, v, n) \subseteq {<<v, n, kind>>}
                     THEN t.links \ {<<v, n>>} ELSE t.links
    BY DEF RemoveSource, Tables
  <1>2. u \in Tables
    BY DEF RemoveSource, Tables
  <1>3. t.sources \subseteq
          (Evidence \cup Dropped) \X Entities \X (Observations \cup {Manual})
    BY DEF Tables
  <1>4. ASSUME NEW s \in t.sources, s[1] = v, s[2] = n, s # <<v, n, kind>>
        PROVE  <<v, n>> \in {<<x[1], x[2]>> : x \in u.sources}
    BY <1>1, <1>4
  <1>5. u.links = {<<s[1], s[2]>> : s \in u.sources}
    <2>1. CASE Sources(t, v, n) \subseteq {<<v, n, kind>>}
      <3>1. u.links = t.links \ {<<v, n>>}
        BY <1>1, <2>1
      <3>2. \A s \in u.sources : <<s[1], s[2]>> # <<v, n>>
        BY <1>1, <2>1 DEF Sources
      <3>3. \A s \in t.sources : s \in u.sources \/ <<s[1], s[2]>> = <<v, n>>
        BY <1>1
      <3>4. u.sources \subseteq t.sources
        BY <1>1
      <3> QED
        BY <3>1, <3>2, <3>3, <3>4
    <2>2. CASE ~(Sources(t, v, n) \subseteq {<<v, n, kind>>})
      <3>1. u.links = t.links
        BY <1>1, <2>2
      <3>2. <<v, n>> \in {<<x[1], x[2]>> : x \in u.sources}
        BY <1>4, <2>2 DEF Sources
      <3>3. \A s \in t.sources : s \in u.sources \/ <<s[1], s[2]>> = <<v, n>>
        BY <1>1
      <3>4. u.sources \subseteq t.sources
        BY <1>1
      <3> QED
        BY <3>1, <3>2, <3>3, <3>4
    <2> QED
      BY <2>1, <2>2
  <1> QED
    BY <1>1, <1>2, <1>5

(* An observation is withdrawn, and what it gave a reason for with it.      *)
LEMMA Withdraws ==
  ASSUME NEW t, Good(t), NEW o \in Observations, NEW n \in Entities, t.obs[o].entity = n,
         NEW u, \/ u = Promote(RemoveSource(t, EvidenceOf[o], n, o), o, None)
                \/ u = RemoveSource(Promote(t, o, None), EvidenceOf[o], n, o)
  PROVE  /\ Good(u) /\ u.evid = t.evid /\ u.ents = t.ents /\ u.rels = t.rels
         /\ u.journal = t.journal /\ u.sources = t.sources \ {<<EvidenceOf[o], n, o>>}
         /\ t.links \subseteq u.links \cup {<<EvidenceOf[o], n>>}
         /\ u.obs[o].known = t.obs[o].known
         /\ \A x \in Observations \ {o} : u.obs[x] = t.obs[x]
  <1> DEFINE row == [t.obs[o] EXCEPT !.entity = None]
  <1>1. /\ t.obs \in [Observations -> ObsRow] /\ t \in Tables /\ Sound(t)
        /\ t.links = {<<s[1], s[2]>> : s \in t.sources}
    BY DEF Good, Tables, ObsRow, Sound
  <1>2. row \in ObsRow /\ row.known = t.obs[o].known /\ row.entity = None
    BY <1>1 DEF ObsRow
  <1>3. /\ u \in Tables /\ u.evid = t.evid /\ u.ents = t.ents /\ u.types = t.types
        /\ u.rels = t.rels /\ u.relev = t.relev /\ u.journal = t.journal
        /\ u.obs[o] = row /\ \A x \in Observations \ {o} : u.obs[x] = t.obs[x]
        /\ u.sources = t.sources \ {<<EvidenceOf[o], n, o>>}
        /\ u.links = {<<s[1], s[2]>> : s \in u.sources}
        /\ u.links \subseteq t.links /\ t.links \subseteq u.links \cup {<<EvidenceOf[o], n>>}
    <2>1. CASE u = Promote(RemoveSource(t, EvidenceOf[o], n, o), o, None)
      <3>1. PICK w : w = RemoveSource(t, EvidenceOf[o], n, o)
        OBVIOUS
      <3>2. w \in Tables /\ w.obs = t.obs
        BY <1>1, <3>1, RemovesSource
      <3>3. u = Observed(w, o, row)
        BY <2>1, <3>1, <3>2 DEF Promote
      <3> HIDE DEF row
      <3> QED
        <4>1. /\ u \in Tables /\ u.evid = w.evid /\ u.ents = w.ents /\ u.links = w.links
              /\ u.sources = w.sources /\ u.types = w.types /\ u.rels = w.rels
              /\ u.relev = w.relev /\ u.journal = w.journal
              /\ u.obs[o] = row /\ \A x \in Observations \ {o} : u.obs[x] = w.obs[x]
          BY <1>2, <3>2, <3>3, OneObserved
        <4> QED
          BY <1>1, <3>1, <3>2, <4>1, RemovesSource
    <2>2. CASE u = RemoveSource(Promote(t, o, None), EvidenceOf[o], n, o)
      <3>1. PICK w : w = Promote(t, o, None)
        OBVIOUS
      <3>2. w = Observed(t, o, row)
        BY <3>1 DEF Promote
      <3> HIDE DEF row
      <3>3. /\ w \in Tables /\ w.evid = t.evid /\ w.ents = t.ents /\ w.links = t.links
            /\ w.sources = t.sources /\ w.types = t.types /\ w.rels = t.rels
            /\ w.relev = t.relev /\ w.journal = t.journal
            /\ w.obs[o] = row /\ \A x \in Observations \ {o} : w.obs[x] = t.obs[x]
        BY <1>1, <1>2, <3>2, OneObserved, SMTT(30)
      <3>4. u = RemoveSource(w, EvidenceOf[o], n, o) /\ w.links = {<<s[1], s[2]>> : s \in w.sources}
        BY <1>1, <2>2, <3>1, <3>3
      <3> QED
        BY <3>3, <3>4, RemovesSource
    <2> QED
      BY <2>1, <2>2
  <1> HIDE DEF row
  <1>4. Sound(u)
    <2>1. ASSUME NEW x \in Observations
          PROVE  /\ u.obs[x].entity # None => /\ u.obs[x].known
                                              /\ <<EvidenceOf[x], u.obs[x].entity, x>> \in u.sources
                 /\ {j.rev : j \in Entries(u, x)} = 1..Revision(u, x)
      <3>1. {j.rev : j \in Entries(u, x)} = 1..Revision(u, x)
        <4>1. Entries(u, x) = Entries(t, x) /\ Revision(u, x) = Revision(t, x)
          BY <1>3, SameJournal
        <4>2. {j.rev : j \in Entries(t, x)} = 1..Revision(t, x)
          BY <1>1 DEF Sound
        <4> QED
          BY <4>1, <4>2
      <3>2. /\ t.obs[x].entity # None => /\ t.obs[x].known
                                         /\ <<EvidenceOf[x], t.obs[x].entity, x>> \in t.sources
        BY <1>1 DEF Sound
      <3>3. CASE x = o
        BY <1>2, <1>3, <3>1, <3>3
      <3>4. CASE x # o
        <4>1. u.obs[x] = t.obs[x]
          BY <1>3, <3>4
        <4>2. <<EvidenceOf[x], u.obs[x].entity, x>> # <<EvidenceOf[o], n, o>>
          BY <3>4
        <4> QED
          BY <1>3, <3>1, <3>2, <4>1, <4>2
      <3> QED
        BY <3>3, <3>4
    <2>2. u.links \subseteq u.evid \X u.ents
      BY <1>1, <1>3 DEF Sound
    <2> QED
      BY <1>1, <1>3, <2>1, <2>2 DEF Sound
  <1> QED
    BY <1>2, <1>3, <1>4 DEF Good

(* Another row of one observation, promoted only with a source of its own.  *)
LEMMA Reobserves ==
  ASSUME NEW t, Good(t), NEW o \in Observations, NEW row \in ObsRow,
         Founded(t, o, row),
         NEW u, u = Observed(t, o, row)
  PROVE  /\ Good(u) /\ Grows(t, u) /\ u.journal = t.journal
         /\ u.ents = t.ents /\ u.sources = t.sources /\ u.obs[o] = row
  <1>1. t \in Tables /\ Sound(t)
    BY DEF Good
  <1>2. /\ u \in Tables /\ u.evid = t.evid /\ u.ents = t.ents /\ u.links = t.links
        /\ u.sources = t.sources /\ u.types = t.types /\ u.rels = t.rels
        /\ u.relev = t.relev /\ u.journal = t.journal
        /\ u.obs[o] = row /\ \A x \in Observations \ {o} : u.obs[x] = t.obs[x]
    BY <1>1, OneObserved
  <1>3. Sound(u)
    <2>1. ASSUME NEW x \in Observations
          PROVE  /\ u.obs[x].entity # None => /\ u.obs[x].known
                                              /\ <<EvidenceOf[x], u.obs[x].entity, x>> \in u.sources
                 /\ {j.rev : j \in Entries(u, x)} = 1..Revision(u, x)
      <3>1. {j.rev : j \in Entries(u, x)} = 1..Revision(u, x)
        <4>1. Entries(u, x) = Entries(t, x) /\ Revision(u, x) = Revision(t, x)
          BY <1>2, SameJournal
        <4>2. {j.rev : j \in Entries(t, x)} = 1..Revision(t, x)
          BY <1>1 DEF Sound
        <4> QED
          BY <4>1, <4>2
      <3>2. /\ t.obs[x].entity # None => /\ t.obs[x].known
                                         /\ <<EvidenceOf[x], t.obs[x].entity, x>> \in t.sources
        BY <1>1 DEF Sound
      <3> QED
        BY <1>2, <3>1, <3>2 DEF Founded
    <2> QED
      BY <1>1, <1>2, <2>1 DEF Sound
  <1> QED
    BY <1>2, <1>3 DEF Good, Grows

LEMMA ObservedTyped ==
  ASSUME NEW t, Good(t), NEW o \in Observations
  PROVE  /\ t.obs[o] \in ObsRow
         /\ t.obs[o].entity # None =>
              t.obs[o].known /\ <<EvidenceOf[o], t.obs[o].entity, o>> \in t.sources
  BY DEF Good, Tables, ObsRow, Sound

LEMMA Promotes ==
  ASSUME NEW t, Good(t), NEW o \in Observations, NEW n \in Entities, t.obs[o].known,
         <<EvidenceOf[o], n, o>> \in t.sources
  PROVE  /\ Good(Promote(t, o, n)) /\ Grows(t, Promote(t, o, n))
         /\ Promote(t, o, n).journal = t.journal
  <1> DEFINE row == [t.obs[o] EXCEPT !.entity = n]
  <1>1. row \in ObsRow /\ row.known = t.obs[o].known /\ row.entity = n
    BY ObservedTyped DEF ObsRow
  <1>2. Promote(t, o, n) = Observed(t, o, row)
    BY DEF Promote
  <1> HIDE DEF row
  <1> QED
    <2>1. Founded(t, o, row)
      BY <1>1 DEF Founded
    <2> QED
      BY <1>1, <1>2, <2>1, Reobserves

LEMMA EvidenceStays ==
  ASSUME NEW t, Good(t), NEW o \in Observations
  PROVE  EvidenceOf[o] \in t.evid /\ EvidenceOf[o] \in Evidence
  BY RecordsAssumption DEF Good, Sound

LEMMA Attaches ==
  ASSUME NEW t, Good(t), NEW o \in Observations, NEW n \in Entities, n \in t.ents,
         t.obs[o].known, NEW u \in Attach(t, o, n)
  PROVE  Good(u) /\ Grows(t, u) /\ u.journal = t.journal
  <1> DEFINE w == [t EXCEPT !.links = @ \cup {<<EvidenceOf[o], n>>},
                            !.sources = @ \cup {<<EvidenceOf[o], n, o>>}]
  <1>1. u = Promote(w, o, n)
    BY DEF Attach, If
  <1>2. w \in AddSource(t, EvidenceOf[o], n, o)
    BY EvidenceStays DEF AddSource, If, EvidenceKnown, EntityKnown
  <1> HIDE DEF w
  <1>3. /\ Good(w) /\ Grows(t, w) /\ w.obs = t.obs /\ w.journal = t.journal
        /\ <<EvidenceOf[o], n, o>> \in w.sources
    BY <1>2, EvidenceStays, AddsSource
  <1>4. Good(u) /\ Grows(w, u) /\ u.journal = w.journal
    BY <1>1, <1>3, Promotes
  <1> QED
    BY <1>3, <1>4 DEF Grows

(* What a review may do to the observation o.                              *)
LEMMA Mutates ==
  ASSUME NEW t, Good(t), NEW o \in Observations, t.obs[o].known, NEW u \in Mutations(t, o)
  PROVE  /\ Good(u) /\ u.journal = t.journal /\ u.evid = t.evid /\ t.ents \subseteq u.ents
         /\ \A s \in t.sources \ u.sources : s[3] = o
  <1>1. ValueOf(t, o) \in Entities
    BY ObservedTyped, RecordsAssumption DEF ValueOf, ObsRow
  <1>2. CASE u \in Decided(t, o)
    BY <1>2 DEF Decided
  <1>3. CASE \E n \in Entities : u \in Corrected(t, o, n)
    <2>1. PICK n \in Entities : u = Observed(t, o, [t.obs[o] EXCEPT !.corrected = n])
      BY <1>3 DEF Corrected
    <2> DEFINE row == [t.obs[o] EXCEPT !.corrected = n]
    <2>2. t.obs[o].entity # None => t.obs[o].known /\ <<EvidenceOf[o], t.obs[o].entity, o>> \in t.sources
      BY ObservedTyped
    <2>3. row \in ObsRow /\ row.known = t.obs[o].known /\ row.entity = t.obs[o].entity
      BY ObservedTyped DEF ObsRow
    <2>4. u = Observed(t, o, row)
      BY <2>1
    <2> HIDE DEF row
    <2>5. Good(u) /\ Grows(t, u) /\ u.journal = t.journal
      <3>1. Founded(t, o, row)
        BY <2>2, <2>3 DEF Founded
      <3> QED
        BY <2>3, <2>4, <3>1, Reobserves
    <2> QED
      BY <2>5 DEF Grows
  <1>4. CASE u \in PromoteCreate(t, o)
    <2>1. PICK w \in InsertEntity(t, ValueOf(t, o)) : u \in Attach(w, o, ValueOf(t, o))
      BY <1>4 DEF PromoteCreate
    <2>2. /\ Good(w) /\ Grows(t, w) /\ w.obs = t.obs /\ w.journal = t.journal
          /\ ValueOf(t, o) \in w.ents
      BY <1>1, <2>1, InsertsEntity
    <2>3. Good(u) /\ Grows(w, u) /\ u.journal = w.journal
      BY <1>1, <2>1, <2>2, Attaches
    <2> QED
      BY <2>2, <2>3 DEF Grows
  <1>5. CASE u \in PromoteAttach(t, o)
    <2>1. ValueOf(t, o) \in t.ents /\ u \in Attach(t, o, ValueOf(t, o))
      BY <1>5 DEF PromoteAttach
    <2>2. Good(u) /\ Grows(t, u) /\ u.journal = t.journal
      BY <1>1, <2>1, Attaches
    <2> QED
      BY <2>2 DEF Grows
  <1>6. CASE u \in Withdraw(t, o)
    <2>1. PICK n \in Entities : n = t.obs[o].entity
      BY <1>6, ObservedTyped DEF Withdraw, If, ObsRow
    <2>2. u = Promote(RemoveSource(t, EvidenceOf[o], n, o), o, None)
      BY <1>6, <2>1 DEF Withdraw, If
    <2>3. /\ Good(u) /\ u.evid = t.evid /\ u.ents = t.ents
          /\ u.journal = t.journal /\ u.sources = t.sources \ {<<EvidenceOf[o], n, o>>}
      BY <2>1, <2>2, Withdraws
    <2> QED
      BY <2>3
  <1> QED
    <2>1. \/ u \in Decided(t, o) \/ \E n \in Entities : u \in Corrected(t, o, n)
          \/ u \in PromoteCreate(t, o) \/ u \in PromoteAttach(t, o) \/ u \in Withdraw(t, o)
      <3>1. u \in UNION {Corrected(t, o, n) : n \in Entities} =>
              \E n \in Entities : u \in Corrected(t, o, n)
        OBVIOUS
      <3> QED
        BY <3>1 DEF Mutations
    <2> QED
      BY <1>2, <1>3, <1>4, <1>5, <1>6, <2>1

(* A review is numbered after those of its observation.                     *)
LEMMA Journals ==
  ASSUME NEW t, Good(t), NEW o \in Observations, NEW op \in Ops,
         NEW u, u = [t EXCEPT !.journal = @ \cup {[op |-> op, obs |-> o, rev |-> Revision(t, o) + 1]}]
  PROVE  /\ Good(u) /\ u.evid = t.evid /\ u.ents = t.ents /\ u.sources = t.sources
  <1> DEFINE k == Revision(t, o)
             j == [op |-> op, obs |-> o, rev |-> k + 1]
  <1>1. /\ t \in Tables /\ Sound(t) /\ IsFiniteSet(t.journal)
        /\ t.journal \subseteq [op : Ops, obs : Observations, rev : Nat]
    BY DEF Good, Tables, Sound
  <1>2. \A x : IsFiniteSet(Entries(t, x)) /\ Revision(t, x) \in Nat
    BY <1>1, FS_Subset, FS_CardinalityType DEF Entries, Revision
  <1>3. j \in [op : Ops, obs : Observations, rev : Nat]
    BY <1>2
  <1>4. /\ u.evid = t.evid /\ u.ents = t.ents /\ u.links = t.links
        /\ u.sources = t.sources /\ u.types = t.types /\ u.obs = t.obs
        /\ u.rels = t.rels /\ u.relev = t.relev /\ u.journal = t.journal \cup {j}
    BY <1>1 DEF Tables
  <1>5. u \in Tables
    <2> HIDE DEF j
    <2>1. t.journal \cup {j} \in SUBSET [op : Ops, obs : Observations, rev : Nat]
      BY <1>1, <1>3
    <2>2. u = [t EXCEPT !.journal = t.journal \cup {j}]
      BY DEF j
    <2> QED
      BY <1>1, <2>1, <2>2 DEF Tables
  <1>6. j.rev = k + 1 /\ j.obs = o
    OBVIOUS
  <1>7. {x.rev : x \in Entries(t, o)} = 1..k /\ k \in Nat
    BY <1>1, <1>2 DEF Sound
  <1>8. j \notin Entries(t, o)
    <2>1. k + 1 \notin 1..k
      BY <1>7
    <2> QED
      BY <1>6, <1>7, <2>1
  <1> HIDE DEF j
  <1>9. Entries(u, o) = Entries(t, o) \cup {j}
    BY <1>4, <1>6 DEF Entries
  <1>10. Revision(u, o) = k + 1
    BY <1>2, <1>8, <1>9, FS_AddElement DEF Revision
  <1>11. {x.rev : x \in Entries(u, o)} = 1..(k + 1)
    <2>1. {x.rev : x \in Entries(u, o)} = {x.rev : x \in Entries(t, o)} \cup {j.rev}
      BY <1>9
    <2>2. 1..(k + 1) = 1..k \cup {k + 1}
      BY <1>7
    <2> QED
      BY <1>6, <1>7, <2>1, <2>2
  <1>12. ASSUME NEW x \in Observations
         PROVE  {y.rev : y \in Entries(u, x)} = 1..Revision(u, x)
    <2>1. CASE x = o
      BY <1>10, <1>11, <2>1
    <2>2. CASE x # o
      <3>1. Entries(u, x) = Entries(t, x)
        BY <1>4, <1>6, <2>2 DEF Entries
      <3>2. {y.rev : y \in Entries(t, x)} = 1..Revision(t, x)
        BY <1>1 DEF Sound
      <3> QED
        BY <3>1, <3>2 DEF Revision
    <2> QED
      BY <2>1, <2>2
  <1>13. IsFiniteSet(u.journal)
    BY <1>1, <1>4, FS_AddElement
  <1>14. Sound(u)
    <2>1. ASSUME NEW x \in Observations
          PROVE  u.obs[x].entity # None =>
                   u.obs[x].known /\ <<EvidenceOf[x], u.obs[x].entity, x>> \in u.sources
      BY <1>1, <1>4 DEF Sound
    <2> QED
      <3>1. /\ Evidence \subseteq u.evid /\ u.links \subseteq u.evid \X u.ents
            /\ u.links = {<<s[1], s[2]>> : s \in u.sources}
            /\ \A r \in u.rels : {r[1][1], r[1][2]} \subseteq u.ents /\ r[2] \in u.types
            /\ \A x \in u.relev : x[1] \in u.rels /\ x[2] \in u.evid
        BY <1>1, <1>4 DEF Sound
      <3> QED
        BY <1>12, <1>13, <2>1, <3>1 DEF Sound
  <1> QED
    BY <1>4, <1>5, <1>14 DEF Good

(* What the integration of an e-mail does with an observation.             *)
LEMMA Proposes ==
  ASSUME NEW t, Good(t), NEW o \in Observations, NEW promote \in BOOLEAN,
         NEW u \in Propose(t, o, promote)
  PROVE  Good(u) /\ Grows(t, u)
  <1> DEFINE row   == [t.obs[o] EXCEPT !.known = TRUE]
             known == Observed(t, o, row)
             n     == Extracted[o]
             found == [known EXCEPT !.ents = @ \cup {n}]
  <1>1. /\ row \in ObsRow /\ row.known = TRUE /\ row.entity = t.obs[o].entity
        /\ n \in Entities
    BY ObservedTyped, RecordsAssumption DEF ObsRow
  <1>2. Founded(t, o, row)
    BY <1>1, ObservedTyped DEF Founded
  <1> HIDE DEF row, n
  <1>3. Good(known) /\ Grows(t, known) /\ known.obs[o] = row
    BY <1>1, <1>2, Reobserves
  <1>4. CASE ~promote
    BY <1>3, <1>4 DEF Propose, row
  <1>5. CASE promote
    <2>1. PICK w \in AddSource(found, EvidenceOf[o], n, o) :
            u = IF w.obs[o].entity \in {None, n} THEN Promote(w, o, n) ELSE w
      BY <1>5 DEF Propose, row, n
    <2> HIDE DEF known
    <2>2. Good(found) /\ Grows(known, found) /\ found.obs = known.obs
      <3>1. CASE n \in known.ents
        <4>1. known.ents \cup {n} = known.ents
          BY <3>1
        <4>2. found = known
          BY <1>3, <4>1 DEF Good, Tables
        <4> QED
          BY <1>3, <4>2 DEF Grows
      <3>2. CASE n \notin known.ents
        <4>1. found \in InsertEntity(known, n)
          BY <3>2 DEF InsertEntity, If, EntityKnown
        <4> HIDE DEF found
        <4> QED
          BY <1>1, <1>3, <4>1, InsertsEntity
      <3> QED
        BY <3>1, <3>2
    <2> HIDE DEF found
    <2>3. /\ Good(w) /\ Grows(found, w) /\ w.obs = found.obs
          /\ <<EvidenceOf[o], n, o>> \in w.sources
      BY <1>1, <2>1, <2>2, EvidenceStays, AddsSource
    <2>4. w.obs[o].known
      <3>1. w.obs[o] = row
        BY <1>3, <2>2, <2>3
      <3> QED
        BY <1>1, <3>1
    <2>5. Good(Promote(w, o, n)) /\ Grows(w, Promote(w, o, n))
      BY <1>1, <2>3, <2>4, Promotes
    <2>6. Good(u) /\ Grows(w, u)
      BY <2>1, <2>3, <2>5 DEF Grows
    <2> QED
      BY <1>3, <2>2, <2>3, <2>6 DEF Grows
  <1> QED
    BY <1>4, <1>5

(* An entity goes when nothing uses it.                                    *)
LEMMA Deletes ==
  ASSUME NEW t, Good(t), NEW n \in Entities, UsesOf(t, n) = {}, NEW u \in DeleteEntity(t, n)
  PROVE  /\ Good(u) /\ u.sources = t.sources /\ u.evid = t.evid /\ u.ents = t.ents \ {n}
  <1> DEFINE obs == [o \in Observations |->
                   IF t.obs[o].entity = n THEN [t.obs[o] EXCEPT !.entity = None] ELSE t.obs[o]]
  <1>1. u = [t EXCEPT !.ents = @ \ {n}, !.obs = obs]
    BY DEF DeleteEntity, If
  <1>2. /\ t \in Tables /\ Sound(t) /\ t.obs \in [Observations -> ObsRow]
    BY DEF Good, Tables, ObsRow
  <1>3. /\ \A o \in Observations : t.obs[o].entity # n
        /\ \A l \in t.links : l[2] # n
        /\ \A r \in t.rels : n # r[1][1] /\ n # r[1][2]
    BY DEF UsesOf
  <1>4. obs = t.obs
    BY <1>2, <1>3
  <1> HIDE DEF obs
  <1>5. /\ u.evid = t.evid /\ u.ents = t.ents \ {n} /\ u.links = t.links
        /\ u.sources = t.sources /\ u.types = t.types
        /\ u.rels = t.rels /\ u.relev = t.relev /\ u.journal = t.journal /\ u.obs = t.obs
    BY <1>1, <1>2, <1>4 DEF Tables
  <1>6. u \in Tables
    BY <1>1, <1>2, <1>4 DEF Tables
  <1>7. Sound(u)
    <2>1. u.links \subseteq u.evid \X u.ents
      BY <1>2, <1>3, <1>5 DEF Sound
    <2>2. \A r \in u.rels : {r[1][1], r[1][2]} \subseteq u.ents /\ r[2] \in u.types
      BY <1>2, <1>3, <1>5 DEF Sound
    <2>3. \A o \in Observations : LET m == u.obs[o].entity IN
            /\ m # None => u.obs[o].known /\ <<EvidenceOf[o], m, o>> \in u.sources
            /\ {j.rev : j \in Entries(u, o)} = 1..Revision(u, o)
      BY <1>2, <1>5, SameJournal DEF Sound
    <2> QED
      BY <1>2, <1>5, <2>1, <2>2, <2>3 DEF Sound
  <1> QED
    BY <1>5, <1>6, <1>7 DEF Good

(* Statements that leave evidence, entities, links and observations alone.  *)
WithRelations(t, rels, types, relev) ==
  [t EXCEPT !.rels = rels, !.types = types, !.relev = relev]

Fitting(t, rels, types, relev) ==
  /\ rels \in SUBSET (Pairs \X Types) /\ types \in SUBSET Types
  /\ relev \in SUBSET ((Pairs \X Types) \X Evidence)
  /\ \A r \in rels : {r[1][1], r[1][2]} \subseteq t.ents /\ r[2] \in types
  /\ \A x \in relev : x[1] \in rels /\ x[2] \in t.evid

LEMMA RelationsOnly ==
  ASSUME NEW t, Good(t), NEW rels, NEW types, NEW relev, Fitting(t, rels, types, relev),
         NEW u, u = WithRelations(t, rels, types, relev)
  PROVE  Good(u) /\ Grows(t, u) /\ u.ents = t.ents /\ u.sources = t.sources
  <1>1. /\ u.evid = t.evid /\ u.ents = t.ents /\ u.links = t.links
        /\ u.sources = t.sources /\ u.types = types
        /\ u.rels = rels /\ u.relev = relev /\ u.journal = t.journal /\ u.obs = t.obs
    BY DEF Good, Tables, WithRelations
  <1>2. u \in Tables
    BY DEF Good, Tables, WithRelations, Fitting
  <1>3. Sound(u)
    <2>1. ASSUME NEW o \in Observations
          PROVE  /\ u.obs[o].entity # None =>
                      u.obs[o].known /\ <<EvidenceOf[o], u.obs[o].entity, o>> \in u.sources
                 /\ {j.rev : j \in Entries(u, o)} = 1..Revision(u, o)
      <3>1. Entries(u, o) = Entries(t, o) /\ Revision(u, o) = Revision(t, o)
        BY <1>1, SameJournal
      <3>2. {j.rev : j \in Entries(t, o)} = 1..Revision(t, o)
        BY DEF Good, Sound
      <3> QED
        BY <1>1, <3>1, <3>2, ObservedTyped
    <2>2. /\ Evidence \subseteq u.evid /\ u.links \subseteq u.evid \X u.ents
          /\ u.links = {<<s[1], s[2]>> : s \in u.sources} /\ IsFiniteSet(u.journal)
      BY <1>1 DEF Good, Sound
    <2> QED
      BY <1>1, <2>1, <2>2 DEF Sound, Fitting
  <1> QED
    BY <1>1, <1>2, <1>3 DEF Good, Grows

LEMMA TablesOf ==
  ASSUME NEW t, Good(t)
  PROVE  t \in Tables /\ Fitting(t, t.rels, t.types, t.relev)
  BY DEF Good, Tables, Sound, Fitting

LEMMA InsertsRelation ==
  ASSUME NEW t, Good(t), NEW r \in Pairs \X Types, NEW u \in InsertRelation(t, r)
  PROVE  Good(u) /\ Grows(t, u)
  <1>1. /\ u = [t EXCEPT !.rels = t.rels \cup {r}] /\ {r[1][1], r[1][2]} \subseteq t.ents
        /\ r[2] \in t.types
    BY DEF InsertRelation, If, EndsKnown, EntityKnown
  <1>2. u = WithRelations(t, t.rels \cup {r}, t.types, t.relev)
    BY <1>1, TablesOf DEF Tables, WithRelations
  <1>3. Fitting(t, t.rels \cup {r}, t.types, t.relev)
    BY <1>1, TablesOf DEF Fitting
  <1> QED
    BY <1>2, <1>3, RelationsOnly

LEMMA LinksRelation ==
  ASSUME NEW t, Good(t), NEW r, NEW v \in Evidence, NEW u \in LinkRelation(t, r, v)
  PROVE  Good(u) /\ Grows(t, u)
  <1>1. u = [t EXCEPT !.relev = t.relev \cup {<<r, v>>}] /\ r \in t.rels /\ v \in t.evid
    BY DEF LinkRelation, If, Related, EvidenceKnown
  <1>2. u = WithRelations(t, t.rels, t.types, t.relev \cup {<<r, v>>})
    BY <1>1, TablesOf DEF Tables, WithRelations
  <1>3. Fitting(t, t.rels, t.types, t.relev \cup {<<r, v>>})
    BY <1>1, TablesOf DEF Fitting
  <1> QED
    BY <1>2, <1>3, RelationsOnly

LEMMA Trims ==
  ASSUME NEW t, Good(t), NEW u,
         \/ \E r, v : u \in UnlinkRelation(t, r, v)
         \/ \E r : u \in DeleteRelation(t, r)
         \/ \E y \in Types : u \in InsertType(t, y) \/ u \in DeleteType(t, y)
  PROVE  Good(u) /\ Grows(t, u) /\ u.ents = t.ents /\ u.sources = t.sources
  <1>1. ASSUME NEW r, NEW v, u \in UnlinkRelation(t, r, v)
        PROVE  Good(u) /\ Grows(t, u) /\ u.ents = t.ents /\ u.sources = t.sources
    <2>1. u = WithRelations(t, t.rels, t.types, t.relev \ {<<r, v>>})
      BY <1>1, TablesOf DEF UnlinkRelation, If, Tables, WithRelations
    <2>2. Fitting(t, t.rels, t.types, t.relev \ {<<r, v>>})
      BY TablesOf DEF Fitting
    <2> QED
      BY <2>1, <2>2, RelationsOnly
  <1>2. ASSUME NEW r, u \in DeleteRelation(t, r)
        PROVE  Good(u) /\ Grows(t, u) /\ u.ents = t.ents /\ u.sources = t.sources
    <2>1. u = WithRelations(t, t.rels \ {r}, t.types, {x \in t.relev : x[1] # r})
      BY <1>2, TablesOf DEF DeleteRelation, If, Tables, WithRelations
    <2>2. Fitting(t, t.rels \ {r}, t.types, {x \in t.relev : x[1] # r})
      BY TablesOf DEF Fitting
    <2> QED
      BY <2>1, <2>2, RelationsOnly
  <1>3. ASSUME NEW y \in Types, u \in InsertType(t, y)
        PROVE  Good(u) /\ Grows(t, u) /\ u.ents = t.ents /\ u.sources = t.sources
    <2>1. u = WithRelations(t, t.rels, t.types \cup {y}, t.relev)
      BY <1>3, TablesOf DEF InsertType, If, Tables, WithRelations
    <2>2. Fitting(t, t.rels, t.types \cup {y}, t.relev)
      BY TablesOf DEF Fitting
    <2> QED
      BY <2>1, <2>2, RelationsOnly
  <1>4. ASSUME NEW y \in Types, u \in DeleteType(t, y)
        PROVE  Good(u) /\ Grows(t, u) /\ u.ents = t.ents /\ u.sources = t.sources
    <2>1. u = WithRelations(t, t.rels, t.types \ {y}, t.relev)
      BY <1>4, TablesOf DEF DeleteType, If, Tables, WithRelations
    <2>2. \A r \in t.rels : r[2] # y
      BY <1>4 DEF DeleteType, If, InUse
    <2>3. Fitting(t, t.rels, t.types \ {y}, t.relev)
      BY <2>2, TablesOf DEF Fitting
    <2> QED
      BY <2>1, <2>3, RelationsOnly
  <1> QED
    BY <1>1, <1>2, <1>3, <1>4

(* The relations of one type become relations of another.                   *)
LEMMA Merges ==
  ASSUME NEW t, Good(t), NEW from \in t.types, NEW to \in t.types, from # to,
         NEW u, u = MergedTypes(t, from, to)
  PROVE  Good(u) /\ Grows(t, u)
  <1> DEFINE rels  == {Retyped(r, from, to) : r \in t.rels}
             relev == {<<Retyped(x[1], from, to), x[2]>> : x \in t.relev}
             types == t.types \ {from}
  <1>1. u = WithRelations(t, rels, types, relev)
    BY DEF MergedTypes, WithRelations
  <1>2. /\ t.rels \in SUBSET (Pairs \X Types) /\ t.types \in SUBSET Types
        /\ t.relev \in SUBSET ((Pairs \X Types) \X Evidence)
        /\ \A r \in t.rels : {r[1][1], r[1][2]} \subseteq t.ents /\ r[2] \in t.types
        /\ \A x \in t.relev : x[1] \in t.rels /\ x[2] \in t.evid
    BY TablesOf DEF Fitting
  <1>3. \A r \in t.rels : LET s == Retyped(r, from, to) IN
          /\ s \in Pairs \X Types /\ s[1] = r[1] /\ s[2] \in types
          /\ {s[1][1], s[1][2]} \subseteq t.ents
    BY <1>2 DEF Retyped
  <1>4. \A x \in t.relev : LET s == Retyped(x[1], from, to) IN
          /\ s \in rels /\ s \in Pairs \X Types
          /\ x[2] \in t.evid /\ x[2] \in Evidence
    BY <1>2, <1>3
  <1>5. rels \in SUBSET (Pairs \X Types) /\ types \in SUBSET Types
    BY <1>2, <1>3
  <1>6. \A r \in rels : {r[1][1], r[1][2]} \subseteq t.ents /\ r[2] \in types
    BY <1>3
  <1>7. relev \in SUBSET ((Pairs \X Types) \X Evidence)
    BY <1>4
  <1>8. \A x \in relev : x[1] \in rels /\ x[2] \in t.evid
    <2> SUFFICES ASSUME NEW x \in relev PROVE x[1] \in rels /\ x[2] \in t.evid
      OBVIOUS
    <2>1. PICK y \in t.relev : x = <<Retyped(y[1], from, to), y[2]>>
      OBVIOUS
    <2> HIDE DEF rels
    <2> QED
      BY <1>4, <2>1
  <1> HIDE DEF rels, relev, types
  <1> QED
    BY <1>1, <1>5, <1>6, <1>7, <1>8, RelationsOnly DEF Fitting

(* An entity is created, with its evidence when there is one.               *)
LEMMA CreatesEntity ==
  ASSUME NEW t, Good(t), NEW n \in Entities, NEW proof \in Evidence \cup {None}, NEW u,
         u \in IF proof = None THEN InsertEntity(t, n)
               ELSE UNION {LinkEvidence(x, proof, n) : x \in InsertEntity(t, n)}
  PROVE  Good(u) /\ Grows(t, u)
  <1>1. CASE proof = None
    BY <1>1, InsertsEntity
  <1>2. CASE proof # None
    <2>1. PICK x \in InsertEntity(t, n) : u \in AddSource(x, proof, n, Manual)
      BY <1>2 DEF LinkEvidence
    <2>2. Good(x) /\ Grows(t, x)
      BY <2>1, InsertsEntity
    <2>3. Good(u) /\ Grows(x, u)
      BY <1>2, <2>1, <2>2, AddsSource
    <2> QED
      BY <2>2, <2>3 DEF Grows
  <1> QED
    BY <1>1, <1>2

(* A file becomes evidence, and an entity is linked to it.                  *)
LEMMA InsertsEvidence ==
  ASSUME NEW t, Good(t), NEW f \in Dropped, NEW u \in EnsureEvidence(t, f)
  PROVE  /\ Good(u) /\ u.sources = t.sources /\ u.ents = t.ents
         /\ u.evid = t.evid \cup {f}
  <1>1. CASE f \in t.evid
    <2>1. u = t /\ t.evid \cup {f} = t.evid
      BY <1>1 DEF EnsureEvidence, EvidenceKnown
    <2> QED
      BY <2>1
  <1>2. CASE f \notin t.evid
    <2>1. u = [t EXCEPT !.evid = t.evid \cup {f}]
      BY <1>2 DEF EnsureEvidence, EvidenceKnown, InsertEvidence, If
    <2>2. /\ u.evid = t.evid \cup {f} /\ u.ents = t.ents /\ u.links = t.links
          /\ u.sources = t.sources /\ u.types = t.types
          /\ u.rels = t.rels /\ u.relev = t.relev /\ u.journal = t.journal /\ u.obs = t.obs
      BY <2>1 DEF Good, Tables
    <2>3. u \in Tables
      BY <2>1 DEF Good, Tables
    <2>4. Sound(u)
      <3>1. ASSUME NEW o \in Observations
            PROVE  /\ u.obs[o].entity # None =>
                        u.obs[o].known /\ <<EvidenceOf[o], u.obs[o].entity, o>> \in u.sources
                   /\ {j.rev : j \in Entries(u, o)} = 1..Revision(u, o)
        <4>1. Entries(u, o) = Entries(t, o) /\ Revision(u, o) = Revision(t, o)
          BY <2>2, SameJournal
        <4>2. {j.rev : j \in Entries(t, o)} = 1..Revision(t, o)
          BY DEF Good, Sound
        <4> QED
          BY <2>2, <4>1, <4>2, ObservedTyped
      <3>2. /\ Evidence \subseteq u.evid /\ u.links \subseteq u.evid \X u.ents
            /\ u.links = {<<s[1], s[2]>> : s \in u.sources} /\ IsFiniteSet(u.journal)
            /\ \A r \in u.rels : {r[1][1], r[1][2]} \subseteq u.ents /\ r[2] \in u.types
            /\ \A x \in u.relev : x[1] \in u.rels /\ x[2] \in u.evid
        BY <2>2 DEF Good, Sound
      <3> QED
        BY <3>1, <3>2 DEF Sound
    <2> QED
      BY <2>2, <2>3, <2>4 DEF Good
  <1> QED
    BY <1>1, <1>2

LEMMA Drops ==
  ASSUME NEW t, Good(t), NEW f \in Dropped, NEW n \in Entities, NEW u,
         u \in UNION {LinkEvidence(x, f, n) :
                        x \in UNION {EnsureEvidence(y, f) : y \in {t} \cup InsertEntity(t, n)}}
  PROVE  /\ Good(u) /\ t.sources \subseteq u.sources /\ t.ents \subseteq u.ents
         /\ u.evid = t.evid \cup {f} /\ <<f, n, Manual>> \in u.sources /\ n \in u.ents
  <1>1. PICK y \in {t} \cup InsertEntity(t, n) : \E x \in EnsureEvidence(y, f) :
               u \in LinkEvidence(x, f, n)
    OBVIOUS
  <1>2. PICK x \in EnsureEvidence(y, f) : u \in AddSource(x, f, n, Manual)
    BY <1>1 DEF LinkEvidence
  <1>3. Good(y) /\ Grows(t, y)
    BY <1>1, InsertsEntity DEF Grows
  <1>4. Good(x) /\ x.sources = y.sources /\ x.ents = y.ents /\ x.evid = y.evid \cup {f}
    BY <1>2, <1>3, InsertsEvidence
  <1>5. Good(u) /\ Grows(x, u) /\ <<f, n, Manual>> \in u.sources
    BY <1>2, <1>4, AddsSource
  <1>6. n \in x.ents
    BY <1>2 DEF AddSource, If, EntityKnown
  <1> QED
    BY <1>3, <1>4, <1>5, <1>6 DEF Grows

(* The answer of a resolver: an entity and a relation to it.                *)
LEMMA ResolvesTo ==
  ASSUME NEW t, Good(t), NEW seen, NEW n, NEW r \in Pairs \X Types,
         NEW u \in DnsOf(t, seen, n, r)
  PROVE  Good(u) /\ Grows(t, u)
  <1>1. r[1][2] \in Entities
    BY RecordsAssumption
  <1>2. PICK x \in IF r[1][2] \in seen.ents THEN If(EntityKnown(t, r[1][2]), t)
                   ELSE InsertEntity(t, r[1][2]) :
               u \in IF r \in seen.rels THEN If(Related(t, r), x) ELSE InsertRelation(x, r)
    BY DEF DnsOf
  <1>3. Good(x) /\ Grows(t, x)
    BY <1>1, <1>2, InsertsEntity DEF If, Grows
  <1>4. u = x \/ u \in InsertRelation(x, r)
    BY <1>2 DEF If
  <1>5. Good(u) /\ Grows(x, u)
    BY <1>3, <1>4, InsertsRelation DEF Grows
  <1> QED
    BY <1>3, <1>5 DEF Grows

(* The manual link of an entity is taken.                                  *)
LEMMA Unlinks ==
  ASSUME NEW t, Good(t), NEW v, NEW n, NEW u, u = RemoveSource(t, v, n, Manual)
  PROVE  /\ Good(u) /\ u.evid = t.evid /\ u.ents = t.ents
         /\ u.sources = t.sources \ {<<v, n, Manual>>}
  <1>1. t \in Tables /\ Sound(t) /\ t.links = {<<s[1], s[2]>> : s \in t.sources}
    BY DEF Good, Sound
  <1>2. /\ u \in Tables /\ u.evid = t.evid /\ u.ents = t.ents /\ u.types = t.types
        /\ u.rels = t.rels /\ u.relev = t.relev /\ u.journal = t.journal /\ u.obs = t.obs
        /\ u.sources = t.sources \ {<<v, n, Manual>>}
        /\ u.links = {<<s[1], s[2]>> : s \in u.sources} /\ u.links \subseteq t.links
    BY <1>1, RemovesSource
  <1>3. ASSUME NEW o \in Observations
        PROVE  /\ u.obs[o].entity # None =>
                    u.obs[o].known /\ <<EvidenceOf[o], u.obs[o].entity, o>> \in u.sources
               /\ {j.rev : j \in Entries(u, o)} = 1..Revision(u, o)
    <2>1. Entries(u, o) = Entries(t, o) /\ Revision(u, o) = Revision(t, o)
      BY <1>2, SameJournal
    <2>2. {j.rev : j \in Entries(t, o)} = 1..Revision(t, o)
      BY <1>1 DEF Sound
    <2>3. <<EvidenceOf[o], u.obs[o].entity, o>> # <<v, n, Manual>>
      BY RecordsAssumption
    <2>4. /\ t.obs[o].entity # None =>
               t.obs[o].known /\ <<EvidenceOf[o], t.obs[o].entity, o>> \in t.sources
      BY ObservedTyped
    <2> QED
      BY <1>2, <2>1, <2>2, <2>3, <2>4
  <1>4. /\ Evidence \subseteq u.evid /\ u.links \subseteq u.evid \X u.ents
        /\ IsFiniteSet(u.journal)
        /\ \A r \in u.rels : {r[1][1], r[1][2]} \subseteq u.ents /\ r[2] \in u.types
        /\ \A x \in u.relev : x[1] \in u.rels /\ x[2] \in u.evid
    BY <1>1, <1>2 DEF Sound
  <1> QED
    BY <1>2, <1>3, <1>4 DEF Good, Sound

(* The promotion of an observation is removed, with its entity when nothing *)
(* else uses it.                                                           *)
LEMMA RemovesPromotion ==
  ASSUME NEW t, Good(t), NEW o \in Observations, NEW n \in Entities, t.obs[o].entity = n,
         NEW cut, cut = RemoveSource(Promote(t, o, None), EvidenceOf[o], n, o),
         NEW u, UsesOf(cut, n) = {} => u \in DeleteEntity(cut, n),
         UsesOf(cut, n) # {} => u = cut
  PROVE  /\ Good(u) /\ u.evid = t.evid
         /\ \A s \in t.sources \ u.sources : s[3] = o
         /\ \A m \in t.ents \ u.ents : UsesOf(t, m) \subseteq {o, <<EvidenceOf[o], m>>}
  <1>1. /\ Good(cut) /\ cut.evid = t.evid /\ cut.ents = t.ents /\ cut.rels = t.rels
        /\ cut.sources = t.sources \ {<<EvidenceOf[o], n, o>>}
        /\ t.links \subseteq cut.links \cup {<<EvidenceOf[o], n>>}
        /\ \A x \in Observations \ {o} : cut.obs[x] = t.obs[x]
    BY Withdraws
  <1>2. CASE UsesOf(cut, n) = {}
    <2>1. /\ Good(u) /\ u.sources = cut.sources /\ u.evid = cut.evid
          /\ u.ents = cut.ents \ {n}
      BY <1>1, <1>2, Deletes
    <2>2. UsesOf(t, n) \subseteq {o, <<EvidenceOf[o], n>>}
      <3>1. /\ \A x \in Observations : cut.obs[x].entity # n
            /\ \A l \in cut.links : l[2] # n
            /\ \A r \in cut.rels : n \notin {r[1][1], r[1][2]}
        BY <1>2 DEF UsesOf
      <3>2. \A x \in Observations : t.obs[x].entity = n => x = o
        BY <1>1, <3>1
      <3>3. \A l \in t.links : l[2] = n => l = <<EvidenceOf[o], n>>
        BY <1>1, <3>1
      <3> QED
        BY <1>1, <3>1, <3>2, <3>3 DEF UsesOf
    <2> QED
      BY <1>1, <2>1, <2>2
  <1>3. CASE UsesOf(cut, n) # {}
    BY <1>1, <1>3
  <1> QED
    BY <1>2, <1>3

-----------------------------------------------------------------------------
Abouts == Observations \cup Entities \cup (Pairs \X Types) \cup {None}
Writes == {"review", "integrate", "remove", "relation", "merge", "entity", "dns", "drop",
           "unlink"}

LEMMA RecordsKnown ==
  ASSUME RecordsIInv
  PROVE  /\ Good(db) /\ conn \in [Conns -> Rows] /\ commits \in Nat
         /\ \A c \in Conns : conn[c].tx => commits < MaxCommits /\ Good(conn[c].work)
         /\ \A c \in Conns : ~conn[c].tx => \A u \in {db} : Good(u)
  BY RecordsAssumption DEF RecordsIInv, Good

(* A call that adds to the tables does only what it may.                    *)
LEMMA GrowsExact ==
  ASSUME NEW b, NEW t, Grows(b, t), NEW call, NEW about
  PROVE  Exact(b, t, call, about)
  BY DEF Grows, Exact

LEMMA GrowsFurther ==
  ASSUME NEW b, NEW t, NEW u, NEW call, NEW about, Exact(b, t, call, about), Grows(t, u)
  PROVE  Exact(b, u, call, about)
  BY DEF Grows, Exact

(* A connection's row changes, and its tables with it.                      *)
LEMMA RowStep ==
  ASSUME RecordsIInv, NEW c \in Conns, NEW row \in Rows, UNCHANGED <<db, commits>>,
         conn' = [conn EXCEPT ![c] = row],
         row.tx => /\ commits < MaxCommits /\ Good(row.work)
                   /\ row.call # "none" => Exact(db, row.work, row.call, row.about)
                   /\ \A d \in Conns : conn[d].tx => d = c
  PROVE  RecordsIInv'
  <1>1. conn \in [Conns -> Rows] /\ db \in Tables /\ Sound(db)
    BY DEF RecordsIInv
  <1>2. conn' \in [Conns -> Rows] /\ conn'[c] = row /\ \A d \in Conns \ {c} : conn'[d] = conn[d]
    BY <1>1
  <1>3. ASSUME NEW d \in Conns, conn'[d].tx
        PROVE  /\ commits < MaxCommits
               /\ conn'[d].work \in Tables /\ Sound(conn'[d].work)
               /\ conn'[d].call # "none" =>
                    Exact(db, conn'[d].work, conn'[d].call, conn'[d].about)
               /\ \A e \in Conns : conn'[e].tx => d = e
    <2>1. CASE d = c
      BY <1>2, <1>3, <2>1 DEF Good
    <2>2. CASE d # c
      <3>1. conn'[d] = conn[d] /\ conn[d].tx
        BY <1>2, <1>3, <2>2
      <3>2. ~row.tx
        BY <2>2, <3>1
      <3>3. \A e \in Conns : conn'[e].tx => conn[e].tx
        BY <1>2, <3>2
      <3> QED
        BY <3>1, <3>3 DEF RecordsIInv
    <2> QED
      BY <2>1, <2>2
  <1> QED
    BY <1>1, <1>2, <1>3 DEF RecordsIInv

LEMMA OpensKeeps ==
  ASSUME RecordsIInv, NEW c \in Conns, NEW call \in Writes, NEW about \in Abouts,
         NEW outcomes, Opens(c, call, about, outcomes),
         \A u \in outcomes : Good(u) /\ Exact(db, u, call, about)
  PROVE  RecordsIInv'
  <1>1. PICK t \in outcomes :
          conn' = [conn EXCEPT ![c] = [tx |-> TRUE, call |-> call, work |-> t, about |-> about]]
    BY DEF Opens
  <1> DEFINE row == [tx |-> TRUE, call |-> call, work |-> t, about |-> about]
  <1>2. row \in Rows
    BY DEF Rows, Good, Writes, Abouts
  <1>3. /\ row.tx /\ row.work = t /\ row.call = call /\ row.about = about
    OBVIOUS
  <1>4. /\ commits < MaxCommits /\ \A d \in Conns : ~conn[d].tx
        /\ UNCHANGED <<db, commits>>
    BY DEF Opens, Begin, Locked
  <1>5. conn' = [conn EXCEPT ![c] = row]
    BY <1>1
  <1> HIDE DEF row
  <1> QED
    BY <1>2, <1>3, <1>4, <1>5, RowStep

LEMMA WorksOn ==
  ASSUME RecordsIInv, NEW c \in Conns, conn[c].tx, UNCHANGED <<db, commits>>, NEW t,
         conn' = [conn EXCEPT ![c] = [@ EXCEPT !.work = t]],
         Good(t), Grows(conn[c].work, t)
  PROVE  RecordsIInv'
  <1> DEFINE row == [conn[c] EXCEPT !.work = t]
  <1>3. conn[c] \in Rows
    BY DEF RecordsIInv
  <1>4. row \in Rows
    BY <1>3 DEF Rows, Good
  <1>5. row.tx = conn[c].tx /\ row.work = t /\ row.call = conn[c].call /\ row.about = conn[c].about
    BY <1>3 DEF Rows
  <1>6. conn' = [conn EXCEPT ![c] = row]
    BY <1>3 DEF RecordsIInv
  <1> HIDE DEF row
  <1>7. /\ commits < MaxCommits /\ \A d \in Conns : conn[d].tx => d = c
        /\ conn[c].call # "none" => Exact(db, conn[c].work, conn[c].call, conn[c].about)
    BY DEF RecordsIInv
  <1>8. row.call # "none" => Exact(db, row.work, row.call, row.about)
    BY <1>5, <1>7, GrowsFurther
  <1> QED
    BY <1>4, <1>5, <1>6, <1>7, <1>8, RowStep

(* The end of a transaction, kept or not.                                  *)
LEMMA LeavesRow ==
  ASSUME RecordsIInv, NEW c \in Conns, NEW open \in BOOLEAN, Leave(c, open)
  PROVE  \E row \in Rows : /\ conn' = [conn EXCEPT ![c] = row] /\ row.tx = open
                           /\ row.call = "none"
                           /\ open => row.work = conn[c].work
  <1> DEFINE row == [tx |-> open, call |-> "none", about |-> None,
                     work |-> IF open THEN conn[c].work ELSE None]
  <1>1. conn[c] \in Rows /\ conn \in [Conns -> Rows]
    BY DEF RecordsIInv
  <1>2. row \in Rows
    BY <1>1 DEF Rows
  <1>3. conn' = [conn EXCEPT ![c] = row]
    BY <1>1 DEF Leave
  <1> QED
    BY <1>2, <1>3

LEMMA EndsKeep ==
  ASSUME RecordsIInv, NEW c \in Conns, Fail(c) \/ Close(c)
  PROVE  RecordsIInv'
  <1>1. PICK open \in BOOLEAN :
          /\ Leave(c, open) /\ UNCHANGED <<db, commits>> /\ (open => conn[c].tx)
    BY DEF Fail, Close
  <1>2. PICK row \in Rows : /\ conn' = [conn EXCEPT ![c] = row] /\ row.tx = open
                            /\ row.call = "none" /\ (open => row.work = conn[c].work)
    BY <1>1, LeavesRow
  <1> QED
    BY <1>1, <1>2, RowStep, RecordsKnown DEF RecordsIInv

(* A call is committed: the tables are those it has worked on.             *)
LEMMA CommitKeeps ==
  ASSUME RecordsIInv, NEW c \in Conns, Commit(c)
  PROVE  RecordsIInv'
  <1>1. /\ conn[c].tx /\ db' = conn[c].work /\ commits' = commits + 1 /\ Leave(c, FALSE)
    BY DEF Commit
  <1>2. PICK row \in Rows : conn' = [conn EXCEPT ![c] = row] /\ row.tx = FALSE
    BY <1>1, LeavesRow
  <1>3. conn \in [Conns -> Rows] /\ conn' \in [Conns -> Rows]
    BY <1>2 DEF RecordsIInv
  <1>4. \A d \in Conns : ~conn'[d].tx
    BY <1>1, <1>2, <1>3 DEF RecordsIInv
  <1>5. /\ db' \in Tables /\ Sound(db') /\ commits' \in 0..MaxCommits
    BY <1>1, RecordsAssumption DEF RecordsIInv
  <1> QED
    BY <1>3, <1>4, <1>5 DEF RecordsIInv, Sound, Entries, Revision

(* A statement outside of any service, of those that only touch relations.  *)
LEMMA StatementKeeps ==
  ASSUME RecordsIInv, NEW c \in Conns, NEW outcomes, Statement(c, outcomes),
         \A u \in outcomes : Good(u) /\ Grows(View(c), u) /\ u.ents = View(c).ents
                             /\ u.sources = View(c).sources
  PROVE  /\ RecordsIInv'
         /\ db'.sources = db.sources /\ db'.ents = db.ents /\ db'.evid = db.evid
  <1>1. CASE conn[c].tx
    <2>1. UNCHANGED <<db, commits>> /\ View(c) = conn[c].work
      BY <1>1 DEF Statement, View
    <2>2. PICK t \in outcomes : conn' = [conn EXCEPT ![c] = [@ EXCEPT !.work = t]]
      BY <1>1 DEF Statement
    <2> QED
      BY <1>1, <2>1, <2>2, WorksOn
  <1>2. CASE ~conn[c].tx
    <2>1. /\ Begin(c) /\ db' \in outcomes /\ commits' = commits + 1 /\ UNCHANGED conn
          /\ View(c) = db
      BY <1>2 DEF Statement, View
    <2>2. Good(db') /\ db'.ents = db.ents /\ db'.sources = db.sources /\ db'.evid = db.evid
      BY <2>1 DEF Grows
    <2>3. commits' \in 0..MaxCommits /\ \A d \in Conns : ~conn'[d].tx
      BY <2>1, RecordsAssumption DEF RecordsIInv, Begin, Locked
    <2> QED
      BY <2>1, <2>2, <2>3 DEF RecordsIInv, Good, Sound, Entries, Revision
  <1> QED
    BY <1>1, <1>2

LEMMA LookUpKeeps ==
  ASSUME RecordsIInv, NEW c \in Conns, NEW n \in Entities, LookUp(c, n)
  PROVE  RecordsIInv'
  <1> DEFINE row == [tx |-> FALSE, call |-> "seen", about |-> n,
                     work |-> [ents |-> EntityRows(db), rels |-> RelationRows(db)]]
  <1>1. row \in Rows
    BY DEF Rows, RecordsIInv, Tables, EntityRows, RelationRows
  <1>2. row.tx = FALSE /\ conn' = [conn EXCEPT ![c] = row] /\ UNCHANGED <<db, commits>>
    BY DEF LookUp
  <1> HIDE DEF row
  <1> QED
    BY <1>1, <1>2, RowStep

-----------------------------------------------------------------------------
LEMMA ReviewKeeps ==
  ASSUME RecordsIInv, NEW c \in Conns, NEW op \in Ops, NEW o \in Observations,
         NEW expected, Review(c, op, o, expected)
  PROVE  RecordsIInv'
  <1> DEFINE outcomes ==
        {[t EXCEPT !.journal = @ \cup {[op |-> op, obs |-> o, rev |-> expected + 1]}] :
           t \in Mutations(db, o)}
  <1>1. /\ db.obs[o].known /\ expected = Revision(db, o)
        /\ Opens(c, "review", o, outcomes) /\ Good(db)
    BY RecordsKnown DEF Review
  <1>2. ASSUME NEW u \in outcomes
        PROVE  Good(u) /\ Exact(db, u, "review", o)
    <2>1. PICK t \in Mutations(db, o) :
            u = [t EXCEPT !.journal =
                   @ \cup {[op |-> op, obs |-> o, rev |-> expected + 1]}]
      OBVIOUS
    <2>2. /\ Good(t) /\ t.journal = db.journal /\ t.evid = db.evid /\ db.ents \subseteq t.ents
          /\ \A s \in db.sources \ t.sources : s[3] = o
      BY <1>1, Mutates
    <2>3. expected = Revision(t, o)
      BY <1>1, <2>2, SameJournal
    <2>4. Good(u) /\ u.evid = t.evid /\ u.ents = t.ents /\ u.sources = t.sources
      BY <2>1, <2>2, <2>3, Journals
    <2> QED
      BY <2>2, <2>4 DEF Exact
  <1> HIDE DEF outcomes
  <1> QED
    BY <1>1, <1>2, OpensKeeps DEF Writes, Abouts

LEMMA EmailKeeps ==
  ASSUME RecordsIInv, NEW c \in Conns, NEW o \in Observations,
         (\E p \in BOOLEAN : Integrate(c, o, p)) \/ RemovePromotion(c, o)
  PROVE  RecordsIInv'
  <1>1. Good(db) /\ "integrate" \in Writes /\ "remove" \in Writes /\ o \in Abouts
    BY RecordsKnown DEF Writes, Abouts
  <1>2. CASE \E p \in BOOLEAN : Integrate(c, o, p)
    <2>1. PICK p \in BOOLEAN : Integrate(c, o, p)
      BY <1>2
    <2>2. CASE Opens(c, "integrate", o, Propose(db, o, p))
      <3>1. \A u \in Propose(db, o, p) : Good(u) /\ Exact(db, u, "integrate", o)
        BY <1>1, Proposes, GrowsExact
      <3> QED
        BY <1>1, <2>2, <3>1, OpensKeeps
    <2>3. CASE Continues(c, "integrate", Propose(conn[c].work, o, p))
      <3>1. PICK u \in Propose(conn[c].work, o, p) :
              conn' = [conn EXCEPT ![c] = [@ EXCEPT !.work = u]]
        BY <2>3 DEF Continues
      <3>2. conn[c].tx /\ UNCHANGED <<db, commits>> /\ Good(conn[c].work)
        BY <2>3, RecordsKnown DEF Continues
      <3>3. Good(u) /\ Grows(conn[c].work, u)
        BY <3>1, <3>2, Proposes
      <3> QED
        BY <3>1, <3>2, <3>3, WorksOn
    <2> QED
      BY <2>1, <2>2, <2>3 DEF Integrate
  <1>3. CASE RemovePromotion(c, o)
    <2>1. PICK n \in Entities : n = db.obs[o].entity
      BY <1>1, <1>3, ObservedTyped DEF RemovePromotion, ObsRow
    <2>2. PICK cut : cut = RemoveSource(Promote(db, o, None), EvidenceOf[o], n, o)
      OBVIOUS
    <2>3. Opens(c, "remove", o,
                IF UsesOf(cut, n) = {} THEN DeleteEntity(cut, n) ELSE {cut})
      BY <1>3, <2>1, <2>2 DEF RemovePromotion
    <2> DEFINE outcomes == IF UsesOf(cut, n) = {} THEN DeleteEntity(cut, n) ELSE {cut}
    <2>4. ASSUME NEW u \in outcomes
          PROVE  Good(u) /\ Exact(db, u, "remove", o)
      <3>1. /\ Good(u) /\ u.evid = db.evid
            /\ \A s \in db.sources \ u.sources : s[3] = o
            /\ \A m \in db.ents \ u.ents : UsesOf(db, m) \subseteq {o, <<EvidenceOf[o], m>>}
        <4>1. /\ UsesOf(cut, n) = {} => u \in DeleteEntity(cut, n)
              /\ UsesOf(cut, n) # {} => u = cut
          OBVIOUS
        <4> HIDE DEF outcomes
        <4> QED
          BY <1>1, <2>1, <2>2, <4>1, RemovesPromotion
      <3> QED
        BY <3>1 DEF Exact
    <2> HIDE DEF outcomes
    <2>5. Opens(c, "remove", o, outcomes)
      BY <2>3 DEF outcomes
    <2> QED
      BY <1>1, <2>4, <2>5, OpensKeeps
  <1> QED
    BY <1>2, <1>3

LEMMA RelationKeeps ==
  ASSUME RecordsIInv, NEW c \in Conns, NEW r \in Pairs \X Types,
         CreateRelation(c, r) \/ Resolve(c, r)
  PROVE  RecordsIInv'
  <1>1. Good(db) /\ "relation" \in Writes /\ "dns" \in Writes /\ r \in Abouts /\ None \in Abouts
    BY RecordsKnown DEF Writes, Abouts
  <1>2. CASE CreateRelation(c, r)
    <2>1. \A u \in InsertRelation(db, r) : Good(u) /\ Exact(db, u, "relation", r)
      BY <1>1, InsertsRelation, GrowsExact
    <2> QED
      BY <1>1, <1>2, <2>1, OpensKeeps DEF CreateRelation
  <1>3. CASE Resolve(c, r)
    <2>1. \A u \in DnsOf(db, conn[c].work, conn[c].about, r) :
            Good(u) /\ Exact(db, u, "dns", None)
      BY <1>1, ResolvesTo, GrowsExact
    <2> QED
      BY <1>1, <1>3, <2>1, OpensKeeps DEF Resolve
  <1> QED
    BY <1>2, <1>3

LEMMA ProofKeeps ==
  ASSUME RecordsIInv, NEW c \in Conns, NEW v \in Evidence, AddProof(c, v)
  PROVE  RecordsIInv'
  <1>1. Continues(c, "relation", LinkRelation(conn[c].work, conn[c].about, v))
    BY DEF AddProof
  <1>2. PICK u \in LinkRelation(conn[c].work, conn[c].about, v) :
          conn' = [conn EXCEPT ![c] = [@ EXCEPT !.work = u]]
    BY <1>1 DEF Continues
  <1>3. conn[c].tx /\ UNCHANGED <<db, commits>> /\ Good(conn[c].work)
    BY <1>1, RecordsKnown DEF Continues
  <1>4. Good(u) /\ Grows(conn[c].work, u)
    BY <1>2, <1>3, LinksRelation
  <1> QED
    BY <1>2, <1>3, <1>4, WorksOn

LEMMA MergeKeeps ==
  ASSUME RecordsIInv, NEW c \in Conns, NEW x \in Types, NEW y \in Types, MergeTypes(c, x, y)
  PROVE  RecordsIInv'
  <1>1. Good(db) /\ "merge" \in Writes /\ None \in Abouts
    BY RecordsKnown DEF Writes, Abouts
  <1> DEFINE outcomes == If(~Conflict(db, x, y), MergedTypes(db, x, y))
  <1>2. /\ x \in db.types /\ y \in db.types /\ x # y
        /\ Opens(c, "merge", None, outcomes)
    BY DEF MergeTypes
  <1>3. \A u \in outcomes : u = MergedTypes(db, x, y)
    BY DEF If
  <1> HIDE DEF outcomes
  <1>4. \A u \in outcomes : Good(u) /\ Exact(db, u, "merge", None)
    BY <1>1, <1>2, <1>3, Merges, GrowsExact
  <1> QED
    BY <1>1, <1>2, <1>4, OpensKeeps

LEMMA EntityKeeps ==
  ASSUME RecordsIInv, NEW c \in Conns, NEW n \in Entities,
         \/ \E v \in Evidence \cup {None} : CreateEntity(c, n, v)
         \/ \E f \in Dropped : Drop(c, f, n)
         \/ \E v \in Evidence \cup Dropped : Unlink(c, v, n)
  PROVE  RecordsIInv'
  <1>1. /\ Good(db) /\ "entity" \in Writes /\ "drop" \in Writes /\ "unlink" \in Writes
        /\ n \in Abouts
    BY RecordsKnown DEF Writes, Abouts
  <1>2. CASE \E v \in Evidence \cup {None} : CreateEntity(c, n, v)
    <2>1. PICK v \in Evidence \cup {None} : CreateEntity(c, n, v)
      BY <1>2
    <2> DEFINE outcomes == IF v = None THEN InsertEntity(db, n)
                           ELSE UNION {LinkEvidence(t, v, n) : t \in InsertEntity(db, n)}
    <2>2. Opens(c, "entity", n, outcomes)
      BY <2>1 DEF CreateEntity
    <2>3. \A u \in outcomes : Good(u) /\ Exact(db, u, "entity", n)
      BY <1>1, CreatesEntity, GrowsExact
    <2> HIDE DEF outcomes
    <2> QED
      BY <1>1, <2>2, <2>3, OpensKeeps
  <1>3. CASE \E f \in Dropped : Drop(c, f, n)
    <2>1. PICK f \in Dropped : Drop(c, f, n)
      BY <1>3
    <2> DEFINE outcomes ==
          UNION {LinkEvidence(t, f, n) :
                   t \in UNION {EnsureEvidence(u, f) : u \in {db} \cup InsertEntity(db, n)}}
    <2>2. Opens(c, "drop", n, outcomes)
      BY <2>1 DEF Drop
    <2>3. ASSUME NEW u \in outcomes
          PROVE  Good(u) /\ Exact(db, u, "drop", n)
      <3>1. /\ Good(u) /\ db.sources \subseteq u.sources /\ db.ents \subseteq u.ents
            /\ u.evid = db.evid \cup {f} /\ <<f, n, Manual>> \in u.sources /\ n \in u.ents
        BY <1>1, Drops
      <3> QED
        BY <3>1 DEF Exact
    <2> HIDE DEF outcomes
    <2> QED
      BY <1>1, <2>2, <2>3, OpensKeeps
  <1>4. CASE \E v \in Evidence \cup Dropped : Unlink(c, v, n)
    <2>1. PICK v \in Evidence \cup Dropped : Unlink(c, v, n)
      BY <1>4
    <2>2. PICK u : u = RemoveSource(db, v, n, Manual)
      OBVIOUS
    <2>3. Opens(c, "unlink", n, {u})
      BY <2>1, <2>2 DEF Unlink
    <2>4. /\ Good(u) /\ u.evid = db.evid /\ u.ents = db.ents
          /\ u.sources = db.sources \ {<<v, n, Manual>>}
      BY <1>1, <2>2, Unlinks
    <2>5. Exact(db, u, "unlink", n)
      BY <2>4 DEF Exact
    <2> QED
      BY <1>1, <2>3, <2>4, <2>5, OpensKeeps
  <1> QED
    BY <1>2, <1>3, <1>4

LEMMA EditsKeep ==
  ASSUME RecordsIInv, NEW c \in Conns, Edits(c)
  PROVE  /\ RecordsIInv'
         /\ db'.sources = db.sources /\ db'.ents = db.ents /\ db'.evid = db.evid
  <1>1. Good(View(c))
    BY RecordsKnown DEF View
  <1>2. PICK outcomes :
          /\ Statement(c, outcomes)
          /\ \A u \in outcomes :
               \/ \E r, v : u \in UnlinkRelation(View(c), r, v)
               \/ \E r : u \in DeleteRelation(View(c), r)
               \/ \E y \in Types : u \in InsertType(View(c), y) \/ u \in DeleteType(View(c), y)
    BY DEF Edits
  <1>3. \A u \in outcomes : Good(u) /\ Grows(View(c), u) /\ u.ents = View(c).ents
                            /\ u.sources = View(c).sources
    BY <1>1, <1>2, Trims
  <1> QED
    BY <1>2, <1>3, StatementKeeps

LEMMA CallsKeep ==
  ASSUME RecordsIInv, NEW c \in Conns, Calls(c)
  PROVE  RecordsIInv'
  <1>1. \/ \E o \in Observations :
             \/ \E op \in Ops, k \in 0..Cardinality(Ops) : Review(c, op, o, k)
             \/ \E p \in BOOLEAN : Integrate(c, o, p)
             \/ RemovePromotion(c, o)
        \/ \E p \in Pairs, y \in Types : CreateRelation(c, <<p, y>>) \/ Resolve(c, <<p, y>>)
        \/ \E x, y \in Types : MergeTypes(c, x, y)
        \/ \E v \in Evidence : AddProof(c, v)
        \/ \E n \in Entities :
             \/ LookUp(c, n) \/ \E v \in Evidence \cup {None} : CreateEntity(c, n, v)
             \/ \E f \in Dropped : Drop(c, f, n)
             \/ \E v \in Evidence \cup Dropped : Unlink(c, v, n)
    BY DEF Calls
  <1> QED
    <2>1. ASSUME NEW p \in Pairs, NEW y \in Types,
                 CreateRelation(c, <<p, y>>) \/ Resolve(c, <<p, y>>)
          PROVE  RecordsIInv'
      BY <2>1, RelationKeeps
    <2>2. ASSUME NEW o \in Observations, NEW op \in Ops, NEW k, Review(c, op, o, k)
          PROVE  RecordsIInv'
      BY <2>2, ReviewKeeps
    <2> QED
      BY <1>1, <2>1, <2>2, EmailKeeps, ProofKeeps, MergeKeeps, EntityKeeps, LookUpKeeps

LEMMA RecordsStart == RecordsInit => RecordsIInv
  <1> SUFFICES ASSUME RecordsInit PROVE RecordsIInv
    OBVIOUS
  <1>1. db \in Tables
    BY DEF RecordsInit, Tables, NoRow
  <1>2. \A o \in Observations : Entries(db, o) = {} /\ Revision(db, o) = 0
    BY FS_EmptySet DEF RecordsInit, Entries, Revision
  <1>3. \A o \in Observations : db.obs[o].entity = None
    BY DEF RecordsInit, NoRow
  <1>4. Sound(db)
    <2>1. \A o \in Observations : {j.rev : j \in Entries(db, o)} = 1..Revision(db, o)
      BY <1>2
    <2>2. /\ Evidence \subseteq db.evid /\ IsFiniteSet(db.journal) /\ db.links = {}
          /\ db.sources = {} /\ db.rels = {} /\ db.relev = {}
      BY FS_EmptySet DEF RecordsInit
    <2>3. db.links = {<<s[1], s[2]>> : s \in db.sources}
      BY <2>2
    <2> QED
      BY <1>3, <2>1, <2>2, <2>3 DEF Sound
  <1>5. conn \in [Conns -> Rows] /\ (\A c \in Conns : ~conn[c].tx) /\ commits \in 0..MaxCommits
    BY RecordsAssumption DEF RecordsInit, Rows
  <1> QED
    BY <1>1, <1>4, <1>5 DEF RecordsIInv

LEMMA RecordsStep ==
  ASSUME RecordsIInv, [RecordsNext]_vars
  PROVE  RecordsIInv'
  <1>1. CASE UNCHANGED vars
    BY <1>1 DEF vars, RecordsIInv, Sound, Entries, Revision
  <1>2. CASE RecordsNext
    BY <1>2, CallsKeep, EditsKeep, CommitKeeps, EndsKeep DEF RecordsNext
  <1> QED
    BY <1>1, <1>2

(* Whatever the services write at once, however a transaction ends: the     *)
(* tables, and the private copy of the one open transaction, agree.         *)
THEOREM TablesSound == RecordsSpec => []RecordsIInv
  BY RecordsStart, RecordsStep, PTL DEF RecordsSpec

(* The committed tables change by the commit of a call, or by a statement   *)
(* that only touches relations: never more than the call may do.            *)
THEOREM CallsExact == RecordsSpec => ServicesExact
  <1>1. ASSUME RecordsIInv, NEW c \in Conns, Calls(c) \/ Fail(c) \/ Close(c)
        PROVE  db' = db
    BY <1>1 DEF Calls, Review, Integrate, RemovePromotion, CreateRelation, Resolve,
       MergeTypes, AddProof, LookUp, CreateEntity, Drop, Unlink, Opens, Continues, Fail, Close
  <1>2. ASSUME RecordsIInv, NEW c \in Conns, Commit(c)
        PROVE  Exact(db, db', conn[c].call, conn[c].about)
    BY <1>2 DEF Commit, Idle, RecordsIInv
  <1>3. ASSUME RecordsIInv, [RecordsNext]_vars
        PROVE  /\ \A s \in db.sources \ db'.sources : \E c \in Conns :
                    \/ conn[c].call \in {"review", "remove"} /\ s[3] = conn[c].about
                    \/ conn[c].call = "unlink" /\ s[3] = Manual
               /\ \A n \in db.ents \ db'.ents : \E c \in Conns :
                    /\ conn[c].call = "remove"
                    /\ UsesOf(db, n) \subseteq {conn[c].about, <<EvidenceOf[conn[c].about], n>>}
               /\ \A f \in db'.evid \ db.evid :
                    \E n \in db'.ents : <<f, n, Manual>> \in db'.sources
    <2>1. CASE \E c \in Conns : Commit(c)
      <3>1. PICK c \in Conns : Exact(db, db', conn[c].call, conn[c].about)
        BY <1>2, <1>3, <2>1
      <3> QED
        BY <3>1 DEF Exact
    <2>2. CASE ~ \E c \in Conns : Commit(c)
      <3>1. db'.sources = db.sources /\ db'.ents = db.ents /\ db'.evid = db.evid
        BY <1>1, <1>3, <2>2, EditsKeep DEF RecordsNext, vars
      <3> QED
        BY <3>1
    <2> QED
      BY <2>1, <2>2
  <1> QED
    BY <1>3, TablesSound, PTL DEF RecordsSpec, ServicesExact

-----------------------------------------------------------------------------
(* The publication of the graph, the correlations, the planner's advice and  *)
(* the reports.                                                            *)

(* One more committed state; those before it stay.                         *)
LEMMA Appended ==
  ASSUME PubIInv, NEW t \in States, Committed(t)
  PROVE  /\ history' \in Seq(States) /\ Version' = Version + 1 /\ Version \in Nat
         /\ Now' = t /\ \A v \in 1..Version : history'[v] = history[v]
  <1>1. history \in Seq(States) /\ history' = Append(history, t)
    BY DEF PubIInv, PubTypeOK, Committed
  <1> QED
    BY <1>1 DEF Version, Now

LEMMA NowIsState ==
  ASSUME PubIInv
  PROVE  /\ Version \in Nat /\ Version > 0 /\ Version \in 1..Version
         /\ Now \in States /\ Anchored(Now)
         /\ \A v \in 1..Version : history[v] \in States /\ Anchored(history[v])
  <1>1. history \in Seq(States) /\ Version > 0 /\ \A v \in 1..Version : Anchored(history[v])
    BY DEF PubIInv, PubTypeOK, StatesAnchored
  <1> QED
    BY <1>1 DEF Version, Now

LEMMA StillRow == Still \in PubRows /\ Blank \in Graphs
  <1>1. Blank \in Graphs
    BY DEF Blank, Graphs
  <1>2. <<>> \in Seq(Files)
    OBVIOUS
  <1> QED
    BY <1>1, <1>2 DEF Still, PubRows

(* The nodes and the edges of a state.                                     *)
LEMMA PartsTyped ==
  ASSUME NEW t \in States, NEW known
  PROVE  /\ GraphNodes(t) \subseteq AllNodes /\ EvidenceNodes(t) \subseteq AllNodes
         /\ ExtractionNodes(t) \subseteq AllNodes /\ ObservationNodes(t) \subseteq AllNodes
         /\ Relations(t) \subseteq AllNodes \X AllNodes
         /\ Attachments(t) \subseteq AllNodes \X AllNodes
         /\ ExtractionEdges(t, known) \subseteq AllNodes \X AllNodes
         /\ ObservationEdges(t, known) \subseteq AllNodes \X AllNodes
         /\ ExecutionNodes(t) \subseteq AllNodes
         /\ ExecutionEdges(t) \subseteq AllNodes \X AllNodes
  <1>1. /\ \A n \in Persons : Node("entity", n) \in AllNodes
        /\ \A e \in Things : Node("evidence", e) \in AllNodes
        /\ \A e \in Pieces : /\ Node("extraction", e) \in AllNodes
                             /\ Node("observation", e) \in AllNodes
                             /\ e \in Things /\ Derived(e) \in Things
        /\ \A x \in Executions : Node("execution", x) \in AllNodes
    BY DEF Node, AllNodes, NodeKinds, Things
  <1>2. \A x, y \in AllNodes : Edge(x, y) \in AllNodes \X AllNodes
    BY DEF Edge
  <1>3. /\ t.evidence \subseteq Things /\ t.entities \subseteq Persons
        /\ t.relations \subseteq Persons \X Persons /\ t.links \subseteq Things \X Persons
        /\ t.extractions \subseteq Pieces /\ t.promoted \subseteq Pieces \X Persons
        /\ t.executions \subseteq Executions
    BY DEF States
  <1>7. /\ \A x \in Executions : RanOn[x] # NoPub => RanOn[x] \in Persons
        /\ \A q \in Results(t) : q[1] \in Executions /\ q[2] \in Persons
    BY PublicationAssumption DEF Results
  <1> HIDE DEF AllNodes
  <1>8. ExecutionNodes(t) \subseteq AllNodes
    BY <1>1, <1>3 DEF ExecutionNodes
  <1>9. ExecutionEdges(t) \subseteq AllNodes \X AllNodes
    BY <1>1, <1>2, <1>3, <1>7 DEF ExecutionEdges
  <1>4. /\ GraphNodes(t) \subseteq AllNodes /\ EvidenceNodes(t) \subseteq AllNodes
        /\ ExtractionNodes(t) \subseteq AllNodes /\ ObservationNodes(t) \subseteq AllNodes
    BY <1>1, <1>3 DEF GraphNodes, EvidenceNodes, ExtractionNodes, ObservationNodes
  <1>5. /\ Relations(t) \subseteq AllNodes \X AllNodes
        /\ Attachments(t) \subseteq AllNodes \X AllNodes
    BY <1>1, <1>2, <1>3 DEF Relations, Attachments
  <1>6. /\ ExtractionEdges(t, known) \subseteq AllNodes \X AllNodes
        /\ ObservationEdges(t, known) \subseteq AllNodes \X AllNodes
    BY <1>1, <1>2, <1>3 DEF ExtractionEdges, ObservationEdges
  <1> QED
    BY <1>4, <1>5, <1>6, <1>8, <1>9

(* An extraction is no evidence: what is known beyond makes no difference. *)
LEMMA KnownBefore ==
  ASSUME NEW t \in States
  PROVE  ExtractionEdges(t, GraphNodes(t) \cup EvidenceNodes(t)) =
           ExtractionEdges(t, GraphNodes(t) \cup EvidenceNodes(t) \cup ExtractionNodes(t))
  <1>1. \A e : Node("evidence", e) \notin ExtractionNodes(t)
    BY DEF Node, ExtractionNodes
  <1> QED
    BY <1>1 DEF ExtractionEdges

(* No part of an anchored state has an edge without an end, the executions   *)
(* excepted.                                                               *)
LEMMA PartsEnd ==
  ASSUME NEW t \in States, Anchored(t),
         NEW at \in {"evidence", "extractions", "observations", "executions"}
  PROVE  Ended(Gathered(t, at)) /\ (Orphans(t) = {} => Ended(Projection(t)))
  <1> DEFINE kept == GraphNodes(t) \cup EvidenceNodes(t) \cup ExtractionNodes(t)
  <1>1. \A x \in Relations(t) : x[1] \in GraphNodes(t) /\ x[2] \in GraphNodes(t)
    BY DEF Relations, Edge, GraphNodes, Anchored
  <1>2. \A x \in Attachments(t) : x[1] \in EvidenceNodes(t) /\ x[2] \in GraphNodes(t)
    BY DEF Attachments, Edge, GraphNodes, EvidenceNodes, Anchored
  <1>3. \A x \in ExtractionEdges(t, kept) : x[1] \in kept /\ x[2] \in kept
    BY DEF ExtractionEdges, Edge, ExtractionNodes
  <1>4. \A x \in ObservationEdges(t, kept) :
          x[1] \in kept \cup ObservationNodes(t) /\ x[2] \in kept \cup ObservationNodes(t)
    BY DEF ObservationEdges, Edge, ObservationNodes, GraphNodes, EvidenceNodes, Anchored
  <1>5. Ended(WithoutRuns(t))
    BY <1>1, <1>2, <1>3, <1>4 DEF Ended, WithoutRuns
  <1>6. Ended(Gathered(t, at))
    BY <1>1, <1>2, <1>3, <1>5 DEF Ended, Gathered
  <1>7. ASSUME Orphans(t) = {}
        PROVE  Ended(Projection(t))
    <2>1. /\ \A x \in t.executions : RanOn[x] # NoPub => RanOn[x] \in t.entities
          /\ \A q \in Results(t) : q[1] \in t.executions /\ q[2] \in t.entities
      BY <1>7 DEF Orphans, Anchored, Results
    <2>2. \A x \in ExecutionEdges(t) :
            /\ x[1] \in GraphNodes(t) \cup ExecutionNodes(t)
            /\ x[2] \in GraphNodes(t) \cup ExecutionNodes(t)
      BY <2>1 DEF ExecutionEdges, Edge, GraphNodes, ExecutionNodes
    <2>3. GraphNodes(t) \subseteq WithoutRuns(t).nodes
      BY DEF WithoutRuns
    <2> QED
      BY <1>5, <2>2, <2>3 DEF Ended, Projection
  <1> QED
    BY <1>6, <1>7

LEMMA GatheredTyped ==
  ASSUME NEW t \in States, NEW at
  PROVE  Gathered(t, at) \in Graphs /\ Projection(t) \in Graphs
  <1> DEFINE kept == GraphNodes(t) \cup EvidenceNodes(t) \cup ExtractionNodes(t)
  <1>1. /\ ExtractionEdges(t, kept) \subseteq AllNodes \X AllNodes
        /\ ObservationEdges(t, kept) \subseteq AllNodes \X AllNodes
    BY PartsTyped
  <1>2. WithoutRuns(t) \in Graphs
    BY <1>1, PartsTyped DEF WithoutRuns, Graphs
  <1>4. Projection(t) \in Graphs
    BY <1>2, PartsTyped DEF Projection, Graphs
  <1>3. Gathered(t, at) \in Graphs
    BY <1>1, <1>2, <1>4, PartsTyped, StillRow DEF Gathered, Graphs
  <1> QED
    BY <1>3, <1>4

(* The closure of a selection is closed, and holds the selection.          *)
LEMMA ClosureCloses ==
  ASSUME NEW g, NEW s \in SUBSET g.nodes, Ended(g)
  PROVE  /\ s \subseteq Closure(g, s) /\ Closure(g, s) \subseteq g.nodes
         /\ Follows(g, Closure(g, s))
  <1>1. s \subseteq Closure(g, s) /\ Closure(g, s) \subseteq g.nodes
    BY DEF Closure
  <1>2. ASSUME NEW x \in Provenance(g), x[2] \in Closure(g, s)
        PROVE  x[1] \in Closure(g, s)
    <2>1. x[1] \in g.nodes
      BY DEF Provenance, Ended
    <2>2. ASSUME NEW c \in SUBSET g.nodes, s \subseteq c, Follows(g, c)
          PROVE  x[1] \in c
      <3>1. x[2] \in c
        BY <1>2, <2>2 DEF Closure
      <3> QED
        BY <2>2, <3>1 DEF Follows
    <2> QED
      BY <2>1, <2>2 DEF Closure
  <1> QED
    BY <1>1, <1>2 DEF Follows

-----------------------------------------------------------------------------
(* The row r of process p is right over the committed states h.             *)
Right(p, r, h) ==
  /\ r.why # NoPub => r.why \in 1..Len(h) /\ Orphans(h[r.why]) # {}
  /\ r.at \in Readings =>
       /\ r.todo # <<>> /\ r.view \in 1..Len(h)
       /\ r.at \in Gatherings
            => Head(r.todo) \in {"core", "report"}
       /\ r.at = "select" => Head(r.todo) = "report"
       /\ r.at = "indexed" => Head(r.todo) = "correlation"
       /\ r.at \in {"pieces", "extracted", "jobs"} => Head(r.todo) = "planner"
       /\ r.at = "extracted" => r.list \in [evidence : SUBSET Things]
       /\ r.at = "jobs" => r.list \in [evidence : SUBSET Things, extractions : SUBSET Pieces]
       /\ Head(r.todo) \in {"core", "report"}
            => r.graph = Gathered(h[r.view], r.at) /\ Ended(r.graph)
       /\ r.at = "write" /\ Head(r.todo) = "correlation" => Whole(r.list, h[r.view])
       /\ r.at = "write" /\ Head(r.todo) = "report" => Backed(r.list, Projection(h[r.view]))
  /\ p = "review" =>
       /\ r.base <= Len(h)
       /\ r.at \notin {"absent", "idle"} => Len(r.todo) + r.wrote = 3
       /\ r.at \in Readings => r.view >= r.base

LEMMA RightNow ==
  ASSUME PubIInv, NEW p \in Exporters
  PROVE  pub[p] \in PubRows /\ Right(p, pub[p], history)
  BY DEF PubIInv, PubTypeOK, ReadsOneState, GathersOneState, RefusedForOrphan,
         ReviewCounts, Right, Stage, Seen, Version

LEMMA RightNext ==
  ASSUME \A p \in Exporters : Right(p, pub'[p], history')
  PROVE  ReadsOneState' /\ GathersOneState' /\ ReviewCounts'
  <1>1. "review" \in Exporters
    BY DEF Exporters
  <1>2. ReadsOneState'
    BY DEF Right, ReadsOneState, Stage, Version
  <1>3. GathersOneState'
    BY DEF Right, GathersOneState, RefusedForOrphan, Stage, Seen, Version
  <1>4. ReviewCounts'
    BY <1>1 DEF Right, ReviewCounts, Version
  <1> QED
    BY <1>2, <1>3, <1>4

(* Later states are added behind the one a process looks at.               *)
LEMMA RightStays ==
  ASSUME PubIInv, NEW p \in Exporters, Version' >= Version, Version' \in Nat,
         \A v \in 1..Version : history'[v] = history[v]
  PROVE  Right(p, pub[p], history')
  <1>1. pub[p] \in PubRows /\ Right(p, pub[p], history) /\ Version \in Nat
    BY RightNow, NowIsState
  <1>2. pub[p].base \in Nat
    BY <1>1 DEF PubRows
  <1>3. pub[p].at \in Readings =>
          pub[p].view \in 1..Len(history') /\ history'[pub[p].view] = history[pub[p].view]
    BY <1>1 DEF Right, Version
  <1>4. pub[p].base <= Len(history) => pub[p].base <= Len(history')
    BY <1>1, <1>2 DEF Version
  <1>5. pub[p].why # NoPub =>
          pub[p].why \in 1..Len(history') /\ history'[pub[p].why] = history[pub[p].why]
    BY <1>1 DEF Right, Version
  <1> QED
    BY <1>1, <1>3, <1>4, <1>5 DEF Right

(* Steps that publish nothing.                                             *)
LEMMA UnpublishedStep ==
  ASSUME PubIInv, PubTypeOK', StatesAnchored', published' = published,
         Version' >= Version, \A v \in 1..Version : history'[v] = history[v],
         \A p \in Exporters : pub'[p] = pub[p] \/ Right(p, pub'[p], history')
  PROVE  PubIInv'
  <1>1. Version' \in Nat /\ Version \in Nat
    BY NowIsState DEF PubTypeOK, Version
  <1>2. \A p \in Exporters : Right(p, pub'[p], history')
    BY <1>1, RightStays
  <1>3. ReadsOneState' /\ GathersOneState' /\ ReviewCounts'
    BY <1>2, RightNext
  <1>4. VersionsKnown'
    BY <1>1 DEF PubIInv, VersionsKnown
  <1>5. PublishedWhole'
    <2>1. \A f \in Files : published[f] # NoPub =>
            history'[published[f].version] = history[published[f].version]
      BY DEF PubIInv, VersionsKnown
    <2>2. \A p \in Exporters :
            pub'[p].why # NoPub =>
              pub'[p].why \in 1..Len(history') /\ Orphans(history'[pub'[p].why]) # {}
      BY <1>2 DEF Right
    <2> QED
      BY <2>1, <2>2 DEF PubIInv, PublishedWhole, RefusedForOrphan, Files, Version
  <1> QED
    BY <1>3, <1>4, <1>5 DEF PubIInv

(* A process starts to publish.                                            *)
LEMMA Starts ==
  ASSUME PubIInv, NEW p \in Exporters, NEW stages \in Seq(Files), NEW base \in Nat,
         Publish(p, stages, base), history' \in Seq(States),
         p = "review" => base <= Len(history') /\ Len(stages) = 3
  PROVE  /\ pub' \in [Exporters -> PubRows]
         /\ \A q \in Exporters : pub'[q] = pub[q] \/ Right(q, pub'[q], history')
  <1> DEFINE row == [Still EXCEPT !.at = "next", !.todo = stages, !.base = base]
  <1>1. /\ row \in PubRows /\ row.at = "next" /\ row.todo = stages /\ row.base = base
        /\ row.wrote = 0 /\ row.why = NoPub
    BY StillRow DEF Still, PubRows
  <1>2. pub \in [Exporters -> PubRows] /\ pub' = [pub EXCEPT ![p] = row]
    BY DEF PubIInv, PubTypeOK, Publish
  <1> HIDE DEF row
  <1>3. Right(p, row, history')
    BY <1>1 DEF Right, Readings, Gatherings
  <1> QED
    BY <1>1, <1>2, <1>3

(* A service commits the state t.                                          *)
LEMMA CommitStep ==
  ASSUME PubIInv, NEW t \in States, Anchored(t), Committed(t),
         Now.evidence \subseteq t.evidence, UNCHANGED <<jobs, published>>,
         pub' \in [Exporters -> PubRows],
         \A p \in Exporters : pub'[p] = pub[p] \/ Right(p, pub'[p], history')
  PROVE  PubIInv'
  <1>1. /\ history' \in Seq(States) /\ Version' = Version + 1 /\ Version \in Nat
        /\ Now' = t /\ \A v \in 1..Version : history'[v] = history[v]
    BY Appended
  <1>2. PubTypeOK'
    BY <1>1 DEF PubIInv, PubTypeOK
  <1>3. \A v \in 1..Version' : Anchored(history'[v])
    <2>1. history'[Version'] = t
      BY <1>1 DEF Now
    <2>2. \A v \in 1..Version' : v = Version' \/ v \in 1..Version
      BY <1>1
    <2> QED
      BY <1>1, <2>1, <2>2, NowIsState
  <1>4. StatesAnchored'
    BY <1>1, <1>3 DEF PubIInv, StatesAnchored
  <1> QED
    BY <1>1, <1>2, <1>4, UnpublishedStep

(* A step that leaves the committed states alone.                          *)
LEMMA RowsStep ==
  ASSUME PubIInv, UNCHANGED <<history, published>>,
         jobs' \in [Pieces -> {"none", "active", "done"}],
         \A e \in Pieces : jobs'[e] # "none" => e \in Now.evidence,
         pub' \in [Exporters -> PubRows],
         \A p \in Exporters : pub'[p] = pub[p] \/ Right(p, pub'[p], history')
  PROVE  PubIInv'
  <1>1. PubTypeOK' /\ StatesAnchored' /\ Version' = Version /\ Version \in Nat
    BY NowIsState DEF PubIInv, PubTypeOK, StatesAnchored, Version, Now
  <1> QED
    BY <1>1, UnpublishedStep
-----------------------------------------------------------------------------
LEMMA EverythingIsThree == Everything \in Seq(Files) /\ Len(Everything) = 3
  BY DEF Everything, Files

(* A service that commits the state t and publishes nothing.                *)
LEMMA ServiceCommits ==
  ASSUME PubIInv, NEW t \in States, Anchored(t), Now.evidence \subseteq t.evidence,
         Committed(t), UNCHANGED <<jobs, pub, published>>
  PROVE  PubIInv'
  <1>1. pub' \in [Exporters -> PubRows] /\ \A q \in Exporters : pub'[q] = pub[q]
    BY DEF PubIInv, PubTypeOK
  <1> QED
    BY <1>1, CommitStep

LEMMA ReviewedKeeps ==
  ASSUME PubIInv, NEW t \in States, Anchored(t), Now.evidence \subseteq t.evidence, Reviewed(t)
  PROVE  PubIInv'
  <1>1. /\ Committed(t) /\ Publish("review", Everything, Version + 1)
        /\ UNCHANGED <<jobs, published>> /\ "review" \in Exporters
    BY DEF Reviewed, Exporters
  <1>2. /\ history' \in Seq(States) /\ Len(history') = Version + 1 /\ Version \in Nat
        /\ Version + 1 \in Nat /\ Version + 1 <= Len(history')
    BY <1>1, Appended DEF Version
  <1>3. /\ pub' \in [Exporters -> PubRows]
        /\ \A q \in Exporters : pub'[q] = pub[q] \/ Right(q, pub'[q], history')
    BY <1>1, <1>2, Starts, EverythingIsThree
  <1> QED
    BY <1>1, <1>3, CommitStep

LEMMA ServicesKeep ==
  ASSUME PubIInv, Services
  PROVE  PubIInv'
  <1>1. PICK t \in States : t = Now /\ Anchored(t)
    BY NowIsState
  <1>2. /\ history \in Seq(States) /\ pub \in [Exporters -> PubRows]
        /\ jobs \in [Pieces -> {"none", "active", "done"}]
        /\ \A e \in Pieces : jobs[e] # "none" => e \in Now.evidence
    BY DEF PubIInv, PubTypeOK, StatesAnchored
  <1>3. \A e \in Pieces : e \in Things /\ Derived(e) \in Things
    BY DEF Things
  <1>4. /\ "import" \in Exporters /\ "worker" \in Exporters /\ "review" \in Exporters
        /\ "export" \in Exporters /\ "report" \in Exporters
    BY DEF Exporters
  <1>5. \A p \in Exporters : pub[p].base \in Nat
    BY <1>2 DEF PubRows
  <1> HIDE DEF Things
  <1>6. ASSUME NEW n \in Persons, NEW m \in Persons, Relate(n, m)
        PROVE  PubIInv'
    <2> DEFINE u == [t EXCEPT !.entities = @ \cup {n, m}, !.relations = @ \cup {<<n, m>>}]
    <2>1. Committed(u) /\ UNCHANGED <<jobs, pub, published>>
      BY <1>1, <1>6 DEF Relate
    <2>2. /\ u.evidence = t.evidence /\ u.extractions = t.extractions /\ u.links = t.links
          /\ u.promoted = t.promoted /\ u.entities = t.entities \cup {n, m}
          /\ u.relations = t.relations \cup {<<n, m>>} /\ u.executions = t.executions
      BY DEF States
    <2>3. Anchored(u)
      BY <1>1, <2>2 DEF Anchored, Results
    <2>4. u \in States
      <3>1. t.relations \cup {<<n, m>>} \in SUBSET (Persons \X Persons)
        BY DEF States
      <3>2. t.entities \cup {n, m} \in SUBSET Persons
        BY DEF States
      <3> QED
        BY <3>1, <3>2 DEF States
    <2> QED
      BY <1>1, <2>1, <2>2, <2>3, <2>4, ServiceCommits
  <1>7. ASSUME NEW e \in Pieces, NEW n \in Persons, DetachPiece(e, n)
        PROVE  PubIInv'
    <2> DEFINE d == [t EXCEPT !.promoted = @ \ {<<e, n>>}, !.links = @ \ {<<e, n>>}]
               u == IF Kept(d, n) THEN d ELSE [d EXCEPT !.entities = @ \ {n}]
    <2>1. Committed(u) /\ UNCHANGED <<jobs, pub, published>>
      BY <1>1, <1>7 DEF DetachPiece
    <2>2. d \in States /\ Anchored(d) /\ d.evidence = t.evidence
      BY <1>1 DEF States, Anchored, Results
    <2>3. CASE Kept(d, n)
      BY <1>1, <2>1, <2>2, <2>3, ServiceCommits
    <2>4. CASE ~Kept(d, n)
      <3> DEFINE c == [d EXCEPT !.entities = @ \ {n}]
      <3>1. /\ c \in States /\ c.evidence = d.evidence /\ c.extractions = d.extractions
            /\ c.links = d.links /\ c.promoted = d.promoted /\ c.relations = d.relations
            /\ c.executions = d.executions /\ c.entities = d.entities \ {n}
        <4> HIDE DEF d
        <4> QED
          BY <2>2 DEF States
      <3>2. /\ \A l \in d.links \cup d.promoted \cup Results(d) : l[2] # n
            /\ \A x \in d.relations : x[1] # n /\ x[2] # n
        BY <2>4 DEF Kept
      <3>3. u = c
        BY <2>4
      <3> HIDE DEF c, d, u
      <3>4. Anchored(c)
        BY <2>2, <3>1, <3>2 DEF Anchored, Results
      <3> QED
        BY <1>1, <2>1, <2>2, <3>1, <3>3, <3>4, ServiceCommits
    <2> QED
      BY <2>3, <2>4
  <1>8. ASSUME NEW e \in Pieces, Import(e)
        PROVE  PubIInv'
    <2> DEFINE u == [t EXCEPT !.evidence = @ \cup {e}]
    <2>1. Committed(u) /\ Publish("import", Everything, 0) /\ UNCHANGED <<jobs, published>>
      BY <1>1, <1>8 DEF Import
    <2>2. u \in States /\ Anchored(u) /\ t.evidence \subseteq u.evidence
      BY <1>1, <1>3 DEF States, Anchored, Results
    <2>3. history' \in Seq(States)
      BY <2>1, <2>2, Appended
    <2>4. /\ pub' \in [Exporters -> PubRows]
          /\ \A q \in Exporters : pub'[q] = pub[q] \/ Right(q, pub'[q], history')
      BY <1>4, <2>1, <2>3, Starts, EverythingIsThree
    <2> QED
      BY <1>1, <2>1, <2>2, <2>4, CommitStep
  <1>9. ASSUME NEW e \in Pieces, Submit(e)
        PROVE  PubIInv'
    <2>1. /\ e \in Now.evidence /\ UNCHANGED <<history, pub, published>>
          /\ jobs' = [jobs EXCEPT ![e] = "active"]
      BY <1>9 DEF Submit
    <2> QED
      BY <1>2, <2>1, RowsStep
  <1>10. ASSUME NEW e \in Pieces, Analyse(e)
         PROVE  PubIInv'
    <2> DEFINE u == [t EXCEPT !.evidence = @ \cup {Derived(e)}, !.extractions = @ \cup {e}]
    <2>1. /\ Committed(u) /\ UNCHANGED <<jobs, pub, published>>
          /\ e \in t.evidence
      BY <1>1, <1>2, <1>10 DEF Analyse
    <2>2. u \in States /\ Anchored(u) /\ t.evidence \subseteq u.evidence
      BY <1>1, <1>3, <2>1 DEF States, Anchored, Results
    <2> QED
      BY <1>1, <2>1, <2>2, ServiceCommits
  <1>11. ASSUME NEW e \in Pieces, EndJob(e)
         PROVE  PubIInv'
    <2>1. /\ jobs[e] = "active" /\ jobs' = [jobs EXCEPT ![e] = "done"]
          /\ Publish("worker", Everything, 0) /\ UNCHANGED <<history, published>>
      BY <1>11 DEF EndJob
    <2>2. /\ pub' \in [Exporters -> PubRows]
          /\ \A q \in Exporters : pub'[q] = pub[q] \/ Right(q, pub'[q], history')
      BY <1>2, <1>4, <2>1, Starts, EverythingIsThree
    <2>3. /\ jobs' \in [Pieces -> {"none", "active", "done"}]
          /\ \A x \in Pieces : jobs'[x] # "none" => x \in Now.evidence
      BY <1>2, <2>1
    <2> QED
      BY <2>1, <2>2, <2>3, RowsStep
  <1>12. ASSUME NEW e \in Pieces, Reject(e)
         PROVE  PubIInv'
    <2> DEFINE u == [t EXCEPT !.rejected = @ \cup {e}]
    <2>1. Reviewed(u)
      BY <1>1, <1>12 DEF Reject
    <2>2. u \in States /\ Anchored(u) /\ t.evidence \subseteq u.evidence
      BY <1>1 DEF States, Anchored, Results
    <2> QED
      BY <1>1, <2>1, <2>2, ReviewedKeeps
  <1>13. ASSUME NEW e \in Pieces, NEW n \in Persons, PromotePiece(e, n)
         PROVE  PubIInv'
    <2> DEFINE u == [t EXCEPT !.entities = @ \cup {n}, !.promoted = @ \cup {<<e, n>>},
                              !.links = @ \cup {<<e, n>>}]
    <2>1. Reviewed(u) /\ e \in t.extractions
      BY <1>1, <1>13 DEF PromotePiece
    <2>2. /\ u.evidence = t.evidence /\ u.extractions = t.extractions
          /\ u.relations = t.relations /\ u.entities = t.entities \cup {n}
          /\ u.promoted = t.promoted \cup {<<e, n>>} /\ u.links = t.links \cup {<<e, n>>}
          /\ u.executions = t.executions
      BY DEF States
    <2>3. Anchored(u)
      BY <1>1, <2>1, <2>2 DEF Anchored, Results
    <2>4. u \in States
      <3>1. /\ t.promoted \cup {<<e, n>>} \in SUBSET (Pieces \X Persons)
            /\ t.entities \cup {n} \in SUBSET Persons
        BY DEF States
      <3>2. t.links \cup {<<e, n>>} \in SUBSET (Things \X Persons)
        BY <1>3 DEF States
      <3> QED
        BY <3>1, <3>2 DEF States
    <2> QED
      BY <1>1, <2>1, <2>2, <2>3, <2>4, ReviewedKeeps
  <1>14. ASSUME NEW e \in Pieces, NEW n \in Persons, WithdrawPiece(e, n)
         PROVE  PubIInv'
    <2> DEFINE u == [t EXCEPT !.promoted = @ \ {<<e, n>>}, !.links = @ \ {<<e, n>>}]
    <2>1. Reviewed(u)
      BY <1>1, <1>14 DEF WithdrawPiece
    <2>2. u \in States /\ Anchored(u) /\ t.evidence \subseteq u.evidence
      BY <1>1 DEF States, Anchored, Results
    <2> QED
      BY <1>1, <2>1, <2>2, ReviewedKeeps
  <1>15. ASSUME ReviewAgain \/ ExportCommand \/ PreviewReport
         PROVE  PubIInv'
    <2>1. PICK p \in Exporters, stages \in Seq(Files), base \in Nat :
            /\ Publish(p, stages, base) /\ UNCHANGED <<history, jobs, published>>
            /\ p = "review" => base <= Len(history') /\ Len(stages) = 3
      <3>1. CASE ReviewAgain
        <4>1. pub["review"].base <= Len(history)
          BY DEF PubIInv, ReviewCounts, Version
        <4> QED
          BY <1>4, <1>5, <3>1, <4>1, EverythingIsThree DEF ReviewAgain
      <3>2. CASE ExportCommand
        <4>1. <<"correlation", "planner">> \in Seq(Files)
          BY DEF Files
        <4> QED
          BY <1>4, <3>2, <4>1 DEF ExportCommand
      <3>3. CASE PreviewReport
        <4>1. <<"report">> \in Seq(Files)
          BY DEF Files
        <4> QED
          BY <1>4, <3>3, <4>1 DEF PreviewReport
      <3> QED
        BY <1>15, <3>1, <3>2, <3>3
    <2>2. /\ pub' \in [Exporters -> PubRows]
          /\ \A q \in Exporters : pub'[q] = pub[q] \/ Right(q, pub'[q], history')
      BY <1>2, <2>1, Starts
    <2> QED
      BY <1>2, <2>1, <2>2, RowsStep
  <1> QED
    BY <1>6, <1>7, <1>8, <1>9, <1>10, <1>11, <1>12, <1>13, <1>14, <1>15 DEF Services
-----------------------------------------------------------------------------
(* An exporter moves to a row that is right.                               *)
LEMMA GoStep ==
  ASSUME PubIInv, NEW p \in Exporters, NEW r \in PubRows, Right(p, r, history), Go(p, r)
  PROVE  PubIInv'
  <1>1. /\ pub \in [Exporters -> PubRows] /\ pub' = [pub EXCEPT ![p] = r]
        /\ UNCHANGED <<history, jobs, published>>
        /\ jobs \in [Pieces -> {"none", "active", "done"}]
        /\ \A e \in Pieces : jobs[e] # "none" => e \in Now.evidence
    BY DEF PubIInv, PubTypeOK, StatesAnchored, Go
  <1>2. /\ pub' \in [Exporters -> PubRows]
        /\ \A q \in Exporters : pub'[q] = pub[q] \/ Right(q, pub'[q], history')
    BY <1>1
  <1> QED
    BY <1>1, <1>2, RowsStep

(* What a failed export makes of a row.                                    *)
LEMMA FailedRight ==
  ASSUME PubIInv, NEW p \in Exporters, pub[p].todo # <<>>, NEW why \in Nat \cup {NoPub},
         why # NoPub => why \in 1..Len(history) /\ Orphans(history[why]) # {}
  PROVE  Failed(p, why) \in PubRows /\ Right(p, Failed(p, why), history)
  <1>1. pub[p] \in PubRows /\ Right(p, pub[p], history)
    BY RightNow
  <1>2. pub[p].todo \in Seq(Files) /\ pub[p].base \in Nat /\ Tail(pub[p].todo) \in Seq(Files)
    BY <1>1 DEF PubRows
  <1> DEFINE on  == [Still EXCEPT !.at = "next", !.todo = Tail(pub[p].todo), !.why = why]
             off == [Still EXCEPT !.base = pub[p].base, !.why = why]
  <1>3. on \in PubRows /\ on.at = "next" /\ on.why = why
    BY <1>2, StillRow DEF Still, PubRows
  <1>4. off \in PubRows /\ off.at = "idle" /\ off.why = why /\ off.base = pub[p].base
    BY <1>2, StillRow DEF Still, PubRows
  <1>7. Failed(p, why) = IF p = "worker" THEN on ELSE off
    BY DEF Failed
  <1> HIDE DEF on, off
  <1>5. p = "worker" => Right(p, on, history)
    BY <1>3 DEF Right, Readings, Gatherings
  <1>6. Right(p, off, history)
    BY <1>1, <1>4 DEF Right, Readings, Gatherings
  <1> QED
    BY <1>3, <1>4, <1>5, <1>6, <1>7

(* A row that goes on, with more of the graph or another list.              *)
LEMMA MovedGraph ==
  ASSUME PubIInv, NEW p \in Exporters, NEW at \in Readings, NEW g \in Graphs
  PROVE  \E r \in PubRows :
           /\ r = [Move(p, at) EXCEPT !.graph = g]
           /\ r.at = at /\ r.todo = pub[p].todo /\ r.view = pub[p].view /\ r.graph = g
           /\ r.list = pub[p].list /\ r.base = pub[p].base /\ r.wrote = pub[p].wrote
           /\ r.why = pub[p].why
  <1>1. pub[p] \in PubRows
    BY RightNow
  <1> DEFINE r == [Move(p, at) EXCEPT !.graph = g]
  <1>2. r \in PubRows /\ r.at = at /\ r.graph = g
    BY <1>1 DEF Move, PubRows
  <1>3. /\ r.todo = pub[p].todo /\ r.view = pub[p].view
        /\ r.list = pub[p].list /\ r.base = pub[p].base /\ r.wrote = pub[p].wrote
        /\ r.why = pub[p].why
    BY <1>1 DEF Move, PubRows
  <1> QED
    BY <1>2, <1>3

LEMMA MovedList ==
  ASSUME PubIInv, NEW p \in Exporters, NEW at \in Readings, NEW l \in Lists
  PROVE  \E r \in PubRows :
           /\ r = [Move(p, at) EXCEPT !.list = l]
           /\ r.at = at /\ r.todo = pub[p].todo /\ r.view = pub[p].view /\ r.list = l
           /\ r.graph = pub[p].graph /\ r.base = pub[p].base /\ r.wrote = pub[p].wrote
           /\ r.why = pub[p].why
  <1>1. pub[p] \in PubRows
    BY RightNow
  <1> DEFINE r == [Move(p, at) EXCEPT !.list = l]
  <1>2. r \in PubRows /\ r.at = at /\ r.list = l
    BY <1>1 DEF Move, PubRows
  <1>3. /\ r.todo = pub[p].todo /\ r.view = pub[p].view
        /\ r.graph = pub[p].graph /\ r.base = pub[p].base /\ r.wrote = pub[p].wrote
        /\ r.why = pub[p].why
    BY <1>1 DEF Move, PubRows
  <1> QED
    BY <1>2, <1>3

(* A process that reads: the state it looks at and what it has of it.       *)
LEMMA Reads ==
  ASSUME PubIInv, NEW p \in Exporters, pub[p].at \in Readings
  PROVE  /\ pub[p].view \in 1..Len(history) /\ Seen(p) = history[pub[p].view]
         /\ Seen(p) \in States /\ Anchored(Seen(p)) /\ pub[p].todo # <<>>
         /\ Stage(p) = Head(pub[p].todo) /\ Stage(p) \in Files
         /\ pub[p].at \in Gatherings
              => Stage(p) \in {"core", "report"}
         /\ Stage(p) \in {"core", "report"}
              => pub[p].graph = Gathered(Seen(p), pub[p].at) /\ Ended(pub[p].graph)
         /\ p = "review" => pub[p].view >= pub[p].base /\ pub[p].base <= Len(history)
                            /\ Len(pub[p].todo) + pub[p].wrote = 3
  <1>1. pub[p] \in PubRows /\ Right(p, pub[p], history)
    BY RightNow
  <1>2. pub[p].todo \in Seq(Files)
    BY <1>1 DEF PubRows
  <1>3. pub[p].view \in 1..Len(history) /\ pub[p].todo # <<>>
    BY <1>1 DEF Right
  <1>4. Seen(p) \in States /\ Anchored(Seen(p))
    BY <1>3, NowIsState DEF Seen, Version
  <1>5. Stage(p) \in Files
    BY <1>2, <1>3 DEF Stage
  <1>6. pub[p].at \notin {"absent", "idle"}
    BY DEF Readings, Gatherings
  <1> QED
    BY <1>1, <1>3, <1>4, <1>5, <1>6 DEF Right, Stage, Seen

(* A reading brings the graph to what the next one wants.                   *)
LEMMA GrowStep ==
  ASSUME PubIInv, NEW p \in Exporters, NEW nodes, NEW edges,
         pub[p].at \in Gatherings,
         NEW next \in {"evidence", "extractions", "observations", "executions", "select",
                       "write"},
         next = "select" => Stage(p) = "report",
         [nodes |-> pub[p].graph.nodes \cup nodes, edges |-> pub[p].graph.edges \cup edges]
           = Gathered(Seen(p), next),
         next = "write" => Stage(p) = "core",
         Grow(p, nodes, edges, next)
  PROVE  PubIInv'
  <1> DEFINE g == Gathered(Seen(p), next)
  <1>1. pub[p].at \in Readings /\ next \in Readings
    BY DEF Readings, Gatherings
  <1>2. /\ Stage(p) \in {"core", "report"} /\ pub[p].todo # <<>> /\ Seen(p) \in States
        /\ Anchored(Seen(p)) /\ Stage(p) = Head(pub[p].todo)
        /\ pub[p].view \in 1..Len(history) /\ Seen(p) = history[pub[p].view]
        /\ p = "review" => pub[p].view >= pub[p].base /\ pub[p].base <= Len(history)
                            /\ Len(pub[p].todo) + pub[p].wrote = 3
    BY <1>1, Reads
  <1>3. g \in Graphs
    BY <1>2, GatheredTyped
  <1>4. Ended(g) \/ Orphans(Seen(p)) # {}
    <2>1. next \in {"select", "write"} => g = Projection(Seen(p))
      BY DEF Gathered
    <2> QED
      BY <1>2, <2>1, PartsEnd
  <1>5. PICK r \in PubRows :
           /\ r = [Move(p, next) EXCEPT !.graph = g]
           /\ r.at = next /\ r.todo = pub[p].todo /\ r.view = pub[p].view /\ r.graph = g
           /\ r.base = pub[p].base /\ r.wrote = pub[p].wrote /\ r.why = pub[p].why
    BY <1>1, <1>3, MovedGraph
  <1>6. \/ Ended(g) /\ Go(p, r)
        \/ Go(p, Failed(p, NoPub))
        \/ Orphans(Seen(p)) # {} /\ Go(p, Failed(p, pub[p].view))
    BY <1>4, <1>5 DEF Grow
  <1>7. Ended(g) => Right(p, r, history)
    BY <1>1, <1>2, <1>5, RightNow DEF Right, Gatherings
  <1>8. Failed(p, NoPub) \in PubRows /\ Right(p, Failed(p, NoPub), history)
    BY <1>2, FailedRight
  <1>9. Orphans(Seen(p)) # {} =>
          Failed(p, pub[p].view) \in PubRows /\ Right(p, Failed(p, pub[p].view), history)
    <2>1. pub[p].view \in Nat
      BY <1>2, NowIsState DEF Version
    <2> QED
      BY <1>2, <2>1, FailedRight
  <1> QED
    BY <1>5, <1>6, <1>7, <1>8, <1>9, GoStep

LEMMA GraphReadsKeep ==
  ASSUME PubIInv, NEW p \in Exporters,
         \/ ReadGraph(p) \/ ReadEvidence(p) \/ ReadExtractions(p) \/ ReadObservations(p)
         \/ ReadExecutions(p)
  PROVE  PubIInv'
  <1> DEFINE t == Seen(p)
             kept == GraphNodes(t) \cup EvidenceNodes(t) \cup ExtractionNodes(t)
  <1>1. pub[p].at \in Gatherings
    BY DEF ReadGraph, ReadEvidence, ReadExtractions, ReadObservations, ReadExecutions,
           Gatherings
  <1>2. /\ pub[p].graph = Gathered(t, pub[p].at) /\ t \in States
        /\ Stage(p) \in {"core", "report"}
    BY <1>1, Reads DEF Readings, Gatherings
  <1> HIDE DEF t
  <1>3. CASE ReadGraph(p)
    <2>1. /\ pub[p].at = "graph"
          /\ Grow(p, GraphNodes(t), Relations(t), "evidence")
      BY <1>3 DEF ReadGraph, Look, t
    <2>2. pub[p].graph = Blank
      BY <1>2, <2>1 DEF Gathered
    <2>3. [nodes |-> pub[p].graph.nodes \cup GraphNodes(t),
           edges |-> pub[p].graph.edges \cup Relations(t)] = Gathered(t, "evidence")
      BY <2>2 DEF Gathered, Blank
    <2> QED
      BY <1>1, <2>1, <2>3, GrowStep DEF t
  <1>4. CASE ReadEvidence(p)
    <2>1. /\ pub[p].at = "evidence"
          /\ Grow(p, EvidenceNodes(t), Attachments(t), "extractions")
      BY <1>4 DEF ReadEvidence, Look, t
    <2>2. pub[p].graph = [nodes |-> GraphNodes(t), edges |-> Relations(t)]
      BY <1>2, <2>1 DEF Gathered
    <2>3. [nodes |-> pub[p].graph.nodes \cup EvidenceNodes(t),
           edges |-> pub[p].graph.edges \cup Attachments(t)] = Gathered(t, "extractions")
      BY <2>2 DEF Gathered
    <2> QED
      BY <1>1, <2>1, <2>3, GrowStep DEF t
  <1>5. CASE ReadExtractions(p)
    <2>1. /\ pub[p].at = "extractions"
          /\ Grow(p, ExtractionNodes(t), ExtractionEdges(t, pub[p].graph.nodes),
                  "observations")
      BY <1>5 DEF ReadExtractions, Look, t
    <2>2. pub[p].graph = [nodes |-> GraphNodes(t) \cup EvidenceNodes(t),
                          edges |-> Relations(t) \cup Attachments(t)]
      BY <1>2, <2>1 DEF Gathered
    <2>3. ExtractionEdges(t, pub[p].graph.nodes) = ExtractionEdges(t, kept)
      BY <1>2, <2>2, KnownBefore
    <2>4. [nodes |-> pub[p].graph.nodes \cup ExtractionNodes(t),
           edges |-> pub[p].graph.edges \cup ExtractionEdges(t, pub[p].graph.nodes)]
             = Gathered(t, "observations")
      <3>1. Gathered(t, "observations") =
              [nodes |-> kept, edges |-> Relations(t) \cup Attachments(t) \cup
                                         ExtractionEdges(t, kept)]
        BY DEF Gathered
      <3>2. /\ pub[p].graph.nodes \cup ExtractionNodes(t) = kept
            /\ pub[p].graph.edges = Relations(t) \cup Attachments(t)
        BY <2>2
      <3> QED
        BY <2>3, <3>1, <3>2
    <2> QED
      BY <1>1, <2>1, <2>4, GrowStep DEF t
  <1>6. CASE ReadObservations(p)
    <2>1. /\ pub[p].at = "observations"
          /\ Grow(p, ObservationNodes(t), ObservationEdges(t, pub[p].graph.nodes),
                  "executions")
      BY <1>6 DEF ReadObservations, Look, t
    <2>2. pub[p].graph = [nodes |-> kept, edges |-> Relations(t) \cup Attachments(t) \cup
                                                    ExtractionEdges(t, kept)]
      BY <1>2, <2>1 DEF Gathered
    <2>3. Gathered(t, "executions") = WithoutRuns(t)
      BY DEF Gathered
    <2>4. [nodes |-> pub[p].graph.nodes \cup ObservationNodes(t),
           edges |-> pub[p].graph.edges \cup ObservationEdges(t, pub[p].graph.nodes)]
             = Gathered(t, "executions")
      BY <2>2, <2>3 DEF WithoutRuns
    <2> QED
      BY <1>1, <2>1, <2>4, GrowStep DEF t
  <1>7. CASE ReadExecutions(p)
    <2>1. PICK next \in {"select", "write"} :
            /\ pub[p].at = "executions"
            /\ next = (IF Stage(p) = "report" THEN "select" ELSE "write")
            /\ Grow(p, ExecutionNodes(t), ExecutionEdges(t), next)
      BY <1>7 DEF ReadExecutions, Look, t
    <2>2. pub[p].graph = WithoutRuns(t)
      BY <1>2, <2>1 DEF Gathered
    <2>3. [nodes |-> pub[p].graph.nodes \cup ExecutionNodes(t),
           edges |-> pub[p].graph.edges \cup ExecutionEdges(t)] = Gathered(t, next)
      BY <2>2 DEF Gathered, Projection
    <2> QED
      BY <1>1, <1>2, <2>1, <2>3, GrowStep DEF t
  <1> QED
    BY <1>3, <1>4, <1>5, <1>6, <1>7

(* What is listed is complete by the time it is written.                   *)
LEMMA ListStep ==
  ASSUME PubIInv, NEW p \in Exporters, pub[p].at \in Readings, NEW at \in Readings,
         NEW l \in Lists, Go(p, [Move(p, at) EXCEPT !.list = l]),
         \/ at = "write" /\ Stage(p) = "planner"
         \/ at = "write" /\ Stage(p) = "correlation" /\ Whole(l, Seen(p))
         \/ at = "write" /\ Stage(p) = "report" /\ pub[p].at = "select"
            /\ Backed(l, Projection(Seen(p)))
         \/ at = "extracted" /\ Stage(p) = "planner" /\ l \in [evidence : SUBSET Things]
         \/ /\ at = "jobs" /\ Stage(p) = "planner"
            /\ l \in [evidence : SUBSET Things, extractions : SUBSET Pieces]
  PROVE  PubIInv'
  <1>1. /\ pub[p].todo # <<>> /\ Stage(p) = Head(pub[p].todo)
        /\ pub[p].view \in 1..Len(history) /\ Seen(p) = history[pub[p].view]
        /\ Stage(p) \in {"core", "report"}
             => pub[p].graph = Gathered(Seen(p), pub[p].at) /\ Ended(pub[p].graph)
        /\ p = "review" => pub[p].view >= pub[p].base /\ pub[p].base <= Len(history)
                            /\ Len(pub[p].todo) + pub[p].wrote = 3
    BY Reads
  <1>2. PICK r \in PubRows :
           /\ r = [Move(p, at) EXCEPT !.list = l]
           /\ r.at = at /\ r.todo = pub[p].todo /\ r.view = pub[p].view /\ r.list = l
           /\ r.graph = pub[p].graph /\ r.base = pub[p].base /\ r.wrote = pub[p].wrote
           /\ r.why = pub[p].why
    BY MovedList
  <1>3. pub[p].at = "select" => Gathered(Seen(p), pub[p].at) = Gathered(Seen(p), "write")
    BY DEF Gathered
  <1>5. at \notin Gatherings /\ Right(p, pub[p], history)
    BY RightNow DEF Gatherings
  <1>4. Right(p, r, history)
    BY <1>1, <1>2, <1>3, <1>5 DEF Right
  <1> QED
    BY <1>2, <1>4, GoStep

LEMMA ListReadsKeep ==
  ASSUME PubIInv, NEW p \in Exporters,
         \/ IndexObservations(p) \/ ListPieces(p) \/ ListExtractions(p) \/ ListJobs(p)
         \/ SelectReport(p)
  PROVE  PubIInv'
  <1>1. /\ pub[p].at \in Readings
        /\ "write" \in Readings /\ "extracted" \in Readings /\ "jobs" \in Readings
    BY DEF IndexObservations, ListPieces, ListExtractions, ListJobs, SelectReport, Readings,
           Gatherings
  <1>2. /\ Seen(p) \in States /\ Anchored(Seen(p)) /\ Now \in States
        /\ Stage(p) = Head(pub[p].todo) /\ Right(p, pub[p], history)
    BY <1>1, Reads, RightNow, NowIsState
  <1>3. CASE IndexObservations(p)
    <2>1. PICK s \in SUBSET Look(p).extractions :
            Go(p, [Move(p, "write") EXCEPT
              !.list = [groups |-> Groups(Look(p), s), complete |-> s = Look(p).extractions]])
      BY <1>3 DEF IndexObservations
    <2> DEFINE l == [groups |-> Groups(Seen(p), s), complete |-> s = Seen(p).extractions]
    <2>2. Go(p, [Move(p, "write") EXCEPT !.list = l])
      BY <2>1 DEF Look
    <2>3. Stage(p) = "correlation"
      BY <1>1, <1>2, <1>3 DEF Right, IndexObservations
    <2>4. l \in Lists
      <3>1. Seen(p).extractions \subseteq Pieces
        BY <1>2 DEF States
      <3>2. Groups(Seen(p), s) \in SUBSET SUBSET Pieces
        BY <2>1, <3>1 DEF Groups, Look
      <3> QED
        BY <3>2 DEF Lists
    <2>5. Whole(l, Seen(p))
      BY DEF Whole
    <2> HIDE DEF l
    <2> QED
      BY <1>1, <2>2, <2>3, <2>4, <2>5, ListStep
  <1>4. CASE ListPieces(p)
    <2> DEFINE l == [evidence |-> Now.evidence]
    <2>1. Go(p, [Move(p, "extracted") EXCEPT !.list = l]) /\ Stage(p) = "planner"
      BY <1>1, <1>2, <1>4 DEF ListPieces, Right
    <2>2. l \in [evidence : SUBSET Things] /\ l \in Lists
      BY <1>2 DEF States, Lists
    <2> HIDE DEF l
    <2> QED
      BY <1>1, <2>1, <2>2, ListStep
  <1>5. CASE ListExtractions(p)
    <2> DEFINE l == [evidence |-> pub[p].list.evidence, extractions |-> Now.extractions]
    <2>1. pub[p].at = "extracted"
      BY <1>5 DEF ListExtractions
    <2>2. Move(p, "jobs").list = pub[p].list
      <3>1. pub[p] \in PubRows
        BY RightNow
      <3> QED
        BY <3>1 DEF Move, PubRows
    <2>3. Go(p, [Move(p, "jobs") EXCEPT !.list = l]) /\ Stage(p) = "planner"
      BY <1>1, <1>2, <1>5, <2>1, <2>2 DEF ListExtractions, Right
    <2>4. pub[p].list \in [evidence : SUBSET Things]
      BY <1>1, <1>2, <2>1 DEF Right
    <2>5. l \in [evidence : SUBSET Things, extractions : SUBSET Pieces] /\ l \in Lists
      BY <1>2, <2>4 DEF States, Lists
    <2> HIDE DEF l
    <2> QED
      BY <1>1, <2>3, <2>5, ListStep
  <1>6. CASE ListJobs(p)
    <2> DEFINE k == pub[p].list
               active == {e \in Pieces : jobs[e] = "active"}
               l == [evidence |-> k.evidence, extractions |-> k.extractions,
                     active |-> active,
                     available |-> (k.evidence \cap Pieces) \ (k.extractions \cup active)]
    <2>1. pub[p].at = "jobs"
      BY <1>6 DEF ListJobs
    <2>2. Go(p, [Move(p, "write") EXCEPT !.list = l]) /\ Stage(p) = "planner"
      BY <1>1, <1>2, <1>6, <2>1 DEF ListJobs, Right
    <2>3. k \in [evidence : SUBSET Things, extractions : SUBSET Pieces]
      BY <1>1, <1>2, <2>1 DEF Right
    <2>4. l \in Lists
      BY <2>3 DEF Lists
    <2> HIDE DEF l
    <2> QED
      BY <1>1, <2>2, <2>4, ListStep
  <1>7. CASE SelectReport(p)
    <2>1. PICK s \in SUBSET pub[p].graph.nodes :
            Go(p, [Move(p, "write") EXCEPT
              !.list = [chosen |-> s, included |-> Closure(pub[p].graph, s)]])
      BY <1>7 DEF SelectReport
    <2> DEFINE g == Projection(Seen(p))
               l == [chosen |-> s, included |-> Closure(g, s)]
    <2>2. pub[p].at = "select" /\ Stage(p) = "report"
      BY <1>1, <1>2, <1>7 DEF SelectReport, Right
    <2>3. pub[p].graph = g
      <3>1. pub[p].graph = Gathered(Seen(p), "select")
        BY <1>1, <2>2, Reads
      <3> QED
        BY <3>1 DEF Gathered
    <2>4. Ended(g) /\ g \in Graphs
      BY <1>1, <1>2, <2>2, <2>3, Reads, GatheredTyped
    <2>5. /\ s \subseteq Closure(g, s) /\ Closure(g, s) \subseteq g.nodes
          /\ Follows(g, Closure(g, s)) /\ s \subseteq g.nodes
      BY <2>1, <2>3, <2>4, ClosureCloses
    <2>6. l \in Lists /\ Backed(l, g)
      BY <2>4, <2>5 DEF Lists, Backed, Graphs
    <2>7. Go(p, [Move(p, "write") EXCEPT !.list = l])
      BY <2>1, <2>3
    <2> HIDE DEF l
    <2> QED
      BY <1>1, <2>2, <2>6, <2>7, ListStep
  <1> QED
    BY <1>3, <1>4, <1>5, <1>6, <1>7

LEMMA BeginReadKeeps ==
  ASSUME PubIInv, NEW p \in Exporters, BeginRead(p)
  PROVE  PubIInv'
  <1>1. pub[p] \in PubRows /\ Right(p, pub[p], history)
    BY RightNow
  <1>2. /\ pub[p].todo \in Seq(Files) /\ pub[p].todo # <<>> /\ pub[p].at = "next"
        /\ pub[p].base \in Nat
    BY <1>1 DEF BeginRead, PubRows
  <1>3. Stage(p) \in Files /\ Stage(p) = Head(pub[p].todo)
    BY <1>2 DEF Stage
  <1>4. PICK at \in {"graph", "indexed", "pieces"} :
          /\ at = "graph" <=> Stage(p) \in {"core", "report"}
          /\ at = "indexed" <=> Stage(p) = "correlation"
          /\ at = "pieces" <=> Stage(p) = "planner"
          /\ Go(p, [Move(p, at) EXCEPT !.view = Version, !.graph = Blank, !.list = NoPub])
    BY <1>3 DEF BeginRead, Files
  <1> DEFINE r == [Move(p, at) EXCEPT !.view = Version, !.graph = Blank, !.list = NoPub]
  <1>5. /\ r \in PubRows /\ r.at = at /\ r.todo = pub[p].todo /\ r.view = Version
        /\ r.graph = Blank /\ r.base = pub[p].base /\ r.wrote = pub[p].wrote
        /\ r.why = pub[p].why
    BY <1>1, <1>4, NowIsState, StillRow DEF Move, PubRows, Readings, Gatherings
  <1> HIDE DEF r
  <1>6. Gathered(history[r.view], "graph") = Blank /\ Ended(Blank)
    BY DEF Gathered, Ended, Blank
  <1>7. Right(p, r, history)
    <2>1. Version \in 1..Len(history) /\ Version \in Nat
      BY NowIsState DEF Version
    <2>2. p = "review" => r.base <= Version /\ Len(r.todo) + r.wrote = 3 /\ r.view >= r.base
      BY <1>1, <1>2, <1>5, <2>1 DEF Right, Version
    <2> QED
      BY <1>1, <1>2, <1>3, <1>4, <1>5, <1>6, <2>1, <2>2 DEF Right, Gatherings, Version
  <1> QED
    BY <1>4, <1>5, <1>7, GoStep DEF r

(* A file is written from the state the process has looked at.              *)
LEMMA WriteFileKeeps ==
  ASSUME PubIInv, NEW p \in Exporters, WriteFile(p)
  PROVE  PubIInv'
  <1>1. pub[p] \in PubRows /\ Right(p, pub[p], history)
    BY RightNow
  <1>2. /\ pub[p].at = "write" /\ pub[p].at \in Readings /\ UNCHANGED <<history, jobs>>
        /\ published' = [published EXCEPT ![Stage(p)] = Product(p)]
    BY DEF WriteFile, Readings, Gatherings
  <1>3. /\ pub[p].todo # <<>> /\ pub[p].todo \in Seq(Files) /\ pub[p].base \in Nat
        /\ pub[p].wrote \in Nat /\ pub[p].graph \in Graphs
        /\ pub[p].list \in Lists \cup {NoPub} /\ pub[p].view \in 1..Len(history)
        /\ Stage(p) \in Files /\ Stage(p) = Head(pub[p].todo)
        /\ Seen(p) = history[pub[p].view] /\ Len(history) \in Nat
    BY <1>1, <1>2, Reads, NowIsState DEF PubRows, Version
  <1> DEFINE wrote == IF pub[p].view >= pub[p].base THEN pub[p].wrote + 1 ELSE pub[p].wrote
             row == [Still EXCEPT !.at = "next", !.todo = Tail(pub[p].todo),
                                  !.base = pub[p].base, !.wrote = wrote]
  <1>4. pub' = [pub EXCEPT ![p] = row]
    BY DEF WriteFile
  <1>5. /\ Tail(pub[p].todo) \in Seq(Files) /\ Len(Tail(pub[p].todo)) = Len(pub[p].todo) - 1
        /\ Len(pub[p].todo) \in Nat /\ wrote \in Nat
    BY <1>3
  <1>6. /\ row \in PubRows /\ row.at = "next" /\ row.todo = Tail(pub[p].todo)
        /\ row.base = pub[p].base /\ row.wrote = wrote /\ row.why = NoPub
    <2> HIDE DEF wrote
    <2> QED
      BY <1>3, <1>5, StillRow DEF Still, PubRows
  <1> HIDE DEF row
  <1>7. Right(p, row, history)
    <2>1. p = "review" => row.base <= Len(history) /\ Len(row.todo) + row.wrote = 3
      BY <1>1, <1>2, <1>3, <1>5, <1>6, Reads
    <2> QED
      BY <1>6, <2>1 DEF Right, Readings, Gatherings
  <1> HIDE DEF wrote
  <1>8. /\ Product(p) \in Products /\ Product(p).version = pub[p].view
        /\ Stage(p) = "core" => Product(p).graph = Projection(Seen(p)) /\ Ended(Product(p).graph)
        /\ Stage(p) = "correlation" => Whole(Product(p).list, Seen(p))
        /\ Stage(p) = "report" => Backed(Product(p).list, Projection(Seen(p)))
    <2>1. Stage(p) = "core" => pub[p].graph = Projection(Seen(p)) /\ Ended(pub[p].graph)
      BY <1>2, Reads DEF Gathered
    <2>2. /\ Stage(p) = "correlation" => Whole(pub[p].list, Seen(p))
          /\ Stage(p) = "report" => Backed(pub[p].list, Projection(Seen(p)))
      BY <1>1, <1>2, <1>3 DEF Right
    <2>3. CASE Stage(p) = "core"
      <3>1. Product(p) = [version |-> pub[p].view, graph |-> pub[p].graph]
        BY <2>3 DEF Product
      <3>2. Product(p) \in Products
        BY <1>3, <3>1 DEF Products
      <3> QED
        BY <2>1, <2>3, <3>1, <3>2
    <2>4. CASE Stage(p) # "core"
      <3>1. Product(p) = [version |-> pub[p].view, list |-> pub[p].list]
        BY <2>4 DEF Product
      <3>2. Product(p) \in Products
        BY <1>3, <3>1 DEF Products
      <3> QED
        BY <2>2, <2>4, <3>1, <3>2
    <2> QED
      BY <2>3, <2>4
  <1>9. pub' \in [Exporters -> PubRows] /\ \A q \in Exporters : Right(q, pub'[q], history)
    BY <1>4, <1>6, <1>7, RightNow DEF PubIInv, PubTypeOK
  <1>10. /\ published \in [Files -> Products \cup {NoPub}]
         /\ published' \in [Files -> Products \cup {NoPub}]
         /\ \A f \in Files : published'[f] = (IF f = Stage(p) THEN Product(p) ELSE published[f])
    BY <1>2, <1>3, <1>8 DEF PubIInv, PubTypeOK
  <1>11. PubTypeOK' /\ StatesAnchored' /\ Version' = Version
    BY <1>2, <1>9, <1>10 DEF PubIInv, PubTypeOK, StatesAnchored, Version, Now
  <1>12. ReadsOneState' /\ GathersOneState' /\ ReviewCounts'
    BY <1>2, <1>9, RightNext
  <1>13. VersionsKnown'
    BY <1>3, <1>8, <1>10, <1>11 DEF PubIInv, VersionsKnown, Version
  <1>14. PublishedWhole'
    <2>1. \A q \in Exporters :
            pub'[q].why # NoPub =>
              pub'[q].why \in 1..Len(history) /\ Orphans(history[pub'[q].why]) # {}
      BY <1>9 DEF Right
    <2>2. "core" \in Files /\ "correlation" \in Files /\ "report" \in Files
      BY DEF Files
    <2>3. published'["core"] # NoPub =>
            /\ published'["core"].graph = Projection(history[published'["core"].version])
            /\ Ended(published'["core"].graph)
      BY <1>3, <1>8, <1>10, <2>2 DEF PubIInv, PublishedWhole
    <2>4. published'["correlation"] # NoPub =>
            Whole(published'["correlation"].list, history[published'["correlation"].version])
      BY <1>3, <1>8, <1>10, <2>2 DEF PubIInv, PublishedWhole
    <2>5. published'["report"] # NoPub =>
            Backed(published'["report"].list,
                   Projection(history[published'["report"].version]))
      BY <1>3, <1>8, <1>10, <2>2 DEF PubIInv, PublishedWhole
    <2> QED
      BY <1>2, <2>1, <2>3, <2>4, <2>5 DEF PublishedWhole, RefusedForOrphan, Version
  <1> QED
    BY <1>11, <1>12, <1>13, <1>14 DEF PubIInv

LEMMA ExporterEndsKeep ==
  ASSUME PubIInv, NEW p \in Exporters, ExportFails(p) \/ AnswerExport(p) \/ KillExporter(p)
  PROVE  PubIInv'
  <1>1. pub[p] \in PubRows /\ Right(p, pub[p], history)
    BY RightNow
  <1>2. CASE ExportFails(p)
    <2>1. pub[p].at \in Readings /\ Go(p, Failed(p, NoPub))
      BY <1>1, <1>2 DEF ExportFails, PubRows, Readings
    <2> QED
      BY <2>1, Reads, FailedRight, GoStep
  <1>3. CASE AnswerExport(p)
    <2>1. Go(p, Still) /\ Still \in PubRows
      BY <1>3, StillRow DEF AnswerExport
    <2>2. Right(p, Still, history)
      BY NowIsState DEF Right, Still, Readings, Gatherings, Version
    <2> QED
      BY <2>1, <2>2, GoStep
  <1>4. CASE KillExporter(p)
    <2> DEFINE row == [Still EXCEPT !.base = pub[p].base]
    <2>1. row \in PubRows /\ row.at = "idle" /\ row.why = NoPub /\ row.base = pub[p].base
      BY <1>1, StillRow DEF Still, PubRows
    <2>2. Go(p, row)
      BY <1>4 DEF KillExporter
    <2> HIDE DEF row
    <2>3. Right(p, row, history)
      BY <1>1, <2>1 DEF Right, Readings, Gatherings
    <2> QED
      BY <2>1, <2>2, <2>3, GoStep
  <1> QED
    BY <1>2, <1>3, <1>4

LEMMA PubStarts ==
  ASSUME NEW some \in Together, NEW first \in FirstDbs, PubInit(some, first)
  PROVE  PubIInv
  <1>1. /\ history = <<first>> /\ first \in States /\ Anchored(first)
        /\ jobs = [e \in Pieces |-> IF e \in first.extractions THEN "done" ELSE "none"]
        /\ pub = [p \in Exporters |->
                    IF p \in some THEN Still ELSE [Still EXCEPT !.at = "absent"]]
        /\ published = [f \in Files |-> NoPub]
    BY PublicationAssumption DEF PubInit
  <1>2. history \in Seq(States) /\ Version = 1 /\ Now = first /\ history[1] = first
    BY <1>1 DEF Version, Now
  <1>3. /\ Still.at = "idle" /\ Still.base = 0 /\ Still.why = NoPub
        /\ [Still EXCEPT !.at = "absent"] \in PubRows
        /\ [Still EXCEPT !.at = "absent"].at = "absent"
        /\ [Still EXCEPT !.at = "absent"].base = 0
        /\ [Still EXCEPT !.at = "absent"].why = NoPub
    BY StillRow DEF Still, PubRows
  <1>4. /\ pub \in [Exporters -> PubRows]
        /\ \A p \in Exporters : /\ pub[p].at \in {"idle", "absent"}
                                /\ pub[p].base = 0 /\ pub[p].why = NoPub
    BY <1>1, <1>3, StillRow
  <1>5. PubTypeOK
    BY <1>1, <1>2, <1>4 DEF PubTypeOK
  <1>6. StatesAnchored
    BY <1>1, <1>2 DEF StatesAnchored, Anchored
  <1>7. ReadsOneState /\ GathersOneState /\ ReviewCounts
    BY <1>2, <1>4 DEF ReadsOneState, GathersOneState, RefusedForOrphan, ReviewCounts,
                          Readings, Gatherings, Exporters
  <1>8. PublishedWhole /\ VersionsKnown
    BY <1>1, <1>4 DEF PublishedWhole, RefusedForOrphan, VersionsKnown, Files
  <1> QED
    BY <1>5, <1>6, <1>7, <1>8 DEF PubIInv

LEMMA PubStep ==
  ASSUME PubIInv, [PubNext]_pubVars
  PROVE  PubIInv'
  <1>1. CASE UNCHANGED pubVars
    BY <1>1, RowsStep DEF pubVars, PubIInv, PubTypeOK, StatesAnchored
  <1>2. CASE \E p \in Exporters : Exports(p)
    <2>1. PICK p \in Exporters : Exports(p)
      BY <1>2
    <2> QED
      BY <2>1, BeginReadKeeps, GraphReadsKeep, ListReadsKeep, WriteFileKeeps,
         ExporterEndsKeep DEF Exports
  <1> QED
    BY <1>1, <1>2, ServicesKeep DEF PubNext

-----------------------------------------------------------------------------
(* Whatever the services commit while files are being made, a process has    *)
(* in hand only what belongs to the state its read began with.              *)
THEOREM PublicationSound == PubSpec => []PubIInv
  <1>1. (\E some \in Together, first \in FirstDbs : PubInit(some, first)) => PubIInv
    BY PubStarts
  <1> QED
    BY <1>1, PubStep, PTL DEF PubSpec

(* Each published file is of one committed state.                          *)
THEOREM FilesWhole == PubSpec => []PublishedWhole
  <1>1. PubIInv => PublishedWhole
    BY DEF PubIInv
  <1> QED
    BY <1>1, PublicationSound, PTL

(* A review that is answered has refreshed the three files itself.          *)
THEOREM ReviewsPublished == PubSpec => []ReviewRefreshed
  <1>1. PubIInv => ReviewRefreshed
    <2> SUFFICES ASSUME PubIInv, pub["review"].at = "next", pub["review"].todo = <<>>
                 PROVE  pub["review"].wrote = 3
      BY DEF ReviewRefreshed
    <2>1. pub["review"] \in PubRows
      BY RightNow DEF Exporters
    <2>2. Len(pub["review"].todo) + pub["review"].wrote = 3
      BY DEF PubIInv, ReviewCounts
    <2> QED
      BY <2>1, <2>2 DEF PubRows
  <1> QED
    BY <1>1, PublicationSound, PTL

-----------------------------------------------------------------------------
(* What the services read of the records, one row at a time, while others   *)
(* write them.                                                              *)
(* What a statement that writes may do: a row it adds, a column it sets.    *)
WriteFits(s) ==
  /\ s.kind \in {"put", "keep", "replace", "change", "remove"}
  /\ s.table \in BaseTables
  /\ s.kind = "put"     => s.table # "positions" /\ Fit(s.table, s.row)
  /\ s.kind = "keep"    => s.table \in {"links", "observations"}
  /\ s.kind = "replace" =>
       \/ /\ s.table = "positions" /\ Fit("positions", s.row)
          /\ s.where = [node |-> s.row.node]
       \/ s.table = "viewport" /\ s.where = All
  /\ s.kind = "change"  =>
       \/ /\ s.table = "evidence" /\ s.where = [id |-> s.where.id]
          /\ \/ s.new = [status |-> s.new.status] /\ s.new.status \in IntegrityRange
             \/ /\ s.new = [type |-> s.new.type, text |-> s.new.text]
                /\ Trimmed[s.new.text] = s.new.text /\ PathFine(s.new.text)
       \/ /\ s.table = "relations" /\ s.where = [id |-> s.where.id]
          /\ s.new = [type |-> s.new.type, status |-> s.new.status]
          /\ Trimmed[s.new.type] = s.new.type /\ s.new.type # "blank"
          /\ s.new.status \in RelationStatusFromText

(* Where a statement may stand in a call, and what follows its checks.      *)
Stands(p, i) ==
  /\ p[i].kind \in Reading \cup {"given", "put", "keep", "replace", "change", "remove"}
  /\ p[i].kind \in {"one", "each", "count"} => i = Len(p)
  /\ p[i].kind \in {"given", "absent", "present"} => i # Len(p)
  /\ /\ p[i].kind \notin Reading \cup {"given"}
     /\ \A j \in 1..(i - 1) : p[j].kind = "given" => p[j].holds
     => WriteFits(p[i])

ProgramFits(p) == Len(p) \in Nat \ {0} /\ \A i \in 1..Len(p) : Stands(p, i)


LEMMA CheckedWrite ==
  ASSUME NEW P \in BOOLEAN, NEW s, s.kind \in {"put", "keep", "replace", "change", "remove"},
         P => WriteFits(s)
  PROVE  ProgramFits(<<Given(P), s>>)
  <1> DEFINE p == <<Given(P), s>>
  <1>1. Len(p) = 2 /\ p[1] = Given(P) /\ p[2] = s
    OBVIOUS
  <1>2. Stands(p, 1)
    BY <1>1 DEF Stands, Given, Reading
  <1>3. Stands(p, 2)
    <2>1. ASSUME \A j \in 1..(2 - 1) : p[j].kind = "given" => p[j].holds PROVE WriteFits(s)
      <3>1. p[1].kind = "given" => p[1].holds
        BY <2>1
      <3> QED
        BY <3>1, <1>1 DEF Given
    <2> QED
      BY <2>1, <1>1 DEF Stands, Reading
  <1> HIDE DEF p
  <1>4. ProgramFits(p)
    BY <1>1, <1>2, <1>3 DEF ProgramFits
  <1> QED
    BY <1>4 DEF p

LEMMA CheckedLookup ==
  ASSUME NEW P \in BOOLEAN, NEW t, NEW w, NEW s,
         s.kind \in {"put", "keep", "replace", "change", "remove"},
         P => WriteFits(s)
  PROVE  ProgramFits(<<Given(P), Present(t, w), s>>)
  <1> DEFINE p == <<Given(P), Present(t, w), s>>
  <1>1. Len(p) = 3 /\ p[1] = Given(P) /\ p[2] = Present(t, w) /\ p[3] = s
    OBVIOUS
  <1>2. Stands(p, 1) /\ Stands(p, 2)
    BY <1>1 DEF Stands, Given, Present, Reading
  <1>3. Stands(p, 3)
    <2>1. ASSUME \A j \in 1..(3 - 1) : p[j].kind = "given" => p[j].holds PROVE WriteFits(s)
      <3>1. p[1].kind = "given" => p[1].holds
        BY <2>1
      <3> QED
        BY <3>1, <1>1 DEF Given
    <2> QED
      BY <2>1, <1>1 DEF Stands, Reading
  <1> HIDE DEF p
  <1>4. ProgramFits(p)
    BY <1>1, <1>2, <1>3 DEF ProgramFits
  <1> QED
    BY <1>4 DEF p

(* The calls that only read.                                                *)
ReadOps ==
  {"evidence find", "evidence count", "evidence list", "entity find", "entity count",
   "entity list", "relation find", "relation count", "relation list", "link exists",
   "entities of", "evidences of", "support exists", "proofs of", "proved by",
   "observation format", "observation list", "position list", "viewport load",
   "entity types"}

LEMMA ReadsFit ==
  ASSUME NEW k, k.op \in ReadOps
  PROVE  ProgramFits(Program(k))
  <1> USE DEF ProgramFits, Stands, Reading, Given, One, Each, Count
  <1>1. CASE k.op = "evidence find"
    <2> Program(k) = EvidenceFind(k.row)
      BY <1>1 DEF Program
    <2> QED
      BY DEF EvidenceFind
  <1>2. CASE k.op = "evidence count"
    <2> Program(k) = EvidenceCount(k.row)
      BY <1>2 DEF Program
    <2> QED
      BY DEF EvidenceCount
  <1>3. CASE k.op = "evidence list"
    <2> Program(k) = EvidenceList(k.row)
      BY <1>3 DEF Program
    <2> QED
      BY DEF EvidenceList
  <1>4. CASE k.op = "entity find"
    <2> Program(k) = EntityFind(k.row)
      BY <1>4 DEF Program
    <2> QED
      BY DEF EntityFind
  <1>5. CASE k.op = "entity count"
    <2> Program(k) = EntityCount(k.row)
      BY <1>5 DEF Program
    <2> QED
      BY DEF EntityCount
  <1>6. CASE k.op = "entity list"
    <2> Program(k) = EntityList(k.row)
      BY <1>6 DEF Program
    <2> QED
      BY DEF EntityList
  <1>7. CASE k.op = "relation find"
    <2> Program(k) = RelationFind(k.row)
      BY <1>7 DEF Program
    <2> QED
      BY DEF RelationFind
  <1>8. CASE k.op = "relation count"
    <2> Program(k) = RelationCount(k.row)
      BY <1>8 DEF Program
    <2> QED
      BY DEF RelationCount
  <1>9. CASE k.op = "relation list"
    <2> Program(k) = RelationList(k.row)
      BY <1>9 DEF Program
    <2> QED
      BY DEF RelationList
  <1>10. CASE k.op = "link exists"
    <2> Program(k) = LinkExists(k.row)
      BY <1>10 DEF Program
    <2> QED
      BY DEF LinkExists, LinkGiven
  <1>11. CASE k.op = "entities of"
    <2> Program(k) = EntitiesOf(k.row)
      BY <1>11 DEF Program
    <2> QED
      BY DEF EntitiesOf
  <1>12. CASE k.op = "evidences of"
    <2> Program(k) = EvidencesOf(k.row)
      BY <1>12 DEF Program
    <2> QED
      BY DEF EvidencesOf
  <1>13. CASE k.op = "support exists"
    <2> Program(k) = SupportExists(k.row)
      BY <1>13 DEF Program
    <2> QED
      BY DEF SupportExists, SupportGiven
  <1>14. CASE k.op = "proofs of"
    <2> Program(k) = ProofsOf(k.row)
      BY <1>14 DEF Program
    <2> QED
      BY DEF ProofsOf
  <1>15. CASE k.op = "proved by"
    <2> Program(k) = ProvedBy(k.row)
      BY <1>15 DEF Program
    <2> QED
      BY DEF ProvedBy
  <1>16. CASE k.op = "observation format"
    <2> Program(k) = ObservationFormat(k.row)
      BY <1>16 DEF Program
    <2> QED
      BY DEF ObservationFormat
  <1>17. CASE k.op = "observation list"
    <2> Program(k) = ObservationList(k.row)
      BY <1>17 DEF Program
    <2> QED
      BY DEF ObservationList
  <1>18. CASE k.op = "position list"
    <2> Program(k) = PositionList(k.row)
      BY <1>18 DEF Program
    <2> QED
      BY DEF PositionList
  <1>19. CASE k.op = "viewport load"
    <2> Program(k) = ViewportLoad(k.row)
      BY <1>19 DEF Program
    <2> QED
      BY DEF ViewportLoad
  <1>20. CASE k.op = "entity types"
    <2> Program(k) = EntityTypeList(k.row)
      BY <1>20 DEF Program
    <2> QED
      BY DEF EntityTypeList
  <1> QED
    BY <1>1, <1>2, <1>3, <1>4, <1>5, <1>6, <1>7, <1>8, <1>9, <1>10, <1>11, <1>12,
       <1>13, <1>14, <1>15, <1>16, <1>17, <1>18, <1>19, <1>20 DEF ReadOps

LEMMA WritesFit ==
  ASSUME NEW k, CallFits(k), k.op \notin ReadOps
  PROVE  ProgramFits(Program(k))
  <1> USE DEF ProgramFits, Stands, Reading, Given, One, Each, Count, Absent, Present, Put, Keep,
              Replace, Change, Remove
  <1>1. CASE k.op = "relation delete"
    <2> Program(k) = RelationDelete(k.row)
      BY <1>1 DEF Program
    <2> WriteFits(Remove("relations", [id |-> k.row.id]))
      BY DEF WriteFits, BaseTables
    <2> QED
      BY DEF RelationDelete
  <1>2. CASE k.op = "link add"
    <2> Program(k) = LinkAdd(k.row)
      BY <1>2 DEF Program
    <2> WriteFits(Keep("links", k.row))
      BY DEF WriteFits, BaseTables
    <2> QED
      BY DEF LinkAdd, LinkGiven
  <1>3. CASE k.op = "link remove"
    <2> Program(k) = LinkRemove(k.row)
      BY <1>3 DEF Program
    <2> WriteFits(Remove("links", k.row))
      BY DEF WriteFits, BaseTables
    <2> QED
      BY DEF LinkRemove, LinkGiven
  <1>4. CASE k.op = "support add"
    <2> Program(k) = SupportAdd(k.row)
      BY <1>4 DEF Program
    <2> WriteFits(Put("supports", k.row))
      BY DEF WriteFits, BaseTables, Fit, Shaped, ReadBack
    <2> QED
      BY DEF SupportAdd, SupportGiven
  <1>5. CASE k.op = "support remove"
    <2> Program(k) = SupportRemove(k.row)
      BY <1>5 DEF Program
    <2> WriteFits(Remove("supports", k.row))
      BY DEF WriteFits, BaseTables
    <2> QED
      BY DEF SupportRemove, SupportGiven
  <1>6. CASE k.op = "observation add"
    <2> Program(k) = ObservationAdd(k.row)
      BY <1>6 DEF Program
    <2> WriteFits(Keep("observations", k.row))
      BY DEF WriteFits, BaseTables
    <2> QED
      BY DEF ObservationAdd
  <1>7. CASE k.op = "observation extracted"
    <2> Program(k) = ObservationExtracted(k.row)
      BY <1>7 DEF Program
    <2> WriteFits(Put("observations", k.row))
      BY DEF WriteFits, BaseTables, Fit, Shaped, ReadBack
    <2> QED
      BY DEF ObservationExtracted
  <1>8. CASE k.op = "position delete"
    <2> Program(k) = PositionDelete(k.row)
      BY <1>8 DEF Program
    <2> WriteFits(Remove("positions", [node |-> k.row.node]))
      BY DEF WriteFits, BaseTables
    <2> QED
      BY DEF PositionDelete
  <1>9. CASE k.op = "position clear"
    <2> Program(k) = PositionClear(k.row)
      BY <1>9 DEF Program
    <2> WriteFits(Remove("positions", All))
      BY DEF WriteFits, BaseTables
    <2> QED
      BY DEF PositionClear
  <1>10. CASE k.op = "viewport keep"
    <2> Program(k) = ViewportKeep(k.row)
      BY <1>10 DEF Program
    <2> WriteFits(Replace("viewport", All, k.row))
      BY DEF WriteFits, BaseTables
    <2> QED
      BY DEF ViewportKeep
  <1>11. CASE k.op = "evidence insert"
    <2> Program(k) = EvidenceInsert(k.row) /\ Fit("evidence", k.row)
      BY <1>11 DEF Program, CallFits, TablesBuilt
    <2> WriteFits(Put("evidence", k.row))
      BY DEF WriteFits, BaseTables
    <2> QED
      BY DEF EvidenceInsert
  <1>12. CASE k.op = "entity insert"
    <2> Program(k) = EntityInsert(k.row) /\ Fit("entities", k.row)
      BY <1>12 DEF Program, CallFits, TablesBuilt
    <2> WriteFits(Put("entities", k.row))
      BY DEF WriteFits, BaseTables
    <2> QED
      BY DEF EntityInsert
  <1>13. CASE k.op = "relation insert"
    <2> Program(k) = RelationInsert(k.row) /\ Fit("relations", k.row)
      BY <1>13 DEF Program, CallFits, TablesBuilt
    <2> WriteFits(Put("relations", k.row))
      BY DEF WriteFits, BaseTables
    <2> QED
      BY DEF RelationInsert, TypeResolved
  <1>14. CASE k.op = "evidence metadata"
    <2> /\ Program(k) = EvidenceMetadata(k.row)
        /\ Trimmed[k.row.text] = k.row.text /\ PathFine(k.row.text)
      BY <1>14 DEF Program, CallFits
    <2> WriteFits(Change("evidence", [id |-> k.row.id],
                         [type |-> k.row.type, text |-> k.row.text]))
      BY DEF WriteFits, BaseTables
    <2> QED
      BY DEF EvidenceMetadata
  <1>15. CASE k.op = "relation update"
    <2>1. Program(k) = RelationUpdate(k.row) /\ Fit("relations", k.row)
      BY <1>15 DEF Program, CallFits, TablesBuilt
    <2>2. /\ k.row.status \in RelationStatusFromText
          /\ Trimmed[k.row.type] = k.row.type /\ k.row.type # "blank"
      BY <2>1 DEF Fit, ReadBack, Shaped, RelationReads, RelationRecordNew
    <2>3. WriteFits(Change("relations", [id |-> k.row.id],
                           [type |-> k.row.type, status |-> k.row.status]))
      BY <2>2 DEF WriteFits, BaseTables
    <2> QED
      BY <2>1, <2>3 DEF RelationUpdate, TypeResolved
  <1>16. CASE k.op = "evidence status"
    <2> DEFINE s == Change("evidence", [id |-> k.row.id], [status |-> k.row.status])
               P == k.row.id # Malformed /\ k.row.status \in IntegrityRange
    <2>1. Program(k) = <<Given(P), Present("evidence", [id |-> k.row.id]), s>>
      BY <1>16 DEF Program, EvidenceStatus
    <2>2. P => WriteFits(s)
      BY DEF WriteFits, BaseTables
    <2>3. s.kind = "change" /\ P \in BOOLEAN
      OBVIOUS
    <2> HIDE DEF P, s
    <2>4. ProgramFits(<<Given(P), Present("evidence", [id |-> k.row.id]), s>>)
      BY ONLY <2>2, <2>3, CheckedLookup
    <2> QED
      BY ONLY <2>1, <2>4
  <1>17. CASE k.op = "position upsert"
    <2> DEFINE s == Replace("positions", [node |-> k.row.node], k.row)
               P == k.row.node # Malformed
    <2>1. Program(k) = <<Given(P), s>> /\ Shaped("positions", k.row)
      BY <1>17 DEF Program, PositionUpsert, CallFits
    <2>2. P => WriteFits(s)
      BY <2>1 DEF WriteFits, BaseTables, Fit, ReadBack, PositionReads
    <2>3. s.kind = "replace" /\ P \in BOOLEAN
      OBVIOUS
    <2> HIDE DEF P, s
    <2>4. ProgramFits(<<Given(P), s>>)
      BY ONLY <2>2, <2>3, CheckedWrite
    <2> QED
      BY ONLY <2>1, <2>4
  <1>18. CASE k.op \notin ReadOps \cup
           {"relation delete",
            "link add",
            "link remove",
            "support add",
            "support remove",
            "observation add",
            "observation extracted",
            "position delete",
            "position clear",
            "viewport keep",
            "evidence insert",
            "entity insert",
            "relation insert",
            "evidence metadata",
            "relation update",
            "evidence status",
            "position upsert"}
    <2> Program(k) = EvidenceTypeList(k.row)
      BY <1>18 DEF Program, ReadOps
    <2> QED
      BY DEF EvidenceTypeList
  <1> QED
    BY <1>1, <1>2, <1>3, <1>4, <1>5, <1>6, <1>7, <1>8, <1>9, <1>10, <1>11, <1>12,
       <1>13, <1>14, <1>15, <1>16, <1>17, <1>18

(* The unique columns of one table.                                         *)
UniqueIn(t, v) ==
  /\ t = "evidence" => \A r, o \in v : r.id = o.id \/ r.text = o.text => r = o
  /\ t = "entities" =>
       \A r, o \in v : r.id = o.id \/ (r.type = o.type /\ r.text = o.text) => r = o
  /\ t = "relations" =>
       \A r, o \in v :
         r.id = o.id \/ (r.from = o.from /\ r.to = o.to /\ r.type = o.type) => r = o
  /\ t = "positions" => \A r, o \in v : r.node = o.node => r = o

LEMMA TableSound ==
  ASSUME NEW b, SoundBase(b), NEW t \in BaseTables
  PROVE  (\A r \in b[t] : Fit(t, r)) /\ UniqueIn(t, b[t])
  BY DEF SoundBase, RowsReadBack, RowsUnique, UniqueIn

LEMMA TableSet ==
  ASSUME NEW b, SoundBase(b), NEW t \in BaseTables, NEW v,
         \A r \in v : Fit(t, r), UniqueIn(t, v)
  PROVE  /\ SoundBase([b EXCEPT ![t] = v])
         /\ [b EXCEPT ![t] = v][t] = v
         /\ \A u \in BaseTables \ {t} : [b EXCEPT ![t] = v][u] = b[u]
  <1> DEFINE n == [b EXCEPT ![t] = v]
  <1>1. b = [u \in BaseTables |-> b[u]]
    BY DEF SoundBase
  <1>2. n = [u \in BaseTables |-> IF u = t THEN v ELSE b[u]]
    BY <1>1
  <1>3. n[t] = v /\ \A u \in BaseTables \ {t} : n[u] = b[u]
    BY <1>2
  <1>4. n = [u \in BaseTables |-> n[u]]
    BY <1>2
  <1> HIDE DEF n
  <1>5. RowsReadBack(n)
    BY <1>3 DEF SoundBase, RowsReadBack
  <1>6. \A u \in BaseTables : UniqueIn(u, n[u])
    BY <1>3, TableSound
  <1>7. RowsUnique(n)
    BY <1>6 DEF RowsUnique, UniqueIn, BaseTables
  <1>8. SoundBase(n)
    BY <1>4, <1>5, <1>7 DEF SoundBase
  <1> QED
    BY <1>3, <1>8 DEF n

LEMMA TableKept ==
  ASSUME NEW b, SoundBase(b), NEW t \in BaseTables
  PROVE  [b EXCEPT ![t] = b[t]] = b
  BY DEF SoundBase

(* A row put, or kept unless its twin is there.                             *)
LEMMA Puts ==
  ASSUME NEW b, SoundBase(b), NEW s, WriteFits(s), s.kind = "put", ~RefusedBy(b, s)
  PROVE  SoundBase(Written(b, s)) /\ s.row \in Written(b, s)[s.table]
  <1> DEFINE t == s.table
             v == b[t] \cup {s.row}
  <1>1. t \in BaseTables /\ Fit(t, s.row)
    BY DEF WriteFits
  <1>2. ~Clash(b, t, s.row)
    BY DEF RefusedBy
  <1>3. (\A r \in b[t] : Fit(t, r)) /\ UniqueIn(t, b[t])
    BY <1>1, TableSound
  <1>4. UniqueIn(t, v)
    <2>1. CASE t = "evidence"
      BY <2>1, <1>2, <1>3 DEF Clash, EvidenceClash, UniqueIn
    <2>2. CASE t = "entities"
      BY <2>2, <1>2, <1>3 DEF Clash, EntityClash, UniqueIn
    <2>3. CASE t = "relations"
      BY <2>3, <1>2, <1>3 DEF Clash, RelationClash, UniqueIn
    <2> QED
      BY <2>1, <2>2, <2>3 DEF UniqueIn, WriteFits
  <1>5. Written(b, s) = [b EXCEPT ![t] = v]
    BY DEF Written
  <1> HIDE DEF t, v
  <1>6. \A r \in v : Fit(t, r)
    BY <1>1, <1>3 DEF v
  <1>7. SoundBase([b EXCEPT ![t] = v]) /\ [b EXCEPT ![t] = v][t] = v
    BY <1>1, <1>4, <1>6, TableSet
  <1> QED
    BY <1>5, <1>7 DEF t, v

LEMMA Keeps ==
  ASSUME NEW b, SoundBase(b), NEW s, WriteFits(s), s.kind = "keep"
  PROVE  SoundBase(Written(b, s)) /\ Twin(Written(b, s), s.table, s.row)
  <1> DEFINE t == s.table
             v == b[t] \cup {s.row}
  <1>1. t \in {"links", "observations"} /\ t \in BaseTables
    BY DEF WriteFits
  <1>2. CASE Twin(b, t, s.row)
    BY <1>2 DEF Written
  <1>3. CASE ~Twin(b, t, s.row)
    <2>1. Written(b, s) = [b EXCEPT ![t] = v]
      BY <1>3 DEF Written
    <2>2. \A r \in v : Fit(t, r)
      BY <1>1 DEF Fit, Shaped, ReadBack
    <2>3. UniqueIn(t, v)
      BY <1>1 DEF UniqueIn
    <2> HIDE DEF t, v
    <2>4. SoundBase([b EXCEPT ![t] = v]) /\ [b EXCEPT ![t] = v][t] = v
      BY <1>1, <2>2, <2>3, TableSet
    <2>5. s.row \in Written(b, s)[t]
      BY <2>1, <2>4 DEF v
    <2> QED
      BY <2>1, <2>4, <2>5 DEF Twin, t
  <1> QED
    BY <1>2, <1>3

(* The one row of a node, or the one viewport.                              *)
LEMMA Replaces ==
  ASSUME NEW b, SoundBase(b), NEW s, WriteFits(s), s.kind = "replace"
  PROVE  SoundBase(Written(b, s)) /\ Written(b, s) = Written(Written(b, s), s)
  <1> DEFINE t == s.table
             N(x) == (x \ {r \in x : \A f \in DOMAIN s.where : r[f] = s.where[f]})
                     \cup {s.row}
             v == N(b[t])
  <1>1. t \in BaseTables
    BY DEF WriteFits
  <1>2. ASSUME NEW c PROVE Written(c, s) = [c EXCEPT ![t] = N(c[t])]
    BY DEF Written, Change0, Where
  <1>3. \A f \in DOMAIN s.where : s.row[f] = s.where[f]
    BY DEF WriteFits, All
  <1>4. N(v) = v
    BY <1>3
  <1>5. (\A r \in b[t] : Fit(t, r)) /\ UniqueIn(t, b[t])
    BY <1>1, TableSound
  <1>6. \A r \in v : Fit(t, r)
    BY <1>5 DEF WriteFits, Fit, Shaped, ReadBack
  <1>7. UniqueIn(t, v)
    BY <1>5 DEF WriteFits, UniqueIn
  <1> HIDE DEF t, N, v
  <1>8. SoundBase([b EXCEPT ![t] = v]) /\ [b EXCEPT ![t] = v][t] = v
    BY <1>1, <1>6, <1>7, TableSet
  <1>9. Written(b, s) = [b EXCEPT ![t] = v]
    BY <1>2 DEF v
  <1>10. Written(Written(b, s), s) = [Written(b, s) EXCEPT ![t] = Written(b, s)[t]]
    BY <1>2, <1>4, <1>8, <1>9
  <1> QED
    BY <1>1, <1>8, <1>9, <1>10, TableKept

(* A row whose columns are set anew.                                        *)
LEMMA OverTwice ==
  ASSUME NEW new, NEW r
  PROVE  Over(new, Over(new, r)) = Over(new, r)
  BY DEF Over

LEMMA OverEvidence ==
  ASSUME NEW r, Fit("evidence", r), NEW new,
         \/ new = [status |-> new.status] /\ new.status \in IntegrityRange
         \/ /\ new = [type |-> new.type, text |-> new.text]
            /\ Trimmed[new.text] = new.text /\ PathFine(new.text)
  PROVE  Fit("evidence", Over(new, r)) /\ Over(new, r).id = r.id
  <1>1. /\ r = [id |-> r.id, type |-> r.type, text |-> r.text, date |-> r.date,
                status |-> r.status]
        /\ ReadBack("evidence", r) = {r}
    BY DEF Fit, Shaped
  <1>2. /\ r.id # Malformed /\ PathFine(r.text) /\ r.date \in EvidenceDates
        /\ r.status \in IntegrityRange /\ Trimmed[r.text] = r.text
    BY <1>1 DEF ReadBack, EvidenceReads, EvidenceRecordNew
  <1>3. CASE new = [status |-> new.status] /\ new.status \in IntegrityRange
    <2>1. Over(new, r) = [id |-> r.id, type |-> r.type, text |-> r.text, date |-> r.date,
                          status |-> new.status]
      BY <1>1, <1>3 DEF Over
    <2> QED
      BY <2>1, <1>2, <1>3
         DEF Fit, Shaped, ReadBack, EvidenceReads, EvidenceRecordNew
  <1>4. CASE /\ new = [type |-> new.type, text |-> new.text]
             /\ Trimmed[new.text] = new.text /\ PathFine(new.text)
    <2>1. Over(new, r) = [id |-> r.id, type |-> new.type, text |-> new.text,
                          date |-> r.date, status |-> r.status]
      BY <1>1, <1>4 DEF Over
    <2> QED
      BY <2>1, <1>2, <1>4
         DEF Fit, Shaped, ReadBack, EvidenceReads, EvidenceRecordNew
  <1> QED
    BY <1>3, <1>4

LEMMA OverRelation ==
  ASSUME NEW r, Fit("relations", r), NEW new,
         new = [type |-> new.type, status |-> new.status],
         Trimmed[new.type] = new.type, new.type # "blank",
         new.status \in RelationStatusFromText
  PROVE  Fit("relations", Over(new, r)) /\ Over(new, r).id = r.id
  <1>1. /\ r = [id |-> r.id, from |-> r.from, to |-> r.to, type |-> r.type, date |-> r.date,
                status |-> r.status]
        /\ ReadBack("relations", r) = {r}
    BY DEF Fit, Shaped
  <1>2. /\ Malformed \notin {r.id, r.from, r.to} /\ r.from # r.to
        /\ r.date \in RelationDates
    BY <1>1 DEF ReadBack, RelationReads, RelationRecordNew
  <1>3. Over(new, r) = [id |-> r.id, from |-> r.from, to |-> r.to, type |-> new.type,
                        date |-> r.date, status |-> new.status]
    BY <1>1 DEF Over
  <1> QED
    BY <1>2, <1>3 DEF Fit, Shaped, ReadBack, RelationReads, RelationRecordNew

LEMMA Changes ==
  ASSUME NEW b, SoundBase(b), NEW s, WriteFits(s), s.kind = "change", ~RefusedBy(b, s)
  PROVE  SoundBase(Written(b, s)) /\ Written(b, s) = Written(Written(b, s), s)
  <1> DEFINE t == s.table
             i == s.where.id
             Hit(x) == {r \in x : r.id = i}
             N(x) == (x \ Hit(x)) \cup {Over(s.new, r) : r \in Hit(x)}
             v == N(b[t])
  <1>1. t \in {"evidence", "relations"} /\ s.where = [id |-> i] /\ t \in BaseTables
    BY DEF WriteFits
  <1>2. ASSUME NEW c PROVE Where(c, t, s.where) = Hit(c[t])
    BY <1>1 DEF Where
  <1>3. ASSUME NEW c PROVE Written(c, s) = [c EXCEPT ![t] = N(c[t])]
    BY <1>2 DEF Written, Change0
  <1>4. (\A r \in b[t] : Fit(t, r)) /\ UniqueIn(t, b[t])
    BY <1>1, TableSound
  <1>5. \A r \in b[t] : Fit(t, Over(s.new, r)) /\ Over(s.new, r).id = r.id
    BY <1>1, <1>4, OverEvidence, OverRelation DEF WriteFits
  <1>6. \A r \in Hit(b[t]) : ~Clash([b EXCEPT ![t] = @ \ {r}], t, Over(s.new, r))
    BY <1>2 DEF RefusedBy
  <1>7. ASSUME NEW r \in Hit(b[t]), NEW o \in b[t] \ {r}
        PROVE  UniqueIn(t, {o, Over(s.new, r)})
    <2> DEFINE n == [b EXCEPT ![t] = @ \ {r}]
    <2>1. ~Clash(n, t, Over(s.new, r))
      BY <1>6
    <2>2. n[t] = b[t] \ {r}
      BY <1>1 DEF SoundBase
    <2> HIDE DEF n
    <2>3. CASE t = "evidence"
      BY <2>1, <2>2, <2>3 DEF Clash, EvidenceClash, UniqueIn
    <2>4. CASE t = "relations"
      BY <2>1, <2>2, <2>4 DEF Clash, RelationClash, UniqueIn
    <2> QED
      BY <1>1, <2>3, <2>4
  <1>8. UniqueIn(t, v)
    <2>1. \A r, o \in Hit(b[t]) : r = o
      BY <1>1, <1>4 DEF UniqueIn
    <2>2. CASE Hit(b[t]) = {}
      BY <2>2, <1>4
    <2>3. ASSUME NEW r \in Hit(b[t]) PROVE UniqueIn(t, v)
      <3> DEFINE n == Over(s.new, r)
                 x == b[t] \ Hit(b[t])
      <3>1. \A o \in x : UniqueIn(t, {o, n})
        BY <1>7, <2>3
      <3>2. v = x \cup {n}
        BY <2>1, <2>3
      <3>3. UniqueIn(t, x)
        BY <1>4 DEF UniqueIn
      <3> HIDE DEF n, x, v, t
      <3> QED
        BY <3>1, <3>2, <3>3 DEF UniqueIn
    <2> QED
      BY <2>2, <2>3
  <1>9. \A r \in v : Fit(t, r)
    BY <1>4, <1>5
  <1>10. N(v) = v
    <2>1. Hit(v) = {Over(s.new, r) : r \in Hit(b[t])}
      BY <1>5
    <2>2. {Over(s.new, r) : r \in Hit(v)} = {Over(s.new, r) : r \in Hit(b[t])}
      BY <2>1, OverTwice
    <2> QED
      BY <2>1, <2>2
  <1> HIDE DEF t, i, Hit, N, v
  <1>11. SoundBase([b EXCEPT ![t] = v]) /\ [b EXCEPT ![t] = v][t] = v
    BY <1>1, <1>8, <1>9, TableSet
  <1>12. Written(b, s) = [b EXCEPT ![t] = v]
    BY <1>3 DEF v
  <1>13. Written(Written(b, s), s) = [Written(b, s) EXCEPT ![t] = Written(b, s)[t]]
    BY <1>3, <1>10, <1>11, <1>12
  <1> QED
    BY <1>1, <1>11, <1>12, <1>13, TableKept

LEMMA TableTrimmed ==
  ASSUME NEW b, SoundBase(b), NEW t \in BaseTables, NEW v, v \subseteq b[t]
  PROVE  /\ SoundBase([b EXCEPT ![t] = v])
         /\ [b EXCEPT ![t] = v][t] = v
         /\ \A u \in BaseTables \ {t} : [b EXCEPT ![t] = v][u] = b[u]
  <1>1. (\A r \in b[t] : Fit(t, r)) /\ UniqueIn(t, b[t])
    BY TableSound
  <1>2. \A r \in v : Fit(t, r)
    BY <1>1
  <1>3. UniqueIn(t, v)
    BY <1>1 DEF UniqueIn
  <1> QED
    BY <1>2, <1>3, TableSet

(* Rows removed, and the proofs of a relation with it.                      *)
LEMMA Removes ==
  ASSUME NEW b, SoundBase(b), NEW s, WriteFits(s), s.kind = "remove"
  PROVE  SoundBase(Written(b, s)) /\ Written(b, s) = Written(Written(b, s), s)
  <1> DEFINE t == s.table
             v == b[t] \ Where(b, t, s.where)
             b2 == [b EXCEPT ![t] = v]
  <1>1. t \in BaseTables /\ "supports" \in BaseTables
    BY DEF WriteFits, BaseTables
  <1>2. SoundBase(b2) /\ b2[t] = v /\ \A u \in BaseTables \ {t} : b2[u] = b[u]
    BY <1>1, TableTrimmed
  <1>3. CASE t # "relations"
    <2>1. ASSUME NEW c PROVE Written(c, s) = [c EXCEPT ![t] = c[t] \ Where(c, t, s.where)]
      BY <1>3 DEF Written, Change0
    <2>2. Where(b2, t, s.where) = {}
      BY <1>2 DEF Where
    <2>3. Written(b, s) = b2
      BY <2>1
    <2>4. Written(b2, s) = [b2 EXCEPT ![t] = b2[t]]
      BY <2>1, <2>2
    <2> HIDE DEF b2, t
    <2> QED
      BY <1>1, <1>2, <2>3, <2>4, TableKept
  <1>4. CASE t = "relations"
    <2> DEFINE Hit(c) == Where(c, "relations", s.where)
               Left(c) == {x \in c["supports"] : \A r \in Hit(c) : r.id # x.relation}
               b3 == [b2 EXCEPT !["supports"] = Left(b)]
    <2>1. ASSUME NEW c PROVE Written(c, s) = [c EXCEPT !.relations = @ \ Hit(c),
               !.supports = {x \in @ : \A r \in Hit(c) : r.id # x.relation}]
      BY <1>4 DEF Written, Change0
    <2>2. ASSUME NEW c, c = [u \in BaseTables |-> c[u]]
          PROVE  Written(c, s) = [u \in BaseTables |->
                   IF u = "relations" THEN c[u] \ Hit(c)
                   ELSE IF u = "supports" THEN Left(c) ELSE c[u]]
      <3> DEFINE c1 == [c EXCEPT !["relations"] = c["relations"] \ Hit(c)]
      <3>1. Written(c, s) = [c1 EXCEPT !["supports"] =
                 {x \in c1["supports"] : \A r \in Hit(c) : r.id # x.relation}]
        BY <2>1
      <3>2. c1 = [u \in BaseTables |-> IF u = "relations" THEN c[u] \ Hit(c) ELSE c[u]]
        BY <2>2 DEF BaseTables
      <3>3. c1["supports"] = c["supports"]
        BY <3>2 DEF BaseTables
      <3> HIDE DEF c1, Hit
      <3> QED
        BY <3>1, <3>2, <3>3 DEF BaseTables
    <2>3. b = [u \in BaseTables |-> b[u]] /\ b2 = [u \in BaseTables |-> b2[u]]
      BY <1>2 DEF SoundBase
    <2>4. b3 = [u \in BaseTables |-> IF u = "relations" THEN b["relations"] \ Hit(b)
                   ELSE IF u = "supports" THEN Left(b) ELSE b[u]]
      BY <2>3, <1>2, <1>4 DEF BaseTables
    <2>5. Written(b, s) = b3
      <3> HIDE DEF b3, Left, Hit, b2
      <3>1. Written(b, s) = [u \in BaseTables |->
                   IF u = "relations" THEN b[u] \ Hit(b)
                   ELSE IF u = "supports" THEN Left(b) ELSE b[u]]
        BY <2>2, <2>3
      <3> QED
        BY <2>4, <3>1
    <2>6. b3["relations"] = b["relations"] \ Hit(b) /\ b3["supports"] = Left(b)
      BY <2>4 DEF BaseTables
    <2>7. Left(b) \subseteq b2["supports"]
      BY <1>2, <1>4, <1>1
    <2> HIDE DEF b2
    <2>8. SoundBase(b3)
      BY <1>1, <1>2, <2>7, TableTrimmed
    <2>9. Hit(b3) = {}
      BY <2>6 DEF Where
    <2>10. Left(b3) = b3["supports"] /\ b3["relations"] \ Hit(b3) = b3["relations"]
      BY <2>9
    <2>11. b3 = [u \in BaseTables |-> b3[u]]
      BY <2>8 DEF SoundBase
    <2>12. Written(b3, s) = [u \in BaseTables |->
                   IF u = "relations" THEN b3[u] \ Hit(b3)
                   ELSE IF u = "supports" THEN Left(b3) ELSE b3[u]]
      BY <2>2, <2>11
    <2> HIDE DEF b3, Left, Hit
    <2>13. Written(b3, s) = b3
      BY <2>10, <2>11, <2>12
    <2> QED
      BY <2>5, <2>8, <2>13
  <1> QED
    BY <1>3, <1>4

(* A write that the base takes leaves it sound, and what it answers true.   *)
LEMMA WriteSound ==
  ASSUME NEW b, SoundBase(b), NEW s, WriteFits(s), ~RefusedBy(b, s)
  PROVE  SoundBase(Written(b, s)) /\ \A k : GivenTrue(k, s, Written(b, s))
  <1>1. CASE s.kind = "put"
    BY <1>1, Puts DEF GivenTrue
  <1>2. CASE s.kind = "keep"
    BY <1>2, Keeps DEF GivenTrue
  <1>3. CASE s.kind \in {"replace", "change", "remove"}
    BY <1>3, Replaces, Changes, Removes DEF GivenTrue
  <1> QED
    BY <1>1, <1>2, <1>3 DEF WriteFits

-----------------------------------------------------------------------------
(* The connections.  What is said of a call, in progress on a base or ended. *)
Going(k) == k.call # NoCall /\ k.answer = NoCall
StatementOf(k)   == Program(k.call)[k.at]

RowsOf(k, b) ==
  IF k.open /\ StatementOf(k).kind \in {"one", "each"}
  THEN UNION {ReadBack(StatementOf(k).table, r) :
                r \in Where(b, StatementOf(k).table, StatementOf(k).where)}
  ELSE {}

Columns == {"call", "at", "open", "got", "seen", "answer"}
CallRow(k) == k = [f \in Columns |-> k[f]]

CallGood(k, b) ==
  /\ CallRow(k)
  /\ k.open => Going(k) /\ StatementOf(k).kind \in Reading
  /\ k.answer \in {"ok", "missing", "conflict"} => \E x \in k.seen : TrueOf(k, x)
  /\ Going(k) =>
       /\ CallFits(k.call)
       /\ k.at \in 1..Len(Program(k.call))
       /\ \A i \in 1..(k.at - 1) :
            Program(k.call)[i].kind = "given" => Program(k.call)[i].holds
       /\ b \in k.seen
       /\ k.got \subseteq RowsOf(k, b)

ReadsParts ==
  /\ calls = [c \in Readers |-> calls[c]]
  /\ pending = [c \in Readers |-> pending[c]]
  /\ SoundBase(base0)
  /\ \A c \in Readers : /\ pending[c] = {} \/ pending[c] = {ViewOf(c)}
                        /\ SoundBase(ViewOf(c))
                        /\ CallGood(calls[c], ViewOf(c))

LEMMA ReadsAre == ReadsIInv <=> ReadsParts
  <1> USE DEF Going, StatementOf, Calling, Kind, ThisOne, Hits
  <1>1. NothingLeftOpen <=>
          \A c \in Readers :
            calls[c].open => Going(calls[c]) /\ StatementOf(calls[c]).kind \in Reading
    BY DEF NothingLeftOpen
  <1>2. AnswersTrue <=> \A c \in Readers : calls[c].answer \in {"ok", "missing", "conflict"} =>
                          \E x \in calls[c].seen : TrueOf(calls[c], x)
    BY DEF AnswersTrue
  <1>3. BasesSound <=>
          /\ pending = [c \in Readers |-> pending[c]]
          /\ SoundBase(base0)
          /\ \A c \in Readers : (pending[c] = {} \/ pending[c] = {ViewOf(c)}) /\ SoundBase(ViewOf(c))
    <2>1. ASSUME \A c \in Readers : pending[c] = {} \/ pending[c] = {ViewOf(c)}
          PROVE  (\A b \in {base0} \cup UNION {pending[c] : c \in Readers} : SoundBase(b))
                 <=> SoundBase(base0) /\ \A c \in Readers : SoundBase(ViewOf(c))
      <3>1. \A c \in Readers : pending[c] = {} => ViewOf(c) = base0
        BY DEF ViewOf
      <3> QED
        BY <2>1, <3>1
    <2> QED
      BY <2>1 DEF BasesSound
  <1>4. \A c \in Readers : RowsOf(calls[c], ViewOf(c)) = RowsRead(c)
    BY DEF RowsOf, RowsRead
  <1>5. CallsSound <=>
          /\ calls = [c \in Readers |-> calls[c]]
          /\ \A c \in Readers : CallRow(calls[c])
          /\ \A c \in Readers : Going(calls[c]) =>
               /\ CallFits(calls[c].call)
               /\ calls[c].at \in 1..Len(Program(calls[c].call))
               /\ \A i \in 1..(calls[c].at - 1) :
                    Program(calls[c].call)[i].kind = "given" => Program(calls[c].call)[i].holds
               /\ ViewOf(c) \in calls[c].seen
               /\ calls[c].got \subseteq RowsOf(calls[c], ViewOf(c))
    <2>1. calls = [c \in Readers |->
             [call |-> calls[c].call, at |-> calls[c].at, open |-> calls[c].open,
              got |-> calls[c].got, seen |-> calls[c].seen, answer |-> calls[c].answer]]
          <=> calls = [c \in Readers |-> calls[c]] /\ \A c \in Readers : CallRow(calls[c])
      <3>1. \A k : CallRow(k) <=>
              k = [call |-> k.call, at |-> k.at, open |-> k.open, got |-> k.got,
                   seen |-> k.seen, answer |-> k.answer]
        BY DEF CallRow, Columns
      <3> QED
        BY <3>1
    <2> QED
      BY <2>1, <1>4 DEF CallsSound
  <1> QED
    BY <1>1, <1>2, <1>3, <1>5 DEF ReadsIInv, CallGood, ReadsParts

LEMMA FitProgram ==
  ASSUME NEW k, CallFits(k)
  PROVE  ProgramFits(Program(k))
  BY ReadsFit, WritesFit

LEMMA EndedRow ==
  ASSUME NEW k, CallRow(k), NEW answer, NEW got, NEW q, q = CallEnded(k, answer, got)
  PROVE  /\ CallRow(q) /\ q.call = k.call /\ q.at = k.at /\ ~q.open /\ q.got = got
         /\ q.seen = k.seen /\ q.answer = answer
  BY DEF CallRow, Columns, CallEnded

LEMMA SeenRow ==
  ASSUME NEW k, CallRow(k), NEW S, NEW q, q = [k EXCEPT !.seen = S]
  PROVE  /\ CallRow(q) /\ q.call = k.call /\ q.at = k.at /\ q.open = k.open /\ q.got = k.got
         /\ q.seen = S /\ q.answer = k.answer
  BY DEF CallRow, Columns

(* The next statement, and the bases seen by then.                          *)
After(k, got, S) == [Further(k, got) EXCEPT !.seen = S]

LEMMA FurtherRow ==
  ASSUME NEW k, CallRow(k), NEW got, NEW S, NEW q, q = After(k, got, S)
  PROVE  /\ CallRow(q) /\ q.call = k.call /\ ~q.open /\ q.seen = S
         /\ k.at = Len(Program(k.call)) => q.at = k.at /\ q.got = got /\ q.answer = "ok"
         /\ k.at # Len(Program(k.call)) =>
              q.at = k.at + 1 /\ q.got = k.got /\ q.answer = k.answer
  <1> DEFINE f == Further(k, got)
  <1>1. CASE k.at = Len(Program(k.call))
    <2>1. f = CallEnded(k, "ok", got)
      BY <1>1 DEF Further
    <2> HIDE DEF f
    <2>2. /\ CallRow(f) /\ f.call = k.call /\ f.at = k.at /\ ~f.open /\ f.got = got
          /\ f.answer = "ok"
      BY <2>1, EndedRow
    <2>3. q = [f EXCEPT !.seen = S]
      BY DEF f, After
    <2> QED
      BY <1>1, <2>2, <2>3 DEF CallRow, Columns
  <1>2. CASE k.at # Len(Program(k.call))
    <2>1. f = [k EXCEPT !.open = FALSE, !.at = @ + 1]
      BY <1>2 DEF Further
    <2> HIDE DEF f
    <2>2. /\ CallRow(f) /\ f.call = k.call /\ f.at = k.at + 1 /\ ~f.open /\ f.got = k.got
          /\ f.answer = k.answer
      BY <2>1 DEF CallRow, Columns
    <2>3. q = [f EXCEPT !.seen = S]
      BY DEF f, After
    <2> QED
      BY <1>2, <2>2, <2>3 DEF CallRow, Columns
  <1> QED
    BY <1>1, <1>2

(* A call that ends says what was so of a base it saw, or says nothing.     *)
LEMMA EndGood ==
  ASSUME NEW k, CallRow(k), NEW b, NEW answer, answer # NoCall, NEW got,
         answer \in {"ok", "missing", "conflict"} =>
           \E x \in k.seen : \A q : /\ q.got = got /\ q.answer = answer
                                    /\ q.call = k.call /\ q.at = k.at
                                    => TrueOf(q, x)
  PROVE  CallGood(CallEnded(k, answer, got), b)
  <1> DEFINE q == CallEnded(k, answer, got)
  <1>1. /\ CallRow(q) /\ q.call = k.call /\ q.at = k.at /\ ~q.open /\ q.got = got
        /\ q.seen = k.seen /\ q.answer = answer
    BY EndedRow
  <1> HIDE DEF q
  <1>2. CallRow(q) /\ ~q.open /\ ~Going(q)
    BY <1>1 DEF Going
  <1>3. q.answer \in {"ok", "missing", "conflict"} => \E x \in q.seen : TrueOf(q, x)
    BY <1>1
  <1>4. CallGood(q, b)
    BY <1>2, <1>3 DEF CallGood
  <1> QED
    BY <1>4 DEF q

(* What a call in progress stands on.                                       *)
LEMMA GoingStands ==
  ASSUME NEW k, NEW b, CallGood(k, b), Going(k)
  PROVE  /\ CallRow(k) /\ CallFits(k.call)
         /\ Len(Program(k.call)) \in Nat \ {0} /\ k.at \in 1..Len(Program(k.call))
         /\ Stands(Program(k.call), k.at)
         /\ StatementOf(k).kind \notin Reading \cup {"given"} => WriteFits(StatementOf(k))
         /\ StatementOf(k).kind \in {"given", "absent", "present"} => k.at # Len(Program(k.call))
         /\ k.at # Len(Program(k.call)) => k.got = {}
         /\ b \in k.seen /\ k.got \subseteq RowsOf(k, b)
         /\ StatementOf(k).kind \in {"one", "each", "count"} => k.at = Len(Program(k.call))
  <1>1. CallRow(k) /\ CallFits(k.call) /\ k.at \in 1..Len(Program(k.call))
        /\ b \in k.seen /\ k.got \subseteq RowsOf(k, b)
    BY DEF CallGood
  <1>2. ProgramFits(Program(k.call))
    BY <1>1, FitProgram
  <1>3. Len(Program(k.call)) \in Nat \ {0} /\ Stands(Program(k.call), k.at)
    BY <1>1, <1>2 DEF ProgramFits
  <1>4. StatementOf(k).kind \notin Reading \cup {"given"} => WriteFits(StatementOf(k))
    BY <1>3 DEF CallGood, Stands, StatementOf
  <1>5. /\ StatementOf(k).kind \in {"given", "absent", "present"} => k.at # Len(Program(k.call))
        /\ StatementOf(k).kind \in {"one", "each", "count"} => k.at = Len(Program(k.call))
    BY <1>3 DEF Stands, StatementOf
  <1>6. k.at # Len(Program(k.call)) => k.got = {}
    BY <1>1, <1>5 DEF RowsOf
  <1> QED
    BY <1>1, <1>3, <1>4, <1>5, <1>6

(* The next statement, or the answer after the last.                        *)
LEMMA FurtherGood ==
  ASSUME NEW k, NEW b, CallGood(k, b), Going(k), NEW got, NEW S, NEW n, n \in S,
         StatementOf(k).kind = "given" => StatementOf(k).holds,
         k.at = Len(Program(k.call)) =>
           \E x \in S : \A q : q.got = got => GivenTrue(q, StatementOf(k), x)
  PROVE  CallGood(After(k, got, S), n)
  <1> DEFINE q == After(k, got, S)
             p == Program(k.call)
  <1>1. CallRow(k) /\ CallFits(k.call) /\ k.at \in 1..Len(p) /\ Len(p) \in Nat
        /\ (k.at # Len(p) => k.got = {}) /\ k.call # NoCall /\ k.answer = NoCall
    BY GoingStands DEF Going
  <1>0. q = After(k, got, S)
    OBVIOUS
  <1> HIDE DEF q
  <1>2. CASE k.at = Len(p)
    <2>1. /\ CallRow(q) /\ q.call = k.call /\ q.at = k.at /\ ~q.open /\ q.got = got
          /\ q.seen = S /\ q.answer = "ok"
      BY <1>0, <1>1, <1>2, FurtherRow
    <2>2. CallRow(q) /\ ~q.open /\ ~Going(q)
      BY <2>1, ReadsAssumption DEF Going
    <2>3. PICK x \in S : \A r : r.got = got => GivenTrue(r, StatementOf(k), x)
      BY <1>2
    <2>4. GivenTrue(q, StatementOf(k), x)
      BY <2>1, <2>3
    <2>5. TrueOf(q, x)
      BY <2>1, <2>4 DEF TrueOf, StatementOf
    <2>6. CallGood(q, n)
      BY <2>1, <2>2, <2>5 DEF CallGood
    <2> QED
      BY <2>6 DEF q
  <1>3. CASE k.at # Len(p)
    <2>1. /\ CallRow(q) /\ q.call = k.call /\ q.at = k.at + 1 /\ ~q.open /\ q.got = {}
          /\ q.seen = S /\ q.answer = NoCall
      BY <1>0, <1>1, <1>3, FurtherRow
    <2>2. k.at + 1 \in 1..Len(p)
      BY <1>1, <1>3
    <2>3. \A i \in 1..k.at : p[i].kind = "given" => p[i].holds
      BY <1>1 DEF CallGood, StatementOf
    <2>4. CallRow(q) /\ ~q.open /\ Going(q)
      BY <2>1, <1>1 DEF Going
    <2>5. q.answer \notin {"ok", "missing", "conflict"}
      BY <2>1, ReadsAssumption
    <2>6. \A i \in 1..(q.at - 1) :
            Program(q.call)[i].kind = "given" => Program(q.call)[i].holds
      BY <2>1, <2>3, <1>1
    <2>7. q.at \in 1..Len(Program(q.call)) /\ CallFits(q.call) /\ n \in q.seen
      BY <2>1, <2>2, <1>1
    <2>8. q.got \subseteq RowsOf(q, n)
      BY <2>1
    <2>9. CallGood(q, n)
      BY <2>4, <2>5, <2>6, <2>7, <2>8 DEF CallGood
    <2> QED
      BY <2>9 DEF q
  <1> QED
    BY <1>2, <1>3

LEMMA FurtherSeen ==
  ASSUME NEW k, CallRow(k), NEW got
  PROVE  After(k, got, k.seen) = Further(k, got)
  BY DEF CallRow, Columns, After, Further, CallEnded

(* A step of one connection on its own call.                                *)
LEMMA OneCall ==
  ASSUME ReadsParts, NEW c \in Readers, NEW k, calls' = [calls EXCEPT ![c] = k],
         UNCHANGED <<base0, pending>>, CallGood(k, ViewOf(c))
  PROVE  ReadsParts'
  <1>1. \A d \in Readers : ViewOf(d)' = ViewOf(d) /\ pending'[d] = pending[d]
    BY DEF ViewOf
  <1>2. calls' = [d \in Readers |-> IF d = c THEN k ELSE calls[d]]
    BY DEF ReadsParts
  <1>3. \A d \in Readers : CallGood(calls'[d], ViewOf(d))
    BY <1>2 DEF ReadsParts
  <1>4. calls' = [d \in Readers |-> calls'[d]]
    BY <1>2
  <1> QED
    BY <1>1, <1>3, <1>4 DEF ReadsParts

(* The record built from what the caller gives reads back as it is.         *)
LEMMA TrimmedTwice ==
  \A x \in DOMAIN Trimmed : Trimmed[x] # "blank" => Trimmed[Trimmed[x]] = Trimmed[x]
  BY DEF Trimmed

LEMMA BuiltFits ==
  ASSUME NEW k, WellGiven(k), NEW r \in Built(k)
  PROVE  /\ CallFits([k EXCEPT !.row = r]) /\ [k EXCEPT !.row = r] # NoCall
  <1> DEFINE n == [k EXCEPT !.row = r]
  <1>1. k = [op |-> k.op, row |-> k.row]
    BY DEF WellGiven
  <1>2. n.op = k.op /\ n.row = r
    BY <1>1
  <1>3. n # NoCall
    BY DEF WellGiven
  <1> HIDE DEF n
  <1>4. CASE k.op = "evidence insert"
    <2>1. /\ k.row = [id |-> k.row.id, type |-> k.row.type, text |-> k.row.text,
                      date |-> k.row.date, status |-> k.row.status]
          /\ k.row.text \in DOMAIN Trimmed /\ r \in EvidenceRecordNew(k.row)
      BY <1>4 DEF WellGiven, Built, TablesBuilt, Shaped
    <2>2. /\ k.row.id # Malformed /\ PathFine(k.row.text) /\ k.row.date \in EvidenceDates
          /\ k.row.status \in IntegrityRange /\ r = [k.row EXCEPT !.text = Trimmed[@]]
      BY <2>1 DEF EvidenceRecordNew
    <2>3. r = [id |-> k.row.id, type |-> k.row.type, text |-> Trimmed[k.row.text],
               date |-> k.row.date, status |-> k.row.status]
      BY <2>1, <2>2
    <2>4. Trimmed[r.text] = r.text /\ PathFine(r.text)
      BY <2>1, <2>2, <2>3, TrimmedTwice DEF PathFine
    <2>5. Fit("evidence", r)
      BY <2>2, <2>3, <2>4 DEF Fit, Shaped, ReadBack, EvidenceReads, EvidenceRecordNew
    <2> QED
      BY <1>2, <1>3, <1>4, <2>5 DEF CallFits, TablesBuilt, n
  <1>5. CASE k.op = "entity insert"
    <2>1. /\ k.row = [id |-> k.row.id, type |-> k.row.type, text |-> k.row.text,
                      date |-> k.row.date, status |-> k.row.status]
          /\ k.row.text \in DOMAIN Trimmed /\ r \in EntityRecordNew(k.row)
      BY <1>5 DEF WellGiven, Built, TablesBuilt, Shaped
    <2>2. /\ k.row.id # Malformed /\ Trimmed[k.row.text] # "blank"
          /\ k.row.date \in EntityDates /\ k.row.status \in StatusFromText
          /\ r = [k.row EXCEPT !.text = Trimmed[@]]
      BY <2>1 DEF EntityRecordNew
    <2>3. r = [id |-> k.row.id, type |-> k.row.type, text |-> Trimmed[k.row.text],
               date |-> k.row.date, status |-> k.row.status]
      BY <2>1, <2>2
    <2>4. Trimmed[r.text] = r.text /\ Trimmed[r.text] # "blank"
      BY <2>1, <2>2, <2>3, TrimmedTwice
    <2>5. Fit("entities", r)
      BY <2>2, <2>3, <2>4 DEF Fit, Shaped, ReadBack, EntityReads, EntityRecordNew
    <2> QED
      BY <1>2, <1>3, <1>5, <2>5 DEF CallFits, TablesBuilt, n
  <1>6. CASE k.op \in {"relation insert", "relation update"}
    <2>1. /\ k.row = [id |-> k.row.id, from |-> k.row.from, to |-> k.row.to,
                      type |-> k.row.type, date |-> k.row.date, status |-> k.row.status]
          /\ k.row.type \in DOMAIN Trimmed /\ r \in RelationRecordNew(k.row)
      BY <1>6 DEF WellGiven, Built, TablesBuilt, Shaped
    <2>2. /\ Malformed \notin {k.row.id, k.row.from, k.row.to} /\ k.row.from # k.row.to
          /\ Trimmed[k.row.type] # "blank" /\ k.row.date \in RelationDates
          /\ k.row.status \in RelationStatusFromText
          /\ r = [k.row EXCEPT !.type = Trimmed[@]]
      BY <2>1 DEF RelationRecordNew
    <2>3. r = [id |-> k.row.id, from |-> k.row.from, to |-> k.row.to,
               type |-> Trimmed[k.row.type], date |-> k.row.date, status |-> k.row.status]
      BY <2>1, <2>2
    <2>4. Trimmed[r.type] = r.type /\ Trimmed[r.type] # "blank"
      BY <2>1, <2>2, <2>3, TrimmedTwice
    <2>5. Fit("relations", r)
      BY <2>2, <2>3, <2>4 DEF Fit, Shaped, ReadBack, RelationReads, RelationRecordNew
    <2> QED
      BY <1>2, <1>3, <1>6, <2>5 DEF CallFits, TablesBuilt, n
  <1>7. CASE k.op \notin {"evidence insert", "entity insert", "relation insert",
                          "relation update"}
    <2>1. r = k.row
      BY <1>7 DEF Built
    <2> QED
      BY <1>2, <1>3, <1>7, <2>1 DEF CallFits, TablesBuilt, WellGiven, n
  <1> QED
    BY <1>4, <1>5, <1>6, <1>7

LEMMA AskKeeps ==
  ASSUME ReadsParts, NEW c \in Readers, NEW k \in CallsOf[c], Ask(c, k)
  PROVE  ReadsParts'
  <1>1. PICK r \in Built(k) :
          calls' = [calls EXCEPT ![c] =
            [@ EXCEPT !.call = [k EXCEPT !.row = r], !.at = 1, !.got = {},
                      !.seen = {ViewOf(c)}, !.answer = NoCall]]
    BY DEF Ask
  <1> DEFINE n == [k EXCEPT !.row = r]
             q == [calls[c] EXCEPT !.call = n, !.at = 1, !.got = {},
                                   !.seen = {ViewOf(c)}, !.answer = NoCall]
  <1>2. CallFits(n) /\ n # NoCall
    BY BuiltFits, ReadsAssumption
  <1>3. CallGood(calls[c], ViewOf(c)) /\ calls[c].call = NoCall /\ calls[c] = calls[c]
    BY DEF ReadsParts, Ask
  <1>4. CallRow(calls[c]) /\ ~calls[c].open
    BY <1>3 DEF CallGood, Going
  <1>5. calls' = [calls EXCEPT ![c] = q]
    BY <1>1 DEF ReadsParts
  <1> HIDE DEF n
  <1>6. /\ CallRow(q) /\ q.call = n /\ q.at = 1 /\ ~q.open /\ q.got = {}
        /\ q.seen = {ViewOf(c)} /\ q.answer = NoCall
    BY <1>4 DEF CallRow, Columns
  <1> HIDE DEF q
  <1>7. Len(Program(n)) \in Nat \ {0}
    BY <1>2, FitProgram DEF ProgramFits
  <1>8. CallGood(q, ViewOf(c))
    BY <1>2, <1>6, <1>7, ReadsAssumption DEF CallGood, Going
  <1> QED
    BY <1>5, <1>8, OneCall DEF Ask

LEMMA CallIs ==
  ASSUME ReadsParts, NEW c \in Readers
  PROVE  /\ CallGood(calls[c], ViewOf(c)) /\ SoundBase(ViewOf(c))
         /\ CallRow(calls[c])
         /\ Calling(c) <=> Going(calls[c])
         /\ ThisOne(c) = StatementOf(calls[c]) /\ Kind(c) = StatementOf(calls[c]).kind
         /\ Hits(c) = Where(ViewOf(c), StatementOf(calls[c]).table, StatementOf(calls[c]).where)
         /\ calls[c].open => Going(calls[c])
         /\ \A q : calls' = [calls EXCEPT ![c] = q] /\ UNCHANGED <<base0, pending>>
                   /\ CallGood(q, ViewOf(c)) => ReadsParts'
  BY OneCall DEF ReadsParts, CallGood, Calling, Going, ThisOne, StatementOf, Kind, Hits

LEMMA FurtherKeeps ==
  ASSUME NEW k, NEW b, CallGood(k, b), Going(k), NEW got,
         StatementOf(k).kind = "given" => StatementOf(k).holds,
         k.at = Len(Program(k.call)) =>
           \A q : q.got = got => GivenTrue(q, StatementOf(k), b)
  PROVE  CallGood(Further(k, got), b)
  <1>1. CallRow(k) /\ b \in k.seen
    BY GoingStands
  <1>2. CallGood(After(k, got, k.seen), b)
    BY <1>1, FurtherGood
  <1> QED
    BY <1>1, <1>2, FurtherSeen

LEMMA FailGood ==
  ASSUME NEW k, CallRow(k), NEW b, NEW answer \in {"failed", "invalid"}
  PROVE  CallGood(CallEnded(k, answer, {}), b)
  BY EndGood, ReadsAssumption

LEMMA CheckKeeps ==
  ASSUME ReadsParts, NEW c \in Readers, Check(c)
  PROVE  ReadsParts'
  <1> DEFINE k == calls[c]
             q == IF ThisOne(c).holds THEN Further(k, {}) ELSE CallEnded(k, "invalid", {})
  <1>1. Going(k) /\ StatementOf(k).kind = "given" /\ calls' = [calls EXCEPT ![c] = q]
        /\ UNCHANGED <<base0, pending>>
    BY CallIs DEF Check, ReadsParts
  <1>2. CallGood(k, ViewOf(c)) /\ CallRow(k)
    BY CallIs
  <1>3. k.at # Len(Program(k.call))
    BY <1>1, <1>2, GoingStands
  <1>4. CASE ThisOne(c).holds
    BY <1>1, <1>2, <1>3, <1>4, CallIs, FurtherKeeps
  <1>5. CASE ~ThisOne(c).holds
    BY <1>1, <1>2, <1>5, CallIs, FailGood
  <1> QED
    BY <1>4, <1>5

LEMMA ReturnKeeps ==
  ASSUME ReadsParts, NEW c \in Readers, Return(c)
  PROVE  ReadsParts'
  <1>1. CallRow(NoneAsked) /\ ~NoneAsked.open /\ NoneAsked.answer = NoCall
        /\ ~Going(NoneAsked)
    BY DEF NoneAsked, CallRow, Columns, Going
  <1>2. CallGood(NoneAsked, ViewOf(c))
    BY <1>1, ReadsAssumption DEF CallGood
  <1> QED
    BY <1>2, OneCall DEF Return

LEMMA OpenRowsKeeps ==
  ASSUME ReadsParts, NEW c \in Readers, OpenRows(c)
  PROVE  ReadsParts'
  <1> DEFINE k == calls[c]
             q == [k EXCEPT !.open = TRUE]
  <1>1. Going(k) /\ StatementOf(k).kind \in Reading /\ ~k.open /\ UNCHANGED <<base0, pending>>
    BY CallIs DEF OpenRows
  <1>2. calls' = [calls EXCEPT ![c] = q]
    BY DEF OpenRows, ReadsParts
  <1>3. CallGood(k, ViewOf(c)) /\ CallRow(k)
    BY CallIs
  <1>4. /\ CallRow(q) /\ q.call = k.call /\ q.at = k.at /\ q.open /\ q.got = k.got
        /\ q.seen = k.seen /\ q.answer = k.answer
    BY <1>3 DEF CallRow, Columns
  <1> HIDE DEF q
  <1>5. k.got = {}
    BY <1>1, <1>3 DEF CallGood, RowsOf
  <1>6. Going(q) /\ StatementOf(q) = StatementOf(k)
    BY <1>1, <1>4 DEF Going, StatementOf
  <1>7. q.answer \notin {"ok", "missing", "conflict"}
    BY <1>1, <1>4, ReadsAssumption DEF Going
  <1>8. q.got \subseteq RowsOf(q, ViewOf(c))
    BY <1>4, <1>5
  <1>9. CallGood(q, ViewOf(c))
    BY <1>1, <1>3, <1>4, <1>6, <1>7, <1>8 DEF CallGood
  <1> QED
    BY <1>1, <1>2, <1>9, OneCall

LEMMA ToldKeeps ==
  ASSUME ReadsParts, NEW c \in Readers, Told(c)
  PROVE  ReadsParts'
  <1> DEFINE k == calls[c]
             b == ViewOf(c)
             s == StatementOf(k)
             hit == Where(b, s.table, s.where)
  <1>1. /\ Going(k) /\ s.kind \in {"absent", "present", "count"}
        /\ CallGood(k, b) /\ CallRow(k) /\ UNCHANGED <<base0, pending>>
    BY CallIs DEF Told
  <1>2. b \in k.seen /\ (s.kind # "count" => k.at # Len(Program(k.call)))
    BY <1>1, GoingStands
  <1>3. calls' = [calls EXCEPT ![c] =
          IF s.kind = "absent" /\ hit # {} THEN CallEnded(k, "conflict", {})
          ELSE IF s.kind = "present" /\ hit = {} THEN CallEnded(k, "missing", {})
          ELSE Further(k, IF s.kind = "count" THEN hit ELSE {})]
    <2>1. Kind(c) = s.kind /\ Hits(c) = hit
      BY CallIs
    <2> QED
      BY <2>1 DEF Told, ReadsParts
  <1>4. CASE s.kind = "absent" /\ hit # {}
    <2>1. \A q : q.answer = "conflict" /\ q.call = k.call /\ q.at = k.at => TrueOf(q, b)
      BY <1>4 DEF TrueOf, StatementOf
    <2>2. CallGood(CallEnded(k, "conflict", {}), b)
      BY <1>1, <1>2, <2>1, EndGood, ReadsAssumption
    <2> QED
      BY <1>1, <1>3, <1>4, <2>2, OneCall
  <1>5. CASE s.kind = "present" /\ hit = {}
    <2>1. \A q : q.answer = "missing" /\ q.call = k.call /\ q.at = k.at => TrueOf(q, b)
      BY <1>5 DEF TrueOf, StatementOf
    <2>2. CallGood(CallEnded(k, "missing", {}), b)
      BY <1>1, <1>2, <2>1, EndGood, ReadsAssumption
    <2> QED
      BY <1>1, <1>3, <1>5, <2>2, OneCall
  <1>6. CASE s.kind = "count"
    <2>1. \A q : q.got = hit => GivenTrue(q, s, b)
      BY <1>6 DEF GivenTrue
    <2>2. CallGood(Further(k, hit), b)
      BY <1>1, <1>6, <2>1, FurtherKeeps
    <2> QED
      BY <1>1, <1>3, <1>6, <2>2, OneCall
  <1>7. CASE (s.kind = "absent" /\ hit = {}) \/ (s.kind = "present" /\ hit # {})
    <2>1. CallGood(Further(k, {}), b)
      BY <1>1, <1>2, <1>7, FurtherKeeps
    <2> QED
      BY <1>1, <1>3, <1>7, <2>1, OneCall
  <1> QED
    BY <1>1, <1>4, <1>5, <1>6, <1>7

LEMMA StatementFailsKeeps ==
  ASSUME ReadsParts, NEW c \in Readers, StatementFails(c)
  PROVE  ReadsParts'
  <1>1. CallGood(CallEnded(calls[c], "failed", {}), ViewOf(c))
    BY CallIs, FailGood
  <1>2. calls' = [calls EXCEPT ![c] = CallEnded(calls[c], "failed", {})]
    BY DEF StatementFails, ReadsParts
  <1> QED
    BY <1>1, <1>2, OneCall DEF StatementFails

(* A row makes one record or none.                                          *)
LEMMA OneRecord ==
  ASSUME NEW t, NEW r
  PROVE  \A x, y \in ReadBack(t, r) : x = y
  BY DEF ReadBack, EvidenceReads, EntityReads, RelationReads, PositionReads,
         EntityTypeReads, EvidenceTypeReads, EvidenceRecordNew, EntityRecordNew,
         RelationRecordNew

LEMMA NextRowKeeps ==
  ASSUME ReadsParts, NEW c \in Readers, NextRow(c)
  PROVE  ReadsParts'
  <1> DEFINE k == calls[c]
             b == ViewOf(c)
             s == StatementOf(k)
  <1>1. /\ Going(k) /\ s.kind \in {"one", "each"} /\ k.open
        /\ CallGood(k, b) /\ CallRow(k) /\ UNCHANGED <<base0, pending>>
    BY CallIs DEF NextRow
  <1>2. PICK r \in Unread(c) :
          calls' = [calls EXCEPT ![c] =
            IF ReadBack(s.table, r) = {} \/ (s.kind = "one" /\ k.got # {})
            THEN CallEnded(k, "failed", {})
            ELSE [k EXCEPT !.got = @ \cup ReadBack(s.table, r)]]
    <2>1. Kind(c) = s.kind /\ ThisOne(c) = s
      BY CallIs
    <2> QED
      BY <2>1 DEF NextRow, ReadsParts
  <1>3. CASE ReadBack(s.table, r) = {} \/ (s.kind = "one" /\ k.got # {})
    <2>1. CallGood(CallEnded(k, "failed", {}), b)
      BY <1>1, FailGood
    <2> QED
      BY <1>1, <1>2, <1>3, <2>1, OneCall
  <1>4. CASE ~(ReadBack(s.table, r) = {} \/ (s.kind = "one" /\ k.got # {}))
    <2> DEFINE q == [k EXCEPT !.got = @ \cup ReadBack(s.table, r)]
    <2>1. calls' = [calls EXCEPT ![c] = q]
      BY <1>2, <1>4
    <2>2. /\ CallRow(q) /\ q.call = k.call /\ q.at = k.at /\ q.open = k.open
          /\ q.got = k.got \cup ReadBack(s.table, r)
          /\ q.seen = k.seen /\ q.answer = k.answer
      BY <1>1 DEF CallRow, Columns
    <2>3. r \in Where(b, s.table, s.where)
      BY CallIs DEF Unread
    <2> HIDE DEF q
    <2>4. Going(q) /\ StatementOf(q) = s /\ q.open
      BY <1>1, <2>2 DEF Going, StatementOf
    <2>5. RowsOf(k, b) = UNION {ReadBack(s.table, x) : x \in Where(b, s.table, s.where)}
          /\ RowsOf(q, b) = RowsOf(k, b)
      BY <1>1, <2>4 DEF RowsOf
    <2>6. ReadBack(s.table, r) \subseteq RowsOf(k, b)
      BY <2>3, <2>5
    <2>7. q.answer \notin {"ok", "missing", "conflict"}
      BY <1>1, <2>2, ReadsAssumption DEF Going
    <2>8. k.got \subseteq RowsOf(k, b)
      BY <1>1 DEF CallGood
    <2>9. q.got \subseteq RowsOf(q, b)
      BY <2>2, <2>5, <2>6, <2>8
    <2>10. CallGood(q, b)
      BY <1>1, <2>2, <2>4, <2>7, <2>9 DEF CallGood, Reading
    <2> QED
      BY <1>1, <2>1, <2>10, OneCall
  <1> QED
    BY <1>3, <1>4

LEMMA NoMoreRowsKeeps ==
  ASSUME ReadsParts, NEW c \in Readers, NoMoreRows(c)
  PROVE  ReadsParts'
  <1> DEFINE k == calls[c]
             b == ViewOf(c)
             s == StatementOf(k)
             hit == Where(b, s.table, s.where)
  <1>1. /\ Going(k) /\ s.kind \in {"one", "each"} /\ k.open
        /\ CallGood(k, b) /\ CallRow(k) /\ UNCHANGED <<base0, pending>>
    BY CallIs DEF NoMoreRows
  <1>2. \A r \in hit : ReadBack(s.table, r) \cap k.got # {}
    BY CallIs DEF NoMoreRows, Unread
  <1>3. k.got \subseteq UNION {ReadBack(s.table, r) : r \in hit}
    BY <1>1 DEF CallGood, RowsOf
  <1>4. \A r \in hit : ReadBack(s.table, r) \subseteq k.got
    BY <1>2, OneRecord
  <1>5. k.got = UNION {ReadBack(s.table, r) : r \in hit}
    BY <1>3, <1>4
  <1>6. \A q : q.got = k.got => GivenTrue(q, s, b)
    BY <1>1, <1>5 DEF GivenTrue
  <1>7. CallGood(Further(k, k.got), b)
    BY <1>1, <1>6, FurtherKeeps
  <1>8. calls' = [calls EXCEPT ![c] = Further(k, k.got)]
    BY DEF NoMoreRows, ReadsParts
  <1> QED
    BY <1>1, <1>7, <1>8, OneCall

(* A connection that others noticed commit works on the new base.           *)
LEMMA NoticedGood ==
  ASSUME NEW d, NEW b, CallGood(calls[d], b), ~calls[d].open, pending[d] = {}, NEW new
  PROVE  CallGood(Noticing(d, new), new)
  <1> DEFINE k == calls[d]
  <1>1. CallRow(k) /\ (Calling(d) <=> Going(k))
    BY DEF CallGood, Calling, Going
  <1>2. CASE ~Going(k)
    BY <1>1, <1>2 DEF Noticing, CallGood
  <1>3. CASE Going(k)
    <2> DEFINE q == [k EXCEPT !.seen = @ \cup {new}]
    <2>1. Noticing(d, new) = q
      BY <1>1, <1>3 DEF Noticing
    <2>2. /\ CallRow(q) /\ q.call = k.call /\ q.at = k.at /\ q.open = k.open
          /\ q.got = k.got /\ q.seen = k.seen \cup {new} /\ q.answer = k.answer
      BY <1>1 DEF CallRow, Columns
    <2> HIDE DEF q
    <2>3. k.got = {}
      BY <1>3 DEF CallGood, RowsOf
    <2>4. Going(q)
      BY <1>3, <2>2 DEF Going
    <2>5. q.answer \notin {"ok", "missing", "conflict"}
      BY <1>3, <2>2, ReadsAssumption DEF Going
    <2>6. CallGood(q, new)
      BY <1>3, <2>2, <2>3, <2>4, <2>5 DEF CallGood
    <2> QED
      BY <2>1, <2>6
  <1> QED
    BY <1>2, <1>3

(* A commit: no other connection reads or has a transaction open.           *)
LEMMA CommitGood ==
  ASSUME ReadsParts, NEW c \in Readers, NEW new, SoundBase(new), base0' = new,
         ~OthersRead(c), NEW k, CallGood(k, new),
         calls' = [d \in Readers |-> IF d = c THEN k ELSE Noticing(d, new)],
         pending' = [pending EXCEPT ![c] = {}]
  PROVE  ReadsParts'
  <1>1. pending' = [d \in Readers |-> IF d = c THEN {} ELSE pending[d]]
    BY DEF ReadsParts
  <1>2. ViewOf(c)' = new
    BY <1>1 DEF ViewOf
  <1>3. ASSUME NEW d \in Readers \ {c}, pending[d] = {}
        PROVE  ViewOf(d)' = new /\ CallGood(Noticing(d, new), new)
    <2>1. CallGood(calls[d], ViewOf(d)) /\ ~calls[d].open
      BY DEF ReadsParts, OthersRead
    <2> QED
      BY <1>1, <1>3, <2>1, NoticedGood DEF ViewOf
  <1>4. ASSUME NEW d \in Readers \ {c}, pending[d] # {}
        PROVE  ViewOf(d)' = ViewOf(d) /\ Noticing(d, new) = calls[d]
    BY <1>1, <1>4 DEF ViewOf, Noticing
  <1>5. ASSUME NEW d \in Readers
        PROVE  /\ pending'[d] = {} \/ pending'[d] = {ViewOf(d)'}
               /\ SoundBase(ViewOf(d)') /\ CallGood(calls'[d], ViewOf(d)')
    <2>1. CASE d = c
      BY <1>1, <1>2, <2>1
    <2>2. CASE d # c /\ pending[d] = {}
      BY <1>1, <1>3, <2>2
    <2>3. CASE d # c /\ pending[d] # {}
      BY <1>1, <1>4, <2>3 DEF ReadsParts
    <2> QED
      BY <2>1, <2>2, <2>3
  <1>6. calls' = [d \in Readers |-> calls'[d]] /\ pending' = [d \in Readers |-> pending'[d]]
    BY <1>1
  <1> QED
    BY <1>5, <1>6 DEF ReadsParts

(* A transaction opened, written in or rolled back is its connection's own. *)
LEMMA TransactionGood ==
  ASSUME ReadsParts, NEW c \in Readers, NEW p, pending' = [pending EXCEPT ![c] = p],
         UNCHANGED base0, NEW v, p = {v} \/ (p = {} /\ v = base0), SoundBase(v),
         NEW k, calls' = [calls EXCEPT ![c] = k], CallGood(k, v)
  PROVE  ReadsParts'
  <1>1. /\ pending' = [d \in Readers |-> IF d = c THEN p ELSE pending[d]]
        /\ calls' = [d \in Readers |-> IF d = c THEN k ELSE calls[d]]
    BY DEF ReadsParts
  <1>2. ViewOf(c)' = v
    <2>1. CASE p = {v}
      BY <1>1, <2>1 DEF ViewOf
    <2>2. CASE p = {} /\ v = base0
      BY <1>1, <2>2 DEF ViewOf
    <2> QED
      BY <2>1, <2>2
  <1>3. ASSUME NEW d \in Readers \ {c} PROVE ViewOf(d)' = ViewOf(d)
    BY <1>1 DEF ViewOf
  <1>4. ASSUME NEW d \in Readers
        PROVE  /\ pending'[d] = {} \/ pending'[d] = {ViewOf(d)'}
               /\ SoundBase(ViewOf(d)') /\ CallGood(calls'[d], ViewOf(d)')
    <2>1. CASE d = c
      BY <1>1, <1>2, <2>1
    <2>2. CASE d # c
      BY <1>1, <1>3, <2>2 DEF ReadsParts
    <2> QED
      BY <2>1, <2>2
  <1>5. calls' = [d \in Readers |-> calls'[d]] /\ pending' = [d \in Readers |-> pending'[d]]
    BY <1>1
  <1> QED
    BY <1>4, <1>5 DEF ReadsParts

LEMMA WriteRowKeeps ==
  ASSUME ReadsParts, NEW c \in Readers, WriteRow(c)
  PROVE  ReadsParts'
  <1> DEFINE k == calls[c]
             b == ViewOf(c)
             s == StatementOf(k)
             new == Written(b, s)
             done == After(k, {}, k.seen \cup {new})
             refused == CallEnded(k, IF s.kind = "change" THEN "failed" ELSE "conflict", {})
  <1>1. /\ Going(k) /\ s.kind \notin Reading \cup {"given"} /\ SoundBase(b)
        /\ CallGood(k, b) /\ CallRow(k) /\ ThisOne(c) = s /\ Kind(c) = s.kind
    BY CallIs DEF WriteRow
  <1>2. WriteFits(s) /\ b \in k.seen
    BY <1>1, GoingStands
  <1>3. \/ /\ calls' = [calls EXCEPT ![c] = CallEnded(k, "failed", {})]
           /\ UNCHANGED <<base0, pending>>
        \/ /\ RefusedBy(b, s) /\ calls' = [calls EXCEPT ![c] = refused]
           /\ UNCHANGED <<base0, pending>>
        \/ /\ ~RefusedBy(b, s) /\ pending[c] # {}
           /\ pending' = [pending EXCEPT ![c] = {new}] /\ UNCHANGED base0
           /\ calls' = [calls EXCEPT ![c] = done]
        \/ /\ ~RefusedBy(b, s) /\ pending[c] = {} /\ ~OthersRead(c)
           /\ base0' = new /\ UNCHANGED pending
           /\ calls' = [d \in Readers |-> IF d = c THEN done ELSE Noticing(d, new)]
    <2>1. done = [Further(calls[c], {}) EXCEPT !.seen = @ \cup {new}]
      <3>1. Further(k, {}).seen = k.seen
        <4>1. CallRow(After(k, {}, k.seen)) /\ After(k, {}, k.seen).seen = k.seen
          BY <1>1, FurtherRow
        <4> QED
          BY <1>1, <4>1, FurtherSeen
      <3> QED
        BY <3>1 DEF After
    <2>2. calls = [d \in Readers |-> calls[d]]
      BY DEF ReadsParts
    <2> QED
      BY <1>1, <2>1, <2>2 DEF WriteRow
  <1>4. CASE calls' = [calls EXCEPT ![c] = CallEnded(k, "failed", {})]
             /\ UNCHANGED <<base0, pending>>
    BY <1>1, <1>4, FailGood, OneCall
  <1>5. CASE RefusedBy(b, s) /\ calls' = [calls EXCEPT ![c] = refused]
             /\ UNCHANGED <<base0, pending>>
    <2>1. \A q : q.answer = "conflict" /\ q.call = k.call /\ q.at = k.at => TrueOf(q, b)
      BY <1>1, <1>5 DEF TrueOf, StatementOf, Reading
    <2>2. CallGood(refused, b)
      <3>1. CASE s.kind = "change"
        BY <1>1, <3>1, FailGood
      <3>2. CASE s.kind # "change"
        BY <1>1, <1>2, <2>1, <3>2, EndGood, ReadsAssumption
      <3> QED
        BY <3>1, <3>2
    <2> QED
      BY <1>5, <2>2, OneCall
  <1>6. ASSUME ~RefusedBy(b, s) PROVE SoundBase(new) /\ CallGood(done, new)
    <2>1. SoundBase(new) /\ \A q : GivenTrue(q, s, new)
      BY <1>1, <1>2, <1>6, WriteSound
    <2>2. new \in k.seen \cup {new}
      OBVIOUS
    <2> HIDE DEF new
    <2> QED
      BY <1>1, <2>1, <2>2, FurtherGood
  <1>7. CASE /\ ~RefusedBy(b, s) /\ pending[c] # {}
             /\ pending' = [pending EXCEPT ![c] = {new}] /\ UNCHANGED base0
             /\ calls' = [calls EXCEPT ![c] = done]
    BY <1>6, <1>7, TransactionGood
  <1>8. CASE /\ ~RefusedBy(b, s) /\ pending[c] = {} /\ ~OthersRead(c)
             /\ base0' = new /\ UNCHANGED pending
             /\ calls' = [d \in Readers |-> IF d = c THEN done ELSE Noticing(d, new)]
    <2>1. pending' = [pending EXCEPT ![c] = {}]
      BY <1>8 DEF ReadsParts
    <2> QED
      BY <1>6, <1>8, <2>1, CommitGood
  <1> QED
    BY <1>3, <1>4, <1>5, <1>7, <1>8

LEMMA OpenTransactionKeeps ==
  ASSUME ReadsParts, NEW c \in Readers, OpenTransaction(c)
  PROVE  ReadsParts'
  <1>1. /\ pending' = [pending EXCEPT ![c] = {base0}] /\ UNCHANGED <<base0, calls>>
        /\ calls[c].call = NoCall /\ SoundBase(base0) /\ CallGood(calls[c], ViewOf(c))
    BY DEF OpenTransaction, ReadsParts
  <1>2. CallGood(calls[c], base0)
    BY <1>1 DEF CallGood, Going
  <1>3. calls' = [calls EXCEPT ![c] = calls[c]]
    BY <1>1 DEF ReadsParts
  <1> QED
    BY <1>1, <1>2, <1>3, TransactionGood

LEMMA CloseTransactionKeeps ==
  ASSUME ReadsParts, NEW c \in Readers, CloseTransaction(c)
  PROVE  ReadsParts'
  <1>1. /\ pending' = [pending EXCEPT ![c] = {}] /\ calls[c].call = NoCall
        /\ SoundBase(base0) /\ SoundBase(ViewOf(c)) /\ CallGood(calls[c], ViewOf(c))
    BY DEF CloseTransaction, ReadsParts
  <1>2. \A b : CallGood(calls[c], b)
    BY <1>1 DEF CallGood, Going
  <1>3. CASE UNCHANGED <<base0, calls>>
    <2>1. calls' = [calls EXCEPT ![c] = calls[c]]
      BY <1>3 DEF ReadsParts
    <2> QED
      BY <1>1, <1>2, <1>3, <2>1, TransactionGood
  <1>4. CASE /\ ~OthersRead(c) /\ base0' = ViewOf(c)
             /\ calls' = [d \in Readers |-> IF d = c THEN calls[c] ELSE Noticing(d, ViewOf(c))]
    BY <1>1, <1>2, <1>4, CommitGood
  <1> QED
    BY <1>3, <1>4 DEF CloseTransaction

LEMMA ReadsStart == ReadsInit => ReadsParts
  <1> SUFFICES ASSUME ReadsInit PROVE ReadsParts
    OBVIOUS
  <1>1. CallRow(NoneAsked) /\ ~NoneAsked.open /\ NoneAsked.answer = NoCall
        /\ ~Going(NoneAsked)
    BY DEF NoneAsked, CallRow, Columns, Going
  <1>2. \A b : CallGood(NoneAsked, b)
    BY <1>1, ReadsAssumption DEF CallGood
  <1>3. \A c \in Readers : ViewOf(c) = FirstBase
    BY DEF ReadsInit, ViewOf
  <1> QED
    BY <1>2, <1>3, ReadsAssumption DEF ReadsInit, ReadsParts

LEMMA ReadsStep == ReadsParts /\ [ReadsNext]_readVars => ReadsParts'
  <1> SUFFICES ASSUME ReadsParts, [ReadsNext]_readVars PROVE ReadsParts'
    OBVIOUS
  <1>1. CASE UNCHANGED readVars
    BY <1>1 DEF readVars, ReadsParts, ViewOf
  <1>2. ASSUME NEW c \in Readers, MakesCalls(c) PROVE ReadsParts'
    BY <1>2, AskKeeps, CheckKeeps, ReturnKeeps, OpenRowsKeeps, ToldKeeps, NextRowKeeps,
       NoMoreRowsKeeps, StatementFailsKeeps, WriteRowKeeps, OpenTransactionKeeps,
       CloseTransactionKeeps DEF MakesCalls
  <1> QED
    BY <1>1, <1>2 DEF ReadsNext

(* No call leaves a statement open; every answer was true of one base its   *)
(* call saw; every row reads back as the record it was written from, and no *)
(* two rows share what must be unique, whatever the connections do at once. *)
THEOREM ReadsSound == ReadsSpec => []ReadsIInv
  <1>1. ReadsParts => ReadsIInv
    BY ReadsAre
  <1> QED
    BY ReadsStart, ReadsStep, <1>1, PTL DEF ReadsSpec
=============================================================================
