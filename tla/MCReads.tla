------------------------------- MODULE MCReads -------------------------------
(* The rows and the calls of two connections: the first makes one call of   *)
(* any kind, the second two calls that write, alone or in a transaction.    *)
EXTENDS RecordReads

CONSTANTS n1, n2, e1, e2, e3, v1, v2, rel1, rel2, ty, bad

Entity(e, t)  == [id |-> e, type |-> ty, text |-> t, date |-> "second", status |-> "active"]
Proof(v, t)   == [id |-> v, type |-> ty, text |-> t, date |-> "minute", status |-> "unknown"]
Relation(r, f, t) == [id |-> r, from |-> f, to |-> t, type |-> "plain", date |-> "second", status |-> "disputed"]

MCFirstBase ==
  [evidenceTypes |-> {[id |-> ty, text |-> "plain"]},
   entityTypes |-> {[id |-> ty, text |-> "plain"]},
   relationTypes |-> {[text |-> "plain"], [text |-> "other"]},
   evidence |-> {Proof(v1, "plain")},
   entities |-> {Entity(e1, "plain"), Entity(e2, "other")},
   relations |-> {Relation(rel1, e1, e2)},
   links |-> {[evidence |-> v1, entity |-> e1]},
   supports |-> {[relation |-> rel1, evidence |-> v1]},
   observations |-> {}, positions |-> {}, viewport |-> {}]

C(op, rows) == {[op |-> op, row |-> r] : r \in rows}
LinkPairs == {[evidence |-> v1, entity |-> e2], [evidence |-> v2, entity |-> e1], [evidence |-> bad, entity |-> e1]}
Proofs == {[relation |-> rel1, evidence |-> v1], [relation |-> rel2, evidence |-> v1], [relation |-> rel1, evidence |-> bad]}
Remarks == {[evidence |-> v1, value |-> "plain", note |-> n] : n \in {"a", "b"}} \cup {[evidence |-> v2, value |-> "plain", note |-> "a"]}
Places == {[node |-> e1, at |-> 1], [node |-> e1, at |-> 2], [node |-> bad, at |-> 1]}

Reads ==
  C("evidence find", {Proof(v1, "plain"), Proof(bad, "plain")}) \cup C("evidence count", {NoCall}) \cup C("evidence list", {NoCall})
  \cup C("entity find", {Entity(e3, "plain"), Entity(bad, "plain")}) \cup C("entity count", {NoCall}) \cup C("entity list", {NoCall})
  \cup C("relation find", {Relation(rel1, e1, e2), Relation(bad, e1, e2)}) \cup C("relation count", {NoCall}) \cup C("relation list", {NoCall})
  \cup C("link exists", LinkPairs) \cup C("entities of", LinkPairs) \cup C("evidences of", LinkPairs)
  \cup C("support exists", Proofs) \cup C("proofs of", Proofs) \cup C("proved by", Proofs)
  \cup C("observation format", Remarks) \cup C("observation list", Remarks)
  \cup C("position list", {NoCall}) \cup C("viewport load", {NoCall}) \cup C("entity types", {NoCall}) \cup C("evidence types", {NoCall})
Writes ==
  C("evidence insert", {Proof(v2, "padded"), Proof(v2, "other"), Proof(v1, "blank")})
  \cup C("evidence status", {[Proof(v2, "plain") EXCEPT !.status = "valid"], [Proof(v1, "plain") EXCEPT !.status = "torn"]})
  \cup C("evidence metadata", {Proof(v1, "other"), Proof(bad, "other")})
  \cup C("entity insert", {Entity(e3, "padded"), Entity(e3, "third"), Entity(e3, "blank"), [Entity(e3, "other") EXCEPT !.date = "minute"], [Entity(e3, "other") EXCEPT !.type = bad]})
  \cup C("relation insert", {Relation(rel2, e2, e1), Relation(rel2, e1, e2), Relation(rel2, e1, e1), Relation(rel2, e1, e3)})
  \cup C("relation update", {[Relation(rel1, e1, e2) EXCEPT !.type = "other"]})
  \cup C("relation delete", {Relation(rel1, e1, e2), Relation(bad, e1, e2)})
  \cup C("link add", LinkPairs) \cup C("link remove", LinkPairs)
  \cup C("support add", Proofs) \cup C("support remove", Proofs)
  \cup C("observation add", Remarks) \cup C("observation extracted", Remarks)
  \cup C("position upsert", Places) \cup C("position delete", Places) \cup C("position clear", {NoCall}) \cup C("viewport keep", {[at |-> 1]})
MCMaxCalls == [c \in {n1, n2} |-> IF c = n1 THEN 1 ELSE 2]
Others ==
  C("evidence insert", {Proof(v2, "other")})
  \cup C("entity insert", {Entity(e3, "padded")})
  \cup C("relation delete", {Relation(rel1, e1, e2)})
  \cup C("observation add", {[evidence |-> v1, value |-> "plain", note |-> "b"]})
MCCallsOf == [c \in {n1, n2} |-> IF c = n1 THEN Reads \cup Writes ELSE Others]
==============================================================================
