------------------------------ MODULE MCDesktop ------------------------------
(* What the core that the desktop was written over does, one part at a time *)
(* ("scope").                                                               *)
(*   "tools": ToolInitializer with two tasks, one tool, one registration of *)
(*     a listener and, beside the main loop, one other thread that uses the *)
(*     manager.                                                             *)
(*   "graph": GraphLoad with two loads of a graph of two entities and a     *)
(*     relation.                                                            *)
(*   "base": SchemaMigration with two sessions and two creators over a base *)
(*     of one of seven ages.                                                *)
EXTENDS ToolInitializer, GraphLoad, SchemaMigration, TLC

VARIABLE scope

CONSTANTS t1, t2, l1, l2, tool, s1, other, n1, n2, e1, o1, o2, p1, p2

MCBoots   == {t1, t2}
MCLoads   == {l1, l2}
MCTasks   == MCBoots \cup MCLoads
MCTools   == {tool}
MCSlots   == {s1}
MCCallers == {main, other}
MCUsers   == {other}
MCNodes   == {n1, n2}
MCEdges   == {e1}
MCEnds    == e1 :> <<n1, n2>>

(* The ages at which the chain of migrations changes its manner, no base,   *)
(* and a base of a newer program.                                           *)
MCStarts   == {0, 1, 5, 11, 16, 20, 21}
MCOpeners  == {o1, o2}
MCCreators == {p1, p2}

MCVars == <<graphVars, initializerVars, migrationVars, scope>>

MCInit ==
  /\ ToolInit /\ GraphInit /\ MigrationInit
  /\ scope \in {"tools", "graph", "base"}
  /\ scope # "base" => base.version = 0
MCNext ==
  \/ /\ scope = "tools" /\ ToolNext
     /\ UNCHANGED <<db, load, data, at, graph, migrationVars, scope>>
  \/ scope = "graph" /\ GraphNext /\ UNCHANGED <<initializerVars, migrationVars, scope>>
  \/ /\ scope = "base" /\ MigrationNext
     /\ UNCHANGED <<graphVars, initializerVars, scope>>
MCSpec == MCInit /\ [][MCNext]_MCVars /\ GraphFairness
=============================================================================
