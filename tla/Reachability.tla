---------------------------- MODULE Reachability ----------------------------
(***************************************************************************)
(* Class Graph of the documentation plugin doc_transfer.py: the loop by    *)
(* which get_reachable_nodes collects everything a node depends on.  The   *)
(* graph comes from a policy: it may have cycles, and edges may lead to    *)
(* names the policy does not define.                                       *)
(***************************************************************************)

CONSTANT Universe   \* everything an edge can mention

VARIABLES nodes, edges,             \* the graph
          start,                    \* the argument of get_reachable_nodes
          reachable, reachable_new, \* its two sets
          pc                        \* "call", "loop", "done"

graph == <<nodes, edges, start>>
reach == <<reachable, reachable_new, pc>>
vars == <<graph, reach>>

get_peers(node) == {x \in nodes : <<node, x>> \in edges}

working_list(S) == UNION {get_peers(y) : y \in S}

Init ==
  /\ nodes \in SUBSET Universe
  /\ edges \in SUBSET (Universe \X Universe)
  /\ start \in Universe
  /\ reachable = {} /\ reachable_new = {} /\ pc = "call"

Call ==
  /\ pc = "call" /\ pc' = "loop"
  /\ reachable' = get_peers(start)
  /\ reachable_new' = get_peers(start)
  /\ UNCHANGED graph

\* MUTANT of Finished: only an empty list ends the loop.
Finished_Empty == reachable_new = {}

\* MUTANT of Finished: the loop ends when one new node is known already.
Finished_Early == reachable_new = {} \/ working_list(reachable_new) \cap reachable # {}

Finished == reachable_new = {} \/ working_list(reachable_new) \subseteq reachable

Expand ==
  /\ pc = "loop" /\ ~Finished
  /\ reachable' = reachable \cup working_list(reachable_new)
  /\ reachable_new' = working_list(reachable_new)
  /\ UNCHANGED <<graph, pc>>

Return ==
  /\ pc = "loop" /\ Finished
  /\ pc' = "done"
  /\ UNCHANGED <<graph, reachable, reachable_new>>

get_reachable_nodes == Call \/ Expand \/ Return

Safety == Init /\ [][get_reachable_nodes]_vars

-----------------------------------------------------------------------------
TypeOK ==
  /\ nodes \subseteq Universe
  /\ edges \subseteq Universe \X Universe
  /\ start \in Universe
  /\ reachable \subseteq nodes /\ reachable_new \subseteq reachable
  /\ pc \in {"call", "loop", "done"}

\* C holds everything that start depends on, directly or not.
Closed(C) == get_peers(start) \subseteq C /\ working_list(C) \subseteq C

\* get_reachable_nodes returns exactly the nodes reachable from its argument: the
\* smallest set that is closed under dependency, although the loop looks only at
\* the nodes of the last round.
Result ==
  pc = "done" => /\ Closed(reachable)
                 /\ \A C \in SUBSET nodes : Closed(C) => reachable \subseteq C

\* What the loop maintains: only nodes of the last round can have peers that are
\* not collected yet, and nothing was collected that a closed set could lack.
LoopInv ==
  pc # "call" =>
    /\ get_peers(start) \subseteq reachable
    /\ working_list(reachable \ reachable_new) \subseteq reachable
    /\ \A C \in SUBSET nodes : Closed(C) => reachable \subseteq C
=============================================================================
