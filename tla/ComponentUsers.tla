--------------------------- MODULE ComponentUsers ---------------------------
(***************************************************************************)
(* compile_component_to_subjects_map of the documentation plugin           *)
(* doc_transfer.py: which subjects instantiate or depend on a component or *)
(* library.  It builds the dependency graph of a policy and searches it    *)
(* once for each subject; Reachability is the search.                      *)
(*                                                                         *)
(* An XML element is a record of its tag, its naming attribute <<attribute,*)
(* value>> (NoAttr where it has none), and its children.                   *)
(***************************************************************************)
EXTENDS Reachability, Sequences, SequencesExt

CONSTANTS PJ,          \* root of the joined policy
          Refs         \* sets of references a policy may contain

VARIABLES step,        \* step of the function
          todo,        \* subjects whose dependencies are still to be resolved
          c2s_map      \* name of a component or library |-> names of its users

usersVars == <<vars, step, todo, c2s_map>>

NoAttr == <<>>
Entries == UNION {ToSet(g.kids) : g \in ToSet(PJ.kids)}
Named(tag) == {k.attr[2] : k \in {k \in Entries : k.tag = tag}}

\* Only what the policy defines becomes a node; an edge may name anything.
Defined == (Named("library") \X {"l"}) \cup (Named("component") \X {"c"})
             \cup (Named("subject") \X {"s"})

\* A reference leads to a library or a component.
ASSUME RefsAssumption ==
  /\ Defined \subseteq Universe
  /\ \A E \in Refs : E \subseteq Universe \X Universe /\ \A r \in E : r[2][2] # "s"

UsersInit ==
  /\ nodes = {} /\ edges \in Refs /\ start = <<"", "s">>
  /\ reachable = {} /\ reachable_new = {} /\ pc = "done"
  /\ step = "graph" /\ todo = {} /\ c2s_map = <<>>

\* The first half: the dependency graph.
build_graph ==
  /\ step = "graph" /\ step' = "resolve"
  /\ nodes' = Defined
  /\ c2s_map' = [n \in Named("library") \cup Named("component") |-> {}]
  /\ todo' = {x \in nodes' : x[2] = "s"}
  /\ UNCHANGED <<edges, start, reach>>

\* The second half: the loop over the subject nodes, a set without an order.
resolve_subject ==
  /\ step = "resolve" /\ todo # {}
  /\ \E x \in todo : start' = x
  /\ pc' = "call" /\ step' = "reach"
  /\ UNCHANGED <<nodes, edges, reachable, reachable_new, todo, c2s_map>>

reach_step ==
  /\ step = "reach"
  /\ get_reachable_nodes
  /\ UNCHANGED <<step, todo, c2s_map>>

\* MUTANT of record_users: the subject replaces the users found before.
record_users_Replace ==
  /\ step = "reach" /\ pc = "done"
  /\ IF \A x \in reachable : x[1] \in DOMAIN c2s_map
     THEN /\ step' = "resolve"
          /\ c2s_map' = [n \in DOMAIN c2s_map |->
                           IF \E x \in reachable : x[1] = n THEN {start[1]} ELSE c2s_map[n]]
     ELSE step' = "KeyError" /\ UNCHANGED c2s_map
  /\ todo' = todo \ {start}
  /\ UNCHANGED vars

\* c2s_map[comp_node[0]].add: a node whose name is no key raises KeyError.
record_users ==
  /\ step = "reach" /\ pc = "done"
  /\ IF \A x \in reachable : x[1] \in DOMAIN c2s_map
     THEN /\ step' = "resolve"
          /\ c2s_map' = [n \in DOMAIN c2s_map |->
                           IF \E x \in reachable : x[1] = n
                           THEN c2s_map[n] \cup {start[1]} ELSE c2s_map[n]]
     ELSE step' = "KeyError" /\ UNCHANGED c2s_map
  /\ todo' = todo \ {start}
  /\ UNCHANGED vars

compile_component_to_subjects_map == build_graph \/ resolve_subject \/ reach_step \/ record_users

UsersSafety == UsersInit /\ [][compile_component_to_subjects_map]_usersVars

-----------------------------------------------------------------------------
\* The subjects that use n: n is defined and a chain of references between defined
\* things leads from the subject to it.
Users(n) ==
  {s \in Named("subject") :
     \A C \in SUBSET nodes :
       (/\ <<s, "s">> \in C
        /\ \A r \in edges : r[1] \in C /\ r[2] \in nodes => r[2] \in C)
       => \E k \in {"l", "c"} : <<n, k>> \in C}

(* compile_component_to_subjects_map: "a mapping from component/library names to a
   list of all subject names instantiating or depending on that component or
   library".  Whenever a subject is done, every component and library has exactly
   those of its users that are done; neither a cycle nor a reference to nothing
   makes a lookup in the map fail.                                           *)
UsersRight ==
  /\ step # "KeyError"
  /\ step = "resolve" =>
       /\ DOMAIN c2s_map = Named("library") \cup Named("component")
       /\ \A n \in DOMAIN c2s_map : c2s_map[n] = {s \in Users(n) : <<s, "s">> \notin todo}
=============================================================================
