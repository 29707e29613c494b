------------------------- MODULE ReachabilityProofs -------------------------
(***************************************************************************)
(* get_reachable_nodes is correct on every graph: it returns the least set *)
(* that is closed under dependency.  So the map made from its results is   *)
(* correct for every policy.                                               *)
(***************************************************************************)
EXTENDS ComponentUsers, TLAPS

IndInv == TypeOK /\ LoopInv

\* The union of the peers of a set grows with the set.
LEMMA WorkingListMonotone ==
  ASSUME NEW S, NEW T, S \subseteq T
  PROVE  working_list(S) \subseteq working_list(T)
  BY DEF working_list

\* Peers of two sets together.
LEMMA WorkingListUnion ==
  ASSUME NEW S, NEW T
  PROVE  working_list(S \cup T) = working_list(S) \cup working_list(T)
  BY DEF working_list

\* While the graph stays as it is, so do peers and what is closed.
LEMMA SameGraph ==
  ASSUME nodes' = nodes, edges' = edges, start' = start, NEW C
  PROVE  Closed(C)' <=> Closed(C)
<1>1. \A y : {x \in nodes' : <<y, x>> \in edges'} = {x \in nodes : <<y, x>> \in edges}
    OBVIOUS
<1>2. {x \in nodes' : <<start', x>> \in edges'} = {x \in nodes : <<start, x>> \in edges}
    OBVIOUS
<1>3. working_list(C)' = working_list(C)
    BY <1>1 DEF working_list, get_peers
<1> QED BY <1>2, <1>3 DEF Closed, get_peers

\* Nothing is collected before the loop starts.
LEMMA InitInv == Init => IndInv
  BY DEF Init, IndInv, TypeOK, LoopInv

\* Stuttering changes nothing.
LEMMA StutterInv == IndInv /\ UNCHANGED vars => IndInv'
<1> SUFFICES ASSUME IndInv, UNCHANGED vars PROVE IndInv'
    OBVIOUS
<1>1. /\ reachable' = reachable /\ reachable_new' = reachable_new
      /\ nodes' = nodes /\ edges' = edges /\ start' = start /\ pc' = pc
    BY DEF vars, graph, reach
<1>2. TypeOK'
    BY <1>1 DEF IndInv, TypeOK
<1>3. LoopInv'
    BY <1>1 DEF IndInv, LoopInv, Closed, working_list, get_peers
<1> QED BY <1>2, <1>3 DEF IndInv

\* The first round: the peers of the argument belong to every closed set.
LEMMA CallInv == IndInv /\ Call => IndInv'
<1> SUFFICES ASSUME IndInv, Call PROVE IndInv'
    OBVIOUS
<1> USE DEF graph
<1>1. TypeOK'
    BY DEF IndInv, TypeOK, Call, get_peers
<1>2. get_peers(start)' = get_peers(start)
    BY DEF Call, get_peers
<1>3. working_list(reachable \ reachable_new)' \subseteq reachable'
    BY DEF Call, working_list, get_peers
<1>4. \A C \in SUBSET nodes' : Closed(C)' => reachable' \subseteq C
    BY <1>2 DEF Call, Closed
<1> QED BY <1>1, <1>2, <1>3, <1>4 DEF IndInv, LoopInv, Call

\* A further round: whatever was new has its peers collected now, and a closed
\* set that holds the nodes of the last round holds their peers.
LEMMA ExpandInv == IndInv /\ Expand => IndInv'
<1> SUFFICES ASSUME IndInv, Expand PROVE IndInv'
    OBVIOUS
<1> USE DEF graph
<1> DEFINE W == working_list(reachable_new)
<1>1. W \subseteq nodes
    BY DEF working_list, get_peers
<1>2. /\ reachable' = reachable \cup W
      /\ reachable_new' = W
      /\ nodes' = nodes /\ edges' = edges /\ start' = start /\ pc' = pc
    BY DEF Expand
<1>3. TypeOK'
    BY <1>1, <1>2 DEF IndInv, TypeOK
<1>4. get_peers(start)' \subseteq reachable'
    BY <1>2 DEF IndInv, LoopInv, Expand, get_peers
<1>5. working_list(reachable \ reachable_new)' \subseteq reachable'
  <2>1. working_list(reachable \ reachable_new) \subseteq reachable
    BY DEF IndInv, LoopInv, Expand
  <2>2. SUFFICES ASSUME NEW x \in nodes,
                        NEW y \in reachable' \ reachable_new',
                        x \in get_peers(y)
                 PROVE  x \in reachable'
    BY <1>2 DEF working_list, get_peers
  <2>3. CASE y \in reachable_new
    BY <1>2, <2>2, <2>3 DEF working_list
  <2>4. CASE y \notin reachable_new
    <3>1. y \in reachable \ reachable_new
      BY <1>2, <2>2, <2>4
    <3> QED BY <1>2, <2>1, <2>2, <3>1 DEF working_list
  <2> QED BY <2>3, <2>4
<1>6. \A C \in SUBSET nodes' : Closed(C)' => reachable' \subseteq C
  <2>1. SUFFICES ASSUME NEW C \in SUBSET nodes, Closed(C)
                 PROVE  reachable' \subseteq C
    BY <1>2, SameGraph
  <2>2. reachable \subseteq C
    BY <2>1 DEF IndInv, LoopInv, Expand
  <2>3. W \subseteq working_list(C)
    BY <2>2, WorkingListMonotone DEF IndInv, TypeOK
  <2> QED BY <1>2, <2>1, <2>2, <2>3 DEF Closed
<1> QED BY <1>3, <1>4, <1>5, <1>6 DEF IndInv, LoopInv

\* Returning changes neither set.
LEMMA ReturnInv == IndInv /\ Return => IndInv'
<1> SUFFICES ASSUME IndInv, Return PROVE IndInv'
    OBVIOUS
<1>1. /\ reachable' = reachable /\ reachable_new' = reachable_new
      /\ nodes' = nodes /\ edges' = edges /\ start' = start
      /\ pc = "loop" /\ pc' = "done"
    BY DEF Return, graph
<1>2. TypeOK'
    BY <1>1 DEF IndInv, TypeOK
<1>3. LoopInv'
    BY <1>1 DEF IndInv, LoopInv, Closed, working_list, get_peers
<1> QED BY <1>2, <1>3 DEF IndInv

\* Returning happens when the peers of the last round are known, which closes
\* the whole set.
LEMMA ReturnClosed == IndInv /\ Return => Closed(reachable)
<1> SUFFICES ASSUME IndInv, Return PROVE Closed(reachable)
    OBVIOUS
<1>1. working_list(reachable_new) \subseteq reachable
    BY DEF Return, Finished, working_list
<1>2. working_list(reachable \ reachable_new) \subseteq reachable
    BY DEF IndInv, LoopInv, Return
<1>3. reachable = reachable_new \cup (reachable \ reachable_new)
    BY DEF IndInv, TypeOK
<1>4. working_list(reachable) = working_list(reachable_new)
                                  \cup working_list(reachable \ reachable_new)
    BY <1>3, WorkingListUnion
<1> QED BY <1>1, <1>2, <1>4 DEF Closed, IndInv, LoopInv, Return

\* The search keeps its invariant, and when it returns what it collected is closed.
LEMMA SearchKept ==
  ASSUME IndInv, Result, get_reachable_nodes
  PROVE  IndInv' /\ Result'
<1>1. CASE Call
  BY <1>1, CallInv DEF Call, Result
<1>2. CASE Expand
  BY <1>2, ExpandInv DEF Expand, Result
<1>3. CASE Return
  <2>1. IndInv' /\ Closed(reachable)
    BY <1>3, ReturnInv, ReturnClosed
  <2>2. Closed(reachable)'
    BY <1>3, <2>1 DEF Return, graph, Closed, working_list, get_peers
  <2> QED BY <1>3, <2>1, <2>2 DEF Result, IndInv, LoopInv, Return
<1> QED BY <1>1, <1>2, <1>3 DEF get_reachable_nodes

\* The loop of get_reachable_nodes keeps its invariant and its types.
THEOREM LoopInvariant == Safety => [](TypeOK /\ LoopInv)
<1>1. IndInv /\ [get_reachable_nodes]_vars => IndInv'
  <2> SUFFICES ASSUME IndInv, [get_reachable_nodes]_vars PROVE IndInv'
      OBVIOUS
  <2>1. CASE UNCHANGED vars
      BY <2>1, StutterInv
  <2> QED BY <2>1, CallInv, ExpandInv, ReturnInv DEF get_reachable_nodes
<1> QED BY <1>1, InitInv, PTL DEF Safety, IndInv

\* What get_reachable_nodes returns is the least set of nodes that contains the
\* peers of its argument and the peers of its members.
THEOREM ReachableCorrect == Safety => []Result
<1> DEFINE Inv == IndInv /\ Result
<1>1. Init => Inv
    BY InitInv DEF Init, Result
<1>2. Inv /\ [get_reachable_nodes]_vars => Inv'
  <2> SUFFICES ASSUME IndInv, Result, [get_reachable_nodes]_vars PROVE IndInv' /\ Result'
      OBVIOUS
  <2>1. CASE get_reachable_nodes
      BY <2>1, SearchKept
  <2>2. CASE UNCHANGED vars
    <3>1. IndInv'
        BY <2>2, StutterInv
    <3>2. Result'
        BY <2>2 DEF vars, graph, reach, Result, Closed, working_list, get_peers
    <3> QED BY <3>1, <3>2
  <2> QED BY <2>1, <2>2
<1> QED BY <1>1, <1>2, PTL DEF Safety

-----------------------------------------------------------------------------
(* The map from components to subjects *)

Names == Named("library") \cup Named("component")

\* The map holds the users among the subjects that are done, and the search of the
\* present one is under way.
UsersInv ==
  /\ step \in {"graph", "resolve", "reach"} /\ edges \in Refs
  /\ reachable \subseteq nodes /\ reachable_new \subseteq reachable
  /\ step = "graph" => nodes = {}
  /\ step # "graph" =>
       /\ nodes = Defined /\ todo \subseteq {x \in nodes : x[2] = "s"}
       /\ DOMAIN c2s_map = Names
       /\ \A n \in Names : c2s_map[n] = {s \in Users(n) : <<s, "s">> \notin todo}
  /\ step = "reach" => IndInv /\ Result /\ start \in todo

\* What is defined has a name and a kind.
LEMMA DefinedNodes ==
  ASSUME NEW x \in Defined
  PROVE  /\ x = <<x[1], x[2]>> /\ x[2] \in {"l", "c", "s"}
         /\ x[2] = "s" => x[1] \in Named("subject")
         /\ x[2] # "s" => x[1] \in Names
<1> DEFINE L == Named("library")
           K == Named("component")
           S == Named("subject")
<1>1. x \in (L \X {"l"}) \cup (K \X {"c"}) \cup (S \X {"s"})
  BY DEF Defined
<1>2. Names = L \cup K
  BY DEF Names
<1> HIDE DEF L, K, S
<1>3. CASE x \in L \X {"l"}
  BY <1>2, <1>3
<1>4. CASE x \in K \X {"c"}
  BY <1>2, <1>4
<1>5. CASE x \in S \X {"s"}
  BY <1>5 DEF S
<1>6. x[2] = "s" => x[1] \in S
  BY <1>1
<1> QED BY <1>1, <1>2, <1>3, <1>4, <1>5, <1>6 DEF S

\* The search never returns a subject.
LEMMA NoSubjectFound ==
  ASSUME edges \in Refs, nodes = Defined, \A C \in SUBSET nodes : Closed(C) => reachable \subseteq C
  PROVE  \A x \in reachable : x \in nodes /\ x[2] # "s" /\ x[1] \in Names
<1> DEFINE C == {x \in nodes : x[2] # "s"}
<1>1. \A r \in edges : r[2][2] # "s"
  BY RefsAssumption
<1>2. \A y : get_peers(y) \subseteq C
  <2> SUFFICES ASSUME NEW y, NEW x \in nodes, <<y, x>> \in edges PROVE x[2] # "s"
    BY DEF get_peers
  <2> QED BY <1>1
<1>3. Closed(C)
  <2> HIDE DEF C
  <2> QED BY <1>2 DEF Closed, working_list
<1>4. reachable \subseteq C
  BY <1>3
<1> QED BY <1>4, DefinedNodes

\* What the search returns for a subject is what the subject uses.
LEMMA UserFound ==
  ASSUME edges \in Refs, nodes = Defined, start \in nodes, start[2] = "s",
         reachable \subseteq nodes, Closed(reachable),
         \A C \in SUBSET nodes : Closed(C) => reachable \subseteq C, NEW n
  PROVE  start[1] \in Users(n) <=> \E x \in reachable : x[1] = n
<1>0. start = <<start[1], "s">> /\ start[1] \in Named("subject")
  BY DefinedNodes
<1>1. ASSUME start[1] \in Users(n) PROVE \E x \in reachable : x[1] = n
  <2> DEFINE C == reachable \cup {start}
  <2>1. C \in SUBSET nodes /\ <<start[1], "s">> \in C
    BY <1>0
  <2>2. ASSUME NEW r \in edges, r[1] \in C, r[2] \in nodes PROVE r[2] \in C
    <3>1. r = <<r[1], r[2]>>
      BY RefsAssumption
    <3>2. r[2] \in get_peers(r[1])
      BY <2>2, <3>1 DEF get_peers
    <3>3. CASE r[1] = start
      BY <3>2, <3>3 DEF Closed
    <3>4. CASE r[1] \in reachable
      BY <3>2, <3>4 DEF Closed, working_list
    <3> QED BY <2>2, <3>3, <3>4
  <2> HIDE DEF C
  <2>3. PICK k \in {"l", "c"} : <<n, k>> \in C
    BY <1>1, <2>1, <2>2 DEF Users
  <2>4. <<n, k>> # start
    BY <2>3
  <2>5. <<n, k>> \in reachable
    BY <2>3, <2>4 DEF C
  <2> QED BY <2>5
<1>2. ASSUME NEW y \in reachable, y[1] = n PROVE start[1] \in Users(n)
  <2> SUFFICES ASSUME NEW C \in SUBSET nodes, <<start[1], "s">> \in C,
                      \A r \in edges : r[1] \in C /\ r[2] \in nodes => r[2] \in C
               PROVE  \E k \in {"l", "c"} : <<n, k>> \in C
    BY <1>0 DEF Users
  <2>1. \A z \in C : get_peers(z) \subseteq C
    <3> SUFFICES ASSUME NEW z \in C, NEW x \in nodes, <<z, x>> \in edges PROVE x \in C
      BY DEF get_peers
    <3>1. <<z, x>>[1] = z /\ <<z, x>>[2] = x
      OBVIOUS
    <3> QED BY <3>1
  <2>2. Closed(C)
    BY <1>0, <2>1 DEF Closed, working_list
  <2>3. y \in C
    BY <2>2, <1>2
  <2>4. y = <<y[1], y[2]>> /\ y[2] \in {"l", "c"}
    <3>1. y \in Defined /\ y[2] # "s"
      BY <1>2, NoSubjectFound
    <3> QED BY <3>1, DefinedNodes
  <2> QED BY <1>2, <2>3, <2>4
<1> QED BY <1>1, <1>2

\* As long as the graph stays, so do the users.
LEMMA SameUsers ==
  ASSUME nodes' = nodes, edges' = edges, NEW n
  PROVE  Users(n)' = Users(n)
  BY DEF Users, Named, Entries

\* The graph is built: no subject is done yet.
LEMMA GraphBuilt ==
  ASSUME UsersInv, build_graph
  PROVE  UsersInv'
<1>1. /\ step' = "resolve" /\ nodes' = Defined /\ c2s_map' = [n \in Names |-> {}]
      /\ todo' = {x \in Defined : x[2] = "s"} /\ edges' = edges
      /\ reachable' = reachable /\ reachable_new' = reachable_new /\ nodes = {}
  BY DEF build_graph, reach, UsersInv, Names
<1>2. ASSUME NEW n PROVE {s \in Users(n)' : <<s, "s">> \notin todo'} = {}
  <2> SUFFICES ASSUME NEW s \in Users(n)' PROVE <<s, "s">> \in todo'
    OBVIOUS
  <2>1. s \in Named("subject")
    BY DEF Users, Named, Entries
  <2>2. <<s, "s">> \in Defined
    BY <2>1 DEF Defined
  <2> QED BY <1>1, <2>2
<1>3. Names' = Names /\ Defined' = Defined
  BY DEF Names, Defined, Named, Entries
<1> QED BY <1>1, <1>2, <1>3 DEF UsersInv

\* A search begins.
LEMMA SearchBegun ==
  ASSUME UsersInv, resolve_subject
  PROVE  UsersInv'
<1>1. /\ step' = "reach" /\ pc' = "call" /\ start' \in todo /\ step = "resolve"
      /\ nodes' = nodes /\ edges' = edges /\ reachable' = reachable
      /\ reachable_new' = reachable_new /\ todo' = todo /\ c2s_map' = c2s_map
  BY DEF resolve_subject
<1>2. nodes = Defined /\ start' \in nodes /\ edges \subseteq Universe \X Universe /\ nodes \subseteq Universe
  BY <1>1, RefsAssumption DEF UsersInv
<1>3. IndInv' /\ Result'
  <2>1. TypeOK'
    BY <1>1, <1>2 DEF TypeOK, UsersInv
  <2> QED BY <1>1, <2>1 DEF IndInv, LoopInv, Result
<1>4. Names' = Names /\ Defined' = Defined
  BY DEF Names, Defined, Named, Entries
<1>5. \A n : Users(n)' = Users(n)
  BY <1>1, SameUsers
<1> QED BY <1>1, <1>3, <1>4, <1>5 DEF UsersInv

\* A step of the search changes neither the graph nor the map.
LEMMA SearchStep ==
  ASSUME UsersInv, reach_step
  PROVE  UsersInv'
<1>1. /\ get_reachable_nodes /\ step = "reach" /\ step' = step /\ todo' = todo /\ c2s_map' = c2s_map
      /\ IndInv /\ Result
  BY DEF reach_step, UsersInv
<1>2. IndInv' /\ Result'
  BY <1>1, SearchKept
<1>3. nodes' = nodes /\ edges' = edges /\ start' = start
  BY <1>1 DEF get_reachable_nodes, Call, Expand, Return, graph
<1>4. Names' = Names /\ Defined' = Defined
  BY DEF Names, Defined, Named, Entries
<1>5. \A n : Users(n)' = Users(n)
  BY <1>3, SameUsers
<1>6. reachable' \subseteq nodes' /\ reachable_new' \subseteq reachable'
  BY <1>2 DEF IndInv, TypeOK
<1> QED BY <1>1, <1>2, <1>3, <1>4, <1>5, <1>6 DEF UsersInv

\* What the search found is recorded: the subject is done.
LEMMA UserRecorded ==
  ASSUME UsersInv, record_users
  PROVE  UsersInv'
<1>1. /\ step = "reach" /\ pc = "done" /\ todo' = todo \ {start} /\ UNCHANGED vars
      /\ IF \A x \in reachable : x[1] \in DOMAIN c2s_map
         THEN /\ step' = "resolve"
              /\ c2s_map' = [n \in DOMAIN c2s_map |->
                               IF \E x \in reachable : x[1] = n
                               THEN c2s_map[n] \cup {start[1]} ELSE c2s_map[n]]
         ELSE step' = "KeyError" /\ UNCHANGED c2s_map
  BY DEF record_users
<1>2. /\ nodes' = nodes /\ edges' = edges /\ reachable' = reachable /\ reachable_new' = reachable_new
  BY <1>1 DEF vars, graph, reach
<1>3. /\ nodes = Defined /\ todo \subseteq {x \in nodes : x[2] = "s"} /\ DOMAIN c2s_map = Names
      /\ start \in todo /\ edges \in Refs /\ reachable \subseteq nodes
      /\ \A n \in Names : c2s_map[n] = {s \in Users(n) : <<s, "s">> \notin todo}
  BY <1>1 DEF UsersInv
<1>4. Closed(reachable) /\ \A C \in SUBSET nodes : Closed(C) => reachable \subseteq C
  BY <1>1 DEF UsersInv, Result
<1>5. step' = "resolve" /\ DOMAIN c2s_map' = Names
      /\ \A n \in Names : c2s_map'[n] = IF \E x \in reachable : x[1] = n
                                        THEN c2s_map[n] \cup {start[1]} ELSE c2s_map[n]
  <2>1. \A x \in reachable : x[1] \in Names
    BY <1>3, <1>4, NoSubjectFound
  <2> QED BY <1>1, <1>3, <2>1
<1>6. start \in nodes /\ start[2] = "s" /\ start = <<start[1], "s">>
  BY <1>3, DefinedNodes
<1>7. ASSUME NEW n \in Names PROVE c2s_map'[n] = {s \in Users(n) : <<s, "s">> \notin todo'}
  <2>1. start[1] \in Users(n) <=> \E x \in reachable : x[1] = n
    BY <1>3, <1>4, <1>6, UserFound
  <2>2. \A s : <<s, "s">> \notin todo' <=> <<s, "s">> \notin todo \/ s = start[1]
    <3>1. \A s : <<s, "s">> = start <=> s = start[1]
      BY <1>6
    <3>2. \A y : y \notin todo' <=> y \notin todo \/ y = start
      BY <1>1
    <3> QED BY <3>1, <3>2
  <2>3. {s \in Users(n) : <<s, "s">> \notin todo'} =
          IF start[1] \in Users(n) THEN {s \in Users(n) : <<s, "s">> \notin todo} \cup {start[1]}
          ELSE {s \in Users(n) : <<s, "s">> \notin todo}
    BY <2>2
  <2> QED BY <1>3, <1>5, <2>1, <2>3
<1>8. Names' = Names /\ Defined' = Defined
  BY DEF Names, Defined, Named, Entries
<1>9. \A n : Users(n)' = Users(n)
  BY <1>2, SameUsers
<1>10. todo' \subseteq {x \in nodes : x[2] = "s"}
  BY <1>1, <1>3
<1> QED BY <1>2, <1>3, <1>5, <1>7, <1>8, <1>9, <1>10 DEF UsersInv

\* compile_component_to_subjects_map of doc_transfer.py maps every component and library
\* of every policy to the subjects that use it, and none of its lookups fails.
THEOREM UsersCorrect == UsersSafety => []UsersRight
<1>1. UsersInit => UsersInv
  <2> SUFFICES ASSUME UsersInit PROVE UsersInv
    OBVIOUS
  <2>1. step = "graph" /\ edges \in Refs /\ nodes = {} /\ reachable = {} /\ reachable_new = {}
    BY Zenon DEF UsersInit
  <2> QED BY <2>1 DEF UsersInv
<1>2. UsersInv /\ [compile_component_to_subjects_map]_usersVars => UsersInv'
  <2> SUFFICES ASSUME UsersInv, [compile_component_to_subjects_map]_usersVars PROVE UsersInv'
    OBVIOUS
  <2>1. CASE UNCHANGED usersVars
    <3>1. UNCHANGED vars /\ step' = step /\ todo' = todo /\ c2s_map' = c2s_map
      BY <2>1 DEF usersVars
    <3>2. /\ nodes' = nodes /\ edges' = edges /\ start' = start /\ reachable' = reachable
          /\ reachable_new' = reachable_new /\ pc' = pc
      BY <3>1 DEF vars, graph, reach
    <3>3. step = "reach" => IndInv' /\ Result'
      <4>1. IndInv => IndInv'
        BY <3>1, StutterInv
      <4>2. Result => Result'
        BY <3>2 DEF Result, Closed, working_list, get_peers
      <4> QED BY <4>1, <4>2 DEF UsersInv
    <3>4. Names' = Names /\ Defined' = Defined
      BY DEF Names, Defined, Named, Entries
    <3>5. \A n : Users(n)' = Users(n)
      BY <3>2, SameUsers
    <3> QED BY <3>1, <3>2, <3>3, <3>4, <3>5 DEF UsersInv
  <2> QED BY <2>1, GraphBuilt, SearchBegun, SearchStep, UserRecorded
          DEF compile_component_to_subjects_map
<1>3. UsersInv => UsersRight
  BY DEF UsersInv, UsersRight, Names
<1> QED BY <1>1, <1>2, <1>3, PTL DEF UsersSafety
=============================================================================
