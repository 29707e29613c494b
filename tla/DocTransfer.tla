----------------------------- MODULE DocTransfer -----------------------------
(***************************************************************************)
(* The documentation plugin doc_transfer.py: it copies the <doc> elements  *)
(* of the joined policy to the places of policy-b they describe.  The doc  *)
(* of a component or library goes to every subject that instantiates or    *)
(* depends on it; ComponentUsers computes which subjects these are.        *)
(*                                                                         *)
(* A doc is an XML element whose attribute carries its identity.           *)
(***************************************************************************)
EXTENDS ComponentUsers, TLC

CONSTANT PB            \* the elements of policy-b, each by its path from the root

VARIABLES phase,       \* step of main
          pending,     \* the add_to_output calls the traversal has still to make
          expansion,   \* target path |-> its __new_leaves
          out          \* element of policy-b |-> its leading children

mainVars == <<phase, pending, expansion, out>>
allVars == <<usersVars, mainVars>>

El(tag, attr, kids) == [tag |-> tag, attr |-> attr, kids |-> kids]

-----------------------------------------------------------------------------
(* The rules: a key is a path of steps <<tag, attribute, variable>>, a value
   is either a further map or the target of an add_to_output.              *)

Step(tag) == <<tag, "", "">>
Rule(key, do) == [key |-> key, do |-> do]
Out(target) == [target |-> target]
Go(map) == [map |-> map]

AnySubject(var) == <<"subject", "name", var>>

subj_mem_map ==
  << Rule(<<Step("doc")>>,
          Out(<<Step("subjects"), AnySubject("subject_name"), Step("memory"),
                <<"memory", "logical", "subj_mem_logical">> >>)) >>

subject_map ==
  << Rule(<<Step("doc")>>, Out(<<Step("subjects"), AnySubject("subject_name")>>)) >> \o
  [i \in 1 .. 4 |->
     Rule(<< Step(<<"memory", "component", "channels", "channels">>[i]),
             << <<"memory", "map", "reader", "writer">>[i], "logical", "subj_mem_logical">> >>,
          Go(subj_mem_map))]

CompTarget == <<Step("subjects"), AnySubject("Component_To_Subjects")>>

comp_mem_map ==
  << Rule(<<Step("doc")>>,
          Out(CompTarget \o <<Step("memory"), <<"memory", "logical", "comp_mem_logical">> >>)) >>

comp_map ==
  LET Required(path, tag) ==
        Rule(<<Step("requires")>> \o path \o << <<tag, "logical", "comp_mem_logical">> >>,
             Go(comp_mem_map))
  IN  << Rule(<<Step("doc")>>, Out(CompTarget)),
         Required(<<Step("memory")>>, "memory"),
         Required(<<Step("memory"), Step("array")>>, "memory"),
         Required(<<Step("channels")>>, "reader"),
         Required(<<Step("channels")>>, "writer"),
         Required(<<Step("channels"), Step("array")>>, "reader"),
         Required(<<Step("channels"), Step("array")>>, "writer") >>

components_map ==
  << Rule(<< <<"component", "name", "component_name">> >>, Go(comp_map)),
     Rule(<< <<"library", "name", "component_name">> >>, Go(comp_map)) >>

subjects_map ==
  << Rule(<<Step("doc")>>, Out(<<Step("subjects")>>)),
     Rule(<<AnySubject("subject_name")>>, Go(subject_map)) >>

system_map ==
  << Rule(<<Step("doc")>>, Out(<<>>)),
     Rule(<<Step("memory"), <<"memory", "name", "mem_name">>, Step("doc")>>,
          Out(<<Step("memory"), <<"memory", "name", "mem_name">> >>)),
     Rule(<<Step("components")>>, Go(components_map)),
     Rule(<<Step("subjects")>>, Go(subjects_map)) >>

-----------------------------------------------------------------------------
(* Traversal of the joined policy *)

\* rule_matches of apply_rule: the first step of the key fits the node.
apply_rule(node, key) ==
  /\ node.tag = key[1][1]
  /\ key[1][2] # "" => node.attr # NoAttr /\ node.attr[1] = key[1][2]

\* fresh_param_bindings of apply_rule, over the bindings made before.
Bind(bind, node, key) ==
  IF key[1][2] = "" THEN bind
  ELSE [v \in DOMAIN bind \cup {key[1][3]} |->
          IF v = key[1][3] THEN node.attr[2] ELSE bind[v]]

\* The add_to_output calls made for the descendants of node, in order: children
\* first to last, and for each child the rules of the map first to last.
RECURSIVE do_traversal_func(_, _, _)
do_traversal_func(current_map, node, bind) ==
  LET Apply(child, rule) ==
        IF ~apply_rule(child, rule.key) THEN <<>>
        ELSE LET b == Bind(bind, child, rule.key)
             IN  IF Len(rule.key) > 1
                 THEN do_traversal_func(<<Rule(Tail(rule.key), rule.do)>>, child, b)
                 ELSE IF "map" \in DOMAIN rule.do
                 THEN do_traversal_func(rule.do.map, child, b)
                 ELSE << [doc |-> child.attr[2], target |-> rule.do.target, bind |-> b] >>
  IN  FoldLeft(LAMBDA all, child :
                 all \o FoldLeft(LAMBDA calls, r : calls \o Apply(child, r), <<>>, current_map),
               <<>>, node.kids)

\* What the traversal of the whole joined policy comes to.
OutputCalls == do_traversal_func(system_map, PJ, <<>>)

-----------------------------------------------------------------------------
(* Steps of main *)

DocInit ==
  /\ UsersInit
  /\ phase = "map" /\ pending = <<>> /\ expansion = <<>>
  /\ out = [e \in PB |-> <<>>]

compile_map ==
  /\ phase = "map" /\ compile_component_to_subjects_map
  /\ UNCHANGED mainVars

\* The map is complete; the calls that the traversal makes are taken one by one.
compile_target_expansion ==
  /\ phase = "map" /\ step = "resolve" /\ todo = {}
  /\ phase' = "traverse"
  /\ pending' = OutputCalls
  /\ UNCHANGED <<usersVars, expansion, out>>

\* The parameter of a target is unbound, or names no component: the tool exits.
Unresolvable(call) ==
  \E i \in DOMAIN call.target :
    LET var   == call.target[i][3]
        param == IF var = "Component_To_Subjects" THEN "component_name" ELSE var
    IN  /\ var # ""
        /\ \/ param \notin DOMAIN call.bind
           \/ param # var /\ call.bind[param] \notin DOMAIN c2s_map

\* get_list_of_substitutions for the one variable of a path that may have several
\* values: the users of the component, or nothing to choose.
get_list_of_substitutions(call) ==
  IF \E i \in DOMAIN call.target : call.target[i][3] = "Component_To_Subjects"
  THEN c2s_map[call.bind["component_name"]] ELSE {""}

\* The paths at which add_to_output_func ends: one for each substitution.
add_to_output_func(call) ==
  LET Value(var, sub) == CASE var = "" -> "" [] var = "Component_To_Subjects" -> sub
                           [] OTHER -> call.bind[var]
  IN  {[i \in DOMAIN call.target |->
          <<call.target[i][1], call.target[i][2], Value(call.target[i][3], sub)>>]
         : sub \in get_list_of_substitutions(call)}

\* One call of add_to_output: the doc is appended to the leaves of each target.
add_to_output ==
  /\ phase = "traverse" /\ pending # <<>>
  /\ IF Unresolvable(Head(pending)) THEN phase' = "exit" /\ UNCHANGED expansion
     ELSE LET targets == add_to_output_func(Head(pending))
              new     == [t \in targets |-> Append(IF t \in DOMAIN expansion THEN expansion[t]
                                                   ELSE <<>>, Head(pending).doc)]
          IN  phase' = phase /\ expansion' = new @@ expansion
  /\ pending' = Tail(pending)
  /\ UNCHANGED <<usersVars, out>>

\* MUTANT of apply_target_expansion: leaves inserted in front, first to last.
apply_target_expansion_Forward ==
  [e \in PB |-> IF e \notin DOMAIN expansion THEN out[e]
                ELSE FoldLeft(LAMBDA kids, leave : <<leave>> \o kids, out[e], expansion[e])]

\* The elements of policy-b that a target path names get its leaves: inserted at
\* position 0, last to first.  A path that names no element of policy-b is dropped.
apply_target_expansion ==
  [e \in PB |-> IF e \notin DOMAIN expansion THEN out[e]
                ELSE FoldRight(LAMBDA leave, kids : <<leave>> \o kids, expansion[e], out[e])]

write ==
  /\ phase = "traverse" /\ pending = <<>>
  /\ phase' = "written"
  /\ out' = apply_target_expansion
  /\ UNCHANGED <<usersVars, pending, expansion>>

main == compile_map \/ compile_target_expansion \/ add_to_output \/ write

DocSpec == DocInit /\ [][main]_allVars /\ WF_allVars(main)

-----------------------------------------------------------------------------
(* What the plugin promises, stated over the joined policy alone *)

\* Every path from the root to a doc, in document order.
RECURSIVE DocPaths(_, _)
DocPaths(node, path) ==
  IF node.tag = "doc" THEN << [path |-> path, doc |-> node.attr[2]] >>
  ELSE FoldLeft(LAMBDA all, kid : all \o DocPaths(kid, Append(path, kid)), <<>>, node.kids)

AllDocs == DocPaths(PJ, <<>>)

\* Does the doc below the elements path describe the element e of policy-b?
Describes(path, e) ==
  LET own    == Front(path)                    \* the documented element last
      at(i)  == own[i].attr[2]
      isMem  == Len(own) > 2 /\ own[Len(own)].attr # NoAttr
      memory == IF isMem THEN << <<"memory", "", "">>, <<"memory", "logical", at(Len(own))>> >> ELSE <<>>
      whom   == IF own[1].tag = "components" THEN Users(at(2)) ELSE {at(2)}
  IN  IF own = <<>> THEN e = <<>>
      ELSE IF own[1].tag = "memory"
      THEN Len(own) = 2 /\ e = << <<"memory", "", "">>, <<"memory", "name", at(2)>> >>
      ELSE IF Len(own) = 1 THEN own[1].tag = "subjects" /\ e = << <<"subjects", "", "">> >>
      ELSE \E s \in whom : e = << <<"subjects", "", "">>, <<"subject", "name", s>> >> \o memory

\* Every element of policy-b ends up with exactly the documentation of what it was
\* made from, in the order of the joined policy: its own docs, and those of each
\* component and library it uses, directly or through other libraries; nothing is
\* lost, nothing appears twice, and dangling references do no harm.
DocsPlaced ==
  phase = "written" =>
    \A e \in PB :
      out[e] = LET mine == SelectSeq(AllDocs, LAMBDA d : Describes(d.path, e))
               IN  [i \in DOMAIN mine |-> mine[i].doc]

\* Whatever cycles and references to nothing a policy has, the plugin comes to its end
\* and writes policy-b: the search ends, no lookup in c2s_map fails and no parameter
\* stays unresolved.
Written == <>(phase = "written")
=============================================================================
