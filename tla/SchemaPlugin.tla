---------------------------- MODULE SchemaPlugin ----------------------------
(***************************************************************************)
(* The schema extension xsd_plugin_doc.py on top of libmuxsdplugin.py: it  *)
(* makes <doc> legal as first child of every element with complex content. *)
(* Every complexType gets a reference to the universal_starting_group      *)
(* (usg), and the doc element goes into that group.                        *)
(*                                                                         *)
(* The plugin is run on its own output a second time, since extensions are *)
(* applied one after another and have to be idempotent.                    *)
(***************************************************************************)
EXTENDS Naturals, Sequences, SequencesExt

CONSTANTS Types,     \* names of the complex types, in schema order
          Schemas    \* what the types may be: functions from names to children

VARIABLES types,     \* name |-> children of the complexType
          toplevel,  \* definitions the plugin put at the top of the schema, in order
          usgSeq,    \* children of the sequence of the usg definition
          i,         \* index of the complexType looked at
          phase,     \* step of add_documentation
          pass,      \* 1: first run, 2: run on the output of the first
          original, written   \* the input and the output of the first run

schema == <<types, toplevel, usgSeq>>
vars == <<schema, i, phase, pass, original, written>>

\* An XML node: its local name (for types and references their own) and children.
Node(tag, kids) == [tag |-> tag, kids |-> kids]
Leaf(tag) == Node(tag, <<>>)

usg == Leaf("usg")   \* <group ref="universal_starting_group"/>

Init ==
  /\ types \in Schemas /\ toplevel = <<>> /\ usgSeq = <<>>
  /\ i = 1 /\ phase = "start" /\ pass = 1
  /\ original = types /\ written = <<>>

-----------------------------------------------------------------------------

insert_usg_in_sequence(node) ==
  IF node.kids # <<>> /\ node.kids[1] = usg THEN node
  ELSE [node EXCEPT !.kids = <<usg>> \o @]

\* MUTANT of wrapped: the sequence takes the place of the child.
wrapped_Empty(child) == insert_usg_in_sequence(Leaf("sequence"))

\* A choice or a group is moved into a new sequence.
wrapped(child) == insert_usg_in_sequence(Node("sequence", <<child>>))

Derived(child, how) == \E k \in DOMAIN child.kids : child.kids[k].tag = how

Raise(error) == [error |-> error]
Result(kids) == [kids |-> kids]

new_sequence(kids, k) == InsertAt(kids, k, insert_usg_in_sequence(Leaf("sequence")))

\* The first child that is no annotation decides what is done; without one the
\* loop ends and a sequence is appended with the prefix of the last child, an
\* unbound variable when there was none.
insert_usg_in_complexType(kids) ==
  LET content == {k \in DOMAIN kids : kids[k].tag # "annotation"}
      k == CHOOSE k \in content : \A j \in content : k <= j
      child == kids[k]
  IN  CASE kids = <<>> -> Raise("UnboundLocalError")
        [] kids # <<>> /\ content = {} -> Result(new_sequence(kids, Len(kids) + 1))
        [] content # {} ->
             CASE child.tag = "simpleContent" -> Result(kids)
               [] child.tag = "complexContent" ->
                    IF Derived(child, "restriction") THEN Raise("ValueError") ELSE Result(kids)
               [] child.tag \in {"choice", "group"} -> Result([kids EXCEPT ![k] = wrapped(child)])
               [] child.tag = "sequence" ->
                    Result([kids EXCEPT ![k] = insert_usg_in_sequence(child)])
               [] child.tag \in {"attribute", "attributeGroup"} -> Result(new_sequence(kids, k))
               [] OTHER -> Raise("ValueError")

-----------------------------------------------------------------------------

universal_starting_group_defined == Contains(toplevel, "universal_starting_group")

documentationType_defined ==
  Contains(toplevel, "documentationType") /\ Contains(toplevel, "docTypeType")

doc_in_universal_starting_group == Contains(usgSeq, "doc")

start ==
  /\ phase = "start"
  /\ phase' = IF universal_starting_group_defined THEN "doctype" ELSE "types"
  /\ i' = 1
  /\ UNCHANGED <<schema, pass, original, written>>

\* The loop of insert_universal_starting_group over the complex types.
insert_in_type ==
  /\ phase = "types" /\ i <= Len(Types)
  /\ LET r == insert_usg_in_complexType(types[Types[i]])
     IN  IF "error" \in DOMAIN r
         THEN phase' = r.error /\ UNCHANGED <<types, i>>
         ELSE /\ types' = [types EXCEPT ![Types[i]] = r.kids]
              /\ i' = i + 1 /\ phase' = phase
  /\ UNCHANGED <<toplevel, usgSeq, pass, original, written>>

\* The children of the tree given become the first ones of the schema, in their order.
insert_children_from_string(children) == children \o toplevel

\* Its end: the (empty) group goes to the top.
insert_group ==
  /\ phase = "types" /\ i > Len(Types)
  /\ phase' = "doctype"
  /\ toplevel' = insert_children_from_string(<<"universal_starting_group">>)
  /\ UNCHANGED <<types, usgSeq, i, pass, original, written>>

insert_doctype ==
  /\ phase = "doctype" /\ phase' = "doc"
  /\ toplevel' = IF documentationType_defined THEN toplevel
                 ELSE insert_children_from_string(<<"documentationType", "docTypeType">>)
  /\ UNCHANGED <<types, usgSeq, i, pass, original, written>>

insert_doc_in_universal_starting_group ==
  /\ phase = "doc" /\ phase' = "write"
  /\ usgSeq' = IF doc_in_universal_starting_group THEN usgSeq ELSE <<"doc">> \o usgSeq
  /\ UNCHANGED <<types, toplevel, i, pass, original, written>>

\* tree.write; the output of the first run becomes the input of the second.
write ==
  /\ phase = "write"
  /\ IF pass = 1 THEN /\ pass' = 2 /\ phase' = "start" /\ written' = schema
                 ELSE /\ phase' = "end" /\ UNCHANGED <<pass, written>>
  /\ UNCHANGED <<schema, i, original>>

add_documentation ==
  \/ start \/ insert_in_type \/ insert_group \/ insert_doctype
  \/ insert_doc_in_universal_starting_group \/ write

Spec == Init /\ [][add_documentation]_vars

-----------------------------------------------------------------------------
(* What a schema means: the particles of a type, those of its base first. *)

Particles == {"sequence", "choice", "group"}

Simple(ts, t) == \E k \in DOMAIN ts[t] : ts[t][k].tag = "simpleContent"

OwnParticle(kids) == SelectSeq(kids, LAMBDA c : c.tag \in Particles)

RECURSIVE Content(_, _)
Content(ts, t) ==
  LET cc == SelectSeq(ts[t], LAMBDA c : c.tag = "complexContent")
  IN  IF cc = <<>> THEN OwnParticle(ts[t])
      ELSE LET ext == cc[1].kids[1].kids
           IN  Content(ts, ext[1].tag) \o OwnParticle(Tail(ext))

\* The items a document has to show, in order: sequences are opened.
RECURSIVE Items(_)
Items(ps) ==
  IF ps = <<>> THEN <<>>
  ELSE (IF Head(ps).tag = "sequence" THEN Items(Head(ps).kids) ELSE <<Head(ps)>>)
       \o Items(Tail(ps))

\* In the extended schema every type with complex content, derived or not, starts
\* with exactly one reference to the group, and doc is the group's first element:
\* a base type is changed, what extends it is not, and no type is missed.
DocFirst ==
  pass = 2 =>
    /\ usgSeq # <<>> /\ usgSeq[1] = "doc"
    /\ \A t \in ToSet(Types) : ~Simple(types, t) =>
         LET items == Items(Content(types, t))
         IN  items # <<>> /\ items[1] = usg /\ usg \notin ToSet(Tail(items))

\* What was legal stays legal (README.md of the plugins: "monotone"): without the
\* optional group every type has the content it had before.
Monotone ==
  \A t \in ToSet(Types) :
    SelectSeq(Items(Content(types, t)), LAMBDA x : x # usg) = Items(Content(original, t))

\* A complexType stays well-formed: annotations, then at most one particle, then
\* the attributes.
WellPlaced ==
  \A t \in ToSet(Types) : \A j, k \in DOMAIN types[t] :
    LET rank(c) == CASE c.tag = "annotation" -> 1 [] c.tag \in {"attribute", "attributeGroup"} -> 3
                     [] OTHER -> 2
    IN  j < k => rank(types[t][j]) <= rank(types[t][k])
                 /\ (rank(types[t][j]) = 2 => rank(types[t][k]) # 2)

\* Extending an extended schema changes nothing (README.md: "idempotent"), neither
\* the types nor the definitions at the top nor the group.
Idempotent == phase = "end" => schema = written

\* A type without children gets a sequence, as the comment before the last lines of
\* insert_usg_in_complexType says: the plugin does not fail on it.
EmptyTypeExtended == phase # "UnboundLocalError"
=============================================================================
