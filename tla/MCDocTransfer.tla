---- MODULE MCDocTransfer ----
EXTENDS DocTransfer

(* Two subjects, two components and two libraries that may depend on each
   other and on a library "lx" the policy does not define.                 *)
Doc(id) == El("doc", <<"id", id>>, <<>>)
N(tag, kids) == El(tag, NoAttr, kids)
Mem(tag, l, id) == El(tag, <<"logical", l>>, <<Doc(id)>>)

MCPJ == N("system", <<
  Doc(1),
  N("memory", <<El("memory", <<"name", "crash">>, <<Doc(2)>>)>>),
  N("components", <<
    El("library", <<"name", "l1">>,
       <<N("requires", <<N("memory", <<Mem("memory", "log", 3)>>)>>), Doc(4)>>),
    El("library", <<"name", "l2">>,
       <<Doc(5), N("requires", <<N("channels", <<Mem("writer", "log", 6)>>)>>)>>),
    El("component", <<"name", "c1">>,
       <<Doc(7), N("requires", <<
          N("memory", <<N("array", <<Mem("memory", "a1", 8)>>), Mem("memory", "gone", 9)>>),
          N("channels", <<Mem("writer", "out", 10), Mem("reader", "in", 11),
                          N("array", <<Mem("writer", "a2", 12), Mem("reader", "a3", 13)>>)>>)>>)>>),
    El("component", <<"name", "c2">>, <<Doc(14), Doc(15)>>)>>),
  N("subjects", <<
    Doc(16),
    El("subject", <<"name", "s1">>,
       <<Doc(17), N("memory", <<Mem("memory", "own", 18)>>),
         N("component", <<Mem("map", "log", 19)>>),
         N("channels", <<Mem("reader", "in", 20), Mem("writer", "out", 21)>>)>>),
    El("subject", <<"name", "s2">>, <<Doc(22)>>)>>)>>)

S(s) == << <<"subjects", "", "">>, <<"subject", "name", s>> >>
M(s, l) == S(s) \o << <<"memory", "", "">>, <<"memory", "logical", l>> >>
MCPB == {<<>>, << <<"subjects", "", "">> >>, S("s1"), S("s2"),
         << <<"memory", "", "">>, <<"memory", "name", "crash">> >>}
        \cup {M(s, l) : s \in {"s1", "s2"}, l \in {"log", "a1", "a2", "a3", "in", "out", "own"}}

Ref(a, ka, b, kb) == << <<a, ka>>, <<b, kb>> >>
LibRefs == SUBSET ({Ref("l1", "l", "l2", "l")} \cup {Ref("l2", "l", x, "l") : x \in {"l1", "l2", "lx"}})
CompRefs == SUBSET {Ref(c, "c", l, "l") : c \in {"c1", "c2"}, l \in {"l1", "l2"}}
SubjRefs(s) == {{}} \cup {{Ref(s, "s", c, "c")} : c \in {"c1", "c2"}}
MCRefs == {a \cup b \cup c \cup d : a \in LibRefs, b \in CompRefs, c \in SubjRefs("s1"), d \in SubjRefs("s2")}

MCUniverse == {<<n, "l">> : n \in {"l1", "l2", "lx"}} \cup {<<n, "c">> : n \in {"c1", "c2"}}
              \cup {<<n, "s">> : n \in {"s1", "s2"}}
====
