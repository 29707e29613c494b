--------------------------- MODULE SchedulerProofs --------------------------
(***************************************************************************)
(* Proofs about the scheduling inside the partitions of a CPU, for every    *)
(* policy: any partitions, groups, subjects and events.  First what         *)
(* inserting a group, removing one and taking off the expired ones do to    *)
(* timer lists that are kept as links between the groups; then three        *)
(* layers, each resting on the one before:                                  *)
(*   ListInv                  the timer lists and the handlers' locals,     *)
(*   ActivityInv and RunInv   the indicators and the Running flags,         *)
(*   HaltInv                  the halted subjects.                          *)
(***************************************************************************)
EXTENDS Scheduler, FiniteSetTheorems, SequenceTheorems, WellFoundedInduction, TLAPS

-----------------------------------------------------------------------------
(* The policy *)

\* Every group has one place in one partition.
LEMMA PolicyFacts ==
  /\ \A p \in Partitions : /\ Len(GroupMap[p]) \in Nat
                           /\ Indices(p) \subseteq Nat /\ 1 \in Indices(p)
                           /\ \A i \in Indices(p) : GroupAt(p, i) \in Groups
  /\ \A p \in Partitions : \A i \in Indices(p) :
       PartitionOf(GroupAt(p, i)) = p /\ IndexOf(GroupAt(p, i)) = i
  /\ \A g \in Groups : /\ PartitionOf(g) \in Partitions
                       /\ IndexOf(g) \in Indices(PartitionOf(g))
                       /\ GroupAt(PartitionOf(g), IndexOf(g)) = g
<1>1. ASSUME NEW p \in Partitions
      PROVE  /\ Len(GroupMap[p]) \in Nat /\ Indices(p) \subseteq Nat /\ 1 \in Indices(p)
             /\ \A i \in Indices(p) : GroupAt(p, i) \in Groups
  <2>1. GroupMap[p] \in Seq(Groups) /\ GroupMap[p] # <<>>
    BY PolicyAssumption
  <2>2. Len(GroupMap[p]) \in Nat /\ Len(GroupMap[p]) # 0
    BY <2>1
  <2> QED
    BY <2>1, <2>2, ElementOfSeq DEF Indices, GroupAt
<1>2. ASSUME NEW p \in Partitions, NEW i \in Indices(p)
      PROVE  PartitionOf(GroupAt(p, i)) = p /\ IndexOf(GroupAt(p, i)) = i
  <2>1. \A q \in Partitions :
          GroupAt(p, i) \in {GroupMap[q][j] : j \in Indices(q)} <=> q = p
    BY PolicyAssumption DEF GroupAt
  <2>2. PartitionOf(GroupAt(p, i)) = p
    BY <2>1 DEF PartitionOf
  <2>3. \A j \in Indices(p) : GroupMap[p][j] = GroupAt(p, i) <=> j = i
    BY PolicyAssumption DEF GroupAt
  <2> QED
    BY <2>2, <2>3 DEF IndexOf
<1>3. ASSUME NEW g \in Groups
      PROVE  /\ PartitionOf(g) \in Partitions /\ IndexOf(g) \in Indices(PartitionOf(g))
             /\ GroupAt(PartitionOf(g), IndexOf(g)) = g
  <2>1. PICK p \in Partitions : \E i \in Indices(p) : GroupMap[p][i] = g
    BY PolicyAssumption
  <2>2. PICK i \in Indices(p) : GroupMap[p][i] = g
    BY <2>1
  <2> QED
    BY <1>2, <2>2 DEF GroupAt
<1> QED
  BY <1>1, <1>2, <1>3

\* The groups of a partition, and where each of them is.
LEMMA GroupsOfFacts ==
  /\ \A p \in Partitions : GroupsOf(p) \subseteq Groups
  /\ \A g \in Groups : g \in GroupsOf(PartitionOf(g))
  /\ \A p \in Partitions : \A g \in GroupsOf(p) : PartitionOf(g) = p
  /\ \A p \in Partitions : \A i \in Indices(p) : GroupAt(p, i) \in GroupsOf(p)
  /\ \A p \in Partitions : \A g \in GroupsOf(p) : IndexOf(g) \in Indices(p) /\ GroupAt(p, IndexOf(g)) = g
  /\ NoGroup \notin Groups
BY PolicyFacts, PolicyAssumption DEF GroupsOf, GroupAt

-----------------------------------------------------------------------------
(* Lists *)

\* Sets of natural numbers have a least element.
LEMMA LeastNumber ==
  ASSUME NEW S \in SUBSET Nat, S # {}
  PROVE  \E m \in S : \A n \in S : m <= n
<1> DEFINE R == OpToRel(<, Nat)
<1>1. \A x, y \in Nat : <<x, y>> \in R <=> x < y
  BY DEF OpToRel
<1>2. IsWellFoundedOn(R, Nat)
  BY NatLessThanWellFounded, Zenon
<1> HIDE DEF R
<1>3. PICK m \in S : \A y \in S : ~(<<y, m>> \in R)
  BY <1>2, WFMin
<1> SUFFICES ASSUME NEW n \in S PROVE m <= n
  OBVIOUS
<1>4. m \in Nat /\ n \in Nat
  OBVIOUS
<1>5. ~(n < m)
  BY <1>1, <1>3, <1>4, Zenon
<1> QED
  BY <1>4, <1>5

\* Timer lists are the sequences of groups that are no longer than there are groups.
LEMMA ListShape ==
  ASSUME NEW w
  PROVE  w \in TimerLists <=> \E m \in 0 .. Cardinality(Groups) : w \in [1 .. m -> Groups]
BY DEF TimerLists, BoundedSeq, SeqOf

\* What a timer list is made of.
LEMMA ListFacts ==
  ASSUME NEW w \in TimerLists
  PROVE  /\ Len(w) \in 0 .. Cardinality(Groups)
         /\ w \in [1 .. Len(w) -> Groups]
         /\ DOMAIN w = 1 .. Len(w)
         /\ \A n \in DOMAIN w : w[n] \in Groups /\ w[n] # NoGroup
<1>1. PICK m \in 0 .. Cardinality(Groups) : w \in [1 .. m -> Groups]
  BY ListShape
<1>2. Cardinality(Groups) \in Nat
  BY PolicyAssumption, FS_CardinalityType
<1>3. m \in Nat
  BY <1>1, <1>2
<1>4. w \in Seq(Groups)
  BY <1>1, <1>3, SeqDef
<1>5. Len(w) = m
  BY <1>1, <1>3, <1>4, LenProperties
<1> QED
  BY <1>1, <1>5, PolicyAssumption

\* The loops stop at the first group they look for.
LEMMA FirstFacts ==
  ASSUME NEW w \in TimerLists, NEW gs \in SUBSET Groups
  PROVE  LET n == FirstAt(w, gs)
         IN  /\ n \in 1 .. Len(w) + 1
             /\ n <= Len(w) => w[n] \in gs
             /\ \A j \in 1 .. n - 1 : j \in DOMAIN w /\ w[j] \notin gs
<1> DEFINE S == {n \in 1 .. Len(w) + 1 : At(w, n) \in gs \cup {NoGroup}}
           n == FirstAt(w, gs)
<1>1. Len(w) \in Nat /\ DOMAIN w = 1 .. Len(w) /\ \A j \in DOMAIN w : w[j] \in Groups /\ w[j] # NoGroup
  BY ListFacts, PolicyAssumption, FS_CardinalityType
<1>2. S \in SUBSET Nat /\ Len(w) + 1 \in S
  BY <1>1 DEF At
<1>3. \E m \in S : \A j \in S : m <= j
  BY <1>2, LeastNumber
<1>4. n \in S /\ \A j \in S : n <= j
  BY <1>3 DEF FirstAt, Min
<1> HIDE DEF n
<1>5. n \in 1 .. Len(w) + 1 /\ (n <= Len(w) => w[n] \in gs)
  BY <1>1, <1>4 DEF At
<1>6. ASSUME NEW j \in 1 .. n - 1 PROVE j \in DOMAIN w /\ w[j] \notin gs
  BY <1>1, <1>4, <1>5 DEF At
<1> QED
  BY <1>5, <1>6 DEF n

\* Following the links one meets one list only.
LEMMA LinkedOnce ==
  ASSUME NEW p, NEW w \in TimerLists, NEW v \in TimerLists, Linked(p, w), Linked(p, v)
  PROVE  w = v
<1> DEFINE S == {n \in Nat : n >= 1 /\ At(w, n) # At(v, n)}
<1>1. /\ Len(w) \in Nat /\ DOMAIN w = 1 .. Len(w) /\ \A j \in DOMAIN w : w[j] # NoGroup
      /\ Len(v) \in Nat /\ DOMAIN v = 1 .. Len(v) /\ \A j \in DOMAIN v : v[j] # NoGroup
  BY ListFacts, PolicyAssumption, FS_CardinalityType
<1>2. S = {}
  <2> SUFFICES ASSUME S # {} PROVE FALSE
    OBVIOUS
  <2>1. PICK n \in S : \A j \in S : n <= j
    BY LeastNumber
  <2>2. n # 1
    BY DEF Linked
  <2>3. n - 1 \in Nat /\ n - 1 >= 1 /\ n - 1 \notin S
    BY <2>1, <2>2
  <2>4. At(w, n - 1) = At(v, n - 1)
    BY <2>3
  <2>5. CASE n - 1 \in DOMAIN w
    <3>1. n - 1 \in DOMAIN v /\ w[n - 1] = v[n - 1]
      BY <1>1, <2>4, <2>5 DEF At
    <3>2. At(w, (n - 1) + 1) = At(v, (n - 1) + 1)
      BY <2>5, <3>1 DEF Linked
    <3> QED
      BY <3>2
  <2>6. CASE n - 1 \notin DOMAIN w
    <3>1. n - 1 \notin DOMAIN v
      BY <1>1, <2>4, <2>6 DEF At
    <3>2. n \notin DOMAIN w /\ n \notin DOMAIN v
      BY <1>1, <2>3, <2>6, <3>1
    <3> QED
      BY <3>2 DEF At
  <2> QED
    BY <2>5, <2>6
<1>3. \A n \in Nat : n >= 1 => At(w, n) = At(v, n)
  BY <1>2
<1>4. \A n \in Nat : n \in DOMAIN w <=> n \in DOMAIN v
  BY <1>1, <1>3 DEF At
<1>5. Len(w) = Len(v)
  <2> DEFINE a == Len(w)
             b == Len(v)
  <2>1. a \in Nat /\ b \in Nat /\ \A n \in Nat : n \in 1 .. a <=> n \in 1 .. b
    BY <1>1, <1>4
  <2> HIDE DEF a, b
  <2>2. a + 1 \notin 1 .. b /\ b + 1 \notin 1 .. a
    BY <2>1
  <2>3. a = b
    BY <2>1, <2>2
  <2> QED
    BY <2>3 DEF a, b
<1>6. \A n \in 1 .. Len(w) : w[n] = v[n]
  BY <1>1, <1>3, <1>5 DEF At
<1>7. w \in [1 .. Len(w) -> Groups] /\ v \in [1 .. Len(w) -> Groups]
  BY <1>5, ListFacts
<1> QED
  BY <1>6, <1>7

\* The list that the loops walk through is the one the invariant speaks of.
LEMMA TheList ==
  ASSUME NEW p \in Partitions, TimerListOK
  PROVE  TimerList(p) \in TimerLists /\ IsTimerList(p, TimerList(p))
<1>1. PICK w \in TimerLists : IsTimerList(p, w)
  BY DEF TimerListOK
<1>2. TimerList(p) \in TimerLists /\ Linked(p, TimerList(p))
  BY <1>1 DEF TimerList, IsTimerList
<1> QED
  BY <1>1, <1>2, LinkedOnce DEF IsTimerList

-----------------------------------------------------------------------------
(* The operations on the timer list, on a head and the groups' records *)

\* w is the timer list of p that begins at head.
List(p, head, S, w) ==
  /\ head = At(w, 1)
  /\ \A n \in DOMAIN w : S[w[n]].Next_Timer = At(w, n + 1) /\ S[w[n]].Prev_Timer = At(w, n - 1)
  /\ \A m, n \in DOMAIN w : w[m] = w[n] => m = n
  /\ \A n \in DOMAIN w : n > 1 => S[w[n - 1]].Timeout <= S[w[n]].Timeout
  /\ \A n \in DOMAIN w : w[n] \in GroupsOf(p)
  /\ \A g \in GroupsOf(p) \ ToSet(w) : S[g].Next_Timer = NoGroup /\ S[g].Prev_Timer = NoGroup

InList(head, S, g) == head = g \/ S[g].Prev_Timer # NoGroup

\* A list holds the groups that its links say it holds.
LEMMA ListMembers ==
  ASSUME NEW p \in Partitions, NEW head, NEW S, NEW w \in TimerLists, List(p, head, S, w)
  PROVE  \A g \in GroupsOf(p) : InList(head, S, g) <=> g \in ToSet(w)
<1>1. /\ Len(w) \in Nat /\ DOMAIN w = 1 .. Len(w) /\ \A j \in DOMAIN w : w[j] \in Groups /\ w[j] # NoGroup
  BY ListFacts, PolicyAssumption, FS_CardinalityType
<1> SUFFICES ASSUME NEW g \in GroupsOf(p) PROVE InList(head, S, g) <=> g \in ToSet(w)
  OBVIOUS
<1>2. g # NoGroup
  BY GroupsOfFacts
<1>3. ASSUME g \notin ToSet(w) PROVE ~InList(head, S, g)
  <2>1. S[g].Prev_Timer = NoGroup
    BY <1>3 DEF List
  <2>2. At(w, 1) # g
    BY <1>2, <1>3 DEF At, ToSet
  <2> QED
    BY <2>1, <2>2 DEF InList, List
<1>4. ASSUME NEW n \in DOMAIN w, g = w[n] PROVE InList(head, S, g)
  <2>1. CASE n = 1
    BY <1>1, <1>4, <2>1 DEF List, InList, At
  <2>2. CASE n # 1
    <3>1. n - 1 \in DOMAIN w
      BY <1>1, <2>2
    <3> QED
      BY <1>1, <1>4, <3>1 DEF List, InList, At
  <2> QED
    BY <2>1, <2>2
<1> QED
  BY <1>3, <1>4 DEF ToSet

\* A removed group's neighbours are linked with each other.
LEMMA ListRemove ==
  ASSUME NEW p \in Partitions, NEW head, NEW S, NEW w \in TimerLists, List(p, head, S, w),
         \A h \in Groups : S[h].Timeout \in Int,
         NEW m \in DOMAIN w, NEW head2, NEW S2,
         head2 = IF At(w, m - 1) = NoGroup THEN At(w, m + 1) ELSE head,
         \A h \in Groups :
           /\ S2[h].Timeout = S[h].Timeout
           /\ S2[h].Next_Timer = IF h = w[m] THEN NoGroup
                                 ELSE IF h = At(w, m - 1) THEN At(w, m + 1) ELSE S[h].Next_Timer
           /\ S2[h].Prev_Timer = IF h = w[m] THEN NoGroup
                                 ELSE IF h = At(w, m + 1) THEN At(w, m - 1) ELSE S[h].Prev_Timer
  PROVE  \E v \in TimerLists : List(p, head2, S2, v) /\ ToSet(v) = ToSet(w) \ {w[m]}
<1> DEFINE L == Len(w)
           v == [n \in 1 .. L - 1 |-> IF n < m THEN w[n] ELSE w[n + 1]]
<1>1. /\ L \in Nat /\ L <= Cardinality(Groups) /\ Cardinality(Groups) \in Nat
      /\ DOMAIN w = 1 .. L /\ \A j \in DOMAIN w : w[j] \in Groups /\ w[j] # NoGroup
  BY ListFacts, PolicyAssumption, FS_CardinalityType
<1> HIDE DEF L
<1>2. m \in 1 .. L
  BY <1>1
<1>3. v \in [1 .. L - 1 -> Groups] /\ L - 1 \in 0 .. Cardinality(Groups)
  BY <1>1, <1>2
<1>4. v \in TimerLists
  BY <1>3, ListShape
<1>5. DOMAIN v = 1 .. L - 1 /\ \A n \in 1 .. L - 1 : v[n] = IF n < m THEN w[n] ELSE w[n + 1]
  OBVIOUS
<1> HIDE DEF v
<1>6. \A n \in Nat : At(v, n) = IF n < m THEN At(w, n) ELSE At(w, n + 1)
  BY <1>1, <1>2, <1>5 DEF At
<1>7. \A n \in DOMAIN v : v[n] # w[m] /\ v[n] \in Groups
  <2> SUFFICES ASSUME NEW n \in DOMAIN v PROVE v[n] # w[m] /\ v[n] \in Groups
    OBVIOUS
  <2>1. n \in DOMAIN w /\ n + 1 \in DOMAIN w
    BY <1>1, <1>5
  <2>2. CASE n < m
    BY <1>1, <1>2, <1>5, <2>1, <2>2 DEF List
  <2>3. CASE n >= m
    BY <1>1, <1>2, <1>5, <2>1, <2>3 DEF List
  <2> QED
    BY <1>2, <1>5, <2>2, <2>3
<1>8. head2 = At(v, 1)
  <2>1. CASE m = 1
    BY <1>1, <1>6, <2>1 DEF At
  <2>2. CASE m # 1
    <3>1. m - 1 \in DOMAIN w /\ At(w, m - 1) # NoGroup
      BY <1>1, <1>2, <2>2 DEF At
    <3> QED
      BY <1>2, <1>6, <2>2, <3>1 DEF List
  <2> QED
    BY <2>1, <2>2
<1>9. ASSUME NEW n \in DOMAIN v PROVE S2[v[n]].Next_Timer = At(v, n + 1)
  <2>1. CASE n < m - 1
    <3>1. v[n] = w[n] /\ n \in DOMAIN w /\ m - 1 \in DOMAIN w /\ w[n] # w[m - 1]
      BY <1>1, <1>2, <1>5, <2>1 DEF List
    <3>2. S2[v[n]].Next_Timer = At(w, n + 1)
      BY <1>7, <3>1 DEF List, At
    <3> QED
      BY <1>2, <1>5, <1>6, <2>1, <3>2
  <2>2. CASE n = m - 1
    <3>1. v[n] = w[n] /\ n \in DOMAIN w /\ At(w, m - 1) = w[n]
      BY <1>1, <1>2, <1>5, <2>2 DEF At
    <3>2. S2[v[n]].Next_Timer = At(w, m + 1)
      BY <1>7, <3>1
    <3> QED
      BY <1>2, <1>5, <1>6, <2>2, <3>2
  <2>3. CASE n >= m
    <3>1. v[n] = w[n + 1] /\ n + 1 \in DOMAIN w
      BY <1>1, <1>2, <1>5, <2>3
    <3>2. At(w, m - 1) # w[n + 1]
      BY <1>1, <1>2, <1>5, <2>3, <3>1 DEF List, At
    <3>3. S2[v[n]].Next_Timer = At(w, (n + 1) + 1)
      BY <1>7, <3>1, <3>2 DEF List
    <3> QED
      BY <1>2, <1>5, <1>6, <2>3, <3>3
  <2> QED
    BY <1>2, <1>5, <2>1, <2>2, <2>3
<1>10. ASSUME NEW n \in DOMAIN v PROVE S2[v[n]].Prev_Timer = At(v, n - 1)
  <2>1. CASE n < m
    <3>1. v[n] = w[n] /\ n \in DOMAIN w
      BY <1>1, <1>2, <1>5, <2>1
    <3>2. At(w, m + 1) # w[n]
      BY <1>1, <1>2, <1>5, <2>1, <3>1 DEF List, At
    <3>3. S2[v[n]].Prev_Timer = At(w, n - 1)
      BY <1>7, <3>1, <3>2 DEF List
    <3> QED
      BY <1>2, <1>5, <1>6, <2>1, <3>3
  <2>2. CASE n = m
    <3>1. v[n] = w[m + 1] /\ m + 1 \in DOMAIN w /\ At(w, m + 1) = w[m + 1]
      BY <1>1, <1>2, <1>5, <2>2 DEF At
    <3>2. S2[v[n]].Prev_Timer = At(w, m - 1)
      BY <1>7, <3>1
    <3> QED
      BY <1>2, <1>5, <1>6, <2>2, <3>2
  <2>3. CASE n > m
    <3>1. v[n] = w[n + 1] /\ n + 1 \in DOMAIN w
      BY <1>1, <1>2, <1>5, <2>3
    <3>2. At(w, m + 1) # w[n + 1]
      BY <1>1, <1>2, <1>5, <2>3, <3>1 DEF List, At
    <3>3. S2[v[n]].Prev_Timer = At(w, (n + 1) - 1)
      BY <1>7, <3>1, <3>2 DEF List
    <3> QED
      BY <1>2, <1>5, <1>6, <2>3, <3>3
  <2> QED
    BY <1>2, <1>5, <2>1, <2>2, <2>3
<1>11. \A i, n \in DOMAIN v : v[i] = v[n] => i = n
  <2> SUFFICES ASSUME NEW i \in DOMAIN v, NEW n \in DOMAIN v, v[i] = v[n] PROVE i = n
    OBVIOUS
  <2> DEFINE x == IF i < m THEN i ELSE i + 1
             y == IF n < m THEN n ELSE n + 1
  <2>1. x \in DOMAIN w /\ y \in DOMAIN w /\ v[i] = w[x] /\ v[n] = w[y]
    BY <1>1, <1>2, <1>5
  <2> HIDE DEF x, y
  <2>2. x = y
    BY <2>1 DEF List
  <2> QED
    BY <1>1, <1>2, <1>5, <2>2 DEF x, y
<1>12. ToSet(v) = ToSet(w) \ {w[m]}
  <2>1. ASSUME NEW n \in DOMAIN v PROVE v[n] \in ToSet(w) \ {w[m]}
    <3>1. n \in DOMAIN w /\ n + 1 \in DOMAIN w /\ (v[n] = w[n] \/ v[n] = w[n + 1])
      BY <1>1, <1>5
    <3>2. w[n] \in ToSet(w) /\ w[n + 1] \in ToSet(w)
      BY <3>1 DEF ToSet
    <3> QED
      BY <1>7, <3>1, <3>2
  <2>2. ASSUME NEW n \in DOMAIN w, w[n] # w[m] PROVE w[n] \in ToSet(v)
    <3>1. CASE n < m
      BY <1>1, <1>2, <1>5, <3>1 DEF ToSet
    <3>2. CASE n > m
      <4>1. n - 1 \in DOMAIN v /\ v[n - 1] = w[n]
        BY <1>1, <1>2, <1>5, <3>2
      <4> QED
        BY <4>1 DEF ToSet
    <3> QED
      BY <1>1, <1>2, <2>2, <3>1, <3>2
  <2> QED
    BY <2>1, <2>2 DEF ToSet
<1>13. ASSUME NEW n \in DOMAIN v, n > 1 PROVE S2[v[n - 1]].Timeout <= S2[v[n]].Timeout
  <2>1. \A j \in DOMAIN w : S2[w[j]].Timeout = S[w[j]].Timeout /\ S[w[j]].Timeout \in Int
    BY <1>1
  <2>2. CASE n < m
    <3>1. v[n] = w[n] /\ v[n - 1] = w[n - 1] /\ n \in DOMAIN w /\ n - 1 \in DOMAIN w
      BY <1>1, <1>2, <1>5, <1>13, <2>2
    <3> QED
      BY <1>13, <2>1, <3>1 DEF List
  <2>3. CASE n = m
    <3>1. v[n] = w[m + 1] /\ v[n - 1] = w[m - 1] /\ m + 1 \in DOMAIN w /\ m - 1 \in DOMAIN w
      BY <1>1, <1>2, <1>5, <1>13, <2>3
    <3>2. S[w[m - 1]].Timeout <= S[w[m]].Timeout
      BY <1>13, <2>3 DEF List
    <3>3. S[w[(m + 1) - 1]].Timeout <= S[w[m + 1]].Timeout
      BY <1>2, <3>1 DEF List
    <3> QED
      BY <1>2, <2>1, <3>1, <3>2, <3>3
  <2>4. CASE n > m
    <3>1. v[n] = w[n + 1] /\ v[n - 1] = w[n] /\ n \in DOMAIN w /\ n + 1 \in DOMAIN w
      BY <1>1, <1>2, <1>5, <1>13, <2>4
    <3>2. n \in Nat /\ n + 1 > 1
      BY <1>1, <3>1
    <3>3. S[w[(n + 1) - 1]].Timeout <= S[w[n + 1]].Timeout
      BY <3>1, <3>2 DEF List
    <3>4. (n + 1) - 1 = n
      BY <3>2
    <3> QED
      BY <2>1, <3>1, <3>3, <3>4
  <2> QED
    BY <1>2, <1>5, <2>2, <2>3, <2>4
<1>14. \A n \in DOMAIN v : v[n] \in GroupsOf(p)
  <2>1. ToSet(w) \subseteq GroupsOf(p)
    BY DEF List, ToSet
  <2>2. \A n \in DOMAIN v : v[n] \in ToSet(v)
    BY DEF ToSet
  <2> QED
    BY <1>12, <2>1, <2>2
<1>15. ASSUME NEW g \in GroupsOf(p) \ ToSet(v)
       PROVE  S2[g].Next_Timer = NoGroup /\ S2[g].Prev_Timer = NoGroup
  <2>1. g \in Groups
    BY GroupsOfFacts
  <2>2. CASE g = w[m]
    BY <2>1, <2>2
  <2>3. CASE g # w[m]
    <3>1. g \notin ToSet(w)
      BY <1>12, <2>3
    <3>2. g # At(w, m - 1) /\ g # At(w, m + 1)
      BY <3>1, <2>1, GroupsOfFacts DEF At, ToSet
    <3> QED
      BY <2>1, <2>3, <3>1, <3>2 DEF List
  <2> QED
    BY <2>2, <2>3
<1> QED
  BY <1>4, <1>8, <1>9, <1>10, <1>11, <1>12, <1>13, <1>14, <1>15 DEF List

\* A group that is not in the list is put between two neighbours.
\* The effect of an insertion and of an update on the links, as one predicate each.
IsInserted(S, S2, w, g, d, m) ==
  \A h \in Groups :
    /\ S2[h].Timeout = IF h = g THEN d ELSE S[h].Timeout
    /\ S2[h].Next_Timer = IF h = g THEN At(w, m)
                          ELSE IF h = At(w, m - 1) THEN g ELSE S[h].Next_Timer
    /\ S2[h].Prev_Timer = IF h = g THEN At(w, m - 1)
                          ELSE IF h = At(w, m) THEN g ELSE S[h].Prev_Timer
IsPlace(S, w, d, m) ==
  /\ m \in 1 .. Len(w) + 1 /\ d \in Int
  /\ m <= Len(w) => d <= S[w[m]].Timeout
  /\ m > 1 => S[w[m - 1]].Timeout <= d
IsCut(S, S2, w, E, m) ==
  /\ m \in 1 .. Len(w) + 1
  /\ E = {w[i] : i \in 1 .. m - 1}
  /\ \A h \in Groups :
       /\ S2[h].Timeout = S[h].Timeout
       /\ S2[h].Next_Timer = IF h \in E THEN NoGroup ELSE S[h].Next_Timer
       /\ S2[h].Prev_Timer = IF h \in E \/ h = At(w, m) THEN NoGroup ELSE S[h].Prev_Timer
Timeouts(S) == \A h \in Groups : S[h].Timeout \in Int
IsList(p, head, S, v, gs) == List(p, head, S, v) /\ ToSet(v) = gs

\* Procedure Insert puts a group between two neighbours of the list.
LEMMA ListInsert ==
  ASSUME NEW p \in Partitions, NEW head, NEW S, NEW w \in TimerLists, List(p, head, S, w),
         Timeouts(S), NEW g \in GroupsOf(p), g \notin ToSet(w), NEW d, NEW m, IsPlace(S, w, d, m),
         NEW head2, NEW S2, head2 = IF At(w, m - 1) = NoGroup THEN g ELSE head,
         IsInserted(S, S2, w, g, d, m)
  PROVE  \E v \in TimerLists : IsList(p, head2, S2, v, ToSet(w) \cup {g})
<1> USE DEF IsInserted, IsPlace, Timeouts, IsList
<1> DEFINE L == Len(w)
           v == [n \in 1 .. L + 1 |-> IF n < m THEN w[n] ELSE IF n = m THEN g ELSE w[n - 1]]
<1>1. /\ L \in Nat /\ Cardinality(Groups) \in Nat
      /\ DOMAIN w = 1 .. L /\ \A j \in DOMAIN w : w[j] \in Groups /\ w[j] # NoGroup
  BY ListFacts, PolicyAssumption, FS_CardinalityType
<1>2. m \in 1 .. L + 1
  OBVIOUS
<1>a. /\ m <= L => d <= S[w[m]].Timeout
      /\ m > 1 => S[w[m - 1]].Timeout <= d
  OBVIOUS
<1> HIDE DEF L
<1>b. g \in Groups /\ g # NoGroup
  BY GroupsOfFacts
<1>c. \A n \in DOMAIN w : w[n] # g
  BY DEF ToSet
<1>5. /\ DOMAIN v = 1 .. L + 1
      /\ \A n \in 1 .. L + 1 : v[n] = IF n < m THEN w[n] ELSE IF n = m THEN g ELSE w[n - 1]
  OBVIOUS
<1>3. v \in [1 .. L + 1 -> Groups]
  BY <1>1, <1>2, <1>b
<1> HIDE DEF v
<1>11. \A i, n \in DOMAIN v : v[i] = v[n] => i = n
  <2> SUFFICES ASSUME NEW i \in DOMAIN v, NEW n \in DOMAIN v, v[i] = v[n] PROVE i = n
    OBVIOUS
  <2> DEFINE x == IF i < m THEN i ELSE i - 1
             y == IF n < m THEN n ELSE n - 1
  <2>1. /\ i # m => x \in DOMAIN w /\ v[i] = w[x]
        /\ n # m => y \in DOMAIN w /\ v[n] = w[y]
    BY <1>1, <1>2, <1>5
  <2> HIDE DEF x, y
  <2>2. i = m <=> n = m
    BY <1>2, <1>5, <1>c, <2>1
  <2>3. i # m => x = y
    BY <2>1, <2>2 DEF List
  <2> QED
    BY <1>1, <1>2, <1>5, <2>2, <2>3 DEF x, y
<1>4. v \in TimerLists
  <2>1. v \in Injection(1 .. L + 1, Groups)
    BY <1>3, <1>5, <1>11 DEF Injection, IsInjective
  <2>2. Cardinality(1 .. L + 1) <= Cardinality(Groups)
    BY <2>1, PolicyAssumption, FS_Injection
  <2>3. Cardinality(1 .. L + 1) = L + 1
    <3>1. 1 \in Int /\ L + 1 \in Int /\ ~(1 > L + 1) /\ (L + 1) - 1 + 1 = L + 1
      BY <1>1
    <3> QED
      BY <3>1, FS_Interval
  <2>4. L + 1 \in 0 .. Cardinality(Groups)
    BY <1>1, <2>2, <2>3
  <2> QED
    BY <1>3, <2>4, ListShape
<1>6. \A n \in Nat : At(v, n) = IF n < m THEN At(w, n) ELSE IF n = m THEN g ELSE At(w, n - 1)
  <2> SUFFICES ASSUME NEW n \in Nat
               PROVE  At(v, n) = IF n < m THEN At(w, n) ELSE IF n = m THEN g ELSE At(w, n - 1)
    OBVIOUS
  <2>1. CASE n < m
    BY <1>1, <1>2, <1>5, <2>1 DEF At
  <2>2. CASE n = m
    BY <1>1, <1>2, <1>5, <2>2 DEF At
  <2>3. CASE n > m
    BY <1>1, <1>2, <1>5, <2>3 DEF At
  <2> QED
    BY <1>2, <2>1, <2>2, <2>3
<1>8. head2 = At(v, 1)
  <2>1. CASE m = 1
    BY <1>1, <1>6, <2>1 DEF At
  <2>2. CASE m # 1
    <3>1. m - 1 \in DOMAIN w /\ At(w, m - 1) # NoGroup
      BY <1>1, <1>2, <2>2 DEF At
    <3> QED
      BY <1>2, <1>6, <2>2, <3>1 DEF List
  <2> QED
    BY <2>1, <2>2
<1>9. ASSUME NEW n \in DOMAIN v PROVE S2[v[n]].Next_Timer = At(v, n + 1)
  <2>1. CASE n < m - 1
    <3>1. v[n] = w[n] /\ n \in DOMAIN w /\ m - 1 \in DOMAIN w /\ w[n] # w[m - 1]
      BY <1>1, <1>2, <1>5, <2>1 DEF List
    <3>2. S2[v[n]].Next_Timer = At(w, n + 1)
      BY <1>1, <1>c, <3>1 DEF List, At
    <3> QED
      BY <1>2, <1>5, <1>6, <2>1, <3>2
  <2>2. CASE n = m - 1
    <3>1. v[n] = w[n] /\ n \in DOMAIN w /\ At(w, m - 1) = w[n]
      BY <1>1, <1>2, <1>5, <2>2 DEF At
    <3>2. S2[v[n]].Next_Timer = g
      BY <1>1, <1>c, <3>1
    <3> QED
      BY <1>2, <1>5, <1>6, <2>2, <3>2
  <2>3. CASE n = m
    <3>1. S2[v[n]].Next_Timer = At(w, m)
      BY <1>2, <1>5, <1>b, <2>3
    <3> QED
      BY <1>2, <1>5, <1>6, <2>3, <3>1
  <2>4. CASE n > m
    <3>1. v[n] = w[n - 1] /\ n - 1 \in DOMAIN w
      BY <1>1, <1>2, <1>5, <2>4
    <3>2. At(w, m - 1) # w[n - 1]
      BY <1>1, <1>2, <1>5, <2>4, <3>1 DEF List, At
    <3>3. S2[v[n]].Next_Timer = At(w, (n - 1) + 1)
      BY <1>1, <1>c, <3>1, <3>2 DEF List
    <3> QED
      BY <1>2, <1>5, <1>6, <2>4, <3>3
  <2> QED
    BY <1>2, <1>5, <2>1, <2>2, <2>3, <2>4
<1>10. ASSUME NEW n \in DOMAIN v PROVE S2[v[n]].Prev_Timer = At(v, n - 1)
  <2>1. CASE n < m
    <3>1. v[n] = w[n] /\ n \in DOMAIN w
      BY <1>1, <1>2, <1>5, <2>1
    <3>2. At(w, m) # w[n]
      BY <1>1, <1>2, <1>5, <2>1, <3>1 DEF List, At
    <3>3. S2[v[n]].Prev_Timer = At(w, n - 1)
      BY <1>1, <1>c, <3>1, <3>2 DEF List
    <3> QED
      BY <1>2, <1>5, <1>6, <2>1, <3>3
  <2>2. CASE n = m
    <3>1. S2[v[n]].Prev_Timer = At(w, m - 1)
      BY <1>2, <1>5, <1>b, <2>2
    <3> QED
      BY <1>2, <1>5, <1>6, <2>2, <3>1
  <2>3. CASE n = m + 1
    <3>1. v[n] = w[m] /\ m \in DOMAIN w /\ At(w, m) = w[m]
      BY <1>1, <1>2, <1>5, <2>3 DEF At
    <3>2. S2[v[n]].Prev_Timer = g
      BY <1>1, <1>c, <3>1
    <3> QED
      BY <1>2, <1>5, <1>6, <2>3, <3>2
  <2>4. CASE n > m + 1
    <3>1. v[n] = w[n - 1] /\ n - 1 \in DOMAIN w
      BY <1>1, <1>2, <1>5, <2>4
    <3>a. m \in DOMAIN w /\ m # n - 1
      BY <1>1, <1>2, <1>5, <2>4, <3>1
    <3>2. At(w, m) # w[n - 1]
      BY <3>1, <3>a DEF List, At
    <3>3. S2[v[n]].Prev_Timer = At(w, (n - 1) - 1)
      BY <1>1, <1>c, <3>1, <3>2 DEF List
    <3>4. n - 1 \in Nat /\ ~(n - 1 < m) /\ n - 1 # m
      BY <1>1, <1>2, <1>5, <2>4
    <3>5. At(v, n - 1) = At(w, (n - 1) - 1)
      BY <1>6, <3>4
    <3> QED
      BY <3>3, <3>5
  <2> QED
    BY <1>2, <1>5, <2>1, <2>2, <2>3, <2>4
<1>12. ToSet(v) = ToSet(w) \cup {g}
  <2>1. ASSUME NEW n \in DOMAIN v PROVE v[n] \in ToSet(w) \cup {g}
    <3>1. CASE n = m
      BY <1>5, <3>1
    <3>2. CASE n < m
      BY <1>1, <1>2, <1>5, <3>2 DEF ToSet
    <3>3. CASE n > m
      <4>1. v[n] = w[n - 1] /\ n - 1 \in DOMAIN w
        BY <1>1, <1>2, <1>5, <3>3
      <4> QED
        BY <4>1 DEF ToSet
    <3> QED
      BY <1>2, <1>5, <3>1, <3>2, <3>3
  <2>2. ASSUME NEW n \in DOMAIN w PROVE w[n] \in ToSet(v)
    <3>1. CASE n < m
      BY <1>1, <1>2, <1>5, <3>1 DEF ToSet
    <3>2. CASE n >= m
      <4>1. n + 1 \in DOMAIN v /\ v[n + 1] = w[n]
        BY <1>1, <1>2, <1>5, <3>2
      <4> QED
        BY <4>1 DEF ToSet
    <3> QED
      BY <1>1, <1>2, <3>1, <3>2
  <2>3. g \in ToSet(v)
    BY <1>2, <1>5 DEF ToSet
  <2> QED
    BY <2>1, <2>2, <2>3 DEF ToSet
<1>13. ASSUME NEW n \in DOMAIN v, n > 1 PROVE S2[v[n - 1]].Timeout <= S2[v[n]].Timeout
  <2>1. \A j \in DOMAIN w : S2[w[j]].Timeout = S[w[j]].Timeout /\ S[w[j]].Timeout \in Int
    BY <1>1, <1>c
  <2>2. CASE n < m
    <3>1. v[n] = w[n] /\ v[n - 1] = w[n - 1] /\ n \in DOMAIN w /\ n - 1 \in DOMAIN w
      BY <1>1, <1>2, <1>5, <1>13, <2>2
    <3> QED
      BY <1>13, <2>1, <3>1 DEF List
  <2>3. CASE n = m
    <3>1. v[n] = g /\ v[n - 1] = w[m - 1] /\ m - 1 \in DOMAIN w
      BY <1>1, <1>2, <1>5, <1>13, <2>3
    <3> QED
      BY <1>13, <1>a, <1>b, <2>1, <2>3, <3>1
  <2>4. CASE n = m + 1
    <3>1. v[n] = w[m] /\ v[n - 1] = g /\ m \in DOMAIN w /\ m <= L
      BY <1>1, <1>2, <1>5, <1>13, <2>4
    <3> QED
      BY <1>a, <1>b, <2>1, <3>1
  <2>5. CASE n > m + 1
    <3>1. /\ v[n] = w[n - 1] /\ v[n - 1] = w[(n - 1) - 1]
          /\ n - 1 > 1 /\ n - 1 \in DOMAIN w /\ (n - 1) - 1 \in DOMAIN w
      BY <1>1, <1>2, <1>5, <1>13, <2>5
    <3>2. S[w[(n - 1) - 1]].Timeout <= S[w[n - 1]].Timeout
      BY <3>1 DEF List
    <3> QED
      BY <2>1, <3>1, <3>2
  <2> QED
    BY <1>2, <1>5, <2>2, <2>3, <2>4, <2>5
<1>14. \A n \in DOMAIN v : v[n] \in GroupsOf(p)
  <2>1. ToSet(w) \subseteq GroupsOf(p)
    BY DEF List, ToSet
  <2>2. \A n \in DOMAIN v : v[n] \in ToSet(v)
    BY DEF ToSet
  <2> QED
    BY <1>12, <2>1, <2>2
<1>15. ASSUME NEW h \in GroupsOf(p) \ ToSet(v)
       PROVE  S2[h].Next_Timer = NoGroup /\ S2[h].Prev_Timer = NoGroup
  <2>1. h \in Groups
    BY GroupsOfFacts
  <2>2. h \notin ToSet(w) /\ h # g
    BY <1>12
  <2>3. h # At(w, m - 1) /\ h # At(w, m)
    BY <2>1, <2>2, GroupsOfFacts DEF At, ToSet
  <2> QED
    BY <2>1, <2>2, <2>3 DEF List
<1> QED
  BY <1>4, <1>8, <1>9, <1>10, <1>11, <1>12, <1>13, <1>14, <1>15 DEF List

\* The groups up to a position are taken off the list.
LEMMA ListSuffix ==
  ASSUME NEW p \in Partitions, NEW head, NEW S, NEW w \in TimerLists, List(p, head, S, w),
         NEW m, NEW E, NEW head2, NEW S2, head2 = At(w, m), IsCut(S, S2, w, E, m)
  PROVE  \E v \in TimerLists : IsList(p, head2, S2, v, ToSet(w) \ E)
<1> USE DEF IsCut, IsList
<1> DEFINE L == Len(w)
           v == [n \in 1 .. L - m + 1 |-> w[n + m - 1]]
<1>1. /\ L \in Nat /\ L <= Cardinality(Groups) /\ Cardinality(Groups) \in Nat
      /\ DOMAIN w = 1 .. L /\ \A j \in DOMAIN w : w[j] \in Groups /\ w[j] # NoGroup
  BY ListFacts, PolicyAssumption, FS_CardinalityType
<1>2. m \in 1 .. L + 1
  OBVIOUS
<1> HIDE DEF L
<1>3. v \in [1 .. L - m + 1 -> Groups] /\ L - m + 1 \in 0 .. Cardinality(Groups)
  BY <1>1, <1>2
<1>4. v \in TimerLists
  BY <1>3, ListShape
<1>5. DOMAIN v = 1 .. L - m + 1 /\ \A n \in 1 .. L - m + 1 : v[n] = w[n + m - 1]
  OBVIOUS
<1> HIDE DEF v
<1>6. \A n \in Nat : n >= 1 => At(v, n) = At(w, n + m - 1)
  BY <1>1, <1>2, <1>5 DEF At
<1>7. ASSUME NEW n \in DOMAIN v
      PROVE  /\ n + m - 1 \in DOMAIN w /\ v[n] = w[n + m - 1] /\ v[n] \in Groups /\ v[n] \notin E
             /\ n \in Nat /\ n >= 1
  <2>1. n + m - 1 \in DOMAIN w /\ v[n] = w[n + m - 1] /\ n \in Nat /\ n >= 1
    BY <1>1, <1>2, <1>5
  <2>2. ASSUME NEW i \in 1 .. m - 1 PROVE w[i] # w[n + m - 1]
    <3>1. i \in DOMAIN w /\ i # n + m - 1
      BY <1>1, <1>2, <2>1
    <3> QED
      BY <2>1, <3>1 DEF List
  <2> QED
    BY <1>1, <2>1, <2>2
<1>8. head2 = At(v, 1)
  BY <1>2, <1>6
<1>9. ASSUME NEW n \in DOMAIN v PROVE S2[v[n]].Next_Timer = At(v, n + 1)
  <2>1. S2[v[n]].Next_Timer = S[v[n]].Next_Timer
    BY <1>7
  <2>2. S[v[n]].Next_Timer = At(w, (n + m - 1) + 1)
    <3> HIDE DEF IsCut
    <3> QED
      BY <1>7 DEF List
  <2> QED
    BY <1>2, <1>6, <1>7, <2>1, <2>2
<1>10. ASSUME NEW n \in DOMAIN v PROVE S2[v[n]].Prev_Timer = At(v, n - 1)
  <2>1. CASE n = 1
    <3>1. v[n] = At(w, m)
      BY <1>2, <1>7, <2>1 DEF At
    <3>2. At(v, n - 1) = NoGroup
      BY <1>5, <2>1 DEF At
    <3> QED
      BY <1>7, <3>1, <3>2
  <2>2. CASE n # 1
    <3>a. n + m - 1 # m
      BY <1>2, <1>7, <2>2
    <3>b. m \in DOMAIN w => w[m] # w[n + m - 1]
      BY <1>7, <3>a DEF List
    <3>1. v[n] # At(w, m)
      BY <1>1, <1>7, <3>b DEF At
    <3>2. S2[v[n]].Prev_Timer = At(w, (n + m - 1) - 1)
      BY <1>7, <3>1 DEF List
    <3>3. At(v, n - 1) = At(w, (n - 1) + m - 1)
      BY <1>6, <1>7, <2>2
    <3> QED
      BY <1>2, <1>7, <3>2, <3>3
  <2> QED
    BY <2>1, <2>2
<1>11. \A i, n \in DOMAIN v : v[i] = v[n] => i = n
  <2> SUFFICES ASSUME NEW i \in DOMAIN v, NEW n \in DOMAIN v, v[i] = v[n] PROVE i = n
    OBVIOUS
  <2>1. i + m - 1 = n + m - 1
    BY <1>7 DEF List
  <2> QED
    BY <1>2, <1>7, <2>1
<1>12. ToSet(v) = ToSet(w) \ E
  <2>1. ASSUME NEW n \in DOMAIN v PROVE v[n] \in ToSet(w) \ E
    BY <1>7 DEF ToSet
  <2>2. ASSUME NEW n \in DOMAIN w, w[n] \notin E PROVE w[n] \in ToSet(v)
    <3>1. n \in Nat /\ n >= m
      BY <1>1, <1>2, <2>2
    <3>a. n <= L
      BY <1>1
    <3>b. n - m + 1 \in 1 .. L - m + 1 /\ (n - m + 1) + m - 1 = n
      BY <1>1, <1>2, <3>1, <3>a
    <3>2. n - m + 1 \in DOMAIN v /\ (n - m + 1) + m - 1 = n
      BY <1>5, <3>b
    <3>3. v[n - m + 1] = w[n]
      BY <1>7, <3>2
    <3> QED
      BY <3>2, <3>3 DEF ToSet
  <2> QED
    BY <2>1, <2>2 DEF ToSet
<1>13. ASSUME NEW n \in DOMAIN v, n > 1 PROVE S2[v[n - 1]].Timeout <= S2[v[n]].Timeout
  <2>1. n - 1 \in DOMAIN v /\ (n - 1) + m - 1 = (n + m - 1) - 1 /\ n + m - 1 > 1
    <3>1. n \in Nat /\ n <= L - m + 1
      BY <1>1, <1>2, <1>5
    <3>2. m \in Nat /\ m >= 1 /\ n >= 2
      BY <1>2, <1>13, <3>1
    <3>3. (n - 1) + m - 1 = (n + m - 1) - 1 /\ n + m - 1 > 1
      BY <3>1, <3>2
    <3>4. n - 1 \in 1 .. L - m + 1
      BY <1>1, <3>1, <3>2
    <3> QED
      BY <1>5, <3>3, <3>4
  <2>2. v[n - 1] = w[(n + m - 1) - 1] /\ v[n - 1] \in Groups
    BY <1>7, <2>1
  <2>3. S[w[(n + m - 1) - 1]].Timeout <= S[w[n + m - 1]].Timeout
    BY <1>7, <2>1 DEF List
  <2> QED
    BY <1>7, <2>2, <2>3
<1>14. \A n \in DOMAIN v : v[n] \in GroupsOf(p)
  BY <1>7 DEF List
<1>15. ASSUME NEW h \in GroupsOf(p) \ ToSet(v)
       PROVE  S2[h].Next_Timer = NoGroup /\ S2[h].Prev_Timer = NoGroup
  <2>1. h \in Groups
    BY GroupsOfFacts
  <2>2. CASE h \in E
    BY <2>1, <2>2
  <2>3. CASE h \notin E
    <3>1. h \notin ToSet(w)
      BY <1>12, <2>3
    <3> QED
      BY <2>1, <2>3, <3>1 DEF List
  <2> QED
    BY <2>2, <2>3
<1> QED
  BY <1>4, <1>8, <1>9, <1>10, <1>11, <1>12, <1>13, <1>14, <1>15 DEF List

-----------------------------------------------------------------------------
(* The timer lists of a state *)

\* IsTimerList is List for the state's own links ...
LEMMA ListNow ==
  ASSUME NEW p \in Partitions, NEW w \in TimerLists, IsTimerList(p, w)
  PROVE  List(p, sp[p].Earliest_Timer, sg, w)
<1>1. \A n \in DOMAIN w : w[n] \in ToSet(w)
  BY DEF ToSet
<1>2. ToSet(w) \subseteq GroupsOf(p)
  BY DEF IsTimerList
<1>3. \A g \in GroupsOf(p) \ ToSet(w) : sg[g].Prev_Timer = NoGroup
  BY DEF IsTimerList, Is_Group_In_Timer_List
<1> QED
  BY <1>1, <1>2, <1>3 DEF IsTimerList, Linked, List

\* ... and so it is after a step.
LEMMA ListNext ==
  ASSUME NEW p \in Partitions, NEW w \in TimerLists, List(p, sp'[p].Earliest_Timer, sg', w)
  PROVE  IsTimerList(p, w)' /\ \A g \in GroupsOf(p) : Is_Group_In_Timer_List(p, g)' <=> g \in ToSet(w)
<1>1. \A g \in GroupsOf(p) : InList(sp'[p].Earliest_Timer, sg', g) <=> g \in ToSet(w)
  BY ListMembers
<1>2. \A g \in GroupsOf(p) : Is_Group_In_Timer_List(p, g)' <=> g \in ToSet(w)
  BY <1>1 DEF InList, Is_Group_In_Timer_List
<1>3. ToSet(w) \subseteq GroupsOf(p)
  BY DEF List, ToSet
<1>4. ToSet(w) = {g \in GroupsOf(p) : Is_Group_In_Timer_List(p, g)'}
  BY <1>2, <1>3
<1> QED
  BY <1>2, <1>4 DEF IsTimerList, Linked, List

\* A step that leaves heads and links alone leaves the lists alone.
LEMMA ListsSame ==
  ASSUME TimerListOK,
         \A q \in Partitions : sp'[q].Earliest_Timer = sp[q].Earliest_Timer,
         \A h \in Groups : /\ sg'[h].Next_Timer = sg[h].Next_Timer
                           /\ sg'[h].Prev_Timer = sg[h].Prev_Timer
                           /\ sg'[h].Timeout = sg[h].Timeout
  PROVE  /\ TimerListOK'
         /\ \A q \in Partitions : \A h \in GroupsOf(q) :
              Is_Group_In_Timer_List(q, h)' <=> Is_Group_In_Timer_List(q, h)
<1>1. ASSUME NEW q \in Partitions
      PROVE  /\ \E w \in TimerLists : IsTimerList(q, w)'
             /\ \A h \in GroupsOf(q) : Is_Group_In_Timer_List(q, h)' <=> Is_Group_In_Timer_List(q, h)
  <2>1. PICK w \in TimerLists : IsTimerList(q, w)
    BY DEF TimerListOK
  <2>2. List(q, sp[q].Earliest_Timer, sg, w)
    BY <2>1, ListNow
  <2>3. \A n \in DOMAIN w : w[n] \in Groups
    BY ListFacts
  <2>4. \A n \in DOMAIN w : n > 1 => w[n - 1] \in Groups
    BY <2>3, ListFacts, PolicyAssumption, FS_CardinalityType
  <2>5. List(q, sp'[q].Earliest_Timer, sg', w)
    BY <2>2, <2>3, <2>4, GroupsOfFacts DEF List
  <2>6. \A h \in GroupsOf(q) : Is_Group_In_Timer_List(q, h)' <=> Is_Group_In_Timer_List(q, h)
    BY GroupsOfFacts DEF Is_Group_In_Timer_List
  <2> QED
    BY <2>5, <2>6, ListNext
<1> QED
  BY <1>1 DEF TimerListOK

\* A step that changes the list of one partition.
LEMMA ListsOther ==
  ASSUME TimerListOK, NEW p \in Partitions, NEW v \in TimerLists,
         List(p, sp'[p].Earliest_Timer, sg', v),
         \A q \in Partitions \ {p} : sp'[q].Earliest_Timer = sp[q].Earliest_Timer,
         \A h \in Groups \ GroupsOf(p) : /\ sg'[h].Next_Timer = sg[h].Next_Timer
                                         /\ sg'[h].Prev_Timer = sg[h].Prev_Timer
                                         /\ sg'[h].Timeout = sg[h].Timeout
  PROVE  /\ TimerListOK'
         /\ \A q \in Partitions : \A h \in GroupsOf(q) :
              Is_Group_In_Timer_List(q, h)' <=>
                IF q = p THEN h \in ToSet(v) ELSE Is_Group_In_Timer_List(q, h)
<1>1. ASSUME NEW q \in Partitions
      PROVE  /\ \E w \in TimerLists : IsTimerList(q, w)'
             /\ \A h \in GroupsOf(q) :
                  Is_Group_In_Timer_List(q, h)' <=>
                    IF q = p THEN h \in ToSet(v) ELSE Is_Group_In_Timer_List(q, h)
  <2>1. CASE q = p
    BY <2>1, ListNext
  <2>2. CASE q # p
    <3>1. PICK w \in TimerLists : IsTimerList(q, w)
      BY DEF TimerListOK
    <3>2. List(q, sp[q].Earliest_Timer, sg, w)
      BY <3>1, ListNow
    <3>3. \A h \in GroupsOf(q) : h \in Groups \ GroupsOf(p)
      BY <2>2, GroupsOfFacts
    <3>4. \A n \in DOMAIN w : w[n] \in Groups \ GroupsOf(p)
      BY <3>2, <3>3 DEF List
    <3>5. \A n \in DOMAIN w : n > 1 => w[n - 1] \in Groups \ GroupsOf(p)
      BY <3>4, ListFacts, PolicyAssumption, FS_CardinalityType
    <3>6. List(q, sp'[q].Earliest_Timer, sg', w)
      BY <2>2, <3>2, <3>3, <3>4, <3>5 DEF List
    <3>7. \A h \in GroupsOf(q) : Is_Group_In_Timer_List(q, h)' <=> Is_Group_In_Timer_List(q, h)
      BY <2>2, <3>3 DEF Is_Group_In_Timer_List
    <3> QED
      BY <2>2, <3>6, <3>7, ListNext
  <2> QED
    BY <2>1, <2>2
<1> QED
  BY <1>1 DEF TimerListOK

PartitionType == [Active_Group_Index : Nat, Earliest_Timer : Groups \cup {NoGroup}, Sleeping : BOOLEAN]
GroupType == [Active_Subject : Subjects, Next_Timer : Groups \cup {NoGroup},
              Prev_Timer : Groups \cup {NoGroup}, Timeout : Time \cup {Never}]

\* A step on the lists keeps the types and the rest of the records.
OnlyLinks ==
  /\ sp' \in [Partitions -> PartitionType] /\ sg' \in [Groups -> GroupType]
  /\ \A q \in Partitions : /\ sp'[q].Active_Group_Index = sp[q].Active_Group_Index
                           /\ sp'[q].Sleeping = sp[q].Sleeping
  /\ \A h \in Groups : sg'[h].Active_Subject = sg[h].Active_Subject

\* Timeouts can be compared.
LEMMA TimesAreInts == Time \cup {Never} \subseteq Int /\ \A h \in Groups : TypeOK => sg[h].Timeout \in Int
<1>1. Time \cup {Never} \subseteq Int
  BY PolicyAssumption DEF Time, Never
<1> QED
  BY <1>1 DEF TypeOK

NoOrGroup == Groups \cup {NoGroup}

\* x is r with new links.
Relinked(x, r, next, prev) ==
  /\ x \in GroupType /\ x.Next_Timer = next /\ x.Prev_Timer = prev
  /\ x.Active_Subject = r.Active_Subject /\ x.Timeout = r.Timeout

\* SetLinks changes the two links of a record and nothing else.
LEMMA LinksSet ==
  \A r \in GroupType : \A next, prev \in NoOrGroup : Relinked(SetLinks(r, next, prev), r, next, prev)
<1> SUFFICES ASSUME NEW r \in GroupType, NEW next \in NoOrGroup, NEW prev \in NoOrGroup
             PROVE  Relinked(SetLinks(r, next, prev), r, next, prev)
  OBVIOUS
<1> DEFINE y == [r EXCEPT !.Next_Timer = next]
           x == [y EXCEPT !.Prev_Timer = prev]
<1>1. y \in GroupType /\ y.Next_Timer = next /\ y.Active_Subject = r.Active_Subject /\ y.Timeout = r.Timeout
  BY DEF GroupType, NoOrGroup
<1> HIDE DEF y
<1>2. /\ x \in GroupType /\ x.Next_Timer = y.Next_Timer /\ x.Prev_Timer = prev
      /\ x.Active_Subject = y.Active_Subject /\ x.Timeout = y.Timeout
  BY <1>1 DEF GroupType, NoOrGroup
<1> HIDE DEF x
<1>3. SetLinks(r, next, prev) = x
  BY Zenon DEF SetLinks, x, y
<1>4. Relinked(x, r, next, prev)
  BY <1>1, <1>2 DEF Relinked
<1> QED
  BY <1>3, <1>4, Zenon

\* Remove_Group_From_Timer_List takes one group out of its list and leaves the other
\* lists alone.
LEMMA RemoveStep ==
  ASSUME TypeOK, TimerListOK, NEW p \in Partitions, NEW g \in GroupsOf(p),
         Is_Group_In_Timer_List(p, g), SetLists(Remove_Group_From_Timer_List(p, g))
  PROVE  /\ OnlyLinks /\ TimerListOK'
         /\ \A q \in Partitions : \A h \in GroupsOf(q) :
              Is_Group_In_Timer_List(q, h)' <=> Is_Group_In_Timer_List(q, h) /\ h # g
<1>1. PICK w \in TimerLists : IsTimerList(p, w)
  BY DEF TimerListOK
<1>2. List(p, sp[p].Earliest_Timer, sg, w)
  BY <1>1, ListNow
<1>3. g \in ToSet(w)
  BY <1>1 DEF IsTimerList
<1>4. PICK m \in DOMAIN w : w[m] = g
  BY <1>3 DEF ToSet
<1> DEFINE prev == At(w, m - 1)
           next == At(w, m + 1)
<1>5. sg[g].Prev_Timer = prev /\ sg[g].Next_Timer = next
  BY <1>2, <1>4 DEF List
<1>6. /\ Len(w) \in Nat /\ DOMAIN w = 1 .. Len(w) /\ m \in Nat
      /\ \A n \in DOMAIN w : w[n] \in Groups /\ w[n] # NoGroup
      /\ g \in Groups /\ NoGroup \notin Groups
  BY ListFacts, PolicyAssumption, FS_CardinalityType, GroupsOfFacts
<1>7. /\ prev \in GroupsOf(p) \cup {NoGroup} /\ next \in GroupsOf(p) \cup {NoGroup}
      /\ prev # g /\ next # g /\ (prev = next => prev = NoGroup)
  BY <1>2, <1>4, <1>6 DEF List, At
<1>8. prev \in Groups \cup {NoGroup} /\ next \in Groups \cup {NoGroup}
  BY <1>7, GroupsOfFacts
<1> HIDE DEF prev, next
<1>9. /\ sp \in [Partitions -> PartitionType] /\ sg \in [Groups -> GroupType]
  BY DEF TypeOK, PartitionType, GroupType
<1>10. /\ sp' = [sp EXCEPT ![p].Earliest_Timer = IF prev = NoGroup THEN next ELSE @]
       /\ sg' = [h \in Groups |->
                   SetLinks(sg[h],
                     IF h = g THEN NoGroup ELSE IF h = prev THEN next ELSE sg[h].Next_Timer,
                     IF h = g THEN NoGroup ELSE IF h = next THEN prev ELSE sg[h].Prev_Timer)]
  BY <1>5 DEF SetLists, Remove_Group_From_Timer_List
<1>11. /\ sp' \in [Partitions -> PartitionType]
       /\ sp'[p].Earliest_Timer = IF prev = NoGroup THEN next ELSE sp[p].Earliest_Timer
       /\ \A q \in Partitions : /\ sp'[q].Active_Group_Index = sp[q].Active_Group_Index
                                /\ sp'[q].Sleeping = sp[q].Sleeping
                                /\ q # p => sp'[q].Earliest_Timer = sp[q].Earliest_Timer
  BY <1>8, <1>9, <1>10 DEF PartitionType
<1>12. ASSUME NEW h \in Groups
       PROVE  /\ sg'[h] \in GroupType
              /\ sg'[h].Active_Subject = sg[h].Active_Subject /\ sg'[h].Timeout = sg[h].Timeout
              /\ sg'[h].Next_Timer = IF h = g THEN NoGroup ELSE IF h = prev THEN next
                                     ELSE sg[h].Next_Timer
              /\ sg'[h].Prev_Timer = IF h = g THEN NoGroup ELSE IF h = next THEN prev
                                     ELSE sg[h].Prev_Timer
  <2> DEFINE nx == IF h = g THEN NoGroup ELSE IF h = prev THEN next ELSE sg[h].Next_Timer
             pv == IF h = g THEN NoGroup ELSE IF h = next THEN prev ELSE sg[h].Prev_Timer
  <2>1. sg[h] \in GroupType /\ sg'[h] = SetLinks(sg[h], nx, pv)
    BY <1>9, <1>10
  <2>2. nx \in NoOrGroup /\ pv \in NoOrGroup
    BY <1>8, <2>1 DEF GroupType, NoOrGroup
  <2> HIDE DEF nx, pv
  <2>3. Relinked(sg'[h], sg[h], nx, pv)
    BY <2>1, <2>2, LinksSet, Zenon
  <2> QED
    BY <2>3 DEF Relinked, nx, pv
<1>13. OnlyLinks
  <2>1. sg' \in [Groups -> GroupType]
    BY <1>10, <1>12
  <2> QED
    BY <1>11, <1>12, <2>1 DEF OnlyLinks
<1>14. \E v \in TimerLists : /\ List(p, sp'[p].Earliest_Timer, sg', v)
                             /\ ToSet(v) = ToSet(w) \ {w[m]}
  <2>1. \A h \in Groups : sg[h].Timeout \in Int
    BY TimesAreInts
  <2>2. sp'[p].Earliest_Timer = IF At(w, m - 1) = NoGroup THEN At(w, m + 1) ELSE sp[p].Earliest_Timer
    BY <1>11 DEF prev, next
  <2>3. \A h \in Groups :
          /\ sg'[h].Timeout = sg[h].Timeout
          /\ sg'[h].Next_Timer = IF h = w[m] THEN NoGroup
                                ELSE IF h = At(w, m - 1) THEN At(w, m + 1) ELSE sg[h].Next_Timer
          /\ sg'[h].Prev_Timer = IF h = w[m] THEN NoGroup
                                ELSE IF h = At(w, m + 1) THEN At(w, m - 1) ELSE sg[h].Prev_Timer
    BY <1>4, <1>12 DEF prev, next
  <2> QED
    BY <1>2, <2>1, <2>2, <2>3, ListRemove
<1>15. PICK v \in TimerLists : /\ List(p, sp'[p].Earliest_Timer, sg', v)
                               /\ ToSet(v) = ToSet(w) \ {g}
  BY <1>4, <1>14
<1>16. \A h \in Groups \ GroupsOf(p) : /\ sg'[h].Next_Timer = sg[h].Next_Timer
                                       /\ sg'[h].Prev_Timer = sg[h].Prev_Timer
                                       /\ sg'[h].Timeout = sg[h].Timeout
  BY <1>6, <1>7, <1>12
<1>17. /\ TimerListOK'
       /\ \A q \in Partitions : \A h \in GroupsOf(q) :
            Is_Group_In_Timer_List(q, h)' <=>
              IF q = p THEN h \in ToSet(v) ELSE Is_Group_In_Timer_List(q, h)
  BY <1>11, <1>15, <1>16, ListsOther
<1>18. \A h \in GroupsOf(p) : h \in ToSet(w) <=> Is_Group_In_Timer_List(p, h)
  BY <1>1 DEF IsTimerList
<1>19. \A q \in Partitions : q # p => g \notin GroupsOf(q)
  BY GroupsOfFacts
<1> QED
  BY <1>13, <1>15, <1>17, <1>18, <1>19

\* The insertion of Deactivate_Group adds one group to its list and leaves the other
\* lists alone.
LEMMA InsertStep ==
  ASSUME TypeOK, TimerListOK, NEW p \in Partitions, NEW g \in GroupsOf(p),
         ~Is_Group_In_Timer_List(p, g), NEW d \in Time \cup {Never}, SetLists(Insert(p, g, d))
  PROVE  /\ OnlyLinks /\ TimerListOK'
         /\ \A q \in Partitions : \A h \in GroupsOf(q) :
              Is_Group_In_Timer_List(q, h)' <=> Is_Group_In_Timer_List(q, h) \/ h = g
<1> DEFINE w == TimerList(p)
           gs == {h \in Groups : d < sg[h].Timeout}
           m == FirstAt(w, gs)
           prev == At(w, m - 1)
           next == At(w, m)
<1>1. w \in TimerLists /\ IsTimerList(p, w)
  BY TheList
<1>2. List(p, sp[p].Earliest_Timer, sg, w)
  BY <1>1, ListNow
<1>3. g \notin ToSet(w)
  BY <1>1 DEF IsTimerList
<1>4. /\ m \in 1 .. Len(w) + 1
      /\ m <= Len(w) => w[m] \in gs
      /\ \A j \in 1 .. m - 1 : j \in DOMAIN w /\ w[j] \notin gs
  BY <1>1, FirstFacts
<1>5. /\ sp' = [sp EXCEPT ![p].Earliest_Timer = IF prev = NoGroup THEN g ELSE @]
      /\ sg' = [h \in Groups |->
                  SetLinks([sg[h] EXCEPT !.Timeout = IF h = g THEN d ELSE @],
                    IF h = g THEN next ELSE IF h = prev THEN g ELSE sg[h].Next_Timer,
                    IF h = g THEN prev ELSE IF h = next THEN g ELSE sg[h].Prev_Timer)]
  BY DEF SetLists, Insert, Insert_Between
<1>a. \A h \in Groups : h \notin gs => ~(d < sg[h].Timeout)
  OBVIOUS
<1>b. \A h \in gs : d < sg[h].Timeout
  OBVIOUS
<1> HIDE DEF w, m, gs
<1>6. /\ Len(w) \in Nat /\ DOMAIN w = 1 .. Len(w) /\ m \in Nat
      /\ \A n \in DOMAIN w : w[n] \in Groups /\ w[n] # NoGroup
      /\ g \in Groups /\ NoGroup \notin Groups
  BY <1>1, <1>4, ListFacts, PolicyAssumption, FS_CardinalityType, GroupsOfFacts
<1>7. prev \in GroupsOf(p) \cup {NoGroup} /\ next \in GroupsOf(p) \cup {NoGroup}
  BY <1>2 DEF List, At
<1>8. prev \in Groups \cup {NoGroup} /\ next \in Groups \cup {NoGroup}
  BY <1>7, GroupsOfFacts
<1> HIDE DEF prev, next
<1>9. /\ sp \in [Partitions -> PartitionType] /\ sg \in [Groups -> GroupType]
  BY DEF TypeOK, PartitionType, GroupType
<1>10. d \in Int /\ \A h \in Groups : sg[h].Timeout \in Int
  BY TimesAreInts
<1>11. /\ sp' \in [Partitions -> PartitionType]
       /\ sp'[p].Earliest_Timer = IF prev = NoGroup THEN g ELSE sp[p].Earliest_Timer
       /\ \A q \in Partitions : /\ sp'[q].Active_Group_Index = sp[q].Active_Group_Index
                                /\ sp'[q].Sleeping = sp[q].Sleeping
                                /\ q # p => sp'[q].Earliest_Timer = sp[q].Earliest_Timer
  BY <1>5, <1>6, <1>9 DEF PartitionType
<1>12. ASSUME NEW h \in Groups
       PROVE  /\ sg'[h] \in GroupType
              /\ sg'[h].Active_Subject = sg[h].Active_Subject
              /\ sg'[h].Timeout = IF h = g THEN d ELSE sg[h].Timeout
              /\ sg'[h].Next_Timer = IF h = g THEN next ELSE IF h = prev THEN g
                                     ELSE sg[h].Next_Timer
              /\ sg'[h].Prev_Timer = IF h = g THEN prev ELSE IF h = next THEN g
                                     ELSE sg[h].Prev_Timer
  <2> DEFINE r == [sg[h] EXCEPT !.Timeout = IF h = g THEN d ELSE @]
             nx == IF h = g THEN next ELSE IF h = prev THEN g ELSE sg[h].Next_Timer
             pv == IF h = g THEN prev ELSE IF h = next THEN g ELSE sg[h].Prev_Timer
  <2>1. sg[h] \in GroupType /\ sg'[h] = SetLinks(r, nx, pv)
    BY <1>5, <1>9
  <2>2. nx \in NoOrGroup /\ pv \in NoOrGroup
    BY <1>6, <1>8, <2>1 DEF GroupType, NoOrGroup
  <2>3. /\ r \in GroupType /\ r.Timeout = IF h = g THEN d ELSE sg[h].Timeout
        /\ r.Active_Subject = sg[h].Active_Subject
    BY <2>1 DEF GroupType
  <2> HIDE DEF nx, pv, r
  <2>4. Relinked(sg'[h], r, nx, pv)
    BY <2>1, <2>2, <2>3, LinksSet, Zenon
  <2> QED
    BY <2>3, <2>4 DEF Relinked, nx, pv
<1>13. OnlyLinks
  <2>1. sg' \in [Groups -> GroupType]
    BY <1>5, <1>12
  <2> QED
    BY <1>11, <1>12, <2>1 DEF OnlyLinks
<1>14. PICK v \in TimerLists : List(p, sp'[p].Earliest_Timer, sg', v) /\ ToSet(v) = ToSet(w) \cup {g}
  <2>1. m <= Len(w) => d <= sg[w[m]].Timeout
    <3>1. ASSUME m <= Len(w) PROVE d <= sg[w[m]].Timeout
      <4>1. w[m] \in gs /\ w[m] \in Groups
        BY <1>4, <1>6, <3>1
      <4> QED
        BY <1>10, <1>b, <4>1
    <3> QED
      BY <3>1
  <2>2. m > 1 => sg[w[m - 1]].Timeout <= d
    <3>1. ASSUME m > 1 PROVE sg[w[m - 1]].Timeout <= d
      <4>1. m - 1 \in 1 .. m - 1
        BY <1>6, <3>1
      <4>2. w[m - 1] \notin gs /\ w[m - 1] \in Groups
        BY <1>4, <1>6, <4>1
      <4> QED
        BY <1>10, <1>a, <4>2
    <3> QED
      BY <3>1
  <2>3. sp'[p].Earliest_Timer = IF At(w, m - 1) = NoGroup THEN g ELSE sp[p].Earliest_Timer
    BY <1>11 DEF prev
  <2>4. \A h \in Groups :
          /\ sg'[h].Timeout = IF h = g THEN d ELSE sg[h].Timeout
          /\ sg'[h].Next_Timer = IF h = g THEN At(w, m)
                                 ELSE IF h = At(w, m - 1) THEN g ELSE sg[h].Next_Timer
          /\ sg'[h].Prev_Timer = IF h = g THEN At(w, m - 1)
                                 ELSE IF h = At(w, m) THEN g ELSE sg[h].Prev_Timer
    BY <1>12 DEF prev, next
  <2> QED
    <3>1. IsPlace(sg, w, d, m)
      BY <1>4, <1>10, <2>1, <2>2 DEF IsPlace
    <3>2. Timeouts(sg)
      BY <1>10 DEF Timeouts
    <3>3. IsInserted(sg, sg', w, g, d, m)
      BY <2>4 DEF IsInserted
    <3>4. \E v \in TimerLists : IsList(p, sp'[p].Earliest_Timer, sg', v, ToSet(w) \cup {g})
      BY <1>1, <1>2, <1>3, <2>3, <3>1, <3>2, <3>3, ListInsert
    <3> QED
      BY <3>4 DEF IsList
<1>16. \A h \in Groups \ GroupsOf(p) : /\ sg'[h].Next_Timer = sg[h].Next_Timer
                                       /\ sg'[h].Prev_Timer = sg[h].Prev_Timer
                                       /\ sg'[h].Timeout = sg[h].Timeout
  BY <1>6, <1>7, <1>12
<1>17. /\ TimerListOK'
       /\ \A q \in Partitions : \A h \in GroupsOf(q) :
            Is_Group_In_Timer_List(q, h)' <=>
              IF q = p THEN h \in ToSet(v) ELSE Is_Group_In_Timer_List(q, h)
  BY <1>11, <1>14, <1>16, ListsOther
<1>18. \A h \in GroupsOf(p) : h \in ToSet(w) <=> Is_Group_In_Timer_List(p, h)
  BY <1>1 DEF IsTimerList
<1>19. \A q \in Partitions : q # p => g \notin GroupsOf(q)
  BY GroupsOfFacts
<1> QED
  BY <1>13, <1>14, <1>17, <1>18, <1>19

\* Update_Timer_List takes off the groups whose time has come and indicates them.
LEMMA UpdateStep ==
  ASSUME TypeOK, TimerListOK, part \in Partitions, Update_Timer_List
  PROVE  /\ OnlyLinks /\ TimerListOK'
         /\ \A q \in Partitions : bits[q] \subseteq bits'[q] /\ bits'[q] \in SUBSET Indices(q)
         /\ bits' \in [Partitions -> SUBSET Nat]
         /\ \A q \in Partitions : \A h \in GroupsOf(q) :
              Is_Group_In_Timer_List(q, h) =>
                Is_Group_In_Timer_List(q, h)' \/ IndexOf(h) \in bits'[q]
<1> DEFINE p == part
           w == TimerList(p)
           m == FirstAt(w, {g \in Groups : sg[g].Timeout > now})
           E == {w[i] : i \in 1 .. m - 1}
<1>1. w \in TimerLists /\ IsTimerList(p, w)
  BY TheList
<1>2. List(p, sp[p].Earliest_Timer, sg, w)
  BY <1>1, ListNow
<1>3. m \in 1 .. Len(w) + 1 /\ \A j \in 1 .. m - 1 : j \in DOMAIN w
  BY <1>1, FirstFacts
<1>4. /\ sp' = [sp EXCEPT ![p].Earliest_Timer = At(w, m)]
      /\ sg' = [h \in Groups |->
                  SetLinks(sg[h],
                    IF h \in E THEN NoGroup ELSE sg[h].Next_Timer,
                    IF h \in E \cup {At(w, m)} THEN NoGroup ELSE sg[h].Prev_Timer)]
      /\ bits' = [bits EXCEPT ![p] = @ \cup {IndexOf(h) : h \in E}]
  BY DEF Update_Timer_List
<1>5. \A h \in E : h \in ToSet(w)
  BY <1>3 DEF ToSet
<1> HIDE DEF w, m
<1>6. ToSet(w) \subseteq GroupsOf(p)
  BY <1>2 DEF List, ToSet
<1>7. At(w, m) \in GroupsOf(p) \cup {NoGroup}
  BY <1>2 DEF List, At
<1>8. E \subseteq GroupsOf(p) /\ GroupsOf(p) \subseteq Groups /\ At(w, m) \in Groups \cup {NoGroup}
      /\ NoGroup \notin Groups
  BY <1>5, <1>6, <1>7, GroupsOfFacts
<1>9. /\ sp \in [Partitions -> PartitionType] /\ sg \in [Groups -> GroupType]
      /\ bits \in [Partitions -> SUBSET Nat] /\ \A q \in Partitions : bits[q] \subseteq Indices(q)
  BY DEF TypeOK, PartitionType, GroupType
<1>10. E = {w[i] : i \in 1 .. m - 1}
  OBVIOUS
<1> HIDE DEF E
<1>11. /\ sp' \in [Partitions -> PartitionType]
       /\ sp'[p].Earliest_Timer = At(w, m)
       /\ \A q \in Partitions : /\ sp'[q].Active_Group_Index = sp[q].Active_Group_Index
                                /\ sp'[q].Sleeping = sp[q].Sleeping
                                /\ q # p => sp'[q].Earliest_Timer = sp[q].Earliest_Timer
  BY <1>4, <1>8, <1>9 DEF PartitionType
<1>12. ASSUME NEW h \in Groups
       PROVE  /\ sg'[h] \in GroupType
              /\ sg'[h].Active_Subject = sg[h].Active_Subject
              /\ sg'[h].Timeout = sg[h].Timeout
              /\ sg'[h].Next_Timer = IF h \in E THEN NoGroup ELSE sg[h].Next_Timer
              /\ sg'[h].Prev_Timer = IF h \in E \/ h = At(w, m) THEN NoGroup ELSE sg[h].Prev_Timer
  <2> DEFINE nx == IF h \in E THEN NoGroup ELSE sg[h].Next_Timer
             pv == IF h \in E \cup {At(w, m)} THEN NoGroup ELSE sg[h].Prev_Timer
  <2>1. sg[h] \in GroupType /\ sg'[h] = SetLinks(sg[h], nx, pv)
    BY <1>4, <1>9
  <2>2. nx \in NoOrGroup /\ pv \in NoOrGroup
    BY <2>1 DEF GroupType, NoOrGroup
  <2> HIDE DEF nx, pv
  <2>3. Relinked(sg'[h], sg[h], nx, pv)
    BY <2>1, <2>2, LinksSet, Zenon
  <2> QED
    BY <2>3 DEF Relinked, nx, pv
<1>13. OnlyLinks
  <2>1. sg' \in [Groups -> GroupType]
    BY <1>4, <1>12
  <2> QED
    BY <1>11, <1>12, <2>1 DEF OnlyLinks
<1>14. PICK v \in TimerLists : List(p, sp'[p].Earliest_Timer, sg', v) /\ ToSet(v) = ToSet(w) \ E
  <2>1. w \in TimerLists /\ m \in 1 .. Len(w) + 1 /\ p \in Partitions
    BY <1>1, <1>3
  <2>2. sp'[p].Earliest_Timer = At(w, m)
    BY <1>11
  <2>3. \A h \in Groups :
          /\ sg'[h].Timeout = sg[h].Timeout
          /\ sg'[h].Next_Timer = IF h \in E THEN NoGroup ELSE sg[h].Next_Timer
          /\ sg'[h].Prev_Timer = IF h \in E \/ h = At(w, m) THEN NoGroup ELSE sg[h].Prev_Timer
    BY <1>12
  <2> QED
    <3>1. IsCut(sg, sg', w, E, m)
      BY <1>10, <2>1, <2>3 DEF IsCut
    <3>2. \E v \in TimerLists : IsList(p, sp'[p].Earliest_Timer, sg', v, ToSet(w) \ E)
      BY <1>2, <2>1, <2>2, <3>1, ListSuffix
    <3> QED
      BY <3>2 DEF IsList
<1>15. \A h \in Groups \ GroupsOf(p) : /\ sg'[h].Next_Timer = sg[h].Next_Timer
                                       /\ sg'[h].Prev_Timer = sg[h].Prev_Timer
                                       /\ sg'[h].Timeout = sg[h].Timeout
  BY <1>7, <1>8, <1>12
<1>16. /\ TimerListOK'
       /\ \A q \in Partitions : \A h \in GroupsOf(q) :
            Is_Group_In_Timer_List(q, h)' <=>
              IF q = p THEN h \in ToSet(v) ELSE Is_Group_In_Timer_List(q, h)
  BY <1>11, <1>14, <1>15, ListsOther
<1>17. \A h \in GroupsOf(p) : h \in ToSet(w) <=> Is_Group_In_Timer_List(p, h)
  BY <1>1 DEF IsTimerList
<1>18. \A h \in E : IndexOf(h) \in Indices(p) /\ IndexOf(h) \in Nat
  BY <1>8, GroupsOfFacts, PolicyFacts
<1>19. /\ bits' \in [Partitions -> SUBSET Nat]
       /\ \A q \in Partitions : bits[q] \subseteq bits'[q] /\ bits'[q] \in SUBSET Indices(q)
       /\ \A h \in E : IndexOf(h) \in bits'[p]
  BY <1>4, <1>9, <1>18
<1> QED
  BY <1>13, <1>14, <1>16, <1>17, <1>19

-----------------------------------------------------------------------------
(* Where the subjects are *)

\* Where the current subject and the active subjects of the groups are.
LEMMA CurrentFacts ==
  ASSUME TypeOK
  PROVE  /\ part \in Partitions /\ sp[part].Active_Group_Index \in Indices(part)
         /\ Current_Scheduling_Group_ID \in GroupsOf(part) /\ Current_Scheduling_Group_ID \in Groups
         /\ Current \in Subjects /\ GroupOf[Current] = Current_Scheduling_Group_ID
         /\ PartitionOf(Current_Scheduling_Group_ID) = part
         /\ IndexOf(Current_Scheduling_Group_ID) = sp[part].Active_Group_Index
         /\ \A p \in Partitions : \A i \in Indices(p) :
              /\ GroupAt(p, i) \in Groups /\ GroupAt(p, i) \in GroupsOf(p)
              /\ ActiveSubject(p, i) \in Subjects /\ GroupOf[ActiveSubject(p, i)] = GroupAt(p, i)
<1>1. part \in Partitions /\ sp[part].Active_Group_Index \in Indices(part)
  BY DEF TypeOK
<1>2. \A g \in Groups : sg[g].Active_Subject \in Subjects /\ GroupOf[sg[g].Active_Subject] = g
  BY DEF TypeOK
<1>3. \A p \in Partitions : \A i \in Indices(p) : GroupAt(p, i) \in Groups /\ GroupAt(p, i) \in GroupsOf(p)
  BY PolicyFacts, GroupsOfFacts
<1>4. /\ PartitionOf(Current_Scheduling_Group_ID) = part
      /\ IndexOf(Current_Scheduling_Group_ID) = sp[part].Active_Group_Index
  BY <1>1, PolicyFacts DEF Current_Scheduling_Group_ID
<1> QED
  BY <1>1, <1>2, <1>3, <1>4 DEF Current_Scheduling_Group_ID, Current, ActiveSubject

LocalsType(p) ==
  [op : {"update", "reschedule"}, idx : Indices(p), ev : SourceEvent,
   sub : Subjects \cup {NoSubject}, ret : {"pending", "clear"}, handled : 0 .. Cardinality(EventIDs)]

\* The bound on the iterations of Handle_Pending_Target_Event.
LEMMA EventCount == Cardinality(EventIDs) = 3
<1>1. Cardinality(EventIDs) = IF 1 > 3 THEN 0 ELSE 3 - 1 + 1
  <2>1. 1 \in Int /\ 3 \in Int
    OBVIOUS
  <2> QED
    BY <2>1, FS_Interval, Zenon DEF EventIDs
<1> QED
  BY <1>1

\* The locals a handler starts with.
LEMMA LocalsFacts ==
  ASSUME NEW p \in Partitions, NEW op \in {"update", "reschedule"}, NEW sub \in Subjects \cup {NoSubject},
         NEW ev \in SourceEvent, NEW ret \in {"pending", "clear"}
  PROVE  /\ Locals(op, sub, ev, ret) \in LocalsType(p)
         /\ Locals(op, sub, ev, ret).op = op /\ Locals(op, sub, ev, ret).sub = sub
         /\ Locals(op, sub, ev, ret).ev = ev /\ Locals(op, sub, ev, ret).ret = ret
         /\ Locals(op, sub, ev, ret).idx = 1 /\ Locals(op, sub, ev, ret).handled = 0
<1>1. 1 \in Indices(p)
  BY PolicyFacts
<1>2. 0 \in 0 .. Cardinality(EventIDs)
  BY EventCount
<1> QED
  BY <1>1, <1>2 DEF Locals, LocalsType

\* The empty event and the empty locals.
LEMMA NullFacts ==
  /\ NullSource \in SourceEvent /\ NullSource.action = "none" /\ NullSource.target = NoSubject
  /\ NullSource.event = NoEvent /\ NullSource.handover = FALSE
  /\ \A p \in Partitions : NullLocals \in LocalsType(p)
  /\ NullLocals.op = "update" /\ NullLocals.idx = 1 /\ NullLocals.sub = NoSubject
  /\ NullLocals.ev = NullSource /\ NullLocals.ret = "pending" /\ NullLocals.handled = 0
<1>1. /\ NullSource \in SourceEvent /\ NullSource.action = "none" /\ NullSource.target = NoSubject
      /\ NullSource.event = NoEvent /\ NullSource.handover = FALSE
  BY DEF NullSource, SourceEvent, NoEvent
<1>2. \A p \in Partitions : NullLocals \in LocalsType(p)
  BY <1>1, LocalsFacts DEF NullLocals
<1>3. /\ NullLocals.op = "update" /\ NullLocals.idx = 1 /\ NullLocals.sub = NoSubject
      /\ NullLocals.ev = NullSource /\ NullLocals.ret = "pending" /\ NullLocals.handled = 0
  BY DEF NullLocals, Locals
<1> QED
  BY <1>1, <1>2, <1>3

\* Steps that only add indicators and leave the links alone.
LEMMA ListsKept ==
  ASSUME ListInv,
         \A q \in Partitions : sp'[q].Earliest_Timer = sp[q].Earliest_Timer,
         \A h \in Groups : /\ sg'[h].Next_Timer = sg[h].Next_Timer
                           /\ sg'[h].Prev_Timer = sg[h].Prev_Timer
                           /\ sg'[h].Timeout = sg[h].Timeout,
         \A q \in Partitions : bits[q] \subseteq bits'[q],
         \A h \in Groups : Deactivating(h)' => Deactivating(h)
  PROVE  TimerListOK' /\ InactiveHasTimer'
<1>1. /\ TimerListOK'
      /\ \A q \in Partitions : \A h \in GroupsOf(q) :
           Is_Group_In_Timer_List(q, h)' <=> Is_Group_In_Timer_List(q, h)
  BY ListsSame DEF ListInv
<1>2. \A q \in Partitions : \A i \in Indices(q) :
        /\ GroupAt(q, i) \in GroupsOf(q) /\ GroupAt(q, i) \in Groups
        /\ i \notin bits'[q] => i \notin bits[q]
  BY CurrentFacts DEF ListInv
<1> QED
  BY <1>1, <1>2 DEF ListInv, InactiveHasTimer

-----------------------------------------------------------------------------
(* ListInv: one lemma per action *)

\* The time stamp counter advances.
LEMMA TickList == ASSUME ListInv, Tick PROVE ListInv'
<1> USE DEF ListInv, Tick
<1>1. now \in Nat /\ MaxTime \in Nat /\ now' \in Time
  BY PolicyAssumption DEF TypeOK, Time
<1>2. TypeOK'
  BY <1>1 DEF TypeOK, lists, subjects
<1>3. LocalsOK'
  BY DEF LocalsOK, lists, subjects, Current, Current_Scheduling_Group_ID, GroupAt
<1>4. TimerListOK' /\ InactiveHasTimer'
  BY ListsKept DEF Deactivating, lists, GroupAt
<1> QED
  BY <1>2, <1>3, <1>4

\* The guest writes its timed event page.
LEMMA SetTimedList == ASSUME ListInv, Set_Timed_Event PROVE ListInv'
<1> USE DEF ListInv, Set_Timed_Event
<1>1. PICK t \in Time, e \in SourceEvents[Current] \cup {NullSource} :
        timed' = [timed EXCEPT ![Current] = [trigger |-> t, event |-> e]]
  OBVIOUS
<1>2. Current \in Subjects
  BY CurrentFacts
<1>3. e \in SourceEvent
  BY <1>2, NullFacts, PolicyAssumption
<1>4. timed' \in [Subjects -> [trigger : Time \cup {Never}, event : SourceEvent]]
  BY <1>1, <1>2, <1>3 DEF TypeOK
<1>5. TypeOK'
  BY <1>4 DEF TypeOK, lists
<1>6. \A s \in Subjects : timed'[s].event \in {NullSource} \cup SourceEvents[s]
  BY <1>1, <1>2 DEF TypeOK, LocalsOK
<1>7. LocalsOK'
  <2>1. Current' = Current /\ UNCHANGED <<pc, k, part, bits>>
    BY DEF lists, Current, Current_Scheduling_Group_ID, GroupAt
  <2> QED
    BY <1>6, <2>1 DEF LocalsOK
<1>8. TimerListOK' /\ InactiveHasTimer'
  BY ListsKept DEF Deactivating, lists, GroupAt
<1> QED
  BY <1>5, <1>7, <1>8

\* The other CPU posts an event ...
LEMMA RemoteSetList == ASSUME ListInv, Remote_Set_Event_Pending PROVE ListInv'
<1> USE DEF ListInv, Remote_Set_Event_Pending
<1>1. PICK r \in RemoteEvents : /\ events' = [events EXCEPT ![r.target] = @ \cup {r.event}]
                                /\ remote' = [step |-> "indicate", ev |-> r]
  OBVIOUS
<1>2. r.target \in Subjects /\ r.event \in EventIDs
  BY PolicyAssumption DEF RemoteEvent
<1>3. events' \in [Subjects -> SUBSET EventIDs] /\ remote' \in [step : {"indicate", "ipi"}, ev : RemoteEvents]
  BY <1>1, <1>2 DEF TypeOK
<1>4. TypeOK'
  BY <1>3 DEF TypeOK, lists
<1>5. LocalsOK'
  BY DEF LocalsOK, lists, Current, Current_Scheduling_Group_ID, GroupAt
<1>6. TimerListOK' /\ InactiveHasTimer'
  BY ListsKept DEF Deactivating, lists, GroupAt
<1> QED
  BY <1>4, <1>5, <1>6

\* Indicating a subject only adds a bit, and the bit is in the right partition.
LEMMA IndicatedFacts ==
  ASSUME TypeOK, NEW s \in Subjects
  PROVE  /\ Indicated(s) \in [Partitions -> SUBSET Nat]
         /\ \A q \in Partitions : bits[q] \subseteq Indicated(s)[q] /\ Indicated(s)[q] \subseteq Indices(q)
         /\ IndexOf(GroupOf[s]) \in Indicated(s)[PartitionOf(GroupOf[s])]
<1>1. GroupOf[s] \in Groups
  BY PolicyAssumption
<1>2. /\ PartitionOf(GroupOf[s]) \in Partitions /\ IndexOf(GroupOf[s]) \in Indices(PartitionOf(GroupOf[s]))
      /\ IndexOf(GroupOf[s]) \in Nat
  BY <1>1, PolicyFacts
<1>3. bits \in [Partitions -> SUBSET Nat] /\ \A q \in Partitions : bits[q] \subseteq Indices(q)
  BY DEF TypeOK
<1> QED
  BY <1>2, <1>3 DEF Indicated

\* ... to a subject of this CPU ...
LEMMA RemoteTarget ==
  ASSUME TypeOK, remote.step \in {"indicate", "ipi"}
  PROVE  /\ remote \in [step : {"indicate", "ipi"}, ev : RemoteEvents]
         /\ remote.ev \in RemoteEvents /\ remote.ev.target \in Subjects /\ GroupOf[remote.ev.target] \in Groups
<1>1. remote # Idle
  BY DEF Idle
<1>2. remote \in [step : {"indicate", "ipi"}, ev : RemoteEvents]
  BY <1>1 DEF TypeOK
<1>3. remote.ev \in RemoteEvents
  BY <1>2
<1>4. remote.ev.target \in Subjects
  BY <1>3, PolicyAssumption DEF RemoteEvent
<1> QED
  BY <1>2, <1>3, <1>4, PolicyAssumption

\* ... sets the indicator ...
LEMMA RemoteIndicateList == ASSUME ListInv, Remote_Indicate_Activity PROVE ListInv'
<1> USE DEF ListInv, Remote_Indicate_Activity
<1>1. remote \in [step : {"indicate", "ipi"}, ev : RemoteEvents] /\ remote.ev.target \in Subjects
  BY RemoteTarget
<1>2. /\ bits' \in [Partitions -> SUBSET Nat]
      /\ \A q \in Partitions : bits[q] \subseteq bits'[q] /\ bits'[q] \subseteq Indices(q)
  BY <1>1, IndicatedFacts
<1>3. remote' \in {Idle} \cup [step : {"indicate", "ipi"}, ev : RemoteEvents]
  BY <1>1
<1>4. TypeOK'
  BY <1>2, <1>3 DEF TypeOK, lists, subjects
<1>5. LocalsOK'
  BY <1>2 DEF TypeOK, LocalsOK, lists, subjects, Current, Current_Scheduling_Group_ID, GroupAt
<1>6. TimerListOK' /\ InactiveHasTimer'
  BY <1>2, ListsKept DEF Deactivating, lists, GroupAt
<1> QED
  BY <1>4, <1>5, <1>6

\* ... and sends the IPI.
LEMMA RemoteSendList == ASSUME ListInv, Remote_Send_IPI PROVE ListInv'
<1> USE DEF ListInv, Remote_Send_IPI
<1>1. TypeOK'
  BY DEF TypeOK, lists, subjects
<1>2. LocalsOK'
  BY DEF LocalsOK, lists, subjects, Current, Current_Scheduling_Group_ID, GroupAt
<1>3. TimerListOK' /\ InactiveHasTimer'
  BY ListsKept DEF Deactivating, lists, GroupAt
<1> QED
  BY <1>1, <1>2, <1>3

\* Indicate_Activity on this CPU, too, only adds a bit.
LEMMA SameCPUFacts ==
  ASSUME TypeOK, NEW s \in Subjects, Indicate_Activity_Same_CPU(s)
  PROVE  /\ bits' \in [Partitions -> SUBSET Nat]
         /\ \A q \in Partitions : bits[q] \subseteq bits'[q] /\ bits'[q] \subseteq Indices(q)
         /\ IsActiveSubject(s) => IndexOf(GroupOf[s]) \in bits'[PartitionOf(GroupOf[s])]
<1>1. bits \in [Partitions -> SUBSET Nat] /\ \A q \in Partitions : bits[q] \subseteq Indices(q)
  BY DEF TypeOK
<1>2. CASE IsActiveSubject(s)
  <2>1. bits' = Indicated(s)
    BY <1>2 DEF Indicate_Activity_Same_CPU, IsActiveSubject
  <2> QED
    BY <2>1, IndicatedFacts
<1>3. CASE ~IsActiveSubject(s)
  BY <1>1, <1>3 DEF Indicate_Activity_Same_CPU, IsActiveSubject
<1> QED
  BY <1>2, <1>3

\* A device interrupt.
LEMMA IrqList == ASSUME ListInv, Handle_Irq PROVE ListInv'
<1> USE DEF ListInv, Handle_Irq, Goto
<1>1. PICK s \in IrqSubjects : intr' = [intr EXCEPT ![s] = TRUE] /\ Indicate_Activity_Same_CPU(s)
  OBVIOUS
<1>2. s \in Subjects
  BY PolicyAssumption
<1>3. /\ bits' \in [Partitions -> SUBSET Nat]
      /\ \A q \in Partitions : bits[q] \subseteq bits'[q] /\ bits'[q] \subseteq Indices(q)
  BY <1>1, <1>2, SameCPUFacts
<1>4. intr' \in [Subjects -> BOOLEAN] /\ pc' \in PC
  BY <1>1, <1>2 DEF TypeOK, PC
<1>5. TypeOK'
  BY <1>3, <1>4 DEF TypeOK, lists
<1>6. LocalsOK'
  BY <1>3 DEF TypeOK, LocalsOK, lists, Current, Current_Scheduling_Group_ID, GroupAt, Searching
<1>7. TimerListOK' /\ InactiveHasTimer'
  BY <1>3, ListsKept DEF Deactivating, lists
<1> QED
  BY <1>5, <1>6, <1>7

\* Exits that lead straight to the pending events.
LEMMA InterruptList == ASSUME ListInv, Handle_IPI \/ Interrupt_Window PROVE ListInv'
<1> USE DEF ListInv, Handle_IPI, Interrupt_Window, Goto
<1>1. TypeOK'
  BY DEF TypeOK, PC, lists, subjects
<1>2. LocalsOK'
  BY DEF TypeOK, LocalsOK, lists, subjects, Current, Current_Scheduling_Group_ID, GroupAt, Searching
<1>3. TimerListOK' /\ InactiveHasTimer'
  BY ListsKept DEF Deactivating, lists
<1> QED
  BY <1>1, <1>2, <1>3

\* The end of a minor frame, which may select another partition.
LEMMA ExpiryList == ASSUME ListInv, NEW p \in Partitions, Handle_Timer_Expiry(p) PROVE ListInv'
<1> USE DEF ListInv, Handle_Timer_Expiry, Goto
<1>1. k = NullLocals
  BY DEF LocalsOK
<1>2. k' \in LocalsType(p)
  BY <1>1, NullFacts
<1>3. TypeOK'
  BY <1>2 DEF TypeOK, PC, lists, subjects, LocalsType
<1>4. LocalsOK'
  BY DEF TypeOK, LocalsOK, lists, subjects, Searching
<1>5. TimerListOK' /\ InactiveHasTimer'
  BY ListsKept DEF Deactivating, lists
<1> QED
  BY <1>3, <1>4, <1>5

\* A hypercall or a trap.
LEMMA SourceExitList == ASSUME ListInv, Handle_Hypercall \/ Handle_Trap PROVE ListInv'
<1> USE DEF ListInv
<1>1. Current \in Subjects /\ part \in Partitions
  BY CurrentFacts
<1>2. PICK e \in {NullSource} \cup SourceEvents[Current] \cup TrapEvents[Current] :
        k' = Locals("reschedule", Current, e, "pending")
  BY DEF Handle_Hypercall, Handle_Trap, Source_Event_Exit
<1>3. pc' = "source" /\ UNCHANGED <<now, part, lists, bits, subjects, remote, ipi, late>>
  BY DEF Handle_Hypercall, Handle_Trap, Source_Event_Exit
<1>4. e \in SourceEvent
  BY <1>1, NullFacts, PolicyAssumption
<1>5. /\ k' \in LocalsType(part) /\ k'.op = "reschedule" /\ k'.sub = Current /\ k'.ev = e
      /\ k'.ret = "pending"
  BY <1>1, <1>2, <1>4, LocalsFacts
<1>6. TypeOK'
  BY <1>3, <1>5 DEF TypeOK, PC, lists, subjects, LocalsType
<1>7. LocalsOK'
  BY <1>3, <1>5 DEF TypeOK, LocalsOK, lists, subjects, Searching, Current, Current_Scheduling_Group_ID, GroupAt
<1>8. TimerListOK' /\ InactiveHasTimer'
  BY <1>3, ListsKept DEF Deactivating, lists
<1> QED
  BY <1>6, <1>7, <1>8

-----------------------------------------------------------------------------
(* What the helpers of the handlers do *)

\* The end of a procedure.
LEMMA ReturnFacts ==
  ASSUME TypeOK, NEW to, Return(to), to = "clear" => k.sub \in Subjects
  PROVE  /\ pc' = to /\ k' \in LocalsType(part)
         /\ to # "clear" => k' = NullLocals
         /\ to = "clear" => k'.sub \in Subjects /\ k'.sub = k.sub
         /\ k'.op = "update" /\ k'.handled = 0
<1>1. NullLocals \in LocalsType(part) /\ NullLocals.op = "update" /\ NullLocals.handled = 0
  BY NullFacts DEF TypeOK
<1>2. CASE to = "clear"
  BY <1>1, <1>2 DEF Return, LocalsType
<1>3. CASE to # "clear"
  BY <1>1, <1>3 DEF Return
<1> QED
  BY <1>2, <1>3

\* A step that only changes links keeps the subjects where they are.
LEMMA LinksFacts ==
  ASSUME TypeOK, OnlyLinks, part' = part
  PROVE  /\ sp' \in [Partitions -> PartitionType] /\ sg' \in [Groups -> GroupType]
         /\ \A q \in Partitions : sp'[q].Active_Group_Index \in Indices(q)
         /\ \A h \in Groups : GroupOf[sg'[h].Active_Subject] = h
         /\ Current' = Current /\ Current_Scheduling_Group_ID' = Current_Scheduling_Group_ID
         /\ \A q \in Partitions : CurrentOf(q)' = CurrentOf(q)
         /\ \A s \in Subjects : IsActiveSubject(s)' <=> IsActiveSubject(s)
<1>1. \A q \in Partitions : sp[q].Active_Group_Index \in Indices(q)
  BY DEF TypeOK
<1>2. \A h \in Groups : GroupOf[sg[h].Active_Subject] = h
  BY DEF TypeOK
<1>3. part \in Partitions
  BY DEF TypeOK
<1>4. Current_Scheduling_Group_ID' = Current_Scheduling_Group_ID
  BY <1>3 DEF OnlyLinks, Current_Scheduling_Group_ID, GroupAt
<1>5. Current' = Current
  BY <1>4, CurrentFacts DEF OnlyLinks, Current
<1>6. ASSUME NEW q \in Partitions PROVE CurrentOf(q)' = CurrentOf(q)
  <2>1. GroupAt(q, sp[q].Active_Group_Index) \in Groups
    BY <1>1, CurrentFacts
  <2> QED
    BY <2>1 DEF OnlyLinks, CurrentOf, ActiveSubject, GroupAt
<1>7. \A s \in Subjects : IsActiveSubject(s)' <=> IsActiveSubject(s)
  BY PolicyAssumption DEF IsActiveSubject, OnlyLinks
<1> QED
  BY <1>1, <1>2, <1>4, <1>5, <1>6, <1>7 DEF OnlyLinks

\* Deactivate_Group puts the group into the list, if it is not there, and clears its bit.
LEMMA DeactivateStep ==
  ASSUME TypeOK, TimerListOK, NEW p \in Partitions, NEW i \in Indices(p), NEW s \in Subjects,
         GroupOf[s] = GroupAt(p, i), Deactivate_Group(p, i, s)
  PROVE  /\ OnlyLinks /\ TimerListOK'
         /\ \A q \in Partitions : \A h \in GroupsOf(q) :
              Is_Group_In_Timer_List(q, h)' <=> Is_Group_In_Timer_List(q, h) \/ h = GroupAt(p, i)
         /\ bits' \in [Partitions -> SUBSET Nat]
         /\ \A q \in Partitions : bits'[q] = IF q = p THEN bits[q] \ {i} ELSE bits[q]
<1>1. bits \in [Partitions -> SUBSET Nat] /\ timed[s].trigger \in Time \cup {Never}
  BY DEF TypeOK
<1>2. /\ bits' \in [Partitions -> SUBSET Nat]
      /\ \A q \in Partitions : bits'[q] = IF q = p THEN bits[q] \ {i} ELSE bits[q]
  BY <1>1 DEF Deactivate_Group
<1>3. GroupAt(p, i) \in GroupsOf(p) /\ \A q \in Partitions : GroupAt(p, i) \in GroupsOf(q) => q = p
  BY GroupsOfFacts
<1>4. CASE Is_Group_In_Timer_List(p, GroupAt(p, i))
  <2>1. sp' = sp /\ sg' = sg
    BY <1>4 DEF Deactivate_Group, SetLists, Lists
  <2>2. OnlyLinks
    BY <2>1 DEF OnlyLinks, TypeOK, PartitionType, GroupType
  <2>3. /\ TimerListOK'
        /\ \A q \in Partitions : \A h \in GroupsOf(q) :
             Is_Group_In_Timer_List(q, h)' <=> Is_Group_In_Timer_List(q, h)
    BY <2>1, ListsSame
  <2> QED
    BY <1>2, <1>3, <1>4, <2>2, <2>3
<1>5. CASE ~Is_Group_In_Timer_List(p, GroupAt(p, i))
  <2>1. SetLists(Insert(p, GroupAt(p, i), timed[s].trigger))
    BY <1>5 DEF Deactivate_Group
  <2> QED
    BY <1>1, <1>2, <1>3, <1>5, <2>1, InsertStep
<1> QED
  BY <1>4, <1>5

\* Activate_Group takes the group out of the list and sets its bit.
LEMMA ActivateStep ==
  ASSUME TypeOK, TimerListOK, NEW p \in Partitions, NEW g \in GroupsOf(p),
         Is_Group_In_Timer_List(p, g), Activate_Group(p, g)
  PROVE  /\ OnlyLinks /\ TimerListOK'
         /\ \A q \in Partitions : \A h \in GroupsOf(q) :
              Is_Group_In_Timer_List(q, h)' <=> Is_Group_In_Timer_List(q, h) /\ h # g
         /\ bits' \in [Partitions -> SUBSET Nat]
         /\ \A q \in Partitions : bits'[q] = IF q = p THEN bits[q] \cup {IndexOf(g)} ELSE bits[q]
         /\ IndexOf(g) \in Indices(p)
<1>1. /\ OnlyLinks /\ TimerListOK'
      /\ \A q \in Partitions : \A h \in GroupsOf(q) :
           Is_Group_In_Timer_List(q, h)' <=> Is_Group_In_Timer_List(q, h) /\ h # g
  BY RemoveStep DEF Activate_Group
<1>2. IndexOf(g) \in Indices(p) /\ IndexOf(g) \in Nat
  BY GroupsOfFacts, PolicyFacts
<1>3. bits \in [Partitions -> SUBSET Nat]
  BY DEF TypeOK
<1>4. /\ bits' \in [Partitions -> SUBSET Nat]
      /\ \A q \in Partitions : bits'[q] = IF q = p THEN bits[q] \cup {IndexOf(g)} ELSE bits[q]
  BY <1>2, <1>3 DEF Activate_Group
<1> QED
  BY <1>1, <1>2, <1>4

-----------------------------------------------------------------------------
(* ListInv: the steps of the kernel *)

\* Update_Timer_List.
LEMMA UpdateList == ASSUME ListInv, Update_Timer_List PROVE ListInv'
<1> USE DEF ListInv
<1>1. part \in Partitions /\ part' = part /\ pc' = "find"
  BY DEF TypeOK, Update_Timer_List, Goto
<1>2. /\ OnlyLinks /\ TimerListOK'
      /\ \A q \in Partitions : bits[q] \subseteq bits'[q] /\ bits'[q] \in SUBSET Indices(q)
      /\ bits' \in [Partitions -> SUBSET Nat]
      /\ \A q \in Partitions : \A h \in GroupsOf(q) :
           Is_Group_In_Timer_List(q, h) => Is_Group_In_Timer_List(q, h)' \/ IndexOf(h) \in bits'[q]
  BY <1>1, UpdateStep
<1>3. /\ sp' \in [Partitions -> PartitionType] /\ sg' \in [Groups -> GroupType]
      /\ \A q \in Partitions : sp'[q].Active_Group_Index \in Indices(q)
      /\ \A h \in Groups : GroupOf[sg'[h].Active_Subject] = h
  BY <1>1, <1>2, LinksFacts
<1>4. k' \in LocalsType(part) /\ k'.op = "update"
  <2>1. NullLocals \in LocalsType(part) /\ NullLocals.op = "update"
    BY <1>1, NullFacts
  <2> QED
    BY <2>1, CurrentFacts DEF Update_Timer_List, LocalsType
<1>5. UNCHANGED <<now, part, running, hlt, intr, events, timed, remote, ipi, late>>
  BY DEF Update_Timer_List, subjects
<1>6. TypeOK'
  BY <1>1, <1>2, <1>3, <1>4, <1>5 DEF TypeOK, PC, LocalsType, PartitionType, GroupType
<1>7. LocalsOK'
  BY <1>1, <1>4, <1>5 DEF LocalsOK
<1>8. InactiveHasTimer'
  <2> SUFFICES ASSUME NEW q \in Partitions, NEW i \in Indices(q), i \notin bits'[q]
               PROVE  Is_Group_In_Timer_List(q, GroupAt(q, i))'
    BY <1>1 DEF InactiveHasTimer, Deactivating
  <2>1. GroupAt(q, i) \in GroupsOf(q) /\ IndexOf(GroupAt(q, i)) = i
    BY PolicyFacts, GroupsOfFacts
  <2>2. Is_Group_In_Timer_List(q, GroupAt(q, i))
    BY <1>2 DEF InactiveHasTimer
  <2> QED
    BY <1>2, <2>1, <2>2
<1> QED
  BY <1>2, <1>6, <1>7, <1>8

\* Reschedule_Partition up to its first look at the subject.
LEMMA ReschedulePartitionList == ASSUME ListInv, Reschedule_Partition PROVE ListInv'
<1> USE DEF ListInv
<1>1. /\ pc = "source" /\ pc' \in {"find", "put_off"} /\ k' = [k EXCEPT !.idx = sp[part].Active_Group_Index]
      /\ UNCHANGED <<now, part, sp, sg, bits, hlt, intr, events, timed, remote, ipi, late>>
  BY DEF Reschedule_Partition, lists
<1>2. k.sub = Current /\ k.op = "reschedule" /\ k \in LocalsType(part) /\ Current \in Subjects
      /\ sp[part].Active_Group_Index \in Indices(part)
  BY <1>1, CurrentFacts DEF LocalsOK, TypeOK, LocalsType
<1>3. k' \in LocalsType(part) /\ k'.sub = Current /\ k'.op = "reschedule"
  BY <1>1, <1>2 DEF LocalsType
<1>4. running' \in [Subjects -> BOOLEAN]
  BY <1>2 DEF Reschedule_Partition, TypeOK
<1>5. TypeOK'
  BY <1>1, <1>3, <1>4 DEF TypeOK, PC, LocalsType
<1>6. Current' = Current
  BY <1>1 DEF Current, Current_Scheduling_Group_ID, GroupAt
<1>7. LocalsOK'
  BY <1>1, <1>3, <1>6 DEF LocalsOK
<1>8. TimerListOK' /\ InactiveHasTimer'
  BY <1>1, ListsKept DEF Deactivating
<1> QED
  BY <1>5, <1>7, <1>8

\* Reschedule_Partition deactivates the group: it is in the list before its bit is gone.
LEMMA RescheduleDeactivateList == ASSUME ListInv, Reschedule_Deactivate PROVE ListInv'
<1> USE DEF ListInv
<1> DEFINE j == sp[part].Active_Group_Index
<1>1. /\ pc = "put_off" /\ pc' = "look_again" /\ Deactivate_Group(part, j, k.sub)
      /\ UNCHANGED <<now, part, running, hlt, intr, events, timed, k, remote, ipi, late>>
  BY DEF Reschedule_Deactivate, Goto, subjects
<1>2. k.sub = Current /\ k.op = "reschedule"
  BY <1>1 DEF LocalsOK
<1>3. part \in Partitions /\ j \in Indices(part) /\ k.sub \in Subjects /\ GroupOf[k.sub] = GroupAt(part, j)
  BY <1>2, CurrentFacts DEF Current_Scheduling_Group_ID
<1> HIDE DEF j
<1>4. /\ OnlyLinks /\ TimerListOK'
      /\ \A q \in Partitions : \A h \in GroupsOf(q) :
           Is_Group_In_Timer_List(q, h)' <=> Is_Group_In_Timer_List(q, h) \/ h = GroupAt(part, j)
      /\ bits' \in [Partitions -> SUBSET Nat]
      /\ \A q \in Partitions : bits'[q] = IF q = part THEN bits[q] \ {j} ELSE bits[q]
  BY <1>1, <1>3, DeactivateStep
<1>5. /\ sp' \in [Partitions -> PartitionType] /\ sg' \in [Groups -> GroupType]
      /\ \A q \in Partitions : sp'[q].Active_Group_Index \in Indices(q)
      /\ \A h \in Groups : GroupOf[sg'[h].Active_Subject] = h
      /\ Current' = Current
  BY <1>1, <1>4, LinksFacts
<1>6. TypeOK'
  <2>1. \A q \in Partitions : bits'[q] \subseteq Indices(q)
    BY <1>4 DEF TypeOK
  <2> QED
    BY <1>1, <1>4, <1>5, <2>1 DEF TypeOK, PC, PartitionType, GroupType
<1>7. LocalsOK'
  BY <1>1, <1>2, <1>5 DEF LocalsOK
<1>8. InactiveHasTimer'
  <2> SUFFICES ASSUME NEW q \in Partitions, NEW i \in Indices(q),
                      i \notin bits'[q] \/ GroupAt(q, i) = GroupAt(part, j)
               PROVE  Is_Group_In_Timer_List(q, GroupAt(q, i))'
    BY <1>1, <1>3 DEF InactiveHasTimer, Deactivating
  <2>1. GroupAt(q, i) \in GroupsOf(q)
    BY GroupsOfFacts
  <2>2. Is_Group_In_Timer_List(q, GroupAt(q, i)) \/ GroupAt(q, i) = GroupAt(part, j)
    BY <1>4 DEF InactiveHasTimer
  <2> QED
    BY <1>4, <2>1, <2>2
<1> QED
  BY <1>4, <1>6, <1>7, <1>8

\* The second look: the group can be removed because it was just put into the list.
LEMMA LookAgainList == ASSUME ListInv, Reschedule_Look_Again PROVE ListInv'
<1> USE DEF ListInv
<1>1. /\ pc = "look_again" /\ pc' = "find"
      /\ UNCHANGED <<now, part, running, hlt, intr, events, timed, k, remote, ipi, late>>
  BY DEF Reschedule_Look_Again, Goto, subjects
<1>2. k.sub = Current /\ k.op = "reschedule"
  BY <1>1 DEF LocalsOK
<1>3. CASE Is_Active(k.sub)
  <2> DEFINE g == GroupOf[k.sub]
  <2>1. Activate_Group(part, g)
    BY <1>3 DEF Reschedule_Look_Again
  <2>2. part \in Partitions /\ g \in GroupsOf(part) /\ g = GroupAt(part, sp[part].Active_Group_Index)
        /\ sp[part].Active_Group_Index \in Indices(part)
    BY <1>2, CurrentFacts DEF Current_Scheduling_Group_ID
  <2>3. Deactivating(g)
    BY <1>1 DEF Deactivating
  <2>4. Is_Group_In_Timer_List(part, g)
    BY <2>2, <2>3 DEF InactiveHasTimer
  <2> HIDE DEF g
  <2>5. /\ OnlyLinks /\ TimerListOK'
        /\ \A q \in Partitions : \A h \in GroupsOf(q) :
             Is_Group_In_Timer_List(q, h)' <=> Is_Group_In_Timer_List(q, h) /\ h # g
        /\ bits' \in [Partitions -> SUBSET Nat]
        /\ \A q \in Partitions : bits'[q] = IF q = part THEN bits[q] \cup {IndexOf(g)} ELSE bits[q]
        /\ IndexOf(g) \in Indices(part)
    BY <2>1, <2>2, <2>4, ActivateStep
  <2>6. /\ sp' \in [Partitions -> PartitionType] /\ sg' \in [Groups -> GroupType]
        /\ \A q \in Partitions : sp'[q].Active_Group_Index \in Indices(q)
        /\ \A h \in Groups : GroupOf[sg'[h].Active_Subject] = h
        /\ Current' = Current
    BY <1>1, <2>5, LinksFacts
  <2>7. \A q \in Partitions : bits'[q] \subseteq Indices(q)
    BY <2>5 DEF TypeOK
  <2>8. TypeOK'
    BY <1>1, <2>5, <2>6, <2>7 DEF TypeOK, PC, PartitionType, GroupType
  <2>9. LocalsOK'
    BY <1>1, <1>2, <2>6 DEF LocalsOK
  <2>10. InactiveHasTimer'
    <3> SUFFICES ASSUME NEW q \in Partitions, NEW i \in Indices(q), i \notin bits'[q]
                 PROVE  Is_Group_In_Timer_List(q, GroupAt(q, i))'
      BY <1>1 DEF InactiveHasTimer, Deactivating
    <3>1. GroupAt(q, i) \in GroupsOf(q) /\ PartitionOf(GroupAt(q, i)) = q /\ IndexOf(GroupAt(q, i)) = i
      BY PolicyFacts, GroupsOfFacts
    <3>2. GroupAt(q, i) # g
      BY <2>2, <2>5, <3>1, PolicyFacts
    <3>3. Is_Group_In_Timer_List(q, GroupAt(q, i))
      BY <2>5 DEF InactiveHasTimer
    <3> QED
      BY <2>5, <3>1, <3>2, <3>3
  <2> QED
    BY <2>5, <2>8, <2>9, <2>10
<1>4. CASE ~Is_Active(k.sub)
  <2>1. UNCHANGED <<sp, sg, bits>>
    BY <1>4 DEF Reschedule_Look_Again, lists
  <2>2. TypeOK'
    BY <1>1, <2>1 DEF TypeOK, PC
  <2>3. Current' = Current
    BY <1>1, <2>1 DEF Current, Current_Scheduling_Group_ID, GroupAt
  <2>4. LocalsOK'
    BY <1>1, <1>2, <2>1, <2>3 DEF LocalsOK
  <2>5. TimerListOK' /\ InactiveHasTimer'
    BY <1>1, <2>1, ListsKept DEF Deactivating
  <2> QED
    BY <2>2, <2>4, <2>5
<1> QED
  BY <1>3, <1>4

\* The search takes the next group of the partition.
LEMMA FindNextList == ASSUME ListInv, Find_Next PROVE ListInv'
<1> USE DEF ListInv
<1> DEFINE i == Successor_Group(part, k.idx)
<1>1. /\ pc = "find" /\ k' = [k EXCEPT !.idx = i] /\ pc' \in {"check", "none", "find"}
      /\ pc' = "check" => i \in bits[part]
      /\ UNCHANGED <<now, part, sp, sg, bits, running, hlt, intr, events, timed, remote, ipi, late>>
  BY DEF Find_Next, lists, subjects
<1>2. k \in LocalsType(part) /\ k.idx \in Indices(part) /\ part \in Partitions
      /\ (k.op = "reschedule" => k.sub = Current)
  BY <1>1 DEF LocalsOK, TypeOK, LocalsType, Searching
<1>3. i \in Indices(part)
  BY <1>2, PolicyFacts DEF Successor_Group, Indices
<1> HIDE DEF i
<1>4. k' \in LocalsType(part) /\ k'.idx = i /\ k'.op = k.op /\ k'.sub = k.sub
  BY <1>1, <1>2, <1>3 DEF LocalsType
<1>5. TypeOK'
  BY <1>1, <1>4 DEF TypeOK, PC, LocalsType
<1>6. Current' = Current
  BY <1>1 DEF Current, Current_Scheduling_Group_ID, GroupAt
<1>7. LocalsOK'
  BY <1>1, <1>2, <1>4, <1>6 DEF LocalsOK
<1>8. TimerListOK' /\ InactiveHasTimer'
  BY <1>1, ListsKept DEF Deactivating
<1> QED
  BY <1>5, <1>7, <1>8

\* The group the search looks at.
LEMMA SearchFacts ==
  ASSUME ListInv, pc \in Searching
  PROVE  /\ part \in Partitions /\ k \in LocalsType(part) /\ k.idx \in Indices(part)
         /\ GroupAt(part, k.idx) \in GroupsOf(part) /\ GroupAt(part, k.idx) \in Groups
         /\ PartitionOf(GroupAt(part, k.idx)) = part /\ IndexOf(GroupAt(part, k.idx)) = k.idx
         /\ ActiveSubject(part, k.idx) \in Subjects
         /\ GroupOf[ActiveSubject(part, k.idx)] = GroupAt(part, k.idx)
         /\ k.op = "reschedule" => k.sub = Current
<1>1. part \in Partitions /\ k \in LocalsType(part) /\ k.idx \in Indices(part)
  BY DEF ListInv, TypeOK, LocalsType
<1>2. k.op = "reschedule" => k.sub = Current
  BY DEF ListInv, LocalsOK
<1> QED
  BY <1>1, <1>2, CurrentFacts, PolicyFacts DEF ListInv

\* The search looks at a group whose bit is set.
LEMMA FindCheckList == ASSUME ListInv, Find_Check PROVE ListInv'
<1> USE DEF ListInv
<1> DEFINE g == GroupAt(part, k.idx)
           active == Is_Active(ActiveSubject(part, k.idx))
<1>1. /\ pc = "check" /\ pc' = IF active THEN "found" ELSE "deactivate"
      /\ SetLists(IF active /\ Is_Group_In_Timer_List(part, g)
                   THEN Remove_Group_From_Timer_List(part, g) ELSE Lists)
      /\ UNCHANGED <<now, part, bits, running, hlt, intr, events, timed, k, remote, ipi, late>>
  BY DEF Find_Check, Goto, subjects
<1>2. /\ part \in Partitions /\ g \in GroupsOf(part) /\ k.idx \in bits[part]
      /\ PartitionOf(g) = part /\ IndexOf(g) = k.idx
      /\ k.op = "reschedule" => k.sub = Current
  BY <1>1, SearchFacts DEF LocalsOK, Searching
<1> HIDE DEF g, active
<1>3. CASE active /\ Is_Group_In_Timer_List(part, g)
  <2>1. SetLists(Remove_Group_From_Timer_List(part, g))
    BY <1>1, <1>3
  <2>2. /\ OnlyLinks /\ TimerListOK'
        /\ \A q \in Partitions : \A h \in GroupsOf(q) :
             Is_Group_In_Timer_List(q, h)' <=> Is_Group_In_Timer_List(q, h) /\ h # g
    BY <1>2, <1>3, <2>1, RemoveStep
  <2>3. /\ sp' \in [Partitions -> PartitionType] /\ sg' \in [Groups -> GroupType]
        /\ \A q \in Partitions : sp'[q].Active_Group_Index \in Indices(q)
        /\ \A h \in Groups : GroupOf[sg'[h].Active_Subject] = h
        /\ Current' = Current
    BY <1>1, <2>2, LinksFacts
  <2>4. TypeOK'
    BY <1>1, <2>3 DEF TypeOK, PC, PartitionType, GroupType
  <2>5. LocalsOK'
    BY <1>1, <1>2, <2>3 DEF LocalsOK
  <2>6. InactiveHasTimer'
    <3> SUFFICES ASSUME NEW q \in Partitions, NEW i \in Indices(q), i \notin bits[q]
                 PROVE  Is_Group_In_Timer_List(q, GroupAt(q, i))'
      BY <1>1 DEF InactiveHasTimer, Deactivating
    <3>1. GroupAt(q, i) \in GroupsOf(q) /\ PartitionOf(GroupAt(q, i)) = q /\ IndexOf(GroupAt(q, i)) = i
      BY PolicyFacts, GroupsOfFacts
    <3>2. GroupAt(q, i) # g
      BY <1>2, <3>1
    <3>3. Is_Group_In_Timer_List(q, GroupAt(q, i))
      BY DEF InactiveHasTimer
    <3> QED
      BY <2>2, <3>1, <3>2, <3>3
  <2> QED
    BY <2>2, <2>4, <2>5, <2>6
<1>4. CASE ~(active /\ Is_Group_In_Timer_List(part, g))
  <2>1. UNCHANGED <<sp, sg>>
    BY <1>1, <1>4 DEF SetLists, Lists
  <2>2. TypeOK'
    BY <1>1, <2>1 DEF TypeOK, PC
  <2>3. Current' = Current
    BY <1>1, <2>1 DEF Current, Current_Scheduling_Group_ID, GroupAt
  <2>4. LocalsOK'
    BY <1>1, <1>2, <2>1, <2>3 DEF LocalsOK
  <2>5. TimerListOK' /\ InactiveHasTimer'
    BY <1>1, <2>1, ListsKept DEF Deactivating
  <2> QED
    BY <2>2, <2>4, <2>5
<1> QED
  BY <1>3, <1>4

\* The search deactivates a group whose subject is asleep.
LEMMA FindDeactivateList == ASSUME ListInv, Find_Deactivate PROVE ListInv'
<1> USE DEF ListInv
<1> DEFINE j == k.idx
<1>1. /\ pc = "deactivate" /\ pc' = "recheck" /\ Deactivate_Group(part, j, ActiveSubject(part, j))
      /\ UNCHANGED <<now, part, running, hlt, intr, events, timed, k, remote, ipi, late>>
  BY DEF Find_Deactivate, Goto, subjects
<1>2. part \in Partitions /\ j \in Indices(part) /\ ActiveSubject(part, j) \in Subjects
      /\ GroupOf[ActiveSubject(part, j)] = GroupAt(part, j)
      /\ (k.op = "reschedule" => k.sub = Current)
  BY <1>1, SearchFacts DEF Searching
<1>3. \A h : Deactivating(h)' <=> h = GroupAt(part, j)
  BY <1>1 DEF Deactivating, GroupAt
<1> HIDE DEF j
<1>4. /\ OnlyLinks /\ TimerListOK'
      /\ \A q \in Partitions : \A h \in GroupsOf(q) :
           Is_Group_In_Timer_List(q, h)' <=> Is_Group_In_Timer_List(q, h) \/ h = GroupAt(part, j)
      /\ bits' \in [Partitions -> SUBSET Nat]
      /\ \A q \in Partitions : bits'[q] = IF q = part THEN bits[q] \ {j} ELSE bits[q]
  BY <1>1, <1>2, DeactivateStep
<1>5. /\ sp' \in [Partitions -> PartitionType] /\ sg' \in [Groups -> GroupType]
      /\ \A q \in Partitions : sp'[q].Active_Group_Index \in Indices(q)
      /\ \A h \in Groups : GroupOf[sg'[h].Active_Subject] = h
      /\ Current' = Current
  BY <1>1, <1>4, LinksFacts
<1>6. TypeOK'
  <2>1. \A q \in Partitions : bits'[q] \subseteq Indices(q)
    BY <1>4 DEF TypeOK
  <2> QED
    BY <1>1, <1>4, <1>5, <2>1 DEF TypeOK, PC, PartitionType, GroupType
<1>7. LocalsOK'
  BY <1>1, <1>2, <1>5 DEF LocalsOK
<1>8. InactiveHasTimer'
  <2> SUFFICES ASSUME NEW q \in Partitions, NEW i \in Indices(q),
                      i \notin bits'[q] \/ GroupAt(q, i) = GroupAt(part, j)
               PROVE  Is_Group_In_Timer_List(q, GroupAt(q, i))'
    BY <1>3 DEF InactiveHasTimer, GroupAt
  <2>1. GroupAt(q, i) \in GroupsOf(q)
    BY GroupsOfFacts
  <2>2. Is_Group_In_Timer_List(q, GroupAt(q, i)) \/ GroupAt(q, i) = GroupAt(part, j)
    BY <1>4 DEF InactiveHasTimer
  <2> QED
    BY <1>4, <2>1, <2>2
<1> QED
  BY <1>4, <1>6, <1>7, <1>8

\* The second look of the search.
LEMMA FindRecheckList == ASSUME ListInv, Find_Recheck PROVE ListInv'
<1> USE DEF ListInv
<1> DEFINE g == GroupAt(part, k.idx)
           active == Is_Active(ActiveSubject(part, k.idx))
<1>1. /\ pc = "recheck" /\ pc' \in {"found", "none", "find"} /\ (pc' = "found" => active)
      /\ UNCHANGED <<now, part, running, hlt, intr, events, timed, k, remote, ipi, late>>
      /\ active => Activate_Group(part, g)
      /\ ~active => UNCHANGED <<sp, sg, bits>>
  BY DEF Find_Recheck, Goto, subjects, lists
<1>2. /\ part \in Partitions /\ g \in GroupsOf(part) /\ k.idx \in Indices(part)
      /\ PartitionOf(g) = part /\ IndexOf(g) = k.idx
      /\ k.op = "reschedule" => k.sub = Current
  BY <1>1, SearchFacts DEF Searching
<1>3. Is_Group_In_Timer_List(part, g)
  BY <1>1, <1>2 DEF InactiveHasTimer, Deactivating
<1> HIDE DEF g, active
<1>4. CASE active
  <2>1. /\ OnlyLinks /\ TimerListOK'
        /\ \A q \in Partitions : \A h \in GroupsOf(q) :
             Is_Group_In_Timer_List(q, h)' <=> Is_Group_In_Timer_List(q, h) /\ h # g
        /\ bits' \in [Partitions -> SUBSET Nat]
        /\ \A q \in Partitions : bits'[q] = IF q = part THEN bits[q] \cup {IndexOf(g)} ELSE bits[q]
        /\ IndexOf(g) \in Indices(part)
    BY <1>1, <1>2, <1>3, <1>4, ActivateStep
  <2>2. /\ sp' \in [Partitions -> PartitionType] /\ sg' \in [Groups -> GroupType]
        /\ \A q \in Partitions : sp'[q].Active_Group_Index \in Indices(q)
        /\ \A h \in Groups : GroupOf[sg'[h].Active_Subject] = h
        /\ Current' = Current
    BY <1>1, <2>1, LinksFacts
  <2>3. (\A q \in Partitions : bits'[q] \subseteq Indices(q)) /\ k.idx \in bits'[part]
    BY <1>2, <2>1 DEF TypeOK
  <2>4. TypeOK'
    BY <1>1, <2>1, <2>2, <2>3 DEF TypeOK, PC, PartitionType, GroupType
  <2>5. LocalsOK'
    BY <1>1, <1>2, <2>2, <2>3 DEF LocalsOK
  <2>6. InactiveHasTimer'
    <3> SUFFICES ASSUME NEW q \in Partitions, NEW i \in Indices(q), i \notin bits'[q]
                 PROVE  Is_Group_In_Timer_List(q, GroupAt(q, i))'
      BY <1>1 DEF InactiveHasTimer, Deactivating
    <3>1. GroupAt(q, i) \in GroupsOf(q) /\ PartitionOf(GroupAt(q, i)) = q /\ IndexOf(GroupAt(q, i)) = i
      BY PolicyFacts, GroupsOfFacts
    <3>2. GroupAt(q, i) # g
      BY <1>2, <2>1, <3>1
    <3>3. Is_Group_In_Timer_List(q, GroupAt(q, i))
      BY <2>1 DEF InactiveHasTimer
    <3> QED
      BY <2>1, <3>1, <3>2, <3>3
  <2> QED
    BY <2>1, <2>4, <2>5, <2>6
<1>5. CASE ~active
  <2>1. TypeOK'
    BY <1>1, <1>5 DEF TypeOK, PC
  <2>2. Current' = Current
    BY <1>1, <1>5 DEF Current, Current_Scheduling_Group_ID, GroupAt
  <2>3. LocalsOK'
    BY <1>1, <1>2, <1>5, <2>2 DEF LocalsOK
  <2>4. TimerListOK' /\ InactiveHasTimer'
    BY <1>1, <1>5, ListsKept DEF Deactivating
  <2> QED
    BY <2>1, <2>3, <2>4
<1> QED
  BY <1>4, <1>5

\* The search found a group.
LEMMA ScheduleGroupList == ASSUME ListInv, Schedule_Group PROVE ListInv'
<1> USE DEF ListInv
<1> DEFINE to == IF k.op = "update" THEN "timed" ELSE k.ret
           s == ActiveSubject(part, k.idx)
           wake == k.op = "update" /\ sp[part].Sleeping
<1>1. /\ pc = "found" /\ Return(to)
      /\ hlt' = IF wake THEN [hlt EXCEPT ![Current] = FALSE] ELSE hlt
      /\ sp' = [sp EXCEPT ![part] = [Active_Group_Index |-> k.idx,
                                     Earliest_Timer |-> @.Earliest_Timer,
                                     Sleeping |-> @.Sleeping /\ ~wake]]
      /\ running' = [running EXCEPT ![s] = TRUE]
      /\ UNCHANGED <<now, part, sg, bits, intr, events, timed, remote, ipi, late>>
  BY DEF Schedule_Group
<1>2. /\ part \in Partitions /\ k \in LocalsType(part) /\ k.idx \in Indices(part) /\ s \in Subjects
      /\ k.op = "reschedule" => k.sub = Current
      /\ Current \in Subjects
  BY <1>1, SearchFacts, CurrentFacts DEF Searching
<1>3. /\ to \in {"timed", "pending", "clear"}
      /\ to = "clear" => k.sub \in Subjects
  BY <1>2 DEF LocalsType
<1> HIDE DEF to, s, wake
<1>4. /\ pc' = to /\ k' \in LocalsType(part)
      /\ to # "clear" => k' = NullLocals
      /\ to = "clear" => k'.sub \in Subjects
      /\ k'.op = "update"
  BY <1>1, <1>3, ReturnFacts
<1>5. k.idx \in Nat
  BY <1>2, PolicyFacts
<1>6. /\ sp' \in [Partitions -> PartitionType]
      /\ \A q \in Partitions : /\ sp'[q].Earliest_Timer = sp[q].Earliest_Timer
                               /\ sp'[q].Active_Group_Index = IF q = part THEN k.idx ELSE sp[q].Active_Group_Index
  <2>1. sp \in [Partitions -> PartitionType]
    BY DEF TypeOK, PartitionType
  <2>2. sp[part].Sleeping \in BOOLEAN /\ wake \in BOOLEAN
    BY <1>2, <2>1 DEF PartitionType, wake
  <2> HIDE DEF wake
  <2> QED
    BY <1>1, <1>2, <1>5, <2>1, <2>2 DEF PartitionType
<1>7. \A q \in Partitions : sp'[q].Active_Group_Index \in Indices(q)
  BY <1>2, <1>6 DEF TypeOK
<1>8. hlt' \in [Subjects -> BOOLEAN] /\ running' \in [Subjects -> BOOLEAN]
  BY <1>1, <1>2 DEF TypeOK
<1>9. TypeOK'
  BY <1>1, <1>3, <1>4, <1>6, <1>7, <1>8 DEF TypeOK, PC, PartitionType, LocalsType
<1>10. LocalsOK'
  BY <1>1, <1>3, <1>4 DEF LocalsOK, Searching
<1>11. TimerListOK' /\ InactiveHasTimer'
  BY <1>1, <1>3, <1>4, <1>6, ListsKept DEF Deactivating
<1> QED
  BY <1>9, <1>10, <1>11

\* The search found none.
LEMMA ScheduleNoneList == ASSUME ListInv, Schedule_None PROVE ListInv'
<1> USE DEF ListInv
<1> DEFINE to == IF k.op = "update" THEN "timed" ELSE k.ret
<1>1. /\ pc = "none" /\ Return(to)
      /\ UNCHANGED <<now, part, sg, bits, running, intr, events, timed, remote, ipi, late>>
      /\ k.op = "update" => hlt' = hlt /\ sp' = sp
      /\ k.op # "update" => /\ hlt' = [hlt EXCEPT ![k.sub] = TRUE]
                            /\ sp' = [sp EXCEPT ![part].Sleeping = TRUE]
  BY DEF Schedule_None
<1>2. /\ part \in Partitions /\ k \in LocalsType(part) /\ k.op \in {"update", "reschedule"}
      /\ k.op = "reschedule" => k.sub = Current
      /\ Current \in Subjects
  BY <1>1, SearchFacts, CurrentFacts DEF Searching, LocalsType
<1>3. /\ to \in {"timed", "pending", "clear"}
      /\ to = "clear" => k.sub \in Subjects
  BY <1>2 DEF LocalsType
<1> HIDE DEF to
<1>4. /\ pc' = to /\ k' \in LocalsType(part)
      /\ to # "clear" => k' = NullLocals
      /\ to = "clear" => k'.sub \in Subjects
      /\ k'.op = "update"
  BY <1>1, <1>3, ReturnFacts
<1>5. /\ sp' \in [Partitions -> PartitionType]
      /\ \A q \in Partitions : /\ sp'[q].Earliest_Timer = sp[q].Earliest_Timer
                               /\ sp'[q].Active_Group_Index = sp[q].Active_Group_Index
  <2>1. sp \in [Partitions -> PartitionType]
    BY DEF TypeOK, PartitionType
  <2>2. CASE k.op = "update"
    BY <1>1, <1>2, <2>1, <2>2 DEF PartitionType
  <2>3. CASE k.op # "update"
    <3>1. sp' = [sp EXCEPT ![part].Sleeping = TRUE]
      BY <1>1, <2>3
    <3> QED
      BY <1>2, <2>1, <3>1 DEF PartitionType
  <2> QED
    BY <2>2, <2>3
<1>6. hlt' \in [Subjects -> BOOLEAN]
  BY <1>1, <1>2 DEF TypeOK
<1>7. TypeOK'
  BY <1>1, <1>3, <1>4, <1>5, <1>6 DEF TypeOK, PC, PartitionType, LocalsType
<1>8. LocalsOK'
  BY <1>1, <1>3, <1>4 DEF LocalsOK, Searching
<1>9. TimerListOK' /\ InactiveHasTimer'
  BY <1>1, <1>3, <1>4, <1>5, ListsKept DEF Deactivating
<1> QED
  BY <1>7, <1>8, <1>9

\* The timed event of the subject to run next.
LEMMA CheckTimedList == ASSUME ListInv, Check_Timed_Event PROVE ListInv'
<1> USE DEF ListInv
<1> DEFINE due == timed[Current].trigger <= now
           e == timed[Current].event
<1>1. /\ pc = "timed" /\ pc' = IF due THEN "source" ELSE "pending"
      /\ k' = IF due THEN Locals("reschedule", Current, e, "clear") ELSE NullLocals
      /\ late' = late \cup IF due /\ hlt[Current] THEN LateKind(e) ELSE {}
      /\ UNCHANGED <<now, part, sp, sg, bits, running, hlt, intr, events, timed, remote, ipi>>
  BY DEF Check_Timed_Event, Goto, lists, subjects
<1>2. Current \in Subjects /\ part \in Partitions
  BY CurrentFacts
<1>3. e \in SourceEvent /\ e \in {NullSource} \cup SourceEvents[Current]
  BY <1>2 DEF TypeOK, LocalsOK
<1> HIDE DEF due, e
<1>4. /\ k' \in LocalsType(part)
      /\ due => k'.op = "reschedule" /\ k'.sub = Current /\ k'.ev = e /\ k'.ret = "clear"
  BY <1>1, <1>2, <1>3, LocalsFacts, NullFacts
<1>5. TypeOK'
  BY <1>1, <1>4 DEF TypeOK, PC, LocalsType, LateKind
<1>6. Current' = Current
  BY <1>1 DEF Current, Current_Scheduling_Group_ID, GroupAt
<1>7. LocalsOK'
  BY <1>1, <1>3, <1>4, <1>6 DEF LocalsOK, Searching
<1>8. TimerListOK' /\ InactiveHasTimer'
  BY <1>1, ListsKept DEF Deactivating
<1> QED
  BY <1>5, <1>7, <1>8

\* The event a subject triggers, and whom it concerns.
LEMMA SourceFacts ==
  ASSUME ListInv, pc = "source"
  PROVE  /\ k \in LocalsType(part) /\ k.sub = Current /\ k.sub \in Subjects /\ k.ev \in SourceEvent
         /\ k.ret \in {"pending", "clear"} /\ k.op = "reschedule"
         /\ k.ev.handover => k.ev.target \in Subjects /\ GroupOf[k.ev.target] = Current_Scheduling_Group_ID
         /\ k.ev.action # "none" => k.ev.target = NoSubject
<1>1. k \in LocalsType(part) /\ k.ev \in SourceEvent /\ k.ret \in {"pending", "clear"}
  BY DEF ListInv, TypeOK, LocalsType
<1>2. /\ k.sub = Current /\ k.op = "reschedule"
      /\ k.ev \in {NullSource} \cup SourceEvents[k.sub] \cup TrapEvents[k.sub]
  BY DEF ListInv, LocalsOK
<1>3. k.sub \in Subjects /\ GroupOf[k.sub] = Current_Scheduling_Group_ID
  BY <1>2, CurrentFacts DEF ListInv
<1>4. k.ev = NullSource \/ k.ev \in SourceEvents[k.sub] \cup TrapEvents[k.sub]
  BY <1>1, <1>2
<1>5. /\ k.ev.handover => k.ev.target \in Subjects /\ GroupOf[k.ev.target] = GroupOf[k.sub]
      /\ k.ev.action # "none" => k.ev.target = NoSubject
  BY <1>3, <1>4, NullFacts, PolicyAssumption
<1> QED
  BY <1>1, <1>2, <1>3, <1>5

\* A source event, with the handover inside the group.
LEMMA HandleSourceList == ASSUME ListInv, Handle_Source_Event PROVE ListInv'
<1> USE DEF ListInv
<1> DEFINE e == k.ev
           G == Current_Scheduling_Group_ID
<1>1. /\ pc = "source" /\ Return(k.ret)
      /\ IF e.event # NoEvent /\ e.target # NoSubject
           THEN /\ events' = [events EXCEPT ![e.target] = @ \cup {e.event}]
                /\ Indicate_Activity_Same_CPU(e.target)
           ELSE events' = events /\ bits' = bits
      /\ sg' = IF e.handover THEN [sg EXCEPT ![G].Active_Subject = e.target] ELSE sg
      /\ UNCHANGED <<now, part, sp, running, hlt, intr, timed, remote, ipi, late>>
  BY DEF Handle_Source_Event
<1>2. /\ k.sub \in Subjects /\ e \in SourceEvent /\ k.ret \in {"pending", "clear"}
      /\ e.handover => e.target \in Subjects /\ GroupOf[e.target] = G
      /\ G \in Groups
  BY <1>1, SourceFacts, CurrentFacts
<1>3. /\ pc' = k.ret /\ k' \in LocalsType(part)
      /\ k.ret # "clear" => k' = NullLocals
      /\ k.ret = "clear" => k'.sub \in Subjects
      /\ k'.op = "update"
  BY <1>1, <1>2, ReturnFacts
<1> HIDE DEF e, G
<1>4. /\ events' \in [Subjects -> SUBSET EventIDs] /\ bits' \in [Partitions -> SUBSET Nat]
      /\ \A q \in Partitions : bits[q] \subseteq bits'[q] /\ bits'[q] \subseteq Indices(q)
  <2>1. /\ events \in [Subjects -> SUBSET EventIDs] /\ bits \in [Partitions -> SUBSET Nat]
        /\ \A q \in Partitions : bits[q] \subseteq Indices(q)
    BY DEF TypeOK
  <2>2. CASE e.event # NoEvent /\ e.target # NoSubject
    <3>1. e.event \in EventIDs /\ e.target \in Subjects
      BY <1>2, <2>2 DEF SourceEvent
    <3>2. events' = [events EXCEPT ![e.target] = @ \cup {e.event}] /\ Indicate_Activity_Same_CPU(e.target)
      BY <1>1, <2>2
    <3>3. events' \in [Subjects -> SUBSET EventIDs]
      BY <2>1, <3>1, <3>2
    <3> QED
      BY <3>1, <3>2, <3>3, SameCPUFacts
  <2>3. CASE ~(e.event # NoEvent /\ e.target # NoSubject)
    BY <1>1, <2>1, <2>3
  <2> QED
    BY <2>2, <2>3
<1>5. /\ sg' \in [Groups -> GroupType]
      /\ \A h \in Groups : GroupOf[sg'[h].Active_Subject] = h
      /\ \A h \in Groups : /\ sg'[h].Next_Timer = sg[h].Next_Timer
                           /\ sg'[h].Prev_Timer = sg[h].Prev_Timer
                           /\ sg'[h].Timeout = sg[h].Timeout
  <2>1. sg \in [Groups -> GroupType] /\ \A h \in Groups : GroupOf[sg[h].Active_Subject] = h
    BY DEF TypeOK, GroupType
  <2> QED
    BY <1>1, <1>2, <2>1 DEF GroupType
<1>6. TypeOK'
  BY <1>1, <1>2, <1>3, <1>4, <1>5 DEF TypeOK, PC, GroupType, LocalsType
<1>7. LocalsOK'
  BY <1>1, <1>2, <1>3 DEF LocalsOK, Searching
<1>8. TimerListOK' /\ InactiveHasTimer'
  BY <1>1, <1>2, <1>3, <1>4, <1>5, ListsKept DEF Deactivating
<1> QED
  BY <1>6, <1>7, <1>8

\* The timed event is cleared.
LEMMA ClearTimedList == ASSUME ListInv, Clear_Timed_Event PROVE ListInv'
<1> USE DEF ListInv
<1>1. /\ pc = "clear" /\ Return("pending") /\ timed' = [timed EXCEPT ![k.sub].trigger = Never]
      /\ UNCHANGED <<now, part, sp, sg, bits, running, hlt, intr, events, remote, ipi, late>>
  BY DEF Clear_Timed_Event, lists
<1>2. k.sub \in Subjects
  BY <1>1 DEF LocalsOK
<1>3. pc' = "pending" /\ k' = NullLocals /\ k' \in LocalsType(part)
  BY <1>1, ReturnFacts
<1>4. /\ timed' \in [Subjects -> [trigger : Time \cup {Never}, event : SourceEvent]]
      /\ \A s \in Subjects : timed'[s].event = timed[s].event
  BY <1>1, <1>2 DEF TypeOK
<1>5. TypeOK'
  BY <1>1, <1>3, <1>4 DEF TypeOK, PC, LocalsType
<1>6. LocalsOK'
  BY <1>1, <1>3, <1>4 DEF LocalsOK, Searching
<1>7. TimerListOK' /\ InactiveHasTimer'
  BY <1>1, <1>3, ListsKept DEF Deactivating
<1> QED
  BY <1>5, <1>6, <1>7

\* One pending target event.
LEMMA ConsumeList == ASSUME ListInv, Consume_Event PROVE ListInv'
<1> USE DEF ListInv
<1> DEFINE e == Max(events[Current])
           reset == TargetKind(e) = "reset"
           inject == TargetKind(e) = "inject"
<1>1. /\ pc = "pending" /\ pc' = pc /\ k.handled < Cardinality(EventIDs)
      /\ events' = [events EXCEPT ![Current] = IF reset THEN {} ELSE @ \ {e}]
      /\ intr' = [intr EXCEPT ![Current] = ~reset /\ (@ \/ inject)]
      /\ timed' = IF reset THEN [timed EXCEPT ![Current] = Null_Event] ELSE timed
      /\ hlt' = [hlt EXCEPT ![Current] = @ /\ ~reset]
      /\ running' = [running EXCEPT ![Current] = @ \/ reset]
      /\ k' = [NullLocals EXCEPT !.handled = k.handled + 1]
      /\ UNCHANGED <<now, part, sp, sg, bits, remote, ipi, late>>
  BY DEF Consume_Event, lists, More_Events
<1>2. reset \in BOOLEAN /\ inject \in BOOLEAN
  OBVIOUS
<1> HIDE DEF e, reset, inject
<1>3. Current \in Subjects /\ part \in Partitions
  BY CurrentFacts
<1>4. k.handled + 1 \in 0 .. Cardinality(EventIDs)
  BY <1>1, EventCount DEF TypeOK
<1>5. k' \in LocalsType(part)
  BY <1>1, <1>3, <1>4, NullFacts DEF LocalsType
<1>6. Null_Event \in [trigger : Time \cup {Never}, event : SourceEvent] /\ Null_Event.event = NullSource
  BY NullFacts DEF Null_Event
<1>7. /\ running \in [Subjects -> BOOLEAN] /\ hlt \in [Subjects -> BOOLEAN]
      /\ intr \in [Subjects -> BOOLEAN] /\ events \in [Subjects -> SUBSET EventIDs]
      /\ timed \in [Subjects -> [trigger : Time \cup {Never}, event : SourceEvent]]
  BY DEF TypeOK
<1>8. /\ running' \in [Subjects -> BOOLEAN] /\ hlt' \in [Subjects -> BOOLEAN]
      /\ intr' \in [Subjects -> BOOLEAN]
  BY <1>1, <1>2, <1>3, <1>7
<1>9. /\ events' \in [Subjects -> SUBSET EventIDs]
      /\ timed' \in [Subjects -> [trigger : Time \cup {Never}, event : SourceEvent]]
  BY <1>1, <1>3, <1>6, <1>7
<1>10. \A s \in Subjects : timed'[s].event \in {NullSource} \cup SourceEvents[s]
  BY <1>1, <1>3, <1>6, <1>7 DEF LocalsOK
<1>11. TypeOK'
  BY <1>1, <1>5, <1>8, <1>9 DEF TypeOK, LocalsType
<1>12. LocalsOK'
  BY <1>1, <1>10 DEF LocalsOK, Searching
<1>13. TimerListOK' /\ InactiveHasTimer'
  BY <1>1, ListsKept DEF Deactivating
<1> QED
  BY <1>11, <1>12, <1>13

\* The end of the loop over the pending target events.
LEMMA HandledList == ASSUME ListInv, Target_Events_Handled PROVE ListInv'
<1> USE DEF ListInv
<1>1. /\ pc = "pending" /\ pc' = "inject" /\ k' = NullLocals
      /\ running' = [running EXCEPT ![Current] = @ \/ k.handled > 0]
      /\ UNCHANGED <<now, part, sp, sg, bits, hlt, intr, events, timed, remote, ipi, late>>
  BY DEF Target_Events_Handled, Goto, lists
<1>2. Current \in Subjects /\ part \in Partitions /\ k' \in LocalsType(part)
  BY <1>1, CurrentFacts, NullFacts
<1>3. running' \in [Subjects -> BOOLEAN]
  BY <1>1, <1>2 DEF TypeOK
<1>4. TypeOK'
  BY <1>1, <1>2, <1>3 DEF TypeOK, PC, LocalsType
<1>5. LocalsOK'
  BY <1>1 DEF LocalsOK, Searching
<1>6. TimerListOK' /\ InactiveHasTimer'
  BY <1>1, ListsKept DEF Deactivating
<1> QED
  BY <1>4, <1>5, <1>6

\* The VM entry.
LEMMA InjectList == ASSUME ListInv, Inject_Interrupt PROVE ListInv'
<1> USE DEF ListInv
<1>1. /\ pc = "inject" /\ pc' = "guest"
      /\ UNCHANGED <<now, part, sp, sg, bits, events, timed, k, remote, ipi, late>>
  BY DEF Inject_Interrupt, Goto, lists
<1>2. PICK inject \in BOOLEAN :
        /\ intr' = [intr EXCEPT ![Current] = @ /\ ~inject]
        /\ running' = [running EXCEPT ![Current] = @ \/ inject]
        /\ hlt' = [hlt EXCEPT ![Current] = @ /\ ~inject]
  BY DEF Inject_Interrupt
<1>3. Current \in Subjects
  BY CurrentFacts
<1>4. running' \in [Subjects -> BOOLEAN] /\ hlt' \in [Subjects -> BOOLEAN] /\ intr' \in [Subjects -> BOOLEAN]
  BY <1>2, <1>3 DEF TypeOK
<1>5. TypeOK'
  BY <1>1, <1>4 DEF TypeOK, PC
<1>6. LocalsOK'
  BY <1>1 DEF LocalsOK, Searching
<1>7. TimerListOK' /\ InactiveHasTimer'
  BY <1>1, ListsKept DEF Deactivating
<1> QED
  BY <1>5, <1>6, <1>7

\* The lists are empty and all groups indicated after Init.
LEMMA InitList == Init => ListInv
<1> SUFFICES ASSUME Init PROVE ListInv
  OBVIOUS
<1>1. now = 0 /\ part \in Partitions /\ now \in Time
  BY PolicyAssumption DEF Init, Time
<1>2. /\ \A g \in Groups : Initial[g] \in Subjects /\ GroupOf[Initial[g]] = g
      /\ \A p \in Partitions : 1 \in Indices(p) /\ Indices(p) \subseteq Nat
  BY PolicyAssumption, PolicyFacts
<1>3. /\ sp \in [Partitions -> PartitionType] /\ bits \in [Partitions -> SUBSET Nat]
      /\ \A p \in Partitions : /\ sp[p].Active_Group_Index \in Indices(p) /\ bits[p] = Indices(p)
                               /\ sp[p].Earliest_Timer = NoGroup
  BY <1>2 DEF Init, PartitionType
<1>4. /\ sg \in [Groups -> GroupType]
      /\ \A g \in Groups : /\ GroupOf[sg[g].Active_Subject] = g
                           /\ sg[g].Next_Timer = NoGroup /\ sg[g].Prev_Timer = NoGroup
  BY <1>2 DEF Init, GroupType
<1>5. /\ timed \in [Subjects -> [trigger : Time \cup {Never}, event : SourceEvent]]
      /\ \A s \in Subjects : timed[s].event = NullSource
  BY NullFacts DEF Init, Null_Event
<1>6. /\ k \in LocalsType(part) /\ k = NullLocals /\ pc = "guest" /\ remote = Idle /\ ipi = FALSE
      /\ late = {}
      /\ running \in [Subjects -> BOOLEAN] /\ hlt \in [Subjects -> BOOLEAN]
      /\ intr \in [Subjects -> BOOLEAN] /\ events \in [Subjects -> SUBSET EventIDs]
  BY <1>1, NullFacts DEF Init
<1>7. TypeOK
  BY <1>1, <1>3, <1>4, <1>5, <1>6 DEF TypeOK, PC, PartitionType, GroupType, LocalsType
<1>8. LocalsOK
  BY <1>5, <1>6 DEF LocalsOK, Searching
<1>9. ASSUME NEW p \in Partitions PROVE \E w \in TimerLists : IsTimerList(p, w)
  <2> DEFINE w == [n \in 1 .. 0 |-> NoGroup]
  <2>1. w \in [1 .. 0 -> Groups] /\ DOMAIN w = {}
    OBVIOUS
  <2>2. Cardinality(Groups) \in Nat
    BY PolicyAssumption, FS_CardinalityType
  <2> HIDE DEF w
  <2>3. w \in TimerLists
    <3>1. 0 \in 0 .. Cardinality(Groups)
      BY <2>2
    <3>2. \E m \in 0 .. Cardinality(Groups) : w \in [1 .. m -> Groups]
      BY <2>1, <3>1, Zenon
    <3> QED
      BY <3>2, ListShape
  <2>4. sp[p].Earliest_Timer = NoGroup /\ At(w, 1) = NoGroup /\ ToSet(w) = {}
    BY <1>3, <2>1 DEF At, ToSet
  <2>5. \A g \in GroupsOf(p) : ~Is_Group_In_Timer_List(p, g) /\ sg[g].Next_Timer = NoGroup
    BY <1>3, <1>4, GroupsOfFacts DEF Is_Group_In_Timer_List
  <2>6. IsTimerList(p, w)
    BY <2>1, <2>4, <2>5 DEF IsTimerList, Linked
  <2> QED
    BY <2>3, <2>6
<1>10. InactiveHasTimer
  BY <1>3, <1>6 DEF InactiveHasTimer, Deactivating
<1> QED
  BY <1>7, <1>8, <1>9, <1>10 DEF ListInv, TimerListOK

\* Stuttering.
LEMMA StutterList == ASSUME ListInv, UNCHANGED vars PROVE ListInv'
<1> USE DEF ListInv, vars, lists, subjects
<1>1. TypeOK'
  BY DEF TypeOK
<1>2. LocalsOK'
  BY DEF LocalsOK, Current, Current_Scheduling_Group_ID, GroupAt
<1>3. TimerListOK' /\ InactiveHasTimer'
  BY ListsKept DEF Deactivating, GroupAt
<1> QED
  BY <1>1, <1>2, <1>3

\* ListInv is inductive.
LEMMA NextList == ASSUME ListInv, [Next]_vars PROVE ListInv'
<1>1. CASE Kernel
  BY <1>1, UpdateList, ReschedulePartitionList, RescheduleDeactivateList, LookAgainList,
     FindNextList, FindCheckList, FindDeactivateList, FindRecheckList, ScheduleGroupList,
     ScheduleNoneList, CheckTimedList, HandleSourceList, ClearTimedList, ConsumeList,
     HandledList, InjectList DEF Kernel
<1>2. CASE Guest
  BY <1>2, SetTimedList, SourceExitList, IrqList, InterruptList, ExpiryList DEF Guest
<1>3. CASE Remote
  BY <1>3, RemoteSetList, RemoteIndicateList, RemoteSendList DEF Remote
<1>4. CASE Tick
  BY <1>4, TickList
<1>5. CASE UNCHANGED vars
  BY <1>5, StutterList
<1> QED
  BY <1>1, <1>2, <1>3, <1>4, <1>5 DEF Next

\* For every policy: the timer lists of all partitions stay finite, doubly linked and
\* sorted, hold exactly the groups that Is_Group_In_Timer_List says they hold, and
\* hold every group that is not indicated as active; the handlers' locals stay sound.
THEOREM ListsSound == Safety => []ListInv
<1>1. Init => ListInv
  BY InitList
<1>2. ListInv /\ [Next]_vars => ListInv'
  BY NextList
<1> QED
  BY <1>1, <1>2, PTL DEF Safety

-----------------------------------------------------------------------------
(* ActivityInv and RunInv, while no timed handover has expired for a halted subject *)

\* The current subjects of different partitions differ, and each is active.
LEMMA CurrentOfFacts ==
  ASSUME TypeOK
  PROVE  /\ CurrentOf(part) = Current
         /\ \A p \in Partitions : CurrentOf(p) \in Subjects /\ IsActiveSubject(CurrentOf(p))
         /\ \A p, q \in Partitions : CurrentOf(p) = CurrentOf(q) => p = q
         /\ \A g \in Groups : /\ sg[g].Active_Subject \in Subjects /\ GroupOf[sg[g].Active_Subject] = g
                              /\ IsActiveSubject(sg[g].Active_Subject)
<1>1. \A g \in Groups : sg[g].Active_Subject \in Subjects /\ GroupOf[sg[g].Active_Subject] = g
  BY DEF TypeOK
<1>2. \A p \in Partitions : sp[p].Active_Group_Index \in Indices(p)
  BY DEF TypeOK
<1>3. ASSUME NEW p \in Partitions
      PROVE  /\ CurrentOf(p) \in Subjects /\ GroupOf[CurrentOf(p)] = GroupAt(p, sp[p].Active_Group_Index)
             /\ GroupAt(p, sp[p].Active_Group_Index) \in Groups
             /\ PartitionOf(GroupOf[CurrentOf(p)]) = p
  BY <1>2, CurrentFacts, PolicyFacts DEF CurrentOf
<1>4. \A p \in Partitions : IsActiveSubject(CurrentOf(p))
  BY <1>3 DEF IsActiveSubject, CurrentOf, ActiveSubject
<1>5. CurrentOf(part) = Current
  BY DEF CurrentOf, Current, ActiveSubject, Current_Scheduling_Group_ID
<1> QED
  BY <1>1, <1>3, <1>4, <1>5 DEF IsActiveSubject

\* Steps that leave the subjects alone, and the active ones where they are.
LEMMA QuietStep ==
  ASSUME ListInv, ActivityInv, RunInv,
         \A h \in Groups : sg'[h].Active_Subject = sg[h].Active_Subject,
         \A q \in Partitions : sp'[q].Active_Group_Index = sp[q].Active_Group_Index,
         UNCHANGED <<running, hlt, intr, events>>,
         \A h \in Groups : Bit(h) => Bit(h)' \/ Deactivating(h)',
         \A h \in Groups : BeingIndicated(h) => BeingIndicated(h)' \/ Bit(h)',
         \A h \in Groups : Deactivating(h) =>
                             Deactivating(h)' \/ Bit(h)' \/ ~Awake(sg[h].Active_Subject),
         pc' = "pending" /\ k'.handled > 0 => pc = "pending" /\ k.handled > 0 /\ part' = part,
         Rescheduling => Rescheduling' /\ part' = part,
         pc' = "source" /\ (k'.ret = "pending" \/ k'.ev.handover) => ~hlt[k'.sub]
  PROVE  ActivityInv' /\ RunInv'
<1> USE DEF ListInv
<1>1. \A h \in Groups : Awake(sg[h].Active_Subject)' <=> Awake(sg[h].Active_Subject)
  BY DEF Awake
<1>2. ASSUME NEW h \in Groups, Awake(sg[h].Active_Subject)', ~BeingIndicated(h)', ~Deactivating(h)'
      PROVE  Bit(h)'
  BY <1>1, <1>2 DEF ActivityInv
<1>3. ASSUME pc' = "pending", k'.handled > 0
      PROVE  (Bit(Current_Scheduling_Group_ID) \/ BeingIndicated(Current_Scheduling_Group_ID))'
  <2>1. pc = "pending" /\ k.handled > 0 /\ part' = part
    BY <1>3
  <2>2. Current_Scheduling_Group_ID' = Current_Scheduling_Group_ID /\ Current_Scheduling_Group_ID \in Groups
    BY <2>1, CurrentFacts DEF Current_Scheduling_Group_ID, GroupAt
  <2>3. Bit(Current_Scheduling_Group_ID) \/ BeingIndicated(Current_Scheduling_Group_ID)
    BY <2>1 DEF ActivityInv
  <2>4. \A h \in Groups : ~Deactivating(h)'
    BY <1>3 DEF Deactivating
  <2> DEFINE G == Current_Scheduling_Group_ID
  <2>5. Bit(G)' \/ BeingIndicated(G)'
    <3> HIDE DEF G
    <3>1. G \in Groups /\ (Bit(G) \/ BeingIndicated(G)) /\ G' = G
      BY <2>2, <2>3 DEF G
    <3>2. \E h \in Groups : h = G /\ (Bit(h)' \/ BeingIndicated(h)')
      BY <2>4, <3>1
    <3> QED
      BY <3>1, <3>2 DEF Bit, BeingIndicated
  <2> QED
    BY <2>5
<1>4. \A s \in Subjects : IsActiveSubject(s)' <=> IsActiveSubject(s)
  BY PolicyAssumption DEF IsActiveSubject
<1>5. ASSUME NEW p \in Partitions PROVE CurrentOf(p)' = CurrentOf(p)
  <2>1. GroupAt(p, sp[p].Active_Group_Index) \in Groups
    BY CurrentFacts DEF TypeOK
  <2> QED
    BY <2>1 DEF CurrentOf, ActiveSubject, GroupAt
<1>6. ActivityInv'
  BY <1>2, <1>3 DEF ActivityInv
<1>7. RunInv'
  BY <1>4, <1>5 DEF RunInv
<1> QED
  BY <1>6, <1>7

RunsInv == ListInv /\ ActivityInv /\ RunInv

\* Exits and clock ticks change neither indicators nor flags.
LEMMA GuestSteps ==
  ASSUME RunsInv, Tick \/ Set_Timed_Event \/ Handle_IPI \/ Interrupt_Window
                  \/ Handle_Hypercall \/ Handle_Trap \/ \E p \in Partitions : Handle_Timer_Expiry(p)
  PROVE  ActivityInv' /\ RunInv'
<1> USE DEF RunsInv
<1>1. UNCHANGED <<sp, sg, bits, running, hlt, intr, events, remote>>
  BY DEF Tick, Set_Timed_Event, Handle_IPI, Interrupt_Window, Handle_Hypercall, Handle_Trap,
         Source_Event_Exit, Handle_Timer_Expiry, lists, subjects
<1>2. \A h \in Groups : (Bit(h) => Bit(h)') /\ (BeingIndicated(h) => BeingIndicated(h)')
  BY <1>1 DEF Bit, BeingIndicated
<1>3. CASE Tick \/ Set_Timed_Event
  <2>1. UNCHANGED <<part, pc, k>>
    BY <1>3 DEF Tick, Set_Timed_Event
  <2>2. /\ \A h \in Groups : Deactivating(h) => Deactivating(h)'
        /\ Rescheduling => Rescheduling'
        /\ pc' = "source" /\ (k'.ret = "pending" \/ k'.ev.handover) => ~hlt[k'.sub]
    BY <2>1 DEF Deactivating, GroupAt, Rescheduling, RunInv
  <2> QED
    BY <1>1, <1>2, <2>1, <2>2, QuietStep
<1>4. CASE Handle_IPI \/ Interrupt_Window \/ \E p \in Partitions : Handle_Timer_Expiry(p)
  <2>1. pc = "guest" /\ pc' \in {"pending", "timers"} /\ k' = k
    BY <1>4 DEF Handle_IPI, Interrupt_Window, Handle_Timer_Expiry, Goto
  <2>2. k.handled = 0
    BY <2>1, NullFacts DEF ListInv, LocalsOK
  <2>3. (\A h \in Groups : ~Deactivating(h)) /\ ~Rescheduling
    BY <2>1 DEF Deactivating, Rescheduling, Searching
  <2> QED
    BY <1>1, <1>2, <2>1, <2>2, <2>3, QuietStep
<1>5. CASE Handle_Hypercall \/ Handle_Trap
  <2>1. pc = "guest" /\ pc' = "source" /\ ~hlt[Current]
    BY <1>5 DEF Handle_Hypercall, Handle_Trap, Source_Event_Exit, GuestRuns
  <2>2. k'.sub = Current
    BY <1>5 DEF Handle_Hypercall, Handle_Trap, Source_Event_Exit, Locals
  <2>3. (\A h \in Groups : ~Deactivating(h)) /\ ~Rescheduling
    BY <2>1 DEF Deactivating, Rescheduling, Searching
  <2> QED
    BY <1>1, <1>2, <2>1, <2>2, <2>3, QuietStep
<1> QED
  BY <1>3, <1>4, <1>5

\* The other CPU sets the bit of the group it is indicating.
LEMMA RemoteSteps ==
  ASSUME RunsInv, Remote_Indicate_Activity \/ Remote_Send_IPI
  PROVE  ActivityInv' /\ RunInv'
<1> USE DEF RunsInv
<1>1. UNCHANGED <<part, sp, sg, running, hlt, intr, events, pc, k>>
  BY DEF Remote_Indicate_Activity, Remote_Send_IPI, lists, subjects
<1>2. /\ \A h \in Groups : Deactivating(h) => Deactivating(h)'
      /\ Rescheduling => Rescheduling'
      /\ pc' = "source" /\ (k'.ret = "pending" \/ k'.ev.handover) => ~hlt[k'.sub]
  BY <1>1 DEF Deactivating, GroupAt, Rescheduling, RunInv
<1>3. \A h \in Groups : (Bit(h) => Bit(h)') /\ (BeingIndicated(h) => Bit(h)')
  <2>1. CASE Remote_Indicate_Activity
    <3>1. remote.step = "indicate" /\ bits' = Indicated(remote.ev.target) /\ remote.ev.target \in Subjects
      BY <2>1, RemoteTarget DEF Remote_Indicate_Activity, ListInv
    <3>2. /\ \A q \in Partitions : bits[q] \subseteq bits'[q]
          /\ IndexOf(GroupOf[remote.ev.target]) \in bits'[PartitionOf(GroupOf[remote.ev.target])]
      BY <3>1, IndicatedFacts DEF ListInv
    <3> QED
      BY <3>2, PolicyFacts DEF Bit, BeingIndicated
  <2>2. CASE Remote_Send_IPI
    BY <2>2 DEF Remote_Send_IPI, Bit, BeingIndicated
  <2> QED
    BY <2>1, <2>2
<1> QED
  BY <1>1, <1>2, <1>3, QuietStep

\* Steps of a search that clear no bit.
LEMMA SearchSteps ==
  ASSUME RunsInv, "handover" \notin late',
         Update_Timer_List \/ Find_Next \/ Find_Check \/ Check_Timed_Event \/ Clear_Timed_Event
  PROVE  ActivityInv' /\ RunInv'
<1> USE DEF RunsInv
<1>1. /\ UNCHANGED <<part, running, hlt, intr, events, remote>>
      /\ pc \in {"timers", "find", "check", "timed", "clear"}
      /\ pc' \in {"find", "check", "none", "found", "deactivate", "source", "pending"}
  BY DEF Update_Timer_List, Find_Next, Find_Check, Check_Timed_Event, Clear_Timed_Event, Goto, Return,
         lists, subjects
<1>2. \A h \in Groups : ~Deactivating(h) /\ (BeingIndicated(h) => BeingIndicated(h)')
  BY <1>1 DEF Deactivating, BeingIndicated
<1>3. /\ \A h \in Groups : sg'[h].Active_Subject = sg[h].Active_Subject
      /\ \A q \in Partitions : sp'[q].Active_Group_Index = sp[q].Active_Group_Index
      /\ \A h \in Groups : Bit(h) => Bit(h)'
  <2>1. CASE Update_Timer_List
    <3>1. OnlyLinks /\ \A q \in Partitions : bits[q] \subseteq bits'[q]
      BY <2>1, UpdateStep DEF ListInv, TypeOK
    <3> QED
      BY <3>1, PolicyFacts DEF OnlyLinks, Bit
  <2>2. CASE Find_Check
    <3> DEFINE g == GroupAt(part, k.idx)
               active == Is_Active(ActiveSubject(part, k.idx))
    <3>1. /\ SetLists(IF active /\ Is_Group_In_Timer_List(part, g)
                       THEN Remove_Group_From_Timer_List(part, g) ELSE Lists)
          /\ bits' = bits /\ pc = "check"
      BY <2>2 DEF Find_Check, Goto
    <3>2. part \in Partitions /\ g \in GroupsOf(part)
      BY <3>1, SearchFacts DEF Searching
    <3> HIDE DEF g, active
    <3>3. CASE active /\ Is_Group_In_Timer_List(part, g)
      <4>1. OnlyLinks
        BY <3>1, <3>2, <3>3, RemoveStep DEF ListInv
      <4> QED
        BY <3>1, <4>1 DEF OnlyLinks, Bit
    <3>4. CASE ~(active /\ Is_Group_In_Timer_List(part, g))
      BY <3>1, <3>4 DEF SetLists, Lists, Bit
    <3> QED
      BY <3>3, <3>4
  <2>3. CASE Find_Next \/ Check_Timed_Event \/ Clear_Timed_Event
    BY <2>3 DEF Find_Next, Check_Timed_Event, Clear_Timed_Event, lists, Bit
  <2> QED
    BY <2>1, <2>2, <2>3
<1>4. /\ pc' = "pending" => k'.handled = 0
      /\ pc' = "source" /\ (k'.ret = "pending" \/ k'.ev.handover) => ~hlt[k'.sub]
      /\ Rescheduling => Rescheduling'
  <2>1. CASE Update_Timer_List
    BY <2>1 DEF Update_Timer_List, Goto, Rescheduling, Searching
  <2>2. CASE Find_Next
    <3>1. k \in LocalsType(part) /\ k' = [k EXCEPT !.idx = Successor_Group(part, k.idx)]
      BY <2>2 DEF Find_Next, ListInv, TypeOK, LocalsType
    <3>2. k'.op = k.op
      BY <3>1 DEF LocalsType
    <3> QED
      BY <2>2, <3>2 DEF Find_Next, Rescheduling, Searching
  <2>3. CASE Find_Check
    BY <2>3 DEF Find_Check, Goto, Rescheduling, Searching
  <2>4. CASE Check_Timed_Event
    <3>1. /\ pc = "timed" /\ pc' \in {"source", "pending"}
          /\ pc' = "source" => k' = Locals("reschedule", Current, timed[Current].event, "clear")
          /\ pc' = "pending" => k' = NullLocals
      BY <2>4 DEF Check_Timed_Event, Goto
    <3>2. pc' = "source" /\ timed[Current].event.handover => ~hlt[Current]
      BY <2>4 DEF Check_Timed_Event, Goto, LateKind
    <3> QED
      BY <3>1, <3>2, NullFacts DEF Rescheduling, Searching, Locals
  <2>5. CASE Clear_Timed_Event
    <3>1. pc = "clear" /\ pc' = "pending" /\ k' = NullLocals
      BY <2>5 DEF Clear_Timed_Event, Return
    <3> QED
      BY <3>1, NullFacts DEF Rescheduling, Searching
  <2> QED
    BY <2>1, <2>2, <2>3, <2>4, <2>5
<1> QED
  BY <1>1, <1>2, <1>3, <1>4, QuietStep

\* A group's place is its own.
LEMMA PlaceIsOwn ==
  ASSUME NEW p \in Partitions, NEW i \in Indices(p), NEW h \in Groups,
         PartitionOf(h) = p, IndexOf(h) = i
  PROVE  h = GroupAt(p, i)
BY PolicyFacts

\* A bit is only cleared for a group that is looked at again.
LEMMA DeactivateSteps ==
  ASSUME RunsInv, Reschedule_Deactivate \/ Find_Deactivate
  PROVE  ActivityInv' /\ RunInv'
<1> USE DEF RunsInv
<1> DEFINE j == IF pc = "put_off" THEN sp[part].Active_Group_Index ELSE k.idx
           s == IF pc = "put_off" THEN k.sub ELSE ActiveSubject(part, k.idx)
<1>1. /\ UNCHANGED <<part, running, hlt, intr, events, remote, k>>
      /\ \/ pc = "put_off" /\ pc' = "look_again"
         \/ pc = "deactivate" /\ pc' = "recheck"
      /\ Deactivate_Group(part, j, s)
  BY DEF Reschedule_Deactivate, Find_Deactivate, Goto, subjects
<1>2. part \in Partitions /\ j \in Indices(part) /\ s \in Subjects /\ GroupOf[s] = GroupAt(part, j)
  <2>1. CASE pc = "put_off"
    <3>1. k.sub = Current
      BY <2>1 DEF ListInv, LocalsOK
    <3> QED
      BY <2>1, <3>1, CurrentFacts DEF ListInv, Current_Scheduling_Group_ID
  <2>2. CASE pc = "deactivate"
    BY <2>2, SearchFacts DEF Searching
  <2> QED
    BY <1>1, <2>1, <2>2
<1>3. \A h : Deactivating(h)' <=> h = GroupAt(part, j)
  <2>1. CASE pc = "put_off"
    BY <1>1, <1>2, <2>1 DEF Deactivating
  <2>2. CASE pc = "deactivate"
    BY <1>1, <2>2 DEF Deactivating, GroupAt
  <2> QED
    BY <1>1, <2>1, <2>2
<1> HIDE DEF j, s
<1>4. OnlyLinks /\ \A q \in Partitions : bits'[q] = IF q = part THEN bits[q] \ {j} ELSE bits[q]
  BY <1>1, <1>2, DeactivateStep DEF ListInv
<1>5. \A h \in Groups : Bit(h) => Bit(h)' \/ Deactivating(h)'
  BY <1>2, <1>3, <1>4, PolicyFacts DEF Bit
<1>6. /\ \A h \in Groups : ~Deactivating(h) /\ (BeingIndicated(h) => BeingIndicated(h)')
      /\ Rescheduling => Rescheduling'
      /\ pc' # "pending" /\ pc' # "source"
  BY <1>1 DEF Deactivating, BeingIndicated, Rescheduling, Searching
<1> QED
  BY <1>1, <1>4, <1>5, <1>6, QuietStep DEF OnlyLinks

\* The second look sets the bit again if the subject is awake.
LEMMA LookSteps ==
  ASSUME RunsInv, Reschedule_Look_Again \/ Find_Recheck
  PROVE  ActivityInv' /\ RunInv'
<1> USE DEF RunsInv
<1> DEFINE s == IF pc = "look_again" THEN k.sub ELSE ActiveSubject(part, k.idx)
           g == GroupOf[s]
<1>0. /\ pc \in {"look_again", "recheck"} /\ part \in Partitions /\ s \in Subjects
      /\ g \in GroupsOf(part) /\ g \in Groups /\ s = sg[g].Active_Subject
      /\ pc = "recheck" => g = GroupAt(part, k.idx)
      /\ Rescheduling => k.op = "reschedule"
  <2>1. pc \in {"look_again", "recheck"}
    BY DEF Reschedule_Look_Again, Find_Recheck, Goto
  <2>2. CASE pc = "look_again"
    <3>1. k.sub = Current /\ k.op = "reschedule"
      BY <2>2 DEF ListInv, LocalsOK
    <3> QED
      BY <2>2, <3>1, CurrentFacts DEF ListInv, Current
  <2>3. CASE pc = "recheck"
    BY <2>3, SearchFacts DEF Searching, ActiveSubject, Rescheduling
  <2> QED
    BY <2>1, <2>2, <2>3
<1>1. /\ UNCHANGED <<part, running, hlt, intr, events, remote, k>>
      /\ pc' \in {"find", "found", "none"}
      /\ Is_Active(s) => Activate_Group(part, g)
      /\ ~Is_Active(s) => UNCHANGED <<sp, sg, bits>>
  BY <1>0 DEF Reschedule_Look_Again, Find_Recheck, Goto, subjects, lists
<1>2. \A h \in Groups : Deactivating(h) <=> h = g
  BY <1>0 DEF Deactivating
<1>3. s = sg[g].Active_Subject /\ g \in Groups /\ (Awake(s) => Is_Active(s))
  BY <1>0 DEF Awake, Is_Active, Has_Work
<1> HIDE DEF s, g
<1>4. /\ \A h \in Groups : sg'[h].Active_Subject = sg[h].Active_Subject
      /\ \A q \in Partitions : sp'[q].Active_Group_Index = sp[q].Active_Group_Index
      /\ \A h \in Groups : Bit(h) => Bit(h)'
      /\ Is_Active(s) => IndexOf(g) \in bits'[PartitionOf(g)]
  <2>1. CASE Is_Active(s)
    <3>1. Is_Group_In_Timer_List(part, g)
      BY <1>0, <1>2, GroupsOfFacts DEF ListInv, InactiveHasTimer
    <3>2. OnlyLinks /\ \A q \in Partitions : bits'[q] = IF q = part THEN bits[q] \cup {IndexOf(g)} ELSE bits[q]
      BY <1>0, <1>1, <2>1, <3>1, ActivateStep DEF ListInv
    <3>3. PartitionOf(g) = part
      BY <1>0, GroupsOfFacts
    <3> QED
      BY <1>0, <3>2, <3>3, PolicyFacts DEF OnlyLinks, Bit
  <2>2. CASE ~Is_Active(s)
    BY <1>1, <2>2 DEF Bit
  <2> QED
    BY <2>1, <2>2
<1>5. \A h \in Groups : Deactivating(h) => Bit(h)' \/ ~Awake(sg[h].Active_Subject)
  BY <1>2, <1>3, <1>4 DEF Bit
<1>6. /\ \A h \in Groups : BeingIndicated(h) => BeingIndicated(h)'
      /\ Rescheduling => Rescheduling'
      /\ pc' # "pending" /\ pc' # "source"
  BY <1>0, <1>1 DEF BeingIndicated, Rescheduling, Searching
<1> QED
  BY <1>1, <1>4, <1>5, <1>6, QuietStep

\* Who keeps his group and his place.
LEMMA SubjectsStay ==
  ASSUME ListInv, sg' = sg, \A q \in Partitions : sp'[q].Active_Group_Index = sp[q].Active_Group_Index
  PROVE  /\ \A s \in Subjects : IsActiveSubject(s)' <=> IsActiveSubject(s)
         /\ \A q \in Partitions : CurrentOf(q)' = CurrentOf(q)
         /\ part' = part => /\ Current_Scheduling_Group_ID' = Current_Scheduling_Group_ID
                            /\ Current' = Current
<1>1. part \in Partitions
  BY DEF ListInv, TypeOK
<1> QED
  BY <1>1 DEF IsActiveSubject, CurrentOf, ActiveSubject, GroupAt, Current_Scheduling_Group_ID, Current

\* An event of the other CPU: the group counts as being indicated from then on.
LEMMA RemoteSetStep ==
  ASSUME RunsInv, Remote_Set_Event_Pending
  PROVE  ActivityInv' /\ RunInv'
<1> USE DEF RunsInv
<1>1. UNCHANGED <<part, sp, sg, bits, running, hlt, intr, pc, k>> /\ remote = Idle
  BY DEF Remote_Set_Event_Pending, lists
<1>2. PICK r \in RemoteEvents : /\ events' = [events EXCEPT ![r.target] = @ \cup {r.event}]
                                /\ remote' = [step |-> "indicate", ev |-> r]
  BY DEF Remote_Set_Event_Pending
<1>3. r.target \in Subjects
  BY PolicyAssumption DEF RemoteEvent
<1>4. \A h : ~BeingIndicated(h) /\ (BeingIndicated(h)' <=> h = GroupOf[r.target])
  BY <1>1, <1>2 DEF BeingIndicated, Idle
<1>5. \A s \in Subjects : s # r.target => events'[s] = events[s]
  BY <1>2, <1>3 DEF ListInv, TypeOK
<1>6. ASSUME NEW h \in Groups, Awake(sg[h].Active_Subject)', ~BeingIndicated(h)', ~Deactivating(h)'
      PROVE  Bit(h)'
  <2>1. sg[h].Active_Subject \in Subjects /\ sg[h].Active_Subject # r.target
    BY <1>4, <1>6, CurrentOfFacts DEF ListInv
  <2>2. Awake(sg[h].Active_Subject)
    BY <1>1, <1>5, <1>6, <2>1 DEF Awake
  <2>3. ~Deactivating(h)
    BY <1>1, <1>6 DEF Deactivating, GroupAt
  <2> QED
    BY <1>1, <1>4, <2>2, <2>3 DEF ActivityInv, Bit
<1>7. Current_Scheduling_Group_ID' = Current_Scheduling_Group_ID
  BY <1>1, SubjectsStay
<1>8. ASSUME pc' = "pending", k'.handled > 0 PROVE Bit(Current_Scheduling_Group_ID)'
  <2>1. Bit(Current_Scheduling_Group_ID)
    BY <1>1, <1>4, <1>8 DEF ActivityInv
  <2> QED
    BY <1>1, <1>7, <2>1 DEF Bit
<1>9. ActivityInv'
  BY <1>6, <1>8 DEF ActivityInv
<1>10. RunInv'
  BY <1>1, SubjectsStay DEF RunInv, Rescheduling
<1> QED
  BY <1>9, <1>10

\* A device interrupt indicates its subject if that is the active one.
LEMMA IrqStep ==
  ASSUME RunsInv, Handle_Irq
  PROVE  ActivityInv' /\ RunInv'
<1> USE DEF RunsInv
<1>1. /\ UNCHANGED <<part, sp, sg, running, hlt, events, k, remote>>
      /\ pc = "guest" /\ pc' = "pending"
  BY DEF Handle_Irq, Goto, lists
<1>2. PICK s \in IrqSubjects : intr' = [intr EXCEPT ![s] = TRUE] /\ Indicate_Activity_Same_CPU(s)
  BY DEF Handle_Irq
<1>3. s \in Subjects
  BY PolicyAssumption
<1>4. /\ \A q \in Partitions : bits[q] \subseteq bits'[q]
      /\ IsActiveSubject(s) => IndexOf(GroupOf[s]) \in bits'[PartitionOf(GroupOf[s])]
  BY <1>2, <1>3, SameCPUFacts DEF ListInv
<1>5. \A h \in Groups : Bit(h) => Bit(h)'
  BY <1>4, PolicyFacts DEF Bit
<1>6. ASSUME NEW h \in Groups, Awake(sg[h].Active_Subject)', ~BeingIndicated(h)', ~Deactivating(h)'
      PROVE  Bit(h)'
  <2>1. /\ sg[h].Active_Subject \in Subjects /\ GroupOf[sg[h].Active_Subject] = h
        /\ IsActiveSubject(sg[h].Active_Subject)
    BY CurrentOfFacts DEF ListInv
  <2>2. CASE sg[h].Active_Subject = s
    BY <1>4, <2>1, <2>2 DEF Bit
  <2>3. CASE sg[h].Active_Subject # s
    <3>1. Awake(sg[h].Active_Subject)
      BY <1>1, <1>2, <1>3, <1>6, <2>1, <2>3 DEF Awake, ListInv, TypeOK
    <3>2. ~BeingIndicated(h) /\ ~Deactivating(h)
      BY <1>1, <1>6 DEF BeingIndicated, Deactivating
    <3> QED
      BY <1>5, <3>1, <3>2 DEF ActivityInv
  <2> QED
    BY <2>2, <2>3
<1>7. k'.handled = 0
  BY <1>1, NullFacts DEF ListInv, LocalsOK
<1>8. ActivityInv'
  BY <1>6, <1>7 DEF ActivityInv
<1>9. RunInv'
  BY <1>1, SubjectsStay DEF RunInv, Rescheduling, Searching
<1> QED
  BY <1>8, <1>9

\* Falling asleep: only the current subject stops running.
LEMMA ReschedulePartitionStep ==
  ASSUME RunsInv, Reschedule_Partition
  PROVE  ActivityInv' /\ RunInv'
<1> USE DEF RunsInv
<1>1. /\ UNCHANGED <<part, sp, sg, bits, hlt, intr, events, remote>>
      /\ pc = "source" /\ pc' \in {"find", "put_off"}
      /\ k' = [k EXCEPT !.idx = sp[part].Active_Group_Index]
      /\ running' = running \/ running' = [running EXCEPT ![k.sub] = FALSE]
  BY DEF Reschedule_Partition, lists
<1>2. k \in LocalsType(part) /\ k.op = "reschedule" /\ k.sub = Current /\ k.sub \in Subjects
  BY <1>1, SourceFacts
<1>3. k'.op = "reschedule"
  BY <1>1, <1>2 DEF LocalsType
<1>4. \A s \in Subjects : (running'[s] => running[s]) /\ (s # Current => running'[s] = running[s])
  BY <1>1, <1>2 DEF ListInv, TypeOK
<1>5. ASSUME NEW h \in Groups, Awake(sg[h].Active_Subject)', ~BeingIndicated(h)', ~Deactivating(h)'
      PROVE  Bit(h)'
  <2>1. sg[h].Active_Subject \in Subjects
    BY CurrentOfFacts DEF ListInv
  <2>2. Awake(sg[h].Active_Subject)
    BY <1>1, <1>4, <1>5, <2>1 DEF Awake
  <2>3. ~BeingIndicated(h) /\ ~Deactivating(h)
    BY <1>1, <1>5 DEF BeingIndicated, Deactivating
  <2> QED
    BY <1>1, <2>2, <2>3 DEF ActivityInv, Bit
<1>6. ActivityInv'
  BY <1>1, <1>5 DEF ActivityInv
<1>7. /\ \A s \in Subjects : IsActiveSubject(s)' <=> IsActiveSubject(s)
      /\ \A q \in Partitions : CurrentOf(q)' = CurrentOf(q)
  BY <1>1, SubjectsStay
<1>8. /\ IsActiveSubject(Current) /\ Current \in Subjects /\ part \in Partitions
      /\ \A p \in Partitions : CurrentOf(p) \in Subjects /\ (p # part => CurrentOf(p) # Current)
  <2>1. part \in Partitions
    BY DEF ListInv, TypeOK
  <2> QED
    BY <2>1, CurrentOfFacts DEF ListInv
<1>9. \A s \in Subjects : ~IsActiveSubject(s) => running'[s]
  BY <1>4, <1>8 DEF RunInv
<1>10. Rescheduling' /\ ~Rescheduling
  BY <1>1, <1>3 DEF Rescheduling, Searching
<1>11. \A p \in Partitions : ~hlt[CurrentOf(p)] /\ p # part => running'[CurrentOf(p)]
  BY <1>4, <1>8, <1>10 DEF RunInv
<1>12. RunInv'
  BY <1>1, <1>7, <1>9, <1>10, <1>11 DEF RunInv
<1> QED
  BY <1>6, <1>12

\* The subject that is scheduled is marked as running; the bit of its group is set.
LEMMA ScheduleGroupStep ==
  ASSUME RunsInv, Schedule_Group
  PROVE  ActivityInv' /\ RunInv'
<1> USE DEF RunsInv
<1> DEFINE to == IF k.op = "update" THEN "timed" ELSE k.ret
           s == ActiveSubject(part, k.idx)
           wake == k.op = "update" /\ sp[part].Sleeping
<1>1. /\ pc = "found" /\ Return(to)
      /\ UNCHANGED <<part, sg, bits, intr, events, remote>>
  BY DEF Schedule_Group
<1>2. /\ hlt' = IF wake THEN [hlt EXCEPT ![Current] = FALSE] ELSE hlt
      /\ running' = [running EXCEPT ![s] = TRUE]
  BY DEF Schedule_Group
<1>3. sp' = [sp EXCEPT ![part] = [Active_Group_Index |-> k.idx,
                                  Earliest_Timer |-> @.Earliest_Timer,
                                  Sleeping |-> @.Sleeping /\ ~wake]]
  BY DEF Schedule_Group
<1>4. /\ part \in Partitions /\ k \in LocalsType(part) /\ k.idx \in Indices(part) /\ s \in Subjects
      /\ GroupAt(part, k.idx) \in Groups /\ s = sg[GroupAt(part, k.idx)].Active_Subject
      /\ PartitionOf(GroupAt(part, k.idx)) = part /\ IndexOf(GroupAt(part, k.idx)) = k.idx
      /\ k.idx \in bits[part] /\ (k.op = "reschedule" => k.sub = Current) /\ Current \in Subjects
  BY <1>1, SearchFacts, CurrentFacts DEF Searching, ActiveSubject, ListInv, LocalsOK
<1> HIDE DEF wake, s
<1>5. pc' \in {"timed", "pending", "clear"} /\ k'.handled = 0
  <2>1. to = "clear" => k.sub \in Subjects
    BY <1>4 DEF LocalsType
  <2>2. pc' = to /\ k'.handled = 0
    <3> HIDE DEF to
    <3> QED
      BY <1>1, <2>1, ReturnFacts DEF ListInv
  <2> QED
    BY <1>4, <2>2 DEF LocalsType
<1> HIDE DEF to
<1>6. /\ \A x \in Subjects : running'[x] <=> running[x] \/ x = s
      /\ \A x \in Subjects : hlt'[x] => hlt[x]
      /\ \A x \in Subjects : x # Current => hlt'[x] = hlt[x]
  BY <1>2, <1>4 DEF ListInv, TypeOK
<1>7. ASSUME NEW h \in Groups, Awake(sg[h].Active_Subject)', ~BeingIndicated(h)', ~Deactivating(h)'
      PROVE  Bit(h)'
  <2>1. /\ sg[h].Active_Subject \in Subjects /\ GroupOf[sg[h].Active_Subject] = h
        /\ GroupOf[s] = GroupAt(part, k.idx)
    BY <1>4, CurrentOfFacts DEF ListInv
  <2>2. CASE sg[h].Active_Subject = s
    BY <1>1, <1>4, <2>1, <2>2 DEF Bit
  <2>3. CASE sg[h].Active_Subject # s
    <3>1. Awake(sg[h].Active_Subject)
      BY <1>1, <1>6, <1>7, <2>1, <2>3 DEF Awake
    <3>2. ~BeingIndicated(h) /\ ~Deactivating(h)
      BY <1>1, <1>7 DEF BeingIndicated, Deactivating
    <3> QED
      BY <1>1, <3>1, <3>2 DEF ActivityInv, Bit
  <2> QED
    BY <2>2, <2>3
<1>8. ActivityInv'
  BY <1>5, <1>7 DEF ActivityInv
<1>9. \A x \in Subjects : ~IsActiveSubject(x)' => running'[x]
  BY <1>1, <1>6 DEF RunInv, IsActiveSubject
<1>10. \A q \in Partitions : CurrentOf(q)' = IF q = part THEN s ELSE CurrentOf(q)
  <2>1. sp \in [Partitions -> PartitionType]
    BY DEF ListInv, TypeOK, PartitionType
  <2>2. \A q \in Partitions : sp'[q].Active_Group_Index = IF q = part THEN k.idx ELSE sp[q].Active_Group_Index
    BY <1>3, <1>4, <2>1 DEF PartitionType
  <2> QED
    BY <1>1, <2>2 DEF CurrentOf, ActiveSubject, GroupAt, s
<1>11. ASSUME NEW q \in Partitions, ~hlt'[CurrentOf(q)'] PROVE running'[CurrentOf(q)']
  <2>1. CASE q = part
    BY <1>4, <1>6, <1>10, <2>1
  <2>2. CASE q # part
    <3>1. CurrentOf(q)' = CurrentOf(q) /\ CurrentOf(q) \in Subjects /\ CurrentOf(q) # Current
      BY <1>4, <1>10, <2>2, CurrentOfFacts DEF ListInv
    <3>2. ~hlt[CurrentOf(q)]
      BY <1>6, <1>11, <3>1
    <3> QED
      BY <1>6, <2>2, <3>1, <3>2 DEF RunInv
  <2> QED
    BY <2>1, <2>2
<1>12. RunInv'
  BY <1>5, <1>9, <1>11 DEF RunInv
<1> QED
  BY <1>8, <1>12

\* Nobody to schedule: the current subject is halted.
LEMMA ScheduleNoneStep ==
  ASSUME RunsInv, Schedule_None
  PROVE  ActivityInv' /\ RunInv'
<1> USE DEF RunsInv
<1> DEFINE to == IF k.op = "update" THEN "timed" ELSE k.ret
<1>1. /\ pc = "none" /\ Return(to)
      /\ UNCHANGED <<part, sg, bits, running, intr, events, remote>>
      /\ k.op = "update" => hlt' = hlt /\ sp' = sp
      /\ k.op # "update" => /\ hlt' = [hlt EXCEPT ![k.sub] = TRUE]
                            /\ sp' = [sp EXCEPT ![part].Sleeping = TRUE]
  BY DEF Schedule_None
<1>2. /\ part \in Partitions /\ k \in LocalsType(part) /\ k.op \in {"update", "reschedule"}
      /\ (k.op = "reschedule" => k.sub = Current) /\ Current \in Subjects
  BY <1>1, SearchFacts, CurrentFacts DEF Searching, LocalsType, ListInv
<1>3. pc' \in {"timed", "pending", "clear"} /\ k'.handled = 0
  <2>1. to = "clear" => k.sub \in Subjects
    BY <1>2 DEF LocalsType
  <2>2. pc' = to /\ k'.handled = 0
    <3> HIDE DEF to
    <3> QED
      BY <1>1, <2>1, ReturnFacts DEF ListInv
  <2> QED
    BY <1>2, <2>2 DEF LocalsType
<1> HIDE DEF to
<1>4. \A h \in Groups : /\ Awake(sg[h].Active_Subject)' <=> Awake(sg[h].Active_Subject)
                        /\ BeingIndicated(h)' <=> BeingIndicated(h)
                        /\ ~Deactivating(h) /\ (Bit(h)' <=> Bit(h))
  BY <1>1 DEF Awake, BeingIndicated, Deactivating, Bit
<1>5. ActivityInv'
  BY <1>3, <1>4 DEF ActivityInv
<1>6. \A q \in Partitions : sp'[q].Active_Group_Index = sp[q].Active_Group_Index
  <2>1. CASE k.op = "update"
    BY <1>1, <2>1
  <2>2. CASE k.op # "update"
    <3>1. sp' = [sp EXCEPT ![part].Sleeping = TRUE] /\ sp \in [Partitions -> PartitionType]
      BY <1>1, <2>2 DEF ListInv, TypeOK, PartitionType
    <3> QED
      BY <1>2, <3>1 DEF PartitionType
  <2> QED
    BY <2>1, <2>2
<1>7. /\ \A s \in Subjects : IsActiveSubject(s)' <=> IsActiveSubject(s)
      /\ \A q \in Partitions : CurrentOf(q)' = CurrentOf(q)
  BY <1>1, <1>6, SubjectsStay
<1>8. ASSUME NEW q \in Partitions, ~hlt'[CurrentOf(q)] PROVE running[CurrentOf(q)]
  <2>1. CurrentOf(q) \in Subjects /\ (q # part => CurrentOf(q) # Current) /\ CurrentOf(part) = Current
    BY <1>2, CurrentOfFacts DEF ListInv
  <2>2. CASE k.op = "update"
    BY <1>1, <1>8, <2>2 DEF RunInv, Rescheduling, Searching
  <2>3. CASE k.op # "update"
    <3>1. hlt' = [hlt EXCEPT ![Current] = TRUE] /\ hlt \in [Subjects -> BOOLEAN]
      BY <1>1, <1>2, <2>3 DEF ListInv, TypeOK
    <3>2. q # part /\ ~hlt[CurrentOf(q)]
      BY <1>2, <1>8, <2>1, <3>1
    <3> QED
      BY <3>2 DEF RunInv
  <2> QED
    BY <2>2, <2>3
<1>9. RunInv'
  BY <1>1, <1>3, <1>7, <1>8 DEF RunInv
<1> QED
  BY <1>5, <1>9

\* A handover comes from a subject that runs, so the bit of the group is set, and goes to
\* one that is not active, so it is marked as running.
LEMMA HandleSourceStep ==
  ASSUME RunsInv, Handle_Source_Event
  PROVE  ActivityInv' /\ RunInv'
<1> USE DEF RunsInv
<1> DEFINE e == k.ev
           G == Current_Scheduling_Group_ID
<1>1. /\ pc = "source" /\ Return(k.ret)
      /\ UNCHANGED <<part, sp, running, hlt, intr, remote>>
  BY DEF Handle_Source_Event
<1>2. IF e.event # NoEvent /\ e.target # NoSubject
        THEN /\ events' = [events EXCEPT ![e.target] = @ \cup {e.event}]
             /\ Indicate_Activity_Same_CPU(e.target)
        ELSE events' = events /\ bits' = bits
  BY DEF Handle_Source_Event
<1>3. sg' = IF e.handover THEN [sg EXCEPT ![G].Active_Subject = e.target] ELSE sg
  BY DEF Handle_Source_Event
<1>4. /\ k.sub = Current /\ k.sub \in Subjects /\ e \in SourceEvent /\ k.ret \in {"pending", "clear"}
      /\ e.handover => e.target \in Subjects /\ GroupOf[e.target] = G
      /\ G \in Groups /\ part \in Partitions
  BY <1>1, SourceFacts, CurrentFacts DEF ListInv
<1>5. pc' \in {"pending", "clear"} /\ k'.handled = 0
  BY <1>1, <1>4, ReturnFacts DEF ListInv
<1>7. e.handover => running[Current]
  <2> SUFFICES ASSUME e.handover PROVE running[Current]
    OBVIOUS
  <2>1. ~hlt[Current]
    BY <1>1, <1>4 DEF RunInv
  <2>2. ~Rescheduling
    BY <1>1 DEF Rescheduling, Searching
  <2> QED
    BY <1>4, <2>1, <2>2, CurrentOfFacts DEF RunInv, ListInv
<1>a. Current = sg[G].Active_Subject
  BY DEF Current
<1>b. \A q \in Partitions : CurrentOf(q) = sg[GroupAt(q, sp[q].Active_Group_Index)].Active_Subject
                            /\ CurrentOf(q)' = sg'[GroupAt(q, sp'[q].Active_Group_Index)].Active_Subject
  BY DEF CurrentOf, ActiveSubject, GroupAt
<1>c. G = GroupAt(part, sp[part].Active_Group_Index)
  BY DEF Current_Scheduling_Group_ID
<1> HIDE DEF e, G
<1>8. \A h \in Groups : sg'[h].Active_Subject = IF h = G /\ e.handover THEN e.target
                                                ELSE sg[h].Active_Subject
  <2>1. sg \in [Groups -> GroupType]
    BY DEF ListInv, TypeOK, GroupType
  <2> QED
    BY <1>3, <1>4, <2>1 DEF GroupType
<1>9. /\ \A h \in Groups : Bit(h) => Bit(h)'
      /\ \A s \in Subjects : events'[s] # {} => events[s] # {} \/ s = e.target
      /\ \A h \in Groups : events'[sg[h].Active_Subject] # {} =>
                             events[sg[h].Active_Subject] # {} \/ Bit(h)'
  <2>1. CASE e.event # NoEvent /\ e.target # NoSubject
    <3>1. e.target \in Subjects
      BY <1>4, <2>1 DEF SourceEvent
    <3>2. events' = [events EXCEPT ![e.target] = @ \cup {e.event}] /\ Indicate_Activity_Same_CPU(e.target)
      BY <1>2, <2>1
    <3>3. /\ \A q \in Partitions : bits[q] \subseteq bits'[q]
          /\ IsActiveSubject(e.target) => IndexOf(GroupOf[e.target]) \in bits'[PartitionOf(GroupOf[e.target])]
      BY <3>1, <3>2, SameCPUFacts DEF ListInv
    <3>4. \A s \in Subjects : s # e.target => events'[s] = events[s]
      BY <3>1, <3>2 DEF ListInv, TypeOK
    <3>5. \A h \in Groups : Bit(h) => Bit(h)'
      BY <3>3, PolicyFacts DEF Bit
    <3>6. ASSUME NEW h \in Groups, events'[sg[h].Active_Subject] # {}
          PROVE  events[sg[h].Active_Subject] # {} \/ Bit(h)'
      <4>1. /\ sg[h].Active_Subject \in Subjects /\ GroupOf[sg[h].Active_Subject] = h
            /\ IsActiveSubject(sg[h].Active_Subject)
        BY CurrentOfFacts DEF ListInv
      <4>2. CASE sg[h].Active_Subject = e.target
        BY <3>3, <4>1, <4>2 DEF Bit
      <4>3. CASE sg[h].Active_Subject # e.target
        BY <3>4, <3>6, <4>1, <4>3
      <4> QED
        BY <4>2, <4>3
    <3> QED
      BY <3>4, <3>5, <3>6
  <2>2. CASE ~(e.event # NoEvent /\ e.target # NoSubject)
    BY <1>2, <2>2 DEF Bit
  <2> QED
    BY <2>1, <2>2
<1>10. ASSUME NEW h \in Groups, Awake(sg[h].Active_Subject)', ~BeingIndicated(h)', ~Deactivating(h)'
       PROVE  Bit(h)'
  <2>1. ~BeingIndicated(h) /\ ~Deactivating(h)
    BY <1>1, <1>10 DEF BeingIndicated, Deactivating
  <2>2. CASE h = G /\ e.handover
    <3>1. Awake(sg[h].Active_Subject)
      BY <1>7, <1>a, <2>2 DEF Awake
    <3> QED
      BY <1>9, <2>1, <3>1 DEF ActivityInv
  <2>3. CASE ~(h = G /\ e.handover)
    <3>1. sg'[h].Active_Subject = sg[h].Active_Subject
      BY <1>8, <2>3
    <3>2. Awake(sg[h].Active_Subject) \/ Bit(h)'
      BY <1>1, <1>9, <1>10, <3>1 DEF Awake
    <3> QED
      BY <1>9, <2>1, <3>2 DEF ActivityInv
  <2> QED
    BY <2>2, <2>3
<1>11. ActivityInv'
  BY <1>5, <1>10 DEF ActivityInv
<1>12. ASSUME NEW s \in Subjects, ~IsActiveSubject(s)' PROVE running[s]
  <2>1. GroupOf[s] \in Groups
    BY PolicyAssumption
  <2>2. CASE IsActiveSubject(s)
    <3>1. GroupOf[s] = G /\ e.handover
      BY <1>8, <1>12, <2>1, <2>2 DEF IsActiveSubject
    <3>2. s = Current
      BY <1>a, <2>2, <3>1 DEF IsActiveSubject
    <3> QED
      BY <1>7, <3>1, <3>2
  <2>3. CASE ~IsActiveSubject(s)
    BY <2>3 DEF RunInv
  <2> QED
    BY <2>2, <2>3
<1>13. ASSUME NEW q \in Partitions, ~hlt[CurrentOf(q)'] PROVE running[CurrentOf(q)']
  <2>1. GroupAt(q, sp[q].Active_Group_Index) \in Groups
    BY CurrentFacts DEF ListInv, TypeOK
  <2>2. ~Rescheduling
    BY <1>1 DEF Rescheduling, Searching
  <2>3. CASE CurrentOf(q)' = CurrentOf(q)
    BY <1>13, <2>2, <2>3 DEF RunInv
  <2>4. CASE CurrentOf(q)' # CurrentOf(q)
    <3>1. e.handover /\ CurrentOf(q)' = e.target /\ GroupAt(q, sp[q].Active_Group_Index) = G
      BY <1>1, <1>8, <1>b, <2>1, <2>4
    <3>2. ~IsActiveSubject(e.target) /\ e.target \in Subjects
      BY <1>4, <1>b, <2>4, <3>1 DEF IsActiveSubject
    <3> QED
      BY <3>1, <3>2 DEF RunInv
  <2> QED
    BY <2>3, <2>4
<1>14. RunInv'
  BY <1>1, <1>5, <1>12, <1>13 DEF RunInv
<1> QED
  BY <1>11, <1>14

\* Steps on the current subject, which was awake or whose events are being handled.
LEMMA CurrentStep ==
  ASSUME RunsInv, UNCHANGED <<part, sp, sg, bits, remote>>,
         pc \in {"pending", "inject"}, pc' \in {"pending", "inject", "guest"},
         \A s \in Subjects : s # Current =>
           /\ running'[s] = running[s] /\ hlt'[s] = hlt[s]
           /\ intr'[s] = intr[s] /\ events'[s] = events[s],
         (Awake(Current)' \/ (pc' = "pending" /\ k'.handled > 0)) =>
           Awake(Current) \/ (pc = "pending" /\ k.handled > 0),
         running[Current] => running'[Current],
         ~hlt'[Current] => running'[Current] \/ ~hlt[Current]
  PROVE  ActivityInv' /\ RunInv'
<1> USE DEF RunsInv
<1> DEFINE G == Current_Scheduling_Group_ID
<1>1. /\ G \in Groups /\ Current = sg[G].Active_Subject /\ Current \in Subjects /\ GroupOf[Current] = G
      /\ IsActiveSubject(Current) /\ part \in Partitions /\ Current' = Current /\ G' = G
  BY CurrentFacts, SubjectsStay DEF ListInv, Current, IsActiveSubject
<1>2. \A h \in Groups : /\ ~Deactivating(h) /\ (Bit(h)' <=> Bit(h))
                        /\ BeingIndicated(h)' <=> BeingIndicated(h)
  BY DEF Deactivating, Bit, BeingIndicated
<1>3. Awake(Current) \/ (pc = "pending" /\ k.handled > 0) => Bit(G) \/ BeingIndicated(G)
  BY <1>1, <1>2 DEF ActivityInv
<1>4. (Bit(G)' <=> Bit(G)) /\ (BeingIndicated(G)' <=> BeingIndicated(G))
  BY <1>1 DEF Bit, BeingIndicated
<1> HIDE DEF G
<1>5. ASSUME NEW h \in Groups, Awake(sg[h].Active_Subject)', ~BeingIndicated(h)', ~Deactivating(h)'
      PROVE  Bit(h)'
  <2>1. sg[h].Active_Subject \in Subjects /\ GroupOf[sg[h].Active_Subject] = h
    BY CurrentOfFacts DEF ListInv
  <2>2. CASE sg[h].Active_Subject = Current
    <3>1. h = G
      BY <1>1, <2>1, <2>2
    <3>2. Awake(Current)'
      BY <1>1, <1>5, <2>2 DEF Awake
    <3> QED
      BY <1>2, <1>3, <1>5, <3>1, <3>2 DEF Bit, BeingIndicated
  <2>3. CASE sg[h].Active_Subject # Current
    <3>1. Awake(sg[h].Active_Subject)
      BY <1>5, <2>1, <2>3 DEF Awake
    <3> QED
      BY <1>2, <1>5, <3>1 DEF ActivityInv
  <2> QED
    BY <2>2, <2>3
<1>6. pc' = "pending" /\ k'.handled > 0 => Bit(G)' \/ BeingIndicated(G)'
  BY <1>3, <1>4
<1>7. ActivityInv'
  BY <1>5, <1>6 DEF ActivityInv, G
<1>8. /\ \A s \in Subjects : IsActiveSubject(s)' <=> IsActiveSubject(s)
      /\ \A q \in Partitions : CurrentOf(q)' = CurrentOf(q)
  BY SubjectsStay DEF ListInv
<1>9. \A s \in Subjects : ~IsActiveSubject(s) => running'[s]
  BY <1>1 DEF RunInv
<1>10. ~Rescheduling
  BY DEF Rescheduling, Searching
<1>11. ASSUME NEW q \in Partitions, ~hlt'[CurrentOf(q)] PROVE running'[CurrentOf(q)]
  <2>1. CurrentOf(q) \in Subjects
    BY CurrentOfFacts DEF ListInv
  <2>2. ~hlt[CurrentOf(q)] => running[CurrentOf(q)]
    BY <1>10 DEF RunInv
  <2>3. CASE CurrentOf(q) = Current
    BY <1>11, <2>2, <2>3
  <2>4. CASE CurrentOf(q) # Current
    BY <1>11, <2>1, <2>2, <2>4
  <2> QED
    BY <2>3, <2>4
<1>12. RunInv'
  BY <1>8, <1>9, <1>11 DEF RunInv
<1> QED
  BY <1>7, <1>12

\* Consume_Event, the end of its loop and Inject_Interrupt.
LEMMA CurrentSteps ==
  ASSUME RunsInv, Consume_Event \/ Target_Events_Handled \/ Inject_Interrupt
  PROVE  ActivityInv' /\ RunInv'
<1> USE DEF RunsInv
<1>1. UNCHANGED <<part, sp, sg, bits, remote>>
  BY DEF Consume_Event, Target_Events_Handled, Inject_Interrupt, lists
<1>2. Current \in Subjects /\ Current' = Current
  BY <1>1, CurrentFacts, SubjectsStay DEF ListInv
<1>3. /\ running \in [Subjects -> BOOLEAN] /\ hlt \in [Subjects -> BOOLEAN]
      /\ intr \in [Subjects -> BOOLEAN] /\ events \in [Subjects -> SUBSET EventIDs]
  BY DEF ListInv, TypeOK
<1>4. CASE Consume_Event
  <2> DEFINE e == Max(events[Current])
             reset == TargetKind(e) = "reset"
             inject == TargetKind(e) = "inject"
  <2>1. /\ pc = "pending" /\ pc' = pc /\ events[Current] # {}
        /\ events' = [events EXCEPT ![Current] = IF reset THEN {} ELSE @ \ {e}]
        /\ intr' = [intr EXCEPT ![Current] = ~reset /\ (@ \/ inject)]
        /\ hlt' = [hlt EXCEPT ![Current] = @ /\ ~reset]
        /\ running' = [running EXCEPT ![Current] = @ \/ reset]
    BY <1>4 DEF Consume_Event, More_Events
  <2> HIDE DEF e, reset, inject
  <2>2. /\ \A s \in Subjects : s # Current =>
             /\ running'[s] = running[s] /\ hlt'[s] = hlt[s]
             /\ intr'[s] = intr[s] /\ events'[s] = events[s]
        /\ running'[Current] <=> running[Current] \/ reset
        /\ hlt'[Current] <=> hlt[Current] /\ ~reset
    BY <1>2, <1>3, <2>1
  <2>3. Awake(Current)
    BY <2>1 DEF Awake
  <2> QED
    BY <1>1, <2>1, <2>2, <2>3, CurrentStep
<1>5. CASE Target_Events_Handled
  <2>1. /\ pc = "pending" /\ pc' = "inject" /\ UNCHANGED <<hlt, intr, events>>
        /\ running' = [running EXCEPT ![Current] = @ \/ k.handled > 0]
    BY <1>5 DEF Target_Events_Handled, Goto
  <2>2. /\ \A s \in Subjects : s # Current => running'[s] = running[s]
        /\ running'[Current] <=> running[Current] \/ k.handled > 0
    BY <1>2, <1>3, <2>1
  <2>3. Awake(Current)' => Awake(Current) \/ k.handled > 0
    BY <1>2, <2>1, <2>2 DEF Awake
  <2> QED
    BY <1>1, <2>1, <2>2, <2>3, CurrentStep
<1>6. CASE Inject_Interrupt
  <2>1. /\ pc = "inject" /\ pc' = "guest" /\ UNCHANGED <<events>>
    BY <1>6 DEF Inject_Interrupt, Goto
  <2>2. PICK inject \in BOOLEAN :
          /\ inject => intr[Current]
          /\ intr' = [intr EXCEPT ![Current] = @ /\ ~inject]
          /\ running' = [running EXCEPT ![Current] = @ \/ inject]
          /\ hlt' = [hlt EXCEPT ![Current] = @ /\ ~inject]
    BY <1>6 DEF Inject_Interrupt
  <2>3. /\ \A s \in Subjects : s # Current =>
             running'[s] = running[s] /\ hlt'[s] = hlt[s] /\ intr'[s] = intr[s]
        /\ running'[Current] <=> running[Current] \/ inject
        /\ hlt'[Current] <=> hlt[Current] /\ ~inject
        /\ intr'[Current] => intr[Current]
    BY <1>2, <1>3, <2>2
  <2>4. Awake(Current)' => Awake(Current)
    BY <1>2, <2>1, <2>2, <2>3 DEF Awake
  <2> QED
    BY <1>1, <2>1, <2>3, <2>4, CurrentStep
<1> QED
  BY <1>4, <1>5, <1>6

\* All groups are indicated and all subjects running after Init.
LEMMA InitRuns == Init => RunsInv
<1> SUFFICES ASSUME Init PROVE RunsInv
  OBVIOUS
<1>1. ListInv
  BY InitList
<1>2. \A h \in Groups : Bit(h)
  BY PolicyFacts DEF Init, Bit
<1>3. ActivityInv
  BY <1>2 DEF Init, ActivityInv
<1>4. RunInv
  BY <1>1, CurrentOfFacts DEF Init, RunInv, ListInv
<1> QED
  BY <1>1, <1>3, <1>4 DEF RunsInv

\* What has expired late stays on record.
LEMMA LateGrows == [Next]_vars => late \subseteq late'
BY DEF Next, Kernel, Guest, Remote, Tick, vars, Update_Timer_List, Reschedule_Partition,
       Reschedule_Deactivate, Reschedule_Look_Again, Find_Next, Find_Check, Find_Deactivate,
       Find_Recheck, Schedule_Group, Schedule_None, Check_Timed_Event, Handle_Source_Event,
       Clear_Timed_Event, Consume_Event, Target_Events_Handled, Inject_Interrupt, Set_Timed_Event,
       Handle_Hypercall, Handle_Trap, Source_Event_Exit, Handle_Irq, Handle_IPI, Interrupt_Window,
       Handle_Timer_Expiry, Remote_Set_Event_Pending, Remote_Indicate_Activity, Remote_Send_IPI

\* ListInv, ActivityInv and RunInv together are preserved by every step after which no
\* timed handover has expired for a halted subject.
LEMMA NextRuns == ASSUME RunsInv, [Next]_vars, "handover" \notin late' PROVE RunsInv'
<1>1. ListInv'
  BY NextList DEF RunsInv
<1>2. ActivityInv' /\ RunInv'
  <2>1. CASE Kernel
    BY <2>1, SearchSteps, DeactivateSteps, LookSteps, ReschedulePartitionStep, ScheduleGroupStep,
       ScheduleNoneStep, HandleSourceStep, CurrentSteps DEF Kernel
  <2>2. CASE Guest
    BY <2>2, GuestSteps, IrqStep DEF Guest
  <2>3. CASE Remote
    BY <2>3, RemoteSetStep, RemoteSteps DEF Remote
  <2>4. CASE Tick
    BY <2>4, GuestSteps
  <2>5. CASE UNCHANGED vars
    <3>1. UNCHANGED <<part, sp, sg, bits, running, hlt, intr, events, pc, k, remote>>
      BY <2>5 DEF vars, lists, subjects
    <3>2. /\ \A h \in Groups : /\ Deactivating(h) => Deactivating(h)'
                               /\ BeingIndicated(h) => BeingIndicated(h)'
                               /\ Bit(h) => Bit(h)'
          /\ Rescheduling => Rescheduling'
          /\ pc' = "source" /\ (k'.ret = "pending" \/ k'.ev.handover) => ~hlt[k'.sub]
      BY <3>1 DEF Deactivating, BeingIndicated, Bit, GroupAt, Rescheduling, RunsInv, RunInv
    <3> QED
      BY <3>1, <3>2, QuietStep DEF RunsInv
  <2> QED
    BY <2>1, <2>2, <2>3, <2>4, <2>5 DEF Next
<1> QED
  BY <1>1, <1>2 DEF RunsInv

\* And so they hold until one has.
RunsOK == ListInv /\ ("handover" \notin late => RunsInv)

LEMMA RunsKept == Safety => []RunsOK
<1>1. Init => RunsOK
  BY InitRuns DEF RunsOK, RunsInv
<1>2. RunsOK /\ [Next]_vars => RunsOK'
  BY NextList, NextRuns, LateGrows DEF RunsOK
<1> QED
  BY <1>1, <1>2, PTL DEF Safety

\* No wakeup is lost: whatever the other CPU sends while this CPU puts a group to
\* sleep, whenever a guest runs, a group whose active subject runs or has an event or
\* interrupt pending is indicated, or about to be, until a timed event with a handover
\* expires for a subject that is halted.
THEOREM ActivityKept == Safety => []("handover" \notin late => NoLostActivity)
<1>1. RunsOK => ("handover" \notin late => NoLostActivity)
  BY DEF RunsOK, RunsInv, ActivityInv, NoLostActivity, Deactivating
<1> QED
  BY <1>1, RunsKept, PTL

\* A subject that executes is marked as running, so that Find_Next_Active_Scheduling_Group
\* does not pass over it.
LEMMA ExecutingRuns == RunsInv => ExecutingIsRunning
<1> SUFFICES ASSUME RunsInv, GuestRuns PROVE running[Current]
  BY DEF ExecutingIsRunning
<1>1. part \in Partitions /\ CurrentOf(part) = Current
  BY CurrentOfFacts DEF RunsInv, ListInv, TypeOK
<1>2. ~Rescheduling
  BY DEF GuestRuns, Rescheduling, Searching
<1> QED
  BY <1>1, <1>2 DEF RunsInv, RunInv, GuestRuns

-----------------------------------------------------------------------------
(* HaltInv, while no timed event with an action has expired for a halted subject *)

HaltsInv == RunsInv /\ HaltInv

\* HaltedIsCurrent, seen from the halted subject.
LEMMA HaltFacts ==
  ASSUME TypeOK
  PROVE  HaltedIsCurrent <=>
           \A s \in Subjects : hlt[s] => LET p == PartitionOf(GroupOf[s])
                                         IN  sp[p].Sleeping /\ s = CurrentOf(p)
BY PolicyAssumption, GroupsOfFacts, PolicyFacts DEF HaltedIsCurrent

\* Steps that leave the partitions as they are and halt nobody.
LEMMA NobodyHalted ==
  ASSUME HaltsInv, OnlyLinks, \A s \in Subjects : hlt'[s] => hlt[s],
         Rescheduling' \/ (pc' = "source" /\ k'.ev.action # "none") =>
           part' = part /\ ~hlt[Current]
  PROVE  HaltInv'
<1> USE DEF HaltsInv, RunsInv
<1>1. \A p \in Partitions : CurrentOf(p)' = CurrentOf(p)
  <2>1. \A p \in Partitions : GroupAt(p, sp[p].Active_Group_Index) \in Groups
    BY CurrentFacts DEF ListInv, TypeOK
  <2> QED
    BY <2>1 DEF OnlyLinks, CurrentOf, ActiveSubject, GroupAt
<1>2. HaltedIsCurrent'
  BY <1>1 DEF HaltInv, HaltedIsCurrent, OnlyLinks
<1>3. ASSUME Rescheduling' \/ (pc' = "source" /\ k'.ev.action # "none") PROVE ~hlt'[Current']
  <2>1. Current' = Current /\ Current \in Subjects
    BY <1>3, LinksFacts, CurrentFacts DEF ListInv
  <2> QED
    BY <1>3, <2>1
<1> QED
  BY <1>2, <1>3 DEF HaltInv

\* A step that does not touch the arrays.
LEMMA SameLists ==
  ASSUME TypeOK, UNCHANGED <<sp, sg>>
  PROVE  OnlyLinks
BY DEF OnlyLinks, TypeOK, PartitionType, GroupType

\* The steps on the lists and on the locals of a search.
LEMMA ListSteps ==
  ASSUME ListInv,
         Update_Timer_List \/ Reschedule_Deactivate \/ Reschedule_Look_Again \/ Find_Next
         \/ Find_Check \/ Find_Deactivate \/ Find_Recheck
  PROVE  OnlyLinks /\ UNCHANGED <<part, hlt>> /\ (Rescheduling' => Rescheduling)
<1> USE DEF ListInv
<1>1. CASE Update_Timer_List
  <2>1. OnlyLinks
    BY <1>1, UpdateStep DEF TypeOK
  <2>2. pc' = "find" /\ k'.op = "update" /\ UNCHANGED <<part, hlt>>
    BY <1>1, NullFacts DEF Update_Timer_List, Goto, subjects, NullLocals, Locals
  <2> QED
    BY <2>1, <2>2 DEF Rescheduling
<1>2. CASE Reschedule_Deactivate
  <2>1. /\ pc = "put_off" /\ Deactivate_Group(part, sp[part].Active_Group_Index, k.sub)
        /\ UNCHANGED <<part, hlt, k>>
    BY <1>2 DEF Reschedule_Deactivate, Goto, subjects
  <2>2. k.sub = Current
    BY <2>1 DEF LocalsOK
  <2>3. /\ part \in Partitions /\ sp[part].Active_Group_Index \in Indices(part) /\ k.sub \in Subjects
        /\ GroupOf[k.sub] = GroupAt(part, sp[part].Active_Group_Index)
    BY <2>2, CurrentFacts DEF Current_Scheduling_Group_ID
  <2>4. OnlyLinks
    BY <2>1, <2>3, DeactivateStep
  <2> QED
    BY <2>1, <2>4 DEF Rescheduling
<1>3. CASE Find_Deactivate
  <2>1. /\ pc = "deactivate" /\ pc' = "recheck" /\ UNCHANGED <<part, hlt, k>>
        /\ Deactivate_Group(part, k.idx, ActiveSubject(part, k.idx))
    BY <1>3 DEF Find_Deactivate, Goto, subjects
  <2>2. OnlyLinks
    BY <2>1, SearchFacts, DeactivateStep DEF Searching
  <2> QED
    BY <2>1, <2>2 DEF Rescheduling, Searching
<1>4. CASE Reschedule_Look_Again
  <2>1. pc = "look_again" /\ UNCHANGED <<part, hlt>>
    BY <1>4 DEF Reschedule_Look_Again, Goto, subjects
  <2>2. CASE Is_Active(k.sub)
    <3>1. k.sub = Current
      BY <2>1 DEF LocalsOK
    <3>2. /\ part \in Partitions /\ GroupOf[k.sub] \in GroupsOf(part)
          /\ sp[part].Active_Group_Index \in Indices(part)
          /\ GroupOf[k.sub] = GroupAt(part, sp[part].Active_Group_Index)
      BY <3>1, CurrentFacts DEF Current_Scheduling_Group_ID
    <3>3. Is_Group_In_Timer_List(part, GroupOf[k.sub])
      BY <2>1, <3>2 DEF InactiveHasTimer, Deactivating
    <3>4. OnlyLinks
      BY <1>4, <2>2, <3>2, <3>3, ActivateStep DEF Reschedule_Look_Again
    <3> QED
      BY <2>1, <3>4 DEF Rescheduling
  <2>3. CASE ~Is_Active(k.sub)
    BY <1>4, <2>1, <2>3, SameLists DEF Reschedule_Look_Again, lists, Rescheduling
  <2> QED
    BY <2>2, <2>3
<1>5. CASE Find_Recheck
  <2>1. pc = "recheck" /\ UNCHANGED <<part, hlt, k>> /\ pc' \in {"found", "none", "find"}
    BY <1>5 DEF Find_Recheck, Goto, subjects
  <2>2. OnlyLinks
    <3>1. CASE Is_Active(ActiveSubject(part, k.idx))
      <4>1. /\ part \in Partitions /\ k.idx \in Indices(part)
            /\ GroupAt(part, k.idx) \in GroupsOf(part)
        BY <2>1, SearchFacts DEF Searching
      <4>2. Is_Group_In_Timer_List(part, GroupAt(part, k.idx))
        BY <2>1, <4>1 DEF InactiveHasTimer, Deactivating
      <4> QED
        BY <1>5, <3>1, <4>1, <4>2, ActivateStep DEF Find_Recheck
    <3>2. CASE ~Is_Active(ActiveSubject(part, k.idx))
      BY <1>5, <3>2, SameLists DEF Find_Recheck, lists
    <3> QED
      BY <3>1, <3>2
  <2> QED
    BY <2>1, <2>2 DEF Rescheduling, Searching
<1>6. CASE Find_Next
  <2>1. k \in LocalsType(part) /\ k' = [k EXCEPT !.idx = Successor_Group(part, k.idx)] /\ pc = "find"
        /\ UNCHANGED <<sp, sg, part, hlt>> /\ pc' \in {"check", "none", "find"}
    BY <1>6 DEF Find_Next, TypeOK, LocalsType, lists, subjects
  <2>2. k'.op = k.op
    BY <2>1 DEF LocalsType
  <2> QED
    BY <2>1, <2>2, SameLists DEF Rescheduling, Searching
<1>7. CASE Find_Check
  <2> DEFINE g == GroupAt(part, k.idx)
             active == Is_Active(ActiveSubject(part, k.idx))
  <2>1. /\ SetLists(IF active /\ Is_Group_In_Timer_List(part, g)
                     THEN Remove_Group_From_Timer_List(part, g) ELSE Lists)
        /\ UNCHANGED <<part, hlt, k>> /\ pc = "check" /\ pc' \in {"found", "deactivate"}
    BY <1>7 DEF Find_Check, Goto, subjects
  <2>2. part \in Partitions /\ g \in GroupsOf(part)
    BY <2>1, SearchFacts DEF Searching
  <2> HIDE DEF g, active
  <2>3. OnlyLinks
    <3>1. CASE active /\ Is_Group_In_Timer_List(part, g)
      BY <2>1, <2>2, <3>1, RemoveStep
    <3>2. CASE ~(active /\ Is_Group_In_Timer_List(part, g))
      BY <2>1, <3>2, SameLists DEF SetLists, Lists
    <3> QED
      BY <3>1, <3>2
  <2> QED
    BY <2>1, <2>3 DEF Rescheduling, Searching
<1> QED
  BY <1>1, <1>2, <1>3, <1>4, <1>5, <1>6, <1>7

\* Steps that schedule nobody.
LEMMA OtherHalts ==
  ASSUME HaltsInv, late' = {},
         Tick \/ Guest \/ Remote \/ Check_Timed_Event \/ Clear_Timed_Event
         \/ Consume_Event \/ Target_Events_Handled \/ Inject_Interrupt
  PROVE  HaltInv'
<1> USE DEF HaltsInv, RunsInv, ListInv
<1>1. OnlyLinks
  <2>1. UNCHANGED <<sp, sg>>
    BY DEF Tick, Guest, Remote, Check_Timed_Event, Clear_Timed_Event, Consume_Event,
           Target_Events_Handled, Inject_Interrupt, Set_Timed_Event, Handle_Hypercall, Handle_Trap,
           Source_Event_Exit, Handle_Irq, Handle_IPI, Interrupt_Window, Handle_Timer_Expiry,
           Remote_Set_Event_Pending, Remote_Indicate_Activity, Remote_Send_IPI, lists
  <2> QED
    BY <2>1, SameLists
<1>2. CASE Tick \/ Set_Timed_Event \/ Remote
  <2>1. UNCHANGED <<part, pc, k, hlt>>
    BY <1>2 DEF Tick, Set_Timed_Event, Remote, Remote_Set_Event_Pending, Remote_Indicate_Activity,
                Remote_Send_IPI, subjects
  <2>2. Rescheduling' <=> Rescheduling
    BY <2>1 DEF Rescheduling
  <2>3. Rescheduling' \/ (pc' = "source" /\ k'.ev.action # "none") => ~hlt[Current]
    BY <2>1, <2>2 DEF HaltInv
  <2> QED
    BY <1>1, <2>1, <2>3, NobodyHalted
<1>3. CASE /\ ~(Tick \/ Set_Timed_Event \/ Remote)
           /\ ~(Consume_Event \/ Target_Events_Handled \/ Inject_Interrupt)
  <2>1. hlt' = hlt /\ pc' \in {"source", "pending", "timers"}
    BY <1>3 DEF Guest, Check_Timed_Event, Clear_Timed_Event, Handle_Hypercall, Handle_Trap,
                Source_Event_Exit, Handle_Irq, Handle_IPI, Interrupt_Window, Handle_Timer_Expiry,
                Return, Goto, subjects
  <2>2. ~Rescheduling'
    BY <2>1 DEF Rescheduling, Searching
  <2>3. ASSUME pc' = "source", k'.ev.action # "none" PROVE part' = part /\ ~hlt[Current]
    <3>1. CASE Handle_Hypercall \/ Handle_Trap
      BY <3>1 DEF Handle_Hypercall, Handle_Trap, Source_Event_Exit, GuestRuns
    <3>2. CASE Check_Timed_Event
      <4> DEFINE e == timed[Current].event
      <4>1. /\ part' = part /\ k' = Locals("reschedule", Current, e, "clear")
            /\ late' = late \cup IF hlt[Current] THEN LateKind(e) ELSE {}
        BY <2>3, <3>2 DEF Check_Timed_Event, Goto
      <4>2. e.action # "none"
        BY <2>3, <4>1 DEF Locals
      <4> QED
        BY <4>1, <4>2 DEF LateKind
    <3> QED
      BY <1>3, <2>3, <3>1, <3>2 DEF Guest, Clear_Timed_Event, Handle_Irq, Handle_IPI,
         Interrupt_Window, Handle_Timer_Expiry, Return, Goto
  <2> QED
    BY <1>1, <2>1, <2>2, <2>3, NobodyHalted
<1>4. CASE Consume_Event \/ Target_Events_Handled \/ Inject_Interrupt
  <2>1. pc' \in {"pending", "inject", "guest"}
    BY <1>4 DEF Consume_Event, Target_Events_Handled, Inject_Interrupt, Goto
  <2>2. \E reset \in BOOLEAN : hlt' = [hlt EXCEPT ![Current] = @ /\ ~reset] \/ hlt' = hlt
    BY <1>4 DEF Consume_Event, Target_Events_Handled, Inject_Interrupt
  <2>3. \A s \in Subjects : hlt'[s] => hlt[s]
    BY <2>2, CurrentFacts DEF TypeOK
  <2>4. ~Rescheduling'
    BY <2>1 DEF Rescheduling, Searching
  <2> QED
    BY <1>1, <2>1, <2>3, <2>4, NobodyHalted
<1> QED
  BY <1>2, <1>3, <1>4

\* Who asks for rescheduling is not halted.
LEMMA ReschedulePartitionHalts ==
  ASSUME HaltsInv, Reschedule_Partition
  PROVE  HaltInv'
<1> USE DEF HaltsInv, RunsInv, ListInv
<1>1. pc = "source" /\ k.ev.action # "none" /\ UNCHANGED <<part, sp, sg, hlt>>
  BY DEF Reschedule_Partition, lists
<1>2. ~hlt[Current]
  BY <1>1 DEF HaltInv
<1> QED
  BY <1>1, <1>2, SameLists, NobodyHalted

\* When the current subject of a partition is not halted, no subject of it is.
LEMMA NoneHalted ==
  ASSUME TypeOK, HaltedIsCurrent, NEW s \in Subjects, hlt[s]
  PROVE  /\ PartitionOf(GroupOf[s]) \in Partitions
         /\ sp[PartitionOf(GroupOf[s])].Sleeping /\ s = CurrentOf(PartitionOf(GroupOf[s]))
BY HaltFacts, PolicyAssumption, PolicyFacts

\* When another group is scheduled, the subject that was halted is made active again.
LEMMA ScheduleGroupHalts ==
  ASSUME HaltsInv, Schedule_Group
  PROVE  HaltInv'
<1> USE DEF HaltsInv, RunsInv
<1>1. ListInv'
  BY ScheduleGroupList
<1> DEFINE wake == k.op = "update" /\ sp[part].Sleeping
<1>2. /\ pc = "found" /\ UNCHANGED <<part, sg>> /\ Return(IF k.op = "update" THEN "timed" ELSE k.ret)
      /\ hlt' = IF wake THEN [hlt EXCEPT ![Current] = FALSE] ELSE hlt
  BY DEF Schedule_Group
<1>3. sp' = [sp EXCEPT ![part] = [Active_Group_Index |-> k.idx,
                                  Earliest_Timer |-> @.Earliest_Timer,
                                  Sleeping |-> @.Sleeping /\ ~wake]]
  BY DEF Schedule_Group
<1>4. /\ part \in Partitions /\ Current \in Subjects /\ CurrentOf(part) = Current
      /\ k.ret \in {"pending", "clear"} /\ k.op \in {"update", "reschedule"}
  BY CurrentFacts, CurrentOfFacts DEF ListInv, TypeOK
<1>5. \A s \in Subjects : hlt'[s] => hlt[s] /\ PartitionOf(GroupOf[s]) # part
  <2> SUFFICES ASSUME NEW s \in Subjects, hlt'[s] PROVE hlt[s] /\ PartitionOf(GroupOf[s]) # part
    OBVIOUS
  <2>1. hlt \in [Subjects -> BOOLEAN]
    BY DEF ListInv, TypeOK
  <2>2. hlt[s]
    BY <1>2, <1>4, <2>1
  <2>3. ASSUME PartitionOf(GroupOf[s]) = part PROVE FALSE
    <3>1. sp[part].Sleeping /\ s = Current /\ hlt[Current]
      BY <1>4, <2>2, <2>3, NoneHalted DEF HaltInv, ListInv
    <3>2. ~Rescheduling
      BY <3>1 DEF HaltInv
    <3>3. wake
      BY <1>2, <1>4, <3>1, <3>2 DEF Rescheduling, Searching
    <3> QED
      BY <1>2, <1>4, <2>1, <3>1, <3>3
  <2> QED
    BY <2>2, <2>3
<1> HIDE DEF wake
<1>6. \A q \in Partitions : q # part => CurrentOf(q)' = CurrentOf(q) /\ sp'[q] = sp[q]
  <2>1. \A q \in Partitions : q # part => sp'[q] = sp[q]
    BY <1>3, <1>4 DEF ListInv, TypeOK
  <2> QED
    BY <1>2, <2>1 DEF CurrentOf, ActiveSubject, GroupAt
<1>7. ASSUME NEW s \in Subjects, hlt'[s]
      PROVE  sp'[PartitionOf(GroupOf[s])].Sleeping /\ s = CurrentOf(PartitionOf(GroupOf[s]))'
  <2>1. hlt[s] /\ PartitionOf(GroupOf[s]) # part
    BY <1>5, <1>7
  <2>2. /\ PartitionOf(GroupOf[s]) \in Partitions
        /\ sp[PartitionOf(GroupOf[s])].Sleeping /\ s = CurrentOf(PartitionOf(GroupOf[s]))
    BY <2>1, NoneHalted DEF HaltInv, ListInv
  <2> QED
    BY <1>6, <2>1, <2>2
<1>8. HaltedIsCurrent'
  <2> SUFFICES ASSUME NEW p \in Partitions, NEW g \in GroupsOf(p), NEW s \in Subjects,
                      GroupOf[s] = g, hlt'[s]
               PROVE  sp'[p].Sleeping /\ s = CurrentOf(p)'
    BY DEF HaltedIsCurrent
  <2>1. PartitionOf(GroupOf[s]) = p
    BY GroupsOfFacts
  <2> QED
    BY <1>7, <2>1
<1>9. ~Rescheduling' /\ pc' # "source"
  BY <1>2, <1>4 DEF Return, Rescheduling, Searching
<1> QED
  BY <1>8, <1>9 DEF HaltInv

\* Only the current subject is halted, and Sleeping is set with it.
LEMMA ScheduleNoneHalts ==
  ASSUME HaltsInv, Schedule_None
  PROVE  HaltInv'
<1> USE DEF HaltsInv, RunsInv
<1>1. /\ pc = "none" /\ UNCHANGED <<part, sg>> /\ Return(IF k.op = "update" THEN "timed" ELSE k.ret)
      /\ k.op = "update" => hlt' = hlt /\ sp' = sp
      /\ k.op # "update" => /\ hlt' = [hlt EXCEPT ![k.sub] = TRUE]
                            /\ sp' = [sp EXCEPT ![part].Sleeping = TRUE]
  BY DEF Schedule_None
<1>2. /\ part \in Partitions /\ Current \in Subjects /\ CurrentOf(part) = Current
      /\ k.ret \in {"pending", "clear"} /\ k.op \in {"update", "reschedule"}
      /\ k.op = "reschedule" => k.sub = Current
      /\ PartitionOf(GroupOf[Current]) = part
  BY <1>1, CurrentFacts, CurrentOfFacts DEF ListInv, TypeOK, LocalsOK, Searching
<1>3. ~Rescheduling' /\ pc' # "source"
  BY <1>1, <1>2 DEF Return, Rescheduling, Searching
<1>4. CASE k.op = "update"
  BY <1>1, <1>3, <1>4, SameLists, NobodyHalted DEF ListInv
<1>5. CASE k.op # "update"
  <2>1. hlt' = [hlt EXCEPT ![Current] = TRUE] /\ sp' = [sp EXCEPT ![part].Sleeping = TRUE]
    BY <1>1, <1>2, <1>5
  <2>2. sp \in [Partitions -> PartitionType] /\ hlt \in [Subjects -> BOOLEAN]
    BY DEF ListInv, TypeOK, PartitionType
  <2>3. \A q \in Partitions : /\ sp'[q].Active_Group_Index = sp[q].Active_Group_Index
                              /\ sp[q].Sleeping \/ q = part => sp'[q].Sleeping
    BY <1>2, <2>1, <2>2 DEF PartitionType
  <2>4. \A q \in Partitions : CurrentOf(q)' = CurrentOf(q)
    BY <1>1, <2>3 DEF CurrentOf, ActiveSubject, GroupAt
  <2>5. HaltedIsCurrent'
    <3> SUFFICES ASSUME NEW p \in Partitions, NEW g \in GroupsOf(p), NEW s \in Subjects,
                        GroupOf[s] = g, hlt'[s]
                 PROVE  sp'[p].Sleeping /\ s = CurrentOf(p)'
      BY DEF HaltedIsCurrent
    <3>1. PartitionOf(GroupOf[s]) = p
      BY GroupsOfFacts
    <3>2. CASE s = Current
      BY <1>2, <2>3, <2>4, <3>1, <3>2
    <3>3. CASE s # Current
      <4>1. hlt[s]
        BY <1>2, <2>1, <2>2, <3>3
      <4>2. sp[p].Sleeping /\ s = CurrentOf(p)
        BY <3>1, <4>1, NoneHalted DEF HaltInv, ListInv
      <4> QED
        BY <2>3, <2>4, <4>2
    <3> QED
      BY <3>2, <3>3
  <2> QED
    BY <1>3, <2>5 DEF HaltInv
<1> QED
  BY <1>4, <1>5

\* Who hands over is not halted.
LEMMA HandleSourceHalts ==
  ASSUME HaltsInv, Handle_Source_Event
  PROVE  HaltInv'
<1> USE DEF HaltsInv, RunsInv
<1> DEFINE e == k.ev
           G == Current_Scheduling_Group_ID
<1>1. /\ pc = "source" /\ Return(k.ret) /\ UNCHANGED <<part, sp, hlt>>
      /\ sg' = IF e.handover THEN [sg EXCEPT ![G].Active_Subject = e.target] ELSE sg
  BY DEF Handle_Source_Event
<1>2. /\ k.sub = Current /\ k.sub \in Subjects /\ k.ret \in {"pending", "clear"}
      /\ G \in Groups /\ part \in Partitions /\ CurrentOf(part) = Current /\ PartitionOf(G) = part
  BY <1>1, SourceFacts, CurrentFacts, CurrentOfFacts DEF ListInv
<1>3. e.handover => ~hlt[Current]
  BY <1>1, <1>2 DEF RunInv
<1>4. ~Rescheduling' /\ pc' # "source"
  BY <1>1, <1>2 DEF Return, Rescheduling, Searching
<1> HIDE DEF e, G
<1>5. CASE ~e.handover
  BY <1>1, <1>4, <1>5, SameLists, NobodyHalted DEF ListInv
<1>6. CASE e.handover
  <2>1. sg \in [Groups -> GroupType]
    BY DEF ListInv, TypeOK, GroupType
  <2>2. \A h \in Groups : h # G => sg'[h].Active_Subject = sg[h].Active_Subject
    BY <1>1, <1>2, <2>1 DEF GroupType
  <2>3. ASSUME NEW q \in Partitions, q # part PROVE CurrentOf(q)' = CurrentOf(q)
    <3>1. GroupAt(q, sp[q].Active_Group_Index) \in Groups /\ GroupAt(q, sp[q].Active_Group_Index) # G
      BY <1>2, <2>3, PolicyFacts DEF ListInv, TypeOK
    <3> QED
      BY <1>1, <2>2, <3>1 DEF CurrentOf, ActiveSubject, GroupAt
  <2>4. HaltedIsCurrent'
    <3> SUFFICES ASSUME NEW p \in Partitions, NEW g \in GroupsOf(p), NEW s \in Subjects,
                        GroupOf[s] = g, hlt[s]
                 PROVE  sp[p].Sleeping /\ s = CurrentOf(p)'
      BY <1>1 DEF HaltedIsCurrent
    <3>1. PartitionOf(GroupOf[s]) = p
      BY GroupsOfFacts
    <3>2. sp[p].Sleeping /\ s = CurrentOf(p)
      BY <3>1, NoneHalted DEF HaltInv, ListInv
    <3>3. p # part
      BY <1>2, <1>3, <1>6, <3>2
    <3> QED
      BY <2>3, <3>2, <3>3
  <2> QED
    BY <1>4, <2>4 DEF HaltInv
<1> QED
  BY <1>5, <1>6

\* All parts together are preserved as long as nothing has expired late.
LEMMA NextHalts == ASSUME HaltsInv, [Next]_vars, late' = {} PROVE HaltsInv'
<1>1. RunsInv'
  BY NextRuns DEF HaltsInv
<1>2. HaltInv'
  <2>1. CASE Kernel
    <3>1. CASE Update_Timer_List \/ Reschedule_Deactivate \/ Reschedule_Look_Again \/ Find_Next
               \/ Find_Check \/ Find_Deactivate \/ Find_Recheck
      <4>1. OnlyLinks /\ UNCHANGED <<part, hlt>> /\ (Rescheduling' => Rescheduling)
        BY <3>1, ListSteps DEF HaltsInv, RunsInv
      <4>2. pc' # "source"
        BY <3>1 DEF Update_Timer_List, Reschedule_Deactivate, Reschedule_Look_Again, Find_Next,
           Find_Check, Find_Deactivate, Find_Recheck, Goto
      <4>3. Rescheduling => ~hlt[Current]
        BY DEF HaltsInv, HaltInv
      <4> QED
        BY <4>1, <4>2, <4>3, NobodyHalted
    <3> QED
      BY <2>1, <3>1, ReschedulePartitionHalts, ScheduleGroupHalts, ScheduleNoneHalts,
         HandleSourceHalts, OtherHalts DEF Kernel
  <2>2. CASE Guest \/ Remote \/ Tick
    BY <2>2, OtherHalts
  <2>3. CASE UNCHANGED vars
    <3>1. UNCHANGED <<part, sp, sg, hlt, pc, k>>
      BY <2>3 DEF vars, lists, subjects
    <3>2. (Rescheduling' <=> Rescheduling) /\ OnlyLinks
      BY <3>1, SameLists DEF Rescheduling, HaltsInv, RunsInv, ListInv
    <3>3. Rescheduling' \/ (pc' = "source" /\ k'.ev.action # "none") => ~hlt[Current]
      BY <3>1, <3>2 DEF HaltsInv, HaltInv
    <3> QED
      BY <3>1, <3>2, <3>3, NobodyHalted
  <2> QED
    BY <2>1, <2>2, <2>3 DEF Next
<1> QED
  BY <1>1, <1>2 DEF HaltsInv

\* The whole invariant, for every policy and whatever events the subjects choose as their
\* timed events: the lists and indicators always; no lost activity, and who executes is
\* marked as running, until a timed handover expires for a halted subject; nobody is left
\* halted until a timed handover, sleep or yield does.
THEOREM Invariance == Safety => []SchedulerInv
<1> DEFINE Inv == RunsOK /\ (late = {} => HaltsInv)
<1>1. Init => Inv
  BY InitRuns DEF Init, RunsOK, RunsInv, HaltsInv, HaltInv, HaltedIsCurrent, Rescheduling, Searching
<1>2. Inv /\ [Next]_vars => Inv'
  BY NextList, NextRuns, NextHalts, LateGrows DEF RunsOK
<1>3. Inv => SchedulerInv
  BY ExecutingRuns DEF RunsOK, HaltsInv, RunsInv, SchedulerInv
<1> QED
  BY <1>1, <1>2, <1>3, PTL DEF Safety
=============================================================================
