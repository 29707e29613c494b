--------------------------- MODULE FrameSyncProofs --------------------------
(***************************************************************************)
(* Proofs about FrameSync for every finite set of at most 255 CPUs, every   *)
(* set of major frames and every plan the policy validator admits: the CPUs *)
(* meet at their barriers as the plan says, the BSP is alone with the       *)
(* global scheduling data while it changes them, no frame changes beneath a *)
(* subject, and frames that a common deadline separates do not overlap.     *)
(***************************************************************************)
EXTENDS FrameSync, FiniteSetTheorems, TLAPS

-----------------------------------------------------------------------------
(* The plan *)

\* TSC arithmetic stays in a machine word.
LEMMA TicksType ==
  ASSUME NEW n \in Nat
  PROVE  n % WordSize \in Ticks
  BY PlanAssumption, SMT DEF Ticks

\* The elements of a sequence.
LEMMA SequenceFacts ==
  ASSUME NEW S, NEW s \in Seq(S)
  PROVE  Len(s) \in Nat /\ \A i \in 1 .. Len(s) : s[i] \in S
  OBVIOUS

\* Minor frames are numbered from one, and their deadlines grow up to the
\* common end of the major frame.
LEMMA PlanFacts ==
  ASSUME NEW m \in Majors, NEW c \in CPUs
  PROVE  /\ Length(m, c) \in Nat /\ Length(m, c) >= 1
         /\ \A i \in 1 .. Length(m, c) : Deadline(m, c, i) \in 1 .. WordSize - 1
         /\ \A i, j \in 1 .. Length(m, c) : i < j => Deadline(m, c, i) < Deadline(m, c, j)
         /\ Deadline(m, c, Length(m, c)) = Period(m)
         /\ Period(m) \in 1 .. WordSize - 1
  <1>1. BSP \in CPUs
    BY PlanAssumption
  <1>2. \A d \in CPUs : /\ Plans[m][d] \in Seq(1 .. WordSize - 1)
                        /\ Len(Plans[m][d]) >= 1
    BY PlanAssumption
  <1>3. \A d \in CPUs : /\ Len(Plans[m][d]) \in Nat /\ Len(Plans[m][d]) >= 1
                        /\ \A i \in 1 .. Len(Plans[m][d]) : Plans[m][d][i] \in 1 .. WordSize - 1
    BY <1>2, SequenceFacts
  <1>4. \A i, j \in 1 .. Len(Plans[m][c]) : i < j => Plans[m][c][i] < Plans[m][c][j]
    BY PlanAssumption
  <1>5. Plans[m][c][Len(Plans[m][c])] = Plans[m][BSP][Len(Plans[m][BSP])]
    BY PlanAssumption
  <1>6. Plans[m][BSP][Len(Plans[m][BSP])] \in 1 .. WordSize - 1
    BY <1>1, <1>3
  <1> QED
    BY <1>3, <1>4, <1>5, <1>6 DEF Length, Deadline, Period

\* Deadlines of one CPU are ordered as the frames are, and only the last is
\* the end of the major frame.
LEMMA DeadlineOrder ==
  ASSUME NEW m \in Majors, NEW c \in CPUs,
         NEW i \in 1 .. Length(m, c), NEW j \in 1 .. Length(m, c)
  PROVE  /\ Deadline(m, c, i) \in Nat
         /\ i < j <=> Deadline(m, c, i) < Deadline(m, c, j)
         /\ i <= j <=> Deadline(m, c, i) <= Deadline(m, c, j)
         /\ Deadline(m, c, i) <= Period(m)
         /\ i < Length(m, c) <=> Deadline(m, c, i) < Period(m)
  <1>1. /\ Length(m, c) \in Nat /\ Length(m, c) >= 1
        /\ Deadline(m, c, i) \in Nat /\ Deadline(m, c, j) \in Nat
        /\ i < j => Deadline(m, c, i) < Deadline(m, c, j)
        /\ j < i => Deadline(m, c, j) < Deadline(m, c, i)
        /\ i < Length(m, c) => Deadline(m, c, i) < Deadline(m, c, Length(m, c))
        /\ Deadline(m, c, Length(m, c)) = Period(m)
    BY PlanFacts
  <1>2. i = j => Deadline(m, c, i) = Deadline(m, c, j)
    OBVIOUS
  <1>3. i = Length(m, c) => Deadline(m, c, i) = Deadline(m, c, Length(m, c))
    OBVIOUS
  <1>4. i \in Nat /\ j \in Nat /\ i <= Length(m, c)
    BY <1>1
  <1>5. i < j \/ i = j \/ j < i
    BY <1>4
  <1>6. i < Length(m, c) \/ i = Length(m, c)
    BY <1>1, <1>4
  <1>7. Period(m) \in Nat
    BY PlanFacts
  <1>8. /\ i < j <=> Deadline(m, c, i) < Deadline(m, c, j)
        /\ i <= j <=> Deadline(m, c, i) <= Deadline(m, c, j)
    BY <1>1, <1>2, <1>4, <1>5
  <1> QED
    BY <1>1, <1>3, <1>4, <1>6, <1>7, <1>8

\* The common deadlines of a major frame lie inside it.
LEMMA SyncPointsFinite ==
  ASSUME NEW m \in Majors
  PROVE  /\ IsFiniteSet(SyncPoints(m))
         /\ \A t \in SyncPoints(m) : t \in Nat /\ t < Period(m)
  <1>1. Period(m) \in Nat
    BY PlanFacts, PlanAssumption
  <1>2. SyncPoints(m) \subseteq 1 .. Period(m) - 1
    BY DEF SyncPoints
  <1>3. IsFiniteSet(1 .. Period(m) - 1)
    BY <1>1, FS_Interval
  <1>4. IsFiniteSet(SyncPoints(m))
    BY <1>2, <1>3, FS_Subset
  <1> QED
    BY <1>1, <1>2, <1>4

\* Distinct common deadlines have distinct barriers (the numbering of
\* Add_Barrier_Configs), and none of them is the all-CPU barrier.
LEMMA BarrierIDs ==
  ASSUME NEW m \in Majors, NEW t \in SyncPoints(m)
  PROVE  /\ BarrierID(m, t) \in Barrier_Range
         /\ BarrierID(m, t) # All
         /\ \A u \in SyncPoints(m) : BarrierID(m, u) = BarrierID(m, t) => u = t
  <1> DEFINE Upto(u) == {v \in SyncPoints(m) : v <= u}
  <1>1. /\ IsFiniteSet(SyncPoints(m))
        /\ \A u \in SyncPoints(m) : u \in Nat
    BY SyncPointsFinite
  <1>2. \A u \in SyncPoints(m) : Upto(u) \subseteq SyncPoints(m) /\ u \in Upto(u)
    BY <1>1
  <1>3. \A u \in SyncPoints(m) :
          /\ IsFiniteSet(Upto(u))
          /\ Cardinality(Upto(u)) \in Nat
          /\ Cardinality(Upto(u)) <= Cardinality(SyncPoints(m))
          /\ Cardinality(Upto(u)) # 0
    <2> SUFFICES ASSUME NEW u \in SyncPoints(m)
                 PROVE  /\ IsFiniteSet(Upto(u))
                        /\ Cardinality(Upto(u)) \in Nat
                        /\ Cardinality(Upto(u)) <= Cardinality(SyncPoints(m))
                        /\ Cardinality(Upto(u)) # 0
      OBVIOUS
    <2>1. Upto(u) \subseteq SyncPoints(m) /\ u \in Upto(u)
      BY <1>2
    <2> HIDE DEF Upto
    <2>2. IsFiniteSet(Upto(u)) /\ Cardinality(Upto(u)) <= Cardinality(SyncPoints(m))
      BY <1>1, <2>1, FS_Subset
    <2>3. Cardinality(Upto(u)) \in Nat
      BY <2>2, FS_CardinalityType
    <2>4. Cardinality(Upto(u)) # 0
      BY <2>1, <2>2, FS_EmptySet
    <2> QED
      BY <2>2, <2>3, <2>4
  <1>4. ASSUME NEW u \in SyncPoints(m), NEW v \in SyncPoints(m), u < v
        PROVE  Cardinality(Upto(u)) < Cardinality(Upto(v))
    <2>1. Upto(u) \subseteq Upto(v) /\ v \in Upto(v) /\ v \notin Upto(u)
      BY <1>1, <1>4
    <2> HIDE DEF Upto
    <2>2. /\ IsFiniteSet(Upto(v)) /\ Cardinality(Upto(v)) \in Nat
          /\ Cardinality(Upto(u)) \in Nat
      BY <1>3
    <2>3. /\ Cardinality(Upto(u)) <= Cardinality(Upto(v))
          /\ Cardinality(Upto(u)) = Cardinality(Upto(v)) => Upto(u) = Upto(v)
      BY <2>1, <2>2, FS_Subset
    <2> QED
      BY <2>1, <2>2, <2>3
  <1>5. \A u \in SyncPoints(m) : BarrierID(m, u) = Cardinality(Upto(u))
    BY DEF BarrierID
  <1> HIDE DEF Upto
  <1>6. /\ BarrierID(m, t) \in Nat /\ BarrierID(m, t) # 0
        /\ BarrierID(m, t) <= Cardinality(SyncPoints(m))
    BY <1>3, <1>5
  <1>7. Cardinality(SyncPoints(m)) \in Nat
    BY <1>1, FS_CardinalityType
  <1>8. BarrierID(m, t) \in 1 .. Cardinality(SyncPoints(m))
    BY <1>6, <1>7
  <1>9. ASSUME NEW u \in SyncPoints(m), BarrierID(m, u) = BarrierID(m, t)
        PROVE  u = t
    <2>1. u \in Nat /\ t \in Nat
      BY <1>1
    <2>2. Cardinality(Upto(u)) = Cardinality(Upto(t)) /\ Cardinality(Upto(t)) \in Nat
      BY <1>3, <1>5, <1>9
    <2>3. ~(u < t) /\ ~(t < u)
      BY <1>4, <2>2
    <2> QED
      BY <2>1, <2>3
  <1> QED
    BY <1>6, <1>8, <1>9 DEF Barrier_Range, All

\* The barrier of all CPUs is none of the minor frame barriers.
LEMMA AllApart == All \notin Barrier_Range
  BY DEF All, Barrier_Range

\* The CPUs of a barrier are the users of its deadline.
LEMMA MembersAreUsers ==
  ASSUME NEW m \in Majors, NEW t \in SyncPoints(m)
  PROVE  MembersOf(m, BarrierID(m, t)) = Users(m, t)
  <1>1. \A u \in SyncPoints(m) : BarrierID(m, u) = BarrierID(m, t) => u = t
    BY BarrierIDs
  <1>2. Users(m, t) \subseteq CPUs
    BY DEF Users
  <1> QED
    BY <1>1, <1>2 DEF MembersOf

\* Subsets of the CPUs are small enough for the byte counters of a barrier.
LEMMA SomeCPUs ==
  ASSUME NEW S \in SUBSET CPUs
  PROVE  /\ IsFiniteSet(S)
         /\ Cardinality(S) \in Byte
         /\ Cardinality(S) \in Nat
         /\ \A T \in SUBSET S : /\ Cardinality(T) <= Cardinality(S)
                                /\ Cardinality(T) = Cardinality(S) => T = S
  <1>0. IsFiniteSet(CPUs) /\ Cardinality(CPUs) \in 1 .. ByteSize - 1
    BY PlanAssumption
  <1>1. IsFiniteSet(CPUs) /\ Cardinality(CPUs) \in Nat /\ Cardinality(CPUs) < ByteSize
    BY <1>0 DEF ByteSize
  <1>2. IsFiniteSet(S) /\ Cardinality(S) <= Cardinality(CPUs)
    BY <1>1, FS_Subset
  <1>3. Cardinality(S) \in Nat
    BY <1>2, FS_CardinalityType
  <1>4. \A T \in SUBSET S : /\ Cardinality(T) <= Cardinality(S)
                            /\ Cardinality(T) = Cardinality(S) => T = S
    BY <1>2, FS_Subset
  <1> QED
    BY <1>1, <1>2, <1>3, <1>4 DEF Byte, ByteSize

\* A CPU that arrives makes the number of the arrived ones larger by one.
LEMMA OneMoreCPU ==
  ASSUME NEW S \in SUBSET CPUs, NEW c \in CPUs, c \notin S
  PROVE  Cardinality(S \cup {c}) = Cardinality(S) + 1
  BY SomeCPUs, FS_AddElement

\* The size a minor frame barrier is given is the number of its CPUs.
LEMMA ConfigIsMembers ==
  ASSUME NEW m \in Majors, NEW b \in Barrier_Range
  PROVE  /\ Barrier_Config(m)[b] = Cardinality(MembersOf(m, b))
         /\ Cardinality(MembersOf(m, b)) \in Byte
  <1>1. MembersOf(m, b) \in SUBSET CPUs
    BY DEF MembersOf
  <1>2. Cardinality(MembersOf(m, b)) \in Byte
    BY <1>1, SomeCPUs
  <1>3. CASE \E t \in SyncPoints(m) : BarrierID(m, t) = b
    <2> DEFINE t == CHOOSE t \in SyncPoints(m) : BarrierID(m, t) = b
    <2>1. t \in SyncPoints(m) /\ BarrierID(m, t) = b
      BY <1>3
    <2>2. Barrier_Config(m)[b] = Cardinality(Users(m, t))
      BY <1>3 DEF Barrier_Config
    <2> QED
      BY <1>2, <2>1, <2>2, MembersAreUsers
  <1>4. CASE ~\E t \in SyncPoints(m) : BarrierID(m, t) = b
    <2>1. MembersOf(m, b) = {}
      BY <1>4 DEF MembersOf
    <2>2. Barrier_Config(m)[b] = 0
      BY <1>4 DEF Barrier_Config
    <2> QED
      BY <1>2, <2>1, <2>2, FS_EmptySet
  <1> QED
    BY <1>3, <1>4

-----------------------------------------------------------------------------
(* Stages and barriers *)

PCs == {"boot", "off", "init", "entry", "guest", "publish", "again", "major", "start",
        "config", "read", "xadd", "spin", "reset", "flip"}
Rets == {"init", "entry", "major", "again", "publish"}

Free(at, call, sense) == at = "spin" /\ call.sense = sense

\* What a CPU in each stage may be doing.
LEMMA StageFacts ==
  ASSUME NEW at \in PCs, NEW call, call.ret \in Rets, NEW sense
  PROVE  /\ StageAt(at, call, sense) \in {"boot", "init", "change", "frame"}
         /\ StageAt(at, call, sense) = "boot" <=>
              \/ at \in {"boot", "off"}
              \/ at \in Waiting /\ call.on = All /\ ~Free(at, call, sense) /\ call.ret = "init"
         /\ StageAt(at, call, sense) = "init" <=>
              \/ at = "init"
              \/ at \in Waiting /\ call.on = All /\ Free(at, call, sense) /\ call.ret = "init"
              \/ at \in Waiting /\ call.on = All /\ ~Free(at, call, sense) /\ call.ret = "entry"
         /\ StageAt(at, call, sense) = "change" <=>
              \/ at \in {"again", "major", "start", "config"}
              \/ at \in Waiting /\ call.on = All /\ Free(at, call, sense) /\ call.ret \in {"major", "again"}
              \/ at \in Waiting /\ call.on = All /\ ~Free(at, call, sense) /\ call.ret = "publish"
         /\ StageAt(at, call, sense) = "frame" <=>
              \/ at \in {"entry", "guest", "publish"}
              \/ at \in Waiting /\ call.on # All
              \/ at \in Waiting /\ call.on = All /\ Free(at, call, sense) /\ call.ret \in {"entry", "publish"}
              \/ at \in Waiting /\ call.on = All /\ ~Free(at, call, sense) /\ call.ret \in {"major", "again"}
  <1>1. CASE at \notin Waiting
    BY <1>1 DEF PCs, Waiting, StageAt
  <1>2. CASE at \in Waiting /\ call.on # All
    BY <1>2 DEF Waiting, StageAt, Free
  <1>3. CASE at \in Waiting /\ call.on = All /\ Free(at, call, sense)
    <2>1. StageAt(at, call, sense) = After(call.ret)
      BY <1>3 DEF Waiting, StageAt, Free
    <2>2. /\ After(call.ret) = "init" <=> call.ret = "init"
          /\ After(call.ret) = "change" <=> call.ret \in {"major", "again"}
          /\ After(call.ret) = "frame" <=> call.ret \in {"entry", "publish"}
          /\ After(call.ret) \in {"init", "change", "frame"}
      BY DEF After, Rets
    <2> QED
      BY <1>3, <2>1, <2>2 DEF Waiting
  <1>4. CASE at \in Waiting /\ call.on = All /\ ~Free(at, call, sense)
    <2>1. StageAt(at, call, sense) = Toward(call.ret)
      BY <1>4 DEF Waiting, StageAt, Free
    <2>2. /\ Toward(call.ret) = "boot" <=> call.ret = "init"
          /\ Toward(call.ret) = "init" <=> call.ret = "entry"
          /\ Toward(call.ret) = "change" <=> call.ret = "publish"
          /\ Toward(call.ret) = "frame" <=> call.ret \in {"major", "again"}
          /\ Toward(call.ret) \in {"boot", "init", "change", "frame"}
      BY DEF Toward, Rets
    <2> QED
      BY <1>4, <2>1, <2>2 DEF Waiting
  <1> QED
    BY <1>1, <1>2, <1>3, <1>4

\* The part of TypeOK that the lemmas about one CPU need.
LEMMA Types ==
  ASSUME TypeOK
  PROVE  /\ BSP \in CPUs /\ global_major \in Majors /\ global_start \in Ticks
         /\ \A c \in CPUs : /\ pc[c] \in PCs
                             /\ wait[c].on \in Barrier_Range \cup {All}
                             /\ wait[c].ret \in Rets
                             /\ wait[c].size \in Byte
                             /\ wait[c].sense \in BOOLEAN
                             /\ cur[c].major \in Majors /\ cur[c].start \in Ticks
                             /\ minor[c] \in Nat
         /\ \A b \in Barrier_Range \cup {All} : /\ barriers[b].Size \in Byte
                                                /\ barriers[b].Sense \in BOOLEAN
                                                /\ barriers[b].Wait_Count \in Byte
                                                /\ barriers[b] \in Sense_Barrier_Type
  <1>1. BSP \in CPUs
    BY PlanAssumption
  <1> QED
    BY <1>1 DEF TypeOK, PCs, Rets, Sense_Barrier_Type

\* Members and arrived CPUs are CPUs.
LEMMA MembersType ==
  ASSUME NEW b
  PROVE  Members(b) \in SUBSET CPUs /\ Arrived(b) \in SUBSET CPUs
  BY DEF Members, MembersOf, Arrived

\* The members of a barrier change only with its configuration.
LEMMA MembersKept ==
  ASSUME Configured' = Configured, NEW b
  PROVE  Members(b)' = Members(b)
  BY DEF Members, MembersOf

\* A barrier that a step does not touch, with the CPUs on it, stays as it is.
LEMMA BarrierKept ==
  ASSUME NEW b, BarrierSound(b), barriers'[b] = barriers[b], Members(b)' = Members(b),
         \A d \in CPUs : /\ On(d, b)' <=> On(d, b)
                         /\ On(d, b) => pc'[d] = pc[d] /\ wait'[d] = wait[d]
  PROVE  BarrierSound(b)'
  <1>1. Arrived(b)' = Arrived(b)
    BY DEF Arrived, On
  <1> QED
    BY <1>1 DEF BarrierSound, On

\* Calling Wait on b: the caller is not counted yet.
LEMMA BarrierEntered ==
  ASSUME NEW b, BarrierSound(b), barriers'[b] = barriers[b], Members(b)' = Members(b),
         NEW c \in CPUs, pc[c] \notin Waiting, pc'[c] = "read", wait'[c].on = b,
         c \in Members(b), barriers[b].Size = Cardinality(Members(b)),
         \A d \in CPUs \ {c} : pc'[d] = pc[d] /\ wait'[d] = wait[d]
  PROVE  BarrierSound(b)'
  <1>1. ~On(c, b) /\ On(c, b)'
    BY DEF On, Waiting
  <1>2. \A d \in CPUs \ {c} : On(d, b)' <=> On(d, b)
    BY DEF On
  <1>3. Arrived(b)' = Arrived(b)
    BY <1>1, <1>2 DEF Arrived
  <1>4. \A d \in CPUs : On(d, b)' /\ pc'[d] # "read" =>
          d # c /\ On(d, b) /\ pc'[d] = pc[d] /\ wait'[d] = wait[d]
    BY <1>1, <1>2
  <1>5. (\E d \in CPUs : On(d, b)' /\ pc'[d] = "flip") <=>
          \E d \in CPUs : On(d, b) /\ pc[d] = "flip"
    BY <1>1, <1>2
  <1> HIDE DEF On
  <1>6. \A d \in CPUs : On(d, b)' => /\ d \in Members(b)'
                                     /\ barriers'[b].Size = Cardinality(Members(b)')
    BY <1>2 DEF BarrierSound
  <1>7. \A d \in CPUs : On(d, b)' /\ pc'[d] = "xadd" =>
          wait'[d].size = barriers'[b].Size /\ wait'[d].sense # barriers'[b].Sense
    BY <1>4 DEF BarrierSound
  <1>8. \A d \in CPUs : On(d, b)' /\ pc'[d] \in {"reset", "flip"} =>
          Arrived(b)' = Members(b)' /\ wait'[d].sense # barriers'[b].Sense
    BY <1>3, <1>4 DEF BarrierSound
  <1>9. \A d, e \in CPUs : On(d, b)' /\ On(e, b)' /\ pc'[d] \in {"reset", "flip"}
                            /\ pc'[e] \in {"reset", "flip"} => d = e
    BY <1>4 DEF BarrierSound
  <1> QED
    BY <1>3, <1>5, <1>6, <1>7, <1>8, <1>9 DEF BarrierSound

\* A barrier nobody is on counts nobody.
LEMMA NobodyCounted ==
  ASSUME NEW b, BarrierSound(b), \A d \in CPUs : ~On(d, b)
  PROVE  barriers[b].Wait_Count = 0
  <1>1. Arrived(b) = {}
    BY DEF Arrived
  <1> QED
    BY <1>1, FS_EmptySet DEF BarrierSound

\* A barrier that counts nobody and that nobody is on is sound, whatever its size.
LEMMA BarrierEmpty ==
  ASSUME NEW b, barriers'[b].Wait_Count = 0, \A d \in CPUs : ~On(d, b)'
  PROVE  BarrierSound(b)'
  <1>1. Arrived(b)' = {}
    BY DEF Arrived
  <1> QED
    BY <1>1, FS_EmptySet DEF BarrierSound

-----------------------------------------------------------------------------
(* The steps of Wait, seen from the barriers *)

\* What a step of CPU c leaves alone.
Others(c) == \A d \in CPUs \ {c} : pc'[d] = pc[d] /\ wait'[d] = wait[d]

\* While a CPU of a barrier is not counted, nobody releases the barrier, and the
\* byte counts the CPUs held.
LEMMA NotReleasing ==
  ASSUME NEW b, BarrierSound(b), NEW c \in CPUs, On(c, b), c \notin Arrived(b)
  PROVE  /\ \A d \in CPUs : ~(On(d, b) /\ pc[d] \in {"reset", "flip"})
         /\ barriers[b].Wait_Count = Cardinality(Arrived(b))
  <1>1. c \in Members(b)
    BY DEF BarrierSound
  <1>2. \A d \in CPUs : ~(On(d, b) /\ pc[d] \in {"reset", "flip"})
    BY <1>1 DEF BarrierSound
  <1> QED
    BY <1>2 DEF BarrierSound

\* The CPUs held are among those the barrier is meant for.
LEMMA ArrivedMembers ==
  ASSUME NEW b, BarrierSound(b)
  PROVE  Arrived(b) \subseteq Members(b)
  BY DEF BarrierSound, Arrived

\* A step of c at its own barrier leaves every other barrier sound.
LEMMA OtherBarriers ==
  ASSUME NEW b, BarrierSound(b), Members(b)' = Members(b), NEW c \in CPUs, Others(c),
         wait[c].on # b, pc'[c] \in Waiting => wait'[c].on # b,
         barriers'[b] = barriers[b]
  PROVE  BarrierSound(b)'
  <1>1. ~On(c, b) /\ ~On(c, b)'
    BY DEF On
  <1>2. \A d \in CPUs : /\ On(d, b)' <=> On(d, b)
                        /\ On(d, b) => pc'[d] = pc[d] /\ wait'[d] = wait[d]
    BY <1>1 DEF On, Others
  <1> QED
    BY <1>2, BarrierKept

\* A CPU that reads size and sense of a barrier leaves it sound.
LEMMA ReadBarrier ==
  ASSUME NEW b, BarrierSound(b), Members(b)' = Members(b), NEW c \in CPUs, Others(c),
         pc[c] = "read", wait[c].on = b, pc'[c] = "xadd", wait'[c].on = b,
         wait'[c].size = barriers[b].Size, wait'[c].sense # barriers[b].Sense,
         barriers'[b] = barriers[b]
  PROVE  BarrierSound(b)'
  <1>1. On(c, b) /\ On(c, b)'
    BY DEF On, Waiting
  <1>2. \A d \in CPUs : /\ On(d, b)' <=> On(d, b)
                        /\ d # c => pc'[d] = pc[d] /\ wait'[d] = wait[d]
    BY <1>1 DEF On, Others
  <1>3. Arrived(b)' = Arrived(b)
    BY <1>2 DEF Arrived
  <1>4. c \notin Arrived(b)
    BY DEF Arrived
  <1>5. \A d \in CPUs : ~(On(d, b) /\ pc[d] \in {"reset", "flip"})
    BY <1>1, <1>4, NotReleasing
  <1>6. \A d \in CPUs : ~(On(d, b)' /\ pc'[d] \in {"reset", "flip"})
    BY <1>2, <1>5
  <1> QED
    BY <1>2, <1>3, <1>5, <1>6 DEF BarrierSound

\* The increment: the caller joins the CPUs held, and takes the releasing branch
\* exactly when it is the last of the members.
LEMMA IncrementBarrier ==
  ASSUME NEW b, BarrierSound(b), Members(b)' = Members(b), NEW c \in CPUs, Others(c),
         pc[c] = "xadd", wait[c].on = b, wait'[c] = wait[c],
         pc'[c] = IF IsLast(barriers[b].Wait_Count, wait[c].size) THEN "reset" ELSE "spin",
         barriers[b] \in Sense_Barrier_Type, barriers'[b] = Incremented(barriers[b])
  PROVE  BarrierSound(b)' /\ barriers'[b] \in Sense_Barrier_Type
                          /\ barriers'[b].Sense = barriers[b].Sense
                          /\ barriers'[b].Size = barriers[b].Size
  <1>0. pc'[c] \in {"reset", "spin"}
    OBVIOUS
  <1>1. On(c, b) /\ On(c, b)'
    BY <1>0 DEF On, Waiting
  <1>2. \A d \in CPUs : /\ On(d, b)' <=> On(d, b)
                        /\ d # c => pc'[d] = pc[d] /\ wait'[d] = wait[d]
    BY <1>1 DEF On, Others
  <1>3. c \notin Arrived(b)
    BY DEF Arrived
  <1>4. /\ \A d \in CPUs : ~(On(d, b) /\ pc[d] \in {"reset", "flip"})
        /\ barriers[b].Wait_Count = Cardinality(Arrived(b))
    BY <1>1, <1>3, NotReleasing
  <1>5. /\ c \in Members(b) /\ barriers[b].Size = Cardinality(Members(b))
        /\ wait[c].size = barriers[b].Size /\ wait[c].sense # barriers[b].Sense
    BY <1>1 DEF BarrierSound
  <1>6. /\ Members(b) \in SUBSET CPUs /\ Arrived(b) \in SUBSET CPUs
        /\ Arrived(b) \cup {c} \in SUBSET Members(b)
    BY <1>5, MembersType, ArrivedMembers
  <1>7. /\ Cardinality(Arrived(b) \cup {c}) = Cardinality(Arrived(b)) + 1
        /\ Cardinality(Arrived(b)) \in Nat
        /\ Cardinality(Members(b)) \in Byte
        /\ Cardinality(Arrived(b) \cup {c}) <= Cardinality(Members(b))
        /\ Cardinality(Arrived(b) \cup {c}) = Cardinality(Members(b)) =>
             Arrived(b) \cup {c} = Members(b)
    BY <1>3, <1>6, SomeCPUs, OneMoreCPU
  <1>8. (barriers[b].Wait_Count + 1) % ByteSize = Cardinality(Arrived(b) \cup {c})
    BY <1>4, <1>7 DEF Byte, ByteSize
  <1>9. pc'[c] = IF Arrived(b) \cup {c} = Members(b) THEN "reset" ELSE "spin"
    BY <1>5, <1>7, <1>8 DEF IsLast
  <1>10. /\ barriers'[b].Sense = barriers[b].Sense /\ barriers'[b].Size = barriers[b].Size
         /\ barriers'[b].Wait_Count = Cardinality(Arrived(b) \cup {c})
         /\ barriers'[b] \in Sense_Barrier_Type
    <2>1. Cardinality(Arrived(b) \cup {c}) \in Byte
      BY <1>7 DEF Byte, ByteSize
    <2> QED
      BY <1>8, <2>1 DEF Incremented, Sense_Barrier_Type
  <1>11. Arrived(b)' = Arrived(b) \cup {c}
    BY <1>0, <1>1, <1>2, <1>5, <1>10 DEF Arrived
  <1>12. \A d \in CPUs : On(d, b)' /\ pc'[d] \in {"reset", "flip"} =>
           d = c /\ pc'[c] = "reset"
    BY <1>0, <1>2, <1>4
  <1>13. \A d \in CPUs : On(d, b)' /\ pc'[d] = "xadd" =>
           wait'[d].size = barriers'[b].Size /\ wait'[d].sense # barriers'[b].Sense
    BY <1>0, <1>2, <1>10 DEF BarrierSound
  <1>14. \A d \in CPUs : On(d, b)' => /\ d \in Members(b)'
                                      /\ barriers'[b].Size = Cardinality(Members(b)')
    BY <1>2, <1>10 DEF BarrierSound
  <1>15. \A d \in CPUs : On(d, b)' /\ pc'[d] \in {"reset", "flip"} =>
           Arrived(b)' = Members(b)' /\ wait'[d].sense # barriers'[b].Sense
    BY <1>5, <1>9, <1>10, <1>11, <1>12
  <1> QED
    BY <1>10, <1>11, <1>12, <1>13, <1>14, <1>15 DEF BarrierSound

\* The last CPU takes back the count; the others it released are still held.
LEMMA ResetBarrier ==
  ASSUME NEW b, BarrierSound(b), Members(b)' = Members(b), NEW c \in CPUs, Others(c),
         pc[c] = "reset", wait[c].on = b, wait'[c] = wait[c], pc'[c] = "flip",
         barriers[b] \in Sense_Barrier_Type, barriers'[b] = CountReset(barriers[b])
  PROVE  BarrierSound(b)' /\ barriers'[b] \in Sense_Barrier_Type
                          /\ barriers'[b].Sense = barriers[b].Sense
                          /\ barriers'[b].Size = barriers[b].Size
  <1>1. On(c, b) /\ On(c, b)'
    BY DEF On, Waiting
  <1>2. \A d \in CPUs : /\ On(d, b)' <=> On(d, b)
                        /\ d # c => pc'[d] = pc[d] /\ wait'[d] = wait[d]
    BY <1>1 DEF On, Others
  <1>3. /\ barriers'[b].Sense = barriers[b].Sense /\ barriers'[b].Size = barriers[b].Size
        /\ barriers'[b].Wait_Count = 0
        /\ barriers'[b] \in Sense_Barrier_Type
    BY DEF CountReset, Sense_Barrier_Type, Byte, ByteSize
  <1>4. Arrived(b)' = Arrived(b)
    BY <1>2, <1>3 DEF Arrived
  <1>5. \A d \in CPUs : On(d, b)' /\ pc'[d] \in {"reset", "flip"} => d = c
    BY <1>1, <1>2 DEF BarrierSound
  <1>6. \A d \in CPUs : On(d, b)' /\ pc'[d] = "xadd" =>
           wait'[d].size = barriers'[b].Size /\ wait'[d].sense # barriers'[b].Sense
    BY <1>2, <1>3 DEF BarrierSound
  <1>7. \A d \in CPUs : On(d, b)' => /\ d \in Members(b)'
                                     /\ barriers'[b].Size = Cardinality(Members(b)')
    BY <1>2, <1>3 DEF BarrierSound
  <1>8. Arrived(b)' = Members(b)' /\ wait'[c].sense # barriers'[b].Sense
    BY <1>1, <1>3, <1>4 DEF BarrierSound
  <1> QED
    BY <1>1, <1>3, <1>5, <1>6, <1>7, <1>8 DEF BarrierSound

\* The flip of the sense releases every member at once.
LEMMA FlipBarrier ==
  ASSUME NEW b, BarrierSound(b), Members(b)' = Members(b), NEW c \in CPUs, Others(c),
         pc[c] = "flip", wait[c].on = b, wait'[c] = wait[c], pc'[c] \notin Waiting,
         barriers[b] \in Sense_Barrier_Type, \A d \in CPUs : wait[d].sense \in BOOLEAN,
         barriers'[b] = SenseSet(barriers[b], wait[c].sense)
  PROVE  /\ BarrierSound(b)' /\ barriers'[b] \in Sense_Barrier_Type
         /\ barriers'[b].Size = barriers[b].Size
         /\ \A d \in Members(b) \ {c} : On(d, b) /\ ~Released(d) /\ Released(d)'
         /\ \A d \in CPUs \ {c} : On(d, b) => d \in Members(b)
         /\ c \in Members(b)
  <1>1. On(c, b) /\ ~On(c, b)'
    BY DEF On, Waiting
  <1>2. \A d \in CPUs : d # c => /\ On(d, b)' <=> On(d, b)
                                 /\ pc'[d] = pc[d] /\ wait'[d] = wait[d]
    BY DEF On, Others
  <1>3. /\ barriers[b].Sense \in BOOLEAN /\ wait[c].sense \in BOOLEAN
        /\ barriers'[b].Sense = wait[c].sense /\ barriers'[b].Size = barriers[b].Size
        /\ barriers'[b].Wait_Count = barriers[b].Wait_Count
        /\ barriers'[b] \in Sense_Barrier_Type
    BY DEF SenseSet, Sense_Barrier_Type
  <1>4. /\ Arrived(b) = Members(b) /\ wait[c].sense # barriers[b].Sense
        /\ barriers[b].Wait_Count = 0
    BY <1>1 DEF BarrierSound
  <1>5. \A d \in CPUs : On(d, b) => d \in Members(b)
    BY DEF BarrierSound
  <1>6. \A d \in Members(b) \ {c} :
           /\ d \in CPUs /\ On(d, b) /\ pc[d] = "spin"
           /\ wait[d].sense # barriers[b].Sense
    BY <1>1, <1>4 DEF BarrierSound, Arrived
  <1>7. \A d \in Members(b) \ {c} : wait[d].sense = barriers'[b].Sense
    BY <1>3, <1>4, <1>6
  <1>8. \A d \in CPUs : On(d, b)' => /\ d # c /\ d \in Members(b)
                                     /\ pc'[d] = "spin" /\ wait'[d].sense = barriers'[b].Sense
    BY <1>1, <1>2, <1>5, <1>6, <1>7
  <1>9. Arrived(b)' = {}
    BY <1>8 DEF Arrived
  <1>10. \A d \in CPUs : On(d, b)' => barriers'[b].Size = Cardinality(Members(b)')
    BY <1>1, <1>3 DEF BarrierSound
  <1>11. BarrierSound(b)'
    BY <1>3, <1>4, <1>8, <1>9, <1>10, FS_EmptySet DEF BarrierSound
  <1>12. \A d \in Members(b) \ {c} : On(d, b) /\ ~Released(d) /\ Released(d)'
    BY <1>2, <1>6, <1>7 DEF Released, On
  <1> QED
    BY <1>1, <1>3, <1>5, <1>11, <1>12

\* A released CPU leaves without a trace.
LEMMA SpinBarrier ==
  ASSUME NEW b, BarrierSound(b), Members(b)' = Members(b), NEW c \in CPUs, Others(c),
         pc[c] = "spin", wait[c].on = b, wait[c].sense = barriers[b].Sense,
         pc'[c] \notin Waiting, barriers'[b] = barriers[b]
  PROVE  BarrierSound(b)'
  <1>1. On(c, b) /\ ~On(c, b)'
    BY DEF On, Waiting
  <1>2. \A d \in CPUs : d # c => /\ On(d, b)' <=> On(d, b)
                                 /\ pc'[d] = pc[d] /\ wait'[d] = wait[d]
    BY DEF On, Others
  <1>3. c \notin Arrived(b)
    BY DEF Arrived
  <1>4. Arrived(b)' = Arrived(b)
    BY <1>1, <1>2, <1>3 DEF Arrived
  <1>5. \A d \in CPUs : On(d, b)' => d # c /\ On(d, b)
    BY <1>1, <1>2
  <1>6. \A d \in CPUs : ~(On(d, b) /\ pc[d] \in {"reset", "flip"})
    BY <1>1, <1>3, NotReleasing
  <1>7. \A d \in CPUs : ~(On(d, b)' /\ pc'[d] \in {"reset", "flip"})
    BY <1>2, <1>5, <1>6
  <1> QED
    BY <1>2, <1>4, <1>5, <1>6, <1>7 DEF BarrierSound

-----------------------------------------------------------------------------
(* One CPU's view, and the stages *)

\* The stages, spelled out by program counter and barrier.
LEMMA StageOf ==
  ASSUME TypeOK, NEW c \in CPUs
  PROVE  /\ Stage(c) \in {"boot", "init", "change", "frame"}
         /\ Stage(c) = "boot" <=>
              \/ pc[c] \in {"boot", "off"}
              \/ On(c, All) /\ ~Released(c) /\ wait[c].ret = "init"
         /\ Stage(c) = "init" <=>
              \/ pc[c] = "init"
              \/ On(c, All) /\ Released(c) /\ wait[c].ret = "init"
              \/ On(c, All) /\ ~Released(c) /\ wait[c].ret = "entry"
         /\ Stage(c) = "change" <=>
              \/ pc[c] \in {"again", "major", "start", "config"}
              \/ On(c, All) /\ Released(c) /\ wait[c].ret \in {"major", "again"}
              \/ On(c, All) /\ ~Released(c) /\ wait[c].ret = "publish"
         /\ Stage(c) = "frame" <=>
              \/ pc[c] \in {"entry", "guest", "publish"}
              \/ pc[c] \in Waiting /\ wait[c].on # All
              \/ On(c, All) /\ Released(c) /\ wait[c].ret \in {"entry", "publish"}
              \/ On(c, All) /\ ~Released(c) /\ wait[c].ret \in {"major", "again"}
  <1> DEFINE sense == barriers[wait[c].on].Sense
  <1>1. pc[c] \in PCs /\ wait[c].ret \in Rets
    BY Types
  <1>2. On(c, All) <=> pc[c] \in Waiting /\ wait[c].on = All
    BY DEF On
  <1>3. Released(c) <=> Free(pc[c], wait[c], sense)
    BY DEF Released, Free
  <1>4. Stage(c) = StageAt(pc[c], wait[c], sense)
    BY DEF Stage
  <1> QED
    BY <1>1, <1>2, <1>3, <1>4, StageFacts

\* A CPU that a step leaves alone stays where it is, as long as neither the major
\* frame nor the sense of the barrier it is on changes.
LEMMA ViewKept ==
  ASSUME NEW d \in CPUs, global_major' = global_major,
         pc'[d] = pc[d], wait'[d] = wait[d], cur'[d] = cur[d], minor'[d] = minor[d],
         barriers'[wait[d].on].Sense = barriers[wait[d].on].Sense
  PROVE  /\ Stage(d)' = Stage(d)
         /\ OnWay(d)' <=> OnWay(d)
         /\ FrameValid(d)' <=> FrameValid(d)
         /\ \A t : Passed(d, t)' <=> Passed(d, t)
  <1>1. Released(d)' <=> Released(d)
    BY DEF Released
  <1>2. Stage(d)' = Stage(d)
    BY <1>1 DEF Stage, Released
  <1>3. Updating(d)' <=> Updating(d)
    BY DEF Updating
  <1>4. Midframe(d)' <=> Midframe(d)
    BY DEF Midframe
  <1>5. OnWay(d)' <=> OnWay(d)
    BY DEF OnWay
  <1>6. FrameValid(d)' <=> FrameValid(d)
    BY <1>3, <1>4 DEF FrameValid
  <1>7. ASSUME NEW t
        PROVE  Passed(d, t)' <=> Passed(d, t)
    <2>1. On(d, All)' <=> On(d, All)
      BY DEF On
    <2> QED
      BY <1>1, <1>2, <1>3, <1>4, <2>1 DEF Passed
  <1> QED
    BY <1>2, <1>5, <1>6, <1>7

\* In a major frame the barriers are set up for the current one.
LEMMA InFrame ==
  ASSUME Coordinated, NEW c \in CPUs, Stage(c) = "frame"
  PROVE  /\ \A d \in CPUs : Stage(d) = "frame"
         /\ Configured = global_major
         /\ wait[BSP].ret # "init"
         /\ \A b \in Barrier_Range :
              /\ Members(b) = MembersOf(global_major, b)
              /\ barriers[b].Size = Cardinality(Members(b))
  <1>1. \A d \in CPUs : Stage(d) = "frame"
    BY DEF Coordinated, SameStage
  <1>2. BSP \in CPUs /\ TypeOK /\ OnWay(BSP)
    BY PlanAssumption DEF Coordinated, OwnWay
  <1>3. Stage(BSP) = "frame"
    BY <1>1, <1>2
  <1>4. \/ pc[BSP] \in {"entry", "guest", "publish"}
        \/ pc[BSP] \in Waiting /\ wait[BSP].on # All
        \/ pc[BSP] \in Waiting /\ wait[BSP].ret \in {"entry", "publish", "major", "again"}
    BY <1>2, <1>3, StageOf DEF On
  <1>5. wait[BSP].ret # "init"
    BY <1>2, <1>4 DEF OnWay
  <1>6. Configured = global_major
    BY <1>4 DEF Configured, Waiting
  <1>7. \A b \in Barrier_Range : Members(b) = MembersOf(global_major, b)
    BY <1>6, AllApart DEF Members
  <1>8. \A b \in Barrier_Range : barriers[b].Size = Cardinality(Members(b))
    BY <1>5 DEF Coordinated, BarriersSound
  <1> QED
    BY <1>1, <1>5, <1>6, <1>7, <1>8

\* At boot and at the change of the major frame nobody is on a minor frame barrier
\* or in a subject.
LEMMA OutOfFrame ==
  ASSUME Coordinated, NEW c \in CPUs, Stage(c) # "frame"
  PROVE  \A d \in CPUs : /\ Stage(d) = Stage(c)
                         /\ pc[d] \notin {"entry", "guest", "publish"}
                         /\ pc[d] \in Waiting => wait[d].on = All
                         /\ ~Midframe(d)
  <1> SUFFICES ASSUME NEW d \in CPUs
               PROVE  /\ Stage(d) = Stage(c)
                      /\ pc[d] \notin {"entry", "guest", "publish"}
                      /\ pc[d] \in Waiting => wait[d].on = All
                      /\ ~Midframe(d)
    OBVIOUS
  <1>1. Stage(d) = Stage(c)
    BY DEF Coordinated, SameStage
  <1>2. ~(pc[d] \in {"entry", "guest", "publish"} \/ (pc[d] \in Waiting /\ wait[d].on # All))
    BY <1>1, StageOf DEF Coordinated
  <1> QED
    BY <1>1, <1>2 DEF Midframe

\* At the change every CPU has come to the end of its plan.
LEMMA AtChange ==
  ASSUME Coordinated, NEW c \in CPUs, Stage(c) = "change"
  PROVE  \A d \in CPUs : /\ Stage(d) = "change"
                         /\ Updating(d)
                         /\ minor[d] = Length(cur[d].major, d)
  <1> SUFFICES ASSUME NEW d \in CPUs
               PROVE  /\ Stage(d) = "change"
                      /\ Updating(d)
                      /\ minor[d] = Length(cur[d].major, d)
    OBVIOUS
  <1>1. Stage(d) = "change" /\ ~Midframe(d)
    BY OutOfFrame
  <1>2. Updating(d)
    BY <1>1, StageOf DEF Coordinated, Updating, On
  <1>3. minor[d] \in 1 .. Length(cur[d].major, d) /\ ~(minor[d] < Length(cur[d].major, d))
    BY <1>1, <1>2 DEF Coordinated, FramesValid, FrameValid
  <1>4. Length(cur[d].major, d) \in Nat
    BY Types, PlanFacts DEF Coordinated
  <1> QED
    BY <1>1, <1>2, <1>3, <1>4

\* Outside a major frame all CPUs have passed all deadlines, or none.
LEMMA PassedOutOfFrame ==
  ASSUME NEW s \in {"boot", "init", "change"}, \A d \in CPUs : Stage(d)' = s
  PROVE  PassedTogether'
  <1>1. \A m, t : Users(m, t) \subseteq CPUs
    BY DEF Users
  <1>2. ASSUME NEW d \in CPUs, NEW t
        PROVE  Passed(d, t)' <=> s = "change"
    <2>1. Stage(d)' = s
      OBVIOUS
    <2> QED
      BY <2>1 DEF Passed
  <1> QED
    BY <1>1, <1>2 DEF PassedTogether

\* The BSP is alone with the scheduling data while it changes them.
LEMMA Alone == Coordinated => ReconfigurationAlone
  <1> SUFFICES ASSUME Coordinated, pc[BSP] \in {"major", "start", "config"}
               PROVE  /\ \A c \in CPUs \ {BSP} :
                           /\ pc[c] \in {"again", "read", "xadd", "spin", "reset", "flip"}
                           /\ wait[c].on = All
                      /\ \A b \in Barrier_Range : barriers[b].Wait_Count = 0
    BY DEF ReconfigurationAlone
  <1>1. BSP \in CPUs /\ TypeOK
    BY PlanAssumption DEF Coordinated
  <1>2. Stage(BSP) = "change"
    BY <1>1, StageOf
  <1>3. \A d \in CPUs : Stage(d) = "change" /\ (pc[d] \in Waiting => wait[d].on = All)
    BY <1>1, <1>2, OutOfFrame
  <1>4. ASSUME NEW c \in CPUs \ {BSP}
        PROVE  /\ pc[c] \in {"again", "read", "xadd", "spin", "reset", "flip"}
               /\ wait[c].on = All
    <2>1. pc[c] \in {"again", "major", "start", "config"} \/ On(c, All)
      BY <1>1, <1>3, StageOf
    <2>2. OnWay(c)
      BY DEF Coordinated, OwnWay
    <2> QED
      BY <2>1, <2>2 DEF OnWay, On, Waiting
  <1>5. ASSUME NEW b \in Barrier_Range
        PROVE  barriers[b].Wait_Count = 0
    <2>1. \A d \in CPUs : ~On(d, b)
      BY <1>3, AllApart DEF On
    <2>2. BarrierSound(b)
      BY DEF Coordinated, BarriersSound
    <2> QED
      BY <2>1, <2>2, NobodyCounted
  <1> QED
    BY <1>4, <1>5

\* A step of CPU c that leaves the major frame, the senses and the sizes of the
\* barriers and the other CPUs alone: what is left to show is about c itself.
LEMMA LocalStep ==
  ASSUME Coordinated, TypeOK', NEW c \in CPUs, Others(c),
         global_major' = global_major,
         global_start' = global_start \/ \A d \in CPUs : pc'[d] # "guest",
         \A d \in CPUs \ {c} : /\ cur'[d] = cur[d] /\ minor'[d] = minor[d]
                               /\ timer'[d] = timer[d],
         \A b \in Barrier_Range \cup {All} : /\ barriers'[b].Sense = barriers[b].Sense
                                             /\ barriers'[b].Size = barriers[b].Size
                                             /\ BarrierSound(b)',
         Configured' = Configured, pc'[BSP] # "boot" => pc[BSP] # "boot",
         wait'[BSP].ret = "init" <=> wait[BSP].ret = "init",
         Stage(c)' = Stage(c), OnWay(c)', FrameValid(c)',
         \A t \in SyncPoints(global_major) :
           c \in Users(global_major, t) => (Passed(c, t)' <=> Passed(c, t)),
         pc'[c] = "guest" =>
           /\ minor'[c] <= Length(global_major', c)
           /\ timer'[c] = (global_start' + Deadline(global_major', c, minor'[c])) % WordSize
  PROVE  Coordinated'
  <1>1. ASSUME NEW d \in CPUs \ {c}
        PROVE  /\ Stage(d)' = Stage(d)
               /\ OnWay(d)' <=> OnWay(d)
               /\ FrameValid(d)' <=> FrameValid(d)
               /\ \A t : Passed(d, t)' <=> Passed(d, t)
    <2>1. wait[d].on \in Barrier_Range \cup {All}
      BY Types DEF Coordinated
    <2>2. barriers'[wait[d].on].Sense = barriers[wait[d].on].Sense
      BY <2>1
    <2> QED
      BY <2>2, ViewKept DEF Others
  <1>2. SameStage'
    BY <1>1 DEF Coordinated, SameStage
  <1>3. OwnWay'
    BY <1>1 DEF Coordinated, OwnWay
  <1>4. FramesValid'
    BY <1>1 DEF Coordinated, FramesValid
  <1>5. PassedTogether'
    <2>1. \A t \in SyncPoints(global_major) :
            \A d \in Users(global_major, t) : d \in CPUs /\ (Passed(d, t)' <=> Passed(d, t))
      BY <1>1 DEF Users
    <2> QED
      BY <2>1 DEF Coordinated, PassedTogether
  <1>6. FrameStable'
    BY DEF Coordinated, FrameStable, Others
  <1>7. BarriersSound'
    <2>1. \A b \in Barrier_Range : Members(b)' = Members(b)
      BY MembersKept
    <2> QED
      BY <2>1 DEF Coordinated, BarriersSound
  <1> QED
    BY <1>2, <1>3, <1>4, <1>5, <1>6, <1>7 DEF Coordinated

-----------------------------------------------------------------------------
(* The steps of Wait *)

\* A CPU inside Wait that has not been released stays in its stage.
LEMMA StillWaiting ==
  ASSUME NEW c \in CPUs, global_major' = global_major,
         pc[c] \in Waiting, pc'[c] \in Waiting, ~Released(c), ~Released(c)',
         wait'[c].on = wait[c].on, wait'[c].ret = wait[c].ret,
         cur'[c] = cur[c], minor'[c] = minor[c]
  PROVE  /\ Stage(c)' = Stage(c)
         /\ OnWay(c)' <=> OnWay(c)
         /\ FrameValid(c)' <=> FrameValid(c)
         /\ \A t : Passed(c, t)' <=> Passed(c, t)
  <1>1. Stage(c) = IF wait[c].on = All THEN Toward(wait[c].ret) ELSE "frame"
    BY DEF Stage, StageAt, Released, Waiting
  <1>2. Stage(c)' = IF wait'[c].on = All THEN Toward(wait'[c].ret) ELSE "frame"
    BY DEF Stage, StageAt, Released, Waiting
  <1>3. Stage(c)' = Stage(c)
    BY <1>1, <1>2
  <1>4. /\ Updating(c)' <=> Updating(c)
        /\ Midframe(c)' <=> Midframe(c)
        /\ On(c, All)' <=> On(c, All)
    BY DEF Updating, Midframe, On, Waiting
  <1>5. OnWay(c)' <=> OnWay(c)
    BY DEF OnWay, Waiting
  <1>6. FrameValid(c)' <=> FrameValid(c)
    BY <1>4 DEF FrameValid, Waiting
  <1>7. pc[c] # "publish" /\ pc'[c] # "publish"
    BY DEF Waiting
  <1> HIDE DEF Released
  <1>8. \A t : Passed(c, t)' <=> Passed(c, t)
    BY <1>3, <1>4, <1>7 DEF Passed
  <1> QED
    BY <1>3, <1>5, <1>6, <1>8

\* A CPU that leaves Wait continues where its caller says.
LEMMA Leaving ==
  ASSUME Coordinated, NEW c \in CPUs, global_major' = global_major,
         pc[c] \in {"spin", "flip"}, pc'[c] = wait[c].ret, wait'[c] = wait[c],
         cur'[c] = cur[c], minor'[c] = minor[c]
  PROVE  /\ pc'[c] \notin Waiting
         /\ Stage(c)' = IF wait[c].on = All THEN After(wait[c].ret) ELSE "frame"
         /\ OnWay(c)'
         /\ FrameValid(c)'
  <1>1. wait[c].ret \in Rets /\ OnWay(c) /\ FrameValid(c) /\ pc[c] \in Waiting
    BY Types DEF Coordinated, OwnWay, FramesValid, Waiting
  <1>2. pc'[c] \notin Waiting
    BY <1>1 DEF Rets, Waiting
  <1>3. wait[c].on # All => wait[c].ret = "publish"
    BY <1>1 DEF OnWay
  <1>4. Stage(c)' = IF wait[c].on = All THEN After(wait[c].ret) ELSE "frame"
    <2>1. CASE wait[c].ret = "init"
      <3>1. Stage(c)' = "init" /\ After(wait[c].ret) = "init"
        BY <2>1 DEF Stage, StageAt, After, Waiting
      <3> QED
        BY <1>3, <2>1, <3>1
    <2>2. CASE wait[c].ret \in {"major", "again"}
      <3>1. Stage(c)' = "change" /\ After(wait[c].ret) = "change"
        BY <2>2 DEF Stage, StageAt, After, Waiting
      <3> QED
        BY <1>3, <2>2, <3>1
    <2>3. CASE wait[c].ret \in {"entry", "publish"}
      <3>1. Stage(c)' = "frame"
        BY <2>3 DEF Stage, StageAt, Waiting
      <3>2. After(wait[c].ret) = "frame"
        BY <2>3 DEF After
      <3> QED
        BY <3>1, <3>2
    <2> QED
      BY <1>1, <2>1, <2>2, <2>3 DEF Rets
  <1>5. OnWay(c)'
    BY <1>1, <1>2 DEF OnWay, Rets
  <1>6. /\ Updating(c)' <=> Updating(c)
        /\ pc[c] # "publish"
        /\ pc'[c] # "entry" => pc'[c] = wait[c].ret
    BY <1>1, <1>2 DEF Updating, Rets, Waiting
  <1>7. Midframe(c) => Midframe(c)'
    BY <1>3, <1>6 DEF Midframe
  <1>8. FrameValid(c)'
    <2>1. pc'[c] = "init" => ~Updating(c)
      BY <1>2, <1>6 DEF Updating
    <2>2. pc'[c] \in {"boot", "off", "init"} => minor'[c] = 1
      BY <1>1, <2>1 DEF FrameValid, Rets
    <2>3. pc'[c] = "major" => cur'[c].major = global_major'
      BY <1>1 DEF FrameValid
    <2> QED
      BY <1>1, <1>2, <1>6, <1>7, <2>2, <2>3 DEF FrameValid
  <1> QED
    BY <1>2, <1>4, <1>5, <1>8

\* A step after Start_AP_Processors keeps how far the BSP is with booting.
LEMMA BSPKept ==
  ASSUME NEW c \in CPUs, Others(c), pc[c] # "boot",
         wait'[c].ret = "init" <=> wait[c].ret = "init"
  PROVE  /\ pc'[BSP] # "boot" => pc[BSP] # "boot"
         /\ wait'[BSP].ret = "init" <=> wait[BSP].ret = "init"
  <1>1. BSP \in CPUs
    BY PlanAssumption
  <1>2. CASE BSP = c
    BY <1>2
  <1>3. CASE BSP # c
    BY <1>1, <1>3 DEF Others
  <1> QED
    BY <1>2, <1>3

\* Only the BSP, between its writes, changes what the barriers are set up for.
LEMMA ConfiguredKept ==
  ASSUME NEW c \in CPUs, Others(c), pc[c] \notin {"start", "config"},
         pc'[c] \notin {"start", "config"}, global_major' = global_major,
         \A d \in CPUs \ {c} : cur'[d] = cur[d]
  PROVE  Configured' = Configured
  <1>1. BSP \in CPUs
    BY PlanAssumption
  <1>2. CASE BSP = c
    BY <1>2 DEF Configured
  <1>3. CASE BSP # c
    BY <1>1, <1>3 DEF Configured, Others
  <1> QED
    BY <1>2, <1>3

\* Wait: size and sense are read.
LEMMA ReadSenseInv ==
  ASSUME Coordinated, NEW c \in CPUs, ReadSense(c)
  PROVE  Coordinated'
  <1> DEFINE w == wait[c].on
  <1>1. /\ TypeOK /\ w \in Barrier_Range \cup {All} /\ wait[c].ret \in Rets
        /\ wait[c] \in [on : Barrier_Range \cup {All}, size : Byte, sense : BOOLEAN,
                        ret : {"init", "entry", "major", "again", "publish"}]
        /\ barriers[w].Size \in Byte /\ barriers[w].Sense \in BOOLEAN
    BY Types DEF Coordinated, TypeOK
  <1>2. /\ pc[c] = "read" /\ pc'[c] = "xadd" /\ Others(c)
        /\ wait'[c] = [wait[c] EXCEPT !.size = barriers[w].Size, !.sense = ~barriers[w].Sense]
        /\ pc' = [pc EXCEPT ![c] = "xadd"]
        /\ wait' = [wait EXCEPT ![c] = wait'[c]]
    BY <1>1 DEF ReadSense, Goto, Others, TypeOK
  <1>3. UNCHANGED <<barriers, global_major, global_start, minor, cur, info, timer>>
    BY DEF ReadSense, globals
  <1>4. /\ wait'[c].on = w /\ wait'[c].ret = wait[c].ret
        /\ wait'[c].size = barriers[w].Size
        /\ wait'[c].sense # barriers[w].Sense
        /\ wait'[c] \in [on : Barrier_Range \cup {All}, size : Byte, sense : BOOLEAN,
                         ret : {"init", "entry", "major", "again", "publish"}]
    BY <1>1, <1>2
  <1>5. TypeOK'
    BY <1>1, <1>2, <1>3, <1>4 DEF TypeOK
  <1>6. Configured' = Configured
    BY <1>2, <1>3, ConfiguredKept
  <1>7. ASSUME NEW b \in Barrier_Range \cup {All}
        PROVE  BarrierSound(b)'
    <2>1. BarrierSound(b) /\ Members(b)' = Members(b)
      BY <1>6, MembersKept DEF Coordinated, BarriersSound
    <2>2. CASE b = w
      BY <1>2, <1>3, <1>4, <2>1, <2>2, ReadBarrier
    <2>3. CASE b # w
      BY <1>2, <1>3, <1>4, <2>1, <2>3, OtherBarriers
    <2> QED
      BY <2>2, <2>3
  <1>8. ~Released(c) /\ ~Released(c)' /\ pc[c] \in Waiting /\ pc'[c] \in Waiting
    BY <1>2 DEF Released, Waiting
  <1>9. /\ Stage(c)' = Stage(c) /\ OnWay(c)' /\ FrameValid(c)'
        /\ \A t : Passed(c, t)' <=> Passed(c, t)
    BY <1>3, <1>4, <1>8, StillWaiting DEF Coordinated, OwnWay, FramesValid
  <1>10. /\ pc'[BSP] # "boot" => pc[BSP] # "boot"
         /\ wait'[BSP].ret = "init" <=> wait[BSP].ret = "init"
    BY <1>2, <1>4, BSPKept
  <1> QED
    BY <1>2, <1>3, <1>5, <1>6, <1>7, <1>9, <1>10, LocalStep

\* Wait: the atomic increment, by the last CPU or another one.
LEMMA IncrementInv ==
  ASSUME Coordinated, NEW c \in CPUs, Get_And_Increment(c)
  PROVE  Coordinated'
  <1> DEFINE w == wait[c].on
  <1>1. TypeOK /\ w \in Barrier_Range \cup {All} /\ barriers[w] \in Sense_Barrier_Type
    BY Types DEF Coordinated
  <1>2. /\ pc[c] = "xadd" /\ pc'[c] \in {"reset", "spin"} /\ Others(c)
        /\ pc'[c] = IF IsLast(barriers[w].Wait_Count, wait[c].size) THEN "reset" ELSE "spin"
        /\ pc' = [pc EXCEPT ![c] = pc'[c]]
        /\ barriers' = [barriers EXCEPT ![w] = Incremented(barriers[w])]
    BY <1>1 DEF Get_And_Increment, Goto, Others, TypeOK
  <1>3. UNCHANGED <<wait, global_major, global_start, minor, cur, info, timer>>
    BY DEF Get_And_Increment, globals
  <1>4. /\ barriers'[w] = Incremented(barriers[w])
        /\ \A b \in Barrier_Range \cup {All} : b # w => barriers'[b] = barriers[b]
    BY <1>1, <1>2 DEF TypeOK
  <1>6. Configured' = Configured
    BY <1>2, <1>3, ConfiguredKept
  <1>7. ASSUME NEW b \in Barrier_Range \cup {All}
        PROVE  /\ BarrierSound(b)' /\ barriers'[b] \in Sense_Barrier_Type
               /\ barriers'[b].Sense = barriers[b].Sense
               /\ barriers'[b].Size = barriers[b].Size
    <2>1. /\ BarrierSound(b) /\ Members(b)' = Members(b)
          /\ barriers[b] \in Sense_Barrier_Type
      BY <1>1, <1>6, MembersKept, Types DEF Coordinated, BarriersSound
    <2>2. CASE b = w
      BY <1>1, <1>2, <1>3, <1>4, <2>1, <2>2, IncrementBarrier
    <2>3. CASE b # w
      BY <1>2, <1>3, <1>4, <2>1, <2>3, OtherBarriers
    <2> QED
      BY <2>2, <2>3
  <1>9. TypeOK'
    <2>1. barriers' \in [Barrier_Range \cup {All} -> Sense_Barrier_Type]
      BY <1>1, <1>2, <1>7 DEF TypeOK
    <2> QED
      BY <1>1, <1>2, <1>3, <2>1 DEF TypeOK
  <1>10. ~Released(c) /\ ~Released(c)' /\ pc[c] \in Waiting /\ pc'[c] \in Waiting
    <2>1. BarrierSound(w) /\ On(c, w)
      BY <1>1, <1>2 DEF Coordinated, BarriersSound, On, Waiting
    <2>2. wait[c].sense # barriers[w].Sense
      BY <1>2, <2>1 DEF BarrierSound
    <2>3. wait' = wait /\ barriers'[w].Sense = barriers[w].Sense
      BY <1>1, <1>3, <1>7
    <2> QED
      BY <1>2, <2>2, <2>3 DEF Released, Waiting
  <1>11. /\ Stage(c)' = Stage(c) /\ OnWay(c)' /\ FrameValid(c)'
         /\ \A t : Passed(c, t)' <=> Passed(c, t)
    BY <1>3, <1>10, StillWaiting DEF Coordinated, OwnWay, FramesValid
  <1>12. pc'[BSP] # "boot" => pc[BSP] # "boot"
    BY <1>2, Types DEF Others, Coordinated
  <1> QED
    BY <1>2, <1>3, <1>6, <1>9, <1>7, <1>11, <1>12, LocalStep

\* Wait: the last CPU resets the count.
LEMMA ResetInv ==
  ASSUME Coordinated, NEW c \in CPUs, Reset(c)
  PROVE  Coordinated'
  <1> DEFINE w == wait[c].on
  <1>1. TypeOK /\ w \in Barrier_Range \cup {All} /\ barriers[w] \in Sense_Barrier_Type
    BY Types DEF Coordinated
  <1>2. /\ pc[c] = "reset" /\ pc'[c] = "flip" /\ Others(c)
        /\ pc' = [pc EXCEPT ![c] = pc'[c]]
        /\ barriers' = [barriers EXCEPT ![w] = CountReset(barriers[w])]
    BY <1>1 DEF Reset, Goto, Others, TypeOK
  <1>3. UNCHANGED <<wait, global_major, global_start, minor, cur, info, timer>>
    BY DEF Reset, globals
  <1>4. /\ barriers'[w] = CountReset(barriers[w])
        /\ \A b \in Barrier_Range \cup {All} : b # w => barriers'[b] = barriers[b]
    BY <1>1, <1>2 DEF TypeOK
  <1>6. Configured' = Configured
    BY <1>2, <1>3, ConfiguredKept
  <1>7. ASSUME NEW b \in Barrier_Range \cup {All}
        PROVE  /\ BarrierSound(b)' /\ barriers'[b] \in Sense_Barrier_Type
               /\ barriers'[b].Sense = barriers[b].Sense
               /\ barriers'[b].Size = barriers[b].Size
    <2>1. /\ BarrierSound(b) /\ Members(b)' = Members(b)
          /\ barriers[b] \in Sense_Barrier_Type
      BY <1>1, <1>6, MembersKept, Types DEF Coordinated, BarriersSound
    <2>2. CASE b = w
      BY <1>1, <1>2, <1>3, <1>4, <2>1, <2>2, ResetBarrier
    <2>3. CASE b # w
      BY <1>2, <1>3, <1>4, <2>1, <2>3, OtherBarriers
    <2> QED
      BY <2>2, <2>3
  <1>9. TypeOK'
    <2>1. barriers' \in [Barrier_Range \cup {All} -> Sense_Barrier_Type]
      BY <1>1, <1>2, <1>7 DEF TypeOK
    <2> QED
      BY <1>1, <1>2, <1>3, <2>1 DEF TypeOK
  <1>10. ~Released(c) /\ ~Released(c)' /\ pc[c] \in Waiting /\ pc'[c] \in Waiting
    BY <1>2 DEF Released, Waiting
  <1>11. /\ Stage(c)' = Stage(c) /\ OnWay(c)' /\ FrameValid(c)'
         /\ \A t : Passed(c, t)' <=> Passed(c, t)
    BY <1>3, <1>10, StillWaiting DEF Coordinated, OwnWay, FramesValid
  <1>12. pc'[BSP] # "boot" => pc[BSP] # "boot"
    BY <1>2, Types DEF Others, Coordinated
  <1> QED
    BY <1>2, <1>3, <1>6, <1>9, <1>7, <1>11, <1>12, LocalStep

\* Wait: a CPU leaves the spin loop.
LEMMA SpinInv ==
  ASSUME Coordinated, NEW c \in CPUs, Spin(c)
  PROVE  Coordinated'
  <1> DEFINE w == wait[c].on
  <1>1. TypeOK /\ w \in Barrier_Range \cup {All} /\ wait[c].ret \in Rets
    BY Types DEF Coordinated
  <1>2. /\ pc[c] = "spin" /\ pc'[c] = wait[c].ret /\ Others(c)
        /\ pc' = [pc EXCEPT ![c] = wait[c].ret]
        /\ wait[c].sense = barriers[w].Sense
    BY <1>1 DEF Spin, Goto, Others, TypeOK
  <1>3. UNCHANGED <<wait, barriers, global_major, global_start, minor, cur, info, timer>>
    BY DEF Spin, globals
  <1>4. TypeOK'
    BY <1>1, <1>2, <1>3 DEF TypeOK, Rets
  <1>5. /\ pc'[c] \notin Waiting /\ OnWay(c)' /\ FrameValid(c)'
        /\ Stage(c)' = IF w = All THEN After(wait[c].ret) ELSE "frame"
    BY <1>2, <1>3, Leaving
  <1>6. Configured' = Configured
    BY <1>1, <1>2, <1>3, ConfiguredKept DEF Rets
  <1>7. ASSUME NEW b \in Barrier_Range \cup {All}
        PROVE  BarrierSound(b)'
    <2>1. BarrierSound(b) /\ Members(b)' = Members(b)
      BY <1>6, MembersKept DEF Coordinated, BarriersSound
    <2>2. CASE b = w
      BY <1>2, <1>3, <1>5, <2>1, <2>2, SpinBarrier
    <2>3. CASE b # w
      BY <1>2, <1>3, <1>5, <2>1, <2>3, OtherBarriers
    <2> QED
      BY <2>2, <2>3
  <1>8. Released(c) /\ pc[c] \in Waiting
    BY <1>2 DEF Released, Waiting
  <1>9. Stage(c) = IF w = All THEN After(wait[c].ret) ELSE "frame"
    BY <1>2 DEF Stage, StageAt, Waiting
  <1>10. Stage(c)' = Stage(c)
    BY <1>5, <1>9
  <1>11. ASSUME NEW t
         PROVE  Passed(c, t)' <=> Passed(c, t)
    <2>1. OnWay(c) /\ FrameValid(c)
      BY DEF Coordinated, OwnWay, FramesValid
    <2>2. Updating(c)' <=> Updating(c)
      BY <1>1, <1>2, <1>3, <1>5, <1>8 DEF Updating, Rets
    <2>3. CASE Stage(c) # "frame"
      BY <1>10, <2>3 DEF Passed
    <2>4. CASE Stage(c) = "frame" /\ w = All
      <3>1. wait[c].ret \in {"entry", "publish"}
        BY <1>1, <1>9, <2>4 DEF After, Rets
      <3>2. ~Midframe(c) /\ (Updating(c) => ~(minor[c] < Length(cur[c].major, c)))
        BY <1>2, <2>1, <2>4 DEF Midframe, FrameValid
      <3>3. pc'[c] \notin Waiting /\ ~On(c, All)'
        BY <1>5 DEF On
      <3>4. Passed(c, t)' <=> ~Updating(c) /\ Deadline(global_major, c, minor[c]) > t
        <4>1. wait[c].ret = "publish" => Updating(c)
          BY <1>8 DEF Updating
        <4>2. wait[c].ret = "entry" => ~Midframe(c)'
          BY <1>2, <1>5 DEF Midframe
        <4> QED
          BY <1>3, <1>10, <2>2, <2>4, <3>1, <3>2, <3>3, <4>1, <4>2 DEF Passed
      <3>5. Passed(c, t) <=> ~Updating(c) /\ Deadline(global_major, c, minor[c]) > t
        BY <2>4, <3>1, <3>2 DEF Passed
      <3> QED
        BY <3>4, <3>5
    <2>5. CASE w # All
      <3>1. /\ wait[c].ret = "publish" /\ minor[c] < Length(cur[c].major, c)
            /\ Midframe(c) /\ Updating(c) /\ Stage(c) = "frame"
        BY <1>8, <1>9, <2>1, <2>5 DEF OnWay, FrameValid, Midframe, Updating
      <3>2. Midframe(c)' /\ pc'[c] = "publish" /\ ~On(c, All)' /\ ~On(c, All)
        BY <1>2, <1>5, <2>5, <3>1 DEF Midframe, On
      <3> QED
        BY <1>3, <1>8, <1>10, <2>2, <3>1, <3>2 DEF Passed
    <2> QED
      BY <2>3, <2>4, <2>5
  <1>12. pc'[BSP] # "boot" => pc[BSP] # "boot"
    BY <1>2, Types DEF Others, Coordinated
  <1>13. pc'[c] # "guest"
    BY <1>1, <1>2 DEF Rets
  <1> QED
    BY <1>2, <1>3, <1>4, <1>5, <1>6, <1>7, <1>10, <1>11, <1>12, <1>13, LocalStep

-----------------------------------------------------------------------------
(* The steps outside Wait that concern one CPU *)

\* A step outside Wait leaves all barriers sound.
LEMMA BarriersQuiet ==
  ASSUME Coordinated, NEW c \in CPUs, Others(c), pc[c] \notin Waiting, pc'[c] \notin Waiting,
         barriers' = barriers, Configured' = Configured
  PROVE  \A b \in Barrier_Range \cup {All} : BarrierSound(b)'
  <1> SUFFICES ASSUME NEW b \in Barrier_Range \cup {All} PROVE BarrierSound(b)'
    OBVIOUS
  <1>1. BarrierSound(b) /\ Members(b)' = Members(b)
    BY MembersKept DEF Coordinated, BarriersSound
  <1>2. \A d \in CPUs : /\ On(d, b)' <=> On(d, b)
                        /\ On(d, b) => pc'[d] = pc[d] /\ wait'[d] = wait[d]
    BY DEF On, Others
  <1> QED
    BY <1>1, <1>2, BarrierKept

\* So does a CPU that calls Wait on a barrier of its own.
LEMMA BarriersEntered ==
  ASSUME Coordinated, NEW c \in CPUs, Others(c), pc[c] \notin Waiting, pc'[c] = "read",
         NEW w, wait'[c].on = w, c \in Members(w), barriers[w].Size = Cardinality(Members(w)),
         barriers' = barriers, Configured' = Configured
  PROVE  \A b \in Barrier_Range \cup {All} : BarrierSound(b)'
  <1> SUFFICES ASSUME NEW b \in Barrier_Range \cup {All} PROVE BarrierSound(b)'
    OBVIOUS
  <1>1. BarrierSound(b) /\ Members(b)' = Members(b)
    BY MembersKept DEF Coordinated, BarriersSound
  <1>2. CASE b = w
    BY <1>1, <1>2, BarrierEntered DEF Others
  <1>3. CASE b # w
    <2>1. \A d \in CPUs : /\ On(d, b)' <=> On(d, b)
                          /\ On(d, b) => pc'[d] = pc[d] /\ wait'[d] = wait[d]
      BY <1>3 DEF On, Others
    <2> QED
      BY <1>1, <2>1, BarrierKept
  <1> QED
    BY <1>2, <1>3

\* After boot the all-CPU barrier is ready for everybody.
LEMMA AllReady ==
  ASSUME Coordinated, NEW c \in CPUs, Stage(c) # "boot"
  PROVE  /\ c \in Members(All) /\ barriers[All].Size = Cardinality(Members(All))
         /\ pc[BSP] # "boot"
  <1>1. BSP \in CPUs /\ TypeOK
    BY PlanAssumption DEF Coordinated
  <1>2. Stage(BSP) # "boot"
    BY <1>1 DEF Coordinated, SameStage
  <1>3. pc[BSP] # "boot"
    BY <1>1, <1>2, StageOf
  <1>4. Members(All) = CPUs
    BY DEF Members
  <1> QED
    BY <1>3, <1>4 DEF Coordinated, BarriersSound

\* The timer is programmed when the kernel enters the guest.
LEMMA SetTimerInv ==
  ASSUME Coordinated, NEW c \in CPUs, Set_VMX_Exit_Timer(c)
  PROVE  Coordinated'
  <1>1. TypeOK
    BY DEF Coordinated
  <1>2. /\ pc[c] = "entry" /\ pc' = [pc EXCEPT ![c] = "guest"] /\ pc'[c] = "guest"
        /\ Others(c)
        /\ timer' = [timer EXCEPT ![c] =
                       (global_start + Deadline(global_major, c, minor[c])) % WordSize]
    BY <1>1 DEF Set_VMX_Exit_Timer, Goto, Others, TypeOK
  <1>3. UNCHANGED <<wait, barriers, global_major, global_start, minor, cur, info>>
    BY DEF Set_VMX_Exit_Timer, globals
  <1>4. OnWay(c) /\ FrameValid(c) /\ ~Updating(c) /\ ~Updating(c)'
    BY <1>2 DEF Coordinated, OwnWay, FramesValid, Updating, Waiting
  <1>5. minor[c] \in 1 .. Length(global_major, c) /\ global_major \in Majors
    BY <1>1, <1>4 DEF FrameValid, TypeOK
  <1>6. Deadline(global_major, c, minor[c]) \in Nat /\ global_start \in Nat
    BY <1>1, <1>5, DeadlineOrder DEF TypeOK, Ticks
  <1>7. (global_start + Deadline(global_major, c, minor[c])) % WordSize \in Ticks
    BY <1>6, TicksType
  <1>8. TypeOK'
    BY <1>1, <1>2, <1>3, <1>7 DEF TypeOK
  <1>9. Configured' = Configured
    BY <1>2, <1>3, ConfiguredKept
  <1>10. \A b \in Barrier_Range \cup {All} : BarrierSound(b)'
    BY <1>2, <1>3, <1>9, BarriersQuiet DEF Waiting
  <1>11. Stage(c)' = "frame" /\ Stage(c) = "frame"
    BY <1>2 DEF Stage, StageAt, Waiting
  <1>12. OnWay(c)'
    BY <1>2, <1>3, <1>4 DEF OnWay, Waiting
  <1>13. FrameValid(c)'
    BY <1>2, <1>3, <1>4, <1>5 DEF FrameValid, Waiting
  <1>14. \A t : Passed(c, t)' <=> Passed(c, t)
    BY <1>2, <1>3, <1>4, <1>11 DEF Passed, On, Midframe, Waiting
  <1>15. timer'[c] = (global_start + Deadline(global_major, c, minor[c])) % WordSize
    BY <1>1, <1>2 DEF TypeOK
  <1>16. minor[c] <= Length(global_major, c)
    BY <1>5, PlanFacts
  <1>17. \A d \in CPUs \ {c} : timer'[d] = timer[d]
    BY <1>1, <1>2 DEF TypeOK
  <1>18. pc'[BSP] # "boot" => pc[BSP] # "boot"
    BY <1>2, <1>3, BSPKept
  <1> QED
    BY <1>2, <1>3, <1>8, <1>9, <1>10, <1>11, <1>12, <1>13, <1>14, <1>15, <1>16, <1>17, <1>18,
       LocalStep

\* An exit inside a frame leaves the frame for the kernel.
LEMMA OtherExitInv ==
  ASSUME Coordinated, NEW c \in CPUs, Other_Exit(c)
  PROVE  Coordinated'
  <1>1. TypeOK
    BY DEF Coordinated
  <1>2. /\ pc[c] = "guest" /\ pc' = [pc EXCEPT ![c] = "entry"] /\ pc'[c] = "entry"
        /\ Others(c)
    BY <1>1 DEF Other_Exit, Goto, Others, TypeOK
  <1>3. UNCHANGED <<wait, barriers, global_major, global_start, minor, cur, info, timer>>
    BY DEF Other_Exit, globals
  <1>4. OnWay(c) /\ FrameValid(c) /\ ~Updating(c) /\ ~Updating(c)'
    BY <1>2 DEF Coordinated, OwnWay, FramesValid, Updating, Waiting
  <1>5. TypeOK'
    BY <1>1, <1>2, <1>3 DEF TypeOK
  <1>6. Configured' = Configured
    BY <1>2, <1>3, ConfiguredKept
  <1>7. \A b \in Barrier_Range \cup {All} : BarrierSound(b)'
    BY <1>2, <1>3, <1>6, BarriersQuiet DEF Waiting
  <1>8. Stage(c)' = "frame" /\ Stage(c) = "frame"
    BY <1>2 DEF Stage, StageAt, Waiting
  <1>9. OnWay(c)'
    BY <1>2, <1>3, <1>4 DEF OnWay, Waiting
  <1>10. FrameValid(c)'
    BY <1>2, <1>3, <1>4 DEF FrameValid, Waiting
  <1>11. \A t : Passed(c, t)' <=> Passed(c, t)
    BY <1>2, <1>3, <1>4, <1>8 DEF Passed, On, Midframe, Waiting
  <1>12. pc'[BSP] # "boot" => pc[BSP] # "boot"
    BY <1>2, <1>3, BSPKept
  <1> QED
    BY <1>2, <1>3, <1>5, <1>6, <1>7, <1>8, <1>9, <1>10, <1>11, <1>12, LocalStep

\* A deadline of a CPU lies before the end of its frame i exactly when it is the
\* deadline of an earlier one.
LEMMA PassedNext ==
  ASSUME NEW m \in Majors, NEW t \in SyncPoints(m), NEW c \in Users(m, t),
         NEW i \in 1 .. Length(m, c), i < Length(m, c)
  PROVE  /\ t \in Nat /\ i + 1 \in 1 .. Length(m, c)
         /\ Deadline(m, c, i) \in Nat
         /\ Deadline(m, c, i + 1) > t <=> Deadline(m, c, i) >= t
  <1>1. c \in CPUs
    BY DEF Users
  <1>2. PICK j \in 1 .. Length(m, c) : Deadline(m, c, j) = t
    BY DEF Users
  <1>3. Length(m, c) \in Nat /\ i \in Nat /\ j \in Nat /\ i + 1 \in 1 .. Length(m, c)
    BY <1>1, PlanFacts
  <1>4. /\ Deadline(m, c, i) \in Nat /\ t \in Nat /\ Deadline(m, c, i + 1) \in Nat
        /\ j < i + 1 <=> Deadline(m, c, j) < Deadline(m, c, i + 1)
        /\ j <= i <=> Deadline(m, c, j) <= Deadline(m, c, i)
    BY <1>1, <1>2, <1>3, DeadlineOrder
  <1>5. j < i + 1 <=> j <= i
    BY <1>3
  <1> QED
    BY <1>2, <1>3, <1>4, <1>5

\* A CPU in its first frame has passed none of its deadlines.
LEMMA PassedFirst ==
  ASSUME NEW m \in Majors, NEW t \in SyncPoints(m), NEW c \in Users(m, t)
  PROVE  1 \in 1 .. Length(m, c) /\ Deadline(m, c, 1) \in Nat /\ ~(Deadline(m, c, 1) > t)
  <1>1. c \in CPUs
    BY DEF Users
  <1>2. PICK j \in 1 .. Length(m, c) : Deadline(m, c, j) = t
    BY DEF Users
  <1>3. Length(m, c) \in Nat /\ j \in Nat /\ 1 \in 1 .. Length(m, c) /\ 1 <= j
    BY <1>1, PlanFacts
  <1>4. Deadline(m, c, 1) \in Nat /\ Deadline(m, c, j) \in Nat
        /\ Deadline(m, c, 1) <= Deadline(m, c, j)
    BY <1>1, <1>3, DeadlineOrder
  <1> QED
    BY <1>2, <1>3, <1>4

\* Publish: the CPU begins the next minor frame, or the first of the next major one.
LEMMA PublishInv ==
  ASSUME Coordinated, NEW c \in CPUs, Publish(c)
  PROVE  Coordinated'
  <1> DEFINE m == cur[c].major
  <1> DEFINE next == IF minor[c] < Length(m, c) THEN minor[c] + 1 ELSE 1
  <1>1. /\ TypeOK /\ m \in Majors /\ global_major \in Majors
        /\ cur[c].start \in Nat /\ global_start \in Nat
    BY DEF Coordinated, TypeOK, Ticks
  <1>2. /\ pc[c] = "publish" /\ pc' = [pc EXCEPT ![c] = "entry"] /\ pc'[c] = "entry"
        /\ Others(c)
        /\ minor' = [minor EXCEPT ![c] = next] /\ minor'[c] = next
        /\ info' = [info EXCEPT ![c] =
             [start |-> (cur[c].start + Deadline(m, c, minor[c])) % WordSize,
              end |-> (global_start + Deadline(global_major, c, next)) % WordSize]]
    BY <1>1 DEF Publish, Goto, Others, TypeOK
  <1>3. UNCHANGED <<wait, barriers, global_major, global_start, cur, timer>>
    BY DEF Publish, globals
  <1>4. OnWay(c) /\ FrameValid(c) /\ Updating(c) /\ ~Updating(c)' /\ Midframe(c)
    BY <1>2 DEF Coordinated, OwnWay, FramesValid, Updating, Midframe, Waiting
  <1>5. /\ minor[c] \in 1 .. Length(m, c) /\ Length(m, c) \in Nat
        /\ minor[c] < Length(m, c) => m = global_major
        /\ Length(global_major, c) \in Nat /\ Length(global_major, c) >= 1
    BY <1>1, <1>4, PlanFacts DEF FrameValid
  <1>6. next \in 1 .. Length(global_major, c) /\ next \in Nat
    BY <1>5
  <1>7. TypeOK'
    <2>1. /\ Deadline(m, c, minor[c]) \in Nat
          /\ Deadline(global_major, c, next) \in Nat
      BY <1>1, <1>5, <1>6, DeadlineOrder
    <2> HIDE DEF next
    <2>2. /\ (cur[c].start + Deadline(m, c, minor[c])) % WordSize \in Ticks
          /\ (global_start + Deadline(global_major, c, next)) % WordSize \in Ticks
      BY <1>1, <2>1, TicksType
    <2>3. info' \in [CPUs -> [start : Ticks, end : Ticks]]
      BY <1>1, <1>2, <2>2 DEF TypeOK
    <2>4. minor' \in [CPUs -> Nat]
      BY <1>1, <1>2, <1>6 DEF TypeOK
    <2> QED
      BY <1>1, <1>2, <1>3, <2>3, <2>4 DEF TypeOK
  <1>8. Configured' = Configured
    BY <1>2, <1>3, ConfiguredKept
  <1>9. \A b \in Barrier_Range \cup {All} : BarrierSound(b)'
    BY <1>2, <1>3, <1>8, BarriersQuiet DEF Waiting
  <1>10. Stage(c)' = "frame" /\ Stage(c) = "frame"
    BY <1>2 DEF Stage, StageAt, Waiting
  <1>11. OnWay(c)'
    BY <1>2, <1>3, <1>4 DEF OnWay, Waiting
  <1>12. FrameValid(c)'
    BY <1>2, <1>3, <1>4, <1>6 DEF FrameValid, Waiting
  <1>13. ASSUME NEW t \in SyncPoints(global_major), c \in Users(global_major, t)
         PROVE  Passed(c, t)' <=> Passed(c, t)
    <2>1. Passed(c, t)' <=> Deadline(global_major, c, next) > t
      BY <1>2, <1>3, <1>4, <1>10 DEF Passed, On, Midframe, Waiting
    <2>2. Passed(c, t) <=> /\ minor[c] < Length(m, c)
                           /\ \/ Deadline(global_major, c, minor[c]) > t
                              \/ Deadline(global_major, c, minor[c]) = t
      BY <1>2, <1>4, <1>10 DEF Passed, On, Waiting
    <2>3. CASE minor[c] < Length(m, c)
      <3>1. minor[c] \in 1 .. Length(global_major, c) /\ minor[c] < Length(global_major, c)
        BY <1>5, <2>3
      <3>2. /\ t \in Nat /\ Deadline(global_major, c, minor[c]) \in Nat
            /\ Deadline(global_major, c, minor[c] + 1) > t
                 <=> Deadline(global_major, c, minor[c]) >= t
        BY <1>1, <1>13, <3>1, PassedNext
      <3>3. next = minor[c] + 1
        BY <2>3
      <3> HIDE DEF next
      <3> QED
        BY <2>1, <2>2, <2>3, <3>2, <3>3
    <2>4. CASE ~(minor[c] < Length(m, c))
      <3>1. next = 1
        BY <2>4
      <3>2. ~(Deadline(global_major, c, 1) > t)
        BY <1>1, <1>13, PassedFirst
      <3> HIDE DEF next
      <3> QED
        BY <2>1, <2>2, <2>4, <3>1, <3>2
    <2> QED
      BY <2>3, <2>4
  <1>14. pc'[BSP] # "boot" => pc[BSP] # "boot"
    BY <1>2, <1>3, BSPKept
  <1>15. \A d \in CPUs \ {c} : minor'[d] = minor[d]
    BY <1>1, <1>2 DEF TypeOK
  <1> HIDE DEF next
  <1> QED
    BY <1>2, <1>3, <1>7, <1>8, <1>9, <1>10, <1>11, <1>12, <1>13, <1>14, <1>15, LocalStep

\* An AP waits again at once: it does not look at the data the BSP is changing.
LEMMA WaitAgainInv ==
  ASSUME Coordinated, NEW c \in CPUs, Wait_Again(c)
  PROVE  Coordinated'
  <1>1. TypeOK
    BY DEF Coordinated
  <1>2. /\ pc[c] = "again" /\ pc' = [pc EXCEPT ![c] = "read"] /\ pc'[c] = "read"
        /\ Others(c)
        /\ wait' = [wait EXCEPT ![c] = WaitCall(All, "publish")]
        /\ wait'[c] = WaitCall(All, "publish")
    BY <1>1 DEF Wait_Again, Goto, Others, TypeOK
  <1>3. UNCHANGED <<barriers, global_major, global_start, minor, cur, info, timer>>
    BY DEF Wait_Again, globals
  <1>4. wait'[c].on = All /\ wait'[c].ret = "publish"
    BY <1>2 DEF WaitCall
  <1>5. TypeOK'
    <2>1. WaitCall(All, "publish") \in
            [on : Barrier_Range \cup {All}, size : Byte, sense : BOOLEAN,
             ret : {"init", "entry", "major", "again", "publish"}]
      BY DEF WaitCall, Byte, ByteSize
    <2> QED
      BY <1>1, <1>2, <1>3, <2>1 DEF TypeOK
  <1>6. Configured' = Configured
    BY <1>2, <1>3, ConfiguredKept
  <1>7. Stage(c) = "change"
    BY <1>2 DEF Stage, StageAt, Waiting
  <1>8. Stage(c)' = "change"
    BY <1>2, <1>4 DEF Stage, StageAt, Waiting, Toward
  <1>9. \A b \in Barrier_Range \cup {All} : BarrierSound(b)'
    <2>1. c \in Members(All) /\ barriers[All].Size = Cardinality(Members(All))
      BY <1>7, AllReady
    <2>2. pc[c] \notin Waiting
      BY <1>2 DEF Waiting
    <2> QED
      BY <1>2, <1>3, <1>4, <1>6, <2>1, <2>2, BarriersEntered
  <1>10. OnWay(c) /\ FrameValid(c) /\ Updating(c) /\ ~Midframe(c)
    BY <1>2 DEF Coordinated, OwnWay, FramesValid, Updating, Midframe, Waiting
  <1>11. OnWay(c)'
    BY <1>2, <1>4, <1>10 DEF OnWay, Waiting
  <1>12. FrameValid(c)'
    <2>1. Updating(c)' /\ ~Midframe(c)'
      BY <1>2, <1>4 DEF Updating, Midframe, Waiting
    <2> QED
      BY <1>2, <1>3, <1>4, <1>10, <2>1 DEF FrameValid, Waiting
  <1>13. \A t : Passed(c, t)' <=> Passed(c, t)
    BY <1>7, <1>8 DEF Passed
  <1>14. /\ pc'[BSP] # "boot" => pc[BSP] # "boot"
         /\ wait'[BSP].ret = "init" <=> wait[BSP].ret = "init"
    <2>1. wait[c].ret # "init"
      BY <1>2, <1>10 DEF OnWay
    <2> QED
      BY <1>2, <1>4, <2>1, BSPKept
  <1> QED
    BY <1>2, <1>3, <1>5, <1>6, <1>7, <1>8, <1>9, <1>11, <1>12, <1>13, <1>14, LocalStep

\* Update_Scheduling_Info in a CPU's last minor frame: it goes to the all-CPU barrier.
LEMMA UpdateLast ==
  ASSUME Coordinated, NEW c \in CPUs, Update_Scheduling_Info(c),
         minor[c] >= Length(global_major, c)
  PROVE  Coordinated'
  <1> DEFINE ret == IF c = BSP THEN "major" ELSE "again"
  <1>1. TypeOK /\ global_major \in Majors /\ global_start \in Ticks
    BY DEF Coordinated, TypeOK
  <1>2. /\ pc[c] = "guest" /\ pc' = [pc EXCEPT ![c] = "read"] /\ pc'[c] = "read"
        /\ Others(c)
        /\ wait' = [wait EXCEPT ![c] = WaitCall(All, ret)]
        /\ wait'[c] = WaitCall(All, ret)
        /\ cur' = [cur EXCEPT ![c] = [major |-> global_major, start |-> global_start]]
        /\ cur'[c] = [major |-> global_major, start |-> global_start]
    BY <1>1 DEF Update_Scheduling_Info, Goto, Others, TypeOK
  <1>3. UNCHANGED <<barriers, global_major, global_start, minor, info, timer>>
    BY DEF Update_Scheduling_Info, globals
  <1>4. /\ wait'[c].on = All /\ wait'[c].ret = ret /\ ret \in {"major", "again"}
        /\ cur'[c].major = global_major
        /\ ret = "major" <=> c = BSP
    BY <1>2 DEF WaitCall
  <1> HIDE DEF ret
  <1>5. TypeOK'
    <2>1. WaitCall(All, ret) \in
            [on : Barrier_Range \cup {All}, size : Byte, sense : BOOLEAN,
             ret : {"init", "entry", "major", "again", "publish"}]
      BY <1>4 DEF WaitCall, Byte, ByteSize
    <2>2. [major |-> global_major, start |-> global_start] \in [major : Majors, start : Ticks]
      BY <1>1
    <2>3. cur' \in [CPUs -> [major : Majors, start : Ticks]]
      BY <1>1, <1>2, <2>2 DEF TypeOK
    <2> QED
      BY <1>1, <1>2, <1>3, <2>1, <2>3 DEF TypeOK
  <1>6. \A d \in CPUs \ {c} : cur'[d] = cur[d]
    BY <1>1, <1>2 DEF TypeOK
  <1>7. Configured' = Configured
    BY <1>2, <1>3, <1>6, ConfiguredKept
  <1>8. Stage(c) = "frame"
    BY <1>2 DEF Stage, StageAt, Waiting
  <1>9. Stage(c)' = "frame"
    BY <1>2, <1>4 DEF Stage, StageAt, Waiting, Toward
  <1>10. \A b \in Barrier_Range \cup {All} : BarrierSound(b)'
    <2>1. c \in Members(All) /\ barriers[All].Size = Cardinality(Members(All))
      BY <1>8, AllReady
    <2>2. pc[c] \notin Waiting
      BY <1>2 DEF Waiting
    <2> QED
      BY <1>2, <1>3, <1>4, <1>7, <2>1, <2>2, BarriersEntered
  <1>11. OnWay(c) /\ FrameValid(c) /\ ~Updating(c)
    BY <1>2 DEF Coordinated, OwnWay, FramesValid, Updating, Waiting
  <1>12. /\ minor[c] \in 1 .. Length(global_major, c) /\ Length(global_major, c) \in Nat
         /\ minor[c] = Length(global_major, c)
    BY <1>1, <1>11, PlanFacts DEF FrameValid
  <1>13. OnWay(c)'
    BY <1>2, <1>4, <1>11 DEF OnWay, Waiting
  <1>14. FrameValid(c)'
    <2>1. Updating(c)' /\ ~Midframe(c)'
      BY <1>2, <1>4 DEF Updating, Midframe, Waiting
    <2> QED
      BY <1>2, <1>3, <1>4, <1>12, <2>1 DEF FrameValid, Waiting
  <1>15. ASSUME NEW t \in SyncPoints(global_major), c \in Users(global_major, t)
         PROVE  Passed(c, t)' <=> Passed(c, t)
    <2>1. t \in Nat /\ t < Period(global_major)
      BY <1>1, SyncPointsFinite
    <2>2. Deadline(global_major, c, minor[c]) = Period(global_major)
      BY <1>1, <1>12, PlanFacts
    <2>3. Period(global_major) \in Nat
      BY <1>1, PlanFacts
    <2>4. Passed(c, t)
      BY <1>8, <1>11, <2>1, <2>2, <2>3 DEF Passed
    <2>5. On(c, All)'
      BY <1>2, <1>4 DEF On, Waiting
    <2>6. Passed(c, t)'
      BY <1>4, <1>9, <2>5 DEF Passed
    <2> QED
      BY <2>4, <2>6
  <1>16. /\ pc'[BSP] # "boot" => pc[BSP] # "boot"
         /\ wait'[BSP].ret = "init" <=> wait[BSP].ret = "init"
    <2>1. wait[c].ret # "init"
      BY <1>2, <1>11 DEF OnWay
    <2> QED
      BY <1>2, <1>4, <2>1, BSPKept
  <1> QED
    BY <1>2, <1>3, <1>5, <1>6, <1>7, <1>8, <1>9, <1>10, <1>13, <1>14, <1>15, <1>16, LocalStep

\* Update_Scheduling_Info at a common deadline: the CPU goes to its barrier, of which
\* it is a member.
LEMMA UpdateSynced ==
  ASSUME Coordinated, NEW c \in CPUs, Update_Scheduling_Info(c),
         minor[c] < Length(global_major, c),
         Deadline(global_major, c, minor[c]) \in SyncPoints(global_major)
  PROVE  Coordinated'
  <1> DEFINE m == global_major
  <1> DEFINE u == Deadline(m, c, minor[c])
  <1> DEFINE w == BarrierID(m, u)
  <1>1. /\ TypeOK /\ m \in Majors /\ global_start \in Ticks /\ minor[c] \in Nat
        /\ Length(m, c) \in Nat /\ ~(minor[c] >= Length(m, c))
    <2>1. TypeOK /\ m \in Majors /\ global_start \in Ticks /\ minor[c] \in Nat
      BY DEF Coordinated, TypeOK
    <2>2. Length(m, c) \in Nat
      BY <2>1, PlanFacts
    <2> QED
      BY <2>1, <2>2
  <1>2. /\ pc[c] = "guest" /\ pc' = [pc EXCEPT ![c] = "read"] /\ pc'[c] = "read"
        /\ Others(c)
        /\ wait' = [wait EXCEPT ![c] = WaitCall(w, "publish")]
        /\ wait'[c] = WaitCall(w, "publish")
        /\ cur' = [cur EXCEPT ![c] = [major |-> m, start |-> global_start]]
        /\ cur'[c] = [major |-> m, start |-> global_start]
    BY <1>1 DEF Update_Scheduling_Info, Goto, Others, TypeOK
  <1>3. UNCHANGED <<barriers, global_major, global_start, minor, info, timer>>
    BY DEF Update_Scheduling_Info, globals
  <1>4. wait'[c].on = w /\ wait'[c].ret = "publish" /\ cur'[c].major = m
    BY <1>2 DEF WaitCall
  <1>5. w \in Barrier_Range /\ w # All
    BY <1>1, BarrierIDs
  <1>6. TypeOK'
    <2>1. WaitCall(w, "publish") \in
            [on : Barrier_Range \cup {All}, size : Byte, sense : BOOLEAN,
             ret : {"init", "entry", "major", "again", "publish"}]
      BY <1>5 DEF WaitCall, Byte, ByteSize
    <2>2. [major |-> global_major, start |-> global_start] \in [major : Majors, start : Ticks]
      BY <1>1
    <2>3. cur' \in [CPUs -> [major : Majors, start : Ticks]]
      BY <1>1, <1>2, <2>2 DEF TypeOK
    <2> QED
      BY <1>1, <1>2, <1>3, <2>1, <2>3 DEF TypeOK
  <1>7. \A d \in CPUs \ {c} : cur'[d] = cur[d]
    BY <1>1, <1>2 DEF TypeOK
  <1>8. Configured' = Configured
    BY <1>2, <1>3, <1>7, ConfiguredKept
  <1>9. Stage(c) = "frame"
    BY <1>2 DEF Stage, StageAt, Waiting
  <1>10. Stage(c)' = "frame"
    BY <1>2, <1>4, <1>5 DEF Stage, StageAt, Waiting
  <1>11. OnWay(c) /\ FrameValid(c) /\ ~Updating(c)
    BY <1>2 DEF Coordinated, OwnWay, FramesValid, Updating, Waiting
  <1>12. minor[c] \in 1 .. Length(m, c)
    BY <1>11 DEF FrameValid
  <1>13. \A b \in Barrier_Range \cup {All} : BarrierSound(b)'
    <2>1. Members(w) = MembersOf(m, w) /\ barriers[w].Size = Cardinality(Members(w))
      BY <1>5, <1>9, InFrame
    <2>2. c \in Users(m, u)
      BY <1>12 DEF Users
    <2>3. c \in Members(w)
      BY <1>1, <2>1, <2>2, MembersAreUsers
    <2>4. pc[c] \notin Waiting
      BY <1>2 DEF Waiting
    <2> HIDE DEF w
    <2> QED
      BY <1>2, <1>3, <1>4, <1>8, <2>1, <2>3, <2>4, BarriersEntered
  <1>14. OnWay(c)'
    BY <1>2, <1>4, <1>11 DEF OnWay, Waiting
  <1>15. Updating(c)' /\ Midframe(c)' /\ ~On(c, All)'
    BY <1>2, <1>4, <1>5 DEF Updating, Midframe, Waiting, On
  <1>16. FrameValid(c)'
    BY <1>2, <1>3, <1>4, <1>12, <1>15 DEF FrameValid, Waiting
  <1>17. ASSUME NEW t \in SyncPoints(global_major), c \in Users(global_major, t)
         PROVE  Passed(c, t)' <=> Passed(c, t)
    <2>1. Passed(c, t) <=> u > t
      BY <1>2, <1>9, <1>11 DEF Passed, On, Midframe, Waiting
    <2>2. ~Released(c)' /\ pc'[c] # "publish"
      BY <1>2 DEF Released
    <2> HIDE DEF Released
    <2>3. Passed(c, t)' <=> u > t
      BY <1>2, <1>3, <1>4, <1>10, <1>15, <2>2 DEF Passed
    <2> QED
      BY <2>1, <2>3
  <1>18. /\ pc'[BSP] # "boot" => pc[BSP] # "boot"
         /\ wait'[BSP].ret = "init" <=> wait[BSP].ret = "init"
    <2>1. wait[c].ret # "init"
      BY <1>2, <1>11 DEF OnWay
    <2> QED
      BY <1>2, <1>4, <2>1, BSPKept
  <1> HIDE DEF m, u, w
  <1> QED
    BY <1>2, <1>3, <1>6, <1>7, <1>8, <1>9, <1>10, <1>13, <1>14, <1>16, <1>17, <1>18, LocalStep

\* Update_Scheduling_Info at a deadline the CPU shares with nobody.
LEMMA UpdateAlone ==
  ASSUME Coordinated, NEW c \in CPUs, Update_Scheduling_Info(c),
         minor[c] < Length(global_major, c),
         Deadline(global_major, c, minor[c]) \notin SyncPoints(global_major)
  PROVE  Coordinated'
  <1> DEFINE m == global_major
  <1> DEFINE u == Deadline(m, c, minor[c])
  <1>1. /\ TypeOK /\ m \in Majors /\ global_start \in Ticks /\ minor[c] \in Nat
        /\ Length(m, c) \in Nat /\ ~(minor[c] >= Length(m, c))
    <2>1. TypeOK /\ m \in Majors /\ global_start \in Ticks /\ minor[c] \in Nat
      BY DEF Coordinated, TypeOK
    <2>2. Length(m, c) \in Nat
      BY <2>1, PlanFacts
    <2> QED
      BY <2>1, <2>2
  <1>2. /\ pc[c] = "guest" /\ pc' = [pc EXCEPT ![c] = "publish"] /\ pc'[c] = "publish"
        /\ wait' = [wait EXCEPT ![c] = wait[c]]
        /\ cur' = [cur EXCEPT ![c] = [major |-> m, start |-> global_start]]
        /\ cur'[c] = [major |-> m, start |-> global_start]
    BY <1>1 DEF Update_Scheduling_Info, Goto, TypeOK
  <1>3. UNCHANGED <<barriers, global_major, global_start, minor, info, timer>>
    BY DEF Update_Scheduling_Info, globals
  <1>4. wait' = wait /\ Others(c) /\ cur'[c].major = m
    BY <1>1, <1>2 DEF TypeOK, Others
  <1>5. TypeOK'
    <2>1. [major |-> global_major, start |-> global_start] \in [major : Majors, start : Ticks]
      BY <1>1
    <2>2. cur' \in [CPUs -> [major : Majors, start : Ticks]]
      BY <1>1, <1>2, <2>1 DEF TypeOK
    <2> QED
      BY <1>1, <1>2, <1>3, <1>4, <2>2 DEF TypeOK
  <1>6. \A d \in CPUs \ {c} : cur'[d] = cur[d]
    BY <1>1, <1>2 DEF TypeOK
  <1>7. Configured' = Configured
    BY <1>2, <1>3, <1>4, <1>6, ConfiguredKept
  <1>8. Stage(c) = "frame" /\ Stage(c)' = "frame"
    BY <1>2 DEF Stage, StageAt, Waiting
  <1>9. OnWay(c) /\ FrameValid(c) /\ ~Updating(c)
    BY <1>2 DEF Coordinated, OwnWay, FramesValid, Updating, Waiting
  <1>10. minor[c] \in 1 .. Length(m, c)
    BY <1>9 DEF FrameValid
  <1>11. \A b \in Barrier_Range \cup {All} : BarrierSound(b)'
    BY <1>2, <1>3, <1>4, <1>7, BarriersQuiet DEF Waiting
  <1>12. OnWay(c)'
    BY <1>2, <1>4, <1>9 DEF OnWay, Waiting
  <1>13. Updating(c)' /\ Midframe(c)' /\ ~On(c, All)'
    BY <1>2 DEF Updating, Midframe, Waiting, On
  <1>14. FrameValid(c)'
    BY <1>2, <1>3, <1>4, <1>10, <1>13 DEF FrameValid, Waiting
  <1>15. ASSUME NEW t \in SyncPoints(global_major), c \in Users(global_major, t)
         PROVE  Passed(c, t)' <=> Passed(c, t)
    <2>1. Passed(c, t) <=> u > t
      BY <1>2, <1>8, <1>9 DEF Passed, On, Midframe, Waiting
    <2>2. Passed(c, t)' <=> u > t \/ u = t
      BY <1>2, <1>3, <1>4, <1>8, <1>13 DEF Passed
    <2>3. u # t
      BY <1>15
    <2> QED
      BY <2>1, <2>2, <2>3
  <1>16. pc'[BSP] # "boot" => pc[BSP] # "boot"
    BY <1>2, <1>4, BSPKept
  <1> HIDE DEF m, u
  <1> QED
    BY <1>2, <1>3, <1>4, <1>5, <1>6, <1>7, <1>8, <1>11, <1>12, <1>14, <1>15, <1>16, LocalStep

\* Update_Scheduling_Info up to its barrier.
LEMMA UpdateInv ==
  ASSUME Coordinated, NEW c \in CPUs, Update_Scheduling_Info(c)
  PROVE  Coordinated'
  <1>1. minor[c] \in Nat /\ Length(global_major, c) \in Nat
    BY Types, PlanFacts DEF Coordinated
  <1>2. minor[c] >= Length(global_major, c) \/ minor[c] < Length(global_major, c)
    BY <1>1
  <1> QED
    BY <1>2, UpdateLast, UpdateSynced, UpdateAlone

-----------------------------------------------------------------------------
(* The steps that change what all CPUs share *)

\* Outside a major frame every AP is at, or on its way to, the all-CPU barrier.
LEMMA APsAtAll ==
  ASSUME Coordinated, NEW c \in CPUs, Stage(c) # "frame", NEW d \in CPUs, d # BSP
  PROVE  wait[d].on = All
  <1>1. /\ pc[d] \notin {"entry", "guest", "publish"}
        /\ pc[d] \in Waiting => wait[d].on = All
    BY OutOfFrame
  <1>2. pc[d] \in PCs /\ OnWay(d)
    BY Types DEF Coordinated, OwnWay
  <1>3. pc[d] \in {"boot", "off", "init", "again"} \cup Waiting
    BY <1>1, <1>2 DEF OnWay, PCs, Waiting
  <1> QED
    BY <1>1, <1>2, <1>3 DEF OnWay

\* The BSP gives the minor frame barriers the sizes of the major frame, while no CPU
\* is in a frame, and goes to the all-CPU barrier.
LEMMA Reconfigured ==
  ASSUME Coordinated, TypeOK', Stage(BSP) \in {"init", "change"}, pc[BSP] \notin Waiting,
         Others(BSP), pc'[BSP] = "read", wait'[BSP].on = All,
         Toward(wait'[BSP].ret) = Stage(BSP), wait'[BSP].ret # "init",
         OnWay(BSP)', FrameValid(BSP)',
         global_major' = global_major, cur' = cur, minor' = minor,
         barriers'[All] = barriers[All],
         \A b \in Barrier_Range : /\ barriers'[b].Wait_Count = 0
                                  /\ barriers'[b].Size = Cardinality(MembersOf(global_major, b))
  PROVE  Coordinated'
  <1> DEFINE s == Stage(BSP)
  <1>1. BSP \in CPUs /\ TypeOK
    BY PlanAssumption DEF Coordinated
  <1>2. \A d \in CPUs : /\ Stage(d) = s
                        /\ pc[d] \notin {"entry", "guest", "publish"}
                        /\ pc[d] \in Waiting => wait[d].on = All
    BY <1>1, OutOfFrame
  <1>3. Stage(BSP)' = s
    BY DEF Stage, StageAt, Waiting
  <1> HIDE DEF s
  <1>4. ASSUME NEW d \in CPUs, d # BSP
        PROVE  /\ Stage(d)' = s /\ OnWay(d)' /\ FrameValid(d)'
               /\ pc'[d] = pc[d] /\ wait'[d] = wait[d]
    <2>1. wait[d].on = All
      BY <1>1, <1>4, APsAtAll
    <2>2. OnWay(d) /\ FrameValid(d) /\ pc'[d] = pc[d] /\ wait'[d] = wait[d]
      BY <1>4 DEF Coordinated, OwnWay, FramesValid, Others
    <2> QED
      BY <1>2, <2>1, <2>2, ViewKept
  <1>5. \A d \in CPUs : Stage(d)' = s
    BY <1>3, <1>4
  <1>6. SameStage' /\ OwnWay' /\ FramesValid'
    BY <1>4, <1>5 DEF SameStage, OwnWay, FramesValid
  <1>7. PassedTogether'
    BY <1>5, PassedOutOfFrame DEF s
  <1>8. FrameStable'
    <2>1. \A d \in CPUs : pc'[d] # "guest"
      BY <1>2, <1>4
    <2> QED
      BY <2>1 DEF FrameStable
  <1>9. BarrierSound(All)'
    <2>1. BarrierSound(All) /\ barriers[All].Size = Cardinality(Members(All)) /\ BSP \in Members(All)
      BY <1>1, AllReady DEF Coordinated, BarriersSound
    <2>2. Members(All)' = Members(All)
      BY DEF Members
    <2> QED
      BY <1>1, <1>4, <2>1, <2>2, BarrierEntered
  <1>10. ASSUME NEW b \in Barrier_Range
         PROVE  BarrierSound(b)'
    <2>1. \A d \in CPUs : ~On(d, b)'
      BY <1>2, <1>4, AllApart DEF On
    <2> QED
      BY <2>1, BarrierEmpty
  <1>11. barriers'[All].Size = Cardinality(CPUs)
    BY <1>1, AllReady DEF Coordinated, BarriersSound
  <1>12. ASSUME NEW b \in Barrier_Range
         PROVE  barriers'[b].Size = Cardinality(Members(b)')
    <2>1. Configured' = global_major
      BY DEF Configured
    <2>2. Members(b)' = MembersOf(global_major, b)
      BY <2>1, AllApart DEF Members, MembersOf
    <2> QED
      BY <2>2
  <1>13. BarriersSound'
    BY <1>9, <1>10, <1>11, <1>12 DEF BarriersSound
  <1> QED
    BY <1>6, <1>7, <1>8, <1>13 DEF Coordinated

\* The BSP writes the global ID or start of the major frame, and keeps to itself.
LEMMA Rewritten ==
  ASSUME Coordinated, TypeOK', pc[BSP] \in {"major", "start"}, pc'[BSP] \in {"start", "config"},
         Others(BSP), pc[BSP] = "major" \/ global_major' = global_major,
         wait' = wait, barriers' = barriers, cur' = cur, minor' = minor
  PROVE  Coordinated'
  <1>1. BSP \in CPUs /\ TypeOK /\ OnWay(BSP) /\ FrameValid(BSP)
    BY PlanAssumption DEF Coordinated, OwnWay, FramesValid
  <1>2. Stage(BSP) = "change" /\ Stage(BSP)' = "change"
    BY DEF Stage, StageAt, Waiting
  <1>3. \A d \in CPUs : /\ Stage(d) = "change"
                        /\ pc[d] \notin {"entry", "guest", "publish"}
                        /\ pc[d] \in Waiting => wait[d].on = All
    BY <1>1, <1>2, OutOfFrame
  <1>4. \A d \in CPUs : Updating(d) /\ minor[d] = Length(cur[d].major, d)
    BY <1>1, <1>2, AtChange
  <1>5. ASSUME NEW d \in CPUs, d # BSP
        PROVE  /\ Stage(d)' = "change" /\ OnWay(d)' /\ FrameValid(d)'
               /\ pc'[d] = pc[d]
    <2>1. pc'[d] = pc[d] /\ OnWay(d) /\ FrameValid(d)
      BY <1>5 DEF Others, Coordinated, OwnWay, FramesValid
    <2>2. Stage(d)' = "change"
      BY <1>3, <2>1 DEF Stage
    <2>3. OnWay(d)'
      BY <2>1 DEF OnWay
    <2>4. FrameValid(d)'
      <3>1. Updating(d)' /\ Updating(d)
        BY <1>4, <2>1 DEF Updating
      <3>2. pc[d] \notin {"boot", "off", "init"}
        BY <3>1 DEF Updating, Waiting
      <3>3. pc[d] # "major" /\ ~(pc[d] \in Waiting /\ wait[d].ret = "major")
        BY <1>5, <2>1 DEF OnWay
      <3>4. minor[d] \in 1 .. Length(cur[d].major, d) /\ minor[d] = Length(cur[d].major, d)
        BY <1>4, <2>1, <3>1 DEF FrameValid
      <3>5. ~(minor[d] < Length(cur[d].major, d))
        BY <3>4
      <3> QED
        BY <1>3, <2>1, <3>1, <3>2, <3>3, <3>4, <3>5 DEF FrameValid
    <2> QED
      BY <2>1, <2>2, <2>3, <2>4
  <1>6. OnWay(BSP)'
    BY <1>1 DEF OnWay, Waiting
  <1>7. FrameValid(BSP)'
    <2>1. Updating(BSP)' /\ Updating(BSP)
      BY <1>1, <1>4 DEF Updating
    <2>2. /\ minor[BSP] \in 1 .. Length(cur[BSP].major, BSP)
          /\ minor[BSP] = Length(cur[BSP].major, BSP)
      BY <1>1, <1>4, <2>1 DEF FrameValid
    <2>3. ~(minor[BSP] < Length(cur[BSP].major, BSP))
      BY <2>2
    <2> QED
      BY <2>1, <2>2, <2>3 DEF FrameValid, Waiting
  <1>8. \A d \in CPUs : Stage(d)' = "change"
    BY <1>2, <1>5
  <1>9. wait'[BSP].ret # "init"
    BY <1>1 DEF OnWay
  <1>10. SameStage' /\ OwnWay' /\ FramesValid'
    BY <1>5, <1>6, <1>7, <1>8, <1>9 DEF SameStage, OwnWay, FramesValid
  <1>11. PassedTogether'
    BY <1>8, PassedOutOfFrame
  <1>12. FrameStable'
    <2>1. \A d \in CPUs : pc'[d] # "guest"
      BY <1>3, <1>5
    <2> QED
      BY <2>1 DEF FrameStable
  <1>13. Configured' = Configured
    <2>1. Configured' = cur[BSP].major
      BY DEF Configured
    <2>2. pc[BSP] = "major" => cur[BSP].major = global_major
      BY <1>1 DEF FrameValid
    <2> QED
      BY <2>1, <2>2 DEF Configured
  <1>14. \A b \in Barrier_Range \cup {All} : BarrierSound(b)'
    BY <1>1, <1>13, BarriersQuiet DEF Waiting
  <1>15. BarriersSound'
    <2>1. \A b \in Barrier_Range : Members(b)' = Members(b)
      BY <1>13, MembersKept
    <2> QED
      BY <1>14, <2>1 DEF Coordinated, BarriersSound
  <1> QED
    BY <1>10, <1>11, <1>12, <1>15 DEF Coordinated

\* The BSP writes the ID of the major frame.
LEMMA SetMajorIDInv ==
  ASSUME Coordinated, NEW c \in CPUs, Set_Major_ID(c)
  PROVE  Coordinated'
  <1>1. TypeOK /\ c = BSP
    BY DEF Coordinated, OwnWay, OnWay, Set_Major_ID, Goto
  <1>2. /\ pc[BSP] = "major" /\ pc' = [pc EXCEPT ![BSP] = "start"] /\ pc'[BSP] = "start"
        /\ Others(BSP) /\ global_major' \in Majors
    BY <1>1 DEF Set_Major_ID, Goto, Others, TypeOK
  <1>3. UNCHANGED <<barriers, global_start, minor, cur, wait, info, timer>>
    BY DEF Set_Major_ID
  <1>4. TypeOK'
    BY <1>1, <1>2, <1>3 DEF TypeOK
  <1> QED
    BY <1>2, <1>3, <1>4, Rewritten

\* The BSP writes the start of the major frame.
LEMMA SetMajorStartInv ==
  ASSUME Coordinated, NEW c \in CPUs, Set_Major_Start(c)
  PROVE  Coordinated'
  <1>1. TypeOK /\ c = BSP
    BY DEF Coordinated, OwnWay, OnWay, Set_Major_Start, Goto
  <1>2. /\ pc[BSP] = "start" /\ pc' = [pc EXCEPT ![BSP] = "config"] /\ pc'[BSP] = "config"
        /\ Others(BSP)
        /\ global_start' = (global_start + Period(cur[BSP].major)) % WordSize
    BY <1>1 DEF Set_Major_Start, Goto, Others, TypeOK
  <1>3. UNCHANGED <<barriers, global_major, minor, cur, wait, info, timer>>
    BY DEF Set_Major_Start
  <1>4. global_start' \in Ticks
    <2>1. global_start \in Nat /\ Period(cur[BSP].major) \in Nat
      BY <1>1, Types, PlanFacts DEF Ticks
    <2> QED
      BY <1>2, <2>1, TicksType
  <1>5. TypeOK'
    BY <1>1, <1>2, <1>3, <1>4 DEF TypeOK
  <1> QED
    BY <1>2, <1>3, <1>5, Rewritten

\* Initialize gives each minor frame barrier the number of its members.
LEMMA ConfigSet ==
  ASSUME TypeOK, NEW m \in Majors, Set_Minor_Frame_Barrier_Config(m)
  PROVE  /\ barriers' \in [Barrier_Range \cup {All} -> Sense_Barrier_Type]
         /\ barriers'[All] = barriers[All]
         /\ \A b \in Barrier_Range : /\ barriers'[b].Wait_Count = 0
                                     /\ barriers'[b].Size = Cardinality(MembersOf(m, b))
  <1>1. DOMAIN barriers = Barrier_Range \cup {All} /\ barriers[All] \in Sense_Barrier_Type
    BY DEF TypeOK
  <1>2. barriers' = [b \in Barrier_Range \cup {All} |->
                       IF b = All THEN barriers[All] ELSE Initialize(Barrier_Config(m)[b])]
    BY <1>1 DEF Set_Minor_Frame_Barrier_Config
  <1>3. ASSUME NEW b \in Barrier_Range
        PROVE  /\ barriers'[b] \in Sense_Barrier_Type
               /\ barriers'[b].Wait_Count = 0
               /\ barriers'[b].Size = Cardinality(MembersOf(m, b))
    <2>1. barriers'[b] = Initialize(Barrier_Config(m)[b])
      BY <1>2, AllApart
    <2>2. /\ Barrier_Config(m)[b] = Cardinality(MembersOf(m, b))
          /\ Cardinality(MembersOf(m, b)) \in Byte
      BY ConfigIsMembers
    <2> QED
      BY <2>1, <2>2 DEF Initialize, Sense_Barrier_Type, Byte, ByteSize
  <1>4. barriers'[All] = barriers[All]
    BY <1>2
  <1>5. barriers' \in [Barrier_Range \cup {All} -> Sense_Barrier_Type]
    BY <1>1, <1>2, <1>3, <1>4
  <1> QED
    BY <1>3, <1>4, <1>5

\* The BSP sets up the minor frame barriers.
LEMMA SetBarrierConfigInv ==
  ASSUME Coordinated, NEW c \in CPUs, Set_Barrier_Config(c)
  PROVE  Coordinated'
  <1>1. TypeOK /\ c = BSP /\ BSP \in CPUs /\ global_major \in Majors
    BY DEF Coordinated, OwnWay, OnWay, Set_Barrier_Config, Goto, TypeOK
  <1>2. /\ pc[BSP] = "config" /\ pc' = [pc EXCEPT ![BSP] = "read"] /\ pc'[BSP] = "read"
        /\ Others(BSP)
        /\ wait' = [wait EXCEPT ![BSP] = WaitCall(All, "publish")]
        /\ wait'[BSP] = WaitCall(All, "publish")
    BY <1>1 DEF Set_Barrier_Config, Goto, Others, TypeOK
  <1>3. UNCHANGED <<global_major, global_start, minor, cur, info, timer>>
    BY DEF Set_Barrier_Config, globals
  <1>4. wait'[BSP].on = All /\ wait'[BSP].ret = "publish"
    BY <1>2 DEF WaitCall
  <1>5. Stage(BSP) = "change"
    BY <1>2 DEF Stage, StageAt, Waiting
  <1>6. /\ barriers' \in [Barrier_Range \cup {All} -> Sense_Barrier_Type]
        /\ barriers'[All] = barriers[All]
        /\ \A b \in Barrier_Range : /\ barriers'[b].Wait_Count = 0
                                    /\ barriers'[b].Size = Cardinality(MembersOf(global_major, b))
    <2>1. CASE global_major # cur[BSP].major
      <3>1. Set_Minor_Frame_Barrier_Config(global_major)
        BY <1>1, <2>1 DEF Set_Barrier_Config
      <3> QED
        BY <1>1, <3>1, ConfigSet
    <2>2. CASE global_major = cur[BSP].major
      <3>1. barriers' = barriers
        BY <1>1, <2>2 DEF Set_Barrier_Config
      <3>2. \A b \in Barrier_Range : barriers[b].Wait_Count = 0
        BY <1>2, Alone DEF ReconfigurationAlone
      <3>3. Configured = global_major
        BY <1>2, <2>2 DEF Configured
      <3>4. wait[BSP].ret # "init"
        BY <1>1, <1>2 DEF Coordinated, OwnWay, OnWay
      <3>5. \A b \in Barrier_Range : barriers[b].Size = Cardinality(MembersOf(global_major, b))
        BY <3>3, <3>4, AllApart DEF Coordinated, BarriersSound, Members
      <3> QED
        BY <1>1, <3>1, <3>2, <3>5 DEF TypeOK
    <2> QED
      BY <2>1, <2>2
  <1>7. TypeOK'
    <2>1. WaitCall(All, "publish") \in
            [on : Barrier_Range \cup {All}, size : Byte, sense : BOOLEAN,
             ret : {"init", "entry", "major", "again", "publish"}]
      BY DEF WaitCall, Byte, ByteSize
    <2> QED
      BY <1>1, <1>2, <1>3, <1>6, <2>1 DEF TypeOK
  <1>8. OnWay(BSP) /\ FrameValid(BSP) /\ Updating(BSP) /\ ~Midframe(BSP)
    BY <1>1, <1>2 DEF Coordinated, OwnWay, FramesValid, Updating, Midframe, Waiting
  <1>9. OnWay(BSP)'
    BY <1>2, <1>4, <1>8 DEF OnWay, Waiting
  <1>10. FrameValid(BSP)'
    <2>1. Updating(BSP)'
      BY <1>2, <1>4 DEF Updating, Waiting
    <2> QED
      BY <1>2, <1>3, <1>4, <1>8, <2>1 DEF FrameValid, Waiting
  <1>11. Toward(wait'[BSP].ret) = Stage(BSP)
    BY <1>4, <1>5 DEF Toward
  <1>12. pc[BSP] \notin Waiting
    BY <1>2 DEF Waiting
  <1> QED
    BY <1>2, <1>3, <1>4, <1>5, <1>6, <1>7, <1>9, <1>10, <1>11, <1>12, Reconfigured

\* Scheduler.Init on the BSP: the barriers of the first major frame, before anybody
\* can use them.
LEMMA SchedulerInitInv ==
  ASSUME Coordinated, NEW c \in CPUs, Scheduler_Init(c)
  PROVE  Coordinated'
  <1>1. TypeOK /\ FirstMajor \in Majors /\ global_major \in Majors
    BY PlanAssumption DEF Coordinated, TypeOK
  <1>2. /\ pc[c] = "init" /\ pc' = [pc EXCEPT ![c] = "read"] /\ pc'[c] = "read"
        /\ Others(c)
        /\ wait' = [wait EXCEPT ![c] = WaitCall(All, "entry")]
        /\ wait'[c] = WaitCall(All, "entry")
        /\ UNCHANGED <<global_major, minor, cur, timer>>
    BY <1>1 DEF Scheduler_Init, Goto, Others, TypeOK
  <1>3. PICK now \in 0 .. BootSkew :
          /\ info' = [info EXCEPT ![c] =
                        [start |-> now,
                         end |-> (now + Deadline(FirstMajor, c, 1)) % WordSize]]
          /\ IF c = BSP
               THEN /\ Set_Minor_Frame_Barrier_Config(FirstMajor)
                    /\ global_start' = now
               ELSE UNCHANGED <<barriers, global_start>>
    BY DEF Scheduler_Init
  <1>4. wait'[c].on = All /\ wait'[c].ret = "entry"
    BY <1>2 DEF WaitCall
  <1>5. Stage(c) = "init"
    BY <1>2 DEF Stage, StageAt, Waiting
  <1>6. Stage(c)' = "init"
    BY <1>2, <1>4 DEF Stage, StageAt, Waiting, Toward
  <1>7. OnWay(c) /\ FrameValid(c) /\ ~Updating(c) /\ ~Updating(c)'
    BY <1>2, <1>4 DEF Coordinated, OwnWay, FramesValid, Updating, Waiting
  <1>8. OnWay(c)'
    BY <1>2, <1>4, <1>7 DEF OnWay, Waiting
  <1>9. FrameValid(c)'
    BY <1>2, <1>4, <1>7 DEF FrameValid, Waiting
  <1>10. now \in Ticks /\ info' \in [CPUs -> [start : Ticks, end : Ticks]]
    <2>1. now \in Nat /\ now \in Ticks
      BY PlanAssumption DEF Ticks
    <2>2. Length(FirstMajor, c) \in Nat /\ 1 \in 1 .. Length(FirstMajor, c)
      BY <1>1, PlanFacts
    <2>3. Deadline(FirstMajor, c, 1) \in Nat
      BY <1>1, <2>2, DeadlineOrder
    <2>4. (now + Deadline(FirstMajor, c, 1)) % WordSize \in Ticks
      BY <2>1, <2>3, TicksType
    <2> QED
      BY <1>1, <1>3, <2>1, <2>4 DEF TypeOK
  <1>11. wait' \in [CPUs -> [on : Barrier_Range \cup {All}, size : Byte, sense : BOOLEAN,
                             ret : {"init", "entry", "major", "again", "publish"}]]
    <2>1. WaitCall(All, "entry") \in
            [on : Barrier_Range \cup {All}, size : Byte, sense : BOOLEAN,
             ret : {"init", "entry", "major", "again", "publish"}]
      BY DEF WaitCall, Byte, ByteSize
    <2> QED
      BY <1>1, <1>2, <2>1 DEF TypeOK
  <1>12. CASE c = BSP
    <2>1. global_major = FirstMajor
      BY <1>2, <1>7, <1>12 DEF Coordinated, FramesValid, OnWay
    <2>2. /\ barriers' \in [Barrier_Range \cup {All} -> Sense_Barrier_Type]
          /\ barriers'[All] = barriers[All]
          /\ \A b \in Barrier_Range :
               /\ barriers'[b].Wait_Count = 0
               /\ barriers'[b].Size = Cardinality(MembersOf(global_major, b))
      BY <1>1, <1>3, <1>12, <2>1, ConfigSet
    <2>3. TypeOK'
      BY <1>1, <1>2, <1>3, <1>10, <1>11, <1>12, <2>2 DEF TypeOK
    <2>4. Toward(wait'[BSP].ret) = Stage(BSP)
      BY <1>4, <1>5, <1>12 DEF Toward
    <2>5. pc[BSP] \notin Waiting
      BY <1>2, <1>12 DEF Waiting
    <2> QED
      BY <1>2, <1>4, <1>5, <1>8, <1>9, <1>12, <2>2, <2>3, <2>4, <2>5, Reconfigured
  <1>13. CASE c # BSP
    <2>1. UNCHANGED <<barriers, global_start>>
      BY <1>3, <1>13
    <2>2. TypeOK'
      BY <1>1, <1>2, <1>10, <1>11, <2>1 DEF TypeOK
    <2>3. Configured' = Configured
      BY <1>2, ConfiguredKept
    <2>4. \A b \in Barrier_Range \cup {All} : BarrierSound(b)'
      <3>1. c \in Members(All) /\ barriers[All].Size = Cardinality(Members(All))
        BY <1>5, AllReady
      <3>2. pc[c] \notin Waiting
        BY <1>2 DEF Waiting
      <3> QED
        BY <1>2, <1>4, <2>1, <2>3, <3>1, <3>2, BarriersEntered
    <2>5. \A t : Passed(c, t)' <=> Passed(c, t)
      BY <1>5, <1>6 DEF Passed
    <2>6. pc'[BSP] = pc[BSP] /\ wait'[BSP] = wait[BSP]
      BY <1>2, <1>13, PlanAssumption DEF Others
    <2> QED
      BY <1>2, <1>5, <1>6, <1>8, <1>9, <2>1, <2>2, <2>3, <2>4, <2>5, <2>6, LocalStep
  <1> QED
    BY <1>12, <1>13

\* What the flip of barrier w does, whichever barrier it is.
LEMMA FlipEffect ==
  ASSUME Coordinated, NEW c \in CPUs, Flip(c), NEW w, w = wait[c].on
  PROVE  /\ TypeOK' /\ Others(c) /\ Configured' = Configured
         /\ pc[c] = "flip" /\ pc'[c] = wait[c].ret /\ pc'[c] \notin Waiting
         /\ w \in Barrier_Range \cup {All} /\ wait[c].ret \in Rets
         /\ UNCHANGED <<wait, global_major, global_start, minor, cur, info, timer>>
         /\ \A b \in Barrier_Range \cup {All} :
              /\ BarrierSound(b)'
              /\ barriers'[b].Size = barriers[b].Size
              /\ b # w => barriers'[b].Sense = barriers[b].Sense
         /\ \A d \in Members(w) \ {c} : On(d, w) /\ ~Released(d) /\ Released(d)'
         /\ \A d \in CPUs \ {c} : On(d, w) => d \in Members(w)
         /\ c \in Members(w)
         /\ pc'[BSP] # "boot" => pc[BSP] # "boot"
  <1>1. /\ TypeOK /\ w \in Barrier_Range \cup {All} /\ wait[c].ret \in Rets
        /\ \A d \in CPUs : wait[d].sense \in BOOLEAN
        /\ \A b \in Barrier_Range \cup {All} : barriers[b] \in Sense_Barrier_Type
    BY Types DEF Coordinated
  <1>2. /\ pc[c] = "flip" /\ pc'[c] = wait[c].ret /\ Others(c)
        /\ pc' = [pc EXCEPT ![c] = wait[c].ret]
        /\ barriers' = [barriers EXCEPT ![w] = SenseSet(barriers[w], wait[c].sense)]
    BY <1>1 DEF Flip, Goto, Others, TypeOK
  <1>3. UNCHANGED <<wait, global_major, global_start, minor, cur, info, timer>>
    BY DEF Flip, globals
  <1>4. /\ barriers'[w] = SenseSet(barriers[w], wait[c].sense)
        /\ \A b \in Barrier_Range \cup {All} : b # w => barriers'[b] = barriers[b]
    BY <1>1, <1>2 DEF TypeOK
  <1>5. pc'[c] \notin Waiting
    BY <1>1, <1>2 DEF Rets, Waiting
  <1>6. Configured' = Configured
    BY <1>1, <1>2, <1>3, ConfiguredKept DEF Rets
  <1>7. \A b \in Barrier_Range \cup {All} : BarrierSound(b) /\ Members(b)' = Members(b)
    BY <1>6, MembersKept DEF Coordinated, BarriersSound
  <1>8. /\ BarrierSound(w)' /\ barriers'[w] \in Sense_Barrier_Type
        /\ barriers'[w].Size = barriers[w].Size
        /\ \A d \in Members(w) \ {c} : On(d, w) /\ ~Released(d) /\ Released(d)'
        /\ \A d \in CPUs \ {c} : On(d, w) => d \in Members(w)
        /\ c \in Members(w)
    BY <1>1, <1>2, <1>3, <1>4, <1>5, <1>7, FlipBarrier
  <1>9. ASSUME NEW b \in Barrier_Range \cup {All}, b # w
        PROVE  BarrierSound(b)' /\ barriers'[b] = barriers[b]
    BY <1>2, <1>3, <1>4, <1>5, <1>7, <1>9, OtherBarriers
  <1>10. TypeOK'
    <2>1. barriers' \in [Barrier_Range \cup {All} -> Sense_Barrier_Type]
      BY <1>1, <1>2, <1>8 DEF TypeOK
    <2> QED
      BY <1>1, <1>2, <1>3, <2>1 DEF TypeOK, Rets
  <1>11. pc'[BSP] # "boot" => pc[BSP] # "boot"
    BY <1>2, <1>3, BSPKept
  <1> QED
    BY <1>1, <1>2, <1>3, <1>5, <1>6, <1>8, <1>9, <1>10, <1>11

\* The parts of the invariant that the flip of any barrier preserves in the same way.
LEMMA FlipCommon ==
  ASSUME Coordinated, NEW c \in CPUs, Flip(c)
  PROVE  TypeOK' /\ BarriersSound' /\ OwnWay' /\ FramesValid' /\ FrameStable'
  <1>1. PICK w : w = wait[c].on
    OBVIOUS
  <1>2. /\ TypeOK' /\ Others(c) /\ Configured' = Configured
        /\ pc[c] = "flip" /\ pc'[c] = wait[c].ret /\ wait[c].ret \in Rets
        /\ UNCHANGED <<wait, global_major, global_start, minor, cur, info, timer>>
        /\ \A b \in Barrier_Range \cup {All} : /\ BarrierSound(b)'
                                               /\ barriers'[b].Size = barriers[b].Size
        /\ pc'[BSP] # "boot" => pc[BSP] # "boot"
    BY <1>1, FlipEffect
  <1>3. OnWay(c)' /\ FrameValid(c)'
    BY <1>2, Leaving
  <1>4. ASSUME NEW d \in CPUs, d # c
        PROVE  OnWay(d)' /\ FrameValid(d)'
    <2>1. pc'[d] = pc[d] /\ wait'[d] = wait[d] /\ OnWay(d) /\ FrameValid(d)
      BY <1>2, <1>4 DEF Others, Coordinated, OwnWay, FramesValid
    <2>2. (Updating(d)' <=> Updating(d)) /\ (Midframe(d)' <=> Midframe(d))
      BY <2>1 DEF Updating, Midframe
    <2> QED
      BY <1>2, <2>1, <2>2 DEF OnWay, FrameValid
  <1>5. OwnWay' /\ FramesValid'
    BY <1>2, <1>3, <1>4 DEF OwnWay, FramesValid, Coordinated
  <1>6. BarriersSound'
    <2>1. \A b \in Barrier_Range : Members(b)' = Members(b)
      BY <1>2, MembersKept
    <2> QED
      BY <1>2, <2>1 DEF Coordinated, BarriersSound
  <1>7. FrameStable'
    <2>1. \A d \in CPUs : pc'[d] = "guest" => pc[d] = "guest"
      BY <1>2 DEF Others, Rets
    <2> QED
      BY <1>2, <2>1 DEF Coordinated, FrameStable
  <1> QED
    BY <1>2, <1>5, <1>6, <1>7

\* The flip of a minor frame barrier: exactly the users of its deadline pass it.
LEMMA FlipMinor ==
  ASSUME Coordinated, NEW c \in CPUs, Flip(c), wait[c].on # All
  PROVE  SameStage' /\ PassedTogether'
  <1>1. PICK w : w = wait[c].on
    OBVIOUS
  <1>a. PICK m : m = global_major
    OBVIOUS
  <1>b. PICK u : u = Deadline(m, c, minor[c])
    OBVIOUS
  <1>2. /\ Others(c) /\ pc[c] = "flip" /\ pc'[c] = wait[c].ret /\ pc'[c] \notin Waiting
        /\ w \in Barrier_Range \cup {All} /\ w # All
        /\ UNCHANGED <<wait, global_major, minor, cur>>
        /\ \A b \in Barrier_Range \cup {All} : b # w => barriers'[b].Sense = barriers[b].Sense
        /\ \A d \in Members(w) \ {c} : On(d, w) /\ ~Released(d) /\ Released(d)'
        /\ \A d \in CPUs \ {c} : On(d, w) => d \in Members(w)
        /\ c \in Members(w)
    BY <1>1, FlipEffect
  <1>3. TypeOK /\ m \in Majors /\ pc[c] \in Waiting
    BY <1>2, <1>a DEF Coordinated, TypeOK, Waiting
  <1>4. \A d \in CPUs : OnWay(d) /\ FrameValid(d)
    BY DEF Coordinated, OwnWay, FramesValid
  <1>5. wait[c].ret = "publish" /\ u \in SyncPoints(m) /\ w = BarrierID(m, u)
    BY <1>1, <1>2, <1>3, <1>4, <1>a, <1>b DEF OnWay, FrameValid
  <1>6. Stage(c) = "frame" /\ Stage(c)' = "frame"
    BY <1>1, <1>2, <1>3, <1>5 DEF Stage, StageAt, Waiting
  <1>7. Members(w) = Users(m, u)
    <2>1. Members(w) = MembersOf(m, w)
      BY <1>2, <1>6, <1>a, InFrame
    <2> QED
      BY <1>3, <1>5, <2>1, MembersAreUsers
  <1>8. \A t \in SyncPoints(m) : BarrierID(m, t) = w => t = u
    BY <1>3, <1>5, BarrierIDs
  <1>9. ASSUME NEW d \in CPUs, On(d, w)
        PROVE  /\ Deadline(m, d, minor[d]) = u /\ minor[d] < Length(cur[d].major, d)
               /\ Midframe(d) /\ Updating(d) /\ Stage(d) = "frame" /\ ~On(d, All)
               /\ cur[d].major = m
    <2>1. pc[d] \in Waiting /\ wait[d].on = w
      BY <1>9 DEF On
    <2>2. /\ Deadline(m, d, minor[d]) \in SyncPoints(m)
          /\ wait[d].on = BarrierID(m, Deadline(m, d, minor[d]))
          /\ minor[d] < Length(cur[d].major, d)
          /\ wait[d].ret = "publish"
      BY <1>2, <1>4, <1>a, <2>1 DEF FrameValid, OnWay
    <2>3. Midframe(d) /\ Updating(d) /\ ~On(d, All)
      BY <1>2, <2>1, <2>2 DEF Midframe, Updating, On
    <2>4. Stage(d) = "frame"
      BY <1>6, InFrame
    <2>5. cur[d].major = m
      BY <1>4, <1>a, <2>2, <2>3 DEF FrameValid
    <2> QED
      BY <1>8, <2>1, <2>2, <2>3, <2>4, <2>5
  <1>10. On(c, w)
    BY <1>1, <1>3 DEF On
  <1>11. ASSUME NEW d \in CPUs, d # c
         PROVE  /\ pc'[d] = pc[d] /\ wait'[d] = wait[d]
                /\ Stage(d)' = "frame"
                /\ Updating(d)' <=> Updating(d)
                /\ Midframe(d)' <=> Midframe(d)
                /\ On(d, All)' <=> On(d, All)
    <2>1. pc'[d] = pc[d] /\ wait'[d] = wait[d]
      BY <1>2, <1>11 DEF Others
    <2>2. Stage(d) = "frame"
      BY <1>6, InFrame
    <2>3. CASE wait[d].on = All
      <3>1. barriers'[All].Sense = barriers[All].Sense
        BY <1>2
      <3> QED
        BY <2>1, <2>2, <2>3, <3>1 DEF Stage, Updating, Midframe, On
    <2>4. CASE wait[d].on # All
      <3>1. pc[d] \notin {"boot", "off", "init", "again", "major", "start", "config"}
        BY <1>3, <2>2, <2>4, StageOf DEF On, Waiting
      <3>2. Stage(d)' = "frame"
        BY <2>1, <2>4, <3>1 DEF Stage, StageAt
      <3> QED
        BY <2>1, <3>2 DEF Updating, Midframe, On
    <2> QED
      BY <2>1, <2>3, <2>4
  <1>12. SameStage'
    BY <1>6, <1>11 DEF SameStage
  <1>13. /\ Updating(c)' /\ Midframe(c)' /\ ~On(c, All)' /\ pc'[c] = "publish"
    BY <1>2, <1>5 DEF Updating, Midframe, On
  <1>14. ASSUME NEW d \in Users(m, u)
         PROVE  Passed(d, u)'
    <2>1. d \in CPUs /\ d \in Members(w)
      BY <1>7 DEF Users
    <2>2. CASE d = c
      <3>1. Deadline(m, c, minor[c]) = u /\ minor[c] < Length(cur[c].major, c)
        BY <1>9, <1>10
      <3> QED
        BY <1>2, <1>6, <1>13, <2>2, <3>1, <1>a DEF Passed
    <2>3. CASE d # c
      <3>1. On(d, w) /\ Released(d)'
        BY <1>2, <2>1, <2>3
      <3> HIDE DEF Released
      <3>2. /\ Deadline(m, d, minor[d]) = u /\ minor[d] < Length(cur[d].major, d)
            /\ Midframe(d)
        BY <1>9, <2>1, <3>1
      <3> QED
        BY <1>2, <1>11, <2>1, <2>3, <3>1, <3>2, <1>a DEF Passed
    <2> QED
      BY <2>2, <2>3
  <1>15. ASSUME NEW t \in SyncPoints(m), t # u, NEW d \in CPUs
         PROVE  Passed(d, t)' <=> Passed(d, t)
    <2>1. CASE d = c
      <3>1. /\ Deadline(m, c, minor[c]) = u /\ minor[c] < Length(cur[c].major, c)
            /\ Midframe(c) /\ Updating(c) /\ ~On(c, All)
        BY <1>9, <1>10
      <3>2. Passed(c, t) <=> u > t
        BY <1>6, <1>15, <3>1, <1>a DEF Passed
      <3>3. Passed(c, t)' <=> u > t
        BY <1>2, <1>6, <1>13, <1>15, <3>1, <1>a DEF Passed
      <3> QED
        BY <2>1, <3>2, <3>3
    <2>2. CASE d # c /\ On(d, w)
      <3>1. /\ Deadline(m, d, minor[d]) = u /\ minor[d] < Length(cur[d].major, d)
            /\ Midframe(d) /\ Updating(d) /\ ~On(d, All) /\ Stage(d) = "frame"
        BY <1>9, <2>2
      <3>2. Passed(d, t) <=> u > t
        BY <1>15, <3>1, <1>a DEF Passed
      <3>3. Passed(d, t)' <=> u > t
        BY <1>2, <1>11, <1>15, <2>2, <3>1, <1>a DEF Passed
      <3> QED
        BY <3>2, <3>3
    <2>3. CASE d # c /\ ~On(d, w)
      <3>1. pc'[d] = pc[d] /\ wait'[d] = wait[d] /\ Stage(d)' = "frame" /\ Stage(d) = "frame"
        BY <1>6, <1>11, <2>3, InFrame
      <3>2. Released(d)' <=> Released(d)
        <4>1. wait[d].on \in Barrier_Range \cup {All}
          BY <1>3, Types
        <4>2. pc[d] = "spin" => wait[d].on # w
          BY <2>3 DEF On, Waiting
        <4> QED
          BY <1>2, <3>1, <4>1, <4>2 DEF Released
      <3> HIDE DEF Released
      <3> QED
        BY <1>2, <1>11, <2>3, <3>1, <3>2, <1>a DEF Passed
    <2> QED
      BY <2>1, <2>2, <2>3
  <1>16. PassedTogether'
    <2>1. \A t : Users(m, t) \subseteq CPUs
      BY DEF Users
    <2>2. global_major = m /\ global_major' = m
      BY <1>2, <1>a
    <2> QED
      BY <1>14, <1>15, <2>1, <2>2 DEF Coordinated, PassedTogether
  <1> QED
    BY <1>12, <1>16

\* The flip of the all-CPU barrier: all CPUs enter the next stage together, and in a
\* frame that begins nobody has passed any of its deadlines.
LEMMA FlipAll ==
  ASSUME Coordinated, NEW c \in CPUs, Flip(c), wait[c].on = All
  PROVE  SameStage' /\ PassedTogether'
  <1> DEFINE m == global_major
  <1>1. /\ Others(c) /\ pc[c] = "flip" /\ pc'[c] = wait[c].ret /\ pc'[c] \notin Waiting
        /\ UNCHANGED <<wait, global_major, minor, cur>>
        /\ \A d \in Members(All) \ {c} : On(d, All) /\ ~Released(d) /\ Released(d)'
    BY FlipEffect
  <1>2. TypeOK /\ m \in Majors
    BY DEF Coordinated, TypeOK
  <1>3. Members(All) = CPUs
    BY DEF Members
  <1>4. \A d \in CPUs : On(d, All) /\ ~Released(d) /\ wait[d].ret \in Rets
    BY <1>1, <1>2, <1>3, Types DEF On, Waiting, Released
  <1>5. \A d \in CPUs : Stage(d) = Toward(wait[d].ret)
    BY <1>4 DEF On, Released, Stage, StageAt, Waiting
  <1>6. \A d \in CPUs : Stage(d)' = After(wait[d].ret)
    <2>1. Stage(c)' = After(wait[c].ret)
      BY <1>1, Leaving
    <2>2. ASSUME NEW d \in CPUs, d # c
          PROVE  Stage(d)' = After(wait[d].ret)
      <3>1. Released(d)' /\ On(d, All) /\ pc'[d] = pc[d] /\ wait'[d] = wait[d]
        BY <1>1, <1>3, <2>2 DEF Others
      <3> QED
        BY <3>1 DEF On, Released, Stage, StageAt, Waiting
    <2> QED
      BY <2>1, <2>2
  <1>7. \A d, e \in CPUs : Toward(wait[d].ret) = Toward(wait[e].ret)
    BY <1>5 DEF Coordinated, SameStage
  <1>8. \A d, e \in CPUs : After(wait[d].ret) = After(wait[e].ret)
    BY <1>4, <1>7 DEF Toward, After, Rets
  <1>9. SameStage'
    BY <1>6, <1>8 DEF SameStage
  <1>10. CASE After(wait[c].ret) # "frame"
    <2>1. After(wait[c].ret) \in {"boot", "init", "change"}
      BY <1>4, <1>10 DEF After, Rets
    <2>2. \A d \in CPUs : Stage(d)' = After(wait[c].ret)
      BY <1>6, <1>8
    <2> QED
      BY <1>9, <2>1, <2>2, PassedOutOfFrame
  <1>11. CASE After(wait[c].ret) = "frame"
    <2>1. ASSUME NEW t \in SyncPoints(m), NEW d \in Users(m, t)
          PROVE  ~Passed(d, t)'
      <3>1. d \in CPUs
        BY DEF Users
      <3>2. wait[d].ret \in {"entry", "publish"} /\ pc[d] \in Waiting /\ wait[d].on = All
        <4>1. After(wait[d].ret) = "frame"
          BY <1>8, <1>11, <3>1
        <4> QED
          BY <1>4, <3>1, <4>1 DEF After, Rets, On
      <3>3. FrameValid(d)
        BY <3>1 DEF Coordinated, FramesValid
      <3>4. Stage(d)' = "frame"
        BY <1>6, <1>8, <1>11, <3>1
      <3>5. pc'[d] = pc[d] \/ (d = c /\ pc'[d] = wait[d].ret /\ pc'[d] \notin Waiting)
        BY <1>1, <3>1 DEF Others
      <3>6. CASE wait[d].ret = "entry"
        <4>1. ~Updating(d) /\ ~Updating(d)' /\ ~Midframe(d)'
          BY <1>1, <3>2, <3>5, <3>6 DEF Updating, Midframe, Waiting
        <4>2. minor[d] = 1
          BY <3>2, <3>3, <4>1 DEF FrameValid
        <4>3. ~(Deadline(m, d, 1) > t)
          BY <1>2, PassedFirst
        <4> QED
          BY <1>1, <3>4, <3>6, <4>1, <4>2, <4>3 DEF Passed
      <3>7. CASE wait[d].ret = "publish"
        <4>1. Updating(d) /\ Updating(d)' /\ ~Midframe(d)
          BY <1>1, <3>2, <3>5, <3>7 DEF Updating, Midframe, Waiting
        <4>2. ~(minor[d] < Length(cur[d].major, d))
          BY <3>3, <4>1 DEF FrameValid
        <4> QED
          BY <1>1, <3>4, <3>7, <4>1, <4>2 DEF Passed
      <3> QED
        BY <3>2, <3>6, <3>7
    <2>2. PassedTogether'
      <3>1. m' = m
        BY <1>1
      <3> QED
        BY <2>1, <3>1 DEF PassedTogether
    <2> QED
      BY <1>9, <2>2
  <1> QED
    BY <1>10, <1>11

\* Wait: the last CPU flips the sense and releases the others.
LEMMA FlipInv ==
  ASSUME Coordinated, NEW c \in CPUs, Flip(c)
  PROVE  Coordinated'
  BY FlipCommon, FlipMinor, FlipAll DEF Coordinated

\* The BSP starts the other processors only after the all-CPU barrier is set up.
LEMMA StartInv ==
  ASSUME Coordinated, Start_AP_Processors
  PROVE  Coordinated'
  <1>1. TypeOK /\ BSP \in CPUs /\ pc[BSP] = "boot"
    BY PlanAssumption DEF Coordinated, Start_AP_Processors
  <1>2. /\ barriers' = [barriers EXCEPT ![All] = Initialize(Cardinality(CPUs))]
        /\ \A d \in CPUs : pc'[d] = "read"
        /\ pc' = [d \in CPUs |-> "read"]
        /\ UNCHANGED <<global_major, global_start, minor, cur, wait, info, timer>>
    BY DEF Start_AP_Processors, globals
  <1>3. /\ barriers'[All] = Initialize(Cardinality(CPUs))
        /\ \A b \in Barrier_Range : barriers'[b] = barriers[b]
    BY <1>1, <1>2, AllApart DEF TypeOK
  <1>4. Cardinality(CPUs) \in Byte
    BY SomeCPUs
  <1>5. TypeOK'
    <2>1. Initialize(Cardinality(CPUs)) \in Sense_Barrier_Type
      BY <1>4 DEF Initialize, Sense_Barrier_Type, Byte, ByteSize
    <2> QED
      BY <1>1, <1>2, <2>1 DEF TypeOK
  <1>6. Stage(BSP) = "boot"
    BY <1>1 DEF Stage, StageAt, Waiting
  <1>7. \A d \in CPUs : /\ Stage(d) = "boot"
                        /\ OnWay(d) /\ FrameValid(d)
                        /\ pc[d] \in Waiting => wait[d].on = All
    BY <1>1, <1>6, OutOfFrame DEF Coordinated, OwnWay, FramesValid
  <1>8. \A d \in CPUs : /\ wait[d].on = All /\ wait[d].ret = "init"
                        /\ pc[d] \in {"boot", "off"} \cup Waiting
    BY <1>1, <1>7, StageOf DEF OnWay, On
  <1>9. \A d \in CPUs : Stage(d)' = "boot"
    BY <1>2, <1>8 DEF Stage, StageAt, Waiting, Toward
  <1>10. \A d \in CPUs : OnWay(d)'
    BY <1>2, <1>8 DEF OnWay, Waiting
  <1>11. ASSUME NEW d \in CPUs
         PROVE  FrameValid(d)'
    <2>1. ~Updating(d) /\ ~Updating(d)'
      BY <1>2, <1>8 DEF Updating, Waiting
    <2>2. minor[d] = 1 /\ minor[d] \in 1 .. Length(global_major, d)
      BY <1>7, <1>8, <2>1 DEF FrameValid
    <2> QED
      BY <1>2, <1>8, <2>1, <2>2 DEF FrameValid
  <1>12. SameStage' /\ OwnWay' /\ FramesValid'
    BY <1>2, <1>9, <1>10, <1>11 DEF SameStage, OwnWay, FramesValid, Coordinated
  <1>13. PassedTogether'
    BY <1>9, PassedOutOfFrame
  <1>14. FrameStable'
    BY <1>2 DEF FrameStable
  <1>15. ASSUME NEW b \in Barrier_Range
         PROVE  BarrierSound(b)'
    <2>1. \A d \in CPUs : ~On(d, b) /\ ~On(d, b)'
      BY <1>2, <1>8, AllApart DEF On
    <2>2. barriers'[b].Wait_Count = 0
      BY <1>3, <2>1, NobodyCounted DEF Coordinated, BarriersSound
    <2> QED
      BY <2>1, <2>2, BarrierEmpty
  <1>16. /\ barriers'[All].Size = Cardinality(CPUs) /\ barriers'[All].Wait_Count = 0
    BY <1>3 DEF Initialize
  <1>17. BarrierSound(All)'
    <2>1. Members(All)' = CPUs
      BY DEF Members
    <2>2. Arrived(All)' = {}
      BY <1>2 DEF Arrived
    <2> QED
      BY <1>2, <1>16, <2>1, <2>2, FS_EmptySet DEF BarrierSound
  <1>18. wait'[BSP].ret = "init"
    BY <1>1, <1>2, <1>8
  <1>19. BarriersSound'
    BY <1>15, <1>16, <1>17, <1>18 DEF BarriersSound
  <1> QED
    BY <1>5, <1>12, <1>13, <1>14, <1>19 DEF Coordinated

-----------------------------------------------------------------------------
(* The theorems *)

\* The invariant holds when the BSP starts to boot.
LEMMA InitInv == Init => Coordinated
  <1> SUFFICES ASSUME Init PROVE Coordinated
    OBVIOUS
  <1>1. BSP \in CPUs /\ FirstMajor \in Majors /\ 0 \in Ticks
    BY PlanAssumption DEF Ticks
  <1>2. \A c \in CPUs : /\ pc[c] \in {"boot", "off"} /\ (pc[c] = "boot" <=> c = BSP)
                        /\ wait[c].on = All /\ wait[c].ret = "init" /\ minor[c] = 1
    BY DEF Init, WaitCall
  <1>3. \A b \in Barrier_Range \cup {All} : barriers[b].Wait_Count = 0
    BY DEF Init, Initialize
  <1>4. TypeOK
    <2>1. WaitCall(All, "init") \in
            [on : Barrier_Range \cup {All}, size : Byte, sense : BOOLEAN,
             ret : {"init", "entry", "major", "again", "publish"}]
      BY DEF WaitCall, Byte, ByteSize
    <2>2. Initialize(0) \in Sense_Barrier_Type
      BY DEF Initialize, Sense_Barrier_Type, Byte, ByteSize
    <2>3. [major |-> FirstMajor, start |-> 0] \in [major : Majors, start : Ticks]
      BY <1>1
    <2>4. [start |-> 0, end |-> 0] \in [start : Ticks, end : Ticks]
      BY <1>1
    <2> QED
      BY <1>1, <2>1, <2>2, <2>3, <2>4 DEF TypeOK, Init
  <1>5. \A c \in CPUs : Stage(c) = "boot"
    BY <1>2 DEF Stage, StageAt, Waiting
  <1>6. SameStage /\ OwnWay
    BY <1>2, <1>5 DEF SameStage, OwnWay, OnWay, Waiting
  <1>7. FramesValid
    <2>1. global_major = FirstMajor
      BY DEF Init
    <2>2. ASSUME NEW c \in CPUs
          PROVE  FrameValid(c)
      <3>1. ~Updating(c) /\ pc[c] \notin Waiting
        BY <1>2 DEF Updating, Waiting
      <3>2. minor[c] \in 1 .. Length(global_major, c)
        BY <1>1, <1>2, <2>1, PlanFacts
      <3> QED
        BY <1>2, <3>1, <3>2 DEF FrameValid
    <2> QED
      BY <2>1, <2>2 DEF FramesValid
  <1>8. PassedTogether
    <2>1. \A m, t : Users(m, t) \subseteq CPUs
      BY DEF Users
    <2>2. \A c \in CPUs : \A t : ~Passed(c, t)
      BY <1>5 DEF Passed
    <2> QED
      BY <2>1, <2>2 DEF PassedTogether
  <1>9. FrameStable
    BY <1>2 DEF FrameStable
  <1>10. ASSUME NEW b \in Barrier_Range \cup {All}
         PROVE  BarrierSound(b)
    <2>1. \A d \in CPUs : ~On(d, b)
      BY <1>2 DEF On, Waiting
    <2>2. Arrived(b) = {}
      BY <2>1 DEF Arrived
    <2> QED
      BY <1>3, <2>1, <2>2, FS_EmptySet DEF BarrierSound
  <1>11. BarriersSound
    BY <1>1, <1>2, <1>10 DEF BarriersSound
  <1> QED
    BY <1>4, <1>6, <1>7, <1>8, <1>9, <1>11 DEF Coordinated

\* The invariant speaks of the variables only.
LEMMA StutterInv ==
  ASSUME Coordinated, UNCHANGED vars
  PROVE  Coordinated'
  <1>1. UNCHANGED <<barriers, global_major, global_start, minor, pc, cur, wait, info, timer>>
    BY DEF vars, globals
  <1>2. TypeOK' /\ FrameStable'
    BY <1>1 DEF Coordinated, TypeOK, FrameStable
  <1>3. \A d \in CPUs : /\ Stage(d)' = Stage(d)
                        /\ OnWay(d)' <=> OnWay(d)
                        /\ FrameValid(d)' <=> FrameValid(d)
                        /\ \A t : Passed(d, t)' <=> Passed(d, t)
    BY <1>1, ViewKept
  <1>4. SameStage' /\ OwnWay' /\ FramesValid'
    BY <1>1, <1>3 DEF Coordinated, SameStage, OwnWay, FramesValid
  <1>5. PassedTogether'
    <2>1. \A m, t : Users(m, t) \subseteq CPUs
      BY DEF Users
    <2> QED
      BY <1>1, <1>3, <2>1 DEF Coordinated, PassedTogether
  <1>6. Configured' = Configured
    BY <1>1 DEF Configured
  <1>7. \A b : Members(b)' = Members(b)
    BY <1>6, MembersKept
  <1>8. \A b \in Barrier_Range \cup {All} : BarrierSound(b)'
    <2>1. \A b, d : On(d, b)' <=> On(d, b)
      BY <1>1 DEF On
    <2> QED
      BY <1>1, <1>7, <2>1, BarrierKept DEF Coordinated, BarriersSound
  <1>9. BarriersSound'
    BY <1>1, <1>7, <1>8 DEF Coordinated, BarriersSound
  <1> QED
    BY <1>2, <1>4, <1>5, <1>9 DEF Coordinated

\* Whatever the plan and however the CPUs interleave, the barriers hold exactly the CPUs
\* they are meant for, the CPUs pass the rendezvous of the kernel and the common
\* deadlines of the plan together, and the BSP is alone with the global scheduling data
\* while it changes the major frame (FrameInv).
THEOREM Invariance == Safety => []FrameInv
  <1>1. ASSUME Coordinated, [Next]_vars
        PROVE  Coordinated'
    <2>1. CASE Start_AP_Processors
      BY <1>1, <2>1, StartInv
    <2>2. ASSUME NEW c \in CPUs, Wait(c)
          PROVE  Coordinated'
      BY <1>1, <2>2, ReadSenseInv, IncrementInv, ResetInv, FlipInv, SpinInv DEF Wait
    <2>3. ASSUME NEW c \in CPUs, Handler(c)
          PROVE  Coordinated'
      BY <1>1, <2>2, <2>3, SchedulerInitInv, SetTimerInv, WaitAgainInv, SetMajorIDInv,
         SetMajorStartInv, SetBarrierConfigInv, PublishInv DEF Handler
    <2>4. ASSUME NEW c \in CPUs, Update_Scheduling_Info(c) \/ Other_Exit(c)
          PROVE  Coordinated'
      BY <1>1, <2>4, UpdateInv, OtherExitInv
    <2>5. CASE UNCHANGED vars
      BY <1>1, <2>5, StutterInv
    <2> QED
      BY <1>1, <2>1, <2>3, <2>4, <2>5 DEF Next
  <1>2. Coordinated => FrameInv
    BY Alone DEF FrameInv
  <1> QED
    BY <1>1, <1>2, InitInv, PTL DEF Safety

\* A subject never runs under scheduling data that changed beneath it: on every exit
\* Set_VMX_Exit_Timer computes from the unlocked globals the deadline that was
\* programmed when the frame began.
THEOREM FrameStability == Safety => []FrameStable
  <1>1. FrameInv => FrameStable
    BY DEF FrameInv, Coordinated
  <1> QED
    BY <1>1, Invariance, PTL

\* Frames that the plan separates by a common deadline do not overlap on the CPUs that
\* share it.
THEOREM Separation == Safety => []SyncSeparation
  <1>1. ASSUME Coordinated
        PROVE  SyncSeparation
    <2> SUFFICES ASSUME NEW c \in CPUs, NEW d \in CPUs,
                        pc[c] = "guest", pc[d] = "guest",
                        FrameStart(c) \in SyncPoints(global_major),
                        d \in Users(global_major, FrameStart(c))
                 PROVE  Deadline(global_major, d, minor[d]) > FrameStart(c)
      BY DEF SyncSeparation
    <2> DEFINE m == global_major
    <2> DEFINE t == FrameStart(c)
    <2>1. TypeOK /\ m \in Majors
      BY <1>1 DEF Coordinated, TypeOK
    <2>2. \A e \in {c, d} : /\ ~Updating(e) /\ ~Midframe(e) /\ ~On(e, All)
                            /\ Stage(e) = "frame"
      BY DEF Updating, Midframe, On, Waiting, Stage, StageAt
    <2>3. FrameValid(c) /\ Length(m, c) \in Nat
      BY <1>1, <2>1, PlanFacts DEF Coordinated, FramesValid
    <2>4. minor[c] \in 1 .. Length(m, c)
      BY <2>2, <2>3 DEF FrameValid
    <2>5. t # 0
      BY DEF SyncPoints
    <2>6. minor[c] # 1 /\ t = Deadline(m, c, minor[c] - 1)
      BY <2>5 DEF FrameStart
    <2>7. minor[c] - 1 \in 1 .. Length(m, c) /\ minor[c] - 1 < minor[c]
      BY <2>3, <2>4, <2>6
    <2>8. c \in Users(m, t)
      BY <2>6, <2>7 DEF Users
    <2>9. Deadline(m, c, minor[c]) > t
      BY <2>1, <2>4, <2>6, <2>7, DeadlineOrder
    <2>10. Passed(c, t)
      BY <2>2, <2>9 DEF Passed
    <2>11. Passed(d, t)
      BY <1>1, <2>8, <2>10 DEF Coordinated, PassedTogether
    <2> HIDE DEF t
    <2>12. Deadline(m, d, minor[d]) > t
      BY <2>2, <2>11 DEF Passed
    <2> QED
      BY <2>12 DEF t
  <1>2. FrameInv => Coordinated
    BY DEF FrameInv
  <1> QED
    BY <1>1, <1>2, Invariance, PTL
=============================================================================
