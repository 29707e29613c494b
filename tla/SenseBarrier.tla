---------------------------- MODULE SenseBarrier ----------------------------
(***************************************************************************)
(* One sense barrier (SK.Barriers, SK.MP) shared by a fixed set of CPUs.   *)
(* Every access procedure Wait makes to the shared record is one step, so   *)
(* the CPUs interleave as they do on the machine: in particular a released  *)
(* CPU can come back to the barrier before a slower one has noticed that    *)
(* it was released, and before the last CPU has finished releasing.         *)
(***************************************************************************)
EXTENDS Barriers, FiniteSets

CONSTANT CPUs,      \* the CPUs that wait on the barrier
         MaxRounds  \* bound on the calls of Wait per CPU

ASSUME CPUsAssumption ==
  /\ IsFiniteSet(CPUs)
  /\ Cardinality(CPUs) \in 1 .. ByteSize - 1

ASSUME MaxRoundsAssumption == MaxRounds \in Nat

VARIABLES barrier,    \* the shared Sense_Barrier_Type record
          pc,         \* the next access of each CPU in Wait
          size,       \* the local Barrier_Size of each CPU
          cpu_sense,  \* the local CPU_Sense of each CPU
          entered,    \* history: calls of Wait made
          left        \* history: calls of Wait returned from

vars == <<barrier, pc, size, cpu_sense, entered, left>>

Init ==
  /\ barrier = Initialize(Cardinality(CPUs))
  /\ pc = [c \in CPUs |-> "out"]
  /\ size = [c \in CPUs |-> 0]
  /\ cpu_sense = [c \in CPUs |-> FALSE]
  /\ entered = [c \in CPUs |-> 0]
  /\ left = [c \in CPUs |-> 0]

Goto(c, from, to) == pc[c] = from /\ pc' = [pc EXCEPT ![c] = to]

Return(c) == left' = [left EXCEPT ![c] = @ + 1]

\* A CPU calls Wait.
Call(c) ==
  /\ entered[c] < MaxRounds
  /\ Goto(c, "out", "read")
  /\ entered' = [entered EXCEPT ![c] = @ + 1]
  /\ UNCHANGED <<barrier, size, cpu_sense, left>>

\* Size never changes while CPUs use the barrier: one step reads Size and Sense.
ReadSense(c) ==
  /\ Goto(c, "read", "xadd")
  /\ size' = [size EXCEPT ![c] = barrier.Size]
  /\ cpu_sense' = [cpu_sense EXCEPT ![c] = ~barrier.Sense]
  /\ UNCHANGED <<barrier, entered, left>>

Get_And_Increment(c) ==
  /\ Goto(c, "xadd", IF IsLast(barrier.Wait_Count, size[c]) THEN "reset" ELSE "spin")
  /\ barrier' = Incremented(barrier)
  /\ UNCHANGED <<size, cpu_sense, entered, left>>

\* MUTANT of Reset: the count of the finished round is kept.
ResetSkipped(c) ==
  /\ Goto(c, "reset", "flip")
  /\ UNCHANGED <<barrier, size, cpu_sense, entered, left>>

Reset(c) ==
  /\ Goto(c, "reset", "flip")
  /\ barrier' = CountReset(barrier)
  /\ UNCHANGED <<size, cpu_sense, entered, left>>

Flip(c) ==
  /\ Goto(c, "flip", "out")
  /\ barrier' = SenseSet(barrier, cpu_sense[c])
  /\ Return(c)
  /\ UNCHANGED <<size, cpu_sense, entered>>

\* MUTANT of Spin: the loop exits whatever Sense says.
SpinUnguarded(c) ==
  /\ Goto(c, "spin", "out")
  /\ Return(c)
  /\ UNCHANGED <<barrier, size, cpu_sense, entered>>

\* The exit of the spin loop; the iterations that do not exit are stuttering.
Spin(c) ==
  /\ Goto(c, "spin", "out")
  /\ barrier.Sense = cpu_sense[c]
  /\ Return(c)
  /\ UNCHANGED <<barrier, size, cpu_sense, entered>>

Wait(c) == ReadSense(c) \/ Get_And_Increment(c) \/ Reset(c) \/ Flip(c) \/ Spin(c)

\* The bound is reached and everybody has left: nothing more to do.
Finished ==
  /\ \A c \in CPUs : pc[c] = "out" /\ entered[c] = MaxRounds
  /\ UNCHANGED vars

Next == (\E c \in CPUs : Call(c) \/ Wait(c)) \/ Finished

Safety == Init /\ [][Next]_vars

\* A CPU inside Wait keeps executing; it owes nobody a further call.
Spec == Safety /\ \A c \in CPUs : WF_vars(Wait(c))
-----------------------------------------------------------------------------
(* Properties *)

PC == {"out", "read", "xadd", "spin", "reset", "flip"}

\* Every variable keeps its type, and Wait_Count never exceeds Size: the
\* increment of the 8-bit counter does not wrap, whatever the interleaving.
TypeOK ==
  /\ barrier \in Sense_Barrier_Type
  /\ barrier.Wait_Count <= barrier.Size
  /\ pc \in [CPUs -> PC]
  /\ size \in [CPUs -> Byte]
  /\ cpu_sense \in [CPUs -> BOOLEAN]
  /\ entered \in [CPUs -> Nat]
  /\ left \in [CPUs -> Nat]

\* Wait is a barrier: no CPU has returned from more calls than any other CPU
\* has made, however fast it comes back for the next round.
NoEarlyLeave == \A c, d \in CPUs : left[c] <= entered[d]

\* The CPUs whose arrival counts towards the round still open: past the
\* increment and waiting for the sense the barrier does not have yet.
Counted == {c \in CPUs : pc[c] \in {"spin", "reset", "flip"}
                         /\ cpu_sense[c] # barrier.Sense}

\* The CPUs of the previous round that have not noticed their release.
Stragglers == {c \in CPUs : pc[c] = "spin" /\ cpu_sense[c] = barrier.Sense}

Releasing(c) == pc[c] \in {"reset", "flip"}

\* Never does everybody wait with nobody left to release: a full round has
\* exactly one CPU on its way to Sense := CPU_Sense.
ReleaserExists ==
  Counted = CPUs => \E c \in CPUs : /\ Releasing(c)
                                   /\ \A d \in CPUs \ {c} : pc[d] = "spin"

\* The inductive invariant behind the two properties above.  Wait_Count counts
\* the open round and nothing else, a round is released only when it is full,
\* and the CPUs are never more than one round apart.
SizeInv == /\ barrier.Size = Cardinality(CPUs)
           /\ \A c \in CPUs : pc[c] \notin {"out", "read"} => size[c] = barrier.Size

CountInv == barrier.Wait_Count =
              IF \E c \in CPUs : pc[c] = "flip" THEN 0 ELSE Cardinality(Counted)

ReleaseInv ==
  /\ \A c \in CPUs : Releasing(c) => /\ Counted = CPUs
                                     /\ \A d \in CPUs \ {c} : pc[d] = "spin"
  /\ Counted = CPUs => \E c \in CPUs : Releasing(c)

SenseInv == \A c \in CPUs : pc[c] = "xadd" => cpu_sense[c] # barrier.Sense

Lag(c) == IF c \in Stragglers THEN 1 ELSE 0

RoundInv ==
  /\ \A c \in CPUs : entered[c] = IF pc[c] = "out" THEN left[c] ELSE left[c] + 1
  /\ \A c, d \in CPUs : left[c] + Lag(c) = left[d] + Lag(d)

IndInv == TypeOK /\ SizeInv /\ CountInv /\ ReleaseInv /\ SenseInv /\ RoundInv

\* The barrier of the kernel implements the abstract one, liveness included:
\* once every CPU has called Wait, every call returns.
Abstract == INSTANCE AbstractBarrier WITH entered <- entered, left <- left

Refinement == Abstract!Spec
=============================================================================
