------------------------- MODULE SenseBarrierProofs -------------------------
(***************************************************************************)
(* Proofs about SenseBarrier for every finite set of CPUs of at most 255   *)
(* elements and every number of rounds: the inductive invariant IndInv,     *)
(* the barrier property, the absence of a stuck barrier, and the safety     *)
(* part of the refinement of AbstractBarrier.                              *)
(***************************************************************************)
EXTENDS SenseBarrier, FiniteSetTheorems, TLAPS

USE CPUsAssumption, MaxRoundsAssumption

\* The set of counted CPUs and its cardinality: what the increment of a CPU
\* that was not counted yet (Get_And_Increment) does to the open round.
LEMMA CountedBounds ==
  ASSUME NEW S \in SUBSET CPUs
  PROVE  /\ IsFiniteSet(S)
         /\ Cardinality(S) \in Nat
         /\ Cardinality(S) <= Cardinality(CPUs)
         /\ Cardinality(S) = Cardinality(CPUs) <=> S = CPUs
  BY FS_Subset, FS_CardinalityType

\* A CPU that is counted makes the count larger by one.
LEMMA CountedAdd ==
  ASSUME NEW S \in SUBSET CPUs, NEW c \in CPUs, c \notin S
  PROVE  /\ Cardinality(S \cup {c}) = Cardinality(S) + 1
         /\ Cardinality(S) < Cardinality(CPUs)
  <1>1. IsFiniteSet(S) /\ Cardinality(S) \in Nat
    BY CountedBounds
  <1>2. Cardinality(S \cup {c}) = Cardinality(S) + 1
    BY <1>1, FS_AddElement
  <1>3. S # CPUs
    OBVIOUS
  <1> QED
    BY <1>1, <1>2, <1>3, CountedBounds

USE DEF Goto, Return

\* Init satisfies the inductive invariant: nobody has called Wait.
LEMMA InitInv == Init => IndInv
  <1> SUFFICES ASSUME Init PROVE IndInv
    OBVIOUS
  <1>1. TypeOK
    BY DEF Init, TypeOK, Initialize, Sense_Barrier_Type, Byte, ByteSize, PC
  <1>2. Counted = {} /\ Stragglers = {}
    BY DEF Init, Counted, Stragglers
  <1>3. Counted # CPUs
    BY <1>2, FS_EmptySet DEF ByteSize
  <1>4. SizeInv /\ SenseInv /\ RoundInv
    BY <1>2 DEF Init, SizeInv, SenseInv, RoundInv, Lag, Initialize
  <1>5. CountInv
    BY <1>2, FS_EmptySet DEF Init, CountInv, Initialize
  <1>6. ReleaseInv
    BY <1>3 DEF Init, ReleaseInv, Releasing
  <1> QED
    BY <1>1, <1>4, <1>5, <1>6 DEF IndInv

\* Call: entering Wait changes no shared state.
LEMMA CallInv ==
  ASSUME IndInv, NEW c \in CPUs, Call(c)
  PROVE  IndInv'
  <1> USE DEF IndInv, TypeOK
  <1>1. TypeOK'
    BY DEF Call, PC
  <1>2. Counted' = Counted /\ Stragglers' = Stragglers
    BY DEF Call, Counted, Stragglers
  <1>3. SizeInv' /\ SenseInv'
    BY DEF Call, SizeInv, SenseInv
  <1>4. CountInv'
    BY <1>2 DEF Call, CountInv
  <1>5. ReleaseInv'
    <2>1. c \notin Counted
      BY DEF Call, Counted
    <2>2. \A d \in CPUs : ~Releasing(d)
      BY <2>1 DEF ReleaseInv
    <2> QED
      BY <1>2, <2>1, <2>2 DEF Call, ReleaseInv, Releasing
  <1>6. RoundInv'
    BY <1>2 DEF Call, RoundInv, Lag
  <1> QED
    BY <1>1, <1>3, <1>4, <1>5, <1>6

\* Reading Size and Sense: CPU_Sense differs from the sense of the open round.
LEMMA ReadSenseInv ==
  ASSUME IndInv, NEW c \in CPUs, ReadSense(c)
  PROVE  IndInv'
  <1> USE DEF IndInv, TypeOK
  <1>1. TypeOK'
    BY DEF ReadSense, PC, Sense_Barrier_Type
  <1>2. Counted' = Counted /\ Stragglers' = Stragglers
    BY DEF ReadSense, Counted, Stragglers
  <1>3. SizeInv'
    BY DEF ReadSense, SizeInv
  <1>4. SenseInv'
    <2>1. barrier.Sense \in BOOLEAN
      BY DEF Sense_Barrier_Type
    <2> QED
      BY <2>1 DEF ReadSense, SenseInv
  <1>5. CountInv'
    BY <1>2 DEF ReadSense, CountInv
  <1>6. ReleaseInv'
    <2>1. c \notin Counted
      BY DEF ReadSense, Counted
    <2>2. \A d \in CPUs : ~Releasing(d)
      BY <2>1 DEF ReleaseInv
    <2> QED
      BY <1>2, <2>1, <2>2 DEF ReadSense, ReleaseInv, Releasing
  <1>7. RoundInv'
    BY <1>2 DEF ReadSense, RoundInv, Lag
  <1> QED
    BY <1>1, <1>3, <1>4, <1>5, <1>6, <1>7

\* The atomic increment: the CPU joins the counted ones, and takes the
\* releasing branch exactly when it completes the round.
LEMMA IncrementInv ==
  ASSUME IndInv, NEW c \in CPUs, Get_And_Increment(c)
  PROVE  IndInv'
  <1> USE DEF IndInv
  <1> DEFINE n == Cardinality(Counted)
  <1>1. /\ c \notin Counted
        /\ Counted \in SUBSET CPUs
        /\ \A d \in CPUs : ~Releasing(d)
    BY DEF Get_And_Increment, Counted, ReleaseInv
  <1>2. /\ n \in Nat
        /\ n < Cardinality(CPUs)
        /\ Cardinality(Counted \cup {c}) = n + 1
    BY <1>1, CountedAdd, CountedBounds
  <1>3. barrier.Wait_Count = n /\ n + 1 < ByteSize
    BY <1>1, <1>2 DEF CountInv, Releasing, ByteSize
  <1>4. size[c] = Cardinality(CPUs)
    BY DEF Get_And_Increment, SizeInv
  <1>5. /\ barrier' = [barrier EXCEPT !.Wait_Count = n + 1]
        /\ IsLast(barrier.Wait_Count, size[c]) <=> n + 1 = Cardinality(CPUs)
    BY <1>2, <1>3, <1>4 DEF Get_And_Increment, Incremented, IsLast, ByteSize
  <1>6. TypeOK'
    <2>1. barrier' \in Sense_Barrier_Type
      BY <1>2, <1>3, <1>5 DEF TypeOK, Sense_Barrier_Type, Byte, ByteSize
    <2>2. barrier'.Wait_Count <= barrier'.Size
      BY <1>2, <1>5 DEF TypeOK, SizeInv, Sense_Barrier_Type
    <2> QED
      BY <2>1, <2>2 DEF Get_And_Increment, TypeOK, PC
  <1>7. /\ barrier'.Sense = barrier.Sense
        /\ barrier'.Size = barrier.Size
        /\ barrier'.Wait_Count = n + 1
    BY <1>5 DEF TypeOK, Sense_Barrier_Type
  <1>8. /\ Counted' = Counted \cup {c}
        /\ Stragglers' = Stragglers
    BY <1>7 DEF Get_And_Increment, Counted, Stragglers, SenseInv, TypeOK
  <1>9. SizeInv' /\ SenseInv'
    BY <1>7 DEF Get_And_Increment, SizeInv, SenseInv, TypeOK
  <1>10. CountInv'
    BY <1>1, <1>2, <1>7, <1>8 DEF Get_And_Increment, CountInv, Releasing, TypeOK
  <1>11. ReleaseInv'
    <2>1. CASE n + 1 = Cardinality(CPUs)
      <3>1. Counted' = CPUs
        BY <2>1, <1>1, <1>2, <1>8, CountedBounds
      <3>2. pc' = [pc EXCEPT ![c] = "reset"]
        BY <2>1, <1>5 DEF Get_And_Increment
      <3>3. \A d \in CPUs \ {c} : pc[d] = "spin"
        BY <3>1, <1>1, <1>8 DEF Counted, Releasing
      <3> QED
        BY <3>1, <3>2, <3>3, <1>1 DEF ReleaseInv, Releasing, TypeOK
    <2>2. CASE n + 1 # Cardinality(CPUs)
      <3>1. Counted' # CPUs
        BY <2>2, <1>1, <1>2, <1>8
      <3>2. pc' = [pc EXCEPT ![c] = "spin"]
        BY <2>2, <1>5 DEF Get_And_Increment
      <3> QED
        BY <3>1, <3>2, <1>1 DEF ReleaseInv, Releasing, TypeOK
    <2> QED
      BY <2>1, <2>2
  <1>12. RoundInv'
    BY <1>8 DEF Get_And_Increment, RoundInv, Lag, TypeOK
  <1> QED
    BY <1>6, <1>9, <1>10, <1>11, <1>12

\* The releasing CPU resets the count before it flips the sense.
LEMMA ResetInv ==
  ASSUME IndInv, NEW c \in CPUs, Reset(c)
  PROVE  IndInv'
  <1> USE DEF IndInv
  <1>1. barrier' = [barrier EXCEPT !.Wait_Count = 0]
    BY DEF Reset, CountReset
  <1>2. /\ barrier'.Sense = barrier.Sense
        /\ barrier'.Size = barrier.Size
        /\ barrier'.Wait_Count = 0
    BY <1>1 DEF TypeOK, Sense_Barrier_Type
  <1>3. TypeOK'
    BY <1>1 DEF Reset, TypeOK, PC, Sense_Barrier_Type, Byte, ByteSize
  <1>4. Counted' = Counted /\ Stragglers' = Stragglers
    BY <1>2 DEF Reset, Counted, Stragglers, TypeOK
  <1>5. SizeInv' /\ SenseInv'
    BY <1>2 DEF Reset, SizeInv, SenseInv, TypeOK
  <1>6. CountInv'
    BY <1>2 DEF Reset, CountInv, TypeOK
  <1>7. ReleaseInv'
    BY <1>4 DEF Reset, ReleaseInv, Releasing, TypeOK
  <1>8. RoundInv'
    BY <1>4 DEF Reset, RoundInv, Lag, TypeOK
  <1> QED
    BY <1>3, <1>5, <1>6, <1>7, <1>8

\* Flipping the sense closes the round: every other CPU becomes a straggler.
LEMMA FlipInv ==
  ASSUME IndInv, NEW c \in CPUs, Flip(c)
  PROVE  IndInv'
  <1> USE DEF IndInv
  <1>1. /\ Counted = CPUs
        /\ \A d \in CPUs \ {c} : pc[d] = "spin"
    BY DEF Flip, ReleaseInv, Releasing
  <1>2. \A d \in CPUs : cpu_sense[d] # barrier.Sense
    BY <1>1 DEF Counted
  <1>3. /\ barrier' = [barrier EXCEPT !.Sense = cpu_sense[c]]
        /\ cpu_sense[c] \in BOOLEAN
    BY DEF Flip, SenseSet, TypeOK
  <1>4. /\ barrier'.Sense = cpu_sense[c]
        /\ barrier'.Size = barrier.Size
        /\ barrier'.Wait_Count = barrier.Wait_Count
    BY <1>3 DEF TypeOK, Sense_Barrier_Type
  <1>5. TypeOK'
    BY <1>3 DEF Flip, TypeOK, PC, Sense_Barrier_Type
  <1>6. \A d \in CPUs : cpu_sense[d] = cpu_sense[c]
    <2>1. barrier.Sense \in BOOLEAN /\ \A d \in CPUs : cpu_sense[d] \in BOOLEAN
      BY DEF TypeOK, Sense_Barrier_Type
    <2> QED
      BY <2>1, <1>2
  <1>7. /\ Stragglers = {}
        /\ Stragglers' = CPUs \ {c}
        /\ Counted' = {}
    <2>1. Stragglers = {}
      BY <1>2 DEF Stragglers
    <2>2. Stragglers' = CPUs \ {c}
      BY <1>1, <1>4, <1>6 DEF Flip, Stragglers, TypeOK
    <2>3. Counted' = {}
      BY <1>4, <1>6 DEF Flip, Counted, TypeOK
    <2> QED
      BY <2>1, <2>2, <2>3
  <1>8. SizeInv' /\ SenseInv'
    BY <1>1, <1>4 DEF Flip, SizeInv, SenseInv, TypeOK
  <1>9. CountInv'
    <2>1. barrier.Wait_Count = 0
      BY DEF Flip, CountInv
    <2>2. \A d \in CPUs : pc'[d] # "flip"
      BY <1>1 DEF Flip, TypeOK
    <2> QED
      BY <2>1, <2>2, <1>4, <1>7, FS_EmptySet DEF CountInv
  <1>10. ReleaseInv'
    BY <1>1, <1>7 DEF Flip, ReleaseInv, Releasing, TypeOK
  <1>11. RoundInv'
    <2>1. \A d, e \in CPUs : left[d] = left[e]
      BY <1>7 DEF RoundInv, Lag, TypeOK
    <2>2. \A d \in CPUs : left'[d] + Lag(d)' = left[c] + 1
      BY <2>1, <1>7 DEF Flip, Lag, TypeOK
    <2>3. \A d \in CPUs : entered'[d] = IF pc'[d] = "out" THEN left'[d] ELSE left'[d] + 1
      BY DEF Flip, RoundInv, TypeOK
    <2> QED
      BY <2>2, <2>3 DEF RoundInv
  <1> QED
    BY <1>5, <1>8, <1>9, <1>10, <1>11

\* Leaving the spin loop: the CPU was a straggler of the closed round.
LEMMA SpinInv ==
  ASSUME IndInv, NEW c \in CPUs, Spin(c)
  PROVE  IndInv'
  <1> USE DEF IndInv, TypeOK
  <1>1. TypeOK'
    BY DEF Spin, PC
  <1>2. /\ c \in Stragglers
        /\ Stragglers' = Stragglers \ {c}
        /\ Counted' = Counted
        /\ c \notin Counted
    BY DEF Spin, Stragglers, Counted
  <1>3. SizeInv' /\ SenseInv'
    BY DEF Spin, SizeInv, SenseInv
  <1>4. CountInv'
    BY <1>2 DEF Spin, CountInv
  <1>5. ReleaseInv'
    <2>1. \A d \in CPUs : ~Releasing(d)
      BY <1>2 DEF ReleaseInv
    <2> QED
      BY <2>1, <1>2 DEF Spin, ReleaseInv, Releasing
  <1>6. RoundInv'
    <2>1. \A d \in CPUs : left'[d] + Lag(d)' = left[d] + Lag(d)
      BY <1>2 DEF Spin, Lag
    <2>2. \A d \in CPUs : entered'[d] = IF pc'[d] = "out" THEN left'[d] ELSE left'[d] + 1
      BY DEF Spin, RoundInv
    <2> QED
      BY <2>1, <2>2 DEF RoundInv
  <1> QED
    BY <1>1, <1>3, <1>4, <1>5, <1>6

-----------------------------------------------------------------------------
\* No access of Wait breaks the inductive invariant.
THEOREM Invariance == Safety => []IndInv
  <1>1. IndInv /\ [Next]_vars => IndInv'
    <2> SUFFICES ASSUME IndInv, [Next]_vars PROVE IndInv'
      OBVIOUS
    <2>1. CASE UNCHANGED vars
      BY <2>1 DEF vars, IndInv, TypeOK, SizeInv, CountInv, ReleaseInv, SenseInv,
                  RoundInv, Lag, Counted, Stragglers, Releasing
    <2>2. ASSUME NEW c \in CPUs, Call(c) PROVE IndInv'
      BY <2>2, CallInv
    <2>3. ASSUME NEW c \in CPUs, Wait(c) PROVE IndInv'
      BY <2>3, ReadSenseInv, IncrementInv, ResetInv, FlipInv, SpinInv DEF Wait
    <2>4. CASE Finished
      BY <2>1, <2>4 DEF Finished
    <2> QED
      BY <2>1, <2>2, <2>3, <2>4 DEF Next
  <1> QED
    BY <1>1, InitInv, PTL DEF Safety

\* Type correctness; Wait_Count never leaves Byte although xadd may wrap.
THEOREM TypeCorrect == Safety => []TypeOK
  <1>1. IndInv => TypeOK
    BY DEF IndInv
  <1> QED
    BY <1>1, Invariance, PTL

\* SK.Barriers.Wait is a barrier for every number of CPUs: no call returns
\* before every CPU has made the corresponding call.
THEOREM BarrierCorrect == Safety => []NoEarlyLeave
  <1>1. IndInv => NoEarlyLeave
    <2> SUFFICES ASSUME IndInv, NEW c \in CPUs, NEW d \in CPUs
                 PROVE  left[c] <= entered[d]
      BY DEF NoEarlyLeave
    <2>1. left[c] \in Nat /\ left[d] \in Nat /\ entered[d] \in Nat
      BY DEF IndInv, TypeOK
    <2>2. left[c] + Lag(c) = left[d] + Lag(d)
      BY DEF IndInv, RoundInv
    <2>3. CASE d \in Stragglers
      <3>1. entered[d] = left[d] + 1
        BY <2>3 DEF IndInv, RoundInv, Stragglers
      <3> QED
        BY <2>1, <2>2, <2>3, <3>1 DEF Lag
    <2>4. CASE d \notin Stragglers
      <3>1. entered[d] >= left[d]
        BY <2>1 DEF IndInv, RoundInv
      <3> QED
        BY <2>1, <2>2, <2>4, <3>1 DEF Lag
    <2> QED
      BY <2>3, <2>4
  <1> QED
    BY <1>1, Invariance, PTL

\* The barrier is never stuck: a full round always has exactly one CPU that is
\* about to flip the sense.
THEOREM NeverStuck == Safety => []ReleaserExists
  <1>1. IndInv => ReleaserExists
    BY DEF IndInv, ReleaseInv, ReleaserExists
  <1> QED
    BY <1>1, Invariance, PTL

\* Every step of the detailed barrier is a step of AbstractBarrier or a
\* stutter: entering is the call of Wait, leaving is its return.
THEOREM Implements == Safety => Abstract!Safety
  <1>1. Init => Abstract!Init
    BY DEF Init, Abstract!Init
  <1>2. IndInv /\ [Next]_vars => [Abstract!Next]_(Abstract!vars)
    <2> SUFFICES ASSUME IndInv, [Next]_vars
                 PROVE  Abstract!Next \/ UNCHANGED <<entered, left>>
      BY DEF Abstract!vars
    <2> USE DEF Abstract!Next, Abstract!Enter, Abstract!Leave
    <2>1. CASE UNCHANGED vars
      BY <2>1 DEF vars
    <2>2. ASSUME NEW c \in CPUs, Call(c) PROVE Abstract!Enter(c)
      BY <2>2 DEF Call, IndInv, RoundInv
    <2>3. ASSUME NEW c \in CPUs, ReadSense(c) \/ Get_And_Increment(c) \/ Reset(c)
          PROVE  UNCHANGED <<entered, left>>
      BY <2>3 DEF ReadSense, Get_And_Increment, Reset
    <2>4. ASSUME NEW c \in CPUs, Flip(c) PROVE Abstract!Leave(c)
      <3>1. Counted = CPUs
        BY <2>4 DEF Flip, IndInv, ReleaseInv, Releasing
      <3>2. \A d \in CPUs : d \notin Stragglers /\ pc[d] # "out"
        BY <3>1 DEF Counted, Stragglers
      <3>3. \A d \in CPUs : entered[d] = left[d] + 1 /\ left[d] = left[c]
        BY <3>2 DEF IndInv, RoundInv, Lag, TypeOK
      <3> QED
        BY <2>4, <3>3 DEF Flip, IndInv, TypeOK
    <2>5. ASSUME NEW c \in CPUs, Spin(c) PROVE Abstract!Leave(c)
      <3>1. c \in Stragglers /\ entered[c] = left[c] + 1
        BY <2>5 DEF Spin, Stragglers, IndInv, RoundInv, TypeOK
      <3>2. \A d \in CPUs : entered[d] >= left[c] + 1
        <4> SUFFICES ASSUME NEW d \in CPUs PROVE entered[d] >= left[c] + 1
          OBVIOUS
        <4>1. left[c] \in Nat /\ left[d] \in Nat /\ left[c] + 1 = left[d] + Lag(d)
          BY <3>1 DEF IndInv, RoundInv, Lag, TypeOK
        <4>2. CASE d \in Stragglers
          BY <3>1, <4>1, <4>2 DEF IndInv, RoundInv, Lag, Stragglers
        <4>3. CASE d \notin Stragglers
          BY <4>1, <4>3 DEF IndInv, RoundInv, Lag
        <4> QED
          BY <4>2, <4>3
      <3> QED
        BY <2>5, <3>1, <3>2 DEF Spin, IndInv, TypeOK
    <2>6. CASE Finished
      BY <2>6 DEF Finished, vars
    <2> QED
      BY <2>1, <2>2, <2>3, <2>4, <2>5, <2>6 DEF Next, Wait
  <1> QED
    BY <1>1, <1>2, Invariance, PTL DEF Safety, Abstract!Safety
=============================================================================
