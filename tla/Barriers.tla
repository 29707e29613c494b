------------------------------ MODULE Barriers ------------------------------
(***************************************************************************)
(* The sense-reversing barrier record of SK.Barriers and the elementary    *)
(* accesses procedure Wait makes to it.  Each operator is one memory       *)
(* access; the modules that use it decide how accesses of different CPUs   *)
(* interleave.                                                             *)
(***************************************************************************)
EXTENDS Naturals

\* SK.Byte is a modular type: Wait_Count and Count + 1 wrap at 2^8.
ByteSize == 256

Byte == 0 .. ByteSize - 1

\* Sense_Barrier_Type.
Sense_Barrier_Type == [Size : Byte, Sense : BOOLEAN, Wait_Count : Byte]

\* Initialize: the whole record is overwritten.
Initialize(size) == [Size |-> size, Sense |-> FALSE, Wait_Count |-> 0]

\* Get_And_Increment: lock xadd.  The caller keeps the old Wait_Count.
Incremented(b) == [b EXCEPT !.Wait_Count = (@ + 1) % ByteSize]

\* The test made on the value xadd returned.
IsLast(count, size) == (count + 1) % ByteSize = size

\* The two writes of the last CPU, in this order in the code.
CountReset(b) == [b EXCEPT !.Wait_Count = 0]
SenseSet(b, s) == [b EXCEPT !.Sense = s]
=============================================================================
