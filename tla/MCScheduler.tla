---------------------------- MODULE MCScheduler -----------------------------
(***************************************************************************)
(* One partition with two groups of one subject each: the smallest system  *)
(* in which a sleeping group is not the current one.                        *)
(***************************************************************************)
EXTENDS Scheduler, TLC

CONSTANTS p1, g1, g2, a, b

MCGroupMap == p1 :> <<g1, g2>>
MCGroupOf == a :> g1 @@ b :> g2
MCInitial == g1 :> a @@ g2 :> b

Kernel_Event(action) == [NullSource EXCEPT !.action = action]

MCSourceEvents == a :> {Kernel_Event("sleep"), Kernel_Event("yield")} @@
                  b :> {Kernel_Event("sleep")}
SleepOnly == [s \in {a, b} |-> {Kernel_Event("sleep")}]
NoTraps == [s \in {a, b} |-> {}]

\* Another CPU sends an event and an IPI to one subject.
MCRemoteEvents == {[target |-> b, event |-> 1, ipi |-> TRUE]}

\* The same with an event that injects an interrupt and so ends HLT inside the frame.
InjectByIPI == {[target |-> b, event |-> 2, ipi |-> TRUE]}
=============================================================================
