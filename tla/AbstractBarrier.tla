--------------------------- MODULE AbstractBarrier --------------------------
(***************************************************************************)
(* What a barrier promises.  Every CPU alternates between entering and     *)
(* leaving; it leaves its k-th rendezvous only when all CPUs have entered   *)
(* theirs, and once they have, everybody eventually leaves.                *)
(***************************************************************************)
EXTENDS Naturals

CONSTANT CPUs,      \* the CPUs that use the barrier
         MaxRounds  \* bound on the number of rendezvous

VARIABLES entered,  \* entered[c]: calls of Wait that c has made
          left      \* left[c]: calls of Wait that have returned to c

vars == <<entered, left>>

Init == /\ entered = [c \in CPUs |-> 0]
        /\ left = [c \in CPUs |-> 0]

Enter(c) == /\ entered[c] = left[c]
            /\ entered[c] < MaxRounds
            /\ entered' = [entered EXCEPT ![c] = @ + 1]
            /\ UNCHANGED left

Leave(c) == /\ left[c] < entered[c]
            /\ \A d \in CPUs : entered[d] >= entered[c]
            /\ left' = [left EXCEPT ![c] = @ + 1]
            /\ UNCHANGED entered

Next == \E c \in CPUs : Enter(c) \/ Leave(c)

Safety == Init /\ [][Next]_vars

Spec == Safety /\ \A c \in CPUs : WF_vars(Leave(c))
=============================================================================
