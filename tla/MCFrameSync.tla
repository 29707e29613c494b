---------------------------- MODULE MCFrameSync -----------------------------
(***************************************************************************)
(* Three CPUs and two major frames.  In A the CPUs c1, c2 share a deadline  *)
(* and so do all three; in B the first barrier belongs to other CPUs and   *)
(* has another size, so a barrier left over from A would be noticed.        *)
(***************************************************************************)
EXTENDS FrameSync, TLC

CONSTANTS c1, c2, c3, A, B

MCCPUs == {c1, c2, c3}
MCMajors == {A, B}

MCPlans ==
  [m \in MCMajors |->
     IF m = A THEN (c1 :> <<1, 2, 3>> @@ c2 :> <<1, 2, 3>> @@ c3 :> <<2, 3>>)
              ELSE (c1 :> <<4>> @@ c2 :> <<2, 4>> @@ c3 :> <<2, 3, 4>>)]
=============================================================================
