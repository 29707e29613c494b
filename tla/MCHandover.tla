----------------------------- MODULE MCHandover -----------------------------
(***************************************************************************)
(* Two partitions; the group of the first one has two subjects that hand    *)
(* over to each other: the traps of a go to its monitor b, which returns by *)
(* hypercall.  The subjects reset, wake and interrupt their neighbours.     *)
(***************************************************************************)
EXTENDS Scheduler, TLC

CONSTANTS p1, p2, g1, g2, a, b, c

MCGroupMap == p1 :> <<g1>> @@ p2 :> <<g2>>
MCGroupOf == a :> g1 @@ b :> g1 @@ c :> g2
MCInitial == g1 :> a @@ g2 :> c

Sleep == [NullSource EXCEPT !.action = "sleep"]
Async(t, e) == [NullSource EXCEPT !.target = t, !.event = e]
Handover(t, e) == [Async(t, e) EXCEPT !.handover = TRUE]

MCSourceEvents == a :> {Sleep} @@ b :> {Sleep, Handover(a, NoEvent)} @@ c :> {Async(a, 3)}
MCTrapEvents == a :> {Handover(b, NoEvent)} @@ b :> {} @@ c :> {}
=============================================================================
