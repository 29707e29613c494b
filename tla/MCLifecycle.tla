---------------------------- MODULE MCLifecycle -----------------------------
(***************************************************************************)
(* Subjects 1, 2 and 5 of the controller's configuration: the time         *)
(* subject, the monitor sm_1 and linux_1.                                  *)
(***************************************************************************)
EXTENDS Lifecycle

MCIDs == 1 .. 3
MCSelf == {1}
MCErase == {2, 3}
MCDeps == <<{}, {1}, {}>>
MCSlot == {2, 3}
=============================================================================
