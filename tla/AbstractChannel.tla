-------------------------- MODULE AbstractChannel ---------------------------
(***************************************************************************)
(* What a channel promises its reader.  The writer opens and closes epochs  *)
(* and publishes the packets of an epoch one after the other, in one step    *)
(* each.  A reader that follows the epoch gets each packet at most once, in  *)
(* order and whole; it misses packets only when it was told so and only when *)
(* the channel was full; it is told that there is nothing only when it has   *)
(* everything.  Only a change of epoch puts it back to the first packet,     *)
(* unless it rewinds itself.                                                 *)
(***************************************************************************)
EXTENDS Integers

CONSTANTS Elements,   \* packets that the channel holds
          Epochs,     \* the epochs, None among them
          None,       \* no epoch is open
          Contents    \* what a read of a closed channel may deliver

VARIABLES
  epoch,      \* the open epoch, or None
  count,      \* number of packets published in it
  following,  \* the reader has synchronized with the open epoch
  next,       \* the packet of the epoch that the reader gets next
  answer      \* of the last call of the reader, or how far the call has come

vars == <<epoch, count, following, next, answer>>

Pending == [result |-> "pending"]
Skipped == [result |-> "skipped"]
Answer(r) == [result |-> r]
Success(e) == [result |-> "success", elem |-> e]

InCall == answer \in {Pending, Skipped}

\* Packet n of epoch e, both halves of it.
Whole(e, n) == <<<<e, n>>, <<e, n>>>>

Init ==
  /\ epoch = None /\ count = 0
  /\ following = FALSE /\ next = 0 /\ answer = Answer("inactive")

-----------------------------------------------------------------------------
(* The writer *)

Open ==
  /\ epoch = None
  /\ epoch' \in Epochs \ {None}
  /\ UNCHANGED <<count, following, next, answer>>

Close ==
  /\ epoch # None
  /\ epoch' = None /\ count' = 0 /\ following' = FALSE /\ next' = 0
  /\ UNCHANGED answer

Publish ==
  /\ epoch # None
  /\ count' = count + 1
  /\ UNCHANGED <<epoch, following, next, answer>>

-----------------------------------------------------------------------------
(* The reader *)

Call ==
  /\ ~InCall
  /\ answer' = Pending
  /\ UNCHANGED <<epoch, count, following, next>>

\* The reader turns to the open epoch, once per epoch.
Synchronize ==
  /\ answer = Pending /\ epoch # None /\ ~following
  /\ following' = TRUE /\ next' = 0
  /\ UNCHANGED <<epoch, count, answer>>

\* The reader goes to the end of the epoch: it is a whole channel behind.
Skip ==
  /\ answer = Pending
  /\ answer' = Skipped
  /\ IF following THEN next + Elements <= count /\ next' = count ELSE UNCHANGED next
  /\ UNCHANGED <<epoch, count, following>>

Deliver ==
  /\ answer = Pending /\ following /\ next < count
  /\ answer' = Success(Whole(epoch, next))
  /\ next' = next + 1
  /\ UNCHANGED <<epoch, count, following>>

\* A call that found the channel closed after its first look at it.
DeliverClosed ==
  /\ answer = Pending /\ epoch = None
  /\ answer' \in {Success(e) : e \in Contents}
  /\ UNCHANGED <<epoch, count, following, next>>

Refuse ==
  /\ InCall
  /\ \/ answer' = Answer("no_data") /\ answer = Pending /\ (following => next = count)
     \/ answer' = Answer("overrun_detected") /\ answer = Skipped /\ (following \/ epoch = None)
     \/ answer' = Answer("epoch_changed") /\ ~following
     \/ answer' = Answer("inactive") /\ answer = Pending /\ epoch = None
     \/ answer' = Answer("incompatible_interface") /\ answer = Pending /\ ~following
  /\ UNCHANGED <<epoch, count, following, next>>

\* Between calls the reader may move within its epoch: to the end or to the start.
Move ==
  /\ ~InCall /\ following
  /\ next' \in {0, count}
  /\ UNCHANGED <<epoch, count, following, answer>>

-----------------------------------------------------------------------------
Next ==
  \/ Open \/ Close \/ Publish
  \/ Call \/ Synchronize \/ Skip \/ Deliver \/ DeliverClosed \/ Refuse \/ Move

Safety == Init /\ [][Next]_vars
=============================================================================
