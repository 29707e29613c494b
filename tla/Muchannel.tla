----------------------------- MODULE Muchannel ------------------------------
(***************************************************************************)
(* A shared memory channel of libmuchannel: one writer, one reader, no lock *)
(* and no back channel.  Every access to a header field and to half an      *)
(* element is one step, so the reader can see the writer at any point of    *)
(* Write and Initialize, and half-written elements.  The writing subject    *)
(* may be reset at any point and starts over with Initialize.               *)
(***************************************************************************)
EXTENDS Naturals

CONSTANTS Elements,   \* capacity of the channel in elements
          MaxEpoch,   \* bound on the number of calls of Initialize
          MaxWrites   \* bound on the elements written per epoch

ASSUME BoundsAssumption ==
  /\ Elements \in Nat \ {0} /\ MaxEpoch \in Nat /\ MaxWrites \in Nat

Null_Epoch == 0
Epochs == 0 .. MaxEpoch
Counts == 0 .. MaxWrites

\* An element is the pair of its two halves; each half carries the epoch and the
\* number of the packet it belongs to.
Null_Half == <<Null_Epoch, 0>>
Null_Element == <<Null_Half, Null_Half>>
Half == Epochs \X Counts

VARIABLES
  header,   \* Header: the epoch, the interface description, WSC and WC.  The
            \*   description stands for Transport, Protocol, Size and Elements,
            \*   and is what the reader expects, something else, or absent
  data,     \* Data: the halves of the elements, two per position
  writer,   \* the writer: next step, its epoch, its interface, loop index
  reader,   \* Reader_Type
  read      \* the call of Read: next step and locals, then its results

vars == <<header, data, writer, reader, read>>

Position(count) == count % Elements
Halves == 0 .. 2 * Elements - 1

Null_Reader == [Epoch |-> Null_Epoch, RC |-> 0]

\* Zeroed memory, no call made yet.
Init ==
  /\ header = [Epoch |-> Null_Epoch, iface |-> "absent", WSC |-> 0, WC |-> 0]
  /\ data = [h \in Halves |-> Null_Half]
  /\ writer = [pc |-> "down", epoch |-> Null_Epoch, iface |-> "absent", i |-> 0]
  /\ reader = Null_Reader
  /\ read = [pc |-> "idle", epoch |-> Null_Epoch, elem |-> Null_Element,
             result |-> "inactive"]

-----------------------------------------------------------------------------
(* The writer *)

WGoto(from, to) == writer.pc = from /\ writer' = [writer EXCEPT !.pc = to]

\* Initialize, called by a new instance of the writer: the first store ends the
\* previous epoch, wherever the previous instance was stopped.  Epochs are
\* unique, as the protocol demands of the caller.
Initialize ==
  /\ writer.epoch < MaxEpoch
  /\ \E f \in {"expected", "other"} :
       writer' = [pc |-> "header", epoch |-> writer.epoch + 1, iface |-> f, i |-> 0]
  /\ header' = [header EXCEPT !.Epoch = Null_Epoch]
  /\ UNCHANGED <<data, reader, read>>

Init_Header ==
  /\ WGoto("header", "wsc")
  /\ header' = [header EXCEPT !.iface = writer.iface]
  /\ UNCHANGED <<data, reader, read>>

Init_WSC ==
  /\ WGoto("wsc", "wc")
  /\ header' = [header EXCEPT !.WSC = 0]
  /\ UNCHANGED <<data, reader, read>>

Init_WC ==
  /\ WGoto("wc", "data")
  /\ header' = [header EXCEPT !.WC = 0]
  /\ UNCHANGED <<data, reader, read>>

Init_Data ==
  /\ writer.pc = "data"
  /\ data' = [data EXCEPT ![writer.i] = Null_Half]
  /\ writer' = IF writer.i + 1 \in Halves THEN [writer EXCEPT !.i = @ + 1]
               ELSE [writer EXCEPT !.pc = "epoch", !.i = 0]
  /\ UNCHANGED <<header, reader, read>>

Init_Epoch ==
  /\ WGoto("epoch", "up")
  /\ header' = [header EXCEPT !.Epoch = writer.epoch]
  /\ UNCHANGED <<data, reader, read>>

\* Write: WSC, the two halves of the element, WC.  The writer alone changes WC.
Write ==
  /\ WGoto("up", "first")
  /\ header.WC < MaxWrites
  /\ header' = [header EXCEPT !.WSC = header.WC + 1]
  /\ UNCHANGED <<data, reader, read>>

Packet == <<writer.epoch, header.WC>>

Write_First ==
  /\ WGoto("first", "second")
  /\ data' = [data EXCEPT ![2 * Position(header.WC)] = Packet]
  /\ UNCHANGED <<header, reader, read>>

Write_Second ==
  /\ WGoto("second", "count")
  /\ data' = [data EXCEPT ![2 * Position(header.WC) + 1] = Packet]
  /\ UNCHANGED <<header, reader, read>>

\* MUTANT of Write_Count: the element is counted twice.
Write_Counts_Twice ==
  /\ WGoto("count", "up")
  /\ header' = [header EXCEPT !.WC = @ + 2]
  /\ UNCHANGED <<data, reader, read>>

Write_Count ==
  /\ WGoto("count", "up")
  /\ header' = [header EXCEPT !.WC = @ + 1]
  /\ UNCHANGED <<data, reader, read>>

Deactivate ==
  /\ WGoto("up", "down")
  /\ header' = [header EXCEPT !.Epoch = Null_Epoch]
  /\ UNCHANGED <<data, reader, read>>

Writer ==
  \/ Initialize \/ Deactivate
  \/ Init_Header \/ Init_WSC \/ Init_WC \/ Init_Data \/ Init_Epoch
  \/ Write \/ Write_First \/ Write_Second \/ Write_Count

-----------------------------------------------------------------------------
(* The reader *)

RGoto(from, to) == read.pc = from /\ read' = [read EXCEPT !.pc = to]

Return(result) == read' = [read EXCEPT !.pc = "idle", !.result = result]

\* The elaboration of Channel_Epoch; the element is cleared.
Read ==
  /\ read.pc = "idle"
  /\ read' = [read EXCEPT !.pc = "active", !.epoch = header.Epoch,
                          !.elem = Null_Element]
  /\ UNCHANGED <<header, data, writer, reader>>

\* Is_Active reads the epoch once more.
Check_Active ==
  /\ read.pc = "active"
  /\ IF header.Epoch = Null_Epoch
       THEN /\ reader' = [reader EXCEPT !.Epoch = Null_Epoch]
            /\ Return("inactive")
       ELSE /\ read' = [read EXCEPT !.pc =
                 IF reader.Epoch = Null_Epoch \/ reader.Epoch # read.epoch
                   THEN "header" ELSE "count"]
            /\ UNCHANGED reader
  /\ UNCHANGED <<header, data, writer>>

Check_Interface ==
  /\ read.pc = "header"
  /\ IF header.iface = "expected"
       THEN read' = [read EXCEPT !.pc = "sync"] /\ UNCHANGED reader
       ELSE Return("incompatible_interface") /\ reader' = Null_Reader
  /\ UNCHANGED <<header, data, writer>>

Synchronize ==
  /\ RGoto("sync", "confirm")
  /\ reader' = [Epoch |-> header.Epoch, RC |-> 0]
  /\ UNCHANGED <<header, data, writer>>

Confirm_Epoch ==
  /\ read.pc = "confirm"
  /\ IF reader.Epoch # header.Epoch THEN Return("epoch_changed")
                                    ELSE read' = [read EXCEPT !.pc = "count"]
  /\ UNCHANGED <<header, data, writer, reader>>

Check_Data ==
  /\ read.pc = "count"
  /\ IF reader.RC >= header.WC THEN Return("no_data")
                               ELSE read' = [read EXCEPT !.pc = "first"]
  /\ UNCHANGED <<header, data, writer, reader>>

Read_Half(n, from, to) ==
  /\ read.pc = from
  /\ read' = [read EXCEPT !.pc = to,
                          !.elem[n] = data[2 * Position(reader.RC) + n - 1]]
  /\ UNCHANGED <<header, data, writer, reader>>

Check_Overrun ==
  /\ read.pc = "overrun"
  /\ IF header.WSC > reader.RC + Elements
       THEN read' = [read EXCEPT !.pc = "recover"] /\ UNCHANGED reader
       ELSE /\ read' = [read EXCEPT !.pc = "final", !.result = "success"]
            /\ reader' = [reader EXCEPT !.RC = @ + 1]
  /\ UNCHANGED <<header, data, writer>>

\* MUTANT of Recover: the read counter stays where it was.
Recover_Keeps_RC ==
  /\ read.pc = "recover"
  /\ read' = [read EXCEPT !.pc = "final", !.result = "overrun_detected"]
  /\ UNCHANGED <<header, data, writer, reader>>

Recover ==
  /\ read.pc = "recover"
  /\ read' = [read EXCEPT !.pc = "final", !.result = "overrun_detected"]
  /\ reader' = [reader EXCEPT !.RC = header.WC]
  /\ UNCHANGED <<header, data, writer>>

\* MUTANT of Check_Epoch: the epoch is not compared again.
Check_Epoch_Skipped ==
  /\ read.pc = "final"
  /\ Return(read.result)
  /\ UNCHANGED <<header, data, writer, reader>>

Check_Epoch ==
  /\ read.pc = "final"
  /\ Return(IF reader.Epoch # header.Epoch THEN "epoch_changed" ELSE read.result)
  /\ UNCHANGED <<header, data, writer, reader>>

Reading ==
  \/ Read \/ Check_Active \/ Check_Interface \/ Synchronize \/ Confirm_Epoch
  \/ Check_Data \/ Read_Half(1, "first", "second") \/ Read_Half(2, "second", "overrun")
  \/ Check_Overrun \/ Recover \/ Check_Epoch

\* Drain and Reset, between reads.
Drain ==
  /\ read.pc = "idle"
  /\ reader' = [reader EXCEPT !.RC = header.WC]
  /\ UNCHANGED <<header, data, writer, read>>

Reset ==
  /\ read.pc = "idle"
  /\ reader' = [reader EXCEPT !.RC = 0]
  /\ UNCHANGED <<header, data, writer, read>>

-----------------------------------------------------------------------------
Next == Writer \/ Reading \/ Drain \/ Reset

Safety == Init /\ [][Next]_vars

\* The reader polls; the writer owes nothing and may stop anywhere.  A reader
\* that rewound its counter for ever would never get through the channel.
Spec == Safety /\ WF_vars(Reading) /\ <>[][~Reset]_vars

-----------------------------------------------------------------------------
(* Properties *)

Interfaces == {"absent", "expected", "other"}
Headers == [Epoch : Epochs, iface : Interfaces, WSC : Counts, WC : Counts]
Writers == [pc : {"down", "header", "wsc", "wc", "data", "epoch", "up", "first",
                  "second", "count"},
            epoch : Epochs, iface : Interfaces, i : Halves]
Readers == [Epoch : Epochs, RC : Counts]
Reads == [pc : {"idle", "active", "header", "sync", "confirm", "count", "first",
                "second", "overrun", "recover", "final"},
          epoch : Epochs, elem : [1 .. 2 -> Half],
          result : {"inactive", "incompatible_interface", "epoch_changed",
                    "no_data", "overrun_detected", "success"}]

\* Every variable keeps its type; the counters stay within the bounds.
TypeOK ==
  /\ header \in Headers
  /\ data \in [Halves -> Half]
  /\ writer \in Writers
  /\ reader \in Readers
  /\ read \in Reads

\* In an active epoch the counters keep their order, and the reader that follows
\* the epoch is never ahead of it (a protocol error in doc/shmstream), not even
\* after Drain, Reset or an overrun.
CountersOrdered ==
  header.Epoch # Null_Epoch =>
    /\ header.WC <= header.WSC /\ header.WSC <= header.WC + 1
    /\ reader.Epoch = header.Epoch => reader.RC <= header.WC

Published == {"up", "first", "second", "count"}
Initializing == {"header", "wsc", "wc", "data", "epoch"}

\* The header as the writer leaves it at each of its steps: the epoch is published
\* only behind the last store of Initialize, and WSC announces a write before the
\* element is touched.
WriterPhases ==
  /\ header.Epoch = IF writer.pc \in Published THEN writer.epoch ELSE Null_Epoch
  /\ writer.pc \in Published \cup Initializing => writer.epoch > 0
  /\ writer.pc \in {"wc", "data", "epoch"} => header.WSC = 0
  /\ writer.pc \in {"data", "epoch"} => header.WC = 0
  /\ writer.pc = "up" => header.WSC = header.WC
  /\ writer.pc \in Published \ {"up"} => header.WSC = header.WC + 1

\* The reader follows the channel: the epoch it synchronized with is the current one.
Follows == reader.Epoch # Null_Epoch /\ reader.Epoch = header.Epoch

Probing == {"first", "second", "overrun"}

\* The reader never holds an epoch that the writer has yet to publish, so that an
\* epoch it lost never comes back; the counter it reads from is below WC, it recovers
\* only when a whole channel behind, and it is about to synchronize only when the
\* epoch is another.
ReaderPhases ==
  /\ reader.Epoch <= writer.epoch
  /\ writer.pc \in Initializing => reader.Epoch < writer.epoch
  /\ read.pc \in Probing => reader.RC < MaxWrites
  /\ Follows /\ read.pc \in Probing => reader.RC < header.WC
  /\ Follows /\ read.pc = "recover" => reader.RC + Elements <= header.WC
  /\ read.pc = "final" => read.result \in {"success", "overrun_detected"}
  /\ Follows => read.pc \notin {"header", "sync"}
  /\ Follows /\ read.pc = "active" => reader.Epoch = read.epoch

\* A packet that no announced write reaches is whole in the channel, and the packet
\* being written is there as far as the writer got.
PacketsWhole ==
  writer.pc \in Published =>
    /\ \A n \in Counts :
         n < header.WC /\ header.WSC <= n + Elements =>
           /\ data[2 * Position(n)] = <<writer.epoch, n>>
           /\ data[2 * Position(n) + 1] = <<writer.epoch, n>>
    /\ writer.pc \in {"second", "count"} => data[2 * Position(header.WC)] = Packet
    /\ writer.pc = "count" => data[2 * Position(header.WC) + 1] = Packet

\* What the reader copied is the packet it is after, as long as the writer has not
\* announced a write to its place; once WSC was checked, it is for good.
CopiedWhole ==
  Follows =>
    /\ header.WSC <= reader.RC + Elements =>
         /\ read.pc \in {"second", "overrun"} => read.elem[1] = <<reader.Epoch, reader.RC>>
         /\ read.pc = "overrun" => read.elem[2] = <<reader.Epoch, reader.RC>>
    /\ read.pc = "final" /\ read.result = "success" =>
         /\ read.elem[1] = <<reader.Epoch, reader.RC - 1>>
         /\ read.elem[2] = <<reader.Epoch, reader.RC - 1>>

\* The channel stays sound at every step of its two users: the counters keep their
\* order, and neither the packets in the channel nor the copy of the reader is torn.
ChannelInv ==
  /\ TypeOK /\ CountersOrdered
  /\ WriterPhases /\ ReaderPhases /\ PacketsWhole /\ CopiedWhole

Returns(result) == read.pc = "final" /\ read'.pc = "idle" /\ read'.result = result

\* What Read delivers from an epoch is the packet with the reader's number, whole
\* and of that epoch: never a torn, overwritten or cleared element or one of
\* another writer instance, wherever the writer was interrupted.
ReadCorrect ==
  [][Returns("success") /\ reader.Epoch # Null_Epoch =>
       LET p == <<reader.Epoch, reader.RC - 1>> IN read.elem = <<p, p>>]_vars

\* The channel that its users may think of: closed unless an epoch is published, with
\* the packets that were counted.
Published_Count == IF header.Epoch = Null_Epoch THEN 0 ELSE header.WC

\* An element is delivered when Read returns, not when the counter is raised.
Unreturned == read.pc = "final" /\ read.result = "success"
Place == IF ~Follows THEN 0 ELSE IF Unreturned THEN reader.RC - 1 ELSE reader.RC

\* The call as its caller sees it; the packets of an overrun are skipped within it.
Response ==
  CASE read.pc = "idle" /\ read.result = "success" ->
         [result |-> "success", elem |-> read.elem]
    [] read.pc = "idle" /\ read.result # "success" -> [result |-> read.result]
    [] read.pc = "final" /\ read.result = "overrun_detected" -> [result |-> "skipped"]
    [] OTHER -> [result |-> "pending"]

Abstract == INSTANCE AbstractChannel WITH
  None <- Null_Epoch, Contents <- [1 .. 2 -> Half], epoch <- header.Epoch,
  count <- Published_Count, following <- Follows, next <- Place, answer <- Response

\* The lock-free channel is the channel of AbstractChannel, with packets published and
\* delivered at once: the reader that follows an epoch gets its packets in order, each
\* once and whole, and loses one only with the overrun reported, wherever the writer
\* is interrupted between its stores and the reader between its loads.
Refinement == Abstract!Safety

\* A reader that polls catches up: with every interruption of the writer, every
\* overrun and every change of epoch behind it, it has read or skipped all there
\* is, unless the channel is inactive or has another protocol.
CatchesUp ==
  []<>(\/ header.Epoch = Null_Epoch
       \/ header.iface # "expected"
       \/ reader.Epoch = header.Epoch /\ reader.RC = header.WC)

\* doc/shmstream: data is valid only if the reader can assure that the epoch is
\* not zero.
DeliveredFromEpoch == [][Returns("success") => reader.Epoch # Null_Epoch]_vars
=============================================================================
