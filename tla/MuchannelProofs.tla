-------------------------- MODULE MuchannelProofs ---------------------------
(***************************************************************************)
(* Proofs about the channel, for every capacity and every bound on the      *)
(* epochs and the writes: the invariant of the channel and what Read        *)
(* delivers.                                                                *)
(***************************************************************************)
EXTENDS Muchannel, TLAPS

USE BoundsAssumption

\* Every count has a place in the channel.
LEMMA PositionType ==
  ASSUME NEW n \in Nat
  PROVE  /\ Position(n) \in 0 .. Elements - 1
         /\ 2 * Position(n) \in Halves
         /\ 2 * Position(n) + 1 \in Halves
<1>1. Position(n) \in 0 .. Elements - 1
  BY DEF Position
<1> HIDE DEF Position
<1> QED
  BY <1>1 DEF Halves

\* Counts that are less than the capacity apart have different places.
LEMMA PositionsDiffer ==
  ASSUME NEW n \in Nat, NEW m \in Nat, n < m, m < n + Elements
  PROVE  Position(n) # Position(m)
<1> DEFINE q == n \div Elements
           r == m \div Elements
<1>1. /\ q \in Nat /\ r \in Nat
      /\ n = Elements * q + (n % Elements)
      /\ m = Elements * r + (m % Elements)
  OBVIOUS
<1> SUFFICES ASSUME n % Elements = m % Elements PROVE FALSE
  BY DEF Position
<1>2. m - n = Elements * (r - q)
  BY <1>1
<1> HIDE DEF q, r
<1>3. r - q >= 1
  BY <1>1, <1>2
<1>4. Elements * (r - q) >= Elements
  BY <1>1, <1>3
<1> QED
  BY <1>2, <1>4
USE DEF Null_Epoch, Published, Initializing, Probing

\* Zeroed memory is a sound channel.
LEMMA InitInv == Init => ChannelInv
<1> SUFFICES ASSUME Init PROVE ChannelInv
  OBVIOUS
<1>1. TypeOK
  BY DEF Init, TypeOK, Headers, Writers, Readers, Reads, Interfaces, Halves, Half,
         Epochs, Counts, Null_Half, Null_Element, Null_Reader
<1> QED
  BY <1>1 DEF Init, ChannelInv, CountersOrdered, WriterPhases, ReaderPhases,
              PacketsWhole, CopiedWhole, Follows, Null_Reader

-----------------------------------------------------------------------------
(* The steps of the writer *)

\* The types that the reasoning about the counters needs.
LEMMA CounterTypes ==
  ASSUME TypeOK
  PROVE  /\ header.WSC \in Nat /\ header.WC \in Nat /\ header.Epoch \in Nat
         /\ writer.epoch \in Nat /\ reader.RC \in Nat /\ reader.Epoch \in Nat
  BY DEF TypeOK, Headers, Writers, Readers, Epochs, Counts

\* A step that ends the epoch, or comes before the new one is published, leaves the
\* reader without an epoch to follow.
LEMMA NotFollowing ==
  ASSUME TypeOK', WriterPhases', ReaderPhases, header'.Epoch = Null_Epoch,
         UNCHANGED <<reader, read>>
  PROVE  CountersOrdered' /\ CopiedWhole'
  BY DEF CountersOrdered, CopiedWhole, Follows

\* A writer that does not touch the epoch only raises WSC, which the reader checks.
LEMMA SameEpoch ==
  ASSUME ChannelInv, TypeOK', WriterPhases', header'.Epoch = header.Epoch,
         header'.WSC >= header.WSC, header'.WC >= header.WC,
         UNCHANGED <<reader, read>>
  PROVE  CountersOrdered' /\ CopiedWhole'
<1> USE DEF ChannelInv
<1>1. header'.WSC \in Nat /\ header'.WC \in Nat
  BY DEF TypeOK, Headers, Counts
<1>2. CountersOrdered'
  BY <1>1, CounterTypes DEF CountersOrdered, WriterPhases
<1>3. CopiedWhole'
  BY <1>1, CounterTypes, BoundsAssumption DEF CopiedWhole, Follows
<1> QED BY <1>2, <1>3

\* The first store of Initialize ends the previous epoch.
LEMMA InitializeInv ==
  ASSUME ChannelInv, Initialize
  PROVE  ChannelInv'
<1> USE DEF ChannelInv
<1>1. PICK f \in {"expected", "other"} :
        writer' = [pc |-> "header", epoch |-> writer.epoch + 1, iface |-> f, i |-> 0]
  BY DEF Initialize
<1>2. TypeOK'
  <2>1. writer.epoch + 1 \in Epochs /\ 0 \in Halves /\ 0 \in Epochs
    BY DEF Initialize, TypeOK, Writers, Epochs, Halves
  <2>2. writer' \in Writers
    BY <1>1, <2>1 DEF Writers, Interfaces
  <2>3. header' \in Headers
    BY <2>1 DEF Initialize, TypeOK, Headers
  <2> QED BY <2>2, <2>3 DEF Initialize, TypeOK
<1>3. header'.Epoch = Null_Epoch
  BY DEF Initialize, TypeOK, Headers
<1>4. WriterPhases' /\ ReaderPhases' /\ PacketsWhole'
  BY <1>1, <1>3, CounterTypes DEF Initialize, WriterPhases, ReaderPhases, PacketsWhole,
                            Follows, TypeOK, Headers
<1>5. CountersOrdered' /\ CopiedWhole'
  BY <1>2, <1>3, <1>4, NotFollowing DEF Initialize
<1> QED BY <1>2, <1>4, <1>5

\* The interface is described while no epoch is published.
LEMMA Init_HeaderInv ==
  ASSUME ChannelInv, Init_Header
  PROVE  ChannelInv'
<1> USE DEF ChannelInv, Init_Header, WGoto
<1>1. TypeOK'
  BY DEF TypeOK, Headers, Writers, Interfaces, Epochs, Counts
<1>2. header'.Epoch = Null_Epoch
  BY DEF WriterPhases, TypeOK, Headers
<1>3. WriterPhases' /\ ReaderPhases' /\ PacketsWhole'
  BY <1>2 DEF WriterPhases, ReaderPhases, PacketsWhole, Follows, TypeOK, Headers, Writers
<1>4. CountersOrdered' /\ CopiedWhole'
  BY <1>1, <1>2, <1>3, NotFollowing
<1> QED BY <1>1, <1>3, <1>4

\* WSC is cleared ...
LEMMA Init_WSCInv ==
  ASSUME ChannelInv, Init_WSC
  PROVE  ChannelInv'
<1> USE DEF ChannelInv, Init_WSC, WGoto
<1>1. TypeOK'
  BY DEF TypeOK, Headers, Writers, Interfaces, Epochs, Counts
<1>2. header'.Epoch = Null_Epoch
  BY DEF WriterPhases, TypeOK, Headers
<1>3. WriterPhases' /\ ReaderPhases' /\ PacketsWhole'
  BY <1>2 DEF WriterPhases, ReaderPhases, PacketsWhole, Follows, TypeOK, Headers, Writers
<1>4. CountersOrdered' /\ CopiedWhole'
  BY <1>1, <1>2, <1>3, NotFollowing
<1> QED BY <1>1, <1>3, <1>4

\* ... and so is WC.
LEMMA Init_WCInv ==
  ASSUME ChannelInv, Init_WC
  PROVE  ChannelInv'
<1> USE DEF ChannelInv, Init_WC, WGoto
<1>1. TypeOK'
  BY DEF TypeOK, Headers, Writers, Interfaces, Epochs, Counts
<1>2. header'.Epoch = Null_Epoch
  BY DEF WriterPhases, TypeOK, Headers
<1>3. WriterPhases' /\ ReaderPhases' /\ PacketsWhole'
  BY <1>2 DEF WriterPhases, ReaderPhases, PacketsWhole, Follows, TypeOK, Headers, Writers
<1>4. CountersOrdered' /\ CopiedWhole'
  BY <1>1, <1>2, <1>3, NotFollowing
<1> QED BY <1>1, <1>3, <1>4

\* The writer retracts the epoch.
LEMMA DeactivateInv ==
  ASSUME ChannelInv, Deactivate
  PROVE  ChannelInv'
<1> USE DEF ChannelInv, Deactivate, WGoto
<1>1. TypeOK'
  BY DEF TypeOK, Headers, Writers, Interfaces, Epochs, Counts
<1>2. header'.Epoch = Null_Epoch
  BY DEF WriterPhases, TypeOK, Headers
<1>3. WriterPhases' /\ ReaderPhases' /\ PacketsWhole'
  BY <1>2 DEF WriterPhases, ReaderPhases, PacketsWhole, Follows, TypeOK, Headers, Writers
<1>4. CountersOrdered' /\ CopiedWhole'
  BY <1>1, <1>2, <1>3, NotFollowing
<1> QED BY <1>1, <1>3, <1>4

\* The elements are cleared while no epoch is published.
LEMMA Init_DataInv ==
  ASSUME ChannelInv, Init_Data
  PROVE  ChannelInv'
<1> USE DEF ChannelInv, Init_Data
<1>1. TypeOK'
  <2>1. Null_Half \in Half /\ 0 \in Halves
    BY DEF Null_Half, Half, Epochs, Counts, Halves
  <2>2. data' \in [Halves -> Half]
    BY <2>1 DEF TypeOK
  <2>3. writer' \in Writers
    BY <2>1 DEF TypeOK, Writers
  <2> QED BY <2>2, <2>3 DEF TypeOK
<1>2. /\ header'.Epoch = Null_Epoch
      /\ writer'.pc \in {"data", "epoch"} /\ writer'.epoch = writer.epoch
  BY DEF WriterPhases, TypeOK, Writers
<1>3. WriterPhases' /\ ReaderPhases' /\ PacketsWhole'
  BY <1>2 DEF WriterPhases, ReaderPhases, PacketsWhole, Follows
<1>4. CountersOrdered' /\ CopiedWhole'
  BY <1>1, <1>2, <1>3, NotFollowing
<1> QED BY <1>1, <1>3, <1>4

\* The epoch is published: no reader has it yet, and there is no packet yet.
LEMMA Init_EpochInv ==
  ASSUME ChannelInv, Init_Epoch
  PROVE  ChannelInv'
<1> USE DEF ChannelInv, Init_Epoch, WGoto
<1>1. TypeOK'
  BY DEF TypeOK, Headers, Writers
<1>2. /\ header'.Epoch = writer.epoch /\ header'.WSC = 0 /\ header'.WC = 0
      /\ writer'.pc = "up" /\ writer'.epoch = writer.epoch
  BY DEF WriterPhases, TypeOK, Headers, Writers
<1>3. reader.Epoch # header'.Epoch
  BY <1>2, CounterTypes DEF ReaderPhases
<1>4. WriterPhases' /\ ReaderPhases'
  BY <1>2, <1>3, CounterTypes DEF WriterPhases, ReaderPhases, Follows
<1>5. PacketsWhole'
  BY <1>2, CounterTypes DEF PacketsWhole, Counts
<1>6. CountersOrdered' /\ CopiedWhole'
  BY <1>2, <1>3 DEF CountersOrdered, CopiedWhole, Follows
<1> QED BY <1>1, <1>4, <1>5, <1>6

\* WSC announces the write; the packet it will overwrite is no longer counted on.
LEMMA WriteInv ==
  ASSUME ChannelInv, Write
  PROVE  ChannelInv'
<1> USE DEF ChannelInv, Write, WGoto
<1>1. TypeOK'
  BY DEF TypeOK, Headers, Writers, Counts
<1>2. /\ header'.Epoch = header.Epoch /\ header'.WSC = header.WC + 1
      /\ header'.WC = header.WC /\ header.WSC = header.WC
      /\ writer'.pc = "first" /\ writer'.epoch = writer.epoch
  BY DEF WriterPhases, TypeOK, Headers, Writers
<1>3. WriterPhases' /\ ReaderPhases'
  BY <1>2, CounterTypes DEF WriterPhases, ReaderPhases, Follows
<1>4. PacketsWhole'
  BY <1>2, CounterTypes DEF PacketsWhole, Counts
<1>5. CountersOrdered' /\ CopiedWhole'
  BY <1>1, <1>2, <1>3, CounterTypes, SameEpoch
<1> QED BY <1>1, <1>3, <1>4, <1>5

\* A half of the announced element is stored.  It has a place of its own among the
\* packets that are still counted on.
LEMMA HalfElsewhere ==
  ASSUME ChannelInv, writer.pc \in {"first", "second"},
         NEW n \in Counts, n < header.WC, header.WSC <= n + Elements
  PROVE  Position(n) # Position(header.WC)
<1>1. n < header.WC /\ header.WC < n + Elements /\ n \in Nat /\ header.WC \in Nat
  BY CounterTypes DEF ChannelInv, WriterPhases, Counts
<1> QED
  BY <1>1, PositionsDiffer

\* The first half of the element is written, to a place that was announced.
LEMMA Write_FirstInv ==
  ASSUME ChannelInv, Write_First
  PROVE  ChannelInv'
<1> USE DEF ChannelInv, Write_First, WGoto
<1>0. Packet \in Half
  BY DEF Packet, Half, TypeOK, Headers, Writers
<1>1. TypeOK'
  BY <1>0 DEF TypeOK, Writers
<1>2. writer'.pc = "second" /\ writer'.epoch = writer.epoch /\ header' = header
  BY DEF TypeOK, Writers
<1>3. WriterPhases' /\ ReaderPhases'
  BY <1>2 DEF WriterPhases, ReaderPhases, Follows
<1>4. PacketsWhole'
  <2>1. 2 * Position(header.WC) \in Halves
    BY CounterTypes, PositionType
  <2>2. data'[2 * Position(header.WC)] = Packet
    BY <2>1 DEF TypeOK
  <2>3. ASSUME NEW n \in Counts, n < header.WC, header.WSC <= n + Elements
        PROVE  /\ data'[2 * Position(n)] = data[2 * Position(n)]
               /\ data'[2 * Position(n) + 1] = data[2 * Position(n) + 1]
    <3>1. Position(n) # Position(header.WC)
      BY <2>3, HalfElsewhere
    <3>2. /\ Position(n) \in Nat /\ Position(header.WC) \in Nat
          /\ 2 * Position(n) \in Halves /\ 2 * Position(n) + 1 \in Halves
      BY CounterTypes, PositionType DEF Counts
    <3> QED BY <3>1, <3>2 DEF TypeOK
  <2> QED BY <1>2, <2>2, <2>3 DEF PacketsWhole, Packet
<1>5. CountersOrdered' /\ CopiedWhole'
  BY <1>1, <1>2, <1>3, CounterTypes, SameEpoch
<1> QED BY <1>1, <1>3, <1>4, <1>5

\* The second half is written.
LEMMA Write_SecondInv ==
  ASSUME ChannelInv, Write_Second
  PROVE  ChannelInv'
<1> USE DEF ChannelInv, Write_Second, WGoto
<1>0. Packet \in Half
  BY DEF Packet, Half, TypeOK, Headers, Writers
<1>1. TypeOK'
  BY <1>0 DEF TypeOK, Writers
<1>2. writer'.pc = "count" /\ writer'.epoch = writer.epoch /\ header' = header
  BY DEF TypeOK, Writers
<1>3. WriterPhases' /\ ReaderPhases'
  BY <1>2 DEF WriterPhases, ReaderPhases, Follows
<1>4. PacketsWhole'
  <2>0. Position(header.WC) \in Nat
    BY CounterTypes, PositionType
  <2>1. 2 * Position(header.WC) \in Halves /\ 2 * Position(header.WC) + 1 \in Halves
    BY CounterTypes, PositionType
  <2>2. /\ data'[2 * Position(header.WC)] = Packet
        /\ data'[2 * Position(header.WC) + 1] = Packet
    BY <2>0, <2>1 DEF TypeOK, PacketsWhole
  <2>3. ASSUME NEW n \in Counts, n < header.WC, header.WSC <= n + Elements
        PROVE  /\ data'[2 * Position(n)] = data[2 * Position(n)]
               /\ data'[2 * Position(n) + 1] = data[2 * Position(n) + 1]
    <3>1. Position(n) # Position(header.WC)
      BY <2>3, HalfElsewhere
    <3>2. /\ Position(n) \in Nat
          /\ 2 * Position(n) \in Halves /\ 2 * Position(n) + 1 \in Halves
      BY PositionType DEF Counts
    <3> QED BY <2>0, <3>1, <3>2 DEF TypeOK
  <2> QED BY <1>2, <2>2, <2>3 DEF PacketsWhole, Packet
<1>5. CountersOrdered' /\ CopiedWhole'
  BY <1>1, <1>2, <1>3, CounterTypes, SameEpoch
<1> QED BY <1>1, <1>3, <1>4, <1>5

\* The element is counted: it is whole by now.
LEMMA Write_CountInv ==
  ASSUME ChannelInv, Write_Count
  PROVE  ChannelInv'
<1> USE DEF ChannelInv, Write_Count, WGoto
<1>1. /\ header'.Epoch = header.Epoch /\ header'.WSC = header.WSC
      /\ header'.WC = header.WC + 1 /\ header.WSC = header.WC + 1
      /\ writer'.pc = "up" /\ writer'.epoch = writer.epoch
  BY DEF WriterPhases, TypeOK, Headers, Writers
<1>2. TypeOK'
  <2>1. header.WC + 1 \in Counts
    BY <1>1 DEF TypeOK, Headers
  <2>2. header' \in Headers
    BY <2>1 DEF TypeOK, Headers
  <2>3. writer' \in Writers
    BY DEF TypeOK, Writers
  <2> QED BY <2>2, <2>3 DEF TypeOK
<1>3. WriterPhases' /\ ReaderPhases'
  BY <1>1, CounterTypes DEF WriterPhases, ReaderPhases, Follows
<1>4. PacketsWhole'
  <2>1. ASSUME NEW n \in Counts, n < header.WC + 1, header.WSC <= n + Elements
        PROVE  /\ data[2 * Position(n)] = <<writer.epoch, n>>
               /\ data[2 * Position(n) + 1] = <<writer.epoch, n>>
    <3>1. CASE n < header.WC
      BY <2>1, <3>1 DEF PacketsWhole
    <3>2. CASE n = header.WC
      BY <3>2 DEF PacketsWhole, Packet
    <3> QED BY <2>1, <3>1, <3>2, CounterTypes DEF Counts
  <2> QED BY <1>1, <2>1 DEF PacketsWhole
<1>5. CountersOrdered' /\ CopiedWhole'
  BY <1>1, <1>2, <1>3, CounterTypes, SameEpoch
<1> QED BY <1>2, <1>3, <1>4, <1>5

-----------------------------------------------------------------------------
(* The steps of the reader *)

\* The reader writes nothing into the channel.
LEMMA ReaderLeaves ==
  ASSUME ChannelInv, UNCHANGED <<header, data, writer>>
  PROVE  WriterPhases' /\ PacketsWhole'
<1>1. WriterPhases'
  BY DEF ChannelInv, WriterPhases
<1>2. PacketsWhole' <=> PacketsWhole
  BY DEF PacketsWhole, Packet
<1> QED BY <1>1, <1>2 DEF ChannelInv

\* A read begins with the epoch of the channel.
LEMMA ReadInv ==
  ASSUME ChannelInv, Read
  PROVE  ChannelInv'
<1> USE DEF ChannelInv, Read, RGoto, Return
<1>1. TypeOK'
  <2>1. Null_Element \in [1 .. 2 -> Half]
    BY DEF Null_Element, Null_Half, Half, Epochs, Counts
  <2>2. read' \in Reads
    BY <2>1 DEF TypeOK, Headers, Reads
  <2> QED BY <2>2 DEF TypeOK
<1>2. WriterPhases' /\ PacketsWhole'
  BY ReaderLeaves
<1>3. ReaderPhases' /\ CountersOrdered' /\ CopiedWhole'
  BY CounterTypes DEF ReaderPhases, WriterPhases, CountersOrdered, CopiedWhole, Follows,
                      TypeOK, Reads
<1> QED BY <1>1, <1>2, <1>3

\* An inactive channel leaves the reader without an epoch.
LEMMA Check_ActiveInv ==
  ASSUME ChannelInv, Check_Active
  PROVE  ChannelInv'
<1> USE DEF ChannelInv, Check_Active, RGoto, Return
<1>1. TypeOK'
  BY DEF TypeOK, Headers, Readers, Reads
<1>2. WriterPhases' /\ PacketsWhole'
  BY ReaderLeaves
<1>3. CASE header.Epoch = Null_Epoch
  <2>1. reader'.Epoch = Null_Epoch /\ read'.pc = "idle" /\ reader'.RC = reader.RC
    BY <1>3 DEF TypeOK, Readers, Reads
  <2>2. ReaderPhases' /\ CountersOrdered' /\ CopiedWhole'
    BY <1>3, <2>1, CounterTypes DEF ReaderPhases, WriterPhases, CountersOrdered,
                                    CopiedWhole, Follows
  <2> QED BY <1>1, <1>2, <2>2
<1>4. CASE header.Epoch # Null_Epoch
  <2>1. /\ read'.pc \in {"header", "count"} /\ UNCHANGED reader
        /\ read'.pc = "header" => reader.Epoch = Null_Epoch \/ reader.Epoch # read.epoch
    BY <1>4 DEF TypeOK, Reads
  <2>2. ReaderPhases' /\ CountersOrdered' /\ CopiedWhole'
    BY <2>1, CounterTypes DEF ReaderPhases, CountersOrdered, CopiedWhole, Follows
  <2> QED BY <1>1, <1>2, <2>2
<1> QED BY <1>3, <1>4

\* So does a channel with another interface.
LEMMA Check_InterfaceInv ==
  ASSUME ChannelInv, Check_Interface
  PROVE  ChannelInv'
<1> USE DEF ChannelInv, Check_Interface, RGoto, Return
<1>1. TypeOK'
  <2>1. Null_Reader \in Readers
    BY DEF Null_Reader, Readers, Epochs, Counts
  <2> QED BY <2>1 DEF TypeOK, Reads
<1>2. WriterPhases' /\ PacketsWhole'
  BY ReaderLeaves
<1>3. CASE header.iface # "expected"
  <2>0. reader' = Null_Reader
    BY <1>3
  <2>1. reader'.Epoch = Null_Epoch /\ read'.pc = "idle" /\ reader'.RC = 0
    BY <1>3, <2>0 DEF TypeOK, Reads, Null_Reader
  <2>2. ReaderPhases' /\ CountersOrdered' /\ CopiedWhole'
    BY <2>1, CounterTypes DEF ReaderPhases, WriterPhases, CountersOrdered, CopiedWhole,
                              Follows
  <2> QED BY <1>1, <1>2, <2>2
<1>4. CASE header.iface = "expected"
  <2>1. read'.pc = "sync" /\ UNCHANGED reader
    BY <1>4 DEF TypeOK, Reads
  <2>2. ReaderPhases' /\ CountersOrdered' /\ CopiedWhole'
    BY <2>1, CounterTypes DEF ReaderPhases, CountersOrdered, CopiedWhole, Follows
  <2> QED BY <1>1, <1>2, <2>2
<1> QED BY <1>3, <1>4

\* The reader takes the epoch of the channel, before any packet of it.
LEMMA SynchronizeInv ==
  ASSUME ChannelInv, Synchronize
  PROVE  ChannelInv'
<1> USE DEF ChannelInv, Synchronize, RGoto, Return
<1>1. TypeOK'
  <2>1. reader' \in Readers
    BY DEF TypeOK, Headers, Readers, Counts
  <2>2. read' \in Reads
    BY DEF TypeOK, Reads
  <2> QED BY <2>1, <2>2 DEF TypeOK
<1>2. WriterPhases' /\ PacketsWhole'
  BY ReaderLeaves
<1>3. ReaderPhases' /\ CountersOrdered' /\ CopiedWhole'
  BY CounterTypes DEF ReaderPhases, WriterPhases, CountersOrdered, CopiedWhole, Follows,
                      TypeOK, Headers, Reads
<1> QED BY <1>1, <1>2, <1>3

\* The epoch is confirmed.
LEMMA Confirm_EpochInv ==
  ASSUME ChannelInv, Confirm_Epoch
  PROVE  ChannelInv'
<1> USE DEF ChannelInv, Confirm_Epoch, RGoto, Return
<1>1. TypeOK'
  BY DEF TypeOK, Headers, Readers, Reads
<1>2. WriterPhases' /\ PacketsWhole'
  BY ReaderLeaves
<1>3. ReaderPhases' /\ CountersOrdered' /\ CopiedWhole'
  BY CounterTypes DEF ReaderPhases, WriterPhases, CountersOrdered, CopiedWhole, Follows, TypeOK, Headers, Readers, Reads
<1> QED BY <1>1, <1>2, <1>3

\* There is a packet to read when the counter is below WC.
LEMMA Check_DataInv ==
  ASSUME ChannelInv, Check_Data
  PROVE  ChannelInv'
<1> USE DEF ChannelInv, Check_Data, RGoto, Return
<1>1. TypeOK'
  BY DEF TypeOK, Headers, Readers, Reads
<1>2. WriterPhases' /\ PacketsWhole'
  BY ReaderLeaves
<1>3. CASE reader.RC >= header.WC
  <2>1. read'.pc = "idle"
    BY <1>3 DEF TypeOK, Reads
  <2> QED BY <1>1, <1>2, <2>1 DEF ReaderPhases, CountersOrdered, CopiedWhole, Follows
<1>4. CASE reader.RC < header.WC
  <2>1. read'.pc = "first"
    BY <1>4, CounterTypes DEF TypeOK, Reads
  <2>2. reader.RC < MaxWrites
    BY <1>4 DEF TypeOK, Headers, Readers, Counts
  <2> QED BY <1>1, <1>2, <1>4, <2>1, <2>2
          DEF ReaderPhases, CountersOrdered, CopiedWhole, Follows
<1> QED BY <1>3, <1>4, CounterTypes

\* What the reader finds at the place of its packet is the packet, while no announced
\* write reaches it.
LEMMA PacketFound ==
  ASSUME ChannelInv, Follows, read.pc \in Probing, header.WSC <= reader.RC + Elements
  PROVE  /\ data[2 * Position(reader.RC)] = <<reader.Epoch, reader.RC>>
         /\ data[2 * Position(reader.RC) + 1] = <<reader.Epoch, reader.RC>>
<1>1. writer.pc \in Published /\ reader.Epoch = writer.epoch
  BY DEF ChannelInv, Follows, WriterPhases
<1>2. reader.RC \in Counts /\ reader.RC < header.WC
  BY DEF ChannelInv, TypeOK, Readers, ReaderPhases
<1> QED BY <1>1, <1>2 DEF ChannelInv, PacketsWhole

\* The reader copies one half of the element ...
LEMMA Read_FirstInv ==
  ASSUME ChannelInv, Read_Half(1, "first", "second")
  PROVE  ChannelInv'
<1> USE DEF ChannelInv
<1>1. data[2 * Position(reader.RC)] \in Half
  BY CounterTypes, PositionType DEF TypeOK
<1>0. 2 * Position(reader.RC) + 1 - 1 = 2 * Position(reader.RC)
  BY CounterTypes, PositionType
<1>2. /\ read.pc = "first" /\ UNCHANGED <<header, data, writer, reader>>
      /\ read' = [read EXCEPT !.pc = "second", !.elem[1] = data[2 * Position(reader.RC)]]
  BY <1>0 DEF Read_Half
<1>3. /\ read' \in Reads /\ read'.pc = "second"
      /\ read'.elem[1] = data[2 * Position(reader.RC)]
  <2> DEFINE copied == [read.elem EXCEPT ![1] = data[2 * Position(reader.RC)]]
  <2>1. read.elem \in [1 .. 2 -> Half] /\ read \in Reads
    BY DEF TypeOK, Reads
  <2>2. /\ copied \in [1 .. 2 -> Half] /\ copied[1] = data[2 * Position(reader.RC)]
        /\ copied[2] = read.elem[2]
    BY <1>1, <2>1
  <2>3. read' = [read EXCEPT !.pc = "second", !.elem = copied]
    BY <1>2
  <2> HIDE DEF copied
  <2>4. read' \in Reads
    BY <2>1, <2>2, <2>3 DEF Reads
  <2>5. read'.elem = copied /\ read'.pc = "second"
    BY <2>1, <2>3 DEF Reads
  <2> QED BY <2>2, <2>4, <2>5
<1>4. TypeOK'
  BY <1>2, <1>3 DEF TypeOK
<1>5. WriterPhases' /\ PacketsWhole'
  BY <1>2, ReaderLeaves
<1>6. ReaderPhases' /\ CountersOrdered'
  BY <1>2, <1>3 DEF ReaderPhases, CountersOrdered, Follows
<1>7. CopiedWhole'
  BY <1>2, <1>3, PacketFound DEF CopiedWhole, Follows
<1> QED BY <1>4, <1>5, <1>6, <1>7

\* ... and then the other.
LEMMA Read_SecondInv ==
  ASSUME ChannelInv, Read_Half(2, "second", "overrun")
  PROVE  ChannelInv'
<1> USE DEF ChannelInv
<1>1. data[2 * Position(reader.RC) + 1] \in Half
  BY CounterTypes, PositionType DEF TypeOK
<1>0. 2 * Position(reader.RC) + 2 - 1 = 2 * Position(reader.RC) + 1
  BY CounterTypes, PositionType
<1>2. /\ read.pc = "second" /\ UNCHANGED <<header, data, writer, reader>>
      /\ read' = [read EXCEPT !.pc = "overrun", !.elem[2] = data[2 * Position(reader.RC) + 1]]
  BY <1>0 DEF Read_Half
<1>3. /\ read' \in Reads /\ read'.pc = "overrun"
      /\ read'.elem[2] = data[2 * Position(reader.RC) + 1]
      /\ read'.elem[1] = read.elem[1]
  <2> DEFINE copied == [read.elem EXCEPT ![2] = data[2 * Position(reader.RC) + 1]]
  <2>1. read.elem \in [1 .. 2 -> Half] /\ read \in Reads
    BY DEF TypeOK, Reads
  <2>2. /\ copied \in [1 .. 2 -> Half] /\ copied[2] = data[2 * Position(reader.RC) + 1]
        /\ copied[1] = read.elem[1]
    BY <1>1, <2>1
  <2>3. read' = [read EXCEPT !.pc = "overrun", !.elem = copied]
    BY <1>2
  <2> HIDE DEF copied
  <2>4. read' \in Reads
    BY <2>1, <2>2, <2>3 DEF Reads
  <2>5. read'.elem = copied /\ read'.pc = "overrun"
    BY <2>1, <2>3 DEF Reads
  <2> QED BY <2>2, <2>4, <2>5
<1>4. TypeOK'
  BY <1>2, <1>3 DEF TypeOK
<1>5. WriterPhases' /\ PacketsWhole'
  BY <1>2, ReaderLeaves
<1>6. ReaderPhases' /\ CountersOrdered'
  BY <1>2, <1>3 DEF ReaderPhases, CountersOrdered, Follows
<1>7. CopiedWhole'
  BY <1>2, <1>3, PacketFound DEF CopiedWhole, Follows
<1> QED BY <1>4, <1>5, <1>6, <1>7

\* The check of WSC after the copy: no announced write reaches the packet.
LEMMA Check_OverrunInv ==
  ASSUME ChannelInv, Check_Overrun
  PROVE  ChannelInv'
<1> USE DEF ChannelInv, Check_Overrun, RGoto, Return
<1>1. CASE header.WSC > reader.RC + Elements
  <2>1. TypeOK' /\ read'.pc = "recover" /\ UNCHANGED reader
    BY <1>1 DEF TypeOK, Reads
  <2>2. Follows => reader.RC + Elements <= header.WC
    BY <1>1, CounterTypes DEF CountersOrdered, Follows
  <2> QED BY <2>1, <2>2, ReaderLeaves DEF ReaderPhases, CountersOrdered, CopiedWhole, Follows
<1>2. CASE ~(header.WSC > reader.RC + Elements)
  <2>1. /\ read' = [read EXCEPT !.pc = "final", !.result = "success"]
        /\ reader' = [reader EXCEPT !.RC = @ + 1]
    BY <1>2
  <2>2. TypeOK'
    <3>1. reader.RC + 1 \in Counts
      BY DEF ReaderPhases, TypeOK, Readers, Counts
    <3>2. reader' \in Readers
      BY <2>1, <3>1 DEF TypeOK, Readers
    <3>3. read' \in Reads
      BY <2>1 DEF TypeOK, Reads
    <3> QED BY <3>2, <3>3 DEF TypeOK
  <2>3. /\ read'.pc = "final" /\ read'.elem = read.elem /\ read'.result = "success"
        /\ reader'.Epoch = reader.Epoch /\ reader'.RC = reader.RC + 1
        /\ reader'.RC - 1 = reader.RC
    BY <2>1, CounterTypes DEF TypeOK, Reads, Readers
  <2>4. ReaderPhases' /\ CountersOrdered'
    BY <2>3, CounterTypes DEF ReaderPhases, WriterPhases, CountersOrdered, Follows
  <2>5. header.WSC <= reader.RC + Elements
    BY <1>2, CounterTypes
  <2>6. CopiedWhole'
    BY <2>3, <2>5 DEF CopiedWhole, Follows
  <2> QED BY <2>2, <2>4, <2>6, ReaderLeaves
<1> QED BY <1>1, <1>2

\* After an overrun the reader goes on at WC.
LEMMA RecoverInv ==
  ASSUME ChannelInv, Recover
  PROVE  ChannelInv'
<1> USE DEF ChannelInv, Recover, RGoto, Return
<1>1. TypeOK'
  BY DEF TypeOK, Headers, Readers, Reads
<1>2. WriterPhases' /\ PacketsWhole'
  BY ReaderLeaves
<1>3. ReaderPhases' /\ CountersOrdered' /\ CopiedWhole'
  BY CounterTypes DEF ReaderPhases, WriterPhases, CountersOrdered, CopiedWhole, Follows, TypeOK, Headers, Readers, Reads
<1> QED BY <1>1, <1>2, <1>3

\* The last check of the epoch ends the read.
LEMMA Check_EpochInv ==
  ASSUME ChannelInv, Check_Epoch
  PROVE  ChannelInv'
<1> USE DEF ChannelInv, Check_Epoch, RGoto, Return
<1>1. TypeOK'
  BY DEF TypeOK, Headers, Readers, Reads
<1>2. WriterPhases' /\ PacketsWhole'
  BY ReaderLeaves
<1>3. ReaderPhases' /\ CountersOrdered' /\ CopiedWhole'
  BY CounterTypes DEF ReaderPhases, WriterPhases, CountersOrdered, CopiedWhole, Follows, TypeOK, Headers, Readers, Reads
<1> QED BY <1>1, <1>2, <1>3

\* The reader skips what is there ...
LEMMA DrainInv ==
  ASSUME ChannelInv, Drain
  PROVE  ChannelInv'
<1> USE DEF ChannelInv, Drain, RGoto, Return
<1>1. TypeOK'
  BY DEF TypeOK, Headers, Readers, Reads
<1>2. WriterPhases' /\ PacketsWhole'
  BY ReaderLeaves
<1>3. ReaderPhases' /\ CountersOrdered' /\ CopiedWhole'
  BY CounterTypes DEF ReaderPhases, WriterPhases, CountersOrdered, CopiedWhole, Follows, TypeOK, Headers, Readers, Reads
<1> QED BY <1>1, <1>2, <1>3

\* ... or starts over.
LEMMA ResetInv ==
  ASSUME ChannelInv, Reset
  PROVE  ChannelInv'
<1> USE DEF ChannelInv, Reset, RGoto, Return
<1>1. TypeOK'
  <2>1. 0 \in Counts
    BY DEF Counts
  <2> QED BY <2>1 DEF TypeOK, Readers
<1>2. WriterPhases' /\ PacketsWhole'
  BY ReaderLeaves
<1>3. ReaderPhases' /\ CountersOrdered' /\ CopiedWhole'
  BY CounterTypes DEF ReaderPhases, WriterPhases, CountersOrdered, CopiedWhole, Follows,
                      TypeOK, Readers
<1> QED BY <1>1, <1>2, <1>3

-----------------------------------------------------------------------------
\* The channel is sound at every step of Write, Initialize, Deactivate, Read, Drain
\* and Reset, in any interleaving of the writer, restarted or not, and the reader
\* (libmuchannel): the counters keep their order, and the packets below WC that no
\* announced write reaches, as well as the reader's copy of one, are whole.
THEOREM Invariance == Safety => []ChannelInv
<1>1. ASSUME ChannelInv, [Next]_vars
      PROVE  ChannelInv'
  <2>1. CASE Writer
    BY <1>1, <2>1, InitializeInv, DeactivateInv, Init_HeaderInv, Init_WSCInv, Init_WCInv,
       Init_DataInv, Init_EpochInv, WriteInv, Write_FirstInv, Write_SecondInv,
       Write_CountInv DEF Writer
  <2>2. CASE Reading
    BY <1>1, <2>2, ReadInv, Check_ActiveInv, Check_InterfaceInv, SynchronizeInv,
       Confirm_EpochInv, Check_DataInv, Read_FirstInv, Read_SecondInv, Check_OverrunInv,
       RecoverInv, Check_EpochInv DEF Reading
  <2>3. CASE Drain \/ Reset
    BY <1>1, <2>3, DrainInv, ResetInv
  <2>4. CASE UNCHANGED vars
    BY <1>1, <2>4 DEF vars, ChannelInv, TypeOK, CountersOrdered, WriterPhases, ReaderPhases,
                      PacketsWhole, CopiedWhole, Follows, Packet
  <2> QED BY <1>1, <2>1, <2>2, <2>3, <2>4 DEF Next
<1> QED BY <1>1, InitInv, PTL DEF Safety

\* What Read of libmuchannel returns with Success from an epoch is the packet with the
\* number of the reader's counter, both halves of it and of that epoch, although
\* nothing keeps the writer from overwriting it or from being restarted meanwhile.
THEOREM DeliveryCorrect == Safety => ReadCorrect
<1>1. ASSUME ChannelInv, [Next]_vars, Returns("success"), reader.Epoch # Null_Epoch
      PROVE  LET p == <<reader.Epoch, reader.RC - 1>> IN read.elem = <<p, p>>
  <2>1. Check_Epoch
    BY <1>1 DEF Next, vars, Returns, Writer, Reading, Initialize, Deactivate, Init_Header,
         Init_WSC, Init_WC, Init_Data, Init_Epoch, Write, Write_First, Write_Second,
         Write_Count, Read, Check_Active, Check_Interface, Synchronize, RGoto,
         Confirm_Epoch, Check_Data, Read_Half, Check_Overrun, Recover, Drain, Reset
  <2>2. Follows /\ read.result = "success"
    BY <1>1, <2>1 DEF Check_Epoch, Return, Returns, Follows, ChannelInv, TypeOK, Reads
  <2>3. read.elem \in [1 .. 2 -> Half]
    BY <1>1 DEF ChannelInv, TypeOK, Reads
  <2> QED BY <1>1, <2>2, <2>3 DEF ChannelInv, CopiedWhole, Returns
<1>2. ASSUME ChannelInv, [Next]_vars
      PROVE  [Returns("success") /\ reader.Epoch # Null_Epoch =>
                LET p == <<reader.Epoch, reader.RC - 1>> IN read.elem = <<p, p>>]_vars
  BY <1>1, <1>2
<1> QED BY <1>2, Invariance, PTL DEF Safety, ReadCorrect

-----------------------------------------------------------------------------
(* The channel as its users may think of it *)

\* What the caller sees of a call, by the step it is at.
LEMMA Responses ==
  /\ read.pc = "idle" /\ read.result = "success" => Response = Abstract!Success(read.elem)
  /\ read.pc = "idle" /\ read.result # "success" => Response = Abstract!Answer(read.result)
  /\ read.pc = "final" /\ read.result = "overrun_detected" => Response = Abstract!Skipped
  /\ read.pc # "idle" /\ ~(read.pc = "final" /\ read.result = "overrun_detected") =>
       Response = Abstract!Pending
  BY DEF Response, Abstract!Success, Abstract!Answer, Abstract!Skipped, Abstract!Pending

\* The same, after the step.
LEMMA ResponsesAfter ==
  /\ read'.pc = "idle" /\ read'.result = "success" => Response' = Abstract!Success(read'.elem)
  /\ read'.pc = "idle" /\ read'.result # "success" => Response' = Abstract!Answer(read'.result)
  /\ read'.pc = "final" /\ read'.result = "overrun_detected" => Response' = Abstract!Skipped
  /\ read'.pc # "idle" /\ ~(read'.pc = "final" /\ read'.result = "overrun_detected") =>
       Response' = Abstract!Pending
  BY DEF Response, Abstract!Success, Abstract!Answer, Abstract!Skipped, Abstract!Pending

\* A call is under way unless the reader is idle.
LEMMA CallUnderWay ==
  ASSUME TypeOK
  PROVE  Abstract!InCall <=> read.pc # "idle"
<1>1. Abstract!Pending.result = "pending" /\ Abstract!Skipped.result = "skipped"
  BY DEF Abstract!Pending, Abstract!Skipped
<1>2. CASE read.pc = "idle"
  <2>1. Response.result = read.result
    BY <1>2, Responses DEF Abstract!Success, Abstract!Answer
  <2>2. read.result # "pending" /\ read.result # "skipped"
    BY DEF TypeOK, Reads
  <2> QED BY <1>1, <1>2, <2>1, <2>2 DEF Abstract!InCall
<1>3. CASE read.pc # "idle"
  BY <1>3, Responses DEF Abstract!InCall
<1> QED BY <1>2, <1>3

\* The stores that end an epoch close the channel, all at once for its users.
LEMMA EpochEnds ==
  ASSUME ChannelInv, header'.Epoch = Null_Epoch, UNCHANGED <<reader, read>>
  PROVE  Abstract!Close \/ UNCHANGED Abstract!vars
<1>1. /\ Published_Count' = 0 /\ Follows' = FALSE /\ Place' = 0 /\ Response' = Response
  BY DEF Published_Count, Follows, Place, Response
<1>2. CASE header.Epoch = Null_Epoch
  <2>1. Published_Count = 0 /\ Follows = FALSE /\ Place = 0
    BY <1>2 DEF Published_Count, Follows, Place
  <2> QED BY <1>1, <1>2, <2>1 DEF Abstract!vars
<1>3. CASE header.Epoch # Null_Epoch
  BY <1>1, <1>3 DEF Abstract!Close
<1> QED BY <1>2, <1>3

\* No other store of the writer but the last of Initialize and the last of Write is
\* seen by the users.
LEMMA WriterUnseen ==
  ASSUME header'.Epoch = header.Epoch, header.Epoch = Null_Epoch \/ header'.WC = header.WC,
         UNCHANGED <<reader, read>>
  PROVE  UNCHANGED Abstract!vars
<1>1. Follows' = Follows
  BY DEF Follows
<1> QED BY <1>1 DEF Abstract!vars, Published_Count, Place, Unreturned, Response

\* The last store of Initialize opens the epoch.
LEMMA EpochBegins ==
  ASSUME ChannelInv, Init_Epoch
  PROVE  Abstract!Open
<1>1. /\ header.Epoch = Null_Epoch /\ header'.Epoch = writer.epoch
      /\ header'.WC = 0 /\ writer.epoch > 0
      /\ writer.epoch \in Epochs /\ reader.Epoch < writer.epoch /\ UNCHANGED <<reader, read>>
  BY DEF ChannelInv, Init_Epoch, WGoto, WriterPhases, ReaderPhases, TypeOK, Headers, Writers
<1>2. header'.Epoch \in Epochs \ {Null_Epoch} /\ reader.Epoch # header'.Epoch
  BY <1>1, CounterTypes DEF ChannelInv
<1>3. Follows = FALSE /\ Follows' = FALSE
  BY <1>1, <1>2 DEF Follows
<1>4. /\ Published_Count = 0 /\ Published_Count' = 0 /\ Place = 0 /\ Place' = 0
      /\ Response' = Response
  BY <1>1, <1>2, <1>3 DEF Published_Count, Place, Response
<1> QED BY <1>1, <1>2, <1>3, <1>4 DEF Abstract!Open

\* The last store of Write publishes the packet.
LEMMA PacketCounted ==
  ASSUME ChannelInv, Write_Count
  PROVE  Abstract!Publish
<1>1. /\ header.Epoch # Null_Epoch /\ header'.Epoch = header.Epoch
      /\ header'.WC = header.WC + 1 /\ UNCHANGED <<reader, read>>
  BY CounterTypes DEF ChannelInv, Write_Count, WGoto, WriterPhases, TypeOK, Headers
<1>2. Follows' = Follows
  BY <1>1 DEF Follows
<1> QED BY <1>1, <1>2 DEF Abstract!Publish, Published_Count, Place, Unreturned, Response

\* Every step of the writer is one of the channel.
LEMMA WriterSteps ==
  ASSUME ChannelInv, Writer
  PROVE  Abstract!Next \/ UNCHANGED Abstract!vars
<1> USE DEF ChannelInv, TypeOK, Headers
<1>1. CASE Initialize \/ Deactivate
  <2>1. header'.Epoch = Null_Epoch /\ UNCHANGED <<reader, read>>
    BY <1>1 DEF Initialize, Deactivate
  <2> QED BY <2>1, EpochEnds DEF Abstract!Next
<1>2. CASE Init_Header \/ Init_WSC \/ Init_WC \/ Init_Data
  <2>1. /\ header'.Epoch = header.Epoch /\ header.Epoch = Null_Epoch
        /\ UNCHANGED <<reader, read>>
    BY <1>2 DEF Init_Header, Init_WSC, Init_WC, Init_Data, WGoto, WriterPhases
  <2> QED BY <2>1, WriterUnseen
<1>3. CASE Init_Epoch
  BY <1>3, EpochBegins DEF Abstract!Next
<1>4. CASE Write \/ Write_First \/ Write_Second
  <2>1. header'.Epoch = header.Epoch /\ header'.WC = header.WC /\ UNCHANGED <<reader, read>>
    BY <1>4 DEF Write, Write_First, Write_Second
  <2> QED BY <2>1, WriterUnseen
<1>5. CASE Write_Count
  BY <1>5, PacketCounted DEF Abstract!Next
<1> QED BY <1>1, <1>2, <1>3, <1>4, <1>5 DEF Writer

\* A step of the reader inside a call that moves neither its counter within an epoch
\* nor its epoch is not seen by its caller.
LEMMA ReaderUnseen ==
  ASSUME ChannelInv, UNCHANGED header, read.pc # "idle", read'.pc # "idle",
         read.pc # "final", read'.pc # "final", Follows' = Follows,
         Follows => UNCHANGED reader
  PROVE  UNCHANGED Abstract!vars
<1>1. Response = Abstract!Pending /\ Response' = Abstract!Pending
  BY Responses, ResponsesAfter
<1>2. Place' = Place
  BY DEF Place, Unreturned
<1> QED BY <1>1, <1>2 DEF Abstract!vars, Published_Count

\* A call that ends without an element.
LEMMA CallRefused ==
  ASSUME ChannelInv, UNCHANGED header, read.pc \notin {"idle", "final"}, read'.pc = "idle",
         Follows' = Follows, Follows => UNCHANGED reader,
         \/ read'.result = "no_data" /\ (Follows => reader.RC = header.WC)
         \/ read'.result = "inactive" /\ header.Epoch = Null_Epoch
         \/ read'.result \in {"epoch_changed", "incompatible_interface"} /\ ~Follows
  PROVE  Abstract!Refuse
<1>1. /\ Response = Abstract!Pending /\ Response' = Abstract!Answer(read'.result)
      /\ Abstract!InCall
  BY Responses, ResponsesAfter, CallUnderWay DEF ChannelInv
<1>2. Place' = Place /\ Published_Count' = Published_Count
  BY DEF Place, Unreturned, Published_Count
<1>3. Follows /\ reader.RC = header.WC => Place = Published_Count
  BY DEF Place, Unreturned, Published_Count, Follows
<1> QED BY <1>1, <1>2, <1>3 DEF Abstract!Refuse

\* Read begins the call.
LEMMA CallBegins ==
  ASSUME ChannelInv, Read
  PROVE  Abstract!Call
<1>1. read.pc = "idle" /\ read'.pc = "active" /\ UNCHANGED <<header, reader>>
  BY DEF Read, ChannelInv, TypeOK, Reads
<1>2. ~Abstract!InCall /\ Response' = Abstract!Pending
  BY <1>1, ResponsesAfter, CallUnderWay DEF ChannelInv
<1>3. /\ Follows' = Follows /\ Place' = Place /\ Published_Count' = Published_Count
  BY <1>1 DEF Follows, Place, Unreturned, Published_Count
<1> QED BY <1>1, <1>2, <1>3 DEF Abstract!Call

\* Is_Active finds the channel closed, or the call goes on.
LEMMA Check_ActiveStep ==
  ASSUME ChannelInv, Check_Active
  PROVE  Abstract!Next \/ UNCHANGED Abstract!vars
<1>1. read.pc = "active" /\ UNCHANGED header
  BY DEF Check_Active
<1>2. CASE header.Epoch = Null_Epoch
  <2>1. /\ read'.pc = "idle" /\ read'.result = "inactive"
        /\ Follows = FALSE /\ Follows' = FALSE
    BY <1>1, <1>2 DEF Check_Active, Return, Follows, ChannelInv, TypeOK, Reads
  <2> QED BY <1>1, <1>2, <2>1, CallRefused DEF Abstract!Next
<1>3. CASE header.Epoch # Null_Epoch
  <2>1. read'.pc \in {"header", "count"} /\ UNCHANGED reader
    BY <1>3 DEF Check_Active, ChannelInv, TypeOK, Reads
  <2> QED BY <1>1, <2>1, ReaderUnseen DEF Follows
<1> QED BY <1>2, <1>3

\* The reader refuses an interface of another kind: it follows no epoch then.
LEMMA Check_InterfaceStep ==
  ASSUME ChannelInv, Check_Interface
  PROVE  Abstract!Next \/ UNCHANGED Abstract!vars
<1>1. read.pc = "header" /\ UNCHANGED header /\ ~Follows
  BY DEF Check_Interface, ChannelInv, ReaderPhases
<1>2. CASE header.iface = "expected"
  <2>1. read'.pc = "sync" /\ UNCHANGED reader
    BY <1>2 DEF Check_Interface, ChannelInv, TypeOK, Reads
  <2> QED BY <1>1, <2>1, ReaderUnseen DEF Follows
<1>3. CASE header.iface # "expected"
  <2>1. /\ read'.pc = "idle" /\ read'.result = "incompatible_interface"
        /\ reader' = Null_Reader
    BY <1>3 DEF Check_Interface, Return, ChannelInv, TypeOK, Reads
  <2>2. Follows = FALSE /\ Follows' = FALSE
    BY <1>1, <2>1 DEF Follows, Null_Reader
  <2> QED BY <1>1, <2>1, <2>2, CallRefused DEF Abstract!Next
<1> QED BY <1>2, <1>3

\* The reader turns to the epoch of the channel, unless it was closed meanwhile.
LEMMA SynchronizeStep ==
  ASSUME ChannelInv, Synchronize
  PROVE  Abstract!Next \/ UNCHANGED Abstract!vars
<1>1. /\ read.pc = "sync" /\ read'.pc = "confirm" /\ UNCHANGED header /\ ~Follows
      /\ reader'.Epoch = header.Epoch /\ reader'.RC = 0
  BY DEF Synchronize, RGoto, ChannelInv, ReaderPhases, TypeOK, Reads
<1>2. CASE header.Epoch = Null_Epoch
  BY <1>1, <1>2, ReaderUnseen DEF Follows
<1>3. CASE header.Epoch # Null_Epoch
  <2>1. /\ Follows' = TRUE /\ Follows = FALSE /\ Place' = 0
        /\ Published_Count' = Published_Count
    BY <1>1, <1>3 DEF Follows, Place, Unreturned, Published_Count
  <2>2. Response = Abstract!Pending /\ Response' = Abstract!Pending
    BY <1>1, Responses, ResponsesAfter
  <2>3. Abstract!Synchronize
    BY <1>1, <1>3, <2>1, <2>2 DEF Abstract!Synchronize
  <2> QED BY <2>3 DEF Abstract!Next
<1> QED BY <1>2, <1>3

\* The epoch changed before the reader could confirm it, or the call goes on.
LEMMA Confirm_EpochStep ==
  ASSUME ChannelInv, Confirm_Epoch
  PROVE  Abstract!Next \/ UNCHANGED Abstract!vars
<1>1. read.pc = "confirm" /\ UNCHANGED <<header, reader>> /\ Follows' = Follows
  BY DEF Confirm_Epoch, Follows
<1>2. CASE reader.Epoch # header.Epoch
  <2>1. read'.pc = "idle" /\ read'.result = "epoch_changed" /\ ~Follows
    BY <1>2 DEF Confirm_Epoch, Return, Follows, ChannelInv, TypeOK, Reads
  <2> QED BY <1>1, <2>1, CallRefused DEF Abstract!Next
<1>3. CASE reader.Epoch = header.Epoch
  <2>1. read'.pc = "count"
    BY <1>3 DEF Confirm_Epoch, ChannelInv, TypeOK, Reads
  <2> QED BY <1>1, <2>1, ReaderUnseen
<1> QED BY <1>2, <1>3

\* There is no data only when the reader of the epoch has all its packets.
LEMMA Check_DataStep ==
  ASSUME ChannelInv, Check_Data
  PROVE  Abstract!Next \/ UNCHANGED Abstract!vars
<1>1. read.pc = "count" /\ UNCHANGED <<header, reader>> /\ Follows' = Follows
  BY DEF Check_Data, Follows
<1>2. CASE reader.RC >= header.WC
  <2>1. read'.pc = "idle" /\ read'.result = "no_data"
    BY <1>2 DEF Check_Data, Return, ChannelInv, TypeOK, Reads
  <2>2. Follows => reader.RC = header.WC
    BY <1>2, CounterTypes DEF Follows, ChannelInv, CountersOrdered
  <2> QED BY <1>1, <2>1, <2>2, CallRefused DEF Abstract!Next
<1>3. CASE ~(reader.RC >= header.WC)
  <2>1. read'.pc = "first"
    BY <1>3 DEF Check_Data, ChannelInv, TypeOK, Reads
  <2> QED BY <1>1, <2>1, ReaderUnseen
<1> QED BY <1>2, <1>3

\* The copy of an element is not seen ...
LEMMA Read_HalfStep ==
  ASSUME ChannelInv, Read_Half(1, "first", "second") \/ Read_Half(2, "second", "overrun")
  PROVE  UNCHANGED Abstract!vars
<1>1. /\ read.pc \in {"first", "second"} /\ read'.pc \in {"second", "overrun"}
      /\ UNCHANGED <<header, reader>> /\ Follows' = Follows
  BY DEF Read_Half, Follows, ChannelInv, TypeOK, Reads
<1> QED BY <1>1, ReaderUnseen

\* ... nor is the check behind it: the counter that it raises belongs to the delivery.
LEMMA Check_OverrunStep ==
  ASSUME ChannelInv, Check_Overrun
  PROVE  UNCHANGED Abstract!vars
<1>1. read.pc = "overrun" /\ UNCHANGED header
  BY DEF Check_Overrun
<1>2. CASE header.WSC > reader.RC + Elements
  <2>1. read'.pc = "recover" /\ UNCHANGED reader /\ Follows' = Follows
    BY <1>1, <1>2 DEF Check_Overrun, Follows, ChannelInv, TypeOK, Reads
  <2> QED BY <1>1, <2>1, ReaderUnseen
<1>3. CASE ~(header.WSC > reader.RC + Elements)
  <2>1. /\ read'.pc = "final" /\ read'.result = "success"
        /\ reader'.Epoch = reader.Epoch /\ reader'.RC = reader.RC + 1
    BY <1>3 DEF Check_Overrun, ChannelInv, TypeOK, Reads, Readers
  <2>2. Response = Abstract!Pending /\ Response' = Abstract!Pending
    BY <1>1, <2>1, Responses, ResponsesAfter
  <2>3. Follows' = Follows
    BY <1>1, <2>1 DEF Follows
  <2>4. Place' = Place
    BY <1>1, <2>1, <2>3, CounterTypes DEF Place, Unreturned, ChannelInv
  <2> QED BY <1>1, <2>2, <2>3, <2>4 DEF Abstract!vars, Published_Count
<1> QED BY <1>2, <1>3

\* After an overrun the reader skips what is there: it was a whole channel behind.
LEMMA RecoverStep ==
  ASSUME ChannelInv, Recover
  PROVE  Abstract!Skip
<1>1. /\ read.pc = "recover" /\ UNCHANGED header
      /\ read'.pc = "final" /\ read'.result = "overrun_detected"
      /\ reader'.Epoch = reader.Epoch /\ reader'.RC = header.WC
  BY DEF Recover, ChannelInv, TypeOK, Reads, Readers
<1>2. Response = Abstract!Pending /\ Response' = Abstract!Skipped
  BY <1>1, Responses, ResponsesAfter
<1>3. Follows' = Follows /\ Published_Count' = Published_Count
  BY <1>1 DEF Follows, Published_Count
<1>4. Follows => Place + Elements <= Published_Count /\ Place' = Published_Count
  BY <1>1, <1>3 DEF Place, Unreturned, Published_Count, Follows, ChannelInv, ReaderPhases
<1>5. ~Follows => Place' = Place
  BY <1>3 DEF Place
<1> QED BY <1>1, <1>2, <1>3, <1>4, <1>5 DEF Abstract!Skip

\* The last check of the epoch: the element is delivered, the overrun reported, or the
\* epoch is over.
LEMMA Check_EpochStep ==
  ASSUME ChannelInv, Check_Epoch
  PROVE  Abstract!Next
<1>1. /\ read.pc = "final" /\ UNCHANGED <<header, reader>>
      /\ read'.pc = "idle" /\ read'.elem = read.elem
      /\ read'.result = IF reader.Epoch # header.Epoch THEN "epoch_changed" ELSE read.result
      /\ read.elem \in [1 .. 2 -> Half]
  BY DEF Check_Epoch, Return, ChannelInv, TypeOK, Reads
<1>2. Follows' = Follows /\ Published_Count' = Published_Count /\ Abstract!InCall
  BY <1>1, CallUnderWay DEF Follows, Published_Count, ChannelInv
<1>3. read.result \in {"success", "overrun_detected"}
  BY <1>1 DEF ChannelInv, ReaderPhases
<1>4. CASE reader.Epoch # header.Epoch
  <2>1. Follows = FALSE /\ Place' = 0 /\ Place = 0
    BY <1>2, <1>4 DEF Follows, Place
  <2>2. Response' = Abstract!Answer("epoch_changed")
    BY <1>1, <1>4, ResponsesAfter
  <2>3. Abstract!Refuse
    BY <1>1, <1>2, <2>1, <2>2 DEF Abstract!Refuse
  <2> QED BY <2>3 DEF Abstract!Next
<1>5. CASE reader.Epoch = header.Epoch /\ read.result = "overrun_detected"
  <2>1. Place' = Place /\ (Follows \/ header.Epoch = Null_Epoch)
    BY <1>1, <1>2, <1>5 DEF Follows, Place, Unreturned
  <2>2. Response = Abstract!Skipped /\ Response' = Abstract!Answer("overrun_detected")
    BY <1>1, <1>5, Responses, ResponsesAfter
  <2>3. Abstract!Refuse
    BY <1>1, <1>2, <2>1, <2>2 DEF Abstract!Refuse
  <2> QED BY <2>3 DEF Abstract!Next
<1>6. CASE reader.Epoch = header.Epoch /\ read.result = "success"
  <2>1. Response = Abstract!Pending /\ Response' = Abstract!Success(read.elem)
    BY <1>1, <1>6, Responses, ResponsesAfter
  <2>2. CASE header.Epoch = Null_Epoch
    <3>1. Place' = Place
      BY <1>2, <1>6, <2>2 DEF Place, Follows
    <3>2. Abstract!DeliverClosed
      BY <1>1, <1>2, <2>1, <2>2, <3>1 DEF Abstract!DeliverClosed
    <3> QED BY <3>2 DEF Abstract!Next
  <2>3. CASE header.Epoch # Null_Epoch
    <3>1. Follows = TRUE
      BY <1>6, <2>3 DEF Follows
    <3>2. /\ Place = reader.RC - 1 /\ Place' = reader.RC /\ Published_Count = header.WC
      BY <1>1, <1>2, <1>6, <2>3, <3>1 DEF Place, Unreturned, Published_Count
    <3>3. Place' = Place + 1 /\ Place < Published_Count
      BY <1>6, <2>3, <3>2, CounterTypes DEF ChannelInv, CountersOrdered
    <3>4. read.elem = Abstract!Whole(header.Epoch, Place)
      <4>1. read.elem[1] = <<header.Epoch, Place>> /\ read.elem[2] = <<header.Epoch, Place>>
        BY <1>1, <1>6, <3>1, <3>2 DEF ChannelInv, CopiedWhole
      <4> QED BY <1>1, <4>1 DEF Abstract!Whole
    <3>5. Abstract!Deliver
      BY <1>1, <1>2, <2>1, <3>1, <3>3, <3>4 DEF Abstract!Deliver
    <3> QED BY <3>5 DEF Abstract!Next
  <2> QED BY <2>2, <2>3
<1> QED BY <1>3, <1>4, <1>5, <1>6

\* Between calls the reader moves to the end or to the start of the epoch.
LEMMA MoveStep ==
  ASSUME ChannelInv, Drain \/ Reset
  PROVE  Abstract!Move \/ UNCHANGED Abstract!vars
<1>1. /\ read.pc = "idle" /\ UNCHANGED <<header, read>>
      /\ reader'.Epoch = reader.Epoch /\ reader'.RC \in {0, header.WC}
  BY DEF Drain, Reset, ChannelInv, TypeOK, Readers
<1>2. /\ Follows' = Follows /\ Published_Count' = Published_Count /\ Response' = Response
      /\ ~Abstract!InCall
  BY <1>1, CallUnderWay DEF Follows, Published_Count, Response, ChannelInv
<1>3. CASE Follows
  <2>1. Place' \in {0, Published_Count}
    BY <1>1, <1>2, <1>3 DEF Place, Unreturned, Published_Count, Follows
  <2> QED BY <1>1, <1>2, <1>3, <2>1 DEF Abstract!Move
<1>4. CASE ~Follows
  <2>1. Place' = Place
    BY <1>2, <1>4 DEF Place
  <2> QED BY <1>1, <1>2, <2>1 DEF Abstract!vars
<1> QED BY <1>3, <1>4

\* The shared memory channel of libmuchannel, whose users share nothing but memory and
\* take no lock, implements a channel in which packets are published and delivered in
\* one step: whoever follows an epoch gets its packets in order, each once and whole,
\* and misses packets only when it is told so and was a whole channel behind.
THEOREM Implements == Safety => Refinement
<1>1. Init => Abstract!Init
  BY DEF Init, Abstract!Init, Published_Count, Follows, Place, Response, Abstract!Answer,
         Null_Reader
<1>2. ChannelInv /\ [Next]_vars => [Abstract!Next]_(Abstract!vars)
  <2> SUFFICES ASSUME ChannelInv, [Next]_vars
               PROVE  Abstract!Next \/ UNCHANGED Abstract!vars
    OBVIOUS
  <2>1. CASE Writer
    BY <2>1, WriterSteps
  <2>2. CASE Reading
    BY <2>2, CallBegins, Check_ActiveStep, Check_InterfaceStep, SynchronizeStep,
       Confirm_EpochStep, Check_DataStep, Read_HalfStep, Check_OverrunStep, RecoverStep,
       Check_EpochStep DEF Reading, Abstract!Next
  <2>3. CASE Drain \/ Reset
    BY <2>3, MoveStep DEF Abstract!Next
  <2>4. CASE UNCHANGED vars
    BY <2>4 DEF vars, Abstract!vars, Published_Count, Follows, Place, Unreturned, Response
  <2> QED BY <2>1, <2>2, <2>3, <2>4 DEF Next
<1> QED BY <1>1, <1>2, Invariance, PTL DEF Safety, Refinement, Abstract!Safety
=============================================================================
