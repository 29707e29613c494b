-------------------------- MODULE CrashAuditProofs --------------------------
(***************************************************************************)
(* The records of the crash audit are private to their CPUs, and a reset   *)
(* at any point leaves a report that is sound, for any set of CPUs, any    *)
(* number of records and any number of boots.                              *)
(***************************************************************************)
EXTENDS CrashAudit, TLAPS

USE CPUsAssumption, Max_DumpsAssumption, MaxBootsAssumption DEF Index, Magics, Crash_Magic, NoMagic, Reasons, Undefined, ReasonSet

\* At power-on nothing is recorded.
LEMMA InitInv == Init => IndInv
<1> SUFFICES ASSUME Init PROVE IndInv
    OBVIOUS
<1> USE DEF Init, Null_Header, NothingLeft
<1>1. TypeOK
  <2>1. Null_Dumpdata(0) \in Record
      BY DEF Null_Dumpdata, Record
  <2>2. pc \in [CPUs -> Control]
      BY DEF Control
  <2> QED BY <2>1, <2>2 DEF TypeOK
<1>2. SlotInv /\ RecordInv /\ CountInv
    BY DEF SlotInv, RecordInv, RecordIntact, CountInv, Allocated, Recorded, Counted, Activated
<1>3. GenerationInv /\ BootInv /\ ReportSound
    BY DEF GenerationInv, BootInv, ReportSound, Booted
<1> QED BY <1>1, <1>2, <1>3 DEF IndInv

\* The boot processor clears the page or counts the boot.
LEMMA Crash_Audit_InitInv == IndInv /\ Crash_Audit_Init => IndInv'
<1> SUFFICES ASSUME IndInv, Crash_Audit_Init PROVE IndInv'
    OBVIOUS
<1> USE DEF IndInv, Crash_Audit_Init
<1>0. /\ \A c \in CPUs : pc[c] = "run" /\ pc'[c] = "run"
      /\ Global_Next_Slot' = 1
    BY DEF BootInv
<1>1. SlotInv' /\ RecordInv' /\ CountInv'
    BY <1>0 DEF SlotInv, RecordInv, RecordIntact, CountInv, Allocated, Recorded, Counted, Activated
<1>2. BootInv'
    BY DEF BootInv
<1>3. CASE header.Version_Magic = Crash_Magic
  <2>1. /\ header'.Boot_Count = header.Boot_Count + 1
        /\ header'.Version_Magic = Crash_Magic /\ header'.Generation = header.Generation
        /\ header'.Dump_Count = header.Dump_Count
        /\ data' = data /\ last' = last
      BY <1>3 DEF TypeOK
  <2>2. TypeOK'
    <3>1. booting' \in BOOLEAN
        OBVIOUS
    <3>2. header' \in [Version_Magic : Magics, Generation : Nat, Boot_Count : Nat,
                       Crash_Count : Nat, Dump_Count : 0 .. Max_Dumps]
      <4> HIDE DEF IndInv, Crash_Audit_Init
      <4>1. header' = [header EXCEPT !.Boot_Count = header.Boot_Count + 1]
          BY <1>3 DEF Crash_Audit_Init
      <4>2. header \in [Version_Magic : Magics, Generation : Nat, Boot_Count : Nat,
                        Crash_Count : Nat, Dump_Count : 0 .. Max_Dumps]
          BY DEF IndInv, TypeOK
      <4> QED BY <4>1, <4>2
    <3> QED BY <1>3, <3>1, <3>2 DEF TypeOK
  <2>3. GenerationInv'
      BY <1>0, <1>3, <2>1 DEF GenerationInv, BootInv, TypeOK, Activated
  <2>4. header.Boot_Count \in Nat /\ header.Generation \in Nat
      BY DEF TypeOK
  <2>5. header'.Boot_Count - 1 = header.Boot_Count
      BY <2>1, <2>4
  <2>6. Active' <=> last.done # {}
      BY <1>3, <2>1, <2>4 DEF Active, BootInv
  <2>7. ReportSound'
      BY <1>3, <2>1, <2>5, <2>6 DEF ReportSound, BootInv
  <2> QED BY <1>1, <1>2, <2>2, <2>3, <2>7
<1>4. CASE header.Version_Magic # Crash_Magic
  <2>1. Null_Dumpdata(0) \in Record
      BY DEF Null_Dumpdata, Record
  <2>2. TypeOK'
    <3>1. booting' \in BOOLEAN
        OBVIOUS
    <3>2. header' \in [Version_Magic : Magics, Generation : Nat, Boot_Count : Nat,
                       Crash_Count : Nat, Dump_Count : 0 .. Max_Dumps]
        BY <1>4 DEF Null_Header
    <3>3. data' \in [Index -> Record]
        BY <1>4, <2>1
    <3> QED BY <3>1, <3>2, <3>3 DEF TypeOK
  <2>3. GenerationInv'
      BY <1>0, <1>4 DEF GenerationInv, Null_Header, Activated
  <2>4. ReportSound'
      BY <1>4 DEF ReportSound, Active, Booted, BootInv, Null_Header, NothingLeft
  <2> QED BY <1>1, <1>2, <2>2, <2>3, <2>4
<1> QED BY <1>3, <1>4

\* An error is met: only the control of one CPU moves.
LEMMA CrashInv == ASSUME NEW c \in CPUs PROVE IndInv /\ Crash(c) => IndInv'
<1> SUFFICES ASSUME IndInv, Crash(c) PROVE IndInv'
    OBVIOUS
<1> USE DEF IndInv, Crash, Goto, Allocated, Recorded, Counted, Activated
<1>1. TypeOK'
    BY DEF TypeOK, Control
<1>2. \A d \in CPUs : pc'[d] = IF d = c THEN "alloc" ELSE pc[d]
    BY DEF TypeOK
<1>3. SlotInv'
    BY <1>2 DEF SlotInv
<1>4. RecordInv'
    BY <1>2 DEF RecordInv, RecordIntact
<1>5. CountInv'
    BY <1>2 DEF CountInv
<1>6. GenerationInv'
    BY <1>2 DEF GenerationInv
<1>7. BootInv' /\ ReportSound'
    BY DEF BootInv, ReportSound, Booted, Active
<1> QED BY <1>1, <1>3, <1>4, <1>5, <1>6, <1>7
\* A slot is taken: it is a new one, because the counter only grows, and the first
\* one ends the state in which the old report is looked at.
LEMMA Get_And_IncInv == ASSUME NEW c \in CPUs PROVE IndInv /\ Get_And_Inc(c) => IndInv'
<1> SUFFICES ASSUME IndInv, Get_And_Inc(c) PROVE IndInv'
    OBVIOUS
<1> USE DEF IndInv, Get_And_Inc, Goto, Allocated, Recorded, Counted, Activated
<1>0. Global_Next_Slot \in Nat \ {0} /\ slot \in [CPUs -> 0 .. Max_Dumps]
    BY DEF TypeOK
<1>1. \A d \in CPUs : d # c => pc'[d] = pc[d] /\ slot'[d] = slot[d]
    BY DEF TypeOK
<1>2. /\ pc'[c] \in {"clear", "stopped"} /\ pc[c] = "alloc"
      /\ pc'[c] = "clear" => slot'[c] = Global_Next_Slot /\ Global_Next_Slot \in 1 .. Max_Dumps
    BY DEF TypeOK
<1>3. TypeOK'
  <2>1. pc' \in [CPUs -> Control]
      BY DEF TypeOK, Control
  <2>2. slot' \in [CPUs -> 0 .. Max_Dumps]
      BY <1>0
  <2> QED BY <2>1, <2>2 DEF TypeOK
<1>4. SlotInv'
    BY <1>0, <1>1, <1>2 DEF SlotInv
<1>5. RecordInv'
    BY <1>1, <1>2 DEF RecordInv, RecordIntact
<1>6. CountInv'
  <2>1. \A d \in CPUs : pc'[d] = "count" => slot'[d] < next'[d] /\ next'[d] <= Global_Next_Slot'
      BY <1>0, <1>1, <1>2 DEF CountInv, TypeOK
  <2>2. ASSUME NEW d \in CPUs, pc'[d] \in Counted
        PROVE  /\ header.Dump_Count < Global_Next_Slot'
               /\ \E e \in CPUs : pc'[e] \in Counted /\ slot'[e] <= header.Dump_Count
    <3>1. pc[d] \in Counted
        BY <1>1, <1>2, <2>2
    <3>2. header.Dump_Count < Global_Next_Slot /\ header.Dump_Count \in Nat
        BY <3>1 DEF CountInv, TypeOK
    <3>3. PICK e \in CPUs : pc[e] \in Counted /\ slot[e] <= header.Dump_Count
        BY <3>1 DEF CountInv
    <3>4. e # c
        BY <1>2, <3>3
    <3> QED BY <1>0, <1>1, <3>2, <3>3, <3>4
  <2> QED BY <2>1, <2>2 DEF CountInv
<1>7. GenerationInv'
    BY <1>1, <1>2 DEF GenerationInv
<1>8. BootInv' /\ ReportSound'
    BY <1>0, <1>2 DEF BootInv, ReportSound, Booted
<1> QED BY <1>3, <1>4, <1>5, <1>6, <1>7, <1>8

\* A CPU that holds a slot runs after boot, and the old report is no longer
\* looked at.
LEMMA Holder == ASSUME NEW c \in CPUs, IndInv, pc[c] \in Allocated
                PROVE  ~booting /\ Global_Next_Slot # 1 /\ slot[c] \in Index
<1>1. slot[c] \in Index /\ slot[c] < Global_Next_Slot
    BY DEF IndInv, SlotInv
<1>2. ~booting
    BY DEF IndInv, BootInv, Allocated, Recorded, Counted, Activated
<1> QED BY <1>1, <1>2 DEF IndInv, TypeOK

\* A step of a CPU that holds a slot and writes its record only: the other records,
\* the counters and the header stay.
LEMMA WriteInv ==
  ASSUME NEW c \in CPUs, IndInv, NEW from, NEW to, NEW r \in Record,
         pc[c] = from, pc' = [pc EXCEPT ![c] = to],
         <<from, to>> \in {<<"clear", "id">>, <<"id", "reason">>, <<"reason", "next">>},
         data' = [data EXCEPT ![slot[c]] = r],
         to = "id" => r = Null_Dumpdata(header.Boot_Count),
         to = "reason" => r = [APIC_ID |-> {c}, Reason |-> Undefined,
                               boot |-> header.Boot_Count],
         to = "next" => r = Complete(c, header.Boot_Count),
         UNCHANGED <<booting, slot, next, Global_Next_Slot, header, last>>
  PROVE  IndInv'
<1> USE DEF Allocated, Recorded, Counted, Activated
<1>0. /\ from \in {"clear", "id", "reason"} /\ to \in {"id", "reason", "next"}
      /\ pc[c] \in Allocated
    OBVIOUS
<1>1. ~booting /\ Global_Next_Slot # 1 /\ slot[c] \in Index
    BY <1>0, Holder
<1>2. \A d \in CPUs : pc'[d] = IF d = c THEN to ELSE pc[d]
    BY DEF IndInv, TypeOK
<1>3. \A d \in CPUs : d # c /\ pc[d] \in Allocated => data'[slot[d]] = data[slot[d]]
    BY <1>0, <1>1 DEF IndInv, SlotInv, TypeOK
<1>4. data'[slot[c]] = r
    BY <1>1 DEF IndInv, TypeOK
<1>5. TypeOK'
    BY <1>0, <1>1 DEF IndInv, TypeOK, Control
<1>6. SlotInv'
    BY <1>0, <1>2 DEF IndInv, SlotInv
<1>7. RecordInv'
  <2>1. ASSUME NEW d \in CPUs, d # c
        PROVE  /\ pc'[d] \in Recorded => data'[slot[d]] = Complete(d, header.Boot_Count)
               /\ pc'[d] = "id" => data'[slot[d]] = Null_Dumpdata(header.Boot_Count)
               /\ pc'[d] = "reason" =>
                    data'[slot[d]] = [APIC_ID |-> {d}, Reason |-> Undefined,
                                      boot |-> header.Boot_Count]
      BY <1>2, <1>3, <2>1 DEF IndInv, RecordInv, RecordIntact
  <2>2. /\ pc'[c] \in Recorded => data'[slot[c]] = Complete(c, header.Boot_Count)
        /\ pc'[c] = "id" => data'[slot[c]] = Null_Dumpdata(header.Boot_Count)
        /\ pc'[c] = "reason" =>
             data'[slot[c]] = [APIC_ID |-> {c}, Reason |-> Undefined,
                               boot |-> header.Boot_Count]
      BY <1>0, <1>2, <1>4
  <2> QED BY <2>1, <2>2 DEF RecordInv, RecordIntact, Complete, Null_Dumpdata
<1>8. CountInv'
    BY <1>0, <1>2 DEF IndInv, CountInv
<1>9. GenerationInv'
    BY <1>0, <1>2 DEF IndInv, GenerationInv
<1>10. BootInv' /\ ReportSound'
    BY <1>1 DEF BootInv, ReportSound, Booted
<1> QED BY <1>5, <1>6, <1>7, <1>8, <1>9, <1>10 DEF IndInv
\* The three writes of a CPU to its record.
LEMMA RecordSteps ==
  ASSUME NEW c \in CPUs, IndInv, Clear(c) \/ Set_APIC_ID(c) \/ Set_Reason(c)
  PROVE  IndInv'
<1> USE DEF Goto
<1>0. header.Boot_Count \in Nat
    BY DEF IndInv, TypeOK
<1>1. CASE Clear(c)
  <2>1. Null_Dumpdata(header.Boot_Count) \in Record
      BY <1>0 DEF Null_Dumpdata, Record
  <2> QED BY <1>1, <2>1, WriteInv DEF Clear
<1>2. CASE Set_APIC_ID(c)
  <2> DEFINE r == [APIC_ID |-> {c}, Reason |-> Undefined, boot |-> header.Boot_Count]
  <2>1. slot[c] \in Index
      BY <1>2, Holder DEF Set_APIC_ID, Allocated
  <2>2. data[slot[c]] = Null_Dumpdata(header.Boot_Count)
      BY <1>2 DEF Set_APIC_ID, IndInv, RecordInv
  <2>3. data' = [data EXCEPT ![slot[c]] = r]
    <3>1. data' = [data EXCEPT ![slot[c]] = [data[slot[c]] EXCEPT !.APIC_ID = {c}]]
        BY <1>2 DEF Set_APIC_ID
    <3>2. [Null_Dumpdata(header.Boot_Count) EXCEPT !.APIC_ID = {c}] = r
        BY DEF Null_Dumpdata
    <3> QED BY <2>2, <3>1, <3>2
  <2>4. r \in Record
      BY <1>0 DEF Record
  <2> QED BY <1>2, <2>3, <2>4, WriteInv DEF Set_APIC_ID
<1>3. CASE Set_Reason(c)
  <2>1. slot[c] \in Index
      BY <1>3, Holder DEF Set_Reason, Allocated
  <2>2. data[slot[c]] = [APIC_ID |-> {c}, Reason |-> Undefined, boot |-> header.Boot_Count]
      BY <1>3 DEF Set_Reason, IndInv, RecordInv
  <2>3. data' = [data EXCEPT ![slot[c]] = Complete(c, header.Boot_Count)]
    <3>1. data' = [data EXCEPT ![slot[c]] = [data[slot[c]] EXCEPT !.Reason = ReasonSet]]
        BY <1>3 DEF Set_Reason
    <3>2. [[APIC_ID |-> {c}, Reason |-> Undefined, boot |-> header.Boot_Count]
             EXCEPT !.Reason = ReasonSet] = Complete(c, header.Boot_Count)
        BY DEF Complete
    <3> QED BY <2>2, <3>1, <3>2
  <2>4. Complete(c, header.Boot_Count) \in Record
      BY <1>0 DEF Record, Complete
  <2> QED BY <1>3, <2>3, <2>4, WriteInv DEF Set_Reason
<1> QED BY <1>1, <1>2, <1>3

\* Finalize reads a next slot beyond its own.
LEMMA Read_NextInv == ASSUME NEW c \in CPUs PROVE IndInv /\ Read_Next(c) => IndInv'
<1> SUFFICES ASSUME IndInv, Read_Next(c) PROVE IndInv'
    OBVIOUS
<1> USE DEF Read_Next, Goto, Allocated, Recorded, Counted, Activated
<1>0. ~booting /\ Global_Next_Slot # 1
    BY Holder
<1>1. \A d \in CPUs : pc'[d] = IF d = c THEN "count" ELSE pc[d]
    BY DEF IndInv, TypeOK
<1>2. \A d \in CPUs : next'[d] = IF d = c THEN Global_Next_Slot ELSE next[d]
    BY DEF IndInv, TypeOK
<1>3. TypeOK'
    BY DEF IndInv, TypeOK, Control
<1>4. SlotInv'
    BY <1>1 DEF IndInv, SlotInv
<1>5. RecordInv'
    BY <1>1 DEF IndInv, RecordInv, RecordIntact
<1>6. CountInv'
    BY <1>1, <1>2 DEF IndInv, CountInv, SlotInv, TypeOK
<1>7. GenerationInv'
    BY <1>1 DEF IndInv, GenerationInv
<1>8. BootInv' /\ ReportSound'
    BY <1>0 DEF BootInv, ReportSound, Booted
<1> QED BY <1>3, <1>4, <1>5, <1>6, <1>7, <1>8 DEF IndInv

\* The count that is written covers the writer's own record.
LEMMA Set_Dump_CountInv == ASSUME NEW c \in CPUs PROVE IndInv /\ Set_Dump_Count(c) => IndInv'
<1> SUFFICES ASSUME IndInv, Set_Dump_Count(c) PROVE IndInv'
    OBVIOUS
<1> USE DEF Set_Dump_Count, Goto, Allocated, Recorded, Counted, Activated
<1>0. ~booting /\ Global_Next_Slot # 1 /\ slot[c] \in Index
    BY Holder
<1>1. \A d \in CPUs : pc'[d] = IF d = c THEN "generation" ELSE pc[d]
    BY DEF IndInv, TypeOK
<1>2. slot[c] < next[c] /\ next[c] <= Global_Next_Slot /\ next[c] \in Nat /\ Global_Next_Slot \in Nat
    BY DEF IndInv, CountInv, TypeOK
<1>3. /\ dump_count(next[c]) \in 0 .. Max_Dumps
      /\ slot[c] <= dump_count(next[c])
      /\ dump_count(next[c]) < Global_Next_Slot
    BY <1>0, <1>2 DEF dump_count
<1>4. /\ header'.Dump_Count = dump_count(next[c])
      /\ header'.Boot_Count = header.Boot_Count /\ header'.Generation = header.Generation
      /\ header'.Version_Magic = header.Version_Magic
    BY DEF IndInv, TypeOK
<1>5. TypeOK'
  <2>1. header' \in [Version_Magic : Magics, Generation : Nat, Boot_Count : Nat,
                     Crash_Count : Nat, Dump_Count : 0 .. Max_Dumps]
      BY <1>3 DEF IndInv, TypeOK
  <2> QED BY <2>1 DEF IndInv, TypeOK, Control
<1>6. SlotInv'
    BY <1>1 DEF IndInv, SlotInv
<1>7. RecordInv'
    BY <1>1, <1>4 DEF IndInv, RecordInv, RecordIntact
<1>8. CountInv'
    BY <1>1, <1>3, <1>4 DEF IndInv, CountInv
<1>9. GenerationInv'
    BY <1>1, <1>4 DEF IndInv, GenerationInv
<1>10. BootInv' /\ ReportSound'
    BY <1>0 DEF BootInv, ReportSound, Booted
<1> QED BY <1>5, <1>6, <1>7, <1>8, <1>9, <1>10 DEF IndInv

\* The generation is written after the count.
LEMMA Set_GenerationInv == ASSUME NEW c \in CPUs PROVE IndInv /\ Set_Generation(c) => IndInv'
<1> SUFFICES ASSUME IndInv, Set_Generation(c) PROVE IndInv'
    OBVIOUS
<1> USE DEF Set_Generation, Goto, Allocated, Recorded, Counted, Activated
<1>0. ~booting /\ Global_Next_Slot # 1
    BY Holder
<1>1. \A d \in CPUs : pc'[d] = IF d = c THEN "crashes" ELSE pc[d]
    BY DEF IndInv, TypeOK
<1>2. /\ header'.Generation = header.Boot_Count + 1 /\ header.Boot_Count \in Nat
      /\ header'.Boot_Count = header.Boot_Count /\ header'.Dump_Count = header.Dump_Count
      /\ header'.Version_Magic = header.Version_Magic
    BY DEF IndInv, TypeOK
<1>3. TypeOK'
  <2>1. header' \in [Version_Magic : Magics, Generation : Nat, Boot_Count : Nat,
                     Crash_Count : Nat, Dump_Count : 0 .. Max_Dumps]
    <3>1. header' = [header EXCEPT !.Generation = header.Boot_Count + 1]
        OBVIOUS
    <3>2. header \in [Version_Magic : Magics, Generation : Nat, Boot_Count : Nat,
                      Crash_Count : Nat, Dump_Count : 0 .. Max_Dumps]
        BY DEF IndInv, TypeOK
    <3> HIDE DEF Set_Generation
    <3> QED BY <3>1, <3>2
  <2> QED BY <2>1 DEF IndInv, TypeOK, Control
<1>4. SlotInv'
    BY <1>1 DEF IndInv, SlotInv
<1>5. RecordInv'
    BY <1>1, <1>2 DEF IndInv, RecordInv, RecordIntact
<1>6. CountInv'
    BY <1>1, <1>2 DEF IndInv, CountInv
<1>7. GenerationInv'
    BY <1>0, <1>1, <1>2 DEF IndInv, GenerationInv
<1>8. BootInv' /\ ReportSound'
    BY <1>0 DEF BootInv, ReportSound, Booted
<1> QED BY <1>3, <1>4, <1>5, <1>6, <1>7, <1>8 DEF IndInv

\* The crash is counted.
LEMMA Atomic_Inc_Crash_CountInv ==
  ASSUME NEW c \in CPUs PROVE IndInv /\ Atomic_Inc_Crash_Count(c) => IndInv'
<1> SUFFICES ASSUME IndInv, Atomic_Inc_Crash_Count(c) PROVE IndInv'
    OBVIOUS
<1> USE DEF Atomic_Inc_Crash_Count, Goto, Allocated, Recorded, Counted, Activated
<1>0. ~booting /\ Global_Next_Slot # 1
    BY Holder
<1>1. \A d \in CPUs : pc'[d] = IF d = c THEN "delay" ELSE pc[d]
    BY DEF IndInv, TypeOK
<1>2. /\ header'.Generation = header.Generation
      /\ header'.Boot_Count = header.Boot_Count /\ header'.Dump_Count = header.Dump_Count
      /\ header'.Version_Magic = header.Version_Magic
    BY DEF IndInv, TypeOK
<1>3. TypeOK'
  <2>1. header' \in [Version_Magic : Magics, Generation : Nat, Boot_Count : Nat,
                     Crash_Count : Nat, Dump_Count : 0 .. Max_Dumps]
    <3>1. header' = [header EXCEPT !.Crash_Count = header.Crash_Count + 1]
        OBVIOUS
    <3>2. header \in [Version_Magic : Magics, Generation : Nat, Boot_Count : Nat,
                      Crash_Count : Nat, Dump_Count : 0 .. Max_Dumps]
        BY DEF IndInv, TypeOK
    <3> HIDE DEF Atomic_Inc_Crash_Count
    <3> QED BY <3>1, <3>2
  <2> QED BY <2>1 DEF IndInv, TypeOK, Control
<1>4. SlotInv'
    BY <1>1 DEF IndInv, SlotInv
<1>5. RecordInv'
    BY <1>1, <1>2 DEF IndInv, RecordInv, RecordIntact
<1>6. CountInv'
    BY <1>1, <1>2 DEF IndInv, CountInv
<1>7. GenerationInv'
    BY <1>0, <1>1, <1>2 DEF IndInv, GenerationInv
<1>8. BootInv' /\ ReportSound'
    BY <1>0 DEF BootInv, ReportSound, Booted
<1> QED BY <1>3, <1>4, <1>5, <1>6, <1>7, <1>8 DEF IndInv
\* A warm reset finds the record that the count covers complete.
LEMMA Warm_ResetInv == IndInv /\ ~booting /\ Warm_Reset => IndInv'
<1> SUFFICES ASSUME IndInv, ~booting, Warm_Reset PROVE IndInv'
    OBVIOUS
<1> USE DEF Warm_Reset, Restart
<1> DEFINE act == {d \in CPUs : pc[d] \in Activated}
<1>0. \A d \in CPUs : pc'[d] = "run"
    OBVIOUS
<1>1. act \subseteq {d \in CPUs : pc[d] \in Allocated}
    BY DEF Allocated, Recorded, Counted
<1>2. /\ last'.allocated = Global_Next_Slot - 1
      /\ last'.done = {slot[d] : d \in act}
    OBVIOUS
<1>3. TypeOK'
  <2>1. booting' \in BOOLEAN
      OBVIOUS
  <2>2. pc' \in [CPUs -> Control]
      BY DEF Control
  <2>3. {slot[d] : d \in act} \subseteq Index
      BY <1>1 DEF IndInv, SlotInv
  <2>4. Global_Next_Slot - 1 \in Nat
      BY DEF IndInv, TypeOK
  <2>5. last' \in [allocated : Nat, done : SUBSET Index]
      BY <2>3, <2>4
  <2> QED BY <2>1, <2>2, <2>5 DEF IndInv, TypeOK
<1>4. SlotInv' /\ RecordInv' /\ CountInv'
    BY <1>0 DEF SlotInv, RecordInv, RecordIntact, CountInv, Allocated, Recorded, Counted, Activated
<1>5. GenerationInv' /\ ReportSound'
    BY DEF GenerationInv, ReportSound, Booted
<1>6. BootInv'
  <2>1. last'.done # {} <=> \E d \in CPUs : pc[d] \in Activated
      BY <1>2
  <2>2. /\ header.Version_Magic = Crash_Magic
        /\ header.Generation <= header.Boot_Count + 1
        /\ header.Generation = header.Boot_Count + 1 <=> last'.done # {}
      BY <2>1 DEF IndInv, GenerationInv
  <2>3. ASSUME last'.done # {}
        PROVE  /\ header.Dump_Count <= last'.allocated
               /\ \E i \in 1 .. header.Dump_Count, c \in CPUs :
                    data[i] = Complete(c, header.Boot_Count)
    <3>1. /\ header.Dump_Count < Global_Next_Slot
          /\ \E c \in CPUs : pc[c] \in Counted /\ slot[c] <= header.Dump_Count
        BY <2>1, <2>3 DEF IndInv, CountInv, Counted
    <3>2. PICK c \in CPUs : pc[c] \in Counted /\ slot[c] <= header.Dump_Count
        BY <3>1
    <3>3. slot[c] \in 1 .. header.Dump_Count
        BY <3>2 DEF IndInv, SlotInv, TypeOK, Allocated, Recorded
    <3>4. data[slot[c]] = Complete(c, header.Boot_Count)
        BY <3>2 DEF IndInv, RecordInv, RecordIntact, Recorded
    <3>5. header.Dump_Count <= last'.allocated
        BY <1>2, <3>1 DEF IndInv, TypeOK
    <3> QED BY <3>3, <3>4, <3>5
  <2> QED BY <1>0, <2>2, <2>3 DEF BootInv
<1> QED BY <1>3, <1>4, <1>5, <1>6 DEF IndInv

\* A power cycle leaves nothing to report.
LEMMA Power_CycleInv == IndInv /\ Power_Cycle => IndInv'
<1> SUFFICES ASSUME IndInv, Power_Cycle PROVE IndInv'
    OBVIOUS
<1> USE DEF Power_Cycle, Restart, NothingLeft
<1>0. \A d \in CPUs : pc'[d] = "run"
    OBVIOUS
<1>1. header'.Version_Magic # Crash_Magic
    BY DEF IndInv, TypeOK
<1>2. TypeOK'
  <2>1. booting' \in BOOLEAN
      OBVIOUS
  <2>2. pc' \in [CPUs -> Control]
      BY DEF Control
  <2>3. header' \in [Version_Magic : Magics, Generation : Nat, Boot_Count : Nat,
                     Crash_Count : Nat, Dump_Count : 0 .. Max_Dumps]
      BY DEF IndInv, TypeOK
  <2>4. last' \in [allocated : Nat, done : SUBSET Index]
      OBVIOUS
  <2> QED BY <2>1, <2>2, <2>3, <2>4 DEF IndInv, TypeOK
<1>3. SlotInv' /\ RecordInv' /\ CountInv'
    BY <1>0 DEF SlotInv, RecordInv, RecordIntact, CountInv, Allocated, Recorded, Counted, Activated
<1>4. GenerationInv' /\ ReportSound' /\ BootInv'
    BY <1>0, <1>1 DEF GenerationInv, ReportSound, Booted, BootInv
<1> QED BY <1>2, <1>3, <1>4 DEF IndInv

\* Nothing changes, nothing breaks.
LEMMA StutterInv == IndInv /\ UNCHANGED vars => IndInv'
  BY DEF IndInv, vars, TypeOK, SlotInv, RecordInv, RecordIntact, CountInv, GenerationInv,
         BootInv, ReportSound, Active, Booted

\* Every step of the crash audit keeps the invariant, for any number of CPUs that
\* crash at the same time and with a reset after any of their writes.
THEOREM Invariance == Safety => []IndInv
<1>1. Init => IndInv
    BY InitInv
<1>2. IndInv /\ [Next]_vars => IndInv'
  <2> SUFFICES ASSUME IndInv, [Next]_vars PROVE IndInv'
      OBVIOUS
  <2>1. CASE Crash_Audit_Init
      BY <2>1, Crash_Audit_InitInv
  <2>2. CASE Power_Cycle
      BY <2>2, Power_CycleInv
  <2>3. CASE Reset_Button
      BY <2>3, Warm_ResetInv DEF Reset_Button
  <2>4. ASSUME NEW c \in CPUs, Crash(c) \/ Handle_Error(c) PROVE IndInv'
    <3>1. CASE Crash(c)
        BY <3>1, CrashInv
    <3>2. CASE Get_And_Inc(c)
        BY <3>2, Get_And_IncInv
    <3>3. CASE Clear(c) \/ Set_APIC_ID(c) \/ Set_Reason(c)
        BY <3>3, RecordSteps
    <3>4. CASE Read_Next(c)
        BY <3>4, Read_NextInv
    <3>5. CASE Set_Dump_Count(c)
        BY <3>5, Set_Dump_CountInv
    <3>6. CASE Set_Generation(c)
        BY <3>6, Set_GenerationInv
    <3>7. CASE Atomic_Inc_Crash_Count(c)
        BY <3>7, Atomic_Inc_Crash_CountInv
    <3>8. CASE Reboot(c)
      <4>1. ~booting
          BY <3>8, Holder DEF Reboot, Allocated, Recorded, Counted, Activated
      <4> QED BY <3>8, <4>1, Warm_ResetInv DEF Reboot
    <3> QED BY <2>4, <3>1, <3>2, <3>3, <3>4, <3>5, <3>6, <3>7, <3>8 DEF Handle_Error
  <2>5. CASE UNCHANGED vars
      BY <2>5, StutterInv
  <2> QED BY <2>1, <2>2, <2>3, <2>4, <2>5 DEF Next
<1> QED BY <1>1, <1>2, PTL DEF Safety

\* The record a CPU has completed is never overwritten before the reset, although
\* Allocate synchronises the CPUs by one atomic increment only.
THEOREM RecordsPrivate == Safety => []RecordIntact
<1>1. IndInv => RecordIntact
    BY DEF IndInv, RecordInv
<1> QED BY <1>1, Invariance, PTL

\* After any reset dbgserver reports a dump exactly if one was finished in the boot
\* before, and the report holds a complete record of that boot.
THEOREM ReportCorrect == Safety => []ReportSound
<1>1. IndInv => ReportSound
    BY DEF IndInv
<1> QED BY <1>1, Invariance, PTL
=============================================================================
