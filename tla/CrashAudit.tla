----------------------------- MODULE CrashAudit -----------------------------
(***************************************************************************)
(* The crash audit (SK.Crash_Audit).  CPUs that meet a fatal error record  *)
(* it in a memory page that survives a warm reset and then restart the     *)
(* machine; after the restart the records are reported if the generation   *)
(* in the header equals the boot count.  Any number of CPUs may crash at   *)
(* the same time; there is no lock, only two atomic increments.            *)
(*                                                                         *)
(* One action per access to the shared page.  Boot_Count is only written   *)
(* while a single CPU runs, so that the local copy Boots of Finalize is    *)
(* read where it is used.  The delay before the reset orders nothing in    *)
(* this model: the reset may come at any time after it was begun.          *)
(***************************************************************************)
EXTENDS Naturals, FiniteSets

CONSTANTS CPUs,        \* the CPUs, by APIC ID
          Max_Dumps,   \* number of records in the page
          MaxBoots     \* bound: no crash or reset from this boot on

ASSUME CPUsAssumption == CPUs # {}
ASSUME Max_DumpsAssumption == Max_Dumps \in Nat \ {0}
ASSUME MaxBootsAssumption == MaxBoots \in Nat \ {0}

VARIABLES
  booting,           \* the BSP has not called Crash_Audit.Init yet
  pc,                \* where each CPU is
  slot,              \* Audit.Slot of each CPU
  next,              \* Next, the local constant of Finalize
  Global_Next_Slot,
  header,            \* Instance.Crash_Info.Header
  data,              \* Instance.Crash_Info.Data
  last               \* history: what the boot before this one left

vars == <<booting, pc, slot, next, Global_Next_Slot, header, data, last>>

Index == 1 .. Max_Dumps

\* Control points of a CPU, in program order.
Activated == {"crashes", "delay"}
Counted   == {"generation"} \cup Activated
Recorded  == {"next", "count"} \cup Counted
Allocated == {"clear", "id", "reason"} \cup Recorded
Control   == {"run", "alloc", "stopped"} \cup Allocated

\* The version magic of the code, and any other content of the field.
Crash_Magic == "magic"
NoMagic     == "other"
Magics      == {Crash_Magic, NoMagic}

\* Reason_Undefined, and any reason with its context.
Undefined == "undefined"
ReasonSet == "set"
Reasons   == {Undefined, ReasonSet}

\* A record: the CPU it is about, whether its reason and context are set, and
\* (history) the boot it was cleared in.  CPU 0 of the code's null record is
\* told apart as no CPU.
Record == [APIC_ID : SUBSET CPUs, Reason : Reasons, boot : Nat]
Null_Dumpdata(boot) == [APIC_ID |-> {}, Reason |-> Undefined, boot |-> boot]
Complete(c, boot)   == [APIC_ID |-> {c}, Reason |-> ReasonSet, boot |-> boot]

Null_Header ==
  [Version_Magic |-> Crash_Magic, Generation |-> 0, Boot_Count |-> 1,
   Crash_Count |-> 0, Dump_Count |-> 0]

NothingLeft == [allocated |-> 0, done |-> {}]

TypeOK ==
  /\ booting \in BOOLEAN
  /\ pc \in [CPUs -> Control]
  /\ slot \in [CPUs -> 0 .. Max_Dumps]
  /\ next \in [CPUs -> Nat]
  /\ Global_Next_Slot \in Nat \ {0}
  /\ header \in [Version_Magic : Magics, Generation : Nat, Boot_Count : Nat,
                 Crash_Count : Nat, Dump_Count : 0 .. Max_Dumps]
  /\ data \in [Index -> Record]
  /\ last \in [allocated : Nat, done : SUBSET Index]

\* Power-on: the page holds no valid header.
Init ==
  /\ booting = TRUE
  /\ pc = [c \in CPUs |-> "run"]
  /\ slot = [c \in CPUs |-> 0]
  /\ next = [c \in CPUs |-> 1]
  /\ Global_Next_Slot = 1
  /\ header = [Null_Header EXCEPT !.Version_Magic = NoMagic]
  /\ data = [i \in Index |-> Null_Dumpdata(0)]
  /\ last = NothingLeft
-----------------------------------------------------------------------------
Goto(c, label) == pc' = [pc EXCEPT ![c] = label]

\* MUTANT of Crash_Audit_Init: the boot is not counted.
Crash_Audit_Init_NoCount ==
  /\ booting
  /\ booting' = FALSE
  /\ IF header.Version_Magic = Crash_Magic THEN UNCHANGED <<header, data>>
                     ELSE /\ header' = Null_Header
                          /\ data' = [i \in Index |-> Null_Dumpdata(0)]
  /\ UNCHANGED <<pc, slot, next, Global_Next_Slot, last>>

\* Init: a page without the magic number is cleared, otherwise the boot is
\* counted and the records are kept.
Crash_Audit_Init ==
  /\ booting
  /\ booting' = FALSE
  /\ IF header.Version_Magic = Crash_Magic THEN /\ header' = [header EXCEPT !.Boot_Count = header.Boot_Count + 1]
                          /\ UNCHANGED data
                     ELSE /\ header' = Null_Header
                          /\ data' = [i \in Index |-> Null_Dumpdata(0)]
  /\ UNCHANGED <<pc, slot, next, Global_Next_Slot, last>>

\* A CPU meets an exception, a VMX or VT-d error, a panic or a failed check.
Crash(c) ==
  /\ ~booting
  /\ pc[c] = "run"
  /\ header.Boot_Count < MaxBoots
  /\ Goto(c, "alloc")
  /\ UNCHANGED <<booting, slot, next, Global_Next_Slot, header, data, last>>

\* MUTANT of Get_And_Inc: a CPU that comes too late takes the last record.
Get_And_Inc_Reuse(c) ==
  /\ pc[c] = "alloc"
  /\ Global_Next_Slot' = Global_Next_Slot + 1
  /\ slot' = [slot EXCEPT ![c] = IF Global_Next_Slot > Max_Dumps THEN Max_Dumps
                                                                ELSE Global_Next_Slot]
  /\ Goto(c, "clear")
  /\ UNCHANGED <<booting, next, header, data, last>>

\* Allocate takes a slot with "lock xadd"; without a free one the CPU stops.
Get_And_Inc(c) ==
  /\ pc[c] = "alloc"
  /\ Global_Next_Slot' = Global_Next_Slot + 1
  /\ IF Global_Next_Slot > Max_Dumps
     THEN Goto(c, "stopped") /\ UNCHANGED slot
     ELSE Goto(c, "clear") /\ slot' = [slot EXCEPT ![c] = Global_Next_Slot]
  /\ UNCHANGED <<booting, next, header, data, last>>

\* Allocate clears the record ...
Clear(c) ==
  /\ pc[c] = "clear"
  /\ data' = [data EXCEPT ![slot[c]] = Null_Dumpdata(header.Boot_Count)]
  /\ Goto(c, "id")
  /\ UNCHANGED <<booting, slot, next, Global_Next_Slot, header, last>>

\* ... and enters the CPU and the time.
Set_APIC_ID(c) ==
  /\ pc[c] = "id"
  /\ data' = [data EXCEPT ![slot[c]].APIC_ID = {c}]
  /\ Goto(c, "reason")
  /\ UNCHANGED <<booting, slot, next, Global_Next_Slot, header, last>>

\* Set_Reason and the Set_..._Context calls of the CPU's error handler.
Set_Reason(c) ==
  /\ pc[c] = "reason"
  /\ data' = [data EXCEPT ![slot[c]].Reason = ReasonSet]
  /\ Goto(c, "next")
  /\ UNCHANGED <<booting, slot, next, Global_Next_Slot, header, last>>

\* Finalize reads the next slot ...
Read_Next(c) ==
  /\ pc[c] = "next"
  /\ next' = [next EXCEPT ![c] = Global_Next_Slot]
  /\ Goto(c, "count")
  /\ UNCHANGED <<booting, slot, Global_Next_Slot, header, data, last>>

\* The number of records for a given next slot.
dump_count(n) == IF n > Max_Dumps THEN Max_Dumps ELSE n - 1

\* ... and computes the number of records from it.
Set_Dump_Count(c) ==
  /\ pc[c] = "count"
  /\ header' = [header EXCEPT !.Dump_Count = dump_count(next[c])]
  /\ Goto(c, "generation")
  /\ UNCHANGED <<booting, slot, next, Global_Next_Slot, data, last>>

\* The dump becomes active for the next boot (with the version string).
Set_Generation(c) ==
  /\ pc[c] = "generation"
  /\ header' = [header EXCEPT !.Generation = header.Boot_Count + 1]
  /\ Goto(c, "crashes")
  /\ UNCHANGED <<booting, slot, next, Global_Next_Slot, data, last>>

\* "lock incq"; then the delay before the reset.
Atomic_Inc_Crash_Count(c) ==
  /\ pc[c] = "crashes"
  /\ header' = [header EXCEPT !.Crash_Count = header.Crash_Count + 1]
  /\ Goto(c, "delay")
  /\ UNCHANGED <<booting, slot, next, Global_Next_Slot, data, last>>

\* MUTANT of Restart: the slot index survives the reset like the records.
Restart_KeepsSlot ==
  /\ booting' = TRUE
  /\ pc' = [c \in CPUs |-> "run"]
  /\ slot' = [c \in CPUs |-> 0]
  /\ next' = [c \in CPUs |-> 1]
  /\ UNCHANGED Global_Next_Slot

\* All CPUs stop and the kernel image is loaded anew.
Restart ==
  /\ booting' = TRUE
  /\ pc' = [c \in CPUs |-> "run"]
  /\ slot' = [c \in CPUs |-> 0]
  /\ next' = [c \in CPUs |-> 1]
  /\ Global_Next_Slot' = 1

\* A warm reset: the page keeps its content.  The history notes how many slots
\* were given out and which CPUs had completed their record and activated it.
Warm_Reset ==
  /\ Restart
  /\ last' = [allocated |-> Global_Next_Slot - 1,
              done      |-> {slot[c] : c \in {d \in CPUs : pc[d] \in Activated}}]
  /\ UNCHANGED <<header, data>>

\* Finalize ends with a warm reset.
Reboot(c) ==
  /\ pc[c] = "delay"
  /\ Warm_Reset

\* Somebody else resets the machine, with or without a crash in progress.
Reset_Button ==
  /\ ~booting
  /\ header.Boot_Count < MaxBoots
  /\ Warm_Reset

\* A subject's system event power-cycles the machine: the page loses its content.
Power_Cycle ==
  /\ ~booting
  /\ Restart
  /\ header' = [header EXCEPT !.Version_Magic = NoMagic]
  /\ last' = NothingLeft
  /\ UNCHANGED data

Handle_Error(c) ==
  \/ Get_And_Inc(c) \/ Clear(c) \/ Set_APIC_ID(c) \/ Set_Reason(c)
  \/ Read_Next(c) \/ Set_Dump_Count(c) \/ Set_Generation(c)
  \/ Atomic_Inc_Crash_Count(c) \/ Reboot(c)

Next ==
  \/ Crash_Audit_Init
  \/ Power_Cycle \/ Reset_Button
  \/ \E c \in CPUs : Crash(c) \/ Handle_Error(c)

Safety == Init /\ [][Next]_vars

\* The kernel code of a CPU is not preempted and has no loop here.
Spec == Safety /\ WF_vars(Crash_Audit_Init) /\ \A c \in CPUs : WF_vars(Handle_Error(c))
-----------------------------------------------------------------------------
\* The page as dbgserver's Process sees it: an active dump is reported.
Active == header.Version_Magic = Crash_Magic /\ header.Boot_Count = header.Generation

\* Booted, and no CPU has crashed since.
Booted == ~booting /\ Global_Next_Slot = 1

\* However many CPUs crash at once, each one's record stays as that CPU wrote it
\* until the reset: no two share a slot, and latecomers overwrite nothing.
RecordIntact ==
  \A c \in CPUs : pc[c] \in Recorded => data[slot[c]] = Complete(c, header.Boot_Count)

\* A dump is reported after a reset in which some CPU had finished its record, and
\* after no other: an old dump is not reported again by a later boot.  The report
\* counts no more records than were allocated in the boot that crashed, and among
\* them is at least one that a CPU of that boot completed, although the header is
\* written by several CPUs in any order and the reset may come between any two
\* writes.
ReportSound ==
  Booted =>
    /\ Active <=> last.done # {}
    /\ Active => /\ header.Dump_Count <= last.allocated
                 /\ \E i \in 1 .. header.Dump_Count, c \in CPUs :
                      data[i] = Complete(c, header.Boot_Count - 1)

\* The slots handed out are different and lie below the next one.
SlotInv ==
  /\ \A c \in CPUs : pc[c] \in Allocated => slot[c] \in Index /\ slot[c] < Global_Next_Slot
  /\ \A c, d \in CPUs :
       pc[c] \in Allocated /\ pc[d] \in Allocated /\ c # d => slot[c] # slot[d]

\* What a CPU has written into its record so far.
RecordInv ==
  /\ RecordIntact
  /\ \A c \in CPUs :
       /\ pc[c] = "id" => data[slot[c]] = Null_Dumpdata(header.Boot_Count)
       /\ pc[c] = "reason" =>
            data[slot[c]] = [APIC_ID |-> {c}, Reason |-> Undefined, boot |-> header.Boot_Count]

\* A CPU counts its own record at least, so that the last one to write the count
\* leaves one that covers a complete record.
CountInv ==
  /\ \A c \in CPUs : pc[c] = "count" => slot[c] < next[c] /\ next[c] <= Global_Next_Slot
  /\ (\E c \in CPUs : pc[c] \in Counted) =>
       /\ header.Dump_Count < Global_Next_Slot
       /\ \E c \in CPUs : pc[c] \in Counted /\ slot[c] <= header.Dump_Count

\* The generation is ahead of the boot count exactly when a CPU has activated the
\* dump.
GenerationInv ==
  ~booting =>
    /\ header.Version_Magic = Crash_Magic
    /\ header.Generation <= header.Boot_Count + 1
    /\ header.Generation = header.Boot_Count + 1 <=> \E c \in CPUs : pc[c] \in Activated

\* What a reset leaves for Crash_Audit.Init.
BootInv ==
  booting =>
    /\ Global_Next_Slot = 1 /\ \A c \in CPUs : pc[c] = "run"
    /\ header.Version_Magic # Crash_Magic => last = NothingLeft
    /\ header.Version_Magic = Crash_Magic =>
         /\ header.Generation <= header.Boot_Count + 1
         /\ header.Generation = header.Boot_Count + 1 <=> last.done # {}
         /\ last.done # {} =>
              /\ header.Dump_Count <= last.allocated
              /\ \E i \in 1 .. header.Dump_Count, c \in CPUs :
                   data[i] = Complete(c, header.Boot_Count)

\* The inductive invariant of the crash audit: slots are private, records are as
\* far as their CPUs are, and count and generation agree with the CPUs' progress
\* before a reset and with the records after it.
IndInv == TypeOK /\ SlotInv /\ RecordInv /\ CountInv /\ GenerationInv /\ BootInv /\ ReportSound

\* A CPU that crashes makes the machine restart, also when there are more crashes
\* than records.
CrashRestarts == (\E c \in CPUs : pc[c] = "alloc") ~> booting

\* Every CPU that finished its record before the reset finds it in the report
\* ("The procedure spins 100 ms before hitting reset to give other cores time to
\* write their dumps", sk-crash_audit.ads).  Does not hold: a CPU may write a count
\* that it computed before another CPU allocated, completed and counted its record.
AllReported == Booted => last.done \subseteq 1 .. header.Dump_Count
=============================================================================
