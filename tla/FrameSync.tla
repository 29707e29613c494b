----------------------------- MODULE FrameSync ------------------------------
(***************************************************************************)
(* Frame switching on all CPUs: the boot rendezvous of SK.Kernel.Initialize *)
(* and SK.Scheduler.Update_Scheduling_Info, over the barriers of SK.MP.     *)
(* Every CPU walks through its own list of minor frames; CPUs meet at minor *)
(* frame barriers and, at the end of a major frame, at the all-CPU barrier, *)
(* where the BSP alone chooses the next major frame and rewrites the global *)
(* scheduling data and the minor frame barriers the others use unlocked.    *)
(***************************************************************************)
EXTENDS Barriers, Integers, FiniteSets, Sequences

CONSTANTS CPUs, BSP,
          Majors,       \* Major_Frame_Range
          FirstMajor,   \* Major_Frame_Range'First
          Plans,        \* Plans[m][c]: the deadlines of c's minor frames in m
          WordSize,     \* 2^64 in the code: TSC values are Word64
          BootSkew      \* largest TSC distance of the CPUs' RDTSC in Init

Ticks == 0 .. WordSize - 1

\* The policy: deadlines grow, and all CPUs end a major frame at the same tick
\* (Major_Frame_Ticks in the policy validator).
ASSUME PlanAssumption ==
  /\ IsFiniteSet(CPUs) /\ Cardinality(CPUs) \in 1 .. ByteSize - 1
  /\ BSP \in CPUs /\ FirstMajor \in Majors
  /\ WordSize \in Nat \ {0} /\ BootSkew \in Ticks
  /\ \A m \in Majors, c \in CPUs :
       /\ Plans[m][c] \in Seq(1 .. WordSize - 1) /\ Len(Plans[m][c]) >= 1
       /\ \A i, j \in 1 .. Len(Plans[m][c]) : i < j => Plans[m][c][i] < Plans[m][c][j]
       /\ Plans[m][c][Len(Plans[m][c])] = Plans[m][BSP][Len(Plans[m][BSP])]

-----------------------------------------------------------------------------
(* The policy data the kernel reads (Skp.Scheduling) *)

Length(m, c) == Len(Plans[m][c])

Deadline(m, c, i) == Plans[m][c][i]

Period(m) == Deadline(m, BSP, Length(m, BSP))

\* Add_Barrier_Configs: minor frames of several CPUs with the same deadline,
\* the end of the major frame excepted, share a barrier; barriers are numbered
\* by ascending deadline and sized by the number of frames.
Users(m, t) == {c \in CPUs : \E i \in 1 .. Length(m, c) : Deadline(m, c, i) = t}

SyncPoints(m) ==
  {t \in 1 .. Period(m) - 1 : Cardinality(Users(m, t)) > 1}

BarrierID(m, t) == Cardinality({u \in SyncPoints(m) : u <= t})

Barrier_Range == UNION {1 .. Cardinality(SyncPoints(m)) : m \in Majors}

\* MUTANT of Barrier_Config: the first frame of a barrier is not counted.
Barrier_Config_Short(m) ==
  [b \in Barrier_Range |->
     IF \E t \in SyncPoints(m) : BarrierID(m, t) = b
       THEN Cardinality(Users(m, CHOOSE t \in SyncPoints(m) : BarrierID(m, t) = b)) - 1
       ELSE 0]

Barrier_Config(m) ==
  [b \in Barrier_Range |->
     IF \E t \in SyncPoints(m) : BarrierID(m, t) = b
       THEN Cardinality(Users(m, CHOOSE t \in SyncPoints(m) : BarrierID(m, t) = b))
       ELSE 0]

\* Global_All_Barrier is entry 0 of the model's array, Global_Minor_Frame_Barriers
\* the others.
All == 0

-----------------------------------------------------------------------------
VARIABLES
  barriers,      \* MP.Barrier
  global_major,  \* Global_Current_Major_Frame_ID
  global_start,  \* Global_Current_Major_Start_Cycles
  minor,         \* minor[c]: Current_Minor_Frame_ID of c
  pc,            \* what c does next
  cur,           \* cur[c]: Current_Major_ID and Current_Major_Frame_Start, the
                 \*   constants Update_Scheduling_Info saves on entry
  wait,          \* wait[c]: the locals of c's call of Barriers.Wait
  info,          \* info[c]: the scheduling info c published last
  timer          \* timer[c]: the absolute deadline c programmed last

globals == <<global_major, global_start>>
vars == <<barriers, globals, minor, pc, cur, wait, info, timer>>

Goto(c, from, to) == pc[c] = from /\ pc' = [pc EXCEPT ![c] = to]

\* A call of Wait on barrier b; the caller continues at ret.
WaitCall(b, ret) == [on |-> b, ret |-> ret, size |-> 0, sense |-> FALSE]

Init ==
  /\ barriers = [b \in Barrier_Range \cup {All} |-> Initialize(0)]
  /\ global_major = FirstMajor
  /\ global_start = 0
  /\ minor = [c \in CPUs |-> 1]
  /\ pc = [c \in CPUs |-> IF c = BSP THEN "boot" ELSE "off"]
  /\ cur = [c \in CPUs |-> [major |-> FirstMajor, start |-> 0]]
  /\ wait = [c \in CPUs |-> WaitCall(All, "init")]
  /\ info = [c \in CPUs |-> [start |-> 0, end |-> 0]]
  /\ timer = [c \in CPUs |-> 0]

-----------------------------------------------------------------------------
(* SK.Barriers.Wait, one shared access per step *)

ReadSense(c) ==
  /\ Goto(c, "read", "xadd")
  /\ wait' = [wait EXCEPT ![c].size = barriers[wait[c].on].Size,
                          ![c].sense = ~barriers[wait[c].on].Sense]
  /\ UNCHANGED <<barriers, globals, minor, cur, info, timer>>

Get_And_Increment(c) ==
  /\ Goto(c, "xadd", IF IsLast(barriers[wait[c].on].Wait_Count, wait[c].size)
                       THEN "reset" ELSE "spin")
  /\ barriers' = [barriers EXCEPT ![wait[c].on] = Incremented(@)]
  /\ UNCHANGED <<globals, minor, cur, wait, info, timer>>

Reset(c) ==
  /\ Goto(c, "reset", "flip")
  /\ barriers' = [barriers EXCEPT ![wait[c].on] = CountReset(@)]
  /\ UNCHANGED <<globals, minor, cur, wait, info, timer>>

Flip(c) ==
  /\ Goto(c, "flip", wait[c].ret)
  /\ barriers' = [barriers EXCEPT ![wait[c].on] = SenseSet(@, wait[c].sense)]
  /\ UNCHANGED <<globals, minor, cur, wait, info, timer>>

Spin(c) ==
  /\ Goto(c, "spin", wait[c].ret)
  /\ barriers[wait[c].on].Sense = wait[c].sense
  /\ UNCHANGED <<barriers, globals, minor, cur, wait, info, timer>>

Wait(c) == ReadSense(c) \/ Get_And_Increment(c) \/ Reset(c) \/ Flip(c) \/ Spin(c)

-----------------------------------------------------------------------------
(* Boot *)

\* SK.Kernel.Initialize on the BSP up to the first rendezvous: only after it
\* has initialised the all-CPU barrier does it start the other processors,
\* which then run to the same Wait_For_All.
Start_AP_Processors ==
  /\ pc[BSP] = "boot"
  /\ barriers' = [barriers EXCEPT ![All] = Initialize(Cardinality(CPUs))]
  /\ pc' = [c \in CPUs |-> "read"]
  /\ UNCHANGED <<globals, minor, cur, wait, info, timer>>

\* Set_Minor_Frame_Barrier_Config.
Set_Minor_Frame_Barrier_Config(m) ==
  barriers' = [b \in DOMAIN barriers |->
                 IF b = All THEN barriers[All] ELSE Initialize(Barrier_Config(m)[b])]

\* Scheduler.Init between the two boot rendezvous.  Every CPU reads its own
\* TSC; the BSP's reading becomes the start of the first major frame.
Scheduler_Init(c) ==
  /\ Goto(c, "init", "read")
  /\ wait' = [wait EXCEPT ![c] = WaitCall(All, "entry")]
  /\ \E now \in 0 .. BootSkew :
       /\ info' = [info EXCEPT ![c] =
                     [start |-> now,
                      end |-> (now + Deadline(FirstMajor, c, 1)) % WordSize]]
       /\ IF c = BSP
            THEN /\ Set_Minor_Frame_Barrier_Config(FirstMajor)
                 /\ global_start' = now
            ELSE UNCHANGED <<barriers, global_start>>
  /\ UNCHANGED <<global_major, minor, cur, timer>>

-----------------------------------------------------------------------------
(* A VM exit *)

\* MUTANT of Set_VMX_Exit_Timer: the major frame start saved before the switch.
Set_Timer_Stale_Start(c) ==
  /\ Goto(c, "entry", "guest")
  /\ timer' = [timer EXCEPT ![c] =
                 (cur[c].start + Deadline(global_major, c, minor[c])) % WordSize]
  /\ UNCHANGED <<barriers, globals, minor, cur, wait, info>>

\* Set_VMX_Exit_Timer: the deadline is computed anew from the globals.
Set_VMX_Exit_Timer(c) ==
  /\ Goto(c, "entry", "guest")
  /\ timer' = [timer EXCEPT ![c] =
                 (global_start + Deadline(global_major, c, minor[c])) % WordSize]
  /\ UNCHANGED <<barriers, globals, minor, cur, wait, info>>

\* Any exit but the timer's: the handler ends with Set_VMX_Exit_Timer.
Other_Exit(c) ==
  /\ Goto(c, "guest", "entry")
  /\ UNCHANGED <<barriers, globals, minor, cur, wait, info, timer>>

\* Update_Scheduling_Info up to its first barrier.
Update_Scheduling_Info(c) ==
  LET m == global_major
      t == Deadline(m, c, minor[c])
      synced == minor[c] < Length(m, c) /\ t \in SyncPoints(m)
      last == minor[c] >= Length(m, c)
  IN /\ Goto(c, "guest", IF synced \/ last THEN "read" ELSE "publish")
     /\ cur' = [cur EXCEPT ![c] = [major |-> m, start |-> global_start]]
     /\ wait' = [wait EXCEPT ![c] =
          IF last THEN WaitCall(All, IF c = BSP THEN "major" ELSE "again")
          ELSE IF synced THEN WaitCall(BarrierID(m, t), "publish")
          ELSE @]
     /\ UNCHANGED <<barriers, globals, minor, info, timer>>

\* MUTANT of Wait_Again: an AP does not wait for the BSP's update.
Wait_Again_Skipped(c) ==
  /\ Goto(c, "again", "publish")
  /\ UNCHANGED <<barriers, globals, minor, cur, wait, info, timer>>

\* An AP calls Wait_For_All a second time at once.
Wait_Again(c) ==
  /\ Goto(c, "again", "read")
  /\ wait' = [wait EXCEPT ![c] = WaitCall(All, "publish")]
  /\ UNCHANGED <<barriers, globals, minor, cur, info, timer>>

\* Between the two rendezvous the BSP takes the next major frame from Tau0,
\* which may designate any, and publishes ID and start in two writes.
Set_Major_ID(c) ==
  /\ Goto(c, "major", "start")
  /\ global_major' \in Majors
  /\ UNCHANGED <<barriers, global_start, minor, cur, wait, info, timer>>

Set_Major_Start(c) ==
  /\ Goto(c, "start", "config")
  /\ global_start' = (global_start + Period(cur[c].major)) % WordSize
  /\ UNCHANGED <<barriers, global_major, minor, cur, wait, info, timer>>

Set_Barrier_Config(c) ==
  /\ Goto(c, "config", "read")
  /\ IF global_major # cur[c].major
       THEN Set_Minor_Frame_Barrier_Config(global_major)
       ELSE UNCHANGED barriers
  /\ wait' = [wait EXCEPT ![c] = WaitCall(All, "publish")]
  /\ UNCHANGED <<globals, minor, cur, info, timer>>

\* MUTANT of Publish: Current_Minor_Frame_ID is not advanced.
Publish_Same_Frame(c) ==
  /\ Goto(c, "publish", "entry")
  /\ info' = [info EXCEPT ![c].start =
                 (cur[c].start + Deadline(cur[c].major, c, minor[c])) % WordSize]
  /\ UNCHANGED <<barriers, globals, minor, cur, wait, timer>>

\* The end of Update_Scheduling_Info: next minor frame, scheduling info.
Publish(c) ==
  LET next == IF minor[c] < Length(cur[c].major, c) THEN minor[c] + 1 ELSE 1
  IN /\ Goto(c, "publish", "entry")
     /\ minor' = [minor EXCEPT ![c] = next]
     /\ info' = [info EXCEPT ![c] =
          [start |-> (cur[c].start + Deadline(cur[c].major, c, minor[c])) % WordSize,
           end |-> (global_start + Deadline(global_major, c, next)) % WordSize]]
     /\ UNCHANGED <<barriers, globals, cur, wait, timer>>

Handler(c) ==
  \/ Wait(c)
  \/ Scheduler_Init(c)
  \/ Set_VMX_Exit_Timer(c)
  \/ Wait_Again(c)
  \/ Set_Major_ID(c) \/ Set_Major_Start(c) \/ Set_Barrier_Config(c)
  \/ Publish(c)

Next ==
  \/ Start_AP_Processors
  \/ \E c \in CPUs : Handler(c) \/ Update_Scheduling_Info(c) \/ Other_Exit(c)

Safety == Init /\ [][Next]_vars

\* Kernel code runs to completion.  The preemption timer fires in the end, even
\* if the guest exits for other reasons again and again before it does.
Spec ==
  /\ Safety
  /\ WF_vars(Start_AP_Processors)
  /\ \A c \in CPUs : WF_vars(Handler(c)) /\ SF_vars(Update_Scheduling_Info(c))

-----------------------------------------------------------------------------
(* Properties *)

\* Every variable keeps its type.
TypeOK ==
  /\ barriers \in [Barrier_Range \cup {All} -> Sense_Barrier_Type]
  /\ global_major \in Majors /\ global_start \in Ticks
  /\ minor \in [CPUs -> Nat]
  /\ pc \in [CPUs -> {"boot", "off", "init", "entry", "guest", "publish", "again",
                      "major", "start", "config",
                      "read", "xadd", "spin", "reset", "flip"}]
  /\ cur \in [CPUs -> [major : Majors, start : Ticks]]
  /\ wait \in [CPUs -> [on : Barrier_Range \cup {All}, size : Byte, sense : BOOLEAN,
                        ret : {"init", "entry", "major", "again", "publish"}]]
  /\ info \in [CPUs -> [start : Ticks, end : Ticks]]
  /\ timer \in [CPUs -> Ticks]

\* A subject never runs under scheduling data that changed beneath it: as long
\* as a CPU runs a guest, computing the deadline again from the unlocked
\* globals (as Set_VMX_Exit_Timer does on every exit) gives the value programmed
\* when the frame began.
FrameStable ==
  \A c \in CPUs :
    pc[c] = "guest" =>
      /\ minor[c] <= Length(global_major, c)
      /\ timer[c] = (global_start + Deadline(global_major, c, minor[c])) % WordSize

\* The BSP rewrites the minor frame barriers and the globals only while every
\* other CPU is held at the all-CPU barrier: no CPU is inside Wait on a minor
\* frame barrier, none is counted by one, and none is running a guest.
ReconfigurationAlone ==
  pc[BSP] \in {"major", "start", "config"} =>
    /\ \A c \in CPUs \ {BSP} :
         /\ pc[c] \in {"again", "read", "xadd", "spin", "reset", "flip"}
         /\ wait[c].on = All
    /\ \A b \in Barrier_Range : barriers[b].Wait_Count = 0

Waiting == {"read", "xadd", "spin", "reset", "flip"}
On(c, b) == pc[c] \in Waiting /\ wait[c].on = b
Released(c) == pc[c] = "spin" /\ wait[c].sense = barriers[wait[c].on].Sense

\* The CPUs that barrier b holds.
Arrived(b) == {c \in CPUs : /\ On(c, b) /\ pc[c] \in {"spin", "reset", "flip"}
                            /\ wait[c].sense # barriers[b].Sense}

\* The major frame the minor frame barriers are set up for, and who meets at each.
Configured == IF pc[BSP] \in {"start", "config"} THEN cur[BSP].major ELSE global_major
MembersOf(m, b) == {c \in CPUs : \E t \in SyncPoints(m) : BarrierID(m, t) = b /\ c \in Users(m, t)}
Members(b) == IF b = All THEN CPUs ELSE MembersOf(Configured, b)

\* Each barrier counts the CPUs it holds, among those it is meant for, and lets them go
\* together, although they are reused without being initialised.
BarrierSound(b) ==
  /\ \A c \in CPUs : On(c, b) => c \in Members(b) /\ barriers[b].Size = Cardinality(Members(b))
  /\ \A c \in CPUs : On(c, b) /\ pc[c] = "xadd" =>
       wait[c].size = barriers[b].Size /\ wait[c].sense # barriers[b].Sense
  /\ \A c \in CPUs : On(c, b) /\ pc[c] \in {"reset", "flip"} =>
       Arrived(b) = Members(b) /\ wait[c].sense # barriers[b].Sense
  /\ \A c, d \in CPUs : On(c, b) /\ On(d, b) /\ pc[c] \in {"reset", "flip"}
                         /\ pc[d] \in {"reset", "flip"} => c = d
  /\ barriers[b].Wait_Count =
       IF \E c \in CPUs : On(c, b) /\ pc[c] = "flip" THEN 0 ELSE Cardinality(Arrived(b))
BarriersSound ==
  /\ \A b \in Barrier_Range \cup {All} : BarrierSound(b)
  /\ pc[BSP] # "boot" => barriers[All].Size = Cardinality(CPUs)
  /\ wait[BSP].ret # "init" =>
       \A b \in Barrier_Range : barriers[b].Size = Cardinality(Members(b))

\* Between which two of the rendezvous of all CPUs a CPU is: before the first or the
\* second at boot, in a major frame, or at the change of the major frame.
Toward(ret) == CASE ret = "init" -> "boot" [] ret = "entry" -> "init"
                 [] ret \in {"major", "again"} -> "frame" [] OTHER -> "change"
After(ret) == CASE ret = "init" -> "init" [] ret \in {"major", "again"} -> "change"
                [] OTHER -> "frame"
StageAt(at, call, sense) ==
  CASE at \in {"boot", "off"} -> "boot"
    [] at = "init" -> "init"
    [] at \in {"again", "major", "start", "config"} -> "change"
    [] at \in Waiting /\ call.on = All ->
         IF at = "spin" /\ call.sense = sense THEN After(call.ret) ELSE Toward(call.ret)
    [] OTHER -> "frame"
Stage(c) == StageAt(pc[c], wait[c], barriers[wait[c].on].Sense)

\* All CPUs are in the same stage, each on its own way through it.
SameStage == \A c, d \in CPUs : Stage(c) = Stage(d)

OnWay(c) ==
  /\ pc[c] \in {"boot", "major", "start", "config"} => c = BSP
  /\ pc[c] \in {"off", "again"} => c # BSP
  /\ pc[c] \in {"boot", "off", "init"} => wait[c].ret = "init"
  /\ pc[c] \in {"boot", "off", "init", "again"} => wait[c].on = All
  /\ pc[c] \in {"entry", "guest", "publish", "again", "major", "start", "config"} =>
       wait[c].ret # "init"
  /\ pc[c] \in Waiting => /\ wait[c].ret = "major" => c = BSP
                          /\ wait[c].ret = "again" => c # BSP
                          /\ wait[c].on # All => wait[c].ret = "publish"
OwnWay == \A c \in CPUs : OnWay(c)

\* The frame numbers are those of the plan: of the current one in a frame, of the one
\* that ends in Update_Scheduling_Info.
Updating(c) == \/ pc[c] \in {"publish", "again", "major", "start", "config"}
               \/ pc[c] \in Waiting /\ wait[c].ret \in {"major", "again", "publish"}
Midframe(c) == pc[c] = "publish" \/ (pc[c] \in Waiting /\ wait[c].on # All)
FrameValid(c) ==
  /\ pc[c] \in {"boot", "off", "init"} \/ (pc[c] \in Waiting /\ ~Updating(c)) => minor[c] = 1
  /\ ~Updating(c) => minor[c] \in 1 .. Length(global_major, c)
  /\ Updating(c) => /\ minor[c] \in 1 .. Length(cur[c].major, c)
                    /\ minor[c] < Length(cur[c].major, c) =>
                         Midframe(c) /\ cur[c].major = global_major
  /\ pc[c] \in Waiting /\ wait[c].on # All =>
       /\ minor[c] < Length(cur[c].major, c)
       /\ Deadline(global_major, c, minor[c]) \in SyncPoints(global_major)
       /\ wait[c].on = BarrierID(global_major, Deadline(global_major, c, minor[c]))
  /\ pc[c] = "major" \/ (pc[c] \in Waiting /\ wait[c].ret = "major") =>
       cur[c].major = global_major
FramesValid ==
  /\ \A c \in CPUs : FrameValid(c)
  /\ wait[BSP].ret = "init" => global_major = FirstMajor

\* CPU c has passed the common deadline t of the major frame.
Passed(c, t) ==
  \/ Stage(c) = "change"
  \/ /\ Stage(c) = "frame"
     /\ \/ ~Updating(c) /\ Deadline(global_major, c, minor[c]) > t
        \/ On(c, All) /\ wait[c].ret \in {"major", "again"}
        \/ /\ Midframe(c) /\ minor[c] < Length(cur[c].major, c)
           /\ \/ Deadline(global_major, c, minor[c]) > t
              \/ /\ Deadline(global_major, c, minor[c]) = t
                 /\ pc[c] = "publish" \/ Released(c)

\* The CPUs that share a deadline pass it together.
PassedTogether ==
  \A t \in SyncPoints(global_major) :
    \A c, d \in Users(global_major, t) : Passed(c, t) => Passed(d, t)

\* The barriers do their work, the CPUs pass the rendezvous and the common deadlines
\* together, and nobody's frame changes while a subject runs.
Coordinated ==
  /\ TypeOK /\ BarriersSound /\ SameStage /\ OwnWay /\ FramesValid /\ PassedTogether
  /\ FrameStable

\* What holds the CPUs' shared scheduling data together, and what follows from it: the
\* BSP is alone with the data while it changes the frame.
FrameInv == Coordinated /\ ReconfigurationAlone

FrameStart(c) ==
  IF minor[c] = 1 THEN 0 ELSE Deadline(global_major, c, minor[c] - 1)

\* Minor frames that the policy separates by a common deadline do not overlap:
\* when a CPU runs in a frame that began at such a deadline, no CPU sharing the
\* deadline still runs in a frame that ends at or before it.
SyncSeparation ==
  \A c, d \in CPUs :
    (pc[c] = "guest" /\ pc[d] = "guest" /\ FrameStart(c) \in SyncPoints(global_major)
     /\ d \in Users(global_major, FrameStart(c)))
    => Deadline(global_major, d, minor[d]) > FrameStart(c)

\* No barrier ever holds the CPUs for good: every CPU completes major frames
\* for ever, whichever major frames Tau0 designates.
Progress == \A c \in CPUs : []<>(pc[c] = "publish" /\ minor[c] = Length(cur[c].major, c))

\* common/muschedinfo documents TSC_Schedule_End as the end of the minor frame.
InfoEndIsDeadline == \A c \in CPUs : pc[c] = "guest" => info[c].end = timer[c]
=============================================================================
