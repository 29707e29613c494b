----------------------------- MODULE Scheduler ------------------------------
(***************************************************************************)
(* Scheduling inside the partitions of one CPU: SK.Scheduler below the     *)
(* level of frames, and the parts of the VM exit handler (SK.Kernel) that  *)
(* put subjects to sleep, wake them, and deliver events and interrupts.    *)
(*                                                                         *)
(* A partition holds scheduling groups, a group has one active subject.    *)
(* Groups whose active subject is asleep are marked in a bitmap other CPUs *)
(* write too, and wait in a list sorted by the time of their timed event.   *)
(* The kernel code of this CPU is interleaved with another CPU that sends   *)
(* events, with the time stamp counter, and with device interrupts.         *)
(***************************************************************************)
EXTENDS Integers, FiniteSets, FiniteSetsExt, Sequences, SequencesExt

CONSTANTS Partitions,
          Groups,        \* GroupMap[p]: the sequence of p's groups
          GroupMap,
          Subjects,
          GroupOf,       \* GroupOf[s]: the group of a subject
          Initial,       \* Initial[g]: Initial_Subject
          SourceEvents,  \* SourceEvents[s]: what s may trigger by hypercall or timed event
          TrapEvents,    \* TrapEvents[s]: what s triggers by a trap
          RemoteEvents,  \* events another CPU sends to subjects of this one
          IrqSubjects,   \* subjects a device interrupt is routed to
          NoGroup, NoSubject,
          MaxTime        \* bound on the time stamp counter

\* Target events; their number is their priority (highest bit first).
EventIDs == 1 .. 3
NoEvent == 0
TargetKind(e) == <<"no_action", "inject", "reset">>[e]

\* Word64'Last, the trigger value of a cleared timed event.
Never == MaxTime + 1
Time == 0 .. MaxTime

Indices(p) == 1 .. Len(GroupMap[p])
PartitionOf(g) == CHOOSE p \in Partitions : g \in {GroupMap[p][i] : i \in Indices(p)}
IndexOf(g) == CHOOSE i \in Indices(PartitionOf(g)) : GroupMap[PartitionOf(g)][i] = g

SourceEvent == [action : {"none", "sleep", "yield"}, target : Subjects \cup {NoSubject},
                event : EventIDs \cup {NoEvent}, handover : BOOLEAN]
RemoteEvent == [target : Subjects, event : EventIDs, ipi : BOOLEAN]

\* What the policy validators guarantee: every group is in one partition, and a
\* subject hands over only inside its group (Switch_Same_Core); events with an
\* action have no target.
ASSUME PolicyAssumption ==
  /\ MaxTime \in Nat
  /\ \A p \in Partitions : GroupMap[p] \in Seq(Groups) \ {<<>>}
  /\ IsFiniteSet(Groups)
  /\ \A g \in Groups : /\ \E p \in Partitions : \E i \in Indices(p) : GroupMap[p][i] = g
                       /\ Initial[g] \in Subjects /\ GroupOf[Initial[g]] = g
  /\ \A p, q \in Partitions : \A i \in Indices(p), j \in Indices(q) :
       GroupMap[p][i] = GroupMap[q][j] => p = q /\ i = j
  /\ NoGroup \notin Groups /\ NoSubject \notin Subjects
  /\ \A s \in Subjects :
       /\ GroupOf[s] \in Groups
       /\ SourceEvents[s] \subseteq SourceEvent
       /\ TrapEvents[s] \subseteq SourceEvent
       /\ \A e \in SourceEvents[s] \cup TrapEvents[s] :
            /\ e.action # "none" => e.target = NoSubject
            /\ e.handover => e.target \in Subjects /\ GroupOf[e.target] = GroupOf[s]
  /\ RemoteEvents \subseteq RemoteEvent
  /\ IrqSubjects \subseteq Subjects

VARIABLES
  now,      \* the time stamp counter
  part,     \* the partition of the current minor frame
  sp,       \* Scheduling_Partitions
  sg,       \* Scheduling_Groups
  bits,     \* Global_Group_Activity_Indicator: the set bits of each partition
  running,  \* the Running flag of each subject
  hlt,      \* the activity state of each subject is HLT
  intr,     \* an interrupt is pending for the subject
  events,   \* the pending target events of each subject
  timed,    \* the timed event page of each subject
  pc, k,    \* this CPU: what it does next, and the locals of its handlers
  remote,   \* the other CPU: the event it is in the middle of sending
  ipi,      \* an IPI is pending for this CPU
  late      \* history: what expired timed events asked of a halted subject

lists == <<sp, sg>>
subjects == <<running, hlt, intr, events, timed>>
vars == <<now, part, lists, bits, subjects, pc, k, remote, ipi, late>>

NullSource == [action |-> "none", target |-> NoSubject, event |-> NoEvent,
               handover |-> FALSE]
Null_Event == [trigger |-> Never, event |-> NullSource]
Locals(op, sub, ev, ret) ==
  [op |-> op, idx |-> 1, sub |-> sub, ev |-> ev, ret |-> ret, handled |-> 0]
NullLocals == Locals("update", NoSubject, NullSource, "pending")
Idle == [step |-> "idle"]

GroupAt(p, i) == GroupMap[p][i]
ActiveSubject(p, i) == sg[GroupAt(p, i)].Active_Subject
Current_Scheduling_Group_ID == GroupAt(part, sp[part].Active_Group_Index)
Current == sg[Current_Scheduling_Group_ID].Active_Subject

\* Init and the elaboration code: all groups active, timer lists empty.
Init ==
  /\ now = 0
  /\ part \in Partitions
  /\ sp = [p \in Partitions |->
             [Active_Group_Index |-> 1, Earliest_Timer |-> NoGroup, Sleeping |-> FALSE]]
  /\ sg = [g \in Groups |-> [Active_Subject |-> Initial[g], Next_Timer |-> NoGroup,
                             Prev_Timer |-> NoGroup, Timeout |-> Never]]
  /\ bits = [p \in Partitions |-> Indices(p)]
  /\ running = [s \in Subjects |-> TRUE]
  /\ hlt = [s \in Subjects |-> FALSE]
  /\ intr = [s \in Subjects |-> FALSE]
  /\ events = [s \in Subjects |-> {}]
  /\ timed = [s \in Subjects |-> Null_Event]
  /\ pc = "guest"
  /\ k = NullLocals
  /\ remote = Idle
  /\ ipi = FALSE
  /\ late = {}

-----------------------------------------------------------------------------
(* The timer list.  The operators take and return both arrays. *)

Lists == [sp |-> sp, sg |-> sg]
SetLists(L) == sp' = L.sp /\ sg' = L.sg

\* The n-th group of a list, No_Group in front of its first and behind its last.
At(w, n) == IF n \in DOMAIN w THEN w[n] ELSE NoGroup

\* w is what a loop meets that starts at the head and follows the links.
Linked(p, w) ==
  /\ sp[p].Earliest_Timer = At(w, 1)
  /\ \A n \in DOMAIN w : sg[w[n]].Next_Timer = At(w, n + 1)

TimerLists == BoundedSeq(Groups, Cardinality(Groups))
TimerList(p) == CHOOSE w \in TimerLists : Linked(p, w)

\* The position where a loop stops that looks for a group of gs.
FirstAt(w, gs) == Min({n \in 1 .. Len(w) + 1 : At(w, n) \in gs \cup {NoGroup}})

Is_Group_In_Timer_List(p, g) ==
  sp[p].Earliest_Timer = g \/ sg[g].Prev_Timer # NoGroup

SetLinks(r, next, prev) == [r EXCEPT !.Next_Timer = next, !.Prev_Timer = prev]

\* MUTANT of Remove_Group_From_Timer_List: the next group keeps its Prev_Timer.
Remove_Keeps_Prev(p, g) ==
  LET prev == sg[g].Prev_Timer
      next == sg[g].Next_Timer
  IN [sp |-> [sp EXCEPT ![p].Earliest_Timer = IF prev = NoGroup THEN next ELSE @],
      sg |-> [h \in Groups |->
                SetLinks(sg[h],
                  IF h = g THEN NoGroup ELSE IF h = prev THEN next ELSE sg[h].Next_Timer,
                  IF h = g THEN NoGroup ELSE sg[h].Prev_Timer)]]

Remove_Group_From_Timer_List(p, g) ==
  LET prev == sg[g].Prev_Timer
      next == sg[g].Next_Timer
  IN [sp |-> [sp EXCEPT ![p].Earliest_Timer = IF prev = NoGroup THEN next ELSE @],
      sg |-> [h \in Groups |->
                SetLinks(sg[h],
                  IF h = g THEN NoGroup ELSE IF h = prev THEN next ELSE sg[h].Next_Timer,
                  IF h = g THEN NoGroup ELSE IF h = next THEN prev ELSE sg[h].Prev_Timer)]]

\* Procedure Insert of Deactivate_Group.
Insert_Between(p, g, deadline, prev, next) ==
  [sp |-> [sp EXCEPT ![p].Earliest_Timer = IF prev = NoGroup THEN g ELSE @],
   sg |-> [h \in Groups |->
             SetLinks([sg[h] EXCEPT !.Timeout = IF h = g THEN deadline ELSE @],
               IF h = g THEN next ELSE IF h = prev THEN g ELSE sg[h].Next_Timer,
               IF h = g THEN prev ELSE IF h = next THEN g ELSE sg[h].Prev_Timer)]]

\* MUTANT of Insert: the group goes to the head, whatever its deadline.
Insert_Unsorted(p, g, deadline) ==
  Insert_Between(p, g, deadline, NoGroup, sp[p].Earliest_Timer)

\* The loop of Deactivate_Group that looks for the place.
Insert(p, g, deadline) ==
  LET w == TimerList(p)
      pos == FirstAt(w, {h \in Groups : deadline < sg[h].Timeout})
  IN Insert_Between(p, g, deadline, At(w, pos - 1), At(w, pos))

-----------------------------------------------------------------------------
(* Activity *)

Has_Work(s) == events[s] # {} \/ intr[s] \/ timed[s].trigger <= now

Is_Active(s) == running[s] \/ Has_Work(s)

Activate_Group(p, g) ==
  /\ SetLists(Remove_Group_From_Timer_List(p, g))
  /\ bits' = [bits EXCEPT ![p] = @ \cup {IndexOf(g)}]

Deactivate_Group(p, i, s) ==
  /\ SetLists(IF Is_Group_In_Timer_List(p, GroupOf[s]) THEN Lists
              ELSE Insert(p, GroupOf[s], timed[s].trigger))
  /\ bits' = [bits EXCEPT ![p] = @ \ {i}]

Indicated(s) == [bits EXCEPT ![PartitionOf(GroupOf[s])] = @ \cup {IndexOf(GroupOf[s])}]

\* Indicate_Activity for a subject of the executing CPU.
Indicate_Activity_Same_CPU(s) ==
  bits' = IF s = sg[GroupOf[s]].Active_Subject THEN Indicated(s) ELSE bits

Successor_Group(p, i) == IF i < Len(GroupMap[p]) THEN i + 1 ELSE 1

-----------------------------------------------------------------------------
(* The guest *)

Goto(from, to) == pc = from /\ pc' = to

\* The end of a procedure: only Clear_Event still needs a local of its caller.
Return(to) ==
  /\ pc' = to
  /\ k' = IF to = "clear" THEN [NullLocals EXCEPT !.sub = k.sub] ELSE NullLocals

GuestRuns == pc = "guest" /\ ~hlt[Current]

\* The current subject writes its timed event page: a time and the number of any of its
\* source events, or a number that is none.
Set_Timed_Event ==
  /\ GuestRuns
  /\ \E t \in Time, e \in SourceEvents[Current] \cup {NullSource} :
       timed' = [timed EXCEPT ![Current] = [trigger |-> t, event |-> e]]
  /\ UNCHANGED <<now, part, lists, bits, running, hlt, intr, events, pc, k, remote, ipi, late>>

\* The time stamp counter advances, whatever this CPU does.
Tick ==
  /\ now < MaxTime
  /\ now' = now + 1
  /\ UNCHANGED <<part, lists, bits, subjects, pc, k, remote, ipi, late>>

-----------------------------------------------------------------------------
(* The other CPU: Handle_Source_Event for a target on this CPU, as seen here. *)

Remote_Set_Event_Pending ==
  /\ remote = Idle
  /\ \E r \in RemoteEvents :
       /\ events' = [events EXCEPT ![r.target] = @ \cup {r.event}]
       /\ remote' = [step |-> "indicate", ev |-> r]
  /\ UNCHANGED <<now, part, lists, bits, running, hlt, intr, timed, pc, k, ipi, late>>

\* Indicate_Activity, unconditional because the target is on another CPU.
Remote_Indicate_Activity ==
  /\ remote.step = "indicate"
  /\ bits' = Indicated(remote.ev.target)
  /\ remote' = IF remote.ev.ipi THEN [remote EXCEPT !.step = "ipi"] ELSE Idle
  /\ UNCHANGED <<now, part, lists, subjects, pc, k, ipi, late>>

Remote_Send_IPI ==
  /\ remote.step = "ipi"
  /\ ipi' = TRUE
  /\ remote' = Idle
  /\ UNCHANGED <<now, part, lists, bits, subjects, pc, k, late>>

-----------------------------------------------------------------------------
(* VM exits *)

\* Handle_Timer_Expiry: the frame level (module FrameSync) selects a partition.
Handle_Timer_Expiry(p) ==
  /\ Goto("guest", "timers")
  /\ part' = p
  /\ UNCHANGED <<now, lists, bits, subjects, k, remote, ipi, late>>

Source_Event_Exit(E) ==
  /\ GuestRuns
  /\ pc' = "source"
  /\ \E e \in E : k' = Locals("reschedule", Current, e, "pending")
  /\ UNCHANGED <<now, part, lists, bits, subjects, remote, ipi, late>>

\* Event numbers that are invalid, or unused by the policy, have no effect.
Handle_Hypercall == Source_Event_Exit(SourceEvents[Current] \cup {NullSource})

\* The trap table of the policy is complete; an unknown trap stops the system.
Handle_Trap == Source_Event_Exit(TrapEvents[Current])

\* Handle_Irq for a routed device interrupt and for the IPI, and the exit the
\* kernel requested for a pending interrupt.
Handle_Irq ==
  /\ Goto("guest", "pending")
  /\ \E s \in IrqSubjects :
       /\ intr' = [intr EXCEPT ![s] = TRUE]
       /\ Indicate_Activity_Same_CPU(s)
  /\ UNCHANGED <<now, part, lists, running, hlt, events, timed, k, remote, ipi, late>>

Handle_IPI ==
  /\ Goto("guest", "pending")
  /\ ipi /\ ipi' = FALSE
  /\ UNCHANGED <<now, part, lists, bits, subjects, k, remote, late>>

Interrupt_Window ==
  /\ Goto("guest", "pending")
  /\ intr[Current]
  /\ UNCHANGED <<now, part, lists, bits, subjects, k, remote, ipi, late>>

-----------------------------------------------------------------------------
(* Update_Scheduling_Partition, Reschedule_Partition *)

\* Update_Timer_List: the expired head of the list is activated.
Update_Timer_List ==
  /\ Goto("timers", "find")
  /\ LET w == TimerList(part)
         n == FirstAt(w, {g \in Groups : sg[g].Timeout > now})
         expired == {w[i] : i \in 1 .. n - 1}
     IN /\ sp' = [sp EXCEPT ![part].Earliest_Timer = At(w, n)]
        /\ sg' = [g \in Groups |->
                    SetLinks(sg[g],
                      IF g \in expired THEN NoGroup ELSE sg[g].Next_Timer,
                      IF g \in expired \cup {At(w, n)} THEN NoGroup ELSE sg[g].Prev_Timer)]
        /\ bits' = [bits EXCEPT ![part] = @ \cup {IndexOf(g) : g \in expired}]
  /\ k' = [NullLocals EXCEPT !.idx = sp[part].Active_Group_Index]
  /\ UNCHANGED <<now, part, subjects, remote, ipi, late>>

\* Reschedule_Partition up to its first look at the subject's activity.
Reschedule_Partition ==
  /\ pc = "source"
  /\ k.ev.action \in {"sleep", "yield"}
  /\ running' = IF k.ev.action = "sleep" THEN [running EXCEPT ![k.sub] = FALSE] ELSE running
  /\ pc' = IF running'[k.sub] \/ Has_Work(k.sub) THEN "find" ELSE "put_off"
  /\ k' = [k EXCEPT !.idx = sp[part].Active_Group_Index]
  /\ UNCHANGED <<now, part, lists, bits, hlt, intr, events, timed, remote, ipi, late>>

Reschedule_Deactivate ==
  /\ Goto("put_off", "look_again")
  /\ Deactivate_Group(part, sp[part].Active_Group_Index, k.sub)
  /\ UNCHANGED <<now, part, subjects, k, remote, ipi, late>>

\* MUTANT of Reschedule_Look_Again: no second look after the deactivation.
Look_Again_Skipped ==
  /\ Goto("look_again", "find")
  /\ UNCHANGED <<now, part, lists, bits, subjects, k, remote, ipi, late>>

Reschedule_Look_Again ==
  /\ Goto("look_again", "find")
  /\ IF Is_Active(k.sub) THEN Activate_Group(part, GroupOf[k.sub])
                         ELSE UNCHANGED <<lists, bits>>
  /\ UNCHANGED <<now, part, subjects, k, remote, ipi, late>>

\* Find_Next_Active_Scheduling_Group, one read of shared state per step.
Find_Next ==
  LET i == Successor_Group(part, k.idx)
  IN /\ pc = "find"
     /\ k' = [k EXCEPT !.idx = i]
     /\ pc' = IF i \in bits[part] THEN "check"
              ELSE IF i = sp[part].Active_Group_Index THEN "none" ELSE "find"
     /\ UNCHANGED <<now, part, lists, bits, subjects, remote, ipi, late>>

Find_Check ==
  LET g == GroupAt(part, k.idx)
      active == Is_Active(ActiveSubject(part, k.idx))
  IN /\ Goto("check", IF active THEN "found" ELSE "deactivate")
     /\ SetLists(IF active /\ Is_Group_In_Timer_List(part, g)
                   THEN Remove_Group_From_Timer_List(part, g) ELSE Lists)
     /\ UNCHANGED <<now, part, bits, subjects, k, remote, ipi, late>>

Find_Deactivate ==
  /\ Goto("deactivate", "recheck")
  /\ Deactivate_Group(part, k.idx, ActiveSubject(part, k.idx))
  /\ UNCHANGED <<now, part, subjects, k, remote, ipi, late>>

\* A subject that became active while its group was being deactivated.
Find_Recheck ==
  LET active == Is_Active(ActiveSubject(part, k.idx))
  IN /\ Goto("recheck", IF active THEN "found"
                        ELSE IF k.idx = sp[part].Active_Group_Index THEN "none"
                        ELSE "find")
     /\ IF active THEN Activate_Group(part, GroupAt(part, k.idx))
                  ELSE UNCHANGED <<lists, bits>>
     /\ UNCHANGED <<now, part, subjects, k, remote, ipi, late>>

\* MUTANT of Schedule_Group: the partition wakes up, its current subject does not.
Schedule_Keeps_Halt ==
  LET wake == k.op = "update" /\ sp[part].Sleeping
  IN /\ pc = "found" /\ Return(IF k.op = "update" THEN "timed" ELSE k.ret)
     /\ sp' = [sp EXCEPT ![part] = [Active_Group_Index |-> k.idx,
                                    Earliest_Timer |-> @.Earliest_Timer,
                                    Sleeping |-> @.Sleeping /\ ~wake]]
     /\ running' = [running EXCEPT ![ActiveSubject(part, k.idx)] = TRUE]
     /\ UNCHANGED <<now, part, sg, bits, hlt, intr, events, timed, remote, ipi, late>>

\* The end of both procedures when a group was found ...
Schedule_Group ==
  LET wake == k.op = "update" /\ sp[part].Sleeping
  IN /\ pc = "found" /\ Return(IF k.op = "update" THEN "timed" ELSE k.ret)
     /\ hlt' = IF wake THEN [hlt EXCEPT ![Current] = FALSE] ELSE hlt
     /\ sp' = [sp EXCEPT ![part] = [Active_Group_Index |-> k.idx,
                                    Earliest_Timer |-> @.Earliest_Timer,
                                    Sleeping |-> @.Sleeping /\ ~wake]]
     /\ running' = [running EXCEPT ![ActiveSubject(part, k.idx)] = TRUE]
     /\ UNCHANGED <<now, part, sg, bits, intr, events, timed, remote, ipi, late>>

\* ... and when there was none.
Schedule_None ==
  /\ pc = "none" /\ Return(IF k.op = "update" THEN "timed" ELSE k.ret)
  /\ IF k.op = "update"
       THEN UNCHANGED <<hlt, sp>>
       ELSE /\ hlt' = [hlt EXCEPT ![k.sub] = TRUE]
            /\ sp' = [sp EXCEPT ![part].Sleeping = TRUE]
  /\ UNCHANGED <<now, part, sg, bits, running, intr, events, timed, remote, ipi, late>>

-----------------------------------------------------------------------------
(* Events *)

\* Handle_Timer_Expiry: the timed event of the subject to run next.  The clock is read a
\* second time, so that it may be due for a subject that was left halted.
LateKind(e) == IF e.handover THEN {"handover"} ELSE IF e.action # "none" THEN {"action"} ELSE {}

Check_Timed_Event ==
  LET due == timed[Current].trigger <= now
  IN /\ Goto("timed", IF due THEN "source" ELSE "pending")
     /\ k' = IF due THEN Locals("reschedule", Current, timed[Current].event, "clear")
                    ELSE NullLocals
     /\ late' = late \cup IF due /\ hlt[Current] THEN LateKind(timed[Current].event) ELSE {}
     /\ UNCHANGED <<now, part, lists, bits, subjects, remote, ipi>>

\* Handle_Source_Event for events without an action of the kernel: the target
\* event, the activity indicator, then the handover.
Handle_Source_Event ==
  /\ pc = "source" /\ k.ev.action = "none"
  /\ Return(k.ret)
  /\ IF k.ev.event # NoEvent /\ k.ev.target # NoSubject
       THEN /\ events' = [events EXCEPT ![k.ev.target] = @ \cup {k.ev.event}]
            /\ Indicate_Activity_Same_CPU(k.ev.target)
       ELSE UNCHANGED <<events, bits>>
  /\ sg' = IF k.ev.handover
             THEN [sg EXCEPT ![Current_Scheduling_Group_ID].Active_Subject = k.ev.target]
             ELSE sg
  /\ UNCHANGED <<now, part, sp, running, hlt, intr, timed, remote, ipi, late>>

Clear_Timed_Event ==
  /\ pc = "clear" /\ Return("pending")
  /\ timed' = [timed EXCEPT ![k.sub].trigger = Never]
  /\ UNCHANGED <<now, part, lists, bits, running, hlt, intr, events, remote, ipi, late>>

\* Handle_Pending_Target_Event makes at most one iteration per event number: the
\* other CPU may add events meanwhile.
More_Events == events[Current] # {} /\ k.handled < Cardinality(EventIDs)

\* One iteration: Consume_Event takes the highest event; Reset runs Init_Subject.
Consume_Event ==
  /\ pc = "pending" /\ More_Events
  /\ LET e == Max(events[Current])
         reset == TargetKind(e) = "reset"
     IN /\ events' = [events EXCEPT ![Current] = IF reset THEN {} ELSE @ \ {e}]
        /\ intr' = [intr EXCEPT ![Current] = ~reset /\ (@ \/ TargetKind(e) = "inject")]
        /\ timed' = IF reset THEN [timed EXCEPT ![Current] = Null_Event] ELSE timed
        /\ hlt' = [hlt EXCEPT ![Current] = @ /\ ~reset]
        /\ running' = [running EXCEPT ![Current] = @ \/ reset]
  /\ k' = [NullLocals EXCEPT !.handled = k.handled + 1]
  /\ UNCHANGED <<now, part, lists, bits, pc, remote, ipi, late>>

Target_Events_Handled ==
  /\ Goto("pending", "inject") /\ ~More_Events
  /\ running' = [running EXCEPT ![Current] = @ \/ k.handled > 0]
  /\ k' = NullLocals
  /\ UNCHANGED <<now, part, lists, bits, hlt, intr, events, timed, remote, ipi, late>>

\* Inject_Interrupt and the VM entry: an injected interrupt ends HLT.
Inject_Interrupt ==
  /\ Goto("inject", "guest")
  /\ \E accepts \in BOOLEAN :
       LET inject == accepts /\ intr[Current]
       IN /\ intr' = [intr EXCEPT ![Current] = @ /\ ~inject]
          /\ running' = [running EXCEPT ![Current] = @ \/ inject]
          /\ hlt' = [hlt EXCEPT ![Current] = @ /\ ~inject]
  /\ UNCHANGED <<now, part, lists, bits, events, timed, k, remote, ipi, late>>

-----------------------------------------------------------------------------
Kernel ==
  \/ Update_Timer_List
  \/ Reschedule_Partition \/ Reschedule_Deactivate \/ Reschedule_Look_Again
  \/ Find_Next \/ Find_Check \/ Find_Deactivate \/ Find_Recheck
  \/ Schedule_Group \/ Schedule_None
  \/ Check_Timed_Event \/ Handle_Source_Event \/ Clear_Timed_Event
  \/ Consume_Event \/ Target_Events_Handled \/ Inject_Interrupt

Remote == Remote_Set_Event_Pending \/ Remote_Indicate_Activity \/ Remote_Send_IPI

Guest ==
  \/ Set_Timed_Event
  \/ Handle_Hypercall \/ Handle_Trap
  \/ Handle_Irq \/ Handle_IPI \/ Interrupt_Window
  \/ \E p \in Partitions : Handle_Timer_Expiry(p)

Next == Kernel \/ Guest \/ Remote \/ Tick

Safety == Init /\ [][Next]_vars

\* Kernel code runs to completion, on this CPU and on the other one; the frame
\* level comes back to every partition.  Subjects, devices and the other CPU's
\* subjects owe nothing.
Spec ==
  /\ Safety
  /\ WF_vars(Kernel)
  /\ WF_vars(Remote_Indicate_Activity \/ Remote_Send_IPI)
  /\ \A p \in Partitions : SF_vars(Handle_Timer_Expiry(p))

-----------------------------------------------------------------------------
(* Properties *)

PC == {"guest", "timers", "find", "check", "deactivate", "recheck", "found", "none",
       "timed", "source", "put_off", "look_again", "clear", "pending", "inject"}

\* Every variable keeps its type; in particular the active group index stays in
\* the partition (the predicate of Scheduling_Partitions_Array), and a group's
\* active subject is one of its own.
TypeOK ==
  /\ now \in Time /\ part \in Partitions
  /\ sp \in [Partitions -> [Active_Group_Index : Nat, Earliest_Timer : Groups \cup {NoGroup},
                           Sleeping : BOOLEAN]]
  /\ bits \in [Partitions -> SUBSET Nat]
  /\ \A p \in Partitions : sp[p].Active_Group_Index \in Indices(p) /\ bits[p] \subseteq Indices(p)
  /\ sg \in [Groups -> [Active_Subject : Subjects, Next_Timer : Groups \cup {NoGroup},
                        Prev_Timer : Groups \cup {NoGroup}, Timeout : Time \cup {Never}]]
  /\ \A g \in Groups : GroupOf[sg[g].Active_Subject] = g
  /\ running \in [Subjects -> BOOLEAN] /\ hlt \in [Subjects -> BOOLEAN]
  /\ intr \in [Subjects -> BOOLEAN] /\ events \in [Subjects -> SUBSET EventIDs]
  /\ timed \in [Subjects -> [trigger : Time \cup {Never}, event : SourceEvent]]
  /\ pc \in PC /\ ipi \in BOOLEAN
  /\ k \in [op : {"update", "reschedule"}, idx : Indices(part), ev : SourceEvent,
            sub : Subjects \cup {NoSubject}, ret : {"pending", "clear"}, handled : 0 .. Cardinality(EventIDs)]
  /\ remote \in {Idle} \cup [step : {"indicate", "ipi"}, ev : RemoteEvents]
  /\ late \subseteq {"handover", "action"}

GroupsOf(p) == {GroupMap[p][i] : i \in Indices(p)}

\* The timer list survives every sequence of insertions and removals: it is
\* finite, doubly linked, sorted by timeout, and holds exactly the groups that
\* Is_Group_In_Timer_List says it holds.
IsTimerList(p, w) ==
  /\ Linked(p, w)
  /\ \A n \in DOMAIN w : sg[w[n]].Prev_Timer = At(w, n - 1)
  /\ \A m, n \in DOMAIN w : w[m] = w[n] => m = n
  /\ \A n \in DOMAIN w : n > 1 => sg[w[n - 1]].Timeout <= sg[w[n]].Timeout
  /\ ToSet(w) = {g \in GroupsOf(p) : Is_Group_In_Timer_List(p, g)}
  /\ \A g \in GroupsOf(p) \ ToSet(w) : sg[g].Next_Timer = NoGroup

TimerListOK == \A p \in Partitions : \E w \in TimerLists : IsTimerList(p, w)

\* What the handlers rely on at each point: the subject they act for is the current
\* one, its event is one the policy gives it, the group they look at is indicated.
Searching == {"find", "check", "deactivate", "recheck", "found", "none"}

LocalsOK ==
  /\ pc \in {"guest", "timers", "timed", "inject"} => k = NullLocals
  /\ pc = "clear" => k.sub \in Subjects
  /\ pc \in {"source", "put_off", "look_again"} => k.op = "reschedule"
  /\ pc = "source" \/ (pc \in {"put_off", "look_again"} \cup Searching /\ k.op = "reschedule")
       => k.sub = Current
  /\ pc = "source" =>
       k.ev \in {NullSource} \cup SourceEvents[k.sub] \cup TrapEvents[k.sub]
  /\ pc \in {"check", "found"} => k.idx \in bits[part]
  /\ \A s \in Subjects : timed[s].event \in {NullSource} \cup SourceEvents[s]

\* The group that was deactivated and whose subject is about to be looked at again.
Deactivating(g) ==
  \/ pc = "look_again" /\ g = GroupOf[k.sub]
  \/ pc = "recheck" /\ g = GroupAt(part, k.idx)

\* A group that is not indicated as active waits in the timer list, so that its
\* timed event can bring it back, and so does one that was just deactivated.
InactiveHasTimer ==
  \A p \in Partitions : \A i \in Indices(p) :
    i \notin bits[p] \/ Deactivating(GroupAt(p, i)) => Is_Group_In_Timer_List(p, GroupAt(p, i))

\* The part of the invariant that holds for all policies.
ListInv == TypeOK /\ LocalsOK /\ TimerListOK /\ InactiveHasTimer

BeingIndicated(g) == remote.step = "indicate" /\ GroupOf[remote.ev.target] = g

Bit(g) == IndexOf(g) \in bits[PartitionOf(g)]
Awake(s) == running[s] \/ intr[s] \/ events[s] # {}

\* No wakeup is lost between the CPU that clears a group's indicator and the
\* one that sets it: whenever a guest runs, a group whose active subject runs or
\* has an event or interrupt pending is indicated, or about to be.
NoLostActivity ==
  pc = "guest" =>
    \A g \in Groups : Awake(sg[g].Active_Subject) /\ ~BeingIndicated(g) => Bit(g)

\* The same inside the handlers.  A subject whose events are being handled will be
\* marked as running.
ActivityInv ==
  /\ \A g \in Groups :
       Awake(sg[g].Active_Subject) /\ ~BeingIndicated(g) /\ ~Deactivating(g) => Bit(g)
  /\ pc = "pending" /\ k.handled > 0 =>
       Bit(Current_Scheduling_Group_ID) \/ BeingIndicated(Current_Scheduling_Group_ID)

CurrentOf(p) == ActiveSubject(p, sp[p].Active_Group_Index)
IsActiveSubject(s) == s = sg[GroupOf[s]].Active_Subject
Rescheduling ==
  pc \in {"put_off", "look_again"} \/ (pc \in Searching /\ k.op = "reschedule")

\* Who is not asleep is marked as running: the subjects that have handed over, and the
\* current subject of every partition, unless it is halted or being put to sleep.
RunInv ==
  /\ \A s \in Subjects : ~IsActiveSubject(s) => running[s]
  /\ \A p \in Partitions :
       ~hlt[CurrentOf(p)] /\ ~(Rescheduling /\ p = part) => running[CurrentOf(p)]
  /\ pc = "source" /\ (k.ret = "pending" \/ k.ev.handover) => ~hlt[k.sub]

\* Nobody is left halted: only the current subject of a partition whose
\* Sleeping flag is set is in HLT, and Update_Scheduling_Partition will make
\* that subject ACTIVE again when it finds work.
HaltedIsCurrent ==
  \A p \in Partitions : \A g \in GroupsOf(p) : \A s \in Subjects :
    GroupOf[s] = g /\ hlt[s] => sp[p].Sleeping /\ s = CurrentOf(p)

\* Only a subject that is not halted asks for rescheduling.
HaltInv == HaltedIsCurrent /\ (Rescheduling \/ (pc = "source" /\ k.ev.action # "none") => ~hlt[Current])

\* The subject that executes is marked as running.
ExecutingIsRunning == GuestRuns => running[Current]

\* The scheduler's data stay sound over every sequence of sleeping, waking, yielding and
\* handing over, whatever events the subjects choose as their timed events: the list of
\* timers and the groups that wait in it always.  As long as no timed event with a
\* handover has expired for a subject that was left halted, no activity is lost and who
\* executes is marked as running; if no timed sleep or yield has either, nobody is left
\* halted.
SchedulerInv ==
  /\ ListInv
  /\ "handover" \notin late => ActivityInv /\ RunInv /\ ExecutingIsRunning
  /\ late = {} => HaltInv

\* The target events that anybody can send to a subject.
SentTo(s) ==
  LET sources == RemoteEvents \cup UNION {SourceEvents[t] \cup TrapEvents[t] : t \in Subjects}
  IN  {e \in EventIDs : \E x \in sources : x.target = s /\ x.event = e}

\* An event sent to the active subject of a group is consumed, whether it was
\* awake, asleep or falling asleep when the event was sent.
EventDelivered ==
  \A s \in Subjects : \A e \in SentTo(s) :
    (e \in events[s] /\ IsActiveSubject(s)) ~> (e \notin events[s])

\* A sleeping subject whose timed event has expired is woken, or the timed event has
\* been handled.  Holds as long as no interrupt ends HLT inside a frame; a subject that
\* was woken so and sleeps again keeps the old timeout of its group and may sleep on.
Overdue(s) == ~running[s] /\ IsActiveSubject(s) /\ timed[s].trigger <= now

TimedWakeup == \A s \in Subjects : Overdue(s) ~> ~Overdue(s)
=============================================================================
