----------------------------- MODULE Lifecycle ------------------------------
(***************************************************************************)
(* The lifecycle of managed subjects.  The controller (Ctrlr) runs a state *)
(* machine per subject; it writes a command page and reads a status page   *)
(* of each.  The subjects execute the init code of libmuinit, which waits  *)
(* for the commands and reports states.                                    *)
(*                                                                         *)
(* Slot 1 is a Linux with its monitor sm and its loader sl: the three      *)
(* share a scheduling group, of which one runs at a time (active) and      *)
(* hands over to another by an event.  The command and status pages of     *)
(* sm are its own; those of Linux are handled by sl.  The controller       *)
(* resets sm and Linux by events that the kernel handles before it resumes *)
(* the subject they are for.                                               *)
(*                                                                         *)
(* The controller's data other than the pages is private; one action per   *)
(* access to a page, to the pending requests, and per triggered event.     *)
(***************************************************************************)
EXTENDS Naturals, Sequences, FiniteSets

CONSTANTS
  IDs,            \* Managed_Subjects_Range, 1 .. N
  Self_Governed, Initial_Erase,   \* configuration: sets of subjects
  Run_Deps,       \* subjects that must be in FSM_Finished, per subject
  Slot_1,         \* the subjects with Slot_ID = 1
  Time,           \* the time subject
  Monitor,        \* sm_1, or 0
  Loader,         \* linux_1, whose pages sl serves, or 0
  MaxRequests,    \* bound on the reset requests
  MaxFailures     \* bound on failing memory operations

ASSUME IDsAssumption == IsFiniteSet(IDs) /\ IDs = 1 .. Cardinality(IDs)
ASSUME RolesAssumption ==
  /\ Time \in IDs /\ Time \notin {Monitor, Loader}
  /\ {Monitor, Loader} \subseteq IDs \cup {0}
  /\ Monitor = Loader => Monitor = 0
ASSUME ConfigAssumption ==
  /\ Initial_Erase \subseteq IDs /\ \A i \in IDs : Run_Deps[i] \subseteq IDs
  /\ MaxRequests \in Nat /\ MaxFailures \in Nat

VARIABLES
  States,         \* Current_State, Current_Epoch, Current_Era per subject
  Era,            \* Slot_Control_1.Era
  Pending,        \* Request_Reset_Slot_1 in Pending_Interrupts
  ctrl,           \* where the controller is: at, id, New_State, events to trigger
  Command, Epoch, \* the command pages
  Status,         \* the status pages: state and error
  pc,             \* where each subject is
  memory,         \* history: what was done to the writable memory of a subject
  used,           \* history: the epoch the subject last ran with
  active,         \* the member of the scheduling group that runs
  resets,         \* members with a pending reset event
  linux,          \* "initial" or, fixed by sm, "ready"
  Exit_Reason,    \* of Linux, as sm sees it
  requests, failures,
  calm            \* history: no era has begun while the slot was still starting

controller == <<States, Era, ctrl, Command, Epoch>>
group == <<active, resets, linux, Exit_Reason>>
env == <<requests, failures, calm>>
vars == <<States, Era, Pending, ctrl, Command, Epoch, Status, pc, memory, used,
          active, resets, linux, Exit_Reason, requests, failures, calm>>

\* The status page: State, and its STATE_ERROR bit with the diagnostics that tell
\* an unexpected command.
State(s) == <<s, "ok">>
Error(s, diag) == <<s[1], diag>>
Has_Error(s) == s[2] # "ok"

Init ==
  /\ States = [i \in IDs |-> [state |-> "Start", epoch |-> 0, era |-> 0]]
  /\ Era = 0
  /\ Pending = FALSE
  /\ ctrl = [at |-> "requests", id |-> 1, new |-> "Start", events |-> <<>>]
  /\ Command = [i \in IDs |-> "NOP"]
  /\ Epoch = [i \in IDs |-> 0]
  /\ Status = [i \in IDs |-> State("INITIAL")]
  /\ pc = [i \in IDs |-> "start"]
  /\ memory = [i \in IDs |-> "dirty"]
  /\ used = [i \in IDs |-> 0]
  /\ active = "linux"
  /\ resets = {}
  /\ linux = "initial"
  /\ Exit_Reason = "none"
  /\ requests = 0
  /\ failures = 0
  /\ calm = TRUE
-----------------------------------------------------------------------------
(* The controller *)

Settled(i) == States[i].state \in {"Running", "Error"} /\ States[i].era = Era

\* The user of the terminal presses Ctrl-F10, or Linux asks for a reboot: at any time.
Request ==
  /\ requests < MaxRequests
  /\ requests' = requests + 1
  /\ Pending' = TRUE
  /\ UNCHANGED <<controller, Status, pc, memory, used, group, failures, calm>>

\* Requests.Process reads the pending interrupts and starts a new era ...
Requests_Read ==
  /\ ctrl.at = "requests"
  /\ Era' = IF Pending THEN Era + 1 ELSE Era
  /\ ctrl' = [ctrl EXCEPT !.at = "clear"]
  /\ calm' = (calm /\ (Pending => \A i \in Slot_1 : Settled(i)))
  /\ UNCHANGED <<States, Pending, Command, Epoch, Status, pc, memory, used, group, requests, failures>>

\* ... and clears them.
Requests_Clear ==
  /\ ctrl.at = "clear"
  /\ Pending' = FALSE
  /\ ctrl' = [ctrl EXCEPT !.at = "read", !.id = 1]
  /\ UNCHANGED <<States, Era, Command, Epoch, Status, pc, memory, used, group, env>>

Get_Current_Era(i) == IF i \in Slot_1 THEN Era ELSE 0

Run_Dependencies_Satisfied(i) == \A d \in Run_Deps[i] : States[d].state = "Finished"

\* MUTANT of Erase_First: memory is prepared as it is.
Erase_First_Never(i) == FALSE

Erase_First(i) == i \in Initial_Erase

\* The next state of subject i, given the state it reports.
Get_Next_State(i, s) ==
  LET st == States[i].state
      reset == States[i].era # Get_Current_Era(i)
  IN  CASE st \in {"Start", "Resetting"} -> "Initial"
        [] st = "Initial" /\ i \in Self_Governed /\ Run_Dependencies_Satisfied(i) -> "Self_Control"
        [] st = "Initial" /\ i \notin Self_Governed /\ s = State("INITIAL") -> "Syncing"
        [] st = "Syncing" /\ s = State("SYNCED") ->
             IF Erase_First(i) THEN "Erasing" ELSE "Preparing"
        [] st = "Erasing" /\ s = State("ERASED") -> "Preparing"
        [] st = "Preparing" /\ s = State("PREPARED") -> "Validating"
        [] st = "Validating" /\ s = State("VALIDATED") /\ Run_Dependencies_Satisfied(i) -> "Running"
        [] st \in {"Erasing", "Preparing", "Validating"} /\ Has_Error(s) -> "Error"
        [] st \in {"Running", "Self_Control", "Finished", "Error"} /\ reset -> "Resetting"
        [] st \in {"Running", "Self_Control"} /\ ~reset /\ s = State("FINISHED") -> "Finished"
        [] st \in {"Running", "Self_Control"} /\ ~reset /\ Has_Error(s) -> "Error"
        [] OTHER -> st

\* Ctrlr.Run: on to the next subject, or to the next round.
Advance(i) == IF i + 1 \in IDs THEN [ctrl EXCEPT !.at = "read", !.id = i + 1]
                               ELSE [ctrl EXCEPT !.at = "requests", !.id = 1]

\* Process reads the status of a subject and decides.
Process_Read(i) ==
  /\ ctrl.at = "read" /\ ctrl.id = i
  /\ LET new == Get_Next_State(i, Status[i])
     IN  ctrl' = IF new = States[i].state THEN Advance(i)
                                          ELSE [ctrl EXCEPT !.at = "perform", !.new = new]
  /\ UNCHANGED <<States, Era, Pending, Command, Epoch, Status, pc, memory, used, group, env>>

\* The command that goes with a state; Finished and Error have none.
CommandOf(i, new) ==
  CASE new = "Initial"      -> IF i \in Self_Governed THEN "SELF_CTRL" ELSE "NOP"
    [] new = "Syncing"      -> "SYNC"
    [] new = "Erasing"      -> "ERASE"
    [] new = "Preparing"    -> "PREPARE"
    [] new = "Validating"   -> "VALIDATE"
    [] new = "Running"      -> "RUN"
    [] new = "Self_Control" -> "SELF_CTRL"
    [] new = "Resetting"    -> "NOP"
    [] OTHER                -> Command[i]

\* MUTANT of NextEpoch: the epoch stays.
NextEpoch_Same(i) == IF States[i].epoch = 0 THEN 1 ELSE States[i].epoch

NextEpoch(i) == States[i].epoch + 1

\* MUTANT of Reset_Events: Linux is not reset with its monitor.
Reset_Events_MonitorOnly(i) == IF i = Monitor THEN <<"sm">> ELSE <<>>

\* The events of the configuration: the monitor's entry resets both.
Reset_Events(i) == IF i = Monitor THEN <<"sm", "linux">> ELSE <<>>

\* Perform_Transition: a new command, and what else belongs to the new state.
Perform_Transition(i) ==
  /\ ctrl.at = "perform" /\ ctrl.id = i
  /\ Command' = [Command EXCEPT ![i] = CommandOf(i, ctrl.new)]
  /\ Epoch' = [Epoch EXCEPT ![i] = IF ctrl.new = "Initial" THEN NextEpoch(i) ELSE @]
  /\ States' = [States EXCEPT ![i] =
                  [state |-> ctrl.new,
                   epoch |-> IF ctrl.new = "Initial" THEN NextEpoch(i) ELSE @.epoch,
                   era   |-> IF ctrl.new = "Resetting" THEN Get_Current_Era(i) ELSE @.era]]
  /\ ctrl' = IF ctrl.new = "Resetting" /\ Reset_Events(i) # <<>>
             THEN [ctrl EXCEPT !.at = "events", !.events = Reset_Events(i)]
             ELSE Advance(i)
  /\ UNCHANGED <<Era, Pending, Status, pc, memory, used, group, env>>

\* Trigger_Event: the kernel notes the event for the member of the group.
Trigger_Event(i) ==
  /\ ctrl.at = "events" /\ ctrl.id = i
  /\ resets' = resets \cup {Head(ctrl.events)}
  /\ ctrl' = IF Len(ctrl.events) = 1 THEN [Advance(i) EXCEPT !.events = <<>>]
                                     ELSE [ctrl EXCEPT !.events = Tail(@)]
  /\ UNCHANGED <<States, Era, Pending, Command, Epoch, Status, pc, memory, used,
                 active, linux, Exit_Reason, env>>

Controller ==
  \/ Requests_Read \/ Requests_Clear
  \/ \E i \in IDs : Process_Read(i) \/ Perform_Transition(i) \/ Trigger_Event(i)
-----------------------------------------------------------------------------
(* The subjects: libmuinit *)

\* The members of the scheduling group run one at a time.
Runs(i) == /\ i = Monitor => active = "sm"
           /\ i = Loader => active = "sl"

Goto(i, label) == pc' = [pc EXCEPT ![i] = label]
Report(i, s) == Status' = [Status EXCEPT ![i] = s]

\* Status.Initialize.
Status_Initialize(i) ==
  /\ Runs(i) /\ pc[i] = "start"
  /\ Report(i, State("INITIAL"))
  /\ Goto(i, IF i = Time THEN "publish" ELSE "sync")
  /\ UNCHANGED <<controller, Pending, memory, used, group, env>>

\* MUTANT of Current: the wait for prepare starts from the sync command.
Current_Sync == [sync |-> "NOP", erase_or_prepare |-> "SYNC", prepare |-> "SYNC",
                 validate |-> "PREPARE", run |-> "VALIDATE"]

\* The waits for a command: the command that is current when the wait begins.
Current == [sync |-> "NOP", erase_or_prepare |-> "SYNC", prepare |-> "ERASE",
            validate |-> "PREPARE", run |-> "VALIDATE"]

\* Where a command leads from a wait; any other command is unexpected.
Leads(at, c) ==
  CASE at = "sync" /\ c \in {"SYNC", "SELF_CTRL"} -> "synced"
    [] at = "erase_or_prepare" /\ c = "ERASE" -> "erasing"
    [] at \in {"erase_or_prepare", "prepare"} /\ c \in {"PREPARE", "SELF_CTRL"} -> "preparing"
    [] at = "validate" /\ c \in {"VALIDATE", "SELF_CTRL"} -> "validating"
    [] at = "run" /\ c \in {"RUN", "SELF_CTRL"} -> "initializing"
    [] OTHER -> "failed"

\* Wait_For_Next sees a new command.
Wait_For_Next(i) ==
  /\ Runs(i) /\ pc[i] \in DOMAIN Current
  /\ Command[i] # Current[pc[i]]
  /\ LET to == Leads(pc[i], Command[i])
     IN  /\ Goto(i, to)
         /\ IF to = "failed" THEN Report(i, Error(Status[i], "unexpected"))
                             ELSE UNCHANGED Status
  /\ UNCHANGED <<controller, Pending, memory, used, group, env>>

\* The states that are reported between the operations.
Announced ==
  [synced       |-> [state |-> "SYNCED",       to |-> "erase_or_prepare"],
   erasing      |-> [state |-> "ERASING",      to |-> "erase"],
   preparing    |-> [state |-> "PREPARING",    to |-> "setup"],
   validating   |-> [state |-> "VALIDATING",   to |-> "check"],
   initializing |-> [state |-> "INITIALIZING", to |-> "running"]]

Status_Set(i) ==
  /\ Runs(i) /\ pc[i] \in DOMAIN Announced
  /\ Report(i, State(Announced[pc[i]].state))
  /\ Goto(i, Announced[pc[i]].to)
  /\ UNCHANGED <<controller, Pending, memory, used, group, env>>

Clear_Writable(i) ==
  /\ Runs(i) /\ pc[i] = "erase"
  /\ memory' = [memory EXCEPT ![i] = "erased"]
  /\ Report(i, State("ERASED"))
  /\ Goto(i, "prepare")
  /\ UNCHANGED <<controller, Pending, used, group, env>>

\* Setup_Writable gives writable regions their initial content.
Setup_Writable(i) ==
  /\ Runs(i) /\ pc[i] = "setup"
  /\ memory' = [memory EXCEPT ![i] = IF @ = "erased" THEN "prepared" ELSE @]
  /\ Report(i, State("PREPARED"))
  /\ Goto(i, "validate")
  /\ UNCHANGED <<controller, Pending, used, group, env>>

Check_Hashes(i) ==
  /\ Runs(i) /\ pc[i] = "check"
  /\ Report(i, State("VALIDATED"))
  /\ Goto(i, "run")
  /\ UNCHANGED <<controller, Pending, memory, used, group, env>>

\* Setup_Writable or Check_Hashes fails.
Memory_Error(i) ==
  /\ Runs(i) /\ pc[i] \in {"setup", "check"}
  /\ failures < MaxFailures
  /\ failures' = failures + 1
  /\ Report(i, Error(Status[i], "error"))
  /\ Goto(i, "failed")
  /\ UNCHANGED <<controller, Pending, memory, used, group, requests, calm>>

\* After success STATE_RUNNING is set, by the start code or by sl.
Set_Running(i) ==
  /\ Runs(i) /\ pc[i] = "running"
  /\ Report(i, State("RUNNING"))
  /\ Goto(i, IF i = Loader THEN "start_linux" ELSE "main")
  /\ UNCHANGED <<controller, Pending, memory, used, group, env>>

\* Without success the start code halts; sl goes on.
Init_Failed(i) ==
  /\ Runs(i) /\ pc[i] = "failed"
  /\ Goto(i, IF i = Loader THEN "start_linux" ELSE "halt")
  /\ UNCHANGED <<controller, Pending, Status, memory, used, group, env>>

\* The component starts: it takes the epoch for its channels from the command page.
Main(i) ==
  /\ Runs(i) /\ pc[i] = "main"
  /\ used' = [used EXCEPT ![i] = Epoch[i]]
  /\ memory' = [memory EXCEPT ![i] = "dirty"]
  /\ Goto(i, "serve")
  /\ UNCHANGED <<controller, Pending, Status, group, env>>

\* The time subject publishes the time, reports that it has finished and halts.
Publish(i) ==
  /\ i = Time /\ pc[i] = "publish"
  /\ Report(i, State("FINISHED"))
  /\ Goto(i, "halt")
  /\ UNCHANGED <<controller, Pending, memory, used, group, env>>

Initialize(i) ==
  \/ Status_Initialize(i) \/ Wait_For_Next(i) \/ Status_Set(i)
  \/ Clear_Writable(i) \/ Setup_Writable(i) \/ Check_Hashes(i) \/ Memory_Error(i)
  \/ Set_Running(i) \/ Init_Failed(i) \/ Main(i) \/ Publish(i)
-----------------------------------------------------------------------------
(* The group of slot 1: Linux, sm and sl *)

\* Handover to a member, given the control points and pending resets before: a
\* pending reset of it is handled before it resumes.
Handover(to, points, pending) ==
  /\ active' = to
  /\ resets' = pending \ {to}
  /\ pc' = IF to = "sm" /\ "sm" \in pending THEN [points EXCEPT ![Monitor] = "start"] ELSE points
  /\ linux' = IF to = "linux" /\ "linux" \in pending THEN "initial" ELSE linux

At(label) == [pc EXCEPT ![Monitor] = label]

\* The kernel handles a reset event of the member that runs.
Handle_Reset ==
  /\ active \in resets
  /\ Handover(active, pc, resets)
  /\ UNCHANGED <<controller, Pending, Status, memory, used, Exit_Reason, env>>

\* Linux traps: at once while its state is not runnable, else for some service.
Linux_Trap ==
  /\ Monitor \in IDs
  /\ active = "linux"
  /\ Exit_Reason' = IF linux = "initial" THEN "invalid" ELSE "other"
  /\ Handover("sm", pc, resets)
  /\ UNCHANGED <<controller, Pending, Status, memory, used, env>>

SM(label) == Monitor \in IDs /\ active = "sm" /\ pc[Monitor] = label

\* The monitor's loop: a service for Linux, and back to it.
Sm_Service ==
  /\ SM("serve") /\ Exit_Reason = "other"
  /\ Handover("linux", pc, resets)
  /\ UNCHANGED <<controller, Pending, Status, memory, used, Exit_Reason, env>>

\* Setup_Monitored_Subject: Linux is reset, traps again, ...
Sm_Reset_Linux ==
  /\ SM("serve") /\ Exit_Reason = "invalid"
  /\ Handover("linux", At("load"), resets \cup {"linux"})
  /\ UNCHANGED <<controller, Pending, Status, memory, used, Exit_Reason, env>>

\* ... is loaded by sl ...
Sm_Load_Linux ==
  /\ SM("load")
  /\ Handover("sl", At("loaded"), resets)
  /\ UNCHANGED <<controller, Pending, Status, memory, used, Exit_Reason, env>>

\* ... and, if that succeeded, made runnable and resumed.
Sm_Loaded ==
  /\ SM("loaded")
  /\ IF Status[Loader] = State("RUNNING")
     THEN pc' = At("resume") /\ linux' = "ready"
     ELSE pc' = At("halt") /\ UNCHANGED linux
  /\ UNCHANGED <<controller, Pending, Status, memory, used, active, resets, Exit_Reason, env>>

Sm_Resume ==
  /\ SM("resume")
  /\ Handover("linux", At("serve"), resets)
  /\ memory' = [memory EXCEPT ![Loader] = "dirty"]
  /\ UNCHANGED <<controller, Pending, Status, used, Exit_Reason, env>>

\* sl hands back to the monitor; the next time it runs, it starts over.
Sl_Start_Linux ==
  /\ Loader \in IDs /\ active = "sl" /\ pc[Loader] = "start_linux"
  /\ Handover("sm", [pc EXCEPT ![Loader] = "start"], resets)
  /\ UNCHANGED <<controller, Pending, Status, memory, used, Exit_Reason, env>>

Group == \/ Handle_Reset \/ Linux_Trap
         \/ Sm_Service \/ Sm_Reset_Linux \/ Sm_Load_Linux \/ Sm_Loaded \/ Sm_Resume
         \/ Sl_Start_Linux

Next == Request \/ Controller \/ Group \/ \E i \in IDs : Initialize(i)

Safety == Init /\ [][Next]_vars

\* The controller polls for ever, the subjects are scheduled again and again, and a
\* pending event is handled at the next exit, of which the frames guarantee one.
Spec == /\ Safety
        /\ WF_vars(Controller)
        /\ WF_vars(Group)
        /\ WF_vars(Handle_Reset)
        /\ \A i \in IDs : WF_vars(Initialize(i))
-----------------------------------------------------------------------------
FSM == {"Start", "Initial", "Syncing", "Erasing", "Preparing", "Validating",
        "Running", "Finished", "Resetting", "Error", "Self_Control"}
Commands == {"NOP", "SYNC", "ERASE", "PREPARE", "VALIDATE", "RUN", "SELF_CTRL"}

Reports == {"INITIAL", "SYNCED", "ERASING", "ERASED", "PREPARING", "PREPARED", "VALIDATING",
            "VALIDATED", "INITIALIZING", "RUNNING", "FINISHED"}
Labels == {"start", "publish", "sync", "synced", "erase_or_prepare", "erasing", "erase",
           "prepare", "preparing", "setup", "validate", "validating", "check", "run",
           "initializing", "running", "main", "serve", "load", "loaded", "resume",
           "start_linux", "failed", "halt"}

\* Every variable keeps its type; epochs and eras count the requests.
TypeOK ==
  /\ States \in [IDs -> [state : FSM, epoch : 0 .. MaxRequests + 1, era : 0 .. MaxRequests]]
  /\ Era \in 0 .. MaxRequests
  /\ Pending \in BOOLEAN
  /\ ctrl \in [at : {"requests", "clear", "read", "perform", "events"}, id : IDs, new : FSM,
               events : {<<>>, <<"linux">>, <<"sm", "linux">>}]
  /\ Command \in [IDs -> Commands]
  /\ Epoch \in [IDs -> 0 .. MaxRequests + 1]
  /\ Status \in [IDs -> Reports \X {"ok", "unexpected", "error"}]
  /\ pc \in [IDs -> Labels]
  /\ memory \in [IDs -> {"dirty", "erased", "prepared"}]
  /\ used \in [IDs -> 0 .. MaxRequests + 1]
  /\ active \in {"linux", "sm", "sl"}
  /\ resets \subseteq {"linux", "sm"}
  /\ linux \in {"initial", "ready"}
  /\ requests \in 0 .. MaxRequests
  /\ failures \in 0 .. MaxFailures
  /\ calm \in BOOLEAN

\* As long as every era began with the slot up or failed, a subject meets a command that it
\* does not expect only when it is being reset anyway, before the event reaches it: the
\* controller then still waits for the restarted subject, it never takes that error for
\* one of the subject.  (Without the condition the code does not keep this: a second
\* era may begin before the reset of the first has reached the confused subject.)
ConfusedOnlyByReset ==
  \A i \in IDs :
    calm /\ Status[i][2] = "unexpected" =>
      /\ States[i].state \in {"Resetting", "Initial"}
      /\ States[i].era = Era /\ Era > 0

\* A subject that is to be erased starts its code only from memory that was erased
\* and prepared since it last ran.
ErasedBeforeRun ==
  \A i \in Initial_Erase \ Self_Governed :
    pc[i] \in {"run", "initializing", "running", "main"} => memory[i] = "prepared"

\* The code of a component runs only after what it depends on has finished.
Started == {"initializing", "running", "main", "serve", "load", "loaded", "resume"}
DependenciesMet ==
  \A i \in IDs \ Self_Governed :
    pc[i] \in Started => \A d \in Run_Deps[i] : Status[d] = State("FINISHED")

\* The controller is about to perform a transition of subject i.
Decided(i) == ctrl.at = "perform" /\ ctrl.id = i

\* An era is a request that was read, and every era costs a subject at most one epoch.
ErasCounted ==
  /\ Era <= requests /\ (Pending /\ ctrl.at # "clear" => Era < requests)
  /\ \A i \in IDs :
       /\ States[i].era <= Get_Current_Era(i) /\ Epoch[i] = States[i].epoch
       /\ States[i].epoch <= States[i].era + 1
       /\ States[i].state \in {"Start", "Resetting"} => States[i].epoch <= States[i].era
       /\ Decided(i) => ctrl.new # "Start"
       /\ Decided(i) /\ ctrl.new = "Initial" => States[i].state \in {"Start", "Resetting"}
       /\ Decided(i) /\ ctrl.new = "Resetting" => States[i].era # Get_Current_Era(i)

\* The events of a reset are triggered for the monitor, one after the other.
EventsInOrder ==
  /\ ctrl.at = "events" => ctrl.id = Monitor /\ ctrl.events # <<>>
  /\ ctrl.at # "events" => ctrl.events = <<>>

\* The subjects that follow the commands one by one.
Managed == IDs \ (Self_Governed \cup {Time})

\* The command page of such a subject shows the state of its machine.
Shows(st, c) ==
  /\ st # "Self_Control"
  /\ st \in {"Start", "Initial", "Resetting"} => c = "NOP"
  /\ st = "Syncing" => c = "SYNC"
  /\ st = "Erasing" => c = "ERASE"
  /\ st = "Preparing" => c = "PREPARE"
  /\ st = "Validating" => c = "VALIDATE"
  /\ st \in {"Running", "Finished"} => c = "RUN"
  /\ st = "Error" => c \in {"ERASE", "PREPARE", "VALIDATE", "RUN"}
CommandsShown == \A i \in Managed : Shows(States[i].state, Command[i])

\* What the subject does, what it has reported and where its machine is, label by
\* label.  A subject past its last command may find its machine reset already.
Late == {"Running", "Resetting", "Initial"}
Agrees(i, label, s, st) ==
  /\ label = "start" => \/ s \in {State("INITIAL"), State("RUNNING")} \/ Has_Error(s)
                        \/ st \in {"Resetting", "Initial"}
  /\ label = "sync" => s = State("INITIAL")
  /\ label = "synced" => s = State("INITIAL") /\ st = "Syncing"
  /\ label = "erase_or_prepare" =>
       /\ s = State("SYNCED")
       /\ st = "Syncing" \/ st = IF i \in Initial_Erase THEN "Erasing" ELSE "Preparing"
  /\ label = "erasing" => s = State("SYNCED") /\ st = "Erasing"
  /\ label = "erase" => s = State("ERASING") /\ st = "Erasing"
  /\ label = "prepare" => s = State("ERASED") /\ st \in {"Erasing", "Preparing"}
  /\ label = "preparing" => s \in {State("ERASED"), State("SYNCED")} /\ st = "Preparing"
  /\ label = "setup" => s = State("PREPARING") /\ st = "Preparing"
  /\ label = "validate" => s = State("PREPARED") /\ st \in {"Preparing", "Validating"}
  /\ label = "validating" => s = State("PREPARED") /\ st = "Validating"
  /\ label = "check" => s = State("VALIDATING") /\ st = "Validating"
  /\ label = "run" => s = State("VALIDATED") /\ st \in Late \cup {"Validating"}
  /\ label = "initializing" => s = State("VALIDATED") /\ st \in Late
  /\ label = "running" => s = State("INITIALIZING") /\ st \in Late
  /\ label \in {"main", "serve", "load", "loaded", "resume"} => s = State("RUNNING") /\ st \in Late
  /\ label \in {"start_linux", "halt"} => s = State("RUNNING") \/ Has_Error(s)
  /\ label = "failed" => Has_Error(s)
  /\ label # "publish"
InStep == \A i \in Managed : Agrees(i, pc[i], Status[i], States[i].state)

\* A decision of the controller is still justified when it is performed.
Justified(i, new, label, s, st) ==
  /\ new \notin {"Start", "Self_Control", "Finished"}
  /\ new = "Initial" => st \in {"Start", "Resetting"}
  /\ new = "Syncing" =>
       st = "Initial" /\ label \in {"start", "sync"} /\ s = State("INITIAL")
  /\ new = "Erasing" => st = "Syncing" /\ label = "erase_or_prepare" /\ i \in Initial_Erase
  /\ new = "Preparing" =>
       \/ st = "Erasing" /\ label = "prepare"
       \/ st = "Syncing" /\ label = "erase_or_prepare" /\ i \notin Initial_Erase
  /\ new = "Validating" => st = "Preparing" /\ label = "validate"
  /\ new = "Running" => st = "Validating" /\ label = "run"
  /\ new = "Error" => /\ st \in {"Erasing", "Preparing", "Validating", "Running"}
                      /\ label \in {"failed", "halt", "start_linux", "start", "sync"}
  /\ new = "Resetting" => st \in {"Running", "Finished", "Error"}
DecisionsHold ==
  \A i \in Managed :
    Decided(i) => Justified(i, ctrl.new, pc[i], Status[i], States[i].state)

\* A reset of the monitor that is still to come finds the instance that the controller
\* has given up, and the controller waiting for the next one: without the reset no
\* instance but that of sl ever starts over.
ResetPending == \/ "sm" \in resets
                \/ ctrl.at = "events" /\ ctrl.events = <<"sm", "linux">>
ResetExpected ==
  /\ Monitor \in Managed /\ ResetPending =>
       /\ States[Monitor].state \in {"Resetting", "Initial"}
       /\ pc[Monitor] \notin {"start", "sync"}
       /\ ~("sm" \in resets /\ ctrl.at = "events" /\ ctrl.events = <<"sm", "linux">>)
  /\ \A i \in Managed \ {Loader} :
       pc[i] \in {"start", "sync"} =>
         States[i].state \in {"Start", "Resetting", "Initial", "Syncing"}

\* sl runs from its first instruction to the handover back to the monitor.
LoaderWhole == Loader \in IDs /\ active # "sl" => pc[Loader] = "start"

\* What is in the memory of a subject that is to be erased, on its way to its code.
MemoryPrepared ==
  \A i \in Initial_Erase \cap Managed :
    /\ pc[i] \in {"prepare", "preparing", "setup"} => memory[i] = "erased"
    /\ pc[i] \in {"validate", "validating", "check"} => memory[i] = "prepared"

\* Only the time subject finishes, and it stays finished.
Dependencies(i) == \A d \in Run_Deps[i] : Status[d] = State("FINISHED")
FinishedForGood ==
  /\ pc[Time] \in {"start", "publish", "halt"}
  /\ \A d \in IDs :
       /\ Status[d] = State("FINISHED") => d = Time /\ pc[d] = "halt"
       /\ States[d].state = "Finished" => Status[d] = State("FINISHED")
       /\ Decided(d) /\ ctrl.new = "Finished" => Status[d] = State("FINISHED")
  /\ \A i \in Managed :
       Command[i] = "RUN" \/ (Decided(i) /\ ctrl.new = "Running") => Dependencies(i)

\* What a subject does agrees with what the controller thinks of it, whenever the
\* resets are requested: it starts its code from erased and prepared memory, and not
\* before what it depends on has finished.
LifecycleInv ==
  /\ TypeOK /\ ErasedBeforeRun /\ DependenciesMet
  /\ ErasCounted /\ EventsInOrder /\ CommandsShown /\ InStep /\ DecisionsHold
  /\ ResetExpected /\ LoaderWhole /\ MemoryPrepared /\ FinishedForGood

\* A restarted component does not use an epoch again, its channels count on that, as long
\* as every era began with the slot up or failed.  (Without the condition the code
\* does not keep this: an instance that is about to be reset while it starts finds the
\* epoch meant for its successor on the command page, and both run with it.)
EpochsIncrease ==
  [][\A i \in IDs : calm' /\ pc[i] = "main" /\ pc'[i] = "serve" => used'[i] > used[i]]_vars

\* After the last request the slot comes up with the reset performed and the controller
\* knowing it, or the controller reports a failed memory operation, or an era began
\* while the slot was starting: requests are made at any time, those that the
\* controller reads with the slot up or failed are the ones that are recovered from.
SlotUp ==
  /\ linux = "ready"
  /\ \A i \in Slot_1 : States[i].state = "Running" /\ States[i].era = Era
SlotRecovers == <>[](SlotUp \/ ~calm \/ \E i \in Slot_1 : States[i].state = "Error")

\* A request is processed ("Process pending requests, if any.", ctrlr-requests.ads).
\* Does not hold: a request that arrives after the pending interrupts were read is
\* cleared with them.
RequestProcessed == (requests > 0) ~> (Era > 0)
=============================================================================
