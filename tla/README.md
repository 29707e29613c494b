# A TLA+ model of the Muen separation kernel

Muen is a separation kernel for x86-64 written in SPARK/Ada.  It runs subjects
(native components or virtual machines) on fixed CPUs under a static policy that
is compiled into the kernel.  SPARK proves the absence of run-time errors in the
code of one CPU; what it does not see is the interleaving of several CPUs, of the
kernel with the subjects' memory accesses, of subjects with each other, and the order
of things over several VM exits, resets and boots.  Around the kernel there are Python
scripts that make policies, component specifications, schemas and documentation, and
put the log together; nothing proves anything about those.  These modules are about
both.

## 1. Inventory

| Part | State | Operations | Interacts through |
|---|---|---|---|
| Sense barriers (`SK.Barriers`, `SK.MP`) | size, sense, 8-bit wait count, shared by all CPUs | `Initialize`, `Wait` | `lock xadd`, plain loads and stores |
| Frame scheduling (`SK.Scheduler`, upper level) | global major frame ID and start (written by the BSP only, read unlocked), minor frame ID per CPU, published scheduling info | `Init`, `Update_Scheduling_Info`, `Set_VMX_Exit_Timer` | barriers, Tau0's choice of the next major frame |
| Partition scheduling (`SK.Scheduler`, lower level) | per partition: active group, head of the timer list, sleeping flag; per group: active subject, list links, timeout; activity bitmap shared by all CPUs | sleep, yield, group selection, handover, `Indicate_Activity`, timer list | atomic bit operations, activity state in the VMCS |
| Events (`SK.Subjects_Events`, `SK.Timed_Events`, `SK.Subjects_Interrupts`) | pending event bitmap, timed event page, pending interrupt bitmap per subject | set, consume, clear, expire, insert, inject | atomics, memory shared with the subject, IPIs |
| VM exit handler and boot (`SK.Kernel`) | none of its own | `Initialize`, `Handle_Vmx_Exit` and its handlers | calls all of the above |
| Crash audit (`SK.Crash_Audit`) | a page that survives warm resets: header with boot count, generation, dump and crash count; records | `Init`, `Allocate`, `Set_*`, `Finalize` | several crashing CPUs without a lock; the next boot; the debug server |
| Shared memory channels (`libmuchannel`) | header (epoch, interface, WSC, WC), elements; reader's epoch and RC | `Initialize`, `Write`, `Deactivate`; `Read`, `Drain`, `Reset` | memory without any lock or back channel |
| Lifecycle (`controller`, `libmuinit`, `libmucontrol`, `sm`, `sl`, `time`) | a state machine per managed subject; command and status pages; the era of a slot | `Requests.Process`, `Lifecycle.Process`; the initialisation sequence of a subject; loading a VM | shared pages, reset events, handover inside a scheduling group |
| Debug log (`libmudebuglog`, `dbgserver`, `mulog.py`, `mulog-subject.py`) | a channel per subject; the server's buffer per subject, output queue, idle flag; the console's output queue; the captured text | put, flush; `Buffers.Run`, sinks, console input; reassembly | channels, the printed lines with their prefixes, a device shared with the console |
| Generators of specifications (`linux-muen-gencspec.py`, `solo5-muen-gencspec.py`, `muutils.py`) | XML document, list of memory regions | a function per step | files; the policy compiler reads the result |
| Policy scripts (`compose.py`, `smpify.py`, `extract-subject-names.py`) | XML document | a function per step | read what the generators or each other wrote |
| Schema plugins (`libmuxsdplugin.py`, `xsd_plugin_doc.py`) | XSD document | insertion of a group into every complex type | run one after another on each other's output |
| Documentation plugin (`doc_transfer.py`) | component graph, map from component to subjects, expansion of target paths, output document | graph search, traversal, expansion, insertion | policies of two stages of the compiler |
| Spinlock, I/O APIC, VT-d, drivers (`ahci_drv`, `vt`, `ps2_drv`, `dm`) | lock word; registers; device sessions | acquire/release; mask/unmask; request loops | registers, channels |
| Policy toolchain (Ada) | XML documents | expansion, validation, allocation, generation | files |

What is hard here: several CPUs enter and leave barriers at different speeds while
the BSP rewrites shared scheduling data; a subject falls asleep while another CPU
sends it an event; timed events expire between two readings of the clock; subjects
are woken inside a frame by IPIs and interrupts and go back to sleep; the writer of
a channel is reset in the middle of an operation; several CPUs crash at once and the
reset hits one of them between two writes; a controller that polls tells a subject
what to do while that subject is about to be reset; a log message arrives in fragments
between those of others; scripts agree with each other only by computing the same name
or number in two places.  `PROJECT.json` lists these hazards with the line where each
one bites and the property that covers it.

What makes each part correct:

- a barrier releases nobody before everybody has arrived and strands nobody;
- the CPUs agree on the frame they are in, a guest never runs on data that changes
  underneath it, and every CPU goes on for ever;
- no wakeup is lost, the timer list stays a sorted list of the sleeping groups, and
  no subject stays in HLT without somebody who will end it;
- a read from a channel returns a whole packet of the current epoch or an error;
- no CPU touches another one's crash record, and what is reported after a boot is what
  the boot before it left complete;
- a managed subject runs only from memory that was erased and set up since it last ran,
  after what it depends on, with an epoch it never had, and a slot that was up comes up again
  after a reset;
- the log shows what was written and by whom, and shows where something is missing;
- what a script writes is accepted, and means the same, where it is read.

## 2. Modules

| Module | Models | Uses |
|---|---|---|
| `Barriers` | the barrier record and the single accesses to it | |
| `AbstractBarrier` | what a barrier promises, without a mechanism | |
| `SenseBarrier` | `Wait` on one barrier by any set of CPUs, one shared access per step | `Barriers`; refines `AbstractBarrier` |
| `FrameSync` | boot rendezvous and frame switches on all CPUs, with `SK.MP`'s barriers | `Barriers` |
| `Scheduler` | partition scheduling, events and the VM exit handler of one CPU against another CPU, the clock and devices | |
| `AbstractChannel` | what a channel promises its reader, with packets published and delivered at once | |
| `Muchannel` | a channel with one writer and one reader, one access to the page per step | refines `AbstractChannel` |
| `CrashAudit` | the audit page, crashing CPUs, warm resets and power cycles, the report | |
| `Lifecycle` | the controller and the initialisation of the subjects it manages; a Linux with monitor and loader | |
| `DebugLog` | subjects that log, the debug server, the scripts that read its output | the result of `Muchannel`'s `Read` |
| `Reachability` | `Graph.get_reachable_nodes` of the documentation plugin | |
| `ComponentUsers` | `compile_component_to_subjects_map` of the plugin: who uses a component | `Reachability` |
| `DocTransfer` | the whole documentation plugin | `ComponentUsers` |
| `AdaHex` | numbers as Ada hex literals, and back | |
| `LinuxSpec` | `linux-muen-gencspec.py` | `AdaHex` |
| `Solo5Spec` | `solo5-muen-gencspec.py` | `AdaHex` |
| `UnikernelPolicy` | `compose.py` on what the Solo5 generator wrote | `Solo5Spec` |
| `SmpPolicy` | `smpify.py` | |
| `SubjectNames` | `extract-subject-names.py` on what `smpify.py` wrote, or on a policy written by hand | `SmpPolicy` |
| `SchemaPlugin` | both schema plugins, run twice | |
| `SenseBarrierProofs`, `FrameSyncProofs`, `SchedulerProofs`, `MuchannelProofs`, `CrashAuditProofs`, `LifecycleProofs`, `DebugLogProofs` | theorems about the module of that name | TLAPS |
| `ReachabilityProofs` | theorems about `Reachability` and `ComponentUsers` | TLAPS |
| `MCFrameSync`, `MCScheduler`, `MCHandover`, `MCLifecycle`, `MCDocTransfer`, `MCScripts` | instances for TLC | |

Operators introduced by a comment `MUTANT of` are variants of the definition that follows
them, with a mistake one could make in that code; they are used by no specification.

**SenseBarrier.** `pc[c]` walks through the body of `Wait`: read size and sense,
`lock xadd`, then either the two writes of the last CPU (count, then sense, two steps)
or the spin loop.  `entered` and `left` are history variables that count calls and
returns; the abstract barrier is stated over them alone, so the refinement mapping
(`INSTANCE AbstractBarrier WITH`) is the identity on them.

**FrameSync.** The same barrier steps on an array of barriers (entry 0 is the
all-CPU barrier).  `Start_AP_Processors`, `Scheduler_Init` and the two boot
rendezvous are `SK.Kernel.Initialize`; `Update_Scheduling_Info` is cut at its
barriers, and the BSP's writes of ID, start and barrier configuration are separate
steps, because other CPUs could read in between.  `cur[c]` holds the constants
the procedure saves on entry.  `Plans` is the policy; the barrier configuration is
computed from it as `Add_Barrier_Configs` of `mucfgexpand` does, and the
assumption that all CPUs end a major frame at the same tick is what the validator
`Major_Frame_Ticks` checks.  Absolute times are taken modulo `WordSize`, as the
64-bit words of the code are.  The time itself is not modelled: the preemption timer
may fire at any moment, which is more than the hardware does.

**Scheduler.** One CPU (`pc`, `k` for the locals) executes the code of a VM exit;
every read or write of state that another CPU can write is a step of its own:
`Find_Next_Active_Scheduling_Group` is four actions, `Reschedule_Partition` three.
The four reads of `Is_Active` are one step: conditions only become true behind its
back, so a sequence of reads that answers "active" or "inactive" equals a reading at
the moment of one of them.  The other CPU (`remote`) performs the three visible
steps of `Handle_Source_Event` for a target on this CPU.  `Tick` advances the clock
between any two steps.  The timer list is kept with its links, as in the code; a loop over
it is the sequence one meets when following the links from the head (`TimerList`) and the
position where the loop stops (`FirstAt`).
Pending interrupts are one flag per subject.  A partition switch
(`Handle_Timer_Expiry(p)`) takes any partition, abstracting from the plan.  A guest may take
any of its source events as timed event, those that sleep, yield or hand over included
(`Set_Timed_Event`).  `late` is a history variable: what expired timed events asked of a subject
that was left halted, because the clock was read twice.  Events
that reboot, power off, panic or unmask an interrupt are not in the model, and events
to subjects of other CPUs appear only from the receiving side.

**Muchannel.** Header fields are single steps, an element is copied in two halves, so
that torn elements are visible.  `Initialize` is enabled at any point of the writer:
the writing subject is reset and starts over.  The interface description (transport
marker, protocol, sizes) is one value that is expected, different or absent.  Epochs
are unique, as the protocol demands of its users.  Loads and stores take effect in
program order, as on x86 for volatile objects.  The mapping to `AbstractChannel`: a channel
is open while the header shows an epoch; a packet is published by the store to WC; the
reader follows while its epoch is the header's; its next packet is RC, or RC - 1 between
the increment and the return of `Read` (`Place`); the answer is pending during a call
(`Response`).

**CrashAudit.** One action per access to the page.  A record holds the APIC IDs written
into it (a set, so that a second CPU in the same record shows), whether its reason is set,
and the boot it belongs to.  `Warm_Reset` may come at any moment after a CPU has begun
it, hence while other CPUs are between two writes; `Power_Cycle` replaces the page by any
content.  The delay of 100 ms before the reset orders nothing.  `last` is a history
variable: what the boot before this one had allocated and completed.  An error inside the
error handler is not modelled.

**Lifecycle.** The controller's round is cut at every access to a page, to the pending
requests and at every event: `Requests_Read` and `Requests_Clear`, then per subject
`Process_Read`, `Perform_Transition`, `Trigger_Event`.  A subject's `pc` walks
through `libmuinit`: the waits for a command (`Wait_For_Next`), the states reported
(`Status_Set`), the operations on its memory.  Linux, its monitor `sm` and its loader
`sl` share a scheduling group; `active` is the one that runs, `Handover` passes the CPU on
and performs a pending reset of the one it is passed to, as the kernel does.  A request
(`Request`: Ctrl-F10 at the terminal, a reboot of Linux) comes at any moment.  `calm` is a history variable:
it turns false when the controller begins a new era while a subject of the slot is still starting.
Content of
memory is dirty, erased or prepared.  Watchdog intervals are written by the controller
and read by nobody; they are left out.

**DebugLog.** A fragment is a record of its subject, epoch, place among all that was written,
time stamp and whether it ends the line.  The stamp is the start of the subject's time slice
(`Schedule_Start`), which a `Flush` may find advanced: stamps are equal within a slice, and
across CPUs they need not be in the order of writing.  A read of a channel is one step with
the result `Muchannel` gives it, a reset of the subject during the call included.  `Run(R)`
is one call of `Dbg.Buffers.Run`; `queue` is the output queue of a sink, and `out` the lines
put into it from the start, which is what a sink without a console (shared memory, PC
speaker) shows.  A typed character is echoed (`Handle_Normal_Input`), and a command ends with
a prompt (`Command`), both in the queue `console`.  `Run_Sink` is one call of
`Dbg.Non_Interfering_Output.Run`, which sends either queue until it is empty; `device` is what
a sink with a console (serial, xHCI) has sent.
`mulog_subject` and `parent` are the two Python scripts as functions of `out`:
`mulog-subject.py` is a loop over the lines, each of which begins a line of the subject,
continues one or is passed over (`KindOf`); `Printed(parts)[n]` is what it has written
after n of them.  `heard` is a history variable.

**Reachability, ComponentUsers, DocTransfer.** The loop is one action per turn, on any graph.
`ComponentUsers` builds the graph of a policy, runs the loop for every subject (`todo`) in
any order and inverts the result (`c2s_map`).  `DocTransfer` does this first (`compile_map`),
then walks the policy with the plugin's rule tables, expands the parameters of target paths
and inserts the collected elements.  XML elements are records of tag, naming attribute and
children.

**Scripts.** `LinuxSpec`, `Solo5Spec`, `UnikernelPolicy`, `SmpPolicy`, `SubjectNames` and
`SchemaPlugin` have one action per function or per turn of a loop, and an end for every
exception and every call of `exit`.  Addresses and sizes in documents are hex literals
made by `AdaHex` and parsed where the code parses them.  A name with a number is a tuple;
the length of a name is kept where the code cuts it.  External programs (`objcopy`, LIEF,
the Solo5 ELF tool) are inputs.  `MCScripts` puts the scripts side by side: a behaviour is
the run of one of them followed by the script that reads its output.

## 3. Runs

| Run | Instance | Properties | Result |
|---|---|---|---|
| `sense_barrier` | 4 CPUs, 3 rounds | `NoEarlyLeave`, `ReleaserExists`, `IndInv`, `Refinement` | pass |
| `frame_sync` | 3 CPUs, 2 major frames with different barriers, words of 8 ticks, boot skew 1 | `FrameInv`, `FrameStable`, `SyncSeparation`, `Progress` | pass |
| `scheduler_wakeup` | 1 partition, 2 groups, remote events with IPI, timed sleep and yield | `SchedulerInv`, `EventDelivered`, `TimedWakeup` | pass |
| `scheduler_handover` | 2 partitions, a group of 2 subjects, traps, interrupts, reset, timed sleep and handover | `SchedulerInv` | pass |
| `stale_timeout` | as `scheduler_wakeup`, with IPIs to the subject with the timed event | `TimedWakeup` | violation |
| `channel` | 2 elements, 3 epochs, 4 writes per epoch | `ChannelInv`, `ReadCorrect`, `Refinement`, `CatchesUp` | pass |
| `crash_audit` | 3 CPUs, 2 records, 3 boots | `RecordIntact`, `ReportSound`, `IndInv`, `CrashRestarts` | pass |
| `crash_audit_lost` | 2 CPUs, 3 records, 2 boots | `AllReported` | violation |
| `lifecycle` | time subject, monitor, Linux with loader; 3 requests at any moment, 1 failure | `LifecycleInv`, `ConfusedOnlyByReset`, `EpochsIncrease`, `SlotRecovers` | pass |
| `debug_log` | 2 subjects, 5 inputs (starts, resets, fragments, time slices, commands) | `Reassembled`, `Attributed`, `NoSilentGap`, `OldestFirst`, `MessagePrinted` | pass |
| `doc_transfer` | 2 subjects, 2 components, 2 libraries, every reference between them | `Result`, `UsersRight`, `DocsPlaced`, `Written` | pass |
| `scripts` | see below | `BinaryDescribed`, `ChannelsConnected`, `LinuxRegions`, `SmpPolicyValid`, `NamesRight`, `SchemaExtended`, `ScriptsFinish` | pass |

What the passing runs show (`FrameInv`, `SchedulerInv`, `ChannelInv`, `LifecycleInv`
and the two `IndInv` are the inductive invariants of section 4; a run checks that they hold
in the reachable states of an instance):

- `sense_barrier`: nobody has left more often than anybody has come (`NoEarlyLeave`), a
  full round has exactly one releaser (`ReleaserExists`), and `Refinement`, which includes
  that every call returns once all have called.
- `frame_sync`: the deadline recomputed from the unlocked globals on any exit is the one
  armed when the frame began (`FrameStable`); the BSP changes shared data only while all
  others are held at the all-CPU barrier (`ReconfigurationAlone`, in `FrameInv`); frames
  separated by a common deadline do not overlap (`SyncSeparation`); every CPU completes
  major frames for ever (`Progress`).
- `scheduler_wakeup`, `scheduler_handover`: the timer list keeps its links and its order,
  every group that is not indicated as active waits in it; until a timed handover expires for
  a subject that was left halted, no activity of a group is lost between the CPU that clears its
  indicator and the one that sets it, and the subject that executes is marked as running; until a
  timed sleep or yield does either, only the current subject of a sleeping partition is halted
  (`SchedulerInv`, with `late` for the two conditions).  Every event is consumed, and every
  sleeper is woken by its timed event if no injected interrupt ends its HLT before
  (`EventDelivered`, `TimedWakeup`).
- `channel`: a successful read returns the whole packet of the reader's epoch and number
  (`ReadCorrect`); over all calls, the reader of an epoch gets its packets in order and once,
  loses some only with an overrun reported and a full channel, and is told that there is
  nothing only when it has everything (`Refinement`); a polling reader catches up (`CatchesUp`).
- `crash_audit`: records are never shared (`RecordIntact`), a report after a boot covers at
  least one complete record of the boot before and none that was not allocated in it
  (`ReportSound`), and every crash ends in a restart, with more crashes than records too
  (`CrashRestarts`).
- `lifecycle`: a subject starts its code from erased and prepared memory and only after what
  it depends on (`ErasedBeforeRun` and `DependenciesMet`, in `LifecycleInv`); it is confused
  by a command only when it is about to be reset (`ConfusedOnlyByReset`) and runs with a new
  epoch (`EpochsIncrease`); the slot comes up after the last request, or its error is known to the
  controller (`SlotRecovers`).  The first holds with requests at any moment; the other three say
  nothing any more once an era has begun while the slot was starting (`calm`), which the run
  reaches and in which the code fails (section 5).  A monitor that has failed leaves its loader
  waiting, so the slot is not settled then and recovery from this failure is not covered.
- `debug_log`: from what a sink without a console shows, `mulog-subject.py` gives back the
  messages the server received from each subject (`Reassembled`); on a device that carries the
  console's output too, a fragment without a prefix still follows an unfinished one of its
  subject (`Attributed`); two fragments are never joined over a loss (`NoSilentGap`); messages
  are printed in the order of their time stamps, as far as the server can know it
  (`OldestFirst`), and each is printed in the end (`MessagePrinted`).
- `doc_transfer`: the search returns the reachable nodes (`Result`), each component has the
  subjects that use it, directly or through others, and no lookup fails (`UsersRight`), each documentation
  element arrives in every place it describes and only there, in order (`DocsPlaced`), and
  the plugin comes to its end (`Written`).
- `scripts`: the specification of a unikernel describes those segments of its binary that have
  sections, page by page with their offsets in the file and without overlaps, and its literals
  denote the numbers meant, an offset of 0 excepted (`BinaryDescribed`); its channels are connected to Linux, reader to writer
  (`ChannelsConnected`); Linux regions hold their files and the second initramfs follows the
  first (`LinuxRegions`); the SMP policy passes what the compiler checks, with 2 to 29 cores
  and, its hypercall numbers excepted, with up to 32 (`SmpPolicyValid`); the debug server's names belong to its channels
  (`NamesRight`); an extended schema admits documentation everywhere, everything it admitted
  before, and can be extended again (`SchemaExtended`); the second script of each chain
  finishes on what the first one wrote (`ScriptsFinish`).

What the violations show (the lines are in `PROJECT.json`, `findings`):

- `stale_timeout`: a sleeping subject is woken in its frame by an IPI; its group is
  still in the timer list with the old timeout; the subject sets an earlier timed
  event and sleeps again; `Deactivate_Group` finds the group in the list and leaves
  the old timeout.  When another group has become current meanwhile, the new timed
  event does not wake the subject.
- `crash_audit_lost`: a CPU reads the next slot in `Finalize`, another one allocates,
  completes and counts its record, and the first overwrites the count with its older,
  smaller value: a complete record is not reported.

### Bounds

The theorems of section 4 hold without the bounds given here; the bounds matter for the
properties that are only model-checked.

- `sense_barrier`: four CPUs and three rounds let a fast CPU start the next round while a
  straggler has not seen its release, with both senses and the return to the first.
- `frame_sync`: the behaviour is infinite and only words are small: 8 ticks make every sum
  wrap.  The two plans are chosen so that barrier 1 has different users and sizes in them.
- `scheduler_*`: two groups are the smallest timer list with an order and a group that
  sleeps without being current; clock values 0, 1 and "never" order two triggers before, at
  and after a reading.  Target events of three kinds (none, inject, reset) are in the
  model.  The timed event is any source event of the subject.
- `channel`: four writes on two elements overrun a reader twice, and three epochs let a
  reader lag behind by a whole epoch.
- `crash_audit`: three CPUs and two records make one CPU come too late while two others are
  anywhere in their handlers; `MaxBoots = 3` has a boot that reports, crashes again and is
  reported.
- `lifecycle`: three subjects of the controller's configuration are one that others depend
  on, one that resets another, and one served by a proxy; with `MaxRequests = 3` a request
  falls into any step of the start, of a reset and of the reset after that, and `MaxFailures = 1`
  fails at any memory operation of any round.
- `debug_log`: channels of one element overrun at the second fragment; a queue of one
  message is full after each.  Three starts are both subjects and a reset; five inputs
  suffice for a message of one subject that is interrupted by the other one, by an idle
  mark, by an overrun or by a reset, with equal stamps and with stamps against the order of
  writing.  One input at the console echoes, switches a buffer or resets the stream anywhere
  in between.
- `doc_transfer`: two libraries with all edges between them and to an undefined name give
  cycles, self-references and dangling references below both components.
- `scripts`: segment sizes on and off page boundaries, with and without file content, with
  names short and too long; `MB` is two pages, so that RAM regions stay small; up to two
  initramfs mappings with all combinations of permissions and addresses, names with and without
  capitals; a binary that begins at offset 0 or behind a page of headers; specifications with
  and without channels of their own; 0 to 32 as number of cores; three complex types of every form the plugin tells apart, extending each other.

### Fairness

Kernel code is not preempted and contains no unbounded loop except the spin loop of a
barrier, so each CPU's kernel steps are weakly fair; the same holds of the crash handlers
and of `Crash_Audit.Init`.  The VMX preemption timer ends every frame; guests may exit for
other reasons arbitrarily often before, hence strong fairness of the timer exit
(`Update_Scheduling_Info`, `Handle_Timer_Expiry(p)`; in the latter it also says that the
plan comes back to every partition, which cyclic plans do as long as Tau0 does not starve a
major frame).  Guests, devices, other CPUs' guests and writers of channels are not fair.  A
channel reader polls (weak fairness of `Reading`) and calls `Reset` finitely often.  The
controller and the debug server loop for ever, and managed subjects have frames of their
own: weak fairness of `Controller`, of each subject's initialisation, of the scheduling
group of slot 1 and of the kernel's handling of a pending reset, and of `Run_Buffers` and
`Run_Sink` (the serial line sends).  Requests, failures and log messages are not fair.
Scripts run to their end once started.

## 4. Proofs

`SenseBarrierProofs`, for every finite set of 1 to 255 CPUs and every bound on
the rounds (`CPUsAssumption`, `MaxRoundsAssumption`; `Sense_Barrier_Type` uses a byte,
so 255 is the code's own limit):

| Theorem | Statement |
|---|---|
| `Invariance` | `Safety => []IndInv` |
| `TypeCorrect` | `Safety => []TypeOK`, with wait count at most size |
| `BarrierCorrect` | `Safety => []NoEarlyLeave` |
| `NeverStuck` | `Safety => []ReleaserExists` |
| `Implements` | `Safety => Abstract!Safety` |

`NoEarlyLeave` is not inductive.  A spinning CPU may leave when it sees its sense, and
nothing in the property says that this happens only after a full round.  `IndInv`
adds: the sizes read are the barrier's (`SizeInv`); the wait count is the number of
CPUs that wait for a sense the barrier does not have, or zero between the two writes of
the last CPU (`CountInv`); whoever is releasing has all others counted and spinning
(`ReleaseInv`); a CPU between its read of the sense and its increment has not missed
a flip (`SenseInv`); and all CPUs have left the same number of times, those not counted
that have yet to notice their release excepted, who lag by one (`RoundInv`).  There is
one lemma per action.  The increment needs facts about the cardinality of `Counted`
(`CountedBounds`, `CountedAdd`).  `Implements` then maps `Call` to `Enter`, `Flip` and
`Spin` to `Leave`, and all others to stuttering.

`FrameSyncProofs`, for every finite set of 1 to 255 CPUs, every set of major frames, every word
size and every plan with ascending deadlines in which all CPUs end a major frame together
(`PlanAssumption`, which the policy validators check):

| Theorem | Statement |
|---|---|
| `Invariance` | `Safety => []FrameInv` |
| `FrameStability` | `Safety => []FrameStable` |
| `Separation` | `Safety => []SyncSeparation` |

`FrameStable` speaks of guests; whether it survives depends on where every CPU is while the
BSP writes.  The inductive part of `FrameInv` is `Coordinated`: each barrier counts the CPUs
it holds among those it is meant for, in the configuration of the major frame it is set up
for (`BarriersSound`); all CPUs are in the same of four stages, booting, initialising, in a
major frame or changing it, where a CPU that spins on the all-CPU barrier belongs to the
next stage as soon as it is released (`SameStage`); each CPU goes its own way through a
stage (`OwnWay`) with frame numbers of the plan (`FramesValid`); CPUs that share a deadline
pass it together (`PassedTogether`).  The stage makes the flip of the sense the one step in
which all CPUs move on at once.  The main lemmas: `BarrierIDs` and `MembersAreUsers` (barriers
numbered by ascending deadline belong to one deadline each), `ConfigIsMembers` (the size is
the number of CPUs that come), one lemma per step of `Wait` about a single barrier, and
`LocalStep`, which lifts the step of a CPU that keeps stage and barriers.

`SchedulerProofs`, for every policy: any partitions, finite set of groups,
subjects, events of any kind (`PolicyAssumption`, what the policy validators and the generated
tables guarantee) and any bound on the clock:

| Theorem | Statement |
|---|---|
| `ListsSound` | `Safety => []ListInv` |
| `ActivityKept` | `Safety => []("handover" \notin late => NoLostActivity)` |
| `Invariance` | `Safety => []SchedulerInv` |

There is no hypothesis on the events a guest chooses.  The frame switch reads the clock twice, and
a timed event that expires in between is handled for a subject that was left halted; what such an
event asked for is recorded in `late`.  Section 5 has the counterexamples after it, so the
conditions in `SchedulerInv` say exactly up to where the code is right.  There are three layers, each
inductive relative to the one before.  `ListInv`, for all policies: the list of each partition
is some sequence of its groups without repetition along which `Next_Timer`, `Prev_Timer` and the
order of timeouts agree; it holds exactly the groups that `Is_Group_In_Timer_List` answers
for, and every group that is not indicated as active.  The first lemmas give the
sequence after an insertion, a removal and the expiry of a prefix (`ListInsert`, `ListRemove`,
`ListSuffix`); that a loop over the links stops at the position `FirstAt` rests on the least
element of a set of numbers (`LeastNumber`).  `ActivityInv` and `RunInv`: only this CPU clears
an indicator, and the group it has cleared is exempt until the second look at its subject
(`Deactivating`); the other CPU sets the event before the indicator, so a group is covered by
its bit or by the sender that is about to set it (`BeingIndicated`).  A handover happens in a
subject that executes, hence is marked as running, which a subject that was handed over from
has to stay.  `HaltInv`: a subject in HLT is the current one of a partition that sleeps, and
who asks for rescheduling is not in HLT.

`MuchannelProofs`, for every capacity and every bound on epochs and writes
(`BoundsAssumption`):

| Theorem | Statement |
|---|---|
| `Invariance` | `Safety => []ChannelInv` |
| `DeliveryCorrect` | `Safety => ReadCorrect` |
| `Implements` | `Safety => Refinement` |

`ReadCorrect` is an action property: the step in which `Read` returns success from an epoch
has the two halves of the packet with the reader's epoch and number.  `ChannelInv` says what
the header shows at each step of the writer (`WriterPhases`), that no epoch the reader has is
yet to be published, so that an epoch it has lost never comes back (`ReaderPhases`), that packets
below WC which no announced write reaches are whole (`PacketsWhole`), and that the reader's copy
is whole as long as WSC has not passed it, and for good once WSC was checked (`CopiedWhole`).
The arithmetic is in `PositionsDiffer`: counts less than the capacity apart have different
places.  `Implements` uses `ChannelInv` and has one lemma per visible store of the writer
and per step of `Read`.  Clearing the epoch is `Close`, setting it `Open`, the store to WC `Publish`; of a call
of `Read`, the beginning, the synchronisation, the recovery from an overrun and the return are
abstract steps, everything else stutters.  An abstract delivery needs that the packet was counted and that the
epoch read a second time is the one the copy was made in; both are in `CopiedWhole`.

`CrashAuditProofs`, for every non-empty set of CPUs, finite or not, any positive number of
records and any bound on the boots:

| Theorem | Statement |
|---|---|
| `Invariance` | `Safety => []IndInv` |
| `RecordsPrivate` | `Safety => []RecordIntact` |
| `ReportCorrect` | `Safety => []ReportSound` |

`ReportSound` speaks of a state after a boot; what makes it true is spread over the boot
before.  `IndInv` says that slots given out differ and lie below the next one (`SlotInv`),
how far each record is (`RecordInv`), that a CPU's count covers its own record, so that the
last writer of the count, whoever it is, leaves one that covers a complete record
(`CountInv`), that the generation is ahead of the boot count exactly when a CPU has activated
the dump (`GenerationInv`), and what a reset carries over (`BootInv`).  One lemma per action;
`WriteInv` serves the three writes into a record, `Holder` says that no other CPU holds it.

`LifecycleProofs`, for every configuration of the controller (any number of subjects, any of them
the time subject, any or none monitor and loader, any dependencies and erase flags;
`IDsAssumption`, `RolesAssumption`, `ConfigAssumption`), every number of requests and failures,
and requests at any moment:

| Theorem | Statement |
|---|---|
| `Invariance` | `Safety => []LifecycleInv` |
| `ErasedFirst` | `Safety => []ErasedBeforeRun` |
| `DependenciesFirst` | `Safety => []DependenciesMet` |

Both properties say something about a subject's code that only the controller's order of commands
ensures.  `LifecycleInv` relates the two: the command page shows the state of the machine
(`CommandsShown`); label by label, what a subject has reported and where its machine is
(`InStep`); a decision taken from a status that was read earlier is still justified when it is
performed (`DecisionsHold`); a reset of the monitor that is still to come finds an instance that
the controller has given up (`ResetExpected`); eras and epochs are counted (`ErasCounted`); what was
done to the memory so far (`MemoryPrepared`); the dependencies of a subject told to run stay
finished (`FinishedForGood`).  `SubjectStep` reduces a step of a subject to what it reports next.

Three theorems are about the slot that is reset, again with requests at any moment:

| Theorem | Statement |
|---|---|
| `SlotInvariance` | `SlotConfigured => (Safety => [](calm => SlotInv))` |
| `ConfusionOnlyByReset` | `SlotConfigured => (Safety => []ConfusedOnlyByReset)` |
| `EpochsNew` | `SlotConfigured => (Safety => EpochsIncrease)` |

`SlotConfigured` is about the configuration: monitor and loader are in slot 1, and the subjects of
the slot are managed ones.  The two properties hold until an era begins while a subject of the slot
is still starting; from then on `calm` is false, and section 5 has the counterexamples.  A request
that comes early but is read late, one that is read twice, and one that is lost are covered.  What
makes the properties true until then is a history over a whole
reset, which `SlotInv` turns into a statement about states: a reset is due only for
subjects that are up or have failed (`ErasSettled`); in its first era a subject
leaves its first wait only when it is told to, with an epoch by then (`FirstEra`); a self-governed one is told so and never reset (`SelfGoverned`); the instance of
the monitor that is to be reset has loaded Linux and does not do it again (`OldInstance`), the new
one waits for its command until both resets are under way (`NewInstance`); until it has Linux loaded,
the machine of the loader waits for `sl` (`Loading`); Linux is reset with its monitor
(`LinuxReset`); a subject that has yet to start has an epoch it never used (`EpochUnused`); only
subjects of the slot other than the monitor meet an unexpected command (`Confused`).  `SlotInv` is
inductive relative to `LifecycleInv`.  TLC checked it on small instances before it was
proved.

`DebugLogProofs`, for every number of subjects, channels and output queues of any size
(`SizesAssumption`), and any number of messages, resets and inputs at the console:

| Theorem | Statement |
|---|---|
| `LogInvariance` | `Safety => []LogInv` |
| `MessagesReassembled` | `Safety => []Reassembled` |
| `FragmentsAttributed` | `Safety => []Attributed` |
| `NoGapHidden` | `Safety => []NoSilentGap` |
| `OldestPrintedFirst` | `Safety => OldestFirst` |

`Reassembled` compares what the server heard with what a script makes of the whole output; a step
prints one more line, in the middle of lines of other subjects.  `LogInv` says for each subject that
the script's lines are those of what was heard and that the server's flag for an incomplete message
agrees with them (`Told`); that the lines heard have no gap, end with what was heard last, and that
the cached fragment and the reader's place follow on it (`Kept`); that a line which may be continued
is the last one (`LastLine`); that the stamps of one subject do not decrease from what the
server holds to what was written last (`Stamped`).  `Attributed` is about what was sent, the
server knows only what it has queued.  `WireInv` joins the two: in what was sent, followed by what
waits in the output queue, a fragment without a prefix follows an unfinished one of its subject,
and while the server takes a message for unfinished, its last fragment is the last one there.  Text of
the console enters in front of the queue, and `Unfinished` passes over it (`UnfinishedInserted`,
`ConsoleInserted`).  `Printed` and `Lines` are recursive functions over the lines.  What they compute is
not needed, only what one more line adds: that the recursion has a solution, and that a prefix
determines its result, follows from the least number at which it would fail (`Smallest`,
`PrintedExists`, `PrintedPrefix`).  TLC checked `LogInv` and
`WireInv` on the states of `DebugLog.cfg` before they were proved.

`ReachabilityProofs`, for every graph, infinite ones included, and every start; `UsersCorrect` for
every policy in which references lead to libraries or components (`RefsAssumption`: there is no way
to write another one):

| Theorem | Statement |
|---|---|
| `LoopInvariant` | `Safety => [](TypeOK /\ LoopInv)` |
| `ReachableCorrect` | `Safety => []Result` |
| `UsersCorrect` | `UsersSafety => []UsersRight` |

The loop looks only at the nodes of the last round.  `LoopInv` says why that is enough: the
peers of all older nodes are collected already, and nothing was collected that a closed set
could lack.  `UsersInv` adds the loop around it: the map has the users among the subjects that are
done, and the search under way is one of a subject that is not.  That a lookup never fails needs that
a search meets only what is defined and never another subject.  The proof is about
`compile_component_to_subjects_map` alone; the other steps of `DocTransfer` leave its variables as
they are.  That the loops end is model-checked.

Only model-checked:

- all liveness (the fairness part of `SenseBarrier!Refinement`, `Progress`, `EventDelivered`, `TimedWakeup`,
  `CatchesUp`, `CrashRestarts`, `SlotRecovers`, `MessagePrinted`, `Written`, `ScriptsFinish`):
  liveness under fairness and `ENABLED` are outside what the proof system handles;
- `DocsPlaced` of `DocTransfer` and the properties of the scripts: they compare with what a recursive
  operator computes (the traversal of an XML tree, `HexDigits`), which the proof system does not
  support, and induction over trees is out of its reach too.

## 5. Deviations

Statements in the repository's comments and documents that the code does not satisfy, beside
the two runs that end in a violation.  Each is a definition of its module; to see the
counterexample, put it in the place of the properties in the configuration named.

| Definition | Configuration | What happens |
|---|---|---|
| `FrameSync!InfoEndIsDeadline` | `FrameSync.cfg` | until its first frame switch an application processor publishes a frame end computed from its own clock reading, while its timer is armed relative to the BSP's |
| `Scheduler!NoLostActivity` (`SchedulerInv` without the condition on `late`) | `Handover.cfg` | the frame switch reads the clock once in `Update_Timer_List` and again in `Handle_Timer_Expiry`; a timed event with handover that expires in between makes a subject run whose group is not indicated as active |
| `Scheduler!HaltedIsCurrent` (`SchedulerInv` without the condition on `late`) | `Scheduler.cfg` | the partition sleeps and the timed event of its halted subject, "go to sleep", expires between the same two readings; `Reschedule_Partition` then switches to another group that has become active, without waking the partition: its flag stays set, and the former subject stays in HLT although it is not the current one any more |
| `Muchannel!DeliveredFromEpoch` | `Muchannel.cfg` | a reader that synchronises while the writer is at the beginning of `Initialize` reads the null epoch twice, finds it unchanged and returns an element with `Success`; `ReadCorrect` is therefore stated for reads from an epoch |
| `Lifecycle!RequestProcessed` | `Lifecycle.cfg` | a request that arrives between the reading and the clearing of the pending interrupts is lost |
| `Lifecycle!SlotRecovers` without `~calm` | `Lifecycle.cfg` | a request while Linux is being initialised resets the monitor at once and Linux only when its own state machine has reached a state that looks at the era; by then the restarted monitor has loaded Linux, whose entry has no reset event of its own: Linux runs, and the controller waits for ever for its initial state |
| `Lifecycle!EpochsIncrease` without `calm'` | `Lifecycle.cfg` | a request while the slot is starting: the instance about to be reset goes on until the event reaches it, finds the epoch meant for its successor on the command page and runs with it; the successor then runs with the same |
| `Lifecycle!ConfusedOnlyByReset` without `calm` | `Lifecycle.cfg` | a second request raises the era before the reset of the first one has reached the confused subject, whose machine is then an era behind |
| `DebugLog!ParentFound` | `DebugLog.cfg` | `mulog.py` looks for the parent of a continuation among lines with a bar only, and passes over a parent that was printed with the mark of an overrun or a new epoch |
| `DebugLog!EpochsApart` | `DebugLog.cfg` | a reset before the server's next read is not reported by the channel, and the first fragment afterwards continues the line begun before |
| `DebugLog!ReassembledOnDevice` | `DebugLog.cfg` | output queue and console "are sent out in a non-interfering way" (`dbg-non_interfering_output.ads`), but the server decides on prefixes without the console: when a prompt is sent between two fragments of a message, the rest follows the prompt without a prefix, and `mulog-subject.py` drops it with the prompt's line.  An echoed character stands inside the subject's line.  Without input at the console (`MaxCommands = 0`) the property holds |
| `MCScripts!OnlyIfAllAllow` | `Scripts.cfg` | "only set executable/writable to true if all mappings allow it": the attributes are strings, of which "false" counts as true, so the last mapping decides |
| `MCScripts!NoTypeError` | `Scripts.cfg` | with several initramfs regions the function returns `None`, which the caller cannot unpack; without a mapping it returns Booleans, which are no attribute values.  A region whose name has capitals has no mapping, since the name is made lower case before it is compared |
| `MCScripts!EmptyTypeExtended` | `Scripts.cfg` | for a type without children `insert_usg_in_complexType` uses a variable that only the loop over the children sets |
| `Solo5Spec!DevicesWired` | `Scripts.cfg` | where the source specification has a `channels` node already, the channels are appended to the list the lookup returned and not to the document |
| `Solo5Spec!AllLoaded` | `Scripts.cfg` | "Each ELF segment of type LOAD is processed": a segment without sections is skipped, no region is made for it, and RAM may be put where it belongs |
| `Solo5Spec!OffsetsExact` | `Scripts.cfg` | the offset of a segment at the beginning of the file is written as `16##`: `lstrip("0x")` in `int_to_ada_hex` removes the only digit of 0 |
| `Solo5Spec!NamesFit` | `Scripts.cfg` | the name is cut to the maximum before the suffix `\|fill` is appended |
| `Solo5Spec!SchemaConform` | `Scripts.cfg` with `events` among `Requires` | `channels` and `devices` are put behind `events` |
| `UnikernelPolicy!InterfacesNamed` | `Scripts.cfg` | the interface name is found by cutting a fixed set of characters off the channel name, which may end in one of them; channels that the specification had before are taken for interfaces too |
| `MCScripts!HypercallsDiffer` | `Scripts.cfg` | with 30 cores or more the hypercall number that starts core 29 is 31, that of the timer event |

## 6. Not modelled

XSETBV, FPU, MSR and register state, NMI, MCE and microcode update are register I/O
of one CPU or end the system.  VT-d and APIC set-up is register I/O at boot.  Drivers
and the device manager are dominated by device behaviour.  The toolchain in Ada is sequential
XML processing by a hundred independent checks and expanders; what it demands of generated
policies appears as properties of the scripts.  Of the debug console: the texts of the
commands that only print, and an overflow of its output queue, to which it appends without
asking for room.  The small scripts (`mugenmanifest`,
the command stream encoder, the dump of CPU values, the adjustment of an XML specification)
convert one file into another line by line, without state.  Of the lifecycle: the
subject information page and its being invalid, the wake-up of further processors of a
Linux, the RTC.  Weak memory effects are not modelled: x86 keeps stores in order and stores
before locked instructions.

## 7. What could be added

1. `DebugLog` on top of `AbstractChannel` instead of a copy of the result of `Read`; readers
   against writers that reuse an epoch.
2. Spinlock and level interrupts (mask by the kernel, unmask event by the subject); the
   vectors of `SK.Subjects_Interrupts`; the allocator `liballoc` against a reference.
3. Composition of `FrameSync` and `Scheduler` on two CPUs with one group each.
