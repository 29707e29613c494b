------------------------------ MODULE SmpPolicy ------------------------------
(***************************************************************************)
(* smp/smpify.py: the desktop demo system is turned into one whose Linux   *)
(* runs on several cores.  For each further core the script adds a Linux   *)
(* subject, its subject monitor, the events, channels and memory the two   *)
(* need, a scheduling partition and its minor frames, and it deals the     *)
(* devices out to the Linux subjects.  One action per function, in the     *)
(* order of the calls at the end of the script.                            *)
(*                                                                         *)
(* A name with a number is a tuple: str(i) is <<i>>, str(i).zfill(2) has a *)
(* zero in front of a single digit.                                        *)
(***************************************************************************)
EXTENDS Integers, Sequences, SequencesExt, FiniteSetsExt

CONSTANTS Cores,           \* arguments <linux_cores> the script is called with
          None

VARIABLES pc,              \* function called next, or how the script ended
          cores,           \* number of additional cores
          doc,             \* the policy read from demo_system_desktop.xml
          smp              \* demo_system_desktop_smp.xml, or None

vars == <<pc, cores, doc, smp>>

dbgchannel_end == 4
str(i) == <<i>>
zfill2(i) == IF i < 10 THEN <<0, i>> ELSE <<i>>

Map(l, p) == [logical |-> l, physical |-> p]
Source(g, id, p) == [group |-> g, id |-> id, physical |-> p]

\* The subject monitor of Linux core i (i = <<>> for the one of the base policy).
SmSubject(i, log, start_ap) ==
  [name |-> IF i = <<>> THEN <<"sm">> ELSE <<"sm_core">> \o i, component |-> "sm",
   sources |-> <<Source("vmcall", 0, <<"serial_irq4_linux">> \o i)>>,
   targets |-> start_ap,
   monitors |-> IF i = <<>> THEN <<"linux">> ELSE <<"linux_core">> \o i,
   maps |-> <<Map(<<"time_info">>, <<"time_info">>), Map(<<"debuglog">>, log),
              Map(<<"resume_subject">>, <<"resume_linux">> \o i),
              Map(<<"handle_subject_trap">>, <<"trap_to_sm">> \o i),
              Map(<<"status">>, <<"status_sm">> \o i), Map(<<"control">>, <<"control_sm">> \o i)>>,
   writers |-> {}, devices |-> <<>>]

\* A Linux subject; the first one can also reboot the machine and turn it off.
LnxSubject(i, further, devs) ==
  [name |-> IF i = <<>> THEN <<"linux">> ELSE <<"linux_core">> \o i,
   component |-> IF i = <<>> THEN "linux" ELSE "sibling",
   sources |-> <<Source("vmx_exit", -1, <<"trap_to_sm">> \o i)>> \o further
               \o <<Source("vmcall", 31, <<"timer_linux">> \o i)>>,
   targets |-> <<<<"resume_linux">> \o i, <<"serial_irq4_linux">> \o i, <<"timer_linux">> \o i>>,
   monitors |-> None, maps |-> <<>>, writers |-> {}, devices |-> devs]

Other(name, component, maps) ==
  [name |-> name, component |-> component, sources |-> <<>>, targets |-> <<>>,
   monitors |-> None, maps |-> maps, writers |-> {}, devices |-> <<>>]

Frames(n, partition, ticks) == [j \in 1..n |-> [partition |-> partition, ticks |-> ticks]]

\* demo_system_desktop.xml.  The device inside the <if> is not a child of <devices>
\* and stays where it is, so it is left out.
Desktop ==
  [memory |-> <<<<"control_sm">>, <<"control_time">>, <<"status_sm">>, <<"status_time">>>>,
   events |-> <<[mode |-> "switch", name |-> <<"resume_linux">>], [mode |-> "switch", name |-> <<"trap_to_sm">>],
                [mode |-> "async", name |-> <<"serial_irq4_linux">>], [mode |-> "self", name |-> <<"timer_linux">>],
                [mode |-> "kernel", name |-> <<"system_reboot">>], [mode |-> "kernel", name |-> <<"system_poweroff">>]>>,
   channels |-> <<<<"time_info">>, <<"debuglog_subject", 1>>, <<"debuglog_subject", 4>>>>,
   subjects |-> <<
     Other(<<"time">>, "time", <<Map(<<"time_export">>, <<"time_info">>), Map(<<"debuglog">>, <<"debuglog_subject", 4>>),
                                 Map(<<"status">>, <<"status_time">>), Map(<<"control">>, <<"control_time">>)>>),
     SmSubject(<<>>, <<"debuglog_subject", 1>>, <<>>),
     LnxSubject(<<>>, <<Source("vmcall", 1, <<"system_reboot">>), Source("vmcall", 2, <<"system_poweroff">>)>>,
                <<"keyboard_mouse", "host_bridge", "isa_bridge", "vga", "gfx", "devs">>),
     Other(<<"dbgserver">>, "dbgserver", <<Map(<<"log_channel", 1>>, <<"debuglog_subject", 1>>),
                                           Map(<<"log_channel", 2>>, <<"debuglog_subject", 4>>)>>)>>,
   partitions |-> <<[name |-> <<"linux">>, group |-> {<<"linux">>, <<"sm">>}],
                    [name |-> <<"time">>, group |-> {<<"time">>}],
                    [name |-> <<"debugserver">>, group |-> {<<"dbgserver">>}]>>,
   cpus |-> <<Frames(10, <<"linux">>, 10), Frames(1, <<"time">>, 10) \o Frames(1, <<"debugserver">>, 90)>>]

Init == /\ pc = "start" /\ cores = 0 /\ smp = None
        /\ doc = Desktop

start ==
  /\ pc = "start"
  /\ \E c \in Cores : IF c < 2 THEN pc' = "exit" /\ UNCHANGED cores
                               ELSE pc' = "memory" /\ cores' = c - 1
  /\ UNCHANGED <<doc, smp>>

\* The subjects are found by name, the changes made to the first that has it.
Subject(name) == SelectInSeq(doc.subjects, LAMBDA s : s.name = name)
ForEachCore(F(_)) == FoldLeft(LAMBDA acc, i : acc \o F(i), <<>>, [i \in 1..cores |-> i])

create_phys_memory ==
  /\ pc = "memory" /\ pc' = "events"
  /\ doc' = [doc EXCEPT !.memory = @ \o
       ForEachCore(LAMBDA i : <<<<"control_sm">> \o str(i), <<"status_sm">> \o str(i)>>)]
  /\ UNCHANGED <<cores, smp>>

\* MUTANT of smp_signal: the event is declared without the padding.
smp_signal_Plain(i) == [mode |-> "asap", name |-> <<"linux_smp_signal_sm">> \o str(i)]

smp_signal(i) == [mode |-> "asap", name |-> <<"linux_smp_signal_sm">> \o zfill2(i)]

create_phys_events ==
  /\ pc = "events" /\ pc' = "channels"
  /\ doc' = [doc EXCEPT !.events = @ \o
       ForEachCore(LAMBDA i : <<[mode |-> "switch", name |-> <<"trap_to_sm">> \o str(i)],
                                [mode |-> "switch", name |-> <<"resume_linux">> \o str(i)],
                                [mode |-> "async", name |-> <<"serial_irq4_linux">> \o str(i)],
                                [mode |-> "self", name |-> <<"timer_linux">> \o str(i)],
                                smp_signal(i)>>)]
  /\ UNCHANGED <<cores, smp>>

create_phys_channels ==
  /\ pc = "channels" /\ pc' = "lnx"
  /\ doc' = [doc EXCEPT !.channels = @ \o
       ForEachCore(LAMBDA i : <<<<"debuglog_subject">> \o str(dbgchannel_end + i)>>)]
  /\ UNCHANGED <<cores, smp>>

vmcall_id(i) == 2 + i

create_lnx_resources ==
  /\ pc = "lnx" /\ pc' = "dbg"
  /\ doc' = [doc EXCEPT !.subjects[Subject(<<"linux">>)].sources = @ \o
       ForEachCore(LAMBDA i : <<Source("vmcall", vmcall_id(i), <<"linux_smp_signal_sm">> \o zfill2(i))>>)]
  /\ UNCHANGED <<cores, smp>>

\* MUTANT of log_map: the channels are connected in the reverse order.
log_map_Reversed(i) == Map(<<"log_channel">> \o str(2 + cores + 1 - i), <<"debuglog_subject">> \o str(dbgchannel_end + i))

log_map(i) == Map(<<"log_channel">> \o str(2 + i), <<"debuglog_subject">> \o str(dbgchannel_end + i))

create_dbg_resources ==
  /\ pc = "dbg" /\ pc' = "subjects"
  /\ doc' = [doc EXCEPT !.subjects[Subject(<<"dbgserver">>)].maps = @ \o ForEachCore(LAMBDA i : <<log_map(i)>>)]
  /\ UNCHANGED <<cores, smp>>

\* The two templates, with the number of the core put in at each attrset.
create_subjects ==
  /\ pc = "subjects" /\ pc' = "partitions"
  /\ doc' = [doc EXCEPT !.subjects = @ \o
       ForEachCore(LAMBDA i : <<LnxSubject(str(i), <<>>, <<>>),
                                SmSubject(str(i), <<"debuglog_subject">> \o str(dbgchannel_end + i),
                                          <<<<"linux_smp_signal_sm">> \o zfill2(i)>>)>>)]
  /\ UNCHANGED <<cores, smp>>

partition(i) == [name |-> <<"linux_core">> \o str(i),
                 group |-> {<<"linux_core">> \o str(i), <<"sm_core">> \o str(i)}]

\* Partition i is inserted at position i, behind the one of Linux and those before it.
create_scheduling_partitions ==
  /\ pc = "partitions" /\ pc' = "core_one"
  /\ doc' = [doc EXCEPT !.partitions = SubSeq(@, 1, 1) \o ForEachCore(LAMBDA i : <<partition(i)>>) \o Tail(@)]
  /\ UNCHANGED <<cores, smp>>

\* The first frame of each of the two partitions gets one tick.
shortened(frames) ==
  LET first(p) == SelectInSeq(frames, LAMBDA f : f.partition = p)
  IN  [frames EXCEPT ![first(<<"debugserver">>)].ticks = 1, ![first(<<"time">>)].ticks = 1]

adjust_core_one ==
  /\ pc = "core_one" /\ pc' = "more_cores"
  /\ doc' = [doc EXCEPT !.cpus[2] = Frames(4, <<"linux_core", 1>>, 10) \o shortened(@)
                                    \o Frames(5, <<"linux_core", 1>>, 10) \o Frames(1, <<"linux_core", 1>>, 8)]
  /\ UNCHANGED <<cores, smp>>

create_additional_cores ==
  /\ pc = "more_cores" /\ pc' = "devices"
  /\ doc' = [doc EXCEPT !.cpus = @ \o [i \in 1..(cores - 1) |-> Frames(10, <<"linux_core">> \o str(i + 1), 10)]]
  /\ UNCHANGED <<cores, smp>>

IsLinux(s) == s.name[1] \in {"linux", "linux_core"}

\* cur_subj for device d.
subject_of(d, subj_max) == ((d - 1) % subj_max) + 1

spread_devices ==
  /\ pc = "devices" /\ pc' = "write"
  /\ LET devs  == doc.subjects[Subject(<<"linux">>)].devices
         subjs == SelectSeq([j \in DOMAIN doc.subjects |-> j], LAMBDA j : IsLinux(doc.subjects[j]))
         dealt(j) == SelectSeq([d \in DOMAIN devs |-> d],
                               LAMBDA d : LET k == subject_of(d, Len(subjs)) IN k \in DOMAIN subjs /\ subjs[k] = j)
     IN  doc' = [doc EXCEPT !.subjects = [j \in DOMAIN @ |->
                   IF Contains(subjs, j) THEN [@[j] EXCEPT !.devices = [d \in DOMAIN dealt(j) |-> devs[dealt(j)[d]]]]
                                         ELSE @[j]]]
  /\ UNCHANGED <<cores, smp>>

write ==
  /\ pc = "write" /\ pc' = "done"
  /\ smp' = doc
  /\ UNCHANGED <<cores, doc>>

Next == \/ start \/ create_phys_memory \/ create_phys_events \/ create_phys_channels
        \/ create_lnx_resources \/ create_dbg_resources \/ create_subjects
        \/ create_scheduling_partitions \/ adjust_core_one \/ create_additional_cores
        \/ spread_devices \/ write

Spec == Init /\ [][Next]_vars
=============================================================================
