----------------------------- MODULE SubjectNames -----------------------------
(***************************************************************************)
(* dbgserver/misc/extract-subject-names.py: the Ada package that tells the *)
(* debug server which subject writes each of its log channels, made from   *)
(* the system policy.  The policy is the one smpify.py has written         *)
(* (SmpPolicy), or one written by hand.                                    *)
(***************************************************************************)
EXTENDS SmpPolicy

CONSTANTS HandWritten,     \* policies of other systems
          Arguments        \* what is given on the command line

VARIABLES step,            \* where the script is, or how it ended
          src_policy,      \* the policy read
          log_channels,    \* channels that are left to look up
          subject_names,   \* the names found so far
          package          \* the file written, or None

nvars == <<step, src_policy, log_channels, subject_names, package>>
allvars == <<vars, nvars>>

NamesInit ==
  /\ Init
  /\ step = "start" /\ src_policy = None /\ log_channels = <<>>
  /\ subject_names = <<>> /\ package = None

\* The maps of the debug server that begin with log_, in document order.
log_maps(policy) ==
  FoldLeft(LAMBDA acc, s : acc \o (IF s.component = "dbgserver"
                                   THEN SelectSeq(s.maps, LAMBDA m : m.logical[1] = "log_channel") ELSE <<>>),
           <<>>, policy.subjects)

\* Parsing the arguments, the tests made on them, reading the policy.
parse_args ==
  /\ step = "start" /\ pc \in {"done", "exit"}
  /\ \E a \in Arguments : \E p \in (IF smp = None THEN HandWritten ELSE {smp}) :
       IF a.out /\ a.src_policy /\ a.isfile /\ a.isdir
       THEN step' = "extract" /\ src_policy' = p /\ log_channels' = log_maps(p)
       ELSE step' = "exit" /\ UNCHANGED <<src_policy, log_channels>>
  /\ UNCHANGED <<vars, subject_names, package>>

\* Subjects with a component other than the debug server that maps the channel.  A
\* sibling has no component of its own.
by_map(phys_name) == SelectSeq(src_policy.subjects,
  LAMBDA s : s.component \notin {"dbgserver", "sibling"} /\ \E m \in ToSet(s.maps) : m.physical = phys_name)
by_writer(phys_name) == SelectSeq(src_policy.subjects, LAMBDA s : phys_name \in s.writers)

candidates(phys_name) == IF by_map(phys_name) = <<>> THEN by_writer(phys_name) ELSE by_map(phys_name)

\* One turn of the loop over the log channels.
extract_subject_name ==
  /\ step = "extract" /\ log_channels # <<>>
  /\ LET subjs == candidates(Head(log_channels).physical)
     IN  IF subjs = <<>>
         THEN step' = "unable" /\ UNCHANGED <<log_channels, subject_names>>
         ELSE /\ subject_names' = Append(subject_names, Head(subjs).name)
              /\ log_channels' = Tail(log_channels)
              /\ UNCHANGED step
  /\ UNCHANGED <<vars, src_policy, package>>

\* max() of an empty sequence raises ValueError, after the file has been opened.
write_spec ==
  /\ step = "extract" /\ log_channels = <<>>
  /\ IF subject_names = <<>> THEN step' = "ValueError" /\ package' = <<>>
                             ELSE step' = "end" /\ package' = subject_names
  /\ UNCHANGED <<vars, src_policy, log_channels, subject_names>>

NamesNext == (Next /\ UNCHANGED nvars) \/ parse_args \/ extract_subject_name \/ write_spec

NamesSpec == NamesInit /\ [][NamesNext]_allvars /\ WF_allvars(NamesNext)

-----------------------------------------------------------------------------
subjects == ToSet(smp.subjects)
CpusOf(p) == {c \in DOMAIN smp.cpus : \E j \in DOMAIN smp.cpus[c] : smp.cpus[c][j].partition = p}
GroupOf(s) == {smp.partitions[j].name : j \in {k \in DOMAIN smp.partitions : s \in smp.partitions[k].group}}
CpuOf(s) == UNION {CpusOf(p) : p \in GroupOf(s)}

Maps(s, l, e) == \E j \in DOMAIN s.maps : s.maps[j] = Map(<<l>>, e)

\* Which maps of the subject monitor are event sources and targets is said in the
\* specification of component sm.
SourcesOf(e) == {s.name : s \in {t \in subjects : \/ \E j \in DOMAIN t.sources : t.sources[j].physical = e
                                                 \/ Maps(t, "resume_subject", e)}}
TargetsOf(e) == {s.name : s \in {t \in subjects : \/ \E j \in DOMAIN t.targets : t.targets[j] = e
                                                 \/ Maps(t, "handle_subject_trap", e)}}

Ticks(frames) == FoldLeft(LAMBDA acc, f : acc + f.ticks, 0, frames)

(* The major frame is as long on every CPU of the system smpify.py makes: a CPU
   with fewer ticks would wait at the end of the frame, and the policy compiler
   refuses it ("Validate tick counts in major frame").                      *)
FramesEqual ==
  smp # None => \A c \in DOMAIN smp.cpus : Ticks(smp.cpus[c]) = Ticks(smp.cpus[1])

(* Every partition runs on exactly one CPU, every subject is in exactly one
   partition, and a subject monitor runs where the Linux it monitors does, in
   one group: the trap that one raises switches to the other.               *)
Scheduled ==
  smp # None =>
    /\ \A j \in DOMAIN smp.partitions : Cardinality(CpusOf(smp.partitions[j].name)) = 1
    /\ \A s \in subjects :
         /\ Cardinality(GroupOf(s.name)) = 1
         /\ s.monitors # None => GroupOf(s.name) = GroupOf(s.monitors)

(* Each event that is not the kernel's has a source and exactly one target: for a
   switch event the two are in one group, for an asap event (sent as an IPI) on
   different CPUs, for a self event they are the same subject; and no subject uses
   an event, a channel or a memory region the policy does not declare.       *)
EventsRoutable ==
  smp # None =>
    LET declared == ToSet(smp.memory) \cup ToSet(smp.channels) \cup {e.name : e \in ToSet(smp.events)}
    IN  /\ \A e \in ToSet(smp.events) : e.mode # "kernel" =>
             \E s \in SourcesOf(e.name), t \in TargetsOf(e.name) :
               /\ SourcesOf(e.name) = {s} /\ TargetsOf(e.name) = {t}
               /\ e.mode = "switch" => s # t /\ GroupOf(s) = GroupOf(t)
               /\ e.mode = "asap" => CpuOf(s) \cap CpuOf(t) = {}
               /\ e.mode = "self" => s = t
        /\ \A s \in subjects :
             /\ \A j \in DOMAIN s.sources : s.sources[j].physical \in declared
             /\ \A j \in DOMAIN s.targets : s.targets[j] \in declared
             /\ \A j \in DOMAIN s.maps : s.maps[j].physical \in declared

(* No two events of one source group of a subject have the same number: the kernel
   would find only one of them when Linux makes the hypercall.               *)
UniqueIds ==
  smp # None =>
    \A s \in subjects : \A j, k \in DOMAIN s.sources :
      s.sources[j].group = s.sources[k].group /\ s.sources[j].id = s.sources[k].id => j = k

(* The devices are dealt out evenly and none is lost: each device of the desktop
   system belongs to exactly one Linux subject, and no subject has two more than
   another.                                                                  *)
DevicesSpread ==
  smp # None =>
    LET linux == {s \in subjects : IsLinux(s)}
    IN  /\ \A d \in {"keyboard_mouse", "host_bridge", "isa_bridge", "vga", "gfx", "devs"} :
             Cardinality({s \in linux : Contains(s.devices, d)}) = 1
        /\ \A s, t \in linux : Len(s.devices) - Len(t.devices) <= 1

(* Entry i of the package is the subject that writes log channel i: what the debug
   server prints is attributed to the subject that said it.  The log channels of a
   policy are numbered in document order.                                    *)
NamesRight ==
  step = "end" =>
    /\ Len(package) = Len(log_maps(src_policy))
    /\ \A i \in DOMAIN package :
         \E s \in ToSet(src_policy.subjects) :
           /\ s.name = package[i] /\ s.component # "dbgserver"
           /\ \E d \in ToSet(src_policy.subjects) : \E m \in ToSet(d.maps) :
                /\ d.component = "dbgserver" /\ m.logical = <<"log_channel", i>>
                /\ m.physical \in {x.physical : x \in ToSet(s.maps)} \cup s.writers

LogsWritten(policy) ==
  log_maps(policy) # <<>> /\ \A m \in ToSet(log_maps(policy)) :
    \E s \in ToSet(policy.subjects) :
      /\ s.component # "dbgserver"
      /\ m.physical \in {x.physical : x \in ToSet(s.maps)} \cup s.writers

(* The build gets the package: from a policy with log channels each of which some
   subject writes, by a component map or as a channel writer, the file is made.  *)
PackageMade == (step = "extract" /\ LogsWritten(src_policy)) ~> step = "end"
=============================================================================
