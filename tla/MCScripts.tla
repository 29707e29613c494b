----------------------------- MODULE MCScripts ------------------------------
(***************************************************************************)
(* The Python scripts that make policies, component specifications and     *)
(* schemas.  A behaviour is the run of one of them, with what reads its    *)
(* output: solo5-muen-gencspec.py and compose.py (UnikernelPolicy, the     *)
(* variables of which keep their names), linux-muen-gencspec.py            *)
(* (LinuxScript), smpify.py and extract-subject-names.py (Smp),            *)
(* xsd_plugin_doc.py twice (Schema).                                       *)
(***************************************************************************)
EXTENDS UnikernelPolicy, TLC

VARIABLES lxInput, lxPc, lxProvides, lxOutput,
          smpPc, cores, smpDoc, smp, namesStep, src_policy, log_channels, subject_names, package,
          types, toplevel, usgSeq, typeIndex, phase, pass, original, written

linuxVars == <<lxInput, lxPc, lxProvides, lxOutput>>
smpVars == <<smpPc, cores, smpDoc, smp, namesStep, src_policy, log_channels, subject_names, package>>
schemaVars == <<types, toplevel, usgSeq, typeIndex, phase, pass, original, written>>

-----------------------------------------------------------------------------
(* solo5-muen-gencspec.py and compose.py: three loadable segments and one that is
   not, page aligned and in ascending order as a linker leaves them, with sizes on
   and off page boundaries; MB is scaled down to two pages.                  *)
Sec(len, text) == [len |-> len, text |-> text]
Seg(load, secs, offset, va, phy, mem) ==
  [load |-> load, sections |-> secs, file_offset |-> offset, virtual_address |-> va,
   physical_size |-> phy, virtual_size |-> mem]

TextSecs == <<Sec(7, FALSE), Sec(5, TRUE)>>
DataSecs == {<<Sec(5, FALSE), Sec(4, FALSE)>>, <<Sec(30, FALSE), Sec(40, FALSE)>>}
Sizes == { <<4096, 4096>>, <<4097, 8192>>, <<1, 12288>>, <<0, 4095>> }

Segments ==
  { <<Seg(TRUE, TextSecs, o, 1048576, 4097, 4097), Seg(FALSE, <<>>, 0, 0, 10, 10),
      Seg(TRUE, d, o + 8192, 1048576 + 8192, s[1], s[2]),
      Seg(TRUE, e, o + 20480, 1048576 + 20480, u[1], u[2])>>
    : o \in {0, 4096}, d \in DataSecs, e \in {<<>>, <<Sec(4, FALSE)>>}, s \in Sizes, u \in Sizes }

Dev(type, stem, tail) == [type |-> type, name |-> [stem |-> stem, tail |-> tail]]
Net(stem, tail) == Dev("NET_BASIC", stem, tail)
Block == Dev("BLOCK_BASIC", "disk", "")
Devices == {<<>>, <<Net("eth0", "")>>, <<Block, Net("ma", "in"), Net("eth0", "")>>}

BootInfo == Region([text |-> FALSE, len |-> 9], 4096, 4096, "file", None)

\* Channels the source specification has already, one of them larger than the others.
OwnChannels == << Channel("reader", [stem |-> "adm", tail |-> "in"], "in", 3145728, 4096),
                  Channel("writer", [stem |-> "log", tail |-> ""], "none", 3149824, 8192) >>

OkInput == [elf_exists |-> TRUE, spec_exists |-> TRUE, comp_name_len |-> 9, name_is_unikernel |-> TRUE,
            config |-> None, requires |-> <<"vcpu">>, channels |-> <<>>, provides |-> <<BootInfo>>,
            entrypoint |-> 1048640, segments |-> CHOOSE s \in Segments : TRUE, ram |-> 1,
            abi |-> [type |-> "solo5.abi", target |-> "muen", version |-> 3],
            manifest |-> [type |-> "solo5.manifest", devices |-> <<Net("eth0", "")>>],
            spec_dir_exists |-> TRUE, copy_bin |-> TRUE,
            interp_offset |-> 4096, text_offset |-> 4224]

Requires == {<<"vcpu">>, <<"vcpu", "memory", "devices">>, <<"vcpu", "channels", "devices">>}

Layouts ==
  {[OkInput EXCEPT !.segments = s, !.manifest.devices = d, !.ram = r, !.requires = q,
                   !.channels = IF Contains(q, "channels") THEN OwnChannels ELSE <<>>] :
     s \in Segments, d \in Devices, r \in {1, 2}, q \in Requires}

\* The ways in which the converter stops.
Failures ==
  {[OkInput EXCEPT !.elf_exists = FALSE], [OkInput EXCEPT !.spec_exists = FALSE],
   [OkInput EXCEPT !.spec_dir_exists = FALSE], [OkInput EXCEPT !.copy_bin = FALSE],
   [OkInput EXCEPT !.text_offset = 0], [OkInput EXCEPT !.interp_offset = 0],
   [OkInput EXCEPT !.interp_offset = 8192], [OkInput EXCEPT !.manifest = None],
   [OkInput EXCEPT !.manifest.type = "other"], [OkInput EXCEPT !.abi = None]}
  \cup {[OkInput EXCEPT !.abi = [type |-> t, target |-> g, version |-> v], !.config = c] :
          t \in {"solo5.abi", "other"}, g \in {"muen", "hvt"}, v \in {2, 3}, c \in {None, <<"debug">>}}

\* No, one, two or three network devices; a component with another name.
Unikernels ==
  {[OkInput EXCEPT !.manifest.devices = d, !.name_is_unikernel = n, !.ram = r, !.copy_bin = c] :
     d \in Devices \cup {<<Net("eth0", ""), Net("eth1", ""), Net("ma", "in")>>, <<Block>>},
     n \in BOOLEAN, r \in {1, 2}, c \in BOOLEAN}

Solo5Inputs == Layouts \cup Failures \cup Unikernels

-----------------------------------------------------------------------------
(* linux-muen-gencspec.py: no, one or two physical initramfs regions; up to two
   mappings, at one or at two addresses, with every combination of permissions;
   names with and without capitals.                                         *)
Name(word) == [word |-> word, capitals |-> FALSE]
Capitals(name) == [name EXCEPT !.capitals = TRUE]
initramfs == Name("initramfs")

PhysRegion == [name : {initramfs}, size : {int_to_ada_hex(4096), int_to_ada_hex(20480)}]
Mapping == [physical : {initramfs}, executable : {"true", "false"}, writable : {"true", "false"},
            virtualAddress : {int_to_ada_hex(1879048192), int_to_ada_hex(1879052288)}]
RamMapping == [physical |-> Name("ram"), executable |-> "true", writable |-> "true",
               virtualAddress |-> int_to_ada_hex(16777216)]

SystemPolicies ==
  {[regions |-> <<[p EXCEPT !.name = Capitals(@)]>>, mappings |-> <<RamMapping, [a EXCEPT !.physical = n]>>] :
     p \in PhysRegion, a \in Mapping, n \in {initramfs, Capitals(initramfs)}}
  \cup
  {[regions |-> r, mappings |-> m] :
     r \in {<<>>} \cup {<<p>> : p \in PhysRegion} \cup {<<p, [p EXCEPT !.name = Name("second")]>> : p \in PhysRegion},
     m \in {<<RamMapping>>} \cup {<<RamMapping, a>> : a \in Mapping} \cup {<<a, RamMapping, b>> : a, b \in Mapping}}

OkArgs == [kernel_binary |-> "file", src_xml_spec |-> "file", out_spec |-> "file",
           initramfs |-> "file", src_policy |-> "file",
           policy |-> [regions |-> << [name |-> initramfs, size |-> int_to_ada_hex(4096)] >>,
                       mappings |-> << [RamMapping EXCEPT !.physical = initramfs] >>],
           binary_size |-> 8192, initramfs_size |-> 4097]

LinuxInputs ==
  {[OkArgs EXCEPT !.policy = p, !.initramfs_size = n] : p \in SystemPolicies, n \in {1, 4096, 4097}}
  \cup {[OkArgs EXCEPT !.initramfs = i, !.binary_size = n] : i \in {None, "missing"}, n \in {1, 4095, 4096}}
  \cup {[OkArgs EXCEPT !.kernel_binary = k1, !.src_xml_spec = s, !.out_spec = o,
                       !.initramfs = i, !.src_policy = p] :
          k1 \in {None, "file"}, s \in {None, "file"}, o \in {None, "file", "no directory"},
          i \in {None, "file"}, p \in {None, "missing", "file"}}

LinuxScript == INSTANCE LinuxSpec WITH
  LINUX_VIRTUAL_ADDRESS <- 4194304, INITRAMFS_VIRTUAL_ADDRESS <- 1879052288, BOOT_SIZE <- 81920,
  Inputs <- LinuxInputs, input <- lxInput, pc <- lxPc, provides <- lxProvides, output <- lxOutput

-----------------------------------------------------------------------------
(* smpify.py for up to 32 cores, and extract-subject-names.py on its output or on
   policies written by hand: the desktop system as it is, one with a Linux that
   writes its log itself (a channel writer, no component map), one with a log
   channel nobody writes, one without log channels.                          *)
Templates == INSTANCE SmpPolicy WITH Cores <- {}, pc <- smpPc, doc <- smpDoc

Writer(name, p) == [Templates!Other(name, "sibling", <<>>) EXCEPT !.writers = {p}]
Dbg(logs) == Templates!Other(<<"dbgserver">>, "dbgserver", logs)
WithSubjects(subjs) == [Templates!Desktop EXCEPT !.subjects = subjs]
Log(i, p) == Templates!Map(<<"log_channel", i>>, p)

HandWrittenPolicies ==
  {Templates!Desktop,
   WithSubjects(<<Writer(<<"nic_linux">>, <<"debuglog_subject", 2>>), Dbg(<<Log(1, <<"debuglog_subject", 2>>)>>)>>),
   WithSubjects(<<Dbg(<<Log(1, <<"debuglog_subject", 1>>), Log(2, <<"debuglog_subject", 2>>)>>),
                  Templates!Other(<<"tau0">>, "tau0", <<Templates!Map(<<"debuglog">>, <<"debuglog_subject", 1>>)>>)>>),
   WithSubjects(<<Dbg(<<>>)>>)}

Smp == INSTANCE SubjectNames WITH
  Cores <- 0..32, HandWritten <- HandWrittenPolicies,
  Arguments <- [out : BOOLEAN, src_policy : BOOLEAN, isfile : BOOLEAN, isdir : BOOLEAN],
  pc <- smpPc, doc <- smpDoc, step <- namesStep

-----------------------------------------------------------------------------
(* xsd_plugin_doc.py: three types, "b" may extend "a", "c" may extend "b".  The
   forms are those the README of the plugins lists, and two it excludes.       *)
TypeNames == <<"a", "b", "c">>
Forms == INSTANCE SchemaPlugin WITH Types <- TypeNames, Schemas <- {}, i <- typeIndex

Leaf(tag) == Forms!Leaf(tag)
Node(tag, kids) == Forms!Node(tag, kids)

Plain == { <<>>,
  <<Leaf("annotation")>>,
  <<Leaf("sequence")>>,
  <<Leaf("annotation"), Node("sequence", <<Leaf("e1"), Node("choice", <<Leaf("e2")>>)>>)>>,
  <<Node("choice", <<Leaf("e1"), Leaf("e2")>>), Leaf("attribute")>>,
  <<Node("group", <<Leaf("e3")>>)>>,
  <<Leaf("annotation"), Leaf("attribute")>>,
  <<Leaf("attributeGroup"), Leaf("attribute")>>,
  <<Leaf("simpleContent")>>,
  <<Leaf("all")>> }

Deriving(how, base) ==
  { <<Node("complexContent", <<Node(how, <<Leaf(base)>> \o own)>>)>> :
      own \in {<<>>, <<Node("sequence", <<Leaf("e4")>>)>>, <<Leaf("attribute")>>} }

\* complexContent extends only types that have complex content.
Legal(f) == \A t \in {"b", "c"} : f[t] \notin Plain => ~Forms!Simple(f, IF t = "b" THEN "a" ELSE "b")

SourceSchemas ==
  LET Bs == Plain \cup Deriving("extension", "a")
      Cs == Plain \cup Deriving("extension", "b") \cup Deriving("restriction", "b")
  IN  {f \in {("a" :> x) @@ ("b" :> y) @@ ("c" :> z) : x \in Plain, y \in Bs, z \in Cs} : Legal(f)}

Schema == INSTANCE SchemaPlugin WITH Types <- TypeNames, Schemas <- SourceSchemas, i <- typeIndex

-----------------------------------------------------------------------------
(* The state of a script that is not run.                                   *)
NoUnikernel ==
  /\ input = None /\ pc = "idle" /\ k = 1 /\ end_addr = 0 /\ config = None /\ requires = <<>>
  /\ provides = <<>> /\ rip = 0 /\ rsp = 0 /\ chansDoc = <<>> /\ chansList = <<>>
  /\ output = None /\ binary = "absent" /\ step = "idle" /\ policy = "none"
  /\ components = <<>> /\ physChannels = <<>> /\ maps = <<>> /\ linuxChannels = <<>>
  /\ bootparams = <<>> /\ sysConfig = <<>>
NoLinux == lxInput = None /\ lxPc = "idle" /\ lxProvides = <<>> /\ lxOutput = None
NoSmp ==
  /\ smpPc = "idle" /\ cores = 0 /\ smpDoc = None /\ smp = None /\ namesStep = "idle"
  /\ src_policy = None /\ log_channels = <<>> /\ subject_names = <<>> /\ package = None
NoSchema ==
  /\ types = [t \in {"a", "b", "c"} |-> <<>>] /\ original = types /\ written = <<>>
  /\ toplevel = <<>> /\ usgSeq = <<>> /\ typeIndex = 1 /\ phase = "idle" /\ pass = 1

ScriptsInit ==
  \/ ComposeInit /\ NoLinux /\ NoSmp /\ NoSchema
  \/ LinuxScript!Init /\ NoUnikernel /\ NoSmp /\ NoSchema
  \/ Smp!NamesInit /\ NoUnikernel /\ NoLinux /\ NoSchema
  \/ Schema!Init /\ NoUnikernel /\ NoLinux /\ NoSmp

RunUnikernel == ComposeNext /\ UNCHANGED <<linuxVars, smpVars, schemaVars>>
RunLinux == LinuxScript!Next /\ UNCHANGED <<uvars, smpVars, schemaVars>>
RunSmp == Smp!NamesNext /\ UNCHANGED <<uvars, linuxVars, schemaVars>>
RunSchema == Schema!add_documentation /\ UNCHANGED <<uvars, linuxVars, smpVars>>

ScriptsNext == RunUnikernel \/ RunLinux \/ RunSmp \/ RunSchema

scriptsVars == <<uvars, linuxVars, smpVars, schemaVars>>
ScriptsSpec == ScriptsInit /\ [][ScriptsNext]_scriptsVars /\ WF_scriptsVars(ScriptsNext)

-----------------------------------------------------------------------------
(* What each script promises, from the parts stated and explained in its module. *)

\* solo5-muen-gencspec.py: the specification describes the binary.  No two regions
\* overlap; every page of a LOAD segment that has sections is in a region, at its place in
\* the file or filled; only binaries of the supported ABI and manifest are converted; and
\* every literal written, for registers, addresses, sizes and file offsets other than 0,
\* denotes the number the script computed.
BinaryDescribed == TypeOK /\ NoOverlap /\ SegmentsCovered /\ OutputValid /\ LiteralsExact

\* compose.py: every device of the unikernel has both ends of its channels, reader facing
\* writer, through one physical channel, and Linux maps them at addresses apart.
ChannelsConnected == Connected /\ LinuxApart

\* linux-muen-gencspec.py: a region holds its whole file in as few pages as possible, the
\* new initramfs begins where the existing one ends in every subject that maps it, and
\* what is written is what was asked for.
LinuxRegions == LinuxScript!HoldsFile /\ LinuxScript!Adjacent /\ LinuxScript!Complete

\* smpify.py: the policy is one the compiler accepts.  The major frame is as long on every
\* CPU, every subject has one place in the schedule, a monitor that of its Linux, every
\* event has a source and one target placed as its mode demands, and each device belongs to
\* one Linux, for all the numbers of cores; and with fewer than 30 cores the events of a
\* group have different numbers.
SmpPolicyValid ==
  /\ Smp!FramesEqual
  /\ Smp!Scheduled
  /\ Smp!EventsRoutable
  /\ cores + 1 < 30 => Smp!UniqueIds
  /\ Smp!DevicesSpread

\* extract-subject-names.py: entry i is the subject that writes log channel i.
NamesRight == Smp!NamesRight

\* xsd_plugin_doc.py: every type with complex content starts with one optional doc, what
\* was legal stays legal, a complexType stays well-formed, and extending an extended
\* schema changes nothing.
SchemaExtended ==
  /\ Schema!DocFirst
  /\ Schema!Monotone
  /\ Schema!WellPlaced
  /\ Schema!Idempotent

\* compose.py makes a policy of every specification the converter finished for the
\* component it composes, and extract-subject-names.py a package for every policy whose
\* log channels are written: neither stops on its way.
ScriptsFinish == PolicyMade /\ Smp!PackageMade

-----------------------------------------------------------------------------
(* Statements in the code that do not hold of it; README.md says of each what
   happens.  Those of Solo5Spec and UnikernelPolicy keep their names.        *)

\* linux-muen-gencspec.py: "only set executable/writable to true if all mappings allow it".
OnlyIfAllAllow == LinuxScript!OnlyIfAllAllow

\* linux-muen-gencspec.py: no policy makes the script fail with a type error.
NoTypeError == LinuxScript!NoTypeError

\* smpify.py: the number of the hypercall that starts a core is not that of another event
\* (demo_system_desktop.xml gives the timer the number 31), whatever the number of cores.
HypercallsDiffer == Smp!UniqueIds

\* libmuxsdplugin.py: a type without children gets a sequence.
EmptyTypeExtended == Schema!EmptyTypeExtended
=============================================================================
