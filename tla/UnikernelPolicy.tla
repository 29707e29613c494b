--------------------------- MODULE UnikernelPolicy ---------------------------
(***************************************************************************)
(* mirageos/compose.py, run on what solo5-muen-gencspec.py has written: the *)
(* unikernel component becomes a subject of the mirage-solo5 system, and    *)
(* each of its channels is connected to the Linux that drives the network  *)
(* card.  Solo5Spec makes the component specification, the actions here    *)
(* read it.                                                                *)
(***************************************************************************)
EXTENDS Solo5Spec

CONSTANT LINUX_BASE_ADDR

VARIABLES step,            \* function of compose.py called next
          components,      \* components of the policy
          physChannels,    \* /system/channels, the ones added
          maps,            \* component maps of subject unikernel
          linuxChannels,   \* channels of subject nic_linux
          bootparams,      \* subject |-> boot parameters
          sysConfig,       \* /system/config, the variables added
          policy           \* mirage-solo5.xml on disk: "none", "written"

policyDoc == <<components, physChannels, maps, linuxChannels, bootparams, sysConfig>>
uvars == <<vars, step, policyDoc, policy>>

cspec == output            \* component_unikernel.xml

ComposeInit ==
  /\ Init
  /\ step = "start" /\ policy = "none"
  /\ components = <<>> /\ physChannels = <<>> /\ maps = <<>> /\ linuxChannels = <<>>
  /\ bootparams = [s \in {"unikernel", "nic_linux"} |-> IF s = "nic_linux" THEN << <<"console">> >> ELSE <<>>]
  /\ sysConfig = <<>>

\* A channel's logical name: device, bar and suffix.  The physical name replaces the
\* bar and prepends the subject.
logical(chan) == <<chan.dev, chan.suffix>>
phys_name(chan) == <<"unikernel", logical(chan)[1], logical(chan)[2]>>

\* The make rule needs the component specification; make runs compose.py when it is
\* there, and the converter has ended.
add_component ==
  /\ step = "start" /\ cspec # None /\ pc \in {"done", "exit", "AttributeError"}
  /\ step' = "physical"
  /\ components' = Append(components, cspec)
  /\ UNCHANGED <<vars, physChannels, maps, linuxChannels, bootparams, sysConfig, policy>>

add_physical_channels ==
  /\ step = "physical" /\ step' = "mappings"
  /\ physChannels' = [j \in DOMAIN cspec.channels |->
                        [name |-> phys_name(cspec.channels[j]), size |-> cspec.channels[j].size]]
  /\ UNCHANGED <<vars, components, maps, linuxChannels, bootparams, sysConfig, policy>>

add_subject_channel_mappings ==
  /\ step = "mappings" /\ step' = "linux"
  /\ maps' = [j \in DOMAIN cspec.channels |->
                [logical |-> logical(cspec.channels[j]), physical |-> phys_name(cspec.channels[j])]]
  /\ UNCHANGED <<vars, components, physChannels, linuxChannels, bootparams, sysConfig, policy>>

\* MUTANT of flipped: Linux gets the role the unikernel has.
flipped_Not(tag) == tag

flipped(tag) == IF tag = "writer" THEN "reader" ELSE "writer"

\* Base address and the sizes of the channels before.
linux_address(j) ==
  FoldLeft(LAMBDA a, c : a + ada_hex_to_int(c.size), LINUX_BASE_ADDR, SubSeq(cspec.channels, 1, j - 1))

add_linux_channels ==
  /\ step = "linux" /\ step' = "iface"
  /\ linuxChannels' = [j \in DOMAIN cspec.channels |->
       [tag |-> flipped(cspec.channels[j].tag), logical |-> logical(cspec.channels[j]),
        physical |-> phys_name(cspec.channels[j]), virtualAddress |-> int_to_ada_hex(linux_address(j))]]
  /\ UNCHANGED <<vars, components, physChannels, maps, bootparams, sysConfig, policy>>

\* rstrip("|in"): every trailing bar, i and n goes, those of the device name too.
rstrip(name) == [name EXCEPT !.tail = ""]

add_linux_bootparams ==
  /\ step = "iface" /\ step' = "params"
  /\ LET readers == SelectSeq(cspec.channels, LAMBDA c : c.tag = "reader")
     IN  bootparams' = [bootparams EXCEPT !["nic_linux"] =
           Append(@, <<"unikernel_iface", [j \in DOMAIN readers |-> rstrip(readers[j].dev)]>>)]
  /\ UNCHANGED <<vars, components, physChannels, maps, linuxChannels, sysConfig, policy>>

set_subject_bootparams ==
  /\ step = "params" /\ step' = "reset"
  /\ bootparams' = IF Contains(cspec.config, "bootparams")
                   THEN [bootparams EXCEPT !["unikernel"] = Append(@, <<"bootparams">>)] ELSE bootparams
  /\ UNCHANGED <<vars, components, physChannels, maps, linuxChannels, sysConfig, policy>>

\* The variable is looked up in the component named like the subject: IndexError
\* when there is none.
copy_reset_variable ==
  /\ step = "reset"
  /\ IF input.name_is_unikernel /\ Contains(cspec.config, "resetable")
     THEN step' = "write" /\ sysConfig' = Append(sysConfig, "unikernel_resetable")
     ELSE step' = "IndexError" /\ UNCHANGED sysConfig
  /\ UNCHANGED <<vars, components, physChannels, maps, linuxChannels, bootparams, policy>>

write_policy ==
  /\ step = "write" /\ step' = "end"
  /\ policy' = "written"
  /\ UNCHANGED <<vars, policyDoc>>

ComposeNext ==
  \/ Next /\ UNCHANGED <<step, policyDoc, policy>>
  \/ add_component \/ add_physical_channels \/ add_subject_channel_mappings
  \/ add_linux_channels \/ add_linux_bootparams \/ set_subject_bootparams
  \/ copy_reset_variable \/ write_policy

ComposeSpec == ComposeInit /\ [][ComposeNext]_uvars /\ WF_uvars(ComposeNext)

-----------------------------------------------------------------------------
Unikernel(p) == {c \in ToSet(cspec.channels) :
                   \E m \in ToSet(maps) : m.physical = p /\ m.logical = logical(c)}
Linux(p) == {c \in ToSet(linuxChannels) : c.physical = p}

\* From manifest to policy: each network device that the specification has channels
\* for has two physical ones, and on each of them the unikernel and Linux meet in
\* opposite roles, with no third party and no second channel of the same name.
Connected ==
  policy = "written" =>
    /\ \A d \in {n \in NetDevices : Wired(n)} : \E p, q \in {c.name : c \in ToSet(physChannels)} :
         /\ p # q
         /\ \E u \in Unikernel(p), w \in Unikernel(q) :
              u.tag = "reader" /\ w.tag = "writer" /\ u.dev = d.name /\ w.dev = d.name
    /\ \A c \in ToSet(physChannels) : \E u, l \in {"reader", "writer"} :
         /\ u # l
         /\ {x.tag : x \in Unikernel(c.name)} = {u} /\ {x.tag : x \in Linux(c.name)} = {l}
         /\ Cardinality(Unikernel(c.name)) = 1 /\ Cardinality(Linux(c.name)) = 1

\* The channels do not overlap in the address space of Linux either.
LinuxApart ==
  policy = "written" =>
    \A i, j \in DOMAIN linuxChannels : i < j =>
      ada_hex_to_int(linuxChannels[i].virtualAddress) + ada_hex_to_int(cspec.channels[i].size)
        <= ada_hex_to_int(linuxChannels[j].virtualAddress)

\* A specification the converter finished for the component "unikernel" always
\* becomes a policy: nothing compose.py looks up is missing from it.
PolicyMade == (pc = "done" /\ input.name_is_unikernel) ~> policy = "written"

\* The interfaces that Linux is told of by unikernel_iface ("Add 'unikernel_iface'
\* bootparameter") are the network devices of the unikernel.
InterfacesNamed ==
  policy = "written" =>
    \A p \in ToSet(Tail(bootparams["nic_linux"])) :
      ToSet(p[2]) = {d.name : d \in NetDevices}
=============================================================================
