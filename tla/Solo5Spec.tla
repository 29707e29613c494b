------------------------------ MODULE Solo5Spec ------------------------------
(***************************************************************************)
(* solo5-muen-gencspec.py: turns a Solo5 unikernel into a Muen component.  *)
(* The loadable ELF segments, RAM and a pair of channels for each network  *)
(* device are laid out one behind the other in the component's address     *)
(* space; specification and patched binary are put into an output          *)
(* directory.                                                              *)
(*                                                                         *)
(* A name is known by its length, and by what matters to the script: does  *)
(* it contain ".text", what is left of it when trailing letters are        *)
(* stripped.  Addresses are numbers until they are written as literals.    *)
(***************************************************************************)
EXTENDS AdaHex, FiniteSets

CONSTANTS MAX_NAME_LEN, MB, chan_size, \* as in the script; MB is 2 ** 20
          None,                        \* nothing there
          Inputs                       \* command line, files, tools, ELF binaries

VARIABLES input, pc,
          k,          \* next segment or device
          config,     \* names in the config section
          requires,   \* tags of the children of the requires section
          provides,   \* memory regions
          end_addr,   \* end of the last region laid out, then chan_addr
          rip, rsp,
          chansDoc,   \* the children of requires/channels, those of the source first
          chansList,  \* what was appended to a Python list instead
          output,     \* component specification on disk
          binary      \* copy of the unikernel on disk: "absent", "copied", "patched"

doc == <<config, requires, provides, rip, rsp, chansDoc, chansList>>
disk == <<output, binary>>
vars == <<input, pc, k, end_addr, doc, disk>>

Page == 4096
round_up(size) == size + ((-size) % Page)

Init ==
  /\ input \in Inputs
  /\ pc = "args" /\ k = 1 /\ end_addr = 0
  /\ config = input.config /\ requires = input.requires
  /\ provides = input.provides
  /\ rip = 0 /\ rsp = 0
  /\ chansDoc = input.channels /\ chansList = <<>>
  /\ output = None /\ binary = "absent"

Goto(step) == pc' = step
Keep == UNCHANGED <<input, disk>>

check_args ==
  /\ pc = "args"
  /\ Goto(IF input.elf_exists /\ input.spec_exists THEN "config" ELSE "exit")
  /\ Keep /\ UNCHANGED <<k, end_addr, doc>>

\* The config section is created at the top if missing; bootparams goes to its end.
add_bootparams ==
  /\ pc = "config" /\ Goto("resetable")
  /\ config' = Append(IF config = None THEN <<>> ELSE config, "bootparams")
  /\ Keep /\ UNCHANGED <<k, end_addr, requires, provides, rip, rsp, chansDoc, chansList>>

\* MUTANT of set_resetable: the variable is not inserted.
set_resetable_Missing ==
  /\ pc = "resetable" /\ Goto("rip")
  /\ Keep /\ UNCHANGED <<k, end_addr, doc>>

set_resetable ==
  /\ pc = "resetable" /\ Goto("rip")
  /\ config' = <<"resetable">> \o (IF config = None THEN <<>> ELSE config)
  /\ Keep /\ UNCHANGED <<k, end_addr, requires, provides, rip, rsp, chansDoc, chansList>>

set_rip ==
  /\ pc = "rip" /\ Goto("elf")
  /\ rip' = input.entrypoint
  /\ Keep /\ UNCHANGED <<k, end_addr, config, requires, provides, rsp, chansDoc, chansList>>

-----------------------------------------------------------------------------
(* Memory of the binary *)

max_len == MAX_NAME_LEN - (input.comp_name_len + 1)

\* The section names joined with "+", cut when too long; a name that contains .text
\* becomes "text".  A section is its name's length and whether it contains .text.
mem_name(sections) ==
  LET n == FoldLeft(LAMBDA len, s : len + s.len, Len(sections) - 1, sections)
      End(j) == FoldLeft(LAMBDA len, s : len + s.len + 1, -1, SubSeq(sections, 1, j))
      keep == IF n > max_len THEN max_len - 2 ELSE n
  IN  IF \E j \in DOMAIN sections : sections[j].text /\ End(j) <= keep
      THEN [text |-> TRUE, len |-> 4]
      ELSE [text |-> FALSE, len |-> IF n > max_len THEN max_len ELSE n]

\* offset: where the content is in the file, None for a region without one.
Region(name, addr, size, kind, offset) ==
  [name |-> name, addr |-> addr, size |-> size, kind |-> kind, offset |-> offset]

Mapped(segment) == segment.load /\ segment.sections # <<>>

\* Where a segment continues without file content.
fill_addr(segment) == segment.virtual_address + round_up(segment.physical_size)

has_file(segment) == round_up(segment.physical_size) > 0

\* MUTANT of has_fill: only a segment without file content is filled.
has_fill_Empty(segment) == segment.physical_size = 0

has_fill(segment) == round_up(segment.physical_size) < round_up(segment.virtual_size)

\* The file-backed region of a segment and its fill region ("|fill").
SegmentRegions(segment) ==
  LET name == mem_name(segment.sections)
      phy == round_up(segment.physical_size)
      mem == round_up(segment.virtual_size)
  IN  (IF has_file(segment)
       THEN <<Region(name, segment.virtual_address, phy, "file", segment.file_offset)>> ELSE <<>>)
      \o (IF has_fill(segment)
          THEN <<Region([name EXCEPT !.len = @ + 5], fill_addr(segment), mem - phy, "fill", None)>>
          ELSE <<>>)

segment_end(segment) == segment.virtual_address + round_up(segment.virtual_size)

\* One round of the loop of add_elf_memory.
add_elf_memory ==
  /\ pc = "elf" /\ k <= Len(input.segments)
  /\ LET segment == input.segments[k]
     IN  IF Mapped(segment)
         THEN /\ provides' = provides \o SegmentRegions(segment)
              /\ end_addr' = segment_end(segment)
         ELSE UNCHANGED <<provides, end_addr>>
  /\ k' = k + 1
  /\ Keep /\ UNCHANGED <<pc, config, requires, rip, rsp, chansDoc, chansList>>

add_ram_memory ==
  /\ pc = "elf" /\ k > Len(input.segments)
  /\ provides' = Append(provides, Region([text |-> FALSE, len |-> 3], end_addr, input.ram * MB, "ram", None))
  /\ rsp' = end_addr + input.ram * MB - 8
  /\ end_addr' = end_addr + input.ram * MB
  /\ Goto("abi") /\ k' = 1
  /\ Keep /\ UNCHANGED <<config, requires, rip, chansDoc, chansList>>

-----------------------------------------------------------------------------
(* Solo5 ABI, manifest and devices *)

\* The tool answered, with the type, target and version expected.
validate_solo5_abi(abi) ==
  abi # None /\ abi.type = "solo5.abi" /\ abi.target = "muen" /\ abi.version = 3

check_abi ==
  /\ pc = "abi"
  /\ Goto(IF validate_solo5_abi(input.abi) THEN "manifest" ELSE "exit")
  /\ Keep /\ UNCHANGED <<k, end_addr, doc>>

read_manifest ==
  /\ pc = "manifest"
  /\ Goto(IF input.manifest # None /\ input.manifest.type = "solo5.manifest"
          THEN "devices" ELSE "exit")
  /\ Keep /\ UNCHANGED <<k, end_addr, doc>>

\* The logical name is that of the device, a bar and a suffix.
Channel(tag, dev, suffix, addr, size) ==
  [tag |-> tag, dev |-> dev, suffix |-> suffix, addr |-> addr, size |-> size]

\* A reader and behind it a writer.
add_channel(dev) ==
  << Channel("reader", dev, "in", end_addr, chan_size),
     Channel("writer", dev, "out", end_addr + chan_size, chan_size) >>

\* The new section goes to the end, and an existing devices section behind it.
with_channels(tags) == Append(SelectSeq(tags, LAMBDA t : t # "devices"), "channels")
                       \o SelectSeq(tags, LAMBDA t : t = "devices")

\* One device of the manifest.  "channels" is the element made here, unless the
\* specification had one: then it stays the list that xpath returned.
add_device ==
  /\ pc = "devices" /\ k <= Len(input.manifest.devices)
  /\ LET dev == input.manifest.devices[k]
     IN  IF dev.type # "NET_BASIC" THEN UNCHANGED <<requires, chansDoc, chansList, end_addr>>
         ELSE /\ end_addr' = end_addr + 2 * chan_size
              /\ IF Contains(input.requires, "channels")
                 THEN /\ chansList' = chansList \o add_channel(dev.name)
                      /\ UNCHANGED <<requires, chansDoc>>
                 ELSE /\ chansDoc' = chansDoc \o add_channel(dev.name)
                      /\ requires' = IF chansDoc = <<>> THEN with_channels(requires) ELSE requires
                      /\ UNCHANGED chansList
  /\ k' = k + 1
  /\ Keep /\ UNCHANGED <<pc, config, provides, rip, rsp>>

-----------------------------------------------------------------------------
(* Output *)

literal(x) == IF x = None THEN None ELSE int_to_ada_hex(x)

\* Numbers become literals; the output directory has to exist.
write_spec ==
  /\ pc = "devices" /\ k > Len(input.manifest.devices)
  /\ IF ~input.spec_dir_exists THEN Goto("exit") /\ UNCHANGED output
     ELSE /\ Goto(IF input.copy_bin THEN "copy" ELSE "done")
          /\ output' = [config |-> config, requires |-> requires, rip |-> literal(rip), rsp |-> literal(rsp),
                        provides |-> [j \in DOMAIN provides |->
                           [provides[j] EXCEPT !.addr = literal(@), !.size = literal(@), !.offset = literal(@)]],
                        channels |-> [j \in DOMAIN chansDoc |->
                           [chansDoc[j] EXCEPT !.addr = literal(@), !.size = literal(@)]]]
  /\ UNCHANGED <<input, k, end_addr, doc, binary>>

\* shutil.copy, into a directory that is created if need be.
copy_binary ==
  /\ pc = "copy" /\ Goto("patch") /\ binary' = "copied"
  /\ UNCHANGED <<input, k, end_addr, doc, output>>

\* The bytes from .interp to .text become NOPs.  Without .text the script exits,
\* without .interp it fails; a copy that is not patched stays behind.
patch_binary ==
  /\ pc = "patch"
  /\ IF input.text_offset = 0 THEN Goto("exit") /\ UNCHANGED binary
     ELSE IF input.interp_offset = 0 THEN Goto("AttributeError") /\ UNCHANGED binary
     ELSE /\ Goto("done")
          /\ binary' = IF input.interp_offset < input.text_offset THEN "patched" ELSE "copied"
  /\ UNCHANGED <<input, k, end_addr, doc, output>>

Next == \/ check_args \/ add_bootparams \/ set_resetable \/ set_rip \/ add_elf_memory
        \/ add_ram_memory \/ check_abi \/ read_manifest \/ add_device
        \/ write_spec \/ copy_binary \/ patch_binary

Spec == Init /\ [][Next]_vars

-----------------------------------------------------------------------------
TypeOK ==
  /\ k \in Nat \ {0} /\ end_addr \in Nat /\ rip \in Nat /\ rsp \in Nat
  /\ \A r \in ToSet(provides) : r.addr \in Nat /\ r.size \in Nat \ {0}
  /\ binary \in {"absent", "copied", "patched"}

Areas == {<<r.addr, r.size>> : r \in ToSet(provides)} \cup {<<c.addr, c.size>> : c \in ToSet(chansDoc)}

Apart(a, b) == a[1] + a[2] <= b[1] \/ b[1] + b[2] <= a[1]

\* Nothing overlaps in the component's address space: segments, the fill behind
\* them, RAM and channels, although every part is placed by rounding and adding.
NoOverlap ==
  /\ \A a, b \in Areas : a # b => Apart(a, b)
  /\ Cardinality(Areas) = Len(provides) + Len(chansDoc)
  /\ \A a \in Areas : a[1] % Page = 0 /\ a[2] % Page = 0

\* A segment of type LOAD that has sections is covered completely, page by page, by the
\* regions made for it: with the part of the file that belongs there, then filled.
SegmentsCovered ==
  (\E r \in ToSet(provides) : r.kind = "ram") =>
    \A j \in DOMAIN input.segments :
      LET s == input.segments[j]
          pages == 0 .. (round_up(s.virtual_size) \div Page) - 1
      IN  Mapped(s) => \A p \in pages : \E r \in ToSet(provides) :
            LET a == s.virtual_address + p * Page
            IN  /\ r.addr <= a /\ a < r.addr + r.size
                /\ IF p * Page < s.physical_size
                   THEN r.kind = "file" /\ r.offset + (a - r.addr) = s.file_offset + p * Page
                   ELSE r.kind = "fill"

NetDevices == {d \in ToSet(input.manifest.devices) : d.type = "NET_BASIC"}

Wired(d) == \E r, w \in ToSet(output.channels) :
  r.tag = "reader" /\ w.tag = "writer" /\ r.dev = d.name /\ w.dev = d.name

\* Nothing reaches the disk unless ABI and manifest are those the kernel supports,
\* and then the specification is complete: each network device is wired.
OutputValid ==
  output # None \/ binary # "absent" =>
    /\ input.abi.version = 3 /\ input.abi.target = "muen" /\ input.manifest.type = "solo5.manifest"
    /\ ~Contains(input.requires, "channels") => \A d \in NetDevices : Wired(d)

\* The literals in the specification are the numbers of the layout: addresses, sizes, the
\* registers and the file offsets other than 0.  No digit is lost to the stripping of "0x"
\* and zeros, the padding and the grouping in muutils.py.
LiteralsExact ==
  output # None =>
    /\ ada_hex_to_int(output.rip) = input.entrypoint /\ ada_hex_to_int(output.rsp) = rsp
    /\ \A areas \in {<<provides, output.provides>>, <<chansDoc, output.channels>>} :
         /\ Len(areas[1]) = Len(areas[2])
         /\ \A j \in DOMAIN areas[1] :
              /\ ada_hex_to_int(areas[2][j].addr) = areas[1][j].addr
              /\ ada_hex_to_int(areas[2][j].size) = areas[1][j].size
    /\ \A j \in DOMAIN provides : provides[j].offset \notin {None, 0} =>
         ada_hex_to_int(output.provides[j].offset) = provides[j].offset

\* "Each ELF segment of type LOAD is processed" (docstring of add_elf_memory): each has a
\* region at its address.
AllLoaded ==
  output # None => \A s \in ToSet(input.segments) :
    s.load => \E r \in ToSet(provides) : r.addr = s.virtual_address

\* Every offset in the binary is a literal that denotes it ("Convert given numeric value to
\* Ada hex string"), that of a segment at the beginning of the file included.
OffsetsExact ==
  output # None => \A j \in DOMAIN provides : provides[j].kind = "file" /\ provides[j].offset # None =>
    ada_hex_to_int(output.provides[j].offset) = provides[j].offset

\* Each network device of the manifest gets its channels in the specification
\* (docstring of add_channel), whatever the source specification looks like.
DevicesWired == output # None => \A d \in NetDevices : Wired(d)

\* Region names fit "the maximum name length after expansion to physical memory
\* regions".
NamesFit == \A r \in ToSet(provides) : r.name.len <= max_len

Rank(tag) == CASE tag = "vcpu" -> 1 [] tag = "memory" -> 2 [] tag = "channels" -> 3
               [] tag = "devices" -> 4 [] tag = "events" -> 5

\* The children of requires keep the order the schema demands ("Move <devices> to
\* have schema conformity").
SchemaConform ==
  \A i, j \in DOMAIN requires : i < j => Rank(requires[i]) < Rank(requires[j])
=============================================================================
