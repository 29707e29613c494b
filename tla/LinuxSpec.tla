------------------------------ MODULE LinuxSpec ------------------------------
(***************************************************************************)
(* linux-muen-gencspec.py: adds the kernel binary and, on request, an      *)
(* initramfs with the kernel modules to the component specification of     *)
(* Linux.  The initramfs has to lie directly behind the one the system     *)
(* policy maps already, in every Linux subject.                            *)
(*                                                                         *)
(* Numbers in the documents are Ada hex literals (AdaHex).  A Python bool  *)
(* is the value False; "true" and "false" are attribute strings.           *)
(***************************************************************************)
EXTENDS AdaHex

CONSTANTS LINUX_VIRTUAL_ADDRESS,       \* where the kernel goes
          INITRAMFS_VIRTUAL_ADDRESS,   \* where an initramfs goes that is the first
          BOOT_SIZE,                   \* BOOT_HEAP_SIZE + BOOT_STACK_SIZE
          None,                        \* nothing given, nothing returned
          Inputs                       \* command line, files and policies

VARIABLES input, pc, provides,         \* provides: the memory regions of the spec
          output                       \* what was written to the output file

vars == <<input, pc, provides, output>>

False == "False"
NoAddress == <<>>

Init ==
  /\ input \in Inputs
  /\ pc = "args" /\ provides = <<>> /\ output = None

-----------------------------------------------------------------------------

\* size -= size % -4096, with Python's sign of the remainder.
rounded(size) == size + ((-size) % 4096)

\* etree.Element takes strings only.
is_string(x) == x \in {"true", "false"}

region(name, address, size, executable, writable) ==
  [logical |-> name, virtualAddress |-> address, size |-> int_to_ada_hex(rounded(size)),
   executable |-> executable, writable |-> writable]

\* Adds the region; an attribute that is no string raises a TypeError.
add_provides_memory(name, address, size, executable, writable, next) ==
  IF is_string(executable) /\ is_string(writable)
  THEN /\ provides' = Append(provides, region(name, address, size, executable, writable))
       /\ pc' = next
  ELSE pc' = "TypeError" /\ UNCHANGED provides

-----------------------------------------------------------------------------
\* Python's "and" of two strings: the second one, unless the first is empty.
py_and(a, b) == b

\* A name is its letters and whether some of them are capitals.
lower(name) == [name EXCEPT !.capitals = FALSE]

\* MUTANT of same_address: every mapping is taken to be where the first is.
same_address_Assumed(mems) == TRUE

same_address(mems) == \A k \in DOMAIN mems : mems[k].virtualAddress = mems[1].virtualAddress

\* Address, executable and writable of the new initramfs; None is a bare None, which
\* the caller cannot unpack.
get_initramfs_attrs(policy) ==
  LET mems == SelectSeq(policy.mappings, LAMBDA m : m.physical = lower(policy.regions[1].name))
  IN  IF Len(policy.regions) > 1 THEN <<None>>
      ELSE IF policy.regions = <<>> \/ mems = <<>>
      THEN <<int_to_ada_hex(INITRAMFS_VIRTUAL_ADDRESS), False, False>>
      ELSE IF ~same_address(mems) THEN <<NoAddress, False, False>>
      ELSE << int_to_ada_hex(ada_hex_to_int(mems[1].virtualAddress)
                             + ada_hex_to_int(policy.regions[1].size)),
              FoldLeft(LAMBDA a, m : py_and(a, m.executable), mems[1].executable, mems),
              FoldLeft(LAMBDA a, m : py_and(a, m.writable), mems[1].writable, mems) >>

-----------------------------------------------------------------------------

\* The checks before anything is read: each failure ends the script.
args_accepted ==
  /\ input.kernel_binary # None
  /\ input.src_xml_spec # None
  /\ input.out_spec # None
  /\ input.initramfs # None => input.src_policy \notin {None, "missing"}
  /\ input.out_spec # "no directory"

check_args ==
  /\ pc = "args"
  /\ pc' = IF args_accepted THEN "binary" ELSE "exit"
  /\ UNCHANGED <<input, provides, output>>

add_binary ==
  /\ pc = "binary"
  /\ add_provides_memory("binary", int_to_ada_hex(LINUX_VIRTUAL_ADDRESS),
                         input.binary_size + BOOT_SIZE, "true", "true",
                         IF input.initramfs = None THEN "write" ELSE "initramfs")
  /\ UNCHANGED <<input, output>>

\* The three values are unpacked, None cannot be; no address leaves the mapping to
\* the user; a file that does not exist has no size.
add_initramfs ==
  /\ pc = "initramfs"
  /\ LET attrs == get_initramfs_attrs(input.policy)
     IN  \/ attrs = <<None>> /\ pc' = "TypeError" /\ UNCHANGED provides
         \/ /\ Len(attrs) = 3 /\ attrs[1] = NoAddress
            /\ pc' = "write" /\ UNCHANGED provides
         \/ /\ Len(attrs) = 3 /\ attrs[1] # NoAddress /\ input.initramfs = "missing"
            /\ pc' = "FileNotFoundError" /\ UNCHANGED provides
         \/ /\ Len(attrs) = 3 /\ attrs[1] # NoAddress /\ input.initramfs = "file"
            /\ add_provides_memory("modules_initramfs", attrs[1], input.initramfs_size,
                                   attrs[2], attrs[3], "write")
  /\ UNCHANGED <<input, output>>

write ==
  /\ pc = "write" /\ pc' = "written"
  /\ output' = provides
  /\ UNCHANGED <<input, provides>>

Next == check_args \/ add_binary \/ add_initramfs \/ write

Spec == Init /\ [][Next]_vars

-----------------------------------------------------------------------------
Written == pc = "written"
Added == {r \in ToSet(output) : r.logical = "modules_initramfs"}
Existing == SelectSeq(input.policy.mappings,
                      LAMBDA m : \E k \in DOMAIN input.policy.regions :
                                   lower(input.policy.regions[k].name) = lower(m.physical))

\* The new initramfs begins where the existing one ends, in every subject that maps
\* it: there is no gap and no overlap (docstring of get_initramfs_attrs).
Adjacent ==
  Written => \A r \in Added, m \in ToSet(Existing) :
    ada_hex_to_int(r.virtualAddress)
      = ada_hex_to_int(m.virtualAddress) + ada_hex_to_int(input.policy.regions[1].size)

\* A region holds its whole file, for the kernel with boot heap and stack, in as few
\* pages as possible.
HoldsFile ==
  Written => \A r \in ToSet(output) :
    LET need == IF r.logical = "binary" THEN input.binary_size + BOOT_SIZE ELSE input.initramfs_size
        size == IF r.size = <<>> THEN 0 ELSE ada_hex_to_int(r.size)
    IN  size >= need /\ size - need < 4096 /\ size % 4096 = 0

\* What is written is what was asked for: the kernel, and the initramfs unless there
\* is no address that suits every subject.
Complete ==
  Written =>
    /\ input.initramfs # None => input.src_policy = "file"
    /\ [k \in DOMAIN output |-> output[k].logical]
         = IF input.initramfs = None \/ \E j, k \in DOMAIN Existing :
                Existing[j].virtualAddress # Existing[k].virtualAddress
           THEN <<"binary">> ELSE <<"binary", "modules_initramfs">>

\* "Also, only set executable/writable to true if all mappings allow it."
OnlyIfAllAllow ==
  Written => \A r \in Added, m \in ToSet(Existing) :
    /\ r.executable = "true" => m.executable = "true"
    /\ r.writable = "true" => m.writable = "true"

\* Where no address can be had the script warns and goes on ("Warning: Manually add
\* mappings for ..."), and an initramfs that is the first goes to the default address:
\* no policy makes it fail, however the names in it are written.
NoTypeError == pc # "TypeError"
=============================================================================
