----------------------------- MODULE ElfGroupDefs -----------------------------
(***************************************************************************)
(* The section headers that _dwarf_elf_setup_all_section_groups reads, and *)
(* the pure helpers of dwarf_elf_load_headers.c it calls: the name tests,  *)
(* is_empty_section, elf_sht_groupsec and the checks read_gs_section_group *)
(* makes of a group section before and while reading its words.            *)
(*                                                                         *)
(* A section name is abstracted to the literal the code compares it with   *)
(* (its stem) and whether it ends in ".dwo".  The words of a group section *)
(* are the 32-bit values ASNAR(memcpy,...) yields on the host.             *)
(***************************************************************************)
EXTENDS Naturals, Sequences

CONSTANT Count    \* f_loc_shdr.g_count: number of section headers

ASSUME CountAssumption == Count \in Nat \ {0}

Sections == 0..Count-1

(* Name stems.  ".rel*" is a name that starts with ".rel" but neither     *)
(* ".rela." nor ".rel."; "ignored" a name _dwarf_ignorethissection        *)
(* rejects; "*" any other name (".text", ".strtab", ...).  ".eh_frame"    *)
(* and ".group" are exact names, so they never end in ".dwo".              *)
NameStems == {".debug_*", ".zdebug_*", ".rela.*", ".rel.*", ".rel*",
              ".eh_frame", ".gdb_index*", ".group", "ignored", "*"}
Names == {n \in [stem : NameStems, dwo : BOOLEAN] :
            n.stem \in {".eh_frame", ".group"} => ~n.dwo}

(* What the two mallocs and the RRMOA read of read_gs_section_group do   *)
(* for this section: all succeed, or the named one fails.                 *)
IoOutcomes == {"ok", "dataAllocFails", "readFails", "arrayAllocFails"}
(* The values of a 4-byte word. *)
Word32 == {w \in Nat : w \div 16777216 < 256}
SectionTypes == {"SHT_NULL", "SHT_NOBITS", "SHT_GROUP", "SHT_PROGBITS"}
SectionHeaders ==
  [type : SectionTypes, name : Names, shfGroup : BOOLEAN,
   size : Nat, entsize : Nat, words : Seq(Word32), io : IoOutcomes]

NullSection ==
  [type |-> "SHT_NULL", name |-> [stem |-> "*", dwo |-> FALSE],
   shfGroup |-> FALSE, size |-> 0, entsize |-> 0, words |-> << >>,
   io |-> "ok"]

DWARF_32BIT_SIZE == 4
DW_GROUPNUMBER_BASE == 1
DW_GROUPNUMBER_DWO == 2
\* f_sg_next_group_number before the first COMDAT group (set by the caller).
FirstComdatGroup == 3

(* _dwarf_memcpy_swap_bytes on a 4-byte word: the bytes in reverse order. *)
Swap32(w) ==
  (w % 256) * 16777216 + ((w \div 256) % 256) * 65536
    + ((w \div 65536) % 256) * 256 + ((w \div 16777216) % 256)

(* is_empty_section *)
IsEmptySection(type) == type \in {"SHT_NOBITS", "SHT_NULL"}

(* elf_sht_groupsec: SHT_GROUP, or the exact name ".group". *)
IsGroupSec(sh) == sh.type = "SHT_GROUP" \/ sh.name.stem = ".group"

(* The return value of _dwarf_load_elf_section_is_dwarf. *)
IsDwarfName(n) ==
  \/ n.stem \in {".rela.*", ".rel.*", ".debug_*", ".zdebug_*", ".gdb_index*"}
  \/ n.stem = ".eh_frame"

(* count in read_gs_section_group: the flag word and the member words. *)
WordCount(sh) == sh.size \div DWARF_32BIT_SIZE

(* The checks read_gs_section_group makes before its member loop, in     *)
(* order; "NONE" when the header and the flag word are accepted.  The     *)
(* flag word must be GRP_COMDAT in either byte order.                     *)
GroupHeaderError(sh) ==
  IF sh.size < DWARF_32BIT_SIZE THEN "DW_DLE_ELF_SECTION_GROUP_ERROR"
  ELSE IF sh.io = "dataAllocFails" THEN "DW_DLE_ALLOC_FAIL"
  ELSE IF \/ sh.entsize # DWARF_32BIT_SIZE
          \/ WordCount(sh) > Count
       THEN "DW_DLE_ELF_SECTION_GROUP_ERROR"
  ELSE IF sh.io = "readFails" THEN "READ_FAILED"
  ELSE IF sh.io = "arrayAllocFails" THEN "DW_DLE_ALLOC_FAIL"
  ELSE IF sh.words[1] \notin {1, 16777216} THEN "DW_DLE_ELF_SECTION_GROUP_ERROR"
  ELSE "NONE"

(* A member word: gseca, replaced by its byte swap gsecb when gseca is    *)
(* greater than g_count.                                                   *)
MemberTarget(w) == IF w > Count THEN Swap32(w) ELSE w

(* The member word is refused whatever the table holds. *)
BadMemberWord(w) == w = 0 \/ (w > Count /\ Swap32(w) > Count)

=============================================================================
