--------------------------- MODULE ElfSectionGroups ---------------------------
(***************************************************************************)
(* Section-group assignment of the ELF reader, dwarf_elf_load_headers.c:   *)
(* _dwarf_elf_setup_all_section_groups and read_gs_section_group.          *)
(*                                                                         *)
(* The routine walks the section header table twice.  Pass A reads every   *)
(* SHT_GROUP (or ".group") section, checks its header, reads its 32-bit    *)
(* words and gives every listed section the next COMDAT group number,      *)
(* trying the byte-swapped word when the word is out of range.  Pass C     *)
(* puts every ".dwo" section in group DW_GROUPNUMBER_DWO and every other   *)
(* DWARF-named section not yet in a group in DW_GROUPNUMBER_BASE.  Any     *)
(* inconsistency aborts the whole routine with an error.                   *)
(*                                                                         *)
(* The section table is the input: it is chosen in Init from              *)
(* SectionChoices and never changes.  A section name is abstracted to the *)
(* literal the code compares it with (NameStems) and whether it ends in    *)
(* ".dwo"; the words of a group section are the values ASNAR(memcpy,...)   *)
(* yields on the host.  One loop iteration is one step.                   *)
(***************************************************************************)
EXTENDS ElfGroupDefs

CONSTANT SectionChoices  \* the headers sections 1..Count-1 may have
CONSTANT HeapJunk        \* values the heap may hold just past the table

(* The words of a candidate are the WordCount(c) words of its contents. *)
ASSUME ChoicesAssumption ==
  /\ SectionChoices \subseteq SectionHeaders
  /\ \A c \in SectionChoices : Len(c.words) = WordCount(c)
  /\ HeapJunk \subseteq Nat

\* A null gh_sht_group_array pointer.
NoArray == << >>

VARIABLES
  shdr,                            \* the section header table (input)
  gh_section_group_number,         \* per section, and at index g_count the
                                   \* heap word just past the table
  gh_is_dwarf,                     \* per section
  gh_sht_group_array,              \* per section, NoArray when not read
  f_sg_next_group_number,
  f_sht_group_type_section_count,
  f_shf_group_flag_section_count,
  f_dwo_group_section_count,
  pc,      \* "passA", "member" (loop of read_gs_section_group), "passC",
           \* "done" (returned DW_DLV_OK) or "error" (DW_DLV_ERROR)
  i,       \* section index of the outer loops
  j,       \* word index of the member loop
  foundone,
  grouparray,                      \* the array read_gs_section_group fills
  errcode

vars == <<shdr, gh_section_group_number, gh_is_dwarf,
          gh_sht_group_array, f_sg_next_group_number,
          f_sht_group_type_section_count, f_shf_group_flag_section_count,
          f_dwo_group_section_count, pc, i, j, foundone, grouparray, errcode>>

counters == <<f_sg_next_group_number, f_sht_group_type_section_count,
              f_shf_group_flag_section_count, f_dwo_group_section_count>>

ErrorCodes == {"NONE", "DW_DLE_ELF_SECTION_GROUP_ERROR", "DW_DLE_ALLOC_FAIL",
               "READ_FAILED"}

TypeOK ==
  /\ shdr \in [Sections -> SectionHeaders]
  /\ gh_section_group_number \in [0..Count -> Nat]
  /\ gh_is_dwarf \in [Sections -> BOOLEAN]
  /\ gh_sht_group_array \in [Sections -> Seq(0..Count)]
  /\ f_sg_next_group_number \in Nat
  /\ f_sht_group_type_section_count \in Nat
  /\ f_shf_group_flag_section_count \in Nat
  /\ f_dwo_group_section_count \in Nat
  /\ pc \in {"passA", "member", "passC", "done", "error"}
  /\ i \in 0..Count
  /\ j \in Nat
  /\ foundone \in BOOLEAN
  /\ grouparray \in Seq(0..Count)
  /\ errcode \in ErrorCodes

(* The table is allocated with calloc and filled from the file; the slot  *)
(* past its end is whatever the heap holds there.                          *)
Init ==
  /\ shdr \in {[s \in Sections |-> IF s = 0 THEN NullSection ELSE c[s]] :
                 c \in [Sections \ {0} -> SectionChoices]}
  /\ gh_section_group_number \in
       {[s \in 0..Count |-> IF s < Count THEN 0 ELSE junk] : junk \in HeapJunk}
  /\ gh_is_dwarf = [s \in Sections |-> FALSE]
  /\ gh_sht_group_array = [s \in Sections |-> NoArray]
  /\ f_sg_next_group_number = FirstComdatGroup
  /\ f_sht_group_type_section_count = 0
  /\ f_shf_group_flag_section_count = 0
  /\ f_dwo_group_section_count = 0
  /\ pc = "passA"
  /\ i = 0
  /\ j = 0
  /\ foundone = FALSE
  /\ grouparray = << >>
  /\ errcode = "NONE"

Fail(code) ==
  /\ pc' = "error"
  /\ errcode' = code
  /\ UNCHANGED <<shdr, gh_section_group_number, gh_is_dwarf,
                 gh_sht_group_array, counters, i, j, foundone, grouparray>>

-----------------------------------------------------------------------------
(* Pass A (steps A and B).                                                 *)

PassASkipEmpty ==
  /\ pc = "passA" /\ i < Count
  /\ IsEmptySection(shdr[i].type)
  /\ i' = i + 1
  /\ UNCHANGED <<shdr, gh_section_group_number, gh_is_dwarf,
                 gh_sht_group_array, counters, pc, j, foundone, grouparray,
                 errcode>>

(* Step B: a section that is not a group section; count SHF_GROUP flags. *)
PassACountFlag ==
  /\ pc = "passA" /\ i < Count
  /\ ~IsEmptySection(shdr[i].type)
  /\ ~IsGroupSec(shdr[i])
  /\ f_shf_group_flag_section_count' =
       f_shf_group_flag_section_count + (IF shdr[i].shfGroup THEN 1 ELSE 0)
  /\ i' = i + 1
  /\ UNCHANGED <<shdr, gh_section_group_number, gh_is_dwarf,
                 gh_sht_group_array, f_sg_next_group_number,
                 f_sht_group_type_section_count, f_dwo_group_section_count,
                 pc, j, foundone, grouparray, errcode>>

(* Step A: read_gs_section_group up to its member loop. *)
ReadGroupHeader ==
  /\ pc = "passA" /\ i < Count
  /\ ~IsEmptySection(shdr[i].type)
  /\ IsGroupSec(shdr[i])
  /\ gh_sht_group_array[i] = NoArray
  /\ \/ /\ GroupHeaderError(shdr[i]) = "NONE"
        /\ pc' = "member"
        /\ j' = 1
        /\ foundone' = FALSE
        /\ grouparray' = <<1>>
        /\ UNCHANGED <<shdr, gh_section_group_number, gh_is_dwarf,
                       gh_sht_group_array, counters, i, errcode>>
     \/ /\ GroupHeaderError(shdr[i]) # "NONE"
        /\ Fail(GroupHeaderError(shdr[i]))

(* One word of the group: gseca, or its byte swap gsecb when gseca is out *)
(* of range; the target section must not be in a group already.           *)
Word == shdr[i].words[j + 1]
Target == MemberTarget(Word)
\* Mutant: the multi-assignment check dropped.
MemberAcceptedNoMultiCheck == ~BadMemberWord(Word)

MemberAccepted == ~BadMemberWord(Word) /\ gh_section_group_number[Target] = 0

ReadGroupMember ==
  /\ pc = "member"
  /\ j < WordCount(shdr[i])
  /\ \/ /\ MemberAccepted
        /\ gh_section_group_number' =
             [gh_section_group_number EXCEPT ![Target] = f_sg_next_group_number]
        /\ grouparray' = Append(grouparray, Target)
        /\ foundone' = TRUE
        /\ j' = j + 1
        /\ UNCHANGED <<shdr, gh_is_dwarf, gh_sht_group_array, counters, pc,
                       i, errcode>>
     \/ /\ ~MemberAccepted
        /\ Fail("DW_DLE_ELF_SECTION_GROUP_ERROR")

\* Mutant: the number is used up even by a group that listed nothing.
EndGroupAlwaysCounts ==
  /\ pc = "member"
  /\ j >= WordCount(shdr[i])
  /\ f_sg_next_group_number' = f_sg_next_group_number + 1
  /\ f_sht_group_type_section_count' = f_sht_group_type_section_count + 1
  /\ gh_sht_group_array' = [gh_sht_group_array EXCEPT ![i] = grouparray]
  /\ pc' = "passA"
  /\ i' = i + 1
  /\ j' = 0
  /\ foundone' = FALSE
  /\ grouparray' = << >>
  /\ UNCHANGED <<shdr, gh_section_group_number, gh_is_dwarf,
                 f_shf_group_flag_section_count, f_dwo_group_section_count,
                 errcode>>

(* End of the member loop: a group that listed a section uses up a number. *)
EndGroup ==
  /\ pc = "member"
  /\ j >= WordCount(shdr[i])
  /\ f_sg_next_group_number' = f_sg_next_group_number + (IF foundone THEN 1 ELSE 0)
  /\ f_sht_group_type_section_count' =
       f_sht_group_type_section_count + (IF foundone THEN 1 ELSE 0)
  /\ gh_sht_group_array' = [gh_sht_group_array EXCEPT ![i] = grouparray]
  /\ pc' = "passA"
  /\ i' = i + 1
  /\ j' = 0
  /\ foundone' = FALSE
  /\ grouparray' = << >>
  /\ UNCHANGED <<shdr, gh_section_group_number, gh_is_dwarf,
                 f_shf_group_flag_section_count, f_dwo_group_section_count,
                 errcode>>

EndPassA ==
  /\ pc = "passA" /\ i = Count
  /\ pc' = "passC"
  /\ i' = 0
  /\ UNCHANGED <<shdr, gh_section_group_number, gh_is_dwarf,
                 gh_sht_group_array, counters, j, foundone, grouparray,
                 errcode>>

-----------------------------------------------------------------------------
(* Pass C: ".dwo" sections and the base group.                             *)

PassCSkip ==
  /\ pc = "passC" /\ i < Count
  /\ IsEmptySection(shdr[i].type) \/ IsGroupSec(shdr[i])
  /\ i' = i + 1
  /\ UNCHANGED <<shdr, gh_section_group_number, gh_is_dwarf,
                 gh_sht_group_array, counters, pc, j, foundone, grouparray,
                 errcode>>

PassCData == pc = "passC" /\ i < Count
             /\ ~IsEmptySection(shdr[i].type) /\ ~IsGroupSec(shdr[i])

(* string_endswith(name, ".dwo") *)
PassCDwo ==
  /\ PassCData
  /\ shdr[i].name.dwo
  /\ \/ /\ gh_section_group_number[i] = 0
        /\ gh_is_dwarf' = [gh_is_dwarf EXCEPT ![i] = TRUE]
        /\ gh_section_group_number' =
             [gh_section_group_number EXCEPT ![i] = DW_GROUPNUMBER_DWO]
        /\ f_dwo_group_section_count' = f_dwo_group_section_count + 1
        /\ i' = i + 1
        /\ UNCHANGED <<shdr, gh_sht_group_array,
                       f_sg_next_group_number, f_sht_group_type_section_count,
                       f_shf_group_flag_section_count, pc, j, foundone,
                       grouparray, errcode>>
     \/ /\ gh_section_group_number[i] # 0
        /\ Fail("DW_DLE_ELF_SECTION_GROUP_ERROR")

\* Mutant: gh_is_dwarf set inside the "if (!psh->gh_section_group_number)".
PassCDwarfMarksUngrouped ==
  /\ PassCData
  /\ ~shdr[i].name.dwo
  /\ IsDwarfName(shdr[i].name)
  /\ gh_section_group_number' =
       [gh_section_group_number EXCEPT ![i] =
          IF @ = 0 THEN DW_GROUPNUMBER_BASE ELSE @]
  /\ gh_is_dwarf' = [gh_is_dwarf EXCEPT ![i] =
                       @ \/ gh_section_group_number[i] = 0]
  /\ i' = i + 1
  /\ UNCHANGED <<shdr, gh_sht_group_array, counters, pc, j,
                 foundone, grouparray, errcode>>

PassCDwarf ==
  /\ PassCData
  /\ ~shdr[i].name.dwo
  /\ IsDwarfName(shdr[i].name)
  /\ gh_section_group_number' =
       [gh_section_group_number EXCEPT ![i] =
          IF @ = 0 THEN DW_GROUPNUMBER_BASE ELSE @]
  /\ gh_is_dwarf' = [gh_is_dwarf EXCEPT ![i] = TRUE]
  /\ i' = i + 1
  /\ UNCHANGED <<shdr, gh_sht_group_array, counters, pc, j,
                 foundone, grouparray, errcode>>

PassCOther ==
  /\ PassCData
  /\ ~shdr[i].name.dwo
  /\ ~IsDwarfName(shdr[i].name)
  /\ i' = i + 1
  /\ UNCHANGED <<shdr, gh_section_group_number, gh_is_dwarf,
                 gh_sht_group_array, counters, pc, j, foundone, grouparray,
                 errcode>>

EndPassC ==
  /\ pc = "passC" /\ i = Count
  /\ pc' = "done"
  /\ UNCHANGED <<shdr, gh_section_group_number, gh_is_dwarf,
                 gh_sht_group_array, counters, i, j, foundone, grouparray,
                 errcode>>

Next ==
  \/ PassASkipEmpty \/ PassACountFlag \/ ReadGroupHeader
  \/ ReadGroupMember \/ EndGroup \/ EndPassA
  \/ PassCSkip \/ PassCDwo \/ PassCDwarf \/ PassCOther \/ EndPassC

Spec == Init /\ [][Next]_vars

-----------------------------------------------------------------------------
(* Properties.                                                             *)

(* Once a section is in a group, nothing moves it to another: the member  *)
(* loop refuses a section listed a second time, pass C refuses a ".dwo"   *)
(* section that a group lists, and pass C gives DW_GROUPNUMBER_BASE only  *)
(* to sections that have no group yet.                                     *)
GroupNumbersKept ==
  \A s \in Sections :
    gh_section_group_number[s] # 0 =>
      gh_section_group_number'[s] = gh_section_group_number[s]
GroupNumberStable == [][GroupNumbersKept]_vars

(* The COMDAT group numbers (3 and up) that sections carry. *)
ComdatNumbersInUse ==
  {gh_section_group_number[s] : s \in Sections} \ {0, DW_GROUPNUMBER_BASE, DW_GROUPNUMBER_DWO}

(* When setup succeeds, the COMDAT numbers in use are exactly 3 ..         *)
(* f_sg_next_group_number-1, one for each SHT_GROUP section counted in     *)
(* f_sht_group_type_section_count: a counted group has a member carrying  *)
(* its number, and no number is skipped.                                   *)
ComdatNumbersDense ==
  pc = "done" =>
    /\ f_sg_next_group_number = FirstComdatGroup + f_sht_group_type_section_count
    /\ ComdatNumbersInUse = FirstComdatGroup..(f_sg_next_group_number - 1)

(* Every section number read_gs_section_group records in a group array,   *)
(* and so dereferences as ep->f_shdr + gseca, indexes the section table:  *)
(* the member word is used only if one byte order names a section.         *)
GroupMembersInTable ==
  /\ \A k \in 2..Len(grouparray) : grouparray[k] \in Sections
  /\ \A s \in Sections :
       \A k \in 2..Len(gh_sht_group_array[s]) : gh_sht_group_array[s][k] \in Sections

(* The detailed routine implements the one-step specification: the       *)
(* result it returns and the groups it leaves in the table are the ones   *)
(* SectionGroupsAbs computes from the table.                                *)
Abs == INSTANCE SectionGroupsAbs WITH
         status <- IF pc \in {"done", "error"} THEN pc ELSE "loading",
         groupNumber <- [s \in Sections |->
                           IF pc = "done" THEN gh_section_group_number[s] ELSE 0],
         isDwarf <- IF pc = "done" THEN gh_is_dwarf
                    ELSE [s \in Sections |-> FALSE],
         comdatCount <- IF pc = "done" THEN f_sht_group_type_section_count ELSE 0

ImplementsAbs == Abs!AbsSpec

=============================================================================
