------------------------ MODULE ElfSectionGroupsProofs ------------------------
(***************************************************************************)
(* Proofs about the section-group setup of ElfSectionGroups, for every     *)
(* number of sections and every table.                                      *)
(***************************************************************************)
EXTENDS ElfSectionGroups, TLAPS

(* The table is the one Init built, and inside the member loop of         *)
(* read_gs_section_group the section is a non-empty group section and    *)
(* the word index stays within the words read from it.                    *)
TableOK ==
  /\ shdr[0] = NullSection
  /\ \A s \in Sections \ {0} : shdr[s] \in SectionChoices

MemberLoopOK ==
  pc = "member" =>
    /\ i \in Sections
    /\ ~IsEmptySection(shdr[i].type)
    /\ j \in 1..WordCount(shdr[i])

Inv == TypeOK /\ TableOK /\ MemberLoopOK

-----------------------------------------------------------------------------
(* Lemmas about the helpers.                                               *)

(* The SHT_NULL header at index 0 is a section header with no words. *)
LEMMA NullSectionOK ==
  /\ NullSection \in SectionHeaders
  /\ Len(NullSection.words) = WordCount(NullSection)
  /\ IsEmptySection(NullSection.type)
<1>1. NullSection.name \in Names
  BY DEF NullSection, Names, NameStems
<1>2. << >> \in Seq(Word32)
  OBVIOUS
<1>3. QED
  BY <1>1, <1>2 DEF NullSection, SectionHeaders, SectionTypes, IoOutcomes,
                    WordCount, DWARF_32BIT_SIZE, IsEmptySection

(* Byte swapping yields a natural number. *)
LEMMA Swap32Nat == ASSUME NEW w \in Nat PROVE Swap32(w) \in Nat
  BY DEF Swap32

(* A member word that is not refused names a slot of the table, or the   *)
(* slot just past it.                                                     *)
LEMMA MemberTargetRange ==
  ASSUME NEW w \in Nat, ~BadMemberWord(w)
  PROVE  MemberTarget(w) \in 0..Count
<1>1. Count \in Nat
  BY CountAssumption
<1>2. Swap32(w) \in Nat
  BY Swap32Nat
<1>3. QED
  BY <1>1, <1>2 DEF MemberTarget, BadMemberWord

(* Every header of a table that satisfies TableOK holds exactly its words. *)
LEMMA TableWords ==
  ASSUME TableOK, NEW s \in Sections
  PROVE  /\ shdr[s] \in SectionHeaders
         /\ Len(shdr[s].words) = WordCount(shdr[s])
<1>1. CASE s = 0
  BY <1>1, NullSectionOK DEF TableOK
<1>2. CASE s # 0
  BY <1>2, ChoicesAssumption DEF TableOK
<1>3. QED
  BY <1>1, <1>2

-----------------------------------------------------------------------------
(* The inductive invariant.                                                *)

LEMMA InitInv == Init => Inv
<1> SUFFICES ASSUME Init PROVE Inv
  OBVIOUS
<1>1. Count \in Nat \ {0}
  BY CountAssumption
<1>2. TableOK
  <2>1. PICK c \in [Sections \ {0} -> SectionChoices] :
          shdr = [s \in Sections |-> IF s = 0 THEN NullSection ELSE c[s]]
    BY DEF Init
  <2>2. QED
    BY <1>1, <2>1 DEF TableOK, Sections
<1>3. shdr \in [Sections -> SectionHeaders]
  <2>1. PICK c \in [Sections \ {0} -> SectionChoices] :
          shdr = [s \in Sections |-> IF s = 0 THEN NullSection ELSE c[s]]
    BY DEF Init
  <2>2. \A s \in Sections : shdr[s] \in SectionHeaders
    BY <1>2, TableWords
  <2>3. QED
    BY <2>1, <2>2
<1>4. gh_section_group_number \in [0..Count -> Nat]
  <2>1. PICK junk \in HeapJunk :
          gh_section_group_number = [s \in 0..Count |-> IF s < Count THEN 0 ELSE junk]
    BY DEF Init
  <2>2. junk \in Nat
    BY <2>1, ChoicesAssumption
  <2>3. QED
    BY <2>1, <2>2
<1>5. /\ gh_is_dwarf \in [Sections -> BOOLEAN]
      /\ gh_sht_group_array \in [Sections -> Seq(0..Count)]
      /\ grouparray \in Seq(0..Count)
  BY DEF Init, NoArray
<1>6. /\ f_sg_next_group_number \in Nat
      /\ f_sht_group_type_section_count \in Nat
      /\ f_shf_group_flag_section_count \in Nat
      /\ f_dwo_group_section_count \in Nat
      /\ i \in 0..Count
      /\ j \in Nat
  BY <1>1 DEF Init, FirstComdatGroup
<1>7. /\ pc \in {"passA", "member", "passC", "done", "error"}
      /\ foundone \in BOOLEAN
      /\ errcode \in ErrorCodes
      /\ MemberLoopOK
  BY DEF Init, ErrorCodes, MemberLoopOK
<1>8. QED
  BY <1>2, <1>3, <1>4, <1>5, <1>6, <1>7 DEF Inv, TypeOK

(* Inside the member loop the word read is a 32-bit value. *)
LEMMA WordInRange ==
  ASSUME Inv, pc = "member", j < WordCount(shdr[i])
  PROVE  Word \in Nat
<1>1. i \in Sections /\ j \in 1..WordCount(shdr[i])
  BY DEF Inv, MemberLoopOK
<1>2. shdr[i] \in SectionHeaders /\ Len(shdr[i].words) = WordCount(shdr[i])
  BY <1>1, TableWords DEF Inv
<1>3. shdr[i].words \in Seq(Word32)
  BY <1>2 DEF SectionHeaders
<1>4. j + 1 \in 1..Len(shdr[i].words)
  BY <1>1, <1>2
<1>5. shdr[i].words[j + 1] \in Word32
  BY <1>3, <1>4
<1>6. QED
  BY <1>5 DEF Word, Word32

LEMMA NextInv == Inv /\ [Next]_vars => Inv'
<1> SUFFICES ASSUME Inv, [Next]_vars PROVE Inv'
  OBVIOUS
<1>0. /\ TypeOK /\ TableOK /\ MemberLoopOK
      /\ Count \in Nat \ {0}
  BY CountAssumption DEF Inv
<1>1. CASE PassASkipEmpty
  BY <1>0, <1>1 DEF PassASkipEmpty, Inv, TypeOK, TableOK, MemberLoopOK, counters
<1>2. CASE PassACountFlag
  BY <1>0, <1>2 DEF PassACountFlag, Inv, TypeOK, TableOK, MemberLoopOK, counters
<1>3. CASE ReadGroupHeader
  <2>0. i \in Sections
    BY <1>0, <1>3 DEF ReadGroupHeader, TypeOK, Sections
  <2>1. shdr[i] \in SectionHeaders
    BY <1>0, <2>0 DEF TypeOK
  <2>2. CASE GroupHeaderError(shdr[i]) = "NONE"
    <3>1. WordCount(shdr[i]) \in Nat \ {0}
      BY <2>1, <2>2 DEF GroupHeaderError, WordCount, DWARF_32BIT_SIZE, SectionHeaders
    <3>0. /\ pc' = "member" /\ j' = 1 /\ foundone' = FALSE /\ grouparray' = <<1>>
          /\ ~IsEmptySection(shdr[i].type)
          /\ UNCHANGED <<shdr, gh_section_group_number, gh_is_dwarf,
                         gh_sht_group_array, i, errcode>>
          /\ UNCHANGED <<f_sg_next_group_number, f_sht_group_type_section_count,
                         f_shf_group_flag_section_count, f_dwo_group_section_count>>
      BY <1>3, <2>2 DEF ReadGroupHeader, Fail, counters
    <3>2. MemberLoopOK'
      BY <2>0, <3>0, <3>1 DEF MemberLoopOK
    <3>5. <<1>> \in Seq(0..Count)
      BY <1>0
    <3>3. TypeOK'
      BY <1>0, <3>0, <3>5 DEF TypeOK
    <3>4. QED
      BY <1>0, <3>0, <3>2, <3>3 DEF Inv, TableOK
  <2>3. CASE GroupHeaderError(shdr[i]) # "NONE"
    <3>1. GroupHeaderError(shdr[i]) \in ErrorCodes
      BY DEF GroupHeaderError, ErrorCodes
    <3>2. QED
      BY <1>0, <1>3, <2>3, <3>1
      DEF ReadGroupHeader, Fail, Inv, TypeOK, TableOK, MemberLoopOK, counters
  <2>4. QED
    BY <2>2, <2>3
<1>4. CASE ReadGroupMember
  <2>1. Word \in Nat
    BY <1>0, <1>4, WordInRange DEF ReadGroupMember, Inv
  <2>2. CASE MemberAccepted
    <3>1. Target \in 0..Count
      BY <2>1, <2>2, MemberTargetRange DEF MemberAccepted, Target
    <3>0. /\ pc = "member" /\ j < WordCount(shdr[i])
          /\ gh_section_group_number' =
               [gh_section_group_number EXCEPT ![Target] = f_sg_next_group_number]
          /\ grouparray' = Append(grouparray, Target)
          /\ foundone' = TRUE
          /\ j' = j + 1
          /\ UNCHANGED <<shdr, gh_is_dwarf, gh_sht_group_array, pc, i, errcode>>
          /\ UNCHANGED <<f_sg_next_group_number, f_sht_group_type_section_count,
                         f_shf_group_flag_section_count, f_dwo_group_section_count>>
      BY <1>4, <2>2 DEF ReadGroupMember, Fail, counters
    <3>2. /\ gh_section_group_number' \in [0..Count -> Nat]
          /\ grouparray' \in Seq(0..Count)
      BY <1>0, <3>0, <3>1 DEF TypeOK
    <3>6. WordCount(shdr[i]) \in Nat
      BY <1>0, <3>0 DEF MemberLoopOK, TypeOK, SectionHeaders, WordCount,
                        DWARF_32BIT_SIZE
    <3>3. MemberLoopOK'
      BY <1>0, <3>0, <3>6 DEF MemberLoopOK, TypeOK
    <3>4. QED
      BY <1>0, <3>0, <3>2, <3>3 DEF Inv, TypeOK, TableOK
  <2>3. CASE ~MemberAccepted
    <3>1. /\ pc' = "error" /\ errcode' = "DW_DLE_ELF_SECTION_GROUP_ERROR"
          /\ UNCHANGED <<shdr, gh_section_group_number, gh_is_dwarf,
                         gh_sht_group_array, counters, i, j, foundone, grouparray>>
      BY <1>4, <2>3 DEF ReadGroupMember, Fail
    <3>2. QED
      BY <1>0, <3>1 DEF Inv, TypeOK, TableOK, MemberLoopOK, counters, ErrorCodes
  <2>4. QED
    BY <2>2, <2>3
<1>5. CASE EndGroup
  <2>1. i \in Sections
    BY <1>0, <1>5 DEF EndGroup, MemberLoopOK
  <2>2. gh_sht_group_array' \in [Sections -> Seq(0..Count)]
    BY <1>0, <1>5, <2>1 DEF EndGroup, TypeOK
  <2>3. i' \in 0..Count
    BY <1>0, <1>5, <2>1 DEF EndGroup, Sections
  <2>4. f_sg_next_group_number' \in Nat /\ f_sht_group_type_section_count' \in Nat
    BY <1>0, <1>5 DEF EndGroup, TypeOK
  <2>5. /\ pc' = "passA" /\ j' = 0 /\ foundone' = FALSE /\ grouparray' = << >>
        /\ UNCHANGED <<shdr, gh_section_group_number, gh_is_dwarf,
                       f_shf_group_flag_section_count, f_dwo_group_section_count,
                       errcode>>
    BY <1>5 DEF EndGroup
  <2>6. << >> \in Seq(0..Count)
    OBVIOUS
  <2>7. QED
    BY <1>0, <2>2, <2>3, <2>4, <2>5, <2>6 DEF Inv, TypeOK, TableOK, MemberLoopOK
<1>6. CASE EndPassA
  BY <1>0, <1>6 DEF EndPassA, Inv, TypeOK, TableOK, MemberLoopOK, counters
<1>7. CASE PassCSkip
  BY <1>0, <1>7 DEF PassCSkip, Inv, TypeOK, TableOK, MemberLoopOK, counters
<1>8. CASE PassCDwo
  <2>1. i \in Sections
    BY <1>0, <1>8 DEF PassCDwo, PassCData, TypeOK, Sections
  <2>2. CASE gh_section_group_number[i] = 0 /\ gh_section_group_number' =
               [gh_section_group_number EXCEPT ![i] = DW_GROUPNUMBER_DWO]
    <3>0. /\ pc = "passC"
          /\ gh_is_dwarf' = [gh_is_dwarf EXCEPT ![i] = TRUE]
          /\ f_dwo_group_section_count' = f_dwo_group_section_count + 1
          /\ i' = i + 1
          /\ UNCHANGED <<shdr, gh_sht_group_array,
                         f_sg_next_group_number, f_sht_group_type_section_count,
                         f_shf_group_flag_section_count, pc, j, foundone,
                         grouparray, errcode>>
      BY <1>8, <2>2 DEF PassCDwo, PassCData, Fail
    <3>1. /\ gh_section_group_number' \in [0..Count -> Nat]
          /\ gh_is_dwarf' \in [Sections -> BOOLEAN]
      BY <1>0, <2>1, <2>2, <3>0 DEF TypeOK, Sections, DW_GROUPNUMBER_DWO
    <3>2. QED
      BY <1>0, <2>1, <3>0, <3>1 DEF Inv, TypeOK, TableOK, MemberLoopOK, Sections
  <2>3. CASE gh_section_group_number[i] # 0
    <3>1. /\ pc' = "error" /\ errcode' = "DW_DLE_ELF_SECTION_GROUP_ERROR"
          /\ UNCHANGED <<shdr, gh_section_group_number, gh_is_dwarf,
                         gh_sht_group_array, counters, i, j, foundone, grouparray>>
      BY <1>8, <2>3 DEF PassCDwo, Fail
    <3>2. QED
      BY <1>0, <3>1 DEF Inv, TypeOK, TableOK, MemberLoopOK, counters, ErrorCodes
  <2>4. QED
    BY <1>8, <2>2, <2>3 DEF PassCDwo
<1>9. CASE PassCDwarf
  BY <1>0, <1>9
  DEF PassCDwarf, PassCData, Inv, TypeOK, TableOK, MemberLoopOK, counters,
      Sections, DW_GROUPNUMBER_BASE
<1>10. CASE PassCOther
  BY <1>0, <1>10 DEF PassCOther, PassCData, Inv, TypeOK, TableOK, MemberLoopOK, counters
<1>11. CASE EndPassC
  BY <1>0, <1>11 DEF EndPassC, Inv, TypeOK, TableOK, MemberLoopOK, counters
<1>12. CASE UNCHANGED vars
  BY <1>0, <1>12 DEF vars, Inv, TypeOK, TableOK, MemberLoopOK
<1>13. QED
  BY <1>1, <1>2, <1>3, <1>4, <1>5, <1>6, <1>7, <1>8, <1>9, <1>10, <1>11, <1>12
  DEF Next

(* The type invariant holds in every reachable state. *)
THEOREM TypeCorrect == Spec => []TypeOK
<1>1. Inv => TypeOK
  BY DEF Inv
<1>2. QED
  BY <1>1, InitInv, NextInv, PTL DEF Spec

-----------------------------------------------------------------------------
(* Group numbers are never reassigned.                                     *)

(* Every step keeps the number of a section that has one. *)
LEMMA KeptStep == Inv /\ [Next]_vars => [GroupNumbersKept]_vars
<1> SUFFICES ASSUME Inv, [Next]_vars PROVE GroupNumbersKept
  BY DEF GroupNumbersKept
<1>0. TypeOK /\ Count \in Nat \ {0}
  BY CountAssumption DEF Inv
<1>1. CASE UNCHANGED gh_section_group_number
  BY <1>1 DEF GroupNumbersKept
<1>2. CASE ReadGroupMember /\ MemberAccepted
  <2>1. Word \in Nat
    BY <1>0, <1>2, WordInRange DEF ReadGroupMember
  <2>2. Target \in 0..Count /\ gh_section_group_number[Target] = 0
    BY <1>2, <2>1, MemberTargetRange DEF MemberAccepted, Target
  <2>3. gh_section_group_number' =
          [gh_section_group_number EXCEPT ![Target] = f_sg_next_group_number]
    BY <1>2 DEF ReadGroupMember, Fail
  <2>4. QED
    BY <1>0, <2>2, <2>3 DEF GroupNumbersKept, TypeOK, Sections
<1>3. CASE PassCDwo /\ gh_section_group_number[i] = 0
  <2>1. gh_section_group_number' =
          [gh_section_group_number EXCEPT ![i] = DW_GROUPNUMBER_DWO]
    BY <1>3 DEF PassCDwo, Fail
  <2>2. QED
    BY <1>0, <1>3, <2>1 DEF GroupNumbersKept, TypeOK, Sections
<1>4. CASE PassCDwarf
  <2>1. gh_section_group_number' =
          [gh_section_group_number EXCEPT ![i] = IF @ = 0 THEN DW_GROUPNUMBER_BASE ELSE @]
    BY <1>4 DEF PassCDwarf
  <2>2. QED
    BY <1>0, <2>1 DEF GroupNumbersKept, TypeOK, Sections
<1>5. QED
  <2>1. CASE ReadGroupMember
    BY <1>1, <1>2, <2>1 DEF ReadGroupMember, Fail
  <2>2. CASE PassCDwo
    BY <1>1, <1>3, <2>2 DEF PassCDwo, Fail
  <2>3. QED
    BY <1>1, <1>4, <2>1, <2>2
    DEF Next, vars, PassASkipEmpty, PassACountFlag, ReadGroupHeader, Fail,
        EndGroup, EndPassA, PassCSkip, PassCOther, EndPassC

(* Once pass A or pass C has put a section in a group, no later step of   *)
(* the routine moves it to another group.                                  *)
THEOREM GroupNumberStableThm == Spec => GroupNumberStable
<1>1. QED
  BY InitInv, NextInv, KeptStep, PTL DEF Spec, GroupNumberStable

-----------------------------------------------------------------------------
(* COMDAT group numbers are dense.                                         *)

(* No group section names the slot one past the table: the case the      *)
(* range checks of read_gs_section_group let through (GroupMembersInTable *)
(* fails on it in run groups_oob).                                         *)
NoTableEndMembers ==
  \A c \in SectionChoices : \A k \in 2..Len(c.words) : MemberTarget(c.words[k]) # Count

(* The strengthening: during pass A the numbers handed out are 3 .. next-1 *)
(* plus, inside the member loop once a member is found, next itself.       *)
DenseInv ==
  /\ f_sg_next_group_number = FirstComdatGroup + f_sht_group_type_section_count
  /\ ComdatNumbersInUse = FirstComdatGroup..(f_sg_next_group_number - 1)
        \cup (IF pc \in {"member", "error"} /\ foundone
              THEN {f_sg_next_group_number} ELSE {})
  /\ pc \in {"passA", "passC", "done"} => ~foundone

(* Writing one slot of the group-number array changes the COMDAT numbers *)
(* in use only by the value written, when the slot held no COMDAT number. *)
LEMMA ImageUpdate ==
  ASSUME NEW f \in [0..Count -> Nat], NEW t \in Sections, NEW v \in Nat,
         f[t] \in {0, 1, 2}
  PROVE  {[f EXCEPT ![t] = v][s] : s \in Sections} \ {0, 1, 2} =
           ({f[s] : s \in Sections} \ {0, 1, 2}) \cup ({v} \ {0, 1, 2})
<1>1. Sections \subseteq 0..Count
  BY CountAssumption DEF Sections
<1>2. QED
  BY <1>1

LEMMA DenseInitInv == Init => DenseInv
<1> SUFFICES ASSUME Init PROVE DenseInv
  OBVIOUS
<1>1. ComdatNumbersInUse = {}
  BY CountAssumption DEF Init, ComdatNumbersInUse, Sections
<1>2. QED
  BY <1>1 DEF Init, DenseInv, FirstComdatGroup

(* Inside the member loop, under NoTableEndMembers, the section a word     *)
(* names is a slot of the table.                                          *)
LEMMA TargetInTable ==
  ASSUME Inv, NoTableEndMembers, pc = "member", j < WordCount(shdr[i]),
         ~BadMemberWord(Word)
  PROVE  Target \in Sections
<1>1. i \in Sections /\ ~IsEmptySection(shdr[i].type) /\ j \in 1..WordCount(shdr[i])
  BY DEF Inv, MemberLoopOK
<1>2. i # 0
  BY <1>1, NullSectionOK DEF Inv, TableOK
<1>3. shdr[i] \in SectionChoices
  BY <1>1, <1>2 DEF Inv, TableOK, Sections
<1>4. Len(shdr[i].words) = WordCount(shdr[i]) /\ WordCount(shdr[i]) \in Nat
  BY <1>3, ChoicesAssumption DEF SectionHeaders, WordCount, DWARF_32BIT_SIZE
<1>5. j + 1 \in 2..Len(shdr[i].words)
  BY <1>1, <1>4
<1>6. Target # Count
  BY <1>3, <1>5 DEF NoTableEndMembers, Target, Word
<1>7. Word \in Nat
  BY WordInRange
<1>8. Target \in 0..Count
  BY <1>7, MemberTargetRange DEF Target
<1>9. QED
  BY <1>6, <1>8, CountAssumption DEF Sections

LEMMA DenseNextInv ==
  ASSUME NoTableEndMembers
  PROVE  Inv /\ DenseInv /\ [Next]_vars => DenseInv'
<1> SUFFICES ASSUME Inv, DenseInv, [Next]_vars PROVE DenseInv'
  OBVIOUS
<1>0. TypeOK /\ Count \in Nat \ {0}
  BY CountAssumption DEF Inv
(* Steps that change neither the numbers, the counters, nor foundone, and *)
(* move pc between passA, passC and done, or to error.                    *)
<1>1. ASSUME UNCHANGED <<gh_section_group_number, f_sg_next_group_number,
                         f_sht_group_type_section_count, foundone>>,
             \/ pc' = "error"
             \/ pc \in {"passA", "passC", "done"} /\ pc' \in {"passA", "passC", "done"}
      PROVE  DenseInv'
  <2>1. ComdatNumbersInUse' = ComdatNumbersInUse
    BY <1>1 DEF ComdatNumbersInUse
  <2>2. pc \in {"passA", "passC", "done"} => ~foundone
    BY DEF DenseInv
  <2>3. (pc' \in {"member", "error"} /\ foundone') <=> (pc \in {"member", "error"} /\ foundone)
    BY <1>0, <1>1, <2>2 DEF TypeOK
  <2>4. QED
    BY <1>1, <2>1, <2>3 DEF DenseInv
<1>2. CASE ReadGroupHeader
  <2>1. CASE GroupHeaderError(shdr[i]) = "NONE"
    <3>1. /\ pc = "passA" /\ pc' = "member" /\ foundone' = FALSE
          /\ UNCHANGED <<gh_section_group_number, f_sg_next_group_number,
                         f_sht_group_type_section_count>>
      BY <1>2, <2>1 DEF ReadGroupHeader, Fail, counters
    <3>2. QED
      BY <3>1 DEF DenseInv, ComdatNumbersInUse
  <2>2. CASE GroupHeaderError(shdr[i]) # "NONE"
    BY <1>1, <1>2, <2>2 DEF ReadGroupHeader, Fail, counters
  <2>3. QED
    BY <2>1, <2>2
<1>3. CASE ReadGroupMember
  <2>1. CASE MemberAccepted
    <3>1. /\ pc = "member" /\ j < WordCount(shdr[i])
          /\ gh_section_group_number' =
               [gh_section_group_number EXCEPT ![Target] = f_sg_next_group_number]
          /\ foundone' = TRUE
          /\ UNCHANGED <<pc, f_sg_next_group_number, f_sht_group_type_section_count>>
      BY <1>3, <2>1 DEF ReadGroupMember, Fail, counters
    <3>2. Target \in Sections /\ gh_section_group_number[Target] = 0
      BY <2>1, <3>1, TargetInTable DEF MemberAccepted
    <3>3. f_sg_next_group_number \in Nat /\ f_sg_next_group_number >= 3
      BY <1>0 DEF DenseInv, TypeOK, FirstComdatGroup
    <3>4. ComdatNumbersInUse' = ComdatNumbersInUse \cup {f_sg_next_group_number}
      <4>1. {gh_section_group_number'[s] : s \in Sections} \ {0, 1, 2} =
              ({gh_section_group_number[s] : s \in Sections} \ {0, 1, 2})
              \cup ({f_sg_next_group_number} \ {0, 1, 2})
        <5>1. {[gh_section_group_number EXCEPT ![Target] = f_sg_next_group_number][s] :
                 s \in Sections} \ {0, 1, 2} =
              ({gh_section_group_number[s] : s \in Sections} \ {0, 1, 2})
              \cup ({f_sg_next_group_number} \ {0, 1, 2})
          BY <1>0, <3>2, <3>3 DEF TypeOK, Sections
        <5>2. QED
          BY <3>1, <5>1
      <4>2. QED
        BY <3>3, <4>1 DEF ComdatNumbersInUse, DW_GROUPNUMBER_BASE, DW_GROUPNUMBER_DWO
    <3>5. QED
      BY <3>1, <3>3, <3>4 DEF DenseInv
  <2>2. CASE ~MemberAccepted
    BY <1>1, <1>3, <2>2 DEF ReadGroupMember, Fail, counters
  <2>3. QED
    BY <2>1, <2>2
<1>4. CASE EndGroup
  <2>1. /\ pc = "member" /\ pc' = "passA" /\ foundone' = FALSE
        /\ f_sg_next_group_number' = f_sg_next_group_number + (IF foundone THEN 1 ELSE 0)
        /\ f_sht_group_type_section_count' =
             f_sht_group_type_section_count + (IF foundone THEN 1 ELSE 0)
        /\ UNCHANGED gh_section_group_number
    BY <1>4 DEF EndGroup
  <2>2. f_sg_next_group_number \in Nat /\ f_sht_group_type_section_count \in Nat
        /\ foundone \in BOOLEAN
    BY <1>0 DEF TypeOK
  <2>3. ComdatNumbersInUse' = ComdatNumbersInUse
    BY <2>1 DEF ComdatNumbersInUse
  <2>4. ComdatNumbersInUse =
          FirstComdatGroup..(f_sg_next_group_number - 1)
          \cup (IF foundone THEN {f_sg_next_group_number} ELSE {})
    BY <2>1 DEF DenseInv
  <2>5. CASE foundone
    <3>0. f_sg_next_group_number' = f_sg_next_group_number + 1
      BY <2>1, <2>5
    <3>a. f_sg_next_group_number >= 3
      BY <2>2 DEF DenseInv, FirstComdatGroup
    <3>1. FirstComdatGroup..(f_sg_next_group_number - 1) \cup {f_sg_next_group_number}
            = FirstComdatGroup..(f_sg_next_group_number' - 1)
      BY <2>2, <3>0, <3>a DEF FirstComdatGroup
    <3>b. f_sht_group_type_section_count' = f_sht_group_type_section_count + 1
      BY <2>1, <2>5
    <3>c. ComdatNumbersInUse' = FirstComdatGroup..(f_sg_next_group_number' - 1)
      BY <2>3, <2>4, <2>5, <3>1
    <3>d. f_sg_next_group_number' = FirstComdatGroup + f_sht_group_type_section_count'
      BY <2>2, <3>0, <3>b DEF DenseInv, FirstComdatGroup
    <3>e. pc' = "passA" /\ foundone' = FALSE
      BY <2>1
    <3>2. QED
      BY <3>c, <3>d, <3>e DEF DenseInv
  <2>6. CASE ~foundone
    <3>z. (IF foundone THEN 1 ELSE 0) = 0
      BY <2>6
    <3>0. f_sg_next_group_number' = f_sg_next_group_number
          /\ f_sht_group_type_section_count' = f_sht_group_type_section_count
      BY <2>1, <2>2, <3>z
    <3>1. ComdatNumbersInUse' = FirstComdatGroup..(f_sg_next_group_number' - 1)
      BY <2>3, <2>4, <2>6, <3>0
    <3>2. pc' = "passA" /\ foundone' = FALSE
      BY <2>1
    <3>3. QED
      BY <3>0, <3>1, <3>2 DEF DenseInv
  <2>7. QED
    BY <2>5, <2>6
<1>5. CASE PassCDwo
  <2>1. CASE gh_section_group_number[i] = 0
    <3>1. /\ pc = "passC" /\ i \in Sections
          /\ gh_section_group_number' =
               [gh_section_group_number EXCEPT ![i] = DW_GROUPNUMBER_DWO]
          /\ UNCHANGED <<pc, foundone, f_sg_next_group_number,
                         f_sht_group_type_section_count>>
      BY <1>0, <1>5, <2>1 DEF PassCDwo, PassCData, Fail, TypeOK, Sections
    <3>2. ComdatNumbersInUse' = ComdatNumbersInUse
      BY <1>0, <2>1, <3>1, ImageUpdate
      DEF TypeOK, ComdatNumbersInUse, DW_GROUPNUMBER_BASE, DW_GROUPNUMBER_DWO
    <3>3. QED
      BY <3>1, <3>2 DEF DenseInv
  <2>2. CASE gh_section_group_number[i] # 0
    BY <1>1, <1>5, <2>2 DEF PassCDwo, Fail, counters
  <2>3. QED
    BY <2>1, <2>2
<1>6. CASE PassCDwarf
  <2>1. /\ pc = "passC" /\ i \in Sections
        /\ gh_section_group_number' =
             [gh_section_group_number EXCEPT ![i] = IF @ = 0 THEN DW_GROUPNUMBER_BASE ELSE @]
        /\ UNCHANGED <<pc, foundone, f_sg_next_group_number,
                       f_sht_group_type_section_count>>
    BY <1>0, <1>6 DEF PassCDwarf, PassCData, TypeOK, Sections, counters
  <2>2. CASE gh_section_group_number[i] = 0
    <3>1. ComdatNumbersInUse' = ComdatNumbersInUse
      BY <1>0, <2>1, <2>2, ImageUpdate
      DEF TypeOK, ComdatNumbersInUse, DW_GROUPNUMBER_BASE, DW_GROUPNUMBER_DWO
    <3>2. QED
      BY <2>1, <3>1 DEF DenseInv
  <2>3. CASE gh_section_group_number[i] # 0
    <3>1. gh_section_group_number' = gh_section_group_number
      BY <1>0, <2>1, <2>3 DEF TypeOK, Sections
    <3>2. QED
      BY <2>1, <3>1 DEF DenseInv, ComdatNumbersInUse
  <2>4. QED
    BY <2>2, <2>3
<1>7. QED
  <2>1. CASE PassASkipEmpty
    BY <1>1, <2>1 DEF PassASkipEmpty, counters
  <2>2. CASE PassACountFlag
    BY <1>1, <2>2 DEF PassACountFlag
  <2>3. CASE EndPassA
    BY <1>1, <2>3 DEF EndPassA, counters
  <2>4. CASE PassCSkip
    BY <1>1, <2>4 DEF PassCSkip, counters
  <2>5. CASE PassCOther
    BY <1>1, <2>5 DEF PassCOther, PassCData, counters
  <2>6. CASE EndPassC
    BY <1>1, <2>6 DEF EndPassC, counters
  <2>7. CASE UNCHANGED vars
    BY <2>7 DEF vars, DenseInv, ComdatNumbersInUse
  <2>8. QED
    BY <1>2, <1>3, <1>4, <1>5, <1>6, <2>1, <2>2, <2>3, <2>4, <2>5, <2>6, <2>7
    DEF Next

(* When section-group setup returns DW_DLV_OK, the COMDAT group numbers   *)
(* in use are exactly 3 .. f_sg_next_group_number-1, one per SHT_GROUP     *)
(* section counted in f_sht_group_type_section_count, provided no group   *)
(* names the slot one past the table.                                      *)
THEOREM ComdatNumbersDenseThm ==
  ASSUME NoTableEndMembers
  PROVE  Spec => []ComdatNumbersDense
<1>1. Init => Inv /\ DenseInv
  BY InitInv, DenseInitInv
<1>2. Inv /\ DenseInv /\ [Next]_vars => Inv' /\ DenseInv'
  BY NextInv, DenseNextInv
<1>3. Inv /\ DenseInv => ComdatNumbersDense
  BY DEF DenseInv, ComdatNumbersDense
<1>4. QED
  BY <1>1, <1>2, <1>3, PTL DEF Spec

=============================================================================
