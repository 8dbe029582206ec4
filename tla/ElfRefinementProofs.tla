------------------------- MODULE ElfRefinementProofs -------------------------
(***************************************************************************)
(* Proof that the section-group setup of ElfSectionGroups implements the   *)
(* one-step specification SectionGroupsAbs (ImplementsAbs), for every      *)
(* table size and every table, provided no group names the slot one past  *)
(* the table (NoTableEndMembers, the case of the run groups_oob).         *)
(*                                                                         *)
(* Every step before the routine returns leaves the abstract state as it  *)
(* was.  A step to "error" must be an abstract Fail, so the table must    *)
(* satisfy SetupFails then; EndPassC must be Succeed, so the numbers and  *)
(* marks in the table must be the reference ones.  Both follow from an    *)
(* invariant that says what the two passes have computed so far:          *)
(*   - RefA, in pass A: the group slots read so far are well formed, name *)
(*     distinct sections, and each section carries the COMDAT number of    *)
(*     the group that listed it, or 0; the counters count the COMDAT       *)
(*     groups before i;                                                    *)
(*   - RefC, in pass C: pass A found nothing wrong; the sections before i  *)
(*     carry their reference number and mark, those from i on what pass A  *)
(*     gave them; no ".dwo" data section before i is listed by a group.    *)
(***************************************************************************)
EXTENDS ElfSectionGroupsProofs, FiniteSetTheorems

GS == Abs!GroupSecs
CG == Abs!ComdatGroups

(* Slot k of group g has been read by pass A. *)
SlotDone(g, k) == g < i \/ (pc = "member" /\ g = i /\ k < j)

(* The groups whose slots read so far list section s. *)
AssignedBy(s) ==
  {g \in GS : \E k \in Abs!Slots(g) : SlotDone(g, k) /\ Abs!Member(g, k) = s}

(* The COMDAT groups before section n. *)
ComdatBefore(n) == {h \in CG : h < n}

(* Group g passes every check of read_gs_section_group. *)
GroupOK(g) ==
  /\ GroupHeaderError(shdr[g]) = "NONE"
  /\ \A k \in Abs!Slots(g) : ~BadMemberWord(shdr[g].words[k + 1])

(* No two slots read so far name the same section. *)
DistinctDone ==
  \A g, h \in GS : \A k \in Abs!Slots(g) : \A l \in Abs!Slots(h) :
    (SlotDone(g, k) /\ SlotDone(h, l) /\ <<g, k>> # <<h, l>>) =>
      Abs!Member(g, k) # Abs!Member(h, l)

(* No two slots of the table name the same section. *)
DistinctAll ==
  \A g, h \in GS : \A k \in Abs!Slots(g) : \A l \in Abs!Slots(h) :
    <<g, k>> # <<h, l>> => Abs!Member(g, k) # Abs!Member(h, l)

(* What pass A leaves in a section's group number. *)
PassANumber(s) ==
  IF Abs!ListedBy(s) # {} THEN Abs!ComdatNumber(CHOOSE g \in Abs!ListedBy(s) : TRUE)
  ELSE 0

(* The group number and the DWARF mark SectionGroupsAbs gives section s. *)
RefNumber(s) ==
  IF Abs!ListedBy(s) # {} THEN PassANumber(s)
  ELSE IF s \in Abs!DataSecs /\ shdr[s].name.dwo THEN DW_GROUPNUMBER_DWO
  ELSE IF s \in Abs!DataSecs /\ IsDwarfName(shdr[s].name) THEN DW_GROUPNUMBER_BASE
  ELSE 0
RefDwarf(s) == s \in Abs!DataSecs /\ (shdr[s].name.dwo \/ IsDwarfName(shdr[s].name))

RefA ==
  pc \in {"passA", "member"} =>
    /\ \A g \in GS : g < i => GroupOK(g)
    /\ pc = "member" =>
         /\ i \in GS
         /\ GroupHeaderError(shdr[i]) = "NONE"
         /\ \A k \in 1..(j - 1) : ~BadMemberWord(shdr[i].words[k + 1])
         /\ (foundone <=> j > 1)
    /\ DistinctDone
    /\ \A s \in Sections :
         /\ AssignedBy(s) = {} => gh_section_group_number[s] = 0
         /\ \A g \in AssignedBy(s) : gh_section_group_number[s] = Abs!ComdatNumber(g)
    /\ f_sg_next_group_number = FirstComdatGroup + Cardinality(ComdatBefore(i))
    /\ f_sht_group_type_section_count = Cardinality(ComdatBefore(i))
    /\ gh_is_dwarf = [s \in Sections |-> FALSE]

RefC ==
  pc \in {"passC", "done"} =>
    /\ \A g \in GS : GroupOK(g)
    /\ DistinctAll
    /\ f_sht_group_type_section_count = Cardinality(CG)
    /\ \A s \in Sections :
         s >= i => /\ gh_section_group_number[s] = PassANumber(s)
                   /\ ~gh_is_dwarf[s]
    /\ \A s \in Sections :
         s < i => /\ gh_section_group_number[s] = RefNumber(s)
                  /\ gh_is_dwarf[s] = RefDwarf(s)
    /\ \A s \in Abs!DataSecs : (s < i /\ shdr[s].name.dwo) => Abs!ListedBy(s) = {}
    /\ pc = "done" => i = Count

RefInv == Inv /\ RefA /\ RefC

-----------------------------------------------------------------------------
(* Lemmas about the table-derived operators.                               *)

(* SectionGroupsAbs extends ElfGroupDefs too: its copies of the helpers  *)
(* are the helpers of the detailed module.                                 *)
LEMMA AbsBasics ==
  /\ Abs!Sections = Sections
  /\ Abs!FirstComdatGroup = FirstComdatGroup
  /\ Abs!DW_GROUPNUMBER_BASE = DW_GROUPNUMBER_BASE
  /\ Abs!DW_GROUPNUMBER_DWO = DW_GROUPNUMBER_DWO
  /\ \A sh : Abs!WordCount(sh) = WordCount(sh)
  /\ \A sh : Abs!GroupHeaderError(sh) = GroupHeaderError(sh)
  /\ \A sh : Abs!IsGroupSec(sh) = IsGroupSec(sh)
  /\ \A t : Abs!IsEmptySection(t) = IsEmptySection(t)
  /\ \A nm : Abs!IsDwarfName(nm) = IsDwarfName(nm)
  /\ \A w : Abs!MemberTarget(w) = MemberTarget(w)
  /\ \A w : Abs!BadMemberWord(w) = BadMemberWord(w)
  /\ \A S : Abs!Cardinality(S) = Cardinality(S)
  BY DEF Abs!Cardinality, Cardinality, Abs!Sections, Sections, Abs!FirstComdatGroup, FirstComdatGroup,
         Abs!DW_GROUPNUMBER_BASE, DW_GROUPNUMBER_BASE, Abs!DW_GROUPNUMBER_DWO,
         DW_GROUPNUMBER_DWO, Abs!WordCount, WordCount, Abs!DWARF_32BIT_SIZE,
         DWARF_32BIT_SIZE, Abs!GroupHeaderError, GroupHeaderError,
         Abs!IsGroupSec, IsGroupSec, Abs!IsEmptySection, IsEmptySection,
         Abs!IsDwarfName, IsDwarfName, Abs!MemberTarget, MemberTarget,
         Abs!Swap32, Swap32, Abs!BadMemberWord, BadMemberWord

(* The sets SectionGroupsAbs computes from the table, in the terms of the *)
(* detailed module.                                                        *)
LEMMA GSDef ==
  \A g : g \in GS <=> g \in Sections /\ ~IsEmptySection(shdr[g].type) /\ IsGroupSec(shdr[g])
  BY AbsBasics DEF GS, Abs!GroupSecs

LEMMA DataSecsDef ==
  \A s : s \in Abs!DataSecs <=>
          s \in Sections /\ ~IsEmptySection(shdr[s].type) /\ ~IsGroupSec(shdr[s])
  BY AbsBasics DEF Abs!DataSecs

LEMMA SlotsDef ==
  \A g : Abs!Slots(g) = 1..(WordCount(shdr[g]) - 1)
  BY AbsBasics DEF Abs!Slots

LEMMA MemberDef ==
  \A g, k : Abs!Member(g, k) = MemberTarget(shdr[g].words[k + 1])
  BY AbsBasics DEF Abs!Member

LEMMA CGDef ==
  \A g : g \in CG <=> g \in GS /\ Abs!Slots(g) # {}
  BY DEF CG, Abs!ComdatGroups, GS

LEMMA ListedByDef ==
  \A s, g : g \in Abs!ListedBy(s) <=> g \in GS /\ \E k \in Abs!Slots(g) : Abs!Member(g, k) = s
  BY DEF Abs!ListedBy, GS

(* Every step leaves the table, and so everything computed from it, as   *)
(* it was.                                                                 *)
LEMMA TableFixed ==
  ASSUME shdr' = shdr
  PROVE  /\ GS' = GS
         /\ CG' = CG
         /\ Abs!DataSecs' = Abs!DataSecs
         /\ \A g : Abs!Slots(g)' = Abs!Slots(g)
         /\ \A g, k : Abs!Member(g, k)' = Abs!Member(g, k)
         /\ \A g : Abs!ComdatNumber(g)' = Abs!ComdatNumber(g)
         /\ \A s : Abs!ListedBy(s)' = Abs!ListedBy(s)
         /\ \A s : PassANumber(s)' = PassANumber(s)
         /\ \A g : GroupOK(g)' = GroupOK(g)
         /\ \A n : ComdatBefore(n)' = ComdatBefore(n)
         /\ DistinctAll' = DistinctAll
         /\ \A x : RefNumber(x)' = RefNumber(x)
         /\ \A x : RefDwarf(x)' = RefDwarf(x)
<1>1. GS' = GS /\ Abs!DataSecs' = Abs!DataSecs
  BY DEF GS, Abs!GroupSecs, Abs!DataSecs
<1>2. \A g : Abs!Slots(g)' = Abs!Slots(g)
  BY DEF Abs!Slots
<1>3. \A g, k : Abs!Member(g, k)' = Abs!Member(g, k)
  BY DEF Abs!Member
<1>4. CG' = CG
  BY <1>1, <1>2 DEF CG, Abs!ComdatGroups, GS
<1>5. \A g : Abs!ComdatNumber(g)' = Abs!ComdatNumber(g)
  BY <1>4 DEF Abs!ComdatNumber, CG
<1>6. \A s : Abs!ListedBy(s)' = Abs!ListedBy(s)
  BY <1>1, <1>2, <1>3 DEF Abs!ListedBy, GS
<1>7. \A s : PassANumber(s)' = PassANumber(s)
  <2> TAKE s
  <2>1. Abs!ListedBy(s)' = Abs!ListedBy(s)
    BY <1>6
  <2>2. (CHOOSE g \in Abs!ListedBy(s)' : TRUE) = (CHOOSE g \in Abs!ListedBy(s) : TRUE)
    BY <2>1
  <2>3. QED
    BY <1>5, <2>1, <2>2 DEF PassANumber
<1>8. \A g : GroupOK(g)' = GroupOK(g)
  BY <1>2 DEF GroupOK
<1>9. \A n : ComdatBefore(n)' = ComdatBefore(n)
  BY <1>4 DEF ComdatBefore
<1>10. DistinctAll' = DistinctAll
  BY <1>1, <1>2, <1>3 DEF DistinctAll
<1>11. \A x : RefNumber(x)' = RefNumber(x)
  BY <1>1, <1>6, <1>7 DEF RefNumber
<1>12. \A x : RefDwarf(x)' = RefDwarf(x)
  BY <1>1 DEF RefDwarf
<1>13. QED
  BY <1>1, <1>2, <1>3, <1>4, <1>5, <1>6, <1>7, <1>8, <1>9, <1>10, <1>11, <1>12

(* The sections of the table form a finite set of naturals. *)
LEMMA SectionsFinite == IsFiniteSet(Sections) /\ Sections \subseteq Nat
  BY CountAssumption, FS_Interval DEF Sections

(* The COMDAT groups before n are finitely many; one more section adds    *)
(* one when it is a COMDAT group.                                          *)
LEMMA ComdatBeforeStep ==
  ASSUME NEW n \in Nat
  PROVE  /\ IsFiniteSet(ComdatBefore(n))
         /\ Cardinality(ComdatBefore(n)) \in Nat
         /\ Cardinality(ComdatBefore(n + 1)) =
              Cardinality(ComdatBefore(n)) + (IF n \in CG THEN 1 ELSE 0)
<1>1. CG \subseteq Sections
  BY AbsBasics DEF CG, Abs!ComdatGroups, Abs!GroupSecs
<1>2. \A m \in Nat : IsFiniteSet(ComdatBefore(m))
  BY <1>1, SectionsFinite, FS_Subset DEF ComdatBefore
<1>3. Cardinality(ComdatBefore(n)) \in Nat
  BY <1>2, FS_CardinalityType
<1>a. CG \subseteq Nat
  BY <1>1, SectionsFinite
<1>b. \A h \in CG : h < n + 1 <=> h < n \/ h = n
  BY <1>a
<1>4. CASE n \in CG
  <2>1. ComdatBefore(n + 1) = ComdatBefore(n) \cup {n}
    BY <1>b, <1>4 DEF ComdatBefore
  <2>2. n \notin ComdatBefore(n)
    BY DEF ComdatBefore
  <2>3. Cardinality(ComdatBefore(n) \cup {n}) = Cardinality(ComdatBefore(n)) + 1
    BY <1>2, <2>2, FS_AddElement
  <2>4. QED
    BY <1>2, <1>3, <1>4, <2>1, <2>3
<1>5. CASE n \notin CG
  <2>1. ComdatBefore(n + 1) = ComdatBefore(n)
    BY <1>b, <1>5 DEF ComdatBefore
  <2>2. QED
    BY <1>2, <1>3, <1>5, <2>1
<1>6. QED
  BY <1>4, <1>5

(* No COMDAT group comes before section 0, and all come before Count. *)
LEMMA ComdatBeforeEnds ==
  /\ Cardinality(ComdatBefore(0)) = 0
  /\ ComdatBefore(Count) = CG
<1>1. CG \subseteq Sections
  BY AbsBasics DEF CG, Abs!ComdatGroups, Abs!GroupSecs
<1>a. \A h \in CG : ~(h < 0) /\ h < Count
  BY <1>1, CountAssumption DEF Sections
<1>2. ComdatBefore(0) = {}
  BY <1>a DEF ComdatBefore
<1>3. ComdatBefore(Count) = CG
  BY <1>a DEF ComdatBefore
<1>4. QED
  BY <1>2, <1>3, FS_EmptySet

(* The COMDAT number of a group counts the COMDAT groups before it. *)
LEMMA ComdatNumberDef ==
  ASSUME NEW g
  PROVE  Abs!ComdatNumber(g) = FirstComdatGroup + Cardinality(ComdatBefore(g))
<1>1. Abs!ComdatNumber(g) = Abs!FirstComdatGroup + Cardinality({h \in Abs!ComdatGroups : h < g})
  BY AbsBasics DEF Abs!ComdatNumber
<1>2. QED
  BY <1>1, AbsBasics DEF ComdatBefore, CG

(* A COMDAT number is a natural number of 3 or more. *)
LEMMA ComdatNumberBig ==
  ASSUME NEW g \in Sections
  PROVE  Abs!ComdatNumber(g) \in Nat /\ Abs!ComdatNumber(g) >= FirstComdatGroup
<1>1. g \in Nat
  BY SectionsFinite
<1>2. Cardinality(ComdatBefore(g)) \in Nat
  BY <1>1, ComdatBeforeStep
<1>3. QED
  BY <1>2, ComdatNumberDef DEF FirstComdatGroup

(* A member word of a group of the table that is not refused names a      *)
(* section of the table, when no group names the slot past it.             *)
LEMMA MemberInTable ==
  ASSUME Inv, NoTableEndMembers, NEW g \in GS, NEW k \in Abs!Slots(g),
         ~BadMemberWord(shdr[g].words[k + 1])
  PROVE  Abs!Member(g, k) \in Sections
<1>1. g \in Sections /\ ~IsEmptySection(shdr[g].type)
  BY AbsBasics DEF GS, Abs!GroupSecs
<1>2. g # 0
  BY <1>1, NullSectionOK DEF Inv, TableOK
<1>3. shdr[g] \in SectionChoices
  BY <1>1, <1>2 DEF Inv, TableOK, Sections
<1>4. /\ shdr[g] \in SectionHeaders
      /\ Len(shdr[g].words) = WordCount(shdr[g])
      /\ WordCount(shdr[g]) \in Nat
  BY <1>3, ChoicesAssumption DEF SectionHeaders, WordCount, DWARF_32BIT_SIZE
<1>5. k + 1 \in 2..Len(shdr[g].words)
  BY <1>4, AbsBasics DEF Abs!Slots
<1>6. shdr[g].words[k + 1] \in Nat
  BY <1>4, <1>5 DEF SectionHeaders, Word32
<1>7. Abs!Member(g, k) # Count
  BY <1>3, <1>5, AbsBasics DEF NoTableEndMembers, Abs!Member
<1>8. Abs!Member(g, k) \in 0..Count
  BY <1>6, MemberTargetRange, AbsBasics DEF Abs!Member
<1>9. QED
  BY <1>7, <1>8, CountAssumption DEF Sections

-----------------------------------------------------------------------------
(* The pass A part of the invariant.                                       *)

(* A step that reads no new slot leaves the groups that list a section,  *)
(* and whether the slots read are distinct, as they were.                  *)
LEMMA SameDone ==
  ASSUME shdr' = shdr,
         \A g \in GS : \A k \in Abs!Slots(g) : SlotDone(g, k)' <=> SlotDone(g, k)
  PROVE  /\ \A s : AssignedBy(s)' = AssignedBy(s)
         /\ DistinctDone' <=> DistinctDone
<1>1. /\ GS' = GS
      /\ \A g : Abs!Slots(g)' = Abs!Slots(g)
      /\ \A g, k : Abs!Member(g, k)' = Abs!Member(g, k)
  BY TableFixed
<1>2. \A s : AssignedBy(s)' = AssignedBy(s)
  BY <1>1 DEF AssignedBy
<1>3. DistinctDone' <=> DistinctDone
  BY <1>1 DEF DistinctDone
<1>4. QED
  BY <1>2, <1>3

LEMMA InitRef == Init => RefA /\ RefC
<1> SUFFICES ASSUME Init PROVE RefA /\ RefC
  OBVIOUS
<1>1. pc = "passA" /\ i = 0
  BY DEF Init
<1>2. GS \subseteq Nat
  BY SectionsFinite, AbsBasics DEF GS, Abs!GroupSecs
<1>3. \A g \in GS : \A k \in Abs!Slots(g) : ~SlotDone(g, k)
  BY <1>1, <1>2 DEF SlotDone
<1>4. \A s : AssignedBy(s) = {}
  BY <1>3 DEF AssignedBy
<1>5. \A s \in Sections : gh_section_group_number[s] = 0
  <2>1. PICK junk \in HeapJunk :
          gh_section_group_number = [s \in 0..Count |-> IF s < Count THEN 0 ELSE junk]
    BY DEF Init
  <2>2. QED
    BY <2>1, CountAssumption DEF Sections
<1>6. DistinctDone
  BY <1>3 DEF DistinctDone
<1>7. /\ f_sg_next_group_number = FirstComdatGroup + Cardinality(ComdatBefore(i))
      /\ f_sht_group_type_section_count = Cardinality(ComdatBefore(i))
  BY <1>1, ComdatBeforeEnds DEF Init, FirstComdatGroup
<1>8. \A g \in GS : ~(g < i)
  BY <1>1, <1>2
<1>9. QED
  BY <1>1, <1>4, <1>5, <1>6, <1>7, <1>8 DEF Init, RefA, RefC

(* Pass A steps over a section that is not a group section. *)
LEMMA RefPassASkip ==
  ASSUME Inv, RefA, PassASkipEmpty \/ PassACountFlag
  PROVE  RefA' /\ RefC'
<1>1. /\ pc = "passA" /\ pc' = "passA" /\ i < Count /\ i' = i + 1
      /\ UNCHANGED <<shdr, gh_section_group_number, gh_is_dwarf,
                     f_sg_next_group_number, f_sht_group_type_section_count>>
  BY DEF PassASkipEmpty, PassACountFlag, counters
<1>2. i \in Nat /\ i \notin GS /\ i \notin CG
  <2>1. i \in Nat
    BY <1>1 DEF Inv, TypeOK
  <2>2. i \notin GS
    BY AbsBasics DEF PassASkipEmpty, PassACountFlag, GS, Abs!GroupSecs
  <2>3. QED
    BY <2>1, <2>2 DEF CG, Abs!ComdatGroups, GS
<1>3. GS \subseteq Nat
  BY SectionsFinite, AbsBasics DEF GS, Abs!GroupSecs
<1>4. \A g \in GS : \A k \in Abs!Slots(g) : SlotDone(g, k)' <=> SlotDone(g, k)
  BY <1>1, <1>2, <1>3 DEF SlotDone
<1>5. /\ \A s : AssignedBy(s)' = AssignedBy(s)
      /\ DistinctDone' <=> DistinctDone
  BY <1>1, <1>4, SameDone
<1>6. Cardinality(ComdatBefore(i + 1)) = Cardinality(ComdatBefore(i))
  BY <1>2, ComdatBeforeStep
<1>7. \A g \in GS : g < i + 1 => g < i
  BY <1>2, <1>3
<1>8. /\ GS' = GS
      /\ \A g : GroupOK(g)' = GroupOK(g)
      /\ \A g : Abs!ComdatNumber(g)' = Abs!ComdatNumber(g)
      /\ \A n : ComdatBefore(n)' = ComdatBefore(n)
  BY <1>1, TableFixed
<1>9. RefA'
  <2>1. \A g \in GS' : g < i' => GroupOK(g)'
    BY <1>1, <1>7, <1>8 DEF RefA
  <2>2. \A s \in Sections :
          /\ AssignedBy(s)' = {} => gh_section_group_number'[s] = 0
          /\ \A g \in AssignedBy(s)' :
               gh_section_group_number'[s] = Abs!ComdatNumber(g)'
    BY <1>1, <1>5, <1>8 DEF RefA
  <2>0. ComdatBefore(i)' = ComdatBefore(i + 1)
    BY <1>1, TableFixed DEF ComdatBefore
  <2>3. /\ f_sg_next_group_number' =
             FirstComdatGroup + Cardinality(ComdatBefore(i)')
        /\ f_sht_group_type_section_count' = Cardinality(ComdatBefore(i)')
    BY <1>1, <1>6, <2>0 DEF RefA
  <2>4. DistinctDone'
    BY <1>1, <1>5 DEF RefA
  <2>5. gh_is_dwarf' = [s \in Sections |-> FALSE]
    BY <1>1 DEF RefA
  <2>6. pc' \in {"passA", "member"} /\ pc' # "member"
    BY <1>1
  <2>7. QED
    BY <2>1, <2>2, <2>3, <2>4, <2>5, <2>6 DEF RefA
<1>10. QED
  BY <1>1, <1>9 DEF RefC

(* The parts of the type invariant the steps below use: the scalars, *)
LEMMA TypeFacts ==
  ASSUME Inv
  PROVE  /\ i \in 0..Count /\ i \in Nat /\ j \in Nat /\ foundone \in BOOLEAN
         /\ f_sg_next_group_number \in Nat
         /\ f_sht_group_type_section_count \in Nat
<1>1. TypeOK
  BY DEF Inv
<1>2. /\ i \in 0..Count /\ j \in Nat /\ foundone \in BOOLEAN
      /\ f_sg_next_group_number \in Nat
      /\ f_sht_group_type_section_count \in Nat
  BY <1>1 DEF TypeOK
<1>3. i \in Nat
  BY <1>2, CountAssumption
<1>4. QED
  BY <1>2, <1>3

(* and the arrays. *)
LEMMA ArrayFacts ==
  ASSUME Inv
  PROVE  /\ gh_section_group_number \in [0..Count -> Nat]
         /\ gh_is_dwarf \in [Sections -> BOOLEAN]
  BY DEF Inv, TypeOK

(* Every section of the table holds WordCount words. *)
LEMMA WordCountNat ==
  ASSUME Inv
  PROVE  \A g \in Sections : WordCount(shdr[g]) \in Nat
<1> TAKE g \in Sections
<1>1. Len(shdr[g].words) = WordCount(shdr[g])
  BY TableWords DEF Inv
<1>2. QED
  BY <1>1

(* Inside the member loop the word index runs over 1 .. WordCount. *)
LEMMA MemberFacts ==
  ASSUME Inv, pc = "member"
  PROVE  /\ i \in Sections
         /\ WordCount(shdr[i]) \in Nat
         /\ j \in 1..WordCount(shdr[i])
<1>1. i \in Sections /\ j \in 1..WordCount(shdr[i])
  BY DEF Inv, MemberLoopOK
<1>2. WordCount(shdr[i]) \in Nat
  BY <1>1, TableWords DEF Inv
<1>3. QED
  BY <1>1, <1>2

(* read_gs_section_group up to its member loop. *)
LEMMA RefHeader ==
  ASSUME Inv, RefA, ReadGroupHeader
  PROVE  RefA' /\ RefC'
<1>1. CASE GroupHeaderError(shdr[i]) = "NONE"
  <2>1. /\ pc = "passA" /\ pc' = "member" /\ j' = 1 /\ foundone' = FALSE
        /\ i < Count /\ ~IsEmptySection(shdr[i].type) /\ IsGroupSec(shdr[i])
        /\ UNCHANGED <<shdr, gh_section_group_number, gh_is_dwarf, i,
                       f_sg_next_group_number, f_sht_group_type_section_count>>
    BY <1>1 DEF ReadGroupHeader, Fail, counters
  <2>2. i \in GS
    <3>0. i < Count /\ i \in 0..Count
      BY <2>1, TypeFacts
    <3>1. i \in Sections
      BY <3>0, CountAssumption DEF Sections
    <3>2. QED
      BY <2>1, <3>1, GSDef
  <2>3. \A g \in GS : \A k \in Abs!Slots(g) : SlotDone(g, k)' <=> SlotDone(g, k)
    <3>1. \A g \in GS : \A k \in Abs!Slots(g) : k \in Nat /\ k >= 1
      BY SlotsDef, WordCountNat, GSDef
    <3>2. i \in Nat
      BY TypeFacts
    <3>3. QED
      BY <2>1, <3>1, <3>2 DEF SlotDone
  <2>4. /\ \A s : AssignedBy(s)' = AssignedBy(s)
        /\ DistinctDone' <=> DistinctDone
    BY <2>1, <2>3, SameDone
  <2>5. /\ GS' = GS
        /\ \A g : GroupOK(g)' = GroupOK(g)
        /\ \A g : Abs!ComdatNumber(g)' = Abs!ComdatNumber(g)
        /\ ComdatBefore(i)' = ComdatBefore(i)
    BY <2>1, TableFixed DEF ComdatBefore
  <2>6. \A k \in 1..(j' - 1) : ~BadMemberWord(shdr'[i'].words[k + 1])
    BY <2>1
  <2>7. QED
    BY <1>1, <2>1, <2>2, <2>4, <2>5, <2>6 DEF RefA, RefC
<1>2. CASE GroupHeaderError(shdr[i]) # "NONE"
  BY <1>2 DEF ReadGroupHeader, Fail, RefA, RefC
<1>3. QED
  BY <1>1, <1>2

(* The end of the member loop of read_gs_section_group. *)
LEMMA RefEndGroup ==
  ASSUME Inv, RefA, EndGroup
  PROVE  RefA' /\ RefC'
<1>1. /\ pc = "member" /\ pc' = "passA" /\ i' = i + 1
      /\ j >= WordCount(shdr[i])
      /\ f_sg_next_group_number' = f_sg_next_group_number + (IF foundone THEN 1 ELSE 0)
      /\ f_sht_group_type_section_count' =
           f_sht_group_type_section_count + (IF foundone THEN 1 ELSE 0)
      /\ UNCHANGED <<shdr, gh_section_group_number, gh_is_dwarf>>
  BY DEF EndGroup
<1>2. /\ i \in GS /\ i \in Nat
      /\ j = WordCount(shdr[i])
      /\ GroupHeaderError(shdr[i]) = "NONE"
      /\ \A k \in 1..(j - 1) : ~BadMemberWord(shdr[i].words[k + 1])
      /\ (foundone <=> j > 1)
      /\ foundone \in BOOLEAN
  <2>1. j = WordCount(shdr[i])
    BY <1>1, MemberFacts
  <2>2. QED
    BY <1>1, <2>1, TypeFacts DEF RefA
<1>3. Abs!Slots(i) = 1..(j - 1)
  BY <1>2, SlotsDef
<1>4. GroupOK(i)
  BY <1>2, <1>3 DEF GroupOK
<1>5. GS \subseteq Nat
  BY SectionsFinite, GSDef
<1>6. \A g \in GS : \A k \in Abs!Slots(g) : SlotDone(g, k)' <=> SlotDone(g, k)
  <2>1. \A k \in Abs!Slots(i) : k < j
    BY <1>2, <1>3, TypeFacts
  <2>2. SUFFICES ASSUME NEW g \in GS, NEW k \in Abs!Slots(g)
                 PROVE  SlotDone(g, k)' <=> SlotDone(g, k)
    OBVIOUS
  <2>3. g \in Nat
    BY <1>5
  <2>4. CASE g = i
    BY <1>1, <1>2, <2>1, <2>4 DEF SlotDone
  <2>5. CASE g # i
    BY <1>1, <1>2, <2>3, <2>5 DEF SlotDone
  <2>6. QED
    BY <2>4, <2>5
<1>7. /\ \A s : AssignedBy(s)' = AssignedBy(s)
      /\ DistinctDone' <=> DistinctDone
  BY <1>1, <1>6, SameDone
<1>8. (i \in CG) <=> foundone
  <2>1. WordCount(shdr[i]) \in Nat
    BY <1>1, MemberFacts
  <2>2. (Abs!Slots(i) # {}) <=> j > 1
    <3>1. j \in Nat
      BY TypeFacts
    <3>2. (1..(j - 1) # {}) <=> j > 1
      BY <3>1
    <3>3. QED
      BY <1>3, <3>2
  <2>3. QED
    BY <1>2, <2>2, CGDef
<1>9. /\ Cardinality(ComdatBefore(i + 1)) =
           Cardinality(ComdatBefore(i)) + (IF foundone THEN 1 ELSE 0)
      /\ Cardinality(ComdatBefore(i)) \in Nat
  BY <1>2, <1>8, ComdatBeforeStep
<1>10. /\ GS' = GS
       /\ \A g : GroupOK(g)' = GroupOK(g)
       /\ \A g : Abs!ComdatNumber(g)' = Abs!ComdatNumber(g)
       /\ ComdatBefore(i)' = ComdatBefore(i + 1)
  BY <1>1, TableFixed DEF ComdatBefore
<1>11. \A g \in GS : g < i + 1 => GroupOK(g)
  BY <1>1, <1>2, <1>4, <1>5 DEF RefA
<1>12. /\ f_sg_next_group_number' = FirstComdatGroup + Cardinality(ComdatBefore(i)')
       /\ f_sht_group_type_section_count' = Cardinality(ComdatBefore(i)')
  BY <1>1, <1>2, <1>9, <1>10 DEF RefA, FirstComdatGroup
<1>13. RefA'
  <2>1. \A s \in Sections :
          /\ AssignedBy(s)' = {} => gh_section_group_number'[s] = 0
          /\ \A g \in AssignedBy(s)' :
               gh_section_group_number'[s] = Abs!ComdatNumber(g)'
    BY <1>1, <1>7, <1>10 DEF RefA
  <2>2. QED
    BY <1>1, <1>7, <1>10, <1>11, <1>12, <2>1 DEF RefA
<1>14. QED
  BY <1>1, <1>13 DEF RefC

(* One member word of a group section. *)
LEMMA RefMember ==
  ASSUME Inv, RefA, NoTableEndMembers, ReadGroupMember
  PROVE  RefA' /\ RefC'
<1>1. CASE ~MemberAccepted
  BY <1>1 DEF ReadGroupMember, Fail, RefA, RefC
<1>2. CASE MemberAccepted
  <2>1. /\ pc = "member" /\ pc' = "member" /\ j < WordCount(shdr[i])
        /\ j' = j + 1 /\ i' = i /\ foundone' = TRUE
        /\ gh_section_group_number' =
             [gh_section_group_number EXCEPT ![Target] = f_sg_next_group_number]
        /\ UNCHANGED <<shdr, gh_is_dwarf, f_sg_next_group_number,
                       f_sht_group_type_section_count>>
    BY <1>2 DEF ReadGroupMember, Fail, counters
  <2>2. /\ i \in GS
        /\ GroupHeaderError(shdr[i]) = "NONE"
        /\ \A k \in 1..(j - 1) : ~BadMemberWord(shdr[i].words[k + 1])
        /\ \A g \in GS : g < i => GroupOK(g)
        /\ DistinctDone
        /\ \A s \in Sections :
             /\ AssignedBy(s) = {} => gh_section_group_number[s] = 0
             /\ \A g \in AssignedBy(s) : gh_section_group_number[s] = Abs!ComdatNumber(g)
        /\ f_sg_next_group_number = FirstComdatGroup + Cardinality(ComdatBefore(i))
        /\ f_sht_group_type_section_count = Cardinality(ComdatBefore(i))
        /\ gh_is_dwarf = [s \in Sections |-> FALSE]
    BY <2>1 DEF RefA
  <2>3. /\ i \in Nat /\ j \in Nat /\ j >= 1
        /\ WordCount(shdr[i]) \in Nat
    BY <2>1, MemberFacts, TypeFacts
  <2>4. j \in Abs!Slots(i)
    BY <2>1, <2>3, SlotsDef
  <2>5. Abs!Member(i, j) = Target
    BY MemberDef DEF Target, Word
  <2>6. Target \in Sections /\ gh_section_group_number[Target] = 0 /\ ~BadMemberWord(Word)
    BY <1>2, <2>1, TargetInTable DEF MemberAccepted
  <2>7. AssignedBy(Target) = {}
    <3>1. SUFFICES ASSUME NEW g \in AssignedBy(Target) PROVE FALSE
      OBVIOUS
    <3>2. g \in Sections
      BY GSDef DEF AssignedBy
    <3>3. Abs!ComdatNumber(g) >= FirstComdatGroup
      BY <3>2, ComdatNumberBig
    <3>4. QED
      BY <2>2, <2>6, <3>3 DEF FirstComdatGroup
  <2>8. GS \subseteq Nat
    BY SectionsFinite, GSDef
  <2>9. \A g \in GS : \A k \in Abs!Slots(g) :
          SlotDone(g, k)' <=> SlotDone(g, k) \/ (g = i /\ k = j)
    <3>1. \A g \in GS : \A k \in Abs!Slots(g) : k \in Nat
      BY SlotsDef, WordCountNat, GSDef
    <3>2. QED
      BY <2>1, <2>3, <2>8, <3>1 DEF SlotDone
  <2>10. /\ GS' = GS
         /\ \A g : Abs!Slots(g)' = Abs!Slots(g)
         /\ \A g, k : Abs!Member(g, k)' = Abs!Member(g, k)
         /\ \A g : GroupOK(g)' = GroupOK(g)
         /\ \A g : Abs!ComdatNumber(g)' = Abs!ComdatNumber(g)
         /\ ComdatBefore(i)' = ComdatBefore(i)
    BY <2>1, TableFixed DEF ComdatBefore
  <2>11. \A s : AssignedBy(s)' = AssignedBy(s) \cup (IF s = Target THEN {i} ELSE {})
    <3> SUFFICES ASSUME NEW s, NEW g
                 PROVE  g \in AssignedBy(s)' <=>
                          g \in AssignedBy(s) \cup (IF s = Target THEN {i} ELSE {})
      OBVIOUS
    <3>1. g \in AssignedBy(s)' <=>
            g \in GS /\ \E k \in Abs!Slots(g) : SlotDone(g, k)' /\ Abs!Member(g, k) = s
      BY <2>10 DEF AssignedBy
    <3>2. QED
      BY <3>1, <2>2, <2>4, <2>5, <2>9 DEF AssignedBy
  <2>12. f_sg_next_group_number = Abs!ComdatNumber(i)
    BY <2>2, ComdatNumberDef
  <2>13. \A s \in Sections :
           /\ AssignedBy(s)' = {} => gh_section_group_number'[s] = 0
           /\ \A g \in AssignedBy(s)' :
                gh_section_group_number'[s] = Abs!ComdatNumber(g)'
    <3> SUFFICES ASSUME NEW s \in Sections
                 PROVE  /\ AssignedBy(s)' = {} => gh_section_group_number'[s] = 0
                        /\ \A g \in AssignedBy(s)' :
                             gh_section_group_number'[s] = Abs!ComdatNumber(g)'
      OBVIOUS
    <3>1. gh_section_group_number \in [0..Count -> Nat] /\ Sections \subseteq 0..Count
      BY ArrayFacts, CountAssumption DEF Sections
    <3>2. CASE s = Target
      <4>1. AssignedBy(s)' = {i}
        BY <2>7, <2>11, <3>2
      <4>2. gh_section_group_number'[s] = f_sg_next_group_number
        BY <2>1, <2>6, <3>1, <3>2
      <4>3. QED
        BY <2>10, <2>12, <4>1, <4>2
    <3>3. CASE s # Target
      <4>1. AssignedBy(s)' = AssignedBy(s)
        BY <2>11, <3>3
      <4>2. gh_section_group_number'[s] = gh_section_group_number[s]
        BY <2>1, <2>6, <3>1, <3>3
      <4>3. QED
        BY <2>2, <2>10, <4>1, <4>2
    <3>4. QED
      BY <3>2, <3>3
  <2>14. DistinctDone'
    <3> SUFFICES ASSUME NEW g \in GS, NEW h \in GS,
                        NEW k \in Abs!Slots(g), NEW l \in Abs!Slots(h),
                        SlotDone(g, k)', SlotDone(h, l)', <<g, k>> # <<h, l>>
                 PROVE  Abs!Member(g, k) # Abs!Member(h, l)
      BY <2>10 DEF DistinctDone
    <3>1. CASE SlotDone(g, k) /\ SlotDone(h, l)
      BY <2>2, <3>1 DEF DistinctDone
    <3>2. CASE g = i /\ k = j /\ SlotDone(h, l)
      <4>1. h \notin AssignedBy(Target)
        BY <2>7
      <4>2. QED
        BY <2>5, <3>2, <4>1 DEF AssignedBy
    <3>3. CASE h = i /\ l = j /\ SlotDone(g, k)
      <4>1. g \notin AssignedBy(Target)
        BY <2>7
      <4>2. QED
        BY <2>5, <3>3, <4>1 DEF AssignedBy
    <3>4. QED
      BY <2>9, <3>1, <3>2, <3>3
  <2>15. \A k \in 1..(j' - 1) : ~BadMemberWord(shdr'[i'].words[k + 1])
    BY <2>1, <2>2, <2>3, <2>6 DEF Word
  <2>16. RefA'
    BY <2>1, <2>2, <2>3, <2>10, <2>13, <2>14, <2>15 DEF RefA
  <2>17. QED
    BY <2>1, <2>16 DEF RefC
<1>3. QED
  BY <1>1, <1>2

(* The end of pass A: pass C starts from what pass A computed. *)
LEMMA RefEndPassA ==
  ASSUME Inv, RefA, EndPassA
  PROVE  RefA' /\ RefC'
<1>1. /\ pc = "passA" /\ i = Count /\ pc' = "passC" /\ i' = 0
      /\ UNCHANGED <<shdr, gh_section_group_number, gh_is_dwarf,
                     f_sht_group_type_section_count>>
  BY DEF EndPassA, counters
<1>2. \A g \in GS : \A k \in Abs!Slots(g) : SlotDone(g, k)
  BY <1>1, GSDef, CountAssumption DEF SlotDone, Sections
<1>3. \A s : AssignedBy(s) = Abs!ListedBy(s)
  BY <1>2, ListedByDef DEF AssignedBy
<1>4. /\ \A g \in GS : GroupOK(g)
      /\ DistinctAll
      /\ f_sht_group_type_section_count = Cardinality(CG)
  <2>1. \A g \in GS : g < i
    BY <1>1, GSDef, CountAssumption DEF Sections
  <2>2. DistinctDone
    BY <1>1 DEF RefA
  <2>3. QED
    BY <1>1, <1>2, <2>1, <2>2, ComdatBeforeEnds DEF RefA, DistinctDone, DistinctAll
<1>5. \A s \in Sections : gh_section_group_number[s] = PassANumber(s) /\ ~gh_is_dwarf[s]
  <2> SUFFICES ASSUME NEW s \in Sections
               PROVE  gh_section_group_number[s] = PassANumber(s) /\ ~gh_is_dwarf[s]
    OBVIOUS
  <2>1. /\ AssignedBy(s) = {} => gh_section_group_number[s] = 0
        /\ \A g \in AssignedBy(s) : gh_section_group_number[s] = Abs!ComdatNumber(g)
        /\ ~gh_is_dwarf[s]
    BY <1>1 DEF RefA
  <2>2. CASE Abs!ListedBy(s) # {}
    <3>1. (CHOOSE g \in Abs!ListedBy(s) : TRUE) \in AssignedBy(s)
      BY <1>3, <2>2
    <3>2. QED
      BY <2>1, <2>2, <3>1 DEF PassANumber
  <2>3. CASE Abs!ListedBy(s) = {}
    BY <1>3, <2>1, <2>3 DEF PassANumber
  <2>4. QED
    BY <2>2, <2>3
<1>6. /\ GS' = GS
      /\ DistinctAll' = DistinctAll
      /\ CG' = CG
      /\ \A g : GroupOK(g)' = GroupOK(g)
      /\ \A x : PassANumber(x)' = PassANumber(x)
  BY <1>1, TableFixed
<1>7. \A s \in Sections : s >= 0 /\ ~(s < 0)
  BY SectionsFinite
<1>8. /\ Abs!DataSecs' = Abs!DataSecs
      /\ \A s \in Abs!DataSecs : ~(s < 0)
  BY <1>1, <1>7, TableFixed, DataSecsDef
<1>9. \A s \in Sections : s >= i' => /\ gh_section_group_number'[s] = PassANumber(s)'
                                   /\ ~gh_is_dwarf'[s]
  BY <1>1, <1>5, <1>6, <1>7
<1>10. RefC'
  BY <1>1, <1>4, <1>6, <1>7, <1>8, <1>9 DEF RefC
<1>11. QED
  BY <1>1, <1>10 DEF RefA

(* Pass A leaves a section ungrouped exactly when no group lists it. *)
LEMMA PassANumberZero ==
  ASSUME NEW s
  PROVE  PassANumber(s) = 0 <=> Abs!ListedBy(s) = {}
<1>1. CASE Abs!ListedBy(s) # {}
  <2>1. (CHOOSE g \in Abs!ListedBy(s) : TRUE) \in Sections
    BY <1>1, ListedByDef, GSDef
  <2>2. QED
    BY <1>1, <2>1, ComdatNumberBig DEF PassANumber, FirstComdatGroup
<1>2. QED
  BY <1>1 DEF PassANumber

(* A step of pass C that settles section i as SectionGroupsAbs does and  *)
(* leaves the other sections alone keeps RefC.                            *)
LEMMA PassCStep ==
  ASSUME Inv, RefC, pc = "passC", i < Count,
         i' = i + 1, pc' = pc, shdr' = shdr,
         f_sht_group_type_section_count' = f_sht_group_type_section_count,
         gh_section_group_number'[i] = RefNumber(i),
         gh_is_dwarf'[i] = RefDwarf(i),
         \A s \in Sections : s # i =>
            /\ gh_section_group_number'[s] = gh_section_group_number[s]
            /\ gh_is_dwarf'[s] = gh_is_dwarf[s],
         (i \in Abs!DataSecs /\ shdr[i].name.dwo) => Abs!ListedBy(i) = {}
  PROVE  RefA' /\ RefC'
<1>1. i \in Nat /\ Sections \subseteq Nat /\ Abs!DataSecs \subseteq Sections
  BY TypeFacts, SectionsFinite, DataSecsDef
<1>2. /\ GS' = GS /\ CG' = CG /\ DistinctAll' = DistinctAll
      /\ Abs!DataSecs' = Abs!DataSecs
      /\ \A g : GroupOK(g)' = GroupOK(g)
      /\ \A x : Abs!ListedBy(x)' = Abs!ListedBy(x)
      /\ \A x : PassANumber(x)' = PassANumber(x)
      /\ \A x : RefNumber(x)' = RefNumber(x)
      /\ \A x : RefDwarf(x)' = RefDwarf(x)
  BY TableFixed
<1>3. \A s \in Sections : s >= i' => /\ gh_section_group_number'[s] = PassANumber(s)'
                                   /\ ~gh_is_dwarf'[s]
  BY <1>1, <1>2 DEF RefC
<1>4. \A s \in Sections : s < i' => /\ gh_section_group_number'[s] = RefNumber(s)'
                                  /\ gh_is_dwarf'[s] = RefDwarf(s)'
  BY <1>1, <1>2 DEF RefC
<1>5. \A s \in Abs!DataSecs' : (s < i' /\ shdr'[s].name.dwo) => Abs!ListedBy(s)' = {}
  BY <1>1, <1>2 DEF RefC
<1>6. RefC'
  BY <1>2, <1>3, <1>4, <1>5 DEF RefC
<1>7. QED
  BY <1>6 DEF RefA

(* Section i is in pass C and has its pass A number. *)
LEMMA PassCCurrent ==
  ASSUME Inv, RefC, pc = "passC", i < Count
  PROVE  /\ i \in Sections
         /\ gh_section_group_number[i] = PassANumber(i)
         /\ ~gh_is_dwarf[i]
<1>1. i \in Nat /\ i \in Sections
  BY TypeFacts, CountAssumption DEF Sections
<1>2. QED
  BY <1>1 DEF RefC

LEMMA RefPassCSkip ==
  ASSUME Inv, RefA, RefC, PassCSkip
  PROVE  RefA' /\ RefC'
<1>1. /\ pc = "passC" /\ i < Count /\ i \notin Abs!DataSecs
  BY DataSecsDef DEF PassCSkip
<1>2. /\ i \in Sections /\ gh_section_group_number[i] = PassANumber(i)
      /\ ~gh_is_dwarf[i]
  BY <1>1, PassCCurrent
<1>3. gh_section_group_number[i] = RefNumber(i) /\ gh_is_dwarf[i] = RefDwarf(i)
  BY <1>1, <1>2, ArrayFacts DEF RefNumber, RefDwarf, PassANumber
<1>4. QED
  BY <1>1, <1>3, PassCStep DEF PassCSkip, counters

LEMMA RefPassCDwo ==
  ASSUME Inv, RefA, RefC, PassCDwo
  PROVE  RefA' /\ RefC'
<1>1. /\ pc = "passC" /\ i < Count /\ shdr[i].name.dwo
      /\ i \in Abs!DataSecs
  <2>1. /\ pc = "passC" /\ i < Count /\ ~IsEmptySection(shdr[i].type) /\ ~IsGroupSec(shdr[i])
        /\ shdr[i].name.dwo
    BY DEF PassCDwo, PassCData
  <2>2. i \in Sections
    BY <2>1, TypeFacts, CountAssumption DEF Sections
  <2>3. QED
    BY <2>1, <2>2, DataSecsDef
<1>2. /\ i \in Sections /\ gh_section_group_number[i] = PassANumber(i)
  BY <1>1, PassCCurrent
<1>3. CASE gh_section_group_number[i] = 0
  <2>1. Abs!ListedBy(i) = {}
    BY <1>2, <1>3, PassANumberZero
  <2>2. RefNumber(i) = DW_GROUPNUMBER_DWO /\ RefDwarf(i)
    BY <1>1, <2>1 DEF RefNumber, RefDwarf
  <2>3. /\ gh_section_group_number' =
             [gh_section_group_number EXCEPT ![i] = DW_GROUPNUMBER_DWO]
        /\ gh_is_dwarf' = [gh_is_dwarf EXCEPT ![i] = TRUE]
        /\ i' = i + 1 /\ pc' = pc /\ shdr' = shdr
        /\ f_sht_group_type_section_count' = f_sht_group_type_section_count
    BY <1>3 DEF PassCDwo, Fail
  <2>4. /\ gh_section_group_number \in [0..Count -> Nat]
        /\ gh_is_dwarf \in [Sections -> BOOLEAN]
        /\ Sections \subseteq 0..Count
    BY ArrayFacts, CountAssumption DEF Sections
  <2>5. QED
    BY <1>1, <1>2, <2>1, <2>2, <2>3, <2>4, PassCStep
<1>4. CASE gh_section_group_number[i] # 0
  BY <1>4 DEF PassCDwo, Fail, RefA, RefC
<1>5. QED
  BY <1>3, <1>4

LEMMA RefPassCDwarf ==
  ASSUME Inv, RefA, RefC, PassCDwarf
  PROVE  RefA' /\ RefC'
<1>1. /\ pc = "passC" /\ i < Count /\ ~shdr[i].name.dwo
      /\ IsDwarfName(shdr[i].name) /\ i \in Abs!DataSecs
  <2>1. /\ pc = "passC" /\ i < Count /\ ~IsEmptySection(shdr[i].type) /\ ~IsGroupSec(shdr[i])
        /\ ~shdr[i].name.dwo /\ IsDwarfName(shdr[i].name)
    BY DEF PassCDwarf, PassCData
  <2>2. i \in Sections
    BY <2>1, TypeFacts, CountAssumption DEF Sections
  <2>3. QED
    BY <2>1, <2>2, DataSecsDef
<1>2. /\ i \in Sections /\ gh_section_group_number[i] = PassANumber(i)
  BY <1>1, PassCCurrent
<1>3. /\ (IF gh_section_group_number[i] = 0 THEN DW_GROUPNUMBER_BASE
          ELSE gh_section_group_number[i]) = RefNumber(i)
      /\ RefDwarf(i)
  BY <1>1, <1>2, PassANumberZero DEF RefNumber, RefDwarf
<1>4. /\ gh_section_group_number \in [0..Count -> Nat]
      /\ gh_is_dwarf \in [Sections -> BOOLEAN]
      /\ Sections \subseteq 0..Count
  BY ArrayFacts, CountAssumption DEF Sections
<1>5. QED
  BY <1>1, <1>2, <1>3, <1>4, PassCStep DEF PassCDwarf, counters

LEMMA RefPassCOther ==
  ASSUME Inv, RefA, RefC, PassCOther
  PROVE  RefA' /\ RefC'
<1>1. /\ pc = "passC" /\ i < Count /\ ~shdr[i].name.dwo
      /\ ~IsDwarfName(shdr[i].name)
  BY DEF PassCOther, PassCData
<1>2. /\ i \in Sections /\ gh_section_group_number[i] = PassANumber(i)
      /\ ~gh_is_dwarf[i]
  BY <1>1, PassCCurrent
<1>3. gh_section_group_number[i] = RefNumber(i) /\ gh_is_dwarf[i] = RefDwarf(i)
  BY <1>1, <1>2, ArrayFacts DEF RefNumber, RefDwarf, PassANumber
<1>4. QED
  BY <1>1, <1>3, PassCStep DEF PassCOther, counters

LEMMA RefEndPassC ==
  ASSUME Inv, RefA, RefC, EndPassC
  PROVE  RefA' /\ RefC'
  BY TableFixed DEF EndPassC, counters, RefA, RefC

(* Every step of the routine keeps RefA and RefC. *)
LEMMA NextRef ==
  ASSUME NoTableEndMembers
  PROVE  Inv /\ RefA /\ RefC /\ [Next]_vars => RefA' /\ RefC'
<1> SUFFICES ASSUME Inv, RefA, RefC, [Next]_vars PROVE RefA' /\ RefC'
  OBVIOUS
<1>1. CASE PassASkipEmpty \/ PassACountFlag
  BY <1>1, RefPassASkip
<1>2. CASE ReadGroupHeader
  BY <1>2, RefHeader
<1>3. CASE ReadGroupMember
  BY <1>3, RefMember
<1>4. CASE EndGroup
  BY <1>4, RefEndGroup
<1>5. CASE EndPassA
  BY <1>5, RefEndPassA
<1>6. CASE PassCSkip
  BY <1>6, RefPassCSkip
<1>7. CASE PassCDwo
  BY <1>7, RefPassCDwo
<1>8. CASE PassCDwarf
  BY <1>8, RefPassCDwarf
<1>9. CASE PassCOther
  BY <1>9, RefPassCOther
<1>10. CASE EndPassC
  BY <1>10, RefEndPassC
<1>11. CASE UNCHANGED vars
  <2>1. /\ shdr' = shdr /\ pc' = pc /\ i' = i /\ j' = j /\ foundone' = foundone
        /\ gh_section_group_number' = gh_section_group_number
        /\ gh_is_dwarf' = gh_is_dwarf
        /\ f_sg_next_group_number' = f_sg_next_group_number
        /\ f_sht_group_type_section_count' = f_sht_group_type_section_count
    BY <1>11 DEF vars
  <2>2. \A g \in GS : \A k \in Abs!Slots(g) : SlotDone(g, k)' <=> SlotDone(g, k)
    BY <2>1 DEF SlotDone
  <2>3. /\ \A s : AssignedBy(s)' = AssignedBy(s)
        /\ DistinctDone' <=> DistinctDone
    BY <2>1, <2>2, SameDone
  <2>4. /\ GS' = GS /\ CG' = CG /\ DistinctAll' = DistinctAll
        /\ Abs!DataSecs' = Abs!DataSecs
        /\ \A g : GroupOK(g)' = GroupOK(g)
        /\ \A g : Abs!ComdatNumber(g)' = Abs!ComdatNumber(g)
        /\ \A x : Abs!ListedBy(x)' = Abs!ListedBy(x)
        /\ \A x : PassANumber(x)' = PassANumber(x)
        /\ \A x : RefNumber(x)' = RefNumber(x)
        /\ \A x : RefDwarf(x)' = RefDwarf(x)
        /\ \A n : ComdatBefore(n)' = ComdatBefore(n)
    BY <2>1, TableFixed
  <2>5. RefA'
    BY <2>1, <2>3, <2>4 DEF RefA
  <2>6. RefC'
    BY <2>1, <2>4 DEF RefC
  <2>7. QED
    BY <2>5, <2>6
<1>12. QED
  BY <1>1, <1>2, <1>3, <1>4, <1>5, <1>6, <1>7, <1>8, <1>9, <1>10, <1>11 DEF Next

-----------------------------------------------------------------------------
(* The refinement mapping, step by step.                                   *)

(* The reference numbers and marks of SectionGroupsAbs, section by       *)
(* section.                                                                *)
LEMMA RefBridge ==
  /\ Abs!RefGroupNumber = [s \in Sections |-> RefNumber(s)]
  /\ Abs!RefIsDwarf = [s \in Sections |-> RefDwarf(s)]
  BY AbsBasics DEF Abs!RefGroupNumber, RefNumber, PassANumber, Abs!RefIsDwarf, RefDwarf

(* The four ways SectionGroupsAbs fails: a bad group header, a bad       *)
(* member word, a section listed twice, a listed ".dwo" section.          *)
LEMMA FailHeader ==
  ASSUME NEW g \in GS, GroupHeaderError(shdr[g]) # "NONE"
  PROVE  Abs!SetupFails
  BY AbsBasics DEF Abs!SetupFails, GS

LEMMA FailWord ==
  ASSUME NEW g \in GS, NEW k \in Abs!Slots(g), BadMemberWord(shdr[g].words[k + 1])
  PROVE  Abs!SetupFails
  BY AbsBasics DEF Abs!SetupFails, GS

LEMMA FailTwice ==
  ASSUME NEW g \in GS, NEW h \in GS, NEW k \in Abs!Slots(g), NEW l \in Abs!Slots(h),
         <<g, k>> # <<h, l>>, Abs!Member(g, k) = Abs!Member(h, l)
  PROVE  Abs!SetupFails
  BY DEF Abs!SetupFails, GS

LEMMA FailDwo ==
  ASSUME NEW s \in Abs!DataSecs, shdr[s].name.dwo, Abs!ListedBy(s) # {}
  PROVE  Abs!SetupFails
  BY DEF Abs!SetupFails

(* When pass C ends, none of the four has happened. *)
LEMMA NoFails ==
  ASSUME Inv, NoTableEndMembers, RefC, pc = "passC", i = Count
  PROVE  ~Abs!SetupFails
<1>1. /\ \A g \in GS : GroupOK(g)
      /\ DistinctAll
      /\ \A s \in Abs!DataSecs : shdr[s].name.dwo => Abs!ListedBy(s) = {}
  <2>1. \A s \in Abs!DataSecs : s < Count
    BY DataSecsDef, CountAssumption DEF Sections
  <2>2. QED
    BY <2>1 DEF RefC
<1>2. \A g \in GS : \A k \in Abs!Slots(g) :
        ~BadMemberWord(shdr[g].words[k + 1]) /\ Abs!Member(g, k) \in Sections
  BY <1>1, MemberInTable DEF GroupOK
<1>3. QED
  BY <1>1, <1>2, AbsBasics DEF Abs!SetupFails, GS, GroupOK, DistinctAll

(* A step that neither starts nor ends at a return of the routine leaves *)
(* the abstract state as it was.                                           *)
LEMMA AbsStutter ==
  ASSUME shdr' = shdr, pc \notin {"done", "error"}, pc' \notin {"done", "error"}
  PROVE  UNCHANGED Abs!absVars
  BY DEF Abs!absVars

(* A step into "error" on a table for which SectionGroupsAbs fails is   *)
(* its Fail.                                                               *)
LEMMA AbsFail ==
  ASSUME shdr' = shdr, pc \notin {"done", "error"}, pc' = "error", Abs!SetupFails
  PROVE  Abs!Fail
  BY DEF Abs!Fail

(* EndPassC is the Succeed of SectionGroupsAbs. *)
LEMMA AbsSucceed ==
  ASSUME Inv, NoTableEndMembers, RefC, EndPassC
  PROVE  Abs!Succeed
<1>1. /\ pc = "passC" /\ i = Count /\ pc' = "done" /\ i' = i
      /\ UNCHANGED <<shdr, gh_section_group_number, gh_is_dwarf,
                     f_sht_group_type_section_count>>
  BY DEF EndPassC, counters
<1>2. ~Abs!SetupFails
  BY <1>1, NoFails
<1>3. \A s \in Sections : s < i
  BY <1>1, CountAssumption DEF Sections
<1>4. [s \in Sections |-> gh_section_group_number'[s]] = Abs!RefGroupNumber
  BY <1>1, <1>3, RefBridge DEF RefC
<1>5. gh_is_dwarf' = Abs!RefIsDwarf
  <2>1. gh_is_dwarf \in [Sections -> BOOLEAN]
    BY ArrayFacts
  <2>2. \A s \in Sections : gh_is_dwarf[s] = RefDwarf(s)
    BY <1>1, <1>3 DEF RefC
  <2>3. QED
    BY <1>1, <2>1, <2>2, RefBridge
<1>6. f_sht_group_type_section_count' = Abs!Cardinality(Abs!ComdatGroups)
  BY <1>1, AbsBasics DEF RefC, CG
<1>7. QED
  BY <1>1, <1>2, <1>4, <1>5, <1>6 DEF Abs!Succeed

(* Every step of the routine is a step of SectionGroupsAbs or leaves its *)
(* state alone.                                                            *)
LEMMA AbsStep ==
  ASSUME NoTableEndMembers
  PROVE  Inv /\ RefA /\ RefC /\ [Next]_vars => [Abs!AbsNext]_Abs!absVars
<1> SUFFICES ASSUME Inv, RefA, RefC, [Next]_vars
             PROVE  [Abs!AbsNext]_Abs!absVars
  OBVIOUS
<1>1. CASE \/ PassASkipEmpty \/ PassACountFlag \/ EndGroup \/ EndPassA
           \/ PassCSkip \/ PassCDwarf \/ PassCOther
  BY <1>1, AbsStutter DEF PassASkipEmpty, PassACountFlag, EndGroup, EndPassA,
                          PassCSkip, PassCDwarf, PassCOther, PassCData
<1>2. CASE ReadGroupHeader
  <2>1. CASE GroupHeaderError(shdr[i]) = "NONE"
    BY <1>2, <2>1, AbsStutter DEF ReadGroupHeader
  <2>2. CASE GroupHeaderError(shdr[i]) # "NONE"
    <3>1. /\ pc = "passA" /\ pc' = "error" /\ shdr' = shdr
      BY <1>2, <2>2 DEF ReadGroupHeader, Fail
    <3>2. i \in GS
      BY <1>2, GSDef, TypeFacts, CountAssumption DEF ReadGroupHeader, Sections
    <3>3. QED
      BY <2>2, <3>1, <3>2, FailHeader, AbsFail DEF Abs!AbsNext
  <2>3. QED
    BY <2>1, <2>2
<1>3. CASE ReadGroupMember
  <2>1. CASE MemberAccepted
    BY <1>3, <2>1, AbsStutter DEF ReadGroupMember
  <2>2. CASE ~MemberAccepted
    <3>1. /\ pc = "member" /\ pc' = "error" /\ shdr' = shdr
          /\ j < WordCount(shdr[i])
      BY <1>3, <2>2 DEF ReadGroupMember, Fail
    <3>2. /\ i \in GS /\ i \in Nat /\ j \in Nat
          /\ j \in Abs!Slots(i)
          /\ Abs!Member(i, j) = Target
      BY <3>1, MemberFacts, TypeFacts, SlotsDef, MemberDef DEF RefA, Target, Word
    <3>3. CASE BadMemberWord(Word)
      BY <3>1, <3>2, <3>3, FailWord, AbsFail DEF Abs!AbsNext, Word
    <3>4. CASE ~BadMemberWord(Word)
      <4>1. Target \in Sections /\ gh_section_group_number[Target] # 0
        BY <2>2, <3>1, <3>4, TargetInTable DEF MemberAccepted
      <4>2. AssignedBy(Target) # {}
        BY <3>1, <4>1 DEF RefA
      <4>3. PICK g \in GS : \E k \in Abs!Slots(g) :
                              SlotDone(g, k) /\ Abs!Member(g, k) = Target
        BY <4>2 DEF AssignedBy
      <4>4. PICK k \in Abs!Slots(g) : SlotDone(g, k) /\ Abs!Member(g, k) = Target
        BY <4>3
      <4>5. <<g, k>> # <<i, j>>
        BY <3>2, <4>4 DEF SlotDone
      <4>6. QED
        BY <3>1, <3>2, <4>4, <4>5, FailTwice, AbsFail DEF Abs!AbsNext
    <3>5. QED
      BY <3>3, <3>4
  <2>3. QED
    BY <2>1, <2>2
<1>4. CASE PassCDwo
  <2>1. CASE gh_section_group_number[i] = 0
    BY <1>4, <2>1, AbsStutter DEF PassCDwo, PassCData
  <2>2. CASE gh_section_group_number[i] # 0
    <3>1. /\ pc = "passC" /\ pc' = "error" /\ shdr' = shdr /\ i < Count
          /\ shdr[i].name.dwo
          /\ ~IsEmptySection(shdr[i].type) /\ ~IsGroupSec(shdr[i])
      BY <1>4, <2>2 DEF PassCDwo, PassCData, Fail
    <3>2. i \in Sections /\ gh_section_group_number[i] = PassANumber(i)
      BY <3>1, PassCCurrent
    <3>3. i \in Abs!DataSecs /\ Abs!ListedBy(i) # {}
      BY <2>2, <3>1, <3>2, DataSecsDef, PassANumberZero
    <3>4. QED
      BY <3>1, <3>3, FailDwo, AbsFail DEF Abs!AbsNext
  <2>3. QED
    BY <2>1, <2>2
<1>5. CASE EndPassC
  BY <1>5, AbsSucceed DEF Abs!AbsNext
<1>6. CASE UNCHANGED vars
  BY <1>6 DEF vars, Abs!absVars
<1>7. QED
  BY <1>1, <1>2, <1>3, <1>4, <1>5, <1>6 DEF Next

(* The initial states of the routine are initial states of              *)
(* SectionGroupsAbs.                                                       *)
LEMMA AbsInitStep == Init => Abs!AbsInit
<1> SUFFICES ASSUME Init PROVE Abs!AbsInit
  OBVIOUS
<1>1. Inv /\ pc = "passA"
  BY InitInv DEF Init
<1>2. Abs!SectionHeaders = SectionHeaders
  BY DEF Abs!SectionHeaders, SectionHeaders, Abs!SectionTypes, SectionTypes,
         Abs!Names, Names, Abs!NameStems, NameStems, Abs!Word32, Word32,
         Abs!IoOutcomes, IoOutcomes
<1>3. shdr \in [Sections -> SectionHeaders]
  BY <1>1 DEF Inv, TypeOK
<1>4. QED
  BY <1>1, <1>2, <1>3, AbsBasics DEF Init, Abs!AbsInit

(* Section-group setup implements its one-step specification: every run *)
(* of _dwarf_load_elf_sectheaders' group passes either ends in an error   *)
(* on a table for which SectionGroupsAbs fails, or returns with exactly    *)
(* the group numbers, DWARF marks and COMDAT count SectionGroupsAbs       *)
(* assigns, for every table size and every table whose group words never *)
(* name the slot one past the table.                                       *)
THEOREM ImplementsAbsThm ==
  ASSUME NoTableEndMembers
  PROVE  Spec => ImplementsAbs
<1>1. Spec => [](Inv /\ RefA /\ RefC)
  <2>1. Init => Inv /\ RefA /\ RefC
    BY InitInv, InitRef
  <2>2. Inv /\ RefA /\ RefC /\ [Next]_vars => (Inv /\ RefA /\ RefC)'
    BY NextInv, NextRef
  <2>3. QED
    BY <2>1, <2>2, PTL DEF Spec
<1>2. [](Inv /\ RefA /\ RefC) /\ [][Next]_vars => [][Abs!AbsNext]_Abs!absVars
  BY AbsStep, PTL
<1>3. QED
  BY <1>1, <1>2, AbsInitStep, PTL DEF Spec, ImplementsAbs, Abs!AbsSpec

=============================================================================
