---------------------------- MODULE SectionGroupsAbs ----------------------------
(***************************************************************************)
(* What section-group setup promises, stated in one step: from the section *)
(* header table it either fails, or it gives every listed member of a      *)
(* COMDAT group the number of its group (groups that list a section are    *)
(* numbered 3, 4, ... in table order), every other ".dwo" section          *)
(* DW_GROUPNUMBER_DWO and every other DWARF section DW_GROUPNUMBER_BASE,   *)
(* and marks exactly the ".dwo" and DWARF-named data sections as DWARF.    *)
(*                                                                         *)
(* It fails when a group section is malformed or unreadable, when a member *)
(* word is zero or has no in-range reading in either byte order, when a    *)
(* section is listed twice, or when a ".dwo" section is listed by a group. *)
(***************************************************************************)
EXTENDS ElfGroupDefs, FiniteSets

VARIABLES
  shdr,          \* the section header table
  status,        \* "loading", "done" or "error"
  groupNumber,   \* the group number of each section
  isDwarf,       \* whether each section is a DWARF section
  comdatCount    \* the number of COMDAT groups

absVars == <<shdr, status, groupNumber, isDwarf, comdatCount>>

(* Non-empty sections of the table, split into group and data sections. *)
GroupSecs == {g \in Sections : ~IsEmptySection(shdr[g].type) /\ IsGroupSec(shdr[g])}
DataSecs == {s \in Sections : ~IsEmptySection(shdr[s].type) /\ ~IsGroupSec(shdr[s])}

(* The positions of member words in group g, and the section each names. *)
Slots(g) == 1..(WordCount(shdr[g]) - 1)
Member(g, k) == MemberTarget(shdr[g].words[k + 1])

(* Groups that list at least one section; only these get a number. *)
ComdatGroups == {g \in GroupSecs : Slots(g) # {}}
ComdatNumber(g) == FirstComdatGroup + Cardinality({h \in ComdatGroups : h < g})

ListedBy(s) == {g \in GroupSecs : \E k \in Slots(g) : Member(g, k) = s}

SetupFails ==
  \/ \E g \in GroupSecs : GroupHeaderError(shdr[g]) # "NONE"
  \/ \E g \in GroupSecs : \E k \in Slots(g) :
        BadMemberWord(shdr[g].words[k + 1]) \/ Member(g, k) \notin Sections
  \/ \E g, h \in GroupSecs : \E k \in Slots(g), l \in Slots(h) :
        <<g, k>> # <<h, l>> /\ Member(g, k) = Member(h, l)
  \/ \E s \in DataSecs : shdr[s].name.dwo /\ ListedBy(s) # {}

RefGroupNumber ==
  [s \in Sections |->
     IF ListedBy(s) # {} THEN ComdatNumber(CHOOSE g \in ListedBy(s) : TRUE)
     ELSE IF s \in DataSecs /\ shdr[s].name.dwo THEN DW_GROUPNUMBER_DWO
     ELSE IF s \in DataSecs /\ IsDwarfName(shdr[s].name) THEN DW_GROUPNUMBER_BASE
     ELSE 0]

RefIsDwarf ==
  [s \in Sections |->
     s \in DataSecs /\ (shdr[s].name.dwo \/ IsDwarfName(shdr[s].name))]

AbsInit ==
  /\ shdr \in [Sections -> SectionHeaders]
  /\ status = "loading"
  /\ groupNumber = [s \in Sections |-> 0]
  /\ isDwarf = [s \in Sections |-> FALSE]
  /\ comdatCount = 0

Succeed ==
  /\ status = "loading"
  /\ ~SetupFails
  /\ status' = "done"
  /\ groupNumber' = RefGroupNumber
  /\ isDwarf' = RefIsDwarf
  /\ comdatCount' = Cardinality(ComdatGroups)
  /\ UNCHANGED shdr

Fail ==
  /\ status = "loading"
  /\ SetupFails
  /\ status' = "error"
  /\ UNCHANGED <<shdr, groupNumber, isDwarf, comdatCount>>

AbsNext == Succeed \/ Fail

AbsSpec == AbsInit /\ [][AbsNext]_absVars

=============================================================================
