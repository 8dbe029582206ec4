------------------------------ MODULE DocMacinfo ------------------------------
(***************************************************************************)
(* examplep2 of doc/checkexamples.c: the DWARF2-4 .debug_macinfo details  *)
(* of one CU, read with dwarf_get_macro_details at the CU's offset, then  *)
(* a walk over the whole section from offset 0, each call starting one    *)
(* byte past the last entry the previous call returned.                   *)
(*                                                                         *)
(* The section is chosen in Init: SecLen bytes cut into the macro blocks  *)
(* of the CUs, given by the offsets where blocks start (starts), and the  *)
(* blocks the library cannot read (bad).  A block's entries are one per   *)
(* byte, so the last entry of a block is at the byte before the next      *)
(* start.  What dwarf_get_macro_details answers at an offset past the     *)
(* section is DW_DLV_NO_ENTRY.                                             *)
(***************************************************************************)
EXTENDS DwarfApiDefs

CONSTANT SecLen   \* the size of .debug_macinfo

ASSUME SecLenAssumption == SecLen \in Nat \ {0}

Offsets == 0..(SecLen - 1)

VARIABLES
  pc,       \* "first", "firstuse", "scan", "scanuse" or "returned"
  curOff,   \* cur_off
  i,        \* the entry index
  count,    \* count
  last,     \* maclist[count-1].dmd_offset
  live,     \* TRUE while maclist is allocated
  starts,   \* the offsets where a CU's macro block starts
  bad,      \* the blocks dwarf_get_macro_details fails on
  cuOff     \* the offset examplep2 is given (from DW_AT_macroinfo)

vars == <<pc, curOff, i, count, last, live, starts, bad, cuOff>>

(* The start of the block that holds offset o.                          *)
BlockOf(o) == CHOOSE s \in starts : s <= o /\ \A t \in starts : t <= o => t <= s

(* The end of the block that starts at s: the byte before the next start. *)
BlockEnd(s) ==
  LET later == {t \in starts : t > s}
  IN  IF later = {} THEN SecLen - 1
      ELSE (CHOOSE t \in later : \A u \in later : t <= u) - 1

Init ==
  /\ starts \in {S \in SUBSET Offsets : 0 \in S}
  /\ bad \in SUBSET starts
  /\ cuOff \in starts
  /\ pc = "first"
  /\ curOff = cuOff
  /\ i = 0 /\ count = 0 /\ last = 0
  /\ live = FALSE

(* dwarf_get_macro_details(dbg, cur_off, max, &count, &maclist): the     *)
(* entries from cur_off to the end of its block, or a failure in a bad    *)
(* block, or no entry past the section.                                    *)
Details(ok, ko) ==
  \/ /\ curOff < SecLen
     /\ BlockOf(curOff) \notin bad
     /\ count' = BlockEnd(BlockOf(curOff)) - curOff + 1
     /\ last' = BlockEnd(BlockOf(curOff))
     /\ live' = TRUE /\ i' = 0
     /\ pc' = ok
  \/ /\ curOff >= SecLen \/ BlockOf(curOff) \in bad
     /\ pc' = ko
     /\ UNCHANGED <<count, last, live, i>>

(* The CU's own details: used if found, otherwise skipped.                *)
FirstDetails ==
  /\ pc = "first"
  /\ Details("firstuse", "scan")
  /\ curOff' = 0
  /\ UNCHANGED <<starts, bad, cuOff>>

(* Mutant: the details of the CU are used but maclist is not freed.      *)
FirstUseNoFree ==
  /\ pc = "firstuse"
  /\ \/ i < count /\ i' = i + 1 /\ UNCHANGED pc
     \/ i >= count /\ pc' = "scan" /\ UNCHANGED i
  /\ UNCHANGED <<curOff, count, last, live, starts, bad, cuOff>>

(* for (i = 0; i < count; ++i) use maclist[i], then free maclist.  The    *)
(* walk then starts at cur_off = 0.                                        *)
FirstUse ==
  /\ pc = "firstuse"
  /\ \/ i < count /\ i' = i + 1 /\ UNCHANGED <<pc, live>>
     \/ i >= count /\ live' = FALSE /\ pc' = "scan" /\ UNCHANGED i
  /\ UNCHANGED <<curOff, count, last, starts, bad, cuOff>>

(* while ((errv = dwarf_get_macro_details(dbg, cur_off, ...)) == OK):     *)
(* a failure or the end of the section ends the walk, and examplep2        *)
(* returns DW_DLV_OK.                                                      *)
ScanDetails ==
  /\ pc = "scan"
  /\ Details("scanuse", "returned")
  /\ UNCHANGED <<curOff, starts, bad, cuOff>>

(* Mutant: the walk restarts at the last entry's offset, without + 1.    *)
ScanUseNoIncrement ==
  /\ pc = "scanuse"
  /\ \/ i < count /\ i' = i + 1 /\ UNCHANGED <<pc, live, curOff>>
     \/ /\ i >= count
        /\ curOff' = last
        /\ live' = FALSE /\ pc' = "scan" /\ UNCHANGED i
  /\ UNCHANGED <<count, last, starts, bad, cuOff>>

(* The loop over the entries, then cur_off = maclist[count-1].dmd_offset *)
(* + 1 and free maclist.                                                   *)
ScanUse ==
  /\ pc = "scanuse"
  /\ \/ i < count /\ i' = i + 1 /\ UNCHANGED <<pc, live, curOff>>
     \/ /\ i >= count
        /\ curOff' = last + 1
        /\ live' = FALSE /\ pc' = "scan" /\ UNCHANGED i
  /\ UNCHANGED <<count, last, starts, bad, cuOff>>

Next == FirstDetails \/ FirstUse \/ ScanDetails \/ ScanUse

(* examplep2 is sequential code: it keeps running until it returns.      *)
Spec == Init /\ [][Next]_vars /\ WF_vars(Next)

-----------------------------------------------------------------------------
(* Each list dwarf_get_macro_details hands over is freed before the next  *)
(* call and before examplep2 returns.                                      *)
ListFreedBeforeNextCall == pc \in {"first", "scan", "returned"} => ~live

(* The walk over .debug_macinfo ends: every call starts past the last    *)
(* entry of the block before, so the offset grows until a call fails or   *)
(* runs off the end of the section.                                        *)
Terminates == <>(pc = "returned")

=============================================================================
