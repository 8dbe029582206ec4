-------------------------- MODULE DocRangeListsProofs --------------------------
(***************************************************************************)
(* Proof that example_rnglist_for_attribute gives its Dwarf_Rnglists_Head *)
(* back on every return, for every entry count and every answer of the    *)
(* library (DocRangeLists).                                                *)
(*                                                                         *)
(* HeadReleasedOnReturn speaks of returns only.  It follows from the      *)
(* stronger HeadOnlyInLoop: the head is held only inside the entry loop.  *)
(* That one is inductive: the loop is entered only by the step that gets  *)
(* the head, and every step out of it frees the head.  The steps of       *)
(* example_raw_rnglist never touch it.                                     *)
(***************************************************************************)
EXTENDS DocRangeLists, TLAPS

(* rnglhead is allocated only between dwarf_rnglists_get_rle_head and the *)
(* dwarf_dealloc_rnglists_head that ends the entry loop.                  *)
HeadOnlyInLoop == head => pc = "entries"

LEMMA NextHeadOnlyInLoop == HeadOnlyInLoop /\ [Next]_vars => HeadOnlyInLoop'
<1> SUFFICES ASSUME HeadOnlyInLoop, [Next]_vars PROVE HeadOnlyInLoop'
  OBVIOUS
<1>1. CASE LoadRnglists \/ ContextsDone \/ OffsetValue \/ OffsetsDone \/ RlesDone
  BY <1>1 DEF LoadRnglists, ContextsDone, OffsetValue, OffsetsDone, RlesDone,
              Return, HeadOnlyInLoop
<1>2. CASE ContextBasics
  BY <1>2 DEF ContextBasics, Return, HeadOnlyInLoop
<1>3. CASE Rle
  BY <1>3 DEF Rle, Return, HeadOnlyInLoop
<1>4. CASE GetRleHead
  BY <1>4 DEF GetRleHead, Return, HeadOnlyInLoop
<1>5. CASE RleEntry \/ EntriesDone
  BY <1>5 DEF RleEntry, EntriesDone, Return, HeadOnlyInLoop
<1>6. CASE UNCHANGED vars
  BY <1>6 DEF vars, HeadOnlyInLoop
<1>7. QED
  BY <1>1, <1>2, <1>3, <1>4, <1>5, <1>6 DEF Next

(* example_rnglist_for_attribute frees rnglhead on every return: after   *)
(* the loop, at the break on DW_RLE_end_of_list, and when                 *)
(* dwarf_get_rnglists_entry_fields_a fails.                               *)
THEOREM HeadReleasedOnReturnThm == Spec => []HeadReleasedOnReturn
<1>1. Init => HeadOnlyInLoop
  BY DEF Init, HeadOnlyInLoop
<1>2. HeadOnlyInLoop => HeadReleasedOnReturn
  BY DEF HeadOnlyInLoop, HeadReleasedOnReturn
<1>3. QED
  BY <1>1, <1>2, NextHeadOnlyInLoop, PTL DEF Spec

=============================================================================
