------------------------- MODULE DocLineTablesProofs -------------------------
(***************************************************************************)
(* Proofs that examplec and exampled read the line context's data only    *)
(* while it is allocated and call dwarf_srclines_dealloc_b at most once,  *)
(* for every file count, line count and result of the library.            *)
(*                                                                         *)
(* Both properties speak of "files", "use" and "freed" only; they become  *)
(* inductive once the invariant also says that the context is live at    *)
(* the two other points before a return ("table", "lines"), where the     *)
(* steps that free it start, and that it is not yet allocated at "start". *)
(***************************************************************************)
EXTENDS DocLineTables, TLAPS

LineInv ==
  /\ pc \in {"start", "table", "files", "lines", "use", "returned"}
  /\ ctx \in {"none", "live", "freed"}
  /\ deallocs \in Nat
  /\ pc = "start" => ctx = "none"
  /\ pc \in {"table", "lines"} => ctx = "live"
  /\ NoUseAfterDealloc
  /\ DeallocOnce

(* A dwarf_srclines_dealloc_b of the live context is its first and only  *)
(* one.                                                                    *)
LEMMA DeallocLive ==
  ASSUME LineInv, ctx = "live", Dealloc
  PROVE  ctx' = "freed" /\ deallocs' = 1
  BY DEF LineInv, DeallocOnce, Dealloc

LEMMA InitLineInv == Init => LineInv
  BY DEF Init, LineInv, NoUseAfterDealloc, DeallocOnce

LEMMA NextLineInv == LineInv /\ [Next]_vars => LineInv'
<1> SUFFICES ASSUME LineInv, [Next]_vars PROVE LineInv'
  OBVIOUS
<1>1. CASE SrclinesB
  BY <1>1 DEF SrclinesB, Return, LineInv, NoUseAfterDealloc, DeallocOnce
<1>2. CASE CTwoLevel
  BY <1>2, DeallocLive DEF CTwoLevel, Return, LineInv, NoUseAfterDealloc, DeallocOnce
<1>3. CASE CTable
  <2>1. CASE tableCount = 0
    BY <1>3, <2>1, DeallocLive DEF CTable, Return, LineInv, NoUseAfterDealloc, DeallocOnce
  <2>2. CASE tableCount # 0
    BY <1>3, <2>2 DEF CTable, Return, LineInv, NoUseAfterDealloc, DeallocOnce
  <2>3. QED
    BY <2>1, <2>2
<1>4. CASE CFile
  BY <1>4 DEF CFile, Return, LineInv, NoUseAfterDealloc, DeallocOnce
<1>5. CASE CFilesDone
  BY <1>5 DEF CFilesDone, LineInv, NoUseAfterDealloc, DeallocOnce
<1>6. CASE FromLinecontext
  <2>1. CASE linesRes # OK
    BY <1>6, <2>1, DeallocLive DEF FromLinecontext, Return, LineInv, NoUseAfterDealloc, DeallocOnce
  <2>2. CASE linesRes = OK
    BY <1>6, <2>2 DEF FromLinecontext, LineInv, NoUseAfterDealloc, DeallocOnce
  <2>3. QED
    BY <2>1, <2>2
<1>7. CASE CUseLine
  BY <1>7 DEF CUseLine, LineInv, NoUseAfterDealloc, DeallocOnce
<1>8. CASE CLinesDone
  BY <1>8, DeallocLive DEF CLinesDone, Return, LineInv, NoUseAfterDealloc, DeallocOnce
<1>9. CASE DUseLine
  BY <1>9 DEF DUseLine, LineInv, NoUseAfterDealloc, DeallocOnce
<1>10. CASE DLinesDone
  BY <1>10, DeallocLive DEF DLinesDone, Return, LineInv, NoUseAfterDealloc, DeallocOnce
<1>11. CASE UNCHANGED vars
  BY <1>11 DEF vars, data, LineInv, NoUseAfterDealloc, DeallocOnce
<1>12. QED
  BY <1>1, <1>2, <1>3, <1>4, <1>5, <1>6, <1>7, <1>8, <1>9, <1>10, <1>11 DEF Next

(* The file data and the line buffer of the line context are never read  *)
(* after dwarf_srclines_dealloc_b, on any path of examplec or exampled.   *)
THEOREM NoUseAfterDeallocThm == Spec => []NoUseAfterDealloc
<1>1. LineInv => NoUseAfterDealloc
  BY DEF LineInv
<1>2. QED
  BY <1>1, InitLineInv, NextLineInv, PTL DEF Spec

(* dwarf_srclines_dealloc_b is called once for a context that was freed  *)
(* and never otherwise: no path of the two examples frees it twice.       *)
THEOREM DeallocOnceThm == Spec => []DeallocOnce
<1>1. LineInv => DeallocOnce
  BY DEF LineInv
<1>2. QED
  BY <1>1, InitLineInv, NextLineInv, PTL DEF Spec

=============================================================================
