---------------------------- MODULE DocListDealloc ----------------------------
(***************************************************************************)
(* The examples of doc/checkexamples.c that get an array of records from  *)
(* libdwarf with its count, use each record, and give the memory back.    *)
(* Two styles appear:                                                      *)
(*   - bulk: dwarf_globals_dealloc, dwarf_types_dealloc, ... free the     *)
(*     records and the array in one call (examplef, exampleg, exampleh,   *)
(*     examplej, examplel, examplen);                                      *)
(*   - per record: each record is freed in the loop, then the array with  *)
(*     dwarf_dealloc(..., DW_DLA_LIST) (example1, examplee, and the        *)
(*     obsolete examplei, examplek, examplem, exampleo).                   *)
(* example1 also calls dwarf_whatattr on each attribute and returns when   *)
(* it fails.                                                               *)
(*                                                                         *)
(* The data is chosen in Init: what the getter returns, the count, and the *)
(* first attribute dwarf_whatattr fails on (Count means none).             *)
(***************************************************************************)
EXTENDS DwarfApiDefs

CONSTANTS
  Fns,       \* the examples run
  MaxCount   \* the largest count of records

ASSUME ListDeallocAssumption ==
  /\ Fns \subseteq {"example1", "examplee", "examplef", "exampleg", "exampleh",
                    "examplei", "examplej", "examplek", "examplel", "examplem",
                    "examplen", "exampleo"}
  /\ MaxCount \in Nat

(* The examples that free the array with the dealloc call of its kind.   *)
BulkStyle == {"examplef", "exampleg", "exampleh", "examplej", "examplel", "examplen"}

(* The per-record examples the source marks "example of what not to do", *)
(* "OBSOLETE" or "DO NOT USE" (lines 1075-1194): they free each record    *)
(* with a dwarf_dealloc kind the documentation no longer supports.         *)
Obsolete == {"examplei", "examplek", "examplem", "exampleo"}

VARIABLES
  fn,        \* the example being run
  pc,        \* "start", "loop" or "returned"
  result,    \* the value returned
  i,         \* the loop index
  listLive,  \* the array is allocated
  elems,     \* the records not yet freed
  getRes,    \* what the getter returns
  count,     \* the count it returns
  whatErr    \* first attribute dwarf_whatattr fails on in example1

vars == <<fn, pc, result, i, listLive, elems, getRes, count, whatErr>>

Init ==
  /\ fn \in Fns
  /\ pc = "start"
  /\ result = OK
  /\ i = 0
  /\ listLive = FALSE
  /\ elems = {}
  /\ getRes \in Results
  /\ count \in 0..MaxCount
  /\ whatErr \in IF fn = "example1" THEN 0..count ELSE {count}

Return(r) == pc' = "returned" /\ result' = r

(* What the loop body's dealloc leaves of the records after record i:    *)
(* nothing in the bulk style, the record freed in the per-record style.   *)
(* What the library does with the obsolete kinds is not in this          *)
(* repository, so the record may be freed or not.                         *)
AfterRecord(r) ==
  IF fn \in BulkStyle THEN {elems}
  ELSE IF fn \in Obsolete THEN {elems \ {r}, elems}
  ELSE {elems \ {r}}

(* The getter (dwarf_attrlist, dwarf_srcfiles, dwarf_get_globals, ...):  *)
(* on success the caller owns the array and its count records; otherwise *)
(* the example returns.                                                    *)
GetList ==
  /\ pc = "start"
  /\ \/ /\ getRes = OK
        /\ listLive' = TRUE /\ elems' = 0..(count - 1)
        /\ pc' = "loop" /\ i' = 0
        /\ UNCHANGED result
     \/ /\ getRes # OK
        /\ Return(getRes)
        /\ UNCHANGED <<i, listLive, elems>>
  /\ UNCHANGED <<fn, getRes, count, whatErr>>

(* Mutant: the array is freed inside the per-record loop, after the     *)
(* first record (a misplaced brace).                                       *)
UseRecordListInLoop ==
  /\ pc = "loop" /\ i < count
  /\ \/ /\ i = whatErr
        /\ Return(ERROR)
        /\ UNCHANGED <<i, listLive, elems>>
     \/ /\ i # whatErr
        /\ elems' \in AfterRecord(i)
        /\ listLive' = (fn \in BulkStyle /\ listLive)
        /\ i' = i + 1
        /\ UNCHANGED <<pc, result>>
  /\ UNCHANGED <<fn, getRes, count, whatErr>>

(* One pass of for (i = 0; i < count; ++i): use record i (in example1,   *)
(* dwarf_whatattr, returning its failure), and in the per-record style    *)
(* free it.                                                                *)
UseRecord ==
  /\ pc = "loop" /\ i < count
  /\ \/ /\ i = whatErr
        /\ Return(ERROR)
        /\ UNCHANGED <<i, listLive, elems>>
     \/ /\ i # whatErr
        /\ elems' \in AfterRecord(i)
        /\ i' = i + 1
        /\ UNCHANGED <<pc, result, listLive>>
  /\ UNCHANGED <<fn, getRes, count, whatErr>>

(* Mutant: the bulk examples free the array with                          *)
(* dwarf_dealloc(..., DW_DLA_LIST) and not with the dealloc of its kind,  *)
(* which leaves the records.                                               *)
ListDoneArrayOnly ==
  /\ pc = "loop" /\ i >= count
  /\ listLive' = FALSE
  /\ Return(OK)
  /\ UNCHANGED <<fn, i, elems, getRes, count, whatErr>>

(* After the loop: dwarf_X_dealloc(dbg, list, count) frees the records   *)
(* and the array; dwarf_dealloc(dbg, list, DW_DLA_LIST) the array.        *)
ListDone ==
  /\ pc = "loop" /\ i >= count
  /\ listLive' = FALSE
  /\ elems' = IF fn \in BulkStyle THEN {} ELSE elems
  /\ Return(OK)
  /\ UNCHANGED <<fn, i, getRes, count, whatErr>>

Next == GetList \/ UseRecord \/ ListDone

Spec == Init /\ [][Next]_vars /\ WF_vars(Next)

-----------------------------------------------------------------------------
(* Record i is used only while it and the array that holds it are still  *)
(* allocated.                                                              *)
NoUseAfterDealloc == (pc = "loop" /\ i < count) => (listLive /\ i \in elems)

(* Every DW_DLV_OK return of an example the documentation supports has  *)
(* given back the array and every record.                                 *)
ReleasedOnSuccess ==
  (pc = "returned" /\ result = OK /\ fn \notin Obsolete) => (~listLive /\ elems = {})

=============================================================================
