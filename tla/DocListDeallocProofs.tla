------------------------- MODULE DocListDeallocProofs -------------------------
(***************************************************************************)
(* Proofs that the array examples of DocListDealloc use each record while *)
(* it is allocated and give everything back on an OK return, for every    *)
(* count and in both styles of deallocation.                              *)
(*                                                                         *)
(* The inductive invariant says which records are still allocated inside  *)
(* the loop: all of them in the bulk style, those from i on in the        *)
(* per-record style.  That the loop is left with i >= count then empties  *)
(* the set in both styles.  The obsolete examples (examplei, k, m, o) may  *)
(* keep records they passed, so the success property covers only the     *)
(* supported ones.                                                        *)
(***************************************************************************)
EXTENDS DocListDealloc, TLAPS

(* The records still allocated at the top of the loop, in the styles    *)
(* whose deallocs the library documents. *)
Pending == IF fn \in BulkStyle THEN 0..(count - 1) ELSE i..(count - 1)

(* The obsolete examples may keep some records they passed, but never    *)
(* free one they have not reached yet.                                    *)
ListInv ==
  /\ pc \in {"start", "loop", "returned"}
  /\ i \in Nat /\ count \in Nat
  /\ pc = "start" => ~listLive /\ elems = {}
  /\ pc = "loop" => /\ listLive
                    /\ Pending \subseteq elems
                    /\ elems \subseteq 0..(count - 1)
                    /\ fn \notin Obsolete => elems = Pending
  /\ ReleasedOnSuccess

LEMMA InitListInv == Init => ListInv
  BY ListDeallocAssumption DEF Init, ListInv, ReleasedOnSuccess

LEMMA NextListInv == ListInv /\ [Next]_vars => ListInv'
<1> SUFFICES ASSUME ListInv, [Next]_vars PROVE ListInv'
  OBVIOUS
<1>1. CASE GetList
  BY <1>1 DEF GetList, Return, ListInv, Pending, ReleasedOnSuccess
<1>2. CASE UseRecord
  <2>1. CASE i = whatErr
    BY <1>2, <2>1 DEF UseRecord, Return, ListInv, ReleasedOnSuccess, OK, ERROR
  <2>2. CASE i # whatErr
    <3>1. /\ elems' \in AfterRecord(i) /\ i' = i + 1 /\ pc' = "loop"
          /\ listLive' = listLive /\ fn' = fn /\ count' = count
          /\ pc = "loop" /\ i < count
      BY <1>2, <2>2 DEF UseRecord, Return
    <3>2. /\ listLive /\ i \in Nat /\ count \in Nat
          /\ Pending \subseteq elems /\ elems \subseteq 0..(count - 1)
          /\ fn \notin Obsolete => elems = Pending
      BY <3>1 DEF ListInv
    <3>3. CASE fn \in BulkStyle
      BY <3>1, <3>2, <3>3 DEF AfterRecord, ListInv, Pending, ReleasedOnSuccess
    <3>4. CASE fn \notin BulkStyle
      <4>1. elems' \subseteq elems /\ elems \ {i} \subseteq elems'
        BY <3>1, <3>4 DEF AfterRecord
      <4>2. elems \ {i} \subseteq 0..(count - 1) /\ (i + 1)..(count - 1) \subseteq elems \ {i}
        BY <3>1, <3>2, <3>4 DEF Pending
      <4>3. fn \notin Obsolete => elems' = (i + 1)..(count - 1)
        <5>1. SUFFICES ASSUME fn \notin Obsolete PROVE elems' = (i + 1)..(count - 1)
          OBVIOUS
        <5>2. elems' = elems \ {i}
          BY <3>1, <3>4, <5>1 DEF AfterRecord
        <5>3. elems = i..(count - 1)
          BY <3>2, <3>4, <5>1 DEF Pending
        <5>4. QED
          BY <3>2, <5>2, <5>3
      <4>4. QED
        BY <3>1, <3>2, <3>4, <4>1, <4>2, <4>3 DEF ListInv, Pending, ReleasedOnSuccess
    <3>5. QED
      BY <3>3, <3>4
  <2>3. QED
    BY <2>1, <2>2
<1>3. CASE ListDone
  <2>1. fn \notin Obsolete => elems' = {}
    BY <1>3 DEF ListDone, ListInv, Pending
  <2>2. QED
    BY <1>3, <2>1 DEF ListDone, Return, ListInv, ReleasedOnSuccess
<1>4. CASE UNCHANGED vars
  BY <1>4 DEF vars, ListInv, Pending, ReleasedOnSuccess
<1>5. QED
  BY <1>1, <1>2, <1>3, <1>4 DEF Next

(* Every record of every array example is used while it, and the array   *)
(* that holds it, are still allocated.                                     *)
THEOREM NoUseAfterDeallocThm == Spec => []NoUseAfterDealloc
<1>1. ListInv => NoUseAfterDealloc
  BY DEF ListInv, Pending, NoUseAfterDealloc
<1>2. QED
  BY <1>1, InitListInv, NextListInv, PTL DEF Spec

(* Every DW_DLV_OK return of an array example the documentation        *)
(* supports has freed the array and every record, by the bulk dealloc or  *)
(* record by record.                                                       *)
THEOREM ReleasedOnSuccessThm == Spec => []ReleasedOnSuccess
<1>1. ListInv => ReleasedOnSuccess
  BY DEF ListInv
<1>2. QED
  BY <1>1, InitListInv, NextListInv, PTL DEF Spec

=============================================================================
