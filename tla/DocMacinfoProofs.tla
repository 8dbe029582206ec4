---------------------------- MODULE DocMacinfoProofs ----------------------------
(***************************************************************************)
(* Proof that examplep2 frees every list dwarf_get_macro_details hands    *)
(* over before it calls it again or returns, for every section length and *)
(* every way of cutting the section into blocks (DocMacinfo).              *)
(*                                                                         *)
(* The property is inductive as it stands: a call that succeeds moves to  *)
(* a loop over its entries ("firstuse", "scanuse"), one that fails leaves  *)
(* live as it was before the call, where it was false, and the only step  *)
(* out of an entry loop frees the list.                                    *)
(***************************************************************************)
EXTENDS DocMacinfo, TLAPS

LEMMA NextListFreed ==
  ListFreedBeforeNextCall /\ [Next]_vars => ListFreedBeforeNextCall'
<1> SUFFICES ASSUME ListFreedBeforeNextCall, [Next]_vars
             PROVE  ListFreedBeforeNextCall'
  OBVIOUS
<1>1. CASE FirstDetails
  BY <1>1 DEF FirstDetails, Details, ListFreedBeforeNextCall
<1>2. CASE ScanDetails
  BY <1>2 DEF ScanDetails, Details, ListFreedBeforeNextCall
<1>3. CASE FirstUse
  BY <1>3 DEF FirstUse, ListFreedBeforeNextCall
<1>4. CASE ScanUse
  BY <1>4 DEF ScanUse, ListFreedBeforeNextCall
<1>5. CASE UNCHANGED vars
  BY <1>5 DEF vars, ListFreedBeforeNextCall
<1>6. QED
  BY <1>1, <1>2, <1>3, <1>4, <1>5 DEF Next

(* No maclist is still allocated when examplep2 calls                     *)
(* dwarf_get_macro_details again or returns: each is freed after its      *)
(* entries are read, on the CU's block and on every block of the walk.    *)
THEOREM ListFreedBeforeNextCallThm == Spec => []ListFreedBeforeNextCall
<1>1. Init => ListFreedBeforeNextCall
  BY DEF Init, ListFreedBeforeNextCall
<1>2. QED
  BY <1>1, NextListFreed, PTL DEF Spec

=============================================================================
