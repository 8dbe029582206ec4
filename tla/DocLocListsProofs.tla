-------------------------- MODULE DocLocListsProofs --------------------------
(***************************************************************************)
(* Proofs that the three location-list examples of DocLocLists never read *)
(* through a released head and release it on every return, for every      *)
(* MaxCount and every location list.                                       *)
(*                                                                         *)
(* Neither property is inductive alone: a step from "start" adds the head *)
(* to live, so the invariant must know live is empty there; Cv5Final and  *)
(* the failure paths of example_loclistcv5 empty live only because it     *)
(* holds nothing but the head and the error; and the common exit "final"  *)
(* is reached by example_loclistcv5 alone.                                 *)
(***************************************************************************)
EXTENDS DocLocLists, TLAPS

HandleInv ==
  /\ fn \in Examples
  /\ pc \in {"start", "entry", "op", "final", "returned"}
  /\ live \subseteq {"head", "error"}
  /\ pc = "start" => live = {}
  /\ pc = "final" => fn = "example_loclistcv5"
  /\ NoUseAfterRelease
  /\ HandlesReleasedOnReturn

(* An early return releases the head, whatever error it leaves. *)
LEMMA ReleaseDropsHead ==
  ASSUME NEW r, ReleaseAndReturn(r)
  PROVE  /\ "head" \notin live'
         /\ pc' = "returned"
  BY DEF ReleaseAndReturn

LEMMA InitHandleInv == Init => HandleInv
  BY DEF Init, HandleInv, NoUseAfterRelease, HandlesReleasedOnReturn

LEMMA NextHandleInv == HandleInv /\ [Next]_vars => HandleInv'
<1> SUFFICES ASSUME HandleInv, [Next]_vars PROVE HandleInv'
  OBVIOUS
<1> USE DEF HandleInv, NoUseAfterRelease, HandlesReleasedOnReturn
<1>1. CASE GetHead
  <2>1. CASE headRes = OK
    BY <1>1, <2>1 DEF GetHead
  <2>2. CASE headRes # OK
    BY <1>1, <2>2 DEF GetHead, Failed
  <2>3. QED
    BY <2>1, <2>2
<1>2. CASE Cv5Entry
  BY <1>2 DEF Cv5Entry
<1>3. CASE Cv5EntriesDone
  BY <1>3 DEF Cv5EntriesDone
<1>4. CASE Cv5Op
  BY <1>4 DEF Cv5Op
<1>5. CASE Cv5OpsDone
  BY <1>5 DEF Cv5OpsDone
<1>6. CASE Cv5Final
  BY <1>6 DEF Cv5Final
<1>7. CASE ExprEntry
  <2>1. CASE EntryResult(0) = OK
    BY <1>7, <2>1 DEF ExprEntry
  <2>2. CASE EntryResult(0) # OK
    <3>1. ReleaseAndReturn(EntryResult(0)) /\ fn' = fn
      BY <1>7, <2>2 DEF ExprEntry
    <3>2. Failed(EntryResult(0)) \subseteq {"head", "error"}
      BY DEF Failed
    <3>3. QED
      BY <1>7, <3>1, <3>2, ReleaseDropsHead DEF ExprEntry, ReleaseAndReturn
  <2>3. QED
    BY <2>1, <2>2
<1>8. CASE ExprOp
  <2>1. CASE OpResult = OK
    BY <1>8, <2>1 DEF ExprOp
  <2>2. CASE OpResult # OK
    <3>1. ReleaseAndReturn(OpResult) /\ fn' = fn
      BY <1>8, <2>2 DEF ExprOp
    <3>2. Failed(OpResult) \subseteq {"head", "error"}
      BY DEF Failed
    <3>3. QED
      BY <1>8, <3>1, <3>2, ReleaseDropsHead DEF ExprOp, ReleaseAndReturn
  <2>3. QED
    BY <2>1, <2>2
<1>9. CASE ExprOpsDone
  BY <1>9 DEF ExprOpsDone
<1>10. CASE AEntry
  <2>1. CASE EntryResult(i) = OK
    BY <1>10, <2>1 DEF AEntry, OK, ERROR, NO_ENTRY
  <2>2. CASE EntryResult(i) = ERROR
    <3>1. ReleaseAndReturn(ERROR) /\ fn' = fn
      BY <1>10, <2>2 DEF AEntry, OK, ERROR, NO_ENTRY
    <3>2. QED
      BY <1>10, <3>1, ReleaseDropsHead DEF AEntry, ReleaseAndReturn, Failed
  <2>3. CASE EntryResult(i) = NO_ENTRY
    BY <1>10, <2>3 DEF AEntry, OK, ERROR, NO_ENTRY
  <2>4. QED
    BY <2>1, <2>2, <2>3, <1>10 DEF AEntry
<1>11. CASE UNCHANGED vars
  BY <1>11 DEF vars
<1>12. QED
  BY <1>1, <1>2, <1>3, <1>4, <1>5, <1>6, <1>7, <1>8, <1>9, <1>10, <1>11 DEF Next

(* No entry or operator of a location list is read after its head has    *)
(* been released, in any of the three examples and for every MaxCount.   *)
THEOREM NoUseAfterReleaseThm == Spec => []NoUseAfterRelease
<1>1. HandleInv => NoUseAfterRelease
  BY DEF HandleInv
<1>2. QED
  BY <1>1, InitHandleInv, NextHandleInv, PTL DEF Spec

(* Every return of the three examples has released the location head,   *)
(* and example_loclistcv5 returns holding no error object either.         *)
THEOREM HandlesReleasedOnReturnThm == Spec => []HandlesReleasedOnReturn
<1>1. HandleInv => HandlesReleasedOnReturn
  BY DEF HandleInv
<1>2. QED
  BY <1>1, InitHandleInv, NextHandleInv, PTL DEF Spec

=============================================================================
