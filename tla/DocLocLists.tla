------------------------------ MODULE DocLocLists ------------------------------
(***************************************************************************)
(* The three location-list examples of doc/checkexamples.c:               *)
(* example_loclistcv5 (a location list of an attribute, every entry and   *)
(* every operator of it), example_locexprc (a single location expression  *)
(* built from bytes) and examplea (the entries of a list read until the   *)
(* library says there are no more).                                        *)
(*                                                                         *)
(* One call of one example is a behaviour; fn says which.  The handles the *)
(* caller owns are in live: the Dwarf_Loc_Head_c ("head") and a           *)
(* Dwarf_Error ("error") that a failing call stored in the local error.   *)
(*                                                                         *)
(* The library is deterministic: what each call returns is a function of *)
(* the attribute's data, chosen in Init.  Since every example stops at    *)
(* the first failing call, the data is the counts and the index of the    *)
(* first entry (entryErr) and of the first operator of each entry (opErr) *)
(* that the library cannot read; an index equal to the count means none.  *)
(* The descriptor values themselves are left out: no decision of the      *)
(* examples depends on them.                                              *)
(***************************************************************************)
EXTENDS DwarfApiDefs

CONSTANT MaxCount   \* largest entry or operator count the library returns

ASSUME MaxCountAssumption == MaxCount \in Nat \ {0}

Examples == {"example_loclistcv5", "example_locexprc", "examplea"}
Idx == 0..MaxCount
Entries == 0..(MaxCount - 1)

VARIABLES
  fn,        \* the example being run
  pc,        \* "start", "entry", "op", "final" or "returned"
  live,      \* the handles the example holds
  i,         \* index of the location description
  j,         \* index of the operator (i of the loop in example_locexprc)
  headRes,   \* what dwarf_get_loclist_c / dwarf_loclist_from_expr_c return
  count,     \* lcount, ulistlen or loc_count
  entryErr,  \* first entry dwarf_get_locdesc_entry_d fails on
  pastEnd,   \* what it returns for an index at or past the count
  opCount,   \* the operator count of each entry
  opErr      \* first operator dwarf_get_location_op_value_d fails on

data == <<headRes, count, entryErr, pastEnd, opCount, opErr>>
vars == <<fn, pc, live, i, j, data>>

TypeOK ==
  /\ fn \in Examples
  /\ pc \in {"start", "entry", "op", "final", "returned"}
  /\ live \subseteq {"head", "error"}
  /\ i \in Idx
  /\ j \in Idx
  /\ headRes \in Results
  /\ count \in Idx
  /\ entryErr \in Idx
  /\ pastEnd \in {NO_ENTRY, ERROR}
  /\ opCount \in [Entries -> Idx]
  /\ opErr \in [Entries -> Idx]

(* The data of a location list.  A location expression                   *)
(* (example_locexprc) has exactly one entry.                              *)
Init ==
  /\ fn \in Examples
  /\ pc = "start"
  /\ live = {}
  /\ i = 0 /\ j = 0
  /\ headRes \in Results
  /\ count \in IF fn = "example_locexprc" THEN {1} ELSE Idx
  /\ entryErr \in 0..count
  /\ pastEnd \in IndexedResults(count, count)
  /\ opCount \in [Entries -> Idx]
  /\ opErr \in {f \in [Entries -> Idx] : \A k \in Entries : f[k] <= opCount[k]}

(* What dwarf_get_locdesc_entry_d returns for index k, and                *)
(* dwarf_get_location_op_value_d for operator j of entry i: OK or ERROR   *)
(* below the count (IndexedResults), the index past the end otherwise.    *)
EntryResult(k) ==
  IF k >= count THEN pastEnd ELSE IF k = entryErr THEN ERROR ELSE OK
OpResult == IF j = opErr[i] THEN ERROR ELSE OK

(* A failing call leaves an error object in the local error. *)
Failed(r) == IF r = ERROR THEN live \cup {"error"} ELSE live

(* dwarf_get_loclist_c, or dwarf_loclist_from_expr_c in example_locexprc: *)
(* on success the caller holds a head.  A failure goes to the common      *)
(* cleanup in example_loclistcv5 and returns at once in the two others.   *)
GetHead ==
  /\ pc = "start"
  /\ \/ /\ headRes = OK
        /\ live' = live \cup {"head"}
        /\ pc' = "entry"
     \/ /\ headRes # OK
        /\ live' = Failed(headRes)
        /\ pc' = IF fn = "example_loclistcv5" THEN "final" ELSE "returned"
  /\ UNCHANGED <<fn, i, j, data>>

(* Releasing the head on an early return. *)
ReleaseAndReturn(r) ==
  /\ live' = Failed(r) \ {"head"}
  /\ pc' = "returned"

(* dwarf_get_locdesc_entry_d(head, i) in example_loclistcv5: a failure   *)
(* frees the head and the error and returns.                             *)
Cv5Entry ==
  /\ fn = "example_loclistcv5" /\ pc = "entry" /\ i < count
  /\ \/ /\ EntryResult(i) = OK
        /\ j' = 0
        /\ pc' = "op"
        /\ UNCHANGED <<live, i>>
     \/ /\ EntryResult(i) # OK
        /\ live' = live \ {"head", "error"}
        /\ pc' = "returned"
        /\ UNCHANGED <<i, j>>
  /\ UNCHANGED <<fn, data>>

Cv5EntriesDone ==
  /\ fn = "example_loclistcv5" /\ pc = "entry" /\ i >= count
  /\ pc' = "final"
  /\ UNCHANGED <<fn, live, i, j, data>>

(* Mutant: the operator loop of example_loclistcv5 frees the head on a   *)
(* failure but goes on to the next operator instead of returning.        *)
Cv5OpNoReturn ==
  /\ fn = "example_loclistcv5" /\ pc = "op" /\ j < opCount[i]
  /\ \/ /\ OpResult = OK
        /\ j' = j + 1
        /\ UNCHANGED <<pc, live>>
     \/ /\ OpResult # OK
        /\ live' = live \ {"head", "error"}
        /\ j' = j + 1
        /\ UNCHANGED pc
  /\ UNCHANGED <<fn, i, data>>

(* dwarf_get_location_op_value_d(locdesc_entry, j) in                     *)
(* example_loclistcv5: a failure frees the error and the head and returns. *)
Cv5Op ==
  /\ fn = "example_loclistcv5" /\ pc = "op" /\ j < opCount[i]
  /\ \/ /\ OpResult = OK
        /\ j' = j + 1
        /\ UNCHANGED <<pc, live>>
     \/ /\ OpResult # OK
        /\ live' = live \ {"head", "error"}
        /\ pc' = "returned"
        /\ UNCHANGED j
  /\ UNCHANGED <<fn, i, data>>

Cv5OpsDone ==
  /\ fn = "example_loclistcv5" /\ pc = "op" /\ j >= opCount[i]
  /\ i' = i + 1
  /\ pc' = "entry"
  /\ UNCHANGED <<fn, live, j, data>>

(* The common exit of example_loclistcv5: dealloc the error if there is  *)
(* one, then the head (a null head is accepted).                          *)
Cv5Final ==
  /\ fn = "example_loclistcv5" /\ pc = "final"
  /\ live' = {}
  /\ pc' = "returned"
  /\ UNCHANGED <<fn, i, j, data>>

(* example_locexprc: entry 0 of the expression, whose operators are then *)
(* read one by one; every failure frees the head and returns.            *)
ExprEntry ==
  /\ fn = "example_locexprc" /\ pc = "entry"
  /\ \/ /\ EntryResult(0) = OK
        /\ j' = 0
        /\ pc' = "op"
        /\ UNCHANGED live
     \/ /\ EntryResult(0) # OK
        /\ ReleaseAndReturn(EntryResult(0))
        /\ UNCHANGED j
  /\ UNCHANGED <<fn, i, data>>

(* Mutant: example_locexprc returns on a failing operator without        *)
(* dwarf_loc_head_c_dealloc(head).                                        *)
ExprOpNoRelease ==
  /\ fn = "example_locexprc" /\ pc = "op" /\ j < opCount[i]
  /\ \/ /\ OpResult = OK
        /\ j' = j + 1
        /\ UNCHANGED <<pc, live>>
     \/ /\ OpResult # OK
        /\ live' = Failed(OpResult)
        /\ pc' = "returned"
        /\ UNCHANGED j
  /\ UNCHANGED <<fn, i, data>>

ExprOp ==
  /\ fn = "example_locexprc" /\ pc = "op" /\ j < opCount[i]
  /\ \/ /\ OpResult = OK
        /\ j' = j + 1
        /\ UNCHANGED <<pc, live>>
     \/ /\ OpResult # OK
        /\ ReleaseAndReturn(OpResult)
        /\ UNCHANGED j
  /\ UNCHANGED <<fn, i, data>>

ExprOpsDone ==
  /\ fn = "example_locexprc" /\ pc = "op" /\ j >= opCount[i]
  /\ live' = live \ {"head"}
  /\ pc' = "returned"
  /\ UNCHANGED <<fn, i, j, data>>

(* Mutant: the loop of examplea forgets ++i and reads entry 0 forever.   *)
AEntryNoAdvance ==
  /\ fn = "examplea" /\ pc = "entry"
  /\ \/ /\ EntryResult(i) = OK
        /\ UNCHANGED <<pc, live, i>>
     \/ /\ EntryResult(i) = ERROR
        /\ ReleaseAndReturn(ERROR)
        /\ UNCHANGED i
     \/ /\ EntryResult(i) = NO_ENTRY
        /\ live' = live \ {"head"}
        /\ pc' = "returned"
        /\ UNCHANGED i
  /\ UNCHANGED <<fn, j, data>>

(* examplea: for (i = 0; ; ++i) until the library has no entry i.       *)
AEntry ==
  /\ fn = "examplea" /\ pc = "entry"
  /\ \/ /\ EntryResult(i) = OK
        /\ i' = i + 1
        /\ UNCHANGED <<pc, live>>
     \/ /\ EntryResult(i) = ERROR
        /\ ReleaseAndReturn(ERROR)
        /\ UNCHANGED i
     \/ /\ EntryResult(i) = NO_ENTRY
        /\ live' = live \ {"head"}
        /\ pc' = "returned"
        /\ UNCHANGED i
  /\ UNCHANGED <<fn, j, data>>

Next ==
  \/ GetHead
  \/ Cv5Entry \/ Cv5EntriesDone \/ Cv5Op \/ Cv5OpsDone \/ Cv5Final
  \/ ExprEntry \/ ExprOp \/ ExprOpsDone
  \/ AEntry

(* The examples are sequential code: each keeps running until it returns. *)
Spec == Init /\ [][Next]_vars /\ WF_vars(Next)

-----------------------------------------------------------------------------
(* Properties.                                                             *)

(* Every return of the three examples has released the location head      *)
(* ("Before any return remember to call dwarf_loc_head_c_dealloc"), and   *)
(* example_loclistcv5, which frees its errors, leaves no error behind.     *)
HandlesReleasedOnReturn ==
  pc = "returned" =>
    /\ "head" \notin live
    /\ fn = "example_loclistcv5" => live = {}

(* No entry or operator of a location list is read after the head that   *)
(* owns it has been released.                                             *)
NoUseAfterRelease ==
  pc \in {"entry", "op"} => "head" \in live

(* Every call of an example returns: the loops over entries and          *)
(* operators are bounded by the counts the library returned, and the     *)
(* open loop of examplea ends when the library has no entry i.            *)
Terminates == <>(pc = "returned")

=============================================================================
