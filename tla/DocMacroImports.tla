---------------------------- MODULE DocMacroImports ----------------------------
(***************************************************************************)
(* examplep5 of doc/checkexamples.c: the DWARF5 macro unit of a CU is      *)
(* read, and then every macro unit it imports, directly or through other  *)
(* imported units, by offset.  Imported offsets are kept by four          *)
(* functions the caller writes (declared, not defined, at lines           *)
(* 1229-1232): add_offset_to_list, has_unchecked_import_in_list,          *)
(* get_next_import_from_list and mark_this_offset_as_examined.  They are  *)
(* modelled as the set list of offsets added and the set examined of      *)
(* offsets marked; the next import is any added offset not yet marked.    *)
(*                                                                         *)
(* The .debug_macro data is chosen in Init: the operators of each macro   *)
(* unit (an import of a unit, or "bad" for an operator whose reading      *)
(* fails, after which nothing else is read), what                         *)
(* dwarf_get_macro_context returns for the CU, and what                   *)
(* dwarf_get_macro_context_by_offset returns for each offset.  Operators  *)
(* that only define, undefine or start a file change nothing the example  *)
(* keeps, and are left out.                                                *)
(***************************************************************************)
EXTENDS DwarfApiDefs, Sequences, FiniteSets

CONSTANTS
  Units,          \* the offsets of macro units in .debug_macro
  Primary,        \* the offset of the CU's own macro unit
  MaxOps,         \* the largest number_of_ops of a unit
  ByOffsetResults \* what dwarf_get_macro_context_by_offset may return

ASSUME UnitsAssumption ==
  /\ IsFiniteSet(Units)
  /\ Primary \in Units
  /\ MaxOps \in Nat
  /\ ByOffsetResults \subseteq Results

(* An operator as the example sees it: an import of a unit, or one it    *)
(* cannot read.                                                           *)
OpKinds == Units \cup {"bad"}

(* Operator lists of a unit: reading stops at the first failure, so a    *)
(* "bad" operator can only be the last one that matters.                 *)
OpLists ==
  {s \in UNION {[1..n -> OpKinds] : n \in 0..MaxOps} :
     \A p \in 1..Len(s) : s[p] = "bad" => p = Len(s)}

VARIABLES
  pc,         \* "start", "next" (top of the for(;;)), "ops" or "returned"
  cur,        \* macro_unit_offset of the context being read
  k,          \* index of the macro operator
  ctx,        \* TRUE while macro_context is allocated
  list,       \* the offsets add_offset_to_list received
  examined,   \* the offsets mark_this_offset_as_examined received
  result,     \* the value examplep5 returns
  primaryRes, \* what dwarf_get_macro_context returns
  byRes,      \* what dwarf_get_macro_context_by_offset returns per offset
  ops         \* the operators of each unit

data == <<primaryRes, byRes, ops>>
vars == <<pc, cur, k, ctx, list, examined, result, data>>

TypeOK ==
  /\ pc \in {"start", "next", "ops", "returned"}
  /\ cur \in Units
  /\ k \in 0..MaxOps
  /\ ctx \in BOOLEAN
  /\ list \subseteq Units
  /\ examined \subseteq Units
  /\ result \in Results
  /\ primaryRes \in Results
  /\ byRes \in [Units -> ByOffsetResults]
  /\ ops \in [Units -> OpLists]

Init ==
  /\ pc = "start"
  /\ cur = Primary
  /\ k = 0
  /\ ctx = FALSE
  /\ list = {}
  /\ examined = {}
  /\ result = OK
  /\ primaryRes \in Results
  /\ byRes \in [Units -> ByOffsetResults]
  /\ ops \in [Units -> OpLists]

(* After a context call: on OK read its operators, on ERROR return it,    *)
(* on NO_ENTRY break out of the loop ("We are done") and return OK.       *)
AfterContextCall(lres, u) ==
  \/ /\ lres = OK
     /\ pc' = "ops" /\ cur' = u /\ k' = 0 /\ ctx' = TRUE
     /\ UNCHANGED result
  \/ /\ lres # OK
     /\ pc' = "returned"
     /\ result' = IF lres = ERROR THEN ERROR ELSE OK
     /\ UNCHANGED <<cur, k, ctx>>

(* First pass of the for(;;): dwarf_get_macro_context(cu_die, ...).      *)
(* Its offset is not passed to mark_this_offset_as_examined.              *)
PrimaryContext ==
  /\ pc = "start"
  /\ AfterContextCall(primaryRes, Primary)
  /\ UNCHANGED <<list, examined, data>>

(* Mutant: the by-offset read forgets mark_this_offset_as_examined.      *)
ByOffsetContextNoMark ==
  /\ pc = "next"
  /\ \E u \in list \ examined :
       AfterContextCall(byRes[u], u)
  /\ UNCHANGED <<list, examined, data>>

(* Later passes: get_next_import_from_list, then                          *)
(* dwarf_get_macro_context_by_offset, then mark_this_offset_as_examined.  *)
ByOffsetContext ==
  /\ pc = "next"
  /\ \E u \in list \ examined :
       /\ AfterContextCall(byRes[u], u)
       /\ examined' = examined \cup {u}
  /\ UNCHANGED <<list, data>>

(* has_unchecked_import_in_list() is false: break, return DW_DLV_OK.     *)
ImportsDone ==
  /\ pc = "next"
  /\ list \subseteq examined
  /\ pc' = "returned"
  /\ result' = OK
  /\ UNCHANGED <<cur, k, ctx, list, examined, data>>

(* The operator at index k.                                               *)
CurOp == ops[cur][k + 1]

(* Mutant: the DW_MACRO_import case reads the import but leaves out     *)
(* add_offset_to_list, as the DW_MACRO_import_sup case does.              *)
MacroOpNoAdd ==
  /\ pc = "ops" /\ k < Len(ops[cur])
  /\ \/ /\ CurOp = "bad"
        /\ pc' = "returned" /\ ctx' = FALSE /\ result' = ERROR
        /\ UNCHANGED k
     \/ /\ CurOp # "bad"
        /\ k' = k + 1
        /\ UNCHANGED <<pc, ctx, result>>
  /\ UNCHANGED <<cur, list, examined, data>>

(* One pass of for (k = 0; k < number_of_ops; ++k): dwarf_get_macro_op    *)
(* and the call its operator needs.  A failing call deallocates the       *)
(* context and returns its result; DW_MACRO_import adds the offset.       *)
MacroOp ==
  /\ pc = "ops" /\ k < Len(ops[cur])
  /\ \/ /\ CurOp = "bad"
        /\ pc' = "returned" /\ ctx' = FALSE /\ result' = ERROR
        /\ UNCHANGED <<k, list>>
     \/ /\ CurOp # "bad"
        /\ list' = list \cup {CurOp}
        /\ k' = k + 1
        /\ UNCHANGED <<pc, ctx, result>>
  /\ UNCHANGED <<cur, examined, data>>

(* Mutant: the loop goes to the next import without                      *)
(* dwarf_dealloc_macro_context.                                           *)
OpsDoneNoDealloc ==
  /\ pc = "ops" /\ k >= Len(ops[cur])
  /\ pc' = "next"
  /\ UNCHANGED <<cur, k, ctx, list, examined, result, data>>

(* The end of the operator loop: dwarf_dealloc_macro_context.            *)
OpsDone ==
  /\ pc = "ops" /\ k >= Len(ops[cur])
  /\ pc' = "next" /\ ctx' = FALSE
  /\ UNCHANGED <<cur, k, list, examined, result, data>>

Next ==
  \/ PrimaryContext \/ ByOffsetContext \/ ImportsDone
  \/ MacroOp \/ OpsDone

(* examplep5 is sequential code: it keeps running until it returns.      *)
Spec == Init /\ [][Next]_vars /\ WF_vars(Next)

-----------------------------------------------------------------------------
(* The units a unit's operators import.                                    *)
ImportsOf(u) == {ops[u][p] : p \in {q \in 1..Len(ops[u]) : ops[u][q] # "bad"}}

(* A set of units that holds every unit its members import.              *)
ImportClosed(S) == \A u \in S : ImportsOf(u) \subseteq S

(* The units the CU's macro unit imports, directly or through imported   *)
(* units: the least import-closed set that holds its direct imports.      *)
ImportedUnits ==
  {u \in Units :
     \A S \in SUBSET Units :
       (ImportsOf(Primary) \subseteq S /\ ImportClosed(S)) => u \in S}

(* When examplep5 returns DW_DLV_OK after reading the CU's macro unit,    *)
(* every unit the CU imports, directly or through other imports, has been *)
(* read by offset and marked examined: the list has no unexamined offset, *)
(* which is what the example's header says it is for.                     *)
ImportsExamined ==
  (pc = "returned" /\ result = OK /\ primaryRes = OK) =>
    ImportedUnits \subseteq examined

(* When examplep5 returns DW_DLV_OK after reading the CU's macro unit,    *)
(* no offset its list received is left unexamined: the walk is meant to   *)
(* stop only when has_unchecked_import_in_list() says there is none left  *)
(* (the purpose the header of examplep5 states).                          *)
ListExamined ==
  (pc = "returned" /\ result = OK /\ primaryRes = OK) => list \subseteq examined

(* A macro context is allocated only while its operators are read: none  *)
(* is live when the loop goes to the next import or when examplep5        *)
(* returns.                                                               *)
ContextReleased == ctx => pc = "ops"

(* examplep5 returns, even when imports form a cycle: every by-offset    *)
(* pass marks one more offset examined.                                   *)
Terminates == <>(pc = "returned")

=============================================================================
