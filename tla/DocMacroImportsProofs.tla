------------------------ MODULE DocMacroImportsProofs ------------------------
(***************************************************************************)
(* Proofs about the import walk of examplep5 (DocMacroImports), for every  *)
(* set of macro units and every operator list.                             *)
(*                                                                         *)
(* ContextReleased is inductive as it stands.  ImportsExamined is not: it  *)
(* speaks only of an OK return, and holds there because of what the walk   *)
(* keeps true at the top of its loop.  The strengthening WalkInv says that *)
(* every unit read to the end (the CU's own and every examined one) has    *)
(* put all its imports into the list, and that the unit being read has put *)
(* those of its first k operators.  At an OK return from                   *)
(* has_unchecked_import_in_list the list is inside examined, so examined  *)
(* is import-closed and holds the CU's imports, and ImportedUnits, the     *)
(* least such set, is inside it.                                           *)
(*                                                                         *)
(* The walk reads a unit to the end only when                              *)
(* dwarf_get_macro_context_by_offset finds it: ImportsExamined is proved   *)
(* under the hypothesis that it never answers DW_DLV_NO_ENTRY, which is    *)
(* the hypothesis of the run macro_ref.  The run macro_noentry shows the   *)
(* property fails without it.                                              *)
(***************************************************************************)
EXTENDS DocMacroImports, SequenceTheorems, TLAPS

(* The imports among the first n operators of unit u. *)
ImportsUpTo(u, n) == {ops[u][p] : p \in {q \in 1..n : ops[u][q] # "bad"}}

(* Every unit of S has put all its imports into the list. *)
ReadToEnd(S) == \A u \in S : ImportsOf(u) \subseteq list

TypeInv ==
  /\ pc \in {"start", "next", "ops", "returned"}
  /\ cur \in Units
  /\ k \in Nat
  /\ list \subseteq Units
  /\ examined \subseteq Units
  /\ byRes \in [Units -> ByOffsetResults]
  /\ ops \in [Units -> OpLists]

WalkInv ==
  /\ TypeInv
  /\ pc = "start" => examined = {}
  /\ pc = "next" => primaryRes = OK /\ ReadToEnd(examined \cup {Primary})
  /\ pc = "ops" =>
       /\ primaryRes = OK
       /\ cur \in examined \cup {Primary}
       /\ ReadToEnd((examined \cup {Primary}) \ {cur})
       /\ k <= Len(ops[cur])
       /\ \A p \in 1..k : ops[cur][p] # "bad"
       /\ ImportsUpTo(cur, k) \subseteq list
  /\ (pc = "returned" /\ result = OK /\ primaryRes = OK) =>
       /\ ReadToEnd(examined \cup {Primary})
       /\ list \subseteq examined

-----------------------------------------------------------------------------
(* Lemmas about the operator lists.                                        *)

(* An operator list is a sequence of operator kinds of at most MaxOps.    *)
LEMMA OpListsSeq ==
  ASSUME NEW s \in OpLists
  PROVE  /\ s \in Seq(OpKinds)
         /\ Len(s) \in 0..MaxOps
<1>1. MaxOps \in Nat
  BY UnitsAssumption
<1>2. PICK n \in 0..MaxOps : s \in [1..n -> OpKinds]
  BY DEF OpLists
<1>3. s \in Seq(OpKinds)
  BY <1>1, <1>2, SeqDef
<1>4. DOMAIN s = 1..Len(s) /\ Len(s) \in Nat
  BY <1>3, LenProperties
<1>5. Len(s) = n
  BY <1>1, <1>2, <1>4
<1>6. QED
  BY <1>3, <1>5

(* The operator at index k of a list longer than k is an import of a    *)
(* unit or an unreadable operator.                                         *)
LEMMA CurOpKind ==
  ASSUME TypeInv, k < Len(ops[cur])
  PROVE  CurOp \in Units \cup {"bad"}
<1>1. ops[cur] \in Seq(OpKinds)
  BY OpListsSeq DEF TypeInv
<1>2. ops[cur] \in [1..Len(ops[cur]) -> OpKinds] /\ Len(ops[cur]) \in Nat
  BY <1>1, LenProperties
<1>3. k + 1 \in 1..Len(ops[cur])
  BY <1>2 DEF TypeInv
<1>4. QED
  BY <1>2, <1>3 DEF CurOp, OpKinds

(* The imports among the first k + 1 operators, when operator k + 1 is   *)
(* readable.                                                               *)
LEMMA ImportsUpToNext ==
  ASSUME NEW u, NEW n \in Nat, ops[u][n + 1] # "bad"
  PROVE  ImportsUpTo(u, n + 1) = ImportsUpTo(u, n) \cup {ops[u][n + 1]}
  BY DEF ImportsUpTo

(* Every import-closed set of units that holds the CU's direct imports   *)
(* holds every imported unit.                                              *)
LEMMA LeastClosed ==
  ASSUME NEW S \in SUBSET Units,
         ImportsOf(Primary) \subseteq S, ImportClosed(S)
  PROVE  ImportedUnits \subseteq S
  BY DEF ImportedUnits

-----------------------------------------------------------------------------
(* ContextReleased                                                         *)

LEMMA NextContextReleased == ContextReleased /\ [Next]_vars => ContextReleased'
<1> SUFFICES ASSUME ContextReleased, [Next]_vars PROVE ContextReleased'
  OBVIOUS
<1>1. CASE PrimaryContext \/ ImportsDone \/ MacroOp \/ OpsDone
  BY <1>1 DEF PrimaryContext, AfterContextCall, ImportsDone, MacroOp, OpsDone,
              ContextReleased
<1>2. CASE ByOffsetContext
  BY <1>2 DEF ByOffsetContext, AfterContextCall, ContextReleased
<1>3. CASE UNCHANGED vars
  BY <1>3 DEF vars, ContextReleased
<1>4. QED
  BY <1>1, <1>2, <1>3 DEF Next

(* A macro context is allocated only while examplep5 reads its           *)
(* operators: every path out of the operator loop, the failing            *)
(* dwarf_get_macro_op included, deallocates it first.                     *)
THEOREM ContextReleasedThm == Spec => []ContextReleased
<1>1. Init => ContextReleased
  BY DEF Init, ContextReleased
<1>2. QED
  BY <1>1, NextContextReleased, PTL DEF Spec

-----------------------------------------------------------------------------
(* ImportsExamined                                                         *)

(* The hypothesis of the theorem: an offset an import names is found or    *)
(* its reading fails.                                                      *)
ByOffsetFinds == NO_ENTRY \notin ByOffsetResults

LEMMA InitWalkInv == Init => WalkInv
<1> SUFFICES ASSUME Init PROVE WalkInv
  OBVIOUS
<1>1. Primary \in Units
  BY UnitsAssumption
<1>2. QED
  BY <1>1 DEF Init, WalkInv, TypeInv

(* Adding to the list keeps every unit read to the end. *)
LEMMA ReadToEndGrows ==
  ASSUME NEW S, ReadToEnd(S), list \subseteq list', ops' = ops
  PROVE  ReadToEnd(S)'
  BY DEF ReadToEnd, ImportsOf

LEMMA NextWalkInv ==
  ASSUME ByOffsetFinds
  PROVE  WalkInv /\ [Next]_vars => WalkInv'
<1> SUFFICES ASSUME WalkInv, [Next]_vars PROVE WalkInv'
  OBVIOUS
<1> DEFINE Read == examined \cup {Primary}
<1>0. /\ Primary \in Units
      /\ ByOffsetResults \subseteq {OK, NO_ENTRY, ERROR}
  BY UnitsAssumption DEF Results
<1>1. CASE PrimaryContext
  <2>1. pc = "start" /\ examined = {} /\ examined' = examined /\ list' = list
        /\ ops' = ops /\ byRes' = byRes /\ primaryRes' = primaryRes
    BY <1>1 DEF PrimaryContext, WalkInv, data
  <2>2. CASE primaryRes = OK
    <3>1. pc' = "ops" /\ cur' = Primary /\ k' = 0
      BY <1>1, <2>2 DEF PrimaryContext, AfterContextCall, OK, ERROR, NO_ENTRY
    <3>2. Len(ops[Primary]) \in Nat
      BY <1>0, OpListsSeq, LenProperties DEF WalkInv, TypeInv
    <3>3. QED
      BY <1>0, <2>1, <2>2, <3>1, <3>2
         DEF WalkInv, TypeInv, ReadToEnd, ImportsUpTo
  <2>3. CASE primaryRes # OK
    <3>1. pc' = "returned" /\ cur' = cur /\ k' = k
      BY <1>1, <2>3 DEF PrimaryContext, AfterContextCall
    <3>2. QED
      BY <2>1, <2>3, <3>1 DEF WalkInv, TypeInv
  <2>4. QED
    BY <2>2, <2>3
<1>2. CASE ByOffsetContext
  <2>1. PICK u \in list \ examined :
          /\ AfterContextCall(byRes[u], u)
          /\ examined' = examined \cup {u}
    BY <1>2 DEF ByOffsetContext
  <2>2. /\ pc = "next" /\ list' = list /\ ops' = ops /\ byRes' = byRes
        /\ primaryRes' = primaryRes /\ u \in Units
    BY <1>2 DEF ByOffsetContext, WalkInv, TypeInv, data
  <2>3. primaryRes = OK /\ ReadToEnd(Read)
    BY <2>2 DEF WalkInv
  <2>4. CASE byRes[u] = OK
    <3>1. pc' = "ops" /\ cur' = u /\ k' = 0
      BY <2>1, <2>4 DEF AfterContextCall, OK, ERROR, NO_ENTRY
    <3>2. Len(ops[u]) \in Nat
      BY <2>2, OpListsSeq, LenProperties DEF WalkInv, TypeInv
    <3>3. ReadToEnd((examined \cup {Primary}) \ {cur})'
      BY <2>1, <2>2, <2>3, <3>1 DEF ReadToEnd, ImportsOf
    <3>4. QED
      BY <2>1, <2>2, <2>3, <3>1, <3>2, <3>3 DEF WalkInv, TypeInv, ImportsUpTo
  <2>5. CASE byRes[u] # OK
    <3>1. byRes[u] = ERROR
      BY <1>0, <2>2, <2>5, ByOffsetFinds DEF WalkInv, TypeInv, ByOffsetFinds
    <3>2. pc' = "returned" /\ result' = ERROR /\ cur' = cur /\ k' = k
      BY <2>1, <3>1 DEF AfterContextCall, OK, ERROR
    <3>3. QED
      BY <2>1, <2>2, <3>2 DEF WalkInv, TypeInv, OK, ERROR
  <2>6. QED
    BY <2>4, <2>5
<1>3. CASE ImportsDone
  BY <1>3 DEF ImportsDone, WalkInv, TypeInv, ReadToEnd, ImportsOf, data
<1>4. CASE MacroOp
  <2>1. /\ pc = "ops" /\ k < Len(ops[cur])
        /\ cur' = cur /\ examined' = examined /\ ops' = ops /\ byRes' = byRes
        /\ primaryRes' = primaryRes
    BY <1>4 DEF MacroOp, data
  <2>2. CurOp \in Units \cup {"bad"}
    BY <2>1, CurOpKind DEF WalkInv
  <2>3. CASE CurOp = "bad"
    <3>1. pc' = "returned" /\ result' = ERROR /\ k' = k /\ list' = list
      BY <1>4, <2>3 DEF MacroOp
    <3>2. QED
      BY <2>1, <3>1 DEF WalkInv, TypeInv, OK, ERROR
  <2>4. CASE CurOp # "bad"
    <3>1. pc' = "ops" /\ list' = list \cup {CurOp} /\ k' = k + 1
      BY <1>4, <2>4 DEF MacroOp
    <3>2. k \in Nat /\ Len(ops[cur]) \in Nat
      BY <2>1, OpListsSeq, LenProperties DEF WalkInv, TypeInv
    <3>3. ImportsUpTo(cur, k + 1) = ImportsUpTo(cur, k) \cup {CurOp}
      BY <2>4, <3>2, ImportsUpToNext DEF CurOp
    <3>4. ReadToEnd((Read) \ {cur})'
      BY <2>1, <3>1, ReadToEndGrows DEF WalkInv
    <3>5. \A p \in 1..(k + 1) : ops[cur][p] # "bad"
      BY <2>1, <2>4, <3>2 DEF WalkInv, CurOp
    <3>6. QED
      BY <2>1, <2>2, <2>4, <3>1, <3>2, <3>3, <3>4, <3>5
         DEF WalkInv, TypeInv, ImportsUpTo
  <2>5. QED
    BY <2>3, <2>4
<1>5. CASE OpsDone
  <2>1. /\ pc = "ops" /\ k >= Len(ops[cur]) /\ pc' = "next"
        /\ UNCHANGED <<cur, k, list, examined, result, primaryRes, byRes, ops>>
    BY <1>5 DEF OpsDone, data
  <2>2. Len(ops[cur]) \in Nat /\ k \in Nat
    BY <2>1, OpListsSeq, LenProperties DEF WalkInv, TypeInv
  <2>3. ImportsOf(cur) \subseteq list
    BY <2>1, <2>2 DEF WalkInv, ImportsUpTo, ImportsOf
  <2>4. ReadToEnd(Read)
    BY <2>1, <2>3 DEF WalkInv, ReadToEnd
  <2>5. QED
    BY <2>1, <2>4 DEF WalkInv, TypeInv, ReadToEnd, ImportsOf
<1>6. CASE UNCHANGED vars
  BY <1>6 DEF vars, data, WalkInv, TypeInv, ReadToEnd, ImportsOf, ImportsUpTo
<1>7. QED
  BY <1>1, <1>2, <1>3, <1>4, <1>5, <1>6 DEF Next

(* When dwarf_get_macro_context_by_offset finds every offset an import   *)
(* names (or fails on it), an OK return of examplep5 after reading the    *)
(* CU's own macro unit has examined every unit the CU imports, directly   *)
(* or through imported units, for any set of units and any imports,       *)
(* cycles included.                                                       *)
THEOREM ImportsExaminedThm ==
  ASSUME ByOffsetFinds
  PROVE  Spec => []ImportsExamined
<1>1. WalkInv => ImportsExamined
  <2> SUFFICES ASSUME WalkInv, pc = "returned", result = OK, primaryRes = OK
               PROVE  ImportedUnits \subseteq examined
    BY DEF ImportsExamined
  <2>1. ReadToEnd(examined \cup {Primary}) /\ list \subseteq examined
    BY DEF WalkInv
  <2>2. ImportsOf(Primary) \subseteq examined /\ ImportClosed(examined)
    BY <2>1 DEF ReadToEnd, ImportClosed
  <2>3. QED
    BY <2>2, LeastClosed DEF WalkInv, TypeInv
<1>2. QED
  BY <1>1, InitWalkInv, NextWalkInv, PTL DEF Spec

=============================================================================
