----------------------------- MODULE DocLineTables -----------------------------
(***************************************************************************)
(* The line-table examples of doc/checkexamples.c: examplec (the file     *)
(* list and the lines of a one-level table, or the two-level tables) and  *)
(* exampled (the lines of a table).  Both get a Dwarf_Line_Context from    *)
(* dwarf_srclines_b, which the caller must give back with                 *)
(* dwarf_srclines_dealloc_b; the line buffer and the file data belong to  *)
(* the context.                                                            *)
(*                                                                         *)
(* The line-table data is chosen in Init, as the library reads it: the    *)
(* results of the calls, table_count, the number of files                 *)
(* (endindex - baseindex) and the first that cannot be read, and the      *)
(* line count.  The loop over the lines of exampled advances the pointer  *)
(* line, which nothing else reads; the model keeps its offset from       *)
(* linebuf up to LineBound.                                                *)
(***************************************************************************)
EXTENDS DwarfApiDefs

CONSTANTS
  Fns,        \* the examples run
  MaxCount,   \* the largest file and line count
  LineBound   \* the largest offset of line from linebuf the model follows

ASSUME LineTablesAssumption ==
  /\ Fns \subseteq {"examplec", "exampled"}
  /\ MaxCount \in Nat
  /\ LineBound \in Nat

Counts == 0..MaxCount

VARIABLES
  fn,          \* the example being run
  pc,          \* "start", "table", "files", "lines", "use" or "returned"
  ctx,         \* the line context: "none", "live" or "freed"
  deallocs,    \* calls of dwarf_srclines_dealloc_b made
  result,      \* the value returned
  i,           \* the loop index
  line,        \* line - linebuf in exampled
  srcRes,      \* what dwarf_srclines_b returns
  tableCount,  \* table_count
  idxRes,      \* what dwarf_srclines_files_indexes returns
  fileCount,   \* endindex - baseindex
  fileErr,     \* first file dwarf_srclines_files_data_b fails on
  linesRes,    \* what dwarf_srclines_from_linecontext returns
  lineCount,   \* linecount
  twoRes       \* what dwarf_srclines_two_level_from_linecontext returns

data == <<srcRes, tableCount, idxRes, fileCount, fileErr, linesRes, lineCount, twoRes>>
vars == <<fn, pc, ctx, deallocs, result, i, line, data>>

TypeOK ==
  /\ fn \in Fns
  /\ pc \in {"start", "table", "files", "lines", "use", "returned"}
  /\ ctx \in {"none", "live", "freed"}
  /\ deallocs \in Nat
  /\ result \in Results
  /\ i \in Counts
  /\ line \in 0..LineBound
  /\ srcRes \in Results
  /\ tableCount \in {0, 1, 2}
  /\ idxRes \in Results
  /\ fileCount \in Counts
  /\ fileErr \in Counts
  /\ linesRes \in Results
  /\ lineCount \in Counts
  /\ twoRes \in Results

(* A one-level table (table_count 1), none (0), or the experimental      *)
(* two-level tables (2).                                                  *)
Init ==
  /\ fn \in Fns
  /\ pc = "start"
  /\ ctx = "none"
  /\ deallocs = 0
  /\ result = OK
  /\ i = 0 /\ line = 0
  /\ srcRes \in Results
  /\ tableCount \in {0, 1, 2}
  /\ idxRes \in Results
  /\ fileCount \in Counts
  /\ fileErr \in 0..fileCount
  /\ linesRes \in Results
  /\ lineCount \in Counts
  /\ twoRes \in Results

(* dwarf_srclines_dealloc_b(line_context).                               *)
Dealloc ==
  /\ ctx' = "freed"
  /\ deallocs' = deallocs + 1

Return(r) == pc' = "returned" /\ result' = r

(* dwarf_srclines_b: on failure "No memory was allocated so there        *)
(* nothing to dealloc", and the example returns the result.               *)
SrclinesB ==
  /\ pc = "start"
  /\ \/ /\ srcRes # OK
        /\ Return(srcRes)
        /\ UNCHANGED ctx
     \/ /\ srcRes = OK
        /\ ctx' = "live"
        /\ pc' = IF fn = "examplec" THEN "table" ELSE "lines"
        /\ UNCHANGED result
  /\ UNCHANGED <<fn, deallocs, i, line, data>>

(* Mutant: the OK case of the two-level tables falls through into the    *)
(* cleanup of the NO_ENTRY case (a dropped else).                          *)
CTwoLevelNoElse ==
  /\ fn = "examplec" /\ pc = "table" /\ tableCount = 2
  /\ ctx' = "freed"
  /\ deallocs' = deallocs + IF twoRes = OK THEN 2 ELSE 1
  /\ Return(OK)
  /\ UNCHANGED <<fn, i, line, data>>

(* examplec with two-level tables: whatever                               *)
(* dwarf_srclines_two_level_from_linecontext returns, the context is      *)
(* freed and examplec returns DW_DLV_OK.                                  *)
CTwoLevel ==
  /\ fn = "examplec" /\ pc = "table" /\ tableCount = 2
  /\ \/ twoRes = OK
     \/ twoRes = NO_ENTRY
     \/ twoRes = ERROR
  /\ Dealloc /\ Return(OK)
  /\ UNCHANGED <<fn, i, line, data>>

(* examplec on table_count 0 (no table: free the context, return OK) or *)
(* 1, a one-level table whose file list is read first                    *)
(* (dwarf_srclines_files_indexes, returning on failure).                  *)
CTable ==
  /\ fn = "examplec" /\ pc = "table"
  /\ \/ /\ tableCount = 0
        /\ Dealloc /\ Return(OK)
        /\ UNCHANGED i
     \/ /\ tableCount = 1 /\ idxRes # OK
        /\ Return(idxRes)
        /\ UNCHANGED <<ctx, deallocs, i>>
     \/ /\ tableCount = 1 /\ idxRes = OK
        /\ pc' = "files" /\ i' = 0
        /\ UNCHANGED <<ctx, deallocs, result>>
  /\ UNCHANGED <<fn, line, data>>

(* for (i = baseindex; i < endindex; i++): dwarf_srclines_files_data_b,  *)
(* returning its result when it fails.                                    *)
CFile ==
  /\ fn = "examplec" /\ pc = "files" /\ i < fileCount
  /\ \/ /\ i = fileErr
        /\ Return(ERROR)
        /\ UNCHANGED i
     \/ /\ i # fileErr
        /\ i' = i + 1
        /\ UNCHANGED <<pc, result>>
  /\ UNCHANGED <<fn, ctx, deallocs, line, data>>

CFilesDone ==
  /\ fn = "examplec" /\ pc = "files" /\ i >= fileCount
  /\ pc' = "lines"
  /\ UNCHANGED <<fn, ctx, deallocs, result, i, line, data>>

(* Mutant: a failing dwarf_srclines_from_linecontext frees the context   *)
(* but the example goes on to the loop over the lines.                     *)
FromLinecontextNoReturn ==
  /\ pc = "lines"
  /\ \/ /\ linesRes # OK
        /\ Dealloc
        /\ pc' = "use" /\ i' = 0
        /\ UNCHANGED result
     \/ /\ linesRes = OK
        /\ pc' = "use" /\ i' = 0
        /\ UNCHANGED <<ctx, deallocs, result>>
  /\ UNCHANGED <<fn, line, data>>

(* dwarf_srclines_from_linecontext, in both examples: on failure free    *)
(* the context and return the result.                                     *)
FromLinecontext ==
  /\ pc = "lines"
  /\ \/ /\ linesRes # OK
        /\ Dealloc /\ Return(linesRes)
        /\ UNCHANGED i
     \/ /\ linesRes = OK
        /\ pc' = "use" /\ i' = 0
        /\ UNCHANGED <<ctx, deallocs, result>>
  /\ UNCHANGED <<fn, line, data>>

(* examplec: for (i = 0; i < linecount; ++i) use linebuf[i].            *)
CUseLine ==
  /\ fn = "examplec" /\ pc = "use" /\ i < lineCount
  /\ i' = i + 1
  /\ UNCHANGED <<fn, pc, ctx, deallocs, result, line, data>>

CLinesDone ==
  /\ fn = "examplec" /\ pc = "use" /\ i >= lineCount
  /\ Dealloc /\ Return(OK)
  /\ UNCHANGED <<fn, i, line, data>>

(* exampled: for (i = 0; i < count; ++line) use line.  The loop advances *)
(* line, not i.                                                            *)
DUseLine ==
  /\ fn = "exampled" /\ pc = "use" /\ i < lineCount
  /\ line < LineBound
  /\ line' = line + 1
  /\ UNCHANGED <<fn, pc, ctx, deallocs, result, i, data>>

DLinesDone ==
  /\ fn = "exampled" /\ pc = "use" /\ i >= lineCount
  /\ Dealloc /\ Return(OK)
  /\ UNCHANGED <<fn, i, line, data>>

Next ==
  \/ SrclinesB \/ CTable \/ CTwoLevel \/ CFile \/ CFilesDone
  \/ FromLinecontext \/ CUseLine \/ CLinesDone
  \/ DUseLine \/ DLinesDone

(* The examples are sequential code: each keeps running until it returns. *)
Spec == Init /\ [][Next]_vars /\ WF_vars(Next)

-----------------------------------------------------------------------------
(* The file data and the line buffer, which belong to the line context,  *)
(* are read only while the context is allocated: never after              *)
(* dwarf_srclines_dealloc_b.                                               *)
NoUseAfterDealloc == pc \in {"files", "use"} => ctx = "live"

(* dwarf_srclines_dealloc_b is called at most once for the context       *)
(* dwarf_srclines_b gave, on every path of both examples.                 *)
DeallocOnce == deallocs = IF ctx = "freed" THEN 1 ELSE 0

(* Each example returns.                                                  *)
Terminates == <>(pc = "returned")

=============================================================================
