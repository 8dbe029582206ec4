----------------------------- MODULE DocRangeLists -----------------------------
(***************************************************************************)
(* The DWARF5 range-list examples of doc/checkexamples.c:                 *)
(* example_raw_rnglist walks every rnglist context of .debug_rnglists:    *)
(* its offset array, then its range-list entries (RLEs) from              *)
(* offset_of_first_rangeentry to offset_past_last_rangeentry, by          *)
(* curoffset += entrylen.  example_rnglist_for_attribute reads the        *)
(* entries of one attribute's range list through a Dwarf_Rnglists_Head,   *)
(* which it must give back with dwarf_dealloc_rnglists_head.              *)
(*                                                                         *)
(* The library's answers are chosen when a call first asks for them.     *)
(* Every index is asked for once, except that an RLE walk that stopped   *)
(* advancing would ask for the same offset again: the answers for RLE     *)
(* offsets are kept in rle, so that the library answers the same way      *)
(* again, as it does on the same bytes.  Offsets are relative to          *)
(* offset_of_first_rangeentry.                                             *)
(***************************************************************************)
EXTENDS DwarfApiDefs, TLC

CONSTANTS
  MaxCount,    \* the largest count of contexts or of entries
  MaxOffsets,  \* the largest offset_entry_count
  MaxSpan,     \* the largest offset_past_last_rangeentry - first
  RleLengths   \* the entrylen an RLE may have

(* Every RLE has a code byte, so dwarf_get_rnglist_rle gives a non-zero  *)
(* entrylen.                                                               *)
ASSUME RangeListsAssumption ==
  /\ MaxCount \in Nat /\ MaxOffsets \in Nat /\ MaxSpan \in Nat
  /\ RleLengths \subseteq Nat \ {0}

Fns == {"example_raw_rnglist", "example_rnglist_for_attribute"}

(* What dwarf_get_rnglist_rle answers: an entry length, or RleFailed for *)
(* a call that does not return DW_DLV_OK (no entry length is 0).          *)
RleFailed == 0
RleAnswers == RleLengths \cup {RleFailed}

VARIABLES
  fn,      \* the example being run
  pc,      \* "start", "ctx", "offs", "rles", "entries" or "returned"
  result,  \* the value returned
  count,   \* count of contexts, or entries_count
  i,       \* the context or entry index
  e,       \* index into the offset array
  offs,    \* offset_entry_count of the context
  cur,     \* curoffset
  endoff,  \* endoffset
  rle,     \* the RLE answers the library has given, by <<context, offset>>
  head     \* TRUE while rnglhead is allocated

vars == <<fn, pc, result, count, i, e, offs, cur, endoff, rle, head>>

Init ==
  /\ fn \in Fns
  /\ pc = "start"
  /\ result = OK
  /\ count = 0 /\ i = 0 /\ e = 0 /\ offs = 0 /\ cur = 0 /\ endoff = 0
  /\ rle = <<>>
  /\ head = FALSE

Return(r) == pc' = "returned" /\ result' = r

-----------------------------------------------------------------------------
(* example_raw_rnglist                                                    *)

(* dwarf_load_rnglists: the number of contexts, or return its result.    *)
LoadRnglists ==
  /\ fn = "example_raw_rnglist" /\ pc = "start"
  /\ \/ \E r \in {NO_ENTRY, ERROR} : Return(r) /\ UNCHANGED count
     \/ \E n \in 0..MaxCount : count' = n /\ pc' = "ctx" /\ UNCHANGED result
  /\ UNCHANGED <<fn, i, e, offs, cur, endoff, rle, head>>

(* dwarf_get_rnglist_context_basics(dbg, i): the sizes of context i, or  *)
(* return the failure.                                                     *)
ContextBasics ==
  /\ pc = "ctx" /\ i < count
  /\ \/ Return(ERROR) /\ UNCHANGED <<e, offs, endoff>>
     \/ \E n \in 0..MaxOffsets, s \in 0..MaxSpan :
          /\ offs' = n /\ endoff' = s /\ e' = 0
          /\ pc' = "offs"
          /\ UNCHANGED result
  /\ cur' = 0
  /\ UNCHANGED <<fn, count, i, rle, head>>

ContextsDone ==
  /\ fn = "example_raw_rnglist" /\ pc = "ctx" /\ i >= count
  /\ Return(OK)
  /\ UNCHANGED <<fn, count, i, e, offs, cur, endoff, rle, head>>

(* dwarf_get_rnglist_offset_index_value(dbg, i, e).                       *)
OffsetValue ==
  /\ pc = "offs" /\ e < offs
  /\ \/ Return(ERROR) /\ UNCHANGED e
     \/ e' = e + 1 /\ UNCHANGED <<pc, result>>
  /\ UNCHANGED <<fn, count, i, offs, cur, endoff, rle, head>>

OffsetsDone ==
  /\ pc = "offs" /\ e >= offs
  /\ pc' = "rles"
  /\ UNCHANGED <<fn, result, count, i, e, offs, cur, endoff, rle, head>>

(* The answer for the RLE at curoffset: the one given before, if any.    *)
RleAnswer(a) ==
  IF <<i, cur>> \in DOMAIN rle
  THEN a = rle[<<i, cur>>] /\ UNCHANGED rle
  ELSE rle' = rle @@ (<<i, cur>> :> a)

(* Mutant: the walk never adds entrylen to curoffset.                    *)
RleNoAdvance ==
  /\ pc = "rles" /\ cur < endoff
  /\ \E a \in RleAnswers :
       /\ RleAnswer(a)
       /\ \/ a = RleFailed /\ Return(ERROR)
          \/ a # RleFailed /\ UNCHANGED <<pc, result>>
  /\ UNCHANGED <<fn, count, i, e, offs, cur, endoff, head>>

(* dwarf_get_rnglist_rle(dbg, i, curoffset, endoffset): return a failure; *)
(* else curoffset += entrylen, and an entry that runs past endoffset      *)
(* returns DW_DLV_ERROR.                                                   *)
Rle ==
  /\ pc = "rles" /\ cur < endoff
  /\ \E a \in RleAnswers :
       /\ RleAnswer(a)
       /\ \/ a = RleFailed /\ Return(ERROR) /\ UNCHANGED cur
          \/ /\ a # RleFailed
             /\ cur' = cur + a
             /\ IF cur + a > endoff THEN Return(ERROR) ELSE UNCHANGED <<pc, result>>
  /\ UNCHANGED <<fn, count, i, e, offs, endoff, head>>

RlesDone ==
  /\ pc = "rles" /\ cur >= endoff
  /\ i' = i + 1 /\ pc' = "ctx"
  /\ UNCHANGED <<fn, result, count, e, offs, cur, endoff, rle, head>>

-----------------------------------------------------------------------------
(* example_rnglist_for_attribute                                          *)

(* dwarf_rnglists_get_rle_head: the head and entries_count, or return.   *)
GetRleHead ==
  /\ fn = "example_rnglist_for_attribute" /\ pc = "start"
  /\ \/ \E r \in {NO_ENTRY, ERROR} : Return(r) /\ UNCHANGED <<count, head>>
     \/ \E n \in 0..MaxCount :
          count' = n /\ head' = TRUE /\ pc' = "entries" /\ UNCHANGED result
  /\ UNCHANGED <<fn, i, e, offs, cur, endoff, rle>>

(* Mutant: a failing dwarf_get_rnglists_entry_fields_a returns without   *)
(* dwarf_dealloc_rnglists_head.                                            *)
RleEntryNoDealloc ==
  /\ pc = "entries" /\ i < count
  /\ \/ Return(ERROR) /\ UNCHANGED <<i, head>>
     \/ Return(OK) /\ head' = FALSE /\ UNCHANGED i
     \/ i' = i + 1 /\ UNCHANGED <<pc, result, head>>
  /\ UNCHANGED <<fn, count, e, offs, cur, endoff, rle>>

(* dwarf_get_rnglists_entry_fields_a(rnglhead, i): a failure deallocs    *)
(* the head and returns it; DW_RLE_end_of_list breaks out of the loop,    *)
(* to the dealloc and return DW_DLV_OK; any other code (a base address,  *)
(* an unavailable address or a real range) goes on with the next entry.   *)
RleEntry ==
  /\ pc = "entries" /\ i < count
  /\ \/ head' = FALSE /\ Return(ERROR) /\ UNCHANGED i
     \/ head' = FALSE /\ Return(OK) /\ UNCHANGED i
     \/ i' = i + 1 /\ UNCHANGED <<pc, result, head>>
  /\ UNCHANGED <<fn, count, e, offs, cur, endoff, rle>>

(* The loop ends: dwarf_dealloc_rnglists_head, return DW_DLV_OK.         *)
EntriesDone ==
  /\ pc = "entries" /\ i >= count
  /\ head' = FALSE /\ Return(OK)
  /\ UNCHANGED <<fn, count, i, e, offs, cur, endoff, rle>>

Next ==
  \/ LoadRnglists \/ ContextBasics \/ ContextsDone
  \/ OffsetValue \/ OffsetsDone \/ Rle \/ RlesDone
  \/ GetRleHead \/ RleEntry \/ EntriesDone

(* The examples are sequential code: each keeps running until it returns. *)
Spec == Init /\ [][Next]_vars /\ WF_vars(Next)

-----------------------------------------------------------------------------
(* example_rnglist_for_attribute gives rnglhead back on every return,     *)
(* through the break at DW_RLE_end_of_list and the failure path alike.    *)
HeadReleasedOnReturn == pc = "returned" => ~head

(* Each example returns: the RLE walk ends because every entry moves      *)
(* curoffset forward and an entry past endoffset is an error.             *)
Terminates == <>(pc = "returned")

=============================================================================
