------------------------------ MODULE DwarfApiDefs ------------------------------
(***************************************************************************)
(* The libdwarf calls that the examples of doc/checkexamples.c make, seen *)
(* from the caller: each returns DW_DLV_OK, DW_DLV_NO_ENTRY or            *)
(* DW_DLV_ERROR (spec.md, section 7).  The library itself is not under   *)
(* src/; what a call may return is taken from the spec.                   *)
(***************************************************************************)
EXTENDS Naturals

OK == "DW_DLV_OK"
NO_ENTRY == "DW_DLV_NO_ENTRY"
ERROR == "DW_DLV_ERROR"

Results == {OK, NO_ENTRY, ERROR}

(* An accessor taking an index into a list the library returned with its *)
(* count, such as dwarf_get_locdesc_entry_d or dwarf_get_macro_op.  Below *)
(* the count it yields the entry or fails on malformed data; at or past   *)
(* the count there is no entry, which the library reports as NO_ENTRY or  *)
(* as an index ERROR.                                                      *)
IndexedResults(k, count) ==
  IF k < count THEN {OK, ERROR} ELSE {NO_ENTRY, ERROR}

=============================================================================
