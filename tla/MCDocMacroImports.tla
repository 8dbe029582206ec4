-------------------------- MODULE MCDocMacroImports --------------------------
(* Three macro units (model values u1..u3), the CU's being u1, of up to two *)
(* operators each: enough for a chain, a diamond, a cycle back to the CU's *)
(* own unit, a unit importing itself and a failure after an import.      *)
EXTENDS DocMacroImports

CONSTANTS u1, u2, u3

MCUnits == {u1, u2, u3}
MCPrimary == u1
MCMaxOps == 2
(* dwarf_get_macro_context_by_offset on an offset an import names finds  *)
(* the unit or fails on malformed data.                                    *)
MCByOffsetFound == {OK, ERROR}
(* Any of the three results, as every libdwarf call may return.          *)
MCByOffsetAny == Results

=============================================================================
