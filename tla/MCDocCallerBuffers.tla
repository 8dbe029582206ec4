------------------------- MODULE MCDocCallerBuffers -------------------------
(* Up to two group-map entries; a build id of up to two bytes and up to  *)
(* three paths (dwarf_gnu_debuglink lists the global paths and the paths  *)
(* derived from the debuglink name).                                       *)
EXTENDS DocCallerBuffers

MCSecGroup == {"examplesecgroup"}
MCDebuglink == {"exampledebuglink"}
MCMaxEntries == 2
MCMaxBuildId == 2
MCMaxPaths == 3

=============================================================================
