---------------------------- MODULE DocCallerBuffers ----------------------------
(***************************************************************************)
(* Two examples of doc/checkexamples.c that manage buffers of their own:  *)
(* examplesecgroup, which callocs the three arrays dwarf_sec_group_map    *)
(* fills, and exampledebuglink, which prints the paths                    *)
(* dwarf_gnu_debuglink returns and frees what it was given.               *)
(*                                                                         *)
(* The data is chosen in Init: the results of the libdwarf calls, whether *)
(* each calloc returns memory, group_map_entry_count, and the lengths     *)
(* exampledebuglink loops over.  What the loops print or read is left     *)
(* out; printed records which entries of paths were printed.              *)
(***************************************************************************)
EXTENDS DwarfApiDefs

CONSTANTS
  Fns,        \* the examples run
  MaxEntries, \* the largest group_map_entry_count
  MaxBuildId, \* the largest buildid_length
  MaxPaths    \* the largest paths_count

Buffers == {"sec_nums", "group_nums", "sec_names"}

(* The crc of .gnu_debuglink is four bytes: for (i = 0; i < 4; ++i).     *)
CrcLength == 4

VARIABLES
  fn,          \* the example being run
  pc,          \* the point reached
  heap,        \* the caller's calloc'd buffers not yet freed
  i,           \* the loop index (shared by the loops of exampledebuglink)
  printed,     \* the indices of paths printed
  sizesRes,    \* what dwarf_sec_group_sizes returns
  entryCount,  \* group_map_entry_count
  callocOk,    \* whether calloc of each buffer returns memory
  mapRes,      \* what dwarf_sec_group_map returns
  linkRes,     \* what dwarf_gnu_debuglink returns
  hasFullpath, \* debuglink_fullpath_strlen # 0
  buildIdLen,  \* buildid_length
  pathsCount   \* paths_count

data == <<sizesRes, entryCount, callocOk, mapRes, linkRes, hasFullpath, buildIdLen, pathsCount>>
vars == <<fn, pc, heap, i, printed, data>>

(* calloc(0, ...) may return NULL or memory; any calloc may fail.         *)
Init ==
  /\ fn \in Fns
  /\ pc = "start"
  /\ heap = {}
  /\ i = 0
  /\ printed = {}
  /\ sizesRes \in Results
  /\ entryCount \in 0..MaxEntries
  /\ callocOk \in [Buffers -> BOOLEAN]
  /\ mapRes \in Results
  /\ linkRes \in Results
  /\ hasFullpath \in BOOLEAN
  /\ buildIdLen \in 0..MaxBuildId
  /\ pathsCount \in 0..MaxPaths

Goto(p) == pc' = p

-----------------------------------------------------------------------------
(* examplesecgroup                                                        *)

(* dwarf_sec_group_sizes: on failure return.                              *)
SecGroupSizes ==
  /\ fn = "examplesecgroup" /\ pc = "start"
  /\ Goto(IF sizesRes = OK THEN "sec_nums" ELSE "returned")
  /\ UNCHANGED <<fn, heap, i, printed, data>>

(* sec_nums = calloc(...): on NULL return.                                *)
CallocSecNums ==
  /\ pc = "sec_nums"
  /\ \/ /\ callocOk["sec_nums"]
        /\ heap' = heap \cup {"sec_nums"} /\ Goto("group_nums")
     \/ /\ ~callocOk["sec_nums"]
        /\ Goto("returned") /\ UNCHANGED heap
  /\ UNCHANGED <<fn, i, printed, data>>

(* group_nums = calloc(...): on NULL free(group_nums), which is the NULL *)
(* just returned, and return.                                              *)
CallocGroupNums ==
  /\ pc = "group_nums"
  /\ \/ /\ callocOk["group_nums"]
        /\ heap' = heap \cup {"group_nums"} /\ Goto("sec_names")
     \/ /\ ~callocOk["group_nums"]
        /\ heap' = heap \ {"group_nums"} /\ Goto("returned")
  /\ UNCHANGED <<fn, i, printed, data>>

(* sec_names = calloc(...): on NULL free the two others and return.       *)
CallocSecNames ==
  /\ pc = "sec_names"
  /\ \/ /\ callocOk["sec_names"]
        /\ heap' = heap \cup {"sec_names"} /\ Goto("map")
     \/ /\ ~callocOk["sec_names"]
        /\ heap' = heap \ {"group_nums", "sec_nums"} /\ Goto("returned")
  /\ UNCHANGED <<fn, i, printed, data>>

(* dwarf_sec_group_map: a failure ("FAIL. Something badly wrong.") does  *)
(* not leave the normal path.                                              *)
SecGroupMap ==
  /\ pc = "map"
  /\ Goto("entries") /\ i' = 0
  /\ UNCHANGED <<fn, heap, printed, data>>

SecGroupEntry ==
  /\ pc = "entries" /\ i < entryCount
  /\ i' = i + 1
  /\ UNCHANGED <<fn, pc, heap, printed, data>>

(* free(group_nums); free(sec_nums); free(sec_names).                     *)
SecGroupFree ==
  /\ pc = "entries" /\ i >= entryCount
  /\ heap' = {} /\ Goto("returned")
  /\ UNCHANGED <<fn, i, printed, data>>

-----------------------------------------------------------------------------
(* exampledebuglink                                                       *)

(* dwarf_add_debuglink_global_path, whose failure is ignored, then        *)
(* dwarf_gnu_debuglink: on ERROR or NO_ENTRY return.                      *)
GnuDebuglink ==
  /\ fn = "exampledebuglink" /\ pc = "start"
  /\ Goto(IF linkRes = OK THEN "crc" ELSE "returned")
  /\ UNCHANGED <<fn, heap, i, printed, data>>

(* if (debuglink_fullpath_strlen) print the path and                      *)
(* for (i = 0; i < 4; ++i) the crc bytes.                                 *)
CrcStart ==
  /\ pc = "crc"
  /\ \/ /\ hasFullpath /\ i' = 0 /\ Goto("crcbytes")
     \/ /\ ~hasFullpath /\ Goto("buildid") /\ UNCHANGED i
  /\ UNCHANGED <<fn, heap, printed, data>>

CrcByte ==
  /\ pc = "crcbytes"
  /\ \/ /\ i < CrcLength /\ i' = i + 1 /\ UNCHANGED pc
     \/ /\ i >= CrcLength /\ Goto("buildid") /\ UNCHANGED i
  /\ UNCHANGED <<fn, heap, printed, data>>

(* if (buildid_length) for (i = 0; i < buildid_length; ++i) the bytes.  *)
BuildIdStart ==
  /\ pc = "buildid"
  /\ \/ /\ buildIdLen # 0 /\ i' = 0 /\ Goto("buildidbytes")
     \/ /\ buildIdLen = 0 /\ Goto("paths") /\ UNCHANGED i
  /\ UNCHANGED <<fn, heap, printed, data>>

BuildIdByte ==
  /\ pc = "buildidbytes"
  /\ \/ /\ i < buildIdLen /\ i' = i + 1 /\ UNCHANGED pc
     \/ /\ i >= buildIdLen /\ Goto("paths") /\ UNCHANGED i
  /\ UNCHANGED <<fn, heap, printed, data>>

(* for ( ; i < paths_count; ++i) print paths[i].                          *)
PathLine ==
  /\ pc = "paths" /\ i < pathsCount
  /\ printed' = printed \cup {i}
  /\ i' = i + 1
  /\ UNCHANGED <<fn, pc, heap, data>>

(* free(debuglink_fullpath); free(paths).                                 *)
DebuglinkFree ==
  /\ pc = "paths" /\ i >= pathsCount
  /\ Goto("returned")
  /\ UNCHANGED <<fn, heap, i, printed, data>>

Next ==
  \/ SecGroupSizes \/ CallocSecNums \/ CallocGroupNums \/ CallocSecNames
  \/ SecGroupMap \/ SecGroupEntry \/ SecGroupFree
  \/ GnuDebuglink \/ CrcStart \/ CrcByte \/ BuildIdStart \/ BuildIdByte
  \/ PathLine \/ DebuglinkFree

Spec == Init /\ [][Next]_vars /\ WF_vars(Next)

-----------------------------------------------------------------------------
(* examplesecgroup frees every buffer it callocs, on the out-of-memory    *)
(* paths ("FAIL. out of memory") as on the normal one.                    *)
BuffersFreedOnReturn == pc = "returned" => heap = {}

(* When dwarf_gnu_debuglink succeeds, exampledebuglink prints every one  *)
(* of the paths_count possible paths ("Possible paths count %u").         *)
AllPathsPrinted ==
  (pc = "returned" /\ fn = "exampledebuglink" /\ linkRes = OK) =>
    printed = 0..(pathsCount - 1)

=============================================================================
