--------------------------- MODULE MCElfSectionGroups ---------------------------
(***************************************************************************)
(* Section tables for model checking ElfSectionGroups.  Section 0 is the   *)
(* SHT_NULL header every ELF table starts with; each of the other sections *)
(* is one of the candidates below.  A group's words are its flag word and *)
(* its member words, as they read on a little-endian host.                 *)
(***************************************************************************)
EXTENDS ElfSectionGroups

MCCount == 4

\* GRP_COMDAT as written by a producer of the other byte order.
SwappedComdat == 16777216
\* A word whose two readings are both far out of range.
Garbage == 83886085

DataSec(stem, dwo, shf) ==
  [type |-> "SHT_PROGBITS", name |-> [stem |-> stem, dwo |-> dwo],
   shfGroup |-> shf, size |-> 0, entsize |-> 0, words |-> << >>, io |-> "ok"]

Bss == [DataSec("*", FALSE, FALSE) EXCEPT !.type = "SHT_NOBITS"]

(* An SHT_GROUP section holding the given words. *)
GroupSec(words) ==
  [type |-> "SHT_GROUP", name |-> [stem |-> ".group", dwo |-> FALSE],
   shfGroup |-> FALSE, size |-> 4 * Len(words), entsize |-> 4,
   words |-> words, io |-> "ok"]

DataChoices ==
  { DataSec(".debug_*", FALSE, TRUE),   \* .debug_info in a COMDAT group
    DataSec(".debug_*", TRUE, FALSE),   \* .debug_info.dwo
    DataSec("*", FALSE, TRUE),          \* .text in a COMDAT group
    Bss }

(* Well-formed COMDAT groups listing one or two of sections 1..3, a group *)
(* with no member, one written in the other byte order, one recognised by *)
(* its name only, and one whose size has a trailing byte.                  *)
GoodGroupChoices ==
  {GroupSec(<<1>> \o m) : m \in [1..1 -> 1..3] \cup [1..2 -> 1..3]}
  \cup { GroupSec(<<1>>),
         GroupSec(<<SwappedComdat, Swap32(2)>>),
         [GroupSec(<<1, 3>>) EXCEPT !.type = "SHT_PROGBITS"],
         [GroupSec(<<1, 2>>) EXCEPT !.size = 9] }

(* One malformed or unreadable group section per error path. *)
BadGroupChoices ==
  { [GroupSec(<< >>) EXCEPT !.size = 2],
    [GroupSec(<<1, 2>>) EXCEPT !.io = "dataAllocFails"],
    [GroupSec(<<1, 2>>) EXCEPT !.entsize = 8],
    GroupSec(<<1, 1, 2, 3, 3>>),
    [GroupSec(<<1, 2>>) EXCEPT !.io = "readFails"],
    [GroupSec(<<1, 2>>) EXCEPT !.io = "arrayAllocFails"],
    GroupSec(<<0, 2>>),
    GroupSec(<<1, 0>>),
    GroupSec(<<1, Garbage>>) }

MCSectionChoices == DataChoices \cup GoodGroupChoices \cup BadGroupChoices

(* Groups that name the slot one past the table, in either byte order. *)
TableEndChoices ==
  { GroupSec(<<1, MCCount>>),
    GroupSec(<<1, Swap32(MCCount)>>),
    DataSec(".debug_*", FALSE, TRUE) }

MCHeapJunk == {0}
MCHeapJunkAny == {0, 1}

=============================================================================
