---------------------------- MODULE MCDocLocLists ----------------------------
(* The location-list examples with lists of up to two entries of up to   *)
(* two operators each: enough for a failure at the first and at a later  *)
(* entry and operator, and for an empty list.                            *)
EXTENDS DocLocLists

MCMaxCount == 2

=============================================================================
