------------------------------ MODULE MCBookSync ------------------------------
(***************************************************************************)
(* One level that is there or not, three sequence numbers and a restart:   *)
(* enough for a hole, a gap, a snapshot behind or ahead of the buffer and  *)
(* a delta of the run before.  That levels do not interfere is proved, for *)
(* any number of them, in BookSyncProofs.                                  *)
(***************************************************************************)
EXTENDS BookSync

MCQuantity == 0..1
==============================================================================
