------------------------------ MODULE MCCleanup --------------------------------
(***************************************************************************)
(* Cleanup for TLC: two or three processes, one marker standing for the    *)
(* eight, one live or abandoned claim inode and one stale final receipt.   *)
(***************************************************************************)
EXTENDS Cleanup
================================================================================
