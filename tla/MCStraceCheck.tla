---------------------------- MODULE MCStraceCheck ----------------------------
(***************************************************************************)
(* Three calls; the captures' tables have two of them.                     *)
(***************************************************************************)
EXTENDS StraceCheck

MCVmiName == [read |-> "read", write |-> "write", rseq |-> "syscall_334"]
=============================================================================
