----------------------------- MODULE MCEventLine -----------------------------
(***************************************************************************)
(* EventLine with the repository's own tables, registers of 11 bits, ints  *)
(* of 10 bits and returns of 4 bits: the greatest number is 441.           *)
(***************************************************************************)
EXTENDS EventLine, SyscallTables

MCReturns == -8..7
=============================================================================
