---------------------------- MODULE MCBootArming ----------------------------
(***************************************************************************)
(* BootArming in the worlds its questions need: inserts and readbacks that *)
(* fail before the kernel is there, or at any time and with a reset; and   *)
(* one where nothing fails. A failing remove is left out: SafeUntilOverlap *)
(* fails with it.                                                          *)
(***************************************************************************)
EXTENDS BootArming

NotPatched == {"insert", "silent", "read"}
Calm      == [early |-> NotPatched, late |-> {}, resets |-> 0]
Failing   == [early |-> NotPatched, late |-> NotPatched, resets |-> 1]
Faultless == [early |-> {}, late |-> {}, resets |-> 0]

AllWorlds == {Calm, Failing}
FaultlessWorld == {Faultless}
=============================================================================
