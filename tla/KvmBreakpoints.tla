--------------------------- MODULE KvmBreakpoints ---------------------------
(***************************************************************************)
(* QEMU 6.2's KVM software breakpoints, as vmi-syscall-monitor.c relies on *)
(* them: a registry with a use count per address and one patched byte of   *)
(* guest memory.  The code is QEMU's (accel/kvm/kvm-all.c and              *)
(* target/i386/kvm/kvm.c), not this repository's, so everything here is    *)
(* external; the repository states the parts it depends on at              *)
(* vmi-syscall-monitor.c:129-134 and docs/phase6_inline_qemu_design.md.    *)
(*                                                                         *)
(* A cell is one address: the byte the guest would fetch there, the use    *)
(* count of its registration (0: not registered) and the byte saved when   *)
(* the registration patched it.                                            *)
(***************************************************************************)
EXTENDS Naturals

Blank == "blank"   \* what RAM holds before the kernel image is loaded
Code  == "code"    \* the kernel's own instruction byte
Int3  == "int3"    \* 0xcc

Bytes == {Blank, Code, Int3}
Cell  == [byte : Bytes, users : Nat, saved : Bytes]

\* What can go wrong inside the two calls and the readback.
FaultKinds == {"insert",   \* kvm_insert_breakpoint() returns an error
               "silent",   \* it returns 0 and the byte did not land
               "read",     \* cpu_memory_rw_debug() fails on the readback
               "remove"}   \* kvm_remove_breakpoint() returns an error

Fresh(b) == [byte |-> b, users |-> 0, saved |-> b]

Registered(c) == c.users > 0   \* kvm_find_sw_breakpoint()

Outcome(c, e) == [cell |-> c, err |-> e]

(***************************************************************************)
(* An address already registered only gets its use count incremented:      *)
(* guest memory is not touched.  Otherwise the byte is saved and patched.  *)
(***************************************************************************)
InsertOutcomes(c, faults) ==
  IF Registered(c)
    THEN {Outcome([c EXCEPT !.users = @ + 1], FALSE)}
    ELSE LET patched == [byte |-> Int3, users |-> 1, saved |-> c.byte]
         IN  {Outcome(patched, FALSE)}
             \cup {Outcome(c, TRUE) : f \in faults \cap {"insert"}}
             \cup {Outcome([patched EXCEPT !.byte = c.byte], FALSE) :
                      f \in faults \cap {"silent"}}

(***************************************************************************)
(* Shared: one user fewer.  Last user: the saved byte goes back, but only  *)
(* where 0xcc still is.  An unknown address is an error (-ENOENT), and so  *)
(* is not getting at the byte.                                             *)
(***************************************************************************)
Removed(c) ==
  IF c.users = 1
    THEN [c EXCEPT !.users = 0, !.byte = IF @ = Int3 THEN c.saved ELSE @]
    ELSE [c EXCEPT !.users = @ - 1]

RemoveOutcomes(c, faults) ==
  IF Registered(c)
    THEN {Outcome(Removed(c), FALSE)}
         \cup {Outcome(c, TRUE) :
                 f \in {x \in faults : x = "remove" /\ c.users = 1}}
    ELSE {Outcome(c, TRUE)}

\* cpu_memory_rw_debug(...) == 0 && readback == 0xcc
ReadbackOutcomes(c, faults) ==
  {c.byte = Int3} \cup {FALSE : f \in faults \cap {"read"}}
=============================================================================
