------------------------------ MODULE StraceLog ------------------------------
(***************************************************************************)
(* What the monitor's log promises its reader, who uses it as an strace of *)
(* the guest: the log only grows, a line is about a call the guest has     *)
(* issued, a call gets at most one line, and a return value printed on a   *)
(* line is that call's own.                                                *)
(***************************************************************************)
EXTENDS Naturals, Sequences

VARIABLES issued,   \* number of calls issued so far: calls are 1..issued
          log       \* lines written

Init == issued = 0 /\ log = << >>

Added == (Len(log) + 1)..Len(log')

Truthful(i) ==
  /\ log'[i].call \in 1..issued'
  /\ log'[i].kind = "value" => log'[i].ret = log'[i].call

Fresh(i) == \A j \in 1..Len(log') : j # i => log'[j].call # log'[i].call

\* The guest may issue a call, and some lines may be written.
Step ==
  /\ issued' \in {issued, issued + 1}
  /\ Len(log') >= Len(log)
  /\ \A i \in 1..Len(log) : log'[i] = log[i]
  /\ \A i \in Added : Truthful(i) /\ Fresh(i)

Spec == Init /\ [][Step]_<<issued, log>>
=============================================================================
