--------------------------- MODULE SyscallPairing ---------------------------
(***************************************************************************)
(* The pending table against its guest: threads issue calls, block, are    *)
(* switched, return in any order, or never return (exit_group, a killed    *)
(* thread, a reset), and every entry and return reaches its hook.          *)
(* InlineMonitor adds the hooks, where one may be missed.                  *)
(***************************************************************************)
EXTENDS PendingTable

CONSTANT MaxCalls   \* bound on the calls issued

ASSUME MaxCallsAssumption == MaxCalls \in Nat

VARIABLES live,      \* calls inside the kernel that can still return
          nextCall,  \* identity of the next call
          running    \* FALSE between RUN_STATE_SHUTDOWN and a reset

vars == <<pending, pendingSeq, log, live, nextCall, running>>

TypeOK ==
  /\ TableTypeOK
  /\ live \subseteq [key : Keys, call : Calls]
  /\ nextCall \in Calls
  /\ running \in BOOLEAN

Init ==
  /\ TableInit
  /\ live = {}
  /\ nextCall = 1
  /\ running = TRUE

\* Two calls in flight never share a key: the stacks of two threads differ.
\* A key is reused as soon as its call has returned or its thread is gone.
Enter(k) ==
  /\ running /\ nextCall <= MaxCalls
  /\ \A l \in live : l.key # k
  /\ HoldEntry(k, nextCall)
  /\ live' = live \cup {[key |-> k, call |-> nextCall]}
  /\ nextCall' = nextCall + 1
  /\ UNCHANGED running

Return(l) ==
  /\ running
  /\ HandleReturn(l.key, l.call)
  /\ live' = live \ {l}
  /\ UNCHANGED <<nextCall, running>>

\* The call will never return; the monitor is not told.
Abandon(l) ==
  /\ running
  /\ live' = live \ {l}
  /\ UNCHANGED <<pending, pendingSeq, log, nextCall, running>>

\* vmi_vm_state_change(running = false, RUN_STATE_SHUTDOWN)
Shutdown ==
  /\ running
  /\ FlushPending("shutdown")
  /\ running' = FALSE
  /\ UNCHANGED <<live, nextCall>>

\* system_reset, of a running or a shut down guest: all of its calls are
\* gone, the monitor's table stays as it is.
Reset ==
  /\ ~running \/ live # {}
  /\ live' = {}
  /\ running' = TRUE
  /\ UNCHANGED <<pending, pendingSeq, log, nextCall>>

Next ==
  \/ \E k \in Keys : Enter(k)
  \/ \E l \in live : Return(l) \/ Abandon(l)
  \/ Shutdown
  \/ Reset

Spec == Init /\ [][Next]_vars

-----------------------------------------------------------------------------
Issued == 1..(nextCall - 1)

\* No call disappears: it is held, or it has its line.
NothingLost ==
  \A c \in Issued : \/ \E p \in pending : p.call = c
                    \/ \E i \in DOMAIN log : log[i].call = c

\* A call in flight is given up only for want of room: its entry is held
\* under its key, or was evicted; it is never taken for superseded.
LiveKept ==
  running =>
    \A l \in live :
      \/ \E p \in pending : p.key = l.key /\ p.call = l.call
      \/ \E i \in DOMAIN log : log[i].call = l.call /\ log[i].kind = "evicted"

\* An eviction picks the oldest: whatever is held is younger than every
\* evicted call, and PendingMax younger calls were issued by then.
EvictedOldest ==
  \A i \in DOMAIN log :
    log[i].kind = "evicted" =>
      /\ \A p \in pending : log[i].call < p.call
      /\ log[i].call + PendingMax < nextCall

\* The reader's view of the log.
Strace == INSTANCE StraceLog WITH issued <- nextCall - 1, log <- log
ImplementsStraceLog == Strace!Spec
=============================================================================
