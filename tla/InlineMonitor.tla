---------------------------- MODULE InlineMonitor ----------------------------
(***************************************************************************)
(* The monitor at work: the step-over machine (HookStep) and the pending   *)
(* table (PendingTable) driven by a guest whose threads enter the kernel   *)
(* through the entry hook, block there, are switched, and leave through    *)
(* the return hook, on any vCPU.                                           *)
(*                                                                         *)
(* A context is a pairing key in use: a thread with its stack and its      *)
(* return address.  It makes one call at a time.                           *)
(***************************************************************************)
EXTENDS HookStep, PendingTable

CONSTANT MaxCalls   \* bound on the calls issued

ASSUME MaxCallsAssumption == MaxCalls \in Nat

VARIABLES phase,     \* context -> "app", "entry", "kernel" or "ret"
          callOf,    \* context -> its call, when not in "app"
          on,        \* vCPU -> the context at the hook it stands on
          nextCall,  \* identity of the next call
          running    \* FALSE after RUN_STATE_SHUTDOWN

guestVars == <<phase, callOf, on, nextCall, running>>
vars == <<hookVars, tableVars, guestVars>>

InFlight(k) == phase[k] # "app"

MonitorTypeOK ==
  /\ TypeOK
  /\ TableTypeOK
  /\ phase \in [Keys -> {"app", "entry", "kernel", "ret"}]
  /\ callOf \in [Keys -> Nat]
  /\ on \in [Vcpus -> Keys]
  /\ nextCall \in Calls
  /\ running \in BOOLEAN

MonitorInit ==
  /\ Init
  /\ TableInit
  /\ phase = [k \in Keys |-> "app"]
  /\ callOf = [k \in Keys |-> 0]
  /\ on \in {[v \in Vcpus |-> k] : k \in Keys}
  /\ nextCall = 1
  /\ running = TRUE

-----------------------------------------------------------------------------
(***************************************************************************)
(* The guest's system call path.                                           *)
(***************************************************************************)
Arrive(v, k, h) ==
  /\ ReachHook(v, h)
  /\ on' = [on EXCEPT ![v] = k]
  /\ phase' = [phase EXCEPT ![k] = h]
  /\ UNCHANGED <<tableVars, running>>

Issue(v, k) ==
  /\ phase[k] = "app" /\ nextCall <= MaxCalls
  /\ Arrive(v, k, "entry")
  /\ callOf' = [callOf EXCEPT ![k] = nextCall]
  /\ nextCall' = nextCall + 1

\* The kernel is done with k's call and vCPU v is to take it back to the
\* application: through the return hook, if there is one.
ComeBack(v, k) ==
  /\ phase[k] = "kernel" /\ RetCapture
  /\ Arrive(v, k, "ret")
  /\ UNCHANGED <<callOf, nextCall>>

\* The call is over without the monitor hearing of it: its thread is gone,
\* or no return hook is configured.
Vanish(k) ==
  /\ fate = "ok" /\ phase[k] = "kernel"
  /\ phase' = [phase EXCEPT ![k] = "app"]
  /\ UNCHANGED <<hookVars, tableVars, callOf, on, nextCall, running>>

TrapAtHook(v) == FetchInt3(v) /\ UNCHANGED <<tableVars, guestVars>>

PassHook(v) ==
  /\ Execute(v)
  /\ phase' = [phase EXCEPT ![on[v]] =
                 IF at[v] = "entry" THEN "kernel" ELSE "app"]
  /\ UNCHANGED <<tableVars, callOf, on, nextCall, running>>

-----------------------------------------------------------------------------
(***************************************************************************)
(* The handlers.                                                           *)
(***************************************************************************)
\* (Faulty variant: the entry is held although no return will release it.)
HandleEntryHeld(k, c) == HoldEntry(k, c)

HandleEntry(k, c) == IF RetCapture THEN HoldEntry(k, c) ELSE LogEntryOnly(c)

\* vmi_monitor_breakpoint_hit(): record first, then step over.
BreakpointHit(v) ==
  /\ StartStepOver(v)
  /\ IF at[v] = "ret" THEN HandleReturn(on[v], callOf[on[v]])
                      ELSE HandleEntry(on[v], callOf[on[v]])
  /\ UNCHANGED guestVars

StepDone(v) == StepComplete(v) /\ UNCHANGED <<tableVars, guestVars>>
UpdateVcpus(v) == CallGoesOn(v) /\ UNCHANGED <<tableVars, guestVars>>
Unclaimed(v) == NotClaimed(v) /\ UNCHANGED <<tableVars, guestVars>>

\* vmi_vm_state_change(): the vCPUs have been stopped, each after handling
\* the exit it was in, before the notifier runs.
Shutdown ==
  /\ fate = "ok" /\ \A v \in Vcpus : trap[v] = "none"
  /\ FlushPending("shutdown")
  /\ running' = FALSE
  /\ UNCHANGED <<hookVars, phase, callOf, on, nextCall>>

Proceed(v) == \/ TrapAtHook(v) \/ PassHook(v)
              \/ BreakpointHit(v) \/ StepDone(v) \/ Unclaimed(v)
              \/ UpdateVcpus(v)

MonitorNext ==
  /\ running
  /\ \/ \E v \in Vcpus : \/ \E k \in Keys : Issue(v, k) \/ ComeBack(v, k)
                         \/ Proceed(v)
     \/ \E k \in Keys : Vanish(k)
     \/ Shutdown

\* As in HookStep: a vCPU at a hook, or out of the guest, goes on.
MonitorFairness == \A v \in Vcpus : WF_vars(running /\ Proceed(v))

MonitorSpec == MonitorInit /\ [][MonitorNext]_vars
FairMonitorSpec == MonitorSpec /\ MonitorFairness

-----------------------------------------------------------------------------
\* Without a return hook (the mode before Phase 8) nothing is held, and the
\* log has the guest's calls in the order issued; one whose int3 could not be
\* taken out is repeated (vmi-syscall-monitor.c:650), but none comes late.
EntryOnlyInOrder ==
  ~RetCapture =>
    /\ pending = {}
    /\ \A i, j \in DOMAIN log : i < j => log[i].call <= log[j].call

\* A vCPU that reaches a hook gets past it ("guest is not stuck",
\* vmi-syscall-monitor.c:651) unless the guest is shut down.
GuestNotStuck ==
  \A v \in Vcpus : (at[v] # NoHook) ~> (at[v] = NoHook \/ ~running)

(***************************************************************************)
(* On one vCPU and without faults the hooks are transparent: the table     *)
(* sees every entry and every return, once, in order.                      *)
(***************************************************************************)
\* Has the monitor recorded the arrival at the hook k stands on?
Recorded(k) == \E v \in Vcpus : at[v] # NoHook /\ on[v] = k /\ seen[v]

LiveCalls ==
  {[key |-> k, call |-> callOf[k]] :
     k \in {x \in Keys : \/ phase[x] = "kernel"
                         \/ phase[x] = "entry" /\ Recorded(x)
                         \/ phase[x] = "ret" /\ ~Recorded(x)}}

Unrecorded == {k \in Keys : phase[k] = "entry" /\ ~Recorded(k)}

Pairing == INSTANCE SyscallPairing WITH
             live <- LiveCalls,
             nextCall <- nextCall - Cardinality(Unrecorded)

ImplementsPairing == Pairing!Spec
=============================================================================
