----------------------------- MODULE BootArming -----------------------------
(***************************************************************************)
(* How the hooks get into guest memory: the 200 ms poller on QEMU's main   *)
(* thread (vmi_try_arm), the boot-sync hook on the vCPU thread             *)
(* (vmi_monitor_kernel_loaded) and the first real hit, which all share the *)
(* timer, the flags and the breakpoint registry.                           *)
(*                                                                         *)
(* The module is about a guest with one vCPU (README, section 6).  The     *)
(* handlers of both threads hold the BQL, but guest code does not: the     *)
(* main thread's arming is one action per breakpoint call, between which   *)
(* the guest runs.  Where such a call patches the byte, QEMU 6.2's         *)
(* kvm_update_guest_debug() goes through run_on_cpu(), which queues the    *)
(* update for the vCPU thread and waits with the BQL released, first for   *)
(* the vCPU thread to serve it and then for the lock.  A vCPU thread       *)
(* calling the same function for itself does not wait.                     *)
(*                                                                         *)
(* A world says what may happen to this QEMU: what may go wrong while      *)
(* arming before ("early") and after ("late") the kernel image is loaded,  *)
(* and how often the guest is reset at most.                               *)
(***************************************************************************)
EXTENDS HookStep

CONSTANTS MaxAttempts,  \* VMI_ARM_MAX_ATTEMPTS
          Worlds        \* what may happen to this QEMU

ASSUME BootAssumption ==
  /\ MaxAttempts \in Nat \ {0}
  /\ Worlds \subseteq [early : SUBSET FaultKinds, late : SUBSET FaultKinds,
                       resets : Nat]

VARIABLES
  world,      \* one of Worlds
  armTimer,   \* vmi_arm_timer: "null", allocated and "idle", or "due"
  attempts,   \* vmi_arm_attempts
  firstHit,   \* vmi_first_hit_seen
  bootSync,   \* vmi_boot_sync_ok
  vm,         \* "stopped", "starting" (notifiers running) or "running"
  loaded,     \* is the kernel image in guest memory?
  op, hook,   \* the main thread's place in vmi_try_arm
  waiting,    \* main thread inside run_on_cpu(), BQL released: for the
              \* "update" to be served, or for the "lock"; else "no"
  overlapped, \* history: did a vCPU handler run during such a wait?
  qemu,       \* "up", or "crashed" on a NULL timer
  resets      \* guest resets so far

armVars  == <<armTimer, attempts, firstHit, bootSync>>
mainVars == <<op, hook, waiting, overlapped>>
hostVars == <<vm, loaded, qemu, resets>>
bootVars == <<world, hookVars, armVars, mainVars, hostVars>>

BootTypeOK ==
  /\ TypeOK
  /\ world \in Worlds
  /\ armTimer \in {"null", "idle", "due"}
  /\ attempts \in 0..MaxAttempts
  /\ firstHit \in BOOLEAN /\ bootSync \in BOOLEAN
  /\ vm \in {"stopped", "starting", "running"}
  /\ loaded \in BOOLEAN
  /\ op \in {"none", "try", "remove", "insert", "verify", "undo", "settle"}
  /\ hook \in Hooks
  /\ waiting \in {"no", "update", "lock"}
  /\ overlapped \in BOOLEAN
  /\ qemu \in {"up", "crashed"}
  /\ resets \in 0..world.resets

BootInit ==
  /\ world \in Worlds
  /\ bp = [h \in Hooks |-> Fresh(Blank)]
  /\ InitVcpus
  /\ armTimer = "null" /\ attempts = 0
  /\ firstHit = FALSE /\ bootSync = FALSE
  /\ vm = "stopped" /\ loaded = FALSE
  /\ op = "none" /\ hook = "entry" /\ waiting = "no" /\ overlapped = FALSE
  /\ qemu = "up" /\ resets = 0

Alive == qemu = "up"
\* (Faulty variant: the vCPU thread does not take the lock.)
BqlIgnored == Alive
BqlFree == Alive /\ (op = "none" \/ waiting # "no")
ArmFaults == IF loaded THEN world.late ELSE world.early

-----------------------------------------------------------------------------
(***************************************************************************)
(* Main thread: vmi_vm_state_change() and the timer callback.              *)
(***************************************************************************)
\* The notifier runs before the vCPUs are resumed.  An existing timer means
\* an arm sequence is already in flight.
VmStart ==
  /\ Alive /\ op = "none" /\ vm = "stopped"
  /\ IF armTimer # "null"
       THEN vm' = "running" /\ UNCHANGED <<armTimer, attempts, op>>
       ELSE /\ vm' = "starting" /\ op' = "try"
            /\ attempts' = 0 /\ armTimer' = "idle"
  /\ UNCHANGED <<hookVars, firstHit, bootSync, hook, waiting, overlapped,
                 loaded, qemu, resets>>

\* A stop that is not a shutdown: the notifier returns at once.
VmStop ==
  /\ Alive /\ op = "none" /\ vm = "running"
  /\ \A v \in Vcpus : trap[v] = "none"
  /\ vm' = "stopped"
  /\ UNCHANGED <<hookVars, armVars, mainVars, loaded, qemu, resets>>

TimerFires ==
  /\ Alive /\ op = "none" /\ armTimer = "due"
  /\ armTimer' = "idle" /\ op' = "try"
  /\ UNCHANGED <<hookVars, attempts, firstHit, bootSync, hook, waiting,
                 overlapped, hostVars>>

\* The main thread goes on, with the lock.
OnMain(o) ==
  /\ Alive /\ op = o /\ waiting # "update"
  /\ UNCHANGED overlapped

VcpusResume == vm' = IF vm = "starting" THEN "running" ELSE vm

\* (Faulty variant: the attempt is not counted.)
AttemptsUncounted == attempts
AttemptsCounted   == attempts + 1

\* vmi_try_arm(): stand down, or start another attempt.
TryArm ==
  /\ OnMain("try")
  /\ IF firstHit \/ bootSync
       THEN /\ armTimer' = "null" /\ op' = "none"
            /\ VcpusResume /\ UNCHANGED attempts
       ELSE /\ attempts' = AttemptsCounted /\ op' = "remove"
            /\ UNCHANGED <<armTimer, vm>>
  /\ hook' = "entry" /\ waiting' = "no"
  /\ UNCHANGED <<hookVars, firstHit, bootSync, loaded, qemu, resets>>

\* One breakpoint call of the main thread: patching memory (the first user
\* comes, the last one goes) means updating the vCPU, and waiting for it.
MainCall(out) ==
  /\ bp' = [bp EXCEPT ![hook] = out.cell]
  /\ waiting' = IF Registered(bp[hook]) # Registered(out.cell)
                  THEN "update" ELSE "no"
  /\ UNCHANGED <<vmiState, stepAddr, singlestep, at, trap, seen, unseen,
                 update, fate, armVars, hostVars>>

\* vmi_arm_addr(): what the first remove returns is ignored.
ArmRemove ==
  /\ OnMain("remove")
  /\ \E out \in RemoveOutcomes(bp[hook], ArmFaults) : MainCall(out)
  /\ op' = "insert" /\ UNCHANGED hook

\* The address is given up; vmi_arm_once() takes back the entry hook if the
\* return hook is the one that failed.
GiveUpAddr ==
  IF hook = "ret" THEN hook' = "entry" /\ op' = "undo"
                  ELSE op' = "settle" /\ UNCHANGED hook

ArmInsert ==
  /\ OnMain("insert")
  /\ \E out \in InsertOutcomes(bp[hook], ArmFaults) :
       /\ MainCall(out)
       /\ IF out.err THEN GiveUpAddr ELSE op' = "verify" /\ UNCHANGED hook

ArmVerify ==
  /\ OnMain("verify")
  /\ \E ok \in ReadbackOutcomes(bp[hook], ArmFaults) :
       IF ~ok THEN op' = "undo" /\ UNCHANGED hook
       ELSE IF hook = "entry" /\ RetCapture
         THEN hook' = "ret" /\ op' = "remove"
         ELSE op' = "settle" /\ UNCHANGED hook
  /\ waiting' = "no"
  /\ UNCHANGED <<hookVars, armVars, hostVars>>

ArmUndo ==
  /\ OnMain("undo")
  /\ \E out \in RemoveOutcomes(bp[hook], ArmFaults) : MainCall(out)
  /\ GiveUpAddr

\* (Faulty variant: one attempt too many.)
AttemptsExceeded == attempts > MaxAttempts
AttemptsUsedUp   == attempts >= MaxAttempts

\* Armed or not, the poller goes on until MaxAttempts: timer_mod() on
\* whatever vmi_arm_timer is by now.
Settle ==
  /\ OnMain("settle")
  /\ IF AttemptsUsedUp
       THEN armTimer' = "null" /\ UNCHANGED qemu
     ELSE IF armTimer = "null"
       THEN qemu' = "crashed" /\ UNCHANGED armTimer
       ELSE armTimer' = "due" /\ UNCHANGED qemu
  /\ op' = "none" /\ waiting' = "no" /\ VcpusResume
  /\ UNCHANGED <<hookVars, attempts, firstHit, bootSync, hook, loaded, resets>>

-----------------------------------------------------------------------------
(***************************************************************************)
(* vCPU thread.                                                            *)
(***************************************************************************)
\* An idle vCPU thread, or one back from the guest with its exit handled,
\* runs the update the main thread is waiting for.
ServeWork ==
  /\ Alive /\ waiting = "update" /\ \A v \in Vcpus : trap[v] = "none"
  /\ waiting' = "lock"
  /\ UNCHANGED <<hookVars, armVars, op, hook, overlapped, hostVars>>

\* A handler of the vCPU thread takes the lock.
OnVcpu ==
  /\ BqlFree
  /\ overlapped' = (overlapped \/ waiting # "no")
  /\ UNCHANGED <<op, hook, waiting>>

\* vmi_arm_addr() on the vCPU's own thread: no wait, nobody in between.
\* (Faulty variant: the insert's return value is all that counts.)
ArmAddrTrusting(c, faults) == InsertOutcomes(c, faults)

TakeBack(c, faults) ==
  {Outcome(rem.cell, TRUE) : rem \in RemoveOutcomes(c, faults)}

ArmAddrOutcomes(c, faults) ==
  UNION {UNION {IF ins.err THEN {ins}
                ELSE UNION {IF ok THEN {ins} ELSE TakeBack(ins.cell, faults) :
                              ok \in ReadbackOutcomes(ins.cell, faults)} :
                  ins \in InsertOutcomes(rem.cell, faults)} :
           rem \in RemoveOutcomes(c, faults)}

\* vmi_arm_once(): the return hook's failure takes back the entry hook.
WithHooks(entry, ret) == [h \in Hooks |-> IF h = "entry" THEN entry ELSE ret]

ArmOnceOutcomes(cells, faults) ==
  UNION {IF e.err \/ ~RetCapture
           THEN {Outcome([cells EXCEPT !["entry"] = e.cell], e.err)}
           ELSE UNION {IF r.err
                         THEN {Outcome(WithHooks(e2.cell, r.cell), TRUE) :
                                 e2 \in TakeBack(e.cell, faults)}
                         ELSE {Outcome(WithHooks(e.cell, r.cell), FALSE)} :
                         r \in ArmAddrOutcomes(cells["ret"], faults)} :
           e \in ArmAddrOutcomes(cells["entry"], faults)}

\* fw_cfg_dma_transfer() of FW_CFG_KERNEL_DATA: the image overwrites the
\* hooks' bytes, then vmi_monitor_kernel_loaded() arms before the guest
\* runs another instruction.
KernelLoaded(v) ==
  /\ OnVcpu /\ fate = "ok" /\ vm = "running" /\ ~loaded /\ trap[v] = "none"
  /\ loaded' = TRUE
  /\ LET cells == [h \in Hooks |-> [bp[h] EXCEPT !.byte = Code]] IN
     IF bootSync \/ firstHit
       THEN bp' = cells /\ UNCHANGED <<bootSync, armTimer>>
       ELSE \E out \in ArmOnceOutcomes(cells, world.late) :
              /\ bp' = out.cell
              /\ bootSync' = ~out.err
              /\ armTimer' = IF out.err THEN armTimer ELSE "null"
  /\ UNCHANGED <<vmiState, stepAddr, singlestep, at, trap, seen, unseen,
                 update, fate, attempts, firstHit, vm, qemu, resets>>

\* vmi_monitor_breakpoint_hit(): the first hit ends the polling.
Hit(v) ==
  /\ OnVcpu /\ StartStepOver(v)
  /\ firstHit' = TRUE
  /\ armTimer' = IF firstHit THEN armTimer ELSE "null"
  /\ UNCHANGED <<attempts, bootSync, hostVars>>

Handled(v) ==
  /\ OnVcpu
  /\ StepComplete(v) \/ NotClaimed(v)
  /\ UNCHANGED <<armVars, hostVars>>

\* The kernel, once loaded, runs and makes system calls.
GuestRuns(v) ==
  /\ Alive /\ vm = "running" /\ loaded
  /\ \/ \E h \in Hooks : ReachHook(v, h)
     \/ FetchInt3(v)
     \/ Execute(v)
  /\ UNCHANGED <<armVars, mainVars, hostVars>>

\* system_reset: firmware again.  RAM, registry and flags stay; a vCPU
\* caught in a step-over traps after the firmware's first instruction.
GuestReset ==
  /\ Alive /\ fate = "ok" /\ op = "none" /\ vm = "running" /\ loaded
  /\ resets < world.resets /\ \A v \in Vcpus : trap[v] = "none"
  /\ resets' = resets + 1 /\ loaded' = FALSE
  /\ at' = [v \in Vcpus |-> NoHook]
  /\ trap' = [v \in Vcpus |-> IF singlestep[v] THEN "step" ELSE "none"]
  /\ UNCHANGED <<bp, vmiState, stepAddr, singlestep, seen, unseen, update, fate,
                 armVars, mainVars, vm, qemu>>

Main == TryArm \/ ArmRemove \/ ArmInsert \/ ArmVerify \/ ArmUndo \/ Settle

BootNext ==
  /\ \/ VmStart \/ VmStop \/ TimerFires \/ Main \/ ServeWork \/ GuestReset
     \/ \E v \in Vcpus : KernelLoaded(v) \/ Hit(v) \/ Handled(v) \/ GuestRuns(v)
  /\ UNCHANGED world

\* The main loop runs its callbacks and due timers; the vCPU thread serves
\* its work queue.  Nothing is assumed of the guest.
BootFairness ==
  /\ WF_bootVars(Main /\ UNCHANGED world)
  /\ WF_bootVars(TimerFires /\ UNCHANGED world)
  /\ WF_bootVars(ServeWork /\ UNCHANGED world)
  /\ \A v \in Vcpus : WF_bootVars((Hit(v) \/ Handled(v)) /\ UNCHANGED world)

BootSpec == BootInit /\ [][BootNext]_bootVars
FairBootSpec == BootSpec /\ BootFairness

-----------------------------------------------------------------------------
\* vmi_try_arm() never reschedules a timer another thread has freed.
NoNullTimer == qemu = "up"

\* The monitor holds each of its addresses once: a second registration would
\* survive the step-over's remove and leave the int3 in place.
SingleUse == \A h \in Hooks : bp[h].users <= 1

\* "we are not already mid-step-over here, which should not happen"
\* (kvm_handle_debug(), qemu_patch/0001-kvm.c.diff): no int3 meets a vCPU in
\* STEPPING, where it would stop the whole VM.
NoInt3InStepOver ==
  \A v \in Vcpus : trap[v] = "int3" => vmiState[v] = "NORMAL"

Stepping(h) == \E v \in Vcpus : vmiState[v] = "STEPPING" /\ stepAddr[v] = h

\* Every hook is live: in memory, or being stepped over.
HooksIn == \A h \in Hooks : bp[h] = ArmedCell \/ Stepping(h)

\* Once the poller is told to stand down (first hit or boot sync,
\* vmi-syscall-monitor.c:211-215) every hook is live for good.
StandDownLive == firstHit \/ bootSync => HooksIn

\* "the two can never race each other's kvm_insert_breakpoint() /
\* kvm_remove_breakpoint() calls" (vmi-syscall-monitor.c:303-307): as long as
\* no handler has run while an attempt waited in run_on_cpu(), the poller
\* finds its timer and no hook is registered twice, whatever else fails and
\* even when the guest is reset between its attempts.
SafeUntilOverlap == ~overlapped => NoNullTimer /\ SingleUse

\* As long as no handler has run during such a wait and the guest has not
\* been reset, boot sync holds what it reports: once it has set
\* vmi_boot_sync_ok every hook stays live for good, not one call of the guest
\* goes unseen and no exception of the monitor's own goes unhandled, whatever
\* failed in the attempts before it; and it does set it when it loads the
\* kernel with nothing failing.
BootSyncHolds ==
  ~overlapped /\ resets = 0 =>
    /\ bootSync => HooksIn /\ unseen = {} /\ NothingLeaks
    /\ loaded /\ world.late = {} => bootSync

\* Polling ends: by standing down, or after MaxAttempts.
PollingEnds == (armTimer # "null") ~> (armTimer = "null")

\* A boot-sync arm that fails leaves the periodic retry at work ("falling
\* back to periodic retry", vmi-syscall-monitor.c:337).
SyncFailureRetried ==
  [][loaded' /\ ~loaded /\ ~bootSync' /\ ~firstHit => armTimer' # "null"]_bootVars
=============================================================================
