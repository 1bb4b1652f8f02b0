------------------------------ MODULE HookStep ------------------------------
(***************************************************************************)
(* The step-over machine of vmi-syscall-monitor.c: how a vCPU that runs    *)
(* into one of the monitor's int3 bytes is taken out of the guest, has the *)
(* original instruction single-stepped and the int3 put back.              *)
(*                                                                         *)
(* Memory and registry cells come from KvmBreakpoints.                     *)
(* kvm_arch_handle_exit() holds the big QEMU lock (BQL) around             *)
(* kvm_handle_debug(), so one vCPU's handler would be one action, but for  *)
(* its breakpoint call: one that patches the byte has                      *)
(* kvm_update_guest_debug() run on every vCPU, on another through          *)
(* run_on_cpu(), which queues it there and waits with the BQL released.    *)
(* On a guest with several vCPUs a handler is therefore two actions, with  *)
(* other vCPUs' guest code and handlers in between; with one it is one.    *)
(***************************************************************************)
EXTENDS KvmBreakpoints

CONSTANTS Vcpus,        \* the guest's virtual CPUs
          RetCapture,   \* is VMI_MONITOR_RET_ADDR set?
          Faults        \* which KvmBreakpoints faults may happen

ASSUME RetCaptureAssumption == RetCapture \in BOOLEAN
ASSUME FaultsAssumption == Faults \subseteq FaultKinds

\* The addresses for which vmi_monitor_is_hook_addr() is true.
Hooks == {"entry"} \cup (IF RetCapture THEN {"ret"} ELSE {})
NoHook == "none"

VARIABLES
  bp,          \* hook -> its KvmBreakpoints cell
  vmiState,    \* vmi_state_table: vCPU -> NORMAL or STEPPING
  stepAddr,    \* vmi_step_addr_table: vCPU -> hook being stepped over
  singlestep,  \* vCPU -> cs->singlestep_enabled
  at,          \* vCPU -> hook its rip stands on, or NoHook
  trap,        \* vCPU -> debug exit taken and not handled yet
  seen,        \* vCPU -> was this visit of the hook handed to the monitor?
  unseen,      \* hooks whose instruction ran without the monitor's knowledge
  update,      \* vCPU -> vCPUs its handler's breakpoint call has to update
               \* yet, itself among them; {} outside such a call
  fate         \* "ok"; "debug": VM stopped for a debugger nobody attached;
               \* "guest": the monitor's own int3 delivered into the guest

hookVars == <<bp, vmiState, stepAddr, singlestep, at, trap, seen, unseen,
              update, fate>>

TypeOK ==
  /\ bp \in [Hooks -> Cell]
  /\ vmiState \in [Vcpus -> {"NORMAL", "STEPPING"}]
  /\ stepAddr \in [Vcpus -> Hooks \cup {NoHook}]
  /\ \A v \in Vcpus : vmiState[v] = "STEPPING" => stepAddr[v] \in Hooks
  /\ singlestep \in [Vcpus -> BOOLEAN]
  /\ at \in [Vcpus -> Hooks \cup {NoHook}]
  /\ trap \in [Vcpus -> {"none", "int3", "step"}]
  /\ seen \in [Vcpus -> BOOLEAN]
  /\ unseen \subseteq Hooks
  /\ update \in [Vcpus -> SUBSET Vcpus]
  /\ fate \in {"ok", "debug", "guest"}

\* Everything but the cells: the guest has not run yet.
InitVcpus ==
  /\ vmiState = [v \in Vcpus |-> "NORMAL"]
  /\ stepAddr = [v \in Vcpus |-> NoHook]
  /\ singlestep = [v \in Vcpus |-> FALSE]
  /\ at = [v \in Vcpus |-> NoHook]
  /\ trap = [v \in Vcpus |-> "none"]
  /\ seen = [v \in Vcpus |-> FALSE]
  /\ unseen = {}
  /\ update = [v \in Vcpus |-> {}]
  /\ fate = "ok"

\* A kernel in memory with every hook armed (what BootArming establishes).
ArmedCell == [byte |-> Int3, users |-> 1, saved |-> Code]

Init == bp = [h \in Hooks |-> ArmedCell] /\ InitVcpus

-----------------------------------------------------------------------------
(***************************************************************************)
(* The guest.                                                              *)
(***************************************************************************)
InGuest(v) == fate = "ok" /\ trap[v] = "none"

\* Back to the guest, on an ordinary instruction or on a hook's; away from
\* the hooks a vCPU still single-stepping traps after that one instruction.
Resume(v) ==
  trap' = [trap EXCEPT ![v] =
             IF singlestep'[v] /\ at'[v] = NoHook THEN "step" ELSE "none"]

\* Guest code runs up to a hook.
ReachHook(v, h) ==
  /\ InGuest(v) /\ at[v] = NoHook
  /\ at' = [at EXCEPT ![v] = h]
  /\ seen' = [seen EXCEPT ![v] = FALSE]
  /\ UNCHANGED <<bp, vmiState, stepAddr, singlestep, trap, unseen, update, fate>>

\* The byte at the hook is 0xcc: the vCPU leaves the guest with a #BP.
FetchInt3(v) ==
  /\ InGuest(v) /\ at[v] # NoHook
  /\ bp[at[v]].byte = Int3
  /\ trap' = [trap EXCEPT ![v] = "int3"]
  /\ UNCHANGED <<bp, vmiState, stepAddr, singlestep, at, seen, unseen, update,
                 fate>>

\* The hooked instruction itself runs.
Execute(v) ==
  /\ InGuest(v) /\ at[v] # NoHook
  /\ bp[at[v]].byte # Int3
  /\ at' = [at EXCEPT ![v] = NoHook]
  /\ unseen' = IF seen[v] THEN unseen ELSE unseen \cup {at[v]}
  /\ UNCHANGED <<bp, vmiState, stepAddr, singlestep, seen, update, fate>>
  /\ Resume(v)

-----------------------------------------------------------------------------
(***************************************************************************)
(* kvm_handle_debug().                                                     *)
(***************************************************************************)
ClaimsInt3(v) ==
  trap[v] = "int3" /\ Registered(bp[at[v]]) /\ vmiState[v] = "NORMAL"

\* (Faulty variant: a single step QEMU knows of is left to the old path.)
ClaimsUnknownStep(v) ==
  trap[v] = "step" /\ vmiState[v] = "STEPPING" /\ ~singlestep[v]

ClaimsStep(v) == trap[v] = "step" /\ vmiState[v] = "STEPPING"

\* vmi_step_addr_table, with v's hook recorded.
\* (Faulty variant: one record for all vCPUs.)
StepAddrShared(v) == [u \in Vcpus |-> at[v]]
StepAddrSet(v)    == [stepAddr EXCEPT ![v] = at[v]]

\* What taking out, and putting back, the int3 may do.
\* (Faulty variants: the call is missing.)
NotTakenOut(v) == {Outcome(bp[at[v]], FALSE)}
TakenOut(v)    == RemoveOutcomes(bp[at[v]], Faults)
NotPutBack(v)  == {Outcome(bp[stepAddr[v]], FALSE)}
PutBack(v)     == InsertOutcomes(bp[stepAddr[v]], Faults)

\* Is v's handler inside a breakpoint call?
Calling(v) == update[v] # {}

\* The call for hook h that came out so has to wait: it patched the byte, and
\* there are other vCPUs to update.  v's own is updated on the spot.
MustWait(v, h, out) ==
  Vcpus # {v} /\ Registered(bp[h]) # Registered(out.cell)

WaitForOthers(v) ==
  update' = [update EXCEPT ![v] = Vcpus] /\ UNCHANGED <<vmiState, stepAddr, trap>>

\* The rest of each handler, back into the guest.
EnterStepping(v) ==
  /\ stepAddr' = StepAddrSet(v)
  /\ singlestep' = [singlestep EXCEPT ![v] = TRUE]
  /\ vmiState' = [vmiState EXCEPT ![v] = "STEPPING"]
  /\ update' = [update EXCEPT ![v] = {}]
  /\ Resume(v)

BackToNormal(v) ==
  /\ vmiState' = [vmiState EXCEPT ![v] = "NORMAL"]
  /\ update' = [update EXCEPT ![v] = {}]
  /\ UNCHANGED stepAddr
  /\ Resume(v)

(***************************************************************************)
(* The step-over half of vmi_monitor_breakpoint_hit(): take the int3 out   *)
(* and single-step.  If it cannot be taken out the vCPU stays NORMAL and   *)
(* goes back to the same int3.                                             *)
(***************************************************************************)
StartStepOver(v) ==
  /\ fate = "ok" /\ ~Calling(v) /\ ClaimsInt3(v)
  /\ UNCHANGED <<at, unseen, fate>>
  /\ seen' = [seen EXCEPT ![v] = TRUE]
  /\ \E out \in TakenOut(v) :
       /\ bp' = [bp EXCEPT ![at[v]] = out.cell]
       /\ \/ MustWait(v, at[v], out) /\ WaitForOthers(v) /\ UNCHANGED singlestep
          \/ ~MustWait(v, at[v], out) /\ ~out.err /\ EnterStepping(v)
          \/ /\ out.err /\ UNCHANGED <<vmiState, stepAddr, singlestep, update>>
             /\ Resume(v)

FinishStepOver(v) ==
  /\ fate = "ok" /\ trap[v] = "int3" /\ update[v] = {v}
  /\ UNCHANGED <<bp, at, seen, unseen, fate>>
  /\ EnterStepping(v)

\* vmi_monitor_step_complete(): whatever the insert and its readback say,
\* the vCPU is NORMAL again.
StepComplete(v) ==
  /\ fate = "ok" /\ ~Calling(v) /\ ClaimsStep(v)
  /\ UNCHANGED <<at, seen, unseen, fate>>
  /\ singlestep' = [singlestep EXCEPT ![v] = FALSE]
  /\ \E out \in PutBack(v) :
       /\ bp' = [bp EXCEPT ![stepAddr[v]] = out.cell]
       /\ IF MustWait(v, stepAddr[v], out) THEN WaitForOthers(v)
                                          ELSE BackToNormal(v)

FinishStepComplete(v) ==
  /\ fate = "ok" /\ trap[v] = "step" /\ update[v] = {v}
  /\ UNCHANGED <<bp, singlestep, at, seen, unseen, fate>>
  /\ BackToNormal(v)

\* A vCPU in the guest is kicked out to serve the update.  One that has left
\* it already handles its own exit first; inside a call of its own it waits
\* without serving anybody.
ServeUpdate(u, v) ==
  /\ InGuest(u) /\ u # v /\ u \in update[v]
  /\ update' = [update EXCEPT ![v] = @ \ {u}]
  /\ UNCHANGED <<bp, vmiState, stepAddr, singlestep, at, trap, seen, unseen,
                 fate>>

CallGoesOn(v) == \/ FinishStepOver(v) \/ FinishStepComplete(v)
                 \/ \E u \in Vcpus : ServeUpdate(u, v)

\* Nothing of the monitor's: EXCP_DEBUG stops the VM if QEMU knows the
\* breakpoint or the single step, else the exception goes into the guest.
NotClaimed(v) ==
  /\ fate = "ok" /\ ~Calling(v) /\ trap[v] # "none"
  /\ ~ClaimsInt3(v) /\ ~ClaimsStep(v)
  /\ fate' = IF \/ trap[v] = "int3" /\ Registered(bp[at[v]])
                \/ trap[v] = "step" /\ singlestep[v]
               THEN "debug" ELSE "guest"
  /\ trap' = [trap EXCEPT ![v] = "none"]
  /\ UNCHANGED <<bp, vmiState, stepAddr, singlestep, at, seen, unseen, update>>

HandleDebug(v) == StartStepOver(v) \/ StepComplete(v) \/ NotClaimed(v)

Next == \E v \in Vcpus :
          \/ \E h \in Hooks : ReachHook(v, h)
          \/ FetchInt3(v)
          \/ Execute(v)
          \/ HandleDebug(v)
          \/ CallGoesOn(v)

Spec == Init /\ [][Next]_hookVars

-----------------------------------------------------------------------------
(***************************************************************************)
(* Every debug exception the monitor causes is its own to consume: none    *)
(* stops the VM (EXCP_DEBUG) and none is delivered into the guest, which   *)
(* would kill it.  kvm_handle_debug()'s two new branches.                  *)
(***************************************************************************)
NothingLeaks == fate = "ok"

(***************************************************************************)
(* A hook is out of guest memory only on account of a vCPU that steps over *)
(* that very hook, or is about to (its handler is still inside             *)
(* kvm_remove_breakpoint()); it is then reinserted exactly once (use       *)
(* count 1), however many vCPUs step over the hooks at the same time.      *)
(***************************************************************************)
StepsOver(v, h)  == vmiState[v] = "STEPPING" /\ stepAddr[v] = h
TakingOut(v, h) == Calling(v) /\ trap[v] = "int3" /\ at[v] = h

DisarmedOnlyInStepOver ==
  \A h \in Hooks :
    \/ bp[h] = ArmedCell
    \/ /\ ~Registered(bp[h])
       /\ \E v \in Vcpus : StepsOver(v, h) \/ TakingOut(v, h)
=============================================================================
