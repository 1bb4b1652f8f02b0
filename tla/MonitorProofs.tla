---------------------------- MODULE MonitorProofs ----------------------------
(***************************************************************************)
(* Theorems about the patch, from the arming of its hooks to the lines it  *)
(* logs.                                                                   *)
(*                                                                         *)
(* Part 1, HookStep, the step-over machine alone: type correctness for any *)
(* number of vCPUs and any faults; on one vCPU, that no debug exception of *)
(* the monitor's ever leaks; and, without faults, that a hook is out of    *)
(* memory only on account of a vCPU that steps over it or is about to.     *)
(*                                                                         *)
(* Part 2, BootArming, the machine while it is armed, on one vCPU: types;  *)
(* that poller, boot sync and first hit keep apart until a handler runs    *)
(* while an attempt waits with the BQL released; and that until then hooks *)
(* which boot sync has armed stay live and see every call of the guest.    *)
(*                                                                         *)
(* Part 3, InlineMonitor, the machine on a running guest: it refines part  *)
(* 1's machine; what it remembers of a call, what it logs and in which     *)
(* order; and, with reliable breakpoints, that it refines SyscallPairing   *)
(* and keeps its promises.                                                 *)
(***************************************************************************)
EXTENDS InlineMonitor, BootArming, PendingTableProofs

-----------------------------------------------------------------------------
(***************************************************************************)
(*                  PART 1: THE STEP-OVER MACHINE (HookStep)               *)
(***************************************************************************)
(***************************************************************************)
(* What the registry calls do to one cell.                                 *)
(***************************************************************************)
Clean(c) == /\ c.byte = Int3 => Registered(c)
            /\ Registered(c) => c.saved # Int3

\* An insert yields a cell, keeps it clean, and counts one user more or,
\* on an error, none.
LEMMA InsertCell ==
  ASSUME NEW c \in Cell, NEW faults, NEW out \in InsertOutcomes(c, faults)
  PROVE  /\ out.cell \in Cell
         /\ Clean(c) => Clean(out.cell)
         /\ out.cell.users <= c.users + 1
<1>1. CASE Registered(c)
  <2>1. out.cell = [c EXCEPT !.users = @ + 1]
    BY <1>1 DEF InsertOutcomes, Outcome
  <2> QED
    BY <1>1, <2>1 DEF Cell, Clean, Registered
<1>2. CASE ~Registered(c)
  <2>1. c.users = 0
    BY <1>2 DEF Registered, Cell
  <2>2. \/ out.cell = [byte |-> Int3, users |-> 1, saved |-> c.byte]
        \/ out.cell = c
        \/ out.cell = [byte |-> c.byte, users |-> 1, saved |-> c.byte]
    BY <1>2 DEF InsertOutcomes, Outcome
  <2> QED
    BY <2>1, <2>2 DEF Cell, Clean, Registered, Bytes
<1> QED
  BY <1>1, <1>2

\* A remove yields a cell and keeps it clean; where it takes the only user
\* it leaves the original byte, unregistered.
LEMMA RemoveCell ==
  ASSUME NEW c \in Cell, NEW faults, NEW out \in RemoveOutcomes(c, faults)
  PROVE  /\ out.cell \in Cell
         /\ Clean(c) => Clean(out.cell)
         /\ c.users = 1 /\ ~out.err /\ Clean(c)
              => out.cell.users = 0 /\ out.cell.byte # Int3
         /\ out.err => out.cell = c
<1>1. \/ out.cell = Removed(c) /\ ~out.err /\ Registered(c)
      \/ out.cell = c /\ out.err
  BY DEF RemoveOutcomes, Outcome
<1>2. c.users \in Nat /\ c.byte \in Bytes /\ c.saved \in Bytes
  BY DEF Cell
<1>3. c = [byte |-> c.byte, users |-> c.users, saved |-> c.saved]
  BY DEF Cell
<1>4. CASE out.cell = c /\ out.err
  BY <1>4
<1>5. CASE out.cell = Removed(c) /\ ~out.err /\ Registered(c)
  <2>1. c.users > 0
    BY <1>5 DEF Registered
  <2>2. CASE c.users = 1
    <3> DEFINE b == IF c.byte = Int3 THEN c.saved ELSE c.byte
    <3>1. Removed(c) = [c EXCEPT !.users = 0, !.byte = b]
      BY <2>2 DEF Removed
    <3>2. Removed(c) = [byte |-> b, users |-> 0, saved |-> c.saved]
      BY <1>3, <3>1
    <3>3. b \in Bytes /\ (Clean(c) => b # Int3)
      BY <1>2, <2>2 DEF Clean, Registered
    <3> HIDE DEF b
    <3>5. out.cell.byte = b /\ out.cell.users = 0 /\ ~out.err
      BY <1>5, <3>2
    <3>6. out.cell \in Cell
      BY <1>2, <1>5, <3>2, <3>3 DEF Cell
    <3>7. Clean(c) => Clean(out.cell)
      BY <3>3, <3>5 DEF Clean, Registered
    <3> QED
      BY <3>3, <3>5, <3>6, <3>7
  <2>3. CASE c.users > 1
    <3>1. Removed(c) = [byte |-> c.byte, users |-> c.users - 1, saved |-> c.saved]
      BY <1>2, <1>3, <2>3 DEF Removed
    <3>2. c.users - 1 \in Nat /\ c.users - 1 > 0 /\ Registered(c)
      BY <1>2, <2>3 DEF Registered
    <3>3. out.cell.byte = c.byte /\ out.cell.users = c.users - 1
          /\ out.cell.saved = c.saved /\ ~out.err
      BY <1>5, <3>1, <3>2
    <3>4. out.cell \in Cell
      BY <1>2, <1>5, <3>1, <3>2 DEF Cell
    <3>5. Clean(c) => Clean(out.cell)
      BY <3>2, <3>3 DEF Clean, Registered
    <3> QED
      BY <2>3, <3>3, <3>4, <3>5
  <2> QED
    BY <1>2, <2>1, <2>2, <2>3
<1> QED
  BY <1>1, <1>4, <1>5

-----------------------------------------------------------------------------
(***************************************************************************)
(* Any number of vCPUs, any faults.                                        *)
(*                                                                         *)
(* TypeOK is not inductive: that a stepping vCPU has recorded a hook rests *)
(* on an int3 trap being one of a vCPU that stands on a hook, also when    *)
(* its handler comes back from a breakpoint call.  A cell stays clean      *)
(* because an insert never saves a patched byte: where an int3 is in       *)
(* memory the address is registered, and then an insert only counts.       *)
(***************************************************************************)
TrapOnHook == \A v \in Vcpus : trap[v] = "int3" => at[v] \in Hooks

\* Who is inside a breakpoint call is in a handler, and updated last.
CallInHandler == \A v \in Vcpus : Calling(v) => trap[v] # "none" /\ v \in update[v]

HooksClean == \A h \in Hooks : Clean(bp[h])

IInv == TypeOK /\ TrapOnHook /\ CallInHandler /\ HooksClean

\* The hooks have names of their own.
LEMMA HookNames == NoHook \notin Hooks
  BY DEF NoHook, Hooks

\* A cell of the registry replaced by what an insert or a remove yields.
LEMMA CellReplaced ==
  ASSUME bp \in [Hooks -> Cell], HooksClean,
         NEW h \in Hooks, NEW c \in Cell, Clean(c),
         bp' = [bp EXCEPT ![h] = c]
  PROVE  bp' \in [Hooks -> Cell] /\ HooksClean'
  BY DEF HooksClean

\* Init establishes the invariant: every hook is armed, no vCPU has run.
LEMMA InitIInv == Init => IInv
<1> SUFFICES ASSUME Init PROVE IInv
  OBVIOUS
<1>1. ArmedCell \in Cell /\ Clean(ArmedCell)
  BY DEF ArmedCell, Cell, Bytes, Clean, Registered, Int3, Code
<1>2. TypeOK
  BY <1>1 DEF Init, InitVcpus, TypeOK
<1>3. TrapOnHook /\ CallInHandler
  BY DEF Init, InitVcpus, TrapOnHook, CallInHandler, Calling
<1>4. HooksClean
  BY <1>1 DEF Init, HooksClean
<1> QED
  BY <1>2, <1>3, <1>4 DEF IInv

\* What the two ends of a handler leave of the vCPUs' variables.
LEMMA EnterSteppingTypes ==
  ASSUME TypeOK, CallInHandler, TrapOnHook, NEW v \in Vcpus, at[v] \in Hooks,
         EnterStepping(v), UNCHANGED <<at, unseen, fate>>,
         bp' \in [Hooks -> Cell], seen' \in [Vcpus -> BOOLEAN]
  PROVE  TypeOK' /\ TrapOnHook' /\ CallInHandler'
<1>1. /\ vmiState' = [vmiState EXCEPT ![v] = "STEPPING"]
      /\ stepAddr' = [stepAddr EXCEPT ![v] = at[v]]
      /\ singlestep' = [singlestep EXCEPT ![v] = TRUE]
      /\ update' = [update EXCEPT ![v] = {}]
      /\ trap' \in {[trap EXCEPT ![v] = t] : t \in {"none", "step"}}
  BY DEF EnterStepping, StepAddrSet, Resume
<1>2. TypeOK'
  BY <1>1 DEF TypeOK
<1>3. TrapOnHook' /\ CallInHandler'
  BY <1>1 DEF TrapOnHook, CallInHandler, Calling, TypeOK
<1> QED
  BY <1>2, <1>3

LEMMA BackToNormalTypes ==
  ASSUME TypeOK, CallInHandler, TrapOnHook, NEW v \in Vcpus,
         BackToNormal(v), UNCHANGED <<at, seen, unseen, fate>>,
         bp' \in [Hooks -> Cell], singlestep' \in [Vcpus -> BOOLEAN]
  PROVE  TypeOK' /\ TrapOnHook' /\ CallInHandler'
<1>1. /\ vmiState' = [vmiState EXCEPT ![v] = "NORMAL"]
      /\ stepAddr' = stepAddr
      /\ update' = [update EXCEPT ![v] = {}]
      /\ trap' \in {[trap EXCEPT ![v] = t] : t \in {"none", "step"}}
  BY DEF BackToNormal, Resume
<1>2. TypeOK'
  BY <1>1 DEF TypeOK
<1>3. TrapOnHook' /\ CallInHandler'
  BY <1>1 DEF TrapOnHook, CallInHandler, Calling, TypeOK
<1> QED
  BY <1>2, <1>3

LEMMA WaitForOthersTypes ==
  ASSUME TypeOK, CallInHandler, TrapOnHook, NEW v \in Vcpus, trap[v] # "none",
         WaitForOthers(v), UNCHANGED <<at, unseen, fate>>,
         bp' \in [Hooks -> Cell], singlestep' \in [Vcpus -> BOOLEAN],
         seen' \in [Vcpus -> BOOLEAN]
  PROVE  TypeOK' /\ TrapOnHook' /\ CallInHandler'
<1>1. /\ update' = [update EXCEPT ![v] = Vcpus]
      /\ UNCHANGED <<vmiState, stepAddr, trap>>
  BY DEF WaitForOthers
<1>2. TypeOK'
  BY <1>1 DEF TypeOK
<1>3. TrapOnHook' /\ CallInHandler'
  BY <1>1 DEF TrapOnHook, CallInHandler, Calling, TypeOK
<1> QED
  BY <1>2, <1>3

\* Every step preserves it.
LEMMA NextIInv == IInv /\ [Next]_hookVars => IInv'
<1> SUFFICES ASSUME IInv, [Next]_hookVars PROVE IInv'
  OBVIOUS
<1> USE DEF IInv
<1>1. ASSUME NEW v \in Vcpus, NEW h \in Hooks, ReachHook(v, h) PROVE IInv'
  BY <1>1 DEF ReachHook, InGuest, TypeOK, TrapOnHook, CallInHandler, Calling,
              HooksClean
<1>2. ASSUME NEW v \in Vcpus, FetchInt3(v) PROVE IInv'
  BY <1>2 DEF FetchInt3, InGuest, TypeOK, TrapOnHook, CallInHandler, Calling,
              HooksClean
<1>3. ASSUME NEW v \in Vcpus, Execute(v) PROVE IInv'
  <2>1. at[v] \in Hooks
    BY <1>3 DEF Execute, TypeOK
  <2>2. TypeOK'
    BY <1>3, <2>1 DEF Execute, Resume, TypeOK
  <2>3. TrapOnHook' /\ CallInHandler'
    BY <1>3 DEF Execute, InGuest, Resume, TypeOK, TrapOnHook, CallInHandler,
                Calling
  <2>4. HooksClean'
    BY <1>3 DEF Execute, HooksClean
  <2> QED
    BY <2>2, <2>3, <2>4
<1>4. ASSUME NEW v \in Vcpus, StartStepOver(v) PROVE IInv'
  <2>1. trap[v] = "int3" /\ at[v] \in Hooks
    BY <1>4 DEF StartStepOver, ClaimsInt3, TrapOnHook
  <2>2. PICK out \in TakenOut(v) :
          /\ bp' = [bp EXCEPT ![at[v]] = out.cell]
          /\ \/ WaitForOthers(v) /\ UNCHANGED singlestep
             \/ EnterStepping(v)
             \/ /\ UNCHANGED <<vmiState, stepAddr, singlestep, update>>
                /\ Resume(v)
    BY <1>4 DEF StartStepOver
  <2>3. out.cell \in Cell /\ Clean(out.cell)
    <3>1. bp[at[v]] \in Cell /\ Clean(bp[at[v]])
      BY <2>1 DEF TypeOK, HooksClean
    <3> QED
      BY <3>1, RemoveCell DEF TakenOut
  <2>4. bp' \in [Hooks -> Cell] /\ HooksClean'
    BY <2>1, <2>2, <2>3, CellReplaced DEF TypeOK
  <2>5. /\ UNCHANGED <<at, unseen, fate>>
        /\ seen' \in [Vcpus -> BOOLEAN] /\ singlestep \in [Vcpus -> BOOLEAN]
    BY <1>4 DEF StartStepOver, TypeOK
  <2>6. CASE WaitForOthers(v) /\ UNCHANGED singlestep
    BY <2>1, <2>4, <2>5, <2>6, WaitForOthersTypes
  <2>7. CASE EnterStepping(v)
    BY <2>1, <2>4, <2>5, <2>7, EnterSteppingTypes
  <2>8. CASE /\ UNCHANGED <<vmiState, stepAddr, singlestep, update>>
             /\ Resume(v)
    <3>1. ~Calling(v) /\ at[v] # NoHook
      BY <1>4, <2>1, HookNames DEF StartStepOver
    <3>2. trap' = [trap EXCEPT ![v] = "none"]
      BY <2>5, <2>8, <3>1 DEF Resume
    <3>3. TypeOK'
      BY <2>4, <2>5, <2>8, <3>2 DEF TypeOK
    <3>4. TrapOnHook' /\ CallInHandler'
      BY <2>5, <2>8, <3>1, <3>2 DEF TypeOK, TrapOnHook, CallInHandler, Calling
    <3> QED
      BY <2>4, <3>3, <3>4
  <2> QED
    BY <2>2, <2>6, <2>7, <2>8
<1>5. ASSUME NEW v \in Vcpus, StepComplete(v) PROVE IInv'
  <2>1. stepAddr[v] \in Hooks /\ trap[v] # "none"
    BY <1>5 DEF StepComplete, ClaimsStep, TypeOK
  <2>2. PICK out \in PutBack(v) :
          /\ bp' = [bp EXCEPT ![stepAddr[v]] = out.cell]
          /\ WaitForOthers(v) \/ BackToNormal(v)
    BY <1>5 DEF StepComplete
  <2>3. out.cell \in Cell /\ Clean(out.cell)
    <3>1. bp[stepAddr[v]] \in Cell /\ Clean(bp[stepAddr[v]])
      BY <2>1 DEF TypeOK, HooksClean
    <3> QED
      BY <3>1, InsertCell DEF PutBack
  <2>4. bp' \in [Hooks -> Cell] /\ HooksClean'
    BY <2>1, <2>2, <2>3, CellReplaced DEF TypeOK
  <2>5. /\ UNCHANGED <<at, seen, unseen, fate>>
        /\ singlestep' \in [Vcpus -> BOOLEAN] /\ seen' \in [Vcpus -> BOOLEAN]
    BY <1>5 DEF StepComplete, TypeOK
  <2>6. CASE WaitForOthers(v)
    BY <2>1, <2>4, <2>5, <2>6, WaitForOthersTypes
  <2>7. CASE BackToNormal(v)
    BY <2>4, <2>5, <2>7, BackToNormalTypes
  <2> QED
    BY <2>2, <2>6, <2>7
<1>6. ASSUME NEW v \in Vcpus, NotClaimed(v) PROVE IInv'
  BY <1>6 DEF NotClaimed, TypeOK, TrapOnHook, CallInHandler, Calling, HooksClean
<1>7. ASSUME NEW v \in Vcpus, FinishStepOver(v) PROVE IInv'
  <2>1. HooksClean' /\ bp' \in [Hooks -> Cell] /\ seen' \in [Vcpus -> BOOLEAN]
    BY <1>7 DEF FinishStepOver, HooksClean, TypeOK
  <2> QED
    BY <1>7, <2>1, EnterSteppingTypes DEF FinishStepOver, TrapOnHook
<1>8. ASSUME NEW v \in Vcpus, FinishStepComplete(v) PROVE IInv'
  <2>1. /\ HooksClean' /\ bp' \in [Hooks -> Cell]
        /\ singlestep' \in [Vcpus -> BOOLEAN]
    BY <1>8 DEF FinishStepComplete, HooksClean, TypeOK
  <2> QED
    BY <1>8, <2>1, BackToNormalTypes DEF FinishStepComplete
<1>9. ASSUME NEW u \in Vcpus, NEW v \in Vcpus, ServeUpdate(u, v) PROVE IInv'
  <2>1. /\ update' = [update EXCEPT ![v] = @ \ {u}] /\ u # v /\ u \in update[v]
        /\ UNCHANGED <<bp, vmiState, stepAddr, singlestep, at, trap, seen,
                       unseen, fate>>
    BY <1>9 DEF ServeUpdate
  <2>2. TypeOK'
    BY <2>1 DEF TypeOK
  <2>3. CallInHandler'
    BY <2>1 DEF TypeOK, CallInHandler, Calling
  <2> QED
    BY <2>1, <2>2, <2>3 DEF TrapOnHook, HooksClean
<1>10. CASE UNCHANGED hookVars
  BY <1>10 DEF hookVars, TypeOK, TrapOnHook, CallInHandler, Calling, HooksClean
<1> QED
  BY <1>1, <1>2, <1>3, <1>4, <1>5, <1>6, <1>7, <1>8, <1>9, <1>10
     DEF Next, HandleDebug, CallGoesOn

\* Every variable of the step-over machine keeps its type, whatever the
\* breakpoint calls of vmi_monitor_breakpoint_hit() and
\* vmi_monitor_step_complete() return.
THEOREM TypeCorrect == Spec => []TypeOK
  BY InitIInv, NextIInv, PTL DEF Spec, IInv

-----------------------------------------------------------------------------
(***************************************************************************)
(* One vCPU, any faults.                                                   *)
(*                                                                         *)
(* What kvm_handle_debug() relies on: an int3 trap comes in NORMAL, from a *)
(* registered address; a single-step trap comes in STEPPING, off the       *)
(* hooks.  The first holds because the hook being stepped over is out of   *)
(* memory and the vCPU, until it traps, still stands on it - with a second *)
(* vCPU it could be back, or the registration gone.                        *)
(***************************************************************************)
Focus(v) ==
  /\ singlestep[v] <=> vmiState[v] = "STEPPING"
  /\ trap[v] = "int3" => vmiState[v] = "NORMAL" /\ Registered(bp[at[v]])
  /\ trap[v] = "step" => vmiState[v] = "STEPPING" /\ at[v] = NoHook
  /\ vmiState[v] = "STEPPING" =>
       /\ ~Registered(bp[stepAddr[v]])
       /\ trap[v] = "none" => at[v] = stepAddr[v]

SingleUser == \A h \in Hooks : bp[h].users <= 1

\* Nor is there another vCPU whose update a handler would have to wait for.
LInv ==
  /\ IInv /\ NothingLeaks /\ SingleUser
  /\ \A v \in Vcpus : Focus(v) /\ ~Calling(v)

OneVcpu == \A u, v \in Vcpus : u = v

LEMMA InitLInv == Init => LInv
<1> SUFFICES ASSUME Init PROVE LInv
  OBVIOUS
<1>1. IInv
  BY InitIInv
<1>2. NothingLeaks /\ SingleUser
  BY DEF Init, InitVcpus, NothingLeaks, SingleUser, ArmedCell
<1>3. \A v \in Vcpus : Focus(v) /\ ~Calling(v)
  BY DEF Init, InitVcpus, Focus, Calling
<1> QED
  BY <1>1, <1>2, <1>3 DEF LInv

\* With one vCPU a hit is handled in one go.
LEMMA OneStart ==
  ASSUME OneVcpu, NEW v \in Vcpus, StartStepOver(v)
  PROVE  \E out \in TakenOut(v) :
           /\ bp' = [bp EXCEPT ![at[v]] = out.cell]
           /\ IF out.err
                THEN UNCHANGED <<vmiState, stepAddr, singlestep, update>>
                ELSE /\ stepAddr' = [stepAddr EXCEPT ![v] = at[v]]
                     /\ singlestep' = [singlestep EXCEPT ![v] = TRUE]
                     /\ vmiState' = [vmiState EXCEPT ![v] = "STEPPING"]
                     /\ update' = [update EXCEPT ![v] = {}]
           /\ Resume(v)
<1>1. Vcpus = {v}
  BY DEF OneVcpu
<1> QED
  BY <1>1 DEF StartStepOver, MustWait, EnterStepping, StepAddrSet

\* And is over before anything else happens.
LEMMA AllAtOnce == ASSUME LInv, NEW v \in Vcpus PROVE ~CallGoesOn(v)
<1>1. update[v] = {}
  BY DEF LInv, Calling
<1> QED
  BY <1>1 DEF CallGoesOn, FinishStepOver, FinishStepComplete, ServeUpdate

LEMMA NextLInv == OneVcpu /\ LInv /\ [Next]_hookVars => LInv'
<1> SUFFICES ASSUME OneVcpu, LInv, [Next]_hookVars PROVE LInv'
  OBVIOUS
<1>1. IInv /\ IInv' /\ TypeOK /\ HooksClean
  BY NextIInv DEF LInv, IInv
<1>2. ASSUME NEW v \in Vcpus, Focus(v)', ~Calling(v)'
      PROVE  \A u \in Vcpus : Focus(u)' /\ ~Calling(u)'
  BY <1>2 DEF OneVcpu
<1>0. ASSUME NEW v \in Vcpus PROVE Vcpus = {v} /\ ~Calling(v) /\ update[v] = {}
  BY DEF OneVcpu, LInv, Calling
<1>3. ASSUME NEW v \in Vcpus, NEW h \in Hooks, ReachHook(v, h) PROVE LInv'
  <2>1. NothingLeaks' /\ SingleUser'
    BY <1>3 DEF LInv, NothingLeaks, SingleUser, ReachHook
  <2>2. vmiState[v] = "NORMAL"
    BY <1>1, <1>3, HookNames DEF LInv, Focus, TypeOK, ReachHook, InGuest
  <2>3. Focus(v)' /\ ~Calling(v)'
    BY <1>0, <1>3, <2>2 DEF LInv, Focus, ReachHook, InGuest, Calling
  <2> QED
    BY <1>1, <1>2, <2>1, <2>3 DEF LInv
<1>4. ASSUME NEW v \in Vcpus, FetchInt3(v) PROVE LInv'
  <2>1. NothingLeaks' /\ SingleUser'
    BY <1>4 DEF LInv, NothingLeaks, SingleUser, FetchInt3
  <2>2. at[v] \in Hooks /\ Registered(bp[at[v]])
    BY <1>1, <1>4 DEF TypeOK, HooksClean, Clean, FetchInt3
  <2>3. vmiState[v] = "NORMAL"
    BY <1>1, <1>4, <2>2 DEF LInv, Focus, TypeOK, FetchInt3, InGuest
  <2>4. Focus(v)' /\ ~Calling(v)'
    BY <1>0, <1>1, <1>4, <2>2, <2>3 DEF LInv, Focus, TypeOK, FetchInt3, Calling
  <2> QED
    BY <1>1, <1>2, <2>1, <2>4 DEF LInv
<1>5. ASSUME NEW v \in Vcpus, Execute(v) PROVE LInv'
  <2>1. NothingLeaks' /\ SingleUser'
    BY <1>5 DEF LInv, NothingLeaks, SingleUser, Execute
  <2>2. at'[v] = NoHook /\ trap'[v] = IF singlestep[v] THEN "step" ELSE "none"
    BY <1>1, <1>5 DEF Execute, Resume, TypeOK
  <2>3. Focus(v)' /\ ~Calling(v)'
    BY <1>0, <1>1, <1>5, <2>2 DEF LInv, Focus, TypeOK, Execute, InGuest, Calling
  <2> QED
    BY <1>1, <1>2, <2>1, <2>3 DEF LInv
<1>6. ASSUME NEW v \in Vcpus, StartStepOver(v) PROVE LInv'
  <2>1. /\ trap[v] = "int3" /\ vmiState[v] = "NORMAL" /\ ~singlestep[v]
        /\ at[v] \in Hooks /\ at[v] # NoHook /\ bp[at[v]].users = 1
    <3>1. trap[v] = "int3" /\ vmiState[v] = "NORMAL" /\ Registered(bp[at[v]])
      BY <1>6 DEF StartStepOver, ClaimsInt3
    <3>2. at[v] \in Hooks /\ at[v] # NoHook /\ bp[at[v]] \in Cell
      BY <1>1, <3>1, HookNames DEF IInv, TrapOnHook, TypeOK
    <3> QED
      BY <3>1, <3>2 DEF LInv, Focus, SingleUser, Registered, Cell
  <2>2. PICK out \in TakenOut(v) :
          /\ bp' = [bp EXCEPT ![at[v]] = out.cell]
          /\ IF out.err
               THEN UNCHANGED <<vmiState, stepAddr, singlestep, update>>
               ELSE /\ stepAddr' = [stepAddr EXCEPT ![v] = at[v]]
                    /\ singlestep' = [singlestep EXCEPT ![v] = TRUE]
                    /\ vmiState' = [vmiState EXCEPT ![v] = "STEPPING"]
                    /\ update' = [update EXCEPT ![v] = {}]
          /\ Resume(v)
    BY <1>6, OneStart
  <2>3. /\ out.err => out.cell = bp[at[v]]
        /\ ~out.err => out.cell.users = 0
    <3>1. bp[at[v]] \in Cell /\ Clean(bp[at[v]])
      BY <1>1, <2>1 DEF TypeOK, HooksClean
    <3> QED
      BY <2>1, <3>1, RemoveCell DEF TakenOut
  <2>4. at' = at /\ trap'[v] = "none" /\ NothingLeaks' /\ ~Calling(v)'
    BY <1>0, <1>1, <1>6, <2>1, <2>2
       DEF StartStepOver, Resume, TypeOK, NothingLeaks, LInv, Calling
  <2>5. SingleUser'
    BY <1>1, <2>1, <2>2, <2>3 DEF LInv, SingleUser, TypeOK
  <2>6. Focus(v)'
    <3>1. CASE out.err
      BY <1>1, <2>1, <2>2, <2>4, <3>1 DEF Focus, TypeOK
    <3>2. CASE ~out.err
      BY <1>1, <2>1, <2>2, <2>3, <2>4, <3>2 DEF Focus, TypeOK, Registered
    <3> QED
      BY <3>1, <3>2
  <2> QED
    BY <1>1, <1>2, <2>4, <2>5, <2>6 DEF LInv
<1>7. ASSUME NEW v \in Vcpus, StepComplete(v) PROVE LInv'
  <2>1. stepAddr[v] \in Hooks /\ bp[stepAddr[v]].users = 0
    BY <1>1, <1>7
       DEF StepComplete, ClaimsStep, TypeOK, LInv, Focus, Registered, Cell
  <2>2. PICK out \in PutBack(v) :
          /\ bp' = [bp EXCEPT ![stepAddr[v]] = out.cell]
          /\ BackToNormal(v)
    BY <1>0, <1>7 DEF StepComplete, MustWait
  <2>3. out.cell.users <= 1
    <3>1. bp[stepAddr[v]] \in Cell
      BY <1>1, <2>1 DEF TypeOK
    <3> QED
      BY <2>1, <3>1, InsertCell DEF PutBack
  <2>4. NothingLeaks' /\ SingleUser'
    BY <1>1, <1>7, <2>1, <2>2, <2>3
       DEF LInv, NothingLeaks, SingleUser, StepComplete, TypeOK
  <2>5. ~singlestep'[v] /\ vmiState'[v] = "NORMAL" /\ trap'[v] = "none"
        /\ update'[v] = {}
    BY <1>1, <1>7, <2>2 DEF StepComplete, BackToNormal, Resume, TypeOK
  <2>6. Focus(v)' /\ ~Calling(v)'
    BY <2>5 DEF Focus, Calling
  <2> QED
    BY <1>1, <1>2, <2>4, <2>6 DEF LInv
<1>8. ASSUME NEW v \in Vcpus, NotClaimed(v) \/ CallGoesOn(v) PROVE FALSE
  <2>1. NotClaimed(v)
    BY <1>8, AllAtOnce
  <2> QED
    BY <1>1, <2>1 DEF NotClaimed, ClaimsInt3, ClaimsStep, LInv, Focus, TypeOK
<1>9. CASE UNCHANGED hookVars
  BY <1>1, <1>9 DEF hookVars, LInv, NothingLeaks, SingleUser, Focus, Calling
<1> QED
  BY <1>3, <1>4, <1>5, <1>6, <1>7, <1>8, <1>9 DEF Next, HandleDebug

\* On a guest with one vCPU the monitor consumes every debug exception it
\* causes, whatever its breakpoint calls return: none stops the VM for an
\* absent debugger and none is delivered into the guest.
THEOREM NoLeak == ASSUME OneVcpu PROVE Spec => []NothingLeaks
<1>1. LInv /\ [Next]_hookVars => LInv'
  BY NextLInv
<1>2. LInv => NothingLeaks
  BY DEF LInv
<1> QED
  BY InitLInv, <1>1, <1>2, PTL DEF Spec

-----------------------------------------------------------------------------
(***************************************************************************)
(* Any number of vCPUs, no faults.                                         *)
(*                                                                         *)
(* A hook is either armed, with one user, or taken out by exactly one      *)
(* vCPU, its owner from the moment kvm_remove_breakpoint() has patched the *)
(* byte until kvm_insert_breakpoint() has patched it back: a second vCPU   *)
(* that trapped on it finds no registration and so takes nothing out (what *)
(* becomes of its exception is another matter), and the first one's insert *)
(* is therefore into an unregistered cell, with the original byte to save. *)
(***************************************************************************)
TakenCell == [byte |-> Code, users |-> 0, saved |-> Code]

Owns(v, h) == \/ StepsOver(v, h) /\ ~Calling(v)
              \/ TakingOut(v, h)

Exclusive ==
  /\ \A h \in Hooks : \/ bp[h] = ArmedCell
                      \/ bp[h] = TakenCell /\ \E v \in Vcpus : Owns(v, h)
  /\ \A v \in Vcpus, h \in Hooks : Owns(v, h) => bp[h] = TakenCell
  /\ \A u, v \in Vcpus, h \in Hooks : Owns(u, h) /\ Owns(v, h) => u = v

DInv == IInv /\ Exclusive

\* Without faults an armed cell is taken out, and a taken one armed, and
\* nothing else can come of either call.
LEMMA ArmedTaken ==
  /\ Registered(ArmedCell) /\ ~Registered(TakenCell)
  /\ RemoveOutcomes(ArmedCell, {}) = {Outcome(TakenCell, FALSE)}
  /\ InsertOutcomes(TakenCell, {}) = {Outcome(ArmedCell, FALSE)}
<1>1. Registered(ArmedCell) /\ ~Registered(TakenCell)
  BY DEF Registered, ArmedCell, TakenCell
<1>2. Removed(ArmedCell) = TakenCell
  BY DEF Removed, ArmedCell, TakenCell
<1>3. RemoveOutcomes(ArmedCell, {}) = {Outcome(TakenCell, FALSE)}
  BY <1>1, <1>2 DEF RemoveOutcomes
<1>4. InsertOutcomes(TakenCell, {}) = {Outcome(ArmedCell, FALSE)}
  BY <1>1 DEF InsertOutcomes, ArmedCell, TakenCell
<1> QED
  BY <1>1, <1>3, <1>4

LEMMA InitDInv == Init => DInv
<1> SUFFICES ASSUME Init PROVE DInv
  OBVIOUS
<1>1. Exclusive
  BY DEF Init, InitVcpus, Exclusive, Owns, StepsOver, TakingOut, Calling
<1> QED
  BY <1>1, InitIInv DEF DInv

\* In a vCPU's step the owners of the hooks stay who they are: it reaches, or
\* leaves, a hook, or goes on after a call that has done its work.
LEMMA OwnersKept ==
  ASSUME IInv, NEW v \in Vcpus,
         \/ \E h \in Hooks : ReachHook(v, h)
         \/ FetchInt3(v) \/ Execute(v) \/ NotClaimed(v) \/ CallGoesOn(v)
  PROVE  /\ bp' = bp
         /\ \A u \in Vcpus, h \in Hooks : Owns(u, h)' <=> Owns(u, h)
<1> USE DEF IInv
<1>1. CASE FinishStepOver(v)
  <2>1. /\ Calling(v) /\ trap[v] = "int3" /\ at[v] \in Hooks
        /\ bp' = bp /\ at' = at
        /\ vmiState' = [vmiState EXCEPT ![v] = "STEPPING"]
        /\ stepAddr' = [stepAddr EXCEPT ![v] = at[v]]
        /\ update' = [update EXCEPT ![v] = {}]
        /\ \A u \in Vcpus : u # v => trap'[u] = trap[u]
    BY <1>1 DEF FinishStepOver, EnterStepping, StepAddrSet, Resume, Calling,
                TrapOnHook, TypeOK
  <2>2. \A h \in Hooks : Owns(v, h) <=> h = at[v]
    BY <2>1 DEF Owns, StepsOver, TakingOut
  <2>3. \A h \in Hooks : Owns(v, h)' <=> h = at[v]
    BY <2>1 DEF Owns, StepsOver, TakingOut, Calling, TypeOK
  <2>4. \A u \in Vcpus, h \in Hooks : u # v => (Owns(u, h)' <=> Owns(u, h))
    BY <2>1 DEF Owns, StepsOver, TakingOut, Calling, TypeOK
  <2> QED
    BY <2>1, <2>2, <2>3, <2>4
<1>2. CASE FinishStepComplete(v)
  <2>1. /\ Calling(v) /\ trap[v] = "step"
        /\ bp' = bp /\ at' = at
        /\ vmiState' = [vmiState EXCEPT ![v] = "NORMAL"]
        /\ stepAddr' = stepAddr
        /\ update' = [update EXCEPT ![v] = {}]
        /\ \A u \in Vcpus : u # v => trap'[u] = trap[u]
    BY <1>2 DEF FinishStepComplete, BackToNormal, Resume, Calling, TypeOK
  <2>2. \A h \in Hooks : ~Owns(v, h) /\ ~Owns(v, h)'
    BY <2>1 DEF Owns, StepsOver, TakingOut, Calling, TypeOK
  <2>3. \A u \in Vcpus, h \in Hooks : u # v => (Owns(u, h)' <=> Owns(u, h))
    BY <2>1 DEF Owns, StepsOver, TakingOut, Calling, TypeOK
  <2> QED
    BY <2>1, <2>2, <2>3
<1>3. CASE \E u \in Vcpus : ServeUpdate(u, v)
  <2>1. PICK u \in Vcpus : ServeUpdate(u, v)
    BY <1>3
  <2>2. /\ update' = [update EXCEPT ![v] = @ \ {u}] /\ u # v /\ u \in update[v]
        /\ UNCHANGED <<bp, vmiState, stepAddr, at, trap>>
    BY <2>1 DEF ServeUpdate
  <2>3. \A w \in Vcpus : Calling(w)' <=> Calling(w)
    BY <2>2 DEF Calling, CallInHandler, TypeOK
  <2> QED
    BY <2>2, <2>3 DEF Owns, StepsOver, TakingOut
<1>4. CASE \/ \E h \in Hooks : ReachHook(v, h)
           \/ FetchInt3(v) \/ Execute(v) \/ NotClaimed(v)
  <2>1. ~Calling(v)
    BY <1>4 DEF ReachHook, FetchInt3, Execute, NotClaimed, InGuest, CallInHandler
  <2>2. /\ UNCHANGED <<bp, vmiState, stepAddr, update>>
        /\ \A u \in Vcpus : u # v => trap'[u] = trap[u] /\ at'[u] = at[u]
    BY <1>4 DEF ReachHook, FetchInt3, Execute, Resume, NotClaimed, TypeOK
  <2> QED
    BY <2>1, <2>2 DEF Owns, StepsOver, TakingOut, Calling
<1> QED
  BY <1>1, <1>2, <1>3, <1>4 DEF CallGoesOn

LEMMA NextDInv == Faults = {} /\ DInv /\ [Next]_hookVars => DInv'
<1> SUFFICES ASSUME Faults = {}, DInv, [Next]_hookVars PROVE DInv'
  OBVIOUS
<1>1. IInv /\ IInv' /\ TypeOK /\ Exclusive
  BY NextIInv DEF DInv, IInv
<1>2. ASSUME bp' = bp,
             \A u \in Vcpus, h \in Hooks : Owns(u, h)' <=> Owns(u, h)
      PROVE  DInv'
  BY <1>1, <1>2 DEF DInv, Exclusive
<1>3. ASSUME NEW v \in Vcpus, StartStepOver(v) PROVE DInv'
  <2>1. /\ vmiState[v] = "NORMAL" /\ at[v] \in Hooks /\ ~Calling(v)
        /\ trap[v] = "int3" /\ Registered(bp[at[v]]) /\ at' = at
    BY <1>1, <1>3 DEF StartStepOver, ClaimsInt3, IInv, TrapOnHook
  <2>2. bp[at[v]] = ArmedCell
    BY <1>1, <2>1, ArmedTaken DEF Exclusive
  <2>3. /\ bp' = [bp EXCEPT ![at[v]] = TakenCell]
        /\ WaitForOthers(v) \/ EnterStepping(v)
    <3>1. PICK out \in TakenOut(v) :
            /\ bp' = [bp EXCEPT ![at[v]] = out.cell]
            /\ ~out.err => WaitForOthers(v) \/ EnterStepping(v)
      BY <1>3 DEF StartStepOver
    <3>2. out = Outcome(TakenCell, FALSE)
      BY <2>2, ArmedTaken DEF TakenOut
    <3>3. out.cell = TakenCell /\ ~out.err
      BY <3>2 DEF Outcome
    <3> QED
      BY <3>1, <3>3
  <2>4. /\ \A u \in Vcpus : ~Owns(u, at[v])
        /\ \A h \in Hooks : ~Owns(v, h)
    BY <1>1, <2>1, <2>2, ArmedTaken DEF Exclusive, Owns, StepsOver, TakingOut
  <2>5. \A u \in Vcpus, h \in Hooks :
          Owns(u, h)' <=> IF u = v THEN h = at[v] ELSE Owns(u, h)
    <3>1. CASE WaitForOthers(v)
      <4>1. /\ update' = [update EXCEPT ![v] = Vcpus] /\ v \in Vcpus
            /\ UNCHANGED <<vmiState, stepAddr, trap>>
        BY <3>1 DEF WaitForOthers
      <4> QED
        BY <1>1, <2>1, <4>1 DEF Owns, StepsOver, TakingOut, Calling, TypeOK
    <3>2. CASE EnterStepping(v)
      <4>1. /\ vmiState' = [vmiState EXCEPT ![v] = "STEPPING"]
            /\ stepAddr' = [stepAddr EXCEPT ![v] = at[v]]
            /\ update' = [update EXCEPT ![v] = {}]
            /\ \A u \in Vcpus : u # v => trap'[u] = trap[u]
        BY <1>1, <3>2 DEF EnterStepping, StepAddrSet, Resume, TypeOK
      <4>2. \A h \in Hooks : Owns(v, h)' <=> h = at[v]
        BY <1>1, <2>1, <4>1 DEF Owns, StepsOver, TakingOut, Calling, TypeOK
      <4>3. \A u \in Vcpus, h \in Hooks : u # v => (Owns(u, h)' <=> Owns(u, h))
        BY <1>1, <2>1, <4>1 DEF Owns, StepsOver, TakingOut, Calling, TypeOK
      <4> QED
        BY <4>2, <4>3
    <3> QED
      BY <2>3, <3>1, <3>2
  <2>6. \A h \in Hooks : bp'[h] = IF h = at[v] THEN TakenCell ELSE bp[h]
    BY <1>1, <2>3 DEF TypeOK
  <2>7. \A h \in Hooks :
          \/ bp'[h] = ArmedCell
          \/ bp'[h] = TakenCell /\ \E u \in Vcpus : Owns(u, h)'
    <3> TAKE h \in Hooks
    <3>1. CASE h = at[v]
      BY <2>5, <2>6, <3>1
    <3>2. CASE h # at[v]
      BY <1>1, <2>4, <2>5, <2>6, <3>2 DEF Exclusive
    <3> QED
      BY <3>1, <3>2
  <2>8. \A u \in Vcpus, h \in Hooks : Owns(u, h)' => bp'[h] = TakenCell
    BY <1>1, <2>5, <2>6 DEF Exclusive
  <2>9. \A u, w \in Vcpus, h \in Hooks : Owns(u, h)' /\ Owns(w, h)' => u = w
    BY <1>1, <2>4, <2>5 DEF Exclusive
  <2> QED
    BY <1>1, <2>7, <2>8, <2>9 DEF DInv, Exclusive
<1>4. ASSUME NEW v \in Vcpus, StepComplete(v) PROVE DInv'
  <2> DEFINE a == stepAddr[v]
  <2>1. /\ a \in Hooks /\ ~Calling(v) /\ trap[v] = "step" /\ at' = at
        /\ Owns(v, a) /\ \A h \in Hooks : Owns(v, h) => h = a
    BY <1>1, <1>4 DEF StepComplete, ClaimsStep, TypeOK, Owns, StepsOver, TakingOut
  <2>2. /\ bp' = [bp EXCEPT ![a] = ArmedCell]
        /\ WaitForOthers(v) \/ BackToNormal(v)
    <3>1. bp[a] = TakenCell
      BY <1>1, <2>1 DEF Exclusive
    <3>2. PICK out \in PutBack(v) : bp' = [bp EXCEPT ![a] = out.cell]
      BY <1>4 DEF StepComplete
    <3>3. out = Outcome(ArmedCell, FALSE)
      BY <3>1, <3>2, ArmedTaken DEF PutBack
    <3>4. out.cell = ArmedCell
      BY <3>3 DEF Outcome
    <3> QED
      BY <1>4, <3>2, <3>4 DEF StepComplete
  <2>3. \A u \in Vcpus, h \in Hooks : Owns(u, h)' <=> u # v /\ Owns(u, h)
    <3>1. /\ stepAddr' = stepAddr
          /\ \A u \in Vcpus : u # v => /\ trap'[u] = trap[u] /\ update'[u] = update[u]
                                       /\ vmiState'[u] = vmiState[u]
      BY <1>1, <2>2 DEF WaitForOthers, BackToNormal, Resume, TypeOK
    <3>2. \A u \in Vcpus, h \in Hooks : u # v => (Owns(u, h)' <=> Owns(u, h))
      BY <2>1, <3>1 DEF Owns, StepsOver, TakingOut, Calling
    <3>3. \/ update'[v] = Vcpus /\ trap'[v] = "step"
          \/ update'[v] = {} /\ vmiState'[v] = "NORMAL"
      BY <1>1, <2>1, <2>2 DEF WaitForOthers, BackToNormal, TypeOK
    <3>4. \A h \in Hooks : ~Owns(v, h)'
      BY <3>3 DEF Owns, StepsOver, TakingOut, Calling
    <3> QED
      BY <3>2, <3>4
  <2>4. \A h \in Hooks : bp'[h] = IF h = a THEN ArmedCell ELSE bp[h]
    BY <1>1, <2>2 DEF TypeOK
  <2>5. \A u \in Vcpus : Owns(u, a) => u = v
    BY <1>1, <2>1 DEF Exclusive
  <2> HIDE DEF a
  <2>6. \A h \in Hooks :
          \/ bp'[h] = ArmedCell
          \/ bp'[h] = TakenCell /\ \E u \in Vcpus : Owns(u, h)'
    BY <1>1, <2>1, <2>3, <2>4 DEF Exclusive
  <2>7. \A u \in Vcpus, h \in Hooks : Owns(u, h)' => bp'[h] = TakenCell
    BY <1>1, <2>3, <2>4, <2>5 DEF Exclusive
  <2>8. \A u, w \in Vcpus, h \in Hooks : Owns(u, h)' /\ Owns(w, h)' => u = w
    BY <1>1, <2>3 DEF Exclusive
  <2> QED
    BY <1>1, <2>6, <2>7, <2>8 DEF DInv, Exclusive
<1>5. ASSUME NEW v \in Vcpus,
             \/ \E h \in Hooks : ReachHook(v, h)
             \/ FetchInt3(v) \/ Execute(v) \/ NotClaimed(v) \/ CallGoesOn(v)
      PROVE  DInv'
  BY <1>1, <1>2, <1>5, OwnersKept
<1>6. CASE UNCHANGED hookVars
  BY <1>2, <1>6 DEF hookVars, Owns, StepsOver, TakingOut, Calling
<1> QED
  BY <1>3, <1>4, <1>5, <1>6 DEF Next, HandleDebug

\* Where the breakpoint calls do not fail, a hook is missing from guest
\* memory only while a vCPU steps over that hook, or its handler has yet to
\* come back from taking it out, however many vCPUs do so at once and however
\* their handlers interleave while they wait for one another's update: every
\* vmi_monitor_step_complete() puts back what its own
\* vmi_monitor_breakpoint_hit() took out.
THEOREM OutOnlyWhileStepped ==
  ASSUME Faults = {} PROVE Spec => []DisarmedOnlyInStepOver
<1>1. DInv /\ [Next]_hookVars => DInv'
  BY NextDInv
<1>2. DInv => DisarmedOnlyInStepOver
  BY ArmedTaken DEF DInv, Exclusive, DisarmedOnlyInStepOver, Owns
<1> QED
  BY InitDInv, <1>1, <1>2, PTL DEF Spec

-----------------------------------------------------------------------------
(***************************************************************************)
(*                  PART 2: ARMING AND BOOT SYNC (BootArming)              *)
(***************************************************************************)
(***************************************************************************)
(* What arming does to one cell, and to both.                              *)
(***************************************************************************)
LEMMA InsertErr ==
  ASSUME NEW c, NEW faults, NEW out \in InsertOutcomes(c, faults)
  PROVE  out.err \in BOOLEAN
<1>1. CASE Registered(c)
  <2>1. out = Outcome([c EXCEPT !.users = @ + 1], FALSE)
    BY <1>1 DEF InsertOutcomes
  <2> QED
    BY <2>1 DEF Outcome
<1>2. CASE ~Registered(c)
  <2> DEFINE patched == [byte |-> Int3, users |-> 1, saved |-> c.byte]
              silent  == [patched EXCEPT !.byte = c.byte]
  <2>1. \/ out = Outcome(patched, FALSE)
        \/ out = Outcome(c, TRUE)
        \/ out = Outcome(silent, FALSE)
    BY <1>2 DEF InsertOutcomes
  <2> HIDE DEF patched, silent
  <2>2. CASE out = Outcome(patched, FALSE)
    BY <2>2 DEF Outcome
  <2>3. CASE out = Outcome(c, TRUE)
    BY <2>3 DEF Outcome
  <2>4. CASE out = Outcome(silent, FALSE)
    BY <2>4 DEF Outcome
  <2> QED
    BY <2>1, <2>2, <2>3, <2>4
<1> QED
  BY <1>1, <1>2

\* vmi_arm_addr() patches a cell, or leaves it as clean as it was.
LEMMA ArmAddrCell ==
  ASSUME NEW c \in Cell, Clean(c), NEW faults,
         NEW out \in ArmAddrOutcomes(c, faults)
  PROVE  out.cell \in Cell /\ Clean(out.cell) /\ out.err \in BOOLEAN
<1> DEFINE After(ins) ==
             IF ins.err THEN {ins}
             ELSE UNION {IF ok THEN {ins} ELSE TakeBack(ins.cell, faults) :
                           ok \in ReadbackOutcomes(ins.cell, faults)}
<1>1. PICK rem \in RemoveOutcomes(c, faults) :
        \E ins \in InsertOutcomes(rem.cell, faults) : out \in After(ins)
  BY DEF ArmAddrOutcomes
<1>2. rem.cell \in Cell /\ Clean(rem.cell)
  BY RemoveCell
<1>3. PICK ins \in InsertOutcomes(rem.cell, faults) : out \in After(ins)
  BY <1>1
<1>0. ins.cell \in Cell /\ Clean(ins.cell) /\ ins.err \in BOOLEAN
  BY <1>2, InsertCell, InsertErr
<1>4. out = ins \/ out \in TakeBack(ins.cell, faults)
  BY <1>3
<1>5. ASSUME NEW back \in RemoveOutcomes(ins.cell, faults),
             out = Outcome(back.cell, TRUE)
      PROVE  out.cell \in Cell /\ Clean(out.cell) /\ out.err \in BOOLEAN
  BY <1>0, <1>5, RemoveCell DEF Outcome
<1> QED
  BY <1>0, <1>4, <1>5 DEF TakeBack

\* vmi_arm_once() likewise, for the cells of all hooks.
CleanCells(cells) == cells \in [Hooks -> Cell] /\ \A h \in Hooks : Clean(cells[h])

LEMMA ArmOnceCells ==
  ASSUME NEW cells, CleanCells(cells), NEW faults,
         NEW out \in ArmOnceOutcomes(cells, faults)
  PROVE  CleanCells(out.cell) /\ out.err \in BOOLEAN
<1>1. "entry" \in Hooks /\ (RetCapture => "ret" \in Hooks)
  BY DEF Hooks
<1>2. PICK e \in ArmAddrOutcomes(cells["entry"], faults) :
        out \in IF e.err \/ ~RetCapture
           THEN {Outcome([cells EXCEPT !["entry"] = e.cell], e.err)}
           ELSE UNION {IF r.err
                         THEN {Outcome(WithHooks(e2.cell, r.cell), TRUE) :
                                 e2 \in TakeBack(e.cell, faults)}
                         ELSE {Outcome(WithHooks(e.cell, r.cell), FALSE)} :
                         r \in ArmAddrOutcomes(cells["ret"], faults)}
  BY DEF ArmOnceOutcomes
<1>3. e.cell \in Cell /\ Clean(e.cell) /\ e.err \in BOOLEAN
  BY <1>1, ArmAddrCell DEF CleanCells
<1>4. CASE e.err \/ ~RetCapture
  <2>1. out.cell = [cells EXCEPT !["entry"] = e.cell] /\ out.err = e.err
    BY <1>2, <1>4 DEF Outcome
  <2> QED
    BY <1>3, <2>1 DEF CleanCells
<1>5. CASE ~e.err /\ RetCapture
  <2>1. PICK r \in ArmAddrOutcomes(cells["ret"], faults) :
          out \in IF r.err
                    THEN {Outcome(WithHooks(e2.cell, r.cell), TRUE) :
                            e2 \in TakeBack(e.cell, faults)}
                    ELSE {Outcome(WithHooks(e.cell, r.cell), FALSE)}
    BY <1>2, <1>5
  <2>2. r.cell \in Cell /\ Clean(r.cell)
    BY <1>1, <1>5, ArmAddrCell DEF CleanCells
  <2>3. ASSUME NEW c \in Cell, Clean(c) PROVE CleanCells(WithHooks(c, r.cell))
    BY <2>2, <2>3 DEF CleanCells, WithHooks
  <2>4. ASSUME NEW e2 \in TakeBack(e.cell, faults)
        PROVE  e2.cell \in Cell /\ Clean(e2.cell)
    BY <1>3, <2>4, RemoveCell DEF TakeBack, Outcome
  <2>5. CASE r.err
    <3>1. PICK e2 \in TakeBack(e.cell, faults) :
            out = Outcome(WithHooks(e2.cell, r.cell), TRUE)
      BY <2>1, <2>5
    <3>2. out.cell = WithHooks(e2.cell, r.cell) /\ out.err = TRUE
      BY <3>1 DEF Outcome
    <3> QED
      BY <2>3, <2>4, <3>2
  <2>6. CASE ~r.err
    <3>1. out = Outcome(WithHooks(e.cell, r.cell), FALSE)
      BY <2>1, <2>6
    <3>2. out.cell = WithHooks(e.cell, r.cell) /\ out.err = FALSE
      BY <3>1 DEF Outcome
    <3> QED
      BY <1>3, <2>3, <3>2
  <2> QED
    BY <2>5, <2>6
<1> QED
  BY <1>4, <1>5

-----------------------------------------------------------------------------
(***************************************************************************)
(* Every world, any number of vCPUs.                                       *)
(*                                                                         *)
(* The main thread's and boot sync's calls keep the registry clean as the  *)
(* handlers do; the kernel image, loaded over an int3, only takes int3     *)
(* bytes away.  vmi_arm_attempts stays within VMI_ARM_MAX_ATTEMPTS because *)
(* a timer is due, or an attempt begun, only below it.                     *)
(***************************************************************************)
CanTry ==
  /\ armTimer = "due" \/ op = "try" => attempts < MaxAttempts
  /\ op # "none" => armTimer # "due"

BInv == BootTypeOK /\ IInv /\ CanTry

LEMMA EntryIsHook == "entry" \in Hooks /\ (RetCapture => "ret" \in Hooks)
  BY DEF Hooks

\* A vCPU's own actions are those of the step-over machine.
LEMMA VcpuSteps ==
  ASSUME NEW v \in Vcpus, Hit(v) \/ Handled(v) \/ GuestRuns(v)
  PROVE  Next
  BY DEF Hit, Handled, GuestRuns, Next, HandleDebug

\* One breakpoint call of the main thread.
LEMMA MainCallIInv ==
  ASSUME IInv, hook \in Hooks, NEW out, MainCall(out),
         out.cell \in Cell, Clean(bp[hook]) => Clean(out.cell)
  PROVE  IInv'
<1>1. Clean(bp[hook]) /\ bp' = [bp EXCEPT ![hook] = out.cell]
  BY DEF MainCall, IInv, HooksClean
<1>2. bp' \in [Hooks -> Cell] /\ HooksClean'
  BY <1>1, CellReplaced DEF IInv, TypeOK
<1>3. TypeOK' /\ TrapOnHook' /\ CallInHandler'
  BY <1>2 DEF MainCall, IInv, TypeOK, TrapOnHook, CallInHandler, Calling
<1> QED
  BY <1>2, <1>3 DEF IInv

\* The kernel image over all hooks, whatever is registered there.
Loaded == [h \in Hooks |-> [bp[h] EXCEPT !.byte = Code]]

LEMMA LoadedCells == ASSUME IInv PROVE CleanCells(Loaded)
<1> SUFFICES ASSUME NEW h \in Hooks
             PROVE  Loaded[h] \in Cell /\ Clean(Loaded[h])
  BY DEF CleanCells, Loaded
<1>1. bp[h] \in Cell /\ Clean(bp[h])
  BY DEF IInv, TypeOK, HooksClean
<1>2. Loaded[h] = [byte |-> Code, users |-> bp[h].users, saved |-> bp[h].saved]
  BY <1>1 DEF Loaded, Cell
<1> QED
  BY <1>1, <1>2 DEF Cell, Clean, Registered, Bytes, Code, Int3

LEMMA KernelLoadedIInv ==
  ASSUME IInv, NEW v \in Vcpus, KernelLoaded(v) PROVE IInv'
<1>1. CleanCells(Loaded)
  BY LoadedCells
<1>2. CleanCells(bp')
  <2>1. \/ bp' = Loaded
        \/ \E out \in ArmOnceOutcomes(Loaded, world.late) : bp' = out.cell
    BY DEF KernelLoaded, Loaded
  <2> QED
    BY <1>1, <2>1, ArmOnceCells
<1>3. bp' \in [Hooks -> Cell] /\ HooksClean'
  BY <1>2 DEF CleanCells, HooksClean
<1> QED
  BY <1>3 DEF KernelLoaded, IInv, TypeOK, TrapOnHook, CallInHandler, Calling

LEMMA GuestResetIInv == ASSUME IInv, GuestReset PROVE IInv'
  BY DEF GuestReset, IInv, TypeOK, TrapOnHook, CallInHandler, Calling, HooksClean

LEMMA InitBInv == BootInit => BInv
<1> SUFFICES ASSUME BootInit PROVE BInv
  OBVIOUS
<1>1. Fresh(Blank) \in Cell /\ Clean(Fresh(Blank))
  BY DEF Fresh, Cell, Bytes, Clean, Registered, Int3, Blank
<1>2. TypeOK
  BY <1>1 DEF BootInit, InitVcpus, TypeOK
<1>3. TrapOnHook /\ CallInHandler /\ HooksClean
  BY <1>1 DEF BootInit, InitVcpus, TrapOnHook, CallInHandler, Calling, HooksClean
<1>4. world.resets \in Nat /\ MaxAttempts \in Nat
  BY BootAssumption DEF BootInit
<1>5. BootTypeOK /\ CanTry
  <2>1. attempts \in 0..MaxAttempts /\ resets \in 0..world.resets
    BY <1>4 DEF BootInit
  <2> QED
    BY <1>2, <2>1, EntryIsHook DEF BootInit, BootTypeOK, CanTry
<1> QED
  BY <1>2, <1>3, <1>5 DEF BInv, IInv

LEMMA NextBInv == BInv /\ [BootNext]_bootVars => BInv'
<1> SUFFICES ASSUME BInv, [BootNext]_bootVars PROVE BInv'
  OBVIOUS
<1>1. /\ BootTypeOK /\ IInv /\ CanTry /\ TypeOK
      /\ hook \in Hooks /\ bp[hook] \in Cell
  BY DEF BInv, BootTypeOK, IInv, TypeOK
<1>2. world \in Worlds /\ world.resets \in Nat /\ MaxAttempts \in Nat \ {0}
  BY <1>1, BootAssumption DEF BootTypeOK
<1>3. ASSUME UNCHANGED hookVars PROVE IInv'
  BY <1>1, <1>3, NextIInv
<1>4. ASSUME VmStart, UNCHANGED world PROVE BInv'
  BY <1>1, <1>2, <1>3, <1>4 DEF VmStart, BInv, BootTypeOK, IInv, CanTry
<1>5. ASSUME VmStop, UNCHANGED world PROVE BInv'
  BY <1>1, <1>2, <1>3, <1>5
     DEF VmStop, armVars, mainVars, BInv, BootTypeOK, IInv, CanTry
<1>6. ASSUME TimerFires, UNCHANGED world PROVE BInv'
  BY <1>1, <1>2, <1>3, <1>6
     DEF TimerFires, hostVars, BInv, BootTypeOK, IInv, CanTry
<1>7. ASSUME TryArm, UNCHANGED world PROVE BInv'
  <2>1. IInv' /\ TypeOK'
    BY <1>3, <1>7 DEF TryArm, IInv
  <2>2. attempts' \in 0..MaxAttempts
    <3>1. attempts \in 0..MaxAttempts /\ attempts < MaxAttempts
      BY <1>1, <1>7 DEF TryArm, OnMain, CanTry, BootTypeOK
    <3>2. attempts' = attempts \/ attempts' = attempts + 1
      BY <1>7 DEF TryArm, AttemptsCounted
    <3> QED
      BY <1>2, <3>1, <3>2
  <2>3. CanTry'
    BY <1>1, <1>7 DEF TryArm, OnMain, CanTry, BootTypeOK, AttemptsCounted
  <2> QED
    BY <1>1, <1>7, <2>1, <2>2, <2>3, EntryIsHook
    DEF TryArm, OnMain, VcpusResume, BInv, BootTypeOK
<1>8. ASSUME NEW out, MainCall(out), out.cell \in Cell,
             Clean(bp[hook]) => Clean(out.cell),
             hook' \in Hooks, op' \in {"insert", "verify", "undo", "settle"},
             op # "none", UNCHANGED <<overlapped, world>>
      PROVE  BInv'
  <2>1. IInv' /\ TypeOK'
    BY <1>1, <1>8, MainCallIInv DEF IInv
  <2>2. waiting' \in {"no", "update", "lock"}
    BY <1>8 DEF MainCall
  <2> QED
    BY <1>1, <1>8, <2>1, <2>2
       DEF MainCall, armVars, hostVars, BInv, BootTypeOK, CanTry
<1>9. GiveUpAddr => hook' \in Hooks /\ op' \in {"undo", "settle"}
  BY <1>1, EntryIsHook DEF GiveUpAddr
<1>10. ASSUME ArmRemove, UNCHANGED world PROVE BInv'
  <2>1. PICK out \in RemoveOutcomes(bp[hook], ArmFaults) : MainCall(out)
    BY <1>10 DEF ArmRemove
  <2>2. op # "none" /\ UNCHANGED overlapped
    BY <1>10 DEF ArmRemove, OnMain
  <2> QED
    BY <1>1, <1>8, <1>10, <2>1, <2>2, RemoveCell DEF ArmRemove
<1>11. ASSUME ArmInsert, UNCHANGED world PROVE BInv'
  <2>1. PICK out \in InsertOutcomes(bp[hook], ArmFaults) :
          /\ MainCall(out)
          /\ IF out.err THEN GiveUpAddr ELSE op' = "verify" /\ UNCHANGED hook
    BY <1>11 DEF ArmInsert
  <2>2. op # "none" /\ UNCHANGED overlapped
    BY <1>11 DEF ArmInsert, OnMain
  <2> QED
    BY <1>1, <1>8, <1>9, <1>11, <2>1, <2>2, InsertCell
<1>12. ASSUME ArmVerify, UNCHANGED world PROVE BInv'
  <2>1. IInv' /\ TypeOK'
    BY <1>3, <1>12 DEF ArmVerify, IInv
  <2>2. hook' \in Hooks /\ op' \in {"undo", "remove", "settle"}
    BY <1>1, <1>12, EntryIsHook DEF ArmVerify
  <2>3. op # "none" /\ waiting' = "no" /\ UNCHANGED overlapped
    BY <1>12 DEF ArmVerify, OnMain
  <2> QED
    BY <1>1, <1>12, <2>1, <2>2, <2>3
    DEF ArmVerify, armVars, hostVars, BInv, BootTypeOK, CanTry
<1>13. ASSUME ArmUndo, UNCHANGED world PROVE BInv'
  <2>1. PICK out \in RemoveOutcomes(bp[hook], ArmFaults) : MainCall(out)
    BY <1>13 DEF ArmUndo
  <2>2. GiveUpAddr
    BY <1>13 DEF ArmUndo
  <2>3. op # "none" /\ UNCHANGED overlapped
    BY <1>13 DEF ArmUndo, OnMain
  <2> QED
    BY <1>1, <1>8, <1>9, <1>13, <2>1, <2>2, <2>3, RemoveCell
<1>14. ASSUME Settle, UNCHANGED world PROVE BInv'
  <2>1. IInv' /\ TypeOK'
    BY <1>3, <1>14 DEF Settle, IInv
  <2>2. /\ armTimer' \in {"null", "due", armTimer}
        /\ qemu' \in {"crashed", qemu} /\ vm' \in {"running", vm}
        /\ op' = "none"
    BY <1>14 DEF Settle, VcpusResume
  <2>3. CanTry'
    <3>1. armTimer' = armTimer \/ armTimer' = "null" \/ attempts < MaxAttempts
      BY <1>1, <1>2, <1>14 DEF Settle, AttemptsUsedUp, BootTypeOK
    <3> QED
      BY <1>1, <1>14, <2>2, <3>1 DEF Settle, BootTypeOK, CanTry
  <2>4. BootTypeOK'
    <3>1. /\ UNCHANGED <<attempts, firstHit, bootSync, hook, overlapped,
                         loaded, resets>>
          /\ waiting' = "no"
      BY <1>14 DEF Settle, OnMain
    <3> QED
      BY <1>1, <1>14, <2>1, <2>2, <3>1 DEF BootTypeOK
  <2> QED
    BY <2>1, <2>3, <2>4 DEF BInv
<1>15. ASSUME ServeWork, UNCHANGED world PROVE BInv'
  BY <1>1, <1>3, <1>15
     DEF ServeWork, armVars, hostVars, BInv, BootTypeOK, IInv, CanTry
<1>16. ASSUME GuestReset, UNCHANGED world PROVE BInv'
  <2>1. IInv' /\ TypeOK'
    BY <1>1, <1>16, GuestResetIInv DEF IInv
  <2>2. resets' \in 0..world'.resets
    BY <1>1, <1>2, <1>16 DEF GuestReset, BootTypeOK
  <2> QED
    BY <1>1, <1>16, <2>1, <2>2
    DEF GuestReset, armVars, mainVars, BInv, BootTypeOK, CanTry
<1>17. ASSUME NEW v \in Vcpus, KernelLoaded(v), UNCHANGED world PROVE BInv'
  <2>1. IInv' /\ TypeOK'
    BY <1>1, <1>17, KernelLoadedIInv DEF IInv
  <2>2. /\ bootSync' \in BOOLEAN /\ armTimer' \in {"null", armTimer}
        /\ overlapped' \in BOOLEAN /\ UNCHANGED <<op, hook, waiting>>
    BY <1>1, <1>17 DEF KernelLoaded, OnVcpu, BootTypeOK
  <2> QED
    BY <1>1, <1>17, <2>1, <2>2 DEF KernelLoaded, BInv, BootTypeOK, CanTry
<1>18. ASSUME NEW v \in Vcpus, Hit(v) \/ Handled(v) \/ GuestRuns(v),
              UNCHANGED world
       PROVE  BInv'
  <2>1. IInv' /\ TypeOK'
    BY <1>1, <1>18, VcpuSteps, NextIInv DEF IInv
  <2>2. /\ firstHit' \in BOOLEAN /\ armTimer' \in {"null", armTimer}
        /\ overlapped' \in BOOLEAN
        /\ UNCHANGED <<attempts, bootSync, op, hook, waiting, hostVars>>
    BY <1>1, <1>18
       DEF Hit, Handled, GuestRuns, OnVcpu, armVars, mainVars, BootTypeOK
  <2> QED
    BY <1>1, <1>18, <2>1, <2>2 DEF hostVars, BInv, BootTypeOK, CanTry
<1>19. CASE UNCHANGED bootVars
  BY <1>1, <1>3, <1>19
  DEF bootVars, armVars, mainVars, hostVars, BInv, BootTypeOK, IInv, CanTry
<1> QED
  BY <1>4, <1>5, <1>6, <1>7, <1>10, <1>11, <1>12, <1>13, <1>14, <1>15, <1>16,
     <1>17, <1>18, <1>19 DEF BootNext, Main

\* The flags of vmi_try_arm(), its timer and its attempt counter, and
\* everything of the step-over machine keep their types in every world.
THEOREM BootTypeCorrect == BootSpec => []BootTypeOK
  BY InitBInv, NextBInv, PTL DEF BootSpec, BInv

-----------------------------------------------------------------------------
(***************************************************************************)
(* Until a handler runs while an attempt waits.                            *)
(*                                                                         *)
(* An attempt's calls release the BQL, so a handler of the vCPU thread may *)
(* run in the middle of it; overlapped says that one has.  As long as none *)
(* has, they ran between attempts only: during one nobody frees the timer, *)
(* nobody has told the poller to stop and no vCPU is in a step-over.       *)
(***************************************************************************)
MidAttempt == op \notin {"none", "try"}

TimerKept ==
  /\ op # "none" => armTimer = "idle"
  /\ MidAttempt => ~firstHit /\ ~bootSync
  /\ NoNullTimer

LEMMA InitTimerKept == BootInit => TimerKept
  BY DEF BootInit, TimerKept, MidAttempt, NoNullTimer

\* A handler that overlaps nothing runs between attempts.
LEMMA BetweenAttempts ==
  ASSUME [BootNext]_bootVars, ~overlapped'
  PROVE  /\ ~overlapped
         /\ \A v \in Vcpus : KernelLoaded(v) \/ Hit(v) \/ Handled(v) =>
              op = "none" /\ op' = op /\ hook' = hook
<1>1. ASSUME NEW v \in Vcpus, KernelLoaded(v) \/ Hit(v) \/ Handled(v)
      PROVE  ~overlapped /\ op = "none" /\ op' = op /\ hook' = hook
  <2>1. OnVcpu
    BY <1>1 DEF KernelLoaded, Hit, Handled
  <2> QED
    BY <2>1 DEF OnVcpu, BqlFree
<1>2. ASSUME NEW v \in Vcpus, GuestRuns(v) PROVE ~overlapped
  BY <1>2 DEF GuestRuns, mainVars
<1>3. CASE Main
  <2>1. overlapped' = overlapped
    BY <1>3 DEF Main, TryArm, ArmRemove, ArmInsert, ArmVerify, ArmUndo, Settle,
                OnMain
  <2> QED
    BY <1>1, <2>1
<1>4. CASE VmStart \/ VmStop \/ TimerFires \/ ServeWork \/ GuestReset
  BY <1>1, <1>4 DEF VmStart, VmStop, TimerFires, ServeWork, GuestReset, mainVars
<1>5. CASE UNCHANGED bootVars
  BY <1>1, <1>5 DEF bootVars, mainVars
<1> QED
  BY <1>1, <1>2, <1>3, <1>4, <1>5 DEF BootNext

LEMMA NextTimerKept ==
  ASSUME TimerKept, [BootNext]_bootVars, ~overlapped' PROVE TimerKept'
<1> USE DEF TimerKept, MidAttempt, NoNullTimer
<1>2. ASSUME VmStart \/ VmStop \/ TimerFires \/ ServeWork \/ GuestReset
      PROVE  TimerKept'
  BY <1>2 DEF VmStart, VmStop, TimerFires, ServeWork, GuestReset,
              armVars, mainVars, hostVars
<1>3. ASSUME TryArm \/ Settle PROVE TimerKept'
  <2>1. CASE TryArm
    BY <2>1 DEF TryArm, OnMain
  <2>2. CASE Settle
    BY <2>2 DEF Settle, OnMain
  <2> QED
    BY <1>3, <2>1, <2>2
<1>4. ASSUME ArmRemove \/ ArmInsert \/ ArmVerify \/ ArmUndo PROVE TimerKept'
  <2>1. MidAttempt /\ UNCHANGED <<armVars, hostVars>>
    BY <1>4 DEF ArmRemove, ArmInsert, ArmVerify, ArmUndo, OnMain, MainCall
  <2> QED
    BY <2>1 DEF armVars, hostVars
<1>5. ASSUME NEW v \in Vcpus, KernelLoaded(v) \/ Hit(v) \/ Handled(v)
      PROVE  TimerKept'
  <2>1. op' = "none"
    BY <1>5, BetweenAttempts
  <2>2. UNCHANGED qemu
    BY <1>5 DEF KernelLoaded, Hit, Handled, hostVars
  <2> QED
    BY <2>1, <2>2
<1>6. ASSUME NEW v \in Vcpus, GuestRuns(v) PROVE TimerKept'
  BY <1>6 DEF GuestRuns, armVars, mainVars, hostVars
<1>7. CASE UNCHANGED bootVars
  BY <1>7 DEF bootVars, armVars, mainVars, hostVars
<1> QED
  BY <1>2, <1>3, <1>4, <1>5, <1>6, <1>7 DEF BootNext, Main

\* The poller finds its timer freed under it (timer_mod(NULL)) only after a
\* handler, boot sync's or a hit's, has run while an attempt of the poller's
\* waited in run_on_cpu(): whatever fails, and with any number of resets.
THEOREM TimerNotFreed == BootSpec => [](~overlapped => NoNullTimer)
<1> DEFINE Kept == ~overlapped => TimerKept
<1>1. BootInit => Kept
  BY InitTimerKept
<1>2. Kept /\ [BootNext]_bootVars => Kept'
  BY NextTimerKept, BetweenAttempts
<1>3. Kept => (~overlapped => NoNullTimer)
  BY DEF TimerKept
<1> QED
  BY <1>1, <1>2, <1>3, PTL DEF BootSpec

\* No step-over before the first hit.
NoneBefore == ~firstHit => \A v \in Vcpus : vmiState[v] = "NORMAL"

\* A hook being stepped over is registered by nobody, and by one vCPU at a
\* time; nor is a hook an attempt is about to insert.
Alone ==
  /\ \A v \in Vcpus : vmiState[v] = "STEPPING" => ~Registered(bp[stepAddr[v]])
  /\ \A u, v \in Vcpus, h \in Hooks : StepsOver(u, h) /\ StepsOver(v, h) => u = v
  /\ op = "insert" => ~Registered(bp[hook])

SInv == ~overlapped => TimerKept /\ SingleUse /\ Alone

\* Taking out an int3 that is registered succeeds, while arming.
RemoveSucceeds == \A w \in Worlds : "remove" \notin w.early \cup w.late

LEMMA NoRemoveFault ==
  ASSUME RemoveSucceeds, BootTypeOK
  PROVE  "remove" \notin ArmFaults /\ "remove" \notin world.late
  BY DEF RemoveSucceeds, BootTypeOK, ArmFaults

\* The first call of vmi_arm_addr() leaves a free address.
LEMMA RemoveClears ==
  ASSUME NEW c \in Cell, c.users <= 1, Clean(c),
         NEW faults, "remove" \notin faults,
         NEW out \in RemoveOutcomes(c, faults)
  PROVE  out.cell.users = 0
<1>1. c.users \in Nat
  BY DEF Cell
<1>2. CASE Registered(c)
  <2>1. c.users = 1
    BY <1>1, <1>2 DEF Registered
  <2>2. out = Outcome(Removed(c), FALSE)
    BY <1>2 DEF RemoveOutcomes
  <2>3. ~out.err
    BY <2>2 DEF Outcome
  <2> QED
    BY <2>1, <2>3, RemoveCell
<1>3. CASE ~Registered(c)
  <2>1. out.cell = c
    BY <1>3 DEF RemoveOutcomes, Outcome
  <2> QED
    BY <1>1, <1>3, <2>1 DEF Registered
<1> QED
  BY <1>2, <1>3

\* So vmi_arm_addr() registers an address at most once, as vmi_arm_once()
\* does both.
LEMMA ArmAddrUsers ==
  ASSUME NEW c \in Cell, c.users <= 1, Clean(c),
         NEW faults, "remove" \notin faults,
         NEW out \in ArmAddrOutcomes(c, faults)
  PROVE  out.cell.users <= 1
<1> DEFINE After(ins) ==
             IF ins.err THEN {ins}
             ELSE UNION {IF ok THEN {ins} ELSE TakeBack(ins.cell, faults) :
                           ok \in ReadbackOutcomes(ins.cell, faults)}
<1>1. PICK rem \in RemoveOutcomes(c, faults) :
        \E ins \in InsertOutcomes(rem.cell, faults) : out \in After(ins)
  BY DEF ArmAddrOutcomes
<1>2. rem.cell \in Cell /\ Clean(rem.cell) /\ rem.cell.users = 0
  BY RemoveCell, RemoveClears
<1>3. PICK ins \in InsertOutcomes(rem.cell, faults) : out \in After(ins)
  BY <1>1
<1>4. ins.cell \in Cell /\ Clean(ins.cell) /\ ins.cell.users <= 1
  BY <1>2, InsertCell
<1>5. out = ins \/ out \in TakeBack(ins.cell, faults)
  BY <1>3
<1>6. ASSUME NEW back \in RemoveOutcomes(ins.cell, faults),
             out = Outcome(back.cell, TRUE)
      PROVE  out.cell.users <= 1
  <2>1. back.cell.users = 0 /\ out.cell = back.cell
    BY <1>4, <1>6, RemoveClears DEF Outcome
  <2> QED
    BY <2>1
<1> QED
  BY <1>4, <1>5, <1>6 DEF TakeBack

AtMostOnce(cells) == \A h \in Hooks : cells[h].users <= 1

LEMMA ArmOnceUsers ==
  ASSUME NEW cells, CleanCells(cells), AtMostOnce(cells),
         NEW faults, "remove" \notin faults,
         NEW out \in ArmOnceOutcomes(cells, faults)
  PROVE  AtMostOnce(out.cell)
<1>1. PICK e \in ArmAddrOutcomes(cells["entry"], faults) :
        out \in IF e.err \/ ~RetCapture
           THEN {Outcome([cells EXCEPT !["entry"] = e.cell], e.err)}
           ELSE UNION {IF r.err
                         THEN {Outcome(WithHooks(e2.cell, r.cell), TRUE) :
                                 e2 \in TakeBack(e.cell, faults)}
                         ELSE {Outcome(WithHooks(e.cell, r.cell), FALSE)} :
                         r \in ArmAddrOutcomes(cells["ret"], faults)}
  BY DEF ArmOnceOutcomes
<1>2. e.cell \in Cell /\ Clean(e.cell) /\ e.cell.users <= 1
  BY EntryIsHook, ArmAddrCell, ArmAddrUsers DEF CleanCells, AtMostOnce
<1>3. CASE e.err \/ ~RetCapture
  <2>1. out.cell = [cells EXCEPT !["entry"] = e.cell]
    BY <1>1, <1>3 DEF Outcome
  <2> QED
    BY <1>2, <2>1 DEF CleanCells, AtMostOnce
<1>4. CASE ~e.err /\ RetCapture
  <2>1. PICK r \in ArmAddrOutcomes(cells["ret"], faults) :
          out \in IF r.err
                    THEN {Outcome(WithHooks(e2.cell, r.cell), TRUE) :
                            e2 \in TakeBack(e.cell, faults)}
                    ELSE {Outcome(WithHooks(e.cell, r.cell), FALSE)}
    BY <1>1, <1>4
  <2>2. r.cell.users <= 1
    BY <1>4, EntryIsHook, ArmAddrUsers DEF CleanCells, AtMostOnce
  <2>3. ASSUME NEW c, c.users <= 1 PROVE AtMostOnce(WithHooks(c, r.cell))
    BY <2>2, <2>3 DEF AtMostOnce, WithHooks
  <2>4. CASE r.err
    <3>1. PICK e2 \in TakeBack(e.cell, faults) :
            out = Outcome(WithHooks(e2.cell, r.cell), TRUE)
      BY <2>1, <2>4
    <3>2. PICK back \in RemoveOutcomes(e.cell, faults) :
            e2 = Outcome(back.cell, TRUE)
      BY DEF TakeBack
    <3>3. out.cell = WithHooks(back.cell, r.cell) /\ back.cell.users = 0
      BY <1>2, <3>1, <3>2, RemoveClears DEF Outcome
    <3> QED
      BY <2>3, <3>3
  <2>5. CASE ~r.err
    <3>1. out.cell = WithHooks(e.cell, r.cell)
      BY <2>1, <2>5 DEF Outcome
    <3> QED
      BY <1>2, <2>3, <3>1
  <2> QED
    BY <2>4, <2>5
<1> QED
  BY <1>3, <1>4

LEMMA InitSInv == BootInit => NoneBefore /\ SInv
<1> SUFFICES ASSUME BootInit PROVE NoneBefore /\ SInv
  OBVIOUS
<1>1. NoneBefore
  BY DEF BootInit, InitVcpus, NoneBefore
<1>2. SingleUse
  BY DEF BootInit, SingleUse, Fresh
<1>3. Alone
  BY DEF BootInit, InitVcpus, Alone, StepsOver
<1> QED
  BY <1>1, <1>2, <1>3, InitTimerKept DEF SInv

\* A vCPU steps over a hook only after a hit of it.
LEMMA NextNoneBefore ==
  BInv /\ NoneBefore /\ [BootNext]_bootVars => NoneBefore'
<1> SUFFICES ASSUME BInv, NoneBefore, [BootNext]_bootVars PROVE NoneBefore'
  OBVIOUS
<1>1. ASSUME UNCHANGED vmiState, firstHit' = firstHit PROVE NoneBefore'
  BY <1>1 DEF NoneBefore
<1>2. ASSUME NEW v \in Vcpus, Hit(v) PROVE NoneBefore'
  BY <1>2 DEF Hit, NoneBefore
<1>3. ASSUME NEW v \in Vcpus, Handled(v) PROVE NoneBefore'
  <2>1. firstHit' = firstHit
    BY <1>3 DEF Handled, armVars
  <2>2. CASE StepComplete(v)
    <3>1. vmiState' = vmiState \/ vmiState' = [vmiState EXCEPT ![v] = "NORMAL"]
      BY <2>2 DEF StepComplete, WaitForOthers, BackToNormal
    <3> QED
      BY <2>1, <3>1 DEF NoneBefore, BInv, IInv, TypeOK
  <2>3. CASE NotClaimed(v)
    BY <1>1, <2>1, <2>3 DEF NotClaimed
  <2> QED
    BY <1>3, <2>2, <2>3 DEF Handled
<1>4. ASSUME NEW v \in Vcpus, KernelLoaded(v) \/ GuestRuns(v) PROVE NoneBefore'
  BY <1>1, <1>4
     DEF KernelLoaded, GuestRuns, ReachHook, FetchInt3, Execute, armVars
<1>5. ASSUME Main PROVE NoneBefore'
  BY <1>1, <1>5 DEF Main, TryArm, ArmRemove, ArmInsert, ArmVerify, ArmUndo,
                    Settle, MainCall, hookVars, armVars
<1>6. ASSUME VmStart \/ VmStop \/ TimerFires \/ ServeWork \/ GuestReset
      PROVE  NoneBefore'
  BY <1>1, <1>6 DEF VmStart, VmStop, TimerFires, ServeWork, GuestReset,
                    hookVars, armVars
<1>7. CASE UNCHANGED bootVars
  BY <1>1, <1>7 DEF bootVars, hookVars, armVars
<1> QED
  BY <1>2, <1>3, <1>4, <1>5, <1>6, <1>7 DEF BootNext

\* The step-over's own remove and insert: what is being stepped over has no
\* user, so the insert that ends it makes it one.
LEMMA NextAlone ==
  ASSUME OneVcpu, RemoveSucceeds,
         BInv, NoneBefore, SingleUse, Alone, TimerKept,
         [BootNext]_bootVars, ~overlapped'
  PROVE  SingleUse' /\ Alone'
<1>1. /\ BootTypeOK /\ IInv /\ TypeOK /\ hook \in Hooks
      /\ \A h \in Hooks : bp[h] \in Cell /\ Clean(bp[h]) /\ bp[h].users \in Nat
  BY DEF BInv, BootTypeOK, IInv, TypeOK, HooksClean, Cell
<1>2. "remove" \notin ArmFaults /\ "remove" \notin world.late
  BY <1>1, NoRemoveFault
<1>3. MidAttempt => \A v \in Vcpus : vmiState[v] = "NORMAL"
  BY DEF TimerKept, NoneBefore
<1>4. ASSUME UNCHANGED <<bp, vmiState, stepAddr>>,
             op' # "insert" \/ (op' = op /\ hook' = hook)
      PROVE  SingleUse' /\ Alone'
  BY <1>4 DEF SingleUse, Alone, StepsOver
<1>5. ASSUME NEW c, bp' = [bp EXCEPT ![hook] = c], c.users <= 1,
             op' = "insert" => c.users = 0 /\ hook' = hook,
             UNCHANGED <<vmiState, stepAddr>>, MidAttempt
      PROVE  SingleUse' /\ Alone'
  <2>1. SingleUse'
    BY <1>1, <1>5 DEF SingleUse, TypeOK
  <2>2. Alone'
    BY <1>1, <1>3, <1>5 DEF Alone, StepsOver, TypeOK, Registered
  <2> QED
    BY <2>1, <2>2
<1>6. ASSUME ArmRemove PROVE SingleUse' /\ Alone'
  <2>1. PICK out \in RemoveOutcomes(bp[hook], ArmFaults) : MainCall(out)
    BY <1>6 DEF ArmRemove
  <2>2. out.cell.users = 0 /\ out.cell.users <= 1
    BY <1>1, <1>2, <2>1, RemoveClears DEF SingleUse
  <2>3. MidAttempt /\ hook' = hook
    BY <1>6 DEF ArmRemove, OnMain, MidAttempt
  <2>4. /\ bp' = [bp EXCEPT ![hook] = out.cell]
        /\ UNCHANGED <<vmiState, stepAddr>>
    BY <2>1 DEF MainCall
  <2> QED
    BY <1>5, <2>2, <2>3, <2>4
<1>7. GiveUpAddr => op' # "insert"
  BY DEF GiveUpAddr
<1>8. ASSUME ArmInsert PROVE SingleUse' /\ Alone'
  <2>1. PICK out \in InsertOutcomes(bp[hook], ArmFaults) :
          /\ MainCall(out)
          /\ IF out.err THEN GiveUpAddr ELSE op' = "verify" /\ UNCHANGED hook
    BY <1>8 DEF ArmInsert
  <2>2. bp[hook].users = 0 /\ MidAttempt
    BY <1>1, <1>8 DEF ArmInsert, OnMain, Alone, Registered, MidAttempt
  <2>3. out.cell.users <= 1
    BY <1>1, <2>2, InsertCell
  <2> QED
    BY <1>5, <1>7, <2>1, <2>2, <2>3 DEF MainCall
<1>9. ASSUME ArmUndo PROVE SingleUse' /\ Alone'
  <2>1. PICK out \in RemoveOutcomes(bp[hook], ArmFaults) : MainCall(out)
    BY <1>9 DEF ArmUndo
  <2>2. out.cell.users = 0 /\ out.cell.users <= 1
    BY <1>1, <1>2, <2>1, RemoveClears DEF SingleUse
  <2>3. MidAttempt /\ op' # "insert"
    BY <1>7, <1>9 DEF ArmUndo, OnMain, MidAttempt
  <2>4. /\ bp' = [bp EXCEPT ![hook] = out.cell]
        /\ UNCHANGED <<vmiState, stepAddr>>
    BY <2>1 DEF MainCall
  <2> QED
    BY <1>5, <2>2, <2>3, <2>4
<1>10. ASSUME \/ TryArm \/ ArmVerify \/ Settle
              \/ VmStart \/ VmStop \/ TimerFires \/ ServeWork \/ GuestReset
       PROVE  SingleUse' /\ Alone'
  <2>1. UNCHANGED <<bp, vmiState, stepAddr>>
    BY <1>10 DEF TryArm, ArmVerify, Settle, VmStart, VmStop, TimerFires,
                 ServeWork, GuestReset, hookVars
  <2>2. op' # "insert" \/ (op' = op /\ hook' = hook)
    BY <1>10 DEF TryArm, ArmVerify, Settle, VmStart, VmStop, TimerFires,
                 ServeWork, GuestReset, mainVars, OnMain
  <2> QED
    BY <1>4, <2>1, <2>2
<1>11. ASSUME NEW v \in Vcpus, KernelLoaded(v) PROVE SingleUse' /\ Alone'
  <2>1. op' # "insert" /\ UNCHANGED <<vmiState, stepAddr>>
    BY <1>11, BetweenAttempts DEF KernelLoaded
  <2>2. CleanCells(Loaded) /\ AtMostOnce(Loaded)
    BY <1>1, LoadedCells DEF AtMostOnce, Loaded, Cell, SingleUse
  <2>3. CASE firstHit \/ bootSync
    <3>1. bp' = Loaded
      BY <1>11, <2>3 DEF KernelLoaded, Loaded
    <3>2. \A h \in Hooks : bp'[h].users = bp[h].users
      BY <1>1, <3>1 DEF Loaded, Cell
    <3>3. SingleUse'
      BY <2>2, <3>1 DEF SingleUse, AtMostOnce
    <3>4. Alone'
      BY <1>1, <2>1, <3>2 DEF Alone, StepsOver, TypeOK, Registered
    <3> QED
      BY <3>3, <3>4
  <2>4. CASE ~firstHit /\ ~bootSync
    <3>1. PICK out \in ArmOnceOutcomes(Loaded, world.late) : bp' = out.cell
      BY <1>11, <2>4 DEF KernelLoaded, Loaded
    <3>2. SingleUse'
      BY <1>2, <2>2, <3>1, ArmOnceUsers DEF AtMostOnce, SingleUse
    <3>3. Alone'
      BY <2>1, <2>4 DEF Alone, StepsOver, NoneBefore
    <3> QED
      BY <3>2, <3>3
  <2> QED
    BY <2>3, <2>4
<1>12. ASSUME NEW v \in Vcpus, Hit(v) PROVE SingleUse' /\ Alone'
  <2>1. /\ vmiState[v] = "NORMAL" /\ at[v] \in Hooks /\ Registered(bp[at[v]])
        /\ op' # "insert"
    BY <1>1, <1>12, BetweenAttempts
       DEF Hit, StartStepOver, ClaimsInt3, IInv, TrapOnHook
  <2>2. PICK out \in TakenOut(v) :
          /\ bp' = [bp EXCEPT ![at[v]] = out.cell]
          /\ IF out.err
               THEN UNCHANGED <<vmiState, stepAddr, singlestep>>
               ELSE /\ stepAddr' = [stepAddr EXCEPT ![v] = at[v]]
                    /\ singlestep' = [singlestep EXCEPT ![v] = TRUE]
                    /\ vmiState' = [vmiState EXCEPT ![v] = "STEPPING"]
    BY <1>12, OneStart DEF Hit
  <2>3. /\ out.err => out.cell = bp[at[v]]
        /\ ~out.err => out.cell.users = 0
    <3>1. bp[at[v]].users = 1
      BY <1>1, <2>1 DEF SingleUse, Registered
    <3> QED
      BY <1>1, <2>1, <3>1, RemoveCell DEF TakenOut
  <2>4. SingleUse'
    BY <1>1, <2>1, <2>2, <2>3 DEF SingleUse, TypeOK
  <2>5. Alone'
    <3>1. CASE out.err
      BY <1>1, <2>1, <2>2, <2>3, <3>1 DEF Alone, StepsOver, TypeOK
    <3>2. CASE ~out.err
      <4>1. \A u \in Vcpus : ~StepsOver(u, at[v])
        BY <2>1 DEF Alone, StepsOver
      <4>2. \A u \in Vcpus : vmiState'[u] = "STEPPING" =>
              stepAddr'[u] = IF u = v THEN at[v] ELSE stepAddr[u]
        BY <1>1, <2>2, <3>2 DEF TypeOK
      <4>3. \A u \in Vcpus, h \in Hooks :
              StepsOver(u, h)' <=> IF u = v THEN h = at[v] ELSE StepsOver(u, h)
        BY <1>1, <2>2, <3>2 DEF StepsOver, TypeOK
      <4>4. \A u, w \in Vcpus, h \in Hooks :
              StepsOver(u, h)' /\ StepsOver(w, h)' => u = w
        BY <4>1, <4>3 DEF Alone
      <4>5. \A u \in Vcpus : vmiState'[u] = "STEPPING" => ~Registered(bp'[stepAddr'[u]])
        <5> SUFFICES ASSUME NEW u \in Vcpus, vmiState'[u] = "STEPPING"
                     PROVE  ~Registered(bp'[stepAddr'[u]])
          OBVIOUS
        <5>1. CASE u = v
          BY <1>1, <2>1, <2>2, <2>3, <3>2, <4>2, <5>1 DEF TypeOK, Registered
        <5>2. CASE u # v
          <6>1. vmiState[u] = "STEPPING" /\ stepAddr'[u] = stepAddr[u]
            BY <1>1, <2>2, <3>2, <5>2 DEF TypeOK
          <6>2. stepAddr[u] \in Hooks /\ stepAddr[u] # at[v]
            BY <1>1, <4>1, <6>1 DEF TypeOK, StepsOver
          <6> QED
            BY <1>1, <2>2, <6>1, <6>2 DEF Alone, TypeOK
        <5> QED
          BY <5>1, <5>2
      <4> QED
        BY <2>1, <4>4, <4>5 DEF Alone
    <3> QED
      BY <3>1, <3>2
  <2> QED
    BY <2>4, <2>5
<1>13. ASSUME NEW v \in Vcpus, StepComplete(v), op' # "insert"
       PROVE  SingleUse' /\ Alone'
  <2> DEFINE a == stepAddr[v]
  <2>1. a \in Hooks /\ StepsOver(v, a) /\ bp[a].users = 0 /\ op' # "insert"
    BY <1>1, <1>13 DEF StepComplete, ClaimsStep, TypeOK, StepsOver, Alone,
                       Registered
  <2>2. PICK out \in PutBack(v) : bp' = [bp EXCEPT ![a] = out.cell]
    BY <1>13 DEF StepComplete
  <2>3. out.cell.users <= 1
    BY <1>1, <2>1, InsertCell DEF PutBack
  <2>4. \A u \in Vcpus : vmiState'[u] = "STEPPING" =>
          /\ vmiState[u] = "STEPPING" /\ stepAddr'[u] = stepAddr[u]
          /\ stepAddr[u] \in Hooks /\ stepAddr[u] # a
    <3>1. /\ vmiState' = [vmiState EXCEPT ![v] = "NORMAL"]
          /\ stepAddr' = stepAddr
      BY <1>13 DEF StepComplete, MustWait, BackToNormal, OneVcpu
    <3>2. \A u \in Vcpus : StepsOver(u, a) => u = v
      BY <2>1 DEF Alone
    <3> QED
      BY <1>1, <3>1, <3>2 DEF TypeOK, StepsOver
  <2>5. SingleUse'
    BY <1>1, <2>1, <2>2, <2>3 DEF SingleUse, TypeOK
  <2> HIDE DEF a
  <2>6. Alone'
    BY <1>1, <2>1, <2>2, <2>4 DEF Alone, StepsOver, TypeOK
  <2> QED
    BY <2>5, <2>6
<1>14. ASSUME NEW v \in Vcpus, Handled(v) PROVE SingleUse' /\ Alone'
  <2>1. op' # "insert"
    BY <1>14, BetweenAttempts
  <2> QED
    BY <1>4, <1>13, <1>14, <2>1 DEF Handled, NotClaimed
<1>15. ASSUME NEW v \in Vcpus, GuestRuns(v) PROVE SingleUse' /\ Alone'
  BY <1>4, <1>15 DEF GuestRuns, ReachHook, FetchInt3, Execute, mainVars
<1>16. CASE UNCHANGED bootVars
  BY <1>4, <1>16 DEF bootVars, hookVars, mainVars
<1> QED
  BY <1>6, <1>8, <1>9, <1>10, <1>11, <1>12, <1>14, <1>15, <1>16
  DEF BootNext, Main

LEMMA NextSInv ==
  ASSUME OneVcpu, RemoveSucceeds, BInv, NoneBefore, SInv, [BootNext]_bootVars
  PROVE  SInv'
<1>1. ~overlapped' => TimerKept' /\ SingleUse' /\ Alone'
  BY NextTimerKept, NextAlone, BetweenAttempts DEF SInv
<1> QED
  BY <1>1 DEF SInv

\* "the two can never race each other's kvm_insert_breakpoint() /
\* kvm_remove_breakpoint() calls" (vmi-syscall-monitor.c:303-307): they do not
\* as long as no handler has run while an attempt waited in run_on_cpu().  The
\* poller then finds its timer and no hook is registered twice, for any number
\* of attempts and resets and whatever else fails, if a registered int3 can be
\* taken out.
THEOREM Serialized ==
  ASSUME OneVcpu, RemoveSucceeds PROVE BootSpec => []SafeUntilOverlap
<1> DEFINE Inv == BInv /\ NoneBefore /\ SInv
<1>1. BootInit => Inv
  BY InitBInv, InitSInv
<1>2. Inv /\ [BootNext]_bootVars => Inv'
  BY NextBInv, NextNoneBefore, NextSInv
<1>3. Inv => SafeUntilOverlap
  BY DEF SInv, TimerKept, SafeUntilOverlap
<1> QED
  BY <1>1, <1>2, <1>3, PTL DEF BootSpec

-----------------------------------------------------------------------------
(***************************************************************************)
(* And what boot sync has reported, for good.                              *)
(*                                                                         *)
(* Until the kernel is loaded no vCPU has met a hook.  Boot sync reports   *)
(* success only with every hook armed, whatever may fail on the way there, *)
(* and leaves the vCPUs and the poller where HookStep starts; from then on *)
(* the poller stands down and the vCPU runs HookStep, which is part 1's.   *)
(***************************************************************************)
Untouched == ~firstHit /\ ~bootSync /\ InitVcpus

\* On one vCPU no hook's instruction runs before the monitor has seen it.
SeenFirst ==
  /\ unseen = {}
  /\ \A v \in Vcpus : at[v] # NoHook /\ vmiState[v] = "STEPPING" => seen[v]

LiveInv ==
  ~overlapped /\ resets = 0 =>
    /\ ~loaded => Untouched
    /\ loaded /\ world.late = {} => bootSync
    /\ bootSync => loaded /\ LInv /\ Exclusive /\ SeenFirst

\* Over the kernel's own instruction vmi_arm_addr() succeeds only with the
\* cell armed, whatever was registered before; with no faults it succeeds.
LEMMA ArmAddrLive ==
  ASSUME NEW c \in Cell, Clean(c), c.users <= 1, c.byte = Code,
         NEW faults, "remove" \notin faults,
         NEW out \in ArmAddrOutcomes(c, faults)
  PROVE  /\ ~out.err => out.cell = ArmedCell
         /\ faults = {} => ~out.err
<1> DEFINE After(ins) ==
             IF ins.err THEN {ins}
             ELSE UNION {IF ok THEN {ins} ELSE TakeBack(ins.cell, faults) :
                           ok \in ReadbackOutcomes(ins.cell, faults)}
            Silent == [ArmedCell EXCEPT !.byte = Code]
<1>1. PICK rem \in RemoveOutcomes(c, faults) :
        \E ins \in InsertOutcomes(rem.cell, faults) : out \in After(ins)
  BY DEF ArmAddrOutcomes
<1>2. rem.cell.users = 0 /\ rem.cell.byte = Code
  <2>1. rem.cell.users = 0
    BY RemoveClears
  <2>2. CASE Registered(c)
    <3>1. c.users = 1
      BY <2>2 DEF Registered, Cell
    <3>2. Removed(c) = [c EXCEPT !.users = 0, !.byte = Code]
      BY <3>1 DEF Removed, Code, Int3
    <3>3. rem.cell = Removed(c)
      BY <2>2, <3>1 DEF RemoveOutcomes, Outcome
    <3> QED
      BY <2>1, <3>2, <3>3 DEF Cell
  <2>3. CASE ~Registered(c)
    BY <2>1, <2>3 DEF RemoveOutcomes, Outcome
  <2> QED
    BY <2>2, <2>3
<1>3. PICK ins \in InsertOutcomes(rem.cell, faults) : out \in After(ins)
  BY <1>1
<1>4. /\ ins \in {Outcome(ArmedCell, FALSE), Outcome(rem.cell, TRUE),
                  Outcome(Silent, FALSE)}
      /\ faults = {} => ins = Outcome(ArmedCell, FALSE)
  <2> DEFINE patched == [byte |-> Int3, users |-> 1, saved |-> rem.cell.byte]
              silent  == [patched EXCEPT !.byte = rem.cell.byte]
  <2>1. patched = ArmedCell /\ silent = Silent
    BY <1>2 DEF ArmedCell
  <2>2. ~Registered(rem.cell)
    BY <1>2 DEF Registered
  <2>3. \/ ins = Outcome(patched, FALSE)
        \/ ins = Outcome(rem.cell, TRUE)
        \/ ins = Outcome(silent, FALSE)
    BY <1>3, <2>2 DEF InsertOutcomes
  <2>4. InsertOutcomes(rem.cell, {}) = {Outcome(patched, FALSE)}
    BY <2>2 DEF InsertOutcomes
  <2> QED
    BY <1>3, <2>1, <2>3, <2>4
<1>5. ASSUME out \in TakeBack(ins.cell, faults) PROVE out.err
  BY <1>5 DEF TakeBack, Outcome
<1>6. CASE ins = Outcome(ArmedCell, FALSE)
  <2>1. ins.cell = ArmedCell /\ ~ins.err
    BY <1>6 DEF Outcome
  <2>2. out = ins \/ out \in TakeBack(ins.cell, faults)
    BY <1>3, <2>1
  <2>3. faults = {} => out = ins
    <3>1. \A ok \in ReadbackOutcomes(ArmedCell, {}) : ok
      BY DEF ReadbackOutcomes, ArmedCell
    <3> QED
      BY <1>3, <2>1, <3>1
  <2> QED
    BY <1>5, <2>1, <2>2, <2>3
<1>7. CASE ins = Outcome(rem.cell, TRUE)
  <2>1. ins.err
    BY <1>7 DEF Outcome
  <2>2. out = ins
    BY <1>3, <2>1
  <2> QED
    BY <1>4, <2>1, <2>2 DEF Outcome
<1>8. CASE ins = Outcome(Silent, FALSE)
  <2>1. ins.cell.byte # Int3 /\ ~ins.err
    BY <1>8 DEF Outcome, ArmedCell, Code, Int3
  <2>2. \A ok \in ReadbackOutcomes(ins.cell, faults) : ~ok
    BY <2>1 DEF ReadbackOutcomes
  <2>3. out \in TakeBack(ins.cell, faults)
    BY <1>3, <2>1, <2>2
  <2>4. faults = {} => ins.cell = ArmedCell
    BY <1>4 DEF Outcome
  <2>5. faults # {}
    BY <2>1, <2>4 DEF ArmedCell
  <2> QED
    BY <1>5, <2>3, <2>5
<1> QED
  BY <1>4, <1>6, <1>7, <1>8

\* And vmi_arm_once() only with every hook armed.
LEMMA ArmOnceLive ==
  ASSUME NEW cells, CleanCells(cells), AtMostOnce(cells),
         \A h \in Hooks : cells[h].byte = Code,
         NEW faults, "remove" \notin faults,
         NEW out \in ArmOnceOutcomes(cells, faults)
  PROVE  /\ ~out.err => out.cell = [h \in Hooks |-> ArmedCell]
         /\ faults = {} => ~out.err
<1>1. PICK e \in ArmAddrOutcomes(cells["entry"], faults) :
        out \in IF e.err \/ ~RetCapture
           THEN {Outcome([cells EXCEPT !["entry"] = e.cell], e.err)}
           ELSE UNION {IF r.err
                         THEN {Outcome(WithHooks(e2.cell, r.cell), TRUE) :
                                 e2 \in TakeBack(e.cell, faults)}
                         ELSE {Outcome(WithHooks(e.cell, r.cell), FALSE)} :
                         r \in ArmAddrOutcomes(cells["ret"], faults)}
  BY DEF ArmOnceOutcomes
<1>2. (~e.err => e.cell = ArmedCell) /\ (faults = {} => ~e.err)
  BY EntryIsHook, ArmAddrLive DEF CleanCells, AtMostOnce
<1>3. CASE e.err \/ ~RetCapture
  <2>1. out.cell = [cells EXCEPT !["entry"] = e.cell] /\ out.err = e.err
    BY <1>1, <1>3 DEF Outcome
  <2>2. CASE e.err
    BY <1>2, <2>1, <2>2
  <2>3. CASE ~e.err
    <3>1. Hooks = {"entry"}
      BY <1>3, <2>3 DEF Hooks
    <3> QED
      BY <1>2, <2>1, <2>3, <3>1 DEF CleanCells
  <2> QED
    BY <2>2, <2>3
<1>4. CASE ~e.err /\ RetCapture
  <2>1. PICK r \in ArmAddrOutcomes(cells["ret"], faults) :
          out \in IF r.err
                    THEN {Outcome(WithHooks(e2.cell, r.cell), TRUE) :
                            e2 \in TakeBack(e.cell, faults)}
                    ELSE {Outcome(WithHooks(e.cell, r.cell), FALSE)}
    BY <1>1, <1>4
  <2>2. (~r.err => r.cell = ArmedCell) /\ (faults = {} => ~r.err)
    BY <1>4, EntryIsHook, ArmAddrLive DEF CleanCells, AtMostOnce
  <2>3. CASE r.err
    <3>1. out.err
      BY <2>1, <2>3 DEF Outcome
    <3> QED
      BY <2>2, <2>3, <3>1
  <2>4. CASE ~r.err
    <3>1. out = Outcome(WithHooks(ArmedCell, ArmedCell), FALSE)
      BY <1>2, <1>4, <2>1, <2>2, <2>4
    <3>2. out.cell = WithHooks(ArmedCell, ArmedCell) /\ ~out.err
      BY <3>1 DEF Outcome
    <3> QED
      BY <3>2 DEF WithHooks
  <2> QED
    BY <2>3, <2>4
<1> QED
  BY <1>3, <1>4

\* So boot sync, if it reports success, leaves what HookStep starts from.
LEMMA BootSyncArms ==
  ASSUME BInv, SInv, LiveInv, RemoveSucceeds, ~overlapped, resets = 0,
         NEW v \in Vcpus, KernelLoaded(v)
  PROVE  /\ loaded' /\ (world.late = {} => bootSync')
         /\ bootSync' => Init'
<1>1. Untouched /\ ~loaded /\ loaded'
  BY DEF KernelLoaded, LiveInv
<1>2. PICK out \in ArmOnceOutcomes(Loaded, world.late) :
        bp' = out.cell /\ bootSync' = ~out.err
  BY <1>1 DEF KernelLoaded, Loaded, Untouched
<1>3. CleanCells(Loaded) /\ AtMostOnce(Loaded)
  <2>1. IInv /\ \A h \in Hooks : bp[h] \in Cell
    BY DEF BInv, IInv, TypeOK
  <2> QED
    BY <2>1, LoadedCells DEF AtMostOnce, Loaded, Cell, SInv, SingleUse
<1>4. \A h \in Hooks : Loaded[h].byte = Code
  BY DEF Loaded, BInv, IInv, TypeOK, Cell
<1>5. "remove" \notin world.late
  BY NoRemoveFault DEF BInv
<1>6. /\ ~out.err => bp' = [h \in Hooks |-> ArmedCell]
      /\ world.late = {} => ~out.err
  BY <1>2, <1>3, <1>4, <1>5, ArmOnceLive
<1>7. InitVcpus'
  BY <1>1 DEF KernelLoaded, Untouched, InitVcpus
<1> QED
  BY <1>1, <1>2, <1>6, <1>7 DEF Init

\* Before the kernel is loaded no vCPU has done anything; once boot sync has
\* armed the hooks the poller only stands down and the vCPUs run HookStep.
LEMMA LiveStep ==
  ASSUME BInv, SInv, LiveInv, RemoveSucceeds,
         [BootNext]_bootVars, ~overlapped', resets' = 0
  PROVE  \/ Untouched' /\ ~loaded'
         \/ loaded' /\ (world.late = {} => bootSync') /\ (bootSync' => Init')
         \/ /\ loaded /\ loaded' /\ bootSync' = bootSync
            /\ bootSync => [Next]_hookVars
<1>1. /\ ~overlapped /\ resets = 0 /\ BootTypeOK
      /\ \A v \in Vcpus : KernelLoaded(v) \/ Hit(v) \/ Handled(v) => op = "none"
  <2>1. ~overlapped /\ BootTypeOK
    BY BetweenAttempts DEF BInv
  <2>2. resets' = resets \/ GuestReset
    BY DEF BootNext, Main, VmStart, VmStop, TimerFires, ServeWork, TryArm,
           ArmRemove, ArmInsert, ArmVerify, ArmUndo, Settle, MainCall,
           KernelLoaded, Hit, Handled, GuestRuns, hostVars, bootVars
  <2>3. resets \in Nat /\ (GuestReset => resets' = resets + 1)
    BY <2>1, BootAssumption DEF BootTypeOK, GuestReset
  <2> QED
    BY <2>1, <2>2, <2>3, BetweenAttempts
<1>2. /\ TimerKept /\ (~loaded => Untouched)
      /\ bootSync => loaded /\ ~MidAttempt
  BY <1>1 DEF SInv, TimerKept, LiveInv
<1>3. ASSUME ~loaded, UNCHANGED <<vmiState, stepAddr, singlestep, at, trap, seen,
                         unseen, update, fate, firstHit, bootSync, loaded>>
      PROVE  Untouched' /\ ~loaded'
  BY <1>2, <1>3 DEF Untouched, InitVcpus
<1>4. CASE \/ VmStart \/ VmStop \/ TimerFires \/ TryArm \/ ServeWork
           \/ UNCHANGED bootVars
  <2>1. UNCHANGED <<hookVars, firstHit, bootSync, loaded>>
    BY <1>4 DEF VmStart, VmStop, TimerFires, TryArm, ServeWork, bootVars,
                armVars, hostVars
  <2> QED
    BY <1>3, <2>1 DEF hookVars, BootTypeOK
<1>5. CASE ArmRemove \/ ArmInsert \/ ArmVerify \/ ArmUndo \/ Settle
  <2>1. MidAttempt
    BY <1>5
       DEF ArmRemove, ArmInsert, ArmVerify, ArmUndo, Settle, OnMain, MidAttempt
  <2>2. UNCHANGED <<vmiState, stepAddr, singlestep, at, trap, seen, unseen,
                    update, fate, firstHit, bootSync, loaded>>
    BY <1>5 DEF ArmRemove, ArmInsert, ArmVerify, ArmUndo, Settle,
                MainCall, hookVars, armVars, hostVars
  <2> QED
    BY <1>2, <1>3, <2>1, <2>2
<1>6. ~GuestReset
  <2>1. resets \in Nat
    BY <1>1, BootAssumption DEF BootTypeOK
  <2> QED
    BY <1>1, <2>1 DEF GuestReset
<1>7. ASSUME NEW v \in Vcpus, Hit(v) \/ Handled(v) \/ GuestRuns(v)
      PROVE  loaded /\ Next /\ UNCHANGED <<bootSync, loaded>>
  <2>1. trap[v] # "none" \/ loaded
    BY <1>7 DEF Hit, Handled, GuestRuns, StartStepOver, ClaimsInt3,
                StepComplete, ClaimsStep, NotClaimed
  <2>2. loaded
    BY <1>2, <2>1 DEF Untouched, InitVcpus
  <2> QED
    BY <1>7, <2>2, VcpuSteps DEF Hit, Handled, GuestRuns, armVars, hostVars
<1>8. CASE \E v \in Vcpus : KernelLoaded(v)
  BY <1>1, <1>8, BootSyncArms
<1>9. CASE \E v \in Vcpus : Hit(v) \/ Handled(v) \/ GuestRuns(v)
  BY <1>7, <1>9
<1> QED
  BY <1>4, <1>5, <1>6, <1>8, <1>9 DEF BootNext, Main

LEMMA InitLiveInv == BootInit => LiveInv
  BY DEF BootInit, LiveInv, Untouched

\* The vCPU lets a hook's instruction run only in the step-over of it, which
\* began with the monitor recording the hit.
LEMMA NextSeenFirst ==
  ASSUME OneVcpu, LInv, Exclusive, SeenFirst, [Next]_hookVars
  PROVE  SeenFirst'
<1>1. TypeOK /\ \A v \in Vcpus : Focus(v) /\ ~Calling(v) /\ Vcpus = {v}
  BY DEF LInv, IInv, OneVcpu
<1>2. ASSUME NEW v \in Vcpus, NEW h \in Hooks, ReachHook(v, h) PROVE SeenFirst'
  <2>1. vmiState[v] # "STEPPING"
    BY <1>1, <1>2, HookNames DEF ReachHook, InGuest, Focus, TypeOK
  <2> QED
    BY <1>2, <2>1 DEF ReachHook, SeenFirst, OneVcpu
<1>3. ASSUME NEW v \in Vcpus, Execute(v) PROVE SeenFirst'
  <2>1. at[v] \in Hooks /\ bp[at[v]] # ArmedCell
    BY <1>1, <1>3 DEF Execute, TypeOK, ArmedCell
  <2>2. vmiState[v] = "STEPPING" /\ at[v] # NoHook
    BY <1>1, <1>3, <2>1
       DEF Execute, Exclusive, Owns, StepsOver, TakingOut, OneVcpu
  <2>3. at'[v] = NoHook /\ UNCHANGED unseen
    BY <1>1, <1>3, <2>2 DEF Execute, SeenFirst, TypeOK
  <2> QED
    BY <2>3 DEF SeenFirst, OneVcpu
<1>4. ASSUME NEW v \in Vcpus, StartStepOver(v) PROVE SeenFirst'
  BY <1>1, <1>4 DEF StartStepOver, SeenFirst, OneVcpu, TypeOK
<1>5. ASSUME NEW v \in Vcpus, StepComplete(v) PROVE SeenFirst'
  <2>1. vmiState' = [vmiState EXCEPT ![v] = "NORMAL"]
    BY <1>1, <1>5 DEF StepComplete, MustWait, BackToNormal
  <2> QED
    BY <1>1, <1>5, <2>1 DEF StepComplete, SeenFirst, OneVcpu, TypeOK
<1>6. ASSUME NEW v \in Vcpus, FetchInt3(v) \/ NotClaimed(v) PROVE SeenFirst'
  BY <1>6 DEF FetchInt3, NotClaimed, SeenFirst
<1>7. ASSUME NEW v \in Vcpus PROVE ~CallGoesOn(v)
  BY AllAtOnce
<1>8. CASE UNCHANGED hookVars
  BY <1>8 DEF hookVars, SeenFirst
<1> QED
  BY <1>2, <1>3, <1>4, <1>5, <1>6, <1>7, <1>8 DEF Next, HandleDebug

LEMMA NextLiveInv ==
  ASSUME OneVcpu, RemoveSucceeds, Faults = {},
         BInv, SInv, LiveInv, [BootNext]_bootVars
  PROVE  LiveInv'
<1> SUFFICES ASSUME ~overlapped', resets' = 0
             PROVE  /\ ~loaded' => Untouched'
                    /\ loaded' /\ world'.late = {} => bootSync'
                    /\ bootSync' => loaded' /\ LInv' /\ Exclusive' /\ SeenFirst'
  BY DEF LiveInv
<1>1. world' = world
  BY DEF BootNext, bootVars
<1>2. CASE Untouched' /\ ~loaded'
  BY <1>2 DEF Untouched
<1>3. CASE loaded' /\ (world.late = {} => bootSync') /\ (bootSync' => Init')
  <2>1. ASSUME Init' PROVE LInv' /\ DInv'
    BY <2>1, InitLInv, InitDInv, PTL
  <2> QED
    BY <1>1, <1>3, <2>1 DEF DInv, Init, InitVcpus, SeenFirst
<1>4. CASE /\ loaded /\ loaded' /\ bootSync' = bootSync
           /\ bootSync => [Next]_hookVars
  <2>1. /\ loaded /\ world.late = {} => bootSync
        /\ bootSync => LInv /\ Exclusive /\ SeenFirst
    <3>1. ~overlapped /\ (resets = 0 \/ GuestReset)
      BY BetweenAttempts
         DEF BootNext, Main, VmStart, VmStop, TimerFires, ServeWork, TryArm,
             ArmRemove, ArmInsert, ArmVerify, ArmUndo, Settle, MainCall,
             KernelLoaded, Hit, Handled, GuestRuns, hostVars, bootVars
    <3> QED
      BY <1>4, <3>1 DEF LiveInv, GuestReset
  <2>2. CASE bootSync
    <3>1. DInv'
      BY <1>4, <2>1, <2>2, NextDInv DEF LInv, DInv
    <3>2. LInv' /\ SeenFirst'
      BY <1>4, <2>1, <2>2, NextLInv, NextSeenFirst
    <3> QED
      BY <1>1, <1>4, <2>2, <3>1, <3>2 DEF DInv
  <2> QED
    BY <1>1, <1>4, <2>1, <2>2
<1> QED
  BY <1>2, <1>3, <1>4, LiveStep

\* Once vmi_monitor_kernel_loaded() reports the hooks armed every one of them
\* stays in guest memory or is being stepped over, not one call goes unseen
\* and no debug exception of the monitor's leaks, whatever failed in the
\* attempts before it and however many there were; and it does report them
\* armed when nothing fails as it arms: as long as no handler has overlapped
\* an attempt of the poller's, the guest is not reset and the step-overs'
\* own calls do not fail.
THEOREM ArmedAndHeard ==
  ASSUME OneVcpu, RemoveSucceeds, Faults = {}
  PROVE  BootSpec => []BootSyncHolds
<1> DEFINE Inv == BInv /\ NoneBefore /\ SInv /\ LiveInv
<1>1. BootInit => Inv
  BY InitBInv, InitSInv, InitLiveInv
<1>2. Inv /\ [BootNext]_bootVars => Inv'
  BY NextBInv, NextNoneBefore, NextSInv, NextLiveInv
<1>3. Inv => BootSyncHolds
  <2> SUFFICES ASSUME LiveInv, ~overlapped, resets = 0
               PROVE  /\ bootSync => HooksIn /\ unseen = {} /\ NothingLeaks
                      /\ loaded /\ world.late = {} => bootSync
    BY DEF BootSyncHolds
  <2>1. bootSync => HooksIn
    <3> SUFFICES ASSUME bootSync, NEW h \in Hooks, bp[h] # ArmedCell
                 PROVE  Stepping(h)
      BY DEF HooksIn
    <3>1. PICK v \in Vcpus : Owns(v, h)
      BY DEF LiveInv, Exclusive
    <3>2. ~Calling(v)
      BY DEF LiveInv, LInv
    <3> QED
      BY <3>1, <3>2 DEF Owns, StepsOver, TakingOut, Stepping
  <2> QED
    BY <2>1 DEF LiveInv, LInv, SeenFirst
<1> QED
  BY <1>1, <1>2, <1>3, PTL DEF BootSpec

-----------------------------------------------------------------------------
(***************************************************************************)
(*              PART 3: THE MONITOR ON A RUNNING GUEST (InlineMonitor)     *)
(***************************************************************************)
(***************************************************************************)
(* The monitor on a running guest is a step-over machine: recording calls  *)
(* and switching threads change nothing of it.  So what part 1 proves of   *)
(* the machine holds of the whole monitor.                                 *)
(***************************************************************************)
\* Every step of the monitor is one of the step-over machine, or leaves it
\* alone.
LEMMA MonitorStep == [MonitorNext]_vars => [Next]_hookVars
<1> SUFFICES ASSUME [MonitorNext]_vars PROVE [Next]_hookVars
  OBVIOUS
<1>1. ASSUME NEW v \in Vcpus, NEW k \in Keys, Issue(v, k) \/ ComeBack(v, k)
      PROVE  Next
  <2>1. CASE Issue(v, k)
    <3>1. ReachHook(v, "entry") /\ "entry" \in Hooks
      BY <2>1 DEF Issue, Arrive, Hooks
    <3> QED
      BY <3>1 DEF Next
  <2>2. CASE ComeBack(v, k)
    <3>1. ReachHook(v, "ret") /\ "ret" \in Hooks
      BY <2>2 DEF ComeBack, Arrive, Hooks
    <3> QED
      BY <3>1 DEF Next
  <2> QED
    BY <1>1, <2>1, <2>2
<1>2. ASSUME NEW v \in Vcpus, Proceed(v) PROVE Next
  BY <1>2 DEF Proceed, TrapAtHook, PassHook, BreakpointHit, StepDone,
              Unclaimed, UpdateVcpus, HandleDebug, Next
<1>3. ASSUME NEW k \in Keys, Vanish(k) PROVE UNCHANGED hookVars
  BY <1>3 DEF Vanish
<1>4. CASE Shutdown
  BY <1>4 DEF Shutdown
<1>5. CASE UNCHANGED vars
  BY <1>5 DEF vars
<1> QED
  BY <1>1, <1>2, <1>3, <1>4, <1>5 DEF MonitorNext

\* The composed monitor implements the step-over machine.
THEOREM MonitorIsHookStep == MonitorSpec => Spec
<1>1. MonitorInit => Init
  BY DEF MonitorInit
<1> QED
  BY <1>1, MonitorStep, PTL DEF MonitorSpec, Spec

\* On one vCPU, whatever the breakpoint calls return, kvm_handle_debug()
\* consumes every debug exception the monitor causes while the guest runs.
THEOREM MonitorNoLeak == ASSUME OneVcpu PROVE MonitorSpec => []NothingLeaks
<1>1. Spec => []NothingLeaks
  BY NoLeak
<1> QED
  BY <1>1, MonitorIsHookStep, PTL

\* Where the breakpoint calls do not fail, a hook is out of guest memory only
\* from kvm_remove_breakpoint() in vmi_monitor_breakpoint_hit() to
\* kvm_insert_breakpoint() in the same vCPU's vmi_monitor_step_complete(),
\* whatever the guest's threads do on however many vCPUs.
THEOREM MonitorOutOnlyWhileStepped ==
  ASSUME Faults = {} PROVE MonitorSpec => []DisarmedOnlyInStepOver
<1>1. Spec => []DisarmedOnlyInStepOver
  BY OutOnlyWhileStepped
<1> QED
  BY <1>1, MonitorIsHookStep, PTL

\* What only the step-over machine does is nothing to table and threads.
LEMMA MachineLeaves ==
  ASSUME NEW v \in Vcpus,
         TrapAtHook(v) \/ StepDone(v) \/ Unclaimed(v) \/ UpdateVcpus(v)
  PROVE  at' = at /\ seen' = seen /\ UNCHANGED <<tableVars, guestVars>>
<1>1. CASE TrapAtHook(v) \/ StepDone(v) \/ Unclaimed(v)
  BY <1>1 DEF TrapAtHook, StepDone, Unclaimed, FetchInt3, StepComplete, NotClaimed
<1>2. CASE UpdateVcpus(v)
  BY <1>2 DEF UpdateVcpus, CallGoesOn, FinishStepOver, FinishStepComplete,
              ServeUpdate
<1> QED
  BY <1>1, <1>2

-----------------------------------------------------------------------------
(***************************************************************************)
(* Types, and with them that every handler is called with a call: a vCPU   *)
(* that traps stands on a hook, and who stands on a hook is in a call.     *)
(***************************************************************************)
InCall ==
  /\ \A k \in Keys : phase[k] # "app" => callOf[k] # 0
  /\ \A v \in Vcpus : at[v] # NoHook => callOf[on[v]] # 0

MonInv == MonitorTypeOK /\ IInv /\ UniqueKeys /\ InCall

LEMMA MonInit == MonitorInit => MonInv
<1> SUFFICES ASSUME MonitorInit PROVE MonInv
  OBVIOUS
<1>1. IInv /\ TypeOK
  BY InitIInv DEF MonitorInit, IInv
<1>2. TableTypeOK
  BY EmptyTable, EmptySeq DEF MonitorInit, TableInit
<1>3. UniqueKeys
  BY DEF MonitorInit, TableInit, UniqueKeys
<1>4. InCall
  BY DEF MonitorInit, Init, InitVcpus, InCall
<1>5. /\ phase \in [Keys -> {"app", "entry", "kernel", "ret"}]
      /\ callOf \in [Keys -> Nat] /\ on \in [Vcpus -> Keys]
      /\ nextCall \in Calls /\ running \in BOOLEAN
  BY DEF MonitorInit, Calls
<1> QED
  BY <1>1, <1>2, <1>3, <1>4, <1>5 DEF MonInv, MonitorTypeOK

\* Holding an entry and releasing one keep the keys apart.
LEMMA HoldUnique ==
  ASSUME UniqueKeys, NEW k \in Keys, NEW c \in Calls,
         Lands(k, c) \/ \E p \in pending : Replaces(p, k, c)
  PROVE  UniqueKeys'
<1>1. CASE Lands(k, c)
  BY <1>1 DEF Lands, NewEntry, UniqueKeys
<1>2. ASSUME NEW p \in pending, Replaces(p, k, c) PROVE UniqueKeys'
  BY <1>2 DEF Replaces, NewEntry, UniqueKeys
<1> QED
  BY <1>1, <1>2

LEMMA ReleaseUnique == UniqueKeys /\ pending' \subseteq pending => UniqueKeys'
  BY DEF UniqueKeys

\* A hit is handled for a vCPU that stands on a hook, with a call to record,
\* and leaves it there.
LEMMA HitCall ==
  ASSUME MonInv, NEW v \in Vcpus, BreakpointHit(v)
  PROVE  /\ at[v] \in Hooks /\ on[v] \in Keys /\ callOf[on[v]] \in Calls
         /\ at' = at
<1>1. trap[v] = "int3" /\ at' = at
  BY DEF BreakpointHit, StartStepOver, ClaimsInt3
<1>2. at[v] \in Hooks
  BY <1>1 DEF MonInv, IInv, TrapOnHook
<1> QED
  BY <1>1, <1>2, HookNames DEF MonInv, MonitorTypeOK, InCall, Calls

\* What a hit does to the table.
LEMMA HitEffect ==
  ASSUME MonInv, NEW v \in Vcpus, BreakpointHit(v)
  PROVE  TableTypeOK' /\ UniqueKeys'
<1>1. /\ on[v] \in Keys /\ callOf[on[v]] \in Calls
      /\ TableTypeOK /\ UniqueKeys
  BY HitCall DEF MonInv, MonitorTypeOK
<1>2. CASE HandleReturn(on[v], callOf[on[v]])
  <2>1. TableTypeOK' /\ pending' \subseteq pending
    BY <1>1, <1>2, ReturnEffect DEF Unmatched, Completes
  <2> QED
    BY <1>1, <2>1, ReleaseUnique
<1>3. CASE HoldEntry(on[v], callOf[on[v]])
  BY <1>1, <1>3, HoldEffect, HoldUnique
<1>4. CASE LogEntryOnly(callOf[on[v]])
  <2>1. TableTypeOK' /\ pending' \subseteq pending
    BY <1>1, <1>4, LogEntryEffect DEF LogEntryOnly
  <2> QED
    BY <1>1, <2>1, ReleaseUnique
<1> QED
  BY <1>2, <1>3, <1>4 DEF BreakpointHit, HandleEntry

\* One step of the monitor.
LEMMA MonStep == MonInv /\ [MonitorNext]_vars => MonInv'
<1> SUFFICES ASSUME MonInv, [MonitorNext]_vars PROVE MonInv'
  OBVIOUS
<1> USE DEF MonInv, MonitorTypeOK
<1>1. IInv' /\ TypeOK'
  BY MonitorStep, NextIInv DEF IInv
<1>2. ASSUME UNCHANGED tableVars PROVE TableTypeOK' /\ UniqueKeys'
  BY <1>2 DEF tableVars, TableTypeOK, UniqueKeys
<1>3. ASSUME NEW v \in Vcpus, NEW k \in Keys, Issue(v, k) PROVE MonInv'
  <2>1. /\ on' = [on EXCEPT ![v] = k]
        /\ phase' = [phase EXCEPT ![k] = "entry"]
        /\ callOf' = [callOf EXCEPT ![k] = nextCall]
        /\ nextCall' = nextCall + 1
        /\ UNCHANGED tableVars /\ running' = running
    BY <1>3 DEF Issue, Arrive
  <2>2. at' = [at EXCEPT ![v] = "entry"]
    BY <1>3 DEF Issue, Arrive, ReachHook
  <2>3. InCall'
    BY <2>1, <2>2 DEF InCall, Calls, TypeOK
  <2> QED
    BY <1>1, <1>2, <2>1, <2>3 DEF Calls
<1>4. ASSUME NEW v \in Vcpus, NEW k \in Keys, ComeBack(v, k) PROVE MonInv'
  <2>1. /\ phase[k] = "kernel" /\ on' = [on EXCEPT ![v] = k]
        /\ phase' = [phase EXCEPT ![k] = "ret"]
        /\ callOf' = callOf /\ nextCall' = nextCall
        /\ UNCHANGED tableVars /\ running' = running
    BY <1>4 DEF ComeBack, Arrive
  <2>2. at' = [at EXCEPT ![v] = "ret"]
    BY <1>4 DEF ComeBack, Arrive, ReachHook
  <2>3. InCall'
    BY <2>1, <2>2 DEF InCall, TypeOK
  <2> QED
    BY <1>1, <1>2, <2>1, <2>3
<1>5. ASSUME NEW k \in Keys, Vanish(k) PROVE MonInv'
  <2>1. /\ phase' = [phase EXCEPT ![k] = "app"]
        /\ UNCHANGED <<hookVars, tableVars, callOf, on, nextCall, running>>
    BY <1>5 DEF Vanish
  <2>2. InCall'
    BY <2>1 DEF InCall, hookVars
  <2> QED
    BY <1>1, <1>2, <2>1, <2>2
<1>6. ASSUME NEW v \in Vcpus, PassHook(v) PROVE MonInv'
  <2>1. /\ at[v] # NoHook /\ at' = [at EXCEPT ![v] = NoHook]
        /\ phase' = [phase EXCEPT ![on[v]] =
                       IF at[v] = "entry" THEN "kernel" ELSE "app"]
        /\ UNCHANGED <<tableVars, callOf, on, nextCall, running>>
    BY <1>6 DEF PassHook, Execute
  <2>2. InCall'
    BY <2>1 DEF InCall, TypeOK
  <2> QED
    BY <1>1, <1>2, <2>1, <2>2
<1>7. ASSUME NEW v \in Vcpus, BreakpointHit(v) PROVE MonInv'
  <2>1. TableTypeOK' /\ UniqueKeys' /\ at' = at /\ UNCHANGED guestVars
    BY <1>7, HitEffect, HitCall DEF BreakpointHit
  <2> QED
    BY <1>1, <2>1 DEF guestVars, InCall
<1>8. ASSUME NEW v \in Vcpus,
             TrapAtHook(v) \/ StepDone(v) \/ Unclaimed(v) \/ UpdateVcpus(v)
      PROVE  MonInv'
  <2>1. at' = at /\ UNCHANGED <<tableVars, guestVars>>
    BY <1>8, MachineLeaves
  <2> QED
    BY <1>1, <1>2, <2>1 DEF guestVars, InCall
<1>9. CASE Shutdown
  <2>1. /\ TableTypeOK' /\ UniqueKeys' /\ running' \in BOOLEAN
        /\ UNCHANGED <<hookVars, phase, callOf, on, nextCall>>
    <3>1. FlushPending("shutdown") /\ running' = FALSE
      BY <1>9 DEF Shutdown
    <3>2. TableTypeOK' /\ pending' \subseteq pending
      BY <3>1, FlushEffect DEF FlushPending
    <3> QED
      BY <1>9, <3>1, <3>2, ReleaseUnique DEF Shutdown
  <2> QED
    BY <1>1, <2>1 DEF hookVars, InCall
<1>10. CASE UNCHANGED vars
  BY <1>1, <1>2, <1>10 DEF vars, hookVars, guestVars, InCall
<1> QED
  BY <1>3, <1>4, <1>5, <1>6, <1>7, <1>8, <1>9, <1>10 DEF MonitorNext, Proceed

\* Every state of the monitor on a running guest is well typed: so every
\* entry of the table and every line of the log is about a call that was
\* issued, the keys of the table are distinct and the table never holds more
\* than VMI_PENDING_MAX entries, whatever faults and interleavings there are
\* (vmi_handle_entry(), vmi_handle_return()).
THEOREM MonitorTypeCorrect == MonitorSpec => [](MonitorTypeOK /\ UniqueKeys)
<1>1. MonInv => MonitorTypeOK /\ UniqueKeys
  BY DEF MonInv
<1> QED
  BY MonInit, MonStep, <1>1, PTL DEF MonitorSpec

-----------------------------------------------------------------------------
(***************************************************************************)
(* The entry-only mode on one vCPU: the call at the hook is the latest     *)
(* one issued, so a repeated entry repeats the last line of the log.       *)
(***************************************************************************)
Latest ==
  ~RetCapture =>
    /\ EntryOnlyInOrder
    /\ \A i \in DOMAIN log : log[i].call < nextCall
    /\ \A v \in Vcpus : at[v] # NoHook => callOf[on[v]] = nextCall - 1

EInv == MonInv /\ Latest

LEMMA EntryOnlyInit == MonitorInit => EInv
<1> SUFFICES ASSUME MonitorInit PROVE EInv
  OBVIOUS
<1>1. Latest
  BY DEF MonitorInit, Init, InitVcpus, TableInit, Latest, EntryOnlyInOrder
<1> QED
  BY <1>1, MonInit DEF EInv

LEMMA EntryOnlyStep == OneVcpu /\ EInv /\ [MonitorNext]_vars => EInv'
<1> SUFFICES ASSUME OneVcpu, EInv, [MonitorNext]_vars, ~RetCapture PROVE Latest'
  BY MonStep DEF EInv, Latest
<1>1. /\ MonInv /\ MonitorTypeOK /\ TypeOK /\ TableTypeOK /\ nextCall \in Calls
      /\ pending = {} /\ Hooks = {"entry"} /\ log \in Seq(Line)
      /\ \A i, j \in DOMAIN log : i < j => log[i].call <= log[j].call
      /\ \A i \in DOMAIN log : i \in Nat /\ log[i].call \in Nat /\ log[i].call < nextCall
      /\ \A v \in Vcpus : at[v] # NoHook => callOf[on[v]] = nextCall - 1
  <2>1. /\ MonInv /\ MonitorTypeOK /\ TypeOK /\ TableTypeOK /\ nextCall \in Calls
        /\ log \in Seq(Line)
    BY DEF EInv, MonInv, MonitorTypeOK, TableTypeOK
  <2>2. \A i \in DOMAIN log : i \in Nat /\ log[i].call \in Nat
    <3>1. \A i \in DOMAIN log : i \in Nat /\ log[i] \in Line
      BY <2>1
    <3> QED
      BY <3>1 DEF Line, Calls
  <2> QED
    BY <2>1, <2>2 DEF EInv, Latest, EntryOnlyInOrder, Hooks
\* A step that leaves the table and the issued calls alone.
<1>2. ASSUME UNCHANGED <<tableVars, callOf, on, nextCall>>,
             \A v \in Vcpus : at'[v] # NoHook => at[v] # NoHook
      PROVE  Latest'
  BY <1>1, <1>2 DEF Latest, EntryOnlyInOrder, tableVars
<1>3. ASSUME NEW v \in Vcpus, NEW k \in Keys, Issue(v, k) PROVE Latest'
  <2>1. /\ on' = [on EXCEPT ![v] = k]
        /\ callOf' = [callOf EXCEPT ![k] = nextCall]
        /\ nextCall' = nextCall + 1 /\ UNCHANGED tableVars
    BY <1>3 DEF Issue, Arrive
  <2>2. \A u \in Vcpus : callOf'[on'[u]] = nextCall' - 1
    BY <1>1, <2>1 DEF OneVcpu, MonitorTypeOK, Calls
  <2> QED
    BY <1>1, <2>1, <2>2 DEF Latest, EntryOnlyInOrder, tableVars, Calls
<1>4. ASSUME NEW v \in Vcpus, BreakpointHit(v) PROVE Latest'
  <2> DEFINE c == callOf[on[v]]
  <2>1. at[v] = "entry" /\ c = nextCall - 1 /\ c \in Calls
    BY <1>1, <1>4, HitCall, HookNames
  <2>2. /\ log' = Append(log, BareLine(c)) /\ pending' = pending
        /\ at' = at /\ UNCHANGED guestVars
    BY <1>4, <2>1, HitCall, <1>1
       DEF BreakpointHit, HandleEntry, LogEntryOnly
  <2>3. BareLine(c) \in Line /\ BareLine(c).call = c
    BY <2>1 DEF BareLine, Line, NoRet
  <2> HIDE DEF c
  <2>4. /\ \A i \in DOMAIN log : i \in DOMAIN log' /\ log'[i] = log[i]
        /\ \E i \in Appendix : Appendix = {i} /\ log'[i].call = c
        /\ \A i \in DOMAIN log : i <= Len(log)
        /\ \A i \in Appendix : i = Len(log) + 1
    <3>1. /\ \A i \in DOMAIN log : i \in DOMAIN log' /\ log'[i] = log[i]
          /\ \E i \in Appendix : Appendix = {i} /\ log'[i] = BareLine(c)
      BY <1>1, <2>2, <2>3, Appended
    <3>2. Len(log) \in Nat /\ DOMAIN log = 1..Len(log)
      BY <1>1
    <3>3. Len(log') = Len(log) + 1 /\ DOMAIN log' = 1..Len(log')
      BY <1>1, <2>2, <2>3, AppendProperties
    <3> QED
      BY <2>3, <3>1, <3>2, <3>3 DEF Appendix
  <2>5. /\ Len(log) \in Nat
        /\ \A i \in DOMAIN log' : i \in DOMAIN log \/ i = Len(log) + 1
        /\ \A i \in DOMAIN log' : i \notin DOMAIN log => log'[i].call = c
    BY <1>1, <2>4 DEF Appendix
  <2>6. \A i, j \in DOMAIN log' : i < j => log'[i].call <= log'[j].call
    BY <1>1, <2>1, <2>4, <2>5 DEF Calls
  <2>7. \A i \in DOMAIN log' : log'[i].call < nextCall
    BY <1>1, <2>1, <2>4, <2>5 DEF Calls
  <2>8. on' = on /\ callOf' = callOf /\ nextCall' = nextCall
    BY <2>2 DEF guestVars
  <2> QED
    BY <1>1, <2>2, <2>6, <2>7, <2>8 DEF Latest, EntryOnlyInOrder
<1>5. CASE Shutdown
  <2>1. FlushPending("shutdown")
        /\ UNCHANGED <<hookVars, phase, callOf, on, nextCall>>
    BY <1>5 DEF Shutdown
  <2>2. /\ \A i \in DOMAIN log : i \in DOMAIN log' /\ log'[i] = log[i]
        /\ Appendix = {} /\ pending' = {}
    BY <1>1, <2>1, Flushed
  <2>3. \A i \in DOMAIN log' : i \in DOMAIN log /\ log'[i] = log[i]
    BY <2>2 DEF Appendix
  <2> QED
    BY <1>1, <2>1, <2>2, <2>3 DEF Latest, EntryOnlyInOrder, hookVars
<1>6. ASSUME NEW v \in Vcpus, NEW k \in Keys, ComeBack(v, k) PROVE FALSE
  BY <1>6 DEF ComeBack
<1>7. ASSUME NEW v \in Vcpus, PassHook(v) PROVE Latest'
  <2>1. /\ at' = [at EXCEPT ![v] = NoHook]
        /\ UNCHANGED <<tableVars, callOf, on, nextCall>>
    BY <1>7 DEF PassHook, Execute
  <2> QED
    BY <1>1, <1>2, <2>1 DEF TypeOK
<1>8. ASSUME NEW v \in Vcpus,
             TrapAtHook(v) \/ StepDone(v) \/ Unclaimed(v) \/ UpdateVcpus(v)
      PROVE  Latest'
  BY <1>2, <1>8, MachineLeaves DEF guestVars
<1>9. ASSUME NEW k \in Keys, Vanish(k) PROVE Latest'
  BY <1>2, <1>9 DEF Vanish, hookVars
<1>10. CASE UNCHANGED vars
  BY <1>2, <1>10 DEF vars, hookVars, guestVars
<1> QED
  BY <1>3, <1>4, <1>5, <1>6, <1>7, <1>8, <1>9, <1>10 DEF MonitorNext, Proceed

\* On one vCPU, whatever faults the breakpoint calls meet, a monitor without
\* a return hook holds nothing and logs the calls in the order issued
\* (vmi_monitor_breakpoint_hit(), the mode before Phase 8).
THEOREM EntryOnly == ASSUME OneVcpu PROVE MonitorSpec => []EntryOnlyInOrder
<1>1. EInv /\ [MonitorNext]_vars => EInv'
  BY EntryOnlyStep
<1>2. EInv => EntryOnlyInOrder
  BY DEF EInv, Latest, EntryOnlyInOrder
<1> QED
  BY EntryOnlyInit, <1>1, <1>2, PTL DEF MonitorSpec

-----------------------------------------------------------------------------
(***************************************************************************)
(* What has been handed to the monitor is not forgotten, on any number of  *)
(* vCPUs and whatever the breakpoint calls return.                         *)
(***************************************************************************)
\* A context stands on one vCPU's hook.
Standing ==
  /\ \A v \in Vcpus : at[v] # NoHook => phase[on[v]] = at[v]
  /\ \A u, v \in Vcpus :
       at[u] # NoHook /\ at[v] # NoHook /\ on[u] = on[v] => u = v

LEMMA StandingStep ==
  ASSUME MonInv, Standing, [MonitorNext]_vars
  PROVE  Standing'
<1>1. TypeOK /\ MonitorTypeOK /\ "entry" # NoHook /\ "ret" # NoHook
  BY DEF MonInv, MonitorTypeOK, NoHook
<1>2. ASSUME NEW v \in Vcpus, NEW k \in Keys, Issue(v, k) \/ ComeBack(v, k)
      PROVE  Standing'
  <2>1. PICK h \in {"entry", "ret"} :
          /\ phase[k] \in {"app", "kernel"}
          /\ on' = [on EXCEPT ![v] = k] /\ phase' = [phase EXCEPT ![k] = h]
          /\ at' = [at EXCEPT ![v] = h]
    BY <1>2 DEF Issue, ComeBack, Arrive, ReachHook
  <2>2. \A u \in Vcpus : at[u] # NoHook => on[u] # k
    BY <1>1, <2>1 DEF Standing, TypeOK, Hooks
  <2> QED
    BY <1>1, <2>1, <2>2 DEF Standing, TypeOK, MonitorTypeOK
<1>3. ASSUME NEW k \in Keys, Vanish(k) PROVE Standing'
  <2>1. /\ phase[k] = "kernel" /\ phase' = [phase EXCEPT ![k] = "app"]
        /\ UNCHANGED <<at, on>>
    BY <1>3 DEF Vanish, hookVars
  <2>2. \A u \in Vcpus : at[u] # NoHook => on[u] # k
    BY <1>1, <2>1 DEF Standing, TypeOK, Hooks
  <2> QED
    BY <1>1, <2>1, <2>2 DEF Standing, MonitorTypeOK
<1>4. ASSUME NEW v \in Vcpus, PassHook(v) PROVE Standing'
  <2>1. /\ at[v] # NoHook /\ at' = [at EXCEPT ![v] = NoHook] /\ on' = on
        /\ phase' = [phase EXCEPT ![on[v]] =
                       IF at[v] = "entry" THEN "kernel" ELSE "app"]
    BY <1>4 DEF PassHook, Execute
  <2> QED
    BY <1>1, <2>1 DEF Standing, TypeOK, MonitorTypeOK
<1>5. ASSUME UNCHANGED <<at, on, phase>> PROVE Standing'
  BY <1>5 DEF Standing
<1>6. ASSUME NEW v \in Vcpus,
             \/ BreakpointHit(v) \/ TrapAtHook(v) \/ StepDone(v) \/ Unclaimed(v)
             \/ UpdateVcpus(v)
      PROVE  UNCHANGED <<at, on, phase>>
  BY <1>6, MachineLeaves DEF BreakpointHit, StartStepOver, guestVars
<1>7. CASE Shutdown \/ UNCHANGED vars
  <2>1. UNCHANGED <<at, on, phase>>
    BY <1>7 DEF Shutdown, vars, hookVars, guestVars
  <2> QED
    BY <1>5, <2>1
<1> QED
  BY <1>2, <1>3, <1>4, <1>5, <1>6, <1>7 DEF MonitorNext, Proceed

\* A call recorded at the entry hook is held or logged.
SeenKept == \A v \in Vcpus : at[v] = "entry" /\ seen[v] => callOf[on[v]] \in Known

KeptInv == MonInv /\ Standing /\ SeenKept

\* What a hit leaves behind.
LEMMA HitKept ==
  ASSUME MonInv, NEW v \in Vcpus, BreakpointHit(v)
  PROVE  NothingForgotten /\ (at[v] = "entry" => callOf[on[v]] \in Known')
<1> DEFINE c == callOf[on[v]]
<1>1. /\ on[v] \in Keys /\ c \in Calls /\ TableTypeOK /\ UniqueKeys
  BY HitCall DEF MonInv, MonitorTypeOK
<1> HIDE DEF c
<1>2. CASE at[v] = "ret"
  <2>1. HandleReturn(on[v], c)
    BY <1>2 DEF BreakpointHit, c
  <2> QED
    BY <1>1, <1>2, <2>1, ReturnKept
<1>3. CASE at[v] # "ret"
  <2>1. HoldEntry(on[v], c) \/ LogEntryOnly(c)
    BY <1>3 DEF BreakpointHit, HandleEntry, c
  <2>2. NothingForgotten /\ c \in Known'
    BY <1>1, <2>1, HoldKept, LogEntryKept
  <2> QED
    BY <2>2 DEF c
<1> QED
  BY <1>2, <1>3

LEMMA KeptStep ==
  ASSUME KeptInv, [MonitorNext]_vars
  PROVE  KeptInv' /\ NothingForgotten
<1>1. /\ MonInv /\ MonInv' /\ Standing /\ Standing' /\ SeenKept
      /\ TypeOK /\ MonitorTypeOK /\ TableTypeOK
  BY MonStep, StandingStep DEF KeptInv, MonInv, MonitorTypeOK
<1>2. ASSUME UNCHANGED tableVars PROVE NothingForgotten /\ Known' = Known
  BY <1>2 DEF tableVars, NothingForgotten, LogKept, Known
<1>3. ASSUME NEW v \in Vcpus, NEW k \in Keys, Issue(v, k) \/ ComeBack(v, k)
      PROVE  SeenKept' /\ NothingForgotten
  <2>1. /\ phase[k] \in {"app", "kernel"} /\ on' = [on EXCEPT ![v] = k]
        /\ seen' = [seen EXCEPT ![v] = FALSE]
        /\ \A u \in Vcpus : u # v => at'[u] = at[u]
        /\ \A j \in Keys : j # k => callOf'[j] = callOf[j]
        /\ UNCHANGED tableVars
    BY <1>1, <1>3 DEF Issue, ComeBack, Arrive, ReachHook, TypeOK, MonitorTypeOK
  <2>2. ASSUME NEW u \in Vcpus, at'[u] = "entry", seen'[u]
        PROVE  callOf'[on'[u]] \in Known
    <3>1. u # v /\ at[u] = "entry" /\ seen[u] /\ on'[u] = on[u]
      BY <1>1, <2>1, <2>2 DEF TypeOK, MonitorTypeOK
    <3>2. on[u] # k /\ on[u] \in Keys
      BY <1>1, <2>1, <3>1 DEF Standing, MonitorTypeOK, NoHook
    <3> QED
      BY <1>1, <2>1, <3>1, <3>2 DEF SeenKept
  <2> QED
    BY <1>2, <2>1, <2>2 DEF SeenKept
<1>4. ASSUME NEW v \in Vcpus, PassHook(v) PROVE SeenKept' /\ NothingForgotten
  <2>1. /\ at' = [at EXCEPT ![v] = NoHook]
        /\ UNCHANGED <<tableVars, callOf, on, seen>>
    BY <1>4 DEF PassHook, Execute
  <2> QED
    BY <1>1, <1>2, <2>1 DEF SeenKept, TypeOK, NoHook
<1>5. ASSUME NEW v \in Vcpus, BreakpointHit(v) PROVE SeenKept' /\ NothingForgotten
  <2>1. at' = at /\ seen' = [seen EXCEPT ![v] = TRUE] /\ UNCHANGED <<callOf, on>>
    BY <1>5 DEF BreakpointHit, StartStepOver, guestVars
  <2>2. NothingForgotten /\ (at[v] = "entry" => callOf[on[v]] \in Known')
    BY <1>1, <1>5, HitKept
  <2> QED
    BY <1>1, <2>1, <2>2 DEF SeenKept, NothingForgotten, TypeOK
<1>6. ASSUME Shutdown PROVE SeenKept' /\ NothingForgotten
  <2>1. at' = at /\ seen' = seen /\ callOf' = callOf /\ on' = on
    BY <1>6 DEF Shutdown, hookVars
  <2>2. NothingForgotten /\ Known \subseteq Known'
    BY <1>1, <1>6, FlushKept DEF Shutdown, NothingForgotten
  <2> QED
    BY <1>1, <2>1, <2>2 DEF SeenKept
<1>7. ASSUME UNCHANGED <<tableVars, at, seen, callOf, on>>
      PROVE  SeenKept' /\ NothingForgotten
  BY <1>1, <1>2, <1>7 DEF SeenKept
<1>8. ASSUME NEW v \in Vcpus,
             TrapAtHook(v) \/ StepDone(v) \/ Unclaimed(v) \/ UpdateVcpus(v)
      PROVE  UNCHANGED <<tableVars, at, seen, callOf, on>>
  BY <1>8, MachineLeaves DEF guestVars
<1>9. ASSUME NEW k \in Keys, Vanish(k)
      PROVE  UNCHANGED <<tableVars, at, seen, callOf, on>>
  BY <1>9 DEF Vanish, hookVars
<1>10. UNCHANGED vars => UNCHANGED <<tableVars, at, seen, callOf, on>>
  BY DEF vars, hookVars, guestVars
<1> QED
  BY <1>1, <1>3, <1>4, <1>5, <1>6, <1>7, <1>8, <1>9, <1>10
     DEF MonitorNext, Proceed, KeptInv

\* Once vmi_monitor_breakpoint_hit() has been given a call, no interleaving
\* and no fault loses it: it is held until vmi_write_event() writes its line,
\* on its return, or when it is superseded, evicted or flushed.
THEOREM MonitorKeepsSeen == MonitorSpec => []SeenKept
<1>1. MonitorInit => KeptInv
  BY MonInit DEF MonitorInit, Init, InitVcpus, KeptInv, Standing, SeenKept
<1>2. KeptInv /\ [MonitorNext]_vars => KeptInv'
  BY KeptStep
<1>3. KeptInv => SeenKept
  BY DEF KeptInv
<1> QED
  BY <1>1, <1>2, <1>3, PTL DEF MonitorSpec

\* And no step takes a line back, or drops a call from table and log alike.
THEOREM MonitorForgetsNothing == MonitorSpec => [][NothingForgotten]_vars
<1>1. MonitorInit => KeptInv
  BY MonInit DEF MonitorInit, Init, InitVcpus, KeptInv, Standing, SeenKept
<1>2. KeptInv /\ [MonitorNext]_vars => KeptInv' /\ [NothingForgotten]_vars
  BY KeptStep
<1> QED
  BY <1>1, <1>2, PTL DEF MonitorSpec

-----------------------------------------------------------------------------
(***************************************************************************)
(* One line per call, on any number of vCPUs.  What makes it so is that a  *)
(* visit of a hook is handed to the monitor once: from its hit until it is *)
(* off the hook a vCPU is inside the handler's call or STEPPING, and one   *)
(* that is STEPPING and traps on an int3 again is not claimed.  A remove   *)
(* that fails would leave it NORMAL and record its call a second time      *)
(* (vmi-syscall-monitor.c:650).                                            *)
(***************************************************************************)
\* A call is one context's.
OwnCall ==
  /\ \A k \in Keys : callOf[k] < nextCall
  /\ \A j, k \in Keys : callOf[j] = callOf[k] /\ callOf[k] # 0 => j = k

TakenOnce ==
  /\ \A v \in Vcpus : trap[v] = "step" => at[v] = NoHook
  /\ \A v \in Vcpus : at[v] # NoHook /\ seen[v] =>
                        vmiState[v] = "STEPPING" \/ Calling(v)

\* What is at the entry hook has not been recorded, nor has what is to come.
NewAtEntry ==
  /\ \A v \in Vcpus : at[v] = "entry" /\ ~seen[v] => callOf[on[v]] \notin Known
  /\ \A c \in Known : c < nextCall

OnceInv == MonInv /\ Standing /\ OwnCall /\ TakenOnce /\ Once /\ NewAtEntry

RemoveWorks == "remove" \notin Faults

LEMMA OnceInit == MonitorInit => OnceInv
<1> SUFFICES ASSUME MonitorInit PROVE OnceInv
  OBVIOUS
<1>1. MonInv /\ Standing /\ TakenOnce
  BY MonInit DEF MonitorInit, Init, InitVcpus, Standing, TakenOnce
<1>2. OwnCall
  BY DEF MonitorInit, OwnCall
<1>3. Once /\ NewAtEntry
  BY DEF MonitorInit, Init, InitVcpus, TableInit, Once, LoggedOnce, CallsApart,
         NewAtEntry, Known
<1> QED
  BY <1>1, <1>2, <1>3 DEF OnceInv

\* The hit that records a visit: the only one, since it takes the int3 out.
LEMMA HitOnce ==
  ASSUME RemoveWorks, OnceInv, NEW v \in Vcpus, StartStepOver(v)
  PROVE  /\ at[v] \in Hooks /\ ~seen[v] /\ at' = at
         /\ seen' = [seen EXCEPT ![v] = TRUE]
         /\ vmiState'[v] = "STEPPING" \/ Calling(v)'
         /\ \A u \in Vcpus : u # v => /\ vmiState'[u] = vmiState[u]
                                      /\ update'[u] = update[u]
         /\ \A u \in Vcpus : trap'[u] = "step" => trap[u] = "step"
<1>1. /\ trap[v] = "int3" /\ Registered(bp[at[v]]) /\ vmiState[v] = "NORMAL"
      /\ at' = at /\ seen' = [seen EXCEPT ![v] = TRUE] /\ ~Calling(v)
  BY DEF StartStepOver, ClaimsInt3
<1>2. at[v] \in Hooks /\ at[v] # NoHook /\ TypeOK
  BY <1>1, HookNames DEF OnceInv, MonInv, IInv, TrapOnHook
<1>3. ~seen[v]
  BY <1>1, <1>2 DEF OnceInv, TakenOnce
<1>4. \A out \in TakenOut(v) : ~out.err
  BY <1>1, <1>2 DEF TakenOut, RemoveOutcomes, Outcome, RemoveWorks
<1>5. \/ WaitForOthers(v) /\ v \in Vcpus
      \/ EnterStepping(v)
  BY <1>4 DEF StartStepOver
<1>6. /\ vmiState'[v] = "STEPPING" \/ Calling(v)'
      /\ \A u \in Vcpus : u # v => /\ vmiState'[u] = vmiState[u]
                                   /\ update'[u] = update[u]
      /\ \A u \in Vcpus : trap'[u] = "step" => trap[u] = "step"
  <2>1. CASE WaitForOthers(v)
    BY <1>2, <2>1 DEF WaitForOthers, Calling, TypeOK
  <2>2. CASE EnterStepping(v)
    BY <1>1, <1>2, <2>2 DEF EnterStepping, Resume, TypeOK
  <2> QED
    BY <1>5, <2>1, <2>2
<1> QED
  BY <1>1, <1>2, <1>3, <1>6

\* What a hit records: a call for the first time, or nothing new.
LEMMA HitRecords ==
  ASSUME RemoveWorks, OnceInv, NEW v \in Vcpus, BreakpointHit(v)
  PROVE  /\ Once'
         /\ \/ Known' \subseteq Known
            \/ at[v] = "entry" /\ Known' \subseteq Known \cup {callOf[on[v]]}
<1> DEFINE c == callOf[on[v]]
<1>1. /\ at[v] \in Hooks /\ on[v] \in Keys /\ c \in Calls
      /\ TableTypeOK /\ UniqueKeys /\ Once
  BY HitCall DEF OnceInv, MonInv, MonitorTypeOK
<1>2. at[v] = "entry" => c \notin Known
  BY HitOnce DEF BreakpointHit, OnceInv, NewAtEntry
<1>3. CASE at[v] = "ret"
  <2>1. HandleReturn(on[v], c)
    BY <1>3 DEF BreakpointHit
  <2> QED
    BY <1>1, <2>1, ReturnOnce DEF NothingNew
<1>4. CASE at[v] = "entry"
  <2>1. HandleEntry(on[v], c)
    BY <1>4 DEF BreakpointHit
  <2>2. CASE HoldEntry(on[v], c)
    BY <1>1, <1>2, <1>4, <2>2, HoldOnce
  <2>3. CASE LogEntryOnly(c)
    BY <1>1, <1>2, <1>4, <2>3, LogEntryOnce
  <2> QED
    BY <2>1, <2>2, <2>3 DEF HandleEntry
<1> QED
  BY <1>1, <1>3, <1>4 DEF Hooks

LEMMA OnceStep ==
  ASSUME RemoveWorks, OnceInv, [MonitorNext]_vars
  PROVE  OnceInv'
<1> USE DEF OnceInv, MonInv, MonitorTypeOK
<1>1. /\ MonInv' /\ Standing' /\ TypeOK
      /\ NoHook \notin Hooks /\ "entry" # NoHook
  BY MonStep, StandingStep, HookNames DEF IInv, Hooks, NoHook
<1>2. ASSUME UNCHANGED tableVars
      PROVE  Once' /\ Known' = Known
  BY <1>2 DEF tableVars, Once, LoggedOnce, CallsApart, Known
<1>3. ASSUME NEW v \in Vcpus, NEW k \in Keys, Issue(v, k) PROVE OnceInv'
  <2>1. /\ phase[k] = "app" /\ at[v] = NoHook
        /\ on' = [on EXCEPT ![v] = k]
        /\ phase' = [phase EXCEPT ![k] = "entry"]
        /\ callOf' = [callOf EXCEPT ![k] = nextCall]
        /\ nextCall' = nextCall + 1
        /\ at' = [at EXCEPT ![v] = "entry"] /\ seen' = [seen EXCEPT ![v] = FALSE]
        /\ trap[v] = "none" /\ UNCHANGED <<tableVars, trap, vmiState, update>>
    BY <1>3 DEF Issue, Arrive, ReachHook, InGuest
  <2>2. \A u \in Vcpus : at[u] # NoHook => on[u] # k
    BY <2>1 DEF Standing, TypeOK, Hooks, NoHook
  <2>3. OwnCall'
    BY <2>1 DEF OwnCall, Calls
  <2>4. TakenOnce'
    BY <1>1, <2>1 DEF TakenOnce, Calling, TypeOK
  <2>5. NewAtEntry'
    <3>1. Known' = Known /\ nextCall \notin Known
      BY <1>2, <2>1 DEF NewAtEntry, Calls
    <3>2. \A c \in Known : c < nextCall'
      <4>1. \A i \in DOMAIN log : log[i] \in Line
        BY DEF TableTypeOK
      <4>2. Known \subseteq Nat
        BY <4>1 DEF Known, TableTypeOK, Entry, Line, Calls
      <4> QED
        BY <2>1, <4>2 DEF NewAtEntry, Calls
    <3>3. ASSUME NEW u \in Vcpus, at'[u] = "entry", ~seen'[u]
          PROVE  callOf'[on'[u]] \notin Known
      <4>1. CASE u = v
        BY <2>1, <3>1, <4>1
      <4>2. CASE u # v
        <5>1. at[u] = "entry" /\ ~seen[u] /\ on'[u] = on[u] /\ on[u] # k
          BY <1>1, <2>1, <2>2, <3>3, <4>2 DEF TypeOK
        <5> QED
          BY <2>1, <5>1 DEF NewAtEntry
      <4> QED
        BY <4>1, <4>2
    <3> QED
      BY <3>1, <3>2, <3>3 DEF NewAtEntry
  <2> QED
    BY <1>1, <1>2, <2>1, <2>3, <2>4, <2>5
<1>4. ASSUME NEW v \in Vcpus, NEW k \in Keys, ComeBack(v, k) PROVE OnceInv'
  <2>1. /\ phase[k] = "kernel" /\ at[v] = NoHook
        /\ on' = [on EXCEPT ![v] = k]
        /\ phase' = [phase EXCEPT ![k] = "ret"]
        /\ at' = [at EXCEPT ![v] = "ret"] /\ seen' = [seen EXCEPT ![v] = FALSE]
        /\ trap[v] = "none"
        /\ UNCHANGED <<tableVars, trap, vmiState, update, callOf, nextCall>>
    BY <1>4 DEF ComeBack, Arrive, ReachHook, InGuest
  <2>2. TakenOnce' /\ OwnCall'
    BY <1>1, <2>1 DEF TakenOnce, Calling, OwnCall, TypeOK
  <2>3. NewAtEntry'
    BY <1>1, <1>2, <2>1 DEF NewAtEntry, TypeOK
  <2> QED
    BY <1>1, <1>2, <2>1, <2>2, <2>3
<1>5. ASSUME NEW k \in Keys, Vanish(k) PROVE OnceInv'
  <2>1. /\ phase[k] = "kernel" /\ phase' = [phase EXCEPT ![k] = "app"]
        /\ UNCHANGED <<hookVars, tableVars, callOf, on, nextCall>>
    BY <1>5 DEF Vanish
  <2> QED
    BY <1>1, <1>2, <2>1 DEF TakenOnce, Calling, OwnCall, NewAtEntry, hookVars
<1>6. ASSUME NEW v \in Vcpus, PassHook(v) PROVE OnceInv'
  <2>1. /\ at[v] # NoHook /\ at' = [at EXCEPT ![v] = NoHook]
        /\ phase' = [phase EXCEPT ![on[v]] =
                       IF at[v] = "entry" THEN "kernel" ELSE "app"]
        /\ \A u \in Vcpus : trap'[u] = trap[u] \/ u = v
        /\ UNCHANGED <<tableVars, callOf, on, nextCall, seen, vmiState, update>>
    BY <1>1, <1>6 DEF PassHook, Execute, Resume, TypeOK
  <2>2. TakenOnce' /\ OwnCall' /\ NewAtEntry'
    BY <1>1, <1>2, <2>1 DEF TakenOnce, Calling, OwnCall, NewAtEntry, TypeOK
  <2> QED
    BY <1>1, <1>2, <2>1, <2>2
<1>7. ASSUME NEW v \in Vcpus, BreakpointHit(v) PROVE OnceInv'
  <2>1. /\ at[v] \in Hooks /\ ~seen[v] /\ at' = at
        /\ seen' = [seen EXCEPT ![v] = TRUE]
        /\ vmiState'[v] = "STEPPING" \/ Calling(v)'
        /\ \A u \in Vcpus : u # v => /\ vmiState'[u] = vmiState[u]
                                     /\ update'[u] = update[u]
        /\ \A u \in Vcpus : trap'[u] = "step" => trap[u] = "step"
    BY <1>7, HitOnce DEF BreakpointHit
  <2>2. UNCHANGED <<phase, callOf, on, nextCall>>
    BY <1>7 DEF BreakpointHit, guestVars
  <2>3. OwnCall' /\ TakenOnce'
    BY <1>1, <2>1, <2>2 DEF OwnCall, TakenOnce, Calling, TypeOK
  <2>4. Once' /\ \/ Known' \subseteq Known
                 \/ at[v] = "entry" /\ Known' \subseteq Known \cup {callOf[on[v]]}
    BY <1>7, HitRecords
  <2>5. ASSUME NEW u \in Vcpus, at'[u] = "entry", ~seen'[u]
        PROVE  callOf'[on'[u]] \notin Known'
    <3>1. u # v /\ at[u] = "entry" /\ ~seen[u]
      BY <1>1, <2>1, <2>5 DEF TypeOK
    <3>2. on[u] # on[v]
      BY <1>1, <2>1, <3>1 DEF Standing
    <3>3. callOf[on[u]] # 0
      BY <1>1, <3>1 DEF InCall
    <3>4. callOf[on[u]] # callOf[on[v]]
      BY <3>2, <3>3 DEF OwnCall
    <3> QED
      BY <2>2, <2>4, <3>1, <3>4 DEF NewAtEntry
  <2>6. \A c \in Known' : c < nextCall'
    BY <2>2, <2>4 DEF NewAtEntry, OwnCall
  <2> QED
    BY <1>1, <2>3, <2>4, <2>5, <2>6 DEF NewAtEntry
<1>8. ASSUME NEW v \in Vcpus,
             TrapAtHook(v) \/ StepDone(v) \/ Unclaimed(v) \/ UpdateVcpus(v)
      PROVE  OnceInv'
  <2>1. at' = at /\ seen' = seen /\ UNCHANGED <<tableVars, guestVars>>
    BY <1>8, MachineLeaves
  <2>2. TakenOnce'
    <3>1. ASSUME \A u \in Vcpus : u # v => /\ trap'[u] = trap[u]
                                           /\ vmiState'[u] = vmiState[u]
                                           /\ update'[u] = update[u],
                 \/ at[v] = NoHook
                 \/ /\ trap'[v] # "step"
                    /\ vmiState'[v] = vmiState[v] /\ update'[v] = update[v]
                 \/ trap'[v] # "step" /\ vmiState'[v] = "STEPPING"
          PROVE  TakenOnce'
      BY <2>1, <3>1 DEF TakenOnce, Calling
    <3>2. CASE StepDone(v)
      <4>1. /\ trap[v] = "step"
            /\ WaitForOthers(v) \/ BackToNormal(v)
        BY <3>2 DEF StepDone, StepComplete, ClaimsStep
      <4>2. at[v] = NoHook
        BY <4>1 DEF TakenOnce
      <4> QED
        BY <1>1, <3>1, <4>1, <4>2 DEF WaitForOthers, BackToNormal, Resume, TypeOK
    <3>3. CASE TrapAtHook(v) \/ Unclaimed(v)
      BY <1>1, <3>1, <3>3 DEF TrapAtHook, Unclaimed, FetchInt3, NotClaimed, TypeOK
    <3>4. CASE UpdateVcpus(v)
      <4>1. CASE FinishStepOver(v)
        <5>1. /\ vmiState' = [vmiState EXCEPT ![v] = "STEPPING"]
              /\ update' = [update EXCEPT ![v] = {}]
              /\ \A u \in Vcpus : u # v => trap'[u] = trap[u]
              /\ at[v] = NoHook \/ trap'[v] # "step"
          BY <1>1, <2>1, <4>1 DEF FinishStepOver, EnterStepping, Resume, TypeOK
        <5> QED
          BY <1>1, <3>1, <5>1 DEF TypeOK
      <4>2. CASE FinishStepComplete(v)
        <5>1. at[v] = NoHook
          BY <4>2 DEF FinishStepComplete, TakenOnce
        <5> QED
          BY <1>1, <3>1, <4>2, <5>1
             DEF FinishStepComplete, BackToNormal, Resume, TypeOK
      <4>3. CASE \E u \in Vcpus : ServeUpdate(u, v)
        <5>1. PICK u \in Vcpus : ServeUpdate(u, v)
          BY <4>3
        <5>2. /\ UNCHANGED <<trap, vmiState>> /\ u # v /\ u \in update[v]
              /\ update' = [update EXCEPT ![v] = @ \ {u}]
          BY <5>1 DEF ServeUpdate
        <5>3. \A w \in Vcpus : Calling(w) => Calling(w)'
          BY <1>1, <5>2 DEF Calling, IInv, CallInHandler, TypeOK
        <5> QED
          BY <2>1, <5>2, <5>3 DEF TakenOnce
      <4> QED
        BY <3>4, <4>1, <4>2, <4>3 DEF UpdateVcpus, CallGoesOn
    <3> QED
      BY <1>8, <3>2, <3>3, <3>4
  <2> QED
    BY <1>1, <1>2, <2>1, <2>2 DEF guestVars, OwnCall, NewAtEntry
<1>9. CASE Shutdown
  <2>1. /\ FlushPending("shutdown")
        /\ UNCHANGED <<hookVars, phase, callOf, on, nextCall>>
    BY <1>9 DEF Shutdown
  <2>2. Once' /\ Known' \subseteq Known
    BY <2>1, FlushOnce DEF NothingNew
  <2> QED
    BY <1>1, <2>1, <2>2 DEF hookVars, OwnCall, TakenOnce, Calling, NewAtEntry
<1>10. CASE UNCHANGED vars
  BY <1>1, <1>2, <1>10
     DEF vars, hookVars, guestVars, OwnCall, TakenOnce, Calling, NewAtEntry
<1> QED
  BY <1>3, <1>4, <1>5, <1>6, <1>7, <1>8, <1>9, <1>10 DEF MonitorNext, Proceed

\* However many vCPUs enter and leave the kernel at once, and whatever the
\* inserts return, no call gets two lines and none a line while it is held
\* (vmi_handle_entry(), vmi_handle_return(), vmi_flush_pending()).
THEOREM MonitorLogsOnce == ASSUME RemoveWorks PROVE MonitorSpec => []LoggedOnce
<1>1. OnceInv /\ [MonitorNext]_vars => OnceInv'
  BY OnceStep
<1>2. OnceInv => LoggedOnce
  BY DEF OnceInv, Once
<1> QED
  BY OnceInit, <1>1, <1>2, PTL DEF MonitorSpec

-----------------------------------------------------------------------------
(***************************************************************************)
(* On one vCPU, without faults, the monitor implements SyscallPairing: no  *)
(* entry and no return escapes its hook.  An arrival is armed until it is  *)
(* recorded (AllSeen), so that only what has been recorded passes; and the *)
(* call that waits to be recorded is the last one issued (LastAtEntry).    *)
(***************************************************************************)
\* Where the log is complete: what the abstraction does not have is a hook
\* taken out by another vCPU, or not put back.
Transparent == OneVcpu /\ Faults = {} /\ RetCapture

AllSeen == \A v \in Vcpus : at[v] # NoHook /\ vmiState[v] = "STEPPING" => seen[v]

AtHook ==
  \A k \in Keys : phase[k] \in {"entry", "ret"} =>
    \E v \in Vcpus : on[v] = k /\ at[v] = phase[k]

Waits(v) == at[v] = "entry" /\ ~seen[v]

LastAtEntry ==
  /\ nextCall <= MaxCalls + 1
  /\ \A v \in Vcpus : Waits(v) => callOf[on[v]] = nextCall - 1

PairInv == /\ OnceInv /\ LInv /\ Exclusive
           /\ AllSeen /\ AtHook /\ LastAtEntry

LEMMA PairInit == MonitorInit => PairInv
<1> SUFFICES ASSUME MonitorInit PROVE PairInv
  OBVIOUS
<1>1. OnceInv /\ LInv /\ Exclusive
  BY OnceInit, InitLInv, InitDInv DEF MonitorInit, DInv
<1>2. AllSeen /\ AtHook /\ LastAtEntry
  BY MaxCallsAssumption
     DEF MonitorInit, Init, InitVcpus, AllSeen, AtHook, LastAtEntry, Waits
<1> QED
  BY <1>1, <1>2 DEF PairInv

\* On the only vCPU, a hook out of memory is the one it stepped over.
LEMMA ArmedUntilSeen ==
  ASSUME Transparent, PairInv, NEW v \in Vcpus, at[v] # NoHook, ~seen[v]
  PROVE  bp[at[v]].byte = Int3
<1>1. at[v] \in Hooks /\ vmiState[v] # "STEPPING" /\ ~Calling(v)
  BY DEF PairInv, AllSeen, LInv, IInv, TypeOK
<1>2. \A u \in Vcpus : ~Owns(u, at[v])
  BY <1>1 DEF Owns, StepsOver, TakingOut, Transparent, OneVcpu
<1>3. bp[at[v]] = ArmedCell
  BY <1>1, <1>2 DEF PairInv, Exclusive
<1> QED
  BY <1>3 DEF ArmedCell

LEMMA PairStep ==
  ASSUME Transparent, PairInv, [MonitorNext]_vars
  PROVE  PairInv'
<1> USE DEF PairInv, MonitorTypeOK
<1>1. OnceInv' /\ LInv' /\ Exclusive'
  <2>1. RemoveWorks
    BY DEF Transparent, RemoveWorks
  <2>2. IInv
    BY DEF LInv
  <2> QED
    BY <2>1, <2>2, OnceStep, MonitorStep, NextLInv, NextDInv
       DEF Transparent, DInv
<1>2. /\ TypeOK /\ MonitorTypeOK /\ NoHook \notin Hooks
      /\ \A u, v \in Vcpus : u = v
  BY HookNames DEF OnceInv, MonInv, Transparent, OneVcpu
<1>3. ASSUME NEW v \in Vcpus, NEW k \in Keys, Issue(v, k) \/ ComeBack(v, k)
      PROVE  PairInv'
  <2>1. /\ at[v] = NoHook /\ phase[k] \in {"app", "kernel"}
        /\ on' = [on EXCEPT ![v] = k]
        /\ seen' = [seen EXCEPT ![v] = FALSE]
        /\ UNCHANGED <<vmiState, trap>> /\ trap[v] = "none"
        /\ \/ /\ phase' = [phase EXCEPT ![k] = "entry"]
              /\ at' = [at EXCEPT ![v] = "entry"]
              /\ nextCall <= MaxCalls
              /\ callOf' = [callOf EXCEPT ![k] = nextCall]
              /\ nextCall' = nextCall + 1
           \/ /\ phase' = [phase EXCEPT ![k] = "ret"]
              /\ at' = [at EXCEPT ![v] = "ret"]
              /\ UNCHANGED <<callOf, nextCall>>
    BY <1>3 DEF Issue, ComeBack, Arrive, ReachHook, InGuest
  <2>2. vmiState[v] # "STEPPING"
    <3>1. Focus(v)
      BY DEF LInv
    <3> QED
      BY <1>2, <2>1, <3>1 DEF Focus, TypeOK
  <2>3. AllSeen'
    BY <1>2, <2>1, <2>2 DEF AllSeen
  <2>4. \A j \in Keys : phase[j] \notin {"entry", "ret"}
    BY <1>2, <2>1 DEF AtHook, NoHook
  <2>5. AtHook'
    BY <1>2, <2>1, <2>4 DEF AtHook, TypeOK
  <2>6. LastAtEntry'
    BY <1>2, <2>1, MaxCallsAssumption DEF LastAtEntry, Waits, TypeOK, Calls
  <2> QED
    BY <1>1, <2>3, <2>5, <2>6
<1>4. ASSUME NEW v \in Vcpus, PassHook(v) PROVE PairInv'
  <2>1. /\ at[v] # NoHook /\ at' = [at EXCEPT ![v] = NoHook]
        /\ phase' = [phase EXCEPT ![on[v]] =
                       IF at[v] = "entry" THEN "kernel" ELSE "app"]
        /\ UNCHANGED <<on, seen, vmiState, callOf, nextCall>>
    BY <1>4 DEF PassHook, Execute
  <2>2. AllSeen' /\ LastAtEntry'
    BY <1>2, <2>1 DEF AllSeen, LastAtEntry, Waits, NoHook, TypeOK
  <2>3. AtHook'
    BY <1>2, <2>1 DEF AtHook
  <2> QED
    BY <1>1, <2>2, <2>3
<1>5. ASSUME NEW v \in Vcpus, BreakpointHit(v) PROVE PairInv'
  <2>1. at' = at /\ seen' = [seen EXCEPT ![v] = TRUE] /\ UNCHANGED guestVars
    BY <1>5 DEF BreakpointHit, StartStepOver
  <2>2. \A u \in Vcpus : seen'[u]
    BY <1>2, <2>1 DEF TypeOK
  <2> QED
    BY <1>1, <2>1, <2>2
       DEF AllSeen, AtHook, LastAtEntry, Waits, guestVars
<1>6. ASSUME NEW v \in Vcpus, TrapAtHook(v) \/ StepDone(v) \/ Unclaimed(v)
      PROVE  PairInv'
  <2>1. at' = at /\ seen' = seen /\ UNCHANGED guestVars
    BY <1>6, MachineLeaves
  <2>2. vmiState' = vmiState \/ vmiState' = [vmiState EXCEPT ![v] = "NORMAL"]
    BY <1>6 DEF TrapAtHook, StepDone, Unclaimed, FetchInt3, StepComplete,
                NotClaimed, WaitForOthers, BackToNormal
  <2>3. AllSeen'
    BY <1>2, <2>1, <2>2 DEF AllSeen, TypeOK
  <2> QED
    BY <1>1, <2>1, <2>3 DEF AtHook, LastAtEntry, Waits, guestVars
<1>7. ASSUME NEW k \in Keys, Vanish(k) PROVE PairInv'
  BY <1>1, <1>2, <1>7 DEF Vanish, hookVars, AllSeen, AtHook, LastAtEntry, Waits
<1>10. ASSUME NEW v \in Vcpus PROVE ~UpdateVcpus(v)
  BY AllAtOnce DEF UpdateVcpus
<1>8. CASE Shutdown
  BY <1>1, <1>8 DEF Shutdown, hookVars, AllSeen, AtHook, LastAtEntry, Waits
<1>9. CASE UNCHANGED vars
  BY <1>1, <1>9
     DEF vars, hookVars, guestVars, AllSeen, AtHook, LastAtEntry, Waits
<1> QED
  BY <1>3, <1>4, <1>5, <1>6, <1>7, <1>8, <1>9, <1>10 DEF MonitorNext, Proceed

-----------------------------------------------------------------------------
\* What the mapping shows of the guest, seen from its only vCPU: the calls in
\* the kernel, the one whose entry has been recorded and the one whose return
\* has not; and a call issued counts once it has been recorded.
InKernel == {k \in Keys : phase[k] = "kernel"}

AtEdge(v) == \/ at[v] = "entry" /\ seen[v]
             \/ at[v] = "ret" /\ ~seen[v]

CallsOf(S) == {[key |-> k, call |-> callOf[k]] : k \in S}

MappedNext == nextCall - Cardinality(Unrecorded)

View ==
  \A v \in Vcpus :
    /\ LiveCalls = CallsOf(InKernel \cup (IF AtEdge(v) THEN {on[v]} ELSE {}))
    /\ MappedNext = IF Waits(v) THEN nextCall - 1 ELSE nextCall

LEMMA ViewNow == ASSUME OneVcpu PROVE PairInv => View
<1> SUFFICES ASSUME PairInv, NEW v \in Vcpus
             PROVE  /\ LiveCalls = CallsOf(InKernel \cup
                                           (IF AtEdge(v) THEN {on[v]} ELSE {}))
                    /\ MappedNext = IF Waits(v) THEN nextCall - 1 ELSE nextCall
  BY DEF View
<1>1. /\ Standing /\ AtHook /\ TypeOK /\ MonitorTypeOK /\ nextCall \in Nat
      /\ NoHook # "entry" /\ NoHook # "ret"
  BY HookNames DEF PairInv, OnceInv, MonInv, MonitorTypeOK, Calls, NoHook
<1>2. on[v] \in Keys /\ \A u \in Vcpus : u = v
  BY <1>1 DEF OneVcpu, MonitorTypeOK
<1>3. \A k \in Keys : Recorded(k) <=> at[v] # NoHook /\ on[v] = k /\ seen[v]
  BY <1>2 DEF Recorded
<1>4. /\ \A k \in Keys : phase[k] \in {"entry", "ret"} => on[v] = k /\ at[v] = phase[k]
      /\ at[v] # NoHook => phase[on[v]] = at[v]
  BY <1>1, <1>2 DEF Standing, AtHook
<1>5. LiveCalls = CallsOf(InKernel \cup (IF AtEdge(v) THEN {on[v]} ELSE {}))
  <2> DEFINE S == {x \in Keys : \/ phase[x] = "kernel"
                                \/ phase[x] = "entry" /\ Recorded(x)
                                \/ phase[x] = "ret" /\ ~Recorded(x)}
  <2>1. S = InKernel \cup (IF AtEdge(v) THEN {on[v]} ELSE {})
    BY <1>1, <1>2, <1>3, <1>4 DEF InKernel, AtEdge
  <2>2. LiveCalls = CallsOf(S)
    BY DEF LiveCalls, CallsOf
  <2> QED
    BY <2>1, <2>2
<1>6. CASE Waits(v)
  <2>1. Unrecorded = {on[v]}
    BY <1>1, <1>2, <1>3, <1>4, <1>6 DEF Unrecorded, Waits
  <2>2. Cardinality(Unrecorded) = 1
    BY <2>1, FS_Singleton
  <2> QED
    BY <1>5, <1>6, <2>2 DEF MappedNext
<1>7. CASE ~Waits(v)
  <2>1. Unrecorded = {}
    BY <1>1, <1>2, <1>3, <1>4, <1>7 DEF Unrecorded, Waits
  <2>2. Cardinality(Unrecorded) = 0
    BY <2>1, FS_EmptySet
  <2> QED
    BY <1>1, <1>5, <1>7, <2>2 DEF MappedNext
<1> QED
  BY <1>6, <1>7

LEMMA ViewThen == ASSUME OneVcpu PROVE PairInv' => View'
  BY ViewNow, PTL

\* The steps of the guest and of the step-over machine are its own business,
\* but for a call that ends unheard.
PairStutter == UNCHANGED <<tableVars, LiveCalls, MappedNext, running>>

LEMMA ArriveStutters ==
  ASSUME Transparent, PairInv, PairInv', NEW v \in Vcpus, NEW k \in Keys,
         Issue(v, k) \/ ComeBack(v, k)
  PROVE  PairStutter
<1>1. /\ TypeOK /\ MonitorTypeOK /\ AtHook /\ nextCall \in Nat
      /\ NoHook # "entry" /\ NoHook # "ret"
  BY DEF PairInv, OnceInv, MonInv, MonitorTypeOK, Calls, NoHook
<1>2. /\ LiveCalls = CallsOf(InKernel \cup (IF AtEdge(v) THEN {on[v]} ELSE {}))
      /\ MappedNext = IF Waits(v) THEN nextCall - 1 ELSE nextCall
  BY ViewNow DEF View, Transparent
<1>3. /\ LiveCalls' = CallsOf(InKernel \cup (IF AtEdge(v) THEN {on[v]} ELSE {}))'
      /\ MappedNext' = IF Waits(v)' THEN nextCall' - 1 ELSE nextCall'
  BY ViewThen DEF View, Transparent
<1>4. /\ at[v] = NoHook /\ on'[v] = k /\ ~seen'[v]
      /\ UNCHANGED <<tableVars, running>>
  BY <1>1 DEF Issue, ComeBack, Arrive, ReachHook, TypeOK, MonitorTypeOK
<1>5. ~AtEdge(v) /\ ~Waits(v)
  BY <1>1, <1>4 DEF AtEdge, Waits
<1>6. CASE Issue(v, k)
  <2>1. /\ phase[k] = "app" /\ phase' = [phase EXCEPT ![k] = "entry"]
        /\ callOf' = [callOf EXCEPT ![k] = nextCall]
        /\ nextCall' = nextCall + 1 /\ at'[v] = "entry"
    BY <1>1, <1>6 DEF Issue, Arrive, ReachHook, TypeOK
  <2>2. InKernel' = InKernel /\ k \notin InKernel
    BY <1>1, <2>1 DEF InKernel, MonitorTypeOK
  <2>3. ~AtEdge(v)' /\ Waits(v)'
    BY <1>4, <2>1 DEF AtEdge, Waits
  <2>4. CallsOf(InKernel)' = CallsOf(InKernel)
    <3>1. \A j \in InKernel : callOf'[j] = callOf[j]
      BY <1>1, <2>1, <2>2 DEF InKernel, MonitorTypeOK
    <3> QED
      BY <2>2, <3>1 DEF CallsOf
  <2>5. LiveCalls' = LiveCalls
    BY <1>2, <1>3, <1>5, <2>2, <2>3, <2>4 DEF CallsOf
  <2>6. MappedNext' = MappedNext
    BY <1>1, <1>2, <1>3, <1>5, <2>1, <2>3
  <2> QED
    BY <1>4, <2>5, <2>6 DEF PairStutter
<1>7. CASE ComeBack(v, k)
  <2>1. /\ phase[k] = "kernel" /\ phase' = [phase EXCEPT ![k] = "ret"]
        /\ UNCHANGED <<callOf, nextCall>> /\ at'[v] = "ret"
    BY <1>1, <1>7 DEF ComeBack, Arrive, ReachHook, TypeOK
  <2>2. AtEdge(v)' /\ ~Waits(v)'
    BY <1>4, <2>1 DEF AtEdge, Waits
  <2>3. InKernel' \cup {on'[v]} = InKernel
    BY <1>1, <1>4, <2>1 DEF InKernel, MonitorTypeOK
  <2>4. LiveCalls' = LiveCalls
    BY <1>2, <1>3, <1>5, <2>1, <2>2, <2>3 DEF CallsOf
  <2>5. MappedNext' = MappedNext
    BY <1>2, <1>3, <1>5, <2>1, <2>2
  <2> QED
    BY <1>4, <2>4, <2>5 DEF PairStutter
<1> QED
  BY <1>6, <1>7

LEMMA PassStutters ==
  ASSUME Transparent, PairInv, PairInv', NEW v \in Vcpus, PassHook(v)
  PROVE  PairStutter
<1>1. /\ TypeOK /\ MonitorTypeOK /\ Standing
      /\ NoHook # "entry" /\ NoHook # "ret"
  BY DEF PairInv, OnceInv, MonInv, MonitorTypeOK, NoHook
<1>2. /\ LiveCalls = CallsOf(InKernel \cup (IF AtEdge(v) THEN {on[v]} ELSE {}))
      /\ MappedNext = IF Waits(v) THEN nextCall - 1 ELSE nextCall
  BY ViewNow DEF View, Transparent
<1>3. /\ LiveCalls' = CallsOf(InKernel \cup (IF AtEdge(v) THEN {on[v]} ELSE {}))'
      /\ MappedNext' = IF Waits(v)' THEN nextCall' - 1 ELSE nextCall'
  BY ViewThen DEF View, Transparent
<1>4. /\ at[v] # NoHook /\ at'[v] = NoHook /\ bp[at[v]].byte # Int3
      /\ phase' = [phase EXCEPT ![on[v]] =
                     IF at[v] = "entry" THEN "kernel" ELSE "app"]
      /\ UNCHANGED <<tableVars, callOf, on, nextCall, running>>
  BY <1>1 DEF PassHook, Execute, TypeOK
<1>5. seen[v]
  BY <1>4, ArmedUntilSeen
<1>6. ~AtEdge(v)' /\ ~Waits(v)' /\ ~Waits(v)
  BY <1>1, <1>4, <1>5 DEF AtEdge, Waits
<1>7. /\ on[v] \in Keys /\ phase[on[v]] = at[v]
      /\ at[v] = "entry" \/ at[v] = "ret"
  BY <1>1, <1>4 DEF Standing, MonitorTypeOK, TypeOK, Hooks
<1>8. InKernel' = InKernel \cup (IF AtEdge(v) THEN {on[v]} ELSE {})
  BY <1>1, <1>4, <1>5, <1>7 DEF InKernel, AtEdge, MonitorTypeOK
<1>9. LiveCalls' = LiveCalls
  BY <1>2, <1>3, <1>4, <1>6, <1>8 DEF CallsOf
<1> QED
  BY <1>2, <1>3, <1>4, <1>6, <1>9 DEF PairStutter

LEMMA MachineStutters ==
  ASSUME at' = at, seen' = seen, UNCHANGED <<tableVars, guestVars>>
  PROVE  PairStutter
<1>1. \A k \in Keys : Recorded(k)' <=> Recorded(k)
  BY DEF Recorded, guestVars
<1>2. LiveCalls' = LiveCalls /\ Unrecorded' = Unrecorded
  BY <1>1 DEF LiveCalls, Unrecorded, guestVars
<1> QED
  BY <1>2 DEF PairStutter, MappedNext, guestVars

\* The instance counts as everybody does.
LEMMA SameCardinality == \A S : Pairing!Cardinality(S) = Cardinality(S)
  BY DEF Cardinality, Pairing!Cardinality

\* What is left of a step for the table and the mapped guest.
EntrySeen(k) ==
  /\ MappedNext <= MaxCalls /\ MappedNext \in Calls
  /\ HoldEntry(k, MappedNext)
  /\ \A l \in LiveCalls : l.key # k
  /\ LiveCalls' = LiveCalls \cup {[key |-> k, call |-> MappedNext]}
  /\ MappedNext' = MappedNext + 1 /\ running' = running

ReturnSeen(l) ==
  /\ l.key \in Keys /\ l.call \in Calls
  /\ HandleReturn(l.key, l.call)
  /\ LiveCalls' = LiveCalls \ {l}
  /\ UNCHANGED <<MappedNext, running>>

Gone(l) == LiveCalls' = LiveCalls \ {l} /\ UNCHANGED <<tableVars, MappedNext, running>>

Flush ==
  /\ FlushPending("shutdown") /\ running' = FALSE
  /\ UNCHANGED <<LiveCalls, MappedNext>>

\* A hit at the entry hook records the call issued last, one at the return
\* hook the call that is returning.
LEMMA HitSeen ==
  ASSUME Transparent, PairInv, PairInv', NEW v \in Vcpus, BreakpointHit(v)
  PROVE  (\E k \in Keys : EntrySeen(k)) \/ (\E l \in LiveCalls : ReturnSeen(l))
<1> DEFINE k == on[v]
           l == [key |-> k, call |-> callOf[k]]
<1>1. /\ TypeOK /\ MonitorTypeOK /\ Standing /\ nextCall \in Nat
      /\ NoHook # "entry" /\ NoHook # "ret" /\ OnceInv /\ RemoveWorks
  BY DEF PairInv, OnceInv, MonInv, MonitorTypeOK, Calls, NoHook, Transparent,
         RemoveWorks
<1>2. /\ LiveCalls = CallsOf(InKernel \cup (IF AtEdge(v) THEN {on[v]} ELSE {}))
      /\ MappedNext = IF Waits(v) THEN nextCall - 1 ELSE nextCall
  BY ViewNow DEF View, Transparent
<1>3. /\ LiveCalls' = CallsOf(InKernel \cup (IF AtEdge(v) THEN {on[v]} ELSE {}))'
      /\ MappedNext' = IF Waits(v)' THEN nextCall' - 1 ELSE nextCall'
  BY ViewThen DEF View, Transparent
<1>4. /\ at[v] \in Hooks /\ ~seen[v] /\ at' = at /\ seen'[v]
      /\ UNCHANGED <<phase, callOf, on, nextCall, running>>
  BY <1>1, HitOnce DEF BreakpointHit, guestVars, TypeOK
<1>5. /\ k \in Keys /\ phase[k] = at[v] /\ at[v] \in {"entry", "ret"}
      /\ callOf[k] \in Calls
  BY <1>1, <1>4, HitCall DEF OnceInv, Standing, MonitorTypeOK, Hooks, NoHook
<1>6. /\ k \notin InKernel /\ InKernel' = InKernel
      /\ \A x \in CallsOf(InKernel) : x.key # k
  BY <1>4, <1>5 DEF InKernel, CallsOf
<1>7. CallsOf(InKernel \cup {k}) = CallsOf(InKernel) \cup {l}
  BY DEF CallsOf
<1>8. CASE at[v] = "entry"
  <2>1. HoldEntry(k, callOf[k])
    BY <1>8 DEF BreakpointHit, HandleEntry, Transparent
  <2>2. /\ Waits(v) /\ ~AtEdge(v) /\ ~Waits(v)' /\ AtEdge(v)'
    BY <1>4, <1>8 DEF Waits, AtEdge
  <2>3. callOf[k] = MappedNext /\ MappedNext <= MaxCalls
    BY <1>1, <1>2, <2>2, MaxCallsAssumption DEF PairInv, LastAtEntry
  <2>4. MappedNext' = MappedNext + 1
    BY <1>1, <1>2, <1>3, <1>4, <2>2
  <2>5. LiveCalls = CallsOf(InKernel)
    BY <1>2, <2>2
  <2>6. LiveCalls' = CallsOf(InKernel \cup {k})
    BY <1>3, <1>4, <1>6, <2>2 DEF CallsOf
  <2>7. LiveCalls' = LiveCalls \cup {[key |-> k, call |-> MappedNext]}
    BY <1>7, <2>3, <2>5, <2>6
  <2>8. \A x \in LiveCalls : x.key # k
    BY <1>6, <2>5
  <2>9. EntrySeen(k)
    BY <1>4, <1>5, <2>1, <2>3, <2>4, <2>7, <2>8 DEF EntrySeen
  <2> QED
    BY <1>5, <2>9
<1>9. CASE at[v] = "ret"
  <2>1. HandleReturn(k, callOf[k])
    BY <1>9 DEF BreakpointHit
  <2>2. /\ ~Waits(v) /\ AtEdge(v) /\ ~Waits(v)' /\ ~AtEdge(v)'
    BY <1>4, <1>9 DEF Waits, AtEdge
  <2>3. MappedNext' = MappedNext
    BY <1>2, <1>3, <1>4, <2>2
  <2>4. LiveCalls = CallsOf(InKernel) \cup {l}
    BY <1>2, <1>7, <2>2
  <2>5. LiveCalls' = CallsOf(InKernel)
    BY <1>3, <1>4, <1>6, <2>2 DEF CallsOf
  <2>6. l \in LiveCalls /\ LiveCalls' = LiveCalls \ {l}
    BY <1>6, <2>4, <2>5
  <2>7. ReturnSeen(l)
    BY <1>4, <1>5, <2>1, <2>3, <2>6 DEF ReturnSeen
  <2> QED
    BY <2>6, <2>7
<1> QED
  BY <1>5, <1>8, <1>9

LEMMA StepSeen ==
  ASSUME Transparent, PairInv, PairInv', [MonitorNext]_vars
  PROVE  \/ PairStutter
         \/ running /\ \/ \E k \in Keys : EntrySeen(k)
                       \/ \E l \in LiveCalls : ReturnSeen(l) \/ Gone(l)
                       \/ Flush
<1>1. ASSUME NEW v \in Vcpus, NEW k \in Keys, Issue(v, k) \/ ComeBack(v, k)
      PROVE  PairStutter
  BY <1>1, ArriveStutters
<1>2. ASSUME NEW v \in Vcpus,
             TrapAtHook(v) \/ StepDone(v) \/ Unclaimed(v) \/ UpdateVcpus(v)
      PROVE  PairStutter
  BY <1>2, MachineLeaves, MachineStutters
<1>3. ASSUME NEW k \in Keys, Vanish(k) PROVE \E l \in LiveCalls : Gone(l)
  <2> DEFINE l == [key |-> k, call |-> callOf[k]]
  <2>1. /\ phase[k] = "kernel" /\ phase' = [phase EXCEPT ![k] = "app"]
        /\ UNCHANGED <<hookVars, tableVars, callOf, on, nextCall, running>>
    BY <1>3 DEF Vanish
  <2>2. \A x \in Keys : Recorded(x)' <=> Recorded(x)
    BY <2>1 DEF Recorded, hookVars
  <2>3. phase \in [Keys -> {"app", "entry", "kernel", "ret"}]
    BY DEF PairInv, OnceInv, MonInv, MonitorTypeOK
  <2>4. Unrecorded' = Unrecorded
    BY <2>1, <2>2, <2>3 DEF Unrecorded
  <2>5. l \in LiveCalls /\ LiveCalls' = LiveCalls \ {l}
    BY <2>1, <2>2, <2>3 DEF LiveCalls
  <2> QED
    BY <2>1, <2>4, <2>5 DEF Gone, MappedNext
<1>4. ASSUME Shutdown PROVE Flush
  <2>1. /\ FlushPending("shutdown") /\ running' = FALSE
        /\ UNCHANGED <<hookVars, phase, callOf, on, nextCall>>
    BY <1>4 DEF Shutdown
  <2>2. \A x \in Keys : Recorded(x)' <=> Recorded(x)
    BY <2>1 DEF Recorded, hookVars
  <2>3. LiveCalls' = LiveCalls /\ Unrecorded' = Unrecorded
    BY <2>1, <2>2 DEF LiveCalls, Unrecorded
  <2> QED
    BY <2>1, <2>3 DEF Flush, MappedNext
<1>5. ASSUME UNCHANGED vars PROVE PairStutter
  BY <1>5, MachineStutters DEF vars, hookVars
<1> QED
  BY <1>1, <1>2, <1>3, <1>4, <1>5, PassStutters, HitSeen
     DEF MonitorNext, Proceed

\* Every step of the monitor is one of the abstraction, or invisible to it.
LEMMA PairingStep ==
  ASSUME Transparent, PairInv, PairInv', [MonitorNext]_vars
  PROVE  [Pairing!Next]_(Pairing!vars)
<1>1. ASSUME PairStutter PROVE UNCHANGED Pairing!vars
  BY <1>1 DEF PairStutter, tableVars, MappedNext, Pairing!vars
<1>2. ASSUME running, NEW k \in Keys, EntrySeen(k) PROVE Pairing!Next
  <2>1. Pairing!HoldEntry(k, MappedNext)
    BY <1>2, SameCardinality
       DEF EntrySeen, HoldEntry, Supersede, TakeFreeSlot, EvictOldest, Oldest,
           NewEntry, Unfinished, NoRet, Pairing!HoldEntry, Pairing!Supersede,
           Pairing!TakeFreeSlot, Pairing!EvictOldest, Pairing!Oldest,
           Pairing!NewEntry, Pairing!Unfinished, Pairing!NoRet
  <2>2. Pairing!Enter(k)
    BY <1>2, <2>1 DEF EntrySeen, Pairing!Enter, MappedNext
  <2> QED
    BY <2>2 DEF Pairing!Next
<1>3. ASSUME running, NEW l \in LiveCalls, ReturnSeen(l) PROVE Pairing!Next
  <2>1. Pairing!HandleReturn(l.key, l.call)
    BY <1>3 DEF ReturnSeen, HandleReturn, ValueLine, Pairing!HandleReturn,
                Pairing!ValueLine
  <2>2. Pairing!Return(l)
    BY <1>3, <2>1 DEF ReturnSeen, Pairing!Return, MappedNext
  <2> QED
    BY <2>2 DEF Pairing!Next
<1>4. ASSUME running, NEW l \in LiveCalls, Gone(l) PROVE Pairing!Next
  <2>1. Pairing!Abandon(l)
    BY <1>4 DEF Gone, Pairing!Abandon, tableVars, MappedNext
  <2> QED
    BY <2>1 DEF Pairing!Next
<1>5. ASSUME running, Flush PROVE Pairing!Next
  <2>1. Pairing!FlushPending("shutdown")
    BY <1>5, SameCardinality
       DEF Flush, FlushPending, OldestFirst, Unfinished, NoRet,
           Pairing!FlushPending, Pairing!OldestFirst, Pairing!Unfinished,
           Pairing!NoRet
  <2>2. Pairing!Shutdown
    BY <1>5, <2>1 DEF Flush, Pairing!Shutdown, MappedNext
  <2> QED
    BY <2>2 DEF Pairing!Next
<1> QED
  BY <1>1, <1>2, <1>3, <1>4, <1>5, StepSeen

\* On one vCPU, where the breakpoint calls do not fail and a return hook is
\* configured, the monitor is the pending table with every entry and every
\* return reaching its hook once (vmi_monitor_breakpoint_hit()): the threads'
\* switches, the traps and the step-overs between them are invisible to it.
THEOREM MonitorImplementsPairing ==
  ASSUME Transparent PROVE MonitorSpec => ImplementsPairing
<1>1. MonitorInit => Pairing!Init
  <2> SUFFICES ASSUME MonitorInit PROVE Pairing!Init
    OBVIOUS
  <2>1. LiveCalls = {} /\ Unrecorded = {}
    BY DEF MonitorInit, LiveCalls, Unrecorded
  <2>2. nextCall - Cardinality(Unrecorded) = 1
    BY <2>1, FS_EmptySet DEF MonitorInit
  <2> QED
    BY <2>1, <2>2 DEF MonitorInit, TableInit, Pairing!Init, Pairing!TableInit
<1>2. PairInv /\ [MonitorNext]_vars => PairInv'
  BY PairStep
<1>3. PairInv /\ PairInv' /\ [MonitorNext]_vars => [Pairing!Next]_(Pairing!vars)
  BY PairingStep
<1> QED
  BY PairInit, <1>1, <1>2, <1>3, PTL
     DEF MonitorSpec, ImplementsPairing, Pairing!Spec

-----------------------------------------------------------------------------
(***************************************************************************)
(* On one vCPU calls are recorded in the order issued, even where an       *)
(* insert fails and some are not recorded at all: the call that waits to   *)
(* be recorded is the last one issued.  So the table stays in order.       *)
(***************************************************************************)
OrderInv == OnceInv /\ LastAtEntry /\ InOrder

LEMMA OrderStep ==
  ASSUME OneVcpu, RemoveWorks, OrderInv, [MonitorNext]_vars
  PROVE  OrderInv'
<1>1. /\ OnceInv /\ OnceInv' /\ TypeOK /\ MonitorTypeOK /\ TableTypeOK
      /\ UniqueKeys /\ NoHook \notin Hooks /\ "ret" # "entry"
      /\ \A u, v \in Vcpus : u = v
  BY OnceStep, HookNames DEF OrderInv, OnceInv, MonInv, MonitorTypeOK, OneVcpu
<1>2. ASSUME UNCHANGED tableVars PROVE InOrder'
  BY <1>2 DEF tableVars, OrderInv, InOrder, Order, GivenUpOlder, EvictedLate,
              Known, ShutdownInOrder
<1>3. ASSUME UNCHANGED <<on, callOf, nextCall>>,
             \A v \in Vcpus : Waits(v)' => Waits(v)
      PROVE  LastAtEntry'
  BY <1>3 DEF OrderInv, LastAtEntry
<1>4. ASSUME NEW v \in Vcpus, NEW k \in Keys, Issue(v, k) \/ ComeBack(v, k)
      PROVE  OrderInv'
  <2>1. /\ on' = [on EXCEPT ![v] = k] /\ UNCHANGED tableVars
        /\ \/ /\ nextCall <= MaxCalls
              /\ callOf' = [callOf EXCEPT ![k] = nextCall]
              /\ nextCall' = nextCall + 1
           \/ /\ at' = [at EXCEPT ![v] = "ret"]
              /\ UNCHANGED <<callOf, nextCall>>
    BY <1>4 DEF Issue, ComeBack, Arrive, ReachHook
  <2>2. LastAtEntry'
    BY <1>1, <2>1, MaxCallsAssumption
       DEF OrderInv, LastAtEntry, Waits, TypeOK, MonitorTypeOK, Calls
  <2> QED
    BY <1>1, <1>2, <2>1, <2>2 DEF OrderInv
<1>5. ASSUME NEW v \in Vcpus, BreakpointHit(v) PROVE OrderInv'
  <2>1. /\ at[v] \in Hooks /\ ~seen[v] /\ at' = at
        /\ seen' = [seen EXCEPT ![v] = TRUE] /\ UNCHANGED guestVars
        /\ on[v] \in Keys /\ callOf[on[v]] \in Calls
    BY <1>1, <1>5, HitOnce, HitCall DEF BreakpointHit, OnceInv
  <2>2. PICK k \in Keys, c \in Calls : k = on[v] /\ c = callOf[on[v]]
    BY <2>1
  <2>3. LastAtEntry'
    BY <1>1, <1>3, <2>1 DEF Waits, guestVars, TypeOK
  <2>4. CASE at[v] = "ret"
    <3>1. HandleReturn(k, c)
      BY <1>5, <2>2, <2>4 DEF BreakpointHit
    <3> QED
      BY <1>1, <2>3, <3>1, ReturnInOrder DEF OrderInv
  <2>5. CASE at[v] = "entry"
    <3>1. HandleEntry(k, c)
      BY <1>1, <1>5, <2>2, <2>5 DEF BreakpointHit
    <3>2. c = nextCall - 1 /\ c \notin Known
      BY <2>1, <2>2, <2>5 DEF OrderInv, LastAtEntry, Waits, OnceInv, NewAtEntry
    <3>3. \A b \in Known : b < c
      BY <1>1, <3>2, CallsNumbered DEF OnceInv, NewAtEntry, MonitorTypeOK, Calls
    <3>4. InOrder'
      BY <1>1, <3>1, <3>3, HoldInOrder, LogEntryInOrder DEF HandleEntry, OrderInv
    <3> QED
      BY <1>1, <2>3, <3>4 DEF OrderInv
  <2> QED
    BY <2>1, <2>4, <2>5 DEF Hooks
<1>6. ASSUME NEW v \in Vcpus,
             \/ PassHook(v) \/ TrapAtHook(v) \/ StepDone(v) \/ Unclaimed(v)
             \/ UpdateVcpus(v)
      PROVE  OrderInv'
  <2>1. /\ UNCHANGED <<tableVars, on, callOf, nextCall, seen>>
        /\ at' = at \/ at' = [at EXCEPT ![v] = NoHook]
    BY <1>6, MachineLeaves DEF PassHook, Execute, guestVars
  <2>2. \A u \in Vcpus : Waits(u)' => Waits(u)
    BY <1>1, <2>1 DEF Waits, TypeOK, NoHook
  <2> QED
    BY <1>1, <1>2, <1>3, <2>1, <2>2 DEF OrderInv
<1>7. ASSUME NEW k \in Keys, Vanish(k) PROVE OrderInv'
  BY <1>1, <1>2, <1>3, <1>7 DEF Vanish, hookVars, Waits, OrderInv
<1>8. CASE Shutdown
  <2>1. FlushPending("shutdown") /\ UNCHANGED <<hookVars, callOf, on, nextCall>>
    BY <1>8 DEF Shutdown
  <2>2. InOrder'
    BY <1>1, <2>1, FlushInOrder DEF OrderInv
  <2> QED
    BY <1>1, <1>3, <2>1, <2>2 DEF hookVars, Waits, OrderInv
<1>9. CASE UNCHANGED vars
  BY <1>1, <1>2, <1>3, <1>9 DEF vars, hookVars, guestVars, Waits, OrderInv
<1> QED
  BY <1>4, <1>5, <1>6, <1>7, <1>8, <1>9 DEF MonitorNext, Proceed

LEMMA OrderKept == ASSUME OneVcpu, RemoveWorks PROVE MonitorSpec => []OrderInv
<1>1. MonitorInit => OrderInv
  <2> SUFFICES ASSUME MonitorInit PROVE OrderInv
    OBVIOUS
  <2>1. OnceInv /\ LastAtEntry
    BY OnceInit, MaxCallsAssumption
       DEF MonitorInit, Init, InitVcpus, LastAtEntry, Waits
  <2>2. InOrder
    BY DEF MonitorInit, TableInit, InOrder, Order, GivenUpOlder, EvictedLate,
           ShutdownInOrder
  <2> QED
    BY <2>1, <2>2 DEF OrderInv
<1>2. OrderInv /\ [MonitorNext]_vars => OrderInv'
  BY OrderStep
<1> QED
  BY <1>1, <1>2, PTL DEF MonitorSpec

\* On one vCPU, whatever the inserts return and whichever mode is configured:
\* vmi_handle_entry() evicts the oldest of the calls held, and not before
\* PendingMax younger ones have been recorded; and vmi_flush_pending() writes
\* in the order of the calls, after whatever was given up before.
THEOREM MonitorInOrder ==
  ASSUME OneVcpu, RemoveWorks
  PROVE  MonitorSpec => [](GivenUpOlder /\ EvictedLate /\ ShutdownInOrder)
<1>1. OrderInv => GivenUpOlder /\ EvictedLate /\ ShutdownInOrder
  BY DEF OrderInv, InOrder
<1>2. MonitorSpec => []OrderInv
  BY OrderKept
<1> QED
  BY <1>1, <1>2, PTL

-----------------------------------------------------------------------------
(***************************************************************************)
(* What SyscallPairing promises, of the monitor at work.                   *)
(***************************************************************************)
\* The entry a return finds under its key is that of the call returning.
OwnEntry == \A l \in LiveCalls, p \in pending : p.key = l.key => p.call = l.call

\* Every call issued is held or logged, but the one that waits at its hook.
AllRecorded == 1..(MappedNext - 1) \subseteq Known

\* A call in flight is held, or was evicted, until the shutdown.
LivesKept == running => \A l \in LiveCalls : InTable(l) \/ Evicted(l)

Promise == PairCorrect /\ OwnEntry /\ AllRecorded /\ LivesKept

\* Contexts in the kernel have keys of their own.
LEMMA LiveKeys ==
  \A l, m \in LiveCalls : l.key = m.key => l = m
  BY DEF LiveCalls

PromiseInv == PairInv /\ Promise

LEMMA PromiseStep ==
  ASSUME Transparent, PromiseInv, [MonitorNext]_vars
  PROVE  PromiseInv'
<1>1. PairInv /\ PairInv' /\ PairCorrect /\ OwnEntry
      /\ TableTypeOK /\ UniqueKeys /\ AllRecorded /\ LivesKept
  BY PairStep DEF PromiseInv, Promise, PairInv, OnceInv, MonInv, MonitorTypeOK
<1> USE DEF Promise
<1>2. ASSUME PairStutter PROVE Promise'
  BY <1>1, <1>2
     DEF PairStutter, tableVars, PairCorrect, OwnEntry, AllRecorded, Known,
         LivesKept, InTable, Evicted
<1>3. ASSUME NEW k \in Keys, EntrySeen(k) PROVE Promise'
  <2>1. /\ Lands(k, MappedNext) \/ \E p \in pending : Replaces(p, k, MappedNext)
        /\ LiveCalls' = LiveCalls \cup {[key |-> k, call |-> MappedNext]}
        /\ \A l \in LiveCalls : l.key # k
    BY <1>1, <1>3, HoldEffect DEF EntrySeen
  <2>2. PairCorrect'
    BY <1>1, <1>3, HoldPairs DEF EntrySeen
  <2>3. \A q \in pending' : \/ q.key = k /\ q.call = MappedNext
                            \/ q \in pending /\ q.key # k
    BY <2>1 DEF Lands, Replaces, NewEntry
  <2>4. OwnEntry'
    BY <1>1, <2>1, <2>3 DEF OwnEntry
  <2>5. NothingForgotten /\ MappedNext \in Known'
    BY <1>1, <1>3, HoldKept DEF EntrySeen
  <2>6. MappedNext \in Nat /\ MappedNext' = MappedNext + 1
    BY <1>3 DEF EntrySeen, Calls
  <2>7. AllRecorded'
    BY <1>1, <2>5, <2>6 DEF AllRecorded, NothingForgotten
  <2>8. LivesKept'
    <3>1. PICK c \in Calls : c = MappedNext /\ HoldEntry(k, c)
      BY <1>3 DEF EntrySeen
    <3>2. /\ \A l : l.key # k /\ (InTable(l) \/ Evicted(l)) =>
               InTable(l)' \/ Evicted(l)'
          /\ \A l : l.key = k /\ l.call = c => InTable(l)'
      BY <1>1, <3>1, HoldLive
    <3>3. running' => \A l \in LiveCalls' : InTable(l)' \/ Evicted(l)'
      BY <1>1, <1>3, <2>1, <3>1, <3>2 DEF EntrySeen, LivesKept
    <3> QED
      BY <3>3 DEF LivesKept, InTable, Evicted
  <2> QED
    BY <2>2, <2>4, <2>7, <2>8
<1>4. ASSUME NEW l \in LiveCalls, ReturnSeen(l) PROVE Promise'
  <2>1. \A p \in pending : p.key = l.key => p.call = l.call
    BY <1>1 DEF OwnEntry
  <2>2. PairCorrect' /\ pending' \subseteq pending
    BY <1>1, <1>4, <2>1, ReturnPairs DEF ReturnSeen
  <2>3. NothingForgotten
    BY <1>1, <1>4, ReturnKept DEF ReturnSeen
  <2>4. AllRecorded'
    BY <1>1, <1>4, <2>3 DEF ReturnSeen, AllRecorded, NothingForgotten
  <2>5. LivesKept'
    <3>1. PICK k \in Keys, c \in Calls : k = l.key /\ c = l.call
      BY <1>4 DEF ReturnSeen
    <3>2. \A m : m.key # k /\ (InTable(m) \/ Evicted(m)) =>
            InTable(m)' \/ Evicted(m)'
      BY <1>1, <1>4, <3>1, ReturnLive DEF ReturnSeen
    <3>3. running' => \A m \in LiveCalls' : InTable(m)' \/ Evicted(m)'
      BY <1>1, <1>4, <3>1, <3>2, LiveKeys DEF ReturnSeen, LivesKept
    <3> QED
      BY <3>3 DEF LivesKept, InTable, Evicted
  <2> QED
    BY <1>1, <1>4, <2>2, <2>4, <2>5 DEF ReturnSeen, OwnEntry
<1>5. ASSUME NEW l \in LiveCalls, Gone(l) PROVE Promise'
  BY <1>1, <1>5 DEF Gone, tableVars, PairCorrect, OwnEntry, AllRecorded, Known,
                    LivesKept, InTable, Evicted
<1>6. ASSUME Flush PROVE Promise'
  <2>1. PairCorrect' /\ OwnEntry'
    BY <1>1, <1>6, FlushPairs DEF Flush, OwnEntry
  <2>2. NothingForgotten
    BY <1>1, <1>6, FlushKept DEF Flush
  <2> QED
    BY <1>1, <1>6, <2>1, <2>2 DEF Flush, AllRecorded, NothingForgotten, LivesKept
<1> QED
  BY <1>1, <1>2, <1>3, <1>4, <1>5, <1>6, StepSeen DEF PromiseInv

LEMMA PromiseKept == ASSUME Transparent PROVE MonitorSpec => []PromiseInv
<1>1. MonitorInit => PromiseInv
  <2> SUFFICES ASSUME MonitorInit PROVE PromiseInv
    OBVIOUS
  <2>1. PairInv /\ PairCorrect /\ OwnEntry
    BY PairInit DEF MonitorInit, TableInit, PairCorrect, OwnEntry
  <2>2. Unrecorded = {}
    BY DEF MonitorInit, Unrecorded
  <2>3. MappedNext = 1
    BY <2>2, FS_EmptySet DEF MonitorInit, MappedNext
  <2>4. LivesKept
    BY DEF MonitorInit, LivesKept, LiveCalls
  <2> QED
    BY <2>1, <2>3, <2>4 DEF PromiseInv, Promise, AllRecorded
<1>2. PromiseInv /\ [MonitorNext]_vars => PromiseInv'
  BY PromiseStep
<1> QED
  BY <1>1, <1>2, PTL DEF MonitorSpec

\* A "ret" in the log is the return value of the line's own call, whatever
\* the threads do between entry and return: switched, blocked, gone without
\* returning, with their stack taken over by another
\* (vmi-syscall-monitor.c:38-45).
THEOREM MonitorPairsRight ==
  ASSUME Transparent PROVE MonitorSpec => []PairCorrect
<1>1. MonitorSpec => []PromiseInv
  BY PromiseKept
<1>2. PromiseInv => PairCorrect
  BY DEF PromiseInv, Promise
<1> QED
  BY <1>1, <1>2, PTL

\* No call of the guest gets by the monitor: it is in the table or in the log
\* as soon as it is past the entry hook (vmi_monitor_breakpoint_hit()).
THEOREM MonitorMissesNone ==
  ASSUME Transparent PROVE MonitorSpec => []Pairing!NothingLost
<1>1. MonitorSpec => []PromiseInv
  BY PromiseKept
<1>2. PromiseInv => Pairing!NothingLost
  BY DEF PromiseInv, Promise, AllRecorded, MappedNext, Known,
         Pairing!NothingLost, Pairing!Issued
<1> QED
  BY <1>1, <1>2, PTL

\* A blocked call waits for its return in the table, whatever other threads
\* enter and return meanwhile; the only thing that takes it out is an
\* eviction, and never the next user of its key (vmi_handle_entry()).
THEOREM MonitorKeepsLive ==
  ASSUME Transparent PROVE MonitorSpec => []Pairing!LiveKept
<1>1. MonitorSpec => []PromiseInv
  BY PromiseKept
<1>2. PromiseInv => Pairing!LiveKept
  BY DEF PromiseInv, Promise, LivesKept, InTable, Evicted, Pairing!LiveKept
<1> QED
  BY <1>1, <1>2, PTL

\* An eviction takes the oldest of the calls held, and PendingMax more have
\* passed the entry hook since it did; the one that waits at the hook does
\* not count (vmi_handle_entry()).
THEOREM MonitorEvictsOldest ==
  ASSUME Transparent PROVE MonitorSpec => []Pairing!EvictedOldest
<1>1. OneVcpu /\ RemoveWorks
  BY DEF Transparent, RemoveWorks
<1>2. MonitorSpec => []OrderInv /\ []PromiseInv
  BY <1>1, OrderKept, PromiseKept, PTL
<1>3. OrderInv /\ PromiseInv => Pairing!EvictedOldest
  <2> SUFFICES ASSUME OrderInv, PromiseInv,
                      NEW i \in DOMAIN log, log[i].kind = "evicted"
               PROVE  /\ \A p \in pending : log[i].call < p.call
                      /\ log[i].call + PendingMax < MappedNext
    BY DEF Pairing!EvictedOldest, MappedNext
  <2>1. \A p \in pending : log[i].call < p.call
    BY DEF OrderInv, InOrder, GivenUpOlder
  <2>2. PICK c \in Known : log[i].call + PendingMax <= c
    BY DEF OrderInv, InOrder, EvictedLate
  <2>3. c < nextCall /\ \A v \in Vcpus : Waits(v) => c # nextCall - 1
    BY DEF OrderInv, OnceInv, NewAtEntry, LastAtEntry, Waits
  <2>4. \/ MappedNext = nextCall
        \/ MappedNext = nextCall - 1 /\ \E v \in Vcpus : Waits(v)
    <3>1. CASE \E v \in Vcpus : TRUE
      BY <1>1, <3>1, ViewNow DEF View, PromiseInv
    <3>2. CASE \A v \in Vcpus : FALSE
      <4>1. Unrecorded = {}
        BY <3>2 DEF Unrecorded, AtHook, PromiseInv, PairInv
      <4> QED
        BY <4>1, FS_EmptySet DEF MappedNext, OrderInv, OnceInv, MonInv,
                                 MonitorTypeOK, Calls
    <3> QED
      BY <3>1, <3>2
  <2>5. /\ c \in Nat /\ nextCall \in Nat
        /\ log[i].call \in Nat /\ PendingMax \in Nat
    BY CallsNumbered, PendingMaxAssumption
       DEF OrderInv, OnceInv, MonInv, MonitorTypeOK, Calls
  <2> QED
    BY <2>1, <2>2, <2>3, <2>4, <2>5
<1> QED
  BY <1>2, <1>3, PTL
=============================================================================
