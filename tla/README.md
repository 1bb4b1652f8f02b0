# Verification of the unikernel syscall monitor

TLA+ specifications of the two ways in which this repository observes the
system calls of a Unikraft guest and of the scripts around them, model-checked
with TLC, and proofs checked with TLAPS for the step-over machine and its
arming, the pairing of calls with their return values, the monitor that composes
machine and table, the three capture scripts, the text of an event, the
validation against the guest's own tracer and the benchmark scripts.

* The **inline monitor** (`qemu_patch/`): a patch of QEMU 6.2/KVM that puts an
  `int3` on the guest's syscall entry and, since Phase 8, on its return point,
  logs each call as one JSON line, single-steps the original instruction and
  puts the `int3` back.
* The **gdbstub capture** (`run_capture.py`, `run_capture_from_boot.py`,
  `gdb_session.py`, `monitor.py`, `attach_gdbstub.py`): an external gdb with a
  breakpoint on the same address.

## 1. Inventory

| Component | State it keeps | Operations | Talks to |
|---|---|---|---|
| Step-over machine, `vmi-syscall-monitor.c:612-694`, `0001-kvm.c.diff` | per vCPU `vmi_state_table`, `vmi_step_addr_table`, `cs->singlestep_enabled`; the int3 bytes and QEMU's breakpoint registry | the two new branches of `kvm_handle_debug`, `vmi_monitor_breakpoint_hit`, `vmi_monitor_step_complete` | KVM (debug exits), QEMU's breakpoint calls, the table below |
| Pending table and log, `vmi-syscall-monitor.c:38-60, 432-610` | `vmi_pending[64]`, `vmi_pending_seq`, the JSONL file | `vmi_handle_entry`, `vmi_handle_return`, `vmi_flush_pending`, `vmi_write_event` | called by the hit handler and at shutdown |
| Arming, `vmi-syscall-monitor.c:117-370`, `0003-fw_cfg.c.diff` | `vmi_arm_timer`, `vmi_arm_attempts`, `vmi_first_hit_seen`, `vmi_boot_sync_ok` | `vmi_try_arm` (timer and VM start, main thread), `vmi_monitor_kernel_loaded` (vCPU thread), first hit (vCPU thread) | the registry, shared with the step-over machine |
| `run_capture_inline.py` | log path, instance name, tail position, count | unlink, check, start, tail or sleep, stop, count | kraft, the JSONL file QEMU writes |
| `run_capture.py` + `gdb_session.py` + `monitor.py` + `attach_gdbstub.py` | `we_started_it`, port, gdb process, append-mode log | start or attach, probe port, HMP `gdbserver`, launch gdb, `stop()` per hit, SIGINT/detach/quit, stop or leave, count | kraft, QEMU's monitor socket and gdbstub, gdb |
| `run_capture_from_boot.py` | preloaded gdb, snapshot of the runtime directories, HMP connection, background `kraft run` | preload, start, find directory and socket, HMP dialogue, `target remote`/`continue`, wait, stop | the same, and kraftkit's own resume of the QEMU |
| `syscall_table.py`, `vmi-syscall-table.h` | constant tables | lookup by number | `monitor.py`; `vmi_write_event` |
| Event text: `vmi_write_event`, `format_ret`, `format_event` | none | write the keys of a line; read them back | the JSONL file |
| `validate_strace.py` | none | parse both logs, longest common run, names in one only | the capture's log, the guest's console log |
| `bench_overhead.py`, `bench_overhead_inline.py` | condition, repetitions, results, an instance or a gdb of their own | start, attach, warm up, measure, stop | kraft, `ab` on port 8080, gdb |

What is hard here:

* **Two threads, one registry.** The poller runs on QEMU's main thread, the
  boot-sync hook and all handlers on vCPU threads. The big QEMU lock (BQL)
  separates them, except that QEMU's own `kvm_update_guest_debug()` goes
  through `run_on_cpu()`, which releases the BQL while it waits for another
  thread's vCPU: in every attempt of the poller, and on several vCPUs in every
  handler.
* **A trap and its handler are two steps.** Between them another vCPU's
  handler, or the poller, may change the registration of that very address.
* **Calls that fail**, in the middle of a sequence of two or four.
* **Returns out of order, or never**; keys reused; the table full; shutdown and
  reset with entries held.
* **Scripts by name and by path**: what a name, a port, a directory or a log
  path stands for changes between being checked and being used.
* **A race on purpose**: `run_capture_from_boot.py` against kraftkit, with gdb
  reading its commands in its own time.
* **Exceptions** between starting something and being bound to stop it.
* **Two formats that must agree**: two tables, a line's writer and its reader,
  a log at entry and a log at return.

What makes each component correct: every debug exception the monitor causes is
consumed by it (`NothingLeaks`), a hook is out of memory only while being
stepped over (`DisarmedOnlyInStepOver`); a return value only on its own call's line
(`PairCorrect`), one line per call (`LoggedOnce`), none lost (`NothingLost`,
`ImplementsPairing`); arming that ends (`PollingEnds`), that nothing races with
but what comes in while an attempt waits (`SafeUntilOverlap`), and that has live
hooks when boot sync says so (`BootSyncHolds`); captures that show and count
what was written, release the guest
and clean up what they started; guests that are not left paused
(`EveryGuestRuns`); lines that mean to their reader what their writer meant
(`LoggedAlike`, `ShownAsReturned`); a validation that neither misses a sound
capture nor raises a false alarm (`CaptureConfirmed`, `OnlyUnreturned`); figures
under the right label (`MeasuredAsLabelled`), and nothing left behind
(`LeavesAsFound`).

## 2. Modules

| Module | Models | Remarks |
|---|---|---|
| `KvmBreakpoints` | QEMU's software breakpoints: one cell (byte, use count, saved byte) per address, and the outcomes of insert, remove and readback | external code, modelled as the monitor's comments and calls rely on it; pure operators |
| `HookStep` | the step-over machine on a set of vCPUs | one action per guest step and per handler; on several vCPUs two per handler, with its breakpoint call's wait between them |
| `PendingTable` | `vmi_pending[]` and the log | the handlers as action operators, no specification of its own |
| `SyscallPairing` | the table under a guest whose every entry and return is seen | EXTENDS `PendingTable` |
| `StraceLog` | abstract: what the reader of the log is promised | refined by `SyscallPairing` |
| `InlineMonitor` | `HookStep` and `PendingTable` composed, with threads that migrate | refines `SyscallPairing` on one vCPU |
| `BootArming`, `MCBootArming` | poller, boot sync, first hit, reset | EXTENDS `HookStep`, whose handlers go on meanwhile; the MC module names the worlds it is checked in |
| `CaptureInline` | runs of `run_capture_inline.py` and the QEMU each starts | |
| `GdbCapture` | runs of `run_capture.py` and their gdb processes | |
| `BootCapture` | one run of `run_capture_from_boot.py`, its gdb, kraftkit and other instances | |
| `SyscallTables`, `EventLine`, `MCEventLine` | the two tables; one event from the registers to the terminal | `EventLine` takes any two tables, `MCEventLine` gives it the repository's |
| `StraceCheck`, `MCStraceCheck` | a guest, its tracer, a capture, and `validate_strace.py` on the two logs | the MC module gives the captures' table |
| `Benchmarks` | a run of either benchmark script among users' instances | |
| `MonitorProofs` | theorems about `HookStep`, `BootArming` and `InlineMonitor`, one part each | section 5; one module, for the second and third part rest on the first |
| `PendingTableProofs`, `SyscallPairingProofs` | lemmas about the table's handlers; theorems about the table | section 5 |
| `CaptureInlineProofs`, `GdbCaptureProofs`, `BootCaptureProofs` | theorems about the capture scripts | section 5 |
| `LogProofs` | theorems about `EventLine` and `StraceCheck`, one part each | section 5 |
| `BenchmarksProofs` | theorems | section 5 |

### Correspondence of state

`HookStep`: `bp` is the guest byte and registry entry of each hook;
`vmiState`, `stepAddr` are the two hash tables, `singlestep` is
`cs->singlestep_enabled`. `at`, `trap` are the guest's: the hook a vCPU stands
on and the debug exit it has taken but whose handler has not run. `seen`,
`unseen` are history, for stating that nothing runs behind the monitor's back.
`fate` records what `kvm_handle_debug()` did with an exception that was not the
monitor's: stop the VM for a debugger, or deliver it into the guest. `update` is
the time inside a handler's breakpoint call: the vCPUs its
`kvm_update_guest_debug()` has still to be run on, its own included; until the
others have served it the BQL is free, the byte already changed and
`vmi_state_table` not.

`PendingTable`: the C array's slots are interchangeable, so the table is the set
of used entries; an entry is its `seq`, key and call. `call` stands for number,
arguments and time stamp. A line is its call, its kind and the call whose `%rax`
it prints. `(rsp, rcx)` is one opaque key. The scan of `vmi_handle_entry` is
three disjoint cases (`Supersede`, `TakeFreeSlot`, `EvictOldest`); that the scan
can supersede at most one entry, and then never evicts, follows from
`UniqueKeys`, which is part of the proved invariant.

`BootArming`: `op`, `hook` are the main thread's place in `vmi_try_arm`, whose
breakpoint calls are one action each (guest code needs no lock and runs in
between); `waiting` is the time inside `run_on_cpu()`, first for the vCPU thread
to serve the work, then for the lock. Every call that patches memory (the first
user of an address comes, the last goes) has such a wait, as in QEMU 6.2.
`armTimer` is `vmi_arm_timer`: NULL, allocated, or due. `world` is what may
happen to this QEMU, chosen at the start: the calls that may fail before and
after the kernel is loaded, and how many resets there may be. `overlapped` is
history: whether any handler of the vCPU thread (a hit, the end of a step-over,
boot sync) has run during a wait. The vCPU thread's own arming is atomic: it
holds the BQL, waits for nobody and its guest is stopped.

`CaptureInline`: a file is identified with the script whose QEMU created it; the
path names a file or none; unlinking leaves the file with those who have it
open. `exists()`, `unlink()` and `open()` are steps of their own, so each may
find what the one before did not. The path may name what an earlier run has left
(`Earlier`); `debug` says whether the debug log's path names anything. `beside`
is history: the runs that were not the only one under way from their set-up to
their end. `pos` is `n_events`, `reader` the file
`tail_lines` has open. `GdbCapture`: instances by name, the stub's port, the
guest's run state, the int3 of gdb's breakpoint, and gdb as a process that is
starting, connected, running, interrupted, at its prompt or gone. `found` has
the runs whose monitor socket is still that of a running QEMU, for the socket is
looked up before the port and used after it. `late` has the instances whose last
`gdbserver` command was executed while the script raised, for a reply that came
too late or was empty. `stopped` is history: the runs whose instance has been
stopped.

`BootCapture`: `monitor`, `wire`, `buf` are what QEMU's monitor has yet to
write, what is on its way and what `_recv_until_prompt` has; banner, echo, reply
and prompt are one piece each, received in any portions. `stdin` is what gdb has
not read of the script's commands. `cli` is the `kraft run` in the background,
`dirs` the runtime directory. A guest is in prelaunch (QEMU `-S`), running,
stopped by gdb, or gone. `intruded` is history: whether some other instance
appeared while the script was looking for its own.

`EventLine`: `lo`, `hi` are the bounds of `vmi_syscall_lookup`, one action per
round; `line` has the keys a JSON line has, `shown` how `format_ret` displayed
it. `GdbName` and `GdbArgs` are the gdb capture's line for the same registers.
`SyscallTables` holds both tables as numbers and argument counts; a call's name
is its number.

`StraceCheck`: the same calls write both logs. `caught` are the calls the
capture has seen being entered and that have not returned; `mode` is which of
the two captures it is, `stage` whether the guest still runs or where the script
is. `NamesUpTo` is the loop of `parse_strace_log`, as a recursive function of the
number of lines read. `VmiName` gives each call the name a capture writes for it:
the tracer's, or `syscall_N` if its number is not in the table of
`vmi-syscall-table.h` and `syscall_table.py`, as `README.md:421-425` reports of
three numbers. `Benchmarks`: `http` is the instance behind host port 8080;
`measured` is the figure taken last, with the condition it is reported under, the
instance that answered, who started it, what traced it, and whether the
condition's own instance was still there (`lost` has the others). `settle` and
`arm` are the sleeps before the two try blocks, `raised` the places an exception
has come from.

## 3. Runs

All runs have deadlock checking off: a guest may be stopped for a debugger or
killed, be shut down, or reach the bound on its calls; a script ends.

### Runs that pass

| Run | Distinct states | Question |
|---|---|---|
| `SyscallPairing` | 27 033 | pairing, nothing lost, eviction and shutdown order; refinement of `StraceLog` |
| `InlineMonitor_up` | 41 673 | the whole monitor on one vCPU: refinement of `SyscallPairing`, guest never stuck |
| `InlineMonitor_entry_only` | 1 428 | no return hook, failing reinserts: the log is the calls in order, every exception consumed |
| `InlineMonitor_smp` | 106 236 | two vCPUs stepping at once, and inside each other's breakpoint calls: one line per call, a hook only ever out for its own step-over |
| `BootArming` | 88 827 | two worlds: inserts and readbacks failing before the kernel is loaded; the same failures at any time, and a reset. BQL released in every patching call of an attempt: nothing races but through it, boot sync's hooks stay live, the polling ends |
| `CaptureInline` | 216 018 | two runs on one path and name, one timed and perhaps quiet, Ctrl-C, an earlier run's files: display faithful and caught up, count right, nothing left behind, the timed one ends |
| `GdbCapture` | 249 478 | two captures on two names, users who start and stop instances at any time, commands that fail before or after their execution, a gdb that may hang: guests released and never frozen, the right guest, own instance only, every run ends |
| `BootCapture` | 12 058 | the race with kraftkit's resume, every wait timing out, a namesake, another new instance, a lost port: gdb attaches only when it is ready, no guest is left paused, the namesake is spared |
| `Benchmarks` | 2 542 496 | both scripts, every call failing, Ctrl-C in every sleep, users who start and stop instances under any name, a guest that crashes and may free its port: what is left behind, figures as labelled |
| `StraceCheck` | 426 570 | both captures, attached late, cut off early, with overlapping calls and console noise: what is reported is so |
| `EventLine` | 431 529 | every register value against the repository's two tables, every kind of line: named alike, shown as returned, the search ends |

`HookStep` has no run of its own: `InlineMonitor` and `BootArming` extend it, and
its properties are checked there and proved in `MonitorProofs`.

### Bounds, and why they are enough

* *vCPUs*: one, as the builds are, and two, where the interference between a
  step-over and another vCPU is complete. `BootArming` has one: its question is
  main thread against vCPU thread.
* *Keys, PendingMax, MaxCalls*: three contexts on two slots with five calls
  give every relation between the table and its guest: a free slot, a full
  table, a key reused while its old entry is still held, an eviction of a call
  that still returns. Three keys and four calls in the composed model. The
  proofs of section 5 need no bound.
* *Faults*: the set of breakpoint calls that may fail. `"remove"` is not among
  them in `InlineMonitor`'s runs: a vCPU back on the same int3 logs its call
  again, without bound. `NoLeak` and `EntryOnly` (section 5) cover it.
* *Worlds* (`MCBootArming`): one in which boot sync itself cannot fail, so that
  it has to succeed whatever the attempts before it met, and one in which
  anything but a remove may fail at any time, with a reset. No world has a
  failing remove: with it a hook is registered twice, one of section 4's
  disagreements. *MaxAttempts* is 3 instead of 100: one attempt that arms, one
  that re-arms over an armed hook, one that fails or gives up. At most one reset:
  it leaves all flags as they are, so a second one meets what the first one met.
* *MaxLines*, *MaxEvents* of the capture scripts: two or three lines suffice for
  a torn line before, at and after the reader's position, and for one capture to
  reach its last event while the other logs one; in `GdbCapture` no further hit
  comes once the log has two lines, the fewest that reach `--max-events 2`.
* *Scripts, Ports, Names*: two of each. A race over a port, a name or a log is
  between two runs; what a third adds is in section 4, and the theorems of
  section 5 have any number. A run of `run_capture.py` takes any name. All the
  instances it starts publish host port 8080, so at most one that a script
  started is up at a time; a second capture needs one of the user's. *UserNames*,
  the names under which users start and stop instances at any moment (a script's
  included), has one of the two names: the other is a name only scripts use. The
  theorems have any.
* *Timed*: the runs with `--duration`; one of the two, so that both kinds meet.
  *MayBeQuiet*: the runs that may have `--quiet`; the timed one, and the initial
  states include that it has not. *CtrlC*: `{"tail"}`, the places where the code
  handles it. *MayHang*: the runs whose gdb may never come back to its prompt;
  one of the two, and the initial states include that none does.
* `BootCapture` has one run of the script and, for each way in which a name or a
  directory can be mistaken, one other instance: the one that has the name
  already, one that starts at any time, and what a dead one left.
* *Reps* is 2: a repetition that fails and one that does not. *Exported*: the
  shell may or may not have `VMI_MONITOR_ADDR`. Users may start instances
  under any of the names, and stop any.
* `StraceCheck`: two threads, so that calls overlap, three names, two of which
  the captures' table has, so that runs repeat and are broken by a `syscall_N`,
  four calls and one line of noise.
* `EventLine`: a register has 11 bits and an int 10, instead of 64 and 32: the
  greatest number in the table is 441, so there are numbers in the table,
  between its entries, beyond them, negative as an int, and beyond an int. All
  numbers of a register are tried. Returns are -8..7 with 5 for 4095 and 4 for
  `0x10000`, so each border has values on both sides. The proofs have any width,
  any table and any returns.

No symmetry reduction is used.

### Fairness

* `InlineMonitor`: a vCPU at a hook, or out of the guest, goes on (KVM runs it,
  QEMU handles its exit). Nothing is assumed of the guest's own progress.
* `BootArming`: the main loop runs its callbacks and due timers, the vCPU thread
  serves its work queue and its handlers. Nothing is assumed of the guest.
* `CaptureInline`: a script not waiting for the user goes on; the polling loop
  (`TAIL_POLL_S`) comes round; QEMU finishes a line it has begun, since
  `vmi_write_event` has no wait in it.
* `GdbCapture`: scripts and gdb processes run, and a gdb that does not hang
  minds its SIGINT. Nothing is assumed of the durations: `ScriptEnds` is about a
  run that is not in its capture.
* `BootCapture`: the script and gdb run, and kraftkit finishes a `kraft run` it
  has begun, which includes resuming the QEMU it launched. That is external, and
  what the script's documentation observes ("~90-100ms after the monitor socket
  appears"). Nothing is assumed of the duration or of QEMU's monitor.
* `EventLine`: the lookup loop is straight code.
* `Benchmarks` and `StraceCheck` have safety properties only.

## 4. What the checks found

### Kept as a run

`BootArming_race_timer` (`NoNullTimer`). Boot sync frees the timer while
`vmi_try_arm` waits with the BQL released, and `timer_mod(NULL)` follows;
`vmi-syscall-monitor.c:303-307` says the two cannot race. Run `BootArming` has
the same arming, and there `SafeUntilOverlap` holds: as long as no handler of the
vCPU thread happens to run during such a wait, nothing of the kind occurs, with
more going wrong besides.

### Further disagreements

TLC finds these when the named property is checked with the named constants.

| Behaviour | Property | Constants |
|---|---|---|
| If the entry hook's reinsert fails and the return hook's does not, the next call on that stack is not recorded but its return is, on an older entry's line (`vmi-syscall-monitor.c:42-44` says the key "keeps pairs correct") | `PairCorrect` | as `InlineMonitor_up`, `Faults = {"insert"}` |
| While one vCPU steps over a hook another runs through it unrecorded (`docs/phase6_inline_qemu_design.md:520-523` keeps the state per vCPU so as not to "silently break") | `ImplementsPairing` | as `InlineMonitor_smp` |
| Two vCPUs, each inside a handler's patching breakpoint call, wait in `run_on_cpu()` for each other, for ever: neither serves its queue meanwhile (the same design section) | `GuestNotStuck` | as `InlineMonitor_smp`, `FairMonitorSpec` |
| Two vCPUs trap on one hook; the first handler removes the registration and the second one's exception goes into the guest | `NothingLeaks` | as `InlineMonitor_smp` |
| The int3 cannot be removed: the vCPU traps on it for ever, against the comment at `vmi-syscall-monitor.c:649-651` | `GuestNotStuck` | as `InlineMonitor_up`, `Faults = {"remove"}` |
| After a guest reset the kernel is loaded over the int3 bytes and `vmi_boot_sync_ok` keeps the hook from arming again (`vmi-syscall-monitor.h:53-58`: "exactly once") | `StandDownLive` until `overlapped` | a world with one reset and no faults |
| After `run_on_cpu()`, `vmi_try_arm` does not look at the flags again and removes a hook the guest is trapping on, whose int3 then goes into the guest | `NothingLeaks` | as `BootArming_race_timer` |
| An attempt that cannot put the entry hook back leaves the previous attempt's return hook; its hit ends the polling | `StandDownLive` until `overlapped` | `late = {"insert"}` |
| The result of the first remove of an attempt is ignored; the second registration makes the step-over leave the int3 in memory, and the VM stops for a debugger | `SingleUse`, `NoInt3InStepOver`, `NothingLeaks` until `overlapped` | `late = {"remove"}` |
| Boot sync fails after the poller has given up: "falling back to periodic retry" has nothing to fall back on | `SyncFailureRetried` | `late = {"insert"}`, `MaxAttempts = 2` |
| The log is unlinked before the script knows whether an instance is writing to it (`run_capture_inline.py:42`: "the single source of truth") | `LogReachable` | as `CaptureInline` |
| Another run unlinks the debug log between `exists()` and `read_text()`: the run that was looking for its banner (`run_capture_inline.py:130`: "purely cosmetic") ends in `FileNotFoundError` with its instance running | `NoInstanceLeft` without its exception | as `CaptureInline` |
| A failing `gdbserver` command leaves the instance the run started | `NoInstanceLeft` | as `GdbCapture` |
| The instance a run has started is stopped and another one started under its name during the capture: the run stops and removes that one (`run_capture.py:10-12`: "does not stop/remove someone else's instance") | `OwnInstanceOnly` without `s \notin stopped` | as `GdbCapture` |
| A second run's `gdbserver` command takes the stub from the first one's gdb, and its reply is late or empty: the script raises, launches no gdb, and the guest stops at the int3 for good | `GuestReleased`, `GuestGoesOn` without `late` | as `GdbCapture` |
| Of three runs, the first opens port 1 on an instance, the second attaches to the same instance on port 2, which closes port 1, and the third opens port 1 on another instance: the first run's gdb then connects to that one (`attach_gdbstub.py:76-85` only probes) | `GdbOnOwnGuest` without `OnlyRun` | as `GdbCapture`, three runs |
| The reported count is of all lines of an append-mode log | `CountsOwnRun` | as `GdbCapture` |
| A returned call whose number is not in the captures' table is reported as seen only in the capture (`validate_strace.py:110`), and ends the longest run: `README.md:421-425` has three such numbers | `OnlyUnreturned` without `Unlisted` | as `StraceCheck` |
| A number beyond an int is given the name of the call its lower half is the number of, by the inline monitor but not by the gdb capture | `AlwaysAlike` | as `EventLine` |
| With calls that overlap, the gdb capture's order is not the tracer's, and a sound capture is not confirmed (`validate_strace.py:87-90`) | `EntryCaptureConfirmed` | as `StraceCheck` |
| `VMI_MONITOR_ADDR` exported in the shell reaches the baseline's QEMU (`bench_overhead_inline.py:4-6`: "VMI_MONITOR_ADDR unset") | `BaselineUnmonitored` | as `Benchmarks` |
| The benchmark's instance crashes or is stopped in mid-measurement; another takes host port 8080 and answers the remaining repetitions, which are reported under the script's label | `MeasuredAsLabelled` without `m.alone` | as `Benchmarks` |
| Ctrl-C in the settle time after `kraft run`, or in the second between gdb's launch and its try, leaves instance or gdb | `LeavesAsFound` without its exceptions | as `Benchmarks` |

Besides, `bench_overhead.py` and `run_capture_from_boot.py` leave the instance
they started when they end in an exception; `LeavesAsFound` says so of the
former and `TimesOut` of `BootCapture` models the latter.

## 5. Proofs

For all values of the constants; from the named assumptions of the modules:
`RetCapture` is a Boolean, `Faults` a set of fault kinds, `PendingMax` and
`MaxAttempts` positive, `MaxCalls`, `MaxEvents` and `MaxLines` any natural
numbers, `Reps` a positive one; no run, instance or file is named like the
constant that stands for none (or, of runs, for a user or an earlier run), and
no call like those for no call, noise on the console and a torn line; the name a
capture writes for a call is the tracer's for that call or not one of the
tracer's; an int is no wider than a register, and the table is sorted, has
numbers of an int and the same numbers and argument counts as the other table.
Sets of vCPUs, contexts, runs, ports and names need not be finite. What a
theorem needs besides is its ASSUME: `OneVcpu`; `Faults = {}` or, weaker,
`RemoveWorks`; `RemoveSucceeds`, which excludes a failing remove while arming;
`CtrlC \subseteq {"tail"}`; that there is but one run of `run_capture.py`, or
one guest thread. Section 4 has the counterexample to most of them without it.

**`MonitorProofs`, part 1: `HookStep`.**
`TypeCorrect`: `TypeOK`. Its conjunct that a STEPPING vCPU has its hook
recorded is what makes `stepAddr` usable in `StepComplete`. The invariant is
`IInv == TypeOK /\ TrapOnHook /\ CallInHandler /\ HooksClean`: a vCPU traps on an
int3 only where it stands on a hook, one that is inside a breakpoint call is in a
handler and has its own update still to come, and no cell has an int3 saved as
the original byte. The lemmas about `RemoveOutcomes` and `InsertOutcomes` say
what each call may make of a cell.
`NoLeak`: `NothingLeaks`, for one vCPU and any faults. The strengthening `LInv`
adds `Focus` (what a vCPU's trap, state and single-step flag may be together),
`SingleUser` (a use count is at most one, so a successful remove really takes
the int3 out) and that no handler is left waiting, there being nobody to wait
for. With two vCPUs the theorem is false (section 4).
`OutOnlyWhileStepped`: `DisarmedOnlyInStepOver`, for any vCPUs, whose handlers
run inside each other's breakpoint calls, and no faults. Between the byte's
removal and STEPPING the hook is out with nobody stepping over it yet, and
between its reinsertion and NORMAL it is in with somebody still STEPPING.
`Exclusive` therefore speaks of an owner (`Owns`): a vCPU owns a hook from the
moment its remove has patched the byte until its insert has patched it back; a
hook that is not armed is an unregistered cell with the original byte, and has
exactly one owner. A second vCPU that trapped on it finds no registration and
takes nothing out. With a failing reinsert the property is false.

**Part 2: `BootArming`**, where `HookStep`'s handlers run among the arming's
steps, and QEMU 6.2's release of the BQL in each of an attempt's patching calls
is always in.
`BootTypeCorrect`: in every world, whatever fails, removes included. `BInv` takes
`IInv` over to the larger system and adds `CanTry`: a timer is due, or an attempt
begun, only below `VMI_ARM_MAX_ATTEMPTS`.
`TimerNotFreed`: `~overlapped => NoNullTimer`, whatever fails: an attempt meets
`timer_mod(NULL)` only if a handler has run during one of its waits, which is
what `BootArming_race_timer` shows to happen. `TimerKept` says why: during an
attempt no other handler has overlapped, the timer is allocated, and neither flag
that frees it is set.
`Serialized`: `SafeUntilOverlap`, on one vCPU and where a registered int3 can be
taken out. That no hook is registered twice needs `Alone`: a hook that is stepped
over, or that an attempt is about to insert, is registered by nobody; and that
needs `NoneBefore`: no step-over before the first hit.
`ArmedAndHeard`: `BootSyncHolds`, on one vCPU, with the step-overs' own calls
working and removes working while arming, but inserts and readbacks failing as
they like. Its invariant `LiveInv` divides time at the loading of the kernel:
before it no vCPU is anywhere near a hook (`Untouched`), however many attempts
were made; and once boot sync has reported success part 1's `LInv` and
`Exclusive` hold, with `SeenFirst`: what is being stepped over has been handled.
The lemmas about `vmi_arm_addr()` are the point: over the kernel's own
instruction it succeeds only with the cell armed once, whatever was registered
before.

**Part 3: `InlineMonitor`.** `MonitorIsHookStep`: every step of the composed
monitor is a step of the step-over machine or leaves it alone. The safety
theorems of part 1 therefore hold of the whole
monitor, for any threads, calls and table size (`MonitorNoLeak`,
`MonitorOutOnlyWhileStepped`).
`MonitorTypeCorrect`: `MonitorTypeOK` and `UniqueKeys` of the composed monitor,
for any vCPUs and faults: even with interference between vCPUs no key is held
twice. `EntryOnly`: `EntryOnlyInOrder` on one vCPU, for any faults, remove
included. It is not inductive; its invariant adds `Latest`: a vCPU standing on
the entry hook is there with the youngest call of all, so what it logs is no
older than any line before.
`MonitorKeepsSeen`, `MonitorForgetsNothing`: for any vCPUs and any faults, a call
once handed to the entry handler is held or logged from then on, and no step
takes back a line or drops an entry unlogged.
`MonitorLogsOnce`: `LoggedOnce` on any number of vCPUs and whatever inserts do.
`TakenOnce` is the point: a vCPU that has handed over its visit of a hook is
inside its handler's breakpoint call, or STEPPING, until it is off it, and in
STEPPING an int3 is not claimed. A failing
remove leaves it NORMAL, and the call is recorded again.
`MonitorImplementsPairing`: `ImplementsPairing`, on one vCPU, without faults and
with a return hook (`Transparent`). `PairInv` joins `OnceInv`, `LInv` and
`Exclusive` to three facts about the only vCPU: what it steps over has been
recorded (`AllSeen`), a context at a hook is the one on the vCPU (`AtHook`), and
the call that waits to be recorded is the last one issued (`LastAtEntry`). `View`
turns the mapping, which counts the unrecorded calls, into a case distinction on
that vCPU; traps, step-overs and thread switches are stutters, and each handler
is the abstract action of its hook.
`MonitorInOrder`: on one vCPU, whatever inserts do, with or without a return
hook, an eviction takes the oldest call held, with `PendingMax` younger ones
recorded by then, and a shutdown writes in the order of the calls. Its invariant
`OrderInv` needs `LastAtEntry`: what is recorded is younger than all that has
been. With two vCPUs calls are not recorded in the order issued.
`MonitorPairsRight`, `MonitorMissesNone`, `MonitorKeepsLive`,
`MonitorEvictsOldest`: `PairCorrect`, and `NothingLost`, `LiveKept` and
`EvictedOldest` of the mapped state, where calls count once they are past the
entry hook. TLAPS cannot cite the theorems of an instantiated module, so these
are proved anew (`PromiseInv`), from the same lemmas about the table as those of
`SyscallPairingProofs`.

**`PendingTableProofs`.** Lemmas only: what each handler of the table does to
entries and log (`HoldEffect`, `ReturnEffect`, `FlushEffect`, `LogEntryEffect`),
and what it does to five promises, whoever calls it: one line per call
(`HoldOnce`, ...), a value on its own call's line (`HoldPairs`, ...), nothing
forgotten (`HoldKept`, ...), a call in flight held or evicted (`HoldLive`, ...)
and everything in order (`HoldInOrder`, ...). `Flushed` is the one about the
sequence a shutdown writes: its lines are those of the entries held, each once
and oldest first. `InOrder` says that seq and call order agree and that what was
given up is older than what is held; it is kept if each call recorded is younger
than those before. `Room` is the one counting argument: a full table holds
`PendingMax` different calls, all younger than the evicted one.

**`SyscallPairingProofs`.** One inductive invariant, `Inv`, proves all seven
properties. Beyond the properties themselves it needs `UniqueKeys` (an entry
is found by its key), `Bounded` (every call is below the next one, so a new one
is fresh), `Match` (the live call of a key is the youngest with that key, and its
entry, if it is still held, is the one in the table) and `InOrder`. There is one
lemma per action that touches the table, and under it one step per conjunct, by
the lemma about the handler. `Implements` proves `ImplementsStraceLog`: initial
states are initial states, every action is a `Step` of `StraceLog` or a stutter.

**`CaptureInlineProofs`**, for any number of runs at one path and name.
`CaptureTypeCorrect`: `CaptureTypeOK`; a tail that reads has a file.
`InstanceRemoved`: `NoInstanceLeft`, if Ctrl-C comes only while the capture runs: a
run that has ended has left its instance only if the debug log was unlinked
between its `exists()` and its `read_text()`, by a run that was under way at the
same time. `InstanceOwned` says that an instance belongs to a run that is still
to stop it, or that ended in an exception or a Ctrl-C outside the try
(`Stranded`); `LoneRun`, that a run without others still finds the debug log it
has looked for, so its `read_text()` does not raise.
`OwnRunCounted`: `CountsOwnRun`, wherever Ctrl-C is pressed, for every run that no
other was under way beside, with any runs before and after it. `Fresh`: nothing
bears the mark of a run that has not started its QEMU. `OnlyOne`: of such runs one
is under way at a time. `LoneRuns`: the unlink has taken an earlier run's file
from the path, so the file its QEMU creates there is its own, from the first line
on; without the unlink the earlier lines are counted, which is the property's
mutant.
`LiveViewFaithful`: `ShownFaithful`, for any interleaving with other runs. Its
invariant `ShownInv` adds what `readySeen` stands for and that nothing has been
printed before the log is open; the lemmas about `FromFirst` say how the part
shown grows with each line read.

**`GdbCaptureProofs`**, for any number of runs, ports, names and any gdb that may
hang. `Places` ties the state of a gdb to the place of its script, and carries
`GdbTypeCorrect`, since a client whose connection is dropped falls back to its
prompt.
`OwnInstanceRemoved`: `OwnInstanceOnly`, an action property, while users start and
stop instances under any names. `OwnInst`: from its start on the instance a run
has started is still that of its name, or has been stopped by somebody
(`stopped`). In that last case the run stops whatever has the name then
(section 4).
`OnOwnGuest`: `GdbOnOwnGuest`. `OwnStub`: from the `gdbserver` command on until gdb
has connected, the instance of a run that has it to itself, and has not been
stopped since the run found its monitor socket (`found`), listens on that run's
port, and one port has one listener.
`AllReleased`: `GuestReleased`, with no gdb hanging. `Minded`: whatever guest is
stopped, or has the int3, has somebody left to mind it, a gdb that is connected
or one on its way to its stub, but for the instances whose last `gdbserver`
command was executed for a script that then raised (`late`). `Places` needs that
a script which fails with a gdb of its own has one that hung, for
`stop_gdb_capture()` raises only when gdb outlasts its terminate.
`MaxEventsKept`: with `--max-events` no run adds more lines than that, whatever
other runs do to its guest, its port and the log. `RoomLeft`: a gdb has room for
another event until it has exited, and it has exited for good.
`SoleRunCounted`: `CountsOwnRun`, where there is only one run; the append-mode log
then has its lines only (`Counted`). Section 4 has the second run.

**`BootCaptureProofs`**, for any `--max-events`.
`BootCaptureTypeCorrect`: `BootCaptureTypeOK`. It needs that a gdb which has logged
its last event is gone, and that gdb is only ever on a guest that is there.
`ReadyToAttach`: `ReadyOnAttach`. `SourceFirst`: until monitor.py has been read,
it is the first line on gdb's stdin. `Dialogue`: what is received, on its way and
still to be written is together QEMU's whole answer (`Told`), however it is cut;
so where a prompt ends what was received, all of it was, the reply to the
`gdbserver` command included.
`BystanderSpared`: `NamesakeSpared`, an action property. `Spared`: beside a namesake
that is up, no directory of this run's appears, so what the script has taken for
its own appeared for another reason.

**`LogProofs`, part 1: `EventLine`.** `NamedAlike` proves `LoggedAlike` from the
invariant `EventInv`: all that is left of the table outside `lo..hi` is smaller
or greater than the number looked for, and an entry found has that number. The
table being sorted turns one comparison into all of them. `IntOfSmall` is the
arithmetic: a number that fits an int is not changed by the cast.
`ShownFaithfully` proves `ShownAsReturned`: the writer's keys by kind of line
against the reader's order of questions. `LookupHalves`: every round of the
search ends it or leaves at most half of what was left, which is the safety part
of `LookupEnds`.

**Part 2: `StraceCheck`**, for any threads, calls, names and any table of the
captures. `CheckInv` relates the two logs while they grow, line by line of the
same calls, each under the capture's own name for it (`Agree`). `ReturnLog`: the
inline capture, while it is on, is of the calls the tracer has printed.
`EntryLog`: as long as no calls have overlapped, the gdb capture is of a run of
the tracer's lines, and at most one call ahead of them (`Ahead`). `Aligned` is
what remains of both when the guest stops; `AllKnown`, that whatever was captured
has returned or is in flight, needs no such condition.
`AlarmsAreUnreturned` proves `OnlyUnreturned`: a name reported as only in the
capture is a `syscall_N` (`Unlisted`) or that of a call that had not returned.
`CaptureIsConfirmed` proves `CaptureConfirmed`: the longest run reported is no
shorter than any stretch of the capture between two `syscall_N`, calls that had
not returned aside. `OneThreadConfirmed` proves `EntryCaptureConfirmed` for a
guest with one thread; with two it is false (section 4). `ReportIsTrue`: the run the
script reports is in both logs, at the places it gives, and none is longer.
What the loop over the log computes and that there is a longest run need
induction. An induction theorem that takes an operator cannot be used; here every
set of numbers has a least element (`Least`, by the well-foundedness of `<`), so
that a set which contains 0 and with n also n + 1 has them all (`SetInduction`);
`LoopRuns`, `NamesAppended` and `LongestIsLongest` rest on these.

**`BenchmarksProofs`.** One invariant, with one lemma per action: `Owns` (which
instances can be the script's at each place of it, and that its own is the one
behind port 8080, unless it has crashed or been stopped, after which another may
be), `Tracing` (its gdb is on its own condition's instance, is left only by an
exception between launch and try or in `stop_gdb_capture()`, and an instance with
the inline monitor is the one that was started so) and `Counted` (results so far,
for the conditions behind). `Labelled` and `CleanedUp` follow for any number of
repetitions: the places where an exception leaves something are exactly those
`LeavesAsFound` names.

**Model-checked only.** The liveness properties (`GuestNotStuck`, `PollingEnds`,
`LiveViewCatchesUp`, `CaptureEnds`, `GuestGoesOn`, `ScriptEnds`,
`EveryGuestRuns`, `LookupEnds`): fairness and ENABLED are outside the proof
system used. Every other property of the passing runs is a theorem.

## 6. Abstractions, and what is not modelled

* On one vCPU a handler is atomic: `kvm_arch_handle_exit()` holds the BQL around
  `kvm_handle_debug()`, and a vCPU thread's update of itself does not wait. On
  several, `HookStep` splits it at its breakpoint call, in which the BQL is
  released until every other vCPU has served the update; those vCPUs' handlers
  may run meanwhile. The order in which QEMU visits the others is left open.
* `BootArming`'s run and its theorems, `BootTypeCorrect` and `TimerNotFreed`
  aside, have one vCPU, as the builds do. With several, the vCPU threads' arming
  in boot sync would wait in the same way as the main thread's; in the model it
  is one step.
* Both hooks are on straight-line code; a guest that reads or writes its own
  text is not considered. An interrupt in the single-stepped instruction is
  taken to be held back by KVM.
* A reset is a `system_reset`: RAM, registry and the monitor's flags survive.
  Killing QEMU loses the held entries, which the code has no means against.
* A gdb session and the inline monitor on one QEMU are not composed: the scripts
  never use both, and what QEMU's gdbstub does to the monitor's breakpoints is
  not in this source.
* `vmi_monitor_init`'s parsing of the environment; names of calls (a call's name
  is its number, in both tables), time stamps, the value of `dur_us` and the
  wording of lines; the relaying of gdb's output; Ctrl-C in `run_capture.py`; the
  main program of `attach_gdbstub.py`; the similarity ratio and the diff of
  `validate_strace.py`; the statistics and result files of the benchmarks.
* `GdbCapture` and `BootCapture` assume that the duration outlasts gdb's
  start-up. In `BootCapture` gdb minds its SIGINT (in `GdbCapture` it may not),
  and a breakpoint lands only in a guest that has booted, as the script's "Known
  limitation" has it.
* `Benchmarks` takes gdb's breakpoint to be in before the first request, as the
  script's one second of sleep is meant for, and attaching and detaching as
  single steps: those are `GdbCapture`'s.

## 7. What remains

Arming with several vCPUs, its waits in boot sync included; Ctrl-C of the gdb
captures in all places.
