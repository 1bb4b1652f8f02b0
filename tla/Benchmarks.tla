----------------------------- MODULE Benchmarks -----------------------------
(***************************************************************************)
(* The two benchmark scripts.  bench_overhead.py ("overhead") measures one *)
(* instance without and with a gdb attached; bench_overhead_inline.py      *)
(* ("inline") boots an instance for each of three conditions.  Both run    *)
(* `ab' against http://localhost:8080/, whoever answers there, and must    *)
(* clean up behind every exception, a Ctrl-C included, that comes within a *)
(* try.  Users start instances and stop any instance meanwhile, and the    *)
(* guest may crash under load: then its QEMU may be left hanging, or gone, *)
(* and with it the name and host port 8080.                                *)
(*                                                                         *)
(* External: kraft (a name and a published host port are used once, an     *)
(* instance without a QEMU is not listed), ab, and gdb, which has its      *)
(* breakpoint in before the first request, as the one second's sleep is    *)
(* meant for.  Attaching and detaching are GdbCapture's; no other gdb is   *)
(* around.                                                                 *)
(***************************************************************************)
EXTENDS Naturals, FiniteSets

CONSTANTS Reps,         \* --reps
          Exported      \* may VMI_MONITOR_ADDR be in the environment? a set

ASSUME BenchAssumption == Reps \in Nat \ {0} /\ Exported \subseteq BOOLEAN

NoOne == "nobody"
Gone == "gone"          \* gdb's instance is there no more
BenchNames == {"vmibench", "vmibench3base", "vmibench3inline", "vmibench3gdb"}
Names == BenchNames \cup {"site"}
Ended == {"done", "failed", "refused"}

VARIABLES
  bench,     \* which script is run
  exported,  \* is VMI_MONITOR_ADDR set in its environment?
  pc,        \* its place
  cond,      \* the condition being measured
  mine,      \* we_started_it
  raised,    \* where the exceptions on their way up came from
  reps,      \* repetitions tried under this condition
  results,   \* condition -> number of results
  measured,  \* the figure taken last: condition, instance, how it was traced
  lost,      \* conditions whose own instance has crashed or been stopped
  inst,      \* name -> "script", "user" or NoOne
  monitored, \* instances whose QEMU has the inline monitor armed
  http,      \* the instance that publishes host port 8080
  hung,      \* instances whose guest has crashed
  gdb        \* the instance this script's gdb is on, or Gone

given    == <<bench, exported>>
control  == <<pc, cond, mine, raised, reps>>
found    == <<results, measured, lost>>
world    == <<inst, monitored, http, hung>>
vars     == <<given, control, found, world, gdb>>

\* The conditions, their labels and their instances.
Traces == IF bench = "overhead" THEN <<"none", "gdb">>
                                ELSE <<"none", "inline", "gdb">>
NameOf(c) ==
  IF bench = "overhead" THEN "vmibench"
  ELSE <<"vmibench3base", "vmibench3inline", "vmibench3gdb">>[c]
Conditions == DOMAIN Traces

Places == {"settle", "attach", "arm", "warmup", "reps", "stopgdb", "remove"}

BenchTypeOK ==
  /\ bench \in {"overhead", "inline"} /\ exported \in Exported
  /\ pc \in {"setup", "start"} \cup Places \cup Ended
  /\ cond \in Conditions
  /\ mine \in BOOLEAN /\ raised \subseteq Places
  /\ reps \in 0..Reps
  /\ results \in [1..3 -> 0..Reps]
  /\ measured \subseteq [c : Conditions, on : Names,
                         of : {"script", "user", NoOne}, alone : BOOLEAN,
                         traced : {"none", "inline", "gdb"}]
  /\ lost \subseteq Conditions
  /\ inst \in [Names -> {"script", "user", NoOne}]
  /\ {monitored, hung} \subseteq SUBSET Names
  /\ http \in Names \cup {NoOne} /\ gdb \in Names \cup {NoOne, Gone}

Init ==
  /\ bench \in {"overhead", "inline"} /\ exported \in Exported
  /\ pc = "setup" /\ cond = 1 /\ mine = FALSE /\ raised = {} /\ reps = 0
  /\ results = [c \in 1..3 |-> 0] /\ measured = {} /\ lost = {}
  /\ inst = [n \in Names |-> NoOne]
  /\ monitored = {} /\ http = NoOne /\ hung = {} /\ gdb = NoOne

IsUp(n) == inst[n] # NoOne

\* The try of gdb's finally, and that of the instance's.
GdbTry == pc \in IF bench = "overhead" THEN {"reps"} ELSE {"warmup", "reps"}
InstanceTry == bench = "inline" /\ pc \notin {"start", "settle", "remove"}

\* What try and finally make of an exception that is raised here.
\* (Faulty variant: no finally.)
EndAtOnce == "failed"
Unwind ==
  IF GdbTry /\ Traces[cond] = "gdb" THEN "stopgdb"
  ELSE IF InstanceTry THEN "remove" ELSE "failed"

Raise == pc' = Unwind /\ raised' = raised \cup {pc}
GoOn(to) == pc' = to /\ UNCHANGED raised

-----------------------------------------------------------------------------
\* overhead: instance_is_running(); inline: --qemu, resolve_syscall_addr().
Setup ==
  /\ pc = "setup"
  /\ IF bench = "overhead"
       THEN /\ mine' = ~IsUp(NameOf(1))
            /\ pc' = IF mine' THEN "start" ELSE "warmup"
       ELSE /\ mine' = TRUE
            /\ pc' \in {"start", "failed", "refused"}
  /\ UNCHANGED <<cond, raised, reps, found, world, gdb, given>>

\* subprocess.run(check=True), before any try.  (Faulty variant:
\* check=False.)
StartIgnored == "settle"
StartRefused == "failed"

\* "-p 8080:80": kraft refuses a name or a port in use.
StartInstance ==
  /\ pc = "start"
  /\ \/ /\ ~IsUp(NameOf(cond)) /\ http = NoOne
        /\ inst' = [inst EXCEPT ![NameOf(cond)] = "script"]
        /\ http' = NameOf(cond)
        /\ monitored' = IF bench = "inline" /\ cond # 3
                           /\ (Traces[cond] = "inline" \/ exported)
                          THEN monitored \cup {NameOf(cond)} ELSE monitored
        /\ pc' = "settle"
     \/ /\ IsUp(NameOf(cond)) \/ http # NoOne
        /\ pc' = StartRefused
        /\ UNCHANGED <<inst, http, monitored>>
  /\ UNCHANGED <<cond, mine, raised, reps, found, hung, gdb, given>>

\* time.sleep(BOOT_SETTLE_S), before the try; Ctrl-C raises.
Settle ==
  /\ pc = "settle"
  /\ GoOn(IF Traces[cond] = "gdb" THEN "attach" ELSE "warmup") \/ Raise
  /\ UNCHANGED <<cond, mine, reps, found, world, gdb, given>>

\* find_instance_runtime_dir() to launch_gdb_capture().
AttachGdb ==
  /\ pc = "attach"
  /\ \/ IsUp(NameOf(cond)) /\ gdb' = NameOf(cond) /\ GoOn("arm")
     \/ Raise /\ UNCHANGED gdb
  /\ UNCHANGED <<cond, mine, reps, found, world, given>>

\* time.sleep(1.0): gdb is there and its try has not begun.
Arm ==
  /\ pc = "arm"
  /\ GoOn(IF bench = "overhead" THEN "reps" ELSE "warmup") \/ Raise
  /\ UNCHANGED <<cond, mine, reps, found, world, gdb, given>>

\* run_ab(): figures; none (RuntimeError, TimeoutExpired); or an exception
\* run_ab_reps() does not know (Ctrl-C, no ab).
RunAb == {"failed", "fatal"} \cup
         (IF http = NoOne \/ http \in hung THEN {} ELSE {"figures"})

Warmup ==
  /\ pc = "warmup"
  /\ \E ab \in RunAb :
       IF ab = "figures" THEN GoOn("reps") ELSE Raise
  /\ UNCHANGED <<cond, mine, reps, found, world, gdb, given>>

TracedBy(n) == IF gdb = n THEN "gdb"
               ELSE IF n \in monitored THEN "inline" ELSE "none"

\* alone: the condition still has the instance that was started for it.
Figure == [c |-> cond, on |-> http, of |-> inst[http],
           alone |-> cond \notin lost, traced |-> TracedBy(http)]

\* range(reps).
MoreReps == reps < Reps

\* A repetition that fails is skipped.
Rep ==
  /\ pc = "reps" /\ MoreReps
  /\ \E ab \in RunAb :
       /\ IF ab = "fatal" THEN Raise ELSE UNCHANGED <<pc, raised>>
       /\ IF ab = "figures"
            THEN /\ results' = [results EXCEPT ![cond] = @ + 1]
                 /\ measured' = {Figure}
            ELSE UNCHANGED <<results, measured>>
  /\ reps' = reps + 1
  /\ UNCHANGED <<cond, mine, lost, world, gdb, given>>

\* "all {reps} reps failed -- nothing to report".
SomeReport == results[cond] > 0

\* summarize(); overhead goes on to its second condition by attaching.
Reported ==
  /\ pc = "reps" /\ ~MoreReps
  /\ IF ~SomeReport THEN Raise /\ UNCHANGED cond
     ELSE /\ GoOn(IF Traces[cond] = "gdb" THEN "stopgdb"
                  ELSE IF bench = "inline" THEN "remove" ELSE "attach")
          /\ cond' = IF bench = "overhead" THEN 2 ELSE cond
  /\ reps' = 0
  /\ UNCHANGED <<mine, found, world, gdb, given>>

\* finally: stop_gdb_capture(), which raises when gdb outlives terminate().
StopGdb ==
  /\ pc = "stopgdb"
  /\ \/ /\ gdb' = NoOne
        /\ GoOn(IF raised # {} /\ bench = "overhead" THEN "failed" ELSE "remove")
     \/ Raise /\ UNCHANGED gdb
  /\ UNCHANGED <<cond, mine, reps, found, world, given>>

\* The instances of these names go, and host port 8080 with them.
Leave(names) ==
  /\ inst' = [n \in Names |-> IF n \in names THEN NoOne ELSE inst[n]]
  /\ http' = IF http \in names THEN NoOne ELSE http
  /\ monitored' = monitored \ names /\ hung' = hung \ names
  /\ gdb' = IF gdb \in names THEN Gone ELSE gdb

\* finally: stop_and_remove(), by name.
Remove ==
  /\ pc = "remove"
  /\ \/ /\ Leave(IF mine THEN {NameOf(cond)} ELSE {})
        /\ UNCHANGED raised
        /\ IF raised # {} THEN pc' = "failed" /\ UNCHANGED cond
           ELSE IF cond + 1 \in Conditions
             THEN pc' = "start" /\ cond' = cond + 1
             ELSE pc' = "done" /\ UNCHANGED cond
     \/ Raise /\ UNCHANGED <<cond, world, gdb>>
  /\ reps' = 0
  /\ UNCHANGED <<mine, found, given>>

-----------------------------------------------------------------------------
\* What goes on as long as the script runs.
UserStarts(n) ==
  /\ ~IsUp(n) /\ pc \notin Ended
  /\ inst' = [inst EXCEPT ![n] = "user"]
  /\ http' \in (IF http = NoOne THEN {n, NoOne} ELSE {http})
  /\ UNCHANGED <<control, found, monitored, hung, gdb, given>>

GoesAway(n) ==
  /\ IsUp(n) /\ pc \notin Ended /\ Leave({n})
  /\ lost' = IF inst[n] = "script"
               THEN lost \cup {c \in Conditions : NameOf(c) = n} ELSE lost
  /\ UNCHANGED <<control, results, measured, given>>

\* kraft stop, whoever has started it.
UserStops(n) == GoesAway(n)

\* "observed happening ... independent of VMI monitoring".
GuestCrashes(n) ==
  /\ IsUp(n) /\ n = http /\ pc \in {"warmup", "reps"}
  /\ \/ /\ hung' = hung \cup {n}
        /\ UNCHANGED <<control, found, inst, monitored, http, gdb, given>>
     \/ GoesAway(n)

Main == Setup \/ StartInstance \/ Settle \/ AttachGdb \/ Arm \/ Warmup
        \/ Rep \/ Reported \/ StopGdb \/ Remove

Next ==
  \/ Main
  \/ \E n \in Names : UserStarts(n) \/ UserStops(n) \/ GuestCrashes(n)

Spec == Init /\ [][Next]_vars

-----------------------------------------------------------------------------
\* What is left behind is what an exception outside the try leaves: a gdb
\* that comes from the second between its launch and its try, or that
\* stop_gdb_capture() could not end; an instance of bench_overhead_inline.py
\* from its settle time, or from its removal.  After any other exception, in
\* whichever condition, both are gone.  (bench_overhead.py keeps its instance
\* when it ends in an exception.)
LeavesAsFound ==
  pc \in Ended =>
    /\ gdb # NoOne <=> raised \cap {"arm", "stopgdb"} # {}
    /\ (\E n \in Names : inst[n] = "script") =>
         \/ bench = "overhead" /\ pc = "failed"
         \/ raised \cap {"settle", "remove"} # {}

\* As long as its instance has not crashed or been stopped, a script that has
\* started it collects figures of that instance only, and under the very
\* condition they are reported for; and one that gets to its end has figures
\* for every condition.  (With the instance gone another may take host port
\* 8080, and what it answers goes into the rest of the repetitions.)
MeasuredAsLabelled ==
  /\ mine /\ ~exported =>
       \A m \in measured : m.alone =>
         m.on = NameOf(m.c) /\ m.of = "script" /\ m.traced = Traces[m.c]
  /\ pc = "done" => \A c \in Conditions : results[c] > 0

\* "monitor DISABLED (VMI_MONITOR_ADDR unset)" (bench_overhead_inline.py:4-6).
BaselineUnmonitored ==
  \A m \in measured : bench = "inline" /\ m.c = 1 => m.traced = "none"
=============================================================================
