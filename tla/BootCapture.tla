----------------------------- MODULE BootCapture -----------------------------
(***************************************************************************)
(* run_capture_from_boot.py: gdb is loaded first (gdb_session.py), then    *)
(* `kraft run' is started in the background, and the script races          *)
(* kraftkit's own resume of the paused QEMU to attach gdb.                 *)
(*                                                                         *)
(* Instances: "own" is the one this run's `kraft run' creates; "namesake"  *)
(* is up from the start under args.name; "other" is anyone's, started at   *)
(* any time; "stale" is what a dead instance has left on disk.             *)
(*                                                                         *)
(* External: kraftkit creates the runtime directory, launches QEMU with -S *)
(* and resumes it over a connection of its own; QEMU's monitor writes a    *)
(* banner and a prompt, then echo, reply and prompt for each command, in   *)
(* pieces that arrive in any portions; gdb takes its stdin in order.  An   *)
(* int3 lands only in a guest that has booted (run_capture_from_boot.py,   *)
(* "Known limitation").  The duration is longer than gdb takes to attach,  *)
(* and gdb minds its SIGINT: the one that does not is in GdbCapture.       *)
(***************************************************************************)
EXTENDS Naturals, Sequences

CONSTANTS MaxEvents     \* --max-events; 0: not given

ASSUME BootCaptureAssumption == MaxEvents \in Nat

NoOne == "nobody"
Instances == {"own", "namesake", "other"}
Dirs == Instances \cup {"stale"}
Pieces == {"banner", "echo", "reply", "prompt"}
Lines == {"source", "target", "continue", "detach", "quit", "eof"}
Ended == {"done", "failed"}

VARIABLES
  pc,        \* the script's place in main()
  before,    \* runtime directories there before the start
  target,    \* whose runtime directory was taken for the new one
  buf,       \* what _recv_until_prompt() has got
  wire,      \* monitor output on its way to the script
  monitor,   \* what QEMU's monitor is still to write
  listener,  \* whose gdbstub listens on the port the script has found
  cli,       \* the `kraft run' process
  dirs,      \* kraftkit's runtime directory
  run,       \* guest: "off", "prelaunch" (-S), "running", "debug", "gone"
  booted,    \* guests that are past the boot
  armed,     \* guests with the int3 in memory
  intruded,  \* did another instance appear while the script was looking?
  gdb,       \* the gdb process
  stdin,     \* lines it has not read
  bp,        \* has it read monitor.py?
  session,   \* the instance it is connected to
  events     \* events logged

dialog   == <<buf, wire, monitor>>
hostVars == <<cli, dirs, booted, intruded>>
gdbVars  == <<gdb, stdin, bp, session, events>>
script   == <<pc, before, target>>
vars     == <<script, dialog, listener, run, armed, hostVars, gdbVars>>

Hmp == {"banner", "reply"}
Waits == {"rundir", "monsock", "connect", "cliwait"} \cup Hmp

BootCaptureTypeOK ==
  /\ pc \in {"preload", "snapshot", "kraft", "port", "command", "attach",
             "capture", "detach", "quit", "reap", "remove"} \cup Waits \cup Ended
  /\ before \subseteq Dirs /\ dirs \subseteq Dirs
  /\ target \in Dirs \cup {NoOne}
  /\ {buf, wire, monitor} \subseteq Seq(Pieces)
  /\ listener \in Instances \cup {NoOne} /\ session \in Instances \cup {NoOne}
  /\ cli \in {"none", "building", "dir", "launched", "done"}
  /\ run \in [Instances -> {"off", "prelaunch", "running", "debug", "gone"}]
  /\ booted \subseteq Instances /\ armed \subseteq Instances
  /\ intruded \in BOOLEAN /\ bp \in BOOLEAN
  /\ gdb \in {"none", "loading", "prompt", "running", "interrupted", "exited"}
  /\ stdin \in Seq(Lines)
  /\ events \in 0..MaxEvents
  /\ pc \in {"remove", "done"} => gdb = "exited"

Alive(i) == i \in Instances /\ run[i] \in {"prelaunch", "running", "debug"}

Init ==
  /\ pc = "preload" /\ before = {} /\ target = NoOne
  /\ buf = << >> /\ wire = << >> /\ monitor = << >>
  /\ listener = NoOne /\ cli = "none"
  /\ \E up \in SUBSET {"namesake", "other"} :
       /\ run = [i \in Instances |-> IF i \in up THEN "running" ELSE "off"]
       /\ dirs = up \cup {"stale"} /\ booted = up
  /\ armed = {} /\ intruded = FALSE
  /\ gdb = "none" /\ stdin = << >> /\ bp = FALSE /\ session = NoOne
  /\ events = 0

Goes(from, to) == pc = from /\ pc' = to
Script(from, to) == Goes(from, to) /\ UNCHANGED <<hostVars, run, armed>>

-----------------------------------------------------------------------------
(***************************************************************************)
(* main(): gdb first, then the instance, then its monitor socket.          *)
(***************************************************************************)
LaunchGdbPreloaded ==
  /\ Script("preload", "snapshot")
  /\ gdb' = "loading" /\ stdin' = <<"source">>
  /\ UNCHANGED <<before, target, dialog, listener, bp, session, events>>

TakeSnapshot ==
  /\ Script("snapshot", "kraft")
  /\ before' = dirs
  /\ UNCHANGED <<target, dialog, listener, gdbVars>>

\* Popen(): the script does not wait, nor does it ask for the return code.
KraftRun ==
  /\ Goes("kraft", "rundir")
  /\ cli' = "building"
  /\ UNCHANGED <<before, target, dialog, listener, run, armed, dirs, booted,
                 intruded, gdbVars>>

\* (Faulty variant: not compared with what was there before.)
AnyDirs == dirs
NewDirs == dirs \ before

\* next(iter(diff)): any of them.
WaitForNewRuntimeDir ==
  /\ Script("rundir", "monsock")
  /\ target' \in NewDirs
  /\ UNCHANGED <<before, dialog, listener, gdbVars>>

WaitForMonSock ==
  /\ Script("monsock", "connect")
  /\ target # "stale" => run[target] # "off"
  /\ UNCHANGED <<before, target, dialog, listener, gdbVars>>

ConnectHmp ==
  /\ Script("connect", "banner")
  /\ Alive(target)
  /\ monitor' = <<"banner", "prompt">>
  /\ UNCHANGED <<before, target, buf, wire, listener, gdbVars>>

\* _recv_until_prompt(): one recv().  (Faulty variant: the first portion is
\* taken for all of it.)
AnyPortion(b) == TRUE
EndsWithPrompt(b) == b[Len(b)] = "prompt"

Recv ==
  /\ pc \in Hmp
  /\ \E n \in 1..Len(wire) :
       /\ buf' = buf \o SubSeq(wire, 1, n)
       /\ wire' = SubSeq(wire, n + 1, Len(wire))
  /\ pc' = IF ~EndsWithPrompt(buf') THEN pc
           ELSE IF pc = "banner" THEN "port" ELSE "attach"
  /\ UNCHANGED <<before, target, monitor, listener, run, armed, hostVars,
                 gdbVars>>

\* find_free_port(): nobody listens there, for now.
FindFreePort ==
  /\ Script("port", "command")
  /\ UNCHANGED <<before, target, dialog, listener, gdbVars>>

HmpCommand ==
  /\ Script("command", "reply")
  /\ buf' = << >>
  /\ monitor' = monitor \o <<"echo", "reply", "prompt">>
  /\ UNCHANGED <<before, target, wire, listener, gdbVars>>

\* The reply is printed, not looked at; the socket is closed.
\* (Faulty variant: gdb is left where it has stopped the guest.)
TargetOnly == <<"target">>
TargetRemote == <<"target", "continue">>

AttachPreloadedGdb ==
  /\ Script("attach", "cliwait")
  /\ stdin' = stdin \o TargetRemote
  /\ wire' = << >> /\ monitor' = << >>
  /\ UNCHANGED <<before, target, buf, listener, gdb, bp, session, events>>

WaitForKraft ==
  /\ Script("cliwait", "capture")
  /\ cli = "done"
  /\ UNCHANGED <<before, target, dialog, listener, gdbVars>>

\* TimeoutError, socket.timeout, TimeoutExpired: nothing catches them.  The
\* interpreter's exit closes gdb's stdin and leaves the rest as it is.
TimesOut ==
  /\ pc \in Waits
  /\ pc' = "failed" /\ stdin' = Append(stdin, "eof")
  /\ UNCHANGED <<before, target, dialog, listener, run, armed, hostVars, gdb,
                 bp, session, events>>

-----------------------------------------------------------------------------
(***************************************************************************)
(* main(), from the capture on; stop_gdb_capture(); stop_and_remove().     *)
(***************************************************************************)
GdbExited ==
  /\ Script("capture", "remove") /\ gdb = "exited"
  /\ UNCHANGED <<before, target, dialog, listener, gdbVars>>

DurationOver ==
  /\ gdb # "loading" /\ stdin = << >>
  /\ Script("capture", IF gdb = "exited" THEN "remove" ELSE "detach")
  /\ gdb' = IF gdb = "running" THEN "interrupted" ELSE gdb
  /\ UNCHANGED <<before, target, dialog, listener, stdin, bp, session, events>>

SendDetach ==
  /\ Script("detach", "quit")
  /\ stdin' = Append(stdin, "detach")
  /\ UNCHANGED <<before, target, dialog, listener, gdb, bp, session, events>>

SendQuit ==
  /\ Script("quit", "reap")
  /\ stdin' = Append(stdin, "quit")
  /\ UNCHANGED <<before, target, dialog, listener, gdb, bp, session, events>>

\* proc.wait() has returned.  (Faulty variant: not waited for.)
NotAwaited == TRUE
Awaited == gdb = "exited"

Reap ==
  /\ Script("reap", "remove") /\ Awaited
  /\ UNCHANGED <<before, target, dialog, listener, gdbVars>>

\* Whoever has the name.
HasName(i) == i \in {"own", "namesake"} /\ Alive(i)

StopAndRemove ==
  /\ Goes("remove", "done")
  /\ run' = [i \in Instances |-> IF HasName(i) THEN "gone" ELSE run[i]]
  /\ armed' = {i \in armed : ~HasName(i)}
  /\ UNCHANGED <<before, target, dialog, listener, hostVars, gdbVars>>

-----------------------------------------------------------------------------
(***************************************************************************)
(* kraftkit, and other users of it.                                        *)
(***************************************************************************)
KraftMakesDir ==
  /\ cli = "building" /\ ~Alive("namesake")
  /\ cli' = "dir" /\ dirs' = dirs \cup {"own"}
  /\ UNCHANGED <<script, dialog, listener, run, armed, booted, intruded,
                 gdbVars>>

\* A name in use, or a build that does not succeed.
KraftFails ==
  /\ cli = "building"
  /\ cli' = "done"
  /\ UNCHANGED <<script, dialog, listener, run, armed, dirs, booted, intruded,
                 gdbVars>>

KraftLaunches ==
  /\ cli = "dir"
  /\ cli' = "launched" /\ run' = [run EXCEPT !["own"] = "prelaunch"]
  /\ UNCHANGED <<script, dialog, listener, armed, dirs, booted, intruded,
                 gdbVars>>

Started(i) == IF Alive(i) THEN "running" ELSE run[i]

KraftResumes ==
  /\ cli = "launched"
  /\ cli' = "done" /\ run' = [run EXCEPT !["own"] = Started("own")]
  /\ UNCHANGED <<script, dialog, listener, armed, dirs, booted, intruded,
                 gdbVars>>

OtherStarts ==
  /\ run["other"] = "off"
  /\ run' = [run EXCEPT !["other"] = "prelaunch"]
  /\ dirs' = dirs \cup {"other"}
  /\ intruded' = (pc \in {"kraft", "rundir"})
  /\ UNCHANGED <<script, dialog, listener, armed, cli, booted, gdbVars>>

OtherResumes ==
  /\ run["other"] = "prelaunch"
  /\ run' = [run EXCEPT !["other"] = "running"]
  /\ UNCHANGED <<script, dialog, listener, armed, hostVars, gdbVars>>

\* Another capture's QEMU gets the port after it was probed.
PortLost ==
  /\ pc \in {"command", "reply"} /\ listener = NoOne /\ Alive("other")
  /\ listener' = "other"
  /\ UNCHANGED <<script, dialog, run, armed, hostVars, gdbVars>>

Boots(i) ==
  /\ run[i] = "running" /\ i \notin booted
  /\ booted' = booted \cup {i}
  /\ UNCHANGED <<script, dialog, listener, run, armed, cli, dirs, intruded,
                 gdbVars>>

\* The command has been carried out when its reply is written: the stub
\* listens, or could not.
MonitorWrites ==
  /\ monitor # << >> /\ Alive(target)
  /\ wire' = Append(wire, Head(monitor)) /\ monitor' = Tail(monitor)
  /\ listener' = IF Head(monitor) = "reply" /\ listener = NoOne THEN target
                                                                 ELSE listener
  /\ UNCHANGED <<script, buf, run, armed, hostVars, gdbVars>>

-----------------------------------------------------------------------------
(***************************************************************************)
(* gdb.                                                                    *)
(***************************************************************************)
GdbLoaded ==
  /\ gdb = "loading" /\ gdb' = "prompt"
  /\ UNCHANGED <<script, dialog, listener, run, armed, hostVars, stdin, bp,
                 session, events>>

Reads(line) == gdb = "prompt" /\ stdin # << >> /\ Head(stdin) = line
               /\ stdin' = Tail(stdin)
Release ==
  /\ armed' = armed \ {session}
  /\ run' = [i \in Instances |->
               IF i = session /\ run[i] = "debug" THEN "running" ELSE run[i]]
  /\ session' = NoOne

ReadSource ==
  /\ Reads("source") /\ bp' = TRUE
  /\ UNCHANGED <<script, dialog, listener, run, armed, hostVars, gdb, session,
                 events>>

\* Another capture's stub may be busy with that capture's gdb.
ReadTarget ==
  /\ Reads("target")
  /\ \/ /\ Alive(listener)
        /\ session' = listener
        /\ run' = [run EXCEPT ![listener] = "debug"]
     \/ /\ listener # target \/ ~Alive(listener)
        /\ UNCHANGED <<session, run>>
  /\ UNCHANGED <<script, dialog, listener, armed, hostVars, gdb, bp, events>>

ReadContinue ==
  /\ Reads("continue")
  /\ IF session = NoOne THEN UNCHANGED <<gdb, run, armed>>
     ELSE /\ gdb' = "running"
          /\ run' = [run EXCEPT ![session] = Started(session)]
          /\ armed' = IF bp /\ session \in booted THEN armed \cup {session}
                                                   ELSE armed
  /\ UNCHANGED <<script, dialog, listener, hostVars, bp, session, events>>

ReadDetach ==
  /\ Reads("detach") /\ Release
  /\ UNCHANGED <<script, dialog, listener, hostVars, gdb, bp, events>>

\* "Cannot execute this command while the target is running"
LosesDetach ==
  /\ gdb = "interrupted" /\ stdin # << >> /\ Head(stdin) = "detach"
  /\ stdin' = Tail(stdin)
  /\ UNCHANGED <<script, dialog, listener, run, armed, hostVars, gdb, bp,
                 session, events>>

ReadQuit ==
  /\ Reads("quit") \/ Reads("eof")
  /\ gdb' = "exited" /\ Release
  /\ UNCHANGED <<script, dialog, listener, hostVars, bp, events>>

GdbInterrupted ==
  /\ gdb = "interrupted" /\ gdb' = "prompt"
  /\ run' = [run EXCEPT ![session] = "debug"]
  /\ UNCHANGED <<script, dialog, listener, armed, hostVars, stdin, bp,
                 session, events>>

\* monitor.py's stop() in a booted guest; the last event detaches and quits.
LogCall ==
  /\ gdb = "running" /\ session \in armed /\ run[session] = "running"
  /\ MaxEvents # 0 /\ events' = events + 1
  /\ IF events' = MaxEvents THEN gdb' = "exited" /\ Release
                            ELSE UNCHANGED <<gdb, session, armed, run>>
  /\ UNCHANGED <<script, dialog, listener, hostVars, stdin, bp>>

-----------------------------------------------------------------------------
Main ==
  \/ LaunchGdbPreloaded \/ TakeSnapshot \/ KraftRun \/ WaitForNewRuntimeDir
  \/ WaitForMonSock \/ ConnectHmp \/ Recv \/ FindFreePort \/ HmpCommand
  \/ AttachPreloadedGdb \/ WaitForKraft \/ TimesOut
  \/ GdbExited \/ SendDetach \/ SendQuit \/ Reap \/ StopAndRemove

Kraft == KraftMakesDir \/ KraftFails \/ KraftLaunches \/ KraftResumes

Gdb == \/ GdbLoaded \/ ReadSource \/ ReadTarget \/ ReadContinue
       \/ ReadDetach \/ ReadQuit \/ GdbInterrupted

Next ==
  \/ Main \/ DurationOver \/ Kraft \/ Gdb \/ LosesDetach \/ LogCall
  \/ OtherStarts \/ OtherResumes \/ PortLost \/ MonitorWrites
  \/ \E i \in Instances : Boots(i)

Spec == Init /\ [][Next]_vars

\* The script and gdb run, and kraftkit finishes what it has begun, which
\* includes resuming each guest it has launched.  Nothing is assumed of the
\* duration or of QEMU's monitor.
FairSpec ==
  /\ Spec
  /\ WF_vars(Main) /\ WF_vars(Gdb) /\ WF_vars(Kraft) /\ WF_vars(OtherResumes)

-----------------------------------------------------------------------------
\* gdb is on a guest only with monitor.py read, however long it took to load
\* (run_capture_from_boot.py:20-23), and only when QEMU has answered the
\* gdbserver command, however its output was cut into portions: until then
\* there is nothing for "target remote" to find.
ReadyOnAttach ==
  /\ "target" \in {stdin[k] : k \in 1..Len(stdin)} => listener # NoOne
  /\ session # NoOne => bp

\* stop_and_remove(args.name) never hits an instance that was running under
\* the name before: `kraft run' then fails, unnoticed, and no new runtime
\* directory appears, unless some other instance starts just then.
NamesakeSpared ==
  [][Alive("namesake") /\ ~Alive("namesake")' => intruded]_vars

\* However the race with kraftkit's resume ends, and whatever fails, every
\* guest that was paused at reset or is stopped by gdb runs in the end.
EveryGuestRuns ==
  \A i \in Instances :
    (run[i] \in {"prelaunch", "debug"}) ~> (run[i] \in {"running", "gone"})
=============================================================================
