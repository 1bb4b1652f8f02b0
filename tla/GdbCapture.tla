------------------------------ MODULE GdbCapture ------------------------------
(***************************************************************************)
(* The gdbstub way of capturing: run_capture.py starts an instance or      *)
(* attaches to a running one, has QEMU open a gdbstub over its monitor     *)
(* socket (attach_gdbstub.py), runs gdb with monitor.py for a while and    *)
(* takes it off again (gdb_session.py).  The actors are the runs of the    *)
(* script, their gdb processes, the guests, and users, who start and stop  *)
(* instances under the same names at any time.                             *)
(*                                                                         *)
(* External: kraft (a name and a published host port are used once;        *)
(* stop and rm are by name), gdb and QEMU's gdbstub.  The stub serves one  *)
(* client; a new `gdbserver' command replaces it and drops its client; a   *)
(* client that connects pauses the guest and clears the breakpoints; a     *)
(* client that goes away without detaching leaves guest and breakpoint as  *)
(* they are.  The duration is longer than gdb takes to get going.          *)
(***************************************************************************)
EXTENDS Naturals, Sequences, FiniteSets

CONSTANTS Scripts,      \* runs of the script
          Ports,        \* what find_free_port() probes
          Names,        \* what --name can be
          UserNames,    \* those of them that users give instances as well
          MayHang,      \* runs whose gdb may fail to come back to its prompt
          MaxEvents,    \* --max-events; 0: not given
          MaxLines      \* bound: no further hit once the log is this long

NoOne == "nobody"
User == "user"
NoPort == 0
Ended == {"done", "failed"}

ASSUME GdbCaptureAssumption ==
  /\ Ports \subseteq Nat \ {NoPort}
  /\ MayHang \subseteq Scripts /\ UserNames \subseteq Names
  /\ MaxEvents \in Nat /\ MaxLines \in Nat
  /\ NoOne \notin Scripts \cup Names /\ User \notin Scripts

VARIABLES
  name,      \* script -> args.name
  hangs,     \* scripts whose gdb may hang, once it is to stop
  pc,        \* script -> its place in main()
  mine,      \* script -> we_started_it
  port,      \* script -> port
  total,     \* script -> n_events
  found,     \* scripts whose mon.sock is still that of a running QEMU
  inst,      \* name -> who started the instance that runs under it
  stub,      \* name -> port of its QEMU's gdbstub
  guest,     \* name -> "running", "hit" (at the int3) or "halted" (by gdb)
  armed,     \* name -> is the int3 in its memory?
  gdb,       \* script -> its gdb process
  session,   \* script -> the name its gdb is connected to
  quitSent,  \* script -> is "quit" in gdb's stdin?
  log,       \* lines of the log file, each as the script it belongs to
  late,      \* names whose last `gdbserver' was executed, its reply missed
  stopped    \* history: scripts whose own instance has been stopped

scriptVars == <<pc, mine, port, total>>
qemuVars   == <<inst, stub, guest, armed, found, late, stopped>>
gdbVars    == <<gdb, session, quitSent, log>>
given      == <<name, hangs>>
vars       == <<given, scriptVars, qemuVars, gdbVars>>

GdbTypeOK ==
  /\ name \in [Scripts -> Names] /\ hangs \subseteq MayHang
  /\ pc \in [Scripts -> {"check", "start", "probe", "serve", "launch", "wait",
                         "detach", "quit", "reap", "finish", "count"} \cup Ended]
  /\ mine \in [Scripts -> BOOLEAN]
  /\ port \in [Scripts -> Ports \cup {NoPort}]
  /\ total \in [Scripts -> Nat]
  /\ inst \in [Names -> Scripts \cup {User, NoOne}]
  /\ stub \in [Names -> Ports \cup {NoPort}]
  /\ \A n, m \in Names : stub[n] = stub[m] => n = m \/ stub[n] = NoPort
  /\ guest \in [Names -> {"running", "hit", "halted"}]
  /\ armed \in [Names -> BOOLEAN]
  /\ gdb \in [Scripts -> {"none", "starting", "connected", "running",
                          "interrupted", "prompt", "exited"}]
  /\ session \in [Scripts -> Names \cup {NoOne}]
  /\ \A s, t \in Scripts : session[s] = session[t] => s = t \/ session[s] = NoOne
  /\ \A s \in Scripts : pc[s] \in {"finish", "count", "done"} => gdb[s] = "exited"
  /\ quitSent \in [Scripts -> BOOLEAN]
  /\ log \in Seq(Scripts)
  /\ found \subseteq Scripts /\ late \subseteq Names /\ stopped \subseteq Scripts

Init ==
  /\ name \in [Scripts -> Names] /\ hangs \in SUBSET MayHang
  /\ pc = [s \in Scripts |-> "check"]
  /\ mine = [s \in Scripts |-> FALSE]
  /\ port = [s \in Scripts |-> NoPort]
  /\ total = [s \in Scripts |-> 0]
  /\ \E up \in SUBSET UserNames :
       inst = [n \in Names |-> IF n \in up THEN User ELSE NoOne]
  /\ stub = [n \in Names |-> NoPort]
  /\ guest = [n \in Names |-> "running"]
  /\ armed = [n \in Names |-> FALSE]
  /\ gdb = [s \in Scripts |-> "none"]
  /\ session = [s \in Scripts |-> NoOne]
  /\ quitSent = [s \in Scripts |-> FALSE]
  /\ log = << >>
  /\ found = {} /\ late = {} /\ stopped = {}

Goes(s, from, to) == pc[s] = from /\ pc' = [pc EXCEPT ![s] = to]
IsUp(n) == inst[n] # NoOne
Taken(p) == \E n \in Names : stub[n] = p

\* n's gdbstub loses its client, if it has one: that gdb is left at its
\* prompt without a target.
DropClient(n) ==
  /\ session' = [s \in Scripts |-> IF session[s] = n THEN NoOne ELSE session[s]]
  /\ gdb' = [s \in Scripts |-> IF session[s] = n THEN "prompt" ELSE gdb[s]]

\* The instance that runs under n, whoever started it, is gone.
Stop(n) ==
  /\ inst' = [inst EXCEPT ![n] = NoOne]
  /\ stub' = [stub EXCEPT ![n] = NoPort]
  /\ guest' = [guest EXCEPT ![n] = "running"]
  /\ armed' = [armed EXCEPT ![n] = FALSE]
  /\ DropClient(n)
  /\ found' = {s \in found : name[s] # n}
  /\ late' = late \ {n}
  /\ stopped' = stopped \cup ({inst[n]} \cap Scripts)

\* gdb's own detach from s's target: its breakpoint is taken out, the guest
\* runs on.
Release(s) ==
  /\ armed' = [n \in Names |-> armed[n] /\ n # session[s]]
  /\ guest' = [n \in Names |-> IF n = session[s] THEN "running" ELSE guest[n]]
  /\ session' = [session EXCEPT ![s] = NoOne]

-----------------------------------------------------------------------------
(***************************************************************************)
(* main(), up to the capture.  An exception ends the script at once.       *)
(***************************************************************************)
CheckRunning(s) ==
  /\ Goes(s, "check", IF IsUp(name[s]) THEN "probe" ELSE "start")
  /\ mine' = [mine EXCEPT ![s] = ~IsUp(name[s])]
  /\ UNCHANGED <<port, total, qemuVars, gdbVars, given>>

\* (Faulty variant: check=False.)
WhenIgnored(s) == "probe"
WhenRefused(s) == "failed"

\* Every instance a script starts publishes host port 8080; one that a user
\* has started may.
HttpPortTaken   == \E n \in Names : inst[n] \in Scripts
HttpPortFree    == \A n \in Names : inst[n] = NoOne

\* `kraft run' refuses a name in use, and so a port.
StartInstance(s) ==
  /\ \/ /\ IsUp(name[s]) \/ ~HttpPortFree
        /\ Goes(s, "start", WhenRefused(s)) /\ UNCHANGED inst
     \/ /\ ~IsUp(name[s]) /\ ~HttpPortTaken
        /\ Goes(s, "start", "probe") /\ inst' = [inst EXCEPT ![name[s]] = s]
  /\ UNCHANGED <<mine, port, total, stub, guest, armed, found, late, stopped,
                 gdbVars, given>>

\* find_instance_runtime_dir(), find_free_port(): the first port nobody
\* has, which is free again as soon as it has been probed.
FindPort(s) ==
  /\ \/ /\ IsUp(name[s])
        /\ \E p \in Ports :
             /\ ~Taken(p) /\ \A q \in Ports : q < p => Taken(q)
             /\ port' = [port EXCEPT ![s] = p]
        /\ found' = found \cup {s}
        /\ Goes(s, "probe", "serve")
     \/ /\ ~IsUp(name[s]) \/ \A p \in Ports : Taken(p)
        /\ Goes(s, "probe", "failed") /\ UNCHANGED <<port, found>>
  /\ UNCHANGED <<mine, total, inst, stub, guest, armed, late, stopped, gdbVars,
                 given>>

\* (Faulty variant: the monitor's reply is not looked at.)
ReplyIgnored(s) == "launch"
ReplyChecked(s) == "failed"

\* QEMU has executed the command.  A reply that takes more than 3 s, or an
\* empty one, raises all the same: the script ends and launches no gdb.
ServerReplaced(s) ==
  /\ s \in found /\ ~Taken(port[s])
  /\ stub' = [stub EXCEPT ![name[s]] = port[s]]
  /\ DropClient(name[s])
  /\ \/ Goes(s, "serve", "launch") /\ late' = late \ {name[s]}
     \/ Goes(s, "serve", "failed") /\ late' = late \cup {name[s]}

\* The QEMU found at the probe is gone, its monitor does not answer in time,
\* or the port is taken by now.
ServerKept(s) ==
  /\ \/ Goes(s, "serve", "failed")
     \/ s \in found /\ Taken(port[s]) /\ Goes(s, "serve", ReplyChecked(s))
  /\ UNCHANGED <<stub, gdb, session, late>>

AttachGdbserver(s) ==
  /\ ServerReplaced(s) \/ ServerKept(s)
  /\ UNCHANGED <<mine, port, total, inst, guest, armed, found, stopped, quitSent,
                 log, given>>

LaunchGdb(s) ==
  /\ Goes(s, "launch", "wait")
  /\ gdb' = [gdb EXCEPT ![s] = "starting"]
  /\ UNCHANGED <<mine, port, total, qemuVars, session, quitSent, log, given>>

-----------------------------------------------------------------------------
(***************************************************************************)
(* gdb, monitor.py and the guest.                                          *)
(***************************************************************************)
\* `target remote': whatever listens on the port by now.  Nothing, or a
\* stub that is busy: gdb ends up at its prompt.
GdbConnects(s) ==
  /\ gdb[s] = "starting"
  /\ \/ \E n \in Names :
          /\ stub[n] = port[s] /\ \A t \in Scripts : session[t] # n
          /\ session' = [session EXCEPT ![s] = n]
          /\ gdb' = [gdb EXCEPT ![s] = "connected"]
          /\ guest' = [guest EXCEPT ![n] = "halted"]
          /\ armed' = [armed EXCEPT ![n] = FALSE]
     \/ /\ \A n \in Names : stub[n] = port[s] => \E t \in Scripts : session[t] = n
        /\ gdb' = [gdb EXCEPT ![s] = "prompt"]
        /\ UNCHANGED <<session, guest, armed>>
  /\ UNCHANGED <<scriptVars, inst, stub, found, late, stopped, quitSent, log,
                 given>>

\* monitor.py has set the breakpoint; `continue' inserts it.
GdbContinues(s) ==
  /\ gdb[s] = "connected"
  /\ gdb' = [gdb EXCEPT ![s] = "running"]
  /\ guest' = [guest EXCEPT ![session[s]] = "running"]
  /\ armed' = [armed EXCEPT ![session[s]] = TRUE]
  /\ UNCHANGED <<scriptVars, inst, stub, found, late, stopped, session, quitSent,
                 log, given>>

\* A call that finds no int3 changes nothing here.
SystemCall(n) ==
  /\ IsUp(n) /\ guest[n] = "running" /\ armed[n]
  /\ Len(log) < MaxLines
  /\ guest' = [guest EXCEPT ![n] = "hit"]
  /\ UNCHANGED <<scriptVars, inst, stub, armed, found, late, stopped, gdbVars,
                 given>>

Stopped(s) == gdb[s] = "running" /\ guest[session[s]] = "hit"

\* stop() returns False: gdb resumes the guest.  (Faulty variant: it returns
\* True, and gdb waits at its prompt.)
StaysStopped(s) == gdb' = [gdb EXCEPT ![s] = "prompt"] /\ UNCHANGED guest
AutoContinue(s) ==
  guest' = [guest EXCEPT ![session[s]] = "running"] /\ UNCHANGED gdb

\* VMI_INCLUDE_NRS or VMI_EXCLUDE_NRS filters the call.
SkipCall(s) ==
  /\ Stopped(s)
  /\ AutoContinue(s)
  /\ UNCHANGED <<scriptVars, inst, stub, armed, found, late, stopped, session,
                 quitSent, log, given>>

OwnLines(s)   == Cardinality({i \in 1..Len(log) : log[i] = s})
Enough(s)     == MaxEvents # 0 /\ OwnLines(s) + 1 >= MaxEvents

\* stop(): the line is written and counted; the MAX_EVENTS-th is the last.
LogCall(s) ==
  /\ Stopped(s)
  /\ log' = Append(log, s)
  /\ IF Enough(s)
       THEN Release(s) /\ gdb' = [gdb EXCEPT ![s] = "exited"]
       ELSE AutoContinue(s) /\ UNCHANGED <<armed, session>>
  /\ UNCHANGED <<scriptVars, inst, stub, found, late, stopped, quitSent, given>>

\* SIGINT has taken effect: the guest stands still, gdb reads its stdin.
GdbInterrupted(s) ==
  /\ gdb[s] = "interrupted"
  /\ gdb' = [gdb EXCEPT ![s] = "prompt"]
  /\ guest' = [n \in Names |-> IF n = session[s] THEN "halted" ELSE guest[n]]
  /\ UNCHANGED <<scriptVars, inst, stub, armed, found, late, stopped, session,
                 quitSent, log, given>>

\* `quit', `y': what is still attached is detached.
GdbQuits(s) ==
  /\ gdb[s] = "prompt" /\ quitSent[s]
  /\ gdb' = [gdb EXCEPT ![s] = "exited"]
  /\ Release(s)
  /\ UNCHANGED <<scriptVars, inst, stub, found, late, stopped, quitSent, log,
                 given>>

-----------------------------------------------------------------------------
(***************************************************************************)
(* main(), from the wait on; stop_gdb_capture().                           *)
(***************************************************************************)
GdbExited(s) ==
  /\ gdb[s] = "exited" /\ Goes(s, "wait", "finish")
  /\ UNCHANGED <<mine, port, total, qemuVars, gdbVars, given>>

\* The duration has elapsed: SIGINT, unless gdb exited this very moment.
DurationOver(s) ==
  /\ gdb[s] \notin {"starting", "connected"}
  /\ Goes(s, "wait", IF gdb[s] = "exited" THEN "finish" ELSE "detach")
  /\ gdb' = [gdb EXCEPT ![s] = IF @ = "running" THEN "interrupted" ELSE @]
  /\ UNCHANGED <<mine, port, total, qemuVars, session, quitSent, log, given>>

\* (Faulty variant: the connection is cut instead.)
CutOff(s) ==
  /\ session' = [session EXCEPT ![s] = NoOne]
  /\ UNCHANGED <<armed, guest>>

Detach(s) == Release(s)

\* Before gdb is back at its prompt "detach" is an error and is lost.
SendDetach(s) ==
  /\ Goes(s, "detach", "quit")
  /\ IF gdb[s] = "prompt" THEN Detach(s) ELSE UNCHANGED <<armed, guest, session>>
  /\ UNCHANGED <<mine, port, total, inst, stub, found, late, stopped, gdb,
                 quitSent, log, given>>

SendQuit(s) ==
  /\ Goes(s, "quit", "reap")
  /\ quitSent' = [quitSent EXCEPT ![s] = TRUE]
  /\ UNCHANGED <<mine, port, total, qemuVars, gdb, session, log, given>>

\* proc.wait() has returned.  (Faulty variant: not waited for.)
NotAwaited(s) == TRUE
Awaited(s)    == gdb[s] = "exited"

Reap(s) ==
  /\ Awaited(s) /\ Goes(s, "reap", "finish")
  /\ UNCHANGED <<mine, port, total, qemuVars, gdbVars, given>>

\* (Faulty variant: no timeout on the wait.)
WaitsForever(s) == FALSE
TimesOut(s)     == s \in hangs /\ gdb[s] # "exited"

\* terminate(): the connection breaks; or gdb does not die in time either,
\* and the second wait raises: gdb stays where it is.
Terminate(s) ==
  /\ TimesOut(s)
  /\ \/ /\ Goes(s, "reap", "finish")
        /\ gdb' = [gdb EXCEPT ![s] = "exited"]
        /\ session' = [session EXCEPT ![s] = NoOne]
     \/ Goes(s, "reap", "failed") /\ UNCHANGED <<gdb, session>>
  /\ UNCHANGED <<mine, port, total, qemuVars, quitSent, log, given>>

\* stop_and_remove(), if we_started_it: whatever has the name by now.
StopOrLeave(s) ==
  /\ Goes(s, "finish", "count")
  /\ IF mine[s] THEN Stop(name[s]) ELSE UNCHANGED <<qemuVars, gdb, session>>
  /\ UNCHANGED <<mine, port, total, quitSent, log, given>>

CountEvents(s) ==
  /\ Goes(s, "count", "done")
  /\ total' = [total EXCEPT ![s] = Len(log)]
  /\ UNCHANGED <<mine, port, qemuVars, gdbVars, given>>

-----------------------------------------------------------------------------
(***************************************************************************)
(* Users, at any time, a script's instance included.                       *)
(***************************************************************************)
UserStarts(n) ==
  /\ ~IsUp(n)
  /\ inst' = [inst EXCEPT ![n] = User]
  /\ UNCHANGED <<scriptVars, stub, guest, armed, found, late, stopped, gdbVars,
                 given>>

UserStops(n) ==
  /\ IsUp(n)
  /\ Stop(n)
  /\ UNCHANGED <<scriptVars, quitSent, log, given>>

-----------------------------------------------------------------------------
Main(s) ==
  \/ CheckRunning(s) \/ StartInstance(s) \/ FindPort(s) \/ AttachGdbserver(s)
  \/ LaunchGdb(s) \/ GdbExited(s) \/ SendDetach(s) \/ SendQuit(s) \/ Reap(s)
  \/ Terminate(s) \/ StopOrLeave(s) \/ CountEvents(s)

Gdb(s) ==
  \/ GdbConnects(s) \/ GdbContinues(s) \/ SkipCall(s) \/ LogCall(s)
  \/ GdbQuits(s)

Next ==
  \/ \E s \in Scripts : \/ Main(s) \/ Gdb(s)
                        \/ GdbInterrupted(s) \/ DurationOver(s)
  \/ \E n \in Names : SystemCall(n)
  \/ \E n \in UserNames : UserStarts(n) \/ UserStops(n)

Spec == Init /\ [][Next]_vars

\* Scripts and gdb processes run, and a gdb that does not hang minds its
\* SIGINT.  Nothing is assumed of the durations.
Fairness == \A s \in Scripts :
  /\ WF_vars(Main(s)) /\ WF_vars(Gdb(s))
  /\ WF_vars(s \notin hangs /\ GdbInterrupted(s))

FairSpec == Spec /\ Fairness

-----------------------------------------------------------------------------
OnlyRun(s) == \A t \in Scripts : name[t] = name[s] => t = s

\* The captured guest is the one named: a port probed free and lost to
\* another run's QEMU (find_free_port()) never puts gdb on that guest.  (Not
\* promised of two runs on one instance: the second replaces the stub of the
\* first, whose port a third may then have opened on another guest; nor once
\* the instance is stopped under the run.)
GdbOnOwnGuest ==
  \A s \in Scripts :
    OnlyRun(s) /\ s \in found => session[s] \in {NoOne, name[s]}

\* A script that is to stop what it has started does stop that, unless
\* somebody has stopped it before: another's instance, started under the same
\* name at any time from the look at `kraft ps' on, is not taken for it
\* (run_capture.py:10-12).  The stop is by name: an instance that has taken
\* the place of the script's is removed, against the same lines.
OwnInstanceOnly ==
  [][\A s \in Scripts :
       StopOrLeave(s) /\ mine[s] /\ s \notin stopped => inst[name[s]] = s]_vars

\* When all runs on an instance are over, those whose gdb is there by mistake
\* included, and it is left running, it really runs, and without the int3,
\* which no one would answer any more.  (Not promised of a gdb that had to be
\* terminated, nor where the last `gdbserver' has taken the stub from a gdb
\* and then raised.)
GuestReleased ==
  hangs = {} =>
    \A n \in Names \ late :
      (\A s \in Scripts : name[s] = n \/ session[s] = n => pc[s] \in Ended) =>
        guest[n] = "running" /\ ~armed[n]

\* The guest is frozen by no capture (monitor.py:31-35): it always gets to
\* run again, also while the capture goes on, and whoever takes the stub from
\* its gdb; only a `gdbserver' that has done so and raised leaves it there.
GuestGoesOn ==
  \A n \in Names :
    (hangs = {} /\ guest[n] # "running") ~> (guest[n] = "running" \/ n \in late)

\* A run is stuck nowhere but in its capture; from the end of the duration it
\* gets to its own end even if gdb never answers.
ScriptEnds ==
  \A s \in Scripts : (pc[s] # "wait") ~> (pc[s] \in Ended \cup {"wait"})

\* "starts it ... and stops+removes it again at the end" (run_capture.py:8-10).
NoInstanceLeft ==
  \A s \in Scripts : pc[s] \in Ended => inst[name[s]] # s

\* "captured {n_events} events" (run_capture.py:111).
CountsOwnRun ==
  \A s \in Scripts : pc[s] = "done" => total[s] = OwnLines(s)
=============================================================================
