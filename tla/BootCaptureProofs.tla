--------------------------- MODULE BootCaptureProofs ---------------------------
(***************************************************************************)
(* Proofs about BootCapture.tla, for any --max-events.                     *)
(***************************************************************************)
EXTENDS BootCapture, SequenceTheorems, TLAPS

(***************************************************************************)
(* The inductive invariants.  The type invariant needs to know that gdb is *)
(* gone with its last event, and that it is only ever on a guest that is   *)
(* there.                                                                  *)
(***************************************************************************)
LastEvent == MaxEvents # 0 /\ events = MaxEvents => gdb = "exited"

OnAlive ==
  /\ pc = "preload" => gdb = "none"
  /\ gdb \in {"none", "loading", "exited"} => session = NoOne
  /\ session # NoOne => Alive(session)

TypeInv == BootCaptureTypeOK /\ LastEvent /\ OnAlive

\* gdb reads its commands in order, and monitor.py is the first of them.
SourceFirst ==
  pc # "preload" /\ ~bp => stdin # << >> /\ stdin[1] = "source"

\* What QEMU's monitor says in answer to one command is, at any time, what
\* the script has got, what is on its way and what is still to be written.
Told(said) ==
  /\ Len(buf) + Len(wire) + Len(monitor) = Len(said)
  /\ \A i \in 1..Len(buf) : buf[i] = said[i]
  /\ \A i \in 1..Len(wire) : wire[i] = said[Len(buf) + i]
  /\ \A i \in 1..Len(monitor) : monitor[i] = said[Len(buf) + Len(wire) + i]

Greeting == <<"banner", "prompt">>
Answer   == <<"echo", "reply", "prompt">>

Unconnected == {"preload", "snapshot", "kraft", "rundir", "monsock", "connect"}

Dialogue ==
  /\ pc \in Unconnected => buf = << >> /\ wire = << >> /\ monitor = << >>
  /\ pc = "banner" => Told(Greeting)
  /\ pc \in {"port", "command"} => wire = << >> /\ monitor = << >>
  /\ pc = "reply" => Told(Answer) /\ (Len(monitor) <= 1 => listener # NoOne)
  /\ pc = "attach" => listener # NoOne

Commands == {stdin[k] : k \in 1..Len(stdin)}

ReadyInv ==
  /\ TypeInv /\ SourceFirst /\ Dialogue
  /\ "target" \in Commands => listener # NoOne
  /\ session # NoOne => bp

\* Where the script looks for a new directory, and where it has found one.
Looking == {"kraft", "rundir"}
Found == {"monsock", "connect", "banner", "port", "command", "reply", "attach",
          "cliwait", "capture", "detach", "quit", "reap", "remove", "done"}

\* Beside a namesake that is up, no directory of this run's appears.
Spared ==
  /\ intruded => run["other"] # "off"
  /\ Alive("namesake") =>
       /\ "own" \notin dirs
       /\ pc \in Looking =>
            dirs \subseteq before \cup IF intruded THEN {"other"} ELSE {}
       /\ pc \in Found => intruded

SparedInv == TypeInv /\ Spared

-----------------------------------------------------------------------------
(***************************************************************************)
(* Types.                                                                  *)
(***************************************************************************)
Pcs  == {"preload", "snapshot", "kraft", "port", "command", "attach",
         "capture", "detach", "quit", "reap", "remove"} \cup Waits \cup Ended
Gdbs == {"none", "loading", "prompt", "running", "interrupted", "exited"}
Runs == {"off", "prelaunch", "running", "debug", "gone"}
Somebody == Instances \cup {NoOne}

LEMMA InitType ==
  ASSUME Init
  PROVE  TypeInv
<1>1. run \in [Instances -> Runs] /\ dirs \subseteq Dirs /\ booted \subseteq Instances
  BY DEF Init, Instances, Dirs, Runs
<1>2. LastEvent /\ OnAlive
  BY DEF Init, LastEvent, OnAlive
<1>3. {buf, wire, monitor} \subseteq Seq(Pieces) /\ stdin \in Seq(Lines)
  BY DEF Init
<1>4. events \in 0..MaxEvents
  BY BootCaptureAssumption DEF Init
<1>5. BootCaptureTypeOK
  BY <1>1, <1>3, <1>4 DEF Init, BootCaptureTypeOK, Runs
<1> QED
  BY <1>2, <1>5 DEF TypeInv

LEMMA NextType ==
  ASSUME TypeInv, [Next]_vars
  PROVE  TypeInv'
<1> DEFINE ScriptTypes == /\ pc \in Pcs /\ before \subseteq Dirs
                          /\ target \in Dirs \cup {NoOne}
           TalkTypes   == /\ buf \in Seq(Pieces) /\ wire \in Seq(Pieces)
                          /\ monitor \in Seq(Pieces) /\ listener \in Somebody
           HostTypes   == /\ cli \in {"none", "building", "dir", "launched", "done"}
                          /\ dirs \subseteq Dirs /\ run \in [Instances -> Runs]
                          /\ booted \subseteq Instances /\ armed \subseteq Instances
                          /\ intruded \in BOOLEAN
           GdbTypes    == /\ gdb \in Gdbs /\ stdin \in Seq(Lines)
                          /\ bp \in BOOLEAN /\ session \in Somebody
           Counted     == events \in 0..MaxEvents /\ LastEvent
           Gone        == pc \in {"remove", "done"} => gdb = "exited"
           Typing      == /\ ScriptTypes /\ TalkTypes /\ HostTypes /\ GdbTypes
                          /\ Counted /\ Gone /\ OnAlive
<1>a. Typing
  BY DEF TypeInv, BootCaptureTypeOK, Pcs, Gdbs, Runs, Somebody
<1>z. SUFFICES Typing'
  BY DEF TypeInv, BootCaptureTypeOK, Pcs, Gdbs, Runs, Somebody
<1> USE BootCaptureAssumption
    DEF script, dialog, hostVars, gdbVars, LastEvent, OnAlive, Script, Goes
<1>1. CASE UNCHANGED vars
  BY <1>a, <1>1 DEF vars, Alive
<1>2. CASE Main
  <2> USE DEF Pcs, Waits, Hmp, Ended
  <2>1. CASE LaunchGdbPreloaded
    BY <1>a, <2>1 DEF LaunchGdbPreloaded, Gdbs, Lines, Alive
  <2>2. CASE TakeSnapshot
    BY <1>a, <2>2 DEF TakeSnapshot, Alive
  <2>3. CASE KraftRun
    BY <1>a, <2>3 DEF KraftRun, Alive
  <2>4. CASE WaitForNewRuntimeDir
    BY <1>a, <2>4 DEF WaitForNewRuntimeDir, NewDirs, Alive
  <2>5. CASE WaitForMonSock
    BY <1>a, <2>5 DEF WaitForMonSock, Alive
  <2>6. CASE ConnectHmp
    BY <1>a, <2>6 DEF ConnectHmp, Pieces, Alive
  <2>7. CASE Recv
    BY <1>a, <2>7 DEF Recv, Alive
  <2>8. CASE FindFreePort
    BY <1>a, <2>8 DEF FindFreePort, Alive
  <2>9. CASE HmpCommand
    BY <1>a, <2>9 DEF HmpCommand, Pieces, Alive
  <2>10. CASE AttachPreloadedGdb
    BY <1>a, <2>10 DEF AttachPreloadedGdb, TargetRemote, Lines, Alive
  <2>11. CASE WaitForKraft
    BY <1>a, <2>11 DEF WaitForKraft, Alive
  <2>12. CASE TimesOut
    BY <1>a, <2>12 DEF TimesOut, Lines, Alive
  <2>13. CASE GdbExited
    BY <1>a, <2>13 DEF GdbExited, Alive
  <2>14. CASE SendDetach
    BY <1>a, <2>14 DEF SendDetach, Lines, Alive
  <2>15. CASE SendQuit
    BY <1>a, <2>15 DEF SendQuit, Lines, Alive
  <2>16. CASE Reap
    BY <1>a, <2>16 DEF Reap, Awaited, Alive
  <2>17. CASE StopAndRemove
    BY <1>a, <2>17 DEF StopAndRemove, HasName, Runs, Alive
  <2> QED
    BY <1>2, <2>1, <2>2, <2>3, <2>4, <2>5, <2>6, <2>7, <2>8, <2>9, <2>10,
       <2>11, <2>12, <2>13, <2>14, <2>15, <2>16, <2>17 DEF Main
<1>3. CASE Kraft \/ OtherStarts \/ OtherResumes \/ PortLost \/ MonitorWrites
           \/ \E i \in Instances : Boots(i)
  <2>1. CASE KraftMakesDir
    BY <1>a, <2>1 DEF KraftMakesDir, Dirs, Instances, Alive
  <2>2. CASE KraftFails
    BY <1>a, <2>2 DEF KraftFails, Alive
  <2>3. CASE KraftLaunches
    BY <1>a, <2>3 DEF KraftLaunches, Runs, Alive
  <2>4. CASE KraftResumes
    BY <1>a, <2>4 DEF KraftResumes, Started, Runs, Alive
  <2>5. CASE OtherStarts
    BY <1>a, <2>5 DEF OtherStarts, Runs, Dirs, Instances, Alive
  <2>6. CASE OtherResumes
    BY <1>a, <2>6 DEF OtherResumes, Runs, Alive
  <2>7. CASE PortLost
    BY <1>a, <2>7 DEF PortLost, Somebody, Instances, Alive
  <2>8. CASE MonitorWrites
    BY <1>a, <2>8 DEF MonitorWrites, Somebody, Alive
  <2>9. ASSUME NEW i \in Instances, Boots(i)
        PROVE  Typing'
    BY <1>a, <2>9 DEF Boots, Alive
  <2> QED
    BY <1>3, <2>1, <2>2, <2>3, <2>4, <2>5, <2>6, <2>7, <2>8, <2>9 DEF Kraft
<1>4. CASE Gdb \/ LosesDetach \/ LogCall \/ DurationOver
  <2> USE DEF Reads, Gdbs
  <2>1. CASE GdbLoaded
    BY <1>a, <2>1 DEF GdbLoaded, Alive
  <2>2. CASE ReadSource
    BY <1>a, <2>2 DEF ReadSource, Alive
  <2>3. CASE ReadTarget
    <3>1. CASE UNCHANGED <<session, run>>
      BY <1>a, <2>3, <3>1 DEF ReadTarget, Alive
    <3>2. CASE /\ Alive(listener) /\ session' = listener
               /\ run' = [run EXCEPT ![listener] = "debug"]
      <4>1. Alive(session)'
        BY <1>a, <3>2 DEF Alive
      <4> QED
        BY <1>a, <2>3, <3>2, <4>1 DEF ReadTarget, Somebody, Runs, Alive
    <3> QED
      BY <2>3, <3>1, <3>2 DEF ReadTarget
  <2>4. CASE ReadContinue
    BY <1>a, <2>4 DEF ReadContinue, Started, Somebody, Runs, Alive
  <2>5. CASE ReadDetach
    BY <1>a, <2>5 DEF ReadDetach, Release, Somebody, Runs, Alive
  <2>6. CASE ReadQuit
    <3>1. stdin' = Tail(stdin) /\ stdin # << >> /\ Release
      BY <2>6 DEF ReadQuit
    <3>2. HostTypes' /\ GdbTypes'
      BY <1>a, <2>6, <3>1 DEF ReadQuit, Release, Somebody, Runs
    <3> QED
      BY <1>a, <2>6, <3>1, <3>2 DEF ReadQuit, Release
  <2>7. CASE GdbInterrupted
    BY <1>a, <2>7 DEF GdbInterrupted, Somebody, Runs, Alive
  <2>8. CASE LosesDetach
    BY <1>a, <2>8 DEF LosesDetach, Alive
  <2>9. CASE LogCall
    BY <1>a, <2>9 DEF LogCall, Release, Somebody, Runs, Alive
  <2>10. CASE DurationOver
    BY <1>a, <2>10 DEF DurationOver, Pcs, Alive
  <2> QED
    BY <1>4, <2>1, <2>2, <2>3, <2>4, <2>5, <2>6, <2>7, <2>8, <2>9, <2>10
       DEF Gdb
<1> QED
  BY <1>1, <1>2, <1>3, <1>4 DEF Next

LEMMA AlwaysTyped == Spec => []TypeInv
BY InitType, NextType, PTL DEF Spec

\* The variables keep their types, --max-events is not exceeded, and the
\* instance is only removed with gdb gone (main(); stop_gdb_capture()).
THEOREM BootCaptureTypeCorrect == Spec => []BootCaptureTypeOK
<1>1. TypeInv => BootCaptureTypeOK
  BY DEF TypeInv
<1> QED
  BY <1>1, AlwaysTyped, PTL

-----------------------------------------------------------------------------
(***************************************************************************)
(* The dialogue with QEMU's monitor, and the commands for gdb.             *)
(***************************************************************************)
LEMMA Typed ==
  ASSUME TypeInv
  PROVE  /\ buf \in Seq(Pieces) /\ wire \in Seq(Pieces) /\ monitor \in Seq(Pieces)
         /\ stdin \in Seq(Lines) /\ pc \in Pcs /\ gdb \in Gdbs
         /\ listener \in Somebody /\ session \in Somebody
         /\ run \in [Instances -> Runs] /\ bp \in BOOLEAN
BY DEF TypeInv, BootCaptureTypeOK, Pcs, Gdbs, Runs, Somebody

LEMMA InitReady ==
  ASSUME Init
  PROVE  ReadyInv
<1>1. SourceFirst /\ Dialogue /\ Commands = {} /\ session = NoOne
  BY DEF Init, SourceFirst, Dialogue, Commands
<1> QED
  BY <1>1, InitType DEF ReadyInv

\* A portion received moves pieces from the wire to the buffer.
LEMMA RecvTold ==
  ASSUME TypeInv, NEW said \in Seq(Pieces), Told(said), NEW n \in 1..Len(wire),
         buf' = buf \o SubSeq(wire, 1, n),
         wire' = SubSeq(wire, n + 1, Len(wire)), UNCHANGED monitor
  PROVE  Told(said)'
<1>1. buf \in Seq(Pieces) /\ wire \in Seq(Pieces) /\ monitor \in Seq(Pieces)
  BY Typed
<1>2. /\ Len(buf') = Len(buf) + n
      /\ \A i \in 1..Len(buf') :
           buf'[i] = IF i <= Len(buf) THEN buf[i] ELSE wire[i - Len(buf)]
  BY <1>1
<1>3. /\ Len(wire') = Len(wire) - n
      /\ \A i \in 1..Len(wire') : wire'[i] = wire[n + i]
  BY <1>1
<1>t. /\ Len(buf) \in Nat /\ Len(wire) \in Nat /\ Len(monitor) \in Nat
      /\ Len(buf) + Len(wire) + Len(monitor) = Len(said) /\ Len(said) \in Nat
      /\ \A i \in 1..Len(buf) : buf[i] = said[i]
      /\ \A i \in 1..Len(wire) : wire[i] = said[Len(buf) + i]
      /\ \A i \in 1..Len(monitor) : monitor[i] = said[Len(buf) + Len(wire) + i]
  BY <1>1 DEF Told
<1>4. ASSUME NEW i \in 1..Len(buf')
      PROVE  buf'[i] = said[i]
  <2>1. CASE i <= Len(buf)
    BY <1>2, <1>t, <2>1
  <2>2. CASE i > Len(buf)
    <3>1. i - Len(buf) \in 1..Len(wire) /\ Len(buf) + (i - Len(buf)) = i
      BY <1>2, <1>t, <2>2
    <3>2. wire[i - Len(buf)] = said[i]
      BY <1>t, <3>1
    <3> QED
      BY <1>2, <2>2, <3>2
  <2> QED
    BY <1>t, <2>1, <2>2
<1>5. ASSUME NEW i \in 1..Len(wire')
      PROVE  wire'[i] = said[Len(buf') + i]
  <2>1. n + i \in 1..Len(wire) /\ Len(buf) + (n + i) = Len(buf') + i
    BY <1>2, <1>3, <1>t
  <2> QED
    BY <1>3, <1>t, <2>1
<1>6. Len(buf') + Len(wire') = Len(buf) + Len(wire)
  <2> DEFINE b  == Len(buf)
             w  == Len(wire)
             b2 == Len(buf')
             w2 == Len(wire')
  <2>1. b \in Nat /\ w \in Nat /\ n \in Nat /\ b2 = b + n /\ w2 = w - n
    BY <1>2, <1>3, <1>t
  <2> HIDE DEF b, w, b2, w2
  <2>2. b2 + w2 = b + w
    BY <2>1
  <2> QED
    BY <2>2 DEF b, w, b2, w2
<1>7. \A i \in 1..Len(monitor) : monitor[i] = said[Len(buf') + Len(wire') + i]
  BY <1>6, <1>t
<1> QED
  BY <1>4, <1>5, <1>6, <1>7, <1>t DEF Told

\* A piece written moves from the monitor to the wire.
LEMMA WriteTold ==
  ASSUME TypeInv, NEW said \in Seq(Pieces), Told(said), monitor # << >>,
         wire' = Append(wire, Head(monitor)), monitor' = Tail(monitor),
         UNCHANGED buf
  PROVE  /\ Told(said)'
         /\ Len(monitor) = Len(monitor') + 1
         /\ Head(monitor) = said[Len(said) - Len(monitor')]
<1>1. buf \in Seq(Pieces) /\ wire \in Seq(Pieces) /\ monitor \in Seq(Pieces)
  BY Typed
<1>2. /\ Len(monitor) = Len(monitor') + 1 /\ Head(monitor) = monitor[1]
      /\ \A i \in 1..Len(monitor') : monitor'[i] = monitor[i + 1]
  BY <1>1
<1>3. /\ Len(wire') = Len(wire) + 1
      /\ \A i \in 1..Len(wire) : wire'[i] = wire[i]
      /\ wire'[Len(wire) + 1] = monitor[1]
  BY <1>1, <1>2
<1>t. /\ Len(buf) \in Nat /\ Len(wire) \in Nat /\ Len(monitor') \in Nat
      /\ Len(buf) + Len(wire) + Len(monitor) = Len(said) /\ Len(said) \in Nat
      /\ \A i \in 1..Len(buf) : buf[i] = said[i]
      /\ \A i \in 1..Len(wire) : wire[i] = said[Len(buf) + i]
      /\ \A i \in 1..Len(monitor) : monitor[i] = said[Len(buf) + Len(wire) + i]
  BY <1>1, <1>2 DEF Told
<1>4. monitor[1] = said[Len(buf) + Len(wire) + 1]
  BY <1>2, <1>t
<1>5. ASSUME NEW i \in 1..Len(wire')
      PROVE  wire'[i] = said[Len(buf) + i]
  <2>1. CASE i \in 1..Len(wire)
    BY <1>3, <1>t, <2>1
  <2>2. CASE i = Len(wire) + 1
    BY <1>3, <1>4, <1>t, <2>2
  <2> QED
    BY <1>3, <1>t, <2>1, <2>2
<1>6. ASSUME NEW i \in 1..Len(monitor')
      PROVE  monitor'[i] = said[Len(buf) + Len(wire') + i]
  <2>1. i + 1 \in 1..Len(monitor)
        /\ Len(buf) + Len(wire) + (i + 1) = Len(buf) + Len(wire') + i
    BY <1>2, <1>3, <1>t
  <2> QED
    BY <1>2, <1>t, <2>1
<1>7. Len(said) - Len(monitor') = Len(buf) + Len(wire) + 1
  <2> DEFINE b  == Len(buf)
             w  == Len(wire)
             m  == Len(monitor)
             m2 == Len(monitor')
             k  == Len(said)
  <2>1. /\ b \in Nat /\ w \in Nat /\ m2 \in Nat /\ m = m2 + 1
        /\ b + w + m = k
    BY <1>2, <1>t
  <2> HIDE DEF b, w, m, m2, k
  <2>2. k - m2 = b + w + 1
    BY <2>1
  <2> QED
    BY <2>2 DEF b, w, m2, k
<1>8. Len(buf) + Len(wire') + Len(monitor') = Len(said)
  BY <1>2, <1>3, <1>t
<1> QED
  BY <1>2, <1>3, <1>4, <1>5, <1>6, <1>7, <1>8, <1>t DEF Told

\* Only the end of what QEMU says looks like the end.
LEMMA ReadToTheEnd ==
  ASSUME TypeInv, NEW said \in {Greeting, Answer}, Told(said), Len(buf) > 0,
         EndsWithPrompt(buf)
  PROVE  wire = << >> /\ monitor = << >>
<1>1. buf \in Seq(Pieces) /\ wire \in Seq(Pieces) /\ monitor \in Seq(Pieces)
  BY Typed
<1>2. /\ Len(buf) \in Nat \ {0} /\ Len(wire) \in Nat /\ Len(monitor) \in Nat
      /\ Len(buf) + Len(wire) + Len(monitor) = Len(said)
      /\ said[Len(buf)] = "prompt"
  BY <1>1 DEF Told, EndsWithPrompt
<1> DEFINE b == Len(buf)
           w == Len(wire)
           m == Len(monitor)
           k == Len(said)
<1>3. /\ b \in Nat \ {0} /\ w \in Nat /\ m \in Nat /\ b + w + m = k
      /\ said[b] = "prompt"
  BY <1>2
<1>4. \/ k = 2 /\ said[1] # "prompt"
      \/ k = 3 /\ said[1] # "prompt" /\ said[2] # "prompt"
  <2>1. CASE said = Greeting
    BY <2>1 DEF Greeting
  <2>2. CASE said = Answer
    BY <2>2 DEF Answer
  <2> QED
    BY <2>1, <2>2
<1> HIDE DEF b, w, m, k
<1>5. b = k
  BY <1>3, <1>4
<1>6. w = 0 /\ m = 0
  BY <1>3, <1>5
<1>7. Len(wire) = 0 /\ Len(monitor) = 0
  BY <1>6 DEF w, m
<1> QED
  BY <1>1, <1>7

\* All that happens to gdb's stdin.
LEMMA StdinSteps ==
  ASSUME [Next]_vars
  PROVE  \/ /\ UNCHANGED <<stdin, bp>>
            /\ pc' = "preload" => pc = "preload"
            /\ pc = "preload" => pc' = "preload"
         \/ /\ pc = "preload" /\ pc' = "snapshot" /\ stdin' = <<"source">>
            /\ UNCHANGED bp
         \/ /\ stdin # << >> /\ stdin' = Tail(stdin) /\ UNCHANGED pc
            /\ Head(stdin) = "source" => bp'
            /\ bp => bp'
         \/ /\ \E line \in {"detach", "quit", "eof"} :
                 stdin' = Append(stdin, line)
            /\ pc # "preload" /\ pc' # "preload" /\ UNCHANGED bp
         \/ AttachPreloadedGdb
<1> USE DEF script, dialog, hostVars, gdbVars, Script, Goes
<1>1. CASE UNCHANGED vars
  BY <1>1 DEF vars
<1>2. CASE LaunchGdbPreloaded
  BY <1>2 DEF LaunchGdbPreloaded
<1>3. CASE \/ TakeSnapshot \/ KraftRun \/ WaitForNewRuntimeDir \/ WaitForMonSock
           \/ ConnectHmp \/ FindFreePort \/ HmpCommand \/ WaitForKraft
           \/ GdbExited \/ Reap \/ StopAndRemove \/ DurationOver
  BY <1>3 DEF TakeSnapshot, KraftRun, WaitForNewRuntimeDir, WaitForMonSock,
              ConnectHmp, FindFreePort, HmpCommand, WaitForKraft, GdbExited,
              Reap, StopAndRemove, DurationOver
<1>4. CASE Recv
  BY <1>4 DEF Recv, Hmp
<1>5. CASE TimesOut \/ SendDetach \/ SendQuit
  BY <1>5 DEF TimesOut, SendDetach, SendQuit, Waits, Hmp
<1>6. CASE \/ Kraft \/ OtherStarts \/ OtherResumes \/ PortLost \/ MonitorWrites
           \/ (\E i \in Instances : Boots(i))
  BY <1>6 DEF Kraft, KraftMakesDir, KraftFails, KraftLaunches, KraftResumes,
              OtherStarts, OtherResumes, PortLost, MonitorWrites, Boots
<1>7. CASE GdbLoaded \/ GdbInterrupted \/ LogCall
  BY <1>7 DEF GdbLoaded, GdbInterrupted, LogCall
<1>8. CASE \/ ReadSource \/ ReadTarget \/ ReadContinue \/ ReadDetach \/ ReadQuit
           \/ LosesDetach
  BY <1>8 DEF ReadSource, ReadTarget, ReadContinue, ReadDetach, ReadQuit,
              LosesDetach, Reads
<1> QED
  BY <1>1, <1>2, <1>3, <1>4, <1>5, <1>6, <1>7, <1>8 DEF Next, Main, Gdb

LEMMA NextSourceFirst ==
  ASSUME ReadyInv, [Next]_vars
  PROVE  SourceFirst'
<1>a. stdin \in Seq(Lines) /\ bp \in BOOLEAN /\ SourceFirst
  BY Typed DEF ReadyInv
<1> USE DEF SourceFirst
<1>1. CASE AttachPreloadedGdb
  <2>1. /\ stdin' = stdin \o <<"target", "continue">>
        /\ pc # "preload" /\ UNCHANGED bp
    BY <1>1 DEF AttachPreloadedGdb, TargetRemote, Script, Goes
  <2> QED
    BY <1>a, <2>1
<1>2. ASSUME stdin # << >>, stdin' = Tail(stdin), UNCHANGED pc,
             Head(stdin) = "source" => bp', bp => bp'
      PROVE  SourceFirst'
  BY <1>a, <1>2
<1>3. ASSUME NEW line \in {"detach", "quit", "eof"}, pc # "preload",
             stdin' = Append(stdin, line), UNCHANGED bp
      PROVE  SourceFirst'
  <2>1. CASE bp
    BY <1>3, <2>1
  <2>2. CASE ~bp
    <3>1. stdin # << >> /\ stdin[1] = "source" /\ Len(stdin) \in Nat \ {0}
      BY <1>a, <1>3, <2>2
    <3>2. line \in Lines
      BY <1>3 DEF Lines
    <3>3. stdin' # << >> /\ stdin'[1] = stdin[1]
      BY <1>a, <1>3, <3>1, <3>2
    <3> QED
      BY <3>1, <3>3
  <2> QED
    BY <2>1, <2>2
<1>4. ASSUME pc' # "preload" => pc # "preload", UNCHANGED <<stdin, bp>>
      PROVE  SourceFirst'
  BY <1>a, <1>4
<1>5. ASSUME stdin' = <<"source">>
      PROVE  SourceFirst'
  BY <1>5
<1> QED
  BY <1>1, <1>2, <1>3, <1>4, <1>5, StdinSteps

\* The script tells gdb to attach when QEMU has answered, and a listener
\* stays.
LEMMA ListenerStays ==
  ASSUME TypeInv, [Next]_vars, listener # NoOne
  PROVE  listener' # NoOne
<1>1. listener \in Instances
  BY Typed DEF Somebody
<1>2. UNCHANGED listener \/ PortLost \/ MonitorWrites
  BY DEF Next, vars, Main, LaunchGdbPreloaded, TakeSnapshot, KraftRun,
     WaitForNewRuntimeDir, WaitForMonSock, ConnectHmp, Recv, FindFreePort,
     HmpCommand, AttachPreloadedGdb, WaitForKraft, TimesOut, GdbExited,
     SendDetach, SendQuit, Reap, StopAndRemove, DurationOver, Kraft,
     KraftMakesDir, KraftFails, KraftLaunches, KraftResumes, Gdb, GdbLoaded,
     ReadSource, ReadTarget, ReadContinue, ReadDetach, ReadQuit,
     GdbInterrupted, LosesDetach, LogCall, OtherStarts, OtherResumes, Boots
<1> QED
  BY <1>1, <1>2 DEF PortLost, MonitorWrites

LEMMA NextCommands ==
  ASSUME ReadyInv, [Next]_vars, "target" \in Commands'
  PROVE  listener' # NoOne
<1>a. stdin \in Seq(Lines) /\ TypeInv
  BY Typed DEF ReadyInv
<1>b. "target" \in Commands => listener # NoOne
  BY DEF ReadyInv
<1>1. CASE AttachPreloadedGdb
  BY <1>1, <1>a, ListenerStays
     DEF AttachPreloadedGdb, Script, Goes, ReadyInv, Dialogue
<1>2. CASE stdin # << >> /\ stdin' = Tail(stdin)
  <2>1. Commands' \subseteq Commands
    BY <1>a, <1>2 DEF Commands
  <2> QED
    BY <1>a, <1>b, <2>1, ListenerStays
<1>3. ASSUME NEW line \in {"detach", "quit", "eof"}, stdin' = Append(stdin, line)
      PROVE  "target" \in Commands
  <2>1. line \in Lines
    BY <1>3 DEF Lines
  <2>2. \A k \in 1..Len(stdin') : stdin'[k] = line \/ stdin'[k] \in Commands
    BY <1>a, <1>3, <2>1 DEF Commands
  <2>3. PICK k \in 1..Len(stdin') : stdin'[k] = "target"
    BY DEF Commands
  <2> QED
    BY <1>3, <2>2, <2>3
<1>4. CASE UNCHANGED stdin
  BY <1>a, <1>b, <1>4, ListenerStays DEF Commands
<1>5. stdin' # <<"source">>
  BY DEF Commands
<1> QED
  BY <1>1, <1>2, <1>3, <1>4, <1>5, <1>a, <1>b, StdinSteps, ListenerStays

LEMMA NextOnlyWithMonitorPy ==
  ASSUME ReadyInv, [Next]_vars
  PROVE  session' # NoOne => bp'
<1>a. TypeInv /\ SourceFirst /\ (session # NoOne => bp)
  BY DEF ReadyInv
<1>1. CASE ReadTarget
  <2>1. pc # "preload" /\ stdin[1] # "source" /\ UNCHANGED bp
    BY <1>a, <1>1, Typed DEF ReadTarget, Reads, OnAlive, TypeInv
  <2> QED
    BY <1>a, <2>1 DEF SourceFirst
<1>2. CASE ReadSource
  BY <1>2 DEF ReadSource
<1>3. CASE ~ReadTarget /\ ~ReadSource
  <2>1. session' \in {session, NoOne} /\ UNCHANGED bp
    BY <1>3 DEF Next, vars, Main, LaunchGdbPreloaded, TakeSnapshot, KraftRun,
     WaitForNewRuntimeDir, WaitForMonSock, ConnectHmp, Recv, FindFreePort,
     HmpCommand, AttachPreloadedGdb, WaitForKraft, TimesOut, GdbExited,
     SendDetach, SendQuit, Reap, StopAndRemove, DurationOver, Kraft,
     KraftMakesDir, KraftFails, KraftLaunches, KraftResumes, Gdb, GdbLoaded,
     ReadContinue, ReadDetach, ReadQuit, Release, GdbInterrupted, LosesDetach,
     LogCall, OtherStarts, OtherResumes, PortLost, MonitorWrites, Boots,
     script, dialog, hostVars, gdbVars, Script
  <2> QED
    BY <1>a, <2>1
<1> QED
  BY <1>1, <1>2, <1>3

LEMMA WholeReply ==
  ASSUME TypeInv, Told(Greeting) \/ Told(Answer), Len(buf) > 0,
         EndsWithPrompt(buf)
  PROVE  wire = << >> /\ monitor = << >>
BY ReadToTheEnd

LEMMA WholeReplyNext ==
  TypeInv' /\ (Told(Greeting) \/ Told(Answer))' /\ (Len(buf) > 0)'
  /\ EndsWithPrompt(buf)' => (wire = << >> /\ monitor = << >>)'
<1>1. TypeInv /\ (Told(Greeting) \/ Told(Answer)) /\ Len(buf) > 0
      /\ EndsWithPrompt(buf) => wire = << >> /\ monitor = << >>
  BY WholeReply
<1> QED
  BY <1>1, PTL

LEMMA NextDialogue ==
  ASSUME ReadyInv, [Next]_vars
  PROVE  Dialogue'
<1>a. TypeInv /\ Dialogue
  BY DEF ReadyInv
<1>b. /\ buf \in Seq(Pieces) /\ wire \in Seq(Pieces) /\ monitor \in Seq(Pieces)
      /\ Greeting \in Seq(Pieces) /\ Answer \in Seq(Pieces)
  BY <1>a, Typed DEF Greeting, Answer, Pieces
<1> USE DEF script, dialog, hostVars, gdbVars, Script, Goes
\* The script waits and looks, or somebody else acts.
<1>1. ASSUME UNCHANGED dialog,
             pc' \in {"banner", "reply"} => pc' = pc,
             pc' \in Unconnected => pc \in Unconnected,
             pc' \in {"port", "command"} => pc \in {"port", "command"},
             pc' = "attach" => pc = "attach"
      PROVE  Dialogue'
  BY <1>1, <1>a, ListenerStays DEF Dialogue, Told
<1>2. ASSUME pc' \notin Unconnected \cup {"banner", "port", "command", "reply", "attach"}
      PROVE  Dialogue'
  BY <1>2 DEF Dialogue
<1>3. CASE ConnectHmp
  BY <1>3, <1>a, <1>b DEF ConnectHmp, Dialogue, Told, Unconnected, Greeting
<1>4. CASE HmpCommand
  <2>1. /\ buf' = << >> /\ wire' = << >> /\ pc' = "reply"
        /\ monitor' = <<"echo", "reply", "prompt">>
    BY <1>4, <1>a, <1>b DEF HmpCommand, Dialogue
  <2> QED
    BY <2>1 DEF Dialogue, Told, Unconnected, Answer
<1>5. CASE Recv
  <2>1. PICK n \in 1..Len(wire) : /\ buf' = buf \o SubSeq(wire, 1, n)
                                  /\ wire' = SubSeq(wire, n + 1, Len(wire))
    BY <1>5 DEF Recv
  <2>2. UNCHANGED <<monitor, listener>> /\ pc \in {"banner", "reply"}
    BY <1>5 DEF Recv, Hmp
  <2>3. TypeInv'
    BY <1>a, NextType
  <2>4. (Len(buf) > 0)'
    BY <1>b, <2>1
  <2>5. /\ pc = "banner" => Told(Greeting)'
        /\ pc = "reply" => Told(Answer)'
    BY <1>a, <1>b, <2>1, <2>2, RecvTold DEF Dialogue
  <2>6. EndsWithPrompt(buf)' => (wire = << >> /\ monitor = << >>)'
    BY <2>2, <2>3, <2>4, <2>5, WholeReplyNext
  <2>e. pc' = IF ~(buf'[Len(buf')] = "prompt") THEN pc
              ELSE IF pc = "banner" THEN "port" ELSE "attach"
    BY <1>5 DEF Recv, EndsWithPrompt
  <2>7. CASE EndsWithPrompt(buf)'
    <3>1. (pc = "banner" /\ pc' = "port") \/ (pc = "reply" /\ pc' = "attach")
      BY <2>2, <2>7, <2>e DEF EndsWithPrompt
    <3>2. monitor = << >>
      BY <2>2, <2>6, <2>7
    <3>3. pc = "reply" => listener # NoOne
      BY <1>a, <3>2 DEF Dialogue
    <3> QED
      BY <2>2, <2>6, <2>7, <3>1, <3>3 DEF Dialogue, Unconnected
  <2>8. CASE ~EndsWithPrompt(buf)'
    <3>1. pc' = pc
      BY <2>8, <2>e DEF EndsWithPrompt
    <3> QED
      BY <1>a, <2>2, <2>5, <3>1 DEF Dialogue, Unconnected
  <2> QED
    BY <2>7, <2>8
<1>6. CASE MonitorWrites
  <2>1. /\ monitor # << >> /\ wire' = Append(wire, Head(monitor))
        /\ monitor' = Tail(monitor) /\ UNCHANGED <<buf, pc>> /\ Alive(target)
        /\ listener' = IF Head(monitor) = "reply" /\ listener = NoOne
                       THEN target ELSE listener
    BY <1>6 DEF MonitorWrites
  <2>2. target # NoOne
    BY <2>1 DEF Alive, Instances, NoOne
  <2>3. pc = "banner" => Told(Greeting)'
    BY <1>a, <1>b, <2>1, WriteTold DEF Dialogue
  <2>4. ASSUME pc = "reply"
        PROVE  Told(Answer)' /\ (Len(monitor') <= 1 => listener' # NoOne)
    <3>1. /\ Told(Answer)' /\ Len(monitor) = Len(monitor') + 1
          /\ Head(monitor) = Answer[3 - Len(monitor')]
      <4>1. Len(Answer) = 3
        BY DEF Answer
      <4> QED
        BY <1>a, <1>b, <2>1, <2>4, <4>1, WriteTold DEF Dialogue
    <3>2. Len(monitor') \in Nat
      BY <1>b, <2>1
    <3>3. CASE Len(monitor') = 1
      <4>1. Head(monitor) = "reply"
        BY <3>1, <3>3 DEF Answer
      <4> QED
        BY <2>1, <2>2, <3>1, <4>1
    <3>4. CASE Len(monitor') = 0
      <4>1. listener # NoOne
        BY <1>a, <2>4, <3>1, <3>4 DEF Dialogue
      <4> QED
        BY <2>1, <2>2, <3>1, <4>1
    <3>5. Len(monitor') = 0 \/ Len(monitor') = 1 \/ ~(Len(monitor') <= 1)
      BY <3>2
    <3> QED
      BY <3>1, <3>3, <3>4, <3>5
  <2>5. pc = "attach" => listener' # NoOne
    BY <1>a, <2>1, <2>2 DEF Dialogue
  <2>6. pc \notin Unconnected \cup {"port", "command"}
    BY <1>a, <2>1 DEF Dialogue
  <2> QED
    BY <2>1, <2>3, <2>4, <2>5, <2>6 DEF Dialogue
<1>7. CASE \/ LaunchGdbPreloaded \/ TakeSnapshot \/ KraftRun
           \/ WaitForNewRuntimeDir \/ WaitForMonSock \/ FindFreePort
  BY <1>7, <1>1 DEF LaunchGdbPreloaded, TakeSnapshot, KraftRun, Unconnected,
                    WaitForNewRuntimeDir, WaitForMonSock, FindFreePort
<1>8. CASE \/ AttachPreloadedGdb \/ WaitForKraft \/ TimesOut \/ GdbExited
           \/ SendDetach \/ SendQuit \/ Reap \/ StopAndRemove \/ DurationOver
  BY <1>8, <1>2 DEF AttachPreloadedGdb, WaitForKraft, TimesOut, GdbExited,
                    SendDetach, SendQuit, Reap, StopAndRemove, DurationOver,
                    Unconnected
<1>9. CASE \/ UNCHANGED vars \/ Kraft \/ Gdb \/ LosesDetach \/ LogCall
           \/ OtherStarts \/ OtherResumes \/ PortLost
           \/ (\E i \in Instances : Boots(i))
  <2>1. UNCHANGED <<dialog, pc>>
    BY <1>9 DEF vars, Kraft, KraftMakesDir, KraftFails, KraftLaunches,
     KraftResumes, Gdb, GdbLoaded, ReadSource, ReadTarget, ReadContinue,
     ReadDetach, ReadQuit, GdbInterrupted, LosesDetach, LogCall, OtherStarts,
     OtherResumes, PortLost, Boots
  <2> QED
    BY <1>1, <2>1
<1> QED
  BY <1>3, <1>4, <1>5, <1>6, <1>7, <1>8, <1>9 DEF Next, Main

LEMMA NextReady ==
  ASSUME ReadyInv, [Next]_vars
  PROVE  ReadyInv'
<1>1. TypeInv'
  BY NextType DEF ReadyInv
<1>2. "target" \in Commands' => listener' # NoOne
  BY NextCommands
<1> QED
  BY <1>1, <1>2, NextSourceFirst, NextDialogue, NextOnlyWithMonitorPy
     DEF ReadyInv

\* gdb is told to connect only when QEMU's reply to "gdbserver" has been read
\* to its end, so that somebody listens (_recv_until_prompt(),
\* attach_preloaded_gdb()), and is on a guest only with monitor.py read, for
\* its stdin is taken in order (launch_gdb_preloaded()).
THEOREM ReadyToAttach == Spec => []ReadyOnAttach
<1>1. ReadyInv => ReadyOnAttach
  BY DEF ReadyInv, ReadyOnAttach, Commands
<1>2. Spec => []ReadyInv
  BY InitReady, NextReady, PTL DEF Spec
<1> QED
  BY <1>1, <1>2, PTL

-----------------------------------------------------------------------------
(***************************************************************************)
(* The instance that has the name already.                                 *)
(***************************************************************************)
Bystanders == \/ LaunchGdbPreloaded \/ WaitForMonSock \/ ConnectHmp \/ Recv
              \/ FindFreePort \/ HmpCommand \/ AttachPreloadedGdb \/ WaitForKraft
              \/ TimesOut \/ GdbExited \/ SendDetach \/ SendQuit \/ Reap
              \/ StopAndRemove \/ DurationOver \/ KraftFails \/ KraftLaunches
              \/ KraftResumes \/ Gdb \/ LosesDetach \/ LogCall \/ OtherResumes
              \/ PortLost \/ MonitorWrites \/ (\E i \in Instances : Boots(i))
              \/ UNCHANGED vars

\* No guest comes up under the name; "other" is there once it has started;
\* and only the script's last step ends a guest.
LEMMA RunSteps ==
  ASSUME TypeInv, [Next]_vars
  PROVE  /\ Alive("namesake")' => Alive("namesake")
         /\ run["other"] # "off" => run'["other"] # "off"
         /\ Alive("namesake") /\ ~Alive("namesake")' => pc = "remove"
<1>a. /\ run \in [Instances -> Runs] /\ (session # NoOne => Alive(session))
      /\ "namesake" \in Instances /\ "other" \in Instances
      /\ "own" \in Instances /\ NoOne \notin Instances
  BY Typed DEF TypeInv, OnAlive, Instances, NoOne
<1>b. session \in Instances \cup {NoOne}
  BY Typed DEF Somebody
<1> USE DEF hostVars, Script, Goes, Alive
<1>1. CASE UNCHANGED run
  BY <1>1
<1>2. CASE StopAndRemove
  BY <1>a, <1>2 DEF StopAndRemove, HasName
<1>3. CASE KraftLaunches \/ KraftResumes \/ OtherStarts \/ OtherResumes
  <2>1. PICK i \in {"own", "other"}, s \in Runs :
          run' = [run EXCEPT ![i] = s] /\ (i = "other" => s # "off")
    BY <1>a, <1>3 DEF KraftLaunches, KraftResumes, OtherStarts, OtherResumes,
                      Started, Runs
  <2> QED
    BY <1>a, <2>1
<1>4. CASE ReadTarget \/ ReadContinue \/ GdbInterrupted
  <2>1. CASE UNCHANGED run
    BY <2>1
  <2>2. ASSUME NEW i \in Instances, NEW s \in {"debug", "running"},
               run' = [run EXCEPT ![i] = s], Alive(i)
        PROVE  /\ Alive("namesake")' <=> Alive("namesake")
               /\ run["other"] # "off" => run'["other"] # "off"
    BY <1>a, <2>2
  <2>3. CASE ReadTarget
    BY <2>1, <2>2, <2>3 DEF ReadTarget
  <2>4. CASE ReadContinue
    <3>1. CASE session = NoOne
      BY <2>1, <2>4, <3>1 DEF ReadContinue
    <3>2. CASE session # NoOne
      <4>1. run' = [run EXCEPT ![session] = "running"] /\ Alive(session)
        BY <1>a, <2>4, <3>2 DEF ReadContinue, Started
      <4> QED
        BY <1>b, <2>2, <3>2, <4>1
    <3> QED
      BY <3>1, <3>2
  <2>5. CASE GdbInterrupted
    <3>1. run' = [run EXCEPT ![session] = "debug"]
      BY <2>5 DEF GdbInterrupted
    <3>2. CASE session = NoOne
      BY <1>a, <3>1, <3>2
    <3>3. CASE session # NoOne
      BY <1>a, <1>b, <2>2, <3>1, <3>3
    <3> QED
      BY <3>2, <3>3
  <2> QED
    BY <1>4, <2>3, <2>4, <2>5
<1>5. CASE Release
  BY <1>a, <1>5 DEF Release
<1>6. ASSUME Next, ~StopAndRemove, ~KraftLaunches, ~KraftResumes, ~OtherStarts,
             ~OtherResumes, ~ReadTarget, ~ReadContinue, ~GdbInterrupted,
             ~Release
      PROVE  UNCHANGED run
  BY <1>6 DEF Next, Main, LaunchGdbPreloaded, TakeSnapshot, KraftRun,
     WaitForNewRuntimeDir, WaitForMonSock, ConnectHmp, Recv, FindFreePort,
     HmpCommand, AttachPreloadedGdb, WaitForKraft, TimesOut, GdbExited,
     SendDetach, SendQuit, Reap, DurationOver, Kraft, KraftMakesDir,
     KraftFails, Gdb, GdbLoaded, ReadSource, ReadDetach, ReadQuit,
     LosesDetach, LogCall, PortLost, MonitorWrites, Boots
<1>7. UNCHANGED vars => UNCHANGED run
  BY DEF vars
<1> QED
  BY <1>1, <1>2, <1>3, <1>4, <1>5, <1>6, <1>7

\* What a bystander does is not about directories.
LEMMA BystanderSteps ==
  ASSUME Bystanders
  PROVE  /\ UNCHANGED <<before, dirs, intruded>>
         /\ pc' \in Looking => pc \in Looking
         /\ pc' \in Found => pc \in Found
<1> USE DEF script, hostVars, gdbVars, Script, Goes, Looking, Found
<1>1. CASE UNCHANGED vars
  BY <1>1 DEF vars
<1>2. CASE \/ LaunchGdbPreloaded \/ WaitForMonSock \/ ConnectHmp
           \/ FindFreePort \/ HmpCommand \/ AttachPreloadedGdb \/ WaitForKraft
           \/ TimesOut \/ GdbExited \/ SendDetach \/ SendQuit \/ Reap
           \/ StopAndRemove \/ DurationOver
  BY <1>2 DEF LaunchGdbPreloaded, WaitForMonSock, ConnectHmp, FindFreePort,
     HmpCommand, AttachPreloadedGdb, WaitForKraft, TimesOut, GdbExited,
     SendDetach, SendQuit, Reap, StopAndRemove, DurationOver
<1>3. CASE Recv
  BY <1>3 DEF Recv, Hmp
<1>4. CASE \/ KraftFails \/ KraftLaunches \/ KraftResumes \/ Gdb \/ LosesDetach
           \/ LogCall \/ OtherResumes \/ PortLost \/ MonitorWrites
           \/ (\E i \in Instances : Boots(i))
  BY <1>4 DEF KraftFails, KraftLaunches, KraftResumes, Gdb, GdbLoaded,
     ReadSource, ReadTarget, ReadContinue, ReadDetach, ReadQuit,
     GdbInterrupted, LosesDetach, LogCall, OtherResumes, PortLost,
     MonitorWrites, Boots
<1> QED
  BY <1>1, <1>2, <1>3, <1>4 DEF Bystanders

LEMMA NextSpared ==
  ASSUME SparedInv, [Next]_vars
  PROVE  Spared'
<1>a. TypeInv /\ Spared /\ dirs \subseteq Dirs
  BY DEF SparedInv, TypeInv, BootCaptureTypeOK
<1>r. /\ Alive("namesake")' => Alive("namesake")
      /\ run["other"] # "off" => run'["other"] # "off"
  BY <1>a, RunSteps
<1> USE DEF script, hostVars, Script, Goes
<1>1. CASE Bystanders
  BY <1>a, <1>r, <1>1, BystanderSteps DEF Spared
<1>2. CASE TakeSnapshot
  BY <1>a, <1>r, <1>2 DEF TakeSnapshot, Spared, Looking, Found
<1>3. CASE KraftRun
  BY <1>a, <1>r, <1>3 DEF KraftRun, Spared, Looking, Found
<1>4. CASE WaitForNewRuntimeDir
  <2>1. /\ UNCHANGED <<before, dirs, intruded>> /\ pc = "rundir"
        /\ pc' = "monsock" /\ dirs \ before # {}
    BY <1>4 DEF WaitForNewRuntimeDir, NewDirs
  <2>2. Alive("namesake") => intruded
    BY <1>a, <2>1 DEF Spared, Looking
  <2> QED
    BY <1>a, <1>r, <2>1, <2>2 DEF Spared, Looking, Found
<1>5. CASE KraftMakesDir
  BY <1>a, <1>r, <1>5 DEF KraftMakesDir, Spared
<1>6. CASE OtherStarts
  <2>1. /\ run["other"] = "off" /\ dirs' = dirs \cup {"other"}
        /\ intruded' = (pc \in Looking) /\ UNCHANGED <<pc, before>>
        /\ run' = [run EXCEPT !["other"] = "prelaunch"]
    BY <1>6 DEF OtherStarts, Looking
  <2>2. ~intruded
    BY <1>a, <2>1 DEF Spared
  <2>3. run'["other"] # "off"
    BY <1>a, <2>1, Typed DEF Instances
  <2> QED
    BY <1>a, <1>r, <2>1, <2>2, <2>3 DEF Spared
<1> QED
  BY <1>1, <1>2, <1>3, <1>4, <1>5, <1>6 DEF Next, Main, Kraft, Bystanders

LEMMA AlwaysSpared == Spec => []SparedInv
<1>1. ASSUME Init
      PROVE  SparedInv
  BY <1>1, InitType DEF Init, SparedInv, Spared, Looking, Found, Alive
<1>2. ASSUME SparedInv, [Next]_vars
      PROVE  SparedInv'
  BY <1>2, NextType, NextSpared DEF SparedInv
<1> QED
  BY <1>1, <1>2, PTL DEF Spec

\* stop_and_remove(args.name) ends an instance that was up under that name
\* before only when some other instance's directory has appeared while the
\* script was looking for its own: `kraft run' makes none then, and its
\* failure goes unnoticed (wait_for_new_runtime_dir()).
THEOREM BystanderSpared == Spec => NamesakeSpared
<1>1. ASSUME SparedInv, [Next]_vars, Alive("namesake"), ~Alive("namesake")'
      PROVE  intruded
  BY <1>1, RunSteps DEF SparedInv, Spared, Found
<1>2. SparedInv /\ [Next]_vars =>
        [Alive("namesake") /\ ~Alive("namesake")' => intruded]_vars
  BY <1>1
<1> QED
  BY <1>2, AlwaysSpared, PTL DEF Spec, NamesakeSpared
=============================================================================
