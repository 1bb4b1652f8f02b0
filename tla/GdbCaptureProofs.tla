--------------------------- MODULE GdbCaptureProofs ---------------------------
(***************************************************************************)
(* Proofs about GdbCapture.tla, for any number of runs of the script, any  *)
(* ports and instance names, any --max-events and any gdb that may hang,   *)
(* whatever users start and stop meanwhile.                                *)
(***************************************************************************)
EXTENDS GdbCapture, FiniteSetTheorems, TLAPS

(***************************************************************************)
(* The inductive invariants.  Places says which states of a gdb go with    *)
(* which places of its script; the type invariant is not inductive without *)
(* it, since a dropped client falls back to its prompt.                    *)
(***************************************************************************)
Before   == {"check", "start", "probe", "serve", "launch"}
Attached == {"connected", "running", "interrupted", "prompt"}

Running  == Before \cup {"wait", "detach", "quit", "reap", "finish", "count"}
Gdbs     == Attached \cup {"none", "starting", "exited"}

PlaceOf(s) ==
  /\ pc[s] \in Before => gdb[s] = "none"
  /\ gdb[s] \in {"starting", "connected"} => pc[s] = "wait"
  /\ pc[s] = "failed" /\ s \notin hangs => gdb[s] \in {"none", "exited"}
  /\ session[s] # NoOne => gdb[s] \in Attached
  /\ pc[s] \in {"serve", "launch", "wait"} => port[s] \in Ports

Places == \A s \in Scripts : PlaceOf(s)

PlacedInv == GdbTypeOK /\ Places

\* From the `gdbserver' command on until gdb has connected, the stub is all
\* there is of a capture.
Launching(s) == pc[s] = "launch" \/ gdb[s] = "starting"

OwnStub ==
  \A s \in Scripts :
    OnlyRun(s) /\ s \in found /\ Launching(s) => stub[name[s]] = port[s]

OwnGuestInv == PlacedInv /\ OwnStub /\ GdbOnOwnGuest

\* Somebody still minds a guest that stands still or has the int3: a gdb
\* that is connected, or one that will be; but for the guests whose last
\* `gdbserver' was executed for a script that has failed.
Minders(n) ==
  {s \in Scripts : \/ session[s] = n
                   \/ name[s] = n /\ stub[n] = port[s] /\ Launching(s)}

Caught == {n \in Names : guest[n] # "running" \/ armed[n]}

Minded == hangs = {} => \A n \in Caught \ late : Minders(n) # {}

MindedInv == PlacedInv /\ Minded

\* From its start on until somebody stops it, the instance a script has
\* started is still the one of the name, which nobody else gets.
Keeping == {"probe", "serve", "launch", "wait", "detach", "quit", "reap",
            "finish"}

OwnInst ==
  \A s \in Scripts :
    mine[s] /\ pc[s] \in Keeping /\ s \notin stopped => inst[name[s]] = s

OwnInstInv == PlacedInv /\ OwnInst

-----------------------------------------------------------------------------
(***************************************************************************)
(* Types and places.                                                       *)
(***************************************************************************)
LEMMA InitPlaced ==
  ASSUME Init
  PROVE  PlacedInv
<1>1. GdbTypeOK
  BY GdbCaptureAssumption DEF Init, GdbTypeOK
<1>2. Places
  BY DEF Init, Places, PlaceOf, Before
<1> QED
  BY <1>1, <1>2 DEF PlacedInv

LEMMA NextTypes ==
  ASSUME PlacedInv, [Next]_vars
  PROVE  GdbTypeOK'
<1> DEFINE OneStub    == \A n, m \in Names :
                           stub[n] = stub[m] => n = m \/ stub[n] = NoPort
           OneSession == \A t, u \in Scripts :
                           session[t] = session[u] =>
                             t = u \/ session[t] = NoOne
           GdbGone    == \A t \in Scripts :
                           pc[t] \in {"finish", "count", "done"} =>
                             gdb[t] = "exited"
           QemuTypes  == /\ inst \in [Names -> Scripts \cup {User, NoOne}]
                         /\ stub \in [Names -> Ports \cup {NoPort}]
                         /\ guest \in [Names -> {"running", "hit", "halted"}]
                         /\ armed \in [Names -> BOOLEAN]
                         /\ found \subseteq Scripts /\ late \subseteq Names
                         /\ stopped \subseteq Scripts
           MainTypes  == /\ name \in [Scripts -> Names]
                         /\ hangs \subseteq MayHang
                         /\ pc \in [Scripts -> Running \cup Ended]
                         /\ mine \in [Scripts -> BOOLEAN]
                         /\ port \in [Scripts -> Ports \cup {NoPort}]
                         /\ total \in [Scripts -> Nat]
           GdbTypes   == /\ gdb \in [Scripts -> Gdbs]
                         /\ session \in [Scripts -> Names \cup {NoOne}]
                         /\ quitSent \in [Scripts -> BOOLEAN]
                         /\ log \in Seq(Scripts)
           Typing     == /\ OneStub /\ OneSession /\ GdbGone
                         /\ QemuTypes /\ MainTypes /\ GdbTypes
<1>a. Typing
  BY DEF PlacedInv, GdbTypeOK, Running, Before, Ended, Gdbs, Attached
<1>z. SUFFICES Typing'
  BY DEF GdbTypeOK, Running, Before, Ended, Gdbs, Attached
<1>b. /\ pc \in [Scripts -> Running \cup Ended]
      /\ gdb \in [Scripts -> Gdbs]
      /\ \A t \in Scripts : session[t] # NoOne => gdb[t] # "exited"
  BY <1>a DEF PlacedInv, Places, PlaceOf, Attached
<1>n. NoOne \notin Names
  BY GdbCaptureAssumption
<1>o. ASSUME NEW n \in Names, Stop(n)
      PROVE  /\ QemuTypes' /\ OneStub' /\ OneSession'
             /\ gdb' \in [Scripts -> Gdbs]
             /\ session' \in [Scripts -> Names \cup {NoOne}]
             /\ \A t \in Scripts : gdb[t] = "exited" => gdb'[t] = "exited"
  <2>1. QemuTypes'
    <3>1. /\ inst' = [inst EXCEPT ![n] = NoOne]
          /\ stub' = [stub EXCEPT ![n] = NoPort]
          /\ guest' = [guest EXCEPT ![n] = "running"]
          /\ armed' = [armed EXCEPT ![n] = FALSE]
      BY <1>o DEF Stop
    <3>2. /\ found' \subseteq found /\ late' \subseteq late
          /\ stopped' = stopped \cup ({inst[n]} \cap Scripts)
      BY <1>o DEF Stop
    <3> QED
      BY <1>a, <3>1, <3>2
  <2>2. OneStub'
    <3>1. stub' = [stub EXCEPT ![n] = NoPort]
      BY <1>o DEF Stop
    <3> QED
      BY <1>a, <3>1
  <2>3. DropClient(n)
    BY <1>o DEF Stop
  <2> QED
    BY <1>a, <1>b, <1>n, <2>1, <2>2, <2>3 DEF DropClient, Gdbs, Attached
<1> USE DEF scriptVars, qemuVars, gdbVars, given
<1>1. CASE UNCHANGED vars
  BY <1>a, <1>1 DEF vars
<1>2. ASSUME NEW s \in Scripts, Main(s)
      PROVE  Typing'
  <2>1. CASE CheckRunning(s)
    BY <1>a, <2>1 DEF CheckRunning, Goes, Running, Before, Ended
  <2>2. CASE StartInstance(s)
    <3>1. inst' \in [Names -> Scripts \cup {User, NoOne}]
      <4>1. inst' \in {inst, [inst EXCEPT ![name[s]] = s]}
        BY <2>2 DEF StartInstance
      <4> QED
        BY <1>a, <4>1
    <3>2. /\ pc' \in [Scripts -> Running \cup Ended]
          /\ pc'[s] \in {"probe", "failed"}
          /\ \A t \in Scripts \ {s} : pc'[t] = pc[t]
      BY <1>b, <2>2 DEF StartInstance, WhenRefused, Goes, Running, Before, Ended
    <3>3. UNCHANGED <<mine, port, total, stub, guest, armed, found, late, stopped,
                      gdbVars, given>>
      BY <2>2 DEF StartInstance
    <3>4. GdbGone'
      BY <1>a, <3>2, <3>3
    <3> QED
      BY <1>a, <3>1, <3>2, <3>3, <3>4
  <2>3. CASE FindPort(s)
    <3>1. MainTypes'
      <4>1. port' \in [Scripts -> Ports \cup {NoPort}]
        <5>1. ASSUME NEW p \in Ports, port' = [port EXCEPT ![s] = p]
              PROVE  port' \in [Scripts -> Ports \cup {NoPort}]
          BY <1>a, <5>1
        <5> QED
          BY <1>a, <2>3, <5>1 DEF FindPort
      <4> QED
        BY <1>a, <2>3, <4>1 DEF FindPort, Goes, Running, Before, Ended
    <3> QED
      BY <1>a, <1>b, <2>3, <3>1
         DEF FindPort, Goes, Running, Before, Ended, Gdbs
  <2>4. CASE AttachGdbserver(s)
    <3>1. QemuTypes'
      <4>1. \/ UNCHANGED stub
            \/ stub' = [stub EXCEPT ![name[s]] = port[s]]
        BY <2>4 DEF AttachGdbserver, ServerReplaced, ServerKept
      <4>2. late' \in {late, late \ {name[s]}, late \cup {name[s]}}
        BY <2>4 DEF AttachGdbserver, ServerReplaced, ServerKept
      <4>3. stub' \in [Names -> Ports \cup {NoPort}]
        BY <1>a, <4>1
      <4>4. late' \subseteq Names
        <5>1. name[s] \in Names
          BY <1>a
        <5> QED
          BY <1>a, <4>2, <5>1
      <4>5. UNCHANGED <<inst, guest, armed, found, stopped>>
        BY <2>4 DEF AttachGdbserver
      <4> QED
        BY <1>a, <4>3, <4>4, <4>5
    <3>2. OneStub'
      <4>1. \/ UNCHANGED stub
            \/ /\ stub' = [stub EXCEPT ![name[s]] = port[s]]
               /\ \A n \in Names : stub[n] # port[s]
        BY <2>4 DEF AttachGdbserver, ServerReplaced, ServerKept, Taken
      <4>2. CASE UNCHANGED stub
        BY <1>a, <4>2
      <4>3. CASE /\ stub' = [stub EXCEPT ![name[s]] = port[s]]
                 /\ \A n \in Names : stub[n] # port[s]
        <5>1. \A n \in Names :
                stub'[n] = IF n = name[s] THEN port[s] ELSE stub[n]
          BY <1>a, <4>3
        <5> QED
          BY <1>a, <4>3, <5>1
      <4> QED
        BY <4>1, <4>2, <4>3
    <3>3. GdbGone'
      <4>1. /\ pc'[s] \in {"launch", "failed"}
            /\ \A t \in Scripts \ {s} : pc'[t] = pc[t]
        BY <1>b, <2>4
           DEF AttachGdbserver, ServerReplaced, ServerKept, ReplyChecked, Goes
      <4>2. \A t \in Scripts : gdb[t] = "exited" => gdb'[t] = "exited"
        BY <1>a, <1>b, <1>n, <2>4
           DEF AttachGdbserver, ServerReplaced, ServerKept, DropClient
      <4> QED
        BY <1>a, <4>1, <4>2
    <3>4. GdbTypes' /\ OneSession'
      BY <1>a, <2>4
         DEF AttachGdbserver, ServerReplaced, ServerKept, DropClient, Gdbs, Attached
    <3>5. MainTypes'
      BY <1>a, <2>4
         DEF AttachGdbserver, ServerReplaced, ServerKept, ReplyChecked, Goes,
             Running, Before, Ended
    <3> QED
      BY <3>1, <3>2, <3>3, <3>4, <3>5
  <2>5. CASE LaunchGdb(s)
    BY <1>a, <2>5 DEF LaunchGdb, Goes, Running, Before, Ended, Gdbs
  <2>6. CASE GdbExited(s)
    BY <1>a, <2>6 DEF GdbExited, Goes, Running, Before, Ended
  <2>7. CASE SendDetach(s)
    <3>1. QemuTypes'
      <4>1. CASE Release(s)
        BY <1>a, <2>7, <4>1 DEF SendDetach, Release
      <4>2. CASE UNCHANGED <<armed, guest>>
        BY <1>a, <2>7, <4>2 DEF SendDetach
      <4> QED
        BY <2>7, <4>1, <4>2 DEF SendDetach, Detach
    <3>2. OneSession'
      <4>1. session' \in {session, [session EXCEPT ![s] = NoOne]}
        BY <2>7 DEF SendDetach, Detach, Release
      <4> QED
        BY <1>a, <4>1
    <3> QED
      BY <1>a, <1>b, <2>7, <3>1, <3>2
         DEF SendDetach, Detach, Release, Goes, Running, Before, Ended, Gdbs
  <2>8. CASE SendQuit(s)
    BY <1>a, <2>8 DEF SendQuit, Goes, Running, Before, Ended
  <2>9. CASE Reap(s)
    BY <1>a, <2>9 DEF Reap, Goes, Running, Before, Ended, Awaited
  <2>10. CASE Terminate(s)
    <3>1. /\ pc' \in [Scripts -> Running \cup Ended]
          /\ \A t \in Scripts \ {s} : pc'[t] = pc[t]
      BY <1>b, <2>10 DEF Terminate, Goes, Running, Before, Ended
    <3>2. /\ \/ /\ gdb' = [gdb EXCEPT ![s] = "exited"]
                /\ session' = [session EXCEPT ![s] = NoOne]
             \/ UNCHANGED <<gdb, session>> /\ pc'[s] = "failed"
          /\ UNCHANGED <<mine, port, total, qemuVars, quitSent, log, given>>
      BY <1>b, <2>10 DEF Terminate, Goes
    <3>3. GdbGone'
      BY <1>a, <1>b, <3>1, <3>2
    <3>4. OneSession'
      BY <1>a, <3>2
    <3>5. GdbTypes'
      BY <1>a, <3>2 DEF Gdbs
    <3> QED
      BY <1>a, <3>1, <3>2, <3>3, <3>4, <3>5
  <2>11. CASE StopOrLeave(s)
    <3>1. name[s] \in Names
      BY <1>a
    <3>2. /\ pc' = [pc EXCEPT ![s] = "count"] /\ pc[s] = "finish"
          /\ UNCHANGED <<mine, port, total, quitSent, log, given>>
      BY <2>11 DEF StopOrLeave, Goes
    <3>3. CASE mine[s]
      <4>1. Stop(name[s])
        BY <2>11, <3>3 DEF StopOrLeave
      <4>2. /\ QemuTypes' /\ OneStub' /\ OneSession'
            /\ gdb' \in [Scripts -> Gdbs]
            /\ session' \in [Scripts -> Names \cup {NoOne}]
            /\ \A t \in Scripts : gdb[t] = "exited" => gdb'[t] = "exited"
        BY <1>o, <3>1, <4>1
      <4> QED
        BY <1>a, <3>2, <4>2 DEF Running, Before
    <3>4. CASE ~mine[s]
      BY <1>a, <2>11, <3>2, <3>4 DEF StopOrLeave, Running, Before
    <3> QED
      BY <3>3, <3>4
  <2>12. CASE CountEvents(s)
    BY <1>a, <2>12 DEF CountEvents, Goes, Running, Before, Ended
  <2> QED
    BY <1>2, <2>1, <2>2, <2>3, <2>4, <2>5, <2>6, <2>7, <2>8, <2>9, <2>10,
       <2>11, <2>12 DEF Main
<1>3. ASSUME NEW s \in Scripts, Gdb(s) \/ GdbInterrupted(s) \/ DurationOver(s)
      PROVE  Typing'
  <2>1. CASE GdbConnects(s)
    <3>1. GdbTypes'
      <4>1. session' \in [Scripts -> Names \cup {NoOne}]
        <5>1. ASSUME NEW n \in Names, session' = [session EXCEPT ![s] = n]
              PROVE  session' \in [Scripts -> Names \cup {NoOne}]
          BY <1>a, <5>1
        <5> QED
          BY <1>a, <2>1, <5>1 DEF GdbConnects
      <4> QED
        <5>1. gdb' \in [Scripts -> Gdbs] /\ UNCHANGED <<quitSent, log>>
          BY <1>b, <2>1 DEF GdbConnects, Gdbs, Attached
        <5> QED
          BY <1>a, <4>1, <5>1
    <3>2. OneSession'
      <4>1. ASSUME NEW n \in Names, \A t \in Scripts : session[t] # n,
                   session' = [session EXCEPT ![s] = n]
            PROVE  OneSession'
        <5>1. \A t \in Scripts : session'[t] = IF t = s THEN n ELSE session[t]
          BY <1>a, <4>1
        <5> QED
          BY <1>a, <4>1, <5>1
      <4>2. CASE UNCHANGED session
        BY <1>a, <4>2
      <4> QED
        BY <2>1, <4>1, <4>2 DEF GdbConnects
    <3>3. QemuTypes' /\ MainTypes' /\ OneStub'
      <4>1. \/ UNCHANGED <<guest, armed>>
            \/ \E n \in Names : /\ guest' = [guest EXCEPT ![n] = "halted"]
                                /\ armed' = [armed EXCEPT ![n] = FALSE]
        BY <2>1 DEF GdbConnects
      <4>2. guest' \in [Names -> {"running", "hit", "halted"}]
        BY <1>a, <4>1
      <4>3. armed' \in [Names -> BOOLEAN]
        BY <1>a, <4>1
      <4>4. UNCHANGED <<scriptVars, inst, stub, found, late, stopped, given>>
        BY <2>1 DEF GdbConnects
      <4> QED
        BY <1>a, <4>2, <4>3, <4>4
    <3>4. GdbGone'
      BY <1>a, <1>b, <2>1 DEF GdbConnects
    <3> QED
      BY <3>1, <3>2, <3>3, <3>4
  <2>2. CASE GdbContinues(s)
    BY <1>a, <2>2 DEF GdbContinues, Gdbs, Attached
  <2>3. CASE SkipCall(s)
    BY <1>a, <2>3 DEF SkipCall, AutoContinue
  <2>4. CASE LogCall(s)
    <3>1. QemuTypes'
      <4>1. CASE Release(s)
        BY <1>a, <2>4, <4>1 DEF LogCall, Release
      <4>2. CASE AutoContinue(s) /\ UNCHANGED <<armed, session>>
        BY <1>a, <2>4, <4>2 DEF LogCall, AutoContinue
      <4> QED
        BY <2>4, <4>1, <4>2 DEF LogCall
    <3>2. GdbTypes'
      <4>1. log' \in Seq(Scripts)
        BY <1>a, <2>4 DEF LogCall
      <4>2. /\ gdb' \in {gdb, [gdb EXCEPT ![s] = "exited"]}
            /\ session' \in {session, [session EXCEPT ![s] = NoOne]}
        BY <2>4 DEF LogCall, AutoContinue, Release
      <4> QED
        BY <1>a, <2>4, <4>1, <4>2 DEF LogCall, Gdbs, Attached
    <3>3. OneSession'
      <4>1. session' \in {session, [session EXCEPT ![s] = NoOne]}
        BY <2>4 DEF LogCall, AutoContinue, Release
      <4> QED
        BY <1>a, <4>1
    <3> QED
      BY <1>a, <1>b, <2>4, <3>1, <3>2, <3>3
         DEF LogCall, AutoContinue, Release, Goes, Running, Before, Ended, Gdbs
  <2>5. CASE GdbQuits(s)
    BY <1>a, <1>b, <2>5
       DEF GdbQuits, Release, Gdbs
  <2>6. CASE GdbInterrupted(s)
    BY <1>a, <2>6 DEF GdbInterrupted, Gdbs, Attached
  <2>7. CASE DurationOver(s)
    BY <1>a, <2>7
       DEF DurationOver, Goes, Running, Before, Ended, Gdbs, Attached
  <2> QED
    BY <1>3, <2>1, <2>2, <2>3, <2>4, <2>5, <2>6, <2>7 DEF Gdb
<1>4. ASSUME NEW n \in Names, SystemCall(n)
      PROVE  Typing'
  BY <1>a, <1>4 DEF SystemCall
<1>5. ASSUME NEW n \in Names, UserStarts(n)
      PROVE  Typing'
  BY <1>a, <1>5 DEF UserStarts
<1>6. ASSUME NEW n \in Names, UserStops(n)
      PROVE  Typing'
  <2>1. Stop(n) /\ UNCHANGED <<scriptVars, quitSent, log, given>>
    BY <1>6 DEF UserStops
  <2>2. /\ QemuTypes' /\ OneStub' /\ OneSession'
        /\ gdb' \in [Scripts -> Gdbs]
        /\ session' \in [Scripts -> Names \cup {NoOne}]
        /\ \A t \in Scripts : gdb[t] = "exited" => gdb'[t] = "exited"
    BY <1>o, <2>1
  <2> QED
    BY <1>a, <2>1, <2>2
<1> QED
  BY <1>1, <1>2, <1>3, <1>4, <1>5, <1>6, GdbCaptureAssumption DEF Next

LEMMA NextPlaces ==
  ASSUME PlacedInv, [Next]_vars
  PROVE  Places'
<1> USE GdbCaptureAssumption
    DEF PlacedInv, GdbTypeOK, Places, PlaceOf, Before, Attached, Ended,
        scriptVars, qemuVars, gdbVars, given
<1>1. CASE UNCHANGED vars
  BY <1>1 DEF vars
<1>2. ASSUME NEW s \in Scripts, Main(s)
      PROVE  Places'
  <2> USE DEF Goes
  <2>1. CASE CheckRunning(s)
    BY <2>1 DEF CheckRunning
  <2>2. CASE StartInstance(s)
    BY <2>2 DEF StartInstance, WhenRefused
  <2>3. CASE FindPort(s)
    BY <2>3 DEF FindPort
  <2>4. CASE AttachGdbserver(s)
    BY <2>4 DEF AttachGdbserver, ServerReplaced, ServerKept, DropClient,
                ReplyChecked, Taken
  <2>5. CASE LaunchGdb(s)
    BY <2>5 DEF LaunchGdb
  <2>6. CASE GdbExited(s)
    BY <2>6 DEF GdbExited
  <2>7. CASE SendDetach(s)
    BY <2>7 DEF SendDetach, Detach, Release
  <2>8. CASE SendQuit(s)
    BY <2>8 DEF SendQuit
  <2>9. CASE Reap(s)
    BY <2>9 DEF Reap, Awaited
  <2>10. CASE Terminate(s)
    BY <2>10 DEF Terminate, TimesOut
  <2>11. CASE StopOrLeave(s)
    BY <2>11 DEF StopOrLeave, Stop, DropClient
  <2>12. CASE CountEvents(s)
    BY <2>12 DEF CountEvents
  <2> QED
    BY <1>2, <2>1, <2>2, <2>3, <2>4, <2>5, <2>6, <2>7, <2>8, <2>9, <2>10,
       <2>11, <2>12 DEF Main
<1>3. ASSUME NEW s \in Scripts, Gdb(s)
      PROVE  Places'
  <2>1. CASE GdbConnects(s)
    BY <2>1 DEF GdbConnects
  <2>2. CASE GdbContinues(s)
    BY <2>2 DEF GdbContinues
  <2>3. CASE SkipCall(s)
    BY <2>3 DEF SkipCall, AutoContinue
  <2>4. CASE LogCall(s)
    BY <2>4 DEF LogCall, Stopped, AutoContinue, Release
  <2>5. CASE GdbQuits(s)
    BY <2>5 DEF GdbQuits, Release
  <2> QED
    BY <1>3, <2>1, <2>2, <2>3, <2>4, <2>5 DEF Gdb
<1>4. ASSUME NEW s \in Scripts, GdbInterrupted(s) \/ DurationOver(s)
      PROVE  Places'
  <2>1. CASE GdbInterrupted(s)
    BY <2>1 DEF GdbInterrupted
  <2>2. CASE DurationOver(s)
    BY <2>2 DEF DurationOver, Goes
  <2> QED
    BY <1>4, <2>1, <2>2
<1>5. ASSUME NEW n \in Names, SystemCall(n)
      PROVE  Places'
  BY <1>5 DEF SystemCall
<1>6. ASSUME NEW n \in Names, UserStarts(n)
      PROVE  Places'
  BY <1>6 DEF UserStarts
<1>7. ASSUME NEW n \in Names, UserStops(n)
      PROVE  Places'
  BY <1>7 DEF UserStops, Stop, DropClient
<1> QED
  BY <1>1, <1>2, <1>3, <1>4, <1>5, <1>6, <1>7 DEF Next

LEMMA AlwaysPlaced == Spec => []PlacedInv
BY InitPlaced, NextTypes, NextPlaces, PTL DEF Spec, PlacedInv

\* The variables keep their types; no port is that of two gdbstubs and no
\* guest has two gdbs (the stub serves one client); and a script whose
\* stop_gdb_capture() has returned has no gdb left.
THEOREM GdbTypeCorrect == Spec => []GdbTypeOK
<1>1. PlacedInv => GdbTypeOK
  BY DEF PlacedInv
<1> QED
  BY <1>1, AlwaysPlaced, PTL

-----------------------------------------------------------------------------
(***************************************************************************)
(* What a script started is what it stops.                                 *)
(***************************************************************************)
LEMMA InitOwnInst ==
  ASSUME Init
  PROVE  OwnInst
BY DEF Init, OwnInst

LEMMA NextOwnInst ==
  ASSUME OwnInstInv, [Next]_vars
  PROVE  OwnInst'
<1>a. /\ name \in [Scripts -> Names] /\ pc \in [Scripts -> Running \cup Ended]
      /\ mine \in [Scripts -> BOOLEAN]
      /\ inst \in [Names -> Scripts \cup {User, NoOne}] /\ stopped \subseteq Scripts
  BY DEF OwnInstInv, PlacedInv, GdbTypeOK, Running, Before, Ended
<1>b. NoOne \notin Scripts
  BY GdbCaptureAssumption
<1>c. ASSUME NEW n \in Names, Stop(n)
      PROVE  /\ stopped \subseteq stopped'
             /\ \A t \in Scripts \ stopped' :
                  inst[name[t]] = t => inst'[name[t]] = t
  BY <1>a, <1>c DEF Stop
<1> USE DEF OwnInstInv, OwnInst, Keeping, scriptVars, qemuVars, gdbVars, given
<1>1. CASE UNCHANGED vars
  BY <1>1 DEF vars
\* Elsewhere nobody's instance is replaced, and no script gets back to where
\* it has one.
<1>2. ASSUME NEW s \in Scripts, NEW to, pc' = [pc EXCEPT ![s] = to],
             to \in Keeping => pc[s] \in Keeping,
             UNCHANGED <<name, mine, inst, stopped>>
      PROVE  OwnInst'
  BY <1>a, <1>2
<1>3. ASSUME UNCHANGED <<name, mine, inst, pc, stopped>>
      PROVE  OwnInst'
  BY <1>3
<1>4. ASSUME NEW s \in Scripts, CheckRunning(s)
      PROVE  OwnInst'
  BY <1>a, <1>4 DEF CheckRunning, Goes
<1>5. ASSUME NEW s \in Scripts, StartInstance(s)
      PROVE  OwnInst'
  <2>1. CASE Goes(s, "start", WhenRefused(s)) /\ UNCHANGED inst
    BY <1>a, <1>5, <2>1 DEF StartInstance, WhenRefused, Goes
  <2>2. CASE /\ ~IsUp(name[s]) /\ Goes(s, "start", "probe")
             /\ inst' = [inst EXCEPT ![name[s]] = s]
    BY <1>a, <1>b, <1>5, <2>2 DEF StartInstance, Goes, IsUp
  <2> QED
    BY <1>5, <2>1, <2>2 DEF StartInstance
<1>6. ASSUME NEW s \in Scripts, StopOrLeave(s)
      PROVE  OwnInst'
  <2>1. CASE mine[s]
    <3>1. /\ Stop(name[s]) /\ UNCHANGED <<mine, name>>
          /\ pc' = [pc EXCEPT ![s] = "count"]
      BY <1>6, <2>1 DEF StopOrLeave, Goes
    <3>2. /\ stopped \subseteq stopped'
          /\ \A t \in Scripts \ stopped' :
               inst[name[t]] = t => inst'[name[t]] = t
      BY <1>a, <1>c, <3>1
    <3> QED
      BY <1>a, <3>1, <3>2
  <2>2. CASE ~mine[s]
    BY <1>a, <1>6, <2>2 DEF StopOrLeave, Goes
  <2> QED
    BY <2>1, <2>2
<1>7. ASSUME NEW s \in Scripts, Main(s)
      PROVE  OwnInst'
  <2> USE DEF Goes
  <2>1. CASE FindPort(s)
    BY <1>2, <2>1 DEF FindPort
  <2>2. CASE AttachGdbserver(s)
    BY <1>2, <2>2 DEF AttachGdbserver, ServerReplaced, ServerKept, ReplyChecked
  <2>3. CASE LaunchGdb(s)
    BY <1>2, <2>3 DEF LaunchGdb
  <2>4. CASE GdbExited(s)
    BY <1>2, <2>4 DEF GdbExited
  <2>5. CASE SendDetach(s)
    BY <1>2, <2>5 DEF SendDetach
  <2>6. CASE SendQuit(s)
    BY <1>2, <2>6 DEF SendQuit
  <2>7. CASE Reap(s)
    BY <1>2, <2>7 DEF Reap
  <2>8. CASE Terminate(s)
    BY <1>2, <2>8 DEF Terminate
  <2>9. CASE CountEvents(s)
    BY <1>2, <2>9 DEF CountEvents
  <2> HIDE DEF OwnInst
  <2> QED
    BY <1>4, <1>5, <1>6, <1>7, <2>1, <2>2, <2>3, <2>4, <2>5, <2>6, <2>7, <2>8,
       <2>9 DEF Main
<1>8. ASSUME NEW s \in Scripts, Gdb(s) \/ GdbInterrupted(s)
      PROVE  UNCHANGED <<name, mine, inst, pc, stopped>>
  BY <1>8 DEF Gdb, GdbConnects, GdbContinues, SkipCall, LogCall, GdbQuits,
              GdbInterrupted
<1>9. ASSUME NEW s \in Scripts, DurationOver(s)
      PROVE  OwnInst'
  BY <1>2, <1>9 DEF DurationOver, Goes
<1>10. ASSUME NEW n \in Names, SystemCall(n)
       PROVE  UNCHANGED <<name, mine, inst, pc, stopped>>
  BY <1>10 DEF SystemCall
<1>11. ASSUME NEW n \in Names, UserStarts(n)
       PROVE  OwnInst'
  BY <1>a, <1>b, <1>11 DEF UserStarts, IsUp
<1>12. ASSUME NEW n \in Names, UserStops(n)
       PROVE  OwnInst'
  <2>1. Stop(n) /\ UNCHANGED <<mine, name, pc>>
    BY <1>12 DEF UserStops
  <2>2. /\ stopped \subseteq stopped'
        /\ \A t \in Scripts \ stopped' :
             inst[name[t]] = t => inst'[name[t]] = t
    BY <1>c, <2>1
  <2> QED
    BY <1>a, <2>1, <2>2
<1> HIDE DEF OwnInst
<1> QED
  BY <1>1, <1>3, <1>7, <1>8, <1>9, <1>10, <1>11, <1>12, GdbCaptureAssumption
     DEF Next

\* What a script removes is the instance it has started, unless somebody has
\* stopped that before, however many runs and users come and go under the
\* name (run_capture.py, stop_and_remove()).
THEOREM OwnInstanceRemoved == Spec => OwnInstanceOnly
<1>1. Spec => []OwnInst
  <2>1. PlacedInv /\ OwnInst /\ [Next]_vars => OwnInst'
    BY NextOwnInst DEF OwnInstInv
  <2> QED
    BY <2>1, InitOwnInst, AlwaysPlaced, PTL DEF Spec
<1>2. OwnInst =>
        \A s \in Scripts :
          StopOrLeave(s) /\ mine[s] /\ s \notin stopped => inst[name[s]] = s
  BY DEF OwnInst, Keeping, StopOrLeave, Goes
<1> QED
  BY <1>1, <1>2, PTL DEF OwnInstanceOnly, Spec

-----------------------------------------------------------------------------
(***************************************************************************)
(* Whose guest gdb is on.                                                  *)
(***************************************************************************)
\* The facts about types that the steps need.
LEMMA Typed ==
  ASSUME PlacedInv
  PROVE  /\ name \in [Scripts -> Names]
         /\ pc \in [Scripts -> Running \cup Ended]
         /\ port \in [Scripts -> Ports \cup {NoPort}]
         /\ stub \in [Names -> Ports \cup {NoPort}]
         /\ gdb \in [Scripts -> Gdbs]
         /\ session \in [Scripts -> Names \cup {NoOne}]
         /\ guest \in [Names -> {"running", "hit", "halted"}]
         /\ armed \in [Names -> BOOLEAN]
         /\ NoOne \notin Names /\ Ports \subseteq Nat \ {NoPort}
BY GdbCaptureAssumption
   DEF PlacedInv, GdbTypeOK, Running, Before, Ended, Gdbs, Attached

LEMMA InitOwnGuest ==
  ASSUME Init
  PROVE  OwnStub /\ GdbOnOwnGuest
BY DEF Init, OwnStub, GdbOnOwnGuest, Launching

LEMMA NextOwnGuest ==
  ASSUME OwnGuestInv, [Next]_vars
  PROVE  OwnStub' /\ GdbOnOwnGuest'
<1>a. PlacedInv /\ OwnStub /\ GdbOnOwnGuest
  BY DEF OwnGuestInv
<1>b. /\ name \in [Scripts -> Names] /\ pc \in [Scripts -> Running \cup Ended]
      /\ port \in [Scripts -> Ports \cup {NoPort}]
      /\ stub \in [Names -> Ports \cup {NoPort}] /\ gdb \in [Scripts -> Gdbs]
      /\ session \in [Scripts -> Names \cup {NoOne}]
  BY <1>a, Typed
<1>c. name' = name
  BY DEF Next, Main, CheckRunning, StartInstance, FindPort, AttachGdbserver,
         LaunchGdb, GdbExited, SendDetach, SendQuit, Reap, Terminate,
         StopOrLeave, CountEvents, Gdb, GdbConnects, GdbContinues, SkipCall,
         LogCall, GdbQuits, GdbInterrupted, DurationOver, SystemCall,
         UserStarts, UserStops, vars, given
<1> USE DEF scriptVars, qemuVars, gdbVars, given
\* Most steps leave the stubs alone, start no capture and at most take a gdb
\* off a guest.
<1>2. ASSUME UNCHANGED <<port, stub, found>>,
             \A t \in Scripts : /\ pc'[t] = "launch" \/ gdb'[t] = "starting"
                                     => Launching(t)
                                /\ session'[t] \in {session[t], NoOne}
      PROVE  OwnStub' /\ GdbOnOwnGuest'
  BY <1>a, <1>c, <1>2 DEF OwnStub, GdbOnOwnGuest, OnlyRun, Launching
<1>3. CASE UNCHANGED vars
  BY <1>2, <1>3 DEF vars, Launching
<1>4. ASSUME NEW s \in Scripts, FindPort(s)
      PROVE  OwnStub' /\ GdbOnOwnGuest'
  <2>1. /\ pc[s] = "probe" /\ pc'[s] # "launch"
        /\ UNCHANGED <<gdb, session, stub>>
        /\ \A t \in Scripts \ {s} : pc'[t] = pc[t] /\ port'[t] = port[t]
    BY <1>b, <1>4 DEF FindPort, Goes
  <2>2. gdb[s] = "none" /\ session[s] = NoOne
    BY <1>a, <2>1 DEF PlacedInv, Places, PlaceOf, Before, Attached
  <2>3. found' \subseteq found \cup {s}
    BY <1>4 DEF FindPort
  <2> QED
    BY <1>a, <1>c, <2>1, <2>2, <2>3 DEF OwnStub, GdbOnOwnGuest, OnlyRun, Launching
<1>5. ASSUME NEW s \in Scripts, AttachGdbserver(s)
      PROVE  OwnStub' /\ GdbOnOwnGuest'
  <2>1. /\ UNCHANGED <<port, found>> /\ pc[s] = "serve"
        /\ \A t \in Scripts \ {s} : pc'[t] = pc[t]
        /\ \A n \in Names \ {name[s]} : stub'[n] = stub[n]
        /\ pc'[s] = "launch" => stub'[name[s]] = port[s]
    BY <1>b, <1>5
       DEF AttachGdbserver, ServerReplaced, ServerKept, ReplyChecked, Goes
  <2>2. \A t \in Scripts : /\ gdb'[t] \in {gdb[t], "prompt"}
                           /\ session'[t] \in {session[t], NoOne}
    BY <1>b, <1>5 DEF AttachGdbserver, ServerReplaced, ServerKept, DropClient
  <2>3. gdb[s] = "none"
    BY <1>a, <2>1 DEF PlacedInv, Places, PlaceOf, Before
  <2>4. OwnStub'
    BY <1>a, <1>b, <1>c, <2>1, <2>2, <2>3 DEF OwnStub, OnlyRun, Launching
  <2>5. GdbOnOwnGuest'
    BY <1>a, <1>c, <2>1, <2>2 DEF GdbOnOwnGuest, OnlyRun
  <2> QED
    BY <2>4, <2>5
\* An instance that is stopped is not one that is captured any more.
<1>6. ASSUME NEW m \in Names, Stop(m), port' = port,
             \A t \in Scripts : pc'[t] = "launch" => pc[t] = "launch"
      PROVE  OwnStub' /\ GdbOnOwnGuest'
  <2>1. /\ \A n \in Names \ {m} : stub'[n] = stub[n]
        /\ found' = {t \in found : name[t] # m} /\ DropClient(m)
    BY <1>b, <1>6 DEF Stop
  <2>2. \A t \in Scripts : /\ gdb'[t] \in {gdb[t], "prompt"}
                           /\ session'[t] \in {session[t], NoOne}
    BY <1>b, <2>1 DEF DropClient
  <2>3. OwnStub'
    BY <1>a, <1>b, <1>c, <1>6, <2>1, <2>2 DEF OwnStub, OnlyRun, Launching
  <2>4. GdbOnOwnGuest'
    BY <1>a, <1>c, <2>1, <2>2 DEF GdbOnOwnGuest, OnlyRun
  <2> QED
    BY <2>3, <2>4
\* The stub gdb finds on its port is that of the guest it has been asked for:
\* no two have one port.
<1>7. ASSUME NEW s \in Scripts, GdbConnects(s)
      PROVE  OwnStub' /\ GdbOnOwnGuest'
  <2>1. /\ gdb[s] = "starting" /\ UNCHANGED <<port, stub, pc, found>>
        /\ gdb'[s] # "starting" /\ \A t \in Scripts \ {s} : gdb'[t] = gdb[t]
    BY <1>b, <1>7 DEF GdbConnects
  <2>2. OwnStub'
    BY <1>a, <1>c, <2>1
       DEF OwnStub, OnlyRun, Launching, PlacedInv, Places, PlaceOf
  <2>3. CASE UNCHANGED session
    BY <1>a, <1>c, <2>1, <2>2, <2>3 DEF GdbOnOwnGuest, OnlyRun
  <2>4. ASSUME NEW n \in Names, stub[n] = port[s],
               session' = [session EXCEPT ![s] = n]
        PROVE  GdbOnOwnGuest'
    <3>1. port[s] \in Ports
      BY <1>a, <2>1 DEF PlacedInv, Places, PlaceOf
    <3>2. OnlyRun(s) /\ s \in found => stub[name[s]] = port[s]
      BY <1>a, <2>1 DEF OwnStub, Launching
    <3>3. OnlyRun(s) /\ s \in found => n = name[s]
      BY <1>a, <1>b, <2>4, <3>1, <3>2, GdbCaptureAssumption
         DEF PlacedInv, GdbTypeOK
    <3> QED
      BY <1>a, <1>b, <1>c, <2>1, <2>4, <3>3 DEF GdbOnOwnGuest, OnlyRun
  <2> QED
    BY <1>7, <2>2, <2>3, <2>4 DEF GdbConnects
<1>8. ASSUME NEW s \in Scripts, Main(s)
      PROVE  OwnStub' /\ GdbOnOwnGuest'
  <2> USE DEF Goes, Launching
  <2>1. CASE CheckRunning(s)
    BY <1>b, <1>2, <2>1 DEF CheckRunning
  <2>2. CASE StartInstance(s)
    BY <1>b, <1>2, <2>2 DEF StartInstance, WhenRefused
  <2>3. CASE LaunchGdb(s)
    BY <1>b, <1>2, <2>3 DEF LaunchGdb
  <2>4. CASE GdbExited(s) \/ SendQuit(s) \/ Reap(s) \/ CountEvents(s)
    BY <1>b, <1>2, <2>4 DEF GdbExited, SendQuit, Reap, CountEvents
  <2>5. CASE SendDetach(s)
    BY <1>b, <1>2, <2>5 DEF SendDetach, Detach, Release
  <2>6. CASE Terminate(s)
    BY <1>b, <1>2, <2>6 DEF Terminate
  <2>7. CASE StopOrLeave(s)
    <3>1. CASE mine[s]
      <4>1. /\ name[s] \in Names /\ Stop(name[s]) /\ port' = port
            /\ \A t \in Scripts : pc'[t] = "launch" => pc[t] = "launch"
        BY <1>b, <2>7, <3>1 DEF StopOrLeave
      <4> QED
        BY <1>6, <4>1
    <3>2. CASE ~mine[s]
      BY <1>b, <1>2, <2>7, <3>2 DEF StopOrLeave
    <3> QED
      BY <3>1, <3>2
  <2> QED
    BY <1>4, <1>5, <1>8, <2>1, <2>2, <2>3, <2>4, <2>5, <2>6, <2>7 DEF Main
<1>9. ASSUME NEW s \in Scripts, Gdb(s) \/ GdbInterrupted(s) \/ DurationOver(s)
      PROVE  OwnStub' /\ GdbOnOwnGuest'
  <2> USE DEF Goes, Launching
  <2>1. CASE GdbContinues(s) \/ SkipCall(s) \/ GdbInterrupted(s)
    BY <1>b, <1>2, <2>1
       DEF GdbContinues, SkipCall, AutoContinue, GdbInterrupted
  <2>2. CASE LogCall(s)
    BY <1>b, <1>2, <2>2 DEF LogCall, AutoContinue, Release
  <2>3. CASE GdbQuits(s)
    BY <1>b, <1>2, <2>3 DEF GdbQuits, Release
  <2>4. CASE DurationOver(s)
    BY <1>b, <1>2, <2>4 DEF DurationOver
  <2> QED
    BY <1>7, <1>9, <2>1, <2>2, <2>3, <2>4 DEF Gdb
<1>10. ASSUME NEW n \in Names, SystemCall(n)
       PROVE  OwnStub' /\ GdbOnOwnGuest'
  BY <1>2, <1>10 DEF SystemCall, Launching
<1>11. ASSUME NEW n \in Names, UserStarts(n)
       PROVE  OwnStub' /\ GdbOnOwnGuest'
  BY <1>2, <1>11 DEF UserStarts, Launching
<1>12. ASSUME NEW n \in Names, UserStops(n)
       PROVE  OwnStub' /\ GdbOnOwnGuest'
  BY <1>6, <1>12 DEF UserStops
<1> QED
  BY <1>3, <1>8, <1>9, <1>10, <1>11, <1>12, GdbCaptureAssumption DEF Next

\* Of several runs at once none puts its gdb on a guest other than its own,
\* if no other run is for the same instance, as long as that is up: the window
\* between find_free_port() and the `gdbserver' command ends with an error,
\* never with somebody else's guest.
THEOREM OnOwnGuest == Spec => []GdbOnOwnGuest
<1>1. PlacedInv /\ OwnStub /\ GdbOnOwnGuest /\ [Next]_vars
        => OwnStub' /\ GdbOnOwnGuest'
  BY NextOwnGuest DEF OwnGuestInv
<1> QED
  BY <1>1, InitOwnGuest, AlwaysPlaced, PTL DEF Spec

-----------------------------------------------------------------------------
(***************************************************************************)
(* Nobody leaves a guest standing still, or the int3 in it.                *)
(***************************************************************************)
LEMMA InitMinded ==
  ASSUME Init
  PROVE  Minded
BY DEF Init, Minded, Caught

LEMMA NextMinded ==
  ASSUME MindedInv, [Next]_vars
  PROVE  Minded'
<1>a. PlacedInv /\ Minded
  BY DEF MindedInv
<1>b. /\ name \in [Scripts -> Names] /\ pc \in [Scripts -> Running \cup Ended]
      /\ port \in [Scripts -> Ports \cup {NoPort}]
      /\ stub \in [Names -> Ports \cup {NoPort}] /\ gdb \in [Scripts -> Gdbs]
      /\ session \in [Scripts -> Names \cup {NoOne}]
      /\ guest \in [Names -> {"running", "hit", "halted"}]
      /\ armed \in [Names -> BOOLEAN] /\ NoOne \notin Names
  BY <1>a, Typed
<1>c. UNCHANGED <<name, hangs>>
  BY DEF Next, Main, CheckRunning, StartInstance, FindPort, AttachGdbserver,
         LaunchGdb, GdbExited, SendDetach, SendQuit, Reap, Terminate,
         StopOrLeave, CountEvents, Gdb, GdbConnects, GdbContinues, SkipCall,
         LogCall, GdbQuits, GdbInterrupted, DurationOver, SystemCall,
         UserStarts, UserStops, vars, given
<1> SUFFICES ASSUME hangs = {}, NEW n \in Names, n \notin late',
                    guest'[n] # "running" \/ armed'[n]
             PROVE  \E t \in Scripts :
                      \/ session'[t] = n
                      \/ /\ name[t] = n /\ stub'[n] = port'[t]
                         /\ pc'[t] = "launch" \/ gdb'[t] = "starting"
  BY <1>c DEF Minded, Caught, Minders, Launching
<1> DEFINE Seen == \E t \in Scripts :
                     \/ session'[t] = n
                     \/ /\ name[t] = n /\ stub'[n] = port'[t]
                        /\ pc'[t] = "launch" \/ gdb'[t] = "starting"
\* Who minds n before the step, if it is caught then.
<1>d. ASSUME guest[n] # "running" \/ armed[n], n \notin late
      PROVE  \E t \in Scripts :
               \/ session[t] = n
               \/ name[t] = n /\ stub[n] = port[t] /\ Launching(t)
  BY <1>a, <1>d DEF Minded, Caught, Minders
<1> USE DEF scriptVars, qemuVars, gdbVars, given
\* Most steps leave the guests and the gdbs on them alone, and no capture
\* that is starting falters.
<1>1. ASSUME UNCHANGED <<guest, armed, session, stub, late>>,
             \A t \in Scripts : Launching(t) =>
               /\ pc'[t] = "launch" \/ gdb'[t] = "starting"
               /\ port'[t] = port[t]
      PROVE  Seen
  BY <1>d, <1>1
\* A gdb handles its own guest, and stays on it or leaves it running.
<1>2. ASSUME NEW s \in Scripts, UNCHANGED <<port, stub, late>>,
             \A t \in Scripts : Launching(t) =>
               pc'[t] = "launch" \/ gdb'[t] = "starting",
             \/ UNCHANGED session
             \/ /\ session' = [session EXCEPT ![s] = NoOne]
                /\ session[s] = n => guest'[n] = "running" /\ ~armed'[n],
             session[s] # n => guest'[n] = guest[n] /\ armed'[n] = armed[n]
      PROVE  Seen
  <2>1. CASE session[s] = n
    BY <1>b, <1>2, <2>1
  <2>2. CASE session[s] # n
    <3>1. PICK t \in Scripts :
               \/ session[t] = n
               \/ name[t] = n /\ stub[n] = port[t] /\ Launching(t)
      BY <1>d, <1>2, <2>2
    <3>2. session[t] = n => session'[t] = n
      BY <1>b, <1>2, <2>2
    <3> QED
      BY <1>2, <3>1, <3>2
  <2> QED
    BY <2>1, <2>2
<1>3. CASE UNCHANGED vars
  BY <1>1, <1>3 DEF vars, Launching
<1>4. ASSUME NEW s \in Scripts, FindPort(s)
      PROVE  Seen
  <2>1. /\ pc[s] = "probe" /\ UNCHANGED <<gdb, session, stub, guest, armed, late>>
        /\ \A t \in Scripts \ {s} : pc'[t] = pc[t] /\ port'[t] = port[t]
    BY <1>b, <1>4 DEF FindPort, Goes
  <2>2. gdb[s] = "none"
    BY <1>a, <2>1 DEF PlacedInv, Places, PlaceOf, Before
  <2> QED
    BY <1>1, <2>1, <2>2 DEF Launching
\* The clients of the stub that is replaced are off the guest, but then this
\* run minds it.
<1>5. ASSUME NEW s \in Scripts, AttachGdbserver(s)
      PROVE  Seen
  <2>1. CASE ServerKept(s)
    BY <1>b, <1>1, <1>5, <2>1
       DEF AttachGdbserver, ServerKept, Goes, Launching
  <2>2. CASE ServerReplaced(s)
    <3>1. /\ UNCHANGED <<guest, armed, port>>
          /\ pc[s] = "serve" /\ \A t \in Scripts \ {s} : pc'[t] = pc[t]
      BY <1>b, <1>5, <2>2 DEF AttachGdbserver, ServerReplaced, Goes
    <3>a. /\ stub' = [stub EXCEPT ![name[s]] = port[s]]
          /\ DropClient(name[s])
          /\ \/ pc'[s] = "launch" /\ late' = late \ {name[s]}
             \/ late' = late \cup {name[s]}
      BY <1>b, <2>2 DEF ServerReplaced, Goes
    <3>2. CASE n = name[s]
      BY <1>b, <3>a, <3>1, <3>2
    <3>3. CASE n # name[s]
      <4>1. PICK t \in Scripts :
                 \/ session[t] = n
                 \/ name[t] = n /\ stub[n] = port[t] /\ Launching(t)
        BY <1>d, <3>a, <3>1, <3>3
      <4>2. stub'[n] = stub[n]
        BY <1>b, <3>a, <3>3
      <4>3. session[t] = n => session'[t] = n
        BY <1>b, <3>a, <3>3 DEF DropClient
      <4>4. gdb[t] = "starting" => gdb'[t] = "starting"
        <5>1. gdb[t] = "starting" => session[t] = NoOne
          BY <1>a DEF PlacedInv, Places, PlaceOf, Attached
        <5> QED
          BY <1>b, <3>a, <5>1 DEF DropClient
      <4>5. pc[t] = "launch" => pc'[t] = "launch"
        BY <3>1
      <4> QED
        BY <3>1, <4>1, <4>2, <4>3, <4>4, <4>5 DEF Launching
    <3> QED
      BY <3>2, <3>3
  <2> QED
    BY <1>5, <2>1, <2>2 DEF AttachGdbserver
\* An instance that is stopped is minded by nobody, nor need it be.
<1>6. ASSUME NEW m \in Names, Stop(m), port' = port,
             \A t \in Scripts : pc[t] = "launch" => pc'[t] = "launch"
      PROVE  Seen
  <2>1. n # m
    BY <1>b, <1>6 DEF Stop
  <2>2. /\ guest'[n] = guest[n] /\ armed'[n] = armed[n] /\ stub'[n] = stub[n]
        /\ n \notin late
    BY <1>b, <1>6, <2>1 DEF Stop
  <2>3. PICK t \in Scripts :
             \/ session[t] = n
             \/ name[t] = n /\ stub[n] = port[t] /\ Launching(t)
    BY <1>d, <2>2
  <2>4. session[t] = n => session'[t] = n
    BY <1>b, <1>6, <2>1 DEF Stop, DropClient
  <2>5. gdb[t] = "starting" => gdb'[t] = "starting"
    <3>1. gdb[t] = "starting" => session[t] = NoOne
      BY <1>a DEF PlacedInv, Places, PlaceOf, Attached
    <3> QED
      BY <1>b, <1>6, <3>1 DEF Stop, DropClient
  <2> QED
    BY <1>6, <2>2, <2>3, <2>4, <2>5 DEF Launching
\* gdb connects to the stub on its port, which no other guest has; or the
\* one there has a client already.
<1>7. ASSUME NEW s \in Scripts, GdbConnects(s)
      PROVE  Seen
  <2>1. /\ gdb[s] = "starting" /\ UNCHANGED <<port, stub, pc, late>>
        /\ n \notin late /\ \A t \in Scripts \ {s} : gdb'[t] = gdb[t]
    BY <1>b, <1>7 DEF GdbConnects
  <2>2. session[s] = NoOne /\ port[s] \in Ports /\ pc[s] # "launch"
    BY <1>a, <2>1 DEF PlacedInv, Places, PlaceOf, Attached
  <2>3. ASSUME NEW m \in Names, stub[m] = port[s],
               session' = [session EXCEPT ![s] = m],
               guest' = [guest EXCEPT ![m] = "halted"],
               armed' = [armed EXCEPT ![m] = FALSE]
        PROVE  Seen
    <3>1. CASE m = n
      BY <1>b, <2>3, <3>1
    <3>2. CASE m # n
      <4>1. PICK t \in Scripts :
                 \/ session[t] = n
                 \/ name[t] = n /\ stub[n] = port[t] /\ Launching(t)
        BY <1>b, <1>d, <2>1, <2>3, <3>2
      <4>2. stub[n] # stub[m]
        BY <1>a, <2>2, <2>3, <3>2, GdbCaptureAssumption
           DEF PlacedInv, GdbTypeOK
      <4>3. t # s
        BY <1>b, <2>2, <2>3, <4>1, <4>2
      <4> QED
        BY <1>b, <2>1, <2>3, <4>1, <4>3 DEF Launching
    <3> QED
      BY <3>1, <3>2
  <2>4. ASSUME \A m \in Names : stub[m] = port[s] =>
                                  \E t \in Scripts : session[t] = m,
               UNCHANGED <<session, guest, armed>>
        PROVE  Seen
    <3>1. PICK t \in Scripts :
               \/ session[t] = n
               \/ name[t] = n /\ stub[n] = port[t] /\ Launching(t)
      BY <1>d, <2>1, <2>4
    <3>2. CASE t = s
      BY <2>4, <3>1, <3>2
    <3>3. CASE t # s
      BY <2>1, <2>4, <3>1, <3>3 DEF Launching
    <3> QED
      BY <3>2, <3>3
  <2> QED
    BY <1>7, <2>3, <2>4 DEF GdbConnects
<1>8. ASSUME NEW s \in Scripts, Main(s)
      PROVE  Seen
  <2> USE DEF Goes
  <2>1. CASE CheckRunning(s)
    BY <1>b, <1>1, <2>1 DEF CheckRunning, Launching
  <2>2. CASE StartInstance(s)
    BY <1>b, <1>1, <2>2 DEF StartInstance, WhenRefused, Launching
  <2>3. CASE LaunchGdb(s)
    BY <1>b, <1>1, <2>3 DEF LaunchGdb, Launching
  <2>4. CASE GdbExited(s) \/ SendQuit(s) \/ Reap(s) \/ CountEvents(s)
    BY <1>b, <1>1, <2>4
       DEF GdbExited, SendQuit, Reap, CountEvents, Launching
  <2>5. CASE SendDetach(s)
    <3>1. /\ UNCHANGED <<port, stub, gdb, late>> /\ pc[s] = "detach"
          /\ \A t \in Scripts \ {s} : pc'[t] = pc[t]
      BY <1>b, <2>5 DEF SendDetach
    <3>2. \A t \in Scripts : Launching(t) =>
            pc'[t] = "launch" \/ gdb'[t] = "starting"
      BY <3>1 DEF Launching
    <3>3. CASE UNCHANGED <<armed, guest, session>>
      BY <1>2, <3>1, <3>2, <3>3
    <3>4. CASE Release(s)
      BY <1>b, <1>2, <3>1, <3>2, <3>4 DEF Release
    <3> QED
      BY <2>5, <3>3, <3>4 DEF SendDetach, Detach
  <2>6. ~Terminate(s)
    BY DEF Terminate, TimesOut
  <2>7. CASE StopOrLeave(s)
    <3>1. CASE mine[s]
      <4>1. /\ name[s] \in Names /\ Stop(name[s]) /\ port' = port
            /\ \A t \in Scripts : pc[t] = "launch" => pc'[t] = "launch"
        BY <1>b, <2>7, <3>1 DEF StopOrLeave
      <4> QED
        BY <1>6, <4>1
    <3>2. CASE ~mine[s]
      BY <1>b, <1>1, <2>7, <3>2 DEF StopOrLeave, Launching
    <3> QED
      BY <3>1, <3>2
  <2> QED
    BY <1>4, <1>5, <1>8, <2>1, <2>2, <2>3, <2>4, <2>5, <2>6, <2>7 DEF Main
<1>9. ASSUME NEW s \in Scripts, Gdb(s) \/ GdbInterrupted(s)
      PROVE  Seen
  <2>1. CASE GdbContinues(s)
    BY <1>b, <1>2, <2>1 DEF GdbContinues, Launching
  <2>2. CASE SkipCall(s)
    BY <1>b, <1>2, <2>2 DEF SkipCall, AutoContinue, Launching
  <2>3. CASE LogCall(s)
    <3>1. CASE Enough(s)
      <4>1. /\ Release(s) /\ gdb' = [gdb EXCEPT ![s] = "exited"]
            /\ gdb[s] = "running" /\ UNCHANGED <<pc, port, stub, late>>
        BY <2>3, <3>1 DEF LogCall, Stopped
      <4>2. \A t \in Scripts : Launching(t) =>
              pc'[t] = "launch" \/ gdb'[t] = "starting"
        BY <1>b, <4>1 DEF Launching
      <4> QED
        BY <1>b, <1>2, <4>1, <4>2 DEF Release
    <3>2. CASE ~Enough(s)
      BY <1>b, <1>2, <2>3, <3>2 DEF LogCall, Stopped, AutoContinue, Launching
    <3> QED
      BY <3>1, <3>2
  <2>4. CASE GdbInterrupted(s)
    BY <1>b, <1>2, <2>4 DEF GdbInterrupted, Launching
  <2>5. CASE GdbQuits(s)
    BY <1>b, <1>2, <2>5 DEF GdbQuits, Release, Launching
  <2> QED
    BY <1>7, <1>9, <2>1, <2>2, <2>3, <2>4, <2>5 DEF Gdb
<1>10. ASSUME NEW s \in Scripts, DurationOver(s)
       PROVE  Seen
  BY <1>b, <1>1, <1>10 DEF DurationOver, Goes, Launching
<1>11. ASSUME NEW m \in Names, SystemCall(m)
       PROVE  Seen
  <2>1. (guest[n] # "running" \/ armed[n]) /\ n \notin late
    BY <1>b, <1>11 DEF SystemCall
  <2> QED
    BY <1>d, <1>11, <2>1 DEF SystemCall, Launching
<1>12. ASSUME NEW m \in Names, UserStarts(m)
       PROVE  Seen
  BY <1>1, <1>12 DEF UserStarts, Launching
<1>13. ASSUME NEW m \in Names, UserStops(m)
       PROVE  Seen
  BY <1>6, <1>13 DEF UserStops
<1> QED
  BY <1>3, <1>8, <1>9, <1>10, <1>11, <1>12, <1>13, GdbCaptureAssumption DEF Next

\* When the runs on an instance are over, the guest runs and the int3 is out
\* of it: every path of stop_gdb_capture() that does not end in terminate(),
\* and every gdb that ends by itself, releases its guest; and a gdb that lost
\* its guest to another run's has that run's to see to it, unless that run has
\* raised at the reply to its `gdbserver'.
THEOREM AllReleased == Spec => []GuestReleased
<1>1. PlacedInv /\ Minded /\ [Next]_vars => Minded'
  BY NextMinded DEF MindedInv
<1>2. PlacedInv /\ Minded => GuestReleased
  <2> SUFFICES ASSUME PlacedInv, Minded, hangs = {}, NEW n \in Names \ late,
                      \A s \in Scripts :
                        name[s] = n \/ session[s] = n => pc[s] \in Ended
               PROVE  guest[n] = "running" /\ ~armed[n]
    BY DEF GuestReleased
  <2>1. Minders(n) = {}
    <3> SUFFICES ASSUME NEW s \in Minders(n)
                 PROVE  FALSE
      OBVIOUS
    <3>1. s \in Scripts /\ pc[s] \in {"done", "failed"}
      BY DEF Minders, Ended
    <3>2. gdb[s] \in {"none", "exited"} /\ session[s] = NoOne
      BY <3>1 DEF PlacedInv, GdbTypeOK, Places, PlaceOf, Attached
    <3> QED
      BY <3>1, <3>2, GdbCaptureAssumption DEF Minders, Launching
  <2> QED
    BY <2>1 DEF Minded, Caught
<1> QED
  BY <1>1, <1>2, InitMinded, AlwaysPlaced, PTL DEF Spec

-----------------------------------------------------------------------------
(***************************************************************************)
(* --max-events.                                                           *)
(***************************************************************************)
\* A gdb has room for another event until it has exited, for good.
RoomLeft ==
  \A s \in Scripts : IF gdb[s] = "exited" THEN OwnLines(s) <= MaxEvents
                                           ELSE OwnLines(s) < MaxEvents

LEMMA OwnLinesAppended ==
  ASSUME log \in Seq(Scripts), NEW s \in Scripts, log' = Append(log, s)
  PROVE  /\ OwnLines(s)' = OwnLines(s) + 1
         /\ \A t \in Scripts \ {s} : OwnLines(t)' = OwnLines(t)
<1> DEFINE Lines(l, t) == {i \in 1..Len(l) : l[i] = t}
<1>1. /\ Len(log) \in Nat /\ Len(log') = Len(log) + 1 /\ log'[Len(log) + 1] = s
      /\ \A i \in 1..Len(log) : log'[i] = log[i]
  OBVIOUS
<1>2. Lines(log', s) = Lines(log, s) \cup {Len(log) + 1}
  BY <1>1
<1>3. \A t \in Scripts \ {s} : Lines(log', t) = Lines(log, t)
  BY <1>1
<1>4. Len(log) + 1 \notin Lines(log, s) /\ IsFiniteSet(Lines(log, s))
  <2>1. IsFiniteSet(1..Len(log)) /\ Lines(log, s) \subseteq 1..Len(log)
    BY <1>1, FS_Interval
  <2> QED
    BY <1>1, <2>1, FS_Subset
<1>5. Cardinality(Lines(log', s)) = Cardinality(Lines(log, s)) + 1
  BY <1>2, <1>4, FS_AddElement
<1> QED
  BY <1>3, <1>5 DEF OwnLines

LEMMA OwnLinesNumber ==
  ASSUME log \in Seq(Scripts)
  PROVE  \A s \in Scripts : OwnLines(s) \in Nat
<1> TAKE s \in Scripts
<1> DEFINE Lines == {i \in 1..Len(log) : log[i] = s}
<1>1. IsFiniteSet(1..Len(log)) /\ Lines \subseteq 1..Len(log)
  BY FS_Interval
<1>2. IsFiniteSet(Lines)
  BY <1>1, FS_Subset
<1>3. Cardinality(Lines) \in Nat
  BY <1>2, FS_CardinalityType
<1> QED
  BY <1>3 DEF OwnLines

LEMMA OwnLinesKept ==
  ASSUME UNCHANGED log
  PROVE  \A s : OwnLines(s)' = OwnLines(s)
BY DEF OwnLines

LEMMA NextRoomLeft ==
  ASSUME MaxEvents # 0, PlacedInv, RoomLeft, [Next]_vars
  PROVE  RoomLeft'
<1>1. /\ MaxEvents \in Nat /\ log \in Seq(Scripts) /\ gdb \in [Scripts -> Gdbs]
      /\ \A t \in Scripts : OwnLines(t) \in Nat
  BY GdbCaptureAssumption, OwnLinesNumber
     DEF PlacedInv, GdbTypeOK, Gdbs, Attached
<1>2. ASSUME UNCHANGED log,
             \A t \in Scripts : gdb[t] = "exited" => gdb'[t] = "exited"
      PROVE  RoomLeft'
  <2>1. \A t \in Scripts : OwnLines(t)' = OwnLines(t)
    BY <1>2, OwnLinesKept
  <2> QED
    BY <1>1, <1>2, <2>1 DEF RoomLeft
<1>3. ASSUME NEW s \in Scripts, LogCall(s)
      PROVE  RoomLeft'
  <2>1. gdb[s] = "running" /\ log' = Append(log, s)
    BY <1>3 DEF LogCall, Stopped
  <2>2. /\ OwnLines(s)' = OwnLines(s) + 1
        /\ \A t \in Scripts \ {s} : OwnLines(t)' = OwnLines(t)
    BY <1>1, <2>1, OwnLinesAppended
  <2>3. OwnLines(s) < MaxEvents
    BY <2>1 DEF RoomLeft
  <2>4. IF OwnLines(s) + 1 >= MaxEvents
          THEN gdb' = [gdb EXCEPT ![s] = "exited"]
          ELSE gdb' = gdb
    BY <1>3 DEF LogCall, Enough, AutoContinue
  <2>5. /\ gdb'[s] # "exited" => OwnLines(s) + 1 < MaxEvents
        /\ \A t \in Scripts \ {s} : gdb'[t] = gdb[t]
    BY <1>1, <2>4
  <2> QED
    BY <1>1, <2>2, <2>3, <2>5 DEF RoomLeft
<1>4. ASSUME UNCHANGED <<log, gdb>>
      PROVE  RoomLeft'
  BY <1>2, <1>4
<1>5. ASSUME NEW n \in Names, DropClient(n), UNCHANGED log
      PROVE  RoomLeft'
  <2>1. \A t \in Scripts : session[t] = n => gdb[t] # "exited"
    BY GdbCaptureAssumption DEF PlacedInv, Places, PlaceOf, Attached
  <2>2. \A t \in Scripts : gdb[t] = "exited" => gdb'[t] = "exited"
    BY <1>5, <2>1 DEF DropClient
  <2> QED
    BY <1>2, <1>5, <2>2
<1>6. ASSUME NEW s \in Scripts, NEW state, gdb[s] # "exited" \/ state = "exited",
             gdb' = [gdb EXCEPT ![s] = state], UNCHANGED log
      PROVE  RoomLeft'
  <2>1. \A t \in Scripts : gdb[t] = "exited" => gdb'[t] = "exited"
    BY <1>1, <1>6
  <2> QED
    BY <1>2, <1>6, <2>1
<1>7. ASSUME NEW s \in Scripts, Main(s)
      PROVE  RoomLeft'
  <2>1. CASE AttachGdbserver(s)
    <3>1. name[s] \in Names
      BY DEF PlacedInv, GdbTypeOK
    <3> QED
      BY <1>4, <1>5, <2>1, <3>1 DEF AttachGdbserver, ServerReplaced, ServerKept
  <2>2. CASE LaunchGdb(s)
    <3>1. gdb[s] = "none" /\ gdb' = [gdb EXCEPT ![s] = "starting"] /\ log' = log
      BY <2>2 DEF LaunchGdb, Goes, PlacedInv, Places, PlaceOf, Before
    <3> QED
      BY <1>6, <3>1
  <2>3. CASE Terminate(s)
    BY <1>4, <1>6, <2>3 DEF Terminate
  <2>4. CASE StopOrLeave(s)
    <3>1. name[s] \in Names
      BY DEF PlacedInv, GdbTypeOK
    <3> QED
      BY <1>4, <1>5, <2>4, <3>1 DEF StopOrLeave, Stop
  <2>5. CASE \/ CheckRunning(s) \/ StartInstance(s) \/ FindPort(s)
             \/ GdbExited(s) \/ SendDetach(s) \/ SendQuit(s) \/ Reap(s)
             \/ CountEvents(s)
    BY <1>4, <2>5
       DEF CheckRunning, StartInstance, FindPort, GdbExited, SendDetach,
           SendQuit, Reap, CountEvents, gdbVars
  <2> QED
    BY <1>7, <2>1, <2>2, <2>3, <2>4, <2>5 DEF Main
<1>8. ASSUME NEW s \in Scripts,
             GdbConnects(s) \/ GdbContinues(s) \/ SkipCall(s) \/ GdbQuits(s)
      PROVE  RoomLeft'
  <2>1. CASE GdbConnects(s)
    BY <1>6, <2>1 DEF GdbConnects
  <2>2. CASE GdbContinues(s)
    BY <1>6, <2>2 DEF GdbContinues
  <2>3. CASE SkipCall(s)
    BY <1>4, <2>3 DEF SkipCall, AutoContinue
  <2>4. CASE GdbQuits(s)
    BY <1>6, <2>4 DEF GdbQuits
  <2> QED
    BY <1>8, <2>1, <2>2, <2>3, <2>4
<1>9. ASSUME NEW s \in Scripts, GdbInterrupted(s) \/ DurationOver(s)
      PROVE  RoomLeft'
  <2>1. CASE GdbInterrupted(s)
    BY <1>6, <2>1 DEF GdbInterrupted
  <2>2. CASE DurationOver(s)
    <3>1. \A t \in Scripts : gdb[t] = "exited" => gdb'[t] = "exited"
      BY <1>1, <2>2 DEF DurationOver
    <3> QED
      BY <1>2, <2>2, <3>1 DEF DurationOver
  <2> QED
    BY <1>9, <2>1, <2>2
<1>10. ASSUME NEW n \in Names, SystemCall(n)
       PROVE  RoomLeft'
  BY <1>4, <1>10 DEF SystemCall, gdbVars
<1>11. CASE UNCHANGED vars
  BY <1>4, <1>11 DEF vars, gdbVars
<1>12. ASSUME NEW n \in Names, UserStarts(n) \/ UserStops(n)
       PROVE  RoomLeft'
  BY <1>4, <1>5, <1>12 DEF UserStarts, UserStops, Stop, gdbVars
<1> QED
  BY <1>3, <1>7, <1>8, <1>9, <1>10, <1>11, <1>12, GdbCaptureAssumption
     DEF Next, Gdb

\* With --max-events a run's gdb never logs an event more (stop(),
\* monitor.py:101-106: the detach and the quit are in the handler that writes
\* the last one), whatever other runs append to the same log, and whoever
\* takes its guest or its port from it.
THEOREM MaxEventsKept ==
  Spec => [](MaxEvents # 0 => \A s \in Scripts : OwnLines(s) <= MaxEvents)
<1>1. ASSUME MaxEvents # 0
      PROVE  Init => RoomLeft
  <2> SUFFICES ASSUME Init, NEW s \in Scripts
               PROVE  gdb[s] # "exited" /\ OwnLines(s) < MaxEvents
    BY DEF RoomLeft
  <2>1. {i \in 1..Len(log) : log[i] = s} = {}
    BY DEF Init
  <2>2. OwnLines(s) = 0
    BY <2>1, FS_EmptySet DEF OwnLines
  <2> QED
    BY <1>1, <2>2, GdbCaptureAssumption DEF Init
<1>2. ASSUME MaxEvents # 0
      PROVE  Spec => []RoomLeft
  BY <1>1, <1>2, AlwaysPlaced, NextRoomLeft, PTL DEF Spec
<1>3. PlacedInv /\ RoomLeft => \A s \in Scripts : OwnLines(s) <= MaxEvents
  BY GdbCaptureAssumption, OwnLinesNumber DEF PlacedInv, GdbTypeOK, RoomLeft
<1>4. CASE MaxEvents # 0
  BY <1>2, <1>3, <1>4, AlwaysPlaced, PTL
<1>5. CASE MaxEvents = 0
  <2>1. MaxEvents # 0 => \A s \in Scripts : OwnLines(s) <= MaxEvents
    BY <1>5
  <2> QED
    BY <2>1, PTL
<1> QED
  BY <1>4, <1>5

-----------------------------------------------------------------------------
(***************************************************************************)
(* The count of the log.                                                   *)
(***************************************************************************)
Counted == \A s \in Scripts : pc[s] = "done" => total[s] = Len(log)

LEMMA NextCounted ==
  ASSUME \A s, t \in Scripts : s = t, PlacedInv, Counted, [Next]_vars
  PROVE  Counted'
<1>1. /\ pc \in [Scripts -> Running \cup Ended] /\ total \in [Scripts -> Nat]
      /\ \A s \in Scripts : pc[s] = "done" => gdb[s] = "exited"
  BY DEF PlacedInv, GdbTypeOK, Running, Before, Ended
<1>2. ASSUME UNCHANGED <<log, total>>,
             \A s \in Scripts : pc'[s] = "done" => pc[s] = "done"
      PROVE  Counted'
  BY <1>2 DEF Counted
<1>3. ASSUME NEW s \in Scripts, LogCall(s)
      PROVE  Counted'
  <2>1. gdb[s] = "running" /\ pc' = pc
    BY <1>3 DEF LogCall, Stopped, scriptVars
  <2>2. \A t \in Scripts : pc'[t] # "done"
    BY <1>1, <2>1
  <2> QED
    BY <2>2 DEF Counted
<1>4. ASSUME NEW s \in Scripts, CountEvents(s)
      PROVE  Counted'
  <2>1. total' = [total EXCEPT ![s] = Len(log)] /\ log' = log
    BY <1>4 DEF CountEvents, gdbVars
  <2>2. \A t \in Scripts : total'[t] = Len(log)
    BY <1>1, <2>1
  <2> QED
    BY <2>1, <2>2 DEF Counted
<1>5. ASSUME NEW s \in Scripts, NEW from, NEW to, Goes(s, from, to), to # "done",
             UNCHANGED <<log, total>>
      PROVE  Counted'
  <2>1. \A t \in Scripts : pc'[t] = "done" => pc[t] = "done"
    BY <1>1, <1>5 DEF Goes
  <2> QED
    BY <1>2, <1>5, <2>1
<1>6. ASSUME NEW s \in Scripts, Main(s)
      PROVE  Counted'
  <2> USE DEF gdbVars
  <2>1. CASE CheckRunning(s)
    BY <1>5, <2>1 DEF CheckRunning
  <2>2. CASE StartInstance(s)
    BY <1>5, <2>2 DEF StartInstance, WhenRefused
  <2>3. CASE FindPort(s)
    BY <1>5, <2>3 DEF FindPort
  <2>4. CASE AttachGdbserver(s)
    BY <1>5, <2>4 DEF AttachGdbserver, ServerReplaced, ServerKept, ReplyChecked
  <2>5. CASE LaunchGdb(s)
    BY <1>5, <2>5 DEF LaunchGdb
  <2>6. CASE GdbExited(s)
    BY <1>5, <2>6 DEF GdbExited
  <2>7. CASE SendDetach(s)
    BY <1>5, <2>7 DEF SendDetach
  <2>8. CASE SendQuit(s)
    BY <1>5, <2>8 DEF SendQuit
  <2>9. CASE Reap(s)
    BY <1>5, <2>9 DEF Reap
  <2>10. CASE Terminate(s)
    BY <1>5, <2>10 DEF Terminate
  <2>11. CASE StopOrLeave(s)
    BY <1>5, <2>11 DEF StopOrLeave
  <2> QED
    BY <1>4, <1>6, <2>1, <2>2, <2>3, <2>4, <2>5, <2>6, <2>7, <2>8, <2>9,
       <2>10, <2>11 DEF Main
<1>7. ASSUME NEW s \in Scripts,
             \/ GdbConnects(s) \/ GdbContinues(s) \/ SkipCall(s) \/ GdbQuits(s)
             \/ GdbInterrupted(s)
      PROVE  Counted'
  BY <1>2, <1>7 DEF GdbConnects, GdbContinues, SkipCall, GdbQuits,
                    GdbInterrupted, scriptVars
<1>8. ASSUME NEW s \in Scripts, DurationOver(s)
      PROVE  Counted'
  BY <1>5, <1>8 DEF DurationOver
<1>9. ASSUME NEW n \in Names, SystemCall(n)
      PROVE  Counted'
  BY <1>2, <1>9 DEF SystemCall, scriptVars, gdbVars
<1>10. CASE UNCHANGED vars
  BY <1>2, <1>10 DEF vars, scriptVars, gdbVars
<1>11. ASSUME NEW n \in Names, UserStarts(n) \/ UserStops(n)
       PROVE  Counted'
  BY <1>2, <1>11 DEF UserStarts, UserStops, scriptVars, gdbVars
<1> QED
  BY <1>3, <1>6, <1>7, <1>8, <1>9, <1>10, <1>11, GdbCaptureAssumption
     DEF Next, Gdb

\* "captured {n_events} events" (run_capture.py:111) is the number of events
\* this run's gdb has logged, for a run that has the log to itself; with two
\* runs, or what an earlier one has left, it is not.
THEOREM SoleRunCounted ==
  ASSUME \A s, t \in Scripts : s = t
  PROVE  Spec => []CountsOwnRun
<1>1. Init => Counted
  BY DEF Init, Counted
<1>2. PlacedInv /\ Counted /\ [Next]_vars => Counted'
  BY NextCounted
<1>3. PlacedInv /\ Counted => CountsOwnRun
  <2> SUFFICES ASSUME PlacedInv, Counted, NEW s \in Scripts, pc[s] = "done"
               PROVE  total[s] = OwnLines(s)
    BY DEF CountsOwnRun
  <2>1. log \in Seq(Scripts) /\ Len(log) \in Nat /\ total[s] = Len(log)
    BY DEF PlacedInv, GdbTypeOK, Counted
  <2>2. \A i \in 1..Len(log) : log[i] = s
    <3>1. \A i \in 1..Len(log) : log[i] \in Scripts
      BY <2>1
    <3> QED
      BY <3>1
  <2>3. {i \in 1..Len(log) : log[i] = s} = 1..Len(log)
    BY <2>2
  <2> QED
    <3>1. Cardinality(1..Len(log)) = Len(log)
      <4>1. Len(log) \in Int /\ 1 \in Int
        BY <2>1
      <4>2. Cardinality(1..Len(log)) = IF 1 > Len(log) THEN 0 ELSE Len(log) - 1 + 1
        BY <4>1, FS_Interval
      <4> QED
        BY <2>1, <4>2
    <3> QED
      BY <2>1, <2>3, <3>1 DEF OwnLines
<1> QED
  BY <1>1, <1>2, <1>3, AlwaysPlaced, PTL DEF Spec
=============================================================================
