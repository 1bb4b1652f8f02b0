-------------------------- MODULE BenchmarksProofs --------------------------
(***************************************************************************)
(* Theorems about Benchmarks, for any number of repetitions: types, that   *)
(* the scripts leave what they found, and that every figure is measured    *)
(* under the condition it is reported for.                                 *)
(***************************************************************************)
EXTENDS Benchmarks, TLAPS

-----------------------------------------------------------------------------
(***************************************************************************)
(* The inductive invariant.  From the start of its instance to its removal *)
(* a script owns the instance and, with it, host port 8080, unless the     *)
(* instance is lost (Owns); gdb and the monitor are on it when the         *)
(* condition says so, and a gdb is left only by an exception that passed   *)
(* stop_gdb_capture() by (Tracing); a condition left without an exception  *)
(* has a result, and one not yet begun has none (Counted).                 *)
(***************************************************************************)
Underway == pc \in Places
WithGdb  == pc \in {"arm", "warmup", "reps", "stopgdb"} /\ Traces[cond] = "gdb"
Here     == NameOf(cond)
Passed   == raised \cap {"arm", "stopgdb"} # {}

Owns ==
  /\ pc = "setup" => ~mine
  /\ pc = "start" => mine
  /\ bench = "inline" /\ pc # "setup" => mine
  /\ \A n \in Names : inst[n] = "script" =>
       /\ mine /\ n = Here
       /\ \/ Underway
          \/ bench = "overhead" /\ pc = "failed"
          \/ pc = "failed" /\ raised \cap {"settle", "remove"} # {}
  /\ mine /\ Underway /\ cond \notin lost => inst[Here] = "script" /\ http = Here
  /\ bench = "overhead" => \A c, d \in Conditions : c \in lost => d \in lost

Tracing ==
  /\ gdb # NoOne => WithGdb \/ Passed
  /\ Passed => gdb # NoOne /\ pc \in {"remove", "failed"}
  /\ WithGdb => gdb # NoOne
  /\ WithGdb /\ mine /\ cond \notin lost => gdb = Here
  /\ pc \in {"attach", "arm", "stopgdb"} => Traces[cond] = "gdb"
  /\ pc \in {"start", "settle", "warmup"} /\ bench = "overhead" => cond = 1
  /\ ~exported =>
       /\ \A n \in monitored : /\ Traces[cond] = "inline" /\ n = Here
                               /\ Underway \/ pc = "failed"
       /\ mine /\ Underway /\ Traces[cond] = "inline" /\ cond \notin lost =>
            Here \in monitored

Counted ==
  /\ raised # {} => pc \in {"stopgdb", "remove", "failed"}
  /\ bench = "overhead" /\ pc = "remove" => raised = {} /\ cond = 2
  /\ pc = "setup" => cond = 1 /\ measured = {}
  /\ \A c \in Conditions : /\ c < cond => results[c] > 0
                           /\ c > cond => results[c] = 0
  /\ pc \in {"setup", "start", "settle", "attach", "arm", "warmup"} =>
       results[cond] = 0
  /\ pc = "reps" => results[cond] <= reps
  /\ pc \in {"stopgdb", "remove"} /\ raised = {} => results[cond] > 0

Inv == /\ BenchTypeOK /\ Owns /\ Tracing /\ Counted /\ MeasuredAsLabelled

\* The conditions of the two scripts.
LEMMA Shape ==
  ASSUME bench \in {"overhead", "inline"}
  PROVE  /\ bench = "overhead" =>
              Conditions = {1, 2} /\ Traces[1] = "none" /\ Traces[2] = "gdb"
         /\ bench = "inline" =>
              /\ Conditions = {1, 2, 3} /\ Traces[1] = "none"
              /\ Traces[2] = "inline" /\ Traces[3] = "gdb"
         /\ \A c \in Conditions : NameOf(c) \in Names
         /\ bench = "overhead" => \A c, d \in Conditions : NameOf(c) = NameOf(d)
<1>1. CASE bench = "overhead"
  <2>1. Traces = <<"none", "gdb">> /\ DOMAIN Traces = 1..2
    BY <1>1 DEF Traces
  <2>2. Conditions = {1, 2} /\ Traces[1] = "none" /\ Traces[2] = "gdb"
    BY <2>1 DEF Conditions
  <2> QED
    BY <1>1, <2>2 DEF NameOf, Names, BenchNames
<1>2. CASE bench = "inline"
  <2>1. Traces = <<"none", "inline", "gdb">> /\ DOMAIN Traces = 1..3
    BY <1>2 DEF Traces
  <2>2. /\ Conditions = {1, 2, 3} /\ Traces[1] = "none"
        /\ Traces[2] = "inline" /\ Traces[3] = "gdb"
    BY <2>1 DEF Conditions
  <2> QED
    BY <1>2, <2>2 DEF NameOf, Names, BenchNames
<1> QED
  BY <1>1, <1>2

\* They do not change.
LEMMA Given ==
  ASSUME UNCHANGED given
  PROVE  /\ bench' = bench /\ exported' = exported
         /\ Traces' = Traces /\ Conditions' = Conditions
         /\ \A c : NameOf(c)' = NameOf(c)
         /\ cond' = cond => Here' = Here
  BY DEF given, Traces, Conditions, NameOf, Here

LEMMA InitInv == Init => Inv
<1> SUFFICES ASSUME Init PROVE Inv
  OBVIOUS
<1>1. BenchTypeOK
  <2>1. 1 \in Conditions
    BY Shape DEF Init
  <2>2. /\ reps \in 0..Reps /\ results \in [1..3 -> 0..Reps]
        /\ inst \in [Names -> {"script", "user", NoOne}]
    BY BenchAssumption DEF Init
  <2> QED
    BY <2>1, <2>2 DEF Init, BenchTypeOK
<1>2. Owns /\ Tracing
  BY DEF Init, Owns, Tracing, Underway, WithGdb, Passed, Places, NoOne, Ended
<1>3. Counted
  BY Shape DEF Init, Counted
<1>4. MeasuredAsLabelled
  BY DEF Init, MeasuredAsLabelled
<1> QED
  BY <1>1, <1>2, <1>3, <1>4 DEF Inv

-----------------------------------------------------------------------------
(***************************************************************************)
(* One lemma per action.                                                   *)
(***************************************************************************)
\* What the types and the shape of the conditions come to in a state.
LEMMA Facts ==
  ASSUME Inv
  PROVE  /\ bench \in {"overhead", "inline"} /\ exported \in BOOLEAN
         /\ cond \in 1..3 /\ cond \in Conditions /\ Conditions \subseteq 1..3
         /\ Here \in Names /\ Here # NoOne /\ NoOne \notin Names
         /\ Gone \notin Names /\ Gone # NoOne
         /\ mine \in BOOLEAN /\ raised \subseteq Places
         /\ reps \in 0..Reps /\ Reps \in Nat \ {0}
         /\ results \in [1..3 -> 0..Reps] /\ lost \subseteq Conditions
         /\ inst \in [Names -> {"script", "user", NoOne}]
         /\ monitored \subseteq Names /\ hung \subseteq Names
         /\ http \in Names \cup {NoOne} /\ gdb \in Names \cup {NoOne, Gone}
<1>1. /\ bench \in {"overhead", "inline"} /\ cond \in Conditions
      /\ Conditions \subseteq 1..3
  BY Shape DEF Inv, BenchTypeOK
<1>2. Here \in Names
  BY <1>1, Shape DEF Here
<1>3. NoOne \notin Names /\ Gone \notin Names /\ Gone # NoOne
  BY DEF NoOne, Gone, Names, BenchNames
<1> QED
  BY <1>1, <1>2, <1>3, BenchAssumption DEF Inv, BenchTypeOK

LEMMA SetupInv == ASSUME Inv, Setup PROVE Inv'
<1> USE DEF Inv
<1>1. /\ pc = "setup" /\ pc' \in {"start", "warmup", "failed", "refused"}
      /\ mine' \in BOOLEAN /\ (pc' = "start" => mine')
      /\ bench = "inline" => mine' /\ pc' # "warmup"
      /\ bench = "overhead" => (pc' = "start" <=> mine') /\ (pc' = "warmup" <=> ~mine')
      /\ UNCHANGED <<cond, raised, reps, found, world, gdb, given>>
  BY DEF Setup, BenchTypeOK
<1>2. UNCHANGED <<inst, monitored, http, hung, results, measured, lost>>
  BY <1>1 DEF world, found
<1>3. BenchTypeOK'
  BY <1>1, <1>2, Given DEF BenchTypeOK, Ended, Places
<1>4. /\ cond = 1 /\ ~mine /\ \A n \in Names : inst[n] # "script"
      /\ measured = {} /\ gdb = NoOne /\ raised = {}
      /\ \A c \in Conditions : results[c] = 0
      /\ Conditions \subseteq 1..3 /\ bench \in {"overhead", "inline"}
      /\ Traces[1] = "none" /\ Here = Here
      /\ ~exported => monitored = {}
  BY <1>1, Shape DEF Owns, Tracing, Counted, BenchTypeOK, Underway, WithGdb,
                     Passed, Places
<1>5. Owns'
  BY <1>1, <1>2, <1>4, Given DEF Owns, Underway, Places
<1>6. Tracing'
  BY <1>1, <1>2, <1>4, Given DEF Tracing, Underway, WithGdb, Passed, Places
<1>7. Counted'
  BY <1>1, <1>2, <1>4, Given DEF Counted
<1>8. MeasuredAsLabelled'
  BY <1>1, <1>2, <1>4, Given DEF MeasuredAsLabelled
<1> QED
  BY <1>3, <1>5, <1>6, <1>7, <1>8

LEMMA StartInv == ASSUME Inv, StartInstance PROVE Inv'
<1> USE DEF Inv
<1>1. /\ pc = "start"
      /\ UNCHANGED <<cond, mine, raised, reps, results, measured, lost, hung,
                     gdb, given>>
      /\ Here' = Here
  BY Given DEF StartInstance, found
<1>2. /\ mine /\ raised = {} /\ gdb = NoOne /\ \A n \in Names : inst[n] # "script"
      /\ ~exported => monitored = {}
      /\ results[cond] = 0 /\ (bench = "overhead" => cond = 1)
  BY <1>1 DEF Owns, Tracing, Counted, Underway, WithGdb, Passed, Places
<1>3. CASE /\ inst' = [inst EXCEPT ![Here] = "script"] /\ http' = Here
           /\ monitored' = IF bench = "inline" /\ cond # 3
                              /\ (Traces[cond] = "inline" \/ exported)
                             THEN monitored \cup {Here} ELSE monitored
           /\ pc' = "settle"
  <2>1. BenchTypeOK'
    BY <1>1, <1>3, Facts, Given DEF BenchTypeOK, Places
  <2>2. Owns'
    BY <1>1, <1>2, <1>3, Facts, Given DEF Owns, Underway, Places
  <2>3. Traces[cond] = "inline" => bench = "inline" /\ cond # 3
    BY Facts, Shape
  <2>4. Tracing'
    BY <1>1, <1>2, <1>3, <2>3, Facts, Given
       DEF Tracing, Underway, WithGdb, Passed, Places
  <2>5. Counted' /\ MeasuredAsLabelled'
    BY <1>1, <1>2, <1>3, Facts, Given DEF Counted, MeasuredAsLabelled
  <2> QED
    BY <2>1, <2>2, <2>4, <2>5
<1>4. CASE pc' = "failed" /\ UNCHANGED <<inst, http, monitored>>
  <2>1. BenchTypeOK'
    BY <1>1, <1>4, Given DEF BenchTypeOK, Ended
  <2>2. Owns' /\ Tracing'
    BY <1>1, <1>2, <1>4, Facts, Given
       DEF Owns, Tracing, Underway, WithGdb, Passed, Places
  <2>3. Counted' /\ MeasuredAsLabelled'
    BY <1>1, <1>2, <1>4, Facts, Given DEF Counted, MeasuredAsLabelled
  <2> QED
    BY <2>1, <2>2, <2>3
<1> QED
  BY <1>3, <1>4 DEF StartInstance, StartRefused, Here

\* An exception on its way up, from wherever it comes.
LEMMA RaiseInv ==
  ASSUME Inv, pc \in Places, Raise, reps' \in 0..Reps,
         UNCHANGED <<cond, mine, found, world, gdb, given>>
  PROVE  Inv'
<1> USE DEF Inv
<1>1. /\ UNCHANGED <<results, measured, lost, inst, monitored, http, hung>>
      /\ Here' = Here /\ raised' = raised \cup {pc}
  BY Given DEF found, world, Raise
<1>2. /\ pc' \in {"stopgdb", "remove", "failed"}
      /\ pc' = "stopgdb" <=> GdbTry /\ Traces[cond] = "gdb"
      /\ pc' = "remove" => bench = "inline" /\ pc \notin {"start", "settle", "remove"}
      /\ pc' = "failed" =>
           bench = "overhead" \/ pc \in {"settle", "remove"}
  BY Facts DEF Unwind, Raise, InstanceTry, Places
<1>3. BenchTypeOK'
  BY <1>1, <1>2, Facts, Given DEF BenchTypeOK, Ended, Places
<1>4. Owns'
  <2>1. (\A n \in Names : inst[n] = "script" =>
       /\ mine /\ n = Here
       /\ \/ Underway
          \/ bench = "overhead" /\ pc = "failed"
          \/ pc = "failed" /\ raised \cap {"settle", "remove"} # {})'
    <3> SUFFICES ASSUME NEW n \in Names, inst[n] = "script"
                 PROVE  /\ mine /\ n = Here
                        /\ \/ Underway'
                           \/ bench = "overhead" /\ pc' = "failed"
                           \/ pc' = "failed" /\ raised' \cap {"settle", "remove"} # {}
      BY <1>1, Given
    <3>1. pc \in {"settle", "remove"} => raised' \cap {"settle", "remove"} # {}
      BY <1>1
    <3> QED
      BY <1>2, <3>1, Facts DEF Owns, Underway, Places
  <2> QED
    BY <1>1, <1>2, <2>1, Facts, Given DEF Owns, Underway, Places
<1>5. Tracing'
  <2>1. Traces[cond] = "inline" => bench = "inline"
    BY Facts, Shape
  <2>2. GdbTry => pc \in {"warmup", "reps"}
    BY DEF GdbTry
  <2>3. WithGdb => pc' = "stopgdb" \/ pc \in {"arm", "stopgdb"}
                   \/ (bench = "overhead" /\ pc = "warmup")
    BY <1>2, Facts DEF WithGdb, GdbTry
  <2>4. bench = "overhead" /\ pc = "warmup" => Traces[cond] = "none"
    BY Facts, Shape DEF Tracing
  <2>5. (Passed => gdb # NoOne /\ pc \in {"remove", "failed"})'
    <3>1. ASSUME Passed PROVE gdb' # NoOne /\ pc' \in {"remove", "failed"}
      <4>1. gdb # NoOne /\ pc \in {"remove", "failed"}
        BY <3>1 DEF Tracing
      <4> QED
        BY <1>1, <1>2, <2>2, <4>1
    <3>2. ASSUME pc \in {"arm", "stopgdb"}
          PROVE  gdb' # NoOne /\ pc' \in {"remove", "failed"}
      <4>1. WithGdb
        BY <3>2 DEF Tracing, WithGdb
      <4> QED
        BY <1>2, <2>2, <3>2, <4>1 DEF Tracing
    <3> QED
      BY <1>1, <3>1, <3>2 DEF Passed
  <2>6. (gdb # NoOne => WithGdb \/ Passed)'
    <3> SUFFICES ASSUME gdb # NoOne PROVE WithGdb' \/ Passed'
      BY <1>1
    <3>1. CASE Passed
      BY <1>1, <3>1 DEF Passed
    <3>2. CASE WithGdb
      <4>1. CASE pc' = "stopgdb"
        BY <1>1, <3>2, <4>1, Given DEF WithGdb
      <4>2. CASE pc \in {"arm", "stopgdb"}
        BY <1>1, <4>2 DEF Passed
      <4> QED
        BY <2>3, <2>4, <3>2, <4>1, <4>2 DEF WithGdb
    <3> QED
      BY <3>1, <3>2 DEF Tracing
  <2>7. pc' = "stopgdb" => WithGdb
    BY <1>2, <2>2 DEF WithGdb
  <2>8. (\A n \in monitored : Traces[cond] = "inline" /\ n = Here
                              /\ (Underway \/ pc = "failed"))'
        \/ exported
    BY <1>1, <1>2, Given DEF Tracing, Underway, Places
  <2> QED
    BY <1>1, <1>2, <2>1, <2>2, <2>5, <2>6, <2>7, <2>8, Facts, Given
       DEF Tracing, Underway, WithGdb, Places
<1>6. Counted'
  BY <1>1, <1>2, Facts, Given DEF Counted
<1>7. MeasuredAsLabelled'
  BY <1>1, <1>2, Given DEF MeasuredAsLabelled
<1> QED
  BY <1>3, <1>4, <1>5, <1>6, <1>7

\* The next place of a condition is reached without an exception.
LEMMA GoOnInv ==
  ASSUME Inv, UNCHANGED <<cond, mine, raised, reps, found, world, given>>,
         \/ pc = "settle" /\ gdb' = gdb
            /\ pc' = IF Traces[cond] = "gdb" THEN "attach" ELSE "warmup"
         \/ pc = "attach" /\ pc' = "arm" /\ gdb' = Here /\ IsUp(Here)
         \/ pc = "arm" /\ gdb' = gdb
            /\ pc' = IF bench = "overhead" THEN "reps" ELSE "warmup"
         \/ pc = "warmup" /\ pc' = "reps" /\ gdb' = gdb
  PROVE  Inv'
<1> USE DEF Inv
<1>1. /\ UNCHANGED <<results, measured, lost, inst, monitored, http, hung>>
      /\ Here' = Here
      /\ pc \in {"settle", "attach", "arm", "warmup"}
      /\ pc' \in {"attach", "arm", "warmup", "reps"}
  BY Given DEF found, world
<1>2. raised = {} /\ results[cond] = 0 /\ ~Passed
  BY <1>1 DEF Counted, Passed
<1>3. BenchTypeOK'
  BY <1>1, Facts, Given DEF BenchTypeOK, Ended, Places
<1>4. Owns'
  BY <1>1, <1>2, Facts, Given DEF Owns, Underway, Places
<1>5. Tracing'
  <2>1. pc = "settle" => gdb = NoOne
    BY <1>2 DEF Tracing, WithGdb
  <2>2. bench = "overhead" => Traces[1] = "none" /\ Traces[2] = "gdb"
    BY Facts, Shape
  <2>3. ~Passed'
    BY <1>1, <1>2 DEF Passed
  <2>4. /\ (gdb # NoOne => WithGdb \/ Passed)'
        /\ (WithGdb => gdb # NoOne)'
        /\ (WithGdb /\ mine /\ cond \notin lost => gdb = Here)'
    BY <1>1, <1>2, <2>1, <2>2, Facts, Given DEF Tracing, WithGdb
  <2>5. /\ (pc \in {"attach", "arm", "stopgdb"} => Traces[cond] = "gdb")'
        /\ (pc \in {"start", "settle", "warmup"} /\ bench = "overhead" =>
              cond = 1)'
    BY <1>1, <2>2, Facts, Given DEF Tracing
  <2> QED
    BY <1>1, <2>3, <2>4, <2>5, Facts, Given DEF Tracing, Underway, Places
<1>6. Counted'
  BY <1>1, <1>2, Facts, Given DEF Counted
<1>7. MeasuredAsLabelled'
  BY <1>1, Given DEF MeasuredAsLabelled
<1> QED
  BY <1>3, <1>4, <1>5, <1>6, <1>7

LEMMA SettleInv == ASSUME Inv, Settle PROVE Inv'
<1>1. CASE Raise
  BY <1>1, Facts, RaiseInv DEF Settle, Places
<1>2. CASE GoOn(IF Traces[cond] = "gdb" THEN "attach" ELSE "warmup")
  BY <1>2, GoOnInv DEF Settle, GoOn
<1> QED
  BY <1>1, <1>2 DEF Settle

LEMMA AttachInv == ASSUME Inv, AttachGdb PROVE Inv'
<1>1. CASE Raise /\ UNCHANGED gdb
  BY <1>1, Facts, RaiseInv DEF AttachGdb, Places
<1>2. CASE IsUp(Here) /\ gdb' = Here /\ GoOn("arm")
  BY <1>2, GoOnInv DEF AttachGdb, GoOn
<1> QED
  BY <1>1, <1>2 DEF AttachGdb, Here

LEMMA ArmInv == ASSUME Inv, Arm PROVE Inv'
<1>1. CASE Raise
  BY <1>1, Facts, RaiseInv DEF Arm, Places
<1>2. CASE GoOn(IF bench = "overhead" THEN "reps" ELSE "warmup")
  BY <1>2, GoOnInv DEF Arm, GoOn
<1> QED
  BY <1>1, <1>2 DEF Arm

LEMMA WarmupInv == ASSUME Inv, Warmup PROVE Inv'
<1>1. CASE Raise
  BY <1>1, Facts, RaiseInv DEF Warmup, Places
<1>2. CASE GoOn("reps")
  BY <1>2, GoOnInv DEF Warmup, GoOn
<1> QED
  BY <1>1, <1>2 DEF Warmup

\* What a request to the script's own instance is a measurement of.
LEMMA OwnTrace ==
  ASSUME Inv, pc = "reps", mine, ~exported, cond \notin lost
  PROVE  http = Here /\ inst[http] = "script" /\ TracedBy(http) = Traces[cond]
<1>1. http = Here /\ Here \in Names /\ Here # NoOne /\ inst[http] = "script"
  BY Facts DEF Inv, Owns, Underway, Places
<1>2. Traces[cond] \in {"none", "inline", "gdb"}
  BY Facts, Shape
<1>3. gdb = Here <=> Traces[cond] = "gdb"
  BY <1>1, Facts DEF Inv, Tracing, WithGdb, Passed
<1>4. Here \in monitored <=> Traces[cond] = "inline"
  BY <1>1 DEF Inv, Tracing, Underway, Places
<1> QED
  BY <1>1, <1>2, <1>3, <1>4 DEF TracedBy

LEMMA RepInv == ASSUME Inv, Rep PROVE Inv'
<1> USE DEF Inv
<1>1. /\ pc = "reps" /\ reps < Reps /\ reps' = reps + 1 /\ reps' \in 0..Reps
      /\ UNCHANGED <<cond, mine, lost, world, gdb, given>>
      /\ UNCHANGED <<inst, monitored, http, hung>>
      /\ Here' = Here
  BY Facts, Given DEF Rep, MoreReps, world
<1>2. CASE Raise /\ UNCHANGED <<results, measured>>
  <2>1. UNCHANGED found
    BY <1>1, <1>2 DEF found
  <2> QED
    BY <1>1, <1>2, <2>1, Facts, RaiseInv DEF Places
<1>3. ASSUME UNCHANGED <<pc, raised>>, results' \in [1..3 -> 0..Reps],
             results'[cond] <= reps',
             \A c \in Conditions : c # cond => results'[c] = results[c]
      PROVE  Owns' /\ Tracing' /\ Counted'
  <2>1. Owns'
    BY <1>1, <1>3, Facts, Given DEF Owns, Underway
  <2>2. Tracing'
    BY <1>1, <1>3, Facts, Given DEF Tracing, Underway, WithGdb, Passed
  <2>3. Counted'
    BY <1>1, <1>3, Facts, Given DEF Counted
  <2> QED
    BY <2>1, <2>2, <2>3
<1>4. CASE UNCHANGED <<pc, raised>> /\ UNCHANGED <<results, measured>>
  <2>1. results[cond] <= reps'
    BY <1>1, Facts DEF Counted
  <2>2. Owns' /\ Tracing' /\ Counted'
    BY <1>3, <1>4, <2>1, Facts
  <2>3. BenchTypeOK' /\ MeasuredAsLabelled'
    BY <1>1, <1>4, Facts, Given DEF BenchTypeOK, MeasuredAsLabelled
  <2> QED
    BY <2>2, <2>3
<1>5. CASE /\ UNCHANGED <<pc, raised>> /\ http \in Names
           /\ results' = [results EXCEPT ![cond] = @ + 1]
           /\ measured' = {Figure}
  <2>1. results[cond] <= reps
    BY <1>1 DEF Counted
  <2>2. /\ results' \in [1..3 -> 0..Reps] /\ results'[cond] <= reps'
        /\ \A c \in Conditions : c # cond => results'[c] = results[c]
    BY <1>1, <1>5, <2>1, Facts
  <2>3. Owns' /\ Tracing' /\ Counted'
    BY <1>3, <1>5, <2>2
  <2>4. TracedBy(http) \in {"none", "inline", "gdb"}
    BY DEF TracedBy
  <2>5. Figure \in [c : Conditions, on : Names,
                    of : {"script", "user", NoOne}, alone : BOOLEAN,
                    traced : {"none", "inline", "gdb"}]
    BY <1>5, <2>4, Facts DEF Figure
  <2>6. BenchTypeOK'
    BY <1>1, <1>5, <2>2, <2>5, Facts, Given DEF BenchTypeOK
  <2>7. MeasuredAsLabelled'
    <3>1. mine /\ ~exported => \A m \in measured' : m.alone =>
            m.on = NameOf(m.c) /\ m.of = "script" /\ m.traced = Traces[m.c]
      <4>1. /\ Figure.c = cond /\ Figure.on = http /\ Figure.of = inst[http]
            /\ Figure.alone = (cond \notin lost) /\ Figure.traced = TracedBy(http)
        BY DEF Figure
      <4>2. mine /\ ~exported /\ cond \notin lost =>
              /\ http = NameOf(cond) /\ inst[http] = "script"
              /\ TracedBy(http) = Traces[cond]
        BY <1>1, OwnTrace DEF Here
      <4> QED
        BY <1>5, <4>1, <4>2
    <3> QED
      BY <1>1, <1>5, <3>1, Given DEF MeasuredAsLabelled
  <2> QED
    BY <2>3, <2>6, <2>7
<1>6. PICK ab \in RunAb :
        /\ IF ab = "fatal" THEN Raise ELSE UNCHANGED <<pc, raised>>
        /\ IF ab = "figures"
             THEN /\ results' = [results EXCEPT ![cond] = @ + 1]
                  /\ measured' = {Figure}
             ELSE UNCHANGED <<results, measured>>
  BY DEF Rep
<1>7. ab = "figures" => http \in Names
  BY <1>6, Facts DEF RunAb
<1> QED
  BY <1>2, <1>4, <1>5, <1>6, <1>7

LEMMA ReportedInv == ASSUME Inv, Reported PROVE Inv'
<1> USE DEF Inv
<1>1. /\ pc = "reps" /\ reps' = 0 /\ reps' \in 0..Reps
      /\ UNCHANGED <<mine, found, world, gdb, given>>
      /\ UNCHANGED <<results, measured, lost, inst, monitored, http, hung>>
  BY Facts DEF Reported, found, world
<1>2. CASE Raise /\ UNCHANGED cond
  BY <1>1, <1>2, Facts, RaiseInv DEF Places
<1>3. CASE /\ results[cond] > 0 /\ UNCHANGED raised
           /\ pc' = IF Traces[cond] = "gdb" THEN "stopgdb"
                    ELSE IF bench = "inline" THEN "remove" ELSE "attach"
           /\ cond' = IF bench = "overhead" THEN 2 ELSE cond
  <2>1. /\ raised = {} /\ Here' = Here /\ cond' \in Conditions
        /\ bench = "overhead" => cond \in {1, 2} /\ Conditions = {1, 2}
                                 /\ Traces[1] = "none" /\ Traces[2] = "gdb"
    <3>1. raised = {}
      BY <1>1 DEF Counted
    <3>2. bench = "overhead" => cond \in {1, 2} /\ Conditions = {1, 2}
                                /\ Traces[1] = "none" /\ Traces[2] = "gdb"
      BY Facts, Shape
    <3>3. Here' = Here
      BY <1>1, <1>3, Facts, Given DEF Here, NameOf, given
    <3> QED
      BY <1>3, <3>1, <3>2, <3>3, Facts
  <2>2. BenchTypeOK'
    BY <1>1, <1>3, <2>1, Facts, Given DEF BenchTypeOK, Places
  <2>3. Owns'
    <3>1. cond' \notin lost => cond \notin lost
      BY <1>3, <2>1, Facts DEF Owns
    <3> QED
      BY <1>1, <1>3, <2>1, <3>1, Facts, Given DEF Owns, Underway, Places
  <2>4. Tracing'
    <3>1. CASE cond' = cond
      BY <1>1, <1>3, <2>1, <3>1, Facts, Given
         DEF Tracing, Underway, WithGdb, Passed, Places
    <3>2. CASE cond' # cond
      <4>1. /\ bench = "overhead" /\ cond = 1 /\ cond' = 2 /\ pc' = "attach"
            /\ Traces[1] = "none" /\ Traces[2] = "gdb"
        BY <1>3, <2>1, <3>2
      <4>2. gdb = NoOne /\ (~exported => monitored = {})
        BY <1>1, <2>1, <4>1 DEF Tracing, WithGdb, Passed
      <4> QED
        BY <1>1, <1>3, <2>1, <4>1, <4>2, Given
           DEF Tracing, Underway, WithGdb, Passed
    <3> QED
      BY <3>1, <3>2
  <2>5. Counted'
    <3>1. CASE cond' = cond
      <4>1. bench = "overhead" /\ cond = 2 => pc' = "stopgdb"
        BY <1>3, <2>1
      <4> QED
        BY <1>1, <1>3, <2>1, <3>1, <4>1, Facts, Given DEF Counted
    <3>2. CASE cond' # cond
      <4>1. /\ bench = "overhead" /\ cond = 1 /\ cond' = 2 /\ pc' = "attach"
            /\ Conditions = {1, 2}
        BY <1>3, <2>1, <3>2
      <4>2. results[1] > 0 /\ results[2] = 0
        BY <1>3, <4>1 DEF Counted
      <4> QED
        BY <1>1, <1>3, <2>1, <4>1, <4>2, Given DEF Counted
    <3> QED
      BY <3>1, <3>2
  <2>6. MeasuredAsLabelled'
    BY <1>1, <1>3, Given DEF MeasuredAsLabelled
  <2> QED
    BY <2>2, <2>3, <2>4, <2>5, <2>6
<1> QED
  BY <1>2, <1>3 DEF Reported, SomeReport, GoOn

LEMMA StopGdbInv == ASSUME Inv, StopGdb PROVE Inv'
<1> USE DEF Inv
<1>1. /\ pc = "stopgdb" /\ UNCHANGED <<cond, mine, reps, found, world, given>>
      /\ UNCHANGED <<results, measured, lost, inst, monitored, http, hung>>
      /\ Here' = Here
  BY Given DEF StopGdb, found, world
<1>2. CASE Raise /\ UNCHANGED gdb
  BY <1>1, <1>2, Facts, RaiseInv DEF Places
<1>3. CASE /\ gdb' = NoOne /\ UNCHANGED raised
           /\ pc' = IF raised # {} /\ bench = "overhead" THEN "failed" ELSE "remove"
  <2>1. /\ Traces[cond] = "gdb" /\ ~Passed
        /\ bench = "overhead" => cond = 2
    BY <1>1, Facts, Shape DEF Tracing
  <2>2. BenchTypeOK'
    BY <1>1, <1>3, Facts, Given DEF BenchTypeOK, Ended, Places
  <2>3. Owns'
    BY <1>1, <1>3, Facts, Given DEF Owns, Underway, Places
  <2>4. Tracing'
    BY <1>1, <1>3, <2>1, Facts, Given
       DEF Tracing, Underway, WithGdb, Passed, Places
  <2>5. Counted' /\ MeasuredAsLabelled'
    BY <1>1, <1>3, <2>1, Facts, Given DEF Counted, MeasuredAsLabelled
  <2> QED
    BY <2>2, <2>3, <2>4, <2>5
<1> QED
  BY <1>2, <1>3 DEF StopGdb, GoOn

\* What goes, goes with its port, its monitor and gdb's connection.
LEMMA LeaveTypes ==
  ASSUME Inv, NEW names \in SUBSET Names, Leave(names)
  PROVE  /\ inst' \in [Names -> {"script", "user", NoOne}]
         /\ \A n \in Names : inst'[n] = IF n \in names THEN NoOne ELSE inst[n]
         /\ monitored' \subseteq Names /\ hung' \subseteq Names
         /\ http' \in Names \cup {NoOne} /\ gdb' \in Names \cup {NoOne, Gone}
         /\ gdb' = NoOne <=> gdb = NoOne
BY Facts DEF Leave

LEMMA RemoveInv == ASSUME Inv, Remove PROVE Inv'
<1> USE DEF Inv
<1>1. /\ pc = "remove" /\ reps' = 0 /\ reps' \in 0..Reps
      /\ UNCHANGED <<mine, results, measured, lost, given>>
  BY Facts DEF Remove, found
<1>2. CASE Raise /\ UNCHANGED <<cond, world, gdb>>
  BY <1>1, <1>2, Facts, RaiseInv DEF Places, found
<1> DEFINE gone == IF mine THEN {Here} ELSE {}
<1>3. CASE /\ Leave(gone) /\ UNCHANGED raised
           /\ IF raised # {} THEN pc' = "failed" /\ UNCHANGED cond
              ELSE IF cond + 1 \in Conditions
                THEN pc' = "start" /\ cond' = cond + 1
                ELSE pc' = "done" /\ UNCHANGED cond
  <2>1. gone \in SUBSET Names
    BY Facts
  <2>2. /\ \A n \in Names : inst'[n] # "script"
        /\ ~exported => monitored' = {}
    <3>1. \A n \in Names : inst'[n] # "script"
      BY <1>3, <2>1, LeaveTypes DEF Owns, NoOne
    <3>2. Traces[cond] = "inline" => mine
      BY <1>1, Facts, Shape DEF Owns
    <3>3. ~exported => monitored \subseteq gone
      BY <3>2 DEF Tracing
    <3> QED
      BY <1>3, <3>1, <3>3 DEF Leave
  <2>3. \/ raised # {} /\ pc' = "failed" /\ cond' = cond
        \/ raised = {} /\ cond + 1 \in Conditions /\ pc' = "start"
           /\ cond' = cond + 1
        \/ raised = {} /\ cond + 1 \notin Conditions /\ pc' = "done" /\ cond' = cond
    BY <1>3
  <2>4. BenchTypeOK'
    BY <1>1, <1>3, <2>1, <2>3, LeaveTypes, Facts, Given DEF BenchTypeOK, Ended
  <2>5. /\ bench = "inline" => mine
        /\ bench = "overhead" => raised = {} /\ cond = 2 /\ Conditions = {1, 2}
        /\ bench = "inline" => Conditions = {1, 2, 3}
        /\ raised = {} => results[cond] > 0
    BY <1>1, Facts, Shape DEF Owns, Counted
  <2>6. Owns'
    <3>1. pc' \in {"failed", "start", "done"} /\ (pc' = "start" => mine)
      BY <1>1, <2>3, <2>5, Facts
    <3> QED
      BY <1>1, <2>2, <2>5, <3>1, Facts, Given DEF Owns, Underway, Places
  <2>7. Tracing'
    <3>1. gdb' # NoOne => gdb # NoOne
      BY <1>3, <2>1, LeaveTypes
    <3>2. gdb # NoOne <=> Passed
      BY <1>1 DEF Tracing, WithGdb
    <3>3. Passed' = Passed /\ (Passed => raised # {})
      BY <1>3 DEF Passed
    <3>4. gdb' = NoOne <=> gdb = NoOne
      BY <1>3, <2>1, LeaveTypes
    <3>5. bench = "overhead" => pc' # "start"
      BY <2>3, <2>5
    <3> QED
      BY <1>1, <2>2, <2>3, <3>2, <3>3, <3>4, <3>5, Given
         DEF Tracing, Underway, WithGdb, Places
  <2>8. \A c \in Conditions : /\ c < cond' => results[c] > 0
                              /\ c > cond' => results[c] = 0
    BY <2>3, <2>5, Facts DEF Counted
  <2>9. Counted'
    BY <1>1, <1>3, <2>3, <2>5, <2>8, Facts, Given DEF Counted
  <2>10. MeasuredAsLabelled'
    <3>1. pc' = "done" => \A c \in Conditions : results[c] > 0
      BY <2>3, <2>5, Facts DEF Counted
    <3> QED
      BY <1>1, <3>1, Given DEF MeasuredAsLabelled
  <2> QED
    BY <2>4, <2>6, <2>7, <2>9, <2>10
<1> QED
  BY <1>2, <1>3 DEF Remove, Here

\* A user's instance does not get in the way of the script's, and with the
\* script's own its condition is lost.
LEMMA OthersInv ==
  ASSUME Inv, NEW n \in Names, UserStarts(n) \/ UserStops(n) \/ GuestCrashes(n)
  PROVE  Inv'
<1> USE DEF Inv
<1>1. /\ UNCHANGED <<pc, cond, mine, raised, reps, results, measured, given>>
      /\ Here' = Here
  BY Given DEF UserStarts, UserStops, GuestCrashes, GoesAway, control, found
<1>2. Counted' /\ MeasuredAsLabelled'
  BY <1>1, Facts, Given DEF Counted, MeasuredAsLabelled
<1>3. CASE UserStarts(n) \/ UNCHANGED <<lost, inst, monitored, http, gdb>>
  <2>1. /\ inst' \in [Names -> {"script", "user", NoOne}]
        /\ http' \in Names \cup {NoOne} /\ hung' \subseteq Names
        /\ \A m \in Names : inst'[m] = "script" <=> inst[m] = "script"
        /\ \A m \in Names : inst[m] = "script" /\ http = m => http' = m
        /\ UNCHANGED <<lost, monitored, gdb>>
    <3>1. CASE UserStarts(n)
      BY <3>1, Facts DEF UserStarts, IsUp, NoOne, found
    <3>2. CASE UNCHANGED <<lost, inst, monitored, http, gdb>>
      BY <3>2, Facts DEF UserStarts, UserStops, GuestCrashes, GoesAway, Leave
    <3> QED
      BY <1>3, <3>1, <3>2
  <2>2. BenchTypeOK'
    BY <1>1, <2>1, Facts, Given DEF BenchTypeOK
  <2>3. Owns'
    BY <1>1, <2>1, Facts, Given DEF Owns, Underway
  <2>4. Tracing'
    BY <1>1, <2>1, Facts, Given DEF Tracing, Underway, WithGdb, Passed
  <2> QED
    BY <1>2, <2>2, <2>3, <2>4
<1>4. CASE GoesAway(n)
  <2>1. /\ Leave({n}) /\ {n} \in SUBSET Names /\ n # NoOne
        /\ lost' = IF inst[n] = "script"
                     THEN lost \cup {c \in Conditions : NameOf(c) = n} ELSE lost
    BY <1>4, Facts DEF GoesAway
  <2>2. lost \subseteq lost' /\ lost' \subseteq Conditions
    BY <2>1, Facts
  <2>3. inst[n] = "script" => cond \in lost'
    BY <2>1, Facts DEF Owns, Here
  <2>4. BenchTypeOK'
    BY <1>1, <2>1, <2>2, LeaveTypes, Facts, Given DEF BenchTypeOK
  <2>5. Owns'
    <3>1. \A m \in Names : inst'[m] = "script" => inst[m] = "script"
      BY <2>1, LeaveTypes DEF NoOne
    <3>2. mine /\ Underway /\ cond \notin lost' =>
            inst'[Here] = "script" /\ http' = Here
      <4> SUFFICES ASSUME mine, Underway, cond \notin lost'
                   PROVE  inst'[Here] = "script" /\ http' = Here
        OBVIOUS
      <4>1. inst[Here] = "script" /\ http = Here /\ n # Here
        BY <2>2, <2>3 DEF Owns
      <4> QED
        BY <2>1, <4>1, LeaveTypes, Facts DEF Leave
    <3>3. bench = "overhead" => \A c, d \in Conditions : c \in lost' => d \in lost'
      BY <2>1, Facts, Shape DEF Owns
    <3> QED
      BY <1>1, <3>1, <3>2, <3>3, Given DEF Owns, Underway
  <2>6. Tracing'
    <3>1. gdb' = NoOne <=> gdb = NoOne
      BY <2>1, LeaveTypes
    <3>2. monitored' = monitored \ {n} /\ (gdb # n => gdb' = gdb)
      BY <2>1 DEF Leave
    <3>3. mine /\ Underway /\ cond \notin lost' => n # Here /\ cond \notin lost
      BY <2>2, <2>3 DEF Owns
    <3>4. WithGdb => Underway
      BY DEF WithGdb, Underway, Places
    <3> QED
      BY <1>1, <3>1, <3>2, <3>3, <3>4, Given
         DEF Tracing, Underway, WithGdb, Passed
  <2> QED
    BY <1>2, <2>4, <2>5, <2>6
<1> QED
  BY <1>3, <1>4 DEF UserStops, GuestCrashes, found

LEMMA NextInv == Inv /\ [Next]_vars => Inv'
<1> SUFFICES ASSUME Inv, [Next]_vars PROVE Inv'
  OBVIOUS
<1>1. CASE UNCHANGED vars
  <2>1. /\ UNCHANGED <<pc, cond, mine, raised, reps, results, measured, lost,
                       inst, monitored, http, hung, gdb, given>>
        /\ Here' = Here
    BY <1>1, Given DEF vars, control, found, world
  <2>2. BenchTypeOK' /\ Owns' /\ Tracing'
    BY <2>1, Facts, Given DEF Inv, BenchTypeOK, Owns, Tracing, Underway, WithGdb,
                              Passed
  <2>3. Counted' /\ MeasuredAsLabelled'
    BY <2>1, Facts, Given DEF Inv, Counted, MeasuredAsLabelled
  <2> QED
    BY <2>2, <2>3 DEF Inv
<1>2. CASE Main
  BY <1>2, SetupInv, StartInv, SettleInv, AttachInv, ArmInv, WarmupInv, RepInv,
     ReportedInv, StopGdbInv, RemoveInv DEF Main
<1> QED
  BY <1>1, <1>2, OthersInv DEF Next

-----------------------------------------------------------------------------
\* Types: no condition gets more results than it had repetitions, which is
\* what summarize() divides by and prints (run_ab_reps(), both scripts).
THEOREM BenchTypeCorrect == Spec => []BenchTypeOK
  BY InitInv, NextInv, PTL DEF Spec, Inv

\* Whatever --reps is, whichever call raises in whichever condition, and
\* whatever users start and stop meanwhile: up to the crash or the stop of
\* its own instance each figure a script collects was measured on it, under
\* the condition the figure is reported for; and a script that gets to its
\* end has some for every condition (run_ab(), run_condition_*()).
THEOREM Labelled == Spec => []MeasuredAsLabelled
  BY InitInv, NextInv, PTL DEF Spec, Inv

\* They end with no gdb and no instance of theirs left, but for what an
\* exception leaves that comes in settle time, in the second before gdb's
\* try, from stop_gdb_capture() or from the removal itself; and for
\* bench_overhead.py's instance after any exception (the nested try and
\* finally, bench_overhead_inline.py:72-105, bench_overhead.py:111-151).
THEOREM CleanedUp == Spec => []LeavesAsFound
<1>1. Inv => LeavesAsFound
  <2> SUFFICES ASSUME Inv, pc \in Ended PROVE LeavesAsFound
    BY DEF LeavesAsFound
  <2>1. gdb # NoOne <=> Passed
    BY DEF Inv, Tracing, WithGdb, Ended
  <2>2. \A n \in Names : inst[n] = "script" =>
          \/ bench = "overhead" /\ pc = "failed"
          \/ raised \cap {"settle", "remove"} # {}
    BY DEF Inv, Owns, Underway, Ended, Places
  <2> QED
    BY <2>1, <2>2 DEF LeavesAsFound, Passed
<1> QED
  BY InitInv, NextInv, <1>1, PTL DEF Spec
=============================================================================
