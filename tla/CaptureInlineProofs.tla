------------------------- MODULE CaptureInlineProofs -------------------------
(***************************************************************************)
(* Proofs about CaptureInline.tla, for any number of runs of the script,   *)
(* any of them quiet or timed, any number of lines and every place where   *)
(* Ctrl-C may be pressed, unless a theorem says otherwise.                 *)
(***************************************************************************)
EXTENDS CaptureInline, FiniteSetTheorems, TLAPS

(***************************************************************************)
(* The inductive invariants.  The type invariant alone does not bound      *)
(* ReadLine: the tail must have a file.                                    *)
(***************************************************************************)
CaptureTypeInv ==
  /\ CaptureTypeOK
  /\ \A s \in Scripts : pc[s] = "read" => reader[s] # NoFile

\* Where a run has its instance to stop, or is about to.
Owning == {"arm", "peek", "sleep", "sample", "stop", "unwind"} \cup Tailing
\* Where a run leaves an instance behind: an exception, or a Ctrl-C, outside
\* the try.
Stranded == {"raised"} \cup (IF CtrlC \subseteq {"tail"} THEN {} ELSE {"killed"})

InstanceOwned == \A s \in Scripts : instance = s => pc[s] \in Owning \cup Stranded

\* Where no QEMU of this run exists yet, and what there cannot be then.
Unstarted == {"setup", "look", "unlink", "lookdebug", "unlinkdebug", "check",
              "start"}

NothingOf(s) ==
  /\ path # s /\ instance # s /\ content[s] = << >>
  /\ \A t \in Scripts : fd[t] # s

Fresh == \A s \in Scripts : pc[s] \in Unstarted => NothingOf(s)

\* A run that is the only one under way has both paths to itself; it finds
\* them free, gets files of its own, and reports what is in its log.
OnlyOne ==
  \A s, t \in Scripts :
    s \notin beside /\ UnderWay(s) /\ UnderWay(t) => s = t

HasLog(s) ==
  /\ path = s /\ fd[s] = s
  /\ \A t \in Scripts \ {s} : fd[t] # s
  /\ \A i \in 1..Len(content[s]) : content[s][i].by = s

LoneRun(s) ==
  /\ pc[s] \in {"lookdebug", "unlinkdebug", "check", "start"} => path = NoFile
  /\ pc[s] = "peek" => debug
  /\ pc[s] \in Owning => instance = s
  /\ pc[s] \in Owning \cup {"count", "sum"} => HasLog(s)
  /\ pc[s] \in {"count", "sum"} => partial[s] = NoOne
  /\ pc[s] = "done" => fd[s] \in Files /\ total[s] = Cardinality(Written(s))
  /\ pc[s] # "raised"

LoneRuns == \A s \in Scripts \ beside : LoneRun(s)

CountInv == CaptureTypeInv /\ InstanceOwned /\ Fresh /\ OnlyOne /\ LoneRuns

\* Until tail_lines() opens the log nothing has been read or printed.  A
\* quiet run's n_events is sampled, without a reader.
Unread(s) == reader[s] = NoFile /\ shown[s] = << >> /\ pos[s] = 0
             /\ (readySeen[s] <=> ~ShowAfterReady)

NotYetRead ==
  \A s \in Scripts :
    pc[s] \in Unstarted \cup {"arm", "peek", "tail", "open", "sleep", "sample"}
         => Unread(s)

\* What one tail has printed, with what readySeen remembers of the lines.
Accepted(s, i) == content[reader[s]][i].kind = "accept4"

TailFaithful(s) ==
  /\ pos[s] <= Len(content[reader[s]])
  /\ readySeen[s] <=> \/ ~ShowAfterReady
                      \/ \E i \in 1..pos[s] : Accepted(s, i)
  /\ Len(shown[s]) = Cardinality(First(s))
  /\ \A i \in 1..Len(shown[s]) :
       shown[s][i] = content[reader[s]][pos[s] - Len(shown[s]) + i]

ShownInv ==
  /\ CaptureTypeInv /\ NotYetRead
  /\ \A s \in Scripts : reader[s] # NoFile => TailFaithful(s)

-----------------------------------------------------------------------------
(***************************************************************************)
(* Types.                                                                  *)
(***************************************************************************)
LEMMA InitType ==
  ASSUME Init
  PROVE  CaptureTypeInv
<1>1. /\ << >> \in Seq(Lines)
      /\ <<[by |-> Earlier, kind |-> "accept4"]>> \in Seq(Lines)
  BY DEF Lines, Files, Kinds
<1>2. content \in [Files -> Seq(Lines)]
  BY <1>1 DEF Init
<1> QED
  BY <1>1, <1>2, CaptureAssumption
   DEF Init, CaptureTypeInv, CaptureTypeOK, Running, Ended, FileOrNone, Files,
       Lines, Kinds

LEMMA NextType ==
  ASSUME CaptureTypeInv, [Next]_captureVars
  PROVE  CaptureTypeInv'
<1> USE DEF CaptureTypeInv, CaptureTypeOK, FileOrNone, Files, fileVars, tailVars
<1>1. CASE UNCHANGED captureVars
  BY <1>1 DEF captureVars
<1>2. ASSUME NEW s \in Scripts, Advance(s)
      PROVE  CaptureTypeInv'
  <2> USE DEF Goes, Running
  <2>1. CASE Setup(s)
    <3>1. beside' \subseteq Scripts
      BY <2>1 DEF Setup
    <3> QED
      BY <2>1, <3>1 DEF Setup, Ended
  <2>2. CASE LookForLog(s)
    BY <2>2 DEF LookForLog
  <2>3. CASE UnlinkLog(s)
    BY <2>3 DEF UnlinkLog, Unlinked, Ended
  <2>a. CASE LookForDebugLog(s)
    BY <2>a DEF LookForDebugLog
  <2>b. CASE UnlinkDebugLog(s)
    BY <2>b DEF UnlinkDebugLog, Ended
  <2>4. CASE CheckRunning(s)
    BY <2>4 DEF CheckRunning, Ended
  <2>5. CASE StartInstance(s)
    <3>1. CASE instance # NoOne
      BY <2>5, <3>1 DEF StartInstance, Ended
    <3>2. CASE instance = NoOne
      <4>1. path' \in Files
        BY <2>5, <3>2 DEF StartInstance, Opened
      <4>2. instance' = s /\ fd' = [fd EXCEPT ![s] = path']
        BY <2>5, <3>2 DEF StartInstance
      <4>3. fd'[instance'] # NoFile
        BY <4>1, <4>2, CaptureAssumption DEF NoFile, Earlier
      <4> QED
        BY <2>5, <3>2, <4>1, <4>2, <4>3 DEF StartInstance
    <3> QED
      BY <3>1, <3>2
  <2>6. CASE ArmBanner(s)
    BY <2>6 DEF ArmBanner, AfterBanner, Tailing
  <2>c. CASE ReadDebugLog(s)
    BY <2>c DEF ReadDebugLog, AfterBanner, Tailing, Ended
  <2>7. CASE Deadline(s)
    BY <2>7 DEF Deadline, Tested
  <2>8. CASE Sample(s)
    <3>1. path # NoFile => Counts(path) \subseteq Nat
      BY DEF Counts
    <3>2. pos' \in [Scripts -> Nat]
      <4>1. CASE UNCHANGED pos
        BY <4>1
      <4>2. ASSUME NEW n \in Nat, pos' = [pos EXCEPT ![s] = n]
            PROVE  pos' \in [Scripts -> Nat]
        BY <4>2
      <4> QED
        BY <2>8, <3>1, <4>1, <4>2 DEF Sample
    <3>3. /\ pc' \in [Scripts -> Running \cup Ended] /\ quiet' = quiet
          /\ \A t \in Scripts : pc'[t] = "read" => pc[t] = "read"
      BY <2>8 DEF Sample, Finally
    <3>4. UNCHANGED <<instance, fd, fileVars, reader, readySeen, shown, total,
                      beside>>
      BY <2>8 DEF Sample
    <3> QED
      BY <3>2, <3>3, <3>4
  <2>9. CASE StopInstance(s)
    BY <2>9 DEF StopInstance, Ended
  <2>10. CASE CountEvents(s)
    <3>1. /\ pc' \in [Scripts -> Running \cup Ended] /\ quiet' = quiet
          /\ \A t \in Scripts : pc'[t] = "read" => pc[t] = "read"
      <4>1. /\ pc' \in {[pc EXCEPT ![s] = "done"], [pc EXCEPT ![s] = "sum"]}
            /\ quiet' = quiet
        BY <2>10 DEF CountEvents
      <4> QED
        BY <4>1 DEF Ended
    <3>2. total' \in [Scripts -> Nat]
      <4>1. total' \in {total, [total EXCEPT ![s] = pos[s]]}
        BY <2>10 DEF CountEvents
      <4> QED
        BY <4>1
    <3>3. UNCHANGED <<instance, fd, fileVars, tailVars, beside>>
      BY <2>10 DEF CountEvents
    <3> QED
      BY <3>1, <3>2, <3>3
  <2>11. CASE SumLines(s)
    <3>1. path # NoFile => Counts(path) \subseteq Nat
      BY DEF Counts
    <3>2. total' \in [Scripts -> Nat]
      <4>1. ASSUME NEW n \in Nat, total' = [total EXCEPT ![s] = n]
            PROVE  total' \in [Scripts -> Nat]
        BY <4>1
      <4> QED
        BY <2>11, <3>1, <4>1 DEF SumLines
    <3> QED
      BY <2>11, <3>2 DEF SumLines, Ended
  <2> QED
    BY <1>2, <2>1, <2>2, <2>3, <2>4, <2>5, <2>6, <2>7, <2>8, <2>9, <2>10,
       <2>11, <2>a, <2>b, <2>c DEF Advance
<1>3. ASSUME NEW s \in Scripts, Follow(s)
      PROVE  CaptureTypeInv'
  <2>1. CASE LogAppears(s)
    BY <2>1 DEF LogAppears, Goes, Running, Tailing
  <2>2. CASE OpenLog(s)
    BY <2>2 DEF OpenLog, Goes, Running, Tailing, Finally
  <2>3. CASE ReadLine(s)
    <3> DEFINE line  == content[reader[s]][pos[s] + 1]
    <3>1. reader[s] \in Files /\ line \in Lines
      BY <2>3 DEF ReadLine, NewLine
    <3>2. IsReady(s, line) \in BOOLEAN
      BY DEF IsReady
    <3>3. Append(shown[s], line) \in Seq(Lines)
      BY <3>1
    <3>4. readySeen' = [readySeen EXCEPT ![s] = IsReady(s, line)]
      BY <2>3 DEF ReadLine
    <3>5. readySeen' \in [Scripts -> BOOLEAN]
      BY <3>2, <3>4
    <3>6. shown' \in [Scripts -> Seq(Lines)]
      <4>1. CASE IsReady(s, line)
        BY <2>3, <3>3, <4>1 DEF ReadLine
      <4>2. CASE ~IsReady(s, line)
        BY <2>3, <4>2 DEF ReadLine
      <4> QED
        BY <4>1, <4>2
    <3>7. pos' \in [Scripts -> Nat]
      BY SMTT(30), <2>3 DEF ReadLine
    <3> QED
      BY <2>3, <3>5, <3>6, <3>7 DEF ReadLine
  <2> QED
    BY <1>3, <2>1, <2>2, <2>3 DEF Follow
<1>4. ASSUME NEW s \in Scripts, Interrupt(s)
      PROVE  CaptureTypeInv'
  BY <1>4 DEF Interrupt, AfterInterrupt, Running, Ended, Tailing
<1>5. ASSUME NEW s \in Scripts, EndLine(s)
      PROVE  CaptureTypeInv'
  <2> DEFINE new == [by |-> s, kind |-> partial[fd[s]]]
  <2>1. fd[s] \in Files /\ new \in Lines
    BY <1>5, CaptureAssumption DEF EndLine, Lines
  <2>2. Append(content[fd[s]], new) \in Seq(Lines)
    BY <2>1
  <2> QED
    BY <1>5, <2>1, <2>2 DEF EndLine
<1>6. ASSUME NEW s \in Scripts, NEW k \in Kinds, BeginLine(s, k)
      PROVE  CaptureTypeInv'
  BY <1>6 DEF BeginLine
<1> QED
  BY <1>1, <1>2, <1>3, <1>4, <1>5, <1>6 DEF Next

\* The script's variables keep their types, and the running instance has a
\* log open (run_capture_inline.py, main()).
THEOREM CaptureTypeCorrect == Spec => []CaptureTypeOK
<1>1. Spec => []CaptureTypeInv
  BY InitType, NextType, PTL DEF Spec
<1>2. CaptureTypeInv => CaptureTypeOK
  BY DEF CaptureTypeInv
<1> QED
  BY <1>1, <1>2, PTL

-----------------------------------------------------------------------------
(***************************************************************************)
(* Whose instance runs, and what the log holds.                            *)
(***************************************************************************)
LEMMA InitCount ==
  ASSUME Init
  PROVE  CountInv
<1>1. CaptureTypeInv
  BY InitType
<1>2. InstanceOwned /\ OnlyOne /\ LoneRuns
  BY CaptureAssumption
     DEF Init, InstanceOwned, OnlyOne, UnderWay, LoneRuns, LoneRun, Owning, Tailing
<1>3. Fresh
  BY CaptureAssumption DEF Init, Fresh, NothingOf, Files, NoFile, Earlier
<1> QED
  BY <1>1, <1>2, <1>3 DEF CountInv

LEMMA NextInstanceOwned ==
  ASSUME CaptureTypeInv, InstanceOwned, [Next]_captureVars
  PROVE  InstanceOwned'
<1> USE DEF InstanceOwned, CaptureTypeInv, CaptureTypeOK, Owning, Tailing
<1>1. CASE UNCHANGED captureVars
  BY <1>1 DEF captureVars
<1>2. ASSUME NEW s \in Scripts, Advance(s)
      PROVE  InstanceOwned'
  <2> USE CaptureAssumption DEF Goes
  <2>. Stranded \subseteq {"killed", "raised"} /\ "raised" \in Stranded
    BY DEF Stranded
  <2>1. CASE Setup(s)
    BY <2>1 DEF Setup
  <2>2. CASE LookForLog(s)
    BY <2>2 DEF LookForLog
  <2>3. CASE UnlinkLog(s)
    BY <2>3 DEF UnlinkLog
  <2>a. CASE LookForDebugLog(s)
    BY <2>a DEF LookForDebugLog
  <2>b. CASE UnlinkDebugLog(s)
    BY <2>b DEF UnlinkDebugLog
  <2>4. CASE CheckRunning(s)
    BY <2>4 DEF CheckRunning
  <2>5. CASE StartInstance(s)
    <3>1. CASE instance # NoOne
      BY <2>5, <3>1 DEF StartInstance
    <3>2. CASE instance = NoOne
      <4>1. instance' = s /\ pc'[s] = "arm"
        BY <2>5, <3>2 DEF StartInstance
      <4> QED
        BY <4>1
    <3> QED
      BY <3>1, <3>2
  <2>6. CASE ArmBanner(s)
    BY <2>6 DEF ArmBanner, AfterBanner
  <2>c. CASE ReadDebugLog(s)
    BY <2>c DEF ReadDebugLog, AfterBanner
  <2>7. CASE Deadline(s)
    <3>1. /\ instance' = instance /\ pc'[s] \in {"stop", "sample"}
          /\ \A t \in Scripts \ {s} : pc'[t] = pc[t]
      BY <2>7 DEF Deadline, Tested
    <3> QED
      BY <3>1
  <2>8. CASE Sample(s)
    BY <2>8 DEF Sample, Finally
  <2>9. CASE StopInstance(s)
    BY <2>9 DEF StopInstance
  <2>10. CASE CountEvents(s)
    BY <2>10 DEF CountEvents
  <2>11. CASE SumLines(s)
    BY <2>11 DEF SumLines
  <2> QED
    BY <1>2, <2>1, <2>2, <2>3, <2>4, <2>5, <2>6, <2>7, <2>8,
       <2>9, <2>10, <2>11, <2>a, <2>b, <2>c DEF Advance
<1>3. ASSUME NEW s \in Scripts, Follow(s)
      PROVE  InstanceOwned'
  BY <1>3 DEF Follow, LogAppears, OpenLog, Finally, ReadLine, Goes
<1>4. ASSUME NEW s \in Scripts, Interrupt(s)
      PROVE  InstanceOwned'
  BY <1>4 DEF Interrupt, AfterInterrupt, Stranded
<1>5. ASSUME NEW s \in Scripts, EndLine(s) \/ \E k \in Kinds : BeginLine(s, k)
      PROVE  InstanceOwned'
  BY <1>5 DEF EndLine, BeginLine
<1> QED
  BY <1>1, <1>2, <1>3, <1>4, <1>5 DEF Next

\* A QEMU that has not been started has no file: only its own start gives a
\* run one, and vmi_write_event() of the running instance alone writes.
LEMMA NextFresh ==
  ASSUME CountInv, [Next]_captureVars
  PROVE  Fresh'
<1> USE DEF CountInv, CaptureTypeInv, CaptureTypeOK, Fresh, NothingOf,
            FileOrNone, Files, fileVars
<1>1. CASE UNCHANGED captureVars
  BY <1>1 DEF captureVars
<1>2. ASSUME NEW s \in Scripts, Advance(s)
      PROVE  Fresh'
  <2> USE DEF Goes, Unstarted
  <2>1. CASE StartInstance(s) /\ instance = NoOne
    <3>1. /\ pc' = [pc EXCEPT ![s] = "arm"] /\ instance' = s
          /\ path' \in {path, s} /\ fd' = [fd EXCEPT ![s] = path']
          /\ content' = content
      BY <2>1 DEF StartInstance, Opened
    <3> QED
      BY <3>1
  <2>2. ASSUME NEW to \in Running \cup Ended,
               pc' = [pc EXCEPT ![s] = to],
               to \in Unstarted => pc[s] \in Unstarted,
               path' \in {path, NoFile}, instance' \in {instance, NoOne},
               UNCHANGED <<fd, content>>
        PROVE  Fresh'
    <3> SUFFICES ASSUME NEW t \in Scripts, pc'[t] \in Unstarted
                 PROVE  NothingOf(t)'
      OBVIOUS
    <3>1. NothingOf(t)
      BY <2>2
    <3> QED
      BY <2>2, <3>1, CaptureAssumption
  <2> HIDE DEF CountInv, Fresh, NothingOf
  <2> USE DEF Running, Ended, Tailing
  <2>3. CASE Setup(s)
    BY <2>2, <2>3 DEF Setup
  <2>4. CASE LookForLog(s)
    BY <2>2, <2>4 DEF LookForLog
  <2>5. CASE UnlinkLog(s)
    BY <2>2, <2>5 DEF UnlinkLog, Unlinked
  <2>a. CASE LookForDebugLog(s) \/ UnlinkDebugLog(s)
    BY <2>2, <2>a DEF LookForDebugLog, UnlinkDebugLog
  <2>6. CASE CheckRunning(s)
    BY <2>2, <2>6 DEF CheckRunning
  <2>7. CASE StartInstance(s) /\ instance # NoOne
    BY <2>2, <2>7 DEF StartInstance
  <2>8. CASE ArmBanner(s) \/ ReadDebugLog(s)
    BY <2>2, <2>8 DEF ArmBanner, ReadDebugLog, AfterBanner
  <2>9. CASE Deadline(s)
    BY <2>2, <2>9 DEF Deadline, Tested
  <2>10. CASE Sample(s)
    BY <2>2, <2>10 DEF Sample, Finally
  <2>11. CASE StopInstance(s)
    BY <2>2, <2>11 DEF StopInstance
  <2>12. CASE CountEvents(s)
    BY <2>2, <2>12 DEF CountEvents
  <2>13. CASE SumLines(s)
    BY <2>2, <2>13 DEF SumLines
  <2> QED
    BY <1>2, <2>1, <2>3, <2>4, <2>5, <2>6, <2>7, <2>8, <2>9, <2>10, <2>11,
       <2>12, <2>13, <2>a DEF Advance
<1>3. ASSUME NEW s \in Scripts, Follow(s)
      PROVE  Fresh'
  <2>1. UNCHANGED <<path, instance, fd, content>>
    BY <1>3 DEF Follow, LogAppears, OpenLog, ReadLine
  <2>2. \A t \in Scripts : pc'[t] \in Unstarted => pc[t] \in Unstarted
    <3> USE DEF Goes, Unstarted, Finally
    <3>1. CASE LogAppears(s)
      BY <3>1 DEF LogAppears
    <3>2. CASE OpenLog(s)
      BY <3>2 DEF OpenLog
    <3>3. CASE ReadLine(s)
      BY <3>3 DEF ReadLine
    <3> QED
      BY <1>3, <3>1, <3>2, <3>3 DEF Follow
  <2> HIDE DEF CaptureTypeInv, CaptureTypeOK
  <2> QED
    BY <2>1, <2>2
<1>4. ASSUME NEW s \in Scripts, Interrupt(s)
      PROVE  Fresh'
  BY <1>4 DEF Interrupt, AfterInterrupt, Unstarted
<1>5. ASSUME NEW s \in Scripts, EndLine(s)
      PROVE  Fresh'
  <2>1. \A f \in Files : f # fd[s] => content'[f] = content[f]
    BY <1>5 DEF EndLine
  <2>2. UNCHANGED <<pc, path, instance, fd>>
    BY <1>5 DEF EndLine
  <2> HIDE DEF CaptureTypeInv, CaptureTypeOK
  <2> QED
    BY <2>1, <2>2
<1>6. ASSUME NEW s \in Scripts, NEW k \in Kinds, BeginLine(s, k)
      PROVE  Fresh'
  BY <1>6 DEF BeginLine
<1> QED
  BY <1>1, <1>2, <1>3, <1>4, <1>5, <1>6 DEF Next

Step(a) == \/ Advance(a) \/ Follow(a) \/ Interrupt(a)
           \/ EndLine(a) \/ \E k \in Kinds : BeginLine(a, k)

\* A step moves its own run only; it gets under way with its setup.
LEMMA StepMoves ==
  ASSUME CaptureTypeInv, NEW a \in Scripts, Step(a)
  PROVE  /\ \A t \in Scripts \ {a} : /\ pc'[t] = pc[t] /\ fd'[t] = fd[t]
                                     /\ total'[t] = total[t]
         /\ beside \subseteq beside'
         /\ pc[a] = "setup" \/ beside' = beside
         /\ UnderWay(a)' => UnderWay(a) \/ Setup(a)
         /\ \/ UnderWay(a) \/ Setup(a) \/ EndLine(a)
            \/ \E k \in Kinds : BeginLine(a, k)
<1> USE DEF CaptureTypeInv, CaptureTypeOK, Goes, UnderWay
<1>1. CASE Setup(a)
  BY <1>1 DEF Setup
<1>2. CASE EndLine(a) \/ \E k \in Kinds : BeginLine(a, k)
  BY <1>2 DEF EndLine, BeginLine
<1>3. CASE Advance(a) /\ ~Setup(a)
  <2> USE DEF Ended
  <2>1. CASE \/ LookForLog(a) \/ UnlinkLog(a) \/ LookForDebugLog(a)
             \/ UnlinkDebugLog(a) \/ CheckRunning(a) \/ ArmBanner(a)
             \/ ReadDebugLog(a) \/ Deadline(a) \/ Sample(a) \/ StopInstance(a)
    BY <2>1 DEF LookForLog, UnlinkLog, LookForDebugLog, UnlinkDebugLog,
         CheckRunning, ArmBanner, ReadDebugLog, Deadline, Tested, Sample,
         StopInstance
  <2>2. CASE StartInstance(a)
    BY <2>2 DEF StartInstance
  <2>3. CASE CountEvents(a)
    BY <2>3 DEF CountEvents
  <2>4. CASE SumLines(a)
    BY <2>4 DEF SumLines
  <2> QED
    BY <1>3, <2>1, <2>2, <2>3, <2>4 DEF Advance
<1>4. CASE Follow(a)
  BY <1>4 DEF Follow, LogAppears, OpenLog, ReadLine, Ended
<1>5. CASE Interrupt(a)
  <2>1. UnderWay(a)
    BY <1>5, CaptureAssumption DEF Interrupt, Ended, Tailing
  <2> QED
    BY <1>5, <2>1 DEF Interrupt
<1> QED
  BY <1>1, <1>2, <1>3, <1>4, <1>5 DEF Step

LEMMA NextOnlyOne ==
  ASSUME CaptureTypeInv, OnlyOne, [Next]_captureVars
  PROVE  OnlyOne'
<1>1. CASE UNCHANGED captureVars
  BY <1>1 DEF captureVars, OnlyOne, UnderWay
<1>2. ASSUME NEW a \in Scripts, Step(a)
      PROVE  OnlyOne'
  <2> SUFFICES ASSUME NEW s \in Scripts, NEW t \in Scripts, s \notin beside',
                      UnderWay(s)', UnderWay(t)', s # t
               PROVE  FALSE
    BY DEF OnlyOne
  <2>1. s \notin beside
    BY <1>2, StepMoves
  <2>2. \A u \in Scripts \ {a} : UnderWay(u)' <=> UnderWay(u)
    BY <1>2, StepMoves DEF UnderWay
  <2>3. UnderWay(a) \/ Setup(a) \/ ~UnderWay(a)'
    BY <1>2, StepMoves
  <2>4. CASE Setup(a) /\ UnderWay(a)'
    <3>1. PICK o \in {s, t} : o # a
      OBVIOUS
    <3>2. UnderWay(o)
      BY <2>2, <3>1
    <3>3. s = a \/ UnderWay(s)
      BY <2>2
    <3>4. pc'[a] = "look"
      BY <2>4 DEF Setup, Goes, UnderWay, Ended, CaptureTypeInv, CaptureTypeOK
    <3>5. beside' = beside \cup {u \in Scripts \ {a} : UnderWay(u)} \cup {a}
      BY <2>4, <3>1, <3>2, <3>4 DEF Setup, Goes, CaptureTypeInv, CaptureTypeOK
    <3> QED
      BY <3>3, <3>5
  <2>5. CASE ~(Setup(a) /\ UnderWay(a)')
    BY <2>1, <2>2, <2>3, <2>5 DEF OnlyOne
  <2> QED
    BY <2>4, <2>5
<1> QED
  BY <1>1, <1>2 DEF Next, Step

\* Lines of others do not count.
LEMMA WrittenKept ==
  ASSUME CaptureTypeInv, NEW a \in Scripts, NEW s \in Scripts,
         \/ a # s /\ EndLine(a)
         \/ UNCHANGED content,
         fd'[s] = fd[s], fd[s] \in Files
  PROVE  Written(s)' = Written(s)
<1>1. CASE UNCHANGED content
  BY <1>1 DEF Written
<1>2. CASE a # s /\ EndLine(a) /\ fd[s] = fd[a]
  <2> DEFINE new == [by |-> a, kind |-> partial[fd[a]]]
             old == content[fd[s]]
  <2>1. old \in Seq(Lines) /\ content'[fd[s]] = Append(old, new)
    BY <1>2 DEF EndLine, CaptureTypeInv, CaptureTypeOK
  <2>2. /\ Len(content'[fd[s]]) = Len(old) + 1 /\ Len(old) \in Nat
        /\ \A i \in 1..Len(old) : content'[fd[s]][i] = old[i]
        /\ content'[fd[s]][Len(old) + 1] = new
    BY <2>1
  <2> QED
    BY <1>2, <2>2 DEF Written
<1>3. CASE EndLine(a) /\ fd[s] # fd[a]
  BY <1>3 DEF EndLine, Written, CaptureTypeInv, CaptureTypeOK
<1> QED
  BY <1>1, <1>2, <1>3

\* Beside a run that is alone another can only write to a file of its own, or
\* not get under way; and what is done stays done.
LEMMA OthersSpare ==
  ASSUME CountInv, NEW a \in Scripts, Step(a), NEW s \in Scripts \ beside',
         a # s
  PROVE  LoneRun(s)'
<1>1. /\ pc'[s] = pc[s] /\ fd'[s] = fd[s] /\ total'[s] = total[s]
      /\ s \notin beside /\ CaptureTypeInv
  BY StepMoves DEF CountInv
<1>2. LoneRun(s)
  BY <1>1 DEF CountInv, LoneRuns
<1>3. CASE UnderWay(s)
  <2>1. ~UnderWay(a)
    BY <1>1, <1>3 DEF CountInv, OnlyOne
  <2>2. CASE Setup(a)
    <3>1. UNCHANGED <<instance, fd, fileVars, tailVars, total>> /\ pc'[a] # "look"
      BY <1>3, <2>2 DEF Setup, Goes, CountInv, CaptureTypeInv, CaptureTypeOK
    <3> QED
      BY <1>1, <1>2, <3>1 DEF LoneRun, HasLog, Written, fileVars
  <2>3. CASE EndLine(a) \/ \E k \in Kinds : BeginLine(a, k)
    <3>1. UNCHANGED <<pc, instance, fd, path, debug>>
      BY <2>3 DEF EndLine, BeginLine
    <3>2. ASSUME fd[a] # s
          PROVE  content'[s] = content[s] /\ partial'[s] = partial[s]
      BY <1>1, <2>3, <3>2
         DEF EndLine, BeginLine, CaptureTypeInv, CaptureTypeOK, Files
    <3>3. pc[s] # "done"
      BY <1>3 DEF UnderWay, Ended
    <3> QED
      BY <1>2, <3>1, <3>2, <3>3 DEF LoneRun, HasLog
  <2> QED
    BY <1>1, <2>1, <2>2, <2>3, StepMoves
<1>4. CASE ~UnderWay(s)
  <2>1. CASE pc[s] # "done"
    BY <1>1, <1>2, <1>4, <2>1
       DEF LoneRun, UnderWay, Ended, Owning, Tailing
  <2>2. CASE pc[s] = "done"
    <3>1. \/ EndLine(a) \/ UNCHANGED content
      BY DEF Step, Advance, Setup, LookForLog, UnlinkLog, LookForDebugLog,
         UnlinkDebugLog, CheckRunning, StartInstance, ArmBanner, ReadDebugLog,
         Deadline, Sample, StopInstance, CountEvents, SumLines, Follow,
         LogAppears, OpenLog, ReadLine, Interrupt, BeginLine, fileVars
    <3>2. Written(s)' = Written(s)
      <4>1. fd[s] \in Files
        BY <1>2, <2>2 DEF LoneRun
      <4> QED
        BY <1>1, <3>1, <4>1, WrittenKept
    <3> QED
      BY <1>1, <1>2, <2>2, <3>2 DEF LoneRun, Owning, Tailing
  <2> QED
    BY <2>1, <2>2
<1> QED
  BY <1>3, <1>4

\* A run that is alone: from the free path through a file of its own to the
\* sum of its lines.
LEMMA OwnSteps ==
  ASSUME CountInv, NEW s \in Scripts, Step(s), s \notin beside'
  PROVE  LoneRun(s)'
<1>1. LoneRun(s) /\ CaptureTypeInv
  BY StepMoves DEF CountInv, LoneRuns
<1>2. instance = s => pc[s] \in Owning \cup {"raised", "killed"}
  BY DEF CountInv, InstanceOwned, Stranded
<1> USE DEF CaptureTypeInv, CaptureTypeOK
<1> DEFINE Free == {"lookdebug", "unlinkdebug", "check", "start"}
           Sums == {"count", "sum"}
<1>3. ASSUME NEW to \in Running \cup Ended, pc' = [pc EXCEPT ![s] = to],
             UNCHANGED <<instance, fd, fileVars>>,
             to \in Free => path = NoFile,
             to = "peek" => debug,
             to \in Owning => pc[s] \in Owning,
             to \in Sums => pc[s] \in Sums,
             to \notin {"done", "raised"}
      PROVE  LoneRun(s)'
  <2>1. pc'[s] = to
    BY <1>1, <1>3
  <2>2. HasLog(s)' <=> HasLog(s)
    BY <1>3 DEF HasLog, fileVars
  <2> QED
    BY <1>1, <1>3, <2>1, <2>2 DEF LoneRun, fileVars
<1>4. CASE StartInstance(s)
  <2>1. CASE instance # NoOne
    <3>1. pc' = [pc EXCEPT ![s] = "failed"] /\ UNCHANGED <<instance, fd, fileVars>>
      BY <1>4, <2>1 DEF StartInstance, Goes, fileVars
    <3>2. /\ "failed" \in Running \cup Ended
          /\ "failed" \notin Free \cup Owning \cup Sums
      BY DEF Ended, Owning, Tailing
    <3> QED
      BY <1>3, <3>1, <3>2
  <2>2. CASE instance = NoOne
    <3>1. pc[s] = "start" /\ path = NoFile /\ NothingOf(s)
      <4>1. pc[s] = "start"
        BY <1>4, <2>2 DEF StartInstance, Goes
      <4> QED
        BY <1>1, <4>1 DEF LoneRun, CountInv, Fresh, Unstarted
    <3>2. /\ pc'[s] = "arm" /\ instance' = s /\ path' = s
          /\ fd' = [fd EXCEPT ![s] = s] /\ content' = content
      BY <1>4, <2>2, <3>1, <1>1 DEF StartInstance, Goes, Opened
    <3>3. HasLog(s)'
      BY <1>1, <3>1, <3>2 DEF HasLog, NothingOf
    <3> QED
      BY <3>2, <3>3 DEF LoneRun, Owning, Tailing
  <2> QED
    BY <2>1, <2>2
<1>5. CASE StopInstance(s)
  <2>1. \/ pc[s] = "stop" /\ pc'[s] = "count"
        \/ pc[s] = "unwind" /\ pc'[s] = "failed"
    BY <1>1, <1>5 DEF StopInstance, Goes
  <2>2. /\ instance = s /\ HasLog(s) /\ partial[fd[s]] = NoOne
        /\ UNCHANGED <<fd, fileVars>>
    BY <1>1, <1>5, <2>1, CaptureAssumption
       DEF StopInstance, LoneRun, Owning, Tailing
  <2>3. HasLog(s)' /\ partial'[s] = NoOne
    BY <2>2 DEF HasLog, fileVars
  <2> QED
    BY <2>1, <2>3 DEF LoneRun, Owning, Tailing
<1>6. CASE CountEvents(s) \/ SumLines(s)
  <2>1. pc[s] \in Sums
    BY <1>6 DEF CountEvents, SumLines, Goes
  <2>2. HasLog(s) /\ partial[s] = NoOne /\ path # NoFile
    BY <1>1, <2>1, CaptureAssumption DEF LoneRun, HasLog
  <2>3. CASE CountEvents(s)
    <3>1. pc' = [pc EXCEPT ![s] = "sum"] /\ UNCHANGED <<instance, fd, fileVars>>
      BY <2>2, <2>3 DEF CountEvents, Goes
    <3> QED
      BY <1>3, <2>1, <3>1 DEF Running, Owning, Tailing
  <2>4. CASE SumLines(s)
    <3>1. /\ pc'[s] = "done" /\ total'[s] \in Counts(s)
          /\ UNCHANGED <<fd, content>>
      BY <1>1, <2>2, <2>4 DEF SumLines, Goes, HasLog, fileVars
    <3>2. total'[s] = Len(content[s]) /\ Len(content[s]) \in Nat
      BY <1>1, <2>2, <3>1 DEF Counts, Files
    <3>3. Written(s)' = 1..Len(content[s])
      BY <2>2, <3>1 DEF Written, HasLog
    <3>4. Cardinality(1..Len(content[s])) = Len(content[s])
      BY <3>2, FS_Interval
    <3>5. fd'[s] \in Files
      BY <2>2, <3>1 DEF HasLog, Files
    <3> QED
      BY <3>1, <3>2, <3>3, <3>4, <3>5 DEF LoneRun, Owning, Tailing
  <2> QED
    BY <1>6, <2>3, <2>4
<1>7. CASE EndLine(s) \/ \E k \in Kinds : BeginLine(s, k)
  <2>1. /\ instance = s /\ fd[s] \in Files
        /\ UNCHANGED <<pc, instance, fd, path, debug>>
    BY <1>1, <1>7, CaptureAssumption DEF EndLine, BeginLine, FileOrNone
  <2>2. pc[s] \in Owning \cup {"killed"}
    BY <1>1, <1>2, <2>1 DEF LoneRun
  <2>3. CASE pc[s] = "killed"
    BY <2>1, <2>3 DEF LoneRun, Owning, Tailing
  <2>4. CASE pc[s] \in Owning
    <3>1. HasLog(s)
      BY <1>1, <2>4 DEF LoneRun
    <3>2. HasLog(s)'
      <4>1. CASE UNCHANGED content
        BY <2>1, <3>1, <4>1 DEF HasLog
      <4>2. CASE EndLine(s)
        <5> DEFINE new == [by |-> s, kind |-> partial[fd[s]]]
                   old == content[s]
        <5>1. old \in Seq(Lines) /\ content'[s] = Append(old, new)
          BY <1>1, <2>1, <3>1, <4>2 DEF EndLine, HasLog, Files
        <5>2. /\ Len(content'[s]) = Len(old) + 1 /\ Len(old) \in Nat
              /\ \A i \in 1..Len(old) : content'[s][i] = old[i]
              /\ content'[s][Len(old) + 1] = new
          BY <5>1
        <5>3. \A i \in 1..Len(content'[s]) : content'[s][i].by = s
          BY <3>1, <5>2 DEF HasLog
        <5> QED
          BY <2>1, <3>1, <5>3 DEF HasLog
      <4> QED
        BY <1>7, <4>1, <4>2 DEF BeginLine
    <3> QED
      BY <1>1, <2>1, <2>4, <3>2 DEF LoneRun, Owning, Tailing
  <2> QED
    BY <2>2, <2>3, <2>4
<1>8. CASE Advance(s) /\ ~StartInstance(s) /\ ~StopInstance(s)
           /\ ~CountEvents(s) /\ ~SumLines(s)
  <2> USE DEF Goes, Running, Ended, Owning, Tailing
  <2>1. CASE Setup(s)
    <3>1. pc'[s] \in {"look", "refused", "failed"}
      BY <1>1, <2>1 DEF Setup
    <3> QED
      BY <3>1 DEF LoneRun
  <2>2. CASE LookForLog(s)
    <3>1. CASE path = NoFile
      BY <1>3, <2>2, <3>1 DEF LookForLog
    <3>2. CASE path # NoFile
      BY <1>3, <2>2, <3>2 DEF LookForLog
    <3> QED
      BY <3>1, <3>2
  <2>3. CASE UnlinkLog(s)
    <3>1. pc'[s] \in {"failed", "lookdebug"} /\ path' = NoFile
      BY <1>1, <2>3 DEF UnlinkLog, Unlinked
    <3> QED
      BY <3>1 DEF LoneRun
  <2>4. CASE LookForDebugLog(s)
    BY <1>1, <1>3, <2>4 DEF LookForDebugLog, LoneRun
  <2>5. CASE UnlinkDebugLog(s)
    <3>1. pc'[s] \in {"failed", "check"} /\ path' = NoFile
      BY <1>1, <2>5 DEF UnlinkDebugLog, LoneRun
    <3> QED
      BY <3>1 DEF LoneRun
  <2>6. CASE CheckRunning(s)
    BY <1>1, <1>3, <2>6 DEF CheckRunning, LoneRun
  <2>7. CASE ArmBanner(s)
    BY <1>3, <2>7 DEF ArmBanner, AfterBanner
  <2>8. CASE ReadDebugLog(s)
    BY <1>1, <1>3, <2>8 DEF ReadDebugLog, AfterBanner, LoneRun
  <2>9. CASE Deadline(s)
    BY <1>3, <2>9 DEF Deadline, Tested
  <2>10. CASE Sample(s)
    BY <1>3, <2>10 DEF Sample, Finally
  <2> QED
    BY <1>8, <2>1, <2>2, <2>3, <2>4, <2>5, <2>6, <2>7, <2>8, <2>9, <2>10
       DEF Advance
<1>9. CASE Follow(s)
  <2> USE DEF Goes, Running, Ended, Owning, Tailing
  <2>1. CASE LogAppears(s)
    BY <1>3, <2>1 DEF LogAppears
  <2>2. CASE OpenLog(s)
    <3>1. CASE path = NoFile
      BY <1>3, <2>2, <3>1 DEF OpenLog, Finally
    <3>2. CASE path # NoFile
      BY <1>3, <2>2, <3>2 DEF OpenLog, Finally
    <3> QED
      BY <3>1, <3>2
  <2>3. CASE ReadLine(s)
    BY <1>1, <2>3 DEF ReadLine, LoneRun, HasLog, Written, fileVars
  <2> QED
    BY <1>9, <2>1, <2>2, <2>3 DEF Follow
<1>10. CASE Interrupt(s)
  <2>1. /\ pc' = [pc EXCEPT ![s] = AfterInterrupt(pc[s])]
        /\ UNCHANGED <<instance, fd, fileVars>>
    BY <1>10 DEF Interrupt
  <2>2. AfterInterrupt(pc[s]) \in {"stop", "sample", "killed"}
    BY DEF AfterInterrupt
  <2>3. AfterInterrupt(pc[s]) \in Owning => pc[s] \in Owning
    BY DEF AfterInterrupt, Owning, Tailing
  <2> QED
    BY <1>3, <2>1, <2>2, <2>3 DEF Running, Ended
<1> QED
  BY <1>4, <1>5, <1>6, <1>7, <1>8, <1>9, <1>10 DEF Step

LEMMA NextLoneRuns ==
  ASSUME CountInv, [Next]_captureVars
  PROVE  LoneRuns'
<1>1. CASE UNCHANGED captureVars
  <2> SUFFICES ASSUME NEW s \in Scripts \ beside
               PROVE  LoneRun(s)'
    BY <1>1 DEF captureVars, LoneRuns
  <2>1. LoneRun(s)
    BY DEF CountInv, LoneRuns
  <2>2. (HasLog(s)' <=> HasLog(s)) /\ Written(s)' = Written(s)
    BY <1>1 DEF captureVars, fileVars, HasLog, Written
  <2> QED
    BY <1>1, <2>1, <2>2 DEF captureVars, fileVars, LoneRun
<1>2. ASSUME NEW a \in Scripts, Step(a)
      PROVE  LoneRuns'
  BY <1>2, OwnSteps, OthersSpare DEF LoneRuns
<1> QED
  BY <1>1, <1>2 DEF Next, Step

LEMMA CountInvariant == Spec => []CountInv
<1>1. CountInv /\ [Next]_captureVars => CountInv'
  <2> SUFFICES ASSUME CountInv, [Next]_captureVars
               PROVE  CountInv'
    OBVIOUS
  <2>1. CaptureTypeInv'
    BY NextType DEF CountInv
  <2>2. InstanceOwned'
    BY NextInstanceOwned DEF CountInv
  <2>3. Fresh' /\ LoneRuns'
    BY NextFresh, NextLoneRuns
  <2>4. OnlyOne'
    BY NextOnlyOne DEF CountInv
  <2> QED
    BY <2>1, <2>2, <2>3, <2>4 DEF CountInv
<1> QED
  BY <1>1, InitCount, PTL DEF Spec

\* When nobody presses Ctrl-C outside the try, a run of the script that has
\* ended, well or badly, has removed its instance (the finally of
\* run_interactive(), and stop_and_remove() after it), unless another run
\* unlinked the debug log between its exists() and its read_text().
THEOREM InstanceRemoved ==
  ASSUME CtrlC \subseteq {"tail"}
  PROVE  Spec => []NoInstanceLeft
<1>1. CountInv => NoInstanceLeft
  BY DEF CountInv, InstanceOwned, LoneRuns, LoneRun, NoInstanceLeft, Stranded,
         Owning, Tailing, Ended
<1> QED
  BY <1>1, CountInvariant, PTL

\* The total a run reports is the number of lines its own QEMU wrote, whatever
\* log was found at the path and wherever Ctrl-C is pressed, if it was the
\* only run under way throughout: the log is unlinked before, and counted
\* after, its instance, and a run that begins later writes to another file.
THEOREM OwnRunCounted == Spec => []CountsOwnRun
<1>1. CountInv => CountsOwnRun
  BY DEF CountInv, LoneRuns, LoneRun, CountsOwnRun
<1> QED
  BY <1>1, CountInvariant, PTL

-----------------------------------------------------------------------------
(***************************************************************************)
(* What the terminal shows.                                                *)
(***************************************************************************)
LEMMA InitShown ==
  ASSUME Init
  PROVE  ShownInv
<1>1. CaptureTypeInv
  BY InitType
<1>2. \A s \in Scripts : Unread(s)
  BY CaptureAssumption DEF Init, Unread
<1> QED
  BY <1>1, <1>2 DEF ShownInv, NotYetRead, Unread

LEMMA NextNotYetRead ==
  ASSUME ShownInv, [Next]_captureVars
  PROVE  NotYetRead'
<1> USE DEF ShownInv, CaptureTypeInv, CaptureTypeOK, NotYetRead, Unread,
            Unstarted, tailVars
<1>1. CASE UNCHANGED captureVars
  BY <1>1 DEF captureVars
<1>2. ASSUME NEW s \in Scripts, Advance(s) /\ ~Sample(s)
      PROVE  NotYetRead'
  <2>1. ASSUME UNCHANGED tailVars,
               NEW to \in Running \cup Ended, pc' = [pc EXCEPT ![s] = to],
               to \in Unstarted \cup {"arm", "peek", "tail", "open", "sleep",
                                     "sample"}
                 => pc[s] \in Unstarted \cup {"arm", "peek", "tail", "sleep"}
        PROVE  NotYetRead'
    BY <2>1
  <2> HIDE DEF NotYetRead, Unread
  <2> USE <2>1 DEF Goes, Running, Ended, Tailing
  <2>2. CASE Setup(s)
    BY <2>2 DEF Setup
  <2>3. CASE LookForLog(s)
    BY <2>3 DEF LookForLog
  <2>4. CASE UnlinkLog(s)
    BY <2>4 DEF UnlinkLog
  <2>a. CASE LookForDebugLog(s)
    BY <2>a DEF LookForDebugLog
  <2>b. CASE UnlinkDebugLog(s)
    BY <2>b DEF UnlinkDebugLog
  <2>5. CASE CheckRunning(s)
    BY <2>5 DEF CheckRunning
  <2>6. CASE StartInstance(s)
    BY <2>6 DEF StartInstance
  <2>7. CASE ArmBanner(s)
    BY <2>7 DEF ArmBanner, AfterBanner
  <2>c. CASE ReadDebugLog(s)
    BY <2>c DEF ReadDebugLog, AfterBanner
  <2>8. CASE Deadline(s)
    BY <2>8 DEF Deadline, Tested
  <2>9. CASE StopInstance(s)
    BY <2>9 DEF StopInstance
  <2>10. CASE CountEvents(s)
    BY <2>10 DEF CountEvents
  <2>11. CASE SumLines(s)
    BY <2>11 DEF SumLines
  <2> QED
    BY <1>2, <2>2, <2>3, <2>4, <2>5, <2>6, <2>7, <2>8,
       <2>9, <2>10, <2>11, <2>a, <2>b, <2>c DEF Advance
<1>3. ASSUME NEW s \in Scripts, Sample(s)
      PROVE  NotYetRead'
  <2>1. /\ UNCHANGED <<reader, readySeen, shown>>
        /\ \A t \in Scripts \ {s} : pos'[t] = pos[t] /\ pc'[t] = pc[t]
        /\ pc'[s] \in {"stop", "unwind"}
    BY <1>3 DEF Sample, Finally, Goes
  <2> QED
    BY <2>1
<1>4. ASSUME NEW s \in Scripts, LogAppears(s) \/ OpenLog(s)
      PROVE  NotYetRead'
  BY <1>4 DEF LogAppears, OpenLog, Finally, Goes
<1>5. ASSUME NEW s \in Scripts, ReadLine(s)
      PROVE  NotYetRead'
  <2>1. /\ pc[s] = "read" /\ UNCHANGED <<pc, reader>>
        /\ \A t \in Scripts \ {s} : /\ pos'[t] = pos[t] /\ shown'[t] = shown[t]
                                    /\ readySeen'[t] = readySeen[t]
    BY <1>5 DEF ReadLine
  <2> QED
    BY <2>1
<1>6. ASSUME NEW s \in Scripts, Interrupt(s)
      PROVE  NotYetRead'
  BY <1>6 DEF Interrupt, AfterInterrupt, Tailing
<1>7. ASSUME NEW s \in Scripts, EndLine(s) \/ \E k \in Kinds : BeginLine(s, k)
      PROVE  NotYetRead'
  BY <1>7 DEF EndLine, BeginLine
<1> QED
  BY <1>1, <1>2, <1>3, <1>4, <1>5, <1>6, <1>7 DEF Next, Advance, Follow

\* First(s) as ReadLine meets it, A being the accepted lines: nothing until
\* a line is accepted, and from then on every line.
FromFirst(A, m) == {i \in 1..m : \E r \in A \cap (1..m) : r <= i}

LEMMA FirstGrows ==
  ASSUME NEW A \in SUBSET Nat, NEW n \in Nat
  PROVE  /\ IsFiniteSet(FromFirst(A, n)) /\ Cardinality(FromFirst(A, n)) \in 0..n
         /\ A \cap (1..n) = {} => FromFirst(A, n) = {}
         /\ A \cap (1..(n + 1)) # {} =>
              Cardinality(FromFirst(A, n + 1)) = Cardinality(FromFirst(A, n)) + 1
<1>1. FromFirst(A, n) \subseteq 1..n
  BY DEF FromFirst
<1>2. /\ IsFiniteSet(FromFirst(A, n))
      /\ Cardinality(FromFirst(A, n)) \in 0..n
  <2>1. IsFiniteSet(1..n) /\ Cardinality(1..n) = n
    BY FS_Interval
  <2> QED
    BY <1>1, <2>1, FS_Subset, FS_CardinalityType
<1>3. A \cap (1..n) = {} => FromFirst(A, n) = {}
  BY DEF FromFirst
<1>4. ASSUME A \cap (1..(n + 1)) # {}
      PROVE  FromFirst(A, n + 1) = FromFirst(A, n) \cup {n + 1}
  BY <1>4 DEF FromFirst
<1>5. (n + 1) \notin FromFirst(A, n)
  BY <1>1
<1> QED
  BY <1>2, <1>3, <1>4, <1>5, FS_AddElement

AcceptedLines(s) ==
  {i \in 1..Len(content[reader[s]]) : ~ShowAfterReady \/ Accepted(s, i)}

LEMMA FirstIs ==
  ASSUME CaptureTypeOK, NEW s \in Scripts, reader[s] # NoFile,
         pos[s] <= Len(content[reader[s]])
  PROVE  First(s) = FromFirst(AcceptedLines(s), pos[s])
<1>1. Len(content[reader[s]]) \in Nat /\ pos[s] \in Nat
  BY DEF CaptureTypeOK, FileOrNone
<1>2. {i \in 1..pos[s] : \/ ~ShowAfterReady
                         \/ content[reader[s]][i].kind = "accept4"}
        = AcceptedLines(s) \cap (1..pos[s])
  BY <1>1 DEF AcceptedLines, Accepted
<1> QED
  BY <1>2 DEF First, FromFirst

\* Lines are only ever appended to a file; and a step that is not a read of
\* this run leaves its tail alone.
TailKept(s) ==
  /\ reader'[s] = reader[s] /\ pos'[s] = pos[s]
  /\ shown'[s] = shown[s] /\ readySeen'[s] = readySeen[s]
Appended ==
  \A f \in Files :
    /\ Len(content[f]) <= Len(content'[f])
    /\ \A i \in 1..Len(content[f]) : content'[f][i] = content[f][i]

LEMMA OnlyAppends ==
  ASSUME CaptureTypeInv, [Next]_captureVars
  PROVE  Appended
<1> USE DEF CaptureTypeInv, CaptureTypeOK, FileOrNone, Files, fileVars
<1>1. CASE UNCHANGED content
  BY <1>1 DEF Appended
<1>2. ASSUME NEW s \in Scripts, EndLine(s)
      PROVE  Appended
  <2> DEFINE new == [by |-> s, kind |-> partial[fd[s]]]
  <2>1. fd[s] \in Files
    BY <1>2, CaptureAssumption DEF EndLine
  <2>2. content' = [content EXCEPT ![fd[s]] = Append(@, new)]
    BY <1>2 DEF EndLine
  <2>3. /\ Len(Append(content[fd[s]], new)) = Len(content[fd[s]]) + 1
        /\ \A i \in 1..Len(content[fd[s]]) :
             Append(content[fd[s]], new)[i] = content[fd[s]][i]
    BY <2>1
  <2> QED
    BY SMTT(30), <2>1, <2>2, <2>3 DEF Appended
<1>3. ASSUME NEW s \in Scripts, Advance(s) \/ Follow(s) \/ Interrupt(s)
      PROVE  UNCHANGED content
  BY <1>3 DEF Advance, Setup, LookForLog, UnlinkLog, LookForDebugLog,
       UnlinkDebugLog, CheckRunning, StartInstance, ArmBanner, ReadDebugLog,
       Deadline, Sample, StopInstance, CountEvents, SumLines, Follow,
       LogAppears, OpenLog, ReadLine, Interrupt
<1> QED
  BY <1>1, <1>2, <1>3 DEF Next, BeginLine, captureVars

LEMMA TailSteps ==
  ASSUME CaptureTypeInv, [Next]_captureVars, NEW s \in Scripts
  PROVE  TailKept(s) \/ ReadLine(s) \/ OpenLog(s) \/ Sample(s)
<1> USE DEF CaptureTypeInv, CaptureTypeOK, tailVars, TailKept
<1>1. CASE UNCHANGED captureVars
  BY <1>1 DEF captureVars
<1>2. ASSUME NEW a \in Scripts, Advance(a) /\ ~Sample(a)
      PROVE  UNCHANGED tailVars
  BY <1>2 DEF Advance, Setup, LookForLog, UnlinkLog, LookForDebugLog,
       UnlinkDebugLog, CheckRunning, StartInstance, ArmBanner, ReadDebugLog,
       Deadline, StopInstance, CountEvents, SumLines
<1>3. ASSUME NEW a \in Scripts, LogAppears(a) \/ Interrupt(a) \/ EndLine(a)
                                \/ \E k \in Kinds : BeginLine(a, k)
      PROVE  UNCHANGED tailVars
  BY <1>3 DEF LogAppears, Interrupt, EndLine, BeginLine
<1>4. ASSUME NEW a \in Scripts \ {s}, ReadLine(a) \/ OpenLog(a) \/ Sample(a)
      PROVE  TailKept(s)
  BY <1>4 DEF ReadLine, OpenLog, Sample
<1>5. ASSUME NEW a \in Scripts,
             \/ Advance(a) \/ Follow(a) \/ Interrupt(a)
             \/ EndLine(a) \/ \E k \in Kinds : BeginLine(a, k)
      PROVE  TailKept(s) \/ ReadLine(s) \/ OpenLog(s) \/ Sample(s)
  <2>1. UNCHANGED tailVars \/ ReadLine(a) \/ OpenLog(a) \/ Sample(a)
    BY <1>2, <1>3, <1>5 DEF Follow
  <2>2. UNCHANGED tailVars => TailKept(s)
    OBVIOUS
  <2> HIDE DEF TailKept
  <2> QED
    BY <1>4, <2>1, <2>2
<1> QED
  BY <1>1, <1>5 DEF Next

LEMMA ShownLength ==
  ASSUME CaptureTypeOK, NEW s \in Scripts, reader[s] # NoFile, TailFaithful(s)
  PROVE  Len(shown[s]) \in 0..pos[s]
<1>1. First(s) = FromFirst(AcceptedLines(s), pos[s])
  BY FirstIs DEF TailFaithful
<1>2. AcceptedLines(s) \in SUBSET Nat /\ pos[s] \in Nat
  BY DEF AcceptedLines, CaptureTypeOK
<1>3. Cardinality(First(s)) \in 0..pos[s]
  BY <1>1, <1>2, FirstGrows
<1> QED
  BY <1>3 DEF TailFaithful

LEMMA TailKeptFaithful ==
  ASSUME ShownInv, CaptureTypeInv', Appended, NEW s \in Scripts,
         reader[s] # NoFile, TailKept(s)
  PROVE  TailFaithful(s)'
<1> DEFINE f == reader[s]
           n == pos[s]
<1> USE DEF TailKept
<1>1. /\ f \in Files /\ n \in Nat
      /\ Len(content[f]) \in Nat /\ Len(content'[f]) \in Nat
      /\ shown[s] \in Seq(Lines)
  <2>1. f \in Files /\ n \in Nat /\ shown[s] \in Seq(Lines)
        /\ content[f] \in Seq(Lines)
    BY DEF ShownInv, CaptureTypeInv, CaptureTypeOK, FileOrNone
  <2>2. content'[f] \in Seq(Lines)
    BY <2>1 DEF CaptureTypeInv, CaptureTypeOK
  <2> QED
    BY <2>1, <2>2
<1>2. TailFaithful(s)
  BY DEF ShownInv
<1>3. n <= Len(content'[f]) /\ \A i \in 1..n : content'[f][i] = content[f][i]
  BY <1>1, <1>2 DEF Appended, TailFaithful
<1>4. First(s)' = First(s)
  <2>1. {i \in 1..n : \/ ~ShowAfterReady
                      \/ content'[f][i].kind = "accept4"}
          = {i \in 1..n : \/ ~ShowAfterReady
                          \/ content[f][i].kind = "accept4"}
    BY <1>3
  <2>2. reader'[s] = f /\ pos'[s] = n
    OBVIOUS
  <2> HIDE DEF TailKept
  <2> QED
    BY <2>1, <2>2 DEF First
<1>5. Len(shown[s]) \in 0..n
  BY <1>2, ShownLength DEF ShownInv, CaptureTypeInv
<1>6. (\E i \in 1..n : Accepted(s, i)') <=> \E i \in 1..n : Accepted(s, i)
  BY <1>3 DEF Accepted
<1>7. ASSUME NEW i \in 1..Len(shown[s])
      PROVE  shown[s][i] = content'[f][n - Len(shown[s]) + i]
  <2>1. n - Len(shown[s]) + i \in 1..n
    BY <1>1, <1>5
  <2>2. shown[s][i] = content[f][n - Len(shown[s]) + i]
    BY <1>2 DEF TailFaithful
  <2> QED
    BY <1>3, <2>1, <2>2
<1> QED
  BY <1>2, <1>3, <1>4, <1>6, <1>7 DEF TailFaithful

\* tail_lines() has opened the log: at its beginning, with nothing shown.
LEMMA OpenLogFaithful ==
  ASSUME ShownInv, CaptureTypeInv', NEW s \in Scripts, OpenLog(s),
         reader'[s] # NoFile
  PROVE  TailFaithful(s)'
<1>1. /\ pos'[s] = 0 /\ shown'[s] = << >>
      /\ readySeen'[s] <=> ~ShowAfterReady
  BY DEF OpenLog, Goes, ShownInv, NotYetRead, Unread
<1>2. First(s)' = {}
  BY <1>1 DEF First
<1>3. Len(content'[reader'[s]]) \in Nat
  BY DEF CaptureTypeInv, CaptureTypeOK, FileOrNone
<1> QED
  BY <1>1, <1>2, <1>3, FS_EmptySet DEF TailFaithful

LEMMA ReadLineFaithful ==
  ASSUME ShownInv, CaptureTypeInv', NEW s \in Scripts, ReadLine(s)
  PROVE  TailFaithful(s)'
<1> DEFINE f    == reader[s]
           n    == pos[s]
           line == content[f][n + 1]
<1>1. /\ f \in Files /\ n \in Nat /\ n < Len(content[f])
      /\ Len(content[f]) \in Nat /\ shown[s] \in Seq(Lines)
      /\ reader' = reader /\ content' = content /\ pos'[s] = n + 1
  BY DEF ReadLine, NewLine, ShownInv, CaptureTypeInv, CaptureTypeOK,
     FileOrNone, fileVars
<1>2. TailFaithful(s)
  BY <1>1, CaptureAssumption DEF ShownInv, Files, NoFile, Earlier
<1>3. /\ First(s) = FromFirst(AcceptedLines(s), n)
      /\ First(s)' = FromFirst(AcceptedLines(s), n + 1)
  <2>1. First(s) = FromFirst(AcceptedLines(s), n)
    <3>1. f # NoFile /\ pos[s] <= Len(content[f])
      <4>1. f # NoFile
        BY <1>1, CaptureAssumption DEF Files, NoFile, Earlier
      <4> QED
        BY <1>1, <4>1
    <3>2. CaptureTypeOK
      BY DEF ShownInv, CaptureTypeInv
    <3> QED
      BY <3>1, <3>2, FirstIs
  <2>2. {i \in 1..(n + 1) : \/ ~ShowAfterReady
                            \/ content[f][i].kind = "accept4"}
          = AcceptedLines(s) \cap (1..(n + 1))
    BY <1>1 DEF AcceptedLines, Accepted
  <2> QED
    BY <1>1, <2>1, <2>2 DEF First, FromFirst
<1>4. AcceptedLines(s) \in SUBSET Nat
  BY DEF AcceptedLines
<1>5. AcceptedLines(s) \cap (1..(n + 1)) # {} <=> IsReady(s, line)
  <2>1. readySeen[s] <=> ~ShowAfterReady \/ \E i \in 1..n : Accepted(s, i)
    BY <1>2 DEF TailFaithful
  <2>2. AcceptedLines(s) \cap (1..(n + 1))
          = {i \in 1..(n + 1) : ~ShowAfterReady \/ Accepted(s, i)}
    BY <1>1 DEF AcceptedLines
  <2>3. (\E i \in 1..(n + 1) : ~ShowAfterReady \/ Accepted(s, i))
          <=> \/ ~ShowAfterReady \/ Accepted(s, n + 1)
              \/ \E i \in 1..n : Accepted(s, i)
    BY <1>1
  <2>4. Accepted(s, n + 1) <=> line.kind = "accept4"
    BY DEF Accepted
  <2>5. IsReady(s, line) <=> readySeen[s] \/ line.kind = "accept4"
    BY DEF IsReady
  <2> QED
    BY <2>1, <2>2, <2>3, <2>4, <2>5
<1>6. readySeen'[s] <=> \/ ~ShowAfterReady
                        \/ \E i \in 1..(n + 1) : Accepted(s, i)
  <2>1. readySeen'[s] = IsReady(s, line)
    BY DEF ReadLine, ShownInv, CaptureTypeInv, CaptureTypeOK
  <2>2. AcceptedLines(s) \cap (1..(n + 1))
          = {i \in 1..(n + 1) : ~ShowAfterReady \/ Accepted(s, i)}
    BY <1>1 DEF AcceptedLines
  <2>3. 1 \in 1..(n + 1)
    BY <1>1
  <2> QED
    BY <1>5, <2>1, <2>2, <2>3
<1>7. (readySeen[s] <=> \/ ~ShowAfterReady
                        \/ \E i \in 1..pos[s] : Accepted(s, i))'
  BY <1>1, <1>6 DEF Accepted
<1>8. CASE IsReady(s, line)
  <2>1. shown'[s] = Append(shown[s], line)
    BY <1>8 DEF ReadLine, ShownInv, CaptureTypeInv, CaptureTypeOK
  <2>2. Len(shown'[s]) = Len(shown[s]) + 1 /\ Len(shown[s]) \in 0..n
    <3>1. Len(shown[s]) \in 0..n
      BY <1>1, <1>2, ShownLength, CaptureAssumption
         DEF ShownInv, CaptureTypeInv, Files, NoFile, Earlier
    <3> QED
      BY <1>1, <2>1, <3>1
  <2>3. Len(shown'[s]) = Cardinality(First(s)')
    <3>1. Cardinality(First(s)') = Cardinality(First(s)) + 1
      BY <1>1, <1>3, <1>4, <1>5, <1>8, FirstGrows
    <3>2. Len(shown[s]) = Cardinality(First(s))
      BY <1>2 DEF TailFaithful
    <3> QED
      BY <2>2, <3>1, <3>2
  <2>4. ASSUME NEW i \in 1..Len(shown'[s])
        PROVE  shown'[s][i] = content[f][n + 1 - Len(shown'[s]) + i]
    <3>1. CASE i = Len(shown'[s])
      <4>1. shown'[s][i] = line
        BY <1>1, <2>1, <2>2, <3>1
      <4>2. n + 1 - Len(shown'[s]) + i = n + 1
        BY <1>1, <2>2, <3>1
      <4> QED
        BY <4>1, <4>2
    <3>2. CASE i \in 1..Len(shown[s])
      <4>1. shown'[s][i] = shown[s][i]
        BY <1>1, <2>1, <3>2
      <4>2. shown[s][i] = content[f][n - Len(shown[s]) + i]
        BY <1>2, <3>2 DEF TailFaithful
      <4>3. n - Len(shown[s]) + i = n + 1 - Len(shown'[s]) + i
        BY <1>1, <2>2
      <4> QED
        BY <4>1, <4>2, <4>3
    <3> QED
      BY <2>2, <2>4, <3>1, <3>2
  <2>5. pos'[s] <= Len(content'[reader'[s]])
    BY <1>1
  <2>6. \A i \in 1..Len(shown'[s]) : shown'[s][i]
          = content'[reader'[s]][pos'[s] - Len(shown'[s]) + i]
    <3> TAKE i \in 1..Len(shown'[s])
    <3>1. shown'[s][i] = content[f][n + 1 - Len(shown'[s]) + i]
      BY <2>4
    <3>2. content'[reader'[s]] = content[f]
      BY <1>1
    <3>3. pos'[s] = n + 1
      BY <1>1
    <3>4. n \in Nat /\ Len(shown'[s]) \in Nat
      BY <1>1, <2>2
    <3>5. pos'[s] - Len(shown'[s]) + i = n + 1 - Len(shown'[s]) + i
      BY <3>3, <3>4
    <3> QED
      BY <3>1, <3>2, <3>5
  <2> QED
    BY <1>7, <2>3, <2>5, <2>6 DEF TailFaithful
<1>9. CASE ~IsReady(s, line)
  <2>1. shown'[s] = shown[s]
    BY <1>9 DEF ReadLine
  <2>2. AcceptedLines(s) \cap (1..(n + 1)) = {}
    BY <1>5, <1>9
  <2>3. FromFirst(AcceptedLines(s), n) = {} /\ FromFirst(AcceptedLines(s), n + 1) = {}
    BY <1>1, <2>2 DEF FromFirst
  <2>4. Len(shown[s]) = 0
    BY <1>2, <1>3, <2>3, FS_EmptySet DEF TailFaithful
  <2>5. Len(shown'[s]) = Cardinality(First(s)')
    BY <1>3, <2>1, <2>3, <2>4, FS_EmptySet
  <2>6. pos'[s] <= Len(content'[reader'[s]])
    BY <1>1
  <2>7. 1..Len(shown'[s]) = {}
    BY <2>1, <2>4
  <2> QED
    BY <1>7, <2>5, <2>6, <2>7 DEF TailFaithful
<1> QED
  BY <1>8, <1>9

\* What tail_lines() yields and run_interactive() prints is the log: each
\* line once, whole, in order, from the first line or from the first accept4.
THEOREM LiveViewFaithful == Spec => []ShownFaithful
<1>1. ShownInv /\ [Next]_captureVars => ShownInv'
  <2> SUFFICES ASSUME ShownInv, [Next]_captureVars
               PROVE  ShownInv'
    OBVIOUS
  <2>1. CaptureTypeInv' /\ NotYetRead'
    BY NextType, NextNotYetRead DEF ShownInv
  <2>2. ASSUME NEW s \in Scripts, reader'[s] # NoFile
        PROVE  TailFaithful(s)'
    <3>1. CASE TailKept(s)
      BY <2>1, <2>2, <3>1, OnlyAppends, TailKeptFaithful DEF ShownInv, TailKept
    <3>2. CASE ReadLine(s)
      BY <2>1, <3>2, ReadLineFaithful
    <3>3. CASE OpenLog(s)
      BY <2>1, <2>2, <3>3, OpenLogFaithful
    <3>4. CASE Sample(s)
      BY <2>2, <3>4 DEF Sample, Goes, ShownInv, NotYetRead, Unread
    <3> QED
      BY <3>1, <3>2, <3>3, <3>4, TailSteps DEF ShownInv
  <2> QED
    BY <2>1, <2>2 DEF ShownInv
<1>2. ShownInv => ShownFaithful
  BY DEF ShownInv, TailFaithful, ShownFaithful
<1> QED
  BY <1>1, <1>2, InitShown, PTL DEF Spec
=============================================================================
