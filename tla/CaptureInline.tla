---------------------------- MODULE CaptureInline ----------------------------
(***************************************************************************)
(* run_capture_inline.py: the script that starts a monitored instance,     *)
(* shows its JSONL log live and counts it at the end.  The actors are the  *)
(* runs of the script, the QEMU each one starts, and the user's Ctrl-C;    *)
(* they meet in the paths of the log and of its debug log and in the       *)
(* instance's name, which are the defaults and so the same for all of      *)
(* them.  An earlier run may have left its files there.                    *)
(*                                                                         *)
(* A file is what a path named when QEMU opened it: unlinking the path     *)
(* leaves the file with those who have it open.                            *)
(***************************************************************************)
EXTENDS Naturals, Sequences, FiniteSets

CONSTANTS Scripts,      \* runs of the script; also names the file each creates
          MaxLines,     \* bound on the lines a QEMU writes
          Timed,        \* runs with --duration
          MayBeQuiet,   \* runs that may have --quiet
          ShowAfterReady, \* --show-after-ready given?
          CtrlC         \* the places where the user may press Ctrl-C

NoOne == "nobody"
NoFile == "no file"
Earlier == "earlier run"        \* also names the log it has left

ASSUME CaptureAssumption ==
  /\ NoOne \notin Scripts /\ NoFile \notin Scripts /\ Earlier \notin Scripts
  /\ MaxLines \in Nat
  /\ Timed \subseteq Scripts /\ MayBeQuiet \subseteq Scripts
  /\ ShowAfterReady \in BOOLEAN
  /\ CtrlC \subseteq {"arm", "tail", "stop"}

Tailing == {"tail", "open", "read"}     \* the places in tail_lines()
Running == {"setup", "look", "unlink", "lookdebug", "unlinkdebug", "check",
            "start", "arm", "peek", "sleep", "sample", "stop", "unwind",
            "count", "sum"} \cup Tailing
Ended == {"done", "refused", "failed", "killed",
          "raised"}             \* an exception between start and try
Kinds == {"accept4", "other"}   \* what --show-after-ready tells apart

VARIABLES
  quiet,     \* the runs with --quiet
  pc,        \* script -> its place in main()
  instance,  \* the script whose instance has the name, or NoOne
  path,      \* the file log_path names, or NoFile
  debug,     \* does debug_log_path name a file?
  fd,        \* script -> the file its QEMU has open (vmi_log_fp)
  content,   \* file -> its complete lines, each with its writer
  partial,   \* file -> kind of the line being written, or NoOne
  reader,    \* script -> the file tail_lines() has open, or NoFile
  pos,       \* script -> n_events: the lines read so far
  readySeen, \* script -> ready_seen
  shown,     \* script -> lines printed
  total,     \* script -> total_events reported
  beside     \* history: runs that were not the only one under way throughout

fileVars == <<path, debug, content, partial>>
tailVars == <<reader, pos, readySeen, shown>>
captureVars == <<quiet, pc, instance, fd, fileVars, tailVars, total, beside>>

Files == Scripts \cup {Earlier}
Lines == [by : Files, kind : Kinds]
FileOrNone == Files \cup {NoFile}

CaptureTypeOK ==
  /\ quiet \subseteq MayBeQuiet
  /\ pc \in [Scripts -> Running \cup Ended]
  /\ instance \in Scripts \cup {NoOne}
  /\ path \in FileOrNone /\ debug \in BOOLEAN
  /\ fd \in [Scripts -> FileOrNone]
  /\ instance # NoOne => fd[instance] # NoFile
  /\ content \in [Files -> Seq(Lines)]
  /\ partial \in [Files -> Kinds \cup {NoOne}]
  /\ reader \in [Scripts -> FileOrNone]
  /\ pos \in [Scripts -> Nat]
  /\ readySeen \in [Scripts -> BOOLEAN]
  /\ shown \in [Scripts -> Seq(Lines)]
  /\ total \in [Scripts -> Nat] /\ beside \subseteq Scripts

Init ==
  /\ quiet \in SUBSET MayBeQuiet
  /\ pc = [s \in Scripts |-> "setup"]
  /\ instance = NoOne
  /\ path \in {NoFile, Earlier} /\ debug \in BOOLEAN
  /\ fd = [s \in Scripts |-> NoFile]
  /\ content = [f \in Files |-> IF f = Earlier
                                   THEN <<[by |-> f, kind |-> "accept4"]>>
                                   ELSE << >>]
  /\ partial = [f \in Files |-> NoOne]
  /\ reader = [s \in Scripts |-> NoFile]
  /\ pos = [s \in Scripts |-> 0]
  /\ readySeen = [s \in Scripts |-> ~ShowAfterReady]
  /\ shown = [s \in Scripts |-> << >>]
  /\ total = [s \in Scripts |-> 0]
  /\ beside = {}

Goes(s, from, to) ==
  pc[s] = from /\ pc' = [pc EXCEPT ![s] = to] /\ UNCHANGED quiet

UnderWay(s) == pc[s] \notin {"setup"} \cup Ended

-----------------------------------------------------------------------------
(***************************************************************************)
(* main(), up to the running instance.                                     *)
(***************************************************************************)
\* --qemu names no file, nm or objdump finds no address, or all is well.
Setup(s) ==
  LET others == {o \in Scripts \ {s} : UnderWay(o)}
  IN  /\ \/ /\ Goes(s, "setup", "look")
            /\ beside' = IF others = {} THEN beside ELSE beside \cup others \cup {s}
         \/ /\ \E to \in {"refused", "failed"} : Goes(s, "setup", to)
            /\ UNCHANGED beside
      /\ UNCHANGED <<instance, fd, fileVars, tailVars, total>>

\* exists(), then unlink(): "start fresh so line counts below are for this
\* run only".  FileNotFoundError if another run was quicker.
LookForLog(s) ==
  /\ Goes(s, "look", IF path = NoFile THEN "lookdebug" ELSE "unlink")
  /\ UNCHANGED <<instance, fd, fileVars, tailVars, total, beside>>

\* (Faulty variant: what an earlier run has left is appended to.)
Kept     == path
Unlinked == NoFile

UnlinkLog(s) ==
  /\ Goes(s, "unlink", IF path = NoFile THEN "failed" ELSE "lookdebug")
  /\ path' = Unlinked
  /\ UNCHANGED <<instance, fd, debug, content, partial, tailVars, total, beside>>

\* The same with the debug log.
LookForDebugLog(s) ==
  /\ Goes(s, "lookdebug", IF debug THEN "unlinkdebug" ELSE "check")
  /\ UNCHANGED <<instance, fd, fileVars, tailVars, total, beside>>

UnlinkDebugLog(s) ==
  /\ Goes(s, "unlinkdebug", IF debug THEN "check" ELSE "failed")
  /\ debug' = FALSE
  /\ UNCHANGED <<instance, fd, path, content, partial, tailVars, total, beside>>

CheckRunning(s) ==
  /\ Goes(s, "check", IF instance = NoOne THEN "start" ELSE "refused")
  /\ UNCHANGED <<instance, fd, fileVars, tailVars, total, beside>>

\* fopen(log_path, "a").  (Faulty variant: "r+", which creates nothing.)
OpenedExisting(s) == path
Opened(s)         == IF path = NoFile THEN s ELSE path

\* kraft run refuses a name in use and check=True raises; otherwise QEMU
\* opens the log for append, creating it if the path names no file, and so
\* the debug log.
StartInstance(s) ==
  /\ IF instance # NoOne
       THEN Goes(s, "start", "failed") /\ UNCHANGED <<instance, fd, path, debug>>
       ELSE /\ Goes(s, "start", "arm")
            /\ instance' = s
            /\ path' = Opened(s) /\ debug' = TRUE
            /\ fd' = [fd EXCEPT ![s] = path']
  /\ UNCHANGED <<content, partial, tailVars, total, beside>>

AfterBanner(s) == IF s \in quiet THEN "sleep" ELSE "tail"

\* wait_for_armed_message(): at most ARM_CHECK_TIMEOUT_S, for the banner;
\* exists(), then read_text().  A round that finds no such line in the debug
\* log changes nothing.
ArmBanner(s) ==
  /\ \/ Goes(s, "arm", AfterBanner(s))
     \/ Goes(s, "arm", "peek") /\ debug
  /\ UNCHANGED <<instance, fd, fileVars, tailVars, total, beside>>

\* FileNotFoundError if another run has unlinked it in between: the try has
\* not begun.
ReadDebugLog(s) ==
  /\ Goes(s, "peek", IF debug THEN AfterBanner(s) ELSE "raised")
  /\ UNCHANGED <<instance, fd, fileVars, tailVars, total, beside>>

-----------------------------------------------------------------------------
(***************************************************************************)
(* tail_lines() and run_interactive().                                     *)
(***************************************************************************)
\* path.exists(), and then open(), which may find the path unlinked by now:
\* FileNotFoundError passes through the finally.
LogAppears(s) ==
  /\ Goes(s, "tail", "open") /\ path # NoFile
  /\ UNCHANGED <<instance, fd, fileVars, tailVars, total, beside>>

\* The instance is stopped on the exception's way up.
Finally == "unwind"

OpenLog(s) ==
  /\ Goes(s, "open", IF path = NoFile THEN Finally ELSE "read")
  /\ reader' = [reader EXCEPT ![s] = path]
  /\ UNCHANGED <<instance, fd, fileVars, pos, readySeen, shown, total, beside>>

\* (Faulty variant: only the accept4 lines themselves.)
IsAccept(s, line) == line.kind = "accept4"
IsReady(s, line)  == readySeen[s] \/ line.kind = "accept4"

\* A line can be read to its end.  (Faulty variant: the last one is left.)
NewLineButOne(s) == pos[s] + 1 < Len(content[reader[s]])
NewLine(s)       == pos[s] < Len(content[reader[s]])

\* A complete line is counted, and printed once nginx is ready.  An
\* incomplete one is rewound over: nothing changes.
ReadLine(s) ==
  /\ pc[s] = "read" /\ NewLine(s)
  /\ LET line  == content[reader[s]][pos[s] + 1]
         ready == IsReady(s, line)
     IN  /\ pos' = [pos EXCEPT ![s] = @ + 1]
         /\ readySeen' = [readySeen EXCEPT ![s] = ready]
         /\ shown' = IF ready THEN [shown EXCEPT ![s] = Append(@, line)]
                              ELSE shown
  /\ UNCHANGED <<quiet, pc, instance, fd, fileVars, reader, total, beside>>

\* deadline is tested before every read, so lines may be left unread.  A
\* quiet run has slept.
\* (Faulty variant: not tested while waiting for the file to appear.)
TestedOnceOpen(s) == Goes(s, "read", "stop") \/ Goes(s, "sleep", "sample")
Tested(s) == \/ Goes(s, "tail", "stop") \/ Goes(s, "read", "stop")
             \/ Goes(s, "sleep", "sample")

Deadline(s) ==
  /\ s \in Timed /\ Tested(s)
  /\ UNCHANGED <<instance, fd, fileVars, tailVars, total, beside>>

\* A count of the lines of a file takes in the one being written, if some of
\* that is there already.
Counts(f) == {Len(content[f])}
             \cup (IF partial[f] = NoOne THEN {} ELSE {Len(content[f]) + 1})

\* --quiet: the lines are counted before the instance is stopped; exists()
\* and open(), again.
Sample(s) ==
  /\ \/ /\ Goes(s, "sample", "stop")
        /\ \E n \in IF path = NoFile THEN {0} ELSE Counts(path) :
             pos' = [pos EXCEPT ![s] = n]
     \/ Goes(s, "sample", Finally) /\ path = NoFile /\ UNCHANGED pos
  /\ UNCHANGED <<instance, fd, fileVars, reader, readySeen, shown, total, beside>>

\* KeyboardInterrupt: caught around the tail and the sleep, fatal before the
\* try and inside the finally.
\* (Faulty variant: caught nowhere.)
NowhereCaught(p) == "killed"
AfterInterrupt(p) ==
  IF p \in Tailing THEN "stop" ELSE IF p = "sleep" THEN "sample" ELSE "killed"

Interrupt(s) ==
  /\ \/ pc[s] \in CtrlC
     \/ "arm" \in CtrlC /\ pc[s] = "peek"
     \/ "tail" \in CtrlC /\ pc[s] \in Tailing \cup {"sleep"}
  /\ pc' = [pc EXCEPT ![s] = AfterInterrupt(@)]
  /\ UNCHANGED <<quiet, instance, fd, fileVars, tailVars, total, beside>>

\* stop_and_remove(): by name; that QEMU first completes its line.
StopInstance(s) ==
  /\ Goes(s, "stop", "count") \/ Goes(s, "unwind", "failed")
  /\ instance # NoOne => partial[fd[instance]] = NoOne
  /\ instance' = NoOne
  /\ UNCHANGED <<fd, fileVars, tailVars, total, beside>>

\* Lines of the file the path names by now, else n_events.
CountEvents(s) ==
  /\ IF path = NoFile
       THEN Goes(s, "count", "done") /\ total' = [total EXCEPT ![s] = pos[s]]
       ELSE Goes(s, "count", "sum") /\ UNCHANGED total
  /\ UNCHANGED <<instance, fd, fileVars, tailVars, beside>>

SumLines(s) ==
  /\ IF path = NoFile
       THEN Goes(s, "sum", "failed") /\ UNCHANGED total
       ELSE /\ Goes(s, "sum", "done")
            /\ \E n \in Counts(path) : total' = [total EXCEPT ![s] = n]
  /\ UNCHANGED <<instance, fd, fileVars, tailVars, beside>>

-----------------------------------------------------------------------------
(***************************************************************************)
(* QEMU: vmi_write_event().  A reader may find part of a line.             *)
(***************************************************************************)
Written(s) == {i \in 1..Len(content[fd[s]]) : content[fd[s]][i].by = s}

BeginLine(s, k) ==
  /\ instance = s /\ partial[fd[s]] = NoOne
  /\ Cardinality(Written(s)) < MaxLines
  /\ partial' = [partial EXCEPT ![fd[s]] = k]
  /\ UNCHANGED <<quiet, pc, instance, fd, path, debug, content, tailVars, total,
                 beside>>

EndLine(s) ==
  /\ instance = s /\ partial[fd[s]] # NoOne
  /\ content' = [content EXCEPT ![fd[s]] =
                   Append(@, [by |-> s, kind |-> partial[fd[s]]])]
  /\ partial' = [partial EXCEPT ![fd[s]] = NoOne]
  /\ UNCHANGED <<quiet, pc, instance, fd, path, debug, tailVars, total, beside>>

-----------------------------------------------------------------------------
Advance(s) == \/ Setup(s) \/ LookForLog(s) \/ UnlinkLog(s)
              \/ LookForDebugLog(s) \/ UnlinkDebugLog(s)
              \/ CheckRunning(s) \/ StartInstance(s)
              \/ ArmBanner(s) \/ ReadDebugLog(s)
              \/ Deadline(s) \/ Sample(s) \/ StopInstance(s)
              \/ CountEvents(s) \/ SumLines(s)

Follow(s) == LogAppears(s) \/ OpenLog(s) \/ ReadLine(s)

Next == \E s \in Scripts :
          \/ Advance(s) \/ Follow(s) \/ Interrupt(s)
          \/ EndLine(s) \/ \E k \in Kinds : BeginLine(s, k)

\* Scripts run, the poll loop comes round, QEMU finishes the line it is on.
Fairness == \A s \in Scripts :
  /\ WF_captureVars(Advance(s))
  /\ WF_captureVars(Follow(s))
  /\ WF_captureVars(EndLine(s))

Spec == Init /\ [][Next]_captureVars
FairSpec == Spec /\ Fairness

-----------------------------------------------------------------------------
First(s) ==
  LET ready == {i \in 1..pos[s] : \/ ~ShowAfterReady
                                  \/ content[reader[s]][i].kind = "accept4"}
  IN  {i \in 1..pos[s] : \E r \in ready : r <= i}

\* The terminal shows exactly the file's lines, in order, none torn, none
\* twice, none skipped, from the first accept4 on if that was asked for.
ShownFaithful ==
  \A s \in Scripts :
    reader[s] # NoFile =>
      /\ Len(shown[s]) = Cardinality(First(s))
      /\ \A i \in 1..Len(shown[s]) :
           shown[s][i] = content[reader[s]][pos[s] - Len(shown[s]) + i]

\* "The JSONL file remains the single source of truth": while a capture
\* runs, its QEMU's log is the file found at the log path.
LogReachable ==
  \A s \in Scripts : instance = s => path = fd[s]

\* "start fresh so line counts below are for this run only"
\* (run_capture_inline.py:267): what an earlier run has left, and what other
\* runs wrote before or write later, is not in the reported count, unless
\* another run was under way at the same time.
CountsOwnRun ==
  \A s \in Scripts \ beside :
    pc[s] = "done" => total[s] = Cardinality(Written(s))

\* A run of the script that has ended has left no instance behind, but for
\* the one that another run has caught between start and try.
NoInstanceLeft ==
  \A s \in Scripts :
    pc[s] \in Ended /\ instance = s => pc[s] = "raised" /\ s \in beside

\* With --duration a run ends by itself, whatever QEMU keeps writing and
\* whatever becomes of the log.
CaptureEnds == \A s \in Timed : <>(pc[s] \in Ended)

\* What is in the log is in time printed, as long as it is the log that the
\* path names.
Caught(s) == pc[s] \in Tailing /\ path = fd[s] => pos[s] = Len(content[fd[s]])
LiveViewCatchesUp == \A s \in Scripts : []<>(Caught(s))
=============================================================================
