----------------------------- MODULE StraceCheck -----------------------------
(***************************************************************************)
(* validate_strace.py: is what was captured from outside the guest what    *)
(* the guest's own tracer printed?  The two logs come about first, written *)
(* by the same calls at different moments: Unikraft's tracer prints a call *)
(* with its result, when it returns, and so does the inline monitor; the   *)
(* gdb capture writes a call when it is entered.  Both captures name a     *)
(* call from a table of their own, and write syscall_N for a number that   *)
(* is not in it.  Then the script reads both logs and reports the longest  *)
(* run they share.                                                         *)
(*                                                                         *)
(* External: the guest and its tracer; difflib's longest match without     *)
(* junk: the longest, then the earliest in strace, then in vmi.  The table *)
(* of the inline monitor is not full (that is SyscallPairing's matter).    *)
(* The similarity ratio and the diff are display.                          *)
(***************************************************************************)
EXTENDS Naturals, Sequences, FiniteSets

CONSTANTS Threads,      \* guest threads
          CallNames,    \* system call names, as the tracer prints them
          VmiName,      \* the name a capture writes for each of them
          MaxCalls,     \* bound on the calls made
          MaxNoise      \* bound on console lines that are no strace lines

None == "none"
Noise == "noise"        \* no `name(...) ='
Torn == "torn"          \* a line cut short

ASSUME StraceCheckAssumption ==
  /\ MaxCalls \in Nat /\ MaxNoise \in Nat
  /\ None \notin CallNames /\ Noise \notin CallNames /\ Torn \notin CallNames
  /\ DOMAIN VmiName = CallNames
  /\ \A c \in CallNames : VmiName[c] \notin (CallNames \ {c}) \cup {Torn}

\* The names a capture writes; those that are not the tracer's are syscall_N.
Written == {VmiName[c] : c \in CallNames}
Unlisted == Written \ CallNames

NoMatch == [a |-> 0, b |-> 0, size |-> 0]

VARIABLES
  mode,      \* "entry" (gdb capture) or "return" (inline capture)
  stage,     \* "guest", then the script: "parse", "match", "done", "failed"
  capture,   \* is it attached: "before", "on", "off"
  doing,     \* thread -> the call it is in, or None
  caught,    \* threads whose call the capture has seen being entered
  calls,     \* calls made so far
  overlap,   \* have two calls ever been in flight at once?
  console,   \* the guest's console log: names, Noise
  jsonl,     \* the capture's log: names Written, Torn
  strace,    \* strace_seq: names
  vmi,       \* vmi_seq: names
  longest,   \* longest
  onlyInVmi  \* only_in_vmi

logs      == <<console, jsonl>>
guest     == <<capture, doing, caught, calls, overlap>>
report    == <<strace, vmi, longest, onlyInVmi>>
checkVars == <<mode, stage, guest, logs, report>>

\* The inline monitor is there from the boot on.
CheckInit ==
  /\ mode \in {"entry", "return"}
  /\ stage = "guest"
  /\ capture = IF mode = "entry" THEN "before" ELSE "on"
  /\ doing = [t \in Threads |-> None] /\ caught = {}
  /\ calls = 0 /\ overlap = FALSE
  /\ console = << >> /\ jsonl = << >> /\ strace = << >> /\ vmi = << >>
  /\ longest = NoMatch /\ onlyInVmi = {}

InFlight == {t \in Threads : doing[t] # None}

-----------------------------------------------------------------------------
(***************************************************************************)
(* The guest, its tracer and the capture.                                  *)
(***************************************************************************)
\* monitor.py's stop() writes its line at once, under the name it looks up;
\* the inline monitor holds it.
Enter(t, c) ==
  /\ stage = "guest" /\ doing[t] = None /\ calls < MaxCalls
  /\ doing' = [doing EXCEPT ![t] = c]
  /\ calls' = calls + 1
  /\ overlap' = (overlap \/ InFlight # {})
  /\ caught' = IF capture = "on" THEN caught \cup {t} ELSE caught
  /\ jsonl' = IF capture = "on" /\ mode = "entry"
                THEN Append(jsonl, VmiName[c]) ELSE jsonl
  /\ UNCHANGED <<mode, stage, capture, console, report>>

Return(t) ==
  /\ stage = "guest" /\ t \in InFlight
  /\ doing' = [doing EXCEPT ![t] = None]
  /\ caught' = caught \ {t}
  /\ console' = Append(console, doing[t])
  /\ jsonl' = IF t \in caught /\ mode = "return"
                THEN Append(jsonl, VmiName[doing[t]]) ELSE jsonl
  /\ UNCHANGED <<mode, stage, capture, calls, overlap, report>>

ConsoleNoise ==
  /\ stage = "guest"
  /\ Cardinality({i \in 1..Len(console) : console[i] = Noise}) < MaxNoise
  /\ console' = Append(console, Noise)
  /\ UNCHANGED <<mode, stage, guest, jsonl, report>>

Attach ==
  /\ stage = "guest" /\ mode = "entry" /\ capture = "before"
  /\ capture' = "on"
  /\ UNCHANGED <<mode, stage, doing, caught, calls, overlap, logs, report>>

Detach ==
  /\ stage = "guest" /\ mode = "entry" /\ capture = "on"
  /\ capture' = "off"
  /\ UNCHANGED <<mode, stage, doing, caught, calls, overlap, logs, report>>

\* The instance is stopped.  The inline monitor writes the calls it holds,
\* in the order they were made (any, here); killed, it writes part of a
\* line.
Unfinished ==
  {s \in [1..Cardinality(caught) -> Written] :
     \E f \in [1..Cardinality(caught) -> caught] :
       /\ \A i, j \in DOMAIN f : f[i] = f[j] => i = j
       /\ \A i \in DOMAIN f : s[i] = VmiName[doing[f[i]]]}

GuestEnds ==
  /\ stage = "guest" /\ stage' = "parse"
  /\ \/ mode = "return" /\ \E s \in Unfinished : jsonl' = jsonl \o s
     \/ mode = "return" /\ jsonl' = Append(jsonl, Torn)
     \/ mode = "entry" /\ UNCHANGED jsonl
  /\ UNCHANGED <<mode, guest, console, report>>

-----------------------------------------------------------------------------
(***************************************************************************)
(* The script.                                                             *)
(***************************************************************************)
\* STRACE_LINE_RE.
StraceLine(text) == text # Noise

\* parse_strace_log(): the names after each line read, one appended for
\* every line that matches.
NamesUpTo(s) ==
  LET names[i \in 0..Len(s)] ==
        IF i = 0 THEN << >>
        ELSE IF StraceLine(s[i]) THEN Append(names[i - 1], s[i])
                                 ELSE names[i - 1]
  IN  names

StraceNames(s) == NamesUpTo(s)[Len(s)]

\* parse_vmi_jsonl(): json.loads() raises on a torn line.
Parse ==
  /\ stage = "parse"
  /\ IF \E i \in 1..Len(jsonl) : jsonl[i] = Torn
       THEN stage' = "failed" /\ UNCHANGED <<strace, vmi>>
       ELSE /\ stage' = "match"
            /\ strace' = StraceNames(console)
            /\ vmi' = jsonl
  /\ UNCHANGED <<mode, guest, logs, longest, onlyInVmi>>

Runs(s, v) ==
  {r \in [a : 1..Len(s), b : 1..Len(v), size : 1..Len(v)] :
     /\ r.a + r.size <= Len(s) + 1 /\ r.b + r.size <= Len(v) + 1
     /\ \A k \in 0..(r.size - 1) : s[r.a + k] = v[r.b + k]}

\* (Faulty variant: the first block, not the longest.)
FirstMatch(s, v) ==
  IF Runs(s, v) = {} THEN NoMatch
  ELSE CHOOSE r \in Runs(s, v) :
         \A q \in Runs(s, v) : \/ r.a < q.a
                               \/ r.a = q.a /\ r.b < q.b
                               \/ r.a = q.a /\ r.b = q.b /\ r.size <= q.size

LongestMatch(s, v) ==
  IF Runs(s, v) = {} THEN NoMatch
  ELSE CHOOSE r \in Runs(s, v) :
         \A q \in Runs(s, v) : \/ r.size > q.size
                               \/ r.size = q.size /\ r.a < q.a
                               \/ r.size = q.size /\ r.a = q.a /\ r.b <= q.b

NamesIn(s) == {s[i] : i \in 1..Len(s)}

\* (Faulty variant: the difference the other way round.)
OnlyInStrace == NamesIn(strace) \ NamesIn(vmi)
OnlyInCapture == NamesIn(vmi) \ NamesIn(strace)

Compare ==
  /\ stage = "match" /\ stage' = "done"
  /\ longest' = LongestMatch(strace, vmi)
  /\ onlyInVmi' = OnlyInCapture
  /\ UNCHANGED <<mode, guest, logs, strace, vmi>>

CheckNext ==
  \/ \E t \in Threads : Return(t) \/ \E c \in CallNames : Enter(t, c)
  \/ ConsoleNoise \/ Attach \/ Detach \/ GuestEnds \/ Parse \/ Compare

CheckSpec == CheckInit /\ [][CheckNext]_checkVars

-----------------------------------------------------------------------------
\* vmi[i] .. vmi[j] is a stretch of calls that had returned when the guest was
\* stopped, each under the name the tracer gives it.
NamedStretch(i, j) ==
  /\ i \in 1..Len(vmi) /\ j \in i..(Len(vmi) - Cardinality(caught))
  /\ \A k \in i..j : vmi[k] \in CallNames

StretchesConfirmed ==
  \A i, j \in 1..Len(vmi) : NamedStretch(i, j) => j + 1 - i <= longest.size

\* "What matters is whether VMI's syscalls ... match ground truth exactly and
\* in order" (validate_strace.py:87-90).  They do up to the next syscall_N,
\* where the two part (README.md:421-425): the run that the script reports is
\* at least as long as the longest stretch without one.  For the gdb capture
\* this needs a guest that has one call in flight at a time.
CaptureConfirmed ==
  stage = "done" /\ (mode = "entry" => ~overlap) => StretchesConfirmed

\* "Syscall names seen ONLY in VMI capture": such a name is that of a call
\* still in flight, in any case, or it is a syscall_N.
OnlyUnreturned ==
  stage = "done" =>
    onlyInVmi \subseteq Unlisted \cup {VmiName[doing[t]] : t \in caught}

\* As CaptureConfirmed, of any guest.
EntryCaptureConfirmed == stage = "done" => StretchesConfirmed
=============================================================================
