------------------------------ MODULE EventLine ------------------------------
(***************************************************************************)
(* One event, from the registers at the hook to the text on the terminal:  *)
(* vmi_write_event() with its binary search for the call's name, and       *)
(* run_capture_inline.py's format_ret(), which reads the line back.  The   *)
(* gdb capture's line for the same registers (monitor.py) is GdbName and   *)
(* GdbArgs.                                                                *)
(*                                                                         *)
(* Registers are 64 bits wide and an int 32: Word and Half are the numbers *)
(* 2^64 and 2^31, or smaller ones of the same proportions.  A text is what *)
(* can be read off it; time stamps and an errno's name are left out.       *)
(***************************************************************************)
EXTENDS Integers, Sequences

CONSTANTS Word,         \* 2^64
          Half,         \* 2^31
          Table,        \* vmi_syscall_table: nr and argc, ordered by nr
          PyTable,      \* SYSCALL_TABLE: nr -> argc
          Returns,      \* values a call may return, as int64_t
          MaxErrno,     \* 4095
          PointerLike   \* 0x10000

\* "regenerate via the same script": the tables must have stayed the same.
ASSUME TableAssumption ==
  /\ Word \in Nat /\ Half \in Nat \ {0} /\ 2 * Half <= Word
  /\ Table \in Seq([nr : 0..Half-1, argc : 0..6])
  /\ \A i, j \in 1..Len(Table) : i < j => Table[i].nr < Table[j].nr
  /\ PyTable \in [{Table[i].nr : i \in 1..Len(Table)} -> 0..6]
  /\ \A i \in 1..Len(Table) : PyTable[Table[i].nr] = Table[i].argc

ASSUME ReturnAssumption ==
  /\ Returns \subseteq Int
  /\ MaxErrno \in Nat /\ PointerLike \in Nat

VARIABLES
  pc,        \* "guest", "lookup", "write", "written" or "shown"
  num,       \* RAX at the entry hook
  arg,       \* the argument registers, all the same here
  lo, hi,    \* the bounds of the search
  info,      \* index of the entry found, from 0, or NoInfo
  outcome,   \* what became of the call: its kind of line and its return value
  line,      \* the line written
  shown      \* what format_ret() made of it

vars == <<pc, num, arg, lo, hi, info, outcome, line, shown>>

NoInfo == -1
Display(how, n) == [how |-> how, value |-> n]
NoText == Display("nothing", 0)

\* A known name, or "syscall_" and a number.
KnownName(nr) == [known |-> TRUE, of |-> nr]
NumberName(n) == [known |-> FALSE, of |-> n]
NoLine == [name |-> NumberName(0), args |-> << >>, keys |-> {}, ret |-> << >>]

Calls == [kind : {"none", "value", "unfinished"}, ret : Returns]
NoCall == [kind |-> "none", ret |-> 0]

Init ==
  /\ pc = "guest" /\ num = 0 /\ arg = 0
  /\ lo = 0 /\ hi = 0 /\ info = NoInfo
  /\ outcome = NoCall /\ line = NoLine /\ shown = NoText

-----------------------------------------------------------------------------
\* A register as a signed number, and cut to an int.
Signed(n) == IF 2 * n < Word THEN n ELSE n - Word
ToInt(n)  == LET low == n % (2 * Half) IN
             IF low < Half THEN low ELSE low - 2 * Half

\* The guest's call, of any number, with small or with "negative" arguments.
Call ==
  /\ pc = "guest" /\ pc' = "lookup"
  /\ num' \in 0..Word-1 /\ arg' \in {0, Word - 1}
  /\ lo' = 0 /\ hi' = Len(Table) /\ info' = NoInfo
  /\ UNCHANGED <<outcome, line, shown>>

\* vmi_syscall_lookup((int)num), once round the loop.
\* (Faulty variants: the middle is not given up; one too many is.)
Mid == (lo + hi) \div 2
Nr  == Table[Mid + 1].nr
StaysAtMid == Mid
RightOfMid == Mid + 1
LeftByTwo == Mid - 1
LeftOfMid == Mid

Look ==
  /\ pc = "lookup" /\ lo < hi
  /\ \/ Nr = ToInt(num) /\ info' = Mid /\ pc' = "write" /\ UNCHANGED <<lo, hi>>
     \/ Nr < ToInt(num) /\ lo' = RightOfMid /\ UNCHANGED <<pc, hi, info>>
     \/ Nr > ToInt(num) /\ hi' = LeftOfMid /\ UNCHANGED <<pc, lo, info>>
  /\ UNCHANGED <<num, arg, outcome, line, shown>>

NotFound ==
  /\ pc = "lookup" /\ lo >= hi
  /\ pc' = "write"
  /\ UNCHANGED <<num, arg, lo, hi, info, outcome, line, shown>>

-----------------------------------------------------------------------------
Argc == IF info = NoInfo THEN 6 ELSE Table[info + 1].argc
Args(n, a) == [i \in 1..n |-> a]

\* "-4095..-1 is -errno".
IsErrno(ret) == ret < 0 /\ ret >= -MaxErrno

\* The keys of a line after its arguments; "ret": null is << >>.
RetKeys(call) ==
  IF call.kind = "none" THEN {}
  ELSE IF call.kind = "unfinished" THEN {"ret", "unfinished"}
  ELSE IF IsErrno(call.ret) THEN {"ret", "err", "dur_us"}
  ELSE {"ret", "dur_us"}

WriteEvent ==
  /\ pc = "write" /\ pc' = "written"
  /\ outcome' \in Calls
  /\ line' = [name |-> IF info = NoInfo THEN NumberName(num)
                                        ELSE KnownName(Table[info + 1].nr),
              args |-> Args(Argc, arg),
              keys |-> RetKeys(outcome'),
              ret  |-> IF outcome'.kind = "value" THEN <<outcome'.ret>>
                                                  ELSE << >>]
  /\ UNCHANGED <<num, arg, lo, hi, info, shown>>

\* monitor.py, stop(): gdb's registers are signed, and SYSCALL_TABLE.get()
\* is asked for the whole number.
GdbName(n) == IF Signed(n) \in DOMAIN PyTable THEN KnownName(Signed(n))
                                              ELSE NumberName(Signed(n))
GdbArgs(n, a) ==
  Args(IF Signed(n) \in DOMAIN PyTable THEN PyTable[Signed(n)] ELSE 6, Signed(a))

\* format_ret(): the keys are asked for in this order; None cannot be
\* compared, and a key that is not there cannot be read.
\* (Faulty variant: whether the call is unfinished is asked last.)
RetText(evt) ==
  IF evt.ret = << >> \/ "dur_us" \notin evt.keys THEN Display("exception", 0)
  ELSE IF "err" \in evt.keys THEN Display("error", evt.ret[1])
  ELSE IF evt.ret[1] >= PointerLike THEN Display("hex", evt.ret[1])
  ELSE Display("decimal", evt.ret[1])

FormatUnfinishedLast(evt) ==
  IF "ret" \in evt.keys THEN RetText(evt)
  ELSE IF "unfinished" \in evt.keys THEN Display("unfinished", 0)
  ELSE Display("nothing", 0)

FormatRet(evt) ==
  IF "unfinished" \in evt.keys THEN Display("unfinished", 0)
  ELSE IF "ret" \notin evt.keys THEN Display("nothing", 0)
  ELSE RetText(evt)

FormatEvent ==
  /\ pc = "written" /\ pc' = "shown"
  /\ shown' = FormatRet(line)
  /\ UNCHANGED <<num, arg, lo, hi, info, outcome, line>>

NextCall ==
  /\ pc = "shown" /\ pc' = "guest"
  /\ num' = 0 /\ arg' = 0 /\ lo' = 0 /\ hi' = 0 /\ info' = NoInfo
  /\ outcome' = NoCall /\ line' = NoLine /\ shown' = NoText

-----------------------------------------------------------------------------
Next == Call \/ Look \/ NotFound \/ WriteEvent \/ FormatEvent \/ NextCall

Spec == Init /\ [][Next]_vars

\* The lookup is straight code.
FairSpec == Spec /\ WF_vars(Look \/ NotFound)

-----------------------------------------------------------------------------
\* Whatever the number, the search stays within the array, and the two
\* captures name a call alike and print as many arguments, as long as its
\* number fits an int; the arguments are alike if they are not negative
\* (vmi_syscall_lookup(), and monitor.py's SYSCALL_TABLE.get()).
LoggedAlike ==
  /\ pc = "lookup" /\ lo < hi => Mid + 1 \in 1..Len(Table)
  /\ pc = "written" /\ num < Half =>
       /\ line.name = GdbName(num)
       /\ Len(line.args) = Len(GdbArgs(num, arg))
       /\ arg = 0 => line.args = GdbArgs(num, arg)

\* Without the bound on the number: a number above 2^32 is given the name of
\* the call that its lower half is the number of (the cast to int).
AlwaysAlike == pc = "written" => line.name = GdbName(num)

\* Every line the monitor writes can be shown, and the terminal tells an
\* error from a value, a value from no value, and which one
\* (vmi_write_event() and format_ret(): the one's keys, the other's order).
ShownAsReturned ==
  pc = "shown" =>
    /\ outcome.kind = "value" =>
         /\ shown.value = outcome.ret
         /\ shown.how = "error" <=> outcome.ret \in (-MaxErrno)..(-1)
         /\ shown.how \in {"error", "hex", "decimal"}
    /\ outcome.kind = "unfinished" => shown.how = "unfinished"
    /\ outcome.kind = "none" => shown.how = "nothing"

\* The search ends, for numbers that are in the table and that are not.
LookupEnds == (pc = "lookup") ~> (pc = "write")
=============================================================================
