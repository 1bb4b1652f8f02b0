------------------------------ MODULE LogProofs ------------------------------
(***************************************************************************)
(* The lines of the logs, and what is made of them.                        *)
(*                                                                         *)
(* One line (EventLine), for every table, every word and int width and     *)
(* every return value: the binary search finds what a search of the whole  *)
(* table would, and the line is as the gdb capture's.                      *)
(*                                                                         *)
(* Two logs (StraceCheck), for every number of threads, names, calls and   *)
(* lines: what validate_strace.py reports of them is true, and confirms    *)
(* what the captures are meant to write.                                   *)
(***************************************************************************)
EXTENDS EventLine, StraceCheck,
        FiniteSetTheorems, SequenceTheorems, WellFoundedInduction, TLAPS

-----------------------------------------------------------------------------
(***************************************************************************)
(* One line.                                                               *)
(***************************************************************************)
\* What is not among the entries before lo is below, and what is not among
\* those from hi on is above the number.
Searching ==
  /\ info = NoInfo
  /\ \A i \in 1..lo : Table[i].nr < ToInt(num)
  /\ \A i \in (hi + 1)..Len(Table) : Table[i].nr > ToInt(num)

\* The entry of the number, or NoInfo where there is none.
Searched ==
  IF info = NoInfo THEN \A i \in 1..Len(Table) : Table[i].nr # ToInt(num)
                   ELSE Table[info + 1].nr = ToInt(num)

AsWritten ==
  /\ line.name = IF info = NoInfo THEN NumberName(num)
                                  ELSE KnownName(Table[info + 1].nr)
  /\ line.args = Args(Argc, arg)
  /\ line.keys = RetKeys(outcome)
  /\ line.ret = IF outcome.kind = "value" THEN <<outcome.ret>> ELSE << >>

EventInv ==
  /\ num \in 0..Word-1 /\ arg \in {0, Word - 1}
  /\ lo \in 0..Len(Table) /\ hi \in 0..Len(Table)
  /\ info \in {NoInfo} \cup 0..(Len(Table) - 1)
  /\ pc = "lookup" => Searching
  /\ pc \in {"write", "written"} => Searched
  /\ pc \in {"written", "shown"} => outcome \in Calls /\ AsWritten
  /\ pc = "shown" => shown = FormatRet(line)

LEMMA IntOfSmall == \A n \in 0..Word-1 : n < Half => ToInt(n) = n
<1> SUFFICES ASSUME NEW n \in 0..Word-1, n < Half PROVE ToInt(n) = n
  OBVIOUS
<1> DEFINE m == 2 * Half
<1>1. m \in Nat /\ n \in Nat /\ n < m
  BY TableAssumption
<1>2. n % m = n
  <2> HIDE DEF m
  <2> QED  BY <1>1, SMT
<1> QED  BY <1>2 DEF ToInt

LEMMA IntOfAny == \A n \in 0..Word-1 : ToInt(n) \in Int
<1> SUFFICES ASSUME NEW n \in 0..Word-1 PROVE ToInt(n) \in Int
  OBVIOUS
<1> DEFINE m == 2 * Half
<1>1. m \in Nat \ {0} /\ n \in Nat
  BY TableAssumption
<1>2. n % m \in Int
  <2> HIDE DEF m
  <2> QED  BY <1>1, SMT
<1> QED  BY <1>2, TableAssumption DEF ToInt

LEMMA Entries == /\ Len(Table) \in Nat
                 /\ \A i \in 1..Len(Table) : /\ Table[i].nr \in 0..Half-1
                                            /\ Table[i].argc \in 0..6
<1>1. Table \in Seq([nr : 0..Half-1, argc : 0..6])
  BY TableAssumption
<1>2. Len(Table) \in Nat
  BY <1>1
<1>3. ASSUME NEW i \in 1..Len(Table)
      PROVE  Table[i].nr \in 0..Half-1 /\ Table[i].argc \in 0..6
  <2> DEFINE Entry == [nr : 0..Half-1, argc : 0..6]
  <2>1. Table[i] \in Entry
    <3> HIDE DEF Entry
    <3> QED  BY <1>1, ElementOfSeq DEF Entry
  <2> QED  BY <2>1
<1> QED  BY <1>2, <1>3

LEMMA WordPositive == Word \in Nat /\ 0 \in 0..Word-1
  BY TableAssumption

LEMMA EventInit == Init => EventInv
<1> SUFFICES ASSUME Init PROVE EventInv
  OBVIOUS
<1>1. lo \in 0..Len(Table) /\ hi \in 0..Len(Table)
  BY Entries DEF Init
<1>2. pc = "guest" /\ num = 0 /\ arg = 0 /\ info = NoInfo
  BY DEF Init
<1> QED  BY <1>1, <1>2, WordPositive DEF EventInv

LEMMA EventStep == EventInv /\ [Next]_vars => EventInv'
<1> SUFFICES ASSUME EventInv, [Next]_vars PROVE EventInv'
  OBVIOUS
<1> USE Entries
<1>1. CASE Call
  <2>1. Searching'
    BY <1>1 DEF Call, Searching
  <2>2. arg' \in {0, Word - 1} /\ num' \in 0..Word-1 /\ pc' = "lookup"
    BY <1>1 DEF Call
  <2>3. lo' \in 0..Len(Table) /\ hi' \in 0..Len(Table) /\ info' = NoInfo
    BY <1>1 DEF Call
  <2> QED  BY <2>1, <2>2, <2>3 DEF EventInv
<1>2. CASE Look
  <2> DEFINE n == ToInt(num)
  <2>1. n \in Int /\ n' = n
    BY <1>2, IntOfAny DEF Look, EventInv, ToInt
  <2>2. /\ pc = "lookup" /\ lo < hi /\ Searching
        /\ lo \in 0..Len(Table) /\ hi \in 0..Len(Table)
    BY <1>2 DEF Look, EventInv
  <2>3. Mid \in 0..(Len(Table) - 1) /\ lo <= Mid /\ Mid < hi
    BY <2>2 DEF Mid
  <2>4. Nr = Table[Mid + 1].nr /\ Nr \in Int
    BY <2>3 DEF Nr
  <2>5. \A i \in 1..Len(Table) : /\ i < Mid + 1 => Table[i].nr < Nr
                                 /\ i > Mid + 1 => Table[i].nr > Nr
    <3>1. Mid + 1 \in 1..Len(Table)
      BY <2>3
    <3>2. ASSUME NEW i \in 1..Len(Table), NEW j \in 1..Len(Table), i < j
          PROVE  Table[i].nr < Table[j].nr
      BY <3>2, TableAssumption
    <3> QED  BY <2>4, <3>1, <3>2
  <2> HIDE DEF n
  <2>6. CASE Nr = n /\ info' = Mid /\ pc' = "write" /\ UNCHANGED <<lo, hi>>
    <3>1. Searched'
      <4>1. info' # NoInfo
        BY <2>3, <2>6 DEF NoInfo
      <4>2. Table[info' + 1].nr = n'
        BY <2>1, <2>4, <2>6
      <4> QED  BY <4>1, <4>2 DEF Searched, n
    <3> QED  BY <1>2, <2>2, <2>3, <2>6, <3>1 DEF Look, EventInv
  <2>7. CASE Nr < n /\ lo' = RightOfMid /\ UNCHANGED <<pc, hi, info>>
    <3>1. \A i \in 1..(Mid + 1) : Table[i].nr < n
      <4>1. \A i \in 1..Mid : Table[i].nr \in Int /\ Table[i].nr < Nr
        BY <2>3, <2>5
      <4> QED  BY <2>1, <2>3, <2>4, <2>7, <4>1
    <3>2. Searching'
      BY <2>1, <2>2, <2>7, <3>1 DEF Searching, RightOfMid, n
    <3> QED  BY <1>2, <2>2, <2>3, <2>7, <3>2 DEF Look, EventInv, RightOfMid
  <2>8. CASE Nr > n /\ hi' = LeftOfMid /\ UNCHANGED <<pc, lo, info>>
    <3>1. \A i \in (Mid + 1)..Len(Table) : Table[i].nr > n
      <4>1. \A i \in (Mid + 2)..Len(Table) : Table[i].nr \in Int /\ Table[i].nr > Nr
        BY <2>3, <2>5
      <4> QED  BY <2>1, <2>3, <2>4, <2>8, <4>1
    <3>2. Searching'
      BY <2>1, <2>2, <2>8, <3>1 DEF Searching, LeftOfMid, n
    <3> QED  BY <1>2, <2>2, <2>3, <2>8, <3>2 DEF Look, EventInv, LeftOfMid
  <2> QED  BY <1>2, <2>6, <2>7, <2>8 DEF Look, n
<1>3. CASE NotFound
  <2>1. ToInt(num) \in Int
    BY IntOfAny DEF EventInv
  <2>2. Searching /\ lo >= hi /\ lo \in Nat /\ hi \in Nat
    BY <1>3 DEF NotFound, EventInv
  <2>3. Searched
    BY <2>1, <2>2 DEF Searching, Searched
  <2>4. Searched'
    BY <1>3, <2>3 DEF NotFound, Searched, ToInt
  <2> QED  BY <1>3, <2>4 DEF NotFound, EventInv
<1>4. CASE WriteEvent
  <2>1. Searched'
    BY <1>4 DEF WriteEvent, EventInv, Searched, ToInt
  <2>2. AsWritten'
    BY <1>4 DEF WriteEvent, AsWritten, Argc
  <2> QED  BY <1>4, <2>1, <2>2 DEF WriteEvent, EventInv
<1>5. CASE FormatEvent
  <2>1. AsWritten'
    BY <1>5 DEF FormatEvent, EventInv, AsWritten, Argc
  <2>2. shown' = FormatRet(line)'
    BY <1>5 DEF FormatEvent
  <2> QED  BY <1>5, <2>1, <2>2 DEF FormatEvent, EventInv
<1>6. CASE NextCall
  BY <1>6, TableAssumption DEF NextCall, EventInv, NoInfo
<1>7. CASE UNCHANGED vars
  BY <1>7 DEF vars, EventInv, Searching, Searched, AsWritten, Argc, ToInt
<1> QED  BY <1>1, <1>2, <1>3, <1>4, <1>5, <1>6, <1>7 DEF Next

LEMMA LineAlike == EventInv => LoggedAlike
<1> SUFFICES ASSUME EventInv PROVE LoggedAlike
  OBVIOUS
<1> USE Entries
<1>1. pc = "lookup" /\ lo < hi => Mid + 1 \in 1..Len(Table)
  BY DEF EventInv, Mid
<1>2. ASSUME pc = "written", num < Half
      PROVE /\ line.name = GdbName(num)
            /\ Len(line.args) = Len(GdbArgs(num, arg))
            /\ arg = 0 => line.args = GdbArgs(num, arg)
  <2>1. num \in 0..Word-1 /\ ToInt(num) = num /\ Signed(num) = num
    BY <1>2, IntOfSmall, TableAssumption DEF EventInv, Signed
  <2>2. arg = 0 => Signed(arg) = arg
    BY TableAssumption DEF Signed
  <2>3. info \in {NoInfo} \cup 0..(Len(Table) - 1) /\ Searched /\ AsWritten
    BY <1>2 DEF EventInv
  <2>4. DOMAIN PyTable = {Table[i].nr : i \in 1..Len(Table)}
    BY TableAssumption
  <2>5. CASE info = NoInfo
    <3>1. num \notin DOMAIN PyTable
      BY <2>1, <2>3, <2>4, <2>5 DEF Searched
    <3> QED  BY <2>1, <2>2, <2>3, <2>5, <3>1
             DEF AsWritten, GdbName, GdbArgs, Argc, Args
  <2>6. CASE info # NoInfo
    <3>1. /\ info + 1 \in 1..Len(Table)
          /\ Table[info + 1].nr = num
      BY <2>1, <2>3, <2>6 DEF Searched
    <3>2. num \in DOMAIN PyTable /\ PyTable[num] = Table[info + 1].argc
      BY <2>4, <3>1, TableAssumption
    <3> QED  BY <2>1, <2>2, <2>3, <2>6, <3>1, <3>2
             DEF AsWritten, GdbName, GdbArgs, Argc, Args
  <2> QED  BY <2>5, <2>6
<1> QED  BY <1>1, <1>2 DEF LoggedAlike

LEMMA LineShown == EventInv => ShownAsReturned
<1> SUFFICES ASSUME EventInv, pc = "shown"
             PROVE  /\ outcome.kind = "value" =>
                         /\ shown.value = outcome.ret
                         /\ shown.how = "error" <=> outcome.ret \in (-MaxErrno)..(-1)
                         /\ shown.how \in {"error", "hex", "decimal"}
                    /\ outcome.kind = "unfinished" => shown.how = "unfinished"
                    /\ outcome.kind = "none" => shown.how = "nothing"
  BY DEF ShownAsReturned
<1>1. outcome \in Calls /\ AsWritten /\ shown = FormatRet(line)
  BY DEF EventInv
<1>2. outcome.ret \in Int /\ MaxErrno \in Nat /\ PointerLike \in Nat
  BY <1>1, ReturnAssumption DEF Calls
<1>3. CASE outcome.kind = "value"
  <2>1. line.ret = <<outcome.ret>> /\ line.ret # << >> /\ line.ret[1] = outcome.ret
    BY <1>1, <1>3 DEF AsWritten
  <2>2. /\ {"ret", "dur_us"} \subseteq line.keys /\ "unfinished" \notin line.keys
        /\ "err" \in line.keys <=> IsErrno(outcome.ret)
    BY <1>1, <1>3 DEF AsWritten, RetKeys
  <2>3. shown = RetText(line)
    BY <1>1, <2>2 DEF FormatRet
  <2>4. IsErrno(outcome.ret) <=> outcome.ret \in (-MaxErrno)..(-1)
    BY <1>2 DEF IsErrno
  <2> QED  BY <1>3, <2>1, <2>2, <2>3, <2>4 DEF RetText, Display
<1>4. CASE outcome.kind = "unfinished"
  BY <1>1, <1>4 DEF AsWritten, RetKeys, FormatRet, Display
<1>5. CASE outcome.kind = "none"
  BY <1>1, <1>5 DEF AsWritten, RetKeys, FormatRet, Display
<1> QED  BY <1>1, <1>3, <1>4, <1>5 DEF Calls

\* For every sorted table, every width of a register and of an int, both
\* captures name a call alike (vmi_syscall_lookup() and SYSCALL_TABLE.get()).
THEOREM NamedAlike == Spec => []LoggedAlike
<1>1. Spec => []EventInv
  BY EventInit, EventStep, PTL DEF Spec
<1> QED  BY <1>1, LineAlike, PTL

\* For every return value and every errno range, format_ret() shows what
\* vmi_write_event() was given.
THEOREM ShownFaithfully == Spec => []ShownAsReturned
<1>1. Spec => []EventInv
  BY EventInit, EventStep, PTL DEF Spec
<1> QED  BY <1>1, LineShown, PTL

\* Each round of the lookup halves what is left to search, at least
\* (vmi_syscall_lookup(): lo, hi and mid), so that it ends.
SearchHalves ==
  pc = "lookup" =>
    \/ pc' = "write"
    \/ pc' = "lookup" /\ lo' <= hi' /\ 2 * (hi' - lo') <= hi - lo

THEOREM LookupHalves == Spec => [][SearchHalves]_vars
<1>1. Spec => []EventInv
  BY EventInit, EventStep, PTL DEF Spec
<1>2. EventInv /\ [Next]_vars => [SearchHalves]_vars
  <2> SUFFICES ASSUME EventInv, Next, pc = "lookup"
               PROVE  SearchHalves
    BY DEF SearchHalves
  <2>1. lo \in Nat /\ hi \in Nat
    BY Entries DEF EventInv
  <2>2. CASE Look
    <3>1. /\ Mid \in Nat /\ lo <= Mid /\ Mid < hi
          /\ 2 * (hi - (Mid + 1)) <= hi - lo /\ 2 * (Mid - lo) <= hi - lo
      BY <2>1, <2>2 DEF Look, Mid
    <3> QED
      BY <2>1, <2>2, <3>1 DEF Look, RightOfMid, LeftOfMid, SearchHalves
  <2>3. CASE NotFound
    BY <2>3 DEF NotFound, SearchHalves
  <2> QED
    BY <2>2, <2>3 DEF Next, Call, WriteEvent, FormatEvent, NextCall
<1> QED
  BY <1>1, <1>2, PTL DEF Spec

-----------------------------------------------------------------------------
(***************************************************************************)
(* The least number of a set, and induction over the numbers.              *)
(***************************************************************************)
\* < is well-founded on the numbers.
LEMMA Least ==
  ASSUME NEW S \in SUBSET Nat, S # {}
  PROVE  \E m \in S : \A k \in S : m <= k
<1>1. PICK m \in S : \A k \in S : ~ (<<k, m>> \in OpToRel(<, Nat))
  BY NatLessThanWellFounded, WFMin
<1>2. \A k \in S : <<k, m>> \in OpToRel(<, Nat) <=> k < m
  BY DEF OpToRel
<1>3. \A k \in S : k \in Nat /\ m \in Nat /\ ~ (k < m)
  BY <1>1, <1>2
<1>4. \A k \in S : m <= k
  BY <1>3
<1> QED
  BY <1>4

\* Of the numbers outside S none is the least.
LEMMA SetInduction ==
  ASSUME NEW S, 0 \in S, \A n \in Nat : n \in S => n + 1 \in S
  PROVE  Nat \subseteq S
<1> SUFFICES ASSUME Nat \ S # {} PROVE FALSE
  OBVIOUS
<1>1. PICK m \in Nat \ S : \A k \in Nat \ S : m <= k
  BY Least
<1>2. m - 1 \in Nat /\ m - 1 \notin Nat \ S
  BY <1>1
<1> QED
  BY <1>1, <1>2

-----------------------------------------------------------------------------
(***************************************************************************)
(* parse_strace_log() and SequenceMatcher.                                 *)
(***************************************************************************)
\* What the loop does with the line.
OneMore(names, text) == IF StraceLine(text) THEN Append(names, text) ELSE names

Follows(f, s, n) ==
  \A i \in 0..n : f[i] = IF i = 0 THEN << >> ELSE OneMore(f[i - 1], s[i])

\* One such function exists.
LEMMA LoopRuns ==
  ASSUME NEW s, Len(s) \in Nat
  PROVE  NamesUpTo(s)
           = [i \in 0..Len(s) |-> IF i = 0 THEN << >>
                                  ELSE OneMore(NamesUpTo(s)[i - 1], s[i])]
<1> DEFINE Loop(f) == [i \in 0..Len(s) |-> IF i = 0 THEN << >>
                                        ELSE OneMore(f[i - 1], s[i])]
           Done == {n \in Nat : n <= Len(s) =>
                      \E f : f = [i \in 0..n |-> f[i]] /\ Follows(f, s, n)}
<1>1. 0 \in Done
  <2>1. Follows([i \in 0..0 |-> << >>], s, 0)
    BY DEF Follows
  <2>2. 0 <= Len(s) => \E f : f = [i \in 0..0 |-> f[i]] /\ Follows(f, s, 0)
    BY <2>1
  <2> QED
    BY <2>2
<1>2. ASSUME NEW n \in Nat, n \in Done
      PROVE  n + 1 \in Done
  <2> SUFFICES ASSUME n + 1 <= Len(s)
               PROVE  \E f : f = [i \in 0..(n + 1) |-> f[i]] /\ Follows(f, s, n + 1)
    OBVIOUS
  <2>1. PICK f : Follows(f, s, n)
    BY <1>2
  <2> DEFINE g == [i \in 0..(n + 1) |-> IF i = n + 1 THEN OneMore(f[n], s[n + 1])
                                                   ELSE f[i]]
  <2>2. ASSUME NEW i \in 0..(n + 1)
        PROVE  g[i] = IF i = 0 THEN << >> ELSE OneMore(g[i - 1], s[i])
    <3>1. CASE i = n + 1
      <4>1. i - 1 = n /\ n \in 0..(n + 1) /\ n # n + 1 /\ i # 0
        BY <3>1
      <4> QED
        BY <3>1, <4>1
    <3>2. CASE i \in 0..n
      <4>1. g[i] = f[i] /\ (i # 0 => g[i - 1] = f[i - 1])
        BY <3>2
      <4> QED
        BY <2>1, <3>2, <4>1 DEF Follows
    <3> QED
      BY <3>1, <3>2
  <2>3. Follows(g, s, n + 1)
    BY <2>2 DEF Follows
  <2>4. g = [i \in 0..(n + 1) |-> g[i]]
    OBVIOUS
  <2> QED
    BY <2>3, <2>4
<1>3. Len(s) \in Done
  <2> HIDE DEF Done
  <2> QED
    BY <1>1, <1>2, SetInduction
<1>4. PICK f : f = [i \in 0..Len(s) |-> f[i]] /\ Follows(f, s, Len(s))
  BY <1>3
<1>5. f = Loop(f)
  BY <1>4 DEF Follows
<1>6. NamesUpTo(s) = CHOOSE names : names = Loop(names)
  BY DEF NamesUpTo, OneMore
<1> HIDE DEF Loop
<1>7. NamesUpTo(s) = Loop(NamesUpTo(s))
  BY <1>5, <1>6
<1> QED
  BY <1>7 DEF Loop

LEMMA NoNames == StraceNames(<< >>) = << >>
<1>1. Len(<< >>) = 0 /\ 0 \in 0..Len(<< >>)
  OBVIOUS
<1> QED
  BY <1>1, LoopRuns DEF StraceNames

\* The loop over a longer log does on the way what it does over the shorter.
LEMMA NamesAppended ==
  ASSUME NEW T, NEW s \in Seq(T), NEW e \in T
  PROVE  StraceNames(Append(s, e)) = OneMore(StraceNames(s), e)
<1> DEFINE l == Append(s, e)
           n == Len(s)
           Alike == {i \in Nat : i <= n => NamesUpTo(l)[i] = NamesUpTo(s)[i]}
<1>1. /\ n \in Nat /\ Len(l) = n + 1 /\ l[n + 1] = e
      /\ \A i \in 1..n : l[i] = s[i]
  OBVIOUS
<1>2. \A i \in 0..n : NamesUpTo(s)[i]
        = IF i = 0 THEN << >> ELSE OneMore(NamesUpTo(s)[i - 1], s[i])
  BY <1>1, LoopRuns
<1>3. \A i \in 0..(n + 1) : NamesUpTo(l)[i]
        = IF i = 0 THEN << >> ELSE OneMore(NamesUpTo(l)[i - 1], l[i])
  BY <1>1, LoopRuns
<1> HIDE DEF l, n
<1>4. 0 \in Alike
  BY <1>1, <1>2, <1>3
<1>5. ASSUME NEW i \in Nat, i \in Alike
      PROVE  i + 1 \in Alike
  <2> SUFFICES ASSUME i + 1 <= n
               PROVE  NamesUpTo(l)[i + 1] = NamesUpTo(s)[i + 1]
    OBVIOUS
  <2>1. /\ i + 1 \in 0..n /\ i + 1 \in 0..(n + 1) /\ i + 1 \in 1..n
        /\ i + 1 # 0 /\ (i + 1) - 1 = i /\ i <= n
    BY <1>1
  <2>2. NamesUpTo(l)[i] = NamesUpTo(s)[i]
    BY <1>5, <2>1
  <2>3. NamesUpTo(l)[i + 1] = OneMore(NamesUpTo(l)[i], l[i + 1])
    BY <1>3, <2>1
  <2>4. NamesUpTo(s)[i + 1] = OneMore(NamesUpTo(s)[i], s[i + 1])
    BY <1>2, <2>1
  <2> QED
    BY <1>1, <2>1, <2>2, <2>3, <2>4
<1>6. n \in Alike
  <2> HIDE DEF Alike
  <2> QED
    BY <1>1, <1>4, <1>5, SetInduction
<1>7. NamesUpTo(l)[n] = NamesUpTo(s)[n]
  BY <1>1, <1>6
<1>8. NamesUpTo(l)[n + 1] = OneMore(NamesUpTo(l)[n], e)
  <2>1. n + 1 \in 0..(n + 1) /\ n + 1 # 0 /\ (n + 1) - 1 = n
    BY <1>1
  <2> QED
    BY <1>1, <1>3, <2>1
<1> QED
  BY <1>1, <1>7, <1>8 DEF StraceNames, l, n

\* What is reported as the longest run.
LEMMA LongestIsLongest ==
  ASSUME NEW s, NEW v, Len(s) \in Nat, Len(v) \in Nat, Runs(s, v) # {}
  PROVE  /\ LongestMatch(s, v) \in Runs(s, v)
         /\ \A q \in Runs(s, v) : LongestMatch(s, v).size >= q.size
<1> DEFINE R == Runs(s, v)
           Better(r, q) == \/ r.size > q.size
                           \/ r.size = q.size /\ r.a < q.a
                           \/ r.size = q.size /\ r.a = q.a /\ r.b <= q.b
<1>1. \A r \in R : r.a \in Nat /\ r.b \in Nat /\ r.size \in 1..Len(v)
  BY DEF Runs
<1>2. LongestMatch(s, v) = CHOOSE r \in R : \A q \in R : Better(r, q)
  BY DEF LongestMatch
<1> HIDE DEF R, Better
<1>3. R # {}
  BY DEF R
<1>4. PICK x \in R : \A q \in R : q.size <= x.size
  <2> DEFINE S == {Len(v) - r.size : r \in R}
  <2>1. S \in SUBSET Nat /\ S # {}
    BY <1>1, <1>3
  <2> HIDE DEF S
  <2>2. PICK m \in S : \A k \in S : m <= k
    BY <2>1, Least
  <2>3. PICK r \in R : m = Len(v) - r.size
    BY DEF S
  <2>4. \A q \in R : Len(v) - q.size \in S
    BY DEF S
  <2>5. \A q \in R : q.size <= r.size
    BY <1>1, <2>2, <2>3, <2>4
  <2> QED
    BY <2>5
<1>5. PICK y \in R : y.size = x.size /\ \A q \in R : q.size = x.size => y.a <= q.a
  <2> DEFINE S == {r.a : r \in {q \in R : q.size = x.size}}
  <2>1. S \in SUBSET Nat /\ S # {}
    BY <1>1
  <2>2. PICK m \in S : \A k \in S : m <= k
    <3> HIDE DEF S
    <3> QED
      BY <2>1, Least
  <2> QED
    BY <2>2
<1>6. PICK z \in R : /\ z.size = x.size /\ z.a = y.a
                     /\ \A q \in R : q.size = x.size /\ q.a = y.a => z.b <= q.b
  <2> DEFINE S == {r.b : r \in {q \in R : q.size = x.size /\ q.a = y.a}}
  <2>1. S \in SUBSET Nat /\ S # {}
    BY <1>1, <1>5
  <2>2. PICK m \in S : \A k \in S : m <= k
    <3> HIDE DEF S
    <3> QED
      BY <2>1, Least
  <2> QED
    BY <2>2
<1>7. \A q \in R : Better(z, q)
  <2> TAKE q \in R
  <2>1. /\ q.size <= x.size /\ z.size = x.size /\ z.a = y.a
        /\ q.size = x.size => y.a <= q.a
        /\ (q.size = x.size /\ q.a = y.a) => z.b <= q.b
    BY <1>4, <1>5, <1>6
  <2>2. /\ q.size \in Nat /\ x.size \in Nat /\ z.a \in Nat /\ q.a \in Nat
        /\ z.b \in Nat /\ q.b \in Nat
    BY <1>1
  <2> QED
    BY <2>1, <2>2 DEF Better
<1>8. LongestMatch(s, v) \in R /\ \A q \in R : Better(LongestMatch(s, v), q)
  BY <1>2, <1>7
<1>9. \A q \in R : LongestMatch(s, v).size >= q.size
  BY <1>1, <1>8 DEF Better
<1> QED
  BY <1>8, <1>9 DEF R
-----------------------------------------------------------------------------
(***************************************************************************)
(* Two logs: the inductive invariant.                                      *)
(***************************************************************************)
\* What the guest's tracer has printed.
Traced == StraceNames(console)
Untorn == \A i \in 1..Len(jsonl) : jsonl[i] # Torn

CheckTypeOK ==
  /\ mode \in {"entry", "return"}
  /\ stage \in {"guest", "parse", "match", "done", "failed"}
  /\ capture \in {"before", "on", "off"} /\ overlap \in BOOLEAN
  /\ doing \in [Threads -> CallNames \cup {None}]
  /\ caught \subseteq InFlight /\ IsFiniteSet(caught)
  /\ console \in Seq(CallNames \cup {Noise})
  /\ jsonl \in Seq(Written \cup {Torn})
  /\ Traced \in Seq(CallNames)

\* Whatever was captured has returned or is still in flight.
Known(name) == \/ \E j \in 1..Len(Traced) : VmiName[Traced[j]] = name
               \/ \E t \in caught : VmiName[doing[t]] = name

AllKnown == \A i \in 1..Len(jsonl) : jsonl[i] # Torn => Known(jsonl[i])

\* The first m lines of the capture are of the calls that the tracer's lines
\* are of, from the (k+1)-st on.
Agree(k, m) == /\ k + m <= Len(Traced) /\ m <= Len(jsonl)
               /\ \A i \in 1..m : jsonl[i] = VmiName[Traced[k + i]]

\* The inline monitor writes when the tracer does.
ReturnLog ==
  mode = "return" /\ stage = "guest" =>
    /\ capture = "on" /\ caught = InFlight
    /\ Len(jsonl) = Len(Traced) /\ Agree(0, Len(Traced))

\* The gdb capture is at most one call ahead of the tracer; and as long as it
\* is attached, or ahead, it has all the tracer has printed since.
Ahead(k, m) ==
  /\ Agree(k, m)
  /\ caught = {} => m = Len(jsonl)
  /\ \A t \in caught : Len(jsonl) = m + 1 /\ jsonl[m + 1] = VmiName[doing[t]]
  /\ capture = "on" \/ caught # {} => k + m = Len(Traced)

EntryLog ==
  mode = "entry" /\ stage = "guest" =>
    /\ Untorn
    /\ capture = "before" => jsonl = << >> /\ caught = {}
    /\ ~overlap =>
         /\ \A t, u \in InFlight : t = u
         /\ capture = "on" /\ caught # InFlight => jsonl = << >>
         /\ \E k \in 0..Len(Traced), m \in 0..Len(jsonl) : Ahead(k, m)

\* With the guest stopped, a run is all of the capture but the calls that had
\* not returned.
Aligned ==
  stage # "guest" /\ Untorn /\ (mode = "entry" => ~overlap) =>
    \E k \in 0..Len(Traced), m \in 0..Len(jsonl) :
      Agree(k, m) /\ Len(jsonl) <= m + Cardinality(caught)

Reported ==
  /\ stage \in {"match", "done"} => Untorn /\ strace = Traced /\ vmi = jsonl
  /\ stage = "done" => /\ longest = LongestMatch(strace, vmi)
                       /\ onlyInVmi = OnlyInCapture

CheckInv == CheckTypeOK /\ AllKnown /\ ReturnLog /\ EntryLog /\ Aligned /\ Reported

-----------------------------------------------------------------------------
LEMMA TracedNext ==
  ASSUME CheckTypeOK
  PROVE  /\ console' = console => Traced' = Traced
         /\ console' = Append(console, Noise) => Traced' = Traced
         /\ \A c \in CallNames :
              console' = Append(console, c) => Traced' = Append(Traced, c)
<1>1. console \in Seq(CallNames \cup {Noise})
  BY DEF CheckTypeOK
<1>2. ASSUME NEW c \in CallNames \cup {Noise}, console' = Append(console, c)
      PROVE  Traced' = OneMore(Traced, c)
  BY <1>1, <1>2, NamesAppended DEF Traced
<1>3. OneMore(Traced, Noise) = Traced
  BY DEF OneMore, StraceLine
<1>4. \A c \in CallNames : OneMore(Traced, c) = Append(Traced, c)
  BY StraceCheckAssumption DEF OneMore, StraceLine
<1> QED
  BY <1>2, <1>3, <1>4 DEF Traced

LEMMA CheckStarts ==
  ASSUME CheckInit
  PROVE  CheckInv
<1>1. Traced = << >>
  BY NoNames DEF CheckInit, Traced
<1>2. caught = {} /\ InFlight = {} /\ IsFiniteSet({})
  BY FS_EmptySet DEF CheckInit, InFlight
<1>3. CheckTypeOK
  <2>1. << >> \in Seq(CallNames) /\ << >> \in Seq(CallNames \cup {Noise})
        /\ << >> \in Seq(Written \cup {Torn})
    OBVIOUS
  <2>2. capture \in {"before", "on", "off"}
    BY DEF CheckInit
  <2> QED
    BY <1>1, <1>2, <2>1, <2>2 DEF CheckInit, CheckTypeOK
<1>4. AllKnown /\ ReturnLog /\ Aligned /\ Reported
  BY <1>1, <1>2 DEF CheckInit, AllKnown, ReturnLog, Agree, Aligned, Reported
<1>5. EntryLog
  <2>1. Ahead(0, 0)
    BY <1>1, <1>2 DEF CheckInit, Ahead, Agree
  <2>2. 0 \in 0..Len(Traced) /\ 0 \in 0..Len(jsonl)
    BY <1>1 DEF CheckInit
  <2> QED
    BY <1>2, <2>1, <2>2 DEF CheckInit, EntryLog, Untorn
<1> QED
  BY <1>3, <1>4, <1>5 DEF CheckInv

LEMMA EnterKeeps ==
  ASSUME CheckInv, NEW t \in Threads, NEW c \in CallNames, Enter(t, c)
  PROVE  CheckInv'
<1>1. CheckTypeOK
  BY DEF CheckInv
<1>2. /\ stage = "guest" /\ stage' = "guest" /\ mode' = mode
      /\ capture' = capture /\ console' = console
      /\ doing[t] = None /\ doing' = [doing EXCEPT ![t] = c]
  BY DEF Enter
<1>3. Traced' = Traced /\ Traced \in Seq(CallNames) /\ Len(Traced) \in Nat
      /\ jsonl \in Seq(Written \cup {Torn}) /\ Len(jsonl) \in Nat
  BY <1>1, <1>2, TracedNext DEF CheckTypeOK
<1>4. c # None /\ VmiName[c] # Torn /\ VmiName[c] \in Written
  BY StraceCheckAssumption DEF Written
<1>5. /\ InFlight' = InFlight \cup {t} /\ t \notin InFlight /\ t \notin caught
      /\ doing'[t] = c /\ \A u \in Threads \ {t} : doing'[u] = doing[u]
  BY <1>1, <1>2, <1>4 DEF CheckTypeOK, InFlight
<1>6. /\ caught' = IF capture = "on" THEN caught \cup {t} ELSE caught
      /\ jsonl' = IF capture = "on" /\ mode = "entry" 
                 THEN Append(jsonl, VmiName[c]) ELSE jsonl
      /\ overlap' = (overlap \/ InFlight # {})
  BY DEF Enter
<1>7. CheckTypeOK'
  <2>1. caught' \subseteq InFlight' /\ IsFiniteSet(caught')
    BY <1>1, <1>5, <1>6, FS_AddElement DEF CheckTypeOK
  <2>2. doing' \in [Threads -> CallNames \cup {None}]
    BY <1>1, <1>2 DEF CheckTypeOK
  <2>3. jsonl' \in Seq(Written \cup {Torn})
    BY <1>1, <1>4, <1>6 DEF CheckTypeOK
  <2>4. overlap' \in BOOLEAN
    BY <1>1, <1>6 DEF CheckTypeOK
  <2>5. Traced' \in Seq(CallNames) /\ console' \in Seq(CallNames \cup {Noise})
    BY <1>1, <1>2, <1>3 DEF CheckTypeOK
  <2> QED
    BY <1>1, <1>2, <2>1, <2>2, <2>3, <2>4, <2>5 DEF CheckTypeOK
<1>8. AllKnown'
  <2> SUFFICES ASSUME NEW i \in 1..Len(jsonl'), jsonl'[i] # Torn
               PROVE  Known(jsonl[i])'
    BY DEF AllKnown
  <2>1. CASE i \in 1..Len(jsonl) /\ jsonl'[i] = jsonl[i]
    <3>1. Known(jsonl[i])
      BY <2>1 DEF CheckInv, AllKnown
    <3>2. \A u \in caught : u \in caught' /\ doing'[u] = doing[u]
      BY <1>1, <1>5, <1>6 DEF CheckTypeOK, InFlight
    <3> QED
      BY <1>3, <2>1, <3>1, <3>2 DEF Known
  <2>2. CASE jsonl'[i] = VmiName[c] /\ t \in caught'
    BY <1>5, <2>2 DEF Known
  <2>3. \/ i \in 1..Len(jsonl) /\ jsonl'[i] = jsonl[i]
        \/ jsonl'[i] = VmiName[c] /\ t \in caught'
    BY <1>3, <1>6
  <2> QED
    BY <2>1, <2>2, <2>3
<1>9. ReturnLog'
  BY <1>2, <1>3, <1>5, <1>6 DEF CheckInv, ReturnLog, Agree
<1>10. EntryLog'
  <2> SUFFICES ASSUME mode = "entry"
               PROVE  EntryLog'
    BY <1>2 DEF EntryLog
  <2>1. EntryLog
    BY DEF CheckInv
  <2>2. Untorn'
    <3>1. Untorn
      BY <1>2, <2>1 DEF EntryLog
    <3> QED
      BY <1>3, <1>4, <1>6, <3>1 DEF Untorn
  <2>3. (capture = "before" => jsonl = << >> /\ caught = {})'
    BY <1>2, <1>6, <2>1 DEF EntryLog
  <2>4. ASSUME ~overlap'
        PROVE  /\ (\A u, w \in InFlight : u = w)'
               /\ (capture = "on" /\ caught # InFlight => jsonl = << >>)'
               /\ (\E k \in 0..Len(Traced), m \in 0..Len(jsonl) : Ahead(k, m))'
    <3>1. ~overlap /\ InFlight = {} /\ caught = {}
      BY <1>1, <1>6, <2>4 DEF CheckTypeOK
    <3>2. PICK k \in 0..Len(Traced), m \in 0..Len(jsonl) : Ahead(k, m)
      BY <1>2, <2>1, <3>1 DEF EntryLog
    <3>3. m = Len(jsonl) /\ (capture = "on" => k + m = Len(Traced))
      BY <3>1, <3>2 DEF Ahead
    <3>4. Agree(k, m)'
      BY <1>3, <1>6, <3>2 DEF Ahead, Agree
    <3>5. Ahead(k, m)'
      <4>1. CASE capture = "on"
        <5>1. caught' = {t} /\ jsonl' = Append(jsonl, VmiName[c])
          BY <1>6, <3>1, <4>1
        <5>2. Len(jsonl') = m + 1 /\ jsonl'[m + 1] = VmiName[c]
          BY <1>3, <3>3, <5>1
        <5> QED
          BY <1>3, <1>5, <3>3, <3>4, <4>1, <5>1, <5>2 DEF Ahead
      <4>2. CASE capture # "on"
        <5>1. caught' = {} /\ jsonl' = jsonl
          BY <1>6, <3>1, <4>2
        <5> QED
          BY <1>2, <3>3, <3>4, <4>2, <5>1 DEF Ahead
      <4> QED
        BY <4>1, <4>2
    <3>6. k \in 0..Len(Traced') /\ m \in 0..Len(jsonl')
      BY <1>3, <1>6
    <3>7. capture = "on" => caught' = InFlight'
      BY <1>5, <1>6, <3>1
    <3> QED
      BY <1>2, <1>5, <3>1, <3>5, <3>6, <3>7
  <2> QED
    BY <2>2, <2>3, <2>4 DEF EntryLog
<1>11. Aligned' /\ Reported'
  BY <1>2 DEF Aligned, Reported
<1> QED
  BY <1>7, <1>8, <1>9, <1>10, <1>11 DEF CheckInv

LEMMA ReturnKeeps ==
  ASSUME CheckInv, NEW t \in Threads, Return(t)
  PROVE  CheckInv'
<1> DEFINE c == doing[t]
<1>1. CheckTypeOK
  BY DEF CheckInv
<1>2. /\ stage = "guest" /\ stage' = "guest" /\ mode' = mode
      /\ capture' = capture /\ overlap' = overlap
      /\ t \in InFlight /\ doing' = [doing EXCEPT ![t] = None]
      /\ console' = Append(console, c) /\ caught' = caught \ {t}
  BY DEF Return
<1>3. c \in CallNames /\ VmiName[c] # Torn /\ VmiName[c] \in Written
  BY <1>1, <1>2, StraceCheckAssumption DEF CheckTypeOK, InFlight, Written
<1>4. /\ Traced' = Append(Traced, c) /\ Traced \in Seq(CallNames)
      /\ Len(Traced) \in Nat /\ Len(Traced') = Len(Traced) + 1
      /\ Traced'[Len(Traced) + 1] = c
      /\ \A i \in 1..Len(Traced) : Traced'[i] = Traced[i]
      /\ jsonl \in Seq(Written \cup {Torn}) /\ Len(jsonl) \in Nat
  <2>1. Traced' = Append(Traced, c)
    BY <1>1, <1>2, <1>3, TracedNext
  <2>2. Traced \in Seq(CallNames) /\ jsonl \in Seq(Written \cup {Torn})
    BY <1>1 DEF CheckTypeOK
  <2> QED
    BY <1>3, <2>1, <2>2
<1>5. /\ InFlight' = InFlight \ {t}
      /\ \A u \in Threads \ {t} : doing'[u] = doing[u]
  BY <1>1, <1>2 DEF CheckTypeOK, InFlight
<1>6. jsonl' = IF t \in caught /\ mode = "return" 
                THEN Append(jsonl, VmiName[c]) ELSE jsonl
  BY DEF Return
<1>7. CheckTypeOK'
  <2>1. caught' \subseteq InFlight' /\ IsFiniteSet(caught')
    BY <1>1, <1>2, <1>5, FS_RemoveElement DEF CheckTypeOK
  <2>2. doing' \in [Threads -> CallNames \cup {None}]
    BY <1>1, <1>2 DEF CheckTypeOK
  <2>3. jsonl' \in Seq(Written \cup {Torn})
    BY <1>3, <1>4, <1>6
  <2>4. console' \in Seq(CallNames \cup {Noise})
    BY <1>1, <1>2, <1>3 DEF CheckTypeOK
  <2>5. Traced' \in Seq(CallNames)
    BY <1>3, <1>4
  <2> QED
    BY <1>1, <1>2, <2>1, <2>2, <2>3, <2>4, <2>5 DEF CheckTypeOK
<1>8. AllKnown'
  <2> SUFFICES ASSUME NEW i \in 1..Len(jsonl'), jsonl'[i] # Torn
               PROVE  Known(jsonl[i])'
    BY DEF AllKnown
  <2>1. CASE jsonl'[i] = VmiName[c]
    <3>1. Len(Traced) + 1 \in 1..Len(Traced')
      BY <1>4
    <3> QED
      BY <1>4, <2>1, <3>1 DEF Known
  <2>2. CASE i \in 1..Len(jsonl) /\ jsonl'[i] = jsonl[i] /\ jsonl'[i] # VmiName[c]
    <3>1. Known(jsonl[i])
      BY <2>2 DEF CheckInv, AllKnown
    <3>2. CASE \E j \in 1..Len(Traced) : VmiName[Traced[j]] = jsonl[i]
      <4>1. PICK j \in 1..Len(Traced) : VmiName[Traced[j]] = jsonl[i]
        BY <3>2
      <4>2. j \in 1..Len(Traced') /\ VmiName[Traced'[j]] = jsonl'[i]
        BY <1>4, <2>2, <4>1
      <4> QED
        BY <4>2 DEF Known
    <3>3. CASE \E u \in caught : VmiName[doing[u]] = jsonl[i]
      <4>1. PICK u \in caught : VmiName[doing[u]] = jsonl[i]
        BY <3>3
      <4>2. u \in caught' /\ VmiName[doing'[u]] = jsonl'[i]
        BY <1>1, <1>2, <1>5, <2>2, <4>1 DEF CheckTypeOK, InFlight
      <4> QED
        BY <4>2 DEF Known
    <3> QED
      BY <3>1, <3>2, <3>3 DEF Known
  <2>3. (i \in 1..Len(jsonl) /\ jsonl'[i] = jsonl[i]) \/ jsonl'[i] = VmiName[c]
    BY <1>4, <1>6
  <2> QED
    BY <2>1, <2>2, <2>3
<1>9. ReturnLog'
  <2> SUFFICES ASSUME mode = "return"
               PROVE  ReturnLog'
    BY <1>2 DEF ReturnLog
  <2>1. /\ capture = "on" /\ caught = InFlight /\ Len(jsonl) = Len(Traced)
        /\ \A i \in 1..Len(Traced) : jsonl[i] = VmiName[Traced[0 + i]]
    BY <1>2 DEF CheckInv, ReturnLog, Agree
  <2>2. jsonl' = Append(jsonl, VmiName[c])
    BY <1>2, <1>6, <2>1
  <2>3. /\ Len(jsonl') = Len(Traced') /\ jsonl'[Len(Traced')] = VmiName[c]
        /\ \A i \in 1..Len(Traced) : jsonl'[i] = jsonl[i]
    BY <1>3, <1>4, <2>1, <2>2
  <2>4. \A i \in 1..Len(Traced') : jsonl'[i] = VmiName[Traced'[0 + i]]
    BY <1>4, <2>1, <2>3
  <2>5. 0 + Len(Traced') <= Len(Traced')
    BY <1>4
  <2> QED
    BY <1>2, <1>5, <2>1, <2>3, <2>4, <2>5 DEF ReturnLog, Agree
<1>10. EntryLog'
  <2> SUFFICES ASSUME mode = "entry"
               PROVE  EntryLog'
    BY <1>2 DEF EntryLog
  <2>1. EntryLog /\ jsonl' = jsonl
    BY <1>6 DEF CheckInv
  <2>2. Untorn'
    BY <1>2, <2>1 DEF EntryLog, Untorn
  <2>3. (capture = "before" => jsonl = << >> /\ caught = {})'
    BY <1>2, <2>1 DEF EntryLog
  <2>4. ASSUME ~overlap'
        PROVE  /\ (\A u, w \in InFlight : u = w)'
               /\ (capture = "on" /\ caught # InFlight => jsonl = << >>)'
               /\ (\E k \in 0..Len(Traced), m \in 0..Len(jsonl) : Ahead(k, m))'
    <3>1. \A u, w \in InFlight : u = w
      BY <1>2, <2>1, <2>4 DEF EntryLog
    <3>2. InFlight' = {} /\ caught' = {} /\ (caught = {t} \/ caught = {})
      BY <1>1, <1>2, <1>5, <3>1 DEF CheckTypeOK
    <3>3. PICK k \in 0..Len(Traced), m \in 0..Len(jsonl) : Ahead(k, m)
      BY <1>2, <2>1, <2>4 DEF EntryLog
    <3>4. CASE caught = {t}
      <4>1. /\ Len(jsonl) = m + 1 /\ jsonl[m + 1] = VmiName[c]
            /\ k + m = Len(Traced)
            /\ \A i \in 1..m : jsonl[i] = VmiName[Traced[k + i]]
        BY <3>3, <3>4 DEF Ahead, Agree
      <4>2. k + (m + 1) = Len(Traced') /\ k \in 0..Len(Traced')
            /\ m + 1 \in 0..Len(jsonl')
        BY <1>4, <2>1, <4>1
      <4>3. ASSUME NEW i \in 1..(m + 1)
            PROVE  jsonl'[i] = VmiName[Traced'[k + i]]
        <5>1. CASE i = m + 1
          <6>1. k + i = Len(Traced) + 1
            BY <1>4, <4>1, <5>1
          <6>2. jsonl'[i] = VmiName[c]
            BY <2>1, <4>1, <5>1
          <6>3. Traced'[Len(Traced) + 1] = c
            BY <1>4
          <6> QED
            BY <6>1, <6>2, <6>3
        <5>2. CASE i \in 1..m
          <6>1. k + i \in 1..Len(Traced)
            BY <1>4, <4>1, <5>2
          <6> QED
            BY <1>4, <2>1, <4>1, <5>2, <6>1
        <5> QED
          BY <5>1, <5>2
      <4>4. Agree(k, m + 1)'
        BY <2>1, <4>1, <4>2, <4>3 DEF Agree
      <4>5. Ahead(k, m + 1)'
        BY <2>1, <3>2, <4>1, <4>2, <4>4 DEF Ahead
      <4> QED
        BY <3>2, <4>2, <4>5
    <3>5. CASE caught = {} /\ capture = "on"
      <4>1. jsonl = << >>
        BY <1>2, <2>1, <2>4, <3>5 DEF EntryLog
      <4>2. Ahead(Len(Traced), 0)'
        BY <1>4, <2>1, <3>2, <4>1 DEF Ahead, Agree
      <4>3. (Len(Traced) \in 0..Len(Traced) /\ 0 \in 0..Len(jsonl))'
        BY <1>4, <2>1
      <4> QED
        BY <2>1, <3>2, <4>1, <4>2, <4>3
    <3>6. CASE caught = {} /\ capture # "on"
      <4>1. Agree(k, m)'
        <5>1. ASSUME NEW i \in 1..m
              PROVE  jsonl'[i] = VmiName[Traced'[k + i]]
          <6>1. jsonl[i] = VmiName[Traced[k + i]] /\ k + m <= Len(Traced)
            BY <3>3 DEF Ahead, Agree
          <6>2. k + i \in 1..Len(Traced)
            BY <1>4, <6>1
          <6> QED
            BY <1>4, <2>1, <6>1, <6>2
        <5> QED
          <6>1. k + m <= Len(Traced) /\ m <= Len(jsonl)
            BY <3>3 DEF Ahead, Agree
          <6>2. k + m <= Len(Traced') /\ m <= Len(jsonl')
            BY <1>4, <2>1, <6>1
          <6> QED
            BY <5>1, <6>2 DEF Agree
      <4>2. Ahead(k, m)'
        BY <1>2, <2>1, <3>2, <3>3, <3>6, <4>1 DEF Ahead
      <4>3. k \in 0..Len(Traced') /\ m \in 0..Len(jsonl')
        BY <1>4, <2>1
      <4> QED
        BY <1>2, <3>2, <3>6, <4>2, <4>3
    <3> QED
      BY <3>2, <3>4, <3>5, <3>6
  <2> QED
    BY <2>2, <2>3, <2>4 DEF EntryLog
<1>11. Aligned' /\ Reported'
  BY <1>2 DEF Aligned, Reported
<1> QED
  BY <1>7, <1>8, <1>9, <1>10, <1>11 DEF CheckInv

\* Noise on the console, and gdb coming and going.
LEMMA SidelinesKeep ==
  ASSUME CheckInv, ConsoleNoise \/ Attach \/ Detach
  PROVE  CheckInv'
<1>1. /\ stage = "guest" /\ CheckTypeOK
      /\ UNCHANGED <<mode, stage, doing, caught, calls, overlap, jsonl>>
      /\ UNCHANGED report
  BY DEF ConsoleNoise, Attach, Detach, CheckInv, guest, logs
<1>2. Traced' = Traced
  BY <1>1, TracedNext DEF ConsoleNoise, Attach, Detach, logs
<1>3. InFlight' = InFlight
  BY <1>1 DEF InFlight
<1>4. /\ console' \in Seq(CallNames \cup {Noise})
      /\ capture' \in {"before", "on", "off"}
  <2>1. CASE ConsoleNoise
    <3>1. console' = Append(console, Noise) /\ capture' = capture
      BY <2>1 DEF ConsoleNoise, guest
    <3>2. Append(console, Noise) \in Seq(CallNames \cup {Noise})
      BY <1>1 DEF CheckTypeOK
    <3> QED
      BY <1>1, <3>1, <3>2 DEF CheckTypeOK
  <2>2. CASE Attach \/ Detach
    <3>1. console' = console /\ capture' \in {"on", "off"}
      BY <2>2 DEF Attach, Detach, logs
    <3> QED
      BY <1>1, <3>1 DEF CheckTypeOK
  <2> QED
    BY <2>1, <2>2
<1>5. \/ capture' = capture
      \/ mode = "entry" /\ capture = "before" /\ capture' = "on"
      \/ mode = "entry" /\ capture' = "off"
  BY DEF ConsoleNoise, Attach, Detach, guest
<1>6. CheckTypeOK'
  BY <1>1, <1>2, <1>3, <1>4 DEF CheckTypeOK
<1>7. AllKnown' /\ ReturnLog'
  BY <1>1, <1>2, <1>3, <1>5 DEF CheckInv, AllKnown, Known, ReturnLog, Agree
<1>8. EntryLog'
  <2> SUFFICES ASSUME mode = "entry"
               PROVE  EntryLog'
    BY <1>1 DEF EntryLog
  <2>1. EntryLog
    BY DEF CheckInv
  <2>2. Untorn' /\ (capture = "before" => jsonl = << >> /\ caught = {})'
    BY <1>1, <1>5, <2>1 DEF EntryLog, Untorn
  <2>3. ASSUME ~overlap
        PROVE  /\ (\A u, w \in InFlight : u = w)'
               /\ (capture = "on" /\ caught # InFlight => jsonl = << >>)'
               /\ (\E k \in 0..Len(Traced), m \in 0..Len(jsonl) : Ahead(k, m))'
    <3>1. /\ \A u, w \in InFlight : u = w
          /\ capture = "on" /\ caught # InFlight => jsonl = << >>
          /\ \E k \in 0..Len(Traced), m \in 0..Len(jsonl) : Ahead(k, m)
      BY <1>1, <2>1, <2>3 DEF EntryLog
    <3>2. PICK k \in 0..Len(Traced), m \in 0..Len(jsonl) : Ahead(k, m)
      BY <3>1
    <3>3. CASE capture' = capture \/ capture' = "off"
      <4>1. Ahead(k, m)'
        BY <1>1, <1>2, <3>2, <3>3 DEF Ahead, Agree
      <4> QED
        BY <1>1, <1>2, <1>3, <3>1, <3>3, <4>1
    <3>4. CASE capture = "before" /\ capture' = "on"
      <4>1. jsonl = << >> /\ caught = {}
        BY <1>1, <2>1, <3>4 DEF EntryLog
      <4>2. Len(Traced) \in Nat
        BY <1>1 DEF CheckTypeOK
      <4>3. Ahead(Len(Traced), 0)'
        BY <1>1, <1>2, <4>1, <4>2 DEF Ahead, Agree
      <4>4. (Len(Traced) \in 0..Len(Traced) /\ 0 \in 0..Len(jsonl))'
        BY <1>1, <1>2, <4>1, <4>2
      <4> QED
        BY <1>1, <1>3, <3>1, <4>1, <4>3, <4>4
    <3> QED
      BY <1>5, <3>3, <3>4
  <2> QED
    BY <1>1, <2>2, <2>3 DEF EntryLog
<1>9. Aligned' /\ Reported'
  BY <1>1 DEF Aligned, Reported
<1> QED
  BY <1>6, <1>7, <1>8, <1>9 DEF CheckInv

\* The end of the guest: the inline monitor's calls in flight, or part of one.
LEMMA EndsKeeps ==
  ASSUME CheckInv, GuestEnds
  PROVE  CheckInv'
<1>1. /\ stage = "guest" /\ stage' = "parse" /\ CheckTypeOK
      /\ UNCHANGED <<mode, capture, doing, caught, calls, overlap, console>>
      /\ UNCHANGED report
  BY DEF GuestEnds, CheckInv, guest
<1>2. Traced' = Traced /\ InFlight' = InFlight
  BY <1>1 DEF Traced, InFlight
<1>3. /\ Len(Traced) \in Nat /\ Len(jsonl) \in Nat /\ Cardinality(caught) \in Nat
      /\ jsonl \in Seq(Written \cup {Torn}) /\ Traced \in Seq(CallNames)
      /\ IsFiniteSet(caught)
  BY <1>1, FS_CardinalityType DEF CheckTypeOK
<1>4. ReturnLog' /\ EntryLog' /\ Reported'
  BY <1>1 DEF ReturnLog, EntryLog, Reported
<1>5. \A x : Known(x) => Known(x)'
  BY <1>1, <1>2 DEF Known
<1>6. CASE mode = "return" /\ \E s \in Unfinished : jsonl' = jsonl \o s
  <2> DEFINE N == Cardinality(caught)
  <2>1. PICK s \in Unfinished : jsonl' = jsonl \o s
    BY <1>6
  <2>2. PICK f \in [1..N -> caught] : \A i \in 1..N : s[i] = VmiName[doing[f[i]]]
    BY DEF Unfinished
  <2>3. s \in [1..N -> Written]
    BY DEF Unfinished
  <2>4. s \in Seq(Written) /\ Len(s) = N
    BY <1>3, <2>3
  <2> HIDE DEF N
  <2>5. s \in Seq(Written \cup {Torn}) /\ N \in Nat
    BY <1>3, <2>4 DEF N
  <2>6. /\ jsonl' \in Seq(Written \cup {Torn}) /\ Len(jsonl') = Len(jsonl) + N
        /\ \A i \in 1..Len(jsonl) : jsonl'[i] = jsonl[i]
        /\ \A i \in 1..N : jsonl'[Len(jsonl) + i] = s[i]
    <3>1. /\ jsonl \o s \in Seq(Written \cup {Torn})
          /\ Len(jsonl \o s) = Len(jsonl) + N
      BY <1>3, <2>4, <2>5, ConcatProperties
    <3>2. \A i \in 1..Len(jsonl) : (jsonl \o s)[i] = jsonl[i]
      BY <1>3, <2>4, <2>5
    <3>3. \A i \in 1..N : (jsonl \o s)[Len(jsonl) + i] = s[i]
      BY <1>3, <2>4, <2>5
    <3> QED
      BY <2>1, <3>1, <3>2, <3>3
  <2>7. /\ Len(jsonl) = Len(Traced)
        /\ \A i \in 1..Len(Traced) : jsonl[i] = VmiName[Traced[0 + i]]
    BY <1>1, <1>6 DEF CheckInv, ReturnLog, Agree
  <2>8. CheckTypeOK'
    BY <1>1, <1>2, <2>6 DEF CheckTypeOK
  <2>9. AllKnown'
    <3> SUFFICES ASSUME NEW i \in 1..Len(jsonl'), jsonl'[i] # Torn
                 PROVE  Known(jsonl[i])'
      BY DEF AllKnown
    <3>1. CASE i \in 1..Len(jsonl)
      BY <1>1, <1>5, <2>6, <3>1 DEF CheckInv, AllKnown
    <3>2. CASE i \notin 1..Len(jsonl)
      <4> DEFINE j == i - Len(jsonl)
      <4>1. j \in 1..N /\ Len(jsonl) + j = i
        BY <1>3, <2>5, <2>6, <3>2
      <4>2. jsonl'[i] = VmiName[doing[f[j]]] /\ f[j] \in caught
        BY <2>2, <2>6, <4>1
      <4> QED
        BY <1>1, <4>2 DEF Known
    <3> QED
      BY <3>1, <3>2
  <2>10. Aligned'
    <3>1. Agree(0, Len(Traced))'
      <4>1. 0 + Len(Traced) <= Len(Traced) /\ Len(Traced) <= Len(jsonl')
        BY <1>3, <2>5, <2>6, <2>7
      <4>2. \A i \in 1..Len(Traced) : jsonl'[i] = VmiName[Traced[0 + i]]
        BY <1>3, <2>6, <2>7
      <4> QED
        BY <1>2, <4>1, <4>2 DEF Agree
    <3>2. Len(jsonl') <= Len(Traced) + Cardinality(caught)
      BY <1>3, <2>5, <2>6, <2>7 DEF N
    <3>3. 0 \in 0..Len(Traced) /\ Len(Traced) \in 0..Len(jsonl')
      BY <1>3, <2>5, <2>6, <2>7
    <3> QED
      BY <1>1, <1>2, <3>1, <3>2, <3>3 DEF Aligned
  <2> QED
    BY <1>4, <2>8, <2>9, <2>10 DEF CheckInv
<1>7. CASE jsonl' = Append(jsonl, Torn)
  <2>1. /\ jsonl' \in Seq(Written \cup {Torn}) /\ Len(jsonl') = Len(jsonl) + 1
        /\ \A i \in 1..Len(jsonl) : jsonl'[i] = jsonl[i]
        /\ jsonl'[Len(jsonl) + 1] = Torn
    BY <1>3, <1>7
  <2>2. ~ Untorn' /\ CheckTypeOK'
    <3>1. Len(jsonl) + 1 \in 1..Len(jsonl')
      BY <1>3, <2>1
    <3> QED
      BY <1>1, <1>2, <2>1, <3>1 DEF Untorn, CheckTypeOK
  <2>3. AllKnown'
    <3> SUFFICES ASSUME NEW i \in 1..Len(jsonl'), jsonl'[i] # Torn
                 PROVE  Known(jsonl[i])'
      BY DEF AllKnown
    <3>1. i \in 1..Len(jsonl)
      BY <1>3, <2>1
    <3> QED
      BY <1>1, <1>5, <2>1, <3>1 DEF CheckInv, AllKnown
  <2> QED
    BY <1>4, <2>2, <2>3 DEF CheckInv, Aligned
<1>8. CASE mode = "entry" /\ UNCHANGED jsonl
  <2>1. CheckTypeOK'
    BY <1>1, <1>2, <1>8 DEF CheckTypeOK
  <2>2. AllKnown'
    <3> SUFFICES ASSUME NEW i \in 1..Len(jsonl'), jsonl'[i] # Torn
                 PROVE  Known(jsonl[i])'
      BY DEF AllKnown
    <3> QED
      BY <1>5, <1>8 DEF CheckInv, AllKnown
  <2>3. Aligned'
    <3> SUFFICES ASSUME ~ overlap
                 PROVE  (\E k \in 0..Len(Traced), m \in 0..Len(jsonl) :
                           Agree(k, m) /\ Len(jsonl) <= m + Cardinality(caught))'
      BY <1>1, <1>8 DEF Aligned
    <3>1. PICK k \in 0..Len(Traced), m \in 0..Len(jsonl) : Ahead(k, m)
      BY <1>1, <1>8 DEF CheckInv, EntryLog
    <3>2. Agree(k, m)'
      BY <1>2, <1>8, <3>1 DEF Ahead, Agree
    <3>3. Len(jsonl) <= m + Cardinality(caught)
      <4>1. CASE caught = {}
        BY <1>3, <3>1, <4>1 DEF Ahead
      <4>2. CASE caught # {}
        <5>1. Cardinality(caught) # 0
          BY <1>3, <4>2, FS_EmptySet
        <5>2. Len(jsonl) = m + 1
          BY <3>1, <4>2 DEF Ahead
        <5> QED
          BY <1>3, <5>1, <5>2
      <4> QED
        BY <4>1, <4>2
    <3> QED
      BY <1>1, <1>2, <1>8, <3>2, <3>3
  <2> QED
    BY <1>4, <2>1, <2>2, <2>3 DEF CheckInv
<1> QED
  BY <1>6, <1>7, <1>8 DEF GuestEnds

\* The script changes neither log.
LEMMA ScriptKeeps ==
  ASSUME CheckInv, Parse \/ Compare
  PROVE  CheckInv'
<1>1. /\ stage # "guest" /\ stage' \in {"match", "done", "failed"} /\ CheckTypeOK
      /\ UNCHANGED <<mode, capture, doing, caught, calls, overlap>>
      /\ UNCHANGED <<console, jsonl>>
  BY DEF Parse, Compare, CheckInv, guest, logs
<1>2. Traced' = Traced /\ InFlight' = InFlight /\ Untorn' = Untorn
  BY <1>1 DEF Traced, InFlight, Untorn
<1>3. CheckTypeOK'
  BY <1>1, <1>2 DEF CheckTypeOK
<1>4. ReturnLog' /\ EntryLog'
  BY <1>1 DEF ReturnLog, EntryLog
<1>5. AllKnown' /\ Aligned'
  BY <1>1, <1>2 DEF CheckInv, AllKnown, Known, Aligned, Agree
<1>6. Reported'
  <2>1. CASE Parse
    BY <1>1, <1>2, <2>1 DEF Parse, Reported, Untorn, Traced
  <2>2. CASE Compare
    BY <1>1, <1>2, <2>2 DEF Compare, CheckInv, Reported, OnlyInCapture
  <2> QED
    BY <2>1, <2>2
<1> QED
  BY <1>3, <1>4, <1>5, <1>6 DEF CheckInv

LEMMA CheckStutters ==
  ASSUME CheckInv, UNCHANGED checkVars
  PROVE  CheckInv'
<1>1. UNCHANGED <<mode, stage, capture, doing, caught, calls, overlap, console,
                  jsonl, strace, vmi, longest, onlyInVmi>>
  BY DEF checkVars, guest, logs, report
<1>2. Traced' = Traced /\ InFlight' = InFlight /\ Untorn' = Untorn
  BY <1>1 DEF Traced, InFlight, Untorn
<1>3. CheckTypeOK' /\ ReturnLog' /\ Reported'
  BY <1>1, <1>2 DEF CheckInv, CheckTypeOK, ReturnLog, Agree, Reported,
                    OnlyInCapture
<1>4. AllKnown' /\ Aligned'
  BY <1>1, <1>2 DEF CheckInv, AllKnown, Known, Aligned, Agree
<1>5. EntryLog'
  <2>1. \A k, m : Ahead(k, m) => Ahead(k, m)'
    BY <1>1, <1>2 DEF Ahead, Agree
  <2> QED
    BY <1>1, <1>2, <2>1 DEF CheckInv, EntryLog
<1> QED
  BY <1>3, <1>4, <1>5 DEF CheckInv

\* From the first call to the report: whatever was captured has returned or
\* is in flight, and line by line the capture is of the calls that a part of
\* the tracer's log is of, but for what is in flight (the calls' two moments
\* and names, stop() of monitor.py, the lookup of c:443-454 and the tracer's
\* line at the return; the two parsers of validate_strace.py:31-50).
THEOREM CheckInvariant == CheckSpec => []CheckInv
<1>1. CheckInit => CheckInv
  BY CheckStarts
<1>2. CheckInv /\ [CheckNext]_checkVars => CheckInv'
  <2> SUFFICES ASSUME CheckInv, [CheckNext]_checkVars
               PROVE  CheckInv'
    OBVIOUS
  <2>1. ASSUME NEW t \in Threads, NEW c \in CallNames, Enter(t, c)
        PROVE  CheckInv'
    BY <2>1, EnterKeeps
  <2>2. ASSUME NEW t \in Threads, Return(t)
        PROVE  CheckInv'
    BY <2>2, ReturnKeeps
  <2>3. CASE ConsoleNoise \/ Attach \/ Detach
    BY <2>3, SidelinesKeep
  <2>4. CASE GuestEnds
    BY <2>4, EndsKeeps
  <2>5. CASE Parse \/ Compare
    BY <2>5, ScriptKeeps
  <2>6. CASE UNCHANGED checkVars
    BY <2>6, CheckStutters
  <2> QED
    BY <2>1, <2>2, <2>3, <2>4, <2>5, <2>6 DEF CheckNext
<1> QED
  BY <1>1, <1>2, PTL DEF CheckSpec

\* "Syscall names seen ONLY in VMI capture" (validate_strace.py:104-110) are
\* those of calls that had not returned, or syscall_N of numbers that are not
\* in the capture's table (c:453, monitor.py:84); of any guest, either
\* capture and any table.
THEOREM AlarmsAreUnreturned == CheckSpec => []OnlyUnreturned
<1>1. CheckInv => OnlyUnreturned
  <2> SUFFICES ASSUME CheckInv, stage = "done", NEW n \in onlyInVmi,
                      n \notin Unlisted
               PROVE  n \in {VmiName[doing[t]] : t \in caught}
    BY DEF OnlyUnreturned
  <2>1. Untorn /\ strace = Traced /\ vmi = jsonl /\ onlyInVmi = OnlyInCapture
    BY DEF CheckInv, Reported
  <2>2. PICK i \in 1..Len(jsonl) : n = jsonl[i]
    BY <2>1 DEF OnlyInCapture, NamesIn
  <2>3. \A j \in 1..Len(Traced) : Traced[j] \in CallNames /\ Traced[j] # n
    BY <2>1 DEF OnlyInCapture, NamesIn, CheckInv, CheckTypeOK
  <2>4. \A j \in 1..Len(Traced) : VmiName[Traced[j]] # n
    BY <2>3, StraceCheckAssumption DEF Written, Unlisted
  <2>5. Known(n)
    BY <2>1, <2>2 DEF CheckInv, AllKnown, Untorn
  <2> QED
    BY <2>4, <2>5 DEF Known
<1> QED
  BY <1>1, CheckInvariant, PTL

\* A stretch under the tracer's names is a run of both logs, so the one that
\* is reported is not shorter.
LEMMA Confirmed ==
  ASSUME CheckInv
  PROVE  CaptureConfirmed
<1> SUFFICES ASSUME stage = "done", mode = "entry" => ~overlap,
                    NEW a \in 1..Len(vmi), NEW z \in 1..Len(vmi),
                    NamedStretch(a, z)
             PROVE  z + 1 - a <= longest.size
  BY DEF CaptureConfirmed, StretchesConfirmed
<1>1. /\ Untorn /\ strace = Traced /\ vmi = jsonl
      /\ longest = LongestMatch(strace, vmi) /\ CheckTypeOK
  BY DEF CheckInv, Reported
<1>2. /\ Len(strace) \in Nat /\ Len(vmi) \in Nat /\ Cardinality(caught) \in Nat
  BY <1>1, FS_CardinalityType DEF CheckTypeOK
<1>3. PICK k \in 0..Len(Traced), m \in 0..Len(jsonl) :
        Agree(k, m) /\ Len(jsonl) <= m + Cardinality(caught)
  BY <1>1 DEF CheckInv, Aligned
<1>4. /\ a \in Nat /\ z \in Nat /\ 1 <= a /\ a <= z /\ z <= m
      /\ k \in Nat /\ m \in Nat /\ k + m <= Len(strace) /\ m <= Len(vmi)
      /\ \A i \in a..z : vmi[i] \in CallNames
  BY <1>1, <1>2, <1>3 DEF NamedStretch, Agree
<1>5. \A i \in a..z : vmi[i] = strace[k + i]
  <2> SUFFICES ASSUME NEW i \in a..z
               PROVE  vmi[i] = strace[k + i]
    OBVIOUS
  <2>1. i \in 1..m /\ k + i \in 1..Len(strace)
    BY <1>2, <1>4
  <2>2. vmi[i] = VmiName[strace[k + i]] /\ strace[k + i] \in CallNames
    BY <1>1, <1>3, <2>1 DEF Agree, CheckTypeOK
  <2> QED
    BY <1>4, <2>2, StraceCheckAssumption
<1> DEFINE n == z + 1 - a
           run == [a |-> k + a, b |-> a, size |-> n]
<1>6. /\ k + a \in 1..Len(strace) /\ n \in 1..Len(vmi)
      /\ (k + a) + n <= Len(strace) + 1 /\ a + n <= Len(vmi) + 1
  BY <1>2, <1>4
<1>7. \A i \in 0..(n - 1) : strace[(k + a) + i] = vmi[a + i]
  <2> SUFFICES ASSUME NEW i \in 0..(n - 1)
               PROVE  strace[(k + a) + i] = vmi[a + i]
    OBVIOUS
  <2>1. a + i \in a..z /\ (k + a) + i = k + (a + i)
    BY <1>4
  <2> QED
    BY <1>5, <2>1
<1> HIDE DEF n
<1>8. run \in Runs(strace, vmi)
  BY <1>6, <1>7 DEF Runs
<1>9. \A q \in Runs(strace, vmi) : longest.size >= q.size
  BY <1>1, <1>2, <1>8, LongestIsLongest
<1>10. longest.size >= n
  BY <1>8, <1>9
<1>11. longest \in Runs(strace, vmi)
  BY <1>1, <1>2, <1>8, LongestIsLongest
<1>12. longest.size \in Nat
  BY <1>2, <1>11 DEF Runs
<1> QED
  BY <1>4, <1>6, <1>10, <1>12 DEF n

\* Between two syscall_N a sound capture is confirmed: the run that both logs
\* share and the script reports is as long as the capture's longest stretch
\* of returned calls that its table lists (validate_strace.py:65-91), whatever
\* the guest's threads, calls and console output and whatever the table
\* lacks; the gdb capture of a guest with one call in flight at a time.
THEOREM CaptureIsConfirmed == CheckSpec => []CaptureConfirmed
BY CheckInvariant, Confirmed, PTL

\* CaptureConfirmed without its condition, for either capture of a guest of
\* one thread: its calls never overlap.
THEOREM OneThreadConfirmed ==
  ASSUME \A t, u \in Threads : t = u
  PROVE  CheckSpec => []EntryCaptureConfirmed
<1>1. CheckInit => ~overlap
  BY DEF CheckInit
<1>2. ~overlap /\ [CheckNext]_checkVars => ~overlap'
  <2> SUFFICES ASSUME ~overlap, [CheckNext]_checkVars
               PROVE  ~overlap'
    OBVIOUS
  <2>1. ASSUME NEW t \in Threads, NEW c \in CallNames, Enter(t, c)
        PROVE  ~overlap'
    <3>1. doing[t] = None /\ overlap' = (overlap \/ InFlight # {})
      BY <2>1 DEF Enter
    <3>2. InFlight = {}
      BY <3>1 DEF InFlight
    <3> QED
      BY <3>1, <3>2
  <2>2. ASSUME NEW t \in Threads, Return(t)
        PROVE  ~overlap'
    BY <2>2 DEF Return
  <2>3. CASE ConsoleNoise \/ Attach \/ Detach \/ GuestEnds
    BY <2>3 DEF ConsoleNoise, Attach, Detach, GuestEnds, guest
  <2>4. CASE Parse \/ Compare \/ UNCHANGED checkVars
    BY <2>4 DEF Parse, Compare, checkVars, guest
  <2> QED
    BY <2>1, <2>2, <2>3, <2>4 DEF CheckNext
<1>3. CheckSpec => []~overlap
  BY <1>1, <1>2, PTL DEF CheckSpec
<1>4. CaptureConfirmed /\ ~overlap => EntryCaptureConfirmed
  BY DEF CaptureConfirmed, EntryCaptureConfirmed
<1> QED
  BY <1>3, <1>4, CaptureIsConfirmed, PTL

\* The report is of two whole logs, what it calls the longest matching run is
\* a run of both, and there is no longer one (main(), validate_strace.py:65-77).
ReportTrue ==
  stage = "done" =>
    /\ Untorn
    /\ longest = NoMatch \/ longest \in Runs(Traced, jsonl)
    /\ \A r \in Runs(Traced, jsonl) : r.size <= longest.size

\* ReportTrue holds of every two logs main() may be given; where they share
\* nothing, no run is reported.
THEOREM ReportIsTrue == CheckSpec => []ReportTrue
<1>1. CheckInv => ReportTrue
  <2> SUFFICES ASSUME CheckInv, stage = "done"
               PROVE  ReportTrue
    BY DEF ReportTrue
  <2>1. /\ Untorn /\ longest = LongestMatch(Traced, jsonl)
        /\ Len(Traced) \in Nat /\ Len(jsonl) \in Nat
    BY DEF CheckInv, Reported, CheckTypeOK
  <2>2. CASE Runs(Traced, jsonl) = {}
    BY <2>1, <2>2 DEF LongestMatch, ReportTrue
  <2>3. CASE Runs(Traced, jsonl) # {}
    <3>1. \A r \in Runs(Traced, jsonl) : r.size \in Nat
      BY <2>1 DEF Runs
    <3> QED
      BY <2>1, <2>3, <3>1, LongestIsLongest DEF ReportTrue
  <2> QED
    BY <2>2, <2>3
<1> QED
  BY <1>1, CheckInvariant, PTL
=============================================================================
