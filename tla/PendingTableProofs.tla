------------------------- MODULE PendingTableProofs -------------------------
(***************************************************************************)
(* What the handlers of the pending table do to the table and to the log,  *)
(* whoever calls them: lemmas for SyscallPairingProofs, where every return *)
(* reaches its hook, and MonitorProofs, where one may not.                 *)
(***************************************************************************)
EXTENDS PendingTable, FiniteSetTheorems, SequenceTheorems, TLAPS

-----------------------------------------------------------------------------
(***************************************************************************)
(* What the handlers do to the log.                                        *)
(***************************************************************************)
\* The lines a step adds.
Appendix == DOMAIN log' \ DOMAIN log

\* A line is added at the end, the others stay.
LEMMA Appended ==
  ASSUME log \in Seq(Line), NEW ln \in Line, log' = Append(log, ln)
  PROVE  /\ log' \in Seq(Line)
         /\ \A i \in DOMAIN log : i \in DOMAIN log' /\ log'[i] = log[i]
         /\ \E i \in Appendix : Appendix = {i} /\ log'[i] = ln
<1>1. Len(log) \in Nat /\ DOMAIN log = 1..Len(log)
  BY DEF Seq
<1>2. /\ log' \in Seq(Line)
      /\ DOMAIN log' = 1..(Len(log) + 1)
      /\ \A i \in 1..Len(log) : log'[i] = log[i]
      /\ log'[Len(log) + 1] = ln
  <2>1. Append(log, ln) \in Seq(Line) /\ Len(Append(log, ln)) = Len(log) + 1
    BY AppendProperties
  <2> QED
    BY <2>1, AppendProperties
<1>3. Appendix = {Len(log) + 1}
  BY <1>1, <1>2 DEF Appendix
<1> QED
  BY <1>1, <1>2, <1>3

\* A flush adds one line per entry, by increasing seq.
LEMMA Flushed ==
  ASSUME TableTypeOK, FlushPending("shutdown")
  PROVE  /\ log' \in Seq(Line) /\ pending' = {} /\ pendingSeq' = pendingSeq
         /\ \A i \in DOMAIN log : i \in DOMAIN log' /\ log'[i] = log[i]
         /\ \A p \in pending : \E i \in Appendix : log'[i].call = p.call
         /\ \A i \in Appendix : \E p \in pending :
              log'[i].call = p.call /\ log'[i].kind = "shutdown"
         /\ \A i, j \in Appendix : i < j => \E p, q \in pending :
              log'[i].call = p.call /\ log'[j].call = q.call /\ p.seq < q.seq
         /\ \A i \in DOMAIN log, j \in Appendix : i < j
<1> DEFINE n == Cardinality(pending)
           lines(s) == [i \in DOMAIN s |-> Unfinished(s[i], "shutdown")]
<1>1. PICK s \in OldestFirst(pending) : log' = log \o lines(s)
  BY DEF FlushPending
<1>2. n \in Nat
  BY FS_CardinalityType DEF TableTypeOK
<1>3. /\ s \in [1..n -> pending]
      /\ \A i, j \in 1..n : i < j => s[i].seq < s[j].seq
      /\ \A p \in pending : \E i \in 1..n : s[i] = p
  BY <1>1 DEF OldestFirst
<1>4. lines(s) \in [1..n -> Line]
  BY <1>3 DEF Unfinished, Line, NoRet, Entry, TableTypeOK
<1>5. lines(s) \in Seq(Line) /\ Len(lines(s)) = n
  BY <1>2, <1>4 DEF Seq
<1>6. log \in Seq(Line) /\ Len(log) \in Nat /\ DOMAIN log = 1..Len(log)
  BY DEF TableTypeOK
<1>7. \A i \in 1..n : lines(s)[i] = Unfinished(s[i], "shutdown")
  BY <1>3
<1> HIDE DEF lines, n
<1>8. /\ log' \in Seq(Line) /\ Len(log') = Len(log) + n
      /\ \A i \in 1..(Len(log) + n) :
           log'[i] = IF i <= Len(log) THEN log[i] ELSE lines(s)[i - Len(log)]
  BY <1>1, <1>5, <1>6, ConcatProperties
<1>9. Appendix = (Len(log) + 1)..(Len(log) + n)
  BY <1>2, <1>6, <1>8 DEF Appendix
<1>10. \A i \in DOMAIN log : i \in DOMAIN log' /\ log'[i] = log[i]
  BY <1>2, <1>6, <1>8
<1>11. \A i \in Appendix : /\ i - Len(log) \in 1..n
                           /\ log'[i].call = s[i - Len(log)].call
                           /\ log'[i].kind = "shutdown"
  <2>1. \A i \in Appendix :
          /\ i - Len(log) \in 1..n
          /\ log'[i] = Unfinished(s[i - Len(log)], "shutdown")
    BY <1>2, <1>6, <1>7, <1>8, <1>9
  <2>2. \A p : /\ Unfinished(p, "shutdown").call = p.call
               /\ Unfinished(p, "shutdown").kind = "shutdown"
    BY DEF Unfinished
  <2> QED
    BY <2>1, <2>2
<1>12. \A p \in pending : \E i \in Appendix : log'[i].call = p.call
  <2> SUFFICES ASSUME NEW p \in pending
               PROVE  \E i \in Appendix : log'[i].call = p.call
    OBVIOUS
  <2>1. PICK j \in 1..n : s[j] = p
    BY <1>3
  <2>2. Len(log) + j \in Appendix /\ (Len(log) + j) - Len(log) = j
    BY <1>2, <1>6, <1>9, <2>1
  <2> QED
    BY <1>11, <2>1, <2>2
<1>13. \A i \in Appendix : \E p \in pending :
         log'[i].call = p.call /\ log'[i].kind = "shutdown"
  BY <1>3, <1>11
<1>14. \A i, j \in Appendix : i < j => \E p, q \in pending :
         log'[i].call = p.call /\ log'[j].call = q.call /\ p.seq < q.seq
  <2> SUFFICES ASSUME NEW i \in Appendix, NEW j \in Appendix, i < j
               PROVE  s[i - Len(log)].seq < s[j - Len(log)].seq
    BY <1>3, <1>11
  <2>1. i - Len(log) < j - Len(log)
    BY <1>2, <1>6, <1>9
  <2> QED
    BY <1>3, <1>11, <2>1
<1>15. \A i \in DOMAIN log, j \in Appendix : i < j
  BY <1>2, <1>6, <1>9
<1>16. pending' = {} /\ pendingSeq' = pendingSeq
  BY DEF FlushPending
<1> QED
  BY <1>8, <1>10, <1>12, <1>13, <1>14, <1>15, <1>16

-----------------------------------------------------------------------------
(***************************************************************************)
(* What the handlers do to the table.                                      *)
(***************************************************************************)
\* The entry lands in a free slot and nothing is logged.
Lands(k, c) ==
  /\ \A q \in pending : q.key # k
  /\ pending' = pending \cup {NewEntry(k, c)} /\ log' = log

\* The entry takes the place of p, whose call is logged as given up.
Replaces(p, k, c) ==
  /\ \A q \in pending : q.key = k => q = p
  /\ pending' = (pending \ {p}) \cup {NewEntry(k, c)}
  /\ \/ p.key = k /\ log' = Append(log, Unfinished(p, "superseded"))
     \/ /\ p.key # k /\ Oldest(p) /\ Cardinality(pending) >= PendingMax
        /\ log' = Append(log, Unfinished(p, "evicted"))

LEMMA HoldEffect ==
  ASSUME TableTypeOK, UniqueKeys, NEW k \in Keys, NEW c \in Calls,
         HoldEntry(k, c)
  PROVE  /\ pendingSeq' = pendingSeq + 1
         /\ Lands(k, c) \/ \E p \in pending : Replaces(p, k, c)
         /\ TableTypeOK'
<1>1. pendingSeq' = pendingSeq + 1 /\ pendingSeq' \in Nat
  BY DEF HoldEntry, TableTypeOK
<1>2. NewEntry(k, c) \in Entry
  BY DEF NewEntry, Entry, TableTypeOK
<1>3. /\ IsFiniteSet(pending) /\ Cardinality(pending) \in Nat
      /\ PendingMax \in Nat
  BY PendingMaxAssumption, FS_CardinalityType DEF TableTypeOK
<1>4. CASE TakeFreeSlot(k, c)
  <2>1. Lands(k, c)
    BY <1>4 DEF TakeFreeSlot, Lands
  <2>2. IsFiniteSet(pending') /\ Cardinality(pending') <= PendingMax
    <3>1. /\ pending' = pending \cup {NewEntry(k, c)}
          /\ Cardinality(pending) < PendingMax
      BY <1>4 DEF TakeFreeSlot
    <3>2. /\ IsFiniteSet(pending')
          /\ \/ Cardinality(pending') = Cardinality(pending)
             \/ Cardinality(pending') = Cardinality(pending) + 1
      BY <1>3, <3>1, FS_AddElement
    <3> QED
      BY <1>3, <3>1, <3>2
  <2> QED
    BY <1>1, <1>2, <2>1, <2>2 DEF TableTypeOK, Lands
<1>5. ASSUME NEW p \in pending, Replaces(p, k, c) PROVE TableTypeOK'
  <2>1. /\ IsFiniteSet(pending \ {p})
        /\ Cardinality(pending \ {p}) = Cardinality(pending) - 1
    BY <1>3, FS_RemoveElement
  <2>2. IsFiniteSet(pending') /\ Cardinality(pending') <= PendingMax
    <3>1. pending' = (pending \ {p}) \cup {NewEntry(k, c)}
      BY <1>5 DEF Replaces
    <3>2. /\ IsFiniteSet(pending')
          /\ \/ Cardinality(pending') = Cardinality(pending \ {p})
             \/ Cardinality(pending') = Cardinality(pending \ {p}) + 1
      BY <2>1, <3>1, FS_AddElement
    <3> QED
      BY <1>3, <2>1, <3>2 DEF TableTypeOK
  <2>3. /\ Unfinished(p, "superseded") \in Line
        /\ Unfinished(p, "evicted") \in Line
    BY DEF Unfinished, Line, NoRet, TableTypeOK, Entry
  <2>4. log' \in Seq(Line)
    BY <1>5, <2>3, Appended DEF Replaces, TableTypeOK
  <2> QED
    BY <1>1, <1>2, <1>5, <2>2, <2>4 DEF TableTypeOK, Replaces
<1>6. CASE Supersede(k, c)
  <2>1. PICK p \in pending : Replaces(p, k, c)
    BY <1>6 DEF Supersede, Replaces, UniqueKeys
  <2> QED
    BY <1>1, <1>5, <2>1
<1>7. CASE EvictOldest(k, c)
  <2>1. PICK p \in pending : Replaces(p, k, c)
    BY <1>7 DEF EvictOldest, Replaces
  <2> QED
    BY <1>1, <1>5, <2>1
<1> QED
  BY <1>4, <1>6, <1>7, <1>1 DEF HoldEntry

\* A return takes the entry with its key and logs the value there, or
\* changes nothing.
Completes(p, k, r) ==
  /\ p.key = k
  /\ pending' = pending \ {p}
  /\ log' = Append(log, ValueLine(p.call, r))

Unmatched(k) ==
  /\ \A p \in pending : p.key # k
  /\ pending' = pending /\ log' = log

LEMMA ReturnEffect ==
  ASSUME TableTypeOK, NEW k \in Keys, NEW r \in Calls, HandleReturn(k, r)
  PROVE  /\ pendingSeq' = pendingSeq
         /\ Unmatched(k) \/ \E p \in pending : Completes(p, k, r)
         /\ TableTypeOK'
<1>1. pendingSeq' = pendingSeq
  BY DEF HandleReturn
<1>2. CASE Unmatched(k)
  BY <1>1, <1>2 DEF Unmatched, TableTypeOK
<1>3. ASSUME NEW p \in pending, Completes(p, k, r) PROVE TableTypeOK'
  <2>1. /\ IsFiniteSet(pending \ {p})
        /\ Cardinality(pending \ {p}) = Cardinality(pending) - 1
    BY FS_RemoveElement DEF TableTypeOK
  <2>2. Cardinality(pending) \in Nat /\ PendingMax \in Nat
    BY PendingMaxAssumption, FS_CardinalityType DEF TableTypeOK
  <2>3. ValueLine(p.call, r) \in Line
    BY DEF ValueLine, Line, TableTypeOK, Entry, Calls
  <2>4. log' \in Seq(Line)
    BY <1>3, <2>3, Appended DEF Completes, TableTypeOK
  <2> QED
    BY <1>1, <1>3, <2>1, <2>2, <2>4 DEF TableTypeOK, Completes
<1>4. Unmatched(k) \/ \E p \in pending : Completes(p, k, r)
  BY DEF HandleReturn, Unmatched, Completes
<1> QED
  BY <1>1, <1>2, <1>3, <1>4

\* The table of a monitor that has just started, and after a flush.
LEMMA EmptyTable ==
  ASSUME pending = {}, pendingSeq \in Nat, log \in Seq(Line)
  PROVE  TableTypeOK
<1>1. IsFiniteSet(pending) /\ Cardinality(pending) <= PendingMax
  BY FS_EmptySet, PendingMaxAssumption
<1> QED
  BY <1>1 DEF TableTypeOK

LEMMA FlushEffect ==
  ASSUME TableTypeOK, FlushPending("shutdown") PROVE TableTypeOK'
<1>1. pending' = {} /\ pendingSeq' \in Nat /\ log' \in Seq(Line)
  BY Flushed DEF TableTypeOK
<1>2. IsFiniteSet(pending') /\ Cardinality(pending') <= PendingMax
  BY <1>1, FS_EmptySet, PendingMaxAssumption
<1> QED
  BY <1>1, <1>2 DEF TableTypeOK

LEMMA LogEntryEffect ==
  ASSUME TableTypeOK, NEW c \in Calls, LogEntryOnly(c) PROVE TableTypeOK'
<1>1. BareLine(c) \in Line
  BY DEF BareLine, Line, NoRet
<1>2. log' \in Seq(Line)
  BY <1>1, Appended DEF LogEntryOnly, TableTypeOK
<1> QED
  BY <1>2 DEF LogEntryOnly, TableTypeOK

-----------------------------------------------------------------------------
(***************************************************************************)
(* What the handlers do to LoggedOnce: a call recorded for the first time  *)
(* is held or logged, and a call held is only ever moved to the log.       *)
(***************************************************************************)
Known == {p.call : p \in pending} \cup {log[i].call : i \in DOMAIN log}

CallsApart == \A p, q \in pending : p.call = q.call => p = q

Once == LoggedOnce /\ CallsApart

NothingNew == Known' \subseteq Known

LEMMA LineOnce ==
  ASSUME log \in Seq(Line), NEW ln \in Line, log' = Append(log, ln), Once,
         \A i \in DOMAIN log : log[i].call # ln.call
  PROVE  /\ \A i, j \in DOMAIN log' : log'[i].call = log'[j].call => i = j
         /\ \A i \in DOMAIN log' : \/ i \in DOMAIN log /\ log'[i] = log[i]
                                   \/ log'[i].call = ln.call
<1>1. /\ \A i \in DOMAIN log : i \in DOMAIN log' /\ log'[i] = log[i]
      /\ \E i \in Appendix : Appendix = {i} /\ log'[i] = ln
  BY Appended
<1> QED
  BY <1>1 DEF Appendix, Once, LoggedOnce

\* p leaves the table with a line, and the entries in N, if any, come in.
LEMMA MoveOnce ==
  ASSUME TableTypeOK, Once, NEW p \in pending, NEW N, NEW ln \in Line,
         ln.call = p.call, log' = Append(log, ln),
         pending' = (pending \ {p}) \cup N,
         \A q \in N : q.call \notin Known, \A q, r \in N : q = r
  PROVE  Once' /\ Known' \subseteq Known \cup {q.call : q \in N}
<1>1. \A i \in DOMAIN log : log[i].call # ln.call
  BY DEF Once, LoggedOnce
<1>2. /\ \A i, j \in DOMAIN log' : log'[i].call = log'[j].call => i = j
      /\ \A i \in DOMAIN log' : \/ i \in DOMAIN log /\ log'[i] = log[i]
                                \/ log'[i].call = p.call
  BY <1>1, LineOnce DEF TableTypeOK
<1>3. \A i \in DOMAIN log' : \A q \in pending' : log'[i].call # q.call
  BY <1>2 DEF Once, LoggedOnce, CallsApart, Known
<1>4. CallsApart'
  BY DEF Once, CallsApart, Known
<1>5. Known' \subseteq Known \cup {q.call : q \in N}
  BY <1>2 DEF Known
<1> QED
  BY <1>2, <1>3, <1>4, <1>5 DEF Once, LoggedOnce

LEMMA HoldOnce ==
  ASSUME TableTypeOK, UniqueKeys, Once, NEW k \in Keys, NEW c \in Calls,
         HoldEntry(k, c), c \notin Known
  PROVE  Once' /\ Known' \subseteq Known \cup {c}
<1>1. Lands(k, c) \/ \E p \in pending : Replaces(p, k, c)
  BY HoldEffect
<1>2. NewEntry(k, c).call = c
  BY DEF NewEntry
<1>3. CASE Lands(k, c)
  BY <1>2, <1>3 DEF Lands, Once, LoggedOnce, CallsApart, Known
<1>4. ASSUME NEW p \in pending, Replaces(p, k, c)
      PROVE  Once' /\ Known' \subseteq Known \cup {c}
  <2>1. PICK why \in {"superseded", "evicted"} :
          log' = Append(log, Unfinished(p, why))
    BY <1>4 DEF Replaces
  <2>2. Unfinished(p, why) \in Line /\ Unfinished(p, why).call = p.call
    BY DEF Unfinished, Line, NoRet, TableTypeOK, Entry
  <2>3. pending' = (pending \ {p}) \cup {NewEntry(k, c)}
    BY <1>4 DEF Replaces
  <2>4. /\ \A q \in {NewEntry(k, c)} : q.call \notin Known
        /\ \A q, r \in {NewEntry(k, c)} : q = r
    BY <1>2
  <2>5. /\ Once'
        /\ Known' \subseteq Known \cup {q.call : q \in {NewEntry(k, c)}}
    BY <2>1, <2>2, <2>3, <2>4, MoveOnce
  <2> QED
    BY <1>2, <2>5
<1> QED
  BY <1>1, <1>3, <1>4

LEMMA ReturnOnce ==
  ASSUME TableTypeOK, Once, NEW k \in Keys, NEW r \in Calls, HandleReturn(k, r)
  PROVE  Once' /\ NothingNew
<1>1. Unmatched(k) \/ \E p \in pending : Completes(p, k, r)
  BY ReturnEffect
<1>2. CASE Unmatched(k)
  BY <1>2 DEF Unmatched, Once, LoggedOnce, CallsApart, NothingNew, Known
<1>3. ASSUME NEW p \in pending, Completes(p, k, r) PROVE Once' /\ NothingNew
  <2>1. ValueLine(p.call, r) \in Line /\ ValueLine(p.call, r).call = p.call
    BY DEF ValueLine, Line, TableTypeOK, Entry, Calls
  <2>2. pending' = (pending \ {p}) \cup {}
    BY <1>3 DEF Completes
  <2>3. log' = Append(log, ValueLine(p.call, r))
    BY <1>3 DEF Completes
  <2>4. Once' /\ Known' \subseteq Known \cup {q.call : q \in {}}
    BY <2>1, <2>2, <2>3, MoveOnce
  <2> QED
    BY <2>4 DEF NothingNew
<1> QED
  BY <1>1, <1>2, <1>3

LEMMA LogEntryOnce ==
  ASSUME TableTypeOK, Once, NEW c \in Calls, LogEntryOnly(c), c \notin Known
  PROVE  Once' /\ Known' \subseteq Known \cup {c}
<1>1. BareLine(c) \in Line /\ BareLine(c).call = c
  BY DEF BareLine, Line, NoRet
<1>2. \A i \in DOMAIN log : log[i].call # BareLine(c).call
  BY <1>1 DEF Known
<1>3. /\ \A i, j \in DOMAIN log' : log'[i].call = log'[j].call => i = j
      /\ \A i \in DOMAIN log' : \/ i \in DOMAIN log /\ log'[i] = log[i]
                                \/ log'[i].call = c
  BY <1>1, <1>2, LineOnce DEF TableTypeOK, LogEntryOnly
<1> QED
  BY <1>3 DEF LogEntryOnly, Once, LoggedOnce, CallsApart, Known

LEMMA FlushOnce ==
  ASSUME TableTypeOK, Once, FlushPending("shutdown")
  PROVE  Once' /\ NothingNew
<1>1. /\ pending' = {}
      /\ \A i \in DOMAIN log : i \in DOMAIN log' /\ log'[i] = log[i]
      /\ \A i \in Appendix : \E p \in pending : log'[i].call = p.call
      /\ \A i, j \in Appendix : i < j => \E p, q \in pending :
           log'[i].call = p.call /\ log'[j].call = q.call /\ p.seq < q.seq
      /\ log' \in Seq(Line)
  BY Flushed
<1>2. \A p \in pending : p.seq \in Nat
  BY DEF TableTypeOK, Entry
<1>3. ASSUME NEW i \in Appendix, NEW j \in Appendix, i < j
      PROVE  log'[i].call # log'[j].call
  <2>1. PICK p \in pending, q \in pending :
          log'[i].call = p.call /\ log'[j].call = q.call /\ p.seq < q.seq
    BY <1>1, <1>3
  <2>2. p # q
    BY <1>2, <2>1
  <2> QED
    BY <2>1, <2>2 DEF Once, CallsApart
<1>4. \A i, j \in Appendix : i # j => i < j \/ j < i
  <2>1. \A i \in Appendix : i \in Nat
    BY <1>1 DEF Appendix
  <2> QED
    BY <2>1
<1>5. \A i, j \in DOMAIN log' : log'[i].call = log'[j].call => i = j
  BY <1>1, <1>3, <1>4 DEF Appendix, Once, LoggedOnce
<1> QED
  BY <1>1, <1>5 DEF Appendix, Once, LoggedOnce, CallsApart, NothingNew, Known

-----------------------------------------------------------------------------
(***************************************************************************)
(* Pairing: only a return writes a value, and it writes it right if the    *)
(* entry its key finds is its own.                                         *)
(***************************************************************************)
LEMMA HoldPairs ==
  ASSUME TableTypeOK, UniqueKeys, PairCorrect, NEW k \in Keys, NEW c \in Calls,
         HoldEntry(k, c)
  PROVE  PairCorrect'
<1>1. Lands(k, c) \/ \E p \in pending : Replaces(p, k, c)
  BY HoldEffect
<1>2. CASE Lands(k, c)
  BY <1>2 DEF Lands, PairCorrect
<1>3. ASSUME NEW p \in pending, Replaces(p, k, c) PROVE PairCorrect'
  <2>1. PICK ln \in Line : log' = Append(log, ln) /\ ln.kind # "value"
    <3>1. /\ Unfinished(p, "superseded") \in Line
          /\ Unfinished(p, "evicted") \in Line
      BY DEF Unfinished, Line, NoRet, TableTypeOK, Entry
    <3> QED
      BY <1>3, <3>1 DEF Replaces, Unfinished
  <2>2. /\ \A i \in DOMAIN log : i \in DOMAIN log' /\ log'[i] = log[i]
        /\ \E i \in Appendix : Appendix = {i} /\ log'[i] = ln
    BY <2>1, Appended DEF TableTypeOK
  <2> QED
    BY <2>1, <2>2 DEF PairCorrect, Appendix
<1> QED
  BY <1>1, <1>2, <1>3

LEMMA ReturnPairs ==
  ASSUME TableTypeOK, PairCorrect, NEW k \in Keys, NEW r \in Calls,
         HandleReturn(k, r), \A p \in pending : p.key = k => p.call = r
  PROVE  PairCorrect' /\ pending' \subseteq pending
<1>1. Unmatched(k) \/ \E p \in pending : Completes(p, k, r)
  BY ReturnEffect
<1>2. CASE Unmatched(k)
  BY <1>2 DEF Unmatched, PairCorrect
<1>3. ASSUME NEW p \in pending, Completes(p, k, r)
      PROVE  PairCorrect' /\ pending' \subseteq pending
  <2>1. /\ p.call = r /\ pending' = pending \ {p}
        /\ log' = Append(log, ValueLine(r, r)) /\ ValueLine(r, r) \in Line
    BY <1>3 DEF Completes, ValueLine, Line, Calls
  <2>2. /\ \A i \in DOMAIN log : i \in DOMAIN log' /\ log'[i] = log[i]
        /\ \E i \in Appendix : Appendix = {i} /\ log'[i] = ValueLine(r, r)
    BY <2>1, Appended DEF TableTypeOK
  <2> QED
    BY <2>1, <2>2 DEF PairCorrect, Appendix, ValueLine
<1> QED
  BY <1>1, <1>2, <1>3

LEMMA FlushPairs ==
  ASSUME TableTypeOK, PairCorrect, FlushPending("shutdown")
  PROVE  PairCorrect' /\ pending' = {}
<1>1. /\ pending' = {}
      /\ \A i \in DOMAIN log : i \in DOMAIN log' /\ log'[i] = log[i]
      /\ \A i \in Appendix : log'[i].kind = "shutdown"
  BY Flushed
<1> QED
  BY <1>1 DEF PairCorrect, Appendix

-----------------------------------------------------------------------------
(***************************************************************************)
(* No handler forgets: what a line says stays, and a call leaves the table *)
(* only for the log.                                                       *)
(***************************************************************************)
LogKept == \A i \in DOMAIN log : i \in DOMAIN log' /\ log'[i] = log[i]

NothingForgotten == LogKept /\ Known \subseteq Known'

LEMMA LineKept ==
  ASSUME log \in Seq(Line), NEW ln \in Line, log' = Append(log, ln),
         \A p \in pending : p \in pending' \/ p.call = ln.call
  PROVE  NothingForgotten /\ ln.call \in Known'
<1>1. LogKept /\ \E i \in Appendix : Appendix = {i} /\ log'[i] = ln
  BY Appended DEF LogKept
<1>2. ln.call \in Known'
  BY <1>1 DEF Known, Appendix
<1> QED
  BY <1>1, <1>2 DEF NothingForgotten, LogKept, Known

LEMMA HoldKept ==
  ASSUME TableTypeOK, UniqueKeys, NEW k \in Keys, NEW c \in Calls,
         HoldEntry(k, c)
  PROVE  NothingForgotten /\ c \in Known'
<1>1. Lands(k, c) \/ \E p \in pending : Replaces(p, k, c)
  BY HoldEffect
<1>2. CASE Lands(k, c)
  <2>1. /\ log' = log /\ pending' = pending \cup {NewEntry(k, c)}
        /\ NewEntry(k, c).call = c
    BY <1>2 DEF Lands, NewEntry
  <2>2. LogKept /\ Known \subseteq Known'
    BY <2>1 DEF LogKept, Known
  <2>3. c \in Known'
    BY <2>1 DEF Known
  <2> QED
    BY <2>2, <2>3 DEF NothingForgotten
<1>3. ASSUME NEW p \in pending, Replaces(p, k, c)
      PROVE  NothingForgotten /\ c \in Known'
  <2>1. PICK ln \in Line : log' = Append(log, ln) /\ ln.call = p.call
    <3>1. /\ Unfinished(p, "superseded") \in Line
          /\ Unfinished(p, "evicted") \in Line
      BY DEF Unfinished, Line, NoRet, TableTypeOK, Entry
    <3> QED
      BY <1>3, <3>1 DEF Replaces, Unfinished
  <2>2. pending' = (pending \ {p}) \cup {NewEntry(k, c)} /\ NewEntry(k, c).call = c
    BY <1>3 DEF Replaces, NewEntry
  <2>3. NothingForgotten
    BY <2>1, <2>2, LineKept DEF TableTypeOK
  <2>4. c \in Known'
    BY <2>2 DEF Known
  <2> QED
    BY <2>3, <2>4
<1> QED
  BY <1>1, <1>2, <1>3

LEMMA ReturnKept ==
  ASSUME TableTypeOK, NEW k \in Keys, NEW r \in Calls, HandleReturn(k, r)
  PROVE  NothingForgotten
<1>1. Unmatched(k) \/ \E p \in pending : Completes(p, k, r)
  BY ReturnEffect
<1>2. CASE Unmatched(k)
  BY <1>2 DEF Unmatched, NothingForgotten, LogKept, Known
<1>3. ASSUME NEW p \in pending, Completes(p, k, r) PROVE NothingForgotten
  <2>1. ValueLine(p.call, r) \in Line /\ ValueLine(p.call, r).call = p.call
    BY DEF ValueLine, Line, TableTypeOK, Entry, Calls
  <2> QED
    BY <1>3, <2>1, LineKept DEF Completes, TableTypeOK
<1> QED
  BY <1>1, <1>2, <1>3

LEMMA LogEntryKept ==
  ASSUME TableTypeOK, NEW c \in Calls, LogEntryOnly(c)
  PROVE  NothingForgotten /\ c \in Known'
<1>1. BareLine(c) \in Line /\ BareLine(c).call = c
  BY DEF BareLine, Line, NoRet
<1> QED
  BY <1>1, LineKept DEF LogEntryOnly, TableTypeOK

LEMMA FlushKept ==
  ASSUME TableTypeOK, FlushPending("shutdown") PROVE NothingForgotten
<1>1. /\ LogKept
      /\ \A p \in pending : \E i \in Appendix : log'[i].call = p.call
  BY Flushed DEF LogKept
<1> QED
  BY <1>1 DEF NothingForgotten, LogKept, Known, Appendix

-----------------------------------------------------------------------------
(***************************************************************************)
(* A call in flight keeps its entry, or loses it to an eviction.           *)
(***************************************************************************)
InTable(l) == \E p \in pending : p.key = l.key /\ p.call = l.call

Evicted(l) == \E i \in DOMAIN log : log[i].call = l.call /\ log[i].kind = "evicted"

LEMMA HoldLive ==
  ASSUME TableTypeOK, UniqueKeys, NEW k \in Keys, NEW c \in Calls,
         HoldEntry(k, c)
  PROVE  /\ \A l : l.key # k /\ (InTable(l) \/ Evicted(l)) =>
               InTable(l)' \/ Evicted(l)'
         /\ \A l : l.key = k /\ l.call = c => InTable(l)'
<1>1. Lands(k, c) \/ \E p \in pending : Replaces(p, k, c)
  BY HoldEffect
<1>2. NewEntry(k, c).key = k /\ NewEntry(k, c).call = c
  BY DEF NewEntry
<1>3. LogKept
  BY HoldKept DEF NothingForgotten
<1>4. CASE Lands(k, c)
  BY <1>2, <1>4 DEF Lands, InTable, Evicted
<1>5. ASSUME NEW p \in pending, Replaces(p, k, c)
      PROVE  /\ \A l : l.key # k /\ (InTable(l) \/ Evicted(l)) =>
                   InTable(l)' \/ Evicted(l)'
             /\ \A l : l.key = k /\ l.call = c => InTable(l)'
  <2>1. pending' = (pending \ {p}) \cup {NewEntry(k, c)}
    BY <1>5 DEF Replaces
  <2>2. p.key = k \/ \E i \in DOMAIN log' : /\ log'[i].call = p.call
                                            /\ log'[i].kind = "evicted"
    <3>1. Unfinished(p, "evicted") \in Line
      BY DEF Unfinished, Line, NoRet, TableTypeOK, Entry
    <3>2. CASE log' = Append(log, Unfinished(p, "evicted"))
      <4>1. \E i \in Appendix : log'[i] = Unfinished(p, "evicted")
        BY <3>1, <3>2, Appended DEF TableTypeOK
      <4> QED
        BY <4>1 DEF Appendix, Unfinished
    <3> QED
      BY <1>5, <3>2 DEF Replaces
  <2>3. \A l : l.key # k /\ InTable(l) => InTable(l)' \/ Evicted(l)'
    BY <2>1, <2>2 DEF InTable, Evicted
  <2>4. \A l : Evicted(l) => Evicted(l)'
    BY <1>3 DEF LogKept, Evicted
  <2> QED
    BY <1>2, <2>1, <2>3, <2>4 DEF InTable
<1> QED
  BY <1>1, <1>4, <1>5

LEMMA ReturnLive ==
  ASSUME TableTypeOK, NEW k \in Keys, NEW r \in Calls, HandleReturn(k, r)
  PROVE  \A l : l.key # k /\ (InTable(l) \/ Evicted(l)) => InTable(l)' \/ Evicted(l)'
<1>1. LogKept
  BY ReturnKept DEF NothingForgotten
<1>2. \A q \in pending : q.key # k => q \in pending'
  BY ReturnEffect DEF Unmatched, Completes
<1> QED
  BY <1>1, <1>2 DEF LogKept, InTable, Evicted

-----------------------------------------------------------------------------
(***************************************************************************)
(* The table in order, if each call recorded is younger than those before: *)
(* which of several entries is the oldest shows in seq, which then runs    *)
(* with the calls.                                                         *)
(***************************************************************************)
Order ==
  /\ \A p \in pending : p.seq < pendingSeq
  /\ \A p, q \in pending : /\ p.seq = q.seq => p = q
                           /\ p.seq < q.seq => p.call < q.call

\* What was given up for room, or at a shutdown, is older than what is held.
GivenUpOlder ==
  \A i \in DOMAIN log : log[i].kind \in {"evicted", "shutdown"} =>
    \A p \in pending : log[i].call < p.call

\* By the time of an eviction PendingMax younger calls have been recorded.
EvictedLate ==
  \A i \in DOMAIN log : log[i].kind = "evicted" =>
    \E c \in Known : log[i].call + PendingMax <= c

InOrder == Order /\ GivenUpOlder /\ EvictedLate /\ ShutdownInOrder

LEMMA CallsNumbered ==
  ASSUME TableTypeOK
  PROVE  /\ \A p \in pending : p.seq \in Nat /\ p.call \in Nat
         /\ \A i \in DOMAIN log : i \in Nat /\ log[i].call \in Nat
         /\ Known \subseteq Nat
<1>1. \A p \in pending : p.seq \in Nat /\ p.call \in Nat
  BY DEF TableTypeOK, Entry, Calls
<1>2. \A i \in DOMAIN log : i \in Nat /\ log[i] \in Line
  BY DEF TableTypeOK
<1> QED
  BY <1>1, <1>2 DEF Line, Calls, Known

\* Two held entries are of different calls.
LEMMA CallsDiffer == ASSUME TableTypeOK, Order PROVE CallsApart
  BY CallsNumbered DEF Order, CallsApart

\* With a full table, as many calls as it has slots are younger than the
\* oldest entry, or that entry's own: the calls held are all different.
LEMMA Room ==
  ASSUME TableTypeOK, Order, NEW p \in pending, Oldest(p),
         Cardinality(pending) >= PendingMax,
         NEW c \in Calls, \A q \in pending : q.call < c
  PROVE  p.call + PendingMax <= c
<1> DEFINE T == p.call..(c - 1)
           f == [q \in pending |-> q.call]
<1>1. /\ c \in Nat /\ PendingMax \in Nat /\ p.call \in Nat
      /\ IsFiniteSet(pending) /\ Cardinality(pending) \in Nat
  BY PendingMaxAssumption, FS_CardinalityType DEF TableTypeOK, Entry, Calls
<1>2. \A q \in pending : q.call \in T
  <2> SUFFICES ASSUME NEW q \in pending PROVE q.call \in T
    OBVIOUS
  <2>1. /\ q.call \in Nat /\ q.seq \in Nat /\ p.seq \in Nat
        /\ p.seq <= q.seq /\ q.call < c
    BY CallsNumbered DEF Oldest
  <2>2. p.call <= q.call
    BY <1>1, <2>1 DEF Order
  <2> QED
    BY <1>1, <2>1, <2>2
<1>3. IsFiniteSet(T) /\ Cardinality(T) = c - p.call
  <2>1. p.call <= c - 1
    BY <1>1
  <2>2. p.call \in Int /\ c - 1 \in Int
    BY <1>1
  <2>3. /\ IsFiniteSet(T)
        /\ Cardinality(T) = IF p.call > c - 1 THEN 0 ELSE (c - 1) - p.call + 1
    BY <2>2, FS_Interval
  <2> QED
    BY <1>1, <2>1, <2>3
<1>4. f \in [pending -> T]
  BY <1>2
<1>5. \A q, r \in pending : q # r => f[q] # f[r]
  BY CallsDiffer DEF CallsApart
<1> HIDE DEF T, f
<1>6. ~(Cardinality(T) < Cardinality(pending))
  BY <1>1, <1>3, <1>4, <1>5, FS_PigeonHole
<1> QED
  BY <1>1, <1>3, <1>6

LEMMA HoldInOrder ==
  ASSUME TableTypeOK, UniqueKeys, InOrder, NEW k \in Keys, NEW c \in Calls,
         HoldEntry(k, c), \A b \in Known : b < c
  PROVE  InOrder'
<1> DEFINE new == NewEntry(k, c)
           \* Both ways to hold the entry, in one description.
           Changes ==
             /\ \A q \in pending' : q = new \/ q \in pending
             /\ \A i \in Appendix : log'[i].kind # "shutdown"
             /\ \A i \in Appendix : log'[i].kind = "evicted" =>
                  \E p \in pending \ pending' :
                    /\ log'[i].call = p.call
                    /\ Oldest(p) /\ Cardinality(pending) >= PendingMax
<1>1. /\ pendingSeq' = pendingSeq + 1 /\ pendingSeq \in Nat
      /\ Lands(k, c) \/ \E p \in pending : Replaces(p, k, c)
      /\ LogKept /\ Known \subseteq Known' /\ c \in Known' /\ c \in Nat
  BY HoldEffect, HoldKept DEF NothingForgotten, TableTypeOK, Calls
<1>2. new.seq = pendingSeq /\ new.call = c
  BY DEF NewEntry
<1>3. /\ \A p \in pending : p.seq \in Nat /\ p.call \in Nat /\ p.call < c
      /\ \A i \in DOMAIN log : log[i].call \in Nat /\ log[i].call < c
      /\ Known \subseteq Nat
  BY CallsNumbered DEF Known
<1>4. Changes
  <2>1. CASE Lands(k, c)
    BY <2>1 DEF Lands, Appendix
  <2>2. ASSUME NEW p \in pending, Replaces(p, k, c) PROVE Changes
    <3>1. pending' = (pending \ {p}) \cup {new} /\ p # new
      BY <1>2, <1>3, <2>2 DEF Replaces
    <3>2. PICK ln \in Line :
            /\ log' = Append(log, ln) /\ ln.call = p.call
            /\ ln.kind # "shutdown"
            /\ ln.kind = "evicted" =>
                 Oldest(p) /\ Cardinality(pending) >= PendingMax
      <4>1. /\ Unfinished(p, "superseded") \in Line
            /\ Unfinished(p, "evicted") \in Line
        BY DEF Unfinished, Line, NoRet, TableTypeOK, Entry
      <4> QED
        BY <2>2, <4>1 DEF Replaces, Unfinished
    <3>3. \A i \in Appendix : log'[i] = ln
      BY <3>2, Appended DEF TableTypeOK
    <3> HIDE DEF new
    <3> QED
      BY <3>1, <3>2, <3>3
  <2> QED
    BY <1>1, <2>1, <2>2
<1> HIDE DEF new
<1>5. \A i \in DOMAIN log' : \/ i \in DOMAIN log /\ log'[i] = log[i]
                             \/ i \in Appendix
  BY <1>1 DEF Appendix, LogKept
<1>6. Order'
  BY <1>1, <1>2, <1>3, <1>4 DEF InOrder, Order
<1>7. GivenUpOlder'
  <2> SUFFICES ASSUME NEW i \in DOMAIN log', NEW q \in pending',
                      log'[i].kind \in {"evicted", "shutdown"}
               PROVE  log'[i].call < q.call
    BY DEF GivenUpOlder
  <2>1. CASE i \in DOMAIN log /\ log'[i] = log[i]
    BY <1>2, <1>3, <1>4, <2>1 DEF InOrder, GivenUpOlder
  <2>2. CASE i \in Appendix
    <3>1. PICK p \in pending \ pending' : log'[i].call = p.call /\ Oldest(p)
      BY <1>4, <2>2
    <3>2. CASE q = new
      BY <1>2, <1>3, <3>1, <3>2
    <3>3. CASE q \in pending
      <4>1. p.seq <= q.seq /\ p # q
        BY <3>1, <3>3 DEF Oldest
      <4> QED
        BY <1>3, <3>1, <3>3, <4>1 DEF InOrder, Order
    <3> QED
      BY <1>4, <3>2, <3>3
  <2> QED
    BY <1>5, <2>1, <2>2
<1>8. EvictedLate'
  <2> SUFFICES ASSUME NEW i \in DOMAIN log', log'[i].kind = "evicted"
               PROVE  \E b \in Known' : log'[i].call + PendingMax <= b
    BY DEF EvictedLate
  <2>1. CASE i \in DOMAIN log /\ log'[i] = log[i]
    BY <1>1, <2>1 DEF InOrder, EvictedLate
  <2>2. CASE i \in Appendix
    <3>1. PICK p \in pending \ pending' :
            /\ log'[i].call = p.call
            /\ Oldest(p) /\ Cardinality(pending) >= PendingMax
      BY <1>4, <2>2
    <3>2. p.call + PendingMax <= c
      BY <1>3, <3>1, Room DEF InOrder
    <3> QED
      BY <1>1, <3>1, <3>2
  <2> QED
    BY <1>5, <2>1, <2>2
<1>9. ShutdownInOrder'
  BY <1>4, <1>5 DEF InOrder, ShutdownInOrder
<1> QED
  BY <1>6, <1>7, <1>8, <1>9 DEF InOrder

\* A handler that records nothing new and gives up nothing.
LEMMA StaysInOrder ==
  ASSUME InOrder, pendingSeq' = pendingSeq, pending' \subseteq pending,
         NothingForgotten,
         \A i \in Appendix : log'[i].kind \notin {"evicted", "shutdown"}
  PROVE  InOrder'
<1>1. \A i \in DOMAIN log' : log'[i].kind \in {"evicted", "shutdown"} =>
        i \in DOMAIN log /\ log'[i] = log[i]
  BY DEF NothingForgotten, LogKept, Appendix
<1>2. Order'
  BY DEF InOrder, Order
<1>3. GivenUpOlder' /\ ShutdownInOrder'
  BY <1>1 DEF InOrder, GivenUpOlder, ShutdownInOrder
<1>4. EvictedLate'
  BY <1>1 DEF InOrder, EvictedLate, NothingForgotten
<1> QED
  BY <1>2, <1>3, <1>4 DEF InOrder

LEMMA ReturnInOrder ==
  ASSUME TableTypeOK, InOrder, NEW k \in Keys, NEW r \in Calls,
         HandleReturn(k, r)
  PROVE  InOrder'
<1>1. /\ pendingSeq' = pendingSeq /\ NothingForgotten
      /\ Unmatched(k) \/ \E p \in pending : Completes(p, k, r)
  BY ReturnEffect, ReturnKept
<1>2. CASE Unmatched(k)
  BY <1>1, <1>2, StaysInOrder DEF Unmatched, Appendix
<1>3. ASSUME NEW p \in pending, Completes(p, k, r) PROVE InOrder'
  <2>1. /\ pending' = pending \ {p} /\ log' = Append(log, ValueLine(p.call, r))
        /\ ValueLine(p.call, r) \in Line
    BY <1>3 DEF Completes, ValueLine, Line, TableTypeOK, Entry, Calls
  <2>2. \A i \in Appendix : log'[i] = ValueLine(p.call, r)
    BY <2>1, Appended DEF TableTypeOK
  <2>3. \A i \in Appendix : log'[i].kind \notin {"evicted", "shutdown"}
    BY <2>2 DEF ValueLine
  <2> QED
    BY <1>1, <2>1, <2>3, StaysInOrder
<1> QED
  BY <1>1, <1>2, <1>3

LEMMA LogEntryInOrder ==
  ASSUME TableTypeOK, InOrder, NEW c \in Calls, LogEntryOnly(c)
  PROVE  InOrder'
<1>1. /\ UNCHANGED <<pending, pendingSeq>> /\ NothingForgotten
      /\ log' = Append(log, BareLine(c)) /\ BareLine(c) \in Line
  BY LogEntryKept DEF LogEntryOnly, BareLine, Line, NoRet
<1>2. \A i \in Appendix : log'[i] = BareLine(c)
  BY <1>1, Appended DEF TableTypeOK
<1>3. \A i \in Appendix : log'[i].kind \notin {"evicted", "shutdown"}
  BY <1>2 DEF BareLine
<1> QED
  BY <1>1, <1>3, StaysInOrder

LEMMA FlushInOrder ==
  ASSUME TableTypeOK, InOrder, FlushPending("shutdown")
  PROVE  InOrder'
<1>1. /\ pending' = {} /\ NothingForgotten /\ LogKept
      /\ \A i \in Appendix : \E p \in pending :
           log'[i].call = p.call /\ log'[i].kind = "shutdown"
      /\ \A i, j \in Appendix : i < j => \E p, q \in pending :
           log'[i].call = p.call /\ log'[j].call = q.call /\ p.seq < q.seq
      /\ \A i \in DOMAIN log, j \in Appendix : i < j
  BY Flushed, FlushKept DEF NothingForgotten
<1>2. \A i \in DOMAIN log' : \/ i \in DOMAIN log /\ log'[i] = log[i]
                             \/ i \in Appendix
  BY <1>1 DEF Appendix, LogKept
<1>3. Order' /\ GivenUpOlder'
  BY <1>1 DEF Order, GivenUpOlder
<1>4. EvictedLate'
  BY <1>1, <1>2 DEF InOrder, EvictedLate, NothingForgotten
<1>5. ShutdownInOrder'
  <2> SUFFICES ASSUME NEW i \in DOMAIN log', NEW j \in DOMAIN log', i < j,
                      log'[i].kind = "shutdown", log'[j].kind = "shutdown"
               PROVE  log'[i].call < log'[j].call
    BY DEF ShutdownInOrder
  <2>1. CASE i \in DOMAIN log /\ j \in DOMAIN log
    BY <1>1, <2>1 DEF InOrder, ShutdownInOrder, LogKept
  <2>2. CASE i \in DOMAIN log /\ j \in Appendix
    BY <1>1, <2>2 DEF InOrder, GivenUpOlder, LogKept
  <2>3. CASE i \in Appendix /\ j \in DOMAIN log
    <3>1. i \in Nat /\ j \in Nat /\ j < i
      BY <1>1, <2>3, Flushed
    <3> QED
      BY <3>1
  <2>4. CASE i \in Appendix /\ j \in Appendix
    BY <1>1, <2>4 DEF InOrder, Order
  <2> QED
    BY <1>2, <2>1, <2>2, <2>3, <2>4
<1> QED
  BY <1>3, <1>4, <1>5 DEF InOrder
=============================================================================
