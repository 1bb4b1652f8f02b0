------------------------ MODULE SyscallPairingProofs ------------------------
(***************************************************************************)
(* Theorems about SyscallPairing, for any set of pairing keys, any table   *)
(* size and any number of calls: the properties of its run and that it     *)
(* implements StraceLog.                                                   *)
(***************************************************************************)
EXTENDS SyscallPairing, PendingTableProofs

-----------------------------------------------------------------------------
(***************************************************************************)
(* The inductive invariant.                                                *)
(*                                                                         *)
(* A return is paired right because the entry its key finds is its own     *)
(* call's (Match): an entry whose thread is gone may linger under a key,   *)
(* but is superseded by the next call that uses the key.  A new call is    *)
(* younger than all before (Bounded), which keeps the table in order.      *)
(***************************************************************************)
Bounded ==
  /\ \A c \in Known : c < nextCall
  /\ \A l \in live : l.call < nextCall

Match ==
  /\ \A l, m \in live : l.key = m.key => l = m
  /\ \A l \in live, p \in pending : p.key = l.key => p.call = l.call

Inv ==
  /\ TypeOK /\ Bounded /\ UniqueKeys /\ Match /\ InOrder
  /\ PairCorrect /\ LoggedOnce /\ NothingLost /\ LiveKept

\* The last two, in the words of the lemmas about the table.
LEMMA Restated ==
  /\ NothingLost <=> Issued \subseteq Known
  /\ LiveKept <=> (running => \A l \in live : InTable(l) \/ Evicted(l))
<1>1. NothingLost <=> Issued \subseteq Known
  BY DEF NothingLost, Known
<1>2. LiveKept <=> (running => \A l \in live : InTable(l) \/ Evicted(l))
  BY DEF LiveKept, InTable, Evicted
<1> QED
  BY <1>1, <1>2

LEMMA InitInv == Init => Inv
<1> SUFFICES ASSUME Init PROVE Inv
  OBVIOUS
<1>1. pending = {} /\ live = {} /\ nextCall = 1 /\ pendingSeq = 0
      /\ log = << >> /\ DOMAIN log = {}
  BY DEF Init, TableInit
<1>2. log \in Seq(Line)
  BY <1>1, EmptySeq
<1>3. TypeOK
  BY <1>1, <1>2, EmptyTable DEF Init, TypeOK, Calls
<1>4. Bounded /\ UniqueKeys /\ Match
  BY <1>1 DEF Bounded, Known, UniqueKeys, Match
<1>5. InOrder
  BY <1>1 DEF InOrder, Order, GivenUpOlder, EvictedLate, ShutdownInOrder
<1>6. PairCorrect /\ LoggedOnce /\ NothingLost /\ LiveKept
  BY <1>1 DEF PairCorrect, LoggedOnce, NothingLost, Issued, LiveKept
<1> QED
  BY <1>3, <1>4, <1>5, <1>6 DEF Inv

\* What the lemmas about the table ask for.
LEMMA TableReady ==
  ASSUME Inv
  PROVE  TableTypeOK /\ Once /\ Known \subseteq Nat
  BY CallsDiffer, CallsNumbered DEF Inv, TypeOK, InOrder, Once

-----------------------------------------------------------------------------
(***************************************************************************)
(* One lemma per action.                                                   *)
(***************************************************************************)
LEMMA EnterInv ==
  ASSUME Inv, NEW k \in Keys, Enter(k)
  PROVE  Inv'
<1> DEFINE l == [key |-> k, call |-> nextCall]
<1>1. /\ nextCall \in Calls /\ nextCall' = nextCall + 1
      /\ running /\ running' /\ HoldEntry(k, nextCall)
      /\ \A m \in live : m.key # k /\ m.key \in Keys /\ m.call \in Calls
      /\ live' = live \cup {l}
  BY DEF Enter, Inv, TypeOK
<1>2. PICK c \in Calls : c = nextCall
  BY <1>1
<1>3. /\ TableTypeOK /\ UniqueKeys /\ Once /\ Known \subseteq Nat
      /\ HoldEntry(k, c) /\ c \notin Known /\ \A b \in Known : b < c
  BY <1>1, <1>2, TableReady DEF Inv, Bounded, Calls
<1>4. /\ TableTypeOK' /\ Once' /\ Known' \subseteq Known \cup {c}
      /\ Known \subseteq Known' /\ c \in Known'
      /\ Lands(k, c) \/ \E p \in pending : Replaces(p, k, c)
  BY <1>3, HoldEffect, HoldOnce, HoldKept DEF NothingForgotten
<1>5. TypeOK'
  BY <1>1, <1>4 DEF TypeOK, Inv, Enter, Calls
<1>6. Bounded'
  BY <1>1, <1>2, <1>3, <1>4 DEF Inv, Bounded, Calls
<1>7. UniqueKeys' /\ Match'
  <2>1. \A q \in pending' : \/ q = NewEntry(k, c)
                            \/ q \in pending /\ q.key # k
    BY <1>4 DEF Lands, Replaces
  <2>2. NewEntry(k, c).key = k /\ NewEntry(k, c).call = c
    BY DEF NewEntry
  <2> QED
    BY <1>1, <1>2, <2>1, <2>2 DEF Inv, UniqueKeys, Match
<1>8. InOrder'
  BY <1>3, HoldInOrder DEF Inv
<1>9. PairCorrect' /\ LoggedOnce'
  BY <1>3, <1>4, HoldPairs DEF Inv, Once
<1>10. NothingLost'
  <2>1. Issued' \subseteq Issued \cup {c}
    BY <1>1, <1>2 DEF Issued, Calls
  <2>2. (Issued \subseteq Known)'
    BY <1>4, <2>1, Restated DEF Inv
  <2> QED
    BY <2>2, Restated, PTL
<1>11. LiveKept'
  <2>1. \A m \in live : InTable(m) \/ Evicted(m)
    BY <1>1, Restated DEF Inv
  <2>2. /\ \A m : m.key # k /\ (InTable(m) \/ Evicted(m)) =>
             InTable(m)' \/ Evicted(m)'
        /\ \A m : m.key = k /\ m.call = c => InTable(m)'
    BY <1>3, HoldLive
  <2>3. \A m \in live' : InTable(m)' \/ Evicted(m)'
    BY <1>1, <1>2, <2>1, <2>2
  <2> QED
    BY <2>3 DEF LiveKept, InTable, Evicted
<1> QED
  BY <1>5, <1>6, <1>7, <1>8, <1>9, <1>10, <1>11 DEF Inv

LEMMA ReturnInv ==
  ASSUME Inv, NEW l \in live, Return(l)
  PROVE  Inv'
<1>1. /\ l.key \in Keys /\ l.call \in Calls
      /\ HandleReturn(l.key, l.call)
      /\ live' = live \ {l} /\ nextCall' = nextCall /\ running' = running
  BY DEF Return, Inv, TypeOK
<1>2. PICK k \in Keys, c \in Calls : k = l.key /\ c = l.call
  BY <1>1
<1>3. TableTypeOK /\ Once /\ HandleReturn(k, c)
  BY <1>1, <1>2, TableReady
\* The entry the key finds is the returning call's own.
<1>4. \A p \in pending : p.key = k => p.call = c
  BY <1>2 DEF Inv, Match
<1>5. /\ TableTypeOK' /\ Once' /\ Known' \subseteq Known
      /\ Known \subseteq Known' /\ pending' \subseteq pending
      /\ PairCorrect' /\ InOrder'
  BY <1>3, <1>4, ReturnEffect, ReturnOnce, ReturnKept, ReturnPairs,
     ReturnInOrder DEF Inv, NothingNew, NothingForgotten
<1>6. TypeOK' /\ Bounded'
  BY <1>1, <1>5 DEF Inv, TypeOK, Bounded
<1>7. UniqueKeys' /\ Match'
  BY <1>1, <1>5 DEF Inv, UniqueKeys, Match
<1>8. LoggedOnce' /\ NothingLost'
  <2>1. (Issued \subseteq Known)'
    BY <1>1, <1>5, Restated DEF Inv, Issued
  <2> QED
    BY <1>5, <2>1, Restated, PTL DEF Once
<1>9. LiveKept'
  <2>1. \A m : m.key # k /\ (InTable(m) \/ Evicted(m)) =>
          InTable(m)' \/ Evicted(m)'
    BY <1>3, ReturnLive
  <2>2. running' => \A m \in live' : InTable(m)' \/ Evicted(m)'
    BY <1>1, <1>2, <2>1, Restated DEF Inv, Match
  <2> QED
    BY <2>2 DEF LiveKept, InTable, Evicted
<1> QED
  BY <1>5, <1>6, <1>7, <1>8, <1>9 DEF Inv

LEMMA ShutdownInv ==
  ASSUME Inv, Shutdown
  PROVE  Inv'
<1>1. /\ FlushPending("shutdown") /\ running' = FALSE
      /\ live' = live /\ nextCall' = nextCall
  BY DEF Shutdown
<1>2. /\ TableTypeOK' /\ Once' /\ Known' \subseteq Known
      /\ Known \subseteq Known' /\ pending' = {}
      /\ PairCorrect' /\ InOrder'
  BY <1>1, TableReady, FlushEffect, FlushOnce, FlushKept, FlushPairs,
     FlushInOrder DEF Inv, NothingNew, NothingForgotten
<1>3. TypeOK' /\ Bounded' /\ UniqueKeys' /\ Match'
  BY <1>1, <1>2 DEF Inv, TypeOK, Bounded, UniqueKeys, Match
<1>4. LoggedOnce' /\ NothingLost' /\ LiveKept'
  <2>1. (Issued \subseteq Known)'
    BY <1>1, <1>2, Restated DEF Inv, Issued
  <2>2. LiveKept'
    BY <1>1 DEF LiveKept
  <2> QED
    BY <1>2, <2>1, <2>2, Restated, PTL DEF Once
<1> QED
  BY <1>2, <1>3, <1>4 DEF Inv

\* A step that leaves the table alone and takes calls out of flight, if any.
LEMMA TableAlone ==
  ASSUME Inv, UNCHANGED <<pending, pendingSeq, log, nextCall>>,
         live' \subseteq live, running' \in BOOLEAN,
         running' => running \/ live' = {}
  PROVE  Inv'
<1> USE DEF Inv
<1>1. TypeOK' /\ Bounded' /\ Match' /\ UniqueKeys'
  BY DEF TypeOK, TableTypeOK, Bounded, Known, Match, UniqueKeys
<1>2. InOrder'
  BY DEF InOrder, Order, GivenUpOlder, EvictedLate, Known, ShutdownInOrder
<1>3. PairCorrect' /\ LoggedOnce' /\ NothingLost' /\ LiveKept'
  BY DEF PairCorrect, LoggedOnce, NothingLost, Issued, LiveKept
<1> QED
  BY <1>1, <1>2, <1>3

LEMMA NextInv == Inv /\ [Next]_vars => Inv'
<1> SUFFICES ASSUME Inv, [Next]_vars PROVE Inv'
  OBVIOUS
<1>1. ASSUME NEW l \in live, Abandon(l) PROVE Inv'
  BY <1>1, TableAlone DEF Abandon, Inv, TypeOK
<1>2. CASE Reset
  BY <1>2, TableAlone DEF Reset
<1>3. CASE UNCHANGED vars
  BY <1>3, TableAlone DEF vars, Inv, TypeOK
<1> QED
  BY <1>1, <1>2, <1>3, EnterInv, ReturnInv, ShutdownInv DEF Next

-----------------------------------------------------------------------------
LEMMA InvHolds == Spec => []Inv
  BY InitInv, NextInv, PTL DEF Spec

\* Table and log keep their types: in particular vmi_pending[] never holds
\* more than VMI_PENDING_MAX entries.
THEOREM TypeCorrect == Spec => []TypeOK
  BY InvHolds, PTL DEF Inv

\* However threads are switched, die or are reset, a value printed by
\* vmi_handle_return() is the return value of the very call of that line.
THEOREM PairingCorrect == Spec => []PairCorrect
  BY InvHolds, PTL DEF Inv

\* No call gets two lines, none a line while it is held.
THEOREM OneLinePerCall == Spec => []LoggedOnce
  BY InvHolds, PTL DEF Inv

\* A call that reached vmi_handle_entry() is held or has its line.
THEOREM NoCallLost == Spec => []NothingLost
  BY InvHolds, PTL DEF Inv

\* A call in flight loses its entry only to an eviction: no other thread's
\* entry or return takes it.
THEOREM InFlightKept == Spec => []LiveKept
  BY InvHolds, PTL DEF Inv

\* An eviction hits the oldest entry, when VMI_PENDING_MAX calls have been
\* issued since.
THEOREM EvictionFair == Spec => []EvictedOldest
<1>1. Inv => EvictedOldest
  <2> SUFFICES ASSUME Inv, NEW i \in DOMAIN log, log[i].kind = "evicted"
               PROVE  /\ \A p \in pending : log[i].call < p.call
                      /\ log[i].call + PendingMax < nextCall
    BY DEF EvictedOldest
  <2>1. \A p \in pending : log[i].call < p.call
    BY DEF Inv, InOrder, GivenUpOlder
  <2>2. PICK c \in Known : log[i].call + PendingMax <= c
    BY DEF Inv, InOrder, EvictedLate
  <2>3. /\ c \in Nat /\ nextCall \in Nat /\ c < nextCall
        /\ log[i].call \in Nat /\ PendingMax \in Nat
    BY TableReady, CallsNumbered, PendingMaxAssumption
       DEF Inv, Bounded, TypeOK, Calls
  <2> QED
    BY <2>1, <2>2, <2>3
<1> QED
  BY <1>1, InvHolds, PTL

\* vmi_flush_pending() writes in the order of the calls.
THEOREM FlushOrdered == Spec => []ShutdownInOrder
  BY InvHolds, PTL DEF Inv, InOrder

-----------------------------------------------------------------------------
\* Whatever a step does, the lines already in the file stay.
LEMMA LogGrows ==
  ASSUME Inv, [Next]_vars
  PROVE  \A i \in DOMAIN log : i \in DOMAIN log' /\ log'[i] = log[i]
<1> SUFFICES LogKept
  BY DEF LogKept
<1>1. TableTypeOK /\ UniqueKeys
  BY TableReady DEF Inv
<1>2. ASSUME NEW k \in Keys, Enter(k) PROVE LogKept
  BY <1>1, <1>2, HoldKept DEF Enter, Inv, TypeOK, NothingForgotten
<1>3. ASSUME NEW l \in live, Return(l) PROVE LogKept
  <2>1. l.key \in Keys /\ l.call \in Calls /\ HandleReturn(l.key, l.call)
    BY <1>3 DEF Return, Inv, TypeOK
  <2>2. PICK k \in Keys, c \in Calls : k = l.key /\ c = l.call
    BY <2>1
  <2> QED
    BY <1>1, <2>1, <2>2, ReturnKept DEF NothingForgotten
<1>4. CASE Shutdown
  BY <1>1, <1>4, FlushKept DEF Shutdown, NothingForgotten
<1>5. CASE (\E l \in live : Abandon(l)) \/ Reset \/ UNCHANGED vars
  BY <1>5 DEF Abandon, Reset, vars, LogKept
<1> QED
  BY <1>2, <1>3, <1>4, <1>5 DEF Next

LEMMA StepMaps ==
  ASSUME Inv, Inv', [Next]_vars
  PROVE  [Strace!Step]_<<nextCall - 1, log>>
<1>1. nextCall' - 1 \in {nextCall - 1, (nextCall - 1) + 1}
  <2>1. nextCall \in Nat
    BY DEF Inv, TypeOK, Calls
  <2>2. nextCall' = nextCall \/ nextCall' = nextCall + 1
    BY DEF Next, Enter, Return, Abandon, Shutdown, Reset, vars
  <2> QED
    BY <2>1, <2>2
<1>2. /\ Len(log) \in Nat /\ DOMAIN log = 1..Len(log)
      /\ Len(log') \in Nat /\ DOMAIN log' = 1..Len(log')
      /\ nextCall' \in Nat
      /\ \A i \in DOMAIN log' : log'[i].call \in Nat \ {0}
  <2>1. log \in Seq(Line) /\ log' \in Seq(Line)
    BY DEF Inv, TypeOK, TableTypeOK
  <2>2. \A i \in DOMAIN log' : log'[i] \in Line
    BY <2>1, ElementOfSeq
  <2> QED
    BY <2>1, <2>2 DEF Line, Inv, TypeOK, Calls
<1>3. \A i \in DOMAIN log : i \in DOMAIN log' /\ log'[i] = log[i]
  BY LogGrows
<1>4. Len(log') >= Len(log)
  BY <1>2, <1>3
<1>5. ASSUME NEW i \in Strace!Added PROVE Strace!Truthful(i) /\ Strace!Fresh(i)
  <2>1. i \in DOMAIN log'
    BY <1>2, <1>5 DEF Strace!Added
  <2>2. log'[i].call \in 1..(nextCall' - 1)
    <3>1. log'[i].call \in Known'
      BY <2>1 DEF Known
    <3>2. log'[i].call < nextCall'
      BY <3>1 DEF Inv, Bounded
    <3> QED
      BY <1>2, <2>1, <3>2
  <2>3. Strace!Truthful(i)
    BY <2>1, <2>2 DEF Inv, PairCorrect, Strace!Truthful
  <2>4. Strace!Fresh(i)
    BY <1>2, <2>1 DEF Inv, LoggedOnce, Strace!Fresh
  <2> QED
    BY <2>3, <2>4
<1> QED
  BY <1>1, <1>2, <1>3, <1>4, <1>5 DEF Strace!Step

\* The pending table makes the log an honest strace of the guest: append
\* only, at most one line per issued call, no return value but its own.
THEOREM Implements == Spec => ImplementsStraceLog
<1>1. Init => Strace!Init
  BY DEF Init, TableInit, Strace!Init
<1>2. Inv /\ Inv' /\ [Next]_vars => [Strace!Step]_<<nextCall - 1, log>>
  BY StepMaps
<1> QED
  BY <1>1, <1>2, InvHolds, PTL DEF Spec, ImplementsStraceLog, Strace!Spec
=============================================================================
