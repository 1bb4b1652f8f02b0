---------------------------- MODULE PendingTable ----------------------------
(***************************************************************************)
(* vmi_pending[]: the table that holds a syscall's entry until its return  *)
(* is seen, and the event log it feeds.  The handlers are operators;       *)
(* SyscallPairing and InlineMonitor take steps with them.                  *)
(*                                                                         *)
(* The slots of the C array are interchangeable, so the table is the set   *)
(* of its used entries.  `call' identifies the guest's call an entry or a  *)
(* line stands for (number, arguments and time stamp in the code).         *)
(***************************************************************************)
EXTENDS Naturals, Sequences, FiniteSets

CONSTANTS Keys,        \* pairing keys: the caller's (%rsp, %rcx)
          PendingMax   \* VMI_PENDING_MAX

ASSUME PendingMaxAssumption == PendingMax \in Nat \ {0}

VARIABLES pending,     \* used entries of vmi_pending[]
          pendingSeq,  \* vmi_pending_seq
          log          \* lines of the JSONL file

tableVars == <<pending, pendingSeq, log>>

Calls == Nat \ {0}
NoRet == 0             \* "ret": null, or no "ret" field at all

Entry == [seq : Nat, key : Keys, call : Calls]
Line  == [call : Calls,
          kind : {"entry", "value", "superseded", "evicted", "shutdown"},
          ret  : Nat]  \* the call whose %rax the line prints as "ret"

TableTypeOK ==
  /\ pending \subseteq Entry
  /\ IsFiniteSet(pending) /\ Cardinality(pending) <= PendingMax
  /\ pendingSeq \in Nat
  /\ log \in Seq(Line)

TableInit == pending = {} /\ pendingSeq = 0 /\ log = << >>

-----------------------------------------------------------------------------
ValueLine(c, r) == [call |-> c, kind |-> "value", ret |-> r]
BareLine(c)     == [call |-> c, kind |-> "entry", ret |-> NoRet]
Unfinished(p, why) == [call |-> p.call, kind |-> why, ret |-> NoRet]

NewEntry(k, c) == [seq |-> pendingSeq, key |-> k, call |-> c]

\* Without a return hook a call is logged at its entry and not held.
LogEntryOnly(c) ==
  /\ log' = Append(log, BareLine(c))
  /\ UNCHANGED <<pending, pendingSeq>>

(***************************************************************************)
(* vmi_handle_entry().  At most one entry can have the key (UniqueKeys),   *)
(* so the scan's "superseded" write happens at most once; the slot it      *)
(* frees is then a free slot, and nothing is evicted.                      *)
(***************************************************************************)
\* (Faulty variant: the key is not compared.)
SupersedeAny(k, c) ==
  \E p \in pending :
    /\ log' = Append(log, Unfinished(p, "superseded"))
    /\ pending' = (pending \ {p}) \cup {NewEntry(k, c)}

Supersede(k, c) ==
  \E p \in pending :
    /\ p.key = k
    /\ log' = Append(log, Unfinished(p, "superseded"))
    /\ pending' = (pending \ {p}) \cup {NewEntry(k, c)}

TakeFreeSlot(k, c) ==
  /\ \A p \in pending : p.key # k
  /\ Cardinality(pending) < PendingMax
  /\ pending' = pending \cup {NewEntry(k, c)}
  /\ UNCHANGED log

\* (Faulty variant: the youngest is evicted.)
Youngest(p) == \A q \in pending : q.seq <= p.seq

Oldest(p) == \A q \in pending : p.seq <= q.seq

\* (Faulty variant: the slot is reused without writing its entry.)
EvictSilently(k, c) ==
  /\ \A p \in pending : p.key # k
  /\ Cardinality(pending) >= PendingMax
  /\ \E p \in pending : Oldest(p) /\ pending' = (pending \ {p}) \cup {NewEntry(k, c)}
  /\ UNCHANGED log

EvictOldest(k, c) ==
  /\ \A p \in pending : p.key # k
  /\ Cardinality(pending) >= PendingMax
  /\ \E p \in pending :
       /\ Oldest(p)
       /\ log' = Append(log, Unfinished(p, "evicted"))
       /\ pending' = (pending \ {p}) \cup {NewEntry(k, c)}

HoldEntry(k, c) ==
  /\ Supersede(k, c) \/ TakeFreeSlot(k, c) \/ EvictOldest(k, c)
  /\ pendingSeq' = pendingSeq + 1

(***************************************************************************)
(* vmi_handle_return(): r is the call that is really returning; its value  *)
(* is written on the line of the entry the key finds, and a return that    *)
(* finds none is not logged.                                               *)
(***************************************************************************)
\* (Faulty variants: the last one in is the first one out; the slot stays
\* in use.)
ReturnLifo(k, r) ==
  /\ \/ \E p \in pending :
          /\ Youngest(p)
          /\ log' = Append(log, ValueLine(p.call, r))
          /\ pending' = pending \ {p}
     \/ pending = {} /\ UNCHANGED <<pending, log>>
  /\ UNCHANGED pendingSeq

ReturnKeepsSlot(k, r) ==
  /\ \/ \E p \in pending :
          /\ p.key = k
          /\ log' = Append(log, ValueLine(p.call, r))
     \/ (\A p \in pending : p.key # k) /\ UNCHANGED log
  /\ UNCHANGED <<pending, pendingSeq>>

HandleReturn(k, r) ==
  /\ \/ \E p \in pending :
          /\ p.key = k
          /\ log' = Append(log, ValueLine(p.call, r))
          /\ pending' = pending \ {p}
     \/ /\ \A p \in pending : p.key # k
        /\ UNCHANGED <<pending, log>>
  /\ UNCHANGED pendingSeq

\* The listings of S by increasing seq (exactly one when seqs differ).
\* (Faulty variant: in slot order, which is any order.)
AnyOrder(S) ==
  {s \in [1..Cardinality(S) -> S] : \A p \in S : \E i \in DOMAIN s : s[i] = p}

OldestFirst(S) ==
  {s \in [1..Cardinality(S) -> S] :
     /\ \A i, j \in DOMAIN s : i < j => s[i].seq < s[j].seq
     /\ \A p \in S : \E i \in DOMAIN s : s[i] = p}

\* vmi_flush_pending(): every entry is written, oldest first, and freed.
FlushPending(why) ==
  /\ \E s \in OldestFirst(pending) :
       log' = log \o [i \in DOMAIN s |-> Unfinished(s[i], why)]
  /\ pending' = {}
  /\ UNCHANGED pendingSeq

-----------------------------------------------------------------------------
\* A value line prints the return value of the very call it is about: the
\* pairing promise of vmi-syscall-monitor.c:38-45.
PairCorrect ==
  \A i \in DOMAIN log : log[i].kind = "value" => log[i].ret = log[i].call

\* No call gets two lines, and none a line while it is still held.
LoggedOnce ==
  /\ \A i, j \in DOMAIN log : log[i].call = log[j].call => i = j
  /\ \A i \in DOMAIN log : \A p \in pending : log[i].call # p.call

\* The key identifies a pending entry.
UniqueKeys == \A p, q \in pending : p.key = q.key => p = q

\* vmi_flush_pending() writes the calls of one shutdown, and of successive
\* ones, in the order the guest issued them.
ShutdownInOrder ==
  \A i, j \in DOMAIN log :
     /\ log[i].kind = "shutdown" /\ log[j].kind = "shutdown"
     /\ i < j
     => log[i].call < log[j].call
=============================================================================
