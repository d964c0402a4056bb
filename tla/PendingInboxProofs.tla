------------------------- MODULE PendingInboxProofs -------------------------
(***************************************************************************)
(* Proofs about the pending inbox, and about the Goal rounds composed with *)
(* it, for any sets of bodies, correlations, terminals, clients and        *)
(* writers and for any bounds.                                             *)
(***************************************************************************)
EXTENDS GoalRounds, FiniteSetTheorems, TLAPS

\* A correlation has one number, every receipt was one, and the row it names
\* stays out of a client's reach.
CorrelationInv ==
    /\ \A c, d \in correlation : c.key = d.key => c.seq = d.seq
    /\ \A x \in receipts : \E c \in correlation : c.key = x[1] /\ c.seq = x[2]
    /\ \A c \in correlation :
          c.seq \in Seqs(ledger) \/ \E r \in pending : r.seq = c.seq /\ r.key # NoKey

\* Batches are numbered by the adoption facts, from zero.
BatchInv ==
    /\ IsFiniteSet(adoptions)
    /\ \A x \in ledger : x.batch < Cardinality(adoptions)
    /\ \A f \in adoptions : f.batch < Cardinality(adoptions)

\* What is pending below a selected watermark was selected.
SelectionInv ==
    /\ selected.watermark <= next
    /\ \A r \in pending : r.seq <= selected.watermark => r.seq \in selected.seqs

\* A view is never ahead of the row, and tells its text while it is current.
ViewInv ==
    \A c \in Clients :
        /\ view[c].seq <= next
        /\ \A r \in pending : view[c].seq = r.seq =>
              /\ view[c].revision <= r.revision
              /\ view[c].revision = r.revision => view[c].body = r.body

RowsInv == IsFiniteSet(pending) /\ CountIsRows

InboxInv ==
    /\ TypeOK
    /\ EveryMessageOnce
    /\ LedgerInOrder
    /\ RowsInv
    /\ CorrelationInv
    /\ TerminalsAreWhole
    /\ BatchInv
    /\ SelectionInv
    /\ ViewInv

-----------------------------------------------------------------------------
(* What each kind of transaction does to the tables.                       *)

\* fresh rows at the end: one, or the inseparable two of a subagent's terminal
Appended(new) ==
    /\ next' \in Nat /\ next' > next
    /\ new \subseteq Row
    /\ IsFiniteSet(new)
    /\ OneRowPerNumber(new)
    /\ Seqs(new) = (next + 1) .. next'
    /\ pending' = pending \cup new
    /\ count' = count + Cardinality(new)
    /\ UNCHANGED <<ledger, adoptions, selected, view, removed>>

\* A plain acceptance appends one row.
LEMMA InsertAppends ==
    ASSUME TypeOK, NEW source \in Sources, NEW k \in AllKeys \cup {NoKey}, NEW b \in Bodies,
           Insert(source, k, b), UNCHANGED <<ledger, adoptions, selected, view, removed>>
    PROVE  Appended({NewRow(next + 1, source, k, b)})
<1> DEFINE r == NewRow(next + 1, source, k, b)
<1>1. r \in Row /\ r.seq = next + 1 /\ next' = next + 1 /\ next \in Nat
  BY DEF TypeOK, Insert, NewRow, Row, Sequences
<1>2. IsFiniteSet({r}) /\ Cardinality({r}) = 1
  BY FS_Singleton
<1>3. pending' = pending \cup {r} /\ count' = count + 1
  BY DEF Insert
<1>4. Seqs({r}) = {next + 1} /\ (next + 1) .. next' = {next + 1}
  BY <1>1 DEF Seqs
<1> HIDE DEF r
<1>5. OneRowPerNumber({r}) /\ {r} \subseteq Row
  BY <1>1 DEF OneRowPerNumber
<1>6. Appended({r})
  BY <1>1, <1>2, <1>3, <1>4, <1>5 DEF Appended
<1> QED
  BY <1>6 DEF r

\* The terminal of a subagent appends its notice and its report.
LEMMA PairAppends ==
    ASSUME TypeOK, NEW t \in Terminals, NEW b \in Bodies, AcceptSubagentTerminal(t, b)
    PROVE  Appended({NewRow(next + 1, "runtime", Notice(t), b),
                     NewRow(next + 2, "runtime", Report(t), b)})
<1> DEFINE p == NewRow(next + 1, "runtime", Notice(t), b)
           q == NewRow(next + 2, "runtime", Report(t), b)
<1>1. /\ p \in Row /\ p.seq = next + 1 /\ q \in Row /\ q.seq = next + 2
      /\ next' = next + 2 /\ next \in Nat
  BY DEF TypeOK, AcceptSubagentTerminal, NewRow, Row, Sequences, Sources, AllKeys
<1>2. pending' = pending \cup {p, q} /\ count' = count + 2
      /\ UNCHANGED <<ledger, adoptions, selected, view, removed>>
  BY DEF AcceptSubagentTerminal
<1> HIDE DEF p, q
<1>3. IsFiniteSet({p, q}) /\ Cardinality({p, q}) = 2
  <2>1. IsFiniteSet({p}) /\ Cardinality({p}) = 1
    BY FS_Singleton
  <2>2. {p, q} = {p} \cup {q} /\ q \notin {p}
    BY <1>1
  <2> QED
    BY <2>1, <2>2, FS_AddElement
<1>4. Seqs({p, q}) = {next + 1, next + 2} /\ (next + 1) .. next' = {next + 1, next + 2}
  BY <1>1 DEF Seqs
<1>5. OneRowPerNumber({p, q}) /\ {p, q} \subseteq Row
  BY <1>1 DEF OneRowPerNumber
<1>6. next' \in Nat /\ next' > next
  BY <1>1
<1>7. Appended({p, q})
  BY <1>2, <1>3, <1>4, <1>5, <1>6 DEF Appended
<1> QED
  BY <1>7 DEF p, q

\* An append keeps the partition, the order, the count, the batches, the
\* selection and the views.
LEMMA AppendKeeps ==
    ASSUME InboxInv, NEW new, Appended(new)
    PROVE  /\ EveryMessageOnce' /\ LedgerInOrder' /\ RowsInv'
           /\ BatchInv' /\ SelectionInv' /\ ViewInv'
<1> TypeOK /\ EveryMessageOnce /\ LedgerInOrder /\ RowsInv
    /\ BatchInv /\ SelectionInv /\ ViewInv
  BY DEF InboxInv
<1>1. Seqs(pending') = Seqs(pending) \cup ((next + 1) .. next')
  BY DEF Seqs, Appended
<1>2. /\ Seqs(ledger') = Seqs(ledger) /\ removed' = removed
      /\ next' \in Nat /\ next \in Nat /\ next' > next
  BY DEF Seqs, Appended, TypeOK
<1>3. /\ (1..next) \cap ((next + 1) .. next') = {}
      /\ 1..next' = (1..next) \cup ((next + 1) .. next')
  BY <1>2
<1>4. ((next + 1) .. next') \cap (Seqs(pending) \cup Seqs(ledger) \cup removed) = {}
  BY <1>3 DEF EveryMessageOnce
<1>0. Seqs(new) = (next + 1) .. next'
  BY DEF Appended
<1>5. \A r \in new : r.seq \in (next + 1) .. next'
  BY <1>0 DEF Seqs
<1>5a. \A p \in pending : p.seq \in Seqs(pending)
  BY DEF Seqs
<1>5b. \A r \in new : r \notin pending /\ \A p \in pending : p.seq # r.seq
  BY <1>4, <1>5, <1>5a
<1>6. OneRowPerNumber(pending') /\ OneRowPerNumber(ledger')
  BY <1>5b DEF EveryMessageOnce, OneRowPerNumber, Appended
<1>7. EveryMessageOnce'
  BY <1>1, <1>2, <1>3, <1>4, <1>6 DEF EveryMessageOnce
<1>8. \A x \in ledger : x.seq \in 1..next
  BY DEF EveryMessageOnce, Seqs
<1>9. \A r \in new : r.seq \in Nat /\ r.seq > next
  BY <1>2, <1>5
<1>10. LedgerInOrder'
  BY <1>2, <1>8, <1>9 DEF LedgerInOrder, Appended
<1>11. RowsInv'
  <2>1. pending \cap new = {}
    BY <1>5b
  <2>0. /\ IsFiniteSet(pending) /\ IsFiniteSet(new) /\ Cardinality({}) = 0
        /\ Cardinality(pending) \in Nat /\ Cardinality(new) \in Nat
    BY FS_EmptySet, FS_CardinalityType DEF RowsInv, Appended
  <2>2. IsFiniteSet(pending \cup new)
        /\ Cardinality(pending \cup new) = Cardinality(pending) + Cardinality(new)
    <3>1. Cardinality(pending \cup new)
            = Cardinality(pending) + Cardinality(new) - Cardinality(pending \cap new)
          /\ IsFiniteSet(pending \cup new)
      BY <2>0, FS_Union
    <3>2. Cardinality(pending \cap new) = 0
      BY <2>0, <2>1
    <3> QED
      BY <2>0, <3>1, <3>2
  <2> QED
    BY <2>2 DEF RowsInv, CountIsRows, Appended
<1>12. BatchInv'
  BY DEF BatchInv, Appended
<1>13. SelectionInv'
  BY <1>2, <1>9 DEF SelectionInv, Appended, TypeOK
<1>14. ViewInv'
  BY <1>2, <1>9 DEF ViewInv, Appended, TypeOK
<1> QED
  BY <1>7, <1>10, <1>11, <1>12, <1>13, <1>14

\* A fresh correlation gets the number of the row inserted with it.
LEMMA InsertCorrelates ==
    ASSUME InboxInv, NEW source \in Sources, NEW k \in AllKeys \cup {NoKey}, NEW b \in Bodies,
           k = NoKey \/ ~Known(k), Insert(source, k, b), UNCHANGED ledger
    PROVE  /\ CorrelationInv'
           /\ correlation' \subseteq [key : AllKeys, seq : Sequences]
           /\ receipts' \subseteq AllKeys \X Sequences
           /\ \A j : Known(j)' <=> (Known(j) \/ (j = k /\ k # NoKey))
<1> TypeOK /\ CorrelationInv
  BY DEF InboxInv
<1>0. next \in Nat /\ next + 1 \in Sequences
  BY DEF TypeOK, Sequences
<1>1. CASE k = NoKey
  <2>1. correlation' = correlation /\ receipts' = receipts
    BY <1>1 DEF Insert
  <2>2. pending \subseteq pending' /\ ledger' = ledger
    BY DEF Insert
  <2>3. CorrelationInv'
    BY <2>1, <2>2 DEF CorrelationInv, Seqs
  <2> QED
    BY <1>1, <2>1, <2>3 DEF TypeOK, Known
<1>2. CASE k # NoKey
  <2> DEFINE e == [key |-> k, seq |-> next + 1]
             row == NewRow(next + 1, source, k, b)
             x == <<k, next + 1>>
  <2>1. /\ correlation' = correlation \cup {e} /\ receipts' = receipts \cup {x}
        /\ pending' = pending \cup {row} /\ ledger' = ledger
    BY <1>2 DEF Insert
  <2>2. /\ e.key = k /\ e.seq = next + 1 /\ x[1] = k /\ x[2] = next + 1
        /\ row.seq = next + 1 /\ row.key = k
    BY DEF NewRow
  <2>3. e \in [key : AllKeys, seq : Sequences] /\ x \in AllKeys \X Sequences
    BY <1>0, <1>2
  <2> HIDE DEF e, row, x
  <2>4. \A c \in correlation : c.key # k
    BY <1>2 DEF Known
  <2>5. \A c, d \in correlation' : c.key = d.key => c.seq = d.seq
    BY <2>1, <2>2, <2>4 DEF CorrelationInv
  <2>6. \A y \in receipts' : \E c \in correlation' : c.key = y[1] /\ c.seq = y[2]
    BY <2>1, <2>2 DEF CorrelationInv
  <2>7. \A c \in correlation' :
           c.seq \in Seqs(ledger') \/ \E r \in pending' : r.seq = c.seq /\ r.key # NoKey
    BY <1>2, <2>1, <2>2 DEF CorrelationInv
  <2>8. \A j : Known(j)' <=> (Known(j) \/ j = k)
    BY <2>1, <2>2 DEF Known
  <2> QED
    BY <1>2, <2>1, <2>3, <2>5, <2>6, <2>7, <2>8 DEF CorrelationInv, TypeOK
<1> QED
  BY <1>1, <1>2

\* The notice and the report of a subagent get a correlation each.
LEMMA PairCorrelates ==
    ASSUME InboxInv, NEW t \in Terminals, NEW b \in Bodies, AcceptSubagentTerminal(t, b)
    PROVE  /\ CorrelationInv'
           /\ correlation' \subseteq [key : AllKeys, seq : Sequences]
           /\ receipts' \subseteq AllKeys \X Sequences
           /\ \A j : Known(j)' <=> (Known(j) \/ j = Notice(t) \/ j = Report(t))
<1> TypeOK /\ CorrelationInv
  BY DEF InboxInv
<1> DEFINE n == Notice(t)
           m == Report(t)
           e == [key |-> n, seq |-> next + 1]
           f == [key |-> m, seq |-> next + 2]
           p == NewRow(next + 1, "runtime", n, b)
           q == NewRow(next + 2, "runtime", m, b)
           x == <<n, next + 1>>
           y == <<m, next + 2>>
<1>0. next \in Nat /\ next + 1 \in Sequences /\ next + 2 \in Sequences
  BY DEF TypeOK, Sequences
<1>1. /\ correlation' = correlation \cup {e, f} /\ receipts' = receipts \cup {x, y}
      /\ pending' = pending \cup {p, q} /\ ledger' = ledger
      /\ ~Known(n) /\ ~Known(m)
  BY DEF AcceptSubagentTerminal
<1>2. n # m /\ n \in AllKeys /\ m \in AllKeys
  BY DEF Notice, Report, AllKeys
<1>2a. n # NoKey /\ m # NoKey
  BY <1>2, InboxAssumption
<1> HIDE DEF n, m
<1>3. /\ e.key = n /\ e.seq = next + 1 /\ x[1] = n /\ x[2] = next + 1
      /\ f.key = m /\ f.seq = next + 2 /\ y[1] = m /\ y[2] = next + 2
      /\ p.seq = next + 1 /\ p.key = n /\ q.seq = next + 2 /\ q.key = m
  BY DEF NewRow
<1>4. /\ e \in [key : AllKeys, seq : Sequences] /\ x \in AllKeys \X Sequences
      /\ f \in [key : AllKeys, seq : Sequences] /\ y \in AllKeys \X Sequences
  BY <1>0, <1>2
<1> HIDE DEF e, f, p, q, x, y
<1>5. \A c \in correlation : c.key # n /\ c.key # m
  BY <1>1 DEF Known
<1>6. \A c, d \in correlation' : c.key = d.key => c.seq = d.seq
  BY <1>1, <1>2, <1>3, <1>5 DEF CorrelationInv
<1>7. \A z \in receipts' : \E c \in correlation' : c.key = z[1] /\ c.seq = z[2]
  BY <1>1, <1>3 DEF CorrelationInv
<1>8. \A c \in correlation' :
         c.seq \in Seqs(ledger') \/ \E r \in pending' : r.seq = c.seq /\ r.key # NoKey
  BY <1>1, <1>2a, <1>3 DEF CorrelationInv
<1>9. \A j : Known(j)' <=> (Known(j) \/ j = n \/ j = m)
  BY <1>1, <1>3 DEF Known
<1> QED
  BY <1>1, <1>4, <1>6, <1>7, <1>8, <1>9 DEF CorrelationInv, TypeOK, n, m

\* Appended rows are typed.
LEMMA AppendTyped ==
    ASSUME TypeOK, NEW new, Appended(new)
    PROVE  /\ next' \in Nat /\ pending' \subseteq Row /\ count' \in Nat
           /\ ledger' \subseteq LedgerRow
           /\ adoptions' \subseteq [batch : Nat, seqs : SUBSET Sequences]
           /\ selected' \in [watermark : Nat, seqs : SUBSET Sequences]
           /\ view' \in [Clients -> [seq : Nat, revision : Nat, body : Bodies \cup {NoKey}]]
           /\ removed' \subseteq Sequences
<1>1. Cardinality(new) \in Nat
  BY FS_CardinalityType DEF Appended
<1> QED
  BY <1>1 DEF TypeOK, Appended

\* First acceptances keep the invariant.
LEMMA AcceptKeeps ==
    ASSUME InboxInv, NEW b \in Bodies, NEW k \in Keys \cup {NoKey}, NEW source \in Sources,
           AcceptInbound(source, k, b)
    PROVE  InboxInv'
<1> USE DEF InboxInv
<1>1. /\ Insert(source, k, b) /\ (k = NoKey \/ ~Known(k))
      /\ UNCHANGED <<ledger, adoptions, terminals, selected, view, removed>>
  BY DEF AcceptInbound
<1>2. k \in AllKeys \cup {NoKey} /\ source \in Sources
  BY DEF AllKeys
<1> DEFINE new == {NewRow(next + 1, source, k, b)}
<1>3. Appended(new)
  BY <1>1, <1>2, InsertAppends
<1> HIDE DEF new
<1>4. /\ EveryMessageOnce' /\ LedgerInOrder' /\ RowsInv'
      /\ BatchInv' /\ SelectionInv' /\ ViewInv'
  BY <1>3, AppendKeeps
<1>5. /\ CorrelationInv'
      /\ correlation' \subseteq [key : AllKeys, seq : Sequences]
      /\ receipts' \subseteq AllKeys \X Sequences
      /\ \A j : Known(j)' <=> (Known(j) \/ (j = k /\ k # NoKey))
  BY <1>1, <1>2, InsertCorrelates
<1>6. TypeOK'
  <2>1. terminals' \subseteq Terminals
    BY <1>1 DEF TypeOK
  <2> QED
    BY <1>3, <1>5, <2>1, AppendTyped DEF TypeOK
<1>7. TerminalsAreWhole'
  <2>1. \A t \in Terminals : Report(t) # k /\ Notice(t) # k
    BY InboxAssumption DEF AllKeys
  <2> QED
    BY <1>1, <1>5, <2>1 DEF TerminalsAreWhole
<1> QED
  BY <1>4, <1>5, <1>6, <1>7

\* A terminal whose report is recorded with it leaves the terminals whole.
LEMMA WholeAfter ==
    ASSUME TerminalsAreWhole, NEW t \in Terminals, NEW K \in SUBSET {Report(t), Notice(t)},
           Report(t) \in K, \A j : Known(j)' <=> (Known(j) \/ j \in K),
           terminals' = terminals \cup {t}
    PROVE  TerminalsAreWhole'
<1> SUFFICES ASSUME NEW u \in Terminals
             PROVE  /\ u \in terminals' <=> Known(Report(u))'
                    /\ Known(Notice(u))' => Known(Report(u))'
  BY DEF TerminalsAreWhole
<1>1. (u \in terminals <=> Known(Report(u))) /\ (Known(Notice(u)) => Known(Report(u)))
  BY DEF TerminalsAreWhole
<1> DEFINE i == Notice(u)
           j == Report(u)
<1>2. (j \in K <=> u = t) /\ (i \in K => u = t)
  BY DEF Report, Notice
<1> HIDE DEF i, j
<1>3. (Known(j)' <=> (Known(j) \/ j \in K)) /\ (Known(i)' <=> (Known(i) \/ i \in K))
  BY DEF Known
<1> QED
  BY <1>1, <1>2, <1>3 DEF i, j

\* So do those that publish a terminal with its report.
LEMMA TerminalKeeps ==
    ASSUME InboxInv, NEW b \in Bodies, NEW t \in Terminals, AcceptTerminal(t, b)
    PROVE  InboxInv'
<1> USE DEF InboxInv
<1> DEFINE k == Report(t)
           new == {NewRow(next + 1, "runtime", k, b)}
<1>1. /\ Insert("runtime", k, b) /\ ~Known(k) /\ terminals' = terminals \cup {t}
      /\ UNCHANGED <<ledger, adoptions, selected, view, removed>>
  BY DEF AcceptTerminal
<1>2. k \in AllKeys \cup {NoKey} /\ "runtime" \in Sources /\ k # NoKey
  BY InboxAssumption DEF AllKeys, Sources
<1> HIDE DEF k
<1>3. Appended(new)
  BY <1>1, <1>2, InsertAppends
<1> HIDE DEF new
<1>4. /\ EveryMessageOnce' /\ LedgerInOrder' /\ RowsInv'
      /\ BatchInv' /\ SelectionInv' /\ ViewInv'
  BY <1>3, AppendKeeps
<1>5. /\ CorrelationInv'
      /\ correlation' \subseteq [key : AllKeys, seq : Sequences]
      /\ receipts' \subseteq AllKeys \X Sequences
      /\ \A j : Known(j)' <=> (Known(j) \/ (j = k /\ k # NoKey))
  BY <1>1, <1>2, InsertCorrelates
<1>6. TypeOK'
  <2>1. terminals' \subseteq Terminals
    BY <1>1 DEF TypeOK
  <2> QED
    BY <1>3, <1>5, <2>1, AppendTyped DEF TypeOK
<1>7. TerminalsAreWhole'
  <2>1. \A j : Known(j)' <=> (Known(j) \/ j \in {k})
    BY <1>2, <1>5
  <2> QED
    BY <1>1, <2>1, WholeAfter DEF k
<1> QED
  BY <1>4, <1>5, <1>6, <1>7

LEMMA SubagentKeeps ==
    ASSUME InboxInv, NEW b \in Bodies, NEW t \in Terminals, AcceptSubagentTerminal(t, b)
    PROVE  InboxInv'
<1> USE DEF InboxInv
<1> DEFINE new == {NewRow(next + 1, "runtime", Notice(t), b),
                   NewRow(next + 2, "runtime", Report(t), b)}
<1>1. terminals' = terminals \cup {t}
  BY DEF AcceptSubagentTerminal
<1>3. Appended(new)
  BY PairAppends
<1> HIDE DEF new
<1>4. /\ EveryMessageOnce' /\ LedgerInOrder' /\ RowsInv'
      /\ BatchInv' /\ SelectionInv' /\ ViewInv'
  BY <1>3, AppendKeeps
<1>5. /\ CorrelationInv'
      /\ correlation' \subseteq [key : AllKeys, seq : Sequences]
      /\ receipts' \subseteq AllKeys \X Sequences
      /\ \A j : Known(j)' <=> (Known(j) \/ j = Notice(t) \/ j = Report(t))
  BY PairCorrelates
<1>6. TypeOK'
  <2>1. terminals' \subseteq Terminals
    BY <1>1 DEF TypeOK
  <2> QED
    BY <1>3, <1>5, <2>1, AppendTyped DEF TypeOK
<1>7. TerminalsAreWhole'
  <2>1. \A j : Known(j)' <=> (Known(j) \/ j \in {Report(t), Notice(t)})
    BY <1>5
  <2> QED
    BY <1>1, <2>1, WholeAfter
<1> QED
  BY <1>4, <1>5, <1>6, <1>7

-----------------------------------------------------------------------------
(* The steps that leave the tables alone.                                  *)

\* Every number in the tables has been given.
LEMMA GivenNumbers ==
    ASSUME TypeOK, EveryMessageOnce
    PROVE  \A r \in pending \cup ledger : r.seq \in 1..next
<1>1. \A r \in pending \cup ledger : r.seq \in Seqs(pending) \cup Seqs(ledger)
  BY DEF Seqs
<1>2. Seqs(pending) \cup Seqs(ledger) \subseteq 1..next
  BY DEF EveryMessageOnce
<1> QED
  BY <1>1, <1>2

LEMMA RetryKeeps ==
    ASSUME InboxInv, NEW k \in AllKeys, Acknowledge(k),
           UNCHANGED <<durable, selected, view, removed>>
    PROVE  InboxInv'
<1> DEFINE told == {<<c.key, c.seq>> : c \in {d \in correlation : d.key = k}}
<1>1. receipts' = receipts \cup told
  BY DEF Acknowledge
<1>2. \A x \in told : \E c \in correlation : c.key = x[1] /\ c.seq = x[2]
  OBVIOUS
<1>3. told \subseteq AllKeys \X Sequences
  BY DEF InboxInv, TypeOK
<1> HIDE DEF told
<1>4. TypeOK'
  BY <1>1, <1>3 DEF InboxInv, TypeOK, durable
<1>5. CorrelationInv'
  BY <1>1, <1>2 DEF InboxInv, CorrelationInv, durable, Seqs
<1>6. EveryMessageOnce' /\ LedgerInOrder'
  BY DEF InboxInv, EveryMessageOnce, LedgerInOrder, durable, Seqs, OneRowPerNumber
<1>7. RowsInv' /\ TerminalsAreWhole' /\ BatchInv'
  BY DEF InboxInv, RowsInv, CountIsRows, TerminalsAreWhole, Known, BatchInv, durable
<1>8. SelectionInv' /\ ViewInv'
  BY DEF InboxInv, SelectionInv, ViewInv, durable
<1> QED
  BY <1>4, <1>5, <1>6, <1>7, <1>8 DEF InboxInv

\* A step that moves only the selection or the views has those to keep.
LEMMA QuietKeeps ==
    ASSUME InboxInv, UNCHANGED <<durable, ghosts>>, SelectionInv', ViewInv',
           selected' \in [watermark : Nat, seqs : SUBSET Sequences],
           view' \in [Clients -> [seq : Nat, revision : Nat, body : Bodies \cup {NoKey}]]
    PROVE  InboxInv'
<1>1. TypeOK'
  BY DEF InboxInv, TypeOK, durable, ghosts
<1>2. CorrelationInv'
  BY DEF InboxInv, CorrelationInv, durable, ghosts, Seqs
<1>3. EveryMessageOnce' /\ LedgerInOrder'
  BY DEF InboxInv, EveryMessageOnce, LedgerInOrder, durable, ghosts, Seqs, OneRowPerNumber
<1>4. RowsInv' /\ TerminalsAreWhole' /\ BatchInv'
  BY DEF InboxInv, RowsInv, CountIsRows, TerminalsAreWhole, Known, BatchInv, durable
<1> QED
  BY <1>1, <1>2, <1>3, <1>4 DEF InboxInv

LEMMA SelectKeeps ==
    ASSUME InboxInv, SelectPendingBatch
    PROVE  InboxInv'
<1> TypeOK /\ EveryMessageOnce /\ ViewInv
  BY DEF InboxInv
<1>1. PICK w \in Seqs(pending) :
         /\ \A s \in Seqs(pending) : s <= w
         /\ selected' = [watermark |-> w, seqs |-> Seqs(pending)]
  BY DEF SelectPendingBatch
<1>2. UNCHANGED <<durable, view, ghosts>>
  BY DEF SelectPendingBatch
<1>3. Seqs(pending) \subseteq 1..next /\ next \in Nat /\ Seqs(pending) \subseteq Sequences
  BY DEF EveryMessageOnce, TypeOK, Sequences
<1>4. \A r \in pending : r.seq \in Seqs(pending)
  BY DEF Seqs
<1>5. SelectionInv'
  BY <1>1, <1>2, <1>3, <1>4 DEF SelectionInv, durable
<1>6. ViewInv'
  BY <1>2 DEF ViewInv, durable
<1>7. selected' \in [watermark : Nat, seqs : SUBSET Sequences]
  BY <1>1, <1>3
<1>8. view' \in [Clients -> [seq : Nat, revision : Nat, body : Bodies \cup {NoKey}]]
  BY <1>2 DEF TypeOK
<1> QED
  BY <1>2, <1>5, <1>6, <1>7, <1>8, QuietKeeps

LEMMA LoadKeeps ==
    ASSUME InboxInv, NEW c \in Clients, NEW r \in pending, LoadPending(c, r)
    PROVE  InboxInv'
<1> TypeOK /\ EveryMessageOnce /\ ViewInv /\ SelectionInv
  BY DEF InboxInv
<1> DEFINE shown == [seq |-> r.seq, revision |-> r.revision, body |-> r.body]
<1>1. view' = [view EXCEPT ![c] = shown] /\ UNCHANGED <<durable, selected, ghosts>>
  BY DEF LoadPending
<1>2. r.seq \in 1..next /\ next \in Nat
  BY GivenNumbers DEF TypeOK
<1>3. r \in Row
  BY DEF TypeOK
<1>4. shown \in [seq : Nat, revision : Nat, body : Bodies \cup {NoKey}]
  BY <1>2, <1>3 DEF Row
<1>5. shown.seq = r.seq /\ shown.revision = r.revision /\ shown.body = r.body
      /\ r.revision \in Nat /\ shown.seq <= next
  BY <1>2, <1>3 DEF Row
<1> HIDE DEF shown
<1>6. view' \in [Clients -> [seq : Nat, revision : Nat, body : Bodies \cup {NoKey}]]
  BY <1>1, <1>4 DEF TypeOK
<1>7. \A q \in pending : q.seq = r.seq => q = r
  BY DEF EveryMessageOnce, OneRowPerNumber
<1>8. \A d \in Clients : view'[d] = IF d = c THEN shown ELSE view[d]
  BY <1>1 DEF TypeOK
<1>9. ViewInv'
  <2> SUFFICES ASSUME NEW d \in Clients
               PROVE  /\ view'[d].seq <= next
                      /\ \A q \in pending : view'[d].seq = q.seq =>
                            /\ view'[d].revision <= q.revision
                            /\ view'[d].revision = q.revision => view'[d].body = q.body
    BY <1>1 DEF ViewInv, durable
  <2>1. CASE d = c
    BY <1>5, <1>7, <1>8, <2>1
  <2>2. CASE d # c
    BY <1>8, <2>2 DEF ViewInv
  <2> QED
    BY <2>1, <2>2
<1>10. SelectionInv' /\ selected' \in [watermark : Nat, seqs : SUBSET Sequences]
  BY <1>1 DEF SelectionInv, durable, TypeOK
<1> QED
  BY <1>1, <1>6, <1>9, <1>10, QuietKeeps

LEMMA CrashKeeps ==
    ASSUME InboxInv, Crash
    PROVE  InboxInv'
<1> TypeOK /\ EveryMessageOnce
  BY DEF InboxInv
<1>1. /\ selected' = NoSelection /\ view' = [c \in Clients |-> NoView]
      /\ UNCHANGED <<durable, ghosts>> /\ pending' = pending /\ next' = next
  BY DEF Crash, durable
<1>2. \A r \in pending : r.seq \in 1..next
  BY GivenNumbers
<1>3. next \in Nat
  BY DEF TypeOK
<1>4. SelectionInv' /\ ViewInv'
  BY <1>1, <1>2, <1>3 DEF SelectionInv, ViewInv, NoSelection, NoView
<1>5. /\ selected' \in [watermark : Nat, seqs : SUBSET Sequences]
      /\ view' \in [Clients -> [seq : Nat, revision : Nat, body : Bodies \cup {NoKey}]]
  BY <1>1 DEF NoSelection, NoView
<1> QED
  BY <1>1, <1>4, <1>5, QuietKeeps

-----------------------------------------------------------------------------
(* A client's edit and removal.                                            *)

LEMMA EditKeeps ==
    ASSUME InboxInv, NEW c \in Clients, NEW r \in pending, NEW b \in Bodies,
           EditPending(c, r, b)
    PROVE  InboxInv' /\ Seqs(pending') = Seqs(pending)
<1> /\ TypeOK /\ EveryMessageOnce /\ LedgerInOrder /\ RowsInv /\ CorrelationInv
    /\ TerminalsAreWhole /\ BatchInv /\ SelectionInv /\ ViewInv
  BY DEF InboxInv
<1> DEFINE q == [r EXCEPT !.body = b, !.revision = r.revision + 1]
<1>1. /\ pending' = (pending \ {r}) \cup {q}
      /\ UNCHANGED <<next, count, correlation, ledger, adoptions, terminals, selected, view,
                     receipts, removed>>
  BY DEF EditPending, ghosts
<1>2. r \in Row /\ r.key = NoKey /\ r.revision \in Nat
  BY DEF EditPending, Target, Editable, TypeOK, Row
<1>3. q \in Row /\ q.seq = r.seq /\ q.revision = r.revision + 1
  <2>1. PICK s \in Sequences, o \in Bodies, f \in Sources, k \in AllKeys \cup {NoKey},
             v \in Nat :
             r = [seq |-> s, body |-> o, source |-> f, key |-> k, revision |-> v]
    BY <1>2 DEF Row
  <2>2. q = [seq |-> s, body |-> b, source |-> f, key |-> k, revision |-> v + 1]
    <3> DEFINE m == [r EXCEPT !.body = b]
    <3>1. m = [seq |-> s, body |-> b, source |-> f, key |-> k, revision |-> v]
      BY <2>1
    <3>2. q = [m EXCEPT !.revision = r.revision + 1]
      OBVIOUS
    <3>3. r.revision = v
      BY <2>1
    <3> HIDE DEF m
    <3> QED
      BY <3>1, <3>2, <3>3
  <2> QED
    BY <2>1, <2>2 DEF Row
<1> HIDE DEF q
<1>4. \A p \in pending : p.seq = r.seq => p = r
  BY DEF EveryMessageOnce, OneRowPerNumber
<1>5. q \notin pending
  <2>1. q.revision # r.revision
    BY <1>2, <1>3
  <2> QED
    BY <1>3, <1>4, <2>1
<1>6. Seqs(pending') = Seqs(pending) /\ Seqs(ledger') = Seqs(ledger)
  <2>1. \A p \in pending' : p = q \/ p \in pending
    BY <1>1
  <2>2. q \in pending' /\ \A p \in pending : p = r \/ p \in pending'
    BY <1>1
  <2> QED
    BY <1>1, <1>3, <2>1, <2>2 DEF Seqs
<1>7. OneRowPerNumber(pending') /\ OneRowPerNumber(ledger')
  BY <1>1, <1>3, <1>4 DEF EveryMessageOnce, OneRowPerNumber
<1>8. EveryMessageOnce'
  BY <1>1, <1>6, <1>7 DEF EveryMessageOnce
<1>9. LedgerInOrder'
  BY <1>1, <1>3 DEF LedgerInOrder
<1>10. RowsInv'
  <2>1. /\ IsFiniteSet(pending \ {r})
        /\ Cardinality(pending \ {r}) = Cardinality(pending) - 1
    BY FS_RemoveElement DEF RowsInv
  <2>2. /\ IsFiniteSet((pending \ {r}) \cup {q})
        /\ Cardinality((pending \ {r}) \cup {q}) = Cardinality(pending \ {r}) + 1
    BY <1>5, <2>1, FS_AddElement
  <2>3. Cardinality(pending) \in Nat
    BY FS_CardinalityType DEF RowsInv
  <2>4. Cardinality((pending \ {r}) \cup {q}) = Cardinality(pending)
    BY <2>1, <2>2, <2>3
  <2> QED
    BY <1>1, <2>2, <2>4 DEF RowsInv, CountIsRows
<1>11. CorrelationInv'
  <2>1. \A p \in pending : p.key # NoKey => p \in pending'
    BY <1>1, <1>2
  <2> QED
    BY <1>1, <1>6, <2>1 DEF CorrelationInv
<1>12. TerminalsAreWhole' /\ BatchInv'
  BY <1>1 DEF TerminalsAreWhole, Known, BatchInv
<1>13. SelectionInv'
  BY <1>1, <1>3 DEF SelectionInv
<1>14. ViewInv'
  BY <1>1, <1>2, <1>3 DEF ViewInv, TypeOK
<1>15. TypeOK'
  BY <1>1, <1>3 DEF TypeOK
<1> QED
  BY <1>6, <1>8, <1>9, <1>10, <1>11, <1>12, <1>13, <1>14, <1>15 DEF InboxInv

LEMMA RemoveKeeps ==
    ASSUME InboxInv, NEW c \in Clients, NEW r \in pending, RemovePending(c, r)
    PROVE  /\ InboxInv'
           /\ Seqs(pending') = Seqs(pending) \ {r.seq}
<1> /\ TypeOK /\ EveryMessageOnce /\ LedgerInOrder /\ RowsInv /\ CorrelationInv
    /\ TerminalsAreWhole /\ BatchInv /\ SelectionInv /\ ViewInv
  BY DEF InboxInv
<1>1. /\ pending' = pending \ {r} /\ count' = count - 1 /\ removed' = removed \cup {r.seq}
      /\ UNCHANGED <<next, correlation, ledger, adoptions, terminals, selected, view, receipts>>
  BY DEF RemovePending
<1>2. r \in Row /\ r.key = NoKey /\ r.seq \in Sequences
  BY DEF RemovePending, Target, Editable, TypeOK, Row
<1>3. \A p \in pending : p.seq = r.seq => p = r
  BY DEF EveryMessageOnce, OneRowPerNumber
<1>4. Seqs(pending') = Seqs(pending) \ {r.seq} /\ Seqs(ledger') = Seqs(ledger)
  BY <1>1, <1>3 DEF Seqs
<1>5. OneRowPerNumber(pending') /\ OneRowPerNumber(ledger')
  BY <1>1 DEF EveryMessageOnce, OneRowPerNumber
<1>6. r.seq \in Seqs(pending)
  BY DEF Seqs
<1>7. EveryMessageOnce'
  BY <1>1, <1>4, <1>5, <1>6 DEF EveryMessageOnce
<1>8. LedgerInOrder'
  BY <1>1 DEF LedgerInOrder
<1>9. RowsInv' /\ count' \in Nat
  <2>1. /\ IsFiniteSet(pending \ {r})
        /\ Cardinality(pending \ {r}) = Cardinality(pending) - 1
    BY FS_RemoveElement DEF RowsInv
  <2>2. Cardinality(pending \ {r}) \in Nat
    BY <2>1, FS_CardinalityType
  <2> QED
    BY <1>1, <2>1, <2>2 DEF RowsInv, CountIsRows
<1>10. CorrelationInv'
  <2>1. \A p \in pending : p.key # NoKey => p \in pending'
    BY <1>1, <1>2
  <2> QED
    BY <1>1, <1>4, <2>1 DEF CorrelationInv
<1>11. TerminalsAreWhole' /\ BatchInv'
  BY <1>1 DEF TerminalsAreWhole, Known, BatchInv
<1>12. SelectionInv' /\ ViewInv'
  BY <1>1 DEF SelectionInv, ViewInv
<1>13. TypeOK'
  BY <1>1, <1>2, <1>9 DEF TypeOK
<1> QED
  BY <1>4, <1>7, <1>8, <1>9, <1>10, <1>11, <1>12, <1>13 DEF InboxInv

-----------------------------------------------------------------------------
(* Adoption.                                                               *)

\* What adoption does to the numbers: exactly what is pending up to the
\* watermark moves.
LEMMA AdoptMoves ==
    ASSUME TypeOK, EveryMessageOnce, AdoptPendingBatch
    PROVE  LET w == selected.watermark
               items == Until(w)
               moved == Adopted(items, Cardinality(adoptions))
           IN  /\ w \in Nat
               /\ items \subseteq pending
               /\ pending' = pending \ items
               /\ ledger' = ledger \cup moved
               /\ \A r \in pending : r.seq <= w <=> r \in items
               /\ \A x \in moved : /\ x.batch = Cardinality(adoptions)
                                   /\ \E r \in items : /\ x.seq = r.seq /\ x.body = r.body
                                                        /\ x.source = r.source
               /\ Seqs(ledger') = Seqs(ledger) \cup Seqs(items)
               /\ Seqs(pending') = Seqs(pending) \ Seqs(items)
               /\ Seqs(items) = {s \in Seqs(pending) : s <= w}
               /\ OneRowPerNumber(moved)
<1> DEFINE w == selected.watermark
           items == Until(w)
           moved == Adopted(items, Cardinality(adoptions))
<1>1. w \in Nat
  BY DEF TypeOK
<1>2. pending' = pending \ items /\ ledger' = ledger \cup moved
  BY DEF AdoptPendingBatch
<1>3. items \subseteq pending /\ \A r \in pending : r.seq <= w <=> r \in items
  BY DEF Until
<1>4. \A x \in moved : /\ x.batch = Cardinality(adoptions)
                       /\ \E r \in items : /\ x.seq = r.seq /\ x.body = r.body
                                            /\ x.source = r.source
  BY DEF Adopted
<1>5. \A r \in items : \E x \in moved : x.seq = r.seq
  <2> TAKE r \in items
  <2> DEFINE x == [seq |-> r.seq, body |-> r.body, source |-> r.source,
                   batch |-> Cardinality(adoptions)]
  <2>1. x \in moved
    BY DEF Adopted
  <2>2. x.seq = r.seq
    OBVIOUS
  <2> QED
    BY <2>1, <2>2
<1>6. \A r, q \in pending : r.seq = q.seq => r = q
  BY DEF EveryMessageOnce, OneRowPerNumber
<1>7. OneRowPerNumber(moved)
  BY <1>3, <1>6 DEF Adopted, OneRowPerNumber
<1> HIDE DEF items, moved
<1>8. Seqs(ledger') = Seqs(ledger) \cup Seqs(items)
  BY <1>2, <1>4, <1>5 DEF Seqs
<1>9. Seqs(pending') = Seqs(pending) \ Seqs(items)
  BY <1>2, <1>3, <1>6 DEF Seqs
<1>10. Seqs(items) = {s \in Seqs(pending) : s <= w}
  BY <1>3 DEF Seqs
<1> QED
  BY <1>1, <1>2, <1>3, <1>4, <1>7, <1>8, <1>9, <1>10 DEF items, moved

LEMMA AdoptKeeps ==
    ASSUME InboxInv, AdoptPendingBatch
    PROVE  InboxInv'
<1> /\ TypeOK /\ EveryMessageOnce /\ LedgerInOrder /\ RowsInv /\ CorrelationInv
    /\ TerminalsAreWhole /\ BatchInv /\ SelectionInv /\ ViewInv
  BY DEF InboxInv
<1> DEFINE w == selected.watermark
           items == Until(w)
           batch == Cardinality(adoptions)
           moved == Adopted(items, batch)
           fact == [batch |-> batch, seqs |-> Seqs(items)]
<1>1. /\ w \in Nat
      /\ items \subseteq pending
      /\ pending' = pending \ items
      /\ ledger' = ledger \cup moved
      /\ \A r \in pending : r.seq <= w <=> r \in items
      /\ \A x \in moved : /\ x.batch = batch
                          /\ \E r \in items : /\ x.seq = r.seq /\ x.body = r.body
                                               /\ x.source = r.source
      /\ Seqs(ledger') = Seqs(ledger) \cup Seqs(items)
      /\ Seqs(pending') = Seqs(pending) \ Seqs(items)
      /\ OneRowPerNumber(moved)
  BY AdoptMoves
<1>2. /\ count' = count - Cardinality(items)
      /\ adoptions' = IF items = {} THEN adoptions ELSE adoptions \cup {fact}
      /\ selected' = NoSelection
      /\ UNCHANGED <<next, correlation, terminals, view, receipts, removed>>
  BY DEF AdoptPendingBatch, ghosts
<1>3. \A r \in pending \cup ledger : r.seq \in 1..next
  BY GivenNumbers
<1>4. next \in Nat /\ batch \in Nat
  BY FS_CardinalityType DEF TypeOK, BatchInv
<1>5. moved \subseteq LedgerRow
  BY <1>1, <1>4 DEF Adopted, TypeOK, Row, LedgerRow
<1>6. Seqs(items) \subseteq Sequences /\ Seqs(items) \subseteq Seqs(pending)
  BY <1>1 DEF Seqs, TypeOK, Row
<1> HIDE DEF items, moved, batch, w
<1>7. EveryMessageOnce'
  <2>1. OneRowPerNumber(pending')
    BY <1>1 DEF EveryMessageOnce, OneRowPerNumber
  <2>2. \A x \in ledger, y \in moved : x.seq # y.seq
    BY <1>1 DEF LedgerInOrder, TypeOK, LedgerRow, Row, Sequences
  <2>3. OneRowPerNumber(ledger')
    BY <1>1, <2>2 DEF EveryMessageOnce, OneRowPerNumber
  <2>4. /\ Seqs(pending') \cap Seqs(ledger') = {}
        /\ (Seqs(pending') \cup Seqs(ledger')) \cap removed' = {}
        /\ Seqs(pending') \cup Seqs(ledger') \cup removed' = 1..next'
    BY <1>1, <1>2, <1>6 DEF EveryMessageOnce
  <2> QED
    BY <2>1, <2>3, <2>4 DEF EveryMessageOnce
<1>8. LedgerInOrder'
  <2>1. \A x \in ledger : x.batch \in Nat /\ x.batch < batch /\ x.seq \in Nat
    BY DEF BatchInv, TypeOK, LedgerRow, Sequences, batch
  <2>2. \A r \in pending : r.seq \in Nat
    BY DEF TypeOK, Row, Sequences
  <2>3. \A x \in ledger, y \in moved : x.seq < y.seq
    BY <1>1 DEF LedgerInOrder
  <2>4. \A x, y \in ledger' : x.seq < y.seq => x.batch <= y.batch
    <3> SUFFICES ASSUME NEW x \in ledger', NEW y \in ledger', x.seq < y.seq
                 PROVE  x.batch <= y.batch
      OBVIOUS
    <3>1. CASE x \in ledger /\ y \in ledger
      BY <3>1 DEF LedgerInOrder
    <3>2. CASE x \in ledger /\ y \in moved
      BY <1>1, <1>4, <2>1, <3>2
    <3>3. CASE x \in moved /\ y \in moved
      BY <1>1, <1>4, <3>3
    <3>4. CASE x \in moved /\ y \in ledger
      <4>1. y.seq < x.seq /\ x.seq \in Nat /\ y.seq \in Nat
        BY <1>1, <2>1, <2>2, <2>3, <3>4
      <4> QED
        BY <4>1
    <3> QED
      BY <1>1, <3>1, <3>2, <3>3, <3>4
  <2>5. \A x \in ledger', r \in pending' : x.seq < r.seq
    <3> SUFFICES ASSUME NEW x \in ledger', NEW r \in pending'
                 PROVE  x.seq < r.seq
      OBVIOUS
    <3>1. CASE x \in ledger
      BY <1>1, <3>1 DEF LedgerInOrder
    <3>2. CASE x \in moved
      <4>1. PICK i \in items : x.seq = i.seq
        BY <1>1, <3>2
      <4>2. i.seq <= w /\ ~(r.seq <= w) /\ i.seq \in Nat /\ r.seq \in Nat
        BY <1>1, <2>2
      <4> QED
        BY <1>1, <4>1, <4>2
    <3> QED
      BY <1>1, <3>1, <3>2
  <2> QED
    BY <2>4, <2>5 DEF LedgerInOrder
<1>9. RowsInv' /\ count' \in Nat
  <2>1. /\ IsFiniteSet(pending \ items)
        /\ Cardinality(pending \ items) = Cardinality(pending) - Cardinality(pending \cap items)
    BY FS_Difference DEF RowsInv
  <2>2. pending \cap items = items
    BY <1>1
  <2>3. Cardinality(pending \cap items) = Cardinality(items)
    BY <2>2
  <2>4. Cardinality(pending \ items) \in Nat
    BY <2>1, FS_CardinalityType
  <2>5. Cardinality(pending \ items) = count - Cardinality(items)
    BY <2>1, <2>3 DEF RowsInv, CountIsRows
  <2> QED
    BY <1>1, <1>2, <2>1, <2>4, <2>5 DEF RowsInv, CountIsRows
<1>10. CorrelationInv'
  <2>1. \A c \in correlation :
           c.seq \in Seqs(ledger') \/ \E r \in pending' : r.seq = c.seq /\ r.key # NoKey
    <3> TAKE c \in correlation
    <3>1. CASE c.seq \in Seqs(ledger)
      BY <1>1, <3>1
    <3>2. CASE \E r \in pending : r.seq = c.seq /\ r.key # NoKey
      <4>1. PICK r \in pending : r.seq = c.seq /\ r.key # NoKey
        BY <3>2
      <4>2. CASE r \in items
        <5>1. r.seq \in Seqs(items)
          BY <4>2 DEF Seqs
        <5> QED
          BY <1>1, <4>1, <5>1
      <4>3. CASE r \notin items
        BY <1>1, <4>1, <4>3
      <4> QED
        BY <4>2, <4>3
    <3> QED
      BY <3>1, <3>2 DEF CorrelationInv
  <2> QED
    BY <1>2, <2>1 DEF CorrelationInv
<1>11. TerminalsAreWhole'
  BY <1>2 DEF TerminalsAreWhole, Known
<1>12. BatchInv' /\ adoptions' \subseteq [batch : Nat, seqs : SUBSET Sequences]
  <2>1. CASE items = {}
    <3>1. moved = {}
      BY <1>1, <2>1
    <3>2. ledger' = ledger /\ adoptions' = adoptions
      BY <1>1, <1>2, <2>1, <3>1
    <3> QED
      BY <3>2 DEF BatchInv, TypeOK
  <2>2. CASE items # {}
    <3>1. adoptions' = adoptions \cup {fact}
      BY <1>2, <2>2
    <3>2. fact.batch = batch /\ fact \in [batch : Nat, seqs : SUBSET Sequences]
      BY <1>4, <1>6
    <3> HIDE DEF fact
    <3>3. \A f \in adoptions : f.batch \in Nat /\ f.batch < batch
      BY DEF BatchInv, TypeOK, batch
    <3>4. fact \notin adoptions
      BY <1>4, <3>2, <3>3
    <3>5. IsFiniteSet(adoptions') /\ Cardinality(adoptions') = batch + 1
      BY <3>1, <3>4, FS_AddElement DEF BatchInv, batch
    <3>6. \A f \in adoptions' : f.batch < Cardinality(adoptions')
      BY <1>4, <3>1, <3>2, <3>3, <3>5
    <3>7. \A x \in ledger : x.batch \in Nat /\ x.batch < batch
      BY DEF BatchInv, TypeOK, LedgerRow, batch
    <3>8. \A x \in ledger' : x.batch < Cardinality(adoptions')
      BY <1>1, <1>4, <3>5, <3>7
    <3> QED
      BY <3>1, <3>2, <3>5, <3>6, <3>8 DEF BatchInv, TypeOK
  <2> QED
    BY <2>1, <2>2
<1>13. SelectionInv'
  BY <1>1, <1>2, <1>3, <1>4 DEF SelectionInv, NoSelection
<1>14. ViewInv'
  BY <1>1, <1>2 DEF ViewInv
<1>15. TypeOK'
  BY <1>1, <1>2, <1>5, <1>9, <1>12 DEF TypeOK, NoSelection
<1> QED
  BY <1>7, <1>8, <1>9, <1>10, <1>11, <1>12, <1>13, <1>14, <1>15 DEF InboxInv

\* The fact of an adoption names the rows that it moved.
LEMMA AdoptNames ==
    ASSUME InboxInv, FactsNameAdopted, AdoptPendingBatch
    PROVE  FactsNameAdopted'
<1> TypeOK /\ EveryMessageOnce /\ BatchInv
  BY DEF InboxInv
<1> DEFINE items == Until(selected.watermark)
           batch == Cardinality(adoptions)
           moved == Adopted(items, batch)
           fact == [batch |-> batch, seqs |-> Seqs(items)]
           Of(rows, n) == {x.seq : x \in {y \in rows : y.batch = n}}
<1>1. /\ ledger' = ledger \cup moved
      /\ adoptions' = IF items = {} THEN adoptions ELSE adoptions \cup {fact}
  BY DEF AdoptPendingBatch
<1>2. \A x \in moved : x.batch = batch /\ \E r \in items : x.seq = r.seq
  BY DEF Adopted
<1>3. \A r \in items : \E x \in moved : x.seq = r.seq
  <2> TAKE r \in items
  <2> DEFINE x == [seq |-> r.seq, body |-> r.body, source |-> r.source, batch |-> batch]
  <2>1. x \in moved
    BY DEF Adopted
  <2> QED
    BY <2>1
<1>4. batch \in Nat
  BY FS_CardinalityType DEF BatchInv
<1>5. \A x \in ledger : x.batch \in Nat /\ x.batch # batch
  BY <1>4 DEF BatchInv, TypeOK, LedgerRow
<1>6. \A f \in adoptions : f.batch \in Nat /\ f.batch # batch
  BY <1>4 DEF BatchInv, TypeOK
<1>7. fact.batch = batch /\ fact.seqs = Seqs(items)
  OBVIOUS
<1> HIDE DEF items, moved, batch, fact
<1>8. \A f \in adoptions : f.seqs # {} /\ f.seqs = Of(ledger', f.batch)
  <2> TAKE f \in adoptions
  <2>1. {y \in ledger' : y.batch = f.batch} = {y \in ledger : y.batch = f.batch}
    BY <1>1, <1>2, <1>6
  <2> QED
    BY <2>1 DEF FactsNameAdopted
<1>9. ASSUME items # {}
      PROVE  fact.seqs # {} /\ fact.seqs = Of(ledger', fact.batch)
  <2>1. {y \in ledger' : y.batch = batch} = moved
    BY <1>1, <1>2, <1>5
  <2>2. {x.seq : x \in moved} = Seqs(items)
    BY <1>2, <1>3 DEF Seqs
  <2>3. Seqs(items) # {}
    BY <1>9 DEF Seqs
  <2> QED
    BY <1>7, <2>1, <2>2, <2>3
<1> QED
  BY <1>1, <1>8, <1>9 DEF FactsNameAdopted

-----------------------------------------------------------------------------
(* The theorems.                                                           *)

\* The inductive invariant of the store.
THEOREM InboxInvariant == Spec => []InboxInv
<1>1. Init => InboxInv
  <2> SUFFICES ASSUME Init PROVE InboxInv
    OBVIOUS
  <2>1. TypeOK
    BY DEF Init, TypeOK, NoSelection, NoView
  <2>2. EveryMessageOnce
    BY DEF Init, EveryMessageOnce, OneRowPerNumber, Seqs
  <2>3. RowsInv /\ BatchInv
    BY FS_EmptySet DEF Init, RowsInv, CountIsRows, BatchInv
  <2>4. LedgerInOrder /\ CorrelationInv /\ TerminalsAreWhole
    BY DEF Init, LedgerInOrder, CorrelationInv, TerminalsAreWhole, Known
  <2>5. SelectionInv /\ ViewInv
    BY DEF Init, SelectionInv, ViewInv, NoSelection, NoView
  <2> QED
    BY <2>1, <2>2, <2>3, <2>4, <2>5 DEF InboxInv
<1>2. InboxInv /\ [Next]_vars => InboxInv'
  <2> SUFFICES ASSUME InboxInv, [Next]_vars PROVE InboxInv'
    OBVIOUS
  <2>1. CASE Accept
    <3>1. PICK b \in Bodies :
              \/ AcceptInbound("human", NoKey, b)
              \/ \E k \in Keys : AcceptInbound("human", k, b) \/ RetryInbound(k, b)
              \/ \E t \in Terminals : \/ AcceptTerminal(t, b)
                                      \/ AcceptSubagentTerminal(t, b)
                                      \/ RetryTerminal(t, b)
      BY <2>1 DEF Accept
    <3>2. CASE AcceptInbound("human", NoKey, b)
      BY <3>2, AcceptKeeps DEF Sources
    <3>3. CASE \E k \in Keys : AcceptInbound("human", k, b)
      BY <3>3, AcceptKeeps DEF Sources
    <3>4. CASE \E k \in Keys : RetryInbound(k, b)
      BY <3>4, RetryKeeps DEF RetryInbound, AllKeys
    <3>5. CASE \E t \in Terminals : AcceptTerminal(t, b)
      BY <3>5, TerminalKeeps
    <3>6. CASE \E t \in Terminals : AcceptSubagentTerminal(t, b)
      BY <3>6, SubagentKeeps
    <3>7. CASE \E t \in Terminals : RetryTerminal(t, b)
      BY <3>7, RetryKeeps DEF RetryTerminal, AllKeys
    <3> QED
      BY <3>1, <3>2, <3>3, <3>4, <3>5, <3>6, <3>7
  <2>2. CASE SelectPendingBatch
    BY <2>2, SelectKeeps
  <2>3. CASE AdoptPendingBatch
    BY <2>3, AdoptKeeps
  <2>4. CASE Edit
    BY <2>4, LoadKeeps, EditKeeps, RemoveKeeps DEF Edit
  <2>5. CASE Crash
    BY <2>5, CrashKeeps
  <2>6. CASE UNCHANGED vars
    BY <2>6, QuietKeeps DEF vars, InboxInv, SelectionInv, ViewInv, TypeOK, durable
  <2>7. CASE \E b \in Bodies : AcceptContinuation(b)
    BY <2>7, AcceptKeeps DEF AcceptContinuation, Sources
  <2> QED
    BY <2>1, <2>2, <2>3, <2>4, <2>5, <2>6, <2>7 DEF Next
<1> QED
  BY <1>1, <1>2, PTL DEF Spec

\* Every table, selection and view has its type.
THEOREM InboxTyped == Spec => []TypeOK
  BY InboxInvariant, PTL DEF InboxInv

\* No message is lost or duplicated, for any sequence of acceptances, retries,
\* selections, adoptions, edits, removals and crashes.
THEOREM MessageOnce == Spec => []EveryMessageOnce
  BY InboxInvariant, PTL DEF InboxInv

\* The ledger is in the order of acceptance.
THEOREM LedgerOrdered == Spec => []LedgerInOrder
  BY InboxInvariant, PTL DEF InboxInv

\* The stored count is the number of pending rows.
THEOREM CountExact == Spec => []CountIsRows
  BY InboxInvariant, PTL DEF InboxInv, RowsInv

\* A terminal fact and its report are in the store together or not at all.
THEOREM TerminalsWhole == Spec => []TerminalsAreWhole
  BY InboxInvariant, PTL DEF InboxInv

\* A correlation that was acknowledged names the same message for ever.
THEOREM ReceiptsKept == Spec => []ReceiptsAreKept
<1>1. InboxInv => ReceiptsAreKept
  <2> SUFFICES ASSUME InboxInv PROVE ReceiptsAreKept
    OBVIOUS
  <2>1. CorrelationInv
    BY DEF InboxInv
  <2>2. \A x, y \in receipts : x[1] = y[1] => x[2] = y[2]
    BY <2>1 DEF CorrelationInv
  <2>3. \A x \in receipts : x[2] \in Seqs(pending) \cup Seqs(ledger)
    BY <2>1 DEF CorrelationInv, Seqs
  <2> QED
    BY <2>2, <2>3 DEF ReceiptsAreKept
<1> QED
  BY <1>1, InboxInvariant, PTL

-----------------------------------------------------------------------------
(* What a step may do to the tables, and the refinement.                   *)

\* An acceptance appends, or answers a retry from what is stored.
LEMMA AcceptAppends ==
    ASSUME InboxInv, Accept
    PROVE  \/ \E new : Appended(new)
           \/ UNCHANGED <<durable, selected, view, removed>>
<1> TypeOK
  BY DEF InboxInv
<1>1. PICK b \in Bodies :
          \/ AcceptInbound("human", NoKey, b)
          \/ \E k \in Keys : AcceptInbound("human", k, b) \/ RetryInbound(k, b)
          \/ \E t \in Terminals : \/ AcceptTerminal(t, b)
                                  \/ AcceptSubagentTerminal(t, b)
                                  \/ RetryTerminal(t, b)
  BY DEF Accept
<1>2. ASSUME NEW k \in Keys \cup {NoKey}, AcceptInbound("human", k, b)
      PROVE  \E new : Appended(new)
  BY <1>2, InsertAppends DEF AcceptInbound, AllKeys, Sources
<1>3. ASSUME NEW t \in Terminals, AcceptTerminal(t, b)
      PROVE  \E new : Appended(new)
  BY <1>3, InsertAppends DEF AcceptTerminal, AllKeys, Sources
<1>4. ASSUME NEW t \in Terminals, AcceptSubagentTerminal(t, b)
      PROVE  \E new : Appended(new)
  BY <1>4, PairAppends
<1>5. ASSUME NEW k \in Keys, RetryInbound(k, b)
      PROVE  UNCHANGED <<durable, selected, view, removed>>
  BY <1>5 DEF RetryInbound
<1>6. ASSUME NEW t \in Terminals, RetryTerminal(t, b)
      PROVE  UNCHANGED <<durable, selected, view, removed>>
  BY <1>6 DEF RetryTerminal
<1>7. CASE AcceptInbound("human", NoKey, b)
  BY <1>2, <1>7
<1>8. CASE \E k \in Keys : AcceptInbound("human", k, b) \/ RetryInbound(k, b)
  BY <1>2, <1>5, <1>8
<1>9. CASE \E t \in Terminals : \/ AcceptTerminal(t, b)
                                \/ AcceptSubagentTerminal(t, b)
                                \/ RetryTerminal(t, b)
  BY <1>3, <1>4, <1>6, <1>9
<1> QED
  BY <1>1, <1>7, <1>8, <1>9

\* The steps of the store, by what they do to the tables.
LEMMA StepKinds ==
    ASSUME InboxInv, [Next]_vars
    PROVE  \/ \E new : Appended(new)
           \/ AdoptPendingBatch
           \/ \E c \in Clients, r \in pending, b \in Bodies : EditPending(c, r, b)
           \/ \E c \in Clients, r \in pending : RemovePending(c, r)
           \/ UNCHANGED <<durable, removed>>
<1>1. CASE Accept
  BY <1>1, AcceptAppends
<1>2. CASE SelectPendingBatch \/ Crash
  BY <1>2 DEF SelectPendingBatch, Crash, ghosts
<1>3. CASE Edit
  BY <1>3 DEF Edit, LoadPending, ghosts
<1>4. CASE UNCHANGED vars
  BY <1>4 DEF vars, ghosts
<1>5. CASE \E b \in Bodies : AcceptContinuation(b)
  BY <1>5, InsertAppends DEF InboxInv, AcceptContinuation, AcceptInbound, AllKeys, Sources
<1> QED
  BY <1>1, <1>2, <1>3, <1>4, <1>5 DEF Next

\* The facts of adoption name exactly what they adopted.
THEOREM FactsAdopted == Spec => []FactsNameAdopted
<1>1. Init => FactsNameAdopted
  BY DEF Init, FactsNameAdopted
<1>2. InboxInv /\ FactsNameAdopted /\ [Next]_vars => FactsNameAdopted'
  <2> SUFFICES ASSUME InboxInv, FactsNameAdopted, [Next]_vars PROVE FactsNameAdopted'
    OBVIOUS
  <2>1. CASE AdoptPendingBatch
    BY <2>1, AdoptNames
  <2>2. CASE UNCHANGED <<ledger, adoptions>>
    BY <2>2 DEF FactsNameAdopted
  <2> QED
    BY <2>1, <2>2, StepKinds DEF Appended, EditPending, RemovePending, durable
<1> QED
  BY <1>1, <1>2, InboxInvariant, PTL DEF Spec

\* Adoption takes nothing that was not in the selected batch.
THEOREM AdoptsSelected == Spec => AdoptedWasSelected
<1>1. InboxInv /\ [Next]_vars => [Seqs(ledger') \ Seqs(ledger) \subseteq selected.seqs]_vars
  <2> SUFFICES ASSUME InboxInv, [Next]_vars
               PROVE  Seqs(ledger') \ Seqs(ledger) \subseteq selected.seqs
    OBVIOUS
  <2>1. CASE AdoptPendingBatch
    <3>1. TypeOK /\ EveryMessageOnce /\ SelectionInv
      BY DEF InboxInv
    <3> DEFINE items == Until(selected.watermark)
    <3>2. /\ Seqs(ledger') = Seqs(ledger) \cup Seqs(items)
          /\ Seqs(items) = {s \in Seqs(pending) : s <= selected.watermark}
      BY <2>1, <3>1, AdoptMoves
    <3>3. \A s \in Seqs(pending) : s <= selected.watermark => s \in selected.seqs
      BY <3>1 DEF SelectionInv, Seqs
    <3> HIDE DEF items
    <3> QED
      BY <3>2, <3>3
  <2>2. CASE UNCHANGED ledger
    BY <2>2 DEF Seqs
  <2> QED
    BY <2>1, <2>2, StepKinds DEF Appended, EditPending, RemovePending, durable
<1> QED
  BY <1>1, InboxInvariant, PTL DEF Spec, AdoptedWasSelected

\* An edit replaces only a text that its author has seen.
THEOREM EditsSeen == Spec => NoLostUpdate
<1> DEFINE Seen == \A r \in pending, q \in pending' :
                      (r.seq = q.seq /\ r.body # q.body) =>
                          \E c \in Clients : view[c].seq = r.seq /\ view[c].body = r.body
<1>1. InboxInv /\ [Next]_vars => [Seen]_vars
  <2> SUFFICES ASSUME InboxInv, [Next]_vars,
                      NEW r \in pending, NEW q \in pending', r.seq = q.seq, r.body # q.body
               PROVE  \E c \in Clients : view[c].seq = r.seq /\ view[c].body = r.body
    OBVIOUS
  <2>1. TypeOK /\ EveryMessageOnce /\ ViewInv
    BY DEF InboxInv
  <2>2. r.seq \in 1..next /\ next \in Nat
    BY <2>1, GivenNumbers DEF TypeOK
  <2>3. q \notin pending
    BY <2>1 DEF EveryMessageOnce, OneRowPerNumber
  <2>4. ASSUME NEW new, Appended(new) PROVE FALSE
    <3>1. q \in new
      BY <2>3, <2>4 DEF Appended
    <3>2. q.seq \in (next + 1) .. next'
      BY <2>4, <3>1 DEF Appended, Seqs
    <3> QED
      BY <2>2, <2>4, <3>2 DEF Appended
  <2>5. ASSUME NEW c \in Clients, NEW p \in pending, NEW b \in Bodies, EditPending(c, p, b)
        PROVE  view[c].seq = r.seq /\ view[c].body = r.body
    <3> DEFINE e == [p EXCEPT !.body = b, !.revision = p.revision + 1]
    <3>1. q = e
      BY <2>3, <2>5 DEF EditPending
    <3>2. p \in Row
      BY <2>1 DEF TypeOK
    <3>3. e.seq = p.seq
      BY <3>2 DEF Row
    <3>4. r = p
      BY <2>1, <3>1, <3>3 DEF EveryMessageOnce, OneRowPerNumber
    <3> QED
      BY <2>1, <2>5, <3>4 DEF EditPending, Target, ViewInv
  <2>6. ASSUME pending' \subseteq pending PROVE FALSE
    BY <2>3, <2>6
  <2> QED
    BY <2>4, <2>5, <2>6, StepKinds DEF AdoptPendingBatch, RemovePending, durable
<1> QED
  BY <1>1, InboxInvariant, PTL DEF Spec, NoLostUpdate

\* The store implements the abstract inbox: every transaction is an
\* acceptance, a delivery up to a number, a withdrawal, or invisible.
THEOREM ImplementsDelivery == Spec => DeliversInOrder
<1>1. Init => Delivery!Init
  BY DEF Init, Delivery!Init, Seqs
<1>2. InboxInv /\ [Next]_vars => [Delivery!Next]_(Delivery!fates)
  <2> SUFFICES ASSUME InboxInv, [Next]_vars PROVE Delivery!Next \/ UNCHANGED Delivery!fates
    OBVIOUS
  <2>1. TypeOK /\ EveryMessageOnce
    BY DEF InboxInv
  <2>2. ASSUME NEW new, Appended(new) PROVE Delivery!Next
    <3>1. /\ Seqs(pending') = Seqs(pending) \cup ((next + 1) .. next')
          /\ Seqs(ledger') = Seqs(ledger)
      BY <2>2 DEF Appended, Seqs
    <3>2. next' \in Nat /\ next' > next /\ removed' = removed
      BY <2>2 DEF Appended
    <3>3. Delivery!Accept
      BY <3>1, <3>2 DEF Delivery!Accept
    <3> QED
      BY <3>3 DEF Delivery!Next
  <2>3. ASSUME AdoptPendingBatch PROVE Delivery!Next \/ UNCHANGED Delivery!fates
    <3> DEFINE w == selected.watermark
               items == Until(w)
    <3>1. /\ w \in Nat
          /\ Seqs(ledger') = Seqs(ledger) \cup Seqs(items)
          /\ Seqs(pending') = Seqs(pending) \ Seqs(items)
          /\ Seqs(items) = {s \in Seqs(pending) : s <= w}
      BY <2>1, <2>3, AdoptMoves
    <3>2. removed' = removed /\ next' = next
      BY <2>3 DEF AdoptPendingBatch, ghosts
    <3>3. Seqs(pending) \subseteq 1..next /\ w <= next /\ next \in Nat
      BY <2>1 DEF EveryMessageOnce, InboxInv, SelectionInv, TypeOK
    <3> HIDE DEF items, w
    <3>4. CASE w = 0
      <4>1. Seqs(items) = {}
        BY <3>1, <3>3, <3>4
      <4> QED
        BY <3>1, <3>2, <4>1 DEF Delivery!fates
    <3>5. CASE w # 0
      <4>1. w \in 1..next
        BY <3>1, <3>3, <3>5
      <4>2. Seqs(pending') = {s \in Seqs(pending) : s > w}
        BY <3>1, <3>3
      <4>3. Delivery!Deliver
        BY <3>1, <3>2, <4>1, <4>2 DEF Delivery!Deliver
      <4> QED
        BY <4>3 DEF Delivery!Next
    <3> QED
      BY <3>4, <3>5
  <2>4. ASSUME NEW c \in Clients, NEW r \in pending, RemovePending(c, r)
        PROVE  Delivery!Next
    <3>1. Seqs(pending') = Seqs(pending) \ {r.seq} /\ r.seq \in Seqs(pending)
      BY <2>4, RemoveKeeps DEF Seqs
    <3>2. Seqs(ledger') = Seqs(ledger) /\ removed' = removed \cup {r.seq} /\ next' = next
      BY <2>4 DEF RemovePending, Seqs
    <3>3. Delivery!Withdraw
      BY <3>1, <3>2 DEF Delivery!Withdraw
    <3> QED
      BY <3>3 DEF Delivery!Next
  <2>5. ASSUME NEW c \in Clients, NEW r \in pending, NEW b \in Bodies, EditPending(c, r, b)
        PROVE  UNCHANGED Delivery!fates
    <3>1. Seqs(pending') = Seqs(pending)
      BY <2>5, EditKeeps
    <3>2. next' = next /\ removed' = removed /\ Seqs(ledger') = Seqs(ledger)
      BY <2>5 DEF EditPending, ghosts, Seqs
    <3> QED
      BY <3>1, <3>2 DEF Delivery!fates
  <2>6. ASSUME UNCHANGED <<durable, removed>> PROVE UNCHANGED Delivery!fates
    BY <2>6 DEF durable, Seqs, Delivery!fates
  <2> QED
    BY <2>2, <2>3, <2>4, <2>5, <2>6, StepKinds
<1> QED
  BY <1>1, <1>2, InboxInvariant, PTL DEF Spec, DeliversInOrder, Delivery!Spec

\* The tables of the store agree with one another in every reachable state,
\* whatever senders, clients, batches and deaths there were (inbox.rs 186-789).
THEOREM TablesConsistent == Spec => []TablesAgree
  BY CountExact, LedgerOrdered, ReceiptsKept, TerminalsWhole, FactsAdopted, PTL DEF TablesAgree

\* Adoption and edits act only on what their author read and what is still so
\* (inbox.rs 356-481, 947-1033).
THEOREM SnapshotsSafe == Spec => SnapshotsAreRechecked
  BY AdoptsSelected, EditsSeen DEF SnapshotsAreRechecked

-----------------------------------------------------------------------------
(* The Goal over the inbox.                                                *)

\* The composition adds to the inbox nothing that the inbox does not do by
\* itself: a paid round is one of its acceptances (inbox.rs 88-163), and every
\* write of the Goal leaves its tables alone.
THEOREM GoalImplementsInbox == GoalSpec => Spec
<1>1. GoalInit => Init
  BY DEF GoalInit
<1>2. [GoalNext]_allVars => [Next]_vars
  <2> SUFFICES ASSUME [GoalNext]_allVars PROVE [Next]_vars
    OBVIOUS
  <2>1. CASE GoalWrite
    BY <2>1 DEF GoalWrite, Create, Pause, Resume, Block, Complete, MovePhase, EditObjective,
                SetBudget, PauseIfCurrent
  <2>2. CASE \E w \in Writers : Observe(w)
    BY <2>2 DEF Observe
  <2>3. CASE \E w \in Writers : \E b \in Bodies : AcceptGoalRound(w, b)
    BY <2>3 DEF AcceptGoalRound, Next
  <2>4. CASE InboxAction
    BY <2>4 DEF InboxAction, Next
  <2>5. CASE Restart
    BY <2>5 DEF Restart, Next
  <2>6. CASE UNCHANGED allVars
    BY <2>6 DEF allVars
  <2> QED
    BY <2>1, <2>2, <2>3, <2>4, <2>5, <2>6 DEF GoalNext, GoalAction
<1> QED
  BY <1>1, <1>2, PTL DEF Spec, GoalSpec

\* With a Goal, too, the tables agree in every reachable state.
THEOREM GoalTablesConsistent == GoalSpec => []TablesAgree
  BY GoalImplementsInbox, TablesConsistent, PTL

\* With a Goal, too, nobody acts on a snapshot that is no longer true.
THEOREM GoalSnapshotsSafe == GoalSpec => SnapshotsAreRechecked
  BY GoalImplementsInbox, SnapshotsSafe, PTL

\* With a Goal, too, messages and continuations are delivered in order.
THEOREM GoalImplementsDelivery == GoalSpec => DeliversInOrder
  BY GoalImplementsInbox, ImplementsDelivery, PTL

GoalRecord == [ref : GoalRef, phase : Phases, budget : Nat, consumed : Nat]

\* The rounds are finitely many, and each belongs to a Goal that existed: a new
\* Goal takes its id from a revision no round has seen.
RoundsInv ==
    /\ IsFiniteSet(rounds)
    /\ goal.ref.id <= goal.ref.revision
    /\ \A f \in rounds : f.ref.id <= goal.ref.revision

GoalInv == GoalTypeOK /\ RoundsInv /\ BudgetIsHonoured /\ OneContinuationWaits

GoalRows == {p \in pending : p.source = "goal"}
GoalTurns == {x \in ledger : x.source = "goal"}

\* The accounts of messages hold when no row of the Goal comes or goes.
LEMMA ContinuationsKept ==
    ASSUME OneContinuationWaits, rounds' = rounds, GoalRows' = GoalRows, GoalTurns' = GoalTurns
    PROVE  OneContinuationWaits'
BY DEF OneContinuationWaits, GoalRows, GoalTurns

\* A write of the Goal after its creation: the next revision of the same Goal,
\* which has consumed as much.
Amends ==
    /\ UNCHANGED <<vars, rounds, seen>>
    /\ goal' \in GoalRecord
    /\ goal'.ref.id = goal.ref.id /\ goal'.ref.revision = goal.ref.revision + 1
    /\ goal'.consumed = goal.consumed /\ goal'.consumed <= goal'.budget

LEMMA AmendKeeps ==
    ASSUME GoalInv, Amends
    PROVE  GoalInv'
<1> GoalTypeOK /\ RoundsInv /\ BudgetIsHonoured /\ OneContinuationWaits
  BY DEF GoalInv
<1>1. GoalTypeOK'
  BY DEF GoalTypeOK, Amends, GoalRecord
<1>2. goal.ref.id \in Nat /\ goal.ref.revision \in Nat /\ \A f \in rounds : f.ref.id \in Nat
  BY DEF GoalTypeOK, GoalRef
<1>3. RoundsInv'
  BY <1>2 DEF RoundsInv, Amends
<1>4. RoundsOf(goal)' = RoundsOf(goal)
  BY DEF RoundsOf, Amends
<1>5. BudgetIsHonoured'
  BY <1>4 DEF BudgetIsHonoured, Amends
<1>6. OneContinuationWaits'
  BY ContinuationsKept DEF Amends, vars, durable, GoalRows, GoalTurns
<1> QED
  BY <1>1, <1>3, <1>5, <1>6 DEF GoalInv

\* A new revision keeps the id.
LEMMA BumpIs ==
    ASSUME NEW ref \in GoalRef
    PROVE  Bump(ref) \in GoalRef /\ Bump(ref).id = ref.id /\ Bump(ref).revision = ref.revision + 1
BY DEF Bump, GoalRef

\* Every write of the Goal but its creation amends it.
LEMMA WritesAmend ==
    ASSUME GoalInv
    PROVE  /\ \A w \in Writers : Pause(w) \/ Resume(w) \/ Block(w) \/ Complete(w)
                                 \/ EditObjective(w) => Amends
           /\ \A w \in Writers, b \in 1..MaxBudget : SetBudget(w, b) => Amends
           /\ \A f \in rounds : PauseIfCurrent(f) => Amends
<1>1. /\ goal \in GoalRecord /\ goal.ref \in GoalRef /\ goal.consumed \in Nat
      /\ goal.consumed <= goal.budget
  BY DEF GoalInv, GoalTypeOK, BudgetIsHonoured, GoalRecord
<1>2. /\ Bump(goal.ref) \in GoalRef /\ Bump(goal.ref).id = goal.ref.id
      /\ Bump(goal.ref).revision = goal.ref.revision + 1
  BY <1>1, BumpIs
<1>3. ASSUME NEW phase \in Phases, goal' = [goal EXCEPT !.phase = phase, !.ref = Bump(@)],
             UNCHANGED <<vars, rounds, seen>>
      PROVE  Amends
  BY <1>1, <1>2, <1>3 DEF Amends, GoalRecord
<1>4. ASSUME NEW w \in Writers, Pause(w) \/ Resume(w) \/ Block(w) \/ Complete(w)
      PROVE  Amends
  <2>1. PICK phase \in Phases : goal' = [goal EXCEPT !.phase = phase, !.ref = Bump(@)]
    BY <1>4 DEF Pause, Resume, Block, Complete, MovePhase, Phases
  <2>2. UNCHANGED <<vars, rounds, seen>>
    BY <1>4 DEF Pause, Resume, Block, Complete, MovePhase
  <2> QED
    BY <1>3, <2>1, <2>2
<1>5. ASSUME NEW w \in Writers, EditObjective(w)
      PROVE  Amends
  BY <1>1, <1>2, <1>5 DEF EditObjective, Amends, GoalRecord
<1>6. ASSUME NEW w \in Writers, NEW b \in 1..MaxBudget, SetBudget(w, b)
      PROVE  Amends
  <2>1. b \in Nat /\ b >= goal.consumed /\ goal' = [goal EXCEPT !.budget = b, !.ref = Bump(@)]
    BY <1>6 DEF SetBudget
  <2> QED
    BY <1>1, <1>2, <1>6, <2>1 DEF SetBudget, Amends, GoalRecord
<1>7. ASSUME NEW f \in rounds, PauseIfCurrent(f)
      PROVE  Amends
  BY <1>3, <1>7 DEF PauseIfCurrent, Phases
<1> QED
  BY <1>4, <1>5, <1>6, <1>7

\* A new Goal has no round: its id is above every revision so far.
LEMMA CreateKeeps ==
    ASSUME GoalInv, NEW b \in 1..MaxBudget, Create(b)
    PROVE  GoalInv'
<1> DEFINE n == goal.ref.revision + 1
<1> GoalTypeOK /\ RoundsInv /\ BudgetIsHonoured /\ OneContinuationWaits
  BY DEF GoalInv
<1>1. /\ goal.ref.revision \in Nat /\ goal.ref.id \in Nat /\ b \in Nat
      /\ \A f \in rounds : f.ref.id \in Nat
  BY DEF GoalTypeOK, GoalRef
<1>2. /\ goal' = [ref |-> [id |-> n, revision |-> n], phase |-> "Active", budget |-> b, consumed |-> 0]
      /\ UNCHANGED <<vars, rounds, seen>>
  BY DEF Create
<1>3. /\ goal' \in GoalRecord /\ goal'.ref.id = n /\ goal'.ref.revision = n
      /\ goal'.consumed = 0 /\ goal'.budget = b
  BY <1>1, <1>2 DEF GoalRecord, GoalRef, Phases
<1>4. GoalTypeOK'
  BY <1>2, <1>3 DEF GoalTypeOK, GoalRecord
<1>5. RoundsInv'
  BY <1>1, <1>2, <1>3 DEF RoundsInv
<1>6. RoundsOf(goal)' = {}
  BY <1>1, <1>2, <1>3 DEF RoundsOf, RoundsInv
<1>7. BudgetIsHonoured'
  BY <1>1, <1>3, <1>6, FS_EmptySet DEF BudgetIsHonoured
<1>8. OneContinuationWaits'
  BY <1>2, ContinuationsKept DEF vars, durable, GoalRows, GoalTurns
<1> QED
  BY <1>4, <1>5, <1>7, <1>8 DEF GoalInv

\* A round is paid once, with the message it accepts.
LEMMA RoundKeeps ==
    ASSUME InboxInv, GoalInv, NEW w \in Writers, NEW b \in Bodies, AcceptGoalRound(w, b)
    PROVE  GoalInv'
<1> DEFINE row == NewRow(next + 1, "goal", NoKey, b)
           fact == [ref |-> Bump(goal.ref), round |-> goal.consumed + 1, seq |-> next + 1]
<1> GoalTypeOK /\ RoundsInv /\ BudgetIsHonoured /\ OneContinuationWaits
  BY DEF GoalInv
<1>1. /\ goal \in GoalRecord /\ goal.ref \in GoalRef /\ goal.consumed \in Nat /\ goal.budget \in Nat
      /\ goal.consumed < goal.budget /\ next \in Nat
      /\ goal.ref.id \in Nat /\ goal.ref.revision \in Nat /\ \A f \in rounds : f.ref.id \in Nat
  BY DEF GoalTypeOK, GoalRecord, GoalRef, AcceptGoalRound, InboxInv, TypeOK
<1>2. /\ Bump(goal.ref) \in GoalRef /\ Bump(goal.ref).id = goal.ref.id
      /\ Bump(goal.ref).revision = goal.ref.revision + 1
  BY <1>1, BumpIs
<1>3. /\ pending = {} /\ pending' = {row} /\ ledger' = ledger
      /\ goal' = [goal EXCEPT !.consumed = @ + 1, !.ref = Bump(@)]
      /\ rounds' = rounds \cup {fact} /\ seen' = seen
  BY DEF AcceptGoalRound, AcceptContinuation, AcceptInbound, Insert
<1>4. /\ goal' \in GoalRecord /\ goal'.ref = Bump(goal.ref) /\ goal'.budget = goal.budget
      /\ goal'.consumed = goal.consumed + 1
  <2>1. goal.consumed + 1 \in Nat
    BY <1>1
  <2> QED
    BY <1>1, <1>2, <1>3, <2>1 DEF GoalRecord
<1>5. fact.ref = Bump(goal.ref) /\ fact.seq = next + 1 /\ row.seq = next + 1 /\ row.source = "goal"
  BY DEF NewRow
<1>6. fact \in [ref : GoalRef, round : Nat, seq : Sequences]
  BY <1>1, <1>2 DEF Sequences
<1> HIDE DEF row, fact
<1>7. GoalTypeOK'
  BY <1>3, <1>4, <1>6 DEF GoalTypeOK, GoalRecord
<1>8. RoundsInv'
  <2>1. IsFiniteSet(rounds')
    BY <1>3, FS_AddElement DEF RoundsInv
  <2> QED
    BY <1>1, <1>2, <1>3, <1>4, <1>5, <2>1 DEF RoundsInv
<1>9. fact \notin rounds
  <2>1. \A f \in rounds : f.seq \in Seqs(pending) \cup Seqs(ledger)
    BY DEF OneContinuationWaits, Seqs
  <2>2. next + 1 \notin Seqs(pending) \cup Seqs(ledger)
    BY <1>1 DEF InboxInv, EveryMessageOnce
  <2> QED
    BY <1>5, <2>1, <2>2
<1>10. BudgetIsHonoured'
  <2>1. RoundsOf(goal)' = RoundsOf(goal) \cup {fact} /\ fact \notin RoundsOf(goal)
    BY <1>2, <1>3, <1>4, <1>5, <1>9 DEF RoundsOf
  <2>2. IsFiniteSet(RoundsOf(goal))
    BY FS_Subset DEF RoundsOf, RoundsInv
  <2>3. Cardinality(RoundsOf(goal) \cup {fact}) = Cardinality(RoundsOf(goal)) + 1
    BY <2>1, <2>2, FS_AddElement
  <2>4. goal'.consumed = Cardinality(RoundsOf(goal)')
    BY <1>4, <2>1, <2>3 DEF BudgetIsHonoured
  <2> QED
    BY <1>1, <1>4, <2>4 DEF BudgetIsHonoured
<1>11. OneContinuationWaits'
  <2>1. GoalRows = {} /\ GoalRows' = {row} /\ GoalTurns' = GoalTurns
    BY <1>3, <1>5 DEF GoalRows, GoalTurns
  <2>2. {f.seq : f \in rounds} = Seqs(GoalRows) \cup Seqs(GoalTurns)
    BY DEF OneContinuationWaits, GoalRows, GoalTurns
  <2>3. {f.seq : f \in rounds'} = {f.seq : f \in rounds} \cup {next + 1}
    BY <1>3, <1>5
  <2>4. Seqs(GoalRows) = {} /\ Seqs(GoalRows') = {next + 1}
    BY <1>5, <2>1 DEF Seqs
  <2>5. {f.seq : f \in rounds'} = Seqs(GoalRows') \cup Seqs(GoalTurns')
    BY <2>1, <2>2, <2>3, <2>4
  <2> QED
    BY <2>1, <2>5 DEF OneContinuationWaits, GoalRows, GoalTurns
<1> QED
  BY <1>7, <1>8, <1>10, <1>11 DEF GoalInv

\* The inbox moves the rows of the Goal into the ledger and does nothing else
\* to them: nobody edits or removes one.
LEMMA InboxKeepsContinuations ==
    ASSUME InboxInv, OneContinuationWaits, InboxAction
    PROVE  OneContinuationWaits'
<1> TypeOK /\ EveryMessageOnce
  BY DEF InboxInv
<1> rounds' = rounds
  BY DEF InboxAction, goalVars
<1>1. CASE GoalRows' = GoalRows /\ GoalTurns' = GoalTurns
  BY <1>1, ContinuationsKept
<1>2. CASE AdoptPendingBatch
  <2> DEFINE items == Until(selected.watermark)
             moved == Adopted(items, Cardinality(adoptions))
             gone == {r \in items : r.source = "goal"}
  <2>1. pending' = pending \ items /\ ledger' = ledger \cup moved /\ items \subseteq pending
    BY <1>2 DEF AdoptPendingBatch, Until
  <2>2. \A x \in moved : \E r \in items : x.seq = r.seq /\ x.source = r.source
    BY DEF Adopted
  <2>3. \A r \in items : \E x \in moved : x.seq = r.seq /\ x.source = r.source
    <3> TAKE r \in items
    <3> DEFINE x == [seq |-> r.seq, body |-> r.body, source |-> r.source,
                     batch |-> Cardinality(adoptions)]
    <3>1. x \in moved
      BY DEF Adopted
    <3>2. x.seq = r.seq /\ x.source = r.source
      OBVIOUS
    <3> QED
      BY <3>1, <3>2
  <2> HIDE DEF items, moved
  <2>4. Seqs(GoalRows) = Seqs(GoalRows') \cup Seqs(gone)
    BY <2>1 DEF GoalRows, Seqs
  <2>5. Seqs(GoalTurns') = Seqs(GoalTurns) \cup Seqs(gone)
    BY <2>1, <2>2, <2>3 DEF GoalTurns, Seqs
  <2>6. {f.seq : f \in rounds} = Seqs(GoalRows) \cup Seqs(GoalTurns)
    BY DEF OneContinuationWaits, GoalRows, GoalTurns
  <2>7. {f.seq : f \in rounds'} = Seqs(GoalRows') \cup Seqs(GoalTurns')
    BY <2>4, <2>5, <2>6
  <2>8. \A r, q \in GoalRows' : r = q
    BY <2>1 DEF OneContinuationWaits, GoalRows
  <2> QED
    BY <2>7, <2>8 DEF OneContinuationWaits, GoalRows, GoalTurns
<1>3. CASE Accept
  <2>1. ledger' = ledger
    BY <1>3 DEF Accept, AcceptInbound, RetryInbound, AcceptTerminal, AcceptSubagentTerminal,
                RetryTerminal, durable
  <2>2. \A r \in pending' \ pending : r.source # "goal"
    BY <1>3 DEF Accept, AcceptInbound, RetryInbound, AcceptTerminal, AcceptSubagentTerminal,
                RetryTerminal, Insert, NewRow, durable
  <2>3. pending \subseteq pending'
    BY <1>3 DEF Accept, AcceptInbound, RetryInbound, AcceptTerminal, AcceptSubagentTerminal,
                RetryTerminal, Insert, durable
  <2> QED
    BY <1>1, <2>1, <2>2, <2>3 DEF GoalRows, GoalTurns
<1>4. CASE Edit
  <2>1. PICK c \in Clients, r \in pending :
            LoadPending(c, r) \/ (\E b \in Bodies : EditPending(c, r, b)) \/ RemovePending(c, r)
    BY <1>4 DEF Edit
  <2>2. CASE LoadPending(c, r)
    BY <1>1, <2>2 DEF LoadPending, durable, GoalRows, GoalTurns
  <2>3. ASSUME NEW b \in Bodies, EditPending(c, r, b)
        PROVE  OneContinuationWaits'
    <3> DEFINE q == [r EXCEPT !.body = b, !.revision = r.revision + 1]
    <3>1. r \in Row /\ r.source = "human" /\ pending' = (pending \ {r}) \cup {q} /\ ledger' = ledger
      BY <2>3 DEF EditPending, Target, Editable, TypeOK
    <3>2. q.source = "human"
      BY <3>1 DEF Row
    <3> HIDE DEF q
    <3> QED
      BY <1>1, <3>1, <3>2 DEF GoalRows, GoalTurns
  <2>4. CASE RemovePending(c, r)
    BY <1>1, <2>4 DEF RemovePending, Target, Editable, GoalRows, GoalTurns
  <2> QED
    BY <2>1, <2>2, <2>3, <2>4
<1>5. CASE SelectPendingBatch
  BY <1>1, <1>5 DEF SelectPendingBatch, durable, GoalRows, GoalTurns
<1> QED
  BY <1>2, <1>3, <1>4, <1>5 DEF InboxAction

\* The accounts of the Goal hold in every reachable state: what it says it
\* consumed is what the journal admitted for it, within its budget, and each
\* paid round has one message, pending or adopted (goal.rs 155-248, inbox.rs
\* 88-164), for any number of writers with stale references.
THEOREM RoundsAlwaysHonest == GoalSpec => []RoundsAreHonest
<1>1. GoalInit => GoalInv
  <2> SUFFICES ASSUME GoalInit PROVE GoalInv
    OBVIOUS
  <2>1. GoalTypeOK
    BY DEF GoalInit, GoalTypeOK, NoGoal, NoRef, GoalRef, Phases
  <2>2. RoundsInv
    BY FS_EmptySet DEF GoalInit, RoundsInv, NoGoal, NoRef
  <2>3. RoundsOf(goal) = {}
    BY DEF GoalInit, RoundsOf
  <2>4. BudgetIsHonoured
    BY <2>3, FS_EmptySet DEF GoalInit, BudgetIsHonoured, NoGoal
  <2>5. OneContinuationWaits
    BY DEF GoalInit, Init, OneContinuationWaits, Seqs
  <2> QED
    BY <2>1, <2>2, <2>4, <2>5 DEF GoalInv
<1>2. InboxInv /\ GoalInv /\ [GoalNext]_allVars => GoalInv'
  <2> SUFFICES ASSUME InboxInv, GoalInv, [GoalNext]_allVars PROVE GoalInv'
    OBVIOUS
  <2> GoalTypeOK /\ RoundsInv /\ BudgetIsHonoured /\ OneContinuationWaits
    BY DEF GoalInv
  <2>1. CASE GoalWrite
    <3>1. CASE \E b \in 1..MaxBudget : Create(b)
      BY <3>1, CreateKeeps
    <3>2. CASE Amends
      BY <3>2, AmendKeeps
    <3> QED
      BY <2>1, <3>1, <3>2, WritesAmend DEF GoalWrite
  <2>2. CASE \E w \in Writers : \E b \in Bodies : AcceptGoalRound(w, b)
    BY <2>2, RoundKeeps
  <2>3. ASSUME UNCHANGED <<goal, rounds>>, OneContinuationWaits', seen' \in [Writers -> GoalRef]
        PROVE  GoalInv'
    BY <2>3 DEF GoalInv, GoalTypeOK, RoundsInv, BudgetIsHonoured, RoundsOf
  <2>4. CASE \E w \in Writers : Observe(w)
    <3>1. UNCHANGED <<goal, rounds>> /\ OneContinuationWaits'
      BY <2>4, ContinuationsKept DEF Observe, vars, durable, GoalRows, GoalTurns
    <3>2. seen' \in [Writers -> GoalRef]
      BY <2>4 DEF Observe, GoalTypeOK
    <3> QED
      BY <2>3, <3>1, <3>2
  <2>5. CASE InboxAction
    BY <2>3, <2>5, InboxKeepsContinuations DEF InboxAction, goalVars, GoalTypeOK
  <2>6. CASE Restart
    <3>1. UNCHANGED <<goal, rounds>> /\ OneContinuationWaits'
      BY <2>6, ContinuationsKept DEF Restart, Crash, durable, GoalRows, GoalTurns
    <3>2. seen' \in [Writers -> GoalRef]
      BY <2>6 DEF Restart, NoRef, GoalRef
    <3> QED
      BY <2>3, <3>1, <3>2
  <2>7. CASE UNCHANGED allVars
    <3>1. UNCHANGED <<goal, rounds, seen>> /\ OneContinuationWaits'
      BY <2>7, ContinuationsKept DEF allVars, goalVars, vars, durable, GoalRows, GoalTurns
    <3> QED
      BY <2>3, <3>1 DEF GoalTypeOK
  <2> QED
    BY <2>1, <2>2, <2>4, <2>5, <2>6, <2>7 DEF GoalNext, GoalAction
<1>3. GoalInv => RoundsAreHonest
  BY DEF GoalInv, RoundsAreHonest
<1> QED
  BY <1>1, <1>2, <1>3, GoalImplementsInbox, InboxInvariant, PTL DEF GoalSpec
=============================================================================
