---------------------------- MODULE PendingInbox ----------------------------
(***************************************************************************)
(* The durable pending inbox of one conversation                           *)
(* (src/src/durable/sqlite/inbox.rs): acceptance, idempotent by            *)
(* correlation; the selection and the later adoption of a batch into the   *)
(* canonical ledger; the edits and removals of a client that holds a       *)
(* revision it saw earlier; and process death, which keeps the tables and  *)
(* loses what the process knew.                                            *)
(*                                                                         *)
(* Each operation of the store is one IMMEDIATE transaction, hence one     *)
(* action.  A table is a set of rows.  The order of the ledger is the      *)
(* order of the adopting transactions, and of the numbers within one.      *)
(* A message is its number: message identities and contents beyond one     *)
(* "body" are left out, and so are the display tables.                     *)
(***************************************************************************)
EXTENDS Naturals, FiniteSets

CONSTANTS
    Bodies,        \* message contents
    Keys,          \* correlations of idempotent senders
    Terminals,     \* detached executions and subagents that report a terminal
    Clients,       \* runtime clients that edit the queue
    NoKey,         \* an uncorrelated message
    MaxSequence,   \* bound on the accepted messages of one run
    MaxRevision    \* bound on the edits of one message

\* the correlations a terminal publication uses
Report(t) == <<"report", t>>
Notice(t) == <<"notice", t>>
AllKeys == Keys \cup {Report(t) : t \in Terminals} \cup {Notice(t) : t \in Terminals}

ASSUME InboxAssumption == /\ NoKey \notin AllKeys
                          /\ \A t \in Terminals : Report(t) \notin Keys /\ Notice(t) \notin Keys
                          /\ MaxSequence \in Nat
                          /\ MaxRevision \in Nat

VARIABLES
    next,          \* rustx_store.next_inbound_sequence, the last one given
    pending,       \* table pending_inbound
    count,         \* rustx_store.pending_observation_count
    correlation,   \* table inbound_correlation
    ledger,        \* the adopted messages, each with the transaction that adopted it
    adoptions,     \* the journal's InboundTurnAdopted facts
    terminals,     \* the journal's terminal facts
    selected,      \* the batch the process has selected and not yet adopted
    view,          \* the row each client looked at last
    receipts,      \* <<key, number>> acknowledged to correlated senders, ever
    removed        \* numbers removed by a client, ever

durable == <<next, pending, count, correlation, ledger, adoptions, terminals>>
ghosts == <<receipts, removed>>
vars == <<durable, selected, view, ghosts>>

Sources == {"human", "runtime", "goal"}
Sequences == Nat \ {0}

Row == [seq : Sequences, body : Bodies, source : Sources,
        key : AllKeys \cup {NoKey}, revision : Nat]
LedgerRow == [seq : Sequences, body : Bodies, source : Sources, batch : Nat]
NoSelection == [watermark |-> 0, seqs |-> {}]
NoView == [seq |-> 0, revision |-> 0, body |-> NoKey]

Seqs(rows) == {r.seq : r \in rows}

TypeOK ==
    /\ next \in Nat
    /\ pending \subseteq Row
    /\ count \in Nat
    /\ correlation \subseteq [key : AllKeys, seq : Sequences]
    /\ ledger \subseteq LedgerRow
    /\ adoptions \subseteq [batch : Nat, seqs : SUBSET Sequences]
    /\ terminals \subseteq Terminals
    /\ selected \in [watermark : Nat, seqs : SUBSET Sequences]
    /\ view \in [Clients -> [seq : Nat, revision : Nat, body : Bodies \cup {NoKey}]]
    /\ receipts \subseteq AllKeys \X Sequences
    /\ removed \subseteq Sequences

Init ==
    /\ next = 0
    /\ pending = {}
    /\ count = 0
    /\ correlation = {}
    /\ ledger = {}
    /\ adoptions = {}
    /\ terminals = {}
    /\ selected = NoSelection
    /\ view = [c \in Clients |-> NoView]
    /\ receipts = {}
    /\ removed = {}

-----------------------------------------------------------------------------
(* accept_scheduled_inbound_tx: the common body of every acceptance.       *)

Known(k) == \E c \in correlation : c.key = k

\* load_correlated_user_message: the stored body of a correlation, looked up
\* among the pending rows and then in the ledger
Stored(k, b) ==
    \E c \in correlation :
        /\ c.key = k
        /\ \E r \in pending \cup ledger : r.seq = c.seq /\ r.body = b

\* the part of a retry that changes anything: the sender learns the number
Acknowledge(k) ==
    receipts' = receipts \cup {<<c.key, c.seq>> : c \in {d \in correlation : d.key = k}}

NewRow(n, source, k, b) ==
    [seq |-> n, body |-> b, source |-> source, key |-> k, revision |-> 0]

\* a fresh row: the number, the row, the count and the correlation
Insert(source, k, b) ==
    /\ next < MaxSequence
    /\ next' = next + 1
    /\ pending' = pending \cup {NewRow(next + 1, source, k, b)}
    /\ count' = count + 1
    /\ correlation' = correlation \cup
          (IF k = NoKey THEN {} ELSE {[key |-> k, seq |-> next + 1]})
    /\ receipts' = receipts \cup (IF k = NoKey THEN {} ELSE {<<k, next + 1>>})

\* accept_inbound, first acceptance: an uncorrelated message or an unknown key
AcceptInbound(source, k, b) ==
    /\ k = NoKey \/ ~Known(k)
    /\ Insert(source, k, b)
    /\ UNCHANGED <<ledger, adoptions, terminals, selected, view, removed>>

\* the acceptance inside accept_goal_round: any pending row has priority
AcceptContinuation(b) ==
    /\ pending = {}
    /\ AcceptInbound("goal", NoKey, b)

\* accept_inbound, retried: the same draft is answered with the number it has;
\* another draft under the same key is a CorrelationConflict and changes nothing
RetryInbound(k, b) ==
    /\ Known(k)
    /\ Stored(k, b)
    /\ Acknowledge(k)
    /\ UNCHANGED <<durable, selected, view, removed>>

\* accept_inbound_with_event: the report of a detached execution and its
\* terminal fact, in one transaction
AcceptTerminal(t, b) ==
    /\ ~Known(Report(t))
    /\ Insert("runtime", Report(t), b)
    /\ terminals' = terminals \cup {t}
    /\ UNCHANGED <<ledger, adoptions, selected, view, removed>>

\* its retry must find the fact that was stored with the report
RetryTerminal(t, b) ==
    /\ Known(Report(t))
    /\ Stored(Report(t), b)
    /\ t \in terminals
    /\ Acknowledge(Report(t))
    /\ UNCHANGED <<durable, selected, view, removed>>

\* accept_subagent_terminal with its notice: the notice, the report and the
\* terminal fact, in that order and in one transaction
AcceptSubagentTerminal(t, b) ==
    /\ ~Known(Notice(t)) /\ ~Known(Report(t))
    /\ next + 1 < MaxSequence
    /\ next' = next + 2
    /\ pending' = pending \cup {NewRow(next + 1, "runtime", Notice(t), b),
                                NewRow(next + 2, "runtime", Report(t), b)}
    /\ count' = count + 2
    /\ correlation' = correlation \cup {[key |-> Notice(t), seq |-> next + 1],
                                        [key |-> Report(t), seq |-> next + 2]}
    /\ receipts' = receipts \cup {<<Notice(t), next + 1>>, <<Report(t), next + 2>>}
    /\ terminals' = terminals \cup {t}
    /\ UNCHANGED <<ledger, adoptions, selected, view, removed>>

-----------------------------------------------------------------------------
(* Selection and adoption: two transactions of one owner, with anything    *)
(* of anyone else in between.                                              *)

\* select_pending_batch, non-destructive: the watermark is the highest row
SelectPendingBatch ==
    /\ pending # {}
    /\ \E w \in Seqs(pending) :
          /\ \A s \in Seqs(pending) : s <= w
          /\ selected' = [watermark |-> w, seqs |-> Seqs(pending)]
    /\ UNCHANGED <<durable, view, ghosts>>

\* load_pending_until
Until(w) == {r \in pending : r.seq <= w}

Adopted(rows, batch) ==
    {[seq |-> r.seq, body |-> r.body, source |-> r.source, batch |-> batch] : r \in rows}

\* The fact lists the identities that were selected.
Mut_FactFromSelection ==
    LET items == Until(selected.watermark)
        batch == Cardinality(adoptions)
    IN  /\ selected # NoSelection
        /\ ledger' = ledger \cup Adopted(items, batch)
        /\ pending' = pending \ items
        /\ count' = count - Cardinality(items)
        /\ adoptions' = IF items = {} THEN adoptions
                        ELSE adoptions \cup {[batch |-> batch, seqs |-> selected.seqs]}
        /\ selected' = NoSelection
        /\ UNCHANGED <<next, correlation, terminals, view, ghosts>>

\* The adopted rows are appended to the ledger and not deleted.
Mut_AdoptKeepsRows ==
    LET items == Until(selected.watermark)
        batch == Cardinality(adoptions)
    IN  /\ selected # NoSelection
        /\ ledger' = ledger \cup Adopted(items, batch)
        /\ adoptions' = IF items = {} THEN adoptions
                        ELSE adoptions \cup {[batch |-> batch, seqs |-> Seqs(items)]}
        /\ selected' = NoSelection
        /\ UNCHANGED <<next, pending, count, correlation, terminals, view, ghosts>>

\* adopt_pending_batch: what is still pending up to the watermark moves into
\* the ledger, and the fact of the adoption names it; an empty batch has none
AdoptPendingBatch ==
    LET items == Until(selected.watermark)
        batch == Cardinality(adoptions)
    IN  /\ selected # NoSelection
        /\ ledger' = ledger \cup Adopted(items, batch)
        /\ pending' = pending \ items
        /\ count' = count - Cardinality(items)
        /\ adoptions' = IF items = {} THEN adoptions
                        ELSE adoptions \cup {[batch |-> batch, seqs |-> Seqs(items)]}
        /\ selected' = NoSelection
        /\ UNCHANGED <<next, correlation, terminals, view, ghosts>>

-----------------------------------------------------------------------------
(* A client's queue editor: load_pending, and later edit_pending or        *)
(* remove_pending against the PendingInboundRef it saw.                    *)

LoadPending(c, r) ==
    /\ r \in pending
    /\ view' = [view EXCEPT ![c] = [seq |-> r.seq, revision |-> r.revision, body |-> r.body]]
    /\ UNCHANGED <<durable, selected, ghosts>>

\* "Producer-correlated runtime work is not user-authored queue content."
Editable(r) == r.source = "human" /\ r.key = NoKey

\* the row that a client's reference still names, if its revision is current
Target(c, r) ==
    /\ r \in pending
    /\ r.seq = view[c].seq
    /\ r.revision = view[c].revision
    /\ Editable(r)

\* The edit keeps the revision it was based on.
Mut_EditKeepsRevision(c, r, b) ==
    /\ Target(c, r)
    /\ r.revision < MaxRevision
    /\ pending' = (pending \ {r}) \cup {[r EXCEPT !.body = b]}
    /\ UNCHANGED <<next, count, correlation, ledger, adoptions, terminals, selected, view,
                   ghosts>>

EditPending(c, r, b) ==
    /\ Target(c, r)
    /\ r.revision < MaxRevision
    /\ pending' = (pending \ {r}) \cup {[r EXCEPT !.body = b, !.revision = r.revision + 1]}
    /\ UNCHANGED <<next, count, correlation, ledger, adoptions, terminals, selected, view,
                   ghosts>>

RemovePending(c, r) ==
    /\ Target(c, r)
    /\ pending' = pending \ {r}
    /\ count' = count - 1
    /\ removed' = removed \cup {r.seq}
    /\ UNCHANGED <<next, correlation, ledger, adoptions, terminals, selected, view, receipts>>

-----------------------------------------------------------------------------
\* The process dies and a new one opens the store: the tables are what the
\* committed transactions left, everything the process held is gone.
Crash ==
    /\ selected' = NoSelection
    /\ view' = [c \in Clients |-> NoView]
    /\ UNCHANGED <<durable, ghosts>>

Accept ==
    \E b \in Bodies :
        \/ AcceptInbound("human", NoKey, b)
        \/ \E k \in Keys : AcceptInbound("human", k, b) \/ RetryInbound(k, b)
        \/ \E t \in Terminals : \/ AcceptTerminal(t, b)
                                \/ AcceptSubagentTerminal(t, b)
                                \/ RetryTerminal(t, b)

Edit ==
    \E c \in Clients, r \in pending :
        \/ LoadPending(c, r)
        \/ \E b \in Bodies : EditPending(c, r, b)
        \/ RemovePending(c, r)

Next ==
    \/ Accept \/ \E b \in Bodies : AcceptContinuation(b)
    \/ SelectPendingBatch \/ AdoptPendingBatch \/ Edit \/ Crash

Spec == Init /\ [][Next]_vars

-----------------------------------------------------------------------------
OneRowPerNumber(rows) == \A r, q \in rows : r.seq = q.seq => r = q

\* Every number ever given belongs to exactly one message, which is pending,
\* adopted once or removed: acceptance, adoption and removal never lose or
\* duplicate a message, whatever edits, removals and crashes fall between a
\* selection and its adoption (inbox.rs 376-481, 617-803, 947-1033).
EveryMessageOnce ==
    /\ OneRowPerNumber(pending)
    /\ OneRowPerNumber(ledger)
    /\ Seqs(pending) \cap Seqs(ledger) = {}
    /\ (Seqs(pending) \cup Seqs(ledger)) \cap removed = {}
    /\ Seqs(pending) \cup Seqs(ledger) \cup removed = 1..next

\* The count that is kept beside the rows, and that observers read instead of
\* them, is the number of rows (inbox.rs 422, 738, 1013).
CountIsRows == count = Cardinality(pending)

\* The ledger keeps the order of acceptance: a later batch never holds an
\* earlier number, and whatever still waits comes after everything adopted
\* (inbox.rs 356-374, 394-412).
LedgerInOrder ==
    /\ \A x, y \in ledger : x.seq < y.seq => x.batch <= y.batch
    /\ \A x \in ledger, r \in pending : x.seq < r.seq

\* A correlated sender is always told the same number, and its message is
\* neither edited away nor removed under it: a retry after a lost answer, a
\* crash or an adoption finds it (inbox.rs 639-703, 805-838, 983-989).
ReceiptsAreKept ==
    /\ \A x, y \in receipts : x[1] = y[1] => x[2] = y[2]
    /\ \A x \in receipts : x[2] \in Seqs(pending) \cup Seqs(ledger)

\* A terminal fact and the report it announces are one publication: neither
\* is in the store without the other, and a notice is never without its
\* report (inbox.rs 186-262, 264-354).
TerminalsAreWhole ==
    /\ \A t \in Terminals : t \in terminals <=> Known(Report(t))
    /\ \A t \in Terminals : Known(Notice(t)) => Known(Report(t))

\* The facts from which a restart infers what is owed an answer name exactly
\* the messages that their transaction adopted, though the selected batch may
\* have lost some of them since (inbox.rs 421-431).
FactsNameAdopted ==
    \A f \in adoptions : f.seqs # {} /\ f.seqs = {x.seq : x \in {y \in ledger : y.batch = f.batch}}

\* Only what was selected is adopted: the coordinator validated exactly these
\* identities and treats the rest as impossible (admission.rs 735-746,
\* "adopted identity was validated under exclusive ownership").
AdoptedWasSelected ==
    [][Seqs(ledger') \ Seqs(ledger) \subseteq selected.seqs]_vars

\* An edit is applied only over the text its author looked at: two clients
\* that edit the same message never overwrite each other unseen
\* (inbox.rs 957-979, 517-532).
NoLostUpdate ==
    [][\A r \in pending, q \in pending' :
          (r.seq = q.seq /\ r.body # q.body) =>
              \E c \in Clients : view[c].seq = r.seq /\ view[c].body = r.body]_vars

\* What the tables say of one another, together: ledger and rows are in order,
\* receipts, terminals and adoption facts name messages that are there, and
\* the stored count is the number of rows (inbox.rs 186-481, 617-789).
TablesAgree ==
    /\ CountIsRows
    /\ LedgerInOrder
    /\ ReceiptsAreKept
    /\ TerminalsAreWhole
    /\ FactsNameAdopted

\* Nobody acts on a snapshot that is no longer true: the adoption on the rows
\* that it selected, the edit on the text that its author read.
SnapshotsAreRechecked == AdoptedWasSelected /\ NoLostUpdate

\* The tables are a correct implementation of numbered delivery.
Delivery == INSTANCE InboundDelivery WITH
    last <- next,
    waiting <- Seqs(pending),
    delivered <- Seqs(ledger),
    withdrawn <- removed

\* Every behaviour of the store is a behaviour of the abstract inbox: a message
\* waits, and is then delivered in order or withdrawn, exactly once.
DeliversInOrder == Delivery!Spec
=============================================================================
