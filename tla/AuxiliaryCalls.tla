--------------------------- MODULE AuxiliaryCalls ----------------------------
(***************************************************************************)
(* Auxiliary model calls: the capacity they reserve                        *)
(* (src/src/runtime/auxiliary/capacity.rs) and the registry that owns them *)
(* until their thread is joined (src/src/runtime/auxiliary/executor.rs).   *)
(*                                                                         *)
(* A reservation takes up to five semaphore permits one after the other,   *)
(* never waiting, under a mutex of the process that also covers the        *)
(* rollback of a refused one.  A release gives the permits back one after  *)
(* the other without that mutex and announces itself last.  Whoever was    *)
(* refused waits for an announcement, having subscribed before it asked.   *)
(***************************************************************************)
EXTENDS Naturals, FiniteSets

CONSTANTS
    Conversations,
    Calls,                          \* calls, each asked for once
    Closing,                        \* calls whose consumer may close their scope
    Draining,                       \* conversations that may drain
    ProcessTotal, ProcessGeneral,   \* 32 and 24 in the code
    ConversationTotal, ConversationGeneral,   \* 4 and 3 in the code
    None

ASSUME CapacityAssumption ==
    /\ IsFiniteSet(Calls)
    /\ None \notin Calls
    /\ Closing \subseteq Calls
    /\ Draining \subseteq Conversations
    /\ {ProcessTotal, ProcessGeneral, ConversationTotal, ConversationGeneral} \subseteq Nat \ {0}
    /\ ProcessGeneral < ProcessTotal
    /\ ConversationGeneral < ConversationTotal

VARIABLES
    kind,      \* the conversation and the class of each call
    pc,        \* where each call stands
    held,      \* the fields of each call's CallPermit: its permits and the announcement
    mutex,     \* ProcessCapacity.reservation
    commit,    \* the commit boundary of each conversation's lifecycle
    running,   \* whether its lifecycle is Running
    closed,    \* RegistryState.closed
    calls,     \* RegistryState.calls
    children,  \* calls their scope still counts
    admitted,  \* calls that hold a lifecycle admission
    cancelled, \* calls whose scope is closed
    dirty,     \* subscribers for which ProcessCapacity.changed has a new value
    drain,     \* AuxiliaryExecutor::drain of each conversation
    scope      \* AuxiliaryScope::wait_closed of each call's consumer

control == <<running, closed, drain, scope>>
registry == <<calls, children, admitted>>
auxVars == <<kind, pc, held, mutex, commit, control, registry, cancelled, dirty>>

Domains == {"process_total", "process_general", "conversation_total", "conversation_general", "writer"}
GeneralOnly == {"process_general", "conversation_general"}
TakeOrder == <<"process_total", "process_general", "conversation_total", "conversation_general", "writer">>
Place(d) == CHOOSE n \in 1..5 : TakeOrder[n] = d

Limit(d) ==
    CASE d = "process_total" -> ProcessTotal
      [] d = "process_general" -> ProcessGeneral
      [] d = "conversation_total" -> ConversationTotal
      [] d = "conversation_general" -> ConversationGeneral
      [] d = "writer" -> ProcessTotal
Shared(d) == d \in {"process_total", "process_general", "writer"}

\* the calls whose permits come from the same semaphore as c's permit of d
Rivals(c, d) == {x \in Calls : Shared(d) \/ kind[x].conversation = kind[c].conversation}
Holders(c, d) == {x \in Rivals(c, d) : d \in held[x]}
Free(c, d) == Cardinality(Holders(c, d)) < Limit(d)

Needs(c) == IF kind[c].compaction THEN Domains \ GeneralOnly ELSE Domains
First(S) == CHOOSE d \in S : \A e \in S : Place(d) <= Place(e)
Last(S) == CHOOSE d \in S : \A e \in S : Place(e) <= Place(d)

PCs == {"idle", "asking", "locking", "taking", "rollback", "waiting", "lifecycle_busy", "registering",
        "unwinding", "reserved", "submitted", "exited", "releasing", "retiring", "unscoping", "done"}

AuxTypeOK ==
    /\ kind \in [Calls -> [conversation : Conversations, compaction : BOOLEAN]]
    /\ pc \in [Calls -> PCs]
    /\ held \in [Calls -> SUBSET (Domains \cup {"wake"})]
    /\ mutex \in Calls \cup {None}
    /\ commit \in [Conversations -> Calls \cup {None}]
    /\ running \in [Conversations -> BOOLEAN]
    /\ closed \in [Conversations -> BOOLEAN]
    /\ {calls, children, admitted, cancelled, dirty} \subseteq SUBSET Calls
    /\ drain \in [Conversations -> {"off", "waits", "returned"}]
    /\ scope \in [Calls -> {"open", "waits", "returned"}]

AuxInitial ==
    /\ kind \in [Calls -> [conversation : Conversations, compaction : BOOLEAN]]
    /\ pc = [c \in Calls |-> "idle"]
    /\ held = [c \in Calls |-> {}]
    /\ mutex = None
    /\ commit = [k \in Conversations |-> None]
    /\ running = [k \in Conversations |-> TRUE]
    /\ closed = [k \in Conversations |-> FALSE]
    /\ calls = {} /\ children = {} /\ admitted = {} /\ cancelled = {} /\ dirty = {}
    /\ drain = [k \in Conversations |-> "off"]
    /\ scope = [c \in Calls |-> "open"]

Home(c) == kind[c].conversation
Goto(c, where) == pc' = [pc EXCEPT ![c] = where]

-----------------------------------------------------------------------------
(* Admission: the consumer's loop and reserve_class.                        *)

\* The consumer subscribes to releases and only then asks.
Subscribe(c) ==
    /\ pc[c] = "idle"
    /\ Goto(c, "asking")
    /\ dirty' = dirty \ {c}
    /\ UNCHANGED <<kind, held, mutex, commit, control, registry, cancelled>>

\* The consumer's execution was cancelled.
GiveUp(c) ==
    /\ pc[c] \in {"asking", "waiting", "lifecycle_busy"}
    /\ c \in cancelled
    /\ Goto(c, "done")
    /\ UNCHANGED <<kind, held, mutex, commit, control, registry, cancelled, dirty>>

\* A consumer that waits also sees the registry close; a request for
\* compaction does not wait.
AdmissionClosed(c) ==
    /\ pc[c] \in {"waiting", "lifecycle_busy"}
    /\ closed[Home(c)]
    /\ Goto(c, "done")
    /\ UNCHANGED <<kind, held, mutex, commit, control, registry, cancelled, dirty>>

\* try_admit_running_commit: the admission is counted while the boundary is held.
EnterCommit(c) ==
    /\ pc[c] = "asking"
    /\ c \notin cancelled
    /\ commit[Home(c)] = None
    /\ running[Home(c)]
    /\ Goto(c, "locking")
    /\ commit' = [commit EXCEPT ![Home(c)] = c]
    /\ admitted' = admitted \cup {c}
    /\ UNCHANGED <<kind, held, mutex, control, calls, children, cancelled, dirty>>

RefusedClosed(c) ==
    /\ pc[c] = "asking"
    /\ commit[Home(c)] = None
    /\ ~running[Home(c)]
    /\ Goto(c, "done")
    /\ UNCHANGED <<kind, held, mutex, commit, control, registry, cancelled, dirty>>

\* The boundary is taken: a compaction is told so, an ordinary consumer waits for it.
RefusedLifecycleBusy(c) ==
    /\ pc[c] = "asking"
    /\ commit[Home(c)] # None
    /\ Goto(c, IF kind[c].compaction \/ c \in cancelled THEN "done" ELSE "lifecycle_busy")
    /\ UNCHANGED <<kind, held, mutex, commit, control, registry, cancelled, dirty>>

CommitAvailable(c) ==
    /\ pc[c] = "lifecycle_busy"
    /\ commit[Home(c)] = None
    /\ Goto(c, "asking")
    /\ UNCHANGED <<kind, held, mutex, commit, control, registry, cancelled, dirty>>

LockReservation(c) ==
    /\ pc[c] = "locking"
    /\ mutex = None
    /\ mutex' = c
    /\ Goto(c, "taking")
    /\ UNCHANGED <<kind, held, commit, control, registry, cancelled, dirty>>

Take(c) ==
    /\ pc[c] = "taking"
    /\ LET d == First(Needs(c) \ held[c])
       IN  /\ Free(c, d)
           /\ IF Needs(c) \ held[c] = {d}
              THEN /\ held' = [held EXCEPT ![c] = @ \cup {d, "wake"}]
                   /\ mutex' = None
                   /\ Goto(c, "registering")
              ELSE /\ held' = [held EXCEPT ![c] = @ \cup {d}]
                   /\ UNCHANGED <<mutex, pc>>
    /\ UNCHANGED <<kind, commit, control, registry, cancelled, dirty>>

\* the closure of try_admit_running_commit ends without a call
LeaveCommit(c) ==
    /\ commit' = [commit EXCEPT ![Home(c)] = None]
    /\ admitted' = admitted \ {c}
    /\ UNCHANGED <<calls, children>>

\* A bug: the guard is dropped before the permits the refused one already has.
Mut_GuardDroppedFirst(c) ==
    /\ pc[c] = "taking"
    /\ ~Free(c, First(Needs(c) \ held[c]))
    /\ mutex' = None
    /\ Goto(c, "rollback")
    /\ UNCHANGED <<kind, held, commit, control, registry, cancelled, dirty>>

Refuse(c) ==
    /\ pc[c] = "taking"
    /\ ~Free(c, First(Needs(c) \ held[c]))
    /\ Goto(c, "rollback")
    /\ UNCHANGED <<kind, held, mutex, commit, control, registry, cancelled, dirty>>

\* Permits go back in the reverse order; the guard after them, the answer last.
Rollback(c) ==
    /\ pc[c] = "rollback"
    /\ held[c] # {}
    /\ held' = [held EXCEPT ![c] = @ \ {Last(@)}]
    /\ UNCHANGED <<kind, pc, mutex, commit, control, registry, cancelled, dirty>>

RolledBack(c) ==
    /\ pc[c] = "rollback"
    /\ held[c] = {}
    /\ mutex' = IF mutex = c THEN None ELSE mutex
    /\ LeaveCommit(c)
    /\ Goto(c, IF kind[c].compaction \/ c \in cancelled THEN "done" ELSE "waiting")
    /\ UNCHANGED <<kind, held, control, cancelled, dirty>>

\* changed(): a release was announced since the last one this consumer saw.
CapacityChanged(c) ==
    /\ pc[c] = "waiting"
    /\ c \in dirty
    /\ dirty' = dirty \ {c}
    /\ Goto(c, "asking")
    /\ UNCHANGED <<kind, held, mutex, commit, control, registry, cancelled>>

\* A bug: only the registry is asked whether it is closed, not the scope.
Mut_ScopeNotAsked(c) ==
    /\ pc[c] = "registering"
    /\ IF closed[Home(c)]
       THEN Goto(c, "unwinding") /\ UNCHANGED <<commit, registry>>
       ELSE /\ Goto(c, "reserved")
            /\ commit' = [commit EXCEPT ![Home(c)] = None]
            /\ children' = children \cup {c}
            /\ calls' = calls \cup {c}
            /\ UNCHANGED admitted
    /\ UNCHANGED <<kind, held, mutex, control, cancelled, dirty>>

\* The call enters its scope and the registry, unless one of them is closed:
\* then its permits are released and the release is announced.
RegisterCall(c) ==
    /\ pc[c] = "registering"
    /\ IF c \in cancelled \/ closed[Home(c)]
       THEN Goto(c, "unwinding") /\ UNCHANGED <<commit, registry>>
       ELSE /\ Goto(c, "reserved")
            /\ commit' = [commit EXCEPT ![Home(c)] = None]
            /\ children' = children \cup {c}
            /\ calls' = calls \cup {c}
            /\ UNCHANGED admitted
    /\ UNCHANGED <<kind, held, mutex, control, cancelled, dirty>>

-----------------------------------------------------------------------------
(* A registered call.                                                       *)

\* The reservation is dropped before it was submitted, or submission finds
\* its scope cancelled.
Abandon(c) ==
    /\ pc[c] = "reserved"
    /\ Goto(c, "releasing")
    /\ UNCHANGED <<kind, held, mutex, commit, control, registry, cancelled, dirty>>

Submit(c) ==
    /\ pc[c] = "reserved"
    /\ c \notin cancelled
    /\ Goto(c, "submitted")
    /\ UNCHANGED <<kind, held, mutex, commit, control, registry, cancelled, dirty>>

\* The owner thread ends: the work is done, failed, panicked or was cancelled.
OwnerExits(c) ==
    /\ pc[c] = "submitted"
    /\ Goto(c, "exited")
    /\ UNCHANGED <<kind, held, mutex, commit, control, registry, cancelled, dirty>>

\* A bug: the record leaves the registry before its permit is dropped.
Mut_RetireFirst(c) ==
    /\ pc[c] = "exited"
    /\ Goto(c, "releasing")
    /\ calls' = calls \ {c}
    /\ UNCHANGED <<kind, held, mutex, commit, control, children, admitted, cancelled, dirty>>

\* reap: the thread is joined, then its permit is dropped.
Reap(c) ==
    /\ pc[c] = "exited"
    /\ Goto(c, "releasing")
    /\ UNCHANGED <<kind, held, mutex, commit, control, registry, cancelled, dirty>>

Subscribers == {c \in Calls : pc[c] # "idle"}

\* A bug: the announcement is declared first, and so dropped first.
Mut_WakeFirst(c) == IF "wake" \in held[c] THEN "wake" ELSE Last(held[c])

\* The fields of a CallPermit are dropped in the order they are declared: the
\* permits in the reverse of the order they were taken in, the announcement last.
NextField(c) == IF held[c] = {"wake"} THEN "wake" ELSE Last(held[c] \ {"wake"})

Release(c) ==
    /\ pc[c] \in {"releasing", "unwinding"}
    /\ held[c] # {}
    /\ held' = [held EXCEPT ![c] = @ \ {NextField(c)}]
    /\ dirty' = IF NextField(c) = "wake" THEN dirty \cup (Subscribers \ {c}) ELSE dirty
    /\ UNCHANGED <<kind, pc, mutex, commit, control, registry, cancelled>>

Unwound(c) ==
    /\ pc[c] = "unwinding"
    /\ held[c] = {}
    /\ LeaveCommit(c)
    /\ Goto(c, "done")
    /\ UNCHANGED <<kind, held, mutex, control, cancelled, dirty>>

DropAdmission(c) ==
    /\ pc[c] = "releasing"
    /\ held[c] = {}
    /\ admitted' = admitted \ {c}
    /\ Goto(c, "retiring")
    /\ UNCHANGED <<kind, held, mutex, commit, control, calls, children, cancelled, dirty>>

\* retire: first the registry, then the scope, each with its own notification.
RetireCall(c) ==
    /\ pc[c] = "retiring"
    /\ calls' = calls \ {c}
    /\ Goto(c, "unscoping")
    /\ UNCHANGED <<kind, held, mutex, commit, control, children, admitted, cancelled, dirty>>

RetireChild(c) ==
    /\ pc[c] = "unscoping"
    /\ children' = children \ {c}
    /\ Goto(c, "done")
    /\ UNCHANGED <<kind, held, mutex, commit, control, calls, admitted, cancelled, dirty>>

-----------------------------------------------------------------------------
(* Scopes and drain.                                                        *)

\* wait_closed: the consumer closes the scope of its call and waits for it.
CloseScope(c) ==
    /\ c \in Closing
    /\ scope[c] = "open"
    /\ pc[c] # "idle"
    /\ scope' = [scope EXCEPT ![c] = "waits"]
    /\ cancelled' = cancelled \cup {c}
    /\ UNCHANGED <<kind, pc, held, mutex, commit, running, closed, drain, registry, dirty>>

ScopeClosed(c) ==
    /\ scope[c] = "waits"
    /\ c \notin children
    /\ scope' = [scope EXCEPT ![c] = "returned"]
    /\ UNCHANGED <<kind, pc, held, mutex, commit, running, closed, drain, registry, cancelled, dirty>>

\* ConversationLifecycle::begin_drain waits for the commit boundary.
BeginConversationDrain(k) ==
    /\ k \in Draining
    /\ running[k]
    /\ commit[k] = None
    /\ running' = [running EXCEPT ![k] = FALSE]
    /\ UNCHANGED <<kind, pc, held, mutex, commit, closed, drain, scope, registry, cancelled, dirty>>

\* AuxiliaryExecutor::begin_drain: admission closes and every scope with it.
CloseRegistry(k) ==
    /\ ~running[k] /\ ~closed[k]
    /\ closed' = [closed EXCEPT ![k] = TRUE]
    /\ cancelled' = cancelled \cup {c \in calls : Home(c) = k}
    /\ drain' = [drain EXCEPT ![k] = "waits"]
    /\ UNCHANGED <<kind, pc, held, mutex, commit, running, scope, registry, dirty>>

Drained(k) ==
    /\ drain[k] = "waits"
    /\ \A c \in calls : Home(c) # k
    /\ drain' = [drain EXCEPT ![k] = "returned"]
    /\ UNCHANGED <<kind, pc, held, mutex, commit, running, closed, scope, registry, cancelled, dirty>>

-----------------------------------------------------------------------------
Admission(c) ==
    \/ Subscribe(c) \/ GiveUp(c) \/ AdmissionClosed(c) \/ EnterCommit(c) \/ RefusedClosed(c)
    \/ RefusedLifecycleBusy(c) \/ CommitAvailable(c) \/ LockReservation(c) \/ Take(c) \/ Refuse(c)
    \/ Rollback(c) \/ RolledBack(c) \/ CapacityChanged(c) \/ RegisterCall(c)
Life(c) ==
    \/ Abandon(c) \/ Submit(c) \/ OwnerExits(c) \/ Reap(c) \/ Release(c) \/ Unwound(c)
    \/ DropAdmission(c) \/ RetireCall(c) \/ RetireChild(c)
Settled ==
    /\ \A c \in Calls : pc[c] \in {"idle", "done"}
    /\ UNCHANGED auxVars

AuxNext ==
    \/ \E c \in Calls : Admission(c) \/ Life(c) \/ CloseScope(c) \/ ScopeClosed(c)
    \/ \E k \in Conversations : BeginConversationDrain(k) \/ CloseRegistry(k) \/ Drained(k)
    \/ Settled

AuxSpec == AuxInitial /\ [][AuxNext]_auxVars

\* A call that was asked for goes on by itself: its consumer's task, its owner's
\* thread and a worker of the reaper pool run, and an owner ends because every
\* physical request has a deadline.  Nobody has to ask, cancel or drain.
AuxFairSpec ==
    /\ AuxSpec
    /\ \A c \in Calls : WF_auxVars(pc[c] # "idle" /\ (Admission(c) \/ Life(c))) /\ WF_auxVars(ScopeClosed(c))
    /\ \A k \in Conversations : WF_auxVars(CloseRegistry(k) \/ Drained(k))

-----------------------------------------------------------------------------
\* the permit c asks for next is refused in this state
Refused(c, d) == pc[c] = "taking" /\ d = First(Needs(c) \ held[c]) /\ ~Free(c, d)

\* Nobody is told Busy because of a reservation that fails itself: whenever a
\* permit would be refused, every permit of that semaphore is in a call that
\* was granted all of its permits or is giving them back for good
\* (capacity.rs:150-152, "No contender can mistake rollback for Busy").
BusyIsReal ==
    \A c \in Calls, d \in Domains : Refused(c, d) =>
        \A x \in Holders(c, d) : pc[x] \notin {"taking", "rollback"}

\* What a drain or a closed scope has waited for is really over.  A drained
\* conversation has no call left that holds a permit or an admission, and none
\* comes back; a scope whose wait_closed has returned owns no call that was
\* registered, from its reservation until its thread is joined and its record
\* has left the registry, and a reservation that was still on its way when the
\* scope closed does not register any more (executor.rs:455-466, 499-510;
\* reap drops the permit and the admission before it retires the record).
ClosedIsOver ==
    /\ AuxTypeOK
    /\ \A k \in Conversations : drain[k] = "returned" =>
           \A c \in Calls : Home(c) = k => held[c] = {} /\ c \notin admitted
    /\ \A c \in Calls : scope[c] = "returned" =>
           /\ pc[c] \notin {"reserved", "submitted", "exited", "releasing", "retiring", "unscoping"}
           /\ c \notin calls

\* Nobody is forgotten: a consumer refused for want of capacity is admitted or
\* leaves, and a drain of the executor returns.
NobodyIsForgotten ==
    /\ \A c \in Calls : pc[c] = "waiting" ~> pc[c] \in {"reserved", "done"}
    /\ \A k \in Conversations : closed[k] ~> drain[k] = "returned"

\* Ordinary work does not borrow protected capacity: a compaction is refused a
\* slot of its conversation only when compactions have the protected ones
\* (capacity.rs:135; docs/invariants.md:324).
ProtectedCapacity ==
    \A c \in Calls : kind[c].compaction /\ Refused(c, "conversation_total") =>
        ConversationTotal - ConversationGeneral
            <= Cardinality({x \in Holders(c, "conversation_total") : kind[x].compaction})
=============================================================================
