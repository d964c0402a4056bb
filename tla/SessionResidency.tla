-------------------------- MODULE SessionResidency --------------------------
(***************************************************************************)
(* The registry of resident runtimes of one process                        *)
(* (local_runtime/session_runtime_manager.rs and its lifecycle.rs,         *)
(* drain.rs, sessions.rs, schedule.rs and client.rs).  A conversation has  *)
(* one slot: nothing, a finite storage operation, a load, a resident       *)
(* runtime, or a runtime that is being retired.  Every transition of a     *)
(* slot is owned by a flight: a task that works outside the registry lock  *)
(* and publishes one terminal result, for which any number of callers      *)
(* wait.  The incarnation that a flight composes shares the flight's       *)
(* initialization, so the model names a runtime by the flight that         *)
(* composed it.                                                            *)
(*                                                                         *)
(* One action is one critical section of the registry mutex together with  *)
(* the work of the same task up to its next await or lock.                 *)
(***************************************************************************)
EXTENDS Integers, FiniteSets

CONSTANTS
    Conversations,   \* conversations of all sessions
    Sessions,
    SessionOf,       \* the session of each conversation
    Unborn,          \* conversations whose session does not exist yet
    NoConversation,  \* the absence of a session's resident
    Callers,         \* requests and scheduler actions; each makes one call
    Operations,      \* the operations that each caller may choose
    MaxResident,     \* policy.max_resident_runtimes
    Reaps,           \* bound: how often the idle reaper finds a runtime idle
    Drains,          \* whether the process may begin to drain
    FlightCount      \* bound: flights there are names for

ASSUME ResidencyAssumption ==
    /\ IsFiniteSet(Conversations) /\ IsFiniteSet(Sessions) /\ IsFiniteSet(Callers)
    /\ SessionOf \in [Conversations -> Sessions]
    /\ Unborn \subseteq Conversations
    /\ NoConversation \notin Conversations
    /\ Callers \cap Conversations = {}
    /\ DOMAIN Operations = Callers
    /\ MaxResident \in Nat \ {0}
    /\ Reaps \in Nat
    /\ Drains \in BOOLEAN
    /\ FlightCount \in Nat \ {0}

VARIABLES
    entries,     \* conversation -> its slot
    bySession,   \* session -> the conversation that owns its residency
    failed,      \* conversation -> flight of a retained failed initialization
    pending,     \* reserved creations that are not published yet
    draining,    \* the process refuses new residency
    retiring,    \* sessions whose admission a deletion has fenced
    flights,     \* flight -> its task, its initialization and its runtime
    calls,       \* caller -> what it is doing
    exists,      \* conversations in the catalog
    deleted,     \* sessions whose deletion was committed
    drain,       \* how far the process drain came
    overwritten  \* history: conversations whose slot a retry took from its owner

vars == <<entries, bySession, failed, pending, draining, retiring, flights,
          calls, exists, deleted, drain, overwritten>>

Flights == 1..FlightCount
NoFlight == 0

(* The drain retires every conversation through an unload of its own.      *)
Agents == Callers \cup Conversations

Empty == [phase |-> "None", flight |-> NoFlight, runtime |-> NoFlight]
Loading(f) == [phase |-> "Loading", flight |-> f, runtime |-> NoFlight]
Loaded(r) == [phase |-> "Loaded", flight |-> NoFlight, runtime |-> r]
Unloading(r, f) == [phase |-> "Unloading", flight |-> f, runtime |-> r]
StorageOnly(f) == [phase |-> "StorageOnly", flight |-> f, runtime |-> NoFlight]

(* A flight: what it is for, where its task is, which runtime it retires   *)
(* first (old), and of its initialization and runtime: whether retirement  *)
(* was requested and is being carried to the native lifecycle, the native  *)
(* lifecycle, whether the composition is held, its admitted operations.    *)
Unused == [kind |-> "free", conv |-> NoConversation, pc |-> "none",
           old |-> NoFlight, req |-> "no", native |-> "none", comp |-> FALSE,
           ops |-> 0, submitted |-> FALSE, restart |-> FALSE,
           outcome |-> "none", result |-> "none"]

Flight(kind, c, pc, old, submitted) ==
    [Unused EXCEPT !.kind = kind, !.conv = c, !.pc = pc, !.old = old,
                   !.submitted = submitted]

(* Flights that initialize a runtime: Flight::prepares_runtime and target. *)
Prepares(f) == flights[f].kind \in {"load", "scheduled", "replace"}

IsRetiring(f) == flights[f].req # "no"

(* The next unused name.                                                   *)
Fresh(f) == /\ f \in Flights
            /\ flights[f].kind = "free"
            /\ \A g \in Flights : g < f => flights[g].kind # "free"

Idle == [op |-> "none", conv |-> NoConversation, at |-> "idle",
         flight |-> NoFlight, bound |-> NoFlight, claimed |-> FALSE,
         inherits |-> NoFlight, todo |-> {}]

FlightRecords ==
    [kind : {"free", "load", "scheduled", "replace", "unload", "reap", "storage"},
     conv : Conversations \cup {NoConversation},
     pc : {"none", "acquire", "compose", "fence", "activate", "settle", "report", "reaped",
           "ops", "shutdown", "transfer", "publishing", "open", "close", "announce", "done"},
     old : Flights \cup {NoFlight},
     req : {"no", "requested", "closing"},
     native : {"none", "inactive", "active", "draining", "quiescent"},
     comp : BOOLEAN, ops : Nat, submitted : BOOLEAN, restart : BOOLEAN,
     outcome : {"none", "absent", "cancelled", "failedAbsent", "unproven"},
     result : {"none", "resident", "absent", "cancelled", "failedAbsent", "unproven"}]

CallRecords ==
    [op : {"none", "load", "unload", "replace", "submit", "scheduled", "delete", "operate",
           "storage", "create", "retry"},
     conv : Conversations \cup {NoConversation},
     at : {"idle", "select", "wait", "cancel", "next", "creating", "admit", "operating",
           "retired", "accepted", "returned"},
     flight : Flights \cup {NoFlight}, bound : Flights \cup {NoFlight}, claimed : BOOLEAN,
     inherits : Flights \cup {NoFlight}, todo : SUBSET Conversations]

RegistryOK ==
    /\ entries \in [Conversations ->
                       {Empty}
                       \cup {Loading(f) : f \in Flights} \cup {StorageOnly(f) : f \in Flights}
                       \cup {Loaded(r) : r \in Flights}
                       \cup {Unloading(r, f) : r \in Flights, f \in Flights}]
    /\ bySession \in [Sessions -> Conversations \cup {NoConversation}]
    /\ failed \in [Conversations -> Flights \cup {NoFlight}]
    /\ pending \in Nat
    /\ draining \in BOOLEAN
    /\ retiring \subseteq Sessions /\ deleted \subseteq Sessions
    /\ exists \subseteq Conversations
    /\ flights \in [Flights -> FlightRecords]
    /\ calls \in [Agents -> CallRecords]
    /\ drain \in {"no", "begun", "first", "last", "over"}

TypeOK == RegistryOK /\ overwritten \subseteq Conversations

Init ==
    /\ entries = [c \in Conversations |-> Empty]
    /\ bySession = [s \in Sessions |-> NoConversation]
    /\ failed = [c \in Conversations |-> NoFlight]
    /\ pending = 0
    /\ draining = FALSE
    /\ retiring = {}
    /\ flights = [f \in Flights |-> Unused]
    /\ calls = [p \in Agents |-> Idle]
    /\ exists = Conversations \ Unborn
    /\ deleted = {}
    /\ drain = "no"
    /\ overwritten = {}

---------------------------------------------------------------------------
(* The registry's own operations.                                          *)

Fenced(c) ==
    \/ draining
    \/ /\ SessionOf[c] \in retiring
       /\ \/ entries[c].phase = "StorageOnly"
          \/ bySession[SessionOf[c]] = c

(* A wrong version: the drain of the process is not looked at.             *)
Mut_AdmitWhileDraining(c) ==
    /\ SessionOf[c] \notin retiring
    /\ bySession[SessionOf[c]] \in {NoConversation, c}

CheckSession(c) ==
    /\ ~draining
    /\ SessionOf[c] \notin retiring
    /\ bySession[SessionOf[c]] \in {NoConversation, c}

Residents == {s \in Sessions : bySession[s] # NoConversation}

(* A wrong version: a creation on its way holds no room.                   *)
Mut_CreationsHoldNoRoom == Cardinality(Residents) < MaxResident

CanReserve == Cardinality(Residents) + pending < MaxResident

SessionEntries(s) ==
    {c \in Conversations :
        \/ entries[c].phase = "StorageOnly" /\ SessionOf[c] = s
        \/ bySession[s] = c}

Put(c, entry) == entries' = [entries EXCEPT ![c] = entry]

(* RegistryState::remove.                                                  *)
Emptied(c) ==
    /\ Put(c, Empty)
    /\ bySession' = [s \in Sessions |->
                        IF bySession[s] = c THEN NoConversation ELSE bySession[s]]

Removed(c) == Emptied(c) /\ failed' = [failed EXCEPT ![c] = NoFlight]

(* Accepted submissions whose receipt no initialization owns yet; a new    *)
(* loading flight of their conversation binds and records them.            *)
Unbound(c) == {p \in Callers : /\ calls[p].op = "submit"
                               /\ calls[p].at \in {"select", "wait"}
                               /\ calls[p].conv = c
                               /\ calls[p].bound = NoFlight}

Bound(p, f) == calls[p].bound \in {NoFlight, f} /\ ~IsRetiring(f)

(* Flight f takes the slot of c with Loading, as initialize_loading and    *)
(* its callers do; the receipts of c are bound to it.                      *)
ClaimLoad(f, kind, c, submitted) ==
    /\ Put(c, Loading(f))
    /\ bySession' = [bySession EXCEPT ![SessionOf[c]] = c]
    /\ flights' = [flights EXCEPT ![f] =
                    Flight(kind, c, "acquire", NoFlight,
                           submitted \/ Unbound(c) # {})]

WithReceipts(f, c) ==
    [q \in Agents |->
        IF q \in Unbound(c) THEN [calls[q] EXCEPT !.bound = f] ELSE calls[q]]

(* Caller p enters the registry for op on c: a new call, or one whose loop *)
(* comes round.                                                            *)
Enters(p, op, c) ==
    \/ /\ p \in Callers /\ c \in exists /\ op \in Operations[p]
       /\ calls[p].at = "idle" /\ op \notin {"submit", "delete", "create"}
    \/ calls[p].at = "select" /\ calls[p].op = op /\ calls[p].conv = c

Entered(p, op, c) == [calls[p] EXCEPT !.op = op, !.conv = c]

Returns(p, op) == calls' = [calls EXCEPT ![p] = [Idle EXCEPT !.op = op, !.at = "returned"]]

Waits(p, op, c, f, claimed) ==
    calls' = [calls EXCEPT ![p] = [Entered(p, op, c) EXCEPT
                !.at = "wait", !.flight = f, !.claimed = claimed]]

---------------------------------------------------------------------------
(* Loads, replacements, scheduled activations and cold storage.            *)

Joining == {"load", "replace", "scheduled", "storage"}

(* The session check or the capacity refuses the call.                     *)
Refused(p, op, c) ==
    /\ op \in {"load", "replace", "scheduled", "storage", "submit", "retry"}
    /\ Enters(p, op, c)
    /\ \/ op = "storage" /\ (draining \/ SessionOf[c] \in retiring)
       \/ op # "storage" /\ ~CheckSession(c)
       \/ /\ op \in {"load", "replace", "scheduled", "submit"}
          /\ entries[c].phase = "None"
          /\ op = "load" => failed[c] = NoFlight
          /\ ~CanReserve
       \/ op = "retry" /\ failed[c] # NoFlight /\ ~CanReserve
    /\ Returns(p, op)
    /\ UNCHANGED <<entries, bySession, failed, pending, draining, retiring,
                   flights, exists, deleted, drain, overwritten>>

Admitted(op, c) ==
    IF op = "storage" THEN ~draining /\ SessionOf[c] \notin retiring
                      ELSE CheckSession(c)

(* The slot is in transition: wait for its flight.  A load also waits for  *)
(* the retained result of a failed initialization.                         *)
Join(p, op, c) ==
    /\ op \in Joining
    /\ Enters(p, op, c)
    /\ Admitted(op, c)
    /\ \/ /\ entries[c].phase \in {"StorageOnly", "Loading", "Unloading"}
          /\ Waits(p, op, c, entries[c].flight, FALSE)
       \/ /\ op = "load" /\ entries[c].phase = "None" /\ failed[c] # NoFlight
          /\ Waits(p, op, c, failed[c], FALSE)
    /\ UNCHANGED <<entries, bySession, failed, pending, draining, retiring,
                   flights, exists, deleted, drain, overwritten>>

(* A load carries the startup of the flight that it waited for.            *)
Inherited(p) == calls[p].inherits # NoFlight /\ flights[calls[p].inherits].submitted

(* The slot is empty: the caller's flight takes it.                        *)
Claim(p, op, c) ==
    /\ op \in {"load", "replace", "scheduled"}
    /\ Enters(p, op, c)
    /\ CheckSession(c)
    /\ entries[c].phase = "None"
    /\ op = "load" => failed[c] = NoFlight
    /\ CanReserve
    /\ \E f \in Flights :
        /\ Fresh(f)
        /\ ClaimLoad(f, IF op = "scheduled" THEN "scheduled" ELSE "load", c, Inherited(p))
        /\ calls' = [WithReceipts(f, c) EXCEPT ![p] =
                        [Entered(p, op, c) EXCEPT !.at = "wait", !.flight = f,
                            !.claimed = TRUE, !.inherits = NoFlight]]
    /\ failed' = IF op = "replace" THEN [failed EXCEPT ![c] = NoFlight] ELSE failed
    /\ UNCHANGED <<pending, draining, retiring, exists, deleted, drain,
                   overwritten>>

(* A load finds the runtime resident, a scheduled activation wakes it.     *)
FindLoaded(p, op, c) ==
    /\ op \in {"load", "scheduled"}
    /\ Enters(p, op, c)
    /\ CheckSession(c)
    /\ entries[c].phase = "Loaded"
    /\ Returns(p, op)
    /\ UNCHANGED <<entries, bySession, failed, pending, draining, retiring,
                   flights, exists, deleted, drain, overwritten>>

(* A replacement retires the resident and loads again in one flight.       *)
ReplaceLoaded(p, c) ==
    /\ Enters(p, "replace", c)
    /\ CheckSession(c)
    /\ entries[c].phase = "Loaded"
    /\ LET r == entries[c].runtime
       IN \E f \in Flights :
            /\ Fresh(f)
            /\ Put(c, Unloading(r, f))
            /\ flights' = [flights EXCEPT
                    ![f] = Flight("replace", c, "ops", r, Unbound(c) # {}),
                    ![r].req = IF @ = "no" THEN "requested" ELSE @]
            /\ calls' = [WithReceipts(f, c) EXCEPT ![p] =
                    [Entered(p, "replace", c) EXCEPT !.at = "wait", !.flight = f,
                                                     !.claimed = TRUE]]
    /\ UNCHANGED <<bySession, failed, pending, draining, retiring, exists,
                   deleted, drain, overwritten>>

(* A schedule command on an empty slot works on the store alone.           *)
ClaimStorage(p, c) ==
    /\ Enters(p, "storage", c)
    /\ Admitted("storage", c)
    /\ entries[c].phase = "None"
    /\ \E f \in Flights :
        /\ Fresh(f)
        /\ Put(c, StorageOnly(f))
        /\ flights' = [flights EXCEPT ![f] = Flight("storage", c, "open", NoFlight, FALSE)]
        /\ Waits(p, "storage", c, f, TRUE)
    /\ UNCHANGED <<bySession, failed, pending, draining, retiring, exists,
                   deleted, drain, overwritten>>

(* What a caller does with the result that it waited for.                  *)
Answered(p, op) ==
    /\ calls[p].at = "wait"
    /\ calls[p].op = op
    /\ flights[calls[p].flight].result # "none"

Loops(p, inherits) ==
    calls' = [calls EXCEPT ![p] = [@ EXCEPT !.at = "select", !.flight = NoFlight,
                                            !.inherits = inherits]]

LoadAnswered(p) ==
    /\ Answered(p, "load")
    /\ LET f == calls[p].flight
       IN IF flights[f].result = "absent" /\ ~IsRetiring(f)
          THEN Loops(p, IF calls[p].inherits = NoFlight THEN f ELSE calls[p].inherits)
          ELSE Returns(p, "load")
    /\ UNCHANGED <<entries, bySession, failed, pending, draining, retiring,
                   flights, exists, deleted, drain, overwritten>>

ReplaceAnswered(p) ==
    /\ Answered(p, "replace")
    /\ IF ~calls[p].claimed /\ flights[calls[p].flight].result \in {"absent", "resident"}
       THEN Loops(p, NoFlight)
       ELSE Returns(p, "replace")
    /\ UNCHANGED <<entries, bySession, failed, pending, draining, retiring,
                   flights, exists, deleted, drain, overwritten>>

ScheduledAnswered(p) ==
    /\ Answered(p, "scheduled")
    /\ Returns(p, "scheduled")
    /\ UNCHANGED <<entries, bySession, failed, pending, draining, retiring,
                   flights, exists, deleted, drain, overwritten>>

StorageAnswered(p) ==
    /\ Answered(p, "storage")
    /\ IF ~calls[p].claimed /\ flights[calls[p].flight].result \in {"absent", "resident"}
       THEN Loops(p, NoFlight)
       ELSE Returns(p, "storage")
    /\ UNCHANGED <<entries, bySession, failed, pending, draining, retiring,
                   flights, exists, deleted, drain, overwritten>>

---------------------------------------------------------------------------
(* Submissions: a receipt first, its registration later.                   *)

(* accept_submission_intent: the receipt is bound to the initialization    *)
(* that owns the conversation now, before anything is awaited.             *)
Accept(p, c) ==
    /\ p \in Callers /\ c \in exists /\ "submit" \in Operations[p]
    /\ calls[p].at = "idle"
    /\ LET e == entries[c]
           owner == CASE e.phase \in {"Loading", "Unloading"} /\ Prepares(e.flight) -> e.flight
                      [] e.phase = "Loaded" -> e.runtime
                      [] OTHER -> NoFlight
           refused == draining \/ SessionOf[c] \in retiring
           bound == IF owner # NoFlight /\ ~IsRetiring(owner) THEN owner ELSE NoFlight
       IN /\ calls' = [calls EXCEPT ![p] = [Idle EXCEPT
                !.op = "submit", !.conv = c, !.bound = bound,
                !.at = IF refused THEN "returned" ELSE "select"]]
          /\ flights' = [f \in Flights |->
                IF ~refused /\ f = owner /\ e.phase # "Loaded"
                THEN [flights[f] EXCEPT !.submitted = TRUE] ELSE flights[f]]
    /\ UNCHANGED <<entries, bySession, failed, pending, draining, retiring,
                   exists, deleted, drain, overwritten>>

(* The initialization that owned the receipt was retired.                  *)
Cancelled(p) == calls[p].bound # NoFlight /\ IsRetiring(calls[p].bound)

(* The registration is answered with LoadingCancelled.                     *)
SubmitCancelled(p, c) ==
    /\ Enters(p, "submit", c)
    /\ \/ Cancelled(p)
       \/ /\ CheckSession(c)
          /\ LET e == entries[c]
             IN CASE e.phase = "Loading" -> ~Bound(p, e.flight)
                  [] e.phase = "Loaded" -> ~Bound(p, e.runtime)
                  [] e.phase = "Unloading" -> Prepares(e.flight) /\ ~Bound(p, e.flight)
                  [] e.phase = "None" -> CanReserve /\ calls[p].bound # NoFlight
                  [] OTHER -> FALSE
    /\ Returns(p, "submit")
    /\ UNCHANGED <<entries, bySession, failed, pending, draining, retiring,
                   flights, exists, deleted, drain, overwritten>>

(* The submission is recorded on flight f and the caller is told so.       *)
Recorded(p, f) ==
    [calls[p] EXCEPT !.at = "accepted", !.flight = f, !.bound = NoFlight]

SubmitJoins(p, c) ==
    /\ Enters(p, "submit", c)
    /\ ~Cancelled(p)
    /\ CheckSession(c)
    /\ LET e == entries[c]
       IN \/ /\ e.phase = "Loading" /\ Bound(p, e.flight)
             /\ flights' = [flights EXCEPT ![e.flight].submitted = TRUE]
             /\ calls' = [calls EXCEPT ![p] = Recorded(p, e.flight)]
          \/ /\ e.phase = "Unloading"
             /\ Prepares(e.flight) => Bound(p, e.flight)
             /\ flights' = [flights EXCEPT ![e.flight].submitted = TRUE,
                                           ![e.flight].restart = TRUE]
             /\ calls' = [calls EXCEPT ![p] = Recorded(p, e.flight)]
          \/ /\ e.phase = "Loaded" /\ Bound(p, e.runtime)
             /\ Returns(p, "submit")
             /\ UNCHANGED flights
          \/ /\ e.phase = "StorageOnly"
             /\ Waits(p, "submit", c, e.flight, FALSE)
             /\ UNCHANGED flights
    /\ UNCHANGED <<entries, bySession, failed, pending, draining, retiring,
                   exists, deleted, drain, overwritten>>

SubmitClaims(p, c) ==
    /\ Enters(p, "submit", c)
    /\ ~Cancelled(p)
    /\ CheckSession(c)
    /\ entries[c].phase = "None"
    /\ CanReserve
    /\ calls[p].bound = NoFlight
    /\ \E f \in Flights :
        /\ Fresh(f)
        /\ ClaimLoad(f, "load", c, TRUE)
        /\ calls' = [WithReceipts(f, c) EXCEPT ![p] = Recorded(p, f)]
    /\ failed' = [failed EXCEPT ![c] = NoFlight]
    /\ UNCHANGED <<pending, draining, retiring, exists, deleted, drain,
                   overwritten>>

SubmitAnswered(p) ==
    /\ Answered(p, "submit")
    /\ IF flights[calls[p].flight].result = "absent" THEN Loops(p, NoFlight)
                                                     ELSE Returns(p, "submit")
    /\ UNCHANGED <<entries, bySession, failed, pending, draining, retiring,
                   flights, exists, deleted, drain, overwritten>>

(* retry_failed_initialization: explicit recovery of a retained failure.   *)
(* It asks whether a failure is retained, not who owns the slot now: a     *)
(* scheduled load or a storage operation that took the slot since is       *)
(* replaced in it.  The history variable remembers that this happened.     *)
Retry(p, c) ==
    /\ Enters(p, "retry", c)
    /\ CheckSession(c)
    /\ failed[c] # NoFlight => CanReserve
    /\ IF failed[c] = NoFlight
       THEN Returns(p, "retry") /\ UNCHANGED <<entries, bySession, failed, flights>>
       ELSE \E f \in Flights :
                /\ Fresh(f)
                /\ ClaimLoad(f, "load", c, TRUE)
                /\ failed' = [failed EXCEPT ![c] = NoFlight]
                /\ calls' = [WithReceipts(f, c) EXCEPT ![p] =
                                [Idle EXCEPT !.op = "retry", !.at = "returned"]]
    /\ overwritten' = IF failed[c] # NoFlight /\ entries[c].phase # "None"
                      THEN overwritten \cup {c} ELSE overwritten
    /\ UNCHANGED <<pending, draining, retiring, exists, deleted, drain>>

---------------------------------------------------------------------------
(* Retirement: unload, deletion, the idle reaper.                          *)

Retirements == {"unload", "delete"}

(* The writer of the current conversation is proved absent.                *)
ProvedAbsent(p, op, c, f) ==
    [Entered(p, op, c) EXCEPT !.at = IF op = "delete" THEN "next" ELSE "retired",
                              !.flight = f]

RetireAbsent(p, op, c) ==
    /\ op \in Retirements
    /\ Enters(p, op, c)
    /\ entries[c].phase = "None"
    /\ Removed(c)
    /\ calls' = [calls EXCEPT ![p] = ProvedAbsent(p, op, c, NoFlight)]
    /\ UNCHANGED <<pending, draining, retiring, flights, exists, deleted,
                   drain, overwritten>>

(* A transition owns the slot: join it; one that prepares a runtime is     *)
(* cancelled first, after the lock was left.                               *)
RetireJoins(p, op, c) ==
    /\ op \in Retirements
    /\ Enters(p, op, c)
    /\ entries[c].phase \in {"StorageOnly", "Loading", "Unloading"}
    /\ LET f == entries[c].flight
       IN calls' = [calls EXCEPT ![p] = [Entered(p, op, c) EXCEPT
                        !.at = IF Prepares(f) THEN "cancel" ELSE "wait", !.flight = f]]
    /\ UNCHANGED <<entries, bySession, failed, pending, draining, retiring,
                   flights, exists, deleted, drain, overwritten>>

CancelLoading(p) ==
    /\ calls[p].at = "cancel"
    /\ flights' = [flights EXCEPT ![calls[p].flight].req = "closing"]
    /\ calls' = [calls EXCEPT ![p].at = "wait"]
    /\ UNCHANGED <<entries, bySession, failed, pending, draining, retiring,
                   exists, deleted, drain, overwritten>>

RetireLoaded(p, op, c) ==
    /\ op \in Retirements
    /\ Enters(p, op, c)
    /\ entries[c].phase = "Loaded"
    /\ LET r == entries[c].runtime
       IN \E f \in Flights :
            /\ Fresh(f)
            /\ Put(c, Unloading(r, f))
            /\ flights' = [flights EXCEPT
                    ![f] = Flight("unload", c, "ops", r, FALSE),
                    ![r].req = IF @ = "no" THEN "requested" ELSE @]
            /\ Waits(p, op, c, f, TRUE)
    /\ UNCHANGED <<bySession, failed, pending, draining, retiring, exists,
                   deleted, drain, overwritten>>

(* A published runtime is not a retired one: the loop comes round.  An     *)
(* operation that failed may still prove that no writer is left, which is  *)
(* all that a deletion needs.                                              *)
RetireAnswered(p, op) ==
    /\ op \in Retirements
    /\ Answered(p, op)
    /\ LET f == calls[p].flight
           result == flights[f].result
       IN CASE result = "resident" -> Loops(p, NoFlight)
            [] \/ result \in {"absent", "cancelled"}
               \/ result = "failedAbsent" /\ op = "delete" ->
                    calls' = [calls EXCEPT ![p] = ProvedAbsent(p, op, calls[p].conv, f)]
            [] OTHER -> Returns(p, op)
    /\ UNCHANGED <<entries, bySession, failed, pending, draining, retiring,
                   flights, exists, deleted, drain, overwritten>>

(* delete_session closes the session's admission and takes stock.          *)
DeleteFence(p, c) ==
    /\ p \in Callers /\ c \in exists /\ "delete" \in Operations[p]
    /\ calls[p].at = "idle"
    /\ LET s == SessionOf[c]
       IN IF s \in retiring
          THEN Returns(p, "delete") /\ UNCHANGED <<retiring, failed>>
          ELSE /\ retiring' = retiring \cup {s}
               /\ failed' = [d \in Conversations |->
                                IF SessionOf[d] = s THEN NoFlight ELSE failed[d]]
               /\ calls' = [calls EXCEPT ![p] = [Idle EXCEPT !.op = "delete",
                    !.conv = c, !.at = "next", !.todo = SessionEntries(s)]]
    /\ UNCHANGED <<entries, bySession, pending, draining, flights, exists,
                   deleted, drain, overwritten>>

DeleteNext(p) ==
    /\ calls[p].at = "next"
    /\ \E c \in calls[p].todo :
        calls' = [calls EXCEPT ![p] = [@ EXCEPT !.conv = c, !.at = "select",
                        !.flight = NoFlight, !.todo = calls[p].todo \ {c}]]
    /\ UNCHANGED <<entries, bySession, failed, pending, draining, retiring,
                   flights, exists, deleted, drain, overwritten>>

(* Every writer is gone: the catalog commits the deletion, refuses it, or  *)
(* cannot tell, in which case admission stays closed.                      *)
DeleteCommit(p) ==
    /\ calls[p].at = "next"
    /\ calls[p].todo = {}
    /\ LET s == SessionOf[calls[p].conv]
       IN \/ deleted' = deleted \cup {s} /\ retiring' = retiring \ {s}
          \/ deleted' = deleted \cup {s} /\ UNCHANGED retiring
          \/ retiring' = retiring \ {s} /\ UNCHANGED deleted
    /\ Returns(p, "delete")
    /\ UNCHANGED <<entries, bySession, failed, pending, draining, flights,
                   exists, drain, overwritten>>

(* The reaper's claim closes the native lifecycle and takes the slot.      *)
Reap(c) ==
    /\ entries[c].phase = "Loaded"
    /\ LET r == entries[c].runtime
       IN /\ flights[r].ops = 0
          /\ flights[r].native = "active"
          /\ Cardinality({f \in Flights : flights[f].kind = "reap"}) < Reaps
          /\ \E f \in Flights :
                /\ Fresh(f)
                /\ Put(c, Unloading(r, f))
                /\ flights' = [flights EXCEPT ![r].native = "draining",
                                    ![f] = Flight("reap", c, "reaped", r, FALSE)]
    /\ UNCHANGED <<bySession, failed, pending, draining, retiring, calls,
                   exists, deleted, drain, overwritten>>

---------------------------------------------------------------------------
(* Creation of a submitted session, and operations of clients.             *)

CreateReserve(p, c) ==
    /\ p \in Callers /\ "create" \in Operations[p]
    /\ c \in Unborn \ exists
    /\ \A q \in Callers : calls[q].at = "creating" => calls[q].conv # c
    /\ calls[p].at = "idle"
    /\ IF draining \/ ~CanReserve
       THEN Returns(p, "create") /\ UNCHANGED pending
       ELSE /\ pending' = pending + 1
            /\ calls' = [calls EXCEPT ![p] = [Idle EXCEPT !.op = "create",
                            !.conv = c, !.at = "creating"]]
    /\ UNCHANGED <<entries, bySession, failed, draining, retiring, flights,
                   exists, deleted, drain, overwritten>>

(* The catalog publishes the session and, under the same lock, its load    *)
(* takes over the reserved room.                                           *)
CreatePublish(p) ==
    /\ calls[p].at = "creating"
    /\ LET c == calls[p].conv
       IN /\ pending' = pending - 1
          /\ exists' = exists \cup {c}
          /\ IF CheckSession(c)
             THEN \E f \in Flights : Fresh(f) /\ ClaimLoad(f, "load", c, TRUE)
             ELSE UNCHANGED <<entries, bySession, flights>>
    /\ Returns(p, "create")
    /\ UNCHANGED <<failed, draining, retiring, deleted, drain, overwritten>>

(* CreationReservation::drop.                                              *)
CreateFails(p) ==
    /\ calls[p].at = "creating"
    /\ pending' = pending - 1
    /\ Returns(p, "create")
    /\ UNCHANGED <<entries, bySession, failed, draining, retiring, flights,
                   exists, deleted, drain, overwritten>>

(* A client, or a schedule command that finds the runtime resident, has    *)
(* the identity of an incarnation, which may be stale when it is used.     *)
Identify(p, op, c) ==
    /\ op \in {"operate", "storage"}
    /\ Enters(p, op, c)
    /\ op = "storage" => Admitted(op, c)
    /\ entries[c].phase = "Loaded"
    /\ calls' = [calls EXCEPT ![p] = [Entered(p, op, c) EXCEPT
                    !.at = "admit", !.flight = entries[c].runtime]]
    /\ UNCHANGED <<entries, bySession, failed, pending, draining, retiring,
                   flights, exists, deleted, drain, overwritten>>

AdmitOperation(p) ==
    /\ calls[p].at = "admit"
    /\ LET c == calls[p].conv
           r == calls[p].flight
       IN IF entries[c] = Loaded(r) /\ ~Fenced(c)
          THEN /\ flights' = [flights EXCEPT ![r].ops = @ + 1]
               /\ calls' = [calls EXCEPT ![p].at = "operating"]
          ELSE /\ UNCHANGED flights
               /\ IF calls[p].op = "storage" THEN Loops(p, NoFlight)
                                             ELSE Returns(p, "operate")
    /\ UNCHANGED <<entries, bySession, failed, pending, draining, retiring,
                   exists, deleted, drain, overwritten>>

(* OperationLease::drop.                                                   *)
ReleaseOperation(p) ==
    /\ calls[p].at = "operating"
    /\ flights' = [flights EXCEPT ![calls[p].flight].ops = @ - 1]
    /\ Returns(p, calls[p].op)
    /\ UNCHANGED <<entries, bySession, failed, pending, draining, retiring,
                   exists, deleted, drain, overwritten>>

---------------------------------------------------------------------------
(* The drain of the process.                                               *)

(* begin_draining: new residency is refused, and every initialization that *)
(* a slot holds is asked to retire.                                        *)
BeginDraining ==
    /\ Drains
    /\ drain = "no"
    /\ draining' = TRUE
    /\ drain' = "begun"
    /\ LET held == UNION {{entries[c].flight, entries[c].runtime} :
                    c \in {d \in Conversations : entries[d].phase # "StorageOnly"}}
       IN flights' = [f \in Flights |->
            IF f \in held /\ flights[f].req = "no"
            THEN [flights[f] EXCEPT !.req = "requested"] ELSE flights[f]]
    /\ UNCHANGED <<entries, bySession, failed, pending, retiring, calls,
                   exists, deleted, overwritten>>

(* The host carries the requests to the native lifecycles, without locks,  *)
(* and starts the first pass over the slots.                               *)
Pass == [p \in Agents |->
            IF p \notin Conversations THEN calls[p]
            ELSE IF entries[p].phase = "None" THEN Idle
            ELSE [Idle EXCEPT !.op = "unload", !.conv = p, !.at = "select"]]

DrainFirstPass ==
    /\ drain = "begun"
    /\ drain' = "first"
    /\ flights' = [f \in Flights |->
            IF flights[f].req = "requested" THEN [flights[f] EXCEPT !.req = "closing"]
                                            ELSE flights[f]]
    /\ failed' = [c \in Conversations |-> NoFlight]
    /\ calls' = Pass
    /\ UNCHANGED <<entries, bySession, pending, draining, retiring, exists,
                   deleted, overwritten>>

Over(p) == calls[p].at \in {"idle", "returned", "retired", "accepted"}

(* Requests have settled; a last pass covers what they loaded meanwhile.   *)
DrainLastPass ==
    /\ drain = "first"
    /\ \A p \in Agents : Over(p)
    /\ drain' = "last"
    /\ failed' = [c \in Conversations |-> NoFlight]
    /\ calls' = Pass
    /\ UNCHANGED <<entries, bySession, pending, draining, retiring, flights,
                   exists, deleted, overwritten>>

DrainEnds ==
    /\ drain = "last"
    /\ \A c \in Conversations : Over(c)
    /\ drain' = "over"
    /\ UNCHANGED <<entries, bySession, failed, pending, draining, retiring,
                   flights, calls, exists, deleted, overwritten>>

---------------------------------------------------------------------------
(* The tasks of the flights.                                               *)

At(f, pc) == f \in Flights /\ flights[f].pc = pc

Ends(f, outcome) ==
    flights' = [flights EXCEPT ![f].pc = "publishing", ![f].outcome = outcome]

(* acquire_and_compose up to the session's allocation.  A scheduled load   *)
(* looks at its trigger instead, which may be gone.                        *)
Acquire(f) ==
    /\ At(f, "acquire")
    /\ LET gone == SessionOf[flights[f].conv] \in deleted
           scheduled == flights[f].kind = "scheduled"
       IN \/ /\ ~scheduled /\ (draining \/ IsRetiring(f))
             /\ Ends(f, "cancelled")
          \/ /\ scheduled \/ ~(draining \/ IsRetiring(f))
             /\ Ends(f, "failedAbsent")
          \/ /\ scheduled /\ ~gone
             /\ Ends(f, "absent")
          \/ /\ scheduled \/ ~(draining \/ IsRetiring(f))
             /\ ~gone
             /\ flights' = [flights EXCEPT ![f].pc = "compose",
                                           ![f].submitted = @ \/ scheduled]
    /\ UNCHANGED <<entries, bySession, failed, pending, draining, retiring,
                   calls, exists, deleted, drain, overwritten>>

(* The composition fails, is cancelled, or hands over an inert runtime     *)
(* whose native control is installed in the initialization.                *)
Compose(f) ==
    /\ At(f, "compose")
    /\ \/ Ends(f, "failedAbsent")
       \/ (draining \/ IsRetiring(f)) /\ Ends(f, "cancelled")
       \/ flights' = [flights EXCEPT ![f].pc = "fence", ![f].comp = TRUE,
                                     ![f].native = "inactive"]
    /\ UNCHANGED <<entries, bySession, failed, pending, draining, retiring,
                   calls, exists, deleted, drain, overwritten>>

CheckFence(f) ==
    /\ At(f, "fence")
    /\ flights' = [flights EXCEPT ![f].pc = "activate",
                        ![f].req = IF Fenced(flights[f].conv) THEN "closing" ELSE @]
    /\ UNCHANGED <<entries, bySession, failed, pending, draining, retiring,
                   calls, exists, deleted, drain, overwritten>>

(* The native lifecycle opens unless it was closed first.  A panic inside  *)
(* leaves a runtime that may be active: its slot is kept.                  *)
Activate(f) ==
    /\ At(f, "activate")
    /\ \/ /\ flights' = [flights EXCEPT ![f].pc = "settle",
                ![f].native = IF @ = "inactive" /\ ~IsRetiring(f) THEN "active" ELSE @]
          /\ UNCHANGED entries
       \/ /\ ~IsRetiring(f)
          /\ Put(flights[f].conv, Unloading(f, f))
          /\ flights' = [flights EXCEPT ![f].pc = "publishing", ![f].native = "active",
                                        ![f].old = f, ![f].outcome = "unproven"]
    /\ UNCHANGED <<bySession, failed, pending, draining, retiring, calls,
                   exists, deleted, drain, overwritten>>

(* Initialization::retire reaches the native lifecycle of what it retires. *)
CloseNative(f) ==
    /\ f \in Flights
    /\ flights[f].req = "closing"
    /\ flights[f].native \in {"inactive", "active"}
    /\ flights' = [flights EXCEPT ![f].native = "draining"]
    /\ UNCHANGED <<entries, bySession, failed, pending, draining, retiring,
                   calls, exists, deleted, drain, overwritten>>

(* A wrong version: a new flight retires what could not be published, and  *)
(* the flight that callers wait for is forgotten.                          *)
Mut_RetiredByAnother(f) ==
    /\ At(f, "settle")
    /\ LET c == flights[f].conv
       IN IF Fenced(c) \/ IsRetiring(f)
          THEN \E g \in Flights :
                /\ Fresh(g)
                /\ Put(c, Unloading(f, g))
                /\ flights' = [flights EXCEPT ![f].pc = "done",
                                    ![g] = Flight("unload", c, "ops", f, FALSE)]
          ELSE /\ Put(c, Loaded(f))
               /\ flights' = [flights EXCEPT ![f].pc = "report"]
    /\ UNCHANGED <<bySession, failed, pending, draining, retiring, calls,
                   exists, deleted, drain, overwritten>>

(* Under the registry and control locks: a runtime that lost to a fence or *)
(* to its own retirement is retired by the flight that loaded it, any      *)
(* other is published.                                                     *)
Settle(f) ==
    /\ At(f, "settle")
    /\ LET c == flights[f].conv
       IN IF Fenced(c) \/ IsRetiring(f)
          THEN /\ Put(c, Unloading(f, f))
               /\ flights' = [flights EXCEPT ![f].pc = "ops", ![f].old = f,
                                ![f].req = IF @ = "no" THEN "requested" ELSE @]
          ELSE /\ Put(c, Loaded(f))
               /\ flights' = [flights EXCEPT ![f].pc = "report"]
    /\ UNCHANGED <<bySession, failed, pending, draining, retiring, calls,
                   exists, deleted, drain, overwritten>>

Report(f) ==
    /\ At(f, "report")
    /\ flights' = [flights EXCEPT ![f].pc = "done", ![f].result = "resident"]
    /\ UNCHANGED <<entries, bySession, failed, pending, draining, retiring,
                   calls, exists, deleted, drain, overwritten>>

(* The reaper calls spawn_unload, and with it requests the retirement,     *)
(* after it has left the registry lock.                                    *)
RequestRetirement(f) ==
    /\ At(f, "reaped")
    /\ flights' = [flights EXCEPT ![f].pc = "ops",
                        ![flights[f].old].req = IF @ = "no" THEN "requested" ELSE @]
    /\ UNCHANGED <<entries, bySession, failed, pending, draining, retiring,
                   calls, exists, deleted, drain, overwritten>>

(* spawn_unload: admitted operations first, then the native lifecycle.     *)
SettleOperations(f) ==
    /\ At(f, "ops")
    /\ flights[flights[f].old].ops = 0
    /\ flights' = [[flights EXCEPT ![flights[f].old].req = "closing"]
                        EXCEPT ![f].pc = "shutdown"]
    /\ UNCHANGED <<entries, bySession, failed, pending, draining, retiring,
                   calls, exists, deleted, drain, overwritten>>

(* The shutdown and the projection drain prove that the writer is gone, in *)
(* which case the composition is given up, or they do not.  A shutdown may *)
(* fail and prove it all the same.  A replacement goes on to the transfer. *)
ShutDown(f) ==
    /\ At(f, "shutdown")
    /\ LET r == flights[f].old
           quiet == [flights EXCEPT ![r].native = "quiescent", ![r].comp = FALSE]
       IN \/ flights' = [quiet EXCEPT ![f].outcome = "absent",
                ![f].pc = IF flights[f].kind = "replace" /\ r # f
                          THEN "transfer" ELSE "publishing"]
          \/ flights' = [quiet EXCEPT ![f].pc = "publishing", ![f].outcome = "failedAbsent"]
          \/ Ends(f, "unproven")
    /\ UNCHANGED <<entries, bySession, failed, pending, draining, retiring,
                   calls, exists, deleted, drain, overwritten>>

Transfer(f) ==
    /\ At(f, "transfer")
    /\ IF draining
       THEN Ends(f, "cancelled") /\ UNCHANGED entries
       ELSE /\ Put(flights[f].conv, Loading(f))
            /\ flights' = [flights EXCEPT ![f].pc = "acquire"]
    /\ UNCHANGED <<bySession, failed, pending, draining, retiring, calls,
                   exists, deleted, drain, overwritten>>

(* A wrong version: any end of the transition frees the slot.              *)
Mut_AnyEndFreesTheSlot(f) == TRUE

(* WriterCertainty::Absent: no writer is left behind.                      *)
WriterAbsent(f) == flights[f].outcome # "unproven"

(* A wrong version: the restart does not look at the fence.                *)
Mut_RestartIgnoresFence(f) == flights[f].restart

(* A wrong version: the submission that arrived during the retirement is   *)
(* left to the next attachment.                                            *)
Mut_NoRestart(f) == FALSE

(* A submission arrived while the runtime was being retired.               *)
RestartWanted(f) == flights[f].restart /\ ~Fenced(flights[f].conv)

(* TerminalGuard::publish: the slot and the result in one critical section.*)
(* The slot is freed, is handed to the load that a submission asked for,   *)
(* or stays because the writer is not proved absent; a failed              *)
(* initialization with a submission leaves its receipt.                    *)
Publish(f) ==
    /\ At(f, "publishing")
    /\ LET c == flights[f].conv
           outcome == flights[f].outcome
           req == IF outcome = "absent" THEN flights[f].req ELSE "closing"
           ended == [flights EXCEPT ![f].pc = "done", ![f].result = outcome,
                                    ![f].restart = FALSE, ![f].req = req]
       IN \/ /\ ~WriterAbsent(f)
             /\ flights' = ended
             /\ UNCHANGED <<entries, bySession, failed, calls>>
          \/ /\ WriterAbsent(f) /\ RestartWanted(f)
             /\ \E g \in Flights :
                  /\ Fresh(g)
                  /\ Put(c, Loading(g))
                  /\ bySession' = [bySession EXCEPT ![SessionOf[c]] = c]
                  /\ flights' = [ended EXCEPT ![g] =
                        Flight("load", c, "acquire", NoFlight,
                               flights[f].submitted \/ Unbound(c) # {})]
                  /\ calls' = WithReceipts(g, c)
             /\ UNCHANGED failed
          \/ /\ WriterAbsent(f) /\ ~RestartWanted(f)
             /\ Emptied(c)
             /\ failed' = [failed EXCEPT ![c] =
                    IF outcome = "failedAbsent" /\ flights[f].submitted /\ ~Fenced(c)
                    THEN f ELSE NoFlight]
             /\ flights' = ended
             /\ UNCHANGED calls
    /\ UNCHANGED <<pending, draining, retiring, exists, deleted, drain,
                   overwritten>>

(* A storage flight opens the store, works and closes it.                  *)
StorageOpen(f) ==
    /\ At(f, "open")
    /\ \/ flights' = [flights EXCEPT ![f].pc = "close"]
       \/ /\ SessionOf[flights[f].conv] \notin deleted
          /\ flights' = [flights EXCEPT ![f].pc = "close", ![f].comp = TRUE]
    /\ UNCHANGED <<entries, bySession, failed, pending, draining, retiring,
                   calls, exists, deleted, drain, overwritten>>

(* StorageTerminal::finish: a store that was closed frees the slot.        *)
StorageClose(f) ==
    /\ At(f, "close")
    /\ \/ /\ flights' = [flights EXCEPT ![f].pc = "announce", ![f].comp = FALSE,
                                        ![f].outcome = "absent"]
          /\ Removed(flights[f].conv)
       \/ /\ flights[f].comp
          /\ flights' = [flights EXCEPT ![f].pc = "announce", ![f].outcome = "unproven"]
          /\ UNCHANGED <<entries, bySession, failed>>
    /\ UNCHANGED <<pending, draining, retiring, calls, exists, deleted, drain,
                   overwritten>>

StorageAnnounce(f) ==
    /\ At(f, "announce")
    /\ flights' = [flights EXCEPT ![f].pc = "done", ![f].result = flights[f].outcome]
    /\ UNCHANGED <<entries, bySession, failed, pending, draining, retiring,
                   calls, exists, deleted, drain, overwritten>>

---------------------------------------------------------------------------
Entering(p) ==
    \E c \in Conversations :
        \/ \E op \in {"load", "replace", "scheduled", "storage", "submit", "retry"} :
                Refused(p, op, c)
        \/ \E op \in Joining : Join(p, op, c)
        \/ \E op \in {"load", "replace", "scheduled"} : Claim(p, op, c)
        \/ \E op \in {"load", "scheduled"} : FindLoaded(p, op, c)
        \/ \E op \in {"operate", "storage"} : Identify(p, op, c)
        \/ \E op \in Retirements :
                \/ RetireAbsent(p, op, c)
                \/ RetireJoins(p, op, c)
                \/ RetireLoaded(p, op, c)
        \/ ReplaceLoaded(p, c) \/ ClaimStorage(p, c)
        \/ SubmitCancelled(p, c) \/ SubmitJoins(p, c) \/ SubmitClaims(p, c)
        \/ Retry(p, c)

Continuing(p) ==
    \/ LoadAnswered(p) \/ ReplaceAnswered(p) \/ ScheduledAnswered(p)
    \/ StorageAnswered(p) \/ SubmitAnswered(p)
    \/ \E op \in Retirements : RetireAnswered(p, op)
    \/ CancelLoading(p)
    \/ DeleteNext(p) \/ DeleteCommit(p)
    \/ CreatePublish(p) \/ CreateFails(p)
    \/ AdmitOperation(p) \/ ReleaseOperation(p)

Beginning(p) ==
    \E c \in Conversations : Accept(p, c) \/ DeleteFence(p, c) \/ CreateReserve(p, c)

Working(f) ==
    \/ Acquire(f) \/ Compose(f) \/ CheckFence(f) \/ Activate(f)
    \/ Settle(f) \/ Report(f)
    \/ RequestRetirement(f) \/ SettleOperations(f) \/ ShutDown(f) \/ Transfer(f) \/ Publish(f)
    \/ StorageOpen(f) \/ StorageClose(f) \/ StorageAnnounce(f)

Draining == DrainFirstPass \/ DrainLastPass \/ DrainEnds

Next ==
    \/ \E p \in Agents : Entering(p) \/ Continuing(p) \/ Beginning(p)
    \/ \E f \in Flights : Working(f) \/ CloseNative(f)
    \/ \E c \in Conversations : Reap(c)
    \/ BeginDraining \/ Draining

(* Tasks run, operations of clients end, and a call that was made goes on; *)
(* nobody has to make a call.                                              *)
Fairness ==
    /\ \A p \in Agents : /\ WF_vars(calls[p].at = "select" /\ Entering(p))
                          /\ WF_vars(Continuing(p))
    /\ \A f \in Flights : WF_vars(Working(f)) /\ WF_vars(CloseNative(f))
    /\ WF_vars(Draining)

Spec == Init /\ [][Next]_vars
FairSpec == Spec /\ Fairness

---------------------------------------------------------------------------
FlightsOf(c) == {f \in Flights : flights[f].conv = c}

(* docs/runtime-residency.md: one durable ConversationId has at most one   *)
(* writable live ConversationRuntime.                                      *)
OneRuntime ==
    \A c \in Conversations :
        Cardinality({f \in FlightsOf(c) : flights[f].native = "active"}) <= 1

(***************************************************************************)
(* A retry that met an owner left it without a slot, and the registry      *)
(* cannot see it any more: two runtimes may live, an unload and the drain  *)
(* pass it by.  What the registry promises, it promises until then; what   *)
(* callers are promised (below) holds even so.                             *)
(***************************************************************************)

(* One writable runtime per conversation (docs/runtime-residency.md): of   *)
(* all compositions and storage writers of a conversation at most one is   *)
(* held, its slot names it, and whoever is still composing owns the slot,  *)
(* whatever loads, replacements, retirements and submissions raced for it. *)
OneWriter ==
    \A c \in Conversations :
        /\ Cardinality({f \in FlightsOf(c) : flights[f].comp}) <= 1
        /\ \A f \in FlightsOf(c) :
            /\ flights[f].comp =>
                \/ entries[c].runtime = f
                \/ entries[c] \in {Loading(f), StorageOnly(f)}
            /\ flights[f].pc \in {"acquire", "compose", "fence", "activate", "settle"} =>
                entries[c] = Loading(f)

(* The session index and the capacity that is decided on it: a session     *)
(* owns residency exactly while one of its conversations has a runtime     *)
(* slot, through failures, restarts and replacements, and residents and    *)
(* reserved creations never exceed the policy, until a retry has replaced  *)
(* an owner.                                                               *)
SlotsAreCounted ==
    overwritten = {} =>
        /\ \A c \in Conversations :
            (bySession[SessionOf[c]] = c) <=>
                (entries[c].phase \in {"Loading", "Loaded", "Unloading"})
        /\ Cardinality(Residents) + pending <= MaxResident

(* Retirement is proved before anybody relies on it: when a deletion is    *)
(* about to destroy the session no writer of it is held or being composed, *)
(* an unload that reported success left neither the runtime it retired nor *)
(* the one it cancelled, and an admitted operation keeps its composition,  *)
(* until a retry has replaced an owner.                                    *)
RetirementIsProven ==
    overwritten = {} => \A p \in Agents :
        LET f == calls[p].flight
        IN /\ (calls[p].op = "delete" /\ calls[p].at = "next" /\ calls[p].todo = {}) =>
                \A g \in Flights :
                    (flights[g].kind # "free" /\
                     SessionOf[flights[g].conv] = SessionOf[calls[p].conv]) =>
                        ~flights[g].comp /\ flights[g].pc # "compose"
           /\ (calls[p].at = "retired" /\ f # NoFlight) =>
                /\ ~flights[f].comp
                /\ flights[f].old # NoFlight => ~flights[flights[f].old].comp
           /\ calls[p].at = "operating" => flights[f].comp

(* What is published is usable: a resident slot whose native lifecycle is  *)
(* closed, or whose retirement was requested, is one that the process      *)
(* drain found resident or that a retirement in progress is about to take. *)
LoadedIsUsable ==
    \A c \in Conversations :
        entries[c].phase = "Loaded" =>
            \/ /\ flights[entries[c].runtime].native = "active"
               /\ ~IsRetiring(entries[c].runtime)
            \/ draining
            \/ \E p \in Agents : /\ calls[p].op \in Retirements
                                 /\ calls[p].conv = c
                                 /\ calls[p].at \in {"wait", "select"}

(* The slots tell the truth: who holds a writer, and who may be used,      *)
(* until a retry has replaced an owner.                                    *)
SlotsAreTruthful == overwritten = {} => TypeOK /\ OneWriter /\ LoadedIsUsable

(* When the drain of the process is over every slot is empty, except for   *)
(* writers whose retirement could not be proved and was reported, and      *)
(* unless a retry has replaced an owner.                                   *)
DrainIsComplete ==
    (drain = "over" /\ overwritten = {}) =>
        \A c \in Conversations :
            entries[c].phase # "None" => flights[entries[c].flight].result = "unproven"

(* Every call returns, whatever flights it joined and whatever became of   *)
(* them, and a drain that began ends.                                      *)
EveryCallReturns ==
    /\ \A p \in Agents : calls[p].at # "idle" ~> Over(p)
    /\ drain = "begun" ~> drain = "over"

(* An accepted submission has a loading flight that ends after it: the one *)
(* it joined or claimed, or, when it arrived during a retirement, the one  *)
(* that follows the retirement.  Only a retirement that is not proved, a   *)
(* deletion or the drain excuse it.                                        *)
IntentIsServed ==
    \A p \in Callers, c \in Conversations :
        (calls[p].at = "accepted" /\ calls[p].conv = c) ~>
            \/ \E f \in FlightsOf(c) :
                    /\ f >= calls[p].flight
                    /\ \/ Prepares(f) /\ flights[f].result # "none"
                       \/ flights[f].result = "unproven"
            \/ \E q \in Callers : calls[q].op = "delete"
            \/ draining
=============================================================================
