------------------------ MODULE SessionResidencyProofs ------------------------
EXTENDS SessionResidency, FiniteSetTheorems, TLAPS

(***************************************************************************)
(* The inductive invariant.                                                *)
(***************************************************************************)

Composing == {"acquire", "compose", "fence", "activate", "settle"}
Retained == {"reaped", "ops", "shutdown", "transfer"}
Proven == {"absent", "cancelled", "failedAbsent"}
ComposingKinds == {"load", "scheduled", "replace"}

\* Flight f is the one that the slot of its conversation names, in this phase.
Holds(f, phase) == /\ entries[flights[f].conv].phase = phase
                   /\ entries[flights[f].conv].flight = f

\* What a slot says of the flight and of the runtime that it names.
SlotOK(c) ==
    LET e == entries[c] 
    IN /\ e.flight # NoFlight => flights[e.flight].conv = c
       /\ e.runtime # NoFlight => flights[e.runtime].conv = c /\ Prepares(e.runtime)
       /\ e.phase = "Loading" => flights[e.flight].pc \in Composing \cup {"publishing"}
       /\ e.phase = "StorageOnly" =>
            \/ flights[e.flight].pc \in {"open", "close"}
            \/ flights[e.flight].pc = "announce" /\ flights[e.flight].outcome = "unproven"
            \/ flights[e.flight].result = "unproven"
       /\ e.phase = "Loaded" =>
            /\ flights[e.runtime].pc \in {"report", "done"}
            /\ flights[e.runtime].result \in {"none", "resident"}
            /\ flights[e.runtime].comp
       /\ e.phase = "Unloading" =>
            /\ flights[e.flight].old = e.runtime
            /\ \/ flights[e.flight].pc \in Retained \cup {"publishing"}
               \/ flights[e.flight].result = "unproven"
            /\ e.runtime # e.flight => flights[e.runtime].pc \in {"report", "done"}

SlotInv == \A c \in Conversations : SlotOK(c)

FreeOK(f) ==
    /\ flights[f].kind = "free" => flights[f] = Unused
    /\ flights[f].kind # "free" => flights[f].conv \in Conversations /\ flights[f].pc # "none"

\* The runtime that a flight retires was published before.
OldOK(f) ==
    flights[f].old \notin {NoFlight, f} =>
        flights[flights[f].old].pc \in {"report", "done"} /\ Prepares(flights[f].old)

NothingOld(f) == flights[f].old # NoFlight => ~flights[flights[f].old].comp

LoadOK(f) ==
    /\ flights[f].pc \in Composing =>
        /\ Prepares(f) /\ Holds(f, "Loading")
        /\ flights[f].old # f /\ NothingOld(f)
        /\ flights[f].comp <=> flights[f].pc \in {"fence", "activate", "settle"}
    /\ flights[f].pc \in {"fence", "activate"} /\ flights[f].req = "no" =>
        flights[f].native = "inactive"
    /\ flights[f].pc = "settle" /\ flights[f].req = "no" => flights[f].native = "active"
    /\ flights[f].pc = "report" => Prepares(f)

RetireOK(f) ==
    /\ flights[f].pc \in Retained =>
        /\ Holds(f, "Unloading")
        /\ entries[flights[f].conv].runtime = flights[f].old
        /\ flights[f].old # f => ~flights[f].comp
    /\ flights[f].pc = "shutdown" => flights[flights[f].old].ops = 0
    /\ flights[f].pc = "transfer" =>
        flights[f].old # f /\ NothingOld(f) /\ flights[f].kind = "replace"

EndOK(f) ==
    /\ flights[f].pc = "publishing" =>
        /\ flights[f].outcome # "none"
        /\ Holds(f, "Loading") \/ Holds(f, "Unloading")
        /\ Holds(f, "Loading") => flights[f].outcome # "unproven"
        /\ flights[f].outcome # "unproven" => ~flights[f].comp /\ NothingOld(f)
    /\ flights[f].pc = "done" <=> flights[f].result # "none"
    /\ flights[f].result \in Proven => ~flights[f].comp /\ NothingOld(f)
    /\ flights[f].result = "unproven" => entries[flights[f].conv].flight = f

StorageOK(f) ==
    /\ flights[f].pc \in {"open", "close", "announce"} =>
        /\ flights[f].kind = "storage" /\ flights[f].old = NoFlight
        /\ flights[f].pc # "announce" => Holds(f, "StorageOnly")
    /\ flights[f].pc = "open" => ~flights[f].comp
    /\ flights[f].pc = "announce" =>
        /\ flights[f].outcome \in {"absent", "unproven"}
        /\ flights[f].outcome = "absent" => ~flights[f].comp
        /\ flights[f].outcome = "unproven" => Holds(f, "StorageOnly")

WriterOK(f) ==
    flights[f].comp =>
        /\ flights[f].kind \in ComposingKinds \cup {"storage"}
        /\ \/ entries[flights[f].conv].runtime = f
           \/ Holds(f, "Loading") \/ Holds(f, "StorageOnly")

FlightOK(f) == /\ FreeOK(f) /\ OldOK(f) /\ LoadOK(f) /\ RetireOK(f) /\ EndOK(f)
               /\ StorageOK(f) /\ WriterOK(f)

FlightInv == \A f \in Flights : FlightOK(f)

\* The session index, and every slot belongs to a conversation that exists.
Resident == {"Loading", "Loaded", "Unloading"}

IndexInv ==
    /\ \A c \in Conversations :
        (bySession[SessionOf[c]] = c) <=> (entries[c].phase \in Resident)
    /\ \A s \in Sessions : bySession[s] # NoConversation => SessionOf[bySession[s]] = s

ExistInv == \A c \in Conversations : entries[c].phase # "None" => c \in exists

\* Room is held by residents and by creations on their way.
Creators == {p \in Callers : calls[p].at = "creating"}

RoomInv ==
    /\ pending = Cardinality(Creators)
    /\ Cardinality(Residents) + pending <= MaxResident
    /\ \A p, q \in Creators : calls[p].conv = calls[q].conv => p = q

\* What a call at each of its steps knows of the flight it names.
CallOK(p) ==
    /\ p \in Conversations =>
        /\ calls[p].op \in {"none", "unload"}
        /\ calls[p].at \in {"idle", "select", "wait", "cancel", "retired", "returned"}
        /\ calls[p].at \in {"select", "wait", "cancel"} =>
                calls[p].op = "unload" /\ calls[p].conv = p
    /\ calls[p].at \in {"select", "wait", "cancel", "admit", "next"} => calls[p].conv \in exists
    /\ calls[p].at \in {"wait", "cancel", "admit"} => calls[p].flight # NoFlight
    /\ calls[p].at \in {"wait", "cancel"} /\ calls[p].op \in Retirements =>
            /\ flights[calls[p].flight].kind # "free"
            /\ flights[calls[p].flight].conv = calls[p].conv
    /\ calls[p].at = "cancel" => calls[p].op \in Retirements /\ Prepares(calls[p].flight)
    /\ calls[p].at = "next" => calls[p].op = "delete"
    /\ calls[p].at = "admit" => calls[p].op \in {"operate", "storage"}
    /\ calls[p].at = "creating" => calls[p].conv \in Conversations \ exists
    /\ calls[p].at = "retired" /\ calls[p].flight # NoFlight =>
            flights[calls[p].flight].result \in Proven
    /\ calls[p].at = "operating" =>
            /\ calls[p].flight # NoFlight
            /\ flights[calls[p].flight].comp /\ Prepares(calls[p].flight)

CallInv == \A p \in Agents : CallOK(p)

\* A runtime counts the operations that it admitted.
OpsOf(r) == {p \in Callers : calls[p].at = "operating" /\ calls[p].flight = r}

OpsInv == \A r \in Flights : flights[r].ops = Cardinality(OpsOf(r))

\* A deletion has fenced its session: what it has still to retire is all there is.
Deleting(p) == calls[p].op = "delete" /\ calls[p].at \in {"next", "select", "wait", "cancel"}

DeleteOK(p) ==
    Deleting(p) =>
        /\ SessionOf[calls[p].conv] \in retiring
        /\ calls[p].todo \subseteq exists
        /\ \A c \in calls[p].todo : SessionOf[c] = SessionOf[calls[p].conv]
        /\ \A c \in Conversations :
            SessionOf[c] = SessionOf[calls[p].conv] /\ entries[c].phase # "None" =>
                c \in calls[p].todo \/ (c = calls[p].conv /\ calls[p].at # "next")
        /\ calls[p].at \in {"wait", "cancel"} =>
            \/ entries[calls[p].conv].phase = "None"
            \/ entries[calls[p].conv].flight = calls[p].flight

DeleteInv ==
    /\ \A p \in Callers : DeleteOK(p)
    /\ \A p, q \in Callers :
        Deleting(p) /\ Deleting(q) /\ SessionOf[calls[p].conv] = SessionOf[calls[q].conv] => p = q

\* A retirement that is about to take the slot of c.
Claimer(p, c) == /\ calls[p].op \in Retirements
                 /\ calls[p].conv = c
                 /\ \/ calls[p].at = "select"
                    \/ calls[p].at = "wait" /\ calls[p].flight = entries[c].runtime

UsableInv ==
    \A c \in Conversations : entries[c].phase = "Loaded" =>
        \/ /\ flights[entries[c].runtime].native = "active"
           /\ flights[entries[c].runtime].req = "no"
        \/ draining
        \/ \E p \in Agents : Claimer(p, c)

\* The last pass of the drain leaves nothing behind that was not reported.
Reported(c) == \/ entries[c].phase = "None"
               \/ entries[c].flight # NoFlight /\ flights[entries[c].flight].result = "unproven"

DrainOK(c) ==
    /\ calls[c].at = "idle" => entries[c].phase = "None"
    /\ Over(c) => Reported(c)
    /\ calls[c].at \in {"wait", "cancel"} =>
         entries[c].phase = "None" \/ entries[c].flight = calls[c].flight

DrainInv ==
    /\ draining <=> drain # "no"
    /\ drain \in {"last", "over"} => \A c \in Conversations : DrainOK(c)
    /\ drain = "over" => \A c \in Conversations : Over(c)

ResidencyInv ==
    /\ RegistryOK /\ SlotInv /\ FlightInv /\ IndexInv /\ ExistInv /\ RoomInv /\ CallInv
    /\ OpsInv /\ DeleteInv /\ UsableInv /\ DrainInv

(* What steps have in common.                                              *)

SameCall(p) == /\ calls'[p].op = calls[p].op /\ calls'[p].at = calls[p].at
               /\ calls'[p].conv = calls[p].conv /\ calls'[p].flight = calls[p].flight
               /\ calls'[p].todo = calls[p].todo

\* A flight keeps its purpose and its result.
FlightsGrow ==
    \A g \in Flights :
        /\ flights[g].kind # "free" =>
            flights'[g].kind = flights[g].kind /\ flights'[g].conv = flights[g].conv
        /\ flights[g].result # "none" => flights'[g].result = flights[g].result

WritersKept == \A p \in Callers : calls[p].at = "operating" => flights'[calls[p].flight].comp

OpsKept == \A r \in Flights : flights'[r].ops = flights[r].ops

\* A slot stays, is freed, stays with its flight or is claimed while it may be.
SlotMoves ==
    \A c \in Conversations :
        \/ entries'[c] = entries[c]
        \/ entries'[c].phase = "None"
        \/ entries[c].flight # NoFlight /\ entries'[c].flight = entries[c].flight
        \/ entries[c].phase = "Loaded"
        \/ ~draining /\ SessionOf[c] \notin retiring

\* What the five forms of a slot have in their fields.
SlotShape(e) ==
    /\ e.phase \in {"None", "Loading", "StorageOnly", "Loaded", "Unloading"}
    /\ e.phase = "None" => e.flight = NoFlight /\ e.runtime = NoFlight
    /\ e.phase \in {"Loading", "StorageOnly"} => e.flight \in Flights /\ e.runtime = NoFlight
    /\ e.phase = "Loaded" => e.flight = NoFlight /\ e.runtime \in Flights
    /\ e.phase = "Unloading" => e.flight \in Flights /\ e.runtime \in Flights

Slots == {Empty} \cup {Loading(f) : f \in Flights} \cup {StorageOnly(f) : f \in Flights}
         \cup {Loaded(r) : r \in Flights} \cup {Unloading(r, f) : r \in Flights, f \in Flights}

USE ResidencyAssumption

-----------------------------------------------------------------------------
(* Slots and flights.                                                      *)

LEMMA FlightNames == NoFlight \notin Flights /\ IsFiniteSet(Flights)
<1>1. NoFlight \notin Flights
  BY DEF Flights, NoFlight
<1>2. IsFiniteSet(Flights)
  BY FS_Interval DEF Flights
<1> QED
  BY <1>1, <1>2

LEMMA SlotShapes ==
    ASSUME NEW e \in Slots
    PROVE  SlotShape(e)
BY FlightNames DEF Slots, SlotShape, Empty, Loading, StorageOnly, Loaded, Unloading, NoFlight

LEMMA EntryShapes ==
    ASSUME NEW es \in [Conversations -> Slots]
    PROVE  \A c \in Conversations : SlotShape(es[c])
BY SlotShapes

\* Fields of a flight may be assigned one by one.
LEMMA EditPc ==
    ASSUME NEW x \in FlightRecords,
           NEW v \in {"none", "acquire", "compose", "fence", "activate", "settle", "report",
                      "reaped", "ops", "shutdown", "transfer", "publishing", "open", "close",
                      "announce", "done"}
    PROVE  [x EXCEPT !.pc = v] \in FlightRecords
BY DEF FlightRecords

LEMMA EditOld ==
    ASSUME NEW x \in FlightRecords,
           NEW v \in Flights \cup {NoFlight}
    PROVE  [x EXCEPT !.old = v] \in FlightRecords
BY DEF FlightRecords

LEMMA EditReq ==
    ASSUME NEW x \in FlightRecords,
           NEW v \in {"no", "requested", "closing"}
    PROVE  [x EXCEPT !.req = v] \in FlightRecords
BY DEF FlightRecords

LEMMA EditNative ==
    ASSUME NEW x \in FlightRecords,
           NEW v \in {"none", "inactive", "active", "draining", "quiescent"}
    PROVE  [x EXCEPT !.native = v] \in FlightRecords
BY DEF FlightRecords

LEMMA EditComp ==
    ASSUME NEW x \in FlightRecords,
           NEW v \in BOOLEAN
    PROVE  [x EXCEPT !.comp = v] \in FlightRecords
BY DEF FlightRecords

LEMMA EditOps ==
    ASSUME NEW x \in FlightRecords,
           NEW v \in Nat
    PROVE  [x EXCEPT !.ops = v] \in FlightRecords
BY DEF FlightRecords

LEMMA EditSubmitted ==
    ASSUME NEW x \in FlightRecords,
           NEW v \in BOOLEAN
    PROVE  [x EXCEPT !.submitted = v] \in FlightRecords
BY DEF FlightRecords

LEMMA EditRestart ==
    ASSUME NEW x \in FlightRecords,
           NEW v \in BOOLEAN
    PROVE  [x EXCEPT !.restart = v] \in FlightRecords
BY DEF FlightRecords

LEMMA EditOutcome ==
    ASSUME NEW x \in FlightRecords,
           NEW v \in {"none", "absent", "cancelled", "failedAbsent", "unproven"}
    PROVE  [x EXCEPT !.outcome = v] \in FlightRecords
BY DEF FlightRecords

LEMMA EditResult ==
    ASSUME NEW x \in FlightRecords,
           NEW v \in {"none", "resident", "absent", "cancelled", "failedAbsent", "unproven"}
    PROVE  [x EXCEPT !.result = v] \in FlightRecords
BY DEF FlightRecords

\* And so may those of a call.
LEMMA CallOp ==
    ASSUME NEW x \in CallRecords,
           NEW v \in {"none", "load", "unload", "replace", "submit", "scheduled", "delete",
                      "operate", "storage", "create", "retry"}
    PROVE  [x EXCEPT !.op = v] \in CallRecords
BY DEF CallRecords

LEMMA CallConv ==
    ASSUME NEW x \in CallRecords,
           NEW v \in Conversations \cup {NoConversation}
    PROVE  [x EXCEPT !.conv = v] \in CallRecords
BY DEF CallRecords

LEMMA CallAt ==
    ASSUME NEW x \in CallRecords,
           NEW v \in {"idle", "select", "wait", "cancel", "next", "creating", "admit",
                      "operating", "retired", "accepted", "returned"}
    PROVE  [x EXCEPT !.at = v] \in CallRecords
BY DEF CallRecords

LEMMA CallFlight ==
    ASSUME NEW x \in CallRecords,
           NEW v \in Flights \cup {NoFlight}
    PROVE  [x EXCEPT !.flight = v] \in CallRecords
BY DEF CallRecords

LEMMA CallBound ==
    ASSUME NEW x \in CallRecords,
           NEW v \in Flights \cup {NoFlight}
    PROVE  [x EXCEPT !.bound = v] \in CallRecords
BY DEF CallRecords

LEMMA CallClaimed ==
    ASSUME NEW x \in CallRecords,
           NEW v \in BOOLEAN
    PROVE  [x EXCEPT !.claimed = v] \in CallRecords
BY DEF CallRecords

LEMMA CallInherits ==
    ASSUME NEW x \in CallRecords,
           NEW v \in Flights \cup {NoFlight}
    PROVE  [x EXCEPT !.inherits = v] \in CallRecords
BY DEF CallRecords

LEMMA CallTodo ==
    ASSUME NEW x \in CallRecords,
           NEW v \in SUBSET Conversations
    PROVE  [x EXCEPT !.todo = v] \in CallRecords
BY DEF CallRecords

LEMMA IdleTyped == Idle \in CallRecords
BY DEF Idle, CallRecords

\* A step that touches one slot and the flights S of its conversation.
LEMMA CoreStep ==
    ASSUME RegistryOK, RegistryOK', SlotInv, FlightInv,
           NEW c \in Conversations, NEW S \in SUBSET Flights,
           \A g \in Flights \ S : flights'[g] = flights[g],
           \A g \in S : flights[g].kind = "free" \/ flights[g].conv = c,
           \A d \in Conversations \ {c} : entries'[d] = entries[d],
           \/ entries'[c] = entries[c]
           \/ /\ {entries[c].flight, entries[c].runtime} \subseteq S \cup {NoFlight}
              /\ {entries'[c].flight, entries'[c].runtime} \subseteq S \cup {NoFlight},
           \A g \in S : flights[g].pc \in {"report", "done"} =>
                /\ flights'[g].pc \in {"report", "done"}
                /\ flights'[g].kind = flights[g].kind
                /\ flights'[g].comp => flights[g].comp,
           \A g \in S : \/ flights[g].ops = 0 => flights'[g].ops = 0
                        \/ entries[c].phase = "Loaded",
           SlotOK(c)',
           \A g \in S : FlightOK(g)'
    PROVE  SlotInv' /\ FlightInv'
<1>1. \A d \in Conversations : SlotShape(entries[d]) /\ SlotShape(entries'[d])
  BY SMTT(30), EntryShapes DEF RegistryOK, Slots
<1>2. \A d \in Conversations : SlotOK(d)
  BY DEF SlotInv
<1>3. \A g \in Flights : FlightOK(g)
  BY DEF FlightInv
<1>4. \A g \in Flights : flights[g].kind # "free" => flights[g].conv \in Conversations
  BY <1>3 DEF FlightOK, FreeOK
<1>5. ASSUME NEW d \in Conversations, d # c
      PROVE  SlotOK(d)'
  <2>1. entries'[d] = entries[d]
    BY <1>5
  <2>2. \A g \in Flights : flights[g].conv = d => flights'[g] = flights[g]
    <3>1. \A g \in S : flights[g].kind = "free" => flights[g].conv = NoConversation
      BY <1>3 DEF FlightOK, FreeOK, Unused
    <3> QED
      BY <1>5, <3>1
  <2> QED
    BY <1>1, <1>2, <2>1, <2>2, FlightNames DEF SlotOK, SlotShape, Prepares
<1>6. ASSUME NEW g \in Flights \ S
      PROVE  FlightOK(g)'
  <2>1. flights'[g] = flights[g] /\ FlightOK(g)
    BY <1>3
  <2>2. CASE flights[g].kind = "free"
    BY <2>1, <2>2, FlightNames DEF FlightOK, FreeOK, OldOK, LoadOK, RetireOK, EndOK, StorageOK, WriterOK,
       Unused, Composing, Retained, Proven
  <2>3. CASE flights[g].kind # "free"
    <3> DEFINE d == flights[g].conv
               o == flights[g].old
    <3>1. d \in Conversations /\ o \in Flights \cup {NoFlight}
      BY <1>4, <2>3 DEF RegistryOK, FlightRecords
    <3>2. \/ entries'[d] = entries[d]
          \/ /\ entries[d].flight # g /\ entries[d].runtime # g
             /\ entries'[d].flight # g /\ entries'[d].runtime # g
      BY <1>6, <3>1, FlightNames
    <3>3. o \notin {NoFlight, g} =>
              /\ flights'[o].pc \in {"report", "done"} /\ flights[o].kind = flights'[o].kind
              /\ flights'[o].comp => flights[o].comp
      BY <2>1, <3>1 DEF FlightOK, OldOK
    <3>4. flights[g].pc = "shutdown" => flights'[o].ops = 0
      <4> SUFFICES ASSUME flights[g].pc = "shutdown" PROVE flights'[o].ops = 0
        OBVIOUS
      <4>1. /\ entries[d].flight = g /\ entries[d].phase = "Unloading" /\ entries[d].runtime = o
            /\ flights[o].ops = 0
        BY <2>1 DEF FlightOK, RetireOK, Retained, Holds
      <4>2. o \in Flights /\ flights[o].conv = d /\ flights[o].kind # "free"
        BY <1>1, <1>2, <3>1, <4>1, FlightNames DEF SlotShape, SlotOK, Prepares
      <4> QED
        BY <3>1, <4>1, <4>2
    <3> HIDE DEF d, o
    <3>5. FreeOK(g)' /\ OldOK(g)'
      BY <2>1, <2>3, <3>1, <3>3 DEF FlightOK, FreeOK, OldOK, Prepares, d, o
    <3>6. NothingOld(g) => NothingOld(g)'
      BY <2>1, <3>1, <3>3 DEF NothingOld, o
    <3>7. LoadOK(g)'
      BY <2>1, <3>2, <3>6 DEF FlightOK, LoadOK, Holds, Prepares, d
    <3>8. RetireOK(g)'
      BY <2>1, <3>2, <3>4, <3>6 DEF FlightOK, RetireOK, Holds, d, o
    <3>9. EndOK(g)' /\ StorageOK(g)'
      BY <2>1, <3>2, <3>6 DEF FlightOK, EndOK, StorageOK, Holds, d
    <3>10. WriterOK(g)'
      BY <2>1, <3>2 DEF FlightOK, WriterOK, Holds, d
    <3> QED
      BY <3>5, <3>7, <3>8, <3>9, <3>10 DEF FlightOK
  <2> QED
    BY <2>2, <2>3
<1> QED
  BY <1>5, <1>6 DEF SlotInv, FlightInv


-----------------------------------------------------------------------------
(* Calls that a step leaves alone.                                         *)

LEMMA OtherCall ==
    ASSUME RegistryOK, NEW p \in Agents, CallOK(p), SameCall(p), FlightsGrow, WritersKept,
           exists \subseteq exists', calls[p].at = "creating" => calls[p].conv \notin exists'
    PROVE  CallOK(p)'
<1>1. calls[p].flight \in Flights \cup {NoFlight}
  BY DEF RegistryOK, CallRecords
<1>2. calls[p].at = "operating" => p \in Callers
  BY DEF CallOK, Agents
<1> QED
  BY <1>1, <1>2 DEF CallOK, SameCall, FlightsGrow, WritersKept, Prepares, Proven

LEMMA OtherDelete ==
    ASSUME RegistryOK, RegistryOK', NEW p \in Callers, CallOK(p), DeleteOK(p), SameCall(p), SlotMoves,
           exists \subseteq exists',
           Deleting(p) => SessionOf[calls[p].conv] \in retiring'
    PROVE  DeleteOK(p)'
<1> SUFFICES ASSUME Deleting(p)' PROVE DeleteOK(p)'
  BY DEF DeleteOK
<1>1. Deleting(p) /\ calls[p].conv \in Conversations
  BY DEF Deleting, SameCall, CallOK, RegistryOK
<1>2. \A c \in Conversations : SlotShape(entries[c]) /\ SlotShape(entries'[c])
  BY EntryShapes DEF RegistryOK, Slots
<1>3. \A c \in Conversations : SessionOf[c] = SessionOf[calls[p].conv] =>
          /\ entries[c].phase = "None" => entries'[c].phase = "None"
          /\ entries[c].flight # NoFlight =>
                entries'[c].phase = "None" \/ entries'[c].flight = entries[c].flight
  BY <1>1, <1>2 DEF SlotMoves, DeleteOK, SlotShape
<1>4. calls[p].at \in {"wait", "cancel"} => calls[p].flight # NoFlight
  BY DEF CallOK
<1> QED
  BY <1>1, <1>3, <1>4 DEF DeleteOK, Deleting, SameCall

LEMMA OtherDrain ==
    ASSUME RegistryOK, RegistryOK', NEW c \in Conversations, CallOK(c), DrainOK(c), SameCall(c),
           SlotMoves, FlightsGrow, draining
    PROVE  DrainOK(c)'
<1>1. SlotShape(entries[c]) /\ SlotShape(entries'[c])
  BY SMTT(30), EntryShapes DEF RegistryOK, Slots
<1>2. /\ entries[c].phase = "None" => entries'[c].phase = "None"
      /\ entries[c].flight # NoFlight =>
            entries'[c].phase = "None" \/ entries'[c].flight = entries[c].flight
  BY <1>1 DEF SlotMoves, SlotShape
<1>3. calls[c].at \in {"wait", "cancel"} => calls[c].flight # NoFlight
  BY DEF CallOK
<1>4. Reported(c) => Reported(c)'
  <2>1. entries[c].flight # NoFlight => entries[c].flight \in Flights
    BY <1>1 DEF SlotShape
  <2> QED
    BY <1>2, <2>1 DEF Reported, FlightsGrow
<1> QED
  BY <1>2, <1>3, <1>4 DEF DrainOK, SameCall, Over

\* The calls P move; neither creations nor operations begin or end.
LEMMA CallsStep ==
    ASSUME ResidencyInv, RegistryOK', NEW P \in SUBSET Agents,
           \A q \in Agents \ P : SameCall(q),
           FlightsGrow, SlotMoves, WritersKept, OpsKept,
           exists' = exists, pending' = pending, retiring' = retiring,
           drain' = drain, draining' = draining,
           \A p \in P :
             /\ CallOK(p)'
             /\ {calls[p].at, calls'[p].at} \cap {"creating", "operating"} = {}
             /\ Deleting(p)' => Deleting(p) /\ SessionOf[calls'[p].conv] = SessionOf[calls[p].conv]
             /\ p \in Callers => DeleteOK(p)'
             /\ p \in Conversations /\ drain \in {"last", "over"} => DrainOK(p)' /\ (Over(p) => Over(p)')
    PROVE  CallInv' /\ OpsInv' /\ DeleteInv' /\ DrainInv' /\ Creators' = Creators
           /\ \A p \in Creators : calls'[p].conv = calls[p].conv
<1>1. CallInv'
  BY OtherCall DEF CallInv, ResidencyInv, CallOK
<1>2. Creators' = Creators /\ \A p \in Creators : calls'[p].conv = calls[p].conv
  BY ZenonT(60) DEF Creators, SameCall, Agents
<1>3. OpsInv'
  <2>1. \A r \in Flights : OpsOf(r)' = OpsOf(r)
    BY ZenonT(60) DEF OpsOf, SameCall, Agents
  <2> QED
    BY <2>1 DEF OpsInv, OpsKept, ResidencyInv
<1>4. DeleteInv'
  <2>1. \A p \in Callers : DeleteOK(p)'
    <3> SUFFICES ASSUME NEW p \in Callers, p \notin P PROVE DeleteOK(p)'
      BY DEF Agents
    <3>1. SameCall(p) /\ CallOK(p) /\ DeleteOK(p) /\ RegistryOK
      BY DEF ResidencyInv, CallInv, DeleteInv, Agents
    <3> QED
      BY <3>1, OtherDelete DEF DeleteOK
  <2>2. \A p \in Callers : Deleting(p)' =>
            Deleting(p) /\ SessionOf[calls'[p].conv] = SessionOf[calls[p].conv]
    BY DEF Deleting, SameCall, Agents
  <2> QED
    BY <2>1, <2>2 DEF DeleteInv, ResidencyInv
<1>5. DrainInv'
  <2>1. DrainInv /\ RegistryOK /\ (drain \in {"last", "over"} => draining)
    BY DEF ResidencyInv, DrainInv
  <2>2. ASSUME drain \in {"last", "over"}, NEW c \in Conversations PROVE DrainOK(c)'
    <3>1. CASE c \in P
      BY <2>2, <3>1
    <3>2. CASE c \notin P
      <4>1. SameCall(c) /\ CallOK(c) /\ DrainOK(c)
        BY <2>1, <2>2, <3>2 DEF ResidencyInv, CallInv, DrainInv, Agents
      <4> QED
        BY <2>1, <2>2, <4>1, OtherDrain
    <3> QED
      BY <3>1, <3>2
  <2>3. ASSUME drain = "over", NEW c \in Conversations PROVE Over(c)'
    BY <2>1, <2>3 DEF DrainInv, Over, SameCall, Agents
  <2> QED
    BY <2>1, <2>2, <2>3 DEF DrainInv
<1> QED
  BY <1>1, <1>2, <1>3, <1>4, <1>5

LEMMA UsableStep ==
    ASSUME RegistryOK, UsableInv, NEW P \in SUBSET Agents,
           \A q \in Agents \ P : SameCall(q),
           draining => draining',
           \A c \in Conversations : entries'[c].phase = "Loaded" =>
             \/ /\ entries'[c] = entries[c]
                /\ flights'[entries[c].runtime].native = flights[entries[c].runtime].native
                /\ flights'[entries[c].runtime].req = flights[entries[c].runtime].req
             \/ /\ flights'[entries'[c].runtime].native = "active"
                /\ flights'[entries'[c].runtime].req = "no"
             \/ draining' \/ \E p \in Agents : Claimer(p, c)',
           \A p \in P, c \in Conversations :
             Claimer(p, c) /\ entries'[c].phase = "Loaded" /\ entries'[c] = entries[c] => Claimer(p, c)'
    PROVE  UsableInv'
<1> SUFFICES ASSUME NEW c \in Conversations, entries'[c].phase = "Loaded", ~draining'
             PROVE  \/ /\ flights'[entries'[c].runtime].native = "active"
                       /\ flights'[entries'[c].runtime].req = "no"
                    \/ \E p \in Agents : Claimer(p, c)'
  BY DEF UsableInv
<1>1. SUFFICES ASSUME entries'[c] = entries[c], NEW p \in Agents, Claimer(p, c)
               PROVE  Claimer(p, c)'
  BY DEF UsableInv
<1>2. CASE p \in P
  BY <1>1, <1>2
<1>3. CASE p \notin P
  BY <1>1, <1>3 DEF Claimer, SameCall
<1> QED
  BY <1>2, <1>3

\* The flights S, all of the conversation c or new, move.
Begins(g) == flights[g].kind = "free" /\ flights'[g].ops = 0

Advances(g) ==
    /\ flights[g].kind # "free"
    /\ flights'[g].kind = flights[g].kind /\ flights'[g].conv = flights[g].conv
    /\ flights'[g].ops = flights[g].ops
    /\ flights[g].result # "none" => flights'[g].result = flights[g].result
    /\ flights[g].pc \in {"report", "done"} =>
        flights'[g].pc \in {"report", "done"} /\ (flights'[g].comp => flights[g].comp)
    /\ flights[g].comp => flights'[g].comp \/ flights[g].ops = 0

FlightsMove(c, S) ==
    /\ \A g \in Flights \ S : flights'[g] = flights[g]
    /\ \A g \in S : Begins(g) \/ (Advances(g) /\ flights[g].conv = c)
    /\ \A g \in S : FlightOK(g)'

\* The slot of c moves.
EntryMoves(c, S) ==
    /\ \A d \in Conversations \ {c} : entries'[d] = entries[d]
    /\ \/ entries'[c] = entries[c]
       \/ /\ {entries[c].flight, entries[c].runtime} \subseteq S \cup {NoFlight}
          /\ {entries'[c].flight, entries'[c].runtime} \subseteq S \cup {NoFlight}
    /\ \/ entries'[c] = entries[c]
       \/ entries'[c].phase = "None"
       \/ entries[c].flight # NoFlight /\ entries'[c].flight = entries[c].flight
       \/ entries[c].phase = "Loaded"
       \/ ~draining /\ SessionOf[c] \notin retiring
    /\ entries'[c].phase # "None" => c \in exists
    /\ SlotOK(c)'
    /\ entries'[c].phase = "Loaded" =>
         \/ /\ entries'[c] = entries[c]
            /\ flights'[entries[c].runtime].native = flights[entries[c].runtime].native
            /\ flights'[entries[c].runtime].req = flights[entries[c].runtime].req
         \/ /\ flights'[entries'[c].runtime].native = "active"
            /\ flights'[entries'[c].runtime].req = "no"
         \/ draining \/ \E p \in Agents : Claimer(p, c)'

\* Call p moves, and neither creates nor operates.
CallMove(p) ==
    /\ CallOK(p)'
    /\ {calls[p].at, calls'[p].at} \cap {"creating", "operating"} = {}
    /\ Deleting(p)' => Deleting(p) /\ SessionOf[calls'[p].conv] = SessionOf[calls[p].conv]
    /\ p \in Callers => DeleteOK(p)'
    /\ p \in Conversations /\ drain \in {"last", "over"} => DrainOK(p)' /\ (Over(p) => Over(p)')
    /\ \A d \in Conversations :
        Claimer(p, d) /\ entries'[d].phase = "Loaded" /\ entries'[d] = entries[d] => Claimer(p, d)'

CallsMove(P) == /\ \A q \in Agents \ P : SameCall(q)
                /\ \A p \in P : CallMove(p)

RoomMoves == IndexInv' /\ Cardinality(Residents)' + pending <= MaxResident

LEMMA OperatedIsCounted ==
    ASSUME OpsInv, NEW p \in Callers, calls[p].at = "operating", calls[p].flight \in Flights
    PROVE  flights[calls[p].flight].ops # 0
<1>1. p \in OpsOf(calls[p].flight) /\ IsFiniteSet(OpsOf(calls[p].flight))
  BY FS_Subset DEF OpsOf
<1>2. Cardinality(OpsOf(calls[p].flight)) # 0
  BY <1>1, FS_EmptySet
<1> QED
  BY <1>2 DEF OpsInv

\* One slot, flights of its conversation and calls move together.
LEMMA SlotStep ==
    ASSUME ResidencyInv, RegistryOK',
           NEW c \in Conversations, NEW S \in SUBSET Flights, NEW P \in SUBSET Agents,
           FlightsMove(c, S), EntryMoves(c, S), CallsMove(P), RoomMoves,
           UNCHANGED <<pending, draining, retiring, exists, drain>>
    PROVE  ResidencyInv'
<1> RegistryOK /\ SlotInv /\ FlightInv /\ OpsInv /\ CallInv /\ UsableInv
  BY DEF ResidencyInv
<1>1. \A g \in S : flights[g].kind = "free" =>
          flights[g].ops = 0 /\ flights[g].result = "none" /\ flights[g].pc = "none" /\ ~flights[g].comp
  BY DEF FlightInv, FlightOK, FreeOK, Unused
<1>2. SlotInv' /\ FlightInv'
  <2>1. /\ \A g \in Flights \ S : flights'[g] = flights[g]
        /\ \A g \in S : FlightOK(g)'
        /\ \A g \in S : flights[g].kind = "free" \/ flights[g].conv = c
    BY DEF FlightsMove, Begins
  <2>2. \A g \in S : flights[g].ops = 0 => flights'[g].ops = 0
    BY DEF FlightsMove, Begins, Advances
  <2>3. \A g \in S : flights[g].pc \in {"report", "done"} =>
                /\ flights'[g].pc \in {"report", "done"}
                /\ flights'[g].kind = flights[g].kind
                /\ flights'[g].comp => flights[g].comp
    BY <1>1 DEF FlightsMove, Begins, Advances
  <2>4. /\ \A d \in Conversations \ {c} : entries'[d] = entries[d]
        /\ \/ entries'[c] = entries[c]
           \/ /\ {entries[c].flight, entries[c].runtime} \subseteq S \cup {NoFlight}
              /\ {entries'[c].flight, entries'[c].runtime} \subseteq S \cup {NoFlight}
        /\ SlotOK(c)'
    BY DEF EntryMoves
  <2> QED
    BY <2>1, <2>2, <2>3, <2>4, CoreStep
<1>3. OpsKept /\ FlightsGrow
  BY <1>1 DEF OpsKept, FlightsGrow, FlightsMove, Begins, Advances
<1>4. WritersKept
  <2> SUFFICES ASSUME NEW p \in Callers, calls[p].at = "operating"
               PROVE  flights'[calls[p].flight].comp
    BY DEF WritersKept
  <2>1. calls[p].flight \in Flights /\ flights[calls[p].flight].comp
        /\ flights[calls[p].flight].kind # "free"
    <3>1. CallOK(p) /\ calls[p] \in CallRecords
      BY DEF CallInv, RegistryOK, Agents
    <3>2. calls[p].flight \in Flights
      BY <3>1 DEF CallOK, CallRecords
    <3> QED
      BY <3>1, <3>2 DEF CallOK, Prepares
  <2>2. flights[calls[p].flight].ops # 0
    BY <2>1, OperatedIsCounted
  <2> QED
    BY <2>1, <2>2 DEF FlightsMove, Begins, Advances
<1>5. SlotMoves
  BY DEF SlotMoves, EntryMoves
<1>6. CallInv' /\ OpsInv' /\ DeleteInv' /\ DrainInv' /\ Creators' = Creators
      /\ \A p \in Creators : calls'[p].conv = calls[p].conv
  BY <1>3, <1>4, <1>5, CallsStep DEF CallsMove, CallMove
<1>7. RoomInv'
  BY <1>6 DEF RoomInv, ResidencyInv, RoomMoves
<1>8. ExistInv'
  BY DEF ExistInv, ResidencyInv, EntryMoves
<1>9. UsableInv'
  <2>1. ASSUME NEW d \in Conversations, d # c, entries'[d].phase = "Loaded"
        PROVE  /\ entries'[d] = entries[d]
               /\ flights'[entries[d].runtime] = flights[entries[d].runtime]
    <3>1. entries'[d] = entries[d]
      BY <2>1 DEF EntryMoves
    <3>2. entries[d].runtime \in Flights /\ flights[entries[d].runtime].conv = d
          /\ flights[entries[d].runtime].kind # "free"
      <4>1. SlotShape(entries[d])
        BY EntryShapes DEF RegistryOK, Slots
      <4> QED
        BY <2>1, <3>1, <4>1, FlightNames DEF SlotShape, SlotInv, SlotOK, Prepares
    <3> QED
      BY <2>1, <3>1, <3>2 DEF FlightsMove, Begins
  <2>2. \A d \in Conversations : entries'[d].phase = "Loaded" =>
             \/ /\ entries'[d] = entries[d]
                /\ flights'[entries[d].runtime].native = flights[entries[d].runtime].native
                /\ flights'[entries[d].runtime].req = flights[entries[d].runtime].req
             \/ /\ flights'[entries'[d].runtime].native = "active"
                /\ flights'[entries'[d].runtime].req = "no"
             \/ draining' \/ \E p \in Agents : Claimer(p, d)'
    BY <2>1 DEF EntryMoves
  <2> QED
    BY <2>2, UsableStep DEF CallsMove, CallMove
<1> QED
  BY <1>2, <1>6, <1>7, <1>8, <1>9 DEF ResidencyInv, RoomMoves

\* Only the call p moves.
LEMMA CallStep ==
    ASSUME ResidencyInv, RegistryOK', NEW p \in Agents, CallMove(p),
           \A q \in Agents \ {p} : SameCall(q),
           UNCHANGED <<entries, bySession, flights, pending, draining, retiring, exists, drain>>
    PROVE  ResidencyInv'
<1> RegistryOK /\ SlotInv /\ FlightInv /\ OpsInv /\ CallInv /\ UsableInv /\ IndexInv /\ ExistInv
  BY DEF ResidencyInv
<1>1. SlotInv' /\ FlightInv' /\ IndexInv' /\ ExistInv' /\ Residents' = Residents
  BY SMTT(30) DEF SlotInv, SlotOK, FlightInv, FlightOK, FreeOK, OldOK, LoadOK, RetireOK, EndOK,
     StorageOK, WriterOK, NothingOld, Holds, Prepares, IndexInv, ExistInv, Residents
<1>2. FlightsGrow /\ SlotMoves /\ OpsKept
  BY DEF FlightsGrow, SlotMoves, OpsKept
<1>3. WritersKept
  BY DEF WritersKept, CallInv, CallOK, Agents
<1>4. {p} \in SUBSET Agents /\ \A q \in {p} : CallMove(q)
  OBVIOUS
<1>5. CallInv' /\ OpsInv' /\ DeleteInv' /\ DrainInv' /\ Creators' = Creators
      /\ \A q \in Creators : calls'[q].conv = calls[q].conv
  BY ZenonT(60), <1>2, <1>3, <1>4, CallsStep DEF CallMove
<1>6. RoomInv'
  BY <1>1, <1>5 DEF RoomInv, ResidencyInv
<1>7. UsableInv'
  BY <1>4, UsableStep DEF CallMove
<1> QED
  BY <1>1, <1>5, <1>6, <1>7 DEF ResidencyInv

\* A call that is no retirement moves.
LEMMA PlainMove ==
    ASSUME NEW p \in Callers, CallOK(p)',
           ~(calls[p].op \in Retirements /\ calls[p].at \in {"select", "wait"}),
           ~Deleting(p)',
           {calls[p].at, calls'[p].at} \cap {"creating", "operating"} = {}
    PROVE  CallMove(p)
BY DEF CallMove, Claimer, DeleteOK

-----------------------------------------------------------------------------
(* The session index and the room.                                         *)

LEMMA IndexKept ==
    ASSUME IndexInv, NEW c \in Conversations,
           entries[c].phase \in Resident <=> entries'[c].phase \in Resident,
           \A d \in Conversations \ {c} : entries'[d] = entries[d], bySession' = bySession
    PROVE  IndexInv'
BY DEF IndexInv

LEMMA IndexFreed ==
    ASSUME RegistryOK, IndexInv, NEW c \in Conversations, entries'[c].phase = "None",
           \A d \in Conversations \ {c} : entries'[d] = entries[d],
           bySession' = [s \in Sessions |->
                           IF bySession[s] = c THEN NoConversation ELSE bySession[s]]
    PROVE  /\ IndexInv' /\ Residents' \subseteq Residents
           /\ bySession' \in [Sessions -> Conversations \cup {NoConversation}]
BY DEF RegistryOK, IndexInv, Residents, Resident

LEMMA IndexClaimed ==
    ASSUME RegistryOK, IndexInv, NEW c \in Conversations, entries'[c].phase \in Resident,
           bySession[SessionOf[c]] \in {NoConversation, c},
           \A d \in Conversations \ {c} : entries'[d] = entries[d],
           bySession' = [bySession EXCEPT ![SessionOf[c]] = c]
    PROVE  /\ IndexInv' /\ Residents' = Residents \cup {SessionOf[c]}
           /\ bySession' \in [Sessions -> Conversations \cup {NoConversation}]
BY DEF RegistryOK, IndexInv, Residents, Resident

LEMMA RoomFreed ==
    ASSUME NEW A, NEW B \in SUBSET A, IsFiniteSet(A), NEW n \in Nat,
           Cardinality(A) + n <= MaxResident
    PROVE  Cardinality(B) + n <= MaxResident
<1>1. IsFiniteSet(B) /\ Cardinality(B) <= Cardinality(A)
  BY FS_Subset
<1>2. Cardinality(A) \in Nat /\ Cardinality(B) \in Nat
  BY <1>1, FS_CardinalityType
<1> QED
  BY <1>1, <1>2

LEMMA RoomClaimed ==
    ASSUME NEW A, NEW x, IsFiniteSet(A), NEW n \in Nat, Cardinality(A) + n < MaxResident
    PROVE  Cardinality(A \cup {x}) + n <= MaxResident
<1>1. Cardinality(A \cup {x}) = Cardinality(A) \/ Cardinality(A \cup {x}) = Cardinality(A) + 1
  BY FS_AddElement
<1>2. Cardinality(A) \in Nat
  BY FS_CardinalityType
<1> QED
  BY <1>1, <1>2

LEMMA ResidentsFinite == IsFiniteSet(Residents)
BY FS_Subset DEF Residents

-----------------------------------------------------------------------------
(* The tasks of the flights.                                               *)

\* Only flights of the conversation c move.
LEMMA WorkStep ==
    ASSUME ResidencyInv, flights' \in [Flights -> FlightRecords],
           NEW c \in Conversations, NEW S \in SUBSET Flights,
           FlightsMove(c, S), SlotOK(c)',
           entries[c].phase = "Loaded" =>
             \/ /\ flights'[entries[c].runtime].native = flights[entries[c].runtime].native
                /\ flights'[entries[c].runtime].req = flights[entries[c].runtime].req
             \/ draining \/ \E p \in Agents : Claimer(p, c),
           UNCHANGED <<entries, bySession, failed, pending, draining, retiring, calls, exists,
                       deleted, drain>>
    PROVE  ResidencyInv'
<1> RegistryOK /\ IndexInv /\ ExistInv /\ RoomInv
  BY DEF ResidencyInv
<1>1. RegistryOK'
  BY DEF RegistryOK
<1>2. \A p \in Agents : Claimer(p, c) => Claimer(p, c)'
  BY DEF Claimer
<1>3. EntryMoves(c, S)
  BY <1>2 DEF EntryMoves, ExistInv
<1>4. CallsMove({})
  BY DEF CallsMove, SameCall
<1>5. RoomMoves
  BY DEF RoomMoves, IndexInv, RoomInv, Residents
<1>6. {} \in SUBSET Agents
  OBVIOUS
<1> QED
  BY <1>1, <1>3, <1>4, <1>5, <1>6, SlotStep

\* Flight f alone moves: what is to be shown of it and of its slot.
FlightMoves(f) == /\ \A g \in Flights : g # f => flights'[g] = flights[g]
                  /\ Advances(f) /\ FlightOK(f)'

LEMMA FlightStep ==
    ASSUME ResidencyInv, NEW f \in Flights, NEW c \in Conversations, c = flights[f].conv,
           flights' \in [Flights -> FlightRecords], FlightMoves(f), SlotOK(c)',
           entries[c].phase = "Loaded" =>
             \/ entries[c].runtime # f
             \/ flights'[f].native = flights[f].native /\ flights'[f].req = flights[f].req
             \/ draining \/ \E p \in Agents : Claimer(p, c),
           UNCHANGED <<entries, bySession, failed, pending, draining, retiring, calls, exists,
                       deleted, drain>>
    PROVE  ResidencyInv'
<1>1. FlightsMove(c, {f})
  BY DEF FlightMoves, FlightsMove
<1>2. entries[c].phase = "Loaded" => entries[c].runtime \in Flights
  BY EntryShapes DEF ResidencyInv, RegistryOK, Slots, SlotShape
<1>3. entries[c].phase = "Loaded" =>
             \/ /\ flights'[entries[c].runtime].native = flights[entries[c].runtime].native
                /\ flights'[entries[c].runtime].req = flights[entries[c].runtime].req
             \/ draining \/ \E p \in Agents : Claimer(p, c)
  BY <1>2 DEF FlightMoves
<1> QED
  BY <1>1, <1>3, WorkStep

\* What is known of a flight that has begun.
Begun(f, c) ==
    /\ c = flights[f].conv
    /\ flights[f].kind # "free" /\ FlightOK(f) /\ SlotOK(c)
    /\ SlotShape(entries[c]) /\ entries[c] \in Slots
    /\ flights \in [Flights -> FlightRecords] /\ flights[f] \in FlightRecords
    /\ flights[f].old # NoFlight => flights[f].old \in Flights

LEMMA BegunFlight ==
    ASSUME ResidencyInv, NEW f \in Flights, flights[f].pc # "none"
    PROVE  \E c \in Conversations : Begun(f, c)
<1>1. FlightOK(f) /\ flights \in [Flights -> FlightRecords] /\ entries \in [Conversations -> Slots]
  BY DEF ResidencyInv, FlightInv, RegistryOK, Slots
<1>2. flights[f].kind # "free"
  BY <1>1 DEF FlightOK, FreeOK, Unused
<1>3. flights[f].conv \in Conversations
  BY <1>1, <1>2 DEF FlightOK, FreeOK
<1>4. SlotOK(flights[f].conv) /\ SlotShape(entries[flights[f].conv])
  BY <1>1, <1>3, EntryShapes DEF ResidencyInv, SlotInv
<1>5. flights[f].old # NoFlight => flights[f].old \in Flights
  BY <1>1 DEF FlightRecords
<1> QED
  BY <1>1, <1>2, <1>3, <1>4, <1>5 DEF Begun

\* A composing flight goes on composing or ends without a writer.
LEMMA ComposingStep ==
    ASSUME NEW f \in Flights, NEW c \in Conversations, c = flights[f].conv,
           FlightOK(f), SlotOK(c), SlotShape(entries[c]),
           flights[f].kind # "free", flights[f].old # NoFlight => flights[f].old \in Flights,
           flights[f].pc \in Composing,
           UNCHANGED entries,
           \A g \in Flights : g # f => flights'[g] = flights[g],
           /\ flights'[f].kind = flights[f].kind /\ flights'[f].conv = c
           /\ flights'[f].old = flights[f].old /\ flights'[f].result = flights[f].result
           /\ flights'[f].ops = flights[f].ops,
           flights[f].comp => flights'[f].comp,
           \/ /\ flights'[f].pc = "publishing" /\ flights'[f].outcome \in Proven
              /\ ~flights'[f].comp
           \/ /\ flights'[f].pc \in Composing
              /\ flights'[f].comp <=> flights'[f].pc \in {"fence", "activate", "settle"}
              /\ flights'[f].pc \in {"fence", "activate"} /\ flights'[f].req = "no" =>
                    flights'[f].native = "inactive"
              /\ flights'[f].pc = "settle" /\ flights'[f].req = "no" =>
                    flights'[f].native = "active"
    PROVE  FlightMoves(f) /\ SlotOK(c)'
<1>1. /\ entries[c].phase = "Loading" /\ entries[c].flight = f /\ entries[c].runtime = NoFlight
      /\ Prepares(f) /\ flights[f].old # f /\ NothingOld(f) /\ flights[f].result = "none"
  BY DEF FlightOK, LoadOK, EndOK, Holds, SlotShape, Composing
<1>2. Advances(f)
  BY <1>1 DEF Advances, Composing
<1>3. NothingOld(f)' /\ Prepares(f)'
  BY <1>1 DEF NothingOld, Prepares
<1>4. FreeOK(f)' /\ OldOK(f)' /\ RetireOK(f)' /\ StorageOK(f)'
  BY <1>1 DEF FlightOK, FreeOK, OldOK, RetireOK, StorageOK, Composing, Retained, Prepares
<1>5. LoadOK(f)' /\ WriterOK(f)'
  BY <1>1, <1>3 DEF LoadOK, WriterOK, Composing, Holds, Prepares, ComposingKinds
<1>6. EndOK(f)'
  BY <1>1, <1>3 DEF EndOK, Composing, Holds, Proven
<1>7. SlotOK(c)'
  BY <1>1 DEF SlotOK, Composing, Prepares, NoFlight
<1> QED
  BY <1>2, <1>4, <1>5, <1>6, <1>7 DEF FlightMoves, FlightOK

LEMMA AcquireStep ==
    ASSUME ResidencyInv, NEW f \in Flights, Acquire(f)
    PROVE  ResidencyInv'
<1>1. PICK c \in Conversations : Begun(f, c)
  BY BegunFlight DEF Acquire, At
<1>2. flights[f].pc = "acquire" /\ ~flights[f].comp
      /\ entries[c].phase = "Loading"
  BY <1>1 DEF Acquire, At, FlightOK, LoadOK, Composing, Holds, Begun
<1>3. flights' \in [Flights -> FlightRecords]
  BY <1>1 DEF Acquire, Ends, FlightRecords, Begun
<1>4. FlightMoves(f) /\ SlotOK(c)'
  BY <1>1, <1>2, ComposingStep DEF Acquire, Ends, Composing, Proven, FlightRecords, Begun
<1> QED
  BY <1>1, <1>2, <1>3, <1>4, FlightStep DEF Acquire, Begun

LEMMA ComposeStep ==
    ASSUME ResidencyInv, NEW f \in Flights, Compose(f)
    PROVE  ResidencyInv'
<1>1. PICK c \in Conversations : Begun(f, c)
  BY BegunFlight DEF Compose, At
<1>2. flights[f].pc = "compose" /\ ~flights[f].comp
      /\ entries[c].phase = "Loading"
  BY <1>1 DEF Compose, At, FlightOK, LoadOK, Composing, Holds, Begun
<1>3. flights' \in [Flights -> FlightRecords]
  BY <1>1 DEF Compose, Ends, FlightRecords, Begun
<1>4. FlightMoves(f) /\ SlotOK(c)'
  BY <1>1, <1>2, ComposingStep DEF Compose, Ends, Composing, Proven, FlightRecords, Begun
<1> QED
  BY <1>1, <1>2, <1>3, <1>4, FlightStep DEF Compose, Begun

LEMMA CheckFenceStep ==
    ASSUME ResidencyInv, NEW f \in Flights, CheckFence(f)
    PROVE  ResidencyInv'
<1>1. PICK c \in Conversations : Begun(f, c)
  BY BegunFlight DEF CheckFence, At
<1>2. flights[f].pc = "fence" /\ flights[f].comp /\ entries[c].phase = "Loading"
      /\ (flights[f].req = "no" => flights[f].native = "inactive")
  BY <1>1 DEF CheckFence, At, FlightOK, LoadOK, Composing, Holds, Begun
<1>3. PICK q \in {"no", "requested", "closing"} :
          /\ flights' = [flights EXCEPT ![f].pc = "activate", ![f].req = q]
          /\ q = "no" => flights[f].req = "no"
  <2>1. CASE Fenced(flights[f].conv)
    BY <2>1 DEF CheckFence
  <2>2. CASE ~Fenced(flights[f].conv)
    BY <1>1, <2>2 DEF CheckFence, Begun, FlightRecords
  <2> QED
    BY <2>1, <2>2
<1>4. flights' \in [Flights -> FlightRecords]
  BY <1>1, <1>3, EditPc, EditOld, EditReq, EditNative, EditOutcome, EditResult DEF Begun
<1>5. FlightMoves(f) /\ SlotOK(c)'
  BY <1>1, <1>2, <1>3, ComposingStep DEF CheckFence, Composing, FlightRecords, Begun
<1> QED
  BY <1>1, <1>2, <1>4, <1>5, FlightStep DEF CheckFence, Begun

\* A step of flight f that writes its slot and moves no other flight and no call.
LEMMA SlotFlightStep ==
    ASSUME ResidencyInv, NEW f \in Flights, NEW c \in Conversations, c = flights[f].conv,
           entries[c].phase \in Resident, entries'[c].phase \in Resident,
           entries[c].flight = f,
           flights' \in [Flights -> FlightRecords], FlightMoves(f), SlotOK(c)',
           entries' \in [Conversations -> Slots],
           \A d \in Conversations \ {c} : entries'[d] = entries[d],
           {entries[c].flight, entries[c].runtime} \subseteq {f, NoFlight},
           {entries'[c].flight, entries'[c].runtime} \subseteq {f, NoFlight},
           entries'[c].flight = f
             \/ (entries'[c].phase = "Loaded" /\ ~draining /\ SessionOf[c] \notin retiring
                   /\ flights'[f].native = "active" /\ flights'[f].req = "no"),
           UNCHANGED <<bySession, failed, pending, draining, retiring, calls, exists,
                       deleted, drain>>
    PROVE  ResidencyInv'
<1> RegistryOK /\ IndexInv /\ ExistInv /\ RoomInv
  BY DEF ResidencyInv
<1>1. RegistryOK'
  BY DEF RegistryOK, Slots
<1>2. SlotShape(entries'[c]) /\ SlotShape(entries[c])
  BY EntryShapes, <1>1 DEF RegistryOK, Slots
<1>3. FlightsMove(c, {f})
  BY DEF FlightMoves, FlightsMove
<1>4. entries'[c].phase = "Loaded" => entries'[c].runtime = f /\ entries'[c].flight = NoFlight
  BY <1>2, FlightNames DEF SlotShape
<1>5. EntryMoves(c, {f})
  BY <1>4, FlightNames DEF EntryMoves, ExistInv, Resident
<1>6. CallsMove({})
  BY DEF CallsMove, SameCall
<1>7. RoomMoves
  <2>1. IndexInv'
    BY DEF IndexInv, Resident
  <2> QED
    BY <2>1 DEF RoomMoves, RoomInv, Residents
<1>8. {} \in SUBSET Agents /\ {f} \in SUBSET Flights
  OBVIOUS
<1> QED
  BY <1>1, <1>3, <1>5, <1>6, <1>7, <1>8, SlotStep

LEMMA SlotForms ==
    /\ Empty \in Slots
    /\ \A f \in Flights : /\ Loading(f) \in Slots /\ StorageOnly(f) \in Slots /\ Loaded(f) \in Slots
                          /\ \A r \in Flights : Unloading(r, f) \in Slots
BY DEF Slots

LEMMA PutTyped ==
    ASSUME RegistryOK, NEW c \in Conversations, NEW e \in Slots, Put(c, e)
    PROVE  /\ entries' \in [Conversations -> Slots] /\ entries'[c] = e
           /\ \A d \in Conversations \ {c} : entries'[d] = entries[d]
BY DEF RegistryOK, Put, Slots

LEMMA ActivateStep ==
    ASSUME ResidencyInv, NEW f \in Flights, Activate(f)
    PROVE  ResidencyInv'
<1>1. PICK c \in Conversations : Begun(f, c)
  BY BegunFlight DEF Activate, At
<1>2. /\ flights[f].pc = "activate" /\ flights[f].comp /\ entries[c].phase = "Loading"
      /\ entries[c].flight = f /\ entries[c].runtime = NoFlight
      /\ flights[f].req = "no" => flights[f].native = "inactive"
      /\ Prepares(f) /\ flights[f].result = "none" /\ RegistryOK /\ c = flights[f].conv
  BY <1>1 DEF Activate, At, FlightOK, LoadOK, EndOK, Composing, Holds, Begun, SlotShape, ResidencyInv
<1>3. CASE UNCHANGED entries /\ flights' = [flights EXCEPT ![f].pc = "settle",
                ![f].native = IF @ = "inactive" /\ ~IsRetiring(f) THEN "active" ELSE @]
  <2>1. PICK n \in {"none", "inactive", "active", "draining", "quiescent"} :
            /\ flights' = [flights EXCEPT ![f].pc = "settle", ![f].native = n]
            /\ flights[f].req = "no" => n = "active"
    BY <1>1, <1>2, <1>3 DEF Begun, FlightRecords, IsRetiring
  <2>2. flights' \in [Flights -> FlightRecords]
    BY <1>1, <2>1, EditPc, EditOld, EditReq, EditNative, EditOutcome, EditResult DEF Begun
  <2>3. FlightMoves(f) /\ SlotOK(c)'
    BY <1>1, <1>2, <1>3, <2>1, ComposingStep DEF Composing, FlightRecords, Begun
  <2> QED
    BY <1>1, <1>2, <1>3, <2>2, <2>3, FlightStep DEF Activate, Begun
<1>4. CASE /\ Put(flights[f].conv, Unloading(f, f))
           /\ flights' = [flights EXCEPT ![f].pc = "publishing", ![f].native = "active",
                                         ![f].old = f, ![f].outcome = "unproven"]
  <2>1. /\ entries' \in [Conversations -> Slots] /\ entries'[c] = Unloading(f, f)
        /\ \A d \in Conversations \ {c} : entries'[d] = entries[d]
    BY <1>2, <1>4, PutTyped, SlotForms
  <2>2. /\ entries'[c].phase = "Unloading" /\ entries'[c].flight = f /\ entries'[c].runtime = f
    BY <2>1 DEF Unloading
  <2>3. flights' \in [Flights -> FlightRecords]
    BY <1>1, <1>4, EditPc, EditOld, EditReq, EditNative, EditOutcome, EditResult DEF Begun
  <2>4. /\ \A g \in Flights : g # f => flights'[g] = flights[g]
        /\ flights'[f].kind = flights[f].kind /\ flights'[f].conv = c /\ flights'[f].old = f
        /\ flights'[f].result = "none" /\ flights'[f].ops = flights[f].ops
        /\ flights'[f].pc = "publishing" /\ flights'[f].outcome = "unproven" /\ flights'[f].comp
    BY <1>1, <1>2, <1>4 DEF Begun, FlightRecords
  <2>5. Advances(f)
    BY <1>1, <1>2, <2>4 DEF Advances, Begun
  <2>6. FlightOK(f)'
    BY <1>1, <1>2, <2>2, <2>4, FlightNames DEF FlightOK, FreeOK, OldOK, LoadOK, RetireOK, EndOK,
       StorageOK, WriterOK, Holds, Composing, Retained, Proven, Prepares, ComposingKinds, Begun
  <2>7. SlotOK(c)'
    BY <1>1, <1>2, <2>2, <2>4, FlightNames DEF SlotOK, Prepares, Retained
  <2> QED
    BY <1>2, <2>1, <2>2, <2>3, <2>4, <2>5, <2>6, <2>7, SlotFlightStep
    DEF FlightMoves, Resident, Activate
<1> QED
  BY <1>3, <1>4 DEF Activate

LEMMA SettleStep ==
    ASSUME ResidencyInv, NEW f \in Flights, Settle(f)
    PROVE  ResidencyInv'
<1>1. PICK c \in Conversations : Begun(f, c)
  BY BegunFlight DEF Settle, At
<1>2. /\ flights[f].pc = "settle" /\ flights[f].comp /\ entries[c].phase = "Loading"
      /\ entries[c].flight = f /\ entries[c].runtime = NoFlight
      /\ flights[f].req = "no" => flights[f].native = "active"
      /\ Prepares(f) /\ flights[f].result = "none" /\ RegistryOK /\ c = flights[f].conv
      /\ flights[f].old # f /\ NothingOld(f)
  BY <1>1 DEF Settle, At, FlightOK, LoadOK, EndOK, Composing, Holds, Begun, SlotShape, ResidencyInv
<1>3. CASE Fenced(c) \/ IsRetiring(f)
  <2>1. /\ entries' \in [Conversations -> Slots] /\ entries'[c] = Unloading(f, f)
        /\ \A d \in Conversations \ {c} : entries'[d] = entries[d]
    BY <1>2, <1>3, PutTyped, SlotForms DEF Settle
  <2>2. /\ entries'[c].phase = "Unloading" /\ entries'[c].flight = f /\ entries'[c].runtime = f
    BY <2>1 DEF Unloading
  <2>3. PICK q \in {"no", "requested", "closing"} :
          flights' = [flights EXCEPT ![f].pc = "ops", ![f].old = f, ![f].req = q]
    BY <1>1, <1>2, <1>3 DEF Settle, Begun, FlightRecords
  <2>4. flights' \in [Flights -> FlightRecords]
    BY <1>1, <2>3, EditPc, EditOld, EditReq, EditNative, EditOutcome, EditResult DEF Begun
  <2>5. /\ \A g \in Flights : g # f => flights'[g] = flights[g]
        /\ flights'[f].kind = flights[f].kind /\ flights'[f].conv = c /\ flights'[f].old = f
        /\ flights'[f].result = "none" /\ flights'[f].ops = flights[f].ops
        /\ flights'[f].pc = "ops" /\ flights'[f].comp
    BY <1>1, <1>2, <2>3 DEF Begun, FlightRecords
  <2>6. Advances(f)
    BY <1>1, <1>2, <2>5 DEF Advances, Begun
  <2>7. FlightOK(f)'
    BY <1>1, <1>2, <2>2, <2>5, FlightNames DEF FlightOK, FreeOK, OldOK, LoadOK, RetireOK, EndOK,
       StorageOK, WriterOK, Holds, Composing, Retained, Proven, Prepares, ComposingKinds, Begun
  <2>8. SlotOK(c)'
    BY <1>1, <1>2, <2>2, <2>5, FlightNames DEF SlotOK, Prepares, Retained
  <2> QED
    BY <1>2, <2>1, <2>2, <2>4, <2>5, <2>6, <2>7, <2>8, SlotFlightStep
    DEF FlightMoves, Resident, Settle
<1>4. CASE ~(Fenced(c) \/ IsRetiring(f))
  <2>1. /\ entries' \in [Conversations -> Slots] /\ entries'[c] = Loaded(f)
        /\ \A d \in Conversations \ {c} : entries'[d] = entries[d]
    BY <1>2, <1>4, PutTyped, SlotForms DEF Settle
  <2>2. /\ entries'[c].phase = "Loaded" /\ entries'[c].flight = NoFlight /\ entries'[c].runtime = f
    BY <2>1 DEF Loaded
  <2>3. flights' = [flights EXCEPT ![f].pc = "report"]
    BY <1>2, <1>4 DEF Settle
  <2>4. flights' \in [Flights -> FlightRecords]
    BY <1>1, <2>3 DEF Begun, FlightRecords
  <2>5. /\ \A g \in Flights : g # f => flights'[g] = flights[g]
        /\ flights'[f].kind = flights[f].kind /\ flights'[f].conv = c
        /\ flights'[f].old = flights[f].old
        /\ flights'[f].result = "none" /\ flights'[f].ops = flights[f].ops
        /\ flights'[f].pc = "report" /\ flights'[f].comp
        /\ flights'[f].native = "active" /\ flights'[f].req = "no"
    BY <1>1, <1>2, <1>4, <2>3 DEF Begun, FlightRecords, IsRetiring
  <2>6. Advances(f)
    BY <1>1, <1>2, <2>5 DEF Advances, Begun
  <2>7. FlightOK(f)'
    BY <1>1, <1>2, <2>2, <2>5, FlightNames DEF FlightOK, FreeOK, OldOK, LoadOK, RetireOK, EndOK,
       StorageOK, WriterOK, Holds, Composing, Retained, Proven, Prepares, ComposingKinds, Begun
  <2>8. SlotOK(c)'
    BY <1>1, <1>2, <2>2, <2>5, FlightNames DEF SlotOK, Prepares, Retained
  <2>9. ~draining /\ SessionOf[c] \notin retiring
    BY <1>2, <1>4 DEF Fenced, ResidencyInv, IndexInv, Resident
  <2> QED
    BY <1>2, <2>1, <2>2, <2>4, <2>5, <2>6, <2>7, <2>8, <2>9, SlotFlightStep
    DEF FlightMoves, Resident, Settle
<1> QED
  BY <1>3, <1>4

LEMMA ReportStep ==
    ASSUME ResidencyInv, NEW f \in Flights, Report(f)
    PROVE  ResidencyInv'
<1>1. PICK c \in Conversations : Begun(f, c)
  BY BegunFlight DEF Report, At
<1>2. /\ flights[f].pc = "report" /\ flights[f].result = "none" /\ c = flights[f].conv
      /\ Prepares(f)
  BY <1>1 DEF Report, At, FlightOK, EndOK, LoadOK, Begun
<1>3. flights' = [flights EXCEPT ![f].pc = "done", ![f].result = "resident"]
  BY DEF Report
<1>4. flights' \in [Flights -> FlightRecords]
  BY <1>1, <1>3, EditPc, EditOld, EditReq, EditNative, EditOutcome, EditResult DEF Begun
<1>5. /\ \A g \in Flights : g # f => flights'[g] = flights[g]
      /\ flights'[f].kind = flights[f].kind /\ flights'[f].conv = c
      /\ flights'[f].old = flights[f].old /\ flights'[f].comp = flights[f].comp
      /\ flights'[f].result = "resident" /\ flights'[f].ops = flights[f].ops
      /\ flights'[f].pc = "done" /\ flights'[f].req = flights[f].req
      /\ flights'[f].native = flights[f].native
  BY <1>1, <1>2, <1>3 DEF Begun, FlightRecords
<1>6. entries' = entries
  BY DEF Report
<1>7. Advances(f)
  BY <1>1, <1>2, <1>5 DEF Advances, Begun
<1>8. FlightOK(f)'
  BY <1>1, <1>2, <1>5, <1>6, FlightNames DEF FlightOK, FreeOK, OldOK, LoadOK, RetireOK, EndOK,
       StorageOK, WriterOK, Holds, Composing, Retained, Proven, Prepares, ComposingKinds, Begun
<1>9. SlotOK(c)'
  BY SMTT(30), <1>1, <1>2, <1>5, <1>6, FlightNames DEF SlotOK, SlotShape, Prepares, Retained, Composing, Begun
<1> QED
  BY <1>1, <1>2, <1>4, <1>5, <1>7, <1>8, <1>9, FlightStep DEF Report, FlightMoves

\* A retiring flight f and the runtime r that it retires go on, without the slot.
RetiringMove(f, r) ==
    /\ flights' \in [Flights -> FlightRecords]
    /\ \A g \in Flights \ {f, r} : flights'[g] = flights[g]
    /\ \A g \in {f, r} : /\ flights'[g].kind = flights[g].kind /\ flights'[g].conv = flights[g].conv
                         /\ flights'[g].old = flights[g].old /\ flights'[g].ops = flights[g].ops
                         /\ flights'[g].result = flights[g].result
                         /\ flights'[g].comp => flights[g].comp
    /\ r # f => flights'[r].pc = flights[r].pc
    /\ flights[r].comp => flights'[r].comp \/ flights[r].ops = 0
    /\ flights'[f].pc \in Retained \cup {"publishing"}
    /\ flights'[f].pc = "shutdown" => flights[r].ops = 0
    /\ flights'[f].pc = "transfer" => r # f /\ ~flights'[r].comp /\ flights[f].kind = "replace"
    /\ flights'[f].pc = "publishing" =>
         /\ flights'[f].outcome # "none"
         /\ flights'[f].outcome # "unproven" => ~flights'[r].comp
    /\ UNCHANGED <<entries, bySession, failed, pending, draining, retiring, calls, exists,
                   deleted, drain>>

\* What is known of a retiring flight.
LEMMA RetiringFlight ==
    ASSUME ResidencyInv, NEW f \in Flights, flights[f].pc \in Retained
    PROVE  \E c \in Conversations, r \in Flights :
             /\ Begun(f, c) /\ Begun(r, c) /\ r = flights[f].old /\ Prepares(r)
             /\ entries[c].phase = "Unloading" /\ entries[c].flight = f /\ entries[c].runtime = r
             /\ r # f => flights[r].pc \in {"report", "done"} /\ ~flights[f].comp
             /\ flights[f].result = "none"
<1>1. PICK c \in Conversations : Begun(f, c)
  BY BegunFlight DEF Retained
<1>2. /\ entries[c].phase = "Unloading" /\ entries[c].flight = f
      /\ entries[c].runtime = flights[f].old /\ flights[f].result = "none"
      /\ flights[f].old # f => ~flights[f].comp
  BY <1>1 DEF Begun, FlightOK, RetireOK, EndOK, Holds, Retained
<1>3. flights[f].old \in Flights /\ flights[flights[f].old].conv = c /\ Prepares(flights[f].old)
      /\ (flights[f].old # f => flights[flights[f].old].pc \in {"report", "done"})
  BY <1>1, <1>2, FlightNames DEF Begun, SlotShape, SlotOK
<1>4. FlightOK(flights[f].old) /\ flights[flights[f].old].pc # "none"
  BY <1>3 DEF ResidencyInv, FlightInv, FlightOK, FreeOK, Prepares
<1>5. \E d \in Conversations : Begun(flights[f].old, d)
  BY <1>3, <1>4, BegunFlight
<1>6. Begun(flights[f].old, c)
  BY <1>3, <1>5 DEF Begun
<1> QED
  BY <1>1, <1>2, <1>3, <1>6

LEMMA RetiringStep ==
    ASSUME ResidencyInv, NEW f \in Flights, flights[f].pc \in Retained,
           NEW r \in Flights, r = flights[f].old, RetiringMove(f, r)
    PROVE  ResidencyInv'
<1>1. PICK c \in Conversations :
             /\ Begun(f, c) /\ Begun(r, c) /\ Prepares(r)
             /\ entries[c].phase = "Unloading" /\ entries[c].flight = f /\ entries[c].runtime = r
             /\ r # f => flights[r].pc \in {"report", "done"} /\ ~flights[f].comp
             /\ flights[f].result = "none"
  BY RetiringFlight
<1>2. Advances(f) /\ Advances(r)
  <2>1. CASE r = f
    BY <1>1, <2>1 DEF Advances, RetiringMove, Begun, Retained
  <2>2. CASE r # f
    BY <1>1, <2>2 DEF Advances, RetiringMove, Begun, Retained
  <2> QED
    BY <2>1, <2>2
<1>3. /\ flights[f].conv = c /\ flights'[f].conv = c /\ flights'[f].kind # "free"
      /\ flights'[f].old = r /\ flights'[f].result = "none" /\ entries' = entries
      /\ flights[r].conv = c /\ flights'[r].conv = c /\ Prepares(r)'
      /\ r # f => flights'[r].pc \in {"report", "done"} /\ ~flights'[f].comp
  BY <1>1 DEF RetiringMove, Begun, Prepares
<1>4. FlightOK(f)'
  <2>1. FreeOK(f)' /\ OldOK(f)'
    BY <1>3 DEF FreeOK, OldOK, RetiringMove, Retained
  <2>2. LoadOK(f)' /\ StorageOK(f)' /\ WriterOK(f)'
    BY <1>1, <1>3 DEF LoadOK, StorageOK, WriterOK, RetiringMove, Retained, Composing, Prepares,
       ComposingKinds
  <2>3. RetireOK(f)'
    BY <1>1, <1>3 DEF RetireOK, RetiringMove, Holds, NothingOld
  <2>4. EndOK(f)'
    BY <1>1, <1>3 DEF EndOK, RetiringMove, Holds, NothingOld, Retained, Proven
  <2> QED
    BY <2>1, <2>2, <2>3, <2>4 DEF FlightOK
<1>5. ASSUME r # f PROVE FlightOK(r)'
  <2>1. FlightOK(r) /\ r # f
    BY <1>1, <1>5 DEF Begun
  <2>2. flights[r].old \in Flights \cup {NoFlight} /\ flights[r].old # f
    BY <1>1, <2>1, FlightNames DEF FlightOK, OldOK, Begun, Retained
  <2>3. FreeOK(r)' /\ OldOK(r)'
    BY SMTT(30), <1>1, <1>3, <2>1, <2>2 DEF FlightOK, FreeOK, OldOK, RetiringMove, Prepares
  <2>4. LoadOK(r)' /\ StorageOK(r)' /\ WriterOK(r)' /\ RetireOK(r)'
    BY <1>1, <1>3, <2>1 DEF LoadOK, StorageOK, WriterOK, RetireOK, RetiringMove, Retained, Composing,
       Prepares, ComposingKinds
  <2>5. NothingOld(r) => NothingOld(r)'
    BY <1>1, <1>3, <2>1, <2>2 DEF NothingOld, RetiringMove
  <2>6. EndOK(r)'
    BY <1>1, <1>3, <2>1, <2>5 DEF FlightOK, EndOK, RetiringMove
  <2> QED
    BY <2>3, <2>4, <2>6 DEF FlightOK
<1>6. SlotOK(c)'
  BY <1>1, <1>3 DEF SlotOK, RetiringMove
<1>7. FlightsMove(c, {f, r})
  BY <1>2, <1>3, <1>4, <1>5 DEF FlightsMove, RetiringMove
<1>8. {f, r} \in SUBSET Flights
  OBVIOUS
<1> QED
  BY <1>1, <1>6, <1>7, <1>8, WorkStep DEF RetiringMove

LEMMA RequestRetirementStep ==
    ASSUME ResidencyInv, NEW f \in Flights, RequestRetirement(f)
    PROVE  ResidencyInv'
<1>1. flights[f].pc \in Retained
  BY DEF RequestRetirement, At, Retained
<1>2. PICK r \in Flights : r = flights[f].old
  BY <1>1, RetiringFlight
<1>3. flights \in [Flights -> FlightRecords] /\ flights[f].pc = "reaped"
  BY DEF ResidencyInv, RegistryOK, RequestRetirement, At
<1>4. PICK q \in {"no", "requested", "closing"} :
          flights' = [[flights EXCEPT ![f].pc = "ops"] EXCEPT ![r].req = q]
  <2>1. PICK q : q = IF flights[r].req = "no" THEN "requested" ELSE flights[r].req
    OBVIOUS
  <2>2. q \in {"no", "requested", "closing"}
    BY <1>3, <2>1 DEF FlightRecords
  <2>3. flights' = [[flights EXCEPT ![f].pc = "ops"] EXCEPT ![r].req = q]
    BY <1>2, <1>3, <2>1 DEF RequestRetirement, FlightRecords
  <2> QED
    BY <2>2, <2>3
<1>5. flights' \in [Flights -> FlightRecords]
  BY <1>3, <1>4, EditPc, EditReq
<1>6. /\ \A g \in Flights \ {f, r} : flights'[g] = flights[g]
      /\ \A g \in {f, r} : /\ flights'[g].kind = flights[g].kind /\ flights'[g].conv = flights[g].conv
                           /\ flights'[g].old = flights[g].old /\ flights'[g].ops = flights[g].ops
                           /\ flights'[g].result = flights[g].result
                           /\ flights'[g].comp <=> flights[g].comp
      /\ r # f => flights'[r].pc = flights[r].pc
      /\ flights'[f].pc = "ops"
  <2>1. CASE r = f
    BY <1>3, <1>4, <2>1 DEF FlightRecords
  <2>2. CASE r # f
    BY <1>3, <1>4, <2>2 DEF FlightRecords
  <2> QED
    BY <2>1, <2>2
<1>7. RetiringMove(f, r)
  BY <1>2, <1>3, <1>5, <1>6 DEF RetiringMove, RequestRetirement, Retained
<1> QED
  BY <1>1, <1>2, <1>7, RetiringStep

LEMMA SettleOperationsStep ==
    ASSUME ResidencyInv, NEW f \in Flights, SettleOperations(f)
    PROVE  ResidencyInv'
<1>1. flights[f].pc \in Retained
  BY DEF SettleOperations, At, Retained
<1>2. PICK r \in Flights : r = flights[f].old
  BY <1>1, RetiringFlight
<1>3. flights \in [Flights -> FlightRecords] /\ flights[f].pc = "ops" /\ flights[r].ops = 0
  BY <1>2 DEF ResidencyInv, RegistryOK, SettleOperations, At
<1>4. flights' = [[flights EXCEPT ![r].req = "closing"] EXCEPT ![f].pc = "shutdown"]
  BY <1>2 DEF SettleOperations
<1>5. flights' \in [Flights -> FlightRecords]
  BY <1>3, <1>4, EditPc, EditReq
<1>6. /\ \A g \in Flights \ {f, r} : flights'[g] = flights[g]
      /\ \A g \in {f, r} : /\ flights'[g].kind = flights[g].kind /\ flights'[g].conv = flights[g].conv
                           /\ flights'[g].old = flights[g].old /\ flights'[g].ops = flights[g].ops
                           /\ flights'[g].result = flights[g].result
                           /\ flights'[g].comp <=> flights[g].comp
      /\ r # f => flights'[r].pc = flights[r].pc
      /\ flights'[f].pc = "shutdown"
  <2>1. CASE r = f
    BY <1>3, <1>4, <2>1 DEF FlightRecords
  <2>2. CASE r # f
    BY <1>3, <1>4, <2>2 DEF FlightRecords
  <2> QED
    BY <2>1, <2>2
<1>7. RetiringMove(f, r)
  BY <1>2, <1>3, <1>5, <1>6 DEF RetiringMove, SettleOperations, Retained
<1> QED
  BY <1>1, <1>2, <1>7, RetiringStep

LEMMA ShutDownStep ==
    ASSUME ResidencyInv, NEW f \in Flights, ShutDown(f)
    PROVE  ResidencyInv'
<1>1. flights[f].pc \in Retained
  BY DEF ShutDown, At, Retained
<1>2. PICK r \in Flights : r = flights[f].old /\ (r # f => ~flights[f].comp)
  BY <1>1, RetiringFlight
<1>3. /\ flights \in [Flights -> FlightRecords] /\ flights[f].pc = "shutdown"
      /\ flights[r].ops = 0 /\ RegistryOK
  BY SMTT(30), <1>2 DEF ResidencyInv, RegistryOK, ShutDown, At, FlightInv, FlightOK, RetireOK
<1> DEFINE quiet == [flights EXCEPT ![r].native = "quiescent", ![r].comp = FALSE]
<1>4. ASSUME NEW pc \in {"transfer", "publishing"}, NEW o \in {"absent", "failedAbsent"},
             pc = "transfer" => r # f /\ flights[f].kind = "replace",
             \/ flights' = [quiet EXCEPT ![f].outcome = o, ![f].pc = pc]
             \/ flights' = [quiet EXCEPT ![f].pc = pc, ![f].outcome = o]
      PROVE  ResidencyInv'
  <2>1. quiet \in [Flights -> FlightRecords]
    BY <1>3, EditNative, EditComp
  <2>2. flights' \in [Flights -> FlightRecords]
    <3> HIDE DEF quiet
    <3>1. CASE flights' = [quiet EXCEPT ![f].outcome = o, ![f].pc = pc]
      BY <2>1, <3>1, EditPc, EditOutcome
    <3>2. CASE flights' = [quiet EXCEPT ![f].pc = pc, ![f].outcome = o]
      BY <2>1, <3>2, EditPc, EditOutcome
    <3> QED
      BY <1>4, <3>1, <3>2
  <2>3. /\ \A g \in Flights \ {f, r} : flights'[g] = flights[g]
        /\ \A g \in {f, r} : /\ flights'[g].kind = flights[g].kind /\ flights'[g].conv = flights[g].conv
                             /\ flights'[g].old = flights[g].old /\ flights'[g].ops = flights[g].ops
                             /\ flights'[g].result = flights[g].result
        /\ ~flights'[r].comp /\ (r # f => ~flights'[f].comp)
        /\ r # f => flights'[r].pc = flights[r].pc
        /\ flights'[f].pc = pc /\ flights'[f].outcome = o
    <3>1. CASE r = f
      BY <1>3, <1>4, <3>1 DEF FlightRecords
    <3>2. CASE r # f
      BY SMTT(30), <1>2, <1>3, <1>4, <3>2 DEF FlightRecords
    <3> QED
      BY <3>1, <3>2
  <2>4. RetiringMove(f, r)
    <3> HIDE DEF quiet
    <3>1. \A g \in {f, r} : flights'[g].comp => flights[g].comp
      BY <2>3
    <3>2. pc \in Retained \cup {"publishing"} /\ pc # "shutdown" /\ o # "none"
      BY DEF Retained
    <3>3. UNCHANGED <<entries, bySession, failed, pending, draining, retiring, calls, exists,
                      deleted, drain>>
      BY DEF ShutDown
    <3> QED
      BY <1>3, <1>4, <2>2, <2>3, <3>1, <3>2, <3>3 DEF RetiringMove
  <2> QED
    BY <1>1, <1>2, <2>4, RetiringStep
<1>5. CASE Ends(f, "unproven")
  <2>1. flights' \in [Flights -> FlightRecords]
    BY <1>3, <1>5, EditPc, EditOutcome DEF Ends
  <2>2. RetiringMove(f, r)
    BY <1>2, <1>3, <1>5, <2>1 DEF RetiringMove, ShutDown, Retained, FlightRecords, Ends
  <2> QED
    BY <1>1, <1>2, <2>2, RetiringStep
<1>6. CASE flights' = [quiet EXCEPT ![f].outcome = "absent",
                ![f].pc = IF flights[f].kind = "replace" /\ r # f
                          THEN "transfer" ELSE "publishing"]
  BY <1>4, <1>6
<1>7. CASE flights' = [quiet EXCEPT ![f].pc = "publishing", ![f].outcome = "failedAbsent"]
  BY <1>4, <1>7
<1> QED
  BY <1>2, <1>5, <1>6, <1>7 DEF ShutDown

\* A runtime whose writer is gone stays what it is, whatever becomes of the slot.
LEMMA PastRuntime ==
    ASSUME NEW r \in Flights, FlightOK(r), flights[r].pc \in {"report", "done"},
           flights[r].kind # "free", ~flights[r].comp, flights[r].result # "unproven",
           flights'[r] = flights[r],
           flights[r].old \notin {NoFlight, r} => flights'[flights[r].old] = flights[flights[r].old]
    PROVE  FlightOK(r)'
<1>1. NothingOld(r) => NothingOld(r)'
  BY DEF NothingOld
<1> QED
  BY <1>1 DEF FlightOK, FreeOK, OldOK, LoadOK, RetireOK, EndOK, StorageOK, WriterOK, Composing,
     Retained, Prepares

LEMMA TransferStep ==
    ASSUME ResidencyInv, NEW f \in Flights, Transfer(f)
    PROVE  ResidencyInv'
<1>1. flights[f].pc \in Retained /\ flights[f].pc = "transfer"
  BY DEF Transfer, At, Retained
<1>2. PICK c \in Conversations, r \in Flights :
             /\ Begun(f, c) /\ Begun(r, c) /\ r = flights[f].old /\ Prepares(r)
             /\ entries[c].phase = "Unloading" /\ entries[c].flight = f /\ entries[c].runtime = r
             /\ r # f => flights[r].pc \in {"report", "done"} /\ ~flights[f].comp
             /\ flights[f].result = "none"
  BY <1>1, RetiringFlight
<1>3. r # f /\ ~flights[r].comp /\ flights[f].kind = "replace"
  BY <1>1, <1>2, FlightNames DEF Begun, FlightOK, RetireOK, NothingOld
<1>4. flights \in [Flights -> FlightRecords] /\ RegistryOK /\ c = flights[f].conv
  BY <1>2 DEF Begun, ResidencyInv
<1>5. CASE draining
  <2>1. flights' \in [Flights -> FlightRecords]
    <3>1. flights' = [flights EXCEPT ![f].pc = "publishing", ![f].outcome = "cancelled"]
      BY <1>5 DEF Transfer, Ends
    <3> QED
      BY <1>4, <3>1, EditPc, EditOutcome
  <2>2. RetiringMove(f, r)
    BY <1>2, <1>3, <1>4, <1>5, <2>1 DEF RetiringMove, Transfer, Retained, FlightRecords, Ends
  <2> QED
    BY <1>1, <1>2, <2>2, RetiringStep
<1>6. CASE ~draining
  <2>1. /\ entries' \in [Conversations -> Slots] /\ entries'[c] = Loading(f)
        /\ \A d \in Conversations \ {c} : entries'[d] = entries[d]
    BY <1>4, <1>6, PutTyped, SlotForms DEF Transfer
  <2>2. entries'[c].phase = "Loading" /\ entries'[c].flight = f /\ entries'[c].runtime = NoFlight
    BY <2>1 DEF Loading
  <2>3. flights' = [flights EXCEPT ![f].pc = "acquire"]
    BY <1>6 DEF Transfer
  <2>4. flights' \in [Flights -> FlightRecords]
    BY <1>4, <2>3, EditPc
  <2>5. /\ \A g \in Flights \ {f} : flights'[g] = flights[g]
        /\ flights'[f].kind = "replace" /\ flights'[f].conv = c /\ flights'[f].old = r
        /\ flights'[f].result = "none" /\ flights'[f].ops = flights[f].ops
        /\ flights'[f].pc = "acquire" /\ ~flights'[f].comp
    BY <1>2, <1>3, <1>4, <2>3 DEF FlightRecords
  <2>6. Advances(f) /\ Advances(r)
    BY <1>1, <1>2, <1>3, <2>5 DEF Advances, Begun
  <2>7. FlightOK(f)'
    BY <1>2, <1>3, <2>2, <2>5, FlightNames DEF FlightOK, FreeOK, OldOK, LoadOK, RetireOK, EndOK,
       StorageOK, WriterOK, Holds, Composing, Retained, Proven, Prepares, ComposingKinds, NothingOld
  <2>8. FlightOK(r)'
    <3>1. FlightOK(r) /\ flights[r].old # f /\ flights[r].kind # "free"
          /\ flights[r].old \in Flights \cup {NoFlight}
      BY <1>1, <1>2, <1>3, FlightNames DEF Begun, FlightOK, OldOK
    <3>2. flights[r].result # "unproven"
      BY <1>2, <1>3 DEF Begun, FlightOK, EndOK
    <3> QED
      BY <1>2, <1>3, <2>5, <3>1, <3>2, PastRuntime
  <2>9. SlotOK(c)'
    BY <2>2, <2>5, FlightNames DEF SlotOK, Composing, NoFlight
  <2>10. FlightsMove(c, {f, r})
    BY <1>2, <1>4, <2>5, <2>6, <2>7, <2>8 DEF FlightsMove, Begun
  <2>11. EntryMoves(c, {f, r})
    BY <1>2, <2>1, <2>2, <2>9, FlightNames DEF EntryMoves, ResidencyInv, ExistInv
  <2>12. RegistryOK'
    BY <1>4, <2>1, <2>4 DEF RegistryOK, Slots, Transfer
  <2>13. RoomMoves
    <3>1. bySession' = bySession /\ Residents' = Residents
      BY DEF Transfer, Residents
    <3>2. IndexInv'
      BY <1>2, <2>1, <2>2, <3>1, IndexKept DEF ResidencyInv, Resident
    <3> QED
      BY <3>1, <3>2 DEF RoomMoves, ResidencyInv, RoomInv
  <2>14. CallsMove({})
    BY DEF CallsMove, SameCall, Transfer
  <2>15. {} \in SUBSET Agents /\ {f, r} \in SUBSET Flights
    OBVIOUS
  <2>16. UNCHANGED <<pending, draining, retiring, exists, drain>>
    BY DEF Transfer
  <2> QED
    BY <2>10, <2>11, <2>12, <2>13, <2>14, <2>15, <2>16, SlotStep
<1> QED
  BY <1>5, <1>6

\* A fresh flight that takes a slot to load a runtime.
LEMMA FreshFlight ==
    ASSUME ResidencyInv, NEW g \in Flights, Fresh(g)
    PROVE  /\ flights[g].kind = "free" /\ flights[g].pc = "none" /\ ~flights[g].comp
           /\ flights[g].conv = NoConversation
           /\ \A f \in Flights : flights[f].old # g
           /\ \A c \in Conversations : entries[c].flight # g /\ entries[c].runtime # g
<1>1. flights[g].kind = "free" /\ flights[g] = Unused
  BY DEF Fresh, ResidencyInv, FlightInv, FlightOK, FreeOK
<1>2. flights[g].pc = "none" /\ ~flights[g].comp /\ flights[g].conv = NoConversation
  BY <1>1 DEF Unused
<1>3. ASSUME NEW f \in Flights PROVE flights[f].old # g
  <2>1. CASE f = g
    BY <1>1, <2>1, FlightNames DEF Unused
  <2>2. CASE f # g
    BY <1>1, <1>2, <2>2, FlightNames DEF ResidencyInv, FlightInv, FlightOK, OldOK
  <2> QED
    BY <2>1, <2>2
<1>4. ASSUME NEW c \in Conversations PROVE entries[c].flight # g /\ entries[c].runtime # g
  <2>1. SlotOK(c) /\ NoConversation # c
    BY DEF ResidencyInv, SlotInv
  <2> QED
    BY <1>2, <2>1, FlightNames DEF SlotOK
<1> QED
  BY <1>1, <1>2, <1>3, <1>4

NewRecord(x, k, c, pc, o) ==
    /\ x \in FlightRecords /\ x.kind = k /\ x.conv = c /\ x.pc = pc /\ x.old = o
    /\ ~x.comp /\ x.ops = 0 /\ x.result = "none" /\ x.outcome = "none"
    /\ x.req = "no" /\ x.native = "none"

LEMMA NewFlight ==
    ASSUME NEW k \in {"load", "scheduled", "replace", "unload", "reap", "storage"},
           NEW c \in Conversations, NEW pc \in {"acquire", "ops", "reaped", "open"},
           NEW o \in Flights \cup {NoFlight}, NEW b \in BOOLEAN
    PROVE  NewRecord(Flight(k, c, pc, o, b), k, c, pc, o)
<1> DEFINE x == Flight(k, c, pc, o, b)
<1>1. Unused \in FlightRecords
  BY DEF Unused, FlightRecords
<1>2. \A y \in FlightRecords : [y EXCEPT !.kind = k] \in FlightRecords
                               /\ [y EXCEPT !.conv = c] \in FlightRecords
  BY DEF FlightRecords
<1>3. x \in FlightRecords
  BY <1>1, <1>2, EditPc, EditOld, EditSubmitted DEF Flight
<1>4. x.kind = k /\ x.conv = c /\ x.pc = pc /\ x.old = o
  BY DEF Flight, Unused
<1>5. ~x.comp /\ x.ops = 0 /\ x.result = "none" /\ x.outcome = "none" /\ x.req = "no"
      /\ x.native = "none"
  BY DEF Flight, Unused
<1> QED
  BY <1>3, <1>4, <1>5 DEF NewRecord

\* A new loading flight, once it holds the slot.
LEMMA NewLoadOK ==
    ASSUME NEW g \in Flights, NEW c \in Conversations,
           flights'[g].kind \in ComposingKinds, flights'[g].conv = c, flights'[g].pc = "acquire",
           flights'[g].old = NoFlight, ~flights'[g].comp, flights'[g].result = "none",
           entries'[c].phase = "Loading", entries'[c].flight = g, entries'[c].runtime = NoFlight
    PROVE  FlightOK(g)' /\ SlotOK(c)'
<1>1. FlightOK(g)'
  BY FlightNames DEF FlightOK, FreeOK, OldOK, LoadOK, RetireOK, EndOK, StorageOK, WriterOK, Composing,
     Retained, Prepares, Proven, NothingOld, Holds, ComposingKinds
<1>2. SlotOK(c)'
  BY FlightNames DEF SlotOK, Composing, NoFlight
<1> QED
  BY <1>1, <1>2

LEMMA ReceiptsTyped ==
    ASSUME RegistryOK, NEW f \in Flights, NEW c
    PROVE  /\ WithReceipts(f, c) \in [Agents -> CallRecords]
           /\ \A q \in Agents : LET y == WithReceipts(f, c)[q]
                                IN /\ y.op = calls[q].op /\ y.at = calls[q].at
                                   /\ y.conv = calls[q].conv /\ y.flight = calls[q].flight
                                   /\ y.todo = calls[q].todo
<1>1. \A x \in CallRecords : LET y == [x EXCEPT !.bound = f]
                             IN /\ y \in CallRecords /\ y.op = x.op /\ y.at = x.at
                                /\ y.conv = x.conv /\ y.flight = x.flight /\ y.todo = x.todo
  BY DEF CallRecords
<1>2. \A q \in Agents : /\ calls[q] \in CallRecords
                        /\ \/ WithReceipts(f, c)[q] = calls[q]
                           \/ WithReceipts(f, c)[q] = [calls[q] EXCEPT !.bound = f]
  BY DEF WithReceipts, RegistryOK
<1>3. WithReceipts(f, c) \in [Agents -> CallRecords]
  BY <1>1, <1>2 DEF WithReceipts
<1> QED
  BY <1>1, <1>2, <1>3

LEMMA ReceiptsAreSame ==
    ASSUME RegistryOK, NEW f \in Flights, NEW c, calls' = WithReceipts(f, c)
    PROVE  calls' \in [Agents -> CallRecords] /\ \A q \in Agents : SameCall(q)
BY ReceiptsTyped DEF SameCall

LEMMA ReceiptsBut ==
    ASSUME RegistryOK, NEW f \in Flights, NEW c, NEW p \in Agents, NEW x \in CallRecords,
           calls' = [WithReceipts(f, c) EXCEPT ![p] = x]
    PROVE  calls' \in [Agents -> CallRecords] /\ calls'[p] = x /\ \A q \in Agents \ {p} : SameCall(q)
<1>1. PICK w : w = WithReceipts(f, c)
  OBVIOUS
<1>2. /\ w \in [Agents -> CallRecords]
      /\ \A q \in Agents : /\ w[q].op = calls[q].op /\ w[q].at = calls[q].at
                           /\ w[q].conv = calls[q].conv /\ w[q].flight = calls[q].flight
                           /\ w[q].todo = calls[q].todo
  BY <1>1, ReceiptsTyped
<1>3. calls' = [w EXCEPT ![p] = x]
  BY <1>1
<1> QED
  BY <1>2, <1>3 DEF SameCall

\* The result is there; what remains of the slot's runtime is past.
EndedFlights(f, q) == [flights EXCEPT ![f].pc = "done", ![f].result = flights[f].outcome,
                                      ![f].restart = FALSE, ![f].req = q]

EndedAs(f, q) == \A x \in Flights : flights[x].kind # "free" => flights'[x] = EndedFlights(f, q)[x]

Ended(f, c) ==
    /\ \A x \in Flights \ {f} : flights[x].kind # "free" => flights'[x] = flights[x]
    /\ flights'[f].kind = flights[f].kind /\ flights'[f].conv = c
    /\ flights'[f].old = flights[f].old /\ flights'[f].comp = flights[f].comp
    /\ flights'[f].ops = flights[f].ops /\ flights'[f].pc = "done"
    /\ flights'[f].result = flights[f].outcome
    /\ flights'[f].native = flights[f].native
    /\ Advances(f)
    /\ flights[f].outcome # "unproven" => FlightOK(f)'
    /\ \A r \in Flights : r = entries[c].runtime /\ r # f /\ flights[f].outcome # "unproven" =>
         Advances(r) /\ flights[r].conv = c /\ FlightOK(r)'

LEMMA PublishEnds ==
    ASSUME ResidencyInv, NEW f \in Flights, flights[f].pc = "publishing",
           NEW c \in Conversations, Begun(f, c),
           NEW q \in {"no", "requested", "closing"}, EndedAs(f, q)
    PROVE  Ended(f, c)
<1>1. /\ flights[f].outcome # "none" /\ entries[c].flight = f /\ flights[f].result = "none"
      /\ flights[f].outcome # "unproven" => ~flights[f].comp /\ NothingOld(f)
      /\ c = flights[f].conv /\ flights[f].kind # "free"
      /\ entries[c].phase \in {"Loading", "Unloading"}
  BY DEF Begun, FlightOK, EndOK, Holds
<1>2. /\ \A x \in Flights \ {f} : flights[x].kind # "free" => flights'[x] = flights[x]
      /\ flights'[f].kind = flights[f].kind /\ flights'[f].conv = c
      /\ flights'[f].old = flights[f].old /\ flights'[f].comp = flights[f].comp
      /\ flights'[f].ops = flights[f].ops /\ flights'[f].pc = "done"
      /\ flights'[f].result = flights[f].outcome
      /\ flights'[f].native = flights[f].native
  <2>1. flights'[f] = EndedFlights(f, q)[f]
    BY <1>1 DEF EndedAs
  <2> QED
    BY <1>1, <2>1 DEF Begun, FlightRecords, EndedFlights, EndedAs
<1>3. Advances(f)
  BY <1>1, <1>2 DEF Advances
<1>4. flights[f].old \notin {NoFlight, f} =>
          flights[flights[f].old].kind # "free" /\ flights[f].old \in Flights
  BY DEF Begun, FlightOK, OldOK, Prepares
<1>5. ASSUME flights[f].outcome # "unproven" PROVE FlightOK(f)'
  <2>1. NothingOld(f)'
    BY <1>1, <1>2, <1>4, <1>5 DEF NothingOld
  <2>2. OldOK(f)'
    BY <1>2, <1>4 DEF Begun, FlightOK, OldOK, Prepares
  <2>3. ~flights'[f].comp /\ flights'[f].result \in Proven /\ flights'[f].kind # "free"
    <3>1. flights[f].outcome \in {"none", "absent", "cancelled", "failedAbsent", "unproven"}
      BY DEF Begun, FlightRecords
    <3> QED
      BY <1>1, <1>2, <1>5, <3>1 DEF Proven
  <2> QED
    BY <1>2, <2>1, <2>2, <2>3 DEF FlightOK, FreeOK, LoadOK, RetireOK, EndOK, StorageOK, WriterOK,
       Composing, Retained, Proven
<1>6. ASSUME NEW r \in Flights, r = entries[c].runtime, r # f, flights[f].outcome # "unproven"
      PROVE  Advances(r) /\ flights[r].conv = c /\ FlightOK(r)'
  <2>1. /\ flights[r].conv = c /\ Prepares(r) /\ r = flights[f].old
        /\ flights[r].pc \in {"report", "done"}
    BY <1>1, <1>6, FlightNames DEF Begun, SlotOK, SlotShape
  <2>2. flights'[r] = flights[r] /\ flights[r].kind # "free" /\ ~flights[r].comp
    BY <1>1, <1>2, <1>6, <2>1, FlightNames DEF Prepares, NothingOld
  <2>3. FlightOK(r)
    BY DEF ResidencyInv, FlightInv
  <2>4. flights[r].old \notin {NoFlight, r} => flights'[flights[r].old] = flights[flights[r].old]
    <3>1. flights[r].old \in Flights \cup {NoFlight}
      BY <2>2 DEF ResidencyInv, RegistryOK, FlightRecords
    <3> QED
      BY <1>2, <2>3, <3>1 DEF FlightOK, OldOK, Prepares
  <2>5. flights[r].result # "unproven"
    BY <1>1, <1>6, <2>1, <2>3 DEF FlightOK, EndOK
  <2>6. FlightOK(r)'
    BY <2>1, <2>2, <2>3, <2>4, <2>5, PastRuntime
  <2> QED
    BY <2>1, <2>2, <2>6 DEF Advances
<1> QED
  BY <1>2, <1>3, <1>5, <1>6 DEF Ended

LEMMA PublishStep ==
    ASSUME ResidencyInv, NEW f \in Flights, Publish(f)
    PROVE  ResidencyInv'
<1>1. flights[f].pc = "publishing" /\ RegistryOK
  BY DEF Publish, At, ResidencyInv
<1>2. PICK c \in Conversations : Begun(f, c)
  BY <1>1, BegunFlight
<1>3. /\ flights[f].outcome # "none" /\ entries[c].flight = f /\ flights[f].result = "none"
      /\ entries[c].phase \in {"Loading", "Unloading"} /\ c = flights[f].conv
      /\ entries[c].phase = "Loading" => flights[f].outcome # "unproven"
      /\ flights[f].outcome \in {"absent", "cancelled", "failedAbsent", "unproven"}
      /\ flights \in [Flights -> FlightRecords]
  BY <1>1, <1>2 DEF Begun, FlightOK, EndOK, Holds, FlightRecords
<1>4. PICK q \in {"no", "requested", "closing"} :
          q = IF flights[f].outcome = "absent" THEN flights[f].req ELSE "closing"
  BY <1>3 DEF FlightRecords
<1>5. PICK h : h = [flights EXCEPT ![f].pc = "done", ![f].result = flights[f].outcome,
                               ![f].restart = FALSE, ![f].req = q]
  OBVIOUS
<1>6. h \in [Flights -> FlightRecords]
  BY ZenonT(60), <1>3, <1>5, EditPc, EditResult, EditRestart, EditReq
<1>7. PICK r : r = entries[c].runtime
  OBVIOUS
<1>8. r \in Flights \cup {NoFlight}
  BY <1>2, <1>3, <1>7 DEF Begun, SlotShape
<1>9. UNCHANGED <<pending, draining, retiring, exists, deleted, drain>>
  BY DEF Publish
<1>10. CASE ~WriterAbsent(f) /\ flights' = h /\ UNCHANGED <<entries, bySession, failed, calls>>
  <2>1. entries[c].phase = "Unloading" /\ flights[f].outcome = "unproven"
    BY <1>3, <1>10 DEF WriterAbsent
  <2>2. /\ flights'[f].kind = flights[f].kind /\ flights'[f].conv = c
        /\ flights'[f].old = flights[f].old /\ flights'[f].comp = flights[f].comp
        /\ flights'[f].ops = flights[f].ops /\ flights'[f].pc = "done"
        /\ flights'[f].result = flights[f].outcome /\ Advances(f)
    <3>1. EndedAs(f, q)
      BY <1>5, <1>10 DEF EndedAs, EndedFlights
    <3> QED
      BY <1>1, <1>2, <3>1, PublishEnds DEF Ended
  <2>3. \A g \in Flights : g # f => flights'[g] = flights[g]
    BY <1>3, <1>5, <1>10
  <2>4. FlightOK(f)'
    BY <1>1, <1>2, <1>3, <1>10, <2>1, <2>2, <2>3, FlightNames DEF FlightOK, FreeOK, OldOK, LoadOK,
       RetireOK, EndOK, StorageOK, WriterOK, Holds, Composing, Retained, Proven, Prepares,
       ComposingKinds, Begun
  <2>5. SlotOK(c)'
    BY <1>2, <1>3, <1>10, <2>1, <2>2, <2>3, FlightNames DEF SlotOK, Begun, Prepares, SlotShape
  <2> QED
    BY <1>3, <1>6, <1>9, <1>10, <2>1, <2>2, <2>3, <2>4, <2>5, FlightStep DEF FlightMoves
<1>11. ASSUME WriterAbsent(f), RestartWanted(f), NEW g \in Flights, Fresh(g), Put(c, Loading(g)),
              bySession' = [bySession EXCEPT ![SessionOf[c]] = c],
              flights' = [h EXCEPT ![g] = Flight("load", c, "acquire", NoFlight,
                               flights[f].submitted \/ Unbound(c) # {})],
              calls' = WithReceipts(g, c), failed' = failed
       PROVE  ResidencyInv'
  <2>1. /\ entries' \in [Conversations -> Slots] /\ entries'[c] = Loading(g)
        /\ \A d \in Conversations \ {c} : entries'[d] = entries[d]
    BY <1>1, <1>11, PutTyped, SlotForms
  <2>2. entries'[c].phase = "Loading" /\ entries'[c].flight = g /\ entries'[c].runtime = NoFlight
    BY <2>1 DEF Loading
  <2>3. PICK b \in BOOLEAN : b = (flights[f].submitted \/ Unbound(c) # {})
    OBVIOUS
  <2>4. PICK x : x = Flight("load", c, "acquire", NoFlight, b)
    OBVIOUS
  <2>5. /\ x \in FlightRecords /\ x.kind = "load" /\ x.conv = c /\ x.pc = "acquire" /\ x.old = NoFlight
        /\ ~x.comp /\ x.ops = 0 /\ x.result = "none"
    <3>1. NewRecord(x, "load", c, "acquire", NoFlight)
      BY <2>4, NewFlight
    <3> QED
      BY <3>1 DEF NewRecord
  <2>6. flights' = [h EXCEPT ![g] = x]
    BY <1>11, <2>3, <2>4
  <2>7. flights' \in [Flights -> FlightRecords] /\ flights'[g] = x
        /\ \A y \in Flights \ {g} : flights'[y] = h[y]
    BY <1>6, <2>5, <2>6
  <2>8. flights[g].kind = "free" /\ r # g /\ f # g
    BY <1>1, <1>7, <1>11, FreshFlight
  <2>9. flights[f].outcome # "unproven"
    BY <1>11 DEF WriterAbsent
  <2>10. /\ Advances(f) /\ FlightOK(f)' /\ \A y \in Flights \ {f} : flights[y].kind # "free" => flights'[y] = flights[y]
         /\ r \in Flights /\ r # f => Advances(r) /\ flights[r].conv = c /\ FlightOK(r)'
    <3>1. EndedAs(f, q)
      BY <1>5, <2>7, <2>8 DEF EndedAs, EndedFlights
    <3>2. Ended(f, c)
      BY <1>1, <1>2, <3>1, PublishEnds
    <3> QED
      BY <1>7, <2>9, <3>2 DEF Ended
  <2>11. FlightOK(g)' /\ SlotOK(c)'
    BY <2>2, <2>5, <2>7, NewLoadOK DEF ComposingKinds
  <2> DEFINE S == {f, g, r} \ {NoFlight}
  <2>12. FlightsMove(c, S)
    <3>1. \A y \in Flights \ S : flights'[y] = flights[y]
      BY <1>3, <1>5, <2>7, FlightNames
    <3>2. Begins(g)
      BY <2>5, <2>7, <2>8 DEF Begins
    <3> QED
      BY <1>3, <1>8, <2>10, <2>11, <3>1, <3>2 DEF FlightsMove
  <2>13. ~draining /\ SessionOf[c] \notin retiring /\ bySession[SessionOf[c]] = c
    BY <1>3, <1>11 DEF RestartWanted, Fenced, ResidencyInv, IndexInv, Resident
  <2>14. EntryMoves(c, S)
    BY <1>3, <1>7, <1>8, <2>1, <2>2, <2>11, <2>13, FlightNames DEF EntryMoves, ResidencyInv, ExistInv
  <2>15. RoomMoves
    <3>1. bySession' = bySession
      BY <1>1, <1>11, <2>13 DEF RegistryOK
    <3>2. Residents' = Residents
      BY <3>1 DEF Residents
    <3>3. IndexInv'
      BY <1>3, <2>1, <2>2, <3>1, IndexKept DEF ResidencyInv, Resident
    <3> QED
      BY <3>2, <3>3 DEF RoomMoves, ResidencyInv, RoomInv
  <2>16. calls' \in [Agents -> CallRecords] /\ CallsMove({})
    BY <1>1, <1>11, ReceiptsAreSame DEF CallsMove
  <2>17. RegistryOK'
    <3>1. bySession' \in [Sessions -> Conversations \cup {NoConversation}]
      BY <1>1, <1>11 DEF RegistryOK
    <3> QED
      BY <1>1, <1>9, <1>11, <2>1, <2>7, <2>16, <3>1 DEF RegistryOK, Slots
  <2>18. {} \in SUBSET Agents /\ S \in SUBSET Flights
    BY <1>8
  <2> HIDE DEF S
  <2> QED
    BY <1>9, <2>12, <2>14, <2>15, <2>16, <2>17, <2>18, SlotStep
<1>12. ASSUME WriterAbsent(f), Emptied(c), flights' = h, calls' = calls,
              failed' \in [Conversations -> Flights \cup {NoFlight}]
       PROVE  ResidencyInv'
  <2>1. /\ entries' \in [Conversations -> Slots] /\ entries'[c] = Empty
        /\ \A d \in Conversations \ {c} : entries'[d] = entries[d]
    BY <1>1, <1>12, PutTyped, SlotForms DEF Emptied
  <2>2. entries'[c].phase = "None" /\ entries'[c].flight = NoFlight /\ entries'[c].runtime = NoFlight
    BY <2>1 DEF Empty
  <2>3. flights[f].outcome # "unproven"
    BY <1>12 DEF WriterAbsent
  <2>4. /\ Advances(f) /\ FlightOK(f)'
        /\ r \in Flights /\ r # f => Advances(r) /\ flights[r].conv = c /\ FlightOK(r)'
    <3>1. EndedAs(f, q)
      BY <1>5, <1>12 DEF EndedAs, EndedFlights
    <3>2. Ended(f, c)
      BY <1>1, <1>2, <3>1, PublishEnds
    <3> QED
      BY <1>7, <2>3, <3>2 DEF Ended
  <2>5. SlotOK(c)'
    BY <2>2 DEF SlotOK
  <2> DEFINE S == {f, r} \ {NoFlight}
  <2>6. FlightsMove(c, S)
    <3>1. \A y \in Flights \ S : flights'[y] = flights[y]
      BY <1>3, <1>5, <1>12, FlightNames
    <3> QED
      BY <1>3, <1>8, <2>4, <3>1 DEF FlightsMove
  <2>7. EntryMoves(c, S)
    BY <1>3, <1>7, <1>8, <2>1, <2>2, <2>5, FlightNames DEF EntryMoves
  <2>8. /\ IndexInv' /\ Residents' \subseteq Residents
        /\ bySession' \in [Sessions -> Conversations \cup {NoConversation}]
    BY <1>1, <1>12, <2>1, <2>2, IndexFreed DEF Emptied, ResidencyInv
  <2>9. RoomMoves
    <3>1. Cardinality(Residents) + pending <= MaxResident /\ pending \in Nat
      BY <1>1 DEF ResidencyInv, RoomInv, RegistryOK
    <3> QED
      BY <2>8, <3>1, ResidentsFinite, RoomFreed DEF RoomMoves
  <2>10. CallsMove({})
    BY <1>12 DEF CallsMove, SameCall
  <2>11. RegistryOK'
    BY <1>1, <1>6, <1>9, <1>12, <2>1, <2>8 DEF RegistryOK, Slots
  <2>12. {} \in SUBSET Agents /\ S \in SUBSET Flights
    BY <1>8
  <2> HIDE DEF S
  <2> QED
    BY <1>9, <2>6, <2>7, <2>9, <2>10, <2>11, <2>12, SlotStep
<1>13. CASE /\ WriterAbsent(f) /\ RestartWanted(f)
            /\ \E g \in Flights :
                  /\ Fresh(g)
                  /\ Put(c, Loading(g))
                  /\ bySession' = [bySession EXCEPT ![SessionOf[c]] = c]
                  /\ flights' = [h EXCEPT ![g] =
                        Flight("load", c, "acquire", NoFlight,
                               flights[f].submitted \/ Unbound(c) # {})]
                  /\ calls' = WithReceipts(g, c)
            /\ UNCHANGED failed
  BY <1>11, <1>13
<1>14. CASE /\ WriterAbsent(f)
            /\ Emptied(c)
            /\ failed' = [failed EXCEPT ![c] =
                    IF flights[f].outcome = "failedAbsent" /\ flights[f].submitted /\ ~Fenced(c)
                    THEN f ELSE NoFlight]
            /\ flights' = h
            /\ UNCHANGED calls
  <2>1. failed' \in [Conversations -> Flights \cup {NoFlight}]
    <3>1. failed \in [Conversations -> Flights \cup {NoFlight}]
      BY <1>1 DEF RegistryOK
    <3>2. CASE flights[f].outcome = "failedAbsent" /\ flights[f].submitted /\ ~Fenced(c)
      BY <1>14, <3>1, <3>2
    <3>3. CASE ~(flights[f].outcome = "failedAbsent" /\ flights[f].submitted /\ ~Fenced(c))
      BY <1>14, <3>1, <3>3
    <3> QED
      BY <3>2, <3>3
  <2> QED
    BY <1>12, <1>14, <2>1
<1> QED
  BY <1>3, <1>4, <1>5, <1>10, <1>13, <1>14 DEF Publish

LEMMA StorageHasNoOperations ==
    ASSUME ResidencyInv, NEW f \in Flights, flights[f].kind = "storage"
    PROVE  flights[f].ops = 0
<1>1. OpsOf(f) = {}
  BY DEF OpsOf, ResidencyInv, CallInv, CallOK, Prepares, Agents
<1> QED
  BY <1>1, FS_EmptySet DEF ResidencyInv, OpsInv

\* A flight on a store alone goes on and keeps its slot as it is.
LEMMA StorageStep ==
    ASSUME ResidencyInv, NEW f \in Flights, NEW c \in Conversations, Begun(f, c),
           flights[f].pc \in {"open", "close", "announce"},
           flights' \in [Flights -> FlightRecords],
           \A g \in Flights : g # f => flights'[g] = flights[g],
           /\ flights'[f].kind = flights[f].kind /\ flights'[f].conv = flights[f].conv
           /\ flights'[f].old = flights[f].old /\ flights'[f].ops = flights[f].ops,
           flights[f].comp => flights'[f].comp,
           \/ /\ flights[f].pc = "open" /\ flights'[f].pc = "close" /\ flights'[f].result = "none"
           \/ /\ flights[f].pc = "close" /\ flights'[f].pc = "announce"
              /\ flights'[f].outcome = "unproven" /\ flights'[f].result = "none"
           \/ /\ flights[f].pc = "announce" /\ flights'[f].pc = "done"
              /\ flights'[f].result = flights[f].outcome
              /\ flights'[f].comp => flights[f].comp,
           UNCHANGED <<entries, bySession, failed, pending, draining, retiring, calls, exists,
                       deleted, drain>>
    PROVE  ResidencyInv'
<1>1. /\ flights[f].kind = "storage" /\ flights[f].result = "none" /\ flights[f].old = NoFlight
      /\ c = flights[f].conv
  BY DEF Begun, FlightOK, StorageOK, EndOK
<1>2. entries[c].runtime # f
  BY <1>1, FlightNames DEF Begun, SlotOK, Prepares
<1>3. Advances(f)
  BY <1>1 DEF Advances
<1>4. FreeOK(f)' /\ OldOK(f)' /\ LoadOK(f)' /\ RetireOK(f)'
  BY <1>1 DEF FreeOK, OldOK, LoadOK, RetireOK, Composing, Retained
<1>5. NothingOld(f)'
  BY <1>1 DEF NothingOld
<1>6. EndOK(f)' /\ StorageOK(f)'
  BY <1>1, <1>5 DEF Begun, FlightOK, StorageOK, EndOK, Proven, Holds
<1>7. WriterOK(f)'
  BY <1>1 DEF Begun, FlightOK, StorageOK, WriterOK, Holds
<1>8. SlotOK(c)'
  BY ZenonT(60), <1>1, <1>2, FlightNames DEF Begun, FlightOK, StorageOK, SlotOK, SlotShape, Prepares, Holds, Composing,
     Retained
<1>9. FlightMoves(f)
  BY <1>3, <1>4, <1>6, <1>7 DEF FlightMoves, FlightOK
<1> QED
  BY <1>1, <1>2, <1>8, <1>9, FlightStep

LEMMA StorageOpenStep ==
    ASSUME ResidencyInv, NEW f \in Flights, StorageOpen(f)
    PROVE  ResidencyInv'
<1>1. PICK c \in Conversations : Begun(f, c)
  BY BegunFlight DEF StorageOpen, At
<1>2. flights[f].pc = "open" /\ flights[f].result = "none"
  BY <1>1 DEF StorageOpen, At, Begun, FlightOK, EndOK
<1>3. CASE flights' = [flights EXCEPT ![f].pc = "close"]
  <2>1. flights' \in [Flights -> FlightRecords]
    BY <1>1, <1>3, EditPc DEF Begun
  <2> QED
    BY <1>1, <1>2, <1>3, <2>1, StorageStep DEF StorageOpen, Begun, FlightRecords
<1>4. CASE flights' = [flights EXCEPT ![f].pc = "close", ![f].comp = TRUE]
  <2>1. flights' \in [Flights -> FlightRecords]
    BY <1>1, <1>4, EditPc, EditComp DEF Begun
  <2> QED
    BY <1>1, <1>2, <1>4, <2>1, StorageStep DEF StorageOpen, Begun, FlightRecords
<1> QED
  BY <1>3, <1>4 DEF StorageOpen

LEMMA StorageAnnounceStep ==
    ASSUME ResidencyInv, NEW f \in Flights, StorageAnnounce(f)
    PROVE  ResidencyInv'
<1>1. PICK c \in Conversations : Begun(f, c)
  BY BegunFlight DEF StorageAnnounce, At
<1>2. flights[f].pc = "announce" /\ flights[f].outcome \in {"absent", "unproven"}
  BY <1>1 DEF StorageAnnounce, At, Begun, FlightOK, StorageOK
<1>3. flights' = [flights EXCEPT ![f].pc = "done", ![f].result = flights[f].outcome]
  BY DEF StorageAnnounce
<1>4. flights' \in [Flights -> FlightRecords]
  BY <1>1, <1>2, <1>3, EditPc, EditResult DEF Begun
<1> QED
  BY <1>1, <1>2, <1>3, <1>4, StorageStep DEF StorageAnnounce, Begun, FlightRecords

LEMMA StorageCloseStep ==
    ASSUME ResidencyInv, NEW f \in Flights, StorageClose(f)
    PROVE  ResidencyInv'
<1>1. PICK c \in Conversations : Begun(f, c)
  BY BegunFlight DEF StorageClose, At
<1>2. /\ flights[f].pc = "close" /\ flights[f].result = "none" /\ flights[f].old = NoFlight
      /\ flights[f].kind = "storage" /\ c = flights[f].conv /\ RegistryOK
      /\ entries[c].phase = "StorageOnly" /\ entries[c].flight = f /\ entries[c].runtime = NoFlight
  BY <1>1 DEF StorageClose, At, Begun, FlightOK, EndOK, StorageOK, SlotShape, Holds, ResidencyInv
<1>3. CASE /\ flights[f].comp
           /\ flights' = [flights EXCEPT ![f].pc = "announce", ![f].outcome = "unproven"]
           /\ UNCHANGED <<entries, bySession, failed>>
  <2>1. flights' \in [Flights -> FlightRecords]
    BY <1>1, <1>3, EditPc, EditOutcome DEF Begun
  <2> QED
    BY <1>1, <1>2, <1>3, <2>1, StorageStep DEF StorageClose, Begun, FlightRecords
<1>4. CASE /\ flights' = [flights EXCEPT ![f].pc = "announce", ![f].comp = FALSE,
                                         ![f].outcome = "absent"]
           /\ Removed(c)
  <2>1. /\ entries' \in [Conversations -> Slots] /\ entries'[c] = Empty
        /\ \A d \in Conversations \ {c} : entries'[d] = entries[d]
    BY <1>2, <1>4, PutTyped, SlotForms DEF Removed, Emptied
  <2>2. entries'[c].phase = "None" /\ entries'[c].flight = NoFlight /\ entries'[c].runtime = NoFlight
    BY <2>1 DEF Empty
  <2>3. flights' \in [Flights -> FlightRecords]
    BY <1>1, <1>4, EditPc, EditComp, EditOutcome DEF Begun
  <2>4. /\ \A g \in Flights \ {f} : flights'[g] = flights[g]
        /\ flights'[f].kind = "storage" /\ flights'[f].conv = c /\ flights'[f].old = NoFlight
        /\ flights'[f].ops = flights[f].ops /\ flights'[f].result = "none"
        /\ flights'[f].pc = "announce" /\ ~flights'[f].comp /\ flights'[f].outcome = "absent"
    BY <1>1, <1>2, <1>4 DEF Begun, FlightRecords
  <2>5. Advances(f)
    BY <1>2, <2>4, StorageHasNoOperations DEF Advances
  <2>6. FlightOK(f)'
    BY <2>4 DEF FlightOK, FreeOK, OldOK, LoadOK, RetireOK, EndOK, StorageOK, WriterOK, Composing,
       Retained, Proven, Prepares
  <2>7. SlotOK(c)'
    BY <2>2 DEF SlotOK
  <2>8. FlightsMove(c, {f})
    BY <1>2, <2>4, <2>5, <2>6 DEF FlightsMove
  <2>9. EntryMoves(c, {f})
    BY <1>2, <2>1, <2>2, <2>7 DEF EntryMoves
  <2>10. /\ IndexInv' /\ Residents' \subseteq Residents
         /\ bySession' \in [Sessions -> Conversations \cup {NoConversation}]
    BY <1>2, <1>4, <2>1, <2>2, IndexFreed DEF Removed, Emptied, ResidencyInv
  <2>11. RoomMoves
    <3>1. Cardinality(Residents) + pending <= MaxResident /\ pending \in Nat
      BY <1>2 DEF ResidencyInv, RoomInv, RegistryOK
    <3> QED
      BY <2>10, <3>1, ResidentsFinite, RoomFreed DEF RoomMoves
  <2>12. CallsMove({})
    BY DEF CallsMove, SameCall, StorageClose
  <2>13. RegistryOK'
    <3>1. failed' \in [Conversations -> Flights \cup {NoFlight}]
      BY <1>2, <1>4 DEF Removed, RegistryOK
    <3> QED
      BY <1>2, <2>1, <2>3, <2>10, <3>1 DEF RegistryOK, Slots, StorageClose
  <2>14. {} \in SUBSET Agents /\ {f} \in SUBSET Flights
    OBVIOUS
  <2>15. UNCHANGED <<pending, draining, retiring, exists, drain>>
    BY DEF StorageClose
  <2> QED
    BY <2>8, <2>9, <2>11, <2>12, <2>13, <2>14, <2>15, SlotStep
<1> QED
  BY <1>2, <1>3, <1>4 DEF StorageClose

\* A flight that moves in nothing but its receipts, or whose retirement is requested.
SameWork(f) ==
    /\ \A g \in Flights : g # f => flights'[g] = flights[g]
    /\ flights'[f].kind = flights[f].kind /\ flights'[f].conv = flights[f].conv
    /\ flights'[f].old = flights[f].old /\ flights'[f].comp = flights[f].comp
    /\ flights'[f].ops = flights[f].ops /\ flights'[f].pc = flights[f].pc
    /\ flights'[f].result = flights[f].result /\ flights'[f].outcome = flights[f].outcome
    /\ \/ flights'[f].req # "no"
       \/ flights'[f].req = flights[f].req /\ flights'[f].native = flights[f].native
    /\ UNCHANGED entries

LEMMA SameWorkStep ==
    ASSUME NEW f \in Flights, NEW c \in Conversations, Begun(f, c), SameWork(f)
    PROVE  FlightMoves(f) /\ SlotOK(c)'
<1>1. Advances(f)
  BY DEF Advances, Begun, SameWork
<1>2. NothingOld(f) => NothingOld(f)'
  BY DEF NothingOld, Begun, SameWork
<1>3. FreeOK(f)' /\ OldOK(f)'
  BY DEF FlightOK, FreeOK, OldOK, Begun, Prepares, SameWork
<1>4. LoadOK(f)' /\ StorageOK(f)' /\ WriterOK(f)' /\ EndOK(f)'
  BY <1>2 DEF FlightOK, LoadOK, StorageOK, WriterOK, EndOK, Begun, Prepares, Holds, SameWork
<1>5. RetireOK(f)'
  BY <1>2, FlightNames DEF FlightOK, RetireOK, Begun, Holds, SlotShape, Retained, SameWork
<1>6. SlotOK(c)'
  BY SMTT(30), FlightNames DEF SlotOK, Begun, SlotShape, Prepares, SameWork
<1> QED
  BY <1>1, <1>3, <1>4, <1>5, <1>6 DEF FlightMoves, FlightOK, SameWork

LEMMA CloseNativeStep ==
    ASSUME ResidencyInv, NEW f \in Flights, CloseNative(f)
    PROVE  ResidencyInv'
<1>1. flights[f].req = "closing" /\ flights[f].pc # "none"
  BY DEF CloseNative, ResidencyInv, FlightInv, FlightOK, FreeOK, Unused
<1>2. PICK c \in Conversations : Begun(f, c)
  BY <1>1, BegunFlight
<1>3. flights' = [flights EXCEPT ![f].native = "draining"] /\ entries' = entries
  BY DEF CloseNative
<1>4. flights' \in [Flights -> FlightRecords]
  BY <1>2, <1>3, EditNative DEF Begun
<1>5. SameWork(f)
  BY <1>1, <1>2, <1>3 DEF Begun, FlightRecords, SameWork
<1>6. FlightMoves(f) /\ SlotOK(c)' /\ c = flights[f].conv
  BY <1>2, <1>5, SameWorkStep DEF Begun
<1>7. entries[c].phase = "Loaded" =>
             entries[c].runtime # f \/ draining \/ \E p \in Agents : Claimer(p, c)
  BY <1>1 DEF ResidencyInv, UsableInv
<1> QED
  BY <1>4, <1>6, <1>7, FlightStep DEF CloseNative

-----------------------------------------------------------------------------
(* A resident runtime is taken from its slot.                              *)

TakesLoaded(c, r, f, k, pc) ==
    /\ entries[c].phase = "Loaded" /\ r = entries[c].runtime /\ Fresh(f)
    /\ flights' \in [Flights -> FlightRecords]
    /\ \A g \in Flights \ {f, r} : flights'[g] = flights[g]
    /\ NewRecord(flights'[f], k, c, pc, r)
    /\ flights'[r].kind = flights[r].kind /\ flights'[r].conv = flights[r].conv
    /\ flights'[r].pc = flights[r].pc /\ flights'[r].old = flights[r].old
    /\ flights'[r].comp = flights[r].comp /\ flights'[r].ops = flights[r].ops
    /\ flights'[r].result = flights[r].result
    /\ Put(c, Unloading(r, f))
    /\ UNCHANGED <<bySession, failed, pending, draining, retiring, exists, deleted, drain>>

LEMMA LoadedSlot ==
    ASSUME ResidencyInv, NEW c \in Conversations, entries[c].phase = "Loaded"
    PROVE  \E r \in Flights :
             /\ r = entries[c].runtime /\ entries[c].flight = NoFlight
             /\ flights[r].conv = c /\ Prepares(r) /\ flights[r].pc \in {"report", "done"}
             /\ flights[r].result \in {"none", "resident"} /\ flights[r].comp /\ FlightOK(r)
<1>1. SlotShape(entries[c])
  BY EntryShapes DEF ResidencyInv, RegistryOK, Slots
<1>2. SlotOK(c) /\ entries[c].runtime \in Flights /\ entries[c].flight = NoFlight
  BY <1>1 DEF SlotShape, ResidencyInv, SlotInv
<1>3. FlightOK(entries[c].runtime)
  BY <1>2 DEF ResidencyInv, FlightInv
<1> QED
  BY <1>2, <1>3, FlightNames DEF SlotOK

LEMMA TakeLoaded ==
    ASSUME ResidencyInv, NEW c \in Conversations, NEW r \in Flights, NEW f \in Flights,
           NEW k \in {"replace", "unload", "reap"}, NEW pc \in {"ops", "reaped"},
           TakesLoaded(c, r, f, k, pc), calls' \in [Agents -> CallRecords],
           NEW P \in SUBSET Agents, CallsMove(P)
    PROVE  ResidencyInv'
<1>1. /\ r = entries[c].runtime /\ entries[c].flight = NoFlight
      /\ flights[r].conv = c /\ Prepares(r) /\ flights[r].pc \in {"report", "done"}
      /\ flights[r].result \in {"none", "resident"} /\ flights[r].comp /\ FlightOK(r)
  BY LoadedSlot DEF TakesLoaded
<1>2. /\ flights[f].kind = "free" /\ r # f /\ \A g \in Flights : flights[g].old # f
  BY <1>1, FreshFlight DEF TakesLoaded
<1>3. RegistryOK /\ entries[c].phase = "Loaded" /\ f # NoFlight /\ r # NoFlight
  BY FlightNames DEF ResidencyInv, TakesLoaded
<1>4. /\ entries' \in [Conversations -> Slots] /\ entries'[c] = Unloading(r, f)
      /\ \A d \in Conversations \ {c} : entries'[d] = entries[d]
  BY <1>3, PutTyped, SlotForms DEF TakesLoaded
<1>5. entries'[c].phase = "Unloading" /\ entries'[c].flight = f /\ entries'[c].runtime = r
  BY <1>4 DEF Unloading
<1>6. /\ flights'[f].kind = k /\ flights'[f].conv = c /\ flights'[f].pc = pc /\ flights'[f].old = r
      /\ ~flights'[f].comp /\ flights'[f].ops = 0 /\ flights'[f].result = "none"
  BY DEF TakesLoaded, NewRecord
<1>7. /\ flights'[r].kind = flights[r].kind /\ flights'[r].conv = c
      /\ flights'[r].pc = flights[r].pc /\ flights'[r].old = flights[r].old
      /\ flights'[r].comp /\ flights'[r].ops = flights[r].ops
      /\ flights'[r].result = flights[r].result /\ Prepares(r)'
  BY <1>1 DEF TakesLoaded, Prepares
<1>8. Advances(r) /\ Begins(f)
  BY <1>1, <1>2, <1>6, <1>7 DEF Advances, Begins, Prepares
<1>9. FlightOK(f)'
  BY <1>1, <1>5, <1>6, <1>7, <1>3 DEF FlightOK, FreeOK, OldOK, LoadOK, RetireOK, EndOK, StorageOK,
     WriterOK, Holds, Composing, Retained, Proven, NothingOld
<1>10. FlightOK(r)'
  <2>1. flights[r].old \in Flights \cup {NoFlight} /\ flights[r].old # f
    BY <1>2, <1>3 DEF RegistryOK, FlightRecords
  <2>2. OldOK(r)'
    BY <1>1, <1>7, <2>1 DEF FlightOK, OldOK, TakesLoaded, Prepares
  <2> QED
    BY <1>1, <1>5, <1>7, <2>2 DEF FlightOK, FreeOK, LoadOK, RetireOK, EndOK, StorageOK,
       WriterOK, Composing, Retained, Proven, Prepares, ComposingKinds
<1>11. SlotOK(c)'
  BY <1>1, <1>3, <1>5, <1>6, <1>7 DEF SlotOK, Retained
<1>12. FlightsMove(c, {f, r})
  BY <1>1, <1>8, <1>9, <1>10 DEF FlightsMove, TakesLoaded
<1>13. EntryMoves(c, {f, r})
  BY <1>1, <1>3, <1>4, <1>5, <1>11 DEF EntryMoves, ResidencyInv, ExistInv
<1>14. RoomMoves
  <2>1. bySession' = bySession /\ Residents' = Residents
    BY DEF TakesLoaded, Residents
  <2>2. IndexInv'
    BY <1>3, <1>4, <1>5, <2>1, IndexKept DEF ResidencyInv, Resident
  <2> QED
    BY <2>1, <2>2 DEF RoomMoves, ResidencyInv, RoomInv
<1>15. RegistryOK'
  BY <1>3, <1>4 DEF RegistryOK, Slots, TakesLoaded
<1>16. {f, r} \in SUBSET Flights
  OBVIOUS
<1>17. UNCHANGED <<pending, draining, retiring, exists, drain>>
  BY DEF TakesLoaded
<1> QED
  BY <1>12, <1>13, <1>14, <1>15, <1>16, <1>17, SlotStep

LEMMA ReapStep ==
    ASSUME ResidencyInv, NEW c \in Conversations, Reap(c)
    PROVE  ResidencyInv'
<1>1. PICK r \in Flights : r = entries[c].runtime
  BY LoadedSlot DEF Reap
<1>2. PICK f \in Flights :
          /\ Fresh(f) /\ Put(c, Unloading(r, f))
          /\ flights' = [flights EXCEPT ![r].native = "draining",
                                        ![f] = Flight("reap", c, "reaped", r, FALSE)]
  BY <1>1 DEF Reap
<1>3. flights \in [Flights -> FlightRecords] /\ RegistryOK
  BY DEF ResidencyInv, RegistryOK
<1>4. NewRecord(Flight("reap", c, "reaped", r, FALSE), "reap", c, "reaped", r)
  BY NewFlight
<1>5. f # r
  BY <1>1, <1>2, FreshFlight
<1>6. flights' \in [Flights -> FlightRecords]
  BY <1>2, <1>3, <1>4, EditNative DEF NewRecord
<1>7. /\ \A g \in Flights \ {f, r} : flights'[g] = flights[g]
      /\ flights'[f] = Flight("reap", c, "reaped", r, FALSE)
      /\ flights'[r] = [flights[r] EXCEPT !.native = "draining"]
  BY <1>2, <1>3, <1>5
<1>8. TakesLoaded(c, r, f, "reap", "reaped")
  <2>1. /\ flights'[r].kind = flights[r].kind /\ flights'[r].conv = flights[r].conv
        /\ flights'[r].pc = flights[r].pc /\ flights'[r].old = flights[r].old
        /\ flights'[r].comp = flights[r].comp /\ flights'[r].ops = flights[r].ops
        /\ flights'[r].result = flights[r].result
    BY <1>3, <1>7 DEF FlightRecords
  <2>2. entries[c].phase = "Loaded"
        /\ UNCHANGED <<bySession, failed, pending, draining, retiring, exists, deleted, drain>>
    BY DEF Reap
  <2> QED
    BY <1>1, <1>2, <1>4, <1>6, <1>7, <2>1, <2>2 DEF TakesLoaded
<1>9. CallsMove({}) /\ calls' \in [Agents -> CallRecords] /\ {} \in SUBSET Agents
  BY <1>3 DEF CallsMove, SameCall, Reap, RegistryOK
<1> QED
  BY <1>8, <1>9, TakeLoaded

-----------------------------------------------------------------------------
(* Calls.                                                                  *)

\* What is known of a caller that enters the registry.
LEMMA EntersKnows ==
    ASSUME ResidencyInv, NEW p \in Agents, NEW op, NEW c \in Conversations, Enters(p, op, c)
    PROVE  /\ calls[p].at \in {"idle", "select"} /\ c \in exists
           /\ p \in Conversations => op = "unload" /\ p = c /\ calls[p].at = "select"
           /\ op = "delete" => calls[p].at = "select"
           /\ op \notin Retirements =>
                p \in Callers /\ ~(calls[p].op \in Retirements /\ calls[p].at = "select")
           /\ calls[p].at = "select" => calls[p].op = op /\ calls[p].conv = c
           /\ calls[p] \in CallRecords
<1>1. CallOK(p) /\ calls[p] \in CallRecords
  BY DEF ResidencyInv, CallInv, RegistryOK
<1> QED
  BY <1>1 DEF Enters, CallOK, Retirements, Agents

\* A retirement waits for the flight that its slot now names.
LEMMA RetirementWaits ==
    ASSUME ResidencyInv, NEW p \in Agents, NEW op \in Retirements, NEW c \in Conversations,
           Enters(p, op, c), NEW f \in Flights,
           /\ calls'[p].op = op /\ calls'[p].conv = c /\ calls'[p].at \in {"wait", "cancel"}
           /\ calls'[p].flight = f /\ calls'[p].todo = calls[p].todo,
           UNCHANGED <<exists, retiring>>,
           flights'[f].kind # "free" /\ flights'[f].conv = c,
           calls'[p].at = "cancel" => Prepares(f)',
           entries'[c].flight = f, entries'[c].phase # "Loaded",
           \A d \in Conversations \ {c} : entries'[d] = entries[d]
    PROVE  CallMove(p)
<1>1. /\ calls[p].at \in {"idle", "select"} /\ c \in exists
      /\ p \in Conversations => op = "unload" /\ p = c /\ calls[p].at = "select"
      /\ op = "delete" => calls[p].at = "select"
      /\ calls[p].at = "select" => calls[p].op = op /\ calls[p].conv = c
  BY EntersKnows
<1>2. CallOK(p)'
  BY <1>1, FlightNames DEF CallOK, Retirements
<1>3. Deleting(p)' => Deleting(p) /\ calls'[p].conv = calls[p].conv
  BY <1>1 DEF Deleting
<1>4. p \in Callers => DeleteOK(p)'
  <2> SUFFICES ASSUME p \in Callers, Deleting(p)' PROVE DeleteOK(p)'
    BY DEF DeleteOK
  <2>1. DeleteOK(p) /\ calls[p].at = "select" /\ calls[p].conv = c
    BY <1>1 DEF ResidencyInv, DeleteInv, Deleting
  <2> QED
    BY <1>3, <2>1 DEF DeleteOK
<1>5. p \in Conversations => DrainOK(p)' /\ ~Over(p)
  BY <1>1 DEF DrainOK, Over
<1>6. \A d \in Conversations :
        ~(Claimer(p, d) /\ entries'[d].phase = "Loaded" /\ entries'[d] = entries[d])
  BY <1>1 DEF Claimer
<1> QED
  BY <1>1, <1>2, <1>3, <1>4, <1>5, <1>6 DEF CallMove

\* The retirement of the resident runtime is requested by whoever takes its slot.
LEMMA TakeAndRequest ==
    ASSUME ResidencyInv, NEW c \in Conversations, entries[c].phase = "Loaded",
           NEW r \in Flights, r = entries[c].runtime, NEW f \in Flights, Fresh(f),
           NEW k \in {"replace", "unload"}, NEW b \in BOOLEAN,
           flights' = [flights EXCEPT ![f] = Flight(k, c, "ops", r, b),
                                      ![r].req = IF @ = "no" THEN "requested" ELSE @],
           Put(c, Unloading(r, f)),
           UNCHANGED <<bySession, failed, pending, draining, retiring, exists, deleted, drain>>
    PROVE  TakesLoaded(c, r, f, k, "ops") /\ f # r
<1>1. flights \in [Flights -> FlightRecords] /\ RegistryOK
  BY DEF ResidencyInv, RegistryOK
<1>2. NewRecord(Flight(k, c, "ops", r, b), k, c, "ops", r)
  BY NewFlight
<1>3. f # r
  BY FreshFlight
<1>4. PICK x : x = Flight(k, c, "ops", r, b)
  OBVIOUS
<1>5. PICK q \in {"no", "requested", "closing"} : flights' = [flights EXCEPT ![f] = x, ![r].req = q]
  <2>1. PICK q : q = IF flights[r].req = "no" THEN "requested" ELSE flights[r].req
    OBVIOUS
  <2>2. q \in {"no", "requested", "closing"}
    BY <1>1, <2>1 DEF FlightRecords
  <2>3. flights' = [flights EXCEPT ![f] = x, ![r].req = q]
    BY <1>1, <1>3, <1>4, <2>1
  <2> QED
    BY <2>2, <2>3
<1>6. x \in FlightRecords
  BY <1>2, <1>4 DEF NewRecord
<1>7. flights' \in [Flights -> FlightRecords]
  <2>1. PICK h : h = [flights EXCEPT ![f] = x]
    OBVIOUS
  <2>2. h \in [Flights -> FlightRecords] /\ flights' = [h EXCEPT ![r].req = q]
    BY <1>1, <1>5, <1>6, <2>1
  <2>3. q \in {"no", "requested", "closing"}
    BY <1>5
  <2>4. [h[r] EXCEPT !.req = q] \in FlightRecords
    BY <2>2, <2>3, EditReq
  <2> QED
    BY <2>2, <2>4
<1>8. /\ \A g \in Flights \ {f, r} : flights'[g] = flights[g]
      /\ flights'[f] = x /\ flights'[r] = [flights[r] EXCEPT !.req = q]
  BY <1>1, <1>3, <1>5
<1>9. /\ flights'[r].kind = flights[r].kind /\ flights'[r].conv = flights[r].conv
      /\ flights'[r].pc = flights[r].pc /\ flights'[r].old = flights[r].old
      /\ flights'[r].comp = flights[r].comp /\ flights'[r].ops = flights[r].ops
      /\ flights'[r].result = flights[r].result
  BY SMTT(30), <1>1, <1>8 DEF FlightRecords
<1>10. NewRecord(flights'[f], k, c, "ops", r)
  BY <1>2, <1>4, <1>8
<1> QED
  BY <1>3, <1>7, <1>8, <1>9, <1>10 DEF TakesLoaded

LEMMA RetireLoadedStep ==
    ASSUME ResidencyInv, NEW p \in Agents, NEW op \in Retirements, NEW c \in Conversations,
           RetireLoaded(p, op, c)
    PROVE  ResidencyInv'
<1>1. PICK r \in Flights : r = entries[c].runtime
  BY LoadedSlot DEF RetireLoaded
<1>2. PICK f \in Flights :
          /\ Fresh(f) /\ Put(c, Unloading(r, f))
          /\ flights' = [flights EXCEPT ![f] = Flight("unload", c, "ops", r, FALSE),
                                        ![r].req = IF @ = "no" THEN "requested" ELSE @]
          /\ Waits(p, op, c, f, TRUE)
  BY <1>1 DEF RetireLoaded
<1>3. TakesLoaded(c, r, f, "unload", "ops")
  BY <1>1, <1>2, TakeAndRequest DEF RetireLoaded
<1>4. /\ calls[p] \in CallRecords /\ calls \in [Agents -> CallRecords] /\ Enters(p, op, c)
  BY DEF ResidencyInv, RegistryOK, RetireLoaded
<1>5. PICK x : x = [Entered(p, op, c) EXCEPT !.at = "wait", !.flight = f, !.claimed = TRUE]
  OBVIOUS
<1>6. /\ x.op = op /\ x.conv = c /\ x.at = "wait" /\ x.flight = f /\ x.todo = calls[p].todo
  BY <1>4, <1>5 DEF Entered, CallRecords
<1>7. x \in CallRecords
  BY <1>4, <1>5, CallOp, CallConv, CallAt, CallFlight, CallClaimed DEF Entered, Retirements
<1>8. calls' = [calls EXCEPT ![p] = x]
  BY <1>2, <1>5 DEF Waits
<1>9. calls' \in [Agents -> CallRecords] /\ calls'[p] = x /\ \A q \in Agents \ {p} : SameCall(q)
  BY <1>4, <1>7, <1>8 DEF SameCall
<1>10. /\ flights'[f].kind = "unload" /\ flights'[f].conv = c /\ RegistryOK
  BY <1>3 DEF TakesLoaded, NewRecord, ResidencyInv
<1>11. /\ entries'[c].phase = "Unloading" /\ entries'[c].flight = f
       /\ \A d \in Conversations \ {c} : entries'[d] = entries[d]
  BY <1>2, <1>10, PutTyped, SlotForms DEF Unloading
<1>12. CallMove(p)
  <2>1. /\ calls'[p].op = op /\ calls'[p].conv = c /\ calls'[p].at \in {"wait", "cancel"}
        /\ calls'[p].flight = f /\ calls'[p].todo = calls[p].todo /\ calls'[p].at # "cancel"
    BY <1>6, <1>9
  <2>2. UNCHANGED <<exists, retiring>>
    BY DEF RetireLoaded
  <2>3. flights'[f].kind # "free" /\ entries'[c].phase # "Loaded"
    BY <1>10, <1>11
  <2> QED
    BY <1>4, <1>10, <1>11, <2>1, <2>2, <2>3, RetirementWaits
<1>13. CallsMove({p}) /\ {p} \in SUBSET Agents
  BY <1>9, <1>12 DEF CallsMove
<1> QED
  BY <1>3, <1>9, <1>13, TakeLoaded

\* A call that is no retirement waits for a flight, or is told that it is recorded.
LEMMA PlainWaits ==
    ASSUME ResidencyInv, NEW p \in Agents, NEW op, NEW c \in Conversations, op \notin Retirements,
           Enters(p, op, c), NEW f \in Flights,
           /\ calls'[p].op = op /\ calls'[p].conv = c /\ calls'[p].at \in {"wait", "accepted"}
           /\ calls'[p].flight = f,
           UNCHANGED exists
    PROVE  CallMove(p)
<1>1. /\ calls[p].at \in {"idle", "select"} /\ c \in exists
      /\ p \in Callers /\ ~(calls[p].op \in Retirements /\ calls[p].at = "select")
      /\ p \notin Conversations
  BY EntersKnows
<1>2. CallOK(p)'
  BY <1>1, FlightNames DEF CallOK
<1>3. ~Deleting(p)'
  BY DEF Deleting, Retirements
<1> QED
  BY <1>1, <1>2, <1>3, PlainMove

LEMMA ReplaceLoadedStep ==
    ASSUME ResidencyInv, NEW p \in Agents, NEW c \in Conversations, ReplaceLoaded(p, c)
    PROVE  ResidencyInv'
<1>1. PICK r \in Flights : r = entries[c].runtime
  BY LoadedSlot DEF ReplaceLoaded
<1>2. PICK f \in Flights :
          /\ Fresh(f) /\ Put(c, Unloading(r, f))
          /\ flights' = [flights EXCEPT ![f] = Flight("replace", c, "ops", r, Unbound(c) # {}),
                                        ![r].req = IF @ = "no" THEN "requested" ELSE @]
          /\ calls' = [WithReceipts(f, c) EXCEPT ![p] =
                    [Entered(p, "replace", c) EXCEPT !.at = "wait", !.flight = f, !.claimed = TRUE]]
  BY <1>1 DEF ReplaceLoaded
<1>3. PICK b \in BOOLEAN : b = (Unbound(c) # {})
  OBVIOUS
<1>4. flights' = [flights EXCEPT ![f] = Flight("replace", c, "ops", r, b),
                                 ![r].req = IF @ = "no" THEN "requested" ELSE @]
  BY <1>2, <1>3
<1>5. TakesLoaded(c, r, f, "replace", "ops")
  BY <1>1, <1>2, <1>4, TakeAndRequest DEF ReplaceLoaded
<1>6. /\ calls[p] \in CallRecords /\ calls \in [Agents -> CallRecords] /\ Enters(p, "replace", c)
      /\ RegistryOK
  BY DEF ResidencyInv, RegistryOK, ReplaceLoaded
<1>7. PICK x : x = [Entered(p, "replace", c) EXCEPT !.at = "wait", !.flight = f, !.claimed = TRUE]
  OBVIOUS
<1>8. x.op = "replace" /\ x.conv = c /\ x.at = "wait" /\ x.flight = f
  BY <1>6, <1>7 DEF Entered, CallRecords
<1>9. x \in CallRecords
  BY <1>6, <1>7, CallOp, CallConv, CallAt, CallFlight, CallClaimed DEF Entered
<1>10. calls' \in [Agents -> CallRecords] /\ calls'[p] = x /\ \A q \in Agents \ {p} : SameCall(q)
  <2>1. calls' = [WithReceipts(f, c) EXCEPT ![p] = x]
    BY <1>2, <1>7
  <2> QED
    BY <1>6, <1>9, <2>1, ReceiptsBut
<1>11. "replace" \notin Retirements
  BY DEF Retirements
<1>12. CallMove(p)
  BY <1>6, <1>8, <1>10, <1>11, PlainWaits DEF ReplaceLoaded
<1>13. CallsMove({p}) /\ {p} \in SUBSET Agents
  BY <1>10, <1>12 DEF CallsMove
<1> QED
  BY <1>5, <1>10, <1>13, TakeLoaded

-----------------------------------------------------------------------------
(* An empty slot is claimed.                                               *)

LEMMA ClaimedFlight ==
    ASSUME RegistryOK, NEW f \in Flights, NEW c \in Conversations, NEW k \in {"load", "scheduled"},
           NEW b, ClaimLoad(f, k, c, b)
    PROVE  /\ flights' \in [Flights -> FlightRecords]
           /\ \A g \in Flights \ {f} : flights'[g] = flights[g]
           /\ NewRecord(flights'[f], k, c, "acquire", NoFlight)
           /\ entries' \in [Conversations -> Slots]
           /\ \A d \in Conversations \ {c} : entries'[d] = entries[d]
           /\ entries'[c].phase = "Loading" /\ entries'[c].flight = f
           /\ entries'[c].runtime = NoFlight
           /\ bySession' = [bySession EXCEPT ![SessionOf[c]] = c]
<1>1. /\ entries' \in [Conversations -> Slots] /\ entries'[c] = Loading(f)
      /\ \A d \in Conversations \ {c} : entries'[d] = entries[d]
  BY PutTyped, SlotForms DEF ClaimLoad
<1>2. PICK d \in BOOLEAN : d = (b \/ Unbound(c) # {})
  OBVIOUS
<1>3. PICK x : x = Flight(k, c, "acquire", NoFlight, d)
  OBVIOUS
<1>4. NewRecord(x, k, c, "acquire", NoFlight)
  BY <1>3, NewFlight
<1>5. flights' = [flights EXCEPT ![f] = x]
  BY <1>2, <1>3 DEF ClaimLoad
<1>6. flights' \in [Flights -> FlightRecords] /\ flights'[f] = x
      /\ \A g \in Flights \ {f} : flights'[g] = flights[g]
  BY <1>4, <1>5 DEF RegistryOK, NewRecord
<1> QED
  BY <1>1, <1>4, <1>6 DEF Loading, ClaimLoad

LEMMA ClaimStep ==
    ASSUME ResidencyInv, NEW f \in Flights, Fresh(f), NEW c \in Conversations, c \in exists,
           entries[c].phase = "None", CheckSession(c), CanReserve,
           NEW k \in {"load", "scheduled"}, NEW b, ClaimLoad(f, k, c, b),
           calls' \in [Agents -> CallRecords], NEW P \in SUBSET Agents, CallsMove(P),
           failed' \in [Conversations -> Flights \cup {NoFlight}],
           UNCHANGED <<pending, draining, retiring, exists, deleted, drain>>
    PROVE  ResidencyInv'
<1>1. RegistryOK
  BY DEF ResidencyInv
<1>2. /\ flights' \in [Flights -> FlightRecords]
      /\ \A g \in Flights \ {f} : flights'[g] = flights[g]
      /\ NewRecord(flights'[f], k, c, "acquire", NoFlight)
      /\ entries' \in [Conversations -> Slots]
      /\ \A d \in Conversations \ {c} : entries'[d] = entries[d]
      /\ entries'[c].phase = "Loading" /\ entries'[c].flight = f
      /\ entries'[c].runtime = NoFlight
      /\ bySession' = [bySession EXCEPT ![SessionOf[c]] = c]
  BY <1>1, ClaimedFlight
<1>3. FlightOK(f)' /\ SlotOK(c)'
  BY <1>2, NewLoadOK DEF NewRecord, ComposingKinds
<1>4. FlightsMove(c, {f})
  <2>1. Begins(f)
    BY <1>2, FreshFlight DEF Begins, NewRecord
  <2> QED
    BY <1>2, <1>3, <2>1 DEF FlightsMove
<1>5. entries[c].flight = NoFlight /\ entries[c].runtime = NoFlight
  BY <1>1, EntryShapes DEF RegistryOK, Slots, SlotShape
<1>6. EntryMoves(c, {f})
  BY <1>2, <1>3, <1>5 DEF EntryMoves, CheckSession
<1>7. /\ IndexInv' /\ Residents' = Residents \cup {SessionOf[c]}
      /\ bySession' \in [Sessions -> Conversations \cup {NoConversation}]
  <2>1. entries'[c].phase \in Resident /\ bySession[SessionOf[c]] \in {NoConversation, c} /\ IndexInv
    BY <1>2 DEF Resident, CheckSession, ResidencyInv
  <2> QED
    BY <1>1, <1>2, <2>1, IndexClaimed
<1>8. RoomMoves
  <2>1. Cardinality(Residents) + pending < MaxResident /\ pending \in Nat
    BY <1>1 DEF CanReserve, RegistryOK
  <2> QED
    BY <1>7, <2>1, ResidentsFinite, RoomClaimed DEF RoomMoves
<1>9. RegistryOK'
  BY <1>1, <1>2, <1>7 DEF RegistryOK, Slots
<1> QED
  BY <1>4, <1>6, <1>8, <1>9, SlotStep

LEMMA ClaimCallStep ==
    ASSUME ResidencyInv, NEW p \in Agents, NEW op \in {"load", "replace", "scheduled"},
           NEW c \in Conversations, Claim(p, op, c)
    PROVE  ResidencyInv'
<1>1. PICK f \in Flights :
        /\ Fresh(f)
        /\ ClaimLoad(f, IF op = "scheduled" THEN "scheduled" ELSE "load", c, Inherited(p))
        /\ calls' = [WithReceipts(f, c) EXCEPT ![p] =
                        [Entered(p, op, c) EXCEPT !.at = "wait", !.flight = f,
                            !.claimed = TRUE, !.inherits = NoFlight]]
  BY DEF Claim
<1>2. PICK k \in {"load", "scheduled"} : ClaimLoad(f, k, c, Inherited(p))
  <2>1. CASE op = "scheduled"
    BY <1>1, <2>1
  <2>2. CASE op # "scheduled"
    BY <1>1, <2>2
  <2> QED
    BY <2>1, <2>2
<1>3. /\ calls[p] \in CallRecords /\ calls \in [Agents -> CallRecords] /\ Enters(p, op, c) /\ RegistryOK
      /\ entries[c].phase = "None" /\ CheckSession(c) /\ CanReserve
  BY DEF ResidencyInv, RegistryOK, Claim
<1>4. UNCHANGED <<pending, draining, retiring, exists, deleted, drain>>
  BY DEF Claim
<1>5. PICK x : x = [Entered(p, op, c) EXCEPT !.at = "wait", !.flight = f,
                            !.claimed = TRUE, !.inherits = NoFlight]
  OBVIOUS
<1>6. x.op = op /\ x.conv = c /\ x.at = "wait" /\ x.flight = f
  BY <1>3, <1>5 DEF Entered, CallRecords
<1>7. x \in CallRecords
  BY <1>3, <1>5, CallOp, CallConv, CallAt, CallFlight, CallClaimed, CallInherits DEF Entered
<1>8. calls' \in [Agents -> CallRecords] /\ calls'[p] = x /\ \A q \in Agents \ {p} : SameCall(q)
  <2>1. calls' = [WithReceipts(f, c) EXCEPT ![p] = x]
    BY <1>1, <1>5
  <2> QED
    BY <1>3, <1>7, <2>1, ReceiptsBut
<1>9. op \notin Retirements
  BY DEF Retirements
<1>10. CallMove(p)
  BY <1>3, <1>4, <1>6, <1>8, <1>9, PlainWaits
<1>11. CallsMove({p}) /\ {p} \in SUBSET Agents
  BY <1>8, <1>10 DEF CallsMove
<1>12. failed' \in [Conversations -> Flights \cup {NoFlight}]
  <2>1. failed \in [Conversations -> Flights \cup {NoFlight}]
    BY <1>3 DEF RegistryOK
  <2>2. failed' = [failed EXCEPT ![c] = NoFlight] \/ failed' = failed
    BY DEF Claim
  <2> QED
    BY <2>1, <2>2
<1>13. c \in exists
  BY <1>3, EntersKnows
<1> QED
  BY <1>1, <1>2, <1>3, <1>4, <1>8, <1>11, <1>12, <1>13, ClaimStep

LEMMA SubmitClaimsStep ==
    ASSUME ResidencyInv, NEW p \in Agents, NEW c \in Conversations, SubmitClaims(p, c)
    PROVE  ResidencyInv'
<1>1. PICK f \in Flights :
        /\ Fresh(f)
        /\ ClaimLoad(f, "load", c, TRUE)
        /\ calls' = [WithReceipts(f, c) EXCEPT ![p] = Recorded(p, f)]
  BY DEF SubmitClaims
<1>2. /\ calls[p] \in CallRecords /\ calls \in [Agents -> CallRecords] /\ Enters(p, "submit", c)
      /\ entries[c].phase = "None" /\ CheckSession(c) /\ CanReserve /\ RegistryOK
  BY DEF ResidencyInv, RegistryOK, SubmitClaims
<1>3. UNCHANGED <<pending, draining, retiring, exists, deleted, drain>>
  BY DEF SubmitClaims
<1>4. calls[p].op = "submit" /\ calls[p].conv = c
  BY <1>2 DEF Enters
<1>5. PICK x : x = Recorded(p, f)
  OBVIOUS
<1>6. x.op = "submit" /\ x.conv = c /\ x.at = "accepted" /\ x.flight = f
  BY <1>2, <1>4, <1>5 DEF Recorded, CallRecords
<1>7. x \in CallRecords
  BY <1>2, <1>5, CallAt, CallFlight, CallBound DEF Recorded
<1>8. calls' \in [Agents -> CallRecords] /\ calls'[p] = x /\ \A q \in Agents \ {p} : SameCall(q)
  <2>1. calls' = [WithReceipts(f, c) EXCEPT ![p] = x]
    BY <1>1, <1>5
  <2> QED
    BY <1>2, <1>7, <2>1, ReceiptsBut
<1>9. "submit" \notin Retirements
  BY DEF Retirements
<1>10. CallMove(p)
  BY <1>2, <1>3, <1>6, <1>8, <1>9, PlainWaits
<1>11. CallsMove({p}) /\ {p} \in SUBSET Agents
  BY <1>8, <1>10 DEF CallsMove
<1>12. failed' \in [Conversations -> Flights \cup {NoFlight}]
  BY <1>2 DEF RegistryOK, SubmitClaims
<1>13. c \in exists
  BY <1>2, EntersKnows
<1> QED
  BY <1>1, <1>2, <1>3, <1>8, <1>11, <1>12, <1>13, ClaimStep

-----------------------------------------------------------------------------
(* Steps of one call alone.                                                *)

Ops == {"none", "load", "unload", "replace", "submit", "scheduled", "delete", "operate",
        "storage", "create", "retry"}

\* Nothing but calls moves.
Elsewhere == <<entries, bySession, failed, pending, draining, retiring, flights, exists,
               deleted, drain>>

LEMMA OneCall ==
    ASSUME RegistryOK, NEW p \in Agents, NEW x \in CallRecords, calls' = [calls EXCEPT ![p] = x]
    PROVE  calls' \in [Agents -> CallRecords] /\ calls'[p] = x /\ \A q \in Agents \ {p} : SameCall(q)
BY DEF RegistryOK, SameCall

LEMMA QuietStep ==
    ASSUME ResidencyInv, NEW p \in Agents, calls' \in [Agents -> CallRecords],
           \A q \in Agents \ {p} : SameCall(q), CallMove(p), UNCHANGED Elsewhere
    PROVE  ResidencyInv'
<1>1. RegistryOK'
  BY DEF ResidencyInv, RegistryOK, Elsewhere
<1> QED
  BY <1>1, CallStep DEF Elsewhere

\* A call that is about no retirement.
Plain(p) == /\ p \in Callers
            /\ ~(calls[p].op \in Retirements /\ calls[p].at \in {"select", "wait"})
            /\ calls[p].at \notin {"creating", "operating"}

LEMMA PlainReturns ==
    ASSUME RegistryOK, NEW p \in Agents, NEW op \in Ops, Plain(p), Returns(p, op)
    PROVE  calls' \in [Agents -> CallRecords] /\ CallMove(p) /\ \A q \in Agents \ {p} : SameCall(q)
<1>1. PICK x : x = [Idle EXCEPT !.op = op, !.at = "returned"]
  OBVIOUS
<1>2. x \in CallRecords
  BY <1>1, IdleTyped, CallOp, CallAt DEF Ops
<1>3. x.at = "returned" /\ x.flight = NoFlight /\ x.op = op
  BY <1>1 DEF Idle
<1>4. calls' \in [Agents -> CallRecords] /\ calls'[p] = x /\ \A q \in Agents \ {p} : SameCall(q)
  BY <1>1, <1>2, OneCall DEF Returns
<1>5. p \notin Conversations
  BY DEF Plain
<1>6. CallOK(p)'
  BY <1>3, <1>4, <1>5 DEF CallOK
<1>7. CallMove(p)
  BY <1>3, <1>4, <1>6, PlainMove DEF Plain, Deleting
<1> QED
  BY <1>4, <1>7

LEMMA PlainReturnStep ==
    ASSUME ResidencyInv, NEW p \in Agents, NEW op \in Ops, Plain(p), Returns(p, op), UNCHANGED Elsewhere
    PROVE  ResidencyInv'
BY PlainReturns, QuietStep DEF ResidencyInv

LEMMA PlainLoopStep ==
    ASSUME ResidencyInv, NEW p \in Agents, p \in Callers, calls[p].at \in {"wait", "admit"},
           calls[p].op \notin Retirements, NEW i \in Flights \cup {NoFlight}, Loops(p, i),
           UNCHANGED Elsewhere
    PROVE  ResidencyInv'
<1>1. RegistryOK /\ calls[p] \in CallRecords /\ CallOK(p) /\ exists' = exists
  BY DEF ResidencyInv, RegistryOK, CallInv, Elsewhere
<1>2. PICK x : x = [calls[p] EXCEPT !.at = "select", !.flight = NoFlight, !.inherits = i]
  OBVIOUS
<1>3. x \in CallRecords
  BY <1>1, <1>2, CallAt, CallFlight, CallInherits
<1>4. x.at = "select" /\ x.flight = NoFlight /\ x.op = calls[p].op /\ x.conv = calls[p].conv
  BY <1>1, <1>2 DEF CallRecords
<1>5. calls' = [calls EXCEPT ![p] = x]
  BY <1>1, <1>2 DEF Loops, RegistryOK
<1>6. calls' \in [Agents -> CallRecords] /\ calls'[p] = x /\ \A q \in Agents \ {p} : SameCall(q)
  BY <1>1, <1>3, <1>5, OneCall
<1>7. CallOK(p)'
  BY <1>1, <1>4, <1>6 DEF CallOK
<1>8. CallMove(p)
  BY <1>4, <1>6, <1>7, PlainMove DEF Deleting, Retirements
<1> QED
  BY <1>6, <1>8, QuietStep

LEMMA PlainWaitStep ==
    ASSUME ResidencyInv, NEW p \in Agents, NEW op \in Ops, op \notin Retirements,
           NEW c \in Conversations, Enters(p, op, c), NEW f \in Flights,
           NEW b \in BOOLEAN, Waits(p, op, c, f, b), UNCHANGED Elsewhere
    PROVE  ResidencyInv'
<1>1. RegistryOK /\ calls[p] \in CallRecords /\ exists' = exists /\ flights' = flights
  BY DEF ResidencyInv, RegistryOK, Elsewhere
<1>2. PICK x : x = [Entered(p, op, c) EXCEPT !.at = "wait", !.flight = f, !.claimed = b]
  OBVIOUS
<1>3. x \in CallRecords
  BY <1>1, <1>2, CallOp, CallConv, CallAt, CallFlight, CallClaimed DEF Entered, Ops
<1>4. x.op = op /\ x.conv = c /\ x.at = "wait" /\ x.flight = f
  BY <1>1, <1>2 DEF CallRecords, Entered
<1>5. calls' = [calls EXCEPT ![p] = x]
  BY <1>2 DEF Waits
<1>6. calls' \in [Agents -> CallRecords] /\ calls'[p] = x /\ \A q \in Agents \ {p} : SameCall(q)
  BY <1>1, <1>3, <1>5, OneCall
<1>7. CallMove(p)
  BY <1>1, <1>4, <1>6, PlainWaits
<1> QED
  BY <1>6, <1>7, QuietStep

LEMMA EntersPlain ==
    ASSUME ResidencyInv, NEW p \in Agents, NEW op, op \notin Retirements, NEW c \in Conversations,
           Enters(p, op, c)
    PROVE  Plain(p)
BY EntersKnows DEF Plain

LEMMA AnsweredPlain ==
    ASSUME ResidencyInv, NEW p \in Agents, NEW op, op \notin Retirements, Answered(p, op)
    PROVE  /\ Plain(p) /\ p \in Callers /\ calls[p].at = "wait" /\ calls[p].op = op
           /\ calls[p].flight \in Flights /\ calls[p].inherits \in Flights \cup {NoFlight}
<1>1. CallOK(p) /\ calls[p] \in CallRecords
  BY DEF ResidencyInv, CallInv, RegistryOK
<1>2. calls[p].flight \in Flights /\ calls[p].inherits \in Flights \cup {NoFlight}
  BY <1>1 DEF CallOK, CallRecords, Answered
<1> QED
  BY <1>1, <1>2 DEF Answered, CallOK, Plain, Agents, Retirements

LEMMA RefusedStep ==
    ASSUME ResidencyInv, NEW p \in Agents, NEW op \in Ops, NEW c \in Conversations, Refused(p, op, c)
    PROVE  ResidencyInv'
<1>1. op \notin Retirements /\ Enters(p, op, c) /\ Returns(p, op) /\ UNCHANGED Elsewhere
  BY DEF Refused, Retirements, Elsewhere
<1> QED
  BY <1>1, EntersPlain, PlainReturnStep

LEMMA FindLoadedStep ==
    ASSUME ResidencyInv, NEW p \in Agents, NEW op \in Ops, NEW c \in Conversations, FindLoaded(p, op, c)
    PROVE  ResidencyInv'
<1>1. op \notin Retirements /\ Enters(p, op, c) /\ Returns(p, op) /\ UNCHANGED Elsewhere
  BY DEF FindLoaded, Retirements, Elsewhere
<1> QED
  BY <1>1, EntersPlain, PlainReturnStep

LEMMA SubmitCancelledStep ==
    ASSUME ResidencyInv, NEW p \in Agents, NEW c \in Conversations, SubmitCancelled(p, c)
    PROVE  ResidencyInv'
<1>1. "submit" \notin Retirements /\ Enters(p, "submit", c) /\ Returns(p, "submit")
      /\ UNCHANGED Elsewhere /\ "submit" \in Ops
  BY DEF SubmitCancelled, Retirements, Elsewhere, Ops
<1> QED
  BY <1>1, EntersPlain, PlainReturnStep

\* The flight of a slot in transition has begun.
LEMMA SlotFlight ==
    ASSUME ResidencyInv, NEW c \in Conversations,
           entries[c].phase \in {"StorageOnly", "Loading", "Unloading"}
    PROVE  /\ entries[c].flight \in Flights /\ flights[entries[c].flight].kind # "free"
           /\ flights[entries[c].flight].conv = c
<1>1. SlotShape(entries[c]) /\ SlotOK(c)
  BY EntryShapes DEF ResidencyInv, RegistryOK, Slots, SlotInv
<1>2. entries[c].flight \in Flights /\ flights[entries[c].flight].conv = c
  BY <1>1, FlightNames DEF SlotShape, SlotOK
<1>3. FlightOK(entries[c].flight) /\ c # NoConversation
  BY <1>2 DEF ResidencyInv, FlightInv
<1> QED
  BY <1>2, <1>3 DEF FlightOK, FreeOK, Unused

LEMMA AnsweredSteps ==
    ASSUME ResidencyInv, NEW p \in Agents,
           LoadAnswered(p) \/ ReplaceAnswered(p) \/ ScheduledAnswered(p) \/ StorageAnswered(p)
           \/ SubmitAnswered(p)
    PROVE  ResidencyInv'
<1>1. UNCHANGED Elsewhere
  BY DEF LoadAnswered, ReplaceAnswered, ScheduledAnswered, StorageAnswered, SubmitAnswered, Elsewhere
<1>2. PICK op \in {"load", "replace", "scheduled", "storage", "submit"} :
        /\ Answered(p, op)
        /\ \/ Returns(p, op) \/ Loops(p, NoFlight)
           \/ Loops(p, calls[p].flight) \/ Loops(p, calls[p].inherits)
  <2>1. CASE LoadAnswered(p)
    BY <2>1 DEF LoadAnswered
  <2>2. CASE ReplaceAnswered(p) \/ ScheduledAnswered(p) \/ StorageAnswered(p) \/ SubmitAnswered(p)
    BY <2>2 DEF ReplaceAnswered, ScheduledAnswered, StorageAnswered, SubmitAnswered
  <2> QED
    BY <2>1, <2>2
<1>3. op \notin Retirements /\ op \in Ops
  BY DEF Retirements, Ops
<1>4. /\ Plain(p) /\ p \in Callers /\ calls[p].at = "wait" /\ calls[p].op = op
      /\ calls[p].flight \in Flights /\ calls[p].inherits \in Flights \cup {NoFlight}
  BY <1>2, <1>3, AnsweredPlain
<1>5. CASE Returns(p, op)
  BY <1>1, <1>3, <1>4, <1>5, PlainReturnStep
<1>6. CASE Loops(p, NoFlight) \/ Loops(p, calls[p].flight) \/ Loops(p, calls[p].inherits)
  <2>1. PICK i \in Flights \cup {NoFlight} : Loops(p, i)
    BY <1>4, <1>6
  <2> QED
    BY <1>1, <1>3, <1>4, <2>1, PlainLoopStep
<1> QED
  BY <1>2, <1>5, <1>6

LEMMA JoinStep ==
    ASSUME ResidencyInv, NEW p \in Agents, NEW op \in Joining, NEW c \in Conversations, Join(p, op, c)
    PROVE  ResidencyInv'
<1>1. op \notin Retirements /\ op \in Ops /\ Enters(p, op, c) /\ UNCHANGED Elsewhere
  BY DEF Join, Joining, Retirements, Ops, Elsewhere
<1>2. PICK f \in Flights : Waits(p, op, c, f, FALSE)
  <2>1. CASE /\ entries[c].phase \in {"StorageOnly", "Loading", "Unloading"}
             /\ Waits(p, op, c, entries[c].flight, FALSE)
    BY <2>1, SlotFlight
  <2>2. CASE failed[c] # NoFlight /\ Waits(p, op, c, failed[c], FALSE)
    <3>1. failed[c] \in Flights
      BY <2>2 DEF ResidencyInv, RegistryOK
    <3> QED
      BY <2>2, <3>1
  <2> QED
    BY <2>1, <2>2 DEF Join
<1> QED
  BY <1>1, <1>2, PlainWaitStep

LEMMA IdentifyStep ==
    ASSUME ResidencyInv, NEW p \in Agents, NEW op \in {"operate", "storage"}, NEW c \in Conversations,
           Identify(p, op, c)
    PROVE  ResidencyInv'
<1>1. op \notin Retirements /\ op \in Ops /\ Enters(p, op, c) /\ UNCHANGED Elsewhere
  BY DEF Identify, Retirements, Ops, Elsewhere
<1>2. PICK r \in Flights : r = entries[c].runtime
  BY LoadedSlot DEF Identify
<1>3. RegistryOK /\ calls[p] \in CallRecords /\ exists' = exists
  BY <1>1 DEF ResidencyInv, RegistryOK, Elsewhere
<1>4. PICK x : x = [Entered(p, op, c) EXCEPT !.at = "admit", !.flight = r]
  OBVIOUS
<1>5. x \in CallRecords
  BY <1>1, <1>3, <1>4, CallOp, CallConv, CallAt, CallFlight DEF Entered, Ops
<1>6. x.op = op /\ x.conv = c /\ x.at = "admit" /\ x.flight = r
  BY <1>3, <1>4 DEF CallRecords, Entered
<1>7. calls' = [calls EXCEPT ![p] = x]
  BY <1>2, <1>4 DEF Identify
<1>8. calls' \in [Agents -> CallRecords] /\ calls'[p] = x /\ \A q \in Agents \ {p} : SameCall(q)
  BY <1>3, <1>5, <1>7, OneCall
<1>9. Plain(p) /\ c \in exists
  BY <1>1, EntersPlain, EntersKnows
<1>10. CallOK(p)'
  BY <1>3, <1>6, <1>8, <1>9, FlightNames DEF CallOK, Plain
<1>11. CallMove(p)
  BY <1>6, <1>8, <1>9, <1>10, PlainMove DEF Plain, Deleting
<1> QED
  BY <1>1, <1>8, <1>11, QuietStep

LEMMA ClaimStorageStep ==
    ASSUME ResidencyInv, NEW p \in Agents, NEW c \in Conversations, ClaimStorage(p, c)
    PROVE  ResidencyInv'
<1>1. PICK f \in Flights :
        /\ Fresh(f) /\ Put(c, StorageOnly(f))
        /\ flights' = [flights EXCEPT ![f] = Flight("storage", c, "open", NoFlight, FALSE)]
        /\ Waits(p, "storage", c, f, TRUE)
  BY DEF ClaimStorage
<1>2. /\ Enters(p, "storage", c) /\ entries[c].phase = "None" /\ ~draining
      /\ SessionOf[c] \notin retiring /\ RegistryOK /\ calls[p] \in CallRecords
  BY DEF ClaimStorage, Admitted, ResidencyInv, RegistryOK
<1>3. UNCHANGED <<bySession, failed, pending, draining, retiring, exists, deleted, drain>>
  BY DEF ClaimStorage
<1>4. "storage" \notin Retirements /\ c \in exists /\ entries[c].flight = NoFlight
      /\ entries[c].runtime = NoFlight
  BY <1>2, EntersKnows, EntryShapes DEF Retirements, RegistryOK, Slots, SlotShape
<1>5. PICK x : x = [Entered(p, "storage", c) EXCEPT !.at = "wait", !.flight = f, !.claimed = TRUE]
  OBVIOUS
<1>6. x \in CallRecords
  BY <1>2, <1>5, CallOp, CallConv, CallAt, CallFlight, CallClaimed DEF Entered
<1>7. x.op = "storage" /\ x.conv = c /\ x.at = "wait" /\ x.flight = f
  BY <1>2, <1>5 DEF CallRecords, Entered
<1>8. calls' \in [Agents -> CallRecords] /\ calls'[p] = x /\ \A q \in Agents \ {p} : SameCall(q)
  BY <1>1, <1>2, <1>5, <1>6, OneCall DEF Waits
<1>9. CallMove(p)
  BY <1>2, <1>3, <1>4, <1>7, <1>8, PlainWaits
<1>10. CallsMove({p}) /\ {p} \in SUBSET Agents /\ {f} \in SUBSET Flights
  BY <1>8, <1>9 DEF CallsMove
<1>11. /\ entries' \in [Conversations -> Slots] /\ entries'[c] = StorageOnly(f)
       /\ \A d \in Conversations \ {c} : entries'[d] = entries[d]
  BY <1>1, <1>2, PutTyped, SlotForms
<1>12. entries'[c].phase = "StorageOnly" /\ entries'[c].flight = f /\ entries'[c].runtime = NoFlight
  BY <1>11 DEF StorageOnly
<1>13. PICK y : y = Flight("storage", c, "open", NoFlight, FALSE)
  OBVIOUS
<1>14. /\ flights' \in [Flights -> FlightRecords]
       /\ \A g \in Flights \ {f} : flights'[g] = flights[g]
       /\ NewRecord(flights'[f], "storage", c, "open", NoFlight)
  <2>1. NewRecord(y, "storage", c, "open", NoFlight) /\ y \in FlightRecords
    <3>1. NewRecord(y, "storage", c, "open", NoFlight)
      BY <1>13, NewFlight
    <3> QED
      BY <3>1 DEF NewRecord
  <2>2. flights' = [flights EXCEPT ![f] = y]
    BY <1>1, <1>13
  <2> QED
    BY <1>2, <2>1, <2>2 DEF RegistryOK
<1>15. FlightOK(f)'
  BY <1>12, <1>14 DEF NewRecord, FlightOK, FreeOK, OldOK, LoadOK, RetireOK, EndOK, StorageOK, WriterOK,
     Composing, Retained, Proven, Holds
<1>16. SlotOK(c)'
  BY <1>12, <1>14 DEF SlotOK, NewRecord
<1>17. FlightsMove(c, {f})
  <2>1. Begins(f)
    BY <1>1, <1>14, FreshFlight DEF Begins, NewRecord
  <2> QED
    BY <1>14, <1>15, <2>1 DEF FlightsMove
<1>18. EntryMoves(c, {f})
  BY <1>2, <1>4, <1>11, <1>12, <1>16 DEF EntryMoves
<1>19. RoomMoves
  <2>1. bySession' = bySession /\ Residents' = Residents
    BY <1>3 DEF Residents
  <2>2. IndexInv'
    BY <1>2, <1>11, <1>12, <2>1, IndexKept DEF ResidencyInv, Resident
  <2> QED
    BY <2>1, <2>2 DEF RoomMoves, ResidencyInv, RoomInv
<1>20. RegistryOK'
  BY <1>2, <1>3, <1>8, <1>11, <1>14 DEF RegistryOK, Slots
<1> QED
  BY <1>3, <1>10, <1>17, <1>18, <1>19, <1>20, SlotStep

\* The hypothesis on recovery: a retained failure is retried on an empty slot.
LEMMA RetryStep ==
    ASSUME ResidencyInv, NEW p \in Agents, NEW c \in Conversations, Retry(p, c),
           failed[c] # NoFlight => entries[c].phase = "None"
    PROVE  ResidencyInv'
<1>1. "retry" \notin Retirements /\ Enters(p, "retry", c) /\ "retry" \in Ops /\ RegistryOK
      /\ CheckSession(c)
  BY DEF Retry, Retirements, Ops, ResidencyInv
<1>2. Plain(p) /\ c \in exists
  BY <1>1, EntersPlain, EntersKnows
<1>3. CASE failed[c] = NoFlight
  <2>1. Returns(p, "retry") /\ UNCHANGED Elsewhere
    BY <1>3 DEF Retry, Elsewhere
  <2> QED
    BY <1>1, <1>2, <2>1, PlainReturnStep
<1>4. CASE failed[c] # NoFlight
  <2>1. PICK f \in Flights :
          /\ Fresh(f) /\ ClaimLoad(f, "load", c, TRUE)
          /\ calls' = [WithReceipts(f, c) EXCEPT ![p] = [Idle EXCEPT !.op = "retry", !.at = "returned"]]
    BY <1>4 DEF Retry
  <2>2. PICK x : x = [Idle EXCEPT !.op = "retry", !.at = "returned"]
    OBVIOUS
  <2>3. x \in CallRecords
    BY <2>2, IdleTyped, CallOp, CallAt
  <2>4. x.op = "retry" /\ x.at = "returned" /\ x.flight = NoFlight
    BY <2>2 DEF Idle
  <2>5. calls' \in [Agents -> CallRecords] /\ calls'[p] = x /\ \A q \in Agents \ {p} : SameCall(q)
    <3>1. calls' = [WithReceipts(f, c) EXCEPT ![p] = x]
      BY <2>1, <2>2
    <3> QED
      BY <1>1, <2>3, <3>1, ReceiptsBut
  <2>6. CallOK(p)'
    BY <1>2, <2>4, <2>5 DEF CallOK, Plain
  <2>7. CallMove(p)
    BY <1>2, <2>4, <2>5, <2>6, PlainMove DEF Plain, Deleting
  <2>8. CallsMove({p}) /\ {p} \in SUBSET Agents
    BY <2>5, <2>7 DEF CallsMove
  <2>9. failed' \in [Conversations -> Flights \cup {NoFlight}]
    <3>1. failed' = [failed EXCEPT ![c] = NoFlight]
      BY <1>4 DEF Retry
    <3> QED
      BY <1>1, <3>1 DEF RegistryOK
  <2>10. CanReserve /\ entries[c].phase = "None"
         /\ UNCHANGED <<pending, draining, retiring, exists, deleted, drain>>
    BY <1>4 DEF Retry
  <2> QED
    BY <1>1, <1>2, <2>1, <2>5, <2>8, <2>9, <2>10, ClaimStep
<1> QED
  BY <1>3, <1>4

-----------------------------------------------------------------------------
(* Steps of one call and one flight.                                       *)

LEMMA FlightAndCallStep ==
    ASSUME ResidencyInv, NEW f \in Flights, NEW c \in Conversations, Begun(f, c), SameWork(f),
           flights' \in [Flights -> FlightRecords],
           NEW p \in Agents, calls' \in [Agents -> CallRecords],
           \A q \in Agents \ {p} : SameCall(q), CallMove(p),
           \/ flights'[f].req = flights[f].req /\ flights'[f].native = flights[f].native
           \/ entries[c].runtime = f => Claimer(p, c)',
           UNCHANGED <<entries, bySession, failed, pending, draining, retiring, exists, deleted, drain>>
    PROVE  ResidencyInv'
<1>1. FlightMoves(f) /\ SlotOK(c)' /\ RegistryOK
  BY SameWorkStep DEF ResidencyInv
<1>2. FlightsMove(c, {f})
  BY <1>1 DEF FlightMoves, FlightsMove, Begun
<1>3. entries[c].phase = "Loaded" => entries[c].runtime \in Flights
  BY <1>1, EntryShapes DEF RegistryOK, Slots, SlotShape
<1>4. entries'[c].phase = "Loaded" =>
         \/ /\ flights'[entries[c].runtime].native = flights[entries[c].runtime].native
            /\ flights'[entries[c].runtime].req = flights[entries[c].runtime].req
         \/ \E q \in Agents : Claimer(q, c)'
  BY <1>1, <1>3 DEF FlightMoves
<1>5. EntryMoves(c, {f})
  BY <1>1, <1>4 DEF EntryMoves, ResidencyInv, ExistInv
<1>6. CallsMove({p}) /\ {p} \in SUBSET Agents /\ {f} \in SUBSET Flights
  BY DEF CallsMove
<1>7. RoomMoves
  BY DEF RoomMoves, ResidencyInv, IndexInv, RoomInv, Residents
<1>8. RegistryOK'
  BY <1>1 DEF RegistryOK
<1> QED
  BY <1>2, <1>5, <1>6, <1>7, <1>8, SlotStep

LEMMA CancelLoadingStep ==
    ASSUME ResidencyInv, NEW p \in Agents, CancelLoading(p)
    PROVE  ResidencyInv'
<1>1. CallOK(p) /\ calls[p] \in CallRecords /\ RegistryOK /\ calls[p].at = "cancel"
  BY DEF ResidencyInv, CallInv, RegistryOK, CancelLoading
<1>2. PICK f \in Flights : f = calls[p].flight
  BY <1>1 DEF CallOK, CallRecords
<1>3. flights[f].pc # "none" /\ flights[f].conv = calls[p].conv /\ calls[p].op \in Retirements
  BY <1>1, <1>2 DEF CallOK, Prepares, ResidencyInv, FlightInv, FlightOK, FreeOK
<1>4. PICK c \in Conversations : Begun(f, c)
  BY <1>3, BegunFlight
<1>5. flights' = [flights EXCEPT ![f].req = "closing"] /\ entries' = entries
  BY <1>2 DEF CancelLoading
<1>6. flights' \in [Flights -> FlightRecords]
  BY <1>4, <1>5, EditReq DEF Begun
<1>7. SameWork(f) /\ flights'[f].kind = flights[f].kind /\ flights'[f].conv = flights[f].conv
  BY <1>4, <1>5 DEF Begun, FlightRecords, SameWork
<1>8. PICK x : x = [calls[p] EXCEPT !.at = "wait"]
  OBVIOUS
<1>9. x \in CallRecords /\ x.op = calls[p].op /\ x.conv = calls[p].conv /\ x.at = "wait"
      /\ x.flight = f /\ x.todo = calls[p].todo
  <2>1. x \in CallRecords
    BY <1>1, <1>8, CallAt
  <2> QED
    BY <1>1, <1>2, <1>8, <2>1 DEF CallRecords
<1>10. calls' = [calls EXCEPT ![p] = x]
  BY <1>8 DEF CancelLoading
<1>11. calls' \in [Agents -> CallRecords] /\ calls'[p] = x /\ \A q \in Agents \ {p} : SameCall(q)
  BY <1>1, <1>9, <1>10, OneCall
<1>12. UNCHANGED <<entries, bySession, failed, pending, draining, retiring, exists, deleted, drain>>
  BY DEF CancelLoading
<1>13. CallMove(p)
  <2>1. CallOK(p)'
    BY <1>1, <1>2, <1>3, <1>7, <1>9, <1>11, <1>12 DEF CallOK, Retirements
  <2>2. p \in Callers => DeleteOK(p)'
    <3> SUFFICES ASSUME p \in Callers, Deleting(p)' PROVE DeleteOK(p)'
      BY DEF DeleteOK
    <3>1. DeleteOK(p) /\ Deleting(p)
      BY <1>1, <1>9, <1>11 DEF ResidencyInv, DeleteInv, Deleting
    <3> QED
      BY <1>1, <1>2, <1>9, <1>11, <1>12, <3>1 DEF DeleteOK
  <2>3. p \in Conversations /\ drain \in {"last", "over"} => DrainOK(p)' /\ ~Over(p)
    <3> SUFFICES ASSUME p \in Conversations, drain \in {"last", "over"} PROVE DrainOK(p)' /\ ~Over(p)
      OBVIOUS
    <3>1. DrainOK(p)
      BY DEF ResidencyInv, DrainInv
    <3> QED
      BY <1>1, <1>2, <1>9, <1>11, <1>12, <3>1 DEF DrainOK, Over
  <2>4. \A d \in Conversations : ~Claimer(p, d)
    BY <1>1 DEF Claimer
  <2> QED
    BY <1>1, <1>9, <1>11, <2>1, <2>2, <2>3, <2>4 DEF CallMove, Deleting
<1>14. entries[c].runtime = f => Claimer(p, c)'
  BY <1>3, <1>4, <1>5, <1>9, <1>11 DEF Claimer, Begun
<1> QED
  BY <1>4, <1>6, <1>7, <1>11, <1>12, <1>13, <1>14, FlightAndCallStep

LEMMA SubmitJoinsStep ==
    ASSUME ResidencyInv, NEW p \in Agents, NEW c \in Conversations, SubmitJoins(p, c)
    PROVE  ResidencyInv'
<1>1. /\ Enters(p, "submit", c) /\ "submit" \notin Retirements /\ "submit" \in Ops
      /\ RegistryOK /\ calls[p] \in CallRecords
  BY DEF SubmitJoins, Retirements, Ops, ResidencyInv, RegistryOK
<1>2. UNCHANGED <<entries, bySession, failed, pending, draining, retiring, exists, deleted, drain>>
  BY DEF SubmitJoins
<1>3. calls[p].op = "submit" /\ calls[p].conv = c
  BY <1>1 DEF Enters
<1>4. ASSUME entries[c].phase \in {"Loading", "Unloading"},
             flights' = [flights EXCEPT ![entries[c].flight].submitted = TRUE]
             \/ flights' = [flights EXCEPT ![entries[c].flight].submitted = TRUE,
                                           ![entries[c].flight].restart = TRUE],
             calls' = [calls EXCEPT ![p] = Recorded(p, entries[c].flight)]
      PROVE  ResidencyInv'
  <2>1. PICK f \in Flights : f = entries[c].flight /\ flights[f].kind # "free" /\ flights[f].conv = c
    BY <1>4, SlotFlight
  <2>2. flights[f].pc # "none"
    BY <2>1 DEF ResidencyInv, FlightInv, FlightOK, FreeOK
  <2>3. Begun(f, c)
    BY <2>1, <2>2, BegunFlight DEF Begun
  <2>4. flights' = [flights EXCEPT ![f].submitted = TRUE]
        \/ flights' = [flights EXCEPT ![f].submitted = TRUE, ![f].restart = TRUE]
    BY <1>4, <2>1
  <2>5. flights' \in [Flights -> FlightRecords]
    <3>1. CASE flights' = [flights EXCEPT ![f].submitted = TRUE]
      BY <2>3, <3>1, EditSubmitted DEF Begun
    <3>2. CASE flights' = [flights EXCEPT ![f].submitted = TRUE, ![f].restart = TRUE]
      BY <2>3, <3>2, EditSubmitted, EditRestart DEF Begun
    <3> QED
      BY <2>4, <3>1, <3>2
  <2>6. SameWork(f) /\ flights'[f].req = flights[f].req /\ flights'[f].native = flights[f].native
    BY <1>2, <2>3, <2>4 DEF Begun, FlightRecords, SameWork
  <2>7. PICK x : x = Recorded(p, f)
    OBVIOUS
  <2>8. x.op = "submit" /\ x.conv = c /\ x.at = "accepted" /\ x.flight = f
    BY <1>1, <1>3, <2>7 DEF Recorded, CallRecords
  <2>9. x \in CallRecords
    BY <1>1, <2>7, CallAt, CallFlight, CallBound DEF Recorded
  <2>10. calls' \in [Agents -> CallRecords] /\ calls'[p] = x /\ \A q \in Agents \ {p} : SameCall(q)
    BY <1>1, <1>4, <2>1, <2>7, <2>9, OneCall
  <2>11. CallMove(p)
    BY <1>1, <1>2, <2>8, <2>10, PlainWaits
  <2> QED
    BY <1>2, <2>3, <2>5, <2>6, <2>10, <2>11, FlightAndCallStep
<1>5. CASE Returns(p, "submit") /\ UNCHANGED flights
  <2>1. Plain(p) /\ UNCHANGED Elsewhere
    BY <1>1, <1>2, <1>5, EntersPlain DEF Elsewhere
  <2> QED
    BY <1>1, <1>5, <2>1, PlainReturnStep
<1>6. CASE entries[c].phase = "StorageOnly" /\ Waits(p, "submit", c, entries[c].flight, FALSE)
           /\ UNCHANGED flights
  <2>1. UNCHANGED Elsewhere /\ entries[c].flight \in Flights
    BY <1>2, <1>6, SlotFlight DEF Elsewhere
  <2> QED
    BY <1>1, <1>6, <2>1, PlainWaitStep
<1> QED
  BY <1>4, <1>5, <1>6 DEF SubmitJoins

LEMMA AcceptStep ==
    ASSUME ResidencyInv, NEW p \in Agents, NEW c \in Conversations, Accept(p, c)
    PROVE  ResidencyInv'
<1>1. p \in Callers /\ c \in exists /\ calls[p].at = "idle" /\ RegistryOK /\ p \notin Conversations
  BY DEF Accept, ResidencyInv
<1>2. UNCHANGED <<entries, bySession, failed, pending, draining, retiring, exists, deleted, drain>>
  BY DEF Accept
<1> DEFINE e == entries[c]
           o == CASE e.phase \in {"Loading", "Unloading"} /\ Prepares(e.flight) -> e.flight
                  [] e.phase = "Loaded" -> e.runtime
                  [] OTHER -> NoFlight
           refused == draining \/ SessionOf[c] \in retiring
           bd == IF o # NoFlight /\ ~IsRetiring(o) THEN o ELSE NoFlight
<1>3. /\ calls' = [calls EXCEPT ![p] = [Idle EXCEPT
                !.op = "submit", !.conv = c, !.bound = bd,
                !.at = IF refused THEN "returned" ELSE "select"]]
      /\ flights' = [f \in Flights |->
                IF ~refused /\ f = o /\ e.phase # "Loaded"
                THEN [flights[f] EXCEPT !.submitted = TRUE] ELSE flights[f]]
  BY DEF Accept
<1>4. SlotShape(e)
  BY <1>1, EntryShapes DEF RegistryOK, Slots
<1>5. o \in Flights \cup {NoFlight} /\ bd \in Flights \cup {NoFlight}
      /\ (o # NoFlight /\ e.phase # "Loaded" => e.phase \in {"Loading", "Unloading"} /\ o = e.flight)
  <2>1. CASE e.phase \in {"Loading", "Unloading"} /\ Prepares(e.flight)
    BY <1>4, <2>1 DEF SlotShape
  <2>2. CASE ~(e.phase \in {"Loading", "Unloading"} /\ Prepares(e.flight)) /\ e.phase = "Loaded"
    BY <1>4, <2>2 DEF SlotShape
  <2>3. CASE ~(e.phase \in {"Loading", "Unloading"} /\ Prepares(e.flight)) /\ e.phase # "Loaded"
    BY <2>3
  <2> QED
    BY <2>1, <2>2, <2>3
<1>6. PICK at \in {"returned", "select"}, b \in Flights \cup {NoFlight} :
          calls' = [calls EXCEPT ![p] = [Idle EXCEPT !.op = "submit", !.conv = c, !.bound = b, !.at = at]]
  <2> HIDE DEF o, bd, refused
  <2>1. CASE refused
    BY <1>3, <1>5, <2>1
  <2>2. CASE ~refused
    BY <1>3, <1>5, <2>2
  <2> QED
    BY <2>1, <2>2
<1>7. PICK x : x = [Idle EXCEPT !.op = "submit", !.conv = c, !.bound = b, !.at = at]
  OBVIOUS
<1>8. x \in CallRecords
  BY <1>6, <1>7, IdleTyped, CallOp, CallConv, CallBound, CallAt
<1>9. x.op = "submit" /\ x.conv = c /\ x.at \in {"returned", "select"} /\ x.flight = NoFlight
  BY <1>6, <1>7 DEF Idle
<1>10. calls' \in [Agents -> CallRecords] /\ calls'[p] = x /\ \A q \in Agents \ {p} : SameCall(q)
  BY <1>1, <1>6, <1>7, <1>8, OneCall
<1>11. CallOK(p)'
  BY <1>1, <1>2, <1>9, <1>10 DEF CallOK, Retirements
<1>12. CallMove(p)
  BY <1>1, <1>9, <1>10, <1>11, PlainMove DEF Deleting
<1>13. CASE refused \/ o = NoFlight \/ e.phase = "Loaded"
  <2>1. \A f \in Flights : flights'[f] = flights[f]
    <3> HIDE DEF o, refused, e
    <3> QED
      BY <1>3, <1>13, FlightNames
  <2>2. flights' = flights
    <3>1. flights' = [f \in Flights |-> flights'[f]] /\ flights = [f \in Flights |-> flights[f]]
      BY <1>1, <1>3 DEF RegistryOK
    <3> QED
      BY <2>1, <3>1
  <2>3. UNCHANGED Elsewhere
    BY <1>2, <2>2 DEF Elsewhere
  <2> QED
    BY <1>10, <1>12, <2>3, QuietStep
<1>14. CASE ~refused /\ o # NoFlight /\ e.phase # "Loaded"
  <2>1. PICK f \in Flights : f = e.flight /\ f = o /\ flights[f].kind # "free" /\ flights[f].conv = c
    <3> HIDE DEF o
    <3> QED
      BY <1>5, <1>14, SlotFlight
  <2>2. flights[f].pc # "none"
    BY <2>1 DEF ResidencyInv, FlightInv, FlightOK, FreeOK
  <2>3. Begun(f, c)
    BY <2>1, <2>2, BegunFlight DEF Begun
  <2>4. /\ flights' \in [Flights -> FlightRecords] /\ flights'[f] = [flights[f] EXCEPT !.submitted = TRUE]
        /\ \A g \in Flights : g # f => flights'[g] = flights[g]
    <3>1. \A y \in FlightRecords : [y EXCEPT !.submitted = TRUE] \in FlightRecords
      BY EditSubmitted
    <3> HIDE DEF o, refused, e
    <3> QED
      BY <1>3, <1>14, <2>1, <2>3, <3>1 DEF Begun
  <2>5. SameWork(f) /\ flights'[f].req = flights[f].req /\ flights'[f].native = flights[f].native
    BY <1>2, <2>3, <2>4 DEF Begun, FlightRecords, SameWork
  <2> QED
    BY <1>2, <1>10, <1>12, <2>3, <2>4, <2>5, FlightAndCallStep
<1> QED
  BY <1>13, <1>14

-----------------------------------------------------------------------------
(* Steps of a retirement.                                                  *)

LEMMA RetireJoinsStep ==
    ASSUME ResidencyInv, NEW p \in Agents, NEW op \in Retirements, NEW c \in Conversations,
           RetireJoins(p, op, c)
    PROVE  ResidencyInv'
<1>1. /\ Enters(p, op, c) /\ RegistryOK /\ calls[p] \in CallRecords /\ UNCHANGED Elsewhere
      /\ entries[c].phase \in {"StorageOnly", "Loading", "Unloading"}
  BY DEF RetireJoins, ResidencyInv, RegistryOK, Elsewhere
<1>2. PICK f \in Flights : f = entries[c].flight /\ flights[f].kind # "free" /\ flights[f].conv = c
  BY <1>1, SlotFlight
<1>3. PICK at \in {"wait", "cancel"} :
        /\ at = "cancel" => Prepares(f)
        /\ calls' = [calls EXCEPT ![p] = [Entered(p, op, c) EXCEPT !.at = at, !.flight = f]]
  <2>1. CASE Prepares(f)
    BY <1>2, <2>1 DEF RetireJoins
  <2>2. CASE ~Prepares(f)
    BY <1>2, <2>2 DEF RetireJoins
  <2> QED
    BY <2>1, <2>2
<1>4. PICK x : x = [Entered(p, op, c) EXCEPT !.at = at, !.flight = f]
  OBVIOUS
<1>5. x.op = op /\ x.conv = c /\ x.at = at /\ x.flight = f /\ x.todo = calls[p].todo
  BY <1>1, <1>4 DEF Entered, CallRecords
<1>6. x \in CallRecords
  BY <1>1, <1>3, <1>4, CallOp, CallConv, CallAt, CallFlight DEF Entered, Retirements
<1>7. calls' \in [Agents -> CallRecords] /\ calls'[p] = x /\ \A q \in Agents \ {p} : SameCall(q)
  BY <1>1, <1>3, <1>4, <1>6, OneCall
<1>8. /\ calls'[p].op = op /\ calls'[p].conv = c /\ calls'[p].at \in {"wait", "cancel"}
      /\ calls'[p].flight = f /\ calls'[p].todo = calls[p].todo
      /\ calls'[p].at = "cancel" => Prepares(f)'
  BY <1>1, <1>3, <1>5, <1>7 DEF Prepares, Elsewhere
<1>9. /\ UNCHANGED <<exists, retiring>> /\ flights'[f].kind # "free" /\ flights'[f].conv = c
      /\ entries'[c].flight = f /\ entries'[c].phase # "Loaded"
      /\ \A d \in Conversations \ {c} : entries'[d] = entries[d]
  BY <1>1, <1>2 DEF Elsewhere
<1>10. CallMove(p)
  BY <1>1, <1>8, <1>9, RetirementWaits
<1> QED
  BY <1>1, <1>7, <1>10, QuietStep

LEMMA RetireAbsentStep ==
    ASSUME ResidencyInv, NEW p \in Agents, NEW op \in Retirements, NEW c \in Conversations,
           RetireAbsent(p, op, c)
    PROVE  ResidencyInv'
<1>1. /\ Enters(p, op, c) /\ RegistryOK /\ calls[p] \in CallRecords /\ entries[c].phase = "None"
      /\ Removed(c)
  BY DEF RetireAbsent, ResidencyInv, RegistryOK
<1>2. UNCHANGED <<pending, draining, retiring, flights, exists, deleted, drain>>
  BY DEF RetireAbsent
<1>3. entries' = entries
  <2>1. entries[c] = Empty
    <3>1. entries[c] \in Slots
      BY <1>1 DEF RegistryOK, Slots
    <3> QED
      BY <1>1, <3>1 DEF Slots, Loading, Loaded, Unloading, StorageOnly
  <2> QED
    BY <1>1, <2>1 DEF Removed, Emptied, Put, RegistryOK
<1>4. bySession' = bySession
  <2>1. \A s \in Sessions : bySession[s] # c
    BY <1>1 DEF ResidencyInv, IndexInv, Resident
  <2> QED
    BY <1>1, <2>1 DEF Removed, Emptied, RegistryOK
<1>5. failed' \in [Conversations -> Flights \cup {NoFlight}]
  BY <1>1 DEF Removed, RegistryOK
<1>6. PICK at \in {"next", "retired"} :
        /\ at = "next" <=> op = "delete"
        /\ calls' = [calls EXCEPT ![p] = [Entered(p, op, c) EXCEPT !.at = at, !.flight = NoFlight]]
  <2>1. CASE op = "delete"
    BY <2>1 DEF RetireAbsent, ProvedAbsent
  <2>2. CASE op # "delete"
    BY <2>2 DEF RetireAbsent, ProvedAbsent
  <2> QED
    BY <2>1, <2>2
<1>7. PICK x : x = [Entered(p, op, c) EXCEPT !.at = at, !.flight = NoFlight]
  OBVIOUS
<1>8. x.op = op /\ x.conv = c /\ x.at = at /\ x.flight = NoFlight /\ x.todo = calls[p].todo
  BY <1>1, <1>7 DEF Entered, CallRecords
<1>9. x \in CallRecords
  BY <1>1, <1>6, <1>7, CallOp, CallConv, CallAt, CallFlight DEF Entered, Retirements
<1>10. calls' \in [Agents -> CallRecords] /\ calls'[p] = x /\ \A q \in Agents \ {p} : SameCall(q)
  BY <1>1, <1>6, <1>7, <1>9, OneCall
<1>11. /\ calls[p].at \in {"idle", "select"} /\ c \in exists
       /\ p \in Conversations => op = "unload" /\ p = c /\ calls[p].at = "select"
       /\ op = "delete" => calls[p].at = "select"
       /\ calls[p].at = "select" => calls[p].op = op /\ calls[p].conv = c
  BY <1>1, EntersKnows
<1>12. CallOK(p)'
  <2>1. calls'[p].op = op /\ calls'[p].conv = c /\ calls'[p].at = at /\ calls'[p].flight = NoFlight
    BY <1>8, <1>10
  <2>2. at = "next" => op = "delete"
    BY <1>6
  <2>3. op = "unload" => at = "retired"
    BY <1>6
  <2> QED
    BY <1>2, <1>11, <2>1, <2>2, <2>3 DEF CallOK
<1>13. p \in Callers => DeleteOK(p)'
  <2> SUFFICES ASSUME p \in Callers, Deleting(p)' PROVE DeleteOK(p)'
    BY DEF DeleteOK
  <2>1. DeleteOK(p) /\ Deleting(p) /\ calls[p].conv = c /\ calls'[p].at = "next"
    BY <1>6, <1>8, <1>10, <1>11 DEF ResidencyInv, DeleteInv, Deleting
  <2> QED
    BY <1>1, <1>2, <1>3, <1>8, <1>10, <2>1 DEF DeleteOK
<1>14. p \in Conversations => DrainOK(p)' /\ ~Over(p)
  BY <1>1, <1>3, <1>6, <1>8, <1>10, <1>11 DEF DrainOK, Over, Reported
<1>15. \A d \in Conversations : ~(Claimer(p, d) /\ entries'[d].phase = "Loaded")
  BY <1>1, <1>3, <1>11 DEF Claimer
<1>16. CallMove(p)
  BY <1>6, <1>8, <1>10, <1>11, <1>12, <1>13, <1>14, <1>15 DEF CallMove, Deleting
<1>17. RegistryOK'
  BY <1>1, <1>2, <1>3, <1>4, <1>5, <1>10 DEF RegistryOK
<1> QED
  BY <1>2, <1>3, <1>4, <1>10, <1>16, <1>17, CallStep

\* A slot no longer names a flight that has ended with its writer gone.
LEMMA ProvenFlight ==
    ASSUME ResidencyInv, NEW c \in Conversations, NEW f \in Flights, flights[f].result \in Proven
    PROVE  /\ entries[c].flight # f
           /\ entries[c].phase = "Loaded" => entries[c].runtime # f
<1>1. SlotOK(c) /\ SlotShape(entries[c]) /\ FlightOK(f)
  BY EntryShapes DEF ResidencyInv, SlotInv, FlightInv, RegistryOK, Slots
<1>2. flights[f].pc = "done" /\ f # NoFlight
  BY <1>1, FlightNames DEF FlightOK, EndOK, Proven
<1> QED
  BY <1>1, <1>2 DEF SlotOK, SlotShape, Proven, Composing, Retained

LEMMA RetireAnsweredStep ==
    ASSUME ResidencyInv, NEW p \in Agents, NEW op \in Retirements, RetireAnswered(p, op)
    PROVE  ResidencyInv'
<1>1. /\ CallOK(p) /\ calls[p] \in CallRecords /\ RegistryOK /\ calls[p].at = "wait" /\ calls[p].op = op
      /\ UNCHANGED Elsewhere
  BY DEF RetireAnswered, Answered, ResidencyInv, CallInv, RegistryOK, Elsewhere
<1>2. PICK f \in Flights : f = calls[p].flight
  BY <1>1 DEF CallOK, CallRecords
<1>3. PICK c \in Conversations : c = calls[p].conv
  BY <1>1 DEF CallOK, ResidencyInv, RegistryOK
<1>4. /\ flights[f].result \in {"resident", "absent", "cancelled", "failedAbsent", "unproven"}
      /\ entries' = entries /\ flights' = flights /\ exists' = exists /\ retiring' = retiring
      /\ c \in exists /\ (p \in Conversations => p = c /\ op = "unload")
  BY <1>1, <1>2, <1>3 DEF RetireAnswered, Answered, RegistryOK, FlightRecords, Elsewhere, CallOK
<1>5. p \in Callers /\ op = "delete" => DeleteOK(p) /\ Deleting(p)
  BY <1>1 DEF ResidencyInv, DeleteInv, Deleting
<1>6. p \in Conversations /\ drain \in {"last", "over"} => DrainOK(p)
  BY DEF ResidencyInv, DrainInv
<1>7. flights[f].result \in Proven => entries[c].flight # f
  BY ProvenFlight
<1>8. entries[c].phase = "Loaded" /\ entries[c].runtime = f => flights[f].result = "resident"
  <2>1. SlotOK(c)
    BY DEF ResidencyInv, SlotInv
  <2> QED
    BY <1>4, <2>1 DEF SlotOK
<1>9. op = "delete" => p \in Callers
  BY <1>4 DEF Agents
<1>10. CASE flights[f].result = "resident"
  <2>1. PICK x : x = [calls[p] EXCEPT !.at = "select", !.flight = NoFlight, !.inherits = NoFlight]
    OBVIOUS
  <2>2. x \in CallRecords
    BY <1>1, <2>1, CallAt, CallFlight, CallInherits
  <2>3. x.at = "select" /\ x.flight = NoFlight /\ x.op = op /\ x.conv = c /\ x.todo = calls[p].todo
    BY <1>1, <1>3, <2>1 DEF CallRecords
  <2>4. calls' = [calls EXCEPT ![p] = x]
    BY <1>1, <1>2, <1>10, <2>1 DEF Loops, RetireAnswered, RegistryOK
  <2>5. calls' \in [Agents -> CallRecords] /\ calls'[p] = x /\ \A q \in Agents \ {p} : SameCall(q)
    BY <1>1, <2>2, <2>4, OneCall
  <2>6. CallOK(p)'
    BY <1>1, <1>4, <2>3, <2>5 DEF CallOK
  <2>7. p \in Callers => DeleteOK(p)'
    BY <1>1, <1>3, <1>4, <1>5, <2>3, <2>5 DEF DeleteOK, Deleting
  <2>8. p \in Conversations => DrainOK(p)' /\ ~Over(p)
    BY <1>1, <2>3, <2>5 DEF DrainOK, Over
  <2>9. \A d \in Conversations : Claimer(p, d) => Claimer(p, d)'
    BY <1>1, <1>3, <2>3, <2>5 DEF Claimer
  <2>10. CallMove(p)
    BY <1>1, <1>3, <2>3, <2>5, <2>6, <2>7, <2>8, <2>9 DEF CallMove, Deleting
  <2> QED
    BY <1>1, <2>5, <2>10, QuietStep
<1>11. ASSUME flights[f].result \in Proven, NEW at \in {"next", "retired"}, at = "next" <=> op = "delete",
              calls' = [calls EXCEPT ![p] = [Entered(p, op, c) EXCEPT !.at = at, !.flight = f]]
       PROVE  ResidencyInv'
  <2>1. PICK x : x = [Entered(p, op, c) EXCEPT !.at = at, !.flight = f]
    OBVIOUS
  <2>2. x \in CallRecords
    BY <1>1, <2>1, CallOp, CallConv, CallAt, CallFlight DEF Entered, Retirements
  <2>3. x.at = at /\ x.flight = f /\ x.op = op /\ x.conv = c /\ x.todo = calls[p].todo
    BY <1>1, <2>1 DEF CallRecords, Entered
  <2>4. calls' \in [Agents -> CallRecords] /\ calls'[p] = x /\ \A q \in Agents \ {p} : SameCall(q)
    BY <1>1, <1>11, <2>1, <2>2, OneCall
  <2>5. CallOK(p)'
    <3>1. calls'[p].op = op /\ calls'[p].conv = c /\ calls'[p].at = at /\ calls'[p].flight = f
      BY <2>3, <2>4
    <3>2. at = "next" => op = "delete"
      BY <1>11
    <3>3. op = "unload" => at = "retired"
      BY <1>11
    <3> QED
      BY <1>4, <1>11, <3>1, <3>2, <3>3 DEF CallOK
  <2>6. p \in Callers => DeleteOK(p)'
    <3> SUFFICES ASSUME p \in Callers, Deleting(p)' PROVE DeleteOK(p)'
      BY DEF DeleteOK
    <3>1. DeleteOK(p) /\ Deleting(p) /\ calls'[p].at = "next"
      BY <1>5, <1>11, <2>3, <2>4 DEF Deleting
    <3>2. entries[c].phase = "None"
      BY <1>1, <1>2, <1>3, <1>7, <1>11, <3>1 DEF DeleteOK
    <3> QED
      BY <1>3, <1>4, <2>3, <2>4, <3>1, <3>2 DEF DeleteOK
  <2>7. p \in Conversations /\ drain \in {"last", "over"} => DrainOK(p)' /\ ~Over(p)
    BY <1>1, <1>2, <1>4, <1>6, <1>7, <1>11, <2>3, <2>4 DEF DrainOK, Over, Reported
  <2>8. \A d \in Conversations : ~(Claimer(p, d) /\ entries'[d].phase = "Loaded")
    BY <1>1, <1>2, <1>3, <1>4, <1>8, <1>11 DEF Claimer, Proven
  <2>9. CallMove(p)
    BY <1>1, <1>3, <1>11, <2>3, <2>4, <2>5, <2>6, <2>7, <2>8 DEF CallMove, Deleting
  <2> QED
    BY <1>1, <2>4, <2>9, QuietStep
<1>12. ASSUME Returns(p, op), flights[f].result \in {"failedAbsent", "unproven"} PROVE ResidencyInv'
  <2>1. PICK x : x = [Idle EXCEPT !.op = op, !.at = "returned"]
    OBVIOUS
  <2>2. x \in CallRecords
    BY <2>1, IdleTyped, CallOp, CallAt DEF Retirements
  <2>3. x.at = "returned" /\ x.flight = NoFlight /\ x.op = op
    BY <2>1 DEF Idle
  <2>4. calls' \in [Agents -> CallRecords] /\ calls'[p] = x /\ \A q \in Agents \ {p} : SameCall(q)
    BY <1>1, <1>12, <2>1, <2>2, OneCall DEF Returns
  <2>5. CallOK(p)'
    BY <1>1, <1>4, <2>3, <2>4 DEF CallOK
  <2>6. p \in Conversations /\ drain \in {"last", "over"} => DrainOK(p)' /\ ~Over(p)
    BY <1>1, <1>2, <1>4, <1>6, <1>7, <1>12, <2>3, <2>4, FlightNames DEF DrainOK, Over, Reported, Proven
  <2>7. \A d \in Conversations : ~(Claimer(p, d) /\ entries'[d].phase = "Loaded")
    BY <1>1, <1>2, <1>3, <1>4, <1>8, <1>12 DEF Claimer
  <2>8. CallMove(p)
    BY <1>1, <2>3, <2>4, <2>5, <2>6, <2>7 DEF CallMove, Deleting, DeleteOK
  <2> QED
    BY <1>1, <2>4, <2>8, QuietStep
<1>13. CASE \/ flights[f].result \in {"absent", "cancelled"}
            \/ flights[f].result = "failedAbsent" /\ op = "delete"
  <2>1. flights[f].result \in Proven
    BY <1>13 DEF Proven
  <2>2. calls' = [calls EXCEPT ![p] = ProvedAbsent(p, op, c, f)]
    BY <1>2, <1>3, <1>13 DEF RetireAnswered
  <2>3. CASE op = "delete"
    BY <1>11, <2>1, <2>2, <2>3 DEF ProvedAbsent
  <2>4. CASE op # "delete"
    BY <1>11, <2>1, <2>2, <2>4 DEF ProvedAbsent
  <2> QED
    BY <2>3, <2>4
<1>14. CASE ~(\/ flights[f].result = "resident" \/ flights[f].result \in {"absent", "cancelled"}
              \/ flights[f].result = "failedAbsent" /\ op = "delete")
  <2>1. Returns(p, op)
    BY <1>2, <1>14 DEF RetireAnswered
  <2> QED
    BY <1>4, <1>12, <1>14, <2>1
<1> QED
  BY <1>10, <1>13, <1>14

LEMMA DeleteNextStep ==
    ASSUME ResidencyInv, NEW p \in Agents, DeleteNext(p)
    PROVE  ResidencyInv'
<1>1. /\ CallOK(p) /\ calls[p] \in CallRecords /\ RegistryOK /\ calls[p].at = "next"
      /\ calls[p].op = "delete" /\ UNCHANGED Elsewhere /\ p \in Callers /\ p \notin Conversations
  BY DEF DeleteNext, ResidencyInv, CallInv, CallOK, RegistryOK, Elsewhere, Agents
<1>2. PICK c \in calls[p].todo :
        calls' = [calls EXCEPT ![p] = [@ EXCEPT !.conv = c, !.at = "select",
                        !.flight = NoFlight, !.todo = calls[p].todo \ {c}]]
  BY DEF DeleteNext
<1>3. c \in Conversations /\ calls[p].todo \ {c} \in SUBSET Conversations
  BY <1>1, <1>2 DEF CallRecords
<1>4. PICK x : x = [calls[p] EXCEPT !.conv = c, !.at = "select", !.flight = NoFlight,
                                    !.todo = calls[p].todo \ {c}]
  OBVIOUS
<1>5. x \in CallRecords
  BY <1>1, <1>3, <1>4, CallConv, CallAt, CallFlight, CallTodo
<1>6. x.op = "delete" /\ x.conv = c /\ x.at = "select" /\ x.flight = NoFlight
      /\ x.todo = calls[p].todo \ {c}
  BY <1>1, <1>4 DEF CallRecords
<1>7. calls' = [calls EXCEPT ![p] = x]
  BY <1>1, <1>2, <1>4 DEF RegistryOK
<1>8. calls' \in [Agents -> CallRecords] /\ calls'[p] = x /\ \A q \in Agents \ {p} : SameCall(q)
  BY <1>1, <1>5, <1>7, OneCall
<1>9. DeleteOK(p) /\ Deleting(p) /\ entries' = entries /\ retiring' = retiring /\ exists' = exists
  BY <1>1 DEF ResidencyInv, DeleteInv, Deleting, Elsewhere
<1>10. c \in exists /\ SessionOf[c] = SessionOf[calls[p].conv]
  BY <1>2, <1>9 DEF DeleteOK
<1>11. CallOK(p)'
  BY <1>1, <1>6, <1>8, <1>9, <1>10 DEF CallOK
<1>12. DeleteOK(p)'
  BY <1>1, <1>6, <1>8, <1>9, <1>10 DEF DeleteOK
<1>13. CallMove(p)
  BY <1>1, <1>6, <1>8, <1>9, <1>10, <1>11, <1>12 DEF CallMove, Claimer
<1> QED
  BY <1>1, <1>8, <1>13, QuietStep

-----------------------------------------------------------------------------
(* Steps that begin or end a creation, an operation or a deletion.         *)

\* Caller p moves, in whatever way; of the others nothing is asked but to stay.
LEMMA CallerInv ==
    ASSUME ResidencyInv, RegistryOK', NEW p \in Callers,
           \A q \in Agents \ {p} : SameCall(q),
           FlightsGrow, SlotMoves, WritersKept, exists \subseteq exists',
           UNCHANGED <<draining, drain>>,
           CallOK(p)', DeleteOK(p)',
           \A q \in Callers \ {p} :
             /\ Deleting(q) => SessionOf[calls[q].conv] \in retiring'
             /\ Deleting(p)' /\ Deleting(q) =>
                  SessionOf[calls'[p].conv] # SessionOf[calls[q].conv],
           \A q \in Agents \ {p} : calls[q].at = "creating" => calls[q].conv \notin exists'
    PROVE  CallInv' /\ DeleteInv' /\ DrainInv'
<1> RegistryOK /\ CallInv /\ DeleteInv /\ DrainInv
  BY DEF ResidencyInv
<1>1. ASSUME NEW q \in Agents PROVE CallOK(q)'
  <2>1. CASE q = p
    BY <2>1
  <2>2. CASE q # p
    <3>1. CallOK(q) /\ SameCall(q) /\ (calls[q].at = "creating" => calls[q].conv \notin exists')
      BY <2>2 DEF CallInv
    <3> QED
      BY <3>1, OtherCall
  <2> QED
    BY <2>1, <2>2
<1>2. ASSUME NEW q \in Callers PROVE DeleteOK(q)'
  <2>1. CASE q = p
    BY <2>1
  <2>2. CASE q # p
    <3>1. q \in Agents /\ CallOK(q) /\ DeleteOK(q) /\ SameCall(q)
          /\ (Deleting(q) => SessionOf[calls[q].conv] \in retiring')
      BY <2>2 DEF CallInv, DeleteInv, Agents
    <3> QED
      BY <3>1, OtherDelete
  <2> QED
    BY <2>1, <2>2
<1>3. \A q \in Callers \ {p} :
          (Deleting(q)' <=> Deleting(q)) /\ calls'[q].conv = calls[q].conv
  BY DEF Deleting, SameCall, Agents
<1>4. DeleteInv'
  <2> SUFFICES ASSUME NEW q \in Callers, NEW r \in Callers, Deleting(q)', Deleting(r)',
                      SessionOf[calls'[q].conv] = SessionOf[calls'[r].conv]
               PROVE  q = r
    BY <1>2 DEF DeleteInv
  <2> QED
    BY <1>3 DEF DeleteInv
<1>5. ASSUME NEW c \in Conversations, drain \in {"last", "over"} PROVE DrainOK(c)'
  <2>1. c \in Agents \ {p} /\ draining
    BY <1>5 DEF Agents, DrainInv
  <2>2. CallOK(c) /\ DrainOK(c) /\ SameCall(c)
    BY <1>5, <2>1 DEF CallInv, DrainInv
  <2> QED
    BY <2>1, <2>2, OtherDrain
<1>6. ASSUME NEW c \in Conversations, drain = "over" PROVE Over(c)'
  <2>1. c \in Agents \ {p}
    BY DEF Agents
  <2> QED
    BY <1>6, <2>1 DEF DrainInv, Over, SameCall
<1>7. DrainInv'
  BY <1>5, <1>6 DEF DrainInv
<1> QED
  BY <1>1, <1>4, <1>7 DEF CallInv

LEMMA OpsUntouched ==
    ASSUME OpsInv, NEW p \in Callers, \A q \in Agents \ {p} : SameCall(q), OpsKept,
           calls[p].at # "operating", calls'[p].at # "operating"
    PROVE  OpsInv'
<1>1. \A r \in Flights : OpsOf(r)' = OpsOf(r)
  BY DEF OpsOf, SameCall, Agents
<1> QED
  BY <1>1 DEF OpsInv, OpsKept

\* A caller that is no retirement leaves the claims on the slots alone.
LEMMA UsableKept ==
    ASSUME RegistryOK, UsableInv, NEW p \in Callers, \A q \in Agents \ {p} : SameCall(q),
           UNCHANGED draining,
           ~(calls[p].op \in Retirements /\ calls[p].at \in {"select", "wait"}),
           \A c \in Conversations : entries'[c].phase = "Loaded" =>
                /\ entries'[c] = entries[c]
                /\ flights'[entries[c].runtime].native = flights[entries[c].runtime].native
                /\ flights'[entries[c].runtime].req = flights[entries[c].runtime].req
    PROVE  UsableInv'
<1>1. {p} \in SUBSET Agents
  BY DEF Agents
<1>2. \A q \in {p}, c \in Conversations : ~Claimer(q, c)
  BY DEF Claimer
<1> QED
  BY ZenonT(60), <1>1, <1>2, UsableStep

\* The slots and the flights stay.
LEMMA CoreKept ==
    ASSUME SlotInv, FlightInv, UNCHANGED <<entries, flights>>
    PROVE  /\ SlotInv' /\ FlightInv' /\ FlightsGrow /\ SlotMoves /\ OpsKept
           /\ (CallInv => WritersKept)
<1>1. SlotInv' /\ FlightInv'
  BY DEF SlotInv, SlotOK, FlightInv, FlightOK, FreeOK, OldOK, LoadOK, RetireOK, EndOK,
     StorageOK, WriterOK, NothingOld, Holds, Prepares
<1>2. FlightsGrow /\ SlotMoves /\ OpsKept
  BY DEF FlightsGrow, SlotMoves, OpsKept
<1>3. CallInv => WritersKept
  BY DEF WritersKept, CallInv, CallOK, Agents
<1> QED
  BY <1>1, <1>2, <1>3

LEMMA CreatorsFinite == IsFiniteSet(Creators)
BY FS_Subset DEF Creators

LEMMA CreateReserveStep ==
    ASSUME ResidencyInv, NEW p \in Agents, NEW c \in Conversations, CreateReserve(p, c)
    PROVE  ResidencyInv'
<1>1. /\ RegistryOK /\ p \in Callers /\ calls[p].at = "idle" /\ c \notin exists
      /\ SlotInv /\ FlightInv /\ IndexInv /\ ExistInv /\ RoomInv /\ CallInv /\ OpsInv /\ UsableInv
      /\ UNCHANGED <<entries, bySession, failed, draining, retiring, flights, exists, deleted, drain>>
  BY DEF CreateReserve, ResidencyInv
<1>2. CASE draining \/ ~CanReserve
  <2>1. Returns(p, "create") /\ UNCHANGED Elsewhere
    BY <1>1, <1>2 DEF CreateReserve, Elsewhere
  <2>2. Plain(p) /\ "create" \in Ops
    BY <1>1 DEF Plain, Ops
  <2> QED
    BY <2>1, <2>2, PlainReturnStep
<1>3. CASE ~(draining \/ ~CanReserve)
  <2>1. PICK x : x = [Idle EXCEPT !.op = "create", !.conv = c, !.at = "creating"]
    OBVIOUS
  <2>2. x \in CallRecords
    BY <2>1, IdleTyped, CallOp, CallConv, CallAt
  <2>3. x.op = "create" /\ x.conv = c /\ x.at = "creating" /\ x.flight = NoFlight
    BY <2>1 DEF Idle
  <2>4. calls' = [calls EXCEPT ![p] = x] /\ pending' = pending + 1
    BY <1>3, <2>1 DEF CreateReserve
  <2>5. calls' \in [Agents -> CallRecords] /\ calls'[p] = x /\ \A q \in Agents \ {p} : SameCall(q)
    BY <1>1, <2>2, <2>4, OneCall
  <2>6. RegistryOK'
    BY <1>1, <2>4, <2>5 DEF RegistryOK
  <2>7. SlotInv' /\ FlightInv' /\ FlightsGrow /\ SlotMoves /\ OpsKept /\ WritersKept
    BY <1>1, CoreKept
  <2>8. CallOK(p)' /\ ~Deleting(p)' /\ DeleteOK(p)'
    BY <1>1, <2>3, <2>5 DEF CallOK, Deleting, DeleteOK
  <2>9. /\ \A q \in Agents \ {p} : calls[q].at = "creating" => calls[q].conv \notin exists'
        /\ \A q \in Callers : Deleting(q) => SessionOf[calls[q].conv] \in retiring'
    BY <1>1 DEF CallInv, CallOK, ResidencyInv, DeleteInv, DeleteOK
  <2>10. CallInv' /\ DeleteInv' /\ DrainInv'
    BY <1>1, <2>5, <2>6, <2>7, <2>8, <2>9, CallerInv
  <2>11. OpsInv' /\ UsableInv'
    <3>1. calls'[p].at # "operating" /\ calls[p].at # "operating"
      BY <1>1, <2>3, <2>5
    <3>2. OpsInv'
      BY <1>1, <2>5, <2>7, <3>1, OpsUntouched
    <3> QED
      BY <1>1, <2>5, <3>2, UsableKept
  <2>12. Creators' = Creators \cup {p} /\ p \notin Creators
    BY <1>1, <2>3, <2>5 DEF Creators, SameCall, Agents
  <2>13. RoomInv'
    <3>1. Cardinality(Creators') = Cardinality(Creators) + 1
      BY <2>12, CreatorsFinite, FS_AddElement
    <3>2. pending \in Nat /\ Cardinality(Residents) \in Nat /\ Residents' = Residents
          /\ Cardinality(Residents) + pending < MaxResident
      BY <1>1, <1>3, ResidentsFinite, FS_CardinalityType DEF RegistryOK, CanReserve, Residents
    <3>3. pending' = Cardinality(Creators') /\ Cardinality(Residents') + pending' <= MaxResident
      BY <1>1, <2>4, <3>1, <3>2 DEF RoomInv
    <3>4. \A q \in Creators : calls[q].conv # c
      BY DEF CreateReserve, Creators
    <3>5. \A q \in Creators : calls'[q].conv = calls[q].conv
      BY <2>5, <2>12 DEF Creators, SameCall, Agents
    <3>6. \A q, r \in Creators' : calls'[q].conv = calls'[r].conv => q = r
      BY <1>1, <2>3, <2>5, <2>12, <3>4, <3>5 DEF RoomInv
    <3> QED
      BY <3>3, <3>6 DEF RoomInv
  <2>14. IndexInv' /\ ExistInv'
    BY <1>1 DEF IndexInv, ExistInv
  <2> QED
    BY <2>6, <2>7, <2>10, <2>11, <2>13, <2>14 DEF ResidencyInv
<1> QED
  BY <1>2, <1>3

\* A creation ends: what becomes of its call and of the room it held.
LEMMA CreationEnds ==
    ASSUME ResidencyInv, NEW p \in Agents, calls[p].at = "creating", Returns(p, "create"),
           pending' = pending - 1
    PROVE  /\ p \in Callers /\ calls[p].conv \in Conversations \ exists
           /\ calls' \in [Agents -> CallRecords] /\ \A q \in Agents \ {p} : SameCall(q)
           /\ calls'[p].at = "returned" /\ calls'[p].flight = NoFlight
           /\ pending' \in Nat /\ pending = pending' + 1
           /\ pending' = Cardinality(Creators')
           /\ \A q, r \in Creators' : calls'[q].conv = calls'[r].conv => q = r
           /\ \A q \in Agents \ {p} : calls[q].at = "creating" => calls[q].conv # calls[p].conv
<1>1. RegistryOK /\ CallOK(p) /\ RoomInv /\ CallInv
  BY DEF ResidencyInv, CallInv
<1>2. p \in Callers /\ calls[p].conv \in Conversations \ exists
  BY <1>1 DEF CallOK, Agents
<1>3. PICK x : x = [Idle EXCEPT !.op = "create", !.at = "returned"]
  OBVIOUS
<1>4. x \in CallRecords
  BY <1>3, IdleTyped, CallOp, CallAt
<1>5. x.at = "returned" /\ x.flight = NoFlight
  BY <1>3 DEF Idle
<1>6. calls' \in [Agents -> CallRecords] /\ calls'[p] = x /\ \A q \in Agents \ {p} : SameCall(q)
  BY <1>1, <1>3, <1>4, OneCall DEF Returns
<1>7. Creators' = Creators \ {p} /\ p \in Creators
  BY <1>2, <1>5, <1>6 DEF Creators, SameCall, Agents
<1>8. Cardinality(Creators') = Cardinality(Creators) - 1 /\ Cardinality(Creators) \in Nat
      /\ Cardinality(Creators) # 0
  <2>1. Cardinality(Creators \ {p}) = Cardinality(Creators) - 1
    BY <1>7, CreatorsFinite, FS_RemoveElement
  <2>2. Cardinality(Creators) \in Nat /\ Cardinality(Creators) # 0
    BY <1>7, CreatorsFinite, FS_CardinalityType, FS_EmptySet
  <2> QED
    BY <1>7, <2>1, <2>2
<1>9. pending' \in Nat /\ pending = pending' + 1 /\ pending' = Cardinality(Creators')
  BY <1>1, <1>8 DEF RoomInv
<1>10. \A q \in Creators' : calls'[q].conv = calls[q].conv
  BY <1>6, <1>7 DEF Creators, SameCall, Agents
<1>11. \A q, r \in Creators' : calls'[q].conv = calls'[r].conv => q = r
  BY <1>1, <1>7, <1>10 DEF RoomInv
<1>12. \A q \in Agents \ {p} : calls[q].at = "creating" => calls[q].conv # calls[p].conv
  <2> SUFFICES ASSUME NEW q \in Agents \ {p}, calls[q].at = "creating"
               PROVE  calls[q].conv # calls[p].conv
    OBVIOUS
  <2>1. q \in Creators
    BY <1>1 DEF CallInv, CallOK, Agents, Creators
  <2> QED
    BY <1>1, <1>7, <2>1 DEF RoomInv
<1> QED
  BY <1>2, <1>5, <1>6, <1>9, <1>11, <1>12

LEMMA CreationCalls ==
    ASSUME ResidencyInv, RegistryOK', NEW p \in Agents, calls[p].at = "creating", Returns(p, "create"),
           pending' = pending - 1, FlightsGrow, SlotMoves, WritersKept, OpsKept,
           exists \subseteq exists', exists' \subseteq exists \cup {calls[p].conv},
           UNCHANGED <<draining, retiring, drain>>
    PROVE  CallInv' /\ DeleteInv' /\ DrainInv' /\ OpsInv'
<1>1. /\ p \in Callers /\ calls'[p].at = "returned" /\ calls'[p].flight = NoFlight
      /\ \A q \in Agents \ {p} : SameCall(q)
      /\ \A q \in Agents \ {p} : calls[q].at = "creating" => calls[q].conv # calls[p].conv
  BY CreationEnds
<1>2. CallOK(p)' /\ ~Deleting(p)' /\ DeleteOK(p)'
  BY <1>1 DEF CallOK, Deleting, DeleteOK
<1>3. \A q \in Agents \ {p} : calls[q].at = "creating" => calls[q].conv \notin exists'
  <2>1. \A q \in Agents : calls[q].at = "creating" => calls[q].conv \notin exists
    BY DEF ResidencyInv, CallInv, CallOK
  <2> QED
    BY <1>1, <2>1
<1>4. \A q \in Callers : Deleting(q) => SessionOf[calls[q].conv] \in retiring'
  BY DEF ResidencyInv, DeleteInv, DeleteOK
<1>5. CallInv' /\ DeleteInv' /\ DrainInv'
  BY <1>1, <1>2, <1>3, <1>4, CallerInv
<1>6. calls[p].at # "operating" /\ calls'[p].at # "operating" /\ OpsInv
  BY <1>1 DEF ResidencyInv
<1> QED
  BY <1>1, <1>5, <1>6, OpsUntouched

LEMMA CreateFailsStep ==
    ASSUME ResidencyInv, NEW p \in Agents, CreateFails(p)
    PROVE  ResidencyInv'
<1>1. /\ calls[p].at = "creating" /\ Returns(p, "create") /\ pending' = pending - 1
      /\ UNCHANGED <<entries, bySession, failed, draining, retiring, flights, exists, deleted, drain>>
  BY DEF CreateFails
<1>2. RegistryOK /\ SlotInv /\ FlightInv /\ IndexInv /\ ExistInv /\ RoomInv /\ CallInv /\ UsableInv
  BY DEF ResidencyInv
<1>3. /\ p \in Callers /\ calls' \in [Agents -> CallRecords] /\ \A q \in Agents \ {p} : SameCall(q)
      /\ pending' \in Nat /\ pending = pending' + 1 /\ pending' = Cardinality(Creators')
      /\ \A q, r \in Creators' : calls'[q].conv = calls'[r].conv => q = r
  BY <1>1, CreationEnds
<1>4. RegistryOK'
  BY <1>1, <1>2, <1>3 DEF RegistryOK
<1>5. SlotInv' /\ FlightInv' /\ FlightsGrow /\ SlotMoves /\ OpsKept /\ WritersKept
  BY <1>1, <1>2, CoreKept
<1>6. CallInv' /\ DeleteInv' /\ DrainInv' /\ OpsInv'
  BY <1>1, <1>4, <1>5, CreationCalls
<1>7. RoomInv'
  <2>1. Residents' = Residents /\ Cardinality(Residents) \in Nat
    BY <1>1, ResidentsFinite, FS_CardinalityType DEF Residents
  <2>2. Cardinality(Residents') + pending' <= MaxResident
    BY <1>2, <1>3, <2>1 DEF RoomInv
  <2> QED
    BY <1>3, <2>2 DEF RoomInv
<1>8. UsableInv'
  BY <1>1, <1>2, <1>3, UsableKept
<1>9. IndexInv' /\ ExistInv'
  BY <1>1, <1>2 DEF IndexInv, ExistInv
<1> QED
  BY <1>4, <1>5, <1>6, <1>7, <1>8, <1>9 DEF ResidencyInv

LEMMA CreatePublishStep ==
    ASSUME ResidencyInv, NEW p \in Agents, CreatePublish(p)
    PROVE  ResidencyInv'
<1>1. /\ calls[p].at = "creating" /\ Returns(p, "create") /\ pending' = pending - 1
      /\ UNCHANGED <<failed, draining, retiring, deleted, drain>>
  BY DEF CreatePublish
<1>2. RegistryOK /\ SlotInv /\ FlightInv /\ IndexInv /\ ExistInv /\ RoomInv /\ CallInv /\ UsableInv
  BY DEF ResidencyInv
<1>3. /\ p \in Callers /\ calls' \in [Agents -> CallRecords] /\ \A q \in Agents \ {p} : SameCall(q)
      /\ pending' \in Nat /\ pending = pending' + 1 /\ pending' = Cardinality(Creators')
      /\ \A q, r \in Creators' : calls'[q].conv = calls'[r].conv => q = r
      /\ calls[p].conv \in Conversations \ exists
  BY <1>1, CreationEnds
<1>4. PICK c \in Conversations : c = calls[p].conv /\ c \notin exists
  BY <1>3
<1>5. exists' = exists \cup {c} /\ exists' \subseteq Conversations
  BY <1>2, <1>4 DEF CreatePublish, RegistryOK
<1>6. entries[c].phase = "None" /\ SlotShape(entries[c]) /\ entries[c].flight = NoFlight
      /\ entries[c].runtime = NoFlight
  <2>1. entries[c].phase = "None" /\ SlotShape(entries[c])
    BY <1>2, <1>4, EntryShapes DEF ExistInv, RegistryOK, Slots
  <2> QED
    BY <2>1 DEF SlotShape
<1>7. Cardinality(Residents) \in Nat
  BY ResidentsFinite, FS_CardinalityType
<1>8. CASE ~CheckSession(c)
  <2>1. UNCHANGED <<entries, bySession, flights>>
    BY <1>4, <1>8 DEF CreatePublish
  <2>2. RegistryOK'
    BY <1>1, <1>2, <1>3, <1>5, <2>1 DEF RegistryOK
  <2>3. SlotInv' /\ FlightInv' /\ FlightsGrow /\ SlotMoves /\ OpsKept /\ WritersKept
    BY <1>2, <2>1, CoreKept
  <2>4. CallInv' /\ DeleteInv' /\ DrainInv' /\ OpsInv'
    BY <1>1, <1>4, <1>5, <2>2, <2>3, CreationCalls
  <2>5. RoomInv'
    <3>1. Residents' = Residents
      BY <2>1 DEF Residents
    <3>2. Cardinality(Residents') + pending' <= MaxResident
      BY <1>2, <1>3, <1>7, <3>1 DEF RoomInv
    <3> QED
      BY <1>3, <3>2 DEF RoomInv
  <2>6. UsableInv'
    BY <1>1, <1>2, <1>3, <2>1, UsableKept
  <2>7. IndexInv' /\ ExistInv'
    BY <1>2, <1>5, <2>1 DEF IndexInv, ExistInv
  <2> QED
    BY <2>2, <2>3, <2>4, <2>5, <2>6, <2>7 DEF ResidencyInv
<1>9. CASE CheckSession(c)
  <2>1. PICK f \in Flights : Fresh(f) /\ ClaimLoad(f, "load", c, TRUE)
    BY <1>4, <1>9 DEF CreatePublish
  <2>2. /\ flights' \in [Flights -> FlightRecords]
        /\ \A g \in Flights \ {f} : flights'[g] = flights[g]
        /\ NewRecord(flights'[f], "load", c, "acquire", NoFlight)
        /\ entries' \in [Conversations -> Slots]
        /\ \A d \in Conversations \ {c} : entries'[d] = entries[d]
        /\ entries'[c].phase = "Loading" /\ entries'[c].flight = f
        /\ entries'[c].runtime = NoFlight
        /\ bySession' = [bySession EXCEPT ![SessionOf[c]] = c]
    BY <1>2, <2>1, ClaimedFlight
  <2>3. FlightOK(f)' /\ SlotOK(c)'
    BY <2>2, NewLoadOK DEF NewRecord, ComposingKinds
  <2>4. flights[f].kind = "free" /\ flights[f].pc = "none" /\ ~flights[f].comp
        /\ flights[f].result = "none" /\ flights[f].ops = 0 /\ flights'[f].ops = 0
    BY <1>2, <2>1, <2>2 DEF Fresh, FlightInv, FlightOK, FreeOK, Unused, NewRecord
  <2>5. /\ IndexInv' /\ Residents' = Residents \cup {SessionOf[c]}
        /\ bySession' \in [Sessions -> Conversations \cup {NoConversation}]
    <3>1. entries'[c].phase \in Resident /\ bySession[SessionOf[c]] \in {NoConversation, c}
      BY <1>9, <2>2 DEF Resident, CheckSession
    <3> QED
      BY <1>2, <2>2, <3>1, IndexClaimed
  <2>6. RegistryOK'
    BY <1>1, <1>2, <1>3, <1>5, <2>2, <2>5 DEF RegistryOK, Slots
  <2>7. SlotInv' /\ FlightInv'
    <3>1. PICK S \in SUBSET Flights : S = {f}
      OBVIOUS
    <3>2. /\ \A g \in Flights \ S : flights'[g] = flights[g]
          /\ \A g \in S : FlightOK(g)'
      BY <2>2, <2>3, <3>1
    <3>3. \A g \in S : flights[g].kind = "free" \/ flights[g].conv = c
      BY <2>4, <3>1
    <3>4. \A g \in S : flights[g].pc \in {"report", "done"} =>
                /\ flights'[g].pc \in {"report", "done"}
                /\ flights'[g].kind = flights[g].kind
                /\ flights'[g].comp => flights[g].comp
      BY <2>4, <3>1
    <3>5. \A g \in S : \/ flights[g].ops = 0 => flights'[g].ops = 0
                        \/ entries[c].phase = "Loaded"
      BY <2>4, <3>1
    <3>6. /\ {entries[c].flight, entries[c].runtime} \subseteq S \cup {NoFlight}
          /\ {entries'[c].flight, entries'[c].runtime} \subseteq S \cup {NoFlight}
      BY <1>6, <2>2, <3>1
    <3> QED
      BY <1>2, <2>2, <2>3, <2>6, <3>2, <3>3, <3>4, <3>5, <3>6, CoreStep
  <2>8. FlightsGrow /\ OpsKept
    BY <2>2, <2>4 DEF FlightsGrow, OpsKept
  <2>9. SlotMoves
    BY <1>9, <2>2 DEF SlotMoves, CheckSession
  <2>10. WritersKept
    <3> SUFFICES ASSUME NEW q \in Callers, calls[q].at = "operating"
                 PROVE  flights'[calls[q].flight].comp
      BY DEF WritersKept
    <3>1. calls[q].flight \in Flights /\ flights[calls[q].flight].comp
      BY <1>2 DEF CallInv, CallOK, Agents, RegistryOK, CallRecords
    <3> QED
      BY <2>2, <2>4, <3>1
  <2>11. CallInv' /\ DeleteInv' /\ DrainInv' /\ OpsInv'
    BY <1>1, <1>4, <1>5, <2>6, <2>8, <2>9, <2>10, CreationCalls
  <2>12. RoomInv'
    <3>1. Cardinality(Residents) + pending' < MaxResident
      BY <1>2, <1>3, <1>7 DEF RoomInv
    <3>2. Cardinality(Residents') + pending' <= MaxResident
      BY <1>3, <2>5, <3>1, ResidentsFinite, RoomClaimed
    <3> QED
      BY <1>3, <3>2 DEF RoomInv
  <2>13. ExistInv'
    BY <1>2, <1>5, <2>2 DEF ExistInv
  <2>14. UsableInv'
    <3>1. ASSUME NEW d \in Conversations, entries'[d].phase = "Loaded"
          PROVE  entries'[d] = entries[d] /\ flights'[entries[d].runtime] = flights[entries[d].runtime]
      <4>1. entries'[d] = entries[d] /\ entries[d].phase = "Loaded"
        BY <2>2, <3>1
      <4>2. entries[d].runtime # f /\ entries[d].runtime \in Flights
        BY <2>1, <4>1, FreshFlight, LoadedSlot
      <4> QED
        BY <2>2, <4>1, <4>2
    <3> QED
      BY <1>1, <1>2, <1>3, <3>1, UsableKept
  <2> QED
    BY <2>5, <2>6, <2>7, <2>11, <2>12, <2>13, <2>14 DEF ResidencyInv
<1> QED
  BY <1>8, <1>9

\* Flights that move in nothing that a slot tells of them.
SameFlight(g) ==
    /\ flights'[g].kind = flights[g].kind /\ flights'[g].conv = flights[g].conv
    /\ flights'[g].old = flights[g].old /\ flights'[g].comp = flights[g].comp
    /\ flights'[g].pc = flights[g].pc /\ flights'[g].outcome = flights[g].outcome
    /\ flights'[g].result = flights[g].result

LEMMA SlotKept ==
    ASSUME NEW c \in Conversations, SlotOK(c), SlotShape(entries[c]), entries'[c] = entries[c],
           \A g \in Flights : SameFlight(g)
    PROVE  SlotOK(c)'
<1>1. PICK f : f = entries[c].flight /\ f = entries'[c].flight
  OBVIOUS
<1>2. PICK r : r = entries[c].runtime /\ r = entries'[c].runtime
  OBVIOUS
<1>3. f # NoFlight => SameFlight(f)
  BY <1>1 DEF SlotShape
<1>4. r # NoFlight => SameFlight(r)
  BY <1>2 DEF SlotShape
<1>5. /\ entries[c].phase \in {"Loading", "StorageOnly", "Unloading"} => f # NoFlight
      /\ entries[c].phase \in {"Loaded", "Unloading"} => r # NoFlight
  BY <1>1, <1>2, FlightNames DEF SlotShape
<1> QED
  BY <1>1, <1>2, <1>3, <1>4, <1>5 DEF SlotOK, SameFlight, Prepares

\* The number of operations of the runtime r becomes n, with a step of caller p.
LEMMA OperationStep ==
    ASSUME ResidencyInv, NEW p \in Callers, NEW r \in Flights, NEW c \in Conversations, Begun(r, c),
           NEW n \in Nat, flights' = [flights EXCEPT ![r].ops = n],
           flights[r].ops = 0 => entries[c].phase = "Loaded" /\ flights[r].pc \in {"report", "done"},
           n = Cardinality(OpsOf(r)'), \A g \in Flights \ {r} : OpsOf(g)' = OpsOf(g),
           calls' \in [Agents -> CallRecords], \A q \in Agents \ {p} : SameCall(q), CallOK(p)',
           ~(calls[p].op \in Retirements /\ calls[p].at \in {"select", "wait"}), ~Deleting(p)',
           {calls[p].at, calls'[p].at} \cap {"creating"} = {},
           UNCHANGED <<entries, bySession, failed, pending, draining, retiring, exists, deleted, drain>>
    PROVE  ResidencyInv'
<1> RegistryOK /\ SlotInv /\ FlightInv /\ IndexInv /\ ExistInv /\ RoomInv /\ CallInv /\ OpsInv /\ UsableInv
  BY DEF ResidencyInv
<1>1. /\ flights' \in [Flights -> FlightRecords]
      /\ \A g \in Flights \ {r} : flights'[g] = flights[g]
  BY EditOps DEF RegistryOK
<1>2. /\ flights'[r].kind = flights[r].kind /\ flights'[r].conv = flights[r].conv
      /\ flights'[r].old = flights[r].old /\ flights'[r].comp = flights[r].comp
      /\ flights'[r].pc = flights[r].pc /\ flights'[r].ops = n
      /\ flights'[r].result = flights[r].result /\ flights'[r].outcome = flights[r].outcome
      /\ flights'[r].req = flights[r].req /\ flights'[r].native = flights[r].native
  BY DEF Begun, FlightRecords
<1>3. FlightOK(r)'
  <2>1. NothingOld(r) => NothingOld(r)'
    BY <1>1, <1>2 DEF NothingOld, Begun
  <2>2. FreeOK(r)' /\ OldOK(r)'
    BY <1>1, <1>2 DEF FlightOK, FreeOK, OldOK, Begun, Prepares
  <2>3. LoadOK(r)' /\ StorageOK(r)' /\ WriterOK(r)' /\ EndOK(r)'
    BY <1>1, <1>2, <2>1 DEF FlightOK, LoadOK, StorageOK, WriterOK, EndOK, Begun, Prepares, Holds
  <2>4. RetireOK(r)'
    <3>1. flights[r].pc = "shutdown" => flights[r].old # r /\ flights[r].old \in Flights
      BY FlightNames DEF FlightOK, RetireOK, Begun, Holds, SlotShape, Retained
    <3> QED
      BY <1>1, <1>2, <2>1, <3>1 DEF FlightOK, RetireOK, Begun, Holds
  <2> QED
    BY <2>2, <2>3, <2>4 DEF FlightOK
<1>4. SlotOK(c)'
  <2>1. \A g \in Flights : SameFlight(g)
    BY <1>1, <1>2 DEF SameFlight
  <2>2. entries'[c] = entries[c] /\ SlotOK(c) /\ SlotShape(entries[c])
    BY DEF Begun
  <2> QED
    BY <2>1, <2>2, SlotKept
<1>5. RegistryOK'
  BY <1>1 DEF RegistryOK
<1>6. SlotInv' /\ FlightInv'
  <2>1. PICK S \in SUBSET Flights : S = {r}
    OBVIOUS
  <2>2. /\ \A g \in Flights \ S : flights'[g] = flights[g]
        /\ \A g \in S : FlightOK(g)'
        /\ \A d \in Conversations \ {c} : entries'[d] = entries[d]
        /\ entries'[c] = entries[c]
    BY <1>1, <1>3, <2>1
  <2>3. \A g \in S : flights[g].kind = "free" \/ flights[g].conv = c
    BY <2>1 DEF Begun
  <2>4. \A g \in S : flights[g].pc \in {"report", "done"} =>
                /\ flights'[g].pc \in {"report", "done"}
                /\ flights'[g].kind = flights[g].kind
                /\ flights'[g].comp => flights[g].comp
    BY <1>2, <2>1
  <2>5. \A g \in S : \/ flights[g].ops = 0 => flights'[g].ops = 0
                     \/ entries[c].phase = "Loaded"
    BY <1>2, <2>1
  <2> QED
    BY <1>4, <1>5, <2>2, <2>3, <2>4, <2>5, CoreStep
<1>7. FlightsGrow
  BY <1>1, <1>2 DEF FlightsGrow
<1>8. SlotMoves
  BY DEF SlotMoves
<1>9. WritersKept
  <2> SUFFICES ASSUME NEW q \in Callers, calls[q].at = "operating"
               PROVE  flights'[calls[q].flight].comp
    BY DEF WritersKept
  <2>1. calls[q].flight \in Flights /\ flights[calls[q].flight].comp
    BY DEF CallInv, CallOK, Agents, RegistryOK, CallRecords
  <2> QED
    BY <1>1, <1>2, <2>1
<1>10. DeleteOK(p)'
  BY DEF DeleteOK
<1>11. /\ \A q \in Agents \ {p} : calls[q].at = "creating" => calls[q].conv \notin exists'
       /\ \A q \in Callers : Deleting(q) => SessionOf[calls[q].conv] \in retiring'
  BY DEF CallInv, CallOK, ResidencyInv, DeleteInv, DeleteOK
<1>12. CallInv' /\ DeleteInv' /\ DrainInv'
  BY <1>5, <1>7, <1>8, <1>9, <1>10, <1>11, CallerInv
<1>13. OpsInv'
  BY <1>1, <1>2 DEF OpsInv
<1>14. UsableInv'
  <2>1. \A d \in Conversations : entries'[d].phase = "Loaded" =>
                /\ entries'[d] = entries[d]
                /\ flights'[entries[d].runtime].native = flights[entries[d].runtime].native
                /\ flights'[entries[d].runtime].req = flights[entries[d].runtime].req
    <3> SUFFICES ASSUME NEW d \in Conversations, entries[d].phase = "Loaded"
                 PROVE  /\ flights'[entries[d].runtime].native = flights[entries[d].runtime].native
                        /\ flights'[entries[d].runtime].req = flights[entries[d].runtime].req
      OBVIOUS
    <3>1. entries[d].runtime \in Flights
      BY LoadedSlot
    <3> QED
      BY <1>1, <1>2, <3>1
  <2> QED
    BY <2>1, UsableKept
<1>15. RoomInv'
  <2>1. Creators' = Creators /\ Residents' = Residents /\ \A q \in Creators : calls'[q].conv = calls[q].conv
    BY ZenonT(60) DEF Creators, SameCall, Agents, Residents
  <2> QED
    BY <2>1 DEF RoomInv
<1>16. IndexInv' /\ ExistInv'
  BY DEF IndexInv, ExistInv
<1> QED
  BY <1>5, <1>6, <1>12, <1>13, <1>14, <1>15, <1>16 DEF ResidencyInv

LEMMA OperationsFinite == \A r : IsFiniteSet(OpsOf(r))
BY FS_Subset DEF OpsOf

LEMMA AdmitOperationStep ==
    ASSUME ResidencyInv, NEW p \in Agents, AdmitOperation(p)
    PROVE  ResidencyInv'
<1>1. /\ RegistryOK /\ CallOK(p) /\ calls[p] \in CallRecords /\ calls[p].at = "admit"
      /\ UNCHANGED <<entries, bySession, failed, pending, draining, retiring, exists, deleted, drain>>
  BY DEF AdmitOperation, ResidencyInv, CallInv, RegistryOK
<1>2. /\ p \in Callers /\ calls[p].op \in {"operate", "storage"}
      /\ calls[p].flight \in Flights /\ calls[p].conv \in Conversations
  BY <1>1 DEF CallOK, Agents, CallRecords, RegistryOK
<1>3. PICK c \in Conversations : c = calls[p].conv
  BY <1>2
<1>4. PICK r \in Flights : r = calls[p].flight
  BY <1>2
<1>5. CASE ~(entries[c] = Loaded(r) /\ ~Fenced(c))
  <2>1. UNCHANGED Elsewhere
    BY <1>1, <1>3, <1>4, <1>5 DEF AdmitOperation, Elsewhere
  <2>2. CASE calls[p].op = "storage"
    <3>1. Loops(p, NoFlight)
      BY <1>3, <1>4, <1>5, <2>2 DEF AdmitOperation
    <3>2. calls[p].op \notin Retirements /\ NoFlight \in Flights \cup {NoFlight}
      BY <2>2 DEF Retirements
    <3> QED
      BY <1>1, <1>2, <2>1, <3>1, <3>2, PlainLoopStep
  <2>3. CASE calls[p].op # "storage"
    <3>1. Returns(p, "operate")
      BY <1>3, <1>4, <1>5, <2>3 DEF AdmitOperation
    <3>2. Plain(p) /\ "operate" \in Ops
      BY <1>1, <1>2 DEF Plain, Ops
    <3> QED
      BY <2>1, <3>1, <3>2, PlainReturnStep
  <2> QED
    BY <2>2, <2>3
<1>6. CASE entries[c] = Loaded(r) /\ ~Fenced(c)
  <2>1. flights' = [flights EXCEPT ![r].ops = @ + 1] /\ calls' = [calls EXCEPT ![p].at = "operating"]
    BY <1>3, <1>4, <1>6 DEF AdmitOperation
  <2>2. entries[c].phase = "Loaded" /\ entries[c].runtime = r
    BY <1>6 DEF Loaded
  <2>3. /\ flights[r].conv = c /\ Prepares(r) /\ flights[r].pc \in {"report", "done"}
        /\ flights[r].comp
    BY <2>2, LoadedSlot
  <2>4. Begun(r, c)
    BY <2>3, BegunFlight DEF Begun
  <2>5. PICK n \in Nat : n = flights[r].ops + 1
    BY <2>4 DEF Begun, FlightRecords
  <2>6. flights' = [flights EXCEPT ![r].ops = n]
    BY <2>1, <2>4, <2>5 DEF Begun
  <2>7. PICK x : x = [calls[p] EXCEPT !.at = "operating"]
    OBVIOUS
  <2>8. x \in CallRecords /\ x.at = "operating" /\ x.flight = r /\ x.op = calls[p].op /\ x.conv = c
    BY <1>1, <1>3, <1>4, <2>7 DEF CallRecords
  <2>9. calls' \in [Agents -> CallRecords] /\ calls'[p] = x /\ \A q \in Agents \ {p} : SameCall(q)
    BY <1>1, <2>1, <2>7, <2>8, OneCall
  <2>10. flights'[r].comp /\ Prepares(r)'
    BY <2>3, <2>4, <2>6 DEF Begun, FlightRecords, Prepares
  <2>11. CallOK(p)'
    BY <1>2, <2>8, <2>9, <2>10, FlightNames DEF CallOK
  <2>12. OpsOf(r)' = OpsOf(r) \cup {p} /\ p \notin OpsOf(r)
         /\ \A g \in Flights \ {r} : OpsOf(g)' = OpsOf(g)
    BY <1>1, <1>2, <1>4, <2>8, <2>9 DEF OpsOf, SameCall, Agents
  <2>13. n = Cardinality(OpsOf(r)')
    <3>1. Cardinality(OpsOf(r) \cup {p}) = Cardinality(OpsOf(r)) + 1
      BY <2>12, OperationsFinite, FS_AddElement
    <3> QED
      BY <2>5, <2>12, <3>1 DEF ResidencyInv, OpsInv
  <2>14. /\ ~(calls[p].op \in Retirements /\ calls[p].at \in {"select", "wait"}) /\ ~Deleting(p)'
         /\ {calls[p].at, calls'[p].at} \cap {"creating"} = {}
    BY <1>1, <2>8, <2>9 DEF Deleting
  <2> QED
    BY <1>1, <1>2, <2>2, <2>3, <2>4, <2>6, <2>9, <2>11, <2>12, <2>13, <2>14, OperationStep
<1> QED
  BY <1>5, <1>6

LEMMA ReleaseOperationStep ==
    ASSUME ResidencyInv, NEW p \in Agents, ReleaseOperation(p)
    PROVE  ResidencyInv'
<1>1. /\ RegistryOK /\ CallOK(p) /\ calls[p] \in CallRecords /\ calls[p].at = "operating" /\ OpsInv
      /\ UNCHANGED <<entries, bySession, failed, pending, draining, retiring, exists, deleted, drain>>
  BY DEF ReleaseOperation, ResidencyInv, CallInv, RegistryOK
<1>2. /\ p \in Callers /\ calls[p].flight \in Flights /\ Prepares(calls[p].flight)
  BY <1>1 DEF CallOK, Agents, CallRecords
<1>3. PICK r \in Flights : r = calls[p].flight /\ Prepares(r)
  BY <1>2
<1>4. PICK c \in Conversations : Begun(r, c)
  <2>1. flights[r].pc # "none"
    BY <1>3 DEF ResidencyInv, FlightInv, FlightOK, FreeOK, Prepares
  <2> QED
    BY <2>1, BegunFlight
<1>5. flights[r].ops # 0 /\ flights[r].ops \in Nat
  BY <1>1, <1>2, <1>3, <1>4, OperatedIsCounted DEF Begun, FlightRecords
<1>6. PICK n \in Nat : n = flights[r].ops - 1
  BY <1>5
<1>7. flights' = [flights EXCEPT ![r].ops = n]
  BY <1>3, <1>4, <1>6 DEF Begun, ReleaseOperation
<1>8. PICK x : x = [Idle EXCEPT !.op = calls[p].op, !.at = "returned"]
  OBVIOUS
<1>9. x \in CallRecords
  <2>1. calls[p].op \in {"none", "load", "unload", "replace", "submit", "scheduled", "delete",
                         "operate", "storage", "create", "retry"}
    BY <1>1 DEF CallRecords
  <2> QED
    BY <1>8, <2>1, IdleTyped, CallOp, CallAt
<1>10. x.at = "returned" /\ x.flight = NoFlight
  BY <1>8 DEF Idle
<1>11. calls' \in [Agents -> CallRecords] /\ calls'[p] = x /\ \A q \in Agents \ {p} : SameCall(q)
  BY <1>1, <1>8, <1>9, OneCall DEF ReleaseOperation, Returns
<1>12. CallOK(p)'
  BY <1>2, <1>10, <1>11 DEF CallOK
<1>13. OpsOf(r)' = OpsOf(r) \ {p} /\ p \in OpsOf(r)
       /\ \A g \in Flights \ {r} : OpsOf(g)' = OpsOf(g)
  BY <1>1, <1>2, <1>3, <1>10, <1>11 DEF OpsOf, SameCall, Agents
<1>14. n = Cardinality(OpsOf(r)')
  <2>1. Cardinality(OpsOf(r) \ {p}) = Cardinality(OpsOf(r)) - 1
    BY <1>13, OperationsFinite, FS_RemoveElement
  <2> QED
    BY <1>1, <1>6, <1>13, <2>1 DEF OpsInv
<1>15. /\ ~(calls[p].op \in Retirements /\ calls[p].at \in {"select", "wait"}) /\ ~Deleting(p)'
       /\ {calls[p].at, calls'[p].at} \cap {"creating"} = {}
  BY <1>1, <1>10, <1>11 DEF Deleting
<1> QED
  BY <1>1, <1>2, <1>4, <1>5, <1>7, <1>11, <1>12, <1>13, <1>14, <1>15, OperationStep

\* A deletion closes or opens the admission of its session; the registry stays.
LEMMA AdmissionStep ==
    ASSUME ResidencyInv, NEW p \in Callers, calls' \in [Agents -> CallRecords],
           \A q \in Agents \ {p} : SameCall(q), CallOK(p)', DeleteOK(p)',
           \A q \in Callers \ {p} :
             /\ Deleting(q) => SessionOf[calls[q].conv] \in retiring'
             /\ Deleting(p)' /\ Deleting(q) =>
                  SessionOf[calls'[p].conv] # SessionOf[calls[q].conv],
           {calls[p].at, calls'[p].at} \cap {"creating", "operating", "select", "wait"} = {},
           failed' \in [Conversations -> Flights \cup {NoFlight}],
           retiring' \subseteq Sessions, deleted' \subseteq Sessions,
           UNCHANGED <<entries, bySession, pending, draining, flights, exists, drain>>
    PROVE  ResidencyInv'
<1>1. RegistryOK /\ SlotInv /\ FlightInv /\ IndexInv /\ ExistInv /\ RoomInv /\ CallInv /\ OpsInv /\ UsableInv
  BY DEF ResidencyInv
<1>2. RegistryOK'
  BY <1>1 DEF RegistryOK
<1>3. SlotInv' /\ FlightInv' /\ FlightsGrow /\ SlotMoves /\ OpsKept /\ WritersKept
  BY <1>1, CoreKept
<1>4. \A q \in Agents \ {p} : calls[q].at = "creating" => calls[q].conv \notin exists'
  BY <1>1 DEF CallInv, CallOK
<1>5. CallInv' /\ DeleteInv' /\ DrainInv'
  BY <1>2, <1>3, <1>4, CallerInv
<1>6. OpsInv'
  <2>1. calls[p].at # "operating" /\ calls'[p].at # "operating"
    OBVIOUS
  <2> QED
    BY <1>1, <1>3, <2>1, OpsUntouched
<1>7. UsableInv'
  <2>1. calls[p].at \notin {"select", "wait"}
    OBVIOUS
  <2> QED
    BY <1>1, <2>1, UsableKept
<1>8. RoomInv'
  <2>1. Creators' = Creators /\ Residents' = Residents /\ \A q \in Creators : calls'[q].conv = calls[q].conv
    BY ZenonT(60) DEF Creators, SameCall, Agents, Residents
  <2> QED
    BY <1>1, <2>1 DEF RoomInv
<1>9. IndexInv' /\ ExistInv'
  BY <1>1 DEF IndexInv, ExistInv
<1> QED
  BY <1>2, <1>3, <1>5, <1>6, <1>7, <1>8, <1>9 DEF ResidencyInv

LEMMA DeleteFenceStep ==
    ASSUME ResidencyInv, NEW p \in Agents, NEW c \in Conversations, DeleteFence(p, c)
    PROVE  ResidencyInv'
<1>1. /\ RegistryOK /\ p \in Callers /\ c \in exists /\ calls[p].at = "idle"
      /\ UNCHANGED <<entries, bySession, pending, draining, flights, exists, deleted, drain>>
  BY DEF DeleteFence, ResidencyInv
<1>2. PICK s \in Sessions : s = SessionOf[c]
  OBVIOUS
<1>3. CASE s \in retiring
  <2>1. Returns(p, "delete") /\ UNCHANGED Elsewhere
    BY <1>1, <1>2, <1>3 DEF DeleteFence, Elsewhere
  <2>2. Plain(p) /\ "delete" \in Ops
    BY <1>1 DEF Plain, Ops
  <2> QED
    BY <2>1, <2>2, PlainReturnStep
<1>4. CASE s \notin retiring
  <2>1. PICK T : T = SessionEntries(s)
    OBVIOUS
  <2>2. T \in SUBSET Conversations
    BY <2>1 DEF SessionEntries
  <2>3. PICK x : x = [Idle EXCEPT !.op = "delete", !.conv = c, !.at = "next", !.todo = T]
    OBVIOUS
  <2>4. x \in CallRecords
    BY <2>2, <2>3, IdleTyped, CallOp, CallConv, CallAt, CallTodo
  <2>5. x.op = "delete" /\ x.conv = c /\ x.at = "next" /\ x.flight = NoFlight /\ x.todo = T
    BY <2>3 DEF Idle
  <2>6. /\ calls' = [calls EXCEPT ![p] = x] /\ retiring' = retiring \cup {s}
        /\ failed' = [d \in Conversations |-> IF SessionOf[d] = s THEN NoFlight ELSE failed[d]]
    BY <1>2, <1>4, <2>1, <2>3 DEF DeleteFence
  <2>7. calls' \in [Agents -> CallRecords] /\ calls'[p] = x /\ \A q \in Agents \ {p} : SameCall(q)
    BY <1>1, <2>4, <2>6, OneCall
  <2>8. CallOK(p)'
    BY <1>1, <2>5, <2>7 DEF CallOK
  <2>9. /\ T \subseteq exists /\ \A d \in T : SessionOf[d] = s
        /\ \A d \in Conversations : SessionOf[d] = s /\ entries[d].phase # "None" => d \in T
    <3>1. IndexInv /\ ExistInv /\ \A d \in Conversations : SlotShape(entries[d])
      BY <1>1, EntryShapes DEF ResidencyInv, RegistryOK, Slots
    <3>2. \A d \in T : SessionOf[d] = s /\ entries[d].phase # "None"
      BY <2>1, <3>1 DEF SessionEntries, IndexInv, Resident
    <3>3. T \subseteq exists
      BY <2>2, <3>1, <3>2 DEF ExistInv
    <3>4. \A d \in Conversations : SessionOf[d] = s /\ entries[d].phase # "None" => d \in T
      BY <2>1, <3>1 DEF SessionEntries, IndexInv, Resident, SlotShape
    <3> QED
      BY <3>2, <3>3, <3>4
  <2>10. DeleteOK(p)'
    BY <1>1, <1>2, <2>5, <2>6, <2>7, <2>9 DEF DeleteOK
  <2>11. \A q \in Callers : Deleting(q) => SessionOf[calls[q].conv] \in retiring
    BY DEF ResidencyInv, DeleteInv, DeleteOK
  <2>12. \A q \in Callers \ {p} :
             /\ Deleting(q) => SessionOf[calls[q].conv] \in retiring'
             /\ Deleting(p)' /\ Deleting(q) => SessionOf[calls'[p].conv] # SessionOf[calls[q].conv]
    BY <1>2, <1>4, <2>5, <2>6, <2>7, <2>11
  <2>13. failed' \in [Conversations -> Flights \cup {NoFlight}] /\ retiring' \subseteq Sessions
         /\ deleted' \subseteq Sessions
    BY <1>1, <2>6 DEF RegistryOK
  <2>14. {calls[p].at, calls'[p].at} \cap {"creating", "operating", "select", "wait"} = {}
    BY <1>1, <2>5, <2>7
  <2> QED
    BY <1>1, <2>7, <2>8, <2>10, <2>12, <2>13, <2>14, AdmissionStep
<1> QED
  BY <1>3, <1>4

LEMMA DeleteCommitStep ==
    ASSUME ResidencyInv, NEW p \in Agents, DeleteCommit(p)
    PROVE  ResidencyInv'
<1>1. /\ RegistryOK /\ CallOK(p) /\ calls[p].at = "next" /\ Returns(p, "delete")
      /\ UNCHANGED <<entries, bySession, failed, pending, draining, flights, exists, drain>>
  BY DEF DeleteCommit, ResidencyInv, CallInv
<1>2. p \in Callers /\ calls[p].op = "delete" /\ calls[p].conv \in Conversations /\ Deleting(p)
  BY <1>1 DEF CallOK, Agents, RegistryOK, Deleting
<1>3. PICK s \in Sessions : s = SessionOf[calls[p].conv]
  BY <1>2
<1>4. /\ retiring \ {s} \subseteq retiring' /\ retiring' \subseteq Sessions
      /\ deleted' \subseteq Sessions
  BY <1>1, <1>3 DEF DeleteCommit, RegistryOK
<1>5. PICK x : x = [Idle EXCEPT !.op = "delete", !.at = "returned"]
  OBVIOUS
<1>6. x \in CallRecords
  BY <1>5, IdleTyped, CallOp, CallAt
<1>7. x.at = "returned" /\ x.flight = NoFlight
  BY <1>5 DEF Idle
<1>8. calls' \in [Agents -> CallRecords] /\ calls'[p] = x /\ \A q \in Agents \ {p} : SameCall(q)
  BY <1>1, <1>5, <1>6, OneCall DEF Returns
<1>9. CallOK(p)' /\ ~Deleting(p)' /\ DeleteOK(p)'
  BY <1>2, <1>7, <1>8 DEF CallOK, Deleting, DeleteOK
<1>10. \A q \in Callers \ {p} : Deleting(q) => SessionOf[calls[q].conv] \in retiring'
  <2>1. \A q \in Callers \ {p} : Deleting(q) => SessionOf[calls[q].conv] \in retiring \ {s}
    BY <1>2, <1>3 DEF ResidencyInv, DeleteInv, DeleteOK
  <2> QED
    BY <1>4, <2>1
<1>11. failed' \in [Conversations -> Flights \cup {NoFlight}]
  BY <1>1 DEF RegistryOK
<1>12. {calls[p].at, calls'[p].at} \cap {"creating", "operating", "select", "wait"} = {}
  BY <1>1, <1>7, <1>8
<1> QED
  BY <1>1, <1>2, <1>4, <1>8, <1>9, <1>10, <1>11, <1>12, AdmissionStep

-----------------------------------------------------------------------------
(* The drain of the process.                                               *)

\* Retirements are requested of flights, which otherwise stay as they are.
LEMMA RequestsStep ==
    ASSUME ResidencyInv, flights' \in [Flights -> FlightRecords], UNCHANGED entries,
           \A f \in Flights :
             /\ SameFlight(f) /\ flights'[f].ops = flights[f].ops
             /\ flights'[f].native = flights[f].native
             /\ flights'[f].req = "no" => flights[f].req = "no"
             /\ flights[f].kind = "free" => flights'[f] = flights[f]
    PROVE  SlotInv' /\ FlightInv' /\ FlightsGrow /\ SlotMoves /\ OpsKept /\ WritersKept
<1>1. RegistryOK /\ SlotInv /\ FlightInv /\ CallInv
  BY DEF ResidencyInv
<1>2. SlotInv'
  <2> SUFFICES ASSUME NEW c \in Conversations PROVE SlotOK(c)'
    BY DEF SlotInv
  <2>1. SlotOK(c) /\ SlotShape(entries[c])
    BY <1>1, EntryShapes DEF SlotInv, RegistryOK, Slots
  <2> QED
    BY <2>1, SlotKept
<1>3. ASSUME NEW f \in Flights PROVE FlightOK(f)'
  <2>1. FlightOK(f) /\ flights[f].old \in Flights \cup {NoFlight}
    BY <1>1 DEF FlightInv, RegistryOK, FlightRecords
  <2>2. SameFlight(f) /\ (flights[f].old # NoFlight => SameFlight(flights[f].old)
                              /\ flights'[flights[f].old].ops = flights[flights[f].old].ops)
    BY <2>1
  <2>3. NothingOld(f) => NothingOld(f)'
    BY <2>1, <2>2 DEF NothingOld, SameFlight
  <2>4. FreeOK(f)' /\ OldOK(f)'
    BY <2>1, <2>2 DEF FlightOK, FreeOK, OldOK, Prepares, SameFlight
  <2>5. LoadOK(f)' /\ StorageOK(f)' /\ WriterOK(f)' /\ EndOK(f)'
    BY <2>1, <2>2, <2>3 DEF FlightOK, LoadOK, StorageOK, WriterOK, EndOK, Prepares, Holds, SameFlight
  <2>6. RetireOK(f)'
    <3>1. flights[f].pc = "shutdown" => flights[f].old # NoFlight
      <4> SUFFICES ASSUME flights[f].pc = "shutdown" PROVE flights[f].old # NoFlight
        OBVIOUS
      <4>1. flights[f].conv \in Conversations /\ entries[flights[f].conv].phase = "Unloading"
            /\ entries[flights[f].conv].runtime = flights[f].old
        BY <2>1 DEF FlightOK, FreeOK, RetireOK, Holds, Retained, Unused
      <4>2. SlotShape(entries[flights[f].conv])
        BY <1>1, <4>1, EntryShapes DEF RegistryOK, Slots
      <4> QED
        BY <4>1, <4>2, FlightNames DEF SlotShape
    <3> QED
      BY <2>1, <2>2, <2>3, <3>1 DEF FlightOK, RetireOK, Holds, SameFlight
  <2> QED
    BY <2>4, <2>5, <2>6 DEF FlightOK
<1>4. FlightsGrow /\ SlotMoves /\ OpsKept
  BY DEF FlightsGrow, SlotMoves, OpsKept, SameFlight
<1>5. WritersKept
  <2> SUFFICES ASSUME NEW q \in Callers, calls[q].at = "operating"
               PROVE  flights'[calls[q].flight].comp
    BY DEF WritersKept
  <2>1. calls[q].flight \in Flights /\ flights[calls[q].flight].comp
    BY <1>1 DEF CallInv, CallOK, Agents, RegistryOK, CallRecords
  <2> QED
    BY <2>1 DEF SameFlight
<1> QED
  BY <1>2, <1>3, <1>4, <1>5 DEF FlightInv

\* A pass of the drain: the callers stay, and so does the registry.
LEMMA PassStep ==
    ASSUME ResidencyInv, flights' \in [Flights -> FlightRecords],
           SlotInv', FlightInv', FlightsGrow, SlotMoves, OpsKept, WritersKept,
           calls' \in [Agents -> CallRecords], \A q \in Callers : SameCall(q),
           \A c \in Conversations : CallOK(c)',
           draining', drain' \in {"begun", "first", "last", "over"},
           drain' \in {"last", "over"} => \A c \in Conversations : DrainOK(c)',
           drain' = "over" => \A c \in Conversations : Over(c)',
           draining' \in BOOLEAN, failed' \in [Conversations -> Flights \cup {NoFlight}],
           UNCHANGED <<entries, bySession, pending, retiring, exists, deleted>>
    PROVE  ResidencyInv'
<1>1. RegistryOK /\ IndexInv /\ ExistInv /\ RoomInv /\ CallInv /\ OpsInv /\ DeleteInv
  BY DEF ResidencyInv
<1>2. RegistryOK'
  BY <1>1 DEF RegistryOK
<1>3. ASSUME NEW q \in Callers PROVE CallOK(q)' /\ DeleteOK(q)'
  <2>1. /\ q \in Agents /\ CallOK(q) /\ DeleteOK(q) /\ SameCall(q) /\ exists \subseteq exists'
        /\ calls[q].at = "creating" => calls[q].conv \notin exists'
        /\ Deleting(q) => SessionOf[calls[q].conv] \in retiring'
    BY <1>1 DEF CallInv, DeleteInv, Agents, CallOK, DeleteOK
  <2> QED
    BY <1>1, <1>2, <2>1, OtherCall, OtherDelete
<1>4. CallInv'
  BY <1>3 DEF CallInv, Agents
<1>5. DeleteInv'
  <2>1. \A q \in Callers : (Deleting(q)' <=> Deleting(q)) /\ calls'[q].conv = calls[q].conv
    BY DEF Deleting, SameCall
  <2> QED
    BY <1>1, <1>3, <2>1 DEF DeleteInv
<1>6. OpsInv'
  <2>1. \A r \in Flights : OpsOf(r)' = OpsOf(r)
    BY DEF OpsOf, SameCall
  <2> QED
    BY <1>1, <2>1 DEF OpsInv, OpsKept
<1>7. RoomInv'
  <2>1. Creators' = Creators /\ Residents' = Residents /\ \A q \in Creators : calls'[q].conv = calls[q].conv
    BY DEF Creators, SameCall, Residents
  <2> QED
    BY <1>1, <2>1 DEF RoomInv
<1>8. IndexInv' /\ ExistInv' /\ UsableInv'
  BY <1>1 DEF IndexInv, ExistInv, UsableInv
<1>9. DrainInv'
  BY DEF DrainInv
<1> QED
  BY <1>2, <1>4, <1>5, <1>6, <1>7, <1>8, <1>9 DEF ResidencyInv

\* The flights that a request reaches, one by one.
LEMMA RequestedFlights ==
    ASSUME ResidencyInv, NEW v \in {"requested", "closing"}, NEW H \in SUBSET Flights,
           \A f \in H : flights[f].kind # "free",
           flights' = [f \in Flights |->
                         IF f \in H THEN [flights[f] EXCEPT !.req = v] ELSE flights[f]]
    PROVE  /\ flights' \in [Flights -> FlightRecords]
           /\ \A f \in Flights :
                /\ SameFlight(f) /\ flights'[f].ops = flights[f].ops
                /\ flights'[f].native = flights[f].native
                /\ flights'[f].req = "no" => flights[f].req = "no"
                /\ flights[f].kind = "free" => flights'[f] = flights[f]
<1>1. \A f \in Flights : flights[f] \in FlightRecords
  BY DEF ResidencyInv, RegistryOK
<1>2. \A x \in FlightRecords : LET y == [x EXCEPT !.req = v]
        IN /\ y \in FlightRecords /\ y.req = v /\ y.kind = x.kind /\ y.conv = x.conv /\ y.old = x.old
           /\ y.comp = x.comp /\ y.pc = x.pc /\ y.outcome = x.outcome /\ y.result = x.result
           /\ y.ops = x.ops /\ y.native = x.native
  BY DEF FlightRecords
<1>3. ASSUME NEW f \in Flights
      PROVE  /\ flights'[f] \in FlightRecords /\ SameFlight(f) /\ flights'[f].ops = flights[f].ops
             /\ flights'[f].native = flights[f].native
             /\ flights'[f].req = "no" => flights[f].req = "no"
             /\ flights[f].kind = "free" => flights'[f] = flights[f]
  <2>1. CASE f \in H
    <3>1. flights'[f] = [flights[f] EXCEPT !.req = v]
      BY <2>1
    <3> QED
      BY <1>1, <1>2, <2>1, <3>1 DEF SameFlight
  <2>2. CASE f \notin H
    <3>1. flights'[f] = flights[f]
      BY <2>2
    <3> QED
      BY <1>1, <3>1 DEF SameFlight
  <2> QED
    BY <2>1, <2>2
<1> QED
  BY <1>3

LEMMA BeginDrainingStep ==
    ASSUME ResidencyInv, BeginDraining
    PROVE  ResidencyInv'
<1>1. /\ RegistryOK /\ CallInv /\ draining' = TRUE /\ drain' = "begun"
      /\ UNCHANGED <<entries, bySession, failed, pending, retiring, calls, exists, deleted>>
  BY DEF BeginDraining, ResidencyInv
<1>2. PICK held : /\ held = UNION {{entries[c].flight, entries[c].runtime} :
                               c \in {d \in Conversations : entries[d].phase # "StorageOnly"}}
                  /\ flights' = [f \in Flights |->
                        IF f \in held /\ flights[f].req = "no"
                        THEN [flights[f] EXCEPT !.req = "requested"] ELSE flights[f]]
  BY DEF BeginDraining
<1>3. PICK H \in SUBSET Flights : H = {f \in Flights : f \in held /\ flights[f].req = "no"}
  OBVIOUS
<1>4. flights' = [f \in Flights |->
                    IF f \in H THEN [flights[f] EXCEPT !.req = "requested"] ELSE flights[f]]
  BY <1>2, <1>3
<1>5. ASSUME NEW f \in H PROVE flights[f].kind # "free"
  <2>1. PICK c \in Conversations : f \in {entries[c].flight, entries[c].runtime}
    BY <1>2, <1>3
  <2>2. SlotOK(c) /\ f # NoFlight
    BY <1>3, FlightNames DEF ResidencyInv, SlotInv
  <2>3. flights[f].conv = c
    BY <2>1, <2>2 DEF SlotOK
  <2> QED
    BY <1>3, <2>3 DEF ResidencyInv, FlightInv, FlightOK, FreeOK, Unused
<1>6. /\ flights' \in [Flights -> FlightRecords]
      /\ \A f \in Flights :
            /\ SameFlight(f) /\ flights'[f].ops = flights[f].ops
            /\ flights'[f].native = flights[f].native
            /\ flights'[f].req = "no" => flights[f].req = "no"
            /\ flights[f].kind = "free" => flights'[f] = flights[f]
  BY <1>4, <1>5, RequestedFlights
<1>7. SlotInv' /\ FlightInv' /\ FlightsGrow /\ SlotMoves /\ OpsKept /\ WritersKept
  BY <1>1, <1>6, RequestsStep
<1>8. calls' \in [Agents -> CallRecords] /\ \A q \in Agents : SameCall(q)
  BY <1>1 DEF RegistryOK, SameCall
<1>9. ASSUME NEW c \in Conversations PROVE CallOK(c)'
  <2>1. c \in Agents /\ CallOK(c) /\ SameCall(c) /\ exists \subseteq exists'
        /\ (calls[c].at = "creating" => calls[c].conv \notin exists')
    BY <1>1, <1>8 DEF CallInv, CallOK, Agents
  <2> QED
    BY <1>1, <1>7, <2>1, OtherCall
<1>10. failed' \in [Conversations -> Flights \cup {NoFlight}] /\ \A q \in Callers : SameCall(q)
  BY <1>1, <1>8 DEF RegistryOK, Agents
<1> QED
  BY <1>1, <1>6, <1>7, <1>8, <1>9, <1>10, PassStep

\* Where a pass puts the unload of each conversation.
LEMMA PassCalls ==
    ASSUME ResidencyInv, calls' = Pass, UNCHANGED <<entries, exists>>
    PROVE  /\ calls' \in [Agents -> CallRecords] /\ \A q \in Callers : SameCall(q)
           /\ \A c \in Conversations :
                /\ CallOK(c)'
                /\ calls'[c].at \in {"idle", "select"}
                /\ calls'[c].at = "idle" => entries'[c].phase = "None"
<1>1. RegistryOK /\ ExistInv
  BY DEF ResidencyInv
<1>2. ASSUME NEW q \in Callers PROVE calls'[q] = calls[q] /\ calls'[q] \in CallRecords /\ SameCall(q)
  <2>1. q \in Agents /\ q \notin Conversations
    BY DEF Agents
  <2>2. calls'[q] = calls[q]
    BY <2>1 DEF Pass
  <2> QED
    BY <1>1, <2>1, <2>2 DEF RegistryOK, SameCall
<1>3. ASSUME NEW c \in Conversations
      PROVE  /\ calls'[c] \in CallRecords /\ CallOK(c)' /\ calls'[c].at \in {"idle", "select"}
             /\ calls'[c].at = "idle" => entries'[c].phase = "None"
  <2>1. c \in Agents
    BY DEF Agents
  <2>2. CASE entries[c].phase = "None"
    <3>1. calls'[c] = Idle
      BY <2>1, <2>2 DEF Pass
    <3>2. calls'[c].op = "none" /\ calls'[c].at = "idle" /\ calls'[c].flight = NoFlight
      BY <3>1 DEF Idle
    <3> QED
      BY <2>2, <3>1, <3>2, IdleTyped DEF CallOK
  <2>3. CASE entries[c].phase # "None"
    <3>1. calls'[c] = [Idle EXCEPT !.op = "unload", !.conv = c, !.at = "select"]
      BY <2>1, <2>3 DEF Pass
    <3>2. /\ calls'[c].op = "unload" /\ calls'[c].conv = c /\ calls'[c].at = "select"
          /\ calls'[c].flight = NoFlight
      BY <3>1 DEF Idle
    <3>3. calls'[c] \in CallRecords
      <4>1. PICK x : x = [Idle EXCEPT !.op = "unload", !.conv = c, !.at = "select"]
        OBVIOUS
      <4>2. x \in CallRecords
        BY <4>1, IdleTyped, CallOp, CallConv, CallAt
      <4> QED
        BY <3>1, <4>1, <4>2
    <3>4. c \in exists'
      BY <1>1, <2>3 DEF ExistInv
    <3> QED
      BY <3>2, <3>3, <3>4 DEF CallOK
  <2> QED
    BY <2>2, <2>3
<1>4. calls' \in [Agents -> CallRecords]
  <2>1. \A q \in Agents : calls'[q] \in CallRecords
    BY <1>2, <1>3 DEF Agents
  <2> QED
    BY <2>1 DEF Pass
<1> QED
  BY <1>2, <1>3, <1>4

LEMMA DrainFirstPassStep ==
    ASSUME ResidencyInv, DrainFirstPass
    PROVE  ResidencyInv'
<1>1. /\ RegistryOK /\ draining /\ drain' = "first" /\ calls' = Pass
      /\ failed' = [c \in Conversations |-> NoFlight]
      /\ UNCHANGED <<entries, bySession, pending, draining, retiring, exists, deleted>>
  BY DEF DrainFirstPass, ResidencyInv, DrainInv
<1>2. PICK H \in SUBSET Flights : H = {f \in Flights : flights[f].req = "requested"}
  OBVIOUS
<1>3. flights' = [f \in Flights |->
                    IF f \in H THEN [flights[f] EXCEPT !.req = "closing"] ELSE flights[f]]
  BY <1>2 DEF DrainFirstPass
<1>4. \A f \in H : flights[f].kind # "free"
  BY <1>2 DEF ResidencyInv, FlightInv, FlightOK, FreeOK, Unused
<1>5. /\ flights' \in [Flights -> FlightRecords]
      /\ \A f \in Flights :
            /\ SameFlight(f) /\ flights'[f].ops = flights[f].ops
            /\ flights'[f].native = flights[f].native
            /\ flights'[f].req = "no" => flights[f].req = "no"
            /\ flights[f].kind = "free" => flights'[f] = flights[f]
  BY <1>3, <1>4, RequestedFlights
<1>6. SlotInv' /\ FlightInv' /\ FlightsGrow /\ SlotMoves /\ OpsKept /\ WritersKept
  BY <1>1, <1>5, RequestsStep
<1>7. /\ calls' \in [Agents -> CallRecords] /\ \A q \in Callers : SameCall(q)
      /\ \A c \in Conversations : CallOK(c)'
  BY <1>1, PassCalls
<1>8. failed' \in [Conversations -> Flights \cup {NoFlight}] /\ draining' \in BOOLEAN
  BY <1>1 DEF RegistryOK
<1> QED
  BY <1>1, <1>5, <1>6, <1>7, <1>8, PassStep

LEMMA DrainLastPassStep ==
    ASSUME ResidencyInv, DrainLastPass
    PROVE  ResidencyInv'
<1>1. /\ RegistryOK /\ SlotInv /\ FlightInv /\ CallInv /\ draining /\ drain' = "last" /\ calls' = Pass
      /\ failed' = [c \in Conversations |-> NoFlight]
      /\ UNCHANGED <<entries, bySession, pending, draining, retiring, flights, exists, deleted>>
  BY DEF DrainLastPass, ResidencyInv, DrainInv
<1>2. SlotInv' /\ FlightInv' /\ FlightsGrow /\ SlotMoves /\ OpsKept /\ WritersKept
  BY <1>1, CoreKept
<1>3. /\ calls' \in [Agents -> CallRecords] /\ \A q \in Callers : SameCall(q)
      /\ \A c \in Conversations : CallOK(c)' /\ calls'[c].at \in {"idle", "select"}
                                  /\ (calls'[c].at = "idle" => entries'[c].phase = "None")
  BY <1>1, PassCalls
<1>4. \A c \in Conversations : DrainOK(c)'
  BY <1>3 DEF DrainOK, Over, Reported
<1>5. /\ failed' \in [Conversations -> Flights \cup {NoFlight}] /\ draining' \in BOOLEAN
      /\ flights' \in [Flights -> FlightRecords]
  BY <1>1 DEF RegistryOK
<1> QED
  BY <1>1, <1>2, <1>3, <1>4, <1>5, PassStep

LEMMA DrainEndsStep ==
    ASSUME ResidencyInv, DrainEnds
    PROVE  ResidencyInv'
<1>1. /\ RegistryOK /\ SlotInv /\ FlightInv /\ CallInv /\ draining /\ drain = "last" /\ drain' = "over"
      /\ \A c \in Conversations : DrainOK(c) /\ Over(c)
      /\ UNCHANGED <<entries, bySession, failed, pending, draining, retiring, flights, calls,
                     exists, deleted>>
  BY DEF DrainEnds, ResidencyInv, DrainInv
<1>2. SlotInv' /\ FlightInv' /\ FlightsGrow /\ SlotMoves /\ OpsKept /\ WritersKept
  BY <1>1, CoreKept
<1>3. \A c \in Conversations : CallOK(c)' /\ DrainOK(c)' /\ Over(c)'
  BY <1>1 DEF CallInv, CallOK, DrainOK, Over, Reported, Agents, Prepares
<1>4. /\ failed' \in [Conversations -> Flights \cup {NoFlight}] /\ draining' \in BOOLEAN
      /\ flights' \in [Flights -> FlightRecords] /\ calls' \in [Agents -> CallRecords]
      /\ \A q \in Callers : SameCall(q)
  BY <1>1 DEF RegistryOK, SameCall
<1> QED
  BY <1>1, <1>2, <1>3, <1>4, PassStep

-----------------------------------------------------------------------------
(* The invariant.                                                          *)

LEMMA ResidencyInit == Init => ResidencyInv
<1> SUFFICES ASSUME Init PROVE ResidencyInv
  OBVIOUS
<1>1. /\ \A c \in Conversations : /\ entries[c].phase = "None" /\ entries[c].flight = NoFlight
                                  /\ entries[c].runtime = NoFlight
      /\ \A s \in Sessions : bySession[s] = NoConversation
      /\ \A p \in Agents : /\ calls[p].op = "none" /\ calls[p].at = "idle"
                           /\ calls[p].flight = NoFlight
      /\ \A f \in Flights : flights[f] = Unused
      /\ pending = 0 /\ draining = FALSE /\ drain = "no"
  BY DEF Init, Empty, Idle
<1>2. RegistryOK
  <2>1. Idle \in CallRecords /\ Unused \in FlightRecords
    BY IdleTyped DEF Unused, FlightRecords
  <2>2. flights \in [Flights -> FlightRecords] /\ calls \in [Agents -> CallRecords]
    BY <2>1 DEF Init
  <2>3. /\ bySession \in [Sessions -> Conversations \cup {NoConversation}]
        /\ failed \in [Conversations -> Flights \cup {NoFlight}]
        /\ pending \in Nat /\ draining \in BOOLEAN /\ retiring \subseteq Sessions
        /\ deleted \subseteq Sessions /\ exists \subseteq Conversations
    BY DEF Init
  <2>4. entries \in [Conversations -> Slots]
    BY DEF Init, Slots
  <2>5. drain \in {"no", "begun", "first", "last", "over"}
    BY DEF Init
  <2> QED
    BY <2>2, <2>3, <2>4, <2>5 DEF RegistryOK, Slots
<1>3. SlotInv
  BY <1>1 DEF SlotInv, SlotOK
<1>4. FlightInv
  <2> SUFFICES ASSUME NEW f \in Flights PROVE FlightOK(f)
    BY DEF FlightInv
  <2>1. /\ flights[f] = Unused /\ flights[f].pc = "none" /\ flights[f].old = NoFlight
        /\ ~flights[f].comp /\ flights[f].result = "none" /\ flights[f].kind = "free"
    <3>1. flights[f] = Unused
      BY <1>1
    <3>2. /\ Unused.pc = "none" /\ Unused.old = NoFlight /\ ~Unused.comp /\ Unused.result = "none"
          /\ Unused.kind = "free"
      BY DEF Unused
    <3> QED
      BY <3>1, <3>2
  <2> QED
    BY <2>1 DEF FlightOK, FreeOK, OldOK, LoadOK, RetireOK, EndOK, StorageOK, WriterOK, Composing,
       Retained, Proven
<1>5. IndexInv /\ ExistInv
  BY <1>1 DEF IndexInv, ExistInv, Resident
<1>6. Creators = {} /\ Residents = {}
  BY <1>1 DEF Creators, Residents, Agents
<1>7. RoomInv
  BY <1>1, <1>6, FS_EmptySet DEF RoomInv
<1>8. CallInv
  BY <1>1 DEF CallInv, CallOK
<1>9. OpsInv
  <2>1. \A r \in Flights : OpsOf(r) = {} /\ flights[r].ops = 0
    BY <1>1 DEF OpsOf, Agents, Unused
  <2> QED
    BY <2>1, FS_EmptySet DEF OpsInv
<1>10. DeleteInv
  BY <1>1 DEF DeleteInv, DeleteOK, Deleting, Agents
<1>11. UsableInv /\ DrainInv
  BY <1>1 DEF UsableInv, DrainInv
<1> QED
  BY <1>2, <1>3, <1>4, <1>5, <1>7, <1>8, <1>9, <1>10, <1>11 DEF ResidencyInv

\* A retry of a retained failure meets an empty slot.
RetriesMeetEmpty ==
    \A p \in Agents, c \in Conversations :
        Retry(p, c) /\ failed[c] # NoFlight => entries[c].phase = "None"

LEMMA EnteringStep ==
    ASSUME ResidencyInv, RetriesMeetEmpty, NEW p \in Agents, Entering(p)
    PROVE  ResidencyInv'
<1>1. PICK c \in Conversations :
        \/ \E op \in {"load", "replace", "scheduled", "storage", "submit", "retry"} :
                Refused(p, op, c)
        \/ \E op \in Joining : Join(p, op, c)
        \/ \E op \in {"load", "replace", "scheduled"} : Claim(p, op, c)
        \/ \E op \in {"load", "scheduled"} : FindLoaded(p, op, c)
        \/ \E op \in {"operate", "storage"} : Identify(p, op, c)
        \/ \E op \in Retirements :
                \/ RetireAbsent(p, op, c)
                \/ RetireJoins(p, op, c)
                \/ RetireLoaded(p, op, c)
        \/ ReplaceLoaded(p, c) \/ ClaimStorage(p, c)
        \/ SubmitCancelled(p, c) \/ SubmitJoins(p, c) \/ SubmitClaims(p, c)
        \/ Retry(p, c)
  BY DEF Entering
<1>2. {"load", "replace", "scheduled", "storage", "submit", "retry"} \subseteq Ops
  BY DEF Ops
<1>3. CASE \E op \in {"load", "replace", "scheduled", "storage", "submit", "retry"} :
                Refused(p, op, c)
  BY <1>2, <1>3, RefusedStep
<1>4. CASE \E op \in Joining : Join(p, op, c)
  BY <1>4, JoinStep
<1>5. CASE \E op \in {"load", "replace", "scheduled"} : Claim(p, op, c)
  BY <1>5, ClaimCallStep
<1>6. CASE \E op \in {"load", "scheduled"} : FindLoaded(p, op, c)
  <2>1. PICK op \in {"load", "scheduled"} : FindLoaded(p, op, c)
    BY <1>6
  <2>2. op \in Ops
    BY <2>1 DEF Ops
  <2> QED
    BY <2>1, <2>2, FindLoadedStep
<1>7. CASE \E op \in {"operate", "storage"} : Identify(p, op, c)
  BY <1>7, IdentifyStep
<1>8. CASE \E op \in Retirements :
                RetireAbsent(p, op, c) \/ RetireJoins(p, op, c) \/ RetireLoaded(p, op, c)
  BY <1>8, RetireAbsentStep, RetireJoinsStep, RetireLoadedStep
<1>9. CASE ReplaceLoaded(p, c) \/ ClaimStorage(p, c)
  BY <1>9, ReplaceLoadedStep, ClaimStorageStep
<1>10. CASE SubmitCancelled(p, c) \/ SubmitJoins(p, c) \/ SubmitClaims(p, c)
  BY <1>10, SubmitCancelledStep, SubmitJoinsStep, SubmitClaimsStep
<1>11. CASE Retry(p, c)
  BY <1>11, RetryStep DEF RetriesMeetEmpty
<1> QED
  BY <1>1, <1>3, <1>4, <1>5, <1>6, <1>7, <1>8, <1>9, <1>10, <1>11

LEMMA ContinuingStep ==
    ASSUME ResidencyInv, NEW p \in Agents, Continuing(p)
    PROVE  ResidencyInv'
<1>1. CASE LoadAnswered(p) \/ ReplaceAnswered(p) \/ ScheduledAnswered(p) \/ StorageAnswered(p)
           \/ SubmitAnswered(p)
  BY <1>1, AnsweredSteps
<1>2. CASE (\E op \in Retirements : RetireAnswered(p, op)) \/ CancelLoading(p)
  BY <1>2, RetireAnsweredStep, CancelLoadingStep
<1>3. CASE DeleteNext(p) \/ DeleteCommit(p)
  BY <1>3, DeleteNextStep, DeleteCommitStep
<1>4. CASE CreatePublish(p) \/ CreateFails(p)
  BY <1>4, CreatePublishStep, CreateFailsStep
<1>5. CASE AdmitOperation(p) \/ ReleaseOperation(p)
  BY <1>5, AdmitOperationStep, ReleaseOperationStep
<1> QED
  BY <1>1, <1>2, <1>3, <1>4, <1>5 DEF Continuing

LEMMA WorkingStep ==
    ASSUME ResidencyInv, NEW f \in Flights, Working(f)
    PROVE  ResidencyInv'
<1>1. CASE Acquire(f) \/ Compose(f) \/ CheckFence(f) \/ Activate(f)
  BY <1>1, AcquireStep, ComposeStep, CheckFenceStep, ActivateStep
<1>2. CASE Settle(f) \/ Report(f)
  BY <1>2, SettleStep, ReportStep
<1>3. CASE RequestRetirement(f) \/ SettleOperations(f) \/ ShutDown(f) \/ Transfer(f) \/ Publish(f)
  BY <1>3, RequestRetirementStep, SettleOperationsStep, ShutDownStep, TransferStep, PublishStep
<1>4. CASE StorageOpen(f) \/ StorageClose(f) \/ StorageAnnounce(f)
  BY <1>4, StorageOpenStep, StorageCloseStep, StorageAnnounceStep
<1> QED
  BY <1>1, <1>2, <1>3, <1>4 DEF Working

LEMMA ResidencyUnchanged ==
    ASSUME ResidencyInv, UNCHANGED vars
    PROVE  ResidencyInv'
<1>1. /\ UNCHANGED <<entries, bySession, failed, pending, draining, retiring, flights, calls,
                     exists, deleted, drain>>
      /\ RegistryOK /\ SlotInv /\ FlightInv /\ IndexInv /\ ExistInv /\ RoomInv /\ CallInv /\ OpsInv
      /\ DeleteInv /\ UsableInv /\ DrainInv
  BY DEF vars, ResidencyInv
<1>2. RegistryOK'
  BY <1>1 DEF RegistryOK
<1>3. SlotInv' /\ FlightInv'
  BY <1>1, CoreKept
<1>4. IndexInv' /\ ExistInv'
  BY <1>1 DEF IndexInv, ExistInv
<1>5. Creators' = Creators /\ Residents' = Residents /\ \A r \in Flights : OpsOf(r)' = OpsOf(r)
  BY <1>1 DEF Creators, Residents, OpsOf
<1>6. RoomInv' /\ OpsInv'
  BY <1>1, <1>5 DEF RoomInv, OpsInv
<1>7. CallInv'
  BY <1>1 DEF CallInv, CallOK, Prepares
<1>8. DeleteInv'
  BY <1>1 DEF DeleteInv, DeleteOK, Deleting
<1>9. UsableInv'
  BY <1>1 DEF UsableInv, Claimer
<1>10. DrainInv'
  BY <1>1 DEF DrainInv, DrainOK, Over, Reported
<1> QED
  BY <1>2, <1>3, <1>4, <1>6, <1>7, <1>8, <1>9, <1>10 DEF ResidencyInv

LEMMA ResidencyNext ==
    ASSUME ResidencyInv, RetriesMeetEmpty, [Next]_vars
    PROVE  ResidencyInv'
<1>1. ASSUME NEW p \in Agents, Entering(p) \/ Continuing(p) \/ Beginning(p) PROVE ResidencyInv'
  <2>1. CASE Beginning(p)
    BY <2>1, AcceptStep, DeleteFenceStep, CreateReserveStep DEF Beginning
  <2> QED
    BY <1>1, <2>1, EnteringStep, ContinuingStep
<1>2. ASSUME NEW f \in Flights, Working(f) \/ CloseNative(f) PROVE ResidencyInv'
  BY <1>2, WorkingStep, CloseNativeStep
<1>3. ASSUME NEW c \in Conversations, Reap(c) PROVE ResidencyInv'
  BY <1>3, ReapStep
<1>4. CASE BeginDraining
  BY <1>4, BeginDrainingStep
<1>5. CASE Draining
  BY <1>5, DrainFirstPassStep, DrainLastPassStep, DrainEndsStep DEF Draining
<1>6. CASE UNCHANGED vars
  BY <1>6, ResidencyUnchanged
<1> QED
  BY <1>1, <1>2, <1>3, <1>4, <1>5, <1>6 DEF Next

-----------------------------------------------------------------------------
(* What follows.                                                           *)

(***************************************************************************)
(* retry_failed_initialization takes the slot of a retained failure        *)
(* without looking whether somebody else took it since, and nothing in the *)
(* registry repairs what it leaves behind.  The history variable           *)
(* overwritten records that step; the next lemma shows that no other step  *)
(* is recorded, so that the theorems say of every behaviour of the         *)
(* registry what holds up to the first such retry, and that nothing else   *)
(* breaks it.                                                              *)
(***************************************************************************)
Overwrites(p, c) ==
    /\ Retry(p, c) /\ failed[c] # NoFlight /\ entries[c].phase # "None"
    /\ overwritten' = overwritten \cup {c}

LEMMA EnteringHistory ==
    ASSUME NEW p \in Agents, Entering(p)
    PROVE  overwritten' = overwritten \/ \E c \in Conversations : Overwrites(p, c)
<1>1. PICK c \in Conversations :
        \/ \E op \in {"load", "replace", "scheduled", "storage", "submit", "retry"} :
                Refused(p, op, c)
        \/ \E op \in Joining : Join(p, op, c)
        \/ \E op \in {"load", "replace", "scheduled"} : Claim(p, op, c)
        \/ \E op \in {"load", "scheduled"} : FindLoaded(p, op, c)
        \/ \E op \in {"operate", "storage"} : Identify(p, op, c)
        \/ \E op \in Retirements :
                \/ RetireAbsent(p, op, c)
                \/ RetireJoins(p, op, c)
                \/ RetireLoaded(p, op, c)
        \/ ReplaceLoaded(p, c) \/ ClaimStorage(p, c)
        \/ SubmitCancelled(p, c) \/ SubmitJoins(p, c) \/ SubmitClaims(p, c)
        \/ Retry(p, c)
  BY DEF Entering
<1>2. CASE \/ \E op \in {"load", "replace", "scheduled", "storage", "submit", "retry"} :
                Refused(p, op, c)
           \/ \E op \in Joining : Join(p, op, c)
           \/ \E op \in {"load", "replace", "scheduled"} : Claim(p, op, c)
           \/ \E op \in {"load", "scheduled"} : FindLoaded(p, op, c)
           \/ \E op \in {"operate", "storage"} : Identify(p, op, c)
  BY <1>2 DEF Refused, Join, Claim, FindLoaded, Identify
<1>3. CASE \E op \in Retirements :
                RetireAbsent(p, op, c) \/ RetireJoins(p, op, c) \/ RetireLoaded(p, op, c)
  BY <1>3 DEF RetireAbsent, RetireJoins, RetireLoaded
<1>4. CASE ReplaceLoaded(p, c) \/ ClaimStorage(p, c)
           \/ SubmitCancelled(p, c) \/ SubmitJoins(p, c) \/ SubmitClaims(p, c)
  BY <1>4 DEF ReplaceLoaded, ClaimStorage, SubmitCancelled, SubmitJoins, SubmitClaims
<1>5. CASE Retry(p, c)
  <2>1. overwritten' = IF failed[c] # NoFlight /\ entries[c].phase # "None"
                       THEN overwritten \cup {c} ELSE overwritten
    BY <1>5 DEF Retry
  <2> QED
    BY <1>5, <2>1 DEF Overwrites
<1> QED
  BY <1>1, <1>2, <1>3, <1>4, <1>5

LEMMA HistoryStep ==
    ASSUME [Next]_vars
    PROVE  \/ overwritten' = overwritten
           \/ \E p \in Agents, c \in Conversations : Overwrites(p, c)
<1>1. ASSUME NEW p \in Agents, Continuing(p) \/ Beginning(p) PROVE overwritten' = overwritten
  <2>1. CASE LoadAnswered(p) \/ ReplaceAnswered(p) \/ ScheduledAnswered(p) \/ StorageAnswered(p)
             \/ SubmitAnswered(p) \/ (\E op \in Retirements : RetireAnswered(p, op))
    BY <2>1 DEF LoadAnswered, ReplaceAnswered, ScheduledAnswered, StorageAnswered, SubmitAnswered,
                RetireAnswered
  <2>2. CASE CancelLoading(p) \/ DeleteNext(p) \/ DeleteCommit(p) \/ CreatePublish(p)
             \/ CreateFails(p) \/ AdmitOperation(p) \/ ReleaseOperation(p)
    BY <2>2 DEF CancelLoading, DeleteNext, DeleteCommit, CreatePublish, CreateFails,
                AdmitOperation, ReleaseOperation
  <2>3. CASE Beginning(p)
    BY <2>3 DEF Beginning, Accept, DeleteFence, CreateReserve
  <2> QED
    BY <1>1, <2>1, <2>2, <2>3 DEF Continuing
<1>2. ASSUME NEW f \in Flights, Working(f) \/ CloseNative(f) PROVE overwritten' = overwritten
  <2>1. CASE Acquire(f) \/ Compose(f) \/ CheckFence(f) \/ Activate(f) \/ Settle(f) \/ Report(f)
             \/ CloseNative(f)
    BY <2>1 DEF Acquire, Compose, CheckFence, Activate, Settle, Report, CloseNative
  <2>2. CASE RequestRetirement(f) \/ SettleOperations(f) \/ ShutDown(f) \/ Transfer(f) \/ Publish(f)
    BY <2>2 DEF RequestRetirement, SettleOperations, ShutDown, Transfer, Publish
  <2>3. CASE StorageOpen(f) \/ StorageClose(f) \/ StorageAnnounce(f)
    BY <2>3 DEF StorageOpen, StorageClose, StorageAnnounce
  <2> QED
    BY <1>2, <2>1, <2>2, <2>3 DEF Working
<1>3. (\E c \in Conversations : Reap(c)) \/ BeginDraining \/ Draining => overwritten' = overwritten
  BY DEF Reap, BeginDraining, Draining, DrainFirstPass, DrainLastPass, DrainEnds
<1>4. CASE UNCHANGED vars
  BY <1>4 DEF vars
<1> QED
  BY <1>1, <1>2, <1>3, <1>4, EnteringHistory DEF Next

(* The inductive invariant holds until a retry replaces an owner: slots,   *)
(* flights, the session index, the room, the calls, the counted            *)
(* operations, the deletions, the published runtimes and the drain of      *)
(* session_runtime_manager.rs agree, for any conversations, sessions,      *)
(* callers, operations and capacity.                                       *)
THEOREM ResidencyInvariant == Spec => [](overwritten = {} => ResidencyInv)
<1> DEFINE I == overwritten = {} => ResidencyInv
<1>1. Init => I
  BY ResidencyInit
<1>2. I /\ [Next]_vars => I'
  <2> SUFFICES ASSUME I, [Next]_vars, overwritten' = {} PROVE ResidencyInv'
    OBVIOUS
  <2>1. overwritten = {}
    BY HistoryStep DEF Overwrites
  <2>2. RetriesMeetEmpty
    <3> SUFFICES ASSUME NEW p \in Agents, NEW c \in Conversations, Retry(p, c),
                        failed[c] # NoFlight, entries[c].phase # "None"
                 PROVE  FALSE
      BY DEF RetriesMeetEmpty
    <3>1. overwritten' = overwritten \cup {c}
      BY DEF Retry
    <3> QED
      BY <3>1
  <2> QED
    BY <2>1, <2>2, ResidencyNext
<1> HIDE DEF I
<1>3. Spec => []I
  BY <1>1, <1>2, PTL DEF Spec
<1> QED
  BY <1>3 DEF I

LEMMA WritersAreNamed ==
    ASSUME ResidencyInv, NEW c \in Conversations, NEW f \in FlightsOf(c), flights[f].comp
    PROVE  \/ entries[c].runtime = f
           \/ /\ entries[c] \in {Loading(f), StorageOnly(f)}
              /\ entries[c].flight = f /\ entries[c].runtime = NoFlight
<1>1. f \in Flights /\ flights[f].conv = c /\ WriterOK(f) /\ entries[c] \in Slots
  BY DEF FlightsOf, ResidencyInv, FlightInv, FlightOK, RegistryOK, Slots
<1> QED
  BY <1>1 DEF WriterOK, Holds, Slots, Empty, Loading, Loaded, Unloading, StorageOnly

(* One writable runtime per conversation: whatever loads, replacements,    *)
(* retirements and submissions race for a slot of the registry, at most    *)
(* one composition or storage writer is held, the slot names it, whoever   *)
(* composes owns the slot, and a published runtime is usable or about to   *)
(* be retired, until retry_failed_initialization replaces an owner.        *)
THEOREM SlotsTellTheTruth == Spec => []SlotsAreTruthful
<1>1. (overwritten = {} => ResidencyInv) => SlotsAreTruthful
  <2> SUFFICES ASSUME overwritten = {}, ResidencyInv PROVE TypeOK /\ OneWriter /\ LoadedIsUsable
    BY DEF SlotsAreTruthful
  <2>1. ASSUME NEW c \in Conversations
        PROVE  Cardinality({f \in FlightsOf(c) : flights[f].comp}) <= 1
    <3> DEFINE W == {f \in FlightsOf(c) : flights[f].comp}
    <3>1. SUFFICES Cardinality(W) <= 1
      OBVIOUS
    <3>2. \A f, g \in W : f = g
      <4> SUFFICES ASSUME NEW f \in W, NEW g \in W PROVE f = g
        OBVIOUS
      <4>1. f \in FlightsOf(c) /\ g \in FlightsOf(c) /\ flights[f].comp /\ flights[g].comp
        OBVIOUS
      <4>2. f # NoFlight /\ g # NoFlight
        BY <4>1, FlightNames DEF FlightsOf
      <4> QED
        BY <4>1, <4>2, WritersAreNamed
    <3> HIDE DEF W
    <3>3. CASE W = {}
      BY <3>3, FS_EmptySet
    <3>4. CASE W # {}
      <4>1. PICK f : W = {f}
        BY <3>2, <3>4
      <4> QED
        BY <4>1, FS_Singleton
    <3> QED
      BY <3>3, <3>4
  <2>2. ASSUME NEW c \in Conversations, NEW f \in FlightsOf(c),
               flights[f].pc \in {"acquire", "compose", "fence", "activate", "settle"}
        PROVE  entries[c] = Loading(f)
    <3>1. f \in Flights /\ flights[f].conv = c /\ LoadOK(f) /\ entries[c] \in Slots
      BY <2>2 DEF FlightsOf, ResidencyInv, FlightInv, FlightOK, RegistryOK, Slots
    <3> QED
      BY <2>2, <3>1 DEF LoadOK, Holds, Composing, Slots, Empty, Loading, Loaded, Unloading, StorageOnly
  <2>3. OneWriter
    BY <2>1, <2>2, WritersAreNamed DEF OneWriter
  <2>4. LoadedIsUsable
    BY DEF LoadedIsUsable, ResidencyInv, UsableInv, Claimer, IsRetiring
  <2> QED
    BY <2>3, <2>4 DEF ResidencyInv, TypeOK
<1> QED
  BY <1>1, ResidencyInvariant, PTL

(* The session index of the registry and the capacity decided on it: a     *)
(* session owns residency exactly while one of its conversations has a     *)
(* runtime slot, and residents and reserved creations never exceed         *)
(* policy.max_resident_runtimes, until a retry replaces an owner.          *)
THEOREM SlotsStayCounted == Spec => []SlotsAreCounted
<1>1. (overwritten = {} => ResidencyInv) => SlotsAreCounted
  BY DEF ResidencyInv, IndexInv, RoomInv, Resident, SlotsAreCounted
<1> QED
  BY <1>1, ResidencyInvariant, PTL

(* When drain_runtimes has ended, every slot is empty except those whose   *)
(* writer could not be proved absent and was reported, unless a retry      *)
(* replaced an owner.                                                      *)
THEOREM DrainLeavesNothing == Spec => []DrainIsComplete
<1>1. (overwritten = {} => ResidencyInv) => DrainIsComplete
  BY DEF ResidencyInv, DrainInv, DrainOK, Reported, DrainIsComplete
<1> QED
  BY <1>1, ResidencyInvariant, PTL

(* delete_session destroys a session only when no writer of it is held or  *)
(* being composed, a successful unload left no composition behind, and an  *)
(* admitted operation (OperationLease) keeps its runtime composed, until a *)
(* retry replaces an owner.                                                *)
THEOREM RetirementsAreProven == Spec => []RetirementIsProven
<1>1. (overwritten = {} => ResidencyInv) => RetirementIsProven
  <2> SUFFICES ASSUME ResidencyInv, NEW p \in Agents
               PROVE  LET f == calls[p].flight
                      IN /\ (calls[p].op = "delete" /\ calls[p].at = "next" /\ calls[p].todo = {}) =>
                              \A g \in Flights :
                                 (flights[g].kind # "free" /\
                                  SessionOf[flights[g].conv] = SessionOf[calls[p].conv]) =>
                                     ~flights[g].comp /\ flights[g].pc # "compose"
                         /\ (calls[p].at = "retired" /\ f # NoFlight) =>
                              /\ ~flights[f].comp
                              /\ flights[f].old # NoFlight => ~flights[flights[f].old].comp
                         /\ calls[p].at = "operating" => flights[f].comp
    BY DEF RetirementIsProven
  <2>1. CallOK(p) /\ calls[p] \in CallRecords /\ RegistryOK
    BY DEF ResidencyInv, CallInv, RegistryOK
  <2>2. ASSUME calls[p].op = "delete", calls[p].at = "next", calls[p].todo = {},
               NEW g \in Flights, flights[g].kind # "free",
               SessionOf[flights[g].conv] = SessionOf[calls[p].conv]
        PROVE  ~flights[g].comp /\ flights[g].pc # "compose"
    <3>1. p \in Callers
      BY <2>1, <2>2 DEF CallOK, Agents
    <3>2. DeleteOK(p) /\ Deleting(p)
      BY <2>2, <3>1 DEF ResidencyInv, DeleteInv, Deleting
    <3>3. FlightOK(g) /\ flights[g].conv \in Conversations
      BY <2>2 DEF ResidencyInv, FlightInv, FlightOK, FreeOK
    <3>4. entries[flights[g].conv].phase = "None"
      BY <2>2, <3>2, <3>3 DEF DeleteOK
    <3>5. SlotShape(entries[flights[g].conv]) /\ g # NoFlight
      BY <2>1, <3>3, EntryShapes, FlightNames DEF RegistryOK, Slots
    <3> QED
      BY <3>3, <3>4, <3>5 DEF FlightOK, WriterOK, LoadOK, Holds, Composing, SlotShape
  <2>3. ASSUME calls[p].at = "retired", calls[p].flight # NoFlight
        PROVE  /\ ~flights[calls[p].flight].comp
               /\ flights[calls[p].flight].old # NoFlight =>
                      ~flights[flights[calls[p].flight].old].comp
    <3>1. calls[p].flight \in Flights /\ flights[calls[p].flight].result \in Proven
      BY <2>1, <2>3 DEF CallOK, CallRecords
    <3>2. EndOK(calls[p].flight)
      BY <3>1 DEF ResidencyInv, FlightInv, FlightOK
    <3> QED
      BY <3>1, <3>2 DEF EndOK, NothingOld
  <2>4. calls[p].at = "operating" => flights[calls[p].flight].comp
    BY <2>1 DEF CallOK
  <2> QED
    BY <2>2, <2>3, <2>4
<1> QED
  BY <1>1, ResidencyInvariant, PTL

-----------------------------------------------------------------------------
(* When retries meet empty slots.                                          *)

NoRetries == \A p \in Callers : "retry" \notin Operations[p]
NoStores == \A p \in Callers : Operations[p] \cap {"scheduled", "storage"} = {}

\* A call is for one of the operations of its caller.
OpsChosen == \A p \in Callers : calls[p].op \in Operations[p] \cup {"none", "create"}

\* A retained failure leaves its slot empty until it is given up.
FailedInv == \A c \in Conversations : failed[c] # NoFlight => entries[c].phase = "None" /\ c \in exists

ChosenStep == \A q \in Callers : calls'[q].op \in {calls[q].op, "create"} \cup Operations[q]

FailedStep ==
    /\ exists \subseteq exists'
    /\ \A c \in Conversations :
        \/ failed'[c] = NoFlight
        \/ failed'[c] = failed[c] /\ entries'[c] = entries[c]
        \/ entries'[c].phase = "None" /\ c \in exists

LEMMA ChosenKept == OpsChosen /\ ChosenStep => OpsChosen'
BY DEF OpsChosen, ChosenStep

LEMMA FailedKept == FailedInv /\ FailedStep => FailedInv'
BY DEF FailedInv, FailedStep

LEMMA EntersChosen ==
    ASSUME ResidencyInv, OpsChosen, NEW p \in Agents, NEW op, op \notin {"none", "create"}, NEW c \in Conversations,
           Enters(p, op, c)
    PROVE  p \in Callers => op \in Operations[p]
BY DEF Enters, OpsChosen

\* Steps that set one call to op.
LEMMA ChosenCall ==
    ASSUME ResidencyInv, NEW p \in Agents, NEW x, NEW op, x.op = op,
           p \in Callers => op \in Operations[p] \cup {calls[p].op, "create"},
           \/ calls' = [calls EXCEPT ![p] = x]
           \/ \E f \in Flights, c \in Conversations : calls' = [WithReceipts(f, c) EXCEPT ![p] = x]
    PROVE  ChosenStep
<1>1. RegistryOK
  BY DEF ResidencyInv
<1>2. CASE calls' = [calls EXCEPT ![p] = x]
  BY <1>1, <1>2 DEF ChosenStep, RegistryOK, Agents
<1>3. ASSUME NEW f \in Flights, NEW c \in Conversations, calls' = [WithReceipts(f, c) EXCEPT ![p] = x]
      PROVE  ChosenStep
  <2>1. /\ WithReceipts(f, c) \in [Agents -> CallRecords]
        /\ \A q \in Agents : WithReceipts(f, c)[q].op = calls[q].op
    BY <1>1, ReceiptsTyped
  <2> SUFFICES ASSUME NEW q \in Callers PROVE calls'[q].op \in {calls[q].op, "create"} \cup Operations[q]
    BY DEF ChosenStep
  <2>2. CASE q = p
    BY <1>3, <2>1, <2>2
  <2>3. CASE q # p
    BY <1>3, <2>1, <2>3 DEF Agents
  <2> QED
    BY <2>2, <2>3
<1> QED
  BY <1>2, <1>3

LEMMA ChosenReturns ==
    ASSUME ResidencyInv, NEW p \in Agents, NEW op, Returns(p, op),
           p \in Callers => op \in Operations[p] \cup {calls[p].op, "create"}
    PROVE  ChosenStep
<1>1. PICK x : x = [Idle EXCEPT !.op = op, !.at = "returned"]
  OBVIOUS
<1>2. x.op = op /\ calls' = [calls EXCEPT ![p] = x]
  BY <1>1 DEF Returns, Idle
<1> QED
  BY <1>2, ChosenCall

LEMMA ChosenLoops ==
    ASSUME ResidencyInv, NEW p \in Agents, NEW i, Loops(p, i)
    PROVE  ChosenStep
<1>1. RegistryOK /\ calls[p] \in CallRecords
  BY DEF ResidencyInv, RegistryOK
<1>2. PICK x : x = [calls[p] EXCEPT !.at = "select", !.flight = NoFlight, !.inherits = i]
  OBVIOUS
<1>3. x.op = calls[p].op
  BY <1>1, <1>2 DEF CallRecords
<1>4. calls' = [calls EXCEPT ![p] = x]
  BY <1>1, <1>2 DEF Loops, RegistryOK
<1> QED
  BY <1>3, <1>4, ChosenCall

LEMMA ChosenWaits ==
    ASSUME ResidencyInv, NEW p \in Agents, NEW op, NEW c \in Conversations, NEW f, NEW b,
           Waits(p, op, c, f, b), p \in Callers => op \in Operations[p]
    PROVE  ChosenStep
<1>1. calls[p] \in CallRecords
  BY DEF ResidencyInv, RegistryOK
<1>2. PICK x : x = [Entered(p, op, c) EXCEPT !.at = "wait", !.flight = f, !.claimed = b]
  OBVIOUS
<1>3. x.op = op /\ calls' = [calls EXCEPT ![p] = x]
  BY <1>1, <1>2 DEF Waits, Entered, CallRecords
<1> QED
  BY <1>3, ChosenCall

\* The calls of a caller are those of its own operations.
LEMMA EnteringChosen ==
    ASSUME ResidencyInv, OpsChosen, NEW p \in Agents, Entering(p)
    PROVE  ChosenStep
<1>1. RegistryOK /\ calls[p] \in CallRecords
  BY DEF ResidencyInv, RegistryOK
<1>2. \A op, c : /\ Entered(p, op, c).op = op
                 /\ \A at, f, b : /\ [Entered(p, op, c) EXCEPT !.at = at, !.flight = f].op = op
                                  /\ [Entered(p, op, c) EXCEPT !.at = at, !.flight = f, !.claimed = b].op = op
                                  /\ [Entered(p, op, c) EXCEPT !.at = at, !.flight = f, !.claimed = b,
                                                               !.inherits = NoFlight].op = op
  BY <1>1 DEF Entered, CallRecords
<1>3. ASSUME NEW c \in Conversations, NEW op, op \notin {"none", "create"}, Enters(p, op, c)
      PROVE  p \in Callers => op \in Operations[p]
  BY <1>3, EntersChosen
<1>4. ASSUME NEW c \in Conversations, NEW op \in Ops, Refused(p, op, c) \/ FindLoaded(p, op, c)
      PROVE  ChosenStep
  <2>1. Enters(p, op, c) /\ Returns(p, op) /\ op \notin {"none", "create"}
    BY <1>4 DEF Refused, FindLoaded
  <2> QED
    BY <1>3, <2>1, ChosenReturns
<1>5. ASSUME NEW c \in Conversations, NEW op, Join(p, op, c) PROVE ChosenStep
  <2>1. PICK f : Enters(p, op, c) /\ Waits(p, op, c, f, FALSE) /\ op \notin {"none", "create"}
    BY <1>5 DEF Join, Joining
  <2> QED
    BY <1>3, <2>1, ChosenWaits
<1>6. ASSUME NEW c \in Conversations, NEW op, Claim(p, op, c) PROVE ChosenStep
  <2>1. PICK f \in Flights : calls' = [WithReceipts(f, c) EXCEPT ![p] =
                        [Entered(p, op, c) EXCEPT !.at = "wait", !.flight = f,
                            !.claimed = TRUE, !.inherits = NoFlight]]
    BY <1>6 DEF Claim
  <2>2. Enters(p, op, c) /\ op \notin {"none", "create"}
    BY <1>6 DEF Claim
  <2>3. PICK x : x = [Entered(p, op, c) EXCEPT !.at = "wait", !.flight = f, !.claimed = TRUE,
                                               !.inherits = NoFlight]
    OBVIOUS
  <2>4. x.op = op /\ calls' = [WithReceipts(f, c) EXCEPT ![p] = x]
    BY <1>2, <2>1, <2>3
  <2> QED
    BY <1>3, <2>2, <2>4, ChosenCall
<1>7. ASSUME NEW c \in Conversations, NEW op, Identify(p, op, c) PROVE ChosenStep
  <2>1. Enters(p, op, c) /\ op \notin {"none", "create"}
    BY <1>7 DEF Identify
  <2>2. PICK x : x = [Entered(p, op, c) EXCEPT !.at = "admit", !.flight = entries[c].runtime]
    OBVIOUS
  <2>3. x.op = op /\ calls' = [calls EXCEPT ![p] = x]
    BY <1>2, <1>7, <2>2 DEF Identify
  <2> QED
    BY <1>3, <2>1, <2>3, ChosenCall
<1>8. ASSUME NEW c \in Conversations, NEW op, RetireAbsent(p, op, c) \/ RetireJoins(p, op, c)
      PROVE  ChosenStep
  <2>1. Enters(p, op, c) /\ op \notin {"none", "create"}
    BY <1>8 DEF RetireAbsent, RetireJoins, Retirements
  <2>2. PICK at, f : calls' = [calls EXCEPT ![p] = [Entered(p, op, c) EXCEPT !.at = at, !.flight = f]]
    BY <1>8 DEF RetireAbsent, RetireJoins, ProvedAbsent
  <2>3. PICK x : x = [Entered(p, op, c) EXCEPT !.at = at, !.flight = f]
    OBVIOUS
  <2>4. x.op = op /\ calls' = [calls EXCEPT ![p] = x]
    BY <1>2, <2>2, <2>3
  <2> QED
    BY <1>3, <2>1, <2>4, ChosenCall
<1>9. ASSUME NEW c \in Conversations, NEW op, RetireLoaded(p, op, c) PROVE ChosenStep
  <2>1. PICK f : Enters(p, op, c) /\ Waits(p, op, c, f, TRUE) /\ op \notin {"none", "create"}
    BY <1>9 DEF RetireLoaded, Retirements
  <2> QED
    BY <1>3, <2>1, ChosenWaits
<1>10. ASSUME NEW c \in Conversations, ClaimStorage(p, c) PROVE ChosenStep
  <2>1. PICK f : Enters(p, "storage", c) /\ Waits(p, "storage", c, f, TRUE)
    BY <1>10 DEF ClaimStorage
  <2> QED
    BY <1>3, <2>1, ChosenWaits
<1>11. ASSUME NEW c \in Conversations, ReplaceLoaded(p, c) PROVE ChosenStep
  <2>1. PICK f \in Flights : calls' = [WithReceipts(f, c) EXCEPT ![p] =
                    [Entered(p, "replace", c) EXCEPT !.at = "wait", !.flight = f, !.claimed = TRUE]]
    BY <1>11 DEF ReplaceLoaded
  <2>2. Enters(p, "replace", c)
    BY <1>11 DEF ReplaceLoaded
  <2>3. PICK x : x = [Entered(p, "replace", c) EXCEPT !.at = "wait", !.flight = f, !.claimed = TRUE]
    OBVIOUS
  <2>4. x.op = "replace" /\ calls' = [WithReceipts(f, c) EXCEPT ![p] = x]
    BY <1>2, <2>1, <2>3
  <2> QED
    BY <1>3, <2>2, <2>4, ChosenCall
<1>12. ASSUME NEW c \in Conversations, SubmitCancelled(p, c) \/ SubmitJoins(p, c) \/ SubmitClaims(p, c)
       PROVE  ChosenStep
  <2>1. Enters(p, "submit", c) /\ (p \in Callers => "submit" \in Operations[p])
    BY <1>3, <1>12 DEF SubmitCancelled, SubmitJoins, SubmitClaims
  <2>2. ASSUME NEW f, \/ calls' = [calls EXCEPT ![p] = Recorded(p, f)]
                      \/ f \in Flights /\ calls' = [WithReceipts(f, c) EXCEPT ![p] = Recorded(p, f)]
        PROVE  ChosenStep
    <3>1. PICK x : x = Recorded(p, f)
      OBVIOUS
    <3>2. x.op = calls[p].op
      BY <1>1, <3>1 DEF Recorded, CallRecords
    <3>3. \/ calls' = [calls EXCEPT ![p] = x]
          \/ \E g \in Flights, d \in Conversations : calls' = [WithReceipts(g, d) EXCEPT ![p] = x]
      BY <2>2, <3>1
    <3> QED
      BY <3>2, <3>3, ChosenCall
  <2>3. CASE Returns(p, "submit")
    BY <2>1, <2>3, ChosenReturns
  <2>4. CASE \E f : Waits(p, "submit", c, f, FALSE)
    BY <2>1, <2>4, ChosenWaits
  <2> QED
    BY <1>12, <2>2, <2>3, <2>4 DEF SubmitCancelled, SubmitJoins, SubmitClaims
<1>13. ASSUME NEW c \in Conversations, Retry(p, c) PROVE ChosenStep
  <2>1. Enters(p, "retry", c) /\ (p \in Callers => "retry" \in Operations[p])
    BY <1>3, <1>13 DEF Retry
  <2>2. CASE Returns(p, "retry")
    BY <2>1, <2>2, ChosenReturns
  <2>3. CASE ~Returns(p, "retry")
    <3>1. PICK f \in Flights : calls' = [WithReceipts(f, c) EXCEPT ![p] =
                                [Idle EXCEPT !.op = "retry", !.at = "returned"]]
      BY <1>13, <2>3 DEF Retry
    <3>2. PICK x : x = [Idle EXCEPT !.op = "retry", !.at = "returned"]
      OBVIOUS
    <3>3. x.op = "retry" /\ calls' = [WithReceipts(f, c) EXCEPT ![p] = x]
      BY <3>1, <3>2 DEF Idle
    <3> QED
      BY <2>1, <3>3, ChosenCall
  <2> QED
    BY <2>2, <2>3
<1>14. {"load", "replace", "scheduled", "storage", "submit", "retry"} \subseteq Ops
  BY DEF Ops
<1> QED
  BY <1>4, <1>5, <1>6, <1>7, <1>8, <1>9, <1>10, <1>11, <1>12, <1>13, <1>14 DEF Entering

LEMMA ContinuingChosen ==
    ASSUME ResidencyInv, OpsChosen, NEW p \in Agents, Continuing(p)
    PROVE  ChosenStep
<1>1. RegistryOK /\ calls[p] \in CallRecords /\ CallOK(p)
  BY DEF ResidencyInv, RegistryOK, CallInv
<1>2. ASSUME NEW op, calls[p].op = op, Returns(p, op) PROVE ChosenStep
  BY <1>2, ChosenReturns
<1>3. ASSUME NEW i, Loops(p, i) PROVE ChosenStep
  BY <1>3, ChosenLoops
<1>4. CASE LoadAnswered(p) \/ ReplaceAnswered(p) \/ ScheduledAnswered(p) \/ StorageAnswered(p)
           \/ SubmitAnswered(p)
  BY <1>2, <1>3, <1>4 DEF LoadAnswered, ReplaceAnswered, ScheduledAnswered, StorageAnswered,
     SubmitAnswered, Answered
<1>5. ASSUME NEW op, RetireAnswered(p, op) PROVE ChosenStep
  <2>1. calls[p].op = op
    BY <1>5 DEF RetireAnswered, Answered
  <2>2. ASSUME NEW f, calls' = [calls EXCEPT ![p] = ProvedAbsent(p, op, calls[p].conv, f)]
        PROVE  ChosenStep
    <3>1. PICK x : x = ProvedAbsent(p, op, calls[p].conv, f)
      OBVIOUS
    <3>2. x.op = op
      BY <1>1, <3>1 DEF ProvedAbsent, Entered, CallRecords
    <3>3. calls' = [calls EXCEPT ![p] = x]
      BY <2>2, <3>1
    <3> QED
      BY <2>1, <3>2, <3>3, ChosenCall
  <2> QED
    BY <1>2, <1>3, <1>5, <2>1, <2>2 DEF RetireAnswered
<1>6. ASSUME NEW at, calls' = [calls EXCEPT ![p].at = at] PROVE ChosenStep
  <2>1. PICK x : x = [calls[p] EXCEPT !.at = at]
    OBVIOUS
  <2>2. x.op = calls[p].op /\ calls' = [calls EXCEPT ![p] = x]
    BY <1>1, <1>6, <2>1 DEF CallRecords, RegistryOK
  <2> QED
    BY <2>2, ChosenCall
<1>7. CASE CancelLoading(p) \/ AdmitOperation(p)
  <2>1. CASE CancelLoading(p)
    BY <1>6, <2>1 DEF CancelLoading
  <2>2. CASE AdmitOperation(p)
    <3>1. calls[p].op \in {"operate", "storage"}
      BY <1>1, <2>2 DEF AdmitOperation, CallOK
    <3>2. \/ calls' = [calls EXCEPT ![p].at = "operating"]
          \/ calls[p].op = "storage" /\ Loops(p, NoFlight)
          \/ calls[p].op # "storage" /\ Returns(p, "operate")
      BY <2>2 DEF AdmitOperation
    <3> QED
      BY <1>2, <1>3, <1>6, <3>1, <3>2
  <2> QED
    BY <1>7, <2>1, <2>2
<1>8. CASE DeleteNext(p)
  <2>1. PICK c \in calls[p].todo :
          calls' = [calls EXCEPT ![p] = [@ EXCEPT !.conv = c, !.at = "select",
                        !.flight = NoFlight, !.todo = calls[p].todo \ {c}]]
    BY <1>8 DEF DeleteNext
  <2>2. PICK x : x = [calls[p] EXCEPT !.conv = c, !.at = "select", !.flight = NoFlight,
                                      !.todo = calls[p].todo \ {c}]
    OBVIOUS
  <2>3. x.op = calls[p].op
    BY <1>1, <2>2 DEF CallRecords
  <2>4. calls' = [calls EXCEPT ![p] = x]
    BY <1>1, <2>1, <2>2 DEF RegistryOK
  <2> QED
    BY <2>3, <2>4, ChosenCall
<1>9. CASE DeleteCommit(p)
  <2>1. calls[p].op = "delete" /\ Returns(p, "delete")
    BY <1>1, <1>9 DEF DeleteCommit, CallOK
  <2> QED
    BY <1>2, <2>1
<1>10. CASE CreatePublish(p) \/ CreateFails(p)
  <2>1. Returns(p, "create")
    BY <1>10 DEF CreatePublish, CreateFails
  <2> QED
    BY <2>1, ChosenReturns
<1>11. CASE ReleaseOperation(p)
  BY <1>2, <1>11 DEF ReleaseOperation
<1> QED
  BY <1>4, <1>5, <1>7, <1>8, <1>9, <1>10, <1>11 DEF Continuing

LEMMA NextChosen ==
    ASSUME ResidencyInv, OpsChosen, [Next]_vars
    PROVE  ChosenStep
<1>1. RegistryOK
  BY DEF ResidencyInv
<1>2. ASSUME UNCHANGED calls PROVE ChosenStep
  BY <1>2 DEF ChosenStep
<1>3. ASSUME calls' = Pass PROVE ChosenStep
  <2>1. \A q \in Callers : calls'[q] = calls[q]
    BY <1>3 DEF Pass, Agents
  <2> QED
    BY <2>1 DEF ChosenStep
<1>4. ASSUME NEW f \in Flights, Working(f) PROVE ChosenStep
  <2>1. CASE UNCHANGED calls
    BY <1>2, <2>1
  <2>2. CASE ~UNCHANGED calls
    <3>1. Publish(f)
      BY <1>4, <2>2 DEF Working, Acquire, Compose, CheckFence, Activate, Settle, Report,
         RequestRetirement, SettleOperations, ShutDown, Transfer, StorageOpen, StorageClose,
         StorageAnnounce
    <3>2. PICK g \in Flights : calls' = WithReceipts(g, flights[f].conv)
      BY <2>2, <3>1 DEF Publish
    <3>3. \A q \in Agents : WithReceipts(g, flights[f].conv)[q].op = calls[q].op
      BY <1>1, ReceiptsTyped
    <3> QED
      BY <3>2, <3>3 DEF ChosenStep, Agents
  <2> QED
    BY <2>1, <2>2
<1>5. ASSUME NEW p \in Agents, NEW c \in Conversations,
             Accept(p, c) \/ DeleteFence(p, c) \/ CreateReserve(p, c)
      PROVE  ChosenStep
  <2>1. CASE Accept(p, c)
    <3>1. PICK b, at : calls' = [calls EXCEPT ![p] =
                  [Idle EXCEPT !.op = "submit", !.conv = c, !.bound = b, !.at = at]]
      BY <2>1 DEF Accept
    <3>2. PICK x : x = [Idle EXCEPT !.op = "submit", !.conv = c, !.bound = b, !.at = at]
      OBVIOUS
    <3>3. x.op = "submit" /\ calls' = [calls EXCEPT ![p] = x] /\ "submit" \in Operations[p]
      BY <2>1, <3>1, <3>2 DEF Idle, Accept
    <3> QED
      BY <3>3, ChosenCall
  <2>2. CASE DeleteFence(p, c)
    <3>1. "delete" \in Operations[p]
      BY <2>2 DEF DeleteFence
    <3>2. CASE Returns(p, "delete")
      BY <3>1, <3>2, ChosenReturns
    <3>3. CASE ~Returns(p, "delete")
      <4>1. PICK x : x = [Idle EXCEPT !.op = "delete", !.conv = c, !.at = "next",
                                      !.todo = SessionEntries(SessionOf[c])]
        OBVIOUS
      <4>2. x.op = "delete" /\ calls' = [calls EXCEPT ![p] = x]
        BY <2>2, <3>3, <4>1 DEF Idle, DeleteFence
      <4> QED
        BY <3>1, <4>2, ChosenCall
    <3> QED
      BY <3>2, <3>3
  <2>3. CASE CreateReserve(p, c)
    <3>1. CASE Returns(p, "create")
      BY <3>1, ChosenReturns
    <3>2. CASE ~Returns(p, "create")
      <4>1. PICK x : x = [Idle EXCEPT !.op = "create", !.conv = c, !.at = "creating"]
        OBVIOUS
      <4>2. x.op = "create" /\ calls' = [calls EXCEPT ![p] = x]
        BY <2>3, <3>2, <4>1 DEF Idle, CreateReserve
      <4> QED
        BY <4>2, ChosenCall
    <3> QED
      BY <3>1, <3>2
  <2> QED
    BY <1>5, <2>1, <2>2, <2>3
<1>6. ASSUME NEW p \in Agents, Entering(p) \/ Continuing(p) \/ Beginning(p) PROVE ChosenStep
  BY <1>5, <1>6, EnteringChosen, ContinuingChosen DEF Beginning
<1>7. ASSUME NEW f \in Flights, CloseNative(f) PROVE ChosenStep
  BY <1>2, <1>7 DEF CloseNative
<1>8. ASSUME NEW c \in Conversations, Reap(c) PROVE ChosenStep
  BY <1>2, <1>8 DEF Reap
<1>9. CASE BeginDraining \/ Draining
  BY <1>2, <1>3, <1>9 DEF BeginDraining, Draining, DrainFirstPass, DrainLastPass, DrainEnds
<1>10. CASE UNCHANGED vars
  BY <1>2, <1>10 DEF vars
<1> QED
  BY <1>4, <1>6, <1>7, <1>8, <1>9, <1>10 DEF Next

\* Nothing takes the slot of a retained failure before it is given up.
LEMMA PutOnly ==
    ASSUME RegistryOK, NEW c \in Conversations, NEW e, Put(c, e)
    PROVE  \A d \in Conversations : d # c => entries'[d] = entries[d]
BY DEF RegistryOK, Put

LEMMA FailedSlot ==
    ASSUME FailedInv, NEW c \in Conversations, entries[c].phase # "None" \/ c \notin exists,
           \A d \in Conversations : d # c => entries'[d] = entries[d],
           UNCHANGED failed, exists \subseteq exists'
    PROVE  FailedStep
BY DEF FailedInv, FailedStep

LEMMA FailedGone ==
    ASSUME RegistryOK, NEW c \in Conversations, failed' = [failed EXCEPT ![c] = NoFlight],
           \A d \in Conversations : d # c => entries'[d] = entries[d], UNCHANGED exists
    PROVE  FailedStep
BY DEF FailedStep, RegistryOK

LEMMA EnteringFailed ==
    ASSUME ResidencyInv, OpsChosen, NoStores, FailedInv, NEW p \in Agents, Entering(p)
    PROVE  FailedStep
<1>1. RegistryOK
  BY DEF ResidencyInv
<1>2. ASSUME UNCHANGED <<entries, failed, exists>> PROVE FailedStep
  BY <1>2 DEF FailedStep
<1>3. ASSUME NEW c \in Conversations, NEW op \in {"scheduled", "storage"}, Enters(p, op, c) PROVE FALSE
  <2>1. p \in Callers
    BY <1>3, EntersKnows DEF Retirements
  <2> QED
    BY <1>3, <2>1, EntersChosen DEF NoStores
<1>4. ASSUME NEW c \in Conversations, NEW op, Claim(p, op, c) PROVE FailedStep
  <2>1. op \in {"load", "replace"} /\ Enters(p, op, c) /\ UNCHANGED exists
    BY <1>3, <1>4 DEF Claim
  <2>2. \A d \in Conversations : d # c => entries'[d] = entries[d]
    BY <1>1, <1>4, PutOnly DEF Claim, ClaimLoad
  <2>3. CASE op = "load"
    BY <1>1, <1>4, <2>1, <2>2, <2>3 DEF Claim, FailedStep
  <2>4. CASE op = "replace"
    BY <1>1, <1>4, <2>1, <2>2, <2>4, FailedGone DEF Claim
  <2> QED
    BY <2>1, <2>3, <2>4
<1>5. ASSUME NEW c \in Conversations, NEW op, RetireAbsent(p, op, c) PROVE FailedStep
  <2>1. \A d \in Conversations : d # c => entries'[d] = entries[d]
    BY <1>1, <1>5, PutOnly DEF RetireAbsent, Removed, Emptied
  <2> QED
    BY <1>1, <1>5, <2>1, FailedGone DEF RetireAbsent, Removed
<1>6. ASSUME NEW c \in Conversations, entries[c].phase = "Loaded", NEW e, Put(c, e), UNCHANGED <<failed, exists>>
      PROVE  FailedStep
  BY <1>1, <1>6, PutOnly, FailedSlot
<1>7. ASSUME NEW c \in Conversations, NEW op, RetireLoaded(p, op, c) \/ ReplaceLoaded(p, c)
      PROVE FailedStep
  BY <1>6, <1>7 DEF RetireLoaded, ReplaceLoaded
<1>8. ASSUME NEW c \in Conversations, ClaimStorage(p, c) PROVE FailedStep
  BY <1>3, <1>8 DEF ClaimStorage
<1>9. ASSUME NEW c \in Conversations, SubmitClaims(p, c) PROVE FailedStep
  <2>1. \A d \in Conversations : d # c => entries'[d] = entries[d]
    BY <1>1, <1>9, PutOnly DEF SubmitClaims, ClaimLoad
  <2> QED
    BY <1>1, <1>9, <2>1, FailedGone DEF SubmitClaims
<1>10. ASSUME NEW c \in Conversations, Retry(p, c) PROVE FailedStep
  <2>1. CASE failed[c] = NoFlight
    BY <1>2, <1>10, <2>1 DEF Retry
  <2>2. CASE failed[c] # NoFlight
    <3>1. PICK f \in Flights : /\ ClaimLoad(f, "load", c, TRUE)
                               /\ failed' = [failed EXCEPT ![c] = NoFlight]
      BY <1>10, <2>2 DEF Retry
    <3>2. \A d \in Conversations : d # c => entries'[d] = entries[d]
      BY <1>1, <3>1, PutOnly DEF ClaimLoad
    <3> QED
      BY <1>1, <1>10, <3>1, <3>2, FailedGone DEF Retry
  <2> QED
    BY <2>1, <2>2
<1>11. ASSUME NEW c \in Conversations, NEW op,
              \/ Refused(p, op, c) \/ Join(p, op, c) \/ FindLoaded(p, op, c) \/ Identify(p, op, c)
              \/ RetireJoins(p, op, c) \/ SubmitCancelled(p, c) \/ SubmitJoins(p, c)
       PROVE  FailedStep
  BY <1>2, <1>11 DEF Refused, Join, FindLoaded, Identify, RetireJoins, SubmitCancelled, SubmitJoins
<1> QED
  BY <1>4, <1>5, <1>7, <1>8, <1>9, <1>10, <1>11 DEF Entering

LEMMA WorkingFailed ==
    ASSUME ResidencyInv, FailedInv, NEW f \in Flights, Working(f)
    PROVE  FailedStep
<1>1. RegistryOK
  BY DEF ResidencyInv
<1>2. ASSUME UNCHANGED <<entries, failed, exists>> PROVE FailedStep
  BY <1>2 DEF FailedStep
<1>3. flights[f].pc # "none"
  BY DEF Working, Acquire, Compose, CheckFence, Activate, Settle, Report, RequestRetirement,
     SettleOperations, ShutDown, Transfer, Publish, StorageOpen, StorageClose, StorageAnnounce, At
<1>4. PICK c \in Conversations : Begun(f, c)
  BY <1>3, BegunFlight
<1>5. c = flights[f].conv /\ FlightOK(f)
  BY <1>4 DEF Begun
<1>6. ASSUME flights[f].pc \in Composing \cup Retained \cup {"publishing", "open", "close"}
      PROVE  entries[c].phase # "None" /\ c \in exists
  <2>1. entries[c].phase # "None"
    BY <1>5, <1>6 DEF FlightOK, LoadOK, RetireOK, EndOK, StorageOK, Holds, Composing, Retained
  <2> QED
    BY <2>1 DEF ResidencyInv, ExistInv
<1>7. ASSUME NEW e, Put(c, e), UNCHANGED <<failed, exists>>,
             flights[f].pc \in Composing \cup Retained \cup {"publishing", "open", "close"}
      PROVE  FailedStep
  BY <1>1, <1>6, <1>7, PutOnly, FailedSlot
<1>8. CASE Activate(f) \/ Settle(f) \/ Transfer(f)
  <2>1. flights[f].pc \in Composing \cup Retained /\ UNCHANGED <<failed, exists>>
    BY <1>8 DEF Activate, Settle, Transfer, At, Composing, Retained
  <2>2. UNCHANGED entries \/ \E e : Put(c, e)
    BY <1>5, <1>8 DEF Activate, Settle, Transfer
  <2> QED
    BY <1>2, <1>7, <2>1, <2>2
<1>9. CASE Publish(f)
  <2>1. flights[f].pc = "publishing" /\ UNCHANGED exists
    BY <1>9 DEF Publish, At
  <2>2. CASE UNCHANGED failed
    <3>1. UNCHANGED entries \/ \E e : Put(c, e)
      BY <1>5, <1>9 DEF Publish, Emptied
    <3> QED
      BY <1>2, <1>7, <2>1, <2>2, <3>1
  <2>3. CASE ~UNCHANGED failed
    <3>1. PICK v : Put(c, Empty) /\ failed' = [failed EXCEPT ![c] = v]
      BY <1>5, <1>9, <2>3 DEF Publish, Emptied
    <3>2. entries'[c].phase = "None" /\ \A d \in Conversations : d # c => entries'[d] = entries[d]
      BY <1>1, <3>1 DEF Put, RegistryOK, Empty
    <3>3. c \in exists
      BY <1>6, <2>1
    <3> QED
      BY <1>1, <2>1, <3>1, <3>2, <3>3 DEF FailedStep, RegistryOK
  <2> QED
    BY <2>2, <2>3
<1>10. CASE StorageClose(f)
  <2>1. CASE Removed(c)
    <3>1. \A d \in Conversations : d # c => entries'[d] = entries[d]
      BY <1>1, <2>1, PutOnly DEF Removed, Emptied
    <3> QED
      BY <1>1, <1>10, <2>1, <3>1, FailedGone DEF Removed, StorageClose
  <2>2. CASE ~Removed(c)
    BY <1>2, <1>5, <1>10, <2>2 DEF StorageClose
  <2> QED
    BY <2>1, <2>2
<1>11. CASE UNCHANGED <<entries, failed, exists>>
  BY <1>2, <1>11
<1> QED
  BY <1>8, <1>9, <1>10, <1>11 DEF Working, Acquire, Compose, CheckFence, Report, RequestRetirement,
     SettleOperations, ShutDown, StorageOpen, StorageAnnounce

LEMMA NextFailed ==
    ASSUME ResidencyInv, OpsChosen, NoStores, FailedInv, [Next]_vars
    PROVE  FailedStep
<1>1. RegistryOK
  BY DEF ResidencyInv
<1>2. ASSUME UNCHANGED <<entries, failed, exists>> PROVE FailedStep
  BY <1>2 DEF FailedStep
<1>3. ASSUME UNCHANGED <<entries, exists>>,
             \A d \in Conversations : failed'[d] \in {failed[d], NoFlight}
      PROVE  FailedStep
  BY <1>3 DEF FailedStep
<1>4. ASSUME NEW p \in Agents, CreatePublish(p) PROVE FailedStep
  <2>1. CallOK(p) /\ calls[p].at = "creating"
    BY <1>4 DEF ResidencyInv, CallInv, CreatePublish
  <2>2. PICK c \in Conversations : c = calls[p].conv /\ c \notin exists
    BY <2>1 DEF CallOK
  <2>3. UNCHANGED failed /\ exists \subseteq exists'
    BY <1>4 DEF CreatePublish
  <2>4. \A d \in Conversations : d # c => entries'[d] = entries[d]
    <3>1. UNCHANGED entries \/ \E e : Put(c, e)
      BY <1>4, <2>2 DEF CreatePublish, ClaimLoad
    <3> QED
      BY <1>1, <3>1, PutOnly
  <2> QED
    BY <2>2, <2>3, <2>4, FailedSlot
<1>5. ASSUME NEW p \in Agents, Continuing(p) PROVE FailedStep
  <2>1. CASE UNCHANGED <<entries, failed, exists>>
    BY <1>2, <2>1
  <2> QED
    BY <1>4, <1>5, <2>1 DEF Continuing, LoadAnswered, ReplaceAnswered, ScheduledAnswered,
       StorageAnswered, SubmitAnswered, RetireAnswered, CancelLoading, DeleteNext, DeleteCommit,
       CreateFails, AdmitOperation, ReleaseOperation
<1>6. ASSUME NEW p \in Agents, Beginning(p) PROVE FailedStep
  <2>1. PICK c \in Conversations : Accept(p, c) \/ DeleteFence(p, c) \/ CreateReserve(p, c)
    BY <1>6 DEF Beginning
  <2>2. CASE DeleteFence(p, c)
    <3>1. UNCHANGED <<entries, exists>> /\ \A d \in Conversations : failed'[d] \in {failed[d], NoFlight}
      BY <2>2 DEF DeleteFence
    <3> QED
      BY <1>3, <3>1
  <2> QED
    BY <1>2, <2>1, <2>2 DEF Accept, CreateReserve
<1>7. ASSUME NEW f \in Flights, CloseNative(f) PROVE FailedStep
  BY <1>2, <1>7 DEF CloseNative
<1>8. ASSUME NEW c \in Conversations, Reap(c) PROVE FailedStep
  <2>1. PICK e : entries[c].phase = "Loaded" /\ Put(c, e) /\ UNCHANGED <<failed, exists>>
    BY <1>8 DEF Reap
  <2> QED
    BY <1>1, <2>1, PutOnly, FailedSlot
<1>9. CASE BeginDraining \/ DrainEnds
  BY <1>2, <1>9 DEF BeginDraining, DrainEnds
<1>10. CASE DrainFirstPass \/ DrainLastPass
  BY <1>3, <1>10 DEF DrainFirstPass, DrainLastPass
<1>11. CASE UNCHANGED vars
  BY <1>2, <1>11 DEF vars
<1> QED
  BY <1>5, <1>6, <1>7, <1>8, <1>9, <1>10, <1>11, EnteringFailed, WorkingFailed DEF Next, Draining

(* Where callers never retry, or where neither scheduled activations nor   *)
(* storage commands reach the registry, retry_failed_initialization finds  *)
(* the slot of every retained failure empty and replaces nobody: what the  *)
(* theorems above say holds throughout.                                    *)
THEOREM RetriesAloneMeetEmptySlots ==
    ASSUME NoRetries \/ NoStores PROVE Spec => [](overwritten = {} /\ ResidencyInv)
<1> DEFINE I == /\ ResidencyInv /\ OpsChosen /\ (NoStores => FailedInv)
                /\ overwritten = {}
<1>1. Init => I
  <2> SUFFICES ASSUME Init PROVE OpsChosen /\ FailedInv
    BY ResidencyInit DEF Init
  <2>1. \A p \in Callers : calls[p].op = "none"
    BY DEF Init, Idle, Agents
  <2>2. \A c \in Conversations : failed[c] = NoFlight
    BY DEF Init
  <2> QED
    BY <2>1, <2>2 DEF OpsChosen, FailedInv
<1>2. I => RetriesMeetEmpty
  <2> SUFFICES ASSUME I, NEW p \in Agents, NEW c \in Conversations, Retry(p, c), failed[c] # NoFlight
               PROVE  entries[c].phase = "None"
    BY DEF RetriesMeetEmpty
  <2>1. CASE NoStores
    BY <2>1 DEF FailedInv
  <2>2. CASE NoRetries
    <3>1. Enters(p, "retry", c)
      BY DEF Retry
    <3>2. p \in Callers
      BY <3>1, EntersKnows DEF Retirements
    <3> QED
      BY <2>2, <3>1, <3>2, EntersChosen DEF NoRetries
  <2> QED
    BY <2>1, <2>2
<1>3. I /\ [Next]_vars => I'
  <2> SUFFICES ASSUME I, [Next]_vars PROVE I'
    OBVIOUS
  <2>1. ResidencyInv'
    BY <1>2, ResidencyNext
  <2>2. OpsChosen'
    BY NextChosen, ChosenKept
  <2>3. NoStores => FailedInv'
    BY NextFailed, FailedKept
  <2>4. overwritten' = {}
    BY <1>2, HistoryStep DEF Overwrites, RetriesMeetEmpty
  <2> QED
    BY <2>1, <2>2, <2>3, <2>4
<1>4. I => overwritten = {} /\ ResidencyInv
  OBVIOUS
<1> HIDE DEF I
<1>5. Spec => []I
  BY <1>1, <1>3, PTL DEF Spec
<1> QED
  BY <1>4, <1>5, PTL
=============================================================================
