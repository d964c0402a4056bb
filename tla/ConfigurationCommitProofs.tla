---------------------- MODULE ConfigurationCommitProofs ----------------------
(***************************************************************************)
(* Proofs about ConfigurationCommit: what a client is shown as applied is  *)
(* what the Session retains and the runtime runs, and an Attempt freezes   *)
(* the newest generation that was ready.                                   *)
(*                                                                         *)
(* The inductive invariant follows the desired application.  It is in one  *)
(* place at a time: queued, taken by the preparation worker, staged, or in *)
(* a report that is under way (OnePlace).  While it is, nothing but the    *)
(* publication of its model catalog decides a part of it; once it is in    *)
(* none of them, what the owner shows was decided by its own report or by  *)
(* that publication (Truth), which on a cold Session only keeps a deferral *)
(* that the next attachment takes up (AttachedOK).                         *)
(***************************************************************************)
EXTENDS ConfigurationCommit, TLAPS

\* The preparation worker has taken an application.
Taken(p) == p.pc \in {"lookup", "fence", "catalog", "baseline", "prepared"}

\* No identity lies in the future of the desired one.
IdentitiesOK(o, p, rs, st) ==
    /\ o.pending \subseteq {o.desired}
    /\ Taken(p) => p.id <= o.desired
    /\ \A s \in st : s.id <= o.desired
    /\ \A r \in rs : r.id <= o.desired

\* The desired application is in one place: queued, taken, staged or reported.
OnePlace(o, p, rs, st) ==
    /\ o.pending # {} =>
          /\ ~(Taken(p) /\ p.id = o.desired)
          /\ \A s \in st : s.id # o.desired
          /\ \A r \in rs : r.id # o.desired
    /\ Taken(p) /\ p.id = o.desired =>
          /\ \A s \in st : s.id # o.desired
          /\ \A r \in rs : r.id # o.desired
    /\ \A s \in st, r \in rs : s.id = o.desired => r.id # o.desired
    /\ \A s, t \in st : s = t
    /\ \A r, q \in rs : r.id = o.desired /\ q.id = o.desired => r = q

\* The application was committed, as far as its owner knows; its model catalog was
\* published or committed.
Decided(o) == o.unit \in {"Applied", "Uncertain"}
CatalogDecided(o) == o.provider \in {"Applied", "Uncertain"}

\* A decided application is nowhere any more, and what it committed is retained;
\* its catalog is retained, or waits for an allocation.
Truth(o, p, rs, st, kept) ==
    /\ \A s \in st : s.id = o.desired => s.input = o.input
    /\ \A r \in rs : r.id = o.desired /\ r.outcome \in {"Committed", "Uncertain"} =>
          kept.input = o.input
    /\ CatalogDecided(o) => kept.input.models = o.input.models \/ o.deferred
    /\ Decided(o) =>
          /\ kept.input.context = o.input.context
          /\ o.pending = {}
          /\ ~(Taken(p) /\ p.id = o.desired)
          /\ \A s \in st : s.id # o.desired
          /\ \A r \in rs : r.id # o.desired

CoreOK(o, p, rs, st, kept) ==
    IdentitiesOK(o, p, rs, st) /\ OnePlace(o, p, rs, st) /\ Truth(o, p, rs, st, kept)

\* A candidate was prepared against a runtime.
PreparationOK(p) ==
    (p.running => p.alloc # 0) /\ (p.pc = "prepared" => p.running)

\* The owner knows the allocation a, and no catalog waits for another one.
AttachedOK(o, kept, a) ==
    o.health = a /\ (CatalogDecided(o) => kept.input.models = o.input.models)

\* So many captures made the input.
Within(input, n) == input.context <= n /\ input.models <= n

\* The runtime runs what its Session retains, a commit it could not record
\* failed it, and the owner knows the allocation it is attached to.
AllocationInv ==
    /\ rt.config = retained.input
    /\ \A a \in unrecorded : a <= rt.alloc
    /\ rt.alloc \in unrecorded => rt.failed
    /\ PreparationOK(prep)
    /\ Within(owner.input, used.captures)
    /\ resident # 0 /\ ~attachDue => AttachedOK(owner, retained, rt.alloc)

ConfigurationInv ==
    TypeOK /\ CoreOK(owner, prep, reports, rt.staged, retained) /\ AllocationInv

-----------------------------------------------------------------------------
(* What the operations of the runtime do to an allocation.                  *)

\* The fields that say what is committed and what holds a commit back
SameCore(q, r) ==
    /\ q.alloc = r.alloc /\ q.life = r.life /\ q.config = r.config
    /\ q.failed = r.failed /\ q.attempt = r.attempt /\ q.job = r.job

\* q is an allocation that differs from r only in its passes and catalogs.
Edited(q, r) ==
    q \in Allocations /\ SameCore(q, r) /\ q.staged = r.staged /\ q.waiting = r.waiting

LEMMA EditedTwice ==
    ASSUME NEW p, NEW q, NEW r, Edited(p, q), Edited(q, r)
    PROVE  Edited(p, r)
  BY DEF Edited, SameCore

LEMMA EditCatalog ==
    ASSUME NEW r \in Allocations
    PROVE  /\ \A b \in BOOLEAN : Edited([r EXCEPT !.catalogBlocked = b], r)
           /\ \A s \in SUBSET [rev : 0..Catalogs, binding : Nat] :
                 Edited([r EXCEPT !.pendingCatalog = s], r)
           /\ \A n \in 0..Catalogs, d \in BOOLEAN, k \in BOOLEAN :
                 Edited([r EXCEPT !.seen = n, !.catalogDeferred = d, !.kick = k], r)
           /\ \A n \in 0..Catalogs :
                 Edited([r EXCEPT !.seen = n, !.eligibility = TRUE], r)
<1>1. \A b \in BOOLEAN : Edited([r EXCEPT !.catalogBlocked = b], r)
  BY DEF Allocations, SameCore, Edited
<1>2. \A s \in SUBSET [rev : 0..Catalogs, binding : Nat] :
          Edited([r EXCEPT !.pendingCatalog = s], r)
  BY DEF Allocations, SameCore, Edited
<1>3. \A n \in 0..Catalogs, d \in BOOLEAN, k \in BOOLEAN :
          Edited([r EXCEPT !.seen = n, !.catalogDeferred = d, !.kick = k], r)
  <2> TAKE n \in 0..Catalogs, d \in BOOLEAN, k \in BOOLEAN
  <2>1. PICK q : q = [r EXCEPT !.seen = n, !.catalogDeferred = d]
    OBVIOUS
  <2>2. Edited(q, r)
    BY <2>1 DEF Allocations, SameCore, Edited
  <2>3. Edited([q EXCEPT !.kick = k], q)
    BY <2>2 DEF Allocations, SameCore, Edited
  <2>4. [q EXCEPT !.kick = k] = [r EXCEPT !.seen = n, !.catalogDeferred = d, !.kick = k]
    BY <2>1
  <2> QED
    BY <2>2, <2>3, <2>4, EditedTwice
<1>4. \A n \in 0..Catalogs : Edited([r EXCEPT !.seen = n, !.eligibility = TRUE], r)
  BY DEF Allocations, SameCore, Edited
<1> QED
  BY <1>1, <1>2, <1>3, <1>4

LEMMA EditFlags ==
    ASSUME NEW r \in Allocations
    PROVE  /\ Edited([r EXCEPT !.eligibility = TRUE], r)
           /\ \A b \in BOOLEAN : Edited([r EXCEPT !.announced = b], r)
           /\ Edited([r EXCEPT !.binding = r.binding + 1, !.published = TRUE], r)
<1>1. Edited([r EXCEPT !.eligibility = TRUE], r)
  BY DEF Allocations, SameCore, Edited
<1>2. \A b \in BOOLEAN : Edited([r EXCEPT !.announced = b], r)
  BY DEF Allocations, SameCore, Edited
<1>3. \A n \in Nat : Edited([r EXCEPT !.binding = n, !.published = TRUE], r)
  BY DEF Allocations, SameCore, Edited
<1>4. r.binding + 1 \in Nat
  BY DEF Allocations
<1> QED
  BY <1>1, <1>2, <1>3, <1>4

\* The observation of the live catalogs leaves the committed generation alone.
LEMMA ObservationKeeps ==
    ASSUME NEW r \in Allocations, NEW n \in 0..Catalogs
    PROVE  Edited(CompleteObservation(r, n), r)
<1>1. r.catalogDeferred \in BOOLEAN /\ r.kick \in BOOLEAN
  BY DEF Allocations
<1>2. (r.kick \/ r.catalogDeferred) \in BOOLEAN
  OBVIOUS
<1> QED
  BY <1>1, <1>2, EditCatalog DEF CompleteObservation

\* The publication of live catalogs may give the allocation another binding, and
\* changes nothing of what is committed or staged.
LEMMA PublicationKeeps ==
    ASSUME NEW r \in Allocations, live \in 0..Catalogs, NEW q \in PublishCatalogs(r)
    PROVE  Edited(q, r)
<1>1. PICK clear : clear = [r EXCEPT !.catalogBlocked = FALSE]
  OBVIOUS
<1>2. PICK taken : taken = [clear EXCEPT !.pendingCatalog = {}]
  OBVIOUS
<1>3. PICK captured : captured = IF r.pendingCatalog = {} THEN [rev |-> live, binding |-> r.binding]
                                 ELSE CHOOSE p \in r.pendingCatalog : TRUE
  OBVIOUS
<1>4. captured \in [rev : 0..Catalogs, binding : Nat]
  <2>1. r.pendingCatalog \in SUBSET [rev : 0..Catalogs, binding : Nat] /\ r.binding \in Nat
    BY DEF Allocations
  <2> QED
    BY <1>3, <2>1
<1>5. clear \in Allocations /\ Edited(clear, r)
  BY <1>1, EditCatalog DEF Edited
<1>6. taken \in Allocations /\ Edited(taken, r)
  <2>1. Edited(taken, clear)
    BY <1>2, <1>5, EditCatalog
  <2> QED
    BY <1>5, <2>1, EditedTwice DEF Edited
<1>7. /\ Edited([taken EXCEPT !.eligibility = TRUE], r)
      /\ Edited(CompleteObservation(clear, live), r)
      /\ Edited(CompleteObservation(taken, live), r)
  BY <1>5, <1>6, EditFlags, EditedTwice, ObservationKeeps
<1>8. PICK done : done = [CompleteObservation(taken, captured.rev) EXCEPT !.announced = TRUE]
  OBVIOUS
<1>9. done \in Allocations /\ Edited(done, r)
  <2>1. captured.rev \in 0..Catalogs
    BY <1>4
  <2>2. PICK o : o = CompleteObservation(taken, captured.rev)
    OBVIOUS
  <2>3. o \in Allocations /\ Edited(o, r)
    BY <1>6, <2>1, <2>2, ObservationKeeps, EditedTwice DEF Edited
  <2>4. Edited([o EXCEPT !.announced = TRUE], o)
    BY <2>3, EditFlags
  <2> QED
    BY <1>8, <2>2, <2>3, <2>4, EditedTwice DEF Edited
<1>10. Edited([done EXCEPT !.binding = done.binding + 1, !.published = TRUE], r)
  BY <1>9, EditFlags, EditedTwice
<1>11. Edited([taken EXCEPT !.pendingCatalog = {captured}, !.catalogBlocked = TRUE], r)
  <2>1. Edited([taken EXCEPT !.pendingCatalog = {captured}, !.catalogBlocked = TRUE], taken)
    BY <1>4, <1>6 DEF Edited, SameCore, Allocations
  <2> QED
    BY <1>6, <2>1, EditedTwice
<1>12. q \in {clear, CompleteObservation(clear, live), CompleteObservation(taken, live),
              [taken EXCEPT !.eligibility = TRUE], done,
              [done EXCEPT !.binding = done.binding + 1, !.published = TRUE],
              [taken EXCEPT !.pendingCatalog = {captured}, !.catalogBlocked = TRUE]}
  BY <1>1, <1>2, <1>3, <1>8 DEF PublishCatalogs
<1> QED
  BY <1>5, <1>6, <1>7, <1>9, <1>10, <1>11, <1>12

-----------------------------------------------------------------------------
(* What a commit of the staged candidate may come to.                       *)

Bindings == [input : Inputs, binding : Nat]

\* Nothing is committed: no candidate, work of the old generation, or a held
\* boundary, for which the allocation then waits
Waits(c, r, kept) ==
    /\ c.rt.staged = r.staged /\ c.rt.config = r.config /\ c.rt.failed = r.failed
    /\ c.report = {} /\ c.retained = kept /\ ~c.lost
    /\ r.staged = {} \/ CommitBlocked(r) \/ c.rt.waiting

\* The candidate is gone, without a commit.
Dropped(c, r, kept, s) ==
    /\ c.rt.staged = {} /\ c.rt.config = r.config /\ c.rt.failed = r.failed
    /\ \E x \in {"Superseded", "Failed"} : c.report = {[id |-> s.id, outcome |-> x]}
    /\ c.retained = kept /\ ~c.lost

\* The candidate is committed and retained; a commit that cannot be recorded
\* fails the runtime.
Installed(c, r, s, desired) ==
    /\ s.id = desired
    /\ c.rt.staged = {} /\ c.rt.config = s.input
    /\ \E x \in {"Committed", "Uncertain"} : c.report = {[id |-> s.id, outcome |-> x]}
    /\ c.retained = [input |-> s.input, binding |-> c.rt.binding]
    /\ c.rt.failed <=> r.failed \/ c.lost

LEMMA CommitOutcomes ==
    ASSUME NEW r \in Allocations, NEW desired, NEW kept, NEW mayFail,
           NEW c \in CommitStaged(r, desired, kept, mayFail)
    PROVE  /\ c.rt \in Allocations /\ c.rt.alloc = r.alloc /\ c.rt.life = r.life
           /\ c.rt.attempt = r.attempt /\ c.rt.job = r.job /\ c.rt.seen = r.seen
           /\ c.lost \in BOOLEAN /\ (c.lost => mayFail)
           /\ \/ Waits(c, r, kept)
              \/ \E s \in r.staged : Dropped(c, r, kept, s) \/ Installed(c, r, s, desired)
<1>1. PICK clear : clear = [r EXCEPT !.waiting = FALSE]
  OBVIOUS
<1>2. clear \in Allocations /\ SameCore(clear, r) /\ clear.staged = r.staged
      /\ clear.seen = r.seen
  BY <1>1 DEF Allocations, SameCore
<1>3. PICK gone : gone = [clear EXCEPT !.staged = {}]
  OBVIOUS
<1>4. gone \in Allocations /\ SameCore(gone, r) /\ gone.staged = {} /\ gone.seen = r.seen
  BY <1>2, <1>3 DEF Allocations, SameCore
<1>5. ASSUME r.staged = {} \/ CommitBlocked(r),
             c = [rt |-> clear, report |-> {}, retained |-> kept, lost |-> FALSE]
      PROVE  c.rt = clear /\ ~c.lost /\ Waits(c, r, kept)
  BY <1>2, <1>5 DEF Waits, SameCore
<1>6. CASE r.staged = {}
  <2>1. c = [rt |-> clear, report |-> {}, retained |-> kept, lost |-> FALSE]
    BY <1>1, <1>6 DEF CommitStaged
  <2> QED
    BY <1>2, <1>5, <1>6, <2>1 DEF SameCore
<1>7. CASE r.staged # {}
  <2>1. PICK w : w = [clear EXCEPT !.waiting = TRUE]
    OBVIOUS
  <2>2. w \in Allocations /\ SameCore(w, r) /\ w.staged = r.staged /\ w.seen = r.seen /\ w.waiting
    BY <1>2, <2>1 DEF Allocations, SameCore
  <2> DEFINE clr == [r EXCEPT !.waiting = FALSE]
             gon == [clr EXCEPT !.staged = {}]
             same(x) == [rt |-> x, report |-> {}, retained |-> kept, lost |-> FALSE]
             ends(x, s, outcome) ==
                [same(x) EXCEPT !.report = {[id |-> s.id, outcome |-> outcome]}]
             install(s) == [gon EXCEPT !.config = s.input, !.binding = @ + 1, !.announced = TRUE]
             commits(x, s, outcome) ==
                [ends(x, s, outcome)
                    EXCEPT !.retained = [input |-> s.input, binding |-> x.binding]]
             results(s) ==
                IF Superseded(r, s, desired) THEN {ends(gon, s, "Superseded")}
                ELSE IF CommitBlocked(r) THEN {same(clr)}
                ELSE IF boundary THEN {same([clr EXCEPT !.waiting = TRUE])}
                ELSE {commits(install(s), s, "Committed")}
                     \cup (IF live > s.live THEN {ends(gon, s, "Failed")} ELSE {})
                     \cup (IF mayFail
                           THEN {[commits([install(s) EXCEPT !.failed = TRUE], s, "Uncertain")
                                     EXCEPT !.lost = TRUE]}
                           ELSE {})
  <2>a. CommitStaged(r, desired, kept, mayFail) = UNION {results(s) : s \in r.staged}
    BY <1>7 DEF CommitStaged
  <2>b. PICK s \in r.staged : c \in results(s)
    <3> HIDE DEF results
    <3> QED
      BY <2>a
  <2>3. \/ c = ends(gone, s, "Superseded")
        \/ CommitBlocked(r) /\ c = same(clear)
        \/ c = same(w)
        \/ s.id = desired /\ c = commits(install(s), s, "Committed")
        \/ c = ends(gone, s, "Failed")
        \/ /\ s.id = desired /\ mayFail
           /\ c = [commits([install(s) EXCEPT !.failed = TRUE], s, "Uncertain")
                     EXCEPT !.lost = TRUE]
    <3>1. gon = gone /\ clr = clear /\ [clr EXCEPT !.waiting = TRUE] = w
      BY <1>1, <1>3, <2>1
    <3> HIDE DEF same, ends, commits, install, gon, clr
    <3> QED
      BY <2>b, <3>1 DEF results, Superseded
  <2>4. CASE /\ CommitBlocked(r)
             /\ c = [rt |-> clear, report |-> {}, retained |-> kept, lost |-> FALSE]
    BY <1>2, <1>5, <2>4 DEF SameCore
  <2>5. CASE c = [rt |-> w, report |-> {}, retained |-> kept, lost |-> FALSE]
    BY <2>2, <2>5 DEF SameCore, Waits
  <2>6. ASSUME NEW x \in {"Superseded", "Failed"},
               c = [[rt |-> gone, report |-> {}, retained |-> kept, lost |-> FALSE]
                      EXCEPT !.report = {[id |-> s.id, outcome |-> x]}]
        PROVE  c.rt = gone /\ ~c.lost /\ Dropped(c, r, kept, s)
    BY <1>4, <2>6 DEF SameCore, Dropped
  <2>7. PICK i : i = install(s)
    OBVIOUS
  <2>8. /\ i \in Allocations /\ i.alloc = r.alloc /\ i.life = r.life /\ i.attempt = r.attempt
        /\ i.job = r.job /\ i.seen = r.seen /\ i.failed = r.failed
        /\ i.staged = {} /\ i.config = s.input
    <3>1. s.input \in Inputs
      BY DEF Allocations, Candidates
    <3>2. PICK n : n = gone.binding + 1
      OBVIOUS
    <3>3. n \in Nat
      BY <1>4, <3>2 DEF Allocations
    <3>4. PICK j : j = [gone EXCEPT !.config = s.input, !.binding = n]
      OBVIOUS
    <3>5. /\ j \in Allocations /\ j.alloc = r.alloc /\ j.life = r.life /\ j.attempt = r.attempt
          /\ j.job = r.job /\ j.seen = r.seen /\ j.failed = r.failed
          /\ j.staged = {} /\ j.config = s.input
      BY <1>4, <3>1, <3>3, <3>4 DEF Allocations, SameCore
    <3>6. i = [j EXCEPT !.announced = TRUE]
      BY <1>1, <1>3, <2>7, <3>2, <3>4
    <3> QED
      BY <3>5, <3>6 DEF Allocations
  <2>9. PICK f : f = [i EXCEPT !.failed = TRUE]
    OBVIOUS
  <2>10. /\ f \in Allocations /\ f.alloc = r.alloc /\ f.life = r.life /\ f.attempt = r.attempt
         /\ f.job = r.job /\ f.seen = r.seen /\ f.failed
         /\ f.staged = {} /\ f.config = s.input
    BY <2>8, <2>9 DEF Allocations
  <2>11. CASE s.id = desired /\
              c = [[[rt |-> i, report |-> {}, retained |-> kept, lost |-> FALSE]
                     EXCEPT !.report = {[id |-> s.id, outcome |-> "Committed"]}]
                     EXCEPT !.retained = [input |-> s.input, binding |-> i.binding]]
    <3>1. /\ c.rt = i /\ c.report = {[id |-> s.id, outcome |-> "Committed"]} /\ ~c.lost
          /\ c.lost \in BOOLEAN
          /\ c.retained = [input |-> s.input, binding |-> i.binding]
      BY <2>11
    <3>2. Installed(c, r, s, desired)
      BY <2>8, <2>11, <3>1 DEF Installed
    <3> QED
      BY <2>8, <3>1, <3>2
  <2>12. CASE s.id = desired /\ mayFail /\
              c = [[[[rt |-> f, report |-> {}, retained |-> kept, lost |-> FALSE]
                     EXCEPT !.report = {[id |-> s.id, outcome |-> "Uncertain"]}]
                     EXCEPT !.retained = [input |-> s.input, binding |-> f.binding]]
                     EXCEPT !.lost = TRUE]
    <3>1. /\ c.rt = f /\ c.report = {[id |-> s.id, outcome |-> "Uncertain"]} /\ c.lost
          /\ c.lost \in BOOLEAN
          /\ c.retained = [input |-> s.input, binding |-> f.binding]
      BY <2>12
    <3>2. Installed(c, r, s, desired)
      BY <2>10, <2>12, <3>1 DEF Installed
    <3> QED
      BY <2>10, <2>12, <3>1, <3>2
  <2>13. CASE \E x \in {"Superseded", "Failed"} :
                 c = [[rt |-> gone, report |-> {}, retained |-> kept, lost |-> FALSE]
                        EXCEPT !.report = {[id |-> s.id, outcome |-> x]}]
    BY <1>4, <2>6, <2>13 DEF SameCore
  <2> QED
    BY <2>3, <2>4, <2>5, <2>7, <2>9, <2>11, <2>12, <2>13
<1> QED
  BY <1>6, <1>7

-----------------------------------------------------------------------------
(* What the steps of the owner and of a commit do to the core.               *)

\* The core after a result of a commit
AfterCommit(o, p, rs, kept, c) ==
    /\ CoreOK(o, p, rs \cup c.report, c.rt.staged, c.retained)
    /\ rs \cup c.report \in SUBSET Reports
    /\ c.retained \in Bindings /\ c.rt.config = c.retained.input
    /\ c.retained.input \in {kept.input, o.input}

LEMMA CommitKeeps ==
    ASSUME NEW o \in OwnerStates, NEW p, NEW rs \in SUBSET Reports, NEW r \in Allocations,
           NEW kept \in Bindings, NEW mayFail,
           NEW c \in CommitStaged(r, o.desired, kept, mayFail),
           CoreOK(o, p, rs, r.staged, kept), r.config = kept.input
    PROVE  AfterCommit(o, p, rs, kept, c)
<1> USE DEF AfterCommit
<1>1. r.staged \in SUBSET Candidates /\ c.rt \in Allocations
  BY CommitOutcomes DEF Allocations
<1>2. \A s \in r.staged : s.id \in Nat /\ s.input \in Inputs
  BY <1>1 DEF Candidates
<1>3. CASE Waits(c, r, kept)
  BY <1>3 DEF Waits
<1>4. ASSUME NEW s \in r.staged, Dropped(c, r, kept, s)
      PROVE  AfterCommit(o, p, rs, kept, c)
  <2>1. PICK x \in {"Superseded", "Failed"} : c.report = {[id |-> s.id, outcome |-> x]}
    BY <1>4 DEF Dropped
  <2>2. c.rt.staged = {} /\ c.retained = kept /\ c.rt.config = r.config
    BY <1>4 DEF Dropped
  <2>3. [id |-> s.id, outcome |-> x] \in Reports
    BY <1>2 DEF Reports, Outcomes
  <2>4. IdentitiesOK(o, p, rs \cup c.report, {})
    BY <2>1 DEF CoreOK, IdentitiesOK
  <2>5. OnePlace(o, p, rs \cup c.report, {})
    BY <2>1 DEF CoreOK, OnePlace
  <2>6. Truth(o, p, rs \cup c.report, {}, kept)
    BY <2>1 DEF CoreOK, Truth
  <2> QED
    BY <2>1, <2>2, <2>3, <2>4, <2>5, <2>6 DEF CoreOK
<1>5. ASSUME NEW s \in r.staged, Installed(c, r, s, o.desired)
      PROVE  AfterCommit(o, p, rs, kept, c)
  <2>1. PICK x \in {"Committed", "Uncertain"} : c.report = {[id |-> s.id, outcome |-> x]}
    BY <1>5 DEF Installed
  <2>2. /\ c.rt.staged = {} /\ c.retained = [input |-> s.input, binding |-> c.rt.binding]
        /\ c.rt.config = s.input /\ s.id = o.desired
    BY <1>5 DEF Installed
  <2>3. [id |-> s.id, outcome |-> x] \in Reports
    BY <1>2 DEF Reports, Outcomes
  <2>4. c.retained \in Bindings /\ c.retained.input = s.input
    <3>1. c.rt.binding \in Nat
      BY <1>1 DEF Allocations
    <3> QED
      BY <1>2, <2>2, <3>1 DEF Bindings
  <2>5. s.input = o.input /\ ~Decided(o) /\ \A q \in rs : q.id # o.desired
    BY <2>2 DEF CoreOK, Truth, OnePlace
  <2>6. IdentitiesOK(o, p, rs \cup c.report, {})
    BY <2>1 DEF CoreOK, IdentitiesOK
  <2>7. OnePlace(o, p, rs \cup c.report, {})
    BY <2>1, <2>5 DEF CoreOK, OnePlace
  <2>8. Truth(o, p, rs \cup c.report, {}, c.retained)
    BY <2>1, <2>4, <2>5 DEF CoreOK, Truth
  <2> QED
    BY <2>1, <2>2, <2>3, <2>4, <2>5, <2>6, <2>7, <2>8 DEF CoreOK
<1> QED
  BY <1>3, <1>4, <1>5, CommitOutcomes

\* A new identity is queued, and every other one is in its past.
LEMMA DesireKeeps ==
    ASSUME NEW o \in OwnerStates, NEW p \in Preparations, NEW rs \in SUBSET Reports,
           NEW st \in SUBSET Candidates, NEW kept, NEW n \in Inputs,
           IdentitiesOK(o, p, rs, st), OnePlace(o, p, rs, st)
    PROVE  Desire(o, n) \in OwnerStates /\ CoreOK(Desire(o, n), p, rs, st, kept)
<1>1. o.desired \in Nat /\ p.id \in Nat /\ (\A s \in st : s.id \in Nat)
      /\ (\A r \in rs : r.id \in Nat)
  BY DEF OwnerStates, Preparations, Candidates, Reports
<1>2. PICK d : d = o.desired + 1
  OBVIOUS
<1>3. d \in Nat /\ d > o.desired
  BY <1>1, <1>2
<1>4. PICK q : q = Desire(o, n)
  OBVIOUS
<1>5. /\ q \in OwnerStates /\ q.desired = d /\ q.input = n /\ q.unit = "Preparing"
      /\ q.pending = {d} /\ q.provider = "Preparing"
  BY <1>2, <1>3, <1>4 DEF Desire, OwnerStates, Units
<1>6. /\ Taken(p) => p.id # d
      /\ \A s \in st : s.id <= d /\ s.id # d
      /\ \A r \in rs : r.id <= d /\ r.id # d
      /\ Taken(p) => p.id <= d
  BY <1>1, <1>3 DEF IdentitiesOK
<1>7. IdentitiesOK(q, p, rs, st)
  BY <1>5, <1>6 DEF IdentitiesOK
<1>8. OnePlace(q, p, rs, st)
  BY <1>5, <1>6 DEF OnePlace
<1>9. Truth(q, p, rs, st, kept)
  BY <1>5, <1>6 DEF Truth, Decided, CatalogDecided
<1> QED
  BY <1>4, <1>5, <1>7, <1>8, <1>9 DEF CoreOK

\* The owner may edit what is not about identities, and the worker may go on with
\* what it took or let go of it.
LEMMA EditKeeps ==
    ASSUME NEW o, NEW p, NEW rs, NEW st, NEW kept, NEW q, NEW w,
           CoreOK(o, p, rs, st, kept),
           q.desired = o.desired, q.input = o.input, q.pending = o.pending,
           Decided(q) => Decided(o),
           CatalogDecided(q) => CatalogDecided(o) /\ (o.deferred => q.deferred),
           Taken(w) => Taken(p) /\ w.id = p.id
    PROVE  CoreOK(q, w, rs, st, kept)
  BY DEF CoreOK, IdentitiesOK, OnePlace, Truth

\* The start of the worker takes no application.
LEMMA RunKeeps ==
    ASSUME NEW o, NEW p \in Preparations, NEW rs, NEW st, NEW kept,
           CoreOK(o, p, rs, st, kept)
    PROVE  /\ Run(p) \in Preparations /\ CoreOK(o, Run(p), rs, st, kept)
           /\ PreparationOK(p) => PreparationOK(Run(p))
<1>1. /\ Run(p) \in Preparations /\ Run(p).id = p.id
      /\ Taken(Run(p)) <=> Taken(p)
      /\ PreparationOK(p) => PreparationOK(Run(p))
  BY DEF Run, Preparations, Taken, PreparationOK
<1> QED
  BY <1>1, EditKeeps

\* An attached allocation settles an uncertain application as applied, at most.
LEMMA AttachKeeps ==
    ASSUME NEW o \in OwnerStates, NEW p, NEW rs, NEW st, NEW kept, NEW a \in 1..Loads,
           CoreOK(o, p, rs, st, kept)
    PROVE  /\ Attach(o, a) \in OwnerStates /\ CoreOK(Attach(o, a), p, rs, st, kept)
           /\ Attach(o, a).health = a /\ (CatalogDecided(Attach(o, a)) => CatalogDecided(o))
           /\ Attach(o, a).deferred = o.deferred /\ Attach(o, a).provider \in Units
           /\ Attach(o, a).desired = o.desired /\ Attach(o, a).input = o.input
           /\ Attach(o, a).pending = o.pending /\ Attach(o, a).stagedIn = o.stagedIn
<1>1. PICK q : q = Attach(o, a)
  OBVIOUS
<1>2. /\ q \in OwnerStates /\ q.health = a /\ q.desired = o.desired /\ q.input = o.input
      /\ q.pending = o.pending /\ q.stagedIn = o.stagedIn
      /\ q.unit \in {o.unit, "Applied"} /\ (q.unit # o.unit => o.unit = "Uncertain")
      /\ q.provider \in {o.provider, "Applied"}
      /\ q.provider # o.provider => o.provider = "Uncertain"
      /\ q.deferred = o.deferred /\ q.provider \in Units
  BY <1>1 DEF Attach, OwnerStates, Units
<1>3. (Decided(q) => Decided(o)) /\ (CatalogDecided(q) => CatalogDecided(o))
  BY <1>2 DEF Decided, CatalogDecided
<1> QED
  BY <1>1, <1>2, <1>3, EditKeeps

\* The queued application is taken.
LEMMA TakeKeeps ==
    ASSUME NEW o \in OwnerStates, NEW p, NEW rs, NEW st, NEW kept, NEW q, NEW w,
           CoreOK(o, p, rs, st, kept), ~Taken(p),
           NEW n \in o.pending,
           q.desired = o.desired, q.input = o.input, q.pending = {}, q.unit = o.unit,
           q.provider = o.provider, q.deferred = o.deferred, w.id = n
    PROVE  CoreOK(q, w, rs, st, kept)
<1>1. n = o.desired /\ o.desired \in Nat
  BY DEF CoreOK, IdentitiesOK, OwnerStates
<1>2. ~Decided(q) /\ ~Decided(o)
  BY DEF CoreOK, Truth, Decided
<1>3. IdentitiesOK(q, w, rs, st)
  BY <1>1 DEF CoreOK, IdentitiesOK
<1>4. OnePlace(q, w, rs, st)
  BY <1>1 DEF CoreOK, OnePlace
<1>5. Truth(q, w, rs, st, kept)
  BY <1>2 DEF CoreOK, Truth, CatalogDecided
<1> QED
  BY <1>3, <1>4, <1>5 DEF CoreOK

\* A taken application that is still desired is queued again.
LEMMA RequeueKeeps ==
    ASSUME NEW o, NEW p, NEW rs, NEW st, NEW kept, NEW q, NEW w,
           CoreOK(o, p, rs, st, kept), Taken(p), p.id = o.desired, ~Taken(w),
           q.desired = o.desired, q.input = o.input, q.pending = {p.id}, q.unit = o.unit,
           q.provider = o.provider, q.deferred = o.deferred
    PROVE  CoreOK(q, w, rs, st, kept)
<1>1. ~Decided(q) /\ ~Decided(o)
  BY DEF CoreOK, Truth, Decided
<1>2. IdentitiesOK(q, w, rs, st)
  BY DEF CoreOK, IdentitiesOK
<1>3. OnePlace(q, w, rs, st)
  BY DEF CoreOK, OnePlace
<1>4. Truth(q, w, rs, st, kept)
  BY <1>1 DEF CoreOK, Truth, CatalogDecided
<1> QED
  BY <1>2, <1>3, <1>4 DEF CoreOK

\* The taken application becomes the only candidate, and an earlier one is
\* superseded: it was desired before.
LEMMA StagingKeeps ==
    ASSUME NEW o, NEW p, NEW rs, NEW st \in SUBSET Candidates, NEW kept, NEW q, NEW w, NEW s,
           CoreOK(o, p, rs, st, kept), Taken(p), p.id = o.desired, ~Taken(w),
           q.desired = o.desired, q.input = o.input, q.pending = o.pending, q.unit = "Ready",
           CatalogDecided(q) => CatalogDecided(o), q.deferred = o.deferred,
           s.id = p.id, s.input = o.input
    PROVE  CoreOK(q, w, rs \cup {[id |-> e.id, outcome |-> "Superseded"] : e \in st}, {s}, kept)
<1>1. PICK es : es = {[id |-> e.id, outcome |-> "Superseded"] : e \in st}
  OBVIOUS
<1>2. ~Decided(q)
  BY DEF Decided
<1>3. \A e \in es : e.id <= o.desired /\ e.id # o.desired
  BY <1>1 DEF CoreOK, IdentitiesOK, OnePlace
<1>4. o.pending = {} /\ \A r \in rs : r.id # o.desired
  BY DEF CoreOK, OnePlace
<1>5. o.desired <= o.desired
  BY DEF CoreOK, IdentitiesOK
<1>6. IdentitiesOK(q, w, rs \cup es, {s})
  BY <1>3, <1>4, <1>5 DEF CoreOK, IdentitiesOK
<1>7. OnePlace(q, w, rs \cup es, {s})
  BY <1>3, <1>4 DEF CoreOK, OnePlace
<1>8. Truth(q, w, rs \cup es, {s}, kept)
  BY <1>2, <1>3, <1>4 DEF CoreOK, Truth
<1> QED
  BY <1>1, <1>6, <1>7, <1>8 DEF CoreOK

\* The publication of the model catalog decides the provider, and the whole
\* application when nothing else is left of it.
LEMMA CatalogKeeps ==
    ASSUME NEW o, NEW p, NEW rs, NEW st, NEW kept, NEW q, NEW w, NEW after,
           CoreOK(o, p, rs, st, kept), Taken(p), p.id = o.desired,
           q.desired = o.desired, q.input = o.input, q.pending = o.pending,
           Taken(w) => w.id = p.id,
           q.unit = o.unit \/ (~Taken(w) /\ after.input.context = o.input.context),
           after.input.models = o.input.models \/ q.deferred
    PROVE  CoreOK(q, w, rs, st, after)
<1>1. /\ o.pending = {} /\ (\A s \in st : s.id # o.desired) /\ (\A r \in rs : r.id # o.desired)
      /\ ~Decided(o)
  BY DEF CoreOK, OnePlace, Truth
<1>2. IdentitiesOK(q, w, rs, st)
  BY DEF CoreOK, IdentitiesOK
<1>3. OnePlace(q, w, rs, st)
  BY <1>1 DEF CoreOK, OnePlace
<1>4. Decided(q) => after.input.context = o.input.context /\ ~Taken(w)
  BY <1>1 DEF Decided
<1>5. Truth(q, w, rs, st, after)
  BY <1>1, <1>4 DEF Truth
<1> QED
  BY <1>2, <1>3, <1>5 DEF CoreOK

\* The owner after a report
AfterReport(q, o, p, rs, st, kept) ==
    /\ q \in OwnerStates /\ CoreOK(q, p, rs, st, kept)
    /\ q.input = o.input /\ q.health = o.health
    /\ CatalogDecided(q) => CatalogDecided(o) \/ kept.input = o.input

\* A report decides the application only when it is about the desired one.
LEMMA SettlementKeeps ==
    ASSUME NEW o \in OwnerStates, NEW p \in Preparations, NEW rs \in SUBSET Reports,
           NEW st \in SUBSET Candidates, NEW kept, NEW r \in rs,
           CoreOK(o, p, rs, st, kept)
    PROVE  AfterReport(Settled(o, r), o, p, rs \ {r}, st, kept)
<1> USE DEF AfterReport
<1>1. PICK q : q = [o EXCEPT !.stagedIn = {s \in o.stagedIn : s.id # r.id}]
  OBVIOUS
<1>2. /\ q \in OwnerStates /\ q.desired = o.desired /\ q.input = o.input
      /\ q.pending = o.pending /\ q.unit = o.unit /\ q.health = o.health
      /\ q.provider = o.provider /\ q.deferred = o.deferred
  BY <1>1 DEF OwnerStates
<1>a. PICK u : u = IF r.outcome = "Committed" THEN "Applied" ELSE r.outcome
  OBVIOUS
<1>b. PICK v : v = IF o.provider = "Ready" THEN u ELSE o.provider
  OBVIOUS
<1>3. Settled(o, r) = IF o.desired # r.id THEN q
                      ELSE IF r.outcome = "Superseded" THEN Desire(q, o.input)
                      ELSE [q EXCEPT !.unit = u, !.provider = v]
  <2>1. Settled(o, r) = IF o.desired # r.id THEN q
                        ELSE IF r.outcome = "Superseded" THEN Desire(q, o.input)
                        ELSE [q EXCEPT !.unit = u, !.provider = IF q.provider = "Ready" THEN u
                                                                ELSE q.provider]
    BY <1>1, <1>2, <1>a DEF Settled, OwnerStates
  <2> QED
    BY <1>2, <1>b, <2>1
<1>4. CoreOK(q, p, rs \ {r}, st, kept)
  BY <1>2 DEF CoreOK, IdentitiesOK, OnePlace, Truth, Decided, CatalogDecided
<1>5. CASE o.desired # r.id
  BY <1>2, <1>3, <1>4, <1>5 DEF CatalogDecided
<1>6. CASE o.desired = r.id /\ r.outcome = "Superseded"
  <2>1. o.input \in Inputs
    BY DEF OwnerStates
  <2>2. Desire(q, o.input) \in OwnerStates /\ CoreOK(Desire(q, o.input), p, rs \ {r}, st, kept)
    BY <1>2, <1>4, <2>1, DesireKeeps DEF CoreOK
  <2>3. /\ Desire(q, o.input).input = o.input /\ Desire(q, o.input).health = o.health
        /\ ~CatalogDecided(Desire(q, o.input))
    BY <1>2 DEF Desire, OwnerStates, CatalogDecided
  <2> QED
    BY <1>3, <1>6, <2>2, <2>3
<1>7. CASE o.desired = r.id /\ r.outcome # "Superseded"
  <2>1. o.provider \in Units
    BY DEF OwnerStates
  <2>2. /\ u \in Units /\ v \in Units
        /\ u \in {"Applied", "Uncertain"} => r.outcome \in {"Committed", "Uncertain"}
        /\ v = u \/ v = o.provider
    BY <1>7, <1>a, <1>b, <2>1 DEF Reports, Outcomes, Units
  <2>3. PICK z : z = [q EXCEPT !.unit = u, !.provider = v]
    OBVIOUS
  <2>4. /\ z \in OwnerStates /\ z.desired = o.desired /\ z.input = o.input
        /\ z.pending = o.pending /\ z.unit = u /\ z.health = o.health
        /\ z.provider = v /\ z.deferred = o.deferred
    BY <1>2, <2>2, <2>3 DEF OwnerStates
  <2>5. /\ o.pending = {} /\ ~(Taken(p) /\ p.id = o.desired)
        /\ \A s \in st : s.id # o.desired
        /\ \A x \in rs \ {r} : x.id # o.desired
    BY <1>7 DEF CoreOK, OnePlace
  <2>6. /\ Decided(z) => kept.input = o.input
        /\ CatalogDecided(z) => CatalogDecided(o) \/ kept.input = o.input
    BY <1>7, <2>2, <2>4 DEF CoreOK, Truth, Decided, CatalogDecided
  <2>7. IdentitiesOK(z, p, rs \ {r}, st) /\ OnePlace(z, p, rs \ {r}, st)
    BY <2>4, <2>5 DEF CoreOK, IdentitiesOK, OnePlace
  <2>8. Truth(z, p, rs \ {r}, st, kept)
    BY <2>4, <2>5, <2>6 DEF CoreOK, Truth
  <2> QED
    BY <1>3, <1>7, <2>3, <2>4, <2>6, <2>7, <2>8 DEF CoreOK
<1> QED
  BY <1>5, <1>6, <1>7

-----------------------------------------------------------------------------
(* Frames: what a step of each kind has to keep.                             *)

Usage == [captures : 0..Captures, messages : 0..Messages, crossings : 0..Crossings,
          records : 0..Records]

\* A step of the runtime that commits nothing
LEMMA RuntimeKeeps ==
    ASSUME ConfigurationInv, UNCHANGED <<owner, prep, reports, retained, unrecorded>>,
           rt' \in Allocations, rt'.alloc = rt.alloc, rt'.config = rt.config,
           rt'.failed = rt.failed, rt'.staged = rt.staged,
           resident' \in {0, resident}, attachDue' = attachDue, live' \in 0..Catalogs,
           boundary' \in BOOLEAN, work' \in Nat, used' \in Usage,
           used'.captures = used.captures
    PROVE  ConfigurationInv'
<1>1. TypeOK'
  BY DEF ConfigurationInv, TypeOK, Usage
<1>2. CoreOK(owner, prep, reports, rt.staged, retained)'
  BY DEF ConfigurationInv, CoreOK, IdentitiesOK, OnePlace, Truth, Taken, Decided,
         CatalogDecided
<1>3. AllocationInv'
  BY DEF ConfigurationInv, AllocationInv, TypeOK, AttachedOK, CatalogDecided, Within,
         PreparationOK
<1> QED
  BY <1>1, <1>2, <1>3 DEF ConfigurationInv

\* A step of the owner, which may clear a flag of the allocation or publish a model
\* catalog in it
LEMMA OwnerKeeps ==
    ASSUME ConfigurationInv, UNCHANGED <<resident, live, boundary, unrecorded, work>>,
           rt' \in Allocations, rt'.alloc = rt.alloc, rt'.config = retained'.input,
           rt'.failed = rt.failed, rt'.staged = rt.staged,
           owner' \in OwnerStates, prep' \in Preparations, reports' \in SUBSET Reports,
           retained' \in Bindings,
           attachDue' \in BOOLEAN, used' \in Usage, Within(owner'.input, used'.captures),
           PreparationOK(prep'),
           resident # 0 /\ ~attachDue' => AttachedOK(owner', retained', rt.alloc),
           CoreOK(owner', prep', reports', rt.staged, retained')
    PROVE  ConfigurationInv'
<1>1. CoreOK(owner, prep, reports, rt.staged, retained)'
  BY DEF CoreOK, IdentitiesOK, OnePlace, Truth, Taken, Decided, CatalogDecided
<1>2. TypeOK'
  <2>1. \A m, n \in owner'.pending : m = n
    BY DEF CoreOK, IdentitiesOK
  <2> QED
    BY <2>1 DEF ConfigurationInv, TypeOK, Usage, Bindings
<1>3. AllocationInv'
  BY DEF ConfigurationInv, AllocationInv, TypeOK, AttachedOK, CatalogDecided, Within,
         PreparationOK
<1> QED
  BY <1>1, <1>2, <1>3 DEF ConfigurationInv

\* A step of the runtime that tries to commit what it has staged
LEMMA CommitsKeep ==
    ASSUME ConfigurationInv, UNCHANGED <<owner, prep, resident, attachDue, live, boundary>>,
           work' \in Nat,
           NEW r \in Allocations, r.alloc = rt.alloc, r.config = rt.config,
           r.failed = rt.failed, r.staged = rt.staged,
           NEW c \in CommitResults(r), NEW next \in Allocations,
           next.alloc = c.rt.alloc, next.config = c.rt.config, next.failed = c.rt.failed,
           next.staged = c.rt.staged,
           Commits(c, next)
    PROVE  ConfigurationInv'
<1>a. PICK mayFail : mayFail = (used.records < Records)
  OBVIOUS
<1>1. c \in CommitStaged(r, owner.desired, retained, mayFail)
  BY <1>a DEF CommitResults
<1>2. /\ owner \in OwnerStates /\ reports \in SUBSET Reports /\ retained \in Bindings
      /\ used \in Usage /\ rt \in Allocations /\ unrecorded \in SUBSET (1..Loads)
      /\ CoreOK(owner, prep, reports, r.staged, retained) /\ r.config = retained.input
      /\ (\A a \in unrecorded : a <= rt.alloc) /\ (rt.alloc \in unrecorded => rt.failed)
  BY DEF ConfigurationInv, TypeOK, Bindings, Usage, AllocationInv
<1>3. /\ CoreOK(owner, prep, reports \cup c.report, c.rt.staged, c.retained)
      /\ reports \cup c.report \in SUBSET Reports
      /\ c.retained \in Bindings /\ c.rt.config = c.retained.input
      /\ c.retained.input \in {retained.input, owner.input}
  <2>1. AfterCommit(owner, prep, reports, retained, c)
    BY <1>1, <1>2, CommitKeeps
  <2> QED
    BY <2>1 DEF AfterCommit
<1>4. /\ c.rt.alloc = rt.alloc /\ c.lost \in BOOLEAN /\ (c.lost => used.records < Records)
      /\ c.rt.failed <=> rt.failed \/ c.lost
  <2>1. /\ c.rt.alloc = r.alloc /\ c.lost \in BOOLEAN /\ (c.lost => mayFail)
        /\ \/ Waits(c, r, retained)
           \/ \E s \in r.staged : Dropped(c, r, retained, s) \/ Installed(c, r, s, owner.desired)
    BY <1>1, CommitOutcomes
  <2> QED
    BY <1>a, <2>1 DEF Waits, Dropped, Installed
<1>5. /\ rt' = next /\ reports' = reports \cup c.report /\ retained' = c.retained
      /\ unrecorded' = IF c.lost THEN unrecorded \cup {rt.alloc} ELSE unrecorded
      /\ used' = IF c.lost THEN [used EXCEPT !.records = used.records + 1] ELSE used
  BY DEF Commits
<1>6. used' \in Usage /\ used'.captures = used.captures
  BY <1>2, <1>4, <1>5, ConfigurationAssumption DEF Usage
<1>7. /\ unrecorded' \in SUBSET (1..Loads)
      /\ \A a \in unrecorded' : a <= rt'.alloc
      /\ rt'.alloc \in unrecorded' => rt'.failed
  <2>1. rt.alloc \in 1..Loads
    BY <1>2 DEF Allocations
  <2> QED
    BY <1>2, <1>4, <1>5, <2>1, ConfigurationAssumption
<1>8. CoreOK(owner, prep, reports, rt.staged, retained)'
  BY <1>3, <1>5 DEF CoreOK, IdentitiesOK, OnePlace, Truth, Taken, Decided,
         CatalogDecided
<1>9. TypeOK'
  <2>1. \A s, t \in rt'.staged : s = t
    BY <1>3, <1>5 DEF CoreOK, OnePlace
  <2> QED
    BY <1>3, <1>4, <1>5, <1>6, <1>7, <2>1 DEF ConfigurationInv, TypeOK, Usage, Bindings
<1>10. AllocationInv'
  BY <1>3, <1>4, <1>5, <1>6, <1>7 DEF ConfigurationInv, AllocationInv, AttachedOK, CatalogDecided,
         Within, PreparationOK
<1> QED
  BY <1>8, <1>9, <1>10 DEF ConfigurationInv

-----------------------------------------------------------------------------
(* The edits of an allocation by its worker and its work.                    *)

Kept(q, r) ==
    /\ q \in Allocations /\ q.alloc = r.alloc /\ q.config = r.config
    /\ q.failed = r.failed /\ q.staged = r.staged

LEMMA KeptTwice ==
    ASSUME NEW p, NEW q, NEW r, Kept(p, q), Kept(q, r)
    PROVE  Kept(p, r)
  BY DEF Kept

PassPcs == {"pass", "admit", "check", "wait", "exited"}
JobStates == {"none", "active", "settled"}
LifeStates == {"running", "draining", "quiescent"}

\* One field at a time
LEMMA FieldEdits ==
    ASSUME NEW r \in Allocations
    PROVE  /\ \A v \in PassPcs : Kept([r EXCEPT !.pc = v], r)
           /\ \A v \in BOOLEAN : Kept([r EXCEPT !.admit = v], r)
           /\ \A v \in BOOLEAN : Kept([r EXCEPT !.blocked = v], r)
           /\ \A v \in BOOLEAN : Kept([r EXCEPT !.admissionDeferred = v], r)
           /\ \A v \in BOOLEAN : Kept([r EXCEPT !.catalogDeferred = v], r)
           /\ \A v \in BOOLEAN : Kept([r EXCEPT !.eligibility = v], r)
           /\ \A v \in BOOLEAN : Kept([r EXCEPT !.kick = v], r)
           /\ \A v \in 0..Catalogs : Kept([r EXCEPT !.watched = v], r)
           /\ \A v \in BOOLEAN : Kept([r EXCEPT !.attempt = v], r)
           /\ \A v \in JobStates : Kept([r EXCEPT !.job = v], r)
           /\ \A v \in BOOLEAN : Kept([r EXCEPT !.announced = v], r)
           /\ \A v \in BOOLEAN : Kept([r EXCEPT !.published = v], r)
           /\ \A v \in LifeStates : Kept([r EXCEPT !.life = v], r)
           /\ \A v \in {{}} : Kept([r EXCEPT !.pendingCatalog = v], r)
           /\ \A v \in BOOLEAN : Kept([r EXCEPT !.catalogBlocked = v], r)
<1>1. \A v \in PassPcs : Kept([r EXCEPT !.pc = v], r)
  BY DEF Allocations, Kept, PassPcs
<1>2. \A v \in BOOLEAN : Kept([r EXCEPT !.admit = v], r)
  BY DEF Allocations, Kept
<1>3. \A v \in BOOLEAN : Kept([r EXCEPT !.blocked = v], r)
  BY DEF Allocations, Kept
<1>4. \A v \in BOOLEAN : Kept([r EXCEPT !.admissionDeferred = v], r)
  BY DEF Allocations, Kept
<1>5. \A v \in BOOLEAN : Kept([r EXCEPT !.catalogDeferred = v], r)
  BY DEF Allocations, Kept
<1>6. \A v \in BOOLEAN : Kept([r EXCEPT !.eligibility = v], r)
  BY DEF Allocations, Kept
<1>7. \A v \in BOOLEAN : Kept([r EXCEPT !.kick = v], r)
  BY DEF Allocations, Kept
<1>8. \A v \in 0..Catalogs : Kept([r EXCEPT !.watched = v], r)
  BY DEF Allocations, Kept
<1>9. \A v \in BOOLEAN : Kept([r EXCEPT !.attempt = v], r)
  BY DEF Allocations, Kept
<1>10. \A v \in JobStates : Kept([r EXCEPT !.job = v], r)
  BY DEF Allocations, Kept, JobStates
<1>11. \A v \in BOOLEAN : Kept([r EXCEPT !.announced = v], r)
  BY DEF Allocations, Kept
<1>12. \A v \in BOOLEAN : Kept([r EXCEPT !.published = v], r)
  BY DEF Allocations, Kept
<1>13. \A v \in LifeStates : Kept([r EXCEPT !.life = v], r)
  BY DEF Allocations, Kept, LifeStates
<1>14. \A v \in {{}} : Kept([r EXCEPT !.pendingCatalog = v], r)
  BY DEF Allocations, Kept
<1>15. \A v \in BOOLEAN : Kept([r EXCEPT !.catalogBlocked = v], r)
  BY DEF Allocations, Kept
<1> QED
  BY <1>1, <1>2, <1>3, <1>4, <1>5, <1>6, <1>7, <1>8, <1>9, <1>10, <1>11, <1>12, <1>13, <1>14, <1>15

\* The edits of several fields that the actions make
LEMMA RecordEdits ==
    ASSUME NEW r \in Allocations
    PROVE  /\ \A u \in BOOLEAN, v \in BOOLEAN, w \in PassPcs :
                 Kept([r EXCEPT !.admissionDeferred = u, !.admit = v, !.pc = w], r)
           /\ \A u \in PassPcs, v \in BOOLEAN :
                 Kept([r EXCEPT !.pc = u, !.admit = v], r)
           /\ \A u \in BOOLEAN, v \in BOOLEAN :
                 Kept([r EXCEPT !.catalogDeferred = u, !.eligibility = v], r)
           /\ \A u \in PassPcs, v \in BOOLEAN :
                 Kept([r EXCEPT !.pc = u, !.blocked = v], r)
           /\ \A u \in BOOLEAN, v \in BOOLEAN, w \in BOOLEAN, x \in PassPcs :
                 Kept([r EXCEPT !.kick = u, !.admit = v, !.blocked = w, !.pc = x], r)
           /\ \A u \in BOOLEAN, v \in BOOLEAN, w \in PassPcs :
                 Kept([r EXCEPT !.eligibility = u, !.blocked = v, !.pc = w], r)
           /\ \A u \in BOOLEAN, v \in PassPcs :
                 Kept([r EXCEPT !.blocked = u, !.pc = v], r)
           /\ \A u \in 0..Catalogs, v \in BOOLEAN, w \in PassPcs :
                 Kept([r EXCEPT !.watched = u, !.blocked = v, !.pc = w], r)
           /\ \A u \in BOOLEAN, v \in JobStates, w \in BOOLEAN :
                 Kept([r EXCEPT !.attempt = u, !.job = v, !.kick = w], r)
           /\ \A u \in JobStates, v \in BOOLEAN :
                 Kept([r EXCEPT !.job = u, !.announced = v], r)
           /\ \A u \in LifeStates, v \in {{}}, w \in BOOLEAN, x \in BOOLEAN, y \in BOOLEAN :
                 Kept([r EXCEPT !.life = u, !.pendingCatalog = v, !.catalogBlocked = w, !.catalogDeferred = x, !.kick = y], r)
<1>1. \A u \in BOOLEAN, v \in BOOLEAN, w \in PassPcs :
          Kept([r EXCEPT !.admissionDeferred = u, !.admit = v, !.pc = w], r)
  <2> TAKE u \in BOOLEAN, v \in BOOLEAN, w \in PassPcs
  <2>1. PICK q1 : q1 = [r EXCEPT !.admissionDeferred = u]
    OBVIOUS
  <2>1a. Kept([r EXCEPT !.admissionDeferred = u], r)
    BY FieldEdits
  <2>2. q1 \in Allocations /\ Kept(q1, r)
    BY <2>1, <2>1a DEF Kept
  <2>3. PICK q2 : q2 = [q1 EXCEPT !.admit = v]
    OBVIOUS
  <2>3a. Kept([q1 EXCEPT !.admit = v], q1)
    BY <2>2, FieldEdits
  <2>4. q2 \in Allocations /\ Kept(q2, r)
    BY <2>3, <2>2, <2>3a, KeptTwice DEF Kept
  <2>5. PICK q3 : q3 = [q2 EXCEPT !.pc = w]
    OBVIOUS
  <2>5a. Kept([q2 EXCEPT !.pc = w], q2)
    BY <2>4, FieldEdits
  <2>6. q3 \in Allocations /\ Kept(q3, r)
    BY <2>5, <2>4, <2>5a, KeptTwice DEF Kept
  <2> QED
    BY <2>1, <2>3, <2>5, <2>6
<1>2. \A u \in PassPcs, v \in BOOLEAN :
          Kept([r EXCEPT !.pc = u, !.admit = v], r)
  <2> TAKE u \in PassPcs, v \in BOOLEAN
  <2>1. PICK q1 : q1 = [r EXCEPT !.pc = u]
    OBVIOUS
  <2>1a. Kept([r EXCEPT !.pc = u], r)
    BY FieldEdits
  <2>2. q1 \in Allocations /\ Kept(q1, r)
    BY <2>1, <2>1a DEF Kept
  <2>3. PICK q2 : q2 = [q1 EXCEPT !.admit = v]
    OBVIOUS
  <2>3a. Kept([q1 EXCEPT !.admit = v], q1)
    BY <2>2, FieldEdits
  <2>4. q2 \in Allocations /\ Kept(q2, r)
    BY <2>3, <2>2, <2>3a, KeptTwice DEF Kept
  <2> QED
    BY <2>1, <2>3, <2>4
<1>3. \A u \in BOOLEAN, v \in BOOLEAN :
          Kept([r EXCEPT !.catalogDeferred = u, !.eligibility = v], r)
  <2> TAKE u \in BOOLEAN, v \in BOOLEAN
  <2>1. PICK q1 : q1 = [r EXCEPT !.catalogDeferred = u]
    OBVIOUS
  <2>1a. Kept([r EXCEPT !.catalogDeferred = u], r)
    BY FieldEdits
  <2>2. q1 \in Allocations /\ Kept(q1, r)
    BY <2>1, <2>1a DEF Kept
  <2>3. PICK q2 : q2 = [q1 EXCEPT !.eligibility = v]
    OBVIOUS
  <2>3a. Kept([q1 EXCEPT !.eligibility = v], q1)
    BY <2>2, FieldEdits
  <2>4. q2 \in Allocations /\ Kept(q2, r)
    BY <2>3, <2>2, <2>3a, KeptTwice DEF Kept
  <2> QED
    BY <2>1, <2>3, <2>4
<1>4. \A u \in PassPcs, v \in BOOLEAN :
          Kept([r EXCEPT !.pc = u, !.blocked = v], r)
  <2> TAKE u \in PassPcs, v \in BOOLEAN
  <2>1. PICK q1 : q1 = [r EXCEPT !.pc = u]
    OBVIOUS
  <2>1a. Kept([r EXCEPT !.pc = u], r)
    BY FieldEdits
  <2>2. q1 \in Allocations /\ Kept(q1, r)
    BY <2>1, <2>1a DEF Kept
  <2>3. PICK q2 : q2 = [q1 EXCEPT !.blocked = v]
    OBVIOUS
  <2>3a. Kept([q1 EXCEPT !.blocked = v], q1)
    BY <2>2, FieldEdits
  <2>4. q2 \in Allocations /\ Kept(q2, r)
    BY <2>3, <2>2, <2>3a, KeptTwice DEF Kept
  <2> QED
    BY <2>1, <2>3, <2>4
<1>5. \A u \in BOOLEAN, v \in BOOLEAN, w \in BOOLEAN, x \in PassPcs :
          Kept([r EXCEPT !.kick = u, !.admit = v, !.blocked = w, !.pc = x], r)
  <2> TAKE u \in BOOLEAN, v \in BOOLEAN, w \in BOOLEAN, x \in PassPcs
  <2>1. PICK q1 : q1 = [r EXCEPT !.kick = u]
    OBVIOUS
  <2>1a. Kept([r EXCEPT !.kick = u], r)
    BY FieldEdits
  <2>2. q1 \in Allocations /\ Kept(q1, r)
    BY <2>1, <2>1a DEF Kept
  <2>3. PICK q2 : q2 = [q1 EXCEPT !.admit = v]
    OBVIOUS
  <2>3a. Kept([q1 EXCEPT !.admit = v], q1)
    BY <2>2, FieldEdits
  <2>4. q2 \in Allocations /\ Kept(q2, r)
    BY <2>3, <2>2, <2>3a, KeptTwice DEF Kept
  <2>5. PICK q3 : q3 = [q2 EXCEPT !.blocked = w]
    OBVIOUS
  <2>5a. Kept([q2 EXCEPT !.blocked = w], q2)
    BY <2>4, FieldEdits
  <2>6. q3 \in Allocations /\ Kept(q3, r)
    BY <2>5, <2>4, <2>5a, KeptTwice DEF Kept
  <2>7. PICK q4 : q4 = [q3 EXCEPT !.pc = x]
    OBVIOUS
  <2>7a. Kept([q3 EXCEPT !.pc = x], q3)
    BY <2>6, FieldEdits
  <2>8. q4 \in Allocations /\ Kept(q4, r)
    BY <2>7, <2>6, <2>7a, KeptTwice DEF Kept
  <2> QED
    BY <2>1, <2>3, <2>5, <2>7, <2>8
<1>6. \A u \in BOOLEAN, v \in BOOLEAN, w \in PassPcs :
          Kept([r EXCEPT !.eligibility = u, !.blocked = v, !.pc = w], r)
  <2> TAKE u \in BOOLEAN, v \in BOOLEAN, w \in PassPcs
  <2>1. PICK q1 : q1 = [r EXCEPT !.eligibility = u]
    OBVIOUS
  <2>1a. Kept([r EXCEPT !.eligibility = u], r)
    BY FieldEdits
  <2>2. q1 \in Allocations /\ Kept(q1, r)
    BY <2>1, <2>1a DEF Kept
  <2>3. PICK q2 : q2 = [q1 EXCEPT !.blocked = v]
    OBVIOUS
  <2>3a. Kept([q1 EXCEPT !.blocked = v], q1)
    BY <2>2, FieldEdits
  <2>4. q2 \in Allocations /\ Kept(q2, r)
    BY <2>3, <2>2, <2>3a, KeptTwice DEF Kept
  <2>5. PICK q3 : q3 = [q2 EXCEPT !.pc = w]
    OBVIOUS
  <2>5a. Kept([q2 EXCEPT !.pc = w], q2)
    BY <2>4, FieldEdits
  <2>6. q3 \in Allocations /\ Kept(q3, r)
    BY <2>5, <2>4, <2>5a, KeptTwice DEF Kept
  <2> QED
    BY <2>1, <2>3, <2>5, <2>6
<1>7. \A u \in BOOLEAN, v \in PassPcs :
          Kept([r EXCEPT !.blocked = u, !.pc = v], r)
  <2> TAKE u \in BOOLEAN, v \in PassPcs
  <2>1. PICK q1 : q1 = [r EXCEPT !.blocked = u]
    OBVIOUS
  <2>1a. Kept([r EXCEPT !.blocked = u], r)
    BY FieldEdits
  <2>2. q1 \in Allocations /\ Kept(q1, r)
    BY <2>1, <2>1a DEF Kept
  <2>3. PICK q2 : q2 = [q1 EXCEPT !.pc = v]
    OBVIOUS
  <2>3a. Kept([q1 EXCEPT !.pc = v], q1)
    BY <2>2, FieldEdits
  <2>4. q2 \in Allocations /\ Kept(q2, r)
    BY <2>3, <2>2, <2>3a, KeptTwice DEF Kept
  <2> QED
    BY <2>1, <2>3, <2>4
<1>8. \A u \in 0..Catalogs, v \in BOOLEAN, w \in PassPcs :
          Kept([r EXCEPT !.watched = u, !.blocked = v, !.pc = w], r)
  <2> TAKE u \in 0..Catalogs, v \in BOOLEAN, w \in PassPcs
  <2>1. PICK q1 : q1 = [r EXCEPT !.watched = u]
    OBVIOUS
  <2>1a. Kept([r EXCEPT !.watched = u], r)
    BY FieldEdits
  <2>2. q1 \in Allocations /\ Kept(q1, r)
    BY <2>1, <2>1a DEF Kept
  <2>3. PICK q2 : q2 = [q1 EXCEPT !.blocked = v]
    OBVIOUS
  <2>3a. Kept([q1 EXCEPT !.blocked = v], q1)
    BY <2>2, FieldEdits
  <2>4. q2 \in Allocations /\ Kept(q2, r)
    BY <2>3, <2>2, <2>3a, KeptTwice DEF Kept
  <2>5. PICK q3 : q3 = [q2 EXCEPT !.pc = w]
    OBVIOUS
  <2>5a. Kept([q2 EXCEPT !.pc = w], q2)
    BY <2>4, FieldEdits
  <2>6. q3 \in Allocations /\ Kept(q3, r)
    BY <2>5, <2>4, <2>5a, KeptTwice DEF Kept
  <2> QED
    BY <2>1, <2>3, <2>5, <2>6
<1>9. \A u \in BOOLEAN, v \in JobStates, w \in BOOLEAN :
          Kept([r EXCEPT !.attempt = u, !.job = v, !.kick = w], r)
  <2> TAKE u \in BOOLEAN, v \in JobStates, w \in BOOLEAN
  <2>1. PICK q1 : q1 = [r EXCEPT !.attempt = u]
    OBVIOUS
  <2>1a. Kept([r EXCEPT !.attempt = u], r)
    BY FieldEdits
  <2>2. q1 \in Allocations /\ Kept(q1, r)
    BY <2>1, <2>1a DEF Kept
  <2>3. PICK q2 : q2 = [q1 EXCEPT !.job = v]
    OBVIOUS
  <2>3a. Kept([q1 EXCEPT !.job = v], q1)
    BY <2>2, FieldEdits
  <2>4. q2 \in Allocations /\ Kept(q2, r)
    BY <2>3, <2>2, <2>3a, KeptTwice DEF Kept
  <2>5. PICK q3 : q3 = [q2 EXCEPT !.kick = w]
    OBVIOUS
  <2>5a. Kept([q2 EXCEPT !.kick = w], q2)
    BY <2>4, FieldEdits
  <2>6. q3 \in Allocations /\ Kept(q3, r)
    BY <2>5, <2>4, <2>5a, KeptTwice DEF Kept
  <2> QED
    BY <2>1, <2>3, <2>5, <2>6
<1>10. \A u \in JobStates, v \in BOOLEAN :
          Kept([r EXCEPT !.job = u, !.announced = v], r)
  <2> TAKE u \in JobStates, v \in BOOLEAN
  <2>1. PICK q1 : q1 = [r EXCEPT !.job = u]
    OBVIOUS
  <2>1a. Kept([r EXCEPT !.job = u], r)
    BY FieldEdits
  <2>2. q1 \in Allocations /\ Kept(q1, r)
    BY <2>1, <2>1a DEF Kept
  <2>3. PICK q2 : q2 = [q1 EXCEPT !.announced = v]
    OBVIOUS
  <2>3a. Kept([q1 EXCEPT !.announced = v], q1)
    BY <2>2, FieldEdits
  <2>4. q2 \in Allocations /\ Kept(q2, r)
    BY <2>3, <2>2, <2>3a, KeptTwice DEF Kept
  <2> QED
    BY <2>1, <2>3, <2>4
<1>11. \A u \in LifeStates, v \in {{}}, w \in BOOLEAN, x \in BOOLEAN, y \in BOOLEAN :
          Kept([r EXCEPT !.life = u, !.pendingCatalog = v, !.catalogBlocked = w, !.catalogDeferred = x, !.kick = y], r)
  <2> TAKE u \in LifeStates, v \in {{}}, w \in BOOLEAN, x \in BOOLEAN, y \in BOOLEAN
  <2>1. PICK q1 : q1 = [r EXCEPT !.life = u]
    OBVIOUS
  <2>1a. Kept([r EXCEPT !.life = u], r)
    BY FieldEdits
  <2>2. q1 \in Allocations /\ Kept(q1, r)
    BY <2>1, <2>1a DEF Kept
  <2>3. PICK q2 : q2 = [q1 EXCEPT !.pendingCatalog = v]
    OBVIOUS
  <2>3a. Kept([q1 EXCEPT !.pendingCatalog = v], q1)
    BY <2>2, FieldEdits
  <2>4. q2 \in Allocations /\ Kept(q2, r)
    BY <2>3, <2>2, <2>3a, KeptTwice DEF Kept
  <2>5. PICK q3 : q3 = [q2 EXCEPT !.catalogBlocked = w]
    OBVIOUS
  <2>5a. Kept([q2 EXCEPT !.catalogBlocked = w], q2)
    BY <2>4, FieldEdits
  <2>6. q3 \in Allocations /\ Kept(q3, r)
    BY <2>5, <2>4, <2>5a, KeptTwice DEF Kept
  <2>7. PICK q4 : q4 = [q3 EXCEPT !.catalogDeferred = x]
    OBVIOUS
  <2>7a. Kept([q3 EXCEPT !.catalogDeferred = x], q3)
    BY <2>6, FieldEdits
  <2>8. q4 \in Allocations /\ Kept(q4, r)
    BY <2>7, <2>6, <2>7a, KeptTwice DEF Kept
  <2>9. PICK q5 : q5 = [q4 EXCEPT !.kick = y]
    OBVIOUS
  <2>9a. Kept([q4 EXCEPT !.kick = y], q4)
    BY <2>8, FieldEdits
  <2>10. q5 \in Allocations /\ Kept(q5, r)
    BY <2>9, <2>8, <2>9a, KeptTwice DEF Kept
  <2> QED
    BY <2>1, <2>3, <2>5, <2>7, <2>9, <2>10
<1> QED
  BY <1>1, <1>2, <1>3, <1>4, <1>5, <1>6, <1>7, <1>8, <1>9, <1>10, <1>11

\* The operators of the admission worker
LEMMA ResumptionKeeps ==
    ASSUME NEW r \in Allocations
    PROVE  Kept(ResumeAdmission(r), r)
<1>1. r.admit \in BOOLEAN /\ r.waiting \in BOOLEAN /\ r.admissionDeferred \in BOOLEAN
  BY DEF Allocations
<1>2. PICK a : a = (r.admit \/ (~r.waiting /\ r.admissionDeferred))
  OBVIOUS
<1>3. PICK d : d = (r.admissionDeferred /\ r.waiting)
  OBVIOUS
<1>4. a \in BOOLEAN /\ d \in BOOLEAN
  BY <1>2, <1>3
<1>5. PICK x : x = IF a THEN "admit" ELSE "check"
  OBVIOUS
<1>6. x \in PassPcs
  BY <1>5 DEF PassPcs
<1>7. Kept([r EXCEPT !.admissionDeferred = d, !.admit = a, !.pc = x], r)
  BY <1>4, <1>6, RecordEdits
<1> QED
  BY <1>2, <1>3, <1>5, <1>7 DEF ResumeAdmission

LEMMA CheckedKeeps ==
    ASSUME NEW r \in Allocations
    PROVE  Kept(Checked(r), r) /\ Checked(r).attempt = r.attempt
<1>1. Kept(Checked(r), r)
  BY RecordEdits DEF Checked, PassPcs
<1>2. Checked(r).attempt = r.attempt
  BY DEF Checked, Allocations
<1> QED
  BY <1>1, <1>2

LEMMA AdmissionKeeps ==
    ASSUME NEW r \in Allocations
    PROVE  /\ Kept(Admitted(r), r)
           /\ Admitted(r).attempt /\ ~r.attempt =>
                 ~r.waiting /\ r.seen = live /\ ~r.failed /\ work > 0 /\ Admitted(r).seen = r.seen
<1>1. PICK q : q = Checked(r)
  OBVIOUS
<1>2. q \in Allocations /\ Kept(q, r) /\ q.attempt = r.attempt /\ q.seen = r.seen
  <2>1. Kept(q, r) /\ q.attempt = r.attempt
    BY <1>1, CheckedKeeps
  <2>2. q.seen = r.seen
    BY <1>1 DEF Checked, Allocations
  <2> QED
    BY <2>1, <2>2 DEF Kept
<1>3. /\ Kept([q EXCEPT !.admissionDeferred = TRUE], q)
      /\ Kept([q EXCEPT !.catalogDeferred = TRUE, !.eligibility = TRUE], q)
      /\ Kept([q EXCEPT !.attempt = TRUE], q)
  BY <1>2, FieldEdits, RecordEdits
<1>4. /\ [q EXCEPT !.admissionDeferred = TRUE].attempt = q.attempt
      /\ [q EXCEPT !.catalogDeferred = TRUE, !.eligibility = TRUE].attempt = q.attempt
      /\ [q EXCEPT !.attempt = TRUE].seen = q.seen
  BY <1>2 DEF Allocations
<1>5. Admitted(r) =
        IF r.waiting THEN [q EXCEPT !.admissionDeferred = TRUE]
        ELSE IF r.catalogBlocked \/ r.pendingCatalog # {} \/ r.seen # live
        THEN [q EXCEPT !.catalogDeferred = TRUE, !.eligibility = TRUE]
        ELSE IF ~r.failed /\ work > 0 THEN [q EXCEPT !.attempt = TRUE]
        ELSE q
  BY <1>1 DEF Admitted
<1>6. CASE r.waiting
  <2>1. Admitted(r) = [q EXCEPT !.admissionDeferred = TRUE]
    BY <1>5, <1>6
  <2> QED
    BY <1>2, <1>3, <1>4, <2>1, KeptTwice
<1>7. CASE ~r.waiting /\ (r.catalogBlocked \/ r.pendingCatalog # {} \/ r.seen # live)
  <2>1. Admitted(r) = [q EXCEPT !.catalogDeferred = TRUE, !.eligibility = TRUE]
    BY <1>5, <1>7
  <2> QED
    BY <1>2, <1>3, <1>4, <2>1, KeptTwice
<1>8. CASE ~r.waiting /\ ~(r.catalogBlocked \/ r.pendingCatalog # {} \/ r.seen # live)
  <2>1. CASE ~r.failed /\ work > 0
    <3>1. Admitted(r) = [q EXCEPT !.attempt = TRUE]
      BY <1>5, <1>8, <2>1
    <3> QED
      BY <1>2, <1>3, <1>4, <1>8, <2>1, <3>1, KeptTwice
  <2>2. CASE ~(~r.failed /\ work > 0)
    <3>1. Admitted(r) = q
      BY <1>5, <1>8, <2>2
    <3> QED
      BY <1>2, <3>1
  <2> QED
    BY <2>1, <2>2
<1> QED
  BY <1>6, <1>7, <1>8

-----------------------------------------------------------------------------
(* The actions of the runtime.                                               *)

LEMMA PassStep ==
    ASSUME ConfigurationInv, Pass
    PROVE  ConfigurationInv'
<1>1. rt \in Allocations /\ live \in 0..Catalogs /\ work \in Nat
  BY DEF ConfigurationInv, TypeOK
<1>2. PICK z : z = [rt EXCEPT !.announced = FALSE]
  OBVIOUS
<1>3. z \in Allocations /\ Edited(z, rt)
  BY <1>1, <1>2, EditFlags DEF Edited
<1>4. PICK r \in PublishCatalogs(z) :
         \E c \in CommitResults(r) : Commits(c, ResumeAdmission(c.rt))
  BY <1>2 DEF Pass
<1>5. PICK c \in CommitResults(r) : Commits(c, ResumeAdmission(c.rt))
  BY <1>4
<1>6. Edited(r, rt)
  BY <1>1, <1>3, <1>4, PublicationKeeps, EditedTwice
<1>7. /\ r \in Allocations /\ r.alloc = rt.alloc /\ r.config = rt.config
      /\ r.failed = rt.failed /\ r.staged = rt.staged
  BY <1>6 DEF Edited, SameCore
<1>8. c.rt \in Allocations
  BY <1>7, CommitOutcomes DEF CommitResults
<1>9. Kept(ResumeAdmission(c.rt), c.rt)
  BY <1>8, ResumptionKeeps
<1>10. UNCHANGED <<owner, prep, resident, attachDue, live, boundary>> /\ work' \in Nat
  BY <1>1 DEF Pass
<1> QED
  BY <1>5, <1>7, <1>9, <1>10, CommitsKeep DEF Kept

LEMMA AdmitStep ==
    ASSUME ConfigurationInv, AdmitNextAttempt
    PROVE  ConfigurationInv'
<1>1. rt \in Allocations /\ live \in 0..Catalogs /\ work \in Nat
  BY DEF ConfigurationInv, TypeOK
<1>2. UNCHANGED <<owner, prep, resident, attachDue, live, boundary>>
  BY DEF AdmitNextAttempt
<1>3. CASE rt.life = "running" /\ ~rt.attempt
  <2>1. PICK r \in PublishCatalogs(rt) :
           \E c \in CommitResults(r) : Commits(c, Admitted(c.rt))
    BY <1>3 DEF AdmitNextAttempt
  <2>2. PICK c \in CommitResults(r) : Commits(c, Admitted(c.rt))
    BY <2>1
  <2>3. Edited(r, rt)
    BY <1>1, <2>1, PublicationKeeps
  <2>4. /\ r \in Allocations /\ r.alloc = rt.alloc /\ r.config = rt.config
        /\ r.failed = rt.failed /\ r.staged = rt.staged /\ r.attempt = rt.attempt
    BY <2>3 DEF Edited, SameCore
  <2>5. c.rt \in Allocations /\ c.rt.attempt = rt.attempt
    BY <2>4, CommitOutcomes DEF CommitResults
  <2>6. Kept(Admitted(c.rt), c.rt)
    BY <2>5, AdmissionKeeps
  <2>7. work' \in Nat
    <3>1. rt' = Admitted(c.rt)
      BY <2>2 DEF Commits
    <3>2. rt'.attempt => work > 0
      BY <1>3, <2>5, <3>1, AdmissionKeeps
    <3>3. work' = IF rt'.attempt /\ ~rt.attempt THEN work - 1 ELSE work
      BY DEF AdmitNextAttempt
    <3> QED
      BY <1>1, <3>2, <3>3
  <2> QED
    BY <1>2, <2>2, <2>4, <2>6, <2>7, CommitsKeep DEF Kept
<1>4. CASE ~(rt.life = "running" /\ ~rt.attempt)
  <2>1. rt' = Checked(rt) /\ UNCHANGED <<reports, retained, unrecorded, used>>
    BY <1>4 DEF AdmitNextAttempt
  <2>2. Kept(rt', rt) /\ rt'.attempt = rt.attempt
    BY <1>1, <2>1, CheckedKeeps
  <2>3. work' = work
    BY <2>2 DEF AdmitNextAttempt
  <2>4. used' \in Usage /\ used'.captures = used.captures /\ boundary' \in BOOLEAN
    BY <1>2, <2>1 DEF ConfigurationInv, TypeOK, Usage
  <2> QED
    BY <1>1, <1>2, <2>1, <2>2, <2>3, <2>4, RuntimeKeeps DEF Kept
<1> QED
  BY <1>3, <1>4

LEMMA ExitStep ==
    ASSUME ConfigurationInv, Exit
    PROVE  ConfigurationInv'
<1>1. rt \in Allocations /\ work \in Nat
  BY DEF ConfigurationInv, TypeOK
<1>2. PICK c \in CommitResults(rt) : Commits(c, [c.rt EXCEPT !.pc = "exited"])
  BY DEF Exit
<1>3. c.rt \in Allocations
  BY <1>1, CommitOutcomes DEF CommitResults
<1>4. Kept([c.rt EXCEPT !.pc = "exited"], c.rt)
  BY <1>3, FieldEdits DEF PassPcs
<1>5. UNCHANGED <<owner, prep, resident, attachDue, live, boundary>> /\ work' \in Nat
  BY <1>1 DEF Exit
<1> QED
  BY <1>1, <1>2, <1>4, <1>5, CommitsKeep DEF Kept

\* The steps of the runtime that try no commit
LEMMA QuietStep ==
    ASSUME ConfigurationInv, Check \/ Wake \/ Accept \/ FinishAttempt \/ SettleJob
              \/ HoldBoundary \/ ReleaseBoundary \/ SourceReports \/ BeginDrain \/ Quiesce
    PROVE  ConfigurationInv'
<1>1. /\ rt \in Allocations /\ live \in 0..Catalogs /\ boundary \in BOOLEAN /\ work \in Nat
      /\ used \in Usage /\ resident \in {0, rt.alloc}
  BY DEF ConfigurationInv, TypeOK, Usage
<1>2. /\ rt.catalogBlocked \in BOOLEAN /\ rt.waiting \in BOOLEAN /\ rt.kick \in BOOLEAN
      /\ rt.job \in JobStates /\ rt.life \in LifeStates
  BY <1>1 DEF Allocations, JobStates, LifeStates
<1>3. Kept(rt, rt)
  BY <1>1 DEF Kept
<1>4. UNCHANGED <<owner, prep, reports, retained, unrecorded>> /\ attachDue' = attachDue
  BY DEF Check, Wake, Accept, FinishAttempt, SettleJob, HoldBoundary, ReleaseBoundary,
         SourceReports, BeginDrain, Quiesce, Runtime
<1>5. Kept(rt', rt)
  <2>1. CASE Check
    <3>1. PICK b : b = (rt.catalogBlocked \/ rt.waiting)
      OBVIOUS
    <3>2. b \in BOOLEAN /\ rt' = [rt EXCEPT !.pc = "wait", !.blocked = b]
      BY <1>2, <2>1, <3>1 DEF Check
    <3> QED
      BY <1>1, <3>2, RecordEdits DEF PassPcs
  <2>2. CASE Wake
    <3>1. \/ rt' = [rt EXCEPT !.kick = FALSE, !.admit = TRUE, !.blocked = FALSE, !.pc = "pass"]
          \/ rt' = [rt EXCEPT !.eligibility = FALSE, !.blocked = FALSE, !.pc = "pass"]
          \/ rt' = [rt EXCEPT !.blocked = FALSE, !.pc = "pass"]
          \/ rt' = [rt EXCEPT !.watched = live, !.blocked = FALSE, !.pc = "pass"]
      BY <2>2 DEF Wake
    <3>2. "pass" \in PassPcs
      BY DEF PassPcs
    <3>3. CASE rt' = [rt EXCEPT !.kick = FALSE, !.admit = TRUE, !.blocked = FALSE, !.pc = "pass"]
      BY <1>1, <3>2, <3>3, RecordEdits
    <3>4. CASE rt' = [rt EXCEPT !.eligibility = FALSE, !.blocked = FALSE, !.pc = "pass"]
      BY <1>1, <3>2, <3>4, RecordEdits
    <3>5. CASE rt' = [rt EXCEPT !.blocked = FALSE, !.pc = "pass"]
      BY <1>1, <3>2, <3>5, RecordEdits
    <3>6. CASE rt' = [rt EXCEPT !.watched = live, !.blocked = FALSE, !.pc = "pass"]
      BY <1>1, <3>2, <3>6, RecordEdits
    <3> QED
      BY <3>1, <3>3, <3>4, <3>5, <3>6
  <2>3. CASE Accept
    BY <1>1, <2>3, FieldEdits DEF Accept, Runtime
  <2>4. CASE FinishAttempt
    <3>1. PICK job \in {rt.job, "active"} :
             rt' = [rt EXCEPT !.attempt = FALSE, !.job = job, !.kick = TRUE]
      BY <2>4 DEF FinishAttempt, Runtime
    <3>2. job \in JobStates
      BY <1>2, <3>1 DEF JobStates
    <3> QED
      BY <1>1, <3>1, <3>2, RecordEdits
  <2>5. CASE SettleJob
    <3>1. \/ rt' = [rt EXCEPT !.job = "settled"]
          \/ rt' = [rt EXCEPT !.job = "none", !.announced = TRUE]
      BY <2>5 DEF SettleJob, Runtime
    <3> QED
      BY <1>1, <3>1, FieldEdits, RecordEdits DEF JobStates
  <2>6. CASE HoldBoundary \/ ReleaseBoundary \/ SourceReports
    BY <1>3, <2>6 DEF HoldBoundary, ReleaseBoundary, SourceReports, Runtime, Kept
  <2>7. CASE BeginDrain
    <3>1. rt' = [rt EXCEPT !.life = "draining", !.pendingCatalog = {}, !.catalogBlocked = FALSE,
                           !.catalogDeferred = FALSE, !.kick = TRUE]
      BY <2>7 DEF BeginDrain, Runtime
    <3> QED
      BY <1>1, <3>1, RecordEdits DEF LifeStates
  <2>8. CASE Quiesce
    <3>1. rt' = [rt EXCEPT !.life = "quiescent"]
      BY <2>8 DEF Quiesce, Runtime
    <3> QED
      BY <1>1, <3>1, FieldEdits DEF LifeStates
  <2> QED
    BY <2>1, <2>2, <2>3, <2>4, <2>5, <2>6, <2>7, <2>8
<1>6. resident' \in {0, resident}
  BY DEF Check, Wake, Accept, FinishAttempt, SettleJob, HoldBoundary, ReleaseBoundary,
         SourceReports, BeginDrain, Quiesce
<1>7. live' \in 0..Catalogs
  <2>1. CASE SourceReports
    BY <1>1, <2>1, ConfigurationAssumption DEF SourceReports
  <2> QED
    BY <1>1, <2>1 DEF Check, Wake, Accept, FinishAttempt, SettleJob, HoldBoundary,
         ReleaseBoundary, BeginDrain, Quiesce
<1>8. boundary' \in BOOLEAN
  BY <1>1 DEF Check, Wake, Accept, FinishAttempt, SettleJob, HoldBoundary, ReleaseBoundary,
         SourceReports, BeginDrain, Quiesce
<1>9. work' \in Nat
  <2>1. CASE Accept
    BY <1>1, <2>1 DEF Accept
  <2> QED
    BY <1>1, <2>1 DEF Check, Wake, FinishAttempt, SettleJob, HoldBoundary, ReleaseBoundary,
         SourceReports, BeginDrain, Quiesce
<1>10. used' \in Usage /\ used'.captures = used.captures
  <2>1. CASE Accept
    BY <1>1, <2>1, ConfigurationAssumption DEF Accept, Usage
  <2>2. CASE HoldBoundary
    BY <1>1, <2>2, ConfigurationAssumption DEF HoldBoundary, Usage
  <2>3. CASE used' = used
    BY <1>1, <2>3
  <2> QED
    BY <2>1, <2>2, <2>3 DEF Check, Wake, FinishAttempt, SettleJob, ReleaseBoundary,
         SourceReports, BeginDrain, Quiesce
<1> QED
  BY <1>4, <1>5, <1>6, <1>7, <1>8, <1>9, <1>10, RuntimeKeeps DEF Kept

\* A new allocation runs what the Session retains, and the owner does not know of
\* it yet.
LEMMA LoadStep ==
    ASSUME ConfigurationInv, Load
    PROVE  ConfigurationInv'
<1>1. /\ rt \in Allocations /\ live \in 0..Catalogs /\ retained \in Bindings
      /\ unrecorded \in SUBSET (1..Loads)
  BY DEF ConfigurationInv, TypeOK, Bindings
<1>2. PICK n : n = rt.alloc + 1
  OBVIOUS
<1>3. n \in 1..Loads /\ n > rt.alloc /\ n # 0
  BY <1>1, <1>2, ConfigurationAssumption DEF Load, Allocations
<1>4. rt' = Fresh(n, retained) /\ resident' = n /\ attachDue' = TRUE
      /\ UNCHANGED <<owner, prep, reports, retained, unrecorded, live, boundary, work, used>>
  BY <1>2 DEF Load, Runtime
<1>5. /\ rt' \in Allocations /\ rt'.alloc = n /\ rt'.config = retained.input
      /\ rt'.staged = {}
  BY <1>1, <1>3, <1>4 DEF Fresh, Allocations, Bindings
<1>6. TypeOK'
  BY <1>4, <1>5 DEF ConfigurationInv, TypeOK
<1>7. CoreOK(owner, prep, reports, rt.staged, retained)'
  BY <1>4, <1>5 DEF ConfigurationInv, CoreOK, IdentitiesOK, OnePlace, Truth, Taken, Decided,
         CatalogDecided
<1>8. AllocationInv'
  <2>1. \A a \in unrecorded : a <= n /\ a # n
    <3>1. \A a \in unrecorded : a <= rt.alloc
      BY DEF ConfigurationInv, AllocationInv
    <3>2. \A a \in unrecorded : a \in 1..Loads
      BY <1>1
    <3>3. rt.alloc \in 1..Loads
      BY <1>1 DEF Allocations
    <3> QED
      BY <1>3, <3>1, <3>2, <3>3
  <2> QED
    BY <1>4, <1>5, <2>1 DEF ConfigurationInv, AllocationInv, Within, PreparationOK
<1> QED
  BY <1>6, <1>7, <1>8 DEF ConfigurationInv

-----------------------------------------------------------------------------
(* The actions of the owner.                                                 *)

LEMMA CaptureStep ==
    ASSUME ConfigurationInv, Capture
    PROVE  ConfigurationInv'
<1>1. /\ owner \in OwnerStates /\ prep \in Preparations /\ reports \in SUBSET Reports
      /\ rt \in Allocations /\ rt.staged \in SUBSET Candidates /\ retained \in Bindings
      /\ used \in Usage /\ attachDue \in BOOLEAN
      /\ CoreOK(owner, prep, reports, rt.staged, retained)
  BY DEF ConfigurationInv, TypeOK, Allocations, Usage, Bindings
<1>2. PICK c \in {0, 1}, m \in {0, 1} :
         Owner(Desire(owner, [context |-> owner.input.context + c,
                              models |-> owner.input.models + m]), Run(prep))
  BY DEF Capture
<1>a. PICK input : input = [context |-> owner.input.context + c,
                            models |-> owner.input.models + m]
  OBVIOUS
<1>3. /\ owner' = Desire(owner, input) /\ prep' = Run(prep)
      /\ UNCHANGED <<reports, retained, attachDue, rt, unrecorded, resident, live, boundary, work>>
      /\ used.captures < Captures /\ used' = [used EXCEPT !.captures = used.captures + 1]
  BY <1>2, <1>a DEF Owner, Capture
<1>4. used' \in Usage /\ used'.captures = used.captures + 1
  BY <1>1, <1>3, ConfigurationAssumption DEF Usage
<1>5. input \in Inputs /\ Within(input, used'.captures)
  <2>1. /\ owner.input.context \in Nat /\ owner.input.models \in Nat
        /\ used.captures \in 0..Captures /\ Within(owner.input, used.captures)
    BY <1>1, ConfigurationAssumption DEF OwnerStates, Inputs, Usage, ConfigurationInv, AllocationInv
  <2>2. /\ input.context \in 0..Captures /\ input.context <= used'.captures
        /\ input.models \in 0..Captures /\ input.models <= used'.captures
    BY <1>2, <1>3, <1>4, <1>a, <2>1, ConfigurationAssumption DEF Within
  <2> QED
    BY <1>a, <2>2 DEF Inputs, Within
<1>6. Desire(owner, input) \in OwnerStates
      /\ CoreOK(Desire(owner, input), prep, reports, rt.staged, retained)
  BY <1>1, <1>5, DesireKeeps DEF CoreOK
<1>7. /\ Run(prep) \in Preparations
      /\ CoreOK(Desire(owner, input), Run(prep), reports, rt.staged, retained)
      /\ PreparationOK(prep) => PreparationOK(Run(prep))
  BY <1>1, <1>6, RunKeeps
<1>8. /\ Desire(owner, input).input = input /\ Desire(owner, input).health = owner.health
      /\ ~CatalogDecided(Desire(owner, input))
  BY <1>1 DEF Desire, OwnerStates, CatalogDecided
<1>9. PreparationOK(prep')
  BY <1>3, <1>7 DEF ConfigurationInv, AllocationInv
<1>10. resident # 0 /\ ~attachDue' => AttachedOK(owner', retained', rt.alloc)
  BY <1>3, <1>8 DEF ConfigurationInv, AllocationInv, AttachedOK
<1>11. rt'.config = retained'.input
  BY <1>3 DEF ConfigurationInv, AllocationInv
<1> QED
  BY <1>1, <1>3, <1>4, <1>5, <1>6, <1>7, <1>8, <1>9, <1>10, <1>11, OwnerKeeps

\* What the owner's steps share: a new owner state and worker with the same input
\* keep the invariant when they keep the core.
LEMMA OwnerStep ==
    ASSUME ConfigurationInv, UNCHANGED <<resident, live, boundary, unrecorded, work, used, retained>>,
           Kept(rt', rt),
           owner' \in OwnerStates, prep' \in Preparations, reports' \in SUBSET Reports,
           owner'.input = owner.input, attachDue' \in BOOLEAN,
           PreparationOK(prep'),
           resident # 0 /\ ~attachDue' => AttachedOK(owner', retained, rt.alloc),
           CoreOK(owner', prep', reports', rt.staged, retained)
    PROVE  ConfigurationInv'
<1>1. /\ used' \in Usage /\ Within(owner'.input, used'.captures) /\ retained' \in Bindings
      /\ rt'.config = retained'.input
  BY DEF ConfigurationInv, TypeOK, AllocationInv, Usage, Bindings, Kept
<1> QED
  BY <1>1, OwnerKeeps DEF Kept

LEMMA ReportStep ==
    ASSUME ConfigurationInv, NEW r \in reports, Report(r)
    PROVE  ConfigurationInv'
<1>1. /\ owner \in OwnerStates /\ prep \in Preparations /\ reports \in SUBSET Reports
      /\ rt \in Allocations /\ rt.staged \in SUBSET Candidates /\ attachDue \in BOOLEAN
      /\ CoreOK(owner, prep, reports, rt.staged, retained)
  BY DEF ConfigurationInv, TypeOK, Allocations
<1>2. PICK o : o = Settled(owner, r)
  OBVIOUS
<1>3. PICK p \in {prep, Run(prep)} : owner' = o /\ prep' = p
  BY <1>2 DEF Report, Owner
<1>4. /\ reports' = reports \ {r}
      /\ UNCHANGED <<resident, live, boundary, unrecorded, work, used, retained, attachDue, rt>>
  BY DEF Report, Owner
<1>5. /\ o \in OwnerStates /\ o.input = owner.input /\ o.health = owner.health
      /\ CoreOK(o, prep, reports \ {r}, rt.staged, retained)
      /\ CatalogDecided(o) => CatalogDecided(owner) \/ retained.input = owner.input
  <2>1. AfterReport(o, owner, prep, reports \ {r}, rt.staged, retained)
    BY <1>1, <1>2, SettlementKeeps
  <2> QED
    BY <2>1 DEF AfterReport
<1>6. /\ p \in Preparations /\ (PreparationOK(prep) => PreparationOK(p))
      /\ CoreOK(o, p, reports \ {r}, rt.staged, retained)
  BY <1>1, <1>3, <1>5, RunKeeps
<1>7. PreparationOK(prep')
  BY <1>3, <1>6 DEF ConfigurationInv, AllocationInv
<1>8. resident # 0 /\ ~attachDue' => AttachedOK(owner', retained, rt.alloc)
  BY <1>3, <1>4, <1>5 DEF ConfigurationInv, AllocationInv, AttachedOK
<1>9. reports' \in SUBSET Reports /\ Kept(rt', rt)
  BY <1>1, <1>4 DEF Kept
<1> QED
  BY <1>1, <1>3, <1>4, <1>5, <1>6, <1>7, <1>8, <1>9, OwnerStep

LEMMA ReboundKeeps ==
    ASSUME NEW o \in OwnerStates, NEW p \in Preparations, NEW rs \in SUBSET Reports,
           NEW st \in SUBSET Candidates, NEW kept, NEW a \in 1..Loads,
           CoreOK(o, p, rs, st, kept)
    PROVE  /\ Rebound(o, a) \in OwnerStates /\ CoreOK(Rebound(o, a), p, rs, st, kept)
           /\ Rebound(o, a).input = o.input /\ AttachedOK(Rebound(o, a), kept, a)
<1>1. PICK q : q = Attach(o, a)
  OBVIOUS
<1>2. /\ q \in OwnerStates /\ CoreOK(q, p, rs, st, kept)
      /\ q.health = a /\ q.input = o.input /\ q.deferred = o.deferred
  BY <1>1, AttachKeeps
<1>3. CASE Rebound(o, a) = q /\ ~o.deferred
  <2>1. AttachedOK(q, kept, a)
    BY <1>2, <1>3 DEF CoreOK, Truth, AttachedOK
  <2> QED
    BY <1>2, <1>3, <2>1
<1>4. ASSUME NEW s \in {{}, q.stagedIn},
             Rebound(o, a) = Desire([q EXCEPT !.deferred = FALSE, !.stagedIn = s], o.input)
      PROVE  /\ Rebound(o, a) \in OwnerStates /\ CoreOK(Rebound(o, a), p, rs, st, kept)
             /\ Rebound(o, a).input = o.input /\ AttachedOK(Rebound(o, a), kept, a)
  <2>1. PICK z : z = [q EXCEPT !.deferred = FALSE, !.stagedIn = s]
    OBVIOUS
  <2>2. /\ z \in OwnerStates /\ z.desired = q.desired
        /\ z.pending = q.pending /\ z.health = a
    BY <1>2, <1>4, <2>1 DEF OwnerStates
  <2>3. IdentitiesOK(z, p, rs, st) /\ OnePlace(z, p, rs, st)
    BY <1>2, <2>2 DEF CoreOK, IdentitiesOK, OnePlace
  <2>4. o.input \in Inputs
    BY DEF OwnerStates
  <2>5. Desire(z, o.input) \in OwnerStates /\ CoreOK(Desire(z, o.input), p, rs, st, kept)
    BY <2>2, <2>3, <2>4, DesireKeeps
  <2>6. /\ Desire(z, o.input).input = o.input /\ Desire(z, o.input).health = a
        /\ ~CatalogDecided(Desire(z, o.input))
    BY <2>2 DEF Desire, OwnerStates, CatalogDecided
  <2> QED
    BY <1>4, <2>1, <2>5, <2>6 DEF AttachedOK
<1>5. \/ Rebound(o, a) = q /\ ~o.deferred
      \/ \E s \in {{}, q.stagedIn} :
            Rebound(o, a) = Desire([q EXCEPT !.deferred = FALSE, !.stagedIn = s], o.input)
  BY <1>1 DEF Rebound
<1> QED
  BY <1>3, <1>4, <1>5

LEMMA RebindStep ==
    ASSUME ConfigurationInv, RebindRuntime
    PROVE  ConfigurationInv'
<1>1. /\ owner \in OwnerStates /\ prep \in Preparations /\ reports \in SUBSET Reports
      /\ rt \in Allocations /\ rt.staged \in SUBSET Candidates /\ resident \in {0, rt.alloc}
      /\ CoreOK(owner, prep, reports, rt.staged, retained) /\ rt.alloc \in 1..Loads
      /\ PreparationOK(prep)
  BY DEF ConfigurationInv, TypeOK, Allocations, AllocationInv
<1>2. /\ attachDue' = FALSE
      /\ UNCHANGED <<resident, live, boundary, unrecorded, work, used, retained, reports, rt>>
  BY DEF RebindRuntime, Owner
<1>3. reports' \in SUBSET Reports /\ Kept(rt', rt)
  BY <1>1, <1>2 DEF Kept
<1>4. CASE resident = rt.alloc
  <2>1. PICK o : o = Rebound(owner, rt.alloc)
    OBVIOUS
  <2>2. PICK p \in {prep, Run(prep)} : owner' = o /\ prep' = p
    BY <1>4, <2>1 DEF RebindRuntime, Owner
  <2>3. /\ o \in OwnerStates /\ o.input = owner.input /\ AttachedOK(o, retained, rt.alloc)
        /\ CoreOK(o, prep, reports, rt.staged, retained)
    BY <1>1, <2>1, ReboundKeeps
  <2>4. /\ p \in Preparations /\ (PreparationOK(prep) => PreparationOK(p))
        /\ CoreOK(o, p, reports, rt.staged, retained)
    BY <1>1, <2>2, <2>3, RunKeeps
  <2> QED
    BY <1>1, <1>2, <1>3, <2>2, <2>3, <2>4, OwnerStep
<1>5. CASE resident # rt.alloc
  <2>1. owner' = owner /\ prep' = prep /\ resident = 0
    BY <1>1, <1>5 DEF RebindRuntime, Owner
  <2> QED
    BY <1>1, <1>2, <1>3, <2>1, OwnerStep
<1> QED
  BY <1>4, <1>5

LEMMA RebaseStep ==
    ASSUME ConfigurationInv, RebaseCatalog
    PROVE  ConfigurationInv'
<1>1. /\ owner \in OwnerStates /\ prep \in Preparations /\ reports \in SUBSET Reports
      /\ rt \in Allocations /\ rt.staged \in SUBSET Candidates /\ retained \in Bindings
      /\ CoreOK(owner, prep, reports, rt.staged, retained) /\ rt.binding \in Nat
      /\ used \in Usage /\ Within(owner.input, used.captures) /\ attachDue \in BOOLEAN
      /\ owner.input \in Inputs /\ rt.config = retained.input
      /\ PreparationOK(prep)
      /\ resident # 0 /\ ~attachDue => AttachedOK(owner, retained, rt.alloc)
  BY DEF ConfigurationInv, TypeOK, Allocations, AllocationInv, Bindings, Usage, OwnerStates
<1>2. /\ rt' = [rt EXCEPT !.published = FALSE]
      /\ UNCHANGED <<reports, attachDue, unrecorded, used, resident, live, boundary, work>>
      /\ retained' \in {retained, [retained EXCEPT !.binding = rt.binding]}
      /\ \/ owner' = owner /\ prep' = prep
         \/ owner' = Desire(owner, owner.input) /\ prep' = Run(prep)
  BY DEF RebaseCatalog, Owner
<1>3. Kept(rt', rt)
  BY <1>1, <1>2, FieldEdits
<1>4. retained' \in Bindings /\ retained'.input = retained.input
  BY <1>1, <1>2 DEF Bindings
<1>5. /\ owner' \in OwnerStates /\ prep' \in Preparations
      /\ owner'.input = owner.input /\ owner'.health = owner.health
      /\ CatalogDecided(owner') => CatalogDecided(owner)
      /\ PreparationOK(prep')
      /\ CoreOK(owner', prep', reports, rt.staged, retained)
  <2>1. CASE owner' = owner /\ prep' = prep
    BY <1>1, <2>1 DEF CatalogDecided
  <2>2. CASE owner' = Desire(owner, owner.input) /\ prep' = Run(prep)
    <3>1. PICK o : o = Desire(owner, owner.input)
      OBVIOUS
    <3>2. o \in OwnerStates /\ CoreOK(o, prep, reports, rt.staged, retained)
      BY <1>1, <3>1, DesireKeeps DEF CoreOK
    <3>3. o.input = owner.input /\ o.health = owner.health /\ ~CatalogDecided(o)
      BY <1>1, <3>1 DEF Desire, OwnerStates, CatalogDecided
    <3>4. /\ Run(prep) \in Preparations /\ CoreOK(o, Run(prep), reports, rt.staged, retained)
          /\ PreparationOK(Run(prep))
      BY <1>1, <3>2, RunKeeps
    <3> QED
      BY <2>2, <3>1, <3>2, <3>3, <3>4
  <2> QED
    BY <1>2, <2>1, <2>2
<1>6. CoreOK(owner', prep', reports', rt.staged, retained')
  BY <1>2, <1>4, <1>5 DEF CoreOK, Truth
<1>7. resident # 0 /\ ~attachDue' => AttachedOK(owner', retained', rt.alloc)
  BY <1>1, <1>2, <1>4, <1>5 DEF AttachedOK
<1>8. rt'.config = retained'.input
  BY <1>1, <1>3, <1>4 DEF Kept
<1> QED
  BY <1>1, <1>2, <1>3, <1>4, <1>5, <1>6, <1>7, <1>8, OwnerKeeps DEF Kept

-----------------------------------------------------------------------------
(* The actions of the preparation worker.                                    *)

LEMMA PreparingStep ==
    ASSUME ConfigurationInv, NEW o \in OwnerStates, NEW p \in Preparations, Preparing(o, p),
           o.input = owner.input, PreparationOK(p),
           resident # 0 /\ ~attachDue => AttachedOK(o, retained, rt.alloc),
           CoreOK(o, p, reports, rt.staged, retained)
    PROVE  ConfigurationInv'
<1>1. rt \in Allocations /\ reports \in SUBSET Reports /\ attachDue \in BOOLEAN
  BY DEF ConfigurationInv, TypeOK
<1>2. /\ owner' = o /\ prep' = p
      /\ UNCHANGED <<resident, live, boundary, unrecorded, work, used, retained, reports,
                     attachDue, rt>>
  BY DEF Preparing, Owner
<1>3. reports' \in SUBSET Reports /\ Kept(rt', rt) /\ attachDue' \in BOOLEAN
  BY <1>1, <1>2 DEF Kept
<1> QED
  BY <1>2, <1>3, OwnerStep

LEMMA NoPreparationIsIdle ==
    NoPreparation \in Preparations /\ ~Taken(NoPreparation) /\ PreparationOK(NoPreparation)
<1>1. 0 \in 0..Loads /\ 0 \in 0..Catalogs
  BY ConfigurationAssumption
<1> QED
  BY <1>1 DEF NoPreparation, Preparations, Taken, PreparationOK

LEMMA RequeuedKeeps ==
    ASSUME ConfigurationInv, Current, Taken(prep), NEW w, ~Taken(w)
    PROVE  /\ Requeued \in OwnerStates /\ Requeued.input = owner.input
           /\ resident # 0 /\ ~attachDue => AttachedOK(Requeued, retained, rt.alloc)
           /\ CoreOK(Requeued, w, reports, rt.staged, retained)
<1>1. /\ owner \in OwnerStates /\ prep.id \in Nat
      /\ CoreOK(owner, prep, reports, rt.staged, retained)
  BY DEF ConfigurationInv, TypeOK, Preparations
<1>2. PICK q : q = Requeued
  OBVIOUS
<1>3. /\ q \in OwnerStates /\ q.input = owner.input /\ q.health = owner.health
      /\ q.desired = owner.desired /\ q.pending = {prep.id} /\ q.unit = owner.unit
      /\ q.provider = owner.provider /\ q.deferred = owner.deferred
  BY <1>1, <1>2 DEF Requeued, OwnerStates
<1>4. CoreOK(q, w, reports, rt.staged, retained)
  BY <1>1, <1>3, RequeueKeeps DEF Current
<1>5. resident # 0 /\ ~attachDue => AttachedOK(q, retained, rt.alloc)
  BY <1>3 DEF ConfigurationInv, AllocationInv, AttachedOK, CatalogDecided
<1> QED
  BY <1>2, <1>3, <1>4, <1>5

\* A failure decides nothing, and leaves what is decided alone.
LEMMA FailureKeeps ==
    ASSUME ConfigurationInv
    PROVE  /\ FailUnits \in OwnerStates /\ FailUnits.input = owner.input
           /\ resident # 0 /\ ~attachDue => AttachedOK(FailUnits, retained, rt.alloc)
           /\ CoreOK(FailUnits, NoPreparation, reports, rt.staged, retained)
<1>1. owner \in OwnerStates /\ CoreOK(owner, prep, reports, rt.staged, retained)
  BY DEF ConfigurationInv, TypeOK
<1>2. PICK u : u = IF owner.unit = "Preparing" THEN "Failed" ELSE owner.unit
  OBVIOUS
<1>3. PICK v : v = IF owner.provider = "Preparing" THEN "Failed" ELSE owner.provider
  OBVIOUS
<1>4. u \in Units /\ v \in Units
  BY <1>1, <1>2, <1>3 DEF OwnerStates, Units
<1>5. PICK o : o = [owner EXCEPT !.unit = u, !.provider = v]
  OBVIOUS
<1>6. FailUnits = o
  BY <1>2, <1>3, <1>5 DEF FailUnits
<1>7. /\ o \in OwnerStates /\ o.desired = owner.desired /\ o.input = owner.input
      /\ o.pending = owner.pending /\ o.unit = u /\ o.provider = v
      /\ o.health = owner.health /\ o.deferred = owner.deferred
  BY <1>1, <1>4, <1>5 DEF OwnerStates
<1>8. (Decided(o) => Decided(owner)) /\ (CatalogDecided(o) => CatalogDecided(owner))
  BY <1>2, <1>3, <1>7 DEF Decided, CatalogDecided
<1>9. CoreOK(o, NoPreparation, reports, rt.staged, retained)
  BY <1>1, <1>7, <1>8, NoPreparationIsIdle, EditKeeps
<1>10. resident # 0 /\ ~attachDue => AttachedOK(o, retained, rt.alloc)
  BY <1>7, <1>8 DEF ConfigurationInv, AllocationInv, AttachedOK
<1> QED
  BY <1>6, <1>7, <1>9, <1>10

\* The Provider unit settles on its own: what the runtime runs and the Session
\* retains stay the same, or a deferral is kept.
LEMMA ProviderStep ==
    ASSUME ConfigurationInv, SettleProvider
    PROVE  ConfigurationInv'
<1>1. /\ owner \in OwnerStates /\ prep \in Preparations /\ reports \in SUBSET Reports
      /\ rt \in Allocations /\ retained \in Bindings /\ used \in Usage
      /\ attachDue \in BOOLEAN /\ resident \in {0, rt.alloc}
      /\ CoreOK(owner, prep, reports, rt.staged, retained) /\ PreparationOK(prep)
      /\ rt.config = retained.input /\ Within(owner.input, used.captures)
      /\ resident # 0 /\ ~attachDue => AttachedOK(owner, retained, rt.alloc)
      /\ owner.input \in Inputs /\ retained.input \in Inputs /\ rt.binding \in Nat
      /\ owner.deferred \in BOOLEAN
  BY DEF ConfigurationInv, TypeOK, AllocationInv, Bindings, Usage, OwnerStates, Allocations
<1>2. Taken(prep) /\ prep.pc = "catalog"
  BY DEF SettleProvider, Taken
<1>3. CASE Preparing(owner, NoPreparation)
  <2>1. CoreOK(owner, NoPreparation, reports, rt.staged, retained)
    BY <1>1, NoPreparationIsIdle, EditKeeps
  <2> QED
    BY <1>1, <1>3, <2>1, NoPreparationIsIdle, PreparingStep
<1>4. CASE Preparing(owner, [prep EXCEPT !.pc = "baseline"])
  <2>1. PICK p : p = [prep EXCEPT !.pc = "baseline"]
    OBVIOUS
  <2>2. p \in Preparations /\ p.id = prep.id /\ PreparationOK(p)
    BY <1>1, <2>1 DEF Preparations, PreparationOK
  <2>3. CoreOK(owner, p, reports, rt.staged, retained)
    BY <1>1, <1>2, <2>2, EditKeeps
  <2> QED
    BY <1>1, <1>4, <2>1, <2>2, <2>3, PreparingStep
<1>5. CASE Preparing(FailUnits, NoPreparation)
  BY <1>5, FailureKeeps, NoPreparationIsIdle, PreparingStep
<1>6. PICK others : others = (owner.input.context = retained.input.context)
  OBVIOUS
<1>7. PICK same : same = (owner.input.models = retained.input.models)
  OBVIOUS
<1>8. PICK o : o = [owner EXCEPT !.provider = "Applied",
                                 !.unit = IF others THEN "Applied" ELSE owner.unit,
                                 !.deferred = AwaitsResidency(~same /\ resident = 0)]
  OBVIOUS
<1>9. PICK p : p = IF others THEN NoPreparation
                   ELSE [prep EXCEPT !.pc = "baseline", !.published = TRUE]
  OBVIOUS
<1>10. PICK config : config = [rt.config EXCEPT !.models = owner.input.models]
  OBVIOUS
<1>11. PICK n : n = rt.binding + 1
  OBVIOUS
<1>12. PICK q : q = [rt EXCEPT !.config = config, !.binding = n]
  OBVIOUS
<1>13. CASE /\ Current /\ Owner(o, p)
            /\ rt' = IF ~same /\ resident # 0 THEN q ELSE rt
            /\ retained' = IF ~same /\ resident # 0
                           THEN [input |-> q.config, binding |-> q.binding] ELSE retained
            /\ UNCHANGED <<reports, attachDue, unrecorded, used>>
  <2>1. /\ config \in Inputs /\ config.context = retained.input.context
        /\ config.models = owner.input.models
    BY <1>1, <1>10 DEF Inputs
  <2>2. /\ q \in Allocations /\ q.alloc = rt.alloc /\ q.failed = rt.failed
        /\ q.staged = rt.staged /\ q.config = config /\ q.binding = n /\ n \in Nat
    <3>1. n \in Nat
      BY <1>1, <1>11
    <3>2. PICK j : j = [rt EXCEPT !.config = config]
      OBVIOUS
    <3>3. /\ j \in Allocations /\ j.alloc = rt.alloc /\ j.failed = rt.failed
          /\ j.staged = rt.staged /\ j.config = config
      BY <1>1, <2>1, <3>2 DEF Allocations
    <3>4. q = [j EXCEPT !.binding = n]
      BY <1>12, <3>2
    <3> QED
      BY <3>1, <3>3, <3>4 DEF Allocations
  <2>3. /\ rt' \in Allocations /\ rt'.alloc = rt.alloc /\ rt'.failed = rt.failed
        /\ rt'.staged = rt.staged /\ rt'.config = retained'.input /\ retained' \in Bindings
        /\ retained'.input.context = retained.input.context
        /\ same \/ resident # 0 => retained'.input.models = owner.input.models
    <3>1. CASE ~same /\ resident # 0
      BY <1>13, <2>1, <2>2, <3>1 DEF Bindings
    <3>2. CASE same \/ resident = 0
      BY <1>1, <1>7, <1>13, <3>2
    <3> QED
      BY <3>1, <3>2
  <2>4. PICK u : u = IF others THEN "Applied" ELSE owner.unit
    OBVIOUS
  <2>5. PICK d : d = AwaitsResidency(~same /\ resident = 0)
    OBVIOUS
  <2>6. /\ u \in Units /\ d \in BOOLEAN /\ (~same /\ resident = 0 => d)
        /\ others \/ u = owner.unit
    BY <1>1, <2>4, <2>5 DEF OwnerStates, Units, AwaitsResidency
  <2>7. o = [owner EXCEPT !.provider = "Applied", !.unit = u, !.deferred = d]
    BY <1>8, <2>4, <2>5
  <2>8. /\ o \in OwnerStates /\ o.desired = owner.desired /\ o.input = owner.input
        /\ o.pending = owner.pending /\ o.unit = u /\ o.deferred = d /\ o.health = owner.health
    BY <1>1, <2>6, <2>7 DEF OwnerStates, Units
  <2>9. /\ p \in Preparations /\ PreparationOK(p) /\ (Taken(p) => p.id = prep.id)
        /\ others => ~Taken(p)
    <3>1. CASE others
      BY <1>9, <3>1, NoPreparationIsIdle
    <3>2. CASE ~others
      BY <1>1, <1>9, <3>2 DEF Preparations, PreparationOK
    <3> QED
      BY <3>1, <3>2
  <2>10. CoreOK(o, p, reports, rt.staged, retained')
    <3>1. o.unit = owner.unit \/ (~Taken(p) /\ retained'.input.context = owner.input.context)
      BY <1>6, <2>3, <2>6, <2>8, <2>9
    <3>2. retained'.input.models = owner.input.models \/ o.deferred
      BY <2>3, <2>6, <2>8
    <3> QED
      BY <1>1, <1>2, <1>13, <2>8, <2>9, <3>1, <3>2, CatalogKeeps DEF Current
  <2>11. resident # 0 /\ ~attachDue => AttachedOK(o, retained', rt.alloc)
    BY <1>1, <2>3, <2>8 DEF AttachedOK
  <2>12. /\ owner' = o /\ prep' = p /\ UNCHANGED <<resident, live, boundary, unrecorded, work>>
         /\ UNCHANGED <<reports, attachDue, used>>
    BY <1>13 DEF Owner
  <2> QED
    BY <1>1, <2>3, <2>8, <2>9, <2>10, <2>11, <2>12, OwnerKeeps
<1>14. \/ Preparing(owner, NoPreparation)
       \/ Preparing(owner, [prep EXCEPT !.pc = "baseline"])
       \/ Preparing(FailUnits, NoPreparation)
       \/ /\ Current /\ Owner(o, p)
          /\ rt' = IF ~same /\ resident # 0 THEN q ELSE rt
          /\ retained' = IF ~same /\ resident # 0
                         THEN [input |-> q.config, binding |-> q.binding] ELSE retained
          /\ UNCHANGED <<reports, attachDue, unrecorded, used>>
  BY <1>6, <1>7, <1>8, <1>9, <1>10, <1>11, <1>12 DEF SettleProvider
<1> QED
  BY <1>3, <1>4, <1>5, <1>13, <1>14

LEMMA PrepareStep ==
    ASSUME ConfigurationInv, PrepareNext \/ LookUp \/ Defer \/ Baseline \/ PrepareFails
    PROVE  ConfigurationInv'
<1>1. /\ owner \in OwnerStates /\ prep \in Preparations /\ rt \in Allocations
      /\ resident \in {0, rt.alloc} /\ rt.alloc \in 1..Loads /\ rt.binding \in Nat
      /\ live \in 0..Catalogs
      /\ CoreOK(owner, prep, reports, rt.staged, retained)
      /\ PreparationOK(prep)
      /\ resident # 0 /\ ~attachDue => AttachedOK(owner, retained, rt.alloc)
  BY DEF ConfigurationInv, TypeOK, Allocations, AllocationInv
<1>2. ASSUME NEW p \in Preparations, Preparing(owner, p), PreparationOK(p),
             Taken(p) => Taken(prep) /\ p.id = prep.id
      PROVE  ConfigurationInv'
  <2>1. CoreOK(owner, p, reports, rt.staged, retained)
    BY <1>1, <1>2, EditKeeps
  <2> QED
    BY <1>1, <1>2, <2>1, PreparingStep
<1>3. CASE Preparing(owner, NoPreparation)
  BY <1>2, <1>3, NoPreparationIsIdle
<1>4. CASE Current /\ Taken(prep) /\ Preparing(Requeued, NoPreparation)
  <2>1. /\ Requeued \in OwnerStates /\ Requeued.input = owner.input
        /\ resident # 0 /\ ~attachDue => AttachedOK(Requeued, retained, rt.alloc)
        /\ CoreOK(Requeued, NoPreparation, reports, rt.staged, retained)
    BY <1>4, NoPreparationIsIdle, RequeuedKeeps
  <2> QED
    BY <1>1, <1>4, <2>1, NoPreparationIsIdle, PreparingStep
<1>5. CASE PrepareNext
  <2>1. CASE owner.pending = {}
    <3>1. Preparing(owner, [prep EXCEPT !.pc = "off"])
      BY <1>5, <2>1 DEF PrepareNext
    <3>2. PICK p : p = [prep EXCEPT !.pc = "off"]
      OBVIOUS
    <3>3. p \in Preparations /\ ~Taken(p) /\ PreparationOK(p)
      BY <1>1, <3>2 DEF Preparations, Taken, PreparationOK
    <3> QED
      BY <1>1, <1>2, <3>1, <3>2, <3>3
  <2>2. CASE owner.pending # {}
    <3>1. PICK n \in owner.pending :
             Preparing([owner EXCEPT !.pending = {}], [prep EXCEPT !.pc = "lookup", !.id = n])
      BY <1>5, <2>2 DEF PrepareNext
    <3>2. n \in Nat
      BY <1>1 DEF OwnerStates
    <3>3. PICK o : o = [owner EXCEPT !.pending = {}]
      OBVIOUS
    <3>4. /\ o \in OwnerStates /\ o.desired = owner.desired /\ o.input = owner.input
          /\ o.pending = {} /\ o.unit = owner.unit /\ o.health = owner.health
          /\ o.provider = owner.provider /\ o.deferred = owner.deferred
      BY <1>1, <3>3 DEF OwnerStates
    <3>5. PICK p : p = [prep EXCEPT !.pc = "lookup", !.id = n]
      OBVIOUS
    <3>6. p \in Preparations /\ p.id = n /\ PreparationOK(p)
      BY <1>1, <3>2, <3>5 DEF Preparations, PreparationOK
    <3>7. ~Taken(prep)
      BY <1>5 DEF PrepareNext, Taken
    <3>8. CoreOK(o, p, reports, rt.staged, retained)
      BY <1>1, <3>1, <3>4, <3>6, <3>7, TakeKeeps
    <3>9. resident # 0 /\ ~attachDue => AttachedOK(o, retained, rt.alloc)
      BY <1>1, <3>4 DEF AttachedOK, CatalogDecided
    <3> QED
      BY <1>1, <3>1, <3>3, <3>4, <3>5, <3>6, <3>8, <3>9, PreparingStep
  <2> QED
    BY <2>1, <2>2
<1>6. CASE LookUp
  <2>1. CASE Current
    <3>1. PICK b : b = (resident # 0 /\ rt.life = "running")
      OBVIOUS
    <3>2. PICK p : p = [prep EXCEPT !.pc = "fence", !.alloc = resident, !.running = b]
      OBVIOUS
    <3>3. Preparing(owner, p)
      BY <1>6, <2>1, <3>1, <3>2 DEF LookUp
    <3>4. resident \in 0..Loads /\ b \in BOOLEAN /\ (b => resident # 0)
      <4>1. 0 \in 0..Loads /\ \A a \in 1..Loads : a \in 0..Loads
        BY ConfigurationAssumption
      <4> QED
        BY <1>1, <3>1, <4>1
    <3>5. p \in Preparations /\ p.id = prep.id /\ PreparationOK(p)
      BY <1>1, <3>2, <3>4 DEF Preparations, PreparationOK
    <3>6. Taken(prep)
      BY <1>6 DEF LookUp, Taken
    <3> QED
      BY <1>2, <3>3, <3>4, <3>5, <3>6
  <2>2. CASE ~Current
    BY <1>3, <1>6, <2>2 DEF LookUp
  <2> QED
    BY <2>1, <2>2
<1>8. CASE Defer
  <2>1. Taken(prep)
    BY <1>8 DEF Defer, Taken
  <2>2. CASE ~Current
    BY <1>3, <1>8, <2>2 DEF Defer
  <2>3. CASE Current /\ resident # prep.alloc
    BY <1>4, <1>8, <2>1, <2>3 DEF Defer
  <2>4. CASE Current /\ resident = prep.alloc
    <3>1. PICK o : o = [owner EXCEPT !.deferred = TRUE]
      OBVIOUS
    <3>2. Preparing(o, NoPreparation)
      BY <1>8, <2>4, <3>1 DEF Defer
    <3>3. /\ o \in OwnerStates /\ o.desired = owner.desired /\ o.input = owner.input
          /\ o.pending = owner.pending /\ o.unit = owner.unit /\ o.health = owner.health
          /\ o.provider = owner.provider /\ o.deferred
      BY <1>1, <3>1 DEF OwnerStates
    <3>4. CoreOK(o, NoPreparation, reports, rt.staged, retained)
      BY <1>1, <3>3, NoPreparationIsIdle, EditKeeps DEF Decided, CatalogDecided
    <3>5. resident # 0 /\ ~attachDue => AttachedOK(o, retained, rt.alloc)
      BY <1>1, <3>3 DEF AttachedOK, CatalogDecided
    <3> QED
      BY <1>1, <3>2, <3>3, <3>4, <3>5, NoPreparationIsIdle, PreparingStep
  <2> QED
    BY <2>2, <2>3, <2>4
<1>9. CASE Baseline
  <2>1. PICK p : p = [prep EXCEPT !.pc = "prepared", !.baseline = rt.binding, !.live = live]
    OBVIOUS
  <2>2. Preparing(owner, p) /\ Taken(prep) /\ prep.running
    BY <1>9, <2>1 DEF Baseline, Taken
  <2>3. p \in Preparations /\ p.id = prep.id /\ PreparationOK(p)
    BY <1>1, <2>1, <2>2 DEF Preparations, PreparationOK
  <2> QED
    BY <1>1, <1>2, <2>2, <2>3
<1>10. CASE PrepareFails
  <2>1. CASE ~Current
    BY <1>3, <1>10, <2>1 DEF PrepareFails
  <2>2. CASE Current
    <3>1. Preparing(FailUnits, NoPreparation)
      BY <1>10, <2>2 DEF PrepareFails
    <3> QED
      BY <3>1, FailureKeeps, NoPreparationIsIdle, PreparingStep
  <2> QED
    BY <2>1, <2>2
<1> QED
  BY <1>5, <1>6, <1>8, <1>9, <1>10

\* The fence attaches the owner to the allocation, whose change may be left
\* unrecorded.
LEMMA FenceStep ==
    ASSUME ConfigurationInv, Fence
    PROVE  ConfigurationInv'
<1>1. /\ owner \in OwnerStates /\ prep \in Preparations /\ reports \in SUBSET Reports
      /\ rt \in Allocations /\ retained \in Bindings /\ used \in Usage
      /\ resident \in {0, rt.alloc} /\ rt.alloc \in 1..Loads /\ rt.failed \in BOOLEAN
      /\ unrecorded \in SUBSET (1..Loads) /\ rt.config = retained.input
      /\ (\A a \in unrecorded : a <= rt.alloc) /\ (rt.alloc \in unrecorded => rt.failed)
      /\ Within(owner.input, used.captures)
      /\ CoreOK(owner, prep, reports, rt.staged, retained) /\ PreparationOK(prep)
      /\ resident # 0 /\ ~attachDue => AttachedOK(owner, retained, rt.alloc)
  BY DEF ConfigurationInv, TypeOK, Allocations, AllocationInv, Bindings, Usage
<1>2. Taken(prep)
  BY DEF Fence, Taken
<1>3. CASE Preparing(owner, NoPreparation)
  <2>1. CoreOK(owner, NoPreparation, reports, rt.staged, retained)
    BY <1>1, NoPreparationIsIdle, EditKeeps
  <2> QED
    BY <1>1, <1>3, <2>1, NoPreparationIsIdle, PreparingStep
<1>4. CASE Current /\ Preparing(Requeued, NoPreparation)
  <2>1. /\ Requeued \in OwnerStates /\ Requeued.input = owner.input
        /\ resident # 0 /\ ~attachDue => AttachedOK(Requeued, retained, rt.alloc)
        /\ CoreOK(Requeued, NoPreparation, reports, rt.staged, retained)
    BY <1>2, <1>4, NoPreparationIsIdle, RequeuedKeeps
  <2> QED
    BY <1>4, <2>1, NoPreparationIsIdle, PreparingStep
<1>5. ASSUME resident = prep.alloc, NEW lost \in BOOLEAN,
             lost => used.records < Records,
             rt' = [rt EXCEPT !.failed = rt.failed \/ lost],
             unrecorded' = IF lost THEN unrecorded \cup {rt.alloc} ELSE unrecorded,
             used' = IF lost THEN [used EXCEPT !.records = used.records + 1] ELSE used,
             Owner(IF prep.running THEN Attach(owner, prep.alloc) ELSE owner,
                   [prep EXCEPT !.pc = "catalog"]),
             UNCHANGED <<reports, retained, attachDue>>
      PROVE  ConfigurationInv'
  <2>1. PICK o : o = IF prep.running THEN Attach(owner, prep.alloc) ELSE owner
    OBVIOUS
  <2>2. PICK p : p = [prep EXCEPT !.pc = "catalog"]
    OBVIOUS
  <2>3. /\ owner' = o /\ prep' = p /\ UNCHANGED <<resident, live, boundary, work>>
    BY <1>5, <2>1, <2>2 DEF Owner
  <2>4. p \in Preparations /\ p.id = prep.id /\ PreparationOK(p)
    BY <1>1, <2>2 DEF Preparations, PreparationOK
  <2>5. CoreOK(owner, p, reports, rt.staged, retained)
    BY <1>1, <1>2, <2>4, EditKeeps
  <2>6. /\ o \in OwnerStates /\ o.input = owner.input
        /\ CoreOK(o, p, reports, rt.staged, retained)
        /\ resident # 0 /\ ~attachDue => AttachedOK(o, retained, rt.alloc)
    <3>1. CASE ~prep.running
      BY <1>1, <2>1, <2>5, <3>1
    <3>2. CASE prep.running
      <4>1. prep.alloc = rt.alloc
        BY <1>1, <1>5, <3>2 DEF PreparationOK
      <4>2. /\ o \in OwnerStates /\ CoreOK(o, p, reports, rt.staged, retained)
            /\ o.health = rt.alloc /\ o.input = owner.input
            /\ CatalogDecided(o) => CatalogDecided(owner)
        BY <1>1, <2>1, <2>5, <3>2, <4>1, AttachKeeps
      <4> QED
        BY <1>1, <4>2 DEF AttachedOK
    <3> QED
      BY <3>1, <3>2
  <2>7. PICK f : f = (rt.failed \/ lost)
    OBVIOUS
  <2>8. /\ f \in BOOLEAN /\ rt' = [rt EXCEPT !.failed = f]
    BY <1>1, <1>5, <2>7
  <2>9. /\ rt' \in Allocations /\ rt'.alloc = rt.alloc /\ rt'.config = rt.config
        /\ rt'.staged = rt.staged /\ rt'.failed = f
    BY <1>1, <2>8 DEF Allocations
  <2>10. used' \in Usage /\ used'.captures = used.captures
    BY <1>1, <1>5, ConfigurationAssumption DEF Usage
  <2>11. /\ unrecorded' \in SUBSET (1..Loads)
         /\ \A a \in unrecorded' : a <= rt'.alloc
         /\ rt'.alloc \in unrecorded' => rt'.failed
    BY <1>1, <1>5, <2>7, <2>9, ConfigurationAssumption
  <2>12. CoreOK(owner, prep, reports, rt.staged, retained)'
    BY <1>5, <2>3, <2>6, <2>9
  <2>13. TypeOK'
    <3>1. (\A x, y \in rt'.staged : x = y) /\ (\A x, y \in owner'.pending : x = y)
      BY <2>12 DEF CoreOK, OnePlace, IdentitiesOK
    <3> QED
      BY <1>1, <1>5, <2>3, <2>4, <2>6, <2>9, <2>10, <2>11, <3>1
         DEF ConfigurationInv, TypeOK, Usage, Bindings
  <2>14. AllocationInv'
    BY <1>1, <1>5, <2>3, <2>4, <2>6, <2>9, <2>10, <2>11
       DEF AllocationInv, AttachedOK, CatalogDecided, Within, PreparationOK
  <2> QED
    BY <2>12, <2>13, <2>14 DEF ConfigurationInv
<1>6. CASE Current /\ resident = prep.alloc
  <2>1. PICK lost \in BOOLEAN :
          /\ lost => used.records < Records
          /\ rt' = [rt EXCEPT !.failed = rt.failed \/ lost]
          /\ unrecorded' = IF lost THEN unrecorded \cup {rt.alloc} ELSE unrecorded
          /\ used' = IF lost THEN [used EXCEPT !.records = used.records + 1] ELSE used
          /\ Owner(IF prep.running THEN Attach(owner, prep.alloc) ELSE owner,
                   [prep EXCEPT !.pc = "catalog"])
          /\ UNCHANGED <<reports, retained, attachDue>>
    BY <1>6 DEF Fence
  <2> QED
    BY <1>5, <1>6, <2>1
<1> QED
  BY <1>3, <1>4, <1>6 DEF Fence

\* Staging makes the prepared application the candidate, and commits it at once
\* when it may.
LEMMA StageStep ==
    ASSUME ConfigurationInv, Stage
    PROVE  ConfigurationInv'
<1>1. /\ owner \in OwnerStates /\ prep \in Preparations /\ reports \in SUBSET Reports
      /\ rt \in Allocations /\ rt.staged \in SUBSET Candidates /\ retained \in Bindings
      /\ used \in Usage /\ unrecorded \in SUBSET (1..Loads) /\ rt.alloc \in 1..Loads
      /\ resident \in {0, rt.alloc} /\ rt.config = retained.input
      /\ CoreOK(owner, prep, reports, rt.staged, retained) /\ PreparationOK(prep)
      /\ (\A a \in unrecorded : a <= rt.alloc) /\ (rt.alloc \in unrecorded => rt.failed)
      /\ Within(owner.input, used.captures)
      /\ resident # 0 /\ ~attachDue => AttachedOK(owner, retained, rt.alloc)
  BY DEF ConfigurationInv, TypeOK, Allocations, AllocationInv, Bindings, Usage
<1>2. Taken(prep) /\ prep.pc = "prepared"
  BY DEF Stage, Taken
<1>3. CASE ~(Current /\ resident = prep.alloc)
  <2>1. CASE Current
    <3>1. Preparing(Requeued, NoPreparation)
      BY <1>3, <2>1 DEF Stage
    <3>2. /\ Requeued \in OwnerStates /\ Requeued.input = owner.input
          /\ resident # 0 /\ ~attachDue => AttachedOK(Requeued, retained, rt.alloc)
          /\ CoreOK(Requeued, NoPreparation, reports, rt.staged, retained)
      BY <1>2, <2>1, NoPreparationIsIdle, RequeuedKeeps
    <3> QED
      BY <1>1, <3>1, <3>2, NoPreparationIsIdle, PreparingStep
  <2>2. CASE ~Current
    <3>1. Preparing(owner, NoPreparation)
      BY <1>3, <2>2 DEF Stage
    <3>2. CoreOK(owner, NoPreparation, reports, rt.staged, retained)
      BY <1>1, NoPreparationIsIdle, EditKeeps
    <3> QED
      BY <1>1, <3>1, <3>2, NoPreparationIsIdle, PreparingStep
  <2> QED
    BY <2>1, <2>2
<1>4. CASE Current /\ resident = prep.alloc
  <2>1. prep.alloc = rt.alloc
    BY <1>1, <1>2, <1>4 DEF PreparationOK
  <2>2. PICK s : s = [id |-> prep.id, input |-> owner.input, baseline |-> prep.baseline,
                      live |-> prep.live]
    OBVIOUS
  <2>3. s \in Candidates /\ s.id = prep.id /\ s.input = owner.input
    BY <1>1, <2>2 DEF Candidates, OwnerStates, Preparations
  <2>4. PICK es : es = {[id |-> e.id, outcome |-> "Superseded"] : e \in rt.staged}
    OBVIOUS
  <2>5. es \in SUBSET Reports
    BY <1>1, <2>4 DEF Candidates, Reports, Outcomes
  <2>6. PICK r : r = [rt EXCEPT !.staged = {s}]
    OBVIOUS
  <2>7. /\ r \in Allocations /\ r.staged = {s} /\ r.alloc = rt.alloc /\ r.config = rt.config
        /\ r.failed = rt.failed
    BY <1>1, <2>3, <2>6 DEF Allocations
  <2>8. PICK mayFail : mayFail = (used.records < Records)
    OBVIOUS
  <2>9. PICK c \in CommitStaged(r, owner.desired, retained, mayFail) :
          /\ rt' = [c.rt EXCEPT !.eligibility = TRUE]
          /\ reports' = reports \cup es \cup c.report
          /\ retained' = c.retained
          /\ unrecorded' = IF c.lost THEN unrecorded \cup {rt.alloc} ELSE unrecorded
          /\ used' = IF c.lost THEN [used EXCEPT !.records = used.records + 1] ELSE used
    BY <1>4, <2>2, <2>4, <2>6, <2>8 DEF Stage
  <2>10. PICK a : a = Attach(owner, prep.alloc)
    OBVIOUS
  <2>b. PICK v : v = IF prep.published THEN a.provider ELSE "Ready"
    OBVIOUS
  <2>11. PICK o : o = [a EXCEPT !.unit = "Ready", !.provider = v,
                                !.stagedIn = {[alloc |-> prep.alloc, id |-> prep.id]}]
    OBVIOUS
  <2>12. /\ owner' = o /\ prep' = NoPreparation
         /\ UNCHANGED <<resident, live, boundary, work, attachDue>>
    BY <1>4, <2>10, <2>b, <2>11 DEF Stage, Owner
  <2>13. /\ a \in OwnerStates /\ a.health = rt.alloc
         /\ a.desired = owner.desired /\ a.input = owner.input /\ a.pending = owner.pending
         /\ a.deferred = owner.deferred /\ (CatalogDecided(a) => CatalogDecided(owner))
         /\ a.provider \in Units
    BY <1>1, <2>1, <2>10, AttachKeeps
  <2>14. /\ o \in OwnerStates /\ o.health = rt.alloc /\ o.unit = "Ready"
         /\ o.desired = owner.desired /\ o.input = owner.input /\ o.pending = owner.pending
         /\ o.deferred = owner.deferred /\ (CatalogDecided(o) => CatalogDecided(owner))
    <3>1. {[alloc |-> prep.alloc, id |-> prep.id]} \in SUBSET [alloc : 1..Loads, id : Nat]
      BY <1>1, <2>1 DEF Preparations
    <3>2. v \in Units /\ (v \in {"Applied", "Uncertain"} => v = a.provider)
      BY <2>13, <2>b DEF Units
    <3>3. /\ o \in OwnerStates /\ o.health = rt.alloc /\ o.unit = "Ready" /\ o.provider = v
          /\ o.desired = owner.desired /\ o.input = owner.input /\ o.pending = owner.pending
          /\ o.deferred = owner.deferred
      BY <2>11, <2>13, <3>1, <3>2 DEF OwnerStates, Units
    <3> QED
      BY <2>13, <3>2, <3>3 DEF CatalogDecided
  <2>15. CoreOK(o, NoPreparation, reports \cup es, {s}, retained)
    BY <1>1, <1>2, <1>4, <2>3, <2>4, <2>14, NoPreparationIsIdle, StagingKeeps DEF Current
  <2>16. reports \cup es \in SUBSET Reports
    BY <1>1, <2>5
  <2>17. AfterCommit(o, NoPreparation, reports \cup es, retained, c)
    BY <1>1, <2>7, <2>9, <2>14, <2>15, <2>16, CommitKeeps
  <2>18. /\ c.rt \in Allocations /\ c.rt.alloc = rt.alloc
         /\ c.lost \in BOOLEAN /\ (c.lost => used.records < Records)
         /\ c.rt.failed <=> rt.failed \/ c.lost
    <3>1. /\ c.rt \in Allocations /\ c.rt.alloc = r.alloc /\ c.lost \in BOOLEAN
          /\ c.lost => mayFail
          /\ \/ Waits(c, r, retained)
             \/ \E x \in r.staged : Dropped(c, r, retained, x) \/ Installed(c, r, x, owner.desired)
      BY <2>7, <2>9, CommitOutcomes
    <3> QED
      BY <2>7, <2>8, <3>1 DEF Waits, Dropped, Installed
  <2>19. Kept(rt', c.rt)
    BY <2>9, <2>18, FieldEdits
  <2>20. used' \in Usage /\ used'.captures = used.captures
    BY <1>1, <2>9, <2>18, ConfigurationAssumption DEF Usage
  <2>21. /\ unrecorded' \in SUBSET (1..Loads)
         /\ \A x \in unrecorded' : x <= rt'.alloc
         /\ rt'.alloc \in unrecorded' => rt'.failed
    BY <1>1, <2>9, <2>18, <2>19, ConfigurationAssumption DEF Kept
  <2>22. CoreOK(owner, prep, reports, rt.staged, retained)'
    BY <2>9, <2>12, <2>17, <2>19 DEF AfterCommit, Kept
  <2>23. TypeOK'
    <3>1. (\A x, y \in rt'.staged : x = y) /\ (\A x, y \in owner'.pending : x = y)
      BY <2>22 DEF CoreOK, OnePlace, IdentitiesOK
    <3>2. rt' \in Allocations /\ rt'.alloc = rt.alloc
      BY <2>18, <2>19 DEF Kept
    <3>3. reports' \in SUBSET Reports /\ retained' \in Bindings
      BY <2>9, <2>17 DEF AfterCommit
    <3> QED
      BY <2>12, <2>14, <2>20, <2>21, <3>1, <3>2, <3>3, NoPreparationIsIdle
         DEF ConfigurationInv, TypeOK, Usage, Bindings
  <2>24. AllocationInv'
    <3>1. rt'.config = retained'.input /\ rt'.alloc = rt.alloc
      BY <2>9, <2>17, <2>18, <2>19 DEF AfterCommit, Kept
    <3>2. retained'.input \in {retained.input, owner.input}
      BY <2>9, <2>14, <2>17 DEF AfterCommit
    <3>3. resident' # 0 /\ ~attachDue' => AttachedOK(owner', retained', rt'.alloc)
      BY <1>1, <2>12, <2>14, <3>1, <3>2 DEF AttachedOK
    <3> QED
      BY <1>1, <2>12, <2>14, <2>20, <2>21, <3>1, <3>3, NoPreparationIsIdle
         DEF AllocationInv, AttachedOK, CatalogDecided, Within, PreparationOK
  <2> QED
    BY <2>22, <2>23, <2>24 DEF ConfigurationInv
<1> QED
  BY <1>3, <1>4

-----------------------------------------------------------------------------
LEMMA ConfigurationInit == Init => ConfigurationInv
<1> SUFFICES ASSUME Init PROVE ConfigurationInv
  OBVIOUS
<1>1. /\ [context |-> 0, models |-> 0] \in Inputs
      /\ 0 \in 0..Captures /\ 0 \in 0..Catalogs /\ 1 \in 1..Loads /\ 0 \in 0..Loads
      /\ 0 \in 0..Messages /\ 0 \in 0..Crossings /\ 0 \in 0..Records
  BY ConfigurationAssumption DEF Inputs
<1>a. PICK i : i = [context |-> 0, models |-> 0]
  OBVIOUS
<1>2. rt = Fresh(1, retained) /\ retained = [input |-> i, binding |-> 1] /\ live = 0
  BY <1>a DEF Init
<1>3. rt \in Allocations /\ rt.alloc = 1 /\ rt.config = i /\ rt.staged = {} /\ rt.failed = FALSE
  BY <1>a, <1>1, <1>2 DEF Fresh, Allocations
<1>4. /\ owner \in OwnerStates /\ owner.pending = {} /\ owner.unit = "Applied"
      /\ owner.input = i /\ owner.health = 1 /\ owner.provider = "Applied"
  BY <1>1, <1>a DEF Init, OwnerStates, Units
<1>5. prep \in Preparations /\ ~Taken(prep) /\ PreparationOK(prep)
  BY <1>1 DEF Init, NoPreparation, Preparations, Taken, PreparationOK
<1>6. reports = {} /\ unrecorded = {} /\ resident = 1 /\ attachDue = FALSE /\ boundary = FALSE
      /\ work = 0 /\ used = [captures |-> 0, messages |-> 0, crossings |-> 0, records |-> 0]
  BY DEF Init
<1>7. TypeOK
  BY <1>1, <1>a, <1>2, <1>3, <1>4, <1>5, <1>6 DEF TypeOK
<1>8. CoreOK(owner, prep, reports, rt.staged, retained)
  BY <1>2, <1>3, <1>4, <1>5, <1>6 DEF CoreOK, IdentitiesOK, OnePlace, Truth, Decided
<1>9. AllocationInv
  BY <1>a, <1>2, <1>3, <1>4, <1>5, <1>6 DEF AllocationInv, AttachedOK, Within
<1> QED
  BY <1>7, <1>8, <1>9 DEF ConfigurationInv

LEMMA ConfigurationStep ==
    ASSUME ConfigurationInv, [Next]_vars
    PROVE  ConfigurationInv'
<1>1. CASE Pass
  BY <1>1, PassStep
<1>2. CASE AdmitNextAttempt
  BY <1>2, AdmitStep
<1>3. CASE Exit
  BY <1>3, ExitStep
<1>4. CASE Check \/ Wake \/ Accept \/ FinishAttempt \/ SettleJob \/ HoldBoundary
           \/ ReleaseBoundary \/ SourceReports \/ BeginDrain \/ Quiesce
  BY <1>4, QuietStep
<1>5. CASE Load
  BY <1>5, LoadStep
<1>6. CASE Capture
  BY <1>6, CaptureStep
<1>7. CASE \E r \in reports : Report(r)
  BY <1>7, ReportStep
<1>8. CASE RebindRuntime
  BY <1>8, RebindStep
<1>9. CASE RebaseCatalog
  BY <1>9, RebaseStep
<1>10. CASE PrepareNext \/ LookUp \/ Defer \/ Baseline \/ PrepareFails
  BY <1>10, PrepareStep
<1>11. CASE Stage
  BY <1>11, StageStep
<1>12. CASE UNCHANGED vars
  BY <1>12 DEF vars, ConfigurationInv, TypeOK, CoreOK, IdentitiesOK, OnePlace, Truth, Taken,
       Decided, CatalogDecided, AllocationInv, AttachedOK, Within, PreparationOK
<1>13. CASE SettleProvider
  BY <1>13, ProviderStep
<1>14. CASE Fence
  BY <1>14, FenceStep
<1> QED
  BY <1>1, <1>2, <1>3, <1>4, <1>5, <1>6, <1>7, <1>8, <1>9, <1>10, <1>11, <1>12, <1>13,
     <1>14
     DEF Next, Worker, Prepare, Settlement, Environment

\* The inductive invariant: the desired application is in one place, what is
\* decided is retained, the runtime runs what its Session retains, and the owner
\* knows the allocation it is attached to.
THEOREM ConfigurationInvariant == Spec => []ConfigurationInv
<1>1. ConfigurationInv /\ [Next]_vars => ConfigurationInv'
  BY ConfigurationStep
<1> QED
  BY <1>1, ConfigurationInit, PTL DEF Spec

\* For any number of captures, catalogs, messages and allocations: units shown as
\* applied are what the Session retains, and what its attached runtime runs and
\* has recorded; only a model catalog published to a cold Session waits, behind its
\* deferral, for the next attachment (staged_settled, publish_catalog,
\* rebind_runtime, commit_staged_configuration_locked).
THEOREM ViewsAreTruthful == Spec => []ViewIsTruthful
<1>1. ConfigurationInv => ViewIsTruthful
  <2> SUFFICES ASSUME ConfigurationInv PROVE ViewIsTruthful
    OBVIOUS
  <2>1. /\ TypeOK /\ rt.config = retained.input
        /\ resident # 0 /\ ~attachDue => AttachedOK(owner, retained, rt.alloc)
        /\ Decided(owner) => retained.input.context = owner.input.context
        /\ CatalogDecided(owner) => retained.input.models = owner.input.models \/ owner.deferred
    BY DEF ConfigurationInv, AllocationInv, CoreOK, Truth
  <2>2. ASSUME View(owner.unit) = "Applied"
        PROVE  /\ retained.input.context = owner.input.context
               /\ resident # 0 /\ ~attachDue =>
                     rt.config.context = owner.input.context /\ rt.alloc \notin unrecorded
    <3>1. owner.unit = "Applied" /\ owner.health \notin unrecorded
      BY <2>2 DEF View
    <3> QED
      BY <2>1, <3>1 DEF Decided, AttachedOK
  <2>3. ASSUME View(owner.provider) = "Applied"
        PROVE  /\ \/ retained.input.models = owner.input.models
                  \/ owner.deferred /\ (resident = 0 \/ attachDue)
               /\ resident # 0 /\ ~attachDue =>
                     rt.config.models = owner.input.models /\ rt.alloc \notin unrecorded
    <3>1. owner.provider = "Applied" /\ owner.health \notin unrecorded
      BY <2>3 DEF View
    <3> QED
      BY <2>1, <3>1 DEF CatalogDecided, AttachedOK
  <2> QED
    BY <2>1, <2>2, <2>3 DEF ViewIsTruthful
<1> QED
  BY <1>1, ConfigurationInvariant, PTL

\* No step but an admission starts an Attempt.
LEMMA OnlyAdmissionStarts ==
    ASSUME ConfigurationInv, Next, ~AdmitNextAttempt
    PROVE  rt'.attempt => rt.attempt
<1>1. rt \in Allocations /\ live \in 0..Catalogs /\ retained \in Bindings
  BY DEF ConfigurationInv, TypeOK, Bindings
<1>2. PICK mayFail : mayFail = (used.records < Records)
  OBVIOUS
<1>3. CASE Pass
  <2>1. PICK z : z = [rt EXCEPT !.announced = FALSE]
    OBVIOUS
  <2>2. z \in Allocations /\ Edited(z, rt)
    BY <1>1, <2>1, EditFlags DEF Edited
  <2>3. PICK r \in PublishCatalogs(z) :
           \E c \in CommitResults(r) : Commits(c, ResumeAdmission(c.rt))
    BY <1>3, <2>1 DEF Pass
  <2>4. PICK c \in CommitResults(r) : Commits(c, ResumeAdmission(c.rt))
    BY <2>3
  <2>5. Edited(r, rt)
    BY <1>1, <2>2, <2>3, PublicationKeeps, EditedTwice
  <2>6. r \in Allocations /\ r.attempt = rt.attempt
    BY <2>5 DEF Edited, SameCore
  <2>7. c.rt \in Allocations /\ c.rt.attempt = rt.attempt
    BY <1>2, <2>4, <2>6, CommitOutcomes DEF CommitResults
  <2>8. ResumeAdmission(c.rt).attempt = c.rt.attempt
    BY <2>7 DEF ResumeAdmission, Allocations
  <2> QED
    BY <2>4, <2>7, <2>8 DEF Commits
<1>4. CASE Exit
  <2>1. PICK c \in CommitResults(rt) : Commits(c, [c.rt EXCEPT !.pc = "exited"])
    BY <1>4 DEF Exit
  <2>2. c.rt \in Allocations /\ c.rt.attempt = rt.attempt
    BY <1>1, <1>2, <2>1, CommitOutcomes DEF CommitResults
  <2>3. [c.rt EXCEPT !.pc = "exited"].attempt = c.rt.attempt
    BY <2>2 DEF Allocations
  <2> QED
    BY <2>1, <2>2, <2>3 DEF Commits
<1>5. CASE Stage
  <2>1. CASE rt' = rt
    BY <2>1
  <2>2. CASE rt' # rt
    <3>1. PICK s : s = [id |-> prep.id, input |-> owner.input, baseline |-> prep.baseline,
                        live |-> prep.live]
      OBVIOUS
    <3>2. PICK r : r = [rt EXCEPT !.staged = {s}]
      OBVIOUS
    <3>3. Current /\ resident = prep.alloc
      BY <1>5, <2>2 DEF Stage, Preparing
    <3>4. PICK c \in CommitStaged(r, owner.desired, retained, mayFail) :
             rt' = [c.rt EXCEPT !.eligibility = TRUE]
      BY <1>2, <1>5, <3>1, <3>2, <3>3 DEF Stage
    <3>5. s \in Candidates
      BY <3>1 DEF ConfigurationInv, TypeOK, Candidates, OwnerStates, Preparations
    <3>6. r \in Allocations /\ r.attempt = rt.attempt
      BY <1>1, <3>2, <3>5 DEF Allocations
    <3>7. c.rt \in Allocations /\ c.rt.attempt = r.attempt
      BY <3>4, <3>6, CommitOutcomes
    <3>8. [c.rt EXCEPT !.eligibility = TRUE].attempt = c.rt.attempt
      BY <3>7 DEF Allocations
    <3> QED
      BY <3>4, <3>6, <3>7, <3>8
  <2> QED
    BY <2>1, <2>2
<1>6. CASE Check \/ Wake
  BY <1>1, <1>6 DEF Check, Wake, Allocations
<1>7. CASE FinishAttempt
  BY <1>7 DEF FinishAttempt
<1>8. CASE SettleJob
  BY <1>1, <1>8 DEF SettleJob, Runtime, Allocations
<1>9. CASE Accept \/ HoldBoundary \/ ReleaseBoundary \/ SourceReports \/ Quiesce
  BY <1>1, <1>9 DEF Accept, HoldBoundary, ReleaseBoundary, SourceReports, Quiesce, Runtime,
       Allocations
<1>10. CASE BeginDrain
  BY <1>1, <1>10 DEF BeginDrain, Runtime, Allocations
<1>11. CASE Load
  <2>1. rt' = Fresh(rt.alloc + 1, retained)
    BY <1>11 DEF Load, Runtime
  <2> QED
    BY <2>1 DEF Fresh
<1>12. CASE Capture \/ (\E r \in reports : Report(r)) \/ RebindRuntime
  BY <1>12 DEF Capture, Report, RebindRuntime
<1>13. CASE RebaseCatalog
  BY <1>1, <1>13 DEF RebaseCatalog, Allocations
<1>14. CASE PrepareNext \/ LookUp \/ Defer \/ Baseline \/ PrepareFails
  <2>1. rt' = rt
    BY <1>14 DEF PrepareNext, LookUp, Defer, Baseline, PrepareFails, Preparing
  <2> QED
    BY <2>1
<1>15. CASE SettleProvider
  <2>1. rt' = rt \/ \E x, n : rt' = [rt EXCEPT !.config = x, !.binding = n]
    BY <1>15 DEF SettleProvider, Preparing
  <2> QED
    BY <1>1, <2>1 DEF Allocations
<1>16. CASE Fence
  <2>1. rt' = rt \/ \E f : rt' = [rt EXCEPT !.failed = f]
    BY <1>16 DEF Fence, Preparing
  <2> QED
    BY <1>1, <2>1 DEF Allocations
<1> QED
  BY <1>3, <1>4, <1>5, <1>6, <1>7, <1>8, <1>9, <1>10, <1>11, <1>12, <1>13, <1>14, <1>15, <1>16
     DEF Next, Worker, Prepare, Settlement, Environment

\* An Attempt starts in admit_next_attempt only, with the live catalogs observed,
\* no candidate that waits for the boundary, and every commit recorded.
THEOREM AttemptsFreezeReady == Spec => AttemptsFreezeTheReady
<1> DEFINE Frozen == rt'.attempt /\ ~rt.attempt =>
          /\ \A s \in rt'.staged : CommitBlocked(rt)
          /\ rt'.seen = live
          /\ rt.alloc \notin unrecorded'
<1>1. ConfigurationInv /\ [Next]_vars => [Frozen]_vars
  <2> SUFFICES ASSUME ConfigurationInv, Next, rt'.attempt, ~rt.attempt
               PROVE  /\ \A s \in rt'.staged : CommitBlocked(rt)
                      /\ rt'.seen = live
                      /\ rt.alloc \notin unrecorded'
    OBVIOUS
  <2>1. rt \in Allocations /\ live \in 0..Catalogs
    BY DEF ConfigurationInv, TypeOK
  <2>2. CASE AdmitNextAttempt
    <3>1. rt.life = "running"
      <4>1. CASE rt.life # "running"
        <5>1. rt' = Checked(rt)
          BY <2>2, <4>1 DEF AdmitNextAttempt
        <5> QED
          BY <2>1, <5>1, CheckedKeeps
      <4> QED
        BY <4>1
    <3>2. PICK r \in PublishCatalogs(rt) :
             \E c \in CommitResults(r) : Commits(c, Admitted(c.rt))
      BY <2>2, <3>1 DEF AdmitNextAttempt
    <3>3. PICK c \in CommitResults(r) : Commits(c, Admitted(c.rt))
      BY <3>2
    <3>4. Edited(r, rt)
      BY <2>1, <3>2, PublicationKeeps
    <3>5. /\ r \in Allocations /\ r.alloc = rt.alloc /\ r.failed = rt.failed
          /\ r.attempt = rt.attempt /\ r.job = rt.job
      BY <3>4 DEF Edited, SameCore
    <3>6. PICK mayFail : mayFail = (used.records < Records)
      OBVIOUS
    <3>7. /\ c.rt \in Allocations /\ c.rt.attempt = r.attempt
          /\ \/ Waits(c, r, retained)
             \/ \E s \in r.staged : Dropped(c, r, retained, s) \/ Installed(c, r, s, owner.desired)
      <4>1. c \in CommitStaged(r, owner.desired, retained, mayFail)
        BY <3>3, <3>6 DEF CommitResults
      <4> QED
        BY <3>5, <4>1, CommitOutcomes
    <3>8. rt' = Admitted(c.rt)
          /\ unrecorded' = IF c.lost THEN unrecorded \cup {rt.alloc} ELSE unrecorded
      BY <3>3 DEF Commits
    <3>9. /\ ~c.rt.waiting /\ c.rt.seen = live /\ ~c.rt.failed
          /\ rt'.seen = c.rt.seen /\ rt'.staged = c.rt.staged
      BY <3>5, <3>7, <3>8, AdmissionKeeps DEF Kept
    <3>10. ~rt.failed /\ ~c.lost
      BY <3>5, <3>7, <3>9 DEF Waits, Dropped, Installed
    <3>11. rt.alloc \notin unrecorded'
      BY <3>8, <3>10 DEF ConfigurationInv, AllocationInv
    <3>12. \A s \in rt'.staged : CommitBlocked(rt)
      BY <3>5, <3>7, <3>9 DEF Waits, Dropped, Installed, CommitBlocked
    <3> QED
      BY <3>9, <3>11, <3>12
  <2>3. CASE ~AdmitNextAttempt
    BY <2>3, OnlyAdmissionStarts
  <2> QED
    BY <2>2, <2>3
<1> QED
  BY <1>1, ConfigurationInvariant, PTL DEF Spec, AttemptsFreezeTheReady
=============================================================================
