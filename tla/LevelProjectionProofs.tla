------------------------ MODULE LevelProjectionProofs ------------------------
(***************************************************************************)
(* Proofs about LevelProjection for any number of rating changes, workers, *)
(* keys and events, and any limits.                                        *)
(***************************************************************************)
EXTENDS LevelProjection, TLAPS

-----------------------------------------------------------------------------
(* The inductive invariant.                                                *)

RequestsKeyed == \A r \in Requests : req[r].pc = "COMMIT" => req[r].key \in Keys
CyclesCarry ==
    \A w \in Workers : work[w].pc \in {"ENSURE", "BUMP", "UPSERT"} => work[w].payload \in Snapshots

\* What has left for PadlHub is what the row asks for, or older than that; and a
\* worker that was answered may rely on PadlHub having no less than it sent.
Sending == {w \in Workers : work[w].pc \in {"POST", "COMPLETE", "FAIL"}}
Behind(payload) == payload.rev < outbox.desired.rev \/ payload = outbox.desired
HubBehind == Behind(hub)
LateBehind == \A payload \in late : Behind(payload)
SentBehind == \A w \in Sending : Behind(work[w].payload)
AnswerKept == \A w \in Workers : work[w].pc = "COMPLETE" => hub.rev >= work[w].payload.rev

Shapes == TypeOK /\ RequestsKeyed /\ CyclesCarry
Deliveries == HubBehind /\ LateBehind /\ SentBehind /\ AnswerKept /\ SyncedIsDelivered

-----------------------------------------------------------------------------
(* Shapes.                                                                 *)

LEMMA SnapshotFacts ==
    /\ NoPayload \in Payloads /\ Snapshots \subseteq Payloads
    /\ NoPayload.rev = -1
    /\ \A p \in Payloads : p.event \in Int /\ p.rev \in Int /\ p.rev >= -1
    /\ \A p \in Snapshots : p.event \in 0 .. MaxEvents /\ p.rev \in Nat
BY SMT DEF Payloads, Snapshots, NoPayload

LEMMA InitShapes == Init => Shapes
BY LimitsAssumption, NoneAssumption, SMT
   DEF Init, Shapes, TypeOK, RequestsKeyed, CyclesCarry, NoRow, NoPayload, Quiet, Fresh,
       Row, Request, Worker, Payloads, Snapshots

\* A row with one field replaced is a row; the writes replace several, one by one.
LEMMA OneField ==
    ASSUME NEW row \in Row
    PROVE  /\ \A x \in Payloads : /\ [row EXCEPT !.desired = x] \in Row
                                  /\ [row EXCEPT !.inFlight = x] \in Row
           /\ \A x \in 0 .. MaxAttempts : [row EXCEPT !.attempts = x] \in Row
           /\ \A x \in Workers \cup {None} : [row EXCEPT !.owner = x] \in Row
           /\ \A x \in {"PENDING", "DELIVERING", "SYNCED", "FAILED_RETRYABLE", "DEAD"} :
                 [row EXCEPT !.status = x] \in Row
BY SMT DEF Row

LEMMA ReleasedShape ==
    ASSUME NEW row \in Row
    PROVE  /\ Released(row) \in Row
           /\ Released(row).owner = None
           /\ Released(row).desired = row.desired
           /\ Released(row).attempts = row.attempts
<1>1. PICK a : a = [row EXCEPT !.owner = None]
  OBVIOUS
<1>2. a \in Row /\ Released(row) = [a EXCEPT !.inFlight = NoPayload]
  BY <1>1, OneField, Zenon DEF Released
<1>3. Released(row) \in Row
  BY <1>2, OneField, SnapshotFacts
<1>. QED
  BY <1>3, SMT DEF Released, Row

LEMMA CompletedShape ==
    ASSUME TypeOK, NEW p \in Payloads
    PROVE  /\ Completed(p) \in Row
           /\ Completed(p).owner = None /\ Completed(p).status # "DELIVERING"
           /\ Completed(p).desired = outbox.desired
           /\ Completed(p).status = "SYNCED" <=> ~Superseded(p)
<1>1. PICK a : a = Released(outbox)
  OBVIOUS
<1>2. a \in Row /\ a.owner = None /\ a.desired = outbox.desired
  BY <1>1, ReleasedShape DEF TypeOK
<1>3. Completed(p) = [a EXCEPT !.status = IF Superseded(p) THEN "PENDING" ELSE "SYNCED"]
  BY <1>1 DEF Completed
<1>. QED
  BY <1>2, <1>3, SMT DEF Row

LEMMA FailedShape ==
    ASSUME TypeOK, NEW p \in Payloads
    PROVE  /\ Failed(p) \in Row
           /\ Failed(p).owner = None /\ Failed(p).status \notin {"DELIVERING", "SYNCED"}
           /\ Failed(p).desired = outbox.desired
<1>1. PICK a : a = Released(outbox)
  OBVIOUS
<1>2. a \in Row /\ a.owner = None /\ a.desired = outbox.desired
  BY <1>1, ReleasedShape DEF TypeOK
<1>3. CASE Superseded(p)
  <2>1. PICK b : b = [a EXCEPT !.status = "PENDING"]
    OBVIOUS
  <2>2. b \in Row /\ b.owner = None /\ b.desired = outbox.desired /\ b.status = "PENDING"
    BY <1>2, <2>1, SMT DEF Row
  <2>3. Failed(p) = [b EXCEPT !.attempts = 0]
    BY <1>1, <1>3, <2>1, Zenon DEF Failed
  <2>. QED
    BY <2>2, <2>3, LimitsAssumption, SMT DEF Row
<1>4. CASE ~Superseded(p)
  <2>1. Failed(p) = [a EXCEPT !.status =
                        IF outbox.attempts >= MaxAttempts THEN "DEAD" ELSE "FAILED_RETRYABLE"]
    BY <1>1, <1>4, Zenon DEF Failed
  <2>. QED
    BY <1>2, <2>1, SMT DEF Row
<1>. QED
  BY <1>3, <1>4

\* A newer snapshot is asked for, without ending a delivery; or nothing changes.
LEMMA UpsertedShape ==
    ASSUME TypeOK, NEW p \in Snapshots
    PROVE  \/ Upserted(p) = outbox
           \/ /\ Upserted(p) \in Row
              /\ Upserted(p).owner = outbox.owner
              /\ Upserted(p).status \notin {"ABSENT", "SYNCED"}
              /\ Upserted(p).status = "DELIVERING" <=> outbox.status = "DELIVERING"
              /\ Upserted(p).desired = p /\ p.rev > outbox.desired.rev
<1>1. CASE ~Newer(p)
  BY <1>1 DEF Upserted
<1>2. CASE Newer(p)
  <2>1. PICK a : a = [outbox EXCEPT !.desired = p]
    OBVIOUS
  <2>2. /\ a \in Row /\ a.owner = outbox.owner /\ a.status = outbox.status
        /\ a.desired = p
    <3>1. outbox \in Row /\ p \in Payloads
      BY SnapshotFacts DEF TypeOK
    <3>2. a \in Row
      BY <2>1, <3>1, OneField
    <3>. QED
      BY <2>1, <3>1, <3>2, SMT DEF Row
  <2>3. PICK b : b = [a EXCEPT !.attempts = 0]
    OBVIOUS
  <2>4. /\ b \in Row /\ b.owner = outbox.owner /\ b.status = outbox.status
        /\ b.desired = p
    BY <2>2, <2>3, LimitsAssumption, SMT DEF Row
  <2>5. Upserted(p) =
            [b EXCEPT !.status = IF b.status = "DELIVERING" THEN b.status ELSE "PENDING"]
    BY <1>2, <2>1, <2>3, Zenon DEF Upserted
  <2>. QED
    BY <1>2, <2>4, <2>5, SMT DEF Row, Newer
<1>. QED
  BY <1>1, <1>2

-----------------------------------------------------------------------------
(* What a step does to the worker that takes it.                           *)

Labels == {"IDLE", "ENSURE", "BUMP", "UPSERT", "CLAIM", "POST", "COMPLETE", "FAIL"}

Moved(w, pc, payload) ==
    /\ work' \in [Workers -> Worker]
    /\ work'[w].pc = pc /\ work'[w].payload = payload
    /\ \A v \in Workers : v # w => work'[v] = work[v]

LEMMA ReplacedWorker ==
    ASSUME TypeOK, NEW w \in Workers, NEW v \in Worker, work' = [work EXCEPT ![w] = v]
    PROVE  Moved(w, v.pc, v.payload)
BY DEF TypeOK, Moved

LEMMA GotoWithMoves ==
    ASSUME TypeOK, NEW w \in Workers, NEW pc \in Labels, NEW p \in Payloads,
           GotoWith(w, pc, p)
    PROVE  Moved(w, pc, p)
<1>1. PICK a : a = [work[w] EXCEPT !.pc = pc]
  OBVIOUS
<1>2. a \in Worker /\ a.pc = pc
  BY <1>1, SMT DEF TypeOK, Worker, Labels
<1>3. PICK b : b = [a EXCEPT !.payload = p]
  OBVIOUS
<1>4. b \in Worker /\ b.pc = pc /\ b.payload = p
  BY <1>2, <1>3, SMT DEF Worker
<1>5. PICK f : f = [work EXCEPT ![w] = a]
  OBVIOUS
<1>6. f \in [Workers -> Worker] /\ f[w] = a /\ \A v \in Workers : v # w => f[v] = work[v]
  BY <1>2, <1>5 DEF TypeOK
<1>7. work' = [f EXCEPT ![w] = [f[w] EXCEPT !.payload = p]]
  BY <1>1, <1>5, Zenon DEF GotoWith
<1>8. work' = [f EXCEPT ![w] = b]
  BY <1>3, <1>6, <1>7
<1>. QED
  BY <1>4, <1>6, <1>8 DEF Moved

LEMMA GotoMoves ==
    ASSUME TypeOK, NEW w \in Workers, NEW pc \in Labels, Goto(w, pc)
    PROVE  Moved(w, pc, IF pc \in {"IDLE", "CLAIM"} THEN NoPayload ELSE work[w].payload)
<1>1. PICK p : p = IF pc \in {"IDLE", "CLAIM"} THEN NoPayload ELSE work[w].payload
  OBVIOUS
<1>2. p \in Payloads
  BY <1>1, SnapshotFacts DEF TypeOK, Worker
<1>3. GotoWith(w, pc, p)
  BY <1>1, SMT DEF Goto, GotoWith, TypeOK
<1>. QED
  BY <1>1, <1>2, <1>3, GotoWithMoves

LEMMA CountedMoves ==
    ASSUME TypeOK, NEW w \in Workers, NEW pc \in {"IDLE", "CLAIM"}, Counted(w, pc)
    PROVE  Moved(w, pc, NoPayload)
<1>1. work[w].failures \in 0 .. Threshold
  BY DEF TypeOK, Worker
<1>2. PICK n \in 0 .. Threshold :
          n = IF work[w].failures < Threshold THEN work[w].failures + 1 ELSE Threshold
  BY <1>1, LimitsAssumption
<1>3. PICK v : v = [pc |-> pc, payload |-> NoPayload, failures |-> n, open |-> n >= Threshold]
  OBVIOUS
<1>4. v \in Worker /\ v.pc = pc /\ v.payload = NoPayload
  <2>1. PICK b : b = (n >= Threshold)
    OBVIOUS
  <2>2. b \in BOOLEAN
    BY <2>1, SMT
  <2>3. v = [pc |-> pc, payload |-> NoPayload, failures |-> n, open |-> b]
    BY <1>3, <2>1, Zenon
  <2>. QED
    BY <2>2, <2>3, SnapshotFacts, Zenon DEF Worker
<1>5. work' = [work EXCEPT ![w] = v]
  BY <1>2, <1>3, Zenon DEF Counted
<1>. QED
  BY <1>4, <1>5, ReplacedWorker

-----------------------------------------------------------------------------
(* What the invariant asks of a step, in terms of what the step changed.   *)

\* A snapshot a worker may carry at a label.
Fits(pc, p) == p \in Payloads /\ (pc \in {"ENSURE", "BUMP", "UPSERT"} => p \in Snapshots)

LEMMA WorkerShapes ==
    ASSUME Shapes, NEW w \in Workers, NEW pc \in Labels, NEW p \in Payloads,
           Moved(w, pc, p), Fits(pc, p), UNCHANGED <<ledger, req>>,
           state' \in Snapshots, hub' \in Payloads, late' \subseteq Payloads,
           outbox' \in Row, outbox'.status = "DELIVERING" <=> outbox'.owner # None
    PROVE  Shapes'
BY Zenon DEF Shapes, TypeOK, RequestsKeyed, CyclesCarry, Moved, Fits

\* The row still asks for the same snapshot.
LEMMA SameDesired ==
    ASSUME Shapes, Deliveries, outbox'.desired = outbox.desired,
           Behind(hub'), hub'.rev >= hub.rev, \A p \in late' : Behind(p),
           outbox'.status = "SYNCED" => hub' = outbox.desired,
           \A w \in Workers : work'[w].pc \in {"POST", "COMPLETE", "FAIL"}
                                  => Behind(work'[w].payload),
           \A w \in Workers : work'[w].pc = "COMPLETE" => hub'.rev >= work'[w].payload.rev
    PROVE  Deliveries'
BY DEF Deliveries, HubBehind, LateBehind, SentBehind, Sending, AnswerKept, SyncedIsDelivered,
       Behind

\* The same for one worker's step.
LEMMA WorkerDeliveries ==
    ASSUME Shapes, Deliveries, NEW w \in Workers, NEW pc \in Labels, NEW p \in Payloads,
           Moved(w, pc, p), outbox'.desired = outbox.desired,
           hub' \in Payloads, Behind(hub'), hub'.rev >= hub.rev, \A q \in late' : Behind(q),
           outbox'.status = "SYNCED" => hub' = outbox.desired,
           pc \in {"POST", "COMPLETE", "FAIL"} => Behind(p),
           pc = "COMPLETE" => hub'.rev >= p.rev
    PROVE  Deliveries'
<1>1. \A v \in Workers : work'[v].pc \in {"POST", "COMPLETE", "FAIL"}
                             => Behind(work'[v].payload)
  BY Zenon DEF Moved, Deliveries, SentBehind, Sending
<1>2. \A v \in Workers : work'[v].pc = "COMPLETE" => hub'.rev >= work'[v].payload.rev
  <2>1. TAKE v \in Workers
  <2>2. CASE v = w
    BY <2>2, Zenon DEF Moved
  <2>3. CASE v # w
    <3>1. work'[v] = work[v] /\ work[v].payload \in Payloads
      BY <2>3 DEF Moved, Shapes, TypeOK, Worker
    <3>2. work[v].payload.rev \in Int /\ hub.rev \in Int /\ hub'.rev \in Int
      BY <3>1, SnapshotFacts DEF Shapes, TypeOK
    <3>3. work[v].pc = "COMPLETE" => hub.rev >= work[v].payload.rev
      BY DEF Deliveries, AnswerKept
    <3>. QED
      BY <3>1, <3>2, <3>3
  <2>. QED
    BY <2>2, <2>3
<1>. QED
  BY <1>1, <1>2, SameDesired

\* The row asks for a newer snapshot: everything else is behind it.
LEMMA NewerDesired ==
    ASSUME Shapes, Deliveries, Shapes', NEW p \in Snapshots, outbox'.desired = p,
           p.rev > outbox.desired.rev, outbox'.status # "SYNCED", UNCHANGED <<hub, late>>,
           \A w \in Workers : work'[w].pc \in {"POST", "COMPLETE", "FAIL"} => work'[w] = work[w]
    PROVE  Deliveries'
<1>1. \A q \in Payloads : Behind(q) => q.rev < p.rev
  <2>1. TAKE q \in Payloads
  <2>2. q.rev \in Int /\ p.rev \in Int /\ outbox.desired.rev \in Int
    BY SnapshotFacts DEF Shapes, TypeOK, Row
  <2>. QED
    BY <2>2 DEF Behind
<1>3. hub \in Payloads /\ late \subseteq Payloads /\ \A w \in Workers : work[w].payload \in Payloads
  BY DEF Shapes, TypeOK, Worker
<1>4. HubBehind' /\ LateBehind'
  BY <1>1, <1>3 DEF Deliveries, HubBehind, LateBehind, Behind
<1>5. SentBehind'
  BY <1>1, <1>3, Zenon DEF Deliveries, SentBehind, Sending, Behind
<1>6. AnswerKept'
  BY Zenon DEF Deliveries, AnswerKept
<1>. QED
  BY <1>4, <1>5, <1>6 DEF Deliveries, SyncedIsDelivered

-----------------------------------------------------------------------------
(* One lemma per step of a worker.                                         *)

IInv == Shapes /\ Deliveries

\* What every one of them may take for granted.
LEMMA Known ==
    ASSUME IInv
    PROVE  /\ TypeOK /\ outbox \in Row /\ state \in Snapshots /\ hub \in Payloads
           /\ outbox.status = "DELIVERING" <=> outbox.owner # None
           /\ hub.rev \in Int /\ outbox.desired \in Payloads /\ outbox.desired.rev \in Int
           /\ Behind(hub) /\ late \subseteq Payloads /\ \A p \in late : Behind(p)
           /\ outbox.status = "SYNCED" => hub = outbox.desired
           /\ \A w \in Workers : work[w].payload \in Payloads
BY SnapshotFacts, SMT DEF IInv, Shapes, TypeOK, Row, Worker, Deliveries, HubBehind, LateBehind,
   SyncedIsDelivered

LEMMA StartCycleKeeps == ASSUME IInv, NEW w \in Workers, StartCycle(w) PROVE IInv'
<1>1. Moved(w, "ENSURE", state)
  BY Known, SnapshotFacts, GotoWithMoves DEF StartCycle, Labels
<1>2. UNCHANGED <<ledger, state, outbox, req, hub, late>>
  BY DEF StartCycle
<1>3. Fits("ENSURE", state) /\ state \in Payloads /\ "ENSURE" \in Labels
  BY Known, SnapshotFacts DEF Fits, Labels
<1>4. Shapes'
  BY <1>1, <1>2, <1>3, Known, WorkerShapes DEF IInv
<1>5. Deliveries'
  BY <1>1, <1>2, <1>3, Known, WorkerDeliveries DEF IInv
<1>. QED
  BY <1>4, <1>5 DEF IInv

LEMMA EnsureKeeps == ASSUME IInv, NEW w \in Workers, Ensure(w) PROVE IInv'
<1>1. UNCHANGED <<ledger, state, outbox, req, hub, late>> /\ work[w].pc = "ENSURE"
  BY DEF Ensure, At
<1>2. work[w].payload \in Snapshots
  BY <1>1 DEF IInv, Shapes, CyclesCarry
<1>3. PICK pc \in {"CLAIM", "BUMP"}, p \in Payloads : Moved(w, pc, p) /\ Fits(pc, p)
  <2>1. CASE Goto(w, "CLAIM")
    BY <2>1, Known, GotoMoves, SnapshotFacts DEF Labels, Fits
  <2>2. CASE GotoWith(w, "BUMP", [work[w].payload EXCEPT !.rev = Effective(work[w].payload)])
    <3>1. Effective(work[w].payload) \in Nat
      <4>1. work[w].payload.rev \in Nat /\ outbox.desired.rev \in Int
        BY <1>2, Known, SnapshotFacts
      <4>. QED
        BY <4>1 DEF Effective
    <3>2. [work[w].payload EXCEPT !.rev = Effective(work[w].payload)] \in Snapshots
      BY <1>2, <3>1 DEF Snapshots
    <3>. QED
      BY <2>2, <3>2, Known, SnapshotFacts, GotoWithMoves DEF Labels, Fits
  <2>. QED
    BY <2>1, <2>2 DEF Ensure
<1>4. Shapes'
  BY <1>1, <1>3, Known, WorkerShapes DEF IInv, Labels
<1>5. Deliveries'
  BY <1>1, <1>3, Known, WorkerDeliveries DEF IInv, Labels
<1>. QED
  BY <1>4, <1>5 DEF IInv

LEMMA BumpKeeps == ASSUME IInv, NEW w \in Workers, Bump(w) PROVE IInv'
<1>1. UNCHANGED <<ledger, outbox, req, hub, late>> /\ work[w].pc = "BUMP"
  BY DEF Bump, At
<1>2. work[w].payload \in Snapshots
  BY <1>1 DEF IInv, Shapes, CyclesCarry
<1>3. state' \in Snapshots
  <2>1. work[w].payload.rev \in Nat /\ state \in Snapshots
    BY <1>2, Known, SnapshotFacts
  <2>2. [state EXCEPT !.rev = work[w].payload.rev] \in Snapshots
    BY <2>1 DEF Snapshots
  <2>3. state' = [state EXCEPT !.rev = work[w].payload.rev] \/ state' = state
    BY Zenon DEF Bump
  <2>. QED
    BY <2>1, <2>2, <2>3
<1>4. PICK pc \in {"CLAIM", "UPSERT"}, p \in Payloads : Moved(w, pc, p) /\ Fits(pc, p)
  <2>1. CASE Goto(w, "CLAIM")
    BY <2>1, Known, GotoMoves, SnapshotFacts DEF Labels, Fits
  <2>2. CASE Goto(w, "UPSERT")
    <3>1. Moved(w, "UPSERT", work[w].payload)
      BY <2>2, Known, GotoMoves DEF Labels
    <3>. QED
      BY <1>2, <3>1, Known DEF Fits
  <2>. QED
    BY <2>1, <2>2 DEF Bump
<1>5. Shapes'
  BY <1>1, <1>3, <1>4, Known, WorkerShapes DEF IInv, Labels
<1>6. Deliveries'
  BY <1>1, <1>4, Known, WorkerDeliveries DEF IInv, Labels
<1>. QED
  BY <1>5, <1>6 DEF IInv

LEMMA UpsertKeeps == ASSUME IInv, NEW w \in Workers, Upsert(w) PROVE IInv'
<1>1. /\ UNCHANGED <<ledger, state, req, hub, late>> /\ work[w].pc = "UPSERT"
      /\ outbox' = Upserted(work[w].payload)
  BY DEF Upsert, At
<1>2. work[w].payload \in Snapshots
  BY <1>1 DEF IInv, Shapes, CyclesCarry
<1>3. Moved(w, "CLAIM", NoPayload)
  BY Known, GotoMoves DEF Upsert, Labels
<1>4. Fits("CLAIM", NoPayload) /\ NoPayload \in Payloads /\ "CLAIM" \in Labels
  BY SnapshotFacts DEF Fits, Labels
<1>5. outbox' \in Row /\ (outbox'.status = "DELIVERING" <=> outbox'.owner # None)
  BY <1>1, <1>2, Known, UpsertedShape
<1>6. Shapes'
  BY <1>1, <1>3, <1>4, <1>5, Known, WorkerShapes DEF IInv
<1>7. CASE outbox' = outbox
  BY <1>1, <1>3, <1>4, <1>6, <1>7, Known, WorkerDeliveries DEF IInv
<1>8. CASE outbox' # outbox
  <2>1. /\ outbox'.desired = work[w].payload /\ work[w].payload.rev > outbox.desired.rev
        /\ outbox'.status # "SYNCED"
    BY <1>1, <1>2, <1>8, Known, UpsertedShape
  <2>2. \A v \in Workers : work'[v].pc \in {"POST", "COMPLETE", "FAIL"} => work'[v] = work[v]
    BY <1>3 DEF Moved
  <2>. QED
    BY <1>1, <1>2, <1>6, <2>1, <2>2, NewerDesired DEF IInv
<1>. QED
  BY <1>6, <1>7, <1>8 DEF IInv

LEMMA ClaimKeeps == ASSUME IInv, NEW w \in Workers, Claim(w) PROVE IInv'
<1>1. UNCHANGED <<ledger, state, req, hub, late>>
  BY DEF Claim
<1>2. /\ outbox' \in Row /\ outbox'.status = "DELIVERING" /\ outbox'.owner = w
      /\ outbox'.desired = outbox.desired
  <2>1. PICK n \in 0 .. MaxAttempts :
            outbox' = [outbox EXCEPT !.status = "DELIVERING", !.owner = w,
                           !.inFlight = outbox.desired, !.attempts = n]
    <3>1. outbox.attempts \in 0 .. MaxAttempts
      BY Known DEF Row
    <3>2. PICK n \in 0 .. MaxAttempts :
              n = IF outbox.attempts < MaxAttempts THEN outbox.attempts + 1 ELSE outbox.attempts
      BY <3>1, LimitsAssumption
    <3>. QED
      BY <3>2, Zenon DEF Claim
  <2>2. PICK a : a = [outbox EXCEPT !.status = "DELIVERING"]
    OBVIOUS
  <2>3. a \in Row /\ a.status = "DELIVERING" /\ a.desired = outbox.desired
    BY <2>2, Known, SMT DEF Row
  <2>4. PICK b : b = [a EXCEPT !.owner = w]
    OBVIOUS
  <2>5. b \in Row /\ b.status = "DELIVERING" /\ b.desired = outbox.desired /\ b.owner = w
    BY <2>3, <2>4, SMT DEF Row
  <2>6. PICK d : d = [b EXCEPT !.inFlight = outbox.desired]
    OBVIOUS
  <2>7. d \in Row /\ d.status = "DELIVERING" /\ d.desired = outbox.desired /\ d.owner = w
    BY <2>5, <2>6, Known, SMT DEF Row
  <2>8. outbox' = [d EXCEPT !.attempts = n]
    BY <2>1, <2>2, <2>4, <2>6, Zenon
  <2>. QED
    BY <2>7, <2>8, SMT DEF Row
<1>3. PICK pc \in {"POST", "IDLE"}, p \in {outbox.desired, NoPayload} :
          /\ Moved(w, pc, p) /\ (pc = "POST" => p = outbox.desired)
  <2>1. CASE GotoWith(w, "POST", outbox.desired)
    BY <2>1, Known, GotoWithMoves DEF Labels
  <2>2. CASE Goto(w, "IDLE")
    BY <2>2, Known, GotoMoves DEF Labels
  <2>. QED
    BY <2>1, <2>2 DEF Claim
<1>4. p \in Payloads /\ Fits(pc, p) /\ pc \in Labels
  BY <1>3, Known, SnapshotFacts DEF Fits, Labels
<1>5. w # None
  BY NoneAssumption
<1>6. Shapes'
  BY <1>1, <1>2, <1>3, <1>4, <1>5, Known, WorkerShapes DEF IInv
<1>7. Deliveries'
  BY <1>1, <1>2, <1>3, <1>4, Known, WorkerDeliveries DEF IInv, Behind
<1>. QED
  BY <1>6, <1>7 DEF IInv

LEMMA EndCycleKeeps == ASSUME IInv, NEW w \in Workers, EndCycle(w) PROVE IInv'
<1>1. UNCHANGED <<ledger, state, outbox, req, hub, late>>
  BY DEF EndCycle
<1>2. Moved(w, "IDLE", NoPayload)
  BY Known, GotoMoves DEF EndCycle, Labels
<1>3. Fits("IDLE", NoPayload) /\ NoPayload \in Payloads /\ "IDLE" \in Labels
  BY SnapshotFacts DEF Fits, Labels
<1>4. Shapes'
  BY <1>1, <1>2, <1>3, Known, WorkerShapes DEF IInv
<1>5. Deliveries'
  BY <1>1, <1>2, <1>3, Known, WorkerDeliveries DEF IInv
<1>. QED
  BY <1>4, <1>5 DEF IInv

\* What PadlHub keeps after a snapshot the row is not behind arrives.
LEMMA KeptHub ==
    ASSUME IInv, NEW p \in Payloads, Behind(p), hub' = Kept(p)
    PROVE  /\ hub' \in Payloads /\ Behind(hub') /\ hub'.rev >= hub.rev /\ hub'.rev >= p.rev
           /\ outbox.status = "SYNCED" => hub' = outbox.desired
<1>1. p.rev \in Int /\ hub.rev \in Int /\ outbox.desired.rev \in Int
  BY Known, SnapshotFacts
<1>2. hub' \in Payloads /\ Behind(hub') /\ hub'.rev >= hub.rev /\ hub'.rev >= p.rev
  BY <1>1, Known, SMT DEF Kept
<1>3. ASSUME outbox.status = "SYNCED" PROVE hub' = outbox.desired
  BY <1>1, <1>3, Known, SMT DEF Kept, Behind
<1>. QED
  BY <1>2, <1>3

LEMMA DeliverKeeps == ASSUME IInv, NEW w \in Workers, Deliver(w) PROVE IInv'
<1>1. /\ UNCHANGED <<ledger, state, outbox, req>> /\ late' \subseteq late
      /\ hub' = Kept(work[w].payload) /\ work[w].pc = "POST"
  BY Zenon DEF Deliver, Underway, At
<1>2. work[w].payload \in Payloads /\ Behind(work[w].payload)
  BY <1>1, Known DEF IInv, Deliveries, SentBehind, Sending
<1>3. PICK pc \in {"FAIL", "COMPLETE"} : Moved(w, pc, work[w].payload)
  BY Known, GotoMoves, SMT DEF Deliver, Labels
<1>4. Fits(pc, work[w].payload) /\ pc \in Labels
  BY <1>2, <1>3 DEF Fits, Labels
<1>5. Shapes'
  BY <1>1, <1>2, <1>3, <1>4, Known, KeptHub, WorkerShapes DEF IInv
<1>6. Deliveries'
  BY <1>1, <1>2, <1>3, <1>4, Known, KeptHub, WorkerDeliveries DEF IInv
<1>. QED
  BY <1>5, <1>6 DEF IInv

LEMMA TimeoutKeeps == ASSUME IInv, NEW w \in Workers, Timeout(w) PROVE IInv'
<1>1. /\ UNCHANGED <<ledger, state, outbox, req, hub>> /\ work[w].pc = "POST"
      /\ late' \subseteq late \cup {work[w].payload}
  BY Zenon DEF Timeout, Underway, At
<1>2. work[w].payload \in Payloads /\ Behind(work[w].payload)
  BY <1>1, Known DEF IInv, Deliveries, SentBehind, Sending
<1>3. Moved(w, "FAIL", work[w].payload)
  BY Known, GotoMoves DEF Timeout, Labels
<1>4. Fits("FAIL", work[w].payload) /\ "FAIL" \in Labels
  BY <1>2 DEF Fits, Labels
<1>5. late' \subseteq Payloads /\ \A p \in late' : Behind(p)
  BY <1>1, <1>2, Known
<1>6. Shapes'
  BY <1>1, <1>2, <1>3, <1>4, <1>5, Known, WorkerShapes DEF IInv
<1>7. Deliveries'
  BY <1>1, <1>2, <1>3, <1>4, <1>5, Known, WorkerDeliveries DEF IInv
<1>. QED
  BY <1>6, <1>7 DEF IInv

\* An answered worker that finds no newer snapshot asked for sent the one asked for,
\* and PadlHub has it.
LEMMA CompleteKeeps == ASSUME IInv, NEW w \in Workers, Complete(w) PROVE IInv'
<1>1. UNCHANGED <<ledger, state, req, hub, late>> /\ work[w].pc = "COMPLETE"
  BY DEF Complete, At
<1>2. /\ work[w].payload \in Payloads /\ Behind(work[w].payload)
      /\ hub.rev >= work[w].payload.rev
  BY <1>1, Known DEF IInv, Deliveries, SentBehind, Sending, AnswerKept
<1>3. PICK pc \in {"CLAIM", "FAIL"}, p \in {NoPayload, work[w].payload} :
          Moved(w, pc, p) /\ (pc = "FAIL" => p = work[w].payload)
  <2>1. CASE Goto(w, "FAIL")
    BY <2>1, Known, GotoMoves DEF Labels
  <2>2. CASE work' = [work EXCEPT ![w] = [Fresh EXCEPT !.pc = "CLAIM"]]
    <3>1. Fresh \in Worker /\ Fresh.payload = NoPayload
      BY LimitsAssumption, SnapshotFacts, SMT DEF Fresh, Worker
    <3>2. PICK v : v = [Fresh EXCEPT !.pc = "CLAIM"]
      OBVIOUS
    <3>3. v \in Worker /\ v.pc = "CLAIM" /\ v.payload = NoPayload
      BY <3>1, <3>2, Zenon DEF Worker
    <3>4. work' = [work EXCEPT ![w] = v]
      BY <2>2, <3>2, Zenon
    <3>. QED
      BY <3>3, <3>4, Known, ReplacedWorker
  <2>. QED
    BY <2>1, <2>2 DEF Complete
<1>4. p \in Payloads /\ Fits(pc, p) /\ pc \in Labels
  BY <1>2, <1>3, SnapshotFacts DEF Fits, Labels
<1>5. /\ outbox' \in Row /\ (outbox'.status = "DELIVERING" <=> outbox'.owner # None)
      /\ outbox'.desired = outbox.desired
      /\ outbox'.status = "SYNCED" => hub = outbox.desired
  <2>1. CASE outbox' = outbox
    BY <2>1, Known
  <2>2. CASE outbox' = Completed(work[w].payload)
    <3>1. /\ outbox' \in Row /\ outbox'.owner = None /\ outbox'.status # "DELIVERING"
          /\ outbox'.desired = outbox.desired
          /\ outbox'.status = "SYNCED" <=> ~Superseded(work[w].payload)
      BY <1>2, <2>2, Known, CompletedShape
    <3>2. ~Superseded(work[w].payload) => hub = outbox.desired
      <4>1. work[w].payload.rev \in Int /\ hub.rev \in Int /\ outbox.desired.rev \in Int
        BY <1>2, Known, SnapshotFacts
      <4>. QED
        BY <1>2, <4>1, Known DEF Superseded, Behind
    <3>. QED
      BY <3>1, <3>2
  <2>. QED
    BY <2>1, <2>2 DEF Complete
<1>6. Shapes'
  BY <1>1, <1>3, <1>4, <1>5, Known, WorkerShapes DEF IInv
<1>7. Deliveries'
  BY <1>1, <1>2, <1>3, <1>4, <1>5, Known, WorkerDeliveries DEF IInv
<1>. QED
  BY <1>6, <1>7 DEF IInv

LEMMA FailKeeps == ASSUME IInv, NEW w \in Workers, Fail(w) PROVE IInv'
<1>1. UNCHANGED <<ledger, state, req, hub, late>> /\ work[w].payload \in Payloads
  BY Known DEF Fail
<1>2. PICK pc \in {"CLAIM", "IDLE"} : Moved(w, pc, NoPayload)
  BY Known, CountedMoves, Zenon DEF Fail
<1>3. Fits(pc, NoPayload) /\ NoPayload \in Payloads /\ pc \in Labels
  BY <1>2, SnapshotFacts DEF Fits, Labels
<1>4. outbox' = outbox \/ outbox' = Failed(work[w].payload)
  BY Zenon DEF Fail
<1>5. /\ outbox' \in Row /\ (outbox'.status = "DELIVERING" <=> outbox'.owner # None)
      /\ outbox'.desired = outbox.desired
      /\ outbox'.status = "SYNCED" => hub = outbox.desired
  BY <1>1, <1>4, Known, FailedShape
<1>6. Shapes'
  BY <1>1, <1>2, <1>3, <1>5, Known, WorkerShapes DEF IInv
<1>7. Deliveries'
  BY <1>1, <1>2, <1>3, <1>5, Known, WorkerDeliveries DEF IInv
<1>. QED
  BY <1>6, <1>7 DEF IInv

LEMMA CircuitResetsKeeps == ASSUME IInv, NEW w \in Workers, CircuitResets(w) PROVE IInv'
<1>1. UNCHANGED <<ledger, state, outbox, req, hub, late>>
  BY DEF CircuitResets
<1>2. work[w] \in Worker
  BY Known DEF TypeOK
<1>3. PICK v : v = [work[w] EXCEPT !.open = FALSE]
  OBVIOUS
<1>4. v \in Worker /\ v.pc = work[w].pc /\ v.payload = work[w].payload
  BY <1>2, <1>3, Zenon DEF Worker
<1>5. work' = [work EXCEPT ![w] = v]
  BY <1>3, Zenon DEF CircuitResets
<1>6. Moved(w, work[w].pc, work[w].payload)
  BY <1>4, <1>5, Known, ReplacedWorker
<1>7. /\ work[w].payload \in Payloads /\ Fits(work[w].pc, work[w].payload)
      /\ work[w].pc \in Labels
  BY <1>2, Known DEF Fits, Labels, Worker, IInv, Shapes, CyclesCarry
<1>8. Shapes'
  BY <1>1, <1>6, <1>7, Known, WorkerShapes DEF IInv
<1>9. /\ work[w].pc \in {"POST", "COMPLETE", "FAIL"} => Behind(work[w].payload)
      /\ work[w].pc = "COMPLETE" => hub.rev >= work[w].payload.rev
  BY DEF IInv, Deliveries, SentBehind, Sending, AnswerKept
<1>10. Deliveries'
  BY <1>1, <1>6, <1>7, <1>9, Known, WorkerDeliveries DEF IInv
<1>. QED
  BY <1>8, <1>10 DEF IInv

LEMMA RestartKeeps == ASSUME IInv, NEW w \in Workers, Restart(w) PROVE IInv'
<1>1. UNCHANGED <<ledger, state, outbox, req, hub>> /\ work' = [work EXCEPT ![w] = Fresh]
  BY DEF Restart
<1>2. Fresh \in Worker /\ Fresh.pc = "IDLE" /\ Fresh.payload = NoPayload
  BY LimitsAssumption, SnapshotFacts, SMT DEF Fresh, Worker
<1>3. Moved(w, "IDLE", NoPayload)
  BY <1>1, <1>2, Known, ReplacedWorker
<1>4. Fits("IDLE", NoPayload) /\ NoPayload \in Payloads /\ "IDLE" \in Labels
  BY SnapshotFacts DEF Fits, Labels
<1>5. late' \subseteq Payloads /\ \A p \in late' : Behind(p)
  <2>1. CASE late' = late
    BY <2>1, Known
  <2>2. CASE work[w].pc = "POST" /\ late' = Underway(late \cup {work[w].payload})
    <3>1. work[w].payload \in Payloads /\ Behind(work[w].payload)
      BY <2>2, Known DEF IInv, Deliveries, SentBehind, Sending
    <3>2. late' \subseteq late \cup {work[w].payload}
      BY <2>2, Zenon DEF Underway
    <3>. QED
      BY <3>1, <3>2, Known
  <2>. QED
    BY <2>1, <2>2, Zenon DEF Restart, At
<1>6. Shapes'
  BY <1>1, <1>3, <1>4, <1>5, Known, WorkerShapes DEF IInv
<1>7. Deliveries'
  BY <1>1, <1>3, <1>4, <1>5, Known, WorkerDeliveries DEF IInv
<1>. QED
  BY <1>6, <1>7 DEF IInv

-----------------------------------------------------------------------------
(* The other steps.                                                        *)

LEMMA LateLandsKeeps == ASSUME IInv, NEW p \in late, LateLands(p) PROVE IInv'
<1>1. /\ UNCHANGED <<ledger, state, outbox, req, work>> /\ hub' = Kept(p)
      /\ late' \subseteq late
  BY Zenon DEF LateLands, Underway
<1>2. /\ hub' \in Payloads /\ Behind(hub') /\ hub'.rev >= hub.rev
      /\ outbox.status = "SYNCED" => hub' = outbox.desired
  BY <1>1, Known, KeptHub
<1>3. Shapes'
  <2>1. late' \subseteq Payloads
    BY <1>1, Known
  <2>. QED
    BY <1>1, <1>2, <2>1, Zenon DEF IInv, Shapes, TypeOK, RequestsKeyed, CyclesCarry
<1>4. \A w \in Workers : work[w].pc = "COMPLETE" => hub'.rev >= work[w].payload.rev
  <2>1. TAKE w \in Workers
  <2>2. work[w].payload.rev \in Int /\ hub.rev \in Int /\ hub'.rev \in Int
    BY <1>2, Known, SnapshotFacts
  <2>. QED
    BY <1>2, <2>2 DEF IInv, Deliveries, AnswerKept
<1>5. Deliveries'
  <2>1. \A w \in Workers : work[w].pc \in {"POST", "COMPLETE", "FAIL"} => Behind(work[w].payload)
    BY DEF IInv, Deliveries, SentBehind, Sending
  <2>2. \A q \in late' : Behind(q)
    BY <1>1, Known
  <2>. QED
    BY <1>1, <1>2, <1>4, <2>1, <2>2, SameDesired DEF IInv
<1>. QED
  BY <1>3, <1>5 DEF IInv

LEMMA ManualRetryKeeps == ASSUME IInv, ManualRetry PROVE IInv'
<1>1. UNCHANGED <<ledger, state, req, work, hub, late>>
  BY DEF ManualRetry
<1>2. PICK a : a = Released(outbox)
  OBVIOUS
<1>3. a \in Row /\ a.owner = None /\ a.desired = outbox.desired
  BY <1>2, Known, ReleasedShape
<1>4. PICK b : b = [a EXCEPT !.status = "PENDING"]
  OBVIOUS
<1>5. b \in Row /\ b.owner = None /\ b.desired = outbox.desired /\ b.status = "PENDING"
  BY <1>3, <1>4, SMT DEF Row
<1>6. outbox' = [b EXCEPT !.attempts = 0]
  BY <1>2, <1>4, Zenon DEF ManualRetry
<1>7. /\ outbox' \in Row /\ outbox'.owner = None /\ outbox'.desired = outbox.desired
      /\ outbox'.status = "PENDING"
  BY <1>5, <1>6, LimitsAssumption, SMT DEF Row
<1>8. Shapes'
  BY <1>1, <1>7, Zenon DEF IInv, Shapes, TypeOK, RequestsKeyed, CyclesCarry
<1>9. Deliveries'
  <2>1. \A w \in Workers : work[w].pc \in {"POST", "COMPLETE", "FAIL"} => Behind(work[w].payload)
    BY DEF IInv, Deliveries, SentBehind, Sending
  <2>2. \A w \in Workers : work[w].pc = "COMPLETE" => hub.rev >= work[w].payload.rev
    BY DEF IInv, Deliveries, AnswerKept
  <2>. QED
    BY <1>1, <1>7, <2>1, <2>2, Known, SameDesired DEF IInv
<1>. QED
  BY <1>8, <1>9 DEF IInv

\* A request that reads or gives up leaves the row and the deliveries alone.
LEMMA RequestKeeps ==
    ASSUME IInv, NEW r \in Requests, NEW q \in Request, q.pc = "COMMIT" => q.key \in Keys,
           req' = [req EXCEPT ![r] = q], UNCHANGED <<ledger, state, outbox, work, hub, late>>
    PROVE  IInv'
<1>1. req' \in [Requests -> Request] /\ RequestsKeyed'
  BY DEF IInv, Shapes, TypeOK, RequestsKeyed
<1>2. Shapes'
  BY <1>1, Zenon DEF IInv, Shapes, TypeOK, CyclesCarry
<1>3. Deliveries'
  BY Zenon DEF IInv, Deliveries, HubBehind, LateBehind, SentBehind, Sending, AnswerKept,
     SyncedIsDelivered, Behind
<1>. QED
  BY <1>2, <1>3 DEF IInv

LEMMA QuietRequest == Quiet \in Request /\ Quiet.pc = "IDLE"
BY LimitsAssumption, SMT DEF Quiet, Request

LEMMA ReadKeeps == ASSUME IInv, NEW r \in Requests, Read(r) PROVE IInv'
<1>1. PICK key \in Keys, enabled \in Modes :
          req' = [req EXCEPT ![r] =
              [pc |-> "COMMIT", key |-> key, expected |-> state.event, enabled |-> enabled,
               rev |-> IF enabled THEN state.rev + 1 ELSE state.rev]]
  BY DEF Read
<1>2. state.event \in 0 .. MaxEvents /\ state.rev \in Nat
  BY Known, SnapshotFacts
<1>3. PICK n \in Nat : n = IF enabled THEN state.rev + 1 ELSE state.rev
  BY <1>2
<1>4. PICK q : q = [pc |-> "COMMIT", key |-> key, expected |-> state.event,
                    enabled |-> enabled, rev |-> n]
  OBVIOUS
<1>5. enabled \in BOOLEAN
  BY <1>1, ModesAssumption
<1>6. q \in Request /\ q.key \in Keys
  BY <1>2, <1>4, <1>5, Zenon DEF Request
<1>7. req' = [req EXCEPT ![r] = q]
  BY <1>1, <1>3, <1>4, Zenon
<1>8. UNCHANGED <<ledger, state, outbox, work, hub, late>>
  BY DEF Read
<1>. QED
  BY <1>6, <1>7, <1>8, RequestKeeps

LEMMA AbandonKeeps == ASSUME IInv, NEW r \in Requests, Abandon(r) PROVE IInv'
BY QuietRequest, RequestKeeps DEF Abandon

LEMMA CommitKeeps == ASSUME IInv, NEW r \in Requests, Commit(r) PROVE IInv'
<1>1. req' = [req EXCEPT ![r] = Quiet] /\ UNCHANGED <<work, hub, late>>
  BY DEF Commit
<1>2. CASE UNCHANGED <<ledger, state, outbox>>
  BY <1>1, <1>2, QuietRequest, RequestKeeps
<1>3. CASE ~UNCHANGED <<ledger, state, outbox>>
  <2>1. PICK next : next = [event |-> Len(ledger) + 1, rev |-> req[r].rev]
    OBVIOUS
  <2>2. /\ ledger' = Append(ledger, [key |-> req[r].key, expected |-> req[r].expected])
        /\ state' = next /\ outbox' \in {outbox, Upserted(next)}
    BY <1>3, <2>1, Zenon DEF Commit
  <2>3. /\ req[r] \in Request /\ req[r].key \in Keys /\ Len(ledger) < MaxEvents
        /\ ledger \in Seq([key : Keys, expected : 0 .. MaxEvents])
    BY DEF Commit, IInv, Shapes, TypeOK, RequestsKeyed
  <2>4. next \in Snapshots
    <3>1. Len(ledger) + 1 \in 0 .. MaxEvents /\ req[r].rev \in Nat
      BY <2>3, LimitsAssumption DEF Request
    <3>. QED
      BY <2>1, <3>1, Zenon DEF Snapshots
  <2>5. /\ ledger' \in Seq([key : Keys, expected : 0 .. MaxEvents])
        /\ Len(ledger') <= MaxEvents
    <3>1. [key |-> req[r].key, expected |-> req[r].expected]
             \in [key : Keys, expected : 0 .. MaxEvents]
      BY <2>3 DEF Request
    <3>. QED
      BY <2>2, <2>3, <3>1, LimitsAssumption
  <2>6. outbox' \in Row /\ (outbox'.status = "DELIVERING" <=> outbox'.owner # None)
    BY <2>2, <2>4, Known, UpsertedShape
  <2>7. req' \in [Requests -> Request] /\ RequestsKeyed'
    BY <1>1, QuietRequest DEF IInv, Shapes, TypeOK, RequestsKeyed
  <2>8. Shapes'
    BY <1>1, <2>2, <2>4, <2>5, <2>6, <2>7, Zenon DEF IInv, Shapes, TypeOK, CyclesCarry
  <2>9. CASE outbox' = outbox
    BY <1>1, <2>8, <2>9, Zenon DEF IInv, Deliveries, HubBehind, LateBehind, SentBehind, Sending,
       AnswerKept, SyncedIsDelivered, Behind
  <2>10. CASE outbox' # outbox
    <3>1. /\ outbox'.desired = next /\ next.rev > outbox.desired.rev
          /\ outbox'.status # "SYNCED"
      BY <2>2, <2>4, <2>10, Known, UpsertedShape
    <3>2. Deliveries'
      BY <1>1, <2>4, <2>8, <3>1, NewerDesired DEF IInv
    <3>. QED
      BY <2>8, <3>2 DEF IInv
  <2>. QED
    BY <2>9, <2>10
<1>. QED
  BY <1>2, <1>3

-----------------------------------------------------------------------------
LEMMA InitDeliveries == Init => Deliveries
BY SMT DEF Init, Deliveries, HubBehind, LateBehind, SentBehind, Sending, AnswerKept,
   SyncedIsDelivered, Behind, NoRow, NoPayload, Fresh

LEMMA StutterKeeps == ASSUME IInv, UNCHANGED vars PROVE IInv'
BY Zenon DEF vars, IInv, Shapes, TypeOK, RequestsKeyed, CyclesCarry, Deliveries, HubBehind,
   LateBehind, SentBehind, Sending, AnswerKept, SyncedIsDelivered, Behind

LEMMA StepKeeps == ASSUME IInv, [Next]_vars PROVE IInv'
<1>1. ASSUME NEW r \in Requests, Change(r) PROVE IInv'
  BY <1>1, ReadKeeps, CommitKeeps, AbandonKeeps DEF Change
<1>2. ASSUME NEW w \in Workers, Cycle(w) PROVE IInv'
  <2>1. CASE StartCycle(w) \/ Ensure(w) \/ Bump(w) \/ Upsert(w)
    BY <2>1, StartCycleKeeps, EnsureKeeps, BumpKeeps, UpsertKeeps
  <2>2. CASE Claim(w) \/ EndCycle(w) \/ Deliver(w) \/ Timeout(w)
    BY <2>2, ClaimKeeps, EndCycleKeeps, DeliverKeeps, TimeoutKeeps
  <2>3. CASE Complete(w) \/ Fail(w) \/ CircuitResets(w) \/ Restart(w)
    BY <2>3, CompleteKeeps, FailKeeps, CircuitResetsKeeps, RestartKeeps
  <2>. QED
    BY <1>2, <2>1, <2>2, <2>3 DEF Cycle
<1>3. ASSUME NEW p \in late, LateLands(p) PROVE IInv'
  BY <1>3, LateLandsKeeps
<1>4. CASE ManualRetry
  BY <1>4, ManualRetryKeeps
<1>. QED
  BY <1>1, <1>2, <1>3, <1>4, StutterKeeps DEF Next

\* The inductive invariant holds throughout.
THEOREM LevelInvariant == Spec => []IInv
<1>1. Init => IInv
  BY InitShapes, InitDeliveries DEF IInv
<1>2. IInv /\ [Next]_vars => IInv'
  BY StepKeeps
<1>. QED
  BY <1>1, <1>2, PTL DEF Spec

\* Every variable keeps its shape, attempts and failures stay within their limits and
\* a row has an owner exactly while it is being delivered, whatever the workers do.
THEOREM LevelTypeCorrect == Spec => []TypeOK
<1>1. IInv => TypeOK
  BY DEF IInv, Shapes
<1>. QED
  BY <1>1, LevelInvariant, PTL

\* A row marked SYNCED is about the snapshot PadlHub has: whatever is delivered twice,
\* late, after its lease or by a worker that restarted, no acknowledgement is for an
\* older level than the row asks for.
THEOREM SyncedMeansDelivered == Spec => []SyncedIsDelivered
<1>1. IInv => SyncedIsDelivered
  BY DEF IInv, Deliveries
<1>. QED
  BY <1>1, LevelInvariant, PTL

-----------------------------------------------------------------------------
(* The ledger. Only a commit appends to it, and what a worker writes on    *)
(* the state leaves its event alone.                                       *)

LEMMA LedgerStep ==
    ASSUME IInv, LedgerLinear, [Next]_vars
    PROVE  LedgerLinear'
<1>1. CASE ledger' = ledger /\ state'.event = state.event
  BY <1>1 DEF LedgerLinear
<1>2. ASSUME NEW r \in Requests, Commit(r), Current(r), ~Recorded(req[r].key)
      PROVE  LedgerLinear'
  <2>1. PICK e : e = [key |-> req[r].key, expected |-> req[r].expected]
    OBVIOUS
  <2>2. /\ ledger' = Append(ledger, e)
        /\ state'.event = Len(ledger) + 1
    BY <1>2, <2>1 DEF Commit
  <2>3. ledger \in Seq([key : Keys, expected : 0 .. MaxEvents])
    BY DEF IInv, Shapes, TypeOK
  <2>4. req[r] \in Request /\ req[r].key \in Keys
    BY <1>2 DEF Commit, IInv, Shapes, TypeOK, RequestsKeyed
  <2>5. e \in [key : Keys, expected : 0 .. MaxEvents]
    BY <2>1, <2>4 DEF Request
  <2>6. /\ Len(ledger') = Len(ledger) + 1 /\ ledger'[Len(ledger) + 1] = e
        /\ DOMAIN ledger' = DOMAIN ledger \cup {Len(ledger) + 1}
        /\ \A n \in DOMAIN ledger : ledger'[n] = ledger[n]
    BY <2>2, <2>3, <2>5
  <2>7. e.expected = Len(ledger) /\ \A n \in DOMAIN ledger : ledger[n].key # e.key
    BY <1>2, <2>1 DEF Current, LedgerLinear, Recorded
  <2>8. \A n \in DOMAIN ledger' : ledger'[n].expected = n - 1
    BY <2>3, <2>6, <2>7 DEF LedgerLinear
  <2>9. \A m, n \in DOMAIN ledger' : ledger'[m].key = ledger'[n].key => m = n
    BY <2>6, <2>7, Zenon DEF LedgerLinear
  <2>. QED
    BY <2>2, <2>6, <2>8, <2>9 DEF LedgerLinear
<1>3. ASSUME NEW w \in Workers, Bump(w) PROVE LedgerLinear'
  <2>1. ledger' = ledger /\ state'.event = state.event
    BY <1>3, Known, SMT DEF Bump, Snapshots
  <2>. QED
    BY <1>1, <2>1
<1>4. ASSUME NEW r \in Requests, Change(r) PROVE LedgerLinear'
  <2>1. CASE Read(r) \/ Abandon(r)
    BY <1>1, <2>1 DEF Read, Abandon
  <2>2. CASE Commit(r)
    BY <1>1, <1>2, <2>2, Zenon DEF Commit
  <2>. QED
    BY <1>4, <2>1, <2>2 DEF Change
<1>5. ASSUME NEW w \in Workers, Cycle(w) PROVE LedgerLinear'
  <2>1. CASE UNCHANGED <<ledger, state>>
    BY <1>1, <2>1
  <2>2. CASE ~UNCHANGED <<ledger, state>>
    BY <1>3, <1>5, <2>2, Zenon DEF Cycle, StartCycle, Ensure, Upsert, Claim, EndCycle, Deliver,
       Timeout, Complete, Fail, CircuitResets, Restart
  <2>. QED
    BY <2>1, <2>2
<1>6. ASSUME UNCHANGED vars \/ ManualRetry \/ \E p \in late : LateLands(p) PROVE LedgerLinear'
  BY <1>1, <1>6 DEF vars, ManualRetry, LateLands
<1>. QED
  BY <1>4, <1>5, <1>6 DEF Next

\* Rating changes are serialised: each one is made from the level its author saw and
\* recorded once per key, and the state is that of the last one, for any number of
\* changes running at once and however they are abandoned.
THEOREM LedgerIsLinear == Spec => []LedgerLinear
<1>1. Init => LedgerLinear
  BY DEF Init, LedgerLinear
<1>2. IInv /\ LedgerLinear /\ [Next]_vars => LedgerLinear'
  BY LedgerStep
<1>. QED
  BY <1>1, <1>2, LevelInvariant, PTL DEF Spec

-----------------------------------------------------------------------------
(* Levels reach PadlHub in order: what is under way carries later events   *)
(* with higher revisions, because whoever raises the revision the row asks *)
(* for does not take it back to an earlier event.                          *)

RequestClose(q) ==
    q.pc = "COMMIT" => q.rev <= outbox.desired.rev + (IF q.enabled THEN 2 ELSE 1)
CycleClose(c) ==
    c.pc \in {"ENSURE", "BUMP", "UPSERT"} =>
        c.payload.rev <= outbox.desired.rev + 1 /\ c.payload.event <= state.event
UpsertForward(c) ==
    c.pc = "UPSERT" =>
        c.payload.rev <= outbox.desired.rev \/ outbox.desired.event <= c.payload.event

\* Nobody is more than a change ahead of the row, and what a worker is about to ask
\* for is either not newer than the row or not older than its event.
Raising ==
    /\ state.rev <= outbox.desired.rev + 1 /\ outbox.desired.event <= state.event
    /\ \A r \in Requests : RequestClose(req[r])
    /\ \A w \in Workers : CycleClose(work[w]) /\ UpsertForward(work[w])

Sent == {hub} \cup late \cup {work[w].payload : w \in Sending}
SentInOrder ==
    /\ \A p \in Sent : p.event <= outbox.desired.event
    /\ \A p, q \in Sent : p.rev >= q.rev => p.event >= q.event

Order == Raising /\ SentInOrder

LEMMA InitOrder == Init => Order
BY SMT DEF Init, Order, Raising, RequestClose, CycleClose, UpsertForward, SentInOrder, Sent,
   Sending, NoRow, NoPayload, Quiet, Fresh

\* A snapshot under way is one the row asked for, or asks for now.
LEMMA SentFacts ==
    ASSUME IInv
    PROVE  Sent \subseteq Payloads /\ \A p \in Sent : Behind(p)
BY Known DEF Sent, Sending, IInv, Deliveries, SentBehind

LEMMA SentExtended ==
    ASSUME IInv, IInv', SentInOrder, Sent' \subseteq Sent \cup {outbox.desired},
           outbox'.desired.event >= outbox.desired.event
    PROVE  SentInOrder'
<1>1. /\ outbox.desired \in Payloads /\ outbox.desired.event \in Int
      /\ outbox.desired.rev \in Int /\ outbox'.desired.event \in Int
  <2>1. outbox.desired \in Payloads /\ outbox'.desired \in Payloads
    BY Known DEF IInv, Shapes, TypeOK, Row
  <2>. QED
    BY <2>1, SnapshotFacts
<1>2. \A p \in Sent \cup {outbox.desired} :
          /\ p.event \in Int /\ p.rev \in Int /\ Behind(p)
          /\ p.event <= outbox.desired.event
  <2>1. \A p \in Sent : p.event \in Int /\ p.rev \in Int
    BY SentFacts, SnapshotFacts
  <2>. QED
    BY <1>1, <2>1, SentFacts DEF SentInOrder, Behind
<1>3. \A p, q \in Sent \cup {outbox.desired} : p.rev >= q.rev => p.event >= q.event
  <2>1. TAKE p, q \in Sent \cup {outbox.desired}
  <2>2. CASE p \in Sent /\ q \in Sent
    BY <2>2 DEF SentInOrder
  <2>3. CASE p = outbox.desired
    BY <1>1, <1>2, <2>3
  <2>4. CASE p \in Sent /\ q = outbox.desired
    BY <1>1, <1>2, <2>4 DEF Behind
  <2>. QED
    BY <2>2, <2>3, <2>4
<1>4. \A p \in Sent' : p.event <= outbox'.desired.event
  BY <1>1, <1>2
<1>5. \A p, q \in Sent' : p.rev >= q.rev => p.event >= q.event
  BY <1>3
<1>. QED
  BY <1>4, <1>5 DEF SentInOrder

\* The row asks for what it asked for, or for a higher revision of no earlier event.
Later ==
    /\ outbox'.desired.event >= outbox.desired.event
    /\ outbox'.desired # outbox.desired => outbox'.desired.rev > outbox.desired.rev
    /\ state'.event >= state.event

\* What was close to the row, or forward of it, still is: a local state nobody touches.
LEMMA StaysClose ==
    ASSUME IInv, IInv', Later
    PROVE  /\ \A q \in Request : RequestClose(q) => RequestClose(q)'
           /\ \A c \in Worker : CycleClose(c) => CycleClose(c)'
           /\ \A c \in Worker : CycleClose(c) /\ UpsertForward(c) => UpsertForward(c)'
<1>1. /\ outbox.desired.rev \in Int /\ outbox'.desired.rev \in Int
      /\ outbox.desired.event \in Int /\ outbox'.desired.event \in Int
      /\ state.event \in Int /\ state'.event \in Int
  <2>1. /\ outbox.desired \in Payloads /\ outbox'.desired \in Payloads
        /\ state \in Snapshots /\ state' \in Snapshots
    BY Known DEF IInv, Shapes, TypeOK, Row
  <2>. QED
    BY <2>1, SnapshotFacts
<1>2. \A q \in Request : q.rev \in Int
  BY DEF Request
<1>3. \A c \in Worker : c.payload.rev \in Int /\ c.payload.event \in Int
  <2>1. \A c \in Worker : c.payload \in Payloads
    BY DEF Worker
  <2>. QED
    BY <2>1, SnapshotFacts
<1>4. outbox'.desired.rev >= outbox.desired.rev
  BY <1>1 DEF Later
<1>5. \A q \in Request : RequestClose(q) => RequestClose(q)'
  BY <1>1, <1>2, <1>4 DEF RequestClose
<1>6. \A c \in Worker : CycleClose(c) => CycleClose(c)'
  BY <1>1, <1>3, <1>4 DEF CycleClose, Later
<1>7. ASSUME NEW c \in Worker, CycleClose(c), UpsertForward(c) PROVE UpsertForward(c)'
  <2>1. CASE outbox'.desired = outbox.desired
    BY <1>7, <2>1 DEF UpsertForward
  <2>2. CASE outbox'.desired # outbox.desired
    BY <1>1, <1>3, <1>7, <2>2 DEF UpsertForward, CycleClose, Later
  <2>. QED
    BY <2>1, <2>2
<1>. QED
  BY <1>5, <1>6, <1>7

\* What Order asks of a step.
LEMMA OrderKept ==
    ASSUME IInv, IInv', Order, Later,
           state'.rev <= outbox'.desired.rev + 1, outbox'.desired.event <= state'.event,
           \A r \in Requests : req'[r] = req[r] \/ RequestClose(req'[r]),
           \A w \in Workers :
               work'[w] = work[w] \/ (CycleClose(work'[w]) /\ UpsertForward(work'[w])),
           Sent' \subseteq Sent \cup {outbox.desired}
    PROVE  Order'
<1>1. SentInOrder'
  BY SentExtended DEF Order, Later
<1>2. ASSUME NEW r \in Requests PROVE RequestClose(req[r])'
  <2>1. PICK q : q = req'[r]
    OBVIOUS
  <2>2. q \in Request /\ RequestClose(q)
    BY <1>2, <2>1, Zenon DEF IInv, Shapes, TypeOK, Order, Raising
  <2>3. RequestClose(q)'
    BY <2>2, StaysClose
  <2>. QED
    BY <2>1, <2>3 DEF RequestClose
<1>3. ASSUME NEW w \in Workers PROVE (CycleClose(work[w]) /\ UpsertForward(work[w]))'
  <2>1. PICK c : c = work'[w]
    OBVIOUS
  <2>2. c \in Worker /\ CycleClose(c) /\ UpsertForward(c)
    BY <1>3, <2>1, Zenon DEF IInv, Shapes, TypeOK, Order, Raising
  <2>3. CycleClose(c)' /\ UpsertForward(c)'
    BY <2>2, StaysClose
  <2>. QED
    BY <2>1, <2>3 DEF CycleClose, UpsertForward
<1>. QED
  BY <1>1, <1>2, <1>3 DEF Order, Raising

\* The same for a worker's step that leaves the row's snapshot and the state alone.
LEMMA WorkerOrder ==
    ASSUME IInv, IInv', Order, NEW w \in Workers, NEW pc, NEW p, Moved(w, pc, p),
           UNCHANGED <<state, req>>, outbox'.desired = outbox.desired,
           hub' \in Sent, late' \subseteq Sent,
           pc \in {"POST", "COMPLETE", "FAIL"} => p \in Sent \cup {outbox.desired},
           pc \in {"ENSURE", "BUMP", "UPSERT"} =>
               p.rev <= outbox.desired.rev + 1 /\ p.event <= state.event,
           pc # "UPSERT"
    PROVE  Order'
<1>1. Later
  <2>1. outbox.desired.event \in Int /\ state.event \in Int
    BY Known, SnapshotFacts
  <2>. QED
    BY <2>1 DEF Later
<1>2. Sent' \subseteq Sent \cup {outbox.desired}
  BY Zenon DEF Sent, Sending, Moved
<1>3. \A v \in Workers :
          work'[v] = work[v] \/ (CycleClose(work'[v]) /\ UpsertForward(work'[v]))
  BY Zenon DEF Moved, CycleClose, UpsertForward
<1>. QED
  BY <1>1, <1>2, <1>3, OrderKept DEF Order, Raising

\* One lemma per step.

LEMMA StartCycleOrders ==
    ASSUME IInv, IInv', Order, NEW w \in Workers, StartCycle(w) PROVE Order'
<1>1. Moved(w, "ENSURE", state) /\ UNCHANGED <<state, outbox, req, hub, late>>
  BY Known, SnapshotFacts, GotoWithMoves DEF StartCycle, Labels
<1>2. state.rev <= outbox.desired.rev + 1 /\ state.event <= state.event
  <2>1. state.event \in Int
    BY Known, SnapshotFacts
  <2>. QED
    BY <2>1 DEF Order, Raising
<1>. QED
  BY <1>1, <1>2, WorkerOrder DEF Sent

LEMMA EnsureOrders ==
    ASSUME IInv, IInv', Order, NEW w \in Workers, Ensure(w) PROVE Order'
<1>1. UNCHANGED <<state, outbox, req, hub, late>> /\ work[w].pc = "ENSURE"
  BY DEF Ensure, At
<1>2. CASE Goto(w, "CLAIM")
  <2>1. Moved(w, "CLAIM", NoPayload)
    BY <1>2, Known, GotoMoves DEF Labels
  <2>. QED
    BY <1>1, <2>1, WorkerOrder DEF Sent
<1>3. CASE GotoWith(w, "BUMP", [work[w].payload EXCEPT !.rev = Effective(work[w].payload)])
  <2>1. /\ work[w].payload \in Snapshots /\ work[w].payload.rev \in Nat
        /\ outbox.desired.rev \in Int
    BY <1>1, Known, SnapshotFacts DEF IInv, Shapes, CyclesCarry
  <2>2. /\ work[w].payload.rev <= outbox.desired.rev + 1
        /\ work[w].payload.event <= state.event
    BY <1>1 DEF Order, Raising, CycleClose
  <2>3. PICK n : n = Effective(work[w].payload)
    OBVIOUS
  <2>4. n \in Nat /\ n <= outbox.desired.rev + 1
    BY <2>1, <2>2, <2>3 DEF Effective
  <2>5. PICK p : p = [work[w].payload EXCEPT !.rev = n]
    OBVIOUS
  <2>6. p \in Snapshots /\ p.rev = n /\ p.event = work[w].payload.event
    BY <2>1, <2>4, <2>5 DEF Snapshots
  <2>7. Moved(w, "BUMP", p)
    BY <1>3, <2>3, <2>5, <2>6, Known, SnapshotFacts, GotoWithMoves DEF Labels
  <2>. QED
    BY <1>1, <2>2, <2>4, <2>6, <2>7, WorkerOrder DEF Sent
<1>. QED
  BY <1>2, <1>3 DEF Ensure

\* The state a worker writes to is still of the event it read, which is no earlier than
\* the one the row asks for.
LEMMA BumpOrders ==
    ASSUME IInv, IInv', Order, NEW w \in Workers, Bump(w) PROVE Order'
<1>1. UNCHANGED <<outbox, req, hub, late>> /\ work[w].pc = "BUMP"
  BY DEF Bump, At
<1>2. CASE state' = state /\ Goto(w, "CLAIM")
  <2>1. Moved(w, "CLAIM", NoPayload)
    BY <1>2, Known, GotoMoves DEF Labels
  <2>. QED
    BY <1>1, <1>2, <2>1, WorkerOrder DEF Sent
<1>3. CASE /\ StateUnchanged(w) /\ state' = [state EXCEPT !.rev = work[w].payload.rev]
           /\ Goto(w, "UPSERT")
  <2>1. Moved(w, "UPSERT", work[w].payload)
    BY <1>3, Known, GotoMoves DEF Labels
  <2>2. state'.event = state.event /\ state'.rev = work[w].payload.rev
    BY <1>3, Known DEF Snapshots
  <2>3. state.event \in Int /\ outbox.desired.event \in Int
    BY Known, SnapshotFacts
  <2>4. /\ work[w].payload.rev <= outbox.desired.rev + 1
        /\ work[w].payload.event <= state.event
        /\ outbox.desired.event <= work[w].payload.event
    BY <1>1, <1>3 DEF Order, Raising, CycleClose, StateUnchanged
  <2>5. work'[w].pc = "UPSERT" /\ work'[w].payload = work[w].payload
    BY <2>1 DEF Moved
  <2>6. CycleClose(work'[w]) /\ UpsertForward(work'[w])
    BY <2>4, <2>5 DEF CycleClose, UpsertForward
  <2>7. \A v \in Workers :
            work'[v] = work[v] \/ (CycleClose(work'[v]) /\ UpsertForward(work'[v]))
    BY <2>1, <2>6, Zenon DEF Moved
  <2>8. Sent' \subseteq Sent
    BY <1>1, <2>1, Zenon DEF Sent, Sending, Moved
  <2>9. Later
    BY <1>1, <2>2, <2>3 DEF Later
  <2>10. state'.rev <= outbox'.desired.rev + 1 /\ outbox'.desired.event <= state'.event
    BY <1>1, <2>2, <2>4 DEF Order, Raising
  <2>. QED
    BY <1>1, <2>7, <2>8, <2>9, <2>10, OrderKept
<1>. QED
  BY <1>2, <1>3 DEF Bump

LEMMA UpsertOrders ==
    ASSUME IInv, IInv', Order, NEW w \in Workers, Upsert(w) PROVE Order'
<1>1. /\ UNCHANGED <<state, req, hub, late>> /\ work[w].pc = "UPSERT"
      /\ outbox' = Upserted(work[w].payload)
  BY DEF Upsert, At
<1>2. Moved(w, "CLAIM", NoPayload)
  BY Known, GotoMoves DEF Upsert, Labels
<1>3. CASE outbox' = outbox
  BY <1>1, <1>2, <1>3, WorkerOrder DEF Sent
<1>4. CASE outbox' # outbox
  <2>1. work[w].payload \in Snapshots
    BY <1>1 DEF IInv, Shapes, CyclesCarry
  <2>2. outbox'.desired = work[w].payload /\ work[w].payload.rev > outbox.desired.rev
    BY <1>1, <1>4, <2>1, Known, UpsertedShape
  <2>3. /\ work[w].payload.rev \in Int /\ work[w].payload.event \in Int
        /\ outbox.desired.rev \in Int /\ outbox.desired.event \in Int
        /\ state.event \in Int /\ state.rev \in Int
    BY <2>1, Known, SnapshotFacts
  <2>4. /\ outbox.desired.event <= work[w].payload.event
        /\ work[w].payload.event <= state.event
    BY <1>1, <2>2, <2>3 DEF Order, Raising, CycleClose, UpsertForward
  <2>5. Later
    BY <1>1, <2>2, <2>3, <2>4 DEF Later
  <2>6. state'.rev <= outbox'.desired.rev + 1 /\ outbox'.desired.event <= state'.event
    BY <1>1, <2>2, <2>3, <2>4 DEF Order, Raising
  <2>7. \A v \in Workers :
            work'[v] = work[v] \/ (CycleClose(work'[v]) /\ UpsertForward(work'[v]))
    BY <1>2, Zenon DEF Moved, CycleClose, UpsertForward
  <2>8. Sent' \subseteq Sent
    BY <1>1, <1>2, Zenon DEF Sent, Sending, Moved
  <2>. QED
    BY <1>1, <2>5, <2>6, <2>7, <2>8, OrderKept
<1>. QED
  BY <1>3, <1>4

\* A claim takes away what the row asks for.
LEMMA ClaimOrders ==
    ASSUME IInv, IInv', Order, NEW w \in Workers, Claim(w) PROVE Order'
<1>1. UNCHANGED <<state, req, hub, late>>
  BY DEF Claim
<1>2. outbox'.desired = outbox.desired
  <2>1. PICK n : outbox' = [outbox EXCEPT !.status = "DELIVERING", !.owner = w,
                                !.inFlight = outbox.desired, !.attempts = n]
    BY Zenon DEF Claim
  <2>. QED
    BY <2>1, Known DEF Row
<1>3. PICK pc \in {"POST", "IDLE"}, p \in {outbox.desired, NoPayload} :
          /\ Moved(w, pc, p) /\ (pc = "POST" => p = outbox.desired)
  <2>1. CASE GotoWith(w, "POST", outbox.desired)
    BY <2>1, Known, GotoWithMoves DEF Labels
  <2>2. CASE Goto(w, "IDLE")
    BY <2>2, Known, GotoMoves DEF Labels
  <2>. QED
    BY <2>1, <2>2 DEF Claim
<1>. QED
  BY <1>1, <1>2, <1>3, WorkerOrder DEF Sent

LEMMA EndCycleOrders ==
    ASSUME IInv, IInv', Order, NEW w \in Workers, EndCycle(w) PROVE Order'
<1>1. UNCHANGED <<state, outbox, req, hub, late>> /\ Moved(w, "IDLE", NoPayload)
  BY Known, GotoMoves DEF EndCycle, Labels
<1>. QED
  BY <1>1, WorkerOrder DEF Sent

LEMMA DeliverOrders ==
    ASSUME IInv, IInv', Order, NEW w \in Workers, Deliver(w) PROVE Order'
<1>1. /\ UNCHANGED <<state, outbox, req>> /\ work[w].pc = "POST"
      /\ late' \subseteq late /\ hub' \in {hub, work[w].payload}
  BY Zenon DEF Deliver, Underway, Kept, At
<1>2. work[w].payload \in Sent
  BY <1>1 DEF Sent, Sending
<1>3. PICK pc \in {"FAIL", "COMPLETE"} : Moved(w, pc, work[w].payload)
  BY Known, GotoMoves, SMT DEF Deliver, Labels
<1>. QED
  BY <1>1, <1>2, <1>3, WorkerOrder DEF Sent

LEMMA TimeoutOrders ==
    ASSUME IInv, IInv', Order, NEW w \in Workers, Timeout(w) PROVE Order'
<1>1. /\ UNCHANGED <<state, outbox, req, hub>> /\ work[w].pc = "POST"
      /\ late' \subseteq late \cup {work[w].payload}
  BY Zenon DEF Timeout, Underway, At
<1>2. work[w].payload \in Sent
  BY <1>1 DEF Sent, Sending
<1>3. Moved(w, "FAIL", work[w].payload)
  BY Known, GotoMoves DEF Timeout, Labels
<1>. QED
  BY <1>1, <1>2, <1>3, WorkerOrder DEF Sent

LEMMA CompleteOrders ==
    ASSUME IInv, IInv', Order, NEW w \in Workers, Complete(w) PROVE Order'
<1>1. UNCHANGED <<state, req, hub, late>> /\ work[w].pc = "COMPLETE"
  BY DEF Complete, At
<1>2. outbox'.desired = outbox.desired
  BY Known, CompletedShape DEF Complete
<1>3. work[w].payload \in Sent
  BY <1>1 DEF Sent, Sending
<1>4. CASE Goto(w, "FAIL")
  <2>1. Moved(w, "FAIL", work[w].payload)
    BY <1>4, Known, GotoMoves DEF Labels
  <2>. QED
    BY <1>1, <1>2, <1>3, <2>1, WorkerOrder DEF Sent
<1>5. CASE work' = [work EXCEPT ![w] = [Fresh EXCEPT !.pc = "CLAIM"]]
  <2>1. Fresh \in Worker /\ Fresh.payload = NoPayload
    BY LimitsAssumption, SnapshotFacts, SMT DEF Fresh, Worker
  <2>2. PICK v : v = [Fresh EXCEPT !.pc = "CLAIM"]
    OBVIOUS
  <2>3. v \in Worker /\ v.pc = "CLAIM" /\ v.payload = NoPayload
    BY <2>1, <2>2, Zenon DEF Worker
  <2>4. Moved(w, "CLAIM", NoPayload)
    BY <1>5, <2>2, <2>3, Known, ReplacedWorker
  <2>. QED
    BY <1>1, <1>2, <2>4, WorkerOrder DEF Sent
<1>. QED
  BY <1>4, <1>5 DEF Complete

LEMMA FailOrders ==
    ASSUME IInv, IInv', Order, NEW w \in Workers, Fail(w) PROVE Order'
<1>1. UNCHANGED <<state, req, hub, late>>
  BY DEF Fail
<1>2. PICK pc \in {"CLAIM", "IDLE"} : Moved(w, pc, NoPayload)
  BY Known, CountedMoves, Zenon DEF Fail
<1>3. outbox' = outbox \/ outbox' = Failed(work[w].payload)
  BY Zenon DEF Fail
<1>4. outbox'.desired = outbox.desired
  BY <1>3, Known, FailedShape
<1>. QED
  BY <1>1, <1>2, <1>4, WorkerOrder DEF Sent

LEMMA CircuitResetsOrders ==
    ASSUME IInv, IInv', Order, NEW w \in Workers, CircuitResets(w) PROVE Order'
<1>1. UNCHANGED <<state, outbox, req, hub, late>>
  BY DEF CircuitResets
<1>2. PICK v : v = [work[w] EXCEPT !.open = FALSE]
  OBVIOUS
<1>3. v \in Worker /\ v.pc = work[w].pc /\ v.payload = work[w].payload
  BY <1>2, Known, Zenon DEF Worker, TypeOK
<1>4. Moved(w, work[w].pc, work[w].payload)
  BY <1>2, <1>3, Known, ReplacedWorker, Zenon DEF CircuitResets
<1>5. \A u \in Workers :
          work'[u] = work[u] \/ (CycleClose(work'[u]) /\ UpsertForward(work'[u]))
  BY <1>4, Zenon DEF Moved, CycleClose, UpsertForward, Order, Raising
<1>6. Sent' \subseteq Sent
  BY <1>1, <1>4, Zenon DEF Sent, Sending, Moved
<1>7. Later
  BY <1>1, Known, SnapshotFacts DEF Later
<1>. QED
  BY <1>1, <1>5, <1>6, <1>7, OrderKept DEF Order, Raising

LEMMA RestartOrders ==
    ASSUME IInv, IInv', Order, NEW w \in Workers, Restart(w) PROVE Order'
<1>1. UNCHANGED <<state, outbox, req, hub>> /\ work' = [work EXCEPT ![w] = Fresh]
  BY DEF Restart
<1>2. Fresh \in Worker /\ Fresh.pc = "IDLE" /\ Fresh.payload = NoPayload
  BY LimitsAssumption, SnapshotFacts, SMT DEF Fresh, Worker
<1>3. Moved(w, "IDLE", NoPayload)
  BY <1>1, <1>2, Known, ReplacedWorker
<1>4. late' \subseteq Sent
  BY Zenon DEF Restart, Underway, At, Sent, Sending
<1>. QED
  BY <1>1, <1>3, <1>4, WorkerOrder DEF Sent

\* A step that touches neither the row's snapshot nor the state nor a local state.
LEMMA QuietOrders ==
    ASSUME IInv, IInv', Order, UNCHANGED <<state, req, work>>,
           outbox'.desired = outbox.desired, hub' \in Sent, late' \subseteq Sent
    PROVE  Order'
<1>1. Sent' \subseteq Sent
  BY Zenon DEF Sent, Sending
<1>2. Later
  BY Known, SnapshotFacts DEF Later
<1>. QED
  BY <1>1, <1>2, OrderKept DEF Order, Raising

LEMMA LateLandsOrders ==
    ASSUME IInv, IInv', Order, NEW p \in late, LateLands(p) PROVE Order'
<1>1. /\ UNCHANGED <<state, outbox, req, work>> /\ late' \subseteq late
      /\ hub' \in {hub, p}
  BY Zenon DEF LateLands, Underway, Kept
<1>. QED
  BY <1>1, QuietOrders DEF Sent

LEMMA ManualRetryOrders ==
    ASSUME IInv, IInv', Order, ManualRetry PROVE Order'
<1>1. UNCHANGED <<state, req, work, hub, late>>
  BY DEF ManualRetry
<1>2. PICK a : a = Released(outbox)
  OBVIOUS
<1>3. a \in Row /\ a.desired = outbox.desired
  BY <1>2, Known, ReleasedShape
<1>4. outbox' = [a EXCEPT !.status = "PENDING", !.attempts = 0]
  BY <1>2, Zenon DEF ManualRetry
<1>5. outbox'.desired = outbox.desired
  BY <1>3, <1>4 DEF Row
<1>. QED
  BY <1>1, <1>5, QuietOrders DEF Sent

LEMMA ReadOrders ==
    ASSUME IInv, IInv', Order, NEW r \in Requests, Read(r) PROVE Order'
<1>1. PICK key \in Keys, enabled \in Modes :
          req' = [req EXCEPT ![r] =
              [pc |-> "COMMIT", key |-> key, expected |-> state.event, enabled |-> enabled,
               rev |-> IF enabled THEN state.rev + 1 ELSE state.rev]]
  BY DEF Read
<1>2. UNCHANGED <<state, outbox, work, hub, late>>
  BY DEF Read
<1>3. /\ req'[r].rev = (IF enabled THEN state.rev + 1 ELSE state.rev)
      /\ req'[r].enabled = enabled
      /\ \A q \in Requests : q # r => req'[q] = req[q]
  BY <1>1 DEF IInv, Shapes, TypeOK
<1>4. state.rev \in Int /\ outbox.desired.rev \in Int
  BY Known, SnapshotFacts
<1>5. RequestClose(req'[r])
  BY <1>3, <1>4 DEF RequestClose, Order, Raising
<1>6. \A q \in Requests : req'[q] = req[q] \/ RequestClose(req'[q])
  BY <1>3, <1>5
<1>7. Sent' \subseteq Sent
  BY <1>2, Zenon DEF Sent, Sending
<1>8. Later
  BY <1>2, Known, SnapshotFacts DEF Later
<1>. QED
  BY <1>2, <1>6, <1>7, <1>8, OrderKept DEF Order, Raising

\* A request that is done is close to any row.
LEMMA QuietClose ==
    ASSUME IInv, NEW r \in Requests, req' = [req EXCEPT ![r] = Quiet]
    PROVE  \A q \in Requests : req'[q] = req[q] \/ RequestClose(req'[q])
BY QuietRequest DEF IInv, Shapes, TypeOK, RequestClose

LEMMA AbandonOrders ==
    ASSUME IInv, IInv', Order, NEW r \in Requests, Abandon(r) PROVE Order'
<1>1. req' = [req EXCEPT ![r] = Quiet] /\ UNCHANGED <<state, outbox, work, hub, late>>
  BY DEF Abandon
<1>2. Sent' \subseteq Sent
  BY <1>1, Zenon DEF Sent, Sending
<1>3. Later
  BY <1>1, Known, SnapshotFacts DEF Later
<1>. QED
  BY <1>1, <1>2, <1>3, QuietClose, OrderKept DEF Order, Raising

\* A change made with the projection off may put the state one revision above the row;
\* with it on, at most two above the old row, and then the row follows.
LEMMA CommitOrders ==
    ASSUME IInv, IInv', Order, LedgerLinear, NEW r \in Requests, Commit(r) PROVE Order'
<1>1. /\ req' = [req EXCEPT ![r] = Quiet] /\ UNCHANGED <<work, hub, late>>
      /\ req[r].pc = "COMMIT"
  BY DEF Commit
<1>2. Sent' \subseteq Sent
  BY <1>1, Zenon DEF Sent, Sending
<1>3. CASE UNCHANGED <<state, outbox>>
  <2>1. Later
    BY <1>3, Known, SnapshotFacts DEF Later
  <2>. QED
    BY <1>1, <1>2, <1>3, <2>1, QuietClose, OrderKept DEF Order, Raising
<1>4. CASE ~UNCHANGED <<state, outbox>>
  <2>1. PICK next : next = [event |-> Len(ledger) + 1, rev |-> req[r].rev]
    OBVIOUS
  <2>2. /\ state' = next
        /\ outbox' = IF req[r].enabled THEN Upserted(next) ELSE outbox
    BY <1>4, <2>1, Zenon DEF Commit
  <2>3. next \in Snapshots
    BY <2>2 DEF IInv, Shapes, TypeOK
  <2>4. next.event = state.event + 1 /\ next.rev = req[r].rev
    BY <2>1 DEF LedgerLinear
  <2>5. /\ next.event \in Int /\ next.rev \in Int /\ state.event \in Int
        /\ outbox.desired.event \in Int /\ outbox.desired.rev \in Int
    BY <2>3, Known, SnapshotFacts
  <2>6. /\ next.rev <= outbox.desired.rev + (IF req[r].enabled THEN 2 ELSE 1)
        /\ outbox.desired.event <= state.event
    BY <1>1, <2>4 DEF Order, Raising, RequestClose
  <2>7. \/ outbox'.desired = outbox.desired /\ next.rev <= outbox.desired.rev + 1
        \/ outbox'.desired = next /\ next.rev > outbox.desired.rev
    <3>1. CASE ~req[r].enabled
      BY <2>2, <2>6, <3>1
    <3>2. CASE req[r].enabled /\ ~Newer(next)
      BY <2>2, <2>5, <3>2 DEF Upserted, Newer
    <3>3. CASE req[r].enabled /\ Newer(next)
      <4>1. next.rev > outbox.desired.rev
        BY <3>3 DEF Newer
      <4>2. outbox' = [outbox EXCEPT !.desired = next, !.attempts = 0,
                           !.status = IF @ = "DELIVERING" THEN @ ELSE "PENDING"]
        BY <2>2, <3>3 DEF Upserted
      <4>3. outbox'.desired = next
        BY <4>2, Known DEF Row
      <4>. QED
        BY <4>1, <4>3
    <3>. QED
      BY <3>1, <3>2, <3>3
  <2>8. Later
    BY <2>2, <2>4, <2>5, <2>6, <2>7 DEF Later
  <2>9. state'.rev <= outbox'.desired.rev + 1 /\ outbox'.desired.event <= state'.event
    BY <2>2, <2>4, <2>5, <2>6, <2>7
  <2>. QED
    BY <1>1, <1>2, <2>8, <2>9, QuietClose, OrderKept DEF Order, Raising
<1>. QED
  BY <1>3, <1>4

LEMMA OrderStep ==
    ASSUME IInv, IInv', Order, LedgerLinear, [Next]_vars
    PROVE  Order'
<1>1. ASSUME NEW r \in Requests, Change(r) PROVE Order'
  BY <1>1, ReadOrders, CommitOrders, AbandonOrders DEF Change
<1>2. ASSUME NEW w \in Workers, Cycle(w) PROVE Order'
  <2>1. CASE StartCycle(w) \/ Ensure(w) \/ Bump(w) \/ Upsert(w)
    BY <2>1, StartCycleOrders, EnsureOrders, BumpOrders, UpsertOrders
  <2>2. CASE Claim(w) \/ EndCycle(w) \/ Deliver(w) \/ Timeout(w)
    BY <2>2, ClaimOrders, EndCycleOrders, DeliverOrders, TimeoutOrders
  <2>3. CASE Complete(w) \/ Fail(w) \/ CircuitResets(w) \/ Restart(w)
    BY <2>3, CompleteOrders, FailOrders, CircuitResetsOrders, RestartOrders
  <2>. QED
    BY <1>2, <2>1, <2>2, <2>3 DEF Cycle
<1>3. ASSUME NEW p \in late, LateLands(p) PROVE Order'
  BY <1>3, LateLandsOrders
<1>4. CASE ManualRetry
  BY <1>4, ManualRetryOrders
<1>5. CASE UNCHANGED vars
  BY <1>5, QuietOrders DEF vars, Sent
<1>. QED
  BY <1>1, <1>2, <1>3, <1>4, <1>5 DEF Next

\* PadlHub keeps another snapshot only if it was under way with a higher revision.
LEMMA HubAdvances ==
    ASSUME IInv, Order, [Next]_vars
    PROVE  hub'.event >= hub.event
<1>1. hub' = hub \/ (hub' \in Sent /\ hub'.rev > hub.rev)
  <2>1. ASSUME NEW p \in Sent, hub' = Kept(p)
        PROVE  hub' = hub \/ (hub' \in Sent /\ hub'.rev > hub.rev)
    BY <2>1 DEF Kept
  <2>2. ASSUME NEW w \in Workers, Cycle(w)
        PROVE  hub' = hub \/ (hub' \in Sent /\ hub'.rev > hub.rev)
    <3>1. CASE Deliver(w)
      <4>1. hub' = Kept(work[w].payload) /\ work[w].payload \in Sent
        BY <3>1, Zenon DEF Deliver, At, Sent, Sending
      <4>. QED
        BY <2>1, <4>1
    <3>2. CASE ~Deliver(w)
      BY <2>2, <3>2, Zenon DEF Cycle, StartCycle, Ensure, Bump, Upsert, Claim, EndCycle, Timeout,
         Complete, Fail, CircuitResets, Restart
    <3>. QED
      BY <3>1, <3>2
  <2>3. ASSUME NEW p \in late, LateLands(p)
        PROVE  hub' = hub \/ (hub' \in Sent /\ hub'.rev > hub.rev)
    BY <2>1, <2>3 DEF LateLands, Sent
  <2>4. ASSUME UNCHANGED vars \/ ManualRetry \/ \E r \in Requests : Change(r)
        PROVE  hub' = hub
    BY <2>4 DEF vars, ManualRetry, Change, Read, Commit, Abandon
  <2>. QED
    BY <2>2, <2>3, <2>4 DEF Next
<1>2. hub \in Sent
  BY DEF Sent
<1>3. hub.rev \in Int /\ hub'.rev \in Int /\ hub.event \in Int
  BY <1>1, SentFacts, Known, SnapshotFacts
<1>. QED
  BY <1>1, <1>2, <1>3 DEF Order, SentInOrder

\* PadlHub never goes back to an older level: not by a delivery that arrives after a
\* newer one, nor by a worker that reconciles the row from a state it read before, for
\* any number of workers, changes with the projection on or off, and restarts.
THEOREM HubGoesForward == Spec => HubNeverBack
<1>1. Init => LedgerLinear /\ Order
  BY InitOrder DEF Init, LedgerLinear
<1>2. IInv /\ LedgerLinear /\ [Next]_vars => LedgerLinear'
  BY LedgerStep
<1>3. IInv /\ IInv' /\ LedgerLinear /\ Order /\ [Next]_vars => Order'
  BY OrderStep
<1>4. IInv /\ Order /\ [Next]_vars => [hub'.event >= hub.event]_vars
  BY HubAdvances
<1>. QED
  BY <1>1, <1>2, <1>3, <1>4, LevelInvariant, PTL DEF Spec, HubNeverBack

=============================================================================
