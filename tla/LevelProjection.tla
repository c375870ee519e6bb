--------------------------- MODULE LevelProjection ---------------------------
(***************************************************************************)
(* The level of one player on its way from the rating ledger to PadlHub.   *)
(* A rating change is a transaction over the ledger, the state and one     *)
(* coalescing outbox row; workers, one per process, reconcile the row with *)
(* the state, claim it under a lease and POST the snapshot it asks for.    *)
(* Handlers are cut at their awaits; whether a lease has expired or a      *)
(* retry is due is up to the clock of whoever asks.                        *)
(***************************************************************************)
EXTENDS Integers, Sequences, FiniteSets

CONSTANTS
    Keys,         \* idempotency keys of rating changes
    Requests,     \* rating changes that may be running at once
    Workers,      \* projection workers, one per process
    Modes,        \* whether a process that changes ratings has the projection on
    MaxAttempts,  \* maxAttempts of the row (20)
    Threshold,    \* consecutive failures that open the circuit (5)
    MaxEvents,    \* bound on the length of the ledger
    None          \* absence of a worker

ASSUME ModesAssumption == Modes \subseteq BOOLEAN
ASSUME LimitsAssumption ==
    MaxAttempts \in Nat \ {0} /\ Threshold \in Nat \ {0} /\ MaxEvents \in Nat
ASSUME NoneAssumption == None \notin Workers

VARIABLES
    ledger,  \* rating_events: event n is the n-th of them
    state,   \* player_rating_state: lastEventId and padlHubProjectionRevision
    outbox,  \* the row of player_level_projection_outbox
    req,     \* local state of the rating changes
    work,    \* local state of the workers
    hub,     \* the snapshot PadlHub keeps
    late     \* snapshots whose sender gave up waiting and which may still arrive

vars == <<ledger, state, outbox, req, work, hub, late>>

\* A snapshot is named by the event that made its level, and its revision.
NoPayload == [event |-> -1, rev |-> -1]
NoRow == [desired |-> NoPayload, status |-> "ABSENT", attempts |-> 0,
          owner |-> None, inFlight |-> NoPayload]
Quiet == [pc |-> "IDLE", key |-> None, expected |-> 0, enabled |-> FALSE, rev |-> 0]
Fresh == [pc |-> "IDLE", payload |-> NoPayload, failures |-> 0, open |-> FALSE]

\* A rating imported before the projection is turned on.
Init ==
    /\ ledger = <<>>
    /\ state = [event |-> 0, rev |-> 0]
    /\ outbox = NoRow
    /\ req = [r \in Requests |-> Quiet]
    /\ work = [w \in Workers |-> Fresh]
    /\ hub = NoPayload
    /\ late = {}

-----------------------------------------------------------------------------
(* The row.                                                                *)

Newer(payload) == payload.rev > outbox.desired.rev

\* upsertPadlHubProjection: only a newer revision changes anything, and a
\* delivery that is under way goes on.
Upserted(payload) ==
    IF Newer(payload)
    THEN [outbox EXCEPT !.desired = payload, !.attempts = 0,
             !.status = IF @ = "DELIVERING" THEN @ ELSE "PENDING"]
    ELSE outbox

\* Variant: the lease's owner stays on the row.
ReleasedKeepsOwner(row) == [row EXCEPT !.inFlight = NoPayload]
Released(row) == [row EXCEPT !.owner = None, !.inFlight = NoPayload]
Superseded(payload) == outbox.desired.rev > payload.rev

\* Variant: whatever was delivered is all there is to deliver.
CompletedRegardless(payload) ==
    [Released(outbox) EXCEPT !.status = "SYNCED"]
Completed(payload) ==
    [Released(outbox) EXCEPT
        !.status = IF Superseded(payload) THEN "PENDING" ELSE "SYNCED"]

Failed(payload) ==
    IF Superseded(payload)
    THEN [Released(outbox) EXCEPT !.status = "PENDING", !.attempts = 0]
    ELSE [Released(outbox) EXCEPT !.status =
             IF outbox.attempts >= MaxAttempts THEN "DEAD" ELSE "FAILED_RETRYABLE"]

\* The filter of both: the lease is still this worker's, for this revision.
Holds(w) ==
    /\ outbox.status = "DELIVERING"
    /\ outbox.owner = w
    /\ outbox.inFlight.rev = work[w].payload.rev

-----------------------------------------------------------------------------
(* A rating change. One whose key is in the ledger answers with the event  *)
(* recorded, one made from another event than the last answers with a      *)
(* conflict: neither changes anything.                                     *)

Recorded(key) == \E n \in DOMAIN ledger : ledger[n].key = key

\* The key is looked up before the state is read, so it may be recorded by then.
Read(r) ==
    /\ req[r].pc = "IDLE"
    /\ Len(ledger) < MaxEvents
    /\ \E key \in Keys, enabled \in Modes :
           req' = [req EXCEPT ![r] =
               [pc |-> "COMMIT", key |-> key, expected |-> state.event, enabled |-> enabled,
                rev |-> IF enabled THEN state.rev + 1 ELSE state.rev]]
    /\ UNCHANGED <<ledger, state, outbox, work, hub, late>>

\* Variant: the read before the transaction is trusted.
CurrentAssumed(r) == TRUE
Current(r) == state.event = req[r].expected

\* runAtomicChange: one transaction; a key that came in between aborts it.
Commit(r) ==
    /\ req[r].pc = "COMMIT"
    /\ Len(ledger) < MaxEvents
    /\ req' = [req EXCEPT ![r] = Quiet]
    /\ IF Current(r) /\ ~Recorded(req[r].key)
       THEN LET next == [event |-> Len(ledger) + 1, rev |-> req[r].rev] IN
            /\ ledger' = Append(ledger, [key |-> req[r].key, expected |-> req[r].expected])
            /\ state' = next
            /\ outbox' = IF req[r].enabled THEN Upserted(next) ELSE outbox
       ELSE UNCHANGED <<ledger, state, outbox>>
    /\ UNCHANGED <<work, hub, late>>

\* A call fails, or its process dies.
Abandon(r) ==
    /\ req[r].pc # "IDLE"
    /\ req' = [req EXCEPT ![r] = Quiet]
    /\ UNCHANGED <<ledger, state, outbox, work, hub, late>>

-----------------------------------------------------------------------------
(* A cycle of a worker: reconcile the row, then deliver while some is due. *)

At(w, pc) == work[w].pc = pc
Goto(w, pc) ==
    work' = [work EXCEPT ![w].pc = pc,
                 ![w].payload = IF pc \in {"IDLE", "CLAIM"} THEN NoPayload ELSE @]
GotoWith(w, pc, payload) == work' = [work EXCEPT ![w].pc = pc, ![w].payload = payload]

StartCycle(w) ==
    /\ At(w, "IDLE")
    /\ GotoWith(w, "ENSURE", state)
    /\ UNCHANGED <<ledger, state, outbox, req, hub, late>>

\* Variant: the revision of the state is good enough.
EffectiveOwn(payload) == payload.rev
\* A row about another event gets a revision above its own.
Effective(payload) ==
    IF outbox.desired.event # payload.event /\ outbox.desired.rev >= payload.rev
    THEN outbox.desired.rev + 1
    ELSE payload.rev

Ensure(w) ==
    /\ At(w, "ENSURE")
    /\ LET seen == work[w].payload IN
       IF outbox.desired.event = seen.event /\ outbox.desired.rev >= seen.rev
       THEN Goto(w, "CLAIM")
       ELSE GotoWith(w, "BUMP", [seen EXCEPT !.rev = Effective(seen)])
    /\ UNCHANGED <<ledger, state, outbox, req, hub, late>>

\* The filter of the revision's update.
StateUnchanged(w) == state.event = work[w].payload.event

Bump(w) ==
    /\ At(w, "BUMP")
    /\ IF StateUnchanged(w)
       THEN state' = [state EXCEPT !.rev = work[w].payload.rev] /\ Goto(w, "UPSERT")
       ELSE state' = state /\ Goto(w, "CLAIM")
    /\ UNCHANGED <<ledger, outbox, req, hub, late>>

Upsert(w) ==
    /\ At(w, "UPSERT")
    /\ outbox' = Upserted(work[w].payload)
    /\ Goto(w, "CLAIM")
    /\ UNCHANGED <<ledger, state, req, hub, late>>

\* A retry may be due and a lease may have expired at any time; the answer of
\* the claim may be lost.
Claim(w) ==
    /\ At(w, "CLAIM")
    /\ ~work[w].open
    /\ outbox.status \in {"PENDING", "FAILED_RETRYABLE", "DELIVERING"}
    /\ outbox' = [outbox EXCEPT !.status = "DELIVERING", !.owner = w,
                      !.inFlight = outbox.desired,
                      !.attempts = IF @ < MaxAttempts THEN @ + 1 ELSE @]
    /\ \/ GotoWith(w, "POST", outbox.desired)
       \/ Goto(w, "IDLE")
    /\ UNCHANGED <<ledger, state, req, hub, late>>

\* Nothing is due, the circuit is open, the batch is full, or a call failed.
EndCycle(w) ==
    /\ work[w].pc \in {"ENSURE", "BUMP", "UPSERT", "CLAIM"}
    /\ Goto(w, "IDLE")
    /\ UNCHANGED <<ledger, state, outbox, req, hub, late>>

-----------------------------------------------------------------------------
(* PadlHub keeps the snapshot of the highest revision, and says whether    *)
(* the one it was sent is new, known or stale.                             *)

Kept(payload) == IF payload.rev > hub.rev THEN payload ELSE hub

\* A snapshot PadlHub is past is of no account when it arrives.
Underway(payloads) == {payload \in payloads : payload.rev > hub'.rev}

\* deliver: a stale snapshot is a failure.
Deliver(w) ==
    /\ At(w, "POST")
    /\ hub' = Kept(work[w].payload)
    /\ Goto(w, IF work[w].payload.rev < hub.rev THEN "FAIL" ELSE "COMPLETE")
    /\ late' = Underway(late)
    /\ UNCHANGED <<ledger, state, outbox, req>>

\* The request or its answer is lost or takes too long, or is not understood.
Timeout(w) ==
    /\ At(w, "POST")
    /\ Goto(w, "FAIL")
    /\ UNCHANGED <<ledger, state, outbox, req, hub>>
    /\ late' = Underway(late \cup {work[w].payload})

LateLands(payload) ==
    /\ hub' = Kept(payload)
    /\ late' = Underway(late)
    /\ UNCHANGED <<ledger, state, outbox, req, work>>

\* Whether the write's own answer arrives decides whether a failure follows.
Complete(w) ==
    /\ At(w, "COMPLETE")
    /\ \/ /\ Holds(w)
          /\ outbox' = Completed(work[w].payload)
          /\ \/ work' = [work EXCEPT ![w] = [Fresh EXCEPT !.pc = "CLAIM"]]
             \/ Goto(w, "FAIL")
       \/ Goto(w, "FAIL") /\ UNCHANGED outbox
    /\ UNCHANGED <<ledger, state, req, hub, late>>

Counted(w, pc) ==
    LET failures == IF work[w].failures < Threshold THEN work[w].failures + 1 ELSE Threshold
    IN  work' = [work EXCEPT ![w] = [pc |-> pc, payload |-> NoPayload, failures |-> failures,
                                     open |-> failures >= Threshold]]

\* The failure is counted before it is written; a write that throws, done or not,
\* ends the cycle.
Fail(w) ==
    /\ At(w, "FAIL")
    /\ LET written == IF Holds(w) THEN Failed(work[w].payload) ELSE outbox IN
       \/ outbox' = written /\ Counted(w, "CLAIM")
       \/ outbox' \in {outbox, written} /\ Counted(w, "IDLE")
    /\ UNCHANGED <<ledger, state, req, hub, late>>

CircuitResets(w) ==
    /\ work[w].open
    /\ work' = [work EXCEPT ![w].open = FALSE]
    /\ UNCHANGED <<ledger, state, outbox, req, hub, late>>

\* The process dies, perhaps while its snapshot is on the way, and starts again.
Restart(w) ==
    /\ work[w] # Fresh
    /\ work' = [work EXCEPT ![w] = Fresh]
    /\ UNCHANGED <<ledger, state, outbox, req, hub>>
    /\ late' = IF At(w, "POST") THEN Underway(late \cup {work[w].payload}) ELSE late

\* A SUPER_ADMIN puts the row back to work.
ManualRetry ==
    /\ outbox.status \in {"DEAD", "FAILED_RETRYABLE"}
    /\ outbox' = [Released(outbox) EXCEPT !.status = "PENDING", !.attempts = 0]
    /\ UNCHANGED <<ledger, state, req, work, hub, late>>

-----------------------------------------------------------------------------
Change(r) == Read(r) \/ Commit(r) \/ Abandon(r)

Cycle(w) ==
    \/ StartCycle(w) \/ Ensure(w) \/ Bump(w) \/ Upsert(w) \/ Claim(w) \/ EndCycle(w)
    \/ Deliver(w) \/ Timeout(w) \/ Complete(w) \/ Fail(w) \/ CircuitResets(w) \/ Restart(w)

Next ==
    \/ \E r \in Requests : Change(r)
    \/ \E w \in Workers : Cycle(w)
    \/ \E payload \in late : LateLands(payload)
    \/ ManualRetry

\* What keeps a worker from going through its cycle, PadlHub apart.
Disturbance ==
    \E w \in Workers :
        \/ Restart(w)
        \/ ~At(w, "CLAIM") /\ EndCycle(w)
        \/ Claim(w) /\ At(w, "IDLE")'
        \/ Holds(w) /\ Complete(w) /\ At(w, "FAIL")'

\* Processes and their database come to rest in the end; then workers poll, find
\* due what is due before their batch ends, and see the circuit close. PadlHub may
\* fail for ever but not every time, and somebody resets a row that died.
Fairness ==
    /\ <>[][~Disturbance]_vars
    /\ \A w \in Workers : WF_vars(Cycle(w)) /\ WF_vars(CircuitResets(w))
    /\ SF_vars(\E w \in Workers : Claim(w))
    /\ SF_vars(\E w \in Workers : Deliver(w))
    /\ WF_vars(ManualRetry)

Spec == Init /\ [][Next]_vars /\ Fairness

-----------------------------------------------------------------------------
(* Properties.                                                             *)

Snapshots == [event : 0 .. MaxEvents, rev : Nat]
Payloads == {NoPayload} \cup Snapshots

Row == [desired : Payloads, inFlight : Payloads, attempts : 0 .. MaxAttempts,
        status : {"ABSENT", "PENDING", "DELIVERING", "SYNCED", "FAILED_RETRYABLE", "DEAD"},
        owner : Workers \cup {None}]
Request == [pc : {"IDLE", "COMMIT"}, key : Keys \cup {None}, expected : 0 .. MaxEvents,
            enabled : BOOLEAN, rev : Nat]
Worker == [pc : {"IDLE", "ENSURE", "BUMP", "UPSERT", "CLAIM", "POST", "COMPLETE", "FAIL"},
           payload : Payloads, failures : 0 .. Threshold, open : BOOLEAN]

\* Every variable keeps its shape; attempts and failures stay within their limits,
\* and a row has an owner exactly while it is being delivered.
TypeOK ==
    /\ ledger \in Seq([key : Keys, expected : 0 .. MaxEvents]) /\ Len(ledger) <= MaxEvents
    /\ state \in Snapshots
    /\ outbox \in Row /\ (outbox.status = "DELIVERING" <=> outbox.owner # None)
    /\ req \in [Requests -> Request]
    /\ work \in [Workers -> Worker]
    /\ hub \in Payloads
    /\ late \subseteq Payloads

\* Every rating change is made from the level its author saw, once per key, and
\* the state is that of the last one.
LedgerLinear ==
    /\ \A n \in DOMAIN ledger : ledger[n].expected = n - 1
    /\ \A m, n \in DOMAIN ledger : ledger[m].key = ledger[n].key => m = n
    /\ state.event = Len(ledger)

\* A row marked SYNCED is about the snapshot PadlHub has: an older delivery never
\* acknowledges a newer level.
SyncedIsDelivered == outbox.status = "SYNCED" => hub = outbox.desired

\* PadlHub never goes back to an older level, whatever arrives late and whoever
\* reconciles from a state read before.
HubNeverBack == [][hub'.event >= hub.event]_vars

\* Once ratings stop changing, as MaxEvents makes them, PadlHub has the last level
\* and keeps it: also when changes were made while the projection was off.
Converges == <>[](hub.event = state.event)

=============================================================================
