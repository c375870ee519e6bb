--------------------------- MODULE Subscriptions ---------------------------
(***************************************************************************)
(* One managed subscription instance at run time: its activation, by the   *)
(* first use or at the fixed deadline, and the reservations its holder     *)
(* makes, confirms and releases.  Every change is one MongoDB transaction  *)
(* that replaces what it read by revision and appends to the ledger;       *)
(* everything before it is a read that may be stale.  Handlers are cut at  *)
(* their database calls, end anywhere, and lose their answers.             *)
(*                                                                         *)
(* The resolution of identity, target and policy is outside; whatever it   *)
(* refuses, a stale evidence or a changed expectation, ends the handler.   *)
(***************************************************************************)
EXTENDS Integers, Sequences, FiniteSets, FiniteSetsExt

CONSTANTS
    Handlers,      \* requests and worker cycles that may be running at once
    Keys,          \* idempotency keys; the operation id is derived from the key
    Targets,       \* server-resolved targets
    DayOf,         \* the local day of a target; all are in one week and month
    UnitsOf,       \* usageUnitsByDuration of a target
    CreateTargets, \* targets of CREATE_GAME that take one unit and cost nothing
    Requests,      \* what reservations ask for: a target, and whether the request is
                   \* versioned, that is, carries expectations
    Bookings,      \* providerBookingId
    Policies,      \* published policies an instance may be pinned to
    Deadline,      \* fixedActivationAt
    Validity,      \* validityDays
    MaxTime,       \* bound on the clock
    None

ASSUME TargetsAssumption ==
    /\ UnitsOf \in [Targets -> Nat \ {0}]
    /\ Requests \subseteq [target : Targets, versioned : BOOLEAN]
\* activeServicesLimit.max, dailyUsageLimit and whether what goes past it is
\* discounted (PERCENT_DISCOUNT) or refused, the weekly and monthly limit, and the
\* remainingUnits of an unused subscription.
ASSUME PoliciesAssumption ==
    Policies \subseteq [active : Nat, daily : Nat, discount : BOOLEAN, period : Nat, units : Nat]
ASSUME TimesAssumption ==
    Validity \in Nat \ {0} /\ Deadline \in Nat /\ MaxTime \in Nat
ASSUME AbsenceAssumption == None \notin Targets \cup Bookings \cup Requests \cup Nat

VARIABLES
    now,         \* the clock
    policy,      \* the policy the instance is pinned to
    instance,    \* subscription_instances: state, validity and revision
    activations, \* INSTANCE_ACTIVATED events of the ledger: the validity they start
    operations,  \* BOOKING operations, by idempotency key
    aggregate,   \* the entitlement aggregate
    ledger,      \* usage ledger events of the operations, with their outbox rows
    handler      \* local state of the handlers

vars == <<now, policy, instance, activations, operations, aggregate, ledger, handler>>

Reasons == {"PROVIDER_REJECTED", "BOOKING_CANCELLED", "PRECREATE_EXPIRED_NOT_DISPATCHED"}
Live == {"RESERVED", "CONFIRMED"}
Released == {"FAILED", "COMPENSATED"}

NoOperation ==
    [state |-> "ABSENT", rev |-> 0, request |-> None, counted |-> FALSE,
     booking |-> None, reason |-> "NONE"]
UnusedUnder(units) ==
    [rev |-> 1, active |-> {}, daily |-> [d \in {DayOf[t] : t \in Targets} |-> 0],
     period |-> 0, remaining |-> units]
NotRead == UnusedUnder(0)

\* goal: what the request asks for.  expected: the instance revision it gives or
\* read; from: the start of validity it computed.  seen, held: the aggregate and
\* the operation it read last.  answered: the last request got what it asked for.
Idle ==
    [pc |-> "IDLE", goal |-> "NONE", key |-> None, request |-> None, booking |-> None,
     reason |-> "NONE", expected |-> 0, from |-> 0, seen |-> NotRead,
     held |-> NoOperation, answered |-> FALSE]

Init ==
    /\ now = 0
    /\ policy \in Policies
    /\ instance = [state |-> "PENDING_ACTIVATION", rev |-> 1, from |-> None, readBack |-> FALSE]
    /\ activations = <<>>
    /\ operations = [k \in Keys |-> NoOperation]
    /\ aggregate = UnusedUnder(policy.units)
    /\ ledger = {}
    /\ handler = [h \in Handlers |-> Idle]

At(h, pc) == handler[h].pc = pc
Becomes(h, x) == handler' = [handler EXCEPT ![h] = x]
Goto(h, pc) == Becomes(h, [handler[h] EXCEPT !.pc = pc])
Refuse(h) == Becomes(h, Idle)
\* The answer may be lost; whoever waits for it asks again.
Answer(h) == Becomes(h, [Idle EXCEPT !.answered = TRUE])
Stored == <<now, policy, instance, activations, operations, aggregate, ledger>>

-----------------------------------------------------------------------------
(* Activation.                                                             *)

\* The request gives the revision its sender saw.
BeginFirstUse(h) ==
    /\ At(h, "IDLE")
    /\ Becomes(h, [Idle EXCEPT
          !.pc = "INSTANCE", !.goal = "FIRST_USE", !.expected = instance.rev])
    /\ UNCHANGED Stored

\* A cycle of the deadline worker comes to an instance that was pending.
BeginDeadline(h) ==
    /\ At(h, "IDLE")
    /\ Becomes(h, [Idle EXCEPT !.pc = "INSTANCE", !.goal = "FIXED_DEADLINE"])
    /\ UNCHANGED Stored

StartOf(goal) == IF goal = "FIRST_USE" /\ now < Deadline THEN now ELSE Deadline

\* The instance is read, and the range computed after the policy was checked.
ReadInstance(h) ==
    /\ At(h, "INSTANCE")
    /\ LET due == now >= Deadline /\ instance.readBack
           expected == IF handler[h].goal = "FIRST_USE" THEN handler[h].expected
                       ELSE instance.rev
       IN
       IF handler[h].goal = "FIXED_DEADLINE" /\ ~due THEN Refuse(h)
       ELSE IF instance.state = "ACTIVE" THEN Refuse(h)
       ELSE IF instance.rev # expected THEN Refuse(h)
       ELSE Becomes(h, [handler[h] EXCEPT !.pc = "ACTIVATE", !.expected = expected,
                                          !.from = StartOf(handler[h].goal)])
    /\ UNCHANGED Stored

\* Variant: only the revision is compared, and it is not raised.
ActivateUnraised(h) ==
    /\ At(h, "ACTIVATE")
    /\ IF instance.rev = handler[h].expected
       THEN /\ instance' = [instance EXCEPT !.state = "ACTIVE", !.from = handler[h].from]
            /\ activations' = Append(activations, handler[h].from)
            /\ Refuse(h)
       ELSE Refuse(h) /\ UNCHANGED <<instance, activations>>
    /\ UNCHANGED <<now, policy, operations, aggregate, ledger>>

\* activateRuntimeInstance: somebody else's activation is answered as a replay,
\* another revision is a conflict; neither changes anything.
Activate(h) ==
    /\ At(h, "ACTIVATE")
    /\ IF instance.state = "PENDING_ACTIVATION" /\ instance.rev = handler[h].expected
       THEN /\ instance' = [instance EXCEPT
                  !.state = "ACTIVE", !.rev = @ + 1, !.from = handler[h].from,
                  !.readBack = IF handler[h].goal = "FIRST_USE" THEN now >= Deadline ELSE @]
            /\ activations' = Append(activations, handler[h].from)
            /\ Refuse(h)
       ELSE Refuse(h) /\ UNCHANGED <<instance, activations>>
    /\ UNCHANGED <<now, policy, operations, aggregate, ledger>>

\* External: once the deadline has passed the pending instances are reconciled
\* with the provider.
ReadBack ==
    /\ instance.state = "PENDING_ACTIVATION"
    /\ now >= Deadline /\ ~instance.readBack
    /\ instance' = [instance EXCEPT !.readBack = TRUE]
    /\ UNCHANGED <<now, policy, activations, operations, aggregate, ledger, handler>>

Tick ==
    /\ now < MaxTime
    /\ now' = now + 1
    /\ UNCHANGED <<policy, instance, activations, operations, aggregate, ledger, handler>>

-----------------------------------------------------------------------------
(* The quote, and the arithmetic of the aggregate.                         *)

Usable ==
    /\ instance.state = "ACTIVE"
    /\ instance.from =< now /\ now < instance.from + Validity

FitsDay(a, t) == a.daily[DayOf[t]] + UnitsOf[t] =< policy.daily
\* No blocker.  The one about active services may turn the answer into an offer at
\* the full price, which changes nothing either.
Eligible(a, t) ==
    /\ Usable
    /\ Cardinality(a.active) < policy.active
    /\ FitsDay(a, t) \/ policy.discount
    /\ a.period + UnitsOf[t] =< policy.period
    /\ a.remaining >= UnitsOf[t]

\* Past the daily limit the service is discounted and not counted in the day.
Reservation(k, t, counted) ==
    [key |-> k, target |-> t, counted |-> counted, state |-> "RESERVED"]
DailyDelta(r) == IF r.counted THEN UnitsOf[r.target] ELSE 0

ReserveAggregate(a, r) ==
    [rev |-> a.rev + 1, active |-> a.active \cup {r},
     daily |-> [a.daily EXCEPT ![DayOf[r.target]] = @ + DailyDelta(r)],
     period |-> a.period + UnitsOf[r.target],
     remaining |-> a.remaining - UnitsOf[r.target]]

\* Variant: the day is given its units back by the policy, not by the deltas the
\* reservation stored.
ReleaseByPolicy(a, r) ==
    [rev |-> a.rev + 1, active |-> a.active \ {r},
     daily |-> [a.daily EXCEPT ![DayOf[r.target]] = @ - UnitsOf[r.target]],
     period |-> a.period - UnitsOf[r.target],
     remaining |-> a.remaining + UnitsOf[r.target]]
ReleaseAggregate(a, r) ==
    [rev |-> a.rev + 1, active |-> a.active \ {r},
     daily |-> [a.daily EXCEPT ![DayOf[r.target]] = @ - DailyDelta(r)],
     period |-> a.period - UnitsOf[r.target],
     remaining |-> a.remaining + UnitsOf[r.target]]

ReservationsOf(a, k) == {r \in a.active : r.key = k}
\* decrementBucket: a counter below what it is to give back stops the release.
Reversible(a, r) ==
    a.daily[DayOf[r.target]] >= DailyDelta(r) /\ a.period >= UnitsOf[r.target]

Event(k, type, units, booking) ==
    [key |-> k, type |-> type, units |-> units, booking |-> booking]

-----------------------------------------------------------------------------
(* Reservation.                                                            *)

BeginReserve(h, k, request) ==
    /\ At(h, "IDLE")
    /\ Becomes(h, [Idle EXCEPT
          !.pc = "LOOKUP", !.goal = "RESERVE", !.key = k, !.request = request])
    /\ UNCHANGED Stored

\* A miss starts the next of three attempts, of which any may be the last.  Only a
\* versioned request looks its key up again.
Again(h, pc) ==
    Becomes(h, [handler[h] EXCEPT !.pc = pc, !.seen = NotRead, !.held = NoOperation])
ReserveAgain(h) == Again(h, IF handler[h].request.versioned THEN "LOOKUP" ELSE "QUOTE")

\* The operation already made under the key is the answer, if it was made for
\* the same request and is live.
Lookup(h) ==
    /\ At(h, "LOOKUP")
    /\ LET op == operations[handler[h].key] IN
       IF op = NoOperation THEN Goto(h, "QUOTE")
       ELSE IF op.request = handler[h].request /\ op.state \in Live
       THEN Answer(h)
       ELSE Refuse(h)
    /\ UNCHANGED Stored

\* Instance and aggregate are read; an instance read as active stays so.
Quote(h) ==
    /\ At(h, "QUOTE")
    /\ IF Eligible(aggregate, handler[h].request.target)
       THEN Becomes(h, [handler[h] EXCEPT !.pc = "REREAD", !.seen = aggregate])
       ELSE Refuse(h)
    /\ UNCHANGED Stored

\* Variant: the aggregate is read again and its revision not compared.
RereadUncompared(h) ==
    /\ At(h, "REREAD")
    /\ Becomes(h, [handler[h] EXCEPT !.pc = "RESERVE", !.seen = aggregate])
    /\ UNCHANGED Stored
Reread(h) ==
    /\ At(h, "REREAD")
    /\ IF aggregate.rev = handler[h].seen.rev THEN Goto(h, "RESERVE") ELSE ReserveAgain(h)
    /\ UNCHANGED Stored

NewOperation(h, counted) ==
    [state |-> "RESERVED", rev |-> 1, request |-> handler[h].request,
     counted |-> counted, booking |-> None, reason |-> "NONE"]

ReserveWrites(h) ==
    LET k == handler[h].key
        t == handler[h].request.target
        counted == FitsDay(handler[h].seen, t)
    IN  /\ aggregate' = ReserveAggregate(handler[h].seen, Reservation(k, t, counted))
        /\ operations' = [operations EXCEPT ![k] = NewOperation(h, counted)]
        /\ ledger' = ledger \cup {Event(k, "ENTITLEMENT_RESERVED", UnitsOf[t], None)}
        /\ Answer(h)

\* Variant: the replay in the transaction does not compare the requests.
ReserveUncompared(h) ==
    /\ At(h, "RESERVE")
    /\ IF operations[handler[h].key] = NoOperation /\ aggregate.rev = handler[h].seen.rev
       THEN ReserveWrites(h)
       ELSE /\ IF operations[handler[h].key] # NoOperation THEN Answer(h)
               ELSE ReserveAgain(h)
            /\ UNCHANGED <<aggregate, operations, ledger>>
    /\ UNCHANGED <<now, policy, instance, activations>>

\* reserveRuntimeEntitlement.  A replay met in the transaction is answered as it
\* is to a request without expectations, also when it was released meanwhile.
Reserve(h) ==
    /\ At(h, "RESERVE")
    /\ LET op == operations[handler[h].key] IN
       \/ /\ op = NoOperation
          /\ aggregate.rev = handler[h].seen.rev
          /\ ReserveWrites(h)
       \/ /\ op = NoOperation
          /\ aggregate.rev # handler[h].seen.rev
          /\ ReserveAgain(h)
          /\ UNCHANGED <<aggregate, operations, ledger>>
       \/ /\ op # NoOperation
          /\ IF /\ op.request = handler[h].request
                /\ handler[h].request.versioned => op.state \in Live
             THEN Answer(h)
             ELSE Refuse(h)
          /\ UNCHANGED <<aggregate, operations, ledger>>
    /\ UNCHANGED <<now, policy, instance, activations>>

-----------------------------------------------------------------------------
(* Confirmation and release.                                               *)

BeginConfirm(h, k, b) ==
    /\ At(h, "IDLE")
    /\ Becomes(h, [Idle EXCEPT
          !.pc = "OPERATION", !.goal = "CONFIRM", !.key = k, !.booking = b])
    /\ UNCHANGED Stored

\* With strict owner evidence a cancellation, and nothing else, names its booking.
BeginRelease(h, k, reason, b) ==
    /\ At(h, "IDLE")
    /\ (b # None) = (reason = "BOOKING_CANCELLED")
    /\ Becomes(h, [Idle EXCEPT
          !.pc = "OPERATION", !.goal = "RELEASE", !.key = k, !.reason = reason,
          !.booking = b])
    /\ UNCHANGED Stored

\* A release for a game that was never sent to the provider.
UnusedCreate(h) == handler[h].reason = "PRECREATE_EXPIRED_NOT_DISPATCHED"

ConfirmReplay(h, op) ==
    op.state = "CONFIRMED" /\ op.booking = handler[h].booking
ReleaseReplay(h, op) ==
    /\ op.state \in Released
    /\ op.reason = handler[h].reason /\ op.booking = handler[h].booking

MayRelease(h, op) ==
    /\ UnusedCreate(h) =>
          /\ op.request.target \in CreateTargets /\ op.counted
          /\ op.booking = None
          /\ op.state = "RESERVED"
    /\ op.state \in Live
    /\ op.state = "CONFIRMED" => handler[h].reason = "BOOKING_CANCELLED"
    /\ op.booking # None /\ handler[h].booking # None => op.booking = handler[h].booking

ReadOperation(h) ==
    /\ At(h, "OPERATION")
    /\ LET op == operations[handler[h].key]
           replay == IF handler[h].goal = "CONFIRM" THEN ConfirmReplay(h, op)
                     ELSE ReleaseReplay(h, op)
           allowed == IF handler[h].goal = "CONFIRM" THEN op.state = "RESERVED"
                      ELSE op # NoOperation /\ MayRelease(h, op)
       IN
       IF replay
       THEN Answer(h)
       ELSE IF allowed
       THEN Becomes(h, [handler[h] EXCEPT !.pc = "AGGREGATE", !.held = op])
       ELSE Refuse(h)
    /\ UNCHANGED Stored

\* The reservation must be there, and in the state the change starts from.
ReadAggregate(h) ==
    /\ At(h, "AGGREGATE")
    /\ IF \E r \in ReservationsOf(aggregate, handler[h].key) :
             /\ handler[h].goal = "CONFIRM" \/ UnusedCreate(h) => r.state = "RESERVED"
             /\ handler[h].goal = "RELEASE" => Reversible(aggregate, r)
       THEN Becomes(h, [handler[h] EXCEPT !.pc = "TRANSITION", !.seen = aggregate])
       ELSE Refuse(h)
    /\ UNCHANGED Stored

TheReservation(h) == CHOOSE r \in ReservationsOf(handler[h].seen, handler[h].key) : TRUE

Confirmed(h) ==
    LET r == TheReservation(h) IN
    [handler[h].seen EXCEPT !.rev = @ + 1,
        !.active = (@ \ {r}) \cup {[r EXCEPT !.state = "CONFIRMED"]}]

\* terminalState, and the booking the operation keeps.
ReleasedOperation(h) ==
    [handler[h].held EXCEPT
        !.state = IF handler[h].booking = None THEN "FAILED" ELSE "COMPENSATED",
        !.rev = @ + 1, !.reason = handler[h].reason,
        !.booking = IF handler[h].booking = None THEN @ ELSE handler[h].booking]
ConfirmedOperation(h) ==
    [handler[h].held EXCEPT
        !.state = "CONFIRMED", !.rev = @ + 1, !.booking = handler[h].booking]

TransitionWrites(h) ==
    LET k == handler[h].key IN
    \/ /\ handler[h].goal = "CONFIRM"
       /\ aggregate' = Confirmed(h)
       /\ operations' = [operations EXCEPT ![k] = ConfirmedOperation(h)]
       /\ ledger' = ledger \cup {Event(k, "BOOKING_CONFIRMED", 0, handler[h].booking)}
       /\ Answer(h)
    \/ /\ handler[h].goal = "RELEASE"
       /\ aggregate' = ReleaseAggregate(handler[h].seen, TheReservation(h))
       /\ operations' = [operations EXCEPT ![k] = ReleasedOperation(h)]
       /\ ledger' = ledger \cup {Event(k, "ENTITLEMENT_RELEASED",
                                       -UnitsOf[TheReservation(h).target], handler[h].booking)}
       /\ Answer(h)

Expected(h) ==
    IF handler[h].goal = "CONFIRM" \/ UnusedCreate(h) THEN {"RESERVED"} ELSE Live
\* Variant: the aggregate's revision fences the transition, the operation's not.
OperationStands(h) == operations[handler[h].key] # NoOperation
OperationHeld(h) ==
    /\ operations[handler[h].key].rev = handler[h].held.rev
    /\ operations[handler[h].key].state \in Expected(h)

\* transitionRuntimeEntitlement: operation and aggregate are both replaced as they
\* were read, or neither is.
Transition(h) ==
    /\ At(h, "TRANSITION")
    /\ IF OperationHeld(h) /\ aggregate.rev = handler[h].seen.rev
       THEN TransitionWrites(h)
       ELSE Again(h, "OPERATION") /\ UNCHANGED <<aggregate, operations, ledger>>
    /\ UNCHANGED <<now, policy, instance, activations>>

\* The handler dies, or ends with an error that changes nothing.
End(h) ==
    /\ ~At(h, "IDLE")
    /\ Refuse(h)
    /\ UNCHANGED Stored

-----------------------------------------------------------------------------
Begin(h) ==
    \/ BeginFirstUse(h)
    \/ BeginDeadline(h)
    \/ \E k \in Keys :
          \/ \E request \in Requests : BeginReserve(h, k, request)
          \/ \E b \in Bookings : BeginConfirm(h, k, b)
          \/ \E reason \in Reasons, b \in Bookings \cup {None} : BeginRelease(h, k, reason, b)

Step(h) ==
    \/ ReadInstance(h) \/ Activate(h)
    \/ Lookup(h) \/ Quote(h) \/ Reread(h) \/ Reserve(h)
    \/ ReadOperation(h) \/ ReadAggregate(h) \/ Transition(h)

Next ==
    \/ \E h \in Handlers : Begin(h) \/ Step(h) \/ End(h)
    \/ ReadBack \/ Tick

Spec == Init /\ [][Next]_vars

-----------------------------------------------------------------------------
Operation ==
    {NoOperation}
    \cup [state : Live \cup Released, rev : 1..3, request : Requests, counted : BOOLEAN,
          booking : Bookings \cup {None}, reason : Reasons \cup {"NONE"}]
Reserved ==
    [key : Keys, target : Targets, counted : BOOLEAN, state : Live]
Aggregate ==
    [rev : Nat, active : SUBSET Reserved, daily : [{DayOf[t] : t \in Targets} -> Int],
     period : Int, remaining : Int]
Handler ==
    [pc : {"IDLE", "INSTANCE", "ACTIVATE", "LOOKUP", "QUOTE", "REREAD", "RESERVE",
           "OPERATION", "AGGREGATE", "TRANSITION"},
     goal : {"NONE", "FIRST_USE", "FIXED_DEADLINE", "RESERVE", "CONFIRM", "RELEASE"},
     key : Keys \cup {None}, request : Requests \cup {None},
     booking : Bookings \cup {None}, reason : Reasons \cup {"NONE"},
     expected : Nat, from : Nat, seen : Aggregate, held : Operation,
     answered : BOOLEAN]

\* The variables have the shapes of the stored documents and of the handlers.
TypeOK ==
    /\ now \in 0..MaxTime
    /\ policy \in Policies
    /\ instance \in [state : {"PENDING_ACTIVATION", "ACTIVE"}, rev : Nat,
                     from : Nat \cup {None}, readBack : BOOLEAN]
    /\ activations \in Seq(Nat)
    /\ operations \in [Keys -> Operation]
    /\ aggregate \in Aggregate
    /\ ledger \subseteq [key : Keys, type : {"ENTITLEMENT_RESERVED", "BOOKING_CONFIRMED",
                         "ENTITLEMENT_RELEASED"}, units : Int, booking : Bookings \cup {None}]
    /\ handler \in [Handlers -> Handler]

\* First use and the deadline activate an instance once between them: the ledger
\* has one activation, of the validity the instance has from then on, and it
\* starts no later than the deadline.
ActivatedOnce ==
    IF instance.state = "ACTIVE"
    THEN activations = <<instance.from>> /\ instance.from =< Deadline
    ELSE activations = <<>> /\ instance.from = None

\* The aggregate holds a reservation exactly for every live operation, with the
\* state, target and deltas of that operation, and the ledger tells each
\* operation's life once, however its requests raced.
ReservationOf(k) ==
    [key |-> k, target |-> operations[k].request.target,
     counted |-> operations[k].counted, state |-> operations[k].state]
LedgerOf(k) ==
    LET op == operations[k]
        units == UnitsOf[op.request.target]
    IN  {Event(k, "ENTITLEMENT_RESERVED", units, None)}
        \cup (IF op.state = "CONFIRMED" \/ op.rev = 3
              THEN {Event(k, "BOOKING_CONFIRMED", 0, op.booking)} ELSE {})
        \cup (IF op.state \in Released
              THEN {Event(k, "ENTITLEMENT_RELEASED", -units, op.booking)} ELSE {})
ReservationsMatch ==
    /\ aggregate.active = {ReservationOf(k) : k \in {j \in Keys : operations[j].state \in Live}}
    /\ ledger = UNION {LedgerOf(k) : k \in {j \in Keys : operations[j] # NoOperation}}

\* The counters of the aggregate are what its reservations add up to, so that
\* every live reservation can be given back and none gives back too much.
Total(set) == MapThenSumSet(LAMBDA r : UnitsOf[r.target], set)
CountersExact ==
    /\ aggregate.period = Total(aggregate.active)
    /\ aggregate.remaining = policy.units - Total(aggregate.active)
    /\ \A d \in DOMAIN aggregate.daily : aggregate.daily[d] =
          Total({r \in aggregate.active : r.counted /\ DayOf[r.target] = d})

\* An answer says what is so when the handler gets it: a versioned reserve names a
\* live operation of that very request, a confirmation the booking it is bound to,
\* a release the reason and booking it was completed with.
AnswerTrue(asked, op) ==
    CASE asked.goal = "RESERVE" ->
            op.request = asked.request /\ (asked.request.versioned => op.state \in Live)
      [] asked.goal = "CONFIRM" -> op.state = "CONFIRMED" /\ op.booking = asked.booking
      [] asked.goal = "RELEASE" ->
            op.state \in Released /\ op.reason = asked.reason /\ op.booking = asked.booking
      [] OTHER -> FALSE
AnswersTrue ==
    [][\A h \in Handlers : ~At(h, "IDLE") /\ handler'[h].answered =>
          AnswerTrue(handler[h], operations'[handler[h].key])]_vars

Stage(op) ==
    CASE op.state = "RESERVED" -> "HELD"
      [] op.state = "CONFIRMED" -> "USED"
      [] op.state \in Released -> "RETURNED"
      [] OTHER -> "NONE"
Service ==
    [k \in Keys |-> LET op == operations[k] IN
        [stage |-> Stage(op), counted |-> op.counted, booking |-> op.booking,
         target |-> IF op = NoOperation THEN None ELSE op.request.target]]
Quota == INSTANCE BenefitQuota WITH service <- Service

\* Whatever requests run at once, each service is taken, used and given back as
\* one step within the limits of the policy: a stale quote never oversells.
ImplementsQuota == Quota!Spec
=============================================================================
