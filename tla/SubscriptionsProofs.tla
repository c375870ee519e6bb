------------------------- MODULE SubscriptionsProofs -------------------------
(***************************************************************************)
(* Proofs about Subscriptions for any number of requests, keys, bookings   *)
(* and targets, and any policies, and that it implements BenefitQuota.     *)
(***************************************************************************)
EXTENDS Subscriptions, FiniteSetTheorems, WellFoundedInduction, TLAPS

-----------------------------------------------------------------------------
(* The inductive invariant.                                                *)

\* An operation's revision tells how far it has come.
Staged(op) ==
    /\ op.state = "RESERVED" => op.rev = 1 /\ op.booking = None
    /\ op.state = "CONFIRMED" => op.rev = 2 /\ op.booking # None
    /\ op.state \in Released => op.rev \in {2, 3}

\* What a handler asks for is complete when it gets to work on it.
GoalFits(x) ==
    /\ x.answered => x.pc = "IDLE"
    /\ x.pc = "ACTIVATE" => x.from =< Deadline
    /\ x.pc \in {"LOOKUP", "QUOTE", "REREAD", "RESERVE"} =>
          x.goal = "RESERVE" /\ x.key \in Keys /\ x.request \in Requests
    /\ x.pc \in {"OPERATION", "AGGREGATE", "TRANSITION"} =>
          /\ x.key \in Keys
          /\ \/ x.goal = "CONFIRM" /\ x.booking \in Bookings
             \/ /\ x.goal = "RELEASE" /\ x.reason \in Reasons
                /\ (x.booking # None) = (x.reason = "BOOKING_CANCELLED")

\* A revision that still stands is the revision of what was read.
SeenFenced(x) ==
    x.pc \in {"REREAD", "RESERVE", "TRANSITION"} =>
        /\ x.seen.rev =< aggregate.rev
        /\ x.seen.rev = aggregate.rev => x.seen = aggregate
HeldFenced(x) ==
    x.pc \in {"AGGREGATE", "TRANSITION"} =>
        /\ x.held.rev =< operations[x.key].rev
        /\ x.held.rev = operations[x.key].rev => x.held = operations[x.key]

\* The operation was in a state from which the handler may take it on.
HeldAllows(x) ==
    x.pc \in {"AGGREGATE", "TRANSITION"} =>
        /\ x.goal = "CONFIRM" => x.held.state = "RESERVED"
        /\ x.goal = "RELEASE" =>
              /\ x.held.state \in Live
              /\ x.held.state = "CONFIRMED" => x.reason = "BOOKING_CANCELLED"
              /\ x.held.booking # None /\ x.booking # None => x.held.booking = x.booking

Sound(x) == GoalFits(x) /\ SeenFenced(x) /\ HeldFenced(x) /\ HeldAllows(x)

IInv ==
    /\ TypeOK /\ ActivatedOnce /\ ReservationsMatch
    /\ \A k \in Keys : Staged(operations[k])
    /\ \A h \in Handlers : Sound(handler[h])

-----------------------------------------------------------------------------
(* Shapes.                                                                 *)

Events == [key : Keys, type : {"ENTITLEMENT_RESERVED", "BOOKING_CONFIRMED",
                               "ENTITLEMENT_RELEASED"}, units : Int, booking : Bookings \cup {None}]
Labels == {"IDLE", "INSTANCE", "ACTIVATE", "LOOKUP", "QUOTE", "REREAD", "RESERVE",
           "OPERATION", "AGGREGATE", "TRANSITION"}
Goals == {"NONE", "FIRST_USE", "FIXED_DEADLINE", "RESERVE", "CONFIRM", "RELEASE"}

LEMMA UnusedShape ==
    ASSUME NEW n \in Int
    PROVE  UnusedUnder(n) \in Aggregate
BY DEF UnusedUnder, Aggregate

LEMMA IdleShape == Idle \in Handler /\ Sound(Idle) /\ Idle.pc = "IDLE"
<1>1. NotRead \in Aggregate /\ NoOperation \in Operation
  BY UnusedShape DEF NotRead, Operation
<1>2. Idle \in Handler
  BY <1>1, Zenon DEF Idle, Handler
<1>. QED
  BY <1>2 DEF Idle, Sound, GoalFits, SeenFenced, HeldFenced, HeldAllows

LEMMA InitHolds == Init => IInv
<1>. SUFFICES ASSUME Init PROVE IInv
  OBVIOUS
<1>1. policy \in Policies /\ policy.units \in Int
  BY PoliciesAssumption DEF Init
<1>2. aggregate \in Aggregate
  BY <1>1, UnusedShape DEF Init
<1>3. NoOperation \in Operation
  BY DEF Operation
<1>4. TypeOK
  BY <1>1, <1>2, <1>3, IdleShape, TimesAssumption DEF Init, TypeOK
<1>5. ActivatedOnce
  BY DEF Init, ActivatedOnce
<1>6. ReservationsMatch
  <2>1. \A k \in Keys : operations[k] = NoOperation /\ operations[k].state \notin Live
    BY DEF Init, NoOperation, Live
  <2>2. aggregate.active = {} /\ ledger = {}
    BY DEF Init, UnusedUnder
  <2>3. {j \in Keys : operations[j].state \in Live} = {}
    BY <2>1, Zenon
  <2>4. {j \in Keys : operations[j] # NoOperation} = {}
    BY <2>1, Zenon
  <2>5. {ReservationOf(k) : k \in {}} = {} /\ UNION {LedgerOf(k) : k \in {}} = {}
    BY Zenon
  <2>. QED
    BY <2>2, <2>3, <2>4, <2>5, Zenon DEF ReservationsMatch
<1>7. \A k \in Keys : Staged(operations[k])
  BY DEF Init, Staged, NoOperation, Released
<1>8. \A h \in Handlers : Sound(handler[h])
  <2>1. TAKE h \in Handlers
  <2>2. handler[h] = Idle
    BY DEF Init
  <2>. QED
    BY <2>2, IdleShape
<1>. QED
  BY <1>4, <1>5, <1>6, <1>7, <1>8 DEF IInv

\* A handler's local state with some of its fields replaced.
LEMMA Replaced ==
    ASSUME NEW x \in Handler
    PROVE  /\ \A v \in Labels : [x EXCEPT !.pc = v] \in Handler
           /\ \A v \in Aggregate : [x EXCEPT !.seen = v] \in Handler
           /\ \A v \in Operation : [x EXCEPT !.held = v] \in Handler
           /\ \A v \in Nat : [x EXCEPT !.expected = v] \in Handler
           /\ \A v \in Nat : [x EXCEPT !.from = v] \in Handler
           /\ \A v \in Goals : [x EXCEPT !.goal = v] \in Handler
           /\ \A v \in Keys : [x EXCEPT !.key = v] \in Handler
           /\ \A v \in Requests : [x EXCEPT !.request = v] \in Handler
           /\ \A v \in Bookings \cup {None} : [x EXCEPT !.booking = v] \in Handler
           /\ \A v \in Reasons : [x EXCEPT !.reason = v] \in Handler
           /\ \A v \in BOOLEAN : [x EXCEPT !.answered = v] \in Handler
<1>1. \A v \in Labels : [x EXCEPT !.pc = v] \in Handler
  BY Zenon DEF Handler, Labels, Goals
<1>2. \A v \in Aggregate : [x EXCEPT !.seen = v] \in Handler
  BY Zenon DEF Handler, Labels, Goals
<1>3. \A v \in Operation : [x EXCEPT !.held = v] \in Handler
  BY Zenon DEF Handler, Labels, Goals
<1>4. \A v \in Nat : [x EXCEPT !.expected = v] \in Handler
  BY Zenon DEF Handler, Labels, Goals
<1>5. \A v \in Nat : [x EXCEPT !.from = v] \in Handler
  BY Zenon DEF Handler, Labels, Goals
<1>6. \A v \in Goals : [x EXCEPT !.goal = v] \in Handler
  BY Zenon DEF Handler, Labels, Goals
<1>7. \A v \in Keys : [x EXCEPT !.key = v] \in Handler
  BY Zenon DEF Handler, Labels, Goals
<1>8. \A v \in Requests : [x EXCEPT !.request = v] \in Handler
  BY Zenon DEF Handler, Labels, Goals
<1>9. \A v \in Bookings \cup {None} : [x EXCEPT !.booking = v] \in Handler
  BY Zenon DEF Handler, Labels, Goals
<1>10. \A v \in Reasons : [x EXCEPT !.reason = v] \in Handler
  BY Zenon DEF Handler, Labels, Goals
<1>11. \A v \in BOOLEAN : [x EXCEPT !.answered = v] \in Handler
  BY Zenon DEF Handler, Labels, Goals
<1>. QED
  BY <1>1, <1>2, <1>3, <1>4, <1>5, <1>6, <1>7, <1>8, <1>9, <1>10, <1>11, Zenon

\* A step of one handler that writes nothing.
LEMMA HandlerStep ==
    ASSUME IInv, NEW h \in Handlers, NEW x \in Handler, Becomes(h, x), Sound(x), UNCHANGED Stored
    PROVE  IInv'
<1>1. handler' \in [Handlers -> Handler] /\ \A g \in Handlers : handler'[g] = handler[g] \/ handler'[g] = x
  BY DEF IInv, TypeOK, Becomes
<1>2. UNCHANGED <<now, policy, instance, activations, operations, aggregate, ledger>>
  BY DEF Stored
<1>3. TypeOK'
  BY <1>1, <1>2 DEF IInv, TypeOK
<1>4. ActivatedOnce' /\ ReservationsMatch' /\ \A k \in Keys : Staged(operations[k])'
  BY <1>2 DEF IInv, ActivatedOnce, ReservationsMatch, ReservationOf, LedgerOf, Staged
<1>5. \A g \in Handlers : Sound(handler'[g])
  BY <1>1, Zenon DEF IInv
<1>6. \A g \in Handlers : Sound(handler[g])'
  BY <1>2, <1>5 DEF Sound, GoalFits, SeenFenced, HeldFenced, HeldAllows
<1>. QED
  BY <1>3, <1>4, <1>6 DEF IInv

\* Whatever else changes, a handler goes on with the same request.
SameGoal(x, y) ==
    /\ y.goal = x.goal /\ y.key = x.key /\ y.request = x.request
    /\ y.booking = x.booking /\ y.reason = x.reason /\ y.answered = x.answered

LEMMA WithPc ==
    ASSUME NEW x \in Handler, NEW pc \in Labels, NEW y, y = [x EXCEPT !.pc = pc]
    PROVE  /\ y \in Handler /\ y.pc = pc /\ SameGoal(x, y)
           /\ y.seen = x.seen /\ y.held = x.held /\ y.from = x.from
<1>1. y \in Handler
  BY Replaced
<1>. QED
  BY <1>1 DEF Handler, SameGoal

SeenAt(x, pc, a) == [x EXCEPT !.pc = pc, !.seen = a]
HeldAt(x, pc, op) == [x EXCEPT !.pc = pc, !.held = op]

LEMMA WithSeen ==
    ASSUME NEW x \in Handler, NEW pc \in Labels, NEW a \in Aggregate
    PROVE  /\ SeenAt(x, pc, a) \in Handler /\ SeenAt(x, pc, a).pc = pc
           /\ SameGoal(x, SeenAt(x, pc, a))
           /\ SeenAt(x, pc, a).seen = a /\ SeenAt(x, pc, a).held = x.held
<1>1. SeenAt(x, pc, a) \in Handler
  BY Zenon DEF Handler, Labels, SeenAt
<1>. QED
  BY <1>1 DEF Handler, SameGoal, SeenAt

LEMMA WithHeld ==
    ASSUME NEW x \in Handler, NEW pc \in Labels, NEW op \in Operation
    PROVE  /\ HeldAt(x, pc, op) \in Handler /\ HeldAt(x, pc, op).pc = pc
           /\ SameGoal(x, HeldAt(x, pc, op)) /\ HeldAt(x, pc, op).held = op
<1>1. HeldAt(x, pc, op) \in Handler
  BY Zenon DEF Handler, Labels, HeldAt
<1>. QED
  BY <1>1 DEF Handler, SameGoal, HeldAt

-----------------------------------------------------------------------------
(* The steps that write nothing.                                           *)

LEMMA RefuseKeeps == ASSUME IInv, NEW h \in Handlers, Refuse(h), UNCHANGED Stored PROVE IInv'
BY IdleShape, HandlerStep DEF Refuse

LEMMA AnswerShape ==
    /\ [Idle EXCEPT !.answered = TRUE] \in Handler /\ Sound([Idle EXCEPT !.answered = TRUE])
    /\ [Idle EXCEPT !.answered = TRUE].pc = "IDLE"
<1>1. PICK x : x = [Idle EXCEPT !.answered = TRUE]
  OBVIOUS
<1>2. x \in Handler
  BY <1>1, IdleShape, Replaced
<1>3. x.pc = "IDLE"
  BY <1>1 DEF Idle
<1>. QED
  BY <1>1, <1>2, <1>3 DEF Sound, GoalFits, SeenFenced, HeldFenced, HeldAllows

LEMMA AnswerKeeps == ASSUME IInv, NEW h \in Handlers, Answer(h), UNCHANGED Stored PROVE IInv'
BY AnswerShape, HandlerStep DEF Answer

\* A handler that begins anew or goes on reads at labels where only its goal matters.
LEMMA EarlySound ==
    ASSUME NEW x, x.pc \in {"IDLE", "INSTANCE", "LOOKUP", "QUOTE", "OPERATION"}, GoalFits(x)
    PROVE  Sound(x)
BY DEF Sound, SeenFenced, HeldFenced, HeldAllows

LEMMA SameGoalFits ==
    ASSUME NEW x, NEW y, GoalFits(x), SameGoal(x, y), y.pc # "ACTIVATE",
           y.pc \in {"LOOKUP", "QUOTE", "REREAD", "RESERVE"} =>
               x.pc \in {"LOOKUP", "QUOTE", "REREAD", "RESERVE"},
           y.pc \in {"OPERATION", "AGGREGATE", "TRANSITION"} =>
               x.pc \in {"OPERATION", "AGGREGATE", "TRANSITION"},
           x.pc # "IDLE"
    PROVE  GoalFits(y)
BY Zenon DEF GoalFits, SameGoal

LEMMA AgainKeeps ==
    ASSUME IInv, NEW h \in Handlers, NEW pc \in {"LOOKUP", "QUOTE", "OPERATION"}, Again(h, pc),
           pc = "OPERATION" => handler[h].pc \in {"OPERATION", "AGGREGATE", "TRANSITION"},
           pc # "OPERATION" => handler[h].pc \in {"LOOKUP", "QUOTE", "REREAD", "RESERVE"}
    PROVE  \E x \in Handler : Becomes(h, x) /\ Sound(x)
<1>1. handler[h] \in Handler /\ GoalFits(handler[h])
  BY DEF IInv, TypeOK, Sound
<1>2. NotRead \in Aggregate /\ NoOperation \in Operation /\ pc \in Labels
  BY UnusedShape DEF NotRead, Operation, Labels
<1>3. PICK y : y = SeenAt(handler[h], pc, NotRead)
  OBVIOUS
<1>4. y \in Handler /\ y.pc = pc /\ SameGoal(handler[h], y)
  BY <1>1, <1>2, <1>3, WithSeen
<1>5. PICK x : x = [y EXCEPT !.held = NoOperation]
  OBVIOUS
<1>6. x \in Handler
  BY <1>2, <1>4, <1>5, Replaced
<1>7. x.pc = pc /\ SameGoal(handler[h], x)
  BY <1>4, <1>5, <1>6 DEF Handler, SameGoal
<1>8. Sound(x)
  BY <1>1, <1>7, SameGoalFits, EarlySound
<1>9. Becomes(h, x)
  BY <1>3, <1>5, Zenon DEF Again, SeenAt
<1>. QED
  BY <1>6, <1>8, <1>9

LEMMA BeginKeeps == ASSUME IInv, NEW h \in Handlers, Begin(h) PROVE IInv'
<1>1. UNCHANGED Stored
  BY DEF Begin, BeginFirstUse, BeginDeadline, BeginReserve, BeginConfirm, BeginRelease
<1>2. \E x \in Handler : Becomes(h, x) /\ Sound(x)
  <2>1. CASE BeginFirstUse(h) \/ BeginDeadline(h)
    <3>1. PICK goal \in Goals, n \in Nat : \E x :
              Becomes(h, x) /\ x \in {[Idle EXCEPT !.pc = "INSTANCE", !.goal = goal],
                                      [Idle EXCEPT !.pc = "INSTANCE", !.goal = goal, !.expected = n]}
      <4>1. instance.rev \in Nat
        BY DEF IInv, TypeOK
      <4>. QED
        BY <2>1, <4>1 DEF BeginFirstUse, BeginDeadline, Goals
    <3>. PICK x : Becomes(h, x) /\ x \in {[Idle EXCEPT !.pc = "INSTANCE", !.goal = goal],
                                           [Idle EXCEPT !.pc = "INSTANCE", !.goal = goal, !.expected = n]}
      BY <3>1
    <3>2. PICK y : y = [Idle EXCEPT !.pc = "INSTANCE"]
      OBVIOUS
    <3>3. y \in Handler /\ y.pc = "INSTANCE"
      BY <3>2, IdleShape, WithPc DEF Labels
    <3>4. PICK z : z = [y EXCEPT !.goal = goal]
      OBVIOUS
    <3>5. z \in Handler
      BY <3>3, <3>4, Replaced
    <3>6. z.pc = "INSTANCE"
      BY <3>3, <3>4 DEF Handler
    <3>7. x = z \/ x = [z EXCEPT !.expected = n]
      BY <3>2, <3>4, Zenon
    <3>8. x \in Handler
      BY <3>5, <3>7, Replaced
    <3>9. x.pc = "INSTANCE" /\ ~x.answered
      <4>1. ~y.answered
        BY <3>2 DEF Idle
      <4>2. ~z.answered
        BY <3>3, <3>4, <4>1 DEF Handler
      <4>. QED
        BY <3>5, <3>6, <3>7, <4>2 DEF Handler
    <3>10. Sound(x)
      BY <3>9, EarlySound DEF GoalFits
    <3>. QED
      BY <3>8, <3>10
  <2>2. ASSUME NEW k \in Keys, NEW request \in Requests, BeginReserve(h, k, request)
        PROVE  \E x \in Handler : Becomes(h, x) /\ Sound(x)
    <3>1. PICK x : x = [Idle EXCEPT
              !.pc = "LOOKUP", !.goal = "RESERVE", !.key = k, !.request = request]
      OBVIOUS
    <3>2. PICK y : y = [Idle EXCEPT !.pc = "LOOKUP"]
      OBVIOUS
    <3>3. y \in Handler
      BY <3>2, IdleShape, WithPc DEF Labels
    <3>4. PICK z : z = [y EXCEPT !.goal = "RESERVE"]
      OBVIOUS
    <3>5. z \in Handler
      BY <3>3, <3>4, Replaced DEF Goals
    <3>6. PICK u : u = [z EXCEPT !.key = k]
      OBVIOUS
    <3>7. u \in Handler
      BY <3>5, <3>6, Replaced
    <3>8. x = [u EXCEPT !.request = request]
      BY <3>1, <3>2, <3>4, <3>6, Zenon
    <3>9. x \in Handler
      BY <3>7, <3>8, Replaced
    <3>10. x.pc = "LOOKUP" /\ x.goal = "RESERVE" /\ x.key = k /\ x.request = request /\ ~x.answered
      BY <3>1 DEF Idle
    <3>11. Sound(x)
      BY <3>10, EarlySound DEF GoalFits
    <3>. QED
      BY <2>2, <3>1, <3>9, <3>11 DEF BeginReserve
  <2>3. ASSUME NEW k \in Keys, NEW b \in Bookings, BeginConfirm(h, k, b)
        PROVE  \E x \in Handler : Becomes(h, x) /\ Sound(x)
    <3>1. PICK x : x = [Idle EXCEPT
              !.pc = "OPERATION", !.goal = "CONFIRM", !.key = k, !.booking = b]
      OBVIOUS
    <3>2. PICK y : y = [Idle EXCEPT !.pc = "OPERATION"]
      OBVIOUS
    <3>3. y \in Handler
      BY <3>2, IdleShape, WithPc DEF Labels
    <3>4. PICK z : z = [y EXCEPT !.goal = "CONFIRM"]
      OBVIOUS
    <3>5. z \in Handler
      BY <3>3, <3>4, Replaced DEF Goals
    <3>6. PICK u : u = [z EXCEPT !.key = k]
      OBVIOUS
    <3>7. u \in Handler
      BY <3>5, <3>6, Replaced
    <3>8. x = [u EXCEPT !.booking = b]
      BY <3>1, <3>2, <3>4, <3>6, Zenon
    <3>9. x \in Handler
      BY <3>7, <3>8, Replaced
    <3>10. x.pc = "OPERATION" /\ x.goal = "CONFIRM" /\ x.key = k /\ x.booking = b /\ ~x.answered
      BY <3>1 DEF Idle
    <3>11. Sound(x)
      BY <3>10, EarlySound DEF GoalFits
    <3>. QED
      BY <2>3, <3>1, <3>9, <3>11 DEF BeginConfirm
  <2>4. ASSUME NEW k \in Keys, NEW reason \in Reasons, NEW b \in Bookings \cup {None},
               BeginRelease(h, k, reason, b)
        PROVE  \E x \in Handler : Becomes(h, x) /\ Sound(x)
    <3>1. PICK x : x = [Idle EXCEPT !.pc = "OPERATION", !.goal = "RELEASE", !.key = k,
                                    !.reason = reason, !.booking = b]
      OBVIOUS
    <3>2. PICK y : y = [Idle EXCEPT !.pc = "OPERATION"]
      OBVIOUS
    <3>3. y \in Handler
      BY <3>2, IdleShape, WithPc DEF Labels
    <3>4. PICK z : z = [y EXCEPT !.goal = "RELEASE"]
      OBVIOUS
    <3>5. z \in Handler
      BY <3>3, <3>4, Replaced DEF Goals
    <3>6. PICK u : u = [z EXCEPT !.key = k]
      OBVIOUS
    <3>7. u \in Handler
      BY <3>5, <3>6, Replaced
    <3>8. PICK v : v = [u EXCEPT !.reason = reason]
      OBVIOUS
    <3>9. v \in Handler
      BY <3>7, <3>8, Replaced
    <3>10. x = [v EXCEPT !.booking = b]
      BY <3>1, <3>2, <3>4, <3>6, <3>8, Zenon
    <3>11. x \in Handler
      BY <3>9, <3>10, Replaced
    <3>12. /\ x.pc = "OPERATION" /\ x.goal = "RELEASE" /\ x.key = k
           /\ x.reason = reason /\ x.booking = b /\ ~x.answered
      BY <3>1 DEF Idle
    <3>13. (b # None) = (reason = "BOOKING_CANCELLED")
      BY <2>4 DEF BeginRelease
    <3>14. Sound(x)
      BY <3>12, <3>13, EarlySound DEF GoalFits
    <3>. QED
      BY <2>4, <3>1, <3>11, <3>14 DEF BeginRelease
  <2>. QED
    BY <2>1, <2>2, <2>3, <2>4 DEF Begin
<1>. QED
  BY <1>1, <1>2, HandlerStep

LEMMA ReadInstanceKeeps == ASSUME IInv, NEW h \in Handlers, ReadInstance(h) PROVE IInv'
<1>1. /\ UNCHANGED Stored /\ handler[h] \in Handler /\ GoalFits(handler[h])
      /\ handler[h].pc = "INSTANCE"
  BY DEF ReadInstance, IInv, TypeOK, Sound, At
<1>2. CASE Refuse(h)
  BY <1>1, <1>2, RefuseKeeps
<1>3. CASE ~Refuse(h)
  <2>1. instance.rev \in Nat /\ now \in Nat /\ handler[h].expected \in Nat
    BY <1>1 DEF IInv, TypeOK, Handler
  <2>2. PICK n \in Nat, m \in Nat :
            m =< Deadline /\ Becomes(h, [handler[h] EXCEPT !.pc = "ACTIVATE", !.expected = n, !.from = m])
    <3>1. StartOf(handler[h].goal) \in Nat /\ StartOf(handler[h].goal) =< Deadline
      BY <2>1, TimesAssumption DEF StartOf
    <3>2. PICK n \in Nat : Becomes(h, [handler[h] EXCEPT !.pc = "ACTIVATE", !.expected = n,
                                           !.from = StartOf(handler[h].goal)])
      BY <1>3, <2>1, Zenon DEF ReadInstance
    <3>. QED
      BY <3>1, <3>2
  <2>3. PICK y : y = [handler[h] EXCEPT !.pc = "ACTIVATE"]
    OBVIOUS
  <2>4. y \in Handler /\ y.pc = "ACTIVATE"
    BY <1>1, <2>3, WithPc DEF Labels
  <2>5. PICK z : z = [y EXCEPT !.expected = n]
    OBVIOUS
  <2>6. z \in Handler
    BY <2>4, <2>5, Replaced
  <2>7. PICK x : x = [z EXCEPT !.from = m]
    OBVIOUS
  <2>8. x \in Handler
    BY <2>6, <2>7, Replaced
  <2>9. x.pc = "ACTIVATE" /\ x.from = m /\ ~x.answered
    <3>1. ~y.answered
      BY <1>1, <2>4, WithPc, <2>3 DEF SameGoal, GoalFits, Labels
    <3>2. ~z.answered /\ z.pc = "ACTIVATE"
      BY <2>4, <2>5, <3>1 DEF Handler
    <3>. QED
      BY <2>6, <2>7, <3>2 DEF Handler
  <2>10. Becomes(h, x)
    BY <2>2, <2>3, <2>5, <2>7, Zenon
  <2>11. Sound(x)
    BY <2>2, <2>9 DEF Sound, GoalFits, SeenFenced, HeldFenced, HeldAllows
  <2>. QED
    BY <1>1, <2>8, <2>10, <2>11, HandlerStep
<1>. QED
  BY <1>2, <1>3

LEMMA LookupKeeps == ASSUME IInv, NEW h \in Handlers, Lookup(h) PROVE IInv'
<1>1. UNCHANGED Stored /\ handler[h] \in Handler /\ GoalFits(handler[h]) /\ handler[h].pc = "LOOKUP"
  BY DEF Lookup, IInv, TypeOK, Sound, At
<1>2. CASE Goto(h, "QUOTE")
  <2>1. PICK x : x = [handler[h] EXCEPT !.pc = "QUOTE"]
    OBVIOUS
  <2>2. x \in Handler /\ x.pc = "QUOTE" /\ SameGoal(handler[h], x)
    BY <1>1, <2>1, WithPc DEF Labels
  <2>3. Sound(x)
    BY <1>1, <2>2, SameGoalFits, EarlySound
  <2>. QED
    BY <1>1, <1>2, <2>1, <2>2, <2>3, HandlerStep DEF Goto
<1>. QED
  BY <1>1, <1>2, RefuseKeeps, AnswerKeeps DEF Lookup

LEMMA QuoteKeeps == ASSUME IInv, NEW h \in Handlers, Quote(h) PROVE IInv'
<1>1. UNCHANGED Stored /\ handler[h] \in Handler /\ GoalFits(handler[h]) /\ handler[h].pc = "QUOTE"
  BY DEF Quote, IInv, TypeOK, Sound, At
<1>2. CASE Becomes(h, [handler[h] EXCEPT !.pc = "REREAD", !.seen = aggregate])
  <2>0. "REREAD" \in Labels /\ "TRANSITION" \in Labels
    BY DEF Labels
  <2>1. aggregate \in Aggregate /\ aggregate.rev \in Nat
    BY DEF IInv, TypeOK, Aggregate
  <2>2. PICK x : x = SeenAt(handler[h], "REREAD", aggregate)
    OBVIOUS
  <2>3. x \in Handler /\ x.pc = "REREAD" /\ SameGoal(handler[h], x) /\ x.seen = aggregate
    BY <1>1, <2>0, <2>1, <2>2, WithSeen
  <2>4. Sound(x)
    BY <1>1, <2>1, <2>3, SameGoalFits DEF Sound, SeenFenced, HeldFenced, HeldAllows
  <2>. QED
    BY <1>1, <1>2, <2>2, <2>3, <2>4, HandlerStep DEF SeenAt
<1>. QED
  BY <1>1, <1>2, RefuseKeeps DEF Quote

LEMMA RereadKeeps == ASSUME IInv, NEW h \in Handlers, Reread(h) PROVE IInv'
<1>1. UNCHANGED Stored /\ handler[h] \in Handler /\ Sound(handler[h]) /\ handler[h].pc = "REREAD"
  BY DEF Reread, IInv, TypeOK, At
<1>2. CASE Goto(h, "RESERVE")
  <2>1. PICK x : x = [handler[h] EXCEPT !.pc = "RESERVE"]
    OBVIOUS
  <2>2. /\ x \in Handler /\ x.pc = "RESERVE" /\ SameGoal(handler[h], x)
        /\ x.seen = handler[h].seen
    BY <1>1, <2>1, WithPc DEF Labels
  <2>3. Sound(x)
    BY <1>1, <2>2, SameGoalFits DEF Sound, SeenFenced, HeldFenced, HeldAllows
  <2>. QED
    BY <1>1, <1>2, <2>1, <2>2, <2>3, HandlerStep DEF Goto
<1>3. CASE ReserveAgain(h)
  <2>1. PICK pc \in {"LOOKUP", "QUOTE"} : Again(h, pc)
    BY <1>3 DEF ReserveAgain
  <2>. QED
    BY <1>1, <2>1, AgainKeeps, HandlerStep
<1>. QED
  BY <1>2, <1>3 DEF Reread

LEMMA ReadOperationKeeps == ASSUME IInv, NEW h \in Handlers, ReadOperation(h) PROVE IInv'
<1>1. /\ UNCHANGED Stored /\ handler[h] \in Handler /\ GoalFits(handler[h])
      /\ handler[h].pc = "OPERATION" /\ handler[h].key \in Keys
  BY DEF ReadOperation, IInv, TypeOK, Sound, At, GoalFits
<1>2. CASE Refuse(h) \/ Answer(h)
  BY <1>1, <1>2, RefuseKeeps, AnswerKeeps
<1>3. CASE ~(Refuse(h) \/ Answer(h))
  <2>0. "AGGREGATE" \in Labels
    BY DEF Labels
  <2>1. PICK op : op = operations[handler[h].key]
    OBVIOUS
  <2>2. /\ Becomes(h, [handler[h] EXCEPT !.pc = "AGGREGATE", !.held = op])
        /\ handler[h].goal = "CONFIRM" => op.state = "RESERVED"
        /\ handler[h].goal # "CONFIRM" => MayRelease(h, op)
    BY <1>3, <2>1, Zenon DEF ReadOperation
  <2>3. op \in Operation /\ op.rev \in Nat
    <3>1. op \in Operation
      BY <1>1, <2>1 DEF IInv, TypeOK
    <3>. QED
      BY <3>1 DEF Operation, NoOperation
  <2>4. PICK x : x = HeldAt(handler[h], "AGGREGATE", op)
    OBVIOUS
  <2>5. x \in Handler /\ x.pc = "AGGREGATE" /\ SameGoal(handler[h], x) /\ x.held = op
    BY <1>1, <2>0, <2>3, <2>4, WithHeld
  <2>6. GoalFits(x)
    BY <1>1, <2>5, SameGoalFits
  <2>7. HeldFenced(x)
    BY <2>1, <2>3, <2>5 DEF HeldFenced, SameGoal
  <2>8. HeldAllows(x)
    BY <2>2, <2>5, Zenon DEF HeldAllows, SameGoal, MayRelease
  <2>9. Sound(x)
    BY <2>5, <2>6, <2>7, <2>8 DEF Sound, SeenFenced
  <2>. QED
    BY <1>1, <2>2, <2>4, <2>5, <2>9, HandlerStep DEF HeldAt
<1>. QED
  BY <1>2, <1>3

LEMMA ReadAggregateKeeps == ASSUME IInv, NEW h \in Handlers, ReadAggregate(h) PROVE IInv'
<1>1. UNCHANGED Stored /\ handler[h] \in Handler /\ Sound(handler[h]) /\ handler[h].pc = "AGGREGATE"
  BY DEF ReadAggregate, IInv, TypeOK, At
<1>2. CASE Becomes(h, [handler[h] EXCEPT !.pc = "TRANSITION", !.seen = aggregate])
  <2>0. "REREAD" \in Labels /\ "TRANSITION" \in Labels
    BY DEF Labels
  <2>1. aggregate \in Aggregate /\ aggregate.rev \in Nat
    BY DEF IInv, TypeOK, Aggregate
  <2>2. PICK x : x = SeenAt(handler[h], "TRANSITION", aggregate)
    OBVIOUS
  <2>3. /\ x \in Handler /\ x.pc = "TRANSITION" /\ SameGoal(handler[h], x)
        /\ x.seen = aggregate /\ x.held = handler[h].held
    BY <1>1, <2>0, <2>1, <2>2, WithSeen
  <2>4. GoalFits(x)
    BY <1>1, <2>3, SameGoalFits DEF Sound
  <2>5. HeldFenced(x) /\ HeldAllows(x)
    BY <1>1, <2>3, Zenon DEF Sound, HeldFenced, HeldAllows, SameGoal
  <2>6. Sound(x)
    BY <2>1, <2>3, <2>4, <2>5 DEF Sound, SeenFenced
  <2>. QED
    BY <1>1, <1>2, <2>2, <2>3, <2>6, HandlerStep DEF SeenAt
<1>. QED
  BY <1>1, <1>2, RefuseKeeps DEF ReadAggregate

-----------------------------------------------------------------------------
(* The steps that write.                                                   *)

\* What is stored only moves to higher revisions, so that no handler is deceived.
LEMMA OthersKeep ==
    ASSUME IInv, NEW h \in Handlers, NEW x \in Handler, Becomes(h, x), GoalFits(x), x.pc = "IDLE",
           aggregate' \in Aggregate, operations' \in [Keys -> Operation],
           aggregate' = aggregate \/ aggregate'.rev > aggregate.rev,
           \A k \in Keys : operations'[k] = operations[k] \/ operations'[k].rev > operations[k].rev
    PROVE  handler' \in [Handlers -> Handler] /\ \A g \in Handlers : Sound(handler[g])'
<1>1. handler' \in [Handlers -> Handler] /\ \A g \in Handlers : handler'[g] = handler[g] \/ handler'[g] = x
  BY DEF IInv, TypeOK, Becomes
<1>2. ASSUME NEW g \in Handlers PROVE Sound(handler[g])'
  <2>1. CASE handler'[g] = x
    BY <2>1 DEF Sound, GoalFits, SeenFenced, HeldFenced, HeldAllows
  <2>2. CASE handler'[g] = handler[g]
    <3>1. Sound(handler[g]) /\ handler[g] \in Handler
      BY DEF IInv, TypeOK
    <3>2. GoalFits(handler[g])' /\ HeldAllows(handler[g])'
      BY <2>2, <3>1 DEF Sound, GoalFits, HeldAllows
    <3>3. SeenFenced(handler[g])'
      <4>1. handler[g].seen.rev \in Nat /\ aggregate.rev \in Nat /\ aggregate'.rev \in Nat
        BY <3>1 DEF Handler, Aggregate, IInv, TypeOK
      <4>. QED
        BY <2>2, <3>1, <4>1 DEF Sound, SeenFenced
    <3>4. HeldFenced(handler[g])'
      <4>1. ASSUME handler[g].pc \in {"AGGREGATE", "TRANSITION"}
            PROVE  HeldFenced(handler[g])'
        <5>1. handler[g].key \in Keys
          BY <3>1, <4>1 DEF Sound, GoalFits
        <5>2. handler[g].held \in Operation /\ operations[handler[g].key] \in Operation
              /\ operations'[handler[g].key] \in Operation
          BY <3>1, <5>1 DEF Handler, IInv, TypeOK
        <5>3. \A op \in Operation : op.rev \in Nat
          BY DEF Operation, NoOperation
        <5>4. /\ handler[g].held.rev \in Nat /\ operations[handler[g].key].rev \in Nat
              /\ operations'[handler[g].key].rev \in Nat
          BY <5>2, <5>3
        <5>. QED
          BY <2>2, <3>1, <5>1, <5>4 DEF Sound, HeldFenced
      <4>. QED
        BY <2>2, <4>1 DEF HeldFenced
    <3>. QED
      BY <3>2, <3>3, <3>4 DEF Sound
  <2>. QED
    BY <1>1, <2>1, <2>2
<1>. QED
  BY <1>1, <1>2

LEMMA TickKeeps == ASSUME IInv, Tick PROVE IInv'
<1>1. now' \in 0..MaxTime
  BY TimesAssumption DEF Tick, IInv, TypeOK
<1>2. TypeOK'
  BY <1>1 DEF Tick, IInv, TypeOK
<1>3. ActivatedOnce' /\ ReservationsMatch' /\ \A k \in Keys : Staged(operations[k])'
  BY DEF Tick, IInv, ActivatedOnce, ReservationsMatch, ReservationOf, LedgerOf, Staged
<1>4. \A h \in Handlers : Sound(handler[h])'
  BY DEF Tick, IInv, Sound, GoalFits, SeenFenced, HeldFenced, HeldAllows
<1>. QED
  BY <1>2, <1>3, <1>4 DEF IInv

LEMMA ReadBackKeeps == ASSUME IInv, ReadBack PROVE IInv'
<1>1. TypeOK'
  BY DEF ReadBack, IInv, TypeOK
<1>2. ActivatedOnce'
  BY DEF ReadBack, IInv, TypeOK, ActivatedOnce
<1>3. ReservationsMatch' /\ \A k \in Keys : Staged(operations[k])'
  BY DEF ReadBack, IInv, ReservationsMatch, ReservationOf, LedgerOf, Staged
<1>4. \A h \in Handlers : Sound(handler[h])'
  BY DEF ReadBack, IInv, Sound, GoalFits, SeenFenced, HeldFenced, HeldAllows
<1>. QED
  BY <1>1, <1>2, <1>3, <1>4 DEF IInv

LEMMA ActivateKeeps == ASSUME IInv, NEW h \in Handlers, Activate(h) PROVE IInv'
<1>1. /\ UNCHANGED <<now, policy, operations, aggregate, ledger>> /\ Refuse(h)
      /\ handler[h] \in Handler /\ Sound(handler[h]) /\ handler[h].pc = "ACTIVATE"
  BY DEF Activate, IInv, TypeOK, At
<1>2. CASE UNCHANGED <<instance, activations>>
  BY <1>1, <1>2, RefuseKeeps DEF Stored
<1>3. CASE instance.state = "PENDING_ACTIVATION" /\ ~UNCHANGED <<instance, activations>>
  <2>1. PICK b \in BOOLEAN :
            /\ instance' = [instance EXCEPT !.state = "ACTIVE", !.rev = @ + 1,
                                            !.from = handler[h].from, !.readBack = b]
            /\ activations' = Append(activations, handler[h].from)
    <3>1. now \in Nat /\ instance.readBack \in BOOLEAN
      BY DEF IInv, TypeOK
    <3>2. /\ instance' = [instance EXCEPT
                !.state = "ACTIVE", !.rev = @ + 1, !.from = handler[h].from,
                !.readBack = IF handler[h].goal = "FIRST_USE" THEN now >= Deadline ELSE @]
          /\ activations' = Append(activations, handler[h].from)
      BY <1>3, Zenon DEF Activate
    <3>3. PICK b : b = IF handler[h].goal = "FIRST_USE" THEN now >= Deadline ELSE instance.readBack
      OBVIOUS
    <3>4. b \in BOOLEAN
      <4>1. (now >= Deadline) \in BOOLEAN
        BY <3>1, TimesAssumption
      <4>. QED
        BY <3>1, <3>3, <4>1, Zenon
    <3>5. instance' = [instance EXCEPT !.state = "ACTIVE", !.rev = @ + 1,
                                       !.from = handler[h].from, !.readBack = b]
      BY <3>2, <3>3, Zenon
    <3>. QED
      BY <3>2, <3>4, <3>5, Zenon
  <2>2. activations = <<>> /\ handler[h].from \in Nat /\ handler[h].from =< Deadline
    BY <1>1, <1>3 DEF IInv, ActivatedOnce, Sound, GoalFits, Handler
  <2>3. activations' = <<handler[h].from>>
    BY <2>1, <2>2
  <2>4. /\ instance' \in [state : {"PENDING_ACTIVATION", "ACTIVE"}, rev : Nat,
                          from : Nat \cup {None}, readBack : BOOLEAN]
        /\ instance'.state = "ACTIVE" /\ instance'.from = handler[h].from
    <3>1. /\ instance \in [state : {"PENDING_ACTIVATION", "ACTIVE"}, rev : Nat,
                            from : Nat \cup {None}, readBack : BOOLEAN]
          /\ instance.rev + 1 \in Nat /\ handler[h].from \in Nat \cup {None}
      BY <2>2 DEF IInv, TypeOK
    <3>2. instance' = [state |-> "ACTIVE", rev |-> instance.rev + 1,
                       from |-> handler[h].from, readBack |-> b]
      BY <2>1, <3>1, Zenon
    <3>. QED
      BY <3>1, <3>2
  <2>5. ActivatedOnce'
    BY <2>2, <2>3, <2>4 DEF ActivatedOnce
  <2>6. handler' \in [Handlers -> Handler] /\ \A g \in Handlers : Sound(handler[g])'
    BY <1>1, IdleShape, OthersKeep DEF Refuse, Sound, IInv, TypeOK
  <2>7. TypeOK'
    BY <1>1, <2>2, <2>3, <2>4, <2>6 DEF IInv, TypeOK
  <2>8. ReservationsMatch' /\ \A k \in Keys : Staged(operations[k])'
    BY <1>1 DEF IInv, ReservationsMatch, ReservationOf, LedgerOf, Staged
  <2>. QED
    BY <2>5, <2>6, <2>7, <2>8 DEF IInv
<1>. QED
  BY <1>2, <1>3 DEF Activate

\* What the aggregate and the ledger hold of one operation.
ActiveOf(k) == IF operations[k].state \in Live THEN {ReservationOf(k)} ELSE {}
ToldOf(k) == IF operations[k] = NoOperation THEN {} ELSE LedgerOf(k)

LEMMA AbsentOperation == \A op \in Operation : op.state \in Live \cup Released => op # NoOperation
BY DEF NoOperation, Live, Released

LEMMA EventKeys == \A k \in Keys : \A e \in LedgerOf(k) : e.key = k
BY DEF LedgerOf, Event

LEMMA OneOperation ==
    ASSUME ReservationsMatch, NEW k \in Keys
    PROVE  ReservationsOf(aggregate, k) = ActiveOf(k) /\ {e \in ledger : e.key = k} = ToldOf(k)
<1>1. \A j : ReservationOf(j).key = j
  BY DEF ReservationOf
<1>2. ReservationsOf(aggregate, k) = ActiveOf(k)
  BY <1>1, Zenon DEF ReservationsMatch, ReservationsOf, ActiveOf
<1>3. {e \in ledger : e.key = k} = ToldOf(k)
  BY EventKeys, Zenon DEF ReservationsMatch, ToldOf
<1>. QED
  BY <1>2, <1>3

\* A change of one operation, its reservation and its events.
LEMMA OneChanges ==
    ASSUME ReservationsMatch, NEW k \in Keys,
           \A j \in Keys \ {k} : operations'[j] = operations[j],
           aggregate'.active = (aggregate.active \ ActiveOf(k)) \cup ActiveOf(k)',
           ledger' = (ledger \ ToldOf(k)) \cup ToldOf(k)'
    PROVE  ReservationsMatch'
<1>1. \A j \in Keys \ {k} : ReservationOf(j)' = ReservationOf(j) /\ LedgerOf(j)' = LedgerOf(j)
  BY DEF ReservationOf, LedgerOf
<1>2. \A j : ReservationOf(j).key = j
  BY DEF ReservationOf
<1>3. aggregate'.active =
          {ReservationOf(i) : i \in {j \in Keys : operations[j].state \in Live}}'
  <2>1. \A r : r \in aggregate.active <=>
            \E j \in Keys : operations[j].state \in Live /\ r = ReservationOf(j)
    BY Zenon DEF ReservationsMatch
  <2>2. \A r : r \in aggregate'.active <=>
            \/ \E j \in Keys \ {k} : operations[j].state \in Live /\ r = ReservationOf(j)
            \/ r \in ActiveOf(k)'
    <3>1. \A r : r \in ActiveOf(k) <=> operations[k].state \in Live /\ r = ReservationOf(k)
      BY Zenon DEF ActiveOf
    <3>2. \A r : r \in aggregate.active \ ActiveOf(k) <=>
              \E j \in Keys \ {k} : operations[j].state \in Live /\ r = ReservationOf(j)
      <4>1. \A j \in Keys \ {k} : ReservationOf(j) # ReservationOf(k)
        BY <1>2
      <4>2. ASSUME NEW r, r \in aggregate.active, r \notin ActiveOf(k)
            PROVE  \E j \in Keys \ {k} : operations[j].state \in Live /\ r = ReservationOf(j)
        <5>1. PICK j \in Keys : operations[j].state \in Live /\ r = ReservationOf(j)
          BY <2>1, <4>2, Zenon
        <5>2. j # k
          BY <3>1, <4>2, <5>1, Zenon
        <5>. QED
          BY <5>1, <5>2, Zenon
      <4>3. ASSUME NEW r, NEW j \in Keys \ {k}, operations[j].state \in Live, r = ReservationOf(j)
            PROVE  r \in aggregate.active /\ r \notin ActiveOf(k)
        BY <2>1, <3>1, <4>1, <4>3, Zenon
      <4>. QED
        BY <4>2, <4>3, Zenon
    <3>. QED
      BY <3>2, Zenon
  <2>3. \A r : r \in aggregate'.active <=>
            \E j \in Keys : operations'[j].state \in Live /\ r = ReservationOf(j)'
    BY <1>1, <2>2, Zenon DEF ActiveOf
  <2>. QED
    BY <2>3, Zenon
<1>4. ledger' = (UNION {LedgerOf(i) : i \in {j \in Keys : operations[j] # NoOperation}})'
  <2>1. \A e : e \in ledger <=>
            \E j \in Keys : operations[j] # NoOperation /\ e \in LedgerOf(j)
    BY Zenon DEF ReservationsMatch
  <2>2. \A e : e \in ledger' <=>
            \/ \E j \in Keys \ {k} : operations[j] # NoOperation /\ e \in LedgerOf(j)
            \/ e \in ToldOf(k)'
    BY <2>1, EventKeys, Zenon DEF ToldOf
  <2>3. \A e : e \in ledger' <=>
            \E j \in Keys : operations'[j] # NoOperation /\ e \in LedgerOf(j)'
    BY <1>1, <2>2, Zenon DEF ToldOf
  <2>. QED
    BY <2>3, Zenon
<1>. QED
  BY <1>3, <1>4 DEF ReservationsMatch

Days == {DayOf[t] : t \in Targets}

\* What a reservation is given back is a unit count like what it took.
LEMMA DeltaShape ==
    ASSUME NEW r \in Reserved
    PROVE  DailyDelta(r) \in Int /\ UnitsOf[r.target] \in Int /\ DayOf[r.target] \in Days
BY TargetsAssumption DEF Reserved, DailyDelta, Days

LEMMA AggregateShape ==
    ASSUME NEW a \in Aggregate, NEW r \in Reserved
    PROVE  ReserveAggregate(a, r) \in Aggregate /\ ReleaseAggregate(a, r) \in Aggregate
<1>1. /\ a.rev + 1 \in Nat /\ a.period \in Int /\ a.remaining \in Int
      /\ a.daily \in [Days -> Int] /\ a.active \subseteq Reserved
  BY DEF Aggregate, Days
<1>2. DailyDelta(r) \in Int /\ UnitsOf[r.target] \in Int /\ DayOf[r.target] \in Days
  BY DeltaShape
<1>3. ReserveAggregate(a, r) \in Aggregate
  <2>1. a.active \cup {r} \in SUBSET Reserved
    BY <1>1
  <2>2. [a.daily EXCEPT ![DayOf[r.target]] = @ + DailyDelta(r)] \in [Days -> Int]
    BY <1>1, <1>2
  <2>. QED
    BY <1>1, <1>2, <2>1, <2>2 DEF ReserveAggregate, Aggregate, Days
<1>4. ReleaseAggregate(a, r) \in Aggregate
  <2>1. a.active \ {r} \in SUBSET Reserved
    BY <1>1
  <2>2. [a.daily EXCEPT ![DayOf[r.target]] = @ - DailyDelta(r)] \in [Days -> Int]
    BY <1>1, <1>2
  <2>. QED
    BY <1>1, <1>2, <2>1, <2>2 DEF ReleaseAggregate, Aggregate, Days
<1>. QED
  BY <1>3, <1>4

\* One operation goes on by one revision, its reservation and its events with it.
LEMMA WritesKeep ==
    ASSUME IInv, NEW h \in Handlers, NEW k \in Keys, Answer(h),
           UNCHANGED <<now, policy, instance, activations>>,
           NEW op \in Operation, operations' = [operations EXCEPT ![k] = op], Staged(op),
           op.rev > operations[k].rev, aggregate' \in Aggregate, aggregate'.rev > aggregate.rev,
           ledger' \subseteq Events,
           aggregate'.active = (aggregate.active \ ActiveOf(k)) \cup ActiveOf(k)',
           ledger' = (ledger \ ToldOf(k)) \cup ToldOf(k)'
    PROVE  IInv'
<1>1. /\ operations' \in [Keys -> Operation] /\ operations'[k] = op
      /\ \A j \in Keys \ {k} : operations'[j] = operations[j]
  BY DEF IInv, TypeOK
<1>2. handler' \in [Handlers -> Handler] /\ \A g \in Handlers : Sound(handler[g])'
  BY <1>1, AnswerShape, OthersKeep DEF Answer, Sound
<1>3. ReservationsMatch'
  BY <1>1, OneChanges DEF IInv
<1>4. ActivatedOnce' /\ \A j \in Keys : Staged(operations[j])'
  BY <1>1 DEF IInv, ActivatedOnce, Staged
<1>5. TypeOK'
  BY <1>1, <1>2 DEF IInv, TypeOK, Events
<1>. QED
  BY <1>2, <1>3, <1>4, <1>5 DEF IInv

LEMMA OperationShape ==
    ASSUME NEW op \in Operation
    PROVE  /\ op.rev \in 0..3 /\ op.state \in Live \cup Released \cup {"ABSENT"}
           /\ op.booking \in Bookings \cup {None}
           /\ op.state = "ABSENT" <=> op = NoOperation
           /\ op # NoOperation =>
                 /\ op \in [state : Live \cup Released, rev : 1..3, request : Requests,
                            counted : BOOLEAN, booking : Bookings \cup {None},
                            reason : Reasons \cup {"NONE"}]
                 /\ op.request \in Requests /\ op.request.target \in Targets
BY TargetsAssumption DEF Operation, NoOperation, Live, Released

LEMMA ReserveWritesKeep ==
    ASSUME IInv, NEW h \in Handlers, At(h, "RESERVE"), operations[handler[h].key] = NoOperation,
           aggregate.rev = handler[h].seen.rev, ReserveWrites(h),
           UNCHANGED <<now, policy, instance, activations>>
    PROVE  IInv'
<1>1. PICK k : k = handler[h].key
  OBVIOUS
<1>2. PICK t : t = handler[h].request.target
  OBVIOUS
<1>3. PICK c : c = FitsDay(handler[h].seen, t)
  OBVIOUS
<1>4. /\ k \in Keys /\ handler[h].request \in Requests /\ t \in Targets
      /\ handler[h].seen = aggregate /\ aggregate \in Aggregate /\ operations[k] = NoOperation
  BY <1>1, <1>2, TargetsAssumption DEF IInv, TypeOK, Sound, GoalFits, SeenFenced, At
<1>5. c \in BOOLEAN
  <2>1. FitsDay(aggregate, t) \in BOOLEAN
    BY DEF FitsDay
  <2>. QED
    BY <1>3, <1>4, <2>1, Zenon
<1>6. PICK r : r = Reservation(k, t, c)
  OBVIOUS
<1>7. r \in Reserved
  BY <1>4, <1>5, <1>6 DEF Reservation, Reserved, Live
<1>8. PICK op : op = NewOperation(h, c)
  OBVIOUS
<1>9. op \in Operation /\ Staged(op) /\ op.state = "RESERVED" /\ op.rev = 1 /\ op.booking = None
      /\ op.request.target = t /\ op.counted = c /\ op # NoOperation
  BY <1>2, <1>4, <1>5, <1>8 DEF NewOperation, Operation, Staged, Live, Released, NoOperation
<1>10. /\ aggregate' = ReserveAggregate(aggregate, r)
       /\ operations' = [operations EXCEPT ![k] = op]
       /\ ledger' = ledger \cup {Event(k, "ENTITLEMENT_RESERVED", UnitsOf[t], None)}
       /\ Answer(h)
  BY <1>1, <1>2, <1>3, <1>4, <1>6, <1>8, Zenon DEF ReserveWrites
<1>11. aggregate' \in Aggregate
  BY <1>4, <1>7, <1>10, AggregateShape
<1>12. aggregate'.rev > aggregate.rev /\ aggregate'.active = aggregate.active \cup {r}
  BY <1>4, <1>10 DEF ReserveAggregate, Aggregate
<1>13. operations'[k] = op
  BY <1>4, <1>10 DEF IInv, TypeOK
<1>14. ActiveOf(k) = {} /\ ToldOf(k) = {}
  BY <1>4 DEF ActiveOf, ToldOf, NoOperation, Live
<1>15. ActiveOf(k)' = {r}
  BY <1>6, <1>9, <1>13 DEF ActiveOf, ReservationOf, Reservation, Live
<1>16. ToldOf(k)' = {Event(k, "ENTITLEMENT_RESERVED", UnitsOf[t], None)}
  BY <1>9, <1>13 DEF ToldOf, LedgerOf, Released
<1>17. ledger' \subseteq Events
  BY <1>4, <1>10, TargetsAssumption DEF IInv, TypeOK, Events, Event
<1>18. op.rev > operations[k].rev
  BY <1>4, <1>9 DEF NoOperation
<1>19. aggregate'.active = (aggregate.active \ ActiveOf(k)) \cup ActiveOf(k)'
  BY <1>12, <1>14, <1>15
<1>20. ledger' = (ledger \ ToldOf(k)) \cup ToldOf(k)'
  BY <1>10, <1>14, <1>16
<1>. QED
  BY <1>4, <1>9, <1>10, <1>11, <1>12, <1>17, <1>18, <1>19, <1>20, WritesKeep

LEMMA ReserveKeeps == ASSUME IInv, NEW h \in Handlers, Reserve(h) PROVE IInv'
<1>1. UNCHANGED <<now, policy, instance, activations>> /\ At(h, "RESERVE")
  BY DEF Reserve
<1>2. CASE operations[handler[h].key] = NoOperation /\ aggregate.rev = handler[h].seen.rev
           /\ ReserveWrites(h)
  BY <1>1, <1>2, ReserveWritesKeep
<1>3. CASE UNCHANGED <<aggregate, operations, ledger>> /\ (Answer(h) \/ Refuse(h))
  BY <1>1, <1>3, AnswerKeeps, RefuseKeeps DEF Stored
<1>4. CASE UNCHANGED <<aggregate, operations, ledger>> /\ ReserveAgain(h)
  <2>1. PICK pc \in {"LOOKUP", "QUOTE"} : Again(h, pc)
    BY <1>4 DEF ReserveAgain
  <2>2. UNCHANGED Stored /\ handler[h].pc = "RESERVE"
    BY <1>1, <1>4 DEF Stored, At
  <2>. QED
    BY <2>1, <2>2, AgainKeeps, HandlerStep
<1>. QED
  BY <1>2, <1>3, <1>4, Zenon DEF Reserve

\* What a transition works from, when both of its revisions still stand.
LEMMA TransitionStarts ==
    ASSUME IInv, NEW h \in Handlers, At(h, "TRANSITION"), OperationHeld(h),
           aggregate.rev = handler[h].seen.rev, NEW k, k = handler[h].key
    PROVE  /\ k \in Keys /\ handler[h] \in Handler /\ Sound(handler[h])
           /\ handler[h].seen = aggregate /\ aggregate \in Aggregate
           /\ handler[h].held = operations[k] /\ operations[k] \in Operation
           /\ operations[k].state \in Live /\ operations[k] # NoOperation /\ Staged(operations[k])
           /\ ReservationOf(k) \in Reserved
           /\ ActiveOf(k) = {ReservationOf(k)} /\ ReservationOf(k) \in aggregate.active
           /\ TheReservation(h) = ReservationOf(k)
<1>1. /\ k \in Keys /\ handler[h] \in Handler /\ Sound(handler[h]) /\ aggregate \in Aggregate
      /\ handler[h].seen = aggregate /\ handler[h].held = operations[k]
      /\ operations[k] \in Operation /\ Staged(operations[k])
  BY DEF IInv, TypeOK, Sound, GoalFits, SeenFenced, HeldFenced, At, OperationHeld
<1>2. operations[k].state \in Live /\ operations[k] # NoOperation
  <2>1. operations[k].state \in Live
    BY DEF OperationHeld, Expected, Live
  <2>. QED
    BY <1>1, <2>1, AbsentOperation
<1>3. ReservationOf(k) \in Reserved
  BY <1>1, <1>2, OperationShape DEF ReservationOf, Reserved
<1>4. ActiveOf(k) = {ReservationOf(k)}
  BY <1>2 DEF ActiveOf
<1>5. ReservationsOf(aggregate, k) = {ReservationOf(k)}
  BY <1>1, <1>4, OneOperation DEF IInv
<1>6. ReservationOf(k) \in aggregate.active
  BY <1>5 DEF ReservationsOf
<1>7. TheReservation(h) = ReservationOf(k)
  BY <1>1, <1>5 DEF TheReservation
<1>. QED
  BY <1>1, <1>2, <1>3, <1>4, <1>6, <1>7

LEMMA ConfirmKeeps ==
    ASSUME IInv, NEW h \in Handlers, At(h, "TRANSITION"), OperationHeld(h),
           aggregate.rev = handler[h].seen.rev, handler[h].goal = "CONFIRM", TransitionWrites(h),
           UNCHANGED <<now, policy, instance, activations>>
    PROVE  IInv'
<1>1. PICK k : k = handler[h].key
  OBVIOUS
<1>2. /\ k \in Keys /\ handler[h] \in Handler /\ Sound(handler[h])
      /\ handler[h].seen = aggregate /\ aggregate \in Aggregate
      /\ handler[h].held = operations[k] /\ operations[k] \in Operation
      /\ operations[k].state \in Live /\ operations[k] # NoOperation /\ Staged(operations[k])
      /\ ReservationOf(k) \in Reserved
      /\ ActiveOf(k) = {ReservationOf(k)} /\ ReservationOf(k) \in aggregate.active
      /\ TheReservation(h) = ReservationOf(k)
  BY <1>1, TransitionStarts
<1>3. PICK b : b = handler[h].booking
  OBVIOUS
<1>4. b \in Bookings /\ b # None /\ operations[k].state = "RESERVED"
  BY <1>2, <1>3, AbsenceAssumption DEF Sound, GoalFits, HeldAllows, At
<1>5. operations[k].rev = 1 /\ operations[k].booking = None
  BY <1>2, <1>4 DEF Staged
<1>6. PICK op : op = [operations[k] EXCEPT !.state = "CONFIRMED", !.rev = @ + 1, !.booking = b]
  OBVIOUS
<1>7. operations[k] \in [state : Live \cup Released, rev : 1..3, request : Requests,
                         counted : BOOLEAN, booking : Bookings \cup {None},
                         reason : Reasons \cup {"NONE"}]
  BY <1>2, OperationShape
<1>8. op = [state |-> "CONFIRMED", rev |-> 2, request |-> operations[k].request,
            counted |-> operations[k].counted, booking |-> b, reason |-> operations[k].reason]
  <2>1. op = [state |-> "CONFIRMED", rev |-> operations[k].rev + 1,
              request |-> operations[k].request, counted |-> operations[k].counted,
              booking |-> b, reason |-> operations[k].reason]
    BY <1>6, <1>7, Zenon
  <2>2. operations[k].rev + 1 = 2
    BY <1>5
  <2>. QED
    BY <2>1, <2>2, Zenon
<1>9. op \in Operation /\ Staged(op) /\ op # NoOperation
  BY <1>4, <1>7, <1>8 DEF Operation, Staged, Live, Released, NoOperation
<1>10. PICK r : r = [ReservationOf(k) EXCEPT !.state = "CONFIRMED"]
  OBVIOUS
<1>11. r \in Reserved
  BY <1>2, <1>10 DEF Reserved, Live
<1>12. /\ aggregate' = [aggregate EXCEPT !.rev = @ + 1,
                           !.active = (@ \ {ReservationOf(k)}) \cup {r}]
       /\ operations' = [operations EXCEPT ![k] = op]
       /\ ledger' = ledger \cup {Event(k, "BOOKING_CONFIRMED", 0, b)}
       /\ Answer(h)
  <2>1. /\ aggregate' = Confirmed(h)
        /\ operations' = [operations EXCEPT ![k] = ConfirmedOperation(h)]
        /\ ledger' = ledger \cup {Event(k, "BOOKING_CONFIRMED", 0, b)}
        /\ Answer(h)
    BY <1>1, <1>3, Zenon DEF TransitionWrites
  <2>2. ConfirmedOperation(h) = op
    BY <1>2, <1>3, <1>6, Zenon DEF ConfirmedOperation
  <2>3. Confirmed(h) = [aggregate EXCEPT !.rev = @ + 1,
                           !.active = (@ \ {ReservationOf(k)}) \cup {r}]
    BY <1>2, <1>10, Zenon DEF Confirmed
  <2>. QED
    BY <2>1, <2>2, <2>3, Zenon
<1>13. /\ aggregate' \in Aggregate /\ aggregate'.rev > aggregate.rev
       /\ aggregate'.active = (aggregate.active \ {ReservationOf(k)}) \cup {r}
  <2>1. PICK set : set = (aggregate.active \ {ReservationOf(k)}) \cup {r}
    OBVIOUS
  <2>2. set \in SUBSET Reserved /\ aggregate.rev + 1 \in Nat
    BY <1>2, <1>11, <2>1 DEF Aggregate
  <2>3. aggregate' = [rev |-> aggregate.rev + 1, active |-> set, daily |-> aggregate.daily,
                      period |-> aggregate.period, remaining |-> aggregate.remaining]
    BY <1>2, <1>12, <2>1, Zenon DEF Aggregate
  <2>. QED
    BY <1>2, <2>1, <2>2, <2>3 DEF Aggregate
<1>14. operations'[k] = op
  BY <1>2, <1>12 DEF IInv, TypeOK
<1>15. ActiveOf(k)' = {r}
  BY <1>8, <1>10, <1>14 DEF ActiveOf, ReservationOf, Live
<1>16. ToldOf(k) = {Event(k, "ENTITLEMENT_RESERVED", UnitsOf[operations[k].request.target], None)}
  BY <1>2, <1>4, <1>5 DEF ToldOf, LedgerOf, Released
<1>17. ToldOf(k)' = ToldOf(k) \cup {Event(k, "BOOKING_CONFIRMED", 0, b)}
  BY <1>8, <1>9, <1>14, <1>16 DEF ToldOf, LedgerOf, Released
<1>18. ToldOf(k) \subseteq ledger
  BY <1>2, OneOperation DEF IInv
<1>19. ledger' = (ledger \ ToldOf(k)) \cup ToldOf(k)'
  BY <1>12, <1>17, <1>18
<1>20. ledger' \subseteq Events
  BY <1>2, <1>4, <1>12 DEF IInv, TypeOK, Events, Event
<1>21. op.rev > operations[k].rev
  BY <1>5, <1>8
<1>22. aggregate'.active = (aggregate.active \ ActiveOf(k)) \cup ActiveOf(k)'
  BY <1>2, <1>13, <1>15
<1>. QED
  BY <1>2, <1>9, <1>12, <1>13, <1>19, <1>20, <1>21, <1>22, WritesKeep

LEMMA ReleaseKeeps ==
    ASSUME IInv, NEW h \in Handlers, At(h, "TRANSITION"), OperationHeld(h),
           aggregate.rev = handler[h].seen.rev, handler[h].goal = "RELEASE", TransitionWrites(h),
           UNCHANGED <<now, policy, instance, activations>>
    PROVE  IInv'
<1>1. PICK k : k = handler[h].key
  OBVIOUS
<1>2. /\ k \in Keys /\ handler[h] \in Handler /\ Sound(handler[h])
      /\ handler[h].seen = aggregate /\ aggregate \in Aggregate
      /\ handler[h].held = operations[k] /\ operations[k] \in Operation
      /\ operations[k].state \in Live /\ operations[k] # NoOperation /\ Staged(operations[k])
      /\ ReservationOf(k) \in Reserved
      /\ ActiveOf(k) = {ReservationOf(k)} /\ ReservationOf(k) \in aggregate.active
      /\ TheReservation(h) = ReservationOf(k)
  BY <1>1, TransitionStarts
<1>3. PICK b : b = handler[h].booking
  OBVIOUS
<1>4. /\ b \in Bookings \cup {None} /\ handler[h].reason \in Reasons
      /\ (b # None) = (handler[h].reason = "BOOKING_CANCELLED")
  BY <1>2, <1>3 DEF Sound, GoalFits, Handler, At
<1>5. /\ operations[k].state = "CONFIRMED" => handler[h].reason = "BOOKING_CANCELLED"
      /\ operations[k].booking # None /\ b # None => operations[k].booking = b
  BY <1>2, <1>3 DEF Sound, HeldAllows, At
<1>6. \/ operations[k].state = "RESERVED" /\ operations[k].rev = 1 /\ operations[k].booking = None
      \/ /\ operations[k].state = "CONFIRMED" /\ operations[k].rev = 2
         /\ operations[k].booking = b /\ b # None
  BY <1>2, <1>4, <1>5 DEF Staged, Live
<1>7. operations[k] \in [state : Live \cup Released, rev : 1..3, request : Requests,
                         counted : BOOLEAN, booking : Bookings \cup {None},
                         reason : Reasons \cup {"NONE"}]
  BY <1>2, OperationShape
<1>8. PICK op : op = ReleasedOperation(h)
  OBVIOUS
<1>9. op = [state |-> IF b = None THEN "FAILED" ELSE "COMPENSATED", rev |-> operations[k].rev + 1,
            request |-> operations[k].request, counted |-> operations[k].counted, booking |-> b,
            reason |-> handler[h].reason]
  <2>1. CASE b = None
    BY <1>2, <1>3, <1>6, <1>7, <1>8, <2>1 DEF ReleasedOperation
  <2>2. CASE b # None
    BY <1>2, <1>3, <1>7, <1>8, <2>2 DEF ReleasedOperation
  <2>. QED
    BY <2>1, <2>2
<1>10. op \in Operation /\ Staged(op) /\ op # NoOperation /\ op.state \in Released
  <2>1. op.state \in Released /\ op.rev \in {2, 3} /\ op.booking = b
    BY <1>6, <1>9 DEF Released
  <2>2. Staged(op) /\ op # NoOperation
    BY <2>1 DEF Staged, Released, NoOperation
  <2>3. op \in Operation
    BY <1>4, <1>7, <1>9, <2>1 DEF Operation
  <2>. QED
    BY <2>1, <2>2, <2>3
<1>11. PICK u : u = UnitsOf[operations[k].request.target]
  OBVIOUS
<1>12. u \in Int
  BY <1>2, <1>11, OperationShape, TargetsAssumption
<1>13. /\ aggregate' = ReleaseAggregate(aggregate, ReservationOf(k))
       /\ operations' = [operations EXCEPT ![k] = op]
       /\ ledger' = ledger \cup {Event(k, "ENTITLEMENT_RELEASED", -u, b)}
       /\ Answer(h)
  <2>1. ReservationOf(k).target = operations[k].request.target
    BY DEF ReservationOf
  <2>. QED
    BY <1>1, <1>2, <1>3, <1>8, <1>11, <2>1, Zenon DEF TransitionWrites
<1>14. /\ aggregate' \in Aggregate /\ aggregate'.rev > aggregate.rev
       /\ aggregate'.active = aggregate.active \ {ReservationOf(k)}
  <2>1. aggregate' \in Aggregate
    BY <1>2, <1>13, AggregateShape
  <2>. QED
    BY <1>2, <1>13, <2>1 DEF ReleaseAggregate, Aggregate
<1>15. operations'[k] = op
  BY <1>2, <1>13 DEF IInv, TypeOK
<1>16. ActiveOf(k)' = {}
  BY <1>10, <1>15 DEF ActiveOf, Live, Released
<1>17. ToldOf(k)' = ToldOf(k) \cup {Event(k, "ENTITLEMENT_RELEASED", -u, b)}
  <2>1. op.request = operations[k].request /\ op.booking = b /\ op.rev = operations[k].rev + 1
    BY <1>9
  <2>2. ToldOf(k)' = {Event(k, "ENTITLEMENT_RESERVED", u, None)}
                     \cup (IF op.state = "CONFIRMED" \/ op.rev = 3
                           THEN {Event(k, "BOOKING_CONFIRMED", 0, b)} ELSE {})
                     \cup {Event(k, "ENTITLEMENT_RELEASED", -u, b)}
    BY <1>10, <1>11, <1>15, <2>1, Zenon DEF ToldOf, LedgerOf
  <2>3. ToldOf(k) = {Event(k, "ENTITLEMENT_RESERVED", u, None)}
                    \cup (IF operations[k].state = "CONFIRMED"
                          THEN {Event(k, "BOOKING_CONFIRMED", 0, b)} ELSE {})
    BY <1>2, <1>6, <1>11 DEF ToldOf, LedgerOf, Live, Released
  <2>4. (op.state = "CONFIRMED" \/ op.rev = 3) <=> operations[k].state = "CONFIRMED"
    BY <1>6, <1>10, <2>1 DEF Released
  <2>. QED
    BY <2>2, <2>3, <2>4, Zenon
<1>18. ToldOf(k) \subseteq ledger
  BY <1>2, OneOperation DEF IInv
<1>19. ledger' = (ledger \ ToldOf(k)) \cup ToldOf(k)'
  BY <1>13, <1>17, <1>18
<1>20. ledger' \subseteq Events
  BY <1>2, <1>4, <1>12, <1>13 DEF IInv, TypeOK, Events, Event
<1>21. op.rev > operations[k].rev
  BY <1>6, <1>9
<1>22. aggregate'.active = (aggregate.active \ ActiveOf(k)) \cup ActiveOf(k)'
  BY <1>2, <1>14, <1>16
<1>. QED
  BY <1>2, <1>10, <1>13, <1>14, <1>19, <1>20, <1>21, <1>22, WritesKeep

LEMMA TransitionKeeps == ASSUME IInv, NEW h \in Handlers, Transition(h) PROVE IInv'
<1>1. UNCHANGED <<now, policy, instance, activations>> /\ At(h, "TRANSITION")
  BY DEF Transition
<1>2. CASE OperationHeld(h) /\ aggregate.rev = handler[h].seen.rev
  <2>1. TransitionWrites(h)
    BY <1>2 DEF Transition
  <2>2. handler[h].goal = "CONFIRM" \/ handler[h].goal = "RELEASE"
    BY <2>1 DEF TransitionWrites
  <2>. QED
    BY <1>1, <1>2, <2>1, <2>2, ConfirmKeeps, ReleaseKeeps
<1>3. CASE ~(OperationHeld(h) /\ aggregate.rev = handler[h].seen.rev)
  <2>1. Again(h, "OPERATION") /\ UNCHANGED <<aggregate, operations, ledger>>
    BY <1>3 DEF Transition
  <2>2. UNCHANGED Stored /\ handler[h].pc = "TRANSITION"
    BY <1>1, <2>1 DEF Stored, At
  <2>. QED
    BY <2>1, <2>2, AgainKeeps, HandlerStep
<1>. QED
  BY <1>2, <1>3

-----------------------------------------------------------------------------
(* The invariant is inductive.                                             *)

LEMMA EndKeeps == ASSUME IInv, NEW h \in Handlers, End(h) PROVE IInv'
BY RefuseKeeps DEF End

LEMMA StepKeeps == ASSUME IInv, NEW h \in Handlers, Step(h) PROVE IInv'
<1>1. CASE ReadInstance(h)
  BY <1>1, ReadInstanceKeeps
<1>2. CASE Activate(h)
  BY <1>2, ActivateKeeps
<1>3. CASE Lookup(h)
  BY <1>3, LookupKeeps
<1>4. CASE Quote(h)
  BY <1>4, QuoteKeeps
<1>5. CASE Reread(h)
  BY <1>5, RereadKeeps
<1>6. CASE Reserve(h)
  BY <1>6, ReserveKeeps
<1>7. CASE ReadOperation(h)
  BY <1>7, ReadOperationKeeps
<1>8. CASE ReadAggregate(h)
  BY <1>8, ReadAggregateKeeps
<1>9. CASE Transition(h)
  BY <1>9, TransitionKeeps
<1>. QED
  BY <1>1, <1>2, <1>3, <1>4, <1>5, <1>6, <1>7, <1>8, <1>9 DEF Step

LEMMA NextKeeps == IInv /\ [Next]_vars => IInv'
<1>. SUFFICES ASSUME IInv, [Next]_vars PROVE IInv'
  OBVIOUS
<1>1. CASE Next
  BY <1>1, BeginKeeps, StepKeeps, EndKeeps, ReadBackKeeps, TickKeeps DEF Next
<1>2. CASE UNCHANGED vars
  <2>1. TypeOK' /\ ActivatedOnce' /\ ReservationsMatch' /\ \A k \in Keys : Staged(operations[k])'
    BY <1>2 DEF vars, IInv, TypeOK, ActivatedOnce, ReservationsMatch, ReservationOf, LedgerOf, Staged
  <2>2. \A h \in Handlers : Sound(handler[h])'
    BY <1>2 DEF vars, IInv, Sound, GoalFits, SeenFenced, HeldFenced, HeldAllows
  <2>. QED
    BY <2>1, <2>2 DEF IInv
<1>. QED
  BY <1>1, <1>2

LEMMA Inductive == Spec => []IInv
BY InitHolds, NextKeeps, PTL DEF Spec

-----------------------------------------------------------------------------
(* Answers. A handler that goes on, or refuses, does not answer.           *)

Silent(h) == ~handler'[h].answered

LEMMA SilentStep ==
    ASSUME IInv, NEW h \in Handlers, NEW x, Becomes(h, x), ~x.answered
    PROVE  Silent(h)
BY DEF IInv, TypeOK, Becomes, Silent

LEMMA BusyIsSilent ==
    ASSUME IInv, NEW h \in Handlers, ~At(h, "IDLE")
    PROVE  handler[h] \in Handler /\ ~handler[h].answered
BY DEF IInv, TypeOK, Sound, GoalFits, At

LEMMA GoesOnSilently ==
    ASSUME IInv, NEW h \in Handlers, ~At(h, "IDLE")
    PROVE  /\ \A pc \in Labels : Goto(h, pc) \/ Again(h, pc) => Silent(h)
           /\ \A pc \in Labels, a \in Aggregate : Becomes(h, SeenAt(handler[h], pc, a)) => Silent(h)
           /\ \A pc \in Labels, op \in Operation :
                  Becomes(h, HeldAt(handler[h], pc, op)) => Silent(h)
           /\ Refuse(h) => Silent(h)
<1>1. handler[h] \in Handler /\ ~handler[h].answered
  BY BusyIsSilent
<1>2. NotRead \in Aggregate /\ NoOperation \in Operation
  BY UnusedShape DEF NotRead, Operation
<1>3. ASSUME NEW pc \in Labels, Goto(h, pc) PROVE Silent(h)
  <2>1. PICK x : x = [handler[h] EXCEPT !.pc = pc]
    OBVIOUS
  <2>2. ~x.answered
    BY <1>1, <2>1, WithPc DEF SameGoal
  <2>. QED
    BY <1>3, <2>1, <2>2, SilentStep DEF Goto
<1>4. ASSUME NEW pc \in Labels, NEW a \in Aggregate, Becomes(h, SeenAt(handler[h], pc, a))
      PROVE  Silent(h)
  <2>1. ~SeenAt(handler[h], pc, a).answered
    BY <1>1, WithSeen DEF SameGoal
  <2>. QED
    BY <1>4, <2>1, SilentStep
<1>5. ASSUME NEW pc \in Labels, NEW op \in Operation, Becomes(h, HeldAt(handler[h], pc, op))
      PROVE  Silent(h)
  <2>1. ~HeldAt(handler[h], pc, op).answered
    BY <1>1, WithHeld DEF SameGoal
  <2>. QED
    BY <1>5, <2>1, SilentStep
<1>6. ASSUME NEW pc \in Labels, Again(h, pc) PROVE Silent(h)
  <2>1. PICK y : y = SeenAt(handler[h], pc, NotRead)
    OBVIOUS
  <2>2. y \in Handler /\ ~y.answered
    BY <1>1, <1>2, <2>1, WithSeen DEF SameGoal
  <2>3. PICK x : x = [y EXCEPT !.held = NoOperation]
    OBVIOUS
  <2>4. ~x.answered
    BY <2>2, <2>3 DEF Handler
  <2>5. Becomes(h, x)
    BY <1>6, <2>1, <2>3, Zenon DEF Again, SeenAt
  <2>. QED
    BY <2>4, <2>5, SilentStep
<1>7. ASSUME Refuse(h) PROVE Silent(h)
  BY <1>7, SilentStep DEF Refuse, Idle
<1>. QED
  BY <1>3, <1>4, <1>5, <1>6, <1>7, Zenon

LEMMA ReadsSilently ==
    ASSUME IInv, NEW h \in Handlers,
           ReadInstance(h) \/ Activate(h) \/ Quote(h) \/ Reread(h) \/ ReadAggregate(h) \/ End(h)
    PROVE  Silent(h)
<1>1. ~At(h, "IDLE") /\ aggregate \in Aggregate
  BY DEF ReadInstance, Activate, Quote, Reread, ReadAggregate, End, At, IInv, TypeOK
<1>2. CASE ReadInstance(h)
  <2>1. CASE Refuse(h)
    BY <1>1, <2>1, GoesOnSilently
  <2>2. CASE ~Refuse(h)
    <3>1. PICK n, m : Becomes(h, [handler[h] EXCEPT !.pc = "ACTIVATE", !.expected = n, !.from = m])
      BY <1>2, <2>2, Zenon DEF ReadInstance
    <3>2. PICK x : x = [handler[h] EXCEPT !.pc = "ACTIVATE", !.expected = n, !.from = m]
      OBVIOUS
    <3>3. x.answered = handler[h].answered
      BY <1>1, <3>2, BusyIsSilent, Zenon DEF Handler
    <3>. QED
      BY <1>1, <3>1, <3>2, <3>3, BusyIsSilent, SilentStep
  <2>. QED
    BY <2>1, <2>2
<1>3. CASE Activate(h) \/ End(h)
  <2>1. Refuse(h)
    BY <1>3 DEF Activate, End
  <2>. QED
    BY <1>1, <2>1, GoesOnSilently
<1>4. CASE Quote(h) \/ ReadAggregate(h)
  <2>1. Refuse(h) \/ \E pc \in Labels : Becomes(h, SeenAt(handler[h], pc, aggregate))
    BY <1>4 DEF Quote, ReadAggregate, SeenAt, Labels
  <2>. QED
    BY <1>1, <2>1, GoesOnSilently
<1>5. CASE Reread(h)
  <2>1. \E pc \in Labels : Goto(h, pc) \/ Again(h, pc)
    BY <1>5 DEF Reread, ReserveAgain, Labels
  <2>. QED
    BY <1>1, <2>1, GoesOnSilently
<1>. QED
  BY <1>2, <1>3, <1>4, <1>5

LEMMA LookupAnswers ==
    ASSUME IInv, NEW h \in Handlers, Lookup(h), ~Silent(h)
    PROVE  AnswerTrue(handler[h], operations'[handler[h].key])
<1>1. ~At(h, "IDLE") /\ handler[h].goal = "RESERVE" /\ operations' = operations
  BY DEF Lookup, At, IInv, Sound, GoalFits, Stored
<1>2. ~Goto(h, "QUOTE") /\ ~Refuse(h)
  BY <1>1, GoesOnSilently DEF Labels
<1>3. /\ operations[handler[h].key].request = handler[h].request
      /\ operations[handler[h].key].state \in Live
  BY <1>2, Zenon DEF Lookup
<1>. QED
  BY <1>1, <1>3 DEF AnswerTrue

LEMMA ReserveAnswers ==
    ASSUME IInv, NEW h \in Handlers, Reserve(h), ~Silent(h)
    PROVE  AnswerTrue(handler[h], operations'[handler[h].key])
<1>1. /\ ~At(h, "IDLE") /\ handler[h].goal = "RESERVE" /\ handler[h].key \in Keys
      /\ operations \in [Keys -> Operation]
  BY DEF Reserve, At, IInv, TypeOK, Sound, GoalFits
<1>2. ~Refuse(h) /\ ~ReserveAgain(h)
  BY <1>1, GoesOnSilently DEF ReserveAgain, Labels
<1>3. CASE ReserveWrites(h)
  <2>1. PICK c : operations' = [operations EXCEPT ![handler[h].key] = NewOperation(h, c)]
    BY <1>3 DEF ReserveWrites
  <2>2. /\ operations'[handler[h].key].request = handler[h].request
        /\ operations'[handler[h].key].state \in Live
    BY <1>1, <2>1 DEF NewOperation, Live
  <2>. QED
    BY <1>1, <2>2 DEF AnswerTrue
<1>4. CASE ~ReserveWrites(h)
  <2>1. /\ operations' = operations
        /\ operations[handler[h].key].request = handler[h].request
        /\ handler[h].request.versioned => operations[handler[h].key].state \in Live
    BY <1>2, <1>4, Zenon DEF Reserve
  <2>. QED
    BY <1>1, <2>1 DEF AnswerTrue
<1>. QED
  BY <1>3, <1>4

LEMMA ReadOperationAnswers ==
    ASSUME IInv, NEW h \in Handlers, ReadOperation(h), ~Silent(h)
    PROVE  AnswerTrue(handler[h], operations'[handler[h].key])
<1>1. PICK op : op = operations[handler[h].key]
  OBVIOUS
<1>2. /\ ~At(h, "IDLE") /\ handler[h].goal \in {"CONFIRM", "RELEASE"}
      /\ op \in Operation /\ operations' = operations
  BY <1>1 DEF ReadOperation, At, IInv, TypeOK, Sound, GoalFits, Stored
<1>3. ~Refuse(h) /\ ~Becomes(h, [handler[h] EXCEPT !.pc = "AGGREGATE", !.held = op])
  <2>1. "AGGREGATE" \in Labels
    BY DEF Labels
  <2>. QED
    BY <1>2, <2>1, GoesOnSilently DEF HeldAt
<1>4. IF handler[h].goal = "CONFIRM" THEN ConfirmReplay(h, op) ELSE ReleaseReplay(h, op)
  BY <1>1, <1>3, Zenon DEF ReadOperation
<1>5. CASE handler[h].goal = "CONFIRM"
  BY <1>1, <1>2, <1>4, <1>5 DEF AnswerTrue, ConfirmReplay
<1>6. CASE handler[h].goal = "RELEASE"
  BY <1>1, <1>2, <1>4, <1>6 DEF AnswerTrue, ReleaseReplay
<1>. QED
  BY <1>2, <1>5, <1>6

LEMMA TransitionAnswers ==
    ASSUME IInv, NEW h \in Handlers, Transition(h), ~Silent(h)
    PROVE  AnswerTrue(handler[h], operations'[handler[h].key])
<1>1. PICK k : k = handler[h].key
  OBVIOUS
<1>2. ~At(h, "IDLE") /\ At(h, "TRANSITION") /\ operations \in [Keys -> Operation]
  BY DEF Transition, At, IInv, TypeOK
<1>3. ~Again(h, "OPERATION")
  BY <1>2, GoesOnSilently DEF Labels
<1>4. OperationHeld(h) /\ aggregate.rev = handler[h].seen.rev /\ TransitionWrites(h)
  BY <1>3, Zenon DEF Transition
<1>5. /\ k \in Keys /\ handler[h].held = operations[k] /\ operations[k] \in Operation
      /\ operations[k] # NoOperation /\ Staged(operations[k]) /\ operations[k].state \in Live
      /\ Sound(handler[h])
  BY <1>1, <1>2, <1>4, TransitionStarts
<1>6. operations[k] \in [state : Live \cup Released, rev : 1..3, request : Requests,
                         counted : BOOLEAN, booking : Bookings \cup {None},
                         reason : Reasons \cup {"NONE"}]
  BY <1>5, OperationShape
<1>7. CASE handler[h].goal = "CONFIRM"
  <2>1. operations'[k] = ConfirmedOperation(h)
    BY <1>1, <1>2, <1>4, <1>5, <1>7 DEF TransitionWrites
  <2>2. operations'[k].state = "CONFIRMED" /\ operations'[k].booking = handler[h].booking
    BY <1>5, <1>6, <2>1 DEF ConfirmedOperation
  <2>. QED
    BY <1>1, <1>7, <2>2 DEF AnswerTrue
<1>8. CASE handler[h].goal = "RELEASE"
  <2>1. operations'[k] = ReleasedOperation(h)
    BY <1>1, <1>2, <1>4, <1>5, <1>8 DEF TransitionWrites
  <2>2. handler[h].booking = None => operations[k].booking = None
    BY <1>2, <1>5, <1>8 DEF Sound, GoalFits, HeldAllows, Staged, At, Live
  <2>3. /\ operations'[k].state \in Released /\ operations'[k].reason = handler[h].reason
        /\ operations'[k].booking = handler[h].booking
    <3>1. CASE handler[h].booking = None
      BY <1>5, <1>6, <2>1, <2>2, <3>1 DEF ReleasedOperation, Released
    <3>2. CASE handler[h].booking # None
      BY <1>5, <1>6, <2>1, <3>2 DEF ReleasedOperation, Released
    <3>. QED
      BY <3>1, <3>2
  <2>. QED
    BY <1>1, <1>8, <2>3 DEF AnswerTrue
<1>. QED
  BY <1>4, <1>7, <1>8 DEF TransitionWrites

LEMMA AnswersHonest ==
    ASSUME IInv, Next, NEW h \in Handlers, ~At(h, "IDLE"), ~Silent(h)
    PROVE  AnswerTrue(handler[h], operations'[handler[h].key])
<1>1. ~handler[h].answered
  BY BusyIsSilent
<1>2. handler'[h] # handler[h]
  BY <1>1 DEF Silent
<1>3. PICK g \in Handlers : Begin(g) \/ Step(g) \/ End(g)
  BY <1>2 DEF Next, ReadBack, Tick
<1>4. \E x : Becomes(g, x)
  BY <1>3 DEF Begin, BeginFirstUse, BeginDeadline, BeginReserve, BeginConfirm, BeginRelease,
              Step, End, ReadInstance, Activate, Lookup, Quote, Reread, Reserve, ReserveAgain,
              ReserveWrites, ReadOperation, ReadAggregate, Transition, TransitionWrites,
              Goto, Refuse, Answer, Again
<1>5. g = h
  BY <1>2, <1>4 DEF Becomes, IInv, TypeOK
<1>6. ~Begin(h)
  BY DEF Begin, BeginFirstUse, BeginDeadline, BeginReserve, BeginConfirm, BeginRelease, At
<1>. QED
  BY <1>3, <1>5, <1>6, ReadsSilently, LookupAnswers, ReserveAnswers, ReadOperationAnswers,
     TransitionAnswers DEF Step

-----------------------------------------------------------------------------
(* Sums over finite sets.                                                 *)

Pick(s) == CHOOSE x \in s : TRUE
Unfolds(f, g, T) ==
    g = [s \in SUBSET T |-> IF s = {} THEN 0 ELSE f[Pick(s)] + g[s \ {Pick(s)}]]

\* What holds of the empty set, and of a set when it holds of the set less any
\* element, holds of every finite set.
LEMMA FiniteSetsBuilt ==
    ASSUME NEW S, NEW G, {} \in G,
           \A T \in SUBSET S : /\ IsFiniteSet(T) /\ T # {}
                               /\ \A x \in T : T \ {x} \in G
                               => T \in G
    PROVE  \A T \in SUBSET S : IsFiniteSet(T) => T \in G
<1>. DEFINE Rest == {T \in FiniteSubsetsOf(S) : T \notin G}
<1>1. SUFFICES ASSUME Rest # {} PROVE FALSE
  BY Zenon DEF FiniteSubsetsOf
<1>2. IsWellFoundedOn(StrictSubsetOrdering(S), FiniteSubsetsOf(S))
  BY FS_StrictSubsetOrderingWellFounded, Zenon
<1>3. PICK T \in Rest : \A U \in Rest : ~ (<<U, T>> \in StrictSubsetOrdering(S))
  <2>1. Rest \subseteq FiniteSubsetsOf(S)
    BY Zenon
  <2>. HIDE DEF Rest
  <2>. QED
    BY <1>1, <1>2, <2>1, WFMin
<1>4. T \in SUBSET S /\ IsFiniteSet(T) /\ T # {}
  BY <1>3, Zenon DEF FiniteSubsetsOf
<1>5. ASSUME NEW x \in T PROVE T \ {x} \in G
  <2>1. IsFiniteSet(T \ {x}) /\ T \ {x} \in SUBSET S
    BY <1>4, FS_RemoveElement, Zenon
  <2>2. <<T \ {x}, T>> \in StrictSubsetOrdering(S)
    BY <1>4, <2>1 DEF StrictSubsetOrdering
  <2>. QED
    BY <1>3, <2>1, <2>2, Zenon DEF FiniteSubsetsOf
<1>. QED
  BY <1>3, <1>4, <1>5, Zenon

LEMMA SomeUnfolds ==
    ASSUME NEW S, NEW f \in [S -> Int], NEW T \in SUBSET S, IsFiniteSet(T)
    PROVE  \E g \in [SUBSET T -> Int] : Unfolds(f, g, T)
<1>. DEFINE Small(n) == {s \in SUBSET T : Cardinality(s) =< n}
            Body(g, s) == IF s = {} THEN 0 ELSE f[Pick(s)] + g[s \ {Pick(s)}]
            Partial(g, n) == g \in [Small(n) -> Int] /\ \A s \in Small(n) : g[s] = Body(g, s)
            Missing == {n \in Nat : ~ \E g : Partial(g, n)}
<1>1. \A s \in SUBSET T : IsFiniteSet(s) /\ Cardinality(s) \in Nat /\ (s = {} <=> Cardinality(s) = 0)
  BY FS_Subset, FS_CardinalityType, FS_EmptySet
<1>2. \A s \in SUBSET T : s # {} => Pick(s) \in s /\ s \ {Pick(s)} \in SUBSET T
                                   /\ Cardinality(s \ {Pick(s)}) = Cardinality(s) - 1
  <2>1. TAKE s \in SUBSET T
  <2>2. HAVE s # {}
  <2>3. Pick(s) \in s
    BY <2>2, Zenon DEF Pick
  <2>4. Cardinality(s \ {Pick(s)}) = Cardinality(s) - 1
    BY <2>3, <1>1, FS_RemoveElement
  <2>. QED
    BY <2>3, <2>4, Zenon
<1>3. \E g : Partial(g, 0)
  <2>1. Small(0) = {{}}
    BY <1>1
  <2>2. Partial([s \in Small(0) |-> 0], 0)
    BY <2>1
  <2>. QED
    BY <2>2, Zenon
<1>4. ASSUME NEW n \in Nat, NEW g, Partial(g, n) PROVE \E h : Partial(h, n + 1)
  <2>. DEFINE h == [s \in Small(n + 1) |-> Body(g, s)]
  <2>1. ASSUME NEW s \in Small(n + 1), s # {}
        PROVE  Pick(s) \in s /\ s \ {Pick(s)} \in Small(n)
    BY <2>1, <1>1, <1>2
  <2>2. \A s \in Small(n) : s \in Small(n + 1) /\ g[s] = h[s]
    BY <1>1, <1>4
  <2>3. ASSUME NEW s \in Small(n + 1) PROVE Body(g, s) \in Int /\ Body(h, s) = Body(g, s)
    <3>. HIDE DEF h
    <3>1. CASE s = {}
      BY <3>1
    <3>2. CASE s # {}
      <4>1. Pick(s) \in s /\ s \ {Pick(s)} \in Small(n)
        BY <2>1, <3>2
      <4>2. f[Pick(s)] \in Int /\ g[s \ {Pick(s)}] \in Int /\ h[s \ {Pick(s)}] = g[s \ {Pick(s)}]
        <5>. HIDE DEF Small
        <5>1. g \in [Small(n) -> Int]
          BY <1>4, Zenon
        <5>2. Pick(s) \in S
          BY <4>1, <2>3 DEF Small
        <5>. QED
          BY <4>1, <5>1, <5>2, <2>2, Zenon
      <4>. QED
        BY <4>2, <3>2
    <3>. QED
      BY <3>1, <3>2
  <2>4. Partial(h, n + 1)
    <3>. HIDE DEF Body, Small
    <3>. QED
      BY <2>3
  <2>. QED
    BY <2>4, Zenon
<1>5. \A n \in Nat : \E g : Partial(g, n)
  <2>1. SUFFICES ASSUME Missing # {} PROVE FALSE
    BY Zenon
  <2>. DEFINE Below == OpToRel(<, Nat)
  <2>2. IsWellFoundedOn(Below, Nat)
    BY NatLessThanWellFounded, Zenon
  <2>3. \A n \in Nat \ {0} : n - 1 \in Nat /\ <<n - 1, n>> \in Below
    BY DEF OpToRel
  <2>. HIDE DEF Below
  <2>4. PICK n \in Missing : \A m \in Missing : ~ (<<m, n>> \in Below)
    <3>1. Missing \subseteq Nat
      BY Zenon
    <3>. HIDE DEF Missing
    <3>. QED
      BY <2>1, <2>2, <3>1, WFMin
  <2>. HIDE DEF Partial
  <2>5. n \in Nat /\ n # 0 /\ n - 1 \in Nat /\ n - 1 \notin Missing
    BY <1>3, <2>3, <2>4
  <2>6. PICK g : Partial(g, n - 1)
    BY <2>5, Zenon
  <2>7. \E h : Partial(h, n)
    <3>1. \E h : Partial(h, (n - 1) + 1)
      BY <1>4, <2>5, <2>6, Zenon
    <3>2. (n - 1) + 1 = n
      BY <2>5
    <3>. QED
      BY <3>1, <3>2
  <2>. QED
    BY <2>4, <2>7
<1>6. PICK g : Partial(g, Cardinality(T))
  BY <1>1, <1>5, Zenon
<1>7. Small(Cardinality(T)) = SUBSET T
  BY FS_Subset, <1>1
<1>8. g \in [SUBSET T -> Int] /\ \A s \in SUBSET T : g[s] = Body(g, s)
  BY <1>6, <1>7, Zenon
<1>9. g = [s \in SUBSET T |-> Body(g, s)]
  BY <1>8
<1>. QED
  BY <1>8, <1>9, Zenon DEF Unfolds

LEMMA UnfoldsOnce ==
    ASSUME NEW f, NEW T, IsFiniteSet(T), NEW g, Unfolds(f, g, T), NEW h, Unfolds(f, h, T)
    PROVE  g = h
<1>. DEFINE Same == {s \in SUBSET T : g[s] = h[s]}
<1>1. \A s \in SUBSET T : g[s] = (IF s = {} THEN 0 ELSE f[Pick(s)] + g[s \ {Pick(s)}])
                      /\ h[s] = (IF s = {} THEN 0 ELSE f[Pick(s)] + h[s \ {Pick(s)}])
  BY DEF Unfolds
<1>2. {} \in Same
  BY <1>1
<1>3. ASSUME NEW s \in SUBSET T, s # {}, \A x \in s : s \ {x} \in Same PROVE s \in Same
  <2>1. Pick(s) \in s
    BY <1>3, Zenon DEF Pick
  <2>2. g[s \ {Pick(s)}] = h[s \ {Pick(s)}]
    BY <1>3, <2>1, Zenon
  <2>. QED
    BY <1>1, <1>3, <2>2
<1>4. \A s \in SUBSET T : IsFiniteSet(s) => s \in Same
  <2>. HIDE DEF Same
  <2>. QED
    BY <1>2, <1>3, FiniteSetsBuilt, Zenon
<1>5. \A s \in SUBSET T : g[s] = h[s]
  BY <1>4, FS_Subset, Zenon
<1>. QED
  BY <1>5 DEF Unfolds


Sum(f, T) == MapThenSumSet(LAMBDA x : f[x], T)

LEMMA SumUnfolds ==
    ASSUME NEW f, NEW T, IsFiniteSet(T), NEW g, Unfolds(f, g, T)
    PROVE  Sum(f, T) = g[T]
<1>1. \A h : Unfolds(f, h, T) => h = g
  BY UnfoldsOnce, Zenon
<1>. QED
  BY <1>1, Zenon DEF Sum, MapThenSumSet, MapThenFoldSet, Unfolds, Pick

LEMMA SumSteps ==
    ASSUME NEW S, NEW f \in [S -> Int], NEW T \in SUBSET S, IsFiniteSet(T)
    PROVE  /\ Sum(f, T) \in Int
           /\ T = {} => Sum(f, T) = 0
           /\ T # {} => Sum(f, T) = f[Pick(T)] + Sum(f, T \ {Pick(T)})
<1>1. PICK g \in [SUBSET T -> Int] : Unfolds(f, g, T)
  BY SomeUnfolds, Zenon
<1>2. ASSUME NEW U \in SUBSET T PROVE Sum(f, U) = g[U]
  <2>. DEFINE h == [s \in SUBSET U |-> g[s]]
  <2>1. \A s \in SUBSET U : s \in SUBSET T /\ s \ {Pick(s)} \in SUBSET U
    BY Zenon
  <2>2. Unfolds(f, h, U)
    BY <1>1, <2>1 DEF Unfolds
  <2>3. Sum(f, U) = h[U]
    <3>1. IsFiniteSet(U)
      BY FS_Subset, Zenon
    <3>. HIDE DEF h
    <3>. QED
      BY <2>2, <3>1, SumUnfolds, Zenon
  <2>. QED
    BY <2>3
<1>3. g[T] = IF T = {} THEN 0 ELSE f[Pick(T)] + g[T \ {Pick(T)}]
  BY <1>1 DEF Unfolds
<1>4. T \in SUBSET T /\ T \ {Pick(T)} \in SUBSET T
  BY Zenon
<1>. QED
  BY <1>1, <1>2, <1>3, <1>4

\* Any element of the set may be counted first.
LEMMA SumLess ==
    ASSUME NEW S, NEW f \in [S -> Int], NEW T \in SUBSET S, IsFiniteSet(T), NEW x \in T
    PROVE  Sum(f, T) = f[x] + Sum(f, T \ {x})
<1>. DEFINE Good == {U \in SUBSET S : IsFiniteSet(U) =>
                       \A y \in U : Sum(f, U) = f[y] + Sum(f, U \ {y})}
<1>1. {} \in Good
  BY Zenon
<1>2. ASSUME NEW U \in SUBSET S, IsFiniteSet(U), U # {}, \A y \in U : U \ {y} \in Good
      PROVE  U \in Good
  <2>1. SUFFICES ASSUME NEW y \in U PROVE Sum(f, U) = f[y] + Sum(f, U \ {y})
    BY Zenon
  <2>. DEFINE p == Pick(U)
  <2>2. p \in U
    BY <1>2, Zenon DEF Pick
  <2>3. Sum(f, U) = f[p] + Sum(f, U \ {p})
    <3>1. IsFiniteSet(U) /\ U # {}
      BY <1>2, Zenon
    <3>. HIDE DEF Good
    <3>. QED
      BY <3>1, SumSteps
  <2>. HIDE DEF p
  <2>4. CASE p = y
    BY <2>3, <2>4
  <2>5. CASE p # y
    <3>1. IsFiniteSet(U \ {p}) /\ IsFiniteSet(U \ {y}) /\ IsFiniteSet((U \ {p}) \ {y})
      BY <1>2, FS_RemoveElement, Zenon
    <3>2. Sum(f, U \ {p}) = f[y] + Sum(f, (U \ {p}) \ {y})
      BY <1>2, <2>2, <2>5, <3>1, Zenon
    <3>3. Sum(f, U \ {y}) = f[p] + Sum(f, (U \ {y}) \ {p})
      BY <1>2, <2>2, <2>5, <3>1, Zenon
    <3>4. (U \ {y}) \ {p} = (U \ {p}) \ {y}
      BY Zenon
    <3>5. Sum(f, (U \ {p}) \ {y}) \in Int /\ f[y] \in Int /\ f[p] \in Int
      <4>1. (U \ {p}) \ {y} \in SUBSET S /\ p \in S /\ y \in S
        BY <2>2
      <4>. QED
        BY <3>1, <4>1, SumSteps, Zenon
    <3>. HIDE DEF Good
    <3>6. f[p] + (f[y] + Sum(f, (U \ {p}) \ {y})) = f[y] + (f[p] + Sum(f, (U \ {p}) \ {y}))
      BY <3>5
    <3>. QED
      BY <2>3, <3>2, <3>3, <3>4, <3>6, Zenon
  <2>. QED
    BY <2>4, <2>5
<1>3. T \in Good
  <2>. HIDE DEF Good
  <2>. QED
    BY <1>1, <1>2, FiniteSetsBuilt, Zenon
<1>. QED
  BY <1>3, Zenon

\* One element more.
LEMMA SumMore ==
    ASSUME NEW S, NEW f \in [S -> Int], NEW T \in SUBSET S, IsFiniteSet(T), NEW x \in S \ T
    PROVE  Sum(f, T \cup {x}) = Sum(f, T) + f[x]
<1>1. T \cup {x} \in SUBSET S /\ IsFiniteSet(T \cup {x}) /\ (T \cup {x}) \ {x} = T
  BY FS_AddElement
<1>2. Sum(f, T \cup {x}) = f[x] + Sum(f, T)
  BY <1>1, SumLess
<1>3. Sum(f, T) \in Int /\ f[x] \in Int
  BY SumSteps
<1>. QED
  BY <1>2, <1>3

\* A sum is the same under other names of what is summed.
LEMMA SumRenamed ==
    ASSUME NEW S, NEW f \in [S -> Int], NEW S2, NEW f2 \in [S2 -> Int],
           NEW b \in [S -> S2], \A x, y \in S : b[x] = b[y] => x = y,
           \A x \in S : f2[b[x]] = f[x],
           NEW T \in SUBSET S, IsFiniteSet(T)
    PROVE  Sum(f2, {b[x] : x \in T}) = Sum(f, T)
<1>. DEFINE Named(U) == {b[x] : x \in U}
            Good == {U \in SUBSET S : IsFiniteSet(Named(U)) /\ Sum(f2, Named(U)) = Sum(f, U)}
<1>1. {} \in Good
  <2>1. Named({}) = {}
    BY Zenon
  <2>2. Sum(f2, {}) = 0 /\ Sum(f, {}) = 0
    BY SumSteps, FS_EmptySet
  <2>. QED
    BY <2>1, <2>2, FS_EmptySet
<1>2. ASSUME NEW U \in SUBSET S, IsFiniteSet(U), U # {}, \A y \in U : U \ {y} \in Good
      PROVE  U \in Good
  <2>1. PICK y \in U : TRUE
    BY <1>2, Zenon
  <2>2. Named(U) = Named(U \ {y}) \cup {b[y]} /\ b[y] \notin Named(U \ {y})
    BY <2>1
  <2>3. Named(U \ {y}) \in SUBSET S2 /\ b[y] \in S2 /\ f2[b[y]] = f[y]
    BY <2>1
  <2>4. IsFiniteSet(Named(U \ {y})) /\ Sum(f2, Named(U \ {y})) = Sum(f, U \ {y})
    BY <1>2, Zenon
  <2>. HIDE DEF Named
  <2>5. Sum(f2, Named(U)) = Sum(f2, Named(U \ {y})) + f2[b[y]]
    <3>1. Sum(f2, Named(U \ {y}) \cup {b[y]}) = Sum(f2, Named(U \ {y})) + f2[b[y]]
      <4>. DEFINE V == Named(U \ {y})
      <4>1. V \in SUBSET S2 /\ IsFiniteSet(V) /\ b[y] \in S2 \ V
        BY <2>2, <2>3, <2>4, Zenon
      <4>. HIDE DEF V
      <4>2. Sum(f2, V \cup {b[y]}) = Sum(f2, V) + f2[b[y]]
        BY <4>1, SumMore
      <4>. QED
        BY <4>2, Zenon DEF V
    <3>. QED
      BY <2>2, <3>1, Zenon
  <2>6. Sum(f, U) = f[y] + Sum(f, U \ {y}) /\ Sum(f, U \ {y}) \in Int /\ f[y] \in Int
    <3>1. IsFiniteSet(U \ {y}) /\ U \ {y} \in SUBSET S /\ y \in S
      BY <1>2, FS_RemoveElement
    <3>2. IsFiniteSet(U)
      BY <1>2, Zenon
    <3>. HIDE DEF Good
    <3>3. Sum(f, U \ {y}) \in Int
      BY <3>1, SumSteps
    <3>. QED
      BY <3>1, <3>2, <3>3, SumLess
  <2>7. IsFiniteSet(Named(U))
    <3>1. IsFiniteSet(Named(U \ {y}))
      BY <2>4, Zenon
    <3>2. IsFiniteSet(Named(U \ {y}) \cup {b[y]})
      BY <3>1, FS_AddElement, Zenon
    <3>. QED
      BY <2>2, <3>2, Zenon
  <2>. QED
    BY <2>3, <2>4, <2>5, <2>6, <2>7
<1>3. T \in Good
  <2>. HIDE DEF Good
  <2>. QED
    BY <1>1, <1>2, FiniteSetsBuilt, Zenon
<1>. QED
  BY <1>3, Zenon

-----------------------------------------------------------------------------
(* The counters of the aggregate.                                          *)

Worth == [r \in Reserved |-> UnitsOf[r.target]]
OnDay(set, d) == {r \in set : r.counted /\ DayOf[r.target] = d}

LEMMA WorthShape == Worth \in [Reserved -> Int] /\ \A r \in Reserved : Worth[r] = UnitsOf[r.target]
BY DeltaShape DEF Worth

LEMMA TotalIsSum ==
    ASSUME NEW set \in SUBSET Reserved, IsFiniteSet(set)
    PROVE  Total(set) = Sum(Worth, set)
<1>1. PICK g \in [SUBSET set -> Int] : Unfolds(Worth, g, set)
  BY SomeUnfolds, WorthShape, Zenon
<1>2. ASSUME NEW h PROVE Unfolds(Worth, h, set) <=>
          h = [s \in SUBSET set |->
                 IF s = {} THEN 0 ELSE UnitsOf[Pick(s).target] + h[s \ {Pick(s)}]]
  <2>1. \A s \in SUBSET set : s # {} => Worth[Pick(s)] = UnitsOf[Pick(s).target]
    <3>1. \A s \in SUBSET set : s # {} => Pick(s) \in Reserved
      BY Zenon DEF Pick
    <3>. QED
      BY <3>1, WorthShape, Zenon
  <2>2. \A s \in SUBSET set :
            (IF s = {} THEN 0 ELSE Worth[Pick(s)] + h[s \ {Pick(s)}]) =
            (IF s = {} THEN 0 ELSE UnitsOf[Pick(s).target] + h[s \ {Pick(s)}])
    BY <2>1, Zenon
  <2>3. [s \in SUBSET set |-> IF s = {} THEN 0 ELSE Worth[Pick(s)] + h[s \ {Pick(s)}]] =
        [s \in SUBSET set |-> IF s = {} THEN 0 ELSE UnitsOf[Pick(s).target] + h[s \ {Pick(s)}]]
    BY <2>2
  <2>. QED
    BY <2>3, Zenon DEF Unfolds
<1>3. \A h : Unfolds(Worth, h, set) => h = g
  BY <1>1, UnfoldsOnce, Zenon
<1>4. Total(set) = g[set]
  BY <1>1, <1>2, <1>3, Zenon DEF Total, MapThenSumSet, MapThenFoldSet, Pick
<1>. QED
  BY <1>1, <1>4, SumUnfolds, Zenon

\* One reservation more, in all and on its day.
LEMMA TotalsMore ==
    ASSUME NEW set \in SUBSET Reserved, IsFiniteSet(set), NEW r \in Reserved \ set
    PROVE  /\ Total(set) \in Int
           /\ Total(set \cup {r}) = Total(set) + UnitsOf[r.target]
           /\ \A d : /\ Total(OnDay(set, d)) \in Int
                     /\ Total(OnDay(set \cup {r}, d)) =
                            Total(OnDay(set, d)) + (IF d = DayOf[r.target] THEN DailyDelta(r) ELSE 0)
<1>1. ASSUME NEW s \in SUBSET Reserved, IsFiniteSet(s), r \notin s
      PROVE  Total(s) \in Int /\ Total(s \cup {r}) = Total(s) + UnitsOf[r.target]
  <2>1. IsFiniteSet(s \cup {r}) /\ s \cup {r} \in SUBSET Reserved
    BY <1>1, FS_AddElement
  <2>2. Total(s \cup {r}) = Sum(Worth, s \cup {r}) /\ Total(s) = Sum(Worth, s)
    BY <1>1, <2>1, TotalIsSum
  <2>3. Sum(Worth, s \cup {r}) = Sum(Worth, s) + Worth[r] /\ Worth[r] = UnitsOf[r.target]
    BY <1>1, WorthShape, SumMore
  <2>4. Sum(Worth, s) \in Int
    BY <1>1, WorthShape, SumSteps
  <2>. QED
    BY <2>2, <2>3, <2>4, Zenon
<1>2. ASSUME NEW d
      PROVE  /\ Total(OnDay(set, d)) \in Int
             /\ Total(OnDay(set \cup {r}, d)) =
                    Total(OnDay(set, d)) + (IF d = DayOf[r.target] THEN DailyDelta(r) ELSE 0)
  <2>1. OnDay(set, d) \in SUBSET Reserved /\ IsFiniteSet(OnDay(set, d)) /\ r \notin OnDay(set, d)
    <3>1. OnDay(set, d) \in SUBSET set
      BY Zenon DEF OnDay
    <3>. QED
      BY <3>1, FS_Subset, Zenon
  <2>2. Total(OnDay(set, d)) \in Int
    BY <1>1, <2>1, Zenon
  <2>3. CASE r.counted /\ d = DayOf[r.target]
    <3>1. OnDay(set \cup {r}, d) = OnDay(set, d) \cup {r}
      BY <2>3, Zenon DEF OnDay
    <3>2. Total(OnDay(set, d) \cup {r}) = Total(OnDay(set, d)) + UnitsOf[r.target]
      BY <1>1, <2>1, Zenon
    <3>. QED
      BY <2>2, <2>3, <3>1, <3>2, Zenon DEF DailyDelta
  <2>4. CASE ~(r.counted /\ d = DayOf[r.target])
    <3>1. OnDay(set \cup {r}, d) = OnDay(set, d)
      BY <2>4, Zenon DEF OnDay
    <3>2. (IF d = DayOf[r.target] THEN DailyDelta(r) ELSE 0) = 0
      BY <2>4, Zenon DEF DailyDelta
    <3>3. Total(OnDay(set, d)) + 0 = Total(OnDay(set, d))
      BY <2>2
    <3>. QED
      BY <2>2, <3>1, <3>2, <3>3, Zenon
  <2>. QED
    BY <2>3, <2>4
<1>. QED
  BY <1>1, <1>2, Zenon

Balanced(a) ==
    /\ IsFiniteSet(a.active)
    /\ a.period = Total(a.active)
    /\ a.remaining = policy.units - Total(a.active)
    /\ \A d \in Days : a.daily[d] = Total(OnDay(a.active, d))

LEMMA ReserveBalanced ==
    ASSUME NEW a \in Aggregate, Balanced(a), policy.units \in Int, NEW r \in Reserved \ a.active
    PROVE  Balanced(ReserveAggregate(a, r))
<1>. DEFINE b == ReserveAggregate(a, r)
<1>1. /\ a.active \in SUBSET Reserved /\ a.daily \in [Days -> Int]
      /\ IsFiniteSet(a.active)
  BY DEF Aggregate, Days, Balanced
<1>2. UnitsOf[r.target] \in Int /\ DailyDelta(r) \in Int
  BY DeltaShape
<1>3. /\ b.active = a.active \cup {r}
      /\ b.daily = [a.daily EXCEPT ![DayOf[r.target]] = @ + DailyDelta(r)]
      /\ b.period = a.period + UnitsOf[r.target]
      /\ b.remaining = a.remaining - UnitsOf[r.target]
  BY DEF ReserveAggregate
<1>. HIDE DEF b
<1>4. IsFiniteSet(b.active)
  <2>1. IsFiniteSet(a.active \cup {r})
    BY <1>1, FS_AddElement, Zenon
  <2>. QED
    BY <1>3, <2>1, Zenon
<1>5. Total(a.active) \in Int /\ Total(b.active) = Total(a.active) + UnitsOf[r.target]
  BY <1>1, <1>3, TotalsMore, Zenon
<1>6. b.period = Total(b.active) /\ b.remaining = policy.units - Total(b.active)
  BY <1>2, <1>3, <1>5 DEF Balanced
<1>7. ASSUME NEW d \in Days PROVE b.daily[d] = Total(OnDay(b.active, d))
  <2>1. Total(OnDay(b.active, d)) =
            Total(OnDay(a.active, d)) + (IF d = DayOf[r.target] THEN DailyDelta(r) ELSE 0)
    <3>1. Total(OnDay(a.active \cup {r}, d)) =
              Total(OnDay(a.active, d)) + (IF d = DayOf[r.target] THEN DailyDelta(r) ELSE 0)
      BY <1>1, TotalsMore
    <3>. QED
      BY <1>3, <3>1, Zenon
  <2>2. a.daily[d] = Total(OnDay(a.active, d)) /\ a.daily[d] \in Int
    BY <1>1 DEF Balanced
  <2>3. b.daily[d] = a.daily[d] + (IF d = DayOf[r.target] THEN DailyDelta(r) ELSE 0)
    BY <1>1, <1>2, <1>3, <2>2
  <2>. QED
    BY <2>1, <2>2, <2>3, Zenon
<1>. QED
  BY <1>4, <1>6, <1>7, Zenon DEF Balanced, b

LEMMA ReleaseBalanced ==
    ASSUME NEW a \in Aggregate, Balanced(a), policy.units \in Int, NEW r \in a.active
    PROVE  Balanced(ReleaseAggregate(a, r))
<1>. DEFINE b == ReleaseAggregate(a, r)
<1>1. /\ a.active \in SUBSET Reserved /\ a.daily \in [Days -> Int]
      /\ IsFiniteSet(a.active) /\ r \in Reserved
  BY DEF Aggregate, Days, Balanced
<1>2. UnitsOf[r.target] \in Int /\ DailyDelta(r) \in Int
  BY <1>1, DeltaShape
<1>3. /\ b.active = a.active \ {r}
      /\ b.daily = [a.daily EXCEPT ![DayOf[r.target]] = @ - DailyDelta(r)]
      /\ b.period = a.period - UnitsOf[r.target]
      /\ b.remaining = a.remaining + UnitsOf[r.target]
  BY DEF ReleaseAggregate
<1>. HIDE DEF b
<1>4. IsFiniteSet(b.active) /\ b.active \in SUBSET Reserved /\ r \notin b.active
      /\ a.active = b.active \cup {r}
  <2>1. IsFiniteSet(a.active \ {r}) /\ a.active \ {r} \in SUBSET Reserved
    BY <1>1, FS_RemoveElement, Zenon
  <2>2. a.active = (a.active \ {r}) \cup {r} /\ r \notin a.active \ {r}
    OBVIOUS
  <2>. QED
    BY <1>3, <2>1, <2>2, Zenon
<1>5. Total(b.active) \in Int /\ Total(a.active) = Total(b.active) + UnitsOf[r.target]
  BY <1>1, <1>4, TotalsMore, Zenon
<1>6. b.period = Total(b.active) /\ b.remaining = policy.units - Total(b.active)
  BY <1>2, <1>3, <1>5 DEF Balanced
<1>7. ASSUME NEW d \in Days PROVE b.daily[d] = Total(OnDay(b.active, d))
  <2>1. /\ Total(OnDay(b.active, d)) \in Int
        /\ Total(OnDay(a.active, d)) =
            Total(OnDay(b.active, d)) + (IF d = DayOf[r.target] THEN DailyDelta(r) ELSE 0)
    <3>1. r \in Reserved \ b.active
      BY <1>1, <1>4, Zenon
    <3>2. /\ Total(OnDay(b.active, d)) \in Int
          /\ Total(OnDay(b.active \cup {r}, d)) =
              Total(OnDay(b.active, d)) + (IF d = DayOf[r.target] THEN DailyDelta(r) ELSE 0)
      BY <1>4, <3>1, TotalsMore
    <3>. QED
      BY <1>4, <3>2, Zenon
  <2>2. a.daily[d] = Total(OnDay(a.active, d)) /\ a.daily[d] \in Int
    BY <1>1 DEF Balanced
  <2>3. b.daily[d] = a.daily[d] - (IF d = DayOf[r.target] THEN DailyDelta(r) ELSE 0)
    BY <1>1, <1>2, <1>3, <2>2
  <2>. QED
    BY <1>2, <2>1, <2>2, <2>3
<1>. QED
  BY <1>4, <1>6, <1>7, Zenon DEF Balanced, b

\* A reservation in another state is worth the same.
LEMMA ExchangeBalanced ==
    ASSUME NEW a \in Aggregate, Balanced(a), policy.units \in Int, NEW r \in a.active,
           NEW q \in Reserved, q \notin a.active \ {r}, q.target = r.target, q.counted = r.counted,
           NEW b \in Aggregate, b.active = (a.active \ {r}) \cup {q},
           b.daily = a.daily, b.period = a.period, b.remaining = a.remaining
    PROVE  Balanced(b)
<1>a. PICK rest : rest = a.active \ {r}
  OBVIOUS
<1>1. /\ rest \in SUBSET Reserved /\ IsFiniteSet(rest) /\ r \in Reserved
      /\ r \notin rest /\ q \notin rest /\ a.active = rest \cup {r} /\ b.active = rest \cup {q}
  BY <1>a, FS_RemoveElement DEF Aggregate, Balanced
<1>0. r \in Reserved \ rest /\ q \in Reserved \ rest
  BY <1>1, Zenon
<1>2. DailyDelta(q) = DailyDelta(r)
  BY DEF DailyDelta
<1>3. Total(b.active) = Total(a.active)
  <2>1. Total(rest \cup {r}) = Total(rest) + UnitsOf[r.target]
    BY <1>1, TotalsMore, Zenon
  <2>2. Total(rest \cup {q}) = Total(rest) + UnitsOf[q.target]
    BY <1>1, TotalsMore, Zenon
  <2>. QED
    BY <1>1, <2>1, <2>2, Zenon
<1>4. ASSUME NEW d \in Days PROVE Total(OnDay(b.active, d)) = Total(OnDay(a.active, d))
  <2>1. ASSUME NEW x \in Reserved \ rest
        PROVE  Total(OnDay(rest \cup {x}, d)) =
                   Total(OnDay(rest, d)) + (IF d = DayOf[x.target] THEN DailyDelta(x) ELSE 0)
    BY <1>1, TotalsMore
  <2>2. /\ Total(OnDay(rest \cup {r}, d)) =
               Total(OnDay(rest, d)) + (IF d = DayOf[r.target] THEN DailyDelta(r) ELSE 0)
        /\ Total(OnDay(rest \cup {q}, d)) =
               Total(OnDay(rest, d)) + (IF d = DayOf[q.target] THEN DailyDelta(q) ELSE 0)
    BY <1>0, <2>1, Zenon
  <2>. QED
    BY <1>1, <1>2, <2>2, Zenon
<1>5. IsFiniteSet(b.active)
  <2>1. IsFiniteSet(rest \cup {q})
    BY <1>1, FS_AddElement, Zenon
  <2>. QED
    BY <1>1, <2>1, Zenon
<1>. QED
  BY <1>3, <1>4, <1>5, Zenon DEF Balanced

-----------------------------------------------------------------------------
(* The three changes of an operation and of the aggregate with it.         *)

Takes(k, t, c, op) ==
    /\ operations[k] = NoOperation /\ c = FitsDay(aggregate, t)
    /\ op.state = "RESERVED" /\ op.request.target = t /\ op.counted = c /\ op.booking = None
    /\ operations' = [operations EXCEPT ![k] = op]
    /\ aggregate' = ReserveAggregate(aggregate, Reservation(k, t, c))
    /\ Reservation(k, t, c) \in Reserved \ aggregate.active

Uses(k, b, op) ==
    /\ operations[k].state = "RESERVED"
    /\ op.state = "CONFIRMED" /\ op.request = operations[k].request
    /\ op.counted = operations[k].counted /\ op.booking = b
    /\ operations' = [operations EXCEPT ![k] = op]
    /\ ReservationOf(k) \in aggregate.active
    /\ aggregate' = [aggregate EXCEPT !.rev = @ + 1,
           !.active = (@ \ {ReservationOf(k)}) \cup {[ReservationOf(k) EXCEPT !.state = "CONFIRMED"]}]

GivesBack(k, b, op) ==
    /\ \/ operations[k].state = "RESERVED"
       \/ operations[k].state = "CONFIRMED" /\ operations[k].booking = b
    /\ op.state \in Released /\ op.request = operations[k].request
    /\ op.counted = operations[k].counted /\ op.booking = b
    /\ operations' = [operations EXCEPT ![k] = op]
    /\ ReservationOf(k) \in aggregate.active
    /\ aggregate' = ReleaseAggregate(aggregate, ReservationOf(k))

LEMMA ReserveTakes ==
    ASSUME IInv, NEW h \in Handlers, At(h, "RESERVE"), operations[handler[h].key] = NoOperation,
           aggregate.rev = handler[h].seen.rev, ReserveWrites(h)
    PROVE  \E c \in BOOLEAN, op \in Operation \ {NoOperation} :
               /\ handler[h].key \in Keys /\ handler[h].request.target \in Targets
               /\ handler[h].seen = aggregate
               /\ Takes(handler[h].key, handler[h].request.target, c, op)
<1>1. PICK k : k = handler[h].key
  OBVIOUS
<1>2. PICK t : t = handler[h].request.target
  OBVIOUS
<1>3. PICK c : c = FitsDay(handler[h].seen, t)
  OBVIOUS
<1>4. /\ k \in Keys /\ handler[h].request \in Requests /\ t \in Targets
      /\ handler[h].seen = aggregate /\ aggregate \in Aggregate /\ operations[k] = NoOperation
  BY <1>1, <1>2, TargetsAssumption DEF IInv, TypeOK, Sound, GoalFits, SeenFenced, At
<1>5. c \in BOOLEAN /\ c = FitsDay(aggregate, t)
  <2>1. FitsDay(aggregate, t) \in BOOLEAN
    BY DEF FitsDay
  <2>. QED
    BY <1>3, <1>4, <2>1, Zenon
<1>6. PICK op : op = NewOperation(h, c)
  OBVIOUS
<1>7. op \in Operation /\ op.state = "RESERVED" /\ op.booking = None
      /\ op.request.target = t /\ op.counted = c /\ op # NoOperation
  BY <1>2, <1>4, <1>5, <1>6 DEF NewOperation, Operation, Live, Released, NoOperation
<1>8. /\ aggregate' = ReserveAggregate(aggregate, Reservation(k, t, c))
      /\ operations' = [operations EXCEPT ![k] = op]
  BY <1>1, <1>2, <1>3, <1>4, <1>6, Zenon DEF ReserveWrites
<1>9. Reservation(k, t, c) \in Reserved \ aggregate.active
  <2>1. Reservation(k, t, c) \in Reserved /\ Reservation(k, t, c).key = k
    BY <1>4, <1>5 DEF Reservation, Reserved, Live
  <2>2. ActiveOf(k) = {}
    BY <1>4 DEF ActiveOf, NoOperation, Live
  <2>3. ReservationsOf(aggregate, k) = {}
    BY <1>4, <2>2, OneOperation DEF IInv
  <2>. QED
    BY <2>1, <2>3, Zenon DEF ReservationsOf
<1>. QED
  BY <1>1, <1>2, <1>4, <1>5, <1>7, <1>8, <1>9, Zenon DEF Takes

LEMMA TransitionMoves ==
    ASSUME IInv, NEW h \in Handlers, At(h, "TRANSITION"), OperationHeld(h),
           aggregate.rev = handler[h].seen.rev, TransitionWrites(h)
    PROVE  \E k \in Keys, b \in Bookings \cup {None}, op \in Operation \ {NoOperation} :
               (Uses(k, b, op) /\ b \in Bookings) \/ GivesBack(k, b, op)
<1>1. PICK k : k = handler[h].key
  OBVIOUS
<1>2. /\ k \in Keys /\ handler[h] \in Handler /\ Sound(handler[h])
      /\ handler[h].seen = aggregate /\ aggregate \in Aggregate
      /\ handler[h].held = operations[k] /\ operations[k] \in Operation
      /\ operations[k].state \in Live /\ operations[k] # NoOperation /\ Staged(operations[k])
      /\ ReservationOf(k) \in aggregate.active /\ TheReservation(h) = ReservationOf(k)
  BY <1>1, TransitionStarts
<1>3. PICK b : b = handler[h].booking
  OBVIOUS
<1>4. operations[k] \in [state : Live \cup Released, rev : 1..3, request : Requests,
                         counted : BOOLEAN, booking : Bookings \cup {None},
                         reason : Reasons \cup {"NONE"}]
  BY <1>2, OperationShape
<1>5. CASE handler[h].goal = "CONFIRM"
  <2>1. b \in Bookings /\ b # None /\ operations[k].state = "RESERVED" /\ operations[k].rev = 1
    BY <1>2, <1>3, <1>5, AbsenceAssumption DEF Sound, GoalFits, HeldAllows, At, Staged
  <2>2. PICK op : op = [operations[k] EXCEPT !.state = "CONFIRMED", !.rev = @ + 1, !.booking = b]
    OBVIOUS
  <2>3. /\ aggregate' = Confirmed(h)
        /\ operations' = [operations EXCEPT ![k] = ConfirmedOperation(h)]
    BY <1>1, <1>5, Zenon DEF TransitionWrites
  <2>4. ConfirmedOperation(h) = op
    BY <1>2, <1>3, <2>2, Zenon DEF ConfirmedOperation
  <2>5. Confirmed(h) = [aggregate EXCEPT !.rev = @ + 1,
            !.active = (@ \ {ReservationOf(k)}) \cup {[ReservationOf(k) EXCEPT !.state = "CONFIRMED"]}]
    BY <1>2, Zenon DEF Confirmed
  <2>6. op = [state |-> "CONFIRMED", rev |-> 2, request |-> operations[k].request,
              counted |-> operations[k].counted, booking |-> b, reason |-> operations[k].reason]
    <3>1. op = [state |-> "CONFIRMED", rev |-> operations[k].rev + 1,
                request |-> operations[k].request, counted |-> operations[k].counted,
                booking |-> b, reason |-> operations[k].reason]
      BY <1>4, <2>2, Zenon
    <3>2. operations[k].rev + 1 = 2
      BY <2>1
    <3>. QED
      BY <3>1, <3>2, Zenon
  <2>7. op \in Operation \ {NoOperation}
    BY <1>4, <2>1, <2>6 DEF Operation, Live, NoOperation
  <2>8. Uses(k, b, op)
    <3>1. /\ op.state = "CONFIRMED" /\ op.request = operations[k].request
          /\ op.counted = operations[k].counted /\ op.booking = b
      BY <2>6
    <3>. QED
      BY <1>2, <2>1, <2>3, <2>4, <2>5, <3>1, Zenon DEF Uses
  <2>. QED
    BY <1>2, <2>1, <2>7, <2>8, Zenon
<1>6. CASE handler[h].goal = "RELEASE"
  <2>1. /\ b \in Bookings \cup {None} /\ handler[h].reason \in Reasons
        /\ (b # None) = (handler[h].reason = "BOOKING_CANCELLED")
        /\ operations[k].state = "CONFIRMED" => handler[h].reason = "BOOKING_CANCELLED"
        /\ operations[k].booking # None /\ b # None => operations[k].booking = b
    BY <1>2, <1>3, <1>6 DEF Sound, GoalFits, HeldAllows, Handler, At
  <2>2. \/ operations[k].state = "RESERVED" /\ operations[k].rev = 1 /\ operations[k].booking = None
        \/ /\ operations[k].state = "CONFIRMED" /\ operations[k].rev = 2
           /\ operations[k].booking = b /\ b # None
    BY <1>2, <2>1 DEF Staged, Live
  <2>3. PICK op : op = ReleasedOperation(h)
    OBVIOUS
  <2>4. op = [state |-> IF b = None THEN "FAILED" ELSE "COMPENSATED", rev |-> operations[k].rev + 1,
              request |-> operations[k].request, counted |-> operations[k].counted, booking |-> b,
              reason |-> handler[h].reason]
    <3>1. CASE b = None
      BY <1>2, <1>3, <1>4, <2>2, <2>3, <3>1 DEF ReleasedOperation
    <3>2. CASE b # None
      BY <1>2, <1>3, <1>4, <2>3, <3>2 DEF ReleasedOperation
    <3>. QED
      BY <3>1, <3>2
  <2>5. /\ op.state \in Released /\ op.request = operations[k].request
        /\ op.counted = operations[k].counted /\ op.booking = b /\ op.rev \in 2..3
    BY <2>2, <2>4 DEF Released
  <2>6. op \in Operation \ {NoOperation}
    BY <1>4, <2>1, <2>4, <2>5 DEF Operation, Released, NoOperation
  <2>7. /\ aggregate' = ReleaseAggregate(aggregate, ReservationOf(k))
        /\ operations' = [operations EXCEPT ![k] = op]
    BY <1>1, <1>2, <1>6, <2>3, Zenon DEF TransitionWrites
  <2>8. GivesBack(k, b, op)
    BY <1>2, <2>2, <2>5, <2>7, Zenon DEF GivesBack
  <2>. QED
    BY <1>2, <2>1, <2>6, <2>8, Zenon
<1>. QED
  BY <1>5, <1>6 DEF TransitionWrites

\* Whatever else happens leaves the operations and the aggregate alone.
Untouched == UNCHANGED <<policy, operations, aggregate>>

LEMMA Moves ==
    ASSUME IInv, [Next]_vars
    PROVE  /\ policy' = policy
           /\ \/ Untouched
              \/ \E h \in Handlers : /\ At(h, "RESERVE") /\ operations[handler[h].key] = NoOperation
                                     /\ aggregate.rev = handler[h].seen.rev /\ ReserveWrites(h)
              \/ \E h \in Handlers : /\ At(h, "TRANSITION") /\ OperationHeld(h)
                                     /\ aggregate.rev = handler[h].seen.rev /\ TransitionWrites(h)
<1>1. CASE UNCHANGED vars
  BY <1>1 DEF vars, Untouched
<1>2. CASE ReadBack \/ Tick
  BY <1>2 DEF ReadBack, Tick, Untouched
<1>3. ASSUME NEW h \in Handlers, Begin(h) \/ Step(h) \/ End(h)
      PROVE  /\ policy' = policy
             /\ \/ Untouched
                \/ Reserve(h)
                \/ Transition(h)
  BY <1>3 DEF Begin, BeginFirstUse, BeginDeadline, BeginReserve, BeginConfirm, BeginRelease, Step,
              End, ReadInstance, Activate, Lookup, Quote, Reread, ReadOperation, ReadAggregate,
              Reserve, Transition, Stored, Untouched
<1>4. ASSUME NEW h \in Handlers, Reserve(h)
      PROVE  \/ Untouched
             \/ /\ At(h, "RESERVE") /\ operations[handler[h].key] = NoOperation
                /\ aggregate.rev = handler[h].seen.rev /\ ReserveWrites(h)
  BY <1>4, Zenon DEF Reserve, Untouched
<1>5. ASSUME NEW h \in Handlers, Transition(h)
      PROVE  \/ Untouched
             \/ /\ At(h, "TRANSITION") /\ OperationHeld(h)
                /\ aggregate.rev = handler[h].seen.rev /\ TransitionWrites(h)
  BY <1>5, Zenon DEF Transition, Untouched
<1>6. CASE Next
  BY <1>2, <1>3, <1>4, <1>5, <1>6, Zenon DEF Next
<1>. QED
  BY <1>1, <1>6, Zenon

LEMMA BalancedStep ==
    ASSUME IInv, Balanced(aggregate), [Next]_vars
    PROVE  Balanced(aggregate)'
<1>1. policy' = policy /\ policy.units \in Int /\ aggregate \in Aggregate
  BY Moves, PoliciesAssumption DEF IInv, TypeOK
<1>2. SUFFICES ASSUME NEW a, a = aggregate', Balanced(a) \/ ~Balanced(a) PROVE Balanced(a)
  <2>1. \A a : a = aggregate' => Balanced(a)
    BY <1>2, Zenon
  <2>. QED
    BY <1>1, <2>1 DEF Balanced
<1>3. CASE Untouched
  BY <1>2, <1>3 DEF Untouched
<1>4. CASE \E h \in Handlers : /\ At(h, "RESERVE") /\ operations[handler[h].key] = NoOperation
                              /\ aggregate.rev = handler[h].seen.rev /\ ReserveWrites(h)
  <2>1. PICK k \in Keys, t \in Targets, c \in BOOLEAN, op \in Operation : Takes(k, t, c, op)
    BY <1>4, ReserveTakes, Zenon
  <2>2. aggregate' = ReserveAggregate(aggregate, Reservation(k, t, c))
        /\ Reservation(k, t, c) \in Reserved \ aggregate.active
    BY <2>1, Zenon DEF Takes
  <2>. QED
    BY <1>1, <1>2, <2>2, ReserveBalanced, Zenon
<1>5. CASE \E h \in Handlers : /\ At(h, "TRANSITION") /\ OperationHeld(h)
                              /\ aggregate.rev = handler[h].seen.rev /\ TransitionWrites(h)
  <2>1. PICK k \in Keys, b \in Bookings \cup {None}, op \in Operation : Uses(k, b, op) \/ GivesBack(k, b, op)
    BY <1>5, TransitionMoves, Zenon
  <2>2. PICK r : r = ReservationOf(k)
    OBVIOUS
  <2>3. r \in aggregate.active /\ r \in Reserved /\ r.key = k
    <3>1. r \in aggregate.active
      BY <2>1, <2>2, Zenon DEF Uses, GivesBack
    <3>. QED
      BY <1>1, <2>2, <3>1 DEF Aggregate, ReservationOf
  <2>4. CASE GivesBack(k, b, op)
    BY <1>1, <1>2, <2>2, <2>3, <2>4, ReleaseBalanced, Zenon DEF GivesBack
  <2>5. CASE Uses(k, b, op)
    <3>1. PICK q : q = [r EXCEPT !.state = "CONFIRMED"]
      OBVIOUS
    <3>2. q \in Reserved /\ q.target = r.target /\ q.counted = r.counted /\ q.key = k
      BY <2>3, <3>1 DEF Reserved, Live
    <3>3. q \notin aggregate.active \ {r}
      <4>1. operations[k].state \in Live
        BY <2>5 DEF Uses, Live
      <4>2. ReservationsOf(aggregate, k) = {r}
        BY <2>2, <4>1, OneOperation DEF ActiveOf, IInv
      <4>. QED
        BY <3>2, <4>2, Zenon DEF ReservationsOf
    <3>4. a = [aggregate EXCEPT !.rev = @ + 1, !.active = (@ \ {r}) \cup {q}]
      BY <1>2, <2>2, <2>5, <3>1, Zenon DEF Uses
    <3>5. PICK set : set = (aggregate.active \ {r}) \cup {q}
      OBVIOUS
    <3>6. set \in SUBSET Reserved /\ aggregate.rev + 1 \in Nat
      BY <1>1, <3>2, <3>5 DEF Aggregate
    <3>7. a = [rev |-> aggregate.rev + 1, active |-> set, daily |-> aggregate.daily,
               period |-> aggregate.period, remaining |-> aggregate.remaining]
      BY <1>1, <3>4, <3>5, Zenon DEF Aggregate
    <3>8. a \in Aggregate /\ a.active = set /\ a.daily = aggregate.daily
          /\ a.period = aggregate.period /\ a.remaining = aggregate.remaining
      BY <1>1, <3>6, <3>7 DEF Aggregate
    <3>. QED
      BY <1>1, <2>3, <3>2, <3>3, <3>5, <3>8, ExchangeBalanced
  <2>. QED
    BY <2>1, <2>4, <2>5
<1>. QED
  BY <1>3, <1>4, <1>5, Moves

LEMMA InitBalanced == Init => Balanced(aggregate)
<1>. SUFFICES ASSUME Init PROVE Balanced(aggregate)
  OBVIOUS
<1>1. /\ aggregate.active = {} /\ aggregate.period = 0 /\ aggregate.remaining = policy.units
      /\ \A d \in Days : aggregate.daily[d] = 0
  BY DEF Init, UnusedUnder, Days
<1>2. Total({}) = 0 /\ IsFiniteSet({})
  BY TotalIsSum, WorthShape, SumSteps, FS_EmptySet
<1>3. \A d : OnDay({}, d) = {}
  BY DEF OnDay
<1>4. policy.units \in Int
  BY PoliciesAssumption DEF Init
<1>. QED
  BY <1>1, <1>2, <1>3, <1>4 DEF Balanced

LEMMA InductiveBalance == Spec => [](IInv /\ Balanced(aggregate))
<1>1. Init => IInv /\ Balanced(aggregate)
  BY InitHolds, InitBalanced
<1>2. IInv /\ Balanced(aggregate) /\ [Next]_vars => (IInv /\ Balanced(aggregate))'
  BY NextKeeps, BalancedStep
<1>. QED
  BY <1>1, <1>2, PTL DEF Spec

-----------------------------------------------------------------------------
(* The limits, as the quote compared them.                                 *)

Affordable(a, t) ==
    /\ Cardinality(a.active) < policy.active
    /\ FitsDay(a, t) \/ policy.discount
    /\ a.period + UnitsOf[t] =< policy.period
    /\ a.remaining >= UnitsOf[t]
Tells(x) == x.pc \in {"REREAD", "RESERVE"} => Affordable(x.seen, x.request.target)
Quoted == \A h \in Handlers : Tells(handler[h])

LEMMA QuotedMoves ==
    ASSUME IInv, Quoted, policy' = policy, NEW h \in Handlers, NEW x, Becomes(h, x), Tells(x)
    PROVE  Quoted'
<1>1. \A g \in Handlers : handler'[g] = handler[g] \/ handler'[g] = x
  BY DEF IInv, TypeOK, Becomes
<1>2. \A g \in Handlers : Tells(handler'[g])
  BY <1>1, Zenon DEF Quoted
<1>. QED
  BY <1>2 DEF Quoted, Tells, Affordable, FitsDay

LEMMA QuotedStep ==
    ASSUME IInv, Quoted, [Next]_vars
    PROVE  Quoted'
<1>1. policy' = policy
  BY Moves
<1>2. CASE UNCHANGED handler
  BY <1>1, <1>2 DEF Quoted, Tells, Affordable, FitsDay
<1>3. ASSUME NEW h \in Handlers, Begin(h)
      PROVE  \E x : Becomes(h, x) /\ Tells(x)
  <2>0. \A x : x.pc \in {"INSTANCE", "LOOKUP", "OPERATION"} => Tells(x)
    BY DEF Tells
  <2>1. CASE BeginFirstUse(h)
    <3>1. PICK x : x = [Idle EXCEPT
          !.pc = "INSTANCE", !.goal = "FIRST_USE", !.expected = instance.rev]
      OBVIOUS
    <3>2. x.pc \in {"INSTANCE", "LOOKUP", "OPERATION"}
      BY <3>1 DEF Idle
    <3>3. Becomes(h, x)
      BY <2>1, <3>1 DEF BeginFirstUse
    <3>. QED
      BY <2>0, <3>2, <3>3
  <2>2. CASE BeginDeadline(h)
    <3>1. PICK x : x = [Idle EXCEPT !.pc = "INSTANCE", !.goal = "FIXED_DEADLINE"]
      OBVIOUS
    <3>2. x.pc \in {"INSTANCE", "LOOKUP", "OPERATION"}
      BY <3>1 DEF Idle
    <3>3. Becomes(h, x)
      BY <2>2, <3>1 DEF BeginDeadline
    <3>. QED
      BY <2>0, <3>2, <3>3
  <2>3. ASSUME NEW k, NEW request, BeginReserve(h, k, request) PROVE \E x : Becomes(h, x) /\ Tells(x)
    <3>1. PICK x : x = [Idle EXCEPT
          !.pc = "LOOKUP", !.goal = "RESERVE", !.key = k, !.request = request]
      OBVIOUS
    <3>2. x.pc \in {"INSTANCE", "LOOKUP", "OPERATION"}
      BY <3>1 DEF Idle
    <3>3. Becomes(h, x)
      BY <2>3, <3>1 DEF BeginReserve
    <3>. QED
      BY <2>0, <3>2, <3>3
  <2>4. ASSUME NEW k, NEW b, BeginConfirm(h, k, b) PROVE \E x : Becomes(h, x) /\ Tells(x)
    <3>1. PICK x : x = [Idle EXCEPT
          !.pc = "OPERATION", !.goal = "CONFIRM", !.key = k, !.booking = b]
      OBVIOUS
    <3>2. x.pc \in {"INSTANCE", "LOOKUP", "OPERATION"}
      BY <3>1 DEF Idle
    <3>3. Becomes(h, x)
      BY <2>4, <3>1 DEF BeginConfirm
    <3>. QED
      BY <2>0, <3>2, <3>3
  <2>5. ASSUME NEW k, NEW reason, NEW b, BeginRelease(h, k, reason, b)
        PROVE  \E x : Becomes(h, x) /\ Tells(x)
    <3>1. PICK x : x = [Idle EXCEPT
          !.pc = "OPERATION", !.goal = "RELEASE", !.key = k, !.reason = reason,
          !.booking = b]
      OBVIOUS
    <3>2. x.pc \in {"INSTANCE", "LOOKUP", "OPERATION"}
      BY <3>1 DEF Idle
    <3>3. Becomes(h, x)
      BY <2>5, <3>1 DEF BeginRelease
    <3>. QED
      BY <2>0, <3>2, <3>3
  <2>. QED
    BY <1>3, <2>1, <2>2, <2>3, <2>4, <2>5, Zenon DEF Begin
<1>4. ASSUME NEW h \in Handlers, Refuse(h) \/ Answer(h)
      PROVE  \E x : Becomes(h, x) /\ Tells(x)
  BY <1>4 DEF Refuse, Answer, Idle, Tells
<1>5. ASSUME NEW h \in Handlers, NEW pc \in {"LOOKUP", "QUOTE", "OPERATION"}, Goto(h, pc) \/ Again(h, pc)
      PROVE  \E x : Becomes(h, x) /\ Tells(x)
  <2>1. handler[h] \in Handler
    BY DEF IInv, TypeOK
  <2>2. CASE Goto(h, pc)
    <3>1. PICK x : x = [handler[h] EXCEPT !.pc = pc]
      OBVIOUS
    <3>2. x.pc = pc
      BY <2>1, <3>1 DEF Handler
    <3>. QED
      BY <2>2, <3>1, <3>2 DEF Goto, Tells
  <2>3. CASE Again(h, pc)
    <3>1. PICK x : x = [handler[h] EXCEPT !.pc = pc, !.seen = NotRead, !.held = NoOperation]
      OBVIOUS
    <3>2. x.pc = pc
      BY <2>1, <3>1, Zenon DEF Handler
    <3>. QED
      BY <2>3, <3>1, <3>2 DEF Again, Tells
  <2>. QED
    BY <1>5, <2>2, <2>3
<1>6. ASSUME NEW h \in Handlers, Step(h)
      PROVE  \E x : Becomes(h, x) /\ Tells(x)
  <2>0. handler[h] \in Handler
    BY DEF IInv, TypeOK
  <2>1. CASE ReadInstance(h)
    <3>1. CASE ~Refuse(h)
      <4>1. PICK n, m : Becomes(h, [handler[h] EXCEPT !.pc = "ACTIVATE", !.expected = n, !.from = m])
        BY <2>1, <3>1, Zenon DEF ReadInstance
      <4>2. PICK x : x = [handler[h] EXCEPT !.pc = "ACTIVATE", !.expected = n, !.from = m]
        OBVIOUS
      <4>3. x.pc = "ACTIVATE"
        BY <2>0, <4>2, Zenon DEF Handler
      <4>. QED
        BY <4>1, <4>2, <4>3 DEF Tells
    <3>. QED
      BY <1>4, <3>1
  <2>2. CASE Activate(h)
    BY <1>4, <2>2 DEF Activate
  <2>3. CASE Lookup(h)
    BY <1>4, <1>5, <2>3 DEF Lookup
  <2>4. CASE Quote(h)
    <3>1. CASE ~Refuse(h)
      <4>1. /\ Eligible(aggregate, handler[h].request.target)
            /\ Becomes(h, SeenAt(handler[h], "REREAD", aggregate))
        BY <2>4, <3>1, Zenon DEF Quote, SeenAt
      <4>2. PICK x : x = SeenAt(handler[h], "REREAD", aggregate)
        OBVIOUS
      <4>3. x.seen = aggregate /\ x.request = handler[h].request
        <5>1. aggregate \in Aggregate /\ "REREAD" \in Labels
          BY DEF IInv, TypeOK, Labels
        <5>. QED
          BY <2>0, <4>2, <5>1, WithSeen DEF SameGoal
      <4>4. Affordable(x.seen, x.request.target)
        BY <4>1, <4>3, Zenon DEF Eligible, Affordable
      <4>. QED
        BY <4>1, <4>2, <4>4, Zenon DEF Tells
    <3>. QED
      BY <1>4, <3>1
  <2>5. CASE Reread(h)
    <3>1. CASE Goto(h, "RESERVE")
      <4>1. PICK x : x = [handler[h] EXCEPT !.pc = "RESERVE"]
        OBVIOUS
      <4>2. x.seen = handler[h].seen /\ x.request = handler[h].request
        <5>1. "RESERVE" \in Labels
          BY DEF Labels
        <5>. QED
          BY <2>0, <4>1, <5>1, WithPc DEF SameGoal
      <4>3. Affordable(x.seen, x.request.target)
        <5>1. handler[h].pc \in {"REREAD", "RESERVE"} /\ Tells(handler[h])
          BY <2>5 DEF Reread, At, Quoted
        <5>. QED
          BY <4>2, <5>1, Zenon DEF Tells
      <4>. QED
        BY <3>1, <4>1, <4>3, Zenon DEF Goto, Tells
    <3>2. CASE ReserveAgain(h)
      BY <1>5, <3>2 DEF ReserveAgain
    <3>. QED
      BY <2>5, <3>1, <3>2 DEF Reread
  <2>6. CASE Reserve(h)
    <3>1. Answer(h) \/ Refuse(h) \/ ReserveAgain(h)
      BY <2>6, Zenon DEF Reserve, ReserveWrites
    <3>. QED
      BY <1>4, <1>5, <3>1 DEF ReserveAgain
  <2>7. CASE ReadOperation(h)
    <3>1. CASE ~Refuse(h) /\ ~Answer(h)
      <4>1. PICK o : Becomes(h, [handler[h] EXCEPT !.pc = "AGGREGATE", !.held = o])
        BY <2>7, <3>1, Zenon DEF ReadOperation
      <4>2. PICK x : x = [handler[h] EXCEPT !.pc = "AGGREGATE", !.held = o]
        OBVIOUS
      <4>3. x.pc = "AGGREGATE"
        BY <2>0, <4>2, Zenon DEF Handler
      <4>. QED
        BY <4>1, <4>2, <4>3 DEF Tells
    <3>. QED
      BY <1>4, <3>1
  <2>8. CASE ReadAggregate(h)
    <3>1. CASE ~Refuse(h)
      <4>1. Becomes(h, [handler[h] EXCEPT !.pc = "TRANSITION", !.seen = aggregate])
        BY <2>8, <3>1, Zenon DEF ReadAggregate
      <4>2. PICK x : x = [handler[h] EXCEPT !.pc = "TRANSITION", !.seen = aggregate]
        OBVIOUS
      <4>3. x.pc = "TRANSITION"
        BY <2>0, <4>2, Zenon DEF Handler
      <4>. QED
        BY <4>1, <4>2, <4>3 DEF Tells
    <3>. QED
      BY <1>4, <3>1
  <2>9. CASE Transition(h)
    <3>1. Answer(h) \/ Again(h, "OPERATION")
      BY <2>9, Zenon DEF Transition, TransitionWrites
    <3>. QED
      BY <1>4, <1>5, <3>1
  <2>. QED
    BY <1>6, <2>1, <2>2, <2>3, <2>4, <2>5, <2>6, <2>7, <2>8, <2>9 DEF Step
<1>7. ASSUME NEW h \in Handlers, NEW x, Becomes(h, x), Tells(x) PROVE Quoted'
  BY <1>1, <1>7, QuotedMoves
<1>8. CASE \E h \in Handlers : Begin(h) \/ Step(h) \/ End(h)
  <2>1. PICK h \in Handlers : Begin(h) \/ Step(h) \/ Refuse(h)
    BY <1>8, Zenon DEF End
  <2>2. \E x : Becomes(h, x) /\ Tells(x)
    BY <1>3, <1>4, <1>6, <2>1
  <2>. QED
    BY <1>7, <2>2, Zenon
<1>. QED
  BY <1>2, <1>8 DEF Next, ReadBack, Tick, vars

-----------------------------------------------------------------------------
(* The promise to the holder.  A service is what its operation says of it. *)

ServiceOf(op) ==
    [stage |-> Stage(op), counted |-> op.counted, booking |-> op.booking,
     target |-> IF op = NoOperation THEN None ELSE op.request.target]
LiveKeys == {k \in Keys : operations[k].state \in Live}
Bound == [k \in LiveKeys |-> UnitsOf[operations[k].request.target]]
Named == [k \in LiveKeys |-> ReservationOf(k)]

LEMMA ServiceFields ==
    /\ Service = [k \in Keys |-> ServiceOf(operations[k])]
    /\ \A op : /\ ServiceOf(op).stage = Stage(op) /\ ServiceOf(op).counted = op.counted
               /\ ServiceOf(op).booking = op.booking
               /\ op # NoOperation => ServiceOf(op).target = op.request.target
<1>1. Service = [k \in Keys |-> ServiceOf(operations[k])]
  BY Zenon DEF Service, ServiceOf
<1>. QED
  BY <1>1 DEF ServiceOf

LEMMA Stages ==
    \A op : /\ op.state = "RESERVED" => Stage(op) = "HELD"
            /\ op.state = "CONFIRMED" => Stage(op) = "USED"
            /\ op.state \in Released => Stage(op) = "RETURNED"
            /\ op.state \notin Live \cup Released => Stage(op) = "NONE"
BY DEF Stage, Live, Released

LEMMA TakenIsLive == IInv => Quota!Taken = LiveKeys
<1>. SUFFICES ASSUME IInv PROVE Quota!Taken = LiveKeys
  OBVIOUS
<1>1. ASSUME NEW k \in Keys
      PROVE  Service[k].stage \in {"HELD", "USED"} <=> operations[k].state \in Live
  <2>1. Service[k].stage = Stage(operations[k])
    BY ServiceFields
  <2>2. operations[k].state \in Live \cup Released \cup {"ABSENT"}
    BY OperationShape DEF IInv, TypeOK
  <2>. QED
    BY <2>1, <2>2, Stages DEF Live, Released
<1>. QED
  BY <1>1, Zenon DEF Quota!Taken, LiveKeys

\* A live operation and its reservation stand for one another.
LEMMA LiveShape ==
    ASSUME IInv, IsFiniteSet(aggregate.active)
    PROVE  /\ Named \in [LiveKeys -> Reserved] /\ Bound \in [LiveKeys -> Int]
           /\ \A k, j \in LiveKeys : Named[k] = Named[j] => k = j
           /\ \A k \in LiveKeys : /\ Worth[Named[k]] = Bound[k]
                                  /\ Bound[k] = UnitsOf[Service[k].target]
           /\ aggregate.active = {Named[k] : k \in LiveKeys}
           /\ IsFiniteSet(LiveKeys) /\ Cardinality(LiveKeys) = Cardinality(aggregate.active)
<1>1. ASSUME NEW k \in LiveKeys
      PROVE  /\ ReservationOf(k) \in Reserved /\ ReservationOf(k).key = k
             /\ ReservationOf(k).target = operations[k].request.target
             /\ operations[k].request.target \in Targets
             /\ Service[k].target = operations[k].request.target
  <2>1. k \in Keys /\ operations[k] \in Operation /\ operations[k].state \in Live
    BY DEF LiveKeys, IInv, TypeOK
  <2>2. operations[k] # NoOperation
    BY <2>1, AbsentOperation
  <2>3. ReservationOf(k) \in Reserved
    BY <2>1, <2>2, OperationShape DEF ReservationOf, Reserved
  <2>4. Service[k].target = operations[k].request.target
    BY <2>1, <2>2, ServiceFields
  <2>. QED
    BY <2>1, <2>2, <2>3, <2>4, OperationShape DEF ReservationOf
<1>2. Named \in [LiveKeys -> Reserved] /\ \A k \in LiveKeys : Named[k].key = k
  BY <1>1 DEF Named
<1>3. \A k \in LiveKeys : /\ Bound[k] = UnitsOf[operations[k].request.target] /\ Bound[k] \in Int
                          /\ Worth[Named[k]] = Bound[k] /\ Bound[k] = UnitsOf[Service[k].target]
  <2>1. TAKE k \in LiveKeys
  <2>2. Bound[k] = UnitsOf[operations[k].request.target]
    BY DEF Bound
  <2>3. Named[k] = ReservationOf(k)
    BY DEF Named
  <2>4. UnitsOf[operations[k].request.target] \in Int
    BY <1>1, TargetsAssumption
  <2>. QED
    BY <1>1, <2>2, <2>3, <2>4, WorthShape, Zenon
<1>4. Bound \in [LiveKeys -> Int]
  BY <1>3 DEF Bound
<1>5. aggregate.active = {Named[k] : k \in LiveKeys}
  <2>1. aggregate.active = {ReservationOf(k) : k \in LiveKeys}
    BY Zenon DEF IInv, ReservationsMatch, LiveKeys
  <2>2. \A k \in LiveKeys : Named[k] = ReservationOf(k)
    BY DEF Named
  <2>. QED
    BY <2>1, <2>2, Zenon
<1>6. Named \in Bijection(LiveKeys, aggregate.active)
  <2>1. \A k, j \in LiveKeys : Named[k] = Named[j] => k = j
    BY <1>2, Zenon
  <2>2. Named \in [LiveKeys -> aggregate.active]
    BY <1>2, <1>5
  <2>3. \A r \in aggregate.active : \E k \in LiveKeys : Named[k] = r
    BY <1>5, Zenon
  <2>. HIDE DEF Named
  <2>. QED
    BY <2>1, <2>2, <2>3 DEF Bijection, Injection, Surjection, IsInjective
<1>7. IsFiniteSet(LiveKeys)
  BY <1>6, FS_Injection DEF Bijection
<1>8. Cardinality(LiveKeys) = Cardinality(aggregate.active)
  BY <1>6, <1>7, FS_Bijection, Zenon DEF ExistsBijection
<1>. QED
  BY <1>2, <1>3, <1>4, <1>5, <1>7, <1>8, Zenon

\* What the promise counts with is what the aggregate's totals count with.
LEMMA SameUnits ==
    ASSUME IInv, IsFiniteSet(aggregate.active), NEW set \in SUBSET LiveKeys
    PROVE  Quota!Units(set) = Total({Named[k] : k \in set})
<1>1. /\ Named \in [LiveKeys -> Reserved] /\ Bound \in [LiveKeys -> Int]
      /\ \A k, j \in LiveKeys : Named[k] = Named[j] => k = j
      /\ \A k \in LiveKeys : Worth[Named[k]] = Bound[k] /\ Bound[k] = UnitsOf[Service[k].target]
      /\ aggregate.active = {Named[k] : k \in LiveKeys} /\ IsFiniteSet(LiveKeys)
  BY LiveShape
<1>2. IsFiniteSet(set)
  BY <1>1, FS_Subset
<1>3. PICK g \in [SUBSET set -> Int] : Unfolds(Bound, g, set)
  BY <1>1, <1>2, SomeUnfolds, Zenon
<1>4. ASSUME NEW h PROVE Unfolds(Bound, h, set) <=>
          h = [s \in SUBSET set |->
                 IF s = {} THEN 0 ELSE UnitsOf[Service[Pick(s)].target] + h[s \ {Pick(s)}]]
  <2>1. \A s \in SUBSET set : s # {} => Bound[Pick(s)] = UnitsOf[Service[Pick(s)].target]
    <3>1. \A s \in SUBSET set : s # {} => Pick(s) \in LiveKeys
      BY Zenon DEF Pick
    <3>. QED
      BY <1>1, <3>1, Zenon
  <2>2. \A s \in SUBSET set :
            (IF s = {} THEN 0 ELSE Bound[Pick(s)] + h[s \ {Pick(s)}]) =
            (IF s = {} THEN 0 ELSE UnitsOf[Service[Pick(s)].target] + h[s \ {Pick(s)}])
    BY <2>1, Zenon
  <2>3. [s \in SUBSET set |-> IF s = {} THEN 0 ELSE Bound[Pick(s)] + h[s \ {Pick(s)}]] =
        [s \in SUBSET set |->
            IF s = {} THEN 0 ELSE UnitsOf[Service[Pick(s)].target] + h[s \ {Pick(s)}]]
    BY <2>2
  <2>. QED
    BY <2>3, Zenon DEF Unfolds
<1>5. \A h : Unfolds(Bound, h, set) => h = g
  BY <1>2, <1>3, UnfoldsOnce, Zenon
<1>6. Quota!Units(set) = g[set]
  BY <1>3, <1>4, <1>5, Zenon DEF Quota!Units, Quota!MapThenSumSet, Quota!MapThenFoldSet, Pick
<1>7. Sum(Bound, set) = g[set]
  BY <1>2, <1>3, SumUnfolds, Zenon
<1>8. Sum(Worth, {Named[k] : k \in set}) = Sum(Bound, set)
  <2>1. \A k \in LiveKeys : Worth[Named[k]] = Bound[k]
    BY <1>1, Zenon
  <2>2. Worth \in [Reserved -> Int]
    BY WorthShape, Zenon
  <2>. QED
    BY <1>1, <1>2, <2>1, <2>2, SumRenamed
<1>9. Total({Named[k] : k \in set}) = Sum(Worth, {Named[k] : k \in set})
  <2>1. {Named[k] : k \in set} \in SUBSET aggregate.active
    BY <1>1
  <2>2. IsFiniteSet({Named[k] : k \in set}) /\ {Named[k] : k \in set} \in SUBSET Reserved
    <3>1. aggregate.active \subseteq Reserved
      BY DEF IInv, TypeOK, Aggregate
    <3>. QED
      BY <2>1, <3>1, FS_Subset, Zenon
  <2>. QED
    BY <2>2, TotalIsSum, Zenon
<1>. QED
  BY <1>6, <1>7, <1>8, <1>9

LEMMA PromisedTotals ==
    ASSUME IInv, Balanced(aggregate)
    PROVE  /\ Quota!Units(Quota!Taken) = aggregate.period
           /\ Quota!Units(Quota!Taken) = policy.units - aggregate.remaining
           /\ \A d \in Days : Quota!Units(Quota!OnDay(d)) = aggregate.daily[d]
           /\ Quota!Cardinality(Quota!Taken) = Cardinality(aggregate.active)
<1>1. Quota!Taken = LiveKeys
  BY TakenIsLive
<1>2. IsFiniteSet(aggregate.active)
  BY DEF Balanced
<1>3. /\ aggregate.active = {Named[k] : k \in LiveKeys}
      /\ Cardinality(LiveKeys) = Cardinality(aggregate.active)
  BY <1>2, LiveShape
<1>4. Quota!Cardinality(Quota!Taken) = Cardinality(aggregate.active)
  BY <1>1, <1>3 DEF Quota!Cardinality, Cardinality
<1>5. Quota!Units(Quota!Taken) = Total(aggregate.active)
  BY <1>1, <1>2, <1>3, SameUnits, Zenon
<1>6. aggregate.period = Total(aggregate.active) /\ aggregate.period \in Int
      /\ aggregate.remaining = policy.units - Total(aggregate.active) /\ policy.units \in Int
  BY PoliciesAssumption DEF Balanced, IInv, TypeOK, Aggregate
<1>7. ASSUME NEW d \in Days PROVE Quota!Units(Quota!OnDay(d)) = aggregate.daily[d]
  <2>1. Quota!OnDay(d) \in SUBSET LiveKeys
    BY <1>1, Zenon DEF Quota!OnDay
  <2>2. {Named[k] : k \in Quota!OnDay(d)} = OnDay(aggregate.active, d)
    <3>1. ASSUME NEW k \in LiveKeys
          PROVE  k \in Quota!OnDay(d) <=> Named[k].counted /\ DayOf[Named[k].target] = d
      <4>1. Named[k] = ReservationOf(k) /\ k \in Keys /\ operations[k].state \in Live
            /\ operations[k] \in Operation
        BY DEF Named, LiveKeys, IInv, TypeOK
      <4>2. operations[k] # NoOperation
        BY <4>1, AbsentOperation
      <4>3. Named[k].counted = operations[k].counted
            /\ Named[k].target = operations[k].request.target
        BY <4>1 DEF ReservationOf
      <4>4. Service[k].counted = operations[k].counted
            /\ Service[k].target = operations[k].request.target
        BY <4>1, <4>2, ServiceFields
      <4>. QED
        BY <1>1, <4>3, <4>4, Zenon DEF Quota!OnDay
    <3>. QED
      BY <1>3, <2>1, <3>1, Zenon DEF OnDay
  <2>3. Quota!Units(Quota!OnDay(d)) = Total(OnDay(aggregate.active, d))
    BY <1>2, <2>1, <2>2, SameUnits, Zenon
  <2>. QED
    BY <2>3 DEF Balanced
<1>. QED
  BY <1>4, <1>5, <1>6, <1>7

LEMMA ServiceMoves ==
    ASSUME IInv, NEW k \in Keys, NEW op, operations' = [operations EXCEPT ![k] = op]
    PROVE  Service' = [Service EXCEPT ![k] = ServiceOf(op)]
<1>1. operations' \in [Keys -> Operation \cup {op}] /\ operations'[k] = op
      /\ \A j \in Keys \ {k} : operations'[j] = operations[j]
  BY DEF IInv, TypeOK
<1>2. Service' = [j \in Keys |-> ServiceOf(operations'[j])]
  BY Zenon DEF Service, ServiceOf, Stage
<1>3. Service = [j \in Keys |-> ServiceOf(operations[j])]
  BY ServiceFields
<1>. QED
  BY <1>1, <1>2, <1>3

LEMMA TakeIsTaken ==
    ASSUME IInv, Balanced(aggregate), NEW k \in Keys, NEW t \in Targets, NEW c \in BOOLEAN,
           NEW op \in Operation \ {NoOperation}, Takes(k, t, c, op),
           Affordable(aggregate, t), policy' = policy
    PROVE  Quota!Next
<1>1. /\ operations[k] = NoOperation /\ c = FitsDay(aggregate, t)
      /\ op.state = "RESERVED" /\ op.request.target = t /\ op.counted = c /\ op.booking = None
      /\ operations' = [operations EXCEPT ![k] = op]
  BY Zenon DEF Takes
<1>2. Service[k] = Quota!Nothing
  <2>1. Service[k] = ServiceOf(NoOperation)
    BY <1>1, ServiceFields
  <2>. QED
    BY <2>1 DEF ServiceOf, Stage, NoOperation, Released, Quota!Nothing
<1>3. ServiceOf(op) = [stage |-> "HELD", target |-> t, counted |-> c, booking |-> None]
  <2>1. Stage(op) = "HELD" /\ op # NoOperation
    BY <1>1, Stages
  <2>. QED
    BY <1>1, <2>1 DEF ServiceOf
<1>4. Service' = [Service EXCEPT ![k] = [stage |-> "HELD", target |-> t, counted |-> c, booking |-> None]]
  BY <1>1, <1>3, ServiceMoves
<1>5. DayOf[t] \in Days /\ UnitsOf[t] \in Int
  BY TargetsAssumption DEF Days
<1>6. /\ Quota!Units(Quota!Taken) = aggregate.period
      /\ Quota!Units(Quota!Taken) = policy.units - aggregate.remaining
      /\ Quota!Units(Quota!OnDay(DayOf[t])) = aggregate.daily[DayOf[t]]
      /\ Quota!Cardinality(Quota!Taken) = Cardinality(aggregate.active)
  BY <1>5, PromisedTotals
<1>7. /\ aggregate.period \in Int /\ aggregate.remaining \in Int /\ policy.units \in Int
  BY PoliciesAssumption DEF IInv, TypeOK, Aggregate
<1>8. (Quota!Units(Quota!OnDay(DayOf[t])) + UnitsOf[t] =< policy.daily) = c
  BY <1>1, <1>6, Zenon DEF FitsDay
<1>9. c \/ policy.discount
  BY <1>1, Zenon DEF Affordable
<1>10. /\ Quota!Cardinality(Quota!Taken) < policy.active
       /\ Quota!Units(Quota!Taken) + UnitsOf[t] =< policy.period
  BY <1>6, Zenon DEF Affordable
<1>11. Quota!Units(Quota!Taken) + UnitsOf[t] =< policy.units
  <2>1. aggregate.remaining >= UnitsOf[t]
    BY Zenon DEF Affordable
  <2>. QED
    BY <1>5, <1>6, <1>7, <2>1
<1>12. Quota!Take(k, t)
  BY <1>2, <1>4, <1>8, <1>9, <1>10, <1>11, Zenon DEF Quota!Take
<1>13. Service' # Service
  <2>1. Service'[k].stage = "HELD" /\ Service[k].stage = "NONE"
    BY <1>2, <1>4, ServiceFields DEF Quota!Nothing
  <2>. QED
    BY <2>1
<1>. QED
  BY <1>12, <1>13, Zenon DEF Quota!Next

\* An operation that keeps its request and its count changes the stage and the booking.
LEMMA Restaged ==
    ASSUME NEW old, NEW op, old # NoOperation, op # NoOperation,
           op.request = old.request, op.counted = old.counted
    PROVE  ServiceOf(op) = [ServiceOf(old) EXCEPT !.stage = Stage(op), !.booking = op.booking]
<1>1. ServiceOf(op) = [stage |-> Stage(op), counted |-> old.counted, booking |-> op.booking,
                       target |-> old.request.target]
  BY Zenon DEF ServiceOf
<1>2. PICK r, was, is : r = ServiceOf(old) /\ was = Stage(old) /\ is = Stage(op)
  OBVIOUS
<1>3. PICK counted, held, booking, target :
          /\ counted = old.counted /\ held = old.booking
          /\ booking = op.booking /\ target = old.request.target
  OBVIOUS
<1>4. r = [stage |-> was, counted |-> counted, booking |-> held, target |-> target]
  BY <1>2, <1>3, Zenon DEF ServiceOf
<1>5. [stage |-> is, counted |-> counted, booking |-> booking, target |-> target] =
      [r EXCEPT !.stage = is, !.booking = booking]
  <2>1. [r EXCEPT !.stage = is, !.booking = booking] =
        [[r EXCEPT !.stage = is] EXCEPT !.booking = booking]
    BY <1>4
  <2>2. PICK m : m = [r EXCEPT !.stage = is]
    OBVIOUS
  <2>3. m = [stage |-> is, counted |-> counted, booking |-> held, target |-> target]
    BY <1>4, <2>2
  <2>4. [m EXCEPT !.booking = booking] =
        [stage |-> is, counted |-> counted, booking |-> booking, target |-> target]
    BY <2>3
  <2>. QED
    BY <2>1, <2>2, <2>4
<1>6. ServiceOf(op) = [r EXCEPT !.stage = is, !.booking = booking]
  BY <1>1, <1>2, <1>3, <1>5, Zenon
<1>. QED
  BY <1>2, <1>3, <1>6, Zenon

LEMMA UseIsUse ==
    ASSUME IInv, NEW k \in Keys, NEW b \in Bookings, NEW op \in Operation \ {NoOperation},
           Uses(k, b, op), policy' = policy
    PROVE  Quota!Next
<1>1. /\ operations[k].state = "RESERVED"
      /\ op.state = "CONFIRMED" /\ op.request = operations[k].request
      /\ op.counted = operations[k].counted /\ op.booking = b
      /\ operations' = [operations EXCEPT ![k] = op]
  BY Zenon DEF Uses
<1>2. operations[k] # NoOperation
  BY <1>1 DEF NoOperation
<1>3. Service' = [Service EXCEPT ![k] = ServiceOf(op)] /\ Service[k] = ServiceOf(operations[k])
  BY <1>1, ServiceMoves, ServiceFields
<1>4. Stage(op) = "USED" /\ Stage(operations[k]) = "HELD"
  BY <1>1, Stages
<1>5. ServiceOf(op) = [Service[k] EXCEPT !.stage = "USED", !.booking = b]
  <2>1. ServiceOf(op) = [ServiceOf(operations[k]) EXCEPT !.stage = Stage(op), !.booking = op.booking]
    BY <1>1, <1>2, Restaged
  <2>. QED
    BY <1>1, <1>3, <1>4, <2>1, Zenon
<1>6. Service[k].stage = "HELD"
  BY <1>3, <1>4, ServiceFields
<1>7. Service \in [Keys -> Range(Service)] /\ Service'[k].stage = "USED"
  BY <1>3, <1>4, ServiceFields DEF Range
<1>8. Service' = [Service EXCEPT ![k].stage = "USED", ![k].booking = b]
  BY <1>3, <1>5, <1>7
<1>9. Quota!Use(k, b) /\ Service' # Service
  BY <1>6, <1>7, <1>8 DEF Quota!Use
<1>. QED
  BY <1>9, Zenon DEF Quota!Next

LEMMA GivenBackIsGiven ==
    ASSUME IInv, NEW k \in Keys, NEW b \in Bookings \cup {None}, NEW op \in Operation \ {NoOperation},
           GivesBack(k, b, op), policy' = policy
    PROVE  Quota!Next
<1>1. /\ \/ operations[k].state = "RESERVED"
         \/ operations[k].state = "CONFIRMED" /\ operations[k].booking = b
      /\ op.state \in Released /\ op.request = operations[k].request
      /\ op.counted = operations[k].counted /\ op.booking = b
      /\ operations' = [operations EXCEPT ![k] = op]
  BY Zenon DEF GivesBack
<1>2. operations[k] # NoOperation
  BY <1>1 DEF NoOperation
<1>3. Service' = [Service EXCEPT ![k] = ServiceOf(op)] /\ Service[k] = ServiceOf(operations[k])
  BY <1>1, ServiceMoves, ServiceFields
<1>4. Stage(op) = "RETURNED"
  BY <1>1, Stages
<1>5. ServiceOf(op) = [Service[k] EXCEPT !.stage = "RETURNED", !.booking = b]
  <2>1. ServiceOf(op) = [ServiceOf(operations[k]) EXCEPT !.stage = Stage(op), !.booking = op.booking]
    BY <1>1, <1>2, Restaged
  <2>. QED
    BY <1>1, <1>3, <1>4, <2>1, Zenon
<1>6. Service[k].stage = "HELD" \/ (Service[k].stage = "USED" /\ Service[k].booking = b)
  BY <1>1, <1>3, Stages, ServiceFields
<1>7. Service \in [Keys -> Range(Service)] /\ Service'[k].stage = "RETURNED"
  BY <1>3, <1>4, ServiceFields DEF Range
<1>8. Service' = [Service EXCEPT ![k].stage = "RETURNED", ![k].booking = b]
  BY <1>3, <1>5, <1>7
<1>9. Quota!GiveBack(k, b) /\ Service' # Service
  BY <1>6, <1>7, <1>8 DEF Quota!GiveBack
<1>. QED
  BY <1>9, Zenon DEF Quota!Next

LEMMA QuotaStep ==
    ASSUME IInv, Balanced(aggregate), Quoted, [Next]_vars
    PROVE  [Quota!Next]_(Quota!vars)
<1>1. policy' = policy
  BY Moves
<1>2. CASE Untouched
  <2>1. Service' = Service
    BY <1>2, Zenon DEF Untouched, Service, Stage
  <2>. QED
    BY <1>1, <2>1 DEF Quota!vars
<1>3. ASSUME NEW h \in Handlers, At(h, "RESERVE"), operations[handler[h].key] = NoOperation,
             aggregate.rev = handler[h].seen.rev, ReserveWrites(h)
      PROVE  Quota!Next
  <2>1. PICK c \in BOOLEAN, op \in Operation \ {NoOperation} :
               /\ handler[h].key \in Keys /\ handler[h].request.target \in Targets
               /\ handler[h].seen = aggregate
               /\ Takes(handler[h].key, handler[h].request.target, c, op)
    BY <1>3, ReserveTakes
  <2>2. Affordable(handler[h].seen, handler[h].request.target)
    BY <1>3 DEF Quoted, Tells, At
  <2>3. Affordable(aggregate, handler[h].request.target)
    BY <2>1, <2>2, Zenon
  <2>. QED
    BY <1>1, <2>1, <2>3, TakeIsTaken
<1>4. ASSUME NEW h \in Handlers, At(h, "TRANSITION"), OperationHeld(h),
             aggregate.rev = handler[h].seen.rev, TransitionWrites(h)
      PROVE  Quota!Next
  BY <1>1, <1>4, TransitionMoves, UseIsUse, GivenBackIsGiven
<1>. QED
  BY <1>2, <1>3, <1>4, Moves

LEMMA InitPromised == Init => Quota!Init /\ Quoted
<1>. SUFFICES ASSUME Init PROVE Quota!Init /\ Quoted
  OBVIOUS
<1>1. policy \in Policies /\ operations = [k \in Keys |-> NoOperation]
      /\ \A h \in Handlers : handler[h] = Idle
  BY DEF Init
<1>2. ServiceOf(NoOperation) = Quota!Nothing
  BY DEF ServiceOf, Stage, NoOperation, Released, Quota!Nothing
<1>3. Service = [k \in Keys |-> Quota!Nothing]
  BY <1>1, <1>2, ServiceFields
<1>4. Quoted
  BY <1>1 DEF Quoted, Tells, Idle
<1>. QED
  BY <1>1, <1>3, <1>4, Zenon DEF Quota!Init

-----------------------------------------------------------------------------
(* The theorems.                                                           *)

\* The variables keep the shapes of the stored documents and of the handlers.
THEOREM TypeCorrect == Spec => []TypeOK
<1>1. IInv => TypeOK
  BY DEF IInv
<1>. QED
  BY <1>1, Inductive, PTL

\* However many first uses and deadline cycles meet an instance, its ledger has
\* one activation, which starts the validity the instance has.
THEOREM ActivatesOnce == Spec => []ActivatedOnce
<1>1. IInv => ActivatedOnce
  BY DEF IInv
<1>. QED
  BY <1>1, Inductive, PTL

\* However many requests race, the reservations of the aggregate are those of the
\* live operations, and the ledger tells the life of each operation once.
THEOREM ReservationsKept == Spec => []ReservationsMatch
<1>1. IInv => ReservationsMatch
  BY DEF IInv
<1>. QED
  BY <1>1, Inductive, PTL

\* No answer is stale or another request's: whatever was replayed, retried or lost to
\* another request meanwhile, what a handler answers is so when it answers.
THEOREM AnswersAreTrue == Spec => AnswersTrue
<1>1. IInv /\ [Next]_vars =>
          [\A h \in Handlers : ~At(h, "IDLE") /\ handler'[h].answered =>
              AnswerTrue(handler[h], operations'[handler[h].key])]_vars
  BY AnswersHonest DEF Silent
<1>. QED
  BY <1>1, Inductive, PTL DEF Spec, AnswersTrue

\* However reservations, confirmations and releases race, the counters of the
\* aggregate, of the period, of every day and of what remains, are what its live
\* reservations add up to.
THEOREM CountersAreExact == Spec => []CountersExact
<1>1. IInv /\ Balanced(aggregate) => CountersExact
  <2>. SUFFICES ASSUME IInv, Balanced(aggregate) PROVE CountersExact
    OBVIOUS
  <2>1. DOMAIN aggregate.daily = Days
    BY DEF IInv, TypeOK, Aggregate, Days
  <2>. QED
    BY <2>1 DEF Balanced, CountersExact, OnDay
<1>. QED
  BY <1>1, InductiveBalance, PTL

\* Whatever requests run at once, on stale reads or with lost answers, each service is
\* taken, used and given back as one step within the limits of the policy.
THEOREM RuntimeImplementsQuota == Spec => ImplementsQuota
<1>1. Init => IInv /\ Balanced(aggregate) /\ Quoted /\ Quota!Init
  BY InitHolds, InitBalanced, InitPromised
<1>2. IInv /\ Balanced(aggregate) /\ Quoted /\ [Next]_vars =>
          (IInv /\ Balanced(aggregate) /\ Quoted)' /\ [Quota!Next]_(Quota!vars)
  BY NextKeeps, BalancedStep, QuotedStep, QuotaStep
<1>. QED
  BY <1>1, <1>2, PTL DEF Spec, ImplementsQuota, Quota!Spec
=============================================================================
