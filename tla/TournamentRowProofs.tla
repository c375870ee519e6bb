------------------------ MODULE TournamentRowProofs ------------------------
(***************************************************************************)
(* What each owner of the row does to it, and what none of them destroys.  *)
(* The rules of TournamentRow are functions of a row, so everything here   *)
(* is about a row and the next one, whoever writes it; LocalOwnerProofs    *)
(* shows that the handlers write nothing else.                             *)
(***************************************************************************)
EXTENDS TournamentRow, FiniteSetTheorems, SequenceTheorems, TLAPS

-----------------------------------------------------------------------------
(* Shapes.                                                                 *)

Authority == [kind : {"PARTICIPANT", "ORGANIZER"}, by : Actors, at : Keys \cup Nat]
Position == [witness : Authority, baseline : Nat, through : Nat]
Frontier == [adopted : BOOLEAN, allocated : Nat, published : Nat, pending : {<<>>}]
Reads == [adopted : BOOLEAN, positions : SUBSET Position, pending : {<<>>}]
Row == [status : Statuses, roster : SUBSET Seat, waitlist : SUBSET Phones,
        journal : Seq(Operation), receipts : Seq(Receipt), chat : Frontier,
        reads : Reads, stamp : Nat]

LEMMA EntriesTyped ==
    ASSUME NEW rw \in Row
    PROVE  /\ Entries(rw) \subseteq Operation /\ IsFiniteSet(Entries(rw))
           /\ Active(rw) \subseteq Entries(rw) /\ IsFiniteSet(Active(rw))
           /\ Len(rw.journal) \in Nat /\ DOMAIN rw.journal = 1..Len(rw.journal)
           /\ Cardinality(Active(rw)) \in Nat
<1>1. /\ rw.journal \in Seq(Operation) /\ Len(rw.journal) \in Nat
      /\ DOMAIN rw.journal = 1..Len(rw.journal)
  BY LenProperties DEF Row
<1>2. Entries(rw) \subseteq Operation
  BY <1>1, ElementOfSeq DEF Entries, ToSet
<1>3. IsFiniteSet(Entries(rw))
  <2>. DEFINE f == [i \in 1..Len(rw.journal) |-> rw.journal[i]]
  <2>1. f \in Surjection(1..Len(rw.journal), Entries(rw))
    BY <1>1 DEF Surjection, Entries, ToSet
  <2>2. IsFiniteSet(1..Len(rw.journal))
    BY <1>1, FS_Interval
  <2>. HIDE DEF f
  <2>. QED
    BY <2>1, <2>2, FS_Surjection
<1>4. Active(rw) \subseteq Entries(rw)
  BY DEF Active
<1>. QED
  BY <1>1, <1>2, <1>3, <1>4, FS_Subset, FS_CardinalityType

LEMMA OrganizerTyped ==
    ASSUME NEW rw \in Row
    PROVE  Revision(rw) \in Nat /\ Selected(rw) \in Actors \cup {None}
<1>1. rw.receipts \in Seq(Receipt)
  BY DEF Row
<1>2. ASSUME rw.receipts # <<>>
      PROVE  Last(rw.receipts) \in Receipt
  <2>1. Len(rw.receipts) \in 1..Len(rw.receipts)
    BY <1>1, <1>2, EmptySeq, LenProperties
  <2>. QED
    BY <1>1, <2>1, ElementOfSeq DEF Last
<1>. QED
  BY <1>2 DEF Revision, Selected, Receipt

-----------------------------------------------------------------------------
(* What a row keeps to.                                                    *)

OwnKey(o) == IF o.command = Join THEN o.key ELSE o.command.original
Registered(rw) == {o \in Entries(rw) : o.outcome = "REGISTERED"}

EntrySound(o) ==
    /\ o.outcome \in {"LEFT", "GENERATION_NOT_CURRENT"} <=> o.command # Join
    /\ o.outcome \in {"REGISTERED", "LEFT"} => o.gen = OwnKey(o)

JournalSound(rw) ==
    /\ \A o \in Entries(rw) : EntrySound(o)
    /\ \A i, j \in DOMAIN rw.journal :
          /\ rw.journal[i].actor = rw.journal[j].actor
          /\ rw.journal[i].key = rw.journal[j].key
          => i = j
    /\ \A l \in Entries(rw) : l.outcome = "LEFT" =>
          \E o \in Registered(rw) : o.actor = l.actor /\ o.gen = l.gen
    /\ Len(rw.journal) + Cardinality(Active(rw)) =< JournalLimit

SeatsSound(rw) ==
    /\ {s \in rw.roster : s.by # None} = {SeatOf(o) : o \in Active(rw)}
    /\ \A o, p \in Active(rw) : o.actor = p.actor => o = p
    /\ \A s, t \in rw.roster : s.phone = t.phone => s = t
    /\ IsFiniteSet(rw.roster)
    /\ Registered(rw) # {} => Cardinality(rw.roster) =< MaxPlayers

Chained(receipts) ==
    \A i \in DOMAIN receipts :
        LET r == receipts[i]
            before == IF i = 1 THEN 0 ELSE receipts[i - 1].revision
            organizer == IF i = 1 THEN None ELSE receipts[i - 1].selected
        IN  IF r.outcome = "REJECTED"
            THEN /\ r.command.expected # before
                 /\ r.revision = before /\ r.selected = organizer
            ELSE /\ r.command.expected = before
                 /\ r.revision = before + 1 /\ r.selected = r.command.selected

OrganizerSound(rw) ==
    /\ \A i, j \in DOMAIN rw.receipts :
          rw.receipts[i].command.id = rw.receipts[j].command.id => i = j
    /\ Chained(rw.receipts)
    /\ Len(rw.receipts) + (IF Selected(rw) = None THEN 0 ELSE 1) =< OrganizerLimit

\* The authorities that need a position once the stream is adopted.
Authorities(rw) ==
    {Participant(o) : o \in Active(rw)}
    \cup (IF Selected(rw) = None THEN {} ELSE {Organizer(Selected(rw), Revision(rw))})

PositionsSound(rw) ==
    rw.reads.adopted =>
        /\ \A w \in Authorities(rw) : \E p \in rw.reads.positions : p.witness = w
        /\ \A p, q \in rw.reads.positions : p.witness = q.witness => p = q
        /\ \A p \in rw.reads.positions :
              p.baseline =< p.through /\ p.through =< rw.chat.published
        /\ IsFiniteSet(rw.reads.positions)
        /\ Cardinality(rw.reads.positions) =< PositionLimit

\* A position was made for a generation in the journal or a revision of the receipts.
Recorded(rw, w) ==
    \/ \E o \in Registered(rw) : w = Participant(o)
    \/ w.kind = "ORGANIZER" /\ w.at \in 0..Revision(rw)
Slots(rw) == Len(rw.journal) + Len(rw.receipts)
RoomSound(rw) ==
    rw.reads.adopted =>
        /\ \A p \in rw.reads.positions : Recorded(rw, p.witness)
        /\ Cardinality(rw.reads.positions) =< Slots(rw)

Sound(rw) ==
    /\ rw \in Row
    /\ JournalSound(rw) /\ SeatsSound(rw) /\ OrganizerSound(rw)
    /\ PositionsSound(rw) /\ RoomSound(rw)

-----------------------------------------------------------------------------
(* The steps of the owners.                                                *)

\* The operations the journal may decide on a row.
Decision(rw, op) ==
    /\ \A o \in Entries(rw) : ~(o.actor = op.actor /\ o.key = op.key)
    /\ Fits(rw, op)
    /\ op.command = Join => rw.status \in OpenStatuses
    /\ \/ \E a \in Actors, p \in Phones, k \in Keys : op = JoinOperation(rw, a, p, k)
       \/ \E o \in Registered(rw), k \in Keys : op = LeaveOperation(rw, o, k)
JournalStep(rw, next) ==
    \E op \in Operation : Decision(rw, op) /\ next \in Committed(rw, op)

CommandShapes ==
    {c \in Assignment : c.action = "ASSIGN" <=> c.selected # None}
OrganizerStep(rw, next) ==
    \E command \in CommandShapes :
        LET receipt == OrganizerReceipt(rw, command) IN
        /\ ReceiptsOf(rw, command.id) = {} /\ OrganizerFits(rw, receipt)
        /\ command.action = "REVOKE" => rw.receipts # <<>>
        /\ next \in Assigned(rw, receipt)

\* Seats as staff and legacy registrations make them, without a generation.
Loose(roster) ==
    /\ IsFiniteSet(roster) /\ roster \subseteq {s \in Seat : s.by = None}
    /\ \A s, t \in roster : s.phone = t.phone => s = t

\* Staff and legacy writers: while there is no journal.
StaffStep(rw, next) ==
    /\ rw.journal = <<>>
    /\ next \in Row /\ next.status \in StaffStatus \cup {rw.status}
    /\ next.journal = rw.journal /\ next.receipts = rw.receipts
    /\ next.chat = rw.chat /\ next.reads = rw.reads
    /\ Loose(next.roster)

ChatStep(rw, next) ==
    \/ next = Adopted(rw)
    \/ next = [rw EXCEPT !.chat.allocated = @ + 1, !.chat.published = @ + 1]

OwnerStep(rw, next) ==
    \/ JournalStep(rw, next) \/ OrganizerStep(rw, next)
    \/ StaffStep(rw, next) \/ ChatStep(rw, next)

-----------------------------------------------------------------------------
(* The journal.                                                            *)

LEMMA LoggedIs ==
    ASSUME NEW rw \in Row, NEW op \in Operation
    PROVE  LET next == Logged(rw, op) IN
           /\ next \in Row
           /\ Entries(next) = Entries(rw) \cup {op}
           /\ Len(next.journal) = Len(rw.journal) + 1
           /\ \A i \in 1..Len(rw.journal) : next.journal[i] = rw.journal[i]
           /\ next.journal[Len(rw.journal) + 1] = op
           /\ DOMAIN next.journal = 1..Len(rw.journal) + 1
           /\ next.journal # <<>>
           /\ next.roster = rw.roster /\ next.receipts = rw.receipts
           /\ next.chat = rw.chat /\ next.reads = rw.reads
           /\ next.status = rw.status /\ next.waitlist = rw.waitlist
           /\ next.stamp = rw.stamp
<1>1. rw.journal \in Seq(Operation) /\ Len(rw.journal) \in Nat
      /\ DOMAIN rw.journal = 1..Len(rw.journal)
  BY LenProperties DEF Row
<1>. DEFINE more == Append(rw.journal, op)
<1>2. /\ more \in Seq(Operation) /\ Len(more) = Len(rw.journal) + 1
      /\ \A i \in 1..Len(rw.journal) : more[i] = rw.journal[i]
      /\ more[Len(rw.journal) + 1] = op
      /\ DOMAIN more = 1..Len(rw.journal) + 1
      /\ more # <<>>
  BY <1>1, AppendProperties, LenProperties
<1>3. /\ Logged(rw, op) \in Row /\ Logged(rw, op).journal = more
      /\ Logged(rw, op).roster = rw.roster /\ Logged(rw, op).receipts = rw.receipts
      /\ Logged(rw, op).chat = rw.chat /\ Logged(rw, op).reads = rw.reads
      /\ Logged(rw, op).status = rw.status /\ Logged(rw, op).waitlist = rw.waitlist
      /\ Logged(rw, op).stamp = rw.stamp
  BY <1>2 DEF Logged, Row
<1>4. {more[i] : i \in 1..Len(rw.journal) + 1} = {rw.journal[i] : i \in 1..Len(rw.journal)} \cup {op}
  <2>1. ASSUME NEW i \in 1..Len(rw.journal) + 1
        PROVE  more[i] \in {rw.journal[j] : j \in 1..Len(rw.journal)} \cup {op}
    <3>1. i \in 1..Len(rw.journal) \/ i = Len(rw.journal) + 1
      BY <1>1
    <3>. QED
      BY <1>2, <3>1
  <2>2. \A i \in 1..Len(rw.journal) : i \in 1..Len(rw.journal) + 1
    BY <1>1
  <2>3. Len(rw.journal) + 1 \in 1..Len(rw.journal) + 1
    BY <1>1
  <2>. HIDE DEF more
  <2>. QED
    BY <1>2, <2>1, <2>2, <2>3
<1>. HIDE DEF more
<1>5. Entries(Logged(rw, op)) = Entries(rw) \cup {op}
  BY <1>1, <1>2, <1>3, <1>4 DEF Entries, ToSet
<1>. QED
  BY <1>2, <1>3, <1>5

LEMMA LeaveIsNotJoin == \A k : Leave(k) # Join
<1>1. \A k : Leave(k).action # Join.action
  BY DEF Leave, Join
<1>. QED
  BY <1>1

\* A registration is fresh: nobody with the phone or the actor is in, a place is
\* free; a departure is of a generation that is in.
LEMMA DecisionIs ==
    ASSUME NEW rw, Sound(rw), NEW op \in Operation, Decision(rw, op)
    PROVE  /\ EntrySound(op)
           /\ \A o \in Entries(rw) : ~(o.actor = op.actor /\ o.key = op.key)
           /\ Fits(rw, op)
           /\ op.outcome = "REGISTERED" =>
                 /\ op.command = Join /\ op.gen = op.key
                 /\ \A o \in Active(rw) : o.actor # op.actor
                 /\ \A s \in rw.roster : s.phone # op.phone
                 /\ ~(Cardinality(rw.roster) >= MaxPlayers)
           /\ op.outcome = "LEFT" =>
                 \E o \in Active(rw) : /\ op.actor = o.actor /\ op.gen = o.gen
                                       /\ op.phone = o.phone
                                       /\ Current(rw, o)
           /\ op.outcome = "GENERATION_NOT_CURRENT" =>
                 \E o \in Registered(rw) : op.actor = o.actor /\ OwnKey(op) = o.key
<1>1. ASSUME NEW a \in Actors, NEW p \in Phones, NEW k \in Keys,
             op = JoinOperation(rw, a, p, k)
      PROVE  /\ op.actor = a /\ op.phone = p /\ op.key = k /\ op.command = Join
             /\ op.outcome \in {"REGISTERED", "MEMBERSHIP_EXISTS", "FULL"}
             /\ op.outcome = "REGISTERED" =>
                   /\ op.gen = op.key
                   /\ ActiveOf(rw, a) = {}
                   /\ ~\E s \in rw.roster : s.phone = p
                   /\ ~(Cardinality(rw.roster) >= MaxPlayers)
  BY <1>1 DEF JoinOperation, JoinOutcome
<1>2. ASSUME NEW o \in Registered(rw), NEW k \in Keys, op = LeaveOperation(rw, o, k)
      PROVE  /\ op.actor = o.actor /\ op.phone = o.phone /\ op.command = Leave(o.key)
             /\ op.command # Join /\ OwnKey(op) = o.key /\ o.gen = o.key
             /\ op.outcome \in {"LEFT", "GENERATION_NOT_CURRENT"}
             /\ op.outcome = "LEFT" =>
                   op.gen = o.gen /\ o \in Active(rw) /\ Current(rw, o)
  <2>1. o \in Entries(rw) /\ o.outcome = "REGISTERED"
    BY DEF Registered
  <2>2. EntrySound(o)
    BY <2>1 DEF Sound, JournalSound
  <2>3. o.gen = o.key
    BY <2>1, <2>2 DEF EntrySound, OwnKey
  <2>4. /\ op.actor = o.actor /\ op.phone = o.phone /\ op.command = Leave(o.key)
        /\ op.outcome \in {"LEFT", "GENERATION_NOT_CURRENT"}
        /\ op.outcome = "LEFT" =>
              op.gen = o.gen /\ Current(rw, o) /\ ~Departed(rw, o)
    BY <1>2 DEF LeaveOperation
  <2>5. OwnKey(op) = o.key /\ op.command # Join
    BY <2>4, LeaveIsNotJoin DEF OwnKey, Leave
  <2>. QED
    BY <2>1, <2>3, <2>4, <2>5 DEF Active
<1>3. CASE \E a \in Actors, p \in Phones, k \in Keys : op = JoinOperation(rw, a, p, k)
  BY <1>1, <1>3 DEF Decision, EntrySound, OwnKey, ActiveOf
<1>4. CASE \E o \in Registered(rw), k \in Keys : op = LeaveOperation(rw, o, k)
  BY <1>2, <1>4 DEF Decision, EntrySound
<1>. QED
  BY <1>3, <1>4 DEF Decision

\* Who is registered depends on the journal only.
LEMMA SameJournal ==
    ASSUME NEW rw, NEW next, next.journal = rw.journal
    PROVE  /\ Entries(next) = Entries(rw) /\ Active(next) = Active(rw)
           /\ Registered(next) = Registered(rw)
           /\ JournalSound(rw) => JournalSound(next)
<1>1. Entries(next) = Entries(rw)
  BY DEF Entries
<1>2. Active(next) = Active(rw)
  BY <1>1 DEF Active, Departed
<1>3. Registered(next) = Registered(rw)
  BY <1>1 DEF Registered
<1>. QED
  BY <1>1, <1>2, <1>3 DEF JournalSound

\* What an operation makes of the registrations.
LEMMA ActiveAfter ==
    ASSUME NEW rw, Sound(rw), NEW op \in Operation, Decision(rw, op)
    PROVE  LET next == Logged(rw, op) IN
           /\ op.outcome = "REGISTERED" =>
                 Active(next) = Active(rw) \cup {op} /\ op \notin Active(rw)
           /\ op.outcome = "LEFT" =>
                 \E o \in Active(rw) : /\ o.actor = op.actor /\ o.gen = op.gen
                                       /\ Active(next) = Active(rw) \ {o}
           /\ op.outcome \notin {"REGISTERED", "LEFT"} => Active(next) = Active(rw)
<1>. DEFINE next == Logged(rw, op)
<1>0. rw \in Row
  BY DEF Sound
<1>1. Entries(next) = Entries(rw) \cup {op}
  BY <1>0, LoggedIs
<1>. HIDE DEF next
<1>2. ASSUME op.outcome # "LEFT"
      PROVE  \A o : Departed(next, o) <=> Departed(rw, o)
  BY <1>1, <1>2 DEF Departed
<1>3. CASE op.outcome = "REGISTERED"
  <2>1. ~Departed(rw, op)
    <3>. SUFFICES ASSUME NEW l \in Entries(rw), l.outcome = "LEFT", l.actor = op.actor,
                         l.gen = op.gen
                  PROVE  FALSE
      BY DEF Departed
    <3>1. PICK o \in Registered(rw) : o.actor = l.actor /\ o.gen = l.gen
      BY DEF Sound, JournalSound
    <3>2. o \in Entries(rw) /\ o.gen = o.key
      BY DEF Registered, Sound, JournalSound, EntrySound, OwnKey
    <3>3. op.gen = op.key
      BY <1>3, DecisionIs
    <3>4. \A e \in Entries(rw) : ~(e.actor = op.actor /\ e.key = op.key)
      BY DecisionIs
    <3>. QED
      BY <3>1, <3>2, <3>3, <3>4
  <2>2. Active(next) = Active(rw) \cup {op}
    BY <1>1, <1>2, <1>3, <2>1 DEF Active
  <2>3. op \notin Active(rw)
    BY <1>3, DecisionIs
  <2>. QED
    BY <1>3, <2>2, <2>3 DEF next
<1>4. CASE op.outcome = "LEFT"
  <2>1. PICK o \in Active(rw) : op.actor = o.actor /\ op.gen = o.gen
    BY <1>4, DecisionIs
  <2>2. \A p : Departed(next, p) <=>
            Departed(rw, p) \/ (p.actor = o.actor /\ p.gen = o.gen)
    BY <1>1, <1>4, <2>1 DEF Departed
  <2>3. \A p \in Active(rw) : p.actor = o.actor => p = o
    BY <2>1 DEF Sound, SeatsSound
  <2>4. Active(next) = Active(rw) \ {o}
    BY <1>1, <1>4, <2>1, <2>2, <2>3 DEF Active
  <2>. QED
    BY <1>4, <2>1, <2>4 DEF next
<1>5. CASE op.outcome \notin {"REGISTERED", "LEFT"}
  <2>1. Active(next) = Active(rw)
    BY <1>1, <1>2, <1>5 DEF Active
  <2>. QED
    BY <1>5, <2>1 DEF next
<1>. QED
  BY <1>3, <1>4, <1>5

LEMMA JournalStays ==
    ASSUME NEW rw, Sound(rw), NEW op \in Operation, Decision(rw, op)
    PROVE  JournalSound(Logged(rw, op))
<1>. DEFINE next == Logged(rw, op)
            size == Len(rw.journal)
<1>0. rw \in Row
  BY DEF Sound
<1>1. /\ next \in Row /\ Entries(next) = Entries(rw) \cup {op}
      /\ Len(next.journal) = size + 1 /\ DOMAIN next.journal = 1..size + 1
      /\ \A i \in 1..size : next.journal[i] = rw.journal[i]
      /\ next.journal[size + 1] = op
  BY <1>0, LoggedIs
<1>2. size \in Nat /\ DOMAIN rw.journal = 1..size /\ \A i \in 1..size : rw.journal[i] \in Entries(rw)
  BY <1>0, EntriesTyped DEF Entries, ToSet
<1>. HIDE DEF next
<1>3. EntrySound(op)
  BY DecisionIs
<1>4. \A o \in Entries(next) : EntrySound(o)
  BY <1>1, <1>3 DEF Sound, JournalSound
<1>5. ASSUME NEW i \in 1..size + 1, NEW j \in 1..size + 1,
             next.journal[i].actor = next.journal[j].actor,
             next.journal[i].key = next.journal[j].key
      PROVE  i = j
  <2>0. (i \in 1..size \/ i = size + 1) /\ (j \in 1..size \/ j = size + 1)
    BY <1>2
  <2>1. \A o \in Entries(rw) : ~(o.actor = op.actor /\ o.key = op.key)
    BY DecisionIs
  <2>2. CASE i \in 1..size /\ j \in 1..size
    <3>1. rw.journal[i].actor = rw.journal[j].actor /\ rw.journal[i].key = rw.journal[j].key
      BY <1>1, <1>5, <2>2
    <3>. QED
      BY <1>2, <2>2, <3>1 DEF Sound, JournalSound
  <2>3. CASE i \in 1..size /\ j = size + 1
    BY <1>1, <1>2, <1>5, <2>1, <2>3
  <2>4. CASE i = size + 1 /\ j \in 1..size
    BY <1>1, <1>2, <1>5, <2>1, <2>4
  <2>. QED
    BY <2>0, <2>2, <2>3, <2>4
<1>6. ASSUME NEW l \in Entries(next), l.outcome = "LEFT"
      PROVE  \E o \in Registered(next) : o.actor = l.actor /\ o.gen = l.gen
  <2>1. Registered(rw) \subseteq Registered(next)
    BY <1>1 DEF Registered
  <2>2. CASE l \in Entries(rw)
    BY <1>6, <2>1, <2>2 DEF Sound, JournalSound
  <2>3. CASE l = op
    <3>1. PICK o \in Active(rw) : op.actor = o.actor /\ op.gen = o.gen
      BY <1>6, <2>3, DecisionIs
    <3>2. o \in Registered(rw)
      BY DEF Active, Registered
    <3>. QED
      BY <2>1, <2>3, <3>1, <3>2
  <2>. QED
    BY <1>1, <2>2, <2>3
<1>7. Len(next.journal) + Cardinality(Active(next)) =< JournalLimit
  BY <1>1, DecisionIs DEF Fits, next
<1>. QED
  BY <1>1, <1>4, <1>5, <1>6, <1>7 DEF JournalSound, next

-----------------------------------------------------------------------------
(* The seats.                                                              *)

\* The row an operation leaves: the journal, the seats, and a position.
LEMMA CommittedIs ==
    ASSUME NEW rw \in Row, NEW op \in Operation, EntrySound(op), NEW next \in Committed(rw, op)
    PROVE  /\ next \in Row
           /\ next.journal = Logged(rw, op).journal
           /\ next.receipts = rw.receipts /\ next.chat = rw.chat
           /\ next.status = rw.status /\ next.waitlist = rw.waitlist
           /\ next.stamp = rw.stamp /\ next.reads.adopted = rw.reads.adopted
           /\ next.roster = CASE op.outcome = "REGISTERED" -> rw.roster \cup {SeatOf(op)}
                              [] op.outcome = "LEFT" ->
                                   {s \in rw.roster : ~(s.by = op.actor /\ s.gen = op.gen)}
                              [] OTHER -> rw.roster
           /\ IF op.outcome = "REGISTERED" /\ rw.reads.adopted
              THEN /\ Participant(op) \in Authority
                   /\ CanEnrol(rw, Participant(op))
                   /\ next.reads.positions = rw.reads.positions
                          \cup {NewPosition(Participant(op), rw.chat.published)}
              ELSE next.reads = rw.reads
<1>. DEFINE logged == Logged(rw, op)
<1>1. /\ logged \in Row /\ logged.roster = rw.roster /\ logged.receipts = rw.receipts
      /\ logged.chat = rw.chat /\ logged.reads = rw.reads /\ logged.status = rw.status
      /\ logged.waitlist = rw.waitlist /\ logged.stamp = rw.stamp
  BY LoggedIs
<1>. HIDE DEF logged
<1>2. CASE op.outcome = "REGISTERED"
  <2>1. SeatOf(op) \in Seat
    BY DEF SeatOf, Seat, Operation
  <2>. DEFINE seated == [logged EXCEPT !.roster = @ \cup {SeatOf(op)}]
  <2>2. /\ seated \in Row /\ seated.roster = rw.roster \cup {SeatOf(op)}
        /\ seated.journal = logged.journal /\ seated.receipts = rw.receipts
        /\ seated.chat = rw.chat /\ seated.reads = rw.reads /\ seated.status = rw.status
        /\ seated.waitlist = rw.waitlist /\ seated.stamp = rw.stamp
    BY <1>1, <2>1 DEF Row
  <2>3. CanEnrol(rw, Participant(op)) /\ next = Enrol(seated, Participant(op))
    BY <1>2 DEF Committed, logged
  <2>4. Participant(op) \in Authority
    <3>1. op.gen = op.key /\ op.key \in Keys /\ op.actor \in Actors
      BY <1>2 DEF EntrySound, OwnKey, Operation
    <3>. QED
      BY <3>1 DEF Participant, Authority
  <2>. HIDE DEF seated
  <2>5. CASE rw.reads.adopted
    <3>. DEFINE position == NewPosition(Participant(op), rw.chat.published)
    <3>1. position \in Position
      BY <2>4 DEF NewPosition, Position, Row, Frontier
    <3>2. next = [seated EXCEPT !.reads.positions = @ \cup {position}]
      BY <2>2, <2>3, <2>5 DEF Enrol
    <3>. HIDE DEF position
    <3>3. /\ next \in Row /\ next.reads.positions = rw.reads.positions \cup {position}
          /\ next.reads.adopted = rw.reads.adopted
          /\ next.roster = seated.roster
          /\ next.journal = logged.journal /\ next.receipts = rw.receipts
          /\ next.chat = rw.chat /\ next.status = rw.status
          /\ next.waitlist = rw.waitlist /\ next.stamp = rw.stamp
      BY <2>2, <3>1, <3>2 DEF Row, Reads
    <3>. QED
      BY <1>2, <2>2, <2>3, <2>4, <2>5, <3>3 DEF position, logged
  <2>6. CASE ~rw.reads.adopted
    <3>1. next = seated
      BY <2>2, <2>3, <2>6 DEF Enrol
    <3>. QED
      BY <1>2, <2>2, <2>6, <3>1 DEF logged
  <2>. QED
    BY <2>5, <2>6
<1>3. CASE op.outcome = "LEFT"
  <2>. DEFINE rest == {s \in rw.roster : ~(s.by = op.actor /\ s.gen = op.gen)}
  <2>1. next = [logged EXCEPT !.roster = {s \in @ : ~(s.by = op.actor /\ s.gen = op.gen)}]
    BY <1>3 DEF Committed, logged
  <2>2. rest \subseteq rw.roster
    OBVIOUS
  <2>3. /\ next \in Row /\ next.roster = rest /\ next.journal = logged.journal
        /\ next.receipts = rw.receipts /\ next.chat = rw.chat /\ next.reads = rw.reads
        /\ next.status = rw.status /\ next.waitlist = rw.waitlist /\ next.stamp = rw.stamp
    BY <1>1, <2>1, <2>2 DEF Row
  <2>. QED
    BY <1>3, <2>3 DEF logged
<1>4. CASE op.outcome \notin {"REGISTERED", "LEFT"}
  <2>1. next = logged
    BY <1>4 DEF Committed, logged
  <2>. QED
    BY <1>1, <1>4, <2>1 DEF logged
<1>. QED
  BY <1>2, <1>3, <1>4

LEMMA SeatsStay ==
    ASSUME NEW rw, Sound(rw), NEW op \in Operation, Decision(rw, op),
           NEW next \in Committed(rw, op)
    PROVE  SeatsSound(next)
<1>0. rw \in Row /\ EntrySound(op)
  BY DecisionIs DEF Sound
<1>1. /\ next \in Row /\ next.journal = Logged(rw, op).journal
      /\ next.roster = CASE op.outcome = "REGISTERED" -> rw.roster \cup {SeatOf(op)}
                         [] op.outcome = "LEFT" ->
                              {s \in rw.roster : ~(s.by = op.actor /\ s.gen = op.gen)}
                         [] OTHER -> rw.roster
  BY <1>0, CommittedIs
<1>2. Active(next) = Active(Logged(rw, op)) /\ Registered(next) = Registered(Logged(rw, op))
  BY <1>1, SameJournal
<1>3. Registered(next) = Registered(rw) \cup (IF op.outcome = "REGISTERED" THEN {op} ELSE {})
  BY <1>0, <1>2, LoggedIs DEF Registered
<1>4. /\ {s \in rw.roster : s.by # None} = {SeatOf(o) : o \in Active(rw)}
      /\ \A o, p \in Active(rw) : o.actor = p.actor => o = p
      /\ \A s, t \in rw.roster : s.phone = t.phone => s = t
      /\ IsFiniteSet(rw.roster)
      /\ Registered(rw) # {} => Cardinality(rw.roster) =< MaxPlayers
  BY DEF Sound, SeatsSound
<1>5. \A o \in Active(rw) : o.actor \in Actors /\ o.actor # None /\ o \in Registered(rw)
  BY <1>0, EntriesTyped, AbsenceAssumption DEF Operation, Active, Registered
<1>6. CASE op.outcome = "REGISTERED"
  <2>1. /\ \A o \in Active(rw) : o.actor # op.actor
        /\ \A s \in rw.roster : s.phone # op.phone
        /\ ~(Cardinality(rw.roster) >= MaxPlayers)
    BY <1>6, DecisionIs
  <2>2. Active(next) = Active(rw) \cup {op}
    BY <1>2, <1>6, ActiveAfter
  <2>3. next.roster = rw.roster \cup {SeatOf(op)}
    BY <1>1, <1>6
  <2>4. SeatOf(op).by # None /\ SeatOf(op).phone = op.phone
    BY AbsenceAssumption DEF SeatOf, Operation
  <2>5. {s \in next.roster : s.by # None} = {SeatOf(o) : o \in Active(next)}
    BY <1>4, <2>2, <2>3, <2>4
  <2>6. SeatOf(op) \notin rw.roster
    BY <2>1, <2>4
  <2>7. IsFiniteSet(next.roster) /\ Cardinality(next.roster) =< MaxPlayers
    <3>1. Cardinality(next.roster) = Cardinality(rw.roster) + 1 /\ IsFiniteSet(next.roster)
      BY <1>4, <2>3, <2>6, FS_AddElement
    <3>2. Cardinality(rw.roster) \in Nat /\ MaxPlayers \in Nat
      BY <1>4, FS_CardinalityType, LimitsAssumption
    <3>. QED
      BY <2>1, <3>1, <3>2
  <2>8. \A s, t \in next.roster : s.phone = t.phone => s = t
    BY <1>4, <2>1, <2>3, <2>4
  <2>9. \A o, p \in Active(next) : o.actor = p.actor => o = p
    BY <1>4, <2>1, <2>2
  <2>. QED
    BY <2>5, <2>7, <2>8, <2>9 DEF SeatsSound
<1>7. CASE op.outcome = "LEFT"
  <2>1. PICK o \in Active(rw) : /\ o.actor = op.actor /\ o.gen = op.gen
                                /\ Active(next) = Active(rw) \ {o}
    BY <1>2, <1>7, ActiveAfter
  <2>2. next.roster = {s \in rw.roster : ~(s.by = op.actor /\ s.gen = op.gen)}
    BY <1>1, <1>7
  <2>3. {s \in next.roster : s.by # None} = {SeatOf(p) : p \in Active(next)}
    <3>1. ASSUME NEW s \in next.roster, s.by # None
          PROVE  s \in {SeatOf(p) : p \in Active(next)}
      <4>1. PICK p \in Active(rw) : s = SeatOf(p)
        BY <1>4, <2>2, <3>1
      <4>2. p # o
        BY <2>1, <2>2, <3>1, <4>1 DEF SeatOf
      <4>. QED
        BY <2>1, <4>1, <4>2
    <3>2. ASSUME NEW p \in Active(next)
          PROVE  SeatOf(p) \in next.roster /\ SeatOf(p).by # None
      <4>1. p \in Active(rw) /\ p # o
        BY <2>1
      <4>2. SeatOf(p) \in rw.roster /\ SeatOf(p).by = p.actor /\ p.actor # op.actor
        BY <1>4, <1>5, <2>1, <4>1 DEF SeatOf
      <4>. QED
        BY <1>5, <2>2, <4>1, <4>2
    <3>. QED
      BY <3>1, <3>2
  <2>4. IsFiniteSet(next.roster) /\ Cardinality(next.roster) =< Cardinality(rw.roster)
    BY <1>4, <2>2, FS_Subset
  <2>5. Cardinality(next.roster) =< MaxPlayers
    <3>1. Cardinality(rw.roster) =< MaxPlayers
      BY <1>4, <1>5, <2>1
    <3>2. /\ Cardinality(rw.roster) \in Nat /\ Cardinality(next.roster) \in Nat
          /\ MaxPlayers \in Nat
      BY <1>4, <2>4, FS_CardinalityType, LimitsAssumption
    <3>. QED
      BY <2>4, <3>1, <3>2
  <2>6. \A s, t \in next.roster : s.phone = t.phone => s = t
    BY <1>4, <2>2
  <2>7. \A p, q \in Active(next) : p.actor = q.actor => p = q
    BY <1>4, <2>1
  <2>. QED
    BY <2>3, <2>4, <2>5, <2>6, <2>7 DEF SeatsSound
<1>8. CASE op.outcome \notin {"REGISTERED", "LEFT"}
  <2>1. next.roster = rw.roster /\ Active(next) = Active(rw) /\ Registered(next) = Registered(rw)
    BY <1>1, <1>2, <1>3, <1>8, ActiveAfter
  <2>. QED
    BY <1>4, <2>1 DEF SeatsSound
<1>. QED
  BY <1>6, <1>7, <1>8

-----------------------------------------------------------------------------
(* The read positions.                                                     *)

\* A new authority gets a position at the frontier.
LEMMA PositionAdded ==
    ASSUME NEW rw, rw \in Row, PositionsSound(rw), rw.reads.adopted,
           NEW w \in Authority, CanEnrol(rw, w), NEW next, next \in Row,
           next.chat = rw.chat,
           next.reads.positions = rw.reads.positions \cup {NewPosition(w, rw.chat.published)},
           Authorities(next) \subseteq Authorities(rw) \cup {w}
    PROVE  PositionsSound(next)
<1>. DEFINE position == NewPosition(w, rw.chat.published)
<1>1. /\ position.witness = w /\ position.baseline = rw.chat.published
      /\ position.through = rw.chat.published /\ rw.chat.published \in Nat
  BY DEF NewPosition, Row, Frontier
<1>2. \A p \in rw.reads.positions : p.witness # w
  BY DEF CanEnrol
<1>3. next.reads.positions = rw.reads.positions \cup {position}
  OBVIOUS
<1>. HIDE DEF position
<1>4. /\ IsFiniteSet(rw.reads.positions)
      /\ Cardinality(rw.reads.positions) < PositionLimit
  BY DEF PositionsSound, CanEnrol
<1>5. IsFiniteSet(next.reads.positions) /\ Cardinality(next.reads.positions) =< PositionLimit
  <2>1. /\ Cardinality(next.reads.positions) =< Cardinality(rw.reads.positions) + 1
        /\ IsFiniteSet(next.reads.positions) /\ Cardinality(rw.reads.positions) \in Nat
    <3>1. Cardinality(rw.reads.positions) \in Nat
      BY <1>4, FS_CardinalityType
    <3>2. /\ IsFiniteSet(next.reads.positions)
          /\ Cardinality(next.reads.positions) =
                 IF position \in rw.reads.positions THEN Cardinality(rw.reads.positions)
                 ELSE Cardinality(rw.reads.positions) + 1
      <4>. DEFINE old == rw.reads.positions
      <4>1. IsFiniteSet(old)
        BY <1>4
      <4>2. /\ IsFiniteSet(old \cup {position})
            /\ Cardinality(old \cup {position}) =
                   IF position \in old THEN Cardinality(old) ELSE Cardinality(old) + 1
        <5>. HIDE DEF old
        <5>. QED
          BY <4>1, FS_AddElement
      <4>. QED
        BY <1>3, <4>2
    <3>. QED
      BY <3>1, <3>2
  <2>2. Cardinality(next.reads.positions) \in Nat
    BY <2>1, FS_CardinalityType
  <2>. QED
    BY <1>4, <2>1, <2>2, LimitsAssumption
<1>6. \A v \in Authorities(next) : \E p \in next.reads.positions : p.witness = v
  BY <1>1, <1>3 DEF PositionsSound
<1>7. \A p, q \in next.reads.positions : p.witness = q.witness => p = q
  BY <1>1, <1>2, <1>3 DEF PositionsSound
<1>8. \A p \in next.reads.positions :
          p.baseline =< p.through /\ p.through =< next.chat.published
  BY <1>1, <1>3 DEF PositionsSound
<1>. QED
  BY <1>5, <1>6, <1>7, <1>8 DEF PositionsSound

\* Nothing is needed for an authority that ends.
LEMMA PositionsKept ==
    ASSUME NEW rw, PositionsSound(rw), NEW next, next.chat = rw.chat, next.reads = rw.reads,
           Authorities(next) \subseteq Authorities(rw)
    PROVE  PositionsSound(next)
BY DEF PositionsSound

LEMMA PositionsStay ==
    ASSUME NEW rw, Sound(rw), NEW op \in Operation, Decision(rw, op),
           NEW next \in Committed(rw, op)
    PROVE  PositionsSound(next)
<1>0. rw \in Row /\ EntrySound(op) /\ PositionsSound(rw)
  BY DecisionIs DEF Sound
<1>1. /\ next \in Row /\ next.journal = Logged(rw, op).journal
      /\ next.receipts = rw.receipts /\ next.chat = rw.chat
      /\ next.reads.adopted = rw.reads.adopted
      /\ IF op.outcome = "REGISTERED" /\ rw.reads.adopted
         THEN /\ Participant(op) \in Authority
              /\ CanEnrol(rw, Participant(op))
              /\ next.reads.positions = rw.reads.positions
                     \cup {NewPosition(Participant(op), rw.chat.published)}
         ELSE next.reads = rw.reads
  BY <1>0, CommittedIs
<1>2. Active(next) = Active(Logged(rw, op))
  BY <1>1, SameJournal
<1>3. Selected(next) = Selected(rw) /\ Revision(next) = Revision(rw)
  BY <1>1 DEF Selected, Revision
<1>4. CASE op.outcome = "REGISTERED"
  <2>1. Active(next) = Active(rw) \cup {op}
    BY <1>2, <1>4, ActiveAfter
  <2>2. Authorities(next) \subseteq Authorities(rw) \cup {Participant(op)}
    BY <1>3, <2>1 DEF Authorities
  <2>3. CASE rw.reads.adopted
    BY <1>0, <1>1, <1>4, <2>2, <2>3, PositionAdded
  <2>4. CASE ~rw.reads.adopted
    BY <1>1, <2>4 DEF PositionsSound
  <2>. QED
    BY <2>3, <2>4
<1>5. CASE op.outcome # "REGISTERED"
  <2>1. Active(next) \subseteq Active(rw)
    BY <1>2, <1>5, ActiveAfter
  <2>2. Authorities(next) \subseteq Authorities(rw)
    BY <1>3, <2>1 DEF Authorities
  <2>. QED
    BY <1>0, <1>1, <1>5, <2>2, PositionsKept
<1>. QED
  BY <1>4, <1>5

LEMMA SlotsAre ==
    ASSUME NEW rw \in Row, NEW next \in Row
    PROVE  /\ Len(rw.journal) \in Nat /\ Len(rw.receipts) \in Nat /\ Slots(rw) \in Nat
           /\ Len(rw.journal) =< Len(next.journal) /\ Len(rw.receipts) =< Len(next.receipts)
                  => Slots(rw) =< Slots(next)
           /\ Len(next.journal) = Len(rw.journal) + 1 /\ Len(next.receipts) = Len(rw.receipts)
                  => Slots(next) = Slots(rw) + 1
           /\ Len(next.journal) = Len(rw.journal) /\ Len(next.receipts) = Len(rw.receipts) + 1
                  => Slots(next) = Slots(rw) + 1
<1>. DEFINE a == Len(rw.journal)
            b == Len(rw.receipts)
            c == Len(next.journal)
            d == Len(next.receipts)
<1>1. a \in Nat /\ b \in Nat /\ c \in Nat /\ d \in Nat
  BY LenProperties DEF Row
<1>2. Slots(rw) = a + b /\ Slots(next) = c + d
  BY DEF Slots
<1>3. /\ a \in Nat /\ b \in Nat /\ Slots(rw) \in Nat
      /\ a =< c /\ b =< d => Slots(rw) =< Slots(next)
      /\ c = a + 1 /\ d = b => Slots(next) = Slots(rw) + 1
      /\ c = a /\ d = b + 1 => Slots(next) = Slots(rw) + 1
  <2>. HIDE DEF a, b, c, d
  <2>. QED
    BY <1>1, <1>2
<1>. QED
  BY <1>3

\* One more position and one more entry or receipt.
LEMMA RoomAdded ==
    ASSUME NEW rw \in Row, PositionsSound(rw), RoomSound(rw), rw.reads.adopted, NEW next \in Row, NEW position,
           next.reads.positions = rw.reads.positions \cup {position},
           Recorded(next, position.witness), Registered(rw) \subseteq Registered(next),
           Revision(rw) =< Revision(next),
           Slots(next) = Slots(rw) + 1
    PROVE  RoomSound(next)
<1>1. \A p \in rw.reads.positions : Recorded(next, p.witness)
  BY OrganizerTyped DEF RoomSound, Recorded
<1>2. IsFiniteSet(rw.reads.positions)
  BY DEF PositionsSound
<1>. DEFINE old == rw.reads.positions
<1>3. /\ Cardinality(old) \in Nat
      /\ Cardinality(old \cup {position}) =
             IF position \in old THEN Cardinality(old) ELSE Cardinality(old) + 1
  <2>. HIDE DEF old
  <2>. QED
    BY <1>2, FS_AddElement, FS_CardinalityType DEF old
<1>4. Cardinality(next.reads.positions) =< Cardinality(old) + 1
  BY <1>3
<1>5. Cardinality(next.reads.positions) \in Nat /\ Slots(rw) \in Nat
  BY <1>3, SlotsAre
<1>6. Cardinality(next.reads.positions) =< Slots(next)
  BY <1>3, <1>4, <1>5 DEF RoomSound
<1>. QED
  BY <1>1, <1>6 DEF RoomSound

LEMMA RoomKept ==
    ASSUME NEW rw \in Row, PositionsSound(rw), RoomSound(rw), NEW next \in Row, next.reads = rw.reads,
           Registered(rw) \subseteq Registered(next), Revision(rw) =< Revision(next),
           Len(rw.journal) =< Len(next.journal), Len(rw.receipts) =< Len(next.receipts)
    PROVE  RoomSound(next)
<1>. SUFFICES ASSUME rw.reads.adopted PROVE RoomSound(next)
  BY DEF RoomSound
<1>1. \A p \in rw.reads.positions : Recorded(next, p.witness)
  BY OrganizerTyped DEF RoomSound, Recorded
<1>2. Slots(rw) \in Nat /\ Slots(next) \in Nat /\ Slots(rw) =< Slots(next)
  BY SlotsAre
<1>3. Cardinality(rw.reads.positions) \in Nat
  BY FS_CardinalityType DEF PositionsSound
<1>4. Cardinality(next.reads.positions) =< Slots(next)
  BY <1>2, <1>3 DEF RoomSound
<1>. QED
  BY <1>1, <1>4 DEF RoomSound

LEMMA RoomStays ==
    ASSUME NEW rw, Sound(rw), NEW op \in Operation, Decision(rw, op),
           NEW next \in Committed(rw, op)
    PROVE  RoomSound(next)
<1>0. rw \in Row /\ EntrySound(op) /\ PositionsSound(rw) /\ RoomSound(rw)
  BY DecisionIs DEF Sound
<1>1. /\ next \in Row /\ next.journal = Logged(rw, op).journal
      /\ next.receipts = rw.receipts /\ next.chat = rw.chat
      /\ next.reads.adopted = rw.reads.adopted
      /\ IF op.outcome = "REGISTERED" /\ rw.reads.adopted
         THEN /\ Participant(op) \in Authority
              /\ CanEnrol(rw, Participant(op))
              /\ next.reads.positions = rw.reads.positions
                     \cup {NewPosition(Participant(op), rw.chat.published)}
         ELSE next.reads = rw.reads
  BY <1>0, CommittedIs
<1>2. /\ Entries(next) = Entries(rw) \cup {op} /\ Len(next.journal) = Len(rw.journal) + 1
      /\ Len(rw.journal) \in Nat /\ Len(rw.receipts) \in Nat
  BY <1>0, <1>1, LoggedIs, SameJournal, SlotsAre
<1>3. Registered(rw) \subseteq Registered(next) /\ (op.outcome = "REGISTERED" => op \in Registered(next))
  BY <1>2 DEF Registered
<1>4. Revision(next) = Revision(rw) /\ Revision(rw) \in Nat
  BY <1>0, <1>1, OrganizerTyped DEF Revision
<1>5. CASE op.outcome = "REGISTERED" /\ rw.reads.adopted
  <2>. DEFINE position == NewPosition(Participant(op), rw.chat.published)
  <2>1. Recorded(next, position.witness)
    BY <1>3, <1>5 DEF Recorded, NewPosition
  <2>2. next.reads.positions = rw.reads.positions \cup {position}
    BY <1>1, <1>5
  <2>3. Slots(next) = Slots(rw) + 1
    BY <1>0, <1>1, <1>2, SlotsAre
  <2>4. Revision(rw) =< Revision(next)
    BY <1>4
  <2>. HIDE DEF position
  <2>. QED
    BY <1>0, <1>1, <1>3, <1>5, <2>1, <2>2, <2>3, <2>4, RoomAdded
<1>6. CASE ~(op.outcome = "REGISTERED" /\ rw.reads.adopted)
  <2>1. /\ next.reads = rw.reads /\ Revision(rw) =< Revision(next)
        /\ Len(rw.journal) =< Len(next.journal) /\ Len(rw.receipts) =< Len(next.receipts)
    BY <1>1, <1>2, <1>4, <1>6
  <2>. QED
    BY <1>0, <1>1, <1>3, <2>1, RoomKept
<1>. QED
  BY <1>5, <1>6

LEMMA JournalStepSound ==
    ASSUME NEW rw, Sound(rw), NEW next, JournalStep(rw, next)
    PROVE  Sound(next)
<1>1. PICK op \in Operation : Decision(rw, op) /\ next \in Committed(rw, op)
  BY DEF JournalStep
<1>2. rw \in Row /\ EntrySound(op)
  BY <1>1, DecisionIs DEF Sound
<1>3. next \in Row /\ next.journal = Logged(rw, op).journal /\ next.receipts = rw.receipts
  BY <1>1, <1>2, CommittedIs
<1>4. JournalSound(next)
  BY <1>1, <1>3, JournalStays, SameJournal
<1>5. OrganizerSound(next)
  BY <1>3 DEF Sound, OrganizerSound, Selected
<1>. QED
  BY <1>1, <1>3, <1>4, <1>5, SeatsStay, PositionsStay, RoomStays DEF Sound

-----------------------------------------------------------------------------
(* The organizer.                                                          *)

LEMMA ReceiptTyped ==
    ASSUME NEW rw \in Row, NEW command \in CommandShapes
    PROVE  OrganizerReceipt(rw, command) \in Receipt
<1>1. Revision(rw) \in Nat /\ Selected(rw) \in Actors \cup {None}
  BY OrganizerTyped
<1>2. command \in Assignment
  BY DEF CommandShapes
<1>. QED
  BY <1>1, <1>2 DEF OrganizerReceipt, Receipt, Assignment

\* The row with one more receipt.
LEMMA ReceiptAdded ==
    ASSUME NEW rw \in Row, NEW receipt \in Receipt
    PROVE  LET next == [rw EXCEPT !.receipts = Append(@, receipt)]
               size == Len(rw.receipts) IN
           /\ next \in Row /\ size \in Nat /\ DOMAIN rw.receipts = 1..size
           /\ Len(next.receipts) = size + 1 /\ DOMAIN next.receipts = 1..size + 1
           /\ \A i \in 1..size : next.receipts[i] = rw.receipts[i]
           /\ next.receipts[size + 1] = receipt
           /\ Revision(next) = receipt.revision /\ Selected(next) = receipt.selected
           /\ next.journal = rw.journal /\ next.roster = rw.roster
           /\ next.chat = rw.chat /\ next.reads = rw.reads
           /\ next.status = rw.status /\ next.waitlist = rw.waitlist
           /\ next.stamp = rw.stamp
<1>1. /\ rw.receipts \in Seq(Receipt) /\ Len(rw.receipts) \in Nat
      /\ DOMAIN rw.receipts = 1..Len(rw.receipts)
  BY LenProperties DEF Row
<1>. DEFINE more == Append(rw.receipts, receipt)
            next == [rw EXCEPT !.receipts = more]
<1>2. /\ more \in Seq(Receipt) /\ Len(more) = Len(rw.receipts) + 1
      /\ \A i \in 1..Len(rw.receipts) : more[i] = rw.receipts[i]
      /\ more[Len(rw.receipts) + 1] = receipt
      /\ DOMAIN more = 1..Len(rw.receipts) + 1
      /\ more # <<>>
  BY <1>1, AppendProperties, LenProperties
<1>. HIDE DEF more
<1>3. /\ next \in Row /\ next.receipts = more
      /\ next.journal = rw.journal /\ next.roster = rw.roster
      /\ next.chat = rw.chat /\ next.reads = rw.reads
      /\ next.status = rw.status /\ next.waitlist = rw.waitlist
      /\ next.stamp = rw.stamp
  BY <1>2 DEF Row
<1>4. Revision(next) = receipt.revision /\ Selected(next) = receipt.selected
  BY <1>2, <1>3 DEF Revision, Selected, Last
<1>. QED
  BY <1>1, <1>2, <1>3, <1>4 DEF more

\* The row an assignment leaves.
LEMMA AssignedIs ==
    ASSUME NEW rw \in Row, NEW receipt \in Receipt, NEW next \in Assigned(rw, receipt),
           receipt.outcome = "ASSIGNED" => receipt.selected \in Actors
    PROVE  LET added == [rw EXCEPT !.receipts = Append(@, receipt)]
               w == Organizer(receipt.selected, receipt.revision) IN
           /\ next \in Row /\ next.receipts = added.receipts
           /\ next.journal = rw.journal /\ next.roster = rw.roster /\ next.chat = rw.chat
           /\ next.status = rw.status /\ next.waitlist = rw.waitlist
           /\ next.stamp = rw.stamp /\ next.reads.adopted = rw.reads.adopted
           /\ IF receipt.outcome = "ASSIGNED" /\ rw.reads.adopted
              THEN /\ w \in Authority /\ CanEnrol(rw, w)
                   /\ next.reads.positions = rw.reads.positions
                          \cup {NewPosition(w, rw.chat.published)}
              ELSE next.reads = rw.reads
<1>. DEFINE added == [rw EXCEPT !.receipts = Append(@, receipt)]
            w == Organizer(receipt.selected, receipt.revision)
<1>1. /\ added \in Row
      /\ added.journal = rw.journal /\ added.roster = rw.roster
      /\ added.chat = rw.chat /\ added.reads = rw.reads
      /\ added.status = rw.status /\ added.waitlist = rw.waitlist
      /\ added.stamp = rw.stamp
  BY ReceiptAdded
<1>2. CASE receipt.outcome # "ASSIGNED"
  <2>1. next = added
    BY <1>2 DEF Assigned
  <2>. HIDE DEF added
  <2>2. next.reads = rw.reads /\ next.reads.adopted = rw.reads.adopted
    BY <1>1, <2>1
  <2>. QED
    BY <1>1, <1>2, <2>1, <2>2 DEF added
<1>3. CASE receipt.outcome = "ASSIGNED"
  <2>1. CanEnrol(rw, w) /\ next = Enrol(added, w)
    BY <1>3 DEF Assigned
  <2>2. w \in Authority
    BY <1>3 DEF Organizer, Authority, Receipt
  <2>. HIDE DEF added, w
  <2>3. CASE rw.reads.adopted
    <3>. DEFINE position == NewPosition(w, rw.chat.published)
    <3>1. position \in Position
      BY <2>2 DEF NewPosition, Position, Row, Frontier
    <3>2. next = [added EXCEPT !.reads.positions = @ \cup {position}]
      BY <1>1, <2>1, <2>3 DEF Enrol
    <3>. HIDE DEF position
    <3>3. /\ next \in Row /\ next.reads.positions = rw.reads.positions \cup {position}
          /\ next.reads.adopted = rw.reads.adopted /\ next.receipts = added.receipts
          /\ next.journal = rw.journal /\ next.roster = rw.roster
          /\ next.chat = rw.chat /\ next.status = rw.status
          /\ next.waitlist = rw.waitlist /\ next.stamp = rw.stamp
      BY <1>1, <3>1, <3>2 DEF Row, Reads
    <3>. QED
      BY <1>3, <2>1, <2>2, <2>3, <3>3 DEF added, w, position
  <2>4. CASE ~rw.reads.adopted
    <3>1. next = added
      BY <1>1, <2>1, <2>4 DEF Enrol
    <3>. QED
      BY <1>1, <2>4, <3>1 DEF added
  <2>. QED
    BY <2>3, <2>4
<1>. QED
  BY <1>2, <1>3

LEMMA OrganizerStepSound ==
    ASSUME NEW rw, Sound(rw), NEW next, OrganizerStep(rw, next)
    PROVE  Sound(next)
<1>. DEFINE size == Len(rw.receipts)
<1>1. PICK command \in CommandShapes :
          /\ ReceiptsOf(rw, command.id) = {}
          /\ OrganizerFits(rw, OrganizerReceipt(rw, command))
          /\ next \in Assigned(rw, OrganizerReceipt(rw, command))
  BY DEF OrganizerStep
<1>. DEFINE receipt == OrganizerReceipt(rw, command)
<1>2. /\ rw \in Row /\ receipt \in Receipt /\ command \in Assignment
      /\ command.action = "ASSIGN" <=> command.selected # None
  BY ReceiptTyped DEF Sound, CommandShapes
<1>3. /\ receipt.command = command
      /\ IF command.expected # Revision(rw)
         THEN /\ receipt.outcome = "REJECTED" /\ receipt.revision = Revision(rw)
              /\ receipt.selected = Selected(rw)
         ELSE /\ receipt.outcome = IF command.action = "ASSIGN" THEN "ASSIGNED" ELSE "REVOKED"
              /\ receipt.revision = Revision(rw) + 1
              /\ receipt.selected = command.selected
  BY DEF OrganizerReceipt
<1>. HIDE DEF receipt
<1>4. receipt.outcome = "ASSIGNED" => receipt.selected \in Actors
  BY <1>2, <1>3 DEF Assignment
<1>. DEFINE added == [rw EXCEPT !.receipts = Append(@, receipt)]
            w == Organizer(receipt.selected, receipt.revision)
<1>5. /\ added \in Row /\ size \in Nat /\ DOMAIN rw.receipts = 1..size
      /\ Len(added.receipts) = size + 1 /\ DOMAIN added.receipts = 1..size + 1
      /\ \A i \in 1..size : added.receipts[i] = rw.receipts[i]
      /\ added.receipts[size + 1] = receipt
      /\ Revision(added) = receipt.revision /\ Selected(added) = receipt.selected
  BY <1>2, ReceiptAdded
<1>6. /\ next \in Row /\ next.receipts = added.receipts
      /\ next.journal = rw.journal /\ next.roster = rw.roster /\ next.chat = rw.chat
      /\ next.reads.adopted = rw.reads.adopted
      /\ IF receipt.outcome = "ASSIGNED" /\ rw.reads.adopted
         THEN /\ w \in Authority /\ CanEnrol(rw, w)
              /\ next.reads.positions = rw.reads.positions
                     \cup {NewPosition(w, rw.chat.published)}
         ELSE next.reads = rw.reads
  BY <1>1, <1>2, <1>4, AssignedIs DEF receipt
<1>7. Revision(next) = receipt.revision /\ Selected(next) = receipt.selected
  BY <1>5, <1>6 DEF Revision, Selected
<1>. HIDE DEF added
<1>8. /\ Active(next) = Active(rw) /\ Registered(next) = Registered(rw)
      /\ JournalSound(next)
  BY <1>6, SameJournal DEF Sound
<1>9. SeatsSound(next)
  BY <1>6, <1>8 DEF Sound, SeatsSound
<1>10. OrganizerSound(next)
  <2>1. ASSUME NEW i \in 1..size + 1, NEW j \in 1..size + 1,
               added.receipts[i].command.id = added.receipts[j].command.id
        PROVE  i = j
    <3>0. (i \in 1..size \/ i = size + 1) /\ (j \in 1..size \/ j = size + 1)
      BY <1>5
    <3>1. \A k \in 1..size : rw.receipts[k].command.id # command.id
      BY <1>1, <1>5 DEF ReceiptsOf, ToSet
    <3>2. CASE i \in 1..size /\ j \in 1..size
      <4>1. rw.receipts[i].command.id = rw.receipts[j].command.id
        BY <1>5, <2>1, <3>2
      <4>. QED
        BY <1>5, <3>2, <4>1 DEF Sound, OrganizerSound
    <3>3. CASE i \in 1..size /\ j = size + 1
      BY <1>3, <1>5, <2>1, <3>1, <3>3
    <3>4. CASE i = size + 1 /\ j \in 1..size
      BY <1>3, <1>5, <2>1, <3>1, <3>4
    <3>. QED
      BY <3>0, <3>2, <3>3, <3>4
  <2>2. Chained(added.receipts)
    <3>. DEFINE before(s, i) == IF i = 1 THEN 0 ELSE s[i - 1].revision
                organizer(s, i) == IF i = 1 THEN None ELSE s[i - 1].selected
                link(r, b, o) == IF r.outcome = "REJECTED"
                                 THEN /\ r.command.expected # b
                                      /\ r.revision = b /\ r.selected = o
                                 ELSE /\ r.command.expected = b
                                      /\ r.revision = b + 1 /\ r.selected = r.command.selected
    <3>1. \A i \in 1..size : link(rw.receipts[i], before(rw.receipts, i), organizer(rw.receipts, i))
      BY <1>5 DEF Sound, OrganizerSound, Chained
    <3>2. ASSUME NEW i \in 1..size + 1
          PROVE  link(added.receipts[i], before(added.receipts, i), organizer(added.receipts, i))
      <4>1. i # 1 => i - 1 \in 1..size
        BY <1>5
      <4>2. CASE i \in 1..size
        <5>1. /\ before(added.receipts, i) = before(rw.receipts, i)
              /\ organizer(added.receipts, i) = organizer(rw.receipts, i)
              /\ added.receipts[i] = rw.receipts[i]
          BY <1>5, <4>1, <4>2
        <5>. HIDE DEF before, organizer, link
        <5>. QED
          BY <3>1, <4>2, <5>1
      <4>3. CASE i = size + 1
        <5>1. before(added.receipts, i) = Revision(rw) /\ organizer(added.receipts, i) = Selected(rw)
          <6>1. CASE size = 0
            <7>1. rw.receipts = <<>>
              BY <1>2, <6>1, EmptySeq, LenProperties DEF Row
            <7>. QED
              BY <4>3, <6>1, <7>1 DEF Revision, Selected
          <6>2. CASE size # 0
            <7>1. rw.receipts # <<>> /\ i # 1 /\ i - 1 = size /\ size \in 1..size
              BY <1>2, <1>5, <4>3, <6>2, EmptySeq, LenProperties DEF Row
            <7>. QED
              BY <1>5, <7>1 DEF Revision, Selected, Last
          <6>. QED
            BY <6>1, <6>2
        <5>2. added.receipts[i] = receipt
          BY <1>5, <4>3
        <5>3. link(receipt, Revision(rw), Selected(rw))
          BY <1>3
        <5>. HIDE DEF before, organizer, link
        <5>. QED
          BY <5>1, <5>2, <5>3
      <4>. QED
        BY <1>5, <4>2, <4>3
    <3>. QED
      BY <1>5, <3>2 DEF Chained
  <2>3. Len(added.receipts) + (IF Selected(next) = None THEN 0 ELSE 1) =< OrganizerLimit
    BY <1>1, <1>5, <1>7 DEF OrganizerFits, receipt
  <2>. QED
    BY <1>5, <1>6, <2>1, <2>2, <2>3 DEF OrganizerSound
<1>11. PositionsSound(next)
  <2>1. PositionsSound(rw)
    BY DEF Sound
  <2>2. CASE receipt.outcome = "ASSIGNED"
    <3>1. Authorities(next) \subseteq Authorities(rw) \cup {w}
      BY <1>7, <1>8 DEF Authorities
    <3>2. CASE rw.reads.adopted
      BY <1>2, <1>6, <2>1, <2>2, <3>1, <3>2, PositionAdded
    <3>3. CASE ~rw.reads.adopted
      BY <1>6, <3>3 DEF PositionsSound
    <3>. QED
      BY <3>2, <3>3
  <2>3. CASE receipt.outcome # "ASSIGNED"
    <3>1. \/ Selected(next) = None
          \/ Selected(next) = Selected(rw) /\ Revision(next) = Revision(rw)
      BY <1>2, <1>3, <1>7, <2>3
    <3>2. Authorities(next) \subseteq Authorities(rw)
      BY <1>8, <3>1 DEF Authorities
    <3>. QED
      BY <1>6, <2>1, <2>3, <3>2, PositionsKept
  <2>. QED
    BY <2>2, <2>3
<1>12. RoomSound(next)
  <2>0. PositionsSound(rw) /\ RoomSound(rw) /\ Revision(rw) \in Nat
    BY <1>2, OrganizerTyped DEF Sound
  <2>1. /\ Revision(rw) =< Revision(next) /\ Revision(next) \in Nat
        /\ Len(next.receipts) = Len(rw.receipts) + 1 /\ Len(rw.receipts) \in Nat
        /\ Len(rw.journal) \in Nat /\ Len(next.journal) = Len(rw.journal)
    BY <1>2, <1>3, <1>5, <1>6, <1>7, <2>0, EntriesTyped
  <2>2. CASE receipt.outcome = "ASSIGNED" /\ rw.reads.adopted
    <3>. DEFINE position == NewPosition(w, rw.chat.published)
    <3>1. Recorded(next, position.witness)
      BY <1>7, <2>1 DEF Recorded, NewPosition, Organizer
    <3>2. /\ next.reads.positions = rw.reads.positions \cup {position}
          /\ Slots(next) = Slots(rw) + 1
      BY <1>2, <1>6, <2>1, <2>2, SlotsAre
    <3>. HIDE DEF position
    <3>. QED
      BY <1>2, <1>6, <1>8, <2>0, <2>1, <2>2, <3>1, <3>2, RoomAdded
  <2>3. CASE ~(receipt.outcome = "ASSIGNED" /\ rw.reads.adopted)
    <3>1. /\ next.reads = rw.reads
          /\ Len(rw.journal) =< Len(next.journal) /\ Len(rw.receipts) =< Len(next.receipts)
      BY <1>6, <2>1, <2>3
    <3>. QED
      BY <1>2, <1>6, <1>8, <2>0, <2>1, <3>1, RoomKept
  <2>. QED
    BY <2>2, <2>3
<1>. QED
  BY <1>6, <1>8, <1>9, <1>10, <1>11, <1>12 DEF Sound

-----------------------------------------------------------------------------
(* Staff, legacy writers, and the chat.                                    *)

LEMMA NoJournal ==
    ASSUME NEW rw, rw.journal = <<>>
    PROVE  Entries(rw) = {} /\ Active(rw) = {} /\ Registered(rw) = {}
<1>1. Entries(rw) = {}
  BY DEF Entries, ToSet
<1>. QED
  BY <1>1 DEF Active, Registered

LEMMA StaffStepSound ==
    ASSUME NEW rw, Sound(rw), NEW next, StaffStep(rw, next)
    PROVE  Sound(next)
<1>1. /\ next \in Row /\ next.journal = <<>> /\ next.journal = rw.journal
      /\ next.receipts = rw.receipts /\ next.chat = rw.chat /\ next.reads = rw.reads
      /\ Loose(next.roster)
  BY DEF StaffStep
<1>2. Active(next) = {} /\ Registered(next) = {}
  BY <1>1, NoJournal
<1>3. Active(next) = Active(rw) /\ JournalSound(next)
  BY <1>1, SameJournal DEF Sound
<1>4. SeatsSound(next)
  BY <1>1, <1>2 DEF SeatsSound, Loose
<1>5. Selected(next) = Selected(rw) /\ Revision(next) = Revision(rw)
  BY <1>1 DEF Selected, Revision
<1>6. OrganizerSound(next)
  BY <1>1, <1>5 DEF Sound, OrganizerSound
<1>7. PositionsSound(next)
  BY <1>1, <1>3, <1>5 DEF Sound, PositionsSound, Authorities
<1>8. RoomSound(next)
  BY <1>1, <1>2, <1>5, NoJournal DEF Sound, RoomSound, Recorded, Slots
<1>. QED
  BY <1>1, <1>3, <1>4, <1>6, <1>7, <1>8 DEF Sound

LEMMA AuthoritiesTyped ==
    ASSUME NEW rw, Sound(rw)
    PROVE  /\ Authorities(rw) \subseteq Authority /\ IsFiniteSet(Authorities(rw))
           /\ Cardinality(Authorities(rw)) =< PositionLimit
           /\ Cardinality(Authorities(rw)) =< Slots(rw)
<1>. DEFINE members == {Participant(o) : o \in Active(rw)}
<1>1. rw \in Row /\ IsFiniteSet(Active(rw)) /\ Cardinality(Active(rw)) \in Nat
      /\ Len(rw.journal) \in Nat /\ Active(rw) \subseteq Operation
  BY EntriesTyped DEF Sound
<1>2. members \subseteq Authority
  <2>1. ASSUME NEW o \in Active(rw) PROVE Participant(o) \in Authority
    <3>1. o.gen = o.key /\ o.key \in Keys /\ o.actor \in Actors
      BY <1>1 DEF Active, Sound, JournalSound, EntrySound, OwnKey, Operation
    <3>. QED
      BY <3>1 DEF Participant, Authority
  <2>. QED
    BY <2>1
<1>3. IsFiniteSet(members) /\ Cardinality(members) =< Cardinality(Active(rw))
  <2>. DEFINE f == [o \in Active(rw) |-> Participant(o)]
  <2>1. f \in Surjection(Active(rw), members)
    BY DEF Surjection
  <2>. HIDE DEF f, members
  <2>. QED
    BY <1>1, <2>1, FS_Surjection
<1>4. Cardinality(Active(rw)) =< JournalLimit
  BY <1>1, LimitsAssumption DEF Sound, JournalSound
<1>. HIDE DEF members
<1>7. Cardinality(Active(rw)) =< Len(rw.journal) /\ Len(rw.receipts) \in Nat
  <2>1. Cardinality(Entries(rw)) =< Len(rw.journal) /\ IsFiniteSet(Entries(rw))
    <3>. DEFINE f == [i \in 1..Len(rw.journal) |-> rw.journal[i]]
    <3>1. f \in Surjection(1..Len(rw.journal), Entries(rw))
      BY <1>1, EntriesTyped DEF Surjection, Entries, ToSet
    <3>2. IsFiniteSet(1..Len(rw.journal)) /\ Cardinality(1..Len(rw.journal)) = Len(rw.journal)
      <4>. DEFINE n == Len(rw.journal)
      <4>1. n \in Nat
        BY <1>1
      <4>. HIDE DEF n
      <4>2. IsFiniteSet(1..n) /\ Cardinality(1..n) = n
        BY <4>1, FS_Interval
      <4>. QED
        BY <4>2 DEF n
    <3>. HIDE DEF f
    <3>. QED
      BY <3>1, <3>2, FS_Surjection
  <2>2. Cardinality(Active(rw)) =< Cardinality(Entries(rw)) /\ Cardinality(Entries(rw)) \in Nat
    BY <1>1, <2>1, EntriesTyped, FS_Subset, FS_CardinalityType
  <2>3. Len(rw.receipts) \in Nat
    BY <1>1, LenProperties DEF Row
  <2>. QED
    BY <1>1, <2>1, <2>2, <2>3
<1>8. /\ Slots(rw) \in Nat /\ Cardinality(Active(rw)) =< Slots(rw)
      /\ Len(rw.receipts) >= 1 => Cardinality(Active(rw)) + 1 =< Slots(rw)
  <2>. DEFINE a == Len(rw.journal)
              b == Len(rw.receipts)
              c == Cardinality(Active(rw))
  <2>1. a \in Nat /\ b \in Nat /\ c \in Nat /\ c =< a /\ Slots(rw) = a + b
    BY <1>1, <1>7 DEF Slots
  <2>. HIDE DEF a, b, c
  <2>2. /\ Slots(rw) \in Nat /\ c =< Slots(rw)
        /\ b >= 1 => c + 1 =< Slots(rw)
    BY <2>1
  <2>. QED
    BY <2>2 DEF b, c
<1>5. CASE Selected(rw) = None
  <2>1. Authorities(rw) = members
    BY <1>5 DEF Authorities, members
  <2>2. Cardinality(members) \in Nat
    BY <1>3, FS_CardinalityType
  <2>. QED
    BY <1>1, <1>2, <1>3, <1>4, <1>8, <2>1, <2>2, LimitsAssumption
<1>6. CASE Selected(rw) # None
  <2>. DEFINE w == Organizer(Selected(rw), Revision(rw))
  <2>1. Authorities(rw) = members \cup {w}
    BY <1>6 DEF Authorities, members
  <2>2. w \in Authority
    BY <1>1, <1>6, OrganizerTyped DEF Organizer, Authority
  <2>3. OrganizerLimit >= 1 /\ Len(rw.receipts) >= 1
    <3>1. rw.receipts \in Seq(Receipt) /\ Len(rw.receipts) \in Nat
      BY <1>1, LenProperties DEF Row
    <3>2. Len(rw.receipts) + 1 =< OrganizerLimit
      BY <1>6 DEF Sound, OrganizerSound
    <3>3. Len(rw.receipts) # 0
      BY <1>1, <1>6, EmptySeq, LenProperties DEF Row, Selected
    <3>. QED
      BY <3>1, <3>2, <3>3, LimitsAssumption
  <2>. HIDE DEF w
  <2>4. /\ IsFiniteSet(members \cup {w})
        /\ Cardinality(members \cup {w}) =
               IF w \in members THEN Cardinality(members) ELSE Cardinality(members) + 1
    BY <1>3, FS_AddElement
  <2>5. Cardinality(members) \in Nat
    BY <1>3, FS_CardinalityType
  <2>6. Cardinality(members \cup {w}) =< Cardinality(members) + 1
    BY <2>4, <2>5
  <2>7. Cardinality(members \cup {w}) \in Nat
    BY <2>4, FS_CardinalityType
  <2>8. /\ Cardinality(members \cup {w}) =< PositionLimit
        /\ Cardinality(members \cup {w}) =< Slots(rw)
    BY <1>1, <1>3, <1>4, <1>8, <2>3, <2>5, <2>6, <2>7, LimitsAssumption
  <2>. QED
    BY <1>2, <2>1, <2>2, <2>4, <2>8
<1>. QED
  BY <1>5, <1>6

LEMMA ChatStepSound ==
    ASSUME NEW rw, Sound(rw), NEW next, ChatStep(rw, next)
    PROVE  Sound(next)
<1>. DEFINE front == rw.chat.published
<1>1. rw \in Row /\ rw.chat \in Frontier /\ rw.reads \in Reads
      /\ front \in Nat
  BY DEF Sound, Row, Frontier
<1>2. ASSUME next \in Row, next.journal = rw.journal, next.receipts = rw.receipts,
             next.roster = rw.roster, PositionsSound(next), RoomSound(next)
      PROVE  Sound(next)
  <2>1. Active(next) = Active(rw) /\ Registered(next) = Registered(rw) /\ JournalSound(next)
    BY <1>2, SameJournal DEF Sound
  <2>2. SeatsSound(next)
    BY <1>2, <2>1 DEF Sound, SeatsSound
  <2>3. OrganizerSound(next)
    BY <1>2 DEF Sound, OrganizerSound, Selected
  <2>. QED
    BY <1>2, <2>1, <2>2, <2>3 DEF Sound
<1>3. CASE next = Adopted(rw)
  <2>. DEFINE W == Authorities(rw)
              start(w) == NewPosition(w, front)
  <2>1. /\ W \subseteq Authority /\ IsFiniteSet(W) /\ Cardinality(W) =< PositionLimit
    BY AuthoritiesTyped
  <2>2. AdoptedPositions(rw) = {start(w) : w \in W}
    BY DEF AdoptedPositions, Authorities
  <2>3. \A w : /\ start(w).witness = w /\ start(w).baseline = front
               /\ start(w).through = front
    BY DEF NewPosition
  <2>4. \A w \in Authority : start(w) \in Position
    BY <1>1 DEF NewPosition, Position
  <2>5. IsFiniteSet(AdoptedPositions(rw)) /\ Cardinality(AdoptedPositions(rw)) =< Cardinality(W)
    <3>. DEFINE f == [w \in W |-> start(w)]
    <3>1. f \in Surjection(W, AdoptedPositions(rw))
      BY <2>2 DEF Surjection
    <3>. HIDE DEF f, W, start
    <3>. QED
      BY <2>1, <3>1, FS_Surjection
  <2>. HIDE DEF W, start
  <2>6. /\ next \in Row /\ next.journal = rw.journal /\ next.receipts = rw.receipts
        /\ next.roster = rw.roster /\ next.reads.positions = AdoptedPositions(rw)
        /\ next.chat.published = front
    <3>1. AdoptedPositions(rw) \subseteq Position
      BY <2>1, <2>2, <2>4
    <3>. QED
      BY <1>1, <1>3, <3>1 DEF Adopted, NoReads, Row, Reads, Frontier
  <2>7. Authorities(next) = W
    BY <2>6, SameJournal DEF Authorities, Selected, Revision, W
  <2>8. Cardinality(AdoptedPositions(rw)) =< PositionLimit
    <3>1. Cardinality(AdoptedPositions(rw)) \in Nat /\ Cardinality(W) \in Nat
      BY <2>1, <2>5, FS_CardinalityType
    <3>. QED
      BY <2>1, <2>5, <3>1, LimitsAssumption
  <2>9. PositionsSound(next)
    BY <1>1, <2>2, <2>3, <2>5, <2>6, <2>7, <2>8 DEF PositionsSound
  <2>10. RoomSound(next)
    <3>1. Revision(next) = Revision(rw) /\ Revision(rw) \in Nat /\ Registered(next) = Registered(rw)
      BY <1>1, <2>6, OrganizerTyped, SameJournal DEF Revision
    <3>2. Active(rw) \subseteq Registered(rw)
      BY DEF Active, Registered
    <3>3. ASSUME NEW v \in W PROVE Recorded(next, v)
      BY <3>1, <3>2 DEF W, Authorities, Recorded, Organizer
    <3>4. Cardinality(AdoptedPositions(rw)) =< Slots(rw)
      <4>1. Cardinality(W) =< Slots(rw)
        BY AuthoritiesTyped DEF W
      <4>2. /\ Cardinality(AdoptedPositions(rw)) \in Nat /\ Cardinality(W) \in Nat
            /\ Slots(rw) \in Nat
        BY <1>1, <2>1, <2>5, FS_CardinalityType, SlotsAre
      <4>. QED
        BY <2>5, <4>1, <4>2
    <3>. QED
      <4>1. Slots(next) = Slots(rw)
        BY <2>6 DEF Slots
      <4>2. Cardinality(next.reads.positions) =< Slots(next)
        BY <2>6, <3>4, <4>1
      <4>3. \A p \in next.reads.positions : Recorded(next, p.witness)
        BY <2>2, <2>3, <2>6, <3>3
      <4>. QED
        BY <4>2, <4>3 DEF RoomSound
  <2>. QED
    BY <1>2, <2>6, <2>9, <2>10
<1>4. CASE next = [rw EXCEPT !.chat.allocated = @ + 1, !.chat.published = @ + 1]
  <2>1. /\ next \in Row /\ next.journal = rw.journal /\ next.receipts = rw.receipts
        /\ next.roster = rw.roster /\ next.reads = rw.reads
        /\ next.chat.published = front + 1
    <3>. DEFINE chat == [rw.chat EXCEPT !.allocated = @ + 1, !.published = @ + 1]
    <3>1. chat \in Frontier /\ chat.published = front + 1
      <4>1. rw.chat.allocated + 1 \in Nat /\ rw.chat.published + 1 \in Nat
        BY <1>1 DEF Frontier
      <4>2. chat = [rw.chat EXCEPT !.allocated = rw.chat.allocated + 1,
                                   !.published = rw.chat.published + 1]
        BY <1>1 DEF Frontier
      <4>. HIDE DEF chat
      <4>. QED
        BY <1>1, <4>1, <4>2 DEF Frontier
    <3>2. next = [rw EXCEPT !.chat = chat]
      BY <1>1, <1>4 DEF Row, Frontier
    <3>. HIDE DEF chat
    <3>. QED
      BY <1>1, <3>1, <3>2 DEF Row
  <2>2. Authorities(next) = Authorities(rw)
    BY <2>1, SameJournal DEF Authorities, Selected, Revision
  <2>3. rw.reads.adopted => \A p \in rw.reads.positions : p.through =< front + 1
    <3>1. \A p \in rw.reads.positions : p.through \in Nat
      BY <1>1 DEF Reads, Position
    <3>. QED
      BY <1>1, <3>1 DEF Sound, PositionsSound
  <2>4. PositionsSound(next)
    BY <2>1, <2>2, <2>3 DEF Sound, PositionsSound
  <2>5. RoomSound(next)
    BY <2>1, SameJournal DEF Sound, RoomSound, Recorded, Revision, Slots
  <2>. QED
    BY <1>2, <2>1, <2>4, <2>5
<1>. QED
  BY <1>3, <1>4 DEF ChatStep

\* No owner destroys what the others rely on.
LEMMA OwnersAgree ==
    ASSUME NEW rw, Sound(rw), NEW next, OwnerStep(rw, next)
    PROVE  Sound(next)
BY JournalStepSound, OrganizerStepSound, StaffStepSound, ChatStepSound DEF OwnerStep

LEMMA NewRowSound == Sound(NewRow)
<1>1. NewRow.journal = <<>> /\ NewRow.receipts = <<>> /\ NewRow.reads = NoReads
      /\ NewRow.roster = {StaffSeat(p) : p \in Guests}
  BY DEF NewRow
<1>2. Entries(NewRow) = {} /\ Active(NewRow) = {} /\ Registered(NewRow) = {}
  BY <1>1, NoJournal
<1>3. /\ {StaffSeat(p) : p \in Guests} \subseteq Seat
      /\ \A p : StaffSeat(p).by = None /\ StaffSeat(p).phone = p
  BY LimitsAssumption DEF StaffSeat, Seat
<1>4. NewRow \in Row
  <2>1. <<>> \in Seq(Operation) /\ <<>> \in Seq(Receipt)
    BY EmptySeq
  <2>. QED
    BY <1>3, <2>1 DEF NewRow, Row, Statuses, OpenStatuses, NoChat, Frontier, NoReads, Reads
<1>5. JournalSound(NewRow)
  <2>1. Cardinality(Active(NewRow)) = 0 /\ Len(NewRow.journal) = 0
    BY <1>1, <1>2, FS_EmptySet
  <2>. QED
    BY <1>1, <1>2, <2>1, LimitsAssumption DEF JournalSound
<1>6. SeatsSound(NewRow)
  <2>1. IsFiniteSet(NewRow.roster)
    <3>1. IsFiniteSet(Guests)
      BY ActorsAssumption, LimitsAssumption, FS_Subset
    <3>. DEFINE f == [p \in Guests |-> StaffSeat(p)]
    <3>2. f \in Surjection(Guests, NewRow.roster)
      BY <1>1 DEF Surjection
    <3>. HIDE DEF f
    <3>. QED
      BY <3>1, <3>2, FS_Surjection
  <2>. QED
    BY <1>1, <1>2, <1>3, <2>1 DEF SeatsSound
<1>7. OrganizerSound(NewRow)
  BY <1>1, LimitsAssumption DEF OrganizerSound, Chained, Selected
<1>8. PositionsSound(NewRow)
  BY <1>1 DEF PositionsSound, NoReads
<1>9. RoomSound(NewRow)
  BY <1>1 DEF RoomSound, NoReads
<1>. QED
  BY <1>4, <1>5, <1>6, <1>7, <1>8, <1>9 DEF Sound

-----------------------------------------------------------------------------
(* What follows for a sound row.                                           *)

LEMMA EntryKnown ==
    ASSUME NEW rw, Sound(rw), NEW o \in Entries(rw)
    PROVE  /\ o \in Operation /\ o.actor \in Actors /\ o.actor # None /\ EntrySound(o)
           /\ o.outcome = "REGISTERED" =>
                 o.command = Join /\ o.gen = o.key /\ o.key \in Keys /\ OwnKey(o) = o.key
<1>1. o \in Operation /\ EntrySound(o)
  BY EntriesTyped DEF Sound, JournalSound
<1>. QED
  BY <1>1, AbsenceAssumption DEF Operation, EntrySound, OwnKey

\* The seat of a registration is the only one that could be meant.
LEMMA ActiveIsCurrent ==
    ASSUME NEW rw, Sound(rw), NEW o \in Active(rw)
    PROVE  Current(rw, o)
<1>1. /\ {s \in rw.roster : s.by # None} = {SeatOf(p) : p \in Active(rw)}
      /\ \A p, q \in Active(rw) : p.actor = q.actor => p = q
      /\ \A s, t \in rw.roster : s.phone = t.phone => s = t
  BY DEF Sound, SeatsSound
<1>2. o.actor # None
  BY EntryKnown DEF Active
<1>3. /\ SeatOf(o) \in rw.roster /\ SeatOf(o).phone = o.phone
      /\ SeatOf(o).by = o.actor /\ SeatOf(o).gen = o.gen
  BY <1>1 DEF SeatOf
<1>4. ASSUME NEW s \in Candidates(rw, o) PROVE s = SeatOf(o)
  <2>0. s \in rw.roster /\ (s.phone = o.phone \/ (s.by = o.actor /\ s.gen = o.gen))
    BY DEF Candidates
  <2>1. CASE s.phone = o.phone
    BY <1>1, <1>3, <2>0, <2>1
  <2>2. CASE s.by = o.actor /\ s.gen = o.gen
    <3>1. PICK p \in Active(rw) : s = SeatOf(p)
      BY <1>1, <1>2, <2>0, <2>2
    <3>2. p.actor = o.actor
      BY <2>2, <3>1 DEF SeatOf
    <3>. QED
      BY <1>1, <3>1, <3>2
  <2>. QED
    BY <2>0, <2>1, <2>2
<1>5. SeatOf(o) \in Candidates(rw, o)
  BY <1>3 DEF Candidates
<1>. QED
  BY <1>4, <1>5 DEF Current

\* Every member can leave.
LEMMA LeaveFits ==
    ASSUME NEW rw, Sound(rw), NEW o \in Active(rw), NEW k \in Keys
    PROVE  Fits(rw, LeaveOperation(rw, o, k))
<1>. DEFINE op == LeaveOperation(rw, o, k)
            next == Logged(rw, op)
<1>0. rw \in Row /\ o \in Entries(rw) /\ ~Departed(rw, o)
  BY DEF Sound, Active
<1>1. /\ op.actor = o.actor /\ op.gen = o.gen /\ op.outcome = "LEFT"
  BY <1>0, ActiveIsCurrent DEF LeaveOperation
<1>2. op \in Operation
  <2>1. o \in Operation /\ o.key \in Keys
    BY <1>0, EntriesTyped DEF Operation
  <2>. QED
    BY <2>1 DEF LeaveOperation, Operation, Commands, Leave, Outcomes
<1>3. Entries(next) = Entries(rw) \cup {op} /\ Len(next.journal) = Len(rw.journal) + 1
  BY <1>0, <1>2, LoggedIs
<1>. HIDE DEF op, next
<1>4. \A p : Departed(next, p) <=> Departed(rw, p) \/ (p.actor = o.actor /\ p.gen = o.gen)
  BY <1>1, <1>3 DEF Departed
<1>5. \A p \in Active(rw) : p.actor = o.actor => p = o
  BY DEF Sound, SeatsSound
<1>6. Active(next) = Active(rw) \ {o}
  BY <1>1, <1>3, <1>4, <1>5 DEF Active
<1>7. /\ IsFiniteSet(Active(rw)) /\ Cardinality(Active(rw)) \in Nat
      /\ Len(rw.journal) \in Nat
  BY <1>0, EntriesTyped
<1>8. Cardinality(Active(next)) = Cardinality(Active(rw)) - 1
  BY <1>6, <1>7, FS_RemoveElement
<1>9. Len(rw.journal) + Cardinality(Active(rw)) =< JournalLimit
  BY DEF Sound, JournalSound
<1>. QED
  BY <1>7, <1>8, <1>9, LimitsAssumption DEF Fits, op, next

\* And the organizer can be revoked.
LEMMA RevokeFits ==
    ASSUME NEW rw, Sound(rw), Selected(rw) # None, NEW id
    PROVE  OrganizerFits(rw, OrganizerReceipt(rw,
               [id |-> id, action |-> "REVOKE", selected |-> None,
                expected |-> Revision(rw)]))
<1>1. Len(rw.receipts) + 1 =< OrganizerLimit /\ Len(rw.receipts) \in Nat
  <2>1. rw.receipts \in Seq(Receipt)
    BY DEF Sound, Row
  <2>. QED
    BY <2>1, LenProperties DEF Sound, OrganizerSound
<1>. QED
  BY <1>1, LimitsAssumption DEF OrganizerFits, OrganizerReceipt

\* A person is a member once.
LEMMA ActiveOnce ==
    ASSUME NEW rw, Sound(rw), NEW a
    PROVE  Cardinality(ActiveOf(rw, a)) =< 1
<1>1. CASE ActiveOf(rw, a) = {}
  BY <1>1, FS_EmptySet
<1>2. CASE ActiveOf(rw, a) # {}
  <2>1. PICK o : o \in ActiveOf(rw, a)
    BY <1>2
  <2>2. ActiveOf(rw, a) = {o}
    BY <2>1 DEF ActiveOf, Sound, SeatsSound
  <2>3. Cardinality(ActiveOf(rw, a)) = 1
    BY <2>2, FS_Singleton
  <2>. QED
    BY <2>3
<1>. QED
  BY <1>1, <1>2

\* What an answer shows of the registration is what the journal says of it.
LEMMA ViewIsTrue ==
    ASSUME NEW rw, Sound(rw), rw.status \in OpenStatuses, NEW o \in Entries(rw)
    PROVE  LET own == IF o.command = Join THEN o.key ELSE o.command.original IN
           View(rw, o) = "REGISTERED"
               <=> \E j \in ActiveOf(rw, o.actor) : j.key = own /\ j.phone = o.phone
<1>. DEFINE original == [o EXCEPT !.gen = OwnKey(o)]
<1>1. o \in Operation /\ o.actor # None
  BY EntryKnown
<1>2. /\ original.actor = o.actor /\ original.phone = o.phone /\ original.gen = OwnKey(o)
      /\ SeatOf(original) = [phone |-> o.phone, by |-> o.actor, gen |-> OwnKey(o)]
      /\ Candidates(rw, original) =
             {s \in rw.roster : s.phone = o.phone \/ (s.by = o.actor /\ s.gen = OwnKey(o))}
  BY <1>1 DEF Operation, SeatOf, Candidates
<1>3. View(rw, o) = "REGISTERED" <=> Current(rw, original)
  BY DEF View, OwnKey
<1>. HIDE DEF original
<1>4. ASSUME NEW j \in ActiveOf(rw, o.actor), j.key = OwnKey(o), j.phone = o.phone
      PROVE  Current(rw, original)
  <2>1. j \in Active(rw) /\ j.actor = o.actor /\ j.gen = OwnKey(o)
    BY <1>4, EntryKnown DEF ActiveOf, Active
  <2>2. SeatOf(j) = SeatOf(original) /\ Candidates(rw, j) = Candidates(rw, original)
    BY <1>2, <1>4, <2>1 DEF SeatOf, Candidates
  <2>. QED
    BY <2>1, <2>2, ActiveIsCurrent DEF Current
<1>5. ASSUME Current(rw, original)
      PROVE  \E j \in ActiveOf(rw, o.actor) : j.key = OwnKey(o) /\ j.phone = o.phone
  <2>1. SeatOf(original) \in rw.roster /\ SeatOf(original).by # None
    BY <1>1, <1>2, <1>5 DEF Current
  <2>2. PICK j \in Active(rw) : SeatOf(original) = SeatOf(j)
    BY <2>1 DEF Sound, SeatsSound
  <2>3. j.actor = o.actor /\ j.gen = OwnKey(o) /\ j.phone = o.phone
    BY <1>2, <2>2 DEF SeatOf
  <2>4. j.gen = j.key
    BY EntryKnown DEF Active
  <2>. QED
    BY <2>3, <2>4 DEF ActiveOf
<1>. QED
  BY <1>3, <1>4, <1>5 DEF OwnKey

\* Whoever the row admits has one position.
LEMMA PositionsCovered == ASSUME NEW rw, Sound(rw) PROVE PositionsCover(rw)
<1>. SUFFICES ASSUME rw.reads.adopted PROVE PositionsCover(rw)
  BY DEF PositionsCover
<1>1. ASSUME NEW a \in Actors, NEW kind \in {"PARTICIPANT", "ORGANIZER"},
             NEW w \in Witnesses(rw, a, kind)
      PROVE  Cardinality({p \in rw.reads.positions : p.witness = w}) = 1
  <2>1. w \in Authorities(rw)
    <3>1. \/ \E o \in Active(rw) : w = Participant(o)
          \/ Selected(rw) = a /\ w = Organizer(a, Revision(rw))
      BY DEF Witnesses, ActiveOf
    <3>. QED
      BY <3>1, AbsenceAssumption DEF Authorities
  <2>2. PICK p \in rw.reads.positions : p.witness = w
    BY <2>1 DEF Sound, PositionsSound
  <2>3. {q \in rw.reads.positions : q.witness = w} = {p}
    BY <2>2 DEF Sound, PositionsSound
  <2>. QED
    BY <2>3, FS_Singleton
<1>. QED
  BY <1>1 DEF PositionsCover, Sound, PositionsSound

\* No command that fits its lane is refused for want of a position.
LEMMA RoomIsThere == ASSUME NEW rw, Sound(rw) PROVE RoomToEnrol(rw)
<1>. SUFFICES ASSUME rw.reads.adopted PROVE RoomToEnrol(rw)
  BY DEF RoomToEnrol
<1>0. /\ rw \in Row /\ Revision(rw) \in Nat
      /\ Len(rw.journal) \in Nat /\ Len(rw.receipts) \in Nat
      /\ Cardinality(rw.reads.positions) \in Nat
  BY OrganizerTyped, LenProperties, FS_CardinalityType DEF Sound, Row, PositionsSound
<1>1. Len(rw.journal) =< JournalLimit /\ Len(rw.receipts) =< OrganizerLimit
  <2>1. Cardinality(Active(rw)) \in Nat
    BY <1>0, EntriesTyped
  <2>2. Len(rw.journal) =< JournalLimit
    BY <1>0, <2>1, LimitsAssumption DEF Sound, JournalSound
  <2>3. Len(rw.receipts) =< OrganizerLimit
    <3>. DEFINE n == Len(rw.receipts)
                i == IF Selected(rw) = None THEN 0 ELSE 1
    <3>1. n \in Nat /\ i \in {0, 1} /\ n + i =< OrganizerLimit
      BY <1>0 DEF Sound, OrganizerSound
    <3>. HIDE DEF n, i
    <3>2. n =< OrganizerLimit
      BY <3>1, LimitsAssumption
    <3>. QED
      BY <3>2 DEF n
  <2>. QED
    BY <2>2, <2>3
<1>2. ASSUME Len(rw.journal) < JournalLimit \/ Len(rw.receipts) < OrganizerLimit
      PROVE  Cardinality(rw.reads.positions) < PositionLimit
  <2>. DEFINE a == Len(rw.journal)
              b == Len(rw.receipts)
              c == Cardinality(rw.reads.positions)
  <2>1. /\ a \in Nat /\ b \in Nat /\ c \in Nat /\ c =< a + b
        /\ a =< JournalLimit /\ b =< OrganizerLimit /\ (a < JournalLimit \/ b < OrganizerLimit)
    BY <1>0, <1>1, <1>2 DEF Sound, RoomSound, Slots
  <2>. HIDE DEF a, b, c
  <2>2. c < PositionLimit
    BY <2>1, LimitsAssumption
  <2>. QED
    BY <2>2 DEF c
<1>3. ASSUME NEW a \in Actors, NEW k \in Keys, FreshKey(rw, a, k),
             NEW p \in rw.reads.positions
      PROVE  p.witness # Participant([actor |-> a, gen |-> k])
  <2>1. CASE \E o \in Registered(rw) : p.witness = Participant(o)
    <3>1. PICK o \in Registered(rw) : p.witness = Participant(o)
      BY <2>1
    <3>2. o \in Entries(rw) /\ o.gen = o.key
      BY EntryKnown DEF Registered
    <3>. QED
      BY <1>3, <3>1, <3>2 DEF FreshKey, Participant
  <2>2. CASE p.witness.kind = "ORGANIZER"
    BY <2>2 DEF Participant
  <2>. QED
    BY <2>1, <2>2 DEF Sound, RoomSound, Recorded
<1>4. ASSUME NEW a \in Actors, NEW p \in rw.reads.positions
      PROVE  p.witness # Organizer(a, Revision(rw) + 1)
  <2>1. CASE \E o \in Registered(rw) : p.witness = Participant(o)
    BY <2>1 DEF Participant, Organizer
  <2>2. CASE p.witness.at \in 0..Revision(rw)
    BY <1>0, <2>2 DEF Organizer
  <2>. QED
    BY <2>1, <2>2 DEF Sound, RoomSound, Recorded
<1>. QED
  BY <1>2, <1>3, <1>4 DEF RoomToEnrol, CanEnrol

\* Nothing that was decided is forgotten.
LEMMA OwnersRemember ==
    ASSUME NEW rw, Sound(rw), NEW next, OwnerStep(rw, next)
    PROVE  /\ Entries(rw) \subseteq Entries(next)
           /\ ToSet(rw.receipts) \subseteq ToSet(next.receipts)
<1>0. rw \in Row
  BY DEF Sound
<1>1. CASE JournalStep(rw, next)
  <2>1. PICK op \in Operation : Decision(rw, op) /\ next \in Committed(rw, op)
    BY <1>1 DEF JournalStep
  <2>2. EntrySound(op)
    BY <2>1, DecisionIs
  <2>3. next.journal = Logged(rw, op).journal /\ next.receipts = rw.receipts
    BY <1>0, <2>1, <2>2, CommittedIs
  <2>. QED
    BY <1>0, <2>3, LoggedIs, SameJournal
<1>2. CASE OrganizerStep(rw, next)
  <2>1. PICK command \in CommandShapes : next \in Assigned(rw, OrganizerReceipt(rw, command))
    BY <1>2 DEF OrganizerStep
  <2>. DEFINE receipt == OrganizerReceipt(rw, command)
              added == [rw EXCEPT !.receipts = Append(@, receipt)]
              size == Len(rw.receipts)
  <2>2. receipt \in Receipt /\ (receipt.outcome = "ASSIGNED" => receipt.selected \in Actors)
    BY <1>0, ReceiptTyped DEF OrganizerReceipt, CommandShapes, Assignment
  <2>. HIDE DEF receipt
  <2>3. /\ size \in Nat /\ DOMAIN rw.receipts = 1..size
        /\ DOMAIN added.receipts = 1..size + 1
        /\ \A i \in 1..size : added.receipts[i] = rw.receipts[i]
    BY <1>0, <2>2, ReceiptAdded
  <2>4. next.journal = rw.journal /\ next.receipts = added.receipts
    BY <1>0, <2>1, <2>2, AssignedIs DEF receipt
  <2>. HIDE DEF added
  <2>5. \A i \in 1..size : i \in 1..size + 1
    BY <2>3
  <2>6. ToSet(rw.receipts) \subseteq ToSet(next.receipts)
    BY <2>3, <2>4, <2>5 DEF ToSet
  <2>. QED
    BY <2>4, <2>6, SameJournal
<1>3. CASE StaffStep(rw, next)
  BY <1>3, SameJournal DEF StaffStep
<1>4. CASE ChatStep(rw, next)
  <2>1. next.journal = rw.journal /\ next.receipts = rw.receipts
    BY <1>0, <1>4 DEF ChatStep, Adopted, Row
  <2>. QED
    BY <2>1, SameJournal
<1>. QED
  BY <1>1, <1>2, <1>3, <1>4 DEF OwnerStep

\* With a journal the seats are the journal's, and the rest of the row nobody's.
LEMMA JournalOwns ==
    ASSUME NEW rw, Sound(rw), NEW next, OwnerStep(rw, next), rw.journal # <<>>
    PROVE  /\ next.roster # rw.roster => Len(next.journal) = Len(rw.journal) + 1
           /\ next.status = rw.status /\ next.waitlist = rw.waitlist
           /\ next.stamp = rw.stamp
<1>0. rw \in Row
  BY DEF Sound
<1>1. CASE JournalStep(rw, next)
  <2>1. PICK op \in Operation : Decision(rw, op) /\ next \in Committed(rw, op)
    BY <1>1 DEF JournalStep
  <2>2. EntrySound(op)
    BY <2>1, DecisionIs
  <2>3. /\ next.journal = Logged(rw, op).journal /\ next.status = rw.status
        /\ next.waitlist = rw.waitlist /\ next.stamp = rw.stamp
    BY <1>0, <2>1, <2>2, CommittedIs
  <2>. QED
    BY <1>0, <2>3, LoggedIs
<1>2. CASE OrganizerStep(rw, next)
  <2>1. PICK command \in CommandShapes : next \in Assigned(rw, OrganizerReceipt(rw, command))
    BY <1>2 DEF OrganizerStep
  <2>. DEFINE receipt == OrganizerReceipt(rw, command)
  <2>2. receipt \in Receipt /\ (receipt.outcome = "ASSIGNED" => receipt.selected \in Actors)
    BY <1>0, ReceiptTyped DEF OrganizerReceipt, CommandShapes, Assignment
  <2>. HIDE DEF receipt
  <2>. QED
    BY <1>0, <2>1, <2>2, AssignedIs DEF receipt
<1>3. CASE StaffStep(rw, next)
  BY <1>3 DEF StaffStep
<1>4. CASE ChatStep(rw, next)
  BY <1>0, <1>4 DEF ChatStep, Adopted, Row
<1>. QED
  BY <1>1, <1>2, <1>3, <1>4 DEF OwnerStep

\* Only the journal writes the journal.
LEMMA OnlyTheJournal ==
    ASSUME NEW rw, Sound(rw), NEW next, OwnerStep(rw, next)
    PROVE  JournalStep(rw, next) \/ next.journal = rw.journal
<1>0. rw \in Row
  BY DEF Sound
<1>1. CASE OrganizerStep(rw, next)
  <2>1. PICK command \in CommandShapes : next \in Assigned(rw, OrganizerReceipt(rw, command))
    BY <1>1 DEF OrganizerStep
  <2>. DEFINE receipt == OrganizerReceipt(rw, command)
  <2>2. receipt \in Receipt /\ (receipt.outcome = "ASSIGNED" => receipt.selected \in Actors)
    BY <1>0, ReceiptTyped DEF OrganizerReceipt, CommandShapes, Assignment
  <2>. HIDE DEF receipt
  <2>. QED
    BY <1>0, <2>1, <2>2, AssignedIs DEF receipt
<1>2. CASE StaffStep(rw, next)
  BY <1>2 DEF StaffStep
<1>3. CASE ChatStep(rw, next)
  BY <1>0, <1>3 DEF ChatStep, Adopted, Row
<1>. QED
  BY <1>1, <1>2, <1>3 DEF OwnerStep
=============================================================================
