------------------------ MODULE TournamentChatProofs ------------------------
(***************************************************************************)
(* Proofs about TournamentChat, for any number of people, messages,        *)
(* senders and workers: the stored stream is consistent, CONFIRMED tells   *)
(* the truth, authority is current, and the chat implements MessageLog.    *)
(***************************************************************************)
EXTENDS TournamentChat, FiniteSetTheorems, SequenceTheorems, TLAPS

-----------------------------------------------------------------------------
(* The shapes of the row.                                                  *)

Intent == [message : Messages, sequence : Nat \ {0}]
Chat == [adopted : BOOLEAN, allocated : Nat, published : Nat, pending : Seq(Intent)]
Position == [witness : Witness, baseline : Nat, through : Nat]
Reads == [adopted : BOOLEAN, positions : SUBSET Position, pending : {<<>>}]
\* A registration has a generation.
Entry == {o \in Operation : o.outcome = "REGISTERED" => o.gen \in Keys}
Row == [status : Statuses, roster : SUBSET Seat, waitlist : SUBSET Phones,
        journal : Seq(Entry), receipts : Seq(Receipt), chat : Chat, reads : Reads,
        stamp : Nat]

LEMMA EntriesTyped ==
    ASSUME NEW rw \in Row
    PROVE  Entries(rw) \subseteq Entry
<1>1. rw.journal \in Seq(Entry)
  BY DEF Row
<1>. QED
  BY <1>1, ElementOfSeq DEF Entries, ToSet, Row

\* The organizer is somebody or nobody, and his revision a number.
LEMMA OrganizerTyped ==
    ASSUME NEW rw \in Row
    PROVE  Revision(rw) \in Nat /\ Selected(rw) \in Actors \cup {None}
<1>1. rw.receipts \in Seq(Receipt)
  BY DEF Row
<1>2. ASSUME rw.receipts # <<>>
      PROVE  Last(rw.receipts) \in Receipt
  <2>1. Len(rw.receipts) \in 1..Len(rw.receipts)
    BY <1>1, <1>2, EmptySeq, LenProperties
  <2>. QED
    BY <1>1, <2>1, ElementOfSeq DEF Last
<1>. QED
  BY <1>2 DEF Revision, Selected, Receipt

LEMMA WitnessesTyped ==
    ASSUME NEW rw \in Row, NEW a \in Actors, NEW kind
    PROVE  Witnesses(rw, a, kind) \subseteq Witness
<1>1. ASSUME NEW o \in Active(rw)
      PROVE  Participant(o) \in Witness
  <2>1. o \in Operation /\ o.gen \in Keys
    BY <1>1, EntriesTyped DEF Active, Entry
  <2>. QED
    BY <2>1 DEF Participant, Witness, Operation
<1>2. Organizer(a, Revision(rw)) \in Witness
  BY OrganizerTyped DEF Organizer, Witness
<1>. QED
  BY <1>1, <1>2 DEF Witnesses, ActiveOf

-----------------------------------------------------------------------------
(* The other owners leave the chat as it is.                               *)

LEMMA EnrolTyped ==
    ASSUME NEW rw \in Row, NEW w \in Witness
    PROVE  Enrol(rw, w) \in Row /\ Enrol(rw, w).chat = rw.chat
<1>1. NewPosition(w, rw.chat.published) \in Position
  BY DEF NewPosition, Position, Row, Chat
<1>. QED
  BY <1>1 DEF Enrol, Row, Reads

LEMMA LoggedTyped ==
    ASSUME NEW rw \in Row, NEW op \in Entry
    PROVE  Logged(rw, op) \in Row /\ Logged(rw, op).chat = rw.chat
<1>1. Append(rw.journal, op) \in Seq(Entry)
  BY AppendProperties DEF Row
<1>. QED
  BY <1>1 DEF Logged, Row

LEMMA CommittedTyped ==
    ASSUME NEW rw \in Row, NEW op \in Entry, NEW next \in Committed(rw, op)
    PROVE  next \in Row /\ next.chat = rw.chat
<1>1. Logged(rw, op) \in Row /\ Logged(rw, op).chat = rw.chat
  BY LoggedTyped
<1>2. SeatOf(op) \in Seat
  BY DEF SeatOf, Seat, Entry, Operation
<1>3. CASE op.outcome = "REGISTERED"
  <2>. DEFINE seated == [Logged(rw, op) EXCEPT !.roster = @ \cup {SeatOf(op)}]
  <2>1. seated \in Row /\ seated.chat = rw.chat
    BY <1>1, <1>2 DEF Row
  <2>2. Participant(op) \in Witness
    BY <1>3 DEF Participant, Witness, Entry, Operation
  <2>3. next = Enrol(seated, Participant(op))
    BY <1>3 DEF Committed
  <2>. QED
    BY <2>1, <2>2, <2>3, EnrolTyped
<1>4. CASE op.outcome # "REGISTERED"
  <2>. DEFINE cleared == [Logged(rw, op) EXCEPT !.roster =
                             {s \in @ : ~(s.by = op.actor /\ s.gen = op.gen)}]
  <2>1. cleared \in Row /\ cleared.chat = rw.chat
    BY <1>1 DEF Row
  <2>2. next \in {cleared, Logged(rw, op)}
    BY <1>4 DEF Committed
  <2>. QED
    BY <1>1, <2>1, <2>2
<1>. QED
  BY <1>3, <1>4

LEMMA JoinTyped ==
    ASSUME NEW rw \in Row, NEW a \in Actors, NEW k \in Keys,
           NEW next \in AfterJoin(rw, a, PhoneOf[a], k)
    PROVE  next \in Row /\ next.chat = rw.chat
<1>. DEFINE op == JoinOperation(rw, a, PhoneOf[a], k)
<1>1. next \in Committed(rw, op)
  BY DEF AfterJoin
<1>2. op \in Entry
  <2>1. JoinOutcome(rw, a, PhoneOf[a]) \in Outcomes
    BY DEF JoinOutcome, Outcomes
  <2>. QED
    BY <2>1, ChatAssumption DEF JoinOperation, Entry, Operation, Commands, Join
<1>. QED
  BY <1>1, <1>2, CommittedTyped

LEMMA LeaveTyped ==
    ASSUME NEW rw \in Row, NEW a \in Actors, NEW k \in Keys,
           NEW next \in AfterLeave(rw, a, k)
    PROVE  next \in Row /\ next.chat = rw.chat
<1>1. PICK o \in ActiveOf(rw, a) : next \in Committed(rw, LeaveOperation(rw, o, k))
  BY DEF AfterLeave
<1>2. o \in Entry
  BY <1>1, EntriesTyped DEF ActiveOf, Active
<1>3. LeaveOperation(rw, o, k) \in Entry
  BY <1>2 DEF LeaveOperation, Entry, Operation, Commands, Leave, Outcomes
<1>. QED
  BY <1>1, <1>3, CommittedTyped

LEMMA CommandTyped ==
    ASSUME NEW rw \in Row, NEW id \in OrganizerIds, NEW selected \in Actors \cup {None},
           NEW next \in AfterCommand(rw, id, selected)
    PROVE  next \in Row /\ next.chat = rw.chat
<1>. DEFINE command == [id |-> id, expected |-> Revision(rw), selected |-> selected,
                        action |-> IF selected = None THEN "REVOKE" ELSE "ASSIGN"]
            receipt == OrganizerReceipt(rw, command)
            added == [rw EXCEPT !.receipts = Append(@, receipt)]
            w == Organizer(receipt.selected, receipt.revision)
<1>1. Revision(rw) \in Nat /\ Selected(rw) \in Actors \cup {None}
  BY OrganizerTyped
<1>2. receipt \in Receipt
  <2>1. command \in Assignment
    BY <1>1 DEF Assignment
  <2>. QED
    BY <1>1, <2>1 DEF OrganizerReceipt, Receipt
<1>3. added \in Row /\ added.chat = rw.chat
  <2>1. Append(rw.receipts, receipt) \in Seq(Receipt)
    BY <1>2, AppendProperties DEF Row
  <2>. QED
    BY <2>1 DEF Row
<1>4. next \in Assigned(rw, receipt)
  BY DEF AfterCommand
<1>5. CASE receipt.outcome # "ASSIGNED"
  BY <1>3, <1>4, <1>5 DEF Assigned
<1>6. CASE receipt.outcome = "ASSIGNED"
  <2>1. receipt.selected = selected /\ selected # None
    BY <1>6 DEF OrganizerReceipt
  <2>2. w \in Witness
    BY <1>2, <2>1 DEF Organizer, Witness, Receipt
  <2>3. next = Enrol(added, w)
    BY <1>4, <1>6 DEF Assigned
  <2>. QED
    BY <1>3, <2>2, <2>3, EnrolTyped
<1>. QED
  BY <1>5, <1>6

LEMMA EditTyped ==
    ASSUME NEW rw \in Row, NEW next \in AfterEdit(rw)
    PROVE  next \in Row /\ next.chat = rw.chat
<1>1. PICK s \in StaffStatus : next = [rw EXCEPT !.status = s]
  BY DEF AfterEdit
<1>2. s \in Statuses
  BY StatusAssumption
<1>. QED
  BY <1>1, <1>2 DEF Row

LEMMA AdoptedTyped ==
    ASSUME NEW rw \in Row
    PROVE  /\ Adopted(rw) \in Row
           /\ Adopted(rw).chat = [rw.chat EXCEPT !.adopted = TRUE]
<1>1. \A w \in Witness : NewPosition(w, rw.chat.published) \in Position
  BY DEF NewPosition, Position, Row, Chat
<1>2. ASSUME NEW o \in Active(rw)
      PROVE  Participant(o) \in Witness
  <2>1. o \in Operation /\ o.gen \in Keys
    BY <1>2, EntriesTyped DEF Active, Entry
  <2>. QED
    BY <2>1 DEF Participant, Witness, Operation
<1>3. Selected(rw) # None => Organizer(Selected(rw), Revision(rw)) \in Witness
  BY OrganizerTyped DEF Organizer, Witness
<1>4. AdoptedPositions(rw) \subseteq Position
  BY <1>1, <1>2, <1>3 DEF AdoptedPositions
<1>. QED
  BY <1>4 DEF Adopted, NoReads, Row, Reads, Chat

-----------------------------------------------------------------------------
(* The stream: what StreamConsistent says and what keeps it so.            *)

Receipts(m) == store[m].publication
Candidate == [text : Texts, witness : Witness, publication : Nat]
HeadIntent == Pending[1]

QueueDense ==
    /\ row.chat.allocated = row.chat.published + Len(Pending)
    /\ Len(Pending) =< PendingLimit
    /\ \A i \in DOMAIN Pending :
          /\ Pending[i].sequence = row.chat.published + i
          /\ Exists(Pending[i].message)
    /\ \A i, j \in DOMAIN Pending : Pending[i].message = Pending[j].message => i = j

\* The receipts are the sequences up to the frontier, each of one message, and
\* perhaps the one of the head of the queue.
ReceiptsInOrder ==
    /\ \A m \in Messages : Receipts(m) # 0 =>
          \/ Receipts(m) =< row.chat.published
          \/ /\ Pending # <<>> /\ m = HeadIntent.message
             /\ Receipts(m) = row.chat.published + 1
    /\ \A m, n \in Messages : Receipts(m) # 0 /\ Receipts(m) = Receipts(n) => m = n
    /\ \A k \in 1..row.chat.published : \E m \in Messages : Receipts(m) = k
    /\ \A i \in DOMAIN Pending :
          Receipts(Pending[i].message) \in {0, Pending[i].sequence}

Stream ==
    /\ row \in Row
    /\ store \in [Messages -> Candidate \cup {NoCandidate}]
    /\ QueueDense
    /\ ReceiptsInOrder

\* An intent somebody read: either it is behind the frontier, with its receipt, or
\* it is the head of the queue.
Known(p) ==
    IF p.sequence =< row.chat.published THEN Receipts(p.message) = p.sequence
    ELSE Pending # <<>> /\ HeadIntent = p

\* What no step undoes, and on which all that handlers remember rests.
Monotone ==
    /\ \A m \in Messages : Exists(m) =>
          /\ store'[m] # NoCandidate
          /\ store'[m].witness = store[m].witness
    /\ \A m \in Messages :
          \/ store'[m].publication = store[m].publication
          \/ store[m].publication = 0 /\ Accepted(row, m)
    /\ row.chat.allocated =< row'.chat.allocated
    /\ row'.chat.allocated = row.chat.allocated =>
          \A m \in Messages : Accepted(row', m) => Accepted(row, m)
    /\ row.chat.published =< row'.chat.published
    /\ \A p \in Intent : Known(p) => Known(p)'

-----------------------------------------------------------------------------
(* The five ways in which a step changes the stream.                       *)

LEMMA CandidateTyped ==
    ASSUME Stream, NEW m \in Messages
    PROVE  /\ Receipts(m) \in Nat
           /\ Exists(m) <=> store[m] \in Candidate
           /\ Exists(m) => store[m] \in Candidate
           /\ ~Exists(m) => Receipts(m) = 0
<1>1. None \notin Texts
  BY ChatAssumption
<1>. QED
  BY <1>1 DEF Stream, Receipts, Candidate, Exists, NoCandidate

LEMMA PendingTyped ==
    ASSUME Stream
    PROVE  /\ Pending \in Seq(Intent) /\ Len(Pending) \in Nat
           /\ DOMAIN Pending = 1..Len(Pending)
           /\ \A i \in DOMAIN Pending : Pending[i] \in Intent
           /\ Pending # <<>> <=> Len(Pending) > 0
           /\ row.chat.published \in Nat /\ row.chat.allocated \in Nat
<1>1. Pending \in Seq(Intent) /\ row.chat.published \in Nat /\ row.chat.allocated \in Nat
  BY DEF Stream, Row, Chat, Pending
<1>. QED
  BY <1>1, EmptySeq, LenProperties, ElementOfSeq

\* The row may change in other places.
LEMMA QuietStep ==
    ASSUME Stream, row' \in Row, store' = store,
           row'.chat.allocated = row.chat.allocated,
           row'.chat.published = row.chat.published,
           row'.chat.pending = row.chat.pending
    PROVE  Stream' /\ Monotone
<1>1. Stream'
  BY DEF Stream, QueueDense, ReceiptsInOrder, Receipts, HeadIntent, Pending, Exists
<1>2. Monotone
  BY PendingTyped DEF Monotone, Known, Receipts, HeadIntent, Pending, Exists, Accepted
<1>. QED
  BY <1>1, <1>2

LEMMA SameStep ==
    ASSUME Stream, row' = row, store' = store
    PROVE  Stream' /\ Monotone
BY QuietStep DEF Stream

LEMMA InsertStep ==
    ASSUME Stream, row' = row, NEW m \in Messages, ~Exists(m), NEW text \in Texts,
           NEW w \in Witness,
           store' = [store EXCEPT ![m] = [text |-> text, witness |-> w, publication |-> 0]]
    PROVE  Stream' /\ Monotone
<1>1. /\ store' \in [Messages -> Candidate \cup {NoCandidate}]
      /\ \A n \in Messages : Exists(n) => store'[n] = store[n]
      /\ \A n \in Messages : Receipts(n)' = Receipts(n)
      /\ \A n \in Messages : Exists(n) => Exists(n)'
  BY CandidateTyped DEF Stream, Candidate, Receipts, Exists
<1>2. QueueDense'
  BY <1>1, PendingTyped DEF Stream, QueueDense, Pending, Intent
<1>3. ReceiptsInOrder'
  BY <1>1, PendingTyped DEF Stream, ReceiptsInOrder, HeadIntent, Pending, Intent
<1>4. Monotone
  BY <1>1, PendingTyped DEF Monotone, Known, Receipts, HeadIntent, Pending, Exists, Intent
<1>. QED
  BY <1>1, <1>2, <1>3, <1>4 DEF Stream

\* A receipt is written for the head, or has been before.
LEMMA PublishStep ==
    ASSUME Stream, row' = row, NEW p \in Intent, Known(p), Exists(p.message), Publishes(p)
    PROVE  Stream' /\ Monotone /\ Receipts(p.message)' = p.sequence
<1>. DEFINE h == p.message
<1>1. /\ h \in Messages /\ p.sequence \in Nat \ {0}
      /\ store[h] \in Candidate
  BY CandidateTyped DEF Intent
<1>2. /\ store' \in [Messages -> Candidate \cup {NoCandidate}]
      /\ Receipts(h)' = p.sequence
      /\ store'[h].witness = store[h].witness /\ store'[h] # NoCandidate
      /\ \A n \in Messages : n # h => store'[n] = store[n]
  <2>1. store' = [store EXCEPT ![h] = [@ EXCEPT !.publication = p.sequence]]
    BY DEF Publishes
  <2>2. [store[h] EXCEPT !.publication = p.sequence] \in Candidate
    BY <1>1 DEF Candidate
  <2>. QED
    BY <1>1, <2>1, <2>2 DEF Stream, Candidate, NoCandidate, Receipts
<1>3. CASE Receipts(h) # 0
  <2>1. Receipts(h) = p.sequence
    BY <1>3 DEF Publishes, Receipts
  <2>2. \A n \in Messages : /\ Receipts(n)' = Receipts(n)
                            /\ Exists(n) => Exists(n)'
                            /\ store'[n].witness = store[n].witness
    BY <1>2, <2>1 DEF Receipts, Exists
  <2>3. QueueDense' /\ ReceiptsInOrder'
    BY <1>2, <2>2, PendingTyped DEF Stream, QueueDense, ReceiptsInOrder, Pending, HeadIntent, Intent
  <2>4. Monotone
    BY <2>2, PendingTyped DEF Monotone, Known, Receipts, HeadIntent, Pending, Exists, Intent
  <2>. QED
    BY <1>2, <2>3, <2>4 DEF Stream
<1>4. CASE Receipts(h) = 0
  <2>1. p.sequence > row.chat.published /\ Pending # <<>> /\ HeadIntent = p
    BY <1>1, <1>4, PendingTyped DEF Known
  <2>2. p.sequence = row.chat.published + 1 /\ 1 \in DOMAIN Pending
    BY <2>1, PendingTyped DEF Stream, QueueDense, HeadIntent
  <2>3. \A n \in Messages : Exists(n) => Exists(n)' /\ store'[n].witness = store[n].witness
    BY <1>2 DEF Exists
  <2>4. \A n \in Messages : n # h => Receipts(n)' = Receipts(n)
    BY <1>2 DEF Receipts
  <2>5. QueueDense'
    BY <2>3, PendingTyped DEF Stream, QueueDense, Pending, Intent
  <2>6. \A n \in Messages : Receipts(n) # p.sequence
    BY <1>4 DEF Publishes, Receipts
  <2>7. \A k \in 1..row.chat.published : \E n \in Messages : Receipts(n)' = k
    <3>1. \A k \in 1..row.chat.published : \E n \in Messages : n # h /\ Receipts(n) = k
      BY <1>4, PendingTyped DEF Stream, ReceiptsInOrder
    <3>. QED
      BY <2>4, <3>1
  <2>8. \A i \in DOMAIN Pending :
           Receipts(Pending[i].message)' \in {0, Pending[i].sequence}
    <3>. SUFFICES ASSUME NEW i \in DOMAIN Pending
                  PROVE  Receipts(Pending[i].message)' \in {0, Pending[i].sequence}
      OBVIOUS
    <3>1. CASE Pending[i].message = h
      BY <1>2, <2>1, <2>2, <3>1 DEF Stream, QueueDense, HeadIntent, Pending, Receipts
    <3>2. CASE Pending[i].message # h
      BY <2>4, <3>2, PendingTyped DEF Stream, ReceiptsInOrder, Intent, Pending, Receipts
    <3>. QED
      BY <3>1, <3>2
  <2>9. ReceiptsInOrder'
    <3>1. \A n \in Messages : Receipts(n)' # 0 =>
             \/ Receipts(n)' =< row.chat.published
             \/ n = h /\ Receipts(n)' = row.chat.published + 1
      BY <1>2, <2>1, <2>2, <2>4 DEF Stream, ReceiptsInOrder
    <3>2. \A n, o \in Messages : Receipts(n)' # 0 /\ Receipts(n)' = Receipts(o)' => n = o
      BY <1>2, <2>4, <2>6 DEF Stream, ReceiptsInOrder
    <3>. QED
      BY <2>1, <2>7, <2>8, <3>1, <3>2 DEF ReceiptsInOrder, Pending, HeadIntent
  <2>10. Accepted(row, h)
    BY <2>1, <2>2 DEF Accepted, Pending, HeadIntent
  <2>11. \A n \in Messages :
            \/ store'[n].publication = store[n].publication
            \/ store[n].publication = 0 /\ Accepted(row, n)
    BY <1>4, <2>4, <2>10 DEF Receipts
  <2>12. ASSUME NEW q \in Intent, Known(q)
         PROVE  Known(q)'
    <3>1. CASE q.sequence =< row.chat.published
      <4>1. Receipts(q.message) = q.sequence /\ q.message # h
        BY <1>4, <2>12, <3>1 DEF Known, Intent
      <4>. QED
        BY <2>4, <3>1, <4>1 DEF Known, Intent
    <3>2. CASE ~(q.sequence =< row.chat.published)
      BY <2>12, <3>2 DEF Known, HeadIntent, Pending
    <3>. QED
      BY <3>1, <3>2
  <2>13. Monotone
    BY <2>3, <2>11, <2>12, PendingTyped DEF Monotone, Exists
  <2>. QED
    BY <1>2, <2>5, <2>9, <2>13 DEF Stream
<1>. QED
  BY <1>2, <1>3, <1>4

LEMMA AppendedTyped ==
    ASSUME Stream, NEW m \in Messages
    PROVE  LET next == Appended(row, m)
               added == [message |-> m, sequence |-> row.chat.allocated + 1] IN
           /\ next \in Row
           /\ next.chat.allocated = row.chat.allocated + 1
           /\ next.chat.published = row.chat.published
           /\ next.chat.pending = Append(Pending, added)
           /\ Len(next.chat.pending) = Len(Pending) + 1
           /\ \A i \in 1..Len(Pending) : next.chat.pending[i] = Pending[i]
           /\ next.chat.pending[Len(Pending) + 1] = added
           /\ DOMAIN next.chat.pending = 1..Len(Pending) + 1
           /\ next.chat.pending # <<>>
<1>. DEFINE added == [message |-> m, sequence |-> row.chat.allocated + 1]
<1>1. added \in Intent
  BY PendingTyped DEF Intent
<1>2. /\ Append(Pending, added) \in Seq(Intent)
      /\ Len(Append(Pending, added)) = Len(Pending) + 1
      /\ \A i \in 1..Len(Pending) : Append(Pending, added)[i] = Pending[i]
      /\ Append(Pending, added)[Len(Pending) + 1] = added
      /\ DOMAIN Append(Pending, added) = 1..Len(Pending) + 1
      /\ Append(Pending, added) # <<>>
  BY <1>1, PendingTyped, AppendProperties, LenProperties
<1>3. /\ Appended(row, m) \in Row
      /\ Appended(row, m).chat.allocated = row.chat.allocated + 1
      /\ Appended(row, m).chat.published = row.chat.published
      /\ Appended(row, m).chat.pending = Append(Pending, added)
  <2>. DEFINE chat == [row.chat EXCEPT !.allocated = @ + 1, !.pending = Append(@, added)]
  <2>1. row \in Row /\ row.chat \in Chat /\ row.chat.pending = Pending
    BY DEF Stream, Row, Pending
  <2>2. /\ chat \in Chat
        /\ chat.allocated = row.chat.allocated + 1
        /\ chat.published = row.chat.published
        /\ chat.pending = Append(Pending, added)
    <3>1. row.chat.allocated + 1 \in Nat
      BY PendingTyped
    <3>2. row.chat.pending = Pending /\ row.chat \in Chat
      BY <2>1
    <3>. HIDE DEF added
    <3>. QED
      BY <1>2, <3>1, <3>2 DEF Chat
  <2>3. Appended(row, m) = [row EXCEPT !.chat = chat]
    BY <2>1 DEF Appended, Row, Chat
  <2>. HIDE DEF chat
  <2>. QED
    BY <2>1, <2>2, <2>3 DEF Row
<1>. QED
  BY <1>2, <1>3

\* What is appended has neither receipt nor a place in the queue.
LEMMA AcceptStep ==
    ASSUME Stream, store' = store, NEW m \in Messages, Exists(m), ~Accepted(row, m),
           Receipts(m) = 0, Room(row), row' = Appended(row, m)
    PROVE  Stream' /\ Monotone
<1>. DEFINE size == Len(Pending)
            added == [message |-> m, sequence |-> row.chat.allocated + 1]
<1>1. /\ row' \in Row
      /\ row'.chat.allocated = row.chat.allocated + 1
      /\ row'.chat.published = row.chat.published
      /\ Len(Pending') = size + 1 /\ DOMAIN Pending' = 1..size + 1
      /\ \A i \in 1..size : Pending'[i] = Pending[i]
      /\ Pending'[size + 1] = added
      /\ Pending' # <<>>
  BY AppendedTyped DEF Pending
<1>2. /\ size \in Nat /\ DOMAIN Pending = 1..size
      /\ row.chat.allocated \in Nat /\ row.chat.published \in Nat
      /\ Pending # <<>> <=> size > 0
  BY PendingTyped
<1>0. /\ row.chat.allocated = row.chat.published + size
      /\ \A i \in 1..size : /\ Pending[i].sequence = row.chat.published + i
                            /\ Exists(Pending[i].message)
      /\ \A i, j \in 1..size : Pending[i].message = Pending[j].message => i = j
  BY <1>2 DEF Stream, QueueDense
<1>3. \A i \in 1..size : Pending[i].message # m
  BY <1>2 DEF Accepted, Pending
<1>5. QueueDense'
  <2>1. row'.chat.allocated = row'.chat.published + Len(Pending')
    <3>1. /\ row'.chat.allocated = row.chat.allocated + 1
          /\ row'.chat.published = row.chat.published
          /\ Len(Pending') = size + 1
      BY <1>1
    <3>2. /\ row.chat.allocated = row.chat.published + size
          /\ size \in Nat /\ row.chat.published \in Nat
      BY <1>0, <1>2
    <3>. HIDE DEF size
    <3>. QED
      BY <3>1, <3>2
  <2>2. Len(Pending') =< PendingLimit
    BY <1>1, <1>2, ChatAssumption DEF Room, Pending
  <2>3. ASSUME NEW i \in 1..size + 1
        PROVE  /\ Pending'[i].sequence = row'.chat.published + i
               /\ Exists(Pending[i].message)'
    <3>1. CASE i = size + 1
      <4>1. /\ Pending'[i] = added /\ row'.chat.published = row.chat.published
            /\ row.chat.allocated + 1 = row.chat.published + i
        <5>1. Pending'[i] = added /\ row'.chat.published = row.chat.published
          BY <1>1, <3>1
        <5>2. /\ row.chat.allocated = row.chat.published + size
              /\ size \in Nat /\ row.chat.published \in Nat
          BY <1>0, <1>2
        <5>. HIDE DEF size
        <5>. QED
          BY <3>1, <5>1, <5>2
      <4>2. added.sequence = row.chat.allocated + 1 /\ added.message = m
        OBVIOUS
      <4>. HIDE DEF added
      <4>. QED
        BY <4>1, <4>2 DEF Exists
    <3>2. CASE i \in 1..size
      BY <1>0, <1>1, <1>2, <3>2 DEF Exists
    <3>. QED
      BY <1>2, <3>1, <3>2
  <2>4. ASSUME NEW i \in 1..size + 1, NEW j \in 1..size + 1,
               Pending'[i].message = Pending'[j].message
        PROVE  i = j
    <3>1. CASE i \in 1..size /\ j \in 1..size
      BY <1>0, <1>1, <1>2, <2>4, <3>1
    <3>2. CASE i = size + 1 /\ j \in 1..size
      BY <1>1, <1>3, <2>4, <3>2
    <3>3. CASE j = size + 1 /\ i \in 1..size
      BY <1>1, <1>3, <2>4, <3>3
    <3>. QED
      BY <1>2, <3>1, <3>2, <3>3
  <2>. QED
    BY <1>1, <2>1, <2>2, <2>3, <2>4 DEF QueueDense
<1>6. \A n \in Messages : Receipts(n)' = Receipts(n)
  BY DEF Receipts
<1>7. size > 0 => Pending'[1] = Pending[1]
  BY <1>1, <1>2
<1>8. ReceiptsInOrder'
  <2>1. \A n \in Messages : Receipts(n) # 0 =>
           \/ Receipts(n) =< row'.chat.published
           \/ /\ Pending' # <<>> /\ n = Pending'[1].message
              /\ Receipts(n) = row'.chat.published + 1
    BY <1>1, <1>2, <1>7 DEF Stream, ReceiptsInOrder, HeadIntent
  <2>2. \A i \in 1..size + 1 : Receipts(Pending'[i].message) \in {0, Pending'[i].sequence}
    <3>1. \A i \in 1..size : Receipts(Pending'[i].message) \in {0, Pending'[i].sequence}
      BY <1>1, <1>2 DEF Stream, ReceiptsInOrder
    <3>. QED
      BY <1>1, <1>2, <3>1
  <2>3. \A i \in 1..size + 1 : Receipts(Pending[i].message)' = Receipts(Pending'[i].message)
    BY DEF Receipts
  <2>. QED
    BY <1>1, <1>6, <2>1, <2>2, <2>3 DEF Stream, ReceiptsInOrder, HeadIntent
<1>9. Monotone
  <2>1. ASSUME NEW q \in Intent, Known(q)
        PROVE  Known(q)'
    BY <1>1, <1>2, <1>7, <2>1 DEF Known, HeadIntent, Receipts
  <2>. QED
    BY <1>1, <1>2, <2>1 DEF Monotone, Exists
<1>. QED
  BY <1>1, <1>5, <1>8, <1>9 DEF Stream

LEMMA RevealedTyped ==
    ASSUME Stream, Pending # <<>>
    PROVE  LET next == Revealed(row) IN
           /\ next \in Row
           /\ next.chat.allocated = row.chat.allocated
           /\ next.chat.published = HeadIntent.sequence
           /\ Len(next.chat.pending) = Len(Pending) - 1
           /\ \A i \in 1..Len(Pending) - 1 : next.chat.pending[i] = Pending[i + 1]
           /\ DOMAIN next.chat.pending = 1..Len(Pending) - 1
<1>1. /\ Tail(Pending) \in Seq(Intent)
      /\ Len(Tail(Pending)) = Len(Pending) - 1
      /\ \A i \in 1..Len(Pending) - 1 : Tail(Pending)[i] = Pending[i + 1]
      /\ DOMAIN Tail(Pending) = 1..Len(Pending) - 1
  BY PendingTyped, HeadTailProperties, LenProperties
<1>2. HeadIntent \in Intent
  BY PendingTyped DEF HeadIntent
<1>3. /\ Revealed(row) \in Row
      /\ Revealed(row).chat.allocated = row.chat.allocated
      /\ Revealed(row).chat.published = HeadIntent.sequence
      /\ Revealed(row).chat.pending = Tail(Pending)
  BY <1>1, <1>2, PendingTyped
     DEF Revealed, NextIntent, HeadIntent, Stream, Row, Chat, Pending, Intent
<1>. QED
  BY <1>1, <1>3

\* The frontier moves over the head, which has its receipt.
LEMMA RevealStep ==
    ASSUME Stream, store' = store, row' = Revealed(row), Pending # <<>>,
           Receipts(HeadIntent.message) = HeadIntent.sequence
    PROVE  Stream' /\ Monotone
<1>. DEFINE size == Len(Pending)
            h == HeadIntent.message
            front == row.chat.published
<1>1. /\ size \in Nat /\ size > 0 /\ DOMAIN Pending = 1..size
      /\ row.chat.allocated \in Nat /\ front \in Nat
      /\ \A i \in 1..size : Pending[i] \in Intent
  BY PendingTyped
<1>2. HeadIntent.sequence = front + 1 /\ h \in Messages
  BY <1>1 DEF Stream, QueueDense, HeadIntent, Intent
<1>3. /\ row' \in Row
      /\ row'.chat.allocated = row.chat.allocated
      /\ row'.chat.published = front + 1
      /\ Len(Pending') = size - 1 /\ DOMAIN Pending' = 1..size - 1
      /\ \A i \in 1..size - 1 : Pending'[i] = Pending[i + 1]
  BY <1>2, RevealedTyped DEF Pending
<1>0. /\ row.chat.allocated = front + size
      /\ \A i \in 1..size : /\ Pending[i].sequence = front + i
                            /\ Exists(Pending[i].message)
      /\ \A i, j \in 1..size : Pending[i].message = Pending[j].message => i = j
  BY <1>1 DEF Stream, QueueDense
<1>4. \A n \in Messages : Receipts(n)' = Receipts(n)
  BY DEF Receipts
<1>5. \A i \in 1..size - 1 : i + 1 \in 1..size
  BY <1>1
<1>6. QueueDense'
  <2>1. row'.chat.allocated = row'.chat.published + Len(Pending')
    BY <1>0, <1>1, <1>3
  <2>2. Len(Pending') =< PendingLimit
    BY <1>1, <1>3, ChatAssumption DEF Stream, QueueDense
  <2>3. \A i \in 1..size - 1 : /\ Pending'[i].sequence = row'.chat.published + i
                               /\ Exists(Pending[i].message)'
    <3>. SUFFICES ASSUME NEW i \in 1..size - 1
                  PROVE  /\ Pending'[i].sequence = row'.chat.published + i
                         /\ Exists(Pending[i].message)'
      OBVIOUS
    <3>1. Pending'[i] = Pending[i + 1] /\ i + 1 \in 1..size /\ i \in Nat
      BY <1>1, <1>3
    <3>2. /\ Pending[i + 1].sequence = front + (i + 1)
          /\ Exists(Pending[i + 1].message)
      BY <1>0, <3>1
    <3>3. row'.chat.published = front + 1 /\ front \in Nat
      BY <1>1, <1>3
    <3>. HIDE DEF front
    <3>. QED
      BY <3>1, <3>2, <3>3 DEF Exists
  <2>4. \A i, j \in 1..size - 1 : Pending'[i].message = Pending'[j].message => i = j
    <3>. SUFFICES ASSUME NEW i \in 1..size - 1, NEW j \in 1..size - 1,
                         Pending'[i].message = Pending'[j].message
                  PROVE  i = j
      OBVIOUS
    <3>1. /\ Pending'[i] = Pending[i + 1] /\ i + 1 \in 1..size /\ i \in Nat
          /\ Pending'[j] = Pending[j + 1] /\ j + 1 \in 1..size /\ j \in Nat
      BY <1>1, <1>3
    <3>. QED
      BY <1>0, <3>1
  <2>. QED
    BY <1>3, <2>1, <2>2, <2>3, <2>4 DEF QueueDense
<1>7. \A n \in Messages : Receipts(n) # 0 => Receipts(n) =< front + 1
  BY <1>1, CandidateTyped DEF Stream, ReceiptsInOrder
<1>8. ReceiptsInOrder'
  <2>1. \A k \in 1..front + 1 : \E n \in Messages : Receipts(n) = k
    <3>1. \A k \in 1..front : \E n \in Messages : Receipts(n) = k
      BY DEF Stream, ReceiptsInOrder
    <3>. QED
      BY <1>1, <1>2, <3>1
  <2>2. \A i \in 1..size - 1 : Receipts(Pending'[i].message) \in {0, Pending'[i].sequence}
    BY <1>1, <1>3, <1>5 DEF Stream, ReceiptsInOrder
  <2>3. \A i \in 1..size - 1 : Receipts(Pending[i].message)' = Receipts(Pending'[i].message)
    BY DEF Receipts
  <2>. QED
    BY <1>3, <1>4, <1>7, <2>1, <2>2, <2>3 DEF Stream, ReceiptsInOrder
<1>9. Monotone
  <2>1. ASSUME NEW q \in Intent, Known(q)
        PROVE  Known(q)'
    <3>1. CASE q.sequence =< front
      BY <1>1, <1>3, <2>1, <3>1 DEF Known, Receipts, Intent
    <3>2. CASE ~(q.sequence =< front)
      BY <1>1, <1>2, <1>3, <2>1, <3>2 DEF Known, Receipts, Intent
    <3>. QED
      BY <3>1, <3>2
  <2>2. \A n \in Messages : Accepted(row', n) => Accepted(row, n)
    <3>. SUFFICES ASSUME NEW n \in Messages, NEW i \in DOMAIN Pending',
                         Pending'[i].message = n
                  PROVE  Accepted(row, n)
      BY DEF Accepted, Pending
    <3>1. Pending'[i] = Pending[i + 1] /\ i + 1 \in DOMAIN Pending
      BY <1>1, <1>3
    <3>. QED
      BY <3>1 DEF Accepted, Pending
  <2>. QED
    BY <1>1, <1>3, <2>1, <2>2 DEF Monotone, Exists
<1>. QED
  BY <1>3, <1>6, <1>8, <1>9 DEF Stream

-----------------------------------------------------------------------------
(* What senders and workers remember.                                      *)

Labels ==
    {"IDLE", "TARGET", "TARGET_KNOWN", "ADOPT", "INSERT", "RETARGET", "REFRESH",
     "ACCEPT", "RECOVER", "PUBLISH", "FRONTIER", "STATUS", "STATUS_REQUEST",
     "STATUS_ANSWER", "CONFIRMED"}
Handler ==
    [pc : Labels, message : Messages \cup {None}, text : Texts \cup {None},
     publication : Nat, witness : Witness \cup {None}, seen : Row \cup {None}]
Recovery == [pc : {"IDLE", "PUBLISH", "FRONTIER"}, seen : Row \cup {None}]
Handlers == req \in [Senders -> Handler] /\ work \in [Workers -> Recovery]

\* The request, and from RETARGET on its candidate.
KnowsCandidate(r) ==
    LET q == req[r] IN
    /\ q.pc # "IDLE" => q.message \in Messages
    /\ q.pc \in {"TARGET", "ADOPT", "INSERT"} => q.text \in Texts
    /\ q.pc = "INSERT" => q.witness \in Witness
    /\ q.pc \in {"TARGET_KNOWN", "RETARGET", "REFRESH", "ACCEPT"} => Exists(q.message)

\* As long as nothing was accepted since the row was captured, the message has
\* not been either; for an acceptance it must also be without a receipt.
KnowsRow(r) ==
    LET q == req[r] IN
    /\ q.pc \in {"REFRESH", "ACCEPT"} =>
          q.seen \in Row /\ q.seen.chat.allocated =< row.chat.allocated
    /\ q.pc = "REFRESH" /\ row.chat.allocated = q.seen.chat.allocated =>
          (Accepted(row, q.message) => Accepted(q.seen, q.message))
    /\ q.pc = "ACCEPT" => Entitled(q.seen, q.message) /\ Room(q.seen)
    /\ q.pc = "ACCEPT" /\ row.chat.allocated = q.seen.chat.allocated =>
          ~Accepted(row, q.message) /\ Receipts(q.message) = 0

\* The intent read for recovery, and at the frontier its receipt.
Intended(seen) ==
    /\ seen \in Row
    /\ seen.chat.pending # <<>>
    /\ Known(NextIntent(seen))
    /\ Exists(NextIntent(seen).message)
Written(seen) == Receipts(NextIntent(seen).message) = NextIntent(seen).sequence

KnowsIntent(r) ==
    /\ req[r].pc \in {"PUBLISH", "FRONTIER"} => Intended(req[r].seen)
    /\ req[r].pc = "FRONTIER" => Written(req[r].seen)

KnowsReceipt(r) ==
    LET q == req[r] IN
    /\ q.pc = "STATUS_ANSWER" => q.publication \in {0, Receipts(q.message)}
    /\ q.pc = "CONFIRMED" =>
          /\ q.publication = Receipts(q.message)
          /\ q.publication \in 1..row.chat.published

Knows(r) == KnowsCandidate(r) /\ KnowsRow(r) /\ KnowsIntent(r) /\ KnowsReceipt(r)

WorkerKnows(w) ==
    /\ work[w].pc \in {"PUBLISH", "FRONTIER"} => Intended(work[w].seen)
    /\ work[w].pc = "FRONTIER" => Written(work[w].seen)

Inv ==
    /\ Stream
    /\ Handlers
    /\ \A r \in Senders : Knows(r)
    /\ \A w \in Workers : WorkerKnows(w)

LEMMA IntentTyped ==
    ASSUME NEW seen \in Row, seen.chat.pending # <<>>
    PROVE  NextIntent(seen) \in Intent
<1>1. seen.chat.pending \in Seq(Intent)
  BY DEF Row, Chat
<1>. QED
  BY <1>1, EmptySeq, LenProperties, ElementOfSeq DEF NextIntent

LEMMA IntendedStays ==
    ASSUME Monotone, NEW seen, Intended(seen)
    PROVE  /\ Intended(seen)'
           /\ Written(seen) => Written(seen)'
<1>. DEFINE p == NextIntent(seen)
<1>1. p \in Intent
  BY IntentTyped DEF Intended
<1>2. p.message \in Messages /\ p.sequence \in Nat \ {0}
  BY <1>1 DEF Intent
<1>3. Known(p)' /\ Exists(p.message)'
  BY <1>1, <1>2 DEF Intended, Monotone, Exists
<1>4. Intended(seen)'
  BY <1>3 DEF Intended, Known, Exists
<1>5. Receipts(p.message) # 0 => Receipts(p.message)' = Receipts(p.message)
  BY <1>2 DEF Monotone, Receipts
<1>6. Written(seen) => Written(seen)'
  BY <1>2, <1>5 DEF Written, Receipts
<1>. QED
  BY <1>4, <1>6

\* Whoever does not move keeps what it knows.
LEMMA SenderStays ==
    ASSUME Stream, Stream', Monotone, Handlers, NEW r \in Senders, Knows(r),
           req'[r] = req[r]
    PROVE  Knows(r)'
<1>. DEFINE q == req[r]
<1>1. q \in Handler
  BY DEF Handlers
<1>2. KnowsCandidate(r)'
  BY DEF Knows, KnowsCandidate, Monotone, Exists
<1>3. KnowsRow(r)'
  <2>1. /\ row.chat.allocated \in Nat /\ row'.chat.allocated \in Nat
        /\ row.chat.allocated =< row'.chat.allocated
    BY PendingTyped DEF Stream, Row, Chat, Monotone
  <2>2. q.pc \in {"REFRESH", "ACCEPT"} =>
           /\ q.seen \in Row /\ q.seen.chat.allocated \in Nat
           /\ q.seen.chat.allocated =< row'.chat.allocated
           /\ row'.chat.allocated = q.seen.chat.allocated =>
                 row.chat.allocated = row'.chat.allocated
           /\ q.message \in Messages /\ Exists(q.message)
    <3>. SUFFICES ASSUME q.pc \in {"REFRESH", "ACCEPT"}
                  PROVE  /\ q.seen \in Row /\ q.seen.chat.allocated \in Nat
                         /\ q.seen.chat.allocated =< row'.chat.allocated
                         /\ row'.chat.allocated = q.seen.chat.allocated =>
                               row.chat.allocated = row'.chat.allocated
                         /\ q.message \in Messages /\ Exists(q.message)
      OBVIOUS
    <3>1. q.seen \in Row /\ q.seen.chat.allocated =< row.chat.allocated
      BY DEF Knows, KnowsRow
    <3>2. q.seen.chat.allocated \in Nat
      BY <3>1 DEF Row, Chat
    <3>3. q.message \in Messages /\ Exists(q.message)
      BY DEF Knows, KnowsCandidate
    <3>. QED
      BY <2>1, <3>1, <3>2, <3>3
  <2>3. q.pc = "REFRESH" /\ row'.chat.allocated = q.seen.chat.allocated =>
           (Accepted(row', q.message) => Accepted(q.seen, q.message))
    BY <2>2 DEF Knows, KnowsRow, Monotone
  <2>4. q.pc = "ACCEPT" => Entitled(q.seen, q.message)' /\ Room(q.seen)
    BY <2>2 DEF Knows, KnowsRow, Monotone, Entitled
  <2>5. q.pc = "ACCEPT" /\ row'.chat.allocated = q.seen.chat.allocated =>
           ~Accepted(row', q.message) /\ store'[q.message].publication = 0
    BY <2>2 DEF Knows, KnowsRow, Monotone, Receipts
  <2>. QED
    BY <2>2, <2>3, <2>4, <2>5 DEF KnowsRow, Receipts, Entitled
<1>4. KnowsIntent(r)'
  <2>1. ASSUME NEW seen, seen = q.seen
        PROVE  /\ Intended(seen) => Intended(seen)'
               /\ Intended(seen) /\ Written(seen) => Written(seen)'
    BY IntendedStays
  <2>. QED
    BY <2>1 DEF Knows, KnowsIntent, Intended, Written, Known, Receipts, Exists, HeadIntent, Pending
<1>5. KnowsReceipt(r)'
  <2>1. q.pc = "STATUS_ANSWER" => q.publication \in {0, store'[q.message].publication}
    BY DEF Knows, KnowsReceipt, KnowsCandidate, Monotone, Receipts
  <2>2. q.pc = "CONFIRMED" =>
           /\ q.publication = store'[q.message].publication
           /\ q.publication \in 1..row'.chat.published
    <3>1. row.chat.published \in Nat /\ row'.chat.published \in Nat
      BY PendingTyped DEF Stream, Row, Chat
    <3>. QED
      BY <3>1 DEF Knows, KnowsReceipt, KnowsCandidate, Monotone, Receipts
  <2>. QED
    BY <2>1, <2>2 DEF KnowsReceipt, Receipts
<1>. QED
  BY <1>2, <1>3, <1>4, <1>5 DEF Knows

LEMMA WorkerStays ==
    ASSUME Monotone, NEW w \in Workers, WorkerKnows(w), work'[w] = work[w]
    PROVE  WorkerKnows(w)'
<1>1. ASSUME NEW seen, seen = work[w].seen
      PROVE  /\ Intended(seen) => Intended(seen)'
             /\ Intended(seen) /\ Written(seen) => Written(seen)'
  BY IntendedStays
<1>. QED
  BY <1>1 DEF WorkerKnows, Intended, Written, Known, Receipts, Exists, HeadIntent, Pending

-----------------------------------------------------------------------------
(* One handler moves, the others stay.                                     *)

\* What every step is shown to do.
Kept == Inv' /\ Monotone

LEMMA NobodyMoves ==
    ASSUME Inv, Stream', Monotone, req' = req, work' = work
    PROVE  Kept
BY SenderStays, WorkerStays DEF Inv, Handlers, Kept

LEMMA SenderMoves ==
    ASSUME Inv, NEW r \in Senders, Stream', Monotone, work' = work,
           req' \in [Senders -> Handler],
           \A s \in Senders : s # r => req'[s] = req[s],
           Knows(r)'
    PROVE  Kept
<1>1. \A s \in Senders : Knows(s)'
  BY SenderStays DEF Inv
<1>2. \A w \in Workers : WorkerKnows(w)'
  BY WorkerStays DEF Inv
<1>. QED
  BY <1>1, <1>2 DEF Inv, Handlers, Kept

LEMMA SenderFinishes ==
    ASSUME Inv, NEW r \in Senders, Stream', Monotone, work' = work, Finish(r)
    PROVE  Kept
<1>1. Idle \in Handler
  BY DEF Idle, Handler, Labels
<1>2. /\ req' \in [Senders -> Handler] /\ req'[r] = Idle
      /\ \A s \in Senders : s # r => req'[s] = req[s]
  BY <1>1 DEF Finish, Inv, Handlers
<1>3. Knows(r)'
  BY <1>2 DEF Knows, KnowsCandidate, KnowsRow, KnowsIntent, KnowsReceipt, Idle
<1>. QED
  BY <1>2, <1>3, SenderMoves

LEMMA WorkerMoves ==
    ASSUME Inv, NEW w \in Workers, NEW local \in Recovery, Stream', Monotone, req' = req,
           work' = [work EXCEPT ![w] = local],
           WorkerKnows(w)'
    PROVE  Kept
<1>1. \A s \in Senders : Knows(s)'
  BY SenderStays DEF Inv
<1>2. /\ work' \in [Workers -> Recovery]
      /\ \A v \in Workers : v # w => work'[v] = work[v]
  BY DEF Inv, Handlers
<1>3. \A v \in Workers : WorkerKnows(v)'
  BY <1>2, WorkerStays DEF Inv
<1>. QED
  BY <1>1, <1>2, <1>3 DEF Inv, Handlers, Kept

-----------------------------------------------------------------------------
(* Every step keeps the invariant.                                         *)

LEMMA InitInv == Init => Inv
<1>. SUFFICES ASSUME Init PROVE Inv
  OBVIOUS
<1>1. row \in Row
  <2>1. {StaffSeat(p) : p \in Guests} \subseteq Seat
    BY LimitsAssumption DEF StaffSeat, Seat
  <2>2. <<>> \in Seq(Entry) /\ <<>> \in Seq(Receipt) /\ <<>> \in Seq(Intent)
    BY EmptySeq
  <2>. QED
    BY <2>1, <2>2 DEF Init, NewRow, Row, Statuses, OpenStatuses, NoChat, Chat, NoReads, Reads
<1>2. store \in [Messages -> Candidate \cup {NoCandidate}]
  BY DEF Init
<1>3. /\ Pending = <<>> /\ Len(Pending) = 0 /\ DOMAIN Pending = {}
      /\ row.chat.allocated = 0 /\ row.chat.published = 0
  BY DEF Init, NewRow, NoChat, Pending
<1>4. QueueDense
  BY <1>3, ChatAssumption DEF QueueDense
<1>5. ReceiptsInOrder
  BY <1>3 DEF ReceiptsInOrder, Init, NoCandidate, Receipts
<1>6. Handlers
  BY DEF Init, Handlers, Idle, IdleWorker, Handler, Labels, Recovery
<1>7. \A r \in Senders : Knows(r)
  BY DEF Init, Knows, KnowsCandidate, KnowsRow, KnowsIntent, KnowsReceipt, Idle
<1>8. \A w \in Workers : WorkerKnows(w)
  BY DEF Init, WorkerKnows, IdleWorker
<1>. QED
  BY <1>1, <1>2, <1>4, <1>5, <1>6, <1>7, <1>8 DEF Inv, Stream

LEMMA EnvironmentInv ==
    ASSUME Inv, Environment
    PROVE  Kept
<1>1. row' \in Row /\ row'.chat = row.chat
  <2>. row \in Row
    BY DEF Inv, Stream
  <2>1. CASE \E a \in Actors, k \in Keys : MemberJoins(a, k)
    BY <2>1, JoinTyped DEF MemberJoins
  <2>2. CASE \E a \in Actors, k \in Keys : MemberLeaves(a, k)
    BY <2>2, LeaveTyped DEF MemberLeaves
  <2>3. CASE \E id \in OrganizerIds, selected \in Actors \cup {None} :
                OrganizerChanges(id, selected)
    BY <2>3, CommandTyped DEF OrganizerChanges
  <2>4. CASE StaffEdits
    BY <2>4, EditTyped DEF StaffEdits
  <2>. QED
    BY <2>1, <2>2, <2>3, <2>4 DEF Environment
<1>2. store' = store /\ req' = req /\ work' = work
  BY DEF Environment, MemberJoins, MemberLeaves, OrganizerChanges, StaffEdits
<1>3. Stream' /\ Monotone
  BY <1>1, <1>2, QuietStep DEF Inv
<1>. QED
  BY <1>2, <1>3, NobodyMoves

\* A sender that only reads.
LEMMA SenderReads ==
    ASSUME Inv, NEW r \in Senders, UNCHANGED <<row, store, work>>,
           NEW local \in Handler, req' = [req EXCEPT ![r] = local], Knows(r)'
    PROVE  Kept
<1>1. Stream' /\ Monotone
  BY SameStep DEF Inv
<1>2. /\ req' \in [Senders -> Handler]
      /\ \A s \in Senders : s # r => req'[s] = req[s]
  BY DEF Inv, Handlers
<1>. QED
  BY <1>1, <1>2, SenderMoves

LEMMA FinishInv ==
    ASSUME Inv, NEW r \in Senders, UNCHANGED <<row, store, work>>, Finish(r)
    PROVE  Kept
BY SameStep, SenderFinishes DEF Inv

LEMMA GotoUpdates ==
    ASSUME Handlers, NEW r \in Senders, NEW label \in Labels, Goto(r, label)
    PROVE  /\ [req[r] EXCEPT !.pc = label] \in Handler
           /\ req' = [req EXCEPT ![r] = [req[r] EXCEPT !.pc = label]]
           /\ req'[r] = [req[r] EXCEPT !.pc = label]
<1>1. req[r] \in Handler
  BY DEF Handlers
<1>. QED
  BY <1>1 DEF Goto, Handlers, Handler

\* At most labels a sender knows its request only.
LEMMA AtLabel ==
    ASSUME NEW r \in Senders, NEW local, req'[r] = local,
           local.pc \in {"TARGET", "TARGET_KNOWN", "ADOPT", "INSERT", "RETARGET",
                         "RECOVER", "STATUS", "STATUS_REQUEST"},
           local.message \in Messages,
           local.pc \in {"TARGET", "ADOPT", "INSERT"} => local.text \in Texts,
           local.pc = "INSERT" => local.witness \in Witness,
           local.pc \in {"TARGET_KNOWN", "RETARGET"} => store'[local.message] # NoCandidate
    PROVE  Knows(r)'
<1>1. KnowsCandidate(r)'
  BY DEF KnowsCandidate, Exists
<1>2. KnowsRow(r)'
  BY DEF KnowsRow
<1>3. KnowsIntent(r)'
  BY DEF KnowsIntent
<1>4. KnowsReceipt(r)'
  BY DEF KnowsReceipt
<1>. QED
  BY <1>1, <1>2, <1>3, <1>4 DEF Knows

LEMMA SendInv ==
    ASSUME Inv, NEW r \in Senders, NEW m \in Messages,
           AskStatus(r, m) \/ \E text \in Texts : Send(r, m, text)
    PROVE  Kept
<1>1. Receipts(m) \in Nat
  BY CandidateTyped DEF Inv
<1>2. CASE AskStatus(r, m)
  <2>. DEFINE local == [Idle EXCEPT !.pc = "STATUS", !.message = m]
  <2>1. local \in Handler /\ req' = [req EXCEPT ![r] = local] /\ req'[r] = local
    BY <1>2 DEF AskStatus, Idle, Handler, Labels, Inv, Handlers
  <2>2. Knows(r)'
    <3>1. local.pc = "STATUS" /\ local.message = m
      BY DEF Idle
    <3>. QED
      BY <2>1, <3>1, AtLabel
  <2>. QED
    BY <1>2, <2>1, <2>2, SenderReads DEF AskStatus
<1>3. ASSUME NEW text \in Texts, Send(r, m, text)
      PROVE  Kept
  <2>. DEFINE local == [Idle EXCEPT !.pc = IF Exists(m) THEN "TARGET_KNOWN" ELSE "TARGET",
                                    !.message = m, !.text = text,
                                    !.publication = store[m].publication]
  <2>1. local \in Handler /\ req' = [req EXCEPT ![r] = local] /\ req'[r] = local
    BY <1>1, <1>3 DEF Send, Idle, Handler, Labels, Inv, Handlers, Receipts
  <2>2. Knows(r)'
    <3>1. /\ local.pc = IF Exists(m) THEN "TARGET_KNOWN" ELSE "TARGET"
          /\ local.message = m /\ local.text = text
      BY DEF Idle
    <3>2. Exists(m) => store'[m] # NoCandidate
      BY <1>3 DEF Send, Exists
    <3>. HIDE DEF local
    <3>3. CASE Exists(m)
      BY <2>1, <3>1, <3>2, <3>3, AtLabel
    <3>4. CASE ~Exists(m)
      BY <2>1, <3>1, <3>4, AtLabel
    <3>. QED
      BY <3>3, <3>4
  <2>. QED
    BY <1>3, <2>1, <2>2, SenderReads DEF Send
<1>. QED
  BY <1>2, <1>3

LEMMA TargetInv ==
    ASSUME Inv, NEW r \in Senders, Target(r) \/ TargetKnown(r) \/ Retarget(r)
    PROVE  Kept
<1>1. req[r] \in Handler /\ row \in Row
  BY DEF Inv, Handlers, Stream
<1>2. CASE Target(r)
  <2>1. req[r].message \in Messages /\ req[r].text \in Texts
    BY <1>2 DEF Target, Inv, Knows, KnowsCandidate
  <2>2. CASE Finish(r)
    BY <1>2, <2>2, FinishInv DEF Target
  <2>3. CASE req' = [req EXCEPT ![r].pc = "ADOPT", ![r].seen = row]
    <3>. DEFINE local == [req[r] EXCEPT !.pc = "ADOPT", !.seen = row]
    <3>1. local \in Handler /\ req' = [req EXCEPT ![r] = local] /\ req'[r] = local
      BY <1>1, <2>3 DEF Handler, Labels, Inv, Handlers
    <3>2. Knows(r)'
      <4>1. local.pc = "ADOPT" /\ local.message \in Messages /\ local.text \in Texts
        BY <1>1, <2>1 DEF Handler
      <4>. QED
        BY <3>1, <4>1, AtLabel
    <3>. QED
      BY <1>2, <3>1, <3>2, SenderReads DEF Target
  <2>4. ASSUME NEW w \in Access(r), req' = [req EXCEPT ![r].pc = "INSERT", ![r].witness = w]
        PROVE  Kept
    <3>. DEFINE local == [req[r] EXCEPT !.pc = "INSERT", !.witness = w]
    <3>1. w \in Witness
      <4>1. Author(r) \in Actors
        BY <2>1, ChatAssumption DEF Author
      <4>. QED
        BY <1>1, <4>1, WitnessesTyped DEF Access
    <3>2. local \in Handler /\ req' = [req EXCEPT ![r] = local] /\ req'[r] = local
      BY <1>1, <2>4, <3>1 DEF Handler, Labels, Inv, Handlers
    <3>3. Knows(r)'
      <4>1. /\ local.pc = "INSERT" /\ local.message \in Messages
            /\ local.text \in Texts /\ local.witness \in Witness
        BY <1>1, <2>1, <3>1 DEF Handler
      <4>. QED
        BY <3>2, <4>1, AtLabel
    <3>. QED
      BY <1>2, <3>2, <3>3, SenderReads DEF Target
  <2>. QED
    BY <1>2, <2>2, <2>3, <2>4 DEF Target
<1>3. CASE TargetKnown(r)
  <2>1. CASE Finish(r)
    BY <1>3, <2>1, FinishInv DEF TargetKnown
  <2>2. CASE Goto(r, "RETARGET")
    <3>. DEFINE local == [req[r] EXCEPT !.pc = "RETARGET"]
    <3>1. local \in Handler /\ req' = [req EXCEPT ![r] = local] /\ req'[r] = local
      BY <2>2, GotoUpdates DEF Inv, Labels
    <3>2. Knows(r)'
      BY <1>1, <1>3, <3>1 DEF TargetKnown, Inv, Knows, KnowsCandidate, KnowsRow, KnowsIntent,
                              KnowsReceipt, Handler, Exists
    <3>. QED
      BY <1>3, <3>1, <3>2, SenderReads DEF TargetKnown
  <2>. QED
    BY <1>3, <2>1, <2>2 DEF TargetKnown
<1>4. CASE Retarget(r)
  <2>1. CASE Finish(r)
    BY <1>4, <2>1, FinishInv DEF Retarget
  <2>2. CASE req' = [req EXCEPT ![r].pc = "REFRESH", ![r].seen = row]
    <3>. DEFINE local == [req[r] EXCEPT !.pc = "REFRESH", !.seen = row]
    <3>1. local \in Handler /\ req' = [req EXCEPT ![r] = local] /\ req'[r] = local
      BY <1>1, <2>2 DEF Handler, Labels, Inv, Handlers
    <3>2. row.chat.allocated =< row.chat.allocated
      BY PendingTyped DEF Inv
    <3>3. Knows(r)'
      BY <1>1, <1>4, <3>1, <3>2
         DEF Retarget, Inv, Knows, KnowsCandidate, KnowsRow, KnowsIntent, KnowsReceipt,
             Handler, Exists
    <3>. QED
      BY <1>4, <3>1, <3>3, SenderReads DEF Retarget
  <2>. QED
    BY <1>4, <2>1, <2>2 DEF Retarget
<1>. QED
  BY <1>2, <1>3, <1>4

LEMMA AdoptInv ==
    ASSUME Inv, NEW r \in Senders, Adopt(r)
    PROVE  Kept
<1>1. req[r] \in Handler /\ req[r].message \in Messages /\ req[r].text \in Texts
  BY DEF Adopt, Inv, Handlers, Knows, KnowsCandidate
<1>2. store' = store /\ work' = work
  BY DEF Adopt
<1>3. row' \in Row /\ row'.chat.allocated = row.chat.allocated
      /\ row'.chat.published = row.chat.published /\ row'.chat.pending = row.chat.pending
  <2>1. row \in Row /\ row.chat \in Chat
    BY DEF Inv, Stream, Row
  <2>2. Adopted(row) \in Row /\ Adopted(row).chat = [row.chat EXCEPT !.adopted = TRUE]
    BY <2>1, AdoptedTyped
  <2>3. row' = Adopted(row) \/ row' = row
    BY DEF Adopt
  <2>. QED
    BY <2>1, <2>2, <2>3 DEF Chat
<1>4. Stream' /\ Monotone
  BY <1>2, <1>3, QuietStep DEF Inv
<1>5. CASE Finish(r)
  BY <1>2, <1>4, <1>5, SenderFinishes
<1>6. CASE req' = [req EXCEPT ![r].pc = "TARGET", ![r].seen = None]
  <2>. DEFINE local == [req[r] EXCEPT !.pc = "TARGET", !.seen = None]
  <2>1. /\ local \in Handler /\ local.pc = "TARGET"
        /\ local.message \in Messages /\ local.text \in Texts
    BY <1>1 DEF Handler, Labels
  <2>2. /\ req' \in [Senders -> Handler] /\ req'[r] = local
        /\ \A s \in Senders : s # r => req'[s] = req[s]
    BY <1>6, <2>1 DEF Inv, Handlers
  <2>. HIDE DEF local
  <2>3. Knows(r)'
    BY <2>1, <2>2, AtLabel
  <2>. QED
    BY <1>2, <1>4, <2>2, <2>3, SenderMoves
<1>. QED
  BY <1>5, <1>6 DEF Adopt

LEMMA InsertInv ==
    ASSUME Inv, NEW r \in Senders, Insert(r)
    PROVE  Kept
<1>. DEFINE m == req[r].message
<1>1. /\ req[r] \in Handler /\ m \in Messages /\ req[r].text \in Texts
      /\ req[r].witness \in Witness
  BY DEF Insert, Inv, Handlers, Knows, KnowsCandidate
<1>2. row' = row /\ work' = work
  BY DEF Insert
<1>3. CASE ~Exists(m)
  <2>1. /\ store' = [store EXCEPT ![m] =
              [text |-> req[r].text, witness |-> req[r].witness, publication |-> 0]]
        /\ req' = [req EXCEPT ![r].pc = "RETARGET", ![r].witness = None]
    BY <1>3 DEF Insert
  <2>2. Stream' /\ Monotone
    BY <1>1, <1>2, <1>3, <2>1, InsertStep DEF Inv
  <2>3. store'[m] # NoCandidate
    <3>1. store'[m] = [text |-> req[r].text, witness |-> req[r].witness, publication |-> 0]
      BY <1>1, <2>1 DEF Inv, Stream
    <3>. QED
      BY <1>1, <3>1, ChatAssumption DEF NoCandidate
  <2>. DEFINE local == [req[r] EXCEPT !.pc = "RETARGET", !.witness = None]
  <2>4. local \in Handler /\ local.pc = "RETARGET" /\ local.message = m
    BY <1>1 DEF Handler, Labels
  <2>5. /\ req' \in [Senders -> Handler] /\ req'[r] = local
        /\ \A s \in Senders : s # r => req'[s] = req[s]
    BY <2>1, <2>4 DEF Inv, Handlers
  <2>. HIDE DEF local
  <2>6. Knows(r)'
    BY <1>1, <2>3, <2>4, <2>5, AtLabel
  <2>. QED
    BY <1>2, <2>2, <2>5, <2>6, SenderMoves
<1>4. CASE Exists(m)
  <2>1. store' = store /\ UNCHANGED <<row, store, work>>
    BY <1>2, <1>4 DEF Insert
  <2>2. CASE Finish(r)
    BY <2>1, <2>2, FinishInv
  <2>3. CASE req' = [req EXCEPT ![r].pc = "RETARGET", ![r].witness = None,
                                ![r].publication = store[m].publication]
    <3>. DEFINE local == [req[r] EXCEPT !.pc = "RETARGET", !.witness = None,
                                        !.publication = store[m].publication]
    <3>1. store[m].publication \in Nat
      BY <1>1, CandidateTyped DEF Inv, Receipts
    <3>2. local \in Handler /\ local.pc = "RETARGET" /\ local.message = m
      BY <1>1, <3>1 DEF Handler, Labels
    <3>3. req' = [req EXCEPT ![r] = local] /\ req'[r] = local
      BY <1>1, <2>3 DEF Inv, Handlers, Handler
    <3>4. store'[m] # NoCandidate
      BY <1>4, <2>1 DEF Exists
    <3>. HIDE DEF local
    <3>5. Knows(r)'
      BY <1>1, <3>2, <3>3, <3>4, AtLabel
    <3>. QED
      BY <2>1, <3>2, <3>3, <3>5, SenderReads
  <2>. QED
    BY <1>4, <2>2, <2>3 DEF Insert
<1>. QED
  BY <1>3, <1>4

LEMMA RefreshInv ==
    ASSUME Inv, NEW r \in Senders, Refresh(r)
    PROVE  Kept
<1>. DEFINE m == req[r].message
<1>1. req[r] \in Handler /\ m \in Messages /\ Exists(m) /\ UNCHANGED <<row, store, work>>
  BY DEF Refresh, Inv, Handlers, Knows, KnowsCandidate
<1>2. CASE Finish(r)
  BY <1>1, <1>2, FinishInv
<1>3. CASE req' = [req EXCEPT ![r].pc = "RECOVER", ![r].seen = None]
  <2>. DEFINE local == [req[r] EXCEPT !.pc = "RECOVER", !.seen = None]
  <2>1. local \in Handler /\ local.pc = "RECOVER" /\ local.message = m
    BY <1>1 DEF Handler, Labels
  <2>2. req' = [req EXCEPT ![r] = local] /\ req'[r] = local
    BY <1>1, <1>3 DEF Inv, Handlers, Handler
  <2>. HIDE DEF local
  <2>3. Knows(r)'
    BY <1>1, <2>1, <2>2, AtLabel
  <2>. QED
    BY <1>1, <2>1, <2>2, <2>3, SenderReads
<1>4. CASE /\ ~(Accepted(req[r].seen, m) \/ Latest(r) # 0)
           /\ Entitled(req[r].seen, m) /\ Room(req[r].seen)
           /\ Goto(r, "ACCEPT")
  <2>. DEFINE local == [req[r] EXCEPT !.pc = "ACCEPT"]
  <2>1. /\ local \in Handler /\ req' = [req EXCEPT ![r] = local] /\ req'[r] = local
    BY <1>4, GotoUpdates DEF Inv, Labels
  <2>2. local.pc = "ACCEPT" /\ local.message = m /\ local.seen = req[r].seen
    BY <1>1 DEF Handler
  <2>3. /\ req[r].seen \in Row /\ req[r].seen.chat.allocated =< row.chat.allocated
        /\ row.chat.allocated = req[r].seen.chat.allocated => ~Accepted(row, m)
    BY <1>4 DEF Refresh, Inv, Knows, KnowsRow
  <2>4. Receipts(m) = 0
    BY <1>4 DEF Latest, Receipts
  <2>. HIDE DEF local
  <2>5. KnowsCandidate(r)'
    BY <1>1, <2>1, <2>2 DEF KnowsCandidate, Exists
  <2>6. KnowsRow(r)'
    BY <1>1, <1>4, <2>1, <2>2, <2>3, <2>4 DEF KnowsRow, Receipts, Entitled
  <2>7. KnowsIntent(r)' /\ KnowsReceipt(r)'
    BY <2>1, <2>2 DEF KnowsIntent, KnowsReceipt
  <2>8. Knows(r)'
    BY <2>5, <2>6, <2>7 DEF Knows
  <2>. QED
    BY <1>1, <2>1, <2>8, SenderReads
<1>. QED
  BY <1>2, <1>3, <1>4 DEF Refresh

LEMMA AcceptInv ==
    ASSUME Inv, NEW r \in Senders, Accept(r)
    PROVE  Kept
<1>. DEFINE m == req[r].message
<1>1. /\ req[r] \in Handler /\ m \in Messages /\ Exists(m)
      /\ store' = store /\ work' = work
      /\ req' = [req EXCEPT ![r].pc = "RECOVER", ![r].seen = None]
  BY DEF Accept, Inv, Handlers, Knows, KnowsCandidate
<1>2. Stream' /\ Monotone
  <2>1. CASE row' = row
    BY <1>1, <2>1, SameStep DEF Inv
  <2>2. CASE Preimage(req[r].seen) /\ row' = Appended(row, m)
    <3>1. ~Accepted(row, m) /\ Receipts(m) = 0 /\ Room(row)
      BY <2>2 DEF Accept, Preimage, Inv, Knows, KnowsRow
    <3>. QED
      BY <1>1, <2>2, <3>1, AcceptStep DEF Inv
  <2>. QED
    BY <2>1, <2>2 DEF Accept
<1>. DEFINE local == [req[r] EXCEPT !.pc = "RECOVER", !.seen = None]
<1>3. local \in Handler /\ local.pc = "RECOVER" /\ local.message = m
  BY <1>1 DEF Handler, Labels
<1>4. /\ req' \in [Senders -> Handler] /\ req'[r] = local
      /\ \A s \in Senders : s # r => req'[s] = req[s]
  BY <1>1, <1>3 DEF Inv, Handlers
<1>. HIDE DEF local
<1>5. Knows(r)'
  BY <1>1, <1>3, <1>4, AtLabel
<1>. QED
  BY <1>1, <1>2, <1>4, <1>5, SenderMoves

-----------------------------------------------------------------------------
(* Recovery and status.                                                    *)

\* What is read for recovery is the head of the queue.
LEMMA HeadIntended == ASSUME Stream, Pending # <<>> PROVE Intended(row)
<1>1. NextIntent(row) = HeadIntent /\ 1 \in DOMAIN Pending
  BY PendingTyped DEF NextIntent, HeadIntent, Pending
<1>2. HeadIntent \in Intent /\ HeadIntent.sequence = row.chat.published + 1
      /\ Exists(HeadIntent.message)
  BY <1>1, PendingTyped DEF Stream, QueueDense, HeadIntent
<1>3. Known(HeadIntent)
  BY <1>2, PendingTyped DEF Known
<1>. QED
  BY <1>1, <1>2, <1>3 DEF Intended, Stream, Pending

\* Publication by whoever holds an intended row.
LEMMA IntendedPublished ==
    ASSUME Stream, row' = row, NEW seen, Intended(seen), Publishes(NextIntent(seen))
    PROVE  Stream' /\ Monotone /\ Intended(seen)' /\ Written(seen)'
<1>1. NextIntent(seen) \in Intent
  BY IntentTyped DEF Intended
<1>2. Stream' /\ Monotone /\ Receipts(NextIntent(seen).message)' = NextIntent(seen).sequence
  BY <1>1, PublishStep DEF Intended
<1>. QED
  BY <1>2, IntendedStays DEF Written, Receipts

\* The frontier moves only if the row is still the one that was read.
LEMMA IntendedRevealed ==
    ASSUME Stream, store' = store, NEW seen, Intended(seen), Written(seen),
           Preimage(seen), row' = Revealed(row)
    PROVE  Stream' /\ Monotone
<1>1. seen = row /\ Pending # <<>> /\ NextIntent(seen) = HeadIntent
  BY DEF Preimage, Intended, NextIntent, HeadIntent, Pending
<1>. QED
  BY <1>1, RevealStep DEF Written

LEMMA RecoverInv ==
    ASSUME Inv, NEW r \in Senders, Recover(r)
    PROVE  Kept
<1>1. /\ req[r] \in Handler /\ req[r].message \in Messages
      /\ UNCHANGED <<row, store, work>>
  BY DEF Recover, Inv, Handlers, Knows, KnowsCandidate
<1>2. CASE Goto(r, "STATUS")
  <2>. DEFINE local == [req[r] EXCEPT !.pc = "STATUS"]
  <2>1. local \in Handler /\ req' = [req EXCEPT ![r] = local] /\ req'[r] = local
    BY <1>2, GotoUpdates DEF Inv, Labels
  <2>2. local.pc = "STATUS" /\ local.message \in Messages
    BY <1>1 DEF Handler
  <2>. HIDE DEF local
  <2>3. Knows(r)'
    BY <2>1, <2>2, AtLabel
  <2>. QED
    BY <1>1, <2>1, <2>3, SenderReads
<1>3. CASE Pending # <<>> /\ req' = [req EXCEPT ![r].pc = "PUBLISH", ![r].seen = row]
  <2>. DEFINE local == [req[r] EXCEPT !.pc = "PUBLISH", !.seen = row]
  <2>1. row \in Row /\ Intended(row)
    BY <1>3, HeadIntended DEF Inv, Stream
  <2>2. /\ local \in Handler /\ local.pc = "PUBLISH" /\ local.seen = row
        /\ local.message \in Messages
    BY <1>1, <2>1 DEF Handler, Labels
  <2>3. req' = [req EXCEPT ![r] = local] /\ req'[r] = local
    BY <1>1, <1>3 DEF Inv, Handlers, Handler
  <2>4. Intended(row)'
    BY <1>1, <2>1 DEF Intended, Known, Receipts, HeadIntent, Pending, Exists
  <2>. HIDE DEF local
  <2>5. KnowsIntent(r)'
    BY <1>1, <2>2, <2>3, <2>4 DEF KnowsIntent
  <2>6. KnowsCandidate(r)' /\ KnowsRow(r)' /\ KnowsReceipt(r)'
    BY <2>2, <2>3 DEF KnowsCandidate, KnowsRow, KnowsReceipt
  <2>7. Knows(r)'
    BY <2>5, <2>6 DEF Knows
  <2>. QED
    BY <1>1, <2>2, <2>3, <2>7, SenderReads
<1>. QED
  BY <1>2, <1>3 DEF Recover

\* After recovery, whatever came of it, the sender asks for the status.
LEMMA SenderToStatus ==
    ASSUME Inv, NEW r \in Senders, req[r].pc # "IDLE", Stream', Monotone, work' = work,
           req' = [req EXCEPT ![r].pc = "STATUS", ![r].seen = None]
    PROVE  Kept
<1>1. req[r] \in Handler /\ req[r].message \in Messages
  BY DEF Inv, Handlers, Knows, KnowsCandidate
<1>. DEFINE local == [req[r] EXCEPT !.pc = "STATUS", !.seen = None]
<1>2. local \in Handler /\ local.pc = "STATUS" /\ local.message \in Messages
  BY <1>1 DEF Handler, Labels
<1>3. /\ req' \in [Senders -> Handler] /\ req'[r] = local
      /\ \A s \in Senders : s # r => req'[s] = req[s]
  BY <1>2 DEF Inv, Handlers
<1>. HIDE DEF local
<1>4. Knows(r)'
  BY <1>2, <1>3, AtLabel
<1>. QED
  BY <1>3, <1>4, SenderMoves

LEMMA PublishOwnInv ==
    ASSUME Inv, NEW r \in Senders, PublishOwn(r)
    PROVE  Kept
<1>1. /\ req[r] \in Handler /\ req[r].message \in Messages /\ req[r].pc = "PUBLISH"
      /\ row' = row /\ work' = work /\ Intended(req[r].seen)
  BY DEF PublishOwn, Inv, Handlers, Knows, KnowsCandidate, KnowsIntent
<1>2. CASE UNCHANGED store /\ req' = [req EXCEPT ![r].pc = "STATUS", ![r].seen = None]
  BY <1>1, <1>2, SameStep, SenderToStatus DEF Inv
<1>3. CASE Publishes(NextIntent(req[r].seen)) /\ Goto(r, "FRONTIER")
  <2>. DEFINE local == [req[r] EXCEPT !.pc = "FRONTIER"]
  <2>1. /\ Stream' /\ Monotone
        /\ \A seen : seen = req[r].seen => Intended(seen)' /\ Written(seen)'
    BY <1>1, <1>3, IntendedPublished DEF Inv
  <2>2. local \in Handler /\ req' = [req EXCEPT ![r] = local] /\ req'[r] = local
    BY <1>3, GotoUpdates DEF Inv, Labels
  <2>3. local.pc = "FRONTIER" /\ local.seen = req[r].seen /\ local.message \in Messages
    BY <1>1 DEF Handler
  <2>. HIDE DEF local
  <2>4. KnowsIntent(r)'
    BY <2>1, <2>2, <2>3
       DEF KnowsIntent, Intended, Written, Known, Receipts, Exists, HeadIntent, Pending
  <2>5. KnowsCandidate(r)' /\ KnowsRow(r)' /\ KnowsReceipt(r)'
    BY <2>2, <2>3 DEF KnowsCandidate, KnowsRow, KnowsReceipt
  <2>6. /\ req' \in [Senders -> Handler]
        /\ \A s \in Senders : s # r => req'[s] = req[s]
    BY <2>2 DEF Inv, Handlers
  <2>7. Knows(r)'
    BY <2>4, <2>5 DEF Knows
  <2>. QED
    BY <1>1, <2>1, <2>6, <2>7, SenderMoves
<1>. QED
  BY <1>2, <1>3 DEF PublishOwn

LEMMA FrontierOwnInv ==
    ASSUME Inv, NEW r \in Senders, FrontierOwn(r)
    PROVE  Kept
<1>1. /\ req[r].pc = "FRONTIER" /\ store' = store /\ work' = work
      /\ Intended(req[r].seen) /\ Written(req[r].seen)
      /\ req' = [req EXCEPT ![r].pc = "STATUS", ![r].seen = None]
  BY DEF FrontierOwn, Inv, Knows, KnowsIntent
<1>2. CASE row' = row
  BY <1>1, <1>2, SameStep, SenderToStatus DEF Inv
<1>3. CASE Preimage(req[r].seen) /\ row' = Revealed(row)
  BY <1>1, <1>3, IntendedRevealed, SenderToStatus DEF Inv
<1>. QED
  BY <1>2, <1>3 DEF FrontierOwn

LEMMA StatusInv ==
    ASSUME Inv, NEW r \in Senders, StatusTarget(r) \/ StatusRequest(r) \/ StatusAnswer(r)
    PROVE  Kept
<1>1. /\ req[r] \in Handler /\ req[r].message \in Messages
      /\ UNCHANGED <<row, store, work>>
  BY DEF StatusTarget, StatusRequest, StatusAnswer, Inv, Handlers, Knows, KnowsCandidate
<1>2. Receipts(req[r].message) \in Nat /\ row.chat.published \in Nat
  BY <1>1, CandidateTyped, PendingTyped DEF Inv
<1>3. CASE Finish(r)
  BY <1>1, <1>3, FinishInv
<1>4. CASE Goto(r, "STATUS_REQUEST")
  <2>. DEFINE local == [req[r] EXCEPT !.pc = "STATUS_REQUEST"]
  <2>1. local \in Handler /\ req' = [req EXCEPT ![r] = local] /\ req'[r] = local
    BY <1>4, GotoUpdates DEF Inv, Labels
  <2>2. local.pc = "STATUS_REQUEST" /\ local.message \in Messages
    BY <1>1 DEF Handler
  <2>. HIDE DEF local
  <2>3. Knows(r)'
    BY <2>1, <2>2, AtLabel
  <2>. QED
    BY <1>1, <2>1, <2>3, SenderReads
<1>5. CASE StatusRequest(r)
  <2>. DEFINE local == [req[r] EXCEPT !.pc = "STATUS_ANSWER",
                                      !.publication = store[req[r].message].publication]
  <2>1. /\ local \in Handler /\ local.pc = "STATUS_ANSWER" /\ local.message = req[r].message
        /\ local.publication = Receipts(req[r].message)
    BY <1>1, <1>2 DEF Handler, Labels, Receipts
  <2>2. req' = [req EXCEPT ![r] = local] /\ req'[r] = local
    BY <1>1, <1>5 DEF StatusRequest, Inv, Handlers, Handler
  <2>. HIDE DEF local
  <2>3. KnowsReceipt(r)'
    BY <1>1, <2>1, <2>2 DEF KnowsReceipt, Receipts
  <2>4. KnowsCandidate(r)' /\ KnowsRow(r)' /\ KnowsIntent(r)'
    BY <1>1, <2>1, <2>2 DEF KnowsCandidate, KnowsRow, KnowsIntent
  <2>5. Knows(r)'
    BY <2>3, <2>4 DEF Knows
  <2>. QED
    BY <1>1, <2>1, <2>2, <2>5, SenderReads
<1>6. CASE /\ req[r].pc = "STATUS_ANSWER" /\ Visible(req[r].publication)
           /\ req' = [req EXCEPT ![r].pc = "CONFIRMED", ![r].text = None]
  <2>. DEFINE local == [req[r] EXCEPT !.pc = "CONFIRMED", !.text = None]
  <2>1. /\ local \in Handler /\ local.pc = "CONFIRMED" /\ local.message = req[r].message
        /\ local.publication = req[r].publication
    BY <1>1 DEF Handler, Labels
  <2>2. req' = [req EXCEPT ![r] = local] /\ req'[r] = local
    BY <1>1, <1>6 DEF Inv, Handlers, Handler
  <2>3. /\ req[r].publication = Receipts(req[r].message)
        /\ req[r].publication \in 1..row.chat.published
    BY <1>2, <1>6 DEF Inv, Knows, KnowsReceipt, Visible
  <2>. HIDE DEF local
  <2>4. KnowsReceipt(r)'
    BY <1>1, <2>1, <2>2, <2>3 DEF KnowsReceipt, Receipts
  <2>5. KnowsCandidate(r)' /\ KnowsRow(r)' /\ KnowsIntent(r)'
    BY <1>1, <2>1, <2>2 DEF KnowsCandidate, KnowsRow, KnowsIntent
  <2>6. Knows(r)'
    BY <2>4, <2>5 DEF Knows
  <2>. QED
    BY <1>1, <2>1, <2>2, <2>6, SenderReads
<1>. QED
  BY <1>3, <1>4, <1>5, <1>6 DEF StatusTarget, StatusAnswer

LEMMA WorkerInv ==
    ASSUME Inv, NEW w \in Workers, Worker(w)
    PROVE  Kept
<1>1. work[w] \in Recovery /\ row \in Row
  BY DEF Inv, Handlers, Stream
<1>2. CASE Tick(w)
  <2>. DEFINE local == [pc |-> "PUBLISH", seen |-> row]
  <2>1. UNCHANGED <<row, store, req>> /\ work' = [work EXCEPT ![w] = local]
    BY <1>2 DEF Tick
  <2>2. local \in Recovery
    BY <1>1 DEF Recovery
  <2>3. Intended(row)
    BY <1>2, HeadIntended DEF Tick, Inv
  <2>4. Intended(row)'
    BY <2>1, <2>3 DEF Intended, Known, Receipts, HeadIntent, Pending, Exists
  <2>5. work'[w] = local
    BY <2>1 DEF Inv, Handlers
  <2>6. WorkerKnows(w)'
    BY <2>1, <2>4, <2>5 DEF WorkerKnows
  <2>7. Stream' /\ Monotone
    BY <2>1, SameStep DEF Inv
  <2>. QED
    BY <2>1, <2>2, <2>6, <2>7, WorkerMoves
<1>3. CASE WorkerPublish(w)
  <2>. DEFINE local == [work[w] EXCEPT !.pc = "FRONTIER"]
  <2>1. row' = row /\ req' = req /\ Intended(work[w].seen)
    BY <1>3 DEF WorkerPublish, Inv, WorkerKnows
  <2>2. /\ Stream' /\ Monotone
        /\ \A seen : seen = work[w].seen => Intended(seen)' /\ Written(seen)'
    BY <1>3, <2>1, IntendedPublished DEF WorkerPublish, Inv
  <2>3. local \in Recovery /\ local.seen = work[w].seen
    BY <1>1 DEF Recovery
  <2>4. work' = [work EXCEPT ![w] = local] /\ work'[w] = local
    BY <1>1, <1>3 DEF WorkerPublish, Inv, Handlers, Recovery
  <2>. HIDE DEF local
  <2>5. WorkerKnows(w)'
    BY <2>2, <2>3, <2>4
       DEF WorkerKnows, Intended, Written, Known, Receipts, Exists, HeadIntent, Pending
  <2>. QED
    BY <2>1, <2>2, <2>3, <2>4, <2>5, WorkerMoves
<1>4. ASSUME work' = [work EXCEPT ![w] = IdleWorker], req' = req, Stream', Monotone
      PROVE  Kept
  <2>1. IdleWorker \in Recovery /\ work'[w] = IdleWorker
    BY <1>4 DEF IdleWorker, Recovery, Inv, Handlers
  <2>2. WorkerKnows(w)'
    BY <2>1 DEF WorkerKnows, IdleWorker
  <2>. QED
    BY <1>4, <2>1, <2>2, WorkerMoves
<1>5. CASE WorkerFrontier(w)
  <2>1. Intended(work[w].seen) /\ Written(work[w].seen)
    BY <1>5 DEF WorkerFrontier, Inv, WorkerKnows
  <2>2. Stream' /\ Monotone
    BY <1>5, <2>1, IntendedRevealed DEF WorkerFrontier, Inv
  <2>. QED
    BY <1>4, <1>5, <2>2 DEF WorkerFrontier
<1>6. CASE WorkerStop(w)
  BY <1>4, <1>6, SameStep DEF WorkerStop, Inv
<1>. QED
  BY <1>2, <1>3, <1>5, <1>6 DEF Worker

LEMMA NextKept == Inv /\ [Next]_vars => Kept
<1>. SUFFICES ASSUME Inv, [Next]_vars PROVE Kept
  OBVIOUS
<1>1. CASE UNCHANGED vars
  BY <1>1, SameStep, NobodyMoves DEF vars, Inv
<1>2. CASE Environment
  BY <1>2, EnvironmentInv
<1>3. ASSUME NEW r \in Senders, Sender(r) PROVE Kept
  <2>1. CASE Stop(r)
    BY <2>1, FinishInv DEF Stop
  <2>. QED
    BY <1>3, <2>1, SendInv, TargetInv, AdoptInv, InsertInv, RefreshInv, AcceptInv,
       RecoverInv, PublishOwnInv, FrontierOwnInv, StatusInv DEF Sender
<1>4. ASSUME NEW w \in Workers, Worker(w) PROVE Kept
  BY <1>4, WorkerInv
<1>. QED
  BY <1>1, <1>2, <1>3, <1>4 DEF Next

LEMMA Invariant == Spec => []Inv
<1>1. Inv /\ [Next]_vars => Inv'
  BY NextKept DEF Kept
<1>. QED
  BY <1>1, InitInv, PTL DEF Spec

-----------------------------------------------------------------------------
(* What a step does to the accepted messages.                              *)

Still ==
    /\ row'.chat.allocated = row.chat.allocated
    /\ row'.chat.published = row.chat.published
    /\ row'.chat.pending = row.chat.pending

Accepts(m) ==
    /\ ~Accepted(row, m) /\ Receipts(m) = 0 /\ Entitled(row, m)
    /\ row' = Appended(row, m) /\ store' = store

Reveals ==
    /\ Pending # <<>> /\ Receipts(HeadIntent.message) = HeadIntent.sequence
    /\ row' = Revealed(row) /\ store' = store

LEMMA Frontiers ==
    ASSUME NEW seen, Intended(seen), Written(seen), Preimage(seen), row' = Revealed(row),
           store' = store
    PROVE  Reveals
BY DEF Preimage, Intended, Written, NextIntent, HeadIntent, Pending, Reveals

LEMMA Steps ==
    ASSUME Inv, [Next]_vars
    PROVE  Still \/ Reveals \/ \E m \in Messages : Accepts(m)
<1>. DEFINE Goal == Still \/ Reveals \/ \E m \in Messages : Accepts(m)
<1>1. row' = row => Still
  BY DEF Still
<1>2. CASE UNCHANGED vars
  BY <1>1, <1>2 DEF vars
<1>3. CASE Environment
  <2>. row \in Row
    BY DEF Inv, Stream
  <2>1. row'.chat = row.chat
    BY <1>3, JoinTyped, LeaveTyped, CommandTyped, EditTyped
       DEF Environment, MemberJoins, MemberLeaves, OrganizerChanges, StaffEdits
  <2>. QED
    BY <2>1 DEF Still
<1>4. ASSUME NEW r \in Senders, Sender(r) PROVE Goal
  <2>1. CASE Adopt(r)
    <3>1. row \in Row /\ row.chat \in Chat
      BY DEF Inv, Stream, Row
    <3>2. Adopted(row).chat = [row.chat EXCEPT !.adopted = TRUE]
      BY <3>1, AdoptedTyped
    <3>3. row' = row \/ row' = Adopted(row)
      BY <2>1 DEF Adopt
    <3>. QED
      BY <1>1, <3>1, <3>2, <3>3 DEF Chat, Still
  <2>2. CASE Accept(r)
    <3>. DEFINE m == req[r].message
    <3>1. m \in Messages
      BY <2>2 DEF Accept, Inv, Knows, KnowsCandidate
    <3>2. CASE Preimage(req[r].seen) /\ row' = Appended(row, m)
      <4>1. Accepts(m)
        BY <2>2, <3>2 DEF Accept, Preimage, Inv, Knows, KnowsRow, Accepts
      <4>. QED
        BY <3>1, <4>1
    <3>. QED
      BY <1>1, <2>2, <3>2 DEF Accept
  <2>3. CASE FrontierOwn(r)
    <3>1. CASE Preimage(req[r].seen) /\ row' = Revealed(row)
      <4>1. Intended(req[r].seen) /\ Written(req[r].seen) /\ store' = store
        BY <2>3 DEF FrontierOwn, Inv, Knows, KnowsIntent
      <4>2. Reveals
        BY <3>1, <4>1, Frontiers
      <4>. QED
        BY <4>2
    <3>. QED
      BY <1>1, <2>3, <3>1 DEF FrontierOwn
  <2>4. CASE ~Adopt(r) /\ ~Accept(r) /\ ~FrontierOwn(r)
    <3>1. row' = row
      BY <1>4, <2>4 DEF Sender, AskStatus, Send, Target, TargetKnown, Insert, Retarget, Refresh,
         Recover, PublishOwn, StatusTarget, StatusRequest, StatusAnswer, Stop
    <3>. QED
      BY <1>1, <3>1
  <2>. QED
    BY <2>1, <2>2, <2>3, <2>4
<1>5. ASSUME NEW w \in Workers, Worker(w) PROVE Goal
  <2>1. CASE WorkerFrontier(w)
    <3>1. Intended(work[w].seen) /\ Written(work[w].seen)
      BY <2>1 DEF WorkerFrontier, Inv, WorkerKnows
    <3>2. Reveals
      BY <2>1, <3>1, Frontiers DEF WorkerFrontier
    <3>. QED
      BY <3>2
  <2>2. CASE ~WorkerFrontier(w)
    <3>1. row' = row
      BY <1>5, <2>2 DEF Worker, Tick, WorkerPublish, WorkerStop
    <3>. QED
      BY <1>1, <3>1
  <2>. QED
    BY <2>1, <2>2
<1>. QED
  BY <1>2, <1>3, <1>4, <1>5 DEF Next

-----------------------------------------------------------------------------
(* The theorems.                                                           *)

\* The stored stream is consistent in every state: the queue is the accepted
\* sequences above the frontier, there is one document for each below it, and
\* the code that refuses an inconsistent stream never meets one.
THEOREM StreamIsConsistent == Spec => []StreamConsistent
<1>1. Inv => StreamConsistent
  <2>. SUFFICES ASSUME Inv PROVE StreamConsistent
    OBVIOUS
  <2>. Stream
    BY DEF Inv
  <2>1. \A m \in Messages : Exists(m) =>
            store[m] \in [text : Texts, witness : Witness, publication : Nat]
    BY CandidateTyped DEF Candidate
  <2>2. /\ Len(Pending) =< PendingLimit
        /\ row.chat.allocated = row.chat.published + Len(Pending)
        /\ \A i \in DOMAIN Pending :
              /\ Pending[i].sequence = row.chat.published + i
              /\ Exists(Pending[i].message)
    BY DEF Stream, QueueDense
  <2>3. ASSUME NEW n \in 1..row.chat.published
        PROVE  Cardinality({m \in Messages : store[m].publication = n}) = 1
    <3>1. PICK m \in Messages : Receipts(m) = n
      BY <2>3 DEF Stream, ReceiptsInOrder
    <3>2. n # 0
      BY <2>3, PendingTyped
    <3>3. {k \in Messages : store[k].publication = n} = {m}
      BY <3>1, <3>2 DEF Stream, ReceiptsInOrder, Receipts
    <3>. QED
      BY <3>3, FS_Singleton
  <2>4. \A m \in Messages : store[m].publication =< row.chat.published + 1
    BY CandidateTyped, PendingTyped DEF Stream, ReceiptsInOrder, Receipts
  <2>. QED
    BY <2>1, <2>2, <2>3, <2>4 DEF StreamConsistent
<1>. QED
  BY <1>1, Invariant, PTL

\* Who was told CONFIRMED was told of a message that readers can see, under the
\* sequence it has in the store, and stays right as long as he holds the answer.
THEOREM ConfirmedTellsTheTruth == Spec => []ConfirmedIsVisible
<1>1. Inv => ConfirmedIsVisible
  BY DEF Inv, Knows, KnowsReceipt, ConfirmedIsVisible, Receipts
<1>. QED
  BY <1>1, Invariant, PTL

\* Whichever update gives a message its place, its author holds at that moment
\* the authority the candidate was made with.
THEOREM AcceptedIsEntitled == Spec => AcceptedByAuthority
<1>. DEFINE Entitlement ==
        \A i \in DOMAIN row'.chat.pending :
            LET m == row'.chat.pending[i].message IN
            ~Accepted(row, m) =>
                Witnesses(row, AuthorOf[m], store[m].witness.kind) = {store[m].witness}
<1>1. ASSUME Inv, [Next]_vars PROVE Entitlement
  <2>. SUFFICES ASSUME NEW i \in DOMAIN row'.chat.pending,
                       ~Accepted(row, row'.chat.pending[i].message)
                PROVE  Entitled(row, row'.chat.pending[i].message)
    BY DEF Entitled
  <2>. Stream
    BY <1>1 DEF Inv
  <2>1. CASE Still
    BY <2>1 DEF Still, Accepted
  <2>2. CASE Reveals
    <3>1. i \in 1..Len(Pending) - 1 /\ row'.chat.pending[i] = Pending[i + 1]
      BY <2>2, RevealedTyped DEF Reveals
    <3>2. i + 1 \in DOMAIN Pending
      BY <3>1, PendingTyped
    <3>. QED
      BY <3>1, <3>2 DEF Accepted, Pending
  <2>3. ASSUME NEW m \in Messages, Accepts(m) PROVE row'.chat.pending[i].message = m
    <3>1. i \in 1..Len(Pending) + 1
      BY <2>3, AppendedTyped DEF Accepts
    <3>2. i \in DOMAIN Pending => row'.chat.pending[i] = Pending[i]
      BY <2>3, AppendedTyped, PendingTyped DEF Accepts
    <3>3. i \notin DOMAIN Pending
      BY <3>2 DEF Accepted, Pending
    <3>4. i = Len(Pending) + 1
      BY <3>1, <3>3, PendingTyped
    <3>5. row'.chat.pending[Len(Pending) + 1] =
              [message |-> m, sequence |-> row.chat.allocated + 1]
      BY <2>3, AppendedTyped DEF Accepts
    <3>. QED
      BY <3>4, <3>5
  <2>. QED
    BY <1>1, <2>1, <2>2, <2>3, Steps DEF Accepts
<1>2. Inv /\ [Next]_vars => [Entitlement]_vars
  BY <1>1
<1>. QED
  BY <1>2, Invariant, PTL DEF Spec, AcceptedByAuthority

-----------------------------------------------------------------------------
(* The log of MessageLog.                                                  *)

\* The message at a place of the log.
At(n) ==
    IF n > row.chat.published THEN Pending[n - row.chat.published].message
    ELSE IF PublishedAt(n) = {} THEN None
    ELSE CHOOSE m \in PublishedAt(n) : TRUE
TheLog == [n \in 1..row.chat.allocated |-> At(n)]

\* Below the frontier the log is the receipts, above it the queue.
LogFacts ==
    /\ \A n \in 1..row.chat.published, m \in Messages : At(n) = m <=> Receipts(m) = n
    /\ \A n \in 1..row.chat.published : At(n) \in Messages
    /\ \A i \in DOMAIN Pending :
          /\ At(row.chat.published + i) = Pending[i].message
          /\ Pending[i].message \in Messages
    /\ \A n \in 1..row.chat.allocated :
          n > row.chat.published => n - row.chat.published \in DOMAIN Pending

LogShape ==
    /\ TheLog \in Seq(Messages) /\ Len(TheLog) = row.chat.allocated
    /\ DOMAIN TheLog = 1..row.chat.allocated
    /\ \A n \in 1..row.chat.allocated : TheLog[n] = At(n)
    /\ row.chat.published \in Nat /\ row.chat.allocated \in Nat
    /\ row.chat.published =< row.chat.allocated

LEMMA LogIs == Stream => LogFacts
<1>. SUFFICES ASSUME Stream PROVE LogFacts
  OBVIOUS
<1>. row.chat.published \in Nat /\ row.chat.allocated \in Nat
  BY PendingTyped
<1>1. ASSUME NEW n \in 1..row.chat.published
      PROVE  /\ At(n) \in Messages
             /\ \A m \in Messages : At(n) = m <=> Receipts(m) = n
  <2>1. PICK h \in Messages : Receipts(h) = n
    BY <1>1 DEF Stream, ReceiptsInOrder
  <2>2. PublishedAt(n) = {h}
    BY <1>1, <2>1 DEF Stream, ReceiptsInOrder, Receipts, PublishedAt
  <2>3. At(n) = CHOOSE m \in {h} : TRUE
    BY <1>1, <2>2 DEF At
  <2>4. At(n) = h
    BY <2>3
  <2>. QED
    BY <1>1, <2>1, <2>4 DEF Stream, ReceiptsInOrder
<1>2. ASSUME NEW i \in DOMAIN Pending
      PROVE  /\ At(row.chat.published + i) = Pending[i].message
             /\ Pending[i].message \in Messages
  <2>1. i \in Nat /\ i > 0 /\ Pending[i] \in Intent
    BY PendingTyped
  <2>2. row.chat.published + i > row.chat.published
        /\ row.chat.published + i - row.chat.published = i
    BY <2>1
  <2>. QED
    BY <2>1, <2>2 DEF At, Intent
<1>3. \A n \in 1..row.chat.allocated :
          n > row.chat.published => n - row.chat.published \in DOMAIN Pending
  BY PendingTyped DEF Stream, QueueDense
<1>. QED
  BY <1>1, <1>2, <1>3 DEF LogFacts

LEMMA LogTyped == Stream => LogShape
<1>. SUFFICES ASSUME Stream PROVE LogShape
  OBVIOUS
<1>1. /\ row.chat.published \in Nat /\ row.chat.allocated \in Nat
      /\ row.chat.published =< row.chat.allocated
  BY PendingTyped DEF Stream, QueueDense
<1>2. ASSUME NEW n \in 1..row.chat.allocated PROVE At(n) \in Messages
  <2>1. CASE n =< row.chat.published
    BY <1>1, <2>1, LogIs DEF LogFacts
  <2>2. CASE n > row.chat.published
    <3>1. n - row.chat.published \in DOMAIN Pending
      BY <2>2, LogIs DEF LogFacts
    <3>2. row.chat.published + (n - row.chat.published) = n
      BY <1>1
    <3>. QED
      BY <3>1, <3>2, LogIs DEF LogFacts
  <2>. QED
    BY <1>1, <2>1, <2>2
<1>3. TheLog \in [1..row.chat.allocated -> Messages]
  BY <1>2 DEF TheLog
<1>. QED
  BY <1>1, <1>3, LenProperties, SeqDef DEF TheLog, LogShape

LEMMA LogAfter == Stream' => LogFacts' /\ LogShape'
BY LogIs, LogTyped, PTL

\* What readers can see stays where it is.
LEMMA BehindFrontier ==
    ASSUME Stream, Stream', Monotone, NEW n \in 1..row.chat.published
    PROVE  At(n)' = At(n)
<1>1. PICK m \in Messages : At(n) = m /\ Receipts(m) = n
  BY LogIs DEF LogFacts
<1>2. n # 0 /\ n \in 1..row'.chat.published
  BY PendingTyped DEF Stream, Row, Chat, Monotone
<1>3. \/ store'[m].publication = store[m].publication
      \/ store[m].publication = 0
  BY DEF Monotone
<1>4. Receipts(m)' = n
  BY <1>1, <1>2, <1>3 DEF Receipts
<1>5. At(n)' = m
  BY <1>2, <1>4, LogAfter DEF LogFacts
<1>. QED
  BY <1>1, <1>5

LEMMA StillLog ==
    ASSUME Stream, Stream', Monotone, Still
    PROVE  TheLog' = TheLog /\ row'.chat.published = row.chat.published
<1>1. ASSUME NEW n \in 1..row.chat.allocated PROVE At(n)' = At(n)
  <2>1. row.chat.published \in Nat
    BY PendingTyped
  <2>2. CASE n =< row.chat.published
    BY <2>1, <2>2, BehindFrontier
  <2>3. CASE n > row.chat.published
    BY <2>3 DEF At, Still, Pending
  <2>. QED
    BY <2>1, <2>2, <2>3
<1>. QED
  BY <1>1 DEF TheLog, Still

LEMMA RevealLog ==
    ASSUME Stream, Stream', Monotone, Reveals
    PROVE  /\ TheLog' = TheLog
           /\ row'.chat.published = row.chat.published + 1
           /\ row.chat.published < Len(TheLog)
<1>. DEFINE front == row.chat.published
            size == Len(Pending)
<1>1. /\ front \in Nat /\ size \in Nat /\ size > 0 /\ row.chat.allocated = front + size
      /\ DOMAIN Pending = 1..size
  BY PendingTyped DEF Reveals, Stream, QueueDense
<1>2. HeadIntent.sequence = front + 1
  BY <1>1 DEF Stream, QueueDense, HeadIntent
<1>3. /\ row'.chat.allocated = row.chat.allocated /\ row'.chat.published = front + 1
      /\ DOMAIN Pending' = 1..size - 1
      /\ \A i \in 1..size - 1 : Pending'[i] = Pending[i + 1]
  BY <1>2, RevealedTyped DEF Reveals, Pending
<1>4. ASSUME NEW n \in 1..row.chat.allocated PROVE At(n)' = At(n)
  <2>1. CASE n =< front
    BY <1>1, <2>1, BehindFrontier
  <2>2. CASE n = front + 1
    <3>1. At(n) = HeadIntent.message /\ HeadIntent.message \in Messages
      BY <1>1, <2>2, LogIs DEF HeadIntent, LogFacts
    <3>2. PICK m \in Messages : m = HeadIntent.message
      BY <3>1
    <3>3. Receipts(m)' = n
      BY <1>2, <2>2, <3>2 DEF Reveals, Receipts
    <3>4. n \in 1..row'.chat.published
      BY <1>1, <1>3, <2>2
    <3>5. At(n)' = m
      BY <3>3, <3>4, LogAfter DEF LogFacts
    <3>. QED
      BY <3>1, <3>2, <3>5
  <2>3. CASE n > front + 1
    <3>. DEFINE i == n - (front + 1)
    <3>0. n \in Nat /\ n =< front + size /\ front \in Nat /\ size \in Nat
      BY <1>1
    <3>1. i \in 1..size - 1 /\ i + 1 \in DOMAIN Pending /\ front + (i + 1) = n
      <4>1. i \in Nat /\ i > 0 /\ i =< size - 1
        BY <2>3, <3>0
      <4>2. i + 1 \in 1..size
        BY <3>0, <4>1
      <4>3. front + (i + 1) = n
        BY <3>0
      <4>. QED
        BY <1>1, <3>0, <4>1, <4>2, <4>3
    <3>2. At(n) = Pending[i + 1].message
      BY <3>1, LogIs DEF LogFacts
    <3>3. n > row'.chat.published /\ n - row'.chat.published = i
      BY <1>1, <1>3, <2>3
    <3>4. At(n)' = Pending'[i].message
      BY <3>3 DEF At
    <3>. QED
      BY <1>3, <3>1, <3>2, <3>4
  <2>. QED
    BY <1>1, <2>1, <2>2, <2>3
<1>5. TheLog' = TheLog
  BY <1>3, <1>4 DEF TheLog
<1>. QED
  BY <1>1, <1>3, <1>5, LogTyped DEF LogShape

LEMMA AcceptLog ==
    ASSUME Stream, Stream', Monotone, NEW m \in Messages, Accepts(m)
    PROVE  /\ TheLog' = Append(TheLog, m)
           /\ row'.chat.published = row.chat.published
           /\ \A i \in DOMAIN TheLog : TheLog[i] # m
<1>. DEFINE front == row.chat.published
            size == Len(Pending)
            top == row.chat.allocated
<1>1. /\ front \in Nat /\ size \in Nat /\ top = front + size
      /\ DOMAIN Pending = 1..size
  BY PendingTyped DEF Stream, QueueDense
<1>2. /\ row'.chat.allocated = top + 1 /\ row'.chat.published = front
      /\ \A i \in 1..size : Pending'[i] = Pending[i]
      /\ Pending'[size + 1].message = m
  <2>1. row' = Appended(row, m)
    BY DEF Accepts
  <2>2. /\ row'.chat.allocated = top + 1 /\ row'.chat.published = front
        /\ \A i \in 1..size : Pending'[i] = Pending[i]
        /\ Pending'[size + 1] = [message |-> m, sequence |-> top + 1]
    BY <2>1, AppendedTyped DEF Pending
  <2>. QED
    BY <2>2
<1>3. ASSUME NEW n \in 1..top PROVE At(n)' = At(n) /\ At(n) # m
  <2>1. CASE n =< front
    <3>1. At(n)' = At(n)
      BY <1>1, <2>1, BehindFrontier
    <3>2. n \in 1..front /\ n # 0
      BY <1>1, <2>1
    <3>3. At(n) # m
      BY <3>2, LogIs DEF Accepts, LogFacts
    <3>. QED
      BY <3>1, <3>3
  <2>2. CASE n > front
    <3>1. n - front \in 1..size /\ front + (n - front) = n
      BY <1>1, <2>2
    <3>2. At(n) = Pending[n - front].message
      BY <1>1, <3>1, LogIs DEF LogFacts
    <3>3. At(n)' = Pending'[n - front].message
      BY <1>2, <2>2 DEF At
    <3>4. Pending[n - front].message # m
      BY <1>1, <3>1 DEF Accepts, Accepted, Pending
    <3>. QED
      BY <1>2, <3>1, <3>2, <3>3, <3>4
  <2>. QED
    BY <1>1, <2>1, <2>2
<1>4. ASSUME NEW n, n = top + 1 PROVE At(n)' = m
  <2>1. n > row'.chat.published /\ n - row'.chat.published = size + 1
    BY <1>1, <1>2, <1>4
  <2>. QED
    BY <1>2, <2>1 DEF At
<1>5. /\ TheLog \in Seq(Messages) /\ Len(TheLog) = top /\ DOMAIN TheLog = 1..top
      /\ \A n \in 1..top : TheLog[n] = At(n)
  BY LogTyped DEF LogShape
<1>6. TheLog' = Append(TheLog, m)
  <2>1. TheLog' \in Seq(Messages) /\ Len(TheLog') = top + 1
        /\ \A n \in 1..top + 1 : TheLog'[n] = At(n)'
    <3>1. /\ TheLog' \in Seq(Messages) /\ Len(TheLog') = row'.chat.allocated
          /\ \A n \in 1..row'.chat.allocated : TheLog'[n] = At(n)'
      BY LogAfter DEF LogShape
    <3>. QED
      BY <1>2, <3>1
  <2>2. Append(TheLog, m) \in Seq(Messages) /\ Len(Append(TheLog, m)) = top + 1
        /\ \A n \in 1..top : Append(TheLog, m)[n] = At(n)
        /\ Append(TheLog, m)[top + 1] = m
    BY <1>5, AppendProperties
  <2>3. ASSUME NEW n \in 1..top + 1 PROVE TheLog'[n] = Append(TheLog, m)[n]
    <3>1. n \in 1..top \/ n = top + 1
      BY <1>1
    <3>. QED
      BY <1>3, <1>4, <2>1, <2>2, <3>1
  <2>. QED
    BY <2>1, <2>2, <2>3, SeqEqual
<1>. QED
  BY <1>2, <1>3, <1>5, <1>6

\* The chat implements the log: nothing changes what was accepted but an acceptance
\* at its end, of a message that has no place yet, and the frontier advances by one
\* message at a time.
THEOREM ChatImplementsLog == Spec => ImplementsLog
<1>1. Init => Log!Init
  <2>. SUFFICES ASSUME Init PROVE Log!Init
    OBVIOUS
  <2>1. Stream /\ row.chat.allocated = 0 /\ row.chat.published = 0
    BY InitInv DEF Inv, Init, NewRow, NoChat
  <2>2. Len(TheLog) = 0 /\ TheLog \in Seq(Messages)
    BY <2>1, LogTyped DEF LogShape
  <2>3. TheLog = <<>>
    BY <2>2, EmptySeq
  <2>. QED
    BY <2>1, <2>3 DEF Log!Init, TheLog, At
<1>2. ASSUME Inv, [Next]_vars PROVE [Log!Next]_Log!vars
  <2>1. Inv' /\ Monotone
    BY <1>2, NextKept DEF Kept
  <2>2. Stream /\ Stream'
    BY <1>2, <2>1 DEF Inv
  <2>4. Log!vars = <<TheLog, row.chat.published>>
    BY DEF Log!vars, TheLog, At
  <2>5. CASE Still
    <3>1. TheLog' = TheLog /\ row'.chat.published = row.chat.published
      BY <2>1, <2>2, <2>5, StillLog
    <3>. QED
      BY <3>1 DEF Log!vars, TheLog, At
  <2>6. CASE Reveals
    <3>1. /\ TheLog' = TheLog /\ row'.chat.published = row.chat.published + 1
          /\ row.chat.published < Len(TheLog) /\ row.chat.published \in Nat
      BY <2>1, <2>2, <2>6, RevealLog, PendingTyped
    <3>. QED
      BY <3>1 DEF Log!Next, Log!Publish, Log!vars, TheLog, At
  <2>7. ASSUME NEW m \in Messages, Accepts(m) PROVE [Log!Next]_Log!vars
    <3>1. /\ TheLog' = Append(TheLog, m) /\ row'.chat.published = row.chat.published
          /\ \A i \in DOMAIN TheLog : TheLog[i] # m
      BY <2>1, <2>2, <2>7, AcceptLog
    <3>2. Log!Accept(m)
      BY <3>1 DEF Log!Accept, TheLog, At
    <3>. QED
      BY <3>2 DEF Log!Next
  <2>. QED
    BY <1>2, <2>5, <2>6, <2>7, Steps
<1>. QED
  BY <1>1, <1>2, Invariant, PTL DEF Spec, ImplementsLog, Log!Spec

-----------------------------------------------------------------------------
(* Senders as ChatReads has them.                                          *)

\* A candidate that nobody accepted is not there.
Shown == [m \in Messages |->
    IF Accepted(row, m) \/ Receipts(m) # 0 THEN store[m] ELSE NoCandidate]
Rest == INSTANCE ChatReads WITH
    store <- Shown, req <- [r \in Senders |-> Idle],
    ReadIds <- {}, ReaderOf <- <<>>, Readers <- {}, ReadLimit <- 0,
    custody <- <<>>, reader <- <<>>

\* The rules of the row are the same in both.
LEMMA SameWitnesses ==
    \A rw, a, kind : Rest!Witnesses(rw, a, kind) = Witnesses(rw, a, kind)
BY DEF Rest!Witnesses, Witnesses, Rest!ActiveOf, ActiveOf, Rest!Active, Active,
       Rest!Departed, Departed, Rest!Entries, Entries, Rest!ToSet, ToSet,
       Rest!Current, Current, Rest!Candidates, Candidates, Rest!SeatOf, SeatOf,
       Rest!Participant, Participant, Rest!Organizer, Organizer, Rest!Selected, Selected,
       Rest!Revision, Revision, Rest!Last, Last

LEMMA SameCardinality == \A S : Rest!Cardinality(S) = Cardinality(S)
BY DEF Rest!Cardinality, Cardinality

LEMMA SameMembers ==
    /\ \A rw : Rest!Entries(rw) = Entries(rw)
    /\ \A rw, a : Rest!ActiveOf(rw, a) = ActiveOf(rw, a)
    /\ \A rw : Rest!Active(rw) = Active(rw)
    /\ \A rw, o : Rest!Departed(rw, o) = Departed(rw, o)
    /\ \A rw, o : Rest!Current(rw, o) = Current(rw, o)
BY DEF Rest!ActiveOf, ActiveOf, Rest!Active, Active, Rest!Departed, Departed,
       Rest!Entries, Entries, Rest!ToSet, ToSet, Rest!Current, Current,
       Rest!Candidates, Candidates, Rest!SeatOf, SeatOf

LEMMA SameOperations ==
    /\ \A rw, a, p, k : Rest!JoinOperation(rw, a, p, k) = JoinOperation(rw, a, p, k)
    /\ \A rw, o, k : Rest!LeaveOperation(rw, o, k) = LeaveOperation(rw, o, k)
BY SameMembers, SameCardinality DEF Rest!JoinOperation, JoinOperation, Rest!JoinOutcome, JoinOutcome,
       Rest!Join, Join, Rest!LeaveOperation, LeaveOperation, Rest!Leave, Leave

LEMMA SameCommitted ==
    /\ \A rw, w : Rest!CanEnrol(rw, w) <=> CanEnrol(rw, w)
    /\ \A rw, w : Rest!Enrol(rw, w) = Enrol(rw, w)
    /\ \A rw, op : Rest!Committed(rw, op) = Committed(rw, op)
<1>1. \A rw, w : Rest!CanEnrol(rw, w) <=> CanEnrol(rw, w)
  BY SameCardinality DEF Rest!CanEnrol, CanEnrol
<1>2. \A rw, w : Rest!Enrol(rw, w) = Enrol(rw, w)
  BY DEF Rest!Enrol, Enrol, Rest!NewPosition, NewPosition
<1>3. ASSUME NEW rw, NEW op
      PROVE  Rest!Committed(rw, op) = Committed(rw, op)
  <2>1. /\ Rest!Logged(rw, op) = Logged(rw, op) /\ Rest!SeatOf(op) = SeatOf(op)
        /\ Rest!Participant(op) = Participant(op)
    BY DEF Rest!Logged, Logged, Rest!SeatOf, SeatOf, Rest!Participant, Participant
  <2>2. CASE op.outcome = "REGISTERED"
    BY <1>1, <1>2, <2>1, <2>2 DEF Rest!Committed, Committed
  <2>3. CASE op.outcome = "LEFT"
    BY <2>1, <2>3 DEF Rest!Committed, Committed
  <2>4. CASE op.outcome \notin {"REGISTERED", "LEFT"}
    BY <2>1, <2>4 DEF Rest!Committed, Committed
  <2>. QED
    BY <2>2, <2>3, <2>4
<1>. QED
  BY <1>1, <1>2, <1>3

LEMMA SameJournal ==
    /\ \A rw, a, p, k : Rest!AfterJoin(rw, a, p, k) = AfterJoin(rw, a, p, k)
    /\ \A rw, a, k : Rest!AfterLeave(rw, a, k) = AfterLeave(rw, a, k)
<1>1. \A rw, op : Rest!Fits(rw, op) <=> Fits(rw, op)
  BY SameMembers, SameCardinality DEF Rest!Fits, Fits, Rest!Logged, Logged
<1>2. \A rw, a, k : Rest!FreshKey(rw, a, k) <=> FreshKey(rw, a, k)
  BY SameMembers DEF Rest!FreshKey, FreshKey
<1>3. \A rw, a, p, k : Rest!AfterJoin(rw, a, p, k) = AfterJoin(rw, a, p, k)
  BY <1>1, <1>2, SameOperations, SameCommitted
     DEF Rest!AfterJoin, AfterJoin, Rest!OpenStatuses, OpenStatuses
<1>4. ASSUME NEW rw, NEW a, NEW k
      PROVE  Rest!AfterLeave(rw, a, k) = AfterLeave(rw, a, k)
  <2>1. UNION {Rest!Committed(rw, Rest!LeaveOperation(rw, o, k)) : o \in Rest!ActiveOf(rw, a)}
          = UNION {Committed(rw, LeaveOperation(rw, o, k)) : o \in ActiveOf(rw, a)}
    BY SameOperations, SameCommitted, SameMembers
  <2>. QED
    BY <1>2, <2>1 DEF Rest!AfterLeave, AfterLeave
<1>. QED
  BY <1>3, <1>4

LEMMA SameStaff ==
    /\ \A rw, id, selected :
          Rest!AfterCommand(rw, id, selected) = AfterCommand(rw, id, selected)
    /\ \A rw : Rest!AfterEdit(rw) = AfterEdit(rw)
<1>1. /\ \A rw : Rest!Selected(rw) = Selected(rw)
      /\ \A rw : Rest!Revision(rw) = Revision(rw)
  BY DEF Rest!Selected, Selected, Rest!Revision, Revision, Rest!Last, Last
<1>2. \A rw, c : Rest!OrganizerReceipt(rw, c) = OrganizerReceipt(rw, c)
  BY <1>1 DEF Rest!OrganizerReceipt, OrganizerReceipt
<1>3. \A rw, receipt : Rest!Assigned(rw, receipt) = Assigned(rw, receipt)
  BY SameCommitted DEF Rest!Assigned, Assigned, Rest!Organizer, Organizer
<1>4. /\ \A rw, id : Rest!ReceiptsOf(rw, id) = ReceiptsOf(rw, id)
      /\ \A rw, receipt : Rest!OrganizerFits(rw, receipt) = OrganizerFits(rw, receipt)
  BY DEF Rest!ReceiptsOf, ReceiptsOf, Rest!ToSet, ToSet, Rest!OrganizerFits, OrganizerFits
<1>5. \A rw, id, selected :
          Rest!AfterCommand(rw, id, selected) = AfterCommand(rw, id, selected)
  BY <1>1, <1>2, <1>3, <1>4 DEF Rest!AfterCommand, AfterCommand
<1>6. \A rw : Rest!AfterEdit(rw) = AfterEdit(rw)
  BY DEF Rest!AfterEdit, AfterEdit
<1>. QED
  BY <1>5, <1>6

LEMMA SameStream ==
    /\ \A rw : Rest!Adopted(rw) = Adopted(rw)
    /\ \A rw, m : Rest!Appended(rw, m) = Appended(rw, m)
    /\ \A rw : Rest!Revealed(rw) = Revealed(rw)
    /\ \A rw : Rest!NextIntent(rw) = NextIntent(rw)
    /\ \A rw : Rest!Room(rw) = Room(rw)
    /\ Rest!NewRow = NewRow
BY DEF Rest!Adopted, Adopted, Rest!AdoptedPositions, AdoptedPositions, Rest!NoReads, NoReads,
       Rest!NewPosition, NewPosition, Rest!Participant, Participant, Rest!Active, Active,
       Rest!Departed, Departed, Rest!Entries, Entries, Rest!ToSet, ToSet,
       Rest!Organizer, Organizer, Rest!Selected, Selected, Rest!Revision, Revision,
       Rest!Last, Last, Rest!Appended, Appended, Rest!Revealed, Revealed,
       Rest!NextIntent, NextIntent, Rest!Room, Room, Rest!NewRow, NewRow, Rest!NoChat, NoChat,
       Rest!StaffSeat, StaffSeat

-----------------------------------------------------------------------------
\* What a sender found out of the row it holds.
SeenBy(q) ==
    /\ q.pc = "ADOPT" =>
          /\ ~q.seen.chat.adopted
          /\ \E a \in Actors : Witnesses(q.seen, a, "ANY") # {}
    /\ q.pc \in {"REFRESH", "ACCEPT"} => q.seen.chat.adopted
    /\ q.pc = "ACCEPT" => q.seen.chat.allocated < MaxSequence - 1
Sights == \A r \in Senders : SeenBy(req[r])

LEMMA SightMoves ==
    ASSUME Handlers, Sights, NEW r \in Senders,
           \A s \in Senders : s # r => req'[s] = req[s],
           SeenBy(req'[r])
    PROVE  Sights'
BY DEF Sights, SeenBy

LEMMA SightsKept ==
    ASSUME Inv, Sights, [Next]_vars
    PROVE  Sights'
<1>. Handlers
  BY DEF Inv
<1>1. CASE req' = req
  BY <1>1 DEF Sights, SeenBy
<1>2. ASSUME NEW r \in Senders, Sender(r)
      PROVE  Sights'
  <2>1. \A s \in Senders : s # r => req'[s] = req[s]
    BY <1>2 DEF Handlers, Sender, AskStatus, Send, Target, TargetKnown, Adopt, Insert, Retarget,
       Refresh, Accept, Recover, PublishOwn, FrontierOwn, StatusTarget, StatusRequest,
       StatusAnswer, Stop, Finish, Goto
  <2>. req[r] \in Handler
    BY DEF Handlers
  <2>2. CASE Target(r) /\ req'[r].pc = "ADOPT"
    <3>1. /\ Access(r) # {} /\ ~row.chat.adopted
          /\ req' = [req EXCEPT ![r].pc = "ADOPT", ![r].seen = row]
      BY <2>2 DEF Target, Finish, Idle, Handlers, Handler
    <3>2. req'[r].pc = "ADOPT" /\ req'[r].seen = row
      BY <3>1 DEF Handlers, Handler
    <3>3. Author(r) \in Actors
      BY <2>2, ChatAssumption DEF Target, Author, Inv, Knows, KnowsCandidate
    <3>4. SeenBy(req'[r])
      BY <3>1, <3>2, <3>3 DEF SeenBy, Access
    <3>. QED
      BY <2>1, <3>4, SightMoves
  <2>3. CASE Retarget(r) /\ req'[r].pc = "REFRESH"
    <3>1. row.chat.adopted /\ req'[r].seen = row
      BY <2>3 DEF Retarget, Finish, Idle, Handlers, Handler
    <3>2. SeenBy(req'[r])
      BY <2>3, <3>1 DEF SeenBy
    <3>. QED
      BY <2>1, <3>2, SightMoves
  <2>4. CASE Refresh(r) /\ req'[r].pc = "ACCEPT"
    <3>1. /\ req[r].pc = "REFRESH" /\ req[r].seen.chat.allocated < MaxSequence - 1
          /\ req'[r].seen = req[r].seen
      BY <2>4 DEF Refresh, Finish, Goto, Idle, Handlers, Handler
    <3>2. req[r].seen.chat.adopted
      BY <3>1 DEF Sights, SeenBy
    <3>3. SeenBy(req'[r])
      BY <2>4, <3>1, <3>2 DEF SeenBy
    <3>. QED
      BY <2>1, <3>3, SightMoves
  <2>5. CASE ~(Target(r) /\ req'[r].pc = "ADOPT") /\ ~(Retarget(r) /\ req'[r].pc = "REFRESH")
             /\ ~(Refresh(r) /\ req'[r].pc = "ACCEPT")
    <3>1. req'[r].pc \notin {"ADOPT", "REFRESH", "ACCEPT"}
      <4>1. CASE Target(r) \/ TargetKnown(r) \/ Adopt(r) \/ Insert(r)
        BY <2>5, <4>1 DEF Handlers, Handler, Idle, Target, TargetKnown, Adopt, Insert, Finish, Goto
      <4>2. CASE Retarget(r) \/ Refresh(r) \/ Accept(r) \/ Recover(r)
        BY <2>5, <4>2 DEF Handlers, Handler, Idle, Retarget, Refresh, Accept, Recover, Finish, Goto
      <4>3. CASE PublishOwn(r) \/ FrontierOwn(r) \/ StatusTarget(r) \/ StatusRequest(r)
                 \/ StatusAnswer(r) \/ Stop(r)
        BY <4>3 DEF Handlers, Handler, Idle, PublishOwn, FrontierOwn, StatusTarget,
           StatusRequest, StatusAnswer, Stop, Finish, Goto
      <4>4. CASE \E m \in Messages : AskStatus(r, m) \/ \E text \in Texts : Send(r, m, text)
        <5>1. ASSUME NEW m \in Messages, AskStatus(r, m)
              PROVE  req'[r].pc = "STATUS"
          BY <5>1 DEF AskStatus, Handlers, Idle
        <5>2. ASSUME NEW m \in Messages, NEW text \in Texts, Send(r, m, text)
              PROVE  req'[r].pc \in {"TARGET_KNOWN", "TARGET"}
          <6>1. PICK pc \in {"TARGET_KNOWN", "TARGET"} : req' = [req EXCEPT ![r] =
                    [Idle EXCEPT !.pc = pc, !.message = m, !.text = text,
                                 !.publication = store[m].publication]]
            BY <5>2 DEF Send
          <6>. QED
            BY <6>1 DEF Handlers, Idle
        <5>. QED
          BY <4>4, <5>1, <5>2
      <4>. QED
        BY <1>2, <4>1, <4>2, <4>3, <4>4 DEF Sender
    <3>2. SeenBy(req'[r])
      BY <3>1 DEF SeenBy
    <3>. QED
      BY <2>1, <3>2, SightMoves
  <2>. QED
    BY <2>2, <2>3, <2>4, <2>5
<1>3. CASE Environment \/ UNCHANGED vars \/ \E w \in Workers : Worker(w)
  <2>1. req' = req
    BY <1>3 DEF Environment, MemberJoins, MemberLeaves, OrganizerChanges, StaffEdits, vars,
       Worker, Tick, WorkerPublish, WorkerFrontier, WorkerStop
  <2>. QED
    BY <1>1, <2>1
<1>. QED
  BY <1>2, <1>3 DEF Next

-----------------------------------------------------------------------------
(* Each step of a sender is one of SendersElsewhere or nothing.            *)

RestStep == [Rest!ReadNext]_Rest!readVars

\* Nothing that others can see.
LEMMA Unseen ==
    ASSUME row' = row, Shown' = Shown, work' = work
    PROVE  RestStep
BY DEF RestStep, Rest!readVars

LEMMA SameShown ==
    ASSUME store' = store, row'.chat.pending = row.chat.pending
    PROVE  Shown' = Shown
BY DEF Shown, Accepted, Receipts

LEMMA RestEnvironment ==
    ASSUME row \in Row, Environment
    PROVE  RestStep
<1>1. row'.chat = row.chat /\ UNCHANGED <<store, req, work>>
  BY JoinTyped, LeaveTyped, CommandTyped, EditTyped
     DEF Environment, MemberJoins, MemberLeaves, OrganizerChanges, StaffEdits
<1>2. Shown' = Shown
  BY <1>1, SameShown
<1>3. Rest!Environment
  BY <1>1, <1>2, SameJournal, SameStaff
     DEF Environment, MemberJoins, MemberLeaves, OrganizerChanges, StaffEdits,
         Rest!Environment, Rest!MemberJoins, Rest!MemberLeaves, Rest!OrganizerChanges,
         Rest!StaffEdits
<1>. QED
  BY <1>3 DEF RestStep, Rest!ReadNext, Rest!reading

\* A new candidate is not seen.
LEMMA RestInsert ==
    ASSUME Stream, Stream', Monotone, NEW r \in Senders, Insert(r), req[r].message \in Messages
    PROVE  RestStep
<1>. DEFINE m == req[r].message
<1>1. CASE Exists(m)
  <2>1. store' = store /\ row' = row /\ work' = work
    BY <1>1 DEF Insert
  <2>. QED
    BY <2>1, SameShown, Unseen
<1>2. CASE ~Exists(m)
  <2>1. /\ store' = [store EXCEPT ![m] =
              [text |-> req[r].text, witness |-> req[r].witness, publication |-> 0]]
        /\ row' = row /\ work' = work
    BY <1>2 DEF Insert
  <2>2. \A n \in Messages : n # m => store'[n] = store[n]
    BY <2>1 DEF Stream
  <2>3. ~Accepted(row, m) /\ Receipts(m) = 0
    BY <1>2, CandidateTyped DEF Stream, QueueDense, Accepted, Pending
  <2>4. store'[m].publication = 0
    BY <2>1 DEF Stream
  <2>5. Shown' = Shown
    BY <2>1, <2>2, <2>3, <2>4 DEF Shown, Accepted, Receipts
  <2>. QED
    BY <2>1, <2>5, Unseen
<1>. QED
  BY <1>1, <1>2

LEMMA RestAdopt ==
    ASSUME row \in Row, Sights, NEW r \in Senders, Adopt(r)
    PROVE  RestStep
<1>1. store' = store /\ work' = work
  BY DEF Adopt
<1>2. CASE row' = row
  BY <1>1, <1>2, SameShown, Unseen
<1>3. CASE Preimage(req[r].seen) /\ row' = Adopted(row)
  <2>1. row'.chat.pending = row.chat.pending
    <3>1. row.chat \in Chat
      BY DEF Row
    <3>2. row'.chat = [row.chat EXCEPT !.adopted = TRUE]
      BY <1>3, AdoptedTyped
    <3>. QED
      BY <3>1, <3>2 DEF Chat
  <2>2. Shown' = Shown
    BY <1>1, <2>1, SameShown
  <2>3. ~row.chat.adopted /\ \E a \in Actors : Rest!Witnesses(row, a, "ANY") # {}
    BY <1>3, SameWitnesses DEF Adopt, Preimage, Sights, SeenBy
  <2>4. Rest!SenderAdopts
    BY <1>1, <1>3, <2>2, <2>3, SameStream DEF Rest!SenderAdopts, Rest!Sending, Rest!reading
  <2>. QED
    BY <2>4 DEF RestStep, Rest!ReadNext, Rest!SendersElsewhere
<1>. QED
  BY <1>2, <1>3 DEF Adopt

\* The candidate comes into sight with the authority that still holds.
LEMMA RestAccept ==
    ASSUME Inv, Sights, NEW r \in Senders, Accept(r)
    PROVE  RestStep
<1>. DEFINE m == req[r].message
            kind == store[m].witness.kind
<1>. Stream
  BY DEF Inv
<1>1. /\ m \in Messages /\ Exists(m) /\ store' = store /\ work' = work
  BY DEF Accept, Inv, Knows, KnowsCandidate
<1>2. CASE row' = row
  BY <1>1, <1>2, SameShown, Unseen
<1>3. CASE Preimage(req[r].seen) /\ row' = Appended(row, m)
  <2>1. /\ ~Accepted(row, m) /\ Receipts(m) = 0 /\ Room(row) /\ Entitled(row, m)
        /\ row.chat.adopted /\ row.chat.allocated < MaxSequence - 1
    BY <1>3 DEF Accept, Preimage, Inv, Knows, KnowsRow, Sights, SeenBy
  <2>2. /\ store[m] = [text |-> store[m].text, witness |-> store[m].witness, publication |-> 0]
        /\ store[m].text \in Texts /\ store[m].witness \in Witness
    BY <1>1, <2>1, CandidateTyped DEF Candidate, Receipts
  <2>3. /\ kind \in {"PARTICIPANT", "ORGANIZER"}
        /\ store[m].witness \in Rest!Witnesses(row, AuthorOf[m], kind)
    BY <2>1, <2>2, SameWitnesses DEF Entitled, Witness
  <2>4. ASSUME NEW n \in Messages
        PROVE  Accepted(row', n) <=> Accepted(row, n) \/ n = m
    <3>1. /\ DOMAIN row'.chat.pending = 1..Len(Pending) + 1
          /\ \A i \in 1..Len(Pending) : row'.chat.pending[i] = Pending[i]
          /\ row'.chat.pending[Len(Pending) + 1] =
                [message |-> m, sequence |-> row.chat.allocated + 1]
      BY <1>1, <1>3, AppendedTyped
    <3>2. DOMAIN Pending = 1..Len(Pending) /\ Len(Pending) \in Nat
      BY PendingTyped
    <3>3. Accepted(row, n) => Accepted(row', n)
      <4>1. \A i \in 1..Len(Pending) : i \in 1..Len(Pending) + 1
        BY <3>2
      <4>. QED
        BY <3>1, <3>2, <4>1 DEF Accepted, Pending
    <3>4. Accepted(row', m)
      <4>1. Len(Pending) + 1 \in 1..Len(Pending) + 1
        BY <3>2
      <4>. QED
        BY <3>1, <4>1 DEF Accepted
    <3>5. ASSUME Accepted(row', n), n # m
          PROVE  Accepted(row, n)
      <4>1. PICK i \in 1..Len(Pending) + 1 : row'.chat.pending[i].message = n
        BY <3>1, <3>5 DEF Accepted
      <4>2. i # Len(Pending) + 1
        BY <3>1, <3>5, <4>1
      <4>3. i \in 1..Len(Pending)
        BY <3>2, <4>1, <4>2
      <4>. QED
        BY <3>1, <3>2, <4>1, <4>3 DEF Accepted, Pending
    <3>. QED
      BY <3>3, <3>4, <3>5
  <2>5. Shown' = [Shown EXCEPT ![m] = store[m]]
    BY <1>1, <2>4 DEF Shown, Receipts
  <2>6. Shown[m] = NoCandidate
    BY <1>1, <2>1 DEF Shown
  <2>7. Rest!SenderAccepts(m)
    <3>1. \E k \in {"PARTICIPANT", "ORGANIZER"}, text \in Texts :
             \E w \in Rest!Witnesses(row, AuthorOf[m], k) :
                /\ w.kind = k
                /\ Shown' = [Shown EXCEPT ![m] = [text |-> text, witness |-> w, publication |-> 0]]
      BY <2>2, <2>3, <2>5
    <3>2. ~Rest!Exists(m)
      BY <2>6 DEF Rest!Exists, Rest!NoCandidate, NoCandidate
    <3>. QED
      BY <1>1, <1>3, <2>1, <3>1, <3>2, SameStream DEF Rest!SenderAccepts, Rest!reading
  <2>. QED
    BY <1>1, <2>7 DEF RestStep, Rest!ReadNext, Rest!SendersElsewhere
<1>. QED
  BY <1>2, <1>3 DEF Accept

\* What is published has been in sight since it was accepted.
LEMMA RestPublishes ==
    ASSUME Stream, row' = row, NEW p \in Intent, Known(p), Exists(p.message), Publishes(p)
    PROVE  Rest!Publishes(p)
<1>. DEFINE h == p.message
<1>1. h \in Messages /\ p.sequence \in Nat \ {0}
  BY DEF Intent
<1>2. Accepted(row, h) \/ Receipts(h) # 0
  <2>1. CASE p.sequence =< row.chat.published
    BY <1>1, <2>1 DEF Known
  <2>2. CASE ~(p.sequence =< row.chat.published)
    <3>1. Pending # <<>> /\ HeadIntent = p
      BY <2>2 DEF Known
    <3>2. 1 \in DOMAIN Pending
      BY <3>1, PendingTyped
    <3>. QED
      BY <3>1, <3>2 DEF Accepted, HeadIntent, Pending
  <2>. QED
    BY <2>1, <2>2
<1>3. Shown[h] = store[h]
  BY <1>1, <1>2 DEF Shown
<1>4. \A n \in Messages : Shown[n].publication = store[n].publication
  BY DEF Shown, NoCandidate, Receipts
<1>5. PICK next : next = [store[h] EXCEPT !.publication = p.sequence]
  OBVIOUS
<1>6. store' = [store EXCEPT ![h] = next] /\ next.publication = p.sequence
  <2>1. store[h] \in Candidate
    BY <1>1, CandidateTyped
  <2>. QED
    BY <1>5, <2>1 DEF Publishes, Candidate
<1>7. \A n \in Messages : store'[n] = IF n = h THEN next ELSE store[n]
  BY <1>6 DEF Stream
<1>8. Shown' = [Shown EXCEPT ![h] = next]
  <2>1. \A n \in Messages : Accepted(row, n)' = Accepted(row, n)
    BY DEF Accepted
  <2>2. \A n \in Messages : Shown'[n] = IF n = h THEN next ELSE Shown[n]
    BY <1>1, <1>6, <1>7, <2>1 DEF Shown, Receipts
  <2>3. Shown' = [n \in Messages |-> Shown'[n]]
    BY DEF Shown
  <2>4. [Shown EXCEPT ![h] = next] = [n \in Messages |-> IF n = h THEN next ELSE Shown[n]]
    BY DEF Shown
  <2>. QED
    BY <2>2, <2>3, <2>4
<1>9. Shown' = [Shown EXCEPT ![h].publication = p.sequence]
  BY <1>3, <1>5, <1>8
<1>. QED
  BY <1>1, <1>4, <1>9 DEF Publishes, Rest!Publishes

LEMMA SameAfterReveal ==
    ASSUME Stream, Reveals
    PROVE  Shown' = Shown
<1>1. /\ DOMAIN row'.chat.pending = 1..Len(Pending) - 1
      /\ \A i \in 1..Len(Pending) - 1 : row'.chat.pending[i] = Pending[i + 1]
  BY RevealedTyped DEF Reveals
<1>2. DOMAIN Pending = 1..Len(Pending) /\ Len(Pending) \in Nat /\ Len(Pending) > 0
  BY PendingTyped DEF Reveals
<1>3. \A n \in Messages : Accepted(row', n) => Accepted(row, n)
  BY <1>1, <1>2 DEF Accepted, Pending
<1>4. ASSUME NEW n \in Messages, Accepted(row, n) PROVE Accepted(row', n) \/ Receipts(n) # 0
  <2>1. PICK i \in DOMAIN Pending : Pending[i].message = n
    BY <1>4 DEF Accepted, Pending
  <2>2. CASE i = 1
    <3>1. HeadIntent.message = n /\ HeadIntent.sequence \in Nat \ {0}
      BY <2>1, <2>2, PendingTyped DEF HeadIntent, Intent
    <3>. QED
      BY <3>1 DEF Reveals
  <2>3. CASE i # 1
    <3>1. i - 1 \in 1..Len(Pending) - 1 /\ (i - 1) + 1 = i
      BY <1>2, <2>1, <2>3
    <3>2. row'.chat.pending[i - 1].message = n
      BY <1>1, <2>1, <3>1
    <3>. QED
      BY <1>1, <3>1, <3>2 DEF Accepted
  <2>. QED
    BY <2>2, <2>3
<1>. QED
  BY <1>3, <1>4 DEF Reveals, Shown, Receipts

LEMMA RestPublish ==
    ASSUME Inv, NEW r \in Senders, PublishOwn(r)
    PROVE  RestStep
<1>. Stream
  BY DEF Inv
<1>1. row' = row /\ work' = work /\ Intended(req[r].seen)
  BY DEF PublishOwn, Inv, Knows, KnowsIntent
<1>2. CASE store' = store
  BY <1>1, <1>2, SameShown, Unseen
<1>3. CASE Publishes(NextIntent(req[r].seen))
  <2>. DEFINE p == NextIntent(req[r].seen)
  <2>1. p \in Intent /\ Known(p) /\ Exists(p.message)
    BY <1>1, IntentTyped DEF Intended
  <2>2. CASE p.sequence =< row.chat.published
    <3>1. store[p.message].publication = p.sequence /\ p.message \in Messages
      BY <2>1, <2>2 DEF Known, Receipts, Intent
    <3>2. store[p.message] \in Candidate
      BY <2>1, <3>1, CandidateTyped
    <3>3. store' = store
      BY <1>3, <3>1, <3>2 DEF Publishes, Stream, Candidate
    <3>. QED
      BY <1>2, <3>3
  <2>3. CASE ~(p.sequence =< row.chat.published)
    <3>1. Pending # <<>> /\ p = NextIntent(row)
      BY <2>1, <2>3 DEF Known, HeadIntent, NextIntent, Pending
    <3>2. Rest!Publishes(p)
      BY <1>1, <1>3, <2>1, RestPublishes
    <3>3. Rest!SenderPublishes
      BY <1>1, <3>1, <3>2, SameStream
         DEF Rest!SenderPublishes, Rest!Pending, Pending, Rest!reading
    <3>. QED
      BY <3>3 DEF RestStep, Rest!ReadNext, Rest!SendersElsewhere
  <2>. QED
    BY <2>2, <2>3
<1>. QED
  BY <1>2, <1>3 DEF PublishOwn

LEMMA RestFrontier ==
    ASSUME Inv, NEW r \in Senders, FrontierOwn(r)
    PROVE  RestStep
<1>. Stream
  BY DEF Inv
<1>1. store' = store /\ work' = work
  BY DEF FrontierOwn
<1>2. CASE row' = row
  BY <1>1, <1>2, SameShown, Unseen
<1>3. CASE Preimage(req[r].seen) /\ row' = Revealed(row)
  <2>1. Intended(req[r].seen) /\ Written(req[r].seen)
    BY DEF FrontierOwn, Inv, Knows, KnowsIntent
  <2>2. Reveals
    BY <1>1, <1>3, <2>1, Frontiers
  <2>3. Shown' = Shown
    BY <2>2, SameAfterReveal
  <2>4. Shown[NextIntent(row).message].publication # 0
    <3>1. HeadIntent \in Intent /\ HeadIntent = NextIntent(row)
      BY <2>2, PendingTyped DEF Reveals, HeadIntent, NextIntent, Pending
    <3>2. Receipts(HeadIntent.message) # 0 /\ HeadIntent.message \in Messages
      BY <2>2, <3>1 DEF Reveals, Intent
    <3>. QED
      BY <3>1, <3>2 DEF Shown, Receipts
  <2>5. Rest!SenderReveals
    BY <1>1, <1>3, <2>2, <2>3, <2>4, SameStream
       DEF Rest!SenderReveals, Rest!Sending, Rest!reading, Rest!Pending, Reveals, Pending
  <2>. QED
    BY <2>5 DEF RestStep, Rest!ReadNext, Rest!SendersElsewhere
<1>. QED
  BY <1>2, <1>3 DEF FrontierOwn

LEMMA RestWorker ==
    ASSUME Inv, NEW w \in Workers, Worker(w)
    PROVE  RestStep
<1>. Stream
  BY DEF Inv
<1>1. CASE Tick(w) \/ WorkerStop(w)
  <2>1. UNCHANGED <<row, store>>
    BY <1>1 DEF Tick, WorkerStop
  <2>2. Shown' = Shown
    BY <2>1, SameShown
  <2>. QED
    BY <1>1, <2>2 DEF Tick, WorkerStop, Rest!Worker, Rest!Tick, Rest!WorkerStop, Pending,
       Rest!Pending, Rest!IdleWorker, IdleWorker, Rest!ReadNext, Rest!reading, RestStep
<1>2. CASE WorkerPublish(w)
  <2>1. row' = row /\ Intended(work[w].seen)
    BY <1>2 DEF WorkerPublish, Inv, WorkerKnows
  <2>2. Rest!Publishes(NextIntent(work[w].seen))
    BY <1>2, <2>1, IntentTyped, RestPublishes DEF WorkerPublish, Intended
  <2>3. Rest!WorkerPublish(w)
    BY <1>2, <2>2, SameStream DEF WorkerPublish, Rest!WorkerPublish
  <2>. QED
    BY <2>3 DEF Rest!Worker, Rest!ReadNext, Rest!reading, RestStep
<1>3. CASE WorkerFrontier(w)
  <2>1. Intended(work[w].seen) /\ Written(work[w].seen)
    BY <1>3 DEF WorkerFrontier, Inv, WorkerKnows
  <2>2. Reveals
    BY <1>3, <2>1, Frontiers DEF WorkerFrontier
  <2>3. Shown' = Shown
    BY <2>2, SameAfterReveal
  <2>4. Rest!WorkerFrontier(w)
    BY <1>3, <2>3, SameStream
       DEF WorkerFrontier, Rest!WorkerFrontier, Preimage, Rest!Preimage,
           Rest!IdleWorker, IdleWorker
  <2>. QED
    BY <2>4 DEF Rest!Worker, Rest!ReadNext, Rest!reading, RestStep
<1>. QED
  BY <1>1, <1>2, <1>3 DEF Worker

LEMMA RestSender ==
    ASSUME Inv, Sights, Stream', Monotone, NEW r \in Senders, Sender(r)
    PROVE  RestStep
<1>. Stream /\ row \in Row
  BY DEF Inv, Stream
<1>1. CASE Insert(r)
  <2>1. req[r].message \in Messages
    BY <1>1 DEF Insert, Inv, Knows, KnowsCandidate
  <2>. QED
    BY <1>1, <2>1, RestInsert
<1>2. CASE Adopt(r)
  BY <1>2, RestAdopt
<1>3. CASE Accept(r)
  BY <1>3, RestAccept
<1>4. CASE PublishOwn(r)
  BY <1>4, RestPublish
<1>5. CASE FrontierOwn(r)
  BY <1>5, RestFrontier
<1>6. CASE ~Insert(r) /\ ~Adopt(r) /\ ~Accept(r) /\ ~PublishOwn(r) /\ ~FrontierOwn(r)
  <2>1. UNCHANGED <<row, store, work>>
    BY <1>6 DEF Sender, AskStatus, Send, Target, TargetKnown, Retarget, Refresh, Recover,
       StatusTarget, StatusRequest, StatusAnswer, Stop
  <2>. QED
    BY <2>1, SameShown, Unseen
<1>. QED
  BY <1>1, <1>2, <1>3, <1>4, <1>5, <1>6

\* What ChatReads says of senders is true of TournamentChat's, whatever they do and
\* wherever they stop: all that the rest of the system sees of them is that somebody
\* the row lets in adopts it, that a message is accepted on the exact authority of its
\* author, and that the head of the queue is published and revealed.
THEOREM SendersAreElsewhere == Spec => Rest!ReadSpec
<1>1. Init => Rest!ReadInit /\ Sights
  <2>. SUFFICES ASSUME Init PROVE Rest!ReadInit /\ Sights
    OBVIOUS
  <2>1. \A m \in Messages : Shown[m] = NoCandidate
    BY DEF Init, Shown
  <2>2. Shown = [m \in Messages |-> NoCandidate]
    BY <2>1 DEF Shown
  <2>3. Rest!Init
    BY <2>2, SameStream DEF Init, Rest!Init, Rest!NoCandidate, NoCandidate, Rest!Idle, Idle,
       Rest!IdleWorker, IdleWorker
  <2>4. <<>> = [q \in {} |-> Rest!NoCustody] /\ <<>> = [d \in {} |-> Rest!NotReading]
    OBVIOUS
  <2>5. Sights
    BY DEF Init, Idle, Sights, SeenBy
  <2>. QED
    BY <2>3, <2>4, <2>5 DEF Rest!ReadInit
<1>2. ASSUME Inv, Sights, [Next]_vars PROVE Sights' /\ RestStep
  <2>1. Inv' /\ Monotone /\ Sights'
    BY <1>2, NextKept, SightsKept DEF Kept
  <2>2. CASE UNCHANGED vars
    <3>1. row' = row /\ store' = store /\ work' = work
      BY <2>2 DEF vars
    <3>2. Shown' = Shown
      BY <3>1, SameShown
    <3>. QED
      BY <2>1, <3>1, <3>2, Unseen
  <2>3. CASE Environment
    <3>1. row \in Row
      BY <1>2 DEF Inv, Stream
    <3>. QED
      BY <2>1, <2>3, <3>1, RestEnvironment
  <2>4. ASSUME NEW r \in Senders, Sender(r) PROVE RestStep
    BY <1>2, <2>1, <2>4, RestSender DEF Inv
  <2>5. ASSUME NEW w \in Workers, Worker(w) PROVE RestStep
    BY <1>2, <2>5, RestWorker
  <2>. QED
    BY <1>2, <2>1, <2>2, <2>3, <2>4, <2>5 DEF Next
<1>3. Inv /\ Sights /\ [Next]_vars => Sights' /\ [Rest!ReadNext]_Rest!readVars
  BY <1>2 DEF RestStep
<1>. QED
  BY <1>1, <1>3, Invariant, PTL DEF Spec, Rest!ReadSpec
=============================================================================
