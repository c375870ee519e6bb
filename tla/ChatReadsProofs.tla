--------------------------- MODULE ChatReadsProofs ---------------------------
(***************************************************************************)
(* Proofs about ChatReads, for any number of people, requests, readers and *)
(* workers and any limits: what queued and written receipts say is true,   *)
(* CONFIRMED names a written one, positions only go forward, and a read is *)
(* accepted only under the authority it names.                             *)
(***************************************************************************)
EXTENDS ChatReads, TournamentRowProofs

-----------------------------------------------------------------------------
(* A row with its queues.  What TournamentRowProofs says of a row does not *)
(* depend on them: it holds of the row without its queues.                 *)

Intent == [message : Messages, sequence : Nat]
FullChat == [adopted : BOOLEAN, allocated : Nat, published : Nat, pending : Seq(Intent)]
ReadReceipt == [id : ReadIds, reached : Nat, by : Readers]
FullReads == [adopted : BOOLEAN, positions : SUBSET Position, pending : Seq(ReadReceipt)]
FullRow == [status : Statuses, roster : SUBSET Seat, waitlist : SUBSET Phones,
            journal : Seq(Operation), receipts : Seq(Receipt), chat : FullChat,
            reads : FullReads, stamp : Nat]

Bare(rw) ==
    [status |-> rw.status, roster |-> rw.roster, waitlist |-> rw.waitlist,
     journal |-> rw.journal, receipts |-> rw.receipts,
     chat |-> [adopted |-> rw.chat.adopted, allocated |-> rw.chat.allocated,
               published |-> rw.chat.published, pending |-> <<>>],
     reads |-> [adopted |-> rw.reads.adopted, positions |-> rw.reads.positions,
                pending |-> <<>>],
     stamp |-> rw.stamp]

\* Two rows that differ in nothing but their queues.
Alike(rw, v) ==
    /\ v.status = rw.status /\ v.roster = rw.roster /\ v.waitlist = rw.waitlist
    /\ v.journal = rw.journal /\ v.receipts = rw.receipts /\ v.stamp = rw.stamp
    /\ v.chat.adopted = rw.chat.adopted /\ v.chat.allocated = rw.chat.allocated
    /\ v.chat.published = rw.chat.published
    /\ v.reads.adopted = rw.reads.adopted /\ v.reads.positions = rw.reads.positions

LEMMA BareIs == ASSUME NEW rw \in FullRow PROVE Bare(rw) \in Row /\ Alike(rw, Bare(rw))
BY DEF Bare, Alike, FullRow, FullChat, FullReads, Row, Frontier, Reads

LEMMA BareOnly ==
    ASSUME NEW rw \in FullRow, NEW v \in Row, Alike(rw, v)
    PROVE  v = Bare(rw)
<1>1. v.chat = Bare(rw).chat
  BY DEF Bare, Alike, Row, Frontier
<1>2. v.reads = Bare(rw).reads
  BY DEF Bare, Alike, Row, Reads
<1>. QED
  BY <1>1, <1>2 DEF Bare, Alike, Row

\* Everything an owner looks at is the same without the queues.
LEMMA LooksAlike ==
    ASSUME NEW rw, NEW v, Alike(rw, v)
    PROVE  /\ Entries(v) = Entries(rw) /\ Active(v) = Active(rw)
           /\ Registered(v) = Registered(rw)
           /\ \A o : Departed(v, o) <=> Departed(rw, o)
           /\ \A a : ActiveOf(v, a) = ActiveOf(rw, a)
           /\ \A o : Current(v, o) <=> Current(rw, o)
           /\ Revision(v) = Revision(rw) /\ Selected(v) = Selected(rw)
           /\ \A id : ReceiptsOf(v, id) = ReceiptsOf(rw, id)
           /\ \A a, k : FreshKey(v, a, k) <=> FreshKey(rw, a, k)
           /\ \A a, kind : Witnesses(v, a, kind) = Witnesses(rw, a, kind)
           /\ \A w : CanEnrol(v, w) <=> CanEnrol(rw, w)
           /\ \A w : PositionsOf(v, w) = PositionsOf(rw, w)
<1>1. /\ Entries(v) = Entries(rw) /\ Active(v) = Active(rw)
      /\ Registered(v) = Registered(rw)
  BY SameJournal DEF Alike
<1>2. \A o : Departed(v, o) <=> Departed(rw, o)
  BY <1>1 DEF Departed
<1>3. \A a : ActiveOf(v, a) = ActiveOf(rw, a)
  BY <1>1 DEF ActiveOf
<1>4. \A o : Current(v, o) <=> Current(rw, o)
  BY DEF Current, Candidates, Alike
<1>5. Revision(v) = Revision(rw) /\ Selected(v) = Selected(rw)
  BY DEF Revision, Selected, Alike
<1>6. \A id : ReceiptsOf(v, id) = ReceiptsOf(rw, id)
  BY DEF ReceiptsOf, Alike
<1>7. \A a, k : FreshKey(v, a, k) <=> FreshKey(rw, a, k)
  BY <1>1 DEF FreshKey
<1>8. \A a, kind : Witnesses(v, a, kind) = Witnesses(rw, a, kind)
  BY <1>3, <1>4, <1>5 DEF Witnesses, Alike
<1>9. /\ \A w : CanEnrol(v, w) <=> CanEnrol(rw, w)
      /\ \A w : PositionsOf(v, w) = PositionsOf(rw, w)
  BY DEF CanEnrol, PositionsOf, Alike
<1>. QED
  BY <1>1, <1>2, <1>3, <1>4, <1>5, <1>6, <1>7, <1>8, <1>9

\* One field set in a row is that field set in the row without its queues.
LEMMA SetBare ==
    ASSUME NEW rw \in FullRow
    PROVE  /\ \A j \in Seq(Operation) :
                 LET next == [rw EXCEPT !.journal = j] IN
                 /\ next \in FullRow /\ Bare(next) = [Bare(rw) EXCEPT !.journal = j]
                 /\ next.chat = rw.chat /\ next.reads = rw.reads
           /\ \A s \in SUBSET Seat :
                 LET next == [rw EXCEPT !.roster = s] IN
                 /\ next \in FullRow /\ Bare(next) = [Bare(rw) EXCEPT !.roster = s]
                 /\ next.chat = rw.chat /\ next.reads = rw.reads
           /\ \A r \in Seq(Receipt) :
                 LET next == [rw EXCEPT !.receipts = r] IN
                 /\ next \in FullRow /\ Bare(next) = [Bare(rw) EXCEPT !.receipts = r]
                 /\ next.chat = rw.chat /\ next.reads = rw.reads
           /\ \A s \in Statuses :
                 LET next == [rw EXCEPT !.status = s] IN
                 /\ next \in FullRow /\ Bare(next) = [Bare(rw) EXCEPT !.status = s]
                 /\ next.chat = rw.chat /\ next.reads = rw.reads
<1>1. Bare(rw) \in Row /\ Alike(rw, Bare(rw))
  BY BareIs
<1>2. ASSUME NEW j \in Seq(Operation)
      PROVE  LET next == [rw EXCEPT !.journal = j] IN
             /\ next \in FullRow /\ Bare(next) = [Bare(rw) EXCEPT !.journal = j]
             /\ next.chat = rw.chat /\ next.reads = rw.reads
  <2>1. [rw EXCEPT !.journal = j] \in FullRow /\ [Bare(rw) EXCEPT !.journal = j] \in Row
    BY <1>1 DEF FullRow, Row
  <2>2. Alike([rw EXCEPT !.journal = j], [Bare(rw) EXCEPT !.journal = j])
    BY <1>1 DEF Alike, FullRow, Row
  <2>3. [rw EXCEPT !.journal = j].chat = rw.chat /\ [rw EXCEPT !.journal = j].reads = rw.reads
    BY DEF FullRow
  <2>. QED
    BY <2>1, <2>2, <2>3, BareOnly
<1>3. ASSUME NEW s \in SUBSET Seat
      PROVE  LET next == [rw EXCEPT !.roster = s] IN
             /\ next \in FullRow /\ Bare(next) = [Bare(rw) EXCEPT !.roster = s]
             /\ next.chat = rw.chat /\ next.reads = rw.reads
  <2>1. [rw EXCEPT !.roster = s] \in FullRow /\ [Bare(rw) EXCEPT !.roster = s] \in Row
    BY <1>1 DEF FullRow, Row
  <2>2. Alike([rw EXCEPT !.roster = s], [Bare(rw) EXCEPT !.roster = s])
    BY <1>1 DEF Alike, FullRow, Row
  <2>3. [rw EXCEPT !.roster = s].chat = rw.chat /\ [rw EXCEPT !.roster = s].reads = rw.reads
    BY DEF FullRow
  <2>. QED
    BY <2>1, <2>2, <2>3, BareOnly
<1>4. ASSUME NEW r \in Seq(Receipt)
      PROVE  LET next == [rw EXCEPT !.receipts = r] IN
             /\ next \in FullRow /\ Bare(next) = [Bare(rw) EXCEPT !.receipts = r]
             /\ next.chat = rw.chat /\ next.reads = rw.reads
  <2>1. [rw EXCEPT !.receipts = r] \in FullRow /\ [Bare(rw) EXCEPT !.receipts = r] \in Row
    BY <1>1 DEF FullRow, Row
  <2>2. Alike([rw EXCEPT !.receipts = r], [Bare(rw) EXCEPT !.receipts = r])
    BY <1>1 DEF Alike, FullRow, Row
  <2>3. [rw EXCEPT !.receipts = r].chat = rw.chat /\ [rw EXCEPT !.receipts = r].reads = rw.reads
    BY DEF FullRow
  <2>. QED
    BY <2>1, <2>2, <2>3, BareOnly
<1>5. ASSUME NEW s \in Statuses
      PROVE  LET next == [rw EXCEPT !.status = s] IN
             /\ next \in FullRow /\ Bare(next) = [Bare(rw) EXCEPT !.status = s]
             /\ next.chat = rw.chat /\ next.reads = rw.reads
  <2>1. [rw EXCEPT !.status = s] \in FullRow /\ [Bare(rw) EXCEPT !.status = s] \in Row
    BY <1>1 DEF FullRow, Row
  <2>2. Alike([rw EXCEPT !.status = s], [Bare(rw) EXCEPT !.status = s])
    BY <1>1 DEF Alike, FullRow, Row
  <2>3. [rw EXCEPT !.status = s].chat = rw.chat /\ [rw EXCEPT !.status = s].reads = rw.reads
    BY DEF FullRow
  <2>. QED
    BY <2>1, <2>2, <2>3, BareOnly
<1>. QED
  BY <1>2, <1>3, <1>4, <1>5

LEMMA PositionsSetBare ==
    ASSUME NEW rw \in FullRow, NEW s \in SUBSET Position
    PROVE  LET next == [rw EXCEPT !.reads.positions = s] IN
           /\ next \in FullRow /\ Bare(next) = [Bare(rw) EXCEPT !.reads.positions = s]
           /\ next.chat = rw.chat /\ next.reads.pending = rw.reads.pending
           /\ next.reads.adopted = rw.reads.adopted /\ next.reads.positions = s
<1>1. Bare(rw) \in Row /\ Alike(rw, Bare(rw))
  BY BareIs
<1>2. PICK reads : reads = [rw.reads EXCEPT !.positions = s]
  OBVIOUS
<1>3. /\ reads \in FullReads /\ reads.positions = s
      /\ reads.adopted = rw.reads.adopted /\ reads.pending = rw.reads.pending
  BY <1>2 DEF FullRow, FullReads
<1>4. PICK next : next = [rw EXCEPT !.reads = reads]
  OBVIOUS
<1>5. /\ next \in FullRow /\ next.chat = rw.chat /\ next.reads = reads
      /\ next.status = rw.status /\ next.roster = rw.roster
      /\ next.waitlist = rw.waitlist /\ next.journal = rw.journal
      /\ next.receipts = rw.receipts /\ next.stamp = rw.stamp
  BY <1>3, <1>4 DEF FullRow
<1>6. next = [rw EXCEPT !.reads.positions = s]
  BY <1>2, <1>4 DEF FullRow, FullReads
<1>7. PICK few : few = [Bare(rw).reads EXCEPT !.positions = s]
  OBVIOUS
<1>8. /\ few \in Reads /\ few.positions = s
      /\ few.adopted = rw.reads.adopted
  BY <1>1, <1>7 DEF Row, Reads, Alike
<1>9. PICK v : v = [Bare(rw) EXCEPT !.reads = few]
  OBVIOUS
<1>10. v \in Row /\ Alike(next, v)
  BY <1>1, <1>3, <1>5, <1>8, <1>9 DEF Row, Alike
<1>11. v = [Bare(rw) EXCEPT !.reads.positions = s]
  BY <1>1, <1>7, <1>9 DEF Row, Reads
<1>12. v = Bare(next)
  BY <1>5, <1>10, BareOnly
<1>. QED
  BY <1>3, <1>5, <1>6, <1>11, <1>12

\* What the other owners leave to the chat and its readers.
Beside(rw, next) ==
    /\ next.chat = rw.chat
    /\ next.reads.adopted = rw.reads.adopted /\ next.reads.pending = rw.reads.pending
    /\ rw.reads.positions \subseteq next.reads.positions
    /\ ~rw.reads.adopted => next.reads.positions = rw.reads.positions

LEMMA EnrolBare ==
    ASSUME NEW rw \in FullRow, NEW w \in Authority
    PROVE  /\ Enrol(rw, w) \in FullRow /\ Bare(Enrol(rw, w)) = Enrol(Bare(rw), w)
           /\ Beside(rw, Enrol(rw, w))
<1>1. Bare(rw) \in Row /\ Alike(rw, Bare(rw))
  BY BareIs
<1>2. CASE ~rw.reads.adopted
  BY <1>1, <1>2 DEF Enrol, Alike, Beside
<1>3. CASE rw.reads.adopted
  <2>1. PICK s : s = rw.reads.positions \cup {NewPosition(w, rw.chat.published)}
    OBVIOUS
  <2>2. s \in SUBSET Position
    BY <2>1 DEF FullRow, FullReads, FullChat, NewPosition, Position
  <2>3. Enrol(rw, w) = [rw EXCEPT !.reads.positions = s]
    BY <1>3, <2>1 DEF Enrol
  <2>4. Enrol(Bare(rw), w) = [Bare(rw) EXCEPT !.reads.positions = s]
    BY <1>1, <1>3, <2>1 DEF Enrol, Alike
  <2>5. PICK next : next = [rw EXCEPT !.reads.positions = s]
    OBVIOUS
  <2>6. /\ next \in FullRow /\ Bare(next) = [Bare(rw) EXCEPT !.reads.positions = s]
        /\ next.chat = rw.chat /\ next.reads.pending = rw.reads.pending
        /\ next.reads.adopted = rw.reads.adopted /\ next.reads.positions = s
    BY <2>2, <2>5, PositionsSetBare
  <2>7. Enrol(rw, w) = next /\ Bare(next) = Enrol(Bare(rw), w)
    BY <2>3, <2>4, <2>5, <2>6
  <2>8. Beside(rw, next)
    BY <1>3, <2>1, <2>6 DEF Beside
  <2>. QED
    BY <2>6, <2>7, <2>8
<1>. QED
  BY <1>2, <1>3

LEMMA LoggedBare ==
    ASSUME NEW rw \in FullRow, NEW op \in Operation
    PROVE  /\ Logged(rw, op) \in FullRow /\ Bare(Logged(rw, op)) = Logged(Bare(rw), op)
           /\ Logged(rw, op).chat = rw.chat /\ Logged(rw, op).reads = rw.reads
           /\ Fits(Bare(rw), op) <=> Fits(rw, op)
<1>1. Bare(rw) \in Row /\ Alike(rw, Bare(rw))
  BY BareIs
<1>2. PICK j : j = Append(rw.journal, op)
  OBVIOUS
<1>3. j \in Seq(Operation)
  BY <1>2, AppendProperties DEF FullRow
<1>4. /\ Logged(rw, op) = [rw EXCEPT !.journal = j]
      /\ Logged(Bare(rw), op) = [Bare(rw) EXCEPT !.journal = j]
  BY <1>1, <1>2 DEF Logged, Alike
<1>5. /\ Logged(rw, op) \in FullRow /\ Bare(Logged(rw, op)) = Logged(Bare(rw), op)
      /\ Logged(rw, op).chat = rw.chat /\ Logged(rw, op).reads = rw.reads
  BY <1>3, <1>4, SetBare
<1>6. Active(Logged(Bare(rw), op)) = Active(Logged(rw, op))
  BY <1>5, BareIs, LooksAlike
<1>. QED
  BY <1>1, <1>5, <1>6 DEF Fits, Alike

LEMMA CommittedBare ==
    ASSUME NEW rw \in FullRow, NEW op \in Operation, op.outcome = "REGISTERED" => op.gen \in Keys,
           NEW next \in Committed(rw, op)
    PROVE  /\ next \in FullRow /\ Bare(next) \in Committed(Bare(rw), op)
           /\ Beside(rw, next)
<1>1. Bare(rw) \in Row /\ Alike(rw, Bare(rw))
  BY BareIs
<1>2. PICK logged : logged = Logged(rw, op)
  OBVIOUS
<1>3. /\ logged \in FullRow /\ Bare(logged) = Logged(Bare(rw), op)
      /\ logged.chat = rw.chat /\ logged.reads = rw.reads
      /\ Bare(logged).roster = logged.roster
  BY <1>2, LoggedBare, BareIs DEF Alike
<1>4. ASSUME NEW s \in SUBSET Seat
      PROVE  /\ [logged EXCEPT !.roster = s] \in FullRow
             /\ Bare([logged EXCEPT !.roster = s]) = [Bare(logged) EXCEPT !.roster = s]
             /\ [logged EXCEPT !.roster = s].chat = rw.chat
             /\ [logged EXCEPT !.roster = s].reads = rw.reads
  BY <1>3, SetBare
<1>5. CASE op.outcome = "REGISTERED"
  <2>1. PICK s : s = logged.roster \cup {SeatOf(op)}
    OBVIOUS
  <2>2. s \in SUBSET Seat
    <3>1. SeatOf(op) \in Seat
      BY DEF SeatOf, Seat, Operation
    <3>. QED
      BY <1>3, <2>1, <3>1 DEF FullRow
  <2>3. PICK seated : seated = [logged EXCEPT !.roster = s]
    OBVIOUS
  <2>4. /\ seated \in FullRow /\ Bare(seated) = [Bare(logged) EXCEPT !.roster = s]
        /\ seated.chat = rw.chat /\ seated.reads = rw.reads
    BY <1>4, <2>2, <2>3
  <2>5. /\ CanEnrol(rw, Participant(op))
        /\ next = Enrol([logged EXCEPT !.roster = logged.roster \cup {SeatOf(op)}],
                        Participant(op))
    BY <1>2, <1>5 DEF Committed
  <2>6. Participant(op) \in Authority
    BY <1>5 DEF Participant, Authority, Operation
  <2>7. next \in FullRow /\ Bare(next) = Enrol(Bare(seated), Participant(op))
        /\ Beside(seated, next)
    BY <2>1, <2>3, <2>4, <2>5, <2>6, EnrolBare
  <2>8. CanEnrol(Bare(rw), Participant(op))
    BY <1>1, <2>5, LooksAlike
  <2>9. Committed(Bare(rw), op) =
           {Enrol([Bare(logged) EXCEPT !.roster = Bare(logged).roster \cup {SeatOf(op)}],
                  Participant(op))}
    BY <1>3, <1>5, <2>8 DEF Committed
  <2>. QED
    BY <1>3, <2>1, <2>4, <2>7, <2>9 DEF Beside
<1>6. CASE op.outcome = "LEFT"
  <2>1. PICK s : s = {t \in logged.roster : ~(t.by = op.actor /\ t.gen = op.gen)}
    OBVIOUS
  <2>2. s \in SUBSET Seat
    BY <1>3, <2>1 DEF FullRow
  <2>3. next = [logged EXCEPT !.roster = s]
    BY <1>2, <1>6, <2>1 DEF Committed
  <2>4. Committed(Bare(rw), op) = {[Bare(logged) EXCEPT !.roster = s]}
    BY <1>3, <1>6, <2>1 DEF Committed
  <2>. QED
    BY <1>4, <2>2, <2>3, <2>4 DEF Beside
<1>7. CASE op.outcome \notin {"REGISTERED", "LEFT"}
  <2>1. next = logged /\ Committed(Bare(rw), op) = {Bare(logged)}
    BY <1>2, <1>3, <1>7 DEF Committed
  <2>. QED
    BY <1>3, <2>1 DEF Beside
<1>. QED
  BY <1>5, <1>6, <1>7

LEMMA AssignedBare ==
    ASSUME NEW rw \in FullRow, NEW receipt \in Receipt, NEW next \in Assigned(rw, receipt),
           receipt.outcome = "ASSIGNED" => receipt.selected \in Actors
    PROVE  /\ next \in FullRow /\ Bare(next) \in Assigned(Bare(rw), receipt)
           /\ Beside(rw, next)
<1>1. Bare(rw) \in Row /\ Alike(rw, Bare(rw))
  BY BareIs
<1>2. PICK r : r = Append(rw.receipts, receipt)
  OBVIOUS
<1>3. r \in Seq(Receipt) /\ r = Append(Bare(rw).receipts, receipt)
  BY <1>1, <1>2, AppendProperties DEF FullRow, Alike
<1>4. PICK added : added = [rw EXCEPT !.receipts = r]
  OBVIOUS
<1>5. /\ added \in FullRow /\ Bare(added) = [Bare(rw) EXCEPT !.receipts = r]
      /\ added.chat = rw.chat /\ added.reads = rw.reads
  BY <1>3, <1>4, SetBare
<1>. DEFINE w == Organizer(receipt.selected, receipt.revision)
<1>6. CASE receipt.outcome # "ASSIGNED"
  <2>1. next = added /\ Assigned(Bare(rw), receipt) = {Bare(added)}
    BY <1>2, <1>3, <1>4, <1>5, <1>6 DEF Assigned
  <2>. QED
    BY <1>5, <2>1 DEF Beside
<1>7. CASE receipt.outcome = "ASSIGNED"
  <2>1. w \in Authority
    BY <1>7 DEF Organizer, Authority, Receipt
  <2>2. CanEnrol(rw, w) /\ next = Enrol(added, w)
    BY <1>2, <1>4, <1>7 DEF Assigned
  <2>3. CanEnrol(Bare(rw), w)
    BY <1>1, <2>2, LooksAlike
  <2>4. Assigned(Bare(rw), receipt) = {Enrol(Bare(added), w)}
    BY <1>3, <1>5, <1>7, <2>3 DEF Assigned
  <2>. HIDE DEF w
  <2>5. /\ next \in FullRow /\ Bare(next) = Enrol(Bare(added), w)
        /\ Beside(added, next)
    BY <1>5, <2>1, <2>2, EnrolBare
  <2>. QED
    BY <1>5, <2>4, <2>5 DEF Beside
<1>. QED
  BY <1>6, <1>7

-----------------------------------------------------------------------------
(* The other owners.                                                       *)

LEMMA JoinStep ==
    ASSUME NEW rw \in FullRow, NEW a \in Actors, NEW p \in Phones, NEW k \in Keys,
           NEW next \in AfterJoin(rw, a, p, k)
    PROVE  /\ next \in FullRow /\ OwnerStep(Bare(rw), Bare(next))
           /\ Beside(rw, next)
<1>. DEFINE op == JoinOperation(rw, a, p, k)
<1>1. Bare(rw) \in Row /\ Alike(rw, Bare(rw))
  BY BareIs
<1>2. /\ FreshKey(rw, a, k) /\ op.outcome = "REGISTERED" /\ Fits(rw, op)
      /\ rw.status \in OpenStatuses
      /\ next \in Committed(rw, op)
  BY DEF AfterJoin
<1>3. op \in Operation /\ op.gen = k /\ op.actor = a /\ op.key = k
  <2>1. JoinOutcome(rw, a, p) \in Outcomes
    BY DEF JoinOutcome, Outcomes
  <2>. QED
    BY <1>2, <2>1 DEF JoinOperation, Operation, Commands, Join
<1>4. op = JoinOperation(Bare(rw), a, p, k)
  <2>1. JoinOutcome(Bare(rw), a, p) = JoinOutcome(rw, a, p)
    BY <1>1, LooksAlike DEF JoinOutcome, Alike
  <2>. QED
    BY <2>1 DEF JoinOperation
<1>. HIDE DEF op
<1>5. /\ next \in FullRow /\ Bare(next) \in Committed(Bare(rw), op)
      /\ Beside(rw, next)
  BY <1>2, <1>3, CommittedBare
<1>6. Decision(Bare(rw), op)
  <2>1. \A o \in Entries(Bare(rw)) : ~(o.actor = op.actor /\ o.key = op.key)
    BY <1>1, <1>2, <1>3, LooksAlike DEF FreshKey
  <2>2. Fits(Bare(rw), op)
    BY <1>2, <1>3, LoggedBare
  <2>. QED
    BY <1>1, <1>2, <1>4, <2>1, <2>2 DEF Decision, Alike
<1>. QED
  BY <1>3, <1>5, <1>6 DEF OwnerStep, JournalStep

LEMMA LeaveStep ==
    ASSUME NEW rw \in FullRow, Sound(Bare(rw)), NEW a \in Actors, NEW k \in Keys,
           NEW next \in AfterLeave(rw, a, k)
    PROVE  /\ next \in FullRow /\ OwnerStep(Bare(rw), Bare(next))
           /\ Beside(rw, next)
<1>1. Bare(rw) \in Row /\ Alike(rw, Bare(rw))
  BY BareIs
<1>2. FreshKey(rw, a, k)
  BY DEF AfterLeave
<1>3. PICK o \in ActiveOf(rw, a) : next \in Committed(rw, LeaveOperation(rw, o, k))
  BY <1>2 DEF AfterLeave
<1>4. o \in Active(Bare(rw)) /\ o \in Registered(Bare(rw)) /\ o.actor = a
  BY <1>1, <1>3, LooksAlike DEF ActiveOf, Active, Registered
<1>5. o \in Operation /\ o.key \in Keys /\ o.phone \in Phones /\ o.gen \in Keys \cup {None}
  BY <1>1, <1>4, EntriesTyped DEF Operation
<1>. DEFINE op == LeaveOperation(rw, o, k)
<1>6. op = LeaveOperation(Bare(rw), o, k)
  BY <1>1, LooksAlike DEF LeaveOperation
<1>7. /\ op \in Operation /\ op.actor = a /\ op.key = k /\ op.outcome # "REGISTERED"
      /\ op.command # Join
  BY <1>4, <1>5, LeaveIsNotJoin DEF LeaveOperation, Operation, Commands, Leave, Outcomes
<1>8. Fits(Bare(rw), op)
  BY <1>4, <1>6, LeaveFits
<1>9. next \in Committed(rw, op)
  BY <1>3
<1>. HIDE DEF op
<1>10. /\ next \in FullRow /\ Bare(next) \in Committed(Bare(rw), op)
       /\ Beside(rw, next)
  BY <1>7, <1>9, CommittedBare
<1>11. Decision(Bare(rw), op)
  <2>1. \A e \in Entries(Bare(rw)) : ~(e.actor = op.actor /\ e.key = op.key)
    BY <1>1, <1>2, <1>7, LooksAlike DEF FreshKey
  <2>. QED
    BY <1>4, <1>6, <1>7, <1>8, <2>1 DEF Decision
<1>. QED
  BY <1>7, <1>10, <1>11 DEF OwnerStep, JournalStep

LEMMA CommandStep ==
    ASSUME NEW rw \in FullRow, NEW id \in OrganizerIds, NEW selected \in Actors \cup {None},
           NEW next \in AfterCommand(rw, id, selected)
    PROVE  /\ next \in FullRow /\ OwnerStep(Bare(rw), Bare(next))
           /\ Beside(rw, next)
<1>. DEFINE command == [id |-> id, expected |-> Revision(rw), selected |-> selected,
                        action |-> IF selected = None THEN "REVOKE" ELSE "ASSIGN"]
            receipt == OrganizerReceipt(rw, command)
<1>1. Bare(rw) \in Row /\ Alike(rw, Bare(rw))
  BY BareIs
<1>2. /\ ReceiptsOf(rw, command.id) = {} /\ OrganizerFits(rw, receipt)
      /\ command.action = "REVOKE" => rw.receipts # <<>>
      /\ next \in Assigned(rw, receipt)
  BY DEF AfterCommand
<1>3. command \in CommandShapes
  <2>1. Revision(rw) \in Nat
    BY <1>1, OrganizerTyped, LooksAlike
  <2>. QED
    BY <2>1 DEF CommandShapes, Assignment
<1>4. receipt.outcome = "ASSIGNED" => receipt.selected \in Actors
  BY DEF OrganizerReceipt
<1>. HIDE DEF command
<1>5. receipt = OrganizerReceipt(Bare(rw), command)
  BY <1>1, LooksAlike DEF OrganizerReceipt
<1>6. receipt \in Receipt
  BY <1>1, <1>3, <1>5, ReceiptTyped
<1>. HIDE DEF receipt
<1>7. /\ next \in FullRow /\ Bare(next) \in Assigned(Bare(rw), receipt)
      /\ Beside(rw, next)
  BY <1>2, <1>4, <1>6, AssignedBare
<1>8. /\ ReceiptsOf(Bare(rw), command.id) = {} /\ OrganizerFits(Bare(rw), receipt)
      /\ command.action = "REVOKE" => Bare(rw).receipts # <<>>
  BY <1>1, <1>2, LooksAlike DEF OrganizerFits, Alike
<1>. QED
  BY <1>3, <1>5, <1>7, <1>8 DEF OwnerStep, OrganizerStep

LEMMA EditStep ==
    ASSUME NEW rw \in FullRow, Sound(Bare(rw)), NEW next \in AfterEdit(rw)
    PROVE  /\ next \in FullRow /\ OwnerStep(Bare(rw), Bare(next))
           /\ Beside(rw, next)
<1>1. Bare(rw) \in Row /\ Alike(rw, Bare(rw))
  BY BareIs
<1>2. PICK s \in StaffStatus : rw.journal = <<>> /\ next = [rw EXCEPT !.status = s]
  BY DEF AfterEdit
<1>3. /\ next \in FullRow /\ Bare(next) = [Bare(rw) EXCEPT !.status = s]
      /\ next.chat = rw.chat /\ next.reads = rw.reads
  BY <1>2, SetBare, StatusAssumption
<1>4. Bare(next) \in Row
  BY <1>3, BareIs
<1>5. Loose(Bare(rw).roster)
  <2>1. Active(Bare(rw)) = {}
    BY <1>1, <1>2, NoJournal DEF Alike
  <2>2. {t \in Bare(rw).roster : t.by # None} = {}
    BY <2>1 DEF Sound, SeatsSound
  <2>3. Bare(rw).roster \subseteq Seat
    BY <1>1 DEF Row
  <2>. QED
    BY <2>2, <2>3 DEF Sound, SeatsSound, Loose
<1>6. StaffStep(Bare(rw), Bare(next))
  BY <1>1, <1>2, <1>3, <1>4, <1>5 DEF StaffStep, Alike, Row
<1>. QED
  BY <1>3, <1>6 DEF OwnerStep, Beside

LEMMA EnvironmentStep ==
    ASSUME row \in FullRow, Sound(Bare(row)), Environment
    PROVE  row' \in FullRow /\ Sound(Bare(row')) /\ Beside(row, row')
<1>1. ASSUME NEW a \in Actors, NEW k \in Keys, MemberJoins(a, k)
      PROVE  row' \in FullRow /\ OwnerStep(Bare(row), Bare(row')) /\ Beside(row, row')
  <2>1. PhoneOf[a] \in Phones
    BY ChatAssumption
  <2>. QED
    BY <1>1, <2>1, JoinStep DEF MemberJoins
<1>2. ASSUME NEW a \in Actors, NEW k \in Keys, MemberLeaves(a, k)
      PROVE  row' \in FullRow /\ OwnerStep(Bare(row), Bare(row')) /\ Beside(row, row')
  BY <1>2, LeaveStep DEF MemberLeaves
<1>3. ASSUME NEW id \in OrganizerIds, NEW selected \in Actors \cup {None},
             OrganizerChanges(id, selected)
      PROVE  row' \in FullRow /\ OwnerStep(Bare(row), Bare(row')) /\ Beside(row, row')
  BY <1>3, CommandStep DEF OrganizerChanges
<1>4. ASSUME StaffEdits
      PROVE  row' \in FullRow /\ OwnerStep(Bare(row), Bare(row')) /\ Beside(row, row')
  BY <1>4, EditStep DEF StaffEdits
<1>. QED
  BY <1>1, <1>2, <1>3, <1>4, OwnersAgree DEF Environment

-----------------------------------------------------------------------------
(* The stream and the readers.                                             *)

\* A row whose journal, receipts and seats stay is sound with its positions.
LEMMA SoundAgain ==
    ASSUME NEW rw, Sound(rw), NEW next \in Row, next.journal = rw.journal,
           next.receipts = rw.receipts, next.roster = rw.roster,
           PositionsSound(next), RoomSound(next)
    PROVE  Sound(next)
<1>1. Active(next) = Active(rw) /\ Registered(next) = Registered(rw) /\ JournalSound(next)
  BY SameJournal DEF Sound
<1>2. SeatsSound(next)
  BY <1>1 DEF Sound, SeatsSound
<1>3. OrganizerSound(next)
  BY DEF Sound, OrganizerSound, Selected
<1>. QED
  BY <1>1, <1>2, <1>3 DEF Sound

\* The frontier may move on.
LEMMA FrontierMoves ==
    ASSUME NEW rw, Sound(rw), NEW next \in Row, next.journal = rw.journal,
           next.receipts = rw.receipts, next.roster = rw.roster, next.reads = rw.reads,
           rw.chat.published =< next.chat.published
    PROVE  Sound(next)
<1>1. rw \in Row
  BY DEF Sound
<1>2. Authorities(next) = Authorities(rw)
  BY SameJournal DEF Authorities, Selected, Revision
<1>3. rw.reads.adopted => \A p \in rw.reads.positions : p.through =< next.chat.published
  <2>1. \A p \in rw.reads.positions : p.through \in Nat
    BY <1>1 DEF Row, Reads, Position
  <2>2. rw.chat.published \in Nat /\ next.chat.published \in Nat
    BY <1>1 DEF Row, Frontier
  <2>. QED
    BY <2>1, <2>2 DEF Sound, PositionsSound
<1>4. PositionsSound(next)
  BY <1>2, <1>3 DEF Sound, PositionsSound
<1>5. RoomSound(next)
  BY SameJournal DEF Sound, RoomSound, Recorded, Revision, Slots
<1>. QED
  BY <1>4, <1>5, SoundAgain

\* A position may move on, up to the frontier.
LEMMA PositionMoves ==
    ASSUME NEW rw, Sound(rw), rw.reads.adopted, NEW p \in rw.reads.positions, NEW n,
           n.witness = p.witness, n.baseline = p.baseline,
           p.through =< n.through, n.through =< rw.chat.published,
           NEW next \in Row, next.journal = rw.journal, next.receipts = rw.receipts,
           next.roster = rw.roster, next.chat = rw.chat, next.reads.adopted,
           next.reads.positions = (rw.reads.positions \ {p}) \cup {n}
    PROVE  Sound(next)
<1>. DEFINE P == rw.reads.positions
            Q == P \ {p}
<1>1. /\ rw \in Row /\ IsFiniteSet(P) /\ Cardinality(P) =< PositionLimit
      /\ Cardinality(P) =< Slots(rw)
      /\ \A q \in P : Recorded(rw, q.witness)
      /\ \A q, r \in P : q.witness = r.witness => q = r
      /\ \A q \in P : q.baseline =< q.through /\ q.through =< rw.chat.published
      /\ \A w \in Authorities(rw) : \E q \in P : q.witness = w
  BY DEF Sound, PositionsSound, RoomSound
<1>2. /\ p \in Position /\ n \in Position
  BY <1>1 DEF Row, Reads
<1>3. Authorities(next) = Authorities(rw) /\ Slots(next) = Slots(rw)
  BY SameJournal DEF Authorities, Selected, Revision, Slots
<1>4. \A w : Recorded(next, w) <=> Recorded(rw, w)
  BY SameJournal DEF Recorded, Revision
<1>5. n \notin Q
  BY <1>1
<1>6. /\ IsFiniteSet(Q \cup {n}) /\ Cardinality(Q \cup {n}) = Cardinality(P)
  <2>1. IsFiniteSet(Q) /\ Cardinality(Q) = Cardinality(P) - 1 /\ Cardinality(P) \in Nat
    BY <1>1, FS_RemoveElement, FS_CardinalityType
  <2>2. IsFiniteSet(Q \cup {n}) /\ Cardinality(Q \cup {n}) = Cardinality(Q) + 1
    BY <1>5, <2>1, FS_AddElement
  <2>. QED
    BY <2>1, <2>2
<1>7. PositionsSound(next)
  <2>1. \A w \in Authorities(rw) : \E q \in Q \cup {n} : q.witness = w
    BY <1>1
  <2>2. \A q, r \in Q \cup {n} : q.witness = r.witness => q = r
    BY <1>1
  <2>3. \A q \in Q \cup {n} : q.baseline =< q.through /\ q.through =< rw.chat.published
    <3>1. p.baseline \in Nat /\ p.through \in Nat /\ n.through \in Nat
      BY <1>2 DEF Position
    <3>2. n.baseline =< n.through
      BY <1>1, <3>1
    <3>. QED
      BY <1>1, <3>2
  <2>. QED
    BY <1>1, <1>3, <1>6, <2>1, <2>2, <2>3 DEF PositionsSound
<1>8. RoomSound(next)
  BY <1>1, <1>3, <1>4, <1>6 DEF RoomSound
<1>. QED
  BY <1>7, <1>8, SoundAgain

\* Positions go forward; requests keep what they ask for, and what they got.
Forward(rw, next) ==
    \A p \in rw.reads.positions : \E n \in next.reads.positions :
        n.witness = p.witness /\ n.baseline = p.baseline /\ p.through =< n.through

RowSound(rw) ==
    /\ rw \in FullRow /\ Sound(Bare(rw))
    /\ rw.reads.adopted = rw.chat.adopted
    /\ ~rw.reads.adopted => rw.reads.positions = {}
    /\ rw.chat.allocated = rw.chat.published + Len(rw.chat.pending)
    /\ \A i \in DOMAIN rw.chat.pending :
          rw.chat.pending[i].sequence = rw.chat.published + i
    /\ Len(rw.reads.pending) =< ReadLimit
    /\ \A i, j \in DOMAIN rw.reads.pending :
          rw.reads.pending[i].id = rw.reads.pending[j].id => i = j

LEMMA ForwardIs ==
    ASSUME NEW rw \in FullRow
    PROVE  /\ \A next : rw.reads.positions \subseteq next.reads.positions => Forward(rw, next)
           /\ \A mid \in FullRow, next \in FullRow :
                 Forward(rw, mid) /\ Forward(mid, next) => Forward(rw, next)
<1>1. \A p \in rw.reads.positions : p.through \in Nat
  BY DEF FullRow, FullReads, Position
<1>2. ASSUME NEW next, rw.reads.positions \subseteq next.reads.positions
      PROVE  Forward(rw, next)
  BY <1>1, <1>2 DEF Forward
<1>3. ASSUME NEW mid \in FullRow, NEW next \in FullRow, Forward(rw, mid), Forward(mid, next)
      PROVE  Forward(rw, next)
  <2>1. SUFFICES ASSUME NEW p \in rw.reads.positions
                 PROVE  \E n \in next.reads.positions :
                           n.witness = p.witness /\ n.baseline = p.baseline /\ p.through =< n.through
    BY DEF Forward
  <2>2. PICK m \in mid.reads.positions :
                m.witness = p.witness /\ m.baseline = p.baseline /\ p.through =< m.through
    BY <1>3, <2>1 DEF Forward
  <2>3. PICK n \in next.reads.positions :
                n.witness = m.witness /\ n.baseline = m.baseline /\ m.through =< n.through
    BY <1>3, <2>2 DEF Forward
  <2>4. p.through \in Nat /\ m.through \in Nat /\ n.through \in Nat
    BY DEF FullRow, FullReads, Position
  <2>. QED
    BY <2>2, <2>3, <2>4
<1>. QED
  BY <1>2, <1>3

\* The two halves of the row that change, each set as a whole.
LEMMA ChatSet ==
    ASSUME NEW rw \in FullRow, NEW c \in FullChat
    PROVE  LET next == [rw EXCEPT !.chat = c] IN
           /\ next \in FullRow /\ next.chat = c /\ next.reads = rw.reads
           /\ next.journal = rw.journal /\ next.receipts = rw.receipts
           /\ next.roster = rw.roster
           /\ Bare(next).journal = rw.journal /\ Bare(next).receipts = rw.receipts
           /\ Bare(next).roster = rw.roster /\ Bare(next).reads = Bare(rw).reads
           /\ Bare(next).chat.published = c.published
<1>1. PICK next : next = [rw EXCEPT !.chat = c]
  OBVIOUS
<1>2. /\ next \in FullRow /\ next.chat = c /\ next.reads = rw.reads
      /\ next.journal = rw.journal /\ next.receipts = rw.receipts
      /\ next.roster = rw.roster
  BY <1>1 DEF FullRow
<1>. QED
  BY <1>1, <1>2 DEF Bare

LEMMA ReadsSet ==
    ASSUME NEW rw \in FullRow, NEW r \in FullReads
    PROVE  LET next == [rw EXCEPT !.reads = r] IN
           /\ next \in FullRow /\ next.reads = r /\ next.chat = rw.chat
           /\ next.journal = rw.journal /\ next.receipts = rw.receipts
           /\ next.roster = rw.roster
           /\ Bare(next).journal = rw.journal /\ Bare(next).receipts = rw.receipts
           /\ Bare(next).roster = rw.roster /\ Bare(next).chat = Bare(rw).chat
           /\ Bare(next).reads.adopted = r.adopted
           /\ Bare(next).reads.positions = r.positions
           /\ r.adopted = rw.reads.adopted /\ r.positions = rw.reads.positions =>
                 Bare(next) = Bare(rw)
<1>1. PICK next : next = [rw EXCEPT !.reads = r]
  OBVIOUS
<1>2. /\ next \in FullRow /\ next.reads = r /\ next.chat = rw.chat
      /\ next.journal = rw.journal /\ next.receipts = rw.receipts
      /\ next.roster = rw.roster /\ next.status = rw.status
      /\ next.waitlist = rw.waitlist /\ next.stamp = rw.stamp
  BY <1>1 DEF FullRow
<1>. QED
  BY <1>1, <1>2 DEF Bare

LEMMA AdoptedIs ==
    ASSUME NEW rw, RowSound(rw), ~rw.chat.adopted
    PROVE  /\ RowSound(Adopted(rw)) /\ Forward(rw, Adopted(rw))
           /\ Adopted(rw).reads.pending = <<>>
<1>1. /\ rw \in FullRow /\ Bare(rw) \in Row /\ Alike(rw, Bare(rw)) /\ Sound(Bare(rw))
      /\ rw.reads.positions = {} /\ rw.chat \in FullChat
  BY BareIs DEF RowSound, FullRow
<1>2. PICK c : c = [rw.chat EXCEPT !.adopted = TRUE]
  OBVIOUS
<1>3. /\ c \in FullChat /\ c.adopted = TRUE /\ c.allocated = rw.chat.allocated
      /\ c.published = rw.chat.published /\ c.pending = rw.chat.pending
  BY <1>1, <1>2 DEF FullChat
<1>4. PICK r : r = [NoReads EXCEPT !.adopted = TRUE, !.positions = AdoptedPositions(rw)]
  OBVIOUS
<1>5. PICK next : next = [rw EXCEPT !.chat = c, !.reads = r]
  OBVIOUS
<1>16. /\ r.adopted = TRUE /\ r.positions = AdoptedPositions(rw) /\ r.pending = <<>>
       /\ AdoptedPositions(rw) \in SUBSET Position => r \in FullReads
  <2>1. PICK A : A = AdoptedPositions(rw)
    OBVIOUS
  <2>2. PICK T : T = [adopted : BOOLEAN, positions : {{}, A}, pending : {<<>>}]
    OBVIOUS
  <2>3. NoReads \in T
    BY <2>2 DEF NoReads
  <2>7. PICK none : none = [NoReads EXCEPT !.adopted = TRUE]
    OBVIOUS
  <2>8. none \in T /\ none.adopted = TRUE
    BY <2>2, <2>3, <2>7
  <2>4. r = [none EXCEPT !.positions = A]
    BY <1>4, <2>1, <2>7
  <2>9. r.adopted = none.adopted /\ r.positions = A /\ r.pending = none.pending
    BY <2>2, <2>4, <2>8
  <2>10. none.pending = <<>>
    BY <2>2, <2>8
  <2>5. r.adopted = TRUE /\ r.positions = A /\ r.pending = <<>>
    BY <2>8, <2>9, <2>10, Zenon
  <2>6. r \in T
    BY <2>2, <2>4, <2>8
  <2>11. A \in SUBSET Position => r \in FullReads
    <3>1. /\ r = [adopted |-> r.adopted, positions |-> r.positions, pending |-> r.pending]
          /\ r.adopted \in BOOLEAN
      BY <2>2, <2>6
    <3>2. r.pending \in Seq(ReadReceipt)
      BY <2>9, <2>10
    <3>. QED
      BY <2>9, <3>1, <3>2 DEF FullReads
  <2>. QED
    BY <2>1, <2>5, <2>11, Zenon
<1>6. next = Adopted(rw)
  BY <1>2, <1>4, <1>5 DEF Adopted
<1>7. PICK v : v = Adopted(Bare(rw))
  OBVIOUS
<1>8. Sound(v) /\ v \in Row
  BY <1>1, <1>7, OwnersAgree DEF OwnerStep, ChatStep, Sound
<1>9. AdoptedPositions(Bare(rw)) = AdoptedPositions(rw)
  BY <1>1, LooksAlike DEF AdoptedPositions, Alike
<1>10. /\ v.status = rw.status /\ v.roster = rw.roster /\ v.waitlist = rw.waitlist
       /\ v.journal = rw.journal /\ v.receipts = rw.receipts /\ v.stamp = rw.stamp
       /\ v.chat.adopted = TRUE /\ v.chat.allocated = rw.chat.allocated
       /\ v.chat.published = rw.chat.published
       /\ v.reads.adopted = TRUE /\ v.reads.positions = AdoptedPositions(rw)
  <2>1. v = [Bare(rw) EXCEPT !.chat.adopted = TRUE, !.reads = r]
    BY <1>4, <1>7, <1>9 DEF Adopted
  <2>. QED
    BY <1>1, <1>16, <2>1 DEF Row, Frontier, Alike
<1>11. r \in FullReads
  BY <1>8, <1>10, <1>16 DEF Row, Reads
<1>12. /\ next \in FullRow /\ next.chat = c /\ next.reads = r
       /\ next.status = rw.status /\ next.roster = rw.roster /\ next.waitlist = rw.waitlist
       /\ next.journal = rw.journal /\ next.receipts = rw.receipts /\ next.stamp = rw.stamp
  BY <1>1, <1>3, <1>5, <1>11 DEF FullRow
<1>13. Alike(next, v)
  <2>1. v.chat.adopted = next.chat.adopted /\ v.reads.adopted = next.reads.adopted
    BY <1>3, <1>10, <1>12, <1>16, Zenon
  <2>. QED
    BY <1>3, <1>10, <1>12, <1>16, <2>1 DEF Alike
<1>14. Sound(Bare(next))
  BY <1>8, <1>12, <1>13, BareOnly
<1>15. RowSound(next)
  <2>1. /\ next.reads.adopted = next.chat.adopted /\ next.reads.adopted
        /\ next.reads.pending = <<>>
    BY <1>3, <1>12, <1>16, Zenon
  <2>2. Len(<<>>) =< ReadLimit
    BY ReadsAssumption
  <2>3. /\ next.chat.allocated = rw.chat.allocated
        /\ next.chat.published = rw.chat.published
        /\ next.chat.pending = rw.chat.pending
    BY <1>3, <1>12
  <2>4. /\ rw.chat.allocated = rw.chat.published + Len(rw.chat.pending)
        /\ \A i \in DOMAIN rw.chat.pending :
              rw.chat.pending[i].sequence = rw.chat.published + i
    BY DEF RowSound
  <2>5. /\ Len(next.reads.pending) =< ReadLimit
        /\ DOMAIN next.reads.pending = {}
    BY <2>1, <2>2
  <2>6. /\ next.chat.allocated = next.chat.published + Len(next.chat.pending)
        /\ \A i \in DOMAIN next.chat.pending :
              next.chat.pending[i].sequence = next.chat.published + i
    BY <2>3, <2>4
  <2>. QED
    BY <1>12, <1>14, <2>1, <2>5, <2>6 DEF RowSound
<1>. QED
  BY <1>1, <1>6, <1>12, <1>15, <1>16 DEF Forward

\* An accepted message has the next sequence.
LEMMA AppendedIs ==
    ASSUME NEW rw, RowSound(rw), NEW m \in Messages
    PROVE  /\ RowSound(Appended(rw, m)) /\ Forward(rw, Appended(rw, m))
           /\ Appended(rw, m).reads = rw.reads
<1>1. /\ rw \in FullRow /\ rw.chat \in FullChat /\ Sound(Bare(rw))
  BY DEF RowSound, FullRow
<1>. DEFINE size == Len(rw.chat.pending)
<1>2. PICK intent : intent = [message |-> m, sequence |-> rw.chat.allocated + 1]
  OBVIOUS
<1>3. /\ rw.chat.pending \in Seq(Intent) /\ size \in Nat /\ DOMAIN rw.chat.pending = 1..size
      /\ rw.chat.published \in Nat /\ rw.chat.allocated = rw.chat.published + size
      /\ intent \in Intent /\ intent.sequence = rw.chat.published + (size + 1)
  BY <1>1, <1>2, LenProperties DEF RowSound, FullChat, Intent
<1>4. PICK q : q = Append(rw.chat.pending, intent)
  OBVIOUS
<1>5. /\ q \in Seq(Intent) /\ Len(q) = size + 1 /\ DOMAIN q = 1..size + 1
      /\ \A i \in 1..size : q[i] = rw.chat.pending[i]
      /\ q[size + 1] = intent
  BY <1>3, <1>4, AppendProperties, LenProperties
<1>15. PICK top \in Nat : top = rw.chat.allocated + 1
  BY <1>1 DEF FullChat
<1>16. PICK b : b = [rw.chat EXCEPT !.allocated = top]
  OBVIOUS
<1>6. PICK c : c = [b EXCEPT !.pending = q]
  OBVIOUS
<1>17. /\ b \in FullChat /\ b.adopted = rw.chat.adopted /\ b.published = rw.chat.published
       /\ b.allocated = top
  BY <1>1, <1>16 DEF FullChat
<1>7. /\ c \in FullChat /\ c.adopted = rw.chat.adopted /\ c.published = rw.chat.published
      /\ c.allocated = top /\ c.pending = q
  BY <1>5, <1>6, <1>17 DEF FullChat
<1>8. PICK next : next = [rw EXCEPT !.chat = c]
  OBVIOUS
<1>9. next = Appended(rw, m)
  BY <1>1, <1>2, <1>4, <1>6, <1>8, <1>15, <1>16 DEF Appended, FullRow, FullChat
<1>10. /\ next \in FullRow /\ next.chat = c /\ next.reads = rw.reads
       /\ Bare(next).journal = Bare(rw).journal /\ Bare(next).receipts = Bare(rw).receipts
       /\ Bare(next).roster = Bare(rw).roster /\ Bare(next).reads = Bare(rw).reads
       /\ Bare(next).chat.published = Bare(rw).chat.published
  BY <1>1, <1>7, <1>8, ChatSet DEF Bare
<1>11. Sound(Bare(next))
  <2>1. Bare(rw).chat.published =< Bare(rw).chat.published
    BY <1>1, BareIs DEF Row, Frontier
  <2>. QED
    BY <1>1, <1>10, <2>1, BareIs, FrontierMoves
<1>. HIDE DEF size
<1>12. \A i \in 1..size + 1 : q[i].sequence = rw.chat.published + i
  <2>1. \A i \in 1..size : rw.chat.pending[i].sequence = rw.chat.published + i
    BY <1>3 DEF RowSound
  <2>2. \A i \in 1..size + 1 : i \in 1..size \/ i = size + 1
    BY <1>3 DEF size
  <2>. QED
    BY <1>3, <1>5, <2>1, <2>2
<1>13. c.allocated = c.published + Len(q)
  <2>1. PICK front \in Nat : front = rw.chat.published
    BY <1>3
  <2>2. size \in Nat /\ top = front + size + 1 /\ Len(q) = size + 1 /\ c.published = front
    BY <1>3, <1>5, <1>7, <1>15, <2>1 DEF size
  <2>. QED
    BY <1>7, <2>2
<1>14. RowSound(next)
  <2>1. next.chat.adopted = rw.chat.adopted
    BY <1>7, <1>10
  <2>. QED
    BY <1>5, <1>7, <1>10, <1>11, <1>12, <1>13, <2>1 DEF RowSound
<1>. QED
  BY <1>1, <1>9, <1>10, <1>14, ForwardIs

\* The frontier moves to the head of the queue.
LEMMA RevealedIs ==
    ASSUME NEW rw, RowSound(rw), rw.chat.pending # <<>>
    PROVE  /\ RowSound(Revealed(rw)) /\ Forward(rw, Revealed(rw))
           /\ Revealed(rw).reads = rw.reads
<1>1. /\ rw \in FullRow /\ rw.chat \in FullChat /\ Sound(Bare(rw))
  BY DEF RowSound, FullRow
<1>. DEFINE size == Len(rw.chat.pending)
<1>3. /\ rw.chat.pending \in Seq(Intent) /\ size \in Nat /\ DOMAIN rw.chat.pending = 1..size
      /\ rw.chat.published \in Nat /\ rw.chat.allocated = rw.chat.published + size
      /\ rw.chat.allocated \in Nat
      /\ size # 0
  BY <1>1, LenProperties, EmptySeq DEF RowSound, FullChat, Intent
<1>4. PICK q : q = Tail(rw.chat.pending)
  OBVIOUS
<1>5. /\ q \in Seq(Intent) /\ Len(q) = size - 1 /\ DOMAIN q = 1..size - 1
      /\ \A i \in 1..size - 1 : q[i] = rw.chat.pending[i + 1]
  BY <1>3, <1>4, HeadTailProperties, LenProperties
<1>2. rw.chat.pending[1].sequence = rw.chat.published + 1
  <2>1. 1 \in DOMAIN rw.chat.pending
    BY <1>3
  <2>. QED
    BY <2>1 DEF RowSound
<1>15. PICK front \in Nat : front = rw.chat.published
  BY <1>3
<1>18. PICK further \in Nat : further = front + 1
  OBVIOUS
<1>16. PICK b : b = [rw.chat EXCEPT !.published = further]
  OBVIOUS
<1>6. PICK c : c = [b EXCEPT !.pending = q]
  OBVIOUS
<1>17. /\ b \in FullChat /\ b.adopted = rw.chat.adopted /\ b.published = further
       /\ b.allocated = rw.chat.allocated
  BY <1>1, <1>16 DEF FullChat
<1>7. /\ c \in FullChat /\ c.adopted = rw.chat.adopted /\ c.published = further
      /\ c.allocated = rw.chat.allocated /\ c.pending = q
  BY <1>5, <1>6, <1>17 DEF FullChat
<1>8. PICK next : next = [rw EXCEPT !.chat = c]
  OBVIOUS
<1>9. next = Revealed(rw)
  BY <1>1, <1>2, <1>4, <1>6, <1>8, <1>15, <1>16, <1>18
     DEF Revealed, NextIntent, FullRow, FullChat
<1>10. /\ next \in FullRow /\ next.chat = c /\ next.reads = rw.reads
       /\ Bare(next).journal = Bare(rw).journal /\ Bare(next).receipts = Bare(rw).receipts
       /\ Bare(next).roster = Bare(rw).roster /\ Bare(next).reads = Bare(rw).reads
       /\ Bare(next).chat.published = further /\ Bare(rw).chat.published = front
  BY <1>1, <1>7, <1>8, <1>15, ChatSet DEF Bare
<1>11. Sound(Bare(next))
  <2>1. front =< further
    BY <1>18
  <2>. QED
    BY <1>1, <1>10, <2>1, BareIs, FrontierMoves
<1>. HIDE DEF size
<1>12. \A i \in 1..size - 1 : q[i].sequence = further + i
  <2>1. \A i \in 1..size : rw.chat.pending[i].sequence = front + i
    BY <1>3, <1>15 DEF RowSound
  <2>2. \A i \in 1..size - 1 : i + 1 \in 1..size /\ i \in Nat
    BY <1>3 DEF size
  <2>3. \A i \in 1..size - 1 : q[i].sequence = front + (i + 1)
    BY <1>5, <2>1, <2>2
  <2>. QED
    BY <1>18, <2>2, <2>3
<1>13. c.allocated = c.published + Len(q)
  <2>1. /\ size \in Nat /\ c.allocated = front + size /\ Len(q) = size - 1
        /\ c.published = front + 1
    BY <1>3, <1>5, <1>7, <1>15, <1>18 DEF size
  <2>. QED
    BY <2>1
<1>14. RowSound(next)
  <2>1. next.chat.adopted = rw.chat.adopted
    BY <1>7, <1>10
  <2>. QED
    BY <1>5, <1>7, <1>10, <1>11, <1>12, <1>13, <2>1 DEF RowSound
<1>. QED
  BY <1>1, <1>9, <1>10, <1>14, ForwardIs

-----------------------------------------------------------------------------
(* The queue of receipts.                                                  *)

Request == [witness : Witness, baseline : Nat, through : Nat,
            result : ReadReceipt \cup {None}]

\* What a reader checked of the row he is about to replace.
Permits(rw, cu, q) ==
    /\ ~Queued(rw, q) /\ ReadRoom(rw)
    /\ Witnesses(rw, ReaderOf[q], cu[q].witness.kind) = {cu[q].witness}
    /\ \E p \in PositionsOf(rw, cu[q].witness) : p.baseline = cu[q].baseline
    /\ \E p \in PositionsOf(rw, cu[q].witness) : Within(rw, p, cu[q].through)

LEMMA QueueIs ==
    ASSUME NEW rw \in FullRow
    PROVE  /\ rw.reads \in FullReads /\ rw.reads.pending \in Seq(ReadReceipt)
           /\ Len(rw.reads.pending) \in Nat
           /\ DOMAIN rw.reads.pending = 1..Len(rw.reads.pending)
           /\ ToSet(rw.reads.pending) \subseteq ReadReceipt
<1>1. rw.reads \in FullReads /\ rw.reads.pending \in Seq(ReadReceipt)
  BY DEF FullRow, FullReads
<1>2. /\ Len(rw.reads.pending) \in Nat
      /\ DOMAIN rw.reads.pending = 1..Len(rw.reads.pending)
  BY <1>1, LenProperties
<1>. QED
  BY <1>1, <1>2, ElementOfSeq DEF ToSet

LEMMA CleanedIs ==
    ASSUME NEW rw, RowSound(rw), rw.reads.pending # <<>>
    PROVE  /\ RowSound(Cleaned(rw)) /\ Forward(rw, Cleaned(rw))
           /\ ToSet(Cleaned(rw).reads.pending) \subseteq ToSet(rw.reads.pending)
<1>1. rw \in FullRow /\ Sound(Bare(rw))
  BY DEF RowSound
<1>. DEFINE size == Len(rw.reads.pending)
<1>2. /\ rw.reads \in FullReads /\ rw.reads.pending \in Seq(ReadReceipt)
      /\ size \in Nat /\ size # 0 /\ DOMAIN rw.reads.pending = 1..size
  BY <1>1, QueueIs, EmptySeq
<1>3. PICK t : t = Tail(rw.reads.pending)
  OBVIOUS
<1>4. /\ t \in Seq(ReadReceipt) /\ Len(t) = size - 1 /\ DOMAIN t = 1..size - 1
      /\ \A i \in 1..size - 1 : t[i] = rw.reads.pending[i + 1] /\ i + 1 \in 1..size
  BY <1>2, <1>3, HeadTailProperties, LenProperties
<1>5. PICK r : r = [rw.reads EXCEPT !.pending = t]
  OBVIOUS
<1>6. /\ r \in FullReads /\ r.pending = t
      /\ r.adopted = rw.reads.adopted /\ r.positions = rw.reads.positions
  BY <1>2, <1>4, <1>5 DEF FullReads
<1>7. PICK next : next = [rw EXCEPT !.reads = r]
  OBVIOUS
<1>8. next = Cleaned(rw)
  BY <1>3, <1>5, <1>7 DEF Cleaned
<1>9. next \in FullRow /\ next.reads = r /\ next.chat = rw.chat /\ Bare(next) = Bare(rw)
  BY <1>1, <1>6, <1>7, ReadsSet
<1>10. ToSet(t) \subseteq ToSet(rw.reads.pending)
  BY <1>2, <1>4 DEF ToSet
<1>11. \A i, j \in 1..size - 1 : t[i].id = t[j].id => i = j
  <2>1. SUFFICES ASSUME NEW i \in 1..size - 1, NEW j \in 1..size - 1, t[i].id = t[j].id
                 PROVE  i = j
    OBVIOUS
  <2>3. /\ i + 1 \in DOMAIN rw.reads.pending /\ j + 1 \in DOMAIN rw.reads.pending
        /\ rw.reads.pending[i + 1].id = rw.reads.pending[j + 1].id
    BY <1>2, <1>4, <2>1
  <2>4. \A k, l \in DOMAIN rw.reads.pending :
           rw.reads.pending[k].id = rw.reads.pending[l].id => k = l
    BY DEF RowSound
  <2>2. i + 1 = j + 1
    BY <2>3, <2>4
  <2>. QED
    BY <2>2
<1>12. Len(t) =< ReadLimit
  <2>1. size =< ReadLimit
    BY DEF RowSound
  <2>. HIDE DEF size
  <2>. QED
    BY <1>2, <1>4, <2>1, ReadsAssumption
<1>13. RowSound(next)
  <2>1. next.reads.adopted = rw.reads.adopted /\ next.reads.positions = rw.reads.positions
        /\ next.reads.pending = t
    BY <1>6, <1>9
  <2>. HIDE DEF size
  <2>. QED
    BY <1>1, <1>4, <1>9, <1>11, <1>12, <2>1 DEF RowSound
<1>. QED
  BY <1>1, <1>6, <1>8, <1>9, <1>10, <1>13, ForwardIs

\* An accepted request moves the position of its author and queues a receipt.
LEMMA AcceptedIs ==
    ASSUME NEW rw, RowSound(rw), NEW q \in ReadIds, NEW d \in Readers,
           custody[q] \in Request, Permits(rw, custody, q)
    PROVE  LET next == AcceptedRead(rw, q, d) IN
           /\ RowSound(next) /\ Forward(rw, next)
           /\ \E r \in ReadReceipt :
                 /\ r.id = q /\ ToSet(next.reads.pending) = ToSet(rw.reads.pending) \cup {r}
                 /\ custody[q].through =< r.reached
                 /\ \E n \in PositionsOf(next, custody[q].witness) :
                       n.baseline = custody[q].baseline /\ r.reached =< n.through
<1>. DEFINE asked == custody[q]
<1>1. /\ rw \in FullRow /\ Sound(Bare(rw)) /\ Bare(rw) \in Row /\ Alike(rw, Bare(rw))
      /\ rw.chat.published \in Nat
  BY BareIs DEF RowSound, FullRow, FullChat
<1>. DEFINE size == Len(rw.reads.pending)
<1>2. /\ rw.reads \in FullReads /\ rw.reads.pending \in Seq(ReadReceipt)
      /\ size \in Nat /\ DOMAIN rw.reads.pending = 1..size
  BY <1>1, QueueIs
<1>3. PICK p : p = CHOOSE x \in PositionsOf(rw, asked.witness) : TRUE
  OBVIOUS
<1>4. /\ p \in rw.reads.positions /\ p.witness = asked.witness
      /\ p \in Position
  <2>1. p \in PositionsOf(rw, asked.witness)
    BY <1>3 DEF Permits
  <2>. QED
    BY <1>2, <2>1 DEF PositionsOf, FullReads
<1>5. rw.reads.adopted /\ Bare(rw).reads.adopted /\ p \in Bare(rw).reads.positions
  BY <1>1, <1>4 DEF RowSound, Alike
<1>6. p.baseline = asked.baseline /\ Within(rw, p, asked.through)
  <2>1. \A n \in PositionsOf(rw, asked.witness) : n = p
    BY <1>1, <1>4, <1>5 DEF PositionsOf, Sound, PositionsSound, Alike
  <2>. QED
    BY <2>1 DEF Permits
<1>7. /\ p.through \in Nat /\ p.baseline \in Nat /\ asked.through \in Nat
      /\ p.through =< rw.chat.published /\ asked.through =< rw.chat.published
  BY <1>1, <1>4, <1>5, <1>6 DEF Position, Request, Within, Sound, PositionsSound, Alike
<1>8. PICK reached : reached = Through(p, asked.through)
  OBVIOUS
<1>9. /\ reached \in Nat /\ p.through =< reached /\ asked.through =< reached
      /\ reached =< rw.chat.published
  BY <1>7, <1>8 DEF Through
<1>10. PICK n : n = [p EXCEPT !.through = reached]
  OBVIOUS
<1>11. /\ n \in Position /\ n.witness = p.witness /\ n.baseline = p.baseline
       /\ n.through = reached
  BY <1>4, <1>9, <1>10 DEF Position
<1>12. PICK s : s = (rw.reads.positions \ {p}) \cup {n}
  OBVIOUS
<1>13. PICK receipt : receipt = [id |-> q, reached |-> reached, by |-> d]
  OBVIOUS
<1>14. receipt \in ReadReceipt /\ receipt.id = q /\ receipt.reached = reached
  BY <1>9, <1>13 DEF ReadReceipt
<1>15. PICK t : t = Append(rw.reads.pending, receipt)
  OBVIOUS
<1>16. /\ t \in Seq(ReadReceipt) /\ Len(t) = size + 1 /\ DOMAIN t = 1..size + 1
       /\ \A i \in 1..size : t[i] = rw.reads.pending[i]
       /\ t[size + 1] = receipt
  BY <1>2, <1>14, <1>15, AppendProperties, LenProperties
<1>17. PICK b : b = [rw.reads EXCEPT !.positions = s]
  OBVIOUS
<1>18. /\ b \in FullReads /\ b.adopted = rw.reads.adopted /\ b.positions = s
       /\ b.pending = rw.reads.pending
  BY <1>2, <1>11, <1>12, <1>17 DEF FullReads
<1>19. PICK r : r = [b EXCEPT !.pending = t]
  OBVIOUS
<1>20. /\ r \in FullReads /\ r.adopted = rw.reads.adopted /\ r.positions = s /\ r.pending = t
  BY <1>16, <1>18, <1>19 DEF FullReads
<1>21. PICK next : next = [rw EXCEPT !.reads = r]
  OBVIOUS
<1>22. next = AcceptedRead(rw, q, d)
  <2>1. AcceptedRead(rw, q, d) = [rw EXCEPT !.reads.positions = s, !.reads.pending = t]
    <3>1. AcceptedRead(rw, q, d) =
             [rw EXCEPT !.reads.positions = (@ \ {p}) \cup {[p EXCEPT !.through = reached]},
                        !.reads.pending =
                            Append(@, [id |-> q, reached |-> reached, by |-> d])]
      BY <1>3, <1>8 DEF AcceptedRead
    <3>. QED
      BY <1>1, <1>2, <1>10, <1>12, <1>13, <1>15, <3>1 DEF FullRow, FullReads
  <2>. QED
    BY <1>1, <1>2, <1>17, <1>19, <1>21, <2>1 DEF FullRow, FullReads
<1>23. /\ next \in FullRow /\ next.reads = r /\ next.chat = rw.chat
       /\ Bare(next).journal = rw.journal /\ Bare(next).receipts = rw.receipts
       /\ Bare(next).roster = rw.roster /\ Bare(next).chat = Bare(rw).chat
       /\ Bare(next).reads.adopted = r.adopted /\ Bare(next).reads.positions = s
  BY <1>1, <1>20, <1>21, ReadsSet
<1>24. Sound(Bare(next))
  <2>1. Bare(next) \in Row
    BY <1>23, BareIs
  <2>2. Bare(next).reads.adopted
    BY <1>5, <1>20, <1>23
  <2>3. p.through =< n.through /\ n.through =< Bare(rw).chat.published
    BY <1>1, <1>9, <1>11 DEF Alike
  <2>4. /\ Bare(next).journal = Bare(rw).journal /\ Bare(next).receipts = Bare(rw).receipts
        /\ Bare(next).roster = Bare(rw).roster
        /\ Bare(next).reads.positions = (Bare(rw).reads.positions \ {p}) \cup {n}
    BY <1>1, <1>12, <1>23 DEF Alike
  <2>. QED
    BY <1>1, <1>5, <1>11, <1>23, <2>1, <2>2, <2>3, <2>4, PositionMoves
<1>. HIDE DEF size
<1>25. \A i, j \in 1..size + 1 : t[i].id = t[j].id => i = j
  <2>1. \A i \in 1..size : rw.reads.pending[i].id # q
    BY <1>2 DEF Permits, Queued
  <2>2. \A i \in 1..size + 1 : i \in 1..size \/ i = size + 1
    BY <1>2
  <2>3. \A i, j \in 1..size : t[i].id = t[j].id => i = j
    BY <1>2, <1>16 DEF RowSound
  <2>4. \A i \in 1..size : t[i].id # q /\ t[size + 1].id = q
    BY <1>14, <1>16, <2>1
  <2>. QED
    BY <2>2, <2>3, <2>4
<1>26. Len(t) =< ReadLimit
  <2>1. size < ReadLimit
    BY DEF Permits, ReadRoom, size
  <2>. QED
    BY <1>2, <1>16, <2>1, ReadsAssumption
<1>27. RowSound(next)
  <2>1. /\ next.reads.adopted = rw.reads.adopted /\ next.reads.pending = t
        /\ next.reads.adopted
    BY <1>5, <1>20, <1>23
  <2>. QED
    BY <1>16, <1>23, <1>24, <1>25, <1>26, <2>1 DEF RowSound
<1>28. Forward(rw, next)
  <2>1. ASSUME NEW o \in rw.reads.positions
        PROVE  \E m \in next.reads.positions :
                  m.witness = o.witness /\ m.baseline = o.baseline /\ o.through =< m.through
    <3>1. CASE o = p
      BY <1>9, <1>11, <1>12, <1>20, <1>23, <3>1
    <3>2. CASE o # p
      <4>1. o \in next.reads.positions /\ o.through \in Nat
        BY <1>2, <1>12, <1>20, <1>23, <3>2 DEF FullReads, Position
      <4>. QED
        BY <4>1
    <3>. QED
      BY <3>1, <3>2
  <2>. QED
    BY <2>1 DEF Forward
<1>29. ToSet(next.reads.pending) = ToSet(rw.reads.pending) \cup {receipt}
  <2>1. \A i \in 1..size + 1 : i \in 1..size \/ i = size + 1
    BY <1>2
  <2>2. \A i \in 1..size : i \in 1..size + 1
    BY <1>2
  <2>3. size + 1 \in 1..size + 1
    BY <1>2
  <2>. QED
    BY <1>2, <1>16, <1>20, <1>23, <2>1, <2>2, <2>3 DEF ToSet
<1>30. \E m \in PositionsOf(next, asked.witness) :
           m.baseline = asked.baseline /\ receipt.reached =< m.through
  <2>1. n \in PositionsOf(next, asked.witness)
    BY <1>4, <1>11, <1>12, <1>20, <1>23 DEF PositionsOf
  <2>. QED
    BY <1>6, <1>9, <1>11, <1>14, <2>1
<1>. QED
  BY <1>9, <1>14, <1>22, <1>27, <1>28, <1>29, <1>30

-----------------------------------------------------------------------------
(* The inductive invariant.                                                *)

Custody == [ReadIds -> Request \cup {NoCustody}]

\* A request keeps what it asks for, and what it got.
Grows(cu, more) ==
    \A q \in ReadIds :
        /\ cu[q] # NoCustody =>
              /\ more[q] # NoCustody /\ more[q].witness = cu[q].witness
              /\ more[q].baseline = cu[q].baseline /\ more[q].through = cu[q].through
        /\ cu[q].result # None => more[q] = cu[q]

\* A receipt is of a request that exists, and between what it asked for and the
\* position it reached.
Asked(cu, r) == cu[r.id] # NoCustody /\ cu[r.id].through =< r.reached
Told(rw, cu, r) ==
    /\ Asked(cu, r)
    /\ \E p \in PositionsOf(rw, cu[r.id].witness) :
          p.baseline = cu[r.id].baseline /\ r.reached =< p.through
Truthful(rw, cu) ==
    /\ \A r \in ToSet(rw.reads.pending) : Told(rw, cu, r)
    /\ \A q \in ReadIds : cu[q].result # None => Told(rw, cu, cu[q].result)

\* Who copies a receipt read a queue with true receipts, from which positions have
\* only gone forward.
Carries(rw, cu, seen) ==
    /\ seen \in FullRow /\ seen.reads.pending # <<>> /\ Forward(seen, rw)
    /\ \A r \in ToSet(seen.reads.pending) : Asked(cu, r)

ReaderLabels ==
    {"IDLE", "KNOWN", "NEW", "INSERT", "RETARGET", "REFRESH", "ACCEPT", "RECOVER",
     "FINISH", "CLEAN", "STATUS", "STATUS_REQUEST", "STATUS_ANSWER", "CONFIRMED"}
Handler ==
    [pc : ReaderLabels, id : ReadIds \cup {None}, witness : Witness \cup {None},
     through : Nat, result : ReadReceipt \cup {None}, seen : FullRow \cup Nat \cup {None}]
Knows(rw, cu, x) ==
    /\ x.pc # "IDLE" => x.id \in ReadIds
    /\ x.pc \in {"NEW", "INSERT"} => x.witness \in Witness
    /\ x.pc = "INSERT" => x.seen \in Nat
    /\ x.pc \in {"KNOWN", "RETARGET", "REFRESH", "ACCEPT"} => cu[x.id] # NoCustody
    /\ x.pc = "REFRESH" => x.seen \in FullRow
    /\ x.pc = "ACCEPT" => x.seen \in FullRow /\ Permits(x.seen, cu, x.id)
    /\ x.pc = "FINISH" => Carries(rw, cu, x.seen)
    /\ x.pc = "CLEAN" => x.seen.reads.pending # <<>>
    /\ x.pc = "STATUS_ANSWER" => x.result = None \/ x.result = cu[x.id].result
    /\ x.pc = "CONFIRMED" => x.result # None /\ x.result = cu[x.id].result

Recovery ==
    [pc : {"IDLE", "PUBLISH", "FRONTIER", "FINISH_READ", "CLEAN_READ"},
     seen : FullRow \cup {None}]
Recovers(rw, cu, x) ==
    /\ x.pc \in {"PUBLISH", "FRONTIER"} => x.seen.chat.pending # <<>>
    /\ x.pc = "FINISH_READ" => Carries(rw, cu, x.seen)
    /\ x.pc = "CLEAN_READ" => x.seen.reads.pending # <<>>

Stored == RowSound(row) /\ custody \in Custody /\ Truthful(row, custody)
Inv ==
    /\ Stored
    /\ reader \in [Readers -> Handler] /\ \A d \in Readers : Knows(row, custody, reader[d])
    /\ work \in [Workers -> Recovery] /\ \A w \in Workers : Recovers(row, custody, work[w])

-----------------------------------------------------------------------------
(* What is true stays true.                                                *)

LEMMA AskedStays ==
    ASSUME NEW cu \in Custody, NEW more \in Custody, Grows(cu, more),
           NEW r \in ReadReceipt, Asked(cu, r)
    PROVE  /\ Asked(more, r) /\ more[r.id].witness = cu[r.id].witness
           /\ more[r.id].baseline = cu[r.id].baseline
<1>1. r.id \in ReadIds
  BY DEF ReadReceipt
<1>. QED
  BY <1>1 DEF Asked, Grows

LEMMA ToldStays ==
    ASSUME NEW rw \in FullRow, NEW next \in FullRow, Forward(rw, next),
           NEW cu \in Custody, NEW more \in Custody, Grows(cu, more),
           NEW r \in ReadReceipt, Told(rw, cu, r)
    PROVE  Told(next, more, r)
<1>1. /\ Asked(more, r) /\ more[r.id].witness = cu[r.id].witness
      /\ more[r.id].baseline = cu[r.id].baseline
  BY AskedStays DEF Told
<1>2. PICK p \in PositionsOf(rw, cu[r.id].witness) :
               p.baseline = cu[r.id].baseline /\ r.reached =< p.through
  BY DEF Told
<1>3. PICK n \in next.reads.positions :
               n.witness = p.witness /\ n.baseline = p.baseline /\ p.through =< n.through
  BY <1>2 DEF Forward, PositionsOf
<1>4. r.reached \in Nat /\ p.through \in Nat /\ n.through \in Nat
  BY <1>2 DEF PositionsOf, FullRow, FullReads, Position, ReadReceipt
<1>5. n \in PositionsOf(next, more[r.id].witness)
  BY <1>1, <1>2, <1>3 DEF PositionsOf
<1>6. n.baseline = more[r.id].baseline /\ r.reached =< n.through
  BY <1>1, <1>2, <1>3, <1>4
<1>. QED
  BY <1>1, <1>5, <1>6 DEF Told

LEMMA CarriesStays ==
    ASSUME NEW rw \in FullRow, NEW next \in FullRow, Forward(rw, next),
           NEW cu \in Custody, NEW more \in Custody, Grows(cu, more),
           NEW seen, Carries(rw, cu, seen)
    PROVE  Carries(next, more, seen)
<1>1. seen \in FullRow /\ Forward(seen, rw)
  BY DEF Carries
<1>2. Forward(seen, next)
  BY <1>1, ForwardIs
<1>3. \A r \in ToSet(seen.reads.pending) : Asked(more, r)
  BY <1>1, QueueIs, AskedStays DEF Carries
<1>. QED
  BY <1>1, <1>2, <1>3 DEF Carries

LEMMA KnowsStays ==
    ASSUME NEW rw \in FullRow, NEW next \in FullRow, Forward(rw, next),
           NEW cu \in Custody, NEW more \in Custody, Grows(cu, more),
           NEW x \in Handler, Knows(rw, cu, x)
    PROVE  Knows(next, more, x)
<1>1. x.pc # "IDLE" => x.id \in ReadIds
  BY DEF Knows
<1>2. x.pc \in {"KNOWN", "RETARGET", "REFRESH", "ACCEPT"} =>
          /\ more[x.id] # NoCustody /\ more[x.id].witness = cu[x.id].witness
          /\ more[x.id].baseline = cu[x.id].baseline
          /\ more[x.id].through = cu[x.id].through
  BY <1>1 DEF Knows, Grows
<1>3. x.pc = "ACCEPT" => Permits(x.seen, more, x.id)
  BY <1>2 DEF Knows, Permits
<1>4. x.pc = "FINISH" => Carries(next, more, x.seen)
  BY CarriesStays DEF Knows
<1>5. x.pc = "STATUS_ANSWER" => x.result = None \/ x.result = more[x.id].result
  BY <1>1 DEF Knows, Grows
<1>6. x.pc = "CONFIRMED" => x.result # None /\ x.result = more[x.id].result
  BY <1>1 DEF Knows, Grows
<1>. QED
  BY <1>2, <1>3, <1>4, <1>5, <1>6 DEF Knows

LEMMA RecoversStays ==
    ASSUME NEW rw \in FullRow, NEW next \in FullRow, Forward(rw, next),
           NEW cu \in Custody, NEW more \in Custody, Grows(cu, more),
           NEW x, Recovers(rw, cu, x)
    PROVE  Recovers(next, more, x)
BY CarriesStays DEF Recovers

\* A step keeps all that the handlers know which it leaves alone, and whoever it
\* queues has the authority he asks with.
Authorized ==
    \A r \in ToSet(row'.reads.pending) \ ToSet(row.reads.pending) :
        Witnesses(row, ReaderOf[r.id], custody[r.id].witness.kind) = {custody[r.id].witness}
Onward == Forward(row, row') /\ Grows(custody, custody') /\ Authorized

LEMMA ReaderMoves ==
    ASSUME Inv, Stored', Onward, UNCHANGED work, NEW d \in Readers, NEW x \in Handler,
           reader' = [reader EXCEPT ![d] = x], Knows(row', custody', x)
    PROVE  Inv' /\ Onward
<1>1. /\ row \in FullRow /\ row' \in FullRow /\ custody \in Custody /\ custody' \in Custody
      /\ Forward(row, row') /\ Grows(custody, custody')
  BY DEF Inv, Stored, RowSound, Onward
<1>2. /\ reader' \in [Readers -> Handler]
      /\ \A e \in Readers : reader'[e] = IF e = d THEN x ELSE reader[e]
  BY DEF Inv
<1>3. ASSUME NEW e \in Readers PROVE Knows(row', custody', reader'[e])
  <2>1. reader[e] \in Handler /\ Knows(row, custody, reader[e])
    BY DEF Inv
  <2>2. Knows(row', custody', reader[e])
    BY <1>1, <2>1, KnowsStays
  <2>. QED
    BY <1>2, <2>2
<1>4. ASSUME NEW w \in Workers PROVE Recovers(row', custody', work'[w])
  <2>1. Recovers(row, custody, work[w])
    BY DEF Inv
  <2>. QED
    BY <1>1, <2>1, RecoversStays
<1>. QED
  BY <1>2, <1>3, <1>4 DEF Inv

LEMMA WorkerMoves ==
    ASSUME Inv, Stored', Onward, UNCHANGED reader, NEW w \in Workers, NEW x \in Recovery,
           work' = [work EXCEPT ![w] = x], Recovers(row', custody', x)
    PROVE  Inv' /\ Onward
<1>1. /\ row \in FullRow /\ row' \in FullRow /\ custody \in Custody /\ custody' \in Custody
      /\ Forward(row, row') /\ Grows(custody, custody')
  BY DEF Inv, Stored, RowSound, Onward
<1>2. /\ work' \in [Workers -> Recovery]
      /\ \A v \in Workers : work'[v] = IF v = w THEN x ELSE work[v]
  BY DEF Inv
<1>3. ASSUME NEW v \in Workers PROVE Recovers(row', custody', work'[v])
  <2>1. Recovers(row, custody, work[v])
    BY DEF Inv
  <2>2. Recovers(row', custody', work[v])
    BY <1>1, <2>1, RecoversStays
  <2>. QED
    BY <1>2, <2>2
<1>4. ASSUME NEW d \in Readers PROVE Knows(row', custody', reader'[d])
  <2>1. reader[d] \in Handler /\ Knows(row, custody, reader[d])
    BY DEF Inv
  <2>. QED
    BY <1>1, <2>1, KnowsStays
<1>. QED
  BY <1>2, <1>3, <1>4 DEF Inv

LEMMA NobodyMoves ==
    ASSUME Inv, Stored', Onward, UNCHANGED <<reader, work>>
    PROVE  Inv' /\ Onward
<1>1. /\ row \in FullRow /\ row' \in FullRow /\ custody \in Custody /\ custody' \in Custody
      /\ Forward(row, row') /\ Grows(custody, custody')
  BY DEF Inv, Stored, RowSound, Onward
<1>2. ASSUME NEW v \in Workers PROVE Recovers(row', custody', work'[v])
  <2>1. Recovers(row, custody, work[v])
    BY DEF Inv
  <2>. QED
    BY <1>1, <2>1, RecoversStays
<1>3. ASSUME NEW d \in Readers PROVE Knows(row', custody', reader'[d])
  <2>1. reader[d] \in Handler /\ Knows(row, custody, reader[d])
    BY DEF Inv
  <2>. QED
    BY <1>1, <2>1, KnowsStays
<1>. QED
  BY <1>2, <1>3 DEF Inv

-----------------------------------------------------------------------------
(* The row moves and the requests stay.                                    *)

LEMMA StoredKept ==
    ASSUME Stored, UNCHANGED custody, RowSound(row'), Forward(row, row'),
           ToSet(row'.reads.pending) \subseteq ToSet(row.reads.pending)
    PROVE  Stored' /\ Onward
<1>1. /\ row \in FullRow /\ row' \in FullRow /\ custody \in Custody
      /\ custody' \in Custody /\ Truthful(row, custody)
  BY DEF Stored, RowSound
<1>2. Grows(custody, custody')
  BY DEF Grows
<1>3. ASSUME NEW r \in ReadReceipt, Told(row, custody, r)
      PROVE  Told(row', custody', r)
  BY <1>1, <1>2, <1>3, ToldStays
<1>4. ASSUME NEW r \in ToSet(row'.reads.pending) PROVE Told(row', custody', r)
  <2>1. r \in ReadReceipt
    BY <1>1, QueueIs
  <2>2. Told(row, custody, r)
    BY <1>1 DEF Truthful
  <2>. QED
    BY <1>3, <2>1, <2>2
<1>5. ASSUME NEW q \in ReadIds, custody'[q].result # None
      PROVE  Told(row', custody', custody'[q].result)
  <2>1. custody'[q] = custody[q] /\ custody[q].result # None
    BY <1>5
  <2>2. custody[q] # NoCustody
    BY <2>1 DEF NoCustody
  <2>3. custody[q].result \in ReadReceipt
    BY <1>1, <2>1, <2>2 DEF Custody, Request
  <2>4. Told(row, custody, custody[q].result)
    BY <1>1, <2>1 DEF Truthful
  <2>. QED
    BY <1>3, <2>1, <2>3, <2>4
<1>6. Truthful(row', custody')
  BY <1>4, <1>5 DEF Truthful
<1>. QED
  BY <1>1, <1>2, <1>6 DEF Stored, Onward, Authorized

LEMMA NothingMoves ==
    ASSUME Stored, UNCHANGED <<row, custody>>
    PROVE  Stored' /\ Onward
<1>1. RowSound(row') /\ row \in FullRow /\ row' = row
  BY DEF Stored, RowSound
<1>2. Forward(row, row')
  BY <1>1, ForwardIs
<1>. QED
  BY <1>1, <1>2, StoredKept

LEMMA OwnersMove ==
    ASSUME Stored, Environment, UNCHANGED custody
    PROVE  Stored' /\ Onward
<1>1. RowSound(row) /\ row \in FullRow /\ Sound(Bare(row))
  BY DEF Stored, RowSound
<1>2. row' \in FullRow /\ Sound(Bare(row')) /\ Beside(row, row')
  BY <1>1, EnvironmentStep
<1>3. RowSound(row')
  BY <1>1, <1>2 DEF RowSound, Beside
<1>4. Forward(row, row') /\ row'.reads.pending = row.reads.pending
  BY <1>1, <1>2, ForwardIs DEF Beside
<1>. QED
  BY <1>3, <1>4, StoredKept

LEMMA SendersMove ==
    ASSUME Stored, SendersElsewhere
    PROVE  Stored' /\ Onward
<1>1. RowSound(row) /\ row \in FullRow
  BY DEF Stored, RowSound
<1>2. CASE SenderAdopts
  <2>1. ~row.chat.adopted /\ row' = Adopted(row) /\ UNCHANGED custody
    BY <1>2 DEF SenderAdopts, reading
  <2>2. RowSound(row') /\ Forward(row, row') /\ row'.reads.pending = <<>>
    BY <1>1, <2>1, AdoptedIs
  <2>3. ToSet(row'.reads.pending) = {}
    BY <2>2, EmptySeq DEF ToSet
  <2>. QED
    BY <2>1, <2>2, <2>3, StoredKept
<1>3. CASE SenderPublishes
  BY <1>3, NothingMoves DEF SenderPublishes, reading
<1>4. CASE SenderReveals
  <2>1. row.chat.pending # <<>> /\ row' = Revealed(row) /\ UNCHANGED custody
    BY <1>4 DEF SenderReveals, reading, Pending
  <2>2. RowSound(row') /\ Forward(row, row') /\ row'.reads = row.reads
    BY <1>1, <2>1, RevealedIs
  <2>. QED
    BY <2>1, <2>2, StoredKept
<1>5. ASSUME NEW m \in Messages, SenderAccepts(m) PROVE Stored' /\ Onward
  <2>1. row' = Appended(row, m) /\ UNCHANGED custody
    BY <1>5 DEF SenderAccepts, reading
  <2>2. RowSound(row') /\ Forward(row, row') /\ row'.reads = row.reads
    BY <1>1, <2>1, AppendedIs
  <2>. QED
    BY <2>1, <2>2, StoredKept
<1>. QED
  BY <1>2, <1>3, <1>4, <1>5 DEF SendersElsewhere

LEMMA CleaningMoves ==
    ASSUME Stored, row.reads.pending # <<>>, row' = Cleaned(row), UNCHANGED custody
    PROVE  Stored' /\ Onward
<1>1. RowSound(row)
  BY DEF Stored
<1>2. /\ RowSound(row') /\ Forward(row, row')
      /\ ToSet(row'.reads.pending) \subseteq ToSet(row.reads.pending)
  BY <1>1, CleanedIs
<1>. QED
  BY <1>2, StoredKept

\* The receipt of an accepted request is true from the start.
LEMMA AcceptanceMoves ==
    ASSUME Stored, NEW q \in ReadIds, NEW d \in Readers, custody[q] # NoCustody,
           Permits(row, custody, q), row' = AcceptedRead(row, q, d), UNCHANGED custody
    PROVE  Stored' /\ Onward
<1>1. /\ RowSound(row) /\ row \in FullRow /\ custody \in Custody /\ Truthful(row, custody)
  BY DEF Stored, RowSound
<1>2. custody[q] \in Request
  BY <1>1 DEF Custody
<1>3. PICK next : next = AcceptedRead(row, q, d)
  OBVIOUS
<1>4. /\ RowSound(next) /\ Forward(row, next)
      /\ \E r \in ReadReceipt :
            /\ r.id = q /\ ToSet(next.reads.pending) = ToSet(row.reads.pending) \cup {r}
            /\ custody[q].through =< r.reached
            /\ \E n \in PositionsOf(next, custody[q].witness) :
                  n.baseline = custody[q].baseline /\ r.reached =< n.through
  BY <1>1, <1>2, <1>3, AcceptedIs
<1>5. row' = next /\ custody' = custody
  BY <1>3
<1>6. PICK r \in ReadReceipt :
            /\ r.id = q /\ ToSet(next.reads.pending) = ToSet(row.reads.pending) \cup {r}
            /\ custody[q].through =< r.reached
            /\ \E n \in PositionsOf(next, custody[q].witness) :
                  n.baseline = custody[q].baseline /\ r.reached =< n.through
  BY <1>4
<1>7. Told(next, custody, r)
  BY <1>6 DEF Told, Asked
<1>8. next \in FullRow /\ Grows(custody, custody)
  BY <1>4 DEF RowSound, Grows
<1>9. ASSUME NEW s \in ReadReceipt, Told(row, custody, s) PROVE Told(next, custody, s)
  BY <1>1, <1>4, <1>8, <1>9, ToldStays
<1>10. ASSUME NEW s \in ToSet(next.reads.pending) PROVE Told(next, custody, s)
  <2>1. CASE s = r
    BY <1>7, <2>1
  <2>2. CASE s \in ToSet(row.reads.pending)
    BY <1>1, <1>9, <2>2, QueueIs DEF Truthful
  <2>. QED
    BY <1>6, <2>1, <2>2
<1>11. ASSUME NEW k \in ReadIds, custody[k].result # None
       PROVE  Told(next, custody, custody[k].result)
  <2>1. custody[k] # NoCustody
    BY <1>11 DEF NoCustody
  <2>2. custody[k].result \in ReadReceipt
    BY <1>1, <1>11, <2>1 DEF Custody, Request
  <2>. QED
    BY <1>1, <1>9, <1>11, <2>2 DEF Truthful
<1>12. Truthful(next, custody)
  BY <1>10, <1>11 DEF Truthful
<1>13. Authorized
  <2>1. \A s \in ToSet(row'.reads.pending) \ ToSet(row.reads.pending) : s.id = q
    BY <1>5, <1>6
  <2>. QED
    BY <2>1 DEF Authorized, Permits
<1>. QED
  BY <1>1, <1>4, <1>5, <1>8, <1>12, <1>13 DEF Stored, Onward

\* A written receipt is the oldest of the queue that was read.
LEMMA FinishMoves ==
    ASSUME Stored, NEW seen, Carries(row, custody, seen), Finishes(seen), UNCHANGED row
    PROVE  Stored' /\ Onward
<1>1. /\ RowSound(row) /\ row \in FullRow /\ custody \in Custody /\ Truthful(row, custody)
      /\ seen \in FullRow /\ Forward(seen, row)
  BY DEF Stored, RowSound, Carries
<1>2. PICK p : p = seen.reads.pending[1]
  OBVIOUS
<1>3. p \in ReadReceipt /\ p.id \in ReadIds /\ p \in ToSet(seen.reads.pending)
  <2>1. seen.reads.pending \in Seq(ReadReceipt) /\ seen.reads.pending # <<>>
    BY <1>1, QueueIs DEF Carries
  <2>2. 1 \in DOMAIN seen.reads.pending
    BY <2>1, EmptySeq, LenProperties
  <2>3. p \in ToSet(seen.reads.pending)
    BY <1>2, <2>2 DEF ToSet
  <2>4. p \in ReadReceipt
    BY <1>1, <2>3, QueueIs
  <2>. QED
    BY <2>3, <2>4 DEF ReadReceipt
<1>4. Asked(custody, p)
  BY <1>3 DEF Carries
<1>5. custody[p.id] \in Request
  BY <1>1, <1>3, <1>4 DEF Asked, Custody
<1>6. PICK own \in PositionsOf(seen, custody[p.id].witness) :
               own.baseline = custody[p.id].baseline /\ own.through >= p.reached
  BY <1>2 DEF Finishes
<1>7. /\ custody[p.id].result \in {None, p}
      /\ custody' = [custody EXCEPT ![p.id].result = p]
  BY <1>2 DEF Finishes
<1>8. PICK c : c = [custody[p.id] EXCEPT !.result = p]
  OBVIOUS
<1>9. /\ c \in Request /\ c.witness = custody[p.id].witness
      /\ c.baseline = custody[p.id].baseline /\ c.through = custody[p.id].through
      /\ c.result = p /\ (custody[p.id].result = p => c = custody[p.id])
  BY <1>3, <1>5, <1>8 DEF Request
<1>10. /\ custody' \in Custody
       /\ \A q \in ReadIds : custody'[q] = IF q = p.id THEN c ELSE custody[q]
  BY <1>1, <1>3, <1>7, <1>8, <1>9 DEF Custody
<1>11. c # NoCustody
  <2>1. c.witness \in Witness
    BY <1>9 DEF Request
  <2>. QED
    BY <2>1, ReadsAssumption DEF NoCustody
<1>12. Grows(custody, custody')
  BY <1>4, <1>7, <1>9, <1>10, <1>11 DEF Grows, Asked
<1>13. Told(row, custody, p)
  <2>1. PICK n \in row.reads.positions :
                 n.witness = own.witness /\ n.baseline = own.baseline /\ own.through =< n.through
    BY <1>1, <1>6 DEF Forward, PositionsOf
  <2>2. own.through \in Nat /\ n.through \in Nat /\ p.reached \in Nat
    BY <1>1, <1>3, <1>6 DEF PositionsOf, FullRow, FullReads, Position, ReadReceipt
  <2>3. n \in PositionsOf(row, custody[p.id].witness)
    BY <1>6, <2>1 DEF PositionsOf
  <2>4. n.baseline = custody[p.id].baseline /\ p.reached =< n.through
    BY <1>6, <2>1, <2>2
  <2>. QED
    BY <1>4, <2>3, <2>4 DEF Told
<1>14. row' = row /\ Forward(row, row)
  BY <1>1, ForwardIs
<1>15. ASSUME NEW s \in ReadReceipt, Told(row, custody, s) PROVE Told(row, custody', s)
  BY <1>1, <1>10, <1>12, <1>14, <1>15, ToldStays
<1>16. \A s \in ToSet(row.reads.pending) : Told(row, custody', s)
  BY <1>1, <1>15, QueueIs DEF Truthful
<1>17. ASSUME NEW q \in ReadIds, custody'[q].result # None
       PROVE  Told(row, custody', custody'[q].result)
  <2>1. CASE q = p.id
    BY <1>3, <1>9, <1>10, <1>13, <1>15, <2>1
  <2>2. CASE q # p.id
    <3>1. custody'[q] = custody[q]
      BY <1>10, <2>2
    <3>2. custody[q] # NoCustody
      BY <1>17, <3>1 DEF NoCustody
    <3>3. custody[q].result \in ReadReceipt
      BY <1>1, <1>17, <3>1, <3>2 DEF Custody, Request
    <3>. QED
      BY <1>1, <1>15, <1>17, <3>1, <3>3 DEF Truthful
  <2>. QED
    BY <2>1, <2>2
<1>18. Truthful(row', custody')
  BY <1>14, <1>16, <1>17 DEF Truthful
<1>. QED
  BY <1>1, <1>10, <1>12, <1>14, <1>18 DEF Stored, Onward, Authorized

\* New requests and their documents say nothing yet.
LEMMA MoreRequests ==
    ASSUME Stored, row' = row, custody' \in Custody, Grows(custody, custody'),
           \A q \in ReadIds : custody'[q].result # None => custody'[q] = custody[q]
    PROVE  Stored' /\ Onward
<1>1. /\ RowSound(row) /\ row \in FullRow /\ custody \in Custody /\ Truthful(row, custody)
  BY DEF Stored, RowSound
<1>2. Forward(row, row)
  BY <1>1, ForwardIs
<1>3. ASSUME NEW r \in ReadReceipt, Told(row, custody, r) PROVE Told(row, custody', r)
  BY <1>1, <1>2, <1>3, ToldStays
<1>4. \A r \in ToSet(row.reads.pending) : Told(row, custody', r)
  BY <1>1, <1>3, QueueIs DEF Truthful
<1>5. ASSUME NEW q \in ReadIds, custody'[q].result # None
      PROVE  Told(row, custody', custody'[q].result)
  <2>1. custody'[q] = custody[q] /\ custody[q] # NoCustody
    BY <1>5 DEF NoCustody
  <2>2. custody[q].result \in ReadReceipt
    BY <1>1, <1>5, <2>1 DEF Custody, Request
  <2>. QED
    BY <1>1, <1>3, <1>5, <2>1, <2>2 DEF Truthful
<1>6. Truthful(row', custody')
  BY <1>4, <1>5 DEF Truthful
<1>. QED
  BY <1>1, <1>2, <1>6 DEF Stored, Onward, Authorized

\* Whoever reads the row sees true receipts.
LEMMA SeenNow ==
    ASSUME Stored, row.reads.pending # <<>>
    PROVE  Carries(row, custody, row)
<1>1. row \in FullRow /\ Truthful(row, custody)
  BY DEF Stored, RowSound
<1>2. Forward(row, row)
  BY <1>1, ForwardIs
<1>. QED
  BY <1>1, <1>2 DEF Carries, Truthful, Told

-----------------------------------------------------------------------------
(* Steps of the handlers that only look.                                   *)

LEMMA WitnessesTyped ==
    ASSUME NEW rw, RowSound(rw), NEW a \in Actors, NEW kind
    PROVE  Witnesses(rw, a, kind) \subseteq Witness
<1>1. Bare(rw) \in Row /\ Alike(rw, Bare(rw)) /\ Sound(Bare(rw))
  BY BareIs DEF RowSound
<1>2. Witnesses(rw, a, kind) = Witnesses(Bare(rw), a, kind)
  BY <1>1, LooksAlike
<1>3. Witnesses(Bare(rw), a, kind) \subseteq Authorities(Bare(rw))
  <2>1. ASSUME NEW w \in Witnesses(Bare(rw), a, kind) PROVE w \in Authorities(Bare(rw))
    <3>1. \/ \E o \in Active(Bare(rw)) : w = Participant(o)
          \/ Selected(Bare(rw)) = a /\ w = Organizer(a, Revision(Bare(rw)))
      BY DEF Witnesses, ActiveOf
    <3>. QED
      BY <3>1, AbsenceAssumption DEF Authorities
  <2>. QED
    BY <2>1
<1>4. Authorities(Bare(rw)) \subseteq Authority
  BY <1>1, AuthoritiesTyped
<1>. QED
  BY <1>2, <1>3, <1>4 DEF Authority, Witness

\* What stays of a handler when it moves on.
SameRequest(x, y) ==
    x.id = y.id /\ x.witness = y.witness /\ x.through = y.through /\ x.result = y.result

LEMMA TurnIs ==
    ASSUME reader \in [Readers -> Handler], NEW d \in Readers, NEW l \in ReaderLabels,
           Turn(d, l)
    PROVE  \E x \in Handler : /\ reader' = [reader EXCEPT ![d] = x] /\ x.pc = l
                              /\ SameRequest(x, reader[d]) /\ x.seen = reader[d].seen
<1>1. reader[d] \in Handler
  OBVIOUS
<1>2. PICK x : x = [reader[d] EXCEPT !.pc = l]
  OBVIOUS
<1>3. x \in Handler /\ x.pc = l /\ SameRequest(x, reader[d]) /\ x.seen = reader[d].seen
  BY <1>1, <1>2 DEF Handler, SameRequest
<1>4. reader' = [reader EXCEPT ![d] = x]
  BY <1>2 DEF Turn
<1>. QED
  BY <1>3, <1>4

LEMMA TurnWithIs ==
    ASSUME reader \in [Readers -> Handler], NEW d \in Readers, NEW l \in ReaderLabels,
           NEW s \in FullRow \cup Nat \cup {None}, TurnWith(d, l, s)
    PROVE  \E x \in Handler : /\ reader' = [reader EXCEPT ![d] = x] /\ x.pc = l
                              /\ SameRequest(x, reader[d]) /\ x.seen = s
<1>1. reader[d] \in Handler
  OBVIOUS
<1>2. PICK y : y = [reader[d] EXCEPT !.pc = l]
  OBVIOUS
<1>3. y \in Handler /\ y.pc = l /\ SameRequest(y, reader[d])
  BY <1>1, <1>2 DEF Handler, SameRequest
<1>4. PICK x : x = [y EXCEPT !.seen = s]
  OBVIOUS
<1>5. x \in Handler /\ x.pc = l /\ SameRequest(x, reader[d]) /\ x.seen = s
  BY <1>3, <1>4 DEF Handler, SameRequest
<1>6. reader' = [reader EXCEPT ![d] = x]
  BY <1>2, <1>4 DEF TurnWith
<1>. QED
  BY <1>5, <1>6

LEMMA LeavesIs ==
    ASSUME NEW d, Leaves(d)
    PROVE  /\ NotReading \in Handler /\ reader' = [reader EXCEPT ![d] = NotReading]
           /\ \A rw, cu : Knows(rw, cu, NotReading)
<1>1. NotReading \in Handler
  BY DEF NotReading, Handler, ReaderLabels
<1>2. \A rw, cu : Knows(rw, cu, NotReading)
  BY DEF NotReading, Knows
<1>. QED
  BY <1>1, <1>2 DEF Leaves

LEMMA Looking ==
    ASSUME Inv, UNCHANGED <<row, Sending, work, custody>>, NEW d \in Readers,
           NEW x \in Handler, reader' = [reader EXCEPT ![d] = x], Knows(row, custody, x)
    PROVE  Inv' /\ Onward
<1>1. Stored' /\ Onward
  BY NothingMoves DEF Inv
<1>2. Knows(row', custody', x)
  OBVIOUS
<1>. QED
  BY <1>1, <1>2, ReaderMoves

LEMMA Leaving ==
    ASSUME Inv, UNCHANGED <<row, Sending, work, custody>>, NEW d \in Readers, Leaves(d)
    PROVE  Inv' /\ Onward
BY LeavesIs, Looking

\* What a step of a handler starts from.
LEMMA Started ==
    ASSUME Inv, NEW d \in Readers
    PROVE  /\ reader \in [Readers -> Handler] /\ reader[d] \in Handler
           /\ Knows(row, custody, reader[d])
           /\ row \in FullRow /\ RowSound(row) /\ custody \in Custody
           /\ reader[d].pc # "IDLE" => reader[d].id \in ReadIds
BY DEF Inv, Stored, RowSound, Knows

LEMMA AskStays ==
    ASSUME Inv, NEW d \in Readers, NEW q \in ReadIds, NEW through \in Nat, NEW w,
           Ask(d, q, w, through)
    PROVE  Inv' /\ Onward
<1>1. RowSound(row) /\ custody \in Custody
  BY Started
<1>2. w \in Witness
  <2>1. CASE Kept(q)
    <3>1. custody[q] \in Request /\ custody[q].witness = w
      BY <1>1, <2>1 DEF Kept, Custody, Ask
    <3>. QED
      BY <3>1 DEF Request
  <2>2. CASE ~Kept(q)
    <3>1. ReaderOf[q] \in Actors
      BY ReadsAssumption
    <3>. QED
      BY <1>1, <2>2, <3>1, WitnessesTyped DEF Ask
  <2>. QED
    BY <2>1, <2>2
<1>3. PICK l : l = IF Kept(q) THEN "KNOWN" ELSE "NEW"
  OBVIOUS
<1>4. PICK x : x = [NotReading EXCEPT !.pc = l, !.id = q, !.witness = w,
                                      !.through = through]
  OBVIOUS
<1>5. /\ l \in ReaderLabels /\ (l = "KNOWN" => Kept(q)) /\ l \in {"KNOWN", "NEW"}
  BY <1>3 DEF ReaderLabels
<1>6. x \in Handler /\ x.pc = l /\ x.id = q /\ x.witness = w
  BY <1>2, <1>4, <1>5 DEF Handler, NotReading
<1>7. Knows(row, custody, x)
  BY <1>2, <1>5, <1>6 DEF Knows, Kept
<1>8. reader' = [reader EXCEPT ![d] = x]
  BY <1>3, <1>4 DEF Ask
<1>. QED
  BY <1>6, <1>7, <1>8, Looking DEF Ask

LEMMA AskReadStatusStays ==
    ASSUME Inv, NEW d \in Readers, NEW q \in ReadIds, AskReadStatus(d, q)
    PROVE  Inv' /\ Onward
<1>1. PICK x : x = [NotReading EXCEPT !.pc = "STATUS", !.id = q]
  OBVIOUS
<1>2. x \in Handler /\ x.pc = "STATUS" /\ x.id = q
  BY <1>1 DEF NotReading, Handler, ReaderLabels
<1>3. Knows(row, custody, x)
  BY <1>2 DEF Knows
<1>. QED
  BY <1>1, <1>2, <1>3, Looking DEF AskReadStatus

LEMMA KnownStays ==
    ASSUME Inv, NEW d \in Readers, Known(d)
    PROVE  Inv' /\ Onward
<1>1. CASE Leaves(d)
  BY <1>1, Leaving DEF Known
<1>2. CASE Turn(d, "RETARGET")
  <2>1. /\ reader \in [Readers -> Handler] /\ Knows(row, custody, reader[d])
        /\ "RETARGET" \in ReaderLabels
    BY Started DEF ReaderLabels
  <2>2. PICK x \in Handler : /\ reader' = [reader EXCEPT ![d] = x] /\ x.pc = "RETARGET"
                             /\ SameRequest(x, reader[d])
    BY <1>2, <2>1, TurnIs
  <2>3. Knows(row, custody, x)
    BY <2>1, <2>2 DEF Knows, SameRequest, Known
  <2>. QED
    BY <2>2, <2>3, Looking DEF Known
<1>. QED
  BY <1>1, <1>2 DEF Known

LEMMA NewStays ==
    ASSUME Inv, NEW d \in Readers, New(d)
    PROVE  Inv' /\ Onward
<1>1. CASE Leaves(d)
  BY <1>1, Leaving DEF New
<1>2. ASSUME NEW p \in OwnNow(d), TurnWith(d, "INSERT", p.baseline)
      PROVE  Inv' /\ Onward
  <2>1. /\ reader \in [Readers -> Handler] /\ Knows(row, custody, reader[d])
        /\ "INSERT" \in ReaderLabels /\ row \in FullRow
    BY Started DEF ReaderLabels
  <2>2. p.baseline \in Nat
    BY <2>1 DEF OwnNow, Own, PositionsOf, FullRow, FullReads, Position
  <2>3. PICK x \in Handler : /\ reader' = [reader EXCEPT ![d] = x] /\ x.pc = "INSERT"
                             /\ SameRequest(x, reader[d]) /\ x.seen = p.baseline
    BY <1>2, <2>1, <2>2, TurnWithIs
  <2>4. Knows(row, custody, x)
    BY <2>1, <2>2, <2>3 DEF Knows, SameRequest, New
  <2>. QED
    BY <2>3, <2>4, Looking DEF New
<1>. QED
  BY <1>1, <1>2 DEF New

LEMMA RetargetReadStays ==
    ASSUME Inv, NEW d \in Readers, RetargetRead(d)
    PROVE  Inv' /\ Onward
<1>1. CASE Leaves(d)
  BY <1>1, Leaving DEF RetargetRead
<1>2. CASE TurnWith(d, "REFRESH", row)
  <2>1. /\ reader \in [Readers -> Handler] /\ Knows(row, custody, reader[d])
        /\ "REFRESH" \in ReaderLabels /\ row \in FullRow
    BY Started DEF ReaderLabels
  <2>2. PICK x \in Handler : /\ reader' = [reader EXCEPT ![d] = x] /\ x.pc = "REFRESH"
                             /\ SameRequest(x, reader[d]) /\ x.seen = row
    BY <1>2, <2>1, TurnWithIs
  <2>3. Knows(row, custody, x)
    BY <2>1, <2>2 DEF Knows, SameRequest, RetargetRead
  <2>. QED
    BY <2>2, <2>3, Looking DEF RetargetRead
<1>. QED
  BY <1>1, <1>2 DEF RetargetRead

LEMMA RefreshReadStays ==
    ASSUME Inv, NEW d \in Readers, RefreshRead(d)
    PROVE  Inv' /\ Onward
<1>1. /\ reader \in [Readers -> Handler] /\ Knows(row, custody, reader[d])
      /\ "ACCEPT" \in ReaderLabels /\ "RECOVER" \in ReaderLabels /\ reader[d].id \in ReadIds
      /\ reader[d].pc = "REFRESH"
  BY Started DEF ReaderLabels, RefreshRead
<1>2. CASE Leaves(d)
  BY <1>2, Leaving DEF RefreshRead
<1>3. CASE TurnWith(d, "RECOVER", None)
  <2>1. PICK x \in Handler : /\ reader' = [reader EXCEPT ![d] = x] /\ x.pc = "RECOVER"
                             /\ SameRequest(x, reader[d])
    BY <1>1, <1>3, TurnWithIs
  <2>2. Knows(row, custody, x)
    BY <1>1, <2>1 DEF Knows, SameRequest
  <2>. QED
    BY <2>1, <2>2, Looking DEF RefreshRead
<1>4. CASE /\ Original(reader[d].seen, reader[d].id) /\ ~Queued(reader[d].seen, reader[d].id)
           /\ \E p \in PositionsOf(reader[d].seen, custody[reader[d].id].witness) :
                 /\ Within(reader[d].seen, p, custody[reader[d].id].through)
                 /\ ReadRoom(reader[d].seen)
           /\ Turn(d, "ACCEPT")
  <2>1. Permits(reader[d].seen, custody, reader[d].id)
    BY <1>4 DEF Permits, Original
  <2>2. PICK x \in Handler : /\ reader' = [reader EXCEPT ![d] = x] /\ x.pc = "ACCEPT"
                             /\ SameRequest(x, reader[d]) /\ x.seen = reader[d].seen
    BY <1>1, <1>4, TurnIs
  <2>3. Knows(row, custody, x)
    BY <1>1, <2>1, <2>2 DEF Knows, SameRequest
  <2>. QED
    BY <2>2, <2>3, Looking DEF RefreshRead
<1>. QED
  BY <1>2, <1>3, <1>4 DEF RefreshRead

LEMMA RecoverReadStays ==
    ASSUME Inv, NEW d \in Readers, RecoverRead(d)
    PROVE  Inv' /\ Onward
<1>1. /\ reader \in [Readers -> Handler] /\ Knows(row, custody, reader[d])
      /\ "FINISH" \in ReaderLabels /\ "STATUS" \in ReaderLabels /\ reader[d].id \in ReadIds
      /\ row \in FullRow
  BY Started DEF ReaderLabels, RecoverRead
<1>2. CASE Turn(d, "STATUS")
  <2>1. PICK x \in Handler : /\ reader' = [reader EXCEPT ![d] = x] /\ x.pc = "STATUS"
                             /\ SameRequest(x, reader[d])
    BY <1>1, <1>2, TurnIs
  <2>2. Knows(row, custody, x)
    BY <1>1, <2>1 DEF Knows, SameRequest
  <2>. QED
    BY <2>1, <2>2, Looking DEF RecoverRead
<1>3. CASE row.reads.pending # <<>> /\ TurnWith(d, "FINISH", row)
  <2>1. PICK x \in Handler : /\ reader' = [reader EXCEPT ![d] = x] /\ x.pc = "FINISH"
                             /\ SameRequest(x, reader[d]) /\ x.seen = row
    BY <1>1, <1>3, TurnWithIs
  <2>2. Carries(row, custody, row)
    BY <1>3, SeenNow DEF Inv
  <2>3. Knows(row, custody, x)
    BY <1>1, <2>1, <2>2 DEF Knows, SameRequest
  <2>. QED
    BY <2>1, <2>3, Looking DEF RecoverRead
<1>. QED
  BY <1>2, <1>3 DEF RecoverRead

LEMMA ReadStatusTargetStays ==
    ASSUME Inv, NEW d \in Readers, ReadStatusTarget(d)
    PROVE  Inv' /\ Onward
<1>1. CASE Leaves(d)
  BY <1>1, Leaving DEF ReadStatusTarget
<1>2. ASSUME NEW p \in OwnNow(d),
             reader' = [reader EXCEPT ![d].pc = "STATUS_REQUEST", ![d].witness = p.witness]
      PROVE  Inv' /\ Onward
  <2>1. /\ reader[d] \in Handler /\ row \in FullRow /\ reader[d].id \in ReadIds
    BY Started DEF ReadStatusTarget
  <2>2. p.witness \in Witness
    BY <2>1 DEF OwnNow, Own, PositionsOf, FullRow, FullReads, Position, Authority, Witness
  <2>3. PICK y : y = [reader[d] EXCEPT !.pc = "STATUS_REQUEST"]
    OBVIOUS
  <2>4. y \in Handler /\ y.pc = "STATUS_REQUEST" /\ y.id = reader[d].id
    BY <2>1, <2>3 DEF Handler, ReaderLabels
  <2>5. PICK x : x = [y EXCEPT !.witness = p.witness]
    OBVIOUS
  <2>6. x \in Handler /\ x.pc = "STATUS_REQUEST" /\ x.id = reader[d].id
    BY <2>2, <2>4, <2>5 DEF Handler
  <2>7. reader' = [reader EXCEPT ![d] = x]
    BY <1>2, <2>3, <2>5
  <2>8. Knows(row, custody, x)
    BY <2>1, <2>6 DEF Knows
  <2>. QED
    BY <2>6, <2>7, <2>8, Looking DEF ReadStatusTarget
<1>. QED
  BY <1>1, <1>2 DEF ReadStatusTarget

LEMMA ReadStatusRequestStays ==
    ASSUME Inv, NEW d \in Readers, ReadStatusRequest(d)
    PROVE  Inv' /\ Onward
<1>1. /\ reader[d] \in Handler /\ custody \in Custody /\ reader[d].id \in ReadIds
  BY Started DEF ReadStatusRequest
<1>2. PICK receipt : receipt = custody[reader[d].id].result
  OBVIOUS
<1>3. receipt \in ReadReceipt \cup {None}
  BY <1>1, <1>2 DEF Custody, Request, NoCustody
<1>4. PICK y : y = [reader[d] EXCEPT !.pc = "STATUS_ANSWER"]
  OBVIOUS
<1>5. y \in Handler /\ y.pc = "STATUS_ANSWER" /\ y.id = reader[d].id
  BY <1>1, <1>4 DEF Handler, ReaderLabels
<1>6. PICK x : x = [y EXCEPT !.result = receipt]
  OBVIOUS
<1>7. x \in Handler /\ x.pc = "STATUS_ANSWER" /\ x.id = reader[d].id /\ x.result = receipt
  BY <1>3, <1>5, <1>6 DEF Handler
<1>8. reader' = [reader EXCEPT ![d] = x]
  BY <1>2, <1>4, <1>6 DEF ReadStatusRequest
<1>9. Knows(row, custody, x)
  BY <1>1, <1>2, <1>7 DEF Knows
<1>. QED
  BY <1>7, <1>8, <1>9, Looking DEF ReadStatusRequest

LEMMA ReadStatusAnswerStays ==
    ASSUME Inv, NEW d \in Readers, ReadStatusAnswer(d)
    PROVE  Inv' /\ Onward
<1>1. CASE Leaves(d)
  BY <1>1, Leaving DEF ReadStatusAnswer
<1>2. CASE reader[d].result # None /\ Turn(d, "CONFIRMED")
  <2>1. /\ reader \in [Readers -> Handler] /\ Knows(row, custody, reader[d])
        /\ "CONFIRMED" \in ReaderLabels /\ reader[d].pc = "STATUS_ANSWER"
    BY Started DEF ReaderLabels, ReadStatusAnswer
  <2>2. PICK x \in Handler : /\ reader' = [reader EXCEPT ![d] = x] /\ x.pc = "CONFIRMED"
                             /\ SameRequest(x, reader[d])
    BY <1>2, <2>1, TurnIs
  <2>3. Knows(row, custody, x)
    BY <1>2, <2>1, <2>2 DEF Knows, SameRequest
  <2>. QED
    BY <2>2, <2>3, Looking DEF ReadStatusAnswer
<1>. QED
  BY <1>1, <1>2 DEF ReadStatusAnswer

LEMMA StopReadingStays ==
    ASSUME Inv, NEW d \in Readers, StopReading(d)
    PROVE  Inv' /\ Onward
BY Leaving DEF StopReading

-----------------------------------------------------------------------------
(* Steps of the handlers that write.                                       *)

LEMMA InsertReadStays ==
    ASSUME Inv, NEW d \in Readers, InsertRead(d)
    PROVE  Inv' /\ Onward
<1>1. /\ reader \in [Readers -> Handler] /\ reader[d] \in Handler
      /\ Knows(row, custody, reader[d]) /\ row \in FullRow /\ custody \in Custody
      /\ "RETARGET" \in ReaderLabels /\ reader[d].pc = "INSERT"
  BY Started DEF ReaderLabels, InsertRead
<1>2. PICK q : q = reader[d].id
  OBVIOUS
<1>3. q \in ReadIds /\ reader[d].witness \in Witness /\ reader[d].seen \in Nat
  BY <1>1, <1>2 DEF Knows
<1>4. PICK asked : asked = [witness |-> reader[d].witness, baseline |-> reader[d].seen,
                            through |-> reader[d].through, result |-> None]
  OBVIOUS
<1>5. asked \in Request /\ asked # NoCustody /\ asked.result = None
  <2>1. asked \in Request /\ asked.result = None /\ asked.witness \in Witness
    BY <1>1, <1>3, <1>4 DEF Request, Handler
  <2>. QED
    BY <2>1, ReadsAssumption DEF NoCustody
<1>6. /\ custody' = IF Kept(q) THEN custody ELSE [custody EXCEPT ![q] = asked]
      /\ IF [custody'[q] EXCEPT !.result = None] = asked
         THEN TurnWith(d, "RETARGET", None) ELSE Leaves(d)
      /\ row' = row /\ UNCHANGED work
  BY <1>2, <1>4 DEF InsertRead
<1>7. custody' \in Custody /\ custody'[q] # NoCustody
  BY <1>1, <1>3, <1>5, <1>6 DEF Custody, Kept
<1>8. Grows(custody, custody')
  BY <1>1, <1>3, <1>6 DEF Grows, Custody, Kept, NoCustody
<1>9. \A k \in ReadIds : custody'[k].result # None => custody'[k] = custody[k]
  BY <1>1, <1>3, <1>5, <1>6 DEF Custody
<1>10. Stored' /\ Onward
  BY <1>6, <1>7, <1>8, <1>9, MoreRequests DEF Inv
<1>11. CASE TurnWith(d, "RETARGET", None)
  <2>1. PICK x \in Handler : /\ reader' = [reader EXCEPT ![d] = x] /\ x.pc = "RETARGET"
                             /\ SameRequest(x, reader[d])
    BY <1>1, <1>11, TurnWithIs
  <2>2. Knows(row', custody', x)
    BY <1>2, <1>3, <1>7, <2>1 DEF Knows, SameRequest
  <2>. QED
    BY <1>6, <1>10, <2>1, <2>2, ReaderMoves
<1>12. CASE Leaves(d)
  <2>1. /\ NotReading \in Handler /\ reader' = [reader EXCEPT ![d] = NotReading]
        /\ Knows(row', custody', NotReading)
    BY <1>12, LeavesIs
  <2>. QED
    BY <1>6, <1>10, <2>1, ReaderMoves
<1>. QED
  BY <1>6, <1>11, <1>12

LEMMA AcceptReadStays ==
    ASSUME Inv, NEW d \in Readers, AcceptRead(d)
    PROVE  Inv' /\ Onward
<1>1. /\ reader \in [Readers -> Handler] /\ Knows(row, custody, reader[d])
      /\ reader[d].id \in ReadIds /\ reader[d].pc = "ACCEPT" /\ "RECOVER" \in ReaderLabels
      /\ TurnWith(d, "RECOVER", None) /\ UNCHANGED work /\ UNCHANGED custody
  BY Started DEF ReaderLabels, AcceptRead
<1>2. Stored' /\ Onward
  <2>1. CASE UNCHANGED row
    BY <1>1, <2>1, NothingMoves DEF Inv
  <2>2. CASE Preimage(reader[d].seen) /\ row' = AcceptedRead(row, reader[d].id, d)
    <3>1. custody[reader[d].id] # NoCustody /\ Permits(row, custody, reader[d].id)
      BY <1>1, <2>2 DEF Knows, Preimage
    <3>. QED
      BY <1>1, <2>2, <3>1, AcceptanceMoves DEF Inv
  <2>. QED
    BY <2>1, <2>2 DEF AcceptRead
<1>3. PICK x \in Handler : /\ reader' = [reader EXCEPT ![d] = x] /\ x.pc = "RECOVER"
                           /\ SameRequest(x, reader[d])
  BY <1>1, TurnWithIs
<1>4. Knows(row', custody', x)
  BY <1>1, <1>3 DEF Knows, SameRequest
<1>. QED
  BY <1>1, <1>2, <1>3, <1>4, ReaderMoves

LEMMA FinishOwnStays ==
    ASSUME Inv, NEW d \in Readers, FinishOwn(d)
    PROVE  Inv' /\ Onward
<1>1. /\ reader \in [Readers -> Handler] /\ Knows(row, custody, reader[d])
      /\ reader[d].id \in ReadIds /\ reader[d].pc = "FINISH"
      /\ "CLEAN" \in ReaderLabels /\ "STATUS" \in ReaderLabels
      /\ UNCHANGED work /\ UNCHANGED row
  BY Started DEF ReaderLabels, FinishOwn
<1>2. CASE Finishes(reader[d].seen) /\ Turn(d, "CLEAN")
  <2>1. Carries(row, custody, reader[d].seen)
    BY <1>1 DEF Knows
  <2>2. Stored' /\ Onward
    BY <1>1, <1>2, <2>1, FinishMoves DEF Inv
  <2>3. PICK x \in Handler : /\ reader' = [reader EXCEPT ![d] = x] /\ x.pc = "CLEAN"
                             /\ SameRequest(x, reader[d]) /\ x.seen = reader[d].seen
    BY <1>1, <1>2, TurnIs
  <2>4. Knows(row', custody', x)
    BY <1>1, <2>1, <2>3 DEF Knows, SameRequest, Carries
  <2>. QED
    BY <1>1, <2>2, <2>3, <2>4, ReaderMoves
<1>3. CASE UNCHANGED custody /\ TurnWith(d, "STATUS", None)
  <2>1. Stored' /\ Onward
    BY <1>1, <1>3, NothingMoves DEF Inv
  <2>2. PICK x \in Handler : /\ reader' = [reader EXCEPT ![d] = x] /\ x.pc = "STATUS"
                             /\ SameRequest(x, reader[d])
    BY <1>1, <1>3, TurnWithIs
  <2>3. Knows(row', custody', x)
    BY <1>1, <2>2 DEF Knows, SameRequest
  <2>. QED
    BY <1>1, <2>1, <2>2, <2>3, ReaderMoves
<1>. QED
  BY <1>2, <1>3 DEF FinishOwn

LEMMA CleanOwnStays ==
    ASSUME Inv, NEW d \in Readers, CleanOwn(d)
    PROVE  Inv' /\ Onward
<1>1. /\ reader \in [Readers -> Handler] /\ Knows(row, custody, reader[d])
      /\ reader[d].id \in ReadIds /\ reader[d].pc = "CLEAN" /\ "STATUS" \in ReaderLabels
      /\ TurnWith(d, "STATUS", None) /\ UNCHANGED work /\ UNCHANGED custody
  BY Started DEF ReaderLabels, CleanOwn
<1>2. Stored' /\ Onward
  <2>1. CASE UNCHANGED row
    BY <1>1, <2>1, NothingMoves DEF Inv
  <2>2. CASE Preimage(reader[d].seen) /\ row' = Cleaned(row)
    <3>1. row.reads.pending # <<>>
      BY <1>1, <2>2 DEF Knows, Preimage
    <3>. QED
      BY <1>1, <2>2, <3>1, CleaningMoves DEF Inv
  <2>. QED
    BY <2>1, <2>2 DEF CleanOwn
<1>3. PICK x \in Handler : /\ reader' = [reader EXCEPT ![d] = x] /\ x.pc = "STATUS"
                           /\ SameRequest(x, reader[d])
  BY <1>1, TurnWithIs
<1>4. Knows(row', custody', x)
  BY <1>1, <1>3 DEF Knows, SameRequest
<1>. QED
  BY <1>1, <1>2, <1>3, <1>4, ReaderMoves

LEMMA ReadingStays ==
    ASSUME Inv, NEW d \in Readers, Reading(d)
    PROVE  Inv' /\ Onward
<1>1. ASSUME NEW q \in ReadIds, NEW through \in 0..(row.chat.published + 1), NEW w,
             Ask(d, q, w, through)
      PROVE  Inv' /\ Onward
  <2>1. through \in Nat
    OBVIOUS
  <2>. QED
    BY <1>1, <2>1, AskStays
<1>. QED
  BY <1>1, AskReadStatusStays, KnownStays, NewStays, InsertReadStays, RetargetReadStays,
     RefreshReadStays, AcceptReadStays, RecoverReadStays, FinishOwnStays, CleanOwnStays,
     ReadStatusTargetStays, ReadStatusRequestStays, ReadStatusAnswerStays,
     StopReadingStays DEF Reading

-----------------------------------------------------------------------------
(* Steps of the workers.                                                   *)

LEMMA IdleKnowsNothing ==
    IdleWorker \in Recovery /\ \A rw, cu : Recovers(rw, cu, IdleWorker)
BY DEF IdleWorker, Recovery, Recovers

LEMMA WorkerStays ==
    ASSUME Inv, UNCHANGED reading, NEW w \in Workers, Worker(w)
    PROVE  Inv' /\ Onward
<1>1. /\ work[w] \in Recovery /\ Recovers(row, custody, work[w])
      /\ Stored /\ row \in FullRow /\ RowSound(row)
      /\ UNCHANGED reader /\ UNCHANGED custody
  BY DEF Inv, Stored, RowSound, reading
<1>2. CASE Tick(w)
  <2>1. PICK x : x = [pc |-> "PUBLISH", seen |-> row]
    OBVIOUS
  <2>2. x \in Recovery /\ Recovers(row', custody', x) /\ work' = [work EXCEPT ![w] = x]
    BY <1>1, <1>2, <2>1 DEF Tick, Pending, Recovery, Recovers
  <2>3. Stored' /\ Onward
    BY <1>1, <1>2, NothingMoves DEF Tick
  <2>. QED
    BY <1>1, <2>2, <2>3, WorkerMoves
<1>3. CASE WorkerPublish(w)
  <2>1. PICK x : x = [work[w] EXCEPT !.pc = "FRONTIER"]
    OBVIOUS
  <2>2. x \in Recovery /\ x.pc = "FRONTIER" /\ x.seen = work[w].seen
    BY <1>1, <2>1 DEF Recovery
  <2>3. Recovers(row', custody', x) /\ work' = [work EXCEPT ![w] = x]
    BY <1>1, <1>3, <2>1, <2>2 DEF WorkerPublish, Recovers
  <2>4. Stored' /\ Onward
    BY <1>1, <1>3, NothingMoves DEF WorkerPublish
  <2>. QED
    BY <1>1, <2>2, <2>3, <2>4, WorkerMoves
<1>4. CASE WorkerFrontier(w)
  <2>1. row.chat.pending # <<>> /\ row' = Revealed(row)
    BY <1>1, <1>4 DEF WorkerFrontier, Recovers, Preimage
  <2>2. RowSound(row') /\ Forward(row, row') /\ row'.reads = row.reads
    BY <1>1, <2>1, RevealedIs
  <2>3. Stored' /\ Onward
    BY <1>1, <2>2, StoredKept
  <2>. QED
    BY <1>1, <1>4, <2>3, IdleKnowsNothing, WorkerMoves DEF WorkerFrontier
<1>5. CASE WorkerStop(w)
  <2>1. Stored' /\ Onward
    BY <1>1, <1>5, NothingMoves DEF WorkerStop
  <2>. QED
    BY <1>1, <1>5, <2>1, IdleKnowsNothing, WorkerMoves DEF WorkerStop
<1>. QED
  BY <1>2, <1>3, <1>4, <1>5 DEF Worker

LEMMA WorkerReadsStays ==
    ASSUME Inv, NEW w \in Workers, WorkerReads(w)
    PROVE  Inv' /\ Onward
<1>1. /\ work[w] \in Recovery /\ Recovers(row, custody, work[w])
      /\ Stored /\ row \in FullRow
  BY DEF Inv, Stored, RowSound
<1>2. CASE TickReads(w)
  <2>1. PICK x : x = [pc |-> "FINISH_READ", seen |-> row]
    OBVIOUS
  <2>2. Carries(row, custody, row)
    BY <1>1, <1>2, SeenNow DEF TickReads
  <2>3. x \in Recovery /\ Recovers(row', custody', x) /\ work' = [work EXCEPT ![w] = x]
    BY <1>1, <1>2, <2>1, <2>2 DEF TickReads, Recovery, Recovers
  <2>4. Stored' /\ Onward
    BY <1>1, <1>2, NothingMoves DEF TickReads
  <2>. QED
    BY <1>2, <2>3, <2>4, WorkerMoves DEF TickReads
<1>3. CASE WorkerFinish(w)
  <2>1. Carries(row, custody, work[w].seen)
    BY <1>1, <1>3 DEF WorkerFinish, Recovers
  <2>2. Stored' /\ Onward
    BY <1>1, <1>3, <2>1, FinishMoves DEF WorkerFinish
  <2>3. PICK x : x = [work[w] EXCEPT !.pc = "CLEAN_READ"]
    OBVIOUS
  <2>4. x \in Recovery /\ x.pc = "CLEAN_READ" /\ x.seen = work[w].seen
    BY <1>1, <2>3 DEF Recovery
  <2>5. Recovers(row', custody', x) /\ work' = [work EXCEPT ![w] = x]
    BY <1>3, <2>1, <2>3, <2>4 DEF WorkerFinish, Recovers, Carries
  <2>. QED
    BY <1>3, <2>2, <2>4, <2>5, WorkerMoves DEF WorkerFinish
<1>4. CASE WorkerClean(w)
  <2>1. row.reads.pending # <<>>
    BY <1>1, <1>4 DEF WorkerClean, Recovers, Preimage
  <2>2. Stored' /\ Onward
    BY <1>1, <1>4, <2>1, CleaningMoves DEF WorkerClean
  <2>. QED
    BY <1>4, <2>2, IdleKnowsNothing, WorkerMoves DEF WorkerClean
<1>. QED
  BY <1>2, <1>3, <1>4 DEF WorkerReads

-----------------------------------------------------------------------------
(* Init => Inv, and every step keeps it.                                   *)

LEMMA InitInv == ReadInit => Inv
<1>. SUFFICES ASSUME ReadInit PROVE Inv
  OBVIOUS
<1>1. /\ row = NewRow /\ custody = [q \in ReadIds |-> NoCustody]
      /\ reader = [d \in Readers |-> NotReading] /\ work = [w \in Workers |-> IdleWorker]
  BY DEF ReadInit, Init
<1>2. NewRow \in Row /\ Sound(NewRow)
  BY NewRowSound DEF Sound
<1>3. /\ NewRow.chat = NoChat /\ NewRow.reads = NoReads
  BY DEF NewRow
<1>4. NewRow \in FullRow
  <2>1. NoChat \in FullChat /\ NoReads \in FullReads
    BY EmptySeq DEF NoChat, NoReads, FullChat, FullReads
  <2>2. NewRow = [status |-> NewRow.status, roster |-> NewRow.roster,
                  waitlist |-> NewRow.waitlist, journal |-> NewRow.journal,
                  receipts |-> NewRow.receipts, chat |-> NoChat, reads |-> NoReads,
                  stamp |-> NewRow.stamp]
    BY DEF NewRow
  <2>. QED
    BY <1>2, <2>1, <2>2 DEF Row, FullRow
<1>5. Sound(Bare(NewRow))
  <2>1. Alike(NewRow, NewRow)
    BY DEF Alike
  <2>. QED
    BY <1>2, <1>4, <2>1, BareOnly
<1>6. RowSound(row)
  <2>1. Len(<<>>) = 0 /\ DOMAIN <<>> = {}
    BY EmptySeq
  <2>. QED
    BY <1>1, <1>3, <1>4, <1>5, <2>1, ReadsAssumption DEF RowSound, NoChat, NoReads
<1>7. custody \in Custody /\ \A q \in ReadIds : custody[q].result = None
  BY <1>1 DEF Custody, NoCustody
<1>8. Truthful(row, custody)
  BY <1>1, <1>3, <1>7 DEF Truthful, ToSet, NoReads
<1>9. /\ reader \in [Readers -> Handler]
      /\ \A d \in Readers : Knows(row, custody, reader[d])
  BY <1>1 DEF NotReading, Handler, ReaderLabels, Knows
<1>10. /\ work \in [Workers -> Recovery]
       /\ \A w \in Workers : Recovers(row, custody, work[w])
  BY <1>1, IdleKnowsNothing
<1>. QED
  BY <1>6, <1>7, <1>8, <1>9, <1>10 DEF Inv, Stored

LEMMA NextInv == Inv /\ ReadNext => Inv' /\ Onward
<1>. SUFFICES ASSUME Inv, ReadNext PROVE Inv' /\ Onward
  OBVIOUS
<1>1. CASE Environment /\ UNCHANGED reading
  <2>1. UNCHANGED custody /\ UNCHANGED <<reader, work>>
    BY <1>1 DEF reading, Environment, MemberJoins, MemberLeaves, OrganizerChanges, StaffEdits
  <2>2. Stored' /\ Onward
    BY <1>1, <2>1, OwnersMove DEF Inv
  <2>. QED
    BY <2>1, <2>2, NobodyMoves
<1>2. CASE SendersElsewhere
  <2>1. UNCHANGED <<reader, work>>
    BY <1>2 DEF reading, SendersElsewhere, SenderAdopts, SenderAccepts, SenderPublishes,
                SenderReveals
  <2>2. Stored' /\ Onward
    BY <1>2, SendersMove DEF Inv
  <2>. QED
    BY <2>1, <2>2, NobodyMoves
<1>. QED
  BY <1>1, <1>2, WorkerStays, ReadingStays, WorkerReadsStays DEF ReadNext

LEMMA StutterInv == Inv /\ UNCHANGED readVars => Inv' /\ Onward
<1>. SUFFICES ASSUME Inv, UNCHANGED readVars PROVE Inv' /\ Onward
  OBVIOUS
<1>1. UNCHANGED <<row, custody>> /\ UNCHANGED <<reader, work>>
  BY DEF readVars
<1>2. Stored' /\ Onward
  BY <1>1, NothingMoves DEF Inv
<1>. QED
  BY <1>1, <1>2, NobodyMoves

\* Whatever members, organizers, senders, readers and workers do and wherever they
\* stop: the row is one that readState accepts, every receipt in the queue or in its
\* document is true of the request and of a position, and each handler still knows
\* what its next step relies on.
THEOREM ReadInvariant == ReadSpec => []Inv
<1>1. Inv /\ [ReadNext]_readVars => Inv'
  BY NextInv, StutterInv
<1>. QED
  BY <1>1, InitInv, PTL DEF ReadSpec

-----------------------------------------------------------------------------
(* What follows.                                                           *)

LEMMA ReadsAreTrue == Inv => ReadsTrue
<1>. SUFFICES ASSUME Inv PROVE ReadsTrue
  OBVIOUS
<1>1. /\ RowSound(row) /\ row \in FullRow /\ custody \in Custody /\ Truthful(row, custody)
  BY DEF Inv, Stored, RowSound
<1>2. PositionsCover(row)
  <2>1. Alike(row, Bare(row)) /\ Sound(Bare(row))
    BY <1>1, BareIs DEF RowSound
  <2>2. PositionsCover(Bare(row))
    BY <2>1, PositionsCovered
  <2>3. /\ \A a, kind : Witnesses(Bare(row), a, kind) = Witnesses(row, a, kind)
        /\ Bare(row).reads.positions = row.reads.positions
        /\ Bare(row).reads.adopted = row.reads.adopted
        /\ Bare(row).chat.published = row.chat.published
    BY <2>1, LooksAlike DEF Alike
  <2>. QED
    BY <2>2, <2>3 DEF PositionsCover
<1>3. ASSUME NEW r \in Receipts
      PROVE  /\ Kept(r.id) /\ custody[r.id].through =< r.reached
             /\ \E p \in PositionsOf(row, custody[r.id].witness) :
                   p.baseline = custody[r.id].baseline /\ r.reached =< p.through
  <2>1. Told(row, custody, r)
    BY <1>1 DEF Receipts, Truthful
  <2>. QED
    BY <2>1 DEF Told, Asked, Kept
<1>4. ASSUME NEW d \in Readers, reader[d].pc = "CONFIRMED"
      PROVE  reader[d].result # None /\ reader[d].result = custody[reader[d].id].result
  BY <1>4 DEF Inv, Knows
<1>. QED
  BY <1>1, <1>2, <1>3, <1>4 DEF ReadsTrue, RowSound

\* For any number of people, requests, readers and workers: the positions cover the
\* authorities of the row, the queue keeps to its limit and holds a request once,
\* each receipt, queued or written, lies between what was asked and the position it
\* belongs to, and CONFIRMED names the written one.
THEOREM ReadsTellTheTruth == ReadSpec => []ReadsTrue
BY ReadInvariant, ReadsAreTrue, PTL

LEMMA OnwardAdvances ==
    ASSUME Inv, Onward
    PROVE  /\ \A p \in row.reads.positions : \E n \in row'.reads.positions :
                 n.witness = p.witness /\ n.baseline = p.baseline /\ n.through >= p.through
           /\ \A q \in ReadIds : custody[q].result # None => custody'[q] = custody[q]
           /\ \A q \in ReadIds : Queued(row', q) /\ ~Queued(row, q) =>
                 Witnesses(row, ReaderOf[q], custody[q].witness.kind) = {custody[q].witness}
<1>1. \A p \in row.reads.positions : \E n \in row'.reads.positions :
          n.witness = p.witness /\ n.baseline = p.baseline /\ n.through >= p.through
  BY DEF Onward, Forward
<1>2. \A q \in ReadIds : custody[q].result # None => custody'[q] = custody[q]
  BY DEF Onward, Grows
<1>3. ASSUME NEW q \in ReadIds, Queued(row', q), ~Queued(row, q)
      PROVE  Witnesses(row, ReaderOf[q], custody[q].witness.kind) = {custody[q].witness}
  <2>1. PICK i \in DOMAIN row'.reads.pending : row'.reads.pending[i].id = q
    BY <1>3 DEF Queued
  <2>2. PICK r : r = row'.reads.pending[i]
    OBVIOUS
  <2>3. r \in ToSet(row'.reads.pending) /\ r.id = q
    BY <2>1, <2>2 DEF ToSet
  <2>4. r \notin ToSet(row.reads.pending)
    BY <1>3, <2>3 DEF Queued, ToSet
  <2>. QED
    BY <2>3, <2>4 DEF Onward, Authorized
<1>. QED
  BY <1>1, <1>2, <1>3

\* For any number of people, requests, readers and workers: no step takes a position
\* back or away, none changes a written receipt, and none accepts a request whose
\* author has lost the authority it names.
THEOREM ReadsOnlyAdvance == ReadSpec => ReadsAdvance
<1>1. Inv /\ [ReadNext]_readVars => Onward
  BY NextInv, StutterInv
<1>2. Inv /\ [ReadNext]_readVars =>
        /\ \A p \in row.reads.positions : \E n \in row'.reads.positions :
              n.witness = p.witness /\ n.baseline = p.baseline /\ n.through >= p.through
        /\ \A q \in ReadIds : custody[q].result # None => custody'[q] = custody[q]
        /\ \A q \in ReadIds : Queued(row', q) /\ ~Queued(row, q) =>
              Witnesses(row, ReaderOf[q], custody[q].witness.kind) = {custody[q].witness}
  BY <1>1, OnwardAdvances
<1>. QED
  BY <1>2, ReadInvariant, PTL DEF ReadSpec, ReadsAdvance

=============================================================================
