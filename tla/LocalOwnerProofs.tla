-------------------------- MODULE LocalOwnerProofs --------------------------
(***************************************************************************)
(* The private owners of a LOCAL_ONLY tournament, for any number of        *)
(* handlers, any data and any limits.  A handler decides on the row it     *)
(* read, and what it decided stays a correct decision about that row for   *)
(* ever; the preimage makes it a decision about the stored row.  So every  *)
(* step of the handlers leaves the row alone or is a step of one of its    *)
(* owners (TournamentRowProofs), and a sound row stays sound.              *)
(***************************************************************************)
EXTENDS LocalOwner, TournamentRowProofs, TLAPS

-----------------------------------------------------------------------------
(* What the handlers know.                                                 *)

RequestState ==
    [pc : {"IDLE", "READ", "COMMIT", "READBACK", "ANSWERED"},
     actor : Actors \cup {None}, phone : Phones \cup {None}, key : Keys \cup {None},
     command : Commands \cup {None}, tries : Nat, seen : Row \cup {None},
     op : Operation \cup {None}]
DeskState ==
    [pc : {"IDLE", "COMMIT", "READBACK", "CONFIRMED"},
     command : CommandShapes \cup {None}, seen : Row \cup {None},
     receipt : Receipt \cup {None}]
EditState ==
    [pc : {"IDLE", "WRITE"}, seen : Row \cup {None}, field : {"status", "roster", None},
     value : StaffStatus \cup (SUBSET Seat) \cup {None}]

\* A request about to commit holds an operation the row it read decides.
RequestKnows(q) ==
    /\ q.pc = "READ" =>
          /\ q.actor \in Actors /\ q.phone \in Phones /\ q.key \in Keys
          /\ q.command \in Commands
    /\ q.pc = "COMMIT" =>
          /\ q.actor \in Actors /\ q.phone \in Phones /\ q.key \in Keys
          /\ q.command \in Commands
          /\ q.op \in Operation /\ Decision(q.seen, q.op)

DeskKnows(q) ==
    q.pc = "COMMIT" =>
        /\ q.command \in CommandShapes
        /\ ReceiptsOf(q.seen, q.command.id) = {} /\ OrganizerFits(q.seen, q.receipt)
        /\ q.receipt = OrganizerReceipt(q.seen, q.command)
        /\ q.command.action = "REVOKE" => q.seen.receipts # <<>>

\* An edit that read a row without a journal holds seats without a generation.
EditKnows(q) ==
    q.pc = "WRITE" =>
        IF q.field = "status" THEN q.value \in StaffStatus
        ELSE q.value \subseteq Seat /\ (q.seen.journal = <<>> => Loose(q.value))

\* A write left behind is a step of an owner from the row its sender read.
StrayKnows(s) == s # None => OwnerStep(s.seen, s.next)

Told ==
    /\ \A r \in Requests : req[r].pc = "ANSWERED" => req[r].op \in Entries(row)
    /\ \A d \in Desks :
          desk[d].pc = "CONFIRMED" => desk[d].receipt \in ToSet(row.receipts)

Inv ==
    /\ Sound(row)
    /\ req \in [Requests -> RequestState] /\ \A r \in Requests : RequestKnows(req[r])
    /\ desk \in [Desks -> DeskState] /\ \A d \in Desks : DeskKnows(desk[d])
    /\ edit \in [Editors -> EditState] /\ \A e \in Editors : EditKnows(edit[e])
    /\ StrayKnows(stray)
    /\ Told

RowStep == row' = row \/ OwnerStep(row, row')
Kept == RowStep /\ Inv'

LEMMA RowStays ==
    ASSUME Inv, RowStep
    PROVE  /\ Sound(row') /\ Entries(row) \subseteq Entries(row')
           /\ ToSet(row.receipts) \subseteq ToSet(row'.receipts)
<1>1. Sound(row)
  BY DEF Inv
<1>2. CASE row' = row
  BY <1>1, <1>2
<1>3. CASE OwnerStep(row, row')
  BY <1>1, <1>3, OwnersAgree, OwnersRemember
<1>. QED
  BY <1>2, <1>3 DEF RowStep

-----------------------------------------------------------------------------
(* One handler moves, and the row by a step of its owners.                 *)

LEMMA RequestMoves ==
    ASSUME Inv, RowStep, NEW r \in Requests, NEW q \in RequestState, RequestKnows(q),
           req' = [req EXCEPT ![r] = q], q.pc = "ANSWERED" => q.op \in Entries(row'),
           UNCHANGED <<desk, edit>>, StrayKnows(stray')
    PROVE  Kept
<1>1. /\ Sound(row') /\ Entries(row) \subseteq Entries(row')
      /\ ToSet(row.receipts) \subseteq ToSet(row'.receipts)
  BY RowStays
<1>2. req \in [Requests -> RequestState] /\ \A i \in Requests : RequestKnows(req[i])
  BY DEF Inv
<1>3. req' \in [Requests -> RequestState] /\ \A i \in Requests : RequestKnows(req'[i])
  BY <1>2
<1>4. \A i \in Requests : req'[i].pc = "ANSWERED" => req'[i].op \in Entries(row')
  BY <1>1, <1>2 DEF Inv, Told
<1>5. \A d \in Desks : desk'[d].pc = "CONFIRMED" => desk'[d].receipt \in ToSet(row'.receipts)
  BY <1>1 DEF Inv, Told
<1>. QED
  BY <1>1, <1>3, <1>4, <1>5 DEF Kept, Inv, Told

LEMMA DeskMoves ==
    ASSUME Inv, RowStep, NEW d \in Desks, NEW q \in DeskState, DeskKnows(q),
           desk' = [desk EXCEPT ![d] = q],
           q.pc = "CONFIRMED" => q.receipt \in ToSet(row'.receipts),
           UNCHANGED <<req, edit>>, StrayKnows(stray')
    PROVE  Kept
<1>1. /\ Sound(row') /\ Entries(row) \subseteq Entries(row')
      /\ ToSet(row.receipts) \subseteq ToSet(row'.receipts)
  BY RowStays
<1>2. desk \in [Desks -> DeskState] /\ \A i \in Desks : DeskKnows(desk[i])
  BY DEF Inv
<1>3. desk' \in [Desks -> DeskState] /\ \A i \in Desks : DeskKnows(desk'[i])
  BY <1>2
<1>4. \A i \in Desks : desk'[i].pc = "CONFIRMED" => desk'[i].receipt \in ToSet(row'.receipts)
  BY <1>1, <1>2 DEF Inv, Told
<1>5. \A r \in Requests : req'[r].pc = "ANSWERED" => req'[r].op \in Entries(row')
  BY <1>1 DEF Inv, Told
<1>. QED
  BY <1>1, <1>3, <1>4, <1>5 DEF Kept, Inv, Told

LEMMA EditMoves ==
    ASSUME Inv, RowStep, NEW e \in Editors, NEW q \in EditState, EditKnows(q),
           edit' = [edit EXCEPT ![e] = q], UNCHANGED <<req, desk, stray>>
    PROVE  Kept
<1>1. /\ Sound(row') /\ Entries(row) \subseteq Entries(row')
      /\ ToSet(row.receipts) \subseteq ToSet(row'.receipts)
  BY RowStays
<1>2. edit \in [Editors -> EditState] /\ \A i \in Editors : EditKnows(edit[i])
  BY DEF Inv
<1>3. edit' \in [Editors -> EditState] /\ \A i \in Editors : EditKnows(edit'[i])
  BY <1>2
<1>4. /\ \A r \in Requests : req'[r].pc = "ANSWERED" => req'[r].op \in Entries(row')
      /\ \A d \in Desks : desk'[d].pc = "CONFIRMED" => desk'[d].receipt \in ToSet(row'.receipts)
  BY <1>1 DEF Inv, Told
<1>. QED
  BY <1>1, <1>3, <1>4 DEF Kept, Inv, Told

LEMMA RowMoves ==
    ASSUME Inv, RowStep, UNCHANGED <<req, desk, edit>>, StrayKnows(stray')
    PROVE  Kept
<1>1. /\ Sound(row') /\ Entries(row) \subseteq Entries(row')
      /\ ToSet(row.receipts) \subseteq ToSet(row'.receipts)
  BY RowStays
<1>2. /\ \A r \in Requests : req'[r].pc = "ANSWERED" => req'[r].op \in Entries(row')
      /\ \A d \in Desks : desk'[d].pc = "CONFIRMED" => desk'[d].receipt \in ToSet(row'.receipts)
  BY <1>1 DEF Inv, Told
<1>. QED
  BY <1>1, <1>2 DEF Kept, Inv, Told

-----------------------------------------------------------------------------
(* JOIN and LEAVE.                                                         *)

LEMMA RequestTyped ==
    ASSUME Inv, NEW r \in Requests
    PROVE  req[r] \in RequestState /\ RequestKnows(req[r])
BY DEF Inv

LEMMA IdleState == Idle \in RequestState /\ RequestKnows(Idle) /\ Idle.pc = "IDLE"
BY DEF Idle, RequestState, RequestKnows

LEMMA FinishKeeps ==
    ASSUME Inv, RowStep, NEW r \in Requests, Finish(r), UNCHANGED <<desk, edit>>,
           StrayKnows(stray')
    PROVE  Kept
BY IdleState, RequestMoves DEF Finish

LEMMA AnswerKeeps ==
    ASSUME Inv, RowStep, NEW r \in Requests, NEW op \in Entries(row'), op \in Operation,
           Answer(r, op), UNCHANGED <<desk, edit>>, StrayKnows(stray')
    PROVE  Kept
<1>. DEFINE q == [Idle EXCEPT !.pc = "ANSWERED", !.op = op]
<1>1. q \in RequestState /\ q.pc = "ANSWERED" /\ q.op = op
  BY DEF Idle, RequestState
<1>2. RequestKnows(q)
  BY <1>1 DEF RequestKnows
<1>3. req' = [req EXCEPT ![r] = q]
  BY DEF Answer
<1>. HIDE DEF q
<1>. QED
  BY <1>1, <1>2, <1>3, RequestMoves

LEMMA InquireKeeps ==
    ASSUME Inv, RowStep, NEW r \in Requests, Inquire(r), UNCHANGED <<desk, edit>>,
           StrayKnows(stray')
    PROVE  Kept
<1>. DEFINE q == [req[r] EXCEPT !.pc = "READBACK", !.seen = None]
<1>1. q \in RequestState /\ q.pc = "READBACK"
  BY RequestTyped DEF RequestState
<1>2. RequestKnows(q)
  BY <1>1 DEF RequestKnows
<1>3. req' = [req EXCEPT ![r] = q]
  BY DEF Inquire, Inv
<1>. HIDE DEF q
<1>. QED
  BY <1>1, <1>2, <1>3, RequestMoves

\* What a request decides on the row it reads is a decision of the journal.
LEMMA DecisionsDecide ==
    ASSUME NEW rw, rw = row, Sound(rw), NEW q \in RequestState,
           q.actor \in Actors, q.phone \in Phones, q.key \in Keys, q.command \in Commands,
           ~Replays(q), NEW op \in Decisions(q), Fits(row, op)
    PROVE  op \in Operation /\ Decision(rw, op)
<1>0. \A o \in Entries(rw) : ~(o.actor = q.actor /\ o.key = q.key)
  BY DEF Replays, Previous
<1>1. CASE q.command = Join
  <2>1. op = JoinOperation(rw, q.actor, q.phone, q.key) /\ rw.status \in OpenStatuses
    BY <1>1 DEF Decisions
  <2>2. op.actor = q.actor /\ op.key = q.key /\ op \in Operation
    BY <2>1 DEF JoinOperation, JoinOutcome, Operation, Commands, Outcomes
  <2>. QED
    BY <1>0, <2>1, <2>2 DEF Decision
<1>2. CASE q.command # Join
  <2>1. PICK o \in Originals(rw, q.actor, q.command) : op = LeaveOperation(rw, o, q.key)
    BY <1>2 DEF Decisions
  <2>2. o \in Registered(rw) /\ o.actor = q.actor
    BY <2>1 DEF Originals, Registered
  <2>3. o \in Operation
    BY <2>2, EntriesTyped DEF Sound, Registered
  <2>4. op.actor = q.actor /\ op.key = q.key /\ op.command # Join
    BY <2>1, <2>2, LeaveIsNotJoin DEF LeaveOperation
  <2>5. op \in Operation
    BY <2>1, <2>3 DEF LeaveOperation, Operation, Commands, Outcomes
  <2>. QED
    BY <1>0, <2>1, <2>2, <2>4, <2>5 DEF Decision
<1>. QED
  BY <1>1, <1>2

LEMMA ExamineKeeps ==
    ASSUME Inv, NEW r \in Requests, NEW q \in RequestState,
           q.actor \in Actors, q.phone \in Phones, q.key \in Keys, q.command \in Commands,
           Examine(r, q), UNCHANGED <<row, desk, edit, stray>>
    PROVE  Kept
<1>0. RowStep /\ StrayKnows(stray') /\ Sound(row) /\ row \in Row
  BY DEF RowStep, Inv, Sound
<1>1. CASE Replays(q) /\ \E o \in Previous(q) : IF o.command = q.command THEN Answer(r, o) ELSE Finish(r)
  <2>1. PICK o \in Previous(q) : Answer(r, o) \/ Finish(r)
    BY <1>1
  <2>2. o \in Entries(row') /\ o \in Operation
    BY <1>0, EntriesTyped DEF Previous
  <2>. QED
    BY <1>0, <2>1, <2>2, AnswerKeeps, FinishKeeps
<1>2. CASE ~Replays(q) /\ \E op \in Decisions(q) :
              /\ Fits(row, op)
              /\ req' = [req EXCEPT ![r] = [q EXCEPT !.pc = "COMMIT", !.seen = row, !.op = op]]
  <2>1. PICK op \in Decisions(q) :
           /\ Fits(row, op)
           /\ req' = [req EXCEPT ![r] = [q EXCEPT !.pc = "COMMIT", !.seen = row, !.op = op]]
    BY <1>2
  <2>2. op \in Operation /\ Decision(row, op)
    BY <1>0, <1>2, <2>1, DecisionsDecide
  <2>. DEFINE p == [q EXCEPT !.pc = "COMMIT", !.seen = row, !.op = op]
  <2>3. /\ p \in RequestState /\ p.pc = "COMMIT" /\ p.seen = row /\ p.op = op
        /\ p.actor = q.actor /\ p.phone = q.phone /\ p.key = q.key /\ p.command = q.command
    BY <1>0, <2>2 DEF RequestState
  <2>4. req' = [req EXCEPT ![r] = p]
    BY <2>1
  <2>. HIDE DEF p
  <2>5. RequestKnows(p)
    BY <2>2, <2>3 DEF RequestKnows
  <2>. QED
    BY <1>0, <2>3, <2>4, <2>5, RequestMoves
<1>3. CASE Finish(r)
  BY <1>0, <1>3, FinishKeeps
<1>. QED
  BY <1>1, <1>2, <1>3 DEF Examine

LEMMA BeginKeeps ==
    ASSUME Inv, NEW r \in Requests, NEW a \in Actors, NEW p \in Phones, NEW key \in Keys,
           NEW command \in Commands, Begin(r, a, p, key, command)
    PROVE  Kept
<1>. DEFINE q == [Idle EXCEPT !.actor = a, !.phone = p, !.key = key,
                              !.command = command, !.tries = 1]
<1>1. /\ q \in RequestState /\ q.actor = a /\ q.phone = p /\ q.key = key
      /\ q.command = command
  BY DEF Idle, RequestState
<1>2. Examine(r, q) /\ UNCHANGED <<row, desk, edit, stray>>
  BY DEF Begin
<1>. HIDE DEF q
<1>. QED
  BY <1>1, <1>2, ExamineKeeps

LEMMA AgainKeeps ==
    ASSUME Inv, NEW r \in Requests, Again(r)
    PROVE  Kept
BY RequestTyped, ExamineKeeps DEF Again, RequestKnows

\* The update carries the decision, and only onto the row it was decided on.
LEMMA CommitKeeps ==
    ASSUME Inv, NEW r \in Requests, Commit(r)
    PROVE  Kept
<1>. DEFINE q == req[r]
<1>0. /\ q \in RequestState /\ q.pc = "COMMIT" /\ q.op \in Operation
      /\ Decision(q.seen, q.op) /\ q.command \in Commands /\ q.actor \in Actors
      /\ q.phone \in Phones /\ q.key \in Keys /\ Sound(row) /\ StrayKnows(stray)
      /\ UNCHANGED <<desk, edit>>
  BY RequestTyped DEF Commit, RequestKnows, Inv
<1>1. ASSUME NEW next \in Committed(q.seen, q.op)
      PROVE  OwnerStep(q.seen, next)
  BY <1>0, <1>1 DEF OwnerStep, JournalStep
<1>2. ASSUME NEW next \in Committed(q.seen, q.op), Executed(q.seen, next),
             Answer(r, q.op) \/ Inquire(r)
      PROVE  Kept
  <2>1. row = q.seen /\ row' = next /\ stray' = stray
    BY <1>2 DEF Executed, Preimage
  <2>2. RowStep
    BY <1>1, <2>1 DEF RowStep
  <2>3. q.op \in Entries(row')
    <3>1. EntrySound(q.op) /\ row \in Row
      BY <1>0, <2>1, DecisionIs DEF Sound
    <3>2. row'.journal = Logged(row, q.op).journal
      BY <1>0, <1>2, <2>1, <3>1, CommittedIs
    <3>. QED
      BY <1>0, <3>1, <3>2, LoggedIs, SameJournal
  <2>. QED
    BY <1>0, <1>2, <2>1, <2>2, <2>3, AnswerKeeps, InquireKeeps
<1>3. ASSUME NEW next \in Committed(q.seen, q.op), Interrupted(q.seen, next), Inquire(r)
      PROVE  Kept
  <2>1. RowStep
    BY <1>3 DEF Interrupted, RowStep
  <2>2. StrayKnows(stray')
    BY <1>0, <1>1, <1>3 DEF Interrupted, StrayKnows
  <2>. QED
    BY <1>0, <1>3, <2>1, <2>2, InquireKeeps
<1>4. ASSUME Missed(q.seen, Committed(q.seen, q.op)),
             \/ Inquire(r) \/ Finish(r)
             \/ req' = [req EXCEPT ![r].pc = "READ", ![r].tries = @ + 1,
                                   ![r].seen = None, ![r].op = None]
      PROVE  Kept
  <2>1. RowStep /\ StrayKnows(stray')
    BY <1>0, <1>4 DEF Missed, RowStep
  <2>2. CASE req' = [req EXCEPT ![r].pc = "READ", ![r].tries = @ + 1,
                                ![r].seen = None, ![r].op = None]
    <3>. DEFINE p == [q EXCEPT !.pc = "READ", !.tries = @ + 1, !.seen = None, !.op = None]
    <3>0. ASSUME NEW z \in RequestState
          PROVE  LET y == [z EXCEPT !.pc = "READ", !.tries = @ + 1, !.seen = None, !.op = None]
                 IN  /\ y \in RequestState /\ y.pc = "READ" /\ y.actor = z.actor
                     /\ y.phone = z.phone /\ y.key = z.key /\ y.command = z.command
      <4>1. z.tries + 1 \in Nat
        BY DEF RequestState
      <4>. QED
        BY <4>1 DEF RequestState
    <3>1. /\ p \in RequestState /\ p.pc = "READ" /\ p.actor = q.actor /\ p.phone = q.phone
          /\ p.key = q.key /\ p.command = q.command
      BY <1>0, <3>0
    <3>2. RequestKnows(p)
      BY <1>0, <3>1 DEF RequestKnows
    <3>3. req' = [req EXCEPT ![r] = p]
      BY <2>2 DEF Inv
    <3>. HIDE DEF p
    <3>. QED
      BY <1>0, <2>1, <3>1, <3>2, <3>3, RequestMoves
  <2>. QED
    BY <1>0, <1>4, <2>1, <2>2, InquireKeeps, FinishKeeps
<1>5. \/ \E next \in Committed(q.seen, q.op) :
            \/ Executed(q.seen, next) /\ (Answer(r, q.op) \/ Inquire(r))
            \/ Interrupted(q.seen, next) /\ Inquire(r)
      \/ /\ Missed(q.seen, Committed(q.seen, q.op))
         /\ \/ Inquire(r) \/ Finish(r)
            \/ req' = [req EXCEPT ![r].pc = "READ", ![r].tries = @ + 1,
                                  ![r].seen = None, ![r].op = None]
  BY DEF Commit
<1>. QED
  BY <1>2, <1>3, <1>4, <1>5

LEMMA ReadbackKeeps ==
    ASSUME Inv, NEW r \in Requests, Readback(r)
    PROVE  Kept
<1>0. /\ RowStep /\ StrayKnows(stray') /\ row \in Row /\ row' = row
      /\ UNCHANGED <<desk, edit>>
  BY DEF Readback, RowStep, Inv, Sound
<1>1. ASSUME NEW o \in Previous(req[r]), Answer(r, o)
      PROVE  Kept
  <2>1. o \in Entries(row') /\ o \in Operation
    BY <1>0, EntriesTyped DEF Previous
  <2>. QED
    BY <1>0, <1>1, <2>1, AnswerKeeps
<1>. QED
  BY <1>0, <1>1, FinishKeeps DEF Readback

LEMMA StopKeeps ==
    ASSUME Inv, NEW r \in Requests, Stop(r)
    PROVE  Kept
<1>1. RowStep /\ StrayKnows(stray') /\ UNCHANGED <<desk, edit>> /\ Finish(r)
  BY DEF Stop, RowStep, Inv
<1>. QED
  BY <1>1, FinishKeeps

-----------------------------------------------------------------------------
(* The organizer command.                                                  *)

LEMMA DeskTyped ==
    ASSUME Inv, NEW d \in Desks
    PROVE  desk[d] \in DeskState /\ DeskKnows(desk[d])
BY DEF Inv

LEMMA ReceiptKnown ==
    ASSUME NEW rw \in Row, NEW id, NEW receipt \in ReceiptsOf(rw, id)
    PROVE  receipt \in Receipt /\ receipt \in ToSet(rw.receipts)
<1>1. rw.receipts \in Seq(Receipt)
  BY DEF Row
<1>. QED
  BY <1>1, LenProperties, ElementOfSeq DEF ReceiptsOf, ToSet

LEMMA DismissKeeps ==
    ASSUME Inv, RowStep, NEW d \in Desks, Dismiss(d), UNCHANGED <<req, edit>>,
           StrayKnows(stray')
    PROVE  Kept
<1>1. IdleDesk \in DeskState /\ IdleDesk.pc = "IDLE" /\ DeskKnows(IdleDesk)
  BY DEF IdleDesk, DeskState, DeskKnows
<1>. QED
  BY <1>1, DeskMoves DEF Dismiss

LEMMA ConfirmKeeps ==
    ASSUME Inv, NEW d \in Desks, NEW id, NEW receipt \in ReceiptsOf(row, id),
           Confirm(d, receipt), UNCHANGED <<row, req, edit, stray>>
    PROVE  Kept
<1>. DEFINE q == [IdleDesk EXCEPT !.pc = "CONFIRMED", !.receipt = receipt]
<1>0. RowStep /\ StrayKnows(stray') /\ row \in Row /\ row' = row
  BY DEF RowStep, Inv, Sound
<1>1. receipt \in Receipt /\ receipt \in ToSet(row'.receipts)
  BY <1>0, ReceiptKnown
<1>2. q \in DeskState /\ q.pc = "CONFIRMED" /\ q.receipt = receipt
  BY <1>1 DEF IdleDesk, DeskState
<1>3. DeskKnows(q)
  BY <1>2 DEF DeskKnows
<1>4. desk' = [desk EXCEPT ![d] = q]
  BY DEF Confirm
<1>. HIDE DEF q
<1>. QED
  BY <1>0, <1>1, <1>2, <1>3, <1>4, DeskMoves

LEMMA CommandKeeps ==
    ASSUME Inv, NEW d \in Desks, NEW command \in CommandShapes, Command(d, command)
    PROVE  Kept
<1>. DEFINE receipt == OrganizerReceipt(row, command)
            q == [pc |-> "COMMIT", command |-> command, seen |-> row, receipt |-> receipt]
<1>0. RowStep /\ StrayKnows(stray') /\ row \in Row /\ UNCHANGED <<row, req, edit, stray>>
  BY DEF RowStep, Inv, Sound, Command
<1>1. ASSUME NEW original \in ReceiptsOf(row, command.id), Confirm(d, original)
      PROVE  Kept
  BY <1>0, <1>1, ConfirmKeeps
<1>2. ASSUME ReceiptsOf(row, command.id) = {}, OrganizerFits(row, receipt),
             command.action = "REVOKE" => row.receipts # <<>>,
             desk' = [desk EXCEPT ![d] = q]
      PROVE  Kept
  <2>1. receipt \in Receipt
    BY <1>0, ReceiptTyped
  <2>2. q \in DeskState /\ q.pc = "COMMIT"
    BY <1>0, <2>1 DEF DeskState
  <2>3. DeskKnows(q)
    BY <1>2 DEF DeskKnows
  <2>. HIDE DEF q
  <2>. QED
    BY <1>0, <1>2, <2>2, <2>3, DeskMoves
<1>. QED
  BY <1>1, <1>2 DEF Command

LEMMA CommandCommitKeeps ==
    ASSUME Inv, NEW d \in Desks, CommandCommit(d)
    PROVE  Kept
<1>. DEFINE q == desk[d]
            p == [q EXCEPT !.pc = "READBACK", !.seen = None]
<1>0. /\ q \in DeskState /\ q.pc = "COMMIT" /\ q.command \in CommandShapes
      /\ ReceiptsOf(q.seen, q.command.id) = {} /\ OrganizerFits(q.seen, q.receipt)
      /\ q.receipt = OrganizerReceipt(q.seen, q.command)
      /\ q.command.action = "REVOKE" => q.seen.receipts # <<>>
      /\ StrayKnows(stray) /\ UNCHANGED <<req, edit>>
  BY DeskTyped DEF CommandCommit, DeskKnows, Inv
<1>1. ASSUME NEW next \in Assigned(q.seen, q.receipt)
      PROVE  OwnerStep(q.seen, next)
  BY <1>0, <1>1 DEF OwnerStep, OrganizerStep
<1>2. RowStep /\ StrayKnows(stray')
  <2>1. ASSUME NEW next \in Assigned(q.seen, q.receipt), Executed(q.seen, next)
        PROVE  RowStep /\ StrayKnows(stray')
    BY <1>0, <1>1, <2>1 DEF Executed, Preimage, RowStep
  <2>2. ASSUME NEW next \in Assigned(q.seen, q.receipt), Interrupted(q.seen, next)
        PROVE  RowStep /\ StrayKnows(stray')
    BY <1>0, <1>1, <2>2 DEF Interrupted, RowStep, StrayKnows
  <2>. QED
    BY <1>0, <2>1, <2>2 DEF CommandCommit, RowStep
<1>3. p \in DeskState /\ p.pc = "READBACK"
  BY <1>0 DEF DeskState
<1>4. DeskKnows(p)
  BY <1>3 DEF DeskKnows
<1>5. desk' = [desk EXCEPT ![d] = p]
  BY DEF CommandCommit, Inv
<1>. HIDE DEF p
<1>. QED
  BY <1>0, <1>2, <1>3, <1>4, <1>5, DeskMoves

LEMMA CommandReadbackKeeps ==
    ASSUME Inv, NEW d \in Desks, CommandReadback(d)
    PROVE  Kept
<1>0. RowStep /\ StrayKnows(stray') /\ UNCHANGED <<row, req, edit, stray>>
  BY DEF RowStep, Inv, CommandReadback
<1>. QED
  BY <1>0, ConfirmKeeps, DismissKeeps DEF CommandReadback

LEMMA CommandStopKeeps ==
    ASSUME Inv, NEW d \in Desks, CommandStop(d)
    PROVE  Kept
<1>0. RowStep /\ StrayKnows(stray') /\ UNCHANGED <<row, req, edit, stray>>
  BY DEF RowStep, Inv, CommandStop
<1>. QED
  BY <1>0, DismissKeeps DEF CommandStop

-----------------------------------------------------------------------------
(* The writers that are not owners, the write left behind and the chat.    *)

LEMMA LooseRoster ==
    ASSUME NEW rw, Sound(rw), rw.journal = <<>>
    PROVE  Loose(rw.roster)
<1>1. Active(rw) = {}
  BY NoJournal
<1>2. rw.roster \subseteq Seat
  BY DEF Sound, Row
<1>. QED
  BY <1>1, <1>2 DEF Loose, Sound, SeatsSound

\* A seat for a phone that has none.
LEMMA LooseSeat ==
    ASSUME NEW roster, Loose(roster), NEW p \in Phones, \A s \in roster : s.phone # p
    PROVE  Loose(roster \cup {StaffSeat(p)})
<1>1. StaffSeat(p) \in Seat /\ StaffSeat(p).by = None /\ StaffSeat(p).phone = p
  BY DEF StaffSeat, Seat
<1>2. IsFiniteSet(roster \cup {StaffSeat(p)})
  BY FS_AddElement DEF Loose
<1>. QED
  BY <1>1, <1>2 DEF Loose

LEMMA EditReadKeeps ==
    ASSUME Inv, NEW e \in Editors, EditRead(e)
    PROVE  Kept
<1>0. RowStep /\ row \in Row /\ Sound(row) /\ UNCHANGED <<row, req, desk, stray>>
  BY DEF RowStep, Inv, Sound, EditRead
<1>1. ASSUME NEW s \in StaffStatus \ {row.status},
             edit' = [edit EXCEPT ![e] =
                [pc |-> "WRITE", seen |-> row, field |-> "status", value |-> s]]
      PROVE  Kept
  <2>. DEFINE q == [pc |-> "WRITE", seen |-> row, field |-> "status", value |-> s]
  <2>2. q \in EditState /\ EditKnows(q)
    BY <1>0 DEF EditState, EditKnows
  <2>. HIDE DEF q
  <2>3. edit' = [edit EXCEPT ![e] = q]
    BY <1>1 DEF q
  <2>. QED
    BY <1>0, <2>2, <2>3, EditMoves
<1>2. ASSUME NEW p \in Phones, NEW value,
             LET without == {s \in row.roster : s.phone # p} IN
             value = IF without = row.roster THEN row.roster \cup {StaffSeat(p)} ELSE without,
             edit' = [edit EXCEPT ![e] =
                [pc |-> "WRITE", seen |-> row, field |-> "roster", value |-> value]]
      PROVE  Kept
  <2>. DEFINE q == [pc |-> "WRITE", seen |-> row, field |-> "roster", value |-> value]
              without == {s \in row.roster : s.phone # p}
  <2>1. row.roster \subseteq Seat /\ StaffSeat(p) \in Seat
    BY <1>0 DEF Row, StaffSeat, Seat
  <2>2. value \subseteq Seat
    BY <1>2, <2>1
  <2>3. ASSUME row.journal = <<>>
        PROVE  Loose(value)
    <3>1. Loose(row.roster)
      BY <1>0, <2>3, LooseRoster
    <3>2. CASE without = row.roster
      <4>1. \A s \in row.roster : s.phone # p
        BY <3>2
      <4>. QED
        BY <1>2, <3>1, <3>2, <4>1, LooseSeat
    <3>3. CASE without # row.roster
      <4>1. IsFiniteSet(without)
        BY <3>1, FS_Subset DEF Loose
      <4>. QED
        BY <1>2, <3>1, <3>3, <4>1 DEF Loose
    <3>. QED
      BY <3>2, <3>3
  <2>4. q \in EditState /\ EditKnows(q)
    BY <1>0, <2>2, <2>3 DEF EditState, EditKnows
  <2>. HIDE DEF q
  <2>5. edit' = [edit EXCEPT ![e] = q]
    BY <1>2 DEF q
  <2>. QED
    BY <1>0, <2>4, <2>5, EditMoves
<1>. QED
  BY <1>1, <1>2 DEF EditRead

LEMMA StampGrows == ASSUME NEW rw \in Row PROVE rw.stamp + 1 \in Nat
BY DEF Row

\* A staff write keeps the row's shape and touches no owner's part of it.
LEMMA StaffWrites ==
    ASSUME NEW rw, Sound(rw), rw.journal = <<>>, NEW next,
           \/ \E s \in StaffStatus : next = [rw EXCEPT !.status = s, !.stamp = @ + 1]
           \/ \E roster : Loose(roster)
                          /\ next = [rw EXCEPT !.roster = roster, !.stamp = @ + 1]
           \/ \E p \in Phones :
                 next = [rw EXCEPT !.waitlist = @ \cup {p}, !.stamp = @ + 1]
    PROVE  OwnerStep(rw, next)
<1>1. rw \in Row /\ rw.stamp \in Nat /\ rw.waitlist \subseteq Phones /\ rw.roster \subseteq Seat
  BY DEF Sound, Row
<1>2. Loose(rw.roster)
  BY LooseRoster
<1>3. rw.stamp + 1 \in Nat
  BY <1>1, StampGrows
<1>4. CASE \E s \in StaffStatus : next = [rw EXCEPT !.status = s, !.stamp = @ + 1]
  BY <1>1, <1>2, <1>3, <1>4, StatusAssumption DEF OwnerStep, StaffStep, Row
<1>5. ASSUME NEW roster, Loose(roster), next = [rw EXCEPT !.roster = roster, !.stamp = @ + 1]
      PROVE  OwnerStep(rw, next)
  <2>1. roster \subseteq Seat
    BY <1>5 DEF Loose
  <2>2. next \in Row /\ next.roster = roster /\ next.journal = rw.journal /\ next.status = rw.status
        /\ next.receipts = rw.receipts /\ next.chat = rw.chat /\ next.reads = rw.reads
    BY <1>1, <1>3, <1>5, <2>1 DEF Row
  <2>. QED
    BY <1>5, <2>2 DEF OwnerStep, StaffStep
<1>6. CASE \E p \in Phones : next = [rw EXCEPT !.waitlist = @ \cup {p}, !.stamp = @ + 1]
  BY <1>1, <1>2, <1>3, <1>6 DEF OwnerStep, StaffStep, Row
<1>. QED
  BY <1>4, <1>5, <1>6

\* What an edit writes was read on a row no journal had, and none has it now.
LEMMA EditWriteKeeps ==
    ASSUME Inv, NEW e \in Editors, EditWrite(e)
    PROVE  Kept
<1>. DEFINE q == edit[e]
<1>0. /\ Sound(row) /\ EditKnows(q) /\ q.pc = "WRITE" /\ UNCHANGED <<req, desk, stray>>
      /\ edit' = [edit EXCEPT ![e] = IdleEdit]
  BY DEF Inv, EditWrite
<1>1. IdleEdit \in EditState /\ EditKnows(IdleEdit)
  BY DEF IdleEdit, EditState, EditKnows
<1>2. CASE row' = row
  BY <1>0, <1>1, <1>2, EditMoves DEF RowStep
<1>3. CASE EditAdmitted(q.seen) /\ row' # row
  <2>1. row.journal = <<>> /\ q.seen.journal = <<>>
    BY <1>3 DEF EditAdmitted, Unadopted
  <2>2. \/ \E s \in StaffStatus : row' = [row EXCEPT !.status = s, !.stamp = @ + 1]
        \/ \E roster : Loose(roster) /\ row' = [row EXCEPT !.roster = roster, !.stamp = @ + 1]
    BY <1>0, <1>3, <2>1 DEF EditWrite, EditKnows
  <2>3. RowStep
    BY <1>0, <2>1, <2>2, StaffWrites DEF RowStep
  <2>. QED
    BY <1>0, <1>1, <2>3, EditMoves
<1>. QED
  BY <1>2, <1>3 DEF EditWrite

LEMMA LegacyRegisterKeeps ==
    ASSUME Inv, NEW p \in Phones, LegacyRegister(p)
    PROVE  Kept
<1>0. /\ Sound(row) /\ row.journal = <<>> /\ \A s \in row.roster : s.phone # p
      /\ StrayKnows(stray') /\ UNCHANGED <<req, desk, edit>>
  BY DEF Inv, LegacyRegister, Unadopted
<1>1. Loose(row.roster \cup {StaffSeat(p)})
  BY <1>0, LooseRoster, LooseSeat
<1>2. \/ row' = [row EXCEPT !.roster = row.roster \cup {StaffSeat(p)}, !.stamp = @ + 1]
      \/ row' = [row EXCEPT !.waitlist = @ \cup {p}, !.stamp = @ + 1]
  BY DEF LegacyRegister
<1>3. RowStep
  BY <1>0, <1>1, <1>2, StaffWrites DEF RowStep
<1>. QED
  BY <1>0, <1>3, RowMoves

LEMMA StrayLandsKeeps ==
    ASSUME Inv, StrayLands
    PROVE  Kept
<1>1. RowStep /\ StrayKnows(stray') /\ UNCHANGED <<req, desk, edit>>
  BY DEF Inv, StrayLands, StrayKnows, Preimage, RowStep
<1>. QED
  BY <1>1, RowMoves

LEMMA ChatWritesKeeps ==
    ASSUME Inv, ChatWrites
    PROVE  Kept
<1>1. RowStep /\ StrayKnows(stray') /\ UNCHANGED <<req, desk, edit>>
  BY DEF Inv, ChatWrites, RowStep, OwnerStep, ChatStep
<1>. QED
  BY <1>1, RowMoves

-----------------------------------------------------------------------------
(* The specification.                                                      *)

LEMMA InitInv == Init => Inv
<1>. SUFFICES ASSUME Init PROVE Inv
  OBVIOUS
<1>1. Sound(row)
  BY NewRowSound DEF Init
<1>2. req \in [Requests -> RequestState] /\ \A r \in Requests : RequestKnows(req[r])
  BY IdleState DEF Init
<1>3. IdleDesk \in DeskState /\ DeskKnows(IdleDesk) /\ IdleDesk.pc = "IDLE"
  BY DEF IdleDesk, DeskState, DeskKnows
<1>4. IdleEdit \in EditState /\ EditKnows(IdleEdit)
  BY DEF IdleEdit, EditState, EditKnows
<1>5. StrayKnows(stray)
  BY DEF Init, StrayKnows
<1>6. Told
  BY IdleState, <1>3 DEF Init, Told
<1>. QED
  BY <1>1, <1>2, <1>3, <1>4, <1>5, <1>6 DEF Init, Inv

\* The shapes Next gives the commands of the desk.
LEMMA ShapesOfNext ==
    ASSUME NEW id \in OrganizerIds, NEW a \in Actors, NEW expected \in Expectations
    PROVE  /\ [id |-> id, action |-> "ASSIGN", selected |-> a,
               expected |-> expected] \in CommandShapes
           /\ [id |-> id, action |-> "REVOKE", selected |-> None,
               expected |-> expected] \in CommandShapes
BY TriesAssumption, AbsenceAssumption DEF CommandShapes, Assignment

\* Every step leaves the row alone or is a step of one of its owners.
LEMMA NextKept == Inv /\ [Next]_vars => Kept
<1>. SUFFICES ASSUME Inv, [Next]_vars PROVE Kept
  OBVIOUS
<1>1. CASE UNCHANGED vars
  BY <1>1, RowMoves DEF vars, RowStep, Inv
<1>2. ASSUME NEW r \in Requests,
             \/ \E a \in Actors, p \in Phones, key \in Keys, command \in Commands :
                   Begin(r, a, p, key, command)
             \/ Again(r) \/ Commit(r) \/ Readback(r) \/ Stop(r)
      PROVE  Kept
  BY <1>2, BeginKeeps, AgainKeeps, CommitKeeps, ReadbackKeeps, StopKeeps
<1>3. ASSUME NEW d \in Desks,
             \/ \E id \in OrganizerIds, a \in Actors, expected \in Expectations :
                   \/ Command(d, [id |-> id, action |-> "ASSIGN", selected |-> a,
                                  expected |-> expected])
                   \/ Command(d, [id |-> id, action |-> "REVOKE", selected |-> None,
                                  expected |-> expected])
             \/ CommandCommit(d) \/ CommandReadback(d) \/ CommandStop(d)
      PROVE  Kept
  BY <1>3, ShapesOfNext, CommandKeeps, CommandCommitKeeps, CommandReadbackKeeps,
     CommandStopKeeps
<1>4. ASSUME NEW e \in Editors, EditRead(e) \/ EditWrite(e)
      PROVE  Kept
  BY <1>4, EditReadKeeps, EditWriteKeeps
<1>5. ASSUME NEW p \in Phones, LegacyRegister(p)
      PROVE  Kept
  BY <1>5, LegacyRegisterKeeps
<1>6. CASE StrayLands \/ ChatWrites
  BY <1>6, StrayLandsKeeps, ChatWritesKeeps
<1>. QED
  BY <1>1, <1>2, <1>3, <1>4, <1>5, <1>6 DEF Next

LEMMA Invariance == Spec => []Inv
<1>1. Inv /\ [Next]_vars => Inv'
  BY NextKept DEF Kept
<1>. QED
  BY <1>1, InitInv, PTL DEF Spec

-----------------------------------------------------------------------------
(* The theorems.                                                           *)

\* The row keeps the shape its owners accept and no owner is ever refused its own
\* document (operations, organizerState).
THEOREM TypeCorrect == Spec => []TypeOK
<1>1. Inv => TypeOK
  BY DEF Inv, TypeOK, Sound, Row, JournalSound, OrganizerSound, RequestState, DeskState,
         EditState
<1>. QED
  BY <1>1, Invariance, PTL

\* The roster and the journal tell one story, however many people, phones and
\* handlers there are (commitLocalParticipation).
THEOREM OneStory == Spec => []SeatsMatchJournal
<1>1. Inv => SeatsMatchJournal
  <2>. SUFFICES ASSUME Inv PROVE SeatsMatchJournal
    OBVIOUS
  <2>1. Sound(row)
    BY DEF Inv
  <2>2. \A a \in Actors : Cardinality(ActiveOf(row, a)) =< 1
    BY <2>1, ActiveOnce
  <2>. QED
    BY <2>1, <2>2 DEF SeatsMatchJournal, Sound, SeatsSound, Registered
<1>. QED
  BY <1>1, Invariance, PTL

\* However full the journal and the receipts are, every member can leave and the
\* organizer can be revoked (LOCAL_OPERATION_LIMIT, ORGANIZER_OPERATION_LIMIT).
THEOREM NobodyLockedIn == Spec => []ExitReserved
<1>1. Inv => ExitReserved
  BY ActiveIsCurrent, LeaveFits, RevokeFits DEF Inv, ExitReserved
<1>. QED
  BY <1>1, Invariance, PTL

\* A command is decided once, whatever is retried, lost or late, and the revisions
\* of the organizer form one chain (findOperation, organizerState).
THEOREM DecidedInOrder == Spec => []CommandsDecided
<1>1. Inv => CommandsDecided
  BY DEF Inv, Sound, JournalSound, OrganizerSound, Chained, CommandsDecided, DecidedOnce,
         RevisionsChain
<1>. QED
  BY <1>1, Invariance, PTL

\* Whoever was told an outcome was told the one that is stored, and what is shown
\* of a registration is what the journal says of it (operationView).
THEOREM AnswersTold == Spec => []AnswersTrue
<1>1. Inv => AnswersTrue
  BY ViewIsTrue DEF Inv, Told, AnswersTrue
<1>. QED
  BY <1>1, Invariance, PTL

\* Whoever the row admits to its chat has exactly one read position, and no command
\* that fits its lane is refused for want of one (addPosition, adoptReadState).
THEOREM PositionsComplete == Spec => []PositionsCoverWitnesses
<1>1. Inv => PositionsCoverWitnesses
  BY PositionsCovered, RoomIsThere DEF Inv, PositionsCoverWitnesses
<1>. QED
  BY <1>1, Invariance, PTL

-----------------------------------------------------------------------------
(* What a step may not do, and what the handlers promise.                  *)

\* Once a journal exists only the journal moves a seat, and nobody the status, the
\* waitlist or updatedAt (assertLegacyMutationAllowed).
THEOREM NobodyElseWrites == Spec => JournalOwnsTheRow
<1>1. ASSUME Inv, [Next]_vars
      PROVE  [row.journal # <<>> =>
                /\ row'.roster # row.roster => Len(row'.journal) = Len(row.journal) + 1
                /\ row'.status = row.status
                /\ row'.waitlist = row.waitlist
                /\ row'.stamp = row.stamp]_vars
  <2>1. RowStep /\ Sound(row)
    BY <1>1, NextKept DEF Kept, Inv
  <2>. QED
    BY <2>1, JournalOwns DEF RowStep
<1>. QED
  BY <1>1, Invariance, PTL DEF Spec, JournalOwnsTheRow

DecidedIn(rw) ==
    {[who |-> o.actor, key |-> o.key, outcome |-> o.outcome] : o \in Entries(rw)}
EnrolledIn(rw) == {o.actor : o \in Active(rw)}

\* A member has a seat of his own, so there are no more members than seats.
LEMMA MembersHaveSeats ==
    ASSUME NEW rw, Sound(rw)
    PROVE  /\ Cardinality(EnrolledIn(rw)) =< Cardinality(rw.roster)
           /\ Cardinality(EnrolledIn(rw)) \in Nat /\ Cardinality(rw.roster) \in Nat
<1>. DEFINE owned == {s \in rw.roster : s.by # None}
            f == [s \in owned |-> s.by]
<1>1. owned = {SeatOf(o) : o \in Active(rw)} /\ IsFiniteSet(rw.roster)
  BY DEF Sound, SeatsSound
<1>2. /\ IsFiniteSet(owned) /\ Cardinality(owned) =< Cardinality(rw.roster)
      /\ Cardinality(owned) \in Nat /\ Cardinality(rw.roster) \in Nat
  BY <1>1, FS_Subset, FS_CardinalityType
<1>3. \A o : SeatOf(o).by = o.actor
  BY DEF SeatOf
<1>4. f \in Surjection(owned, EnrolledIn(rw))
  BY <1>1, <1>3 DEF Surjection, EnrolledIn
<1>. HIDE DEF owned, f
<1>5. /\ IsFiniteSet(EnrolledIn(rw))
      /\ Cardinality(EnrolledIn(rw)) =< Cardinality(owned)
  BY <1>2, <1>4, FS_Surjection
<1>6. Cardinality(EnrolledIn(rw)) \in Nat
  BY <1>5, FS_CardinalityType
<1>. QED
  BY <1>2, <1>5, <1>6

\* The decision a step of the journal adds.
LEMMA DecidesOne ==
    ASSUME NEW rw, Sound(rw), NEW next, JournalStep(rw, next)
    PROVE  \E op \in Operation :
              /\ \A e \in DecidedIn(rw) : ~(e.who = op.actor /\ e.key = op.key)
              /\ DecidedIn(next) = DecidedIn(rw)
                     \cup {[who |-> op.actor, key |-> op.key, outcome |-> op.outcome]}
              /\ op.outcome = "REGISTERED" =>
                    /\ op.actor \notin EnrolledIn(rw)
                    /\ Cardinality(EnrolledIn(rw)) < MaxPlayers
                    /\ EnrolledIn(next) = EnrolledIn(rw) \cup {op.actor}
              /\ op.outcome = "LEFT" =>
                    /\ op.actor \in EnrolledIn(rw)
                    /\ EnrolledIn(next) = EnrolledIn(rw) \ {op.actor}
              /\ op.outcome \notin {"REGISTERED", "LEFT"} =>
                    EnrolledIn(next) = EnrolledIn(rw)
<1>1. PICK op \in Operation : Decision(rw, op) /\ next \in Committed(rw, op)
  BY DEF JournalStep
<1>. DEFINE logged == Logged(rw, op)
<1>2. rw \in Row /\ EntrySound(op)
  BY <1>1, DecisionIs DEF Sound
<1>3. Entries(logged) = Entries(rw) \cup {op} /\ next.journal = logged.journal
  BY <1>1, <1>2, LoggedIs, CommittedIs
<1>4. Entries(next) = Entries(logged) /\ Active(next) = Active(logged)
  BY <1>3, SameJournal
<1>5. \A e \in DecidedIn(rw) : ~(e.who = op.actor /\ e.key = op.key)
  BY <1>1, DecisionIs DEF DecidedIn
<1>6. DecidedIn(next) = DecidedIn(rw)
          \cup {[who |-> op.actor, key |-> op.key, outcome |-> op.outcome]}
  BY <1>3, <1>4 DEF DecidedIn
<1>7. ASSUME op.outcome = "REGISTERED"
      PROVE  /\ op.actor \notin EnrolledIn(rw)
             /\ Cardinality(EnrolledIn(rw)) < MaxPlayers
             /\ EnrolledIn(next) = EnrolledIn(rw) \cup {op.actor}
  <2>1. /\ \A o \in Active(rw) : o.actor # op.actor
        /\ ~(Cardinality(rw.roster) >= MaxPlayers)
    BY <1>1, <1>7, DecisionIs
  <2>2. Active(next) = Active(rw) \cup {op}
    BY <1>1, <1>4, <1>7, ActiveAfter
  <2>3. Cardinality(EnrolledIn(rw)) < MaxPlayers
    BY <2>1, MembersHaveSeats, LimitsAssumption
  <2>. QED
    BY <2>1, <2>2, <2>3 DEF EnrolledIn
<1>8. ASSUME op.outcome = "LEFT"
      PROVE  /\ op.actor \in EnrolledIn(rw)
             /\ EnrolledIn(next) = EnrolledIn(rw) \ {op.actor}
  <2>1. PICK o \in Active(rw) : o.actor = op.actor /\ Active(next) = Active(rw) \ {o}
    BY <1>1, <1>4, <1>8, ActiveAfter
  <2>2. \A p \in Active(rw) : p.actor = o.actor => p = o
    BY DEF Sound, SeatsSound
  <2>. QED
    BY <2>1, <2>2 DEF EnrolledIn
<1>9. ASSUME op.outcome \notin {"REGISTERED", "LEFT"}
      PROVE  EnrolledIn(next) = EnrolledIn(rw)
  BY <1>1, <1>4, <1>9, ActiveAfter DEF EnrolledIn
<1>. QED
  BY <1>5, <1>6, <1>7, <1>8, <1>9

\* Enrolment counts as this module does.
LEMMA SameCount == \A S : Promise!Cardinality(S) = Cardinality(S)
BY DEF Promise!Cardinality, Cardinality

\* The owner keeps the promise of Enrolment: a command is decided once and for ever,
\* and whoever is enrolled is so by his last accepted command, within the places.
THEOREM OwnerImplementsEnrolment == Spec => ImplementsEnrolment
<1>1. Init => Promise!Init
  <2>. SUFFICES ASSUME Init PROVE Promise!Init
    OBVIOUS
  <2>1. row.journal = <<>>
    BY DEF Init, NewRow
  <2>. QED
    BY <2>1, NoJournal DEF Promise!Init
<1>2. ASSUME Inv, [Next]_vars
      PROVE  [Promise!Next]_<<DecidedIn(row), EnrolledIn(row)>>
  <2>1. RowStep /\ Sound(row)
    BY <1>2, NextKept DEF Kept, Inv
  <2>2. CASE row'.journal = row.journal
    BY <2>2, SameJournal DEF DecidedIn, EnrolledIn
  <2>3. CASE JournalStep(row, row')
    <3>1. PICK op \in Operation :
              /\ \A e \in DecidedIn(row) : ~(e.who = op.actor /\ e.key = op.key)
              /\ DecidedIn(row') = DecidedIn(row)
                     \cup {[who |-> op.actor, key |-> op.key, outcome |-> op.outcome]}
              /\ op.outcome = "REGISTERED" =>
                    /\ op.actor \notin EnrolledIn(row)
                    /\ Cardinality(EnrolledIn(row)) < MaxPlayers
                    /\ EnrolledIn(row') = EnrolledIn(row) \cup {op.actor}
              /\ op.outcome = "LEFT" =>
                    /\ op.actor \in EnrolledIn(row)
                    /\ EnrolledIn(row') = EnrolledIn(row) \ {op.actor}
              /\ op.outcome \notin {"REGISTERED", "LEFT"} =>
                    EnrolledIn(row') = EnrolledIn(row)
      BY <2>1, <2>3, DecidesOne
    <3>2. op.actor \in Actors /\ op.key \in Keys /\ op.outcome \in Outcomes
      BY DEF Operation
    <3>3. Promise!Decide(op.actor, op.key, op.outcome)
      BY <3>1 DEF Promise!Decide, DecidedIn
    <3>4. DecidedIn(row') # DecidedIn(row)
      <4>. DEFINE e == [who |-> op.actor, key |-> op.key, outcome |-> op.outcome]
      <4>1. e \in DecidedIn(row') /\ e.who = op.actor /\ e.key = op.key
        BY <3>1
      <4>. HIDE DEF e
      <4>. QED
        BY <3>1, <4>1
    <3>5. Promise!Enrol(op.actor) \/ Promise!Withdraw(op.actor) \/ Promise!Refuse(op.actor)
      <4>1. CASE op.outcome = "REGISTERED"
        <5>1. \E k \in Keys : Promise!Decide(op.actor, k, "REGISTERED")
          BY <3>2, <3>3, <4>1
        <5>2. /\ op.actor \notin {o.actor : o \in Active(row)}
              /\ Cardinality({o.actor : o \in Active(row)}) < MaxPlayers
              /\ {o.actor : o \in Active(row')} =
                     {o.actor : o \in Active(row)} \cup {op.actor}
          BY <3>1, <4>1 DEF EnrolledIn
        <5>. QED
          BY <5>1, <5>2, SameCount DEF Promise!Enrol
      <4>2. CASE op.outcome = "LEFT"
        BY <3>1, <3>2, <3>3, <4>2 DEF Promise!Withdraw, EnrolledIn
      <4>3. CASE op.outcome \notin {"REGISTERED", "LEFT"}
        <5>1. op.outcome \in Promise!Refusals
          BY <3>2, <4>3 DEF Outcomes, Promise!Refusals
        <5>. QED
          BY <3>1, <3>2, <3>3, <4>3, <5>1 DEF Promise!Refuse, EnrolledIn
      <4>. QED
        BY <4>1, <4>2, <4>3
    <3>. QED
      BY <3>2, <3>4, <3>5 DEF Promise!Next, DecidedIn
  <2>4. OwnerStep(row, row') => JournalStep(row, row') \/ row'.journal = row.journal
    BY <2>1, OnlyTheJournal
  <2>. QED
    BY <2>1, <2>2, <2>3, <2>4 DEF RowStep
<1>3. <<DecidedIn(row), EnrolledIn(row)>> =
          <<{[who |-> o.actor, key |-> o.key, outcome |-> o.outcome] : o \in Entries(row)},
            {o.actor : o \in Active(row)}>>
  BY DEF DecidedIn, EnrolledIn
<1>. QED
  BY <1>1, <1>2, Invariance, PTL DEF Spec, ImplementsEnrolment, Promise!Spec, DecidedIn, EnrolledIn
-----------------------------------------------------------------------------
(* What the chat sees of the owners.                                       *)

\* The chat asks the row for its stream, its read positions and who may act in it.
LooksLike(next, rw) ==
    /\ next.chat = rw.chat /\ next.reads = rw.reads
    /\ \A a, kind : Witnesses(next, a, kind) = Witnesses(rw, a, kind)

\* The one-update steps TournamentChat has for the other owners, and its own.
ChatMeets(rw, next) ==
    \/ LooksLike(next, rw)
    \/ \E a \in Actors, k \in Keys :
          \/ \E p \in Phones : next \in AfterJoin(rw, a, p, k)
          \/ next \in AfterLeave(rw, a, k)
    \/ \E id \in OrganizerIds, selected \in Actors \cup {None} :
          next \in AfterCommand(rw, id, selected)
    \/ \E edited \in AfterEdit(rw) : LooksLike(next, edited)
    \/ ChatStep(rw, next)

\* Access follows the journal, the seats, the receipts and the status.
LEMMA SameAccess ==
    ASSUME NEW rw, NEW next, Active(next) = Active(rw),
           next.status = rw.status, next.roster = rw.roster,
           Selected(next) = Selected(rw), Revision(next) = Revision(rw)
    PROVE  \A a, kind : Witnesses(next, a, kind) = Witnesses(rw, a, kind)
<1>1. \A a : ActiveOf(next, a) = ActiveOf(rw, a)
  BY DEF ActiveOf
<1>2. \A o : Current(next, o) <=> Current(rw, o)
  BY DEF Current, Candidates
<1>3. ASSUME NEW a
      PROVE  {Participant(o) : o \in {j \in ActiveOf(next, a) : Current(next, j)}}
                 = {Participant(o) : o \in {j \in ActiveOf(rw, a) : Current(rw, j)}}
  BY <1>1, <1>2
<1>. QED
  BY <1>1, <1>3 DEF Witnesses

LEMMA JournalMet ==
    ASSUME NEW rw, Sound(rw), NEW next, JournalStep(rw, next)
    PROVE  ChatMeets(rw, next)
<1>1. PICK op \in Operation : Decision(rw, op) /\ next \in Committed(rw, op)
  BY DEF JournalStep
<1>2. rw \in Row /\ EntrySound(op)
  BY <1>1, DecisionIs DEF Sound
<1>3. CASE op.outcome = "REGISTERED"
  <2>1. op.command = Join
    BY <1>1, <1>3, DecisionIs
  <2>2. \A o \in Registered(rw), k \in Keys : op # LeaveOperation(rw, o, k)
    BY <2>1, LeaveIsNotJoin DEF LeaveOperation
  <2>3. PICK a \in Actors, p \in Phones, k \in Keys : op = JoinOperation(rw, a, p, k)
    BY <1>1, <2>2 DEF Decision
  <2>4. op.actor = a /\ op.key = k
    BY <2>3 DEF JoinOperation
  <2>5. FreshKey(rw, a, k) /\ rw.status \in OpenStatuses /\ Fits(rw, op)
    BY <1>1, <2>1, <2>4 DEF Decision, FreshKey
  <2>6. next \in AfterJoin(rw, a, p, k)
    BY <1>1, <1>3, <2>3, <2>5 DEF AfterJoin
  <2>. QED
    BY <2>6 DEF ChatMeets
<1>4. CASE op.outcome = "LEFT"
  <2>1. \A a, p, k : op # JoinOperation(rw, a, p, k)
    BY <1>4 DEF JoinOperation, JoinOutcome
  <2>2. PICK o \in Registered(rw), k \in Keys : op = LeaveOperation(rw, o, k)
    BY <1>1, <2>1 DEF Decision
  <2>3. op.actor = o.actor /\ op.key = k /\ ~Departed(rw, o)
    BY <1>4, <2>2 DEF LeaveOperation
  <2>4. o \in ActiveOf(rw, o.actor)
    BY <2>2, <2>3 DEF ActiveOf, Active, Registered
  <2>5. FreshKey(rw, o.actor, k)
    BY <1>1, <2>3 DEF Decision, FreshKey
  <2>6. next \in AfterLeave(rw, o.actor, k)
    BY <1>1, <2>2, <2>4, <2>5 DEF AfterLeave
  <2>7. o.actor \in Actors
    BY <2>3 DEF Operation
  <2>. QED
    BY <2>6, <2>7 DEF ChatMeets
<1>5. CASE op.outcome \notin {"REGISTERED", "LEFT"}
  <2>1. /\ next.journal = Logged(rw, op).journal /\ next.receipts = rw.receipts
        /\ next.chat = rw.chat /\ next.status = rw.status
        /\ next.roster = rw.roster /\ next.reads = rw.reads
    BY <1>1, <1>2, <1>5, CommittedIs
  <2>2. Active(next) = Active(rw)
    <3>1. Active(Logged(rw, op)) = Active(rw)
      BY <1>1, <1>5, ActiveAfter
    <3>. QED
      BY <2>1, <3>1, SameJournal
  <2>3. Selected(next) = Selected(rw) /\ Revision(next) = Revision(rw)
    BY <2>1 DEF Selected, Revision
  <2>. QED
    BY <2>1, <2>2, <2>3, SameAccess DEF ChatMeets, LooksLike
<1>. QED
  BY <1>3, <1>4, <1>5

LEMMA CommandMet ==
    ASSUME NEW rw, Sound(rw), NEW next, OrganizerStep(rw, next)
    PROVE  ChatMeets(rw, next)
<1>1. PICK command \in CommandShapes :
          /\ ReceiptsOf(rw, command.id) = {}
          /\ OrganizerFits(rw, OrganizerReceipt(rw, command))
          /\ command.action = "REVOKE" => rw.receipts # <<>>
          /\ next \in Assigned(rw, OrganizerReceipt(rw, command))
  BY DEF OrganizerStep
<1>2. /\ command \in Assignment /\ (command.action = "ASSIGN" <=> command.selected # None)
      /\ OrganizerReceipt(rw, command) \in Receipt /\ rw \in Row
  BY ReceiptTyped DEF CommandShapes, Sound
<1>3. CASE command.expected = Revision(rw)
  <2>. DEFINE same == [id |-> command.id, expected |-> Revision(rw),
                       selected |-> command.selected,
                       action |-> IF command.selected = None THEN "REVOKE" ELSE "ASSIGN"]
  <2>1. command = same
    BY <1>2, <1>3 DEF Assignment
  <2>2. command.selected = None => rw.receipts # <<>>
    BY <1>1, <1>2 DEF Assignment
  <2>3. next \in AfterCommand(rw, command.id, command.selected)
    BY <1>1, <2>1, <2>2 DEF AfterCommand
  <2>4. command.id \in OrganizerIds /\ command.selected \in Actors \cup {None}
    BY <1>2 DEF Assignment
  <2>. QED
    BY <2>3, <2>4 DEF ChatMeets
<1>4. CASE command.expected # Revision(rw)
  <2>1. PICK receipt \in Receipt : receipt = OrganizerReceipt(rw, command)
    BY <1>2
  <2>2. /\ receipt.outcome = "REJECTED" /\ receipt.revision = Revision(rw)
        /\ receipt.selected = Selected(rw)
    BY <1>4, <2>1 DEF OrganizerReceipt
  <2>3. PICK added : added = [rw EXCEPT !.receipts = Append(@, receipt)]
    OBVIOUS
  <2>4. next = added
    BY <1>1, <2>1, <2>2, <2>3 DEF Assigned
  <2>5. /\ Revision(added) = Revision(rw) /\ Selected(added) = Selected(rw)
        /\ added.journal = rw.journal /\ added.roster = rw.roster
        /\ added.chat = rw.chat /\ added.reads = rw.reads /\ added.status = rw.status
    BY <1>2, <2>2, <2>3, ReceiptAdded
  <2>6. Active(next) = Active(rw)
    BY <2>4, <2>5, SameJournal
  <2>. QED
    BY <2>4, <2>5, <2>6, SameAccess DEF ChatMeets, LooksLike
<1>. QED
  BY <1>3, <1>4

\* Without a journal nobody is in by a seat, so that of what staff write the chat
\* sees the status.
LEMMA StaffMet ==
    ASSUME NEW rw, Sound(rw), NEW next, StaffStep(rw, next)
    PROVE  ChatMeets(rw, next)
<1>1. /\ rw.journal = <<>> /\ next.journal = <<>> /\ next.receipts = rw.receipts
      /\ next.chat = rw.chat /\ next.reads = rw.reads
      /\ next.status \in StaffStatus \cup {rw.status}
  BY DEF StaffStep
<1>2. ASSUME NEW x, x.journal = <<>>, x.receipts = rw.receipts, x.status = next.status
      PROVE  \A a, kind : Witnesses(next, a, kind) = Witnesses(x, a, kind)
  <2>1. Active(next) = {} /\ Active(x) = {}
    BY <1>1, <1>2, NoJournal
  <2>2. \A a : ActiveOf(next, a) = {} /\ ActiveOf(x, a) = {}
    BY <2>1 DEF ActiveOf
  <2>3. Selected(next) = Selected(x) /\ Revision(next) = Revision(x)
    BY <1>1, <1>2 DEF Selected, Revision
  <2>. QED
    BY <1>2, <2>2, <2>3 DEF Witnesses
<1>3. CASE next.status = rw.status
  BY <1>1, <1>2, <1>3 DEF ChatMeets, LooksLike
<1>4. CASE next.status # rw.status
  <2>1. PICK s \in StaffStatus \ {rw.status} : s = next.status
    BY <1>1, <1>4
  <2>2. PICK edited : edited = [rw EXCEPT !.status = s]
    OBVIOUS
  <2>3. edited \in AfterEdit(rw)
    BY <1>1, <2>2 DEF AfterEdit
  <2>4. /\ edited.journal = <<>> /\ edited.receipts = rw.receipts
        /\ edited.status = next.status /\ edited.chat = rw.chat /\ edited.reads = rw.reads
    BY <1>1, <2>1, <2>2 DEF Sound, Row
  <2>5. LooksLike(next, edited)
    BY <1>1, <1>2, <2>4 DEF LooksLike
  <2>. QED
    BY <2>3, <2>5 DEF ChatMeets
<1>. QED
  BY <1>3, <1>4

\* TournamentChat and ChatReads take the other owners of the row one whole update
\* at a time. They miss nothing: whatever the handlers, their retries and the
\* writes left behind do, the row the chat reads moves by one of those updates, or
\* the chat cannot tell that it moved (commitLocalParticipation,
\* commitOrganizerAssignment, updateCustomTournament, appendPublicParticipantIfCapacity).
THEOREM OwnersAreAsTheChatMeetsThem == Spec => [][ChatMeets(row, row')]_vars
<1>1. ASSUME Inv, [Next]_vars
      PROVE  [ChatMeets(row, row')]_vars
  <2>1. RowStep /\ Sound(row)
    BY <1>1, NextKept DEF Kept, Inv
  <2>2. CASE row' = row
    BY <2>2 DEF ChatMeets, LooksLike
  <2>3. CASE OwnerStep(row, row')
    BY <2>1, <2>3, JournalMet, CommandMet, StaffMet DEF OwnerStep, ChatMeets
  <2>. QED
    BY <2>1, <2>2, <2>3 DEF RowStep
<1>. QED
  BY <1>1, Invariance, PTL DEF Spec
=============================================================================
