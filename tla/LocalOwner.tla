----------------------------- MODULE LocalOwner -----------------------------
(***************************************************************************)
(* The private owners of a LOCAL_ONLY tournament at work on its row:       *)
(* requests that run executeLocalTournamentOperation, staff requests that  *)
(* run the organizer command, generic staff edits and the legacy public    *)
(* registration that must stay out once an owner has the row.  A handler   *)
(* is cut at its awaits; a database write may be executed with its         *)
(* acknowledgement lost, not executed, or executed after its sender gave   *)
(* up.                                                                     *)
(***************************************************************************)
EXTENDS TournamentRow

CONSTANTS
    Requests,     \* local operations that may be running at once
    Desks,        \* organizer commands that may be running at once
    Editors,      \* generic staff edits that may be running at once
    PhonesOf,     \* the phones an actor may be verified with
    Expectations, \* revisions an organizer command may expect
    MaxTries,     \* attempts of one local operation (3)
    MaxStamp,     \* bound on the legacy and staff writes
    MaxPublished  \* bound on the messages the chat publishes

ASSUME PhonesOfAssumption == PhonesOf \in [Actors -> SUBSET Phones]
ASSUME TriesAssumption ==
    MaxTries \in Nat \ {0} /\ Expectations \subseteq Nat /\ MaxStamp \in Nat
    /\ MaxPublished \in Nat

VARIABLES
    row,    \* the stored document
    req,    \* local state of the local operations
    desk,   \* local state of the organizer commands
    edit,   \* local state of the staff edits
    stray   \* a write its sender gave up on and the database may still execute

vars == <<row, req, desk, edit, stray>>

Idle == [pc |-> "IDLE", actor |-> None, phone |-> None, key |-> None,
         command |-> None, tries |-> 0, seen |-> None, op |-> None]
IdleDesk == [pc |-> "IDLE", command |-> None, seen |-> None, receipt |-> None]
IdleEdit == [pc |-> "IDLE", seen |-> None, field |-> None, value |-> None]

Init ==
    /\ row = NewRow
    /\ req = [r \in Requests |-> Idle]
    /\ desk = [d \in Desks |-> IdleDesk]
    /\ edit = [e \in Editors |-> IdleEdit]
    /\ stray = None

-----------------------------------------------------------------------------
(* Writing the row.                                                        *)

\* $$ROOT equals the preimage the writer read.
Preimage(seen) == row = seen

\* The update is executed; it is not and may never be; or it is still on its
\* way when its sender stops waiting.
Executed(seen, next) == Preimage(seen) /\ row' = next /\ UNCHANGED stray
Missed(seen, nexts) == ~(Preimage(seen) /\ nexts # {}) /\ UNCHANGED <<row, stray>>
Interrupted(seen, next) ==
    /\ \/ stray' = stray
       \/ stray = None /\ stray' = [seen |-> seen, next |-> next]
    /\ UNCHANGED row

StrayLands ==
    /\ stray # None
    /\ row' = IF Preimage(stray.seen) THEN stray.next ELSE row
    /\ stray' = None
    /\ UNCHANGED <<req, desk, edit>>

-----------------------------------------------------------------------------
(* JOIN and LEAVE.                                                         *)

Finish(r) == req' = [req EXCEPT ![r] = Idle]
Answer(r, op) ==
    req' = [req EXCEPT ![r] = [Idle EXCEPT !.pc = "ANSWERED", !.op = op]]

Previous(q) == {o \in Entries(row) : o.actor = q.actor /\ o.key = q.key}

\* The actor is registered under another phone than the one verified now.
BindingChanged(q) == \E o \in ActiveOf(row, q.actor) : o.phone # q.phone

\* The operation the row read decides; none when the command is refused with
\* an exception and leaves no receipt.
Decisions(q) ==
    IF q.command = Join
    THEN IF BindingChanged(q) \/ row.status \notin OpenStatuses THEN {}
         ELSE {JoinOperation(row, q.actor, q.phone, q.key)}
    ELSE {LeaveOperation(row, o, q.key) : o \in Originals(row, q.actor, q.command)}

\* Variant: a command is decided again whatever the journal says of its key.
ReplaysNever(q) == FALSE
Replays(q) == Previous(q) # {}

\* One turn of the loop up to the update: a key decided before is answered with
\* what was decided, or refused when the command differs.
Examine(r, q) ==
    \/ /\ Replays(q)
       /\ \E o \in Previous(q) :
             IF o.command = q.command THEN Answer(r, o) ELSE Finish(r)
    \/ /\ ~Replays(q)
       /\ \E op \in Decisions(q) :
             /\ Fits(row, op)
             /\ req' = [req EXCEPT ![r] =
                   [q EXCEPT !.pc = "COMMIT", !.seen = row, !.op = op]]
    \/ /\ ~Replays(q)
       /\ \A op \in Decisions(q) : ~Fits(row, op)
       /\ Finish(r)

Begin(r, a, p, key, command) ==
    /\ req[r] = Idle
    /\ p \in PhonesOf[a]
    /\ Examine(r, [Idle EXCEPT !.actor = a, !.phone = p, !.key = key,
                               !.command = command, !.tries = 1])
    /\ UNCHANGED <<row, desk, edit, stray>>

Again(r) ==
    /\ req[r].pc = "READ"
    /\ Examine(r, req[r])
    /\ UNCHANGED <<row, desk, edit, stray>>

Inquire(r) ==
    req' = [req EXCEPT ![r].pc = "READBACK", ![r].seen = None]

\* A miss is tried again from a fresh read, at most MaxTries times.
Commit(r) ==
    LET q == req[r] IN
    /\ q.pc = "COMMIT"
    /\ \/ \E next \in Committed(q.seen, q.op) :
             \/ /\ Executed(q.seen, next)
                /\ Answer(r, q.op) \/ Inquire(r)
             \/ /\ Interrupted(q.seen, next)
                /\ Inquire(r)
       \/ /\ Missed(q.seen, Committed(q.seen, q.op))
          /\ IF Committed(q.seen, q.op) = {}
             THEN Inquire(r)
             ELSE IF q.tries < MaxTries
             THEN req' = [req EXCEPT ![r].pc = "READ", ![r].tries = @ + 1,
                                     ![r].seen = None, ![r].op = None]
             ELSE Finish(r)
    /\ UNCHANGED <<desk, edit>>

\* Variant: after an exception the attempted operation is taken for granted.
ReadbackAssumed(r) ==
    /\ req[r].pc = "READBACK"
    /\ Answer(r, req[r].op)
    /\ UNCHANGED <<row, desk, edit, stray>>

\* After an exception only the exact operation in the journal counts; anything
\* else is RESULT_UNKNOWN.
Readback(r) ==
    /\ req[r].pc = "READBACK"
    /\ \/ \E o \in Previous(req[r]) : o.command = req[r].command /\ Answer(r, o)
       \/ /\ \A o \in Previous(req[r]) : o.command # req[r].command
          /\ Finish(r)
    /\ UNCHANGED <<row, desk, edit, stray>>

\* The answer has left, or the handler stops before it: an eligibility read
\* that fails, an exception, the end of the process.
Stop(r) ==
    /\ req[r] # Idle
    /\ Finish(r)
    /\ UNCHANGED <<row, desk, edit, stray>>

-----------------------------------------------------------------------------
(* The organizer command: one update, never repeated.                      *)

Confirm(d, receipt) ==
    desk' = [desk EXCEPT ![d] =
        [IdleDesk EXCEPT !.pc = "CONFIRMED", !.receipt = receipt]]
Dismiss(d) == desk' = [desk EXCEPT ![d] = IdleDesk]

\* The lookup of the selected profile comes between this read and the update:
\* one that fails or has too little time left stops the command.
Command(d, command) ==
    LET receipt == OrganizerReceipt(row, command) IN
    /\ desk[d] = IdleDesk
    /\ \/ \E original \in ReceiptsOf(row, command.id) :
             original.command = command /\ Confirm(d, original)
       \/ /\ ReceiptsOf(row, command.id) = {}
          /\ OrganizerFits(row, receipt)
          /\ command.action = "REVOKE" => row.receipts # <<>>
          /\ desk' = [desk EXCEPT ![d] =
                [pc |-> "COMMIT", command |-> command, seen |-> row,
                 receipt |-> receipt]]
    /\ UNCHANGED <<row, req, edit, stray>>

\* The miss covers a proof that expired by the clock of the database.
CommandCommit(d) ==
    LET q == desk[d] IN
    /\ q.pc = "COMMIT"
    /\ \/ \E next \in Assigned(q.seen, q.receipt) :
             Executed(q.seen, next) \/ Interrupted(q.seen, next)
       \/ UNCHANGED <<row, stray>>
    /\ desk' = [desk EXCEPT ![d].pc = "READBACK", ![d].seen = None]
    /\ UNCHANGED <<req, edit>>

CommandReadback(d) ==
    /\ desk[d].pc = "READBACK"
    /\ \/ \E original \in ReceiptsOf(row, desk[d].command.id) :
             original.command = desk[d].command /\ Confirm(d, original)
       \/ /\ \A original \in ReceiptsOf(row, desk[d].command.id) :
                original.command # desk[d].command
          /\ Dismiss(d)
    /\ UNCHANGED <<row, req, edit, stray>>

CommandStop(d) ==
    /\ desk[d] # IdleDesk
    /\ Dismiss(d)
    /\ UNCHANGED <<row, req, edit, stray>>

-----------------------------------------------------------------------------
(* The writers that are not owners.                                        *)

EditRead(e) ==
    /\ edit[e] = IdleEdit
    /\ row.stamp < MaxStamp
    /\ \/ \E s \in StaffStatus \ {row.status} :
             edit' = [edit EXCEPT ![e] =
                [pc |-> "WRITE", seen |-> row, field |-> "status", value |-> s]]
       \/ \E p \in Phones :
             LET without == {s \in row.roster : s.phone # p} IN
             edit' = [edit EXCEPT ![e] =
                [pc |-> "WRITE", seen |-> row, field |-> "roster",
                 value |-> IF without = row.roster
                           THEN row.roster \cup {StaffSeat(p)} ELSE without]]
    /\ UNCHANGED <<row, req, desk, stray>>

\* Variant: the generic edit no longer asks whether a journal has been adopted.
EditAdmittedAlways(seen) == Unadopted(seen) \/ row = seen
\* An edit never touches a row with a journal; a row another owner had adopted
\* when it was read must be unchanged, any other must still be unadopted.
EditAdmitted(seen) ==
    /\ row.journal = <<>>
    /\ IF Unadopted(seen) THEN Unadopted(row) ELSE row = seen

EditWrite(e) ==
    LET q == edit[e] IN
    /\ q.pc = "WRITE"
    /\ IF ~EditAdmitted(q.seen) THEN UNCHANGED row
       ELSE row' = IF q.field = "status"
                   THEN [row EXCEPT !.status = q.value, !.stamp = @ + 1]
                   ELSE [row EXCEPT !.roster = q.value, !.stamp = @ + 1]
    /\ edit' = [edit EXCEPT ![e] = IdleEdit]
    /\ UNCHANGED <<req, desk, stray>>

\* A legacy registration: one guarded update on an unadopted row, to a seat or,
\* when the seats are taken, to the waitlist.
LegacyRegister(p) ==
    /\ Unadopted(row)
    /\ row.status \in OpenStatuses
    /\ \A s \in row.roster : s.phone # p
    /\ p \notin row.waitlist
    /\ row.stamp < MaxStamp
    /\ row' = IF Cardinality(row.roster) < MaxPlayers
              THEN [row EXCEPT !.roster = @ \cup {StaffSeat(p)}, !.stamp = @ + 1]
              ELSE [row EXCEPT !.waitlist = @ \cup {p}, !.stamp = @ + 1]
    /\ UNCHANGED <<req, desk, edit, stray>>

\* The chat owner's updates, one step each: the first sender adopts the stream,
\* later messages move the frontier (TournamentChat has the handlers).
ChatWrites ==
    /\ \/ /\ ~row.chat.adopted
          /\ \E a \in Actors : Witnesses(row, a, "PARTICIPANT") # {}
          /\ row.chat.published < MaxPublished
          /\ row' = Adopted(row)
       \/ /\ row.chat.adopted
          /\ row.chat.published < MaxPublished
          /\ row' = [row EXCEPT !.chat.allocated = @ + 1, !.chat.published = @ + 1]
    /\ UNCHANGED <<req, desk, edit, stray>>

-----------------------------------------------------------------------------
Next ==
    \/ \E r \in Requests :
          \/ \E a \in Actors, p \in Phones, key \in Keys, command \in Commands :
                Begin(r, a, p, key, command)
          \/ Again(r) \/ Commit(r) \/ Readback(r) \/ Stop(r)
    \/ \E d \in Desks :
          \/ \E id \in OrganizerIds, a \in Actors, expected \in Expectations :
                \/ Command(d, [id |-> id, action |-> "ASSIGN", selected |-> a,
                               expected |-> expected])
                \/ Command(d, [id |-> id, action |-> "REVOKE", selected |-> None,
                               expected |-> expected])
          \/ CommandCommit(d) \/ CommandReadback(d) \/ CommandStop(d)
    \/ \E e \in Editors : EditRead(e) \/ EditWrite(e)
    \/ \E p \in Phones : LegacyRegister(p)
    \/ StrayLands \/ ChatWrites

Spec == Init /\ [][Next]_vars

-----------------------------------------------------------------------------
(* Properties.                                                             *)

\* The row has the shape operations() and organizerState() accept, or else every
\* owner refuses it for ever, and the handlers are at one of their steps.
TypeOK ==
    /\ row.status \in Statuses
    /\ row.roster \subseteq Seat
    /\ row.waitlist \subseteq Phones
    /\ row.journal \in Seq(Operation)
    /\ Len(row.journal) + Cardinality(Active(row)) =< JournalLimit
    /\ row.receipts \in Seq(Receipt)
    /\ Len(row.receipts) + (IF Selected(row) = None THEN 0 ELSE 1) =< OrganizerLimit
    /\ row.stamp \in Nat
    /\ \A r \in Requests :
          req[r].pc \in {"IDLE", "READ", "COMMIT", "READBACK", "ANSWERED"}
    /\ \A d \in Desks : desk[d].pc \in {"IDLE", "COMMIT", "READBACK", "CONFIRMED"}
    /\ \A e \in Editors : edit[e].pc \in {"IDLE", "WRITE"}

\* The roster and the journal tell one story: the seats the journal made are
\* exactly those of the generations registered and not left, no person has two
\* of them, no phone has two seats, and registrations never overfill the
\* tournament (executeLocalTournamentOperation, commitLocalParticipation).
SeatsMatchJournal ==
    /\ {s \in row.roster : s.by # None} = {SeatOf(o) : o \in Active(row)}
    /\ \A a \in Actors : Cardinality(ActiveOf(row, a)) =< 1
    /\ \A s, t \in row.roster : s.phone = t.phone => s = t
    /\ (\E o \in Entries(row) : o.outcome = "REGISTERED") =>
          Cardinality(row.roster) =< MaxPlayers

\* Nobody is locked in: however full the journal is, the LEAVE of every member
\* and the REVOKE of the organizer still fit (the reserved slots).
ExitReserved ==
    /\ \A o \in Active(row), k \in Keys :
          Current(row, o) /\ Fits(row, LeaveOperation(row, o, k))
    /\ Selected(row) # None =>
          \A id \in OrganizerIds :
              OrganizerFits(row, OrganizerReceipt(row,
                  [id |-> id, action |-> "REVOKE", selected |-> None,
                   expected |-> Revision(row)]))

\* A command is decided at most once, whatever is retried, lost or late: a key
\* has one operation in the journal and an operation id one organizer receipt.
DecidedOnce ==
    /\ \A i, j \in DOMAIN row.journal :
          /\ row.journal[i].actor = row.journal[j].actor
          /\ row.journal[i].key = row.journal[j].key
          => i = j
    /\ \A i, j \in DOMAIN row.receipts :
          row.receipts[i].command.id = row.receipts[j].command.id => i = j

\* The chain organizerState validates: an effective receipt was decided against
\* the revision just before it and advances it by one, a rejected one changes
\* neither the revision nor the organizer.
RevisionsChain ==
    \A i \in DOMAIN row.receipts :
        LET r == row.receipts[i]
            before == IF i = 1 THEN 0 ELSE row.receipts[i - 1].revision
            organizer == IF i = 1 THEN None ELSE row.receipts[i - 1].selected
        IN  IF r.outcome = "REJECTED"
            THEN /\ r.command.expected # before
                 /\ r.revision = before /\ r.selected = organizer
            ELSE /\ r.command.expected = before
                 /\ r.revision = before + 1 /\ r.selected = r.command.selected

\* The decisions of both lanes: each command once, the staff's in one chain.
CommandsDecided == DecidedOnce /\ RevisionsChain

\* Whoever was told an outcome was told the one in the journal: an answer, also
\* one recovered after a lost acknowledgement, is a stored receipt. And what it
\* shows of the registration never presents a generation that has been left, or was
\* never registered, as the current one, and presents a generation still registered
\* as that while the tournament is open.
AnswersTrue ==
    /\ \A r \in Requests : req[r].pc = "ANSWERED" => req[r].op \in Entries(row)
    /\ \A d \in Desks :
          desk[d].pc = "CONFIRMED" => desk[d].receipt \in ToSet(row.receipts)
    /\ row.status \in OpenStatuses =>
          \A o \in Entries(row) :
              LET own == IF o.command = Join THEN o.key ELSE o.command.original IN
              View(row, o) = "REGISTERED"
                  <=> \E j \in ActiveOf(row, o.actor) : j.key = own /\ j.phone = o.phone

\* Whoever the row admits to its chat, by registration or by assignment, has one
\* read position, whatever order joins, assignments, the adoption of the stream
\* and the frontier came in; and no JOIN or ASSIGN that fits its lane is refused for
\* want of one, though positions outlive the authorities they were made for.
PositionsCoverWitnesses == PositionsCover(row) /\ RoomToEnrol(row)

\* Once a journal exists nobody but the journal moves a seat, and nobody moves
\* the status, the waitlist or updatedAt: every legacy and staff writer is out,
\* also one that read the row before the adoption.
JournalOwnsTheRow ==
    [][row.journal # <<>> =>
          /\ row'.roster # row.roster => Len(row'.journal) = Len(row.journal) + 1
          /\ row'.status = row.status
          /\ row'.waitlist = row.waitlist
          /\ row'.stamp = row.stamp]_vars

\* The owner implements Enrolment.
Promise == INSTANCE Enrolment WITH
    People <- Actors, CommandKeys <- Keys, Places <- MaxPlayers,
    decided <- {[who |-> o.actor, key |-> o.key, outcome |-> o.outcome] :
                   o \in Entries(row)},
    enrolled <- {o.actor : o \in Active(row)}

\* Every step of the handlers decides one command or nothing at all, as the
\* abstract promise does.
ImplementsEnrolment == Promise!Spec
=============================================================================
