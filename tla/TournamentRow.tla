--------------------------- MODULE TournamentRow ---------------------------
(***************************************************************************)
(* The document of a LOCAL_ONLY tournament and the pure rules its owners   *)
(* share.  Four writers meet in this one row: the journal of local JOIN    *)
(* and LEAVE operations, the organizer assignment, the chat stream and the *)
(* read positions.  Each of them reads the whole row, computes the next    *)
(* one and replaces it only if the stored row still equals what it read    *)
(* ($$ROOT compared with the preimage).                                    *)
(***************************************************************************)
EXTENDS Integers, Sequences, FiniteSets, SequencesExt

CONSTANTS
    Actors,          \* verified people: an LK2 user and his provider client
    Phones,          \* normalised phones
    Keys,            \* idempotency keys, scoped by the actor
    OrganizerIds,    \* operation ids of organizer commands
    MaxPlayers,      \* maxPlayers of the tournament
    Guests,          \* phones seated before a private owner first meets the row
    JournalLimit,    \* LOCAL_OPERATION_LIMIT (512)
    OrganizerLimit,  \* ORGANIZER_OPERATION_LIMIT (128)
    PositionLimit,   \* READ_POSITION_LIMIT (640)
    StaffStatus,     \* statuses a staff edit may write
    None             \* absence of a key, an actor or a seat's generation

ASSUME ActorsAssumption ==
    IsFiniteSet(Actors) /\ IsFiniteSet(Phones) /\ IsFiniteSet(Keys)
ASSUME LimitsAssumption ==
    /\ MaxPlayers \in Nat \ {0, 1} /\ JournalLimit \in Nat
    /\ Guests \subseteq Phones /\ Cardinality(Guests) =< MaxPlayers
    /\ OrganizerLimit \in Nat /\ PositionLimit \in Nat
    /\ JournalLimit + OrganizerLimit =< PositionLimit
ASSUME AbsenceAssumption == None \notin Actors \cup Keys

-----------------------------------------------------------------------------
(* The journal of local operations.                                        *)

Join == [action |-> "JOIN", original |-> None]
Leave(key) == [action |-> "LEAVE", original |-> key]
Commands == {Join} \cup {Leave(k) : k \in Keys}
Outcomes == {"REGISTERED", "LEFT", "MEMBERSHIP_EXISTS", "FULL",
             "GENERATION_NOT_CURRENT"}

\* The operation id is derived from the actor and the key; the generation of a
\* registration is the id of the JOIN that made it.
Operation ==
    [actor : Actors, key : Keys, phone : Phones, command : Commands,
     outcome : Outcomes, gen : Keys \cup {None}]

\* A seat carries the generation that made it, None for a seat made by a
\* writer that is not the journal.
Seat == [phone : Phones, by : Actors \cup {None}, gen : Keys \cup {None}]

Entries(rw) == ToSet(rw.journal)
Departed(rw, o) ==
    \E l \in Entries(rw) :
        l.outcome = "LEFT" /\ l.actor = o.actor /\ l.gen = o.gen
Active(rw) ==
    {o \in Entries(rw) : o.outcome = "REGISTERED" /\ ~Departed(rw, o)}
ActiveOf(rw, a) == {o \in Active(rw) : o.actor = a}

StaffSeat(p) == [phone |-> p, by |-> None, gen |-> None]
SeatOf(o) == [phone |-> o.phone, by |-> o.actor, gen |-> o.gen]
\* Participants a generation or its phone could mean; it is current when the
\* only one is its own seat.
Candidates(rw, o) ==
    {s \in rw.roster : s.phone = o.phone \/ (s.by = o.actor /\ s.gen = o.gen)}
Current(rw, o) == Candidates(rw, o) = {SeatOf(o)}

OpenStatuses == {"PLANNED", "REGISTRATION", "RUNNING"}
Statuses == OpenStatuses \cup {"FINISHED", "CANCELED"}
ASSUME StatusAssumption == StaffStatus \subseteq Statuses

\* Variant: off by one at the last place.
JoinOutcomeOver(rw, a, p) ==
    IF \/ ActiveOf(rw, a) # {}
       \/ \E s \in rw.roster : s.phone = p
       \/ p \in rw.waitlist
    THEN "MEMBERSHIP_EXISTS"
    ELSE IF Cardinality(rw.roster) > MaxPlayers THEN "FULL" ELSE "REGISTERED"

JoinOutcome(rw, a, p) ==
    IF \/ ActiveOf(rw, a) # {}
       \/ \E s \in rw.roster : s.phone = p
       \/ p \in rw.waitlist
    THEN "MEMBERSHIP_EXISTS"
    ELSE IF Cardinality(rw.roster) >= MaxPlayers THEN "FULL" ELSE "REGISTERED"

JoinOperation(rw, a, p, key) ==
    LET outcome == JoinOutcome(rw, a, p) IN
    [actor |-> a, key |-> key, phone |-> p, command |-> Join, outcome |-> outcome,
     gen |-> IF outcome = "REGISTERED" THEN key ELSE None]

\* The receipt of a LEAVE keeps the phone of the original JOIN, also when the
\* actor has another phone by now.
LeaveOperation(rw, original, key) ==
    LET left == Current(rw, original) /\ ~Departed(rw, original) IN
    [actor |-> original.actor, key |-> key, phone |-> original.phone,
     command |-> Leave(original.key),
     outcome |-> IF left THEN "LEFT" ELSE "GENERATION_NOT_CURRENT",
     gen |-> IF left THEN original.gen ELSE None]

Originals(rw, a, command) ==
    {o \in Entries(rw) : /\ o.actor = a /\ o.key = command.original
                         /\ o.command = Join /\ o.outcome = "REGISTERED"}

Logged(rw, op) == [rw EXCEPT !.journal = Append(@, op)]

\* Variant: no slot is kept for the LEAVE of the members there are.
FitsUnreserved(rw, op) == Len(rw.journal) + 1 =< JournalLimit
\* Variant: the entry itself is not counted.
FitsUncounted(rw, op) ==
    Len(rw.journal) + Cardinality(Active(Logged(rw, op))) =< JournalLimit
\* Every registration not yet left keeps one slot for its LEAVE.
Fits(rw, op) ==
    Len(rw.journal) + 1 + Cardinality(Active(Logged(rw, op))) =< JournalLimit

\* What operationView presents as the registration of an operation.
View(rw, op) ==
    LET original == [op EXCEPT !.gen = IF op.command = Join THEN op.key
                                       ELSE op.command.original] IN
    IF rw.status \in OpenStatuses /\ Current(rw, original) THEN "REGISTERED"
    ELSE IF Candidates(rw, original) = {} THEN "NOT_REGISTERED_BY_OPERATION"
    ELSE "UNKNOWN"

-----------------------------------------------------------------------------
(* The organizer assignment.                                               *)

Assignment ==
    [id : OrganizerIds, action : {"ASSIGN", "REVOKE"},
     selected : Actors \cup {None}, expected : Nat]
Receipt ==
    [command : Assignment, outcome : {"ASSIGNED", "REVOKED", "REJECTED"},
     revision : Nat, selected : Actors \cup {None}]

Revision(rw) == IF rw.receipts = <<>> THEN 0 ELSE Last(rw.receipts).revision
Selected(rw) == IF rw.receipts = <<>> THEN None ELSE Last(rw.receipts).selected
\* Variant: only the receipts that changed something are looked up.
EffectiveReceiptsOf(rw, id) ==
    {r \in ToSet(rw.receipts) : r.command.id = id /\ r.outcome # "REJECTED"}
ReceiptsOf(rw, id) == {r \in ToSet(rw.receipts) : r.command.id = id}

OrganizerReceipt(rw, command) ==
    LET stale == command.expected # Revision(rw) IN
    [command |-> command,
     outcome |-> IF stale THEN "REJECTED"
                 ELSE IF command.action = "ASSIGN" THEN "ASSIGNED" ELSE "REVOKED",
     revision |-> IF stale THEN Revision(rw) ELSE Revision(rw) + 1,
     selected |-> IF stale THEN Selected(rw) ELSE command.selected]

\* Variant: no slot is kept for the REVOKE of the organizer there is.
OrganizerFitsUnreserved(rw, receipt) == Len(rw.receipts) + 1 =< OrganizerLimit
OrganizerFits(rw, receipt) ==
    Len(rw.receipts) + 1 + (IF receipt.selected = None THEN 0 ELSE 1)
        =< OrganizerLimit

-----------------------------------------------------------------------------
(* Who a row lets into its chat, and the read positions.                   *)

\* A witness is the exact authority somebody acts with: the generation of his
\* registration, or the revision that made him organizer.
Participant(o) == [kind |-> "PARTICIPANT", by |-> o.actor, at |-> o.gen]
Organizer(a, revision) == [kind |-> "ORGANIZER", by |-> a, at |-> revision]

\* currentWitness: the set is empty when access is denied.
Witnesses(rw, a, kind) ==
    IF rw.status = "CANCELED" THEN {}
    ELSE IF ActiveOf(rw, a) # {} /\ kind # "ORGANIZER"
    THEN {Participant(o) : o \in {j \in ActiveOf(rw, a) : Current(rw, j)}}
    ELSE IF Selected(rw) = a THEN {Organizer(a, Revision(rw))} ELSE {}

NoChat == [adopted |-> FALSE, allocated |-> 0, published |-> 0, pending |-> <<>>]
NoReads == [adopted |-> FALSE, positions |-> {}, pending |-> <<>>]

NewPosition(w, frontier) == [witness |-> w, baseline |-> frontier, through |-> frontier]

\* adoptReadState: every current witness starts at the frontier.
AdoptedPositions(rw) ==
    {NewPosition(Participant(o), rw.chat.published) : o \in Active(rw)}
    \cup (IF Selected(rw) = None THEN {}
          ELSE {NewPosition(Organizer(Selected(rw), Revision(rw)), rw.chat.published)})

\* Variant: the organizer is forgotten.
AdoptedMembers(rw) ==
    [rw EXCEPT !.chat.adopted = TRUE,
               !.reads = [NoReads EXCEPT !.adopted = TRUE,
                   !.positions = {NewPosition(Participant(o), rw.chat.published) :
                                     o \in Active(rw)}]]
\* Adoption creates the stream and, in the same update, the read positions.
Adopted(rw) ==
    [rw EXCEPT !.chat.adopted = TRUE,
               !.reads = [NoReads EXCEPT !.adopted = TRUE,
                                         !.positions = AdoptedPositions(rw)]]

\* addPosition, when a read state exists: it refuses a witness it already has.
CanEnrol(rw, w) ==
    rw.reads.adopted =>
        /\ Cardinality(rw.reads.positions) < PositionLimit
        /\ \A p \in rw.reads.positions : p.witness # w
Enrol(rw, w) ==
    IF rw.reads.adopted
    THEN [rw EXCEPT !.reads.positions =
            @ \cup {NewPosition(w, rw.chat.published)}]
    ELSE rw

\* The rows commitLocalParticipation and commitOrganizerAssignment write; there
\* is none when the read position cannot be added.
Committed(rw, op) ==
    LET next == CASE op.outcome = "REGISTERED" ->
                       [Logged(rw, op) EXCEPT !.roster = @ \cup {SeatOf(op)}]
                  [] op.outcome = "LEFT" ->
                       [Logged(rw, op) EXCEPT !.roster =
                          {s \in @ : ~(s.by = op.actor /\ s.gen = op.gen)}]
                  [] OTHER -> Logged(rw, op)
    IN  IF op.outcome # "REGISTERED" THEN {next}
        ELSE IF CanEnrol(rw, Participant(op)) THEN {Enrol(next, Participant(op))}
        ELSE {}

Assigned(rw, receipt) ==
    LET next == [rw EXCEPT !.receipts = Append(@, receipt)]
        w == Organizer(receipt.selected, receipt.revision)
    IN  IF receipt.outcome # "ASSIGNED" THEN {next}
        ELSE IF CanEnrol(rw, w) THEN {Enrol(next, w)} ELSE {}

-----------------------------------------------------------------------------
(* One whole update of the row by the journal or the organizer commands,   *)
(* as its other owners meet it (LocalOwner takes them apart).              *)

FreshKey(rw, a, k) == \A o \in Entries(rw) : o.actor = a => o.key # k

AfterJoin(rw, a, p, k) ==
    LET op == JoinOperation(rw, a, p, k) IN
    IF /\ FreshKey(rw, a, k) /\ rw.status \in OpenStatuses
       /\ op.outcome = "REGISTERED" /\ Fits(rw, op)
    THEN Committed(rw, op) ELSE {}

AfterLeave(rw, a, k) ==
    IF FreshKey(rw, a, k)
    THEN UNION {Committed(rw, LeaveOperation(rw, o, k)) : o \in ActiveOf(rw, a)}
    ELSE {}

AfterCommand(rw, id, selected) ==
    LET command == [id |-> id, expected |-> Revision(rw), selected |-> selected,
                    action |-> IF selected = None THEN "REVOKE" ELSE "ASSIGN"]
        receipt == OrganizerReceipt(rw, command)
    IN  IF /\ ReceiptsOf(rw, id) = {} /\ OrganizerFits(rw, receipt)
           /\ selected = None => rw.receipts # <<>>
        THEN Assigned(rw, receipt) ELSE {}

\* A generic edit may still cancel a tournament that has no journal, or open it
\* again.
AfterEdit(rw) ==
    IF rw.journal = <<>>
    THEN {[rw EXCEPT !.status = s] : s \in StaffStatus \ {rw.status}} ELSE {}

-----------------------------------------------------------------------------
\* A published tournament no private owner has adopted.
NewRow ==
    [status |-> "REGISTRATION", roster |-> {StaffSeat(p) : p \in Guests}, waitlist |-> {}, journal |-> <<>>,
     receipts |-> <<>>, chat |-> NoChat, reads |-> NoReads, stamp |-> 0]

\* What exactPosition relies on: every authority the row recognises has exactly
\* one position, which started no later than the frontier and never passed it.
PositionsCover(rw) ==
    rw.reads.adopted =>
        /\ \A a \in Actors, kind \in {"PARTICIPANT", "ORGANIZER"} :
              \A w \in Witnesses(rw, a, kind) :
                  Cardinality({p \in rw.reads.positions : p.witness = w}) = 1
        /\ \A p \in rw.reads.positions :
              p.baseline =< p.through /\ p.through =< rw.chat.published
        /\ Cardinality(rw.reads.positions) =< PositionLimit

\* Whatever the journal and the receipts still have a slot for gets its position:
\* addPosition refuses neither the generation of a JOIN under a new key nor the
\* organizer of the next revision, so a committed command never fails on it.
RoomToEnrol(rw) ==
    rw.reads.adopted =>
        /\ Len(rw.journal) < JournalLimit =>
              \A a \in Actors, k \in Keys :
                  FreshKey(rw, a, k) => CanEnrol(rw, Participant([actor |-> a, gen |-> k]))
        /\ Len(rw.receipts) < OrganizerLimit =>
              \A a \in Actors : CanEnrol(rw, Organizer(a, Revision(rw) + 1))

\* The barrier of the legacy writers: none of the private owners has the row.
Unadopted(rw) ==
    /\ rw.journal = <<>> /\ rw.receipts = <<>>
    /\ ~rw.chat.adopted /\ ~rw.reads.adopted
=============================================================================
