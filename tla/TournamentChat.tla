--------------------------- MODULE TournamentChat ---------------------------
(***************************************************************************)
(* Sending to the chat of a LOCAL_ONLY tournament.  A message is first an  *)
(* immutable candidate document; it is accepted by an update of the        *)
(* tournament row that gives it the next sequence, published by an update  *)
(* of its candidate, and made visible by a second update of the row that   *)
(* moves the frontier.  Every update of the row carries the preimage its   *)
(* writer read.  Handlers are cut at their awaits; members join and leave, *)
(* organizers come and go between any two steps.                           *)
(***************************************************************************)
EXTENDS TournamentRow

CONSTANTS
    Messages,      \* request documents: an author and his request id
    Texts,         \* what a request may carry
    AuthorOf,      \* the author of each message
    PhoneOf,       \* the phone of each actor
    Senders,       \* POST and status handlers that may be running at once
    Workers,       \* recovery workers, one per process
    PendingLimit,  \* CHAT_PENDING_LIMIT (64)
    MaxSequence    \* Number.MAX_SAFE_INTEGER

ASSUME ChatAssumption ==
    /\ AuthorOf \in [Messages -> Actors] /\ PhoneOf \in [Actors -> Phones]
    /\ PendingLimit \in Nat /\ MaxSequence \in Nat
    /\ None \notin Messages \cup Texts

VARIABLES
    row,    \* the stored tournament document
    store,  \* the candidate documents
    req,    \* local state of the senders
    work    \* local state of the recovery workers

vars == <<row, store, req, work>>

Witness == [kind : {"PARTICIPANT", "ORGANIZER"}, by : Actors, at : Keys \cup Nat]
NoCandidate == [text |-> None, witness |-> None, publication |-> 0]
Exists(m) == store[m] # NoCandidate

Pending == row.chat.pending
Room(rw) == Len(rw.chat.pending) < PendingLimit
Accepted(rw, m) == \E i \in DOMAIN rw.chat.pending : rw.chat.pending[i].message = m

Idle == [pc |-> "IDLE", message |-> None, text |-> None, publication |-> 0,
         witness |-> None, seen |-> None]
IdleWorker == [pc |-> "IDLE", seen |-> None]

Init ==
    /\ row = NewRow
    /\ store = [m \in Messages |-> NoCandidate]
    /\ req = [r \in Senders |-> Idle]
    /\ work = [w \in Workers |-> IdleWorker]

\* Variant: an update checks only the part of the row it replaces.
PreimageOfChat(seen) == row.chat = seen.chat
\* $$ROOT equals the preimage the writer read.
Preimage(seen) == row = seen

-----------------------------------------------------------------------------
(* POST message-requests.                                                  *)

Goto(r, label) == req' = [req EXCEPT ![r].pc = label]
Finish(r) == req' = [req EXCEPT ![r] = Idle]
Author(r) == AuthorOf[req[r].message]
\* target: the current witness of the author, none when access is denied.
Access(r) == Witnesses(row, Author(r), "ANY")

\* The original request is looked up before anything is made for a new one.
Send(r, m, text) ==
    /\ req[r] = Idle
    /\ Exists(m) => store[m].text = text
    /\ req' = [req EXCEPT ![r] =
          [Idle EXCEPT !.pc = IF Exists(m) THEN "TARGET_KNOWN" ELSE "TARGET",
                       !.message = m, !.text = text,
                       !.publication = store[m].publication]]
    /\ UNCHANGED <<row, store, work>>

\* The row is read for a request that has no candidate yet.
Target(r) ==
    /\ req[r].pc = "TARGET"
    /\ \/ \E w \in Access(r) :
             IF ~row.chat.adopted
             THEN req' = [req EXCEPT ![r].pc = "ADOPT", ![r].seen = row]
             ELSE /\ Room(row)
                  /\ req' = [req EXCEPT ![r].pc = "INSERT", ![r].witness = w]
       \/ /\ Access(r) = {} \/ (row.chat.adopted /\ ~Room(row))
          /\ Finish(r)
    /\ UNCHANGED <<row, store, work>>

TargetKnown(r) ==
    /\ req[r].pc = "TARGET_KNOWN"
    /\ IF Access(r) = {} THEN Finish(r) ELSE Goto(r, "RETARGET")
    /\ UNCHANGED <<row, store, work>>

\* Whether the update was executed is found out by reading the row again: it is
\* TARGET that follows, on a row that somebody has adopted or not at all.
Adopt(r) ==
    /\ req[r].pc = "ADOPT"
    /\ \/ Preimage(req[r].seen) /\ row' = Adopted(row)
       \/ UNCHANGED row
    /\ IF row'.chat.adopted
       THEN req' = [req EXCEPT ![r].pc = "TARGET", ![r].seen = None]
       ELSE Finish(r)
    /\ UNCHANGED <<store, work>>

\* The first document wins and is read back; a request that finds other words
\* under its id is a conflict.
Insert(r) ==
    LET m == req[r].message IN
    /\ req[r].pc = "INSERT"
    /\ \/ /\ ~Exists(m)
          /\ store' = [store EXCEPT ![m] =
                [text |-> req[r].text, witness |-> req[r].witness, publication |-> 0]]
          /\ req' = [req EXCEPT ![r].pc = "RETARGET", ![r].witness = None]
       \/ /\ Exists(m)
          /\ IF store[m].text = req[r].text
             THEN req' = [req EXCEPT ![r].pc = "RETARGET", ![r].witness = None,
                                     ![r].publication = store[m].publication]
             ELSE Finish(r)
          /\ UNCHANGED store
    /\ UNCHANGED <<row, work>>

\* The row is captured after the candidate exists and before it is read again.
Retarget(r) ==
    /\ req[r].pc = "RETARGET"
    /\ IF Access(r) = {} \/ ~row.chat.adopted THEN Finish(r)
       ELSE req' = [req EXCEPT ![r].pc = "REFRESH", ![r].seen = row]
    /\ UNCHANGED <<row, store, work>>

\* The authority the candidate was made with is still the one the row gives.
Entitled(rw, m) ==
    Witnesses(rw, AuthorOf[m], store[m].witness.kind) = {store[m].witness}

\* Variant: the candidate is not read again after the row.
LatestStale(r) == req[r].publication
Latest(r) == store[req[r].message].publication

Refresh(r) ==
    LET q == req[r] IN
    /\ q.pc = "REFRESH"
    /\ IF Accepted(q.seen, q.message) \/ Latest(r) # 0
       THEN req' = [req EXCEPT ![r].pc = "RECOVER", ![r].seen = None]
       ELSE IF /\ Entitled(q.seen, q.message)
               /\ Room(q.seen)
               /\ q.seen.chat.allocated < MaxSequence - 1
            THEN Goto(r, "ACCEPT")
            ELSE Finish(r)
    /\ UNCHANGED <<row, store, work>>

Appended(rw, m) ==
    [rw EXCEPT !.chat.allocated = @ + 1,
               !.chat.pending = Append(@, [message |-> m, sequence |-> rw.chat.allocated + 1])]

Accept(r) ==
    LET q == req[r] IN
    /\ q.pc = "ACCEPT"
    /\ \/ Preimage(q.seen) /\ row' = Appended(row, q.message)
       \/ UNCHANGED row
    /\ req' = [req EXCEPT ![r].pc = "RECOVER", ![r].seen = None]
    /\ UNCHANGED <<store, work>>

-----------------------------------------------------------------------------
(* recoverOne: by the sender after its own acceptance, and by the workers. *)

NextIntent(rw) == rw.chat.pending[1]

\* Variant: the update of the candidate is taken for done.
PublishesNothing(p) == store' = store
\* publish, with its readback: the receipt of a candidate is written once, and
\* the index admits a sequence once.
Publishes(p) ==
    /\ store[p.message].publication = 0 =>
          \A m \in Messages : store[m].publication # p.sequence
    /\ store[p.message].publication \in {0, p.sequence}
    /\ store' = [store EXCEPT ![p.message].publication = p.sequence]

Revealed(rw) ==
    [rw EXCEPT !.chat.published = NextIntent(rw).sequence, !.chat.pending = Tail(@)]

Recover(r) ==
    /\ req[r].pc = "RECOVER"
    /\ IF Pending = <<>> THEN Goto(r, "STATUS")
       ELSE req' = [req EXCEPT ![r].pc = "PUBLISH", ![r].seen = row]
    /\ UNCHANGED <<row, store, work>>

\* A failed publication is swallowed: the status is asked all the same.
PublishOwn(r) ==
    /\ req[r].pc = "PUBLISH"
    /\ \/ Publishes(NextIntent(req[r].seen)) /\ Goto(r, "FRONTIER")
       \/ UNCHANGED store /\ req' = [req EXCEPT ![r].pc = "STATUS", ![r].seen = None]
    /\ UNCHANGED <<row, work>>

FrontierOwn(r) ==
    /\ req[r].pc = "FRONTIER"
    /\ \/ Preimage(req[r].seen) /\ row' = Revealed(row)
       \/ UNCHANGED row
    /\ req' = [req EXCEPT ![r].pc = "STATUS", ![r].seen = None]
    /\ UNCHANGED <<store, work>>

\* Variant: a target with a single pending intent is not listed.
TickBacklog(w) ==
    /\ work[w] = IdleWorker
    /\ Len(Pending) > 1
    /\ work' = [work EXCEPT ![w] = [pc |-> "PUBLISH", seen |-> row]]
    /\ UNCHANGED <<row, store, req>>

\* recoveryTick found the tournament in its list of pending targets.
Tick(w) ==
    /\ work[w] = IdleWorker
    /\ Pending # <<>>
    /\ work' = [work EXCEPT ![w] = [pc |-> "PUBLISH", seen |-> row]]
    /\ UNCHANGED <<row, store, req>>

WorkerPublish(w) ==
    /\ work[w].pc = "PUBLISH"
    /\ Publishes(NextIntent(work[w].seen))
    /\ work' = [work EXCEPT ![w].pc = "FRONTIER"]
    /\ UNCHANGED <<row, req>>

WorkerFrontier(w) ==
    /\ work[w].pc = "FRONTIER"
    /\ Preimage(work[w].seen)
    /\ row' = Revealed(row)
    /\ work' = [work EXCEPT ![w] = IdleWorker]
    /\ UNCHANGED <<store, req>>

\* An update that misses or fails, or the end of the process.
WorkerStop(w) ==
    /\ work[w] # IdleWorker
    /\ work' = [work EXCEPT ![w] = IdleWorker]
    /\ UNCHANGED <<row, store, req>>

-----------------------------------------------------------------------------
(* Status: the tail of a POST, and POST message-requests/read.             *)

AskStatus(r, m) ==
    /\ req[r] = Idle
    /\ req' = [req EXCEPT ![r] = [Idle EXCEPT !.pc = "STATUS", !.message = m]]
    /\ UNCHANGED <<row, store, work>>

StatusTarget(r) ==
    /\ req[r].pc = "STATUS"
    /\ IF Access(r) = {} THEN Finish(r) ELSE Goto(r, "STATUS_REQUEST")
    /\ UNCHANGED <<row, store, work>>

StatusRequest(r) ==
    /\ req[r].pc = "STATUS_REQUEST"
    /\ req' = [req EXCEPT ![r].pc = "STATUS_ANSWER",
                          ![r].publication = store[req[r].message].publication]
    /\ UNCHANGED <<row, store, work>>

\* Variant: the receipt of the candidate is enough.
VisibleEarly(sequence) == sequence # 0
\* CONFIRMED needs the receipt and the frontier, anything else is UNKNOWN.
Visible(sequence) == sequence # 0 /\ sequence =< row.chat.published

StatusAnswer(r) ==
    /\ req[r].pc = "STATUS_ANSWER"
    /\ IF Access(r) # {} /\ Visible(req[r].publication)
       THEN req' = [req EXCEPT ![r].pc = "CONFIRMED", ![r].text = None]
       ELSE Finish(r)
    /\ UNCHANGED <<row, store, work>>

\* The answer has left; or an exception, a proof that expired, a process that
\* ended.
Stop(r) ==
    /\ req[r] # Idle
    /\ Finish(r)
    /\ UNCHANGED <<row, store, work>>

-----------------------------------------------------------------------------
(* The other owners of the row, one update each.                           *)

MemberJoins(a, k) ==
    row' \in AfterJoin(row, a, PhoneOf[a], k) /\ UNCHANGED <<store, req, work>>
MemberLeaves(a, k) ==
    row' \in AfterLeave(row, a, k) /\ UNCHANGED <<store, req, work>>
OrganizerChanges(id, selected) ==
    row' \in AfterCommand(row, id, selected) /\ UNCHANGED <<store, req, work>>
StaffEdits ==
    row' \in AfterEdit(row) /\ UNCHANGED <<store, req, work>>

-----------------------------------------------------------------------------
Environment ==
    \/ \E a \in Actors, k \in Keys : MemberJoins(a, k) \/ MemberLeaves(a, k)
    \/ \E id \in OrganizerIds, selected \in Actors \cup {None} :
          OrganizerChanges(id, selected)
    \/ StaffEdits

Sender(r) ==
    \/ \E m \in Messages : AskStatus(r, m) \/ \E text \in Texts : Send(r, m, text)
    \/ Target(r) \/ TargetKnown(r) \/ Adopt(r) \/ Insert(r)
    \/ Retarget(r) \/ Refresh(r) \/ Accept(r)
    \/ Recover(r) \/ PublishOwn(r) \/ FrontierOwn(r)
    \/ StatusTarget(r) \/ StatusRequest(r) \/ StatusAnswer(r) \/ Stop(r)

Worker(w) == Tick(w) \/ WorkerPublish(w) \/ WorkerFrontier(w) \/ WorkerStop(w)

Next ==
    \/ Environment
    \/ \E r \in Senders : Sender(r)
    \/ \E w \in Workers : Worker(w)

Spec == Init /\ [][Next]_vars

-----------------------------------------------------------------------------
(* Properties.                                                             *)

\* What chatState and history demand of the stored stream, or else every owner of
\* the row refuses it for ever and readers meet a gap: the queue is exactly the
\* accepted sequences above the frontier, in order, of candidates that exist; there
\* is one document for every sequence up to the frontier, and only the head of the
\* queue is published ahead of it; the queue keeps to its limit.
StreamConsistent ==
    /\ \A m \in Messages : Exists(m) =>
          store[m] \in [text : Texts, witness : Witness, publication : Nat]
    /\ Len(Pending) =< PendingLimit
    /\ row.chat.allocated = row.chat.published + Len(Pending)
    /\ \A i \in DOMAIN Pending :
          /\ Pending[i].sequence = row.chat.published + i
          /\ Exists(Pending[i].message)
    /\ \A n \in 1..row.chat.published :
          Cardinality({m \in Messages : store[m].publication = n}) = 1
    /\ \A m \in Messages : store[m].publication =< row.chat.published + 1

\* CONFIRMED proves durable published storage: the sequence reported is the one
\* in the candidate, behind the frontier.
ConfirmedIsVisible ==
    \A r \in Senders : req[r].pc = "CONFIRMED" =>
        /\ req[r].publication = store[req[r].message].publication
        /\ req[r].publication \in 1..row.chat.published

\* A message is accepted only while its author holds the very authority he wrote
\* it with: not after he left, also if he joined again since, and not as the
\* organizer for what he wrote as a participant.
AcceptedByAuthority ==
    [][\A i \in DOMAIN row'.chat.pending :
          LET m == row'.chat.pending[i].message IN
          ~Accepted(row, m) =>
              Witnesses(row, AuthorOf[m], store[m].witness.kind) = {store[m].witness}]_vars

\* The accepted messages, visible or not, are the log of MessageLog.
PublishedAt(n) == {m \in Messages : store[m].publication = n}
Log == INSTANCE MessageLog WITH
    Message <- Messages,
    frontier <- row.chat.published,
    log <- [n \in 1..row.chat.allocated |->
        IF n > row.chat.published THEN Pending[n - row.chat.published].message
        ELSE IF PublishedAt(n) = {} THEN None
        ELSE CHOOSE m \in PublishedAt(n) : TRUE]
\* A message has at most one sequence, however often it is sent again and
\* whichever of its updates was lost or late, and the sequences are the order
\* in which messages become visible.
ImplementsLog == Log!Spec
=============================================================================
