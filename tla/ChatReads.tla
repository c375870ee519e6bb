----------------------------- MODULE ChatReads -----------------------------
(***************************************************************************)
(* Reading the chat of a LOCAL_ONLY tournament, and the recovery of both   *)
(* queues, of messages and of reads.  A reader says how far he has read;   *)
(* the request becomes an immutable custody document, is accepted by an    *)
(* update of the row that moves his position and queues a receipt, and is  *)
(* finished by writing the receipt to its document and taking it from the  *)
(* queue.  Senders are not taken apart here (TournamentChat does that):    *)
(* whatever one of them writes is a step that may come at any time.        *)
(***************************************************************************)
EXTENDS TournamentChat

CONSTANTS
    ReadIds,   \* request ids of read commands
    ReaderOf,  \* who sends them
    Readers,   \* POST and status handlers of read commands running at once
    ReadLimit  \* READ_PENDING_LIMIT (64)

ASSUME ReadsAssumption ==
    /\ ReaderOf \in [ReadIds -> Actors] /\ ReadLimit \in Nat
    /\ None \notin ReadIds \cup Witness

VARIABLES
    custody,  \* the read candidates, by request id
    reader    \* local state of the handlers

reading == <<custody, reader>>
readVars == <<row, store, req, work, custody, reader>>
Sending == <<store, req>>

NoCustody == [witness |-> None, baseline |-> 0, through |-> 0, result |-> None]
Kept(q) == custody[q] # NoCustody
NotReading == [pc |-> "IDLE", id |-> None, witness |-> None, through |-> 0,
               result |-> None, seen |-> None]

ReadInit ==
    /\ Init
    /\ custody = [q \in ReadIds |-> NoCustody]
    /\ reader = [d \in Readers |-> NotReading]

Turn(d, pc) == reader' = [reader EXCEPT ![d].pc = pc]
TurnWith(d, pc, seen) == reader' = [reader EXCEPT ![d].pc = pc, ![d].seen = seen]
Leaves(d) == reader' = [reader EXCEPT ![d] = NotReading]

-----------------------------------------------------------------------------
(* What a handler reads of the row.                                        *)

PositionsOf(rw, w) == {p \in rw.reads.positions : p.witness = w}
\* readTarget: the reader's own position, none when access is denied or the stream
\* has no read state.
Own(rw, a) == UNION {PositionsOf(rw, w) : w \in Witnesses(rw, a, "ANY")}
OwnNow(d) == Own(row, ReaderOf[reader[d].id])

\* readOriginal: the witness of the request is the authority its author still has,
\* in a position that starts where the request found it.
Original(rw, q) ==
    /\ Own(rw, ReaderOf[q]) # {}
    /\ Witnesses(rw, ReaderOf[q], custody[q].witness.kind) = {custody[q].witness}
    /\ \E p \in PositionsOf(rw, custody[q].witness) : p.baseline = custody[q].baseline

Within(rw, p, through) == p.baseline =< through /\ through =< rw.chat.published
ReadRoom(rw) == Len(rw.reads.pending) < ReadLimit
Queued(rw, q) == \E i \in DOMAIN rw.reads.pending : rw.reads.pending[i].id = q

-----------------------------------------------------------------------------
(* POST read-requests.                                                     *)

\* A new request names the witness its sender was shown; a repeated one is the
\* request it repeats.  Custody is looked up first.
Ask(d, q, w, through) ==
    /\ reader[d] = NotReading
    /\ IF Kept(q) THEN custody[q].witness = w /\ custody[q].through = through
       ELSE w \in Witnesses(row, ReaderOf[q], "ANY")
    /\ reader' = [reader EXCEPT ![d] =
          [NotReading EXCEPT !.pc = IF Kept(q) THEN "KNOWN" ELSE "NEW",
                             !.id = q, !.witness = w, !.through = through]]
    /\ UNCHANGED <<row, Sending, work, custody>>

Known(d) ==
    /\ reader[d].pc = "KNOWN"
    /\ IF Original(row, reader[d].id) THEN Turn(d, "RETARGET") ELSE Leaves(d)
    /\ UNCHANGED <<row, Sending, work, custody>>

New(d) ==
    /\ reader[d].pc = "NEW"
    /\ \/ \E p \in OwnNow(d) :
             /\ p.witness = reader[d].witness
             /\ Within(row, p, reader[d].through) /\ ReadRoom(row)
             /\ TurnWith(d, "INSERT", p.baseline)
       \/ /\ \A p \in OwnNow(d) :
                \/ p.witness # reader[d].witness
                \/ ~Within(row, p, reader[d].through) \/ ~ReadRoom(row)
          /\ Leaves(d)
    /\ UNCHANGED <<row, Sending, work, custody>>

\* The first document wins and is read back; one that asks for something else is a
\* conflict.
InsertRead(d) ==
    LET q == reader[d].id
        asked == [witness |-> reader[d].witness, baseline |-> reader[d].seen,
                  through |-> reader[d].through, result |-> None]
    IN
    /\ reader[d].pc = "INSERT"
    /\ custody' = IF Kept(q) THEN custody ELSE [custody EXCEPT ![q] = asked]
    /\ IF [custody'[q] EXCEPT !.result = None] = asked
       THEN TurnWith(d, "RETARGET", None)
       ELSE Leaves(d)
    /\ UNCHANGED <<row, Sending, work>>

\* The row is captured before the receipt is looked up.
RetargetRead(d) ==
    /\ reader[d].pc = "RETARGET"
    /\ IF OwnNow(d) = {} THEN Leaves(d) ELSE TurnWith(d, "REFRESH", row)
    /\ UNCHANGED <<row, Sending, work, custody>>

RefreshRead(d) ==
    LET q == reader[d].id
        seen == reader[d].seen
    IN
    /\ reader[d].pc = "REFRESH"
    /\ IF ~Original(seen, q) THEN Leaves(d)
       ELSE IF Queued(seen, q) \/ custody[q].result # None THEN TurnWith(d, "RECOVER", None)
       ELSE IF \E p \in PositionsOf(seen, custody[q].witness) :
                  Within(seen, p, custody[q].through) /\ ReadRoom(seen)
       THEN Turn(d, "ACCEPT") ELSE Leaves(d)
    /\ UNCHANGED <<row, Sending, work, custody>>

\* Variant: the position is set to what was asked, also when it was further.
ThroughAsked(p, through) == through
Through(p, through) == IF p.through > through THEN p.through ELSE through

\* A receipt tells who made it: another acceptance has another correlation and
\* another time.
AcceptedRead(rw, q, d) ==
    LET p == CHOOSE p \in PositionsOf(rw, custody[q].witness) : TRUE
        reached == Through(p, custody[q].through)
    IN  [rw EXCEPT
            !.reads.positions = (@ \ {p}) \cup {[p EXCEPT !.through = reached]},
            !.reads.pending = Append(@, [id |-> q, reached |-> reached, by |-> d])]

AcceptRead(d) ==
    /\ reader[d].pc = "ACCEPT"
    /\ \/ Preimage(reader[d].seen) /\ row' = AcceptedRead(row, reader[d].id, d)
       \/ UNCHANGED row
    /\ TurnWith(d, "RECOVER", None)
    /\ UNCHANGED <<Sending, work, custody>>

-----------------------------------------------------------------------------
(* recoverReadOne: by the reader after his own acceptance, and by workers. *)

\* Variant: the queue is cleaned before the receipt is written.
FinishesLater(rw) == custody' = custody
\* The oldest receipt is copied to its document, with a readback: it is written
\* once, and not unless the position it belongs to has reached it.
Finishes(rw) ==
    LET p == rw.reads.pending[1] IN
    /\ \E own \in PositionsOf(rw, custody[p.id].witness) :
          own.baseline = custody[p.id].baseline /\ own.through >= p.reached
    /\ custody[p.id].result \in {None, p}
    /\ custody' = [custody EXCEPT ![p.id].result = p]

Cleaned(rw) == [rw EXCEPT !.reads.pending = Tail(@)]

RecoverRead(d) ==
    /\ reader[d].pc = "RECOVER"
    /\ IF row.reads.pending = <<>> THEN Turn(d, "STATUS") ELSE TurnWith(d, "FINISH", row)
    /\ UNCHANGED <<row, Sending, work, custody>>

FinishOwn(d) ==
    /\ reader[d].pc = "FINISH"
    /\ \/ Finishes(reader[d].seen) /\ Turn(d, "CLEAN")
       \/ UNCHANGED custody /\ TurnWith(d, "STATUS", None)
    /\ UNCHANGED <<row, Sending, work>>

CleanOwn(d) ==
    /\ reader[d].pc = "CLEAN"
    /\ \/ Preimage(reader[d].seen) /\ row' = Cleaned(row)
       \/ UNCHANGED row
    /\ TurnWith(d, "STATUS", None)
    /\ UNCHANGED <<Sending, work, custody>>

\* The second half of recoveryTick.
TickReads(w) ==
    /\ work[w] = IdleWorker
    /\ row.reads.pending # <<>>
    /\ work' = [work EXCEPT ![w] = [pc |-> "FINISH_READ", seen |-> row]]
    /\ UNCHANGED <<row, Sending, custody, reader>>

WorkerFinish(w) ==
    /\ work[w].pc = "FINISH_READ"
    /\ Finishes(work[w].seen)
    /\ work' = [work EXCEPT ![w].pc = "CLEAN_READ"]
    /\ UNCHANGED <<row, Sending, reader>>

WorkerClean(w) ==
    /\ work[w].pc = "CLEAN_READ"
    /\ Preimage(work[w].seen)
    /\ row' = Cleaned(row)
    /\ work' = [work EXCEPT ![w] = IdleWorker]
    /\ UNCHANGED <<Sending, custody, reader>>

-----------------------------------------------------------------------------
(* Status: the tail of a POST, and POST read-requests/read.                *)

AskReadStatus(d, q) ==
    /\ reader[d] = NotReading
    /\ reader' = [reader EXCEPT ![d] = [NotReading EXCEPT !.pc = "STATUS", !.id = q]]
    /\ UNCHANGED <<row, Sending, work, custody>>

\* The witness before and after the document is read must be one and the same.
ReadStatusTarget(d) ==
    /\ reader[d].pc = "STATUS"
    /\ \/ \E p \in OwnNow(d) :
             reader' = [reader EXCEPT ![d].pc = "STATUS_REQUEST", ![d].witness = p.witness]
       \/ OwnNow(d) = {} /\ Leaves(d)
    /\ UNCHANGED <<row, Sending, work, custody>>

ReadStatusRequest(d) ==
    /\ reader[d].pc = "STATUS_REQUEST"
    /\ reader' = [reader EXCEPT ![d].pc = "STATUS_ANSWER",
                                ![d].result = custody[reader[d].id].result]
    /\ UNCHANGED <<row, Sending, work, custody>>

\* CONFIRMED needs the receipt and a position that has reached it.
ReadStatusAnswer(d) ==
    LET q == reader[d].id IN
    /\ reader[d].pc = "STATUS_ANSWER"
    /\ IF /\ \E p \in OwnNow(d) : p.witness = reader[d].witness
          /\ Kept(q) /\ reader[d].result # None
          /\ Original(row, q)
          /\ \E p \in PositionsOf(row, custody[q].witness) : p.through >= reader[d].result.reached
       THEN Turn(d, "CONFIRMED") ELSE Leaves(d)
    /\ UNCHANGED <<row, Sending, work, custody>>

\* The answer has left; or an exception, or the end of the process.
StopReading(d) ==
    /\ reader[d] # NotReading
    /\ Leaves(d)
    /\ UNCHANGED <<row, Sending, work, custody>>

-----------------------------------------------------------------------------
Reading(d) ==
    \/ \E q \in ReadIds :
          \/ AskReadStatus(d, q)
          \/ \E through \in 0..(row.chat.published + 1) :
                \E w \in {custody[q].witness} \cup Witnesses(row, ReaderOf[q], "ANY") :
                    Ask(d, q, w, through)
    \/ Known(d) \/ New(d) \/ InsertRead(d) \/ RetargetRead(d) \/ RefreshRead(d)
    \/ AcceptRead(d) \/ RecoverRead(d) \/ FinishOwn(d) \/ CleanOwn(d)
    \/ ReadStatusTarget(d) \/ ReadStatusRequest(d) \/ ReadStatusAnswer(d)
    \/ StopReading(d)

WorkerReads(w) == TickReads(w) \/ WorkerFinish(w) \/ WorkerClean(w)

-----------------------------------------------------------------------------
(* What senders write to the row and to the candidates.                    *)

SenderAdopts ==
    /\ ~row.chat.adopted /\ \E a \in Actors : Witnesses(row, a, "ANY") # {}
    /\ row' = Adopted(row)
    /\ UNCHANGED <<Sending, work, reading>>

\* A candidate that nobody has accepted matters to nobody else.  It is accepted on
\* the authority it was made with, which need not be the one its author has first now.
SenderAccepts(m) ==
    /\ row.chat.adopted /\ Room(row) /\ row.chat.allocated < MaxSequence - 1
    /\ ~Exists(m)
    /\ \E kind \in {"PARTICIPANT", "ORGANIZER"}, text \in Texts :
          \E w \in Witnesses(row, AuthorOf[m], kind) :
              /\ w.kind = kind
              /\ store' = [store EXCEPT ![m] = [text |-> text, witness |-> w, publication |-> 0]]
    /\ row' = Appended(row, m)
    /\ UNCHANGED <<req, work, reading>>

SenderPublishes ==
    /\ Pending # <<>> /\ Publishes(NextIntent(row))
    /\ UNCHANGED <<row, req, work, reading>>

SenderReveals ==
    /\ Pending # <<>> /\ store[NextIntent(row).message].publication # 0
    /\ row' = Revealed(row)
    /\ UNCHANGED <<Sending, work, reading>>

SendersElsewhere ==
    \/ SenderAdopts \/ SenderPublishes \/ SenderReveals
    \/ \E m \in Messages : SenderAccepts(m)

-----------------------------------------------------------------------------
ReadNext ==
    \/ (Environment \/ \E w \in Workers : Worker(w)) /\ UNCHANGED reading
    \/ SendersElsewhere
    \/ \E d \in Readers : Reading(d)
    \/ \E w \in Workers : WorkerReads(w)

ReadSpec == ReadInit /\ [][ReadNext]_readVars

\* The interval of the recovery worker goes on firing, and a store that is asked again
\* and again answers at last, to whichever queue asks: messages are as few as reads are,
\* so that neither can keep the other waiting for ever.  Nothing is assumed of senders
\* and readers.
ReadFairness ==
    \A w \in Workers :
        /\ SF_readVars((Tick(w) /\ UNCHANGED reading) \/ TickReads(w))
        /\ SF_readVars((WorkerPublish(w) /\ UNCHANGED reading) \/ WorkerFinish(w))
        /\ SF_readVars((WorkerFrontier(w) /\ UNCHANGED reading) \/ WorkerClean(w))
        /\ WF_readVars(WorkerStop(w) /\ UNCHANGED reading)
LiveReadSpec == ReadSpec /\ ReadFairness

-----------------------------------------------------------------------------
(* Properties.                                                             *)

\* What readState demands of the row, or else every reader and every JOIN is
\* refused for ever, and what a reader was told: queued receipts are of requests
\* that exist, each queued once; queued and written receipts lie between what was
\* asked and the position that was reached; and CONFIRMED names the written one.
Receipts ==
    ToSet(row.reads.pending) \cup ({custody[q].result : q \in ReadIds} \ {None})
ReadsTrue ==
    /\ PositionsCover(row)
    /\ Len(row.reads.pending) =< ReadLimit
    /\ \A i, j \in DOMAIN row.reads.pending :
          row.reads.pending[i].id = row.reads.pending[j].id => i = j
    /\ \A r \in Receipts :
          /\ Kept(r.id) /\ custody[r.id].through =< r.reached
          /\ \E p \in PositionsOf(row, custody[r.id].witness) :
                p.baseline = custody[r.id].baseline /\ r.reached =< p.through
    /\ \A d \in Readers : reader[d].pc = "CONFIRMED" =>
          reader[d].result # None /\ reader[d].result = custody[reader[d].id].result

\* A position never goes back nor disappears, a written receipt never changes, and
\* a request is accepted only while its author has the witness it names: not after
\* he left, also if he joined again since.
ReadsAdvance ==
    [][ /\ \A p \in row.reads.positions : \E n \in row'.reads.positions :
              n.witness = p.witness /\ n.baseline = p.baseline /\ n.through >= p.through
        /\ \A q \in ReadIds : custody[q].result # None => custody'[q] = custody[q]
        /\ \A q \in ReadIds : Queued(row', q) /\ ~Queued(row, q) =>
              Witnesses(row, ReaderOf[q], custody[q].witness.kind) = {custody[q].witness}
      ]_readVars

\* A request that has its receipt is not accepted again.  The raw row is captured
\* before the receipt is looked up for exactly this.
AcceptedOnce ==
    [][\A q \in ReadIds : custody[q].result # None /\ ~Queued(row, q) => ~Queued(row', q)]_readVars

\* A message that was accepted is published in the end by the workers alone, whatever
\* becomes of its sender, its author's membership or the tournament.
AcceptedIsPublished ==
    \A m \in Messages :
        Accepted(row, m) ~> (store[m].publication \in 1..row.chat.published)

\* A read that was accepted gets its receipt by the workers alone, whatever becomes
\* of the reader or his membership, and leaves the queue.
ReadIsReceipted ==
    \A q \in ReadIds : Queued(row, q) ~> (custody[q].result # None /\ ~Queued(row, q))
=============================================================================
