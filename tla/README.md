# ph-admin in TLA+

ph-admin is the NestJS back office of a padel club network: custom tournaments with public
registration and payment, a support desk that writes to customers through MAX and Telegram,
player ratings, subscriptions, resident services, communities, and staff pages around them. Its
state is in MongoDB documents shared by several processes, with no transaction around most of what
is done to them. A handler reads a document, asks other services (Viva for bookings and payments,
LK2 for identities), and writes with a filter that says what must still be true. Whether those
filters are enough is the question this directory is about.

Paths are relative to the repository: `src/src/...` is the code of the service.

Contents: [Inventory](#inventory) · [Modules](#modules) ·
[Public join](#public-join) · [Private owners](#the-private-owners-of-a-tournament) ·
[Chat](#tournament-chat) · [Read positions](#read-positions) · [MAX outbox](#max-outbox) ·
[Player levels](#player-levels) · [Annual subscriptions](#annual-subscriptions) ·
[Runs](#runs-and-bounds) · [Fairness](#fairness) · [Proofs](#proofs) · [Findings](#findings) ·
[Not modelled](#what-is-not-modelled-and-why) · [Plan](#plan)

## Running it

    tlc -workers 2 -config PublicJoin_guarded.cfg MCPublicJoin      # any run of PROJECT.json
    tlapm PublicJoinProofs.tla
    tlapm MaxOutboxProofs.tla
    tlapm LevelProjectionProofs.tla
    tlapm SubscriptionsProofs.tla
    tlapm TournamentChatProofs.tla
    tlapm TournamentRowProofs.tla
    tlapm LocalOwnerProofs.tla
    tlapm ChatReadsProofs.tla

## Inventory

Every component is in PROJECT.json with its sources and status. Those that keep state of their own
and change it concurrently:

| component | state | operations | what is hard | what makes it correct |
|---|---|---|---|---|
| **Public tournament join** | one document per tournament: `participants`, `waitlist`, `details.booking.pendingJoinPayments` | register, queue, buy (checkout or subscription), confirm, cancel; staff edits | each request is 5-10 awaits, every process runs many; the provider may create and not answer, answer late or repeat an id; staff writes whole fields | one place per phone, no overselling, one create POST per attempt, paid ⇒ seated |
| **Local participation journal** | the same document, `details.localOperations`: an append-only journal of 512 | JOIN, LEAVE with idempotency keys; three tries; readback | lost acknowledgements, late writes, a retry from a fresh row, a full journal | a command is decided once, roster = journal, the way out stays open |
| **Organizer assignment** | receipts of 128 with a revision chain in the same document | ASSIGN, REVOKE with an expected revision | one update that may have been executed although it threw | revisions chain, an answer is a stored receipt |
| **Tournament chat** | stream state in the row (allocated, published, pending queue of 64), candidate documents | send, status, history, `recoverOne`, 15 s worker | four writes in two collections without a transaction; authors leave between them | one log without gaps, CONFIRMED is visible, accepted ⇒ published |
| **Chat read positions** | positions of 640 in the row, a queue of 64 receipts, custody documents | adopt, enrol, advance, status, recover | adoption meets JOIN and ASSIGN; a request that moves nothing leaves no trace in the row | one position per authority, moving forward only; an accepted read gets one receipt |
| **MAX outbox, receipt-v1** | one document per command: status, lease token and expiry, attempts, receipt | enqueue, claim (sweep, exhaust, claim, re-read), ack, fail | leases expire while the connector may still send; reports late, repeated or lost; stale snapshots of other processes | never sent again once it may have been delivered; what the outbox says is true |
| Legacy MAX custody | the same documents under the older protocol | compare-and-set from a process-local map, held rows, import | the snapshot is stale by design | the same promise |
| Support conversations | maps in a process, written behind | webhook intake, merge of identities, replies | written entity by entity; hydrate at start | - |
| **Player ratings and level projection** | ratings, events, one projection row per player with desired revision and lease | change in a transaction; worker delivers the latest | delivery outlives its lease, newer level meanwhile | the latest level is delivered, revisions do not go back |
| **Subscription runtime** | instance, aggregate, operation, ledger, outbox in one transaction | activate (first use or deadline), reserve, confirm, release | two activators with different ranges; quotes are stale when they are used; repeated keys, lost answers | activated once, reservations = operations = ledger, limits never exceeded |
| Subscription publication and sale | versioned policies, mappings, bindings | publish, bind, promote, project | compare-and-set with idempotent replay | - |
| Resident services | passes, quotas, issuances | issue, return | idempotency across transactions | quota = issued − returned |
| Viva request governor | in-process flights, caches, a circuit | run, open, close | an old success closes a newly opened circuit | - |
| History protection | in-process token buckets, cache with generations, flights | admit, load, invalidate | a load begun before an invalidation ends after it | no stale generation served |
| Telegram connector | one map in one process | enqueue, lease, ack, fail | atomic between awaits, lost with the process | - |
| Pending payment reconciliation | an operator's script on tournament documents | inspect, repair | runs beside the service, replaces one attempt under the preimage of all | as for the join |

The rest (messenger, communities, games, advertising, QR and referral links, quick replies, web
push, access control, identity, residency pages, pages and client code, operations) are single
updates, in-memory catalogues, reads, rendering or other programs. PROJECT.json says which and why.

**How they interact.** The four tournament components share one MongoDB document. The public join
writes it through conditional updates of a part; the private owners (journal, organizer, chat,
reads) replace it only when the whole stored root equals what they read
(`$expr: {$eq: ['$$ROOT', ...]}`), and once any of them has adopted the row, the public writers
are shut out by a filter on its private fields. Viva is asked over HTTP and calls nothing back; the
customer's browser repeats the confirmation. The outbox is fed by the support desk (an insert
nobody waits for) and drained by an external connector that polls over HTTP and reports back.

## Modules

| module | what it is | models |
|---|---|---|
| `SeatLedger` | abstract: who owns which place of a tournament | the promise of public join |
| `PublicJoin` | the document, handlers cut at awaits, provider, staff, the reconciliation script | `tournaments.service.ts`, `tournaments-persistence.service.ts`, `scripts/reconcile-public-tournament-pending-payments.mjs` |
| `PublicJoinProofs` | TLAPS: types, one create per attempt, places, admission, attempts, the refinement of `SeatLedger`, payments | |
| `TournamentRow` | pure rules of the row's private owners, no variables | `tournament-local-operation.contract.ts`, `tournament-organizer.contract.ts`, `tournament-chat*.contract.ts` |
| `Enrolment` | abstract: commands decided once, people enrolled | the promise of the journal |
| `LocalOwner` | journal, organizer, staff and legacy writers on one row | `tournaments.service.ts`, `tournament-organizer.service.ts`, `tournaments-persistence.service.ts` |
| `TournamentRowProofs` | TLAPS: what each owner does to a row, and what all of them keep | |
| `LocalOwnerProofs` | TLAPS: types, all invariants of `LocalOwner`, the barrier, the refinement of `Enrolment`, what the chat meets | |
| `MessageLog` | abstract: a growing log with a frontier | the promise of the chat |
| `TournamentChat` | senders and recovery workers on row and candidates | `tournament-chat.service.ts`, `.persistence.ts`, `.recovery.ts` |
| `TournamentChatProofs` | TLAPS: the stream, CONFIRMED, authority, the refinement of `MessageLog`, the senders as `ChatReads` has them | |
| `ChatReads` | EXTENDS `TournamentChat`: readers, and the workers on both queues | the read half of the same files, `tournament-chat-read.contract.ts` |
| `ChatReadsProofs` | TLAPS: receipts are true, positions only advance, on the row lemmas of `TournamentRowProofs` | |
| `MaxOutbox` | polls, connector and reports over the commands | `support/max-outbox-store.ts`, `max-outbox-policy.ts`, `support-persistence.service.ts` |
| `MaxOutboxProofs` | TLAPS: six theorems over one inductive invariant | |
| `LevelProjection` | one player's rating changes, the outbox row, workers, PadlHub | `player-ratings.service.ts`, `player-ratings.repository.ts`, `player-level-projection.service.ts` |
| `LevelProjectionProofs` | TLAPS: types, SYNCED rows, the ledger, levels in order | |
| `BenefitQuota` | abstract: services taken, used and given back within a policy | the promise of a subscription |
| `Subscriptions` | one instance: activation, and reserve, confirm, release by racing requests | `subscription-activation.service.ts`, `subscription-entitlement-lifecycle.service.ts`, `subscription-shadow-quote*.ts`, the runtime half of `subscriptions.repository.ts` |
| `SubscriptionsProofs` | TLAPS: types, activation, reservations and ledger, answers, the counters as sums, the refinement of `BenefitQuota` | |
| `MC*` | model values, functions and symmetry for TLC | |

`LocalOwner` and `TournamentChat` both EXTEND `TournamentRow`, so the row and its rules are one
definition. Each of the two runs its own handlers in full and lets the other's owners take
their updates as one step: since every one of those updates is a single conditional write of the
whole row, their readers can only see it as one. A definition whose comment starts with *Variant:*
is not part of the behaviour; it is what the definition after it would be with a plausible bug, kept
so that each property is shown to notice one.

The concurrency model is the same everywhere. A handler is a record with a `pc`; one action covers
the code from the return of one `await` to the issue of the next, together with the single-document
write or read it awaits, which MongoDB executes atomically. Between two steps anything else may
happen. *Crash/Stop* at any step stands for an exception, a timeout, a failed lookup or the end of
the process, since all of them leave the document as it is and forget the local state.

## Public join

`PublicJoin` is the registration for one custom tournament that no private owner has adopted and
whose source is not Viva.

| in the model | in the code |
|---|---|
| `status`, `gender`, `maxPlayers`, `participants`, `waitlist` | fields of the tournament document |
| `stamp` | `updatedAt`; an ISO string in milliseconds, so a later write may carry the same value (`Touch`) |
| `pend` | `details.booking.pendingJoinPayments`, keyed by the local attempt id; `providerId` is the transaction or booking id, `evidence` the id in `verifiedPayment`; `Durable` is `hasDurableVerifiedPayment`: the two agree |
| `req` | a running handler: where it is, its phone, attempt, the id it last learned and the rule generation it read |
| `edit` | a running `updateCustomTournament` with the whole fields it computed, or a reconciliation script with the array it read |
| `wire`, `provider`, `answer` | Viva: POSTs it has not processed, what exists there, the ids it answered POSTs of each attempt with. External |
| `posts`, `settled` | history variables (POSTs sent; which attempt became a seat, for which phone, by which payment), read by no action except the bound `MaxPosts` and the freshness of local ids |

`BeginPurchase`, `BeginConfirm`, `BeginRegister` and `BeginWaitlist` are the four public handlers up
to their first write. `Reserve`, `Claim`, `RecordIdentity`, `Bind`, `ClaimBooking`, `BindBooking`,
`Mark`, `Finalize`, `AppendParticipant` and `AppendWaitlist` are the guarded
`findOneAndUpdate` calls of the persistence service, one action each, the guard translated from the
filter. The `*Matches` operator of each is the filter itself. `Post`, `Receive`, `List`, `Verify` and
`VerifyBooking` are the calls to Viva. A checkout is posted after `Claim` and bound with its
transaction; a subscription is looked for first (`List`), claimed and created only when none is
found, and adopted when there is exactly one.

Whole-field writers are read-then-write: `BeginCancel/WriteLists` computes both lists without the
phone and writes them, `BeginStatus/WriteStatus` writes the status together with `details` as read.
The reconciliation script (`BeginReconcile/WriteReconciled`) is the third writer with an old read, and a
guarded one: an operator's decision names an attempt of unknown result whose provider id is recorded, either
as payable (`PROVIDER_BOUND`) or, with the provider's word for it, as paid (`PAID_BOUND`), and the update takes
effect only if the whole array is still the one the script read. The decision and its fingerprint are taken with
that read: the fingerprint covers the element, and what the provider calls paid stays paid.
`GuardedNext` leaves the whole-field writers and the lowering of `maxPlayers` out; `Next` has everything. The split is
what the properties are about: under guarded writers no create is repeated and nothing is oversold;
under all of them a weaker promise survives (`SeatsArePaidFor`) and a stronger one does not (the
[first finding](#findings)).

Properties, each aimed at a hazard of PROJECT.json:
`AtMostOneCreate` (one POST per attempt). `PlacesHeld` (a phone is in one place of the tournament,
and seats plus live attempts fit into `maxPlayers`). `PaymentsTracked` (what may exist at Viva stays in
the document until it is seated, two attempts saved at once never share an id, no phone has two active subscription
bookings, and two seats stand on one payment only if Viva gave that payment to both attempts; see
[the limit of the guard on ids](#what-is-not-modelled-and-why)). `SeatsArePaidFor` (whichever staff edit came
between, a seat that came from an attempt was settled for its phone by a paid transaction Viva gave to that very
attempt, or by an active booking of that very phone, and an attempt marked paid rests on such a payment of its own:
not on one of another attempt of the same player, which a status transition may have dropped or brought back meanwhile).
`AdmissionFollowsRule` (the rule at the very write). `AttemptAdvances` (attempts have one direction).
`PaidIsSeated` (liveness). `ImplementsLedger`: under the mapping `Place`/`PaidPhones` every step is a step
of `SeatLedger` or a stutter.

## The private owners of a tournament

`TournamentRow` holds the stored row as a record and the pure decisions made on it: `JoinOperation`,
`LeaveOperation`, `OrganizerReceipt`, who may enter the chat (`Witnesses`), what adoption and
enrolment do to read positions, and the rows `commitLocalParticipation` and
`commitOrganizerAssignment` would write (`Committed`, `Assigned`; the empty set is their refusal
to add a position). Generations are the keys of the JOINs that made them: the code derives an
operation id from actor and key with a hash, which keeps exactly this information. A verified
identity is an actor together with one of `PhonesOf[actor]`, since the phone may change while the
client id stays.

`LocalOwner` runs the handlers on that row. For JOIN and LEAVE: `Begin`/`Again` read and decide
(`Examine`: replay, refuse, or go on), `Commit` is the compare-and-replace with its three outcomes
(executed, missed, interrupted), a miss is tried again from a fresh row up to `MaxTries`, and
`Readback` follows an exception. For organizer commands the same, but with one update that is never
repeated. `stray` is a write that the database executes after its sender stopped waiting
(`StrayLands`). Staff edits (`EditRead/EditWrite`) and legacy registration (`LegacyRegister`) are
there to be kept out; `ChatWrites` stands for the chat.

`SeatsMatchJournal`: the seats the journal made are exactly the generations registered and not left.
`CommandsDecided`: each command is decided once (`DecidedOnce`: one journal entry per key, one receipt
per operation id), and the receipts form the chain that `organizerState` validates when it reads the
row, or else it refuses the row for ever (`RevisionsChain`). `AnswersTrue`: an answer is always a
stored one, lost acknowledgements included, and what it presents as registered is registered. `ExitReserved`: however full the journal or the receipts,
a member can leave and the organizer be revoked. `PositionsCoverWitnesses`: exactly one read position for each authority the row
recognises. `JournalOwnsTheRow`: after the first entry no other writer moves a seat or the status,
even one that read the row before.
`ImplementsEnrolment`: the handlers implement `Enrolment`.

## Tournament chat

| in the model | in the code |
|---|---|
| `row.chat` | `allocatedSequence`, `publishedSequence`, pending intents |
| `store[m]` | the candidate document of one request: text, the authority it was made with, the sequence once published |
| `req`, `work` | POST and status handlers; a `recoveryTick` at one tournament |

`Send → Target → (Adopt) → Insert → Retarget → Refresh → Accept → Recover → PublishOwn →
FrontierOwn → Status*` is the POST; the order of its reads matters (the row is captured before the
candidate is read again, which is what keeps a published message from being accepted twice).
`Tick → WorkerPublish → WorkerFrontier` is `recoverOne` run by a worker. Every write may be
executed or not. A late write needs no variable of its own here: the handler that issued it is
simply paused before it. Members, organizers and staff change in one step each (`MemberJoins`,
`MemberLeaves`, `OrganizerChanges`, `StaffEdits`, which cancels or opens a tournament without a journal; their
handlers are in `LocalOwner`). That these steps are all the chat can meet is the theorem `OwnersAreAsTheChatMeetsThem`.

`StreamConsistent` is what `chatState` demands of the stored stream, or else refuses it for ever, and what
history reading relies on: the queue is the accepted sequences above the frontier, every sequence up to
the frontier has one document, nothing but the head of the queue is published ahead of it.
`ConfirmedIsVisible` is what CONFIRMED tells the author; `AcceptedByAuthority` that acceptance happens under
the very authority the message was written with, not after leaving and joining again;
`ImplementsLog` that accepted messages form one append-only log with a frontier (`MessageLog`).

## Read positions

`ChatReads` adds the readers to the same row and takes the senders apart no further: whatever a sender may
write to the row or the candidates is a step that may come at any time (`SenderAdopts`, `SenderAccepts`,
`SenderPublishes`, `SenderReveals`, each weaker in its guard than the actions of `TournamentChat`). That nothing a
sender or the recovery does is outside these steps is the theorem `SendersAreElsewhere`.

| in the model | in the code |
|---|---|
| `row.reads` | `details.readState`: positions (witness, baseline, through) and the queue of receipts |
| `custody[q]` | the immutable document of a read request: the witness it was made with, the position asked for, its receipt once written |
| `reader` | POST read-requests and its status; `work` is shared with the message recovery |

`Ask → Known/New → InsertRead → RetargetRead → RefreshRead → AcceptRead → RecoverRead → FinishOwn → CleanOwn →
ReadStatus*` is `advanceRead`; `TickReads → WorkerFinish → WorkerClean` is `recoverReadOne`.
A receipt (`p` in the queue) carries the position that was reached and a mark of the handler that made it,
because the code stores the time of acceptance there and `finishRead` compares it.

`ReadsTrue` is what `readState` demands, or else every reader and every JOIN of the row is refused for ever,
together with what CONFIRMED names. `ReadsAdvance`: no position goes back, no receipt is rewritten, and a
request is accepted under the witness it was made with only. `AcceptedIsPublished` and `ReadIsReceipted`:
both queues drain by the worker alone. `AcceptedOnce` is what the documentation says of repeated
requests; it does not hold, which is the [second finding](#findings). Since a queue that has met the finding
never drains, the passing run has one handler at a time (with its crashes and repeats), under which every
property here holds; two handlers of one request are the violation run.

## MAX outbox

A command's document is `store[c]`. `leases[c]` counts its claims, and the n-th claim has token n
(the code uses a random UUID per claim; all that matters is that it is new). `fate[c][n]`
says what the connector did with the message under that token: nothing, claimed by a poll that has
not answered, held by the connector, or one of the outcomes. It is the truth the outbox's
statements are compared with and is read only by the connector's own reports. A connector may act
on a message as long after its claim as it likes.

`Poll → Sweep* → Swept → Exhaust* → Exhausted → Claim* → Return` is `pull`: `updateMany` visits one
document at a time and may miss those that arrive behind it, each `findOneAndUpdate` is one `Claim`
of the oldest due command, and `PollStop` is the five-second budget or the end of the process, after
which nobody takes the claims back. `Report → Read → Write → (Readback)` is `receipt`, with
`Holds` as its filter. `Enqueue` is an insert-only upsert, also of a stale snapshot. `Init` includes rows of the older
protocol, because the same collection is taken over.

Deadlines are never a variable. A lease expires by the clock of the process that asks, and processes
do not agree, so a lease may look expired (to a sweep), or not (to a report), at any moment; a
delayed command may look due to one poll and not to another. This is more than the code can do, and
the properties hold all the same.

`NeverResent`: a command is claimed again only when every earlier claim is known not to have
delivered it. `SendBudget`: at most `MaxAttempts` requests to the provider per message. `OutcomeTrue`: SENT and
every definite reason are what happened under the last lease. `AnswerDurable`: a report answered
with success stays recorded. `TerminalStays`: SENT and FAILED never change. What is *not* promised,
by design: that messages keep their order across a backoff, and that a message whose claim was lost
is sent at all (`src/docs/support/MAX_OUTBOX_RECEIPTS.md`).

## Player levels

| in the model | in the code |
|---|---|
| `ledger` | `rating_events`; event n is the n-th, with its idempotency key and the event its author saw last |
| `state` | `player_rating_state`: `lastEventId` (which names the level) and `padlHubProjectionRevision` |
| `outbox` | the player's row of `player_level_projection_outbox`: `desired`, `inFlight`, lease owner, status, attempts |
| `req`, `work` | running `change` calls; a worker's cycle, its consecutive failures and its circuit |
| `hub`, `late` | PadlHub, external: it keeps the snapshot of the highest revision and answers applied, replayed or stale; snapshots whose sender no longer waits |

`Read → Commit` is `change`: the transaction of `runAtomicChange` is one step and checks only the last
event, so a revision read before may be outdated by then. Each request has the projection on or off,
as `PADLHUB_PLAYER_LEVEL_PROJECTION_ENABLED` may have been when its process started: off, it
moves the level and leaves revision and row alone. `StartCycle → Ensure → (Bump → Upsert) → Claim →
Deliver/Timeout → Complete/Fail` is `runCycle` at one player; `Ensure`, `Bump` and `Upsert` are the
three awaits of `ensurePadlHubProjectionDesired`. As in the outbox, whether a lease has expired or a
retry is due is up to the clock of whoever asks. `ManualRetry` is the staff endpoint.

`LedgerLinear`: no lost update and no key twice in the ledger. `SyncedIsDelivered`: SYNCED is said only
of the snapshot PadlHub has, whichever worker's answer came last. `HubNeverBack`: no late delivery
and no reconciliation from an old read gives PadlHub an older level. `Converges`: in the end PadlHub
has the last level. The transaction alone does not give that: after a period with the projection off,
a change that read the revision just before reconciliation raised it commits an equal one, and
the row, which takes only a newer revision, refuses its snapshot. Only the next reconciliation, which
gives another event a revision above the row's, repairs it; the mutant of `Converges` takes that away.

## Annual subscriptions

`Subscriptions` is one managed instance. The aggregate and the instance are created, and a pending instance is
read back from the provider after its deadline, by code outside the transactions modelled (external).

| in the model | in the code |
|---|---|
| `instance`, `activations` | `subscription_instances` (state, validity, revision) and its INSTANCE_ACTIVATED ledger events |
| `aggregate` | the entitlement aggregate: active services, the counters of the day and of the period, remaining units |
| `operations[k]` | the BOOKING operation of an idempotency key: state, revision, request, deltas, booking, reason |
| `ledger` | usage ledger events with their outbox rows, which one transaction appends |
| `handler` | running requests and worker cycles, cut at their database calls, with what they read last |

`BeginFirstUse/BeginDeadline → ReadInstance → Activate` is activation. `BeginReserve → Lookup → Quote → Reread →
Reserve` is `reserve`, whose misses begin again with a new quote (only a versioned request, one that carries
expectations, looks its key up again). `BeginConfirm/BeginRelease → ReadOperation → ReadAggregate → Transition` is
`confirm` and `release`. `Activate`, `Reserve` and `Transition` are MongoDB transactions and therefore one step each;
the reads before them may be stale. A handler may end at any step, and an answer may be lost: whoever waits asks
again under the same key, perhaps for something else.

Abstractions. The code tries three times; the model any number of times, of which each may be the last. Weekly and
monthly counters are alike and are one `period`; `futureServiceStartsAt` runs parallel to `activeServices` and is left
out. Release evidence is the strict one (a cancellation, and nothing else, names its booking). A quote that is not
eligible, a price, a stale expectation and every refusal of identity or target end the handler and change nothing.

`ActivatedOnce`: first use and the deadline worker compute different ranges; the ledger has one activation, of the
validity the instance has. `ReservationsMatch`: the reservations of the aggregate are those of the live operations
and the ledger tells each operation's life once. `CountersExact`: the counters are what the reservations add up
to; a service past the daily limit was not counted in the day and is not uncounted when it is given back.
`AnswersTrue`: an answer is so when it is given. `ImplementsQuota`: each service is taken, used and given back as one
step of `BenefitQuota`, within the limits at that step, though the quote was of an older aggregate.

## Runs and bounds

Each property of each passing run has a mutant in PROJECT.json: one mapped definition replaced by a
form a plausible bug would give it, under which TLC finds the property violated.

| run | specification, bounds | states | question |
|---|---|---|---|
| `public_join` | `GuardedSpec`; 3 phones of which one is seated, 2 handlers, 1 reconciliation script, 2 attempts, 2 provider ids, 2 admission rules, `maxPlayers` 2 or 3, `MaxPosts` 2 | 847 k | the race for the last place, under a changing gender rule and beside the script; refinement of `SeatLedger` |
| `public_join_edits` | `Spec`; 1 phone, 2 handlers, 2 attempts, 2 ids, 1 editor, `maxPlayers` 2 or 3, `MaxPosts` 1 | 571 k | what survives the whole-field writers |
| `public_join_liveness` | `FairSpec`; 2 phones, 1 handler | 25 k | a paid checkout becomes a seat |
| `status_repost` | `Spec`; one of everything | - | the first finding; a violation is expected |
| `local_members` | 2 actors, one of them with two phones, 3 phones of which one is a guest's, 2 keys, 2 handlers, 2 tries, journal of 4 | 527 k | two people race for the last place and fill the journal |
| `local_owners` | 1 actor, 2 phones, 1 key, 1 handler, 1 desk with 2 operation ids and expectations 0 and 1, 1 editor, receipts of 2 | 1.7 M | journal, organizer, chat, staff and legacy writers in one row |
| `chat` | 2 messages, 2 senders, 1 author with 3 keys and an organizer id, queue of 2 | 845 k | the same messages sent twice while their author leaves, returns and becomes organizer |
| `chat_reads` | `LiveReadSpec`; 2 read requests, 1 handler, 1 worker, 1 message, 2 keys, both queues of 1 | 99 k | reads and messages recovered by one worker while the reader leaves and returns |
| `read_twice` | `ReadSpec`; 1 read request, 2 handlers | - | the second finding; a violation is expected |
| `max_outbox` | 1 command, 2 polls, 2 reports, 2 attempts, 4 leases, batches of 2 | 659 k | at most one delivery |
| `level` | 2 requests, 1 worker, 2 keys, 2 events, `MaxAttempts` 2, `Threshold` 1 | 396 k | racing changes, late deliveries, stale reconciliation, convergence |
| `subscriptions` | 2 handlers, 2 keys, 2 bookings, a game of one unit and a visit of two, two policies, `Deadline` 1, `Validity` 1 | 1.06 M | activation, then two services that do not both fit the day |

Why these are enough to see what can go wrong:

- *Two concurrent handlers* are the number at which every lost update, double claim and
  check-then-act race of these single-document protocols appears; a third handler meets the same
  document state that one of the two left behind, also after a crash, since handlers return to idle
  and start again.
- *Places, queues, journals*: the limit is reachable with one actor still outside: `maxPlayers` 2
  with one seat taken and two players; a journal of 4 with two members (each registration keeps a
  slot for its exit); a queue of 2 with two messages, and of 1 in the liveness run.
- *One player in `public_join_edits`*: what staff edits add is that a player may have several attempts, in the
  document and in copies of it, while a handler still works on an earlier one; two attempts of one player with a
  transaction each show it. Two players beside the editor do not fit into a run; `NobodySitsUnpaid` holds for any number.
- *`MaxPosts` 2, `MaxLeases` 4*: one more than the property allows (`AtMostOneCreate`), and
  enough for two consumed attempts and two deferred ones before the budget of 2 is exceeded.
- *`MaxStamp` 0*: the passing runs of the public join have one stamp, as if every write fell into the same millisecond. The fence
  of the admission is then the gender alone, which is weaker than the code's: `AdmissionFollowsRule` holds of
  `public_join` even so. With stamps that move or stay equal it is proved, for any number of them (`OnlyTheAdmitted`).
- *One command in `max_outbox`*: commands are independent documents; only the order of claims and
  the batch relate two of them, and no property speaks of order. The theorems hold for any number.
- *Two events, `MaxAttempts` 2, `Threshold` 1*: a level changed while the projection was off and one
  more that races with its reconciliation; every status of the row, DEAD included; a circuit that
  opens, closes and opens at the next failure. Two requests race in the run; what two workers could do to
  each other (`SyncedIsDelivered`, `HubNeverBack`) is proved for any number of them.
- *One policy that discounts what goes past the day and one that refuses it*: with units 1 and 2 and a
  daily limit of 2, the second service is counted or not depending on the order, which is where a counter
  can be given back too much.
- Constants of the code that a bound replaces: 512 journal entries, 128 receipts, 640 positions,
  queue of 64, 3 tries, 5 attempts, 50 commands per poll,
  20 delivery attempts and 5 failures before a circuit opens.

`CHECK_DEADLOCK FALSE` is set for the runs of the row, the chat and the subscription: keys and sequences are
finite there, and a clock ends, so a system with nothing left to decide stops. Symmetry is used over handlers,
attempts, ids and keys (`MC*` modules), never in a run with a liveness property.

## Fairness

`FairSpec` of `PublicJoin`: a handler's step is weakly fair (each provider call has a timeout), and
so is its death; and the confirmation of each phone is asked again and again, with strong fairness
of `BeginConfirm`, `Verify`, `Mark` and `Finalize` per phone: the browser returns to the payment
callback and staff can repeat it; a handler may die any number of times, but not every time at the
same step. Nothing makes the customer pay, or the provider create or answer.

`ReadFairness` of `ChatReads`: the worker's interval (15 s) goes on firing, and a store that is asked again and
again answers at last. Each of the three strong fairness conditions joins a step of the message queue with the
same step of the read queue (`Tick`/`TickReads`, `WorkerPublish`/`WorkerFinish`, `WorkerFrontier`/`WorkerClean`): it is the
worker that is fair and not each of its queues. They drain all the same because a queue gets no new work
for ever: keys, messages and requests are finite. A worker that is stuck stops (weak fairness of `WorkerStop`).
Senders and readers have no fairness: what they accepted must be published and receipted without them.

`Spec` of `LevelProjection`: from some moment on processes and their database are at rest
(`Disturbance` ends: no restart, no call that throws), and then each worker goes on with its cycle,
which the poll interval starts again and the batch size ends; a worker that comes back to a claimable
row claims it at last (strong fairness of `Claim`: leases expire and retries become due), and the
circuit closes (30 s). PadlHub has no rest: it may fail any number of times, but not every time
(strong fairness of `Deliver`), and somebody resets a row that is DEAD.

The other runs are safety only.

## Proofs

The proof modules are about the specifications TLC checks, with every constant left open, under the
`ASSUME`s named in the models: the phones and attempts are finite, the absent value is not a phone or an
id, the roster fits some `maxPlayers` (PublicJoin); commands are numbers and limits are positive
(MaxOutbox); limits are positive, modes are Booleans and the absent owner is not a worker
(LevelProjection); units are positive, limits natural numbers, and the absent value is not a booking
(Subscriptions); messages have authors and authors phones, limits are natural numbers, and the absent value is
no message, text or person (the chat); read requests have readers, and the absent value
is no request and no witness (the reads); actors, phones and keys are finite, the guests fit the tournament, the
read positions suffice for the entries of the journal and the organizer receipts together (512 + 128 = 640), and
expectations and statuses have their types (the row and `LocalOwner`). The bounds (`MaxPosts`, `MaxStamp`, `MaxLeases`, `MaxEvents`, `MaxTime`) are parameters of
the theorems too.

`PublicJoinProofs`
- `TypeCorrect`: `Spec => []TypeOK`. One lemma per action, with two lemmas on which of the
  request shapes a label implies.
- `OneCreatePerAttempt`: `GuardedSpec => []AtMostOneCreate`. `AtMostOneCreate` alone is not
  inductive: nothing in it keeps an attempt that was already posted from being claimed again. `ClaimHeldOnce` adds that an attempt which can still be claimed (`Creatable`) has
  sent nothing, that a request about to POST has sent nothing and holds an attempt that is no longer
  creatable, that no two requests are about to POST the same attempt, and that a request that binds
  a booking has an id to bind (else binding would make the attempt creatable again). TLC shows that
  under `Spec` the same invariant fails: `WriteStatus` restores `Creatable`.
- `NeverOversold`: `GuardedSpec => []PlacesHeld`. The places are a sum of two cardinalities, the roster and the
  attempts that hold a place. `Counted` adds to it that the roster is finite and that the attempt in the hands
  of a request is in its own phone's name: with one place per phone, a phone that takes its seat gives up the very place
  its attempt held, and any other seat or attempt is new and the filter of its write left room for it.
- `AttemptsGoOneWay` (`AttemptAdvances`) and `OnlyTheAdmitted` (`AdmissionFollowsRule`) are action properties. The first
  needs what the reconciliation script remembers of the checkout it decided about (`Decided`), the second that a request
  about to seat or reserve was admitted by the rule it holds (`RuleChecked`), which its filter compares with the document.
- `JoinImplementsLedger`: `GuardedSpec => ImplementsLedger`. Every step gives, converts or frees places as a
  step of `SeatLedger` does, or leaves the owners of places as they are.
- `NobodySitsUnpaid`: `Spec => []SeatsArePaidFor`, under staff edits too. The property says whose payment it is, so three
  invariants carry it. `OneOwner`: an attempt is of one phone, wherever it is saved, copied or worked on. `Given`: the
  transaction an attempt is bound to, in the document and in every copy a staff edit may write back, and the one a
  request is about to record or verify, was an answer to a POST of that very attempt. `Backed`: every settled
  attempt, every attempt marked paid, every request that has the provider's word and every decision of the script rest
  on a payment of that attempt or a booking of that phone, and every seat, in the document or in a copy, was settled.
- `PaymentsAreTracked`: `GuardedSpec => []PaymentsTracked`. What exists at the provider, is on the wire, or is in a
  request's hands has an attempt in the document that knows of it (`Tracked`), and who writes an id asked for it first
  (`IdsDiffer`). What was settled sits (`SettledSits`); two settled attempts with one payment are then of two phones, so
  it is no booking, and by `Backed` the provider gave the transaction to both (`SharedOnlyIfGiven`).

`MaxOutboxProofs` proves one inductive invariant `Inv` and six consequences, for any number of
commands, polls, reports and leases.
- `Books(c)`: exactly the tokens up to `leases[c]` have a fate; all but the last are repeatable; a
  PENDING command was never delivered and has attempts left; a LEASED one is under its last token or
  under none (a row of the old protocol); a stored receipt is about the last lease.
- `BatchesClaimed`: a claim not yet handed over is in one batch at most, and its fate is CLAIMED,
  which is why `Return` overwrites no outcome.
- `ReportsTrue`: a report in flight is about a settled lease and says what became of it.
- `Budgeted`: the attempts that count against the limit are those of the leases whose message may have gone out,
  `Spent(c)`, plus the lease under way; the cardinality of that set never exceeds `attempts`. A deferral gives
  an attempt back, and this is sound only because it reports the very lease that took it; a claim that exhausts the
  command finds `attempts` at the limit and takes no lease.
- Theorems: `OutboxTypeCorrect`, `SendsWithinBudget` (`SendBudget`), `NeverHandedOutTwice` (`NeverResent`), `OutcomesAreTrue`,
  `AnswersAreDurable`, `TerminalNeverMoves` (the action property `TerminalStays`).

`LevelProjectionProofs`, for any number of rating changes, workers, keys and events.
- `SyncedIsDelivered` says nothing of deliveries still under way, so it is not inductive.
  `Deliveries` adds that whatever has left for PadlHub (kept there, late on the way, or in the hands of
  a worker that posts or was answered) is what the row asks for, or has a lower revision; and that
  PadlHub has no less than an answered worker sent. Hence a worker that acknowledges without being
  superseded sent exactly what the row asks for, and PadlHub has it. A newer snapshot in the row
  leaves everything else behind it, and the row is then not SYNCED.
- `LedgerLinear` is inductive with the shapes: only `Commit` appends, from the event it read, and
  `Bump` writes the revision alone.
- `HubGoesForward`: `Spec => HubNeverBack`, which no run checks (two workers and two changes are too many
  states; TLC confirmed it and its strengthening on one change with two workers). It needs the order of
  everything that may still reach PadlHub. `Raising`: whoever raises the revision (a change that was read, a
  reconciliation between its `Bump` and its `Upsert`) is at most one or two revisions above the row, and a
  snapshot it may put there is not of an older event. `SentInOrder`: of two snapshots among the row, the
  deliveries on their way and PadlHub, the higher revision has no older event. PadlHub keeps the higher
  revision, hence never an older event.
- Theorems: `LevelTypeCorrect`, `SyncedMeansDelivered`, `LedgerIsLinear`, `HubGoesForward`.

`SubscriptionsProofs`, for any number of requests, keys, targets and bookings and any policies. The inductive
invariant `IInv` adds to the types, `ActivatedOnce` and `ReservationsMatch`:
- `Staged`: the revision of an operation tells how far it has come (1 reserved, 2 confirmed or given back, 3 given
  back after confirmation), so that its ledger events can be read off it;
- `SeenFenced`, `HeldFenced`: what a handler read is the stored document as long as the stored revision
  is the one it read, because every write raises it; this is the whole argument of the compare-and-set;
- `HeldAllows`: the operation it read was in a state from which its request may take it on. That a confirmed
  operation is given back with its own booking comes from here, and with it the ledger.
- `GoalFits`: who has answered is idle, and a handler at work knows its key and its booking.
- `Balanced` is `CountersExact` with the finiteness it needs: the counters of the aggregate (period, remaining, each
  day) are sums over its active reservations. The library's induction theorems cannot be instantiated here, so the
  module first proves what it needs of `MapThenSumSet`, by well-founded descent along strict subsets. The three
  changes an aggregate sees (a reservation, a confirmation, something given back) each add, take away or exchange one
  reservation, so each sum changes by one summand.
- `Quoted`: a quote that its limits allowed is still within them when it is written, for the revision it was made at
  is the stored one. For the refinement, `QuotaStep` sorts the steps into taking, using and giving back units of
  `BenefitQuota`, or leaving them.
- Theorems: `TypeCorrect`, `ActivatesOnce`, `ReservationsKept`, `CountersAreExact`, `RuntimeImplementsQuota`
  (`Spec => ImplementsQuota`), and `AnswersAreTrue`, an action property: every step that answers is a replay of the
  operation as it is, or the very write.

`TournamentChatProofs`, for any number of people, messages, senders and recovery workers and any limits.
- `Stream` strengthens `StreamConsistent`: no message is in the queue twice; receipts are unique; a receipt is behind
  the frontier or belongs to the head of the queue. Five lemmas show that each way of changing the stored stream
  (not at all, `InsertStep`, `PublishStep`, `AcceptStep`, `RevealStep`) keeps it.
- The same lemmas show `Monotone`, what no step undoes: candidates stay with their authority, receipts stay, the
  counters do not fall, nothing is accepted without raising `allocatedSequence`, and an intent that is the head of the
  queue or published stays one of these. Everything a handler remembers (`Knows`) rests on it, so one lemma
  (`SenderStays`) covers all handlers that do not move.
- `KnowsRow` is the argument for one sequence per message: a sender about to accept captured the row before it
  looked for the receipt, so as long as `allocatedSequence` is what it captured, the message is neither queued nor
  published. `Intended` and `Written` are the argument for the frontier: the update that moves it finds the row that
  was read, whose head has its receipt.
- Theorems: `StreamIsConsistent`, `ConfirmedTellsTheTruth`, `AcceptedIsEntitled` (an action property), and
  `ChatImplementsLog`: `Spec => ImplementsLog`. For the refinement `Steps` sorts every step into three kinds (the log
  and the frontier stay, an acceptance, a move of the frontier), and `StillLog`, `AcceptLog` and `RevealLog` say
  what each is in `MessageLog`.
- `SendersAreElsewhere`: `Spec => Rest!ReadSpec`, where `Rest` is `ChatReads` in which no reader is at work. `ChatReads`
  replaces the handlers of `TournamentChat` by four steps, and this is why it may: every step of a sender, a worker or
  another owner is a step of `ReadNext` or leaves what `ChatReads` sees. A sender reaches its update with what
  the weaker guards ask for, since `Knows` and `KnowsRow` hold of it.

`TournamentRowProofs` and `LocalOwnerProofs`, for any number of people, phones, keys, handlers, desks and editors and
any limits. The rules of the row are functions of a row, so the argument is split in two.
- `TournamentRowProofs` has no variables. `Sound(rw)` says what a row keeps to, in five parts: `JournalSound`,
  `SeatsSound`, `OrganizerSound`, `PositionsSound`, `RoomSound`. `OwnerStep(rw, next)` is the disjunction of what an owner may make
  of a row: a `Decision` committed to the journal, an organizer receipt, a staff write while there is no journal, a
  move of the chat. `OwnersAgree`: a step of any owner leads from a sound row to a sound row, so no owner destroys what
  another relies on. `OwnersRemember`: nothing decided is forgotten. The seats and `SeatsMatchJournal` alone are not
  inductive: a LEAVE must know that its seat is the only one that could be meant, which needs that phones and
  generations are unique in the roster; the reserved slots need that a LEAVE retires exactly one registration. That
  `addPosition` never refuses a command that fits its lane (`RoomIsThere`) needs `RoomSound`: positions outlive their
  authorities, but each was made for a generation in the journal or a past revision, and there are no more of them
  than entries and receipts, 512 + 128 at most.
- `LocalOwnerProofs` shows that the handlers make no other step. What a handler knows at its update is about the row
  it read, not about the stored one (`RequestKnows`: the operation is a `Decision` on `seen`; `DeskKnows`; `EditKnows`:
  an edit that read a row without a journal holds seats without a generation; `StrayKnows`: a write left behind is an
  owner's step from `seen`), so no other handler can disturb it; the preimage turns it into a fact about the stored row.
  `NextKept`: every step leaves the row or is an `OwnerStep`, and keeps `Inv`.
- Theorems: `TypeCorrect`, `OneStory`, `NobodyLockedIn`, `DecidedInOrder`, `AnswersTold`, `PositionsComplete`,
  `NobodyElseWrites` (the action property `JournalOwnsTheRow`), and `OwnerImplementsEnrolment`:
  `Spec => ImplementsEnrolment` (`DecidesOne`; places are counted through the seats, `MembersHaveSeats`).
- `OwnersAreAsTheChatMeetsThem` is about the two chat modules, which take an operation of another owner as one update of
  the row (`AfterJoin`, `AfterLeave`, `AfterCommand`, `AfterEdit`), though `LocalOwner` needs several steps, retries and late
  writes for it. Every step of `LocalOwner` is one of these updates (`JournalMet`, `CommandMet`, `StaffMet`), a move of the
  chat, or invisible to it: the stream, the positions and everybody's access are the same before and after
  (`LooksLike`), as with a refused JOIN or a rejected command. It speaks of single steps: the chat modules let
  each person use one phone, and spend no journal slot on a refusal.

`ChatReadsProofs`, for any number of people, requests, readers and workers and any limits. Every owner of the row has a
step in `ReadNext`, so it joins the argument about the row to one about handlers, queue and custody.
- `TournamentRowProofs` knows rows whose two queues are empty. `Bare(rw)` is a row without its queues, and no rule of the
  other owners looks at them (`LooksAlike`); one lemma per rule (`EnrolBare`, `LoggedBare`, `CommittedBare`,
  `AssignedBare`) says that it commutes with `Bare`. Hence `EnvironmentStep`: what `OwnersAgree` proved of the bare row holds
  of the stored one, and the other owners only add positions (`Beside`).
- `RowSound` is what `readState` and `chatState` demand of the row. `AdoptedIs`, `AppendedIs`, `RevealedIs`,
  `AcceptedIs`, `CleanedIs`: each way to move the stream or the read queue keeps it, and takes no position back (`Forward`).
- `Told` is what a receipt claims: its request exists, asked for no more than was reached, and has a position that got
  there. It survives every step because positions go `Forward` and requests only grow (`Grows`: what they ask for never
  changes, and a result is written once). `Truthful` says it of all receipts, queued and written.
- `Knows` and `Recovers` are what handlers and workers remember. A reader about to replace the row had its consent in the row he
  captured (`Permits`), which the preimage turns into consent of the stored one. Whoever finishes carries a queue with
  receipts that were asked for (`Carries`), read from a row that may be long gone: the receipt he writes is true all the
  same, because the position he checked there has only moved forward.
- `AcceptedOnce` is deliberately absent from `Inv`: it does not hold (`read_twice`), and no step above needs it.
- Theorems: `ReadInvariant`, `ReadsTellTheTruth` (`ReadsTrue`) and `ReadsOnlyAdvance` (the action property `ReadsAdvance`).

Only model-checked: the liveness properties and their fairness, which are out of the prover's reach. Every invariant,
action property and refinement that a passing run checks is a theorem.

## Findings

`status_repost`: `updateCustomTournament` reads the document, and for a status transition writes the
whole of `details` as it was read, audit trail appended
(`src/src/tournaments/tournaments-persistence.service.ts:422` and `:445`). If a request claims an
attempt between that read and the write, the write restores `PROVIDER_CREATE_PENDING`. The next
request claims it again and sends a second create POST. TLC shows it with one phone, one attempt and
one staff edit. `src/docs/TOURNAMENT_PENDING_PAYMENT_RECONCILIATION.md` says that a provider POST that
may have happened is never repeated and that the request path may claim an attempt once. The same
stale write also drops an attempt reserved in between, which `PaymentsTracked` would show under
`Spec`; documents adopted by a private owner are not exposed, because there the same edit compares
the whole root.

`read_twice`: a read request is accepted twice. `advanceRead` captures the raw row, then looks whether the request
has its receipt, then replaces the row if it still equals what was captured
(`src/src/tournaments/tournament-chat.service.ts:187`); `src/docs/domain/tournament-read-positions.md:47-48` says that this
order excludes reacceptance. The comparison is of the content of the row, and a request that asks for no more
than the reader has already read does not change his position. Two handlers of it capture the row; one is
accepted, its receipt is written and taken from the queue, and the row is again what the other captured. If the
other looked for the receipt before it was written, its update succeeds and queues the request again, with
another time. `finishRead` refuses to replace the receipt by one with another time
(`tournament-chat.persistence.ts:117`), for ever, so the queue of the tournament stops at it: reads behind it get no
receipt, and after 64 of them none is accepted. Messages are safe from this, because accepting one raises
`allocatedSequence`, which never comes back (`ImplementsLog`).

## What is not modelled, and why

Within the modelled components:

- *Public join*. A free registration of a Viva-backed tournament books at Viva before it is seated
  (hazard listed; the model's tournament is not from Viva). `statusReason` without a transition
  rewrites `details` like a transition and adds nothing new. An incomplete answer of the provider is
  a `Crash`. Whether an unpaid checkout is too old to be reused is
  left open. The script's decisions for attempts of an older format, without a state, are left out. Caches and community
  publication are reads or best-effort copies.
- *The limit of the guard on ids*. This is modelled, and is no promise of the code. The filters that keep an id
  from a second attempt (`src/src/tournaments/tournaments-persistence.service.ts:734` and `:792`) look at the attempts in the array,
  and `finalizePublicJoinPayment` removes the attempt it seats. If Viva answers the POSTs of two attempts with one
  unpaid transaction, and the second answer comes only after the first attempt was paid and seated, the id is
  recorded again, verified as paid and seats a second player. `public_join` reaches this. `PaymentsTracked`
  therefore speaks of attempts saved at once, and of shared payments says only that Viva gave them to both attempts;
  `SeatsArePaidFor` holds of either player. Nothing in the repository says that one payment seats one player,
  so this is a hazard without a property and not a finding.
- *Private owners*. Mapping, eligibility, profile lookups, proof expiry and the limit of 500
  tournaments in the lookup by public id are steps at which a handler may stop. Tenant and
  incarnation checks are constant within one tournament. One staff actor.
- *Chat and reads*. History, notifications and previews read. Corrupt candidates are not modelled;
  `src/docs/architecture/tournament-chat-owner.md` accepts that such a target stays pending.
  `pendingTargets` gives a tick the four smallest queues, so five tournaments are needed to see one
  starved; the runs have one. Organizers as readers are not in the small instance of `chat_reads`.
- *Outbox*. Enqueueing is fire-and-forget and no property says that a reply arrives. Texts, backoff
  lengths and read concerns are abstracted. The connector is external. The legacy protocol is planned.
- *Player levels*. One player with a client id and a canonical state; invalid states are skipped by the
  reconciliation and never delivered. The reconcile cursor over many players, the rows of the Viva
  projection (no worker in this repository takes them), and the initial import are left out.
- *Subscriptions*. The scan cursor of the deadline worker, lenient release evidence, quarter bindings, preflight
  and readback reports, and the journal of shadow decisions.

Hazards seen and not covered by a property, besides those PROJECT.json lists without one: a
tournament whose `maxPlayers` is below 2 (the queries of the persistence service treat it as absent); a
process whose clock is ahead, whose journal entries make `operations()` refuse the row until the others catch up;
an id that the provider repeats after its attempt was finalized and removed; more than 500 tournaments
in the lookup by public id.

Outside them: PROJECT.json lists the components that are not modelled, with the reason. They are either planned
(below), a single update without a protocol, process-local maps without a promise, pure I/O, or pages. By
lines they are most of the repository: the pages and the client SDK alone are more than half of it, and render or
call; the integrations translate between two HTTP interfaces. The models therefore cover a small share of all lines
and most of those in which two processes may meet in one document.

## Plan

Written: `SeatLedger`, `PublicJoin`, `TournamentRow`, `Enrolment`, `LocalOwner`, `MessageLog`, `TournamentChat`,
`ChatReads`, `MaxOutbox`, `LevelProjection`, `BenefitQuota`, `Subscriptions`, and the proofs above. What would come next:

1. `LegacyCustody`: the older outbox protocol behind the same promise as `MaxOutbox`; an abstract
   `AtMostOnceDelivery` that both implement, by refinement.
2. `ResidentServices`: issuances and returns against quotas, with idempotency keys.
3. `HistoryProtection` and `RequestGovernor`: in-process caches with generations, single flights,
   token buckets and a circuit; small modules, good candidates for proofs.
4. The Telegram queue; schedules of the americano as functions against a reference definition.

Theorems next: what the abstract specifications promise by themselves (no place owned twice in `SeatLedger`, no service
beyond the policy in `BenefitQuota`), so that the refinements carry it to the code; and the modules above as they are
written.
