----------------------------- MODULE PublicJoin -----------------------------
(***************************************************************************)
(* Public registration for one custom tournament: the MongoDB document     *)
(* that owns participants, waitlist and details.booking.                   *)
(* pendingJoinPayments, the requests that change it with guarded           *)
(* findOneAndUpdate calls, the payment provider (Viva) behind them, the    *)
(* script that binds attempts of unknown result by hand, and the two       *)
(* whole-field writers (cancelling a registration, a change of status)     *)
(* that share the document with them.                                      *)
(*                                                                         *)
(* A request is a handler cut at its awaits: between two steps of one      *)
(* request any other request, a staff edit, the provider or a customer may *)
(* run, and the handler may die (Crash), which is also what a lost         *)
(* acknowledgement or a timeout looks like from outside.                   *)
(***************************************************************************)
EXTENDS Integers, FiniteSets

CONSTANTS
    Phones,       \* players, by normalised phone
    Attempts,     \* the local ids randomUUID() can return
    ProviderIds,  \* ids of Viva transactions and of Viva bookings
    Requests,     \* handlers that may be running at once
    Editors,      \* staff edits and reconciliation scripts running at once
    Roster,       \* phones already seated when the model starts
    Sex,          \* the verified profile sex of each phone
    Genders,      \* the admission rules staff may write
    MaxPlayers,   \* the maxPlayers values staff may write
    MaxStamp,     \* bound on distinct updatedAt values
    MaxPosts,     \* bound on the create POSTs of one attempt
    None          \* absence of an id, a phone or a rule

ASSUME RosterAssumption == Roster \subseteq Phones /\ IsFiniteSet(Phones)
ASSUME SexAssumption == Sex \in [Phones -> {"MALE", "FEMALE"}]
ASSUME GendersAssumption == Genders \subseteq {"MIXED", "MALE", "FEMALE"}
ASSUME MaxPlayersAssumption ==
    /\ MaxPlayers \subseteq Nat
    /\ \E m \in MaxPlayers : Cardinality(Roster) =< m
ASSUME BoundsAssumption == MaxStamp \in Nat /\ MaxPosts \in Nat
ASSUME AttemptsAssumption == IsFiniteSet(Attempts)
ASSUME NoneAssumption == None \notin Phones \cup Attempts \cup ProviderIds

VARIABLES
    status,        \* the tournament is open for registration, or canceled
    gender,        \* admission rule
    maxPlayers,
    stamp,         \* updatedAt, which doubles as the generation of the rule
    participants,  \* seats: who, and by which attempt (None: no payment)
    waitlist,      \* phones
    pend,          \* details.booking.pendingJoinPayments, by local attempt id
    req,           \* local state of the handlers
    edit,          \* local state of the staff edits and reconciliations
    wire,          \* create POSTs the provider has not processed
    provider,      \* what exists at the provider
    answer,        \* the ids create POSTs of an attempt were answered with
    posts,         \* history: create POSTs sent, per attempt
    settled        \* history: attempts turned into a seat, for whom, by which payment

document == <<status, gender, maxPlayers, stamp, participants, waitlist, pend>>
external == <<wire, provider, answer>>
vars == <<document, req, edit, external, posts, settled>>

-----------------------------------------------------------------------------
(* The stored document.                                                    *)

Kinds == {"TRANSACTION", "SUBSCRIPTION_BOOKING"}
Holding == {"PROVIDER_CREATE_PENDING", "PROVIDER_RESULT_UNKNOWN",
            "PENDING_PAYMENT", "BOOKING_CREATION_IN_PROGRESS",
            "PAID_PENDING_FINALIZATION"}

\* An element of pendingJoinPayments.  providerId is providerTransactionId or
\* providerBookingId, after the kind; evidence is the id in verifiedPayment.
NoPayment ==
    [state |-> "ABSENT", kind |-> None, phone |-> None, providerId |-> None,
     evidence |-> None]
Payment ==
    [state : Holding, kind : Kinds, phone : Phones,
     providerId : ProviderIds \cup {None}, evidence : ProviderIds \cup {None}]
    \cup {NoPayment}

Pending == {a \in Attempts : pend[a].state # "ABSENT"}
PendingOf(p) == {a \in Pending : pend[a].phone = p}

\* hasDurableVerifiedPayment: what was verified is what the attempt is bound to.
Durable(a) ==
    /\ pend[a].state = "PAID_PENDING_FINALIZATION"
    /\ pend[a].evidence = pend[a].providerId
Seated == {s.phone : s \in participants}
Limit == IF maxPlayers < 2 THEN 2 ELSE maxPlayers
Open == status = "OPEN"

\* updatedAt is an ISO string in milliseconds: a later write may carry the same.
Touch == stamp' \in {stamp, stamp + 1} \cap 0..MaxStamp

Rule == [gender : {"MIXED", "MALE", "FEMALE"}, stamp : 0..MaxStamp]
CurrentRule == [gender |-> gender, stamp |-> stamp]

\* Variants: the rule is not fenced, the waitlist is not asked, a phone that is
\* already paying is admitted again.
AdmissibleUnfenced(p, rule) ==
    Open /\ p \notin Seated /\ p \notin waitlist /\ PendingOf(p) = {}
AdmissibleQueued(p, rule) ==
    rule = CurrentRule /\ Open /\ p \notin Seated /\ PendingOf(p) = {}
\* The guards every admission shares: the rule read before is still the rule
\* of the document, registration is open, and the phone owns nothing yet.
Admissible(p, rule) ==
    /\ rule = CurrentRule
    /\ Open
    /\ p \notin Seated
    /\ p \notin waitlist
    /\ PendingOf(p) = {}

\* Variant: only seats count, not the places held by payments.
HasRoomSeatsOnly == Cardinality(participants) < Limit
HasRoom == Cardinality(participants) + Cardinality(Pending) < Limit

-----------------------------------------------------------------------------
(* Requests.                                                               *)

Idle == [pc |-> "IDLE", phone |-> None, att |-> None, kind |-> None,
         id |-> None, rule |-> None]

\* Where a handler can be before and after it knows which attempt it works on.
AdmissionLabels == {"APPEND", "WAITLIST"}
AttemptLabels ==
    {"REREAD", "CLAIM", "POST", "AWAIT", "RECORD", "BIND", "LIST", "LIST_CLAIMED",
     "CLAIM_BOOKING", "BIND_BOOKING", "VERIFY_BOOKING", "VERIFY", "MARK",
     "FINALIZE"}

Goto(r, label) == req' = [req EXCEPT ![r].pc = label]
Finish(r) == req' = [req EXCEPT ![r] = Idle]
Start(r, local) ==
    /\ req[r] = Idle
    /\ req' = [req EXCEPT ![r] = local]

At(r, label) == req[r].pc = label

\* checkGenderAdmission: the rule read must be the one of the tournament read
\* before, so the fence of the write that follows is the generation read here.
Admits(p) == gender = "MIXED" \/ Sex[p] = gender

Continue(r, p, a, label) ==
    Start(r, [pc |-> label, phone |-> p, att |-> a, kind |-> pend[a].kind,
              id |-> pend[a].providerId, rule |-> None])

Admit(r, p, kind, label) ==
    /\ Admits(p)
    /\ Start(r, [pc |-> label, phone |-> p, att |-> None, kind |-> kind,
                 id |-> None, rule |-> CurrentRule])

\* Where the saved attempt of a phone lets a purchase request continue.  Whether
\* an unpaid checkout has expired is left open: it is verified or answered again.
Resumption(a) ==
    CASE pend[a].state = "PROVIDER_CREATE_PENDING" -> "CLAIM"
      [] pend[a].state = "PAID_PENDING_FINALIZATION" -> "FINALIZE"
      [] pend[a].kind = "SUBSCRIPTION_BOOKING" /\ pend[a].providerId = None ->
            IF pend[a].state = "PENDING_PAYMENT" THEN "LIST" ELSE "LIST_CLAIMED"
      [] pend[a].kind = "SUBSCRIPTION_BOOKING" -> "VERIFY_BOOKING"
      [] OTHER -> "VERIFY"

BeginPurchase(r, p, kind) ==
    /\ \/ /\ PendingOf(p) = {}
          /\ Admit(r, p, kind, "RESERVE")
       \/ \E a \in PendingOf(p) :
             /\ pend[a].state # "PROVIDER_RESULT_UNKNOWN"
             /\ pend[a].state = "PAID_PENDING_FINALIZATION" =>
                   Durable(a) /\ Open /\ Cardinality(participants) < Limit
             /\ Continue(r, p, a, Resumption(a))
    /\ UNCHANGED <<document, edit, external, posts, settled>>

\* Variant: a payment already marked paid is not resumed.
BeginConfirmUnpaid(r, p) ==
    /\ p \notin Seated
    /\ \E a \in PendingOf(p) :
          /\ pend[a].state = "PENDING_PAYMENT"
          /\ pend[a].kind = "TRANSACTION"
          /\ Continue(r, p, a, "VERIFY")
    /\ UNCHANGED <<document, edit, external, posts, settled>>

\* The payment callback: only an attempt bound to a provider transaction is
\* verified, only one durably marked paid is finalised without asking again.
BeginConfirm(r, p) ==
    /\ p \notin Seated
    /\ \E a \in PendingOf(p) :
          \/ /\ Durable(a) /\ Open /\ Cardinality(participants) < Limit
             /\ Continue(r, p, a, "FINALIZE")
          \/ /\ pend[a].state \in {"PENDING_PAYMENT", "PAID_PENDING_FINALIZATION"}
             /\ ~Durable(a)
             /\ pend[a].kind = "TRANSACTION"
             /\ Continue(r, p, a, "VERIFY")
    /\ UNCHANGED <<document, edit, external, posts, settled>>

BeginRegister(r, p) ==
    /\ p \notin Seated \cup waitlist
    /\ PendingOf(p) = {}
    /\ Admit(r, p, None, IF HasRoom THEN "APPEND" ELSE "WAITLIST")
    /\ UNCHANGED <<document, edit, external, posts, settled>>

BeginWaitlist(r, p) ==
    /\ p \notin Seated \cup waitlist
    /\ Admit(r, p, None, "WAITLIST")
    /\ UNCHANGED <<document, edit, external, posts, settled>>

\* An exception, a timeout, a lost acknowledgement or the end of the process.
Crash(r) ==
    /\ req[r] # Idle
    /\ Finish(r)
    /\ UNCHANGED <<document, edit, external, posts, settled>>

-----------------------------------------------------------------------------
(* The guarded single-document mutations.                                  *)

\* A checkout is created after the reservation, a subscription is booked later.
InitialState(kind) ==
    IF kind = "TRANSACTION" THEN "PROVIDER_CREATE_PENDING" ELSE "PENDING_PAYMENT"

\* reservePublicJoinPayment, with a local id nobody has used.
ReserveSucceeds(r, a) ==
    /\ Admissible(req[r].phone, req[r].rule)
    /\ HasRoom
    /\ pend' = [pend EXCEPT ![a] =
          [state |-> InitialState(req[r].kind), kind |-> req[r].kind, phone |-> req[r].phone,
           providerId |-> None, evidence |-> None]]
    /\ Touch
    /\ req' = [req EXCEPT ![r].att = a, ![r].rule = None,
          ![r].pc = IF req[r].kind = "TRANSACTION" THEN "CLAIM" ELSE "REREAD"]

Unused(a) ==
    /\ a \notin Pending
    /\ posts[a] = 0
    /\ \A s \in settled : s.att # a
    /\ \A q \in Requests : req[q].att # a
    /\ \A e \in Editors : edit[e].pend[a] = NoPayment

Reserve(r) ==
    /\ At(r, "RESERVE")
    /\ \/ \E a \in Attempts : Unused(a) /\ ReserveSucceeds(r, a)
       \/ /\ ~(Admissible(req[r].phone, req[r].rule) /\ HasRoom)
          /\ Finish(r)
          /\ UNCHANGED <<pend, stamp>>
    /\ UNCHANGED <<status, gender, maxPlayers, participants, waitlist, edit,
                   external, posts, settled>>

\* A subscription attempt is read back before it is continued.
Reread(r) ==
    /\ At(r, "REREAD")
    /\ LET mine == PendingOf(req[r].phone) IN
       \/ \E a \in mine :
             /\ pend[a].kind = "SUBSCRIPTION_BOOKING"
             /\ pend[a].state # "PAID_PENDING_FINALIZATION"
             /\ req' = [req EXCEPT ![r].att = a, ![r].id = pend[a].providerId,
                                   ![r].pc = Resumption(a)]
       \/ /\ \A a \in mine : \/ pend[a].kind # "SUBSCRIPTION_BOOKING"
                             \/ pend[a].state = "PAID_PENDING_FINALIZATION"
          /\ Finish(r)
    /\ UNCHANGED <<document, edit, external, posts, settled>>

\* One conditional update of the attempt a request works on: it either matches
\* and the request goes on, or it matches nothing and the request gives up.
Mutate(r, matches, payment, label) ==
    /\ \/ /\ matches
          /\ pend' = [pend EXCEPT ![req[r].att] = payment]
          /\ Touch
          /\ IF label = "IDLE" THEN Finish(r) ELSE Goto(r, label)
       \/ /\ ~matches
          /\ Finish(r)
          /\ UNCHANGED <<pend, stamp>>
    /\ UNCHANGED <<status, gender, maxPlayers, participants, waitlist, edit,
                   external, posts, settled>>

Mine(r) == pend[req[r].att]

\* Variant: nobody asks whether another attempt has the id.
ElsewhereNever(r) == FALSE
Elsewhere(r) ==
    \E b \in Pending \ {req[r].att} : pend[b].providerId = req[r].id

\* Variant: an attempt with an unknown result may be claimed again.
ClaimMatchesUnknown(r) ==
    /\ Mine(r).kind = "TRANSACTION"
    /\ Mine(r).state \in {"PROVIDER_CREATE_PENDING", "PROVIDER_RESULT_UNKNOWN"}

\* claimPublicJoinTransactionCreate: the right to send the one provider POST.
ClaimMatches(r) ==
    /\ Mine(r).kind = "TRANSACTION"
    /\ Mine(r).state = "PROVIDER_CREATE_PENDING"
Claim(r) ==
    /\ At(r, "CLAIM")
    /\ Mutate(r, ClaimMatches(r),
              [Mine(r) EXCEPT !.state = "PROVIDER_RESULT_UNKNOWN"], "POST")

\* recordPublicJoinTransactionProviderIdentity: written before anything else
\* of the provider's answer is looked at.
RecordMatches(r) ==
    /\ Mine(r).kind = "TRANSACTION"
    /\ Mine(r).state = "PROVIDER_RESULT_UNKNOWN"
    /\ Mine(r).providerId \in {None, req[r].id}
    /\ ~Elsewhere(r)
RecordIdentity(r) ==
    /\ At(r, "RECORD")
    /\ Mutate(r, RecordMatches(r), [Mine(r) EXCEPT !.providerId = req[r].id], "BIND")

\* bindPublicJoinTransaction: the checkout becomes payable.
BindMatches(r) ==
    /\ Mine(r).kind = "TRANSACTION"
    /\ Mine(r).state = "PROVIDER_RESULT_UNKNOWN"
    /\ Mine(r).providerId = req[r].id
    /\ ~Elsewhere(r)
Bind(r) ==
    /\ At(r, "BIND")
    /\ Mutate(r, BindMatches(r), [Mine(r) EXCEPT !.state = "PENDING_PAYMENT"], "IDLE")

\* claimPublicJoinSubscriptionBooking.
ClaimBookingMatches(r) ==
    /\ Mine(r).kind = "SUBSCRIPTION_BOOKING"
    /\ Mine(r).state = "PENDING_PAYMENT"
    /\ Mine(r).providerId = None
ClaimBooking(r) ==
    /\ At(r, "CLAIM_BOOKING")
    /\ Mutate(r, ClaimBookingMatches(r),
              [Mine(r) EXCEPT !.state = "BOOKING_CREATION_IN_PROGRESS"], "POST")

\* bindPublicJoinSubscriptionBooking: back to PENDING_PAYMENT, now with an id.
BindBookingMatches(r) ==
    /\ Mine(r).kind = "SUBSCRIPTION_BOOKING"
    /\ Mine(r).state \in {"PENDING_PAYMENT", "BOOKING_CREATION_IN_PROGRESS"}
    /\ Mine(r).providerId \in {None, req[r].id}
    /\ ~Elsewhere(r)
BindBooking(r) ==
    /\ At(r, "BIND_BOOKING")
    /\ Mutate(r, BindBookingMatches(r),
              [Mine(r) EXCEPT !.state = "PENDING_PAYMENT", !.providerId = req[r].id],
              "VERIFY_BOOKING")

\* markPublicJoinPaymentPaid, then the checks on the returned document that
\* finalizePaidPublicJoin makes before it enriches the participant.
MarkMatches(r) ==
    Mine(r).state \in {"PENDING_PAYMENT", "BOOKING_CREATION_IN_PROGRESS",
                       "PAID_PENDING_FINALIZATION"}
\* Variant: whatever the phone is paying now is marked, not the attempt verified.
MarkWhateverIsSaved(r) ==
    /\ At(r, "MARK")
    /\ \E a \in PendingOf(req[r].phone) :
          pend' = [pend EXCEPT ![a].state = "PAID_PENDING_FINALIZATION",
                               ![a].evidence = req[r].id]
    /\ Touch
    /\ Finish(r)
    /\ UNCHANGED <<status, gender, maxPlayers, participants, waitlist, edit,
                   external, posts, settled>>
Mark(r) ==
    /\ At(r, "MARK")
    /\ Mutate(r, MarkMatches(r),
              [Mine(r) EXCEPT !.state = "PAID_PENDING_FINALIZATION",
                              !.evidence = req[r].id],
              IF Open /\ Cardinality(participants) < Limit /\ Mine(r).providerId = req[r].id
              THEN "FINALIZE" ELSE "IDLE")

\* finalizePublicJoinPayment: push the participant and pull the payment at once.
FinalizeMatches(r) ==
    /\ Open
    /\ req[r].phone \notin Seated
    /\ Mine(r).state = "PAID_PENDING_FINALIZATION"
    /\ Cardinality(participants) < Limit
FinalizeSucceeds(r) ==
    /\ participants' = participants \cup {[phone |-> req[r].phone, att |-> req[r].att]}
    /\ pend' = [pend EXCEPT ![req[r].att] = NoPayment]
    /\ settled' = settled \cup
          {[att |-> req[r].att, phone |-> req[r].phone, id |-> Mine(r).evidence]}
    /\ Touch
Finalize(r) ==
    /\ At(r, "FINALIZE")
    /\ IF FinalizeMatches(r) THEN FinalizeSucceeds(r)
       ELSE UNCHANGED <<participants, pend, settled, stamp>>
    /\ Finish(r)
    /\ UNCHANGED <<status, gender, maxPlayers, waitlist, edit, external, posts>>

\* appendPublicParticipantIfCapacity.
AppendParticipant(r) ==
    /\ At(r, "APPEND")
    /\ IF Admissible(req[r].phone, req[r].rule) /\ HasRoom
       THEN /\ participants' = participants \cup {[phone |-> req[r].phone, att |-> None]}
            /\ Touch
       ELSE UNCHANGED <<participants, stamp>>
    /\ Finish(r)
    /\ UNCHANGED <<status, gender, maxPlayers, waitlist, pend, edit, external,
                   posts, settled>>

\* appendPublicWaitlistWithAdmission.
AppendWaitlist(r) ==
    /\ At(r, "WAITLIST")
    /\ IF Admissible(req[r].phone, req[r].rule)
       THEN waitlist' = waitlist \cup {req[r].phone} /\ Touch
       ELSE UNCHANGED <<waitlist, stamp>>
    /\ Finish(r)
    /\ UNCHANGED <<status, gender, maxPlayers, participants, pend, edit,
                   external, posts, settled>>

-----------------------------------------------------------------------------
(* The provider, seen from a request.                                      *)

\* createVivaJoinTransaction / createVivaJoinBookingWithSubscription: the POST
\* leaves; the request waits for an answer that may never come.
Post(r) ==
    /\ At(r, "POST")
    /\ posts[req[r].att] < MaxPosts
    /\ posts' = [posts EXCEPT ![req[r].att] = @ + 1]
    /\ wire' = wire \cup {[att |-> req[r].att, phone |-> req[r].phone,
                           kind |-> req[r].kind]}
    /\ Goto(r, "AWAIT")
    /\ UNCHANGED <<document, edit, provider, answer, settled>>

Receive(r) ==
    /\ At(r, "AWAIT")
    /\ \E i \in answer[req[r].att] :
          req' = [req EXCEPT ![r].id = i,
             ![r].pc = IF req[r].kind = "TRANSACTION" THEN "RECORD" ELSE "BIND_BOOKING"]
    /\ UNCHANGED <<document, edit, external, posts, settled>>

\* verifyVivaTransaction.
Verify(r) ==
    /\ At(r, "VERIFY")
    /\ IF req[r].id # None /\ provider[req[r].id].status = "PAID"
       THEN Goto(r, "MARK") ELSE Finish(r)
    /\ UNCHANGED <<document, edit, external, posts, settled>>

\* The active bookings of a phone that listExerciseBookings returns.
Bookings(p) ==
    {i \in ProviderIds : provider[i].status = "ACTIVE" /\ provider[i].phone = p}

\* findVerifiedVivaSubscriptionBooking before a booking is known: exactly one
\* is adopted, none may be created unless the attempt was already claimed when
\* it was read, several are left to recovery.
List(r) ==
    /\ req[r].pc \in {"LIST", "LIST_CLAIMED"}
    /\ \/ \E i \in ProviderIds :
             /\ Bookings(req[r].phone) = {i}
             /\ req' = [req EXCEPT ![r].id = i, ![r].pc = "BIND_BOOKING"]
       \/ /\ Bookings(req[r].phone) = {}
          /\ At(r, "LIST")
          /\ Goto(r, "CLAIM_BOOKING")
       \/ /\ \A i \in ProviderIds : Bookings(req[r].phone) # {i}
          /\ Bookings(req[r].phone) # {} \/ At(r, "LIST_CLAIMED")
          /\ Finish(r)
    /\ UNCHANGED <<document, edit, external, posts, settled>>

VerifyBooking(r) ==
    /\ At(r, "VERIFY_BOOKING")
    /\ IF req[r].id \in Bookings(req[r].phone) THEN Goto(r, "MARK") ELSE Finish(r)
    /\ UNCHANGED <<document, edit, external, posts, settled>>

\* The provider creates what a POST asks for.  A checkout may be answered with
\* the id of one that is still unpaid: the code does not trust it to be new.
ProviderCreates(w) ==
    /\ w \in wire
    /\ \E i \in ProviderIds :
          /\ \/ /\ provider[i].status = "FREE"
                /\ provider' = [provider EXCEPT ![i] =
                      [status |-> IF w.kind = "TRANSACTION" THEN "UNPAID" ELSE "ACTIVE",
                       phone |-> w.phone]]
             \/ /\ w.kind = "TRANSACTION"
                /\ provider[i].status = "UNPAID"
                /\ UNCHANGED provider
          /\ answer' = [answer EXCEPT ![w.att] = @ \cup {i}]
    /\ wire' = wire \ {w}
    /\ UNCHANGED <<document, req, edit, posts, settled>>

\* The customer pays a checkout.
Pay(i) ==
    /\ provider[i].status = "UNPAID"
    /\ provider' = [provider EXCEPT ![i].status = "PAID"]
    /\ UNCHANGED <<document, req, edit, wire, answer, posts, settled>>

-----------------------------------------------------------------------------
(* Staff and cancellation: updateCustomTournament reads the document,      *)
(* computes whole fields from what it read, and writes them without        *)
(* asking whether they changed meanwhile.                                  *)

NoEdit == [pc |-> "IDLE", participants |-> {}, waitlist |-> {},
           pend |-> [a \in Attempts |-> NoPayment], status |-> "OPEN",
           att |-> None]

BeginEdit(e, local) ==
    /\ edit[e] = NoEdit
    /\ edit' = [edit EXCEPT ![e] = local]
    /\ UNCHANGED <<document, req, external, posts, settled>>

\* cancelPublicRegistrationByTournamentRef.
BeginCancel(e, p) ==
    /\ p \in Seated \cup waitlist
    /\ BeginEdit(e, [NoEdit EXCEPT !.pc = "LISTS",
                        !.participants = {s \in participants : s.phone # p},
                        !.waitlist = waitlist \ {p}])
WriteLists(e) ==
    /\ edit[e].pc = "LISTS"
    /\ participants' = edit[e].participants
    /\ waitlist' = edit[e].waitlist
    /\ Touch
    /\ edit' = [edit EXCEPT ![e] = NoEdit]
    /\ UNCHANGED <<status, gender, maxPlayers, pend, req, external, posts, settled>>

\* A status transition also writes the audit trail, and with it the whole of
\* details as it was read, pendingJoinPayments included.
BeginStatus(e, s) ==
    /\ s # status
    /\ BeginEdit(e, [NoEdit EXCEPT !.pc = "DETAILS", !.pend = pend, !.status = s])
WriteStatus(e) ==
    /\ edit[e].pc = "DETAILS"
    /\ status' = edit[e].status
    /\ pend' = edit[e].pend
    /\ Touch
    /\ edit' = [edit EXCEPT ![e] = NoEdit]
    /\ UNCHANGED <<gender, maxPlayers, participants, waitlist, req, external,
                   posts, settled>>

\* The reconciliation script, for an attempt whose provider id was recorded and
\* whose result is unknown.  The decision names the very element it was made
\* for, PAID_BOUND only what the provider says was paid.
Resolutions == {"PROVIDER_BOUND", "PAID_BOUND"}
BeginReconcile(e, a, resolution) ==
    /\ pend[a].kind = "TRANSACTION"
    /\ pend[a].state = "PROVIDER_RESULT_UNKNOWN"
    /\ pend[a].providerId # None
    /\ resolution = "PAID_BOUND" => provider[pend[a].providerId].status = "PAID"
    /\ BeginEdit(e, [NoEdit EXCEPT !.pc = resolution, !.pend = pend, !.att = a])

Replacement(e) ==
    LET current == edit[e].pend[edit[e].att] IN
    IF edit[e].pc = "PAID_BOUND"
    THEN [current EXCEPT !.state = "PAID_PENDING_FINALIZATION",
                         !.evidence = current.providerId]
    ELSE [current EXCEPT !.state = "PENDING_PAYMENT"]

\* Variant: the element is asked for, what it holds is not.
ReconcileMatchesElement(e) == pend[edit[e].att].phone = edit[e].pend[edit[e].att].phone
\* The array must be the one read, whichever attempt of it changed.
ReconcileMatches(e) == pend = edit[e].pend

WriteReconciled(e) ==
    /\ edit[e].pc \in Resolutions
    /\ IF ReconcileMatches(e)
       THEN pend' = [pend EXCEPT ![edit[e].att] = Replacement(e)] /\ Touch
       ELSE UNCHANGED <<pend, stamp>>
    /\ edit' = [edit EXCEPT ![e] = NoEdit]
    /\ UNCHANGED <<status, gender, maxPlayers, participants, waitlist, req,
                   external, posts, settled>>

\* Fields that do not depend on what was read are written in one step.
EditRule(g) ==
    /\ g # gender
    /\ gender' = g
    /\ Touch
    /\ UNCHANGED <<status, maxPlayers, participants, waitlist, pend, req, edit,
                   external, posts, settled>>
EditMaxPlayers(m) ==
    /\ m # maxPlayers
    /\ maxPlayers' = m
    /\ Touch
    /\ UNCHANGED <<status, gender, participants, waitlist, pend, req, edit,
                   external, posts, settled>>

-----------------------------------------------------------------------------
Init ==
    /\ status = "OPEN"
    /\ gender \in Genders
    /\ maxPlayers \in {m \in MaxPlayers : Cardinality(Roster) =< m}
    /\ stamp = 0
    /\ participants = {[phone |-> p, att |-> None] : p \in Roster}
    /\ waitlist = {}
    /\ pend = [a \in Attempts |-> NoPayment]
    /\ req = [r \in Requests |-> Idle]
    /\ edit = [e \in Editors |-> NoEdit]
    /\ wire = {}
    /\ provider = [i \in ProviderIds |-> [status |-> "FREE", phone |-> None]]
    /\ answer = [a \in Attempts |-> {}]
    /\ posts = [a \in Attempts |-> 0]
    /\ settled = {}

Begin(r) ==
    \E p \in Phones :
        \/ \E kind \in Kinds : BeginPurchase(r, p, kind)
        \/ BeginConfirm(r, p)
        \/ BeginRegister(r, p)
        \/ BeginWaitlist(r, p)

Step(r) ==
    \/ Reserve(r) \/ Reread(r) \/ Claim(r) \/ Post(r) \/ Receive(r)
    \/ RecordIdentity(r) \/ Bind(r) \/ List(r) \/ ClaimBooking(r)
    \/ BindBooking(r) \/ VerifyBooking(r) \/ Verify(r) \/ Mark(r)
    \/ Finalize(r) \/ AppendParticipant(r) \/ AppendWaitlist(r)

\* Everything that changes the document under a guard on what it changes.
GuardedNext ==
    \/ \E r \in Requests : Begin(r) \/ Step(r) \/ Crash(r)
    \/ \E w \in wire : ProviderCreates(w)
    \/ \E i \in ProviderIds : Pay(i)
    \/ \E g \in Genders : EditRule(g)
    \/ \E m \in MaxPlayers : m > maxPlayers /\ EditMaxPlayers(m)
    \/ \E e \in Editors :
          \/ \E a \in Attempts, resolution \in Resolutions :
                BeginReconcile(e, a, resolution)
          \/ WriteReconciled(e)

\* The writers that replace whole fields with what they computed earlier, and
\* the edit that takes places away without asking who holds them.
OverwriteNext ==
    \/ \E e \in Editors, p \in Phones : BeginCancel(e, p)
    \/ \E e \in Editors, s \in {"OPEN", "CANCELED"} : BeginStatus(e, s)
    \/ \E e \in Editors : WriteLists(e) \/ WriteStatus(e)
    \/ \E m \in MaxPlayers : m < maxPlayers /\ EditMaxPlayers(m)

Next == GuardedNext \/ OverwriteNext

GuardedSpec == Init /\ [][GuardedNext]_vars
Spec == Init /\ [][Next]_vars

\* A handler runs to its end or is ended (every provider call has a timeout), and
\* customers keep asking: the payment callback of each phone is repeated.  Strong
\* fairness, because a handler may die any number of times, but not every time.
Fairness ==
    \A r \in Requests :
        /\ WF_vars(Step(r))
        /\ WF_vars(Crash(r))
        /\ \A p \in Phones :
              /\ SF_vars(BeginConfirm(r, p))
              /\ SF_vars(req[r].phone = p /\ Verify(r))
              /\ SF_vars(req[r].phone = p /\ Mark(r))
              /\ SF_vars(req[r].phone = p /\ Finalize(r))
FairSpec == GuardedSpec /\ Fairness

-----------------------------------------------------------------------------
Request ==
    {Idle}
    \cup [pc : AdmissionLabels, phone : Phones, att : {None}, kind : {None},
          id : {None}, rule : Rule]
    \cup [pc : {"RESERVE"}, phone : Phones, att : {None}, kind : Kinds,
          id : {None}, rule : Rule]
    \cup [pc : AttemptLabels, phone : Phones, att : Attempts, kind : Kinds,
          id : ProviderIds \cup {None}, rule : {None}]
Seat == [phone : Phones, att : Attempts \cup {None}]
Message == [att : Attempts, phone : Phones, kind : Kinds]
Object == [status : {"FREE", "UNPAID", "PAID", "ACTIVE"},
           phone : Phones \cup {None}]
Edit ==
    [pc : {"IDLE", "LISTS", "DETAILS"}, participants : SUBSET Seat,
     waitlist : SUBSET Phones, pend : [Attempts -> Payment],
     status : {"OPEN", "CANCELED"}, att : {None}]
    \cup [pc : Resolutions, participants : SUBSET Seat,
          waitlist : SUBSET Phones, pend : [Attempts -> Payment],
          status : {"OPEN", "CANCELED"}, att : Attempts]

\* The variables have the shapes the document and the handlers give them.
TypeOK ==
    /\ status \in {"OPEN", "CANCELED"}
    /\ gender \in {"MIXED", "MALE", "FEMALE"}
    /\ maxPlayers \in MaxPlayers
    /\ stamp \in 0..MaxStamp
    /\ participants \in SUBSET Seat
    /\ waitlist \in SUBSET Phones
    /\ pend \in [Attempts -> Payment]
    /\ req \in [Requests -> Request]
    /\ edit \in [Editors -> Edit]
    /\ wire \in SUBSET Message
    /\ provider \in [ProviderIds -> Object]
    /\ answer \in [Attempts -> SUBSET ProviderIds]
    /\ posts \in [Attempts -> 0..MaxPosts]
    /\ settled \in SUBSET [att : Attempts, phone : Phones, id : ProviderIds \cup {None}]

\* One local attempt sends at most one create POST to the provider, however
\* many requests continue it and wherever they die: the claim is taken once.
AtMostOneCreate == \A a \in Attempts : posts[a] =< 1

\* A phone is seated, queued or paying, never two of these and never twice; and
\* seats and saved attempts together fit, so that whoever has paid still finds the
\* place that reservePublicJoinPayment counted for the attempt.
OncePerPhone ==
    /\ \A s, t \in participants : s.phone = t.phone => s = t
    /\ \A a, b \in Pending : pend[a].phone = pend[b].phone => a = b
    /\ \A p \in waitlist : p \notin Seated /\ PendingOf(p) = {}
    /\ \A a \in Pending : pend[a].phone \notin Seated
PlacesHeld ==
    /\ OncePerPhone
    /\ Cardinality(participants) + Cardinality(Pending) =< Limit

\* What may exist at the provider stays in the document until it has become a
\* seat, two attempts saved at once never share a provider id, even when the
\* provider repeats one, and a phone never ends with two active subscription
\* bookings.  The guard on ids forgets an attempt with its seat: two seats can
\* stand on one payment, but only on one the provider gave to both attempts.
PaymentsTracked ==
    /\ \A a \in Attempts :
          posts[a] > 0 => a \in Pending \/ \E s \in settled : s.att = a
    /\ \A a, b \in Pending :
          pend[a].providerId # None /\ pend[a].providerId = pend[b].providerId => a = b
    /\ \A i, j \in ProviderIds :
          provider[i].status = "ACTIVE" /\ provider[j] = provider[i] => i = j
    /\ \A f, g \in settled :
          f.id = g.id /\ f.att # g.att => f.id \in answer[f.att] \cap answer[g.att]

\* A payment stands for a place when it is a paid transaction the provider gave
\* to that very attempt, or an active booking of that very phone.
Backs(i, a, p) ==
    /\ i # None
    /\ \/ i \in answer[a] /\ provider[i].status = "PAID"
       \/ provider[i] = [status |-> "ACTIVE", phone |-> p]

\* Whatever staff wrote over the document in between, every seat that came from
\* an attempt was settled for its phone, by a payment of that attempt, and every
\* verifiedPayment still pending is a payment of the attempt that holds it, not
\* of one the same player had before.
SeatsArePaidFor ==
    /\ \A s \in participants :
          s.att # None => \E f \in settled : f.att = s.att /\ f.phone = s.phone
    /\ \A f \in settled : Backs(f.id, f.att, f.phone)
    /\ \A a \in Pending :
          pend[a].state = "PAID_PENDING_FINALIZATION" =>
             Backs(pend[a].evidence, a, pend[a].phone)

\* Whoever newly owns a seat, a place in the queue or an attempt was admitted
\* under the gender rule the document has at that very write, although the rule
\* was checked on an earlier read.
Owners == Seated \cup waitlist \cup {pend[a].phone : a \in Pending}
AdmissionFollowsRule ==
    [][\A p \in Owners' \ Owners : Admits(p)]_vars

\* The life of an attempt has one direction: what was unknown never becomes
\* unclaimed again, a provider id once written is never replaced, and the
\* attempt leaves the document only as a seat of its phone.
AttemptAdvances ==
    [][\A a \in Pending :
          \/ /\ pend'[a].state = "ABSENT"
             /\ [phone |-> pend[a].phone, att |-> a] \in participants'
             /\ pend[a].state = "PAID_PENDING_FINALIZATION"
          \/ /\ pend'[a].phone = pend[a].phone
             /\ pend[a].providerId \in {None, pend'[a].providerId}
             /\ pend'[a].state = "PROVIDER_CREATE_PENDING" => pend'[a] = pend[a]
             /\ pend[a].state = "PAID_PENDING_FINALIZATION" =>
                   pend'[a].state = "PAID_PENDING_FINALIZATION"
      ]_vars

\* A payment the customer made on a checkout that was bound to an attempt
\* becomes a seat, as long as somebody keeps asking for the confirmation.
PaidIsSeated ==
    \A a \in Attempts :
        ( /\ pend[a].kind = "TRANSACTION"
          /\ pend[a].state \in {"PENDING_PAYMENT", "PAID_PENDING_FINALIZATION"}
          /\ provider[pend[a].providerId].status = "PAID" )
        ~> (\E s \in settled : s.att = a)

-----------------------------------------------------------------------------
(* What the document means to the people registered in it.                 *)

PayingPhones == {pend[a].phone : a \in Pending}
PaidPhones == {pend[a].phone : a \in
    {b \in Attempts : pend[b].state = "PAID_PENDING_FINALIZATION"}}
Place == [p \in Phones |->
    IF p \in Seated THEN "SEATED"
    ELSE IF p \in waitlist THEN "QUEUED"
    ELSE IF p \in PayingPhones THEN "HELD" ELSE "NONE"]

Ledger == INSTANCE SeatLedger WITH
    seats <- Limit, place <- Place, settled <- PaidPhones

\* The guarded mutations, from any number of requests, implement the ledger.
ImplementsLedger == Ledger!Spec
=============================================================================
