----------------------------- MODULE MaxOutbox -----------------------------
(***************************************************************************)
(* The outbox of the MAX connectors under the receipt-v1 protocol: one     *)
(* MongoDB document per message to a client.  Poll requests claim pending  *)
(* commands, each claim under a fresh lease token; the connector outside   *)
(* hands a claimed message to the provider and reports what came of it     *)
(* with that token.  Polls and reports are cut at their database calls.    *)
(*                                                                         *)
(* Deadlines are compared by the clock of whatever process asks, so an     *)
(* unfinished lease may look expired, and a delayed command due, at any    *)
(* moment and to one process and not another.                              *)
(***************************************************************************)
EXTENDS Integers, FiniteSets

CONSTANTS
    Commands,     \* one connector's commands, numbered by createdAt and id
    Polls,        \* GET outbox/pull requests that may be running at once
    Reports,      \* POST ack and fail requests that may be running at once
    MaxAttempts,  \* MAX_DELIVERY_ATTEMPTS (5)
    Limit,        \* commands one poll may claim (at most 50)
    MaxLeases     \* bound on the claims of one command

ASSUME CommandsAssumption == Commands \subseteq Nat
ASSUME LimitsAssumption ==
    /\ MaxAttempts \in Nat \ {0} /\ Limit \in Nat \ {0} /\ MaxLeases \in Nat \ {0}

VARIABLES
    store,   \* the stored commands
    leases,  \* claims made of each command: the last of them is its latest token
    fate,    \* what the connector did with the message under each token
    poll,    \* local state of the polls
    report   \* local state of the reports

vars == <<store, leases, fate, poll, report>>

Tokens == 1..MaxLeases
Kinds == {"ack", "fail"}

\* What the provider may answer.  429 refuses for now and the other 4xx for
\* good; after a 5xx or a timeout the message may have been delivered.
Answers == {"ACCEPTED", "429", "4XX", "5XX", "TIMEOUT"}
\* A message the connector never gave to the provider.
Unsent == {"LOCAL_DEFERRED", "INVALID_INPUT"}
Fates == {"NONE", "CLAIMED", "HELD"} \cup Answers \cup Unsent
\* After these a message is known not to be on its way to the client, and may
\* be handed out again.
Repeatable == {"429", "LOCAL_DEFERRED"}

Categories == {"RATE_LIMITED", "PROVIDER_REFUSED", "DELIVERY_UNKNOWN",
               "INVALID_INPUT", "LOCAL_DEFERRED"}
Reasons == (Categories \ {"RATE_LIMITED", "LOCAL_DEFERRED"})
              \cup {"ATTEMPTS_EXHAUSTED"}

\* token 0: no leaseToken.  due later: nextAttemptAt is set.
NoReceipt == [token |-> 0, kind |-> "none"]
Unleased(status, attempts) ==
    [status |-> status, attempts |-> attempts, deferrals |-> 0, token |-> 0,
     due |-> "now", receipt |-> NoReceipt, reason |-> "none"]
Absent == Unleased("ABSENT", 0)
\* A command as createOutboxCommand (support.service.ts:2847) makes it.
Fresh == Unleased("PENDING", 0)

\* Rows of the time before the protocol: a lease without a token, whose message
\* may have been sent, and a command the old queue had tried again and again.
OldLease == Unleased("LEASED", 1)
OldBacklog == Unleased("PENDING", MaxAttempts)

IdlePoll == [pc |-> "IDLE", batch |-> {}]
IdleReport ==
    [pc |-> "IDLE", command |-> 0, token |-> 0, kind |-> "none", attempts |-> 0,
     deferrals |-> 0]

Init ==
    /\ store \in [Commands -> {Absent, OldLease, OldBacklog}]
    /\ leases = [c \in Commands |-> IF store[c] = OldLease THEN 1 ELSE 0]
    /\ fate = [c \in Commands |-> [n \in Tokens |->
                 IF store[c] = OldLease /\ n = 1 THEN "TIMEOUT" ELSE "NONE"]]
    /\ poll = [p \in Polls |-> IdlePoll]
    /\ report = [r \in Reports |-> IdleReport]

-----------------------------------------------------------------------------
(* Accepting a message for delivery.                                       *)

\* Variant: a process writes its snapshot of the command as it is.
EnqueueSnapshot(c) ==
    /\ store' = [store EXCEPT ![c] = Fresh]
    /\ UNCHANGED <<leases, fate, poll, report>>
\* Insert only: also a process that persists its stale snapshot again.
Enqueue(c) ==
    /\ store' = [store EXCEPT ![c] = IF @.status = "ABSENT" THEN Fresh ELSE @]
    /\ UNCHANGED <<leases, fate, poll, report>>

-----------------------------------------------------------------------------
(* pull.                                                                   *)

Step(p, label) == poll' = [poll EXCEPT ![p].pc = label]

Poll(p) ==
    /\ poll[p] = IdlePoll
    /\ Step(p, "SWEEP")
    /\ UNCHANGED <<store, leases, fate, report>>

Fail(c, reason) ==
    store' = [store EXCEPT ![c].status = "FAILED", ![c].reason = reason,
                           ![c].token = 0, ![c].due = "now"]

\* Variant: what nobody reported on in time is sent again.
SweepRequeues(p, c) ==
    /\ poll[p].pc = "SWEEP"
    /\ store[c].status = "LEASED"
    /\ store' = [store EXCEPT ![c].status = "PENDING", ![c].token = 0]
    /\ UNCHANGED <<leases, fate, poll, report>>
\* The sweeps visit one document after the other.
Sweep(p, c) ==
    /\ poll[p].pc = "SWEEP"
    /\ store[c].status = "LEASED"
    /\ Fail(c, "DELIVERY_UNKNOWN")
    /\ UNCHANGED <<leases, fate, poll, report>>
Swept(p) ==
    /\ poll[p].pc = "SWEEP"
    /\ Step(p, "EXHAUST")
    /\ UNCHANGED <<store, leases, fate, report>>

Exhaust(p, c) ==
    /\ poll[p].pc = "EXHAUST"
    /\ store[c].status = "PENDING" /\ store[c].attempts >= MaxAttempts
    /\ Fail(c, "ATTEMPTS_EXHAUSTED")
    /\ UNCHANGED <<leases, fate, poll, report>>
Exhausted(p) ==
    /\ poll[p].pc = "EXHAUST"
    /\ Step(p, "CLAIM")
    /\ UNCHANGED <<store, leases, fate, report>>

\* Variant: the limit is left to the sweep.
ClaimableAny == {c \in Commands : store[c].status = "PENDING"}
Claimable == {c \in Commands : store[c].status = "PENDING"
                                  /\ store[c].attempts < MaxAttempts}

\* The oldest of those that are due.
Claim(p, c) ==
    /\ poll[p].pc = "CLAIM" /\ Cardinality(poll[p].batch) < Limit
    /\ c \in Claimable
    /\ \A d \in Claimable : d < c => store[d].due = "later"
    /\ leases[c] < MaxLeases
    /\ leases' = [leases EXCEPT ![c] = @ + 1]
    /\ store' = [store EXCEPT
          ![c].status = "LEASED", ![c].token = leases[c] + 1,
          ![c].attempts = @ + 1, ![c].receipt = NoReceipt, ![c].due = "now"]
    /\ fate' = [fate EXCEPT ![c][leases[c] + 1] = "CLAIMED"]
    /\ poll' = [poll EXCEPT ![p].batch = @ \cup {<<c, leases[c] + 1>>}]
    /\ UNCHANGED report

Return(p) ==
    /\ poll[p].pc = "CLAIM"
    /\ fate' = [c \in Commands |-> [n \in Tokens |->
                  IF <<c, n>> \in poll[p].batch THEN "HELD" ELSE fate[c][n]]]
    /\ poll' = [poll EXCEPT ![p] = IdlePoll]
    /\ UNCHANGED <<store, leases, report>>

\* The budget of five seconds is used up, or the process ends: the caller gets
\* no part of the batch, and nobody takes the claims back.
PollStop(p) ==
    /\ poll[p] # IdlePoll
    /\ poll' = [poll EXCEPT ![p] = IdlePoll]
    /\ UNCHANGED <<store, leases, fate, report>>

-----------------------------------------------------------------------------
(* The connector: it reads no clock, so it may act long after the lease.   *)

Act(c, n, outcome) ==
    /\ fate[c][n] = "HELD"
    /\ fate' = [fate EXCEPT ![c][n] = outcome]
    /\ UNCHANGED <<store, leases, poll, report>>

-----------------------------------------------------------------------------
(* receipt.                                                                *)

maxFailure(answer) ==
    IF answer = "429" THEN "RATE_LIMITED"
    ELSE IF answer = "4XX" THEN "PROVIDER_REFUSED"
    ELSE IF answer \in Unsent THEN answer ELSE "DELIVERY_UNKNOWN"

Goto(r, label) == report' = [report EXCEPT ![r].pc = label]
Done(r) == report' = [report EXCEPT ![r] = IdleReport]

\* A report is made as often as the connector likes, with equal content.
Report(r, c, n) ==
    /\ report[r] = IdleReport
    /\ fate[c][n] \in Answers \cup Unsent
    /\ report' = [report EXCEPT ![r] =
          [IdleReport EXCEPT !.pc = "READ", !.command = c, !.token = n,
                             !.kind = IF fate[c][n] = "ACCEPTED" THEN "ack" ELSE "fail"]]
    /\ UNCHANGED <<store, leases, fate, poll>>

ReceiptOf(r) == [token |-> report[r].token, kind |-> report[r].kind]
Stored(r) == store[report[r].command]

Read(r) ==
    /\ report[r].pc = "READ"
    /\ IF Stored(r).receipt = ReceiptOf(r) THEN Goto(r, "ANSWERED")
       ELSE report' = [report EXCEPT ![r].pc = "WRITE",
                          ![r].attempts = Stored(r).attempts,
                          ![r].deferrals = Stored(r).deferrals]
    /\ UNCHANGED <<store, leases, fate, poll>>

\* Variant: whatever can be repeated gets its attempt back.
RestoredAlways(category, attempts) == attempts - 1
\* A claim that never reached the provider does not consume an attempt.
Restored(category, attempts) ==
    IF category = "LOCAL_DEFERRED" THEN attempts - 1 ELSE attempts

Acknowledged(row, receipt) ==
    [row EXCEPT !.status = "SENT", !.token = 0, !.receipt = receipt]

\* What a failure makes of the row, from the counters read before.
Failed(row, receipt, category, seen) ==
    LET retry == \/ category = "LOCAL_DEFERRED"
                 \/ category = "RATE_LIMITED" /\ seen.attempts < MaxAttempts
    IN  [row EXCEPT
            !.status = IF retry THEN "PENDING" ELSE "FAILED",
            !.token = 0, !.receipt = receipt, !.due = IF retry THEN "later" ELSE "now",
            !.attempts = IF retry THEN Restored(category, seen.attempts) ELSE @,
            !.deferrals = IF category = "LOCAL_DEFERRED" THEN seen.deferrals + 1 ELSE @,
            !.reason = IF retry THEN "none"
                       ELSE IF category = "RATE_LIMITED" THEN "ATTEMPTS_EXHAUSTED"
                       ELSE category]

Receipted(r) ==
    LET q == report[r] IN
    IF q.kind = "ack" THEN Acknowledged(Stored(r), ReceiptOf(r))
    ELSE Failed(Stored(r), ReceiptOf(r), maxFailure(fate[q.command][q.token]), q)

\* Variant: any lease of the command will do.
HoldsAnyLease(r) == Stored(r).status = "LEASED"
\* The lease reported on is the one the command is under, nothing else has been
\* counted since the read.
Holds(r) ==
    /\ Stored(r).status = "LEASED"
    /\ Stored(r).token = report[r].token
    /\ Stored(r).attempts = report[r].attempts

\* Executed, with or without an acknowledgement; or a miss, also because the
\* lease looks expired.
Write(r) ==
    /\ report[r].pc = "WRITE"
    /\ \/ /\ Holds(r)
          /\ store' = [store EXCEPT ![report[r].command] = Receipted(r)]
          /\ Goto(r, "ANSWERED") \/ Done(r)
       \/ /\ Goto(r, "READBACK")
          /\ UNCHANGED store
    /\ UNCHANGED <<leases, fate, poll>>

\* Variant: after a miss somebody must have written the receipt.
ReadbackAssumed(r) ==
    /\ report[r].pc = "READBACK"
    /\ Goto(r, "ANSWERED")
    /\ UNCHANGED <<store, leases, fate, poll>>
Readback(r) ==
    /\ report[r].pc = "READBACK"
    /\ IF Stored(r).receipt = ReceiptOf(r) THEN Goto(r, "ANSWERED") ELSE Done(r)
    /\ UNCHANGED <<store, leases, fate, poll>>

\* The answer has left; or an exception, or the end of the process.
ReportStop(r) ==
    /\ report[r] # IdleReport
    /\ Done(r)
    /\ UNCHANGED <<store, leases, fate, poll>>

-----------------------------------------------------------------------------
Pull(p) ==
    \/ Poll(p) \/ Swept(p) \/ Exhausted(p) \/ Return(p) \/ PollStop(p)
    \/ \E c \in Commands : Sweep(p, c) \/ Exhaust(p, c) \/ Claim(p, c)

Receipt(r) ==
    \/ \E c \in Commands, n \in Tokens : Report(r, c, n)
    \/ Read(r) \/ Write(r) \/ Readback(r) \/ ReportStop(r)

Next ==
    \/ \E c \in Commands : Enqueue(c)
    \/ \E p \in Polls : Pull(p)
    \/ \E c \in Commands, n \in Tokens, outcome \in Answers \cup Unsent :
          Act(c, n, outcome)
    \/ \E r \in Reports : Receipt(r)

Spec == Init /\ [][Next]_vars

-----------------------------------------------------------------------------
(* Properties.                                                             *)

Row == [status : {"ABSENT", "PENDING", "LEASED", "SENT", "FAILED"},
        attempts : 0..MaxAttempts, deferrals : Nat, token : 0..MaxLeases,
        due : {"now", "later"},
        receipt : [token : 0..MaxLeases, kind : Kinds \cup {"none"}],
        reason : Reasons \cup {"none"}]

\* The stored rows, tokens and handlers have their shapes; in particular a
\* retry never drives the attempts of a command below zero or past the limit.
TypeOK ==
    /\ store \in [Commands -> Row]
    /\ leases \in [Commands -> 0..MaxLeases]
    /\ fate \in [Commands -> [Tokens -> Fates]]
    /\ poll \in [Polls -> [pc : {"IDLE", "SWEEP", "EXHAUST", "CLAIM"},
                           batch : SUBSET (Commands \X Tokens)]]
    /\ report \in [Reports ->
          [pc : {"IDLE", "READ", "WRITE", "READBACK", "ANSWERED"},
           command : Commands \cup {0}, token : 0..MaxLeases,
           kind : Kinds \cup {"none"}, attempts : 0..MaxAttempts, deferrals : Nat]]

\* A message is claimed again only after every earlier claim is known not to
\* have delivered it: lost polls, reports repeated, late or lost, expired
\* leases, leases of the old protocol and stale snapshots included.
NeverResent ==
    \A c \in Commands : \A n \in Tokens :
        n < leases[c] => fate[c][n] \in Repeatable

\* The provider is asked at most MaxAttempts times for one message, however
\* often the connector put it off.
Transports(c) == {n \in Tokens : fate[c][n] \in Answers}
SendBudget == \A c \in Commands : Cardinality(Transports(c)) =< MaxAttempts

\* What the outbox says of a message is what became of it under its last lease;
\* only DELIVERY_UNKNOWN may hide anything.
Last(c) == fate[c][leases[c]]
OutcomeTrue ==
    \A c \in Commands :
        /\ store[c].status = "SENT" => Last(c) = "ACCEPTED"
        /\ store[c].reason = "PROVIDER_REFUSED" => Last(c) = "4XX"
        /\ store[c].reason = "INVALID_INPUT" => Last(c) = "INVALID_INPUT"
        /\ store[c].reason = "ATTEMPTS_EXHAUSTED" =>
              leases[c] = 0 \/ Last(c) = "429"

\* A report answered with success is recorded: an ack has made the command
\* SENT for good, a failure is its last receipt or was followed by a new claim.
AnswerDurable ==
    \A r \in Reports : report[r].pc = "ANSWERED" =>
        IF report[r].kind = "ack" THEN Stored(r).status = "SENT"
        ELSE \/ Stored(r).receipt = ReceiptOf(r)
             \/ leases[report[r].command] > report[r].token

\* A command that is SENT or FAILED never changes again.
TerminalStays ==
    [][\A c \in Commands :
          store[c].status \in {"SENT", "FAILED"} => store'[c] = store[c]]_vars
=============================================================================
