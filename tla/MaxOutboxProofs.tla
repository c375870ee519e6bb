-------------------------- MODULE MaxOutboxProofs --------------------------
(***************************************************************************)
(* Proofs about MaxOutbox for any number of commands, polls and reports,   *)
(* any limits and any number of leases.                                    *)
(***************************************************************************)
EXTENDS MaxOutbox, FiniteSetTheorems, TLAPS

-----------------------------------------------------------------------------
(* The inductive invariant.                                                *)

Settled == Answers \cup Unsent

\* What a stored command and the fates of its leases have to do with each other.
Books(c) ==
    /\ \A n \in Tokens : fate[c][n] = "NONE" <=> leases[c] < n
    /\ \A n \in Tokens : n < leases[c] => fate[c][n] \in Repeatable
    /\ store[c].status = "ABSENT" => leases[c] = 0
    /\ leases[c] = 0 =>
          /\ store[c].status # "SENT"
          /\ store[c].reason \in {"none", "DELIVERY_UNKNOWN", "ATTEMPTS_EXHAUSTED"}
    /\ store[c].status = "PENDING" /\ leases[c] # 0 =>
          Last(c) \in Repeatable /\ store[c].attempts < MaxAttempts
    /\ store[c].status = "LEASED" =>
          /\ store[c].token \in {0, leases[c]}
          /\ store[c].attempts > 0
          /\ store[c].receipt = NoReceipt
    /\ store[c].status # "FAILED" => store[c].reason = "none"
    /\ store[c].receipt # NoReceipt =>
          /\ store[c].receipt.token \in Tokens
          /\ store[c].receipt.token = leases[c]
          /\ store[c].receipt.kind = "ack" => store[c].status = "SENT"
BooksKept == \A c \in Commands : Books(c)

\* A claim no poll has handed over yet is in the batch of one poll at most.
BatchesClaimed ==
    \A p \in Polls, c \in Commands, n \in Tokens : <<c, n>> \in poll[p].batch =>
        /\ fate[c][n] = "CLAIMED"
        /\ \A q \in Polls : q # p => <<c, n>> \notin poll[q].batch

\* A report is about a lease whose fate is settled, and tells the truth.
Reported(r) ==
    report[r].pc # "IDLE" =>
        /\ report[r].command \in Commands
        /\ report[r].token \in Tokens
        /\ report[r].kind \in Kinds
        /\ fate[report[r].command][report[r].token] \in Settled
        /\ report[r].kind = "ack"
              <=> fate[report[r].command][report[r].token] = "ACCEPTED"
ReportsTrue == \A r \in Reports : Reported(r)

Inv == /\ TypeOK /\ BooksKept /\ BatchesClaimed /\ ReportsTrue
       /\ OutcomeTrue /\ AnswerDurable

LEMMA InitialRows ==
    /\ {Absent, Fresh, OldLease, OldBacklog} \subseteq Row
    /\ Absent.status = "ABSENT" /\ Fresh.status = "PENDING"
    /\ OldLease.status = "LEASED" /\ OldLease.token = 0 /\ OldLease.attempts = 1
    /\ OldBacklog.status = "PENDING"
    /\ \A row \in {Absent, Fresh, OldLease, OldBacklog} :
          row.reason = "none" /\ row.receipt = NoReceipt
BY LimitsAssumption DEF Row, Unleased, Absent, Fresh, OldLease, OldBacklog, NoReceipt,
                        Kinds, Reasons

LEMMA InitInv == Init => Inv
<1>. SUFFICES ASSUME Init PROVE Inv
  OBVIOUS
<1>. USE LimitsAssumption, CommandsAssumption
<1>1. TypeOK
  <2>1. store \in [Commands -> Row]
    BY InitialRows DEF Init
  <2>. QED
    BY <2>1 DEF Init, TypeOK, IdlePoll, IdleReport, Fates, Tokens, Kinds, Answers
<1>2. \A c \in Commands :
        /\ store[c] \in {Absent, OldLease, OldBacklog}
        /\ leases[c] = IF store[c] = OldLease THEN 1 ELSE 0
        /\ \A n \in Tokens :
              fate[c][n] = IF store[c] = OldLease /\ n = 1 THEN "TIMEOUT" ELSE "NONE"
  BY DEF Init
<1>3. BooksKept /\ OutcomeTrue
  <2>. SUFFICES ASSUME NEW c \in Commands
                PROVE  /\ Books(c)
                       /\ store[c].status # "SENT" /\ store[c].reason = "none"
    BY DEF BooksKept, OutcomeTrue
  <2>3. store[c].reason = "none" /\ store[c].receipt = NoReceipt /\ store[c].status # "SENT"
    BY <1>2, InitialRows
  <2>1. CASE store[c] = OldLease
    BY <1>2, <2>1, <2>3, InitialRows DEF Books, Tokens
  <2>2. CASE store[c] # OldLease
    <3>1. leases[c] = 0 /\ \A n \in Tokens : fate[c][n] = "NONE"
      BY <1>2, <2>2
    <3>2. store[c].status # "LEASED"
      BY <1>2, <2>2, InitialRows
    <3>. QED
      BY <3>1, <3>2, <2>3 DEF Books, Tokens
  <2>. QED
    BY <2>1, <2>2
<1>4. BatchesClaimed /\ ReportsTrue /\ AnswerDurable
  BY DEF Init, BatchesClaimed, ReportsTrue, Reported, AnswerDurable, IdlePoll, IdleReport
<1>. QED
  BY <1>1, <1>3, <1>4 DEF Inv

LEMMA UnchangedInv == Inv /\ UNCHANGED vars => Inv'
BY DEF vars, Inv, TypeOK, BooksKept, Books, BatchesClaimed, ReportsTrue, Reported,
       OutcomeTrue, Last, AnswerDurable, Stored, ReceiptOf

\* The lease a report is about has been claimed.
LEMMA ReportedLease ==
    ASSUME Inv, NEW r \in Reports, report[r].pc # "IDLE"
    PROVE  /\ report[r].command \in Commands /\ report[r].token \in Tokens
           /\ report[r].kind \in Kinds
           /\ report[r].token =< leases[report[r].command]
<1>1. /\ report[r].command \in Commands /\ report[r].token \in Tokens
      /\ report[r].kind \in Kinds
      /\ fate[report[r].command][report[r].token] # "NONE"
  BY DEF Inv, ReportsTrue, Reported, Settled, Answers, Unsent
<1>2. leases[report[r].command] \in Nat /\ report[r].token \in Nat
  BY <1>1, LimitsAssumption DEF Inv, TypeOK, Tokens
<1>3. ~(leases[report[r].command] < report[r].token)
  BY <1>1 DEF Inv, BooksKept, Books
<1>. QED
  BY <1>1, <1>2, <1>3

-----------------------------------------------------------------------------
(* Steps of a poll.                                                        *)

LEMMA PollMoves ==
    ASSUME Inv, NEW p \in Polls, Poll(p) \/ Swept(p) \/ Exhausted(p) \/ PollStop(p)
    PROVE  Inv'
<1>1. UNCHANGED <<store, leases, fate, report>>
  BY DEF Poll, Swept, Exhausted, PollStop
<1>2. \/ poll' = [poll EXCEPT ![p] = IdlePoll]
      \/ \E label \in {"SWEEP", "EXHAUST", "CLAIM"} :
            poll' = [poll EXCEPT ![p].pc = label]
  BY DEF Poll, Swept, Exhausted, PollStop, Step
<1>. poll \in [Polls -> [pc : {"IDLE", "SWEEP", "EXHAUST", "CLAIM"},
                        batch : SUBSET (Commands \X Tokens)]]
  BY DEF Inv, TypeOK
<1>5. /\ poll' \in [Polls -> [pc : {"IDLE", "SWEEP", "EXHAUST", "CLAIM"},
                              batch : SUBSET (Commands \X Tokens)]]
      /\ \A q \in Polls : poll'[q].batch \subseteq poll[q].batch
  <2>1. CASE poll' = [poll EXCEPT ![p] = IdlePoll]
    BY <2>1 DEF IdlePoll
  <2>2. ASSUME NEW label \in {"SWEEP", "EXHAUST", "CLAIM"},
               poll' = [poll EXCEPT ![p].pc = label]
        PROVE  /\ poll' \in [Polls -> [pc : {"IDLE", "SWEEP", "EXHAUST", "CLAIM"},
                                        batch : SUBSET (Commands \X Tokens)]]
               /\ \A q \in Polls : poll'[q].batch \subseteq poll[q].batch
    BY <2>2
  <2>. QED
    BY <1>2, <2>1, <2>2
<1>3. TypeOK'
  BY <1>1, <1>5 DEF Inv, TypeOK
<1>6. fate' = fate
  BY <1>1
<1>4. BatchesClaimed'
  <2>1. ASSUME NEW q \in Polls, NEW c \in Commands, NEW n \in Tokens,
               <<c, n>> \in poll'[q].batch
        PROVE  /\ fate'[c][n] = "CLAIMED"
               /\ \A o \in Polls : o # q => <<c, n>> \notin poll'[o].batch
    <3>1. <<c, n>> \in poll[q].batch
      BY <1>5, <2>1
    <3>. QED
      BY <3>1, <1>5, <1>6 DEF Inv, BatchesClaimed
  <2>. QED
    BY <2>1 DEF BatchesClaimed
<1>. QED
  BY <1>1, <1>3, <1>4 DEF Inv, BooksKept, Books, ReportsTrue, Reported, OutcomeTrue, Last,
                          AnswerDurable, Stored, ReceiptOf

\* Only the row changes, and that to one that keeps the books.
LEMMA RowChanges ==
    ASSUME Inv, NEW c \in Commands, NEW row \in Row,
           store' = [store EXCEPT ![c] = row], UNCHANGED <<leases, fate, poll, report>>,
           store[c].status \in {"ABSENT", "PENDING", "LEASED"},
           row.receipt = store[c].receipt,
           row.status = "PENDING" =>
              store[c].status = "ABSENT" /\ row.reason = "none",
           row.status \in {"PENDING", "FAILED"},
           row.reason \in {"none", "DELIVERY_UNKNOWN", "ATTEMPTS_EXHAUSTED"},
           row.reason = "ATTEMPTS_EXHAUSTED" => leases[c] = 0
    PROVE  Inv'
<1>1. TypeOK'
  BY DEF Inv, TypeOK
<1>2. \A d \in Commands : d # c => store'[d] = store[d]
  BY DEF Inv, TypeOK
<1>3. store'[c] = row
  BY DEF Inv, TypeOK
<1>4. BooksKept'
  <2>1. \A d \in Commands : d # c => Books(d)'
    BY <1>2 DEF Inv, BooksKept, Books, Last
  <2>2. Books(c)'
    BY <1>3 DEF Inv, BooksKept, Books, Last
  <2>. QED
    BY <2>1, <2>2 DEF BooksKept
<1>5. OutcomeTrue'
  BY <1>2, <1>3 DEF Inv, OutcomeTrue, Last
<1>6. AnswerDurable'
  BY <1>2, <1>3 DEF Inv, AnswerDurable, Stored, ReceiptOf, ReportsTrue, Reported
<1>. QED
  BY <1>1, <1>4, <1>5, <1>6 DEF Inv, BatchesClaimed, ReportsTrue, Reported

LEMMA EnqueueInv == ASSUME Inv, NEW c \in Commands, Enqueue(c) PROVE Inv'
<1>1. CASE store[c].status = "ABSENT"
  <2>1. store' = [store EXCEPT ![c] = Fresh]
    BY <1>1 DEF Enqueue
  <2>2. store[c].receipt = NoReceipt
    BY <1>1 DEF Inv, BooksKept, Books, Tokens
  <2>. QED
    BY <1>1, <2>1, <2>2, InitialRows, RowChanges DEF Enqueue
<1>2. CASE store[c].status # "ABSENT"
  <2>1. UNCHANGED vars
    BY <1>2 DEF Enqueue, vars, Inv, TypeOK
  <2>. QED
    BY <2>1, UnchangedInv
<1>. QED
  BY <1>1, <1>2

GivenUp(x, why) ==
    [x EXCEPT !.status = "FAILED", !.reason = why, !.token = 0, !.due = "now"]

LEMMA FailedRow ==
    ASSUME NEW x \in Row, NEW why \in {"DELIVERY_UNKNOWN", "ATTEMPTS_EXHAUSTED"}
    PROVE  /\ GivenUp(x, why) \in Row
           /\ GivenUp(x, why).status = "FAILED" /\ GivenUp(x, why).reason = why
           /\ GivenUp(x, why).receipt = x.receipt /\ GivenUp(x, why).attempts = x.attempts
<1>. USE LimitsAssumption DEF Row, Kinds, Reasons, Categories
<1>1. PICK a : a = [x EXCEPT !.status = "FAILED"]
  OBVIOUS
<1>2. /\ a \in Row /\ a.status = "FAILED" /\ a.receipt = x.receipt /\ a.attempts = x.attempts
  BY <1>1
<1>3. PICK b : b = [a EXCEPT !.reason = why]
  OBVIOUS
<1>4. /\ b \in Row /\ b.status = "FAILED" /\ b.receipt = x.receipt
      /\ b.attempts = x.attempts /\ b.reason = why
  BY <1>2, <1>3
<1>5. PICK d : d = [b EXCEPT !.token = 0]
  OBVIOUS
<1>6. /\ d \in Row /\ d.status = "FAILED" /\ d.receipt = x.receipt
      /\ d.attempts = x.attempts /\ d.reason = why
  BY <1>4, <1>5
<1>7. PICK e : e = [d EXCEPT !.due = "now"]
  OBVIOUS
<1>8. /\ e \in Row /\ e.status = "FAILED" /\ e.receipt = x.receipt
      /\ e.attempts = x.attempts /\ e.reason = why
  BY <1>6, <1>7
<1>9. GivenUp(x, why) = e
  BY <1>1, <1>3, <1>5, <1>7, Zenon DEF GivenUp
<1>. QED
  BY <1>8, <1>9, Zenon

LEMMA SweepInv ==
    ASSUME Inv, NEW p \in Polls, NEW c \in Commands, Sweep(p, c) \/ Exhaust(p, c)
    PROVE  Inv'
<1>0. store[c] \in Row
  BY DEF Inv, TypeOK
<1>2. CASE Sweep(p, c)
  <2>1. store' = [store EXCEPT ![c] = GivenUp(store[c], "DELIVERY_UNKNOWN")]
    BY <1>2 DEF Sweep, Fail, GivenUp
  <2>. QED
    BY <1>0, <1>2, <2>1, FailedRow, RowChanges DEF Sweep
<1>3. CASE Exhaust(p, c)
  <2>1. store' = [store EXCEPT ![c] = GivenUp(store[c], "ATTEMPTS_EXHAUSTED")]
    BY <1>3 DEF Exhaust, Fail, GivenUp
  <2>2. leases[c] = 0
    BY <1>0, <1>3, LimitsAssumption DEF Exhaust, Inv, BooksKept, Books, Row
  <2>. QED
    BY <1>0, <1>3, <2>1, <2>2, FailedRow, RowChanges DEF Exhaust
<1>. QED
  BY <1>2, <1>3

Leased(x, n) ==
    [x EXCEPT !.status = "LEASED", !.token = n, !.attempts = @ + 1,
              !.receipt = NoReceipt, !.due = "now"]

LEMMA LeasedRow ==
    ASSUME NEW x \in Row, NEW n \in Tokens, x.attempts < MaxAttempts
    PROVE  /\ Leased(x, n) \in Row
           /\ Leased(x, n).status = "LEASED" /\ Leased(x, n).token = n
           /\ Leased(x, n).attempts > 0 /\ Leased(x, n).attempts = x.attempts + 1
           /\ Leased(x, n).receipt = NoReceipt /\ Leased(x, n).reason = x.reason
<1>. USE LimitsAssumption DEF Row, Kinds, Reasons, Categories, Tokens
<1>1. PICK a : a = [x EXCEPT !.status = "LEASED"]
  OBVIOUS
<1>2. a \in Row /\ a.status = "LEASED" /\ a.reason = x.reason /\ a.attempts = x.attempts
  BY <1>1
<1>3. PICK b : b = [a EXCEPT !.token = n]
  OBVIOUS
<1>4. /\ b \in Row /\ b.status = "LEASED" /\ b.reason = x.reason
      /\ b.attempts = x.attempts /\ b.token = n
  BY <1>2, <1>3
<1>5. PICK d : d = [b EXCEPT !.attempts = @ + 1]
  OBVIOUS
<1>6. /\ d \in Row /\ d.status = "LEASED" /\ d.reason = x.reason
      /\ d.attempts = x.attempts + 1 /\ d.token = n
  BY <1>4, <1>5
<1>7. PICK e : e = [d EXCEPT !.receipt = NoReceipt]
  OBVIOUS
<1>8. /\ e \in Row /\ e.status = "LEASED" /\ e.reason = x.reason
      /\ e.attempts = x.attempts + 1 /\ e.token = n /\ e.receipt = NoReceipt
  BY <1>6, <1>7 DEF NoReceipt
<1>9. PICK f : f = [e EXCEPT !.due = "now"]
  OBVIOUS
<1>10. /\ f \in Row /\ f.status = "LEASED" /\ f.reason = x.reason
       /\ f.attempts = x.attempts + 1 /\ f.token = n /\ f.receipt = NoReceipt
  BY <1>8, <1>9
<1>11. Leased(x, n) = f
  BY <1>1, <1>3, <1>5, <1>7, <1>9, Zenon DEF Leased
<1>. QED
  <2>1. f.attempts > 0
    BY <1>10
  <2>. QED
    BY <1>10, <1>11, <2>1, Zenon

LEMMA ClaimInv ==
    ASSUME Inv, NEW p \in Polls, NEW c \in Commands, Claim(p, c)
    PROVE  Inv'
<1>. DEFINE n == leases[c] + 1
<1>1. /\ store[c] \in Row /\ leases[c] \in 0..MaxLeases /\ n \in Tokens
      /\ store[c].status = "PENDING" /\ store[c].attempts < MaxAttempts
  BY LimitsAssumption DEF Inv, TypeOK, Claim, Claimable, Tokens
<1>2. store' = [store EXCEPT ![c] = Leased(store[c], n)]
  BY DEF Claim, Leased
<1>3. /\ leases' = [leases EXCEPT ![c] = n]
      /\ fate' = [fate EXCEPT ![c][n] = "CLAIMED"]
      /\ poll' = [poll EXCEPT ![p].batch = @ \cup {<<c, n>>}]
      /\ report' = report
  BY DEF Claim
<1>. HIDE DEF n
<1>4. /\ store'[c] \in Row /\ store'[c].status = "LEASED" /\ store'[c].token = n
      /\ store'[c].attempts > 0
      /\ store'[c].receipt = NoReceipt /\ store'[c].reason = "none"
      /\ \A d \in Commands : d # c => store'[d] = store[d]
      /\ store' \in [Commands -> Row]
  BY <1>1, <1>2, LeasedRow DEF Inv, TypeOK, BooksKept, Books
<1>5. /\ leases' \in [Commands -> 0..MaxLeases] /\ leases'[c] = n
      /\ \A d \in Commands : d # c => leases'[d] = leases[d]
  BY <1>1, <1>3, LimitsAssumption DEF Inv, TypeOK, Tokens
<1>6. /\ fate' \in [Commands -> [Tokens -> Fates]] /\ fate'[c][n] = "CLAIMED"
      /\ \A d \in Commands : d # c => fate'[d] = fate[d]
      /\ \A d \in Commands, m \in Tokens :
            d # c \/ m # n => fate'[d][m] = fate[d][m]
  BY <1>1, <1>3 DEF Inv, TypeOK, Fates
<1>7. /\ poll' \in [Polls -> [pc : {"IDLE", "SWEEP", "EXHAUST", "CLAIM"},
                              batch : SUBSET (Commands \X Tokens)]]
      /\ poll'[p].batch = poll[p].batch \cup {<<c, n>>}
      /\ \A q \in Polls : q # p => poll'[q].batch = poll[q].batch
  BY <1>1, <1>3 DEF Inv, TypeOK
<1>8. fate[c][n] = "NONE"
  BY <1>1, LimitsAssumption DEF Inv, BooksKept, Books, n, Tokens
<1>9. TypeOK'
  BY <1>3, <1>4, <1>5, <1>6, <1>7 DEF Inv, TypeOK
<1>10. BooksKept'
  <2>1. ASSUME NEW d \in Commands, d # c PROVE Books(d)'
    <3>1. store'[d] = store[d] /\ leases'[d] = leases[d] /\ fate'[d] = fate[d]
      BY <2>1, <1>4, <1>5, <1>6
    <3>. QED
      BY <3>1 DEF Inv, BooksKept, Books, Last
  <2>2. \A m \in Tokens : fate'[c][m] = "NONE" <=> leases'[c] < m
    BY <1>1, <1>5, <1>6, LimitsAssumption DEF Inv, BooksKept, Books, n, Tokens
  <2>3. \A m \in Tokens : m < leases'[c] => fate'[c][m] \in Repeatable
    BY <1>1, <1>5, <1>6, LimitsAssumption DEF Inv, BooksKept, Books, Last, n, Tokens
  <2>4. Books(c)'
    BY <2>2, <2>3, <1>4, <1>5 DEF Books
  <2>. QED
    BY <2>1, <2>4 DEF BooksKept
<1>11. BatchesClaimed'
  <2>1. ASSUME NEW q \in Polls, NEW d \in Commands, NEW m \in Tokens,
               <<d, m>> \in poll'[q].batch
        PROVE  /\ fate'[d][m] = "CLAIMED"
               /\ \A o \in Polls : o # q => <<d, m>> \notin poll'[o].batch
    <3>1. CASE d = c /\ m = n
      BY <2>1, <3>1, <1>6, <1>7, <1>8, <1>1 DEF Inv, BatchesClaimed
    <3>2. CASE d # c \/ m # n
      <4>1. \A o \in Polls : <<d, m>> \in poll'[o].batch <=> <<d, m>> \in poll[o].batch
        <5>1. <<d, m>> # <<c, n>>
          BY <3>2
        <5>. QED
          BY <5>1, <1>7
      <4>2. <<d, m>> \in poll[q].batch
        BY <2>1, <4>1
      <4>3. /\ fate[d][m] = "CLAIMED"
            /\ \A o \in Polls : o # q => <<d, m>> \notin poll[o].batch
        BY <4>2 DEF Inv, BatchesClaimed
      <4>. QED
        BY <3>2, <4>1, <4>3, <1>6
    <3>. QED
      BY <3>1, <3>2
  <2>. QED
    BY <2>1 DEF BatchesClaimed
<1>12. ReportsTrue'
  BY <1>3, <1>6, <1>8 DEF Inv, ReportsTrue, Reported, Settled, Answers, Unsent
<1>13. OutcomeTrue'
  <2>1. \A d \in Commands : d # c => fate'[d] = fate[d]
    BY <1>6
  <2>3. store'[c].status # "SENT" /\ store'[c].reason = "none"
    BY <1>4
  <2>4. \A d \in Commands : d # c => store'[d] = store[d] /\ leases'[d] = leases[d]
    BY <1>4, <1>5
  <2>. QED
    BY <2>1, <2>3, <2>4 DEF Inv, OutcomeTrue, Last
<1>14. AnswerDurable'
  <2>. SUFFICES ASSUME NEW r \in Reports, report[r].pc = "ANSWERED"
                PROVE  IF report[r].kind = "ack" THEN store'[report[r].command].status = "SENT"
                       ELSE \/ store'[report[r].command].receipt
                                  = [token |-> report[r].token, kind |-> report[r].kind]
                            \/ leases'[report[r].command] > report[r].token
    BY <1>3 DEF AnswerDurable, Stored, ReceiptOf
  <2>1. /\ report[r].command \in Commands /\ report[r].token \in Tokens
        /\ report[r].token =< leases[report[r].command]
    BY ReportedLease
  <2>2. CASE report[r].command = c
    <3>1. leases'[c] > report[r].token
      BY <1>1, <1>5, <2>1, <2>2, LimitsAssumption DEF n, Tokens
    <3>2. report[r].kind # "ack"
      BY <1>1, <2>2 DEF Inv, AnswerDurable, Stored
    <3>. QED
      BY <2>2, <3>1, <3>2
  <2>3. CASE report[r].command # c
    BY <1>4, <1>5, <2>1, <2>3 DEF Inv, AnswerDurable, Stored, ReceiptOf
  <2>. QED
    BY <2>2, <2>3
<1>. QED
  BY <1>9, <1>10, <1>11, <1>12, <1>13, <1>14 DEF Inv

\* Fates change only from one that is neither settled nor final.
LEMMA FatesChange ==
    ASSUME Inv, UNCHANGED <<store, leases, report>>, TypeOK', BatchesClaimed',
           \A c \in Commands, n \in Tokens : fate'[c][n] # fate[c][n] =>
              /\ fate[c][n] \in {"CLAIMED", "HELD"}
              /\ fate'[c][n] # "NONE"
    PROVE  Inv'
<1>1. \A c \in Commands, n \in Tokens :
        /\ fate'[c][n] = "NONE" <=> fate[c][n] = "NONE"
        /\ fate[c][n] \in Repeatable => fate'[c][n] = fate[c][n]
        /\ fate[c][n] \in Settled => fate'[c][n] = fate[c][n]
  BY DEF Repeatable, Settled, Answers, Unsent
<1>2. \A c \in Commands : leases[c] # 0 => leases[c] \in Tokens
  BY LimitsAssumption DEF Inv, TypeOK, Tokens
<1>3. BooksKept'
  <2>. SUFFICES ASSUME NEW c \in Commands PROVE Books(c)'
    BY DEF BooksKept
  <2>1. Books(c)
    BY DEF Inv, BooksKept
  <2>2. /\ \A n \in Tokens : fate'[c][n] = "NONE" <=> leases'[c] < n
        /\ \A n \in Tokens : n < leases'[c] => fate'[c][n] \in Repeatable
    BY <1>1, <2>1 DEF Books
  <2>3. leases[c] # 0 /\ Last(c) \in Repeatable => Last(c)' \in Repeatable
    BY <1>1, <1>2 DEF Last
  <2>. QED
    BY <2>1, <2>2, <2>3 DEF Books
<1>4. ReportsTrue'
  BY <1>1 DEF Inv, ReportsTrue, Reported
<1>5. OutcomeTrue'
  <2>. SUFFICES ASSUME NEW c \in Commands
                PROVE  /\ store[c].status = "SENT" => Last(c)' = "ACCEPTED"
                       /\ store[c].reason = "PROVIDER_REFUSED" => Last(c)' = "4XX"
                       /\ store[c].reason = "INVALID_INPUT" => Last(c)' = "INVALID_INPUT"
                       /\ store[c].reason = "ATTEMPTS_EXHAUSTED" =>
                            leases[c] = 0 \/ Last(c)' = "429"
    BY DEF OutcomeTrue, Last
  <2>1. CASE leases[c] # 0
    <3>1. Last(c) \in Settled => Last(c)' = Last(c)
      BY <1>1, <1>2, <2>1 DEF Last
    <3>. QED
      BY <3>1 DEF Inv, OutcomeTrue, Settled, Answers, Unsent
  <2>2. CASE leases[c] = 0
    BY <2>2 DEF Inv, BooksKept, Books
  <2>. QED
    BY <2>1, <2>2
<1>. QED
  BY <1>3, <1>4, <1>5 DEF Inv, AnswerDurable, Stored, ReceiptOf

LEMMA ReturnInv == ASSUME Inv, NEW p \in Polls, Return(p) PROVE Inv'
<1>1. /\ UNCHANGED <<store, leases, report>>
      /\ poll' = [poll EXCEPT ![p] = IdlePoll]
      /\ \A c \in Commands, n \in Tokens :
            fate'[c][n] = IF <<c, n>> \in poll[p].batch THEN "HELD" ELSE fate[c][n]
  BY DEF Return
<1>2. \A c \in Commands, n \in Tokens : fate'[c][n] # fate[c][n] =>
        fate[c][n] = "CLAIMED" /\ fate'[c][n] = "HELD"
  BY <1>1 DEF Inv, BatchesClaimed
<1>3. TypeOK'
  <2>1. poll' \in [Polls -> [pc : {"IDLE", "SWEEP", "EXHAUST", "CLAIM"},
                             batch : SUBSET (Commands \X Tokens)]]
    BY <1>1 DEF Inv, TypeOK, IdlePoll
  <2>2. \A c \in Commands, n \in Tokens : fate[c][n] \in Fates
    BY DEF Inv, TypeOK
  <2>3. fate' \in [Commands -> [Tokens -> Fates]]
    BY <2>2 DEF Return, Fates
  <2>. QED
    BY <1>1, <2>1, <2>3 DEF Inv, TypeOK
<1>4. BatchesClaimed'
  <2>1. ASSUME NEW q \in Polls, NEW c \in Commands, NEW n \in Tokens,
               <<c, n>> \in poll'[q].batch
        PROVE  /\ fate'[c][n] = "CLAIMED"
               /\ \A o \in Polls : o # q => <<c, n>> \notin poll'[o].batch
    <3>1. /\ q # p /\ poll'[p].batch = {}
          /\ \A o \in Polls : o # p => poll'[o] = poll[o]
      BY <1>1, <2>1 DEF Inv, TypeOK, IdlePoll
    <3>2. /\ fate[c][n] = "CLAIMED" /\ <<c, n>> \notin poll[p].batch
          /\ \A o \in Polls : o # q => <<c, n>> \notin poll[o].batch
      BY <2>1, <3>1 DEF Inv, BatchesClaimed
    <3>. QED
      BY <1>1, <3>1, <3>2
  <2>. QED
    BY <2>1 DEF BatchesClaimed
<1>. QED
  BY <1>1, <1>2, <1>3, <1>4, FatesChange

LEMMA ActInv ==
    ASSUME Inv, NEW c \in Commands, NEW n \in Tokens, NEW outcome \in Settled,
           Act(c, n, outcome)
    PROVE  Inv'
<1>1. UNCHANGED <<store, leases, poll, report>> /\ fate[c][n] = "HELD"
  BY DEF Act
<1>2. /\ fate' \in [Commands -> [Tokens -> Fates]]
      /\ \A d \in Commands, m \in Tokens : fate'[d][m] # fate[d][m] =>
            /\ fate[d][m] = "HELD" /\ fate'[d][m] = outcome
  BY DEF Act, Inv, TypeOK, Fates, Settled
<1>3. TypeOK'
  BY <1>1, <1>2 DEF Inv, TypeOK
<1>4. BatchesClaimed'
  <2>1. \A d \in Commands, m \in Tokens : fate[d][m] = "CLAIMED" => fate'[d][m] = "CLAIMED"
    BY <1>2
  <2>. QED
    BY <1>1, <2>1 DEF Inv, BatchesClaimed
<1>. QED
  BY <1>1, <1>2, <1>3, <1>4, FatesChange DEF Settled, Answers, Unsent

-----------------------------------------------------------------------------
(* Steps of a report.                                                      *)

ReportType == [pc : {"IDLE", "READ", "WRITE", "READBACK", "ANSWERED"},
               command : Commands \cup {0}, token : 0..MaxLeases,
               kind : Kinds \cup {"none"}, attempts : 0..MaxAttempts, deferrals : Nat]

\* Only the report moves, and it answers only when the receipt is its own.
LEMMA ReportMoves ==
    ASSUME Inv, NEW r \in Reports, NEW x \in ReportType,
           report' = [report EXCEPT ![r] = x], UNCHANGED <<store, leases, fate, poll>>,
           x.pc # "IDLE" =>
              /\ x.command \in Commands /\ x.token \in Tokens /\ x.kind \in Kinds
              /\ fate[x.command][x.token] \in Settled
              /\ x.kind = "ack" <=> fate[x.command][x.token] = "ACCEPTED",
           x.pc = "ANSWERED" =>
              store[x.command].receipt = [token |-> x.token, kind |-> x.kind]
    PROVE  Inv'
<1>1. /\ report'[r] = x /\ report' \in [Reports -> ReportType]
      /\ \A q \in Reports : q # r => report'[q] = report[q]
  BY DEF Inv, TypeOK, ReportType
<1>2. TypeOK'
  BY <1>1 DEF Inv, TypeOK, ReportType
<1>3. ReportsTrue'
  BY <1>1 DEF Inv, ReportsTrue, Reported
<1>4. ASSUME x.pc = "ANSWERED", x.kind = "ack" PROVE store[x.command].status = "SENT"
  <2>1. /\ x.command \in Commands /\ x.token \in Tokens
        /\ store[x.command].receipt = [token |-> x.token, kind |-> x.kind]
    BY <1>4
  <2>2. x.token # 0
    BY <2>1, LimitsAssumption DEF Tokens
  <2>3. /\ store[x.command].receipt # NoReceipt
        /\ store[x.command].receipt.kind = "ack"
    BY <1>4, <2>1, <2>2 DEF NoReceipt
  <2>. QED
    BY <2>1, <2>3 DEF Inv, BooksKept, Books
<1>5. AnswerDurable'
  BY <1>1, <1>4 DEF Inv, AnswerDurable, Stored, ReceiptOf
<1>. QED
  BY <1>2, <1>3, <1>5 DEF Inv, BooksKept, Books, OutcomeTrue, Last, BatchesClaimed

LEMMA IdleReportType == IdleReport \in ReportType /\ IdleReport.pc = "IDLE"
BY LimitsAssumption DEF IdleReport, ReportType, Kinds

LEMMA ReportStarts ==
    ASSUME Inv, NEW r \in Reports, NEW c \in Commands, NEW n \in Tokens, Report(r, c, n)
    PROVE  Inv'
<1>. DEFINE k == IF fate[c][n] = "ACCEPTED" THEN "ack" ELSE "fail"
<1>1. fate[c][n] \in Settled /\ UNCHANGED <<store, leases, fate, poll>>
  BY DEF Report, Settled
<1>2. k \in Kinds /\ (k = "ack" <=> fate[c][n] = "ACCEPTED") /\ n \in 0..MaxLeases
  BY LimitsAssumption DEF Kinds, Tokens
<1>3. report' = [report EXCEPT ![r] =
        [IdleReport EXCEPT !.pc = "READ", !.command = c, !.token = n, !.kind = k]]
  BY Zenon DEF Report
<1>. HIDE DEF k
<1>4. PICK w : w = [IdleReport EXCEPT !.pc = "READ"]
  OBVIOUS
<1>5. w \in ReportType /\ w.pc = "READ"
  BY <1>4, IdleReportType DEF ReportType
<1>6. PICK x : x = [w EXCEPT !.command = c]
  OBVIOUS
<1>7. x \in ReportType /\ x.pc = "READ" /\ x.command = c
  BY <1>5, <1>6 DEF ReportType
<1>8. PICK y : y = [x EXCEPT !.token = n]
  OBVIOUS
<1>9. y \in ReportType /\ y.pc = "READ" /\ y.command = c /\ y.token = n
  BY <1>2, <1>7, <1>8 DEF ReportType
<1>10. PICK z : z = [y EXCEPT !.kind = k]
  OBVIOUS
<1>11. z \in ReportType /\ z.pc = "READ" /\ z.command = c /\ z.token = n /\ z.kind = k
  BY <1>2, <1>9, <1>10 DEF ReportType
<1>12. report' = [report EXCEPT ![r] = z]
  BY <1>3, <1>4, <1>6, <1>8, <1>10, Zenon
<1>. QED
  BY <1>1, <1>2, <1>11, <1>12, ReportMoves

\* A report goes on with the lease it is about.
LEMMA ReportAdvances ==
    ASSUME Inv, NEW r \in Reports, report[r].pc # "IDLE", NEW x \in ReportType,
           x.command = report[r].command, x.token = report[r].token,
           x.kind = report[r].kind,
           report' = [report EXCEPT ![r] = x], UNCHANGED <<store, leases, fate, poll>>,
           x.pc = "ANSWERED" => Stored(r).receipt = ReceiptOf(r)
    PROVE  Inv'
<1>1. /\ x.command \in Commands /\ x.token \in Tokens /\ x.kind \in Kinds
      /\ fate[x.command][x.token] \in Settled
      /\ x.kind = "ack" <=> fate[x.command][x.token] = "ACCEPTED"
  BY DEF Inv, ReportsTrue, Reported
<1>2. x.pc = "ANSWERED" =>
        store[x.command].receipt = [token |-> x.token, kind |-> x.kind]
  BY DEF Stored, ReceiptOf
<1>. QED
  BY <1>1, <1>2, ReportMoves

LEMMA GotoInv ==
    ASSUME Inv, NEW r \in Reports, report[r].pc # "IDLE",
           NEW label \in {"READBACK", "ANSWERED"}, Goto(r, label),
           UNCHANGED <<store, leases, fate, poll>>,
           label = "ANSWERED" => Stored(r).receipt = ReceiptOf(r)
    PROVE  Inv'
<1>1. report \in [Reports -> ReportType] /\ report[r] \in ReportType
  BY DEF Inv, TypeOK, ReportType
<1>2. PICK x : x = [report[r] EXCEPT !.pc = label]
  OBVIOUS
<1>3. /\ x \in ReportType /\ x.pc = label /\ x.command = report[r].command
      /\ x.token = report[r].token /\ x.kind = report[r].kind
  BY <1>1, <1>2 DEF ReportType
<1>4. report' = [report EXCEPT ![r] = x]
  BY <1>1, <1>2 DEF Goto
<1>. QED
  BY <1>3, <1>4, ReportAdvances

LEMMA DoneInv ==
    ASSUME Inv, NEW r \in Reports, Done(r), UNCHANGED <<store, leases, fate, poll>>
    PROVE  Inv'
BY IdleReportType, ReportMoves DEF Done

LEMMA ReadInv == ASSUME Inv, NEW r \in Reports, Read(r) PROVE Inv'
<1>1. report[r].pc # "IDLE" /\ UNCHANGED <<store, leases, fate, poll>>
  BY DEF Read
<1>2. CASE Stored(r).receipt = ReceiptOf(r)
  BY <1>1, <1>2, GotoInv DEF Read
<1>3. CASE Stored(r).receipt # ReceiptOf(r)
  <2>. DEFINE a == Stored(r).attempts
              d == Stored(r).deferrals
              Same(y) == /\ y.command = report[r].command /\ y.token = report[r].token
                         /\ y.kind = report[r].kind
  <2>1. report \in [Reports -> ReportType] /\ report[r] \in ReportType
    BY DEF Inv, TypeOK, ReportType
  <2>2. a \in 0..MaxAttempts /\ d \in Nat
    <3>1. Stored(r) \in Row
      BY <1>1, ReportedLease DEF Inv, TypeOK, Stored
    <3>. QED
      BY <3>1 DEF Row
  <2>3. report' = [report EXCEPT ![r] =
          [report[r] EXCEPT !.pc = "WRITE", !.attempts = a, !.deferrals = d]]
    BY <1>3, Zenon DEF Read
  <2>. HIDE DEF a, d
  <2>4. PICK x : x = [report[r] EXCEPT !.pc = "WRITE"]
    OBVIOUS
  <2>5. x \in ReportType /\ x.pc = "WRITE" /\ Same(x)
    BY <2>1, <2>4 DEF ReportType
  <2>6. PICK y : y = [x EXCEPT !.attempts = a]
    OBVIOUS
  <2>7. y \in ReportType /\ y.pc = "WRITE" /\ Same(y)
    BY <2>2, <2>5, <2>6 DEF ReportType
  <2>8. PICK z : z = [y EXCEPT !.deferrals = d]
    OBVIOUS
  <2>9. z \in ReportType /\ z.pc = "WRITE" /\ Same(z)
    BY <2>2, <2>7, <2>8 DEF ReportType
  <2>10. report' = [report EXCEPT ![r] = z]
    BY <2>3, <2>4, <2>6, <2>8, Zenon
  <2>. QED
    BY <1>1, <2>9, <2>10, ReportAdvances
<1>. QED
  BY <1>2, <1>3

LEMMA ReadbackInv == ASSUME Inv, NEW r \in Reports, Readback(r) PROVE Inv'
<1>1. report[r].pc # "IDLE" /\ UNCHANGED <<store, leases, fate, poll>>
  BY DEF Readback
<1>. QED
  BY <1>1, GotoInv, DoneInv DEF Readback

Receipts == [token : 0..MaxLeases, kind : Kinds \cup {"none"}]

LEMMA AcknowledgedRow ==
    ASSUME NEW x \in Row, NEW receipt \in Receipts
    PROVE  /\ Acknowledged(x, receipt) \in Row
           /\ Acknowledged(x, receipt).status = "SENT"
           /\ Acknowledged(x, receipt).receipt = receipt
           /\ Acknowledged(x, receipt).reason = x.reason
           /\ Acknowledged(x, receipt).attempts = x.attempts
<1>. USE LimitsAssumption DEF Row, Receipts
<1>1. PICK a : a = [x EXCEPT !.status = "SENT"]
  OBVIOUS
<1>2. a \in Row /\ a.status = "SENT" /\ a.reason = x.reason /\ a.attempts = x.attempts
  BY <1>1
<1>3. PICK b : b = [a EXCEPT !.token = 0]
  OBVIOUS
<1>4. b \in Row /\ b.status = "SENT" /\ b.reason = x.reason /\ b.attempts = x.attempts
  BY <1>2, <1>3
<1>5. PICK d : d = [b EXCEPT !.receipt = receipt]
  OBVIOUS
<1>6. /\ d \in Row /\ d.status = "SENT" /\ d.reason = x.reason
      /\ d.attempts = x.attempts /\ d.receipt = receipt
  BY <1>4, <1>5
<1>7. Acknowledged(x, receipt) = d
  BY <1>1, <1>3, <1>5, Zenon DEF Acknowledged
<1>. QED
  BY <1>6, <1>7, Zenon

\* What is tried again, and why the others failed.
Retried(category, attempts) ==
    \/ category = "LOCAL_DEFERRED"
    \/ category = "RATE_LIMITED" /\ attempts < MaxAttempts

LEMMA RetriedRow ==
    ASSUME NEW x \in Row, NEW receipt \in Receipts, NEW category \in Categories,
           NEW seen \in ReportType, seen.attempts = x.attempts, x.attempts > 0
    PROVE  LET y == Failed(x, receipt, category, seen) IN
           /\ y \in Row /\ y.receipt = receipt
           /\ y.attempts = IF category = "LOCAL_DEFERRED" THEN x.attempts - 1
                           ELSE x.attempts
           /\ IF Retried(category, x.attempts)
              THEN y.status = "PENDING" /\ y.reason = "none" /\ y.attempts < MaxAttempts
              ELSE /\ y.status = "FAILED"
                   /\ y.reason = IF category = "RATE_LIMITED" THEN "ATTEMPTS_EXHAUSTED"
                                 ELSE category
<1>. DEFINE retry == \/ category = "LOCAL_DEFERRED"
                     \/ category = "RATE_LIMITED" /\ seen.attempts < MaxAttempts
            st == IF retry THEN "PENDING" ELSE "FAILED"
            du == IF retry THEN "later" ELSE "now"
            re == IF retry THEN "none"
                  ELSE IF category = "RATE_LIMITED" THEN "ATTEMPTS_EXHAUSTED" ELSE category
            Restores(y) == IF retry THEN Restored(category, seen.attempts) ELSE y
            Defers(y) == IF category = "LOCAL_DEFERRED" THEN seen.deferrals + 1 ELSE y
<1>1. retry <=> Retried(category, x.attempts)
  BY DEF Retried
<1>2. st \in {"PENDING", "FAILED"} /\ du \in {"now", "later"}
      /\ re \in Reasons \cup {"none"}
  BY DEF Categories, Reasons
<1>3. x.attempts \in 0..MaxAttempts /\ x.deferrals \in Nat /\ seen.deferrals \in Nat
  BY DEF Row, ReportType
<1>4. /\ Restores(x.attempts) \in 0..MaxAttempts
      /\ retry => Restores(x.attempts) < MaxAttempts
      /\ Restores(x.attempts) = IF category = "LOCAL_DEFERRED" THEN x.attempts - 1
                                ELSE x.attempts
  BY <1>3, LimitsAssumption DEF Restored
<1>5. Defers(x.deferrals) \in Nat
  BY <1>3
<1>6. Failed(x, receipt, category, seen) =
        [[[[[[[x EXCEPT !.status = st] EXCEPT !.token = 0] EXCEPT !.receipt = receipt]
           EXCEPT !.due = du] EXCEPT !.attempts = Restores(@)]
           EXCEPT !.deferrals = Defers(@)] EXCEPT !.reason = re]
  BY Zenon DEF Failed
<1>7. st = (IF Retried(category, x.attempts) THEN "PENDING" ELSE "FAILED")
  BY <1>1
<1>8. re = (IF Retried(category, x.attempts) THEN "none"
            ELSE IF category = "RATE_LIMITED" THEN "ATTEMPTS_EXHAUSTED" ELSE category)
  BY <1>1
<1>9. Retried(category, x.attempts) => Restores(x.attempts) < MaxAttempts
  BY <1>1, <1>4
<1>. HIDE DEF retry, st, du, re, Restores, Defers
<1>10. PICK a : a = [x EXCEPT !.status = st]
  OBVIOUS
<1>11. a \in Row /\ a.status = st /\ a.attempts = x.attempts /\ a.deferrals = x.deferrals
  BY <1>2, <1>10 DEF Row
<1>12. PICK b : b = [a EXCEPT !.token = 0]
  OBVIOUS
<1>13. b \in Row /\ b.status = st /\ b.attempts = x.attempts /\ b.deferrals = x.deferrals
  BY <1>11, <1>12, LimitsAssumption DEF Row
<1>14. PICK d : d = [b EXCEPT !.receipt = receipt]
  OBVIOUS
<1>15. /\ d \in Row /\ d.status = st /\ d.attempts = x.attempts
       /\ d.deferrals = x.deferrals /\ d.receipt = receipt
  BY <1>13, <1>14 DEF Row, Receipts
<1>16. PICK e : e = [d EXCEPT !.due = du]
  OBVIOUS
<1>17. /\ e \in Row /\ e.status = st /\ e.attempts = x.attempts
       /\ e.deferrals = x.deferrals /\ e.receipt = receipt
  BY <1>2, <1>15, <1>16 DEF Row
<1>18. PICK f : f = [e EXCEPT !.attempts = Restores(@)]
  OBVIOUS
<1>19. /\ f \in Row /\ f.status = st /\ f.attempts = Restores(x.attempts)
       /\ f.deferrals = x.deferrals /\ f.receipt = receipt
  BY <1>4, <1>17, <1>18 DEF Row
<1>20. PICK g : g = [f EXCEPT !.deferrals = Defers(@)]
  OBVIOUS
<1>21. /\ g \in Row /\ g.status = st /\ g.attempts = Restores(x.attempts)
       /\ g.receipt = receipt
  BY <1>5, <1>19, <1>20 DEF Row
<1>22. PICK h : h = [g EXCEPT !.reason = re]
  OBVIOUS
<1>23. /\ h \in Row /\ h.status = st /\ h.attempts = Restores(x.attempts)
       /\ h.receipt = receipt /\ h.reason = re
  BY <1>2, <1>21, <1>22 DEF Row
<1>24. Failed(x, receipt, category, seen) = h
  BY <1>6, <1>10, <1>12, <1>14, <1>16, <1>18, <1>20, <1>22, Zenon
<1>. QED
  BY <1>4, <1>7, <1>8, <1>9, <1>23, <1>24, Zenon

\* The row a receipt makes tells what became of the message under this lease.
LEMMA ReceiptedRow ==
    ASSUME Inv, NEW r \in Reports, report[r].pc = "WRITE", Holds(r)
    PROVE  LET y == Receipted(r)
               f == fate[report[r].command][report[r].token]
           IN  /\ y \in Row /\ y.receipt = ReceiptOf(r)
               /\ y.attempts = IF f = "LOCAL_DEFERRED" THEN Stored(r).attempts - 1
                               ELSE Stored(r).attempts
               /\ y.status = "SENT" <=> report[r].kind = "ack"
               /\ y.status = "SENT" => f = "ACCEPTED" /\ y.reason = "none"
               /\ y.status = "PENDING" =>
                     f \in Repeatable /\ y.attempts < MaxAttempts /\ y.reason = "none"
               /\ y.status \in {"SENT", "PENDING", "FAILED"}
               /\ y.reason = "PROVIDER_REFUSED" => f = "4XX"
               /\ y.reason = "INVALID_INPUT" => f = "INVALID_INPUT"
               /\ y.reason = "ATTEMPTS_EXHAUSTED" => f = "429"
<1>. DEFINE q == report[r]
            x == Stored(r)
            f == fate[q.command][q.token]
            category == maxFailure(f)
<1>1. /\ q.command \in Commands /\ q.token \in Tokens /\ q.kind \in Kinds
      /\ f \in Settled /\ (q.kind = "ack" <=> f = "ACCEPTED")
  BY DEF Inv, ReportsTrue, Reported
<1>2. q \in ReportType
  BY DEF Inv, TypeOK, ReportType
<1>3. /\ x \in Row /\ x.status = "LEASED" /\ q.attempts = x.attempts
      /\ x.attempts > 0 /\ x.reason = "none"
  BY <1>1 DEF Inv, TypeOK, BooksKept, Books, Holds, Stored
<1>4. ReceiptOf(r) \in Receipts
  BY <1>1, LimitsAssumption DEF ReceiptOf, Receipts, Tokens
<1>5. CASE q.kind = "ack"
  <2>1. Receipted(r) = Acknowledged(x, ReceiptOf(r))
    BY <1>5 DEF Receipted
  <2>. QED
    BY <1>1, <1>3, <1>4, <1>5, <2>1, AcknowledgedRow
<1>6. CASE q.kind # "ack"
  <2>1. Receipted(r) = Failed(x, ReceiptOf(r), category, q)
    BY <1>6 DEF Receipted
  <2>2. /\ category \in Categories
        /\ category = "RATE_LIMITED" <=> f = "429"
        /\ category = "LOCAL_DEFERRED" <=> f = "LOCAL_DEFERRED"
        /\ category = "PROVIDER_REFUSED" <=> f = "4XX"
        /\ category = "INVALID_INPUT" <=> f = "INVALID_INPUT"
    BY <1>1, <1>6 DEF maxFailure, Categories, Settled, Answers, Unsent
  <2>. HIDE DEF category, x, q, f
  <2>3. LET y == Failed(x, ReceiptOf(r), category, q) IN
        /\ y \in Row /\ y.receipt = ReceiptOf(r)
        /\ y.attempts = IF category = "LOCAL_DEFERRED" THEN x.attempts - 1 ELSE x.attempts
        /\ IF Retried(category, x.attempts)
           THEN y.status = "PENDING" /\ y.reason = "none" /\ y.attempts < MaxAttempts
           ELSE /\ y.status = "FAILED"
                /\ y.reason = IF category = "RATE_LIMITED" THEN "ATTEMPTS_EXHAUSTED"
                              ELSE category
    BY <1>2, <1>3, <1>4, <2>2, RetriedRow
  <2>4. PICK y : y = Receipted(r)
    OBVIOUS
  <2>5. /\ y \in Row /\ y.receipt = ReceiptOf(r)
        /\ \/ /\ y.status = "PENDING" /\ y.reason = "none" /\ y.attempts < MaxAttempts
              /\ f \in Repeatable
           \/ /\ y.status = "FAILED"
              /\ y.reason = IF category = "RATE_LIMITED" THEN "ATTEMPTS_EXHAUSTED"
                            ELSE category
    BY <2>1, <2>2, <2>3, <2>4 DEF Retried, Repeatable
  <2>6. /\ y.status = "SENT" <=> q.kind = "ack"
        /\ y.status = "SENT" => f = "ACCEPTED" /\ y.reason = "none"
        /\ y.status = "PENDING" =>
              f \in Repeatable /\ y.attempts < MaxAttempts /\ y.reason = "none"
        /\ y.status \in {"SENT", "PENDING", "FAILED"}
        /\ y.reason = "PROVIDER_REFUSED" => f = "4XX"
        /\ y.reason = "INVALID_INPUT" => f = "INVALID_INPUT"
        /\ y.reason = "ATTEMPTS_EXHAUSTED" => f = "429"
    BY <1>6, <2>2, <2>5 DEF Categories
  <2>7. y.attempts = IF f = "LOCAL_DEFERRED" THEN x.attempts - 1 ELSE x.attempts
    BY <2>1, <2>2, <2>3, <2>4, Zenon
  <2>. QED
    BY <2>4, <2>5, <2>6, <2>7 DEF q, f, x
<1>. QED
  BY <1>5, <1>6

LEMMA WriteInv == ASSUME Inv, NEW r \in Reports, Write(r) PROVE Inv'
<1>1. report[r].pc = "WRITE" /\ UNCHANGED <<leases, fate, poll>>
  BY DEF Write
<1>2. CASE Goto(r, "READBACK") /\ UNCHANGED store
  BY <1>1, <1>2, GotoInv
<1>3. CASE /\ Holds(r)
           /\ store' = [store EXCEPT ![report[r].command] = Receipted(r)]
           /\ Goto(r, "ANSWERED") \/ Done(r)
  <2>0. PICK c, n, y : c = report[r].command /\ n = report[r].token /\ y = Receipted(r)
    OBVIOUS
  <2>1. /\ c \in Commands /\ n \in Tokens /\ n = leases[c] /\ n # 0
        /\ store[c].status = "LEASED" /\ store[c].receipt = NoReceipt
    <3>1. /\ c \in Commands /\ n \in Tokens /\ n # 0
      BY <1>1, <2>0, ReportedLease, LimitsAssumption DEF Tokens
    <3>2. store[c].status = "LEASED" /\ store[c].token = n
      BY <1>3, <2>0 DEF Holds, Stored
    <3>. QED
      BY <3>1, <3>2 DEF Inv, BooksKept, Books
  <2>2. /\ y \in Row /\ y.receipt = [token |-> n, kind |-> report[r].kind]
        /\ y.status = "SENT" <=> report[r].kind = "ack"
        /\ y.status = "SENT" => fate[c][n] = "ACCEPTED" /\ y.reason = "none"
        /\ y.status = "PENDING" =>
              fate[c][n] \in Repeatable /\ y.attempts < MaxAttempts /\ y.reason = "none"
        /\ y.status \in {"SENT", "PENDING", "FAILED"}
        /\ y.reason = "PROVIDER_REFUSED" => fate[c][n] = "4XX"
        /\ y.reason = "INVALID_INPUT" => fate[c][n] = "INVALID_INPUT"
        /\ y.reason = "ATTEMPTS_EXHAUSTED" => fate[c][n] = "429"
    BY <1>1, <1>3, <2>0, ReceiptedRow DEF ReceiptOf
  <2>3. /\ store' \in [Commands -> Row] /\ store'[c] = y
        /\ \A d \in Commands : d # c => store'[d] = store[d]
    BY <1>3, <2>0, <2>1, <2>2 DEF Inv, TypeOK
  <2>4. /\ report' \in [Reports -> ReportType]
        /\ \A s \in Reports : s # r => report'[s] = report[s]
        /\ report'[r].pc # "IDLE" =>
              /\ report'[r].command = c /\ report'[r].token = n
              /\ report'[r].kind = report[r].kind
    <3>1. CASE Done(r)
      BY <3>1, IdleReportType DEF Done, Inv, TypeOK, ReportType
    <3>2. CASE Goto(r, "ANSWERED")
      BY <2>0, <3>2 DEF Goto, Inv, TypeOK, ReportType
    <3>. QED
      BY <1>3, <3>1, <3>2
  <2>5. TypeOK'
    BY <1>1, <2>3, <2>4 DEF Inv, TypeOK, ReportType
  <2>6. BooksKept'
    <3>1. ASSUME NEW d \in Commands, d # c PROVE Books(d)'
      BY <1>1, <2>3, <3>1 DEF Inv, BooksKept, Books, Last
    <3>2. Books(c)
      BY <2>1 DEF Inv, BooksKept
    <3>3. Books(c)'
      BY <1>1, <2>1, <2>2, <2>3, <3>2 DEF Books, Last
    <3>. QED
      BY <3>1, <3>3 DEF BooksKept
  <2>7. BatchesClaimed'
    BY <1>1 DEF Inv, BatchesClaimed
  <2>8. ReportsTrue'
    <3>1. \A s \in Reports : s # r => Reported(s)'
      BY <1>1, <2>4 DEF Inv, ReportsTrue, Reported
    <3>2. Reported(r)'
      <4>1. Reported(r)
        BY DEF Inv, ReportsTrue
      <4>. QED
        BY <1>1, <2>0, <2>4, <4>1 DEF Reported
    <3>. QED
      BY <3>1, <3>2 DEF ReportsTrue
  <2>9. OutcomeTrue'
    BY <1>1, <2>1, <2>2, <2>3 DEF Inv, OutcomeTrue, Last
  <2>10. AnswerDurable'
    <3>1. ASSUME NEW s \in Reports, s # r, report[s].pc = "ANSWERED"
          PROVE  IF report[s].kind = "ack" THEN store'[report[s].command].status = "SENT"
                 ELSE \/ store'[report[s].command].receipt
                            = [token |-> report[s].token, kind |-> report[s].kind]
                      \/ leases'[report[s].command] > report[s].token
      <4>1. report[s].command \in Commands /\ report[s].token \in Tokens
        BY <3>1, ReportedLease
      <4>2. IF report[s].kind = "ack" THEN store[report[s].command].status = "SENT"
            ELSE \/ store[report[s].command].receipt
                       = [token |-> report[s].token, kind |-> report[s].kind]
                 \/ leases[report[s].command] > report[s].token
        BY <3>1 DEF Inv, AnswerDurable, Stored, ReceiptOf
      <4>3. report[s].token # 0
        BY <4>1, LimitsAssumption DEF Tokens
      <4>4. report[s].command = c => leases[c] > report[s].token
        BY <2>1, <4>2, <4>3 DEF NoReceipt
      <4>5. report[s].command = c => report[s].kind # "ack"
        BY <2>1, <4>2
      <4>. QED
        BY <1>1, <2>3, <4>1, <4>2, <4>4, <4>5
    <3>2. report'[r].pc = "ANSWERED" =>
            IF report[r].kind = "ack" THEN store'[c].status = "SENT"
            ELSE store'[c].receipt = [token |-> n, kind |-> report[r].kind]
      BY <2>2, <2>3
    <3>. QED
      BY <2>4, <3>1, <3>2 DEF AnswerDurable, Stored, ReceiptOf
  <2>. QED
    BY <2>5, <2>6, <2>7, <2>8, <2>9, <2>10 DEF Inv
<1>. QED
  BY <1>2, <1>3 DEF Write

-----------------------------------------------------------------------------
(* The invariant is inductive.                                             *)

LEMMA NextInv == Inv /\ [Next]_vars => Inv'
<1>. SUFFICES ASSUME Inv, [Next]_vars PROVE Inv'
  OBVIOUS
<1>1. CASE UNCHANGED vars
  BY <1>1, UnchangedInv
<1>2. ASSUME NEW c \in Commands, Enqueue(c) PROVE Inv'
  BY <1>2, EnqueueInv
<1>3. ASSUME NEW p \in Polls, Pull(p) PROVE Inv'
  BY <1>3, PollMoves, SweepInv, ClaimInv, ReturnInv DEF Pull
<1>4. ASSUME NEW c \in Commands, NEW n \in Tokens, NEW outcome \in Answers \cup Unsent,
             Act(c, n, outcome)
      PROVE  Inv'
  BY <1>4, ActInv DEF Settled
<1>5. ASSUME NEW r \in Reports, Receipt(r) PROVE Inv'
  <2>1. CASE Read(r) \/ Write(r) \/ Readback(r)
    BY <2>1, ReadInv, WriteInv, ReadbackInv
  <2>2. CASE \E c \in Commands, n \in Tokens : Report(r, c, n)
    BY <2>2, ReportStarts
  <2>3. CASE ReportStop(r)
    BY <2>3, DoneInv DEF ReportStop
  <2>. QED
    BY <1>5, <2>1, <2>2, <2>3 DEF Receipt
<1>. QED
  BY <1>1, <1>2, <1>3, <1>4, <1>5 DEF Next

LEMMA Invariance == Spec => []Inv
<1>1. Init => Inv
  BY InitInv
<1>2. Inv /\ [Next]_vars => Inv'
  BY NextInv
<1>. QED
  BY <1>1, <1>2, PTL DEF Spec

-----------------------------------------------------------------------------
(* The budget.                                                             *)

\* The leases an attempt has been counted for: all that may have been sent, and the
\* one the command is under.
Spent(c) ==
    {n \in Tokens : \/ fate[c][n] \notin {"NONE", "LOCAL_DEFERRED"}
                    \/ store[c].status = "LEASED" /\ store[c].token = n}
Budgeted == \A c \in Commands : Cardinality(Spent(c)) =< store[c].attempts

LEMMA SpentIsFinite ==
    \A c : IsFiniteSet(Spent(c)) /\ Cardinality(Spent(c)) \in Nat
<1>. SUFFICES ASSUME NEW c PROVE IsFiniteSet(Spent(c)) /\ Cardinality(Spent(c)) \in Nat
  OBVIOUS
<1>1. IsFiniteSet(Tokens)
  BY LimitsAssumption, FS_Interval DEF Tokens
<1>2. Spent(c) \in SUBSET Tokens
  BY DEF Spent
<1>. QED
  BY <1>1, <1>2, FS_Subset, FS_CardinalityType

\* A command spends no more, one lease and one attempt more, or one of each less.
LEMMA BudgetKept ==
    ASSUME TypeOK, NEW c \in Commands, Cardinality(Spent(c)) =< store[c].attempts,
           store'[c].attempts \in Nat,
           \/ /\ Spent(c)' \subseteq Spent(c)
              /\ store'[c].attempts = store[c].attempts
           \/ /\ \E n \in Tokens : Spent(c)' \subseteq Spent(c) \cup {n}
              /\ store'[c].attempts = store[c].attempts + 1
           \/ /\ \E n \in Spent(c) : Spent(c)' \subseteq Spent(c) \ {n}
              /\ store'[c].attempts = store[c].attempts - 1
    PROVE  (Cardinality(Spent(c)) =< store[c].attempts)'
<1>1. PICK S, T : S = Spent(c) /\ T = Spent(c)'
  OBVIOUS
<1>2. IsFiniteSet(S) /\ Cardinality(S) \in Nat
  BY <1>1, SpentIsFinite
<1>3. store[c].attempts \in Nat
  BY LimitsAssumption DEF TypeOK, Row
<1>4. Cardinality(S) =< store[c].attempts
  BY <1>1
<1>5. CASE T \subseteq S /\ store'[c].attempts = store[c].attempts
  <2>1. Cardinality(T) =< Cardinality(S) /\ Cardinality(T) \in Nat
    BY <1>2, <1>5, FS_Subset, FS_CardinalityType
  <2>. QED
    BY <1>1, <1>2, <1>3, <1>4, <1>5, <2>1
<1>6. ASSUME NEW n, T \subseteq S \cup {n}, store'[c].attempts = store[c].attempts + 1
      PROVE  Cardinality(T) =< store'[c].attempts
  <2>1. PICK U : U = S \cup {n}
    OBVIOUS
  <2>2. IsFiniteSet(U) /\ Cardinality(U) \in Nat /\ Cardinality(U) =< Cardinality(S) + 1
    BY <1>2, <2>1, FS_AddElement, FS_CardinalityType
  <2>3. Cardinality(T) =< Cardinality(U) /\ Cardinality(T) \in Nat
    BY <1>6, <2>1, <2>2, FS_Subset, FS_CardinalityType
  <2>. QED
    BY <1>2, <1>3, <1>4, <1>6, <2>2, <2>3
<1>7. ASSUME NEW n \in S, T \subseteq S \ {n}, store'[c].attempts = store[c].attempts - 1
      PROVE  Cardinality(T) =< store'[c].attempts
  <2>1. PICK U : U = S \ {n}
    OBVIOUS
  <2>2. IsFiniteSet(U) /\ Cardinality(U) = Cardinality(S) - 1
    BY <1>2, <2>1, FS_RemoveElement
  <2>3. Cardinality(T) =< Cardinality(U) /\ Cardinality(T) \in Nat
    BY <1>7, <2>1, <2>2, FS_Subset, FS_CardinalityType
  <2>. QED
    BY <1>2, <1>3, <1>4, <1>7, <2>2, <2>3
<1>. QED
  BY <1>1, <1>5, <1>6, <1>7

\* Nothing is spent unless a claim, or a fate nothing was counted for, begins to be.
LEMMA FewerSpent ==
    ASSUME NEW c,
           \A n \in Tokens : fate'[c][n] # fate[c][n] =>
              fate[c][n] \notin {"NONE", "LOCAL_DEFERRED"},
           store'[c].status = "LEASED" =>
              store[c].status = "LEASED" /\ store'[c].token = store[c].token
    PROVE  Spent(c)' \subseteq Spent(c)
BY DEF Spent

LEMMA ClaimSpends ==
    ASSUME Inv, NEW p \in Polls, NEW c \in Commands, Claim(p, c), NEW d \in Commands
    PROVE  IF d = c THEN /\ \E n \in Tokens : Spent(d)' \subseteq Spent(d) \cup {n}
                         /\ store'[d].attempts = store[d].attempts + 1
           ELSE Spent(d)' \subseteq Spent(d) /\ store'[d].attempts = store[d].attempts
<1>1. PICK n : n = leases[c] + 1
  OBVIOUS
<1>2. /\ store[c] \in Row /\ n \in Tokens /\ store[c].attempts < MaxAttempts
      /\ store \in [Commands -> Row] /\ fate \in [Commands -> [Tokens -> Fates]]
  BY <1>1, LimitsAssumption DEF Inv, TypeOK, Claim, Claimable, Tokens
<1>3. store' = [store EXCEPT ![c] = Leased(store[c], n)]
  BY <1>1 DEF Claim, Leased
<1>4. fate' = [fate EXCEPT ![c][n] = "CLAIMED"]
  BY <1>1 DEF Claim
<1>5. /\ store'[c].attempts = store[c].attempts + 1 /\ store'[c].token = n
      /\ \A e \in Commands : e # c => store'[e] = store[e]
  BY <1>2, <1>3, LeasedRow
<1>6. /\ \A m \in Tokens : m # n => fate'[c][m] = fate[c][m]
      /\ \A e \in Commands : e # c => fate'[e] = fate[e]
  BY <1>2, <1>4
<1>7. Spent(c)' \subseteq Spent(c) \cup {n}
  BY <1>5, <1>6 DEF Spent
<1>8. ASSUME d # c PROVE Spent(d)' \subseteq Spent(d)
  BY <1>5, <1>6, <1>8 DEF Spent
<1>. QED
  BY <1>2, <1>5, <1>7, <1>8

\* A deferral, known to the lease reported on, gives the attempt of that lease back.
LEMMA WriteSpends ==
    ASSUME Inv, NEW r \in Reports, report[r].pc = "WRITE", Holds(r),
           store' = [store EXCEPT ![report[r].command] = Receipted(r)], fate' = fate,
           NEW d \in Commands
    PROVE  \/ Spent(d)' \subseteq Spent(d) /\ store'[d].attempts = store[d].attempts
           \/ /\ \E n \in Spent(d) : Spent(d)' \subseteq Spent(d) \ {n}
              /\ store'[d].attempts = store[d].attempts - 1
<1>1. PICK c, n, y : c = report[r].command /\ n = report[r].token /\ y = Receipted(r)
  OBVIOUS
<1>2. c \in Commands /\ n \in Tokens
  BY <1>1, ReportedLease
<1>3. store[c].status = "LEASED" /\ store[c].token = n
  BY <1>1 DEF Holds, Stored
<1>4. /\ y.status \in {"SENT", "PENDING", "FAILED"}
      /\ y.attempts = IF fate[c][n] = "LOCAL_DEFERRED" THEN store[c].attempts - 1
                      ELSE store[c].attempts
  BY <1>1, ReceiptedRow DEF Stored
<1>5. store'[c] = y /\ \A e \in Commands : e # c => store'[e] = store[e]
  BY <1>1, <1>2 DEF Inv, TypeOK
<1>6. CASE d # c
  BY <1>5, <1>6 DEF Spent
<1>7. CASE d = c /\ fate[c][n] # "LOCAL_DEFERRED"
  BY <1>4, <1>5, <1>7 DEF Spent
<1>8. CASE d = c /\ fate[c][n] = "LOCAL_DEFERRED"
  <2>1. n \in Spent(c)
    BY <1>2, <1>3 DEF Spent
  <2>2. Spent(c)' \subseteq Spent(c) \ {n}
    BY <1>4, <1>5, <1>8 DEF Spent
  <2>. QED
    BY <1>4, <1>5, <1>8, <2>1, <2>2
<1>. QED
  BY <1>6, <1>7, <1>8

\* The other steps claim nothing and count nothing.
LEMMA NothingSpent ==
    ASSUME Inv, [Next]_vars, NEW d \in Commands,
           \A p \in Polls, c \in Commands : ~Claim(p, c),
           \A r \in Reports : ~(Holds(r) /\ Write(r))
    PROVE  \/ Spent(d)' \subseteq Spent(d) /\ store'[d].attempts = store[d].attempts
           \/ Spent(d)' = {}
<1>. store \in [Commands -> Row] /\ fate \in [Commands -> [Tokens -> Fates]]
  BY DEF Inv, TypeOK
<1>1. ASSUME NEW c \in Commands, Enqueue(c)
      PROVE  \/ Spent(d)' \subseteq Spent(d) /\ store'[d].attempts = store[d].attempts
           \/ Spent(d)' = {}
  <2>1. fate' = fate
    BY <1>1 DEF Enqueue
  <2>2. CASE store'[d] = store[d]
    BY <2>1, <2>2, FewerSpent
  <2>3. CASE store'[d] # store[d]
    <3>1. c = d /\ store[d].status = "ABSENT" /\ store'[d] = Fresh
      BY <1>1, <2>3 DEF Enqueue
    <3>2. \A n \in Tokens : fate[d][n] = "NONE"
      BY <3>1 DEF Inv, BooksKept, Books, Tokens
    <3>. QED
      BY <2>1, <3>1, <3>2, InitialRows DEF Spent
  <2>. QED
    BY <2>2, <2>3
<1>2. ASSUME NEW p \in Polls, NEW c \in Commands, Sweep(p, c) \/ Exhaust(p, c)
      PROVE  \/ Spent(d)' \subseteq Spent(d) /\ store'[d].attempts = store[d].attempts
           \/ Spent(d)' = {}
  <2>1. PICK why \in {"DELIVERY_UNKNOWN", "ATTEMPTS_EXHAUSTED"} :
            store' = [store EXCEPT ![c] = GivenUp(store[c], why)]
    BY <1>2 DEF Sweep, Exhaust, Fail, GivenUp
  <2>2. store'[d] = store[d]
        \/ (store'[d].status = "FAILED" /\ store'[d].attempts = store[d].attempts)
    BY <2>1, FailedRow
  <2>3. fate' = fate
    BY <1>2 DEF Sweep, Exhaust
  <2>. QED
    BY <2>2, <2>3, FewerSpent
<1>3. ASSUME NEW p \in Polls, Return(p)
      PROVE  \/ Spent(d)' \subseteq Spent(d) /\ store'[d].attempts = store[d].attempts
           \/ Spent(d)' = {}
  <2>1. \A n \in Tokens : fate'[d][n] # fate[d][n] => fate[d][n] = "CLAIMED"
    BY <1>3 DEF Return, Inv, BatchesClaimed
  <2>2. store' = store
    BY <1>3 DEF Return
  <2>. QED
    BY <2>1, <2>2, FewerSpent
<1>4. ASSUME NEW c \in Commands, NEW n \in Tokens, NEW outcome, Act(c, n, outcome)
      PROVE  \/ Spent(d)' \subseteq Spent(d) /\ store'[d].attempts = store[d].attempts
           \/ Spent(d)' = {}
  <2>1. \A m \in Tokens : fate'[d][m] # fate[d][m] => fate[d][m] = "HELD"
    BY <1>4 DEF Act
  <2>2. store' = store
    BY <1>4 DEF Act
  <2>. QED
    BY <2>1, <2>2, FewerSpent
<1>5. CASE UNCHANGED <<store, fate>>
  BY <1>5 DEF Spent
<1>6. ASSUME NEW r \in Reports, Write(r) PROVE UNCHANGED <<store, fate>>
  BY <1>6 DEF Write
<1>7. CASE UNCHANGED vars
  BY <1>5, <1>7 DEF vars
<1>8. ASSUME NEW p \in Polls, Pull(p)
      PROVE  \/ Spent(d)' \subseteq Spent(d) /\ store'[d].attempts = store[d].attempts
           \/ Spent(d)' = {}
  <2>1. CASE Poll(p) \/ Swept(p) \/ Exhausted(p) \/ PollStop(p)
    BY <1>5, <2>1 DEF Poll, Swept, Exhausted, PollStop
  <2>. QED
    BY <1>2, <1>3, <1>8, <2>1 DEF Pull
<1>9. ASSUME NEW r \in Reports, Receipt(r) PROVE UNCHANGED <<store, fate>>
  BY <1>6, <1>9 DEF Receipt, Report, Read, Readback, ReportStop
<1>. QED
  BY <1>1, <1>4, <1>5, <1>7, <1>8, <1>9 DEF Next

LEMMA BudgetedStep == Inv /\ Budgeted /\ [Next]_vars => Budgeted'
<1>. SUFFICES ASSUME Inv, Budgeted, [Next]_vars, NEW d \in Commands
              PROVE  (Cardinality(Spent(d)) =< store[d].attempts)'
  BY DEF Budgeted
<1>1. TypeOK /\ Cardinality(Spent(d)) =< store[d].attempts
  BY DEF Inv, Budgeted
<1>2. store'[d].attempts \in Nat
  BY NextInv, LimitsAssumption DEF Inv, TypeOK, Row
<1>3. ASSUME NEW p \in Polls, NEW c \in Commands, Claim(p, c)
      PROVE  (Cardinality(Spent(d)) =< store[d].attempts)'
  BY <1>1, <1>2, <1>3, ClaimSpends, BudgetKept
<1>4. ASSUME NEW r \in Reports, Holds(r), Write(r)
      PROVE  (Cardinality(Spent(d)) =< store[d].attempts)'
  <2>1. CASE UNCHANGED <<store, fate>>
    BY <1>1, <1>2, <2>1, BudgetKept DEF Spent
  <2>2. CASE store' = [store EXCEPT ![report[r].command] = Receipted(r)]
    BY <1>1, <1>2, <1>4, <2>2, WriteSpends, BudgetKept DEF Write
  <2>. QED
    BY <1>4, <2>1, <2>2 DEF Write
<1>5. CASE /\ \A p \in Polls, c \in Commands : ~Claim(p, c)
           /\ \A r \in Reports : ~(Holds(r) /\ Write(r))
  <2>1. Spent(d)' = {} => (Cardinality(Spent(d)) =< store[d].attempts)'
    BY <1>2, FS_EmptySet
  <2>. QED
    BY <1>1, <1>2, <1>5, <2>1, NothingSpent, BudgetKept
<1>. QED
  BY <1>3, <1>4, <1>5

LEMMA InitBudgeted == Init => Budgeted
<1>. SUFFICES ASSUME Init, NEW c \in Commands PROVE Cardinality(Spent(c)) =< store[c].attempts
  BY DEF Budgeted
<1>1. /\ store[c] \in {Absent, OldLease, OldBacklog}
      /\ \A n \in Tokens :
            fate[c][n] = IF store[c] = OldLease /\ n = 1 THEN "TIMEOUT" ELSE "NONE"
  BY DEF Init
<1>2. CASE store[c] = OldLease
  <2>1. Spent(c) \subseteq {1}
    BY <1>1, <1>2, InitialRows, LimitsAssumption DEF Spent, Tokens
  <2>2. Cardinality(Spent(c)) =< 1
    <3>1. PICK S : S = {1}
      OBVIOUS
    <3>2. IsFiniteSet(S) /\ Cardinality(S) = 1
      BY <3>1, FS_Singleton
    <3>. QED
      BY <2>1, <3>1, <3>2, FS_Subset
  <2>. QED
    BY <1>2, <2>2, InitialRows
<1>3. CASE store[c] # OldLease
  <2>1. Spent(c) = {}
    BY <1>1, <1>3, InitialRows DEF Spent
  <2>2. store[c] \in Row
    BY <1>1, InitialRows
  <2>. QED
    BY <2>1, <2>2, FS_EmptySet, LimitsAssumption DEF Row
<1>. QED
  BY <1>2, <1>3

-----------------------------------------------------------------------------
(* The theorems.                                                           *)

\* Rows, tokens and handlers keep their shapes; the attempts of a command stay
\* between zero and MAX_DELIVERY_ATTEMPTS.
THEOREM OutboxTypeCorrect == Spec => []TypeOK
<1>1. Inv => TypeOK
  BY DEF Inv
<1>. QED
  BY <1>1, Invariance, PTL

\* Whatever polls are lost and reports repeated, delayed or lost: the outbox
\* claims a message again only after all its earlier claims are known not to
\* have delivered it.
THEOREM NeverHandedOutTwice == Spec => []NeverResent
<1>1. Inv => NeverResent
  BY DEF Inv, BooksKept, Books, NeverResent
<1>. QED
  BY <1>1, Invariance, PTL

\* SENT and every definite reason of a failure are what the connector met under
\* the last lease of the command.
THEOREM OutcomesAreTrue == Spec => []OutcomeTrue
<1>1. Inv => OutcomeTrue
  BY DEF Inv
<1>. QED
  BY <1>1, Invariance, PTL

\* A report answered with success stays recorded.
THEOREM AnswersAreDurable == Spec => []AnswerDurable
<1>1. Inv => AnswerDurable
  BY DEF Inv
<1>. QED
  BY <1>1, Invariance, PTL

\* No step changes a command that is SENT or FAILED.
THEOREM TerminalNeverMoves == Spec => TerminalStays
<1>1. Inv /\ [Next]_vars =>
        [\A c \in Commands :
            store[c].status \in {"SENT", "FAILED"} => store'[c] = store[c]]_vars
  <2>. SUFFICES ASSUME Inv, Next, NEW c \in Commands,
                       store[c].status \in {"SENT", "FAILED"}
                PROVE  store'[c] = store[c]
    OBVIOUS
  <2>. store \in [Commands -> Row]
    BY DEF Inv, TypeOK
  <2>1. ASSUME NEW d \in Commands, Enqueue(d) PROVE store'[c] = store[c]
    BY <2>1 DEF Enqueue
  <2>2. ASSUME NEW p \in Polls, Pull(p) PROVE store'[c] = store[c]
    <3>1. ASSUME NEW d \in Commands, Sweep(p, d) \/ Exhaust(p, d) \/ Claim(p, d)
          PROVE  store'[c] = store[c]
      <4>1. c # d
        BY <3>1 DEF Sweep, Exhaust, Claim, Claimable
      <4>. QED
        BY <3>1, <4>1 DEF Sweep, Exhaust, Claim, Fail
    <3>2. CASE Poll(p) \/ Swept(p) \/ Exhausted(p) \/ Return(p) \/ PollStop(p)
      BY <3>2 DEF Poll, Swept, Exhausted, Return, PollStop
    <3>. QED
      BY <2>2, <3>1, <3>2 DEF Pull
  <2>3. ASSUME NEW d \in Commands, NEW n \in Tokens, NEW outcome, Act(d, n, outcome)
        PROVE  store'[c] = store[c]
    BY <2>3 DEF Act
  <2>4. ASSUME NEW r \in Reports, Receipt(r) PROVE store'[c] = store[c]
    <3>1. CASE Write(r)
      <4>1. CASE UNCHANGED store
        BY <4>1
      <4>2. CASE Holds(r) /\ store' = [store EXCEPT ![report[r].command] = Receipted(r)]
        <5>1. c # report[r].command
          BY <4>2 DEF Holds, Stored
        <5>. QED
          BY <4>2, <5>1
      <4>. QED
        BY <3>1, <4>1, <4>2 DEF Write
    <3>2. CASE UNCHANGED store
      BY <3>2
    <3>. QED
      BY <2>4, <3>1, <3>2 DEF Receipt, Report, Read, Readback, ReportStop
  <2>. QED
    BY <2>1, <2>2, <2>3, <2>4 DEF Next
<1>. QED
  BY <1>1, Invariance, PTL DEF Spec, TerminalStays

\* However often the connector puts a message off, and whatever polls and reports are
\* lost or repeated, the provider is asked MaxAttempts times at most.
THEOREM SendsWithinBudget == Spec => []SendBudget
<1>1. Inv /\ Budgeted => SendBudget
  <2>. SUFFICES ASSUME Inv, Budgeted, NEW c \in Commands
                PROVE  Cardinality(Transports(c)) =< MaxAttempts
    BY DEF SendBudget
  <2>1. Transports(c) \in SUBSET Spent(c)
    BY DEF Transports, Spent, Answers
  <2>2. Cardinality(Transports(c)) =< Cardinality(Spent(c))
        /\ Cardinality(Transports(c)) \in Nat
    BY <2>1, SpentIsFinite, FS_Subset, FS_CardinalityType
  <2>3. Cardinality(Spent(c)) =< store[c].attempts /\ Cardinality(Spent(c)) \in Nat
    BY SpentIsFinite DEF Budgeted
  <2>4. store[c].attempts =< MaxAttempts /\ store[c].attempts \in Nat
    BY LimitsAssumption DEF Inv, TypeOK, Row
  <2>. QED
    BY <2>2, <2>3, <2>4, LimitsAssumption
<1>2. Spec => []Budgeted
  BY InitInv, InitBudgeted, NextInv, BudgetedStep, Invariance, PTL DEF Spec
<1>. QED
  BY <1>1, <1>2, Invariance, PTL
=============================================================================
