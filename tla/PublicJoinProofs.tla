-------------------------- MODULE PublicJoinProofs --------------------------
(***************************************************************************)
(* Proofs about PublicJoin for every set of phones, attempts, provider     *)
(* ids, requests and editors: first its places, which staff edits break,   *)
(* then its payments, which they do not: a seat that came from an attempt  *)
(* is paid for, and what was sent to the provider is neither forgotten nor *)
(* counted twice.                                                          *)
(***************************************************************************)
EXTENDS PublicJoin, FiniteSetTheorems, TLAPS

-----------------------------------------------------------------------------
(* The records the handlers and the document are made of.                  *)

LEMMA ConstantRecords == Idle \in Request /\ NoPayment \in Payment /\ NoEdit \in Edit
BY DEF Request, Payment, Edit, NoEdit

LEMMA AttemptRequest ==
    ASSUME NEW x \in Request, x.pc \in AttemptLabels
    PROVE  x \in [pc : AttemptLabels, phone : Phones, att : Attempts,
                  kind : Kinds, id : ProviderIds \cup {None}, rule : {None}]
BY DEF Request, Idle, AttemptLabels, AdmissionLabels

LEMMA AdmissionRequest ==
    ASSUME NEW x \in Request, x.pc \in AdmissionLabels \cup {"RESERVE"}
    PROVE  /\ x.phone \in Phones
           /\ x.pc = "RESERVE" =>
                x \in [pc : {"RESERVE"}, phone : Phones, att : {None}, kind : Kinds,
                       id : {None}, rule : Rule]
BY DEF Request, Idle, AttemptLabels, AdmissionLabels

LEMMA MovedRequest ==
    ASSUME NEW x \in Request, x.pc \in AttemptLabels, NEW l \in AttemptLabels
    PROVE  /\ [x EXCEPT !.pc = l] \in Request
           /\ \A i \in ProviderIds \cup {None} :
                /\ [x EXCEPT !.id = i, !.pc = l] \in Request
                /\ \A a \in Attempts : [x EXCEPT !.att = a, !.id = i, !.pc = l] \in Request
BY AttemptRequest DEF Request

LEMMA ChangedPayment ==
    ASSUME NEW x \in Payment, x.state # "ABSENT", NEW s \in Holding,
           NEW i \in ProviderIds \cup {None}
    PROVE  /\ [x EXCEPT !.state = s] \in Payment
           /\ [x EXCEPT !.providerId = i] \in Payment
           /\ [x EXCEPT !.state = s, !.providerId = i] \in Payment
           /\ [x EXCEPT !.state = s, !.evidence = i] \in Payment
<1>1. x \in [state : Holding, kind : Kinds, phone : Phones,
             providerId : ProviderIds \cup {None}, evidence : ProviderIds \cup {None}]
  BY DEF Payment, NoPayment
<1>2. [x EXCEPT !.state = s] \in Payment
  BY <1>1 DEF Payment
<1>3. [x EXCEPT !.providerId = i] \in Payment
  BY <1>1 DEF Payment
<1>4. [x EXCEPT !.state = s, !.providerId = i] \in Payment
  BY <1>1 DEF Payment
<1>5. [x EXCEPT !.state = s, !.evidence = i] \in Payment
  BY <1>1 DEF Payment
<1>. QED
  BY <1>2, <1>3, <1>4, <1>5

LEMMA FinishType ==
    ASSUME req \in [Requests -> Request], NEW r \in Requests, Finish(r)
    PROVE  req' \in [Requests -> Request]
BY ConstantRecords DEF Finish

LEMMA GotoType ==
    ASSUME req \in [Requests -> Request], NEW r \in Requests,
           req[r].pc \in AttemptLabels, NEW l \in AttemptLabels, Goto(r, l)
    PROVE  req' \in [Requests -> Request]
<1>1. [req[r] EXCEPT !.pc = l] \in Request
  BY MovedRequest
<1>2. req' = [req EXCEPT ![r] = [req[r] EXCEPT !.pc = l]]
  BY DEF Goto
<1>. QED
  BY <1>1, <1>2

LEMMA TouchType == ASSUME Touch PROVE stamp' \in 0..MaxStamp
BY DEF Touch
-----------------------------------------------------------------------------
(* Type correctness of the whole specification, staff edits included.      *)

LEMMA InitType == Init => TypeOK
<1>. SUFFICES ASSUME Init PROVE TypeOK
  OBVIOUS
<1>1. participants \in SUBSET Seat
  BY RosterAssumption DEF Init, Seat
<1>2. gender \in {"MIXED", "MALE", "FEMALE"}
  BY GendersAssumption DEF Init
<1>. QED
  BY <1>1, <1>2, ConstantRecords, BoundsAssumption DEF Init, TypeOK, Object

LEMMA ClaimType ==
    ASSUME TypeOK, NEW r \in Requests, Claim(r)
    PROVE  TypeOK'
<1>1. req[r] \in Request /\ req[r].pc \in AttemptLabels
  BY DEF TypeOK, Claim, At, AttemptLabels
<1>2. req[r].att \in Attempts /\ req[r].id \in ProviderIds \cup {None}
  BY <1>1, AttemptRequest
<1>3. ClaimMatches(r) => [Mine(r) EXCEPT !.state = "PROVIDER_RESULT_UNKNOWN"] \in Payment
  BY <1>2, ChangedPayment DEF ClaimMatches, Mine, TypeOK, Holding
<1>4. pend' \in [Attempts -> Payment] /\ stamp' \in 0..MaxStamp
  BY <1>3, TouchType DEF Claim, Mutate, TypeOK
<1>5. req' \in [Requests -> Request]
  BY <1>1, GotoType, FinishType DEF Claim, Mutate, TypeOK, AttemptLabels
<1>. QED
  BY <1>4, <1>5 DEF Claim, Mutate, TypeOK, external

LEMMA RecordType ==
    ASSUME TypeOK, NEW r \in Requests, RecordIdentity(r)
    PROVE  TypeOK'
<1>1. req[r] \in Request /\ req[r].pc \in AttemptLabels
  BY DEF TypeOK, RecordIdentity, At, AttemptLabels
<1>2. req[r].att \in Attempts /\ req[r].id \in ProviderIds \cup {None}
  BY <1>1, AttemptRequest
<1>3. RecordMatches(r) => [Mine(r) EXCEPT !.providerId = req[r].id] \in Payment
  BY <1>2, ChangedPayment DEF RecordMatches, Mine, TypeOK, Holding
<1>4. pend' \in [Attempts -> Payment] /\ stamp' \in 0..MaxStamp
  BY <1>3, TouchType DEF RecordIdentity, Mutate, TypeOK
<1>5. req' \in [Requests -> Request]
  BY <1>1, GotoType, FinishType DEF RecordIdentity, Mutate, TypeOK, AttemptLabels
<1>. QED
  BY <1>4, <1>5 DEF RecordIdentity, Mutate, TypeOK, external

LEMMA BindType ==
    ASSUME TypeOK, NEW r \in Requests, Bind(r)
    PROVE  TypeOK'
<1>1. req[r] \in Request /\ req[r].pc \in AttemptLabels
  BY DEF TypeOK, Bind, At, AttemptLabels
<1>2. req[r].att \in Attempts /\ req[r].id \in ProviderIds \cup {None}
  BY <1>1, AttemptRequest
<1>3. BindMatches(r) => [Mine(r) EXCEPT !.state = "PENDING_PAYMENT"] \in Payment
  BY <1>2, ChangedPayment DEF BindMatches, Mine, TypeOK, Holding
<1>4. pend' \in [Attempts -> Payment] /\ stamp' \in 0..MaxStamp
  BY <1>3, TouchType DEF Bind, Mutate, TypeOK
<1>5. req' \in [Requests -> Request]
  BY <1>1, GotoType, FinishType DEF Bind, Mutate, TypeOK, AttemptLabels
<1>. QED
  BY <1>4, <1>5 DEF Bind, Mutate, TypeOK, external

LEMMA ClaimBookingType ==
    ASSUME TypeOK, NEW r \in Requests, ClaimBooking(r)
    PROVE  TypeOK'
<1>1. req[r] \in Request /\ req[r].pc \in AttemptLabels
  BY DEF TypeOK, ClaimBooking, At, AttemptLabels
<1>2. req[r].att \in Attempts /\ req[r].id \in ProviderIds \cup {None}
  BY <1>1, AttemptRequest
<1>3. ClaimBookingMatches(r) => [Mine(r) EXCEPT !.state = "BOOKING_CREATION_IN_PROGRESS"] \in Payment
  BY <1>2, ChangedPayment DEF ClaimBookingMatches, Mine, TypeOK, Holding
<1>4. pend' \in [Attempts -> Payment] /\ stamp' \in 0..MaxStamp
  BY <1>3, TouchType DEF ClaimBooking, Mutate, TypeOK
<1>5. req' \in [Requests -> Request]
  BY <1>1, GotoType, FinishType DEF ClaimBooking, Mutate, TypeOK, AttemptLabels
<1>. QED
  BY <1>4, <1>5 DEF ClaimBooking, Mutate, TypeOK, external

LEMMA BindBookingType ==
    ASSUME TypeOK, NEW r \in Requests, BindBooking(r)
    PROVE  TypeOK'
<1>1. req[r] \in Request /\ req[r].pc \in AttemptLabels
  BY DEF TypeOK, BindBooking, At, AttemptLabels
<1>2. req[r].att \in Attempts /\ req[r].id \in ProviderIds \cup {None}
  BY <1>1, AttemptRequest
<1>3. BindBookingMatches(r) => [Mine(r) EXCEPT !.state = "PENDING_PAYMENT", !.providerId = req[r].id] \in Payment
  BY <1>2, ChangedPayment DEF BindBookingMatches, Mine, TypeOK, Holding
<1>4. pend' \in [Attempts -> Payment] /\ stamp' \in 0..MaxStamp
  BY <1>3, TouchType DEF BindBooking, Mutate, TypeOK
<1>5. req' \in [Requests -> Request]
  BY <1>1, GotoType, FinishType DEF BindBooking, Mutate, TypeOK, AttemptLabels
<1>. QED
  BY <1>4, <1>5 DEF BindBooking, Mutate, TypeOK, external

LEMMA MarkType ==
    ASSUME TypeOK, NEW r \in Requests, Mark(r)
    PROVE  TypeOK'
<1>1. req[r] \in Request /\ req[r].pc \in AttemptLabels
  BY DEF TypeOK, Mark, At, AttemptLabels
<1>2. req[r].att \in Attempts /\ req[r].id \in ProviderIds \cup {None}
  BY <1>1, AttemptRequest
<1>3. MarkMatches(r) => [Mine(r) EXCEPT !.state = "PAID_PENDING_FINALIZATION",
                               !.evidence = req[r].id] \in Payment
  BY <1>2, ChangedPayment DEF MarkMatches, Mine, TypeOK, Holding
<1>4. pend' \in [Attempts -> Payment] /\ stamp' \in 0..MaxStamp
  BY <1>3, TouchType DEF Mark, Mutate, TypeOK
<1>5. req' \in [Requests -> Request]
  BY <1>1, GotoType, FinishType DEF Mark, Mutate, TypeOK, AttemptLabels
<1>. QED
  BY <1>4, <1>5 DEF Mark, Mutate, TypeOK, external

LEMMA ReserveType ==
    ASSUME TypeOK, NEW r \in Requests, Reserve(r)
    PROVE  TypeOK'
<1>1. req[r] \in [pc : {"RESERVE"}, phone : Phones, att : {None}, kind : Kinds,
                  id : {None}, rule : Rule]
  BY AdmissionRequest DEF TypeOK, Reserve, At
<1>2. CASE \E a \in Attempts : Unused(a) /\ ReserveSucceeds(r, a)
  <2>1. PICK a \in Attempts : ReserveSucceeds(r, a)
    BY <1>2
  <2>2. DEFINE new == [state |-> InitialState(req[r].kind), kind |-> req[r].kind,
                       phone |-> req[r].phone, providerId |-> None,
                       evidence |-> None]
               next == IF req[r].kind = "TRANSACTION" THEN "CLAIM" ELSE "REREAD"
  <2>3. new \in Payment
    BY <1>1 DEF Payment, InitialState, Holding
  <2>4. pend' \in [Attempts -> Payment] /\ stamp' \in 0..MaxStamp
    BY <2>1, <2>3, TouchType DEF ReserveSucceeds, TypeOK
  <2>5. [req[r] EXCEPT !.att = a, !.rule = None, !.pc = next] \in Request
    BY <1>1 DEF Request, AttemptLabels
  <2>6. req' = [req EXCEPT ![r] = [req[r] EXCEPT !.att = a, !.rule = None, !.pc = next]]
    BY <2>1 DEF ReserveSucceeds, TypeOK
  <2>7. req' \in [Requests -> Request]
    BY <2>5, <2>6 DEF TypeOK
  <2>. QED
    BY <2>4, <2>7 DEF Reserve, TypeOK, external
<1>3. CASE Finish(r) /\ UNCHANGED <<pend, stamp>>
  <2>1. req' \in [Requests -> Request]
    BY <1>3, FinishType DEF TypeOK
  <2>. QED
    BY <1>3, <2>1 DEF Reserve, TypeOK, external
<1>. QED
  BY <1>2, <1>3 DEF Reserve

LEMMA RereadType ==
    ASSUME TypeOK, NEW r \in Requests, Reread(r)
    PROVE  req' \in [Requests -> Request]
<1>1. req[r] \in Request /\ req[r].pc \in AttemptLabels
  BY DEF TypeOK, Reread, At, AttemptLabels
<1>2. ASSUME NEW a \in PendingOf(req[r].phone),
             req' = [req EXCEPT ![r].att = a, ![r].id = pend[a].providerId,
                                ![r].pc = Resumption(a)]
      PROVE  req' \in [Requests -> Request]
  <2>1. a \in Attempts /\ pend[a] \in Payment
    BY <1>2 DEF PendingOf, Pending, TypeOK
  <2>2. pend[a].providerId \in ProviderIds \cup {None} /\ Resumption(a) \in AttemptLabels
    BY <2>1 DEF Payment, NoPayment, Resumption, AttemptLabels
  <2>3. [req[r] EXCEPT !.att = a, !.id = pend[a].providerId, !.pc = Resumption(a)] \in Request
    BY <1>1, <2>1, <2>2, MovedRequest
  <2>4. req' = [req EXCEPT ![r] = [req[r] EXCEPT !.att = a, !.id = pend[a].providerId,
                                               !.pc = Resumption(a)]]
    BY <1>2 DEF TypeOK
  <2>. QED
    BY <2>3, <2>4 DEF TypeOK
<1>. QED
  BY <1>2, FinishType DEF Reread, TypeOK

LEMMA ReceiveType ==
    ASSUME TypeOK, NEW r \in Requests, Receive(r)
    PROVE  req' \in [Requests -> Request]
<1>1. req[r] \in Request /\ req[r].pc \in AttemptLabels
  BY DEF TypeOK, Receive, At, AttemptLabels
<1>2. PICK i \in answer[req[r].att], l \in {"RECORD", "BIND_BOOKING"} :
         req' = [req EXCEPT ![r].id = i, ![r].pc = l]
  BY DEF Receive
<1>3. i \in ProviderIds \cup {None} /\ l \in AttemptLabels
  BY <1>1, AttemptRequest DEF TypeOK, AttemptLabels
<1>4. [req[r] EXCEPT !.id = i, !.pc = l] \in Request
  BY <1>1, <1>3, MovedRequest
<1>5. req' = [req EXCEPT ![r] = [req[r] EXCEPT !.id = i, !.pc = l]]
  BY <1>2 DEF TypeOK
<1>. QED
  BY <1>4, <1>5 DEF TypeOK

LEMMA ListType ==
    ASSUME TypeOK, NEW r \in Requests, List(r)
    PROVE  req' \in [Requests -> Request]
<1>1. req[r] \in Request /\ req[r].pc \in AttemptLabels
  BY DEF TypeOK, List, AttemptLabels
<1>2. ASSUME NEW i \in ProviderIds,
             req' = [req EXCEPT ![r].id = i, ![r].pc = "BIND_BOOKING"]
      PROVE  req' \in [Requests -> Request]
  <2>1. [req[r] EXCEPT !.id = i, !.pc = "BIND_BOOKING"] \in Request
    BY <1>1, MovedRequest DEF AttemptLabels
  <2>2. req' = [req EXCEPT ![r] = [req[r] EXCEPT !.id = i, !.pc = "BIND_BOOKING"]]
    BY <1>2 DEF TypeOK
  <2>. QED
    BY <2>1, <2>2 DEF TypeOK
<1>. QED
  BY <1>1, <1>2, FinishType, GotoType DEF List, TypeOK, AttemptLabels

LEMMA PostType ==
    ASSUME TypeOK, NEW r \in Requests, Post(r)
    PROVE  TypeOK'
<1>1. req[r] \in Request /\ req[r].pc \in AttemptLabels
  BY DEF TypeOK, Post, At, AttemptLabels
<1>2. req[r].att \in Attempts /\ req[r].phone \in Phones /\ req[r].kind \in Kinds
  BY <1>1, AttemptRequest
<1>3. req' \in [Requests -> Request]
  BY <1>1, GotoType DEF Post, TypeOK, AttemptLabels
<1>4. posts' \in [Attempts -> 0..MaxPosts]
  BY <1>2, BoundsAssumption DEF Post, TypeOK
<1>5. wire' \in SUBSET Message
  BY <1>2 DEF Post, TypeOK, Message
<1>. QED
  BY <1>3, <1>4, <1>5 DEF Post, TypeOK, document

LEMMA FinalizeType ==
    ASSUME TypeOK, NEW r \in Requests, Finalize(r)
    PROVE  TypeOK'
<1>1. req[r] \in Request /\ req[r].pc \in AttemptLabels
  BY DEF TypeOK, Finalize, At, AttemptLabels
<1>2. req[r].att \in Attempts /\ req[r].phone \in Phones
  BY <1>1, AttemptRequest
<1>3. req' \in [Requests -> Request]
  BY FinishType DEF Finalize, TypeOK
<1>4. CASE FinalizeSucceeds(r)
  <2>1. participants' \in SUBSET Seat
    BY <1>2, <1>4 DEF FinalizeSucceeds, TypeOK, Seat
  <2>2. pend' \in [Attempts -> Payment]
    BY <1>4, ConstantRecords DEF FinalizeSucceeds, TypeOK
  <2>3. Mine(r).evidence \in ProviderIds \cup {None}
    BY <1>2 DEF Mine, TypeOK, Payment, NoPayment
  <2>4. settled' \in SUBSET [att : Attempts, phone : Phones, id : ProviderIds \cup {None}]
    BY <1>2, <1>4, <2>3 DEF FinalizeSucceeds, TypeOK
  <2>5. stamp' \in 0..MaxStamp
    BY <1>4, TouchType DEF FinalizeSucceeds
  <2>. QED
    BY <1>3, <2>1, <2>2, <2>4, <2>5 DEF Finalize, TypeOK, external
<1>5. CASE UNCHANGED <<participants, pend, settled, stamp>>
  BY <1>3, <1>5 DEF Finalize, TypeOK, external
<1>. QED
  BY <1>4, <1>5 DEF Finalize

LEMMA AppendType ==
    ASSUME TypeOK, NEW r \in Requests, AppendParticipant(r) \/ AppendWaitlist(r)
    PROVE  TypeOK'
<1>1. req[r] \in Request /\ req[r].pc \in AdmissionLabels
  BY DEF TypeOK, AppendParticipant, AppendWaitlist, At, AdmissionLabels
<1>2. req[r].phone \in Phones
  BY <1>1, AdmissionRequest
<1>3. req' \in [Requests -> Request]
  BY FinishType DEF AppendParticipant, AppendWaitlist, TypeOK
<1>4. participants' \in SUBSET Seat /\ waitlist' \in SUBSET Phones /\ stamp' \in 0..MaxStamp
  BY <1>2, TouchType DEF AppendParticipant, AppendWaitlist, TypeOK, Seat
<1>. QED
  BY <1>3, <1>4 DEF AppendParticipant, AppendWaitlist, TypeOK, external

LEMMA StepType ==
    ASSUME TypeOK, NEW r \in Requests, Step(r)
    PROVE  TypeOK'
<1>1. CASE Verify(r) \/ VerifyBooking(r)
  <2>1. req[r].pc \in AttemptLabels
    BY <1>1 DEF Verify, VerifyBooking, At, AttemptLabels
  <2>2. req' \in [Requests -> Request]
    BY <1>1, <2>1, FinishType, GotoType DEF Verify, VerifyBooking, TypeOK, AttemptLabels
  <2>. QED
    BY <1>1, <2>2 DEF Verify, VerifyBooking, TypeOK, document, external
<1>2. CASE Reread(r) \/ Receive(r) \/ List(r)
  <2>1. req' \in [Requests -> Request]
    BY <1>2, RereadType, ReceiveType, ListType
  <2>. QED
    BY <1>2, <2>1 DEF Reread, Receive, List, TypeOK, document, external
<1>. QED
  BY <1>1, <1>2, ReserveType, ClaimType, PostType, RecordType, BindType,
     ClaimBookingType, BindBookingType, MarkType, FinalizeType, AppendType
  DEF Step

LEMMA BeginType ==
    ASSUME TypeOK, NEW r \in Requests, Begin(r)
    PROVE  TypeOK'
<1>1. CurrentRule \in Rule
  BY DEF TypeOK, CurrentRule, Rule
<1>2. ASSUME NEW local \in Request, Start(r, local)
      PROVE  req' \in [Requests -> Request]
  BY <1>2 DEF Start, TypeOK
<1>3. ASSUME NEW p \in Phones, NEW kind \in Kinds, Admit(r, p, kind, "RESERVE")
      PROVE  req' \in [Requests -> Request]
  BY <1>1, <1>2, <1>3 DEF Admit, Request
<1>4. ASSUME NEW p \in Phones, NEW l \in AdmissionLabels, Admit(r, p, None, l)
      PROVE  req' \in [Requests -> Request]
  BY <1>1, <1>2, <1>4 DEF Admit, Request
<1>5. ASSUME NEW p \in Phones, NEW a \in PendingOf(p), NEW l \in AttemptLabels,
             Continue(r, p, a, l)
      PROVE  req' \in [Requests -> Request]
  <2>1. a \in Attempts /\ pend[a].kind \in Kinds /\ pend[a].providerId \in ProviderIds \cup {None}
    BY <1>5 DEF PendingOf, Pending, TypeOK, Payment, NoPayment
  <2>. QED
    BY <1>2, <1>5, <2>1 DEF Continue, Request
<1>6. \A a : Resumption(a) \in AttemptLabels
  BY DEF Resumption, AttemptLabels
<1>7. ASSUME NEW p \in Phones, NEW kind \in Kinds, BeginPurchase(r, p, kind)
      PROVE  TypeOK'
  <2>1. req' \in [Requests -> Request]
    BY <1>3, <1>5, <1>6, <1>7 DEF BeginPurchase
  <2>. QED
    BY <1>7, <2>1 DEF BeginPurchase, TypeOK, document, external
<1>8. ASSUME NEW p \in Phones, BeginConfirm(r, p)
      PROVE  TypeOK'
  <2>1. req' \in [Requests -> Request]
    BY <1>5, <1>8 DEF BeginConfirm, AttemptLabels
  <2>. QED
    BY <1>8, <2>1 DEF BeginConfirm, TypeOK, document, external
<1>9. ASSUME NEW p \in Phones, BeginRegister(r, p) \/ BeginWaitlist(r, p)
      PROVE  TypeOK'
  <2>1. req' \in [Requests -> Request]
    BY <1>4, <1>9 DEF BeginRegister, BeginWaitlist, AdmissionLabels
  <2>. QED
    BY <1>9, <2>1 DEF BeginRegister, BeginWaitlist, TypeOK, document, external
<1>. QED
  BY <1>7, <1>8, <1>9 DEF Begin

LEMMA ProviderType ==
    ASSUME TypeOK, (\E w \in wire : ProviderCreates(w)) \/ (\E i \in ProviderIds : Pay(i))
    PROVE  TypeOK'
<1>1. ASSUME NEW w \in wire, ProviderCreates(w)
      PROVE  TypeOK'
  <2>1. w \in Message
    BY DEF TypeOK
  <2>2. PICK i \in ProviderIds :
          /\ \/ provider' = [provider EXCEPT ![i] =
                   [status |-> IF w.kind = "TRANSACTION" THEN "UNPAID" ELSE "ACTIVE",
                    phone |-> w.phone]]
             \/ UNCHANGED provider
          /\ answer' = [answer EXCEPT ![w.att] = @ \cup {i}]
    BY <1>1 DEF ProviderCreates
  <2>3. provider' \in [ProviderIds -> Object]
    BY <2>1, <2>2 DEF TypeOK, Object, Message
  <2>4. answer' \in [Attempts -> SUBSET ProviderIds]
    BY <2>2 DEF TypeOK
  <2>. QED
    BY <1>1, <2>3, <2>4 DEF ProviderCreates, TypeOK, document
<1>2. ASSUME NEW i \in ProviderIds, Pay(i)
      PROVE  TypeOK'
  <2>1. [provider[i] EXCEPT !.status = "PAID"] \in Object
    BY DEF TypeOK, Object
  <2>2. provider' \in [ProviderIds -> Object]
    BY <1>2, <2>1 DEF Pay, TypeOK
  <2>. QED
    BY <1>2, <2>2 DEF Pay, TypeOK, document
<1>. QED
  BY <1>1, <1>2

LEMMA EditType ==
    ASSUME TypeOK, OverwriteNext
    PROVE  TypeOK'
<1>1. ASSUME NEW e \in Editors, NEW local \in Edit, BeginEdit(e, local)
      PROVE  TypeOK'
  BY <1>1 DEF BeginEdit, TypeOK, document, external
<1>2. ASSUME NEW e \in Editors, NEW p \in Phones, BeginCancel(e, p)
      PROVE  TypeOK'
  <2>1. [NoEdit EXCEPT !.pc = "LISTS",
            !.participants = {s \in participants : s.phone # p},
            !.waitlist = waitlist \ {p}] \in Edit
    BY ConstantRecords DEF NoEdit, Edit, TypeOK
  <2>. QED
    BY <1>1, <1>2, <2>1 DEF BeginCancel
<1>3. ASSUME NEW e \in Editors, NEW s \in {"OPEN", "CANCELED"}, BeginStatus(e, s)
      PROVE  TypeOK'
  <2>1. [NoEdit EXCEPT !.pc = "DETAILS", !.pend = pend, !.status = s] \in Edit
    BY ConstantRecords DEF NoEdit, Edit, TypeOK
  <2>. QED
    BY <1>1, <1>3, <2>1 DEF BeginStatus
<1>4. ASSUME NEW e \in Editors, WriteLists(e) \/ WriteStatus(e)
      PROVE  TypeOK'
  <2>1. edit[e] \in Edit
    BY DEF TypeOK
  <2>2. edit' \in [Editors -> Edit] /\ stamp' \in 0..MaxStamp
    BY <1>4, ConstantRecords, TouchType DEF WriteLists, WriteStatus, TypeOK
  <2>3. participants' \in SUBSET Seat /\ waitlist' \in SUBSET Phones
    BY <1>4, <2>1 DEF WriteLists, WriteStatus, TypeOK, Edit
  <2>4. pend' \in [Attempts -> Payment] /\ status' \in {"OPEN", "CANCELED"}
    BY <1>4, <2>1 DEF WriteLists, WriteStatus, TypeOK, Edit
  <2>. QED
    BY <1>4, <2>2, <2>3, <2>4 DEF WriteLists, WriteStatus, TypeOK, external
<1>5. ASSUME NEW m \in MaxPlayers, EditMaxPlayers(m)
      PROVE  TypeOK'
  BY <1>5, TouchType DEF EditMaxPlayers, TypeOK, external
<1>. QED
  BY <1>2, <1>3, <1>4, <1>5 DEF OverwriteNext

\* A script that has decided holds the checkout it decided about, as it read it.
Decided ==
    \A e \in Editors : edit[e].pc \in Resolutions =>
        LET read == edit[e].pend[edit[e].att] IN
        read.kind = "TRANSACTION" /\ read.state = "PROVIDER_RESULT_UNKNOWN"

LEMMA InitDecided == Init => Decided
BY DEF Init, Decided, NoEdit, Resolutions

LEMMA NextDecided == TypeOK /\ Decided /\ [Next]_vars => Decided'
<1>. SUFFICES ASSUME TypeOK, Decided, [Next]_vars PROVE Decided'
  OBVIOUS
<1>1. ASSUME UNCHANGED edit
      PROVE  Decided'
  BY <1>1 DEF Decided
<1>2. ASSUME NEW e \in Editors, NEW local, BeginEdit(e, local),
             local.pc \in Resolutions =>
                /\ local.pend[local.att].kind = "TRANSACTION"
                /\ local.pend[local.att].state = "PROVIDER_RESULT_UNKNOWN"
      PROVE  Decided'
  BY <1>2 DEF BeginEdit, Decided, TypeOK
<1>3. ASSUME NEW e \in Editors,
             \/ \E p \in Phones : BeginCancel(e, p)
             \/ \E s \in {"OPEN", "CANCELED"} : BeginStatus(e, s)
      PROVE  Decided'
  BY <1>2, <1>3 DEF BeginCancel, BeginStatus, NoEdit, Resolutions
<1>4. ASSUME NEW e \in Editors, NEW a \in Attempts, NEW x \in Resolutions,
             BeginReconcile(e, a, x)
      PROVE  Decided'
  BY <1>2, <1>4 DEF BeginReconcile, NoEdit
<1>5. ASSUME NEW e \in Editors, edit' = [edit EXCEPT ![e] = NoEdit]
      PROVE  Decided'
  BY <1>5 DEF Decided, TypeOK, NoEdit, Resolutions
<1>6. ASSUME NEW e \in Editors, WriteLists(e) \/ WriteStatus(e) \/ WriteReconciled(e)
      PROVE  Decided'
  BY <1>5, <1>6 DEF WriteLists, WriteStatus, WriteReconciled
<1>7. ASSUME NEW r \in Requests, Step(r) \/ Begin(r) \/ Crash(r)
      PROVE  UNCHANGED edit
  <2>1. CASE Begin(r) \/ Crash(r)
    BY <2>1 DEF Begin, BeginPurchase, BeginConfirm, BeginRegister, BeginWaitlist, Crash
  <2>2. CASE Step(r)
    BY <2>2 DEF Step, Reserve, Reread, Claim, Post, Receive, RecordIdentity, Bind,
                List, ClaimBooking, BindBooking, VerifyBooking, Verify, Mark,
                Finalize, AppendParticipant, AppendWaitlist, Mutate
  <2>. QED
    BY <1>7, <2>1, <2>2
<1>8. ASSUME NEW m, EditRule(m) \/ EditMaxPlayers(m) \/ Pay(m) \/ ProviderCreates(m)
      PROVE  UNCHANGED edit
  BY <1>8 DEF EditRule, EditMaxPlayers, Pay, ProviderCreates
<1>9. CASE GuardedNext
  BY <1>1, <1>4, <1>6, <1>7, <1>8, <1>9 DEF GuardedNext
<1>10. CASE OverwriteNext
  BY <1>1, <1>3, <1>6, <1>8, <1>10 DEF OverwriteNext
<1>11. CASE UNCHANGED vars
  BY <1>1, <1>11 DEF vars
<1>. QED
  BY <1>9, <1>10, <1>11 DEF Next

LEMMA ReconcileType ==
    ASSUME TypeOK, Decided, NEW e \in Editors,
           \/ \E a \in Attempts, x \in Resolutions : BeginReconcile(e, a, x)
           \/ WriteReconciled(e)
    PROVE  TypeOK'
<1>1. ASSUME NEW a \in Attempts, NEW x \in Resolutions, BeginReconcile(e, a, x)
      PROVE  TypeOK'
  <2>1. [NoEdit EXCEPT !.pc = x, !.pend = pend, !.att = a] \in Edit
    BY ConstantRecords DEF NoEdit, Edit, TypeOK
  <2>. QED
    BY <1>1, <2>1 DEF BeginReconcile, BeginEdit, TypeOK, document, external
<1>2. CASE WriteReconciled(e)
  <2>1. /\ edit[e].pend \in [Attempts -> Payment]
        /\ edit[e].att \in Attempts
    BY <1>2 DEF WriteReconciled, TypeOK, Edit, Resolutions
  <2>2. Replacement(e) \in Payment
    <3>1. /\ edit[e].pend[edit[e].att] \in Payment
          /\ edit[e].pend[edit[e].att].state = "PROVIDER_RESULT_UNKNOWN"
      BY <1>2, <2>1 DEF Decided, WriteReconciled
    <3>2. edit[e].pend[edit[e].att] \in
            [state : Holding, kind : Kinds, phone : Phones,
             providerId : ProviderIds \cup {None}, evidence : ProviderIds \cup {None}]
      BY <3>1 DEF Payment, NoPayment
    <3>. QED
      BY <3>2 DEF Replacement, Payment, Holding
  <2>3. pend' \in [Attempts -> Payment] /\ stamp' \in 0..MaxStamp
    BY <1>2, <2>2, TouchType DEF WriteReconciled, TypeOK
  <2>4. edit' \in [Editors -> Edit]
    BY <1>2, ConstantRecords DEF WriteReconciled, TypeOK
  <2>. QED
    BY <1>2, <2>3, <2>4 DEF WriteReconciled, TypeOK, external
<1>. QED
  BY <1>1, <1>2

LEMMA NextType == TypeOK /\ Decided /\ [Next]_vars => TypeOK'
<1>. SUFFICES ASSUME TypeOK, Decided, [Next]_vars PROVE TypeOK'
  OBVIOUS
<1>1. ASSUME NEW r \in Requests, Crash(r)
      PROVE  TypeOK'
  BY <1>1, FinishType DEF Crash, TypeOK, document, external
<1>2. ASSUME NEW g \in Genders, EditRule(g)
      PROVE  TypeOK'
  BY <1>2, TouchType, GendersAssumption DEF EditRule, TypeOK, external
<1>3. ASSUME NEW m \in MaxPlayers, EditMaxPlayers(m)
      PROVE  TypeOK'
  BY <1>3, TouchType DEF EditMaxPlayers, TypeOK, external
<1>4. CASE UNCHANGED vars
  BY <1>4 DEF vars, TypeOK, document, external
<1>5. CASE GuardedNext
  BY <1>1, <1>2, <1>3, <1>5, BeginType, StepType, ProviderType, ReconcileType
     DEF GuardedNext
<1>. QED
  BY <1>4, <1>5, EditType DEF Next

\* Every reachable state of the registration, staff edits included, is typed.
THEOREM TypeCorrect == Spec => []TypeOK
<1>. QED
  BY InitType, NextType, InitDecided, NextDecided, PTL DEF Spec
-----------------------------------------------------------------------------
(* One create POST per attempt.  The invariant that carries it: while an   *)
(* attempt can still be claimed nothing was sent for it and nobody is      *)
(* about to send, and the one request that claimed it sends alone.         *)

Creatable(a) ==
    \/ pend[a].state = "PROVIDER_CREATE_PENDING"
    \/ /\ pend[a].kind = "SUBSCRIPTION_BOOKING"
       /\ pend[a].state = "PENDING_PAYMENT"
       /\ pend[a].providerId = None

ClaimHeldOnce ==
    /\ \A a \in Attempts : Creatable(a) => posts[a] = 0
    /\ \A r \in Requests :
          At(r, "POST") => posts[req[r].att] = 0 /\ ~Creatable(req[r].att)
    /\ \A r, q \in Requests :
          At(r, "POST") /\ At(q, "POST") /\ req[r].att = req[q].att => r = q
    /\ \A r \in Requests : At(r, "BIND_BOOKING") => req[r].id # None
    /\ AtMostOneCreate

LEMMA InitClaim == Init => ClaimHeldOnce
BY DEF Init, ClaimHeldOnce, Creatable, NoPayment, AtMostOneCreate, At, Idle

\* A step that makes no attempt claimable and lets no request enter POST.
LEMMA QuietStep ==
    ASSUME TypeOK, ClaimHeldOnce, UNCHANGED posts,
           \A a \in Attempts : Creatable(a)' => Creatable(a),
           \A q \in Requests :
              \/ req'[q] = req[q]
              \/ req'[q].pc \notin {"POST", "BIND_BOOKING"}
              \/ req'[q].pc = "BIND_BOOKING" /\ req'[q].id # None
    PROVE  ClaimHeldOnce'
<1>1. \A q \in Requests :
         At(q, "POST")' => At(q, "POST") /\ req'[q] = req[q] /\ req[q].att \in Attempts
  BY AttemptRequest DEF At, TypeOK, AttemptLabels
<1>2. \A q \in Requests : At(q, "BIND_BOOKING")' => req'[q].id # None
  BY DEF ClaimHeldOnce, At
<1>. QED
  BY <1>1, <1>2 DEF ClaimHeldOnce, AtMostOneCreate

LEMMA ReserveClaim ==
    ASSUME TypeOK, ClaimHeldOnce, NEW r \in Requests, Reserve(r)
    PROVE  ClaimHeldOnce'
<1>1. CASE \E a \in Attempts : Unused(a) /\ ReserveSucceeds(r, a)
  <2>1. PICK a \in Attempts : Unused(a) /\ ReserveSucceeds(r, a)
    BY <1>1
  <2>2. posts[a] = 0 /\ UNCHANGED posts /\ \A q \in Requests : req[q].att # a
    BY <2>1 DEF Unused, Reserve
  <2>3. \A b \in Attempts : b # a => pend'[b] = pend[b]
    BY <2>1 DEF ReserveSucceeds, TypeOK
  <2>4. \A q \in Requests : q # r => req'[q] = req[q]
    BY <2>1 DEF ReserveSucceeds, TypeOK
  <2>5. req'[r].pc \in {"CLAIM", "REREAD"}
    <3>1. req[r] \in [pc : {"RESERVE"}, phone : Phones, att : {None}, kind : Kinds,
                      id : {None}, rule : Rule]
      BY AdmissionRequest DEF TypeOK, Reserve, At
    <3>2. req' = [req EXCEPT ![r] = [req[r] EXCEPT !.att = a, !.rule = None,
             !.pc = IF req[r].kind = "TRANSACTION" THEN "CLAIM" ELSE "REREAD"]]
      BY <2>1 DEF ReserveSucceeds, TypeOK
    <3>. QED
      BY <3>1, <3>2 DEF TypeOK
  <2>6. \A q \in Requests :
           At(q, "POST")' => /\ q # r /\ At(q, "POST") /\ req'[q] = req[q]
                             /\ req[q].att \in Attempts /\ req[q].att # a
    BY <2>2, <2>4, <2>5, AttemptRequest DEF At, TypeOK, AttemptLabels
  <2>7. \A b \in Attempts : b # a => Creatable(b)' = Creatable(b)
    BY <2>3 DEF Creatable
  <2>8. \A q \in Requests : At(q, "BIND_BOOKING")' => req'[q].id # None
    BY <2>4, <2>5 DEF ClaimHeldOnce, At
  <2>. QED
    BY <2>2, <2>6, <2>7, <2>8 DEF ClaimHeldOnce, AtMostOneCreate
<1>2. CASE Finish(r) /\ UNCHANGED <<pend, stamp>>
  BY <1>2, QuietStep DEF Reserve, Finish, Idle, TypeOK, Creatable
<1>. QED
  BY <1>1, <1>2 DEF Reserve

\* The claims: the attempt stops being claimable in the step that lets the
\* request send.
LEMMA ClaimClaim ==
    ASSUME TypeOK, ClaimHeldOnce, NEW r \in Requests, Claim(r) \/ ClaimBooking(r)
    PROVE  ClaimHeldOnce'
<1>1. req[r] \in Request /\ req[r].pc \in {"CLAIM", "CLAIM_BOOKING"}
  BY DEF TypeOK, Claim, ClaimBooking, At
<1>2. req[r].att \in Attempts
  BY <1>1, AttemptRequest DEF AttemptLabels
<1>3. UNCHANGED posts
  BY DEF Claim, ClaimBooking, Mutate
<1>4. CASE Finish(r) /\ UNCHANGED pend
  BY <1>3, <1>4, QuietStep DEF Finish, Idle, TypeOK, Creatable
<1>5. ASSUME Creatable(req[r].att), Goto(r, "POST"),
             NEW s \in {"PROVIDER_RESULT_UNKNOWN", "BOOKING_CREATION_IN_PROGRESS"},
             pend' = [pend EXCEPT ![req[r].att] = [Mine(r) EXCEPT !.state = s]]
      PROVE  ClaimHeldOnce'
  <2>1. pend'[req[r].att].state = s
    BY <1>2, <1>5 DEF TypeOK, Mine, Payment, NoPayment
  <2>2. ~Creatable(req[r].att)'
    <3>1. req' = [req EXCEPT ![r] = [req[r] EXCEPT !.pc = "POST"]]
      BY <1>5 DEF Goto
    <3>2. req'[r].att = req[r].att
      BY <1>1, <3>1, AttemptRequest DEF TypeOK, AttemptLabels
    <3>. QED
      BY <2>1, <1>5, <3>2 DEF Creatable
  <2>3. \A b \in Attempts : b # req[r].att => pend'[b] = pend[b]
    BY <1>5 DEF TypeOK
  <2>4. \A q \in Requests : q # r => req'[q] = req[q]
    BY <1>5 DEF Goto, TypeOK
  <2>5. req'[r].pc = "POST" /\ req'[r].att = req[r].att
    BY <1>1, <1>5, AttemptRequest DEF Goto, TypeOK, AttemptLabels
  <2>6. \A q \in Requests : At(q, "POST") => req[q].att # req[r].att /\ req[q].att \in Attempts
    BY <1>5, AttemptRequest DEF ClaimHeldOnce, At, TypeOK, AttemptLabels
  <2>7. \A b \in Attempts : Creatable(b)' => Creatable(b) /\ b # req[r].att
    BY <2>1, <2>3, <1>5 DEF Creatable
  <2>8. posts[req[r].att] = 0
    BY <1>2, <1>5 DEF ClaimHeldOnce
  <2>9. \A q \in Requests : At(q, "POST")' =>
           posts'[req'[q].att] = 0 /\ ~Creatable(req[q].att)'
    BY <1>2, <1>3, <2>4, <2>5, <2>6, <2>7, <2>8 DEF ClaimHeldOnce, At
  <2>. QED
    BY <1>2, <1>3, <2>4, <2>5, <2>6, <2>7, <2>8, <2>9
    DEF ClaimHeldOnce, At, AtMostOneCreate
<1>6. ClaimMatches(r) \/ ClaimBookingMatches(r) => Creatable(req[r].att)
  BY DEF ClaimMatches, ClaimBookingMatches, Creatable, Mine
<1>. QED
  BY <1>4, <1>5, <1>6 DEF Claim, ClaimBooking, Mutate

\* Every conditional update of an attempt that does not give the right to send.
LEMMA MutateClaim ==
    ASSUME TypeOK, ClaimHeldOnce, NEW r \in Requests, req[r].pc \in AttemptLabels,
           NEW matches, NEW payment, NEW label \in {"BIND", "IDLE", "FINALIZE", "VERIFY_BOOKING"},
           Mutate(r, matches, payment, label),
           matches => /\ payment.state # "PROVIDER_CREATE_PENDING"
                      /\ \/ payment.kind # "SUBSCRIPTION_BOOKING"
                         \/ payment.state # "PENDING_PAYMENT"
                         \/ payment.providerId # None
    PROVE  ClaimHeldOnce'
<1>1. req[r].att \in Attempts
  BY AttemptRequest DEF TypeOK
<1>2. UNCHANGED posts
  BY DEF Mutate
<1>3. \A a \in Attempts : Creatable(a)' => Creatable(a)
  <2>1. CASE UNCHANGED pend
    BY <2>1 DEF Creatable
  <2>2. CASE matches /\ pend' = [pend EXCEPT ![req[r].att] = payment]
    <3>1. pend'[req[r].att] = payment
      BY <1>1, <2>2 DEF TypeOK
    <3>2. \A a \in Attempts : a # req[r].att => pend'[a] = pend[a]
      BY <2>2 DEF TypeOK
    <3>3. payment.state # "PROVIDER_CREATE_PENDING"
      BY <2>2
    <3>4. ~ /\ payment.kind = "SUBSCRIPTION_BOOKING"
            /\ payment.state = "PENDING_PAYMENT"
            /\ payment.providerId = None
      BY <2>2
    <3>. QED
      BY <3>1, <3>2, <3>3, <3>4 DEF Creatable
  <2>. QED
    BY <2>1, <2>2 DEF Mutate
<1>4. \A q \in Requests : req'[q] = req[q] \/ req'[q].pc \notin {"POST", "BIND_BOOKING"}
  <2>1. CASE Finish(r)
    BY <2>1 DEF Finish, Idle, TypeOK
  <2>2. CASE Goto(r, label)
    <3>1. req' = [req EXCEPT ![r] = [req[r] EXCEPT !.pc = label]]
      BY <2>2 DEF Goto
    <3>2. req'[r].pc = label
      BY <3>1, AttemptRequest DEF TypeOK
    <3>3. \A q \in Requests : q # r => req'[q] = req[q]
      BY <3>1 DEF TypeOK
    <3>. QED
      BY <3>2, <3>3
  <2>. QED
    BY <2>1, <2>2 DEF Mutate
<1>. QED
  BY <1>2, <1>3, <1>4, QuietStep

LEMMA AdvanceClaim ==
    ASSUME TypeOK, ClaimHeldOnce, NEW r \in Requests,
           RecordIdentity(r) \/ Bind(r) \/ BindBooking(r) \/ Mark(r)
    PROVE  ClaimHeldOnce'
<1>1. req[r] \in Request /\ req[r].pc \in AttemptLabels
  BY DEF TypeOK, RecordIdentity, Bind, BindBooking, Mark, At, AttemptLabels
<1>2. req[r].att \in Attempts /\ req[r].id \in ProviderIds \cup {None}
  BY <1>1, AttemptRequest
<1>3. Mine(r).state # "ABSENT" =>
         Mine(r) \in [state : Holding, kind : Kinds, phone : Phones,
             providerId : ProviderIds \cup {None}, evidence : ProviderIds \cup {None}]
  BY <1>2 DEF Mine, TypeOK, Payment, NoPayment
<1>4. CASE RecordIdentity(r)
  <2>1. Mutate(r, RecordMatches(r), [Mine(r) EXCEPT !.providerId = req[r].id], "BIND")
    BY <1>4 DEF RecordIdentity
  <2>2. RecordMatches(r) =>
           /\ [Mine(r) EXCEPT !.providerId = req[r].id].state = "PROVIDER_RESULT_UNKNOWN"
           /\ [Mine(r) EXCEPT !.providerId = req[r].id].kind = "TRANSACTION"
    BY <1>3 DEF RecordMatches
  <2>. QED
    BY <1>1, <2>1, <2>2, MutateClaim
<1>5. CASE Bind(r)
  <2>1. Mutate(r, BindMatches(r), [Mine(r) EXCEPT !.state = "PENDING_PAYMENT"], "IDLE")
    BY <1>5 DEF Bind
  <2>2. BindMatches(r) =>
           /\ [Mine(r) EXCEPT !.state = "PENDING_PAYMENT"].state = "PENDING_PAYMENT"
           /\ [Mine(r) EXCEPT !.state = "PENDING_PAYMENT"].kind = "TRANSACTION"
    BY <1>3 DEF BindMatches
  <2>. QED
    BY <1>1, <2>1, <2>2, MutateClaim
<1>6. CASE BindBooking(r)
  <2>. DEFINE new == [Mine(r) EXCEPT !.state = "PENDING_PAYMENT", !.providerId = req[r].id]
  <2>1. Mutate(r, BindBookingMatches(r), new, "VERIFY_BOOKING")
    BY <1>6 DEF BindBooking
  <2>2. req[r].id # None
    BY <1>6 DEF BindBooking, ClaimHeldOnce
  <2>3. BindBookingMatches(r) => new.state = "PENDING_PAYMENT" /\ new.providerId # None
    BY <1>3, <2>2 DEF BindBookingMatches
  <2>. HIDE DEF new
  <2>. QED
    BY <1>1, <2>1, <2>3, MutateClaim
<1>7. CASE Mark(r)
  <2>. DEFINE new == [Mine(r) EXCEPT !.state = "PAID_PENDING_FINALIZATION",
                                     !.evidence = req[r].id]
              label == IF Open /\ Cardinality(participants) < Limit
                          /\ Mine(r).providerId = req[r].id
                       THEN "FINALIZE" ELSE "IDLE"
  <2>1. Mutate(r, MarkMatches(r), new, label)
    BY <1>7 DEF Mark
  <2>2. MarkMatches(r) => new.state = "PAID_PENDING_FINALIZATION"
    BY <1>3 DEF MarkMatches
  <2>3. label \in {"FINALIZE", "IDLE"}
    OBVIOUS
  <2>. HIDE DEF new, label
  <2>. QED
    BY <1>1, <2>1, <2>2, <2>3, MutateClaim
<1>. QED
  BY <1>4, <1>5, <1>6, <1>7

\* The one request that claimed the attempt sends, and leaves POST doing it.
LEMMA PostClaim ==
    ASSUME TypeOK, ClaimHeldOnce, NEW r \in Requests, Post(r)
    PROVE  ClaimHeldOnce'
<1>1. req[r] \in Request /\ req[r].pc = "POST"
  BY DEF TypeOK, Post, At
<1>2. req[r].att \in Attempts
  BY <1>1, AttemptRequest DEF AttemptLabels
<1>3. posts[req[r].att] = 0 /\ ~Creatable(req[r].att)
  BY <1>1 DEF ClaimHeldOnce, At
<1>4. \A a \in Attempts : a # req[r].att => posts'[a] = posts[a]
  BY DEF Post, TypeOK
<1>5. posts'[req[r].att] = 1
  BY <1>2, <1>3 DEF Post, TypeOK
<1>6. \A a \in Attempts : Creatable(a)' = Creatable(a)
  BY DEF Post, document, Creatable
<1>7. req' = [req EXCEPT ![r] = [req[r] EXCEPT !.pc = "AWAIT"]]
  BY DEF Post, Goto
<1>8. req'[r].pc = "AWAIT" /\ \A q \in Requests : q # r => req'[q] = req[q]
  BY <1>1, <1>7, AttemptRequest DEF TypeOK, AttemptLabels
<1>9. \A q \in Requests :
         At(q, "POST")' => /\ q # r /\ At(q, "POST") /\ req'[q] = req[q]
                           /\ req[q].att \in Attempts /\ req[q].att # req[r].att
  BY <1>1, <1>8, AttemptRequest DEF ClaimHeldOnce, At, TypeOK, AttemptLabels
<1>10. \A q \in Requests : At(q, "BIND_BOOKING")' => req'[q].id # None
  BY <1>8 DEF ClaimHeldOnce, At
<1>11. \A a \in Attempts : posts'[a] =< 1
  BY <1>4, <1>5 DEF ClaimHeldOnce, AtMostOneCreate
<1>12. \A q \in Requests : At(q, "POST")' => posts'[req'[q].att] = 0 /\ ~Creatable(req[q].att)'
  <2>1. SUFFICES ASSUME NEW q \in Requests, At(q, "POST")'
        PROVE  posts'[req'[q].att] = 0 /\ ~Creatable(req[q].att)'
    OBVIOUS
  <2>2. req'[q] = req[q] /\ posts[req[q].att] = 0 /\ ~Creatable(req[q].att)
    BY <1>9, <2>1 DEF ClaimHeldOnce
  <2>. QED
    BY <1>4, <1>6, <1>9, <2>1, <2>2 DEF Creatable
<1>. QED
  BY <1>3, <1>4, <1>6, <1>9, <1>10, <1>11, <1>12 DEF ClaimHeldOnce, AtMostOneCreate

\* Steps that only move the request.
LEMMA MoveClaim ==
    ASSUME TypeOK, ClaimHeldOnce, NEW r \in Requests,
           Receive(r) \/ List(r) \/ Reread(r) \/ Verify(r) \/ VerifyBooking(r) \/ Crash(r)
    PROVE  ClaimHeldOnce'
<1>1. UNCHANGED <<pend, posts>>
  BY DEF Receive, List, Reread, Verify, VerifyBooking, Crash, document
<1>2. \A q \in Requests : q # r => req'[q] = req[q]
  BY DEF Receive, List, Reread, Verify, VerifyBooking, Crash, Goto, Finish, TypeOK
<1>3. ASSUME NEW l \in AttemptLabels, req[r].pc \in AttemptLabels, Goto(r, l)
      PROVE  req'[r].pc = l
  <2>1. req' = [req EXCEPT ![r] = [req[r] EXCEPT !.pc = l]]
    BY <1>3 DEF Goto
  <2>. QED
    BY <1>3, <2>1, AttemptRequest DEF TypeOK
<1>4. CASE Finish(r)
  BY <1>1, <1>2, <1>4, QuietStep DEF Finish, Idle, TypeOK, Creatable
<1>5. ASSUME NEW i \in ProviderIds, NEW l \in {"RECORD", "BIND_BOOKING"},
             req[r].pc \in AttemptLabels,
             req' = [req EXCEPT ![r].id = i, ![r].pc = l]
      PROVE  ClaimHeldOnce'
  <2>1. req' = [req EXCEPT ![r] = [req[r] EXCEPT !.id = i, !.pc = l]]
    BY <1>5 DEF TypeOK
  <2>2. req'[r].pc = l /\ req'[r].id = i
    BY <1>5, <2>1, AttemptRequest DEF TypeOK
  <2>3. i # None
    BY NoneAssumption
  <2>. QED
    BY <1>1, <1>2, <2>2, <2>3, QuietStep DEF Creatable
<1>6. CASE Receive(r)
  <2>1. req[r].pc \in AttemptLabels /\ req[r] \in Request
    BY <1>6 DEF Receive, At, TypeOK, AttemptLabels
  <2>2. PICK i \in answer[req[r].att], l \in {"RECORD", "BIND_BOOKING"} :
           req' = [req EXCEPT ![r].id = i, ![r].pc = l]
    BY <1>6 DEF Receive
  <2>3. i \in ProviderIds
    BY <2>1, AttemptRequest DEF TypeOK
  <2>. QED
    BY <1>5, <2>1, <2>2, <2>3
<1>7. CASE List(r)
  <2>1. req[r].pc \in AttemptLabels
    BY <1>7 DEF List, AttemptLabels
  <2>2. CASE Goto(r, "CLAIM_BOOKING")
    BY <1>1, <1>2, <1>3, <2>1, <2>2, QuietStep DEF AttemptLabels, Creatable
  <2>. QED
    BY <1>4, <1>5, <1>7, <2>1, <2>2 DEF List
<1>8. CASE Reread(r)
  <2>1. ASSUME NEW a \in PendingOf(req[r].phone),
               req' = [req EXCEPT ![r].att = a, ![r].id = pend[a].providerId,
                                  ![r].pc = Resumption(a)]
        PROVE  ClaimHeldOnce'
    <3>1. req' = [req EXCEPT ![r] = [req[r] EXCEPT !.att = a, !.id = pend[a].providerId,
                                                 !.pc = Resumption(a)]]
      BY <2>1 DEF TypeOK
    <3>2. req[r].pc \in AttemptLabels
      BY <1>8 DEF Reread, At, AttemptLabels
    <3>3. req'[r].pc = Resumption(a)
      BY <3>1, <3>2, AttemptRequest DEF TypeOK
    <3>4. Resumption(a) \notin {"POST", "BIND_BOOKING"}
      BY DEF Resumption
    <3>. QED
      BY <1>1, <1>2, <3>3, <3>4, QuietStep DEF Creatable
  <2>. QED
    BY <1>4, <1>8, <2>1 DEF Reread
<1>9. CASE Verify(r) \/ VerifyBooking(r)
  <2>1. req[r].pc \in AttemptLabels
    BY <1>9 DEF Verify, VerifyBooking, At, AttemptLabels
  <2>2. CASE Goto(r, "MARK")
    BY <1>1, <1>2, <1>3, <2>1, <2>2, QuietStep DEF AttemptLabels, Creatable
  <2>. QED
    BY <1>4, <1>9, <2>2 DEF Verify, VerifyBooking
<1>. QED
  BY <1>4, <1>6, <1>7, <1>8, <1>9 DEF Crash

\* The end of a request that may have seated or queued somebody.
LEMMA EndClaim ==
    ASSUME TypeOK, ClaimHeldOnce, NEW r \in Requests,
           Finalize(r) \/ AppendParticipant(r) \/ AppendWaitlist(r)
    PROVE  ClaimHeldOnce'
<1>1. UNCHANGED posts /\ Finish(r)
  BY DEF Finalize, AppendParticipant, AppendWaitlist
<1>2. \A a \in Attempts : pend'[a] \in {pend[a], NoPayment}
  BY DEF Finalize, FinalizeSucceeds, AppendParticipant, AppendWaitlist, TypeOK
<1>3. \A a \in Attempts : Creatable(a)' => Creatable(a)
  BY <1>2 DEF Creatable, NoPayment
<1>. QED
  BY <1>1, <1>3, QuietStep DEF Finish, Idle, TypeOK

LEMMA BeginClaim ==
    ASSUME TypeOK, ClaimHeldOnce, NEW r \in Requests, Begin(r)
    PROVE  ClaimHeldOnce'
<1>1. UNCHANGED <<pend, posts>>
  BY DEF Begin, BeginPurchase, BeginConfirm, BeginRegister, BeginWaitlist, document
<1>2. \A q \in Requests : q # r => req'[q] = req[q]
  BY DEF Begin, BeginPurchase, BeginConfirm, BeginRegister, BeginWaitlist,
         Admit, Continue, Start, TypeOK
<1>3. \A a : Resumption(a) \notin {"POST", "BIND_BOOKING"}
  BY DEF Resumption
<1>4. req'[r].pc \notin {"POST", "BIND_BOOKING"}
  BY <1>3 DEF Begin, BeginPurchase, BeginConfirm, BeginRegister, BeginWaitlist,
              Admit, Continue, Start, TypeOK
<1>. QED
  BY <1>1, <1>2, <1>4, QuietStep DEF Creatable

\* What the script writes is a checkout that was created before.
LEMMA ReconcileClaim ==
    ASSUME TypeOK, Decided, ClaimHeldOnce, NEW e \in Editors, WriteReconciled(e)
    PROVE  ClaimHeldOnce'
<1>1. \A q \in Requests : req'[q] = req[q]
  BY DEF WriteReconciled
<1>2. Replacement(e).kind = "TRANSACTION" /\ Replacement(e).state # "PROVIDER_CREATE_PENDING"
  <2>1. edit[e].pend[edit[e].att] \in Payment
    BY DEF WriteReconciled, TypeOK, Edit, Resolutions
  <2>. QED
    BY <2>1 DEF Decided, WriteReconciled, Replacement, Payment, NoPayment
<1>3. \A a \in Attempts : pend'[a] = pend[a] \/ pend'[a] = Replacement(e)
  BY DEF WriteReconciled, TypeOK
<1>4. \A a \in Attempts : Creatable(a)' => Creatable(a)
  BY <1>2, <1>3 DEF Creatable
<1>. QED
  BY <1>1, <1>4, QuietStep DEF WriteReconciled

LEMMA NextClaim ==
    TypeOK /\ Decided /\ ClaimHeldOnce /\ [GuardedNext]_vars => ClaimHeldOnce'
<1>. SUFFICES ASSUME TypeOK, Decided, ClaimHeldOnce, [GuardedNext]_vars
              PROVE  ClaimHeldOnce'
  OBVIOUS
<1>1. ASSUME UNCHANGED <<pend, posts, req>>
      PROVE  ClaimHeldOnce'
  BY <1>1, QuietStep DEF Creatable
<1>2. ASSUME NEW r \in Requests, Step(r)
      PROVE  ClaimHeldOnce'
  BY <1>2, ReserveClaim, ClaimClaim, AdvanceClaim, PostClaim, MoveClaim, EndClaim DEF Step
<1>3. ASSUME NEW r \in Requests, Begin(r) \/ Crash(r)
      PROVE  ClaimHeldOnce'
  BY <1>3, BeginClaim, MoveClaim
<1>4. CASE UNCHANGED vars
  BY <1>1, <1>4 DEF vars, document
<1>5. ASSUME NEW w \in wire, ProviderCreates(w)
      PROVE  ClaimHeldOnce'
  BY <1>1, <1>5 DEF ProviderCreates, document
<1>6. ASSUME NEW i \in ProviderIds, Pay(i)
      PROVE  ClaimHeldOnce'
  BY <1>1, <1>6 DEF Pay, document
<1>7. ASSUME NEW g, EditRule(g) \/ EditMaxPlayers(g)
      PROVE  ClaimHeldOnce'
  BY <1>1, <1>7 DEF EditRule, EditMaxPlayers
<1>8. ASSUME NEW e \in Editors, NEW a, NEW x, BeginReconcile(e, a, x)
      PROVE  ClaimHeldOnce'
  BY <1>1, <1>8 DEF BeginReconcile, BeginEdit, document
<1>. QED
  BY <1>2, <1>3, <1>4, <1>5, <1>6, <1>7, <1>8, ReconcileClaim DEF GuardedNext

\* One local attempt never sends two create POSTs, for any number of requests
\* that continue it and die: the claims of PublicJoinPayment are exclusive.
THEOREM OneCreatePerAttempt == GuardedSpec => []AtMostOneCreate
<1>1. [GuardedNext]_vars => [Next]_vars
  BY DEF Next
<1>2. ClaimHeldOnce => AtMostOneCreate
  BY DEF ClaimHeldOnce
<1>. QED
  BY <1>1, <1>2, InitType, NextType, InitDecided, NextDecided, InitClaim, NextClaim, PTL
     DEF GuardedSpec
-----------------------------------------------------------------------------
(* The places.  A request works on an attempt of its own phone, because an *)
(* attempt id is never given out twice; with that, every guarded write     *)
(* keeps the places as they are, adds one that had room, or turns a held   *)
(* place into a seat.                                                      *)

OwnAttempt ==
    \A r \in Requests :
        req[r].att \in Pending => pend[req[r].att].phone = req[r].phone

\* A step after which the same phones have the same places.
Kept ==
    /\ UNCHANGED <<participants, waitlist>>
    /\ Pending' = Pending
    /\ \A a \in Pending : pend'[a].phone = pend[a].phone

\* A request goes on with the attempt it has, takes one of its phone, or ends.
Working(q) ==
    \/ req'[q].att \notin Attempts
    \/ req'[q].att = req[q].att /\ req'[q].phone = req[q].phone
    \/ req'[q].att \in Pending /\ pend[req'[q].att].phone = req'[q].phone

LEMMA OwnKept ==
    ASSUME TypeOK, OwnAttempt, \A q \in Requests : Working(q),
           Pending' \subseteq Pending,
           \A a \in Pending' : pend'[a].phone = pend[a].phone
    PROVE  OwnAttempt'
BY DEF OwnAttempt, Working, Pending

LEMMA FinishWorks ==
    ASSUME TypeOK, NEW r \in Requests, Finish(r)
    PROVE  \A q \in Requests : Working(q)
<1>1. \A q \in Requests : q # r => req'[q] = req[q]
  BY DEF Finish, TypeOK
<1>2. req'[r].att \notin Attempts
  BY NoneAssumption DEF Finish, TypeOK, Idle
<1>. QED
  BY <1>1, <1>2 DEF Working

LEMMA GotoWorks ==
    ASSUME TypeOK, NEW r \in Requests, req[r].pc \in AttemptLabels, NEW l, Goto(r, l)
    PROVE  \A q \in Requests : Working(q)
<1>1. req' = [req EXCEPT ![r] = [req[r] EXCEPT !.pc = l]]
  BY DEF Goto
<1>2. \A q \in Requests : q # r => req'[q] = req[q]
  BY <1>1 DEF TypeOK
<1>3. req'[r].att = req[r].att /\ req'[r].phone = req[r].phone
  BY <1>1, AttemptRequest DEF TypeOK
<1>. QED
  BY <1>2, <1>3 DEF Working

LEMMA MutateKeeps ==
    ASSUME TypeOK, NEW r \in Requests, req[r].pc \in AttemptLabels,
           NEW matches, NEW payment, NEW label, Mutate(r, matches, payment, label),
           matches => /\ Mine(r).state # "ABSENT"
                      /\ payment.state # "ABSENT"
                      /\ payment.phone = Mine(r).phone
    PROVE  /\ Kept /\ UNCHANGED maxPlayers
           /\ \A q \in Requests : Working(q)
<1>1. req[r].att \in Attempts
  BY AttemptRequest DEF TypeOK
<1>2. \A q \in Requests : Working(q)
  BY FinishWorks, GotoWorks DEF Mutate
<1>3. CASE UNCHANGED pend
  BY <1>2, <1>3 DEF Mutate, Kept, Pending
<1>4. CASE matches /\ pend' = [pend EXCEPT ![req[r].att] = payment]
  <2>1. pend'[req[r].att] = payment
    BY <1>1, <1>4 DEF TypeOK
  <2>2. \A a \in Attempts : a # req[r].att => pend'[a] = pend[a]
    BY <1>4 DEF TypeOK
  <2>3. Pending' = Pending
    BY <1>1, <1>4, <2>1, <2>2 DEF Pending, Mine
  <2>4. \A a \in Pending : pend'[a].phone = pend[a].phone
    BY <1>4, <2>1, <2>2 DEF Pending, Mine
  <2>. QED
    BY <1>2, <2>3, <2>4 DEF Mutate, Kept
<1>. QED
  BY <1>3, <1>4 DEF Mutate

LEMMA AdvanceKeeps ==
    ASSUME TypeOK, NEW r \in Requests,
           \/ Claim(r) \/ RecordIdentity(r) \/ Bind(r)
           \/ ClaimBooking(r) \/ BindBooking(r) \/ Mark(r)
    PROVE  /\ Kept /\ UNCHANGED maxPlayers
           /\ \A q \in Requests : Working(q)
<1>1. req[r] \in Request /\ req[r].pc \in AttemptLabels
  BY DEF TypeOK, Claim, RecordIdentity, Bind, ClaimBooking, BindBooking, Mark, At,
         AttemptLabels
<1>2. Mine(r) \in Payment
  BY <1>1, AttemptRequest DEF TypeOK, Mine
<1>3. Mine(r).state # "ABSENT" =>
         Mine(r) \in [state : Holding, kind : Kinds, phone : Phones,
                      providerId : ProviderIds \cup {None},
                      evidence : ProviderIds \cup {None}]
  BY <1>2 DEF Payment, NoPayment
<1>4. CASE Claim(r)
  <2>1. ClaimMatches(r) => Mine(r).state # "ABSENT"
    BY DEF ClaimMatches
  <2>. QED
    BY <1>1, <1>3, <1>4, <2>1, MutateKeeps DEF Claim
<1>5. CASE RecordIdentity(r)
  <2>1. RecordMatches(r) => Mine(r).state = "PROVIDER_RESULT_UNKNOWN"
    BY DEF RecordMatches
  <2>. QED
    BY <1>1, <1>3, <1>5, <2>1, MutateKeeps DEF RecordIdentity
<1>6. CASE Bind(r)
  <2>1. BindMatches(r) => Mine(r).state # "ABSENT"
    BY DEF BindMatches
  <2>. QED
    BY <1>1, <1>3, <1>6, <2>1, MutateKeeps DEF Bind
<1>7. CASE ClaimBooking(r)
  <2>1. ClaimBookingMatches(r) => Mine(r).state # "ABSENT"
    BY DEF ClaimBookingMatches
  <2>. QED
    BY <1>1, <1>3, <1>7, <2>1, MutateKeeps DEF ClaimBooking
<1>8. CASE BindBooking(r)
  <2>1. BindBookingMatches(r) => Mine(r).state # "ABSENT"
    BY DEF BindBookingMatches
  <2>. QED
    BY <1>1, <1>3, <1>8, <2>1, MutateKeeps DEF BindBooking
<1>9. CASE Mark(r)
  <2>1. MarkMatches(r) => Mine(r).state # "ABSENT"
    BY DEF MarkMatches
  <2>. QED
    BY <1>1, <1>3, <1>9, <2>1, MutateKeeps DEF Mark
<1>. QED
  BY <1>4, <1>5, <1>6, <1>7, <1>8, <1>9

LEMMA QuietWorks ==
    ASSUME TypeOK, NEW r \in Requests,
           \/ Reread(r) \/ Post(r) \/ Receive(r) \/ List(r) \/ VerifyBooking(r)
           \/ Verify(r) \/ Begin(r) \/ Crash(r)
    PROVE  UNCHANGED document /\ \A q \in Requests : Working(q)
<1>1. UNCHANGED document
  BY DEF Reread, Post, Receive, List, VerifyBooking, Verify, Begin, Crash,
         BeginPurchase, BeginConfirm, BeginRegister, BeginWaitlist
<1>2. CASE Crash(r)
  BY <1>1, <1>2, FinishWorks DEF Crash
<1>3. CASE Begin(r)
  <2>1. ASSUME NEW local, Start(r, local),
               \/ local.att \notin Attempts
               \/ local.att \in Pending /\ pend[local.att].phone = local.phone
        PROVE  \A q \in Requests : Working(q)
    <3>1. req'[r] = local /\ \A q \in Requests : q # r => req'[q] = req[q]
      BY <2>1 DEF Start, TypeOK
    <3>. QED
      BY <2>1, <3>1 DEF Working
  <2>2. ASSUME NEW p \in Phones, NEW kind, NEW l, Admit(r, p, kind, l)
        PROVE  \A q \in Requests : Working(q)
    BY <2>1, <2>2, NoneAssumption DEF Admit
  <2>3. ASSUME NEW p \in Phones, NEW a \in PendingOf(p), NEW l, Continue(r, p, a, l)
        PROVE  \A q \in Requests : Working(q)
    BY <2>1, <2>3 DEF Continue, PendingOf
  <2>. QED
    BY <1>1, <1>3, <2>2, <2>3
    DEF Begin, BeginPurchase, BeginConfirm, BeginRegister, BeginWaitlist
<1>4. CASE Reread(r)
  <2>1. req[r].pc \in AttemptLabels
    BY <1>4 DEF Reread, At, AttemptLabels
  <2>2. ASSUME NEW a \in PendingOf(req[r].phone),
               req' = [req EXCEPT ![r].att = a, ![r].id = pend[a].providerId,
                                  ![r].pc = Resumption(a)]
        PROVE  \A q \in Requests : Working(q)
    <3>1. req' = [req EXCEPT ![r] = [req[r] EXCEPT !.att = a, !.id = pend[a].providerId,
                                                 !.pc = Resumption(a)]]
      BY <2>2 DEF TypeOK
    <3>2. req'[r].att = a /\ req'[r].phone = req[r].phone
      BY <2>1, <3>1, AttemptRequest DEF TypeOK
    <3>3. \A q \in Requests : q # r => req'[q] = req[q]
      BY <3>1 DEF TypeOK
    <3>. QED
      BY <3>2, <3>3 DEF Working, PendingOf
  <2>. QED
    BY <1>1, <1>4, <2>2, FinishWorks DEF Reread
<1>5. CASE Post(r) \/ Verify(r) \/ VerifyBooking(r)
  <2>1. req[r].pc \in AttemptLabels
    BY <1>5 DEF Post, Verify, VerifyBooking, At, AttemptLabels
  <2>. QED
    BY <1>1, <1>5, <2>1, FinishWorks, GotoWorks DEF Post, Verify, VerifyBooking
<1>6. ASSUME req[r].pc \in AttemptLabels, NEW i, NEW l,
             req' = [req EXCEPT ![r] = [req[r] EXCEPT !.id = i, !.pc = l]]
      PROVE  \A q \in Requests : Working(q)
  <2>1. req'[r].att = req[r].att /\ req'[r].phone = req[r].phone
    BY <1>6, AttemptRequest DEF TypeOK
  <2>2. \A q \in Requests : q # r => req'[q] = req[q]
    BY <1>6 DEF TypeOK
  <2>. QED
    BY <2>1, <2>2 DEF Working
<1>7. CASE Receive(r)
  <2>1. req[r].pc \in AttemptLabels
    BY <1>7 DEF Receive, At, AttemptLabels
  <2>2. PICK i \in answer[req[r].att], l \in {"RECORD", "BIND_BOOKING"} :
           req' = [req EXCEPT ![r].id = i, ![r].pc = l]
    BY <1>7 DEF Receive
  <2>3. req' = [req EXCEPT ![r] = [req[r] EXCEPT !.id = i, !.pc = l]]
    BY <2>2 DEF TypeOK
  <2>. QED
    BY <1>1, <1>6, <2>1, <2>3
<1>8. CASE List(r)
  <2>1. req[r].pc \in AttemptLabels
    BY <1>8 DEF List, AttemptLabels
  <2>2. ASSUME NEW i, req' = [req EXCEPT ![r].id = i, ![r].pc = "BIND_BOOKING"]
        PROVE  \A q \in Requests : Working(q)
    <3>1. req' = [req EXCEPT ![r] = [req[r] EXCEPT !.id = i, !.pc = "BIND_BOOKING"]]
      BY <2>2 DEF TypeOK
    <3>. QED
      BY <1>6, <2>1, <3>1
  <2>. QED
    BY <1>1, <1>8, <2>1, <2>2, FinishWorks, GotoWorks DEF List
<1>. QED
  BY <1>2, <1>3, <1>4, <1>5, <1>7, <1>8

-----------------------------------------------------------------------------
(* Counting.                                                               *)

Counted == IsFiniteSet(participants) /\ OwnAttempt /\ PlacesHeld

LEMMA PendingFinite == IsFiniteSet(Pending) /\ Cardinality(Pending) \in Nat
BY FS_Subset, FS_CardinalityType, AttemptsAssumption DEF Pending

LEMMA LimitType == TypeOK => maxPlayers \in Nat /\ Limit \in Nat
BY MaxPlayersAssumption DEF TypeOK, Limit

\* The seats the roster starts with are as many as its phones.
LEMMA RosterCount ==
    LET seats == {[phone |-> p, att |-> None] : p \in Roster} IN
    IsFiniteSet(seats) /\ Cardinality(seats) =< Cardinality(Roster)
<1>. DEFINE seats == {[phone |-> p, att |-> None] : p \in Roster}
            f == [p \in Roster |-> [phone |-> p, att |-> None]]
<1>1. IsFiniteSet(Roster)
  BY FS_Subset, RosterAssumption
<1>2. f \in Surjection(Roster, seats)
  BY DEF Surjection
<1>. QED
  BY <1>1, <1>2, FS_Surjection

LEMMA InitCounted == Init => Counted
<1>. SUFFICES ASSUME Init PROVE Counted
  OBVIOUS
<1>1. Pending = {}
  BY DEF Init, Pending, NoPayment
<1>2. Cardinality(Pending) = 0
  BY <1>1, FS_EmptySet
<1>3. /\ IsFiniteSet(participants)
      /\ Cardinality(participants) =< Cardinality(Roster)
  BY RosterCount DEF Init
<1>4. /\ Cardinality(participants) \in Nat
      /\ Cardinality(Roster) \in Nat
  BY <1>3, FS_CardinalityType, FS_Subset, RosterAssumption
<1>5. maxPlayers \in Nat /\ Cardinality(Roster) =< maxPlayers
  BY MaxPlayersAssumption DEF Init
<1>6. Cardinality(participants) + Cardinality(Pending) =< Limit
  BY <1>2, <1>3, <1>4, <1>5 DEF Limit
<1>7. OncePerPhone
  BY <1>1 DEF Init, OncePerPhone
<1>. QED
  BY <1>1, <1>3, <1>6, <1>7 DEF Counted, OwnAttempt, PlacesHeld

\* The places stay as they are, and there are no fewer.
LEMMA KeptCounted ==
    ASSUME TypeOK, TypeOK', Counted, Kept, maxPlayers' >= maxPlayers,
           \A q \in Requests : Working(q)
    PROVE  Counted'
<1>1. OwnAttempt'
  BY OwnKept DEF Kept, Counted
<1>2. OncePerPhone'
  BY DEF Counted, PlacesHeld, Kept, OncePerPhone, Seated, PendingOf
<1>3. Limit \in Nat /\ Limit' \in Nat /\ Limit' >= Limit
  BY LimitType, MaxPlayersAssumption DEF Limit, TypeOK
<1>4. Cardinality(participants) \in Nat /\ Cardinality(Pending) \in Nat
  BY FS_CardinalityType, PendingFinite DEF Counted
<1>5. Cardinality(participants') + Cardinality(Pending') =< Limit'
  BY <1>3, <1>4 DEF Counted, PlacesHeld, Kept
<1>. QED
  BY <1>1, <1>2, <1>5 DEF Counted, PlacesHeld, Kept

\* A new attempt takes a place that was free, for a phone that had none.
LEMMA ReserveCounted ==
    ASSUME TypeOK, Counted, NEW r \in Requests, NEW a \in Attempts,
           Unused(a), ReserveSucceeds(r, a), UNCHANGED <<maxPlayers, participants, waitlist>>
    PROVE  Counted'
<1>. DEFINE p == req[r].phone
<1>1. pend'[a].phone = p /\ pend'[a].state # "ABSENT"
  BY DEF ReserveSucceeds, TypeOK, InitialState
<1>2. \A b \in Attempts : b # a => pend'[b] = pend[b]
  BY DEF ReserveSucceeds, TypeOK
<1>3. Pending' = Pending \cup {a} /\ a \notin Pending
  BY <1>1, <1>2 DEF Pending, Unused
<1>4. p \notin Seated /\ p \notin waitlist /\ PendingOf(p) = {}
  BY DEF ReserveSucceeds, Admissible
<1>5. OncePerPhone'
  <2>1. \A b, c \in Pending' : pend'[b].phone = pend'[c].phone => b = c
    BY <1>1, <1>2, <1>3, <1>4 DEF Counted, PlacesHeld, OncePerPhone, PendingOf, Pending
  <2>2. \A q \in waitlist' : q \notin Seated' /\ PendingOf(q)' = {}
    BY <1>1, <1>2, <1>3, <1>4 DEF Counted, PlacesHeld, OncePerPhone, PendingOf, Pending, Seated
  <2>3. \A b \in Pending' : pend'[b].phone \notin Seated'
    BY <1>1, <1>2, <1>3, <1>4 DEF Counted, PlacesHeld, OncePerPhone, Pending, Seated
  <2>. QED
    BY <2>1, <2>2, <2>3 DEF Counted, PlacesHeld, OncePerPhone
<1>6. Cardinality(Pending') = Cardinality(Pending) + 1
  BY <1>3, FS_AddElement, PendingFinite
<1>7. Cardinality(participants') + Cardinality(Pending') =< Limit'
  <2>1. Cardinality(participants) + Cardinality(Pending) < Limit
    BY DEF ReserveSucceeds, HasRoom
  <2>2. Cardinality(participants) \in Nat /\ Cardinality(Pending) \in Nat /\ Limit \in Nat
    BY FS_CardinalityType, PendingFinite, LimitType DEF Counted
  <2>. QED
    BY <1>6, <2>1, <2>2 DEF Limit
<1>8. OwnAttempt'
  <2>1. \A q \in Requests : q # r => req'[q] = req[q] /\ req[q].att # a
    BY DEF ReserveSucceeds, TypeOK, Unused
  <2>2. req' = [req EXCEPT ![r] = [req[r] EXCEPT !.att = a, !.rule = None,
          !.pc = IF req[r].kind = "TRANSACTION" THEN "CLAIM" ELSE "REREAD"]]
    BY DEF ReserveSucceeds, TypeOK
  <2>3. CASE req'[r].phone = p /\ req'[r].att = a
    BY <1>1, <1>2, <1>3, <2>1, <2>3 DEF OwnAttempt, Counted, Pending
  <2>4. req[r] \in Request => req'[r].phone = p /\ req'[r].att = a
    BY <2>2 DEF Request, Idle, TypeOK
  <2>. QED
    BY <2>3, <2>4 DEF TypeOK
<1>. QED
  BY <1>5, <1>7, <1>8 DEF Counted, PlacesHeld

\* The held place of a paid attempt becomes the seat of its phone.
LEMMA FinalizeCounted ==
    ASSUME TypeOK, Counted, NEW r \in Requests, req[r].pc \in AttemptLabels,
           FinalizeMatches(r), FinalizeSucceeds(r), Finish(r),
           UNCHANGED <<maxPlayers, waitlist>>
    PROVE  Counted'
<1>. DEFINE p == req[r].phone
            a == req[r].att
            s == [phone |-> p, att |-> a]
<1>1. a \in Pending /\ pend[a].phone = p
  BY AttemptRequest DEF TypeOK, FinalizeMatches, Mine, Pending, Counted, OwnAttempt
<1>2. pend'[a] = NoPayment /\ \A b \in Attempts : b # a => pend'[b] = pend[b]
  BY <1>1 DEF FinalizeSucceeds, TypeOK, Pending
<1>3. Pending' = Pending \ {a}
  BY <1>2 DEF Pending, NoPayment
<1>4. participants' = participants \cup {s} /\ s \notin participants
  BY DEF FinalizeSucceeds, FinalizeMatches, Seated
<1>5. OncePerPhone'
  <2>1. \A t, u \in participants' : t.phone = u.phone => t = u
    BY <1>4 DEF FinalizeMatches, Seated, Counted, PlacesHeld, OncePerPhone
  <2>2. \A b, c \in Pending' : pend'[b].phone = pend'[c].phone => b = c
    BY <1>2, <1>3 DEF Counted, PlacesHeld, OncePerPhone, Pending
  <2>3. Seated' = Seated \cup {p}
    BY <1>4 DEF Seated
  <2>4. p \notin waitlist
    BY <1>1 DEF Counted, PlacesHeld, OncePerPhone, PendingOf
  <2>5. \A q \in waitlist' : q \notin Seated' /\ PendingOf(q)' = {}
    BY <1>2, <1>3, <2>3, <2>4 DEF Counted, PlacesHeld, OncePerPhone, PendingOf, Pending
  <2>6. \A b \in Pending' : pend'[b].phone \notin Seated'
    BY <1>1, <1>2, <1>3, <2>3 DEF Counted, PlacesHeld, OncePerPhone, Pending
  <2>. QED
    BY <2>1, <2>2, <2>5, <2>6 DEF OncePerPhone
<1>6. /\ Cardinality(participants') = Cardinality(participants) + 1
      /\ IsFiniteSet(participants')
  BY <1>4, FS_AddElement DEF Counted
<1>7. Cardinality(Pending') = Cardinality(Pending) - 1
  BY <1>1, <1>3, FS_RemoveElement, PendingFinite
<1>8. Cardinality(participants') + Cardinality(Pending') =< Limit'
  <2>1. Cardinality(participants) \in Nat /\ Cardinality(Pending) \in Nat
    BY FS_CardinalityType, PendingFinite DEF Counted
  <2>2. Limit' = Limit /\ Limit \in Nat
    BY LimitType DEF Limit
  <2>. QED
    BY <1>6, <1>7, <2>1, <2>2 DEF Counted, PlacesHeld
<1>9. OwnAttempt'
  BY <1>2, <1>3, FinishWorks, OwnKept DEF Counted, Pending
<1>. QED
  BY <1>5, <1>6, <1>8, <1>9 DEF Counted, PlacesHeld

\* A free registration takes a seat that was free.
LEMMA AppendCounted ==
    ASSUME TypeOK, Counted, NEW r \in Requests, Admissible(req[r].phone, req[r].rule),
           HasRoom, participants' = participants \cup {[phone |-> req[r].phone, att |-> None]},
           Finish(r), UNCHANGED <<maxPlayers, waitlist, pend>>
    PROVE  Counted'
<1>. DEFINE p == req[r].phone
            s == [phone |-> p, att |-> None]
<1>1. s \notin participants /\ p \notin Seated /\ p \notin waitlist /\ PendingOf(p) = {}
  BY DEF Admissible, Seated
<1>2. Pending' = Pending
  BY DEF Pending
<1>3. Seated' = Seated \cup {p}
  <2>1. \A t : t \in participants' <=> t \in participants \/ t = s
    OBVIOUS
  <2>2. s.phone = p
    OBVIOUS
  <2>3. \A q : q \in Seated' <=> \E t \in participants' : q = t.phone
    BY DEF Seated
  <2>4. \A q : q \in Seated <=> \E t \in participants : q = t.phone
    BY DEF Seated
  <2>. HIDE DEF s
  <2>5. \A q : q \in Seated' <=> q \in Seated \/ q = p
    BY <2>1, <2>2, <2>3, <2>4
  <2>. QED
    BY <2>5
<1>4. OncePerPhone'
  <2>1. \A t, u \in participants' : t.phone = u.phone => t = u
    BY <1>1 DEF Seated, Counted, PlacesHeld, OncePerPhone
  <2>. QED
    BY <1>1, <1>2, <1>3, <2>1 DEF Counted, PlacesHeld, OncePerPhone, PendingOf
<1>5. /\ Cardinality(participants') = Cardinality(participants) + 1
      /\ IsFiniteSet(participants')
  BY <1>1, FS_AddElement DEF Counted
<1>6. Cardinality(participants') + Cardinality(Pending') =< Limit'
  <2>1. Cardinality(participants) + Cardinality(Pending) < Limit
    BY DEF HasRoom
  <2>2. Cardinality(participants) \in Nat /\ Cardinality(Pending) \in Nat /\ Limit \in Nat
    BY FS_CardinalityType, PendingFinite, LimitType DEF Counted
  <2>. QED
    BY <1>2, <1>5, <2>1, <2>2 DEF Limit
<1>7. OwnAttempt'
  BY <1>2, FinishWorks, OwnKept DEF Counted
<1>. QED
  BY <1>4, <1>5, <1>6, <1>7 DEF Counted, PlacesHeld

LEMMA QueueCounted ==
    ASSUME TypeOK, Counted, NEW r \in Requests, Admissible(req[r].phone, req[r].rule),
           waitlist' = waitlist \cup {req[r].phone}, Finish(r),
           UNCHANGED <<maxPlayers, participants, pend>>
    PROVE  Counted'
<1>1. Pending' = Pending /\ Seated' = Seated /\ Limit' = Limit
  BY DEF Pending, Seated, Limit
<1>2. OncePerPhone'
  BY <1>1 DEF Admissible, Counted, PlacesHeld, OncePerPhone, PendingOf
<1>3. OwnAttempt'
  BY <1>1, FinishWorks, OwnKept DEF Counted
<1>. QED
  BY <1>1, <1>2, <1>3 DEF Counted, PlacesHeld

\* The script changes what an attempt holds, not whose it is.
LEMMA ReconcileKeeps ==
    ASSUME TypeOK, Decided, NEW e \in Editors, WriteReconciled(e)
    PROVE  Kept
<1>1. CASE UNCHANGED pend
  BY <1>1 DEF WriteReconciled, Kept, Pending
<1>2. CASE ReconcileMatches(e) /\ pend' = [pend EXCEPT ![edit[e].att] = Replacement(e)]
  <2>. DEFINE a == edit[e].att
  <2>1. a \in Attempts /\ pend[a] \in Payment /\ pend[a].state = "PROVIDER_RESULT_UNKNOWN"
    BY <1>2 DEF WriteReconciled, ReconcileMatches, TypeOK, Edit, Resolutions, Decided
  <2>2. pend[a] \in [state : Holding, kind : Kinds, phone : Phones,
                     providerId : ProviderIds \cup {None}, evidence : ProviderIds \cup {None}]
    BY <2>1 DEF Payment, NoPayment
  <2>3. Replacement(e).phone = pend[a].phone /\ Replacement(e).state # "ABSENT"
    BY <1>2, <2>2 DEF Replacement, ReconcileMatches
  <2>4. pend'[a] = Replacement(e) /\ \A b \in Attempts : b # a => pend'[b] = pend[b]
    BY <1>2, <2>1 DEF TypeOK
  <2>5. Pending' = Pending
    BY <2>1, <2>3, <2>4 DEF Pending
  <2>. QED
    BY <2>3, <2>4, <2>5 DEF Kept, WriteReconciled, Pending
<1>. QED
  BY <1>1, <1>2 DEF WriteReconciled

LEMMA NextCounted ==
    TypeOK /\ TypeOK' /\ Decided /\ Counted /\ [GuardedNext]_vars => Counted'
<1>. SUFFICES ASSUME TypeOK, TypeOK', Decided, Counted, [GuardedNext]_vars
              PROVE  Counted'
  OBVIOUS
<1>1. ASSUME UNCHANGED <<participants, waitlist, pend, req>>, maxPlayers' >= maxPlayers
      PROVE  Counted'
  BY <1>1, KeptCounted DEF Kept, Pending, Working
<1>2. maxPlayers \in Nat
  BY LimitType
<1>3. ASSUME NEW r \in Requests,
             \/ Reread(r) \/ Post(r) \/ Receive(r) \/ List(r) \/ VerifyBooking(r)
             \/ Verify(r) \/ Begin(r) \/ Crash(r)
      PROVE  Counted'
  BY <1>2, <1>3, QuietWorks, KeptCounted DEF Kept, Pending, document
<1>4. ASSUME NEW r \in Requests,
             \/ Claim(r) \/ RecordIdentity(r) \/ Bind(r)
             \/ ClaimBooking(r) \/ BindBooking(r) \/ Mark(r)
      PROVE  Counted'
  BY <1>2, <1>4, AdvanceKeeps, KeptCounted
<1>5. ASSUME NEW r \in Requests, Finish(r), UNCHANGED <<participants, waitlist, pend, maxPlayers>>
      PROVE  Counted'
  BY <1>2, <1>5, FinishWorks, KeptCounted DEF Kept, Pending
<1>6. ASSUME NEW r \in Requests, Reserve(r)
      PROVE  Counted'
  BY <1>5, <1>6, ReserveCounted DEF Reserve
<1>7. ASSUME NEW r \in Requests, Finalize(r)
      PROVE  Counted'
  <2>1. req[r].pc \in AttemptLabels
    BY <1>7 DEF Finalize, At, AttemptLabels
  <2>. QED
    BY <1>5, <1>7, <2>1, FinalizeCounted DEF Finalize
<1>8. ASSUME NEW r \in Requests, AppendParticipant(r)
      PROVE  Counted'
  BY <1>5, <1>8, AppendCounted DEF AppendParticipant
<1>9. ASSUME NEW r \in Requests, AppendWaitlist(r)
      PROVE  Counted'
  BY <1>5, <1>9, QueueCounted DEF AppendWaitlist
<1>10. ASSUME NEW r \in Requests, Step(r)
      PROVE  Counted'
  BY <1>3, <1>4, <1>6, <1>7, <1>8, <1>9, <1>10 DEF Step
<1>11. ASSUME NEW x, ProviderCreates(x) \/ Pay(x) \/ EditRule(x)
      PROVE  Counted'
  BY <1>1, <1>2, <1>11 DEF ProviderCreates, Pay, EditRule, document
<1>12. ASSUME NEW m \in MaxPlayers, m > maxPlayers, EditMaxPlayers(m)
      PROVE  Counted'
  <2>1. maxPlayers' >= maxPlayers
    BY <1>2, <1>12, MaxPlayersAssumption DEF EditMaxPlayers
  <2>. QED
    BY <1>1, <1>12, <2>1 DEF EditMaxPlayers
<1>13. ASSUME NEW e \in Editors, NEW a, NEW x, BeginReconcile(e, a, x)
      PROVE  Counted'
  BY <1>1, <1>2, <1>13 DEF BeginReconcile, BeginEdit, document
<1>14. ASSUME NEW e \in Editors, WriteReconciled(e)
      PROVE  Counted'
  <2>1. Kept /\ UNCHANGED maxPlayers /\ \A q \in Requests : Working(q)
    BY <1>14, ReconcileKeeps DEF WriteReconciled, Working
  <2>. QED
    BY <1>2, <2>1, KeptCounted
<1>15. CASE UNCHANGED vars
  BY <1>1, <1>2, <1>15 DEF vars, document
<1>. QED
  BY <1>3, <1>10, <1>11, <1>12, <1>13, <1>14, <1>15 DEF GuardedNext

\* However many requests race for the last places, and wherever they die, nobody
\* is in two places and the seats with the attempts still being paid for fit.
THEOREM NeverOversold == GuardedSpec => []PlacesHeld
<1>1. [GuardedNext]_vars => [Next]_vars
  BY DEF Next
<1>2. Counted => PlacesHeld
  BY DEF Counted
<1>. QED
  BY <1>1, <1>2, InitType, NextType, InitDecided, NextDecided, InitCounted, NextCounted, PTL
     DEF GuardedSpec

-----------------------------------------------------------------------------
(* The ledger.  A phone's place is read off the document; a write that     *)
(* touches the places of one phone is one move of that phone.              *)

\* What SeatLedger counts with is what the document counts with.
LEMMA SameCount == \A S : Ledger!Cardinality(S) = Cardinality(S)
BY DEF Ledger!Cardinality, Cardinality

LEMMA OccupiedCount ==
    ASSUME TypeOK, Counted
    PROVE  /\ Cardinality(Ledger!Occupied) \in Nat
           /\ Cardinality(Ledger!Occupied) =< Cardinality(participants) + Cardinality(Pending)
<1>. DEFINE f == [s \in participants |-> s.phone]
            g == [a \in Pending |-> pend[a].phone]
<1>1. f \in Surjection(participants, Seated)
  BY DEF Surjection, Seated
<1>2. g \in Surjection(Pending, PayingPhones)
  BY DEF Surjection, PayingPhones
<1>3. IsFiniteSet(Seated) /\ Cardinality(Seated) =< Cardinality(participants)
  BY <1>1, FS_Surjection DEF Counted
<1>4. IsFiniteSet(PayingPhones) /\ Cardinality(PayingPhones) =< Cardinality(Pending)
  BY <1>2, FS_Surjection, PendingFinite
<1>5. /\ IsFiniteSet(Seated \cup PayingPhones)
      /\ Cardinality(Seated \cup PayingPhones) =
            Cardinality(Seated) + Cardinality(PayingPhones)
              - Cardinality(Seated \cap PayingPhones)
  BY <1>3, <1>4, FS_Union
<1>6. Cardinality(Seated \cap PayingPhones) \in Nat
  BY <1>3, FS_Intersection, FS_CardinalityType
<1>7. Ledger!Occupied \subseteq Seated \cup PayingPhones
  BY DEF Ledger!Occupied, Place
<1>8. /\ Cardinality(Ledger!Occupied) \in Nat
      /\ Cardinality(Ledger!Occupied) =< Cardinality(Seated \cup PayingPhones)
  BY <1>5, <1>7, FS_Subset, FS_CardinalityType
<1>9. /\ Cardinality(Seated) \in Nat /\ Cardinality(PayingPhones) \in Nat
      /\ Cardinality(participants) \in Nat /\ Cardinality(Pending) \in Nat
      /\ Cardinality(Seated \cup PayingPhones) \in Nat
  BY <1>3, <1>4, <1>5, FS_CardinalityType, PendingFinite DEF Counted
<1>. HIDE DEF f, g
<1>. QED
  BY <1>3, <1>4, <1>5, <1>6, <1>8, <1>9

LEMMA PlaceMoves ==
    ASSUME NEW p \in Phones, NEW l, Place'[p] = l,
           \A q \in Phones : q # p =>
              /\ q \in Seated' <=> q \in Seated
              /\ q \in waitlist' <=> q \in waitlist
              /\ q \in PayingPhones' <=> q \in PayingPhones
    PROVE  Place' = [Place EXCEPT ![p] = l]
BY DEF Place

LEMMA KeptPlace == Kept => Place' = Place
<1>. SUFFICES ASSUME Kept PROVE Place' = Place
  OBVIOUS
<1>1. Seated' = Seated /\ waitlist' = waitlist
  BY DEF Kept, Seated
<1>2. PayingPhones' = PayingPhones
  BY DEF Kept, PayingPhones
<1>. QED
  BY <1>1, <1>2 DEF Place

LEMMA InitLedger == TypeOK /\ Counted /\ Init => Ledger!Init
<1>. SUFFICES ASSUME TypeOK, Counted, Init PROVE Ledger!Init
  OBVIOUS
<1>1. Limit \in Nat
  BY LimitType
<1>2. \A a \in Attempts : pend[a].state = "ABSENT"
  BY DEF Init, NoPayment
<1>3. PayingPhones = {} /\ PaidPhones = {}
  BY <1>2 DEF PayingPhones, PaidPhones, Pending
<1>4. Place \in [Phones -> {"NONE", "SEATED"}]
  BY <1>3 DEF Place, Init
<1>5. Ledger!Cardinality(Ledger!Occupied) =< Limit
  BY <1>1, OccupiedCount, SameCount, FS_CardinalityType, PendingFinite
     DEF Counted, PlacesHeld
<1>. QED
  BY <1>1, <1>3, <1>4, <1>5 DEF Ledger!Init

\* A step is a move of the ledger or none.
LedgerStep ==
    \/ \E p \in Phones :
          \/ Ledger!Hold(p) \/ Ledger!Take(p) \/ Ledger!Queue(p)
          \/ Ledger!Settle(p) \/ Ledger!Confirm(p)
    \/ Ledger!Grow
    \/ UNCHANGED <<Limit, Place, PaidPhones>>

LEMMA LedgerStepIsNext == LedgerStep => [Ledger!Next]_(Ledger!vars)
BY DEF LedgerStep, Ledger!Next, Ledger!vars

\* One attempt changed what it holds, and it did not stop being paid.
Advanced ==
    \E a \in Pending :
        /\ \A b \in Attempts : b # a => pend'[b] = pend[b]
        /\ pend[a].state = "PAID_PENDING_FINALIZATION"
              => pend'[a].state = "PAID_PENDING_FINALIZATION"

LEMMA AdvancedLedger ==
    ASSUME TypeOK, Counted, Kept, Advanced, UNCHANGED maxPlayers
    PROVE  LedgerStep
<1>1. PICK a \in Pending :
         /\ \A b \in Attempts : b # a => pend'[b] = pend[b]
         /\ pend[a].state = "PAID_PENDING_FINALIZATION"
              => pend'[a].state = "PAID_PENDING_FINALIZATION"
  BY DEF Advanced
<1>. DEFINE p == pend[a].phone
<1>2. a \in Attempts /\ pend'[a].phone = p
  BY DEF Kept, Pending
<1>3. Place' = Place /\ Limit' = Limit
  BY KeptPlace DEF Limit
<1>4. PaidPhones' \in {PaidPhones, PaidPhones \cup {p}}
  <2>1. CASE pend'[a].state = "PAID_PENDING_FINALIZATION"
    <3>1. \A q : q \in PaidPhones' <=> q \in PaidPhones \/ q = p
      BY <1>1, <1>2, <2>1 DEF PaidPhones
    <3>. QED
      BY <3>1
  <2>2. CASE pend'[a].state # "PAID_PENDING_FINALIZATION"
    <3>1. \A q : q \in PaidPhones' <=> q \in PaidPhones
      BY <1>1, <1>2, <2>2 DEF PaidPhones
    <3>. QED
      BY <3>1
  <2>. QED
    BY <2>1, <2>2
<1>5. p \in Phones /\ Place[p] = "HELD"
  <2>1. pend[a] \in Payment /\ pend[a].state # "ABSENT"
    BY DEF TypeOK, Pending
  <2>2. p \in Phones
    BY <2>1 DEF Payment, NoPayment
  <2>3. p \notin Seated /\ p \notin waitlist /\ p \in PayingPhones
    BY DEF Counted, PlacesHeld, OncePerPhone, PayingPhones, PendingOf
  <2>. QED
    BY <2>2, <2>3 DEF Place
<1>6. CASE PaidPhones' = PaidPhones
  BY <1>3, <1>6 DEF LedgerStep
<1>7. CASE PaidPhones' # PaidPhones
  <2>1. Ledger!Settle(p)
    BY <1>3, <1>4, <1>5, <1>7 DEF Ledger!Settle
  <2>. QED
    BY <1>5, <2>1 DEF LedgerStep
<1>. QED
  BY <1>6, <1>7

LEMMA MutateAdvances ==
    ASSUME TypeOK, NEW r \in Requests, req[r].pc \in AttemptLabels,
           NEW matches, NEW payment, NEW label, Mutate(r, matches, payment, label),
           matches => /\ Mine(r).state # "ABSENT"
                      /\ \/ Mine(r).state # "PAID_PENDING_FINALIZATION"
                         \/ payment.state = "PAID_PENDING_FINALIZATION"
    PROVE  UNCHANGED pend \/ Advanced
<1>1. req[r].att \in Attempts
  BY AttemptRequest DEF TypeOK
<1>2. CASE matches /\ pend' = [pend EXCEPT ![req[r].att] = payment]
  <2>1. pend'[req[r].att] = payment
    BY <1>1, <1>2 DEF TypeOK
  <2>2. \A b \in Attempts : b # req[r].att => pend'[b] = pend[b]
    BY <1>2 DEF TypeOK
  <2>. QED
    BY <1>1, <1>2, <2>1, <2>2 DEF Advanced, Pending, Mine
<1>. QED
  BY <1>2 DEF Mutate

LEMMA AttemptAdvanced ==
    ASSUME TypeOK, NEW r \in Requests,
           \/ Claim(r) \/ RecordIdentity(r) \/ Bind(r)
           \/ ClaimBooking(r) \/ BindBooking(r) \/ Mark(r)
    PROVE  UNCHANGED pend \/ Advanced
<1>1. req[r] \in Request /\ req[r].pc \in AttemptLabels
  BY DEF TypeOK, Claim, RecordIdentity, Bind, ClaimBooking, BindBooking, Mark, At,
         AttemptLabels
<1>2. /\ ClaimMatches(r) \/ RecordMatches(r) \/ BindMatches(r)
             \/ ClaimBookingMatches(r) \/ BindBookingMatches(r)
         => Mine(r).state \notin {"ABSENT", "PAID_PENDING_FINALIZATION"}
      /\ MarkMatches(r) => Mine(r).state # "ABSENT"
  BY DEF ClaimMatches, RecordMatches, BindMatches, ClaimBookingMatches,
         BindBookingMatches, MarkMatches
<1>3. CASE Mark(r)
  <2>1. Mine(r) \in Payment
    BY <1>1, AttemptRequest DEF TypeOK, Mine
  <2>2. [Mine(r) EXCEPT !.state = "PAID_PENDING_FINALIZATION",
                        !.evidence = req[r].id].state = "PAID_PENDING_FINALIZATION"
    BY <2>1 DEF Payment, NoPayment
  <2>. QED
    BY <1>1, <1>2, <1>3, <2>2, MutateAdvances DEF Mark
<1>4. CASE Claim(r)
  BY <1>1, <1>2, <1>4, MutateAdvances DEF Claim
<1>5. CASE RecordIdentity(r)
  BY <1>1, <1>2, <1>5, MutateAdvances DEF RecordIdentity
<1>6. CASE Bind(r)
  BY <1>1, <1>2, <1>6, MutateAdvances DEF Bind
<1>7. CASE ClaimBooking(r)
  BY <1>1, <1>2, <1>7, MutateAdvances DEF ClaimBooking
<1>8. CASE BindBooking(r)
  BY <1>1, <1>2, <1>8, MutateAdvances DEF BindBooking
<1>. QED
  BY <1>3, <1>4, <1>5, <1>6, <1>7, <1>8

LEMMA SamePlaces ==
    ASSUME UNCHANGED <<participants, waitlist, pend, maxPlayers>>
    PROVE  LedgerStep
<1>1. Place' = Place
  BY KeptPlace DEF Kept, Pending
<1>2. PaidPhones' = PaidPhones /\ Limit' = Limit
  BY DEF PaidPhones, Limit
<1>. QED
  BY <1>1, <1>2 DEF LedgerStep

\* A phone that was admitted owned nothing; if there was room, the ledger has room.
LEMMA AdmittedOwnsNothing ==
    ASSUME TypeOK, Counted, NEW p \in Phones, NEW rule, Admissible(p, rule)
    PROVE  /\ p \notin Seated \cup waitlist \cup PayingPhones
           /\ Place[p] = "NONE"
           /\ HasRoom => Ledger!Cardinality(Ledger!Occupied) < Limit
<1>1. p \notin Seated \cup waitlist \cup PayingPhones
  BY DEF Admissible, PayingPhones, PendingOf
<1>2. Place[p] = "NONE"
  BY <1>1 DEF Place
<1>3. HasRoom => Ledger!Cardinality(Ledger!Occupied) < Limit
  <2>1. Cardinality(participants) \in Nat /\ Cardinality(Pending) \in Nat /\ Limit \in Nat
    BY FS_CardinalityType, PendingFinite, LimitType DEF Counted
  <2>. QED
    BY <2>1, OccupiedCount, SameCount DEF HasRoom
<1>. QED
  BY <1>1, <1>2, <1>3

LEMMA ReserveLedger ==
    ASSUME TypeOK, Counted, NEW r \in Requests, req[r].phone \in Phones,
           NEW a \in Attempts, Unused(a), ReserveSucceeds(r, a),
           UNCHANGED <<maxPlayers, participants, waitlist>>
    PROVE  LedgerStep
<1>. DEFINE p == req[r].phone
<1>1. pend'[a].phone = p /\ pend'[a].state \notin {"ABSENT", "PAID_PENDING_FINALIZATION"}
  BY DEF ReserveSucceeds, TypeOK, InitialState
<1>2. \A b \in Attempts : b # a => pend'[b] = pend[b]
  BY DEF ReserveSucceeds, TypeOK
<1>3. pend[a].state = "ABSENT"
  BY DEF Unused, Pending
<1>4. /\ p \notin Seated \cup waitlist \cup PayingPhones
      /\ Place[p] = "NONE"
      /\ Ledger!Cardinality(Ledger!Occupied) < Limit
  BY AdmittedOwnsNothing DEF ReserveSucceeds
<1>5. Seated' = Seated /\ Limit' = Limit
  BY DEF Seated, Limit
<1>6. \A q : q \in PayingPhones' <=> q \in PayingPhones \/ q = p
  BY <1>1, <1>2, <1>3 DEF PayingPhones, Pending
<1>7. PaidPhones' = PaidPhones
  <2>1. \A q : q \in PaidPhones' <=> q \in PaidPhones
    BY <1>1, <1>2, <1>3 DEF PaidPhones
  <2>. QED
    BY <2>1
<1>8. Place'[p] = "HELD"
  BY <1>4, <1>5, <1>6 DEF Place
<1>9. Place' = [Place EXCEPT ![p] = "HELD"]
  BY <1>5, <1>6, <1>8, PlaceMoves
<1>10. Ledger!Hold(p)
  BY <1>4, <1>5, <1>7, <1>9 DEF Ledger!Hold, Ledger!Move
<1>. QED
  BY <1>10 DEF LedgerStep

LEMMA FinalizeLedger ==
    ASSUME TypeOK, Counted, NEW r \in Requests, req[r].pc \in AttemptLabels,
           FinalizeMatches(r), FinalizeSucceeds(r), UNCHANGED <<maxPlayers, waitlist>>
    PROVE  LedgerStep
<1>. DEFINE p == req[r].phone
            a == req[r].att
            s == [phone |-> p, att |-> a]
<1>1. a \in Pending /\ pend[a].phone = p /\ p \in Phones
  BY AttemptRequest DEF TypeOK, FinalizeMatches, Mine, Pending, Counted, OwnAttempt
<1>2. pend'[a] = NoPayment /\ \A b \in Attempts : b # a => pend'[b] = pend[b]
  BY <1>1 DEF FinalizeSucceeds, TypeOK, Pending
<1>3. \A b \in Pending : pend[b].phone = p => b = a
  BY <1>1 DEF Counted, PlacesHeld, OncePerPhone
<1>4. pend[a].state = "PAID_PENDING_FINALIZATION"
  BY DEF FinalizeMatches, Mine
<1>5. p \notin Seated /\ p \notin waitlist
  BY <1>1 DEF FinalizeMatches, Counted, PlacesHeld, OncePerPhone, PendingOf
<1>6. \A q : q \in Seated' <=> q \in Seated \/ q = p
  <2>1. \A t : t \in participants' <=> t \in participants \/ t = s
    BY DEF FinalizeSucceeds
  <2>2. s.phone = p
    OBVIOUS
  <2>. HIDE DEF s
  <2>. QED
    BY <2>1, <2>2 DEF Seated
<1>7. \A q : q \in PayingPhones' <=> q \in PayingPhones /\ q # p
  BY <1>1, <1>2, <1>3 DEF PayingPhones, Pending, NoPayment
<1>8. PaidPhones' = PaidPhones \ {p} /\ p \in PaidPhones
  <2>1. \A q : q \in PaidPhones' <=> q \in PaidPhones /\ q # p
    BY <1>1, <1>2, <1>3 DEF PaidPhones, Pending, NoPayment
  <2>2. p \in PaidPhones
    BY <1>1, <1>4 DEF PaidPhones, Pending
  <2>. QED
    BY <2>1, <2>2
<1>9. Place[p] = "HELD"
  BY <1>1, <1>5 DEF Place, PayingPhones
<1>10. Place'[p] = "SEATED"
  BY <1>1, <1>6 DEF Place
<1>11. Place' = [Place EXCEPT ![p] = "SEATED"]
  BY <1>1, <1>6, <1>7, <1>10, PlaceMoves
<1>12. Ledger!Confirm(p)
  BY <1>8, <1>9, <1>11 DEF Ledger!Confirm, Ledger!Move, Limit
<1>. QED
  BY <1>1, <1>12 DEF LedgerStep

LEMMA AppendLedger ==
    ASSUME TypeOK, Counted, NEW p \in Phones, NEW rule, Admissible(p, rule), HasRoom,
           participants' = participants \cup {[phone |-> p, att |-> None]},
           UNCHANGED <<maxPlayers, waitlist, pend>>
    PROVE  LedgerStep
<1>. DEFINE s == [phone |-> p, att |-> None]
<1>1. /\ p \notin Seated \cup waitlist \cup PayingPhones
      /\ Place[p] = "NONE"
      /\ Ledger!Cardinality(Ledger!Occupied) < Limit
  BY AdmittedOwnsNothing
<1>2. \A q : q \in Seated' <=> q \in Seated \/ q = p
  <2>1. \A t : t \in participants' <=> t \in participants \/ t = s
    OBVIOUS
  <2>2. s.phone = p
    OBVIOUS
  <2>. HIDE DEF s
  <2>. QED
    BY <2>1, <2>2 DEF Seated
<1>3. PayingPhones' = PayingPhones /\ PaidPhones' = PaidPhones /\ Limit' = Limit
  BY DEF PayingPhones, PaidPhones, Pending, Limit
<1>4. Place'[p] = "SEATED"
  BY <1>2 DEF Place
<1>5. Place' = [Place EXCEPT ![p] = "SEATED"]
  BY <1>2, <1>3, <1>4, PlaceMoves
<1>6. Ledger!Take(p)
  BY <1>1, <1>3, <1>5 DEF Ledger!Take, Ledger!Move
<1>. QED
  BY <1>6 DEF LedgerStep

LEMMA QueueLedger ==
    ASSUME TypeOK, Counted, NEW p \in Phones, NEW rule, Admissible(p, rule),
           waitlist' = waitlist \cup {p}, UNCHANGED <<maxPlayers, participants, pend>>
    PROVE  LedgerStep
<1>1. p \notin Seated \cup waitlist \cup PayingPhones /\ Place[p] = "NONE"
  BY AdmittedOwnsNothing
<1>2. Seated' = Seated /\ PayingPhones' = PayingPhones /\ PaidPhones' = PaidPhones
      /\ Limit' = Limit
  BY DEF Seated, PayingPhones, PaidPhones, Pending, Limit
<1>3. Place'[p] = "QUEUED"
  BY <1>1, <1>2 DEF Place
<1>4. Place' = [Place EXCEPT ![p] = "QUEUED"]
  BY <1>2, <1>3, PlaceMoves
<1>5. Ledger!Queue(p)
  BY <1>1, <1>2, <1>4 DEF Ledger!Queue, Ledger!Move
<1>. QED
  BY <1>5 DEF LedgerStep

LEMMA ReconcileLedger ==
    ASSUME TypeOK, Counted, Decided, NEW e \in Editors, WriteReconciled(e)
    PROVE  LedgerStep
<1>1. CASE UNCHANGED pend
  BY <1>1, SamePlaces DEF WriteReconciled
<1>2. CASE ReconcileMatches(e) /\ pend' = [pend EXCEPT ![edit[e].att] = Replacement(e)]
  <2>1. edit[e].att \in Attempts /\ pend[edit[e].att].state = "PROVIDER_RESULT_UNKNOWN"
    BY <1>2 DEF WriteReconciled, ReconcileMatches, TypeOK, Edit, Resolutions, Decided
  <2>2. Advanced
    BY <1>2, <2>1 DEF Advanced, Pending, TypeOK
  <2>. QED
    BY <2>2, ReconcileKeeps, AdvancedLedger DEF WriteReconciled
<1>. QED
  BY <1>1, <1>2 DEF WriteReconciled

LEMMA NextLedger ==
    TypeOK /\ TypeOK' /\ Decided /\ Counted /\ [GuardedNext]_vars
        => [Ledger!Next]_(Ledger!vars)
<1>. SUFFICES ASSUME TypeOK, TypeOK', Decided, Counted, [GuardedNext]_vars
              PROVE  LedgerStep
  BY LedgerStepIsNext
<1>1. ASSUME NEW r \in Requests,
             \/ Reread(r) \/ Post(r) \/ Receive(r) \/ List(r) \/ VerifyBooking(r)
             \/ Verify(r) \/ Begin(r) \/ Crash(r)
      PROVE  LedgerStep
  BY <1>1, QuietWorks, SamePlaces DEF document
<1>2. ASSUME NEW r \in Requests,
             \/ Claim(r) \/ RecordIdentity(r) \/ Bind(r)
             \/ ClaimBooking(r) \/ BindBooking(r) \/ Mark(r)
      PROVE  LedgerStep
  <2>1. Kept /\ UNCHANGED maxPlayers /\ (UNCHANGED pend \/ Advanced)
    BY <1>2, AdvanceKeeps, AttemptAdvanced
  <2>. QED
    BY <2>1, AdvancedLedger, SamePlaces DEF Kept
<1>3. ASSUME NEW r \in Requests, Reserve(r)
      PROVE  LedgerStep
  <2>1. req[r].phone \in Phones
    BY <1>3, AdmissionRequest DEF TypeOK, Reserve, At
  <2>. QED
    BY <1>3, <2>1, ReserveLedger, SamePlaces DEF Reserve
<1>4. ASSUME NEW r \in Requests, Finalize(r)
      PROVE  LedgerStep
  <2>1. req[r].pc \in AttemptLabels
    BY <1>4 DEF Finalize, At, AttemptLabels
  <2>. QED
    BY <1>4, <2>1, FinalizeLedger, SamePlaces DEF Finalize
<1>5. ASSUME NEW r \in Requests, AppendParticipant(r) \/ AppendWaitlist(r)
      PROVE  LedgerStep
  <2>1. req[r].phone \in Phones
    BY <1>5, AdmissionRequest DEF TypeOK, AppendParticipant, AppendWaitlist, At,
       AdmissionLabels
  <2>. QED
    BY <1>5, <2>1, AppendLedger, QueueLedger, SamePlaces
       DEF AppendParticipant, AppendWaitlist
<1>6. ASSUME NEW r \in Requests, Step(r)
      PROVE  LedgerStep
  BY <1>1, <1>2, <1>3, <1>4, <1>5, <1>6 DEF Step
<1>7. ASSUME NEW x, ProviderCreates(x) \/ Pay(x) \/ EditRule(x)
      PROVE  LedgerStep
  BY <1>7, SamePlaces DEF ProviderCreates, Pay, EditRule, document
<1>8. ASSUME NEW m \in MaxPlayers, m > maxPlayers, EditMaxPlayers(m)
      PROVE  LedgerStep
  <2>1. Limit \in Nat /\ Limit' \in Nat /\ Limit' >= Limit
    BY <1>8, LimitType, MaxPlayersAssumption DEF Limit, EditMaxPlayers, TypeOK
  <2>2. Place' = Place /\ PaidPhones' = PaidPhones
    BY <1>8, KeptPlace DEF EditMaxPlayers, Kept, Pending, PaidPhones
  <2>. QED
    BY <2>1, <2>2 DEF LedgerStep, Ledger!Grow
<1>9. ASSUME NEW e \in Editors, NEW a, NEW x, BeginReconcile(e, a, x)
      PROVE  LedgerStep
  BY <1>9, SamePlaces DEF BeginReconcile, BeginEdit, document
<1>10. CASE UNCHANGED vars
  BY <1>10, SamePlaces DEF vars, document
<1>. QED
  BY <1>1, <1>6, <1>7, <1>8, <1>9, <1>10, ReconcileLedger DEF GuardedNext

\* To the people who register, the guarded document is the ledger: every write
\* is one move of one phone, or more places, and only paid places are confirmed.
THEOREM JoinImplementsLedger == GuardedSpec => ImplementsLedger
<1>1. [GuardedNext]_vars => [Next]_vars
  BY DEF Next
<1>2. TypeOK /\ Counted /\ Init => Ledger!Init
  BY InitLedger
<1>. QED
  BY <1>1, <1>2, InitType, NextType, InitDecided, NextDecided, InitCounted, NextCounted,
     NextLedger, PTL
     DEF GuardedSpec, ImplementsLedger, Ledger!Spec

-----------------------------------------------------------------------------
(* The life of an attempt, and who is admitted.                            *)

\* What a write may do to an attempt that stays in the document.
Onward(a) ==
    /\ pend'[a].phone = pend[a].phone
    /\ pend[a].providerId \in {None, pend'[a].providerId}
    /\ pend'[a].state = "PROVIDER_CREATE_PENDING" => pend'[a] = pend[a]
    /\ pend[a].state = "PAID_PENDING_FINALIZATION" =>
          pend'[a].state = "PAID_PENDING_FINALIZATION"

LEMMA MutateOnward ==
    ASSUME TypeOK, NEW r \in Requests, req[r].pc \in AttemptLabels,
           NEW matches, NEW payment, NEW label, Mutate(r, matches, payment, label),
           matches => /\ payment.phone = Mine(r).phone
                      /\ Mine(r).providerId \in {None, payment.providerId}
                      /\ payment.state # "PROVIDER_CREATE_PENDING"
                      /\ \/ Mine(r).state # "PAID_PENDING_FINALIZATION"
                         \/ payment.state = "PAID_PENDING_FINALIZATION"
    PROVE  \A a \in Pending : Onward(a)
<1>1. req[r].att \in Attempts
  BY AttemptRequest DEF TypeOK
<1>2. CASE UNCHANGED pend
  BY <1>2 DEF Onward
<1>3. CASE matches /\ pend' = [pend EXCEPT ![req[r].att] = payment]
  <2>1. pend'[req[r].att] = payment
    BY <1>1, <1>3 DEF TypeOK
  <2>2. \A b \in Attempts : b # req[r].att => pend'[b] = pend[b]
    BY <1>3 DEF TypeOK
  <2>. QED
    BY <1>1, <1>3, <2>1, <2>2 DEF Onward, Pending, Mine
<1>. QED
  BY <1>2, <1>3 DEF Mutate

LEMMA AttemptOnward ==
    ASSUME TypeOK, NEW r \in Requests,
           \/ Claim(r) \/ RecordIdentity(r) \/ Bind(r)
           \/ ClaimBooking(r) \/ BindBooking(r) \/ Mark(r)
    PROVE  \A a \in Pending : Onward(a)
<1>1. req[r] \in Request /\ req[r].pc \in AttemptLabels
  BY DEF TypeOK, Claim, RecordIdentity, Bind, ClaimBooking, BindBooking, Mark, At,
         AttemptLabels
<1>2. Mine(r) \in Payment
  BY <1>1, AttemptRequest DEF TypeOK, Mine
<1>3. Mine(r) \in [state : Holding \cup {"ABSENT"}, kind : Kinds \cup {None},
                   phone : Phones \cup {None}, providerId : ProviderIds \cup {None},
                   evidence : ProviderIds \cup {None}]
  BY <1>2 DEF Payment, NoPayment
<1>4. CASE Claim(r)
  <2>1. ClaimMatches(r) => Mine(r).state # "PAID_PENDING_FINALIZATION"
    BY DEF ClaimMatches
  <2>. QED
    BY <1>1, <1>3, <1>4, <2>1, MutateOnward DEF Claim
<1>5. CASE RecordIdentity(r)
  <2>1. RecordMatches(r) => /\ Mine(r).state = "PROVIDER_RESULT_UNKNOWN"
                            /\ Mine(r).providerId \in {None, req[r].id}
    BY DEF RecordMatches
  <2>. QED
    BY <1>1, <1>3, <1>5, <2>1, MutateOnward DEF RecordIdentity
<1>6. CASE Bind(r)
  <2>1. BindMatches(r) => Mine(r).state # "PAID_PENDING_FINALIZATION"
    BY DEF BindMatches
  <2>. QED
    BY <1>1, <1>3, <1>6, <2>1, MutateOnward DEF Bind
<1>7. CASE ClaimBooking(r)
  <2>1. ClaimBookingMatches(r) => Mine(r).state # "PAID_PENDING_FINALIZATION"
    BY DEF ClaimBookingMatches
  <2>. QED
    BY <1>1, <1>3, <1>7, <2>1, MutateOnward DEF ClaimBooking
<1>8. CASE BindBooking(r)
  <2>1. BindBookingMatches(r) => /\ Mine(r).state # "PAID_PENDING_FINALIZATION"
                                 /\ Mine(r).providerId \in {None, req[r].id}
    BY DEF BindBookingMatches
  <2>. QED
    BY <1>1, <1>3, <1>8, <2>1, MutateOnward DEF BindBooking
<1>9. CASE Mark(r)
  BY <1>1, <1>3, <1>9, MutateOnward DEF Mark
<1>. QED
  BY <1>4, <1>5, <1>6, <1>7, <1>8, <1>9

LEMMA ReconcileOnward ==
    ASSUME TypeOK, Decided, NEW e \in Editors, WriteReconciled(e)
    PROVE  \A a \in Pending : Onward(a)
<1>1. CASE UNCHANGED pend
  BY <1>1 DEF Onward
<1>2. CASE ReconcileMatches(e) /\ pend' = [pend EXCEPT ![edit[e].att] = Replacement(e)]
  <2>. DEFINE a == edit[e].att
  <2>1. a \in Attempts /\ pend[a] \in Payment /\ pend[a].state = "PROVIDER_RESULT_UNKNOWN"
    BY <1>2 DEF WriteReconciled, ReconcileMatches, TypeOK, Edit, Resolutions, Decided
  <2>2. pend[a] \in [state : Holding, kind : Kinds, phone : Phones,
                     providerId : ProviderIds \cup {None}, evidence : ProviderIds \cup {None}]
    BY <2>1 DEF Payment, NoPayment
  <2>3. /\ Replacement(e).phone = pend[a].phone
        /\ Replacement(e).providerId = pend[a].providerId
        /\ Replacement(e).state # "PROVIDER_CREATE_PENDING"
    BY <1>2, <2>2 DEF Replacement, ReconcileMatches
  <2>4. pend'[a] = Replacement(e) /\ \A b \in Attempts : b # a => pend'[b] = pend[b]
    BY <1>2, <2>1 DEF TypeOK
  <2>. QED
    BY <2>1, <2>3, <2>4 DEF Onward, Pending
<1>. QED
  BY <1>1, <1>2 DEF WriteReconciled

\* The attempt of a registered payment, seen from the seat it became.
Became(a) ==
    /\ pend'[a].state = "ABSENT"
    /\ [phone |-> pend[a].phone, att |-> a] \in participants'
    /\ pend[a].state = "PAID_PENDING_FINALIZATION"

LEMMA NextAdvances ==
    ASSUME TypeOK, Decided, Counted, [GuardedNext]_vars
    PROVE  \A a \in Pending : Became(a) \/ Onward(a)
<1>1. ASSUME UNCHANGED pend
      PROVE  \A a \in Pending : Onward(a)
  BY <1>1 DEF Onward
<1>2. ASSUME NEW r \in Requests, Reserve(r)
      PROVE  \A a \in Pending : Onward(a)
  <2>1. ASSUME NEW a \in Attempts, Unused(a), ReserveSucceeds(r, a)
        PROVE  \A b \in Pending : Onward(b)
    <3>1. a \notin Pending /\ \A b \in Attempts : b # a => pend'[b] = pend[b]
      BY <2>1 DEF Unused, ReserveSucceeds, TypeOK
    <3>. QED
      BY <3>1 DEF Onward, Pending
  <2>. QED
    BY <1>1, <1>2, <2>1 DEF Reserve
<1>3. ASSUME NEW r \in Requests, Finalize(r)
      PROVE  \A a \in Pending : Became(a) \/ Onward(a)
  <2>1. CASE UNCHANGED pend
    BY <1>1, <2>1
  <2>2. CASE FinalizeMatches(r) /\ FinalizeSucceeds(r)
    <3>1. req[r].att \in Attempts
      BY <1>3, AttemptRequest DEF Finalize, At, AttemptLabels, TypeOK
    <3>2. req[r].att \in Pending /\ pend[req[r].att].phone = req[r].phone
      BY <2>2, <3>1 DEF FinalizeMatches, Mine, Pending, Counted, OwnAttempt
    <3>3. /\ pend'[req[r].att] = NoPayment
          /\ \A b \in Attempts : b # req[r].att => pend'[b] = pend[b]
      BY <2>2, <3>1 DEF FinalizeSucceeds, TypeOK
    <3>4. Became(req[r].att)
      BY <2>2, <3>2, <3>3 DEF Became, FinalizeMatches, FinalizeSucceeds, Mine, NoPayment
    <3>. QED
      BY <3>3, <3>4 DEF Onward, Pending
  <2>. QED
    BY <1>3, <2>1, <2>2 DEF Finalize
<1>4. ASSUME NEW r \in Requests, AppendParticipant(r) \/ AppendWaitlist(r)
      PROVE  UNCHANGED pend
  BY <1>4 DEF AppendParticipant, AppendWaitlist
<1>5. ASSUME NEW r \in Requests, Begin(r) \/ Step(r) \/ Crash(r)
      PROVE  \A a \in Pending : Became(a) \/ Onward(a)
  BY <1>1, <1>2, <1>3, <1>4, <1>5, QuietWorks, AttemptOnward DEF Step, document
<1>6. ASSUME NEW x, ProviderCreates(x) \/ Pay(x) \/ EditRule(x) \/ EditMaxPlayers(x)
      PROVE  UNCHANGED pend
  BY <1>6 DEF ProviderCreates, Pay, EditRule, EditMaxPlayers, document
<1>7. ASSUME NEW e \in Editors, NEW a, NEW x, BeginReconcile(e, a, x)
      PROVE  UNCHANGED pend
  BY <1>7 DEF BeginReconcile, BeginEdit, document
<1>8. CASE UNCHANGED vars
  BY <1>1, <1>8 DEF vars, document
<1>. QED
  BY <1>1, <1>5, <1>6, <1>7, <1>8, ReconcileOnward DEF GuardedNext

\* However requests, the provider and the script interleave, an attempt goes one
\* way, keeps the provider id it was given, and leaves only as a seat of its phone.
THEOREM AttemptsGoOneWay == GuardedSpec => AttemptAdvances
<1>1. [GuardedNext]_vars => [Next]_vars
  BY DEF Next
<1>2. TypeOK /\ Decided /\ Counted /\ [GuardedNext]_vars =>
         [\A a \in Pending :
             \/ /\ pend'[a].state = "ABSENT"
                /\ [phone |-> pend[a].phone, att |-> a] \in participants'
                /\ pend[a].state = "PAID_PENDING_FINALIZATION"
             \/ /\ pend'[a].phone = pend[a].phone
                /\ pend[a].providerId \in {None, pend'[a].providerId}
                /\ pend'[a].state = "PROVIDER_CREATE_PENDING" => pend'[a] = pend[a]
                /\ pend[a].state = "PAID_PENDING_FINALIZATION" =>
                      pend'[a].state = "PAID_PENDING_FINALIZATION"]_vars
  BY NextAdvances DEF Became, Onward
<1>. QED
  BY <1>1, <1>2, InitType, NextType, InitDecided, NextDecided, InitCounted, NextCounted, PTL
     DEF GuardedSpec, AttemptAdvances

\* A request that is about to be admitted was admitted by the rule it holds.
RuleChecked ==
    \A r \in Requests : req[r].pc \in AdmissionLabels \cup {"RESERVE"} =>
        req[r].rule.gender = "MIXED" \/ Sex[req[r].phone] = req[r].rule.gender

LEMMA InitRule == Init => RuleChecked
BY DEF Init, RuleChecked, Idle, AdmissionLabels

\* Only Admit brings a request to one of these steps.
LEMMA NextRule == TypeOK /\ RuleChecked /\ [GuardedNext]_vars => RuleChecked'
<1>. SUFFICES ASSUME TypeOK, RuleChecked, [GuardedNext]_vars PROVE RuleChecked'
  OBVIOUS
<1>. DEFINE Labels == AdmissionLabels \cup {"RESERVE"}
<1>1. ASSUME UNCHANGED req
      PROVE  RuleChecked'
  BY <1>1 DEF RuleChecked
<1>2. ASSUME NEW r \in Requests, NEW local, req' = [req EXCEPT ![r] = local],
             local.pc \in Labels =>
                local.rule.gender = "MIXED" \/ Sex[local.phone] = local.rule.gender
      PROVE  RuleChecked'
  BY <1>2 DEF RuleChecked, TypeOK
<1>3. ASSUME NEW r \in Requests, Finish(r)
      PROVE  RuleChecked'
  BY <1>2, <1>3 DEF Finish, Idle, AdmissionLabels
<1>4. ASSUME NEW r \in Requests, req[r].pc \in AttemptLabels, NEW l \in AttemptLabels,
             Goto(r, l)
      PROVE  RuleChecked'
  <2>1. req' = [req EXCEPT ![r] = [req[r] EXCEPT !.pc = l]]
    BY <1>4 DEF Goto
  <2>2. [req[r] EXCEPT !.pc = l].pc \notin Labels
    BY <1>4, AttemptRequest DEF TypeOK, AdmissionLabels, AttemptLabels
  <2>. QED
    BY <1>2, <2>1, <2>2
<1>5. \A a : Resumption(a) \in AttemptLabels
  BY DEF Resumption, AttemptLabels
<1>6. ASSUME NEW r \in Requests, Begin(r)
      PROVE  RuleChecked'
  <2>1. ASSUME NEW p \in Phones, NEW kind, NEW l, Admit(r, p, kind, l)
        PROVE  RuleChecked'
    BY <1>2, <2>1 DEF Admit, Admits, Start, CurrentRule
  <2>2. ASSUME NEW p \in Phones, NEW a, NEW l \in AttemptLabels, Continue(r, p, a, l)
        PROVE  RuleChecked'
    BY <1>2, <2>2 DEF Continue, Start, AttemptLabels, AdmissionLabels
  <2>. QED
    BY <1>5, <1>6, <2>1, <2>2
    DEF Begin, BeginPurchase, BeginConfirm, BeginRegister, BeginWaitlist, AttemptLabels
<1>7. ASSUME NEW r \in Requests, Step(r), req[r].pc \in AttemptLabels
      PROVE  RuleChecked'
  <2>1. ASSUME NEW a, NEW i, NEW l \in AttemptLabels,
               \/ req' = [req EXCEPT ![r].id = i, ![r].pc = l]
               \/ req' = [req EXCEPT ![r].att = a, ![r].id = i, ![r].pc = l]
        PROVE  RuleChecked'
    <3>1. \/ req' = [req EXCEPT ![r] = [req[r] EXCEPT !.id = i, !.pc = l]]
          \/ req' = [req EXCEPT ![r] = [req[r] EXCEPT !.att = a, !.id = i, !.pc = l]]
      BY <2>1 DEF TypeOK
    <3>2. /\ [req[r] EXCEPT !.id = i, !.pc = l].pc = l
          /\ [req[r] EXCEPT !.att = a, !.id = i, !.pc = l].pc = l
      BY <1>7, AttemptRequest DEF TypeOK
    <3>. QED
      BY <1>2, <3>1, <3>2 DEF AttemptLabels, AdmissionLabels
  <2>2. CASE Reread(r) \/ Receive(r) \/ List(r)
    <3>1. CASE Reread(r)
      <4>1. \/ \E a : req' = [req EXCEPT ![r].att = a, ![r].id = pend[a].providerId,
                                        ![r].pc = Resumption(a)]
            \/ Finish(r)
        BY <3>1 DEF Reread
      <4>2. ASSUME NEW a, req' = [req EXCEPT ![r].att = a, ![r].id = pend[a].providerId,
                                             ![r].pc = Resumption(a)]
            PROVE  RuleChecked'
        BY <1>5, <2>1, <4>2
      <4>. QED
        BY <1>3, <4>1, <4>2
    <3>2. CASE Receive(r)
      BY <2>1, <3>2 DEF Receive, AttemptLabels
    <3>3. CASE List(r)
      <4>1. "BIND_BOOKING" \in AttemptLabels /\ "CLAIM_BOOKING" \in AttemptLabels
        BY DEF AttemptLabels
      <4>. QED
        BY <1>3, <1>4, <1>7, <2>1, <3>3, <4>1 DEF List
    <3>. QED
      BY <2>2, <3>1, <3>2, <3>3
  <2>3. CASE Post(r) \/ Verify(r) \/ VerifyBooking(r)
    BY <1>3, <1>4, <1>7, <2>3 DEF Post, Verify, VerifyBooking, AttemptLabels
  <2>4. CASE \/ Claim(r) \/ RecordIdentity(r) \/ Bind(r)
             \/ ClaimBooking(r) \/ BindBooking(r) \/ Mark(r)
    BY <1>3, <1>4, <1>7, <2>4 DEF Claim, RecordIdentity, Bind, ClaimBooking, BindBooking,
       Mark, Mutate, AttemptLabels
  <2>5. CASE Finalize(r)
    BY <1>3, <2>5 DEF Finalize
  <2>6. ~(Reserve(r) \/ AppendParticipant(r) \/ AppendWaitlist(r))
    BY <1>7 DEF Reserve, AppendParticipant, AppendWaitlist, At, AttemptLabels
  <2>. QED
    BY <1>7, <2>2, <2>3, <2>4, <2>5, <2>6 DEF Step
<1>8. ASSUME NEW r \in Requests, AppendParticipant(r) \/ AppendWaitlist(r)
      PROVE  RuleChecked'
  BY <1>3, <1>8 DEF AppendParticipant, AppendWaitlist
<1>9. ASSUME NEW r \in Requests, Reserve(r)
      PROVE  RuleChecked'
  <2>1. ASSUME NEW a \in Attempts, ReserveSucceeds(r, a)
        PROVE  RuleChecked'
    <3>1. req' = [req EXCEPT ![r] = [req[r] EXCEPT !.att = a, !.rule = None,
             !.pc = IF req[r].kind = "TRANSACTION" THEN "CLAIM" ELSE "REREAD"]]
      BY <2>1 DEF ReserveSucceeds, TypeOK
    <3>2. req[r] \in [pc : {"RESERVE"}, phone : Phones, att : {None}, kind : Kinds,
                      id : {None}, rule : Rule]
      BY <1>9, AdmissionRequest DEF TypeOK, Reserve, At
    <3>3. [req[r] EXCEPT !.att = a, !.rule = None,
             !.pc = IF req[r].kind = "TRANSACTION" THEN "CLAIM" ELSE "REREAD"].pc \notin Labels
      BY <3>2 DEF AdmissionLabels
    <3>. QED
      BY <1>2, <3>1, <3>3
  <2>. QED
    BY <1>3, <1>9, <2>1 DEF Reserve
<1>10. ASSUME NEW r \in Requests, Step(r)
       PROVE  RuleChecked'
  <2>1. \/ req[r].pc \in AttemptLabels
        \/ Reserve(r) \/ AppendParticipant(r) \/ AppendWaitlist(r)
    BY <1>10 DEF Step, Reread, Claim, Post, Receive, RecordIdentity, Bind, List,
       ClaimBooking, BindBooking, VerifyBooking, Verify, Mark, Finalize, At, AttemptLabels
  <2>. QED
    BY <1>7, <1>8, <1>9, <1>10, <2>1
<1>11. ASSUME NEW x, ProviderCreates(x) \/ Pay(x) \/ EditRule(x) \/ EditMaxPlayers(x)
       PROVE  RuleChecked'
  BY <1>1, <1>11 DEF ProviderCreates, Pay, EditRule, EditMaxPlayers
<1>12. ASSUME NEW e \in Editors, NEW a, NEW x, BeginReconcile(e, a, x) \/ WriteReconciled(e)
       PROVE  RuleChecked'
  BY <1>1, <1>12 DEF BeginReconcile, BeginEdit, WriteReconciled
<1>13. CASE UNCHANGED vars
  BY <1>1, <1>13 DEF vars
<1>14. ASSUME NEW r \in Requests, Crash(r)
       PROVE  RuleChecked'
  BY <1>3, <1>14 DEF Crash
<1>. QED
  BY <1>6, <1>10, <1>11, <1>12, <1>13, <1>14 DEF GuardedNext

LEMMA NextAdmits ==
    ASSUME TypeOK, Decided, Counted, RuleChecked, [GuardedNext]_vars
    PROVE  \A p \in Owners' \ Owners : Admits(p)
<1>1. ASSUME Kept
      PROVE  Owners' = Owners
  BY <1>1 DEF Kept, Owners, Seated
<1>2. ASSUME UNCHANGED <<participants, waitlist, pend>>
      PROVE  Owners' = Owners
  BY <1>1, <1>2 DEF Kept, Pending
<1>3. ASSUME NEW r \in Requests, req[r].pc \in AdmissionLabels \cup {"RESERVE"},
             Admissible(req[r].phone, req[r].rule)
      PROVE  Admits(req[r].phone)
  BY <1>3 DEF Admissible, CurrentRule, RuleChecked, Admits
<1>4. ASSUME NEW r \in Requests, Reserve(r)
      PROVE  \A p \in Owners' \ Owners : Admits(p)
  <2>1. ASSUME NEW a \in Attempts, ReserveSucceeds(r, a)
        PROVE  \A p \in Owners' \ Owners : Admits(p)
    <3>1. /\ pend'[a].phone = req[r].phone
          /\ \A b \in Attempts : b # a => pend'[b] = pend[b]
      BY <2>1 DEF ReserveSucceeds, TypeOK
    <3>2. UNCHANGED <<participants, waitlist>>
      BY <1>4 DEF Reserve
    <3>3. Owners' \subseteq Owners \cup {req[r].phone}
      BY <3>1, <3>2 DEF Owners, Pending, Seated
    <3>4. Admits(req[r].phone)
      BY <1>3, <1>4, <2>1 DEF Reserve, ReserveSucceeds, At
    <3>. QED
      BY <3>3, <3>4
  <2>. QED
    BY <1>2, <1>4, <2>1 DEF Reserve
<1>5. ASSUME NEW r \in Requests, Finalize(r)
      PROVE  \A p \in Owners' \ Owners : Admits(p)
  <2>1. CASE UNCHANGED <<participants, pend>>
    BY <1>2, <1>5, <2>1 DEF Finalize
  <2>2. CASE FinalizeMatches(r) /\ FinalizeSucceeds(r)
    <3>1. req[r].att \in Attempts
      BY <1>5, AttemptRequest DEF Finalize, At, AttemptLabels, TypeOK
    <3>2. req[r].att \in Pending /\ pend[req[r].att].phone = req[r].phone
      BY <2>2, <3>1 DEF FinalizeMatches, Mine, Pending, Counted, OwnAttempt
    <3>3. \A b \in Attempts : pend'[b] \in {NoPayment, pend[b]}
      BY <2>2 DEF FinalizeSucceeds, TypeOK
    <3>4. {pend'[b].phone : b \in Pending'} \subseteq {pend[b].phone : b \in Pending}
      BY <3>3 DEF Pending, NoPayment
    <3>5. Seated' \subseteq Seated \cup {req[r].phone}
      BY <2>2 DEF FinalizeSucceeds, Seated
    <3>6. UNCHANGED waitlist
      BY <1>5 DEF Finalize
    <3>. QED
      BY <3>2, <3>4, <3>5, <3>6 DEF Owners
  <2>. QED
    BY <1>5, <2>1, <2>2 DEF Finalize
<1>6. ASSUME NEW r \in Requests, AppendParticipant(r) \/ AppendWaitlist(r)
      PROVE  \A p \in Owners' \ Owners : Admits(p)
  <2>1. CASE UNCHANGED <<participants, waitlist>>
    BY <1>2, <1>6, <2>1 DEF AppendParticipant, AppendWaitlist
  <2>2. CASE Admissible(req[r].phone, req[r].rule)
    <3>1. Admits(req[r].phone)
      BY <1>3, <1>6, <2>2 DEF AppendParticipant, AppendWaitlist, At, AdmissionLabels
    <3>2. Seated' \cup waitlist' \subseteq Seated \cup waitlist \cup {req[r].phone}
      BY <1>6 DEF AppendParticipant, AppendWaitlist, Seated
    <3>3. UNCHANGED pend
      BY <1>6 DEF AppendParticipant, AppendWaitlist
    <3>. QED
      BY <3>1, <3>2, <3>3 DEF Owners, Pending
  <2>. QED
    BY <1>6, <2>1, <2>2 DEF AppendParticipant, AppendWaitlist
<1>7. ASSUME NEW r \in Requests, Begin(r) \/ Step(r) \/ Crash(r)
      PROVE  \A p \in Owners' \ Owners : Admits(p)
  BY <1>1, <1>2, <1>4, <1>5, <1>6, <1>7, QuietWorks, AdvanceKeeps DEF Step, document
<1>8. ASSUME NEW x, ProviderCreates(x) \/ Pay(x) \/ EditRule(x) \/ EditMaxPlayers(x)
      PROVE  Owners' = Owners
  BY <1>2, <1>8 DEF ProviderCreates, Pay, EditRule, EditMaxPlayers, document
<1>9. ASSUME NEW e \in Editors, NEW a, NEW x, BeginReconcile(e, a, x)
      PROVE  Owners' = Owners
  BY <1>2, <1>9 DEF BeginReconcile, BeginEdit, document
<1>10. CASE UNCHANGED vars
  BY <1>2, <1>10 DEF vars, document
<1>. QED
  BY <1>1, <1>7, <1>8, <1>9, <1>10, ReconcileKeeps DEF GuardedNext

\* Nobody obtains anything in a tournament whose rule does not admit them, though
\* the rule is checked on one read and the place written after another.
THEOREM OnlyTheAdmitted == GuardedSpec => AdmissionFollowsRule
<1>1. [GuardedNext]_vars => [Next]_vars
  BY DEF Next
<1>2. TypeOK /\ Decided /\ Counted /\ RuleChecked /\ [GuardedNext]_vars
         => [\A p \in Owners' \ Owners : Admits(p)]_vars
  BY NextAdmits
<1>. QED
  BY <1>1, <1>2, InitType, NextType, InitDecided, NextDecided, InitCounted, NextCounted,
     InitRule, NextRule, PTL
     DEF GuardedSpec, AdmissionFollowsRule

-----------------------------------------------------------------------------
(* Seats are paid for, whatever staff write over the document.  The copies *)
(* of the document that edits hold may come back, so what is true of the   *)
(* document has to be true of every copy as well.                          *)

\* Whose attempt it is, according to the document, a copy of it or a request.
Names(a, p) ==
    \/ pend[a].state # "ABSENT" /\ pend[a].phone = p
    \/ \E e \in Editors : edit[e].pend[a].state # "ABSENT" /\ edit[e].pend[a].phone = p
    \/ \E r \in Requests : req[r].att = a /\ req[r].phone = p

OneOwner ==
    \A a \in Attempts, p, q \in Phones : Names(a, p) /\ Names(a, q) => p = q

SeatPaid(s) ==
    s.att # None => \E f \in settled : f.att = s.att /\ f.phone = s.phone
EvidenceHolds(a, x) ==
    x.state = "PAID_PENDING_FINALIZATION" => Backs(x.evidence, a, x.phone)

Backed ==
    /\ \A s \in participants : SeatPaid(s)
    /\ \A e \in Editors : \A s \in edit[e].participants : SeatPaid(s)
    /\ \A f \in settled : Backs(f.id, f.att, f.phone)
    /\ \A a \in Attempts : EvidenceHolds(a, pend[a])
    /\ \A e \in Editors, a \in Attempts : EvidenceHolds(a, edit[e].pend[a])
    /\ \A e \in Editors : edit[e].pc = "PAID_BOUND" =>
          LET read == edit[e].pend[edit[e].att]
          IN  Backs(read.providerId, edit[e].att, read.phone)
    /\ \A r \in Requests : At(r, "MARK") => Backs(req[r].id, req[r].att, req[r].phone)

\* What was paid, booked or answered stays so, and the history of seats only grows.
Lasting ==
    /\ \A i \in ProviderIds :
          \/ provider'[i] = provider[i]
          \/ provider[i].status = "FREE"
          \/ provider[i].status = "UNPAID"
    /\ \A a \in Attempts : answer[a] \subseteq answer'[a]
    /\ settled \subseteq settled'

LEMMA NextLasting == TypeOK /\ [Next]_vars => Lasting
<1>. SUFFICES ASSUME TypeOK, [Next]_vars PROVE Lasting
  OBVIOUS
<1>1. ASSUME UNCHANGED <<provider, answer, settled>>
      PROVE  Lasting
  BY <1>1 DEF Lasting
<1>2. ASSUME NEW r \in Requests, Begin(r) \/ Crash(r)
      PROVE  Lasting
  BY <1>1, <1>2 DEF Begin, Crash, BeginPurchase, BeginConfirm, BeginRegister,
     BeginWaitlist, external
<1>3. ASSUME NEW r \in Requests, Finalize(r)
      PROVE  Lasting
  BY <1>3 DEF Finalize, FinalizeSucceeds, Lasting, external
<1>4. ASSUME NEW r \in Requests, Step(r)
      PROVE  Lasting
  BY <1>1, <1>3, <1>4 DEF Step, Reserve, Reread, Claim, Post, Receive, RecordIdentity,
     Bind, List, ClaimBooking, BindBooking, VerifyBooking, Verify, Mark,
     AppendParticipant, AppendWaitlist, Mutate, external
<1>5. ASSUME NEW w, ProviderCreates(w)
      PROVE  Lasting
  BY <1>5 DEF ProviderCreates, Lasting, TypeOK
<1>6. ASSUME NEW i, Pay(i)
      PROVE  Lasting
  BY <1>6 DEF Pay, Lasting, TypeOK
<1>7. ASSUME NEW x, EditRule(x) \/ EditMaxPlayers(x)
      PROVE  Lasting
  BY <1>1, <1>7 DEF EditRule, EditMaxPlayers, external
<1>8. ASSUME NEW e, NEW a, NEW x, BeginReconcile(e, a, x) \/ BeginCancel(e, x) \/ BeginStatus(e, x)
      PROVE  Lasting
  BY <1>1, <1>8 DEF BeginReconcile, BeginCancel, BeginStatus, BeginEdit, external
<1>9. ASSUME NEW e, WriteReconciled(e) \/ WriteLists(e) \/ WriteStatus(e)
      PROVE  Lasting
  BY <1>1, <1>9 DEF WriteReconciled, WriteLists, WriteStatus, external
<1>10. CASE UNCHANGED vars
  BY <1>1, <1>10 DEF vars, external
<1>. QED
  BY <1>2, <1>4, <1>5, <1>6, <1>7, <1>8, <1>9, <1>10 DEF Next, GuardedNext, OverwriteNext

LEMMA BacksLast ==
    ASSUME Lasting, NEW i \in ProviderIds \cup {None}, NEW a \in Attempts,
           NEW p \in Phones, Backs(i, a, p)
    PROVE  Backs(i, a, p)'
BY DEF Lasting, Backs

LEMMA SeatPaidLasts ==
    ASSUME TypeOK, Lasting, NEW s \in Seat, SeatPaid(s)
    PROVE  SeatPaid(s)'
<1>1. CASE s.att = None
  BY <1>1 DEF SeatPaid
<1>2. CASE s.att # None
  BY <1>2 DEF SeatPaid, Lasting
<1>. QED
  BY <1>1, <1>2

LEMMA SettledLasts ==
    ASSUME TypeOK, Lasting, NEW f \in settled, Backs(f.id, f.att, f.phone)
    PROVE  Backs(f.id, f.att, f.phone)'
<1>1. PICK i \in ProviderIds \cup {None}, a \in Attempts, p \in Phones :
         i = f.id /\ a = f.att /\ p = f.phone
  BY DEF TypeOK
<1>2. Backs(i, a, p)'
  BY <1>1, BacksLast
<1>. QED
  BY <1>1, <1>2 DEF Backs

LEMMA PaymentFields ==
    ASSUME NEW x \in Payment
    PROVE  /\ x.evidence \in ProviderIds \cup {None}
           /\ x.providerId \in ProviderIds \cup {None}
           /\ x.state # "ABSENT" => x.phone \in Phones
BY DEF Payment, NoPayment

LEMMA EvidenceLasts ==
    ASSUME Lasting, NEW a \in Attempts, NEW x \in Payment, EvidenceHolds(a, x)
    PROVE  EvidenceHolds(a, x)'
BY PaymentFields, BacksLast DEF EvidenceHolds

LEMMA EditFields ==
    ASSUME TypeOK, NEW e \in Editors
    PROVE  /\ edit[e].pend \in [Attempts -> Payment]
           /\ edit[e].participants \subseteq Seat
           /\ edit[e].pc \in Resolutions => edit[e].att \in Attempts
BY DEF TypeOK, Edit, Resolutions

\* Every seat, payment, copy and request after a step is one of before, or is
\* backed by itself.
LEMMA BackedKept ==
    ASSUME TypeOK, TypeOK', Decided, Lasting, Backed,
           \A s \in participants' :
              \/ s \in participants
              \/ \E e \in Editors : s \in edit[e].participants
              \/ SeatPaid(s)',
           \A f \in settled' : f \in settled \/ Backs(f.id, f.att, f.phone)',
           \A e \in Editors : edit'[e].participants \subseteq edit[e].participants \cup participants,
           \A a \in Attempts :
              \/ pend'[a] = pend[a]
              \/ \E e \in Editors : pend'[a] = edit[e].pend[a]
              \/ EvidenceHolds(a, pend[a])',
           \A e \in Editors, a \in Attempts :
              edit'[e].pend[a] \in {pend[a], edit[e].pend[a], NoPayment},
           \A e \in Editors :
              \/ edit'[e] = edit[e]
              \/ edit'[e].pc # "PAID_BOUND"
              \/ LET read == edit'[e].pend[edit'[e].att] IN
                    /\ Backs(read.providerId, edit'[e].att, read.phone)
                    /\ read.state # "ABSENT",
           \A r \in Requests :
              \/ req'[r] = req[r]
              \/ req'[r].pc # "MARK"
              \/ Backs(req'[r].id, req'[r].att, req'[r].phone)
    PROVE  Backed'
<1>1. \A s \in participants' : SeatPaid(s)'
  BY SeatPaidLasts, EditFields DEF Backed, TypeOK
<1>2. \A e \in Editors : \A s \in edit'[e].participants : SeatPaid(s)'
  BY SeatPaidLasts, EditFields DEF Backed, TypeOK
<1>3. \A f \in settled' : Backs(f.id, f.att, f.phone)'
  BY SettledLasts DEF Backed
<1>4. \A a \in Attempts : EvidenceHolds(a, pend[a])'
  <2>. SUFFICES ASSUME NEW a \in Attempts, ~EvidenceHolds(a, pend[a])'
                PROVE  FALSE
    OBVIOUS
  <2>1. PICK x \in Payment : x = pend'[a] /\ EvidenceHolds(a, x)
    BY EditFields DEF Backed, TypeOK
  <2>2. EvidenceHolds(a, x)'
    BY <2>1, EvidenceLasts
  <2>. QED
    BY <2>1, <2>2 DEF EvidenceHolds
<1>5. \A e \in Editors, a \in Attempts : EvidenceHolds(a, edit[e].pend[a])'
  <2>. SUFFICES ASSUME NEW e \in Editors, NEW a \in Attempts
                PROVE  EvidenceHolds(a, edit[e].pend[a])'
    OBVIOUS
  <2>1. EvidenceHolds(a, NoPayment)
    BY DEF EvidenceHolds, NoPayment
  <2>2. PICK x \in Payment : x = edit'[e].pend[a] /\ EvidenceHolds(a, x)
    BY <2>1, EditFields, ConstantRecords DEF Backed, TypeOK
  <2>3. EvidenceHolds(a, x)'
    BY <2>2, EvidenceLasts
  <2>. QED
    BY <2>2, <2>3 DEF EvidenceHolds
<1>6. ASSUME NEW e \in Editors, edit'[e].pc = "PAID_BOUND"
      PROVE  Backs(edit[e].pend[edit[e].att].providerId, edit[e].att,
                   edit[e].pend[edit[e].att].phone)'
  <2>. DEFINE read == edit'[e].pend[edit'[e].att]
  <2>1. edit'[e].att \in Attempts /\ read \in Payment
    BY <1>6 DEF TypeOK, Edit, Resolutions
  <2>2. Backs(read.providerId, edit'[e].att, read.phone) /\ read.state # "ABSENT"
    BY <1>6 DEF Backed, Decided, Resolutions
  <2>3. PICK i \in ProviderIds \cup {None}, a \in Attempts, p \in Phones :
           i = read.providerId /\ a = edit'[e].att /\ p = read.phone
    BY <2>1, <2>2, PaymentFields
  <2>4. Backs(i, a, p)'
    BY <2>2, <2>3, BacksLast
  <2>. QED
    BY <2>3, <2>4 DEF Backs
<1>7. ASSUME NEW r \in Requests, At(r, "MARK")'
      PROVE  Backs(req[r].id, req[r].att, req[r].phone)'
  <2>1. req'[r].pc \in AttemptLabels /\ req'[r] \in Request
    BY <1>7 DEF At, AttemptLabels, TypeOK
  <2>2. PICK i \in ProviderIds \cup {None}, a \in Attempts, p \in Phones :
           i = req'[r].id /\ a = req'[r].att /\ p = req'[r].phone
    BY <2>1, AttemptRequest
  <2>3. Backs(i, a, p)
    BY <1>7, <2>2 DEF Backed, At
  <2>4. Backs(i, a, p)'
    BY <2>3, BacksLast
  <2>. QED
    BY <2>2, <2>4 DEF Backs
<1>. QED
  BY <1>1, <1>2, <1>3, <1>4, <1>5, <1>6, <1>7 DEF Backed, Backs

\* Which request moved, that only a provider's answer brings one to MARK, and
\* only a claim to POST.
LEMMA MarkedBy ==
    ASSUME TypeOK, NEW r \in Requests, Begin(r) \/ Step(r) \/ Crash(r)
    PROVE  /\ \A q \in Requests : q # r => req'[q] = req[q]
           /\ req'[r].pc = "MARK" => Verify(r) \/ VerifyBooking(r)
           /\ req'[r].pc = "POST" => Claim(r) \/ ClaimBooking(r)
<1>. DEFINE Moved == /\ \A q \in Requests : q # r => req'[q] = req[q]
                     /\ req'[r].pc \notin {"MARK", "POST"}
<1>1. ASSUME NEW local, req' = [req EXCEPT ![r] = local], local.pc \notin {"MARK", "POST"}
      PROVE  Moved
  BY <1>1 DEF TypeOK
<1>2. ASSUME Finish(r)
      PROVE  Moved
  <2>1. Idle.pc \notin {"MARK", "POST"}
    BY DEF Idle
  <2>. QED
    BY <1>1, <1>2, <2>1 DEF Finish
<1>3. ASSUME NEW l, l \notin {"MARK", "POST"}, Goto(r, l), req[r].pc \in AttemptLabels
      PROVE  Moved
  <2>1. req' = [req EXCEPT ![r] = [req[r] EXCEPT !.pc = l]]
    BY <1>3 DEF Goto
  <2>2. [req[r] EXCEPT !.pc = l].pc = l
    BY <1>3, AttemptRequest DEF TypeOK
  <2>. QED
    BY <1>1, <1>3, <2>1, <2>2
<1>4. \A a : Resumption(a) \notin {"MARK", "POST"}
  BY DEF Resumption
<1>5. CASE Begin(r)
  <2>1. ASSUME NEW local, Start(r, local), local.pc \notin {"MARK", "POST"}
        PROVE  Moved
    BY <1>1, <2>1 DEF Start
  <2>2. ASSUME NEW p, NEW kind, NEW l, l \notin {"MARK", "POST"}, Admit(r, p, kind, l)
        PROVE  Moved
    BY <2>1, <2>2 DEF Admit
  <2>3. ASSUME NEW p, NEW a, NEW l, l \notin {"MARK", "POST"}, Continue(r, p, a, l)
        PROVE  Moved
    BY <2>1, <2>3 DEF Continue
  <2>. QED
    BY <1>4, <1>5, <2>2, <2>3
    DEF Begin, BeginPurchase, BeginConfirm, BeginRegister, BeginWaitlist
<1>6. CASE Crash(r)
  BY <1>2, <1>6 DEF Crash
<1>7. ASSUME NEW a, NEW i, NEW l, l \notin {"MARK", "POST"}, req[r].pc \in AttemptLabels,
             \/ req' = [req EXCEPT ![r].id = i, ![r].pc = l]
             \/ req' = [req EXCEPT ![r].att = a, ![r].id = i, ![r].pc = l]
      PROVE  Moved
  <2>1. \/ req' = [req EXCEPT ![r] = [req[r] EXCEPT !.id = i, !.pc = l]]
        \/ req' = [req EXCEPT ![r] = [req[r] EXCEPT !.att = a, !.id = i, !.pc = l]]
    BY <1>7 DEF TypeOK
  <2>2. /\ [req[r] EXCEPT !.id = i, !.pc = l].pc = l
        /\ [req[r] EXCEPT !.att = a, !.id = i, !.pc = l].pc = l
    BY <1>7, AttemptRequest DEF TypeOK
  <2>. QED
    BY <1>1, <1>7, <2>1, <2>2
<1>8. CASE Reread(r)
  <2>1. req[r].pc \in AttemptLabels
    BY <1>8 DEF Reread, At, AttemptLabels
  <2>2. \/ \E a : req' = [req EXCEPT ![r].att = a, ![r].id = pend[a].providerId,
                                    ![r].pc = Resumption(a)]
        \/ Finish(r)
    BY <1>8 DEF Reread
  <2>3. ASSUME NEW a, req' = [req EXCEPT ![r].att = a, ![r].id = pend[a].providerId,
                                         ![r].pc = Resumption(a)]
        PROVE  Moved
    BY <1>4, <1>7, <2>1, <2>3
  <2>. QED
    BY <1>2, <2>2, <2>3
<1>9. CASE Receive(r)
  <2>1. req[r].pc \in AttemptLabels
    BY <1>9 DEF Receive, At, AttemptLabels
  <2>2. ASSUME NEW i, NEW l, l \in {"RECORD", "BIND_BOOKING"},
               req' = [req EXCEPT ![r].id = i, ![r].pc = l]
        PROVE  Moved
    BY <1>7, <2>1, <2>2
  <2>. QED
    BY <1>9, <2>2 DEF Receive
<1>10. CASE List(r)
  <2>1. req[r].pc \in AttemptLabels
    BY <1>10 DEF List, AttemptLabels
  <2>2. ASSUME NEW i, req' = [req EXCEPT ![r].id = i, ![r].pc = "BIND_BOOKING"]
        PROVE  Moved
    BY <1>7, <2>1, <2>2
  <2>. QED
    BY <1>2, <1>3, <1>10, <2>1, <2>2 DEF List
<1>11. CASE Post(r)
  BY <1>3, <1>11 DEF Post, At, AttemptLabels
<1>12. CASE RecordIdentity(r) \/ Bind(r) \/ BindBooking(r) \/ Mark(r)
  <2>1. req[r].pc \in AttemptLabels
    BY <1>12 DEF RecordIdentity, Bind, BindBooking, Mark, At, AttemptLabels
  <2>2. ASSUME NEW matches, NEW payment, NEW l, l \notin {"MARK", "POST"}, Mutate(r, matches, payment, l)
        PROVE  Moved
    BY <1>2, <1>3, <2>1, <2>2 DEF Mutate
  <2>. QED
    BY <1>12, <2>2 DEF RecordIdentity, Bind, BindBooking, Mark
<1>13. CASE Finalize(r) \/ AppendParticipant(r) \/ AppendWaitlist(r)
  BY <1>2, <1>13 DEF Finalize, AppendParticipant, AppendWaitlist
<1>14. CASE Reserve(r)
  <2>1. ASSUME NEW a \in Attempts, ReserveSucceeds(r, a)
        PROVE  Moved
    <3>1. req' = [req EXCEPT ![r] = [req[r] EXCEPT !.att = a, !.rule = None,
             !.pc = IF req[r].kind = "TRANSACTION" THEN "CLAIM" ELSE "REREAD"]]
      BY <2>1 DEF ReserveSucceeds, TypeOK
    <3>2. req[r] \in [pc : {"RESERVE"}, phone : Phones, att : {None}, kind : Kinds,
                      id : {None}, rule : Rule]
      BY <1>14, AdmissionRequest DEF TypeOK, Reserve, At
    <3>3. [req[r] EXCEPT !.att = a, !.rule = None,
             !.pc = IF req[r].kind = "TRANSACTION" THEN "CLAIM" ELSE "REREAD"].pc \notin {"MARK", "POST"}
      BY <3>2
    <3>. QED
      BY <1>1, <3>1, <3>3
  <2>. QED
    BY <1>2, <1>14, <2>1 DEF Reserve
<1>15. CASE Verify(r) \/ VerifyBooking(r)
  <2>1. req[r].pc \in AttemptLabels /\ (Finish(r) \/ Goto(r, "MARK"))
    BY <1>15 DEF Verify, VerifyBooking, At, AttemptLabels
  <2>. QED
    BY <1>2, <1>15, <2>1, AttemptRequest DEF Goto, TypeOK
<1>16. ASSUME Claim(r) \/ ClaimBooking(r)
       PROVE  (\A q \in Requests : q # r => req'[q] = req[q]) /\ req'[r].pc # "MARK"
  <2>1. req[r].pc \in AttemptLabels /\ (Finish(r) \/ Goto(r, "POST"))
    BY <1>16 DEF Claim, ClaimBooking, Mutate, At, AttemptLabels
  <2>. QED
    BY <1>2, <2>1, AttemptRequest DEF Goto, TypeOK
<1>. QED
  BY <1>5, <1>6, <1>8, <1>9, <1>10, <1>11, <1>12, <1>13, <1>14, <1>15, <1>16 DEF Step

LEMMA InitOwner == Init => OneOwner
BY NoneAssumption DEF Init, OneOwner, Names, NoPayment, NoEdit, Idle

LEMMA OwnerKept ==
    ASSUME TypeOK, OneOwner, \A q \in Requests : Working(q),
           \A a \in Attempts : pend'[a].state # "ABSENT" => Names(a, pend'[a].phone),
           \A e \in Editors, a \in Attempts :
              edit'[e].pend[a].state # "ABSENT" => Names(a, edit'[e].pend[a].phone)
    PROVE  OneOwner'
<1>1. ASSUME NEW a \in Attempts, NEW p \in Phones, Names(a, p)'
      PROVE  Names(a, p)
  <2>1. CASE pend'[a].state # "ABSENT" /\ pend'[a].phone = p
    BY <2>1
  <2>2. CASE \E e \in Editors : edit'[e].pend[a].state # "ABSENT" /\ edit'[e].pend[a].phone = p
    BY <2>2
  <2>3. CASE \E r \in Requests : req'[r].att = a /\ req'[r].phone = p
    BY <2>3 DEF Working, Names, Pending
  <2>. QED
    BY <1>1, <2>1, <2>2, <2>3 DEF Names
<1>. QED
  BY <1>1 DEF OneOwner

LEMMA NextOwner == TypeOK /\ Decided /\ OneOwner /\ [Next]_vars => OneOwner'
<1>. SUFFICES ASSUME TypeOK, Decided, OneOwner, [Next]_vars PROVE OneOwner'
  OBVIOUS
<1>1. ASSUME UNCHANGED edit,
             \A a \in Attempts : pend'[a].state # "ABSENT" => Names(a, pend'[a].phone),
             \A q \in Requests : Working(q)
      PROVE  OneOwner'
  BY <1>1, OwnerKept DEF Names
<1>2. ASSUME UNCHANGED <<pend, edit>>, \A q \in Requests : Working(q)
      PROVE  OneOwner'
  BY <1>1, <1>2 DEF Names
<1>3. ASSUME UNCHANGED edit, Kept, \A q \in Requests : Working(q)
      PROVE  OneOwner'
  <2>1. \A a \in Attempts : pend'[a].state # "ABSENT" => Names(a, pend'[a].phone)
    BY <1>3 DEF Kept, Pending, Names
  <2>. QED
    BY <1>1, <1>3, <2>1
<1>4. ASSUME UNCHANGED req, NEW e \in Editors, NEW local, edit' = [edit EXCEPT ![e] = local],
             \A a \in Attempts : pend'[a].state # "ABSENT" => Names(a, pend'[a].phone),
             \A a \in Attempts : local.pend[a] \in {pend[a], NoPayment}
      PROVE  OneOwner'
  <2>1. \A f \in Editors, a \in Attempts :
           edit'[f].pend[a].state # "ABSENT" => Names(a, edit'[f].pend[a].phone)
    BY <1>4 DEF TypeOK, Names, NoPayment
  <2>. QED
    BY <1>4, <2>1, OwnerKept DEF Working
<1>5. ASSUME NEW r \in Requests, Reserve(r)
      PROVE  OneOwner'
  <2>1. ASSUME NEW a \in Attempts, Unused(a), ReserveSucceeds(r, a)
        PROVE  OneOwner'
    <3>. DEFINE p == req[r].phone
    <3>1. UNCHANGED edit
      BY <1>5 DEF Reserve
    <3>2. pend'[a].phone = p /\ \A b \in Attempts : b # a => pend'[b] = pend[b]
      BY <2>1 DEF ReserveSucceeds, TypeOK
    <3>3. /\ req'[r].att = a /\ req'[r].phone = p
          /\ \A q \in Requests : q # r => req'[q] = req[q]
      <4>1. req[r] \in [pc : {"RESERVE"}, phone : Phones, att : {None}, kind : Kinds,
                        id : {None}, rule : Rule]
        BY <1>5, AdmissionRequest DEF TypeOK, Reserve, At
      <4>2. req' = [req EXCEPT ![r] = [req[r] EXCEPT !.att = a, !.rule = None,
               !.pc = IF req[r].kind = "TRANSACTION" THEN "CLAIM" ELSE "REREAD"]]
        BY <2>1 DEF ReserveSucceeds, TypeOK
      <4>. QED
        BY <4>1, <4>2 DEF TypeOK
    <3>4. \A b \in Attempts, q \in Phones : b # a /\ Names(b, q)' => Names(b, q)
      BY <3>1, <3>2, <3>3 DEF Names
    <3>5. \A q \in Phones : Names(a, q)' => q = p
      BY <2>1, <3>1, <3>2, <3>3 DEF Names, Unused, Pending, NoPayment
    <3>. QED
      BY <3>4, <3>5 DEF OneOwner
  <2>2. CASE Finish(r) /\ UNCHANGED pend
    BY <1>2, <1>5, <2>2, FinishWorks DEF Reserve
  <2>. QED
    BY <1>5, <2>1, <2>2 DEF Reserve
<1>6. ASSUME NEW r \in Requests, Finalize(r)
      PROVE  OneOwner'
  <2>1. \A a \in Attempts : pend'[a] \in {NoPayment, pend[a]}
    BY <1>6 DEF Finalize, FinalizeSucceeds, TypeOK
  <2>2. \A a \in Attempts : pend'[a].state # "ABSENT" => Names(a, pend'[a].phone)
    BY <2>1 DEF NoPayment, Names
  <2>. QED
    BY <1>1, <1>6, <2>2, FinishWorks DEF Finalize
<1>7. ASSUME NEW r \in Requests, AppendParticipant(r) \/ AppendWaitlist(r)
      PROVE  OneOwner'
  BY <1>2, <1>7, FinishWorks DEF AppendParticipant, AppendWaitlist
<1>8. ASSUME NEW r \in Requests,
             \/ Reread(r) \/ Post(r) \/ Receive(r) \/ List(r) \/ VerifyBooking(r)
             \/ Verify(r) \/ Begin(r) \/ Crash(r)
      PROVE  OneOwner'
  <2>1. UNCHANGED edit
    BY <1>8 DEF Reread, Post, Receive, List, VerifyBooking, Verify, Begin, Crash,
       BeginPurchase, BeginConfirm, BeginRegister, BeginWaitlist
  <2>. QED
    BY <1>2, <1>8, <2>1, QuietWorks DEF document
<1>9. ASSUME NEW r \in Requests,
             \/ Claim(r) \/ RecordIdentity(r) \/ Bind(r)
             \/ ClaimBooking(r) \/ BindBooking(r) \/ Mark(r)
      PROVE  OneOwner'
  <2>1. UNCHANGED edit
    BY <1>9 DEF Claim, RecordIdentity, Bind, ClaimBooking, BindBooking, Mark, Mutate
  <2>. QED
    BY <1>3, <1>9, <2>1, AdvanceKeeps
<1>10. ASSUME NEW r \in Requests, Step(r)
       PROVE  OneOwner'
  BY <1>5, <1>6, <1>7, <1>8, <1>9, <1>10 DEF Step
<1>11. ASSUME NEW x, ProviderCreates(x) \/ Pay(x) \/ EditRule(x) \/ EditMaxPlayers(x)
       PROVE  OneOwner'
  BY <1>2, <1>11 DEF ProviderCreates, Pay, EditRule, EditMaxPlayers, document, Working
<1>12. ASSUME NEW e \in Editors, NEW a, NEW x,
              BeginReconcile(e, a, x) \/ BeginCancel(e, x) \/ BeginStatus(e, x)
       PROVE  OneOwner'
  <2>1. ASSUME NEW local, BeginEdit(e, local), local.pend = pend \/ local.pend = NoEdit.pend
        PROVE  OneOwner'
    <3>1. \A b \in Attempts : local.pend[b] \in {pend[b], NoPayment}
      BY <2>1 DEF NoEdit
    <3>. QED
      BY <1>4, <2>1, <3>1 DEF BeginEdit, document, Names
  <2>. QED
    BY <1>12, <2>1 DEF BeginReconcile, BeginCancel, BeginStatus, NoEdit
<1>13. ASSUME NEW e \in Editors, WriteLists(e) \/ WriteStatus(e) \/ WriteReconciled(e)
       PROVE  OneOwner'
  <2>1. edit' = [edit EXCEPT ![e] = NoEdit] /\ UNCHANGED req
    BY <1>13 DEF WriteLists, WriteStatus, WriteReconciled
  <2>2. \A a \in Attempts : pend'[a].state # "ABSENT" => Names(a, pend'[a].phone)
    <3>1. CASE WriteLists(e) \/ WriteStatus(e)
      BY <3>1 DEF WriteLists, WriteStatus, Names
    <3>2. CASE WriteReconciled(e)
      BY <3>2, ReconcileKeeps DEF Kept, Names, Pending
    <3>. QED
      BY <1>13, <3>1, <3>2
  <2>3. \A a \in Attempts : NoEdit.pend[a] \in {pend[a], NoPayment}
    BY DEF NoEdit
  <2>. QED
    BY <1>4, <2>1, <2>2, <2>3
<1>14. CASE UNCHANGED vars
  BY <1>2, <1>14 DEF vars, document, Working
<1>. QED
  BY <1>8, <1>10, <1>11, <1>12, <1>13, <1>14 DEF Next, GuardedNext, OverwriteNext

-----------------------------------------------------------------------------
(* The ids of transactions come from the provider: the one an attempt is   *)
(* bound to, in the document and in every copy of it, and the one a        *)
(* request is about to record or to verify, was an answer to a POST of     *)
(* that very attempt.                                                      *)

GivenTo(a, x) == x.kind = "TRANSACTION" => x.providerId \in answer[a] \cup {None}
GivenRequest(q) ==
    req[q].pc \in {"RECORD", "VERIFY"} => req[q].id \in answer[req[q].att] \cup {None}
Given ==
    /\ \A a \in Attempts : GivenTo(a, pend[a])
    /\ \A e \in Editors, a \in Attempts : GivenTo(a, edit[e].pend[a])
    /\ \A q \in Requests : GivenRequest(q)

LEMMA InitGiven == Init => Given
BY DEF Init, Given, GivenTo, GivenRequest, NoPayment, NoEdit, Idle

\* Every payment, copy and request after a step is one of before, or has an id
\* that was an answer before the step.
LEMMA GivenKept ==
    ASSUME TypeOK, TypeOK', Lasting, Given,
           \A a \in Attempts :
              \/ pend'[a] = pend[a]
              \/ \E e \in Editors : pend'[a] = edit[e].pend[a]
              \/ GivenTo(a, pend'[a]),
           \A e \in Editors, a \in Attempts :
              edit'[e].pend[a] \in {pend[a], edit[e].pend[a], NoPayment},
           \A q \in Requests :
              \/ req'[q] = req[q]
              \/ req'[q].pc \in {"RECORD", "VERIFY"} => req'[q].id \in answer[req'[q].att] \cup {None}
    PROVE  Given'
<1>1. \A a \in Attempts : \A i : i \in answer[a] \cup {None} => i \in answer'[a] \cup {None}
  BY DEF Lasting
<1>2. ASSUME NEW a \in Attempts, NEW x, GivenTo(a, x)
      PROVE  GivenTo(a, x)'
  BY <1>1, <1>2 DEF GivenTo
<1>3. ASSUME NEW a \in Attempts
      PROVE  GivenTo(a, pend[a])'
  <2>1. GivenTo(a, pend'[a])
    BY <1>3 DEF Given
  <2>. QED
    BY <1>1, <2>1 DEF GivenTo
<1>4. ASSUME NEW e \in Editors, NEW a \in Attempts
      PROVE  GivenTo(a, edit[e].pend[a])'
  <2>1. GivenTo(a, NoPayment)
    BY NoneAssumption DEF GivenTo, NoPayment
  <2>2. GivenTo(a, edit'[e].pend[a])
    BY <1>4, <2>1 DEF Given
  <2>. QED
    BY <1>1, <2>2 DEF GivenTo
<1>5. ASSUME NEW q \in Requests
      PROVE  GivenRequest(q)'
  <2>1. CASE req'[q].pc \in {"RECORD", "VERIFY"}
    <3>1. req'[q].att \in Attempts
      BY <2>1, AttemptRequest DEF TypeOK, AttemptLabels
    <3>2. req'[q].id \in answer[req'[q].att] \cup {None}
      BY <1>5, <2>1 DEF Given, GivenRequest
    <3>. QED
      BY <1>1, <3>1, <3>2 DEF GivenRequest
  <2>. QED
    BY <2>1 DEF GivenRequest
<1>. QED
  BY <1>3, <1>4, <1>5 DEF Given

\* Only an answer of the provider, or an attempt already bound to one, gives a
\* request an id to record or to verify.
LEMMA GivenIds ==
    ASSUME TypeOK, Given, NEW r \in Requests, Begin(r) \/ Step(r) \/ Crash(r)
    PROVE  \A q \in Requests :
              \/ req'[q] = req[q]
              \/ req'[q].pc \in {"RECORD", "VERIFY"} => req'[q].id \in answer[req'[q].att] \cup {None}
<1>. DEFINE Fine == req'[r].pc \in {"RECORD", "VERIFY"} => req'[r].id \in answer[req'[r].att] \cup {None}
<1>. SUFFICES Fine
  BY MarkedBy
<1>1. ASSUME NEW local, req' = [req EXCEPT ![r] = local],
             local.pc \in {"RECORD", "VERIFY"} => local.id \in answer[local.att] \cup {None}
      PROVE  Fine
  BY <1>1 DEF TypeOK
<1>2. CASE Finish(r)
  <2>1. Idle.pc \notin {"RECORD", "VERIFY"}
    BY DEF Idle
  <2>. QED
    BY <1>1, <1>2, <2>1 DEF Finish
<1>3. ASSUME NEW l, l \notin {"RECORD", "VERIFY"}, Goto(r, l), req[r].pc \in AttemptLabels
      PROVE  Fine
  <2>1. req' = [req EXCEPT ![r] = [req[r] EXCEPT !.pc = l]]
    BY <1>3 DEF Goto
  <2>2. [req[r] EXCEPT !.pc = l].pc = l
    BY <1>3, AttemptRequest DEF TypeOK
  <2>. QED
    BY <1>1, <1>3, <2>1, <2>2
<1>4. \A a \in Pending : Resumption(a) # "RECORD" /\ (Resumption(a) = "VERIFY" => pend[a].kind = "TRANSACTION")
  BY DEF Resumption, Pending, TypeOK, Payment, NoPayment, Kinds
<1>5. CASE Begin(r)
  <2>1. ASSUME NEW p, NEW kind, NEW l, l \notin {"RECORD", "VERIFY"}, Admit(r, p, kind, l)
        PROVE  Fine
    BY <1>1, <2>1 DEF Admit, Start
  <2>2. ASSUME NEW p, NEW a \in PendingOf(p), NEW l, Continue(r, p, a, l),
               l # "RECORD", l = "VERIFY" => pend[a].kind = "TRANSACTION"
        PROVE  Fine
    <3>. DEFINE local == [pc |-> l, phone |-> p, att |-> a, kind |-> pend[a].kind,
                          id |-> pend[a].providerId, rule |-> None]
    <3>1. local.pc = l /\ local.att = a /\ local.id = pend[a].providerId
      OBVIOUS
    <3>2. l = "VERIFY" => pend[a].providerId \in answer[a] \cup {None}
      BY <2>2 DEF Given, GivenTo, PendingOf, Pending
    <3>3. req' = [req EXCEPT ![r] = local]
      BY <2>2 DEF Continue, Start
    <3>. HIDE DEF local
    <3>. QED
      BY <1>1, <2>2, <3>1, <3>2, <3>3
  <2>3. ASSUME NEW p \in Phones, NEW kind, BeginPurchase(r, p, kind)
        PROVE  Fine
    BY <1>4, <2>1, <2>2, <2>3 DEF BeginPurchase, PendingOf
  <2>4. ASSUME NEW p \in Phones, BeginConfirm(r, p)
        PROVE  Fine
    BY <2>2, <2>4 DEF BeginConfirm
  <2>. QED
    BY <1>5, <2>1, <2>3, <2>4 DEF Begin, BeginRegister, BeginWaitlist
<1>6. CASE Crash(r)
  BY <1>2, <1>6 DEF Crash
<1>7. CASE Receive(r)
  <2>1. req[r] \in Request /\ req[r].pc \in AttemptLabels
    BY <1>7 DEF Receive, At, TypeOK, AttemptLabels
  <2>2. PICK i \in answer[req[r].att], l \in {"RECORD", "BIND_BOOKING"} :
           req' = [req EXCEPT ![r].id = i, ![r].pc = l]
    BY <1>7 DEF Receive
  <2>3. PICK local : local = [req[r] EXCEPT !.id = i, !.pc = l]
    OBVIOUS
  <2>4. local.id = i /\ local.att = req[r].att
    BY <2>1, <2>3, AttemptRequest
  <2>5. req' = [req EXCEPT ![r] = local]
    BY <2>2, <2>3 DEF TypeOK
  <2>. QED
    BY <1>1, <2>4, <2>5
<1>8. ASSUME NEW a, NEW i, NEW l, l \notin {"RECORD", "VERIFY"}, req[r].pc \in AttemptLabels,
             \/ req' = [req EXCEPT ![r].id = i, ![r].pc = l]
             \/ req' = [req EXCEPT ![r].att = a, ![r].id = i, ![r].pc = l]
      PROVE  Fine
  <2>1. \/ req' = [req EXCEPT ![r] = [req[r] EXCEPT !.id = i, !.pc = l]]
        \/ req' = [req EXCEPT ![r] = [req[r] EXCEPT !.att = a, !.id = i, !.pc = l]]
    BY <1>8 DEF TypeOK
  <2>2. /\ [req[r] EXCEPT !.id = i, !.pc = l].pc = l
        /\ [req[r] EXCEPT !.att = a, !.id = i, !.pc = l].pc = l
    BY <1>8, AttemptRequest DEF TypeOK
  <2>. QED
    BY <1>1, <1>8, <2>1, <2>2
<1>9. CASE Reread(r)
  <2>1. req[r].pc \in AttemptLabels
    BY <1>9 DEF Reread, At, AttemptLabels
  <2>2. ASSUME NEW a \in PendingOf(req[r].phone), pend[a].kind = "SUBSCRIPTION_BOOKING",
               req' = [req EXCEPT ![r].att = a, ![r].id = pend[a].providerId,
                                  ![r].pc = Resumption(a)]
        PROVE  Fine
    <3>1. Resumption(a) \notin {"RECORD", "VERIFY"}
      BY <1>4, <2>2 DEF PendingOf
    <3>. QED
      BY <1>8, <2>1, <2>2, <3>1
  <2>. QED
    BY <1>2, <1>9, <2>2 DEF Reread
<1>10. CASE List(r)
  <2>1. req[r].pc \in AttemptLabels
    BY <1>10 DEF List, AttemptLabels
  <2>2. ASSUME NEW i, req' = [req EXCEPT ![r].id = i, ![r].pc = "BIND_BOOKING"]
        PROVE  Fine
    BY <1>8, <2>1, <2>2
  <2>. QED
    BY <1>2, <1>3, <1>10, <2>1, <2>2 DEF List
<1>11. CASE Post(r) \/ Verify(r) \/ VerifyBooking(r)
  <2>1. req[r].pc \in AttemptLabels
    BY <1>11 DEF Post, Verify, VerifyBooking, At, AttemptLabels
  <2>. QED
    BY <1>2, <1>3, <1>11, <2>1 DEF Post, Verify, VerifyBooking
<1>12. CASE Claim(r) \/ RecordIdentity(r) \/ Bind(r) \/ ClaimBooking(r) \/ BindBooking(r) \/ Mark(r)
  <2>1. req[r].pc \in AttemptLabels
    BY <1>12 DEF Claim, RecordIdentity, Bind, ClaimBooking, BindBooking, Mark, At, AttemptLabels
  <2>2. ASSUME NEW matches, NEW payment, NEW l, l \notin {"RECORD", "VERIFY"},
               Mutate(r, matches, payment, l)
        PROVE  Fine
    BY <1>2, <1>3, <2>1, <2>2 DEF Mutate
  <2>. QED
    BY <1>12, <2>2 DEF Claim, RecordIdentity, Bind, ClaimBooking, BindBooking, Mark
<1>13. CASE Finalize(r) \/ AppendParticipant(r) \/ AppendWaitlist(r)
  BY <1>2, <1>13 DEF Finalize, AppendParticipant, AppendWaitlist
<1>14. CASE Reserve(r)
  <2>1. ASSUME NEW a \in Attempts, ReserveSucceeds(r, a)
        PROVE  Fine
    <3>1. PICK l \in {"CLAIM", "REREAD"} :
             req' = [req EXCEPT ![r] = [req[r] EXCEPT !.att = a, !.rule = None, !.pc = l]]
      BY <2>1 DEF ReserveSucceeds, TypeOK
    <3>2. req[r] \in [pc : {"RESERVE"}, phone : Phones, att : {None}, kind : Kinds,
                      id : {None}, rule : Rule]
      BY <1>14, AdmissionRequest DEF TypeOK, Reserve, At
    <3>3. [req[r] EXCEPT !.att = a, !.rule = None, !.pc = l].pc = l
      BY <3>2
    <3>. QED
      BY <1>1, <3>1, <3>3
  <2>. QED
    BY <1>2, <1>14, <2>1 DEF Reserve
<1>. QED
  BY <1>5, <1>6, <1>7, <1>9, <1>10, <1>11, <1>12, <1>13, <1>14 DEF Step

\* One conditional update of an attempt keeps its id, or writes the one given.
LEMMA MutateGives ==
    ASSUME TypeOK, Given, NEW r \in Requests, req[r].pc \in AttemptLabels,
           NEW matches, NEW payment, NEW label, Mutate(r, matches, payment, label),
           matches => GivenTo(req[r].att, payment)
    PROVE  \A a \in Attempts : pend'[a] = pend[a] \/ GivenTo(a, pend'[a])
<1>1. req[r].att \in Attempts
  BY AttemptRequest DEF TypeOK
<1>2. CASE UNCHANGED pend
  BY <1>2
<1>3. CASE matches /\ pend' = [pend EXCEPT ![req[r].att] = payment]
  BY <1>1, <1>3 DEF TypeOK
<1>. QED
  BY <1>2, <1>3 DEF Mutate

LEMMA AdvanceGives ==
    ASSUME TypeOK, Given, NEW r \in Requests,
           \/ Claim(r) \/ RecordIdentity(r) \/ Bind(r)
           \/ ClaimBooking(r) \/ BindBooking(r) \/ Mark(r)
    PROVE  \A a \in Attempts : pend'[a] = pend[a] \/ GivenTo(a, pend'[a])
<1>1. req[r] \in Request /\ req[r].pc \in AttemptLabels
  BY DEF TypeOK, Claim, RecordIdentity, Bind, ClaimBooking, BindBooking, Mark, At,
         AttemptLabels
<1>2. req[r].att \in Attempts /\ Mine(r) \in Payment
  BY <1>1, AttemptRequest DEF TypeOK, Mine
<1>3. Mine(r) \in [state : Holding \cup {"ABSENT"}, kind : Kinds \cup {None},
                   phone : Phones \cup {None}, providerId : ProviderIds \cup {None},
                   evidence : ProviderIds \cup {None}]
  BY <1>2 DEF Payment, NoPayment
<1>4. GivenTo(req[r].att, Mine(r))
  BY <1>2 DEF Given, Mine
<1>5. \A l, i :
         /\ GivenTo(req[r].att, [Mine(r) EXCEPT !.state = l])
         /\ GivenTo(req[r].att, [Mine(r) EXCEPT !.state = l, !.evidence = i])
  BY <1>3, <1>4 DEF GivenTo
<1>6. CASE Claim(r)
  BY <1>1, <1>5, <1>6, MutateGives DEF Claim
<1>7. CASE RecordIdentity(r)
  <2>1. req[r].id \in answer[req[r].att] \cup {None}
    BY <1>7 DEF Given, GivenRequest, RecordIdentity, At
  <2>2. GivenTo(req[r].att, [Mine(r) EXCEPT !.providerId = req[r].id])
    BY <1>3, <2>1 DEF GivenTo
  <2>. QED
    BY <1>1, <1>7, <2>2, MutateGives DEF RecordIdentity
<1>8. CASE Bind(r)
  BY <1>1, <1>5, <1>8, MutateGives DEF Bind
<1>9. CASE ClaimBooking(r)
  BY <1>1, <1>5, <1>9, MutateGives DEF ClaimBooking
<1>10. CASE BindBooking(r)
  <2>1. BindBookingMatches(r) =>
           GivenTo(req[r].att, [Mine(r) EXCEPT !.state = "PENDING_PAYMENT", !.providerId = req[r].id])
    BY <1>3 DEF BindBookingMatches, GivenTo
  <2>. QED
    BY <1>1, <1>10, <2>1, MutateGives DEF BindBooking
<1>11. CASE Mark(r)
  BY <1>1, <1>5, <1>11, MutateGives DEF Mark
<1>. QED
  BY <1>6, <1>7, <1>8, <1>9, <1>10, <1>11

LEMMA NextGiven ==
    TypeOK /\ TypeOK' /\ Decided /\ Given /\ [Next]_vars => Given'
<1>. SUFFICES ASSUME TypeOK, TypeOK', Decided, Given, [Next]_vars
              PROVE  Given'
  OBVIOUS
<1>1. Lasting
  BY NextLasting
<1>2. ASSUME NEW r \in Requests, Begin(r) \/ Step(r) \/ Crash(r)
      PROVE  Given'
  <2>1. UNCHANGED edit
    BY <1>2 DEF Begin, Crash, BeginPurchase, BeginConfirm, BeginRegister, BeginWaitlist,
       Step, Reserve, Reread, Claim, Post, Receive, RecordIdentity, Bind, List,
       ClaimBooking, BindBooking, VerifyBooking, Verify, Mark, Finalize,
       AppendParticipant, AppendWaitlist, Mutate
  <2>2. \A a \in Attempts : pend'[a] = pend[a] \/ GivenTo(a, pend'[a])
    <3>1. CASE Reserve(r)
      <4>1. ASSUME NEW b \in Attempts, ReserveSucceeds(r, b)
            PROVE  \A a \in Attempts : pend'[a] = pend[a] \/ pend'[a].providerId = None
        BY <4>1 DEF ReserveSucceeds, TypeOK
      <4>. QED
        BY <3>1, <4>1 DEF Reserve, GivenTo
    <3>2. CASE Finalize(r)
      <4>1. \A a \in Attempts : pend'[a] = pend[a] \/ pend'[a].providerId = None
        BY <3>2 DEF Finalize, FinalizeSucceeds, NoPayment, TypeOK
      <4>. QED
        BY <4>1 DEF GivenTo
    <3>3. CASE AppendParticipant(r) \/ AppendWaitlist(r)
      BY <3>3 DEF AppendParticipant, AppendWaitlist
    <3>4. CASE \/ Claim(r) \/ RecordIdentity(r) \/ Bind(r)
               \/ ClaimBooking(r) \/ BindBooking(r) \/ Mark(r)
      BY <3>4, AdvanceGives
    <3>5. CASE \/ Reread(r) \/ Post(r) \/ Receive(r) \/ List(r) \/ VerifyBooking(r)
               \/ Verify(r) \/ Begin(r) \/ Crash(r)
      BY <3>5, QuietWorks DEF document
    <3>. QED
      BY <1>2, <3>1, <3>2, <3>3, <3>4, <3>5 DEF Step
  <2>. QED
    BY <1>1, <1>2, <2>1, <2>2, GivenIds, GivenKept
<1>3. ASSUME UNCHANGED <<pend, edit, req>>
      PROVE  Given'
  BY <1>1, <1>3, GivenKept
<1>4. ASSUME NEW x, ProviderCreates(x) \/ Pay(x) \/ EditRule(x) \/ EditMaxPlayers(x)
      PROVE  Given'
  BY <1>3, <1>4 DEF ProviderCreates, Pay, EditRule, EditMaxPlayers, document
<1>5. ASSUME NEW e \in Editors, NEW local, edit' = [edit EXCEPT ![e] = local], UNCHANGED req,
             \A a \in Attempts : \/ pend'[a] = pend[a]
                                  \/ \E f \in Editors : pend'[a] = edit[f].pend[a]
                                  \/ GivenTo(a, pend'[a]),
             \A a \in Attempts : local.pend[a] \in {pend[a], NoPayment}
      PROVE  Given'
  <2>1. \A f \in Editors, a \in Attempts :
           edit'[f].pend[a] \in {pend[a], edit[f].pend[a], NoPayment}
    BY <1>5 DEF TypeOK
  <2>. QED
    BY <1>1, <1>5, <2>1, GivenKept
<1>6. \A a \in Attempts : NoEdit.pend[a] = NoPayment
  BY DEF NoEdit
<1>7. ASSUME NEW e \in Editors, NEW local, BeginEdit(e, local),
             local.pend = pend \/ local.pend = NoEdit.pend
      PROVE  Given'
  <2>1. \A a \in Attempts : local.pend[a] \in {pend[a], NoPayment}
    BY <1>6, <1>7
  <2>. QED
    BY <1>5, <1>7, <2>1 DEF BeginEdit, document
<1>8. ASSUME NEW e \in Editors, NEW a, NEW x,
             BeginReconcile(e, a, x) \/ BeginCancel(e, x) \/ BeginStatus(e, x)
      PROVE  Given'
  BY <1>7, <1>8 DEF BeginReconcile, BeginCancel, BeginStatus, NoEdit
<1>9. ASSUME NEW e \in Editors, WriteLists(e) \/ WriteStatus(e)
      PROVE  Given'
  <2>1. /\ edit' = [edit EXCEPT ![e] = NoEdit] /\ UNCHANGED req
        /\ pend' \in {pend, edit[e].pend}
    BY <1>9 DEF WriteLists, WriteStatus
  <2>. QED
    BY <1>5, <1>6, <2>1
<1>10. ASSUME NEW e \in Editors, WriteReconciled(e)
       PROVE  Given'
  <2>1. /\ edit' = [edit EXCEPT ![e] = NoEdit] /\ UNCHANGED req
        /\ edit[e].pc \in Resolutions
    BY <1>10 DEF WriteReconciled
  <2>. DEFINE a == edit[e].att
              read == edit[e].pend[a]
  <2>2. a \in Attempts /\ read \in Payment /\ read.state = "PROVIDER_RESULT_UNKNOWN"
    BY <2>1, EditFields DEF Decided
  <2>3. read \in [state : Holding, kind : Kinds, phone : Phones,
                  providerId : ProviderIds \cup {None}, evidence : ProviderIds \cup {None}]
    BY <2>2 DEF Payment, NoPayment
  <2>4. Replacement(e).kind = read.kind /\ Replacement(e).providerId = read.providerId
    BY <2>3 DEF Replacement
  <2>5. GivenTo(a, Replacement(e))
    BY <2>2, <2>4 DEF Given, GivenTo
  <2>6. \A b \in Attempts : pend'[b] = pend[b] \/ GivenTo(b, pend'[b])
    BY <1>10, <2>2, <2>5 DEF WriteReconciled, TypeOK
  <2>. QED
    BY <1>5, <1>6, <2>1, <2>6
<1>11. CASE UNCHANGED vars
  BY <1>3, <1>11 DEF vars, document
<1>. QED
  BY <1>2, <1>4, <1>8, <1>9, <1>10, <1>11 DEF Next, GuardedNext, OverwriteNext

-----------------------------------------------------------------------------
LEMMA InitBacked == Init => Backed
BY DEF Init, Backed, SeatPaid, EvidenceHolds, NoPayment, NoEdit, Idle, At

\* The two answers of the provider that bring a request to MARK.
LEMMA VerifiedBacks ==
    ASSUME TypeOK, Given, NEW r \in Requests, Verify(r) \/ VerifyBooking(r)
    PROVE  req'[r].pc = "MARK" => Backs(req'[r].id, req'[r].att, req'[r].phone)
<1>1. req[r].pc \in AttemptLabels
  BY DEF Verify, VerifyBooking, At, AttemptLabels
<1>2. /\ req[r].phone \in Phones /\ req[r].att \in Attempts
      /\ req[r].id \in ProviderIds \cup {None}
  BY <1>1, AttemptRequest DEF TypeOK
<1>3. CASE Finish(r)
  BY <1>3 DEF Finish, Idle, TypeOK
<1>4. CASE Goto(r, "MARK")
  <2>1. req' = [req EXCEPT ![r] = [req[r] EXCEPT !.pc = "MARK"]]
    BY <1>4 DEF Goto
  <2>2. req'[r].phone = req[r].phone /\ req'[r].id = req[r].id /\ req'[r].att = req[r].att
    BY <1>1, <2>1, AttemptRequest DEF TypeOK
  <2>3. ~Finish(r)
    BY <1>1, <2>1, AttemptRequest DEF Finish, Idle, TypeOK
  <2>4. Backs(req[r].id, req[r].att, req[r].phone)
    <3>1. CASE Verify(r)
      <4>1. req[r].id # None /\ provider[req[r].id].status = "PAID"
        BY <2>3, <3>1 DEF Verify
      <4>2. req[r].id \in answer[req[r].att]
        BY <3>1, <4>1 DEF Given, GivenRequest, Verify, At
      <4>. QED
        BY <4>1, <4>2 DEF Backs
    <3>2. CASE VerifyBooking(r)
      <4>1. req[r].id \in Bookings(req[r].phone)
        BY <2>3, <3>2 DEF VerifyBooking
      <4>2. req[r].id \in ProviderIds /\ req[r].id # None
        BY <4>1, NoneAssumption DEF Bookings
      <4>3. /\ provider[req[r].id].status = "ACTIVE"
            /\ provider[req[r].id].phone = req[r].phone
            /\ provider[req[r].id] \in Object
        BY <4>1, <4>2 DEF Bookings, TypeOK
      <4>4. provider[req[r].id] = [status |-> "ACTIVE", phone |-> req[r].phone]
        BY <4>3 DEF Object
      <4>. QED
        BY <4>2, <4>4 DEF Backs
    <3>. QED
      BY <3>1, <3>2
  <2>. QED
    BY <2>2, <2>4
<1>. QED
  BY <1>3, <1>4 DEF Verify, VerifyBooking

\* A payment is marked with the id the provider vouched for, on an attempt of
\* the phone it vouched for.
LEMMA MarkBacks ==
    ASSUME TypeOK, TypeOK', Lasting, OneOwner, Backed, NEW r \in Requests, Mark(r)
    PROVE  \A a \in Attempts : pend'[a] = pend[a] \/ EvidenceHolds(a, pend[a])'
<1>1. req[r].pc \in AttemptLabels
  BY DEF Mark, At, AttemptLabels
<1>. DEFINE paid == [Mine(r) EXCEPT !.state = "PAID_PENDING_FINALIZATION",
                                    !.evidence = req[r].id]
<1>2. PICK a \in Attempts : a = req[r].att
  BY <1>1, AttemptRequest DEF TypeOK
<1>3. req[r].phone \in Phones /\ req[r].id \in ProviderIds \cup {None}
  BY <1>1, AttemptRequest DEF TypeOK
<1>4. CASE UNCHANGED pend
  BY <1>4
<1>5. CASE MarkMatches(r) /\ pend' = [pend EXCEPT ![a] = paid]
  <2>1. Mine(r) \in Payment /\ Mine(r).state # "ABSENT"
    BY <1>2, <1>5 DEF MarkMatches, Mine, TypeOK
  <2>2. Mine(r) \in [state : Holding, kind : Kinds, phone : Phones,
                     providerId : ProviderIds \cup {None}, evidence : ProviderIds \cup {None}]
    BY <2>1 DEF Payment, NoPayment
  <2>3. Mine(r).phone = req[r].phone
    BY <1>2, <1>3, <2>1, <2>2 DEF OneOwner, Names, Mine
  <2>4. PICK i \in ProviderIds \cup {None}, p \in Phones : i = req[r].id /\ p = req[r].phone
    BY <1>3
  <2>5. Backs(i, a, p)
    BY <1>2, <2>4 DEF Backed, Mark
  <2>6. Backs(i, a, p)'
    BY <2>5, BacksLast
  <2>7. /\ pend'[a] = paid /\ paid.evidence = i /\ paid.phone = p
        /\ \A b \in Attempts : b # a => pend'[b] = pend[b]
    BY <1>2, <1>5, <2>2, <2>3, <2>4 DEF TypeOK
  <2>8. \A b \in Attempts : b = a => EvidenceHolds(b, pend[b])'
    BY <2>6, <2>7 DEF EvidenceHolds, Backs
  <2>. QED
    BY <2>7, <2>8
<1>. QED
  BY <1>2, <1>4, <1>5 DEF Mark, Mutate

LEMMA FinalizeBacks ==
    ASSUME TypeOK, TypeOK', Lasting, OneOwner, Backed, NEW r \in Requests, Finalize(r)
    PROVE  /\ \A s \in participants' : s \in participants \/ SeatPaid(s)'
           /\ \A f \in settled' : f \in settled \/ Backs(f.id, f.att, f.phone)'
<1>1. req[r].pc \in AttemptLabels
  BY DEF Finalize, At, AttemptLabels
<1>2. PICK a \in Attempts, p \in Phones : a = req[r].att /\ p = req[r].phone
  BY <1>1, AttemptRequest DEF TypeOK
<1>3. CASE UNCHANGED <<participants, settled>>
  BY <1>3
<1>4. CASE FinalizeMatches(r) /\ FinalizeSucceeds(r)
  <2>1. Mine(r) \in Payment /\ Mine(r).state = "PAID_PENDING_FINALIZATION"
    BY <1>2, <1>4 DEF FinalizeMatches, Mine, TypeOK
  <2>2. /\ Mine(r).phone \in Phones
        /\ Mine(r).evidence \in ProviderIds \cup {None}
    BY <2>1, PaymentFields
  <2>3. Mine(r).phone = p
    BY <1>2, <2>1, <2>2 DEF OneOwner, Names, Mine
  <2>4. PICK i \in ProviderIds \cup {None} : i = Mine(r).evidence
    BY <2>2
  <2>5. Backs(i, a, p)
    BY <1>2, <2>1, <2>3, <2>4 DEF Backed, EvidenceHolds, Mine
  <2>6. Backs(i, a, p)'
    BY <2>5, BacksLast
  <2>7. PICK new : new = [phone |-> p, att |-> a]
    OBVIOUS
  <2>8. PICK f : f = [att |-> a, phone |-> p, id |-> i]
    OBVIOUS
  <2>9. new.att = a /\ new.phone = p /\ f.att = a /\ f.phone = p /\ f.id = i
    BY <2>7, <2>8
  <2>10. /\ settled' = settled \cup {f}
         /\ participants' = participants \cup {new}
    BY <1>2, <1>4, <2>4, <2>7, <2>8 DEF FinalizeSucceeds
  <2>11. SeatPaid(new)'
    BY <2>9, <2>10 DEF SeatPaid
  <2>12. Backs(f.id, f.att, f.phone)'
    BY <2>6, <2>9 DEF Backs
  <2>. QED
    BY <2>10, <2>11, <2>12
<1>. QED
  BY <1>3, <1>4 DEF Finalize

LEMMA NextBacked ==
    TypeOK /\ TypeOK' /\ Decided /\ OneOwner /\ Given /\ Backed /\ [Next]_vars => Backed'
<1>. SUFFICES ASSUME TypeOK, TypeOK', Decided, OneOwner, Given, Backed, [Next]_vars
              PROVE  Backed'
  OBVIOUS
<1>1. Lasting
  BY NextLasting
<1>2. ASSUME UNCHANGED edit,
             \A s \in participants' : s \in participants \/ SeatPaid(s)',
             \A f \in settled' : f \in settled \/ Backs(f.id, f.att, f.phone)',
             \A a \in Attempts : pend'[a] = pend[a] \/ EvidenceHolds(a, pend[a])',
             \A q \in Requests :
                \/ req'[q] = req[q]
                \/ req'[q].pc # "MARK"
                \/ Backs(req'[q].id, req'[q].att, req'[q].phone)
      PROVE  Backed'
  BY <1>1, <1>2, BackedKept
<1>3. ASSUME NEW r \in Requests, Begin(r) \/ Step(r) \/ Crash(r)
      PROVE  \A q \in Requests :
                \/ req'[q] = req[q]
                \/ req'[q].pc # "MARK"
                \/ Backs(req'[q].id, req'[q].att, req'[q].phone)
  BY <1>3, MarkedBy, VerifiedBacks
<1>4. ASSUME NEW r \in Requests, Begin(r) \/ Step(r) \/ Crash(r)
      PROVE  UNCHANGED edit
  BY <1>4 DEF Begin, Crash, BeginPurchase, BeginConfirm, BeginRegister, BeginWaitlist,
     Step, Reserve, Reread, Claim, Post, Receive, RecordIdentity, Bind, List,
     ClaimBooking, BindBooking, VerifyBooking, Verify, Mark, Finalize,
     AppendParticipant, AppendWaitlist, Mutate
<1>5. ASSUME NEW r \in Requests, Begin(r) \/ Step(r) \/ Crash(r),
             \A s \in participants' : s \in participants \/ SeatPaid(s)',
             \A f \in settled' : f \in settled \/ Backs(f.id, f.att, f.phone)',
             \A a \in Attempts : pend'[a] = pend[a] \/ EvidenceHolds(a, pend[a])'
      PROVE  Backed'
  BY <1>2, <1>3, <1>4, <1>5
<1>6. ASSUME NEW r \in Requests, Mark(r)
      PROVE  Backed'
  <2>1. UNCHANGED <<participants, settled>>
    BY <1>6 DEF Mark, Mutate
  <2>. QED
    BY <1>1, <1>5, <1>6, <2>1, MarkBacks DEF Step
<1>7. ASSUME NEW r \in Requests, Finalize(r)
      PROVE  Backed'
  <2>1. \A a \in Attempts : pend'[a] = pend[a] \/ pend'[a] = NoPayment
    BY <1>7 DEF Finalize, FinalizeSucceeds, TypeOK
  <2>2. \A a \in Attempts : pend'[a] = pend[a] \/ EvidenceHolds(a, pend[a])'
    BY <2>1 DEF EvidenceHolds, NoPayment
  <2>. QED
    BY <1>1, <1>5, <1>7, <2>2, FinalizeBacks DEF Step
<1>8. ASSUME NEW r \in Requests,
             \/ Claim(r) \/ RecordIdentity(r) \/ Bind(r) \/ ClaimBooking(r) \/ BindBooking(r)
      PROVE  Backed'
  <2>1. req[r].pc \in AttemptLabels
    BY <1>8 DEF Claim, RecordIdentity, Bind, ClaimBooking, BindBooking, At, AttemptLabels
  <2>2. req[r].att \in Attempts /\ Mine(r) \in Payment
    BY <2>1, AttemptRequest DEF TypeOK, Mine
  <2>3. /\ \A b \in Attempts : b # req[r].att => pend'[b] = pend[b]
        /\ UNCHANGED <<participants, settled>>
    BY <1>8 DEF Claim, RecordIdentity, Bind, ClaimBooking, BindBooking, Mutate, TypeOK
  <2>4. \A b \in Attempts :
           b = req[r].att => pend'[b] = pend[b] \/ EvidenceHolds(b, pend[b])'
    <3>1. ASSUME NEW matches, NEW payment, NEW l, Mutate(r, matches, payment, l),
                 matches => payment.state # "PAID_PENDING_FINALIZATION"
          PROVE  \/ pend'[req[r].att] = pend[req[r].att]
                 \/ pend'[req[r].att].state # "PAID_PENDING_FINALIZATION"
      BY <2>2, <3>1 DEF Mutate, TypeOK
    <3>2. \A l \in Holding \ {"PAID_PENDING_FINALIZATION"} : \A i :
             Mine(r).state # "ABSENT" =>
             /\ [Mine(r) EXCEPT !.state = l].state # "PAID_PENDING_FINALIZATION"
             /\ [Mine(r) EXCEPT !.state = l, !.providerId = i].state # "PAID_PENDING_FINALIZATION"
             /\ [Mine(r) EXCEPT !.providerId = i].state = Mine(r).state
      BY <2>2 DEF Payment, NoPayment
    <3>3. \/ pend'[req[r].att] = pend[req[r].att]
          \/ pend'[req[r].att].state # "PAID_PENDING_FINALIZATION"
      <4>1. CASE Claim(r)
        BY <3>1, <3>2, <4>1 DEF Claim, ClaimMatches, Holding
      <4>2. CASE RecordIdentity(r)
        <5>1. RecordMatches(r) => Mine(r).state = "PROVIDER_RESULT_UNKNOWN"
          BY DEF RecordMatches
        <5>2. RecordMatches(r) => [Mine(r) EXCEPT !.providerId = req[r].id].state
                                     # "PAID_PENDING_FINALIZATION"
          BY <2>2, <5>1 DEF Payment, NoPayment
        <5>. QED
          BY <3>1, <4>2, <5>2 DEF RecordIdentity
      <4>3. CASE Bind(r)
        BY <3>1, <3>2, <4>3 DEF Bind, BindMatches, Holding
      <4>4. CASE ClaimBooking(r)
        BY <3>1, <3>2, <4>4 DEF ClaimBooking, ClaimBookingMatches, Holding
      <4>5. CASE BindBooking(r)
        <5>1. BindBookingMatches(r) => Mine(r).state # "ABSENT"
          BY DEF BindBookingMatches
        <5>2. BindBookingMatches(r) =>
                 [Mine(r) EXCEPT !.state = "PENDING_PAYMENT", !.providerId = req[r].id].state
                    # "PAID_PENDING_FINALIZATION"
          BY <2>2, <5>1 DEF Payment, NoPayment
        <5>. QED
          BY <3>1, <4>5, <5>2 DEF BindBooking
      <4>. QED
        BY <1>8, <4>1, <4>2, <4>3, <4>4, <4>5
    <3>. QED
      BY <3>3 DEF EvidenceHolds
  <2>. QED
    BY <1>5, <1>8, <2>3, <2>4 DEF Step
<1>9. ASSUME NEW r \in Requests, Reserve(r)
      PROVE  Backed'
  <2>1. UNCHANGED <<participants, settled>>
    BY <1>9 DEF Reserve
  <2>2. \A a \in Attempts : pend'[a] = pend[a] \/ pend'[a].state # "PAID_PENDING_FINALIZATION"
    <3>1. ASSUME NEW a \in Attempts, ReserveSucceeds(r, a)
          PROVE  /\ pend'[a].state # "PAID_PENDING_FINALIZATION"
                 /\ \A b \in Attempts : b # a => pend'[b] = pend[b]
      BY <3>1 DEF ReserveSucceeds, InitialState, TypeOK
    <3>. QED
      BY <1>9, <3>1 DEF Reserve
  <2>3. \A a \in Attempts : pend'[a] = pend[a] \/ EvidenceHolds(a, pend[a])'
    BY <2>2 DEF EvidenceHolds
  <2>. QED
    BY <1>5, <1>9, <2>1, <2>3 DEF Step
<1>10. ASSUME NEW r \in Requests, AppendParticipant(r) \/ AppendWaitlist(r)
       PROVE  Backed'
  <2>1. UNCHANGED <<pend, settled>>
    BY <1>10 DEF AppendParticipant, AppendWaitlist
  <2>2. \A s \in participants' : s \in participants \/ s.att = None
    BY <1>10 DEF AppendParticipant, AppendWaitlist
  <2>3. \A s \in participants' : s \in participants \/ SeatPaid(s)'
    BY <2>2 DEF SeatPaid
  <2>. QED
    BY <1>5, <1>10, <2>1, <2>3 DEF Step
<1>11. ASSUME NEW r \in Requests,
              \/ Reread(r) \/ Post(r) \/ Receive(r) \/ List(r) \/ VerifyBooking(r)
              \/ Verify(r) \/ Begin(r) \/ Crash(r)
       PROVE  Backed'
  <2>1. UNCHANGED <<pend, participants>>
    BY <1>11, QuietWorks DEF document
  <2>2. UNCHANGED settled
    BY <1>11 DEF Reread, Post, Receive, List, VerifyBooking, Verify, Begin, Crash,
       BeginPurchase, BeginConfirm, BeginRegister, BeginWaitlist
  <2>. QED
    BY <1>5, <1>11, <2>1, <2>2 DEF Step
<1>12. ASSUME NEW r \in Requests, Step(r)
       PROVE  Backed'
  BY <1>6, <1>7, <1>8, <1>9, <1>10, <1>11, <1>12 DEF Step
<1>13. ASSUME UNCHANGED <<pend, participants, req, edit, settled>>
       PROVE  Backed'
  BY <1>2, <1>13
<1>14. ASSUME NEW x, ProviderCreates(x) \/ Pay(x) \/ EditRule(x) \/ EditMaxPlayers(x)
       PROVE  Backed'
  BY <1>13, <1>14 DEF ProviderCreates, Pay, EditRule, EditMaxPlayers, document
<1>15. ASSUME NEW e \in Editors, NEW local, edit' = [edit EXCEPT ![e] = local],
              UNCHANGED <<req, settled>>,
              \A s \in participants' : \/ s \in participants
                                        \/ \E f \in Editors : s \in edit[f].participants,
              \A a \in Attempts : \/ pend'[a] = pend[a]
                                   \/ \E f \in Editors : pend'[a] = edit[f].pend[a]
                                   \/ EvidenceHolds(a, pend[a])',
              local.participants \subseteq participants,
              \A a \in Attempts : local.pend[a] \in {pend[a], NoPayment},
              \/ local.pc # "PAID_BOUND"
              \/ /\ Backs(local.pend[local.att].providerId, local.att, local.pend[local.att].phone)
                 /\ local.pend[local.att].state # "ABSENT"
       PROVE  Backed'
  <2>1. edit'[e] = local /\ \A f \in Editors : f # e => edit'[f] = edit[f]
    BY <1>15 DEF TypeOK
  <2>2. \A f \in Editors : edit'[f].participants \subseteq edit[f].participants \cup participants
    BY <1>15, <2>1
  <2>3. \A f \in Editors, a \in Attempts :
           edit'[f].pend[a] \in {pend[a], edit[f].pend[a], NoPayment}
    BY <1>15, <2>1
  <2>4. \A f \in Editors :
           \/ edit'[f] = edit[f]
           \/ edit'[f].pc # "PAID_BOUND"
           \/ LET read == edit'[f].pend[edit'[f].att] IN
                 /\ Backs(read.providerId, edit'[f].att, read.phone)
                 /\ read.state # "ABSENT"
    BY <1>15, <2>1
  <2>. QED
    BY <1>1, <1>15, <2>2, <2>3, <2>4, BackedKept
<1>16. ASSUME NEW e \in Editors, NEW local, BeginEdit(e, local),
              local.participants \subseteq participants,
              local.pend = pend \/ local.pend = NoEdit.pend,
              \/ local.pc # "PAID_BOUND"
              \/ /\ Backs(local.pend[local.att].providerId, local.att, local.pend[local.att].phone)
                 /\ local.pend[local.att].state # "ABSENT"
       PROVE  Backed'
  <2>1. \A a \in Attempts : local.pend[a] \in {pend[a], NoPayment}
    BY <1>16 DEF NoEdit
  <2>. QED
    BY <1>15, <1>16, <2>1 DEF BeginEdit, document
<1>17. ASSUME NEW e \in Editors, NEW x, BeginCancel(e, x) \/ BeginStatus(e, x)
       PROVE  Backed'
  BY <1>16, <1>17 DEF BeginCancel, BeginStatus, NoEdit
<1>18. ASSUME NEW e \in Editors, NEW a \in Attempts, NEW x \in Resolutions,
              BeginReconcile(e, a, x)
       PROVE  Backed'
  <2>. DEFINE local == [NoEdit EXCEPT !.pc = x, !.pend = pend, !.att = a]
  <2>1. /\ local.pend = pend /\ local.att = a /\ local.pc = x
        /\ local.participants = {}
    BY DEF NoEdit
  <2>2. x = "PAID_BOUND" => Backs(pend[a].providerId, a, pend[a].phone)
    BY <1>18 DEF BeginReconcile, Backs, Given, GivenTo
  <2>3. pend[a].state # "ABSENT" /\ BeginEdit(e, local)
    BY <1>18 DEF BeginReconcile
  <2>. HIDE DEF local
  <2>. QED
    BY <1>16, <2>1, <2>2, <2>3
<1>19. NoEdit.participants = {} /\ NoEdit.pc = "IDLE" /\ \A a \in Attempts : NoEdit.pend[a] = NoPayment
  BY DEF NoEdit
<1>20. ASSUME NEW e \in Editors, WriteLists(e) \/ WriteStatus(e)
       PROVE  Backed'
  <2>1. /\ edit' = [edit EXCEPT ![e] = NoEdit] /\ UNCHANGED <<req, settled>>
        /\ participants' \in {participants, edit[e].participants}
        /\ pend' \in {pend, edit[e].pend}
    BY <1>20 DEF WriteLists, WriteStatus
  <2>. QED
    BY <1>15, <1>19, <2>1
<1>21. ASSUME NEW e \in Editors, WriteReconciled(e)
       PROVE  Backed'
  <2>1. /\ edit' = [edit EXCEPT ![e] = NoEdit]
        /\ UNCHANGED <<req, participants, provider, answer, settled>>
        /\ edit[e].pc \in Resolutions
    BY <1>21 DEF WriteReconciled, external
  <2>2. EvidenceHolds(edit[e].att, Replacement(e))
    <3>. DEFINE read == edit[e].pend[edit[e].att]
    <3>1. read \in Payment /\ read.state = "PROVIDER_RESULT_UNKNOWN"
      BY <2>1, EditFields DEF Decided
    <3>2. read \in [state : Holding, kind : Kinds, phone : Phones,
                    providerId : ProviderIds \cup {None}, evidence : ProviderIds \cup {None}]
      BY <3>1 DEF Payment, NoPayment
    <3>3. CASE edit[e].pc = "PAID_BOUND"
      <4>1. Backs(read.providerId, edit[e].att, read.phone)
        BY <3>3 DEF Backed
      <4>2. /\ Replacement(e).evidence = read.providerId
            /\ Replacement(e).phone = read.phone
        BY <3>2, <3>3 DEF Replacement
      <4>. QED
        BY <4>1, <4>2 DEF EvidenceHolds
    <3>4. CASE edit[e].pc # "PAID_BOUND"
      BY <3>2, <3>4 DEF Replacement, EvidenceHolds
    <3>. QED
      BY <3>3, <3>4
  <2>3. \A a \in Attempts :
           pend'[a] = pend[a] \/ (a = edit[e].att /\ pend'[a] = Replacement(e))
    BY <1>21 DEF WriteReconciled, TypeOK
  <2>4. \A a \in Attempts : pend'[a] = pend[a] \/ EvidenceHolds(a, pend[a])'
    BY <2>1, <2>2, <2>3 DEF EvidenceHolds, Backs
  <2>. QED
    BY <1>15, <1>19, <2>1, <2>4
<1>22. CASE UNCHANGED vars
  BY <1>13, <1>22 DEF vars, document
<1>. QED
  BY <1>11, <1>12, <1>14, <1>17, <1>18, <1>20, <1>21, <1>22 DEF Next, GuardedNext, OverwriteNext

\* However staff overwrite the document while payments run, a seat that came from
\* an attempt was settled for its phone by a payment the provider gave to that very
\* attempt or by a booking of that very phone; and what is marked paid in the
\* document is paid in the same sense, by its own attempt.
THEOREM NobodySitsUnpaid == Spec => []SeatsArePaidFor
<1>1. Backed => SeatsArePaidFor
  BY DEF Backed, SeatsArePaidFor, SeatPaid, EvidenceHolds, Pending
<1>. QED
  BY <1>1, InitType, NextType, InitDecided, NextDecided, InitOwner, NextOwner,
     InitGiven, NextGiven, InitBacked, NextBacked, PTL DEF Spec

-----------------------------------------------------------------------------
(* Payments are tracked.  A phone that has started to pay keeps the one    *)
(* attempt it pays with, first in the document and then as its seat, so    *)
(* whatever the provider creates is created for that attempt.              *)

Holder(p, a) ==
    \/ a \in Pending /\ pend[a].phone = p
    \/ [phone |-> p, att |-> a] \in participants

Booking(i) == provider[i].status = "ACTIVE"
IdsDiffer ==
    \A a, b \in Pending :
        pend[a].providerId # None /\ pend[a].providerId = pend[b].providerId => a = b
Remembered ==
    \A a \in Attempts : posts[a] > 0 => a \in Pending \/ \E s \in settled : s.att = a
OneBooking ==
    \A i, j \in ProviderIds : Booking(i) /\ provider[j] = provider[i] => i = j

Tracked ==
    /\ IdsDiffer
    /\ Remembered
    /\ OneBooking
    /\ \A w \in wire : Holder(w.phone, w.att) /\ posts[w.att] > 0
    /\ \A w, v \in wire : w.att = v.att => w = v
    /\ \A i \in ProviderIds : Booking(i) =>
          \E a \in Attempts : /\ Holder(provider[i].phone, a) /\ posts[a] > 0
                              /\ \A w \in wire : w.att # a
    /\ \A r \in Requests : At(r, "POST") => Holder(req[r].phone, req[r].att)

LEMMA InitTracked == Init => Tracked
BY DEF Init, Tracked, IdsDiffer, Remembered, OneBooking, Booking, Pending, NoPayment,
   Idle, At

LEMMA OneHolder ==
    ASSUME Counted, NEW p, NEW a \in Attempts, NEW b \in Attempts, Holder(p, a), Holder(p, b)
    PROVE  a = b
<1>1. CASE a \in Pending /\ b \in Pending /\ pend[a].phone = p /\ pend[b].phone = p
  BY <1>1 DEF Counted, PlacesHeld, OncePerPhone
<1>2. ASSUME NEW c, NEW d, c \in Pending, pend[c].phone = p, [phone |-> p, att |-> d] \in participants
      PROVE  FALSE
  <2>1. p \in Seated
    BY <1>2 DEF Seated
  <2>. QED
    BY <1>2, <2>1 DEF Counted, PlacesHeld, OncePerPhone
<1>3. CASE [phone |-> p, att |-> a] \in participants /\ [phone |-> p, att |-> b] \in participants
  <2>1. [phone |-> p, att |-> a] = [phone |-> p, att |-> b]
    BY <1>3 DEF Counted, PlacesHeld, OncePerPhone
  <2>. QED
    BY <2>1
<1>. QED
  BY <1>1, <1>2, <1>3 DEF Holder

LEMMA SeatsStay ==
    ASSUME TypeOK, [GuardedNext]_vars
    PROVE  participants \subseteq participants'
<1>1. ASSUME NEW r \in Requests, Begin(r) \/ Step(r) \/ Crash(r)
      PROVE  participants \subseteq participants'
  <2>1. CASE Finalize(r)
    BY <2>1 DEF Finalize, FinalizeSucceeds
  <2>2. CASE AppendParticipant(r) \/ AppendWaitlist(r) \/ Reserve(r)
    BY <2>2 DEF AppendParticipant, AppendWaitlist, Reserve
  <2>. QED
    BY <1>1, <2>1, <2>2, QuietWorks, AdvanceKeeps DEF Step, Kept, document
<1>2. ASSUME NEW x, ProviderCreates(x) \/ Pay(x) \/ EditRule(x) \/ EditMaxPlayers(x)
      PROVE  UNCHANGED participants
  BY <1>2 DEF ProviderCreates, Pay, EditRule, EditMaxPlayers, document
<1>3. ASSUME NEW e, NEW a, NEW x, BeginReconcile(e, a, x) \/ WriteReconciled(e)
      PROVE  UNCHANGED participants
  BY <1>3 DEF BeginReconcile, BeginEdit, WriteReconciled, document
<1>4. CASE UNCHANGED vars
  BY <1>4 DEF vars, document
<1>. QED
  BY <1>1, <1>2, <1>3, <1>4 DEF GuardedNext

\* Once it has one, a phone keeps the attempt it pays with.
LEMMA HolderStays ==
    ASSUME TypeOK, TypeOK', Decided, Counted, [GuardedNext]_vars
    PROVE  \A p \in Phones, a \in Attempts : Holder(p, a) => Holder(p, a)'
<1>. SUFFICES ASSUME NEW p \in Phones, NEW a \in Attempts, Holder(p, a)
              PROVE  Holder(p, a)'
  OBVIOUS
<1>1. CASE [phone |-> p, att |-> a] \in participants
  BY <1>1, SeatsStay DEF Holder
<1>2. CASE a \in Pending /\ pend[a].phone = p
  <2>1. CASE Became(a)
    BY <1>2, <2>1 DEF Became, Holder
  <2>2. CASE Onward(a)
    <3>1. pend'[a].phone = p /\ pend'[a] \in Payment
      BY <1>2, <2>2 DEF Onward, TypeOK
    <3>2. pend'[a].state # "ABSENT"
      BY <3>1, NoneAssumption DEF Payment, NoPayment, Holding
    <3>. QED
      BY <3>1, <3>2 DEF Holder, Pending
  <2>. QED
    BY <1>2, <2>1, <2>2, NextAdvances
<1>. QED
  BY <1>1, <1>2 DEF Holder

LEMMA RememberedStays ==
    ASSUME TypeOK, TypeOK', Decided, Counted, Backed', Lasting, [GuardedNext]_vars,
           NEW a \in Attempts, a \in Pending \/ \E s \in settled : s.att = a
    PROVE  a \in Pending' \/ \E s \in settled' : s.att = a
<1>1. CASE \E s \in settled : s.att = a
  BY <1>1 DEF Lasting
<1>2. CASE a \in Pending
  <2>1. pend[a] \in Payment /\ pend[a].state # "ABSENT"
    BY <1>2 DEF TypeOK, Pending
  <2>2. PICK p \in Phones : p = pend[a].phone
    BY <2>1, PaymentFields
  <2>3. Holder(p, a)'
    BY <1>2, <2>2, HolderStays DEF Holder
  <2>4. CASE [phone |-> p, att |-> a] \in participants'
    <3>1. SeatPaid([phone |-> p, att |-> a])'
      BY <2>4 DEF Backed
    <3>. QED
      BY <3>1, NoneAssumption DEF SeatPaid
  <2>. QED
    BY <2>3, <2>4 DEF Holder
<1>. QED
  BY <1>1, <1>2

\* Two attempts never get one provider id: who writes an id asks for it first.
LEMMA MutateIds ==
    ASSUME TypeOK, IdsDiffer, NEW r \in Requests, req[r].pc \in AttemptLabels,
           NEW matches, NEW payment, NEW label, Mutate(r, matches, payment, label), Kept,
           matches => \/ payment.providerId = Mine(r).providerId
                      \/ payment.providerId = req[r].id /\ ~Elsewhere(r)
    PROVE  IdsDiffer'
<1>1. req[r].att \in Attempts
  BY AttemptRequest DEF TypeOK
<1>2. CASE UNCHANGED pend
  BY <1>2 DEF IdsDiffer, Pending
<1>3. CASE matches /\ pend' = [pend EXCEPT ![req[r].att] = payment]
  <2>1. pend'[req[r].att] = payment
    BY <1>1, <1>3 DEF TypeOK
  <2>2. \A b \in Attempts : b # req[r].att => pend'[b] = pend[b]
    BY <1>3 DEF TypeOK
  <2>3. Pending' = Pending
    BY DEF Kept
  <2>4. CASE payment.providerId = Mine(r).providerId
    <3>1. \A b \in Attempts : pend'[b].providerId = pend[b].providerId
      BY <2>1, <2>2, <2>4 DEF Mine
    <3>. QED
      BY <2>3, <3>1 DEF IdsDiffer, Pending
  <2>5. CASE payment.providerId = req[r].id /\ ~Elsewhere(r)
    <3>1. \A b \in Pending : b # req[r].att => pend'[b].providerId # pend'[req[r].att].providerId
      BY <2>1, <2>2, <2>5 DEF Elsewhere, Pending
    <3>2. \A b \in Pending : b # req[r].att => pend'[b].providerId = pend[b].providerId
      BY <2>2 DEF Pending
    <3>. QED
      BY <2>3, <3>1, <3>2 DEF IdsDiffer
  <2>. QED
    BY <1>3, <2>4, <2>5
<1>. QED
  BY <1>2, <1>3 DEF Mutate

LEMMA AdvanceIds ==
    ASSUME TypeOK, IdsDiffer, NEW r \in Requests,
           \/ Claim(r) \/ RecordIdentity(r) \/ Bind(r)
           \/ ClaimBooking(r) \/ BindBooking(r) \/ Mark(r)
    PROVE  IdsDiffer'
<1>1. req[r] \in Request /\ req[r].pc \in AttemptLabels
  BY DEF TypeOK, Claim, RecordIdentity, Bind, ClaimBooking, BindBooking, Mark, At,
         AttemptLabels
<1>2. Mine(r) \in Payment
  BY <1>1, AttemptRequest DEF TypeOK, Mine
<1>3. Mine(r) \in [state : Holding \cup {"ABSENT"}, kind : Kinds \cup {None},
                   phone : Phones \cup {None}, providerId : ProviderIds \cup {None},
                   evidence : ProviderIds \cup {None}]
  BY <1>2 DEF Payment, NoPayment
<1>4. Kept
  BY AdvanceKeeps
<1>5. RecordMatches(r) \/ BindBookingMatches(r) => ~Elsewhere(r)
  BY DEF RecordMatches, BindBookingMatches
<1>6. CASE Claim(r)
  BY <1>1, <1>3, <1>4, <1>6, MutateIds DEF Claim
<1>7. CASE RecordIdentity(r)
  BY <1>1, <1>3, <1>4, <1>5, <1>7, MutateIds DEF RecordIdentity
<1>8. CASE Bind(r)
  BY <1>1, <1>3, <1>4, <1>8, MutateIds DEF Bind
<1>9. CASE ClaimBooking(r)
  BY <1>1, <1>3, <1>4, <1>9, MutateIds DEF ClaimBooking
<1>10. CASE BindBooking(r)
  BY <1>1, <1>3, <1>4, <1>5, <1>10, MutateIds DEF BindBooking
<1>11. CASE Mark(r)
  BY <1>1, <1>3, <1>4, <1>11, MutateIds DEF Mark
<1>. QED
  BY <1>6, <1>7, <1>8, <1>9, <1>10, <1>11

LEMMA NextIds ==
    ASSUME TypeOK, Decided, IdsDiffer, [GuardedNext]_vars
    PROVE  IdsDiffer'
<1>1. ASSUME \A a \in Attempts : \/ pend'[a] = pend[a] \/ pend'[a].state = "ABSENT"
                                 \/ pend'[a].providerId = None
      PROVE  IdsDiffer'
  BY <1>1 DEF IdsDiffer, Pending
<1>2. ASSUME NEW r \in Requests, Reserve(r)
      PROVE  IdsDiffer'
  <2>1. ASSUME NEW a \in Attempts, ReserveSucceeds(r, a)
        PROVE  /\ pend'[a].providerId = None
               /\ \A b \in Attempts : b # a => pend'[b] = pend[b]
    BY <2>1 DEF ReserveSucceeds, TypeOK
  <2>2. UNCHANGED pend \/ \E a \in Attempts : ReserveSucceeds(r, a)
    BY <1>2 DEF Reserve
  <2>. QED
    BY <1>1, <2>1, <2>2
<1>3. ASSUME NEW r \in Requests, Finalize(r)
      PROVE  IdsDiffer'
  BY <1>1, <1>3 DEF Finalize, FinalizeSucceeds, TypeOK, NoPayment
<1>4. ASSUME NEW r \in Requests, AppendParticipant(r) \/ AppendWaitlist(r)
      PROVE  IdsDiffer'
  BY <1>1, <1>4 DEF AppendParticipant, AppendWaitlist
<1>5. ASSUME NEW r \in Requests, Begin(r) \/ Step(r) \/ Crash(r)
      PROVE  IdsDiffer'
  BY <1>1, <1>2, <1>3, <1>4, <1>5, QuietWorks, AdvanceIds DEF Step, document
<1>6. ASSUME NEW x, ProviderCreates(x) \/ Pay(x) \/ EditRule(x) \/ EditMaxPlayers(x)
      PROVE  IdsDiffer'
  BY <1>1, <1>6 DEF ProviderCreates, Pay, EditRule, EditMaxPlayers, document
<1>7. ASSUME NEW e \in Editors, NEW a, NEW x, BeginReconcile(e, a, x)
      PROVE  IdsDiffer'
  BY <1>1, <1>7 DEF BeginReconcile, BeginEdit, document
<1>8. ASSUME NEW e \in Editors, WriteReconciled(e)
      PROVE  IdsDiffer'
  <2>. DEFINE a == edit[e].att
  <2>1. CASE UNCHANGED pend
    BY <1>1, <2>1
  <2>2. CASE ReconcileMatches(e) /\ pend' = [pend EXCEPT ![a] = Replacement(e)]
    <3>1. a \in Attempts /\ pend[a] \in Payment /\ pend[a].state = "PROVIDER_RESULT_UNKNOWN"
      BY <1>8, <2>2 DEF WriteReconciled, ReconcileMatches, TypeOK, Edit, Resolutions, Decided
    <3>2. pend[a] \in [state : Holding, kind : Kinds, phone : Phones,
                       providerId : ProviderIds \cup {None}, evidence : ProviderIds \cup {None}]
      BY <3>1 DEF Payment, NoPayment
    <3>3. Replacement(e).providerId = pend[a].providerId
      BY <2>2, <3>2 DEF Replacement, ReconcileMatches
    <3>4. \A b \in Attempts : pend'[b].providerId = pend[b].providerId
      BY <2>2, <3>1, <3>3 DEF TypeOK
    <3>5. Pending' = Pending
      BY <1>8, ReconcileKeeps DEF Kept
    <3>. QED
      BY <3>4, <3>5 DEF IdsDiffer, Pending
  <2>. QED
    BY <1>8, <2>1, <2>2 DEF WriteReconciled
<1>9. CASE UNCHANGED vars
  BY <1>1, <1>9 DEF vars, document
<1>. QED
  BY <1>5, <1>6, <1>7, <1>8, <1>9 DEF GuardedNext

\* A claim gives the right to send for an attempt the phone holds.
LEMMA PosterHolds ==
    ASSUME TypeOK, Counted, Tracked, NEW r \in Requests, Begin(r) \/ Step(r) \/ Crash(r),
           NEW q \in Requests, At(q, "POST")'
    PROVE  /\ req'[q].phone \in Phones /\ req'[q].att \in Attempts
           /\ Holder(req'[q].phone, req'[q].att)
<1>1. CASE req'[q] = req[q]
  <2>1. At(q, "POST") /\ req[q].pc \in AttemptLabels
    BY <1>1 DEF At, AttemptLabels
  <2>. QED
    BY <1>1, <2>1, AttemptRequest DEF Tracked, TypeOK
<1>2. CASE q = r /\ (Claim(r) \/ ClaimBooking(r))
  <2>1. req[r].pc \in AttemptLabels
    BY <1>2 DEF Claim, ClaimBooking, At, AttemptLabels
  <2>2. Goto(r, "POST") /\ Mine(r).state # "ABSENT"
    <3>1. req'[r].pc = "POST"
      BY <1>2 DEF At
    <3>2. ~Finish(r)
      BY <3>1 DEF Finish, Idle, TypeOK
    <3>. QED
      BY <1>2, <3>2 DEF Claim, ClaimBooking, Mutate, ClaimMatches, ClaimBookingMatches
  <2>3. req'[r].att = req[r].att /\ req'[r].phone = req[r].phone
    BY <2>1, <2>2, AttemptRequest DEF Goto, TypeOK
  <2>4. req[r].att \in Attempts /\ req[r].phone \in Phones
    BY <2>1, AttemptRequest DEF TypeOK
  <2>5. req[r].att \in Pending /\ pend[req[r].att].phone = req[r].phone
    BY <2>2, <2>4 DEF Mine, Pending, Counted, OwnAttempt
  <2>. QED
    BY <1>2, <2>3, <2>4, <2>5 DEF Holder
<1>. QED
  BY <1>1, <1>2, MarkedBy DEF At

\* A step that sends nothing and creates nothing.
LEMMA TrackedKept ==
    ASSUME TypeOK, TypeOK', Decided, Counted, Backed', Tracked, [GuardedNext]_vars,
           UNCHANGED <<wire, posts>>,
           \A i \in ProviderIds : Booking(i)' => provider'[i] = provider[i],
           \A q \in Requests : At(q, "POST")' =>
              /\ req'[q].phone \in Phones /\ req'[q].att \in Attempts
              /\ Holder(req'[q].phone, req'[q].att)
    PROVE  Tracked'
<1>1. [GuardedNext]_vars => [Next]_vars
  BY DEF Next
<1>2. Lasting
  BY <1>1, NextLasting
<1>3. \A p \in Phones, a \in Attempts : Holder(p, a) => Holder(p, a)'
  BY HolderStays
<1>4. IdsDiffer'
  BY NextIds DEF Tracked
<1>5. Remembered'
  BY <1>2, RememberedStays DEF Tracked, Remembered
<1>6. OneBooking'
  BY DEF Tracked, OneBooking, Booking
<1>7. \A w \in wire' : Holder(w.phone, w.att)' /\ posts'[w.att] > 0
  BY <1>3 DEF Tracked, TypeOK, Message
<1>8. \A w, v \in wire' : w.att = v.att => w = v
  BY DEF Tracked
<1>9. ASSUME NEW i \in ProviderIds, Booking(i)'
      PROVE  \E a \in Attempts : /\ Holder(provider[i].phone, a)' /\ posts'[a] > 0
                                 /\ \A w \in wire' : w.att # a
  <2>1. provider'[i] = provider[i] /\ Booking(i)
    BY <1>9 DEF Booking
  <2>2. PICK a \in Attempts : /\ Holder(provider[i].phone, a) /\ posts[a] > 0
                              /\ \A w \in wire : w.att # a
    BY <2>1 DEF Tracked
  <2>3. PICK p \in Phones : p = provider[i].phone
    <3>1. pend[a] \in Payment /\ (a \in Pending => pend[a].state # "ABSENT")
      BY DEF TypeOK, Pending
    <3>2. \A s \in participants : s.phone \in Phones
      BY DEF TypeOK, Seat
    <3>. QED
      BY <2>2, <3>1, <3>2, PaymentFields DEF Holder
  <2>4. Holder(p, a)'
    BY <1>3, <2>2, <2>3
  <2>5. Holder(provider[i].phone, a)'
    BY <2>1, <2>3, <2>4 DEF Holder
  <2>. QED
    BY <2>2, <2>5
<1>10. ASSUME NEW q \in Requests, At(q, "POST")'
       PROVE  Holder(req[q].phone, req[q].att)'
  <2>1. PICK p \in Phones, a \in Attempts : p = req'[q].phone /\ a = req'[q].att
    BY <1>10
  <2>2. Holder(p, a)'
    BY <1>3, <1>10, <2>1
  <2>. QED
    BY <2>1, <2>2 DEF Holder
<1>. QED
  BY <1>4, <1>5, <1>6, <1>7, <1>8, <1>9, <1>10 DEF Tracked

\* The one POST of an attempt.
LEMMA PostTracked ==
    ASSUME TypeOK, TypeOK', ClaimHeldOnce, Backed, Tracked, NEW r \in Requests, Post(r)
    PROVE  Tracked'
<1>1. req[r].pc \in AttemptLabels
  BY DEF Post, At, AttemptLabels
<1>. DEFINE a == req[r].att
            p == req[r].phone
            m == [att |-> a, phone |-> p, kind |-> req[r].kind]
<1>2. a \in Attempts /\ p \in Phones /\ posts[a] = 0 /\ Holder(p, a)
  BY <1>1, AttemptRequest DEF TypeOK, Post, ClaimHeldOnce, Tracked
<1>3. UNCHANGED <<participants, pend, provider, settled>>
  BY DEF Post, document
<1>4. posts'[a] = 1 /\ \A b \in Attempts : b # a => posts'[b] = posts[b]
  BY <1>2 DEF Post, TypeOK
<1>5. \A x, y : Holder(x, y)' <=> Holder(x, y)
  BY <1>3 DEF Holder, Pending
<1>6. \A w : w \in wire' <=> w \in wire \/ w = m
  BY DEF Post
<1>7. m.att = a /\ m.phone = p
  OBVIOUS
<1>8. \A w \in wire : w.att \in Attempts /\ w.att # a
  BY <1>2 DEF Tracked, TypeOK, Message
<1>9. IdsDiffer' /\ OneBooking'
  BY <1>3 DEF Tracked, IdsDiffer, OneBooking, Booking, Pending
<1>10. Remembered'
  <2>1. a \in Pending \/ \E s \in settled : s.att = a
    <3>1. CASE [phone |-> p, att |-> a] \in participants
      <4>1. SeatPaid([phone |-> p, att |-> a])
        BY <3>1 DEF Backed
      <4>. QED
        BY <1>2, <4>1, NoneAssumption DEF SeatPaid
    <3>. QED
      BY <1>2, <3>1 DEF Holder
  <2>. QED
    BY <1>3, <1>4, <2>1 DEF Tracked, Remembered, Pending
<1>. HIDE DEF m
<1>11. \A w \in wire' : Holder(w.phone, w.att)' /\ posts'[w.att] > 0
  BY <1>2, <1>4, <1>5, <1>6, <1>7, <1>8 DEF Tracked
<1>12. \A w, v \in wire' : w.att = v.att => w = v
  BY <1>6, <1>7, <1>8 DEF Tracked
<1>13. ASSUME NEW i \in ProviderIds, Booking(i)'
       PROVE  \E b \in Attempts : /\ Holder(provider[i].phone, b)' /\ posts'[b] > 0
                                  /\ \A w \in wire' : w.att # b
  <2>1. PICK b \in Attempts : /\ Holder(provider[i].phone, b) /\ posts[b] > 0
                              /\ \A w \in wire : w.att # b
    BY <1>3, <1>13 DEF Tracked, Booking
  <2>2. b # a
    BY <1>2, <2>1
  <2>3. Holder(provider[i].phone, b)'
    BY <1>3, <2>1 DEF Holder, Pending
  <2>. QED
    BY <1>4, <1>6, <1>7, <2>1, <2>2, <2>3
<1>14. ASSUME NEW q \in Requests, At(q, "POST")'
       PROVE  Holder(req[q].phone, req[q].att)'
  <2>1. req'[q] = req[q]
    <3>1. req'[r].pc # "POST"
      BY <1>1, AttemptRequest DEF Post, Goto, TypeOK
    <3>. QED
      BY <1>14, <3>1 DEF Post, Goto, TypeOK, At
  <2>2. Holder(req[q].phone, req[q].att)
    BY <1>14, <2>1 DEF Tracked, At
  <2>. QED
    BY <1>3, <2>1, <2>2 DEF Holder, Pending
<1>. QED
  BY <1>9, <1>10, <1>11, <1>12, <1>13, <1>14 DEF Tracked

\* The provider creates a booking for an attempt that has no other.
LEMMA ProviderTracked ==
    ASSUME TypeOK, TypeOK', Counted, Tracked, NEW w \in wire, ProviderCreates(w)
    PROVE  Tracked'
<1>1. UNCHANGED <<participants, pend, req, posts, settled>> /\ wire' = wire \ {w}
  BY DEF ProviderCreates, document
<1>2. \A x, y : Holder(x, y)' <=> Holder(x, y)
  BY <1>1 DEF Holder, Pending
<1>3. IdsDiffer' /\ Remembered'
  BY <1>1 DEF Tracked, IdsDiffer, Remembered, Pending
<1>4. /\ \A v \in wire' : Holder(v.phone, v.att)' /\ posts'[v.att] > 0
      /\ \A u, v \in wire' : u.att = v.att => u = v
  BY <1>1, <1>2 DEF Tracked
<1>5. \A r \in Requests : At(r, "POST")' => Holder(req[r].phone, req[r].att)'
  BY <1>1 DEF Tracked, At, Holder, Pending
<1>6. \A i \in ProviderIds : provider'[i] = provider[i] =>
         (Holder(provider[i].phone, w.att)' <=> Holder(provider[i].phone, w.att))
  BY <1>1 DEF Holder, Pending
<1>7. ASSUME NEW i \in ProviderIds, Booking(i)', provider'[i] = provider[i]
      PROVE  \E a \in Attempts : /\ Holder(provider[i].phone, a)' /\ posts'[a] > 0
                                 /\ \A v \in wire' : v.att # a
  <2>1. PICK a \in Attempts : /\ Holder(provider[i].phone, a) /\ posts[a] > 0
                              /\ \A v \in wire : v.att # a
    BY <1>7 DEF Tracked, Booking
  <2>2. Holder(provider[i].phone, a)'
    BY <1>1, <1>7, <2>1 DEF Holder, Pending
  <2>. QED
    BY <1>1, <2>1, <2>2
<1>8. CASE \A i \in ProviderIds : Booking(i)' => provider'[i] = provider[i]
  <2>1. OneBooking'
    BY <1>8 DEF Tracked, OneBooking, Booking
  <2>. QED
    BY <1>3, <1>4, <1>5, <1>7, <1>8, <2>1 DEF Tracked
<1>9. ASSUME NEW i \in ProviderIds, provider[i].status = "FREE",
             provider' = [provider EXCEPT ![i] = [status |-> "ACTIVE", phone |-> w.phone]]
      PROVE  Tracked'
  <2>1. w.att \in Attempts /\ w.phone \in Phones /\ Holder(w.phone, w.att) /\ posts[w.att] > 0
    BY DEF Tracked, TypeOK, Message
  <2>2. /\ provider'[i] = [status |-> "ACTIVE", phone |-> w.phone]
        /\ \A j \in ProviderIds : j # i => provider'[j] = provider[j]
    BY <1>9 DEF TypeOK
  <2>3. ASSUME NEW j \in ProviderIds, j # i, Booking(j), provider[j].phone = w.phone
        PROVE  FALSE
    <3>1. PICK a \in Attempts : Holder(w.phone, a) /\ \A v \in wire : v.att # a
      BY <2>3 DEF Tracked
    <3>2. a = w.att
      BY <2>1, <3>1, OneHolder
    <3>. QED
      BY <3>1, <3>2
  <2>4. OneBooking'
    <3>1. \A j \in ProviderIds : j # i /\ Booking(j) => provider[j] # provider'[i]
      BY <2>2, <2>3
    <3>2. ~Booking(i)
      BY <1>9 DEF Booking
    <3>3. ASSUME NEW j \in ProviderIds, NEW k \in ProviderIds, Booking(j)', provider'[k] = provider'[j]
          PROVE  j = k
      <4>1. CASE j = i
        BY <2>2, <3>1, <3>3, <4>1 DEF Booking
      <4>2. CASE k = i /\ j # i
        BY <2>2, <3>1, <3>3, <4>2 DEF Booking
      <4>3. CASE j # i /\ k # i
        BY <2>2, <3>3, <4>3 DEF Tracked, OneBooking, Booking
      <4>. QED
        BY <4>1, <4>2, <4>3
    <3>. QED
      BY <3>3 DEF OneBooking
  <2>5. \E a \in Attempts : /\ Holder(provider[i].phone, a)' /\ posts'[a] > 0
                            /\ \A v \in wire' : v.att # a
    <3>1. Holder(provider[i].phone, w.att)'
      BY <1>1, <2>1, <2>2 DEF Holder, Pending
    <3>2. \A v \in wire' : v.att # w.att
      BY <1>1 DEF Tracked
    <3>. QED
      BY <1>1, <2>1, <3>1, <3>2
  <2>. QED
    BY <1>3, <1>4, <1>5, <1>7, <2>2, <2>4, <2>5 DEF Tracked
<1>10. \/ \A i \in ProviderIds : Booking(i)' => provider'[i] = provider[i]
       \/ \E i \in ProviderIds :
             /\ provider[i].status = "FREE"
             /\ provider' = [provider EXCEPT ![i] = [status |-> "ACTIVE", phone |-> w.phone]]
  <2>1. PICK i \in ProviderIds :
          \/ /\ provider[i].status = "FREE"
             /\ provider' = [provider EXCEPT ![i] =
                   [status |-> IF w.kind = "TRANSACTION" THEN "UNPAID" ELSE "ACTIVE",
                    phone |-> w.phone]]
          \/ UNCHANGED provider
    BY DEF ProviderCreates
  <2>2. CASE UNCHANGED provider
    BY <2>2
  <2>3. CASE /\ w.kind = "TRANSACTION"
             /\ provider' = [provider EXCEPT ![i] = [status |-> "UNPAID", phone |-> w.phone]]
    BY <2>3 DEF Booking, TypeOK
  <2>4. CASE /\ w.kind # "TRANSACTION" /\ provider[i].status = "FREE"
             /\ provider' = [provider EXCEPT ![i] = [status |-> "ACTIVE", phone |-> w.phone]]
    BY <2>4
  <2>. QED
    BY <2>1, <2>2, <2>3, <2>4
<1>. QED
  BY <1>8, <1>9, <1>10

\* What was settled sits: the attempt leaves the document for the seat of its phone.
SettledSits == \A f \in settled : [phone |-> f.phone, att |-> f.att] \in participants

LEMMA InitSits == Init => SettledSits
BY DEF Init, SettledSits

LEMMA NextSits == TypeOK /\ SettledSits /\ [GuardedNext]_vars => SettledSits'
<1>. SUFFICES ASSUME TypeOK, SettledSits, [GuardedNext]_vars PROVE SettledSits'
  OBVIOUS
<1>1. participants \subseteq participants'
  BY SeatsStay
<1>2. CASE UNCHANGED settled
  BY <1>1, <1>2 DEF SettledSits
<1>3. ASSUME NEW r \in Requests, FinalizeSucceeds(r)
      PROVE  SettledSits'
  <2>1. PICK f : f = [att |-> req[r].att, phone |-> req[r].phone, id |-> Mine(r).evidence]
    OBVIOUS
  <2>2. settled' = settled \cup {f} /\ f.att = req[r].att /\ f.phone = req[r].phone
    BY <1>3, <2>1 DEF FinalizeSucceeds
  <2>3. [phone |-> f.phone, att |-> f.att] \in participants'
    BY <1>3, <2>2 DEF FinalizeSucceeds
  <2>. QED
    BY <1>1, <2>2, <2>3 DEF SettledSits
<1>4. ASSUME NEW r \in Requests, Begin(r) \/ Step(r) \/ Crash(r)
      PROVE  UNCHANGED settled \/ FinalizeSucceeds(r)
  BY <1>4 DEF Begin, Crash, BeginPurchase, BeginConfirm, BeginRegister, BeginWaitlist,
     Step, Reserve, Reread, Claim, Post, Receive, RecordIdentity, Bind, List, ClaimBooking,
     BindBooking, VerifyBooking, Verify, Mark, Finalize, AppendParticipant,
     AppendWaitlist, Mutate
<1>5. ASSUME NEW x, ProviderCreates(x) \/ Pay(x) \/ EditRule(x) \/ EditMaxPlayers(x)
      PROVE  UNCHANGED settled
  BY <1>5 DEF ProviderCreates, Pay, EditRule, EditMaxPlayers
<1>6. ASSUME NEW e, NEW a, NEW x, BeginReconcile(e, a, x) \/ WriteReconciled(e)
      PROVE  UNCHANGED settled
  BY <1>6 DEF BeginReconcile, BeginEdit, WriteReconciled
<1>7. CASE UNCHANGED vars
  BY <1>2, <1>7 DEF vars
<1>. QED
  BY <1>2, <1>3, <1>4, <1>5, <1>6, <1>7 DEF GuardedNext

\* Two seats on one payment: only on a transaction that both attempts were given.
LEMMA SharedOnlyIfGiven ==
    ASSUME Counted, Backed, SettledSits, NEW f \in settled, NEW g \in settled,
           f.id = g.id, f.att # g.att
    PROVE  f.id \in answer[f.att] \cap answer[g.att]
<1>1. Backs(f.id, f.att, f.phone) /\ Backs(f.id, g.att, g.phone)
  BY DEF Backed
<1>2. ASSUME f.phone = g.phone
      PROVE  FALSE
  <2>1. PICK s, t : /\ s = [phone |-> f.phone, att |-> f.att]
                    /\ t = [phone |-> g.phone, att |-> g.att]
    OBVIOUS
  <2>2. s \in participants /\ t \in participants /\ s.phone = t.phone /\ s.att # t.att
    BY <1>2, <2>1 DEF SettledSits
  <2>. QED
    BY <2>2 DEF Counted, PlacesHeld, OncePerPhone
<1>3. CASE provider[f.id] = [status |-> "ACTIVE", phone |-> f.phone]
  BY <1>1, <1>2, <1>3 DEF Backs
<1>4. CASE provider[f.id] = [status |-> "ACTIVE", phone |-> g.phone]
  BY <1>1, <1>2, <1>4 DEF Backs
<1>. QED
  BY <1>1, <1>3, <1>4 DEF Backs

LEMMA NextTracked ==
    TypeOK /\ TypeOK' /\ Decided /\ Counted /\ ClaimHeldOnce /\ Backed /\ Backed' /\ Tracked
        /\ [GuardedNext]_vars => Tracked'
<1>. SUFFICES ASSUME TypeOK, TypeOK', Decided, Counted, ClaimHeldOnce, Backed, Backed',
                     Tracked, [GuardedNext]_vars
              PROVE  Tracked'
  OBVIOUS
<1>1. ASSUME UNCHANGED <<req, wire, posts>>,
             \A i \in ProviderIds : Booking(i)' => provider'[i] = provider[i]
      PROVE  Tracked'
  <2>1. \A q \in Requests : At(q, "POST")' =>
           /\ req'[q].phone \in Phones /\ req'[q].att \in Attempts
           /\ Holder(req'[q].phone, req'[q].att)
    BY <1>1, AttemptRequest DEF Tracked, At, TypeOK, AttemptLabels
  <2>. QED
    BY <1>1, <2>1, TrackedKept
<1>2. ASSUME NEW r \in Requests, Begin(r) \/ Step(r) \/ Crash(r)
      PROVE  Tracked'
  <2>1. CASE Post(r)
    BY <2>1, PostTracked
  <2>2. CASE UNCHANGED <<wire, posts, provider>>
    BY <1>2, <2>2, PosterHolds, TrackedKept
  <2>3. Post(r) \/ UNCHANGED <<wire, posts, provider>>
    BY <1>2 DEF Begin, Crash, BeginPurchase, BeginConfirm, BeginRegister, BeginWaitlist,
       Step, Reserve, Reread, Claim, Receive, RecordIdentity, Bind, List, ClaimBooking,
       BindBooking, VerifyBooking, Verify, Mark, Finalize, AppendParticipant,
       AppendWaitlist, Mutate, external
  <2>. QED
    BY <2>1, <2>2, <2>3
<1>3. ASSUME NEW i \in ProviderIds, Pay(i)
      PROVE  Tracked'
  <2>1. \A j \in ProviderIds : Booking(j)' => provider'[j] = provider[j]
    BY <1>3 DEF Pay, Booking, TypeOK, Object
  <2>. QED
    BY <1>1, <1>3, <2>1 DEF Pay
<1>4. ASSUME NEW x, EditRule(x) \/ EditMaxPlayers(x)
      PROVE  Tracked'
  BY <1>1, <1>4 DEF EditRule, EditMaxPlayers, external
<1>5. ASSUME NEW e \in Editors, NEW a, NEW x, BeginReconcile(e, a, x) \/ WriteReconciled(e)
      PROVE  Tracked'
  BY <1>1, <1>5 DEF BeginReconcile, BeginEdit, WriteReconciled, external
<1>6. CASE UNCHANGED vars
  BY <1>1, <1>6 DEF vars, external
<1>. QED
  BY <1>2, <1>3, <1>4, <1>5, <1>6, ProviderTracked DEF GuardedNext

\* What may exist at the provider is never forgotten, two attempts saved at once
\* never share an id even when the provider repeats one, nobody is booked twice,
\* and two seats stand on one payment only if the provider gave it to both.
THEOREM PaymentsAreTracked == GuardedSpec => []PaymentsTracked
<1>1. [GuardedNext]_vars => [Next]_vars
  BY DEF Next
<1>2. Tracked /\ Counted /\ Backed /\ SettledSits => PaymentsTracked
  BY SharedOnlyIfGiven
  DEF Tracked, PaymentsTracked, IdsDiffer, Remembered, OneBooking, Booking
<1>. QED
  BY <1>1, <1>2, InitType, NextType, InitDecided, NextDecided, InitCounted, NextCounted,
     InitClaim, NextClaim, InitOwner, NextOwner, InitGiven, NextGiven, InitBacked, NextBacked,
     InitTracked, NextTracked, InitSits, NextSits, PTL DEF GuardedSpec
=============================================================================
