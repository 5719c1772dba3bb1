--------------------------- MODULE BillingProofs ---------------------------
(***************************************************************************)
(* Proofs about Billing, for every set of plans, subscriptions, customers  *)
(* and sessions, and whatever the trial, the grace period and the bounds.  *)
(***************************************************************************)
EXTENDS Billing, SequenceTheorems, TLAPS

-----------------------------------------------------------------------------
(* Rows.                                                                   *)

LEMMA PickType ==
  ASSUME NEW a \in SubRow, NEW b \in SubRow, NEW wrote
  PROVE  Pick(a, b, wrote) \in SubRow
<1>1. /\ (IF "plan" \in wrote THEN a.plan ELSE b.plan) \in Plans
      /\ (IF "status" \in wrote THEN a.status ELSE b.status)
            \in {"trialing", "active", "past_due", "canceled"}
      /\ (IF "cust" \in wrote THEN a.cust ELSE b.cust) \in Custs \cup {None}
      /\ (IF "subId" \in wrote THEN a.subId ELSE b.subId) \in Subs \cup {None}
  BY Zenon DEF SubRow
<1>2. /\ (IF "pending" \in wrote THEN a.pending ELSE b.pending) \in Plans \cup {None}
      /\ (IF "trialEnds" \in wrote THEN a.trialEnds ELSE b.trialEnds) \in Nat \cup {None}
      /\ (IF "grace" \in wrote THEN a.grace ELSE b.grace) \in Nat \cup {None}
      /\ (IF "cancel" \in wrote THEN a.cancel ELSE b.cancel) \in BOOLEAN
  BY Zenon DEF SubRow
<1>3. QED
  BY <1>1, <1>2, Zenon DEF Pick, SubRow

LEMMA TrialType == Trial \in SubRow
  BY BillingConstants, Zenon DEF Trial, SubRow

LEMMA ClosedType == Closed \in Session
  BY TrialType, Zenon DEF Closed, Session, Columns

\* The row every handler wants is a well-typed row.
LEMMA OutcomeType ==
  ASSUME sub \in SubRow, clock \in Nat, NEW e \in Event,
         e.type = "completed" => e.plan \in Plans
  PROVE  Outcome(e) \in SubRow
<1>1. /\ sub.plan \in Plans /\ sub.pending \in Plans \cup {None}
      /\ sub.grace \in Nat \cup {None}
      /\ e.sub \in Subs /\ e.cust \in Custs
  BY DEF SubRow, Event
<1>2. clock + GraceDays \in Nat
  BY BillingConstants
<1>3. e.type = "completed" => OnCompleted(e) \in SubRow
  BY <1>1, Zenon DEF OnCompleted, SubRow
<1>4. OnUpdated(e) \in SubRow
  <2> DEFINE status    == StatusMap[e.status]
             recovered == status \in {"active", "trialing"}
             grace     == CASE recovered -> None
                            [] status = "past_due" /\ sub.grace = None -> clock + GraceDays
                            [] OTHER -> sub.grace
             plan      == IF recovered /\ sub.pending # None THEN sub.pending ELSE sub.plan
             pending   == IF recovered THEN None ELSE sub.pending
  <2>1. status \in {"trialing", "active", "past_due", "canceled"}
    BY DEF Event, StatusMap
  <2>2. grace \in Nat \cup {None} /\ plan \in Plans /\ pending \in Plans \cup {None}
    BY <1>1, <1>2
  <2>3. OnUpdated(e) = [sub EXCEPT !.status = status, !.grace = grace,
                                   !.plan = plan, !.pending = pending]
    BY Zenon DEF OnUpdated
  <2> HIDE DEF status, grace, plan, pending
  <2>4. [sub EXCEPT !.status = status, !.grace = grace,
                    !.plan = plan, !.pending = pending] \in SubRow
    BY <2>1, <2>2, Zenon DEF SubRow
  <2>5. QED
    BY <2>3, <2>4
<1>5. OnFailed \in SubRow
  BY <1>2, Zenon DEF OnFailed, SubRow
<1>6. OnPaid \in SubRow /\ OnDeleted \in SubRow
  BY Zenon DEF OnPaid, OnDeleted, SubRow
<1>7. QED
  BY <1>3, <1>4, <1>5, <1>6 DEF Outcome

-----------------------------------------------------------------------------
(* The inductive invariant.                                                *)

PaidColumns == {"plan", "status", "subId", "trialEnds", "grace"}

\* A completed checkout carries its plan, and Stripe only reports
\* subscriptions that have been bought.
EventInv ==
    \A i \in Issued :
      /\ events[i].type = "completed" => events[i].plan \in Plans
      /\ stripe[events[i].sub].state # "none"

\* An open session holds an issued event nobody has applied, or is a request
\* and will not write a paid column.
SessionInv ==
    \A w \in Slots : session[w].open =>
      \/ session[w].event \in Issued \ ledger
      \/ session[w].event = 0 /\ session[w].wrote \cap PaidColumns = {}

\* No two open sessions hold the same event.
ClaimInv ==
    \A v, w \in Slots :
      (session[v].open /\ session[w].open /\ session[v].event # 0
         /\ session[v].event = session[w].event) => v = w

LedgerInv ==
    /\ Len(events) <= MaxEvents
    /\ ledger \subseteq Issued
    /\ \A i \in EventIds : effects[i] = IF i \in ledger THEN 1 ELSE 0

StripeInv == \A s \in Subs : stripe[s].state # "none" => stripe[s].cust \in Custs

EarnedInv == sub.status # "trialing" => ledger # {}

IInv ==
    /\ TypeOK
    /\ EventInv /\ SessionInv /\ ClaimInv /\ LedgerInv /\ EarnedInv /\ StripeInv

LEMMA InvInit == Init => IInv
<1> SUFFICES ASSUME Init PROVE IInv
  OBVIOUS
<1> USE DEF Init
<1>1. TypeOK
  <2>1. sub \in SubRow /\ session \in [Slots -> Session]
    BY TrialType, ClosedType
  <2>2. stripe \in [Subs -> StripeSub]
    BY DEF StripeSub
  <2>3. events \in Seq(Event)
    BY EmptySeq
  <2>4. QED
    BY <2>1, <2>2, <2>3 DEF TypeOK
<1>2. Len(events) = 0 /\ Issued = {}
  BY EmptySeq DEF Issued
<1>3. EventInv /\ SessionInv /\ ClaimInv /\ EarnedInv /\ StripeInv
  BY <1>2 DEF EventInv, SessionInv, ClaimInv, EarnedInv, StripeInv, Closed, Trial
<1>4. LedgerInv
  BY <1>2, BillingConstants DEF LedgerInv
<1>5. QED
  BY <1>1, <1>3, <1>4 DEF IInv

-----------------------------------------------------------------------------
(* Opening a session.                                                      *)

LEMMA IssuedType ==
  ASSUME TypeOK
  PROVE  \A i \in Issued : events[i] \in Event /\ events[i].sub \in Subs
<1> SUFFICES ASSUME NEW i \in Issued
             PROVE  events[i] \in Event /\ events[i].sub \in Subs
  OBVIOUS
<1>1. events \in Seq(Event) /\ i \in 1..Len(events)
  BY DEF TypeOK, Issued
<1>2. events[i] \in Event
  BY <1>1, ElementOfSeq
<1>3. QED
  BY <1>2 DEF Event

LEMMA OpenType ==
  ASSUME TypeOK, NEW w \in Slots, NEW event \in Nat, NEW new \in SubRow,
         NEW stamped \in SUBSET Columns, NEW page \in SUBSET Offer,
         Open(w, event, new, stamped, page)
  PROVE  session' \in [Slots -> Session]
<1> DEFINE s == [open  |-> TRUE, event |-> event,
                 new   |-> Pick(new, Trial, Written(new, stamped)),
                 wrote |-> Written(new, stamped), page |-> page]
<1>1. Written(new, stamped) \in SUBSET Columns
  BY DEF Written
<1>2. Pick(new, Trial, Written(new, stamped)) \in SubRow
  BY PickType, TrialType
<1>3. s \in Session
  BY <1>1, <1>2, Zenon DEF Session
<1>4. QED
  BY <1>3 DEF TypeOK, Open

LEMMA OpenEffect ==
  ASSUME TypeOK, NEW w \in Slots, NEW event, NEW new, NEW stamped, NEW page,
         Open(w, event, new, stamped, page)
  PROVE  /\ ~session[w].open
         /\ session'[w].open /\ session'[w].event = event
         /\ session'[w].wrote = Written(new, stamped)
         /\ \A v \in Slots : v # w => session'[v] = session[v]
  BY DEF TypeOK, Open

\* A request leaves the paid columns of the row as it loaded them.
RequestRow(new) ==
    /\ new \in SubRow
    /\ \A c \in PaidColumns : new[c] = sub[c]

LEMMA RequestKeeps ==
  ASSUME IInv, NEW w \in Slots, NEW new, RequestRow(new),
         NEW page \in SUBSET Offer, Request(w, new, page),
         customers' \in SUBSET Custs, stripe' \in [Subs -> StripeSub],
         \A s \in Subs : /\ stripe'[s].state = stripe[s].state
                         /\ stripe'[s].cust = stripe[s].cust
  PROVE  IInv'
<1>1. /\ TypeOK /\ Open(w, 0, new, {}, page) /\ requests' = requests + 1
      /\ UNCHANGED <<sub, ledger, offers, events, clock, effects, tidy>>
  BY DEF IInv, Request
<1>2. TypeOK'
  <2>1. session' \in [Slots -> Session]
    BY <1>1, OpenType DEF RequestRow
  <2>2. QED
    BY <1>1, <2>1 DEF TypeOK
<1>3. /\ session'[w].open /\ session'[w].event = 0
      /\ session'[w].wrote = Written(new, {})
      /\ \A v \in Slots : v # w => session'[v] = session[v]
  BY <1>1, OpenEffect
<1>4. Written(new, {}) \cap PaidColumns = {}
  BY DEF Written, RequestRow
<1>5. Issued' = Issued
  BY <1>1 DEF Issued
<1>6. SessionInv' /\ ClaimInv'
  BY <1>1, <1>3, <1>4, <1>5 DEF IInv, SessionInv, ClaimInv
<1>7. LedgerInv' /\ EarnedInv' /\ StripeInv'
  BY <1>1, <1>5 DEF IInv, LedgerInv, EarnedInv, StripeInv
<1>8. EventInv'
  <2>1. \A i \in Issued : events[i].sub \in Subs
    BY <1>1, IssuedType
  <2>2. QED
    BY <1>1, <1>5, <2>1 DEF IInv, EventInv
<1>9. QED
  BY <1>2, <1>6, <1>7, <1>8 DEF IInv

LEMMA CheckoutKeeps ==
  ASSUME IInv, NEW w \in Slots, NEW p \in Plans, BeginCheckout(w, p)
  PROVE  IInv'
<1>1. PICK c \in IF sub.cust = None THEN Custs \ customers ELSE {sub.cust} :
        /\ customers' = customers \cup {c}
        /\ Request(w, [sub EXCEPT !.cust = c, !.pending = p],
                   {[cust |-> c, plan |-> p]})
        /\ UNCHANGED stripe
  BY DEF BeginCheckout
<1> DEFINE new == [sub EXCEPT !.cust = c, !.pending = p]
<1>2. TypeOK /\ sub \in SubRow /\ c \in Custs
  BY DEF IInv, TypeOK, SubRow
<1>3. RequestRow(new)
  <2>1. new \in SubRow
    BY <1>2, Zenon DEF SubRow
  <2>2. \A col \in PaidColumns : new[col] = sub[col]
    BY <1>2 DEF PaidColumns, SubRow
  <2>3. QED
    BY <2>1, <2>2 DEF RequestRow
<1>4. QED
  BY <1>1, <1>2, <1>3, RequestKeeps DEF TypeOK, Offer

LEMMA ChangePlanKeeps ==
  ASSUME IInv, NEW w \in Slots, NEW p \in Plans, BeginChangePlan(w, p)
  PROVE  IInv'
<1> DEFINE new == [sub EXCEPT !.pending = p]
<1>1. TypeOK /\ sub \in SubRow /\ sub.subId \in Subs
  BY DEF IInv, TypeOK, SubRow, BeginChangePlan
<1>2. RequestRow(new)
  <2>1. new \in SubRow
    BY <1>1, Zenon DEF SubRow
  <2>2. \A col \in PaidColumns : new[col] = sub[col]
    BY <1>1 DEF PaidColumns, SubRow
  <2>3. QED
    BY <2>1, <2>2 DEF RequestRow
<1>3. /\ stripe' \in [Subs -> StripeSub]
      /\ \A s \in Subs : /\ stripe'[s].state = stripe[s].state
                         /\ stripe'[s].cust = stripe[s].cust
  BY <1>1 DEF TypeOK, StripeSub, BeginChangePlan
<1>4. QED
  BY <1>1, <1>2, <1>3, RequestKeeps DEF TypeOK, BeginChangePlan

LEMMA CancelKeeps ==
  ASSUME IInv, NEW w \in Slots, BeginCancel(w)
  PROVE  IInv'
<1> DEFINE new == [sub EXCEPT !.cancel = TRUE]
<1>1. TypeOK /\ sub \in SubRow
  BY DEF IInv, TypeOK
<1>2. RequestRow(new)
  <2>1. new \in SubRow
    BY <1>1, Zenon DEF SubRow
  <2>2. \A col \in PaidColumns : new[col] = sub[col]
    BY <1>1 DEF PaidColumns, SubRow
  <2>3. QED
    BY <2>1, <2>2 DEF RequestRow
<1>3. /\ stripe' \in [Subs -> StripeSub]
      /\ \A s \in Subs : /\ stripe'[s].state = stripe[s].state
                         /\ stripe'[s].cust = stripe[s].cust
  <2>1. CASE UNCHANGED stripe
    BY <1>1, <2>1 DEF TypeOK
  <2>2. CASE /\ sub.subId # None
             /\ stripe' = [stripe EXCEPT ![sub.subId].cancel = TRUE]
    <3>1. sub.subId \in Subs
      BY <1>1, <2>2 DEF SubRow
    <3>2. QED
      BY <1>1, <2>2, <3>1 DEF TypeOK, StripeSub
  <2>3. QED
    BY <2>1, <2>2 DEF BeginCancel
<1>4. QED
  BY <1>1, <1>2, <1>3, RequestKeeps DEF TypeOK, BeginCancel

LEMMA EventKeeps ==
  ASSUME IInv, NEW w \in Slots, NEW i \in EventIds, BeginEvent(w, i)
  PROVE  IInv'
<1> DEFINE e == events[i]
           stamped == IF e.type = "failed" /\ Finds(e) THEN {"grace"} ELSE {}
<1>1. /\ TypeOK /\ i \in Issued \ ledger /\ i # 0 /\ i \in Nat
      /\ ~ \E v \in Slots : session[v].open /\ session[v].event = i
      /\ Open(w, i, Outcome(e), stamped, {})
      /\ UNCHANGED <<sub, ledger, offers, customers, stripe, events, clock,
                     requests, effects, tidy>>
  BY DEF IInv, BeginEvent, EventIds
<1>2. Outcome(e) \in SubRow
  BY <1>1, IssuedType, OutcomeType DEF IInv, EventInv, TypeOK
<1>3. stamped \in SUBSET Columns
  BY DEF Columns
<1>4. TypeOK'
  <2>1. session' \in [Slots -> Session]
    BY <1>1, <1>2, <1>3, OpenType
  <2>2. QED
    BY <1>1, <2>1 DEF TypeOK
<1>5. /\ session'[w].open /\ session'[w].event = i
      /\ \A v \in Slots : v # w => session'[v] = session[v]
  BY <1>1, OpenEffect
<1>6. Issued' = Issued
  BY <1>1 DEF Issued
<1>7. SessionInv' /\ ClaimInv'
  BY <1>1, <1>5, <1>6 DEF IInv, SessionInv, ClaimInv
<1>8. LedgerInv' /\ EarnedInv' /\ EventInv' /\ StripeInv'
  BY <1>1, <1>6 DEF IInv, LedgerInv, EarnedInv, EventInv, StripeInv
<1>9. QED
  BY <1>4, <1>7, <1>8 DEF IInv

-----------------------------------------------------------------------------
(* The end of a session.                                                   *)

\* What a commit does to the ledger and the history, and that a request
\* leaves the paid columns alone.
LEMMA CommitEffect ==
  ASSUME IInv, NEW w \in Slots, Commit(w)
  PROVE  \/ /\ session[w].event \in Issued \ ledger
            /\ ledger' = ledger \cup {session[w].event}
            /\ effects[session[w].event] = 0
            /\ effects' = [effects EXCEPT ![session[w].event] = 1]
         \/ /\ session[w].event = 0
            /\ UNCHANGED <<ledger, effects>>
            /\ \A c \in PaidColumns : sub'[c] = sub[c]
<1>1. /\ session[w].open /\ TypeOK
      /\ sub' = Pick(session[w].new, sub, session[w].wrote)
      /\ ledger' = ledger \cup ({session[w].event} \ {0})
      /\ effects' = IF session[w].event = 0 THEN effects
                    ELSE [effects EXCEPT ![session[w].event]
                                           = effects[session[w].event] + 1]
  BY DEF Commit, IInv
<1>2. Len(events) \in Nat /\ MaxEvents \in Nat
  BY <1>1, LenProperties, BillingConstants DEF TypeOK
<1>3. CASE session[w].event \in Issued \ ledger
  <2>1. session[w].event \in EventIds /\ session[w].event # 0
    BY <1>2, <1>3 DEF Issued, EventIds, IInv, LedgerInv
  <2>2. effects[session[w].event] = 0
    BY <1>3, <2>1 DEF IInv, LedgerInv
  <2>3. QED
    BY <1>1, <1>3, <2>1, <2>2
<1>4. CASE session[w].event = 0 /\ session[w].wrote \cap PaidColumns = {}
  <2>1. \A c \in PaidColumns : sub'[c] = sub[c]
    BY <1>1, <1>4 DEF Pick, PaidColumns
  <2>2. QED
    BY <1>1, <1>4, <2>1
<1>5. QED
  BY <1>1, <1>3, <1>4 DEF IInv, SessionInv

LEMMA ClosingKeeps ==
  ASSUME IInv, NEW w \in Slots, session' = [session EXCEPT ![w] = Closed],
         UNCHANGED events, ledger \subseteq ledger',
         ledger' \ ledger \subseteq {session[w].event} \ {0}, session[w].open
  PROVE  session' \in [Slots -> Session] /\ SessionInv' /\ ClaimInv'
<1>1. session' \in [Slots -> Session]
  BY ClosedType DEF IInv, TypeOK
<1>2. /\ ~session'[w].open
      /\ \A v \in Slots : v # w => session'[v] = session[v]
  BY DEF IInv, TypeOK, Closed
<1>3. ClaimInv'
  BY <1>2 DEF IInv, ClaimInv
<1>4. SessionInv'
  <2> SUFFICES ASSUME NEW v \in Slots, session'[v].open
               PROVE  \/ session[v].event \in Issued \ ledger'
                      \/ session[v].event = 0
                           /\ session[v].wrote \cap PaidColumns = {}
    BY <1>2 DEF SessionInv, Issued
  <2>1. v # w /\ session[v].open
    BY <1>2
  <2>2. session[v].event # 0 => session[v].event # session[w].event
    BY <2>1 DEF IInv, ClaimInv
  <2>3. QED
    BY <2>1, <2>2 DEF IInv, SessionInv
<1>5. QED
  BY <1>1, <1>3, <1>4

LEMMA CommitKeeps ==
  ASSUME IInv, NEW w \in Slots, Commit(w)
  PROVE  IInv'
<1>1. /\ session[w].open /\ TypeOK
      /\ sub' = Pick(session[w].new, sub, session[w].wrote)
      /\ ledger' = ledger \cup ({session[w].event} \ {0})
      /\ offers' = offers \cup session[w].page
      /\ tidy' = (tidy /\ InOrder(w))
      /\ session' = [session EXCEPT ![w] = Closed]
      /\ UNCHANGED <<customers, stripe, events, clock, requests>>
  BY DEF Commit, IInv
<1>2. \/ /\ session[w].event \in Issued \ ledger
         /\ ledger' = ledger \cup {session[w].event}
         /\ effects[session[w].event] = 0
         /\ effects' = [effects EXCEPT ![session[w].event] = 1]
      \/ /\ session[w].event = 0
         /\ UNCHANGED <<ledger, effects>>
         /\ \A c \in PaidColumns : sub'[c] = sub[c]
  BY CommitEffect
<1>3. session' \in [Slots -> Session] /\ SessionInv' /\ ClaimInv'
  BY <1>1, ClosingKeeps
<1>4. TypeOK'
  <2>1. session[w] \in Session
    BY <1>1 DEF TypeOK
  <2>2. /\ session[w].new \in SubRow /\ session[w].event \in Nat
        /\ session[w].page \in SUBSET Offer
    BY <2>1 DEF Session
  <2>3. sub' \in SubRow
    BY <1>1, <2>2, PickType DEF TypeOK
  <2>4. effects' \in [EventIds -> Nat]
    BY <1>1, <1>2 DEF TypeOK
  <2>5. tidy' \in BOOLEAN
    BY <1>1
  <2>6. QED
    BY <1>1, <1>3, <2>2, <2>3, <2>4, <2>5 DEF TypeOK
<1>5. LedgerInv'
  BY <1>1, <1>2 DEF IInv, LedgerInv, TypeOK, Issued
<1>6. EarnedInv'
  BY <1>2 DEF IInv, EarnedInv, PaidColumns
<1>7. EventInv' /\ StripeInv'
  BY <1>1 DEF IInv, EventInv, Issued, StripeInv
<1>8. QED
  BY <1>3, <1>4, <1>5, <1>6, <1>7 DEF IInv

LEMMA CrashKeeps ==
  ASSUME IInv, NEW w \in Slots, Crash(w)
  PROVE  IInv'
<1>1. session' \in [Slots -> Session] /\ SessionInv' /\ ClaimInv'
  BY ClosingKeeps DEF Crash
<1>2. TypeOK'
  BY <1>1 DEF IInv, TypeOK, Crash
<1>3. LedgerInv' /\ EarnedInv' /\ EventInv' /\ StripeInv'
  BY DEF IInv, LedgerInv, EarnedInv, EventInv, StripeInv, Issued, Crash
<1>4. QED
  BY <1>1, <1>2, <1>3 DEF IInv

-----------------------------------------------------------------------------
(* Stripe.                                                                 *)

LEMMA IssueKeeps ==
  ASSUME IInv, NEW s \in Subs, NEW type \in EventTypes,
         NEW plan \in Plans \cup {None}, NEW status \in DOMAIN StatusMap,
         type = "completed" => plan \in Plans,
         Issue(type, s, plan, status),
         offers' \in SUBSET Offer,
         stripe' \in [Subs -> StripeSub],
         stripe'[s].state # "none", stripe'[s].cust \in Custs,
         \A t \in Subs : t # s => stripe'[t] = stripe[t]
  PROVE  IInv'
<1> DEFINE e == [type |-> type, sub |-> s, cust |-> stripe'[s].cust,
                 plan |-> plan, status |-> status]
<1>1. /\ TypeOK /\ Len(events) < MaxEvents /\ events' = Append(events, e)
      /\ UNCHANGED <<sub, ledger, session, customers, clock, requests, effects,
                     tidy>>
  BY DEF IInv, Issue
<1>2. e \in Event
  BY Zenon DEF Event
<1>3. /\ events' \in Seq(Event) /\ Len(events') = Len(events) + 1
      /\ \A i \in 1..Len(events) : events'[i] = events[i]
      /\ events'[Len(events) + 1] = e
      /\ Len(events) \in Nat /\ MaxEvents \in Nat
  BY <1>1, <1>2, AppendProperties, LenProperties, BillingConstants DEF TypeOK
<1>4. /\ Issued' = Issued \cup {Len(events) + 1}
      /\ \A i \in Issued : events'[i] = events[i]
  BY <1>3 DEF Issued
<1>5. TypeOK'
  BY <1>1, <1>3 DEF TypeOK
<1>6. SessionInv' /\ ClaimInv' /\ EarnedInv' /\ StripeInv'
  BY <1>1, <1>4 DEF IInv, SessionInv, ClaimInv, EarnedInv, StripeInv
<1>7. LedgerInv'
  BY <1>1, <1>3, <1>4 DEF IInv, LedgerInv
<1>8. EventInv'
  <2> SUFFICES ASSUME NEW i \in Issued'
               PROVE  /\ events'[i].type = "completed" => events'[i].plan \in Plans
                      /\ stripe'[events'[i].sub].state # "none"
    BY DEF EventInv
  <2>1. CASE i \in Issued
    <3>1. events[i].sub \in Subs /\ events'[i] = events[i]
      BY <1>1, <1>4, <2>1, IssuedType
    <3>2. QED
      BY <2>1, <3>1 DEF IInv, EventInv
  <2>2. CASE i = Len(events) + 1
    BY <1>3, <2>2
  <2>3. QED
    BY <1>4, <2>1, <2>2
<1>9. QED
  BY <1>5, <1>6, <1>7, <1>8 DEF IInv

LEMMA StripeKeeps ==
  ASSUME IInv, NEW s \in Subs,
         \/ \E o \in offers : Purchase(s, o)
         \/ FailPayment(s) \/ CollectPayment(s) \/ Notify(s) \/ Terminate(s)
  PROVE  IInv'
<1>1. TypeOK /\ stripe[s] \in StripeSub
  BY DEF IInv, TypeOK
<1>2. /\ {"completed", "updated", "failed", "paid", "deleted"} = EventTypes
      /\ {"active", "past_due", "unpaid"} \subseteq DOMAIN StatusMap
      /\ Reported \subseteq DOMAIN StatusMap
  BY DEF EventTypes, StatusMap, Reported
<1>3. Live(s) => stripe[s].state # "none" /\ stripe[s].cust \in Custs
  BY DEF IInv, StripeInv, Live
<1>4. ASSUME NEW o \in offers, Purchase(s, o)
      PROVE  IInv'
  <2>1. o.cust \in Custs /\ o.plan \in Plans
    BY <1>1 DEF TypeOK, Offer
  <2> DEFINE bought == [state |-> "active", cust |-> o.cust,
                        plan |-> o.plan, cancel |-> FALSE]
  <2>2. bought \in StripeSub
    BY <2>1 DEF StripeSub
  <2>3. /\ stripe' = [stripe EXCEPT ![s] = bought]
        /\ offers' = offers \ {o}
        /\ Issue("completed", s, o.plan, "active")
    BY <1>4 DEF Purchase
  <2>4. QED
    BY <1>1, <1>2, <2>1, <2>2, <2>3, IssueKeeps DEF TypeOK
<1>5. ASSUME Live(s), NEW state \in {"active", "past_due", "canceled"},
             stripe' = [stripe EXCEPT ![s].state = state], UNCHANGED offers,
             NEW type \in EventTypes \ {"completed"},
             NEW status \in DOMAIN StatusMap, Issue(type, s, None, status)
      PROVE  IInv'
  <2>1. /\ stripe' \in [Subs -> StripeSub]
        /\ stripe'[s].state = state /\ stripe'[s].cust = stripe[s].cust
        /\ \A t \in Subs : t # s => stripe'[t] = stripe[t]
    BY <1>1, <1>5 DEF TypeOK, StripeSub
  <2>2. stripe'[s].state # "none" /\ offers' \in SUBSET Offer
    BY <1>1, <1>5, <2>1 DEF TypeOK
  <2>3. QED
    BY <1>3, <1>5, <2>1, <2>2, IssueKeeps
<1>6. CASE FailPayment(s)
  BY <1>2, <1>5, <1>6 DEF FailPayment
<1>7. CASE CollectPayment(s)
  BY <1>2, <1>5, <1>7 DEF CollectPayment
<1>8. CASE Terminate(s)
  BY <1>2, <1>5, <1>8 DEF Terminate
<1>9. CASE Notify(s)
  <2>1. PICK status \in DOMAIN StatusMap : Issue("updated", s, None, status)
    BY <1>2, <1>9 DEF Notify
  <2>2. Live(s) /\ UNCHANGED <<stripe, offers>>
    BY <1>9 DEF Notify
  <2>3. QED
    BY <1>1, <1>2, <1>3, <2>1, <2>2, IssueKeeps DEF TypeOK
<1>10. QED
  BY <1>4, <1>6, <1>7, <1>8, <1>9

-----------------------------------------------------------------------------
(* The invariant and what follows from it.                                 *)

LEMMA InvStep == IInv /\ [Next]_vars => IInv'
<1> SUFFICES ASSUME IInv, [Next]_vars PROVE IInv'
  OBVIOUS
<1>1. CASE Advance
  <2>1. clock' \in Nat
    BY <1>1 DEF Advance, IInv, TypeOK
  <2>2. QED
    BY <1>1, <2>1 DEF Advance, IInv, TypeOK, EventInv, SessionInv, ClaimInv,
       LedgerInv, EarnedInv, StripeInv, Issued
<1>2. CASE UNCHANGED vars
  BY <1>2 DEF vars, IInv, TypeOK, EventInv, SessionInv, ClaimInv, LedgerInv,
     EarnedInv, StripeInv, Issued
<1>3. QED
  BY <1>1, <1>2, CheckoutKeeps, ChangePlanKeeps, CancelKeeps, EventKeeps,
     CommitKeeps, CrashKeeps, StripeKeeps DEF Next

LEMMA InvAlways == SafetySpec => []IInv
  BY InvInit, InvStep, PTL DEF SafetySpec

\* Every column, session and event keeps its type: no handler stores a value
\* the others cannot read.
THEOREM BillingTypes == SafetySpec => []TypeOK
  BY InvAlways, PTL DEF IInv

\* Access outside the trial always goes back to a subscription bought at
\* Stripe and to an event about it that has been applied.
THEOREM BillingAccessIsEarned == SafetySpec => []AccessIsEarned
<1>1. IInv => AccessIsEarned
  <2> SUFFICES ASSUME IInv, sub.status # "trialing"
               PROVE  \E s \in Subs : /\ stripe[s].state # "none"
                                      /\ \E i \in ledger : events[i].sub = s
    BY DEF AccessIsEarned
  <2>1. PICK i \in ledger : i \in Issued
    BY DEF IInv, EarnedInv, LedgerInv
  <2>2. events[i].sub \in Subs
    BY <2>1, IssuedType DEF IInv
  <2>3. QED
    BY <2>1, <2>2 DEF IInv, EventInv
<1>2. QED
  BY <1>1, InvAlways, PTL

\* The owner's requests never write the paid columns, even when they commit
\* what they computed from a row that a webhook has changed since.
THEOREM BillingPaidState == SafetySpec => PaidStateOnlyByWebhook
<1> DEFINE Paid(row) == Pick(row, Trial, PaidColumns)
<1>1. IInv /\ [Next]_vars => [Paid(sub') # Paid(sub) => ledger' # ledger]_vars
  <2> SUFFICES ASSUME IInv, Next, Paid(sub') # Paid(sub) PROVE ledger' # ledger
    OBVIOUS
  <2>1. ASSUME NEW w \in Slots, Commit(w) PROVE ledger' # ledger
    <3>1. CASE session[w].event \in Issued \ ledger
               /\ ledger' = ledger \cup {session[w].event}
      BY <3>1
    <3>2. CASE \A c \in PaidColumns : sub'[c] = sub[c]
      BY <3>2 DEF Pick, PaidColumns
    <3>3. QED
      BY <2>1, <3>1, <3>2, CommitEffect
  <2>2. CASE UNCHANGED sub
    BY <2>2
  <2>3. QED
    BY <2>1, <2>2 DEF Next, BeginCheckout, BeginChangePlan, BeginCancel, Request,
       BeginEvent, Crash, Purchase, FailPayment, CollectPayment, Notify,
       Terminate, Issue, Advance
<1>2. QED
  BY <1>1, InvAlways, PTL DEF SafetySpec, PaidStateOnlyByWebhook, PaidColumns

\* The safety half of the promise: whatever is delivered again and whichever
\* sessions overlap or are lost, the effects are those of a provider whose
\* events are each applied at most once.
THEOREM BillingAppliesAtMostOnce == SafetySpec => Promise!SafetySpec
<1>1. Init => Promise!Init
  BY EmptySeq DEF Init, Promise!Init, Issued
<1>2. IInv /\ [Next]_vars => [Promise!Next]_(Promise!vars)
  <2> SUFFICES ASSUME IInv, [Next]_vars
               PROVE  Promise!Next \/ UNCHANGED <<Issued, effects>>
    BY DEF Promise!vars
  <2>1. ASSUME NEW w \in Slots, Commit(w)
        PROVE  Promise!Next \/ UNCHANGED <<Issued, effects>>
    <3>1. Issued' = Issued
      BY <2>1 DEF Commit, Issued
    <3>2. Len(events) \in Nat /\ MaxEvents \in Nat
      BY LenProperties, BillingConstants DEF IInv, TypeOK
    <3>3. session[w].event \in Issued => session[w].event \in EventIds
      BY <3>2 DEF IInv, LedgerInv, Issued, EventIds
    <3>4. QED
      BY <2>1, <3>1, <3>3, CommitEffect DEF Promise!Next, Promise!Process
  <2>2. ASSUME NEW type, NEW s, NEW plan, NEW status, Issue(type, s, plan, status)
        PROVE  Promise!Next
    <3> DEFINE e == [type |-> type, sub |-> s, cust |-> stripe'[s].cust,
                     plan |-> plan, status |-> status]
               n == Len(events) + 1
    <3>1. /\ events' = Append(events, e) /\ UNCHANGED effects
          /\ Len(events) < MaxEvents
      BY <2>2 DEF Issue
    <3>2. Len(events) \in Nat /\ MaxEvents \in Nat /\ Len(events') = n
      BY <3>1, LenProperties, BillingConstants DEF IInv, TypeOK
    <3>3. n \in EventIds /\ n \notin Issued /\ Issued' = Issued \cup {n}
      BY <3>1, <3>2 DEF EventIds, Issued
    <3>4. QED
      BY <3>1, <3>3 DEF Promise!Next, Promise!Send
  <2>3. CASE UNCHANGED <<events, effects>>
    BY <2>3 DEF Issued
  <2>4. QED
    BY <2>1, <2>2, <2>3 DEF Next, vars, BeginCheckout, BeginChangePlan,
       BeginCancel, Request, BeginEvent, Crash, Purchase, FailPayment,
       CollectPayment, Notify, Terminate, Advance
<1>3. QED
  BY <1>1, <1>2, InvAlways, PTL DEF SafetySpec, Promise!SafetySpec

-----------------------------------------------------------------------------
(* The row and Stripe.  While tidy holds, no session has committed beside  *)
(* another, so that every open session still knows the row as it is, and   *)
(* the events applied are those before some event.  If only one            *)
(* subscription was ever bought, they are all about it, and the row says   *)
(* what the last of them said.                                             *)

\* The status an event reports of its subscription.
Reports(e) ==
    CASE e.type \in {"completed", "paid"} -> "active"
      [] e.type = "failed"  -> "past_due"
      [] e.type = "deleted" -> "canceled"
      [] OTHER -> StatusMap[e.status]

\* Events name the customer; the first about a subscription, and no other, is
\* the completion of its checkout; the last tells its state.
HistoryInv ==
    /\ \A i \in Issued :
          /\ events[i].cust = stripe[events[i].sub].cust
          /\ events[i].type = "completed" <=>
               \A j \in Issued : events[j].sub = events[i].sub => i <= j
    /\ \A s \in Bought : \E i \in Issued :
          /\ events[i].sub = s /\ Reports(events[i]) = stripe[s].state
          /\ \A j \in Issued : events[j].sub = s => j <= i

\* The events applied in order are those up to one of them.
PrefixInv == tidy => \A i \in ledger, j \in Issued : j <= i => j \in ledger

\* The row is linked to a subscription that was bought, if to any.
LinkInv == tidy => sub.subId \in Bought \cup {None}

\* The row as session w would leave it.
Left(w) == Pick(session[w].new, sub, session[w].wrote)

\* What an open session will write is what it would write if it began now.
EventFresh(w) ==
    LET e == events[session[w].event]
    IN /\ e.type = "completed" =>
            /\ Left(w).subId = e.sub /\ Left(w).cust = e.cust
            /\ Left(w).status = "active" /\ ~Left(w).cancel
       /\ e.type # "completed" =>
            /\ Left(w).subId = sub.subId /\ Left(w).cust = sub.cust
            /\ sub.subId = e.sub => Left(w).status = Reports(e)
            /\ Left(w).cancel => sub.cancel

RequestFresh(w) ==
    /\ Left(w).subId = sub.subId /\ Left(w).status = sub.status
    /\ sub.cust = None \/ Left(w).cust = sub.cust
    /\ Left(w).cancel =>
         \/ sub.cancel \/ sub.subId = None
         \/ stripe[sub.subId].cancel

FreshInv ==
    tidy => \A w \in Slots : session[w].open =>
      IF session[w].event = 0 THEN RequestFresh(w) ELSE EventFresh(w)

\* The row agrees with the last event applied, if all are about s.
Agrees(s) ==
    \/ ledger = {} /\ sub.subId = None
    \/ \E n \in ledger :
         /\ \A i \in ledger : i <= n
         /\ sub.status = Reports(events[n])
         /\ sub.subId = s /\ sub.cust = stripe[s].cust
         /\ sub.cancel => stripe[s].cancel

RowInv == tidy => \A s \in Subs : Bought \subseteq {s} => Agrees(s)

AgreeInv ==
    IInv /\ HistoryInv /\ PrefixInv /\ LinkInv /\ FreshInv /\ RowInv

LEMMA AgreeInit == Init => AgreeInv
<1> SUFFICES ASSUME Init PROVE AgreeInv
  OBVIOUS
<1>1. IInv
  BY InvInit
<1>2. Issued = {} /\ ledger = {}
  BY EmptySeq DEF Issued, Init
<1>3. Bought = {}
  BY DEF Bought, Init
<1>4. sub.subId = None
  BY DEF Init, Trial
<1>5. FreshInv
  BY DEF Init, FreshInv, Closed
<1>6. HistoryInv /\ PrefixInv /\ LinkInv /\ RowInv
  BY <1>2, <1>3, <1>4 DEF HistoryInv, PrefixInv, LinkInv, RowInv, Agrees
<1>7. QED
  BY <1>1, <1>5, <1>6 DEF AgreeInv

\* What no step undoes: events keep their place, a subscription that was bought
\* stays bought by its customer, and a cancellation stays scheduled.
Grows ==
    /\ Issued \subseteq Issued' /\ \A i \in Issued : events'[i] = events[i]
    /\ \A s \in Bought :
          /\ s \in Bought' /\ stripe'[s].cust = stripe[s].cust
          /\ stripe[s].cancel => stripe'[s].cancel

\* A session that was fresh stays so while the row does not change.
LEMMA FreshStays ==
  ASSUME AgreeInv, tidy, Grows, UNCHANGED sub, NEW v \in Slots,
         session[v].open, UNCHANGED session[v]
  PROVE  IF session'[v].event = 0 THEN RequestFresh(v)' ELSE EventFresh(v)'
<1>1. Left(v)' = Left(v)
  BY DEF Left
<1>2. CASE session[v].event = 0
  <2>1. RequestFresh(v)
    BY <1>2 DEF AgreeInv, FreshInv
  <2>2. sub.subId \in Bought \cup {None}
    BY DEF AgreeInv, LinkInv
  <2>3. sub.subId # None => (stripe[sub.subId].cancel => stripe'[sub.subId].cancel)
    BY <2>2 DEF Grows
  <2>4. RequestFresh(v)'
    BY <1>1, <2>1, <2>3 DEF RequestFresh
  <2>5. QED
    BY <1>2, <2>4
<1>3. CASE session[v].event # 0
  <2>1. EventFresh(v)
    BY <1>3 DEF AgreeInv, FreshInv
  <2>2. session[v].event \in Issued
    BY <1>3 DEF AgreeInv, IInv, SessionInv
  <2>3. events'[session'[v].event] = events[session[v].event]
    BY <2>2 DEF Grows
  <2>4. EventFresh(v)'
    BY <1>1, <2>1, <2>3 DEF EventFresh
  <2>5. QED
    BY <1>3, <2>4
<1>4. QED
  BY <1>2, <1>3

\* The row keeps agreeing while neither it nor the ledger changes.
LEMMA RowStays ==
  ASSUME AgreeInv, Grows, UNCHANGED <<sub, ledger, tidy>>
  PROVE  PrefixInv' /\ LinkInv' /\ RowInv'
<1>1. ledger \subseteq Issued
  BY DEF AgreeInv, IInv, LedgerInv
<1>2. PrefixInv'
  <2> SUFFICES ASSUME tidy, NEW i \in ledger, NEW j \in Issued', j <= i
               PROVE  j \in ledger
    BY DEF PrefixInv
  <2>1. j \in Issued
    BY <1>1 DEF Issued
  <2>2. QED
    BY <2>1 DEF AgreeInv, PrefixInv
<1>3. LinkInv'
  BY DEF AgreeInv, LinkInv, Grows
<1>4. RowInv'
  <2> SUFFICES ASSUME tidy, NEW s \in Subs, Bought' \subseteq {s} PROVE Agrees(s)'
    BY DEF RowInv
  <2>1. Bought \subseteq {s}
    BY DEF Grows
  <2>2. Agrees(s)
    BY <2>1 DEF AgreeInv, RowInv
  <2>3. CASE ledger = {} /\ sub.subId = None
    BY <2>3 DEF Agrees
  <2>4. CASE ledger # {}
    <3>1. PICK n \in ledger :
             /\ \A i \in ledger : i <= n
             /\ sub.status = Reports(events[n])
             /\ sub.subId = s /\ sub.cust = stripe[s].cust
             /\ sub.cancel => stripe[s].cancel
      BY <2>2, <2>4 DEF Agrees
    <3>2. events'[n] = events[n]
      BY <1>1 DEF Grows
    <3>3. s \in Bought
      <4>1. s # None
        BY BillingConstants
      <4>2. QED
        BY <3>1, <4>1 DEF AgreeInv, LinkInv
    <3>4. stripe'[s].cust = stripe[s].cust /\ (stripe[s].cancel => stripe'[s].cancel)
      BY <3>3 DEF Grows
    <3>5. QED
      BY <3>1, <3>2, <3>4 DEF Agrees
  <2>5. QED
    BY <2>2, <2>3, <2>4 DEF Agrees
<1>5. QED
  BY <1>2, <1>3, <1>4

\* What Stripe has said stays true while it changes neither states nor customers.
LEMMA HistoryStays ==
  ASSUME AgreeInv, UNCHANGED events, NEW f, stripe' = f,
         \A s \in Subs : f[s].state = stripe[s].state /\ f[s].cust = stripe[s].cust
  PROVE  HistoryInv' /\ Bought' = Bought
<1>1. Issued' = Issued
  BY DEF Issued
<1>2. Bought' = Bought
  BY DEF Bought
<1>3. \A i \in Issued : events[i].sub \in Subs
  BY IssuedType DEF AgreeInv, IInv
<1>4. \A s \in Bought : s \in Subs
  BY DEF Bought
<1>5. QED
  BY <1>1, <1>2, <1>3, <1>4 DEF AgreeInv, HistoryInv

\* A session that opens would leave the row as it wants it.
LEMMA OpenLeaves ==
  ASSUME TypeOK, UNCHANGED sub, NEW w \in Slots, NEW event, NEW new \in SubRow,
         NEW stamped, NEW page, Open(w, event, new, stamped, page)
  PROVE  /\ Left(w)'.subId = new.subId /\ Left(w)'.cust = new.cust
         /\ Left(w)'.status = new.status /\ Left(w)'.cancel = new.cancel
<1> DEFINE wrote == Written(new, stamped)
           kept == Pick(new, Trial, wrote)
<1>1. session'[w].new = kept /\ session'[w].wrote = wrote
  BY DEF TypeOK, Open
<1>2. Left(w)' = Pick(kept, sub, wrote)
  BY <1>1 DEF Left
<1>3. \A c \in Columns : c \notin wrote => new[c] = sub[c]
  BY DEF Written
<1>4. {"subId", "cust", "status", "cancel"} \subseteq Columns
  BY DEF Columns
<1> HIDE DEF wrote
<1>5. Left(w)'.subId = new.subId
  <2>1. "subId" \notin wrote => new.subId = sub.subId
    BY <1>3, <1>4
  <2>2. QED
    BY <1>2, <2>1 DEF Pick
<1>6. Left(w)'.cust = new.cust
  <2>1. "cust" \notin wrote => new.cust = sub.cust
    BY <1>3, <1>4
  <2>2. QED
    BY <1>2, <2>1 DEF Pick
<1>7. Left(w)'.status = new.status
  <2>1. "status" \notin wrote => new.status = sub.status
    BY <1>3, <1>4
  <2>2. QED
    BY <1>2, <2>1 DEF Pick
<1>8. Left(w)'.cancel = new.cancel
  <2>1. "cancel" \notin wrote => new.cancel = sub.cancel
    BY <1>3, <1>4
  <2>2. QED
    BY <1>2, <2>1 DEF Pick
<1>9. QED
  BY <1>5, <1>6, <1>7, <1>8

\* Beginning a session keeps the invariant, if it is fresh.
LEMMA OpenAgrees ==
  ASSUME AgreeInv, IInv', HistoryInv', Grows, UNCHANGED <<sub, ledger, tidy>>,
         NEW w \in Slots, NEW event, NEW new, NEW stamped, NEW page,
         Open(w, event, new, stamped, page),
         IF event = 0 THEN RequestFresh(w)' ELSE EventFresh(w)'
  PROVE  AgreeInv'
<1>1. /\ session'[w].event = event
      /\ \A v \in Slots : v # w => session'[v] = session[v]
  BY OpenEffect DEF AgreeInv, IInv
<1>2. FreshInv'
  <2> SUFFICES ASSUME tidy, NEW v \in Slots, session'[v].open
               PROVE  IF session'[v].event = 0 THEN RequestFresh(v)' ELSE EventFresh(v)'
    BY DEF FreshInv
  <2>1. CASE v = w
    BY <1>1, <2>1
  <2>2. CASE v # w
    BY <1>1, <2>2, FreshStays
  <2>3. QED
    BY <2>1, <2>2
<1>3. QED
  BY <1>2, RowStays DEF AgreeInv

\* The owner's requests: the row they leave is linked as it was, keeps its
\* customer if it had one, and shows a cancellation only if Stripe knows.
LEMMA RequestAgrees ==
  ASSUME AgreeInv, IInv', NEW w \in Slots, NEW new \in SubRow, NEW page,
         Request(w, new, page), NEW f, stripe' = f,
         \A s \in Subs : /\ f[s].state = stripe[s].state /\ f[s].cust = stripe[s].cust
                         /\ stripe[s].cancel => f[s].cancel,
         new.subId = sub.subId, new.status = sub.status,
         sub.cust = None \/ new.cust = sub.cust,
         new.cancel => \/ sub.cancel \/ sub.subId = None
                       \/ f[sub.subId].cancel
  PROVE  AgreeInv'
<1>1. /\ Open(w, 0, new, {}, page)
      /\ UNCHANGED <<sub, ledger, offers, events, clock, effects, tidy>>
  BY DEF Request
<1>2. HistoryInv' /\ Bought' = Bought
  BY <1>1, HistoryStays
<1>3. Grows
  <2>1. Issued' = Issued
    BY <1>1 DEF Issued
  <2>2. QED
    BY <1>1, <1>2, <2>1 DEF Grows, Bought
<1>4. /\ Left(w)'.subId = new.subId /\ Left(w)'.cust = new.cust
      /\ Left(w)'.status = new.status /\ Left(w)'.cancel = new.cancel
  BY <1>1, OpenLeaves DEF AgreeInv, IInv
<1>5. RequestFresh(w)'
  BY <1>1, <1>4 DEF RequestFresh
<1>6. QED
  BY <1>1, <1>2, <1>3, <1>5, OpenAgrees

LEMMA CheckoutAgrees ==
  ASSUME AgreeInv, IInv', NEW w \in Slots, NEW p \in Plans, BeginCheckout(w, p)
  PROVE  AgreeInv'
<1>1. PICK c \in IF sub.cust = None THEN Custs \ customers ELSE {sub.cust} :
        /\ customers' = customers \cup {c}
        /\ Request(w, [sub EXCEPT !.cust = c, !.pending = p],
                   {[cust |-> c, plan |-> p]})
        /\ UNCHANGED stripe
  BY DEF BeginCheckout
<1> DEFINE new == [sub EXCEPT !.cust = c, !.pending = p]
<1>2. sub \in SubRow /\ c \in Custs
  BY DEF AgreeInv, IInv, TypeOK, SubRow
<1>3. new \in SubRow
  BY <1>2, Zenon DEF SubRow
<1>4. /\ new.subId = sub.subId /\ new.status = sub.status /\ new.cancel = sub.cancel
      /\ sub.cust = None \/ new.cust = sub.cust
  BY <1>2 DEF SubRow
<1> HIDE DEF new
<1>5. QED
  BY <1>1, <1>3, <1>4, RequestAgrees DEF new

LEMMA ChangePlanAgrees ==
  ASSUME AgreeInv, IInv', NEW w \in Slots, NEW p \in Plans, BeginChangePlan(w, p)
  PROVE  AgreeInv'
<1> DEFINE new == [sub EXCEPT !.pending = p]
           f == [stripe EXCEPT ![sub.subId].plan = p]
<1>1. sub \in SubRow /\ stripe' = f /\ Request(w, new, {})
  BY DEF AgreeInv, IInv, TypeOK, BeginChangePlan
<1>2. new \in SubRow
  BY <1>1, Zenon DEF SubRow
<1>3. /\ new.subId = sub.subId /\ new.status = sub.status /\ new.cancel = sub.cancel
      /\ new.cust = sub.cust
  BY <1>1 DEF SubRow
<1>4. \A s \in Subs : /\ f[s].state = stripe[s].state /\ f[s].cust = stripe[s].cust
                      /\ stripe[s].cancel => f[s].cancel
  BY DEF AgreeInv, IInv, TypeOK, StripeSub
<1> HIDE DEF new, f
<1>5. QED
  BY <1>1, <1>2, <1>3, <1>4, RequestAgrees

LEMMA CancelAgrees ==
  ASSUME AgreeInv, IInv', NEW w \in Slots, BeginCancel(w)
  PROVE  AgreeInv'
<1> DEFINE new == [sub EXCEPT !.cancel = TRUE]
<1>1. sub \in SubRow /\ Request(w, new, {}) /\ stripe \in [Subs -> StripeSub]
  BY DEF AgreeInv, IInv, TypeOK, BeginCancel
<1>2. new \in SubRow
  BY <1>1, Zenon DEF SubRow
<1>3. new.subId = sub.subId /\ new.status = sub.status /\ new.cust = sub.cust
  BY <1>1 DEF SubRow
<1>4. CASE sub.subId = None /\ UNCHANGED stripe
  <2> HIDE DEF new
  <2>1. QED
    BY <1>1, <1>2, <1>3, <1>4, RequestAgrees
<1>5. CASE sub.subId # None /\ stripe' = [stripe EXCEPT ![sub.subId].cancel = TRUE]
  <2> DEFINE f == [stripe EXCEPT ![sub.subId].cancel = TRUE]
  <2>1. sub.subId \in Subs
    BY <1>1, <1>5 DEF SubRow
  <2>2. \A s \in Subs : /\ f[s].state = stripe[s].state /\ f[s].cust = stripe[s].cust
                        /\ stripe[s].cancel => f[s].cancel
    BY <1>1 DEF StripeSub
  <2>3. f[sub.subId].cancel
    BY <1>1, <2>1 DEF StripeSub
  <2>4. stripe' = f
    BY <1>5
  <2> HIDE DEF new, f
  <2>5. QED
    BY <1>1, <1>2, <1>3, <2>2, <2>3, <2>4, RequestAgrees
<1>6. QED
  BY <1>4, <1>5 DEF BeginCancel

\* What the handler of an event does to what Stripe also knows.
LEMMA OutcomeSays ==
  ASSUME sub \in SubRow, NEW e \in Event
  PROVE  /\ e.type = "completed" =>
              /\ Outcome(e).subId = e.sub /\ Outcome(e).cust = e.cust
              /\ Outcome(e).status = "active" /\ ~Outcome(e).cancel
         /\ e.type # "completed" =>
              /\ Outcome(e).subId = sub.subId /\ Outcome(e).cust = sub.cust
              /\ sub.subId = e.sub => Outcome(e).status = Reports(e)
              /\ Outcome(e).cancel => sub.cancel
<1>1. CASE e.type = "completed"
  <2>1. Outcome(e) = OnCompleted(e)
    BY <1>1 DEF Outcome
  <2>2. /\ OnCompleted(e).subId = e.sub /\ OnCompleted(e).cust = e.cust
        /\ OnCompleted(e).status = "active" /\ ~OnCompleted(e).cancel
    BY DEF OnCompleted, SubRow
  <2>3. QED
    BY <1>1, <2>1, <2>2
<1>2. CASE e.type = "updated"
  <2>1. Outcome(e) = IF Finds(e) THEN OnUpdated(e) ELSE sub
    BY <1>2 DEF Outcome
  <2>2. /\ OnUpdated(e).subId = sub.subId /\ OnUpdated(e).cust = sub.cust
        /\ OnUpdated(e).status = StatusMap[e.status]
        /\ OnUpdated(e).cancel = sub.cancel
    BY DEF OnUpdated, SubRow
  <2>3. sub.subId = e.sub => Finds(e)
    BY DEF Finds
  <2>4. Reports(e) = StatusMap[e.status]
    BY <1>2 DEF Reports
  <2>5. QED
    BY <1>2, <2>1, <2>2, <2>3, <2>4
<1>3. CASE e.type = "failed"
  <2>1. Outcome(e) = IF Finds(e) THEN OnFailed ELSE sub
    BY <1>3 DEF Outcome
  <2>2. /\ OnFailed.subId = sub.subId /\ OnFailed.cust = sub.cust
        /\ OnFailed.status = "past_due" /\ OnFailed.cancel = sub.cancel
    BY DEF OnFailed, SubRow
  <2>3. sub.subId = e.sub => Finds(e)
    BY DEF Finds
  <2>4. Reports(e) = "past_due"
    BY <1>3 DEF Reports
  <2>5. QED
    BY <1>3, <2>1, <2>2, <2>3, <2>4
<1>4. CASE e.type = "paid"
  <2>1. Outcome(e) = IF Finds(e) THEN OnPaid ELSE sub
    BY <1>4 DEF Outcome
  <2>2. /\ OnPaid.subId = sub.subId /\ OnPaid.cust = sub.cust
        /\ OnPaid.status = "active" /\ OnPaid.cancel = sub.cancel
    BY DEF OnPaid, SubRow
  <2>3. sub.subId = e.sub => Finds(e)
    BY DEF Finds
  <2>4. Reports(e) = "active"
    BY <1>4 DEF Reports
  <2>5. QED
    BY <1>4, <2>1, <2>2, <2>3, <2>4
<1>5. CASE e.type = "deleted"
  <2>1. Outcome(e) = IF sub.subId = e.sub THEN OnDeleted ELSE sub
    BY <1>5 DEF Outcome
  <2>2. /\ OnDeleted.subId = sub.subId /\ OnDeleted.cust = sub.cust
        /\ OnDeleted.status = "canceled" /\ ~OnDeleted.cancel
    BY DEF OnDeleted, SubRow
  <2>3. Reports(e) = "canceled"
    BY <1>5 DEF Reports
  <2>4. QED
    BY <1>5, <2>1, <2>2, <2>3
<1>6. e.type \in {"completed", "updated", "failed", "paid", "deleted"}
  BY DEF Event, EventTypes
<1>7. QED
  BY <1>1, <1>2, <1>3, <1>4, <1>5, <1>6

LEMMA EventAgrees ==
  ASSUME AgreeInv, IInv', NEW w \in Slots, NEW i \in EventIds, BeginEvent(w, i)
  PROVE  AgreeInv'
<1> DEFINE e == events[i]
           stamped == IF e.type = "failed" /\ Finds(e) THEN {"grace"} ELSE {}
<1>1. /\ i \in Issued \ ledger /\ i # 0
      /\ Open(w, i, Outcome(e), stamped, {})
      /\ UNCHANGED <<sub, ledger, offers, customers, stripe, events, clock,
                     requests, effects, tidy>>
  BY DEF BeginEvent, EventIds
<1>2. sub \in SubRow /\ clock \in Nat /\ e \in Event
  BY <1>1, IssuedType DEF AgreeInv, IInv, TypeOK
<1>3. e.type = "completed" => e.plan \in Plans
  BY <1>1 DEF AgreeInv, IInv, EventInv
<1>4. Outcome(e) \in SubRow
  BY <1>2, <1>3, OutcomeType
<1>5. HistoryInv' /\ Bought' = Bought
  BY <1>1, HistoryStays
<1>6. Grows
  <2>1. Issued' = Issued
    BY <1>1 DEF Issued
  <2>2. QED
    BY <1>1, <1>5, <2>1 DEF Grows
<1>7. /\ Left(w)'.subId = Outcome(e).subId /\ Left(w)'.cust = Outcome(e).cust
      /\ Left(w)'.status = Outcome(e).status /\ Left(w)'.cancel = Outcome(e).cancel
  <2> HIDE DEF e, stamped
  <2>1. QED
    BY <1>1, <1>4, OpenLeaves DEF AgreeInv, IInv
<1>8. /\ e.type = "completed" =>
           /\ Outcome(e).subId = e.sub /\ Outcome(e).cust = e.cust
           /\ Outcome(e).status = "active" /\ ~Outcome(e).cancel
      /\ e.type # "completed" =>
           /\ Outcome(e).subId = sub.subId /\ Outcome(e).cust = sub.cust
           /\ sub.subId = e.sub => Outcome(e).status = Reports(e)
           /\ Outcome(e).cancel => sub.cancel
  <2> HIDE DEF e
  <2>1. QED
    BY <1>2, OutcomeSays
<1>9. session'[w].event = i /\ events' = events /\ sub' = sub
  BY <1>1, OpenEffect DEF AgreeInv, IInv
<1>10. EventFresh(w)'
  <2>1. events'[session'[w].event] = e
    BY <1>9
  <2> HIDE DEF e
  <2>2. QED
    BY <1>7, <1>8, <1>9, <2>1 DEF EventFresh
<1>11. IF i = 0 THEN RequestFresh(w)' ELSE EventFresh(w)'
  BY <1>1, <1>10
<1>12. UNCHANGED <<sub, ledger, tidy>>
  BY <1>1
<1> HIDE DEF e, stamped
<1>13. QED
  BY <1>1, <1>5, <1>6, <1>11, <1>12, OpenAgrees

-----------------------------------------------------------------------------
(* A commit beside nothing else, of the oldest event missing.              *)

\* An event applied in order, of the only subscription, makes the row agree.
LEMMA AppliedAgrees ==
  ASSUME AgreeInv, NEW w \in Slots, Commit(w), tidy', session[w].event # 0,
         NEW s \in Subs, Bought \subseteq {s}
  PROVE  Agrees(s)'
<1> DEFINE i == session[w].event
           e == events[i]
<1>1. /\ session[w].open /\ tidy /\ InOrder(w)
      /\ sub' = Left(w) /\ ledger' = ledger \cup {i}
      /\ UNCHANGED <<stripe, events>>
  BY DEF Commit, Left
<1>2. i \in Issued \ ledger /\ ledger \subseteq Issued
  BY <1>1 DEF AgreeInv, IInv, SessionInv, LedgerInv
<1>3. \A j \in Issued : j < i => j \in ledger
  BY <1>1 DEF InOrder
<1>4. \A j \in Issued : events[j].sub = s
  <2> SUFFICES ASSUME NEW j \in Issued PROVE events[j].sub = s
    OBVIOUS
  <2>1. events[j].sub \in Subs /\ stripe[events[j].sub].state # "none"
    BY IssuedType DEF AgreeInv, IInv, EventInv
  <2>2. QED
    BY <2>1 DEF Bought
<1>5. Issued \subseteq Nat
  BY DEF Issued
<1>6. \A j \in ledger : j < i
  <2> SUFFICES ASSUME NEW j \in ledger, ~(j < i) PROVE FALSE
    OBVIOUS
  <2>0. j \in Issued /\ {i, j} \subseteq Nat
    BY <1>2, <1>5
  <2>1. i <= j
    <3> HIDE DEF i
    <3>1. QED
      BY <2>0
  <2>2. i \in ledger
    BY <1>1, <1>2, <2>0, <2>1 DEF AgreeInv, PrefixInv
  <2>3. QED
    BY <1>2, <2>2
<1>7. e.cust = stripe[s].cust
  BY <1>2, <1>4 DEF AgreeInv, HistoryInv
<1>8. EventFresh(w)
  BY <1>1 DEF AgreeInv, FreshInv
<1>9. /\ sub'.subId = s /\ sub'.cust = stripe[s].cust /\ sub'.status = Reports(e)
      /\ sub'.cancel => stripe[s].cancel
  <2>1. CASE e.type = "completed"
    <3>1. Reports(e) = "active"
      BY <2>1 DEF Reports
    <3>2. QED
      BY <1>1, <1>2, <1>4, <1>7, <1>8, <2>1, <3>1 DEF EventFresh
  <2>2. CASE e.type # "completed"
    <3>1. PICK j \in Issued : ~(i <= j)
      BY <1>2, <2>2 DEF AgreeInv, HistoryInv
    <3>2. j \in ledger
      BY <1>2, <1>3, <1>5, <3>1
    <3>3. Agrees(s)
      BY <1>1 DEF AgreeInv, RowInv
    <3>4. /\ sub.subId = s /\ sub.cust = stripe[s].cust
          /\ sub.cancel => stripe[s].cancel
      BY <3>2, <3>3 DEF Agrees
    <3>5. e.sub = s
      BY <1>2, <1>4
    <3>6. QED
      BY <1>1, <1>8, <2>2, <3>4, <3>5 DEF EventFresh
  <2>3. QED
    BY <2>1, <2>2
<1>10. \A j \in ledger' : j <= i
  <2> SUFFICES ASSUME NEW j \in ledger' PROVE j <= i
    OBVIOUS
  <2>1. j \in ledger \/ j = i
    BY <1>1
  <2>2. i \in Nat /\ j \in Nat
    BY <1>2, <1>5, <2>1
  <2>3. j < i \/ j = i
    BY <1>6, <2>1
  <2> HIDE DEF i
  <2>4. QED
    BY <2>2, <2>3
<1>11. i \in ledger' /\ events'[i] = e /\ stripe' = stripe
  BY <1>1
<1> HIDE DEF i, e
<1>12. QED
  BY <1>9, <1>10, <1>11 DEF Agrees

\* A request that commits beside nothing else leaves an agreeing row agreeing.
LEMMA AnsweredAgrees ==
  ASSUME AgreeInv, NEW w \in Slots, Commit(w), tidy', session[w].event = 0,
         NEW s \in Subs, Bought \subseteq {s}
  PROVE  Agrees(s)'
<1>1. /\ session[w].open /\ tidy
      /\ sub' = Left(w) /\ ledger' = ledger
      /\ UNCHANGED <<stripe, events>>
  BY DEF Commit, Left
<1>2. RequestFresh(w)
  BY <1>1 DEF AgreeInv, FreshInv
<1>3. Agrees(s)
  BY <1>1 DEF AgreeInv, RowInv
<1>4. CASE ledger = {} /\ sub.subId = None
  BY <1>1, <1>2, <1>4 DEF Agrees, RequestFresh
<1>5. CASE ledger # {}
  <2>1. PICK n \in ledger :
           /\ \A i \in ledger : i <= n
           /\ sub.status = Reports(events[n])
           /\ sub.subId = s /\ sub.cust = stripe[s].cust
           /\ sub.cancel => stripe[s].cancel
    BY <1>3, <1>5 DEF Agrees
  <2>2. s # None /\ s \in Bought
    BY <1>1, <2>1, BillingConstants DEF AgreeInv, LinkInv
  <2>3. sub.cust # None
    <3>1. stripe[s].cust \in Custs
      BY <2>2 DEF AgreeInv, IInv, StripeInv, Bought
    <3>2. QED
      BY <2>1, <3>1, BillingConstants
  <2>4. /\ sub'.subId = s /\ sub'.status = sub.status /\ sub'.cust = sub.cust
        /\ sub'.cancel => stripe[s].cancel
    BY <1>1, <1>2, <2>1, <2>2, <2>3 DEF RequestFresh
  <2>5. QED
    BY <1>1, <2>1, <2>4 DEF Agrees
<1>6. QED
  BY <1>3, <1>4, <1>5 DEF Agrees

LEMMA CommitAgrees ==
  ASSUME AgreeInv, IInv', NEW w \in Slots, Commit(w)
  PROVE  AgreeInv'
<1>1. /\ session[w].open /\ sub' = Left(w)
      /\ ledger' = ledger \cup ({session[w].event} \ {0})
      /\ tidy' = (tidy /\ InOrder(w))
      /\ session' = [session EXCEPT ![w] = Closed]
      /\ UNCHANGED <<stripe, events>>
  BY DEF Commit, Left
<1>2. HistoryInv' /\ Bought' = Bought
  BY <1>1, HistoryStays
<1>3. Issued' = Issued /\ Issued \subseteq Nat
  BY <1>1 DEF Issued
<1>4. session[w].event # 0 => session[w].event \in Issued \ ledger
  BY <1>1 DEF AgreeInv, IInv, SessionInv
<1>5. PrefixInv'
  <2> SUFFICES ASSUME tidy', NEW i \in ledger', NEW j \in Issued, j <= i
               PROVE  j \in ledger'
    BY <1>3 DEF PrefixInv
  <2>1. tidy /\ InOrder(w)
    BY <1>1
  <2>2. CASE i \in ledger
    BY <1>1, <2>1, <2>2 DEF AgreeInv, PrefixInv
  <2>3. CASE i \notin ledger
    <3>1. i = session[w].event /\ i # 0
      BY <1>1, <2>3
    <3>2. j = i \/ j < i
      <4>1. i \in Nat /\ j \in Nat
        BY <1>3, <1>4, <3>1
      <4>2. QED
        BY <4>1
    <3>3. j < i => j \in ledger
      BY <2>1, <3>1 DEF InOrder
    <3>4. QED
      BY <1>1, <3>2, <3>3
  <2>4. QED
    BY <2>2, <2>3
<1>6. FreshInv'
  <2> SUFFICES ASSUME tidy', NEW v \in Slots, session'[v].open PROVE FALSE
    BY DEF FreshInv
  <2>1. v # w
    BY <1>1 DEF Closed, AgreeInv, IInv, TypeOK
  <2>2. session[v].open
    BY <1>1, <2>1 DEF AgreeInv, IInv, TypeOK
  <2>3. QED
    BY <1>1, <2>1, <2>2 DEF InOrder
<1>7. LinkInv'
  <2> SUFFICES ASSUME tidy' PROVE sub'.subId \in Bought \cup {None}
    BY <1>2 DEF LinkInv
  <2>1. tidy
    BY <1>1
  <2>2. sub.subId \in Bought \cup {None}
    BY <2>1 DEF AgreeInv, LinkInv
  <2>3. CASE session[w].event = 0
    BY <1>1, <2>1, <2>2, <2>3 DEF AgreeInv, FreshInv, RequestFresh
  <2>4. CASE session[w].event # 0
    <3>1. events[session[w].event].sub \in Bought
      BY <1>4, <2>4, IssuedType DEF AgreeInv, IInv, EventInv, Bought
    <3>2. EventFresh(w)
      BY <1>1, <2>1, <2>4 DEF AgreeInv, FreshInv
    <3>3. QED
      BY <1>1, <2>2, <3>1, <3>2 DEF EventFresh
  <2>5. QED
    BY <2>3, <2>4
<1>8. RowInv'
  BY <1>2, AppliedAgrees, AnsweredAgrees DEF RowInv
<1>9. QED
  BY <1>2, <1>5, <1>6, <1>7, <1>8 DEF AgreeInv

-----------------------------------------------------------------------------
(* Stripe issues an event, or a session is lost.                           *)

\* An event says what has become of its subscription, and is the completion
\* of a checkout if and only if it is the first.
LEMMA IssueAgrees ==
  ASSUME AgreeInv, IInv', NEW s \in Subs, NEW type, NEW plan, NEW status,
         Issue(type, s, plan, status), NEW f, stripe' = f,
         \A t \in Subs : t # s => f[t] = stripe[t],
         f[s].state # "none", type = "completed" <=> s \notin Bought,
         s \in Bought => f[s].cust = stripe[s].cust /\ f[s].cancel = stripe[s].cancel,
         f[s].state = Reports([type |-> type, sub |-> s, cust |-> f[s].cust,
                               plan |-> plan, status |-> status])
  PROVE  AgreeInv'
<1> DEFINE e == [type |-> type, sub |-> s, cust |-> f[s].cust,
                 plan |-> plan, status |-> status]
           n == Len(events) + 1
<1>1. /\ TypeOK /\ events' = Append(events, e)
      /\ UNCHANGED <<sub, ledger, session, customers, clock, requests, effects,
                     tidy>>
  BY DEF AgreeInv, IInv, Issue
<1>2. Len(events) \in Nat /\ n \in Nat
  BY <1>1, LenProperties DEF TypeOK
<1>3. /\ Issued' = Issued \cup {n} /\ n \notin Issued
      /\ \A i \in Issued : events'[i] = events[i]
      /\ events'[n] = e
      /\ \A i \in Issued : i <= n /\ ~(n <= i)
  <2>1. /\ Len(events') = n /\ events'[n] = e
        /\ \A i \in 1..Len(events) : events'[i] = events[i]
    BY <1>1, <1>2 DEF TypeOK
  <2>2. QED
    BY <1>2, <2>1 DEF Issued
<1>4. \A i \in Issued : events[i].sub \in Bought
  BY <1>1, IssuedType DEF AgreeInv, IInv, EventInv, Bought
<1>5. Bought' = Bought \cup {s}
  BY DEF Bought
<1>6. Grows
  <2>1. ASSUME NEW t \in Bought
        PROVE  /\ t \in Bought' /\ f[t].cust = stripe[t].cust
               /\ stripe[t].cancel => f[t].cancel
    BY <1>5, <2>1 DEF Bought
  <2>2. QED
    BY <1>3, <2>1 DEF Grows
<1>7. HistoryInv'
  <2> HIDE DEF n, e
  <2>1. \A i \in Issued : events[i].cust = f[events[i].sub].cust
    <3> SUFFICES ASSUME NEW i \in Issued PROVE events[i].cust = f[events[i].sub].cust
      OBVIOUS
    <3>1. events[i].sub \in Bought /\ events[i].cust = stripe[events[i].sub].cust
      BY <1>4 DEF AgreeInv, HistoryInv
    <3>2. f[events[i].sub].cust = stripe[events[i].sub].cust
      BY <1>6, <3>1 DEF Grows
    <3>3. QED
      BY <3>1, <3>2
  <2>2. e.sub = s /\ e.type = type /\ e.cust = f[s].cust /\ Reports(e) = f[s].state
    BY DEF e
  <2>3. ASSUME NEW i \in Issued
        PROVE  events'[i].type = "completed" <=>
                 \A j \in Issued' : events'[j].sub = events'[i].sub => i <= j
    BY <1>3, <2>3 DEF AgreeInv, HistoryInv
  <2>4. n <= n
    BY <1>2 DEF n
  <2>5. e.type = "completed" <=> \A j \in Issued' : events'[j].sub = s => n <= j
    <3>1. CASE s \in Bought
      <4>1. PICK i \in Issued : events[i].sub = s
        BY <3>1 DEF AgreeInv, HistoryInv
      <4>2. QED
        BY <1>3, <2>2, <3>1, <4>1
    <3>2. CASE s \notin Bought
      BY <1>3, <1>4, <2>2, <2>4, <3>2
    <3>3. QED
      BY <3>1, <3>2
  <2>6. ASSUME NEW i \in Issued'
        PROVE  /\ events'[i].cust = f[events'[i].sub].cust
               /\ events'[i].type = "completed" <=>
                    \A j \in Issued' : events'[j].sub = events'[i].sub => i <= j
    <3>1. CASE i \in Issued
      BY <1>3, <2>1, <2>3, <3>1
    <3>2. CASE i = n
      BY <1>3, <2>2, <2>5, <3>2
    <3>3. QED
      BY <1>3, <3>1, <3>2
  <2>7. ASSUME NEW t \in Bought'
        PROVE  \E i \in Issued' :
                 /\ events'[i].sub = t /\ Reports(events'[i]) = f[t].state
                 /\ \A j \in Issued' : events'[j].sub = t => j <= i
    <3>1. CASE t = s
      <4>1. n \in Issued'
        BY <1>3
      <4>2. events'[n].sub = t /\ Reports(events'[n]) = f[t].state
        BY <1>3, <2>2, <3>1
      <4>3. \A j \in Issued' : j <= n
        BY <1>3, <2>4
      <4>4. QED
        BY <4>1, <4>2, <4>3
    <3>2. CASE t # s
      <4>1. t \in Bought /\ f[t] = stripe[t]
        BY <1>5, <3>2 DEF Bought
      <4>2. PICK i \in Issued :
              /\ events[i].sub = t /\ Reports(events[i]) = stripe[t].state
              /\ \A j \in Issued : events[j].sub = t => j <= i
        BY <4>1 DEF AgreeInv, HistoryInv
      <4>3. \A j \in Issued' : events'[j].sub = t => j <= i
        BY <1>3, <2>2, <3>2, <4>2
      <4>4. i \in Issued' /\ events'[i] = events[i]
        BY <1>3, <4>2
      <4>5. QED
        BY <4>1, <4>2, <4>3, <4>4
    <3>3. QED
      BY <3>1, <3>2
  <2>8. QED
    BY <2>6, <2>7 DEF HistoryInv
<1>8. FreshInv'
  BY <1>1, <1>6, FreshStays DEF FreshInv
<1>9. QED
  BY <1>1, <1>6, <1>7, <1>8, RowStays DEF AgreeInv

\* What the customer does at Stripe comes to the row only as an event.
LEMMA StripeAgrees ==
  ASSUME AgreeInv, IInv', NEW s \in Subs,
         \/ \E o \in offers : Purchase(s, o)
         \/ FailPayment(s) \/ CollectPayment(s) \/ Notify(s) \/ Terminate(s)
  PROVE  AgreeInv'
<1>1. stripe \in [Subs -> StripeSub]
  BY DEF AgreeInv, IInv, TypeOK
<1>2. ASSUME NEW o \in offers, Purchase(s, o)
      PROVE  AgreeInv'
  <2> DEFINE f == [stripe EXCEPT ![s] = [state |-> "active", cust |-> o.cust,
                                         plan |-> o.plan, cancel |-> FALSE]]
             e == [type |-> "completed", sub |-> s, cust |-> f[s].cust,
                   plan |-> o.plan, status |-> "active"]
  <2>1. s \notin Bought /\ stripe' = f /\ Issue("completed", s, o.plan, "active")
    BY <1>2 DEF Purchase, Bought
  <2>2. f[s].state = "active" /\ \A t \in Subs : t # s => f[t] = stripe[t]
    BY <1>1
  <2>3. Reports(e) = "active"
    BY DEF Reports
  <2> HIDE DEF f
  <2>4. QED
    BY <2>1, <2>2, <2>3, IssueAgrees
<1>3. ASSUME Live(s), NEW f, stripe' = f, NEW type, type # "completed",
             NEW status, Issue(type, s, None, status),
             \A t \in Subs : t # s => f[t] = stripe[t],
             f[s].state # "none", f[s].cust = stripe[s].cust,
             f[s].cancel = stripe[s].cancel,
             f[s].state = Reports([type |-> type, sub |-> s, cust |-> f[s].cust,
                                   plan |-> None, status |-> status])
      PROVE  AgreeInv'
  <2>1. s \in Bought
    BY <1>3 DEF Live, Bought
  <2>2. QED
    BY <1>3, <2>1, IssueAgrees
<1>4. CASE FailPayment(s)
  <2> DEFINE f == [stripe EXCEPT ![s].state = "past_due"]
  <2>1. Live(s) /\ stripe' = f /\ Issue("failed", s, None, "past_due")
    BY <1>4 DEF FailPayment
  <2>2. /\ f[s].state = "past_due" /\ \A t \in Subs : t # s => f[t] = stripe[t]
        /\ f[s].cust = stripe[s].cust /\ f[s].cancel = stripe[s].cancel
    BY <1>1 DEF StripeSub
  <2> HIDE DEF f
  <2>3. Reports([type |-> "failed", sub |-> s, cust |-> f[s].cust,
                 plan |-> None, status |-> "past_due"]) = "past_due"
    BY DEF Reports
  <2>4. QED
    BY <1>3, <2>1, <2>2, <2>3
<1>5. CASE CollectPayment(s)
  <2> DEFINE f == [stripe EXCEPT ![s].state = "active"]
  <2>1. Live(s) /\ stripe' = f /\ Issue("paid", s, None, "active")
    BY <1>5 DEF CollectPayment
  <2>2. /\ f[s].state = "active" /\ \A t \in Subs : t # s => f[t] = stripe[t]
        /\ f[s].cust = stripe[s].cust /\ f[s].cancel = stripe[s].cancel
    BY <1>1 DEF StripeSub
  <2> HIDE DEF f
  <2>3. Reports([type |-> "paid", sub |-> s, cust |-> f[s].cust,
                 plan |-> None, status |-> "active"]) = "active"
    BY DEF Reports
  <2>4. QED
    BY <1>3, <2>1, <2>2, <2>3
<1>6. CASE Terminate(s)
  <2> DEFINE f == [stripe EXCEPT ![s].state = "canceled"]
  <2>1. Live(s) /\ stripe' = f /\ Issue("deleted", s, None, "active")
    BY <1>6 DEF Terminate
  <2>2. /\ f[s].state = "canceled" /\ \A t \in Subs : t # s => f[t] = stripe[t]
        /\ f[s].cust = stripe[s].cust /\ f[s].cancel = stripe[s].cancel
    BY <1>1 DEF StripeSub
  <2> HIDE DEF f
  <2>3. Reports([type |-> "deleted", sub |-> s, cust |-> f[s].cust,
                 plan |-> None, status |-> "active"]) = "canceled"
    BY DEF Reports
  <2>4. QED
    BY <1>3, <2>1, <2>2, <2>3
<1>7. CASE Notify(s)
  <2>1. PICK status \in Reported :
          StatusMap[status] = stripe[s].state /\ Issue("updated", s, None, status)
    BY <1>7 DEF Notify
  <2>2. Live(s) /\ stripe' = stripe
    BY <1>7 DEF Notify
  <2>3. Reports([type |-> "updated", sub |-> s, cust |-> stripe[s].cust,
                 plan |-> None, status |-> status]) = StatusMap[status]
    BY DEF Reports
  <2>4. stripe[s].state # "none"
    BY <2>2 DEF Live
  <2>5. QED
    BY <1>3, <2>1, <2>2, <2>3, <2>4
<1>8. QED
  BY <1>2, <1>4, <1>5, <1>6, <1>7

\* A lost session takes what it wanted to write with it.
LEMMA CrashAgrees ==
  ASSUME AgreeInv, IInv', NEW w \in Slots, Crash(w)
  PROVE  AgreeInv'
<1>1. /\ session' = [session EXCEPT ![w] = Closed]
      /\ UNCHANGED <<sub, ledger, stripe, events, tidy>>
  BY DEF Crash
<1>2. HistoryInv' /\ Bought' = Bought /\ Issued' = Issued
  BY <1>1, HistoryStays DEF Issued
<1>3. Grows
  BY <1>1, <1>2 DEF Grows
<1>4. FreshInv'
  <2> SUFFICES ASSUME tidy, NEW v \in Slots, session'[v].open
               PROVE  IF session'[v].event = 0 THEN RequestFresh(v)' ELSE EventFresh(v)'
    BY <1>1 DEF FreshInv
  <2>1. v # w /\ session'[v] = session[v]
    BY <1>1 DEF Closed, AgreeInv, IInv, TypeOK
  <2>2. QED
    BY <1>1, <1>3, <2>1, FreshStays
<1>5. QED
  BY <1>1, <1>2, <1>3, <1>4, RowStays DEF AgreeInv

\* Time alone changes nothing of this.
LEMMA StillAgrees ==
  ASSUME AgreeInv, IInv', UNCHANGED <<sub, ledger, session, stripe, events, tidy>>
  PROVE  AgreeInv'
<1>1. HistoryInv' /\ Bought' = Bought /\ Issued' = Issued
  BY HistoryStays DEF Issued
<1>2. Grows
  BY <1>1 DEF Grows
<1>3. FreshInv'
  BY <1>2, FreshStays DEF FreshInv
<1>4. QED
  BY <1>1, <1>2, <1>3, RowStays DEF AgreeInv

LEMMA AgreeStep == AgreeInv /\ [Next]_vars => AgreeInv'
<1> SUFFICES ASSUME AgreeInv, [Next]_vars PROVE AgreeInv'
  OBVIOUS
<1>1. IInv'
  BY InvStep DEF AgreeInv
<1>2. CASE Advance \/ UNCHANGED vars
  BY <1>1, <1>2, StillAgrees DEF Advance, vars
<1>3. QED
  BY <1>1, <1>2, CheckoutAgrees, ChangePlanAgrees, CancelAgrees, EventAgrees,
     CommitAgrees, CrashAgrees, StripeAgrees DEF Next

LEMMA AgreeAlways == SafetySpec => []AgreeInv
  BY AgreeInit, AgreeStep, PTL DEF SafetySpec

\* A row that has applied every event, in order and one at a time, says of the
\* only subscription ever bought what Stripe says of it.
THEOREM BillingCaughtUp == SafetySpec => []CaughtUpRowAgrees
<1>1. AgreeInv => CaughtUpRowAgrees
  <2> SUFFICES ASSUME AgreeInv, tidy, ledger = Issued, NEW s \in Bought, Bought = {s}
               PROVE  /\ sub.subId = s /\ sub.cust = stripe[s].cust
                      /\ sub.status = stripe[s].state
                      /\ sub.cancel => stripe[s].cancel
    BY DEF CaughtUpRowAgrees
  <2>1. \A i \in Issued : events[i].sub = s
    BY IssuedType DEF AgreeInv, IInv, EventInv, Bought
  <2>2. PICK last \in Issued :
          /\ Reports(events[last]) = stripe[s].state
          /\ \A j \in Issued : j <= last
    BY <2>1 DEF AgreeInv, HistoryInv
  <2>3. s \in Subs /\ Agrees(s)
    BY DEF AgreeInv, RowInv, Bought
  <2>4. PICK n \in ledger :
          /\ \A i \in ledger : i <= n
          /\ sub.status = Reports(events[n])
          /\ sub.subId = s /\ sub.cust = stripe[s].cust
          /\ sub.cancel => stripe[s].cancel
    BY <2>2, <2>3 DEF Agrees
  <2>5. n \in Nat /\ last \in Nat /\ n <= last /\ last <= n
    BY <2>2, <2>4 DEF Issued
  <2>6. n = last
    BY <2>5
  <2>7. QED
    BY <2>2, <2>4, <2>6
<1>2. QED
  BY <1>1, AgreeAlways, PTL

=============================================================================
