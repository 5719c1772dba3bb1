----------------------------- MODULE QuoteProofs -----------------------------
(***************************************************************************)
(* Proofs about QuoteLifecycle, for every set of quotes and requests, every*)
(* validity period and every bound on the clock.                           *)
(***************************************************************************)
EXTENDS QuoteLifecycle, TLAPS

-----------------------------------------------------------------------------
(* Type correctness.                                                       *)

\* Every row, session and history value keeps its type: no handler writes a
\* column a value the others cannot read.
LEMMA TypeInit == Init => TypeOK
  BY QuoteConstants DEF Init, TypeOK, QuoteRow, AbsentRow, Session, NewSession,
     Statuses, Phases, Ops, Steps

\* A load and the end of a session keep every session well typed.
LEMMA LoadType ==
  ASSUME TypeOK, NEW r \in Requests, NEW q \in Quotes, NEW op \in Ops,
         Load(r, op, q)
  PROVE  TypeOK'
  BY DEF TypeOK, Load, Session, Phases, QuoteRow

LEMMA CloseType ==
  ASSUME TypeOK, NEW r \in Requests, NEW phase \in Phases, Close(r, phase)
  PROVE  txn' \in [Requests -> Session]
<1> DEFINE s == [txn[r] EXCEPT !.pc = phase, !.sawToken = FALSE,
                               !.sawRevoked = FALSE, !.sawSteps = {},
                               !.at = IF txn[r].op = "accept" THEN txn[r].at ELSE 0]
<1>1. txn[r] \in Session /\ txn[r].at \in Nat
  BY DEF TypeOK, Session
<1>2. (IF txn[r].op = "accept" THEN txn[r].at ELSE 0) \in Nat
  BY <1>1
<1>3. s \in Session
  BY <1>1, <1>2, Zenon DEF Session
<1>4. QED
  BY <1>3 DEF TypeOK, Close

\* Storing a well-typed row keeps the table well typed.
LEMMA RowType ==
  ASSUME TypeOK, NEW q \in Quotes, NEW row \in QuoteRow,
         quote' = [quote EXCEPT ![q] = row]
  PROVE  quote' \in [Quotes -> QuoteRow]
  BY DEF TypeOK

LEMMA TickType ==
  ASSUME TypeOK, NEW r \in Requests, NEW step \in Steps, Tick(r, step)
  PROVE  onboarding' \subseteq Steps
  BY DEF TypeOK, Tick, Session

LEMMA RivalsType ==
  ASSUME NEW r \in Requests
  PROVE  RivalsOf(r) \subseteq Requests
  BY DEF RivalsOf

\* Every step keeps the types.
LEMMA TypeStep == TypeOK /\ [Next]_vars => TypeOK'
<1> SUFFICES ASSUME TypeOK, [Next]_vars PROVE TypeOK'
  OBVIOUS
<1> USE QuoteConstants
<1>1. ASSUME NEW r \in Requests, NEW q \in Quotes,
             \/ BeginCreate(r, q) \/ BeginSend(r, q) \/ BeginExpire(r, q)
             \/ BeginRevoke(r, q) \/ BeginOrder(r, q)
             \/ \E channel \in Channels : BeginAccept(r, q, channel)
      PROVE  TypeOK'
  BY <1>1, LoadType DEF BeginCreate, BeginSend, BeginExpire, BeginRevoke,
     BeginOrder, BeginAccept, Ops
<1>2. ASSUME NEW r \in Requests, NEW q \in Quotes, CommitCreate(r, q)
      PROVE  TypeOK'
  <2>1. txn' \in [Requests -> Session]
    BY <1>2, CloseType DEF CommitCreate, Phases
  <2>2. onboarding' \subseteq Steps
    BY <1>2, TickType DEF CommitCreate, Steps
  <2>3. txn[r].at + ValidFor \in Nat
    BY DEF TypeOK, Session
  <2>4. quote' \in [Quotes -> QuoteRow]
    <3>1. PICK lines \in BOOLEAN :
            quote' = [quote EXCEPT ![q] =
                        [AbsentRow EXCEPT !.status = "draft", !.customer = TRUE,
                                          !.materials = lines,
                                          !.expires = txn[r].at + ValidFor]]
      BY <1>2 DEF CommitCreate
    <3> DEFINE row == [AbsentRow EXCEPT !.status = "draft", !.customer = TRUE,
                                        !.materials = lines,
                                        !.expires = txn[r].at + ValidFor]
    <3>2. row \in QuoteRow
      BY <2>3 DEF QuoteRow, AbsentRow, Statuses
    <3>3. QED
      BY <3>1, <3>2, RowType
  <2>5. QED
    BY <1>2, <2>1, <2>2, <2>4 DEF CommitCreate, TypeOK
<1>3. ASSUME NEW r \in Requests, NEW q \in Quotes, CommitSend(r, q)
      PROVE  TypeOK'
  <2>1. txn' \in [Requests -> Session]
    BY <1>3, CloseType DEF CommitSend, Phases
  <2>2. quote' \in [Quotes -> QuoteRow]
    <3> DEFINE row == [quote[q] EXCEPT
                     !.status = IF txn[r].saw # "sent" THEN "sent" ELSE quote[q].status,
                     !.token = r,
                     !.revokedAt = IF txn[r].sawRevoked THEN None
                                  ELSE quote[q].revokedAt]
    <3>1. quote[q] \in QuoteRow
      BY DEF TypeOK
    <3>2. /\ (IF txn[r].saw # "sent" THEN "sent" ELSE quote[q].status) \in Statuses
          /\ (IF txn[r].sawRevoked THEN None ELSE quote[q].revokedAt)
               \in Requests \cup {None}
      BY <3>1 DEF QuoteRow, Statuses
    <3>3. row \in QuoteRow
      BY <3>1, <3>2, Zenon DEF QuoteRow
    <3>4. QED
      BY <1>3, <3>3, RowType DEF CommitSend
  <2>3. QED
    BY <1>3, <2>1, <2>2 DEF CommitSend, TypeOK
<1>4. ASSUME NEW r \in Requests, NEW q \in Quotes, CommitAccept(r, q)
      PROVE  TypeOK'
  <2>1. txn' \in [Requests -> Session]
    BY <1>4, CloseType DEF CommitAccept, Phases
  <2>2. onboarding' \subseteq Steps
    BY <1>4, TickType DEF CommitAccept, Steps
  <2>3. quote' \in [Quotes -> QuoteRow]
    <3> DEFINE row == [quote[q] EXCEPT !.status = "accepted",
                                        !.acceptedAt = txn[r].at,
                                        !.jobId = r]
    <3>1. quote[q] \in QuoteRow /\ txn[r].at \in Nat
      BY DEF TypeOK, Session
    <3>2. row \in QuoteRow
      BY <3>1, Zenon DEF QuoteRow, Statuses
    <3>3. QED
      BY <1>4, <3>2, RowType DEF CommitAccept
  <2>4. jobs' \subseteq Child
    BY <1>4 DEF CommitAccept, TypeOK, Child
  <2>5. rivals' \in [Requests -> SUBSET Requests]
    BY <1>4, RivalsType DEF CommitAccept, TypeOK
  <2>6. QED
    BY <1>4, <2>1, <2>2, <2>3, <2>4, <2>5 DEF CommitAccept, TypeOK
<1>5. ASSUME NEW r \in Requests, NEW q \in Quotes, RejectAccept(r, q)
      PROVE  TypeOK'
  <2>1. txn' \in [Requests -> Session]
    BY <1>5, CloseType DEF RejectAccept, Phases
  <2>2. QED
    BY <1>5, <2>1 DEF RejectAccept, TypeOK
<1>6. ASSUME NEW r \in Requests, NEW q \in Quotes, CommitExpire(r, q)
      PROVE  TypeOK'
  <2>1. txn' \in [Requests -> Session]
    BY <1>6, CloseType DEF CommitExpire, Phases
  <2>2. quote' \in [Quotes -> QuoteRow]
    <3> DEFINE row == [quote[q] EXCEPT !.status = "expired"]
    <3>1. row \in QuoteRow
      BY DEF TypeOK, QuoteRow, Statuses
    <3>2. QED
      BY <1>6, <3>1, RowType DEF CommitExpire
  <2>3. QED
    BY <1>6, <2>1, <2>2 DEF CommitExpire, TypeOK
<1>7. ASSUME NEW r \in Requests, NEW q \in Quotes, CommitRevoke(r, q)
      PROVE  TypeOK'
  <2>1. txn' \in [Requests -> Session]
    BY <1>7, CloseType DEF CommitRevoke, Phases
  <2>2. quote' \in [Quotes -> QuoteRow]
    <3> DEFINE row == [quote[q] EXCEPT
                     !.revokedAt = r,
                     !.token = IF txn[r].sawToken THEN None ELSE quote[q].token]
    <3>1. quote[q] \in QuoteRow
      BY DEF TypeOK
    <3>2. (IF txn[r].sawToken THEN None ELSE quote[q].token)
            \in Requests \cup {None}
      BY <3>1 DEF QuoteRow
    <3>3. row \in QuoteRow
      BY <3>1, <3>2, Zenon DEF QuoteRow
    <3>4. QED
      BY <1>7, <3>3, RowType DEF CommitRevoke
  <2>3. QED
    BY <1>7, <2>1, <2>2 DEF CommitRevoke, TypeOK, Minted
<1>8. ASSUME NEW r \in Requests, NEW q \in Quotes, CommitOrder(r, q)
      PROVE  TypeOK'
  <2>1. txn' \in [Requests -> Session]
    BY <1>8, CloseType DEF CommitOrder, Phases
  <2>2. orders' \subseteq Child
    BY <1>8 DEF CommitOrder, TypeOK, Child
  <2>3. rivals' \in [Requests -> SUBSET Requests]
    BY <1>8, RivalsType DEF CommitOrder, TypeOK
  <2>4. QED
    BY <1>8, <2>1, <2>2, <2>3 DEF CommitOrder, TypeOK
<1>9. ASSUME NEW q \in Quotes, PhotoQuote(q)
      PROVE  TypeOK'
  <2>1. quote' \in [Quotes -> QuoteRow]
    <3> DEFINE row == [AbsentRow EXCEPT !.status = "sent",
                                         !.expires = clock + ValidFor]
    <3>1. row \in QuoteRow
      <4>1. AbsentRow \in QuoteRow /\ clock + ValidFor \in Nat
        BY DEF TypeOK, AbsentRow, QuoteRow, Statuses
      <4>2. QED
        BY <4>1, Zenon DEF QuoteRow, Statuses
    <3>2. QED
      BY <1>9, <3>1, RowType DEF PhotoQuote
  <2>2. QED
    BY <1>9, <2>1 DEF PhotoQuote, TypeOK
<1>10. ASSUME NEW r \in Requests, Abort(r)
       PROVE  TypeOK'
  BY <1>10 DEF Abort, TypeOK, Session, NewSession, Phases, Ops, Statuses
<1>11. CASE Advance
  BY <1>11 DEF Advance, TypeOK
<1>12. CASE UNCHANGED vars
  BY <1>12 DEF vars, TypeOK
<1>13. ASSUME NEW r \in Requests, NEW q \in Quotes, LoadOrg(r, q)
       PROVE  TypeOK'
  <2>1. txn[r] \in Session /\ onboarding \in SUBSET Steps
    BY DEF TypeOK
  <2>2. [txn[r] EXCEPT !.sawSteps = onboarding] \in Session
    BY <2>1 DEF Session
  <2>3. txn' \in [Requests -> Session]
    BY <1>13, <2>2 DEF LoadOrg, TypeOK
  <2>4. QED
    BY <1>13, <2>3 DEF LoadOrg, TypeOK
<1>14. QED
  BY <1>1, <1>2, <1>3, <1>4, <1>5, <1>6, <1>7, <1>8, <1>9, <1>10, <1>11, <1>12,
     <1>13 DEF Next

\* Every column of every row always holds a value of its type.
THEOREM QuoteTypes == Spec => []TypeOK
  BY TypeInit, TypeStep, PTL DEF Spec

-----------------------------------------------------------------------------
(* The inductive invariant.                                                *)

PastDraft(q) == quote[q].status \in {"sent", "accepted", "expired"}

\* What an open session may rely on, although it loaded the row earlier.
Relies(r) ==
    /\ txn[r].quote \in Quotes
    /\ txn[r].op = "create" => quote[txn[r].quote].status = "absent"
    /\ txn[r].op \in {"send", "revoke"} => quote[txn[r].quote].status # "absent"
    /\ txn[r].op = "send" => txn[r].saw \in {"draft", "sent"}
    /\ (txn[r].op = "send" /\ txn[r].saw = "sent") => PastDraft(txn[r].quote)
    /\ txn[r].op \in {"accept", "expire"} =>
         txn[r].saw = "sent" /\ PastDraft(txn[r].quote)
    /\ txn[r].op = "accept" => txn[r].at <= quote[txn[r].quote].expires
    /\ txn[r].op = "order" => JobsOf(txn[r].quote) # {}

SessionInv == \A r \in Requests : txn[r].pc = "open" => Relies(r)

OneCreator ==
    \A q \in Quotes : \A r, s \in Requests :
      InFlight(r, "create", q) /\ InFlight(s, "create", q) => r = s

AbsentInv == \A q \in Quotes : quote[q].status = "absent" => ~quote[q].customer

\* A job row was inserted by the acceptance that is its id.
JobInv ==
    \A j \in jobs :
      /\ txn[j.id].pc = "committed"
      /\ txn[j.id].op = "accept"
      /\ txn[j.id].quote = j.quote
      /\ txn[j.id].at <= quote[j.quote].expires
      /\ quote[j.quote].customer
      /\ PastDraft(j.quote)

OrderInv ==
    \A o \in orders :
      /\ txn[o.id].pc = "committed"
      /\ txn[o.id].op = "order"
      /\ JobsOf(o.quote) # {}

\* A customer's quote left "draft" through a send that is still on record.
SenderInv ==
    \A q \in Quotes : (PastDraft(q) /\ quote[q].customer) =>
      \E s \in Minted(q) : txn[s].saw = "draft"

\* Once q is booked, every approval in flight was in flight at each booking.
OverlapInv ==
    \A q \in Quotes : (JobsOf(q) # {} /\ ~SentTwiceFromDraft(q)) =>
      /\ quote[q].status \in {"accepted", "expired"}
      /\ \A r \in Requests : InFlight(r, "accept", q) =>
           \A j \in JobsOf(q) : r \in rivals[j.id]

OrderOverlapInv ==
    \A q \in Quotes : \A r \in Requests : InFlight(r, "order", q) =>
      \A o \in OrdersOf(q) : r \in rivals[o.id]

DeadLinkInv ==
    \A t \in deadLinks :
      /\ txn[t].pc = "committed"
      /\ txn[t].quote \in Quotes
      /\ quote[txn[t].quote].token = t => quote[txn[t].quote].revokedAt # None

ChecklistInv ==
    \A r \in Requests :
      /\ "first_quote_approved" \in txn[r].sawSteps => jobs # {}
      /\ "first_quote_generated" \in txn[r].sawSteps =>
           \E q \in Quotes : quote[q].customer

IInv ==
    /\ TypeOK
    /\ SessionInv /\ OneCreator /\ AbsentInv
    /\ JobInv /\ OrderInv /\ SenderInv
    /\ OverlapInv /\ OrderOverlapInv /\ DeadLinkInv /\ ChecklistInv
    /\ BookingRecordAgrees /\ DuplicateJobsNeedOverlap
    /\ DuplicateOrdersNeedOverlap /\ ChecklistNeverOverclaims

-----------------------------------------------------------------------------
(* What a load, the end of a session and a write do, read pointwise.       *)

LEMMA LoadEffect ==
  ASSUME TypeOK, NEW r \in Requests, NEW q \in Quotes, NEW op \in Ops,
         Load(r, op, q)
  PROVE  /\ txn[r].pc = "new"
         /\ txn'[r].pc = "open" /\ txn'[r].op = op /\ txn'[r].quote = q
         /\ txn'[r].saw = quote[q].status
         /\ txn'[r].sawSteps = onboarding
         /\ op = "accept" => txn'[r].at = clock
         /\ \A s \in Requests : s # r => txn'[s] = txn[s]
         /\ UNCHANGED <<quote, jobs, orders, onboarding, clock, deadLinks, rivals>>
  BY DEF TypeOK, Load

LEMMA CloseEffect ==
  ASSUME TypeOK, NEW r \in Requests, NEW phase \in Phases, Close(r, phase)
  PROVE  /\ txn'[r].pc = phase
         /\ txn'[r].op = txn[r].op /\ txn'[r].quote = txn[r].quote
         /\ txn'[r].saw = txn[r].saw
         /\ txn'[r].sawSteps = {}
         /\ txn[r].op = "accept" => txn'[r].at = txn[r].at
         /\ \A s \in Requests : s # r => txn'[s] = txn[s]
<1>1. txn[r] \in Session
  BY DEF TypeOK
<1>2. txn'[r] = [txn[r] EXCEPT !.pc = phase, !.sawToken = FALSE,
                               !.sawRevoked = FALSE, !.sawSteps = {},
                               !.at = IF txn[r].op = "accept" THEN txn[r].at ELSE 0]
  BY DEF TypeOK, Close
<1>3. \A s \in Requests : s # r => txn'[s] = txn[s]
  BY DEF TypeOK, Close
<1>4. QED
  BY <1>1, <1>2, <1>3, Zenon DEF Session

\* A send that committed stays on record while other sessions load or end.
LEMMA MintedLoad ==
  ASSUME TypeOK, NEW r \in Requests, NEW q \in Quotes, NEW op \in Ops,
         Load(r, op, q)
  PROVE  \A p \in Quotes : Minted(p)' = Minted(p)
                           /\ SentTwiceFromDraft(p)' = SentTwiceFromDraft(p)
<1>1. /\ txn[r].pc = "new" /\ txn'[r].pc = "open"
      /\ \A s \in Requests : s # r => txn'[s] = txn[s]
  BY LoadEffect
<1>2. \A p \in Quotes : Minted(p)' = Minted(p)
  BY <1>1 DEF Minted
<1>3. \A p \in Quotes : \A s \in Minted(p) : txn'[s] = txn[s]
  BY <1>1 DEF Minted
<1>4. QED
  BY <1>2, <1>3 DEF SentTwiceFromDraft

LEMMA MintedClose ==
  ASSUME TypeOK, NEW r \in Requests, NEW phase \in Phases, Close(r, phase),
         txn[r].pc = "open"
  PROVE  /\ \A p \in Quotes : /\ Minted(p) \subseteq Minted(p)'
                              /\ SentTwiceFromDraft(p) => SentTwiceFromDraft(p)'
         /\ \A p \in Quotes : \A s \in Minted(p) : txn'[s] = txn[s]
<1>1. \A s \in Requests : s # r => txn'[s] = txn[s]
  BY CloseEffect
<1>2. \A p \in Quotes : r \notin Minted(p)
  BY DEF Minted
<1>3. \A p \in Quotes : \A s \in Minted(p) : s \in Requests /\ txn'[s] = txn[s]
  BY <1>1, <1>2 DEF Minted
<1>4. \A p \in Quotes : Minted(p) \subseteq Minted(p)'
  BY <1>3 DEF Minted
<1>5. QED
  BY <1>3, <1>4 DEF SentTwiceFromDraft

-----------------------------------------------------------------------------
(* The initial states.                                                     *)

LEMMA InvInit == Init => IInv
<1> SUFFICES ASSUME Init PROVE IInv
  OBVIOUS
<1> USE QuoteConstants DEF Init
<1>1. TypeOK
  BY TypeInit
<1>2. SessionInv /\ OneCreator /\ AbsentInv /\ ChecklistInv
  BY DEF SessionInv, OneCreator, AbsentInv, ChecklistInv, InFlight, NewSession,
     AbsentRow
<1>3. JobInv /\ OrderInv /\ OrderOverlapInv /\ DeadLinkInv
  BY DEF JobInv, OrderInv, OrderOverlapInv, DeadLinkInv, OrdersOf
<1>4. SenderInv
  BY DEF SenderInv, PastDraft, AbsentRow
<1>5. OverlapInv
  BY DEF OverlapInv, JobsOf
<1>6. BookingRecordAgrees /\ DuplicateJobsNeedOverlap
      /\ DuplicateOrdersNeedOverlap /\ ChecklistNeverOverclaims
  BY DEF BookingRecordAgrees, DuplicateJobsNeedOverlap,
     DuplicateOrdersNeedOverlap, ChecklistNeverOverclaims, JobsOf, OrdersOf,
     AbsentRow
<1>7. QED
  BY <1>1, <1>2, <1>3, <1>4, <1>5, <1>6 DEF IInv

-----------------------------------------------------------------------------
(* Loading a quote.                                                        *)

LEMMA AcceptedHasJob ==
  ASSUME IInv, NEW q \in Quotes, quote[q].status = "accepted"
  PROVE  JobsOf(q) # {}
<1>1. [id |-> quote[q].jobId, quote |-> q] \in jobs
  BY DEF IInv, BookingRecordAgrees
<1>2. QED
  BY <1>1 DEF JobsOf

\* The guards under which a handler loads a quote, operation by operation.
LoadGuard(r, op, q) ==
    /\ op \in Ops
    /\ op = "create" => /\ quote[q].status = "absent"
                        /\ ~ \E s \in Requests : InFlight(s, "create", q)
    /\ op \in {"send", "revoke"} => quote[q].status # "absent"
    /\ op = "send" => quote[q].status \in {"draft", "sent"}
    /\ op \in {"accept", "expire"} => quote[q].status = "sent"
    /\ op = "accept" => ~Expired(q)
    /\ op = "order" => quote[q].status = "accepted" /\ OrdersOf(q) = {}

LEMMA LoadKeeps ==
  ASSUME IInv, TypeOK', NEW r \in Requests, NEW q \in Quotes, NEW op,
         LoadGuard(r, op, q), Load(r, op, q)
  PROVE  IInv'
<1>1. /\ op \in Ops /\ TypeOK
  BY DEF IInv, LoadGuard
<1>2. /\ txn[r].pc = "new"
      /\ txn'[r].pc = "open" /\ txn'[r].op = op /\ txn'[r].quote = q
      /\ txn'[r].saw = quote[q].status
      /\ txn'[r].sawSteps = onboarding
      /\ op = "accept" => txn'[r].at = clock
      /\ \A s \in Requests : s # r => txn'[s] = txn[s]
      /\ UNCHANGED <<quote, jobs, orders, onboarding, clock, deadLinks, rivals>>
  BY <1>1, LoadEffect
<1>3. \A p \in Quotes : /\ Minted(p)' = Minted(p)
                        /\ SentTwiceFromDraft(p)' = SentTwiceFromDraft(p)
                        /\ JobsOf(p)' = JobsOf(p) /\ OrdersOf(p)' = OrdersOf(p)
                        /\ PastDraft(p)' = PastDraft(p)
  BY <1>1, <1>2, MintedLoad DEF JobsOf, OrdersOf, PastDraft
<1>4. SessionInv'
  <2>1. op = "accept" => clock <= quote[q].expires
    BY <1>1 DEF LoadGuard, Expired, TypeOK, QuoteRow
  <2>2. op = "order" => JobsOf(q) # {}
    BY AcceptedHasJob DEF LoadGuard
  <2>3. quote[q].status = "sent" => PastDraft(q)
    BY DEF PastDraft
  <2> SUFFICES ASSUME NEW s \in Requests, txn'[s].pc = "open"
               PROVE  Relies(s)'
    BY DEF SessionInv
  <2>4. CASE s = r
    BY <1>2, <1>3, <2>1, <2>2, <2>3, <2>4 DEF LoadGuard, Relies
  <2>5. CASE s # r
    <3>1. txn'[s] = txn[s]
      BY <1>2, <2>5
    <3>2. Relies(s)
      BY <3>1 DEF IInv, SessionInv
    <3>3. QED
      BY <1>2, <1>3, <3>1, <3>2 DEF Relies
  <2>6. QED
    BY <2>4, <2>5
<1>5. OneCreator'
  BY <1>1, <1>2 DEF LoadGuard, IInv, OneCreator, InFlight
<1>6. AbsentInv' /\ BookingRecordAgrees'
  <2>1. \A j \in jobs : j.id \in Requests /\ txn'[j.id] = txn[j.id]
    BY <1>1, <1>2 DEF IInv, JobInv, TypeOK, Child
  <2>2. \A p \in Quotes : quote[p].jobId # None =>
          txn'[quote[p].jobId] = txn[quote[p].jobId]
    BY <2>1 DEF IInv, BookingRecordAgrees
  <2>3. QED
    BY <1>2, <1>3, <2>2 DEF IInv, AbsentInv, BookingRecordAgrees
<1>7. JobInv' /\ OrderInv'
  <2>1. \A j \in jobs : /\ j.id \in Requests /\ j.quote \in Quotes
                        /\ txn'[j.id] = txn[j.id]
    BY <1>1, <1>2 DEF IInv, JobInv, TypeOK, Child
  <2>2. \A o \in orders : /\ o.id \in Requests /\ o.quote \in Quotes
                          /\ txn'[o.id] = txn[o.id]
    BY <1>1, <1>2 DEF IInv, OrderInv, TypeOK, Child
  <2>3. QED
    BY <1>2, <1>3, <2>1, <2>2 DEF IInv, JobInv, OrderInv
<1>8. SenderInv'
  <2>1. \A p \in Quotes : \A s \in Minted(p) : txn'[s] = txn[s]
    BY <1>2 DEF Minted
  <2>2. QED
    BY <1>2, <1>3, <2>1 DEF IInv, SenderInv
<1>9. OverlapInv' /\ OrderOverlapInv'
  <2>1. op = "accept" => quote[q].status = "sent"
    BY DEF LoadGuard
  <2>2. op = "order" => OrdersOf(q) = {}
    BY DEF LoadGuard
  <2>3. \A s \in Requests, p \in Quotes, o \in Ops :
           InFlight(s, o, p)' => InFlight(s, o, p) \/ (s = r /\ o = op /\ p = q)
    BY <1>2 DEF InFlight
  <2>4. QED
    BY <1>2, <1>3, <2>1, <2>2, <2>3 DEF IInv, OverlapInv, OrderOverlapInv, Ops
<1>10. DeadLinkInv'
  BY <1>1, <1>2 DEF IInv, DeadLinkInv, TypeOK
<1>11. ChecklistInv'
  BY <1>2 DEF IInv, ChecklistInv, ChecklistNeverOverclaims
<1>12. DuplicateJobsNeedOverlap' /\ DuplicateOrdersNeedOverlap'
       /\ ChecklistNeverOverclaims'
  BY <1>2, <1>3 DEF IInv, DuplicateJobsNeedOverlap, DuplicateOrdersNeedOverlap,
     ChecklistNeverOverclaims
<1>13. QED
  BY <1>4, <1>5, <1>6, <1>7, <1>8, <1>9, <1>10, <1>11, <1>12 DEF IInv

-----------------------------------------------------------------------------
(* The end of a session.                                                   *)

Ending(r, phase) ==
    phase \in {"committed", "error"} /\ txn[r].pc = "open" /\ Close(r, phase)

\* The sessions that made a job or an order, or handed out a link, have
\* ended: ending another one does not touch them.
LEMMA EndingFrame ==
  ASSUME IInv, NEW r \in Requests, NEW phase, Ending(r, phase)
  PROVE  /\ \A s \in Requests, op \in Ops, p \in Quotes :
              InFlight(s, op, p)' <=> s # r /\ InFlight(s, op, p)
         /\ \A j \in jobs : /\ j.id \in Requests /\ j.quote \in Quotes
                             /\ j.id # r /\ txn'[j.id] = txn[j.id]
         /\ \A o \in orders : /\ o.id \in Requests /\ o.quote \in Quotes
                               /\ o.id # r /\ txn'[o.id] = txn[o.id]
         /\ \A t \in deadLinks : t \in Requests /\ t # r /\ txn'[t] = txn[t]
<1>1. TypeOK /\ phase \in Phases
  BY DEF IInv, Ending, Phases
<1>2. /\ txn[r].pc = "open" /\ txn'[r].pc # "open"
      /\ \A s \in Requests : s # r => txn'[s] = txn[s]
  BY <1>1, CloseEffect DEF Ending
<1>3. \A s \in Requests, op \in Ops, p \in Quotes :
         InFlight(s, op, p)' <=> s # r /\ InFlight(s, op, p)
  BY <1>2 DEF InFlight
<1>4. \A j \in jobs : /\ j.id \in Requests /\ j.quote \in Quotes
                      /\ txn[j.id].pc = "committed"
  BY <1>1 DEF IInv, JobInv, TypeOK, Child
<1>5. \A o \in orders : /\ o.id \in Requests /\ o.quote \in Quotes
                        /\ txn[o.id].pc = "committed"
  BY <1>1 DEF IInv, OrderInv, TypeOK, Child
<1>6. \A t \in deadLinks : t \in Requests /\ txn[t].pc = "committed"
  BY <1>1 DEF IInv, DeadLinkInv, TypeOK
<1>7. QED
  BY <1>2, <1>3, <1>4, <1>5, <1>6

\* What a session relies on survives the end of another one that keeps a
\* stored quote stored, past draft once it is, and with its expiry.
LEMMA EndingSessions ==
  ASSUME IInv, NEW r \in Requests, NEW phase, Ending(r, phase),
         NEW q \in Quotes,
         \A p \in Quotes : p # q => quote'[p] = quote[p],
         quote[q].status # "absent" => /\ quote'[q].status # "absent"
                                       /\ quote'[q].expires = quote[q].expires,
         PastDraft(q) => PastDraft(q)',
         quote[q].status = "absent" =>
            \/ quote'[q].status = "absent"
            \/ \A s \in Requests : InFlight(s, "create", q) => s = r,
         jobs \subseteq jobs'
  PROVE  SessionInv'
<1>1. TypeOK /\ phase \in Phases
  BY DEF IInv, Ending, Phases
<1>2. /\ txn'[r].pc # "open"
      /\ \A s \in Requests : s # r => txn'[s] = txn[s]
  BY <1>1, CloseEffect DEF Ending
<1> SUFFICES ASSUME NEW s \in Requests, txn'[s].pc = "open"
             PROVE  Relies(s)'
  BY DEF SessionInv
<1>3. s # r /\ txn'[s] = txn[s] /\ txn[s].pc = "open"
  BY <1>2
<1>4. Relies(s)
  BY <1>3 DEF IInv, SessionInv
<1>5. txn[s].quote \in Quotes
  BY <1>4 DEF Relies
<1>6. JobsOf(txn[s].quote) \subseteq JobsOf(txn[s].quote)'
  BY <1>3 DEF JobsOf
<1>7. CASE txn[s].quote # q
  BY <1>3, <1>4, <1>5, <1>6, <1>7 DEF Relies, PastDraft
<1>8. CASE txn[s].quote = q
  <2>1. txn[s].op = "create" => quote'[q].status = "absent"
    BY <1>3, <1>4, <1>8 DEF Relies, InFlight
  <2>2. PastDraft(q) => quote[q].status # "absent"
    BY DEF PastDraft
  <2>3. QED
    BY <1>3, <1>4, <1>6, <1>8, <2>1, <2>2 DEF Relies
<1>9. QED
  BY <1>7, <1>8

\* The end of a session that books and stages nothing.
LEMMA EndingQuietly ==
  ASSUME IInv, NEW r \in Requests, NEW phase, Ending(r, phase),
         UNCHANGED <<jobs, orders, rivals>>
  PROVE  /\ OneCreator' /\ OrderInv' /\ OrderOverlapInv'
         /\ DuplicateJobsNeedOverlap' /\ DuplicateOrdersNeedOverlap'
<1>1. TypeOK /\ phase \in Phases
  BY DEF IInv, Ending, Phases
<1>2. /\ \A s \in Requests, op \in Ops, p \in Quotes :
            InFlight(s, op, p)' => InFlight(s, op, p)
      /\ \A o \in orders : o.quote \in Quotes /\ txn'[o.id] = txn[o.id]
  BY EndingFrame
<1>3. \A p \in Quotes : JobsOf(p)' = JobsOf(p) /\ OrdersOf(p)' = OrdersOf(p)
  BY DEF JobsOf, OrdersOf
<1>4. \A p \in Quotes : SentTwiceFromDraft(p) => SentTwiceFromDraft(p)'
  BY <1>1, MintedClose DEF Ending
<1>5. OneCreator'
  BY <1>2 DEF IInv, OneCreator, Ops
<1>6. OrderInv' /\ OrderOverlapInv'
  BY <1>2, <1>3 DEF IInv, OrderInv, OrderOverlapInv, Ops
<1>7. DuplicateJobsNeedOverlap' /\ DuplicateOrdersNeedOverlap'
  BY <1>3, <1>4 DEF IInv, DuplicateJobsNeedOverlap, DuplicateOrdersNeedOverlap
<1>8. QED
  BY <1>5, <1>6, <1>7

\* The checklist a session has loaded stays justified: no job and no
\* customer's quote is ever taken away.
LEMMA EndingChecklist ==
  ASSUME IInv, NEW r \in Requests, NEW phase, Ending(r, phase),
         jobs \subseteq jobs',
         \A p \in Quotes : quote[p].customer => quote'[p].customer
  PROVE  ChecklistInv'
<1>1. TypeOK /\ phase \in Phases
  BY DEF IInv, Ending, Phases
<1>2. /\ txn'[r].sawSteps = {}
      /\ \A s \in Requests : s # r => txn'[s] = txn[s]
  BY <1>1, CloseEffect DEF Ending
<1>3. QED
  BY <1>2 DEF IInv, ChecklistInv

-----------------------------------------------------------------------------
(* send_quote.                                                             *)

LEMMA SendRow ==
  ASSUME TypeOK, NEW r \in Requests, NEW q \in Quotes, CommitSend(r, q)
  PROVE  /\ quote'[q].status = IF txn[r].saw # "sent" THEN "sent"
                                                     ELSE quote[q].status
         /\ quote'[q].token = r
         /\ quote'[q].customer = quote[q].customer
         /\ quote'[q].expires = quote[q].expires
         /\ quote'[q].acceptedAt = quote[q].acceptedAt
         /\ quote'[q].jobId = quote[q].jobId
         /\ \A p \in Quotes : p # q => quote'[p] = quote[p]
<1> DEFINE row == [quote[q] EXCEPT
                     !.status = IF txn[r].saw # "sent" THEN "sent" ELSE quote[q].status,
                     !.token = r,
                     !.revokedAt = IF txn[r].sawRevoked THEN None
                                  ELSE quote[q].revokedAt]
<1>1. quote[q] \in QuoteRow
  BY DEF TypeOK
<1>2. quote'[q] = row /\ \A p \in Quotes : p # q => quote'[p] = quote[p]
  BY Zenon DEF CommitSend, TypeOK
<1>3. QED
  BY <1>1, <1>2, Zenon DEF QuoteRow

LEMMA SendKeeps ==
  ASSUME IInv, TypeOK', NEW r \in Requests, NEW q \in Quotes, CommitSend(r, q)
  PROVE  IInv'
<1>1. /\ TypeOK /\ InFlight(r, "send", q) /\ Ending(r, "committed")
      /\ Close(r, "committed") /\ "committed" \in Phases
      /\ UNCHANGED <<jobs, orders, onboarding, clock, deadLinks, rivals>>
  BY DEF IInv, CommitSend, Ending, InFlight, Phases
<1>2. Relies(r) /\ txn[r].op = "send" /\ txn[r].quote = q
  BY <1>1 DEF IInv, SessionInv, InFlight
<1>3. /\ quote'[q].status = IF txn[r].saw # "sent" THEN "sent"
                                                  ELSE quote[q].status
      /\ quote'[q].token = r
      /\ quote'[q].customer = quote[q].customer
      /\ quote'[q].expires = quote[q].expires
      /\ quote'[q].acceptedAt = quote[q].acceptedAt
      /\ quote'[q].jobId = quote[q].jobId
      /\ \A p \in Quotes : p # q => quote'[p] = quote[p]
  BY <1>1, SendRow
<1>4. /\ txn'[r].pc = "committed" /\ txn'[r].op = "send" /\ txn'[r].quote = q
      /\ txn'[r].saw = txn[r].saw
  BY <1>1, <1>2, CloseEffect
<1>5. /\ \A p \in Quotes : /\ Minted(p) \subseteq Minted(p)'
                           /\ SentTwiceFromDraft(p) => SentTwiceFromDraft(p)'
      /\ \A p \in Quotes : \A s \in Minted(p) : txn'[s] = txn[s]
      /\ r \in Minted(q)' /\ r \notin Minted(q)
  BY <1>1, <1>4, MintedClose DEF Minted, InFlight
<1>6. /\ \A s \in Requests, op \in Ops, p \in Quotes :
            InFlight(s, op, p)' => InFlight(s, op, p)
      /\ \A j \in jobs : /\ j.id \in Requests /\ j.quote \in Quotes
                          /\ txn'[j.id] = txn[j.id]
      /\ \A t \in deadLinks : t \in Requests /\ t # r /\ txn'[t] = txn[t]
  BY <1>1, EndingFrame
<1>7. /\ \A p \in Quotes : JobsOf(p)' = JobsOf(p)
      /\ \A p \in Quotes : p # q => (PastDraft(p)' <=> PastDraft(p))
  BY <1>1, <1>3 DEF JobsOf, PastDraft
<1>8. /\ quote'[q].status # "absent" /\ quote[q].status # "absent"
      /\ PastDraft(q)'
      /\ txn[r].saw # "draft" => PastDraft(q)
  BY <1>2, <1>3 DEF Relies, PastDraft
<1>9. SessionInv'
  BY <1>1, <1>3, <1>8, EndingSessions
<1>10. /\ OneCreator' /\ OrderInv' /\ OrderOverlapInv'
       /\ DuplicateJobsNeedOverlap' /\ DuplicateOrdersNeedOverlap'
  BY <1>1, EndingQuietly
<1>11. ChecklistInv' /\ ChecklistNeverOverclaims'
  BY <1>1, <1>3, EndingChecklist DEF IInv, ChecklistNeverOverclaims
<1>12. AbsentInv'
  BY <1>3, <1>8 DEF IInv, AbsentInv
<1>13. JobInv'
  BY <1>1, <1>3, <1>6, <1>7, <1>8 DEF IInv, JobInv
<1>14. SenderInv'
  <2>1. \A p \in Quotes : p # q /\ PastDraft(p) /\ quote[p].customer =>
           \E s \in Minted(p)' : txn'[s].saw = "draft"
    BY <1>5 DEF IInv, SenderInv
  <2>2. quote[q].customer => \E s \in Minted(q)' : txn'[s].saw = "draft"
    BY <1>4, <1>5, <1>8 DEF IInv, SenderInv
  <2>3. QED
    BY <1>3, <1>7, <2>1, <2>2 DEF SenderInv
<1>15. OverlapInv'
  <2>1. ASSUME JobsOf(q) # {}, ~SentTwiceFromDraft(q)'
        PROVE  txn[r].saw = "sent"
    <3>1. PastDraft(q) /\ quote[q].customer
      BY <2>1 DEF IInv, JobInv, JobsOf
    <3>2. PICK s \in Minted(q) : txn[s].saw = "draft"
      BY <3>1 DEF IInv, SenderInv
    <3>3. txn[r].saw # "draft"
      BY <1>4, <1>5, <2>1, <3>2 DEF SentTwiceFromDraft
    <3>4. QED
      BY <1>2, <3>3 DEF Relies
  <2>2. QED
    BY <1>1, <1>3, <1>5, <1>6, <1>7, <2>1 DEF IInv, OverlapInv, Ops
<1>16. DeadLinkInv'
  BY <1>1, <1>3, <1>6 DEF IInv, DeadLinkInv
<1>17. BookingRecordAgrees'
  <2>1. \A p \in Quotes : quote[p].jobId # None =>
          txn'[quote[p].jobId] = txn[quote[p].jobId]
    BY <1>6 DEF IInv, BookingRecordAgrees
  <2>2. quote'[q].status = "accepted" => quote[q].status = "accepted"
    BY <1>3
  <2>3. QED
    BY <1>1, <1>3, <1>7, <2>1, <2>2 DEF IInv, BookingRecordAgrees
<1>18. QED
  BY <1>9, <1>10, <1>11, <1>12, <1>13, <1>14, <1>15, <1>16, <1>17 DEF IInv

-----------------------------------------------------------------------------
(* Expiry.                                                                 *)

LEMMA ExpireRow ==
  ASSUME TypeOK, NEW r \in Requests, NEW q \in Quotes, CommitExpire(r, q)
  PROVE  /\ quote'[q].status = "expired"
         /\ quote'[q].token = quote[q].token
         /\ quote'[q].revokedAt = quote[q].revokedAt
         /\ quote'[q].customer = quote[q].customer
         /\ quote'[q].expires = quote[q].expires
         /\ quote'[q].acceptedAt = quote[q].acceptedAt
         /\ quote'[q].jobId = quote[q].jobId
         /\ \A p \in Quotes : p # q => quote'[p] = quote[p]
<1>1. quote[q] \in QuoteRow
  BY DEF TypeOK
<1>2. /\ quote'[q] = [quote[q] EXCEPT !.status = "expired"]
      /\ \A p \in Quotes : p # q => quote'[p] = quote[p]
  BY DEF CommitExpire, TypeOK
<1>3. QED
  BY <1>1, <1>2, Zenon DEF QuoteRow

LEMMA ExpireKeeps ==
  ASSUME IInv, TypeOK', NEW r \in Requests, NEW q \in Quotes, CommitExpire(r, q)
  PROVE  IInv'
<1>1. /\ TypeOK /\ InFlight(r, "expire", q) /\ Ending(r, "committed")
      /\ Close(r, "committed") /\ "committed" \in Phases
      /\ UNCHANGED <<jobs, orders, onboarding, clock, deadLinks, rivals>>
  BY DEF IInv, CommitExpire, Ending, InFlight, Phases
<1>2. PastDraft(q)
  BY <1>1 DEF IInv, SessionInv, InFlight, Relies
<1>3. /\ quote'[q].status = "expired"
      /\ quote'[q].token = quote[q].token
      /\ quote'[q].revokedAt = quote[q].revokedAt
      /\ quote'[q].customer = quote[q].customer
      /\ quote'[q].expires = quote[q].expires
      /\ quote'[q].acceptedAt = quote[q].acceptedAt
      /\ quote'[q].jobId = quote[q].jobId
      /\ \A p \in Quotes : p # q => quote'[p] = quote[p]
  BY <1>1, ExpireRow
<1>4. \A p \in Quotes : /\ JobsOf(p)' = JobsOf(p)
                        /\ PastDraft(p)' <=> PastDraft(p)
  BY <1>1, <1>2, <1>3 DEF JobsOf, PastDraft
<1>5. /\ \A p \in Quotes : /\ Minted(p) \subseteq Minted(p)'
                           /\ SentTwiceFromDraft(p) => SentTwiceFromDraft(p)'
      /\ \A p \in Quotes : \A s \in Minted(p) : txn'[s] = txn[s]
  BY <1>1, MintedClose DEF InFlight
<1>6. /\ \A s \in Requests, op \in Ops, p \in Quotes :
            InFlight(s, op, p)' => InFlight(s, op, p)
      /\ \A j \in jobs : /\ j.id \in Requests /\ j.quote \in Quotes
                          /\ txn'[j.id] = txn[j.id]
      /\ \A t \in deadLinks : t \in Requests /\ t # r /\ txn'[t] = txn[t]
  BY <1>1, EndingFrame
<1>7. SessionInv'
  BY <1>1, <1>2, <1>3, <1>4, EndingSessions DEF PastDraft
<1>8. /\ OneCreator' /\ OrderInv' /\ OrderOverlapInv'
      /\ DuplicateJobsNeedOverlap' /\ DuplicateOrdersNeedOverlap'
  BY <1>1, EndingQuietly
<1>9. ChecklistInv' /\ ChecklistNeverOverclaims'
  BY <1>1, <1>3, EndingChecklist DEF IInv, ChecklistNeverOverclaims
<1>10. AbsentInv' /\ JobInv'
  BY <1>1, <1>3, <1>4, <1>6 DEF IInv, AbsentInv, JobInv
<1>11. SenderInv'
  <2>1. \A p \in Quotes : PastDraft(p) /\ quote[p].customer =>
           \E s \in Minted(p)' : txn'[s].saw = "draft"
    BY <1>5 DEF IInv, SenderInv
  <2>2. QED
    BY <1>3, <1>4, <2>1 DEF SenderInv
<1>12. OverlapInv'
  BY <1>1, <1>3, <1>4, <1>5, <1>6 DEF IInv, OverlapInv, Ops
<1>13. DeadLinkInv'
  BY <1>1, <1>3, <1>6 DEF IInv, DeadLinkInv
<1>14. BookingRecordAgrees'
  <2>1. \A p \in Quotes : quote[p].jobId # None =>
          txn'[quote[p].jobId] = txn[quote[p].jobId]
    BY <1>6 DEF IInv, BookingRecordAgrees
  <2>2. QED
    BY <1>1, <1>3, <1>4, <2>1 DEF IInv, BookingRecordAgrees
<1>15. QED
  BY <1>7, <1>8, <1>9, <1>10, <1>11, <1>12, <1>13, <1>14 DEF IInv

-----------------------------------------------------------------------------
(* revoke_approval.                                                        *)

LEMMA RevokeRow ==
  ASSUME TypeOK, NEW r \in Requests, NEW q \in Quotes, CommitRevoke(r, q)
  PROVE  /\ quote'[q].status = quote[q].status
         /\ quote'[q].revokedAt = r
         /\ quote'[q].customer = quote[q].customer
         /\ quote'[q].expires = quote[q].expires
         /\ quote'[q].acceptedAt = quote[q].acceptedAt
         /\ quote'[q].jobId = quote[q].jobId
         /\ \A p \in Quotes : p # q => quote'[p] = quote[p]
<1>1. quote[q] \in QuoteRow
  BY DEF TypeOK
<1>2. /\ quote'[q] = [quote[q] EXCEPT
                        !.revokedAt = r,
                        !.token = IF txn[r].sawToken THEN None ELSE quote[q].token]
      /\ \A p \in Quotes : p # q => quote'[p] = quote[p]
  BY Zenon DEF CommitRevoke, TypeOK
<1>3. QED
  BY <1>1, <1>2, Zenon DEF QuoteRow

LEMMA RevokeKeeps ==
  ASSUME IInv, TypeOK', NEW r \in Requests, NEW q \in Quotes, CommitRevoke(r, q)
  PROVE  IInv'
<1>1. /\ TypeOK /\ InFlight(r, "revoke", q) /\ Ending(r, "committed")
      /\ Close(r, "committed") /\ "committed" \in Phases
      /\ deadLinks' = deadLinks \cup Minted(q)
      /\ UNCHANGED <<jobs, orders, onboarding, clock, rivals>>
  BY DEF IInv, CommitRevoke, Ending, InFlight, Phases
<1>2. quote[q].status # "absent"
  BY <1>1 DEF IInv, SessionInv, InFlight, Relies
<1>3. /\ quote'[q].status = quote[q].status
      /\ quote'[q].revokedAt = r
      /\ quote'[q].customer = quote[q].customer
      /\ quote'[q].expires = quote[q].expires
      /\ quote'[q].acceptedAt = quote[q].acceptedAt
      /\ quote'[q].jobId = quote[q].jobId
      /\ \A p \in Quotes : p # q => quote'[p] = quote[p]
  BY <1>1, RevokeRow
<1>4. \A p \in Quotes : /\ JobsOf(p)' = JobsOf(p)
                        /\ quote'[p].status = quote[p].status
                        /\ PastDraft(p)' <=> PastDraft(p)
  BY <1>1, <1>3 DEF JobsOf, PastDraft
<1>5. /\ \A p \in Quotes : /\ Minted(p) \subseteq Minted(p)'
                           /\ SentTwiceFromDraft(p) => SentTwiceFromDraft(p)'
      /\ \A p \in Quotes : \A s \in Minted(p) : txn'[s] = txn[s]
  BY <1>1, MintedClose DEF InFlight
<1>6. /\ \A s \in Requests, op \in Ops, p \in Quotes :
            InFlight(s, op, p)' => InFlight(s, op, p)
      /\ \A j \in jobs : /\ j.id \in Requests /\ j.quote \in Quotes
                          /\ txn'[j.id] = txn[j.id]
      /\ \A t \in deadLinks : t \in Requests /\ t # r /\ txn'[t] = txn[t]
  BY <1>1, EndingFrame
<1>7. SessionInv'
  BY <1>1, <1>2, <1>3, <1>4, EndingSessions DEF PastDraft
<1>8. /\ OneCreator' /\ OrderInv' /\ OrderOverlapInv'
      /\ DuplicateJobsNeedOverlap' /\ DuplicateOrdersNeedOverlap'
  BY <1>1, EndingQuietly
<1>9. ChecklistInv' /\ ChecklistNeverOverclaims'
  BY <1>1, <1>3, EndingChecklist DEF IInv, ChecklistNeverOverclaims
<1>10. AbsentInv' /\ JobInv'
  BY <1>1, <1>3, <1>4, <1>6 DEF IInv, AbsentInv, JobInv
<1>11. SenderInv'
  <2>1. \A p \in Quotes : PastDraft(p) /\ quote[p].customer =>
           \E s \in Minted(p)' : txn'[s].saw = "draft"
    BY <1>5 DEF IInv, SenderInv
  <2>2. QED
    BY <1>3, <1>4, <2>1 DEF SenderInv
<1>12. OverlapInv'
  BY <1>1, <1>3, <1>4, <1>5, <1>6 DEF IInv, OverlapInv, Ops
<1>13. DeadLinkInv'
  <2>1. \A t \in Minted(q) : /\ txn'[t].pc = "committed" /\ txn'[t].quote = q
    BY <1>5 DEF Minted
  <2>2. quote'[q].revokedAt # None
    BY <1>3, QuoteConstants
  <2>3. \A t \in deadLinks :
          /\ txn'[t].pc = "committed" /\ txn'[t].quote \in Quotes
          /\ quote'[txn'[t].quote].token = t => quote'[txn'[t].quote].revokedAt # None
    BY <1>3, <1>6, <2>2 DEF IInv, DeadLinkInv
  <2>4. QED
    BY <1>1, <2>1, <2>2, <2>3 DEF DeadLinkInv
<1>14. BookingRecordAgrees'
  <2>1. \A p \in Quotes : quote[p].jobId # None =>
          txn'[quote[p].jobId] = txn[quote[p].jobId]
    BY <1>6 DEF IInv, BookingRecordAgrees
  <2>2. QED
    BY <1>1, <1>3, <1>4, <2>1 DEF IInv, BookingRecordAgrees
<1>15. QED
  BY <1>7, <1>8, <1>9, <1>10, <1>11, <1>12, <1>13, <1>14 DEF IInv

-----------------------------------------------------------------------------
(* create_quote and the photo worker: a row appears.                       *)

\* Nothing refers to a quote before it is inserted.
LEMMA AbsentIsBare ==
  ASSUME IInv, NEW q \in Quotes, quote[q].status = "absent"
  PROVE  JobsOf(q) = {} /\ ~PastDraft(q) /\ ~quote[q].customer
<1>1. ~PastDraft(q)
  BY DEF PastDraft
<1>2. JobsOf(q) = {}
  BY <1>1 DEF IInv, JobInv, JobsOf
<1>3. QED
  BY <1>1, <1>2 DEF IInv, AbsentInv

LEMMA TickEffect ==
  ASSUME NEW r \in Requests, NEW step, Tick(r, step)
  PROVE  onboarding' \subseteq onboarding \cup txn[r].sawSteps \cup {step}
  BY DEF Tick

LEMMA CreateRow ==
  ASSUME TypeOK, NEW r \in Requests, NEW q \in Quotes, CommitCreate(r, q)
  PROVE  /\ quote'[q].status = "draft"
         /\ quote'[q].customer
         /\ quote'[q].token = None
         /\ quote'[q].jobId = None
         /\ \A p \in Quotes : p # q => quote'[p] = quote[p]
<1>1. PICK lines \in BOOLEAN :
        quote' = [quote EXCEPT ![q] =
                    [AbsentRow EXCEPT !.status = "draft", !.customer = TRUE,
                                      !.materials = lines,
                                      !.expires = txn[r].at + ValidFor]]
  BY DEF CommitCreate
<1>2. /\ quote'[q] = [AbsentRow EXCEPT !.status = "draft", !.customer = TRUE,
                                       !.materials = lines,
                                       !.expires = txn[r].at + ValidFor]
      /\ \A p \in Quotes : p # q => quote'[p] = quote[p]
  BY <1>1 DEF TypeOK
<1>3. QED
  BY <1>2 DEF AbsentRow

LEMMA CreateKeeps ==
  ASSUME IInv, TypeOK', NEW r \in Requests, NEW q \in Quotes, CommitCreate(r, q)
  PROVE  IInv'
<1>1. /\ TypeOK /\ InFlight(r, "create", q) /\ Ending(r, "committed")
      /\ Close(r, "committed") /\ "committed" \in Phases
      /\ Tick(r, "first_quote_generated")
      /\ UNCHANGED <<jobs, orders, clock, deadLinks, rivals>>
  BY DEF IInv, CommitCreate, Ending, InFlight, Phases
<1>2. quote[q].status = "absent"
  BY <1>1 DEF IInv, SessionInv, InFlight, Relies
<1>3. JobsOf(q) = {} /\ ~PastDraft(q) /\ ~quote[q].customer
  BY <1>2, AbsentIsBare
<1>4. /\ quote'[q].status = "draft"
      /\ quote'[q].customer
      /\ quote'[q].token = None
      /\ quote'[q].jobId = None
      /\ \A p \in Quotes : p # q => quote'[p] = quote[p]
  BY <1>1, CreateRow
<1>5. \A p \in Quotes : /\ JobsOf(p)' = JobsOf(p)
                        /\ p # q => (PastDraft(p)' <=> PastDraft(p))
                        /\ ~PastDraft(q)'
  BY <1>1, <1>4 DEF JobsOf, PastDraft
<1>6. /\ \A p \in Quotes : /\ Minted(p) \subseteq Minted(p)'
                           /\ SentTwiceFromDraft(p) => SentTwiceFromDraft(p)'
      /\ \A p \in Quotes : \A s \in Minted(p) : txn'[s] = txn[s]
  BY <1>1, MintedClose DEF InFlight
<1>7. /\ \A s \in Requests, op \in Ops, p \in Quotes :
            InFlight(s, op, p)' => InFlight(s, op, p)
      /\ \A j \in jobs : /\ j.id \in Requests /\ j.quote \in Quotes
                          /\ txn'[j.id] = txn[j.id]
      /\ \A t \in deadLinks : t \in Requests /\ t # r /\ txn'[t] = txn[t]
  BY <1>1, EndingFrame
<1>8. SessionInv'
  <2>1. \A s \in Requests : InFlight(s, "create", q) => s = r
    BY <1>1 DEF IInv, OneCreator
  <2>2. QED
    BY <1>1, <1>2, <1>3, <1>4, <2>1, EndingSessions
<1>9. /\ OneCreator' /\ OrderInv' /\ OrderOverlapInv'
      /\ DuplicateJobsNeedOverlap' /\ DuplicateOrdersNeedOverlap'
  BY <1>1, EndingQuietly
<1>10. ChecklistInv' /\ ChecklistNeverOverclaims'
  <2>1. ChecklistInv'
    BY <1>1, <1>4, EndingChecklist
  <2>2. onboarding' \subseteq
           onboarding \cup txn[r].sawSteps \cup {"first_quote_generated"}
    BY <1>1, TickEffect
  <2>3. "first_quote_approved" \in onboarding' => jobs # {}
    BY <2>2 DEF IInv, ChecklistInv, ChecklistNeverOverclaims
  <2>4. QED
    BY <1>1, <1>4, <2>1, <2>3 DEF ChecklistNeverOverclaims
<1>11. AbsentInv' /\ JobInv'
  <2>1. \A j \in jobs : j.quote # q
    BY <1>3 DEF JobsOf
  <2>2. QED
    BY <1>1, <1>4, <1>5, <1>7, <2>1 DEF IInv, AbsentInv, JobInv
<1>12. SenderInv'
  <2>1. \A p \in Quotes : PastDraft(p) /\ quote[p].customer =>
           \E s \in Minted(p)' : txn'[s].saw = "draft"
    BY <1>6 DEF IInv, SenderInv
  <2>2. QED
    BY <1>4, <1>5, <2>1 DEF SenderInv
<1>13. OverlapInv'
  BY <1>1, <1>3, <1>4, <1>5, <1>6, <1>7 DEF IInv, OverlapInv, Ops
<1>14. DeadLinkInv'
  BY <1>1, <1>4, <1>7, QuoteConstants DEF IInv, DeadLinkInv
<1>15. BookingRecordAgrees'
  <2>1. \A p \in Quotes : quote[p].jobId # None =>
          txn'[quote[p].jobId] = txn[quote[p].jobId]
    BY <1>7 DEF IInv, BookingRecordAgrees
  <2>2. QED
    BY <1>1, <1>3, <1>4, <1>5, <2>1 DEF IInv, BookingRecordAgrees
<1>16. QED
  BY <1>8, <1>9, <1>10, <1>11, <1>12, <1>13, <1>14, <1>15 DEF IInv

LEMMA PhotoKeeps ==
  ASSUME IInv, TypeOK', NEW q \in Quotes, PhotoQuote(q)
  PROVE  IInv'
<1>1. /\ TypeOK /\ quote[q].status = "absent"
      /\ ~ \E s \in Requests : InFlight(s, "create", q)
      /\ UNCHANGED <<jobs, orders, onboarding, clock, txn, deadLinks, rivals>>
  BY DEF IInv, PhotoQuote
<1>2. JobsOf(q) = {} /\ ~PastDraft(q) /\ ~quote[q].customer
  BY <1>1, AbsentIsBare
<1>3. /\ quote'[q].status = "sent" /\ ~quote'[q].customer
      /\ quote'[q].token = None /\ quote'[q].jobId = None
      /\ \A p \in Quotes : p # q => quote'[p] = quote[p]
  <2>1. /\ quote'[q] = [AbsentRow EXCEPT !.status = "sent",
                                         !.expires = clock + ValidFor]
        /\ \A p \in Quotes : p # q => quote'[p] = quote[p]
    BY <1>1 DEF PhotoQuote, TypeOK
  <2>2. QED
    BY <2>1 DEF AbsentRow
<1>4. \A p \in Quotes :
        /\ JobsOf(p)' = JobsOf(p) /\ OrdersOf(p)' = OrdersOf(p)
        /\ Minted(p)' = Minted(p)
        /\ SentTwiceFromDraft(p)' <=> SentTwiceFromDraft(p)
        /\ p # q => (PastDraft(p)' <=> PastDraft(p))
  BY <1>1, <1>3 DEF JobsOf, OrdersOf, PastDraft, Minted, SentTwiceFromDraft
<1>5. \A s \in Requests, op \in Ops, p \in Quotes :
        InFlight(s, op, p)' <=> InFlight(s, op, p)
  BY <1>1 DEF InFlight
<1>6. \A j \in jobs : j.quote \in Quotes /\ j.quote # q
  BY <1>1, <1>2 DEF JobsOf, TypeOK, Child
<1>7. SessionInv'
  <2> SUFFICES ASSUME NEW s \in Requests, txn[s].pc = "open" PROVE Relies(s)'
    BY <1>1 DEF SessionInv
  <2>1. Relies(s) /\ txn[s].quote \in Quotes
    BY DEF IInv, SessionInv, Relies
  <2>2. CASE txn[s].quote # q
    BY <1>1, <1>3, <1>4, <2>1, <2>2 DEF Relies
  <2>3. CASE txn[s].quote = q
    BY <1>1, <1>2, <1>4, <2>1, <2>3 DEF Relies, InFlight
  <2>4. QED
    BY <2>2, <2>3
<1>8. OneCreator' /\ ChecklistInv' /\ ChecklistNeverOverclaims' /\ AbsentInv'
  <2>1. OneCreator'
    BY <1>5 DEF IInv, OneCreator, Ops
  <2>2. \A p \in Quotes : quote[p].customer => quote'[p].customer
    BY <1>2, <1>3
  <2>3. QED
    BY <1>1, <1>3, <2>1, <2>2 DEF IInv, ChecklistInv, ChecklistNeverOverclaims, AbsentInv
<1>9. JobInv'
  BY <1>1, <1>3, <1>4, <1>6 DEF IInv, JobInv
<1>10. OrderInv' /\ OrderOverlapInv'
  <2>1. \A o \in orders : o.quote \in Quotes
    BY <1>1 DEF TypeOK, Child
  <2>2. QED
    BY <1>1, <1>4, <1>5, <2>1 DEF IInv, OrderInv, OrderOverlapInv, Ops
<1>11. SenderInv'
  BY <1>1, <1>3, <1>4 DEF IInv, SenderInv
<1>12. OverlapInv'
  BY <1>1, <1>2, <1>3, <1>4, <1>5 DEF IInv, OverlapInv, Ops
<1>13. DeadLinkInv'
  <2>1. \A t \in deadLinks : t # None
    BY <1>1, QuoteConstants DEF TypeOK
  <2>2. QED
    BY <1>1, <1>3, <2>1 DEF IInv, DeadLinkInv
<1>14. BookingRecordAgrees'
  BY <1>1, <1>2, <1>3, <1>4 DEF IInv, BookingRecordAgrees
<1>15. DuplicateJobsNeedOverlap' /\ DuplicateOrdersNeedOverlap'
  BY <1>1, <1>4 DEF IInv, DuplicateJobsNeedOverlap, DuplicateOrdersNeedOverlap
<1>16. QED
  BY <1>7, <1>8, <1>9, <1>10, <1>11, <1>12, <1>13, <1>14, <1>15 DEF IInv

-----------------------------------------------------------------------------
(* Acceptance.                                                             *)

LEMMA AcceptRow ==
  ASSUME TypeOK, NEW r \in Requests, NEW q \in Quotes, CommitAccept(r, q)
  PROVE  /\ quote'[q].status = "accepted"
         /\ quote'[q].acceptedAt = txn[r].at
         /\ quote'[q].jobId = r
         /\ quote'[q].token = quote[q].token
         /\ quote'[q].revokedAt = quote[q].revokedAt
         /\ quote'[q].customer = quote[q].customer
         /\ quote'[q].expires = quote[q].expires
         /\ \A p \in Quotes : p # q => quote'[p] = quote[p]
<1>1. quote[q] \in QuoteRow
  BY DEF TypeOK
<1>2. /\ quote'[q] = [quote[q] EXCEPT !.status = "accepted",
                                      !.acceptedAt = txn[r].at, !.jobId = r]
      /\ \A p \in Quotes : p # q => quote'[p] = quote[p]
  BY Zenon DEF CommitAccept, TypeOK
<1>3. QED
  BY <1>1, <1>2, Zenon DEF QuoteRow

LEMMA AcceptKeeps ==
  ASSUME IInv, TypeOK', NEW r \in Requests, NEW q \in Quotes, CommitAccept(r, q)
  PROVE  IInv'
<1> DEFINE new == [id |-> r, quote |-> q]
<1>1. /\ TypeOK /\ InFlight(r, "accept", q) /\ Ending(r, "committed")
      /\ Close(r, "committed") /\ "committed" \in Phases
      /\ Tick(r, "first_quote_approved") /\ quote[q].customer
      /\ jobs' = jobs \cup {new}
      /\ rivals' = [rivals EXCEPT ![r] = RivalsOf(r)]
      /\ UNCHANGED <<orders, clock, deadLinks>>
  BY DEF IInv, CommitAccept, Ending, InFlight, Phases
<1>2. /\ txn[r].op = "accept" /\ txn[r].quote = q
      /\ PastDraft(q) /\ txn[r].at <= quote[q].expires
  BY <1>1 DEF IInv, SessionInv, InFlight, Relies
<1>3. /\ quote'[q].status = "accepted"
      /\ quote'[q].acceptedAt = txn[r].at
      /\ quote'[q].jobId = r
      /\ quote'[q].token = quote[q].token
      /\ quote'[q].revokedAt = quote[q].revokedAt
      /\ quote'[q].customer = quote[q].customer
      /\ quote'[q].expires = quote[q].expires
      /\ \A p \in Quotes : p # q => quote'[p] = quote[p]
  BY <1>1, AcceptRow
<1>4. /\ \A p \in Quotes : /\ p # q => JobsOf(p)' = JobsOf(p)
                           /\ JobsOf(p) \subseteq JobsOf(p)'
                           /\ OrdersOf(p)' = OrdersOf(p)
                           /\ PastDraft(p)' <=> PastDraft(p)
      /\ JobsOf(q)' = JobsOf(q) \cup {new}
      /\ new \in jobs' /\ new.id = r /\ new.quote = q
  BY <1>1, <1>2, <1>3 DEF JobsOf, OrdersOf, PastDraft
<1>5. /\ \A p \in Quotes : /\ Minted(p) \subseteq Minted(p)'
                           /\ SentTwiceFromDraft(p) => SentTwiceFromDraft(p)'
      /\ \A p \in Quotes : \A s \in Minted(p) : txn'[s] = txn[s]
  BY <1>1, MintedClose DEF InFlight
<1>6. /\ \A s \in Requests, op \in Ops, p \in Quotes :
            InFlight(s, op, p)' => s # r /\ InFlight(s, op, p)
      /\ \A j \in jobs : /\ j.id \in Requests /\ j.quote \in Quotes
                          /\ j.id # r /\ txn'[j.id] = txn[j.id]
      /\ \A o \in orders : /\ o.id \in Requests /\ o.quote \in Quotes
                            /\ o.id # r /\ txn'[o.id] = txn[o.id]
      /\ \A t \in deadLinks : t \in Requests /\ t # r /\ txn'[t] = txn[t]
  BY <1>1, EndingFrame
<1>7. /\ txn'[r].pc = "committed" /\ txn'[r].op = "accept" /\ txn'[r].quote = q
      /\ txn'[r].at = txn[r].at
  BY <1>1, <1>2, CloseEffect
<1>8. /\ rivals'[r] = RivalsOf(r)
      /\ \A j \in jobs : rivals'[j.id] = rivals[j.id]
      /\ \A o \in orders : rivals'[o.id] = rivals[o.id]
  BY <1>1, <1>6 DEF TypeOK
<1>9. \A s \in Requests : s # r /\ InFlight(s, "accept", q) => s \in rivals'[r]
  BY <1>2, <1>8 DEF RivalsOf
<1>10. SessionInv'
  BY <1>1, <1>2, <1>3, <1>4, EndingSessions DEF PastDraft
<1>11. OneCreator' /\ AbsentInv'
  BY <1>1, <1>3, <1>6 DEF IInv, OneCreator, AbsentInv, Ops
<1>12. JobInv'
  <2>1. \A j \in jobs' : j \in jobs \/ j = new
    BY <1>1
  <2>2. \A j \in jobs : /\ txn'[j.id].pc = "committed"
                        /\ txn'[j.id].op = "accept"
                        /\ txn'[j.id].quote = j.quote
                        /\ txn'[j.id].at <= quote'[j.quote].expires
                        /\ quote'[j.quote].customer
                        /\ PastDraft(j.quote)'
    BY <1>3, <1>4, <1>6 DEF IInv, JobInv
  <2>3. /\ txn'[r].pc = "committed" /\ txn'[r].op = "accept"
        /\ txn'[r].quote = q
        /\ txn'[r].at <= quote'[q].expires
        /\ quote'[q].customer
        /\ PastDraft(q)'
    BY <1>1, <1>2, <1>3, <1>4, <1>7
  <2>4. ASSUME NEW j \in jobs'
        PROVE  /\ txn'[j.id].pc = "committed"
               /\ txn'[j.id].op = "accept"
               /\ txn'[j.id].quote = j.quote
               /\ txn'[j.id].at <= quote'[j.quote].expires
               /\ quote'[j.quote].customer
               /\ PastDraft(j.quote)'
    BY <1>4, <2>1, <2>2, <2>3 DEF PastDraft
  <2>5. QED
    BY <2>4 DEF JobInv
<1>13. OrderInv' /\ OrderOverlapInv' /\ DuplicateOrdersNeedOverlap'
  <2>1. \A p \in Quotes : JobsOf(p) # {} => JobsOf(p)' # {}
    BY <1>4
  <2>2. OrderInv'
    BY <1>1, <1>6, <2>1 DEF IInv, OrderInv
  <2>3. \A p \in Quotes : \A o \in OrdersOf(p) : o \in orders
    BY DEF OrdersOf
  <2>4. QED
    BY <1>4, <1>6, <1>8, <2>2, <2>3
       DEF IInv, OrderOverlapInv, DuplicateOrdersNeedOverlap, Ops
<1>14. SenderInv'
  <2>1. \A p \in Quotes : PastDraft(p) /\ quote[p].customer =>
           \E s \in Minted(p)' : txn'[s].saw = "draft"
    BY <1>5 DEF IInv, SenderInv
  <2>2. QED
    BY <1>3, <1>4, <2>1 DEF SenderInv
<1>15. OverlapInv'
  <2> SUFFICES ASSUME NEW p \in Quotes, JobsOf(p)' # {}, ~SentTwiceFromDraft(p)'
               PROVE  /\ quote'[p].status \in {"accepted", "expired"}
                      /\ \A s \in Requests : InFlight(s, "accept", p)' =>
                           \A j \in JobsOf(p)' : s \in rivals'[j.id]
    BY DEF OverlapInv
  <2>1. \A j \in JobsOf(p) : rivals'[j.id] = rivals[j.id]
    BY <1>8 DEF JobsOf
  <2>2. CASE p # q
    BY <1>3, <1>4, <1>5, <1>6, <2>1, <2>2 DEF IInv, OverlapInv, Ops
  <2>3. CASE p = q
    <3> SUFFICES ASSUME NEW s \in Requests, InFlight(s, "accept", p)',
                        NEW j \in JobsOf(p)'
                 PROVE  s \in rivals'[j.id]
      BY <1>3, <2>3
    <3>1. s # r /\ InFlight(s, "accept", p)
      BY <1>6 DEF Ops
    <3>2. CASE j \in JobsOf(p)
      BY <1>5, <2>1, <3>1, <3>2 DEF IInv, OverlapInv
    <3>3. CASE j = new
      BY <1>9, <2>3, <3>1, <3>3
    <3>4. QED
      BY <1>4, <2>3, <3>2, <3>3
  <2>4. QED
    BY <2>2, <2>3
<1>16. DeadLinkInv'
  BY <1>1, <1>3, <1>6 DEF IInv, DeadLinkInv
<1>17. ChecklistInv' /\ ChecklistNeverOverclaims'
  <2>1. ChecklistInv'
    BY <1>1, <1>3, EndingChecklist
  <2>2. onboarding' \subseteq
           onboarding \cup txn[r].sawSteps \cup {"first_quote_approved"}
    BY <1>1, TickEffect
  <2>3. "first_quote_generated" \in onboarding' => \E p \in Quotes : quote[p].customer
    BY <2>2 DEF IInv, ChecklistInv, ChecklistNeverOverclaims
  <2>4. QED
    BY <1>1, <1>3, <2>1, <2>3 DEF ChecklistNeverOverclaims
<1>18. BookingRecordAgrees'
  <2>1. \A p \in Quotes : quote[p].jobId # None =>
          txn'[quote[p].jobId] = txn[quote[p].jobId]
    BY <1>6 DEF IInv, BookingRecordAgrees
  <2>2. QED
    BY <1>1, <1>3, <1>4, <1>7, <2>1, QuoteConstants DEF IInv, BookingRecordAgrees
<1>19. DuplicateJobsNeedOverlap'
  <2> SUFFICES ASSUME NEW p \in Quotes, ~SentTwiceFromDraft(p)',
                      NEW j1 \in JobsOf(p)', NEW j2 \in JobsOf(p)', j1 # j2
               PROVE  j1.id \in rivals'[j2.id] \/ j2.id \in rivals'[j1.id]
    BY DEF DuplicateJobsNeedOverlap
  <2>1. \A j \in JobsOf(p) : rivals'[j.id] = rivals[j.id]
    BY <1>8 DEF JobsOf
  <2>2. ~SentTwiceFromDraft(p)
    BY <1>5
  <2>3. CASE j1 \in JobsOf(p) /\ j2 \in JobsOf(p)
    BY <2>1, <2>2, <2>3 DEF IInv, DuplicateJobsNeedOverlap
  <2>4. ASSUME NEW j \in JobsOf(p), p = q
        PROVE  new.id \in rivals'[j.id]
    BY <1>1, <1>4, <2>1, <2>2, <2>4 DEF IInv, OverlapInv
  <2>5. QED
    BY <1>4, <2>3, <2>4
<1>20. QED
  BY <1>10, <1>11, <1>12, <1>13, <1>14, <1>15, <1>16, <1>17, <1>18, <1>19 DEF IInv

LEMMA RejectKeeps ==
  ASSUME IInv, TypeOK', NEW r \in Requests, NEW q \in Quotes, RejectAccept(r, q)
  PROVE  IInv'
<1>1. /\ TypeOK /\ InFlight(r, "accept", q) /\ Ending(r, "error")
      /\ Close(r, "error") /\ "error" \in Phases
      /\ UNCHANGED <<quote, jobs, orders, onboarding, clock, deadLinks, rivals>>
  BY DEF IInv, RejectAccept, Ending, InFlight, Phases
<1>2. \A p \in Quotes : /\ JobsOf(p)' = JobsOf(p)
                        /\ PastDraft(p)' <=> PastDraft(p)
  BY <1>1 DEF JobsOf, PastDraft
<1>3. /\ \A p \in Quotes : /\ Minted(p) \subseteq Minted(p)'
                           /\ SentTwiceFromDraft(p) => SentTwiceFromDraft(p)'
      /\ \A p \in Quotes : \A s \in Minted(p) : txn'[s] = txn[s]
  BY <1>1, MintedClose DEF InFlight
<1>4. /\ \A s \in Requests, op \in Ops, p \in Quotes :
            InFlight(s, op, p)' => InFlight(s, op, p)
      /\ \A j \in jobs : /\ j.id \in Requests /\ j.quote \in Quotes
                          /\ txn'[j.id] = txn[j.id]
      /\ \A t \in deadLinks : t \in Requests /\ t # r /\ txn'[t] = txn[t]
  BY <1>1, EndingFrame
<1>5. SessionInv'
  BY <1>1, <1>2, EndingSessions
<1>6. /\ OneCreator' /\ OrderInv' /\ OrderOverlapInv'
      /\ DuplicateJobsNeedOverlap' /\ DuplicateOrdersNeedOverlap'
  BY <1>1, EndingQuietly
<1>7. ChecklistInv' /\ ChecklistNeverOverclaims'
  BY <1>1, EndingChecklist DEF IInv, ChecklistNeverOverclaims
<1>8. AbsentInv' /\ JobInv' /\ DeadLinkInv'
  BY <1>1, <1>2, <1>4 DEF IInv, AbsentInv, JobInv, DeadLinkInv
<1>9. SenderInv' /\ OverlapInv'
  <2>1. \A p \in Quotes : PastDraft(p) /\ quote[p].customer =>
           \E s \in Minted(p)' : txn'[s].saw = "draft"
    BY <1>3 DEF IInv, SenderInv
  <2>2. SenderInv'
    BY <1>1, <1>2, <2>1 DEF SenderInv
  <2>3. QED
    BY <1>1, <1>2, <1>3, <1>4, <2>2 DEF IInv, OverlapInv, Ops
<1>10. BookingRecordAgrees'
  <2>1. \A p \in Quotes : quote[p].jobId # None =>
          txn'[quote[p].jobId] = txn[quote[p].jobId]
    BY <1>4 DEF IInv, BookingRecordAgrees
  <2>2. QED
    BY <1>1, <1>2, <2>1 DEF IInv, BookingRecordAgrees
<1>11. QED
  BY <1>5, <1>6, <1>7, <1>8, <1>9, <1>10 DEF IInv

-----------------------------------------------------------------------------
(* create_materials_order.                                                 *)

LEMMA OrderKeeps ==
  ASSUME IInv, TypeOK', NEW r \in Requests, NEW q \in Quotes, CommitOrder(r, q)
  PROVE  IInv'
<1> DEFINE new == [id |-> r, quote |-> q]
<1>1. /\ TypeOK /\ InFlight(r, "order", q) /\ Ending(r, "committed")
      /\ Close(r, "committed") /\ "committed" \in Phases
      /\ orders' = orders \cup {new}
      /\ rivals' = [rivals EXCEPT ![r] = RivalsOf(r)]
      /\ UNCHANGED <<quote, jobs, onboarding, clock, deadLinks>>
  BY DEF IInv, CommitOrder, Ending, InFlight, Phases
<1>2. txn[r].op = "order" /\ txn[r].quote = q /\ JobsOf(q) # {}
  BY <1>1 DEF IInv, SessionInv, InFlight, Relies
<1>3. /\ \A p \in Quotes : /\ JobsOf(p)' = JobsOf(p)
                           /\ p # q => OrdersOf(p)' = OrdersOf(p)
                           /\ PastDraft(p)' <=> PastDraft(p)
      /\ OrdersOf(q)' = OrdersOf(q) \cup {new}
      /\ new.id = r /\ new.quote = q
  BY <1>1 DEF JobsOf, OrdersOf, PastDraft
<1>4. /\ \A p \in Quotes : /\ Minted(p) \subseteq Minted(p)'
                           /\ SentTwiceFromDraft(p) => SentTwiceFromDraft(p)'
      /\ \A p \in Quotes : \A s \in Minted(p) : txn'[s] = txn[s]
  BY <1>1, MintedClose DEF InFlight
<1>5. /\ \A s \in Requests, op \in Ops, p \in Quotes :
            InFlight(s, op, p)' => s # r /\ InFlight(s, op, p)
      /\ \A j \in jobs : /\ j.id \in Requests /\ j.quote \in Quotes
                          /\ j.id # r /\ txn'[j.id] = txn[j.id]
      /\ \A o \in orders : /\ o.id \in Requests /\ o.quote \in Quotes
                            /\ o.id # r /\ txn'[o.id] = txn[o.id]
      /\ \A t \in deadLinks : t \in Requests /\ t # r /\ txn'[t] = txn[t]
  BY <1>1, EndingFrame
<1>6. txn'[r].pc = "committed" /\ txn'[r].op = "order"
  BY <1>1, <1>2, CloseEffect
<1>7. /\ rivals'[r] = RivalsOf(r)
      /\ \A p \in Quotes : \A j \in JobsOf(p) : rivals'[j.id] = rivals[j.id]
      /\ \A p \in Quotes : \A o \in OrdersOf(p) : rivals'[o.id] = rivals[o.id]
  BY <1>1, <1>5 DEF TypeOK, JobsOf, OrdersOf
<1>8. \A s \in Requests : s # r /\ InFlight(s, "order", q) => s \in rivals'[r]
  BY <1>2, <1>7 DEF RivalsOf
<1>9. SessionInv'
  BY <1>1, <1>3, EndingSessions
<1>10. OneCreator' /\ AbsentInv' /\ JobInv' /\ DeadLinkInv'
  <2>1. OneCreator'
    BY <1>5 DEF IInv, OneCreator, Ops
  <2>2. QED
    BY <1>1, <1>3, <1>5, <2>1 DEF IInv, AbsentInv, JobInv, DeadLinkInv
<1>11. ChecklistInv' /\ ChecklistNeverOverclaims'
  BY <1>1, EndingChecklist DEF IInv, ChecklistNeverOverclaims
<1>12. SenderInv' /\ OverlapInv'
  <2>1. \A p \in Quotes : PastDraft(p) /\ quote[p].customer =>
           \E s \in Minted(p)' : txn'[s].saw = "draft"
    BY <1>4 DEF IInv, SenderInv
  <2>2. SenderInv'
    BY <1>1, <1>3, <2>1 DEF SenderInv
  <2>3. QED
    BY <1>1, <1>3, <1>4, <1>5, <1>7, <2>2 DEF IInv, OverlapInv, Ops
<1>13. BookingRecordAgrees'
  <2>1. \A p \in Quotes : quote[p].jobId # None =>
          txn'[quote[p].jobId] = txn[quote[p].jobId]
    BY <1>5 DEF IInv, BookingRecordAgrees
  <2>2. QED
    BY <1>1, <1>3, <2>1 DEF IInv, BookingRecordAgrees
<1>14. DuplicateJobsNeedOverlap'
  BY <1>3, <1>4, <1>7 DEF IInv, DuplicateJobsNeedOverlap
<1>15. OrderInv'
  BY <1>1, <1>2, <1>3, <1>5, <1>6 DEF IInv, OrderInv
<1>16. OrderOverlapInv'
  <2> SUFFICES ASSUME NEW p \in Quotes, NEW s \in Requests,
                      InFlight(s, "order", p)', NEW o \in OrdersOf(p)'
               PROVE  s \in rivals'[o.id]
    BY DEF OrderOverlapInv
  <2>1. s # r /\ InFlight(s, "order", p)
    BY <1>5 DEF Ops
  <2>2. CASE o \in OrdersOf(p)
    BY <1>7, <2>1, <2>2 DEF IInv, OrderOverlapInv
  <2>3. CASE p = q /\ o = new
    BY <1>8, <2>1, <2>3
  <2>4. QED
    BY <1>3, <2>2, <2>3
<1>17. DuplicateOrdersNeedOverlap'
  <2> SUFFICES ASSUME NEW p \in Quotes, NEW o1 \in OrdersOf(p)',
                      NEW o2 \in OrdersOf(p)', o1 # o2
               PROVE  o1.id \in rivals'[o2.id] \/ o2.id \in rivals'[o1.id]
    BY DEF DuplicateOrdersNeedOverlap
  <2>1. CASE o1 \in OrdersOf(p) /\ o2 \in OrdersOf(p)
    BY <1>7, <2>1 DEF IInv, DuplicateOrdersNeedOverlap
  <2>2. ASSUME NEW o \in OrdersOf(p), p = q
        PROVE  new.id \in rivals'[o.id]
    BY <1>1, <1>3, <1>7, <2>2 DEF IInv, OrderOverlapInv
  <2>3. QED
    BY <1>3, <2>1, <2>2
<1>18. QED
  BY <1>9, <1>10, <1>11, <1>12, <1>13, <1>14, <1>15, <1>16, <1>17 DEF IInv

-----------------------------------------------------------------------------
(* A lost request, and the clock.                                          *)

LEMMA AbortKeeps ==
  ASSUME IInv, TypeOK', NEW r \in Requests, Abort(r)
  PROVE  IInv'
<1>1. /\ TypeOK /\ txn[r].pc = "open"
      /\ txn' = [txn EXCEPT ![r] = NewSession]
      /\ rivals' = [s \in Requests |-> rivals[s] \ {r}]
      /\ UNCHANGED <<quote, jobs, orders, onboarding, clock, deadLinks>>
  BY DEF IInv, Abort
<1>2. /\ txn'[r].pc = "new" /\ txn'[r].sawSteps = {}
      /\ \A s \in Requests : s # r => txn'[s] = txn[s]
  BY <1>1 DEF TypeOK, NewSession
<1>3. \A s \in Requests, op \in Ops, p \in Quotes :
         InFlight(s, op, p)' => s # r /\ InFlight(s, op, p)
  BY <1>2 DEF InFlight
<1>4. /\ \A j \in jobs : /\ j.id \in Requests /\ j.quote \in Quotes
                          /\ j.id # r /\ txn'[j.id] = txn[j.id]
      /\ \A o \in orders : /\ o.id \in Requests /\ o.quote \in Quotes
                            /\ o.id # r /\ txn'[o.id] = txn[o.id]
      /\ \A t \in deadLinks : t \in Requests /\ t # r /\ txn'[t] = txn[t]
  <2>1. \A j \in jobs : /\ j.id \in Requests /\ j.quote \in Quotes
                        /\ txn[j.id].pc = "committed"
    BY <1>1 DEF IInv, JobInv, TypeOK, Child
  <2>2. \A o \in orders : /\ o.id \in Requests /\ o.quote \in Quotes
                          /\ txn[o.id].pc = "committed"
    BY <1>1 DEF IInv, OrderInv, TypeOK, Child
  <2>3. \A t \in deadLinks : t \in Requests /\ txn[t].pc = "committed"
    BY <1>1 DEF IInv, DeadLinkInv, TypeOK
  <2>4. QED
    BY <1>1, <1>2, <2>1, <2>2, <2>3
<1>5. \A p \in Quotes : /\ JobsOf(p)' = JobsOf(p) /\ OrdersOf(p)' = OrdersOf(p)
                        /\ PastDraft(p)' <=> PastDraft(p)
                        /\ Minted(p)' = Minted(p)
  BY <1>1, <1>2 DEF JobsOf, OrdersOf, PastDraft, Minted
<1>6. \A p \in Quotes : \A s \in Minted(p) : txn'[s] = txn[s]
  BY <1>1, <1>2 DEF Minted
<1>7. \A p \in Quotes : SentTwiceFromDraft(p)' <=> SentTwiceFromDraft(p)
  BY <1>5, <1>6 DEF SentTwiceFromDraft
<1>8. \A s, t \in Requests : s # r /\ s \in rivals[t] => s \in rivals'[t]
  BY <1>1 DEF TypeOK
<1>9. \A p \in Quotes : /\ \A j \in JobsOf(p) : j \in jobs
                        /\ \A o \in OrdersOf(p) : o \in orders
  BY DEF JobsOf, OrdersOf
<1>10. SessionInv'
  <2> SUFFICES ASSUME NEW s \in Requests, txn'[s].pc = "open" PROVE Relies(s)'
    BY DEF SessionInv
  <2>1. s # r /\ txn'[s] = txn[s]
    BY <1>2
  <2>2. Relies(s)
    BY <2>1 DEF IInv, SessionInv
  <2>3. QED
    BY <1>1, <1>5, <2>1, <2>2 DEF Relies
<1>11. OneCreator' /\ AbsentInv'
  BY <1>1, <1>3 DEF IInv, OneCreator, AbsentInv, Ops
<1>12. ChecklistInv' /\ ChecklistNeverOverclaims'
  BY <1>1, <1>2 DEF IInv, ChecklistInv, ChecklistNeverOverclaims
<1>13. JobInv' /\ OrderInv' /\ DeadLinkInv'
  BY <1>1, <1>4, <1>5 DEF IInv, JobInv, OrderInv, DeadLinkInv
<1>14. SenderInv'
  <2>1. \A p \in Quotes : PastDraft(p) /\ quote[p].customer =>
           \E s \in Minted(p)' : txn'[s].saw = "draft"
    BY <1>5, <1>6 DEF IInv, SenderInv
  <2>2. QED
    BY <1>1, <1>5, <2>1 DEF SenderInv
<1>15. OverlapInv' /\ OrderOverlapInv'
  BY <1>1, <1>3, <1>4, <1>5, <1>7, <1>8, <1>9 DEF IInv, OverlapInv, OrderOverlapInv, Ops
<1>16. BookingRecordAgrees'
  <2>1. \A p \in Quotes : quote[p].jobId # None =>
          txn'[quote[p].jobId] = txn[quote[p].jobId]
    BY <1>4 DEF IInv, BookingRecordAgrees
  <2>2. QED
    BY <1>1, <1>5, <2>1 DEF IInv, BookingRecordAgrees
<1>17. DuplicateJobsNeedOverlap' /\ DuplicateOrdersNeedOverlap'
  BY <1>4, <1>5, <1>7, <1>8, <1>9
     DEF IInv, DuplicateJobsNeedOverlap, DuplicateOrdersNeedOverlap
<1>18. QED
  BY <1>10, <1>11, <1>12, <1>13, <1>14, <1>15, <1>16, <1>17 DEF IInv

\* An approval loads the organization: only what it remembers of the
\* checklist changes.
LEMMA LoadOrgKeeps ==
  ASSUME IInv, TypeOK', NEW r \in Requests, NEW q \in Quotes, LoadOrg(r, q)
  PROVE  IInv'
<1>1. /\ TypeOK
      /\ txn' = [txn EXCEPT ![r].sawSteps = onboarding]
      /\ UNCHANGED <<quote, jobs, orders, onboarding, clock, deadLinks, rivals>>
  BY DEF IInv, LoadOrg
<1>2. \A s \in Requests : /\ txn'[s].pc = txn[s].pc /\ txn'[s].op = txn[s].op
                          /\ txn'[s].quote = txn[s].quote
                          /\ txn'[s].saw = txn[s].saw /\ txn'[s].at = txn[s].at
                          /\ txn'[s].sawSteps \in {txn[s].sawSteps, onboarding}
  <2>1. txn[r] \in Session /\ txn'[r] = [txn[r] EXCEPT !.sawSteps = onboarding]
        /\ \A s \in Requests : s # r => txn'[s] = txn[s]
    BY <1>1 DEF TypeOK
  <2>2. QED
    BY <2>1 DEF Session
<1>3. \A p \in Quotes : /\ JobsOf(p)' = JobsOf(p) /\ OrdersOf(p)' = OrdersOf(p)
                        /\ PastDraft(p)' <=> PastDraft(p)
                        /\ Minted(p)' = Minted(p)
  BY <1>1, <1>2 DEF JobsOf, OrdersOf, PastDraft, Minted
<1>4. \A p \in Quotes : SentTwiceFromDraft(p)' <=> SentTwiceFromDraft(p)
  BY <1>2, <1>3 DEF SentTwiceFromDraft, Minted
<1>5. \A s \in Requests, op \in Ops, p \in Quotes :
         InFlight(s, op, p)' <=> InFlight(s, op, p)
  BY <1>2 DEF InFlight
<1>6. SessionInv'
  BY <1>1, <1>2, <1>3 DEF IInv, SessionInv, Relies
<1>7. OneCreator' /\ AbsentInv' /\ ChecklistInv' /\ ChecklistNeverOverclaims'
  BY <1>1, <1>2, <1>5 DEF IInv, OneCreator, AbsentInv, ChecklistInv,
     ChecklistNeverOverclaims, Ops
<1>8. JobInv' /\ OrderInv' /\ DeadLinkInv'
  BY <1>1, <1>2, <1>3 DEF IInv, JobInv, OrderInv, DeadLinkInv, TypeOK, Child
<1>9. SenderInv'
  BY <1>1, <1>2, <1>3 DEF IInv, SenderInv, Minted
<1>10. OverlapInv' /\ OrderOverlapInv'
  BY <1>1, <1>3, <1>4, <1>5 DEF IInv, OverlapInv, OrderOverlapInv, Ops
<1>11. BookingRecordAgrees'
  <2>1. \A p \in Quotes : quote[p].jobId # None => quote[p].jobId \in Requests
    BY <1>1 DEF TypeOK, QuoteRow
  <2>2. QED
    BY <1>1, <1>2, <1>3, <2>1 DEF IInv, BookingRecordAgrees
<1>12. DuplicateJobsNeedOverlap' /\ DuplicateOrdersNeedOverlap'
  BY <1>1, <1>3, <1>4 DEF IInv, DuplicateJobsNeedOverlap,
     DuplicateOrdersNeedOverlap
<1>13. QED
  BY <1>6, <1>7, <1>8, <1>9, <1>10, <1>11, <1>12 DEF IInv

LEMMA ClockKeeps ==
  ASSUME IInv, TypeOK',
         UNCHANGED <<quote, jobs, orders, onboarding, txn, deadLinks, rivals>>
  PROVE  IInv'
<1>1. \A p \in Quotes : /\ JobsOf(p)' = JobsOf(p) /\ OrdersOf(p)' = OrdersOf(p)
                        /\ PastDraft(p)' <=> PastDraft(p)
                        /\ Minted(p)' = Minted(p)
                        /\ SentTwiceFromDraft(p)' <=> SentTwiceFromDraft(p)
  BY DEF JobsOf, OrdersOf, PastDraft, Minted, SentTwiceFromDraft
<1>2. \A s \in Requests, op \in Ops, p \in Quotes :
         InFlight(s, op, p)' <=> InFlight(s, op, p)
  BY DEF InFlight
<1>3. \A r \in Requests : Relies(r)' <=> Relies(r)
  BY DEF Relies, JobsOf, PastDraft
<1>4. SessionInv' /\ OneCreator' /\ AbsentInv' /\ ChecklistInv' /\ DeadLinkInv'
  BY <1>2, <1>3 DEF IInv, SessionInv, OneCreator, AbsentInv, ChecklistInv,
     DeadLinkInv, Ops
<1>5. JobInv' /\ OrderInv'
  BY DEF IInv, JobInv, OrderInv, JobsOf, PastDraft
<1>6. SenderInv' /\ OverlapInv' /\ OrderOverlapInv'
  BY <1>1, <1>2 DEF IInv, SenderInv, OverlapInv, OrderOverlapInv, Ops
<1>7. /\ BookingRecordAgrees' /\ DuplicateJobsNeedOverlap'
      /\ DuplicateOrdersNeedOverlap' /\ ChecklistNeverOverclaims'
  BY <1>1 DEF IInv, BookingRecordAgrees, DuplicateJobsNeedOverlap,
     DuplicateOrdersNeedOverlap, ChecklistNeverOverclaims
<1>8. QED
  BY <1>4, <1>5, <1>6, <1>7 DEF IInv

-----------------------------------------------------------------------------
(* The invariant and what follows from it.                                 *)

LEMMA InvStep == IInv /\ [Next]_vars => IInv'
<1> SUFFICES ASSUME IInv, [Next]_vars PROVE IInv'
  OBVIOUS
<1>1. TypeOK'
  BY TypeStep DEF IInv
<1>2. ASSUME NEW r \in Requests, NEW q \in Quotes, BeginCreate(r, q)
      PROVE  IInv'
  BY <1>1, <1>2, LoadKeeps DEF BeginCreate, LoadGuard, Ops
<1>3. ASSUME NEW r \in Requests, NEW q \in Quotes, BeginSend(r, q)
      PROVE  IInv'
  BY <1>1, <1>3, LoadKeeps DEF BeginSend, LoadGuard, Ops
<1>4. ASSUME NEW r \in Requests, NEW q \in Quotes, NEW channel \in Channels,
             BeginAccept(r, q, channel)
      PROVE  IInv'
  BY <1>1, <1>4, LoadKeeps DEF BeginAccept, LoadGuard, Ops
<1>5. ASSUME NEW r \in Requests, NEW q \in Quotes, BeginExpire(r, q)
      PROVE  IInv'
  BY <1>1, <1>5, LoadKeeps DEF BeginExpire, LoadGuard, Ops
<1>6. ASSUME NEW r \in Requests, NEW q \in Quotes, BeginRevoke(r, q)
      PROVE  IInv'
  BY <1>1, <1>6, LoadKeeps DEF BeginRevoke, LoadGuard, Ops
<1>7. ASSUME NEW r \in Requests, NEW q \in Quotes, BeginOrder(r, q)
      PROVE  IInv'
  BY <1>1, <1>7, LoadKeeps DEF BeginOrder, LoadGuard, Ops
<1>8. CASE Advance \/ UNCHANGED vars
  BY <1>1, <1>8, ClockKeeps DEF Advance, vars
<1>9. QED
  BY <1>1, <1>2, <1>3, <1>4, <1>5, <1>6, <1>7, <1>8, CreateKeeps, PhotoKeeps,
     SendKeeps, AcceptKeeps, RejectKeeps, ExpireKeeps, RevokeKeeps, OrderKeeps,
     LoadOrgKeeps, AbortKeeps DEF Next

LEMMA InvAlways == Spec => []IInv
  BY InvInit, InvStep, PTL DEF Spec

\* The three columns an acceptance writes and the job it inserts are never
\* taken apart, however stale the snapshots are from which later handlers
\* write.
THEOREM QuoteBookingRecord == Spec => []BookingRecordAgrees
  BY InvAlways, PTL DEF IInv

\* Whatever happens between the expiry test and the commit, a job comes from
\* an approval that was checked before the quote expired.
THEOREM QuoteApprovedInTime == Spec => []ApprovedInTime
<1>1. IInv => ApprovedInTime
  BY DEF IInv, JobInv, ApprovedInTime
<1>2. QED
  BY <1>1, InvAlways, PTL

\* The only two ways to book a quote twice: two approvals in flight at once,
\* or two sends that both found a draft.
THEOREM QuoteDuplicateJobs == Spec => []DuplicateJobsNeedOverlap
  BY InvAlways, PTL DEF IInv

\* The only way to stage a quote's materials twice: two requests in flight
\* at once.
THEOREM QuoteDuplicateOrders == Spec => []DuplicateOrdersNeedOverlap
  BY InvAlways, PTL DEF IInv

\* A material order staged from a quote has a job behind it.
THEOREM QuoteOrdersFollowBooking == Spec => []OrdersFollowBooking
<1>1. IInv => OrdersFollowBooking
  BY DEF IInv, OrderInv, OrdersFollowBooking
<1>2. QED
  BY <1>1, InvAlways, PTL

\* No later send or revocation revives a link that was out when
\* revoke_approval committed.
THEOREM QuoteRevokedLinks == Spec => []RevokedLinksStayDead
<1>1. IInv => RevokedLinksStayDead
  BY DEF IInv, DeadLinkInv, RevokedLinksStayDead, LinkOpens
<1>2. QED
  BY <1>1, InvAlways, PTL

\* Lost updates of organizations.onboarding only ever lose steps.
THEOREM QuoteChecklist == Spec => []ChecklistNeverOverclaims
  BY InvAlways, PTL DEF IInv

\* Only a handler that had loaded the quote before it was accepted can take
\* an accepted quote out of that status.
THEOREM QuoteAcceptedLeft == Spec => AcceptedLeftOnlyByStaleHandlers
<1> DEFINE Leaves(q) == quote[q].status = "accepted" /\ quote'[q].status # "accepted"
           Stale(q) == \E r \in Requests : /\ txn[r].pc = "open" /\ txn[r].quote = q
                                           /\ txn'[r].pc = "committed"
                                           /\ txn[r].saw \in {"draft", "sent"}
<1>1. ASSUME IInv, Next, NEW q \in Quotes, Leaves(q)
      PROVE  Stale(q)
  <2> USE <1>1
  <2>1. TypeOK /\ "committed" \in Phases
    BY DEF IInv, Phases
  <2>2. quote' # quote
    OBVIOUS
  <2>3. ASSUME NEW r \in Requests, NEW p \in Quotes, CommitSend(r, p)
        PROVE  Stale(q)
    <3>1. p = q
      BY <2>1, <2>3, SendRow
    <3>2. txn[r].pc = "open" /\ txn[r].quote = q /\ txn[r].saw \in {"draft", "sent"}
      BY <2>3, <3>1 DEF CommitSend, InFlight, IInv, SessionInv, Relies
    <3>3. txn'[r].pc = "committed"
      BY <2>1, <2>3, CloseEffect DEF CommitSend
    <3>4. QED
      BY <3>2, <3>3
  <2>4. ASSUME NEW r \in Requests, NEW p \in Quotes, CommitExpire(r, p)
        PROVE  Stale(q)
    <3>1. p = q
      BY <2>1, <2>4, ExpireRow
    <3>2. txn[r].pc = "open" /\ txn[r].quote = q /\ txn[r].saw = "sent"
      BY <2>4, <3>1 DEF CommitExpire, InFlight, IInv, SessionInv, Relies
    <3>3. txn'[r].pc = "committed"
      BY <2>1, <2>4, CloseEffect DEF CommitExpire
    <3>4. QED
      BY <3>2, <3>3
  <2>5. ASSUME NEW r \in Requests, NEW p \in Quotes, CommitAccept(r, p)
        PROVE  FALSE
    BY <2>1, <2>5, AcceptRow
  <2>6. ASSUME NEW r \in Requests, NEW p \in Quotes, CommitRevoke(r, p)
        PROVE  FALSE
    BY <2>1, <2>6, RevokeRow
  <2>7. ASSUME NEW r \in Requests, NEW p \in Quotes, CommitCreate(r, p)
        PROVE  FALSE
    <3>1. quote[p].status = "absent"
      BY <2>7 DEF CommitCreate, InFlight, IInv, SessionInv, Relies
    <3>2. QED
      BY <2>1, <2>7, <3>1, CreateRow
  <2>8. ASSUME NEW p \in Quotes, PhotoQuote(p)
        PROVE  FALSE
    BY <2>1, <2>8 DEF PhotoQuote, TypeOK
  <2>9. QED
    BY <2>2, <2>3, <2>4, <2>5, <2>6, <2>7, <2>8
       DEF Next, BeginCreate, BeginSend, BeginAccept, BeginExpire, BeginRevoke,
           BeginOrder, Load, LoadOrg, RejectAccept, CommitOrder, Abort, Advance
<1>2. IInv /\ [Next]_vars =>
        [\A q \in Quotes : Leaves(q) => Stale(q)]_vars
  BY <1>1
<1>3. QED
  BY <1>2, InvAlways, PTL DEF Spec, AcceptedLeftOnlyByStaleHandlers

=============================================================================
