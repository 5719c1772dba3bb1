--------------------------- MODULE QuoteLifecycle ---------------------------
(***************************************************************************)
(* The life of a quote: creation, sending (which mints the customer's      *)
(* approval link), approval (which books a job), expiry, revocation of the *)
(* link, and the staged material order                                     *)
(* (api/routes/quotes_routes.py, api/routes/public_routes.py, the accept   *)
(* branch of webhook_sms, and the quote the photo worker inserts).         *)
(*                                                                         *)
(* Every handler runs in a database session of its own.  It SELECTs the    *)
(* quote and tests it without yielding (the Begin actions), then writes    *)
(* and COMMITs (the Commit actions).  Nothing locks the row in between, so *)
(* handlers interleave.  The ORM's UPDATE names only the columns whose     *)
(* value the handler changed with respect to what IT loaded: a commit      *)
(* leaves the other columns as it finds them.                              *)
(*                                                                         *)
(* A request is handled once; its identity also stands for the values it   *)
(* mints (approval token, job id, order id), which the code draws at       *)
(* random.  A request that is refused (403, 404, 409, 410, 429, or         *)
(* "already_accepted", "already_exists") writes nothing and is not a step. *)
(* Columns that no handler tests (sent_at, approved_via, prices, notes)    *)
(* and the audit log are left out, and so is approval_token_expires_at,    *)
(* which send_quote copies from expires_at, a column nobody changes.       *)
(***************************************************************************)
EXTENDS Naturals, FiniteSets

CONSTANTS
    Quotes,      \* quote ids
    Requests,    \* handler executions; also the tokens and ids they mint
    ValidFor,    \* quote.valid_days, in clock ticks
    MaxTime,     \* bound on the clock
    None         \* SQL NULL

ASSUME QuoteConstants ==
    /\ ValidFor \in Nat
    /\ MaxTime \in Nat
    /\ None \notin Requests \cup Quotes \cup Nat

VARIABLES
    quote,       \* table quotes
    jobs,        \* table jobs: the rows that acceptance inserts
    orders,      \* table material_orders: the rows staged from a quote
    onboarding,  \* organizations.onboarding, the two steps these handlers tick
    clock,       \* datetime.utcnow()
    txn,         \* per request: its session and what it loaded
    deadLinks,   \* history: the tokens handed out before a revocation
    rivals       \* history: same-kind requests in flight when one committed

vars == <<quote, jobs, orders, onboarding, clock, txn, deadLinks, rivals>>

-----------------------------------------------------------------------------
(* Types.                                                                  *)

Statuses == {"absent", "draft", "sent", "accepted", "expired"}
Steps    == {"first_quote_generated", "first_quote_approved"}
Ops      == {"none", "create", "send", "accept", "expire", "revoke", "order"}
Phases   == {"new", "open", "committed", "error"}
Channels == {"api", "link", "sms_reply"}

\* `customer` is org_customer_id IS NOT NULL; `materials` says whether
\* engine_result has material lines; revokedAt is the stamp of a revocation.
QuoteRow == [status     : Statuses,
             customer   : BOOLEAN,
             materials  : BOOLEAN,
             expires    : Nat,
             token      : Requests \cup {None},
             revokedAt  : Requests \cup {None},
             acceptedAt : Nat \cup {None},
             jobId      : Requests \cup {None}]

Child == [id : Requests, quote : Quotes]

\* What a handler remembers of the rows it loaded.
Session == [pc         : Phases,
            op         : Ops,
            quote      : Quotes \cup {None},
            saw        : Statuses,
            sawToken   : BOOLEAN,
            sawRevoked : BOOLEAN,
            sawSteps   : SUBSET Steps,
            at         : Nat]

AbsentRow == [status |-> "absent", customer |-> FALSE, materials |-> FALSE,
              expires |-> 0, token |-> None, revokedAt |-> None,
              acceptedAt |-> None, jobId |-> None]

NewSession == [pc |-> "new", op |-> "none", quote |-> None, saw |-> "absent",
               sawToken |-> FALSE, sawRevoked |-> FALSE, sawSteps |-> {},
               at |-> 0]

TypeOK ==
    /\ quote \in [Quotes -> QuoteRow]
    /\ jobs \subseteq Child
    /\ orders \subseteq Child
    /\ onboarding \subseteq Steps
    /\ clock \in Nat
    /\ txn \in [Requests -> Session]
    /\ deadLinks \subseteq Requests
    /\ rivals \in [Requests -> SUBSET Requests]

Init ==
    /\ quote = [q \in Quotes |-> AbsentRow]
    /\ jobs = {}
    /\ orders = {}
    /\ onboarding = {}
    /\ clock = 0
    /\ txn = [r \in Requests |-> NewSession]
    /\ deadLinks = {}
    /\ rivals = [r \in Requests |-> {}]

-----------------------------------------------------------------------------
(* Helpers.                                                                *)

JobsOf(q)   == {j \in jobs : j.quote = q}
OrdersOf(q) == {o \in orders : o.quote = q}

Expired(q) == quote[q].expires < clock

\* _get_valid_quote: the token t opens quote q.
LinkOpens(q, t) ==
    /\ quote[q].token = t
    /\ quote[q].revokedAt = None
    /\ ~Expired(q)

InFlight(r, op, q) == txn[r].pc = "open" /\ txn[r].op = op /\ txn[r].quote = q

RivalsOf(r) == {s \in Requests \ {r} : InFlight(s, txn[r].op, txn[r].quote)}

\* Handler r loads quote q at this instant, and the organization's checklist
\* now or (LoadOrg) later.
Load(r, op, q) ==
    /\ txn[r].pc = "new"
    /\ txn' = [txn EXCEPT ![r] =
                 [pc |-> "open", op |-> op, quote |-> q,
                  saw |-> quote[q].status,
                  sawToken |-> quote[q].token # None,
                  sawRevoked |-> quote[q].revokedAt # None,
                  sawSteps |-> onboarding,
                  at |-> IF op \in {"create", "accept"} THEN clock ELSE 0]]
    /\ UNCHANGED <<quote, jobs, orders, onboarding, clock, deadLinks, rivals>>

\* The session of r ends; the history keeps what it did to which quote, the
\* status it had loaded, and when an approval was checked.
Close(r, phase) ==
    txn' = [txn EXCEPT ![r] =
              [@ EXCEPT !.pc = phase, !.sawToken = FALSE, !.sawRevoked = FALSE,
                        !.sawSteps = {},
                        !.at = IF txn[r].op = "accept" THEN txn[r].at ELSE 0]]

\* The checklist is one JSON column: the handler writes back the list it
\* loaded plus its step.  When the step was there already the new list may
\* compare equal to the loaded one (the order is all that differs), and then
\* the column is not written.
Tick(r, step) ==
    \/ onboarding' = txn[r].sawSteps \cup {step}
    \/ step \in txn[r].sawSteps /\ UNCHANGED onboarding

-----------------------------------------------------------------------------
(* create_quote.  The billing gate and the usage counter are in Billing;   *)
(* the pricing is data.  The new row's id is fresh.                        *)

BeginCreate(r, q) ==
    /\ quote[q].status = "absent"
    /\ ~ \E s \in Requests : InFlight(s, "create", q)
    /\ Load(r, "create", q)

CommitCreate(r, q) ==
    /\ InFlight(r, "create", q)
    /\ \E lines \in BOOLEAN :
         quote' = [quote EXCEPT ![q] =
                     [AbsentRow EXCEPT !.status = "draft", !.customer = TRUE,
                                       !.materials = lines,
                                       !.expires = txn[r].at + ValidFor]]
    /\ Tick(r, "first_quote_generated")
    /\ Close(r, "committed")
    /\ UNCHANGED <<jobs, orders, clock, deadLinks, rivals>>

\* _engine_quote_for_analysis: the photo worker inserts a quote that is
\* already "sent", names no organization customer, has no material line and
\* no approval link.
PhotoQuote(q) ==
    /\ quote[q].status = "absent"
    /\ ~ \E s \in Requests : InFlight(s, "create", q)
    /\ quote' = [quote EXCEPT ![q] =
                   [AbsentRow EXCEPT !.status = "sent",
                                     !.expires = clock + ValidFor]]
    /\ UNCHANGED <<jobs, orders, onboarding, clock, txn, deadLinks, rivals>>

-----------------------------------------------------------------------------
(* send_quote: mints a new token and, on a resend, lifts a revocation.     *)

\* Mutant: the status guard of send_quote is dropped.
BeginSendAnyStatus(r, q) ==
    /\ quote[q].status # "absent"
    /\ Load(r, "send", q)

BeginSend(r, q) ==
    /\ quote[q].status \in {"draft", "sent"}
    /\ Load(r, "send", q)

CommitSend(r, q) ==
    /\ InFlight(r, "send", q)
    /\ quote' = [quote EXCEPT ![q] =
          [@ EXCEPT !.status = IF txn[r].saw # "sent" THEN "sent" ELSE quote[q].status,
                    !.token = r,
                    !.revokedAt = IF txn[r].sawRevoked THEN None
                                ELSE quote[q].revokedAt]]
    /\ Close(r, "committed")
    /\ UNCHANGED <<jobs, orders, onboarding, clock, deadLinks, rivals>>

-----------------------------------------------------------------------------
(* _accept_quote_for_customer and its three callers: an employee           *)
(* (accept_quote), the customer's link (approve_quote), and an SMS reply,  *)
(* which can only name the quote a photo worker stored in the conversation *)
(* (set_quote_id is called nowhere else).                                  *)

Admits(channel, q) ==
    CASE channel = "api"       -> TRUE
      [] channel = "link"      -> LinkOpens(q, quote[q].token)
                                    /\ quote[q].token # None
      [] channel = "sms_reply" -> ~quote[q].customer /\ quote[q].expires > clock

\* Mutant: the expiry test is dropped.
BeginAcceptLate(r, q, channel) ==
    /\ Admits(channel, q)
    /\ quote[q].status = "sent"
    /\ Load(r, "accept", q)

\* Mutant: the already_accepted early return is dropped.
BeginAcceptAgain(r, q, channel) ==
    /\ Admits(channel, q)
    /\ quote[q].status \in {"sent", "accepted"}
    /\ ~Expired(q)
    /\ Load(r, "accept", q)

BeginAccept(r, q, channel) ==
    /\ Admits(channel, q)
    /\ quote[q].status = "sent"
    /\ ~Expired(q)
    /\ Load(r, "accept", q)

\* The organization is loaded last, after the job has been flushed.
LoadOrg(r, q) ==
    /\ InFlight(r, "accept", q)
    /\ txn' = [txn EXCEPT ![r].sawSteps = onboarding]
    /\ UNCHANGED <<quote, jobs, orders, onboarding, clock, deadLinks, rivals>>

\* Mutant: job_id is not stored on the quote.
CommitAcceptNoJobId(r, q) ==
    /\ InFlight(r, "accept", q)
    /\ quote[q].customer
    /\ quote' = [quote EXCEPT ![q] =
          [@ EXCEPT !.status = "accepted", !.acceptedAt = txn[r].at]]
    /\ jobs' = jobs \cup {[id |-> r, quote |-> q]}
    /\ Tick(r, "first_quote_approved")
    /\ rivals' = [rivals EXCEPT ![r] = RivalsOf(r)]
    /\ Close(r, "committed")
    /\ UNCHANGED <<orders, clock, deadLinks>>

\* Mutant: the values of accepted_at and job_id are swapped.
CommitAcceptSwapped(r, q) ==
    /\ InFlight(r, "accept", q)
    /\ quote[q].customer
    /\ quote' = [quote EXCEPT ![q] =
          [@ EXCEPT !.status = "accepted", !.acceptedAt = r, !.jobId = txn[r].at]]
    /\ jobs' = jobs \cup {[id |-> r, quote |-> q]}
    /\ Tick(r, "first_quote_approved")
    /\ rivals' = [rivals EXCEPT ![r] = RivalsOf(r)]
    /\ Close(r, "committed")
    /\ UNCHANGED <<orders, clock, deadLinks>>

CommitAccept(r, q) ==
    /\ InFlight(r, "accept", q)
    /\ quote[q].customer
    /\ quote' = [quote EXCEPT ![q] =
          [@ EXCEPT !.status = "accepted", !.acceptedAt = txn[r].at, !.jobId = r]]
    /\ jobs' = jobs \cup {[id |-> r, quote |-> q]}
    /\ Tick(r, "first_quote_approved")
    /\ rivals' = [rivals EXCEPT ![r] = RivalsOf(r)]
    /\ Close(r, "committed")
    /\ UNCHANGED <<orders, clock, deadLinks>>

\* jobs.org_customer_id is NOT NULL: for a quote without a customer the flush
\* raises IntegrityError, the session rolls back and the caller gets a 500.
\*
\* Mutant: the checklist step survives the rollback.
RejectAcceptKeepsTick(r, q) ==
    /\ InFlight(r, "accept", q)
    /\ ~quote[q].customer
    /\ Tick(r, "first_quote_approved")
    /\ Close(r, "error")
    /\ UNCHANGED <<quote, jobs, orders, clock, deadLinks, rivals>>

RejectAccept(r, q) ==
    /\ InFlight(r, "accept", q)
    /\ ~quote[q].customer
    /\ Close(r, "error")
    /\ UNCHANGED <<quote, jobs, orders, onboarding, clock, deadLinks, rivals>>

\* The same function on a quote past its expiry: it stores "expired" and
\* answers 410.  The link and SMS callers test the expiry before they call it.
BeginExpire(r, q) ==
    /\ quote[q].status = "sent"
    /\ Expired(q)
    /\ Load(r, "expire", q)

CommitExpire(r, q) ==
    /\ InFlight(r, "expire", q)
    /\ quote' = [quote EXCEPT ![q] = [@ EXCEPT !.status = "expired"]]
    /\ Close(r, "committed")
    /\ UNCHANGED <<jobs, orders, onboarding, clock, deadLinks, rivals>>

-----------------------------------------------------------------------------
(* revoke_approval.  The stamp is always written, the hash only if this    *)
(* session loaded one.                                                     *)

BeginRevoke(r, q) ==
    /\ quote[q].status # "absent"
    /\ Load(r, "revoke", q)

\* The tokens that have been handed out for q: one per committed send.
Minted(q) == {s \in Requests : /\ txn[s].pc = "committed"
                               /\ txn[s].op = "send"
                               /\ txn[s].quote = q}

\* Mutant: only the hash is cleared, no stamp is written.
CommitRevokeHashOnly(r, q) ==
    /\ InFlight(r, "revoke", q)
    /\ quote' = [quote EXCEPT ![q] =
          [@ EXCEPT !.token = IF txn[r].sawToken THEN None ELSE quote[q].token]]
    /\ deadLinks' = deadLinks \cup Minted(q)
    /\ Close(r, "committed")
    /\ UNCHANGED <<jobs, orders, onboarding, clock, rivals>>

CommitRevoke(r, q) ==
    /\ InFlight(r, "revoke", q)
    /\ quote' = [quote EXCEPT ![q] =
          [@ EXCEPT !.revokedAt = r,
                    !.token = IF txn[r].sawToken THEN None ELSE quote[q].token]]
    /\ deadLinks' = deadLinks \cup Minted(q)
    /\ Close(r, "committed")
    /\ UNCHANGED <<jobs, orders, onboarding, clock, rivals>>

-----------------------------------------------------------------------------
(* create_materials_order.  Its two SELECTs (the quote, then an existing   *)
(* order) are one step: an order that appears between them only makes the  *)
(* handler answer "already_exists".  So does an order placed by hand that  *)
(* names the quote; those are not in `orders` and only add refusals.       *)

\* Mutant: the test for an existing order is dropped.
BeginOrderUnchecked(r, q) ==
    /\ quote[q].status = "accepted"
    /\ quote[q].materials
    /\ Load(r, "order", q)

\* Mutant: the quote need not be accepted.
BeginOrderEarly(r, q) ==
    /\ quote[q].status \in {"sent", "accepted"}
    /\ OrdersOf(q) = {}
    /\ quote[q].materials
    /\ Load(r, "order", q)

BeginOrder(r, q) ==
    /\ quote[q].status = "accepted"
    /\ OrdersOf(q) = {}
    /\ quote[q].materials
    /\ Load(r, "order", q)

CommitOrder(r, q) ==
    /\ InFlight(r, "order", q)
    /\ orders' = orders \cup {[id |-> r, quote |-> q]}
    /\ rivals' = [rivals EXCEPT ![r] = RivalsOf(r)]
    /\ Close(r, "committed")
    /\ UNCHANGED <<quote, jobs, onboarding, clock, deadLinks>>

-----------------------------------------------------------------------------
\* The process dies, or the connection is lost, before the COMMIT: nothing is
\* left of the request, and its identity is free for another one.
Abort(r) ==
    /\ txn[r].pc = "open"
    /\ txn' = [txn EXCEPT ![r] = NewSession]
    /\ rivals' = [s \in Requests |-> rivals[s] \ {r}]
    /\ UNCHANGED <<quote, jobs, orders, onboarding, clock, deadLinks>>

Advance ==
    /\ clock < MaxTime
    /\ clock' = clock + 1
    /\ UNCHANGED <<quote, jobs, orders, onboarding, txn, deadLinks, rivals>>

Next ==
    \/ \E r \in Requests, q \in Quotes :
         \/ BeginCreate(r, q) \/ CommitCreate(r, q)
         \/ BeginSend(r, q)   \/ CommitSend(r, q)
         \/ BeginExpire(r, q) \/ CommitExpire(r, q)
         \/ BeginRevoke(r, q) \/ CommitRevoke(r, q)
         \/ BeginOrder(r, q)  \/ CommitOrder(r, q)
         \/ LoadOrg(r, q) \/ CommitAccept(r, q) \/ RejectAccept(r, q)
         \/ \E channel \in Channels : BeginAccept(r, q, channel)
    \/ \E q \in Quotes : PhotoQuote(q)
    \/ \E r \in Requests : Abort(r)
    \/ Advance

Spec == Init /\ [][Next]_vars

-----------------------------------------------------------------------------
(* Properties.                                                             *)

\* The quote and its job agree: a quote that says accepted, or that has ever
\* been booked, names one of its own jobs, and its accepted_at is the instant
\* at which that very approval was checked.  _accept_quote_for_customer
\* writes the three columns and the job in one transaction; later writers
\* with stale snapshots must not take them apart.
BookingRecordAgrees ==
    \A q \in Quotes :
      /\ quote[q].status = "accepted" => quote[q].jobId # None
      /\ JobsOf(q) # {} => quote[q].jobId # None
      /\ quote[q].jobId # None =>
           /\ [id |-> quote[q].jobId, quote |-> q] \in jobs
           /\ quote[q].acceptedAt = txn[quote[q].jobId].at

\* No job is booked from an approval checked after the quote had expired,
\* whatever the clock did before the approval was committed.
ApprovedInTime ==
    \A j \in jobs : txn[j.id].at <= quote[j.quote].expires

\* Two sends of q that both found a draft: the second commit sets the status
\* back to "sent", whatever it has become in between.
SentTwiceFromDraft(q) ==
    \E s1, s2 \in Minted(q) :
        s1 # s2 /\ txn[s1].saw = "draft" /\ txn[s2].saw = "draft"

\* A quote is booked twice only when two of its approvals overlapped, or two
\* sends of the draft did: retries and repeated approvals that follow one
\* another book one job ("already_accepted").
DuplicateJobsNeedOverlap ==
    \A q \in Quotes : \A j1, j2 \in JobsOf(q) :
        \/ j1 = j2
        \/ j1.id \in rivals[j2.id] \/ j2.id \in rivals[j1.id]
        \/ SentTwiceFromDraft(q)

\* A quote has two staged material orders only when the two requests that
\* made them overlapped ("already_exists" answers all others).
DuplicateOrdersNeedOverlap ==
    \A q \in Quotes : \A o1, o2 \in OrdersOf(q) :
        o1 = o2 \/ o1.id \in rivals[o2.id] \/ o2.id \in rivals[o1.id]

\* Materials are staged only for booked work: a quote with an order has a
\* job, even when its status has been overwritten since.
OrdersFollowBooking ==
    \A o \in orders : JobsOf(o.quote) # {}

\* "Any outstanding link stops working immediately" (revoke_approval): a link
\* handed out before a revocation never opens its quote again, whatever sends
\* and revocations commit later with what they loaded before.
RevokedLinksStayDead ==
    \A t \in deadLinks : ~LinkOpens(txn[t].quote, t)

\* The onboarding checklist is overwritten as a whole, so a step may be lost,
\* but no interleaving makes it claim a step that never happened.
ChecklistNeverOverclaims ==
    /\ "first_quote_approved" \in onboarding => jobs # {}
    /\ "first_quote_generated" \in onboarding =>
          \E q \in Quotes : quote[q].customer

\* An accepted quote stops being accepted only through a handler that loaded
\* it before the acceptance: every handler that loads an accepted quote
\* leaves its status alone.
AcceptedLeftOnlyByStaleHandlers ==
    [][\A q \in Quotes :
         (quote[q].status = "accepted" /\ quote'[q].status # "accepted") =>
           \E r \in Requests : /\ txn[r].pc = "open" /\ txn[r].quote = q
                               /\ txn'[r].pc = "committed"
                               /\ txn[r].saw \in {"draft", "sent"}]_vars

\* "Double approval is idempotent" (tests/test_review_fixes.py): a quote has
\* one job.
OneJobPerQuote ==
    \A q \in Quotes : Cardinality(JobsOf(q)) <= 1

=============================================================================
