------------------------------ MODULE Billing ------------------------------
(***************************************************************************)
(* The subscription of one organization (payments/billing.py,              *)
(* api/routes/billing_routes.py, and the /webhook/stripe handler): the     *)
(* owner's requests, the Stripe events, and the ledger that claims each    *)
(* event once.                                                             *)
(*                                                                         *)
(* Requests and deliveries run in sessions of their own.  A session loads  *)
(* the row and computes the new one (the Begin actions), then flushes the  *)
(* columns it changed and COMMITs (Commit), or is lost (Crash).  Nothing   *)
(* locks the row in between, so sessions overlap.                          *)
(*                                                                         *)
(* Stripe is the environment: it completes checkouts, collects or fails    *)
(* payments, ends subscriptions, and issues events, which it delivers in   *)
(* any order, any number of times, until the endpoint has answered.        *)
(*                                                                         *)
(* Each organization has a row of its own, created at signup and matched   *)
(* by Stripe ids nobody shares, so one organization is enough.  Prices,    *)
(* the billing cycle, current_period_end and the usage counter are left    *)
(* out.                                                                    *)
(***************************************************************************)
EXTENDS Naturals, Sequences, FiniteSets

CONSTANTS
    Plans,       \* the keys of PLANS
    Subs,        \* Stripe subscription ids
    Custs,       \* Stripe customer ids
    Slots,       \* sessions that may be open at the same time
    TrialDays,   \* TRIAL_DAYS, in clock ticks
    GraceDays,   \* GRACE_DAYS, in clock ticks
    MaxTime,     \* bound on the clock
    MaxEvents,   \* bound on the events Stripe issues
    MaxRequests, \* bound on the owner's requests
    None         \* SQL NULL

ASSUME BillingConstants ==
    /\ "starter" \in Plans
    /\ TrialDays \in Nat /\ GraceDays \in Nat
    /\ MaxTime \in Nat /\ MaxEvents \in Nat /\ MaxRequests \in Nat
    /\ None \notin Plans \cup Subs \cup Custs \cup Nat

VARIABLES
    sub,         \* the organization's row of table subscriptions
    ledger,      \* table webhook_events: the ids claimed
    session,     \* per slot: the open session
    offers,      \* checkout pages the browser has been sent to
    customers,   \* Stripe: the customers created
    stripe,      \* Stripe: its subscriptions
    events,      \* Stripe: the events issued, in order; the index is the id
    clock,       \* datetime.utcnow()
    requests,    \* how many requests the owner has made
    effects,     \* history: how often each event has been applied
    tidy         \* history: no two sessions overlapped, events came in order

vars == <<sub, ledger, session, offers, customers, stripe, events, clock,
          requests, effects, tidy>>

EventIds == 1..MaxEvents
Issued   == 1..Len(events)

-----------------------------------------------------------------------------
(* Types.                                                                  *)

Columns == {"plan", "status", "cust", "subId", "pending", "trialEnds",
            "grace", "cancel"}

SubRow == [plan      : Plans,
           status    : {"trialing", "active", "past_due", "canceled"},
           cust      : Custs \cup {None},
           subId     : Subs \cup {None},
           pending   : Plans \cup {None},
           trialEnds : Nat \cup {None},
           grace     : Nat \cup {None},
           cancel    : BOOLEAN]

Offer == [cust : Custs, plan : Plans]

\* _STATUS_MAP, Stripe's statuses in ours.
StatusMap == [trialing |-> "trialing", active |-> "active",
              past_due |-> "past_due", unpaid |-> "past_due",
              incomplete |-> "past_due",
              canceled |-> "canceled", incomplete_expired |-> "canceled"]

\* The statuses Stripe reports of a subscription bought here: it starts paid
\* and without a trial, and its end is an event of its own.
Reported == {"active", "past_due", "unpaid"}

EventTypes == {"completed", "updated", "failed", "paid", "deleted"}

\* Only "completed" carries a plan (its metadata), only "updated" a status.
Event == [type   : EventTypes,
          sub    : Subs,
          cust   : Custs,
          plan   : Plans \cup {None},
          status : DOMAIN StatusMap]

\* new is the row the session wants, wrote the columns its UPDATE names,
\* event the id it has claimed (0: an owner's request), page the checkout
\* page its answer will carry.
Session == [open  : BOOLEAN,
            event : Nat,
            new   : SubRow,
            wrote : SUBSET Columns,
            page  : SUBSET Offer]

StripeSub == [state  : {"none", "active", "past_due", "canceled"},
              cust   : Custs \cup {None},
              plan   : Plans \cup {None},
              cancel : BOOLEAN]

TypeOK ==
    /\ sub \in SubRow
    /\ ledger \subseteq Nat
    /\ session \in [Slots -> Session]
    /\ offers \subseteq Offer
    /\ customers \subseteq Custs
    /\ stripe \in [Subs -> StripeSub]
    /\ events \in Seq(Event)
    /\ clock \in Nat
    /\ requests \in Nat
    /\ effects \in [EventIds -> Nat]
    /\ tidy \in BOOLEAN

\* ensure_subscription at signup: a trial of the starter plan.
Trial == [plan |-> "starter", status |-> "trialing", cust |-> None,
          subId |-> None, pending |-> None, trialEnds |-> TrialDays,
          grace |-> None, cancel |-> FALSE]

Closed == [open |-> FALSE, event |-> 0, new |-> Trial, wrote |-> {}, page |-> {}]

Init ==
    /\ sub = Trial
    /\ ledger = {}
    /\ session = [w \in Slots |-> Closed]
    /\ offers = {}
    /\ customers = {}
    /\ stripe = [s \in Subs |-> [state |-> "none", cust |-> None,
                                 plan |-> None, cancel |-> FALSE]]
    /\ events = <<>>
    /\ clock = 0
    /\ requests = 0
    /\ effects = [e \in EventIds |-> 0]
    /\ tidy = TRUE

-----------------------------------------------------------------------------
(* Access (access_state).                                                  *)

Future(t) == t # None /\ t > clock

\* The organization may use the paid features.
Allowed ==
    \/ sub.status = "active"
    \/ sub.status = "trialing" /\ Future(sub.trialEnds)
    \/ sub.status = "past_due" /\ Future(sub.grace)

Suspended == sub.status = "past_due" /\ ~Allowed

-----------------------------------------------------------------------------
(* Sessions.                                                               *)

\* The columns of a where wrote says so, else those of b.
Pick(a, b, wrote) ==
    [plan      |-> IF "plan" \in wrote THEN a.plan ELSE b.plan,
     status    |-> IF "status" \in wrote THEN a.status ELSE b.status,
     cust      |-> IF "cust" \in wrote THEN a.cust ELSE b.cust,
     subId     |-> IF "subId" \in wrote THEN a.subId ELSE b.subId,
     pending   |-> IF "pending" \in wrote THEN a.pending ELSE b.pending,
     trialEnds |-> IF "trialEnds" \in wrote THEN a.trialEnds ELSE b.trialEnds,
     grace     |-> IF "grace" \in wrote THEN a.grace ELSE b.grace,
     cancel    |-> IF "cancel" \in wrote THEN a.cancel ELSE b.cancel]

\* What the ORM will write: the columns that differ from the loaded row, and
\* those in `stamped`, set to an instant no earlier value equals.
Written(new, stamped) == {c \in Columns : new[c] # sub[c]} \cup stamped

\* Session w loads the row now and wants to leave it as new.
Open(w, event, new, stamped, page) ==
    /\ ~session[w].open
    /\ session' = [session EXCEPT ![w] =
          [open  |-> TRUE,
           event |-> event,
           new   |-> Pick(new, Trial, Written(new, stamped)),
           wrote |-> Written(new, stamped),
           page  |-> page]]

-----------------------------------------------------------------------------
(* The owner's requests.                                                   *)

\* One more request; its session will leave the row as new and answer page.
Request(w, new, page) ==
    /\ requests < MaxRequests
    /\ requests' = requests + 1
    /\ Open(w, 0, new, {}, page)
    /\ UNCHANGED <<sub, ledger, offers, events, clock, effects, tidy>>

\* Mutant: choosing a plan grants it.
BeginCheckoutGrants(w, p) ==
    \E c \in IF sub.cust = None THEN Custs \ customers ELSE {sub.cust} :
      /\ customers' = customers \cup {c}
      /\ Request(w, [sub EXCEPT !.cust = c, !.plan = p, !.status = "active"],
                 {[cust |-> c, plan |-> p]})
      /\ UNCHANGED stripe

\* create_checkout: creates the Stripe customer if the loaded row has none,
\* opens a checkout page and remembers the plan as pending.
BeginCheckout(w, p) ==
    \E c \in IF sub.cust = None THEN Custs \ customers ELSE {sub.cust} :
      /\ customers' = customers \cup {c}
      /\ Request(w, [sub EXCEPT !.cust = c, !.pending = p],
                 {[cust |-> c, plan |-> p]})
      /\ UNCHANGED stripe

\* change_plan: Stripe changes the price while the session is still open.
BeginChangePlan(w, p) ==
    /\ sub.subId # None
    /\ stripe[sub.subId].state # "canceled"
    /\ stripe' = [stripe EXCEPT ![sub.subId].plan = p]
    /\ Request(w, [sub EXCEPT !.pending = p], {})
    /\ UNCHANGED customers

\* Mutant: the loaded subscription is not told to Stripe.
BeginCancelLocally(w) ==
    /\ Request(w, [sub EXCEPT !.cancel = TRUE], {})
    /\ UNCHANGED <<customers, stripe>>

\* cancel: at Stripe when a subscription is linked, locally in any case.
BeginCancel(w) ==
    /\ \/ sub.subId = None /\ UNCHANGED stripe
       \/ /\ sub.subId # None
          /\ stripe[sub.subId].state # "canceled"
          /\ stripe' = [stripe EXCEPT ![sub.subId].cancel = TRUE]
    /\ Request(w, [sub EXCEPT !.cancel = TRUE], {})
    /\ UNCHANGED customers

-----------------------------------------------------------------------------
(* handle_webhook and _dispatch.                                           *)

\* _find_by_subscription, then _find_by_customer.
Finds(e) == sub.subId = e.sub \/ sub.cust = e.cust

OnCompleted(e) ==
    [sub EXCEPT !.cust = e.cust, !.subId = e.sub, !.plan = e.plan,
                !.status = "active", !.pending = None, !.cancel = FALSE,
                !.trialEnds = None, !.grace = None]

\* Mutant: Stripe's status is stored as it comes.
OnUpdatedUnmapped(e) ==
    LET status    == StatusMap[e.status]
        recovered == status \in {"active", "trialing"}
    IN [sub EXCEPT
          !.status  = e.status,
          !.grace   = CASE recovered -> None
                        [] status = "past_due" /\ sub.grace = None -> clock + GraceDays
                        [] OTHER -> sub.grace,
          !.plan    = IF recovered /\ sub.pending # None THEN sub.pending ELSE sub.plan,
          !.pending = IF recovered THEN None ELSE sub.pending]

OnUpdated(e) ==
    LET status    == StatusMap[e.status]
        recovered == status \in {"active", "trialing"}
    IN [sub EXCEPT
          !.status  = status,
          !.grace   = CASE recovered -> None
                        [] status = "past_due" /\ sub.grace = None -> clock + GraceDays
                        [] OTHER -> sub.grace,
          !.plan    = IF recovered /\ sub.pending # None THEN sub.pending ELSE sub.plan,
          !.pending = IF recovered THEN None ELSE sub.pending]

OnFailed == [sub EXCEPT !.status = "past_due", !.grace = clock + GraceDays]

OnPaid == [sub EXCEPT !.status = "active", !.grace = None]

OnDeleted == [sub EXCEPT !.status = "canceled", !.cancel = FALSE]

\* Mutant: a recovered payment does not lift past_due.
OutcomeIgnoringPaid(e) ==
    CASE e.type = "completed" -> OnCompleted(e)
      [] e.type = "updated" /\ Finds(e) -> OnUpdated(e)
      [] e.type = "failed" /\ Finds(e) -> OnFailed
      [] e.type = "deleted" /\ sub.subId = e.sub -> OnDeleted
      [] OTHER -> sub

\* The row the handler of e wants; the row itself when it answers "ignored".
\* A checkout names the organization in its metadata, so it is always found;
\* a deletion is looked up by subscription id only.
Outcome(e) ==
    CASE e.type = "completed" -> OnCompleted(e)
      [] e.type = "updated" /\ Finds(e) -> OnUpdated(e)
      [] e.type = "failed" /\ Finds(e) -> OnFailed
      [] e.type = "paid" /\ Finds(e) -> OnPaid
      [] e.type = "deleted" /\ sub.subId = e.sub -> OnDeleted
      [] OTHER -> sub

\* Mutant: the ledger is not consulted.
BeginEventAgain(w, i) ==
    /\ i \in Issued
    /\ ~ \E v \in Slots : session[v].open /\ session[v].event = i
    /\ LET e == events[i] IN
       Open(w, i, Outcome(e),
            IF e.type = "failed" /\ Finds(e) THEN {"grace"} ELSE {}, {})
    /\ UNCHANGED <<sub, ledger, offers, customers, stripe, events, clock,
                   requests, effects, tidy>>

\* A delivery claims the event id and handles the event.  The claim is an
\* INSERT of a primary key: a second delivery waits for the session that
\* holds the key and is refused if that one commits ("already_processed").
BeginEvent(w, i) ==
    /\ i \in Issued \ ledger
    /\ ~ \E v \in Slots : session[v].open /\ session[v].event = i
    /\ LET e == events[i] IN
       Open(w, i, Outcome(e),
            IF e.type = "failed" /\ Finds(e) THEN {"grace"} ELSE {}, {})
    /\ UNCHANGED <<sub, ledger, offers, customers, stripe, events, clock,
                   requests, effects, tidy>>

\* Nothing else was open, and w applies the oldest event that is missing.
InOrder(w) ==
    /\ \A v \in Slots \ {w} : ~session[v].open
    /\ session[w].event # 0 => \A i \in Issued : i < session[w].event => i \in ledger

\* The UPDATE, the ledger row and the answer (which carries the checkout
\* page) take effect together.
Commit(w) ==
    /\ session[w].open
    /\ sub' = Pick(session[w].new, sub, session[w].wrote)
    /\ ledger' = ledger \cup ({session[w].event} \ {0})
    /\ effects' = IF session[w].event = 0 THEN effects
                  ELSE [effects EXCEPT ![session[w].event] = effects[session[w].event] + 1]
    /\ offers' = offers \cup session[w].page
    /\ tidy' = (tidy /\ InOrder(w))
    /\ session' = [session EXCEPT ![w] = Closed]
    /\ UNCHANGED <<customers, stripe, events, clock, requests>>

\* The process dies or the database refuses: the transaction is rolled back,
\* what Stripe has been told stays.
Crash(w) ==
    /\ session[w].open
    /\ session' = [session EXCEPT ![w] = Closed]
    /\ UNCHANGED <<sub, ledger, offers, customers, stripe, events, clock,
                   requests, effects, tidy>>

-----------------------------------------------------------------------------
(* Stripe.                                                                 *)

\* Stripe issues an event about s.
Issue(type, s, plan, status) ==
    /\ Len(events) < MaxEvents
    /\ events' = Append(events, [type |-> type, sub |-> s,
                                 cust |-> stripe'[s].cust, plan |-> plan,
                                 status |-> status])
    /\ UNCHANGED <<sub, ledger, session, customers, clock, requests, effects,
                   tidy>>

\* The customer pays on a checkout page.
Purchase(s, o) ==
    /\ stripe[s].state = "none"
    /\ stripe' = [stripe EXCEPT ![s] = [state |-> "active", cust |-> o.cust,
                                        plan |-> o.plan, cancel |-> FALSE]]
    /\ offers' = offers \ {o}
    /\ Issue("completed", s, o.plan, "active")

Live(s) == stripe[s].state \in {"active", "past_due"}

\* A payment, or one more retry of it, fails.
FailPayment(s) ==
    /\ Live(s)
    /\ stripe' = [stripe EXCEPT ![s].state = "past_due"]
    /\ UNCHANGED offers
    /\ Issue("failed", s, None, "past_due")

\* A payment succeeds: a renewal, or a retry after failures.
CollectPayment(s) ==
    /\ Live(s)
    /\ stripe' = [stripe EXCEPT ![s].state = "active"]
    /\ UNCHANGED offers
    /\ Issue("paid", s, None, "active")

\* customer.subscription.updated (or .created): some attribute of the
\* subscription has changed; the event carries its status.
Notify(s) ==
    /\ Live(s)
    /\ UNCHANGED <<stripe, offers>>
    /\ \E status \in Reported :
         /\ StatusMap[status] = stripe[s].state
         /\ Issue("updated", s, None, status)

\* The subscription ends: the period of a canceled one, or the last retry.
Terminate(s) ==
    /\ Live(s)
    /\ stripe' = [stripe EXCEPT ![s].state = "canceled"]
    /\ UNCHANGED offers
    /\ Issue("deleted", s, None, "active")

Advance ==
    /\ clock < MaxTime
    /\ clock' = clock + 1
    /\ UNCHANGED <<sub, ledger, session, offers, customers, stripe, events,
                   requests, effects, tidy>>

-----------------------------------------------------------------------------
Next ==
    \/ \E w \in Slots :
         \/ \E p \in Plans : BeginCheckout(w, p) \/ BeginChangePlan(w, p)
         \/ BeginCancel(w)
         \/ \E i \in EventIds : BeginEvent(w, i)
         \/ Commit(w)
         \/ Crash(w)
    \/ \E s \in Subs :
         \/ \E o \in offers : Purchase(s, o)
         \/ FailPayment(s) \/ CollectPayment(s) \/ Notify(s) \/ Terminate(s)
    \/ Advance

\* Stripe redelivers an event until it is answered, an open session ends,
\* and an event is not lost to a crash every time it is handled.
Fairness ==
    /\ \A w \in Slots : WF_vars(Commit(w) \/ Crash(w))
    /\ \A i \in EventIds :
         /\ SF_vars(\E w \in Slots : BeginEvent(w, i))
         /\ SF_vars(\E w \in Slots : session[w].event = i /\ Commit(w))

SafetySpec == Init /\ [][Next]_vars
Spec       == SafetySpec /\ Fairness

-----------------------------------------------------------------------------
(* Properties.                                                             *)

\* "Every webhook event is processed exactly once": however often an event is
\* delivered and however many sessions are lost, it takes effect once.
Promise == INSTANCE ExactlyOnce WITH Events <- EventIds, sent <- Issued

AppliesEveryEventOnce == Promise!Spec

\* "The Stripe webhook is the ONLY writer of paid subscription state": no
\* request of the owner, whatever it loaded and whenever it commits, changes
\* the plan, the status, the link to Stripe or a deadline.
PaidStateOnlyByWebhook ==
    [][Pick(sub', Trial, {"plan", "status", "subId", "trialEnds", "grace"})
         # Pick(sub, Trial, {"plan", "status", "subId", "trialEnds", "grace"})
       => ledger' # ledger]_vars

\* Nobody has access to paid features without paying or being in the trial:
\* access outside the trial goes back to a checkout that Stripe completed.
AccessIsEarned ==
    (Allowed /\ sub.status # "trialing") =>
        \E s \in Subs : stripe[s].state # "none" /\ \E i \in ledger : events[i].sub = s

Bought == {s \in Subs : stripe[s].state # "none"}

\* When sessions do not overlap, events are applied in the order in which
\* Stripe issued them and only one subscription was ever bought, then a row
\* that has caught up agrees with Stripe: same subscription, customer and
\* status, and a cancellation it shows is scheduled there.
CaughtUpRowAgrees ==
    (tidy /\ ledger = Issued /\ \A w \in Slots : ~session[w].open) =>
        \A s \in Bought : Bought = {s} =>
          /\ sub.subId = s
          /\ sub.cust = stripe[s].cust
          /\ sub.status = stripe[s].state
          /\ sub.cancel => stripe[s].cancel

\* "After the grace window, access is restricted until payment recovers": a
\* suspended organization gets access back only through an event that says
\* it has paid.
SuspendedUntilPaid ==
    [][(Suspended /\ Allowed') =>
         \E i \in ledger' \ ledger :
            \/ events[i].type \in {"completed", "paid"}
            \/ (events[i].type = "updated" /\ StatusMap[events[i].status] = "active")]_vars

\* "The browser/checkout success page grants nothing": when the plan changes,
\* it changes to one that Stripe is charging for.
PlanChangesArePaid ==
    [][sub'.plan # sub.plan => \E s \in Subs : stripe[s].plan = sub'.plan]_vars

=============================================================================
