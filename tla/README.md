# A TLA+ model of E-ZFlow

E-ZFlow is the back end of a quoting service for trades: an organization's
employees create quotes and send them, customers approve them over a link or by
SMS, an approval books a job and stages its materials, and Stripe bills the
organization. This directory holds TLA+ modules that model the parts of it where
correctness depends on the order of events, TLC configurations that check them,
and proofs that TLAPS checks.

## The program, as far as the models depend on it

* The API is FastAPI under uvicorn with two workers; every handler is a
  coroutine with an SQLAlchemy session of its own (`core/database.py:83-89`).
  A session that is closed without a commit is rolled back.
* The database is PostgreSQL at its default isolation (READ COMMITTED). No query
  locks a row and no table has a version column. A handler SELECTs a row, tests
  it, and writes it at its commit, so handlers interleave between the two.
* The ORM's UPDATE names only the columns whose value the handler changed with
  respect to what it loaded. Two handlers that overlap therefore mix their
  columns; and writing back the value one has loaded writes nothing. Both
  effects are in the models, because several properties depend on them.
* A Celery worker and a beat process share the database and talk to the API
  through Redis, which delivers a task at least once.

## Inventory

For each part: its state, its operations, what it interacts with, what is hard,
and what makes it correct. The hazards, each at its line, are in `PROJECT.json`.

**Quote lifecycle** (`api/routes/quotes_routes.py`, `api/routes/public_routes.py`,
the accept branch of `api/main.py`, the insert in `workers/celery_tasks.py`).
State: the quote row (status, expiry, hash of the approval token, revocation
stamp, acceptance stamp, job id), the jobs and staged material orders made from
it, two steps of the organization's onboarding checklist. Operations: create,
send and resend, accept over three channels, expire, revoke, stage materials.
Interacts with billing (a quote is created only while billing allows it), jobs,
materials, conversations. Hard: unlocked read-test-write by several actors, stale
snapshots, the clock passing the expiry between test and commit, a rollback in
the middle. Correct when the quote, its job and its orders tell one story, dead
links stay dead, and nothing is booked late. *Modelled.*

**Subscription billing** (`payments/billing.py`, `api/routes/billing_routes.py`,
`/webhook/stripe`). State: one subscription row per organization, the ledger of
event ids, the usage counter; at Stripe: customers, subscriptions, checkout
pages, events. Operations: checkout, plan change, cancellation, five kinds of
webhook, the test of the quota and the count of a quote. Hard: duplicate,
reordered and lost deliveries, crashes after the claim, owner requests that
overlap a webhook, calls to Stripe before the local commit, a counter that is
incremented from a loaded value. Correct when each event takes effect exactly
once, owners cannot write paid state, a row that has caught up agrees with
Stripe, and the counter counts. *Modelled.*

**Accounts, tokens and lockout** (`api/routes/auth_routes.py`, `core/auth.py`,
`core/tenancy.py`). State: users (password, verification, activity, failed
logins, lock), one-time tokens (used, expiry), the rate limiter's window.
Operations: signup, invitation, login, refresh, logout, verify, resend, forgot,
reset, deactivation. Hard: two uses of a single-use token, a refresh racing a
reset, lost increments of the failure counter, the edge of a window. Correct when
a spent token does nothing, a reset ends every session, the lockout comes after
the configured number of failures and not before. *Modelled.*

**Organization, users, customers, channels** (`api/routes/org_routes.py`,
`core/rbac.py`). State: users' roles and activity, the checklist column,
customers, inbound channels. Hard: the checklist is overwritten whole; the last
administrator may go; a channel may be switched off in the middle of a
conversation. *Modelled, without the contents of business information and skills.*

**Jobs and crew scheduling** (`api/routes/jobs_routes.py`). State: jobs (status,
window, completion stamp), assignments. Operations: create, update, assign,
unassign. Hard: `_user_busy` is read before the insert, and later edits of a
window are not tested. Correct when a worker has no two overlapping active jobs.
*Modelled.*

**Supplier catalog and material orders** (`api/routes/materials_routes.py`).
State: catalog items with their stock, orders with a status machine. Hard:
availability is tested and not reserved; transitions and unique SKUs are tested
on what was loaded. *Modelled.*

**Conversations and the photo worker** (`api/main.py`, `core/conversation_manager.py`,
`workers/celery_tasks.py`). State: the conversation (trade, stage, quote), the
queue's messages and their runs, the follow-up. Hard: a retry after the quote was
committed, a retry that publishes two copies, stage updates that race.
*Modelled.*

**Pricing engine** (`core/pricing_engine.py`, `PATCH /org/pricing`, the pricing
half of `create_quote` and `explain_quote`). State: settings, snapshots. Hard:
every figure is rounded by itself; three places test the same limits in two
arithmetics. Correct when published figures add up and what was saved can be
priced, now and later. *Modelled.*

**Legacy quoting** (`core/image_analyzer.py`, `core/quote_calculator.py`,
`config/pricing_configs.py`). Photos to analyses, analyses to one, one to a price.
Hard: rankings of words, averages, tiers, limits. *Modelled as the worker calls it.*

**Assistant** (`api/routes/assistant_routes.py`). One command finds or creates a
customer, makes a quote, a job, and sends it, in up to three commits. Hard: a
failure half way, a command sent again. *Modelled from the understood command on;
the parsing of the text is an input.*

Not modelled: see the end.

## Modules

| module | models |
|---|---|
| `QuoteLifecycle` | the quote lifecycle, detailed to the database session |
| `Billing`, `ExactlyOnce` | the subscription row, the webhook, the owner's requests, Stripe; and what the webhook endpoint promises, without how |
| `Accounts` | users, one-time tokens, login and lockout, password reset |
| `Handlers` | what the next four share: requests, each with a session of its own |
| `Workspace` | users' roles, the onboarding checklist |
| `Scheduling` | customers, jobs, assignments (extends `Workspace`) |
| `MaterialOrders` | catalog items and material orders |
| `Assistant` | one command of the assistant, commit by commit |
| `Backoffice` | `Workspace`, `Scheduling` and `MaterialOrders` in one system of overlapping requests |
| `PhotoQuotes` | inbound webhooks, the conversation, the Celery task with its retries, the quota, follow-ups |
| `RateLimiter` | the sliding window |
| `Pricing` | the engine and the three handlers around it |
| `LegacyQuote` | analyses of photos, their merge, the calculator |
| `Desk` | the last four of these side by side: they share no state, so a behaviour follows one |
| `MC...` | an instance for TLC: symmetry, and sets that a configuration cannot write |
| `...Proofs` | theorems and their proofs |

`map` in `PROJECT.json` names the lines that each definition stands for. Operators
whose comment starts with "Mutant" are wrong on purpose: each is a plausible bug of the
definition after it, and shows that a property would notice that bug.

### QuoteLifecycle

`quote`, `jobs`, `orders`, `onboarding` are tables or columns; `txn[r]` is the
session of request `r` and holds what the handler loaded: the status, whether
there was a token and a revocation, the checklist, and the instant of its tests.
A handler is a `Begin` action (load the row, apply every test that precedes the
first write) and a `Commit` action (write the changed columns, insert, commit).
Between the two anything may happen, including `Abort`: the process dies, and
what the session flushed is rolled back.

| code | actions |
|---|---|
| `create_quote` | `BeginCreate`, `CommitCreate` |
| `_engine_quote_for_analysis` (photo worker) | `PhotoQuote` |
| `send_quote` | `BeginSend`, `CommitSend` |
| `_accept_quote_for_customer` from `accept_quote`, `approve_quote` (through `_get_valid_quote`) and `webhook_sms` | `BeginAccept` with `Admits`, `LoadOrg`, then `CommitAccept` or `RejectAccept` |
| the same on an expired quote | `BeginExpire`, `CommitExpire` |
| `revoke_approval` | `BeginRevoke`, `CommitRevoke` |
| `create_materials_order` | `BeginOrder`, `CommitOrder` |

`RejectAccept` is the approval of a quote the photo worker made: such a quote
names no organization customer, `jobs.org_customer_id` is NOT NULL, so the flush
fails and the handler ends in a 500 with nothing written. `deadLinks` and
`rivals` are history variables; no guard reads them.

Left out: prices, texts, documents, the audit log, permission checks and tenant
scoping (each organization sees only its own rows), requests that are refused
(they write nothing), and the other steps of the checklist. Jobs and orders that
an employee enters by hand are not in `jobs` and `orders`; a manual order that
names the quote only makes `create_materials_order` refuse more often.

### Billing

One organization, since every row is matched by ids that no two share. `session`
holds the open sessions; `Open` loads the row and records the row the handler wants
and the columns its UPDATE will name; `Commit` applies exactly these, inserts the
ledger row and hands out the checkout page. `Crash` drops the session, and what
Stripe was told stays. The claim of an event id is an INSERT of a primary key:
a second delivery waits for the first one's transaction and is refused if that
commits. The model says this as "no other open session holds the event, and it is
not in the ledger".

| code | actions |
|---|---|
| `create_checkout` | `BeginCheckout`, `Commit` |
| `change_plan` | `BeginChangePlan`, `Commit` |
| `cancel` | `BeginCancel`, `Commit` |
| `handle_webhook`, `_dispatch`, `_on_*` | `BeginEvent` (`Outcome` and the `On...` operators), `Commit` |
| rollback | `Crash` |
| Stripe (external) | `Purchase`, `FailPayment`, `CollectPayment`, `Notify`, `Terminate` |

Stripe is modelled from the events the handlers read and the shapes of the mock
gateway. It issues any event that fits the state of a subscription, and the
endpoint may see events in any order. `OnUpdated` handles every status of
`_STATUS_MAP`; the environment reports only those in `Reported`, because the
checkout used here starts a paid subscription without a trial, and an ended one is
reported by `customer.subscription.deleted`. Prices, billing cycle and period end
are left out; the usage counter is in `PhotoQuotes`.

### Accounts

`user` and `token` are tables; `txn[r]` is the session of request `r`. A request's
identity also stands for the password it sets and, with a type, for the token it
mints. `token[i].password` and `token[i].line` are history: the password the session
began with, and the requests that issued and rotated it. `failures`, `lone` and
`overlap` are history too.

| code | actions |
|---|---|
| `signup` (two commits), `invite_user` | `BeginSignup`, `BeginInvite`, `CommitAccount`, `RejectAccount`, `CommitSignupSession` |
| `login`, `register_failed_login`, `register_successful_login` | `BeginLogin`, `CommitLogin`, `CommitBadLogin` |
| `refresh` | `BeginRefresh`, `CommitRefresh` |
| `logout` | `Logout` |
| `verify_email`; `resend_verification`, `forgot_password` | `BeginVerify`, `CommitVerify`; `MailToken` |
| `reset_password` | `BeginReset`, `SelectTokens`, `CommitReset` |
| `update_user`, `is_active` | `BeginSetActive`, `CommitSetActive` |
| rollback, time | `Abort`, `Advance` |

`SelectTokens` is a step of its own: autoflush sends the new password before the query
for the outstanding tokens, so two resets of one user wait for each other there, and
a refresh that commits after the query is not seen by it.

### Workspace, Scheduling, MaterialOrders, Backoffice

`Handlers` gives every request a session: `Load` opens it, with the handler's name,
its arguments (`key`) and what it loaded (`saw`), and `Close` or `Rollback` ends it;
`overlap[r]` is the history of who was open together with `r`.

| code | actions |
|---|---|
| `update_business_info`, `update_pricing`, `create_skill` and the other handlers that tick a step | `BeginTick`, `CommitTick` |
| `invite_user`, `update_user` | `BeginInvite`, `CommitInvite`; `BeginUpdateUser`, `CommitUpdateUser` |
| `delete_customer` | `DeleteCustomer` |
| `create_job`, `update_job` | `BeginCreateJob`, `CommitCreateJob`, `RejectCreateJob`; `BeginUpdateJob`, `CommitUpdateJob` |
| `assign_worker` with `_user_busy`; `unassign_worker` | `BeginAssign`, `CommitAssign`; `Unassign` |
| `create_catalog_item`, `update_catalog_item` | `BeginCreateItem`, `CommitCreateItem`, `UpdateItem` |
| `create_order`, `update_order_status` | `BeginCreateOrder`, `CommitCreateOrder`; `BeginOrderStatus`, `CommitOrderStatus` |
| rollback | `WorkspaceAbort`, `SchedulingAbort`, `MaterialAbort` |

A handler that only loads rows it then overwrites, or only inserts, is one step.
`changed[r]` is history: the jobs that somebody changed while `r` was open or after
it committed. Requirements, skills and suggested crews are advice that no handler
tests; titles, prices and contact details are left out.

### PhotoQuotes

One customer of one organization, by SMS or by e-mail. Each call of the conversation
manager opens a session of its own and commits, so a webhook or a run is a sequence of
small steps with others in between, and goes on with the conversation it loaded first.

| code | actions |
|---|---|
| `register_channel`, `deactivate_channel` | `RegisterChannel`, `DeactivateChannel` |
| `webhook_sms`, `webhook_email` | `HookStep`: `Receive`, `CreateConversation`, `SetTrade`, `StageTrade`, `AddPhotos`, `StagePhotos`, `Delay`, `Accept`, `StageBooked`, `Answer`, `HookDies` |
| `process_photos_and_quote`, `_engine_quote_for_analysis` | `Meter`, `Price`, `Attach`, `StageQuote`, `Notify`; `NoPhotos`, `Breaks`, `Dies` |
| `create_quote` with `check_quote_allowance`, `record_quote_usage` | `ClerkStep`: `BeginCreateQuote`, `MeterCreateQuote`, `EndCreateQuote` |
| `daily_follow_ups`, `send_follow_up` | `DailyFollowUps`, `SendFollowUp` |

Celery's default acknowledgement is early, so a run that dies is lost (`Dies`), and no
message is delivered twice by the broker; the duplicates come from the task's own
`self.retry`, which is raised inside a `try` that catches it and retries again.

`create_quote` reads the subscription twice. Nothing keeps the row that
`check_quote_allowance` has tested (a session holds what it loaded by weak references),
so `record_quote_usage` selects it anew: the test and the increment are steps of their
own. `raced` is history: `"counts"`, that two sessions had the count loaded at once;
`"tests"`, that one had while a clerk was between his test and his commit.

### RateLimiter, Pricing, LegacyQuote, Assistant, Desk

`RateLimiter` keeps the list of each key and, as history, every call; `allow` holds a
lock, so a call is one step. `Pricing` computes with exact fractions and rounds where
the engine does; tax is derived from a 28-digit quotient, which can land just below an
exact half cent, so `Nearest` allows both. `update_pricing` tests the limits in floats
and the engine in decimals; the model has one exact arithmetic for both, so that the
agreement `PricingNeverFails` speaks of is of the tests themselves. That rounding does
not part them was enumerated outside the model, for all pairs of rates of up to four
decimals whose sum is about 0.95; longer ones are left out. `LegacyQuote`
keeps the tables of the five trades. The prompt asks for words, but `_parse_response`
takes what comes, in every trade: `Replies` has every grade of the tables, and `Strange`
ones that no table knows, each with the default that the merge and the formulas give
it. Of an area only a positive number is modelled, as a footage is one; an answer of another
type fails in the parser (the photo is left out) or in the merge (there is no quote).
`Assistant` starts where a command has been understood; a user sends a command again
only after an error.

## What the runs check

| run | module and configuration | result |
|---|---|---|
| `quote` | `MCQuote` / `MCQuote.cfg` | 55 thousand states, all properties hold |
| `quote_race` | `MCQuote` / `MCQuoteRace.cfg` | `OneJobPerQuote` fails |
| `billing` | `MCBilling` / `MCBilling.cfg` | 175 thousand states, all properties hold |
| `billing_once` | `MCBilling` / `MCBillingOnce.cfg` | 28 thousand states, the refinement holds, with its liveness |
| `billing_grace` | `MCBilling` / `MCBillingGrace.cfg` | `SuspendedUntilPaid` fails |
| `billing_plan` | `MCBilling` / `MCBillingPlan.cfg` | `PlanChangesArePaid` fails |
| `accounts` | `MCAccounts` / `MCAccounts.cfg` | 280 thousand states, all properties hold |
| `backoffice` | `MCBackoffice` / `MCBackoffice.cfg` | 482 thousand states, all properties hold |
| `materials_reserved` | `MCBackoffice` / `MCMaterialsReserved.cfg` | `LinesAreReserved` fails |
| `photo` | `MCPhoto` / `MCPhoto.cfg` | 508 thousand states, all properties hold, with liveness |
| `photo_accept` | `MCPhoto` / `MCPhotoAccept.cfg` | `RepliesAccept` fails |
| `desk` | `MCDesk` / `MCDesk.cfg` | 656 thousand states, all properties hold |

**quote.** The booking record (`BookingRecordAgrees`) survives every mixture of
stale writes: an accepted or ever booked quote names one of its own jobs, and its
`accepted_at` is that approval's. `ApprovedInTime`: no job from an approval that
was tested after the expiry. `DuplicateJobsNeedOverlap` and
`DuplicateOrdersNeedOverlap`: the code does not prevent duplicates between
overlapping requests, and these say that this is the *only* way: retries that
follow one another book once. `AcceptedLeftOnlyByStaleHandlers` is the same
for the status. `OrdersFollowBooking`: no materials without a job.
`RevokedLinksStayDead`: no later send or revocation revives a link that was out
when a revocation committed; this depends on `send_quote` drawing a new token and
on `revoke_approval` always writing the stamp.
`ChecklistNeverOverclaims`: lost updates lose steps, they never invent one.

**quote_race** refutes "double approval is idempotent"
(`tests/test_review_fixes.py:195-204`) for approvals that overlap.

**billing.** `PaidStateOnlyByWebhook`: no request of the owner, with whatever
stale row, writes plan, status, link or deadlines. `AccessIsEarned`: access outside
the trial goes back to a processed event of a subscription that was bought.
`CaughtUpRowAgrees`: with sessions that did not overlap, events applied in order
and one subscription, a row that has caught up names Stripe's subscription,
customer and status, and a cancellation it shows is scheduled at Stripe, despite
crashes between the call to Stripe and the commit.

**billing_once.** `Billing` implements `ExactlyOnce` with
`sent <- 1..Len(events)` and `effects <- effects`.

**billing_grace** and **billing_plan** refute two rules of the header of
`payments/billing.py` (lines 5-8): see "findings" in `PROJECT.json`.

**accounts.** `SpentTokensDoNothing`: whatever request takes effect through a token is
the one that stamped it first, or was in flight together with it. `OldSessionsNeedOverlap`:
after a reset a session that began with an older password survives only if one of the
requests in its line was in flight together with the reset. `LockNeedsFailures` and
`LoneFailuresAreCounted` bound the lockout from both sides: never early, and late only
by failures that overlapped another login or a reset.

**backoffice.** `DoubleBookingNeedsOverlapOrEdit` names the only two ways to book a
worker twice. `CompletionStampNeedsOverlap`: `completed_at` and the status fall apart only
under two writers. `AdminsLostOnlyByOverlapOrSelf`: the rule "owners cannot demote
themselves" keeps an administrator, but for the last one's own deactivation (which the
rule does not cover) and two that change each other. `LoneStepsStay`: a step ticked
alone is never lost. `DuplicateSkusNeedOverlap` and `OrdersFollowTheirGraph` are the
same for the catalog and for the order's life cycle: a status leaves the graph only over
a change it overlapped.

**materials_reserved** refutes "availability is validated and reserved"
(`materials_routes.py:223-224`): orders that follow one another hold the same stock, and
so do two lines of one order, which is TLC's shortest trace.

**photo.** `QuotesPerMessageAreBounded`: one message makes at most one quote more than
its runs that failed and were retried, and never more than 2^MaxRetries.
`UsageCountsQuotes`: the counter equals the number of quotes unless two sessions had
loaded it at once, and then it is too low. `EmployeesKeepTheLimit`: no employee's quote is
stored over the limit, unless another session counted between the clerk's test and his
commit (photo quotes never ask). `StagesPromiseAQuote`: the stage and the quote of a
conversation are written by different commits and stay together; it does not say that a
booked one was accepted, which the code does not see to. `PhotosSettle` and `SilentCustomersAreReminded` are liveness.

**photo_accept** refutes that a reply "ACCEPT" accepts the quote
(`tests/test_review_fixes.py:219`) for the quotes that the photo flow attaches.

**desk.** `RefusesExactlyWhenFull` compares the limiter with its definition over the
whole history, in both directions. `PublishedFiguresAddUp`: parts and sums differ by at
most a cent, all parts together by two. `PricingNeverFails`: `PATCH /org/pricing`, the
engine and the snapshot agree on what is out of range. `OnlyStrangeAccessLowersThePrice`:
whatever the vision model answers, another photo of the same work never makes it
cheaper, with one exception that is spelled out: in landscaping an access no table knows
ranks with the moderate ones (`image_analyzer.py:222`) and is priced like an easy one
(`pricing_configs.py:40`), so that where it takes a moderate one's place the price drops.
The strange complexities and damages rank and cost the same. `NamesakesNeedOverlap` and
`RepeatsNeedInterruption`: the assistant duplicates a customer only under overlap, a
quote only when a command broke after its first commit.

### Bounds, and why they are enough

*quote*: one quote, because no action relates two quotes except through the
checklist; five requests, because the longest stories (create, send, send,
accept, accept) have five actors, and each of them may be aborted and run again;
`ValidFor` 1 and `MaxTime` 2, so that a quote can be fresh, in its last instant,
and expired. *billing*: two subscriptions and two customers, for a second purchase
and for two checkouts that each create a customer; two `Slots`, for every
pairwise overlap; `MaxEvents` 3 and `MaxRequests` 2, for purchase, failure and recovery
with an overlapping request; `MaxTime` can pass `TrialDays` and `GraceDays`. Three
requests (1.0 million states) and four events (1.5 million) were
also run once and agree. *billing_once* keeps time still and has one
plan and one customer: neither is read by the ledger.

*accounts*: one address, since tokens and users of two addresses never meet; four
requests, for signup, a token, its use and a rival; `MaxFailed` 2, the smallest limit
with a count below it; `Ttl` 0 and `MaxTime` 1, so that a token is good and then expired.
*backoffice*: three requests, since every property is about a pair and what came
before it, starting from a new organization or one with everything in place; two
users, jobs and items; `Changes`, `Plans`, `Edits` and `Carts` hold one input for each
branch of their handlers (demote, promote and deactivate; dated and undated; complete,
revive, move; one line and the same line twice). *materials_reserved*: two orders of a
stock of one. *photo*: two `Messages`, three `Tasks` (copies of a message published in
all; a retry that finds none left is a bound, and waits), `MaxRetries` 1, one clerk,
`Limit` 1, two `Slots` as in `render.yaml`. With `MaxRetries` 1 the bound 2^MaxRetries
of quotes per message is met. *desk*: `MaxRequests` 2 in a `Window` of 2 over `MaxTime`
4 and `MaxCalls` 6, two `Keys` and `MaxKeys` 1, so that cleanups happen; `Scale` 100
and `Fine` 10, whole percents and tenths of a cent, with `Amounts` and `Rates` at
halves of a cent and at the limits 90 and 95; `Areas` on both sides of the boundary of a
tier, one `Strange` grade besides those of the tables, and `MaxPhotos` 2, since the
property compares one photo with the merge and the merge compares pairs; three `Requests` on two `Wishes` and one name in two
spellings.

Deadlock is not checked, since every run ends when its
requests, events, messages and ticks are used up. Symmetry is used on ids that no
definition orders or chooses from, in runs without liveness.

### Fairness

`billing_once`: an open session ends, by a commit or a crash (the
handler does not block forever). Stripe delivers an event until the endpoint
answers, so a delivery that is possible again and again happens (strong fairness
of `BeginEvent` per event). And an event's session does not crash every time:
strong fairness of its commit, without which no retry scheme could promise
anything. Nothing is assumed of Stripe's business events, of the owner, or of the
order of deliveries.

`photo`: workers take what is queued and go on with it (weak fairness of `GoesOn` for
each message of the queue), and the scheduler keeps its hours (weak fairness of
`DailyFollowUps` and `SendFollowUp`). Failures, deaths of a run, webhooks and employees
are free: no fairness makes them happen or stop.

## What is proved

TLAPS checks all theorems for every value of the constants, from the named
assumptions of the modules (`QuoteConstants`, `BillingConstants`, `AccountConstants`,
`SchedulingConstants`, `MaterialConstants`, ...), which say that bounds and durations
are natural numbers, that NULL is none of the ids, and that inputs have their type.
TLC evaluates these assumptions in every run. None of the properties is inductive by
itself; in each module the work is in the invariant.

*QuoteProofs.* Every property of the run `quote`. The invariant `IInv` adds, above all,
`SessionInv`, which says what
an open session may still rely on although it loaded the row earlier: a send that
loaded "sent" finds the quote past its draft for ever; an approval's test of the
expiry stays valid, because the expiry never changes; an order's job stays. Then
`JobInv` and `OrderInv` trace each job and order to the request that made it,
`SenderInv` traces a customer's quote that has left the draft to a send on record,
`OverlapInv` says that once a quote is booked every approval in flight was in flight
at each booking (or a second send of the draft has re-opened it), `DeadLinkInv` and
`ChecklistInv` do the same for links and snapshots of the checklist. The proof has a
lemma for all loads (`LoadKeeps`), lemmas for what the end of a session cannot
disturb (`Ending...`), and one lemma for each commit.

*BillingProofs.* Every safety property of the runs `billing` and `billing_once`. `IInv`
says that an open session holds an issued event nobody has
applied, or is a request that will write no paid column; that no two sessions hold
one event; and that `effects` is the characteristic function of the ledger. From it
follow `AccessIsEarned`, `PaidStateOnlyByWebhook`, and that every step maps to a
step or a stutter of `ExactlyOnce` (`BillingAppliesAtMostOnce`).
`BillingCaughtUp` needs the history of both sides (`AgreeInv`). `HistoryInv`: what Stripe
issued about a subscription begins with the completed checkout, and its last event
reports the present state. `PrefixInv`: while nothing overlapped, the ledger is a prefix
of what was issued. `FreshInv`: what an open session will leave is what its handler would
make of the row as it is now, since no other has committed since it loaded it.
`RowInv`: the row says what the last applied event said. `Grows` names what no step
undoes, and lets each action be looked at by itself.

*AccountsProofs.* Every property of the run `accounts`. `StructInv`: types, two sessions
open together know of each other, and whoever a session is about exists. `CounterInv`
relates the counter in the row, the counters that open logins loaded, and the history of
failures: a loaded value lags behind by at most what its rivals did. `FreshInv` and
`ConsumerInv`: a request that may still mint a token has not minted it, and a request
that works on a token was open together with whoever stamped that token first.
`PasswordInv`: a good session, a session about to be issued, and a login or refresh in
flight go back to the user's present password or have an excuse (a committed reset that
met one of the requests of its line), and an open reset has selected every good session
that it did not meet.

*HandlersProofs*, *BackofficeProofs*, *SchedulingProofs*, each extending the one before:
every property of the run `backoffice`; `HandlersProofs` holds what opening and closing a
session does, whatever its operation. Components see each other only as foreign
sessions: `Foreign(ops)` says that a step of another component opens or closes a session
that is not one of `ops` and leaves the component's tables alone, so that each
component's invariant is proved against its own actions and that one case.
`MaterialInv` ties an open insert of a SKU to the catalog it looked at and an open status
change to the status it tested; `TickInv` says that an open handler of the checklist has
loaded every lone step; `UserInv` that an administrator whom an open session acts
for was one when it began, and is still unless a rival changed him; `CrewInv` and
`BookingInv` that an open assignment has seen every clash, or its excuse is on record;
`StampInv` that an open update saw the status and stamp of its job together, or a
rival wrote in between.

*PhotoProofs.* Every safety property of the run `photo`. `CountInv`: while no two
sessions had it loaded at once, the counter is the number of quotes stored, and at most
one session holds it, with its present value; afterwards no session has loaded more than
was stored, so that the counter never exceeds the quotes. While no session counted next
to a clerk who has tested, the counter is still below the limit and nobody else holds it. `StageInv` follows the conversation through
webhooks that write it from an earlier load: a quote, once named, is never taken back.
`ShareInv` counts the runs of a message that quoted or still may, one for the message and
one for each run that was retried. For the bound `2^MaxRetries`, `KeyInv` gives each run
a branch of a binary tree of depth `MaxRetries`: a retry that publishes two copies hands
one half of the branches below it to each, so that the quotes of a message have different
subsets of `1..MaxRetries` as their keys. The keys are no variable of the model; the
invariant says that some assignment exists, and each step's proof gives the next one.

*DeskProofs.* Every property of the run `desk`, first for each part, then for the
composition.

* Pricing: rounding half up is within half a unit, over a common denominator of
  all figures; sums of two and four roundings follow. The settings saved are always in the
  engine's range, and the stored figures are the engine's for the stored snapshot.
* The limiter: the list kept of a key is the history of its allowed calls in the
  window that ends now (`LimiterInv`), through pruning and cleanup, so that the test of
  its length is the test of the definition.
* Legacy quotes: photos that agree on the area have it as their average. The code adds
  the areas up, the model folds over the photos that show one, and what a fold computes
  is an induction; it is done here as the search for a smallest set of photos on which
  the fold and the number of cells under its columns differ (`WFMin`, `SumCountsCells`).
  The average then selects the tier of the one area (`AverageTier`), the merged grades are
  the worst ones (`MergedGrades`), the factors grow with the ranks, whatever the words,
  but for a moderate access against an unknown one (`FactorsGrow`), and shares, the least
  and the most price, the tax and its rounding all grow (`ViewsNeverLower`). It is proved
  of all five trades with the tables as they are, for any areas, any set of strange
  grades and any number of photos.
* The assistant: `LookedInv` says of an open command that found nobody of its name that
  whoever has added such a customer since was open together with it; `WishInv` that one
  command at a time works for a wish, and that a quote is of its command's wish unless
  that command was lost; `CleanInv` that a command has left nothing before its first
  commit.
* The desk: its behaviours are behaviours of the parts (`DeskIsItsParts`), so each
  part's theorem holds in the composition.

Every invariant and every action property that a passing run checks is a theorem, and of
`AppliesEveryEventOnce` the safety half. Only model-checked are:

* the liveness properties `PhotosSettle` and `SilentCustomersAreReminded`, and the
  liveness half of `AppliesEveryEventOnce`: fairness and ENABLED are outside what the
  prover does;
* the violations: TLC's counterexamples are the proof.

No module declares a RECURSIVE operator.

## Disagreements and observations

The five runs that expect a violation refute a sentence of the repository each; the
quotations are under "findings" in `PROJECT.json`. Modelling met more that no document
contradicts, or that a run does not show:

* `Accounts!RefreshTokensAreSingleUse` says what a comment says
  (`auth_routes.py:265`, "each refresh token is single-use"); it holds only for refreshes
  that do not overlap, and `SpentTokensDoNothing` says exactly that.
* `send_follow_up` builds the coroutine that would send the reminder and drops it: the
  follow-up is reported as sent and never delivered. `SilentCustomersAreReminded`
  therefore speaks of the report.
* `self.retry` inside the `try` publishes two copies when nothing could be downloaded.
* A first e-mail with a trade and photos loses the photos: the handler tests the trade of
  the conversation it loaded before it set it. A reply "accept" by e-mail is not handled,
  though the mail that brings the quote asks for one.
* `_COMPLEXITY_HOURS` has the keys simple, medium, complex, and the analyzer answers low,
  medium, high. `plumbing`, `autobody` and `electrical` prices of the legacy calculator
  depend on nothing in the photo but an area, which their prompts do not ask for. An averaged area between two tiers (they are a unit
  apart) falls into the last; across a tier's end a larger area can cost less; an area
  nobody saw makes two formulas raise a `TypeError`. An unknown word for the access
  ranks as moderate and is priced as easy: of two photos of one yard, "difficult" and
  "moderate", the first is kept, and the job is cheaper than the second photo alone. Emergency and permit surcharges enter a
  subtotal that `calculate` does not read.
* The docstring of the engine says that the parts add up to the price within a cent;
  that is so before rounding, and two cents after it. `material_markup_pct` is not used.
* The assistant schedules a job for a quote nobody has accepted; a later acceptance makes
  a second one. A command whose pricing fails keeps the customer it created.
* `update_user` compares with the owner's own role, not with his activity: the last owner
  can deactivate himself.
* Two first messages of a new customer race for the insert of the conversation; the loser
  ends in an error and its message is lost (`conversation_manager.py:154`).

## Not modelled

* **Retail inventory and pickup** (`materials/store_inventory.py`,
  `payments/stripe_client.py`): tables in one process's memory, searches at
  external stores, and a payment client that nothing calls.
* **Dashboard and browser client**: they read, and change nothing.
* **Messaging, alerting, logging, verification of requests**: input and output.
* **Schema migrations and scripts**: run by operators, outside the program's control flow.
* **The assistant's reading of a text**, the strength and hashing of passwords, access
  tokens (stored nowhere), the voice menu, documents and their layout.
* Across modules: `PhotoQuotes` and `QuoteLifecycle` both contain the photo worker's
  insert, and `Billing` and `PhotoQuotes` share a row, but in different columns that no
  handler reads together, so their composition would add states and no behaviour.
