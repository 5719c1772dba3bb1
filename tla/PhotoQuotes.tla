----------------------------- MODULE PhotoQuotes -----------------------------
(***************************************************************************)
(* Quotes from photos: the inbound webhooks (api/main.py), the customer's  *)
(* conversation (core/conversation_manager.py), the background tasks       *)
(* (workers/celery_tasks.py), and the quota they share with create_quote.  *)
(*                                                                         *)
(* One customer writes to one organization, by SMS or by e-mail.  Every    *)
(* call of the conversation manager commits by itself, so webhooks and     *)
(* task runs interleave between any two calls; a webhook goes on with the  *)
(* conversation it loaded at its start.                                    *)
(*                                                                         *)
(* Celery acknowledges a message when it hands it to a worker: a run that  *)
(* dies is lost.  self.retry() publishes a copy of the message and raises  *)
(* Retry; process_photos_and_quote raises it inside its own try, whose     *)
(* handler catches it and publishes a second copy.                         *)
(***************************************************************************)
EXTENDS Integers, FiniteSets

CONSTANTS
    Messages,     \* deliveries of a webhook
    Tasks,        \* messages of the queue, numbered; also the quotes their runs make
    Clerks,       \* executions of create_quote
    MaxRetries,   \* the task's 2
    Slots,        \* runs at a time (render.yaml: --concurrency 2)
    Limit,        \* the plan's quotes_per_month
    None

ASSUME PhotoConstants ==
    /\ Tasks \subseteq Nat
    /\ IsFiniteSet(Tasks)
    /\ MaxRetries \in Nat
    /\ Slots \in Nat \ {0}
    /\ Limit \in Nat
    /\ None \notin Nat

VARIABLES
    via,          \* the customer's channel
    channel,      \* the organization's row of organization_channels
    conv,         \* the customer's row of conversations
    hook,         \* the webhook handler of each message
    task,         \* each message of the queue and its run
    quote,        \* the quotes of photos
    clerk,        \* the handler of each create_quote
    used,         \* subscriptions.quotes_used_this_period
    followUp,     \* the customer's follow-up: none, queued, or reported as sent
    raced,        \* history: what overlapped: two sessions that count a quote
                  \* ("counts"), or one and a clerk who has tested ("tests")
    approved      \* history: quotes in force that the customer accepted

meterVars == <<clerk, used, raced>>
vars == <<via, channel, conv, hook, task, quote, meterVars, followUp, approved>>

-----------------------------------------------------------------------------

\* The stages the code assigns.
ConversationStage ==
    {"greeting", "trade_select", "photo_received", "quote_sent", "booked"}

Conversation == [exists : BOOLEAN, trade : BOOLEAN, stage : ConversationStage,
                 quote : Tasks \cup {None}]

NoConversation ==
    [exists |-> FALSE, trade |-> FALSE, stage |-> "greeting", quote |-> None]

Greeted == [NoConversation EXCEPT !.exists = TRUE]

\* customer is org_customer_id IS NOT NULL; status "none", that no row is there.
Quote == [status : {"none", "sent", "accepted"}, customer : BOOLEAN]

NoQuote == [status |-> "none", customer |-> FALSE]

\* The row _engine_quote_for_analysis adds names no customer.
PhotoQuote == [status |-> "sent", customer |-> FALSE]

NoHook  == [pc |-> "idle", kind |-> None, saw |-> NoConversation]
NoTask  == [pc |-> "unused", msg |-> None, retries |-> 0, saw |-> 0]
NoClerk == [pc |-> "idle", saw |-> 0]

\* What a message may hold.
Kinds == [sms |-> {"trade", "photos", "accept"}, email |-> {"trade", "photos", "both"}]

\* A handler, or a run, that has ended keeps nothing it loaded.
ClosedHook == [NoHook EXCEPT !.pc = "closed"]

RunPCs == {"metering", "priced", "attached", "staged"}
EndPCs == {"ended", "retried"}

TypeOK ==
    /\ via \in DOMAIN Kinds
    /\ channel \in {"none", "active", "inactive"}
    /\ conv \in Conversation
    /\ hook \in [Messages ->
                   [pc : {"idle", "looked", "open", "traded", "stored", "ready",
                          "answered", "closed"},
                    kind : Kinds.sms \cup Kinds.email \cup {None},
                    saw : Conversation]]
    /\ task \in [Tasks -> [pc : {"unused", "queued"} \cup RunPCs \cup EndPCs,
                           msg : Messages \cup {None},
                           retries : 0..MaxRetries, saw : Nat]]
    /\ quote \in [Tasks -> Quote]
    /\ clerk \in [Clerks -> [pc : {"idle", "open", "metering", "closed"}, saw : Nat]]
    /\ used \in Nat
    /\ followUp \in {"none", "queued", "reported"}
    /\ raced \subseteq {"counts", "tests"}
    /\ approved \subseteq Tasks

\* A stranger writes for the first time, or a customer who has chosen a trade.
Init ==
    /\ via \in DOMAIN Kinds
    /\ channel \in {"none", "active"}
    /\ conv \in {NoConversation,
                 [Greeted EXCEPT !.trade = TRUE, !.stage = "trade_select"]}
    /\ channel = "none" => conv = NoConversation
    /\ hook = [m \in Messages |-> NoHook]
    /\ task = [t \in Tasks |-> NoTask]
    /\ quote = [t \in Tasks |-> NoQuote]
    /\ clerk = [c \in Clerks |-> NoClerk]
    /\ used = 0
    /\ followUp = "none"
    /\ raced = {}
    /\ approved = {}

-----------------------------------------------------------------------------
(* The organization's inbound number or address.                           *)

\* The bound: what becomes of the row when every message was received makes no
\* difference.
Expecting == \E m \in Messages : hook[m].pc = "idle"

\* register_channel: a value that is on record, active or not, is refused.
RegisterChannel ==
    /\ Expecting
    /\ channel = "none"
    /\ channel' = "active"
    /\ UNCHANGED <<via, conv, hook, task, quote, meterVars, followUp, approved>>

DeactivateChannel ==
    /\ Expecting
    /\ channel = "active"
    /\ channel' = "inactive"
    /\ UNCHANGED <<via, conv, hook, task, quote, meterVars, followUp, approved>>

-----------------------------------------------------------------------------
(* webhook_sms and webhook_email.                                          *)

HookGoes(m, pc) == hook' = [hook EXCEPT ![m].pc = pc]

HookEnds(m) == hook' = [hook EXCEPT ![m] = ClosedHook]

\* resolve_sms_tenant (and its twin in webhook_email), and the first look of
\* get_or_create.
Receive(m, kind) ==
    /\ hook[m].pc = "idle"
    /\ kind \in Kinds[via]
    /\ hook' = [hook EXCEPT
                  ![m] = IF channel # "active" THEN ClosedHook
                         ELSE [pc   |-> IF conv.exists THEN "open" ELSE "looked",
                               kind |-> kind,
                               saw  |-> conv]]
    /\ UNCHANGED <<via, channel, conv, task, quote, meterVars, followUp, approved>>

\* get_or_create inserts the row; its key refuses a second one.
CreateConversation(m) ==
    /\ hook[m].pc = "looked"
    /\ IF conv.exists
       THEN HookEnds(m) /\ UNCHANGED conv
       ELSE /\ conv' = Greeted
            /\ hook' = [hook EXCEPT ![m].pc = "open", ![m].saw = Greeted]
    /\ UNCHANGED <<via, channel, task, quote, meterVars, followUp, approved>>

\* By SMS the trade is chosen once, while the greeting is all that was said.
ChoosesTrade(m) ==
    \/ via = "sms" /\ hook[m].kind = "trade" /\ hook[m].saw.stage = "greeting"
    \/ via = "email" /\ hook[m].kind \in {"trade", "both"} /\ ~hook[m].saw.trade

\* Photos count when the conversation loaded at the start had a trade.
BringsPhotos(m) == hook[m].kind \in {"photos", "both"} /\ hook[m].saw.trade

SetTrade(m) ==
    /\ hook[m].pc = "open"
    /\ ChoosesTrade(m)
    /\ conv' = [conv EXCEPT !.trade = TRUE]
    /\ HookGoes(m, "traded")
    /\ UNCHANGED <<via, channel, task, quote, meterVars, followUp, approved>>

StageTrade(m) ==
    /\ hook[m].pc = "traded"
    /\ conv' = [conv EXCEPT !.stage = "trade_select"]
    /\ HookEnds(m)
    /\ UNCHANGED <<via, channel, task, quote, meterVars, followUp, approved>>

AddPhotos(m) ==
    /\ hook[m].pc = "open"
    /\ BringsPhotos(m)
    /\ conv' = conv
    /\ HookGoes(m, IF via = "sms" THEN "stored" ELSE "ready")
    /\ UNCHANGED <<via, channel, task, quote, meterVars, followUp, approved>>

StagePhotos(m) ==
    /\ hook[m].pc = "stored"
    /\ conv' = [conv EXCEPT !.stage = "photo_received"]
    /\ HookGoes(m, "ready")
    /\ UNCHANGED <<via, channel, task, quote, meterVars, followUp, approved>>

\* The first n messages not yet used carry the photos of m.
Unused == {t \in Tasks : task[t].pc = "unused"}

\* The bound: there are Tasks messages in all.
Room(n) == Cardinality(Unused) >= n

FirstUnused(n) == {t \in Unused : Cardinality({u \in Unused : u <= t}) <= n}

Published(m, retries) == [pc |-> "queued", msg |-> m, retries |-> retries, saw |-> 0]

Delay(m) ==
    /\ hook[m].pc = "ready"
    /\ Room(1)
    /\ task' = [t \in Tasks |-> IF t \in FirstUnused(1) THEN Published(m, 0) ELSE task[t]]
    /\ HookEnds(m)
    /\ UNCHANGED <<via, channel, conv, quote, meterVars, followUp, approved>>

\* The reply "accept": _accept_quote_for_customer for a quote in force, one
\* that is sent and whose expires_at has not passed.  Its job copies the
\* quote's customer, which the table jobs requires: without one the insert
\* fails, and the handler with it.
Accept(m) ==
    LET q == hook[m].saw.quote IN
    /\ hook[m].pc = "open"
    /\ hook[m].kind = "accept"
    /\ q # None
    /\ \E expired \in BOOLEAN :
          IF quote[q].status # "sent" \/ expired
          THEN HookGoes(m, "answered") /\ UNCHANGED <<quote, approved>>
          ELSE /\ approved' = approved \cup {q}
               /\ IF quote[q].customer
                  THEN /\ quote' = [quote EXCEPT ![q].status = "accepted"]
                       /\ HookGoes(m, "answered")
                  ELSE HookEnds(m) /\ UNCHANGED quote
    /\ UNCHANGED <<via, channel, conv, task, meterVars, followUp>>

\* "You're booked", whether or not anything was accepted.
StageBooked(m) ==
    /\ hook[m].pc = "answered"
    /\ conv' = [conv EXCEPT !.stage = "booked"]
    /\ HookEnds(m)
    /\ UNCHANGED <<via, channel, task, quote, meterVars, followUp, approved>>

\* Any other message is only answered.
Answer(m) ==
    /\ hook[m].pc = "open"
    /\ ~ChoosesTrade(m) /\ ~BringsPhotos(m)
    /\ hook[m].kind = "accept" => hook[m].saw.quote = None
    /\ HookEnds(m)
    /\ UNCHANGED <<via, channel, conv, task, quote, meterVars, followUp, approved>>

\* The handler dies between two of its commits.
HookDies(m) ==
    /\ hook[m].pc \in {"traded", "stored", "ready", "answered"}
    /\ HookEnds(m)
    /\ UNCHANGED <<via, channel, conv, task, quote, meterVars, followUp, approved>>

HookStep(m) ==
    \/ \E kind \in Kinds.sms \cup Kinds.email : Receive(m, kind)
    \/ CreateConversation(m)
    \/ SetTrade(m) \/ StageTrade(m)
    \/ AddPhotos(m) \/ StagePhotos(m) \/ Delay(m)
    \/ Accept(m) \/ StageBooked(m)
    \/ Answer(m)
    \/ HookDies(m)

-----------------------------------------------------------------------------
(* Counting a quote: record_quote_usage loads the count and adds one when  *)
(* its session commits.  check_quote_allowance, which only create_quote    *)
(* asks, loads it too, and keeps nothing of it.                            *)

\* The sessions that have the count loaded.
Metering == {t \in Tasks : task[t].pc = "metering"} \cup
            {c \in Clerks : clerk[c].pc = "metering"}

\* The clerks who have tested the count and may yet commit a quote.
Asking == {c \in Clerks : clerk[c].pc \in {"open", "metering"}}

\* A session loads the count while the clerks of others are asking.
Loads(others) ==
    raced' = raced \cup (IF Metering # {} THEN {"counts"} ELSE {})
                   \cup (IF others # {} THEN {"tests"} ELSE {})

\* Mutant: the limit itself is allowed.
BeginCreateQuoteAtLimit(c) ==
    /\ clerk[c].pc = "idle"
    /\ used <= Limit
    /\ clerk' = [clerk EXCEPT ![c].pc = "open"]
    /\ raced' = raced \cup (IF Metering # {} THEN {"tests"} ELSE {})
    /\ UNCHANGED <<via, channel, conv, hook, task, quote, used, followUp, approved>>

BeginCreateQuote(c) ==
    /\ clerk[c].pc = "idle"
    /\ ~(used >= Limit)
    /\ clerk' = [clerk EXCEPT ![c].pc = "open"]
    /\ raced' = raced \cup (IF Metering # {} THEN {"tests"} ELSE {})
    /\ UNCHANGED <<via, channel, conv, hook, task, quote, used, followUp, approved>>

\* The quote is priced and added, and record_quote_usage selects the row anew.
MeterCreateQuote(c) ==
    /\ clerk[c].pc = "open"
    /\ clerk' = [clerk EXCEPT ![c] = [pc |-> "metering", saw |-> used]]
    /\ Loads(Asking \ {c})
    /\ UNCHANGED <<via, channel, conv, hook, task, quote, used, followUp, approved>>

\* The commit, or an error before it.
EndCreateQuote(c) ==
    /\ \/ /\ clerk[c].pc = "metering"
          /\ clerk' = [clerk EXCEPT ![c] = [pc |-> "closed", saw |-> 0]]
          /\ used' = clerk[c].saw + 1
       \/ /\ clerk[c].pc \in {"open", "metering"}
          /\ clerk' = [clerk EXCEPT ![c] = NoClerk]
          /\ UNCHANGED used
    /\ UNCHANGED <<via, channel, conv, hook, task, quote, raced, followUp, approved>>

ClerkStep(c) == BeginCreateQuote(c) \/ MeterCreateQuote(c) \/ EndCreateQuote(c)

-----------------------------------------------------------------------------
(* process_photos_and_quote.                                               *)

RunGoes(t, pc) == task' = [task EXCEPT ![t].pc = pc]

\* A run ends and retries no more.
RunEnds(t) == task' = [task EXCEPT ![t] = [Published(@.msg, 0) EXCEPT !.pc = "ended"]]

\* Mutant: the copy does not count its attempt.
RepublishUncounted(t, n) ==
    task' = [u \in Tasks |->
               IF u = t /\ n = 1 THEN [task[t] EXCEPT !.pc = "queued"]
               ELSE IF u = t THEN [Published(task[t].msg, 0) EXCEPT !.pc = "retried"]
               ELSE IF u \in FirstUnused(n) /\ n = 2
                    THEN Published(task[t].msg, task[t].retries + 1)
               ELSE task[u]]

\* Run t ends; n copies of its message are published.
Republish(t, n) ==
    task' = [u \in Tasks |->
               IF u = t THEN [Published(task[t].msg, 0) EXCEPT !.pc = "retried"]
               ELSE IF u \in FirstUnused(n)
                    THEN Published(task[t].msg, task[t].retries + 1)
               ELSE task[u]]

\* Nothing could be downloaded: one retry is asked for in the body and, when
\* its exception is caught, another.  The last attempt may publish neither.
NoPhotos(t) ==
    /\ task[t].pc = "queued"
    /\ IF task[t].retries < MaxRetries THEN Room(2) /\ Republish(t, 2)
       ELSE RunEnds(t)
    /\ UNCHANGED <<via, channel, conv, hook, quote, meterVars, followUp, approved>>

\* Mutant: one attempt too many.
BreaksOnceMore(t) ==
    /\ task[t].pc \in {"queued"} \cup RunPCs
    /\ IF task[t].retries <= MaxRetries THEN Room(1) /\ Republish(t, 1)
       ELSE RunEnds(t)
    /\ UNCHANGED <<via, channel, conv, hook, quote, meterVars, followUp, approved>>

\* Anything else raises: the analysis, the pricing, a commit, an e-mail.
Breaks(t) ==
    /\ task[t].pc \in {"queued"} \cup RunPCs
    /\ IF task[t].retries < MaxRetries THEN Room(1) /\ Republish(t, 1)
       ELSE RunEnds(t)
    /\ UNCHANGED <<via, channel, conv, hook, quote, meterVars, followUp, approved>>

\* The worker is killed (a deploy, the 300 seconds of task_time_limit).
Dies(t) ==
    /\ task[t].pc \in {"queued"} \cup RunPCs
    /\ RunEnds(t)
    /\ UNCHANGED <<via, channel, conv, hook, quote, meterVars, followUp, approved>>

\* The photos are read, in a free slot of the workers, and
\* _engine_quote_for_analysis loads the subscription ...
Meter(t) ==
    /\ task[t].pc = "queued"
    /\ Cardinality({u \in Tasks : task[u].pc \in RunPCs}) < Slots
    /\ task' = [task EXCEPT ![t].pc = "metering", ![t].saw = used]
    /\ Loads(Asking)
    /\ UNCHANGED <<via, channel, conv, hook, quote, clerk, used, followUp, approved>>

\* Mutant: the quote is stored and not counted.
PriceUncounted(t) ==
    /\ task[t].pc = "metering"
    /\ quote' = [quote EXCEPT ![t] = PhotoQuote]
    /\ task' = [task EXCEPT ![t].pc = "priced", ![t].saw = 0]
    /\ UNCHANGED <<via, channel, conv, hook, meterVars, followUp, approved>>

\* ... and commits the quote with the count.
Price(t) ==
    /\ task[t].pc = "metering"
    /\ quote' = [quote EXCEPT ![t] = PhotoQuote]
    /\ used' = task[t].saw + 1
    /\ task' = [task EXCEPT ![t].pc = "priced", ![t].saw = 0]
    /\ UNCHANGED <<via, channel, conv, hook, clerk, raced, followUp, approved>>

Attach(t) ==
    /\ task[t].pc = "priced"
    /\ IF conv.exists THEN conv' = [conv EXCEPT !.quote = t] ELSE UNCHANGED conv
    /\ RunGoes(t, "attached")
    /\ UNCHANGED <<via, channel, hook, quote, meterVars, followUp, approved>>

\* Mutant: the stage is set by a run that has priced nothing yet.
StageQuoteEarly(t) ==
    /\ task[t].pc \in {"metering", "attached"}
    /\ IF conv.exists THEN conv' = [conv EXCEPT !.stage = "quote_sent"]
       ELSE UNCHANGED conv
    /\ RunGoes(t, IF task[t].pc = "attached" THEN "staged" ELSE "metering")
    /\ UNCHANGED <<via, channel, hook, quote, meterVars, followUp, approved>>

StageQuote(t) ==
    /\ task[t].pc = "attached"
    /\ IF conv.exists THEN conv' = [conv EXCEPT !.stage = "quote_sent"]
       ELSE UNCHANGED conv
    /\ RunGoes(t, "staged")
    /\ UNCHANGED <<via, channel, hook, quote, meterVars, followUp, approved>>

\* send_quote: a refused SMS, or a missing mail key, is no error of the run.
Notify(t) ==
    /\ task[t].pc = "staged"
    /\ RunEnds(t)
    /\ UNCHANGED <<via, channel, conv, hook, quote, meterVars, followUp, approved>>

GoesOn(t) == Meter(t) \/ Price(t) \/ Attach(t) \/ StageQuote(t) \/ Notify(t)

-----------------------------------------------------------------------------
(* Follow-ups.                                                             *)

\* Mutant: the stage that no code assigns is looked for.
DailyFollowUpsByStage ==
    /\ conv.stage = "follow_up"
    /\ conv.quote # None
    /\ followUp' = "queued"
    /\ UNCHANGED <<via, channel, conv, hook, task, quote, meterVars, approved>>

\* daily_follow_ups, every hour, for a conversation whose last write is two
\* days old: time is not modelled, and they may have passed at any moment.
DailyFollowUps ==
    /\ conv.stage = "quote_sent"
    /\ conv.quote # None
    /\ followUp = "none"
    /\ followUp' = "queued"
    /\ UNCHANGED <<via, channel, conv, hook, task, quote, meterVars, approved>>

\* send_follow_up: skipped for who has booked meanwhile, and otherwise reported
\* as sent.  It builds the coroutine that would send, and drops it.
SendFollowUp ==
    /\ followUp = "queued"
    /\ followUp' = IF conv.stage = "booked" THEN "none" ELSE "reported"
    /\ UNCHANGED <<via, channel, conv, hook, task, quote, meterVars, approved>>

-----------------------------------------------------------------------------

Next ==
    \/ RegisterChannel \/ DeactivateChannel
    \/ \E m \in Messages : HookStep(m)
    \/ \E c \in Clerks : ClerkStep(c)
    \/ \E t \in Tasks : GoesOn(t) \/ NoPhotos(t) \/ Breaks(t) \/ Dies(t)
    \/ DailyFollowUps \/ SendFollowUp

\* Workers take what is queued and go on with it, the scheduler keeps its
\* hours, and time passes.
Fairness ==
    /\ \A t \in Tasks : WF_vars(GoesOn(t))
    /\ WF_vars(DailyFollowUps) /\ WF_vars(SendFollowUp)

Spec == Init /\ [][Next]_vars /\ Fairness

-----------------------------------------------------------------------------
(* Properties.                                                             *)

RunsOf(m) == {t \in Tasks : task[t].msg = m}

QuotesOf(m) == {t \in RunsOf(m) : quote[t].status # "none"}

Stored == {t \in Tasks : quote[t].status # "none"}

\* A message is quoted more than once only after runs of it failed, at most
\* once more for each; whatever fails, the copies that retries publish make no
\* more than 2^MaxRetries quotes of it, all sent and all counted.
QuotesPerMessageAreBounded ==
    \A m \in Messages :
        /\ Cardinality(QuotesOf(m))
             <= 1 + Cardinality({t \in RunsOf(m) : task[t].pc = "retried"})
        /\ Cardinality(QuotesOf(m)) <= 2 ^ MaxRetries

\* The period's count is the number of quotes stored, unless two sessions had
\* loaded it at once; then it may fall short and never exceeds it.
UsageCountsQuotes ==
    LET all == Cardinality(Stored) +
                 Cardinality({c \in Clerks : clerk[c].pc = "closed"})
    IN  IF "counts" \in raced THEN used <= all ELSE used = all

\* No employee's quote is stored once the period's count, photo quotes and
\* all, has come to the plan's limit, though the limit was tested when the
\* handler began; unless another session counted between that test and the
\* commit.
EmployeesKeepTheLimit ==
    [][\A c \in Clerks :
         clerk[c].pc = "metering" /\ clerk'[c].pc = "closed" =>
            "tests" \in raced \/ used < Limit
      ]_vars

\* A conversation in the stage quote_sent, or booked, names a stored quote,
\* in spite of the other webhooks and runs that write it meanwhile.
StagesPromiseAQuote ==
    conv.stage \in {"quote_sent", "booked"} => conv.quote \in Stored

\* Whatever fails, the queue drains: every run is quoted, given up or lost,
\* and the copies its retries publish come to an end.
PhotosSettle == []<>(\A t \in Tasks : task[t].pc \in EndPCs \cup {"unused"})

\* A customer who was sent a quote and stays silent is reminded, if reporting
\* the reminder as sent is enough.
SilentCustomersAreReminded ==
    (conv.stage = "quote_sent") ~> (followUp = "reported" \/ conv.stage # "quote_sent")

\* "'ACCEPT' reply on the mapped number actually accepts the quote"
\* (tests/test_review_fixes.py:219, of the quote the photo flow attaches).
RepliesAccept == \A q \in approved : quote[q].status = "accepted"

=============================================================================
