----------------------------- MODULE Assistant -----------------------------
(***************************************************************************)
(* POST /assistant/command (api/routes/assistant_routes.py): one command   *)
(* finds or creates the customer it names, creates a quote, and on demand  *)
(* schedules a job and sends the quote.  The handlers it calls for this    *)
(* commit one by one in its session, so a command that fails half way has  *)
(* done the first half, and a user who sends it again repeats that.        *)
(*                                                                         *)
(* Who sees a customer or a quote of another session is whoever loads it   *)
(* after that session's commit.                                            *)
(***************************************************************************)
EXTENDS Handlers

CONSTANTS
    Wishes,       \* what users want done: a command is sent again until it succeeds
    Names,        \* customers' names as users write them
    Lowered,      \* a name in lower case
    Plans         \* [dated, send, priceable]: what is understood of a command

ASSUME AssistantConstants ==
    /\ Lowered \in [Names -> Names]
    /\ Plans \subseteq [dated : BOOLEAN, send : BOOLEAN, priceable : BOOLEAN]

VARIABLES
    customer,     \* table org_customers, by the request that made the row
    quote,        \* table quotes, by the request that made the row
    job,          \* table jobs: the requests that made a row
    lost          \* history: requests that failed after a commit of their own

deskTables == <<customer, quote, job>>
assistantVars == <<handlerVars, deskTables, lost>>

-----------------------------------------------------------------------------

NoQuote == [wish |-> None, customer |-> None, status |-> "none"]

AssistantTypeOK ==
    /\ HandlersTypeOK
    /\ customer \in [Requests -> Names \cup {None}]
    /\ quote \in [Requests -> [wish : Wishes \cup {None},
                               customer : Requests \cup {None},
                               status : {"none", "draft", "sent"}]]
    /\ job \subseteq Requests
    /\ lost \subseteq Requests

AssistantInit ==
    /\ HandlersInit
    /\ customer = [r \in Requests |-> None]
    /\ quote = [r \in Requests |-> NoQuote]
    /\ job = {}
    /\ lost = {}

\* Mutant: names are compared as they are written.
NamesakesAsWritten(name) == {c \in Requests : customer[c] = name}

\* The rows whose name is this one up to case.
Namesakes(name) ==
    {c \in Requests : customer[c] # None /\ Lowered[customer[c]] = Lowered[name]}

\* A user sends a command for a wish again only after an error.
Waiting(w) ==
    \A s \in Requests : txn[s].pc \in {"open", "closed"} => txn[s].key.wish # w

\* The customer is found, or added to the session and not yet committed.
BeginCommand(r, w, name, plan) ==
    /\ Waiting(w)
    /\ \E c \in IF Namesakes(name) = {} THEN {r} ELSE Namesakes(name) :
          Load(r, "command", [wish |-> w, name |-> name, plan |-> plan],
               [customer |-> c, step |-> "found"])
    /\ UNCHANGED <<deskTables, lost>>

At(r, step) == InFlight(r, "command") /\ txn[r].saw.step = step

GoOn(r, step) ==
    /\ txn' = [txn EXCEPT ![r].saw.step = step]
    /\ UNCHANGED overlap

\* The customer table after a commit of r.
WithCustomer(r) ==
    IF txn[r].saw.customer = r THEN [customer EXCEPT ![r] = txn[r].key.name]
    ELSE customer

\* Hours below zero: the answer says so, and the new customer is kept.
FailToPrice(r) ==
    /\ At(r, "found") /\ ~txn[r].key.plan.priceable
    /\ customer' = WithCustomer(r)
    /\ Close(r)
    /\ UNCHANGED <<quote, job, lost>>

\* Mutant: the customer is committed before the quote is refused.
RefuseQuoteLate(r) ==
    /\ At(r, "found") /\ txn[r].key.plan.priceable
    /\ customer' = WithCustomer(r)
    /\ Rollback(r)
    /\ UNCHANGED <<quote, job, lost>>

\* create_quote finds the quota used up, or the row of the customer gone.
RefuseQuote(r) ==
    /\ At(r, "found") /\ txn[r].key.plan.priceable
    /\ Rollback(r)
    /\ UNCHANGED <<deskTables, lost>>

\* Mutant: the quote refers to the customer by name.
CommitQuoteByName(r) ==
    /\ At(r, "found") /\ txn[r].key.plan.priceable
    /\ customer' = WithCustomer(r)
    /\ quote' = [quote EXCEPT ![r] = [wish     |-> txn[r].key.wish,
                                      customer |-> txn[r].key.name,
                                      status   |-> "draft"]]
    /\ GoOn(r, "quoted")
    /\ UNCHANGED <<job, lost>>

CommitQuote(r) ==
    /\ At(r, "found") /\ txn[r].key.plan.priceable
    /\ WithCustomer(r)[txn[r].saw.customer] # None
    /\ customer' = WithCustomer(r)
    /\ quote' = [quote EXCEPT ![r] = [wish     |-> txn[r].key.wish,
                                      customer |-> txn[r].saw.customer,
                                      status   |-> "draft"]]
    /\ GoOn(r, "quoted")
    /\ UNCHANGED <<job, lost>>

CommitJob(r) ==
    /\ At(r, "quoted") /\ txn[r].key.plan.dated
    /\ job' = job \cup {r}
    /\ GoOn(r, "scheduled")
    /\ UNCHANGED <<customer, quote, lost>>

Scheduled(r) ==
    \/ At(r, "scheduled")
    \/ At(r, "quoted") /\ ~txn[r].key.plan.dated

CommitSend(r) ==
    /\ Scheduled(r) /\ txn[r].key.plan.send
    /\ quote' = [quote EXCEPT ![r].status = "sent"]
    /\ GoOn(r, "sent")
    /\ UNCHANGED <<customer, job, lost>>

FinishCommand(r) ==
    /\ \/ At(r, "sent")
       \/ Scheduled(r) /\ ~txn[r].key.plan.send
    /\ Close(r)
    /\ UNCHANGED <<deskTables, lost>>

\* A crash, or an error in one of the handlers: what was committed stays.
Fail(r) ==
    /\ InFlight(r, "command")
    /\ lost' = IF At(r, "found") THEN lost ELSE lost \cup {r}
    /\ Rollback(r)
    /\ UNCHANGED deskTables

\* An employee deletes a customer; the foreign key refuses while a quote (and
\* with it a job) names the row.
DeleteCustomer(c) ==
    /\ customer[c] # None
    /\ \A r \in Requests : quote[r].customer # c
    /\ customer' = [customer EXCEPT ![c] = None]
    /\ UNCHANGED <<handlerVars, quote, job, lost>>

AssistantNext ==
    \E r \in Requests :
        \/ \E w \in Wishes, name \in Names, plan \in Plans :
              BeginCommand(r, w, name, plan)
        \/ FailToPrice(r)
        \/ RefuseQuote(r)
        \/ CommitQuote(r)
        \/ CommitJob(r)
        \/ CommitSend(r)
        \/ FinishCommand(r)
        \/ Fail(r)
        \/ DeleteCustomer(r)

-----------------------------------------------------------------------------

\* Two rows for one customer, up to case, only where the two commands that
\* made them overlapped: each looked before the other had committed, and the
\* table has no constraint on names (run_command, find or create).
NamesakesNeedOverlap ==
    \A c, d \in Requests :
        (/\ c # d /\ customer[c] # None /\ customer[d] # None
         /\ Lowered[customer[c]] = Lowered[customer[d]])
        => d \in overlap[c]

\* A wish has a second quote only where a command failed after it had committed
\* the first; one that failed before has left nothing at all, so that sending
\* it again is safe (run_command, the commits of create_quote and create_job).
RepeatsNeedInterruption ==
    /\ \A r, s \in Requests :
          (r # s /\ quote[r].wish # None /\ quote[r].wish = quote[s].wish)
          => r \in lost \/ s \in lost
    /\ \A r \in Requests :
          (txn[r].pc = "error" /\ r \notin lost)
          => customer[r] = None /\ quote[r] = NoQuote /\ r \notin job

=============================================================================
