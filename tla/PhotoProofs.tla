------------------------------ MODULE PhotoProofs ------------------------------
(***************************************************************************)
(* Proofs about PhotoQuotes: the types, the count of the period's quotes,  *)
(* the stages of the conversation, and how many quotes the retries of one  *)
(* message can make.                                                       *)
(***************************************************************************)
EXTENDS PhotoQuotes, FiniteSetTheorems, TLAPS

Closed == {c \in Clerks : clerk[c].pc = "closed"}

\* The runs, and the clerks, that have the count loaded.
RunsCounting == {t \in Tasks : task[t].pc = "metering"}

ClerksCounting == {c \in Clerks : clerk[c].pc = "metering"}

All == Cardinality(Stored) + Cardinality(Closed)

\* A run has stored its quote when it is past pricing, and not before.
QuotesArePriced ==
    \A t \in Tasks :
        /\ task[t].pc \in {"unused", "queued", "metering"} => t \notin Stored
        /\ task[t].pc \in {"priced", "attached", "staged"} => t \in Stored

\* No session counts from more than there is; while no two of them met, the
\* one that counts has seen the count as it is; and while none met a clerk who
\* has tested, what the clerk found is still so, and no one else is counting.
CountInv ==
    /\ IsFiniteSet(Closed)
    /\ used <= All
    /\ \A t \in RunsCounting : task[t].saw <= All
    /\ \A c \in ClerksCounting : clerk[c].saw <= All
    /\ "counts" \notin raced =>
          /\ used = All
          /\ \A t \in RunsCounting :
                task[t].saw = used /\ RunsCounting = {t} /\ ClerksCounting = {}
          /\ \A c \in ClerksCounting :
                clerk[c].saw = used /\ ClerksCounting = {c} /\ RunsCounting = {}
    /\ "tests" \notin raced =>
          \A c \in Asking :
             used < Limit /\ RunsCounting = {} /\ ClerksCounting \subseteq {c}

\* The conversation's quote is stored and never taken back, and no run or
\* handler is at a stage that promises one before there is one.
StageInv ==
    /\ ~conv.exists => conv = NoConversation
    /\ conv.quote # None => conv.quote \in Stored
    /\ conv.stage \in {"quote_sent", "booked"} => conv.quote # None
    /\ \A m \in Messages :
          /\ hook[m].pc \notin {"idle", "looked", "closed"} => conv.exists
          /\ hook[m].saw.quote # None => conv.quote # None
          /\ hook[m].pc = "answered" => conv.quote # None
    /\ \A t \in Tasks :
          /\ task[t].pc # "unused" => conv.exists
          /\ task[t].pc = "attached" => conv.quote # None

\* The runs of m that quoted, or still may.
May(m) ==
    {t \in Tasks : /\ task[t].msg = m
                   /\ task[t].pc # "unused"
                   /\ task[t].pc = "retried" => t \in Stored}

Retried(m) == {t \in RunsOf(m) : task[t].pc = "retried"}

\* A message enters the queue once, when its handler ends.
DelayedOnce ==
    \A m \in Messages, t \in Tasks :
        hook[m].pc # "closed" => ~(task[t].pc # "unused" /\ task[t].msg = m)

ShareInv ==
    /\ DelayedOnce
    /\ \A m \in Messages : Cardinality(May(m)) <= 1 + Cardinality(Retried(m))

\* The attempts a run may still lead to are the branches below it in a binary
\* tree of depth MaxRetries; key names the branch, by the levels at which it
\* turned.
Active == {"queued"} \cup RunPCs

Below(K, r) == {K \cup X : X \in SUBSET ((r + 1) .. MaxRetries)}

Branches(key, t) ==
    IF task[t].pc \in Active THEN Below(key[t], task[t].retries)
    ELSE IF t \in Stored THEN {key[t]} ELSE {}

Keys == [Tasks -> SUBSET (1 .. MaxRetries)]

Keyed(key) ==
    /\ \A t \in Tasks : task[t].pc \in Active => key[t] \subseteq 1 .. task[t].retries
    /\ \A t, u \in Tasks :
          t # u /\ task[t].msg = task[u].msg => Branches(key, t) \cap Branches(key, u) = {}

KeyInv == \E key \in Keys : Keyed(key)

PhotoInv ==
    /\ TypeOK
    /\ QuotesArePriced
    /\ CountInv
    /\ StageInv
    /\ ShareInv
    /\ KeyInv

-----------------------------------------------------------------------------
(* Types.                                                                  *)

LEMMA ConversationChanges ==
  ASSUME NEW v \in Conversation
  PROVE  /\ v.exists \in BOOLEAN /\ v.trade \in BOOLEAN
         /\ v.stage \in ConversationStage
         /\ v.quote \in Tasks \cup {None}
         /\ \A s \in ConversationStage : [v EXCEPT !.stage = s] \in Conversation
         /\ \A t \in Tasks : [v EXCEPT !.quote = t] \in Conversation
         /\ [v EXCEPT !.trade = TRUE] \in Conversation
BY DEF Conversation

LEMMA NewConversations ==
  /\ NoConversation \in Conversation
  /\ Greeted \in Conversation
  /\ NoConversation.exists = FALSE /\ NoConversation.quote = None
  /\ NoConversation.stage = "greeting"
  /\ Greeted.exists = TRUE /\ Greeted.quote = None
  /\ Greeted.stage = "greeting"
BY DEF NoConversation, Greeted, Conversation, ConversationStage

HookPCs == {"idle", "looked", "open", "traded", "stored", "ready", "answered", "closed"}

Hooks == [pc : HookPCs, kind : Kinds.sms \cup Kinds.email \cup {None}, saw : Conversation]

TaskRows == [pc : {"unused", "queued"} \cup RunPCs \cup EndPCs, msg : Messages \cup {None},
             retries : 0 .. MaxRetries, saw : Nat]

\* What a handler has in hand, changed or thrown away, is of the type it was.
LEMMA HookChanges ==
  ASSUME NEW h \in [Messages -> Hooks], NEW m \in Messages
  PROVE  /\ h[m] \in Hooks
         /\ \A pc \in HookPCs : [h EXCEPT ![m].pc = pc] \in [Messages -> Hooks]
         /\ [h EXCEPT ![m] = ClosedHook] \in [Messages -> Hooks]
         /\ \A g \in Hooks : [h EXCEPT ![m] = g] \in [Messages -> Hooks]
<1>1. h[m] \in Hooks /\ ClosedHook \in Hooks
  BY NewConversations DEF Hooks, ClosedHook, NoHook, HookPCs
<1>2. \A pc \in HookPCs : [h[m] EXCEPT !.pc = pc] \in Hooks
  BY <1>1 DEF Hooks
<1>3. \A g \in Hooks : [h EXCEPT ![m] = g] \in [Messages -> Hooks]
  OBVIOUS
<1>4. \A pc \in HookPCs : [h EXCEPT ![m].pc = pc] \in [Messages -> Hooks]
  BY <1>2
<1>5. QED
  BY <1>1, <1>3, <1>4

\* The parts of the type invariant, as the proofs use them.
LEMMA Types ==
  TypeOK <=> /\ via \in DOMAIN Kinds
             /\ channel \in {"none", "active", "inactive"}
             /\ conv \in Conversation
             /\ hook \in [Messages -> Hooks]
             /\ task \in [Tasks -> TaskRows]
             /\ quote \in [Tasks -> Quote]
             /\ clerk \in [Clerks -> [pc : {"idle", "open", "metering", "closed"}, saw : Nat]]
             /\ used \in Nat
             /\ followUp \in {"none", "queued", "reported"}
             /\ raced \subseteq {"counts", "tests"}
             /\ approved \subseteq Tasks
BY DEF TypeOK, Hooks, HookPCs, TaskRows

LEMMA TypesNext ==
  TypeOK' <=> /\ via' \in DOMAIN Kinds
              /\ channel' \in {"none", "active", "inactive"}
              /\ conv' \in Conversation
              /\ hook' \in [Messages -> Hooks]
              /\ task' \in [Tasks -> TaskRows]
              /\ quote' \in [Tasks -> Quote]
              /\ clerk' \in [Clerks -> [pc : {"idle", "open", "metering", "closed"}, saw : Nat]]
              /\ used' \in Nat
              /\ followUp' \in {"none", "queued", "reported"}
              /\ raced' \subseteq {"counts", "tests"}
              /\ approved' \subseteq Tasks
BY DEF TypeOK, Hooks, HookPCs, TaskRows

LEMMA TypeStart ==
  ASSUME Init PROVE TypeOK
<1>1. conv \in Conversation
  <2>1. [Greeted EXCEPT !.trade = TRUE, !.stage = "trade_select"] \in Conversation
    BY NewConversations DEF Conversation, ConversationStage
  <2>2. QED
    BY <2>1, NewConversations DEF Init
<1>2. hook \in [Messages -> Hooks]
  BY NewConversations DEF Init, NoHook, Hooks, HookPCs
<1>3. task \in [Tasks -> TaskRows]
  BY PhotoConstants DEF Init, NoTask, TaskRows
<1>4. quote \in [Tasks -> Quote] /\ approved \subseteq Tasks
  BY DEF Init, NoQuote, Quote
<1>5. clerk \in [Clerks -> [pc : {"idle", "open", "metering", "closed"}, saw : Nat]]
  BY DEF Init, NoClerk
<1>6. used \in Nat /\ raced \subseteq {"counts", "tests"}
  BY DEF Init
<1>7. QED
  BY <1>1, <1>2, <1>3, <1>4, <1>5, <1>6, Types DEF Init

\* The rows the queue's operations write.
LEMMA TaskChanges ==
  ASSUME TypeOK, NEW t \in Tasks
  PROVE  /\ task[t] \in TaskRows
         /\ \A row \in TaskRows : [task EXCEPT ![t] = row] \in [Tasks -> TaskRows]
         /\ \A pc \in RunPCs : [task EXCEPT ![t].pc = pc] \in [Tasks -> TaskRows]
         /\ \A pc \in RunPCs, n \in Nat :
               [task EXCEPT ![t].pc = pc, ![t].saw = n] \in [Tasks -> TaskRows]
<1>1. task[t] \in TaskRows /\ task \in [Tasks -> TaskRows]
  BY Types
<1>2. \A row \in TaskRows : [task EXCEPT ![t] = row] \in [Tasks -> TaskRows]
  BY <1>1
<1>3. \A pc \in RunPCs : [task[t] EXCEPT !.pc = pc] \in TaskRows
  BY <1>1 DEF TaskRows
<1>4. \A pc \in RunPCs, n \in Nat : [task[t] EXCEPT !.pc = pc, !.saw = n] \in TaskRows
  BY <1>1 DEF TaskRows
<1>5. QED
  BY <1>1, <1>2, <1>3, <1>4

LEMMA QueueTypes ==
  ASSUME TypeOK
  PROVE  /\ \A m \in Messages, t \in Tasks :
               Published(m, 0) \in TaskRows
         /\ \A t \in Tasks : RunEnds(t) => task' \in [Tasks -> TaskRows]
         /\ \A t \in Tasks, n \in {1, 2} :
               Republish(t, n) /\ task[t].retries < MaxRetries
               => task' \in [Tasks -> TaskRows]
<1>1. \A m \in Messages \cup {None}, r \in 0 .. MaxRetries :
         Published(m, r) \in TaskRows
  BY DEF Published, TaskRows
<1>2. \A m \in Messages \cup {None}, pc \in EndPCs :
         [Published(m, 0) EXCEPT !.pc = pc] \in TaskRows
  BY PhotoConstants DEF Published, TaskRows
<1>3. \A t \in Tasks : /\ task[t].msg \in Messages \cup {None}
                       /\ task[t].retries \in 0 .. MaxRetries
  BY Types DEF TaskRows
<1>4. ASSUME NEW t \in Tasks, RunEnds(t)
      PROVE  task' \in [Tasks -> TaskRows]
  <2>1. task' = [task EXCEPT ![t] = [Published(task[t].msg, 0) EXCEPT !.pc = "ended"]]
    BY <1>4, Types DEF RunEnds
  <2>2. "ended" \in EndPCs
    BY DEF EndPCs
  <2>3. QED
    BY <2>1, <2>2, <1>2, <1>3, TaskChanges
<1>5. ASSUME NEW t \in Tasks, NEW n \in {1, 2}, Republish(t, n),
             task[t].retries < MaxRetries
      PROVE  task' \in [Tasks -> TaskRows]
  <2>1. task[t].retries + 1 \in 0 .. MaxRetries
    BY <1>3, <1>5, PhotoConstants
  <2>2. "retried" \in EndPCs
    BY DEF EndPCs
  <2> DEFINE old == [Published(task[t].msg, 0) EXCEPT !.pc = "retried"]
             new == Published(task[t].msg, task[t].retries + 1)
  <2>3. old \in TaskRows /\ new \in TaskRows
    BY <2>1, <2>2, <1>1, <1>2, <1>3
  <2>4. task' = [u \in Tasks |-> IF u = t THEN old
                                 ELSE IF u \in FirstUnused(n) THEN new ELSE task[u]]
    BY <1>5 DEF Republish
  <2> HIDE DEF old, new
  <2>5. QED
    BY <2>3, <2>4, Types
<1>6. 0 \in 0 .. MaxRetries
  BY PhotoConstants
<1>7. \A m \in Messages, t \in Tasks : Published(m, 0) \in TaskRows
  BY <1>1, <1>6
<1>8. QED
  BY <1>4, <1>5, <1>7

LEMMA HookTypes ==
  ASSUME TypeOK, NEW m \in Messages, HookStep(m)
  PROVE  TypeOK'
<1> DEFINE h == hook
           v == conv
<1>1. /\ h \in [Messages -> Hooks] /\ v \in Conversation
      /\ h[m] \in Hooks
      /\ \A pc \in HookPCs : [h EXCEPT ![m].pc = pc] \in [Messages -> Hooks]
      /\ [h EXCEPT ![m] = ClosedHook] \in [Messages -> Hooks]
      /\ \A g \in Hooks : [h EXCEPT ![m] = g] \in [Messages -> Hooks]
  BY Types, TypesNext, HookChanges
<1>2. HookEnds(m) => hook' \in [Messages -> Hooks]
  BY <1>1 DEF HookEnds
<1>3. \A pc \in HookPCs : HookGoes(m, pc) => hook' \in [Messages -> Hooks]
  BY <1>1 DEF HookGoes
<1>4. ASSUME NEW kind \in Kinds.sms \cup Kinds.email, Receive(m, kind)
      PROVE  TypeOK'
  <2> DEFINE g == IF channel # "active" THEN ClosedHook
                  ELSE [pc |-> IF conv.exists THEN "open" ELSE "looked",
                        kind |-> kind, saw |-> conv]
  <2>1. g \in Hooks
    BY <1>1, NewConversations DEF Hooks, ClosedHook, NoHook, HookPCs
  <2>2. hook' = [hook EXCEPT ![m] = g]
    BY <1>4 DEF Receive
  <2> HIDE DEF g
  <2>3. hook' \in [Messages -> Hooks]
    BY <1>1, <2>1, <2>2
  <2>4. QED
    BY <2>3, <1>4, Types, TypesNext DEF Receive, meterVars
<1>5. CASE CreateConversation(m)
  <2>1. CASE conv.exists
    BY <2>1, <1>2, <1>5, Types, TypesNext DEF CreateConversation, meterVars
  <2>2. CASE ~conv.exists
    <3>1. [hook[m] EXCEPT !.pc = "open", !.saw = Greeted] \in Hooks
      BY <1>1, NewConversations DEF Hooks, HookPCs
    <3>2. hook' = [hook EXCEPT ![m] = [hook[m] EXCEPT !.pc = "open", !.saw = Greeted]]
      BY <1>5, <2>2, <1>1 DEF CreateConversation
    <3>3. hook' \in [Messages -> Hooks]
      BY <3>1, <3>2, <1>1
    <3>4. conv' \in Conversation
      BY <1>5, <2>2, NewConversations DEF CreateConversation
    <3>5. QED
      BY <3>3, <3>4, <1>5, Types, TypesNext DEF CreateConversation, meterVars
  <2>3. QED
    BY <2>1, <2>2
<1>6. CASE SetTrade(m)
  BY <1>6, <1>3, Types, TypesNext, ConversationChanges DEF SetTrade, meterVars, HookPCs
<1>7. CASE StageTrade(m)
  BY <1>7, <1>2, Types, TypesNext, ConversationChanges
  DEF StageTrade, meterVars, ConversationStage
<1>8. CASE AddPhotos(m)
  BY <1>8, <1>3, Types, TypesNext DEF AddPhotos, meterVars, HookPCs
<1>9. CASE StagePhotos(m)
  BY <1>9, <1>3, Types, TypesNext, ConversationChanges
  DEF StagePhotos, meterVars, HookPCs, ConversationStage
<1>10. CASE Delay(m)
  <2> DEFINE new == Published(m, 0)
  <2>1. new \in TaskRows
    BY PhotoConstants DEF Published, TaskRows
  <2>2. task' = [t \in Tasks |-> IF t \in FirstUnused(1) THEN new ELSE task[t]]
    BY <1>10 DEF Delay
  <2> HIDE DEF new
  <2>3. task' \in [Tasks -> TaskRows]
    BY <2>1, <2>2, Types, TypesNext
  <2>4. QED
    BY <2>3, <1>10, <1>2, Types, TypesNext DEF Delay, meterVars
<1>11. CASE Accept(m)
  <2>1. hook[m].saw.quote \in Tasks
    BY <1>11, <1>1, ConversationChanges DEF Accept, Hooks, Conversation
  <2>2. hook' \in [Messages -> Hooks]
    BY <1>11, <1>2, <1>3 DEF Accept, HookPCs
  <2>3. approved' \subseteq Tasks
    BY <1>11, <2>1, Types, TypesNext DEF Accept
  <2>4. \A q \in Tasks : [quote EXCEPT ![q].status = "accepted"] \in [Tasks -> Quote]
    BY Types, TypesNext DEF Quote
  <2>5. quote' \in [Tasks -> Quote]
    BY <1>11, <2>1, <2>4, Types, TypesNext DEF Accept
  <2>6. QED
    BY <1>11, <2>2, <2>3, <2>5, Types, TypesNext DEF Accept, meterVars
<1>12. CASE StageBooked(m)
  BY <1>12, <1>2, Types, TypesNext, ConversationChanges
  DEF StageBooked, meterVars, ConversationStage
<1>13. CASE Answer(m)
  BY <1>13, <1>2, Types, TypesNext DEF Answer, meterVars
<1>14. CASE HookDies(m)
  BY <1>14, <1>2, Types, TypesNext DEF HookDies, meterVars
<1>15. QED
  BY <1>4, <1>5, <1>6, <1>7, <1>8, <1>9, <1>10, <1>11, <1>12, <1>13, <1>14
  DEF HookStep

LEMMA RunTypes ==
  ASSUME TypeOK, NEW t \in Tasks, GoesOn(t) \/ NoPhotos(t) \/ Breaks(t) \/ Dies(t)
  PROVE  TypeOK'
<1>1. \A pc \in RunPCs : RunGoes(t, pc) => task' \in [Tasks -> TaskRows]
  BY TaskChanges DEF RunGoes
<1>2. RunEnds(t) => task' \in [Tasks -> TaskRows]
  BY QueueTypes
<1>3. \A n \in {1, 2} : Republish(t, n) /\ task[t].retries < MaxRetries
                        => task' \in [Tasks -> TaskRows]
  BY QueueTypes
<1>4. task[t].saw \in Nat
  BY Types, TypesNext DEF TaskRows
<1>5. CASE Meter(t)
  <2>1. task' = [task EXCEPT ![t].pc = "metering", ![t].saw = used] /\ used \in Nat
    BY <1>5, Types, TypesNext DEF Meter
  <2>2. task' \in [Tasks -> TaskRows]
    BY <2>1, TaskChanges DEF RunPCs
  <2>3. raced' \subseteq {"counts", "tests"}
    BY <1>5, Types, TypesNext DEF Meter, Loads
  <2>4. QED
    BY <2>2, <2>3, <1>5, Types, TypesNext DEF Meter
<1>6. CASE Price(t)
  <2>1. task' = [task EXCEPT ![t].pc = "priced", ![t].saw = 0]
    BY <1>6 DEF Price
  <2>2. task' \in [Tasks -> TaskRows]
    BY <2>1, TaskChanges DEF RunPCs
  <2>3. used' \in Nat
    BY <1>4, <1>6 DEF Price
  <2>4. quote' \in [Tasks -> Quote]
    BY <1>6, Types, TypesNext DEF Price, PhotoQuote, Quote
  <2>5. QED
    BY <2>2, <2>3, <2>4, <1>6, Types, TypesNext DEF Price
<1>7. CASE Attach(t)
  BY <1>7, <1>1, Types, TypesNext, ConversationChanges DEF Attach, meterVars, RunPCs
<1>8. CASE StageQuote(t)
  BY <1>8, <1>1, Types, TypesNext, ConversationChanges
  DEF StageQuote, meterVars, RunPCs, ConversationStage
<1>9. CASE Notify(t)
  BY <1>9, <1>2, Types, TypesNext DEF Notify, meterVars
<1>10. CASE NoPhotos(t)
  BY <1>10, <1>2, <1>3, Types, TypesNext DEF NoPhotos, meterVars
<1>11. CASE Breaks(t)
  BY <1>11, <1>2, <1>3, Types, TypesNext DEF Breaks, meterVars
<1>12. CASE Dies(t)
  BY <1>12, <1>2, Types, TypesNext DEF Dies, meterVars
<1>13. QED
  BY <1>5, <1>6, <1>7, <1>8, <1>9, <1>10, <1>11, <1>12 DEF GoesOn

LEMMA TypeStep ==
  ASSUME TypeOK, [Next]_vars
  PROVE  TypeOK'
<1>1. CASE UNCHANGED vars
  BY <1>1 DEF TypeOK, vars, meterVars
<1>2. ASSUME NEW c \in Clerks, ClerkStep(c)
      PROVE  TypeOK'
  <2>1. clerk[c].saw \in Nat
    BY Types, TypesNext
  <2>2. CASE BeginCreateQuote(c)
    BY <2>2, Types, TypesNext DEF BeginCreateQuote
  <2>3. CASE MeterCreateQuote(c)
    BY <2>3, Types, TypesNext DEF MeterCreateQuote, Loads
  <2>4. CASE EndCreateQuote(c)
    BY <2>4, <2>1, Types, TypesNext DEF EndCreateQuote, NoClerk
  <2>5. QED
    BY <1>2, <2>2, <2>3, <2>4 DEF ClerkStep
<1>3. CASE RegisterChannel \/ DeactivateChannel \/ DailyFollowUps \/ SendFollowUp
  BY <1>3, Types, TypesNext
  DEF RegisterChannel, DeactivateChannel, DailyFollowUps, SendFollowUp, meterVars
<1>4. QED
  BY <1>1, <1>2, <1>3, HookTypes, RunTypes DEF Next

\* Every state is made of values the tables and the queue can hold.
THEOREM PhotoTypeOK == Spec => []TypeOK
<1>1. Init => TypeOK
  BY TypeStart
<1>2. TypeOK /\ [Next]_vars => TypeOK'
  BY TypeStep
<1>3. QED
  BY <1>1, <1>2, PTL DEF Spec

-----------------------------------------------------------------------------
(* What an operation leaves of the queue.                                  *)

LEMMA EndEffect ==
  ASSUME TypeOK, NEW t \in Tasks, RunEnds(t)
  PROVE  /\ task'[t].pc = "ended" /\ task'[t].msg = task[t].msg
         /\ \A u \in Tasks \ {t} : task'[u] = task[u]
BY Types DEF RunEnds, Published

LEMMA GoesEffect ==
  ASSUME TypeOK, NEW t \in Tasks, NEW pc, RunGoes(t, pc)
  PROVE  /\ task'[t].pc = pc /\ task'[t].msg = task[t].msg
         /\ task'[t].retries = task[t].retries
         /\ task'[t].saw = task[t].saw
         /\ \A u \in Tasks \ {t} : task'[u] = task[u]
BY Types DEF RunGoes, TaskRows

LEMMA MeterEffect ==
  ASSUME TypeOK, NEW t \in Tasks, Meter(t)
  PROVE  /\ task[t].pc = "queued"
         /\ task'[t].pc = "metering" /\ task'[t].msg = task[t].msg
         /\ task'[t].retries = task[t].retries
         /\ task'[t].saw = used
         /\ \A u \in Tasks \ {t} : task'[u] = task[u]
BY Types DEF Meter, TaskRows

LEMMA PriceEffect ==
  ASSUME TypeOK, NEW t \in Tasks, Price(t)
  PROVE  /\ task[t].pc = "metering"
         /\ task'[t].pc = "priced" /\ task'[t].msg = task[t].msg
         /\ task'[t].retries = task[t].retries
         /\ \A u \in Tasks \ {t} : task'[u] = task[u]
         /\ Stored' = Stored \cup {t}
<1>1. /\ task[t].pc = "metering"
      /\ task'[t].pc = "priced" /\ task'[t].msg = task[t].msg
      /\ task'[t].retries = task[t].retries
      /\ \A u \in Tasks \ {t} : task'[u] = task[u]
  BY Types DEF Price, TaskRows
<1>2. quote' = [quote EXCEPT ![t] = PhotoQuote] /\ quote \in [Tasks -> Quote]
  BY Types DEF Price
<1>3. PhotoQuote.status # "none"
  BY DEF PhotoQuote
<1>4. Stored' = Stored \cup {t}
  BY <1>2, <1>3 DEF Stored
<1>5. QED
  BY <1>1, <1>4

LEMMA RepublishEffect ==
  ASSUME TypeOK, NEW t \in Tasks, NEW n, Republish(t, n), task[t].pc # "unused"
  PROVE  /\ task'[t].pc = "retried" /\ task'[t].msg = task[t].msg
         /\ t \notin FirstUnused(n)
         /\ \A u \in FirstUnused(n) :
               /\ u \in Tasks /\ task[u].pc = "unused"
               /\ task'[u].pc = "queued" /\ task'[u].msg = task[t].msg
               /\ task'[u].retries = task[t].retries + 1
         /\ \A u \in Tasks : u # t /\ u \notin FirstUnused(n) => task'[u] = task[u]
<1>1. \A u \in FirstUnused(n) : u \in Tasks /\ task[u].pc = "unused"
  BY DEF FirstUnused, Unused
<1> HIDE DEF FirstUnused
<1>2. QED
  BY <1>1 DEF Republish, Published

LEMMA DelayEffect ==
  ASSUME TypeOK, NEW m \in Messages, Delay(m)
  PROVE  /\ \A u \in FirstUnused(1) :
               /\ u \in Tasks /\ task[u].pc = "unused"
               /\ task'[u].pc = "queued" /\ task'[u].msg = m
               /\ task'[u].retries = 0
         /\ \A u \in Tasks : u \notin FirstUnused(1) => task'[u] = task[u]
<1>1. \A u \in FirstUnused(1) : u \in Tasks /\ task[u].pc = "unused"
  BY DEF FirstUnused, Unused
<1> HIDE DEF FirstUnused
<1>2. QED
  BY <1>1 DEF Delay, Published

LEMMA AcceptEffect ==
  ASSUME TypeOK, NEW m \in Messages, Accept(m)
  PROVE  Stored' = Stored
<1>1. hook[m].saw.quote \in Tasks
  BY Types, HookChanges, ConversationChanges DEF Accept, Hooks, Conversation
<1>2. \/ quote' = quote
      \/ /\ quote[hook[m].saw.quote].status = "sent"
         /\ quote' = [quote EXCEPT ![hook[m].saw.quote].status = "accepted"]
  BY DEF Accept
<1>3. quote \in [Tasks -> Quote]
  BY Types
<1>4. QED
  BY <1>1, <1>2, <1>3 DEF Stored, Quote

\* A webhook's steps store no quote, count nothing, and leave every run as it
\* is, except that one queues a message.
LEMMA HookEffect ==
  ASSUME TypeOK, NEW m \in Messages, HookStep(m)
  PROVE  /\ Stored' = Stored
         /\ UNCHANGED meterVars
         /\ task' = task \/ Delay(m)
<1>1. Stored' = Stored
  <2>1. CASE Accept(m)
    BY <2>1, AcceptEffect
  <2>2. CASE ~Accept(m)
    <3>1. quote' = quote
      BY <2>2 DEF HookStep, Receive, CreateConversation, SetTrade, StageTrade,
        AddPhotos, StagePhotos, Delay, StageBooked, Answer, HookDies
    <3>2. QED
      BY <3>1 DEF Stored
  <2>3. QED
    BY <2>1, <2>2
<1>2. UNCHANGED meterVars
  BY DEF HookStep, Receive, CreateConversation, SetTrade, StageTrade, AddPhotos,
    StagePhotos, Delay, Accept, StageBooked, Answer, HookDies
<1>3. task' = task \/ Delay(m)
  BY DEF HookStep, Receive, CreateConversation, SetTrade, StageTrade, AddPhotos,
    StagePhotos, Accept, StageBooked, Answer, HookDies
<1>4. QED
  BY <1>1, <1>2, <1>3

\* The steps that leave the queue and the quotes alone.
LEMMA OtherEffect ==
  ASSUME TypeOK,
         \/ UNCHANGED vars
         \/ RegisterChannel \/ DeactivateChannel \/ DailyFollowUps \/ SendFollowUp
         \/ \E c \in Clerks : ClerkStep(c)
  PROVE  /\ Stored' = Stored
         /\ task' = task /\ quote' = quote /\ conv' = conv /\ hook' = hook
         /\ \/ UNCHANGED meterVars
            \/ \E c \in Clerks : ClerkStep(c)
<1>1. task' = task /\ quote' = quote /\ conv' = conv /\ hook' = hook
  BY DEF vars, RegisterChannel, DeactivateChannel, DailyFollowUps, SendFollowUp,
    ClerkStep, BeginCreateQuote, MeterCreateQuote, EndCreateQuote
<1>2. \/ UNCHANGED meterVars
      \/ \E c \in Clerks : ClerkStep(c)
  BY DEF vars, RegisterChannel, DeactivateChannel, DailyFollowUps, SendFollowUp
<1>3. QED
  BY <1>1, <1>2 DEF Stored

\* The ends of a run: it ends for good, or is retried as one or two copies.
LEMMA EndsEffect ==
  ASSUME TypeOK, NEW t \in Tasks,
         Notify(t) \/ NoPhotos(t) \/ Breaks(t) \/ Dies(t)
  PROVE  /\ Stored' = Stored
         /\ quote' = quote /\ conv' = conv /\ hook' = hook
         /\ UNCHANGED meterVars
         /\ task[t].pc \in Active
         /\ \/ RunEnds(t)
            \/ Republish(t, 1) /\ task[t].retries < MaxRetries
            \/ /\ Republish(t, 2) /\ task[t].retries < MaxRetries
               /\ task[t].pc = "queued"
<1>1. quote' = quote /\ conv' = conv /\ hook' = hook /\ UNCHANGED meterVars
  BY DEF Notify, NoPhotos, Breaks, Dies
<1>2. task[t].pc \in Active
  BY DEF Notify, NoPhotos, Breaks, Dies, Active, RunPCs
<1>3. \/ RunEnds(t)
      \/ Republish(t, 1) /\ task[t].retries < MaxRetries
      \/ /\ Republish(t, 2) /\ task[t].retries < MaxRetries
         /\ task[t].pc = "queued"
  BY DEF Notify, NoPhotos, Breaks, Dies
<1>4. QED
  BY <1>1, <1>2, <1>3 DEF Stored

\* Every step is of one of five kinds.
LEMMA Kinds5 ==
  ASSUME TypeOK, [Next]_vars
  PROVE  \/ \E m \in Messages : HookStep(m)
         \/ \E t \in Tasks : Meter(t) \/ Price(t)
         \/ \E t \in Tasks : Attach(t) \/ StageQuote(t)
         \/ \E t \in Tasks : Notify(t) \/ NoPhotos(t) \/ Breaks(t) \/ Dies(t)
         \/ \/ UNCHANGED vars
            \/ RegisterChannel \/ DeactivateChannel \/ DailyFollowUps \/ SendFollowUp
            \/ \E c \in Clerks : ClerkStep(c)
BY DEF Next, GoesOn

\* Attaching the quote and setting the stage: nothing stored, nothing counted.
LEMMA WriteEffect ==
  ASSUME TypeOK, NEW t \in Tasks, Attach(t) \/ StageQuote(t)
  PROVE  /\ Stored' = Stored
         /\ quote' = quote /\ hook' = hook
         /\ UNCHANGED meterVars
         /\ task[t].pc \in {"priced", "attached"}
         /\ task'[t].pc \in {"attached", "staged"}
         /\ task'[t].msg = task[t].msg
         /\ task'[t].retries = task[t].retries
         /\ \A u \in Tasks \ {t} : task'[u] = task[u]
<1>1. quote' = quote /\ hook' = hook /\ UNCHANGED meterVars
  BY DEF Attach, StageQuote
<1>2. \/ task[t].pc = "priced" /\ RunGoes(t, "attached")
      \/ task[t].pc = "attached" /\ RunGoes(t, "staged")
  BY DEF Attach, StageQuote
<1>3. QED
  BY <1>1, <1>2, GoesEffect DEF Stored

LEMMA PricedStep ==
  ASSUME TypeOK, QuotesArePriced, [Next]_vars
  PROVE  QuotesArePriced'
<1> DEFINE S == Stored
<1>1. ASSUME NEW m \in Messages, HookStep(m)
      PROVE  QuotesArePriced'
  <2>1. CASE task' = task
    BY <2>1, <1>1, HookEffect DEF QuotesArePriced
  <2>2. CASE Delay(m)
    BY <2>2, <1>1, HookEffect, DelayEffect DEF QuotesArePriced
  <2>3. QED
    BY <2>1, <2>2, <1>1, HookEffect
<1>2. ASSUME NEW t \in Tasks, Meter(t)
      PROVE  QuotesArePriced'
  <2>1. Stored' = Stored
    BY <1>2 DEF Meter, Stored
  <2>2. QED
    BY <2>1, <1>2, MeterEffect DEF QuotesArePriced
<1>3. ASSUME NEW t \in Tasks, Price(t)
      PROVE  QuotesArePriced'
  BY <1>3, PriceEffect DEF QuotesArePriced
<1>4. ASSUME NEW t \in Tasks, Attach(t) \/ StageQuote(t)
      PROVE  QuotesArePriced'
  <2>1. task[t].pc \in {"priced", "attached"} => t \in Stored
    BY DEF QuotesArePriced
  <2>2. QED
    BY <2>1, <1>4, WriteEffect DEF QuotesArePriced
<1>5. ASSUME NEW t \in Tasks, Notify(t) \/ NoPhotos(t) \/ Breaks(t) \/ Dies(t)
      PROVE  QuotesArePriced'
  <2>1. CASE RunEnds(t)
    BY <2>1, <1>5, EndsEffect, EndEffect DEF QuotesArePriced
  <2>2. ASSUME NEW n \in {1, 2}, Republish(t, n)
        PROVE  QuotesArePriced'
    <3>1. task[t].pc # "unused"
      BY <1>5, EndsEffect DEF Active, RunPCs
    <3>2. QED
      BY <3>1, <2>2, <1>5, EndsEffect, RepublishEffect DEF QuotesArePriced
  <2>3. QED
    BY <2>1, <2>2, <1>5, EndsEffect
<1>6. CASE \/ UNCHANGED vars
           \/ RegisterChannel \/ DeactivateChannel \/ DailyFollowUps \/ SendFollowUp
           \/ \E c \in Clerks : ClerkStep(c)
  BY <1>6, OtherEffect DEF QuotesArePriced
<1>7. QED
  BY <1>1, <1>2, <1>3, <1>4, <1>5, <1>6, Kinds5

-----------------------------------------------------------------------------
(* The count of the period's quotes.                                       *)

LEMMA StoredFinite ==
  /\ IsFiniteSet(Stored) /\ Cardinality(Stored) \in Nat
  /\ \A t \in Tasks : t \notin Stored
       => Cardinality(Stored \cup {t}) = Cardinality(Stored) + 1
<1>1. Stored \in SUBSET Tasks
  BY DEF Stored
<1>2. IsFiniteSet(Stored)
  BY <1>1, PhotoConstants, FS_Subset
<1>3. QED
  BY <1>2, FS_CardinalityType, FS_AddElement

\* Steps that count nothing and load nothing.
LEMMA CountStays ==
  ASSUME TypeOK, CountInv, UNCHANGED meterVars, Stored' = Stored,
         \A t \in Tasks : task'[t].pc = "metering"
            => task[t].pc = "metering" /\ task'[t].saw = task[t].saw
  PROVE  CountInv'
<1>1. /\ Closed' = Closed /\ Asking' = Asking /\ ClerksCounting' = ClerksCounting
      /\ clerk' = clerk /\ used' = used /\ raced' = raced
  BY DEF meterVars, Closed, Asking, ClerksCounting
<1>2. All' = All
  BY <1>1 DEF All
<1>3. RunsCounting' \subseteq RunsCounting
      /\ \A t \in RunsCounting' : task'[t].saw = task[t].saw
  BY DEF RunsCounting
<1>4. QED
  BY <1>1, <1>2, <1>3 DEF CountInv

\* What a load leaves unmarked did not overlap.
LEMMA LoadsMarks ==
  ASSUME NEW others, Loads(others)
  PROVE  /\ raced \subseteq raced'
         /\ "counts" \notin raced' => RunsCounting = {} /\ ClerksCounting = {}
         /\ "tests" \notin raced' => others = {}
BY DEF Loads, Metering, RunsCounting, ClerksCounting

\* A run loads the count: from now on two sessions have met, or it is alone.
LEMMA MeterCounts ==
  ASSUME TypeOK, CountInv, NEW t \in Tasks, Meter(t)
  PROVE  CountInv'
<1>1. /\ Closed' = Closed /\ Asking' = Asking /\ ClerksCounting' = ClerksCounting
      /\ clerk' = clerk /\ used' = used /\ Stored' = Stored /\ Loads(Asking)
  BY DEF Meter, Closed, Asking, ClerksCounting, Stored
<1>2. All' = All
  BY <1>1 DEF All
<1>3. RunsCounting' = RunsCounting \cup {t} /\ task'[t].saw = used
      /\ \A u \in RunsCounting : u # t /\ task'[u] = task[u]
  BY MeterEffect DEF RunsCounting
<1>4. /\ raced \subseteq raced'
      /\ "counts" \notin raced' => RunsCounting = {} /\ ClerksCounting = {}
      /\ "tests" \notin raced' => Asking = {}
  BY <1>1, LoadsMarks
<1>5. \A u \in RunsCounting' : task'[u].saw <= All'
  BY <1>2, <1>3 DEF CountInv
<1>6. "counts" \notin raced' => /\ used' = All'
                                /\ RunsCounting' = {t} /\ task'[t].saw = used'
                                /\ ClerksCounting' = {}
  BY <1>1, <1>2, <1>3, <1>4 DEF CountInv
<1>7. "tests" \notin raced' => Asking' = {}
  BY <1>1, <1>4
<1>8. QED
  BY <1>1, <1>2, <1>5, <1>6, <1>7 DEF CountInv

\* An employee's request passes the test.
LEMMA BeginCounts ==
  ASSUME TypeOK, CountInv, NEW c \in Clerks, BeginCreateQuote(c)
  PROVE  CountInv'
<1>1. /\ used' = used /\ task' = task /\ Stored' = Stored
      /\ clerk[c].pc = "idle" /\ used < Limit
      /\ clerk' = [clerk EXCEPT ![c].pc = "open"]
      /\ raced' = raced \cup (IF Metering # {} THEN {"tests"} ELSE {})
  BY Types, PhotoConstants DEF BeginCreateQuote, Stored
<1>2. /\ Closed' = Closed /\ Asking' = Asking \cup {c}
      /\ ClerksCounting' = ClerksCounting
      /\ \A d \in ClerksCounting : clerk'[d] = clerk[d]
  BY <1>1, Types DEF Closed, Asking, ClerksCounting
<1>3. All' = All /\ RunsCounting' = RunsCounting
  BY <1>1, <1>2 DEF All, RunsCounting
<1>4. /\ "counts" \notin raced' => "counts" \notin raced
      /\ "tests" \notin raced' => /\ "tests" \notin raced
                                  /\ RunsCounting = {} /\ ClerksCounting = {}
  BY <1>1 DEF Metering, RunsCounting, ClerksCounting
<1>5. \A u \in RunsCounting' : task'[u].saw <= All'
  BY <1>1, <1>3 DEF CountInv
<1>6. \A d \in ClerksCounting' : clerk'[d].saw <= All'
  BY <1>2, <1>3 DEF CountInv
<1>7. "tests" \notin raced' =>
        \A d \in Asking' : used' < Limit /\ RunsCounting' = {} /\ ClerksCounting' \subseteq {d}
  BY <1>1, <1>2, <1>3, <1>4
<1>8. "counts" \notin raced' =>
        /\ used' = All'
        /\ \A t \in RunsCounting' :
              task'[t].saw = used' /\ RunsCounting' = {t} /\ ClerksCounting' = {}
        /\ \A d \in ClerksCounting' :
              clerk'[d].saw = used' /\ ClerksCounting' = {d} /\ RunsCounting' = {}
  BY <1>1, <1>2, <1>3, <1>4 DEF CountInv
<1>9. QED
  BY <1>1, <1>2, <1>3, <1>5, <1>6, <1>7, <1>8 DEF CountInv

\* It loads the count a second time, to add one.
LEMMA LoadCounts ==
  ASSUME TypeOK, CountInv, NEW c \in Clerks, MeterCreateQuote(c)
  PROVE  CountInv'
<1>1. /\ used' = used /\ task' = task /\ Stored' = Stored
      /\ clerk[c].pc = "open"
      /\ clerk' = [clerk EXCEPT ![c] = [pc |-> "metering", saw |-> used]]
      /\ Loads(Asking \ {c})
  BY DEF MeterCreateQuote, Stored
<1>2. /\ Closed' = Closed /\ Asking' = Asking /\ c \in Asking
      /\ ClerksCounting' = ClerksCounting \cup {c} /\ clerk'[c].saw = used
      /\ \A d \in ClerksCounting : d # c /\ clerk'[d] = clerk[d]
  BY <1>1, Types DEF Closed, Asking, ClerksCounting
<1>3. All' = All /\ RunsCounting' = RunsCounting
  BY <1>1, <1>2 DEF All, RunsCounting
<1>4. /\ raced \subseteq raced'
      /\ "counts" \notin raced' => RunsCounting = {} /\ ClerksCounting = {}
      /\ "tests" \notin raced' => Asking \ {c} = {}
  BY <1>1, LoadsMarks
<1>5. \A u \in RunsCounting' : task'[u].saw <= All'
  BY <1>1, <1>3 DEF CountInv
<1>6. \A d \in ClerksCounting' : clerk'[d].saw <= All'
  BY <1>2, <1>3 DEF CountInv
<1>7. "counts" \notin raced' => /\ used' = All' /\ RunsCounting' = {}
                                /\ ClerksCounting' = {c} /\ clerk'[c].saw = used'
  BY <1>1, <1>2, <1>3, <1>4 DEF CountInv
<1>8. ASSUME "tests" \notin raced'
      PROVE  /\ Asking' = {c} /\ used' < Limit
             /\ RunsCounting' = {} /\ ClerksCounting' \subseteq {c}
  <2>1. "tests" \notin raced /\ Asking = {c}
    BY <1>2, <1>4, <1>8
  <2>2. used < Limit /\ RunsCounting = {} /\ ClerksCounting \subseteq {c}
    BY <2>1 DEF CountInv
  <2>3. QED
    BY <2>1, <2>2, <1>1, <1>2, <1>3
<1>9. QED
  BY <1>1, <1>2, <1>3, <1>5, <1>6, <1>7, <1>8 DEF CountInv

\* A run counts its quote as it stores it.
LEMMA PriceCounts ==
  ASSUME TypeOK, QuotesArePriced, CountInv, NEW t \in Tasks, Price(t)
  PROVE  CountInv'
<1>1. /\ Closed' = Closed /\ Asking' = Asking /\ ClerksCounting' = ClerksCounting
      /\ clerk' = clerk /\ raced' = raced
      /\ used' = task[t].saw + 1
  BY DEF Price, Closed, Asking, ClerksCounting
<1>2. t \in RunsCounting /\ t \notin Stored
  BY PriceEffect DEF QuotesArePriced, RunsCounting
<1>3. RunsCounting' \subseteq RunsCounting \ {t}
      /\ \A u \in RunsCounting \ {t} : task'[u] = task[u]
  BY PriceEffect DEF RunsCounting
<1>4. /\ IsFiniteSet(Closed) /\ Cardinality(Closed) \in Nat
      /\ All \in Nat /\ All' = All + 1
  BY <1>1, <1>2, PriceEffect, StoredFinite, FS_CardinalityType DEF All, CountInv
<1>5. task[t].saw <= All /\ task[t].saw \in Nat
  BY <1>2, Types DEF CountInv, TaskRows
<1>6. used' <= All'
  BY <1>1, <1>4, <1>5
<1>7. \A u \in RunsCounting' : task'[u].saw <= All'
  <2>1. ASSUME NEW u \in RunsCounting'
        PROVE  task'[u].saw <= All'
    <3>1. u \in Tasks /\ u \in RunsCounting /\ task'[u].saw = task[u].saw
      BY <1>3, <2>1 DEF RunsCounting
    <3>2. task[u].saw <= All /\ task[u].saw \in Nat
      BY <3>1, Types DEF CountInv, TaskRows
    <3>3. QED
      BY <3>1, <3>2, <1>4
  <2>2. QED
    BY <2>1
<1>8. \A c \in ClerksCounting' : clerk'[c].saw <= All'
  <2>1. \A c \in ClerksCounting : clerk[c].saw <= All /\ clerk[c].saw \in Nat
    BY Types DEF CountInv, ClerksCounting
  <2>2. QED
    BY <2>1, <1>1, <1>4
<1>9. ASSUME "counts" \notin raced
      PROVE  used' = All' /\ RunsCounting' = {} /\ ClerksCounting' = {}
  <2>1. /\ used = All /\ task[t].saw = used
        /\ RunsCounting = {t} /\ ClerksCounting = {}
    BY <1>2, <1>9 DEF CountInv
  <2>2. QED
    BY <2>1, <1>1, <1>3, <1>4
<1>10. "tests" \notin raced => Asking' = {}
  BY <1>1, <1>2 DEF CountInv
<1>11. QED
  BY <1>1, <1>4, <1>6, <1>7, <1>8, <1>9, <1>10 DEF CountInv

\* An employee's quote, counted with its commit.
LEMMA CommitCounts ==
  ASSUME TypeOK, CountInv, NEW c \in Clerks, clerk[c].pc = "metering",
         clerk' = [clerk EXCEPT ![c] = [pc |-> "closed", saw |-> 0]],
         used' = clerk[c].saw + 1,
         task' = task, quote' = quote, raced' = raced
  PROVE  CountInv'
<1>1. /\ Stored' = Stored /\ RunsCounting' = RunsCounting
      /\ c \in ClerksCounting /\ c \in Asking /\ c \notin Closed
  BY DEF Stored, RunsCounting, ClerksCounting, Asking, Closed
<1>2. /\ IsFiniteSet(Closed) /\ Cardinality(Closed) \in Nat
      /\ Cardinality(Stored) \in Nat /\ All \in Nat
      /\ Cardinality(Closed \cup {c}) = Cardinality(Closed) + 1
      /\ IsFiniteSet(Closed \cup {c})
  BY <1>1, StoredFinite, FS_CardinalityType, FS_AddElement DEF All, CountInv
<1>3. /\ Closed' = Closed \cup {c} /\ Asking' = Asking \ {c}
      /\ ClerksCounting' = ClerksCounting \ {c}
      /\ \A d \in ClerksCounting \ {c} : clerk'[d] = clerk[d]
  BY Types DEF Closed, Asking, ClerksCounting
<1>4. All' = All + 1
  BY <1>1, <1>2, <1>3 DEF All
<1>5. \A d \in ClerksCounting : clerk[d].saw <= All /\ clerk[d].saw \in Nat
  BY Types DEF CountInv, ClerksCounting
<1>6. \A t \in RunsCounting : task[t].saw <= All /\ task[t].saw \in Nat
  BY Types DEF CountInv, RunsCounting, TaskRows
<1>7. used' <= All'
  BY <1>1, <1>2, <1>4, <1>5
<1>8. /\ \A t \in RunsCounting' : task'[t].saw <= All'
      /\ \A d \in ClerksCounting' : clerk'[d].saw <= All'
  BY <1>1, <1>2, <1>3, <1>4, <1>5, <1>6
<1>9. ASSUME "counts" \notin raced
      PROVE  used' = All' /\ RunsCounting' = {} /\ ClerksCounting' = {}
  <2>1. /\ used = All /\ clerk[c].saw = used
        /\ ClerksCounting = {c} /\ RunsCounting = {}
    BY <1>1, <1>9 DEF CountInv
  <2>2. QED
    BY <2>1, <1>1, <1>3, <1>4
<1>10. ASSUME "tests" \notin raced
       PROVE  Asking' = {}
  <2>1. \A d \in Asking : ClerksCounting \subseteq {d}
    BY <1>10 DEF CountInv
  <2>2. QED
    BY <2>1, <1>1, <1>3
<1>11. QED
  BY <1>2, <1>3, <1>7, <1>8, <1>9, <1>10 DEF CountInv

\* Or given up.
LEMMA GivenUpCounts ==
  ASSUME TypeOK, CountInv, NEW c \in Clerks, clerk[c].pc \in {"open", "metering"},
         clerk' = [clerk EXCEPT ![c] = NoClerk], used' = used,
         task' = task, quote' = quote, raced' = raced
  PROVE  CountInv'
<1>1. Stored' = Stored /\ RunsCounting' = RunsCounting
  BY DEF Stored, RunsCounting
<1>2. /\ Closed' = Closed /\ Asking' = Asking \ {c}
      /\ ClerksCounting' = ClerksCounting \ {c}
      /\ \A d \in ClerksCounting \ {c} : clerk'[d] = clerk[d]
  BY Types DEF Closed, Asking, ClerksCounting, NoClerk
<1>3. All' = All
  BY <1>1, <1>2 DEF All
<1>4. /\ \A t \in RunsCounting' : task'[t].saw <= All'
      /\ \A d \in ClerksCounting' : clerk'[d].saw <= All'
  BY <1>1, <1>2, <1>3 DEF CountInv
<1>5. "counts" \notin raced' =>
        /\ used' = All'
        /\ \A t \in RunsCounting' :
              task'[t].saw = used' /\ RunsCounting' = {t} /\ ClerksCounting' = {}
        /\ \A d \in ClerksCounting' :
              clerk'[d].saw = used' /\ ClerksCounting' = {d} /\ RunsCounting' = {}
  BY <1>1, <1>2, <1>3 DEF CountInv
<1>6. "tests" \notin raced' =>
        \A d \in Asking' : used' < Limit /\ RunsCounting' = {} /\ ClerksCounting' \subseteq {d}
  BY <1>1, <1>2 DEF CountInv
<1>7. QED
  BY <1>2, <1>3, <1>4, <1>5, <1>6 DEF CountInv

LEMMA EndCounts ==
  ASSUME TypeOK, CountInv, NEW c \in Clerks, EndCreateQuote(c)
  PROVE  CountInv'
<1>1. task' = task /\ quote' = quote /\ raced' = raced
  BY DEF EndCreateQuote
<1>2. QED
  BY <1>1, CommitCounts, GivenUpCounts DEF EndCreateQuote

LEMMA CountStep ==
  ASSUME TypeOK, QuotesArePriced, CountInv, [Next]_vars
  PROVE  CountInv'
<1>1. ASSUME NEW m \in Messages, HookStep(m)
      PROVE  CountInv'
  <2>1. CASE task' = task
    BY <2>1, <1>1, HookEffect, CountStays
  <2>2. CASE Delay(m)
    <3>1. \A t \in Tasks : task'[t].pc = "metering"
            => task[t].pc = "metering" /\ task'[t].saw = task[t].saw
      BY <2>2, DelayEffect
    <3>2. QED
      BY <3>1, <1>1, HookEffect, CountStays
  <2>3. QED
    BY <2>1, <2>2, <1>1, HookEffect
<1>2. ASSUME NEW t \in Tasks, Attach(t) \/ StageQuote(t)
      PROVE  CountInv'
  <2>1. \A u \in Tasks : task'[u].pc = "metering"
          => task[u].pc = "metering" /\ task'[u].saw = task[u].saw
    BY <1>2, WriteEffect
  <2>2. QED
    BY <2>1, <1>2, WriteEffect, CountStays
<1>3. ASSUME NEW t \in Tasks, Notify(t) \/ NoPhotos(t) \/ Breaks(t) \/ Dies(t)
      PROVE  CountInv'
  <2>1. \A u \in Tasks : task'[u].pc = "metering"
          => task[u].pc = "metering" /\ task'[u].saw = task[u].saw
    <3>1. CASE RunEnds(t)
      BY <3>1, EndEffect
    <3>2. ASSUME NEW n \in {1, 2}, Republish(t, n)
          PROVE  \A u \in Tasks : task'[u].pc = "metering"
                    => task[u].pc = "metering" /\ task'[u].saw = task[u].saw
      <4>1. task[t].pc # "unused"
        BY <1>3, EndsEffect DEF Active, RunPCs
      <4>2. QED
        BY <4>1, <3>2, RepublishEffect
    <3>3. QED
      BY <3>1, <3>2, <1>3, EndsEffect
  <2>2. QED
    BY <2>1, <1>3, EndsEffect, CountStays
<1>4. CASE \/ UNCHANGED vars
           \/ RegisterChannel \/ DeactivateChannel \/ DailyFollowUps \/ SendFollowUp
           \/ \E c \in Clerks : ClerkStep(c)
  <2>1. CASE UNCHANGED meterVars
    BY <2>1, <1>4, OtherEffect, CountStays
  <2>2. CASE \E c \in Clerks : ClerkStep(c)
    BY <2>2, BeginCounts, LoadCounts, EndCounts DEF ClerkStep
  <2>3. QED
    BY <2>1, <2>2, <1>4, OtherEffect
<1>5. QED
  BY <1>1, <1>2, <1>3, <1>4, Kinds5, MeterCounts, PriceCounts

-----------------------------------------------------------------------------
(* The stages of the conversation.                                         *)

\* No step takes the conversation's quote back.
LEMMA HookStages ==
  ASSUME TypeOK, StageInv, NEW m \in Messages, HookStep(m)
  PROVE  StageInv'
<1>1. Stored' = Stored
  BY HookEffect
<1>2. /\ hook \in [Messages -> Hooks] /\ conv \in Conversation /\ hook[m] \in Hooks
      /\ hook[m].saw \in Conversation
  BY Types DEF Hooks
<1>4. ASSUME NEW t \in Tasks, conv'.exists = conv.exists \/ conv'.exists,
             hook[m].pc = "ready" => conv.exists,
             conv'.quote = conv.quote
      PROVE  /\ task'[t].pc # "unused" => conv'.exists
             /\ task'[t].pc = "attached" => conv'.quote # None
  <2>1. \/ task'[t] = task[t]
        \/ Delay(m) /\ task'[t].pc = "queued"
    BY HookEffect, DelayEffect
  <2>2. Delay(m) => conv.exists
    BY <1>4 DEF Delay
  <2>3. QED
    BY <1>4, <2>1, <2>2 DEF StageInv
<1>5. hook[m].pc \notin {"idle", "looked", "closed"} => conv.exists
  BY DEF StageInv
<1>6. \A n \in Messages :
         /\ HookEnds(m) =>
              hook'[n] = IF n = m THEN ClosedHook ELSE hook[n]
         /\ \A pc : HookGoes(m, pc) =>
              /\ hook'[n].pc = IF n = m THEN pc ELSE hook[n].pc
              /\ hook'[n].saw = hook[n].saw
  BY <1>2 DEF HookEnds, HookGoes, Hooks
<1>7. ClosedHook.pc = "closed" /\ ClosedHook.saw.quote = None
  BY NewConversations DEF ClosedHook, NoHook
<1>8. ASSUME HookEnds(m) \/ \E pc \in {"open", "traded", "stored", "ready"} :
                                HookGoes(m, pc) /\ hook[m].pc \notin {"idle", "looked", "closed"},
             conv'.exists = conv.exists, conv'.quote = conv.quote
      PROVE  \A n \in Messages :
          /\ hook'[n].pc \notin {"idle", "looked", "closed"} => conv'.exists
          /\ hook'[n].saw.quote # None => conv'.quote # None
          /\ hook'[n].pc = "answered" => conv'.quote # None
  BY <1>5, <1>6, <1>7, <1>8 DEF StageInv
<1>9. CASE conv' = conv /\ HookEnds(m)
  BY <1>9, <1>1, <1>4, <1>5, <1>8 DEF StageInv
<1>10. CASE \E kind \in Kinds.sms \cup Kinds.email : Receive(m, kind)
  <2>1. conv' = conv /\ task' = task
    BY <1>10 DEF Receive
  <2>2. \A n \in Messages :
          /\ n # m => hook'[n] = hook[n]
          /\ \/ hook'[m] = ClosedHook
             \/ /\ hook'[m].pc = IF conv.exists THEN "open" ELSE "looked"
                /\ hook'[m].saw = conv
    BY <1>10, <1>2 DEF Receive
  <2>3. \A n \in Messages :
          /\ hook'[n].pc \notin {"idle", "looked", "closed"} => conv'.exists
          /\ hook'[n].saw.quote # None => conv'.quote # None
          /\ hook'[n].pc = "answered" => conv'.quote # None
    BY <2>1, <2>2, <1>7 DEF StageInv
  <2>4. QED
    BY <2>1, <2>3, <1>1 DEF StageInv
<1>11. CASE CreateConversation(m)
  <2>1. CASE conv.exists
    BY <2>1, <1>11, <1>9 DEF CreateConversation
  <2>2. CASE ~conv.exists
    <3>1. conv = NoConversation /\ conv' = Greeted /\ task' = task
      BY <2>2, <1>11 DEF CreateConversation, StageInv
    <3>2. conv.quote = None /\ conv'.quote = None /\ conv'.exists
          /\ conv'.stage = "greeting"
      BY <3>1, NewConversations
    <3>3. \A n \in Messages :
            /\ n # m => hook'[n] = hook[n]
            /\ hook'[m].pc = "open" /\ hook'[m].saw = Greeted
      BY <2>2, <1>11, <1>2 DEF CreateConversation, Hooks
    <3>4. \A n \in Messages :
            /\ hook'[n].pc \notin {"idle", "looked", "closed"} => conv'.exists
            /\ hook'[n].saw.quote # None => conv'.quote # None
            /\ hook'[n].pc = "answered" => conv'.quote # None
      BY <3>2, <3>3, NewConversations DEF StageInv
    <3>5. QED
      BY <3>1, <3>2, <3>4 DEF StageInv
  <2>3. QED
    BY <2>1, <2>2
<1>12. CASE SetTrade(m)
  <2>1. /\ conv'.exists = conv.exists /\ conv'.quote = conv.quote
        /\ conv'.stage = conv.stage /\ conv.exists
    BY <1>12, <1>2, <1>5 DEF SetTrade, Conversation
  <2>2. HookGoes(m, "traded") /\ hook[m].pc = "open"
    BY <1>12 DEF SetTrade
  <2>3. QED
    BY <2>1, <2>2, <1>1, <1>4, <1>8 DEF StageInv
<1>13. CASE StageTrade(m) \/ StagePhotos(m)
  <2>1. /\ conv'.exists = conv.exists /\ conv'.quote = conv.quote
        /\ conv'.stage \in {"trade_select", "photo_received"} /\ conv.exists
    BY <1>13, <1>2, <1>5 DEF StageTrade, StagePhotos, Conversation
  <2>2. HookEnds(m) \/ (HookGoes(m, "ready") /\ hook[m].pc = "stored")
    BY <1>13 DEF StageTrade, StagePhotos
  <2>3. QED
    BY <2>1, <2>2, <1>1, <1>4, <1>8 DEF StageInv
<1>14. CASE AddPhotos(m)
  <2>1. conv' = conv /\ hook[m].pc = "open"
        /\ (HookGoes(m, "stored") \/ HookGoes(m, "ready"))
    BY <1>14 DEF AddPhotos
  <2>2. QED
    BY <2>1, <1>1, <1>4, <1>5, <1>8 DEF StageInv
<1>15. CASE Accept(m)
  <2>1. conv' = conv /\ hook[m].pc = "open" /\ hook[m].saw.quote # None
        /\ (HookGoes(m, "answered") \/ HookEnds(m))
    BY <1>15 DEF Accept
  <2>2. conv.quote # None
    BY <2>1 DEF StageInv
  <2>3. CASE HookEnds(m)
    BY <2>1, <2>3, <1>9
  <2>4. CASE HookGoes(m, "answered")
    <3>1. \A n \in Messages :
            /\ hook'[n].pc \notin {"idle", "looked", "closed"} => conv'.exists
            /\ hook'[n].saw.quote # None => conv'.quote # None
            /\ hook'[n].pc = "answered" => conv'.quote # None
      BY <2>1, <2>2, <2>4, <1>5, <1>6 DEF StageInv
    <3>2. QED
      BY <3>1, <2>1, <1>1, <1>4, <1>5 DEF StageInv
  <2>5. QED
    BY <2>1, <2>3, <2>4
<1>16. CASE StageBooked(m)
  <2>1. /\ conv'.exists = conv.exists /\ conv'.quote = conv.quote
        /\ conv'.stage = "booked" /\ conv.exists /\ HookEnds(m)
    BY <1>16, <1>2, <1>5 DEF StageBooked, Conversation
  <2>2. conv.quote # None
    BY <1>16 DEF StageBooked, StageInv
  <2>3. QED
    BY <2>1, <2>2, <1>1, <1>4, <1>8 DEF StageInv
<1>17. CASE Delay(m) \/ Answer(m) \/ HookDies(m)
  BY <1>17, <1>9 DEF Delay, Answer, HookDies
<1>18. QED
  BY <1>10, <1>11, <1>12, <1>13, <1>14, <1>15, <1>16, <1>17 DEF HookStep

\* Steps of the queue that leave the conversation alone.
LEMMA StagesStay ==
  ASSUME StageInv, conv' = conv, hook' = hook, Stored \subseteq Stored',
         \A t \in Tasks :
            /\ task'[t].pc # "unused" =>
                 task[t].pc # "unused" \/ \E u \in Tasks : task[u].pc # "unused"
            /\ task'[t].pc = "attached" => task[t].pc = "attached"
  PROVE  StageInv'
BY DEF StageInv

LEMMA StageStep ==
  ASSUME TypeOK, QuotesArePriced, StageInv, [Next]_vars
  PROVE  StageInv'
<1>1. ASSUME NEW t \in Tasks, Meter(t) \/ Price(t)
      PROVE  StageInv'
  <2>1. conv' = conv /\ hook' = hook
    BY <1>1 DEF Meter, Price
  <2>2. Stored \subseteq Stored'
    <3>1. CASE Meter(t)
      BY <3>1 DEF Meter, Stored
    <3>2. QED
      BY <1>1, <3>1, PriceEffect
  <2>3. QED
    BY <1>1, <2>1, <2>2, MeterEffect, PriceEffect, StagesStay
<1>2. ASSUME NEW t \in Tasks, Attach(t) \/ StageQuote(t)
      PROVE  StageInv'
  <2>1. conv.exists /\ t \in Stored /\ conv \in Conversation /\ t # None
    BY <1>2, WriteEffect, Types, PhotoConstants DEF StageInv, QuotesArePriced
  <2>2. CASE Attach(t)
    <3>1. conv'.exists /\ conv'.quote = t /\ conv'.stage = conv.stage
      BY <2>1, <2>2 DEF Attach, Conversation
    <3>2. QED
      BY <3>1, <2>1, <1>2, WriteEffect DEF StageInv
  <2>3. CASE StageQuote(t)
    <3>1. conv'.exists /\ conv'.quote = conv.quote
      BY <2>1, <2>3 DEF StageQuote, Conversation
    <3>2. task[t].pc = "attached" /\ task'[t].pc = "staged"
      BY <2>3, GoesEffect DEF StageQuote
    <3>3. conv.quote # None
      BY <3>2 DEF StageInv
    <3>4. QED
      BY <3>1, <3>3, <2>1, <1>2, WriteEffect DEF StageInv
  <2>4. QED
    BY <1>2, <2>2, <2>3
<1>3. ASSUME NEW t \in Tasks, Notify(t) \/ NoPhotos(t) \/ Breaks(t) \/ Dies(t)
      PROVE  StageInv'
  <2>1. task[t].pc # "unused"
    BY <1>3, EndsEffect DEF Active, RunPCs
  <2>2. \A u \in Tasks :
            /\ task'[u].pc # "unused" =>
                 task[u].pc # "unused" \/ \E x \in Tasks : task[x].pc # "unused"
            /\ task'[u].pc = "attached" => task[u].pc = "attached"
    <3>1. CASE RunEnds(t)
      BY <3>1, <2>1, EndEffect
    <3>2. ASSUME NEW n \in {1, 2}, Republish(t, n)
          PROVE  \A u \in Tasks : task'[u].pc = "attached" => task[u].pc = "attached"
      BY <2>1, <3>2, RepublishEffect
    <3>3. QED
      BY <2>1, <3>1, <3>2, <1>3, EndsEffect
  <2>3. QED
    BY <2>2, <1>3, EndsEffect, StagesStay
<1>4. CASE \/ UNCHANGED vars
           \/ RegisterChannel \/ DeactivateChannel \/ DailyFollowUps \/ SendFollowUp
           \/ \E c \in Clerks : ClerkStep(c)
  BY <1>4, OtherEffect, StagesStay
<1>5. QED
  BY <1>1, <1>2, <1>3, <1>4, Kinds5, HookStages

-----------------------------------------------------------------------------
(* Retries: at most one quote more for each run that was retried.          *)

LEMMA UnusedUpTo ==
  ASSUME NEW t \in Tasks
  PROVE  /\ IsFiniteSet({u \in Unused : u <= t})
         /\ \A A \in SUBSET {u \in Unused : u <= t} :
               /\ IsFiniteSet(A)
               /\ Cardinality(A) <= Cardinality({u \in Unused : u <= t})
         /\ Cardinality({u \in Unused : u <= t}) \in Nat
<1> DEFINE U == {u \in Unused : u <= t}
<1>1. U \in SUBSET Tasks
  BY DEF Unused
<1> HIDE DEF U
<1>2. IsFiniteSet(U)
  BY <1>1, PhotoConstants, FS_Subset
<1>3. /\ IsFiniteSet(U)
      /\ \A A \in SUBSET U : IsFiniteSet(A) /\ Cardinality(A) <= Cardinality(U)
      /\ Cardinality(U) \in Nat
  BY <1>2, FS_Subset, FS_CardinalityType
<1>4. QED
  BY <1>3 DEF U

\* Published copies take as many of the queue's places as there are copies.
LEMMA PlacesForOne ==
  \E a : FirstUnused(1) \subseteq {a}
<1>1. \A t, u \in FirstUnused(1) : ~(t < u)
  <2>1. SUFFICES ASSUME NEW t \in FirstUnused(1), NEW u \in FirstUnused(1), t < u
                 PROVE  FALSE
    OBVIOUS
  <2>2. /\ t \in Tasks /\ u \in Tasks /\ t \in Unused /\ u \in Unused
        /\ Cardinality({x \in Unused : x <= u}) <= 1
    BY <2>1 DEF FirstUnused, Unused
  <2>3. t \in Nat /\ u \in Nat
    BY <2>2, PhotoConstants
  <2>4. {t, u} \in SUBSET {x \in Unused : x <= u}
    BY <2>1, <2>2, <2>3
  <2>5. Cardinality({t, u}) = 2
    <3>1. IsFiniteSet({t}) /\ Cardinality({t}) = 1 /\ u \notin {t}
      BY <2>1, <2>3, FS_Singleton
    <3>2. Cardinality({t} \cup {u}) = 2
      BY <3>1, FS_AddElement
    <3>3. {t} \cup {u} = {t, u}
      OBVIOUS
    <3>4. QED
      BY <3>2, <3>3
  <2>6. QED
    BY <2>2, <2>4, <2>5, UnusedUpTo
<1>2. \A t, u \in FirstUnused(1) : t = u
  BY <1>1, PhotoConstants DEF FirstUnused, Unused
<1>3. QED
  BY <1>2

LEMMA PlacesForTwo ==
  \E a, b : a # b /\ FirstUnused(2) \subseteq {a, b}
<1>1. \A t, u, v \in FirstUnused(2) : ~(t < u /\ u < v)
  <2>1. SUFFICES ASSUME NEW t \in FirstUnused(2), NEW u \in FirstUnused(2),
                        NEW v \in FirstUnused(2), t < u, u < v
                 PROVE  FALSE
    OBVIOUS
  <2>2. /\ t \in Tasks /\ u \in Tasks /\ v \in Tasks
        /\ t \in Unused /\ u \in Unused /\ v \in Unused
        /\ Cardinality({x \in Unused : x <= v}) <= 2
    BY <2>1 DEF FirstUnused, Unused
  <2>3. t \in Nat /\ u \in Nat /\ v \in Nat
    BY <2>2, PhotoConstants
  <2>4. {t, u, v} \in SUBSET {x \in Unused : x <= v}
    BY <2>1, <2>2, <2>3
  <2>5. Cardinality({t, u, v}) = 3
    <3>1. IsFiniteSet({t}) /\ Cardinality({t}) = 1 /\ u \notin {t}
      BY <2>1, <2>3, FS_Singleton
    <3>2. IsFiniteSet({t} \cup {u}) /\ Cardinality({t} \cup {u}) = 2
      BY <3>1, FS_AddElement
    <3>3. v \notin {t} \cup {u}
      BY <2>1, <2>3
    <3>4. Cardinality(({t} \cup {u}) \cup {v}) = 3
      BY <3>2, <3>3, FS_AddElement
    <3>5. ({t} \cup {u}) \cup {v} = {t, u, v}
      OBVIOUS
    <3>6. QED
      BY <3>4, <3>5
  <2>6. QED
    BY <2>2, <2>4, <2>5, UnusedUpTo
<1>2. FirstUnused(2) \subseteq Nat
  BY PhotoConstants DEF FirstUnused, Unused
<1>3. \A t, u, v \in FirstUnused(2) : t = u \/ u = v \/ t = v
  <2> DEFINE F == FirstUnused(2)
  <2>1. F \subseteq Nat /\ \A t, u, v \in F : ~(t < u /\ u < v)
    BY <1>1, <1>2
  <2> HIDE DEF F
  <2>2. \A t, u, v \in F : t = u \/ u = v \/ t = v
    <3>1. SUFFICES ASSUME NEW t \in F, NEW u \in F, NEW v \in F,
                          t # u, u # v, t # v
                   PROVE  FALSE
      OBVIOUS
    <3>2. t \in Nat /\ u \in Nat /\ v \in Nat
      BY <2>1
    <3>3. /\ ~(t < u /\ u < v) /\ ~(t < v /\ v < u) /\ ~(u < t /\ t < v)
          /\ ~(u < v /\ v < t) /\ ~(v < t /\ t < u) /\ ~(v < u /\ u < t)
      BY <2>1
    <3>4. QED
      BY <3>1, <3>2, <3>3
  <2>3. QED
    BY <2>2 DEF F
<1>4. CASE FirstUnused(2) = {}
  <2>1. FirstUnused(2) \subseteq {0, 1} /\ 0 # 1
    BY <1>4
  <2>2. QED
    BY <2>1
<1>5. ASSUME NEW a \in FirstUnused(2)
      PROVE  \E x, y : x # y /\ FirstUnused(2) \subseteq {x, y}
  <2>1. CASE FirstUnused(2) \subseteq {a}
    <3>1. FirstUnused(2) \subseteq {a, a + 1} /\ a # a + 1
      BY <2>1, <1>2, <1>5
    <3>2. QED
      BY <3>1
  <2>2. ASSUME NEW b \in FirstUnused(2), b # a
        PROVE  \E x, y : x # y /\ FirstUnused(2) \subseteq {x, y}
    <3>1. FirstUnused(2) \subseteq {a, b}
      BY <1>3, <2>2
    <3>2. QED
      BY <3>1, <2>2
  <2>3. QED
    BY <2>1, <2>2
<1>6. QED
  BY <1>4, <1>5

LEMMA RunsFinite ==
  ASSUME NEW m
  PROVE  /\ IsFiniteSet(May(m)) /\ Cardinality(May(m)) \in Nat
         /\ IsFiniteSet(Retried(m)) /\ Cardinality(Retried(m)) \in Nat
<1>1. May(m) \in SUBSET Tasks /\ Retried(m) \in SUBSET Tasks
  BY DEF May, Retried, RunsOf
<1>2. QED
  BY <1>1, PhotoConstants, FS_Subset, FS_CardinalityType

LEMMA OneMore ==
  ASSUME NEW S, NEW x, IsFiniteSet(S)
  PROVE  /\ IsFiniteSet(S \cup {x})
         /\ Cardinality(S) \in Nat /\ Cardinality(S \cup {x}) \in Nat
         /\ Cardinality(S \cup {x}) <= Cardinality(S) + 1
<1>1. IsFiniteSet(S \cup {x})
  BY FS_AddElement
<1>2. Cardinality(S) \in Nat /\ Cardinality(S \cup {x}) \in Nat
  BY <1>1, FS_CardinalityType
<1>3. Cardinality(S \cup {x}) = IF x \in S THEN Cardinality(S) ELSE Cardinality(S) + 1
  BY FS_AddElement
<1>4. QED
  BY <1>1, <1>2, <1>3

\* The copies of a run t that is retried: k of them at most, in place of t when
\* it stored no quote, or beside it.
LEMMA ShareArithmetic ==
  ASSUME NEW May0, NEW May1, NEW Ret0, NEW Ret1, NEW t, NEW a, NEW b,
         IsFiniteSet(May0), IsFiniteSet(Ret0),
         Cardinality(May0) <= 1 + Cardinality(Ret0),
         t \notin Ret0, Ret1 = Ret0 \cup {t},
         \/ May1 \subseteq May0 \cup {a}
         \/ t \in May0 /\ May1 \subseteq (May0 \ {t}) \cup {a, b}
  PROVE  Cardinality(May1) <= 1 + Cardinality(Ret1)
<1>1. /\ Cardinality(Ret1) = Cardinality(Ret0) + 1
      /\ Cardinality(Ret0) \in Nat /\ Cardinality(May0) \in Nat
  BY FS_AddElement, FS_CardinalityType
<1>2. CASE May1 \subseteq May0 \cup {a}
  <2>1. /\ IsFiniteSet(May0 \cup {a})
        /\ Cardinality(May0 \cup {a}) <= Cardinality(May0) + 1
        /\ Cardinality(May0 \cup {a}) \in Nat
    BY OneMore
  <2>2. May1 \in SUBSET (May0 \cup {a})
    BY <1>2
  <2>3. IsFiniteSet(May1) /\ Cardinality(May1) <= Cardinality(May0 \cup {a})
    BY <2>1, <2>2, FS_Subset
  <2>4. QED
    BY <1>1, <2>1, <2>3, FS_CardinalityType
<1>3. CASE t \in May0 /\ May1 \subseteq (May0 \ {t}) \cup {a, b}
  <2> DEFINE A == (May0 \ {t}) \cup {a}
             B == A \cup {b}
  <2>1. /\ IsFiniteSet(May0 \ {t})
        /\ Cardinality(May0 \ {t}) = Cardinality(May0) - 1
        /\ Cardinality(May0 \ {t}) \in Nat
    BY <1>3, FS_RemoveElement, FS_CardinalityType
  <2>2. IsFiniteSet(A) /\ Cardinality(A) <= Cardinality(May0) /\ Cardinality(A) \in Nat
    <3>1. IsFiniteSet(A) /\ Cardinality(A) <= Cardinality(May0 \ {t}) + 1
          /\ Cardinality(A) \in Nat
      BY <2>1, OneMore
    <3> HIDE DEF A
    <3>2. QED
      BY <3>1, <2>1, <1>1
  <2>3. May1 \in SUBSET B
    BY <1>3
  <2> HIDE DEF A
  <2>4. /\ IsFiniteSet(B) /\ Cardinality(B) <= Cardinality(May0) + 1
        /\ Cardinality(B) \in Nat
    <3>1. IsFiniteSet(B) /\ Cardinality(B) <= Cardinality(A) + 1
          /\ Cardinality(B) \in Nat
      BY <2>2, OneMore
    <3> HIDE DEF B
    <3>2. QED
      BY <3>1, <2>2, <1>1
  <2> HIDE DEF B
  <2>5. IsFiniteSet(May1) /\ Cardinality(May1) <= Cardinality(B)
    BY <2>3, <2>4, FS_Subset
  <2>6. QED
    BY <1>1, <2>4, <2>5, FS_CardinalityType
<1>4. QED
  BY <1>2, <1>3

\* Steps that publish nothing leave a message no more runs than it had.
LEMMA SharesStay ==
  ASSUME ShareInv,
         \A m \in Messages : hook'[m].pc # "closed" => hook[m].pc # "closed",
         \A m \in Messages : May(m)' \subseteq May(m) /\ Retried(m)' = Retried(m),
         \A t \in Tasks : task'[t].pc # "unused"
            => task[t].pc # "unused" /\ task'[t].msg = task[t].msg
  PROVE  ShareInv'
<1>1. DelayedOnce'
  BY DEF ShareInv, DelayedOnce
<1>2. ASSUME NEW m \in Messages
      PROVE  Cardinality(May(m)') <= 1 + Cardinality(Retried(m)')
  <2>1. Cardinality(May(m)) <= 1 + Cardinality(Retried(m))
    BY DEF ShareInv
  <2>2. IsFiniteSet(May(m)) /\ Cardinality(May(m)) \in Nat
        /\ Cardinality(Retried(m)) \in Nat
    BY RunsFinite
  <2>3. /\ IsFiniteSet(May(m)') /\ Cardinality(May(m)') \in Nat
        /\ Cardinality(May(m)') <= Cardinality(May(m))
    <3>1. May(m)' \in SUBSET May(m)
      OBVIOUS
    <3>2. QED
      BY <3>1, <2>2, FS_Subset, FS_CardinalityType
  <2>4. QED
    BY <2>1, <2>2, <2>3
<1>3. QED
  BY <1>1, <1>2 DEF ShareInv

LEMMA HooksClose ==
  ASSUME TypeOK, NEW m \in Messages, HookStep(m)
  PROVE  /\ hook[m].pc # "closed"
         /\ \A x \in Messages : x # m => hook'[x] = hook[x]
         /\ Delay(m) => hook'[m].pc = "closed"
<1>1. hook[m].pc # "closed"
  BY DEF HookStep, Receive, CreateConversation, SetTrade, StageTrade, AddPhotos,
    StagePhotos, Delay, Accept, StageBooked, Answer, HookDies
<1>2. hook \in [Messages -> Hooks]
  BY Types
<1>3. HookEnds(m) => \A x \in Messages : x # m => hook'[x] = hook[x]
  BY <1>2 DEF HookEnds
<1>4. \A pc : HookGoes(m, pc) => \A x \in Messages : x # m => hook'[x] = hook[x]
  BY <1>2 DEF HookGoes
<1>5. \A x \in Messages : x # m => hook'[x] = hook[x]
  <2>1. CASE \E kind \in Kinds.sms \cup Kinds.email : Receive(m, kind)
    BY <2>1, <1>2 DEF Receive
  <2>2. CASE CreateConversation(m)
    BY <2>2, <1>2, <1>3 DEF CreateConversation
  <2>3. CASE SetTrade(m) \/ StageTrade(m) \/ AddPhotos(m) \/ StagePhotos(m) \/ Delay(m)
    BY <2>3, <1>3, <1>4 DEF SetTrade, StageTrade, AddPhotos, StagePhotos, Delay
  <2>4. CASE Accept(m) \/ StageBooked(m) \/ Answer(m) \/ HookDies(m)
    BY <2>4, <1>3, <1>4 DEF Accept, StageBooked, Answer, HookDies
  <2>5. QED
    BY <2>1, <2>2, <2>3, <2>4 DEF HookStep
<1>6. Delay(m) => hook'[m].pc = "closed"
  BY <1>2 DEF Delay, HookEnds, ClosedHook, NoHook
<1>7. QED
  BY <1>1, <1>5, <1>6

LEMMA DelayShares ==
  ASSUME TypeOK, ShareInv, NEW m \in Messages, HookStep(m), Delay(m)
  PROVE  ShareInv'
<1>1. \A t \in Tasks : ~(task[t].pc # "unused" /\ task[t].msg = m)
  BY HooksClose DEF ShareInv, DelayedOnce
<1>2. DelayedOnce'
  <2>1. SUFFICES ASSUME NEW x \in Messages, NEW t \in Tasks, hook'[x].pc # "closed",
                        task'[t].pc # "unused", task'[t].msg = x
                 PROVE  FALSE
    BY DEF DelayedOnce
  <2>2. x # m /\ hook[x].pc # "closed"
    BY <2>1, HooksClose
  <2>3. t \notin FirstUnused(1) /\ task'[t] = task[t]
    BY <2>1, <2>2, DelayEffect
  <2>4. QED
    BY <2>1, <2>2, <2>3 DEF ShareInv, DelayedOnce
<1>3. ASSUME NEW x \in Messages
      PROVE  Cardinality(May(x)') <= 1 + Cardinality(Retried(x)')
  <2>1. IsFiniteSet(May(x)') /\ Cardinality(May(x)') \in Nat
        /\ Cardinality(Retried(x)') \in Nat
    <3>1. May(x)' \in SUBSET Tasks /\ Retried(x)' \in SUBSET Tasks
      BY DEF May, Retried, RunsOf
    <3>2. QED
      BY <3>1, PhotoConstants, FS_Subset, FS_CardinalityType
  <2>2. CASE x = m
    <3>1. PICK a : FirstUnused(1) \subseteq {a}
      BY PlacesForOne
    <3>2. May(x)' \in SUBSET {a}
      BY <3>1, <2>2, <1>1, DelayEffect DEF May
    <3>3. Cardinality(May(x)') <= 1
      <4> DEFINE M == May(x)'
      <4>1. IsFiniteSet({a}) /\ Cardinality({a}) = 1 /\ M \in SUBSET {a}
        BY <3>2, FS_Singleton
      <4> HIDE DEF M
      <4>2. Cardinality(M) <= 1
        BY <4>1, FS_Subset
      <4>3. QED
        BY <4>2 DEF M
    <3>4. QED
      BY <2>1, <3>3
  <2>3. CASE x # m
    <3>1. May(x)' \in SUBSET May(x) /\ Retried(x)' = Retried(x)
      <4>1. \A t \in Tasks : /\ task'[t].pc # "unused" /\ task'[t].msg = x
                             => task'[t] = task[t]
        BY <2>3, DelayEffect
      <4>2. May(x)' \in SUBSET May(x)
        BY <4>1, HookEffect DEF May
      <4>3. Retried(x)' \subseteq Retried(x)
        BY <4>1 DEF Retried, RunsOf
      <4>4. Retried(x) \subseteq Retried(x)'
        BY DelayEffect DEF Retried, RunsOf
      <4>5. QED
        BY <4>2, <4>3, <4>4
    <3>2. Cardinality(May(x)') <= Cardinality(May(x))
      BY <3>1, RunsFinite, FS_Subset
    <3>3. Cardinality(May(x)) <= 1 + Cardinality(Retried(x))
      BY DEF ShareInv
    <3>4. QED
      BY <2>1, <3>1, <3>2, <3>3, RunsFinite
  <2>4. QED
    BY <2>2, <2>3
<1>4. QED
  BY <1>2, <1>3 DEF ShareInv

LEMMA RetryShares ==
  ASSUME TypeOK, QuotesArePriced, ShareInv, NEW t \in Tasks,
         hook' = hook, Stored' = Stored, task[t].pc \in Active,
         \/ Republish(t, 1)
         \/ Republish(t, 2) /\ task[t].pc = "queued"
  PROVE  ShareInv'
<1>1. task[t].pc \notin {"unused", "retried"}
  BY DEF Active, RunPCs
<1>2. PICK n \in {1, 2} : Republish(t, n) /\ (n = 2 => task[t].pc = "queued")
  OBVIOUS
<1> DEFINE P == FirstUnused(n)
<1>3. /\ task'[t].pc = "retried" /\ task'[t].msg = task[t].msg /\ t \notin P
      /\ \A u \in P :
            /\ u \in Tasks /\ task[u].pc = "unused"
            /\ task'[u].pc = "queued" /\ task'[u].msg = task[t].msg
      /\ \A u \in Tasks : u # t /\ u \notin P => task'[u] = task[u]
  BY <1>1, <1>2, RepublishEffect
<1>4. \E a, b : P \subseteq {a, b} /\ (n = 1 => a = b)
  <2>1. CASE n = 1
    BY <2>1, PlacesForOne
  <2>2. CASE n = 2
    BY <2>2, PlacesForTwo
  <2>3. QED
    BY <1>2, <2>1, <2>2
<1> HIDE DEF P
<1>5. DelayedOnce'
  <2>1. SUFFICES ASSUME NEW x \in Messages, NEW u \in Tasks, hook'[x].pc # "closed",
                        task'[u].pc # "unused", task'[u].msg = x
                 PROVE  FALSE
    BY DEF DelayedOnce
  <2>2. \E v \in Tasks : task[v].pc # "unused" /\ task[v].msg = x
    BY <1>1, <1>3, <2>1
  <2>3. QED
    BY <2>1, <2>2 DEF ShareInv, DelayedOnce
<1>6. ASSUME NEW x \in Messages, x # task[t].msg
      PROVE  May(x)' = May(x) /\ Retried(x)' = Retried(x)
  <2>1. \A u \in Tasks : /\ task'[u].msg = x => u # t /\ u \notin P /\ task'[u] = task[u]
                         /\ task[u].msg = x => u # t
                         /\ u \in P => u \notin May(x) /\ u \notin Retried(x)
    BY <1>3, <1>6 DEF May, Retried
  <2>2. May(x)' = May(x)
    BY <2>1, <1>3 DEF May
  <2>3. Retried(x)' = Retried(x)
    BY <2>1, <1>3 DEF Retried, RunsOf
  <2>4. QED
    BY <2>2, <2>3
<1>7. ASSUME NEW x \in Messages, x = task[t].msg
      PROVE  Cardinality(May(x)') <= 1 + Cardinality(Retried(x)')
  <2>1. t \in May(x) /\ t \notin Retried(x)
    BY <1>1, <1>7 DEF May, Retried
  <2>2. Retried(x)' = Retried(x) \cup {t}
    <3>1. \A u \in Tasks : u \in P => u \notin Retried(x) /\ u \notin Retried(x)'
      BY <1>3 DEF Retried, RunsOf
    <3>2. QED
      BY <3>1, <1>3, <1>7 DEF Retried, RunsOf
  <2>3. May(x)' \subseteq May(x) \cup P
    BY <2>1, <1>3 DEF May
  <2>4. n = 2 => t \notin May(x)'
    BY <1>2, <1>3 DEF May, QuotesArePriced
  <2>5. PICK a, b : P \subseteq {a, b} /\ (n = 1 => a = b)
    BY <1>4
  <2>6. \/ May(x)' \subseteq May(x) \cup {a}
        \/ t \in May(x) /\ May(x)' \subseteq (May(x) \ {t}) \cup {a, b}
    BY <2>1, <2>3, <2>4, <2>5, <1>2
  <2>7. IsFiniteSet(May(x)) /\ IsFiniteSet(Retried(x))
        /\ Cardinality(May(x)) <= 1 + Cardinality(Retried(x))
    BY RunsFinite DEF ShareInv
  <2> DEFINE M0 == May(x)
             M1 == May(x)'
             R0 == Retried(x)
             R1 == Retried(x)'
  <2>8. /\ IsFiniteSet(M0) /\ IsFiniteSet(R0) /\ Cardinality(M0) <= 1 + Cardinality(R0)
        /\ t \notin R0 /\ R1 = R0 \cup {t}
        /\ \/ M1 \subseteq M0 \cup {a}
           \/ t \in M0 /\ M1 \subseteq (M0 \ {t}) \cup {a, b}
    BY <2>1, <2>2, <2>6, <2>7
  <2> HIDE DEF M0, M1, R0, R1
  <2>9. Cardinality(M1) <= 1 + Cardinality(R1)
    BY <2>8, ShareArithmetic
  <2>10. QED
    BY <2>9 DEF M1, R1
<1>8. QED
  BY <1>5, <1>6, <1>7 DEF ShareInv

LEMMA ShareStep ==
  ASSUME TypeOK, QuotesArePriced, ShareInv, [Next]_vars
  PROVE  ShareInv'
<1>1. ASSUME NEW m \in Messages, HookStep(m)
      PROVE  ShareInv'
  <2>1. CASE task' = task
    <3>1. \A x \in Messages : May(x)' \subseteq May(x) /\ Retried(x)' = Retried(x)
      BY <2>1, <1>1, HookEffect DEF May, Retried, RunsOf
    <3>2. \A x \in Messages : hook'[x].pc # "closed" => hook[x].pc # "closed"
      BY <1>1, HooksClose
    <3>3. QED
      BY <2>1, <3>1, <3>2, SharesStay
  <2>2. QED
    BY <2>1, <1>1, HookEffect, DelayShares
<1>2. ASSUME NEW t \in Tasks,
             Meter(t) \/ Price(t) \/ Attach(t) \/ StageQuote(t) \/ RunEnds(t),
             hook' = hook, Stored' \subseteq Stored \cup {t},
             task[t].pc \in Active
      PROVE  ShareInv'
  <2>1. /\ task[t].pc \notin {"unused", "retried"} /\ task'[t].pc \notin {"unused", "retried"}
        /\ task'[t].msg = task[t].msg
        /\ \A u \in Tasks \ {t} : task'[u] = task[u]
    BY <1>2, MeterEffect, PriceEffect, WriteEffect, EndEffect DEF Active, RunPCs
  <2>2. \A x \in Messages : May(x)' \subseteq May(x)
    BY <2>1, <1>2 DEF May
  <2>3. \A x \in Messages : Retried(x)' = Retried(x)
    BY <2>1 DEF Retried, RunsOf
  <2>4. QED
    BY <2>1, <2>2, <2>3, <1>2, SharesStay
<1>3. ASSUME NEW t \in Tasks, Meter(t) \/ Price(t) \/ Attach(t) \/ StageQuote(t)
      PROVE  ShareInv'
  <2>1. hook' = hook
    BY <1>3 DEF Meter, Price, Attach, StageQuote
  <2>2. Stored' \subseteq Stored \cup {t}
    <3>1. CASE Meter(t)
      BY <3>1 DEF Meter, Stored
    <3>2. QED
      BY <1>3, <3>1, PriceEffect, WriteEffect
  <2>3. task[t].pc \in Active
    BY <1>3 DEF Meter, Price, Attach, StageQuote, Active, RunPCs
  <2>4. QED
    BY <2>1, <2>2, <2>3, <1>2, <1>3
<1>4. ASSUME NEW t \in Tasks, Notify(t) \/ NoPhotos(t) \/ Breaks(t) \/ Dies(t)
      PROVE  ShareInv'
  BY <1>4, <1>2, EndsEffect, RetryShares
<1>5. CASE \/ UNCHANGED vars
           \/ RegisterChannel \/ DeactivateChannel \/ DailyFollowUps \/ SendFollowUp
           \/ \E c \in Clerks : ClerkStep(c)
  <2>1. task' = task /\ hook' = hook /\ Stored' = Stored
    BY <1>5, OtherEffect
  <2>2. \A x \in Messages : May(x)' \subseteq May(x) /\ Retried(x)' = Retried(x)
    BY <2>1 DEF May, Retried, RunsOf
  <2>3. QED
    BY <2>1, <2>2, SharesStay
<1>6. QED
  BY <1>1, <1>3, <1>4, <1>5, Kinds5

-----------------------------------------------------------------------------
(* Retries: no more quotes than the branches of a tree of depth MaxRetries. *)

\* Steps that publish nothing leave every run within its branches.
LEMMA KeyStays ==
  ASSUME NEW key \in Keys, Keyed(key),
         \A t \in Tasks :
            /\ task'[t].pc \in Active => key[t] \subseteq 1 .. task'[t].retries
            /\ Branches(key, t)' \subseteq Branches(key, t)
            /\ task'[t].msg = task[t].msg
  PROVE  KeyInv'
<1>1. ASSUME NEW t \in Tasks, NEW u \in Tasks, t # u, task'[t].msg = task'[u].msg
      PROVE  Branches(key, t)' \cap Branches(key, u)' = {}
  <2>1. Branches(key, t) \cap Branches(key, u) = {}
    BY <1>1 DEF Keyed
  <2>2. QED
    BY <2>1
<1>2. Keyed(key)'
  BY <1>1 DEF Keyed
<1>3. QED
  BY <1>2 DEF KeyInv

\* The cases a run's branches come in.
LEMMA BranchCases ==
  ASSUME NEW key \in Keys, NEW t \in Tasks
  PROVE  /\ task[t].pc \in Active =>
               Branches(key, t) = Below(key[t], task[t].retries)
         /\ task[t].pc \in Active => key[t] \in Branches(key, t)
         /\ task[t].pc \notin Active /\ t \in Stored => Branches(key, t) = {key[t]}
         /\ task[t].pc \notin Active /\ t \notin Stored => Branches(key, t) = {}
<1>1. key[t] \in Below(key[t], task[t].retries)
  <2>1. {} \in SUBSET ((task[t].retries + 1) .. MaxRetries) /\ key[t] = key[t] \cup {}
    OBVIOUS
  <2>2. QED
    BY <2>1 DEF Below
<1>2. QED
  BY <1>1 DEF Branches

LEMMA BranchCasesNext ==
  ASSUME NEW key \in Keys, NEW t \in Tasks
  PROVE  /\ task'[t].pc \in Active =>
               Branches(key, t)' = Below(key[t], task'[t].retries)
         /\ task'[t].pc \notin Active /\ t \in Stored' => Branches(key, t)' = {key[t]}
         /\ task'[t].pc \notin Active /\ t \notin Stored' => Branches(key, t)' = {}
BY DEF Branches

LEMMA DelayKeys ==
  ASSUME TypeOK, QuotesArePriced, ShareInv, NEW m \in Messages, HookStep(m), Delay(m),
         NEW key \in Keys, Keyed(key)
  PROVE  KeyInv'
<1>1. \A t \in Tasks : ~(task[t].pc # "unused" /\ task[t].msg = m)
  BY HooksClose DEF ShareInv, DelayedOnce
<1> DEFINE P == FirstUnused(1)
<1>2. PICK a : P \subseteq {a}
  BY PlacesForOne
<1>3. /\ \A u \in P : /\ u \in Tasks /\ task[u].pc = "unused"
                      /\ task'[u].pc = "queued" /\ task'[u].msg = m
                      /\ task'[u].retries = 0
      /\ \A u \in Tasks : u \notin P => task'[u] = task[u]
  BY DelayEffect
<1> HIDE DEF P
<1>4. Stored' = Stored
  BY HookEffect
<1>5. PICK new \in Keys : new = [u \in Tasks |-> IF u \in P THEN {} ELSE key[u]]
  <2>1. [u \in Tasks |-> IF u \in P THEN {} ELSE key[u]] \in Keys
    BY DEF Keys
  <2>2. QED
    BY <2>1
<1>6. \A u \in Tasks : u \notin P => new[u] = key[u] /\ Branches(new, u)' = Branches(key, u)
  BY <1>3, <1>4, <1>5 DEF Branches
<1>7. \A u \in P : new[u] = {}
  BY <1>3, <1>5
<1>8. \A t \in Tasks : task'[t].pc \in Active => new[t] \subseteq 1 .. task'[t].retries
  BY <1>3, <1>6, <1>7 DEF Keyed
<1>9. \A u \in Tasks : u \notin P /\ task'[u].msg = m => Branches(new, u)' = {}
  <2>1. SUFFICES ASSUME NEW u \in Tasks, u \notin P, task'[u].msg = m
                 PROVE  Branches(key, u) = {}
    BY <1>6
  <2>2. task[u].pc = "unused"
    BY <2>1, <1>1, <1>3
  <2>3. u \notin Stored /\ task[u].pc \notin Active
    BY <2>2 DEF QuotesArePriced, Active, RunPCs
  <2>4. QED
    BY <2>3, BranchCases
<1>10. ASSUME NEW t \in Tasks, NEW u \in Tasks, t # u, task'[t].msg = task'[u].msg
       PROVE  Branches(new, t)' \cap Branches(new, u)' = {}
  <2>1. CASE t \in P
    <3>1. u \notin P /\ task'[u].msg = m
      BY <1>2, <1>3, <1>10, <2>1
    <3>2. QED
      BY <3>1, <1>9
  <2>2. CASE u \in P
    <3>1. t \notin P /\ task'[t].msg = m
      BY <1>2, <1>3, <1>10, <2>2
    <3>2. QED
      BY <3>1, <1>9
  <2>3. CASE t \notin P /\ u \notin P
    <3>1. task[t].msg = task[u].msg
      BY <2>3, <1>3, <1>10
    <3>2. Branches(key, t) \cap Branches(key, u) = {}
      BY <3>1, <1>10 DEF Keyed
    <3>3. QED
      BY <3>2, <2>3, <1>6
  <2>4. QED
    BY <2>1, <2>2, <2>3
<1>11. Keyed(new)'
  BY <1>8, <1>10 DEF Keyed
<1>12. QED
  BY <1>5, <1>11 DEF KeyInv

\* One half of a run's branches turn at the next level, the others do not.
LEMMA Halves ==
  ASSUME NEW K, NEW r \in Nat, K \subseteq 1 .. r, r + 1 <= MaxRetries
  PROVE  /\ \A Z \in Below(K \cup {r + 1}, r + 1) : r + 1 \in Z /\ Z \in Below(K, r)
         /\ \A Z \in Below(K, r + 1) : r + 1 \notin Z /\ Z \in Below(K, r)
         /\ r + 1 \notin K /\ K \in Below(K, r)
<1>1. r + 1 \notin K
  OBVIOUS
<1>2. ASSUME NEW X \in SUBSET ((r + 1 + 1) .. MaxRetries)
      PROVE  /\ r + 1 \notin K \cup X
             /\ X \in SUBSET ((r + 1) .. MaxRetries)
             /\ {r + 1} \cup X \in SUBSET ((r + 1) .. MaxRetries)
  BY <1>1, PhotoConstants
<1>3. ASSUME NEW X \in SUBSET ((r + 1 + 1) .. MaxRetries)
      PROVE  (K \cup {r + 1}) \cup X \in Below(K, r)
  <2>1. (K \cup {r + 1}) \cup X = K \cup ({r + 1} \cup X)
    OBVIOUS
  <2>2. QED
    BY <2>1, <1>2 DEF Below
<1>4. K \in Below(K, r)
  <2>1. {} \in SUBSET ((r + 1) .. MaxRetries) /\ K = K \cup {}
    OBVIOUS
  <2>2. QED
    BY <2>1 DEF Below
<1>5. ASSUME NEW Z \in Below(K \cup {r + 1}, r + 1)
      PROVE  r + 1 \in Z /\ Z \in Below(K, r)
  <2>1. PICK X \in SUBSET ((r + 1 + 1) .. MaxRetries) : Z = (K \cup {r + 1}) \cup X
    BY <1>5 DEF Below
  <2>2. QED
    BY <2>1, <1>3
<1>6. ASSUME NEW Z \in Below(K, r + 1)
      PROVE  r + 1 \notin Z /\ Z \in Below(K, r)
  <2>1. PICK X \in SUBSET ((r + 1 + 1) .. MaxRetries) : Z = K \cup X
    BY <1>6 DEF Below
  <2>2. QED
    BY <2>1, <1>2 DEF Below
<1>7. QED
  BY <1>1, <1>4, <1>5, <1>6

LEMMA RetryKeys ==
  ASSUME TypeOK, QuotesArePriced, NEW t \in Tasks,
         Stored' = Stored, task[t].pc \in Active, task[t].retries < MaxRetries,
         \/ Republish(t, 1)
         \/ Republish(t, 2) /\ task[t].pc = "queued",
         NEW key \in Keys, Keyed(key)
  PROVE  KeyInv'
<1>1. task[t].pc \notin {"unused", "retried"}
  BY DEF Active, RunPCs
<1>2. PICK n \in {1, 2} : Republish(t, n) /\ (n = 2 => task[t].pc = "queued")
  OBVIOUS
<1> DEFINE P == FirstUnused(n)
           r == task[t].retries
<1>3. /\ task'[t].pc = "retried" /\ task'[t].msg = task[t].msg /\ t \notin P
      /\ \A u \in P :
            /\ u \in Tasks /\ task[u].pc = "unused"
            /\ task'[u].pc = "queued" /\ task'[u].msg = task[t].msg
            /\ task'[u].retries = r + 1
      /\ \A u \in Tasks : u # t /\ u \notin P => task'[u] = task[u]
  BY <1>1, <1>2, RepublishEffect
<1>4. PICK a, b : P \subseteq {a, b} /\ (n = 1 => a = b)
  <2>1. CASE n = 1
    BY <2>1, PlacesForOne
  <2>2. CASE n = 2
    BY <2>2, PlacesForTwo
  <2>3. QED
    BY <1>2, <2>1, <2>2
<1>5. r \in Nat /\ r + 1 \in 1 .. MaxRetries /\ r + 1 <= MaxRetries
  BY Types, PhotoConstants DEF TaskRows
<1>6. key[t] \subseteq 1 .. r /\ key[t] \subseteq 1 .. MaxRetries
  BY DEF Keyed, Keys
<1> HIDE DEF P
<1> DEFINE turned == key[t] \cup {r + 1}
<1>7. turned \subseteq 1 .. (r + 1) /\ turned \subseteq 1 .. MaxRetries
      /\ key[t] \subseteq 1 .. (r + 1)
  BY <1>5, <1>6
<1>8. PICK new \in Keys :
        new = [u \in Tasks |-> IF u \in P THEN (IF u = a THEN turned ELSE key[t])
                               ELSE key[u]]
  <2> DEFINE f == [u \in Tasks |-> IF u \in P THEN (IF u = a THEN turned ELSE key[t])
                                   ELSE key[u]]
  <2> HIDE DEF turned
  <2>1. f \in Keys
    BY <1>6, <1>7 DEF Keys
  <2>2. QED
    BY <2>1
<1>9. /\ \A u \in Tasks : u \notin P => new[u] = key[u]
      /\ \A u \in P : new[u] = IF u = a THEN turned ELSE key[t]
  BY <1>3, <1>8
<1>10. \A u \in Tasks : task'[u].pc \in Active => new[u] \subseteq 1 .. task'[u].retries
  <2>1. ASSUME NEW u \in Tasks, task'[u].pc \in Active
        PROVE  new[u] \subseteq 1 .. task'[u].retries
    <3>1. u # t
      BY <2>1, <1>3 DEF Active, RunPCs
    <3>2. CASE u \in P
      BY <3>2, <1>3, <1>7, <1>9
    <3>3. CASE u \notin P
      BY <3>1, <3>3, <2>1, <1>3, <1>9 DEF Keyed
    <3>4. QED
      BY <3>2, <3>3
  <2>2. QED
    BY <2>1
<1> DEFINE own == Below(key[t], r)
<1>11. Branches(key, t) = own /\ key[t] \in own
  BY BranchCases
\* what t and its copies keep of the branches t had
<1>12. \A u \in P : task'[u].pc \in Active /\ task'[u].retries = r + 1 /\ u \in Tasks
  BY <1>3 DEF Active
<1>13. \A u \in P : Branches(new, u)' = Below(new[u], r + 1)
  BY <1>8, <1>12, BranchCasesNext
<1>14. \A u \in P : \A Z \in Branches(new, u)' : Z \in own /\ (r + 1 \in Z <=> u = a)
  <2>1. /\ \A Z \in Below(turned, r + 1) : r + 1 \in Z /\ Z \in own
        /\ \A Z \in Below(key[t], r + 1) : r + 1 \notin Z /\ Z \in own
    BY <1>5, <1>6, Halves
  <2> HIDE DEF own, r, turned
  <2>2. QED
    BY <2>1, <1>9, <1>13
<1>15. /\ Branches(new, t)' \subseteq {key[t]}
       /\ n = 2 => Branches(new, t)' = {}
       /\ r + 1 \notin key[t]
  <2>1. task'[t].pc \notin Active
    BY <1>3 DEF Active, RunPCs
  <2>2. n = 2 => t \notin Stored
    BY <1>2 DEF QuotesArePriced
  <2>3. r + 1 \notin key[t]
    BY <1>5, <1>6, Halves
  <2>4. new[t] = key[t]
    BY <1>3, <1>9
  <2>5. QED
    BY <2>1, <2>2, <2>3, <2>4, <1>8, BranchCasesNext
<1> HIDE DEF own, r, turned
<1>16. \A u \in P \cup {t} : /\ Branches(new, u)' \subseteq Branches(key, t)
                             /\ task'[u].msg = task[t].msg
  BY <1>3, <1>11, <1>14, <1>15
<1>17. \A u \in Tasks : u \notin P \cup {t} =>
          Branches(new, u)' = Branches(key, u) /\ task'[u].msg = task[u].msg
  <2>1. SUFFICES ASSUME NEW u \in Tasks, u \notin P, u # t
                 PROVE  Branches(new, u)' = Branches(key, u) /\ task'[u].msg = task[u].msg
    OBVIOUS
  <2>2. task'[u] = task[u] /\ new[u] = key[u]
    BY <2>1, <1>3, <1>9
  <2>3. QED
    BY <2>2 DEF Branches
<1>18. ASSUME NEW u \in P \cup {t}, NEW v \in P \cup {t}, u # v
       PROVE  Branches(new, u)' \cap Branches(new, v)' = {}
  <2>1. CASE u \in P /\ v \in P
    BY <2>1, <1>4, <1>14, <1>18
  <2>2. ASSUME NEW x \in P
        PROVE  Branches(new, t)' \cap Branches(new, x)' = {}
    <3>1. CASE n = 2
      BY <3>1, <1>15
    <3>2. CASE n = 1
      <4>1. x = a
        BY <3>2, <2>2, <1>4
      <4>2. QED
        BY <4>1, <2>2, <1>14, <1>15
    <3>3. QED
      BY <3>1, <3>2, <1>2
  <2>3. QED
    BY <2>1, <2>2, <1>18
<1>19. ASSUME NEW u \in Tasks, NEW v \in Tasks, u # v, task'[u].msg = task'[v].msg
       PROVE  Branches(new, u)' \cap Branches(new, v)' = {}
  <2>1. CASE u \in P \cup {t} /\ v \in P \cup {t}
    BY <2>1, <1>18, <1>19
  <2>2. ASSUME NEW x \in P \cup {t}, NEW y \in Tasks, y \notin P \cup {t},
               task'[x].msg = task'[y].msg
        PROVE  Branches(new, x)' \cap Branches(new, y)' = {}
    <3>1. y # t /\ task[y].msg = task[t].msg
      BY <2>2, <1>16, <1>17
    <3>2. Branches(key, t) \cap Branches(key, y) = {}
      BY <3>1, <2>2 DEF Keyed
    <3>3. QED
      BY <3>2, <2>2, <1>16, <1>17
  <2>3. CASE u \notin P \cup {t} /\ v \notin P \cup {t}
    <3>1. task[u].msg = task[v].msg
      BY <2>3, <1>17, <1>19
    <3>2. Branches(key, u) \cap Branches(key, v) = {}
      BY <3>1, <1>19 DEF Keyed
    <3>3. QED
      BY <3>2, <2>3, <1>17
  <2>4. QED
    BY <2>1, <2>2, <2>3, <1>19
<1>20. Keyed(new)'
  BY <1>10, <1>19 DEF Keyed
<1>21. QED
  BY <1>8, <1>20 DEF KeyInv

\* A run that ends keeps at most the branch of the quote it made.
LEMMA EndKeys ==
  ASSUME NEW key \in Keys, NEW t \in Tasks, task[t].pc \in Active,
         task'[t].pc = "ended", Stored' = Stored
  PROVE  Branches(key, t)' \subseteq Branches(key, t)
<1>1. task'[t].pc \notin Active
  BY DEF Active, RunPCs
<1>2. Branches(key, t)' \subseteq {key[t]}
  BY <1>1, BranchCasesNext
<1>3. key[t] \in Branches(key, t)
  BY BranchCases
<1>4. QED
  BY <1>2, <1>3

LEMMA KeyStep ==
  ASSUME TypeOK, QuotesArePriced, ShareInv, KeyInv, [Next]_vars
  PROVE  KeyInv'
<1>1. PICK key \in Keys : Keyed(key)
  BY DEF KeyInv
<1>2. \A t \in Tasks : task[t].pc \in Active => key[t] \subseteq 1 .. task[t].retries
  BY <1>1 DEF Keyed
<1>3. ASSUME NEW m \in Messages, HookStep(m)
      PROVE  KeyInv'
  <2>1. CASE task' = task
    <3>1. \A t \in Tasks : Branches(key, t)' = Branches(key, t)
      BY <2>1, <1>3, HookEffect DEF Branches
    <3>2. QED
      BY <2>1, <3>1, <1>1, <1>2, KeyStays
  <2>2. QED
    BY <2>1, <1>1, <1>3, HookEffect, DelayKeys
<1>4. ASSUME NEW t \in Tasks, Meter(t) \/ Price(t) \/ Attach(t) \/ StageQuote(t)
      PROVE  KeyInv'
  <2>1. /\ task[t].pc \in Active /\ task'[t].pc \in Active
        /\ task'[t].msg = task[t].msg /\ task'[t].retries = task[t].retries
        /\ \A u \in Tasks \ {t} : task'[u] = task[u]
    BY <1>4, MeterEffect, PriceEffect, WriteEffect DEF Active, RunPCs
  <2>2. \A u \in Tasks \ {t} : u \in Stored' <=> u \in Stored
    <3>1. CASE Meter(t)
      BY <3>1 DEF Meter, Stored
    <3>2. QED
      BY <1>4, <3>1, PriceEffect, WriteEffect
  <2>3. \A u \in Tasks : Branches(key, u)' = Branches(key, u)
    <3>1. Branches(key, t)' = Branches(key, t)
      BY <2>1 DEF Branches
    <3>2. ASSUME NEW u \in Tasks \ {t}
          PROVE  Branches(key, u)' = Branches(key, u)
      <4>1. task'[u] = task[u] /\ (u \in Stored' <=> u \in Stored)
        BY <2>1, <2>2
      <4>2. QED
        BY <4>1 DEF Branches
    <3>3. QED
      BY <3>1, <3>2
  <2>4. QED
    BY <2>1, <2>3, <1>1, <1>2, KeyStays
<1>5. ASSUME NEW t \in Tasks, Notify(t) \/ NoPhotos(t) \/ Breaks(t) \/ Dies(t)
      PROVE  KeyInv'
  <2>1. CASE RunEnds(t)
    <3>1. /\ task'[t].pc = "ended" /\ task'[t].msg = task[t].msg
          /\ \A u \in Tasks \ {t} : task'[u] = task[u]
          /\ task[t].pc \in Active /\ Stored' = Stored /\ task'[t].pc \notin Active
      BY <2>1, <1>5, EndEffect, EndsEffect DEF Active, RunPCs
    <3>2. \A u \in Tasks : Branches(key, u)' \subseteq Branches(key, u)
      <4>1. Branches(key, t)' \subseteq Branches(key, t)
        BY <3>1, EndKeys
      <4>2. \A u \in Tasks \ {t} : Branches(key, u)' = Branches(key, u)
        BY <3>1 DEF Branches
      <4>3. QED
        BY <4>1, <4>2
    <3>3. QED
      BY <3>1, <3>2, <1>1, <1>2, KeyStays
  <2>2. QED
    BY <2>1, <1>1, <1>5, EndsEffect, RetryKeys
<1>6. CASE \/ UNCHANGED vars
           \/ RegisterChannel \/ DeactivateChannel \/ DailyFollowUps \/ SendFollowUp
           \/ \E c \in Clerks : ClerkStep(c)
  <2>1. task' = task /\ Stored' = Stored
    BY <1>6, OtherEffect
  <2>2. \A t \in Tasks : Branches(key, t)' = Branches(key, t)
    BY <2>1 DEF Branches
  <2>3. QED
    BY <2>1, <2>2, <1>1, <1>2, KeyStays
<1>7. QED
  BY <1>3, <1>4, <1>5, <1>6, Kinds5

-----------------------------------------------------------------------------
(* The theorems.                                                           *)

LEMMA PhotoStart ==
  ASSUME Init PROVE PhotoInv
<1>1. TypeOK
  BY TypeStart
<1>2. /\ \A t \in Tasks : task[t] = NoTask /\ quote[t] = NoQuote
      /\ \A c \in Clerks : clerk[c] = NoClerk
      /\ \A m \in Messages : hook[m] = NoHook
      /\ used = 0 /\ raced = {}
  BY DEF Init
<1>3. /\ Stored = {} /\ Closed = {} /\ Asking = {}
      /\ RunsCounting = {} /\ ClerksCounting = {}
  BY <1>2
  DEF Stored, Closed, Asking, RunsCounting, ClerksCounting, NoTask, NoQuote, NoClerk
<1>4. \A t \in Tasks : task[t].pc = "unused"
  BY <1>2 DEF NoTask
<1>5. QuotesArePriced
  BY <1>3, <1>4 DEF QuotesArePriced
<1>6. CountInv
  <2>1. IsFiniteSet(Closed) /\ All = 0
    BY <1>3, FS_EmptySet DEF All
  <2>2. QED
    BY <1>2, <1>3, <2>1 DEF CountInv
<1>7. StageInv
  <2>1. conv.quote = None /\ conv.stage \notin {"quote_sent", "booked"}
    <3>1. CASE conv = NoConversation
      BY <3>1, NewConversations
    <3>2. CASE conv = [Greeted EXCEPT !.trade = TRUE, !.stage = "trade_select"]
      BY <3>2, NewConversations DEF Conversation
    <3>3. QED
      BY <3>1, <3>2 DEF Init
  <2>2. ~conv.exists => conv = NoConversation
    <3>1. CASE conv = [Greeted EXCEPT !.trade = TRUE, !.stage = "trade_select"]
      BY <3>1, NewConversations DEF Conversation
    <3>2. QED
      BY <3>1 DEF Init
  <2>3. NoHook.pc = "idle" /\ NoHook.saw.quote = None
    BY NewConversations DEF NoHook
  <2>4. QED
    BY <1>2, <1>4, <2>1, <2>2, <2>3 DEF StageInv
<1>8. ShareInv
  <2>1. \A m \in Messages : May(m) = {} /\ Retried(m) = {}
    BY <1>4 DEF May, Retried, RunsOf
  <2>2. \A m \in Messages : Cardinality(May(m)) <= 1 + Cardinality(Retried(m))
    BY <2>1, FS_EmptySet
  <2>3. QED
    BY <1>4, <2>2 DEF ShareInv, DelayedOnce
<1>9. KeyInv
  <2>1. PICK key \in Keys : key = [t \in Tasks |-> {}]
    <3>1. [t \in Tasks |-> {}] \in Keys
      BY DEF Keys
    <3>2. QED
      BY <3>1
  <2>2. \A t \in Tasks : task[t].pc \notin Active /\ t \notin Stored
    BY <1>3, <1>4 DEF Active, RunPCs
  <2>3. \A t \in Tasks : Branches(key, t) = {}
    BY <2>2, BranchCases
  <2>4. Keyed(key)
    BY <2>2, <2>3 DEF Keyed
  <2>5. QED
    BY <2>4 DEF KeyInv
<1>10. QED
  BY <1>1, <1>5, <1>6, <1>7, <1>8, <1>9 DEF PhotoInv

LEMMA PhotoStep ==
  ASSUME PhotoInv, [Next]_vars
  PROVE  PhotoInv'
<1>1. TypeOK /\ QuotesArePriced /\ CountInv /\ StageInv /\ ShareInv /\ KeyInv
  BY DEF PhotoInv
<1>2. TypeOK' /\ QuotesArePriced' /\ CountInv'
  BY <1>1, TypeStep, PricedStep, CountStep
<1>3. StageInv' /\ ShareInv' /\ KeyInv'
  BY <1>1, StageStep, ShareStep, KeyStep
<1>4. QED
  BY <1>2, <1>3 DEF PhotoInv

LEMMA PhotoInvariant == Spec => []PhotoInv
<1>1. Init => PhotoInv
  BY PhotoStart
<1>2. PhotoInv /\ [Next]_vars => PhotoInv'
  BY PhotoStep
<1>3. QED
  BY <1>1, <1>2, PTL DEF Spec

\* record_quote_usage: the period's count is the number of quotes stored, and
\* where two sessions had loaded it at once it falls short and never exceeds it, for
\* every number of runs, clerks and retries.
THEOREM PhotoUsage == Spec => []UsageCountsQuotes
<1>1. PhotoInv => UsageCountsQuotes
  <2>1. ASSUME CountInv
        PROVE  UsageCountsQuotes
    BY <2>1 DEF CountInv, UsageCountsQuotes, All, Closed
  <2>2. QED
    BY <2>1 DEF PhotoInv
<1>2. QED
  BY <1>1, PhotoInvariant, PTL

\* check_quote_allowance, asked when the handler begins, still holds when its
\* quote is stored, unless another session counted in between.
THEOREM PhotoLimit == Spec => EmployeesKeepTheLimit
<1> DEFINE Kept == \A c \in Clerks :
             clerk[c].pc = "metering" /\ clerk'[c].pc = "closed" =>
                "tests" \in raced \/ used < Limit
<1>1. PhotoInv => Kept
  <2>1. SUFFICES ASSUME PhotoInv, NEW c \in Clerks, clerk[c].pc = "metering",
                        "tests" \notin raced
                 PROVE  used < Limit
    OBVIOUS
  <2>2. CountInv /\ c \in Asking
    BY <2>1 DEF PhotoInv, Asking
  <2>3. QED
    BY <2>1, <2>2 DEF CountInv
<1>2. PhotoInv /\ [Next]_vars => [Kept]_vars
  BY <1>1
<1>3. QED
  BY <1>2, PhotoInvariant, PTL DEF EmployeesKeepTheLimit, Spec

\* The conversation says "quote_sent" or "booked" only while it names a stored
\* quote, however webhooks and runs interleave.
THEOREM PhotoStages == Spec => []StagesPromiseAQuote
<1>1. PhotoInv => StagesPromiseAQuote
  BY DEF PhotoInv, StageInv, StagesPromiseAQuote
<1>2. QED
  BY <1>1, PhotoInvariant, PTL

LEMMA SharesBoundQuotes ==
  ASSUME QuotesArePriced, ShareInv, NEW m \in Messages
  PROVE  Cardinality(QuotesOf(m))
           <= 1 + Cardinality({t \in RunsOf(m) : task[t].pc = "retried"})
<1> DEFINE Q == QuotesOf(m)
           M == May(m)
           R == Retried(m)
<1>1. Q \in SUBSET M
  BY DEF QuotesOf, RunsOf, May, QuotesArePriced, Stored
<1>2. /\ IsFiniteSet(M) /\ Cardinality(M) \in Nat /\ Cardinality(R) \in Nat
      /\ Cardinality(M) <= 1 + Cardinality(R)
  BY RunsFinite DEF ShareInv
<1>3. R = {t \in RunsOf(m) : task[t].pc = "retried"}
  BY DEF Retried
<1> HIDE DEF Q, M, R
<1>4. Cardinality(Q) <= Cardinality(M) /\ Cardinality(Q) \in Nat
  BY <1>1, <1>2, FS_Subset, FS_CardinalityType
<1>5. Cardinality(Q) <= 1 + Cardinality(R)
  BY <1>2, <1>4
<1>6. QED
  BY <1>3, <1>5 DEF Q

\* The quotes of a message are on branches of their own.
LEMMA BranchesBoundQuotes ==
  ASSUME QuotesArePriced, KeyInv, NEW m \in Messages
  PROVE  Cardinality(QuotesOf(m)) <= 2 ^ MaxRetries
<1>1. PICK key \in Keys : Keyed(key)
  BY DEF KeyInv
<1> DEFINE Q == QuotesOf(m)
           T == SUBSET (1 .. MaxRetries)
<1>2. \A t \in Q : t \in Tasks /\ task[t].msg = m /\ t \in Stored
  BY DEF QuotesOf, RunsOf, Stored
<1>3. \A t \in Q : key[t] \in Branches(key, t) /\ key[t] \in T
  BY <1>2, BranchCases DEF Keys
<1>4. PICK f \in [Q -> T] : \A t \in Q : f[t] = key[t]
  <2>1. [t \in Q |-> key[t]] \in [Q -> T]
    BY <1>3
  <2>2. QED
    BY <2>1
<1>5. ASSUME NEW t \in Q, NEW u \in Q, f[t] = f[u]
      PROVE  t = u
  <2>1. t # u => Branches(key, t) \cap Branches(key, u) = {}
    BY <1>1, <1>2 DEF Keyed
  <2>2. QED
    BY <2>1, <1>3, <1>4, <1>5
<1>6. f \in Injection(Q, T)
  BY <1>4, <1>5 DEF Injection, IsInjective
<1>7. IsFiniteSet(T) /\ Cardinality(T) = 2 ^ MaxRetries
  <2>1. IsFiniteSet(1 .. MaxRetries) /\ Cardinality(1 .. MaxRetries) = MaxRetries
    BY PhotoConstants, FS_Interval
  <2>2. QED
    BY <2>1, FS_SUBSET
<1> HIDE DEF Q, T
<1>8. Cardinality(Q) <= Cardinality(T)
  BY <1>6, <1>7, FS_Injection
<1>9. QED
  BY <1>7, <1>8 DEF Q

\* process_photos_and_quote, its two retries for one failure, and its copies:
\* a message is quoted at most once more for each run that was retried, and
\* 2^MaxRetries times at most, whatever fails and in whatever order.
THEOREM PhotoQuotesBounded == Spec => []QuotesPerMessageAreBounded
<1>1. PhotoInv => QuotesPerMessageAreBounded
  BY SharesBoundQuotes, BranchesBoundQuotes DEF PhotoInv, QuotesPerMessageAreBounded
<1>2. QED
  BY <1>1, PhotoInvariant, PTL

=============================================================================
