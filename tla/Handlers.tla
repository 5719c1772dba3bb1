------------------------------ MODULE Handlers ------------------------------
(***************************************************************************)
(* What the models of the back office share: requests, each handled once   *)
(* in a database session of its own (core/database.py, get_session).  A    *)
(* handler loads rows, tests them, and later commits; sessions overlap.    *)
(***************************************************************************)
EXTENDS Naturals, FiniteSets

CONSTANTS
    Requests,    \* handler executions; also the ids they mint
    None         \* SQL NULL

VARIABLES
    txn,         \* per request: the state of its session
    overlap      \* history: the requests whose sessions were open together

handlerVars == <<txn, overlap>>

-----------------------------------------------------------------------------

Phases == {"new", "open", "closed", "error"}

\* op and key stay on record after a commit; saw is what the session loaded.
NewSession == [pc |-> "new", op |-> "none", key |-> None, saw |-> None]

HandlersTypeOK ==
    /\ \A r \in Requests :
          /\ DOMAIN txn[r] = DOMAIN NewSession
          /\ txn[r].pc \in Phases
    /\ DOMAIN txn = Requests
    /\ overlap \in [Requests -> SUBSET Requests]

HandlersInit ==
    /\ txn = [r \in Requests |-> NewSession]
    /\ overlap = [r \in Requests |-> {}]

Open == {r \in Requests : txn[r].pc = "open"}

InFlight(r, op) == txn[r].pc = "open" /\ txn[r].op = op

Done(r, op) == txn[r].pc = "closed" /\ txn[r].op = op

\* Request r, handled by op, loads what it needs of the rows named by key.
Load(r, op, key, saw) ==
    /\ txn[r].pc = "new"
    /\ txn' = [txn EXCEPT ![r] = [pc |-> "open", op |-> op, key |-> key,
                                  saw |-> saw]]
    /\ overlap' = [s \in Requests |->
                     IF s = r THEN Open
                     ELSE IF s \in Open THEN overlap[s] \cup {r}
                     ELSE overlap[s]]

\* Its session ends with a commit.
Close(r) ==
    /\ txn' = [txn EXCEPT ![r] = [@ EXCEPT !.pc = "closed", !.saw = None]]
    /\ UNCHANGED overlap

\* Its session ends without one: a constraint of the database refuses a row,
\* or the process dies.
Rollback(r) ==
    /\ txn' = [txn EXCEPT ![r] = [NewSession EXCEPT !.pc = "error"]]
    /\ UNCHANGED overlap

=============================================================================
