----------------------------- MODULE Scheduling -----------------------------
(***************************************************************************)
(* Jobs and their crews: create_job, update_job, assign_worker,            *)
(* unassign_worker (api/routes/jobs_routes.py), and the customers that     *)
(* jobs refer to (org_routes.py).                                          *)
(*                                                                         *)
(* A worker is free for a window when no other active job of his overlaps  *)
(* it.  The test is a query that assign_worker makes before it inserts;    *)
(* update_job moves, lengthens and revives jobs without it.                *)
(* Requirements and skills are advice to the dispatcher: no handler tests  *)
(* them, and they are left out, like titles and descriptions.              *)
(***************************************************************************)
EXTENDS Workspace

CONSTANTS
    Jobs,             \* job ids
    Customers,        \* ids of the organization's customers
    Dates,            \* instants a job may be scheduled for
    Durations,        \* durations in hours; a request may ask for 0
    Plans,            \* dates and durations create_job is asked for
    Edits,            \* what update_job is asked for
    DefaultDuration   \* _job_window's 4.0 hours

VARIABLES
    job,          \* table jobs
    assignments,  \* table job_assignments
    customers,    \* table org_customers: the ids it holds
    changed       \* history: the jobs changed by others since a request began

schedulingVars == <<job, assignments, customers, changed>>

-----------------------------------------------------------------------------

JOB_STATUSES == {"draft", "scheduled", "in_progress", "completed", "canceled"}

\* The fields of a request; None is a field left out.
Plan == [date : Dates \cup {None}, duration : Durations \cup {None}]
Edit == [status : JOB_STATUSES \cup {None}, date : Dates \cup {None},
         duration : Durations \cup {None}]

ASSUME SchedulingConstants ==
    /\ Dates \subseteq Nat
    /\ Durations \subseteq Nat
    /\ Plans \subseteq Plan
    /\ Edits \subseteq Edit
    /\ DefaultDuration \in Nat \ {0}
    /\ None \notin Nat
    /\ None \notin Customers
    /\ None \notin JOB_STATUSES

\* stamped is completed_at IS NOT NULL.
JobRow == [exists   : BOOLEAN,
           customer : Customers \cup {None},
           status   : JOB_STATUSES,
           date     : Dates \cup {None},
           duration : Durations \cup {None},
           stamped  : BOOLEAN]

Assignment == [id : Requests, job : Jobs, worker : Users]

NoJob == [exists |-> FALSE, customer |-> None, status |-> "draft",
          date |-> None, duration |-> None, stamped |-> FALSE]

SchedulingTypeOK ==
    /\ job \in [Jobs -> JobRow]
    /\ assignments \subseteq Assignment
    /\ customers \subseteq Customers
    /\ changed \in [Requests -> SUBSET Jobs]

NewJob(c, plan) ==
    [exists |-> TRUE, customer |-> c,
     status |-> IF plan.date = None THEN "draft" ELSE "scheduled",
     date |-> plan.date, duration |-> plan.duration, stamped |-> FALSE]

\* No jobs yet, or some created before.
SchedulingInit ==
    /\ customers = Customers
    /\ job \in {[j \in Jobs |-> NoJob]} \cup
                [Jobs -> {NewJob(c, plan) : c \in Customers, plan \in Plans}]
    /\ assignments = {}
    /\ changed = [r \in Requests |-> {}]

-----------------------------------------------------------------------------
(* Windows.                                                                *)

\* `job.duration_hours or 4.0`
Length(j) == IF job[j].duration \in {None, 0} THEN DefaultDuration
             ELSE job[j].duration

Overlapping(j, k) ==
    /\ job[j].date # None
    /\ job[k].date # None
    /\ job[j].date < job[k].date + Length(k)
    /\ job[k].date < job[j].date + Length(j)

Active(j) == job[j].status \in {"scheduled", "in_progress"} /\ job[j].date # None

\* Mutant: only jobs under way are looked at.
UserBusyNow(w, j) ==
    \E a \in assignments :
        /\ a.worker = w
        /\ a.job # j
        /\ job[a.job].status = "in_progress"
        /\ Overlapping(j, a.job)

\* _user_busy, for the window of job j (which excludes j itself).
UserBusy(w, j) ==
    \E a \in assignments :
        /\ a.worker = w
        /\ a.job # j
        /\ Active(a.job)
        /\ Overlapping(j, a.job)

\* Request r commits a change of the row of job j.
Touch(r, j) ==
    changed' = [s \in Requests |->
                  IF s # r /\ txn[s].pc # "new" THEN changed[s] \cup {j}
                  ELSE changed[s]]

-----------------------------------------------------------------------------
(* Customers.                                                              *)

\* delete_customer: the foreign key refuses while a job names the customer.
\* (create_customer of a new row, and update_customer, concern no other row.)
DeleteCustomer(r, c) ==
    /\ txn[r].pc = "new"
    /\ c \in customers
    /\ \A j \in Jobs : job[j].customer # c
    /\ customers' = customers \ {c}
    /\ txn' = [txn EXCEPT ![r].pc = "closed"]
    /\ UNCHANGED <<overlap, workspaceVars, job, assignments, changed>>

-----------------------------------------------------------------------------
(* create_job.                                                             *)

BeginCreateJob(r, j, c, plan) ==
    /\ c \in customers
    /\ ~job[j].exists
    /\ ~ \E s \in Open : txn[s].op \in {"create_job", "create_draft"}
                         /\ txn[s].key.job = j
    /\ Load(r, IF plan.date = None THEN "create_draft" ELSE "create_job",
            [job |-> j, customer |-> c, plan |-> plan], onboarding)
    /\ UNCHANGED <<workspaceVars, schedulingVars>>

CommitCreateJob(r) ==
    LET new == txn[r].key IN
    /\ InFlight(r, "create_job") \/ InFlight(r, "create_draft")
    /\ new.customer \in customers
    /\ job' = [job EXCEPT ![new.job] = NewJob(new.customer, new.plan)]
    /\ IF txn[r].op = "create_job" THEN Tick(r, StepsOf["create_job"])
       ELSE UNCHANGED onboarding
    /\ Close(r)
    /\ UNCHANGED <<user, assignments, customers, changed>>

\* The customer was deleted meanwhile: the foreign key refuses the row.
RejectCreateJob(r) ==
    /\ InFlight(r, "create_job") \/ InFlight(r, "create_draft")
    /\ txn[r].key.customer \notin customers
    /\ Rollback(r)
    /\ UNCHANGED <<workspaceVars, schedulingVars>>

-----------------------------------------------------------------------------
(* update_job.                                                             *)

BeginUpdateJob(r, j, edit) ==
    /\ job[j].exists
    /\ Load(r, "update_job", [job |-> j, edit |-> edit], job[j])
    /\ UNCHANGED <<workspaceVars, schedulingVars>>

\* Mutant: a job that leaves "completed" keeps its completion stamp.
UpdatedKeepsStamp(row, edit) ==
    LET asked == IF edit.status = None THEN row.status ELSE edit.status
        dated == edit.date # None /\ asked = "draft"
    IN  [row EXCEPT
           !.status   = IF dated THEN "scheduled" ELSE asked,
           !.date     = IF edit.date = None THEN @ ELSE edit.date,
           !.duration = IF edit.duration = None THEN @ ELSE edit.duration,
           !.stamped  = @ \/ edit.status = "completed"]

\* Mutant: a status left out of the request is written all the same.
UpdatedBlank(row, edit) == [row EXCEPT !.status = edit.status]

\* The columns the handler leaves in its copy of the row.
Updated(row, edit) ==
    LET asked == IF edit.status = None THEN row.status ELSE edit.status
        dated == edit.date # None /\ asked = "draft"
    IN  [row EXCEPT
           !.status   = IF dated THEN "scheduled" ELSE asked,
           !.date     = IF edit.date = None THEN @ ELSE edit.date,
           !.duration = IF edit.duration = None THEN @ ELSE edit.duration,
           !.stamped  = IF edit.status = None THEN @
                        ELSE edit.status = "completed"]

\* Only the columns that differ from the loaded row are written; a new
\* completion stamp always does.
Merged(present, loaded, mine, edit) ==
    [present EXCEPT
       !.status   = IF mine.status = loaded.status THEN @ ELSE mine.status,
       !.date     = IF mine.date = loaded.date THEN @ ELSE mine.date,
       !.duration = IF mine.duration = loaded.duration THEN @ ELSE mine.duration,
       !.stamped  = IF mine.stamped = loaded.stamped /\ edit.status # "completed"
                    THEN @ ELSE mine.stamped]

CommitUpdateJob(r) ==
    LET j    == txn[r].key.job
        mine == Updated(txn[r].saw, txn[r].key.edit)
    IN
    /\ InFlight(r, "update_job")
    /\ job' = [job EXCEPT ![j] = Merged(@, txn[r].saw, mine, txn[r].key.edit)]
    /\ Touch(r, j)
    /\ Close(r)
    /\ UNCHANGED <<workspaceVars, assignments, customers>>

-----------------------------------------------------------------------------
(* assign_worker and unassign_worker.                                      *)

BeginAssign(r, j, w) ==
    /\ job[j].exists
    /\ user[w].exists /\ user[w].active
    /\ ~UserBusy(w, j)
    /\ Load(r, "assign", [job |-> j, worker |-> w], job[j].status)
    /\ UNCHANGED <<workspaceVars, schedulingVars>>

CommitAssign(r) ==
    LET j == txn[r].key.job IN
    /\ InFlight(r, "assign")
    /\ assignments' = assignments \cup
                        {[id |-> r, job |-> j, worker |-> txn[r].key.worker]}
    /\ IF txn[r].saw = "draft"
       THEN job' = [job EXCEPT ![j].status = "scheduled"] /\ Touch(r, j)
       ELSE UNCHANGED <<job, changed>>
    /\ Close(r)
    /\ UNCHANGED <<workspaceVars, customers>>

\* One row goes; nothing is tested: one step.
Unassign(r, a) ==
    /\ txn[r].pc = "new"
    /\ a \in assignments
    /\ assignments' = assignments \ {a}
    /\ txn' = [txn EXCEPT ![r].pc = "closed"]
    /\ UNCHANGED <<overlap, workspaceVars, job, customers, changed>>

-----------------------------------------------------------------------------

SchedulingOps == {"create_job", "create_draft", "update_job", "assign"}

SchedulingAbort(r) ==
    /\ r \in Open
    /\ txn[r].op \in SchedulingOps
    /\ Rollback(r)
    /\ UNCHANGED <<workspaceVars, schedulingVars>>

SchedulingNext ==
    \E r \in Requests :
        \/ \E c \in Customers : DeleteCustomer(r, c)
        \/ \E j \in Jobs :
             \/ \E c \in Customers, plan \in Plans : BeginCreateJob(r, j, c, plan)
             \/ \E edit \in Edits : BeginUpdateJob(r, j, edit)
             \/ \E w \in Users : BeginAssign(r, j, w)
        \/ \E a \in assignments : Unassign(r, a)
        \/ CommitCreateJob(r) \/ RejectCreateJob(r)
        \/ CommitUpdateJob(r) \/ CommitAssign(r)
        \/ SchedulingAbort(r)

SchedulingSpec ==
    /\ HandlersInit /\ WorkspaceInit /\ SchedulingInit
    /\ [][\/ SchedulingNext
          \/ WorkspaceNext /\ UNCHANGED schedulingVars
         ]_<<handlerVars, workspaceVars, schedulingVars>>

-----------------------------------------------------------------------------
(* Properties.                                                             *)

\* "A worker is busy if they're assigned to another active job whose window
\* overlaps" (_user_busy).  Two overlapping active jobs of one worker come
\* only from assignments that were in flight together, or from a change of
\* one of the jobs after the test of the later assignment: a worker who was
\* busy when asked for is never taken.
DoubleBookingNeedsOverlapOrEdit ==
    \A a, b \in assignments :
        /\ a.worker = b.worker
        /\ a.job # b.job
        /\ Active(a.job) /\ Active(b.job)
        /\ Overlapping(a.job, b.job)
        => \/ b.id \in overlap[a.id]
           \/ \E j \in {a.job, b.job} : j \in changed[a.id] /\ j \in changed[b.id]

WritersOf(j) ==
    {r \in Requests : /\ txn[r].pc = "closed"
                      /\ txn[r].op \in {"update_job", "assign"}
                      /\ txn[r].key.job = j}

\* A job says when it was completed exactly when it is completed, unless two
\* writers of the job overlapped and mixed their columns.
CompletionStampNeedsOverlap ==
    \A j \in Jobs :
        \/ job[j].stamped = (job[j].status = "completed")
        \/ \E r, s \in WritersOf(j) : s \in overlap[r]

=============================================================================
