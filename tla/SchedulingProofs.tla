-------------------------- MODULE SchedulingProofs --------------------------
(***************************************************************************)
(* Proofs about jobs and crews (Scheduling) among all the handlers of the  *)
(* back office, and the types of the whole back office.                    *)
(***************************************************************************)
EXTENDS BackofficeProofs

-----------------------------------------------------------------------------
(* The steps of the back office, as jobs and crews see them.               *)

CrewOps == SchedulingOps

LEMMA CrewSteps ==
  ASSUME [Next]_vars
  PROVE  \/ SchedulingNext
         \/ Foreign(CrewOps) /\ UNCHANGED schedulingVars
         \/ UNCHANGED <<txn, overlap, schedulingVars>>
<1>1. CASE WorkspaceNext /\ UNCHANGED <<schedulingVars, materialVars>>
  BY <1>1, WorkspaceIsForeign, ForeignToFewer DEF CrewOps
<1>2. CASE MaterialNext /\ UNCHANGED <<workspaceVars, schedulingVars>>
  BY <1>2, MaterialIsForeign, ForeignToFewer DEF CrewOps
<1>3. QED
  BY <1>1, <1>2 DEF Next, vars, handlerVars

\* What an open handler of jobs holds.
CrewSessions ==
    \A r \in Open :
        /\ txn[r].op \in {"create_job", "create_draft"} =>
              /\ txn[r].key.job \in Jobs /\ ~job[txn[r].key.job].exists
              /\ txn[r].key.customer \in Customers /\ txn[r].key.plan \in Plans
        /\ txn[r].op = "update_job" =>
              /\ txn[r].key.job \in Jobs /\ job[txn[r].key.job].exists
              /\ txn[r].key.edit \in Edits /\ txn[r].saw \in JobRow
              /\ txn[r].saw.exists
        /\ txn[r].op = "assign" =>
              /\ txn[r].key.job \in Jobs /\ job[txn[r].key.job].exists
              /\ txn[r].key.worker \in Users

\* No two handlers are about to insert the same job.
FreshJobs ==
    \A r, s \in Open :
        /\ r # s
        /\ txn[r].op \in {"create_job", "create_draft"}
        /\ txn[s].op \in {"create_job", "create_draft"}
        => txn[r].key.job # txn[s].key.job

\* An assignment is the work of one finished request.
AssignmentsInv ==
    \A a \in assignments :
        /\ a \in Assignment /\ job[a.job].exists
        /\ Done(a.id, "assign")
        /\ txn[a.id].key.job = a.job /\ txn[a.id].key.worker = a.worker

CrewInv ==
    /\ SchedulingTypeOK
    /\ CrewSessions
    /\ FreshJobs
    /\ AssignmentsInv

LEMMA NewJobType ==
  ASSUME NEW c \in Customers, NEW plan \in Plans
  PROVE  /\ NewJob(c, plan) \in JobRow /\ NewJob(c, plan).exists
         /\ NewJob(c, plan).status # "completed" /\ NewJob(c, plan).stamped = FALSE
<1>1. plan.date \in Dates \cup {None} /\ plan.duration \in Durations \cup {None}
  BY SchedulingConstants DEF Plan
<1>2. QED
  BY <1>1 DEF NewJob, JobRow, JOB_STATUSES

\* The row update_job leaves.
LEMMA UpdatedDoes ==
  ASSUME NEW row \in JobRow, NEW edit \in Edits
  PROVE  /\ Updated(row, edit) \in JobRow
         /\ Updated(row, edit).exists = row.exists
         /\ Updated(row, edit).customer = row.customer
         /\ edit.status = None =>
               /\ Updated(row, edit).stamped = row.stamped
               /\ \/ Updated(row, edit).status = row.status
                  \/ row.status = "draft" /\ Updated(row, edit).status = "scheduled"
         /\ edit.status # None =>
               /\ Updated(row, edit).stamped = (edit.status = "completed")
               /\ (Updated(row, edit).status = "completed") = (edit.status = "completed")
<1>1. /\ edit.status \in JOB_STATUSES \cup {None}
      /\ edit.date \in Dates \cup {None} /\ edit.duration \in Durations \cup {None}
  BY SchedulingConstants DEF Edit
<1> DEFINE asked == IF edit.status = None THEN row.status ELSE edit.status
           status == IF edit.date # None /\ asked = "draft" THEN "scheduled" ELSE asked
           date == IF edit.date = None THEN row.date ELSE edit.date
           duration == IF edit.duration = None THEN row.duration ELSE edit.duration
           stamped == IF edit.status = None THEN row.stamped
                      ELSE edit.status = "completed"
<1>2. /\ status \in JOB_STATUSES /\ date \in Dates \cup {None}
      /\ duration \in Durations \cup {None} /\ stamped \in BOOLEAN
      /\ edit.status = None =>
            /\ stamped = row.stamped
            /\ \/ status = row.status
               \/ row.status = "draft" /\ status = "scheduled"
      /\ edit.status # None =>
            /\ stamped = (edit.status = "completed")
            /\ (status = "completed") = (edit.status = "completed")
  BY <1>1 DEF JobRow, JOB_STATUSES
<1>3. Updated(row, edit) = [row EXCEPT !.status = status, !.date = date,
                                       !.duration = duration, !.stamped = stamped]
  BY DEF Updated
<1> HIDE DEF status, date, duration, stamped
<1> DEFINE new == [row EXCEPT !.status = status, !.date = date,
                              !.duration = duration, !.stamped = stamped]
<1>4. /\ new \in JobRow /\ new.exists = row.exists /\ new.customer = row.customer
      /\ new.status = status /\ new.stamped = stamped
  BY <1>2 DEF JobRow
<1> HIDE DEF new
<1>5. Updated(row, edit) = new
  BY <1>3 DEF new
<1>6. QED
  BY <1>2, <1>4, <1>5

\* What is left in the table of it.
LEMMA MergedDoes ==
  ASSUME NEW present \in JobRow, NEW loaded \in JobRow, NEW edit \in Edits
  PROVE  LET row == Merged(present, loaded, Updated(loaded, edit), edit) IN
         /\ row \in JobRow /\ row.exists = present.exists
         /\ (/\ present.status = loaded.status /\ present.stamped = loaded.stamped
             /\ loaded.stamped = (loaded.status = "completed"))
            => row.stamped = (row.status = "completed")
<1>0. PICK mine : mine = Updated(loaded, edit)
  OBVIOUS
<1>1. /\ mine \in JobRow
      /\ edit.status = None =>
            /\ mine.stamped = loaded.stamped
            /\ \/ mine.status = loaded.status
               \/ loaded.status = "draft" /\ mine.status = "scheduled"
      /\ edit.status # None =>
            /\ mine.stamped = (edit.status = "completed")
            /\ (mine.status = "completed") = (edit.status = "completed")
  BY <1>0, UpdatedDoes
<1>2. edit.status \in JOB_STATUSES \cup {None} /\ None # "completed"
  BY SchedulingConstants DEF Edit, JOB_STATUSES
<1> DEFINE status == IF mine.status = loaded.status THEN present.status ELSE mine.status
           date == IF mine.date = loaded.date THEN present.date ELSE mine.date
           duration == IF mine.duration = loaded.duration THEN present.duration
                       ELSE mine.duration
           stamped == IF mine.stamped = loaded.stamped /\ edit.status # "completed"
                      THEN present.stamped ELSE mine.stamped
           new == [present EXCEPT !.status = status, !.date = date,
                                  !.duration = duration, !.stamped = stamped]
<1>3. /\ status \in JOB_STATUSES /\ date \in Dates \cup {None}
      /\ duration \in Durations \cup {None} /\ stamped \in BOOLEAN
  BY <1>1 DEF JobRow
<1>4. /\ present.status = loaded.status /\ present.stamped = loaded.stamped
      /\ loaded.stamped = (loaded.status = "completed")
      => stamped = (status = "completed")
  <2>1. loaded.stamped \in BOOLEAN /\ mine.stamped \in BOOLEAN
    BY <1>1 DEF JobRow
  <2>2. QED
    BY <1>1, <1>2, <2>1
<1>5. Merged(present, loaded, mine, edit) = new
  BY DEF Merged
<1> HIDE DEF status, date, duration, stamped
<1>6. /\ new \in JobRow /\ new.exists = present.exists
      /\ new.status = status /\ new.stamped = stamped
  BY <1>3 DEF JobRow
<1> HIDE DEF new
<1>7. Merged(present, loaded, Updated(loaded, edit), edit) = new
  BY <1>0, <1>5
<1>8. QED
  BY <1>4, <1>6, <1>7

-----------------------------------------------------------------------------
(* The steps on jobs and crews, by what they write.                        *)

\* No job is written, and no session on jobs begins or commits.
QuietStep ==
    /\ job' = job /\ changed' = changed
    /\ assignments' \subseteq assignments /\ customers' \subseteq customers
    /\ \A s \in Open' : txn'[s].op \in CrewOps => s \in Open /\ txn'[s] = txn[s]

BeginOnJob(r) ==
    \/ \E j \in Jobs, c \in Customers, plan \in Plans : BeginCreateJob(r, j, c, plan)
    \/ \E j \in Jobs, edit \in Edits : BeginUpdateJob(r, j, edit)
    \/ \E j \in Jobs, w \in Users : BeginAssign(r, j, w)

\* In every step records and overlaps stay.
RecordsStay ==
    /\ \A s \in Requests : txn[s].pc = "closed" => txn'[s] = txn[s]
    /\ \A s \in Requests : overlap[s] \subseteq overlap'[s]

LEMMA QuietOrNot ==
  ASSUME SessionInv, [Next]_vars
  PROVE  /\ RecordsStay
         /\ \/ QuietStep
            \/ \E r \in Requests :
                  \/ BeginOnJob(r)
                  \/ CommitCreateJob(r) \/ CommitUpdateJob(r) \/ CommitAssign(r)
<1> DEFINE Goal == /\ RecordsStay
                   /\ \/ QuietStep
                      \/ \E r \in Requests :
                            \/ BeginOnJob(r)
                            \/ CommitCreateJob(r) \/ CommitUpdateJob(r) \/ CommitAssign(r)
<1> SUFFICES Goal
  OBVIOUS
<1>0. Open \subseteq Requests
  BY DEF Open
<1>1. CASE UNCHANGED <<txn, overlap, schedulingVars>>
  BY <1>1 DEF RecordsStay, QuietStep, schedulingVars, Open
<1>2. CASE Foreign(CrewOps) /\ UNCHANGED schedulingVars
  <2>1. /\ \A s \in Requests : overlap[s] \subseteq overlap'[s]
        /\ \A s \in Requests : txn[s].pc = "closed" => txn'[s] = txn[s]
        /\ \A s \in Requests : txn[s].op \in CrewOps \/ txn'[s].op \in CrewOps =>
              txn'[s] = txn[s]
    BY <1>2, ForeignDoes DEF CrewOps, SchedulingOps
  <2>2. QED
    BY <1>2, <2>1 DEF RecordsStay, QuietStep, schedulingVars, Open
<1>3. ASSUME NEW r \in Requests, BeginOnJob(r) PROVE Goal
  <2>1. \E op, key, saw : Load(r, op, key, saw)
    BY <1>3 DEF BeginOnJob, BeginCreateJob, BeginUpdateJob, BeginAssign
  <2>2. /\ txn[r].pc = "new"
        /\ \A s \in Requests : s # r => txn'[s] = txn[s]
        /\ \A s \in Requests : overlap[s] \subseteq overlap'[s]
    BY <2>1, LoadDoes
  <2>3. QED
    BY <1>3, <2>2 DEF RecordsStay
<1>4. ASSUME NEW r \in Requests,
             CommitCreateJob(r) \/ CommitUpdateJob(r) \/ CommitAssign(r)
      PROVE  Goal
  <2>1. Close(r) /\ txn[r].pc = "open"
    BY <1>4 DEF CommitCreateJob, CommitUpdateJob, CommitAssign, InFlight
  <2>2. QED
    BY <1>4, <2>1, CloseDoes DEF RecordsStay
<1>5. ASSUME NEW r \in Requests, RejectCreateJob(r) \/ SchedulingAbort(r) PROVE Goal
  <2>1. Rollback(r) /\ txn[r].pc = "open" /\ UNCHANGED schedulingVars
    BY <1>5 DEF RejectCreateJob, SchedulingAbort, InFlight, Open
  <2>2. /\ Open' = Open \ {r} /\ overlap' = overlap
        /\ \A s \in Requests : s # r => txn'[s] = txn[s]
    BY <2>1, RollbackDoes
  <2>3. QED
    BY <1>0, <2>1, <2>2 DEF RecordsStay, QuietStep, schedulingVars
<1>6. ASSUME NEW r \in Requests, NEW c, DeleteCustomer(r, c) PROVE Goal
  <2>1. /\ Quick(r) /\ txn[r].pc = "new" /\ job' = job /\ changed' = changed
        /\ assignments' = assignments /\ customers' \subseteq customers
    BY <1>6 DEF DeleteCustomer, Quick
  <2>2. /\ r \notin Open /\ Open' = Open /\ overlap' = overlap
        /\ \A s \in Requests : s # r => txn'[s] = txn[s]
    BY <2>1, QuickDoes
  <2>3. QED
    BY <1>0, <2>1, <2>2 DEF RecordsStay, QuietStep
<1>7. ASSUME NEW r \in Requests, NEW a, Unassign(r, a) PROVE Goal
  <2>1. /\ Quick(r) /\ txn[r].pc = "new" /\ job' = job /\ changed' = changed
        /\ customers' = customers /\ assignments' \subseteq assignments
    BY <1>7 DEF Unassign, Quick
  <2>2. /\ r \notin Open /\ Open' = Open /\ overlap' = overlap
        /\ \A s \in Requests : s # r => txn'[s] = txn[s]
    BY <2>1, QuickDoes
  <2>3. QED
    BY <1>0, <2>1, <2>2 DEF RecordsStay, QuietStep
<1>8. CASE SchedulingNext
  <2>1. PICK r \in Requests :
          \/ \E c \in Customers : DeleteCustomer(r, c)
          \/ \E a \in assignments : Unassign(r, a)
          \/ BeginOnJob(r)
          \/ CommitCreateJob(r) \/ RejectCreateJob(r)
          \/ CommitUpdateJob(r) \/ CommitAssign(r)
          \/ SchedulingAbort(r)
    BY <1>8 DEF SchedulingNext, BeginOnJob
  <2>2. QED
    BY <2>1, <1>3, <1>4, <1>5, <1>6, <1>7
<1>9. QED
  BY <1>1, <1>2, <1>8, CrewSteps

-----------------------------------------------------------------------------
(* What each of them does.                                                 *)

LEMMA BeginsOnJob ==
  ASSUME SessionInv, CrewInv, NEW r \in Requests, BeginOnJob(r)
  PROVE  /\ job' = job /\ assignments' = assignments /\ customers' = customers
         /\ changed' = changed
         /\ r \notin Open /\ Open' = Open \cup {r}
         /\ \A s \in Requests : s # r => txn'[s] = txn[s]
         /\ txn'[r].op \in CrewOps /\ txn'[r].key.job \in Jobs
         /\ txn'[r].op \in {"create_job", "create_draft"} =>
               /\ ~job[txn'[r].key.job].exists
               /\ txn'[r].key.customer \in Customers /\ txn'[r].key.plan \in Plans
               /\ \A s \in Open : txn[s].op \in {"create_job", "create_draft"} =>
                     txn[s].key.job # txn'[r].key.job
         /\ txn'[r].op = "update_job" =>
               /\ job[txn'[r].key.job].exists /\ txn'[r].key.edit \in Edits
               /\ txn'[r].saw = job[txn'[r].key.job]
         /\ txn'[r].op = "assign" =>
               /\ job[txn'[r].key.job].exists /\ txn'[r].key.worker \in Users
               /\ txn'[r].saw = job[txn'[r].key.job].status
               /\ ~UserBusy(txn'[r].key.worker, txn'[r].key.job)
<1> USE DEF CrewOps, SchedulingOps
<1>1. CASE \E j \in Jobs, c \in Customers, plan \in Plans : BeginCreateJob(r, j, c, plan)
  <2>1. PICK j \in Jobs, c \in Customers, plan \in Plans : BeginCreateJob(r, j, c, plan)
    BY <1>1
  <2>2. PICK op \in {"create_job", "create_draft"} :
          Load(r, op, [job |-> j, customer |-> c, plan |-> plan], onboarding)
    BY <2>1 DEF BeginCreateJob
  <2>3. UNCHANGED schedulingVars /\ ~job[j].exists
        /\ \A s \in Open : txn[s].op \in {"create_job", "create_draft"} => txn[s].key.job # j
    BY <2>1 DEF BeginCreateJob
  <2>4. /\ r \notin Open /\ Open' = Open \cup {r}
        /\ \A s \in Requests : s # r => txn'[s] = txn[s]
        /\ txn'[r].op = op
        /\ txn'[r].key = [job |-> j, customer |-> c, plan |-> plan]
    BY <2>2, LoadDoes
  <2>5. QED
    BY <2>3, <2>4 DEF schedulingVars
<1>2. CASE \E j \in Jobs, edit \in Edits : BeginUpdateJob(r, j, edit)
  <2>1. PICK j \in Jobs, edit \in Edits : BeginUpdateJob(r, j, edit)
    BY <1>2
  <2>2. /\ Load(r, "update_job", [job |-> j, edit |-> edit], job[j])
        /\ UNCHANGED schedulingVars /\ job[j].exists
    BY <2>1 DEF BeginUpdateJob
  <2>3. /\ r \notin Open /\ Open' = Open \cup {r}
        /\ \A s \in Requests : s # r => txn'[s] = txn[s]
        /\ txn'[r].op = "update_job"
        /\ txn'[r].key = [job |-> j, edit |-> edit] /\ txn'[r].saw = job[j]
    BY <2>2, LoadDoes
  <2>4. QED
    BY <2>2, <2>3 DEF schedulingVars
<1>3. CASE \E j \in Jobs, w \in Users : BeginAssign(r, j, w)
  <2>1. PICK j \in Jobs, w \in Users : BeginAssign(r, j, w)
    BY <1>3
  <2>2. /\ Load(r, "assign", [job |-> j, worker |-> w], job[j].status)
        /\ UNCHANGED schedulingVars /\ job[j].exists /\ ~UserBusy(w, j)
    BY <2>1 DEF BeginAssign
  <2>3. /\ r \notin Open /\ Open' = Open \cup {r}
        /\ \A s \in Requests : s # r => txn'[s] = txn[s]
        /\ txn'[r].op = "assign"
        /\ txn'[r].key = [job |-> j, worker |-> w] /\ txn'[r].saw = job[j].status
    BY <2>2, LoadDoes
  <2>4. QED
    BY <2>2, <2>3 DEF schedulingVars
<1>4. QED
  BY <1>1, <1>2, <1>3 DEF BeginOnJob

\* The commits have this in common.
Ends(r) ==
    /\ r \in Open /\ Open' = Open \ {r} /\ overlap' = overlap
    /\ txn'[r].pc = "closed" /\ txn'[r].op = txn[r].op /\ txn'[r].key = txn[r].key
    /\ \A s \in Requests : s # r => txn'[s] = txn[s]
    /\ \A s \in Open : s # r => s \in overlap[r] /\ r \in overlap[s]

LEMMA CloseEnds ==
  ASSUME SessionInv, NEW r \in Requests, Close(r), txn[r].pc = "open"
  PROVE  Ends(r)
<1>1. r \in Open /\ Open \subseteq Requests
  BY DEF Open
<1>2. QED
  BY <1>1, CloseDoes DEF Ends, SessionInv, OverlapInv

LEMMA CreatesJob ==
  ASSUME SessionInv, CrewInv, NEW r \in Requests, CommitCreateJob(r)
  PROVE  \E j \in Jobs, row \in JobRow :
           /\ Ends(r) /\ j = txn[r].key.job
           /\ txn[r].op \in {"create_job", "create_draft"}
           /\ ~job[j].exists /\ row.exists
           /\ row.status # "completed" /\ row.stamped = FALSE
           /\ job' \in [Jobs -> JobRow] /\ job'[j] = row
           /\ \A k \in Jobs : k # j => job'[k] = job[k]
           /\ assignments' = assignments /\ customers' = customers /\ changed' = changed
<1>1. PICK j, c, plan : /\ j = txn[r].key.job /\ c = txn[r].key.customer
                        /\ plan = txn[r].key.plan
  OBVIOUS
<1>2. /\ Close(r) /\ txn[r].pc = "open" /\ txn[r].op \in {"create_job", "create_draft"}
      /\ job' = [job EXCEPT ![j] = NewJob(c, plan)]
      /\ assignments' = assignments /\ customers' = customers /\ changed' = changed
  BY <1>1 DEF CommitCreateJob, InFlight
<1>3. /\ r \in Open /\ j \in Jobs /\ ~job[j].exists
      /\ c \in Customers /\ plan \in Plans
  BY <1>1, <1>2 DEF CrewInv, CrewSessions, Open
<1>4. PICK row \in JobRow : /\ row = NewJob(c, plan) /\ row.exists
                            /\ row.status # "completed" /\ row.stamped = FALSE
  BY <1>3, NewJobType
<1>5. /\ job' \in [Jobs -> JobRow] /\ job'[j] = row
      /\ \A k \in Jobs : k # j => job'[k] = job[k]
  BY <1>2, <1>3, <1>4 DEF CrewInv, SchedulingTypeOK
<1>6. QED
  BY <1>1, <1>2, <1>3, <1>4, <1>5, CloseEnds

LEMMA TouchDoes ==
  ASSUME CrewInv, NEW r \in Requests, NEW j \in Jobs, Touch(r, j)
  PROVE  /\ changed' \in [Requests -> SUBSET Jobs]
         /\ \A s \in Requests : changed[s] \subseteq changed'[s]
         /\ \A s \in Requests : s # r /\ txn[s].pc # "new" => j \in changed'[s]
  BY DEF CrewInv, SchedulingTypeOK, Touch

LEMMA UpdatesJob ==
  ASSUME SessionInv, CrewInv, NEW r \in Requests, CommitUpdateJob(r)
  PROVE  \E j \in Jobs, row \in JobRow :
           /\ Ends(r) /\ j = txn[r].key.job /\ txn[r].op = "update_job"
           /\ job[j].exists /\ row.exists
           /\ /\ job[j].status = txn[r].saw.status
              /\ job[j].stamped = txn[r].saw.stamped
              /\ txn[r].saw.stamped = (txn[r].saw.status = "completed")
              => row.stamped = (row.status = "completed")
           /\ job' \in [Jobs -> JobRow] /\ job'[j] = row
           /\ \A k \in Jobs : k # j => job'[k] = job[k]
           /\ assignments' = assignments /\ customers' = customers
           /\ Touch(r, j)
<1>1. PICK j, edit, saw : j = txn[r].key.job /\ edit = txn[r].key.edit /\ saw = txn[r].saw
  OBVIOUS
<1>2. /\ Close(r) /\ txn[r].pc = "open" /\ txn[r].op = "update_job" /\ Touch(r, j)
      /\ job' = [job EXCEPT ![j] = Merged(job[j], saw, Updated(saw, edit), edit)]
      /\ assignments' = assignments /\ customers' = customers
  BY <1>1 DEF CommitUpdateJob, InFlight
<1>3. /\ r \in Open /\ j \in Jobs /\ job[j].exists /\ edit \in Edits /\ saw \in JobRow
      /\ job \in [Jobs -> JobRow] /\ job[j] \in JobRow
  BY <1>1, <1>2 DEF CrewInv, CrewSessions, SchedulingTypeOK, Open
<1>4. PICK row \in JobRow :
        /\ row = Merged(job[j], saw, Updated(saw, edit), edit)
        /\ row.exists = job[j].exists
        /\ /\ job[j].status = saw.status /\ job[j].stamped = saw.stamped
           /\ saw.stamped = (saw.status = "completed")
           => row.stamped = (row.status = "completed")
  <2>1. PICK present : present = job[j]
    OBVIOUS
  <2>2. QED
    BY <1>3, <2>1, MergedDoes
<1>5. /\ job' \in [Jobs -> JobRow] /\ job'[j] = row
      /\ \A k \in Jobs : k # j => job'[k] = job[k]
  BY <1>2, <1>3, <1>4
<1>6. Ends(r)
  BY <1>2, CloseEnds
<1>7. QED
  BY <1>1, <1>2, <1>3, <1>4, <1>5, <1>6

LEMMA Assigns ==
  ASSUME SessionInv, CrewInv, NEW r \in Requests, CommitAssign(r)
  PROVE  \E j \in Jobs, w \in Users, row \in JobRow :
           /\ Ends(r) /\ j = txn[r].key.job /\ w = txn[r].key.worker
           /\ txn[r].op = "assign" /\ txn'[r].pc = "closed"
           /\ assignments' = assignments \cup {[id |-> r, job |-> j, worker |-> w]}
           /\ customers' = customers
           /\ job[j].exists
           /\ job' \in [Jobs -> JobRow] /\ job'[j] = row
           /\ \A k \in Jobs : k # j => job'[k] = job[k]
           /\ row.exists /\ row.date = job[j].date /\ row.duration = job[j].duration
           /\ row.stamped = job[j].stamped
           /\ \/ txn[r].saw = "draft" /\ row.status = "scheduled" /\ Touch(r, j)
              \/ row = job[j] /\ changed' = changed
<1>1. PICK j, w : j = txn[r].key.job /\ w = txn[r].key.worker
  OBVIOUS
<1>2. /\ Close(r) /\ txn[r].pc = "open" /\ txn[r].op = "assign"
      /\ assignments' = assignments \cup {[id |-> r, job |-> j, worker |-> w]}
      /\ customers' = customers
      /\ \/ /\ txn[r].saw = "draft" /\ job' = [job EXCEPT ![j].status = "scheduled"]
            /\ Touch(r, j)
         \/ job' = job /\ changed' = changed
  BY <1>1 DEF CommitAssign, InFlight
<1>3. /\ r \in Open /\ j \in Jobs /\ job[j].exists /\ w \in Users
      /\ job \in [Jobs -> JobRow] /\ job[j] \in JobRow
  BY <1>1, <1>2 DEF CrewInv, CrewSessions, SchedulingTypeOK, Open
<1>4. Ends(r) /\ txn'[r].pc = "closed"
  BY <1>2, CloseEnds DEF Ends
<1>5. CASE job' = job /\ changed' = changed
  BY <1>1, <1>2, <1>3, <1>4, <1>5
<1>6. CASE /\ txn[r].saw = "draft" /\ job' = [job EXCEPT ![j].status = "scheduled"]
           /\ Touch(r, j)
  <2> DEFINE row == [job[j] EXCEPT !.status = "scheduled"]
  <2>1. /\ row \in JobRow /\ row.exists /\ row.status = "scheduled"
        /\ row.date = job[j].date /\ row.duration = job[j].duration
        /\ row.stamped = job[j].stamped
    BY <1>3 DEF JobRow, JOB_STATUSES
  <2>2. job' = [job EXCEPT ![j] = row]
    BY <1>6
  <2> HIDE DEF row
  <2>3. /\ job' \in [Jobs -> JobRow] /\ job'[j] = row
        /\ \A k \in Jobs : k # j => job'[k] = job[k]
    BY <1>3, <2>1, <2>2
  <2>4. QED
    BY <1>1, <1>2, <1>3, <1>4, <1>6, <2>1, <2>3
<1>7. QED
  BY <1>2, <1>5, <1>6

-----------------------------------------------------------------------------
(* Structure.                                                              *)

LEMMA CrewInits ==
  ASSUME HandlersInit, SchedulingInit
  PROVE  CrewInv
<1>1. Open = {} /\ assignments = {}
  BY DEF HandlersInit, NewSession, Open, SchedulingInit
<1>2. NoJob \in JobRow
  BY DEF NoJob, JobRow, JOB_STATUSES
<1>3. \A c \in Customers, plan \in Plans : NewJob(c, plan) \in JobRow
  BY NewJobType
<1>4. /\ \/ job = [j \in Jobs |-> NoJob]
         \/ job \in [Jobs -> {NewJob(c, plan) : c \in Customers, plan \in Plans}]
      /\ customers = Customers /\ changed = [r \in Requests |-> {}]
  BY DEF SchedulingInit
<1>5. job \in [Jobs -> JobRow]
  BY <1>2, <1>3, <1>4
<1>6. QED
  BY <1>1, <1>4, <1>5 DEF CrewInv, SchedulingTypeOK, CrewSessions, FreshJobs, AssignmentsInv

LEMMA CrewStep ==
  ASSUME SessionInv, CrewInv, [Next]_vars
  PROVE  CrewInv'
<1>0. Open \subseteq Requests
  BY DEF Open
<1> USE DEF CrewOps, SchedulingOps
<1>1. RecordsStay
  BY QuietOrNot
<1>2. ASSUME assignments' \subseteq assignments,
             \A k \in Jobs : job[k].exists => job'[k].exists
      PROVE  AssignmentsInv'
  BY <1>1, <1>2 DEF AssignmentsInv, CrewInv, RecordsStay, Assignment, Done
<1>3. CASE QuietStep
  <2>1. SchedulingTypeOK'
    BY <1>3 DEF QuietStep, CrewInv, SchedulingTypeOK
  <2>2. CrewSessions' /\ FreshJobs'
    BY <1>3 DEF QuietStep, CrewInv, CrewSessions, FreshJobs
  <2>3. QED
    BY <1>2, <1>3, <2>1, <2>2 DEF QuietStep, CrewInv
<1>4. ASSUME NEW r \in Requests, BeginOnJob(r) PROVE CrewInv'
  <2>1. PICK new : new = txn'[r]
    OBVIOUS
  <2>2. /\ job' = job /\ assignments' = assignments /\ customers' = customers
        /\ changed' = changed
        /\ r \notin Open /\ Open' = Open \cup {r}
        /\ \A s \in Requests : s # r => txn'[s] = txn[s]
        /\ new.key.job \in Jobs
        /\ new.op \in {"create_job", "create_draft"} =>
              /\ ~job[new.key.job].exists
              /\ new.key.customer \in Customers /\ new.key.plan \in Plans
              /\ \A s \in Open : txn[s].op \in {"create_job", "create_draft"} =>
                    txn[s].key.job # new.key.job
        /\ new.op = "update_job" =>
              /\ job[new.key.job].exists /\ new.key.edit \in Edits
              /\ new.saw = job[new.key.job]
        /\ new.op = "assign" =>
              job[new.key.job].exists /\ new.key.worker \in Users
    BY <1>4, <2>1, BeginsOnJob
  <2>3. SchedulingTypeOK'
    BY <2>2 DEF CrewInv, SchedulingTypeOK
  <2>4. CrewSessions'
    BY <1>0, <2>1, <2>2 DEF CrewInv, CrewSessions, SchedulingTypeOK
  <2>5. FreshJobs'
    BY <1>0, <2>1, <2>2 DEF CrewInv, FreshJobs
  <2>6. QED
    BY <1>2, <2>2, <2>3, <2>4, <2>5 DEF CrewInv
<1>5. ASSUME NEW r \in Requests, CommitCreateJob(r) PROVE CrewInv'
  <2>1. PICK j \in Jobs, row \in JobRow :
           /\ Ends(r) /\ j = txn[r].key.job
           /\ txn[r].op \in {"create_job", "create_draft"}
           /\ ~job[j].exists /\ row.exists
           /\ job' \in [Jobs -> JobRow] /\ job'[j] = row
           /\ \A k \in Jobs : k # j => job'[k] = job[k]
           /\ assignments' = assignments /\ customers' = customers /\ changed' = changed
    BY <1>5, CreatesJob
  <2>2. SchedulingTypeOK'
    BY <2>1 DEF CrewInv, SchedulingTypeOK
  <2>3. \A s \in Open' : s \in Open /\ s # r /\ txn'[s] = txn[s]
    BY <1>0, <2>1 DEF Ends
  <2>4. \A s \in Open' : txn[s].op \in {"create_job", "create_draft"} => txn[s].key.job # j
    BY <2>1, <2>3 DEF CrewInv, FreshJobs, Ends
  <2>5. \A k \in Jobs : job[k].exists => job'[k].exists
    BY <2>1
  <2>6. CrewSessions'
    BY <2>1, <2>3, <2>4, <2>5 DEF CrewInv, CrewSessions
  <2>7. FreshJobs'
    BY <2>3 DEF CrewInv, FreshJobs
  <2>8. QED
    BY <1>2, <2>1, <2>2, <2>5, <2>6, <2>7 DEF CrewInv
<1>6. ASSUME NEW r \in Requests, CommitUpdateJob(r) PROVE CrewInv'
  <2>1. PICK j \in Jobs, row \in JobRow :
           /\ Ends(r) /\ Touch(r, j)
           /\ job[j].exists /\ row.exists
           /\ job' \in [Jobs -> JobRow] /\ job'[j] = row
           /\ \A k \in Jobs : k # j => job'[k] = job[k]
           /\ assignments' = assignments /\ customers' = customers
    BY <1>6, UpdatesJob
  <2>2. SchedulingTypeOK'
    BY <2>1, TouchDoes DEF CrewInv, SchedulingTypeOK
  <2>3. \A s \in Open' : s \in Open /\ txn'[s] = txn[s]
    BY <1>0, <2>1 DEF Ends
  <2>4. \A k \in Jobs : job[k].exists <=> job'[k].exists
    BY <2>1
  <2>5. CrewSessions' /\ FreshJobs'
    BY <2>3, <2>4 DEF CrewInv, CrewSessions, FreshJobs
  <2>6. QED
    BY <1>2, <2>1, <2>2, <2>4, <2>5 DEF CrewInv
<1>7. ASSUME NEW r \in Requests, CommitAssign(r) PROVE CrewInv'
  <2>1. PICK j \in Jobs, w \in Users, row \in JobRow :
           /\ Ends(r) /\ j = txn[r].key.job /\ w = txn[r].key.worker
           /\ txn[r].op = "assign" /\ txn'[r].pc = "closed"
           /\ assignments' = assignments \cup {[id |-> r, job |-> j, worker |-> w]}
           /\ customers' = customers
           /\ job[j].exists /\ row.exists
           /\ job' \in [Jobs -> JobRow] /\ job'[j] = row
           /\ \A k \in Jobs : k # j => job'[k] = job[k]
           /\ Touch(r, j) \/ changed' = changed
    BY <1>7, Assigns
  <2>2. PICK new \in Assignment : /\ new = [id |-> r, job |-> j, worker |-> w]
                                  /\ new.id = r /\ new.job = j /\ new.worker = w
    <3>1. [id |-> r, job |-> j, worker |-> w] \in Assignment
      BY DEF Assignment
    <3>2. QED
      BY <3>1
  <2>3. SchedulingTypeOK'
    BY <2>1, <2>2, TouchDoes DEF CrewInv, SchedulingTypeOK
  <2>4. \A s \in Open' : s \in Open /\ txn'[s] = txn[s]
    BY <1>0, <2>1 DEF Ends
  <2>5. \A k \in Jobs : job[k].exists <=> job'[k].exists
    BY <2>1
  <2>6. CrewSessions' /\ FreshJobs'
    BY <2>4, <2>5 DEF CrewInv, CrewSessions, FreshJobs
  <2>7. ASSUME NEW a \in assignments
        PROVE  /\ a \in Assignment /\ job'[a.job].exists
               /\ txn'[a.id].pc = "closed" /\ txn'[a.id].op = "assign"
               /\ txn'[a.id].key.job = a.job /\ txn'[a.id].key.worker = a.worker
    BY <1>1, <2>5 DEF CrewInv, AssignmentsInv, RecordsStay, Assignment, Done
  <2>8. /\ job'[new.job].exists
        /\ txn'[new.id].pc = "closed" /\ txn'[new.id].op = "assign"
        /\ txn'[new.id].key.job = new.job /\ txn'[new.id].key.worker = new.worker
    BY <2>1, <2>2 DEF Ends
  <2>9. AssignmentsInv'
    BY <2>1, <2>2, <2>7, <2>8 DEF AssignmentsInv, Done
  <2>10. QED
    BY <2>3, <2>6, <2>9 DEF CrewInv
<1>8. QED
  BY <1>3, <1>4, <1>5, <1>6, <1>7, QuietOrNot

CrewsInv == CatalogInv /\ TickInv /\ UserInv /\ CrewInv

\* What the back office keeps true of its sessions and tables.
THEOREM BackofficeInvariant == Spec => []CrewsInv
<1>1. Init => CrewInv
  BY CrewInits DEF Init
<1>2. CatalogInv /\ CrewInv /\ [Next]_vars => CrewInv'
  BY CrewStep DEF CatalogInv
<1>3. Spec => []CrewInv
  BY <1>1, <1>2, CatalogInvariant, PTL DEF Spec
<1>4. QED
  BY <1>3, CatalogInvariant, TickInvariant, UserInvariant, PTL DEF CrewsInv

\* Every table and session of the back office has its type.
THEOREM BackofficeTypeCorrect == Spec => []TypeOK
<1>1. CrewsInv => TypeOK
  BY DEF CrewsInv, CatalogInv, SessionInv, MaterialInv, TickInv, UserInv, CrewInv,
     TypeOK, WorkspaceTypeOK
<1>2. QED
  BY <1>1, BackofficeInvariant, PTL

-----------------------------------------------------------------------------
(* Double bookings.                                                        *)

\* Two requests ran together, or a job of the two changed since both began.
Excused(x, y, j, k) ==
    \/ y \in overlap[x]
    \/ \E i \in {j, k} : i \in changed[x] /\ i \in changed[y]

Clash(j, k) == Active(k) /\ Overlapping(j, k)

BookingInv ==
    /\ \A a, b \in assignments :
          /\ a.worker = b.worker /\ a.job # b.job
          /\ Active(a.job) /\ Clash(a.job, b.job)
          => Excused(a.id, b.id, a.job, b.job)
    /\ \A r \in Open : txn[r].op = "assign" =>
          \A a \in assignments :
              /\ a.worker = txn[r].key.worker /\ a.job # txn[r].key.job
              /\ Clash(txn[r].key.job, a.job)
              => Excused(r, a.id, txn[r].key.job, a.job)

LEMMA SameJobs ==
  ASSUME NEW j \in Jobs, NEW k \in Jobs, job'[k] = job[k],
         job'[j].date = job[j].date, job'[j].duration = job[j].duration
  PROVE  /\ Active(k)' = Active(k)
         /\ Clash(j, k)' = Clash(j, k)
         /\ Overlapping(j, k)' = Overlapping(j, k)
  BY DEF Active, Clash, Overlapping, Length

LEMMA OverlappingSym ==
  ASSUME NEW j, NEW k
  PROVE  Overlapping(j, k) = Overlapping(k, j)
  BY DEF Overlapping

LEMMA ExcusedStays ==
  ASSUME NEW x \in Requests, NEW y \in Requests, NEW j, NEW k,
         RecordsStay, \A s \in Requests : changed[s] \subseteq changed'[s],
         Excused(x, y, j, k)
  PROVE  Excused(x, y, j, k)'
  BY DEF Excused, RecordsStay

LEMMA ExcusedSym ==
  ASSUME SessionInv, NEW x \in Requests, NEW y \in Requests, NEW j, NEW k,
         Excused(x, y, j, k)
  PROVE  Excused(y, x, k, j)
  BY DEF Excused, SessionInv, OverlapInv

\* A step that makes no assignment and changes at most the row of job j, about
\* which every other session hears.
LEMMA BookingKept ==
  ASSUME SessionInv, CrewInv, BookingInv, RecordsStay,
         assignments' \subseteq assignments,
         \A s \in Requests : changed[s] \subseteq changed'[s],
         \A s \in Open' : txn'[s].op = "assign" => s \in Open /\ txn'[s] = txn[s],
         NEW S \in SUBSET Jobs,
         \A k \in Jobs : k \notin S /\ job[k].exists => job'[k] = job[k],
         \A k \in S, s \in Requests : s \in Open' \/ txn[s].pc = "closed" => k \in changed'[s]
  PROVE  BookingInv'
<1>1. \A a \in assignments : /\ a.id \in Requests /\ a.job \in Jobs /\ job[a.job].exists
                             /\ txn[a.id].pc = "closed"
  BY DEF CrewInv, AssignmentsInv, Assignment, Done
<1>2. ASSUME NEW a \in assignments', NEW b \in assignments', a.worker = b.worker,
             a.job # b.job, Active(a.job)', Clash(a.job, b.job)'
      PROVE  Excused(a.id, b.id, a.job, b.job)'
  <2>1. CASE a.job \in S \/ b.job \in S
    BY <1>1, <2>1 DEF Excused
  <2>2. CASE a.job \notin S /\ b.job \notin S
    <3>1. job'[a.job] = job[a.job] /\ job'[b.job] = job[b.job]
      BY <1>1, <2>2
    <3>2. Active(a.job) /\ Clash(a.job, b.job)
      BY <1>1, <1>2, <3>1, SameJobs
    <3>3. QED
      BY <1>1, <1>2, <3>2, ExcusedStays DEF BookingInv
  <2>3. QED
    BY <2>1, <2>2
<1>3. ASSUME NEW r \in Open', txn'[r].op = "assign", NEW j, j = txn[r].key.job,
             NEW a \in assignments', a.worker = txn[r].key.worker, a.job # j,
             Clash(j, a.job)'
      PROVE  Excused(r, a.id, j, a.job)'
  <2>1. /\ r \in Open /\ r \in Requests /\ txn[r].op = "assign"
        /\ j \in Jobs /\ job[j].exists
    BY <1>3 DEF CrewInv, CrewSessions, Open
  <2>2. CASE j \in S \/ a.job \in S
    BY <1>1, <2>1, <2>2 DEF Excused
  <2>3. CASE j \notin S /\ a.job \notin S
    <3>1. job'[j] = job[j] /\ job'[a.job] = job[a.job]
      BY <1>1, <2>1, <2>3
    <3>2. Clash(j, a.job)
      BY <1>1, <1>3, <2>1, <3>1, SameJobs
    <3>3. QED
      BY <1>1, <1>3, <2>1, <3>2, ExcusedStays DEF BookingInv
  <2>4. QED
    BY <2>2, <2>3
<1>4. ASSUME NEW r \in Open', txn'[r].op = "assign"
      PROVE  txn'[r] = txn[r]
  BY <1>4
<1>5. QED
  BY <1>2, <1>3, <1>4 DEF BookingInv, Excused, Clash

LEMMA BookingStep ==
  ASSUME SessionInv, CrewInv, BookingInv, [Next]_vars
  PROVE  BookingInv'
<1>0. Open \subseteq Requests /\ RecordsStay
  BY QuietOrNot DEF Open
<1> USE DEF CrewOps, SchedulingOps
<1>1. CASE QuietStep
  <2>1. {} \in SUBSET Jobs
    OBVIOUS
  <2>2. QED
    BY <1>0, <1>1, <2>1, BookingKept DEF QuietStep
<1>2. ASSUME NEW r \in Requests, BeginOnJob(r) PROVE BookingInv'
  <2>1. PICK new : new = txn'[r]
    OBVIOUS
  <2>2. /\ job' = job /\ assignments' = assignments /\ changed' = changed
        /\ r \notin Open /\ Open' = Open \cup {r}
        /\ \A s \in Requests : s # r => txn'[s] = txn[s]
        /\ new.op = "assign" => ~UserBusy(new.key.worker, new.key.job)
    BY <1>2, <2>1, BeginsOnJob
  <2>3. \A j, k : /\ Active(j)' = Active(j) /\ Clash(j, k)' = Clash(j, k)
    BY <2>2 DEF Active, Clash, Overlapping, Length
  <2>4. \A a \in assignments : a.id \in Requests
    BY DEF CrewInv, AssignmentsInv, Assignment
  <2>5. ASSUME NEW a \in assignments', NEW b \in assignments', a.worker = b.worker,
               a.job # b.job, Active(a.job)', Clash(a.job, b.job)'
        PROVE  Excused(a.id, b.id, a.job, b.job)'
    BY <1>0, <2>2, <2>3, <2>4, <2>5, ExcusedStays DEF BookingInv
  <2>6. ASSUME NEW s \in Open, txn[s].op = "assign", NEW j, j = txn[s].key.job,
               NEW a \in assignments', a.worker = txn[s].key.worker, a.job # j,
               Clash(j, a.job)'
        PROVE  Excused(s, a.id, j, a.job)'
    BY <1>0, <2>2, <2>3, <2>4, <2>6, ExcusedStays DEF BookingInv
  <2>7. ASSUME new.op = "assign", NEW j, j = new.key.job, NEW a \in assignments',
               a.worker = new.key.worker, a.job # j, Clash(j, a.job)'
        PROVE  FALSE
    BY <2>2, <2>3, <2>7 DEF UserBusy, Clash
  <2>8. QED
    BY <1>0, <2>1, <2>2, <2>5, <2>6, <2>7 DEF BookingInv, Excused, Clash
<1>3. ASSUME NEW r \in Requests, CommitCreateJob(r) PROVE BookingInv'
  <2>1. PICK j \in Jobs, row \in JobRow :
           /\ Ends(r) /\ ~job[j].exists
           /\ \A k \in Jobs : k # j => job'[k] = job[k]
           /\ assignments' = assignments /\ changed' = changed
    BY <1>3, CreatesJob
  <2>2. {} \in SUBSET Jobs
    OBVIOUS
  <2>3. \A s \in Open' : s \in Open /\ txn'[s] = txn[s]
    BY <1>0, <2>1 DEF Ends
  <2>4. QED
    BY <1>0, <2>1, <2>2, <2>3, BookingKept
<1>4. ASSUME NEW r \in Requests, CommitUpdateJob(r) PROVE BookingInv'
  <2>1. PICK j \in Jobs, row \in JobRow :
           /\ Ends(r) /\ Touch(r, j)
           /\ \A k \in Jobs : k # j => job'[k] = job[k]
           /\ assignments' = assignments
    BY <1>4, UpdatesJob
  <2>2. {j} \in SUBSET Jobs
    OBVIOUS
  <2>3. \A s \in Open' : s \in Open /\ txn'[s] = txn[s] /\ txn[s].pc = "open"
    BY <1>0, <2>1 DEF Ends, Open
  <2>4. /\ \A s \in Requests : changed[s] \subseteq changed'[s]
        /\ \A s \in Requests : s \in Open' \/ txn[s].pc = "closed" => j \in changed'[s]
    BY <2>1, <2>3, TouchDoes DEF Ends, Open
  <2>5. PICK S \in SUBSET Jobs : S = {j}
    BY <2>2
  <2>6. /\ assignments' \subseteq assignments
        /\ \A k \in Jobs : k \notin S /\ job[k].exists => job'[k] = job[k]
        /\ \A k \in S, s \in Requests : s \in Open' \/ txn[s].pc = "closed" => k \in changed'[s]
        /\ \A s \in Open' : txn'[s].op = "assign" => s \in Open /\ txn'[s] = txn[s]
    BY <2>1, <2>3, <2>4, <2>5
  <2>7. QED
    BY <1>0, <2>4, <2>6, BookingKept
<1>5. ASSUME NEW r \in Requests, CommitAssign(r) PROVE BookingInv'
  <2>1. PICK j \in Jobs, w \in Users, row \in JobRow :
           /\ Ends(r) /\ j = txn[r].key.job /\ w = txn[r].key.worker
           /\ txn[r].op = "assign"
           /\ assignments' = assignments \cup {[id |-> r, job |-> j, worker |-> w]}
           /\ job'[j] = row
           /\ \A k \in Jobs : k # j => job'[k] = job[k]
           /\ row.date = job[j].date /\ row.duration = job[j].duration
           /\ Touch(r, j) \/ (row = job[j] /\ changed' = changed)
    BY <1>5, Assigns
  <2>2. PICK new : /\ new = [id |-> r, job |-> j, worker |-> w]
                   /\ new.id = r /\ new.job = j /\ new.worker = w
    <3> DEFINE made == [id |-> r, job |-> j, worker |-> w]
    <3>1. made.id = r /\ made.job = j /\ made.worker = w
      OBVIOUS
    <3>2. QED
      BY <3>1
  <2>3. \A a \in assignments : /\ a.id \in Requests /\ a.job \in Jobs
                               /\ txn[a.id].pc = "closed"
    BY DEF CrewInv, AssignmentsInv, Assignment, Done
  <2>4. \A s \in Requests : changed[s] \subseteq changed'[s]
    BY <2>1, TouchDoes
  <2>5. \/ \A s \in Requests : s \in Open' \/ txn[s].pc = "closed" => j \in changed'[s]
        \/ row = job[j]
    BY <2>1, TouchDoes DEF Ends, Open
  <2>6. \A s \in Open' : /\ s \in Open /\ s # r /\ txn'[s] = txn[s]
                         /\ r \in overlap'[s]
    BY <1>0, <2>1 DEF Ends
  <2>7. ASSUME NEW a \in assignments, NEW b \in assignments, a.worker = b.worker,
               a.job # b.job, Active(a.job)', Clash(a.job, b.job)'
        PROVE  Excused(a.id, b.id, a.job, b.job)'
    <3>1. CASE j \in {a.job, b.job} /\ row # job[j]
      BY <2>3, <2>5, <3>1 DEF Excused
    <3>2. CASE j \notin {a.job, b.job} \/ row = job[j]
      <4>1. job'[a.job] = job[a.job] /\ job'[b.job] = job[b.job]
        BY <2>1, <2>3, <3>2
      <4>2. Active(a.job) /\ Clash(a.job, b.job)
        BY <2>3, <2>7, <4>1, SameJobs
      <4>3. QED
        BY <1>0, <2>3, <2>4, <2>7, <4>2, ExcusedStays DEF BookingInv
    <3>3. QED
      BY <3>1, <3>2
  <2>8. ASSUME NEW b \in assignments, b.worker = w, b.job # j, Clash(j, b.job)'
        PROVE  Excused(r, b.id, j, b.job)' /\ Excused(b.id, r, b.job, j)'
    <3>1. Clash(j, b.job)
      BY <2>1, <2>3, <2>8, SameJobs
    <3>2. Excused(r, b.id, j, b.job)
      BY <2>1, <2>8, <3>1 DEF BookingInv, Ends
    <3>3. Excused(b.id, r, b.job, j)
      BY <2>3, <3>2, ExcusedSym
    <3>4. QED
      BY <1>0, <2>3, <2>4, <3>2, <3>3, ExcusedStays
  <2>9. ASSUME NEW a \in assignments', NEW b \in assignments', a.worker = b.worker,
               a.job # b.job, Active(a.job)', Clash(a.job, b.job)'
        PROVE  Excused(a.id, b.id, a.job, b.job)'
    <3>1. Active(b.job)' /\ Clash(b.job, a.job)'
      BY <2>9, OverlappingSym DEF Clash, Overlapping
    <3>2. CASE a \in assignments /\ b \in assignments
      BY <2>7, <2>9, <3>2
    <3>3. CASE a = new /\ b \in assignments
      BY <2>2, <2>8, <2>9, <3>3
    <3>4. CASE a \in assignments /\ b = new
      BY <2>2, <2>8, <2>9, <3>1, <3>4
    <3>5. QED
      BY <2>1, <2>2, <2>9, <3>2, <3>3, <3>4
  <2>10. ASSUME NEW s \in Open', txn[s].op = "assign", NEW k, k = txn[s].key.job,
                NEW a \in assignments', a.worker = txn[s].key.worker, a.job # k,
                Clash(k, a.job)'
         PROVE  Excused(s, a.id, k, a.job)'
    <3>1. s \in Open /\ s \in Requests /\ k \in Jobs
      BY <1>0, <2>6, <2>10 DEF CrewInv, CrewSessions
    <3>2. CASE a = new
      BY <2>2, <2>6, <3>2 DEF Excused
    <3>3. CASE a \in assignments /\ j \in {k, a.job} /\ row # job[j]
      BY <2>3, <2>5, <3>1, <3>3 DEF Excused
    <3>4. CASE a \in assignments /\ (j \notin {k, a.job} \/ row = job[j])
      <4>1. job'[k] = job[k] /\ job'[a.job] = job[a.job]
        BY <2>1, <2>3, <3>1, <3>4
      <4>2. Clash(k, a.job)
        BY <2>3, <2>10, <3>1, <3>4, <4>1, SameJobs
      <4>3. QED
        BY <1>0, <2>3, <2>4, <2>10, <3>1, <3>4, <4>2, ExcusedStays DEF BookingInv
    <3>5. QED
      BY <2>1, <2>2, <2>10, <3>2, <3>3, <3>4
  <2>11. QED
    BY <2>6, <2>9, <2>10 DEF BookingInv, Excused, Clash
<1>6. QED
  BY <1>1, <1>2, <1>3, <1>4, <1>5, QuietOrNot

\* A worker gets two overlapping active jobs only from assignments that were
\* in flight together, or when one of the jobs changed after the test.
THEOREM BusyWorkersAreNotTaken == Spec => []DoubleBookingNeedsOverlapOrEdit
<1>1. Init => BookingInv
  BY DEF Init, SchedulingInit, HandlersInit, NewSession, Open, BookingInv
<1>2. CrewsInv /\ BookingInv /\ [Next]_vars => BookingInv'
  BY BookingStep DEF CrewsInv, CatalogInv
<1>3. Spec => []BookingInv
  BY <1>1, <1>2, BackofficeInvariant, PTL DEF Spec
<1>4. BookingInv => DoubleBookingNeedsOverlapOrEdit
  BY DEF BookingInv, Clash, Excused, DoubleBookingNeedsOverlapOrEdit
<1>5. QED
  BY <1>3, <1>4, PTL

-----------------------------------------------------------------------------
(* Completion stamps.                                                      *)

\* Another writer of job j was in flight with r, or with one of its writers.
Mixed(r, j) == \E s \in WritersOf(j) : s \in overlap[r]
Torn(j)     == \E r \in WritersOf(j) : Mixed(r, j)

Agrees(row) == row.stamped = (row.status = "completed")

\* A job agrees with its stamp unless it is torn; so does the row a handler
\* loaded; and what a handler loaded is still so unless another writer came
\* between.
StampInv ==
    /\ \A j \in Jobs : Agrees(job[j]) \/ Torn(j)
    /\ \A r \in Open, j \in Jobs : txn[r].op = "update_job" /\ j = txn[r].key.job =>
          /\ Agrees(txn[r].saw) \/ Torn(j)
          /\ \/ job[j].status = txn[r].saw.status /\ job[j].stamped = txn[r].saw.stamped
             \/ Mixed(r, j)
    /\ \A r \in Open, j \in Jobs : txn[r].op = "assign" /\ j = txn[r].key.job =>
          job[j].status = txn[r].saw \/ Mixed(r, j)

LEMMA TearsStay ==
  ASSUME RecordsStay, NEW j
  PROVE  /\ WritersOf(j) \subseteq WritersOf(j)'
         /\ \A r \in Requests : Mixed(r, j) => Mixed(r, j)'
         /\ Torn(j) => Torn(j)'
<1>1. WritersOf(j) \subseteq WritersOf(j)'
  BY DEF WritersOf, RecordsStay
<1>2. \A r \in Requests : Mixed(r, j) => Mixed(r, j)'
  BY <1>1 DEF Mixed, RecordsStay
<1>3. WritersOf(j) \subseteq Requests
  BY DEF WritersOf
<1>4. QED
  BY <1>1, <1>2, <1>3 DEF Torn

LEMMA StampStep ==
  ASSUME SessionInv, CrewInv, StampInv, [Next]_vars
  PROVE  StampInv'
<1>0. Open \subseteq Requests /\ RecordsStay
  BY QuietOrNot DEF Open
<1> USE DEF CrewOps, SchedulingOps
\* The sessions that stay open, and the jobs a step leaves alone.
<1>a. ASSUME NEW j \in Jobs, job'[j] = job[j]
      PROVE  /\ Agrees(job[j])' \/ Torn(j)'
             /\ \A r \in Open : txn[r].op = "update_job" /\ j = txn[r].key.job =>
                   /\ Agrees(txn[r].saw) \/ Torn(j)'
                   /\ \/ /\ job'[j].status = txn[r].saw.status
                         /\ job'[j].stamped = txn[r].saw.stamped
                      \/ Mixed(r, j)'
             /\ \A r \in Open : txn[r].op = "assign" /\ j = txn[r].key.job =>
                   job'[j].status = txn[r].saw \/ Mixed(r, j)'
  BY <1>0, <1>a, TearsStay DEF StampInv, Agrees
<1>1. CASE QuietStep
  <2>1. /\ job' = job
        /\ \A s \in Open' : txn'[s].op \in CrewOps => s \in Open /\ txn'[s] = txn[s]
    BY <1>1 DEF QuietStep
  <2>2. \A j \in Jobs : Agrees(job[j])' \/ Torn(j)'
    BY <1>a, <2>1
  <2>3. QED
    BY <1>0, <1>a, <2>1, <2>2 DEF StampInv, Agrees
<1>2. ASSUME NEW r \in Requests, BeginOnJob(r) PROVE StampInv'
  <2>1. PICK new : new = txn'[r]
    OBVIOUS
  <2>2. /\ job' = job /\ r \notin Open /\ Open' = Open \cup {r}
        /\ \A s \in Requests : s # r => txn'[s] = txn[s]
        /\ new.op = "update_job" => new.saw = job[new.key.job]
        /\ new.op = "assign" => new.saw = job[new.key.job].status
    BY <1>2, <2>1, BeginsOnJob
  <2>3. \A j \in Jobs : Agrees(job[j]) \/ Torn(j)'
    BY <1>0, TearsStay DEF StampInv
  <2>4. QED
    BY <1>0, <1>a, <2>1, <2>2, <2>3 DEF StampInv, Agrees
<1>3. ASSUME NEW r \in Requests, NEW j \in Jobs, Ends(r),
             \A k \in Jobs : k # j => job'[k] = job[k],
             Agrees(job'[j]) \/ Torn(j)',
             \A s \in Open' : txn[s].op \in {"update_job", "assign"} /\ j = txn[s].key.job =>
                Mixed(s, j)' \/ job'[j] = job[j]
      PROVE  StampInv'
  <2>1. \A s \in Open' : s \in Open /\ s \in Requests /\ txn'[s] = txn[s]
    BY <1>0, <1>3 DEF Ends
  <2>2. \A k \in Jobs : Agrees(job[k])' \/ Torn(k)'
    BY <1>3, <1>a DEF Agrees
  <2>3. ASSUME NEW s \in Open', NEW k \in Jobs, txn[s].op = "update_job", k = txn[s].key.job
        PROVE  /\ Agrees(txn[s].saw) \/ Torn(k)'
               /\ \/ job'[k].status = txn[s].saw.status /\ job'[k].stamped = txn[s].saw.stamped
                  \/ Mixed(s, k)'
    <3>1. Agrees(txn[s].saw) \/ Torn(k)'
      BY <1>0, <2>1, <2>3, TearsStay DEF StampInv
    <3>2. QED
      BY <1>3, <1>a, <2>1, <2>3, <3>1
  <2>4. ASSUME NEW s \in Open', NEW k \in Jobs, txn[s].op = "assign", k = txn[s].key.job
        PROVE  job'[k].status = txn[s].saw \/ Mixed(s, k)'
    BY <1>3, <1>a, <2>1, <2>4
  <2>5. QED
    BY <2>1, <2>2, <2>3, <2>4 DEF StampInv, Agrees
<1>4. ASSUME NEW r \in Requests, NEW j \in Jobs, Ends(r), txn[r].op \in {"update_job", "assign"},
             j = txn[r].key.job
      PROVE  /\ \A s \in Open' : Mixed(s, j)'
             /\ r \in WritersOf(j)'
             /\ Mixed(r, j) => Torn(j)'
  <2>1. r \in WritersOf(j)'
    BY <1>4 DEF WritersOf, Ends
  <2>2. \A s \in Open' : r \in overlap'[s]
    BY <1>4 DEF Ends
  <2>3. Mixed(r, j) => Mixed(r, j)'
    BY <1>0, TearsStay
  <2>4. QED
    BY <2>1, <2>2, <2>3 DEF Mixed, Torn
<1>5. ASSUME NEW r \in Requests, CommitCreateJob(r) PROVE StampInv'
  <2>1. PICK j \in Jobs, row \in JobRow :
           /\ Ends(r) /\ ~job[j].exists
           /\ row.status # "completed" /\ row.stamped = FALSE
           /\ job'[j] = row
           /\ \A k \in Jobs : k # j => job'[k] = job[k]
    BY <1>5, CreatesJob
  <2>2. Agrees(job'[j])
    BY <2>1 DEF Agrees
  <2>3. \A s \in Open' : txn[s].op \in {"update_job", "assign"} => j # txn[s].key.job
    BY <2>1 DEF Ends, CrewInv, CrewSessions
  <2>4. QED
    BY <1>3, <2>1, <2>2, <2>3
<1>6. ASSUME NEW r \in Requests, CommitUpdateJob(r) PROVE StampInv'
  <2>1. PICK j \in Jobs, row \in JobRow :
           /\ Ends(r) /\ j = txn[r].key.job /\ txn[r].op = "update_job"
           /\ /\ job[j].status = txn[r].saw.status
              /\ job[j].stamped = txn[r].saw.stamped
              /\ txn[r].saw.stamped = (txn[r].saw.status = "completed")
              => row.stamped = (row.status = "completed")
           /\ job'[j] = row
           /\ \A k \in Jobs : k # j => job'[k] = job[k]
    BY <1>6, UpdatesJob
  <2>2. /\ \A s \in Open' : Mixed(s, j)'
        /\ Mixed(r, j) => Torn(j)'
    BY <1>4, <2>1
  <2>3. Agrees(job'[j]) \/ Torn(j)'
    <3>1. /\ Agrees(txn[r].saw) \/ Torn(j)
          /\ \/ job[j].status = txn[r].saw.status /\ job[j].stamped = txn[r].saw.stamped
             \/ Mixed(r, j)
      BY <2>1 DEF StampInv, Ends
    <3>2. QED
      BY <1>0, <2>1, <2>2, <3>1, TearsStay DEF Agrees
  <2>4. QED
    BY <1>3, <2>1, <2>2, <2>3
<1>7. ASSUME NEW r \in Requests, CommitAssign(r) PROVE StampInv'
  <2>1. PICK j \in Jobs, row \in JobRow :
           /\ Ends(r) /\ j = txn[r].key.job /\ txn[r].op = "assign"
           /\ job'[j] = row
           /\ \A k \in Jobs : k # j => job'[k] = job[k]
           /\ row.stamped = job[j].stamped
           /\ \/ txn[r].saw = "draft" /\ row.status = "scheduled"
              \/ row = job[j]
    BY <1>7, Assigns
  <2>2. /\ \A s \in Open' : Mixed(s, j)'
        /\ Mixed(r, j) => Torn(j)'
    BY <1>4, <2>1
  <2>3. Agrees(job'[j]) \/ Torn(j)'
    <3>1. /\ Agrees(job[j]) \/ Torn(j)
          /\ job[j].status = txn[r].saw \/ Mixed(r, j)
      BY <2>1 DEF StampInv, Ends
    <3>2. CASE Agrees(job[j]) /\ job[j].status = txn[r].saw
      BY <2>1, <3>2 DEF Agrees
    <3>3. QED
      BY <1>0, <2>1, <2>2, <3>1, <3>2, TearsStay DEF Agrees
  <2>4. QED
    BY <1>3, <2>1, <2>2, <2>3
<1>8. QED
  BY <1>1, <1>2, <1>5, <1>6, <1>7, QuietOrNot

LEMMA StampInits ==
  ASSUME HandlersInit, SchedulingInit
  PROVE  StampInv
<1>1. Open = {}
  BY DEF HandlersInit, NewSession, Open
<1>2. ASSUME NEW j \in Jobs
      PROVE  job[j].status # "completed" /\ job[j].stamped = FALSE
  <2>1. \/ job[j] = NoJob
        \/ \E c \in Customers, plan \in Plans : job[j] = NewJob(c, plan)
    BY DEF SchedulingInit
  <2>2. CASE job[j] = NoJob
    BY <2>2 DEF NoJob
  <2>3. ASSUME NEW c \in Customers, NEW plan \in Plans, job[j] = NewJob(c, plan)
        PROVE  job[j].status # "completed" /\ job[j].stamped = FALSE
    BY <2>3, NewJobType
  <2>4. QED
    BY <2>1, <2>2, <2>3
<1>3. QED
  BY <1>1, <1>2 DEF StampInv, Agrees

\* A job says when it was completed exactly when it is completed, unless two
\* writers of it were in flight together.
THEOREM StampsAgree == Spec => []CompletionStampNeedsOverlap
<1>1. Init => StampInv
  BY StampInits DEF Init
<1>2. CrewsInv /\ StampInv /\ [Next]_vars => StampInv'
  BY StampStep DEF CrewsInv, CatalogInv
<1>3. Spec => []StampInv
  BY <1>1, <1>2, BackofficeInvariant, PTL DEF Spec
<1>4. StampInv => CompletionStampNeedsOverlap
  BY DEF StampInv, Agrees, Torn, Mixed, CompletionStampNeedsOverlap
<1>5. QED
  BY <1>3, <1>4, PTL

=============================================================================
