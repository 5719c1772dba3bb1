----------------------------- MODULE Backoffice -----------------------------
(***************************************************************************)
(* The employees' side of one organization: users and checklist            *)
(* (Workspace), jobs and crews (Scheduling), suppliers and material orders *)
(* (MaterialOrders), served by the same handlers' processes.               *)
(***************************************************************************)
EXTENDS Scheduling, MaterialOrders

vars == <<handlerVars, workspaceVars, schedulingVars, materialVars>>

\* A new organization, or one that has been at work for a while.
Init ==
    /\ HandlersInit /\ WorkspaceInit /\ SchedulingInit /\ MaterialInit
    /\ \/ /\ \E u \in Users : ~user[u].exists
          /\ \A j \in Jobs : ~job[j].exists
          /\ \A i \in Items : item[i] = NoItem
       \/ /\ \A u \in Users : user[u].exists
          /\ \A j \in Jobs : job[j].exists
          /\ \E i \in Items : item[i] # NoItem

Next ==
    \/ WorkspaceNext  /\ UNCHANGED <<schedulingVars, materialVars>>
    \/ SchedulingNext /\ UNCHANGED materialVars
    \/ MaterialNext   /\ UNCHANGED <<workspaceVars, schedulingVars>>

Spec == Init /\ [][Next]_vars

TypeOK ==
    /\ HandlersTypeOK
    /\ WorkspaceTypeOK
    /\ SchedulingTypeOK
    /\ MaterialTypeOK

=============================================================================
