------------------------------ MODULE Workspace ------------------------------
(***************************************************************************)
(* One organization: its users with their roles, and its onboarding        *)
(* checklist (api/routes/org_routes.py, core/rbac.py).                     *)
(*                                                                         *)
(* The checklist is one JSON column of the organization that every handler *)
(* below, and those that create jobs and quotes and accept quotes, reads   *)
(* and writes back whole.  Business information, pricing settings and      *)
(* skills are data no handler tests; what their handlers do to the         *)
(* checklist is modelled.  Passwords, tokens and e-mail addresses of users *)
(* are in Accounts.                                                        *)
(***************************************************************************)
EXTENDS Handlers

CONSTANTS
    Users,       \* the ids of users
    Owner,       \* that of who signed up
    Changes      \* what update_user may be asked for (UpdateUserIn)

VARIABLES
    user,        \* table users: role and is_active
    onboarding   \* organizations.onboarding

workspaceVars == <<user, onboarding>>

-----------------------------------------------------------------------------

Roles == {"OWNER", "ADMIN", "MANAGER", "EMPLOYEE"}

\* A change names a new role, a new is_active, or both; None leaves a column.
ASSUME WorkspaceConstants ==
    /\ Owner \in Users
    /\ None \notin Roles
    /\ None \notin BOOLEAN
    /\ Changes \subseteq [role : Roles \cup {None}, active : BOOLEAN \cup {None}]

\* The roles that hold each permission whose test decides something here.
PERMISSIONS == [users     |-> {"OWNER", "ADMIN"},      \* org:users
                settings  |-> {"OWNER", "ADMIN"},      \* org:settings
                configure |-> {"OWNER", "ADMIN"},      \* pricing:configure
                jobs      |-> Roles,                   \* jobs:write
                quotes    |-> Roles]                   \* quotes:write

\* The steps each handler ticks.
StepsOf ==
    [business_info |-> {"business_info"},
     pricing       |-> {"pricing_configured", "overhead_configured",
                        "material_settings_configured"},
     skill         |-> {"skills_configured", "labor_rates_configured"},
     invite        |-> {"employees_invited"},
     create_job    |-> {"first_job_created"},
     create_quote  |-> {"first_quote_generated"},
     accept_quote  |-> {"first_quote_approved"}]

TickOps == DOMAIN StepsOf

ONBOARDING_STEPS == {"company_created"} \cup UNION {StepsOf[op] : op \in TickOps}

UserRow == [exists : BOOLEAN, role : Roles, active : BOOLEAN]

NoUser == [exists |-> FALSE, role |-> "EMPLOYEE", active |-> FALSE]

Member(role) == [exists |-> TRUE, role |-> role, active |-> TRUE]

WorkspaceTypeOK ==
    /\ user \in [Users -> UserRow]
    /\ onboarding \subseteq ONBOARDING_STEPS

\* After signup, alone or with partners made owners since.
WorkspaceInit ==
    /\ user \in {[u \in Users |-> IF u = Owner THEN Member("OWNER") ELSE NoUser],
                 [u \in Users |-> Member("OWNER")]}
    /\ onboarding = {"company_created"}

-----------------------------------------------------------------------------
(* Permissions.                                                            *)

\* get_current_user and require_permission, on the row loaded for the actor.
Can(u, permission) ==
    /\ user[u].exists
    /\ user[u].active
    /\ user[u].role \in PERMISSIONS[permission]

Admins == {u \in Users : Can(u, "users")}

-----------------------------------------------------------------------------
(* The checklist.                                                          *)

\* Mutant: the column is overwritten with the handler's own steps.
TickOnly(r, steps) == onboarding' = steps

\* The handler writes back the list it loaded, with its steps.  When they
\* were ticked before, the new list may equal the loaded one (or differ from
\* it only in its order), and an equal list is not written.
Tick(r, steps) ==
    \/ onboarding' = txn[r].saw \cup steps
    \/ steps \subseteq txn[r].saw /\ UNCHANGED onboarding

\* The handlers that change, as far as other handlers can tell, only the
\* checklist: update_business_info, update_pricing, create_skill and
\* update_skill, and the ticks of create_quote and accept_quote, whose other
\* effects are in QuoteLifecycle.
PlainTicks == TickOps \ {"invite", "create_job"}

PermissionOf == [business_info |-> "settings", pricing |-> "configure",
                 skill |-> "configure", create_quote |-> "quotes"]

BeginTick(r, op) ==
    /\ op \in PlainTicks
    /\ op # "accept_quote" =>        \* a customer accepts, over a link or by SMS
          \E actor \in Users : Can(actor, PermissionOf[op])
    /\ Load(r, op, None, onboarding)
    /\ UNCHANGED workspaceVars

CommitTick(r) ==
    /\ r \in Open
    /\ txn[r].op \in PlainTicks
    /\ Tick(r, StepsOf[txn[r].op])
    /\ Close(r)
    /\ UNCHANGED user

-----------------------------------------------------------------------------
(* invite_user and update_user.                                            *)

BeginInvite(r, u) ==
    /\ Admins # {}
    /\ ~user[u].exists
    /\ ~ \E s \in Open : txn[s].op = "invite" /\ txn[s].key = u
    /\ Load(r, "invite", u, onboarding)
    /\ UNCHANGED workspaceVars

CommitInvite(r) ==
    /\ InFlight(r, "invite")
    /\ \E role \in Roles \ {"OWNER"} :
          user' = [user EXCEPT ![txn[r].key] = Member(role)]
    /\ Tick(r, StepsOf["invite"])
    /\ Close(r)

\* Mutant: an owner may demote himself.
BeginUpdateUserAny(r, actor, u, change) ==
    /\ Can(actor, "users")
    /\ user[u].exists
    /\ Load(r, "update_user", [actor |-> actor, user |-> u, change |-> change],
            user[u])
    /\ UNCHANGED workspaceVars

BeginUpdateUser(r, actor, u, change) ==
    /\ Can(actor, "users")
    /\ user[u].exists
    /\ ~(actor = u /\ change.role \notin {None, "OWNER"})
    /\ Load(r, "update_user", [actor |-> actor, user |-> u, change |-> change],
            user[u])
    /\ UNCHANGED workspaceVars

\* The value a handler asks for, unless it asks for none or loaded that value
\* already: then the column is not written.
Written(new, loaded, present) == IF new \in {None, loaded} THEN present ELSE new

CommitUpdateUser(r) ==
    LET u      == txn[r].key.user
        change == txn[r].key.change
    IN
    /\ InFlight(r, "update_user")
    /\ user' = [user EXCEPT
                  ![u].role = Written(change.role, txn[r].saw.role, @),
                  ![u].active = Written(change.active, txn[r].saw.active, @)]
    /\ Close(r)
    /\ UNCHANGED onboarding

-----------------------------------------------------------------------------

WorkspaceAbort(r) ==
    /\ r \in Open
    /\ txn[r].op \in PlainTicks \cup {"invite", "update_user"}
    /\ Rollback(r)
    /\ UNCHANGED workspaceVars

WorkspaceNext ==
    \E r \in Requests :
        \/ \E op \in TickOps : BeginTick(r, op)
        \/ \E u \in Users :
             \/ BeginInvite(r, u)
             \/ \E actor \in Users, change \in Changes :
                   BeginUpdateUser(r, actor, u, change)
        \/ CommitTick(r) \/ CommitInvite(r) \/ CommitUpdateUser(r)
        \/ WorkspaceAbort(r)

WorkspaceSpec ==
    /\ HandlersInit /\ WorkspaceInit
    /\ [][WorkspaceNext]_<<handlerVars, workspaceVars>>

-----------------------------------------------------------------------------
(* Properties.                                                             *)

\* A step that was ticked while no other handler had the checklist open stays
\* ticked for ever: the column loses steps to overlapping writers only.
LoneStepsStay ==
    \A r \in Requests :
        /\ txn[r].pc = "closed"
        /\ txn[r].op \in TickOps
        /\ \A s \in overlap[r] : txn[s].op \notin TickOps
        => StepsOf[txn[r].op] \subseteq onboarding

\* Somebody can always administer the users, since nobody can demote himself
\* ("Owners cannot demote themselves"), unless the last administrator
\* deactivated himself, or one was changed while he was changing another.
AdminsLostOnlyByOverlapOrSelf ==
    \/ Admins # {}
    \/ \E r \in Requests :
         /\ Done(r, "update_user")
         /\ txn[r].key.actor = txn[r].key.user
         /\ txn[r].key.change.active = FALSE
    \/ \E r, s \in Requests :
         /\ Done(r, "update_user") /\ Done(s, "update_user")
         /\ s \in overlap[r]
         /\ txn[s].key.user = txn[r].key.actor

=============================================================================
