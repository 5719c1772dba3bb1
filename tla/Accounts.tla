------------------------------ MODULE Accounts ------------------------------
(***************************************************************************)
(* Accounts: signup, invitation, login with its lockout, refresh sessions, *)
(* logout, e-mail verification, password reset and deactivation            *)
(* (api/routes/auth_routes.py, core/auth.py, and the users part of         *)
(* api/routes/org_routes.py).                                              *)
(*                                                                         *)
(* As everywhere in this API a handler loads rows and tests them (Begin),  *)
(* and later writes the columns whose value it changed and commits         *)
(* (Commit); nothing locks a row that is only read.  reset_password has a  *)
(* step in between: its query for the outstanding refresh tokens.          *)
(*                                                                         *)
(* A request is handled once; its identity also stands for the password it *)
(* sets and, with a type, for the token it mints.  A request that is       *)
(* refused writes nothing (or an audit line) and is not a step.  Access    *)
(* tokens are signed and stored nowhere; last_login_at, names and the rate *)
(* limiter (module RateLimiter) are left out, roles are in Workspace.      *)
(***************************************************************************)
EXTENDS Naturals, FiniteSets

CONSTANTS
    Emails,      \* e-mail addresses: users.email is UNIQUE, so they name users
    Requests,    \* handler executions; also the passwords and tokens they mint
    Ttl,         \* life of each type of token, in clock ticks
    LockFor,     \* LOCKOUT_MINUTES, in clock ticks
    MaxFailed,   \* MAX_FAILED_LOGINS
    MaxTime,     \* bound on the clock
    None         \* SQL NULL

TokenTypes == {"refresh", "email_verify", "password_reset"}

ASSUME AccountConstants ==
    /\ Ttl \in [TokenTypes -> Nat]
    /\ LockFor \in Nat \ {0}
    /\ MaxFailed \in Nat \ {0, 1}
    /\ MaxTime \in Nat
    /\ None \notin Requests \cup Emails

VARIABLES
    user,      \* table users
    token,     \* table auth_tokens
    clock,     \* datetime.utcnow()
    txn,       \* per request: its session and what it loaded
    failures,  \* history: failed logins recorded, per user
    lone,      \* history: those since the last clearing that met no rival
    overlap    \* history: the requests that were open at the same time

vars == <<user, token, clock, txn, failures, lone, overlap>>

-----------------------------------------------------------------------------
(* Types.                                                                  *)

Ids == Requests \X TokenTypes

Ops == {"none", "signup", "invite", "login", "bad_login", "refresh",
        "verify", "reset", "deactivate", "activate"}

\* password is the request that set it; lockedUntil 0 is NULL (a lock that is
\* set ends at LockFor or later).
UserRow == [exists      : BOOLEAN,
            active      : BOOLEAN,
            verified    : BOOLEAN,
            password    : Requests \cup {None},
            fails       : Nat,
            lockedUntil : Nat]

\* usedBy is the request that first stamped used_at (None: used_at IS NULL).
\* History: the password behind the session, and the requests that issued it
\* and the sessions it was rotated from.
TokenRow == [owner    : Emails \cup {None},
             expires  : Nat,
             usedBy   : Requests \cup {None},
             password : Requests \cup {None},
             line     : SUBSET Requests]

\* pc "issuing": signup between its two commits; "selected": reset_password
\* after its query.
Session == [pc       : {"new", "open", "issuing", "selected", "closed", "error"},
            op       : Ops,
            email    : Emails \cup {None},
            id       : Ids \cup {None},
            password : Requests \cup {None},
            fails    : Nat,
            lock     : Nat,
            tokens   : SUBSET Ids,
            at       : Nat]

NoUser == [exists |-> FALSE, active |-> FALSE, verified |-> FALSE,
           password |-> None, fails |-> 0, lockedUntil |-> 0]

NoToken == [owner |-> None, expires |-> 0, usedBy |-> None, password |-> None,
            line |-> {}]

NewSession == [pc |-> "new", op |-> "none", email |-> None, id |-> None,
               password |-> None, fails |-> 0, lock |-> 0, tokens |-> {},
               at |-> 0]

TypeOK ==
    /\ user \in [Emails -> UserRow]
    /\ token \in [Ids -> TokenRow]
    /\ clock \in Nat
    /\ txn \in [Requests -> Session]
    /\ failures \in [Emails -> Nat]
    /\ lone \in [Emails -> Nat]
    /\ overlap \in [Requests -> SUBSET Requests]

Init ==
    /\ user = [e \in Emails |-> NoUser]
    /\ token = [i \in Ids |-> NoToken]
    /\ clock = 0
    /\ txn = [r \in Requests |-> NewSession]
    /\ failures = [e \in Emails |-> 0]
    /\ lone = [e \in Emails |-> 0]
    /\ overlap = [r \in Requests |-> {}]

-----------------------------------------------------------------------------
(* Helpers.                                                                *)

Open == {r \in Requests : txn[r].pc \in {"open", "issuing", "selected"}}

InFlight(r, op) == txn[r].pc = "open" /\ txn[r].op = op

\* is_locked_out
LockedOut(e) == user[e].lockedUntil > clock

\* The test refresh, verify_email and reset_password make of the row they
\* loaded.
Valid(i, type) ==
    /\ i[2] = type
    /\ token[i].owner # None
    /\ token[i].usedBy = None
    /\ ~(token[i].expires < clock)

\* Request r starts: it loads the row of user e, and names token i.
Load(r, op, e, i) ==
    /\ txn[r].pc = "new"
    /\ txn' = [txn EXCEPT ![r] =
                 [pc |-> "open", op |-> op, email |-> e, id |-> i,
                  password |-> user[e].password, fails |-> user[e].fails,
                  lock |-> user[e].lockedUntil, tokens |-> {}, at |-> clock]]
    /\ overlap' = [s \in Requests |->
                     IF s = r THEN Open
                     ELSE IF s \in Open THEN overlap[s] \cup {r}
                     ELSE overlap[s]]
    /\ UNCHANGED <<user, token, clock, failures, lone>>

\* The session of r ends; what it did to whom stays on record.
Close(r, phase) ==
    txn' = [txn EXCEPT ![r] =
              [@ EXCEPT !.pc = phase, !.password = None, !.fails = 0,
                        !.lock = 0, !.tokens = {}, !.at = 0]]

\* Mutant: the columns of owner and password are swapped.
MintedSwapped(r, type, e, password, line) ==
    [owner |-> password, expires |-> txn[r].at + Ttl[type], usedBy |-> None,
     password |-> e, line |-> line]

\* A new row of auth_tokens (_store_token, and the refresh token of
\* _issue_session).
Minted(r, type, e, password, line) ==
    [owner |-> e, expires |-> txn[r].at + Ttl[type], usedBy |-> None,
     password |-> password, line |-> line]

\* used_at is set on the tokens of S: the first stamp is the one that counts.
Stamped(S, r) ==
    [i \in Ids |-> IF i \in S /\ token[i].usedBy = None
                   THEN [token[i] EXCEPT !.usedBy = r]
                   ELSE token[i]]

\* Clearing the failure counter and the lock writes only the columns that the
\* handler had loaded with another value.
Cleared(r) ==
    LET row == user[txn[r].email] IN
    [row EXCEPT !.fails       = IF txn[r].fails = 0 THEN @ ELSE 0,
                !.lockedUntil = IF txn[r].lock = 0 THEN @ ELSE 0]

-----------------------------------------------------------------------------
(* signup and invite_user.  signup commits twice: the account with its     *)
(* verification token, then the first session.                             *)

BeginSignup(r, e) ==
    /\ ~user[e].exists
    /\ Load(r, "signup", e, None)

BeginInvite(r, e) ==
    /\ ~user[e].exists
    /\ Load(r, "invite", e, None)

CommitAccount(r) ==
    LET e == txn[r].email IN
    /\ InFlight(r, "signup") \/ InFlight(r, "invite")
    /\ ~user[e].exists
    /\ user' = [user EXCEPT ![e] = [NoUser EXCEPT !.exists = TRUE,
                                                  !.active = TRUE,
                                                  !.password = r]]
    /\ token' = [token EXCEPT ![<<r, "email_verify">>] =
                   Minted(r, "email_verify", e, None, {r})]
    /\ IF txn[r].op = "signup"
       THEN txn' = [txn EXCEPT ![r].pc = "issuing"]
       ELSE Close(r, "closed")
    /\ UNCHANGED <<clock, failures, lone, overlap>>

\* Another request has taken the address: the flush violates users.email.
RejectAccount(r) ==
    /\ InFlight(r, "signup") \/ InFlight(r, "invite")
    /\ user[txn[r].email].exists
    /\ Close(r, "error")
    /\ UNCHANGED <<user, token, clock, failures, lone, overlap>>

CommitSignupSession(r) ==
    /\ txn[r].pc = "issuing"
    /\ token' = [token EXCEPT ![<<r, "refresh">>] =
                   Minted(r, "refresh", txn[r].email, r, {r})]
    /\ Close(r, "closed")
    /\ UNCHANGED <<user, clock, failures, lone, overlap>>

-----------------------------------------------------------------------------
(* login.                                                                  *)

BeginLogin(r, e, op) ==
    /\ op \in {"login", "bad_login"}
    /\ user[e].exists
    /\ ~LockedOut(e)
    /\ user[e].active
    /\ Load(r, op, e, None)

\* The password was right: register_successful_login, _issue_session.
CommitLogin(r) ==
    LET e == txn[r].email IN
    /\ InFlight(r, "login")
    /\ user' = [user EXCEPT ![e] = Cleared(r)]
    /\ token' = [token EXCEPT ![<<r, "refresh">>] =
                   Minted(r, "refresh", e, txn[r].password, {r})]
    /\ lone' = [lone EXCEPT ![e] = 0]
    /\ Close(r, "closed")
    /\ UNCHANGED <<clock, failures, overlap>>

\* Requests that may have written the counter while r was open.
CounterRivals(r) ==
    {s \in overlap[r] : /\ txn[s].email = txn[r].email
                        /\ txn[s].op \in {"login", "bad_login", "reset"}}

\* Mutant: the account is locked one failure early.
CommitBadLoginEarly(r) ==
    LET e     == txn[r].email
        count == txn[r].fails + 1
    IN
    /\ InFlight(r, "bad_login")
    /\ user' = [user EXCEPT
                  ![e].fails = IF count >= MaxFailed - 1 THEN 0 ELSE count,
                  ![e].lockedUntil =
                      IF count >= MaxFailed - 1 THEN txn[r].at + LockFor ELSE @]
    /\ failures' = [failures EXCEPT ![e] = @ + 1]
    /\ lone' = [lone EXCEPT ![e] = IF count >= MaxFailed - 1 THEN 0
                                   ELSE IF CounterRivals(r) = {} THEN @ + 1
                                   ELSE @]
    /\ Close(r, "closed")
    /\ UNCHANGED <<token, clock, overlap>>

\* Mutant: the failure is noted in the log and not in the row.
CommitBadLoginUncounted(r) ==
    LET e == txn[r].email IN
    /\ InFlight(r, "bad_login")
    /\ failures' = [failures EXCEPT ![e] = @ + 1]
    /\ lone' = [lone EXCEPT ![e] = IF CounterRivals(r) = {} THEN @ + 1 ELSE @]
    /\ Close(r, "closed")
    /\ UNCHANGED <<user, token, clock, overlap>>

\* The password was wrong: register_failed_login counts from the value that
\* was loaded.
CommitBadLogin(r) ==
    LET e     == txn[r].email
        count == txn[r].fails + 1
    IN
    /\ InFlight(r, "bad_login")
    /\ user' = [user EXCEPT
                  ![e].fails = IF count >= MaxFailed THEN 0 ELSE count,
                  ![e].lockedUntil =
                      IF count >= MaxFailed THEN txn[r].at + LockFor ELSE @]
    /\ failures' = [failures EXCEPT ![e] = @ + 1]
    /\ lone' = [lone EXCEPT ![e] = IF count >= MaxFailed THEN 0
                                   ELSE IF CounterRivals(r) = {} THEN @ + 1
                                   ELSE @]
    /\ Close(r, "closed")
    /\ UNCHANGED <<token, clock, overlap>>

-----------------------------------------------------------------------------
(* refresh and logout.                                                     *)

\* Mutant: refresh does not look at used_at.
BeginRefreshUsed(r, i) ==
    /\ i[2] = "refresh"
    /\ token[i].owner # None
    /\ ~(token[i].expires < clock)
    /\ user[token[i].owner].active
    /\ Load(r, "refresh", token[i].owner, i)

BeginRefresh(r, i) ==
    /\ Valid(i, "refresh")
    /\ user[token[i].owner].active
    /\ Load(r, "refresh", token[i].owner, i)

CommitRefresh(r) ==
    LET i == txn[r].id IN
    /\ InFlight(r, "refresh")
    /\ token' = [Stamped({i}, r) EXCEPT ![<<r, "refresh">>] =
                   Minted(r, "refresh", txn[r].email, token[i].password,
                          token[i].line \cup {r})]
    /\ Close(r, "closed")
    /\ UNCHANGED <<user, clock, failures, lone, overlap>>

\* logout tests nothing but the type, so loading and writing are one step.
Logout(r, i) ==
    /\ txn[r].pc = "new"
    /\ i[2] = "refresh"
    /\ token[i].owner # None
    /\ token' = Stamped({i}, r)
    /\ txn' = [txn EXCEPT ![r].pc = "closed"]
    /\ overlap' = [s \in Requests |->
                     IF s = r THEN Open
                     ELSE IF s \in Open THEN overlap[s] \cup {r}
                     ELSE overlap[s]]
    /\ UNCHANGED <<user, clock, failures, lone>>

-----------------------------------------------------------------------------
(* verify_email, resend_verification, forgot_password.                     *)

BeginVerify(r, i) ==
    /\ Valid(i, "email_verify")
    /\ Load(r, "verify", token[i].owner, i)

CommitVerify(r) ==
    /\ InFlight(r, "verify")
    /\ token' = Stamped({txn[r].id}, r)
    /\ user' = [user EXCEPT ![txn[r].email].verified = TRUE]
    /\ Close(r, "closed")
    /\ UNCHANGED <<clock, failures, lone, overlap>>

\* Both handlers insert one token and write nothing else: one step.
MailToken(r, e, type) ==
    /\ txn[r].pc = "new"
    /\ user[e].exists
    /\ \/ type = "email_verify" /\ ~user[e].verified
       \/ type = "password_reset" /\ user[e].active
    /\ token' = [token EXCEPT ![<<r, type>>] =
                   [NoToken EXCEPT !.owner = e, !.expires = clock + Ttl[type],
                                   !.line = {r}]]
    /\ txn' = [txn EXCEPT ![r].pc = "closed"]
    /\ UNCHANGED <<user, clock, failures, lone, overlap>>

-----------------------------------------------------------------------------
(* reset_password.                                                         *)

BeginReset(r, i) ==
    /\ Valid(i, "password_reset")
    /\ Load(r, "reset", token[i].owner, i)

\* The query for the outstanding refresh tokens flushes the new password
\* first: the UPDATE takes the row of the user, so a second reset of the same
\* user waits here for the first to commit.
SelectTokens(r) ==
    LET e == txn[r].email IN
    /\ InFlight(r, "reset")
    /\ ~ \E s \in Requests : txn[s].pc = "selected" /\ txn[s].email = e
    /\ txn' = [txn EXCEPT ![r] =
                 [@ EXCEPT !.pc = "selected",
                           !.tokens = {i \in Ids : /\ i[2] = "refresh"
                                                   /\ token[i].owner = e
                                                   /\ token[i].usedBy = None}]]
    /\ UNCHANGED <<user, token, clock, failures, lone, overlap>>

\* Mutant: the outstanding sessions are left alone.
CommitResetKeepsSessions(r) ==
    LET e == txn[r].email IN
    /\ txn[r].pc = "selected"
    /\ token' = Stamped({txn[r].id}, r)
    /\ user' = [user EXCEPT ![e] = [Cleared(r) EXCEPT !.password = r]]
    /\ lone' = [lone EXCEPT ![e] = 0]
    /\ Close(r, "closed")
    /\ UNCHANGED <<clock, failures, overlap>>

CommitReset(r) ==
    LET e == txn[r].email IN
    /\ txn[r].pc = "selected"
    /\ token' = Stamped({txn[r].id} \cup txn[r].tokens, r)
    /\ user' = [user EXCEPT ![e] = [Cleared(r) EXCEPT !.password = r]]
    /\ lone' = [lone EXCEPT ![e] = 0]
    /\ Close(r, "closed")
    /\ UNCHANGED <<clock, failures, overlap>>

-----------------------------------------------------------------------------
(* update_user, as far as is_active goes: a value equal to the loaded one  *)
(* is not written, so such a request is not a step.                        *)

BeginSetActive(r, e, op) ==
    /\ user[e].exists
    /\ \/ op = "deactivate" /\ user[e].active
       \/ op = "activate" /\ ~user[e].active
    /\ Load(r, op, e, None)

CommitSetActive(r) ==
    /\ InFlight(r, "deactivate") \/ InFlight(r, "activate")
    /\ user' = [user EXCEPT ![txn[r].email].active = (txn[r].op = "activate")]
    /\ Close(r, "closed")
    /\ UNCHANGED <<token, clock, failures, lone, overlap>>

-----------------------------------------------------------------------------
(* A request dies before its commit; time passes.                          *)

Abort(r) ==
    /\ r \in Open
    /\ Close(r, "error")
    /\ UNCHANGED <<user, token, clock, failures, lone, overlap>>

Advance ==
    /\ clock < MaxTime
    /\ clock' = clock + 1
    /\ UNCHANGED <<user, token, txn, failures, lone, overlap>>

Next ==
    \/ \E r \in Requests :
         \/ \E e \in Emails :
              \/ BeginSignup(r, e) \/ BeginInvite(r, e)
              \/ \E op \in Ops : BeginLogin(r, e, op) \/ BeginSetActive(r, e, op)
              \/ \E type \in TokenTypes : MailToken(r, e, type)
         \/ \E i \in Ids :
              \/ BeginRefresh(r, i) \/ Logout(r, i)
              \/ BeginVerify(r, i) \/ BeginReset(r, i)
         \/ CommitAccount(r) \/ RejectAccount(r) \/ CommitSignupSession(r)
         \/ CommitLogin(r) \/ CommitBadLogin(r)
         \/ CommitRefresh(r) \/ CommitVerify(r)
         \/ SelectTokens(r) \/ CommitReset(r) \/ CommitSetActive(r)
         \/ Abort(r)
    \/ Advance

Spec == Init /\ [][Next]_vars

-----------------------------------------------------------------------------
(* Properties.                                                             *)

Done(r, op) == txn[r].pc = "closed" /\ txn[r].op = op

Consumers == {"refresh", "verify", "reset"}

\* Once a token is stamped (rotated, used, logged out, or revoked by a reset)
\* it does nothing any more: whatever request took effect through it is the
\* one that stamped it first, or was in flight together with that one.
\* (used_at is tested at refresh, verify_email and reset_password.)
SpentTokensDoNothing ==
    \A r \in Requests :
        txn[r].pc = "closed" /\ txn[r].op \in Consumers =>
            \/ token[txn[r].id].usedBy = r
            \/ token[txn[r].id].usedBy \in overlap[r]

\* A password reset ends every session: a refresh token that is still good
\* although its session began with another password than the present one goes
\* back to a request that was in flight together with a reset of that user.
OldSessionsNeedOverlap ==
    \A i \in Ids :
        /\ i[2] = "refresh"
        /\ token[i].owner # None
        /\ token[i].usedBy = None
        /\ token[i].password # user[token[i].owner].password
        => \E s \in Requests :
              /\ Done(s, "reset")
              /\ txn[s].email = token[i].owner
              /\ token[i].line \cap overlap[s] # {}

\* An account is locked only after MaxFailed recorded failures, whatever stale
\* counters were written back.
LockNeedsFailures ==
    \A e \in Emails : user[e].lockedUntil # 0 => failures[e] >= MaxFailed

\* The counter may lose failures that overlap another login or a reset of the
\* same user, and loses no other: it is at least the number of failures that
\* met no rival since it was last cleared, and stays below the limit.
LoneFailuresAreCounted ==
    \A e \in Emails : lone[e] <= user[e].fails /\ user[e].fails < MaxFailed

\* "Rotation: each refresh token is single-use" (auth_routes.py:265): no two
\* requests get a session out of one refresh token.
RefreshTokensAreSingleUse ==
    \A r, s \in Requests :
        Done(r, "refresh") /\ Done(s, "refresh") /\ txn[r].id = txn[s].id => r = s

=============================================================================
