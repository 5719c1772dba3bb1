--------------------------- MODULE AccountsProofs ---------------------------
(***************************************************************************)
(* Proofs about Accounts, for every set of addresses and requests, every   *)
(* lockout limit, lock time and life of tokens, and every bound on the     *)
(* clock.                                                                  *)
(***************************************************************************)
EXTENDS Accounts, TLAPS

-----------------------------------------------------------------------------
(* What loads and the ends of sessions do.                                 *)

LEMMA NullIsNoId ==
  /\ None \notin Requests
  /\ None \notin Emails
  BY AccountConstants

\* A session that begins: the row it loads exists unless it is to be made, and
\* a token it is to consume is good.
Begins(r, op, e, i) ==
    /\ e \in Emails
    /\ op \in Ops \ {"none"}
    /\ i \in Ids \cup {None}
    /\ op \notin {"signup", "invite"} => user[e].exists \/ op \in Consumers
    /\ op \in Consumers => /\ i \in Ids
                           /\ token[i].owner = e
                           /\ token[i].usedBy = None
    /\ op = "refresh" => i[2] = "refresh"
    /\ Load(r, op, e, i)

BeginStep(r) == \E op \in Ops, e \in Emails, i \in Ids \cup {None} : Begins(r, op, e, i)

\* Every handler's first half is such a step.
LEMMA BeginsBegin ==
  ASSUME TypeOK, NEW r \in Requests
  PROVE  /\ \A e \in Emails : BeginSignup(r, e) \/ BeginInvite(r, e) => BeginStep(r)
         /\ \A e \in Emails, op \in Ops :
               BeginLogin(r, e, op) \/ BeginSetActive(r, e, op) => BeginStep(r)
         /\ \A i \in Ids :
               BeginRefresh(r, i) \/ BeginVerify(r, i) \/ BeginReset(r, i) => BeginStep(r)
<1>1. ASSUME NEW e \in Emails, BeginSignup(r, e) \/ BeginInvite(r, e)
      PROVE  BeginStep(r)
  <2>1. CASE BeginSignup(r, e)
    <3>1. Begins(r, "signup", e, None)
      BY <2>1 DEF BeginSignup, Begins, Ops, Consumers
    <3>2. QED
      BY <3>1 DEF BeginStep, Ops
  <2>2. CASE BeginInvite(r, e)
    <3>1. Begins(r, "invite", e, None)
      BY <2>2 DEF BeginInvite, Begins, Ops, Consumers
    <3>2. QED
      BY <3>1 DEF BeginStep, Ops
  <2>3. QED
    BY <1>1, <2>1, <2>2
<1>2. ASSUME NEW e \in Emails, NEW op \in Ops,
             BeginLogin(r, e, op) \/ BeginSetActive(r, e, op)
      PROVE  BeginStep(r)
  <2>1. Begins(r, op, e, None)
    BY <1>2 DEF BeginLogin, BeginSetActive, Begins, Ops, Consumers
  <2>2. QED
    BY <2>1 DEF BeginStep
<1>3. ASSUME NEW i \in Ids,
             BeginRefresh(r, i) \/ BeginVerify(r, i) \/ BeginReset(r, i)
      PROVE  BeginStep(r)
  <2>1. token[i].owner \in Emails \cup {None}
    BY DEF TypeOK, TokenRow
  <2>2. CASE BeginRefresh(r, i)
    <3>1. Begins(r, "refresh", token[i].owner, i)
      BY <2>1, <2>2 DEF BeginRefresh, Begins, Valid, Ops, Consumers
    <3>2. QED
      BY <3>1 DEF BeginStep, Begins
  <2>3. CASE BeginVerify(r, i)
    <3>1. Begins(r, "verify", token[i].owner, i)
      BY <2>1, <2>3 DEF BeginVerify, Begins, Valid, Ops, Consumers
    <3>2. QED
      BY <3>1 DEF BeginStep, Begins
  <2>4. CASE BeginReset(r, i)
    <3>1. Begins(r, "reset", token[i].owner, i)
      BY <2>1, <2>4 DEF BeginReset, Begins, Valid, Ops, Consumers
    <3>2. QED
      BY <3>1 DEF BeginStep, Begins
  <2>5. QED
    BY <1>3, <2>2, <2>3, <2>4
<1>4. QED
  BY <1>1, <1>2, <1>3

\* The steps of the system, as the proofs below take them.
LEMMA Steps ==
  ASSUME TypeOK, [Next]_vars
  PROVE  \/ \E r \in Requests :
              \/ BeginStep(r)
              \/ \E e \in Emails, type \in TokenTypes : MailToken(r, e, type)
              \/ \E i \in Ids : Logout(r, i)
              \/ CommitAccount(r) \/ RejectAccount(r) \/ CommitSignupSession(r)
              \/ CommitLogin(r) \/ CommitBadLogin(r)
              \/ CommitRefresh(r) \/ CommitVerify(r)
              \/ SelectTokens(r) \/ CommitReset(r) \/ CommitSetActive(r)
              \/ Abort(r)
         \/ Advance
         \/ UNCHANGED vars
  BY BeginsBegin DEF Next

LEMMA LoadDoes ==
  ASSUME TypeOK, NEW r \in Requests, NEW op \in Ops, NEW e \in Emails,
         NEW i \in Ids \cup {None}, Load(r, op, e, i)
  PROVE  /\ txn[r].pc = "new"
         /\ txn' \in [Requests -> Session]
         /\ overlap' \in [Requests -> SUBSET Requests]
         /\ txn'[r].pc = "open" /\ txn'[r].op = op /\ txn'[r].email = e
         /\ txn'[r].id = i /\ txn'[r].password = user[e].password
         /\ txn'[r].fails = user[e].fails /\ txn'[r].lock = user[e].lockedUntil
         /\ txn'[r].tokens = {} /\ txn'[r].at = clock
         /\ \A s \in Requests \ {r} : txn'[s] = txn[s]
         /\ overlap'[r] = Open
         /\ \A s \in Open : overlap'[s] = overlap[s] \cup {r}
         /\ \A s \in Requests \ {r} : s \notin Open => overlap'[s] = overlap[s]
         /\ UNCHANGED <<user, token, clock, failures, lone>>
<1>1. /\ user[e].password \in Requests \cup {None}
      /\ user[e].fails \in Nat /\ user[e].lockedUntil \in Nat
      /\ clock \in Nat
  BY DEF TypeOK, UserRow
<1>2. txn[r].pc = "new" /\ r \notin Open
  BY DEF Load, Open
<1> DEFINE new == [pc |-> "open", op |-> op, email |-> e, id |-> i,
                   password |-> user[e].password, fails |-> user[e].fails,
                   lock |-> user[e].lockedUntil, tokens |-> {}, at |-> clock]
<1>3. new \in Session
  BY <1>1 DEF Session
<1>4. txn' = [txn EXCEPT ![r] = new] /\ txn \in [Requests -> Session]
  BY DEF Load, TypeOK
<1>5. Open \subseteq Requests
  BY DEF Open
<1>6. overlap' = [s \in Requests |->
                     IF s = r THEN Open
                     ELSE IF s \in Open THEN overlap[s] \cup {r}
                     ELSE overlap[s]]
  BY DEF Load
<1>7. txn'[r] = new /\ \A s \in Requests \ {r} : txn'[s] = txn[s]
  BY <1>4
<1>8. overlap' \in [Requests -> SUBSET Requests]
  BY <1>5, <1>6 DEF TypeOK
<1>9. txn' \in [Requests -> Session]
  BY <1>3, <1>4
<1>10. UNCHANGED <<user, token, clock, failures, lone>>
  BY DEF Load
<1>11. QED
  BY <1>2, <1>5, <1>6, <1>7, <1>8, <1>9, <1>10

LEMMA CloseDoes ==
  ASSUME TypeOK, NEW r \in Requests, NEW phase \in {"closed", "error"},
         Close(r, phase)
  PROVE  /\ txn' \in [Requests -> Session]
         /\ txn'[r].pc = phase /\ txn'[r].op = txn[r].op
         /\ txn'[r].email = txn[r].email /\ txn'[r].id = txn[r].id
         /\ \A s \in Requests \ {r} : txn'[s] = txn[s]
<1>1. txn[r] \in Session /\ txn \in [Requests -> Session]
  BY DEF TypeOK
<1>2. txn' = [txn EXCEPT ![r] =
                [txn[r] EXCEPT !.pc = phase, !.password = None, !.fails = 0,
                               !.lock = 0, !.tokens = {}, !.at = 0]]
  BY DEF Close
<1> DEFINE new == [txn[r] EXCEPT !.pc = phase, !.password = None, !.fails = 0,
                                 !.lock = 0, !.tokens = {}, !.at = 0]
<1>3. /\ new \in Session
      /\ new.pc = phase /\ new.op = txn[r].op
      /\ new.email = txn[r].email /\ new.id = txn[r].id
  BY <1>1 DEF Session
<1> HIDE DEF new
<1>4. txn' = [txn EXCEPT ![r] = new]
  BY <1>2 DEF new
<1>5. QED
  BY <1>1, <1>3, <1>4

-----------------------------------------------------------------------------
(* Type correctness.                                                       *)

LEMMA MintedType ==
  ASSUME TypeOK, NEW r \in Requests, NEW type \in TokenTypes,
         NEW e \in Emails \cup {None}, NEW password \in Requests \cup {None},
         NEW line \in SUBSET Requests
  PROVE  /\ Minted(r, type, e, password, line) \in TokenRow
         /\ Minted(r, type, e, password, line).owner = e
         /\ Minted(r, type, e, password, line).usedBy = None
         /\ Minted(r, type, e, password, line).password = password
         /\ Minted(r, type, e, password, line).line = line
<1>1. txn[r].at + Ttl[type] \in Nat
  BY AccountConstants DEF TypeOK, Session
<1>2. QED
  BY <1>1 DEF Minted, TokenRow

LEMMA StampedDoes ==
  ASSUME TypeOK, NEW S, NEW r \in Requests
  PROVE  /\ Stamped(S, r) \in [Ids -> TokenRow]
         /\ \A i \in Ids :
               /\ Stamped(S, r)[i].owner = token[i].owner
               /\ Stamped(S, r)[i].password = token[i].password
               /\ Stamped(S, r)[i].line = token[i].line
               /\ Stamped(S, r)[i].usedBy = IF i \in S /\ token[i].usedBy = None
                                            THEN r ELSE token[i].usedBy
  BY DEF TypeOK, Stamped, TokenRow

LEMMA ClearedType ==
  ASSUME TypeOK, NEW r \in Requests, txn[r].email \in Emails
  PROVE  /\ Cleared(r) \in UserRow
         /\ Cleared(r).exists = user[txn[r].email].exists
         /\ Cleared(r).password = user[txn[r].email].password
         /\ Cleared(r).fails \in {0, user[txn[r].email].fails}
         /\ Cleared(r).lockedUntil \in {0, user[txn[r].email].lockedUntil}
<1>1. user[txn[r].email] \in UserRow
  BY DEF TypeOK
<1>2. QED
  BY <1>1 DEF Cleared, UserRow

\* An open session knows its user and the token it is to consume, and its phase fits its handler.
SessionsInv ==
    \A r \in Requests :
        /\ txn[r].pc \in {"open", "issuing", "selected"} => txn[r].email \in Emails
        /\ txn[r].pc \in {"open", "selected"} /\ txn[r].op \in Consumers =>
              txn[r].id \in Ids
        /\ txn[r].pc = "selected" => txn[r].op = "reset"
        /\ txn[r].pc = "issuing" => txn[r].op = "signup"

LEMMA InitInv == Init => TypeOK /\ SessionsInv
  BY AccountConstants DEF Init, TypeOK, SessionsInv, UserRow, TokenRow, Session, NewSession,
     NoUser, NoToken, Ops

LEMMA RowStored ==
  ASSUME TypeOK, NEW e \in Emails, NEW row \in UserRow,
         user' = [user EXCEPT ![e] = row]
  PROVE  user' \in [Emails -> UserRow]
  BY DEF TypeOK

\* Every step keeps the types.
LEMMA TypeStep ==
  ASSUME TypeOK, SessionsInv, [Next]_vars
  PROVE  TypeOK'
<1> USE AccountConstants
<1>0. /\ "refresh" \in TokenTypes /\ "email_verify" \in TokenTypes
      /\ \A r \in Requests : /\ txn[r].email \in Emails \cup {None}
                            /\ txn[r].password \in Requests \cup {None}
                            /\ r \in Requests \cup {None}
                            /\ {r} \in SUBSET Requests
      /\ None \in Requests \cup {None}
  BY DEF TypeOK, Session, TokenTypes
<1>1. ASSUME NEW r \in Requests, BeginStep(r) PROVE TypeOK'
  <2>1. PICK op \in Ops, e \in Emails, i \in Ids \cup {None} : Load(r, op, e, i)
    BY <1>1 DEF BeginStep, Begins
  <2>2. QED
    BY <2>1, LoadDoes DEF TypeOK
<1>2. ASSUME NEW r \in Requests, NEW e \in Emails, NEW type \in TokenTypes,
             MailToken(r, e, type)
      PROVE  TypeOK'
  <2>1. [NoToken EXCEPT !.owner = e, !.expires = clock + Ttl[type], !.line = {r}]
        \in TokenRow
    <3>1. clock + Ttl[type] \in Nat
      BY DEF TypeOK
    <3>2. QED
      BY <3>1 DEF NoToken, TokenRow
  <2>2. txn' \in [Requests -> Session]
    BY <1>2 DEF MailToken, TypeOK, Session
  <2>3. QED
    BY <1>2, <2>1, <2>2 DEF MailToken, TypeOK
<1>3. ASSUME NEW r \in Requests, NEW i \in Ids, Logout(r, i) PROVE TypeOK'
  <2>1. txn' \in [Requests -> Session]
    <3>1. txn' = [txn EXCEPT ![r].pc = "closed"]
      BY <1>3 DEF Logout
    <3>2. QED
      BY <3>1 DEF TypeOK, Session
  <2>2. Stamped({i}, r) \in [Ids -> TokenRow]
    BY StampedDoes
  <2>3. overlap' \in [Requests -> SUBSET Requests]
    BY <1>3 DEF Logout, TypeOK, Open
  <2>4. QED
    BY <1>3, <2>1, <2>2, <2>3 DEF Logout, TypeOK
<1>4. ASSUME NEW r \in Requests, CommitAccount(r) PROVE TypeOK'
  <2>1. txn' \in [Requests -> Session]
    <3>1. CASE txn[r].op = "signup"
      BY <1>4, <3>1 DEF CommitAccount, TypeOK, Session
    <3>2. CASE txn[r].op # "signup"
      BY <1>4, <3>2, CloseDoes DEF CommitAccount
    <3>3. QED
      BY <3>1, <3>2
  <2>2. [NoUser EXCEPT !.exists = TRUE, !.active = TRUE, !.password = r] \in UserRow
    BY DEF NoUser, UserRow
  <2>3. Minted(r, "email_verify", txn[r].email, None, {r}) \in TokenRow
    BY <1>0, MintedType
  <2>4. user' \in [Emails -> UserRow]
    BY <1>4, <2>2 DEF CommitAccount, TypeOK
  <2>5. token' \in [Ids -> TokenRow]
    BY <1>4, <2>3 DEF CommitAccount, TypeOK
  <2>6. UNCHANGED <<clock, failures, lone, overlap>>
    BY <1>4 DEF CommitAccount
  <2>7. QED
    BY <2>1, <2>4, <2>5, <2>6 DEF TypeOK
<1>5. ASSUME NEW r \in Requests, RejectAccount(r) PROVE TypeOK'
  BY <1>5, CloseDoes DEF RejectAccount, TypeOK
<1>6. ASSUME NEW r \in Requests, CommitSignupSession(r) PROVE TypeOK'
  <2>1. Minted(r, "refresh", txn[r].email, r, {r}) \in TokenRow
    BY <1>0, MintedType
  <2>2. QED
    BY <1>6, <2>1, CloseDoes DEF CommitSignupSession, TypeOK
<1>7. ASSUME NEW r \in Requests, CommitLogin(r) PROVE TypeOK'
  <2>1. Minted(r, "refresh", txn[r].email, txn[r].password, {r}) \in TokenRow
    BY <1>0, MintedType
  <2>2. user' \in [Emails -> UserRow]
    BY <1>7, ClearedType DEF CommitLogin, TypeOK, SessionsInv, InFlight
  <2>3. token' \in [Ids -> TokenRow]
    BY <1>7, <2>1 DEF CommitLogin, TypeOK
  <2>4. txn' \in [Requests -> Session]
    BY <1>7, CloseDoes DEF CommitLogin
  <2>5. lone' \in [Emails -> Nat] /\ UNCHANGED <<clock, failures, overlap>>
    BY <1>7 DEF CommitLogin, TypeOK
  <2>6. QED
    BY <2>2, <2>3, <2>4, <2>5 DEF TypeOK
<1>8. ASSUME NEW r \in Requests, CommitBadLogin(r) PROVE TypeOK'
  <2>1. txn' \in [Requests -> Session]
    BY <1>8, CloseDoes DEF CommitBadLogin
  <2>2. txn[r].fails \in Nat /\ txn[r].at \in Nat
    BY DEF TypeOK, Session
  <2>3. user' \in [Emails -> UserRow]
    <3> DEFINE e     == txn[r].email
               count == txn[r].fails + 1
               row   == [user[e] EXCEPT
                           !.fails = IF count >= MaxFailed THEN 0 ELSE count,
                           !.lockedUntil = IF count >= MaxFailed
                                           THEN txn[r].at + LockFor ELSE @]
    <3>1. user' = [user EXCEPT ![e] = row]
      BY <1>8 DEF CommitBadLogin
    <3>2. CASE e \in Emails
      <4>1. user[e] \in UserRow
        BY <3>2 DEF TypeOK
      <4> DEFINE f == IF count >= MaxFailed THEN 0 ELSE count
                 l == IF count >= MaxFailed THEN txn[r].at + LockFor
                      ELSE user[e].lockedUntil
      <4>2. f \in Nat /\ l \in Nat
        BY <4>1, <2>2 DEF UserRow
      <4>3. row = [user[e] EXCEPT !.fails = f, !.lockedUntil = l]
        OBVIOUS
      <4> HIDE DEF f, l, row, e
      <4>4. row \in UserRow
        BY <4>1, <4>2, <4>3 DEF UserRow
      <4>5. QED
        BY <3>1, <4>4 DEF TypeOK
    <3>3. CASE e \notin Emails
      <4> HIDE DEF row, e
      <4>1. QED
        BY <3>1, <3>3 DEF TypeOK
    <3>4. QED
      BY <3>2, <3>3
  <2>4. failures' \in [Emails -> Nat] /\ lone' \in [Emails -> Nat]
    <3>1. failures' = [failures EXCEPT ![txn[r].email] = @ + 1]
      BY <1>8 DEF CommitBadLogin
    <3>2. failures' \in [Emails -> Nat]
      <4>1. txn[r].email \in Emails
        BY <1>8 DEF CommitBadLogin, InFlight, SessionsInv
      <4>2. failures[txn[r].email] + 1 \in Nat
        BY <4>1 DEF TypeOK
      <4>3. QED
        BY <3>1, <4>1, <4>2 DEF TypeOK
    <3> DEFINE e == txn[r].email
               n == IF txn[r].fails + 1 >= MaxFailed THEN 0
                    ELSE IF CounterRivals(r) = {} THEN lone[e] + 1 ELSE lone[e]
    <3>3. lone' = [lone EXCEPT ![e] = n]
      BY <1>8 DEF CommitBadLogin
    <3>4. e \in Emails => n \in Nat
      BY DEF TypeOK
    <3> HIDE DEF e, n
    <3>5. QED
      BY <3>2, <3>3, <3>4 DEF TypeOK
  <2>5. UNCHANGED <<token, clock, overlap>>
    BY <1>8 DEF CommitBadLogin
  <2>6. QED
    BY <2>1, <2>3, <2>4, <2>5 DEF TypeOK
<1>9. ASSUME NEW r \in Requests, CommitRefresh(r) PROVE TypeOK'
  <2>1. txn' \in [Requests -> Session]
    BY <1>9, CloseDoes DEF CommitRefresh
  <2>2. Stamped({txn[r].id}, r) \in [Ids -> TokenRow]
    BY StampedDoes
  <2>3. UNCHANGED <<user, clock, failures, lone, overlap>>
    BY <1>9 DEF CommitRefresh
  <2>4. token[txn[r].id] \in TokenRow
    BY <1>9 DEF TypeOK, CommitRefresh, InFlight, SessionsInv, Consumers
  <2>5. /\ token[txn[r].id].password \in Requests \cup {None}
        /\ token[txn[r].id].line \cup {r} \in SUBSET Requests
    BY <2>4 DEF TokenRow
  <2>6. Minted(r, "refresh", txn[r].email, token[txn[r].id].password,
               token[txn[r].id].line \cup {r}) \in TokenRow
    BY <1>0, <2>5, MintedType
  <2>7. token' \in [Ids -> TokenRow]
    BY <1>9, <2>2, <2>6 DEF CommitRefresh
  <2>8. QED
    BY <2>1, <2>3, <2>7 DEF TypeOK
<1>10. ASSUME NEW r \in Requests, CommitVerify(r) PROVE TypeOK'
  <2>1. txn' \in [Requests -> Session]
    BY <1>10, CloseDoes DEF CommitVerify
  <2>2. user' \in [Emails -> UserRow]
    BY <1>10 DEF CommitVerify, TypeOK, UserRow
  <2>3. QED
    BY <1>10, <2>1, <2>2, StampedDoes DEF CommitVerify, TypeOK
<1>11. ASSUME NEW r \in Requests, SelectTokens(r) PROVE TypeOK'
  <2>2. txn' \in [Requests -> Session]
    <3> DEFINE S == {i \in Ids : i[2] = "refresh" /\ token[i].owner = txn[r].email
                                  /\ token[i].usedBy = None}
               new == [txn[r] EXCEPT !.pc = "selected", !.tokens = S]
    <3>1. txn' = [txn EXCEPT ![r] = new]
      BY <1>11 DEF SelectTokens
    <3>2. S \in SUBSET Ids
      OBVIOUS
    <3> HIDE DEF S
    <3>3. new \in Session
      <4>1. txn[r] \in Session
        BY DEF TypeOK
      <4>2. QED
        BY <3>2, <4>1 DEF Session
    <3> HIDE DEF new
    <3>4. QED
      BY <3>1, <3>3 DEF TypeOK
  <2>3. QED
    BY <1>11, <2>2 DEF SelectTokens, TypeOK
<1>12. ASSUME NEW r \in Requests, CommitReset(r) PROVE TypeOK'
  <2>1. txn' \in [Requests -> Session]
    BY <1>12, CloseDoes DEF CommitReset
  <2>2. txn[r].email \in Emails
    BY <1>12 DEF CommitReset, SessionsInv
  <2>3. [Cleared(r) EXCEPT !.password = r] \in UserRow
    BY <2>2, ClearedType DEF UserRow
  <2>4. user' \in [Emails -> UserRow]
    BY <1>12, <2>3 DEF CommitReset, TypeOK
  <2>5. token' \in [Ids -> TokenRow]
    BY <1>12, StampedDoes DEF CommitReset
  <2>6. lone' \in [Emails -> Nat] /\ UNCHANGED <<clock, failures, overlap>>
    BY <1>12 DEF CommitReset, TypeOK
  <2>7. QED
    BY <2>1, <2>4, <2>5, <2>6 DEF TypeOK
<1>13. ASSUME NEW r \in Requests, CommitSetActive(r) PROVE TypeOK'
  <2>1. txn' \in [Requests -> Session]
    BY <1>13, CloseDoes DEF CommitSetActive
  <2>2. (txn[r].op = "activate") \in BOOLEAN
    OBVIOUS
  <2>3. user' \in [Emails -> UserRow]
    <3>1. user' = [user EXCEPT ![txn[r].email].active = (txn[r].op = "activate")]
      BY <1>13 DEF CommitSetActive
    <3> DEFINE b == txn[r].op = "activate"
    <3>2. b \in BOOLEAN /\ user' = [user EXCEPT ![txn[r].email].active = b]
      BY <3>1
    <3> HIDE DEF b
    <3>3. QED
      BY <3>2 DEF TypeOK, UserRow
  <2>4. QED
    BY <1>13, <2>1, <2>3 DEF CommitSetActive, TypeOK
<1>14. ASSUME NEW r \in Requests, Abort(r) PROVE TypeOK'
  BY <1>14, CloseDoes DEF Abort, TypeOK
<1>15. ASSUME Advance PROVE TypeOK'
  BY <1>15 DEF Advance, TypeOK
<1>16. ASSUME UNCHANGED vars PROVE TypeOK'
  BY <1>16 DEF vars, TypeOK
<1>17. QED
  BY Steps, <1>1, <1>2, <1>3, <1>4, <1>5, <1>6, <1>7, <1>8, <1>9, <1>10, <1>11,
     <1>12, <1>13, <1>14, <1>15, <1>16

-----------------------------------------------------------------------------
(* Sessions: who is open, with whom, on whose behalf.                      *)

\* Two sessions that are open together know of each other.
OverlapInv ==
    \A r, s \in Open : r # s => s \in overlap[r]

\* Whoever a session is about exists, unless the session is to make him, and
\* so does the owner of a token.
UsersInv ==
    /\ \A r \in Requests :
          \/ txn[r].pc = "issuing"
          \/ txn[r].pc \in {"open", "selected"} /\ txn[r].op \notin {"signup", "invite"}
          => user[txn[r].email].exists
    /\ \A i \in Ids : token[i].owner # None => user[token[i].owner].exists

StructInv == TypeOK /\ SessionsInv /\ OverlapInv /\ UsersInv

LEMMA StructInit == Init => StructInv
<1>1. Init => OverlapInv /\ UsersInv
  BY DEF Init, OverlapInv, UsersInv, Open, NewSession, NoToken
<1>2. QED
  BY <1>1, InitInv DEF StructInv

\* A session that ends leaves the others as they were.
LEMMA EndKeepsSessions ==
  ASSUME StructInv, NEW r \in Requests, NEW phase \in {"closed", "error"},
         Close(r, phase), overlap' = overlap
  PROVE  SessionsInv' /\ OverlapInv'
<1>1. /\ txn'[r].pc = phase
      /\ \A s \in Requests \ {r} : txn'[s] = txn[s]
  BY CloseDoes DEF StructInv
<1>2. \A s \in Requests : txn'[s].pc \in {"open", "issuing", "selected"} =>
         s # r /\ txn'[s] = txn[s]
  BY <1>1
<1>3. SessionsInv'
  BY <1>2 DEF StructInv, SessionsInv
<1>4. Open' \subseteq Open
  BY <1>2 DEF Open
<1>5. OverlapInv'
  BY <1>4 DEF OverlapInv, StructInv
<1>6. QED
  BY <1>3, <1>5

LEMMA BeginKeepsSessions ==
  ASSUME StructInv, NEW r \in Requests, BeginStep(r)
  PROVE  SessionsInv' /\ OverlapInv'
<1>1. PICK op \in Ops, e \in Emails, i \in Ids \cup {None} : Begins(r, op, e, i)
  BY DEF BeginStep
<1>2. Load(r, op, e, i)
  BY <1>1 DEF Begins
<1>3. /\ txn'[r].pc = "open" /\ txn'[r].op = op /\ txn'[r].email = e /\ txn'[r].id = i
      /\ txn[r].pc = "new"
      /\ \A s \in Requests \ {r} : txn'[s] = txn[s]
      /\ overlap'[r] = Open
      /\ \A s \in Open : overlap'[s] = overlap[s] \cup {r}
  BY <1>2, LoadDoes DEF StructInv
<1>4. SessionsInv'
  <2>1. ASSUME NEW s \in Requests \ {r}
        PROVE  /\ txn'[s].pc \in {"open", "issuing", "selected"} => txn'[s].email \in Emails
               /\ txn'[s].pc \in {"open", "selected"} /\ txn'[s].op \in Consumers =>
                     txn'[s].id \in Ids
               /\ txn'[s].pc = "selected" => txn'[s].op = "reset"
               /\ txn'[s].pc = "issuing" => txn'[s].op = "signup"
    BY <1>3 DEF StructInv, SessionsInv
  <2>2. op \in Consumers => i \in Ids
    BY <1>1 DEF Begins
  <2>3. QED
    BY <1>3, <2>1, <2>2 DEF SessionsInv
<1>5. Open' = Open \cup {r} /\ r \notin Open /\ Open \subseteq Requests
  BY <1>3 DEF Open
<1>6. OverlapInv'
  BY <1>3, <1>5 DEF OverlapInv, StructInv
<1>7. QED
  BY <1>4, <1>6

LEMMA SessionsStep ==
  ASSUME StructInv, [Next]_vars
  PROVE  SessionsInv' /\ OverlapInv'
<1> USE DEF StructInv
<1>1. ASSUME NEW r \in Requests, BeginStep(r) PROVE SessionsInv' /\ OverlapInv'
  BY <1>1, BeginKeepsSessions
<1>2. ASSUME NEW r \in Requests, NEW e \in Emails, NEW type \in TokenTypes,
             MailToken(r, e, type)
      PROVE  SessionsInv' /\ OverlapInv'
  <2>1. txn' = [txn EXCEPT ![r].pc = "closed"] /\ overlap' = overlap
    BY <1>2 DEF MailToken
  <2>2. \A s \in Requests : txn'[s].pc \in {"open", "issuing", "selected"} =>
           s # r /\ txn'[s] = txn[s]
    BY <2>1 DEF TypeOK, Session
  <2>3. Open' \subseteq Open
    BY <2>2 DEF Open
  <2>4. QED
    BY <2>1, <2>2, <2>3 DEF SessionsInv, OverlapInv
<1>3. ASSUME NEW r \in Requests, NEW i \in Ids, Logout(r, i)
      PROVE  SessionsInv' /\ OverlapInv'
  <2>1. /\ txn' = [txn EXCEPT ![r].pc = "closed"]
        /\ overlap' = [s \in Requests |->
                     IF s = r THEN Open
                     ELSE IF s \in Open THEN overlap[s] \cup {r}
                     ELSE overlap[s]]
    BY <1>3 DEF Logout
  <2>2. \A s \in Requests : txn'[s].pc \in {"open", "issuing", "selected"} =>
           s # r /\ txn'[s] = txn[s]
    BY <2>1 DEF TypeOK, Session
  <2>3. Open' \subseteq Open /\ r \notin Open' /\ Open \subseteq Requests
    BY <2>2 DEF Open
  <2>4. SessionsInv'
    BY <2>2 DEF SessionsInv
  <2>5. OverlapInv'
    BY <2>1, <2>3 DEF OverlapInv
  <2>6. QED
    BY <2>4, <2>5
<1>4. ASSUME NEW r \in Requests, CommitAccount(r) PROVE SessionsInv' /\ OverlapInv'
  <2>1. CASE txn[r].op = "signup"
    <3>1. txn' = [txn EXCEPT ![r].pc = "issuing"] /\ overlap' = overlap
      BY <1>4, <2>1 DEF CommitAccount
    <3>2. /\ txn'[r].pc = "issuing" /\ txn'[r].op = "signup"
          /\ txn'[r].email = txn[r].email
          /\ \A s \in Requests \ {r} : txn'[s] = txn[s]
      BY <2>1, <3>1 DEF TypeOK, Session
    <3>3. txn[r].pc = "open"
      BY <1>4 DEF CommitAccount, InFlight
    <3>4. SessionsInv'
      <4>1. ASSUME NEW s \in Requests
            PROVE  /\ txn'[s].pc \in {"open", "issuing", "selected"} => txn'[s].email \in Emails
                   /\ txn'[s].pc \in {"open", "selected"} /\ txn'[s].op \in Consumers =>
                         txn'[s].id \in Ids
                   /\ txn'[s].pc = "selected" => txn'[s].op = "reset"
                   /\ txn'[s].pc = "issuing" => txn'[s].op = "signup"
        <5>1. CASE s = r
          BY <3>2, <3>3, <5>1 DEF SessionsInv
        <5>2. CASE s # r
          BY <3>2, <5>2 DEF SessionsInv
        <5>3. QED
          BY <5>1, <5>2
      <4>2. QED
        BY <4>1 DEF SessionsInv
    <3>5. Open' \subseteq Open
      BY <3>2, <3>3 DEF Open
    <3>6. QED
      BY <3>1, <3>4, <3>5 DEF OverlapInv
  <2>2. CASE txn[r].op # "signup"
    BY <1>4, <2>2, EndKeepsSessions DEF CommitAccount
  <2>3. QED
    BY <2>1, <2>2
<1>5. ASSUME NEW r \in Requests, SelectTokens(r) PROVE SessionsInv' /\ OverlapInv'
  <2> DEFINE S == {i \in Ids : i[2] = "refresh" /\ token[i].owner = txn[r].email
                                /\ token[i].usedBy = None}
  <2>1. /\ txn' = [txn EXCEPT ![r] = [txn[r] EXCEPT !.pc = "selected", !.tokens = S]]
        /\ overlap' = overlap /\ txn[r].pc = "open" /\ txn[r].op = "reset"
    BY <1>5 DEF SelectTokens, InFlight
  <2> HIDE DEF S
  <2>2. /\ txn'[r].pc = "selected" /\ txn'[r].op = "reset"
        /\ txn'[r].email = txn[r].email /\ txn'[r].id = txn[r].id
        /\ \A s \in Requests \ {r} : txn'[s] = txn[s]
    BY <2>1 DEF TypeOK, Session
  <2>3. SessionsInv'
    <3>1. ASSUME NEW s \in Requests
          PROVE  /\ txn'[s].pc \in {"open", "issuing", "selected"} => txn'[s].email \in Emails
                 /\ txn'[s].pc \in {"open", "selected"} /\ txn'[s].op \in Consumers =>
                       txn'[s].id \in Ids
                 /\ txn'[s].pc = "selected" => txn'[s].op = "reset"
                 /\ txn'[s].pc = "issuing" => txn'[s].op = "signup"
      <4>1. CASE s = r
        BY <2>1, <2>2, <4>1 DEF SessionsInv
      <4>2. CASE s # r
        BY <2>2, <4>2 DEF SessionsInv
      <4>3. QED
        BY <4>1, <4>2
    <3>2. QED
      BY <3>1 DEF SessionsInv
  <2>4. Open' \subseteq Open
    BY <2>1, <2>2 DEF Open
  <2>5. QED
    BY <2>1, <2>3, <2>4 DEF OverlapInv
<1>6. ASSUME NEW r \in Requests,
             \/ RejectAccount(r) \/ CommitSignupSession(r) \/ CommitLogin(r)
             \/ CommitBadLogin(r) \/ CommitRefresh(r) \/ CommitVerify(r)
             \/ CommitReset(r) \/ CommitSetActive(r) \/ Abort(r)
      PROVE  SessionsInv' /\ OverlapInv'
  <2>1. overlap' = overlap /\ (Close(r, "closed") \/ Close(r, "error"))
    BY <1>6 DEF RejectAccount, CommitSignupSession, CommitLogin, CommitBadLogin,
       CommitRefresh, CommitVerify, CommitReset, CommitSetActive, Abort
  <2>2. QED
    BY <2>1, EndKeepsSessions
<1>7. ASSUME Advance \/ UNCHANGED vars PROVE SessionsInv' /\ OverlapInv'
  <2>1. txn' = txn /\ overlap' = overlap
    BY <1>7 DEF Advance, vars
  <2>2. QED
    BY <2>1 DEF SessionsInv, OverlapInv, Open
<1>8. QED
  BY Steps, <1>1, <1>2, <1>3, <1>4, <1>5, <1>6, <1>7

\* Nobody is deleted.
LEMMA ExistStays ==
  ASSUME StructInv, [Next]_vars
  PROVE  \A e \in Emails : user[e].exists => user'[e].exists
<1> USE DEF StructInv
<1>1. ASSUME NEW r \in Requests, CommitAccount(r)
      PROVE  \A e \in Emails : user[e].exists => user'[e].exists
  <2>1. user' = [user EXCEPT ![txn[r].email] =
                   [NoUser EXCEPT !.exists = TRUE, !.active = TRUE, !.password = r]]
    BY <1>1 DEF CommitAccount
  <2>2. QED
    BY <2>1 DEF TypeOK, NoUser
<1>2. ASSUME NEW r \in Requests, CommitLogin(r)
      PROVE  \A e \in Emails : user[e].exists => user'[e].exists
  <2>1. user' = [user EXCEPT ![txn[r].email] = Cleared(r)]
    BY <1>2 DEF CommitLogin
  <2>2. QED
    BY <2>1, ClearedType DEF TypeOK
<1>3. ASSUME NEW r \in Requests, CommitBadLogin(r)
      PROVE  \A e \in Emails : user[e].exists => user'[e].exists
  BY <1>3 DEF CommitBadLogin, TypeOK, UserRow
<1>4. ASSUME NEW r \in Requests, CommitVerify(r)
      PROVE  \A e \in Emails : user[e].exists => user'[e].exists
  <2>1. user' = [user EXCEPT ![txn[r].email].verified = TRUE]
    BY <1>4 DEF CommitVerify
  <2>2. QED
    BY <2>1 DEF TypeOK, UserRow
<1>5. ASSUME NEW r \in Requests, CommitReset(r)
      PROVE  \A e \in Emails : user[e].exists => user'[e].exists
  <2>1. user' = [user EXCEPT ![txn[r].email] = [Cleared(r) EXCEPT !.password = r]]
    BY <1>5 DEF CommitReset
  <2>2. txn[r].email \in Emails
    BY <1>5 DEF CommitReset, SessionsInv
  <2>3. /\ Cleared(r) \in UserRow
        /\ Cleared(r).exists = user[txn[r].email].exists
    BY <2>2, ClearedType
  <2>4. QED
    BY <2>1, <2>2, <2>3 DEF TypeOK, UserRow
<1>6. ASSUME NEW r \in Requests, CommitSetActive(r)
      PROVE  \A e \in Emails : user[e].exists => user'[e].exists
  <2> DEFINE b == txn[r].op = "activate"
  <2>1. user' = [user EXCEPT ![txn[r].email].active = b]
    BY <1>6 DEF CommitSetActive
  <2> HIDE DEF b
  <2>2. QED
    BY <2>1 DEF TypeOK, UserRow
<1>7. ASSUME UNCHANGED user
      PROVE  \A e \in Emails : user[e].exists => user'[e].exists
  BY <1>7
<1>8. ASSUME NEW r \in Requests,
             \/ BeginStep(r)
             \/ \E e \in Emails, type \in TokenTypes : MailToken(r, e, type)
             \/ \E i \in Ids : Logout(r, i)
             \/ RejectAccount(r) \/ CommitSignupSession(r) \/ CommitRefresh(r)
             \/ SelectTokens(r) \/ Abort(r)
      PROVE  UNCHANGED user
  BY <1>8 DEF BeginStep, Begins, Load, MailToken, Logout, RejectAccount,
     CommitSignupSession, CommitRefresh, SelectTokens, Abort
<1>9. ASSUME Advance \/ UNCHANGED vars PROVE UNCHANGED user
  BY <1>9 DEF Advance, vars
<1>10. QED
  BY Steps, <1>1, <1>2, <1>3, <1>4, <1>5, <1>6, <1>7, <1>8, <1>9

\* The owner of a token that a step makes exists then.
LEMMA StampedOwners ==
  ASSUME StructInv, [Next]_vars, NEW S, NEW r \in Requests,
         token' = Stamped(S, r)
  PROVE  \A i \in Ids : token'[i].owner # None => user'[token'[i].owner].exists
<1>1. \A i \in Ids : token'[i].owner = token[i].owner
  BY StampedDoes DEF StructInv
<1>2. \A i \in Ids : token[i].owner \in Emails \cup {None}
  BY DEF StructInv, TypeOK, TokenRow
<1>3. QED
  BY <1>1, <1>2, ExistStays DEF StructInv, UsersInv

LEMMA MintedOwners ==
  ASSUME StructInv, [Next]_vars, NEW i \in Ids, NEW row, NEW table \in [Ids -> TokenRow],
         token' = [table EXCEPT ![i] = row],
         row.owner \in Emails, user'[row.owner].exists,
         \A k \in Ids : table[k].owner = token[k].owner
  PROVE  \A k \in Ids : token'[k].owner # None => user'[token'[k].owner].exists
<1>1. token'[i] = row /\ \A k \in Ids \ {i} : token'[k] = table[k]
  OBVIOUS
<1>2. \A k \in Ids : token[k].owner \in Emails \cup {None}
  BY DEF StructInv, TypeOK, TokenRow
<1>3. QED
  BY <1>1, <1>2, ExistStays DEF StructInv, UsersInv

LEMMA OwnersStep ==
  ASSUME StructInv, [Next]_vars
  PROVE  \A i \in Ids : token'[i].owner # None => user'[token'[i].owner].exists
<1> USE DEF StructInv
<1>0. /\ "refresh" \in TokenTypes /\ "email_verify" \in TokenTypes
      /\ token \in [Ids -> TokenRow]
      /\ \A r \in Requests : /\ txn[r].email \in Emails \cup {None}
                            /\ txn[r].password \in Requests \cup {None}
                            /\ r \in Requests \cup {None}
                            /\ {r} \in SUBSET Requests
      /\ None \in Requests \cup {None}
      /\ \A r \in Requests, type \in TokenTypes : <<r, type>> \in Ids
  BY DEF TypeOK, Session, TokenTypes, Ids
<1> DEFINE Goal == \A i \in Ids : token'[i].owner # None => user'[token'[i].owner].exists
<1>1. ASSUME NEW r \in Requests, NEW e \in Emails, NEW type \in TokenTypes,
             MailToken(r, e, type)
      PROVE  Goal
  <2> DEFINE row == [NoToken EXCEPT !.owner = e, !.expires = clock + Ttl[type],
                                    !.line = {r}]
  <2>1. token' = [token EXCEPT ![<<r, type>>] = row] /\ user[e].exists
    BY <1>1 DEF MailToken
  <2>2. row.owner = e
    BY DEF NoToken
  <2> HIDE DEF row
  <2>3. QED
    BY <1>0, <2>1, <2>2, ExistStays, MintedOwners
<1>2. ASSUME NEW r \in Requests, CommitAccount(r) PROVE Goal
  <2> DEFINE row == Minted(r, "email_verify", txn[r].email, None, {r})
  <2>1. /\ token' = [token EXCEPT ![<<r, "email_verify">>] = row]
        /\ user' = [user EXCEPT ![txn[r].email] =
                      [NoUser EXCEPT !.exists = TRUE, !.active = TRUE, !.password = r]]
        /\ txn[r].pc = "open"
    BY <1>2 DEF CommitAccount, InFlight
  <2>2. row.owner = txn[r].email
    BY DEF Minted
  <2>3. txn[r].email \in Emails
    BY <2>1 DEF SessionsInv
  <2>4. user'[txn[r].email].exists
    BY <2>1, <2>3 DEF TypeOK, NoUser
  <2> HIDE DEF row
  <2>5. QED
    BY <1>0, <2>1, <2>2, <2>3, <2>4, MintedOwners
<1>3. ASSUME NEW r \in Requests, CommitSignupSession(r) PROVE Goal
  <2> DEFINE row == Minted(r, "refresh", txn[r].email, r, {r})
  <2>1. token' = [token EXCEPT ![<<r, "refresh">>] = row] /\ txn[r].pc = "issuing"
    BY <1>3 DEF CommitSignupSession
  <2>2. row.owner = txn[r].email
    BY DEF Minted
  <2>3. txn[r].email \in Emails /\ user[txn[r].email].exists
    BY <2>1 DEF SessionsInv, UsersInv
  <2> HIDE DEF row
  <2>4. QED
    BY <1>0, <2>1, <2>2, <2>3, ExistStays, MintedOwners
<1>4. ASSUME NEW r \in Requests, CommitLogin(r) PROVE Goal
  <2> DEFINE row == Minted(r, "refresh", txn[r].email, txn[r].password, {r})
  <2>1. /\ token' = [token EXCEPT ![<<r, "refresh">>] = row]
        /\ txn[r].pc = "open" /\ txn[r].op = "login"
    BY <1>4 DEF CommitLogin, InFlight
  <2>2. row.owner = txn[r].email
    BY DEF Minted
  <2>3. txn[r].email \in Emails /\ user[txn[r].email].exists
    BY <2>1 DEF SessionsInv, UsersInv
  <2> HIDE DEF row
  <2>4. QED
    BY <1>0, <2>1, <2>2, <2>3, ExistStays, MintedOwners
<1>5. ASSUME NEW r \in Requests, CommitRefresh(r) PROVE Goal
  <2> DEFINE row == Minted(r, "refresh", txn[r].email, token[txn[r].id].password,
                           token[txn[r].id].line \cup {r})
             table == Stamped({txn[r].id}, r)
  <2>1. /\ token' = [table EXCEPT ![<<r, "refresh">>] = row]
        /\ txn[r].pc = "open" /\ txn[r].op = "refresh"
    BY <1>5 DEF CommitRefresh, InFlight
  <2>2. row.owner = txn[r].email
    BY DEF Minted
  <2>3. txn[r].email \in Emails /\ user[txn[r].email].exists
    BY <2>1 DEF SessionsInv, UsersInv
  <2>4. table \in [Ids -> TokenRow] /\ \A k \in Ids : table[k].owner = token[k].owner
    BY StampedDoes
  <2> HIDE DEF row, table
  <2>5. QED
    BY <1>0, <2>1, <2>2, <2>3, <2>4, ExistStays, MintedOwners
<1>6. ASSUME NEW r \in Requests,
             \/ \E i \in Ids : Logout(r, i)
             \/ CommitVerify(r) \/ CommitReset(r)
      PROVE  Goal
  <2>1. \E S : token' = Stamped(S, r)
    BY <1>6 DEF Logout, CommitVerify, CommitReset
  <2>2. QED
    BY <2>1, StampedOwners
<1>7. ASSUME UNCHANGED token PROVE Goal
  <2>1. \A i \in Ids : token[i].owner \in Emails \cup {None}
    BY DEF TypeOK, TokenRow
  <2>2. QED
    BY <1>7, <2>1, ExistStays DEF UsersInv
<1>8. ASSUME NEW r \in Requests,
             \/ BeginStep(r) \/ RejectAccount(r) \/ CommitBadLogin(r)
             \/ SelectTokens(r) \/ CommitSetActive(r) \/ Abort(r)
      PROVE  UNCHANGED token
  BY <1>8 DEF BeginStep, Begins, Load, RejectAccount, CommitBadLogin,
     SelectTokens, CommitSetActive, Abort
<1>9. ASSUME Advance \/ UNCHANGED vars PROVE UNCHANGED token
  BY <1>9 DEF Advance, vars
<1>10. QED
  BY Steps, <1>1, <1>2, <1>3, <1>4, <1>5, <1>6, <1>7, <1>8, <1>9

\* What becomes of the sessions: one that is open had been, or has begun.
GoesOn(s) ==
    /\ txn[s].pc \in {"open", "selected"}
    /\ txn'[s].op = txn[s].op
    /\ txn'[s].id = txn[s].id
    /\ txn'[s].email = txn[s].email
    /\ txn'[s].password = txn[s].password
    /\ txn'[s].fails = txn[s].fails
    /\ txn'[s] = txn[s] \/ SelectTokens(s)

\* So had one that is between its two commits, or it has just made the first.
Issues(s) ==
    /\ txn'[s].email = txn[s].email
    /\ txn[s].pc = "issuing" \/ CommitAccount(s)

LEMMA SessionMoves ==
  ASSUME StructInv, [Next]_vars, NEW s \in Requests,
         txn'[s].pc \in {"open", "selected", "issuing"}
  PROVE  /\ txn'[s].pc = "issuing" => Issues(s)
         /\ txn'[s].pc # "issuing" => GoesOn(s) \/ BeginStep(s)
<1> USE DEF StructInv
<1> DEFINE Goal == /\ txn'[s].pc = "issuing" => Issues(s)
                   /\ txn'[s].pc # "issuing" => GoesOn(s) \/ BeginStep(s)
<1>1. ASSUME txn'[s] = txn[s] PROVE Goal
  BY <1>1 DEF GoesOn, Issues
<1>2. ASSUME NEW r \in Requests, BeginStep(r) PROVE Goal
  <2>1. PICK op \in Ops, e \in Emails, i \in Ids \cup {None} : Begins(r, op, e, i)
    BY <1>2 DEF BeginStep
  <2>2. txn'[r].pc = "open" /\ \A x \in Requests \ {r} : txn'[x] = txn[x]
    BY <2>1, LoadDoes DEF Begins
  <2>3. CASE s = r
    BY <1>2, <2>2, <2>3
  <2>4. CASE s # r
    BY <2>2, <2>4, <1>1
  <2>5. QED
    BY <2>3, <2>4
<1>3. ASSUME NEW r \in Requests,
             \/ \E e \in Emails, type \in TokenTypes : MailToken(r, e, type)
             \/ \E i \in Ids : Logout(r, i)
      PROVE  Goal
  <2>1. txn' = [txn EXCEPT ![r].pc = "closed"]
    BY <1>3 DEF MailToken, Logout
  <2>2. s # r /\ txn'[s] = txn[s]
    BY <2>1 DEF TypeOK, Session
  <2>3. QED
    BY <2>2, <1>1
<1>4. ASSUME NEW r \in Requests,
             \/ RejectAccount(r) \/ CommitSignupSession(r) \/ CommitLogin(r)
             \/ CommitBadLogin(r) \/ CommitRefresh(r) \/ CommitVerify(r)
             \/ CommitReset(r) \/ CommitSetActive(r) \/ Abort(r)
             \/ CommitAccount(r) /\ txn[r].op # "signup"
      PROVE  Goal
  <2>1. Close(r, "closed") \/ Close(r, "error")
    BY <1>4 DEF RejectAccount, CommitSignupSession, CommitLogin, CommitBadLogin,
       CommitRefresh, CommitVerify, CommitReset, CommitSetActive, Abort, CommitAccount
  <2>2. s # r /\ txn'[s] = txn[s]
    BY <2>1, CloseDoes
  <2>3. QED
    BY <2>2, <1>1
<1>5. ASSUME NEW r \in Requests, CommitAccount(r), txn[r].op = "signup" PROVE Goal
  <2>1. txn' = [txn EXCEPT ![r].pc = "issuing"]
    BY <1>5 DEF CommitAccount
  <2>2. CASE s = r
    <3>1. txn'[s].pc = "issuing" /\ txn'[s].email = txn[s].email
      BY <2>1, <2>2 DEF TypeOK, Session
    <3>2. QED
      BY <1>5, <2>2, <3>1 DEF Issues
  <2>3. CASE s # r
    BY <2>1, <2>3, <1>1 DEF TypeOK
  <2>4. QED
    BY <2>2, <2>3
<1>6. ASSUME NEW r \in Requests, SelectTokens(r) PROVE Goal
  <2> DEFINE S == {i \in Ids : i[2] = "refresh" /\ token[i].owner = txn[r].email
                                /\ token[i].usedBy = None}
  <2>1. txn' = [txn EXCEPT ![r] = [txn[r] EXCEPT !.pc = "selected", !.tokens = S]]
        /\ txn[r].pc = "open"
    BY <1>6 DEF SelectTokens, InFlight
  <2> HIDE DEF S
  <2>2. CASE s = r
    <3>1. /\ txn'[s].pc = "selected" /\ txn'[s].op = txn[s].op
          /\ txn'[s].email = txn[s].email /\ txn'[s].id = txn[s].id
          /\ txn'[s].password = txn[s].password /\ txn'[s].fails = txn[s].fails
      BY <2>1, <2>2 DEF TypeOK, Session
    <3>2. QED
      BY <1>6, <2>1, <2>2, <3>1 DEF GoesOn
  <2>3. CASE s # r
    BY <2>1, <2>3, <1>1 DEF TypeOK
  <2>4. QED
    BY <2>2, <2>3
<1>7. ASSUME Advance \/ UNCHANGED vars PROVE Goal
  BY <1>7, <1>1 DEF Advance, vars
<1>8. QED
  BY Steps, <1>2, <1>3, <1>4, <1>5, <1>6, <1>7

LEMMA UsersStep ==
  ASSUME StructInv, [Next]_vars
  PROVE  UsersInv'
<1> USE DEF StructInv
<1>1. ASSUME NEW s \in Requests,
             \/ txn'[s].pc = "issuing"
             \/ txn'[s].pc \in {"open", "selected"} /\ txn'[s].op \notin {"signup", "invite"}
      PROVE  user'[txn'[s].email].exists
  <2>1. CASE txn'[s].pc = "issuing"
    <3>1. CASE txn[s].pc = "issuing"
      <4>1. txn[s].email \in Emails /\ user[txn[s].email].exists
        BY <3>1 DEF SessionsInv, UsersInv
      <4>2. txn'[s].email = txn[s].email
        BY <2>1, SessionMoves DEF Issues
      <4>3. QED
        BY <4>1, <4>2, ExistStays
    <3>2. CASE txn[s].pc # "issuing"
      <4>1. CommitAccount(s) /\ txn'[s].email = txn[s].email
        BY <2>1, <3>2, SessionMoves DEF Issues
      <4>2. txn[s].email \in Emails
        BY <4>1 DEF CommitAccount, InFlight, SessionsInv
      <4>3. user' = [user EXCEPT ![txn[s].email] =
                      [NoUser EXCEPT !.exists = TRUE, !.active = TRUE, !.password = s]]
        BY <4>1 DEF CommitAccount
      <4>4. QED
        BY <4>1, <4>2, <4>3 DEF TypeOK, NoUser
    <3>3. QED
      BY <3>1, <3>2
  <2>2. CASE txn'[s].pc \in {"open", "selected"} /\ txn'[s].op \notin {"signup", "invite"}
    <3>1. CASE txn[s].pc \in {"open", "selected"} /\ txn'[s].op = txn[s].op
               /\ txn'[s].email = txn[s].email
      <4>1. txn[s].email \in Emails /\ user[txn[s].email].exists
        BY <2>2, <3>1 DEF SessionsInv, UsersInv
      <4>2. QED
        BY <3>1, <4>1, ExistStays
    <3>2. ASSUME NEW op \in Ops, NEW e \in Emails, NEW i \in Ids \cup {None},
                 Begins(s, op, e, i)
          PROVE  user'[txn'[s].email].exists
      <4>1. txn'[s].op = op /\ txn'[s].email = e
        BY <3>2, LoadDoes DEF Begins
      <4>2. user[e].exists
        BY <2>2, <3>2, <4>1, NullIsNoId DEF Begins, UsersInv
      <4>3. QED
        BY <4>1, <4>2, ExistStays
    <3>3. QED
      BY <2>2, <3>1, <3>2, SessionMoves DEF GoesOn, BeginStep
  <2>3. QED
    BY <1>1, <2>1, <2>2
<1>2. \A i \in Ids : token'[i].owner # None => user'[token'[i].owner].exists
  BY OwnersStep
<1>3. QED
  BY <1>1, <1>2 DEF UsersInv

LEMMA StructStep == StructInv /\ [Next]_vars => StructInv'
  BY TypeStep, SessionsStep, UsersStep DEF StructInv

\* Every column keeps its type (all handlers of Accounts).
THEOREM TypeCorrect == Spec => []TypeOK
<1>1. StructInv => TypeOK
  BY DEF StructInv
<1>2. QED
  BY <1>1, StructInit, StructStep, PTL DEF Spec

\* Sessions, users and tokens refer to each other as the foreign keys and the
\* ownership tests of the handlers want (all handlers of Accounts).
THEOREM StructInvariant == Spec => []StructInv
  BY StructInit, StructStep, PTL DEF Spec

-----------------------------------------------------------------------------
(* The lockout.                                                            *)

\* A stored counter is below the limit, counts no failure that was not
\* recorded and every lone one; a lock has its failures behind it.
CounterRow(e) ==
    /\ user[e].fails <= failures[e]
    /\ user[e].fails < MaxFailed
    /\ lone[e] <= user[e].fails
    /\ user[e].lockedUntil # 0 => failures[e] >= MaxFailed
    /\ ~user[e].exists => lone[e] = 0

\* A loaded counter is no more than the recorded failures, and while the
\* failure that will count from it is open no other one is lone.
CounterLoaded(r) ==
    txn[r].pc = "open" /\ txn[r].op = "bad_login" =>
        /\ txn[r].fails <= failures[txn[r].email]
        /\ lone[txn[r].email] <= txn[r].fails

CounterInv ==
    /\ \A e \in Emails : CounterRow(e)
    /\ \A r \in Requests : CounterLoaded(r)

LEMMA CounterInit == Init => CounterInv
  BY AccountConstants DEF Init, CounterInv, CounterRow, CounterLoaded, NoUser, NewSession

\* The row of a user after each step that writes it.
RowAfter(e) ==
    \/ /\ user'[e].fails \in {0, user[e].fails}
       /\ user'[e].lockedUntil \in {0, user[e].lockedUntil}
       /\ failures'[e] = failures[e]
       /\ user[e].exists => user'[e].exists
       /\ \/ lone'[e] = 0
          \/ lone'[e] = lone[e] /\ (user'[e].fails = user[e].fails \/ ~user[e].exists)
    \/ \E r \in Requests : CommitBadLogin(r) /\ txn[r].email = e

LEMMA OtherRows ==
  ASSUME TypeOK, NEW e \in Emails, user'[e] = user[e], failures'[e] = failures[e],
         lone'[e] = lone[e]
  PROVE  RowAfter(e)
  BY DEF RowAfter

LEMMA RowsAfter ==
  ASSUME StructInv, [Next]_vars, NEW e \in Emails
  PROVE  RowAfter(e)
<1> USE DEF StructInv
<1>1. ASSUME NEW r \in Requests, CommitAccount(r) PROVE RowAfter(e)
  <2>1. /\ user' = [user EXCEPT ![txn[r].email] =
                      [NoUser EXCEPT !.exists = TRUE, !.active = TRUE, !.password = r]]
        /\ ~user[txn[r].email].exists
        /\ failures' = failures /\ lone' = lone
    BY <1>1 DEF CommitAccount
  <2>2. CASE e = txn[r].email
    <3>1. user'[e].fails = 0 /\ user'[e].lockedUntil = 0
      BY <2>1, <2>2 DEF TypeOK, NoUser
    <3>2. QED
      BY <2>1, <2>2, <3>1 DEF RowAfter
  <2>3. CASE e # txn[r].email
    BY <2>1, <2>3, OtherRows DEF TypeOK
  <2>4. QED
    BY <2>2, <2>3
<1>2. ASSUME NEW r \in Requests, CommitLogin(r) PROVE RowAfter(e)
  <2>1. /\ user' = [user EXCEPT ![txn[r].email] = Cleared(r)]
        /\ lone' = [lone EXCEPT ![txn[r].email] = 0] /\ failures' = failures
        /\ txn[r].email \in Emails
    BY <1>2 DEF CommitLogin, InFlight, SessionsInv
  <2>2. CASE e = txn[r].email
    <3>1. user'[e] = Cleared(r) /\ lone'[e] = 0
      BY <2>1, <2>2 DEF TypeOK
    <3>2. QED
      BY <2>1, <2>2, <3>1, ClearedType DEF RowAfter
  <2>3. CASE e # txn[r].email
    BY <2>1, <2>3, OtherRows DEF TypeOK
  <2>4. QED
    BY <2>2, <2>3
<1>3. ASSUME NEW r \in Requests, CommitBadLogin(r) PROVE RowAfter(e)
  <2>1. CASE e = txn[r].email
    BY <1>3, <2>1 DEF RowAfter
  <2>2. CASE e # txn[r].email
    <3>1. user'[e] = user[e]
      BY <1>3, <2>2 DEF CommitBadLogin, TypeOK
    <3>2. failures'[e] = failures[e]
      BY <1>3, <2>2 DEF CommitBadLogin, TypeOK
    <3>3. lone'[e] = lone[e]
      BY <1>3, <2>2 DEF CommitBadLogin, TypeOK
    <3>4. QED
      BY <3>1, <3>2, <3>3, OtherRows
  <2>3. QED
    BY <2>1, <2>2
<1>4. ASSUME NEW r \in Requests, CommitVerify(r) PROVE RowAfter(e)
  <2>1. /\ user' = [user EXCEPT ![txn[r].email].verified = TRUE]
        /\ failures' = failures /\ lone' = lone
    BY <1>4 DEF CommitVerify
  <2>2. /\ user'[e].fails = user[e].fails
        /\ user'[e].lockedUntil = user[e].lockedUntil
        /\ user'[e].exists = user[e].exists
    BY <2>1 DEF TypeOK, UserRow
  <2>3. QED
    BY <2>1, <2>2 DEF RowAfter
<1>5. ASSUME NEW r \in Requests, CommitReset(r) PROVE RowAfter(e)
  <2>1. /\ user' = [user EXCEPT ![txn[r].email] = [Cleared(r) EXCEPT !.password = r]]
        /\ lone' = [lone EXCEPT ![txn[r].email] = 0] /\ failures' = failures
        /\ txn[r].email \in Emails
    BY <1>5 DEF CommitReset, SessionsInv
  <2>2. CASE e = txn[r].email
    <3>1. user'[e] = [Cleared(r) EXCEPT !.password = r] /\ lone'[e] = 0
      BY <2>1, <2>2 DEF TypeOK
    <3>2. /\ user'[e].fails = Cleared(r).fails
          /\ user'[e].lockedUntil = Cleared(r).lockedUntil
          /\ user'[e].exists = Cleared(r).exists
      BY <2>1, <3>1, ClearedType DEF UserRow
    <3>3. QED
      BY <2>1, <2>2, <3>1, <3>2, ClearedType DEF RowAfter
  <2>3. CASE e # txn[r].email
    BY <2>1, <2>3, OtherRows DEF TypeOK
  <2>4. QED
    BY <2>2, <2>3
<1>6. ASSUME NEW r \in Requests, CommitSetActive(r) PROVE RowAfter(e)
  <2> DEFINE b == txn[r].op = "activate"
  <2>1. /\ user' = [user EXCEPT ![txn[r].email].active = b]
        /\ failures' = failures /\ lone' = lone
    BY <1>6 DEF CommitSetActive
  <2> HIDE DEF b
  <2>2. /\ user'[e].fails = user[e].fails
        /\ user'[e].lockedUntil = user[e].lockedUntil
        /\ user'[e].exists = user[e].exists
    BY <2>1 DEF TypeOK, UserRow
  <2>3. QED
    BY <2>1, <2>2 DEF RowAfter
<1>7. ASSUME UNCHANGED <<user, failures, lone>> PROVE RowAfter(e)
  BY <1>7, OtherRows
<1>8. ASSUME NEW r \in Requests,
             \/ BeginStep(r)
             \/ \E x \in Emails, type \in TokenTypes : MailToken(r, x, type)
             \/ \E i \in Ids : Logout(r, i)
             \/ RejectAccount(r) \/ CommitSignupSession(r) \/ CommitRefresh(r)
             \/ SelectTokens(r) \/ Abort(r)
      PROVE  UNCHANGED <<user, failures, lone>>
  BY <1>8 DEF BeginStep, Begins, Load, MailToken, Logout, RejectAccount,
     CommitSignupSession, CommitRefresh, SelectTokens, Abort
<1>9. ASSUME Advance \/ UNCHANGED vars PROVE UNCHANGED <<user, failures, lone>>
  BY <1>9 DEF Advance, vars
<1>10. QED
  BY Steps, <1>1, <1>2, <1>3, <1>4, <1>5, <1>6, <1>7, <1>8, <1>9

\* What a wrong password does to its row.
LEMMA BadLoginDoes ==
  ASSUME StructInv, NEW r \in Requests, CommitBadLogin(r)
  PROVE  LET e == txn[r].email IN
         /\ e \in Emails
         /\ user[e].exists
         /\ txn[r].pc = "open" /\ txn[r].op = "bad_login"
         /\ failures'[e] = failures[e] + 1
         /\ \/ /\ txn[r].fails + 1 >= MaxFailed
               /\ user'[e].fails = 0
               /\ lone'[e] = 0
            \/ /\ txn[r].fails + 1 < MaxFailed
               /\ user'[e].fails = txn[r].fails + 1
               /\ user'[e].lockedUntil = user[e].lockedUntil
               /\ \/ lone'[e] = lone[e]
                  \/ lone'[e] = lone[e] + 1 /\ CounterRivals(r) = {}
         /\ txn'[r].pc = "closed"
         /\ \A s \in Requests \ {r} : txn'[s] = txn[s]
<1> DEFINE e == txn[r].email
           count == txn[r].fails + 1
<1> USE DEF StructInv
<1>1. txn[r].pc = "open" /\ txn[r].op = "bad_login"
  BY DEF CommitBadLogin, InFlight
<1>2. e \in Emails /\ user[e].exists /\ txn[r].fails \in Nat
  BY <1>1 DEF SessionsInv, UsersInv, TypeOK, Session
<1>3. /\ txn'[r].pc = "closed" /\ \A s \in Requests \ {r} : txn'[s] = txn[s]
  BY CloseDoes DEF CommitBadLogin
<1>4. failures'[e] = failures[e] + 1
  BY <1>2 DEF CommitBadLogin, TypeOK
<1>5. lone'[e] = IF count >= MaxFailed THEN 0
                 ELSE IF CounterRivals(r) = {} THEN lone[e] + 1 ELSE lone[e]
  BY <1>2 DEF CommitBadLogin, TypeOK
<1>6. user' = [user EXCEPT
                 ![e] = [user[e] EXCEPT
                           !.fails = IF count >= MaxFailed THEN 0 ELSE count,
                           !.lockedUntil = IF count >= MaxFailed
                                           THEN txn[r].at + LockFor ELSE @]]
  BY DEF CommitBadLogin
<1>7. /\ user'[e].fails = IF count >= MaxFailed THEN 0 ELSE count
      /\ count < MaxFailed => user'[e].lockedUntil = user[e].lockedUntil
  BY <1>2, <1>6, AccountConstants DEF TypeOK, UserRow
<1>8. QED
  BY <1>1, <1>2, <1>3, <1>4, <1>5, <1>7, AccountConstants

LEMMA CounterStep ==
  ASSUME StructInv, CounterInv, [Next]_vars
  PROVE  CounterInv'
<1> USE DEF StructInv
<1>1. /\ \A e \in Emails : /\ user[e].fails \in Nat /\ failures[e] \in Nat
                           /\ lone[e] \in Nat /\ user[e].lockedUntil \in Nat
      /\ \A r \in Requests : txn[r].fails \in Nat
      /\ MaxFailed \in Nat \ {0}
  BY AccountConstants DEF TypeOK, UserRow, Session
<1>2. ASSUME NEW e \in Emails PROVE CounterRow(e)'
  <2>1. CounterRow(e)
    BY DEF CounterInv
  <2>2. CASE /\ user'[e].fails \in {0, user[e].fails}
             /\ user'[e].lockedUntil \in {0, user[e].lockedUntil}
             /\ failures'[e] = failures[e]
             /\ user[e].exists => user'[e].exists
             /\ \/ lone'[e] = 0
                \/ lone'[e] = lone[e] /\ (user'[e].fails = user[e].fails \/ ~user[e].exists)
    BY <1>1, <2>1, <2>2 DEF CounterRow
  <2>3. ASSUME NEW r \in Requests, CommitBadLogin(r), txn[r].email = e
        PROVE  CounterRow(e)'
    <3>1. CounterLoaded(r)
      BY DEF CounterInv
    <3>2. user'[e].exists
      BY <2>3, BadLoginDoes, ExistStays
    <3>3. /\ failures'[e] = failures[e] + 1
          /\ txn[r].fails <= failures[e] /\ lone[e] <= txn[r].fails
          /\ \/ /\ txn[r].fails + 1 >= MaxFailed
                /\ user'[e].fails = 0
                /\ lone'[e] = 0
             \/ /\ txn[r].fails + 1 < MaxFailed
                /\ user'[e].fails = txn[r].fails + 1
                /\ user'[e].lockedUntil = user[e].lockedUntil
                /\ lone'[e] \in {lone[e], lone[e] + 1}
      BY <2>3, <3>1, BadLoginDoes DEF CounterLoaded
    <3>4. QED
      BY <1>1, <2>1, <3>2, <3>3 DEF CounterRow
  <2>4. QED
    BY <2>2, <2>3, RowsAfter DEF RowAfter
<1>3. ASSUME NEW s \in Requests, txn'[s].pc = "open", txn'[s].op = "bad_login"
      PROVE  /\ txn'[s].fails <= failures'[txn'[s].email]
             /\ lone'[txn'[s].email] <= txn'[s].fails
  <2>1. CASE GoesOn(s)
    <3> DEFINE e == txn[s].email
    <3>1. /\ txn[s].op = "bad_login" /\ txn[s].pc = "open"
          /\ txn'[s].email = e /\ txn'[s].fails = txn[s].fails /\ e \in Emails
      BY <1>3, <2>1 DEF GoesOn, SessionsInv
    <3>2. txn[s].fails <= failures[e] /\ lone[e] <= txn[s].fails
      BY <3>1 DEF CounterInv, CounterLoaded
    <3> HIDE DEF e
    <3>3. failures'[e] >= failures[e] /\ lone'[e] <= lone[e]
      <4>1. CASE /\ failures'[e] = failures[e]
                 /\ lone'[e] \in {0, lone[e]}
        BY <1>1, <3>1, <4>1
      <4>2. ASSUME NEW r \in Requests, CommitBadLogin(r), txn[r].email = e
            PROVE  failures'[e] >= failures[e] /\ lone'[e] <= lone[e]
        <5>1. s # r
          BY <1>3, <4>2, BadLoginDoes
        <5>2. s \in Open /\ r \in Open
          BY <3>1, <4>2, BadLoginDoes DEF Open
        <5>3. s \in CounterRivals(r)
          BY <5>1, <5>2, <3>1, <4>2 DEF OverlapInv, CounterRivals, e
        <5>4. failures'[e] = failures[e] + 1 /\ lone'[e] \in {0, lone[e]}
          BY <4>2, <5>3, BadLoginDoes
        <5>5. QED
          BY <1>1, <3>1, <5>4
      <4>3. QED
        BY <3>1, <4>1, <4>2, RowsAfter DEF RowAfter
    <3>4. failures'[e] \in Nat /\ lone'[e] \in Nat
      BY <3>1, TypeStep DEF TypeOK
    <3>5. QED
      BY <1>1, <3>1, <3>2, <3>3, <3>4
  <2>2. CASE BeginStep(s)
    <3>1. PICK op \in Ops, e \in Emails, i \in Ids \cup {None} : Begins(s, op, e, i)
      BY <2>2 DEF BeginStep
    <3>2. /\ txn'[s].email = e /\ txn'[s].fails = user[e].fails
          /\ failures' = failures /\ lone' = lone
      BY <3>1, LoadDoes DEF Begins
    <3>3. QED
      BY <3>2 DEF CounterInv, CounterRow
  <2>3. QED
    BY <1>3, <2>1, <2>2, SessionMoves
<1>4. QED
  BY <1>2, <1>3 DEF CounterInv, CounterLoaded

LEMMA CounterInvariant == Spec => []CounterInv
  BY CounterInit, CounterStep, StructInvariant, PTL DEF Spec

\* No account is locked before MaxFailed failures were recorded against it,
\* whatever stale counters logins write back (register_failed_login).
THEOREM LocksHaveFailures == Spec => []LockNeedsFailures
<1>1. CounterInv => LockNeedsFailures
  BY DEF CounterInv, CounterRow, LockNeedsFailures
<1>2. QED
  BY <1>1, CounterInvariant, PTL

\* Failures that meet no rival are counted, and the counter stays below the
\* limit (register_failed_login, register_successful_login).
THEOREM LoneFailuresCount == Spec => []LoneFailuresAreCounted
<1>1. CounterInv => LoneFailuresAreCounted
  BY DEF CounterInv, CounterRow, LoneFailuresAreCounted
<1>2. QED
  BY <1>1, CounterInvariant, PTL

-----------------------------------------------------------------------------
(* Tokens.                                                                 *)

\* Request r may still make its token of a type.
Unminted(r, type) ==
    \/ txn[r].pc \in {"new", "open", "selected"}
    \/ txn[r].pc = "issuing" /\ type = "refresh"

Consumes(r) == txn[r].op \in Consumers /\ txn[r].pc \in {"open", "selected", "closed"}

\* A token not made has no owner; the line of one that is made begins with the
\* request that made it.
FreshInv ==
    /\ \A r \in Requests :
          /\ txn[r].pc = "new" => txn[r].op = "none"
          /\ \A type \in TokenTypes :
                Unminted(r, type) => token[<<r, type>>].owner = None
    /\ \A i \in Ids : token[i].owner # None => i[1] \in token[i].line

\* A consumer works on a token of its user; as long as it is open, only others
\* that are open with it can have stamped that token.
ConsumerInv ==
    \A r \in Requests : Consumes(r) =>
        /\ txn[r].id \in Ids
        /\ txn[r].email \in Emails
        /\ token[txn[r].id].owner = txn[r].email
        /\ \/ txn[r].pc # "closed" /\ token[txn[r].id].usedBy = None
           \/ txn[r].pc = "closed" /\ token[txn[r].id].usedBy = r
           \/ token[txn[r].id].usedBy \in overlap[r]

LEMMA TokenInit == Init => FreshInv /\ ConsumerInv
<1> SUFFICES ASSUME Init PROVE FreshInv /\ ConsumerInv
  OBVIOUS
<1>1. /\ \A r \in Requests : txn[r].pc = "new" /\ txn[r].op = "none"
      /\ \A i \in Ids : token[i].owner = None
  BY DEF Init, NewSession, NoToken
<1>2. \A r \in Requests, type \in TokenTypes : <<r, type>> \in Ids
  BY DEF Ids
<1>3. QED
  BY <1>1, <1>2 DEF FreshInv, ConsumerInv, Consumes, Consumers

\* A step of request r makes the tokens of M and may stamp others.
TokenEffect(r, M) ==
    /\ \A i \in M : /\ i \in Ids
                    /\ i[1] = r
                    /\ token[i].owner = None
                    /\ r \in token'[i].line
    /\ \A i \in Ids : i \notin M =>
          /\ token'[i].owner = token[i].owner
          /\ token'[i].password = token[i].password
          /\ token'[i].line = token[i].line
          /\ \/ token'[i].usedBy = token[i].usedBy
             \/ /\ token[i].usedBy = None
                /\ token'[i].usedBy = r
                /\ \A s \in Open : s # r => r \in overlap'[s]
    /\ \A s \in Requests :
          s # r \/ txn[r].pc # "new" => overlap[s] \subseteq overlap'[s]
    /\ \A s \in Requests : s # r => txn'[s] = txn[s]
    /\ txn'[r].pc # "new"
    /\ \A type \in TokenTypes :
          Unminted(r, type)' => Unminted(r, type) /\ <<r, type>> \notin M
    /\ Consumes(r)' =>
          \/ BeginStep(r)
          \/ /\ Consumes(r)
             /\ txn'[r].op = txn[r].op
             /\ txn'[r].id = txn[r].id
             /\ txn'[r].email = txn[r].email
             /\ txn[r].pc # "closed"
             /\ txn'[r].pc = "closed" => token'[txn[r].id].usedBy # None
             /\ txn'[r].pc # "closed" => token' = token

TokenIdle == UNCHANGED <<token, txn, overlap>>

LEMMA OverlapAtCommit ==
  ASSUME StructInv, NEW r \in Open, overlap' = overlap
  PROVE  /\ \A s \in Open : s # r => r \in overlap'[s]
         /\ \A s \in Requests : overlap[s] \subseteq overlap'[s]
  BY DEF StructInv, OverlapInv

LEMMA BeginTokens ==
  ASSUME StructInv, NEW r \in Requests, BeginStep(r)
  PROVE  TokenEffect(r, {}) /\ token' = token
<1>1. PICK op \in Ops, e \in Emails, i \in Ids \cup {None} : Load(r, op, e, i)
  BY DEF BeginStep, Begins
<1>2. /\ txn[r].pc = "new" /\ txn'[r].pc = "open" /\ token' = token
      /\ \A s \in Requests \ {r} : txn'[s] = txn[s]
      /\ \A s \in Open : overlap'[s] = overlap[s] \cup {r}
      /\ \A s \in Requests \ {r} : s \notin Open => overlap'[s] = overlap[s]
      /\ overlap'[r] = Open
  BY <1>1, LoadDoes DEF StructInv
<1>3. QED
  BY <1>1, <1>2 DEF TokenEffect, Unminted

\* The end of a session that consumes nothing.
LEMMA CloseTokens ==
  ASSUME StructInv, FreshInv, NEW r \in Open, NEW phase \in {"closed", "error"},
         Close(r, phase), overlap' = overlap,
         Consumes(r) /\ phase = "closed" => token'[txn[r].id].usedBy # None,
         NEW M, \A i \in M : /\ i \in Ids /\ i[1] = r /\ token[i].owner = None
                             /\ r \in token'[i].line,
         \A i \in Ids : i \notin M =>
            /\ token'[i].owner = token[i].owner
            /\ token'[i].password = token[i].password
            /\ token'[i].line = token[i].line
            /\ \/ token'[i].usedBy = token[i].usedBy
               \/ token[i].usedBy = None /\ token'[i].usedBy = r
  PROVE  TokenEffect(r, M)
<1>1. r \in Requests /\ txn[r].pc \in {"open", "issuing", "selected"}
  BY DEF Open
<1>2. /\ txn'[r].pc = phase /\ txn'[r].op = txn[r].op
      /\ txn'[r].email = txn[r].email /\ txn'[r].id = txn[r].id
      /\ \A s \in Requests \ {r} : txn'[s] = txn[s]
  BY <1>1, CloseDoes DEF StructInv
<1>3. /\ \A s \in Open : s # r => r \in overlap'[s]
      /\ \A s \in Requests : overlap[s] \subseteq overlap'[s]
  BY OverlapAtCommit
<1>4. ~Unminted(r, "refresh")' /\ \A type \in TokenTypes : ~Unminted(r, type)'
  BY <1>2 DEF Unminted
<1>5. Consumes(r)' => /\ Consumes(r)
                      /\ txn'[r].op = txn[r].op
                      /\ txn'[r].id = txn[r].id
                      /\ txn'[r].email = txn[r].email
                      /\ txn[r].pc # "closed"
                      /\ txn'[r].pc = "closed" => token'[txn[r].id].usedBy # None
                      /\ txn'[r].pc # "closed" => token' = token
  <2>1. txn[r].op \in Consumers => txn[r].pc # "issuing"
    BY DEF StructInv, SessionsInv, Consumers, Open
  <2>2. QED
    BY <1>1, <1>2, <2>1 DEF Consumes
<1>6. txn'[r].pc # "new"
  BY <1>2
<1>7. QED
  BY <1>2, <1>3, <1>4, <1>5, <1>6 DEF TokenEffect

LEMMA TokenEffects ==
  ASSUME StructInv, FreshInv, ConsumerInv, [Next]_vars
  PROVE  TokenIdle \/ \E r \in Requests : \E M \in SUBSET Ids : TokenEffect(r, M)
<1> USE DEF StructInv
<1> DEFINE Goal == \E r \in Requests : \E M \in SUBSET Ids : TokenEffect(r, M)
<1>0. /\ "refresh" \in TokenTypes /\ "email_verify" \in TokenTypes
      /\ token \in [Ids -> TokenRow]
      /\ \A r \in Requests, type \in TokenTypes :
            <<r, type>> \in Ids /\ <<r, type>>[1] = r
      /\ \A r \in Requests : txn[r].pc \in {"open", "issuing", "selected"} => r \in Open
  BY DEF TypeOK, TokenTypes, Ids, Open
<1>1. ASSUME NEW r \in Requests, BeginStep(r) PROVE Goal
  <2>1. TokenEffect(r, {}) /\ {} \in SUBSET Ids
    BY <1>1, BeginTokens
  <2>2. QED
    BY <2>1
<1>2. ASSUME NEW r \in Requests, NEW e \in Emails, NEW type \in TokenTypes,
             MailToken(r, e, type)
      PROVE  Goal
  <2> DEFINE row == [NoToken EXCEPT !.owner = e, !.expires = clock + Ttl[type],
                                    !.line = {r}]
             new == <<r, type>>
  <2>1. /\ token' = [token EXCEPT ![new] = row] /\ txn[r].pc = "new"
        /\ txn' = [txn EXCEPT ![r].pc = "closed"] /\ overlap' = overlap
    BY <1>2 DEF MailToken
  <2>2. row.line = {r}
    BY DEF NoToken
  <2>3. new \in Ids /\ new[1] = r
    BY <1>0
  <2>4. token[new].owner = None /\ txn[r].op = "none"
    BY <2>1 DEF FreshInv, Unminted
  <2> HIDE DEF row, new
  <2>5. /\ token'[new] = row
        /\ \A i \in Ids : i \notin {new} => token'[i] = token[i]
    BY <1>0, <2>1, <2>3
  <2>6. /\ txn'[r].pc = "closed" /\ txn'[r].op = txn[r].op
        /\ \A s \in Requests : s # r => txn'[s] = txn[s]
    BY <2>1 DEF TypeOK, Session
  <2>7. ~Consumes(r)' /\ \A t \in TokenTypes : ~Unminted(r, t)'
    BY <2>4, <2>6 DEF Consumes, Unminted, Consumers
  <2>8. TokenEffect(r, {new})
    BY <2>1, <2>2, <2>3, <2>4, <2>5, <2>6, <2>7 DEF TokenEffect
  <2>9. QED
    BY <2>3, <2>8
<1>3. ASSUME NEW r \in Requests, NEW k \in Ids, Logout(r, k) PROVE Goal
  <2>1. /\ token' = Stamped({k}, r) /\ txn[r].pc = "new"
        /\ txn' = [txn EXCEPT ![r].pc = "closed"]
        /\ overlap' = [s \in Requests |->
                     IF s = r THEN Open
                     ELSE IF s \in Open THEN overlap[s] \cup {r}
                     ELSE overlap[s]]
    BY <1>3 DEF Logout
  <2>2. txn[r].op = "none"
    BY <2>1 DEF FreshInv
  <2>3. /\ txn'[r].pc = "closed" /\ txn'[r].op = txn[r].op
        /\ \A s \in Requests : s # r => txn'[s] = txn[s]
    BY <2>1 DEF TypeOK, Session
  <2>4. ~Consumes(r)' /\ \A t \in TokenTypes : ~Unminted(r, t)'
    BY <2>2, <2>3 DEF Consumes, Unminted, Consumers
  <2>5. /\ \A s \in Open : s # r => r \in overlap'[s]
        /\ \A s \in Requests : s # r => overlap[s] \subseteq overlap'[s]
    BY <2>1 DEF Open
  <2>6. \A i \in Ids :
          /\ token'[i].owner = token[i].owner
          /\ token'[i].password = token[i].password
          /\ token'[i].line = token[i].line
          /\ \/ token'[i].usedBy = token[i].usedBy
             \/ token[i].usedBy = None /\ token'[i].usedBy = r
    BY <2>1, StampedDoes
  <2>7. TokenEffect(r, {})
    BY <2>1, <2>3, <2>4, <2>5, <2>6 DEF TokenEffect
  <2>8. QED
    BY <2>7
<1>4. ASSUME NEW r \in Requests, NEW type \in TokenTypes, NEW row,
             row.line = {r}, token' = [token EXCEPT ![<<r, type>>] = row],
             Close(r, "closed"), overlap' = overlap, r \in Open, Unminted(r, type),
             ~Consumes(r)
      PROVE  Goal
  <2> DEFINE new == <<r, type>>
  <2>1. new \in Ids /\ new[1] = r /\ token[new].owner = None
    BY <1>0, <1>4 DEF FreshInv
  <2> HIDE DEF new
  <2>2. /\ token'[new] = row
        /\ \A i \in Ids : i \notin {new} => token'[i] = token[i]
    BY <1>0, <1>4, <2>1 DEF new
  <2>3. \A i \in {new} : i \in Ids /\ i[1] = r /\ token[i].owner = None
                         /\ r \in token'[i].line
    BY <1>4, <2>1, <2>2
  <2>4. \A i \in Ids : i \notin {new} =>
          /\ token'[i].owner = token[i].owner
          /\ token'[i].password = token[i].password
          /\ token'[i].line = token[i].line
          /\ \/ token'[i].usedBy = token[i].usedBy
             \/ token[i].usedBy = None /\ token'[i].usedBy = r
    BY <2>2
  <2> DEFINE M == {new}
  <2>5. /\ \A i \in M : i \in Ids /\ i[1] = r /\ token[i].owner = None
                        /\ r \in token'[i].line
        /\ \A i \in Ids : i \notin M =>
             /\ token'[i].owner = token[i].owner
             /\ token'[i].password = token[i].password
             /\ token'[i].line = token[i].line
             /\ \/ token'[i].usedBy = token[i].usedBy
                \/ token[i].usedBy = None /\ token'[i].usedBy = r
        /\ M \in SUBSET Ids
    BY <2>1, <2>3, <2>4
  <2> HIDE DEF M
  <2>6. TokenEffect(r, M)
    BY <1>4, <2>5, CloseTokens
  <2>7. QED
    BY <2>5, <2>6
<1>5. ASSUME NEW r \in Requests, CommitAccount(r) PROVE Goal
  <2> DEFINE row == Minted(r, "email_verify", txn[r].email, None, {r})
             new == <<r, "email_verify">>
  <2>1. /\ token' = [token EXCEPT ![new] = row]
        /\ overlap' = overlap /\ txn[r].pc = "open" /\ txn[r].op \in {"signup", "invite"}
    BY <1>5 DEF CommitAccount, InFlight
  <2>2. row.line = {r}
    BY DEF Minted
  <2>3. ~Consumes(r) /\ r \in Open /\ Unminted(r, "email_verify")
    BY <1>0, <2>1 DEF Consumes, Consumers, Unminted
  <2>4. CASE txn[r].op # "signup"
    <3>1. Close(r, "closed")
      BY <1>5, <2>4 DEF CommitAccount
    <3> HIDE DEF row
    <3>2. QED
      BY <1>0, <1>4, <2>1, <2>2, <2>3, <3>1
  <2>5. CASE txn[r].op = "signup"
    <3>1. txn' = [txn EXCEPT ![r].pc = "issuing"]
      BY <1>5, <2>5 DEF CommitAccount
    <3>2. /\ txn'[r].pc = "issuing" /\ txn'[r].op = "signup"
          /\ \A s \in Requests : s # r => txn'[s] = txn[s]
      BY <2>5, <3>1 DEF TypeOK, Session
    <3>3. new \in Ids /\ new[1] = r /\ token[new].owner = None
      BY <1>0, <2>3 DEF FreshInv
    <3>4. \A t \in TokenTypes : Unminted(r, t)' => Unminted(r, t) /\ <<r, t>> # new
      BY <2>1, <3>2 DEF Unminted
    <3>5. ~Consumes(r)'
      BY <3>2 DEF Consumes, Consumers
    <3>6. /\ \A s \in Open : s # r => r \in overlap'[s]
          /\ \A s \in Requests : overlap[s] \subseteq overlap'[s]
      BY <2>1, <2>3, OverlapAtCommit
    <3> HIDE DEF row, new
    <3>7. /\ token'[new] = row
          /\ \A i \in Ids : i \notin {new} => token'[i] = token[i]
      BY <1>0, <2>1, <3>3
    <3>8. TokenEffect(r, {new})
      BY <2>2, <3>2, <3>3, <3>4, <3>5, <3>6, <3>7 DEF TokenEffect
    <3>9. QED
      BY <3>3, <3>8
  <2>6. QED
    BY <2>4, <2>5
<1>6. ASSUME NEW r \in Requests, CommitSignupSession(r) PROVE Goal
  <2> DEFINE row == Minted(r, "refresh", txn[r].email, r, {r})
  <2>1. /\ token' = [token EXCEPT ![<<r, "refresh">>] = row]
        /\ Close(r, "closed") /\ overlap' = overlap /\ txn[r].pc = "issuing"
    BY <1>6 DEF CommitSignupSession
  <2>2. row.line = {r}
    BY DEF Minted
  <2>3. ~Consumes(r) /\ r \in Open /\ Unminted(r, "refresh")
    BY <1>0, <2>1 DEF Consumes, Unminted
  <2> HIDE DEF row
  <2>4. QED
    BY <1>0, <1>4, <2>1, <2>2, <2>3
<1>7. ASSUME NEW r \in Requests, CommitLogin(r) PROVE Goal
  <2> DEFINE row == Minted(r, "refresh", txn[r].email, txn[r].password, {r})
  <2>1. /\ token' = [token EXCEPT ![<<r, "refresh">>] = row]
        /\ Close(r, "closed") /\ overlap' = overlap
        /\ txn[r].pc = "open" /\ txn[r].op = "login"
    BY <1>7 DEF CommitLogin, InFlight
  <2>2. row.line = {r}
    BY DEF Minted
  <2>3. ~Consumes(r) /\ r \in Open /\ Unminted(r, "refresh")
    BY <1>0, <2>1 DEF Consumes, Unminted, Consumers
  <2> HIDE DEF row
  <2>4. QED
    BY <1>0, <1>4, <2>1, <2>2, <2>3
<1>8. ASSUME NEW r \in Requests, CommitRefresh(r) PROVE Goal
  <2> DEFINE k   == txn[r].id
             row == Minted(r, "refresh", txn[r].email, token[k].password,
                           token[k].line \cup {r})
             new == <<r, "refresh">>
             table == Stamped({k}, r)
             M == {new}
  <2>1. /\ token' = [table EXCEPT ![new] = row]
        /\ Close(r, "closed") /\ overlap' = overlap
        /\ txn[r].pc = "open" /\ txn[r].op = "refresh"
    BY <1>8 DEF CommitRefresh, InFlight
  <2>2. r \in row.line
    BY DEF Minted
  <2>3. Consumes(r) /\ r \in Open /\ Unminted(r, "refresh")
    BY <1>0, <2>1 DEF Consumes, Unminted, Consumers
  <2>4. k \in Ids /\ token[k].owner # None
    BY <2>3, NullIsNoId DEF ConsumerInv
  <2>5. new \in Ids /\ new[1] = r /\ token[new].owner = None
    BY <1>0, <2>3 DEF FreshInv
  <2>6. /\ table \in [Ids -> TokenRow]
        /\ \A i \in Ids :
              /\ table[i].owner = token[i].owner
              /\ table[i].password = token[i].password
              /\ table[i].line = token[i].line
              /\ table[i].usedBy = IF i \in {k} /\ token[i].usedBy = None
                                   THEN r ELSE token[i].usedBy
    BY StampedDoes
  <2> HIDE DEF row, new, table, k
  <2>7. token'[new] = row /\ \A i \in Ids : i \notin M => token'[i] = table[i]
    BY <2>1, <2>5, <2>6
  <2>8. token'[k].usedBy # None
    BY <2>4, <2>5, <2>6, <2>7, NullIsNoId
  <2>9. /\ \A i \in M : i \in Ids /\ i[1] = r /\ token[i].owner = None
                        /\ r \in token'[i].line
        /\ \A i \in Ids : i \notin M =>
             /\ token'[i].owner = token[i].owner
             /\ token'[i].password = token[i].password
             /\ token'[i].line = token[i].line
             /\ \/ token'[i].usedBy = token[i].usedBy
                \/ token[i].usedBy = None /\ token'[i].usedBy = r
        /\ M \in SUBSET Ids
    BY <2>2, <2>5, <2>6, <2>7
  <2> HIDE DEF M
  <2>10. token'[txn[r].id].usedBy # None
    BY <2>8 DEF k
  <2>11. TokenEffect(r, M)
    BY <2>1, <2>3, <2>9, <2>10, CloseTokens
  <2>12. QED
    BY <2>9, <2>11
<1>9. ASSUME NEW r \in Requests, NEW S, token' = Stamped(S, r),
             Close(r, "closed"), overlap' = overlap, r \in Open,
             Consumes(r) => txn[r].id \in S
      PROVE  Goal
  <2>1. \A i \in Ids :
          /\ token'[i].owner = token[i].owner
          /\ token'[i].password = token[i].password
          /\ token'[i].line = token[i].line
          /\ token'[i].usedBy = IF i \in S /\ token[i].usedBy = None
                                THEN r ELSE token[i].usedBy
    BY <1>9, StampedDoes
  <2>2. Consumes(r) => token'[txn[r].id].usedBy # None
    BY <1>9, <2>1, NullIsNoId DEF ConsumerInv
  <2> DEFINE M == {}
  <2>3. /\ \A i \in M : i \in Ids /\ i[1] = r /\ token[i].owner = None
                        /\ r \in token'[i].line
        /\ \A i \in Ids : i \notin M =>
             /\ token'[i].owner = token[i].owner
             /\ token'[i].password = token[i].password
             /\ token'[i].line = token[i].line
             /\ \/ token'[i].usedBy = token[i].usedBy
                \/ token[i].usedBy = None /\ token'[i].usedBy = r
        /\ M \in SUBSET Ids
    BY <2>1
  <2> HIDE DEF M
  <2>4. TokenEffect(r, M)
    BY <1>9, <2>2, <2>3, CloseTokens
  <2>5. QED
    BY <2>3, <2>4
<1>10. ASSUME NEW r \in Requests, CommitVerify(r) PROVE Goal
  <2>1. /\ token' = Stamped({txn[r].id}, r) /\ Close(r, "closed")
        /\ overlap' = overlap /\ txn[r].pc = "open"
    BY <1>10 DEF CommitVerify, InFlight
  <2>2. QED
    BY <1>0, <1>9, <2>1
<1>11. ASSUME NEW r \in Requests, CommitReset(r) PROVE Goal
  <2>1. /\ token' = Stamped({txn[r].id} \cup txn[r].tokens, r) /\ Close(r, "closed")
        /\ overlap' = overlap /\ txn[r].pc = "selected"
    BY <1>11 DEF CommitReset
  <2>2. QED
    BY <1>0, <1>9, <2>1
<1>12. ASSUME NEW r \in Requests,
              \/ RejectAccount(r) \/ CommitBadLogin(r) \/ CommitSetActive(r) \/ Abort(r)
       PROVE  Goal
  <2>1. token' = token /\ overlap' = overlap /\ r \in Open
    BY <1>12 DEF RejectAccount, CommitBadLogin, CommitSetActive, Abort, InFlight, Open
  <2>2. PICK phase \in {"closed", "error"} :
          /\ Close(r, phase)
          /\ Consumes(r) => phase # "closed"
    BY <1>12 DEF RejectAccount, CommitBadLogin, CommitSetActive, Abort, InFlight,
       Consumes, Consumers
  <2> DEFINE M == {}
  <2>3. /\ \A i \in M : i \in Ids /\ i[1] = r /\ token[i].owner = None
                        /\ r \in token'[i].line
        /\ \A i \in Ids : i \notin M =>
             /\ token'[i].owner = token[i].owner
             /\ token'[i].password = token[i].password
             /\ token'[i].line = token[i].line
             /\ \/ token'[i].usedBy = token[i].usedBy
                \/ token[i].usedBy = None /\ token'[i].usedBy = r
        /\ M \in SUBSET Ids
    BY <2>1
  <2> HIDE DEF M
  <2>4. Consumes(r) /\ phase = "closed" => token'[txn[r].id].usedBy # None
    BY <2>2
  <2>5. TokenEffect(r, M)
    BY <2>1, <2>2, <2>3, <2>4, CloseTokens
  <2>6. QED
    BY <2>3, <2>5
<1>13. ASSUME NEW r \in Requests, SelectTokens(r) PROVE Goal
  <2> DEFINE S == {i \in Ids : i[2] = "refresh" /\ token[i].owner = txn[r].email
                                /\ token[i].usedBy = None}
  <2>1. /\ txn' = [txn EXCEPT ![r] = [txn[r] EXCEPT !.pc = "selected", !.tokens = S]]
        /\ overlap' = overlap /\ token' = token
        /\ txn[r].pc = "open" /\ txn[r].op = "reset"
    BY <1>13 DEF SelectTokens, InFlight
  <2> HIDE DEF S
  <2>2. /\ txn'[r].pc = "selected" /\ txn'[r].op = txn[r].op
        /\ txn'[r].email = txn[r].email /\ txn'[r].id = txn[r].id
        /\ \A s \in Requests : s # r => txn'[s] = txn[s]
    BY <2>1 DEF TypeOK, Session
  <2>3. \A type \in TokenTypes : Unminted(r, type)' => Unminted(r, type)
    BY <2>1, <2>2 DEF Unminted
  <2>4. Consumes(r) /\ txn[r].pc # "closed" /\ txn'[r].pc # "closed"
    BY <2>1, <2>2 DEF Consumes, Consumers
  <2>5. txn'[r].pc # "new"
    BY <2>2
  <2>6. /\ \A i \in Ids : /\ token'[i].owner = token[i].owner
                         /\ token'[i].password = token[i].password
                         /\ token'[i].line = token[i].line
                         /\ token'[i].usedBy = token[i].usedBy
        /\ \A s \in Requests : overlap[s] \subseteq overlap'[s]
    BY <2>1
  <2> DEFINE M == {}
  <2>7. M \in SUBSET Ids /\ \A i : i \notin M
    OBVIOUS
  <2> HIDE DEF M
  <2>8. TokenEffect(r, M)
    BY <2>1, <2>2, <2>3, <2>4, <2>5, <2>6, <2>7 DEF TokenEffect
  <2>9. QED
    BY <2>7, <2>8
<1>14. ASSUME Advance \/ UNCHANGED vars PROVE TokenIdle
  BY <1>14 DEF Advance, vars, TokenIdle
<1>15. QED
  BY Steps, <1>1, <1>2, <1>3, <1>5, <1>6, <1>7, <1>8, <1>10, <1>11, <1>12, <1>13, <1>14

LEMMA TokenStep ==
  ASSUME StructInv, FreshInv, ConsumerInv, [Next]_vars
  PROVE  FreshInv' /\ ConsumerInv'
<1> USE DEF StructInv
<1>1. CASE TokenIdle
  BY <1>1 DEF TokenIdle, FreshInv, ConsumerInv, Consumes, Unminted
<1>2. ASSUME NEW r \in Requests, NEW M \in SUBSET Ids, TokenEffect(r, M)
      PROVE  FreshInv' /\ ConsumerInv'
  <2>0. \A s \in Requests, type \in TokenTypes :
           <<s, type>> \in Ids /\ <<s, type>>[1] = s
    BY DEF Ids
  <2>1. ASSUME NEW s \in Requests
        PROVE  /\ txn'[s].pc = "new" => txn'[s].op = "none"
               /\ \A type \in TokenTypes :
                     Unminted(s, type)' => token'[<<s, type>>].owner = None
    <3>1. CASE s = r
      BY <1>2, <2>0, <3>1 DEF TokenEffect, FreshInv
    <3>2. CASE s # r
      <4>1. txn'[s] = txn[s]
        BY <1>2, <3>2 DEF TokenEffect
      <4>2. \A type \in TokenTypes : Unminted(s, type)' => Unminted(s, type)
        BY <4>1 DEF Unminted
      <4>3. \A type \in TokenTypes : <<s, type>> \notin M
        BY <1>2, <2>0, <3>2 DEF TokenEffect
      <4>4. QED
        BY <1>2, <2>0, <4>1, <4>2, <4>3 DEF TokenEffect, FreshInv
    <3>3. QED
      BY <3>1, <3>2
  <2>2. \A i \in Ids : token'[i].owner # None => i[1] \in token'[i].line
    BY <1>2 DEF TokenEffect, FreshInv
  <2>3. FreshInv'
    BY <2>1, <2>2 DEF FreshInv
  <2>4. ASSUME NEW s \in Requests, Consumes(s)'
        PROVE  /\ txn'[s].id \in Ids
               /\ txn'[s].email \in Emails
               /\ token'[txn'[s].id].owner = txn'[s].email
               /\ \/ txn'[s].pc # "closed" /\ token'[txn'[s].id].usedBy = None
                  \/ txn'[s].pc = "closed" /\ token'[txn'[s].id].usedBy = s
                  \/ token'[txn'[s].id].usedBy \in overlap'[s]
    <3>1. CASE BeginStep(s)
      <4>1. PICK op \in Ops, e \in Emails, i \in Ids \cup {None} : Begins(s, op, e, i)
        BY <3>1 DEF BeginStep
      <4>2. /\ txn'[s].id = i /\ txn'[s].email = e /\ txn'[s].op = op
            /\ txn'[s].pc = "open" /\ token' = token
        BY <4>1, LoadDoes DEF Begins
      <4>3. op \in Consumers
        BY <2>4, <4>2 DEF Consumes
      <4>4. i \in Ids /\ token[i].owner = e /\ token[i].usedBy = None
        BY <4>1, <4>3 DEF Begins
      <4>5. QED
        BY <4>2, <4>4
    <3>2. CASE ~BeginStep(s)
      <4>1. /\ Consumes(s)
            /\ txn'[s].id = txn[s].id /\ txn'[s].email = txn[s].email
            /\ \/ s # r /\ txn'[s].pc = txn[s].pc
               \/ /\ s = r /\ txn[s].pc # "closed"
                  /\ txn'[s].pc = "closed" => token'[txn[s].id].usedBy # None
                  /\ txn'[s].pc # "closed" => token' = token
        BY <1>2, <2>4, <3>2 DEF TokenEffect, Consumes
      <4> DEFINE k == txn[s].id
      <4>2. /\ k \in Ids /\ txn[s].email \in Emails
            /\ token[k].owner = txn[s].email
            /\ \/ txn[s].pc # "closed" /\ token[k].usedBy = None
               \/ txn[s].pc = "closed" /\ token[k].usedBy = s
               \/ token[k].usedBy \in overlap[s]
        BY <4>1 DEF ConsumerInv
      <4> HIDE DEF k
      <4>3. token[k].owner # None /\ k \notin M
        BY <1>2, <4>2, NullIsNoId DEF TokenEffect
      <4>4. /\ token'[k].owner = token[k].owner
            /\ \/ token'[k].usedBy = token[k].usedBy
               \/ /\ token[k].usedBy = None
                  /\ token'[k].usedBy = r
                  /\ \A x \in Open : x # r => r \in overlap'[x]
        BY <1>2, <4>2, <4>3 DEF TokenEffect
      <4>5. overlap[s] \subseteq overlap'[s] /\ overlap[s] \subseteq Requests
        BY <1>2, <4>1 DEF TokenEffect, Consumes, TypeOK
      <4>6. txn[s].pc # "closed" => s \in Open
        BY <4>1 DEF Consumes, Open
      <4>7. \/ txn'[s].pc # "closed" /\ token'[k].usedBy = None
            \/ txn'[s].pc = "closed" /\ token'[k].usedBy = s
            \/ token'[k].usedBy \in overlap'[s]
        <5>1. CASE s # r /\ txn'[s].pc = txn[s].pc
          <6>1. CASE token'[k].usedBy = token[k].usedBy
            BY <4>2, <4>5, <5>1, <6>1
          <6>2. CASE /\ token[k].usedBy = None
                     /\ token'[k].usedBy = r
                     /\ \A x \in Open : x # r => r \in overlap'[x]
            <7>1. token[k].usedBy # s /\ token[k].usedBy \notin overlap[s]
              BY <4>5, <6>2, NullIsNoId
            <7>2. txn[s].pc # "closed"
              BY <4>2, <7>1
            <7>3. QED
              BY <4>6, <5>1, <6>2, <7>2
          <6>3. QED
            BY <4>4, <6>1, <6>2
        <5>2. CASE /\ s = r /\ txn[s].pc # "closed"
                   /\ txn'[s].pc = "closed" => token'[k].usedBy # None
                   /\ txn'[s].pc # "closed" => token' = token
          <6>1. CASE token[k].usedBy \in overlap[s]
            <7>1. token[k].usedBy # None
              BY <4>5, <6>1, NullIsNoId
            <7>2. QED
              BY <4>4, <4>5, <6>1, <7>1
          <6>2. CASE token[k].usedBy = None
            <7>1. token'[k].usedBy \in {None, r}
              BY <4>4, <6>2
            <7>2. CASE txn'[s].pc = "closed"
              BY <5>2, <7>1, <7>2
            <7>3. CASE txn'[s].pc # "closed"
              BY <5>2, <6>2, <7>3
            <7>4. QED
              BY <7>2, <7>3
          <6>3. QED
            BY <4>2, <5>2, <6>1, <6>2
        <5>3. QED
          BY <4>1, <5>1, <5>2 DEF k
      <4>8. QED
        BY <4>1, <4>2, <4>4, <4>7 DEF k
    <3>3. QED
      BY <3>1, <3>2
  <2>5. ConsumerInv'
    BY <2>4 DEF ConsumerInv
  <2>6. QED
    BY <2>3, <2>5
<1>3. QED
  BY <1>1, <1>2, TokenEffects

TokenInv == StructInv /\ FreshInv /\ ConsumerInv

LEMMA TokenInvariant == Spec => []TokenInv
<1>1. Init => TokenInv
  BY StructInit, TokenInit DEF TokenInv
<1>2. TokenInv /\ [Next]_vars => TokenInv'
  BY StructStep, TokenStep DEF TokenInv
<1>3. QED
  BY <1>1, <1>2, PTL DEF Spec

\* Whatever takes effect through a token stamped it first, or was open together
\* with the request that did (refresh, verify_email, reset_password, logout).
THEOREM SpentTokensStaySpent == Spec => []SpentTokensDoNothing
<1>1. TokenInv => SpentTokensDoNothing
  BY DEF TokenInv, ConsumerInv, Consumes, SpentTokensDoNothing
<1>2. QED
  BY <1>1, TokenInvariant, PTL

-----------------------------------------------------------------------------
(* Passwords.                                                              *)

\* One of the requests of L was open together with a reset of e that committed.
Excuse(e, L) ==
    \E s \in Requests :
        Done(s, "reset") /\ txn[s].email = e /\ L \cap overlap[s] # {}

\* A good session, a session to be issued, and a login or a refresh in flight
\* go back to the user's present password, or have an excuse; and whatever
\* good session an open reset has not selected met that reset.
GoodSessions ==
    \A i \in Ids :
        i[2] = "refresh" /\ token[i].owner # None /\ token[i].usedBy = None =>
            \/ token[i].password = user[token[i].owner].password
            \/ Excuse(token[i].owner, token[i].line)

Unselected(s) ==
    \A i \in Ids :
        i[2] = "refresh" /\ token[i].owner = txn[s].email /\ token[i].usedBy = None =>
            i \in txn[s].tokens \/ token[i].line \cap overlap[s] # {}

Knows(r, password, L) ==
    user[txn[r].email].password = password \/ Excuse(txn[r].email, L)

PasswordInv ==
    /\ GoodSessions
    /\ \A r \in Requests :
          /\ txn[r].pc = "selected" => Unselected(r)
          /\ txn[r].pc = "issuing" => Knows(r, r, {r})
          /\ InFlight(r, "login") => Knows(r, txn[r].password, {r})
          /\ InFlight(r, "refresh") =>
                Knows(r, token[txn[r].id].password, token[txn[r].id].line \cup {r})

LEMMA PasswordInit == Init => PasswordInv
  BY DEF Init, PasswordInv, GoodSessions, NewSession, NoToken, InFlight

\* What is on record stays, but for request r, which is not closed yet.
RecordStays(r) ==
    /\ txn[r].pc # "closed"
    /\ \A s \in Requests : s # r => txn'[s] = txn[s] /\ overlap[s] \subseteq overlap'[s]

LEMMA ExcuseStays ==
  ASSUME NEW r \in Requests, RecordStays(r), NEW e, NEW L, NEW K,
         L \subseteq K, Excuse(e, L)
  PROVE  Excuse(e, K)'
<1>1. PICK s \in Requests :
        Done(s, "reset") /\ txn[s].email = e /\ L \cap overlap[s] # {}
  BY DEF Excuse
<1>2. s # r /\ txn'[s] = txn[s] /\ overlap[s] \subseteq overlap'[s]
  BY <1>1 DEF Done, RecordStays
<1>3. Done(s, "reset")' /\ txn'[s].email = e /\ K \cap overlap'[s] # {}
  BY <1>1, <1>2 DEF Done
<1>4. QED
  BY <1>3 DEF Excuse

\* Tokens outside M are as they were, but that some are stamped.
OldTokens(M) ==
    \A i \in Ids : i \notin M =>
        /\ token'[i].owner = token[i].owner
        /\ token'[i].password = token[i].password
        /\ token'[i].line = token[i].line
        /\ token'[i].usedBy = None => token[i].usedBy = None

\* A step of r that changes no password.
LEMMA PasswordKept ==
  ASSUME TokenInv, PasswordInv, NEW r \in Requests, RecordStays(r),
         \A e \in Emails : user'[e].password = user[e].password,
         NEW M \in SUBSET Ids, OldTokens(M),
         \A i \in M :
            /\ token[i].owner = None
            /\ i[2] = "refresh" =>
                 /\ token'[i].owner \in Emails
                 /\ \/ token'[i].password = user[token'[i].owner].password
                    \/ Excuse(token'[i].owner, token'[i].line)
                 /\ \A s \in Requests : s # r /\ txn[s].pc = "selected" =>
                       token'[i].line \cap overlap[s] # {},
         txn'[r].pc = "selected" => Unselected(r)',
         txn'[r].pc # "issuing",
         InFlight(r, "login")' =>
            /\ txn'[r].email \in Emails
            /\ user[txn'[r].email].password = txn'[r].password,
         InFlight(r, "refresh")' =>
            /\ txn'[r].email \in Emails /\ txn'[r].id \in Ids \ M
            /\ \/ user[txn'[r].email].password = token[txn'[r].id].password
               \/ Excuse(txn'[r].email, token[txn'[r].id].line)
  PROVE  PasswordInv'
<1> USE DEF TokenInv, StructInv
<1>1. ASSUME NEW i \in Ids, i[2] = "refresh", token'[i].owner # None, token'[i].usedBy = None
      PROVE  \/ token'[i].password = user'[token'[i].owner].password
             \/ Excuse(token[i].owner, token[i].line)'
  <2> DEFINE e == token'[i].owner
             L == token'[i].line
             p == token'[i].password
  <2>1. e \in Emails /\ (p = user[e].password \/ Excuse(e, L))
    <3>1. CASE i \in M
      BY <1>1, <3>1
    <3>2. CASE i \notin M
      <4>1. /\ token[i].owner = e /\ token[i].password = p /\ token[i].line = L
            /\ token[i].usedBy = None
        BY <1>1, <3>2 DEF OldTokens
      <4>2. token[i].owner \in Emails
        BY <1>1, <4>1 DEF TypeOK, TokenRow
      <4>3. QED
        BY <1>1, <4>1, <4>2 DEF PasswordInv, GoodSessions
    <3>3. QED
      BY <3>1, <3>2
  <2>2. ASSUME NEW a, NEW K, Excuse(a, K) PROVE Excuse(a, K)'
    BY <2>2, ExcuseStays
  <2>3. PICK a, K, q : a = e /\ K = L /\ q = p
    OBVIOUS
  <2>4. q = user'[a].password \/ Excuse(a, K)'
    BY <2>1, <2>2, <2>3
  <2>5. CASE q = user'[a].password
    BY <2>3, <2>5
  <2>6. CASE Excuse(a, K)'
    BY <2>3, <2>6 DEF Excuse
  <2>7. QED
    BY <2>4, <2>5, <2>6
<1>2. GoodSessions'
  BY <1>1 DEF GoodSessions
<1>3. ASSUME NEW s \in Requests, txn'[s].pc = "selected" PROVE Unselected(s)'
  <2>1. CASE s = r
    BY <1>3, <2>1
  <2>2. CASE s # r
    <3>1. txn'[s] = txn[s] /\ overlap[s] \subseteq overlap'[s]
      BY <2>2 DEF RecordStays
    <3>2. ASSUME NEW i \in Ids, i[2] = "refresh", token'[i].owner = txn[s].email,
                 token'[i].usedBy = None
          PROVE  i \in txn[s].tokens \/ token'[i].line \cap overlap[s] # {}
      <4>1. CASE i \in M
        BY <1>3, <2>2, <3>1, <3>2, <4>1
      <4>2. CASE i \notin M
        <5>1. Unselected(s)
          BY <1>3, <3>1 DEF PasswordInv
        <5>2. QED
          BY <3>2, <4>2, <5>1 DEF OldTokens, Unselected
      <4>3. QED
        BY <4>1, <4>2
    <3>3. QED
      BY <3>1, <3>2 DEF Unselected
  <2>3. QED
    BY <2>1, <2>2
<1>4. ASSUME NEW s \in Requests, NEW password, NEW L,
             s # r, txn[s].email \in Emails, Knows(s, password, L)
      PROVE  Knows(s, password, L)'
  <2>1. txn'[s] = txn[s]
    BY <1>4 DEF RecordStays
  <2>2. PICK e : e = txn[s].email
    OBVIOUS
  <2>3. CASE Excuse(e, L)
    <3>1. Excuse(e, L)'
      BY <2>3, ExcuseStays
    <3>2. QED
      BY <2>1, <2>2, <3>1 DEF Knows, Excuse
  <2>4. CASE user[e].password = password
    BY <1>4, <2>1, <2>2, <2>4 DEF Knows
  <2>5. QED
    BY <1>4, <2>2, <2>3, <2>4 DEF Knows, Excuse
<1>5. ASSUME NEW s \in Requests, s # r
      PROVE  /\ txn'[s].pc = "issuing" => Knows(s, s, {s})'
             /\ InFlight(s, "login")' => Knows(s, txn[s].password, {s})'
             /\ InFlight(s, "refresh")' =>
                   Knows(s, token[txn[s].id].password, token[txn[s].id].line \cup {s})'
  <2>1. txn'[s] = txn[s]
    BY <1>5 DEF RecordStays
  <2>2. txn'[s].pc = "issuing" => Knows(s, s, {s})'
    BY <1>4, <1>5, <2>1 DEF PasswordInv, SessionsInv
  <2>3. PICK password : password = txn[s].password
    OBVIOUS
  <2>4. InFlight(s, "login")' => Knows(s, password, {s})'
    BY <1>4, <1>5, <2>1, <2>3 DEF PasswordInv, SessionsInv, InFlight
  <2>5. ASSUME InFlight(s, "refresh")
        PROVE  Knows(s, token[txn[s].id].password, token[txn[s].id].line \cup {s})'
    <3>1. PICK i, p, L : i = txn[s].id /\ p = token[i].password /\ L = token[i].line
      OBVIOUS
    <3>2. /\ i \in Ids /\ txn[s].email \in Emails /\ token[i].owner = txn[s].email
      BY <2>5, <3>1 DEF ConsumerInv, Consumes, InFlight, Consumers
    <3>3. i \notin M
      BY <3>2, NullIsNoId
    <3>4. token'[i].password = p /\ token'[i].line = L
      BY <3>1, <3>2, <3>3 DEF OldTokens
    <3>5. Knows(s, p, L \cup {s})
      BY <2>5, <3>1 DEF PasswordInv
    <3>6. Knows(s, p, L \cup {s})'
      BY <1>4, <1>5, <3>2, <3>5
    <3>7. QED
      BY <2>1, <3>1, <3>4, <3>6
  <2>6. QED
    BY <2>1, <2>2, <2>3, <2>4, <2>5 DEF InFlight
<1>6. /\ InFlight(r, "login")' => Knows(r, txn[r].password, {r})'
      /\ InFlight(r, "refresh")' =>
            Knows(r, token[txn[r].id].password, token[txn[r].id].line \cup {r})'
  <2>1. PICK e, i, q : e = txn'[r].email /\ i = txn'[r].id /\ q = txn'[r].password
    OBVIOUS
  <2>2. ASSUME InFlight(r, "login")' PROVE Knows(r, txn[r].password, {r})'
    BY <2>1, <2>2 DEF Knows
  <2>3. ASSUME InFlight(r, "refresh")'
        PROVE  Knows(r, token[txn[r].id].password, token[txn[r].id].line \cup {r})'
    <3>1. PICK p, L : p = token[i].password /\ L = token[i].line
      OBVIOUS
    <3>2. /\ e \in Emails /\ i \in Ids \ M /\ token'[i].password = p /\ token'[i].line = L
          /\ user[e].password = p \/ Excuse(e, L)
      BY <2>1, <2>3, <3>1 DEF OldTokens
    <3>3. CASE user[e].password = p
      BY <2>1, <3>2, <3>3 DEF Knows
    <3>4. CASE Excuse(e, L)
      <4>1. Excuse(e, L \cup {r})'
        BY <3>4, ExcuseStays
      <4>2. QED
        BY <2>1, <3>2, <4>1 DEF Knows, Excuse
    <3>5. QED
      BY <3>2, <3>3, <3>4
  <2>4. QED
    BY <2>2, <2>3
<1>7. ASSUME NEW s \in Requests
      PROVE  /\ txn'[s].pc = "selected" => Unselected(s)'
             /\ txn'[s].pc = "issuing" => Knows(s, s, {s})'
             /\ InFlight(s, "login")' => Knows(s, txn[s].password, {s})'
             /\ InFlight(s, "refresh")' =>
                   Knows(s, token[txn[s].id].password, token[txn[s].id].line \cup {s})'
  <2>1. CASE s = r
    BY <1>3, <1>6, <2>1
  <2>2. CASE s # r
    BY <1>3, <1>5, <2>2
  <2>3. QED
    BY <2>1, <2>2
<1>8. QED
  BY <1>2, <1>7 DEF PasswordInv

\* A session that ends and changes no password and makes no token.
LEMMA PasswordClosed ==
  ASSUME TokenInv, PasswordInv, NEW r \in Open, NEW phase \in {"closed", "error"},
         Close(r, phase), overlap' = overlap, OldTokens({}),
         \A e \in Emails : user'[e].password = user[e].password
  PROVE  PasswordInv'
<1> USE DEF TokenInv, StructInv
<1>1. r \in Requests /\ txn[r].pc \in {"open", "issuing", "selected"}
  BY DEF Open
<1>2. txn'[r].pc = phase /\ \A s \in Requests \ {r} : txn'[s] = txn[s]
  BY <1>1, CloseDoes
<1>3. RecordStays(r)
  BY <1>1, <1>2 DEF RecordStays
<1>4. ~InFlight(r, "login")' /\ ~InFlight(r, "refresh")'
  BY <1>2 DEF InFlight
<1> DEFINE M == {}
<1>5. M \in SUBSET Ids /\ OldTokens(M)
  OBVIOUS
<1> HIDE DEF M
<1>6. \A i : i \notin M
  BY DEF M
<1>7. QED
  BY <1>1, <1>2, <1>3, <1>4, <1>5, <1>6, PasswordKept

\* A session is issued and its request ends.
LEMMA PasswordIssued ==
  ASSUME TokenInv, PasswordInv, NEW r \in Open, Close(r, "closed"), overlap' = overlap,
         \A e \in Emails : user'[e].password = user[e].password,
         Unminted(r, "refresh"),
         NEW table \in [Ids -> TokenRow], NEW row,
         token' = [table EXCEPT ![<<r, "refresh">>] = row],
         \A i \in Ids : /\ table[i].owner = token[i].owner
                        /\ table[i].password = token[i].password
                        /\ table[i].line = token[i].line
                        /\ table[i].usedBy = None => token[i].usedBy = None,
         r \in row.line, row.owner = txn[r].email,
         Knows(r, row.password, row.line)
  PROVE  PasswordInv'
<1> USE DEF TokenInv, StructInv
<1>1. r \in Requests /\ txn[r].pc \in {"open", "issuing", "selected"}
  BY DEF Open
<1>2. txn'[r].pc = "closed" /\ \A s \in Requests \ {r} : txn'[s] = txn[s]
  BY <1>1, CloseDoes
<1>3. RecordStays(r)
  BY <1>1, <1>2 DEF RecordStays
<1>4. ~InFlight(r, "login")' /\ ~InFlight(r, "refresh")'
  BY <1>2 DEF InFlight
<1> DEFINE new == <<r, "refresh">>
           M == {new}
<1>5. new \in Ids /\ token[new].owner = None
  BY <1>1 DEF FreshInv, Ids, TokenTypes
<1> HIDE DEF new
<1>6. token'[new] = row /\ \A i \in Ids : i \notin M => token'[i] = table[i]
  BY <1>5 DEF new
<1>7. M \in SUBSET Ids /\ OldTokens(M)
  BY <1>5, <1>6 DEF OldTokens
<1>8. row.owner \in Emails
  BY <1>1 DEF SessionsInv
<1>9. row.password = user[row.owner].password \/ Excuse(row.owner, row.line)
  BY DEF Knows
<1>10. ASSUME NEW s \in Requests, s # r, txn[s].pc = "selected"
       PROVE  row.line \cap overlap[s] # {}
  <2>1. s \in Open
    BY <1>10 DEF Open
  <2>2. r \in overlap[s]
    BY <1>10, <2>1 DEF OverlapInv
  <2>3. QED
    BY <2>2
<1>11. \A i \in M :
         /\ token[i].owner = None
         /\ token'[i].owner \in Emails
         /\ \/ token'[i].password = user[token'[i].owner].password
            \/ Excuse(token'[i].owner, token'[i].line)
         /\ \A s \in Requests : s # r /\ txn[s].pc = "selected" =>
               token'[i].line \cap overlap[s] # {}
  BY <1>5, <1>6, <1>8, <1>9, <1>10
<1> HIDE DEF M
<1>12. txn'[r].pc # "selected" /\ txn'[r].pc # "issuing"
  BY <1>2
<1>13. \A i \in M :
         /\ token[i].owner = None
         /\ i[2] = "refresh" =>
              /\ token'[i].owner \in Emails
              /\ \/ token'[i].password = user[token'[i].owner].password
                 \/ Excuse(token'[i].owner, token'[i].line)
              /\ \A s \in Requests : s # r /\ txn[s].pc = "selected" =>
                    token'[i].line \cap overlap[s] # {}
  BY <1>11
<1>14. QED
  BY <1>1, <1>3, <1>4, <1>7, <1>12, <1>13, PasswordKept

LEMMA PasswordBegins ==
  ASSUME TokenInv, PasswordInv, NEW r \in Requests, BeginStep(r)
  PROVE  PasswordInv'
<1> USE DEF TokenInv, StructInv
<1>1. PICK op \in Ops, e \in Emails, i \in Ids \cup {None} : Begins(r, op, e, i)
  BY DEF BeginStep
<1>2. /\ txn[r].pc = "new" /\ token' = token /\ user' = user
      /\ txn'[r].pc = "open" /\ txn'[r].op = op /\ txn'[r].email = e
      /\ txn'[r].id = i /\ txn'[r].password = user[e].password
      /\ \A s \in Requests \ {r} : txn'[s] = txn[s]
      /\ \A s \in Open : overlap'[s] = overlap[s] \cup {r}
      /\ \A s \in Requests \ {r} : s \notin Open => overlap'[s] = overlap[s]
  BY <1>1, LoadDoes DEF Begins
<1>3. RecordStays(r)
  BY <1>2 DEF RecordStays
<1>4. InFlight(r, "login")' => user[txn'[r].email].password = txn'[r].password
  BY <1>2
<1> DEFINE M == {}
<1>5. ASSUME InFlight(r, "refresh")'
      PROVE  /\ txn'[r].id \in Ids \ M
             /\ \/ user[txn'[r].email].password = token[txn'[r].id].password
                \/ Excuse(txn'[r].email, token[txn'[r].id].line)
  <2>1. op = "refresh"
    BY <1>2, <1>5 DEF InFlight
  <2>2. /\ i \in Ids /\ token[i].owner = e /\ token[i].usedBy = None
        /\ i[2] = "refresh"
    BY <1>1, <2>1 DEF Begins, Consumers
  <2>3. token[i].password = user[e].password \/ Excuse(e, token[i].line)
    BY <2>2, NullIsNoId DEF PasswordInv, GoodSessions
  <2>4. QED
    BY <1>2, <2>2, <2>3
<1>6. M \in SUBSET Ids /\ OldTokens(M) /\ \A k : k \notin M
  BY <1>2 DEF OldTokens
<1> HIDE DEF M
<1>7. /\ txn'[r].email \in Emails
      /\ txn'[r].pc # "selected" /\ txn'[r].pc # "issuing"
      /\ \A x \in Emails : user'[x].password = user[x].password
  BY <1>2
<1>8. QED
  BY <1>3, <1>4, <1>5, <1>6, <1>7, PasswordKept

\* A handler that is one step.
LEMMA PasswordQuick ==
  ASSUME TokenInv, PasswordInv, NEW r \in Requests, txn[r].pc = "new",
         txn' = [txn EXCEPT ![r].pc = "closed"], user' = user,
         \A s \in Requests : s # r => overlap[s] \subseteq overlap'[s],
         NEW M \in SUBSET Ids, OldTokens(M),
         \A i \in M : token[i].owner = None /\ i[2] # "refresh"
  PROVE  PasswordInv'
<1> USE DEF TokenInv, StructInv
<1>1. txn'[r].pc = "closed" /\ \A s \in Requests : s # r => txn'[s] = txn[s]
  BY DEF TypeOK, Session
<1>2. RecordStays(r)
  BY <1>1 DEF RecordStays
<1>3. /\ ~InFlight(r, "login")' /\ ~InFlight(r, "refresh")'
      /\ txn'[r].pc # "selected" /\ txn'[r].pc # "issuing"
  BY <1>1 DEF InFlight
<1>4. QED
  BY <1>2, <1>3, PasswordKept

LEMMA PasswordMailed ==
  ASSUME TokenInv, PasswordInv, NEW r \in Requests, NEW e \in Emails,
         NEW type \in TokenTypes, MailToken(r, e, type)
  PROVE  PasswordInv'
<1> USE DEF TokenInv, StructInv
<1> DEFINE row == [NoToken EXCEPT !.owner = e, !.expires = clock + Ttl[type],
                                  !.line = {r}]
           new == <<r, type>>
           M == {new}
<1>1. /\ token' = [token EXCEPT ![new] = row] /\ txn[r].pc = "new"
      /\ txn' = [txn EXCEPT ![r].pc = "closed"] /\ overlap' = overlap /\ user' = user
      /\ type # "refresh"
  BY DEF MailToken
<1> HIDE DEF row
<1>2. new \in Ids /\ token[new].owner = None /\ new[2] # "refresh"
  BY <1>1 DEF FreshInv, Unminted, Ids
<1>3. \A i \in Ids : i \notin M => token'[i] = token[i]
  BY <1>1, <1>2 DEF TypeOK
<1>4. /\ M \in SUBSET Ids /\ OldTokens(M)
      /\ \A i \in M : token[i].owner = None /\ i[2] # "refresh"
  BY <1>2, <1>3 DEF OldTokens
<1> HIDE DEF M
<1>5. QED
  BY <1>1, <1>4, PasswordQuick

LEMMA PasswordLoggedOut ==
  ASSUME TokenInv, PasswordInv, NEW r \in Requests, NEW k \in Ids, Logout(r, k)
  PROVE  PasswordInv'
<1> USE DEF TokenInv, StructInv
<1>1. /\ token' = Stamped({k}, r) /\ txn[r].pc = "new"
      /\ txn' = [txn EXCEPT ![r].pc = "closed"] /\ user' = user
      /\ \A s \in Requests : s # r => overlap[s] \subseteq overlap'[s]
  BY DEF Logout
<1> DEFINE M == {}
<1>2. M \in SUBSET Ids /\ OldTokens(M) /\ \A i : i \notin M
  BY <1>1, StampedDoes, NullIsNoId DEF OldTokens
<1> HIDE DEF M
<1>3. QED
  BY <1>1, <1>2, PasswordQuick

\* The query of a reset finds every good session.
LEMMA PasswordSelects ==
  ASSUME TokenInv, PasswordInv, NEW r \in Requests, SelectTokens(r)
  PROVE  PasswordInv'
<1> USE DEF TokenInv, StructInv
<1> DEFINE S == {i \in Ids : i[2] = "refresh" /\ token[i].owner = txn[r].email
                              /\ token[i].usedBy = None}
<1>1. /\ txn' = [txn EXCEPT ![r] = [txn[r] EXCEPT !.pc = "selected", !.tokens = S]]
      /\ overlap' = overlap /\ token' = token /\ user' = user /\ txn[r].pc = "open"
  BY DEF SelectTokens, InFlight
<1>2. \A i \in Ids : i[2] = "refresh" /\ token[i].owner = txn[r].email
                     /\ token[i].usedBy = None => i \in S
  OBVIOUS
<1> HIDE DEF S
<1>3. /\ txn'[r].pc = "selected" /\ txn'[r].email = txn[r].email /\ txn'[r].tokens = S
      /\ \A s \in Requests : s # r => txn'[s] = txn[s]
  BY <1>1 DEF TypeOK, Session
<1>4. RecordStays(r)
  BY <1>1, <1>3 DEF RecordStays
<1>5. Unselected(r)'
  BY <1>1, <1>2, <1>3 DEF Unselected
<1>6. /\ ~InFlight(r, "login")' /\ ~InFlight(r, "refresh")'
      /\ txn'[r].pc # "issuing"
      /\ \A x \in Emails : user'[x].password = user[x].password
  BY <1>1, <1>3 DEF InFlight
<1> DEFINE M == {}
<1>7. M \in SUBSET Ids /\ OldTokens(M) /\ \A i : i \notin M
  BY <1>1 DEF OldTokens
<1> HIDE DEF M
<1>8. QED
  BY <1>4, <1>5, <1>6, <1>7, PasswordKept

\* Requests that end and leave the passwords, and at most stamp a token.
LEMMA PasswordEnded ==
  ASSUME TokenInv, PasswordInv, NEW r \in Requests,
         \/ RejectAccount(r) \/ CommitBadLogin(r) \/ CommitSetActive(r)
         \/ CommitVerify(r) \/ Abort(r)
  PROVE  PasswordInv'
<1> USE DEF TokenInv, StructInv
<1>1. UNCHANGED token => OldTokens({})
  BY DEF OldTokens
<1>2. CASE RejectAccount(r)
  <2>1. r \in Open /\ Close(r, "error") /\ UNCHANGED <<user, token, overlap>>
    BY <1>2 DEF RejectAccount, InFlight, Open
  <2>2. QED
    BY <1>1, <2>1, PasswordClosed
<1>3. CASE CommitBadLogin(r)
  <2>1. r \in Open /\ Close(r, "closed") /\ UNCHANGED <<token, overlap>>
    BY <1>3 DEF CommitBadLogin, InFlight, Open
  <2>2. \A e \in Emails : user'[e].password = user[e].password
    BY <1>3 DEF CommitBadLogin, TypeOK, UserRow
  <2>3. QED
    BY <1>1, <2>1, <2>2, PasswordClosed
<1>4. CASE CommitSetActive(r)
  <2>1. r \in Open /\ Close(r, "closed") /\ UNCHANGED <<token, overlap>>
    BY <1>4 DEF CommitSetActive, InFlight, Open
  <2>2. \A e \in Emails : user'[e].password = user[e].password
    BY <1>4 DEF CommitSetActive, TypeOK, UserRow
  <2>3. QED
    BY <1>1, <2>1, <2>2, PasswordClosed
<1>5. CASE CommitVerify(r)
  <2>1. r \in Open /\ Close(r, "closed") /\ overlap' = overlap
    BY <1>5 DEF CommitVerify, InFlight, Open
  <2>2. \A e \in Emails : user'[e].password = user[e].password
    BY <1>5 DEF CommitVerify, TypeOK, UserRow
  <2>3. OldTokens({})
    BY <1>5, StampedDoes, NullIsNoId DEF CommitVerify, OldTokens
  <2>4. QED
    BY <2>1, <2>2, <2>3, PasswordClosed
<1>6. CASE Abort(r)
  <2>1. r \in Open /\ Close(r, "error") /\ UNCHANGED <<user, token, overlap>>
    BY <1>6 DEF Abort
  <2>2. QED
    BY <1>1, <2>1, PasswordClosed
<1>7. QED
  BY <1>2, <1>3, <1>4, <1>5, <1>6

\* Requests that end with a session: signup, login, refresh.
LEMMA PasswordSessions ==
  ASSUME TokenInv, PasswordInv, NEW r \in Requests,
         CommitSignupSession(r) \/ CommitLogin(r) \/ CommitRefresh(r)
  PROVE  PasswordInv'
<1> USE DEF TokenInv, StructInv
<1>1. /\ txn[r].email \in Emails \cup {None}
      /\ txn[r].password \in Requests \cup {None}
      /\ "refresh" \in TokenTypes
      /\ r \in Requests \cup {None}
      /\ {r} \in SUBSET Requests
      /\ token \in [Ids -> TokenRow]
  BY DEF TypeOK, Session, TokenTypes
<1>2. CASE CommitSignupSession(r)
  <2> DEFINE row == Minted(r, "refresh", txn[r].email, r, {r})
  <2>1. /\ row.owner = txn[r].email /\ row.password = r /\ row.line = {r}
    BY <1>1, MintedType
  <2>2. token' = [token EXCEPT ![<<r, "refresh">>] = row]
    BY <1>2 DEF CommitSignupSession
  <2> HIDE DEF row
  <2>3. /\ r \in Open /\ Close(r, "closed") /\ UNCHANGED <<user, overlap>>
        /\ Unminted(r, "refresh") /\ txn[r].pc = "issuing"
    BY <1>2 DEF CommitSignupSession, Open, Unminted
  <2>4. Knows(r, row.password, row.line)
    BY <2>1, <2>3 DEF PasswordInv
  <2>5. QED
    BY <1>1, <2>1, <2>2, <2>3, <2>4, PasswordIssued
<1>3. CASE CommitLogin(r)
  <2> DEFINE row == Minted(r, "refresh", txn[r].email, txn[r].password, {r})
  <2>1. /\ row.owner = txn[r].email /\ row.password = txn[r].password /\ row.line = {r}
    BY <1>1, MintedType
  <2>2. token' = [token EXCEPT ![<<r, "refresh">>] = row]
    BY <1>3 DEF CommitLogin
  <2> HIDE DEF row
  <2>3. /\ r \in Open /\ Close(r, "closed") /\ UNCHANGED overlap
        /\ Unminted(r, "refresh") /\ InFlight(r, "login")
    BY <1>3 DEF CommitLogin, Open, Unminted, InFlight
  <2>4. Knows(r, row.password, row.line)
    BY <2>1, <2>3 DEF PasswordInv
  <2>5. txn[r].email \in Emails
    BY <2>3 DEF SessionsInv, InFlight
  <2>6. \A e \in Emails : user'[e].password = user[e].password
    BY <1>3, <2>5, ClearedType DEF CommitLogin, TypeOK
  <2>7. QED
    BY <1>1, <2>1, <2>2, <2>3, <2>4, <2>6, PasswordIssued
<1>4. CASE CommitRefresh(r)
  <2> DEFINE i     == txn[r].id
             table == Stamped({i}, r)
  <2>1. InFlight(r, "refresh") /\ i \in Ids
    BY <1>4 DEF CommitRefresh, InFlight, SessionsInv, Consumers
  <2>2. token[i].password \in Requests \cup {None} /\ token[i].line \cup {r} \in SUBSET Requests
    BY <1>1, <2>1 DEF TokenRow
  <2>3. PICK p \in Requests \cup {None}, L \in SUBSET Requests :
           p = token[i].password /\ L = token[i].line \cup {r}
    BY <2>2
  <2> DEFINE row == Minted(r, "refresh", txn[r].email, p, L)
  <2>4. /\ row.owner = txn[r].email /\ row.password = p /\ row.line = L
    BY DEF Minted
  <2>5. token' = [table EXCEPT ![<<r, "refresh">>] = row]
    BY <1>4, <2>3 DEF CommitRefresh
  <2>6. /\ table \in [Ids -> TokenRow]
        /\ \A k \in Ids : /\ table[k].owner = token[k].owner
                          /\ table[k].password = token[k].password
                          /\ table[k].line = token[k].line
                          /\ table[k].usedBy = None => token[k].usedBy = None
    BY StampedDoes, NullIsNoId
  <2> HIDE DEF row, table, i
  <2>7. /\ r \in Open /\ Close(r, "closed") /\ UNCHANGED <<user, overlap>>
        /\ Unminted(r, "refresh")
    BY <1>4 DEF CommitRefresh, Open, Unminted, InFlight
  <2>8. Knows(r, row.password, row.line)
    BY <2>1, <2>4, <2>3 DEF PasswordInv, i
  <2>9. r \in row.line
    BY <2>4, <2>3
  <2>10. QED
    BY <2>4, <2>5, <2>6, <2>7, <2>8, <2>9, PasswordIssued
<1>5. QED
  BY <1>2, <1>3, <1>4

\* A new account has no sessions yet.
LEMMA PasswordAccount ==
  ASSUME TokenInv, PasswordInv, NEW r \in Requests, CommitAccount(r)
  PROVE  PasswordInv'
<1> USE DEF TokenInv, StructInv
<1>1. PICK e : e = txn[r].email
  OBVIOUS
<1>2. /\ txn[r].pc = "open" /\ txn[r].op \in {"signup", "invite"}
      /\ e \in Emails /\ ~user[e].exists
  BY <1>1 DEF CommitAccount, InFlight, SessionsInv
<1>3. /\ \A x \in Emails : x # e => user'[x] = user[x]
      /\ user'[e].password = r
      /\ UNCHANGED overlap
  BY <1>1, <1>2 DEF CommitAccount, TypeOK, NoUser
<1>4. /\ txn'[r].email = e
      /\ \/ txn'[r].pc = "issuing"
         \/ txn'[r].pc = "closed"
      /\ \A s \in Requests : s # r => txn'[s] = txn[s]
  <2>1. CASE txn[r].op = "signup"
    <3>1. txn' = [txn EXCEPT ![r].pc = "issuing"]
      BY <2>1 DEF CommitAccount
    <3>2. QED
      BY <1>1, <3>1 DEF TypeOK, Session
  <2>2. CASE txn[r].op # "signup"
    BY <1>1, <2>2, CloseDoes DEF CommitAccount
  <2>3. QED
    BY <2>1, <2>2
<1>5. RecordStays(r)
  BY <1>2, <1>3, <1>4 DEF RecordStays
<1> DEFINE new == <<r, "email_verify">>
<1>6. new \in Ids /\ new[2] # "refresh" /\ token[new].owner = None
  BY <1>2 DEF FreshInv, Unminted, Ids, TokenTypes
<1>7. \A i \in Ids : i # new => token'[i] = token[i]
  BY <1>6 DEF CommitAccount, TypeOK
<1> HIDE DEF new
<1>8. \A i \in Ids : token[i].owner # None => token[i].owner \in Emails /\ token[i].owner # e
  BY <1>2 DEF UsersInv, TypeOK, TokenRow
<1>9. ASSUME NEW i \in Ids, i[2] = "refresh", token'[i].owner # None,
             token'[i].usedBy = None
      PROVE  \/ token'[i].password = user'[token'[i].owner].password
             \/ Excuse(token[i].owner, token[i].line)'
  <2>1. token'[i] = token[i]
    BY <1>6, <1>7, <1>9
  <2>2. PICK a, K : a = token[i].owner /\ K = token[i].line
    OBVIOUS
  <2>3. a \in Emails /\ a # e
    BY <1>8, <1>9, <2>1, <2>2
  <2>4. token[i].password = user[a].password \/ Excuse(a, K)
    BY <1>9, <2>1, <2>2 DEF PasswordInv, GoodSessions
  <2>5. CASE token[i].password = user[a].password
    BY <1>3, <2>1, <2>2, <2>3, <2>5
  <2>6. CASE Excuse(a, K)
    <3>1. Excuse(a, K)'
      BY <1>5, <2>6, ExcuseStays
    <3>2. QED
      BY <2>1, <2>2, <3>1 DEF Excuse
  <2>7. QED
    BY <2>4, <2>5, <2>6
<1>10. GoodSessions'
  BY <1>9 DEF GoodSessions
<1>11. ASSUME NEW s \in Requests, s # r, txn'[s].pc = "selected" PROVE Unselected(s)'
  <2>1. Unselected(s) /\ txn'[s] = txn[s] /\ overlap' = overlap
    BY <1>3, <1>4, <1>11 DEF PasswordInv
  <2>2. \A i \in Ids : i[2] = "refresh" => token'[i] = token[i]
    BY <1>6, <1>7
  <2>3. QED
    BY <2>1, <2>2 DEF Unselected
<1>12. ASSUME NEW s \in Requests, NEW password, NEW L, s # r,
              \/ txn[s].pc = "issuing"
              \/ InFlight(s, "login") \/ InFlight(s, "refresh"),
              Knows(s, password, L)
       PROVE  Knows(s, password, L)'
  <2>1. PICK a : a = txn[s].email
    OBVIOUS
  <2>2. txn'[s] = txn[s] /\ a \in Emails /\ user[a].exists
    BY <1>4, <1>12, <2>1 DEF SessionsInv, UsersInv, InFlight
  <2>3. user'[a] = user[a]
    BY <1>2, <1>3, <2>2
  <2>4. CASE Excuse(a, L)
    <3>1. Excuse(a, L)'
      BY <1>5, <2>4, ExcuseStays
    <3>2. QED
      BY <2>1, <2>2, <3>1 DEF Knows, Excuse
  <2>5. CASE user[a].password = password
    BY <2>1, <2>2, <2>3, <2>5 DEF Knows
  <2>6. QED
    BY <1>12, <2>1, <2>4, <2>5 DEF Knows
<1>13. ASSUME NEW s \in Requests, s # r
       PROVE  /\ txn'[s].pc = "issuing" => Knows(s, s, {s})'
              /\ InFlight(s, "login")' => Knows(s, txn[s].password, {s})'
              /\ InFlight(s, "refresh")' =>
                    Knows(s, token[txn[s].id].password, token[txn[s].id].line \cup {s})'
  <2>1. txn'[s] = txn[s]
    BY <1>4, <1>13
  <2>2. txn'[s].pc = "issuing" => Knows(s, s, {s})'
    BY <1>12, <1>13, <2>1 DEF PasswordInv
  <2>3. PICK password : password = txn[s].password
    OBVIOUS
  <2>4. InFlight(s, "login")' => Knows(s, password, {s})'
    BY <1>12, <1>13, <2>1, <2>3 DEF PasswordInv, InFlight
  <2>5. ASSUME InFlight(s, "refresh")
        PROVE  Knows(s, token[txn[s].id].password, token[txn[s].id].line \cup {s})'
    <3>1. PICK i, p, L : i = txn[s].id /\ p = token[i].password /\ L = token[i].line
      OBVIOUS
    <3>2. /\ i \in Ids /\ txn[s].email \in Emails /\ token[i].owner = txn[s].email
      BY <2>5, <3>1 DEF ConsumerInv, Consumes, InFlight, Consumers
    <3>3. i # new
      BY <1>6, <3>2, NullIsNoId
    <3>4. token'[i] = token[i]
      BY <1>7, <3>2, <3>3
    <3>5. Knows(s, p, L \cup {s})
      BY <2>5, <3>1 DEF PasswordInv
    <3>6. Knows(s, p, L \cup {s})'
      BY <1>12, <1>13, <2>5, <3>5
    <3>7. QED
      BY <2>1, <3>1, <3>4, <3>6
  <2>6. QED
    BY <2>1, <2>2, <2>3, <2>4, <2>5 DEF InFlight
<1>14. txn'[r].pc = "issuing" => Knows(r, r, {r})'
  BY <1>3, <1>4 DEF Knows
<1>15. ~InFlight(r, "login")' /\ ~InFlight(r, "refresh")' /\ txn'[r].pc # "selected"
  BY <1>4 DEF InFlight
<1>16. ASSUME NEW s \in Requests
       PROVE  /\ txn'[s].pc = "selected" => Unselected(s)'
              /\ txn'[s].pc = "issuing" => Knows(s, s, {s})'
              /\ InFlight(s, "login")' => Knows(s, txn[s].password, {s})'
              /\ InFlight(s, "refresh")' =>
                    Knows(s, token[txn[s].id].password, token[txn[s].id].line \cup {s})'
  <2>1. CASE s = r
    BY <1>14, <1>15, <2>1
  <2>2. CASE s # r
    BY <1>11, <1>13, <2>2
  <2>3. QED
    BY <2>1, <2>2
<1>17. QED
  BY <1>10, <1>16 DEF PasswordInv

\* The reset ends every good session it selected; those it did not meet it.
LEMMA PasswordReset ==
  ASSUME TokenInv, PasswordInv, NEW r \in Requests, CommitReset(r)
  PROVE  PasswordInv'
<1> USE DEF TokenInv, StructInv
<1>1. PICK e, T : e = txn[r].email /\ T = txn[r].tokens
  OBVIOUS
<1>2. txn[r].pc = "selected" /\ txn[r].op = "reset" /\ e \in Emails /\ r \in Open
  BY <1>1 DEF CommitReset, SessionsInv, Open
<1>3. /\ \A x \in Emails : x # e => user'[x] = user[x]
      /\ UNCHANGED overlap
      /\ Close(r, "closed")
  BY <1>1, <1>2 DEF CommitReset, TypeOK
<1>4. /\ txn'[r].pc = "closed" /\ txn'[r].op = "reset" /\ txn'[r].email = e
      /\ \A s \in Requests : s # r => txn'[s] = txn[s]
  BY <1>1, <1>2, <1>3, CloseDoes
<1>5. RecordStays(r)
  BY <1>2, <1>3, <1>4 DEF RecordStays
<1>6. Done(r, "reset")'
  BY <1>4 DEF Done
<1>7. ASSUME NEW L, L \cap overlap[r] # {} PROVE Excuse(e, L)'
  <2>1. L \cap overlap'[r] # {}
    BY <1>3, <1>7
  <2>2. QED
    BY <1>4, <1>6, <2>1 DEF Excuse
<1>8. \A i \in Ids : /\ token'[i].owner = token[i].owner
                     /\ token'[i].password = token[i].password
                     /\ token'[i].line = token[i].line
                     /\ token'[i].usedBy = None => token[i].usedBy = None /\ i \notin T
  <2> DEFINE S == {txn[r].id} \cup txn[r].tokens
  <2>1. token' = Stamped(S, r)
    BY DEF CommitReset
  <2>2. \A i \in T : i \in S
    BY <1>1
  <2> HIDE DEF S
  <2>3. QED
    BY <2>1, <2>2, StampedDoes, NullIsNoId
<1>9. ASSUME NEW i \in Ids, i[2] = "refresh", token'[i].owner # None,
             token'[i].usedBy = None
      PROVE  \/ token'[i].password = user'[token'[i].owner].password
             \/ Excuse(token[i].owner, token[i].line)'
  <2>1. PICK a, K : a = token[i].owner /\ K = token[i].line
    OBVIOUS
  <2>2. /\ token'[i].owner = a /\ token'[i].line = K
        /\ token'[i].password = token[i].password /\ token[i].usedBy = None
        /\ i \notin T /\ a # None
    BY <1>8, <1>9, <2>1
  <2>3. Excuse(a, K)' => Excuse(token[i].owner, token[i].line)'
    BY <2>2 DEF Excuse
  <2>4. CASE a = e
    <3>1. Unselected(r)
      BY <1>2 DEF PasswordInv
    <3>2. K \cap overlap[r] # {}
      BY <1>1, <1>9, <2>1, <2>2, <2>4, <3>1 DEF Unselected
    <3>3. Excuse(e, K)'
      BY <1>7, <3>2
    <3>4. QED
      BY <2>3, <2>4, <3>3
  <2>5. CASE a # e
    <3>1. a \in Emails
      BY <2>1, <2>2 DEF TypeOK, TokenRow
    <3>2. token[i].password = user[a].password \/ Excuse(a, K)
      BY <1>9, <2>1, <2>2 DEF PasswordInv, GoodSessions
    <3>3. Excuse(a, K) => Excuse(a, K)'
      BY <1>5, ExcuseStays
    <3>4. QED
      BY <1>3, <2>2, <2>3, <2>5, <3>1, <3>2, <3>3
  <2>6. QED
    BY <2>4, <2>5
<1>10. GoodSessions'
  BY <1>9 DEF GoodSessions
<1>11. ASSUME NEW s \in Requests, s # r, txn'[s].pc = "selected" PROVE Unselected(s)'
  <2>1. Unselected(s) /\ txn'[s] = txn[s] /\ overlap' = overlap
    BY <1>3, <1>4, <1>11 DEF PasswordInv
  <2>2. QED
    BY <1>8, <2>1 DEF Unselected
<1>12. ASSUME NEW s \in Requests, NEW password, NEW L, s # r, s \in L,
              s \in Open, Knows(s, password, L)
       PROVE  Knows(s, password, L)'
  <2>1. PICK a : a = txn[s].email
    OBVIOUS
  <2>2. txn'[s] = txn[s] /\ a \in Emails
    BY <1>4, <1>12, <2>1 DEF SessionsInv, Open
  <2>3. Excuse(a, L)' => Knows(s, password, L)'
    BY <2>1, <2>2 DEF Knows, Excuse
  <2>4. CASE a = e
    <3>1. s \in overlap[r]
      BY <1>2, <1>12 DEF OverlapInv
    <3>2. Excuse(e, L)'
      BY <1>7, <1>12, <3>1
    <3>3. QED
      BY <2>3, <2>4, <3>2
  <2>5. CASE a # e
    <3>1. user'[a] = user[a]
      BY <1>3, <2>2, <2>5
    <3>2. CASE Excuse(a, L)
      <4>1. Excuse(a, L)'
        BY <1>5, <3>2, ExcuseStays
      <4>2. QED
        BY <2>3, <4>1
    <3>3. CASE user[a].password = password
      BY <2>1, <2>2, <3>1, <3>3 DEF Knows
    <3>4. QED
      BY <1>12, <2>1, <3>2, <3>3 DEF Knows
  <2>6. QED
    BY <2>4, <2>5
<1>13. ASSUME NEW s \in Requests, s # r
       PROVE  /\ txn'[s].pc = "issuing" => Knows(s, s, {s})'
              /\ InFlight(s, "login")' => Knows(s, txn[s].password, {s})'
              /\ InFlight(s, "refresh")' =>
                    Knows(s, token[txn[s].id].password, token[txn[s].id].line \cup {s})'
  <2>1. txn'[s] = txn[s]
    BY <1>4, <1>13
  <2>2. txn[s].pc \in {"open", "issuing"} => s \in Open
    BY DEF Open
  <2>3. txn'[s].pc = "issuing" => Knows(s, s, {s})'
    BY <1>12, <1>13, <2>1, <2>2 DEF PasswordInv
  <2>4. PICK password : password = txn[s].password
    OBVIOUS
  <2>5. InFlight(s, "login")' => Knows(s, password, {s})'
    BY <1>12, <1>13, <2>1, <2>2, <2>4 DEF PasswordInv, InFlight
  <2>6. ASSUME InFlight(s, "refresh")
        PROVE  Knows(s, token[txn[s].id].password, token[txn[s].id].line \cup {s})'
    <3>1. PICK i, p, L : i = txn[s].id /\ p = token[i].password /\ L = token[i].line
      OBVIOUS
    <3>2. i \in Ids
      BY <2>6, <3>1 DEF ConsumerInv, Consumes, InFlight, Consumers
    <3>3. token'[i].password = p /\ token'[i].line = L
      BY <1>8, <3>1, <3>2
    <3>4. Knows(s, p, L \cup {s})
      BY <2>6, <3>1 DEF PasswordInv
    <3>5. Knows(s, p, L \cup {s})'
      BY <1>12, <1>13, <2>2, <2>6, <3>4 DEF InFlight
    <3>6. QED
      BY <2>1, <3>1, <3>3, <3>5
  <2>7. QED
    BY <2>1, <2>3, <2>4, <2>5, <2>6 DEF InFlight
<1>14. /\ ~InFlight(r, "login")' /\ ~InFlight(r, "refresh")'
       /\ txn'[r].pc # "selected" /\ txn'[r].pc # "issuing"
  BY <1>4 DEF InFlight
<1>15. ASSUME NEW s \in Requests
       PROVE  /\ txn'[s].pc = "selected" => Unselected(s)'
              /\ txn'[s].pc = "issuing" => Knows(s, s, {s})'
              /\ InFlight(s, "login")' => Knows(s, txn[s].password, {s})'
              /\ InFlight(s, "refresh")' =>
                    Knows(s, token[txn[s].id].password, token[txn[s].id].line \cup {s})'
  <2>1. CASE s = r
    BY <1>14, <2>1
  <2>2. CASE s # r
    BY <1>11, <1>13, <2>2
  <2>3. QED
    BY <2>1, <2>2
<1>16. QED
  BY <1>10, <1>15 DEF PasswordInv

LEMMA PasswordStep == TokenInv /\ PasswordInv /\ [Next]_vars => PasswordInv'
<1> SUFFICES ASSUME TokenInv, PasswordInv, [Next]_vars
             PROVE  PasswordInv'
  OBVIOUS
<1>1. CASE UNCHANGED <<user, token, txn, overlap>>
  BY <1>1 DEF PasswordInv, GoodSessions, Unselected, Knows, Excuse, InFlight, Done
<1>2. Advance \/ UNCHANGED vars => UNCHANGED <<user, token, txn, overlap>>
  BY DEF Advance, vars
<1>3. TypeOK
  BY DEF TokenInv, StructInv
<1>4. ASSUME NEW r \in Requests,
             \/ BeginStep(r)
             \/ \E e \in Emails, type \in TokenTypes : MailToken(r, e, type)
             \/ \E i \in Ids : Logout(r, i)
             \/ CommitAccount(r) \/ RejectAccount(r) \/ CommitSignupSession(r)
             \/ CommitLogin(r) \/ CommitBadLogin(r)
             \/ CommitRefresh(r) \/ CommitVerify(r)
             \/ SelectTokens(r) \/ CommitReset(r) \/ CommitSetActive(r)
             \/ Abort(r)
      PROVE  PasswordInv'
  <2>1. CASE BeginStep(r)
    BY <2>1, PasswordBegins
  <2>2. CASE \/ RejectAccount(r) \/ CommitBadLogin(r) \/ CommitSetActive(r)
             \/ CommitVerify(r) \/ Abort(r)
    BY <2>2, PasswordEnded
  <2>3. CASE CommitSignupSession(r) \/ CommitLogin(r) \/ CommitRefresh(r)
    BY <2>3, PasswordSessions
  <2>4. CASE CommitAccount(r)
    BY <2>4, PasswordAccount
  <2>5. CASE SelectTokens(r)
    BY <2>5, PasswordSelects
  <2>6. CASE CommitReset(r)
    BY <2>6, PasswordReset
  <2>7. CASE \E e \in Emails, type \in TokenTypes : MailToken(r, e, type)
    BY <2>7, PasswordMailed
  <2>8. CASE \E i \in Ids : Logout(r, i)
    BY <2>8, PasswordLoggedOut
  <2>9. QED
    BY <1>4, <2>1, <2>2, <2>3, <2>4, <2>5, <2>6, <2>7, <2>8
<1>5. QED
  BY <1>1, <1>2, <1>3, <1>4, Steps

\* A reset ends every session that was begun with an older password, but those
\* that go back to a request in flight together with it (reset_password selects
\* the outstanding refresh tokens, and refresh or login may commit after that).
THEOREM OldSessionsEnd == Spec => []OldSessionsNeedOverlap
<1>1. Spec => []PasswordInv
  <2>1. Spec => Init /\ [][Next]_vars
    BY DEF Spec
  <2>2. QED
    BY <2>1, PasswordInit, PasswordStep, TokenInvariant, PTL
<1>2. PasswordInv => OldSessionsNeedOverlap
  BY DEF PasswordInv, GoodSessions, Excuse, OldSessionsNeedOverlap
<1>3. QED
  BY <1>1, <1>2, PTL

=============================================================================
