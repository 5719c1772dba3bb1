---------------------------- MODULE HandlersProofs ----------------------------
(***************************************************************************)
(* Lemmas about Handlers: what the beginning and the end of a session do,  *)
(* whatever the handler.                                                   *)
(***************************************************************************)
EXTENDS Handlers, TLAPS

\* Two sessions that are open at once know of each other, and go on doing so;
\* a request that was not handled, or rolled back, left nothing.
OverlapInv ==
    /\ \A r, s \in Requests : s \in overlap[r] => r \in overlap[s]
    /\ \A r, s \in Requests : r \in Open /\ s \in Open /\ r # s => s \in overlap[r]
    /\ \A r \in Requests : txn[r].pc = "new" => overlap[r] = {}
    /\ \A r \in Requests : txn[r].pc \in {"new", "error"} => txn[r].op = "none"

SessionInv == HandlersTypeOK /\ OverlapInv

\* A handler that is one step.
Quick(r) ==
    /\ txn[r].pc = "new"
    /\ txn' = [txn EXCEPT ![r].pc = "closed"]
    /\ UNCHANGED overlap

LEMMA LoadDoes ==
  ASSUME SessionInv, NEW r \in Requests, NEW op, NEW key, NEW saw,
         Load(r, op, key, saw)
  PROVE  /\ SessionInv'
         /\ r \notin Open /\ Open' = Open \cup {r}
         /\ txn[r].pc = "new" /\ txn[r].op = "none"
         /\ txn'[r].pc = "open" /\ txn'[r].op = op
         /\ txn'[r].key = key /\ txn'[r].saw = saw
         /\ \A s \in Requests : s # r => txn'[s] = txn[s]
         /\ \A s \in Requests : overlap[s] \subseteq overlap'[s]
<1> USE DEF SessionInv
<1> DEFINE new == [pc |-> "open", op |-> op, key |-> key, saw |-> saw]
<1>1. txn[r].pc = "new" /\ txn' = [txn EXCEPT ![r] = new]
  BY DEF Load
<1>2. overlap' = [s \in Requests |->
                     IF s = r THEN Open
                     ELSE IF s \in Open THEN overlap[s] \cup {r}
                     ELSE overlap[s]]
  BY DEF Load
<1>3. /\ new.pc = "open" /\ new.op = op /\ new.key = key /\ new.saw = saw
      /\ DOMAIN new = DOMAIN NewSession
  BY DEF NewSession
<1> HIDE DEF new
<1>4. /\ DOMAIN txn' = Requests
      /\ txn'[r] = new
      /\ \A s \in Requests : s # r => txn'[s] = txn[s]
  BY <1>1 DEF HandlersTypeOK
<1>5. r \notin Open /\ Open' = Open \cup {r} /\ Open \subseteq Requests
  BY <1>1, <1>3, <1>4 DEF Open
<1>6. HandlersTypeOK'
  BY <1>2, <1>3, <1>4, <1>5 DEF HandlersTypeOK, Phases
<1>7. overlap[r] = {} /\ \A s \in Requests : r \notin overlap[s]
  BY <1>1 DEF OverlapInv
<1>8. OverlapInv'
  <2>1. \A s, t \in Requests : t \in overlap'[s] => s \in overlap'[t]
    BY <1>2, <1>5, <1>7 DEF OverlapInv
  <2>2. \A s, t \in Requests : s \in Open' /\ t \in Open' /\ s # t => t \in overlap'[s]
    BY <1>2, <1>5 DEF OverlapInv
  <2>3. \A s \in Requests : txn'[s].pc = "new" => overlap'[s] = {}
    BY <1>2, <1>3, <1>4 DEF OverlapInv, Open
  <2>4. \A s \in Requests : txn'[s].pc \in {"new", "error"} => txn'[s].op = "none"
    BY <1>3, <1>4 DEF OverlapInv
  <2>5. QED
    BY <2>1, <2>2, <2>3, <2>4 DEF OverlapInv
<1>9. \A s \in Requests : overlap[s] \subseteq overlap'[s]
  BY <1>2, <1>7
<1>10. txn[r].op = "none"
  BY <1>1 DEF OverlapInv
<1>11. QED
  BY <1>1, <1>3, <1>4, <1>5, <1>6, <1>8, <1>9, <1>10

LEMMA EndKeeps ==
  ASSUME SessionInv, NEW r \in Requests, NEW row, DOMAIN row = DOMAIN NewSession,
         \/ row.pc = "closed"
         \/ row.pc = "error" /\ row.op = "none",
         txn' = [txn EXCEPT ![r] = row], overlap' = overlap
  PROVE  /\ SessionInv'
         /\ Open' = Open \ {r}
         /\ txn'[r] = row
         /\ \A s \in Requests : s # r => txn'[s] = txn[s]
<1> USE DEF SessionInv
<1>1. /\ DOMAIN txn' = Requests
      /\ txn'[r] = row
      /\ \A s \in Requests : s # r => txn'[s] = txn[s]
  BY DEF HandlersTypeOK
<1>2. Open' = Open \ {r}
  BY <1>1 DEF Open
<1>3. HandlersTypeOK'
  BY <1>1 DEF HandlersTypeOK, Phases
<1>4. OverlapInv'
  BY <1>1, <1>2 DEF OverlapInv
<1>5. QED
  BY <1>1, <1>2, <1>3, <1>4

LEMMA CloseDoes ==
  ASSUME SessionInv, NEW r \in Requests, Close(r)
  PROVE  /\ SessionInv' /\ overlap' = overlap
         /\ Open' = Open \ {r}
         /\ txn'[r].pc = "closed" /\ txn'[r].op = txn[r].op /\ txn'[r].key = txn[r].key
         /\ \A s \in Requests : s # r => txn'[s] = txn[s]
<1> DEFINE row == [txn[r] EXCEPT !.pc = "closed", !.saw = None]
<1>1. txn' = [txn EXCEPT ![r] = row] /\ overlap' = overlap
  BY DEF Close
<1>2. DOMAIN txn[r] = {"pc", "op", "key", "saw"}
  BY DEF SessionInv, HandlersTypeOK, NewSession
<1>3. /\ DOMAIN row = DOMAIN NewSession
      /\ row.pc = "closed" /\ row.op = txn[r].op /\ row.key = txn[r].key
  BY <1>2 DEF NewSession
<1> HIDE DEF row
<1>4. QED
  BY <1>1, <1>3, EndKeeps

LEMMA RollbackDoes ==
  ASSUME SessionInv, NEW r \in Requests, Rollback(r)
  PROVE  /\ SessionInv' /\ overlap' = overlap
         /\ Open' = Open \ {r}
         /\ txn'[r].pc = "error" /\ txn'[r].op = "none"
         /\ \A s \in Requests : s # r => txn'[s] = txn[s]
<1> DEFINE row == [NewSession EXCEPT !.pc = "error"]
<1>1. txn' = [txn EXCEPT ![r] = row] /\ overlap' = overlap
  BY DEF Rollback
<1>2. /\ DOMAIN row = DOMAIN NewSession
      /\ row.pc = "error" /\ row.op = "none"
  BY DEF NewSession
<1> HIDE DEF row
<1>3. QED
  BY <1>1, <1>2, EndKeeps

LEMMA QuickDoes ==
  ASSUME SessionInv, NEW r \in Requests, Quick(r)
  PROVE  /\ SessionInv' /\ overlap' = overlap
         /\ r \notin Open /\ Open' = Open
         /\ txn'[r].pc = "closed" /\ txn'[r].op = "none"
         /\ \A s \in Requests : s # r => txn'[s] = txn[s]
<1> DEFINE row == [txn[r] EXCEPT !.pc = "closed"]
<1>1. txn[r].pc = "new" /\ txn' = [txn EXCEPT ![r] = row] /\ overlap' = overlap
  BY DEF Quick
<1>2. DOMAIN txn[r] = {"pc", "op", "key", "saw"} /\ txn[r].op = "none"
  BY <1>1 DEF SessionInv, OverlapInv, HandlersTypeOK, NewSession
<1>3. DOMAIN row = DOMAIN NewSession /\ row.pc = "closed" /\ row.op = "none"
  BY <1>2 DEF NewSession
<1> HIDE DEF row
<1>4. r \notin Open /\ Open \ {r} = Open
  BY <1>1 DEF Open
<1>5. QED
  BY <1>1, <1>3, <1>4, EndKeeps

LEMMA SessionInit == HandlersInit => SessionInv
  BY DEF HandlersInit, SessionInv, HandlersTypeOK, OverlapInv, NewSession, Phases, Open

===============================================================================
