-------------------------- MODULE BackofficeProofs --------------------------
(***************************************************************************)
(* Proofs about the back office, for every set of requests, users, jobs,   *)
(* customers, items and orders: the catalog and its orders                 *)
(* (MaterialOrders), the users and the checklist of an organization        *)
(* (Workspace), each among all the other handlers of Backoffice.           *)
(***************************************************************************)
EXTENDS Backoffice, HandlersProofs

-----------------------------------------------------------------------------
(* The handlers of other components, as one component sees them.           *)

Foreign(ops) ==
    \E r \in Requests :
        \/ \E op, key, saw : op \notin ops /\ Load(r, op, key, saw)
        \/ r \in Open /\ txn[r].op \notin ops /\ (Close(r) \/ Rollback(r))
        \/ Quick(r)

LEMMA WorkspaceIsForeign ==
  ASSUME WorkspaceNext
  PROVE  Foreign(SchedulingOps \cup MaterialOps)
<1> USE DEF SchedulingOps, MaterialOps
<1> DEFINE Ops == SchedulingOps \cup MaterialOps
<1>1. PICK r \in Requests :
        \/ \E op \in TickOps : BeginTick(r, op)
        \/ \E u \in Users :
             \/ BeginInvite(r, u)
             \/ \E actor \in Users, change \in Changes :
                   BeginUpdateUser(r, actor, u, change)
        \/ CommitTick(r) \/ CommitInvite(r) \/ CommitUpdateUser(r)
        \/ WorkspaceAbort(r)
  BY DEF WorkspaceNext
<1>2. /\ "create_job" \notin PlainTicks /\ PlainTicks \cap Ops = {}
      /\ "invite" \notin Ops /\ "update_user" \notin Ops
  BY DEF PlainTicks, TickOps, StepsOf
<1>3. ASSUME NEW op, BeginTick(r, op) PROVE Foreign(Ops)
  BY <1>2, <1>3 DEF BeginTick, Foreign
<1>4. ASSUME NEW u, BeginInvite(r, u) PROVE Foreign(Ops)
  BY <1>2, <1>4 DEF BeginInvite, Foreign
<1>5. ASSUME NEW u, NEW actor, NEW change, BeginUpdateUser(r, actor, u, change)
      PROVE  Foreign(Ops)
  BY <1>2, <1>5 DEF BeginUpdateUser, Foreign
<1>6. CASE CommitTick(r)
  BY <1>2, <1>6 DEF CommitTick, Foreign
<1>7. CASE CommitInvite(r) \/ CommitUpdateUser(r)
  BY <1>2, <1>7 DEF CommitInvite, CommitUpdateUser, InFlight, Open, Foreign
<1>8. CASE WorkspaceAbort(r)
  BY <1>2, <1>8 DEF WorkspaceAbort, Foreign
<1>9. QED
  BY <1>1, <1>3, <1>4, <1>5, <1>6, <1>7, <1>8

LEMMA SchedulingIsForeign ==
  ASSUME SchedulingNext
  PROVE  Foreign(MaterialOps \cup {"invite", "update_user"})
<1> DEFINE Ops == MaterialOps \cup {"invite", "update_user"}
<1> USE DEF SchedulingOps, MaterialOps
<1>1. PICK r \in Requests :
        \/ \E c \in Customers : DeleteCustomer(r, c)
        \/ \E j \in Jobs :
             \/ \E c \in Customers, plan \in Plans : BeginCreateJob(r, j, c, plan)
             \/ \E edit \in Edits : BeginUpdateJob(r, j, edit)
             \/ \E w \in Users : BeginAssign(r, j, w)
        \/ \E a \in assignments : Unassign(r, a)
        \/ CommitCreateJob(r) \/ RejectCreateJob(r)
        \/ CommitUpdateJob(r) \/ CommitAssign(r)
        \/ SchedulingAbort(r)
  BY DEF SchedulingNext
<1>2. ASSUME NEW c, DeleteCustomer(r, c) PROVE Foreign(Ops)
  BY <1>2 DEF DeleteCustomer, Quick, Foreign
<1>3. ASSUME NEW a, Unassign(r, a) PROVE Foreign(Ops)
  BY <1>3 DEF Unassign, Quick, Foreign
<1>4. ASSUME NEW j, NEW c, NEW plan, BeginCreateJob(r, j, c, plan)
      PROVE  Foreign(Ops)
  BY <1>4 DEF BeginCreateJob, Foreign
<1>5. ASSUME NEW j, NEW edit, BeginUpdateJob(r, j, edit) PROVE Foreign(Ops)
  BY <1>5 DEF BeginUpdateJob, Foreign
<1>6. ASSUME NEW j, NEW w, BeginAssign(r, j, w) PROVE Foreign(Ops)
  BY <1>6 DEF BeginAssign, Foreign
<1>7. CASE CommitCreateJob(r) \/ RejectCreateJob(r) \/ CommitUpdateJob(r) \/ CommitAssign(r)
  BY <1>7 DEF CommitCreateJob, RejectCreateJob, CommitUpdateJob, CommitAssign,
     InFlight, Open, Foreign
<1>8. CASE SchedulingAbort(r)
  BY <1>8 DEF SchedulingAbort, Foreign
<1>9. QED
  BY <1>1, <1>2, <1>3, <1>4, <1>5, <1>6, <1>7, <1>8

LEMMA MaterialIsForeign ==
  ASSUME MaterialNext
  PROVE  Foreign(TickOps \cup {"update_user"} \cup SchedulingOps)
<1> DEFINE Ops == TickOps \cup {"update_user"} \cup SchedulingOps
<1>1. PICK r \in Requests :
        \/ \E i \in Items, s \in Suppliers, sku \in Skus, stock \in Stocks :
              BeginCreateItem(r, i, s, sku, stock)
        \/ \E i \in Items, stock \in Stocks : UpdateItem(r, i, stock)
        \/ \E o \in Orders, s \in Suppliers, cart \in Carts :
              BeginCreateOrder(r, o, s, cart)
        \/ \E o \in Orders, status \in MATERIAL_ORDER_STATUSES :
              BeginOrderStatus(r, o, status)
        \/ CommitCreateItem(r) \/ CommitCreateOrder(r) \/ CommitOrderStatus(r)
        \/ MaterialAbort(r)
  BY DEF MaterialNext
<1>2. MaterialOps \cap Ops = {} /\ {"create_item", "create_order", "order_status"} \cap Ops = {}
  BY DEF MaterialOps, SchedulingOps, TickOps, StepsOf
<1> HIDE DEF Ops
<1>3. ASSUME NEW i, NEW s, NEW sku, NEW stock, BeginCreateItem(r, i, s, sku, stock)
      PROVE  Foreign(Ops)
  BY <1>2, <1>3 DEF BeginCreateItem, Foreign
<1>4. ASSUME NEW i, NEW stock, UpdateItem(r, i, stock) PROVE Foreign(Ops)
  BY <1>4 DEF UpdateItem, Quick, Foreign
<1>5. ASSUME NEW o, NEW s, NEW cart, BeginCreateOrder(r, o, s, cart) PROVE Foreign(Ops)
  BY <1>2, <1>5 DEF BeginCreateOrder, Foreign
<1>6. ASSUME NEW o, NEW status, BeginOrderStatus(r, o, status) PROVE Foreign(Ops)
  BY <1>2, <1>6 DEF BeginOrderStatus, Foreign
<1>7. ASSUME CommitCreateItem(r) \/ CommitCreateOrder(r) \/ CommitOrderStatus(r)
      PROVE  Foreign(Ops)
  BY <1>2, <1>7 DEF CommitCreateItem, CommitCreateOrder, CommitOrderStatus,
     InFlight, Open, Foreign
<1>8. ASSUME MaterialAbort(r) PROVE Foreign(Ops)
  BY <1>2, <1>8 DEF MaterialAbort, Foreign
<1>9. QED
  BY <1>1, <1>3, <1>4, <1>5, <1>6, <1>7, <1>8 DEF Ops

LEMMA ForeignToFewer ==
  ASSUME NEW ops, NEW fewer, Foreign(ops), fewer \subseteq ops
  PROVE  Foreign(fewer)
  BY DEF Foreign

\* Such a step opens and commits no session of the component.
LEMMA ForeignDoes ==
  ASSUME SessionInv, NEW ops, "none" \notin ops, Foreign(ops)
  PROVE  /\ SessionInv'
         /\ \A r \in Requests : overlap[r] \subseteq overlap'[r]
         /\ \A r \in Requests : txn[r].op \in ops \/ txn'[r].op \in ops =>
               txn'[r] = txn[r]
         /\ \A r \in Requests : txn[r].pc # "new" => txn'[r].pc # "new"
         /\ \A r \in Requests : txn[r].pc = "closed" => txn'[r] = txn[r]
<1>1. PICK r \in Requests :
        \/ \E op, key, saw : op \notin ops /\ Load(r, op, key, saw)
        \/ r \in Open /\ txn[r].op \notin ops /\ (Close(r) \/ Rollback(r))
        \/ Quick(r)
  BY DEF Foreign
<1>2. ASSUME NEW op, NEW key, NEW saw, op \notin ops, Load(r, op, key, saw)
      PROVE  /\ SessionInv' /\ txn[r].pc = "new" /\ txn'[r].pc = "open"
             /\ \A s \in Requests : overlap[s] \subseteq overlap'[s]
             /\ \A s \in Requests : s # r => txn'[s] = txn[s]
             /\ txn[r].op \notin ops /\ txn'[r].op \notin ops
  BY <1>2, LoadDoes
<1>3. ASSUME r \in Open, txn[r].op \notin ops, Close(r) \/ Rollback(r)
      PROVE  /\ SessionInv' /\ txn[r].pc = "open" /\ txn'[r].pc \in {"closed", "error"}
             /\ \A s \in Requests : overlap[s] \subseteq overlap'[s]
             /\ \A s \in Requests : s # r => txn'[s] = txn[s]
             /\ txn[r].op \notin ops /\ txn'[r].op \notin ops
  BY <1>3, CloseDoes, RollbackDoes DEF Open
<1>4. ASSUME Quick(r)
      PROVE  /\ SessionInv' /\ txn[r].pc = "new" /\ txn'[r].pc = "closed"
             /\ \A s \in Requests : overlap[s] \subseteq overlap'[s]
             /\ \A s \in Requests : s # r => txn'[s] = txn[s]
             /\ txn[r].op \notin ops /\ txn'[r].op \notin ops
  BY <1>4, QuickDoes DEF Quick, SessionInv, OverlapInv
<1>5. QED
  BY <1>1, <1>2, <1>3, <1>4

-----------------------------------------------------------------------------
(* The catalog and its orders.                                             *)

\* What an open handler of this component holds.
MaterialSessions ==
    \A r \in Open :
        /\ txn[r].op = "create_item" =>
              /\ txn[r].key \in Items /\ item[txn[r].key] = NoItem
              /\ txn[r].saw \in ItemRow
              /\ txn[r].saw.by = r /\ txn[r].saw.supplier # None
        /\ txn[r].op = "create_order" =>
              /\ txn[r].key \in Orders /\ order[txn[r].key] = NoOrder
              /\ txn[r].saw \in Seq(Line)
        /\ txn[r].op = "order_status" =>
              /\ txn[r].key.order \in Orders
              /\ txn[r].key.status \in MATERIAL_ORDER_STATUSES
              /\ order[txn[r].key.order].status # "none"

\* No two handlers are about to insert the same row.
FreshKeys ==
    \A r, s \in Open :
        /\ r # s /\ txn[r].op = txn[s].op
        /\ txn[r].op \in {"create_item", "create_order"}
        => txn[r].key # txn[s].key

\* A SKU that a handler has found free is taken since by those that were in
\* flight with it.
FreeSkus ==
    \A r \in Open : txn[r].op = "create_item" =>
        \A k \in Items :
            /\ item[k].supplier = txn[r].saw.supplier
            /\ item[k].sku = txn[r].saw.sku
            => item[k].by \in overlap[r]

\* A status change that a handler has found legal still is, unless another one
\* of that order was in flight with it.
Rivals(r, o) ==
    {s \in Requests : /\ s # r /\ s \in overlap[r]
                      /\ Done(s, "order_status") /\ txn[s].key.order = o}

LegalChanges ==
    \A r \in Open : txn[r].op = "order_status" =>
        LET o == txn[r].key.order IN
        \/ txn[r].key.status \in MATERIAL_ORDER_TRANSITIONS[order[o].status]
        \/ Rivals(r, o) # {}

MaterialInv ==
    /\ MaterialTypeOK
    /\ MaterialSessions
    /\ FreshKeys
    /\ FreeSkus
    /\ LegalChanges
    /\ DuplicateSkusNeedOverlap

LEMMA MaterialInits ==
  ASSUME HandlersInit, MaterialInit
  PROVE  MaterialInv
<1>1. Open = {}
  BY DEF HandlersInit, NewSession, Open
<1>2. MaterialSessions /\ FreshKeys /\ FreeSkus /\ LegalChanges
  BY <1>1 DEF MaterialSessions, FreshKeys, FreeSkus, LegalChanges
<1>3. NoItem \in ItemRow /\ NoOrder \in OrderRow
  BY DEF NoItem, ItemRow, NoOrder, OrderRow
<1>4. CASE /\ item = [i \in Items |-> NoItem]
           /\ order = [o \in Orders |-> NoOrder]
  BY <1>2, <1>3, <1>4 DEF MaterialInv, MaterialTypeOK, DuplicateSkusNeedOverlap, NoItem
<1>5. CASE /\ \E i \in Items, s \in Suppliers, sku \in Skus, stock \in Stocks :
                 item = [k \in Items |->
                           IF k # i THEN NoItem
                           ELSE [supplier |-> s, sku |-> sku, stock |-> stock,
                                 by |-> None]]
           /\ order = [o \in Orders |-> [NoOrder EXCEPT !.status = "placed"]]
  <2>1. PICK i \in Items, s \in Suppliers, sku \in Skus, stock \in Stocks :
          item = [k \in Items |->
                    IF k # i THEN NoItem
                    ELSE [supplier |-> s, sku |-> sku, stock |-> stock, by |-> None]]
    BY <1>5
  <2> DEFINE row == [supplier |-> s, sku |-> sku, stock |-> stock, by |-> None]
  <2>2. row \in ItemRow
    BY MaterialConstants DEF ItemRow
  <2> HIDE DEF row
  <2>3. item = [k \in Items |-> IF k # i THEN NoItem ELSE row]
    BY <2>1 DEF row
  <2>4. item \in [Items -> ItemRow]
    BY <1>3, <2>2, <2>3
  <2>5. [NoOrder EXCEPT !.status = "placed"] \in OrderRow
    <3>1. [NoOrder EXCEPT !.status = "placed"] = [status |-> "placed", lines |-> <<>>]
      BY DEF NoOrder
    <3>2. <<>> \in Seq(Line)
      OBVIOUS
    <3>3. QED
      BY <3>1, <3>2 DEF OrderRow, MATERIAL_ORDER_STATUSES
  <2>6. order \in [Orders -> OrderRow]
    BY <1>5, <2>5
  <2>7. NoItem.supplier = None
    BY DEF NoItem
  <2>8. DuplicateSkusNeedOverlap
    BY <2>3, <2>7 DEF DuplicateSkusNeedOverlap
  <2>9. QED
    BY <1>2, <2>4, <2>6, <2>8 DEF MaterialInv, MaterialTypeOK
<1>6. QED
  BY <1>4, <1>5 DEF MaterialInit

LEMMA MaterialForeign ==
  ASSUME SessionInv, MaterialInv, Foreign(MaterialOps), UNCHANGED materialVars
  PROVE  MaterialInv'
<1>1. "none" \notin MaterialOps
  BY DEF MaterialOps
<1>2. /\ \A r \in Requests : overlap[r] \subseteq overlap'[r]
      /\ \A r \in Requests : txn[r].op \in MaterialOps \/ txn'[r].op \in MaterialOps =>
            txn'[r] = txn[r]
      /\ \A r \in Requests : txn[r].pc = "closed" => txn'[r] = txn[r]
  BY <1>1, ForeignDoes
<1>3. item' = item /\ order' = order
  BY DEF materialVars
<1>4. \A r \in Open' : txn'[r].op \in MaterialOps => r \in Open /\ txn'[r] = txn[r]
  BY <1>2 DEF Open
<1> USE DEF MaterialOps
<1>5. MaterialTypeOK' /\ MaterialSessions'
  BY <1>3, <1>4 DEF MaterialInv, MaterialTypeOK, MaterialSessions
<1>6. FreshKeys'
  BY <1>4 DEF MaterialInv, FreshKeys
<1>7. FreeSkus'
  BY <1>2, <1>3, <1>4 DEF MaterialInv, FreeSkus, Open
<1>8. LegalChanges'
  <2>1. ASSUME NEW r \in Open', txn'[r].op = "order_status", NEW o
        PROVE  Rivals(r, o) \subseteq Rivals(r, o)'
    BY <1>2, <2>1 DEF Rivals, Done, Open
  <2>2. QED
    BY <1>3, <1>4, <2>1 DEF MaterialInv, LegalChanges
<1>9. DuplicateSkusNeedOverlap'
  BY <1>2, <1>3 DEF MaterialInv, MaterialTypeOK, ItemRow, DuplicateSkusNeedOverlap
<1>10. QED
  BY <1>5, <1>6, <1>7, <1>8, <1>9 DEF MaterialInv

\* A handler that begins.
LEMMA MaterialLoad ==
  ASSUME SessionInv, MaterialInv, NEW r \in Requests, NEW op, NEW key, NEW saw,
         Load(r, op, key, saw), UNCHANGED materialVars,
         op = "create_item" =>
            /\ key \in Items /\ item[key] = NoItem /\ saw \in ItemRow
            /\ saw.by = r /\ saw.supplier # None
            /\ \A k \in Items : ~(item[k].supplier = saw.supplier /\ item[k].sku = saw.sku),
         op = "create_order" =>
            /\ key \in Orders /\ order[key] = NoOrder /\ saw \in Seq(Line),
         op \in {"create_item", "create_order"} =>
            \A t \in Open : txn[t].op = op => txn[t].key # key,
         op = "order_status" =>
            /\ key.order \in Orders /\ key.status \in MATERIAL_ORDER_STATUSES
            /\ order[key.order].status # "none"
            /\ key.status \in MATERIAL_ORDER_TRANSITIONS[order[key.order].status]
  PROVE  MaterialInv'
<1>1. /\ SessionInv' /\ r \notin Open /\ Open' = Open \cup {r}
      /\ txn[r].pc = "new" /\ txn'[r].pc = "open"
      /\ txn'[r].op = op /\ txn'[r].key = key /\ txn'[r].saw = saw
      /\ \A s \in Requests : s # r => txn'[s] = txn[s]
      /\ \A s \in Requests : overlap[s] \subseteq overlap'[s]
  BY LoadDoes
<1>2. item' = item /\ order' = order /\ Open \subseteq Requests
  BY DEF materialVars, Open
<1>3. MaterialTypeOK'
  BY <1>2 DEF MaterialInv, MaterialTypeOK
<1>4. MaterialSessions'
  BY <1>1, <1>2 DEF MaterialInv, MaterialSessions
<1>5. FreshKeys'
  BY <1>1, <1>2 DEF MaterialInv, FreshKeys
<1>6. FreeSkus'
  BY <1>1, <1>2 DEF MaterialInv, FreeSkus
<1>7. LegalChanges'
  <2>1. \A s \in Open : \A o : Rivals(s, o) \subseteq Rivals(s, o)'
    BY <1>1, <1>2 DEF Rivals, Done
  <2>2. QED
    BY <1>1, <1>2, <2>1 DEF MaterialInv, LegalChanges
<1>8. DuplicateSkusNeedOverlap'
  BY <1>1, <1>2 DEF MaterialInv, MaterialTypeOK, ItemRow, DuplicateSkusNeedOverlap
<1>9. QED
  BY <1>3, <1>4, <1>5, <1>6, <1>7, <1>8 DEF MaterialInv

LEMMA MaterialStep ==
  ASSUME SessionInv, MaterialInv, MaterialNext
  PROVE  SessionInv' /\ MaterialInv'
<1> USE DEF MaterialInv
<1>1. PICK r \in Requests :
        \/ \E i \in Items, s \in Suppliers, sku \in Skus, stock \in Stocks :
              BeginCreateItem(r, i, s, sku, stock)
        \/ \E i \in Items, stock \in Stocks : UpdateItem(r, i, stock)
        \/ \E o \in Orders, s \in Suppliers, cart \in Carts :
              BeginCreateOrder(r, o, s, cart)
        \/ \E o \in Orders, status \in MATERIAL_ORDER_STATUSES :
              BeginOrderStatus(r, o, status)
        \/ CommitCreateItem(r) \/ CommitCreateOrder(r) \/ CommitOrderStatus(r)
        \/ MaterialAbort(r)
  BY DEF MaterialNext
<1>2. Open \subseteq Requests
  BY DEF Open
<1>3. ASSUME NEW i \in Items, NEW s \in Suppliers, NEW sku \in Skus,
             NEW stock \in Stocks, BeginCreateItem(r, i, s, sku, stock)
      PROVE  SessionInv' /\ MaterialInv'
  <2> DEFINE saw == [supplier |-> s, sku |-> sku, stock |-> stock, by |-> r]
  <2>1. /\ saw \in ItemRow /\ saw.by = r /\ saw.supplier = s /\ saw.sku = sku
        /\ s # None
    BY MaterialConstants DEF ItemRow
  <2> HIDE DEF saw
  <2>2. /\ Load(r, "create_item", i, saw) /\ item[i] = NoItem /\ UNCHANGED materialVars
        /\ \A t \in Open : txn[t].op = "create_item" => txn[t].key # i
        /\ \A k \in Items : ~(item[k].supplier = s /\ item[k].sku = sku)
    BY <1>3 DEF BeginCreateItem, Stocked, saw
  <2>3. QED
    BY <2>1, <2>2, MaterialLoad, LoadDoes
<1>4. ASSUME NEW i \in Items, NEW stock \in Stocks, UpdateItem(r, i, stock)
      PROVE  SessionInv' /\ MaterialInv'
  <2>1. /\ Quick(r) /\ order' = order /\ item[i].supplier # None
        /\ item' = [item EXCEPT ![i].stock = stock]
    BY <1>4 DEF UpdateItem, Quick
  <2>2. /\ SessionInv' /\ Open' = Open /\ r \notin Open /\ overlap' = overlap
        /\ \A s \in Requests : s # r => txn'[s] = txn[s]
        /\ txn[r].pc = "new"
    BY <2>1, QuickDoes DEF Quick
  <2>3. /\ item' \in [Items -> ItemRow]
        /\ \A k \in Items : /\ item'[k].supplier = item[k].supplier
                            /\ item'[k].sku = item[k].sku
                            /\ item'[k].by = item[k].by
                            /\ item[k] = NoItem => item'[k] = NoItem
    <3>1. stock \in Nat /\ item \in [Items -> ItemRow] /\ NoItem.supplier = None
      BY MaterialConstants DEF MaterialTypeOK, NoItem
    <3> DEFINE row == [item[i] EXCEPT !.stock = stock]
    <3>2. row \in ItemRow /\ row.supplier = item[i].supplier /\ row.sku = item[i].sku
          /\ row.by = item[i].by
      BY <3>1 DEF ItemRow
    <3> HIDE DEF row
    <3>3. item' = [item EXCEPT ![i] = row]
      BY <2>1 DEF row
    <3>4. QED
      BY <2>1, <3>1, <3>2, <3>3
  <2>4. MaterialTypeOK' /\ MaterialSessions'
    BY <1>2, <2>1, <2>2, <2>3 DEF MaterialTypeOK, MaterialSessions
  <2>5. FreshKeys' /\ FreeSkus'
    BY <1>2, <2>2, <2>3 DEF FreshKeys, FreeSkus
  <2>6. LegalChanges'
    <3>1. \A s \in Open : \A o : Rivals(s, o) \subseteq Rivals(s, o)'
      BY <1>2, <2>2 DEF Rivals, Done
    <3>2. QED
      BY <1>2, <2>1, <2>2, <3>1 DEF LegalChanges
  <2>7. DuplicateSkusNeedOverlap'
    BY <2>2, <2>3 DEF DuplicateSkusNeedOverlap
  <2>8. QED
    BY <2>2, <2>4, <2>5, <2>6, <2>7
<1>5. ASSUME NEW o \in Orders, NEW s \in Suppliers, NEW cart \in Carts,
             BeginCreateOrder(r, o, s, cart)
      PROVE  SessionInv' /\ MaterialInv'
  <2> DEFINE saw == [n \in DOMAIN cart |->
                       [item |-> cart[n].item, quantity |-> cart[n].quantity,
                        available |-> item[cart[n].item].stock]]
  <2>1. saw \in Seq(Line)
    <3> DEFINE S == [item : Items, quantity : Nat]
    <3>1. cart \in Seq(S)
      BY MaterialConstants
    <3>2. \A n \in 1 .. Len(cart) :
             [item |-> cart[n].item, quantity |-> cart[n].quantity,
              available |-> item[cart[n].item].stock] \in Line
      <4>1. ASSUME NEW n \in 1 .. Len(cart)
            PROVE  [item |-> cart[n].item, quantity |-> cart[n].quantity,
                    available |-> item[cart[n].item].stock] \in Line
        <5>1. cart[n] \in S
          <6> HIDE DEF S
          <6>1. QED
            BY <3>1
        <5>2. cart[n].item \in Items /\ cart[n].quantity \in Nat
          BY <5>1
        <5>3. item[cart[n].item].stock \in Nat
          BY <5>2 DEF MaterialTypeOK, ItemRow
        <5>4. QED
          BY <5>2, <5>3 DEF Line
      <4>2. QED
        BY <4>1
    <3>3. QED
      BY <3>1, <3>2
  <2> HIDE DEF saw
  <2>2. /\ Load(r, "create_order", o, saw) /\ order[o] = NoOrder /\ UNCHANGED materialVars
        /\ \A t \in Open : txn[t].op = "create_order" => txn[t].key # o
    BY <1>5 DEF BeginCreateOrder, saw
  <2>3. QED
    BY <2>1, <2>2, MaterialLoad, LoadDoes
<1>6. ASSUME NEW o \in Orders, NEW status \in MATERIAL_ORDER_STATUSES,
             BeginOrderStatus(r, o, status)
      PROVE  SessionInv' /\ MaterialInv'
  <2> DEFINE key == [order |-> o, status |-> status]
  <2>1. key.order = o /\ key.status = status
    OBVIOUS
  <2> HIDE DEF key
  <2>2. /\ Load(r, "order_status", key, None) /\ UNCHANGED materialVars
        /\ order[o].status # "none"
        /\ status \in MATERIAL_ORDER_TRANSITIONS[order[o].status]
    BY <1>6 DEF BeginOrderStatus, key
  <2>3. QED
    BY <2>1, <2>2, MaterialLoad, LoadDoes
<1>7. CASE CommitCreateItem(r)
  <2> DEFINE i == txn[r].key
             row == txn[r].saw
  <2>1. /\ txn[r].pc = "open" /\ txn[r].op = "create_item" /\ Close(r) /\ order' = order
        /\ item' = [item EXCEPT ![i] = row]
    BY <1>7 DEF CommitCreateItem, InFlight
  <2>2. /\ r \in Open /\ i \in Items /\ row \in ItemRow
        /\ row.by = r /\ row.supplier # None /\ item[i] = NoItem
    BY <2>1 DEF Open, MaterialSessions
  <2>3. /\ SessionInv' /\ overlap' = overlap /\ Open' = Open \ {r}
        /\ \A s \in Requests : s # r => txn'[s] = txn[s]
    BY <2>1, CloseDoes
  <2>4. \A s \in Open : s # r /\ txn[s].op = "create_item" => txn[s].key # i
    BY <2>1, <2>2 DEF FreshKeys
  <2>5. \A k \in Items : /\ item[k].supplier = row.supplier
                         /\ item[k].sku = row.sku
                         => item[k].by \in overlap[r]
    BY <2>1, <2>2 DEF FreeSkus
  <2> HIDE DEF i, row
  <2>6. /\ item' \in [Items -> ItemRow] /\ item'[i] = row
        /\ \A k \in Items : k # i => item'[k] = item[k]
    BY <2>1, <2>2 DEF MaterialTypeOK
  <2>7. MaterialTypeOK' /\ MaterialSessions' /\ FreshKeys'
    BY <1>2, <2>1, <2>2, <2>3, <2>4, <2>6 DEF MaterialTypeOK, MaterialSessions, FreshKeys
  <2>8. FreeSkus'
    <3>1. \A s \in Open : s # r => r \in overlap[s]
      BY <1>2, <2>2 DEF SessionInv, OverlapInv
    <3>2. QED
      BY <1>2, <2>2, <2>3, <2>6, <3>1 DEF FreeSkus
  <2>9. LegalChanges'
    <3>1. \A s \in Open : \A o : s # r => Rivals(s, o) \subseteq Rivals(s, o)'
      BY <1>2, <2>1, <2>3 DEF Rivals, Done
    <3>2. QED
      BY <1>2, <2>1, <2>3, <3>1 DEF LegalChanges
  <2>10. DuplicateSkusNeedOverlap'
    <3>1. \A s \in Requests : s \in overlap[r] => r \in overlap[s] /\ s # None
      BY MaterialConstants DEF SessionInv, OverlapInv
    <3>2. \A k \in Items : item[k].by \in overlap[r] => item[k].by \in Requests
      BY DEF SessionInv, HandlersTypeOK
    <3>3. r # None
      BY MaterialConstants
    <3>4. ASSUME NEW j \in Items, NEW k \in Items, j # k, item'[j].supplier # None,
                 item'[j].supplier = item'[k].supplier, item'[j].sku = item'[k].sku
          PROVE  item'[j].by # None /\ item'[k].by \in overlap[item'[j].by]
      <4>1. CASE j = i
        BY <2>2, <2>5, <2>6, <3>3, <3>4, <4>1
      <4>2. CASE k = i
        BY <2>2, <2>5, <2>6, <3>1, <3>2, <3>4, <4>2
      <4>3. CASE j # i /\ k # i
        BY <2>6, <3>4, <4>3 DEF DuplicateSkusNeedOverlap
      <4>4. QED
        BY <4>1, <4>2, <4>3
    <3>5. QED
      BY <2>3, <3>4 DEF DuplicateSkusNeedOverlap
  <2>11. QED
    BY <2>3, <2>7, <2>8, <2>9, <2>10
<1>8. CASE CommitCreateOrder(r)
  <2> DEFINE o == txn[r].key
             row == [status |-> "draft", lines |-> txn[r].saw]
  <2>1. /\ txn[r].pc = "open" /\ txn[r].op = "create_order" /\ Close(r) /\ item' = item
        /\ order' = [order EXCEPT ![o] = row]
    BY <1>8 DEF CommitCreateOrder, InFlight
  <2>2. /\ r \in Open /\ o \in Orders /\ row \in OrderRow /\ order[o].status = "none"
        /\ order[o] = NoOrder
    BY <2>1 DEF Open, MaterialSessions, OrderRow, MATERIAL_ORDER_STATUSES, NoOrder
  <2>3. /\ SessionInv' /\ overlap' = overlap /\ Open' = Open \ {r}
        /\ \A s \in Requests : s # r => txn'[s] = txn[s]
    BY <2>1, CloseDoes
  <2>4. \A s \in Open : s # r /\ txn[s].op = "create_order" => txn[s].key # o
    BY <2>1, <2>2 DEF FreshKeys
  <2>5. \A s \in Open : txn[s].op = "order_status" => txn[s].key.order # o
    BY <2>2 DEF MaterialSessions
  <2> HIDE DEF o, row
  <2>6. /\ order' \in [Orders -> OrderRow]
        /\ \A k \in Orders : k # o => order'[k] = order[k]
    BY <2>1, <2>2 DEF MaterialTypeOK
  <2>7. MaterialTypeOK'
    BY <2>1, <2>6 DEF MaterialTypeOK
  <2>8. MaterialSessions'
    BY <1>2, <2>1, <2>3, <2>4, <2>5, <2>6 DEF MaterialSessions
  <2>9. FreshKeys' /\ FreeSkus' /\ DuplicateSkusNeedOverlap'
    BY <1>2, <2>1, <2>3 DEF FreshKeys, FreeSkus, DuplicateSkusNeedOverlap
  <2>10. LegalChanges'
    <3>1. \A s \in Open : \A p : s # r => Rivals(s, p) \subseteq Rivals(s, p)'
      BY <1>2, <2>1, <2>3 DEF Rivals, Done
    <3>2. ASSUME NEW s \in Open, s # r, txn[s].op = "order_status"
          PROVE  order'[txn[s].key.order] = order[txn[s].key.order]
      BY <2>5, <2>6, <3>2 DEF MaterialSessions
    <3>3. QED
      BY <1>2, <2>3, <3>1, <3>2 DEF LegalChanges
  <2>11. QED
    BY <2>3, <2>7, <2>8, <2>9, <2>10
<1>9. CASE CommitOrderStatus(r)
  <2> DEFINE o == txn[r].key.order
             status == txn[r].key.status
  <2>1. /\ txn[r].pc = "open" /\ txn[r].op = "order_status" /\ Close(r) /\ item' = item
        /\ order' = [order EXCEPT ![o].status = status]
    BY <1>9 DEF CommitOrderStatus, InFlight
  <2>2. r \in Open /\ o \in Orders /\ status \in MATERIAL_ORDER_STATUSES
        /\ order[o].status # "none"
    BY <2>1 DEF Open, MaterialSessions
  <2>3. /\ SessionInv' /\ overlap' = overlap /\ Open' = Open \ {r}
        /\ txn'[r].pc = "closed" /\ txn'[r].op = txn[r].op /\ txn'[r].key = txn[r].key
        /\ \A s \in Requests : s # r => txn'[s] = txn[s]
    BY <2>1, CloseDoes
  <2>4. /\ order' \in [Orders -> OrderRow]
        /\ order'[o].status # "none"
        /\ \A k \in Orders : k # o => order'[k] = order[k]
    <3> HIDE DEF o, status
    <3> DEFINE row == [order[o] EXCEPT !.status = status]
    <3>1. order \in [Orders -> OrderRow] /\ order[o] \in OrderRow
      BY <2>2 DEF MaterialTypeOK
    <3>2. row \in OrderRow /\ row.status = status
      BY <2>2, <3>1 DEF OrderRow
    <3> HIDE DEF row
    <3>3. order' = [order EXCEPT ![o] = row]
      BY <2>1 DEF row
    <3>4. QED
      BY <2>2, <3>1, <3>2, <3>3 DEF MATERIAL_ORDER_STATUSES
  <2>5. NoOrder.status = "none"
    BY DEF NoOrder
  <2>6. MaterialTypeOK'
    BY <2>1, <2>4 DEF MaterialTypeOK
  <2> HIDE DEF status
  <2>7. MaterialSessions'
    <3> HIDE DEF o
    <3>1. \A p \in Orders : order[p] = NoOrder => p # o
      BY <2>2, <2>5
    <3>2. QED
      BY <1>2, <2>1, <2>3, <2>4, <3>1 DEF MaterialSessions
  <2>8. FreshKeys' /\ FreeSkus' /\ DuplicateSkusNeedOverlap'
    BY <1>2, <2>1, <2>3 DEF FreshKeys, FreeSkus, DuplicateSkusNeedOverlap
  <2>9. LegalChanges'
    <3>1. \A s \in Open : \A p : s # r => Rivals(s, p) \subseteq Rivals(s, p)'
      BY <1>2, <2>1, <2>3 DEF Rivals, Done
    <3>2. \A s \in Open : \A p : s # r /\ p = o => r \in Rivals(s, p)'
      BY <1>2, <2>1, <2>2, <2>3 DEF Rivals, Done, SessionInv, OverlapInv
    <3> HIDE DEF o
    <3>3. ASSUME NEW s \in Open, s # r, txn[s].op = "order_status"
          PROVE  \/ txn[s].key.order = o
                 \/ order'[txn[s].key.order] = order[txn[s].key.order]
      BY <2>4, <3>3 DEF MaterialSessions
    <3>4. ASSUME NEW s \in Open, s # r, txn[s].op = "order_status",
                 NEW p, p = txn[s].key.order
          PROVE  \/ txn[s].key.status \in MATERIAL_ORDER_TRANSITIONS[order'[p].status]
                 \/ Rivals(s, p)' # {}
      <4>1. CASE p = o
        BY <3>2, <3>4, <4>1
      <4>2. CASE order'[p] = order[p]
        BY <3>1, <3>4, <4>2 DEF LegalChanges
      <4>3. QED
        BY <3>3, <3>4, <4>1, <4>2
    <3>5. QED
      BY <1>2, <2>3, <3>4 DEF LegalChanges
  <2>10. QED
    BY <2>3, <2>6, <2>7, <2>8, <2>9
<1>10. CASE MaterialAbort(r)
  <2>1. r \in Open /\ Rollback(r) /\ item' = item /\ order' = order
    BY <1>10 DEF MaterialAbort, materialVars
  <2>2. /\ SessionInv' /\ overlap' = overlap /\ Open' = Open \ {r}
        /\ \A s \in Requests : s # r => txn'[s] = txn[s]
    BY <2>1, RollbackDoes
  <2>3. MaterialTypeOK' /\ MaterialSessions'
    BY <1>2, <2>1, <2>2 DEF MaterialTypeOK, MaterialSessions
  <2>4. FreshKeys' /\ FreeSkus' /\ DuplicateSkusNeedOverlap'
    BY <1>2, <2>1, <2>2 DEF FreshKeys, FreeSkus, DuplicateSkusNeedOverlap
  <2>5. LegalChanges'
    <3>1. \A s \in Open : \A p : s # r => Rivals(s, p) \subseteq Rivals(s, p)'
      BY <1>2, <2>1, <2>2 DEF Rivals, Done, Open
    <3>2. QED
      BY <1>2, <2>1, <2>2, <3>1 DEF LegalChanges
  <2>6. QED
    BY <2>2, <2>3, <2>4, <2>5
<1>11. QED
  BY <1>1, <1>3, <1>4, <1>5, <1>6, <1>7, <1>8, <1>9, <1>10

-----------------------------------------------------------------------------
(* The whole back office.                                                  *)

CatalogInv == SessionInv /\ MaterialInv

LEMMA CatalogStep ==
  ASSUME CatalogInv, [Next]_vars
  PROVE  CatalogInv'
<1> USE DEF CatalogInv
<1>1. CASE WorkspaceNext /\ UNCHANGED <<schedulingVars, materialVars>>
  <2>1. Foreign(SchedulingOps \cup MaterialOps)
    BY <1>1, WorkspaceIsForeign
  <2>2. Foreign(MaterialOps)
    BY <2>1, ForeignToFewer
  <2>3. SessionInv'
    BY <2>2, ForeignDoes DEF MaterialOps
  <2>4. QED
    BY <1>1, <2>2, <2>3, MaterialForeign
<1>2. CASE SchedulingNext /\ UNCHANGED materialVars
  <2>1. Foreign(MaterialOps)
    BY <1>2, SchedulingIsForeign, ForeignToFewer
  <2>2. SessionInv'
    BY <2>1, ForeignDoes DEF MaterialOps
  <2>3. QED
    BY <1>2, <2>1, <2>2, MaterialForeign
<1>3. CASE MaterialNext
  BY <1>3, MaterialStep
<1>4. CASE UNCHANGED vars
  <2>1. UNCHANGED <<txn, overlap, item, order>>
    BY <1>4 DEF vars, handlerVars, materialVars
  <2>2. Open' = Open /\ \A r \in Requests : \A o : Rivals(r, o)' = Rivals(r, o)
    BY <2>1 DEF Open, Rivals, Done
  <2>3. SessionInv'
    BY <2>1, <2>2 DEF SessionInv, HandlersTypeOK, OverlapInv
  <2>4. MaterialTypeOK' /\ MaterialSessions' /\ FreshKeys' /\ FreeSkus'
        /\ DuplicateSkusNeedOverlap'
    BY <2>1, <2>2 DEF MaterialInv, MaterialTypeOK, MaterialSessions, FreshKeys,
       FreeSkus, DuplicateSkusNeedOverlap
  <2>5. LegalChanges'
    BY <2>1, <2>2 DEF MaterialInv, LegalChanges, Open
  <2>6. QED
    BY <2>3, <2>4, <2>5 DEF MaterialInv
<1>5. QED
  BY <1>1, <1>2, <1>3, <1>4 DEF Next

\* What the back office keeps true of sessions, of the catalog and of its
\* orders: the inductive invariant behind the next two theorems.
THEOREM CatalogInvariant == Spec => []CatalogInv
<1>1. Init => CatalogInv
  BY SessionInit, MaterialInits DEF Init, CatalogInv
<1>2. CatalogInv /\ [Next]_vars => CatalogInv'
  BY CatalogStep
<1>3. QED
  BY <1>1, <1>2, PTL DEF Spec

\* Two catalog rows for one SKU come only from create_catalog_item requests
\* that were in flight together.
THEOREM SkusAreUniqueWithoutOverlap == Spec => []DuplicateSkusNeedOverlap
<1>1. CatalogInv => DuplicateSkusNeedOverlap
  BY DEF CatalogInv, MaterialInv
<1>2. QED
  BY <1>1, CatalogInvariant, PTL

LEMMA OrderMoves ==
  ASSUME CatalogInv, [Next]_vars, NEW o \in Orders,
         order'[o].status # order[o].status, order[o].status # "none"
  PROVE  \/ order'[o].status \in MATERIAL_ORDER_TRANSITIONS[order[o].status]
         \/ \E r, s \in Requests :
               /\ Done(s, "order_status") /\ txn[s].key.order = o
               /\ r # s
               /\ InFlight(r, "order_status") /\ Done(r, "order_status")'
               /\ s \in overlap[r]
<1>1. PICK r \in Requests : CommitCreateOrder(r) \/ CommitOrderStatus(r)
  BY DEF Next, vars, materialVars, MaterialNext, BeginCreateItem, UpdateItem,
     BeginCreateOrder, BeginOrderStatus, CommitCreateItem, MaterialAbort
<1>2. CASE CommitCreateOrder(r)
  <2>1. /\ r \in Open /\ txn[r].op = "create_order"
        /\ order' = [order EXCEPT ![txn[r].key] =
                       [status |-> "draft", lines |-> txn[r].saw]]
    BY <1>2 DEF CommitCreateOrder, InFlight, Open
  <2>2. order[txn[r].key] = NoOrder /\ NoOrder.status = "none"
    BY <2>1 DEF CatalogInv, MaterialInv, MaterialSessions, NoOrder
  <2>3. QED
    BY <2>1, <2>2 DEF CatalogInv, MaterialInv, MaterialTypeOK
<1>3. CASE CommitOrderStatus(r)
  <2>1. /\ InFlight(r, "order_status") /\ r \in Open /\ Close(r)
        /\ order' = [order EXCEPT ![txn[r].key.order].status = txn[r].key.status]
    BY <1>3 DEF CommitOrderStatus, InFlight, Open
  <2>2. txn[r].key.order \in Orders
    BY <2>1 DEF CatalogInv, MaterialInv, MaterialSessions, InFlight
  <2>3. Done(r, "order_status")'
    BY <2>1, CloseDoes DEF CatalogInv, InFlight, Done
  <2>4. txn[r].key.order = o /\ order'[o].status = txn[r].key.status
    BY <2>1, <2>2 DEF CatalogInv, MaterialInv, MaterialTypeOK, OrderRow
  <2>5. \/ txn[r].key.status \in MATERIAL_ORDER_TRANSITIONS[order[o].status]
        \/ Rivals(r, o) # {}
    BY <2>1, <2>4 DEF CatalogInv, MaterialInv, LegalChanges, InFlight
  <2>6. QED
    BY <2>1, <2>3, <2>4, <2>5 DEF Rivals
<1>4. QED
  BY <1>1, <1>2, <1>3

\* A material order leaves its life cycle only when a status change commits on
\* top of another one of that order that it was in flight with.
THEOREM OrdersKeepTheirGraph == Spec => OrdersFollowTheirGraph
<1> DEFINE Move ==
      \A o \in Orders :
         order'[o].status # order[o].status /\ order[o].status # "none" =>
            \/ order'[o].status \in MATERIAL_ORDER_TRANSITIONS[order[o].status]
            \/ \E r, s \in Requests :
                  /\ Done(s, "order_status") /\ txn[s].key.order = o
                  /\ r # s
                  /\ InFlight(r, "order_status") /\ Done(r, "order_status")'
                  /\ s \in overlap[r]
<1>1. CatalogInv /\ [Next]_vars => [Move]_<<handlerVars, materialVars>>
  BY OrderMoves
<1> HIDE DEF Move
<1>2. Spec => [][Move]_<<handlerVars, materialVars>>
  BY <1>1, CatalogInvariant, PTL DEF Spec
<1>3. QED
  BY <1>2 DEF Move, OrdersFollowTheirGraph

-----------------------------------------------------------------------------
(* The checklist.                                                          *)

\* The steps of the back office, as the checklist sees them.
TickLoad(r)   == \E op \in TickOps : \E key : Load(r, op, key, onboarding)
TickCommit(r) == r \in Open /\ txn[r].op \in TickOps /\ Tick(r, StepsOf[txn[r].op]) /\ Close(r)
TickAbort(r)  == r \in Open /\ txn[r].op \in TickOps /\ Rollback(r)

LEMMA TickNames ==
  /\ PlainTicks \subseteq TickOps
  /\ {"invite", "create_job"} \subseteq TickOps
  /\ {"none", "update_user", "create_draft", "update_job", "assign"} \cap TickOps = {}
  BY DEF PlainTicks, TickOps, StepsOf

LEMMA TickSteps ==
  ASSUME [Next]_vars
  PROVE  \/ \E r \in Requests :
              \/ TickLoad(r) /\ UNCHANGED onboarding
              \/ TickCommit(r)
              \/ TickAbort(r) /\ UNCHANGED onboarding
         \/ Foreign(TickOps) /\ UNCHANGED onboarding
         \/ UNCHANGED <<txn, overlap, onboarding>>
<1> DEFINE Goal == \/ \E r \in Requests :
                        \/ TickLoad(r) /\ UNCHANGED onboarding
                        \/ TickCommit(r)
                        \/ TickAbort(r) /\ UNCHANGED onboarding
                   \/ Foreign(TickOps) /\ UNCHANGED onboarding
                   \/ UNCHANGED <<txn, overlap, onboarding>>
<1> SUFFICES Goal
  OBVIOUS
<1> USE TickNames
<1>1. CASE WorkspaceNext
  <2>1. PICK r \in Requests :
          \/ \E op \in TickOps : BeginTick(r, op)
          \/ \E u \in Users :
               \/ BeginInvite(r, u)
               \/ \E actor \in Users, change \in Changes :
                     BeginUpdateUser(r, actor, u, change)
          \/ CommitTick(r) \/ CommitInvite(r) \/ CommitUpdateUser(r)
          \/ WorkspaceAbort(r)
    BY <1>1 DEF WorkspaceNext
  <2>2. ASSUME NEW op \in TickOps, BeginTick(r, op) PROVE Goal
    BY <2>2 DEF BeginTick, TickLoad, workspaceVars
  <2>3. ASSUME NEW u, BeginInvite(r, u) PROVE Goal
    BY <2>3 DEF BeginInvite, TickLoad, workspaceVars
  <2>4. ASSUME NEW u, NEW actor, NEW change, BeginUpdateUser(r, actor, u, change)
        PROVE  Goal
    BY <2>4 DEF BeginUpdateUser, Foreign, workspaceVars
  <2>5. ASSUME CommitTick(r) PROVE Goal
    BY <2>5 DEF CommitTick, TickCommit
  <2>6. ASSUME CommitInvite(r) PROVE Goal
    BY <2>6 DEF CommitInvite, TickCommit, InFlight, Open
  <2>7. ASSUME CommitUpdateUser(r) PROVE Goal
    BY <2>7 DEF CommitUpdateUser, InFlight, Open, Foreign
  <2>8. ASSUME WorkspaceAbort(r) PROVE Goal
    BY <2>8 DEF WorkspaceAbort, TickAbort, Foreign, workspaceVars
  <2>9. QED
    BY <2>1, <2>2, <2>3, <2>4, <2>5, <2>6, <2>7, <2>8
<1>2. CASE SchedulingNext
  <2>1. PICK r \in Requests :
          \/ \E c \in Customers : DeleteCustomer(r, c)
          \/ \E j \in Jobs :
               \/ \E c \in Customers, plan \in Plans : BeginCreateJob(r, j, c, plan)
               \/ \E edit \in Edits : BeginUpdateJob(r, j, edit)
               \/ \E w \in Users : BeginAssign(r, j, w)
          \/ \E a \in assignments : Unassign(r, a)
          \/ CommitCreateJob(r) \/ RejectCreateJob(r)
          \/ CommitUpdateJob(r) \/ CommitAssign(r)
          \/ SchedulingAbort(r)
    BY <1>2 DEF SchedulingNext
  <2>2. ASSUME NEW c, DeleteCustomer(r, c) PROVE Goal
    BY <2>2 DEF DeleteCustomer, Quick, Foreign, workspaceVars
  <2>3. ASSUME NEW a, Unassign(r, a) PROVE Goal
    BY <2>3 DEF Unassign, Quick, Foreign, workspaceVars
  <2>4. ASSUME NEW j, NEW c, NEW plan, BeginCreateJob(r, j, c, plan) PROVE Goal
    BY <2>4 DEF BeginCreateJob, TickLoad, Foreign, workspaceVars
  <2>5. ASSUME NEW j, NEW edit, BeginUpdateJob(r, j, edit) PROVE Goal
    BY <2>5 DEF BeginUpdateJob, Foreign, workspaceVars
  <2>6. ASSUME NEW j, NEW w, BeginAssign(r, j, w) PROVE Goal
    BY <2>6 DEF BeginAssign, Foreign, workspaceVars
  <2>7. ASSUME CommitCreateJob(r) PROVE Goal
    BY <2>7 DEF CommitCreateJob, TickCommit, InFlight, Open, Foreign
  <2>8. ASSUME RejectCreateJob(r) PROVE Goal
    BY <2>8 DEF RejectCreateJob, TickAbort, InFlight, Open, Foreign, workspaceVars
  <2>9. ASSUME CommitUpdateJob(r) \/ CommitAssign(r) PROVE Goal
    BY <2>9 DEF CommitUpdateJob, CommitAssign, InFlight, Open, Foreign, workspaceVars
  <2>10. ASSUME SchedulingAbort(r) PROVE Goal
    BY <2>10 DEF SchedulingAbort, TickAbort, Foreign, workspaceVars
  <2>11. QED
    BY <2>1, <2>2, <2>3, <2>4, <2>5, <2>6, <2>7, <2>8, <2>9, <2>10
<1>3. CASE MaterialNext /\ UNCHANGED workspaceVars
  BY <1>3, MaterialIsForeign, ForeignToFewer DEF workspaceVars
<1>4. CASE UNCHANGED vars
  BY <1>4 DEF vars, handlerVars, workspaceVars
<1>5. QED
  BY <1>1, <1>2, <1>3, <1>4 DEF Next

\* Another tick that was in flight with r has committed.
TickRival(r) ==
    \E t \in Requests : t \in overlap[r] /\ txn[t].pc = "closed" /\ txn[t].op \in TickOps

\* A handler's copy of the checklist is behind, a committed step is missing
\* from the column, or from a copy, only because of such a rival.
TickInv ==
    /\ onboarding \subseteq ONBOARDING_STEPS
    /\ \A r \in Open : txn[r].op \in TickOps =>
          /\ txn[r].saw \subseteq ONBOARDING_STEPS
          /\ txn[r].saw \subseteq onboarding \/ TickRival(r)
    /\ \A r \in Requests : txn[r].pc = "closed" /\ txn[r].op \in TickOps =>
          /\ StepsOf[txn[r].op] \subseteq onboarding \/ TickRival(r)
          /\ \A s \in Open : txn[s].op \in TickOps =>
                \/ StepsOf[txn[r].op] \subseteq txn[s].saw
                \/ s \in overlap[r]
                \/ TickRival(r)

LEMMA StepsAreKnown ==
  ASSUME NEW op \in TickOps
  PROVE  StepsOf[op] \subseteq ONBOARDING_STEPS
  BY DEF ONBOARDING_STEPS

LEMMA TickStep ==
  ASSUME SessionInv, TickInv, [Next]_vars
  PROVE  TickInv'
<1>0. Open \subseteq Requests
  BY DEF Open
<1>1. CASE UNCHANGED <<txn, overlap, onboarding>>
  <2>1. \A r : TickRival(r)' = TickRival(r)
    BY <1>1 DEF TickRival
  <2>2. QED
    BY <1>1, <2>1 DEF TickInv, Open
<1>2. CASE Foreign(TickOps) /\ UNCHANGED onboarding
  <2>1. /\ \A r \in Requests : overlap[r] \subseteq overlap'[r]
        /\ \A r \in Requests : txn[r].op \in TickOps \/ txn'[r].op \in TickOps =>
              txn'[r] = txn[r]
    BY <1>2, ForeignDoes, TickNames
  <2>2. \A r \in Requests : TickRival(r) => TickRival(r)'
    BY <2>1 DEF TickRival
  <2>3. \A r \in Open' : txn'[r].op \in TickOps => r \in Open /\ txn'[r] = txn[r]
    BY <2>1 DEF Open
  <2>4. QED
    BY <1>0, <1>2, <2>1, <2>2, <2>3 DEF TickInv, Open
<1>3. ASSUME NEW r \in Requests, TickLoad(r), UNCHANGED onboarding
      PROVE  TickInv'
  <2>1. PICK op \in TickOps : \E key : Load(r, op, key, onboarding)
    BY <1>3 DEF TickLoad
  <2>2. /\ r \notin Open /\ Open' = Open \cup {r}
        /\ txn[r].pc = "new" /\ txn'[r].pc = "open" /\ txn'[r].op = op
        /\ txn'[r].saw = onboarding
        /\ \A s \in Requests : s # r => txn'[s] = txn[s]
        /\ \A s \in Requests : overlap[s] \subseteq overlap'[s]
    BY <2>1, LoadDoes
  <2>3. \A s \in Requests : TickRival(s) => TickRival(s)'
    BY <2>2 DEF TickRival
  <2>4. QED
    BY <1>0, <1>3, <2>2, <2>3 DEF TickInv
<1>4. ASSUME NEW r \in Requests, TickCommit(r)
      PROVE  TickInv'
  <2> DEFINE steps == StepsOf[txn[r].op]
  <2>1. /\ r \in Open /\ txn[r].op \in TickOps /\ Close(r)
        /\ \/ onboarding' = txn[r].saw \cup steps
           \/ steps \subseteq txn[r].saw /\ onboarding' = onboarding
    BY <1>4 DEF TickCommit, Tick
  <2>2. /\ Open' = Open \ {r} /\ overlap' = overlap
        /\ txn[r].pc = "open"
        /\ txn'[r].pc = "closed" /\ txn'[r].op = txn[r].op
        /\ \A s \in Requests : s # r => txn'[s] = txn[s]
    BY <2>1, CloseDoes DEF Open
  <2>3. \A s \in Requests : TickRival(s) => TickRival(s)'
    BY <2>2 DEF TickRival
  <2>4. \A s \in Requests : r \in overlap[s] => TickRival(s)'
    BY <2>1, <2>2 DEF TickRival
  <2>5. \A s \in Open : s # r => r \in overlap[s] /\ s \in overlap[r]
    BY <1>0, <2>1 DEF SessionInv, OverlapInv
  <2>6. steps \subseteq ONBOARDING_STEPS /\ onboarding' \subseteq ONBOARDING_STEPS
    BY <2>1, StepsAreKnown DEF TickInv
  <2> HIDE DEF steps
  <2>7. ASSUME NEW s \in Open', txn'[s].op \in TickOps
        PROVE  /\ txn'[s].saw \subseteq ONBOARDING_STEPS
               /\ TickRival(s)'
    BY <1>0, <2>2, <2>4, <2>5, <2>7 DEF TickInv
  <2>8. steps \subseteq onboarding' \/ TickRival(r)'
    BY <1>0, <2>1, <2>3 DEF TickInv
  <2>9. ASSUME NEW s \in Requests, s # r, txn[s].pc = "closed", txn[s].op \in TickOps
        PROVE  /\ StepsOf[txn[s].op] \subseteq onboarding' \/ TickRival(s)'
               /\ \A t \in Open' : txn'[t].op \in TickOps =>
                    \/ StepsOf[txn[s].op] \subseteq txn'[t].saw
                    \/ t \in overlap'[s]
                    \/ TickRival(s)'
    <3>1. \/ StepsOf[txn[s].op] \subseteq onboarding' \/ r \in overlap[s] \/ TickRival(s)
      BY <2>1, <2>9 DEF TickInv
    <3>2. QED
      BY <1>0, <2>2, <2>3, <2>4, <2>9, <3>1 DEF TickInv
  <2>10. \A t \in Open' : t \in overlap'[r]
    BY <2>2, <2>5
  <2>11. QED
    BY <1>0, <2>1, <2>2, <2>6, <2>7, <2>8, <2>9, <2>10 DEF TickInv, steps
<1>5. ASSUME NEW r \in Requests, TickAbort(r), UNCHANGED onboarding
      PROVE  TickInv'
  <2>1. /\ r \in Open /\ txn[r].pc = "open"
        /\ Open' = Open \ {r} /\ overlap' = overlap
        /\ txn'[r].pc = "error" /\ txn'[r].op = "none"
        /\ \A s \in Requests : s # r => txn'[s] = txn[s]
    BY <1>5, RollbackDoes DEF TickAbort, Open
  <2>2. \A s \in Requests : TickRival(s) => TickRival(s)'
    BY <2>1 DEF TickRival
  <2>3. QED
    BY <1>0, <1>5, <2>1, <2>2 DEF TickInv
<1>6. QED
  BY <1>1, <1>2, <1>3, <1>4, <1>5, TickSteps

LEMMA TickInits ==
  ASSUME HandlersInit, WorkspaceInit
  PROVE  TickInv
<1>1. Open = {} /\ \A r \in Requests : txn[r].pc = "new"
  BY DEF HandlersInit, NewSession, Open
<1>2. onboarding \subseteq ONBOARDING_STEPS
  BY DEF WorkspaceInit, ONBOARDING_STEPS
<1>3. QED
  BY <1>1, <1>2 DEF TickInv

LEMMA TickInvariant == Spec => []TickInv
<1>1. Init => TickInv
  BY TickInits DEF Init
<1>2. CatalogInv /\ TickInv /\ [Next]_vars => TickInv'
  BY TickStep DEF CatalogInv
<1>3. QED
  BY <1>1, <1>2, CatalogInvariant, PTL DEF Spec

\* A checklist step that was ticked while no other handler had the checklist
\* open stays ticked for ever.
THEOREM LoneStepsStayTicked == Spec => []LoneStepsStay
<1>1. TickInv => LoneStepsStay
  BY DEF TickInv, TickRival, LoneStepsStay
<1>2. QED
  BY <1>1, TickInvariant, PTL

-----------------------------------------------------------------------------
(* The users.                                                              *)

UserOps == {"invite", "update_user"}

LEMMA UserSteps ==
  ASSUME [Next]_vars
  PROVE  \/ \E r \in Requests :
              \/ \E u \in Users :
                   \/ BeginInvite(r, u)
                   \/ \E actor \in Users, change \in Changes :
                         BeginUpdateUser(r, actor, u, change)
              \/ CommitInvite(r) \/ CommitUpdateUser(r)
              \/ r \in Open /\ txn[r].op \in UserOps /\ Rollback(r) /\ UNCHANGED user
         \/ Foreign(UserOps) /\ UNCHANGED user
         \/ UNCHANGED <<txn, overlap, user>>
<1> DEFINE Goal == \/ \E r \in Requests :
                        \/ \E u \in Users :
                             \/ BeginInvite(r, u)
                             \/ \E actor \in Users, change \in Changes :
                                   BeginUpdateUser(r, actor, u, change)
                        \/ CommitInvite(r) \/ CommitUpdateUser(r)
                        \/ r \in Open /\ txn[r].op \in UserOps /\ Rollback(r) /\ UNCHANGED user
                   \/ Foreign(UserOps) /\ UNCHANGED user
                   \/ UNCHANGED <<txn, overlap, user>>
<1> SUFFICES Goal
  OBVIOUS
<1>0. PlainTicks \cap UserOps = {}
  BY DEF PlainTicks, TickOps, StepsOf, UserOps
<1>1. CASE WorkspaceNext
  <2>1. PICK r \in Requests :
          \/ \E op \in TickOps : BeginTick(r, op)
          \/ \E u \in Users :
               \/ BeginInvite(r, u)
               \/ \E actor \in Users, change \in Changes :
                     BeginUpdateUser(r, actor, u, change)
          \/ CommitTick(r) \/ CommitInvite(r) \/ CommitUpdateUser(r)
          \/ WorkspaceAbort(r)
    BY <1>1 DEF WorkspaceNext
  <2>2. ASSUME NEW op, BeginTick(r, op) PROVE Foreign(UserOps) /\ UNCHANGED user
    BY <1>0, <2>2 DEF BeginTick, Foreign, workspaceVars
  <2>3. ASSUME CommitTick(r) PROVE Foreign(UserOps) /\ UNCHANGED user
    BY <1>0, <2>3 DEF CommitTick, Foreign
  <2>4. ASSUME WorkspaceAbort(r)
        PROVE  /\ \/ r \in Open /\ txn[r].op \in UserOps /\ Rollback(r)
                  \/ Foreign(UserOps)
               /\ UNCHANGED user
    BY <2>4 DEF WorkspaceAbort, Foreign, workspaceVars
  <2>5. QED
    BY <2>1, <2>2, <2>3, <2>4
<1>2. CASE SchedulingNext /\ UNCHANGED materialVars
  <2>1. Foreign(UserOps)
    BY <1>2, SchedulingIsForeign, ForeignToFewer DEF UserOps
  <2>2. UNCHANGED user
    BY <1>2 DEF SchedulingNext, DeleteCustomer, BeginCreateJob, BeginUpdateJob,
       BeginAssign, Unassign, CommitCreateJob, RejectCreateJob, CommitUpdateJob,
       CommitAssign, SchedulingAbort, workspaceVars
  <2>3. QED
    BY <2>1, <2>2
<1>3. CASE MaterialNext /\ UNCHANGED workspaceVars
  <2>1. UserOps \subseteq TickOps \cup {"update_user"} \cup SchedulingOps
    BY TickNames DEF UserOps
  <2>2. QED
    BY <1>3, <2>1, MaterialIsForeign, ForeignToFewer DEF workspaceVars
<1>4. CASE UNCHANGED vars
  BY <1>4 DEF vars, handlerVars, workspaceVars
<1>5. QED
  BY <1>1, <1>2, <1>3, <1>4 DEF Next

\* What an open handler of users holds: the user to be made is not there, the
\* one to be changed is, and it is no owner about to demote himself.
UserSessions ==
    \A r \in Open :
        /\ txn[r].op = "invite" => txn[r].key \in Users /\ ~user[txn[r].key].exists
        /\ txn[r].op = "update_user" =>
              LET key == txn[r].key IN
              /\ key.actor \in Users /\ key.user \in Users /\ key.change \in Changes
              /\ user[key.actor].exists /\ user[key.user].exists
              /\ txn[r].saw \in UserRow
              /\ key.actor = key.user => key.change.role \in {None, "OWNER"}

FreshInvites ==
    \A r, s \in Open :
        r # s /\ txn[r].op = "invite" /\ txn[s].op = "invite" => txn[r].key # txn[s].key

\* Who is changing a user may still do so, or was changed himself by a request
\* that was in flight with his own.
Changed(u, r) ==
    \E s \in Requests : s \in overlap[r] /\ Done(s, "update_user") /\ txn[s].key.user = u

ActorsCan ==
    \A r \in Open : txn[r].op = "update_user" =>
        Can(txn[r].key.actor, "users") \/ Changed(txn[r].key.actor, r)

SelfDeactivated ==
    \E r \in Requests :
        /\ Done(r, "update_user")
        /\ txn[r].key.actor = txn[r].key.user
        /\ txn[r].key.change.active = FALSE

ChangedWhileChanging ==
    \E r \in Requests : Done(r, "update_user") /\ Changed(txn[r].key.actor, r)

AdminsLost == Admins # {} \/ SelfDeactivated \/ ChangedWhileChanging

UserInv ==
    /\ user \in [Users -> UserRow]
    /\ UserSessions
    /\ FreshInvites
    /\ ActorsCan
    /\ AdminsLost

LEMMA UserInits ==
  ASSUME HandlersInit, WorkspaceInit
  PROVE  UserInv
<1>1. Open = {}
  BY DEF HandlersInit, NewSession, Open
<1>2. /\ user \in [Users -> UserRow] /\ Owner \in Users
      /\ user[Owner].exists /\ user[Owner].active /\ user[Owner].role = "OWNER"
  <2> DEFINE owner == Member("OWNER")
  <2>1. /\ owner \in UserRow /\ NoUser \in UserRow
        /\ owner.exists /\ owner.active /\ owner.role = "OWNER"
    BY DEF Member, NoUser, UserRow, Roles
  <2> HIDE DEF owner
  <2>2. \/ user = [u \in Users |-> IF u = Owner THEN owner ELSE NoUser]
        \/ user = [u \in Users |-> owner]
    BY DEF WorkspaceInit, owner
  <2>3. QED
    BY <2>1, <2>2, WorkspaceConstants
<1>3. Owner \in Admins
  BY <1>2 DEF Admins, Can, PERMISSIONS
<1>4. QED
  BY <1>1, <1>2, <1>3 DEF UserInv, UserSessions, FreshInvites, ActorsCan, AdminsLost

\* What is on record of the changes stays on record.
LEMMA RecordStays ==
  ASSUME \A s \in Requests : txn[s].pc = "closed" => txn'[s] = txn[s],
         \A s \in Requests : overlap[s] \subseteq overlap'[s]
  PROVE  /\ \A s \in Requests : \A u : Changed(u, s) => Changed(u, s)'
         /\ SelfDeactivated => SelfDeactivated'
         /\ ChangedWhileChanging => ChangedWhileChanging'
<1>1. ASSUME NEW s \in Requests, NEW u, Changed(u, s) PROVE Changed(u, s)'
  BY <1>1 DEF Changed, Done
<1>2. SelfDeactivated => SelfDeactivated'
  BY DEF SelfDeactivated, Done
<1>3. ASSUME NEW s \in Requests, Done(s, "update_user"), Changed(txn[s].key.actor, s)
      PROVE  Done(s, "update_user")' /\ Changed(txn[s].key.actor, s)'
  BY <1>3 DEF Changed, Done
<1>4. QED
  BY <1>1, <1>2, <1>3 DEF ChangedWhileChanging

\* A handler that opens or ends without writing users.
LEMMA UserKeeps ==
  ASSUME SessionInv, UserInv, UNCHANGED user,
         \A s \in Requests : txn[s].pc = "closed" => txn'[s] = txn[s],
         \A s \in Requests : overlap[s] \subseteq overlap'[s],
         \A s \in Open' : txn'[s].op \in UserOps => s \in Open /\ txn'[s] = txn[s]
  PROVE  UserInv'
<1> USE DEF UserOps
<1>1. Open' \subseteq Requests
  BY DEF Open
<1>2. UserSessions' /\ FreshInvites'
  BY DEF UserInv, UserSessions, FreshInvites
<1>3. Admins' = Admins /\ \A u : Can(u, "users")' = Can(u, "users")
  BY DEF Admins, Can
<1>4. ASSUME NEW s \in Open', txn'[s].op = "update_user"
      PROVE  Can(txn[s].key.actor, "users")' \/ Changed(txn[s].key.actor, s)'
  <2>1. txn'[s] = txn[s] /\ s \in Open /\ s \in Requests
    BY <1>1, <1>4
  <2>2. PICK u : u = txn[s].key.actor
    OBVIOUS
  <2>3. Can(u, "users") \/ Changed(u, s)
    BY <1>4, <2>1, <2>2 DEF UserInv, ActorsCan
  <2>4. Can(u, "users")' \/ Changed(u, s)'
    BY <1>3, <2>1, <2>3, RecordStays
  <2>5. QED
    BY <2>1, <2>2, <2>4 DEF Can, Changed
<1>5. ActorsCan'
  BY <1>4 DEF ActorsCan
<1>6. AdminsLost'
  BY <1>3, RecordStays DEF UserInv, AdminsLost
<1>7. QED
  BY <1>2, <1>5, <1>6 DEF UserInv

\* The row of one user is written by r.
LEMMA UserWritten ==
  ASSUME UserInv, NEW u \in Users, NEW row \in UserRow,
         user' = [user EXCEPT ![u] = row]
  PROVE  /\ user' \in [Users -> UserRow]
         /\ user'[u] = row
         /\ \A w \in Users : w # u => user'[w] = user[w]
         /\ \A w \in Users : w # u /\ Can(w, "users") => Can(w, "users")'
         /\ row.exists /\ row.active /\ row.role \in {"OWNER", "ADMIN"} =>
               Can(u, "users")'
<1>1. /\ user' \in [Users -> UserRow]
      /\ user'[u] = row
      /\ \A w \in Users : w # u => user'[w] = user[w]
  BY DEF UserInv
<1>2. PERMISSIONS["users"] = {"OWNER", "ADMIN"}
  BY DEF PERMISSIONS
<1>3. QED
  BY <1>1, <1>2 DEF Can

LEMMA UserStep ==
  ASSUME SessionInv, UserInv, [Next]_vars
  PROVE  UserInv'
<1>0. Open \subseteq Requests
  BY DEF Open
<1> USE DEF UserOps
<1>1. CASE UNCHANGED <<txn, overlap, user>>
  BY <1>1, UserKeeps DEF Open
<1>2. CASE Foreign(UserOps) /\ UNCHANGED user
  <2>1. /\ \A s \in Requests : overlap[s] \subseteq overlap'[s]
        /\ \A s \in Requests : txn[s].pc = "closed" => txn'[s] = txn[s]
        /\ \A s \in Requests : txn[s].op \in UserOps \/ txn'[s].op \in UserOps =>
              txn'[s] = txn[s]
    BY <1>2, ForeignDoes
  <2>2. \A s \in Open' : txn'[s].op \in UserOps => s \in Open /\ txn'[s] = txn[s]
    BY <2>1 DEF Open
  <2>3. QED
    BY <1>2, <2>1, <2>2, UserKeeps
<1>3. ASSUME NEW r \in Requests, NEW u \in Users, BeginInvite(r, u) PROVE UserInv'
  <2>1. /\ Load(r, "invite", u, onboarding) /\ UNCHANGED user /\ ~user[u].exists
        /\ \A s \in Open : txn[s].op = "invite" => txn[s].key # u
    BY <1>3 DEF BeginInvite, workspaceVars
  <2>2. /\ r \notin Open /\ Open' = Open \cup {r} /\ txn[r].pc = "new"
        /\ txn'[r].op = "invite" /\ txn'[r].key = u
        /\ \A s \in Requests : s # r => txn'[s] = txn[s]
        /\ \A s \in Requests : overlap[s] \subseteq overlap'[s]
    BY <2>1, LoadDoes
  <2>3. UserSessions' /\ FreshInvites'
    BY <1>0, <2>1, <2>2 DEF UserInv, UserSessions, FreshInvites
  <2>4. Admins' = Admins /\ \A w : Can(w, "users")' = Can(w, "users")
    BY <2>1 DEF Admins, Can
  <2>5. /\ \A s \in Requests : \A w : Changed(w, s) => Changed(w, s)'
        /\ SelfDeactivated => SelfDeactivated'
        /\ ChangedWhileChanging => ChangedWhileChanging'
    BY <2>2, RecordStays
  <2>6. ActorsCan'
    <3>1. ASSUME NEW s \in Open, txn[s].op = "update_user", NEW w, w = txn[s].key.actor
          PROVE  Can(w, "users")' \/ Changed(w, s)'
      BY <1>0, <2>4, <2>5, <3>1 DEF UserInv, ActorsCan
    <3>2. QED
      BY <1>0, <2>2, <3>1 DEF ActorsCan, Can, Changed
  <2>7. QED
    BY <2>1, <2>3, <2>4, <2>5, <2>6 DEF UserInv, AdminsLost
<1>4. ASSUME NEW r \in Requests, NEW u \in Users, NEW actor \in Users,
             NEW change \in Changes, BeginUpdateUser(r, actor, u, change)
      PROVE  UserInv'
  <2> DEFINE key == [actor |-> actor, user |-> u, change |-> change]
  <2>1. key.actor = actor /\ key.user = u /\ key.change = change
    OBVIOUS
  <2> HIDE DEF key
  <2>2. /\ Load(r, "update_user", key, user[u]) /\ UNCHANGED user
        /\ Can(actor, "users") /\ user[u].exists
        /\ actor = u => change.role \in {None, "OWNER"}
    BY <1>4 DEF BeginUpdateUser, workspaceVars, key
  <2>3. /\ r \notin Open /\ Open' = Open \cup {r} /\ txn[r].pc = "new"
        /\ txn'[r].op = "update_user" /\ txn'[r].key = key /\ txn'[r].saw = user[u]
        /\ \A s \in Requests : s # r => txn'[s] = txn[s]
        /\ \A s \in Requests : overlap[s] \subseteq overlap'[s]
    BY <2>2, LoadDoes
  <2>4. UserSessions' /\ FreshInvites'
    <3>1. user[actor].exists /\ user[u] \in UserRow
      BY <2>2 DEF Can, UserInv
    <3>2. QED
      BY <1>0, <2>1, <2>2, <2>3, <3>1 DEF UserInv, UserSessions, FreshInvites
  <2>5. Admins' = Admins /\ \A w : Can(w, "users")' = Can(w, "users")
    BY <2>2 DEF Admins, Can
  <2>6. /\ \A s \in Requests : \A w : Changed(w, s) => Changed(w, s)'
        /\ SelfDeactivated => SelfDeactivated'
        /\ ChangedWhileChanging => ChangedWhileChanging'
    BY <2>3, RecordStays
  <2>7. ActorsCan'
    <3>1. ASSUME NEW s \in Open, txn[s].op = "update_user", NEW w, w = txn[s].key.actor
          PROVE  Can(w, "users")' \/ Changed(w, s)'
      BY <1>0, <2>5, <2>6, <3>1 DEF UserInv, ActorsCan
    <3>2. QED
      BY <1>0, <2>1, <2>2, <2>3, <2>5, <3>1 DEF ActorsCan, Can, Changed
  <2>8. QED
    BY <2>2, <2>4, <2>5, <2>6, <2>7 DEF UserInv, AdminsLost
<1>5. ASSUME NEW r \in Requests, CommitInvite(r) PROVE UserInv'
  <2>1. PICK u : u = txn[r].key
    OBVIOUS
  <2>2. /\ r \in Open /\ txn[r].op = "invite" /\ txn[r].pc = "open" /\ Close(r)
        /\ \E role \in Roles \ {"OWNER"} : user' = [user EXCEPT ![u] = Member(role)]
    BY <1>5, <2>1 DEF CommitInvite, InFlight, Open
  <2>3. PICK row \in UserRow : user' = [user EXCEPT ![u] = row] /\ row.exists
    <3>1. PICK role \in Roles : user' = [user EXCEPT ![u] = Member(role)]
      BY <2>2
    <3>2. Member(role) \in UserRow /\ Member(role).exists
      BY DEF Member, UserRow
    <3>3. QED
      BY <3>1, <3>2
  <2>4. u \in Users /\ ~user[u].exists
    BY <2>1, <2>2 DEF UserInv, UserSessions
  <2>5. /\ user' \in [Users -> UserRow] /\ user'[u] = row
        /\ \A w \in Users : w # u => user'[w] = user[w]
        /\ \A w \in Users : w # u /\ Can(w, "users") => Can(w, "users")'
    BY <2>3, <2>4, UserWritten
  <2>6. /\ Open' = Open \ {r} /\ overlap' = overlap
        /\ \A s \in Requests : s # r => txn'[s] = txn[s]
    BY <2>2, CloseDoes
  <2>7. /\ \A s \in Requests : \A w : Changed(w, s) => Changed(w, s)'
        /\ SelfDeactivated => SelfDeactivated'
        /\ ChangedWhileChanging => ChangedWhileChanging'
    BY <2>2, <2>6, RecordStays
  <2>8. UserSessions' /\ FreshInvites'
    <3>1. \A s \in Open : s # r /\ txn[s].op = "invite" => txn[s].key # u
      BY <2>1, <2>2 DEF UserInv, FreshInvites
    <3>2. \A w \in Users : user[w].exists => user'[w].exists
      BY <2>4, <2>5
    <3>3. QED
      BY <1>0, <2>5, <2>6, <3>1, <3>2 DEF UserInv, UserSessions, FreshInvites
  <2>9. \A w \in Users : Can(w, "users") => Can(w, "users")'
    BY <2>4, <2>5 DEF Can
  <2>10. ActorsCan'
    <3>1. ASSUME NEW s \in Open, txn[s].op = "update_user", NEW w, w = txn[s].key.actor
          PROVE  Can(w, "users")' \/ Changed(w, s)'
      BY <1>0, <2>7, <2>9, <3>1 DEF UserInv, ActorsCan, UserSessions
    <3>2. QED
      BY <1>0, <2>6, <3>1 DEF ActorsCan, Can, Changed
  <2>11. Admins # {} => Admins' # {}
    BY <2>9 DEF Admins
  <2>12. QED
    BY <2>5, <2>7, <2>8, <2>10, <2>11 DEF UserInv, AdminsLost
<1>6. ASSUME NEW r \in Requests, CommitUpdateUser(r) PROVE UserInv'
  <2>1. PICK u, actor, change, saw : /\ u = txn[r].key.user /\ actor = txn[r].key.actor
                                     /\ change = txn[r].key.change /\ saw = txn[r].saw
    OBVIOUS
  <2> DEFINE role == Written(change.role, saw.role, user[u].role)
             active == Written(change.active, saw.active, user[u].active)
  <2>2. /\ r \in Open /\ txn[r].op = "update_user" /\ txn[r].pc = "open" /\ Close(r)
        /\ user' = [user EXCEPT ![u].role = role, ![u].active = active]
    BY <1>6, <2>1 DEF CommitUpdateUser, InFlight, Open
  <2>3. /\ u \in Users /\ actor \in Users /\ change \in Changes /\ saw \in UserRow
        /\ user[u].exists /\ user[u] \in UserRow
        /\ actor = u => change.role \in {None, "OWNER"}
    BY <2>1, <2>2 DEF UserInv, UserSessions
  <2>4. /\ role \in Roles /\ active \in BOOLEAN
        /\ change.role = None => role = user[u].role
        /\ change.role = "OWNER" => role \in {"OWNER", user[u].role}
        /\ change.active # FALSE => active = user[u].active \/ active = TRUE
    BY <2>3, WorkspaceConstants DEF Written, UserRow
  <2> HIDE DEF role, active
  <2>5. PICK row \in UserRow :
          /\ user' = [user EXCEPT ![u] = row]
          /\ row.exists = user[u].exists /\ row.role = role /\ row.active = active
    <3> DEFINE new == [user[u] EXCEPT !.role = role, !.active = active]
    <3>1. new \in UserRow /\ new.exists = user[u].exists /\ new.role = role
          /\ new.active = active
      BY <2>3, <2>4 DEF UserRow
    <3>2. user' = [user EXCEPT ![u] = new]
      BY <2>2, <2>3 DEF UserInv
    <3>3. QED
      BY <3>1, <3>2
  <2>6. /\ user' \in [Users -> UserRow] /\ user'[u] = row
        /\ \A w \in Users : w # u => user'[w] = user[w]
        /\ \A w \in Users : w # u /\ Can(w, "users") => Can(w, "users")'
        /\ row.exists /\ row.active /\ row.role \in {"OWNER", "ADMIN"} => Can(u, "users")'
    BY <2>3, <2>5, UserWritten
  <2>7. /\ Open' = Open \ {r} /\ overlap' = overlap
        /\ txn'[r].pc = "closed" /\ txn'[r].op = txn[r].op /\ txn'[r].key = txn[r].key
        /\ \A s \in Requests : s # r => txn'[s] = txn[s]
    BY <2>2, CloseDoes
  <2>8. /\ \A s \in Requests : \A w : Changed(w, s) => Changed(w, s)'
        /\ SelfDeactivated => SelfDeactivated'
        /\ ChangedWhileChanging => ChangedWhileChanging'
    BY <2>2, <2>7, RecordStays
  <2>9. UserSessions' /\ FreshInvites'
    <3>1. \A w \in Users : user[w].exists <=> user'[w].exists
      BY <2>5, <2>6
    <3>2. QED
      BY <1>0, <2>6, <2>7, <3>1 DEF UserInv, UserSessions, FreshInvites
  <2>10. ActorsCan'
    <3>1. \A s \in Open : s # r => r \in overlap[s]
      BY <1>0, <2>2 DEF SessionInv, OverlapInv
    <3>2. \A s \in Open : s # r => Changed(u, s)'
      BY <1>0, <2>1, <2>2, <2>7, <3>1 DEF Changed, Done
    <3>3. ASSUME NEW s \in Open, s # r, txn[s].op = "update_user",
                 NEW w, w = txn[s].key.actor
          PROVE  Can(w, "users")' \/ Changed(w, s)'
      <4>1. w \in Users /\ (Can(w, "users") \/ Changed(w, s))
        BY <3>3 DEF UserInv, UserSessions, ActorsCan
      <4>2. QED
        BY <1>0, <2>6, <2>8, <3>2, <3>3, <4>1
    <3>4. QED
      BY <1>0, <2>7, <3>3 DEF ActorsCan, Can, Changed
  <2>11. Done(r, "update_user")'
    BY <2>2, <2>7 DEF Done
  <2>12. ASSUME Admins # {} PROVE AdminsLost'
    <3>1. CASE actor = u
      <4>1. CASE change.active = FALSE
        <5>1. SelfDeactivated'
          BY <2>1, <2>7, <2>11, <3>1, <4>1 DEF SelfDeactivated
        <5>2. QED
          BY <5>1 DEF AdminsLost
      <4>2. CASE change.active # FALSE
        <5>1. PICK w \in Admins : TRUE
          BY <2>12
        <5>2. w \in Users /\ Can(w, "users")
          BY DEF Admins
        <5>3. CASE w # u
          BY <2>6, <5>2, <5>3 DEF Admins, AdminsLost
        <5>4. CASE w = u
          <6>1. user[u].exists /\ user[u].active /\ user[u].role \in {"OWNER", "ADMIN"}
            BY <5>2, <5>4 DEF Can, PERMISSIONS
          <6>2. row.exists /\ row.active /\ row.role \in {"OWNER", "ADMIN"}
            BY <2>3, <2>4, <2>5, <3>1, <4>2, <6>1
          <6>3. QED
            BY <2>3, <2>6, <6>2 DEF Admins, AdminsLost
        <5>5. QED
          BY <5>3, <5>4
      <4>3. QED
        BY <4>1, <4>2
    <3>2. CASE actor # u
      <4>1. CASE Can(actor, "users")
        BY <2>3, <2>6, <3>2, <4>1 DEF Admins, AdminsLost
      <4>2. CASE Changed(actor, r)
        <5>1. Changed(actor, r)'
          BY <2>8, <4>2
        <5>2. ChangedWhileChanging'
          BY <2>1, <2>7, <2>11, <5>1 DEF ChangedWhileChanging, Changed
        <5>3. QED
          BY <5>2 DEF AdminsLost
      <4>3. QED
        BY <2>1, <2>2, <4>1, <4>2 DEF UserInv, ActorsCan
    <3>3. QED
      BY <3>1, <3>2
  <2>13. AdminsLost'
    BY <2>8, <2>12 DEF UserInv, AdminsLost
  <2>14. QED
    BY <2>6, <2>9, <2>10, <2>13 DEF UserInv
<1>7. ASSUME NEW r \in Requests, r \in Open, txn[r].op \in UserOps, Rollback(r),
             UNCHANGED user
      PROVE  UserInv'
  <2>1. /\ txn[r].pc = "open" /\ Open' = Open \ {r} /\ overlap' = overlap
        /\ \A s \in Requests : s # r => txn'[s] = txn[s]
    BY <1>7, RollbackDoes DEF Open
  <2>2. QED
    BY <1>0, <1>7, <2>1, UserKeeps
<1>8. QED
  BY <1>1, <1>2, <1>3, <1>4, <1>5, <1>6, <1>7, UserSteps

LEMMA UserInvariant == Spec => []UserInv
<1>1. Init => UserInv
  BY UserInits DEF Init
<1>2. CatalogInv /\ UserInv /\ [Next]_vars => UserInv'
  BY UserStep DEF CatalogInv
<1>3. QED
  BY <1>1, <1>2, CatalogInvariant, PTL DEF Spec

\* Somebody can always administer the users, unless the last administrator
\* deactivated himself or one was changed while he was changing another.
THEOREM AdminsStay == Spec => []AdminsLostOnlyByOverlapOrSelf
<1>1. UserInv => AdminsLostOnlyByOverlapOrSelf
  BY DEF UserInv, AdminsLost, SelfDeactivated, ChangedWhileChanging, Changed,
     AdminsLostOnlyByOverlapOrSelf
<1>2. QED
  BY <1>1, UserInvariant, PTL

=============================================================================
