--------------------------- MODULE MaterialOrders ---------------------------
(***************************************************************************)
(* Suppliers, their catalogs, and the organization's material orders       *)
(* (api/routes/materials_routes.py).                                       *)
(*                                                                         *)
(* An order's lines are tested one by one against the availability in the  *)
(* catalog, which no order changes.  Prices, totals and contact details    *)
(* are left out; is_active hides suppliers and items from the lists and is *)
(* tested by no handler.  The orders staged from a quote are in            *)
(* QuoteLifecycle; their later status changes are those of this module.    *)
(***************************************************************************)
EXTENDS Handlers, Sequences

CONSTANTS
    Items,       \* ids of catalog rows
    Orders,      \* ids of orders
    Suppliers,   \* supplier ids
    Skus,        \* stock keeping units
    Stocks,      \* availabilities an employee may enter
    Carts        \* what a request may order: sequences of [item, quantity]

ASSUME MaterialConstants ==
    /\ Stocks \subseteq Nat
    /\ None \notin Suppliers
    /\ None \notin Requests
    /\ Carts \subseteq Seq([item : Items, quantity : Nat])

VARIABLES
    item,        \* table catalog_items
    order        \* table material_orders

materialVars == <<item, order>>

-----------------------------------------------------------------------------

MATERIAL_ORDER_STATUSES == {"draft", "placed", "confirmed", "received", "canceled"}

MATERIAL_ORDER_TRANSITIONS ==
    [draft     |-> {"placed", "canceled"},
     placed    |-> {"confirmed", "canceled"},
     confirmed |-> {"received", "canceled"},
     received  |-> {},
     canceled  |-> {}]

\* A supplier None stands for no row.  History: the request that made it.
ItemRow == [supplier : Suppliers \cup {None}, sku : Skus \cup {None},
            stock : Nat, by : Requests \cup {None}]

\* A line keeps availability_at_order.  Status "none" stands for no row.
Line == [item : Items, quantity : Nat, available : Nat]

OrderRow == [status : MATERIAL_ORDER_STATUSES \cup {"none"}, lines : Seq(Line)]

NoItem == [supplier |-> None, sku |-> None, stock |-> 0, by |-> None]

NoOrder == [status |-> "none", lines |-> <<>>]

MaterialTypeOK ==
    /\ item \in [Items -> ItemRow]
    /\ order \in [Orders -> OrderRow]

\* Nothing yet, or one item and the orders placed before.
MaterialInit ==
    \/ /\ item = [i \in Items |-> NoItem]
       /\ order = [o \in Orders |-> NoOrder]
    \/ /\ \E i \in Items, s \in Suppliers, sku \in Skus, stock \in Stocks :
             item = [k \in Items |->
                       IF k # i THEN NoItem
                       ELSE [supplier |-> s, sku |-> sku, stock |-> stock,
                             by |-> None]]
       /\ order = [o \in Orders |-> [NoOrder EXCEPT !.status = "placed"]]

Stocked(s, sku) == \E i \in Items : item[i].supplier = s /\ item[i].sku = sku

-----------------------------------------------------------------------------
(* The catalog.                                                            *)

\* Mutant: the SKU is not looked up.
BeginCreateItemUnchecked(r, i, s, sku, stock) ==
    /\ item[i] = NoItem
    /\ ~ \E t \in Open : txn[t].op = "create_item" /\ txn[t].key = i
    /\ Load(r, "create_item", i,
            [supplier |-> s, sku |-> sku, stock |-> stock, by |-> r])
    /\ UNCHANGED materialVars

\* The id i of the new row is fresh.
BeginCreateItem(r, i, s, sku, stock) ==
    /\ item[i] = NoItem
    /\ ~ \E t \in Open : txn[t].op = "create_item" /\ txn[t].key = i
    /\ ~Stocked(s, sku)
    /\ Load(r, "create_item", i,
            [supplier |-> s, sku |-> sku, stock |-> stock, by |-> r])
    /\ UNCHANGED materialVars

CommitCreateItem(r) ==
    /\ InFlight(r, "create_item")
    /\ item' = [item EXCEPT ![txn[r].key] = txn[r].saw]
    /\ Close(r)
    /\ UNCHANGED order

\* update_catalog_item writes what it is given and tests nothing: one step.
UpdateItem(r, i, stock) ==
    /\ txn[r].pc = "new"
    /\ item[i].supplier # None
    /\ item' = [item EXCEPT ![i].stock = stock]
    /\ txn' = [txn EXCEPT ![r].pc = "closed"]
    /\ UNCHANGED <<overlap, order>>

-----------------------------------------------------------------------------
(* Orders.                                                                 *)

\* create_order: every line names an item of the supplier with enough of it.
BeginCreateOrder(r, o, s, cart) ==
    /\ order[o] = NoOrder
    /\ ~ \E t \in Open : txn[t].op = "create_order" /\ txn[t].key = o
    /\ \A n \in DOMAIN cart :
          /\ item[cart[n].item].supplier = s
          /\ cart[n].quantity > 0
          /\ ~(item[cart[n].item].stock < cart[n].quantity)
    /\ Load(r, "create_order", o,
            [n \in DOMAIN cart |->
               [item |-> cart[n].item, quantity |-> cart[n].quantity,
                available |-> item[cart[n].item].stock]])
    /\ UNCHANGED materialVars

CommitCreateOrder(r) ==
    /\ InFlight(r, "create_order")
    /\ order' = [order EXCEPT ![txn[r].key] = [status |-> "draft", lines |-> txn[r].saw]]
    /\ Close(r)
    /\ UNCHANGED item

\* Mutant: any known status is accepted.
BeginOrderStatusUnchecked(r, o, status) ==
    /\ order[o].status # "none"
    /\ Load(r, "order_status", [order |-> o, status |-> status], None)
    /\ UNCHANGED materialVars

BeginOrderStatus(r, o, status) ==
    /\ order[o].status # "none"
    /\ status \in MATERIAL_ORDER_TRANSITIONS[order[o].status]
    /\ Load(r, "order_status", [order |-> o, status |-> status], None)
    /\ UNCHANGED materialVars

CommitOrderStatus(r) ==
    /\ InFlight(r, "order_status")
    /\ order' = [order EXCEPT ![txn[r].key.order].status = txn[r].key.status]
    /\ Close(r)
    /\ UNCHANGED item

-----------------------------------------------------------------------------

MaterialOps == {"create_item", "create_order", "order_status"}

MaterialAbort(r) ==
    /\ r \in Open
    /\ txn[r].op \in MaterialOps
    /\ Rollback(r)
    /\ UNCHANGED materialVars

MaterialNext ==
    \E r \in Requests :
        \/ \E i \in Items, s \in Suppliers, sku \in Skus, stock \in Stocks :
              BeginCreateItem(r, i, s, sku, stock)
        \/ \E i \in Items, stock \in Stocks : UpdateItem(r, i, stock)
        \/ \E o \in Orders, s \in Suppliers, cart \in Carts :
              BeginCreateOrder(r, o, s, cart)
        \/ \E o \in Orders, status \in MATERIAL_ORDER_STATUSES :
              BeginOrderStatus(r, o, status)
        \/ CommitCreateItem(r) \/ CommitCreateOrder(r) \/ CommitOrderStatus(r)
        \/ MaterialAbort(r)

MaterialSpec ==
    /\ HandlersInit /\ MaterialInit
    /\ [][MaterialNext]_<<handlerVars, materialVars>>

-----------------------------------------------------------------------------
(* Properties.                                                             *)

\* "A SKU identifies one stocked item per supplier per organization"
\* (core/database.py:237): the table has no such constraint, and two rows for
\* one SKU come only from requests that were in flight together.
DuplicateSkusNeedOverlap ==
    \A i, k \in Items :
        /\ i # k
        /\ item[i].supplier # None
        /\ item[i].supplier = item[k].supplier
        /\ item[i].sku = item[k].sku
        => /\ item[i].by # None
           /\ item[k].by \in overlap[item[i].by]

\* An order moves only along its life cycle (MATERIAL_ORDER_TRANSITIONS), and
\* stays received or canceled, unless the writer was in flight together with
\* another request that changed the order's status.
OrdersFollowTheirGraph ==
    [][\A o \in Orders :
         order'[o].status # order[o].status /\ order[o].status # "none" =>
            \/ order'[o].status \in MATERIAL_ORDER_TRANSITIONS[order[o].status]
            \/ \E r, s \in Requests :
                  /\ Done(s, "order_status") /\ txn[s].key.order = o
                  /\ r # s
                  /\ InFlight(r, "order_status") /\ Done(r, "order_status")'
                  /\ s \in overlap[r]
      ]_<<handlerVars, materialVars>>

Live(o) == order[o].status \in {"draft", "placed", "confirmed"}

\* "Availability is validated and reserved into the order line at creation
\* time" (materials_routes.py:224): two lines of live orders that were
\* validated against the present stock of an item fit into it together.
LinesAreReserved ==
    \A o, p \in Orders :
        \A n \in DOMAIN order[o].lines, m \in DOMAIN order[p].lines :
            LET one == order[o].lines[n]
                two == order[p].lines[m]
            IN  /\ Live(o) /\ Live(p) /\ <<o, n>> # <<p, m>>
                /\ one.item = two.item
                /\ one.available = item[one.item].stock
                /\ two.available = item[one.item].stock
                => one.quantity + two.quantity <= item[one.item].stock

=============================================================================
