----------------------------- MODULE OrderLedger -----------------------------
(***************************************************************************)
(* What placing an order promises, with no transaction, lock or request in *)
(* sight: an order appears together with the stock it takes, the emptied   *)
(* cart of its user, its outbox event and its share of the day's summary,  *)
(* all in one step; between orders, a user changes one cart row at a time. *)
(* Checkout implements this with statements of concurrent transactions.    *)
(***************************************************************************)
EXTENDS Shop

CONSTANT OrderIds

VARIABLES
    carts,      \* cart_items: quantity per user and product
    stock,      \* inventory
    orders,     \* orders with their order_items
    events,     \* the orders an order_confirmed outbox event is about
    sales       \* daily_sales_summary

vars == <<carts, stock, orders, events, sales>>

Order == [id : OrderIds, user : Users, day : Days, lines : Lines]

Init ==
    /\ carts \in [Users -> Lines]
    /\ stock = InitialStock
    /\ orders = {}
    /\ events = {}
    /\ sales = [d \in Days |-> [orders |-> 0, amount |-> 0]]

\* One order, whole.
Place(o) ==
    /\ orders' = orders \cup {o}
    /\ \A x \in orders : x.id # o.id
    /\ o.lines # NoLines
    /\ \A p \in Products : o.lines[p] <= stock[p]
    /\ stock' = [p \in Products |-> stock[p] - o.lines[p]]
    /\ events' = events \cup {o.id}
    /\ sales' = [sales EXCEPT ![o.day] = PlusOrder(@, o.lines)]
    /\ carts' = [carts EXCEPT ![o.user] = NoLines]

\* The user adds, changes or removes one row.
EditCart(u, p, q) ==
    /\ carts' = [carts EXCEPT ![u][p] = q]
    /\ UNCHANGED <<stock, orders, events, sales>>

Next ==
    \/ \E o \in Order : Place(o)
    \/ \E u \in Users, p \in Products, q \in 0..MaxQuantity : EditCart(u, p, q)

Spec == Init /\ [][Next]_vars
=============================================================================
