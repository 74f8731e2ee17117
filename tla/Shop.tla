-------------------------------- MODULE Shop --------------------------------
(***************************************************************************)
(* The vocabulary of the shop's Primary database: users, products, the     *)
(* days of the daily summary, and what a cart or an order holds.  A cart   *)
(* and an order are both a quantity per product, 0 where there is no row   *)
(* (the key of cart_items is (user_id, product_id) and the key of          *)
(* order_items is (order_id, product_id), so a product has one row).       *)
(***************************************************************************)
EXTENDS Integers, FiniteSets

CONSTANTS
    Users,          \* rows of users
    Products,       \* rows of products, each with its row of inventory
    LastDay,        \* the days a run goes through are 1..LastDay
    MaxQuantity,    \* the largest quantity of a cart row (99 in the code)
    InitialStock,   \* inventory.stock when the run begins
    Total           \* the total in yen that cart.List adds up for some rows

Days == 1..LastDay
Lines == [Products -> 0..MaxQuantity]
NoLines == [p \in Products |-> 0]

\* The products that have a row.
Bought(lines) == {p \in Products : lines[p] > 0}

\* A row of the daily summary once an order of these lines is added to it.
PlusOrder(row, lines) == [orders |-> row.orders + 1, amount |-> row.amount + Total[lines]]

ASSUME ShopAssumption ==
    /\ IsFiniteSet(Products)
    /\ LastDay \in Nat \ {0}
    /\ MaxQuantity \in Nat \ {0}
    /\ InitialStock \in [Products -> Nat]
    /\ Total \in [Lines -> Nat]
=============================================================================
