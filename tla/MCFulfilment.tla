---------------------------- MODULE MCFulfilment ----------------------------
(* A user who sends the order form twice, and a worker, for TLC. *)
EXTENDS Fulfilment

CONSTANTS u1, p1, p2, w1

MCUserOf == [r \in Requests |-> u1]

MCStock == [p \in Products |-> IF p = p1 THEN 2 ELSE 1]

\* cart.List: the sum of quantity times unit price, with distinct prices.
MCTotal == [rows \in Lines |->
    MapThenSumSet(LAMBDA p : rows[p] * (IF p = p1 THEN 3 ELSE 10), Products)]
=============================================================================
