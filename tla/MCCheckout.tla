----------------------------- MODULE MCCheckout -----------------------------
(* A small shop for TLC: request r1 is one of user u1, r2 of u2, r3 of u3. *)
EXTENDS Checkout

CONSTANTS u1, u2, u3, p1, p2, p3, r1, r2, r3

MCUserOf == [r \in Requests |-> CASE r = r1 -> u1 [] r = r2 -> u2 [] OTHER -> u3]

\* One user only.
MCOneUser == [r \in Requests |-> u1]

MCStock == [p \in Products |-> IF p = p1 THEN 2 ELSE 1]

\* cart.List: the sum of quantity times unit price, with distinct prices.
MCTotal == [rows \in Lines |->
    MapThenSumSet(LAMBDA p : rows[p] * (CASE p = p1 -> 3 [] p = p2 -> 10 [] OTHER -> 20),
                  Products)]

\* u1 and u2 only ever ask for p1 and p2, and u3 for p3; all do before the run, but
\* u1 for p1, who may do so at any moment of it.
MCAsks ==
    /\ \A u \in Users, p \in Products : asked[u][p] > 0 => (u = u3 <=> p = p3)
    /\ asked[u1][p2] > 0
    /\ \A p \in {p1, p2} : asked[u2][p] > 0
    /\ asked[u3][p3] > 0
=============================================================================
