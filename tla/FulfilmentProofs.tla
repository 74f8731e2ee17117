-------------------------- MODULE FulfilmentProofs --------------------------
(***************************************************************************)
(* Checkouts and workers together keep what each of them guarantees alone, *)
(* and from both follows that only orders are announced that are there.    *)
(***************************************************************************)
EXTENDS Fulfilment, CheckoutProofs

\* The workers are invisible to the shop.
THEOREM ShopUndisturbed == FSpec => Spec
<1>1. FInit => Init
  BY DEF FInit
<1>2. [FNext]_allVars => [Next]_vars
  BY DEF FNext, Shopping, Announcing, allVars
<1> QED BY <1>1, <1>2, PTL DEF FSpec, Spec

\* The stock and the summary add up whatever the workers do meanwhile.
THEOREM BooksUndisturbed == FSpec => [](StockAccounted /\ SummaryMatchesOrders)
BY ShopUndisturbed, StockAddsUp, SummaryAddsUp, PTL

\* To the workers, checkouts only publish events.
THEOREM OutboxUndisturbed == FSpec => Outbox!Spec
<1>1. FInit => Outbox!Init
  BY DEF FInit
<1>2. [FNext]_allVars => [Outbox!Next]_(Outbox!vars)
  <2> SUFFICES ASSUME [FNext]_allVars PROVE [Outbox!Next]_(Outbox!vars)
    OBVIOUS
  <2>1. CASE Shopping
    BY <2>1 DEF Shopping, outboxVars, Outbox!vars, Outbox!Next
  <2>2. CASE Announcing
    BY <2>2 DEF Announcing, Outbox!Next
  <2>3. CASE UNCHANGED allVars
    BY <2>3 DEF allVars, outboxVars, Outbox!vars
  <2> QED BY <2>1, <2>2, <2>3 DEF FNext
<1> QED BY <1>1, <1>2, PTL DEF FSpec, Outbox!Spec

\* What the workers find is what checkouts have committed, and what they have
\* in hand or have handed over was there.
FInv ==
    /\ events = pending \cup processed
    /\ todo \in [Workers -> SUBSET events]
    /\ marked \in [Workers -> SUBSET events]
    /\ handled \in [Requests -> Nat]
    /\ \A e \in Requests : handled[e] > 0 => e \in events

LEMMA FInvInit == FInit => FInv
BY DEF FInit, Init, Outbox!Init, FInv

LEMMA ShoppingFInv == FInv /\ Shopping => FInv'
<1> SUFFICES ASSUME FInv, Shopping PROVE FInv'
  OBVIOUS
<1>1. CASE events' = events /\ UNCHANGED outboxVars
  BY <1>1 DEF FInv, outboxVars
<1>2. ASSUME NEW e \in Requests, events' = events \cup {e}, Outbox!Publish(e)
      PROVE  FInv'
  BY <1>2 DEF FInv, Outbox!Publish
<1> QED BY <1>1, <1>2 DEF Shopping

LEMMA AnnouncingFInv == FInv /\ Announcing => FInv'
<1> SUFFICES ASSUME FInv, NEW w \in Workers, UNCHANGED vars,
                    Outbox!Step(w) \/ Outbox!RollBack(w)
             PROVE  FInv'
  BY DEF Announcing
<1>e. events' = events
  BY DEF vars, committed
<1>1. CASE Outbox!Fetch(w)
  <2>1. Outbox!First(Batch, Outbox!Free) \subseteq events
    BY DEF Outbox!First, Outbox!Free, FInv
  <2> QED BY <1>1, <2>1, <1>e DEF Outbox!Fetch, FInv
<1>2. ASSUME NEW e \in Requests, Outbox!Handle(w, e) PROVE FInv'
  <2>1. e \in events
    BY <1>2 DEF Outbox!Handle, Outbox!AtHead, FInv
  <2>2. handled' = [handled EXCEPT ![e] = @ + 1]
    BY <1>2 DEF Outbox!Handle
  <2>3. handled' \in [Requests -> Nat]
    BY <2>2 DEF FInv
  <2>4. \A x \in Requests : handled'[x] > 0 => x \in events
    BY <2>1, <2>2 DEF FInv
  <2> QED BY <1>2, <2>3, <2>4, <1>e DEF Outbox!Handle, FInv
<1>3. ASSUME NEW e \in Requests, Outbox!HandlerFails(w, e) PROVE FInv'
  BY <1>3, <1>e DEF Outbox!HandlerFails, Outbox!Proceed, FInv
<1>4. ASSUME NEW e \in Requests, Outbox!Mark(w, e) PROVE FInv'
  <2>1. e \in events
    BY <1>4 DEF Outbox!Mark, Outbox!AtHead, FInv
  <2> QED BY <1>4, <2>1, <1>e DEF Outbox!Mark, Outbox!Proceed, FInv
<1>5. CASE Outbox!Commit(w)
  <2>1. marked[w] \subseteq events
    BY DEF FInv
  <2> QED BY <1>5, <2>1, <1>e DEF Outbox!Commit, Outbox!EndTick, FInv
<1>6. CASE Outbox!RollBack(w)
  BY <1>6, <1>e DEF Outbox!RollBack, Outbox!EndTick, FInv
<1> QED BY <1>1, <1>2, <1>3, <1>4, <1>5, <1>6 DEF Outbox!Step

\* No order is announced that is not there, for any number of shoppers and
\* workers, rolled back transactions and ticks included.
THEOREM AnnouncementsTrue == FSpec => []AnnouncedWereOrdered
<1>1. FInv /\ [FNext]_allVars => FInv'
  <2>1. FInv /\ UNCHANGED allVars => FInv'
    BY DEF allVars, vars, committed, outboxVars, FInv
  <2> QED BY <2>1, ShoppingFInv, AnnouncingFInv DEF FNext
<1>2. FSpec => []FInv
  BY <1>1, FInvInit, PTL DEF FSpec
<1>3. FInv /\ EventForEachOrder => AnnouncedWereOrdered
  BY DEF FInv, EventForEachOrder, AnnouncedWereOrdered
<1> QED BY <1>2, <1>3, ShopUndisturbed, OutboxMatchesOrders, PTL
=============================================================================
