------------------------------ MODULE Checkout ------------------------------
(***************************************************************************)
(* order.Repository.CreateOrder running in several HTTP requests at once,  *)
(* with the cart statements of the same users between its statements.      *)
(*                                                                         *)
(* Each SQL statement is one action.  A row another transaction may also   *)
(* write (inventory, the cart rows of a user, a day of the summary) is     *)
(* kept the way InnoDB keeps it: the committed version, which plain reads  *)
(* see; the latest version, which the holder of the row lock has written;  *)
(* and that holder.  Rows a transaction inserts and nobody else can see    *)
(* wait in newOrders and newEvents.  The AUTO_INCREMENT id of an order is  *)
(* only ever used to tell orders apart, so the request that inserted it    *)
(* stands for it.                                                          *)
(***************************************************************************)
EXTENDS Shop, Sequences, SequencesExt

CONSTANTS
    Requests,   \* the POST /orders requests of a run, each runs once
    UserOf,     \* the user whose session a request carries
    Overlap,    \* may one user have two of them in flight at a time?
    MaxAsked,   \* bound: units of one product a user ever asks for
    None        \* no request

ASSUME CheckoutAssumption ==
    /\ IsFiniteSet(Requests)
    /\ UserOf \in [Requests -> Users]
    /\ Overlap \in BOOLEAN
    /\ MaxAsked \in Nat
    /\ None \notin Requests

VARIABLES
    carts, stock, orders, events, sales,    \* committed rows, as OrderLedger's
    latest, stockLock,          \* inventory: latest version, lock holder
    cartLock,                   \* cart rows of a user: who has deleted them
    salesLatest, salesLock,     \* summary of a day: latest version, lock holder
    gaps,                       \* days without a row that a request keeps others
                                \* from inserting
    newOrders, newEvents,       \* rows inserted by open transactions
    pc, lines, queue, day,      \* per request: next statement, rows and their
                                \* order as read by cart.List, the date of now
    today,                      \* the date the clock shows
    asked                       \* history: units a user has asked for so far

committed == <<carts, stock, orders, events, sales>>
locks     == <<latest, stockLock, cartLock, salesLatest, salesLock, gaps>>
inserts   == <<newOrders, newEvents>>
locals    == <<lines, queue, day>>
vars      == <<committed, locks, inserts, pc, locals, today, asked>>

Ledger == INSTANCE OrderLedger WITH OrderIds <- Requests

Open  == {"reserve", "clear", "event", "summary", "commit"}  \* inside the transaction
Ended == {"confirmed", "empty", "refused", "failed"}         \* answered

NoSales == [d \in Days |-> [orders |-> 0, amount |-> 0]]

\* Carts are as any earlier shopping left them.
Init ==
    /\ carts \in [Users -> Lines]
    /\ stock = InitialStock
    /\ orders = {}
    /\ events = {}
    /\ sales = NoSales
    /\ latest = InitialStock
    /\ stockLock = [p \in Products |-> None]
    /\ cartLock = [u \in Users |-> None]
    /\ salesLatest = NoSales
    /\ salesLock = [d \in Days |-> None]
    /\ gaps = [r \in Requests |-> {}]
    /\ newOrders = {}
    /\ newEvents = {}
    /\ pc = [r \in Requests |-> "start"]
    /\ lines = [r \in Requests |-> NoLines]
    /\ queue = [r \in Requests |-> <<>>]
    /\ day = [r \in Requests |-> 1]
    /\ today = 1
    /\ asked = carts

-----------------------------------------------------------------------------
(* Row locks.  The row of a day is there from the first order of the day   *)
(* on.  Until then the upsert inserts it, which those have to allow who    *)
(* have locked the gap it goes into.                                       *)

\* The requests that the next statement of r has to wait for.
WaitsFor(r) ==
    CASE pc[r] = "reserve" -> {stockLock[Head(queue[r])]} \ {None, r}
      [] pc[r] = "clear"   -> {cartLock[UserOf[r]]} \ {None, r}
      [] pc[r] = "summary" ->
            ({salesLock[day[r]]} \cup {x \in Requests : day[r] \in gaps[x]}) \ {None, r}
      [] OTHER -> {}

Blocked(r) == WaitsFor(r) # {}

\* Requests each of which waits for another of them, in a circle or in several.
WaitCycle(S) ==
    /\ S # {}
    /\ \A r \in S : WaitsFor(r) \cap S # {}
    /\ \E next \in [S -> S] :
        /\ \A r \in S : next[r] \in WaitsFor(r)
        /\ {next[r] : r \in S} = S

\* The days without a row around d, up to the rows of other days.
GapAt(d) ==
    {e \in Days : \A x \in (d..e) \cup (e..d) : x # d => salesLatest[x].orders = 0}

\* The row that r has inserted for the first order of its day goes with r.
\* Those who wait for it are given its gap instead, all of them at once, and
\* then insert; who locks a part of the gap locks all of it.
GiveGapAway(r) ==
    IF salesLock[day[r]] = r /\ sales[day[r]].orders = 0
    THEN \E waiting \in SUBSET {x \in Requests \ {r} : pc[x] = "summary" /\ day[x] = day[r]} :
            gaps' = [x \in Requests |->
                CASE x = r -> {}
                  [] x # r /\ (x \in waiting \/ gaps[x] \cap GapAt(day[r]) # {}) ->
                        gaps[x] \cup GapAt(day[r])
                  [] OTHER -> gaps[x]]
    ELSE gaps' = [gaps EXCEPT ![r] = {}]

\* Mistake: the deferred rollback is missing, so the transaction stays open.
RollbackForgotten(r, reply) ==
    /\ pc' = [pc EXCEPT ![r] = reply]
    /\ UNCHANGED <<committed, locks, inserts, locals, today, asked>>

\* ROLLBACK: the rows r wrote are again as committed, unlocked, and the rows
\* it inserted are gone.  Who has already asked for the row of the day, of those
\* whose next statement is the upsert, is left open.
Rollback(r, reply) ==
    /\ latest' = [p \in Products |-> IF stockLock[p] = r THEN stock[p] ELSE latest[p]]
    /\ stockLock' = [p \in Products |-> IF stockLock[p] = r THEN None ELSE stockLock[p]]
    /\ cartLock' = [u \in Users |-> IF cartLock[u] = r THEN None ELSE cartLock[u]]
    /\ salesLatest' = [d \in Days |-> IF salesLock[d] = r THEN sales[d] ELSE salesLatest[d]]
    /\ salesLock' = [d \in Days |-> IF salesLock[d] = r THEN None ELSE salesLock[d]]
    /\ GiveGapAway(r)
    /\ newOrders' = {o \in newOrders : o.id # r}
    /\ newEvents' = newEvents \ {r}
    /\ pc' = [pc EXCEPT ![r] = reply]
    /\ UNCHANGED <<committed, locals, today, asked>>

-----------------------------------------------------------------------------
(* CreateOrder, statement by statement. *)

\* May r begin?  Without Overlap no user has two orders in flight.
MayStart(r) ==
    /\ pc[r] = "start"
    /\ \/ Overlap
       \/ \A x \in Requests \ {r} :
            UserOf[x] = UserOf[r] => pc[x] \in Ended \cup {"start"}

\* cart.List, an autocommit read of the Primary before BeginTx.  The rows come
\* most recently changed first; a cart can have been changed in any order.
ListCart(r) ==
    /\ MayStart(r)
    /\ carts[UserOf[r]] # NoLines
    /\ lines' = [lines EXCEPT ![r] = carts[UserOf[r]]]
    /\ \E s \in SetToSeqs(Bought(carts[UserOf[r]])) : queue' = [queue EXCEPT ![r] = s]
    /\ pc' = [pc EXCEPT ![r] = "listed"]
    /\ UNCHANGED <<committed, locks, inserts, day, today, asked>>

\* ErrEmptyCart.
ListEmpty(r) ==
    /\ MayStart(r)
    /\ carts[UserOf[r]] = NoLines
    /\ pc' = [pc EXCEPT ![r] = "empty"]
    /\ UNCHANGED <<committed, locks, inserts, locals, today, asked>>

\* Mistake: the order is inserted on the pool instead of the transaction.
InsertOrderAutocommit(r) ==
    /\ pc[r] = "listed"
    /\ day' = [day EXCEPT ![r] = today]
    /\ orders' = orders \cup
            {[id |-> r, user |-> UserOf[r], day |-> today, lines |-> lines[r]]}
    /\ pc' = [pc EXCEPT ![r] = "reserve"]
    /\ UNCHANGED <<carts, stock, events, sales, locks, inserts, lines, queue, today, asked>>

\* BeginTx, the one reading of the clock, INSERT INTO orders and order_items.
InsertOrder(r) ==
    /\ pc[r] = "listed"
    /\ day' = [day EXCEPT ![r] = today]
    /\ newOrders' = newOrders \cup
            {[id |-> r, user |-> UserOf[r], day |-> today, lines |-> lines[r]]}
    /\ pc' = [pc EXCEPT ![r] = "reserve"]
    /\ UNCHANGED <<committed, locks, newEvents, lines, queue, today, asked>>

\* Mistake: UPDATE without AND stock >= qty.
ReserveUnchecked(r) ==
    LET p == Head(queue[r]) IN
    /\ pc[r] = "reserve"
    /\ ~Blocked(r)
    /\ latest' = [latest EXCEPT ![p] = @ - lines[r][p]]
    /\ stockLock' = [stockLock EXCEPT ![p] = r]
    /\ queue' = [queue EXCEPT ![r] = Tail(@)]
    /\ pc' = [pc EXCEPT ![r] = IF Tail(queue[r]) = <<>> THEN "clear" ELSE "reserve"]
    /\ UNCHANGED <<committed, cartLock, salesLatest, salesLock, gaps, inserts, lines, day, today, asked>>

\* Mistake: a plain SELECT of the stock, then an UPDATE to what was computed.
ReserveFromSnapshot(r) ==
    LET p == Head(queue[r]) IN
    /\ pc[r] = "reserve"
    /\ stock[p] >= lines[r][p]
    /\ latest' = [latest EXCEPT ![p] = stock[p] - lines[r][p]]
    /\ stockLock' = [stockLock EXCEPT ![p] = r]
    /\ queue' = [queue EXCEPT ![r] = Tail(@)]
    /\ pc' = [pc EXCEPT ![r] = IF Tail(queue[r]) = <<>> THEN "clear" ELSE "reserve"]
    /\ UNCHANGED <<committed, cartLock, salesLatest, salesLock, gaps, inserts, lines, day, today, asked>>

\* inventory.Reserve for the next row: UPDATE ... WHERE stock >= qty sees the
\* latest version, once it has the row lock.
Reserve(r) ==
    LET p == Head(queue[r]) IN
    /\ pc[r] = "reserve"
    /\ ~Blocked(r)
    /\ latest[p] >= lines[r][p]
    /\ latest' = [latest EXCEPT ![p] = @ - lines[r][p]]
    /\ stockLock' = [stockLock EXCEPT ![p] = r]
    /\ queue' = [queue EXCEPT ![r] = Tail(@)]
    /\ pc' = [pc EXCEPT ![r] = IF Tail(queue[r]) = <<>> THEN "clear" ELSE "reserve"]
    /\ UNCHANGED <<committed, cartLock, salesLatest, salesLock, gaps, inserts, lines, day, today, asked>>

\* Mistake: READ UNCOMMITTED, the shortage is read off another's reservation.
RefuseStockDirty(r) ==
    /\ pc[r] = "reserve"
    /\ latest[Head(queue[r])] < lines[r][Head(queue[r])]
    /\ Rollback(r, "refused")

\* The same statement changed no row: ErrInsufficientStock.
RefuseStock(r) ==
    /\ pc[r] = "reserve"
    /\ ~Blocked(r)
    /\ latest[Head(queue[r])] < lines[r][Head(queue[r])]
    /\ Rollback(r, "refused")

\* Mistake: the cart is cleared on the pool instead of the transaction.
ClearAutocommit(r) ==
    /\ pc[r] = "clear"
    /\ ~Blocked(r)
    /\ carts' = [carts EXCEPT ![UserOf[r]] = NoLines]
    /\ pc' = [pc EXCEPT ![r] = "event"]
    /\ UNCHANGED <<stock, orders, events, sales, locks, inserts, locals, today, asked>>

\* Mistake: the cart is left to the browser to clear.
ClearForgotten(r) ==
    /\ pc[r] = "clear"
    /\ pc' = [pc EXCEPT ![r] = "event"]
    /\ UNCHANGED <<committed, locks, inserts, locals, today, asked>>

\* cart.Clear: DELETE of every row of the user, whatever List has seen.
Clear(r) ==
    /\ pc[r] = "clear"
    /\ ~Blocked(r)
    /\ cartLock' = [cartLock EXCEPT ![UserOf[r]] = r]
    /\ pc' = [pc EXCEPT ![r] = "event"]
    /\ UNCHANGED <<committed, latest, stockLock, salesLatest, salesLock, gaps, inserts, locals, today, asked>>

\* Mistake: the event is inserted on the pool instead of the transaction.
InsertEventAutocommit(r) ==
    /\ pc[r] = "event"
    /\ events' = events \cup {r}
    /\ pc' = [pc EXCEPT ![r] = "summary"]
    /\ UNCHANGED <<carts, stock, orders, sales, locks, inserts, locals, today, asked>>

\* Mistake: no event is inserted.
InsertEventForgotten(r) ==
    /\ pc[r] = "event"
    /\ pc' = [pc EXCEPT ![r] = "summary"]
    /\ UNCHANGED <<committed, locks, inserts, locals, today, asked>>

\* outbox.Insert of order_confirmed in the same transaction.  It may wait for an open
\* tick of a worker, which no property of this module sees: Fulfilment.NewEventsWait.
InsertEvent(r) ==
    /\ pc[r] = "event"
    /\ newEvents' = newEvents \cup {r}
    /\ pc' = [pc EXCEPT ![r] = "summary"]
    /\ UNCHANGED <<committed, locks, newOrders, locals, today, asked>>

\* Mistake: the sums are read first and written back with the order added.
UpsertSummaryFromSnapshot(r) ==
    /\ pc[r] = "summary"
    /\ salesLatest' = [salesLatest EXCEPT ![day[r]] = PlusOrder(sales[day[r]], lines[r])]
    /\ salesLock' = [salesLock EXCEPT ![day[r]] = r]
    /\ pc' = [pc EXCEPT ![r] = "commit"]
    /\ UNCHANGED <<committed, latest, stockLock, cartLock, gaps, inserts, locals, today, asked>>

\* Mistake: the clock is read again, so the order may count for another day.
UpsertSummaryToday(r) ==
    /\ pc[r] = "summary"
    /\ salesLock[today] \in {None, r}
    /\ salesLatest' = [salesLatest EXCEPT ![today] = PlusOrder(@, lines[r])]
    /\ salesLock' = [salesLock EXCEPT ![today] = r]
    /\ pc' = [pc EXCEPT ![r] = "commit"]
    /\ UNCHANGED <<committed, latest, stockLock, cartLock, gaps, inserts, locals, today, asked>>

\* Mistake: what came into the cart after List is reserved too, at the end.
UpsertSummaryReservesRest(r) ==
    LET rest == [p \in Products |-> IF lines[r][p] > 0 THEN 0 ELSE carts[UserOf[r]][p]] IN
    /\ pc[r] = "summary"
    /\ ~Blocked(r)
    /\ salesLatest' = [salesLatest EXCEPT ![day[r]] = PlusOrder(@, lines[r])]
    /\ salesLock' = [salesLock EXCEPT ![day[r]] = r]
    /\ lines' = [lines EXCEPT ![r] = [p \in Products |-> @[p] + rest[p]]]
    /\ \E s \in SetToSeqs(Bought(rest)) : queue' = [queue EXCEPT ![r] = s]
    /\ pc' = [pc EXCEPT ![r] = IF Bought(rest) = {} THEN "commit" ELSE "reserve"]
    /\ UNCHANGED <<committed, latest, stockLock, cartLock, gaps, inserts, day, today, asked>>

\* upsertDailySummary for the date of now: an INSERT that finds the row, or has
\* been waiting for it, adds to its latest version; the first one of a day
\* waits for the gap.
UpsertSummary(r) ==
    /\ pc[r] = "summary"
    /\ ~Blocked(r)
    /\ salesLatest' = [salesLatest EXCEPT ![day[r]] = PlusOrder(@, lines[r])]
    /\ salesLock' = [salesLock EXCEPT ![day[r]] = r]
    /\ pc' = [pc EXCEPT ![r] = "commit"]
    /\ UNCHANGED <<committed, latest, stockLock, cartLock, gaps, inserts, locals, today, asked>>

\* COMMIT: what r wrote and inserted becomes the committed version.  The answer
\* may get lost on its way back: CreateOrder then reports an error.
Commit(r) ==
    /\ pc[r] = "commit"
    /\ stock' = [p \in Products |-> IF stockLock[p] = r THEN latest[p] ELSE stock[p]]
    /\ stockLock' = [p \in Products |-> IF stockLock[p] = r THEN None ELSE stockLock[p]]
    /\ carts' = [u \in Users |-> IF cartLock[u] = r THEN NoLines ELSE carts[u]]
    /\ cartLock' = [u \in Users |-> IF cartLock[u] = r THEN None ELSE cartLock[u]]
    /\ sales' = [d \in Days |-> IF salesLock[d] = r THEN salesLatest[d] ELSE sales[d]]
    /\ salesLock' = [d \in Days |-> IF salesLock[d] = r THEN None ELSE salesLock[d]]
    /\ gaps' = [gaps EXCEPT ![r] = {}]
    /\ orders' = orders \cup {o \in newOrders : o.id = r}
    /\ newOrders' = {o \in newOrders : o.id # r}
    /\ events' = events \cup (newEvents \cap {r})
    /\ newEvents' = newEvents \ {r}
    /\ \E reply \in {"confirmed", "failed"} : pc' = [pc EXCEPT ![r] = reply]
    /\ UNCHANGED <<latest, salesLatest, locals, today, asked>>

\* A statement fails, the lock wait times out, the client goes away (ctx is
\* cancelled) or the server dies: MySQL undoes the open transaction.
Abort(r) ==
    /\ pc[r] \in Open \cup {"listed"}
    /\ Rollback(r, "failed")

\* InnoDB finds a circle of waiting transactions and rolls one of them back.
DeadlockVictim(r) ==
    /\ \E S \in SUBSET Requests : r \in S /\ WaitCycle(S)
    /\ Rollback(r, "failed")

-----------------------------------------------------------------------------
(* The cart handlers: one autocommit statement each, which waits while an  *)
(* open transaction has deleted the user's rows.  Quantities outside       *)
(* 1..MaxQuantity are turned away before the statement.                    *)

SetRow(u, p, q) == carts' = [carts EXCEPT ![u][p] = q]

Ask(u, p, q) ==
    /\ asked[u][p] + q <= MaxAsked
    /\ asked' = [asked EXCEPT ![u][p] = @ + q]

CartRest == UNCHANGED <<stock, orders, events, sales, locks, inserts, pc, locals, today>>

\* cart.Add: INSERT ... ON DUPLICATE KEY UPDATE quantity = LEAST(99, ...).
AddRow(u, p, q) ==
    /\ cartLock[u] = None
    /\ SetRow(u, p, IF carts[u][p] + q > MaxQuantity THEN MaxQuantity ELSE carts[u][p] + q)
    /\ Ask(u, p, q)
    /\ CartRest

\* cart.Update of a row that exists (otherwise sql.ErrNoRows, and no change).
UpdateRow(u, p, q) ==
    /\ cartLock[u] = None
    /\ carts[u][p] > 0
    /\ SetRow(u, p, q)
    /\ Ask(u, p, IF q > carts[u][p] THEN q - carts[u][p] ELSE 0)
    /\ CartRest

\* cart.Remove.
RemoveRow(u, p) ==
    /\ cartLock[u] = None
    /\ carts[u][p] > 0
    /\ SetRow(u, p, 0)
    /\ Ask(u, p, 0)
    /\ CartRest

\* Midnight (UTC).
NextDay ==
    /\ today < LastDay
    /\ today' = today + 1
    /\ UNCHANGED <<committed, locks, inserts, pc, locals, asked>>

-----------------------------------------------------------------------------
\* The database executes the next statement of a request in the transaction.
Statement(r) ==
    \/ InsertOrder(r) \/ Reserve(r) \/ RefuseStock(r) \/ Clear(r)
    \/ InsertEvent(r) \/ UpsertSummary(r) \/ Commit(r)

CartStatement(u, p) ==
    \/ \E q \in 1..MaxQuantity : AddRow(u, p, q) \/ UpdateRow(u, p, q)
    \/ RemoveRow(u, p)

Next ==
    \/ \E r \in Requests :
        \/ ListCart(r) \/ ListEmpty(r)
        \/ Statement(r)
        \/ Abort(r) \/ DeadlockVictim(r)
    \/ \E u \in Users, p \in Products : CartStatement(u, p)
    \/ NextDay

Spec == Init /\ [][Next]_vars

\* A goroutine that can run its next statement does, and InnoDB's deadlock
\* detector is on.  Nothing makes users, aborts or the clock move.
Fairness == \A r \in Requests : WF_vars(Statement(r)) /\ WF_vars(DeadlockVictim(r))

FairSpec == Spec /\ Fairness
-----------------------------------------------------------------------------
(* Properties. *)

Order == [id : Requests, user : Users, day : Days, lines : Lines]
Summary == [Days -> [orders : Nat, amount : Nat]]

\* Every table, lock and local variable holds what its columns and types
\* allow; no stock, committed or latest, is ever negative.
TypeOK ==
    /\ carts \in [Users -> Lines]
    /\ stock \in [Products -> Nat]
    /\ orders \subseteq Order
    /\ events \subseteq Requests
    /\ sales \in Summary
    /\ latest \in [Products -> Nat]
    /\ stockLock \in [Products -> Requests \cup {None}]
    /\ cartLock \in [Users -> Requests \cup {None}]
    /\ salesLatest \in Summary
    /\ salesLock \in [Days -> Requests \cup {None}]
    /\ gaps \in [Requests -> SUBSET Days]
    /\ newOrders \subseteq Order
    /\ newEvents \subseteq Requests
    /\ pc \in [Requests -> {"start", "listed"} \cup Open \cup Ended]
    /\ lines \in [Requests -> Lines]
    /\ queue \in [Requests -> Seq(Products)]
    /\ day \in [Requests -> Days]
    /\ today \in Days
    /\ asked \in [Users -> [Products -> Nat]]

\* What a request has yet to reserve, while it reserves: rows of its order, each
\* once; nothing when it has read the cart's rows and not begun, nothing after.
ToReserve(r) == {queue[r][i] : i \in DOMAIN queue[r]}

QueueFollowsLines ==
    \A r \in Requests :
        /\ pc[r] \in {"listed", "reserve"} =>
            /\ queue[r] # <<>>
            /\ \A i, j \in DOMAIN queue[r] : queue[r][i] = queue[r][j] => i = j
        /\ pc[r] = "listed" => ToReserve(r) = Bought(lines[r])
        /\ pc[r] \in Open => ToReserve(r) \subseteq Bought(lines[r])
        /\ pc[r] \in Open \ {"reserve"} => queue[r] = <<>>
        /\ pc[r] \in Open \cup {"listed"} => Bought(lines[r]) # {}

\* Inventory rows: a request holds those it has reserved, has taken what it
\* orders off the committed stock, and a row nobody holds is as committed.
Reserved(r, p) ==
    /\ pc[r] \in Open
    /\ p \in Bought(lines[r])
    /\ p \notin ToReserve(r)

StockRowsIsolated ==
    \A p \in Products :
        /\ stockLock[p] = None => latest[p] = stock[p]
        /\ \A r \in Requests :
            /\ stockLock[p] = r <=> Reserved(r, p)
            /\ stockLock[p] = r => latest[p] = stock[p] - lines[r][p]

\* Cart rows: held from Clear to the end of the transaction.
CartRowsIsolated ==
    \A u \in Users, r \in Requests :
        cartLock[u] = r <=> u = UserOf[r] /\ pc[r] \in {"event", "summary", "commit"}

\* Summary rows: held from the upsert to the end of the transaction.
SalesRowsIsolated ==
    \A d \in Days :
        /\ salesLock[d] = None => salesLatest[d] = sales[d]
        /\ \A r \in Requests :
            /\ salesLock[d] = r <=> d = day[r] /\ pc[r] = "commit"
            /\ salesLock[d] = r => salesLatest[d] = PlusOrder(sales[d], lines[r])

\* Gaps: kept by requests that have waited for the row of their day, over days
\* that have no row but the one the request has inserted itself since.
GapsIsolated ==
    \A r \in Requests :
        /\ gaps[r] # {} => pc[r] \in {"summary", "commit"} /\ day[r] \in gaps[r]
        /\ \A d \in gaps[r] : salesLatest[d].orders > 0 => salesLock[d] = r

\* Inserted rows: the order and the event of each open transaction, no other;
\* a request whose order is committed has been answered.
OrderOf(r) == [id |-> r, user |-> UserOf[r], day |-> day[r], lines |-> lines[r]]

InsertsIsolated ==
    /\ newOrders = {OrderOf(r) : r \in {x \in Requests : pc[x] \in Open}}
    /\ newEvents = {r \in Requests : pc[r] \in {"summary", "commit"}}
    /\ \A o \in orders : pc[o.id] \in {"confirmed", "failed"}

\* What open transactions write and what is committed hang together: every
\* row lock is held by the one request that wrote the row, and everything a
\* transaction has written so far waits for its own commit or rollback.
TransactionsIsolated ==
    /\ QueueFollowsLines
    /\ StockRowsIsolated
    /\ CartRowsIsolated
    /\ SalesRowsIsolated
    /\ GapsIsolated
    /\ InsertsIsolated

\* Units of product p in a set of orders, and what the orders come to in yen.
Sold(p, placed) == SumFunctionOnSet([o \in placed |-> o.lines[p]], placed)
Amount(placed) == SumFunctionOnSet([o \in placed |-> Total[o.lines]], placed)

\* Stock is neither lost nor invented, however the transactions of orders for
\* the same products interleave, fail or are rolled back: what is left and
\* what the committed orders have taken add up to what there was.
StockAccounted ==
    \A p \in Products : stock[p] + Sold(p, orders) = InitialStock[p]

\* The daily summary, which the admin report reads instead of the orders, is
\* the count and the sum of the orders of each day, also across midnight.
SummaryMatchesOrders ==
    \A d \in Days :
        LET ofDay == {o \in orders : o.day = d} IN
        sales[d] = [orders |-> Cardinality(ofDay), amount |-> Amount(ofDay)]

\* An order_confirmed event is there if and only if its order is: the worker
\* never announces an order that was rolled back, and never misses one.
EventForEachOrder == events = {o.id : o \in orders}

\* A user is never sold more units than they asked for, retries after an error
\* or a lost answer included, provided one user's orders do not overlap.
SoldAtMostAsked ==
    \A u \in Users, p \in Products :
        carts[u][p] + Sold(p, {o \in orders : o.user = u}) <= asked[u][p]

\* Transactions wait in a circle in two places only.  Inventory rows, which each
\* locks in the order of its cart; and the summary of a day that has no row,
\* when the order that was to be the first of the day was rolled back and
\* several had waited for its row.  Cart rows, and the row of a day that
\* is there, never close a circle.
DeadlocksOnStockOrNewDay ==
    \A S \in SUBSET Requests :
        WaitCycle(S) =>
            \A r \in S :
                \/ pc[r] = "reserve"
                \/ /\ pc[r] = "summary"
                   /\ day[r] \in gaps[r]
                   /\ salesLatest[day[r]].orders = 0

\* ErrInsufficientStock is never answered because of stock that another order
\* has reserved and may still give back: the committed stock is too small too.
RefusedOnCommittedStock ==
    [][\A r \in Requests :
        pc[r] # "refused" /\ pc'[r] = "refused" =>
            \E p \in Products : stock[p] < lines[r][p]]_vars

\* An order, its items, the stock it takes, the emptied cart, its event and its
\* share of the summary become visible in one step, or none of them does.
OrdersAreAtomic == Ledger!Spec

\* A checkout that has read its cart is always answered in the end: no waiting
\* for row locks, and no circle of waiting, lasts for ever.
CheckoutsEnd == \A r \in Requests : pc[r] = "listed" ~> pc[r] \in Ended
=============================================================================
