# Primary guard EC: a verification of the shop's database discipline

The program is a small shop in Go on MySQL with a Primary and one Replica. Its point is how it
protects the Primary: writes go to the Primary in one transaction per order, reads go to the
Replica unless the user has just written or the Replica is sick, events leave through an outbox,
reports read a summary table, and features are switched off while the Replica is down. The
modules here model that discipline: what interleaved transactions, lagging replication, workers
that crash, a health flag that moves at any moment, a cache under contention and several browser
tabs can and cannot do.

## The system

| Part | State | Operations | Talks to |
|---|---|---|---|
| order (`internal/order`, `order_handler.go`) | orders, order_items, daily_sales_summary | CreateOrder, FindOrder, History | cart, inventory and outbox inside one transaction; router for reads |
| cart (`internal/cart`, `cart_handler.go`) | cart_items | Add, Update, Remove, List, Clear | Primary only |
| inventory (`internal/inventory`) | inventory.stock | Reserve, in the order's transaction | |
| outbox (`internal/outbox`, `cmd/worker`) | outbox_events | Insert, Pending, MarkProcessed, tick, Run | Primary; a handler |
| dbx (`internal/dbx`) | the flag `ReplicaState.down`, `consecutiveNG` | Reader, Writer, WithReadAfterWrite; evaluate, checkLag, Run | every repository; the health goroutine writes the flag |
| degrade (`internal/degrade`) | none: reads the flag | Active, ReportEnabled, SuggestEnabled | handlers |
| catalog, report | products and categories (read only), the category cache | ListProducts, FindProduct, Suggest, ListCategories, Get; Monthly | Reader |
| auth and transport | sessions, the cookies `pgec_sid` and `pgec_csrf` in the browser | login, register, logout, LoadSessionMiddleware, RequireUser, RequireAdmin, CSRFProtect | Primary; the pages of every handler |
| user | users | Register, Authenticate, IsAdmin | Primary; IsAdmin through Reader |
| migrate (`internal/migrate`, `cmd/server`, `make migrate`) | schema_migrations, the schema itself | Apply | every start of a server, before it serves |
| config, cmd/seed, render, static, obs | none | start-up and formatting | |

What is hard: SQL statements of concurrent orders interleave, wait for row locks and deadlock;
a COMMIT may succeed and its answer be lost; the cart changes between being read and being
cleared; a worker dies between a handler's success and the mark; the flag is read several times
per request and may change in between; the two queries of an order page may reach two databases;
the cache judges an entry by a clock reading made before it waited for the lock; two cookies of
different lifetime must carry one token, while tabs send and receive in any order; servers that
start together execute the same scripts on one database, with nothing that serialises them; the
page size changes between two pages of one list. `hazards` in `PROJECT.json` lists these places
line by line.

What makes each part correct, in short: an order is visible whole or not at all and stock is
neither lost nor invented (checkout); no event is lost or handled after its mark is committed,
and one bad event does not hold up the others (outbox); every order is announced, and nothing
that is not an order (fulfilment); the flag says exactly whether the last three checks failed
(health); a user sees a new order, and sees it whole (read path); the pages of the list show
every product once unless the flag moved (paging); an answer is older than what the Replica has by
less than the TTL, and nobody stampedes (cache); a form acts for the user it was shown to, and the forms of a live session work
(sessions); no script is recorded that was not executed whole, and no server serves on half a
schema (migrate).

## Modules

| Module | Models | How it corresponds |
|---|---|---|
| `Shop` | vocabulary of the Primary database | carts and orders are a quantity per product |
| `OrderLedger` | what placing an order promises | abstract: `Place` is one step, `EditCart` another |
| `Checkout` | CreateOrder with cart, inventory, outbox and summary | one action per SQL statement; InnoDB row and gap locks; deadlock detector; implements `OrderLedger` |
| `EventQueue` | what the outbox promises | abstract: a queue that delivers at least once |
| `OutboxWorker` | `Store.Pending`, `MarkProcessed`, `Worker.tick` | one action per statement or handler call; FOR UPDATE SKIP LOCKED as row locks; implements `EventQueue` |
| `Fulfilment` | orders and workers on one database | `Checkout` and `OutboxWorker` side by side; the commit of an order is the `Publish` of its event |
| `ReplicaHealth` | `ReplicaHealth.evaluate`, `checkLag`, `ReplicaState` | asking and judging are two steps; a check may hang |
| `ReadPath` | `DBRouter.Reader`, degrade, `RequireAdmin`, the reading handlers; extends `ReplicaHealth` | a request becomes one of any kind; each look at the flag is one action, the query after it another |
| `Paging` | LIMIT and OFFSET of `ListProducts`, Home's page size and links; extends `ReplicaHealth` | a page is an action, what it shows an operator |
| `CategoryCache` | `CategoryCache.Get` | clock reading, read lock, write lock, fetch from Primary or Replica, store |
| `Sessions` | sessions, both cookies, CSRF middleware, login and logout | the browser sends and receives; load, handle and answer are steps of their own |
| `Migrate` | `migrate.Apply` in several servers, and `make migrate` | one action per statement of a script and per record |
| `MC*` | small instances for TLC | names, totals, symmetry |
| `*Proofs` | theorems about the module they extend | see below |

`ReadPath` and `Paging` compose the health goroutine with what reads its flag. `Fulfilment`
composes `Checkout` and `OutboxWorker` at `outbox_events`: a commit that adds an event is also a
`Publish`, every other step belongs to one of them alone, and an event has the id of the request
whose order it announces.

Definitions named as mistakes (`ReserveUnchecked`, `FreeProcessedToo`, ...) stand next to the
action they are a faulty variant of. No specification uses them. Each property is violated when
one of them takes the place of its action, which shows that the property can fail.

### What is abstracted

- **Rows.** A lockable row has its committed version, its latest version and a lock holder. All
  cart rows of a user, and the gaps between them, are one lock, since Clear deletes by user. The
  shared locks of foreign keys are left out: nobody writes the parent rows while the shop runs.
  The AUTO_INCREMENT id of an order is replaced by the request that inserts it.
- **The summary row.** It is there from the first order of a day on; that order inserts it
  (`order/repository.go:168`), later ones add to it, and both wait for a transaction that has it.
  If the one that inserted it is rolled back, InnoDB at REPEATABLE READ leaves those who wait for
  it with locks on the gap where the row would go, and each then waits for the others to insert
  it. `gaps` says who has such a lock and over which days without a row (`GapAt`: a gap ends at a
  row, so midnight may fall into one), `GiveGapAway` who gets it. Whether a request whose next
  statement is the upsert has already asked for the row is left open.
- **The event.** A tick that has found fewer events than its batch holds has locked the index of
  unprocessed events to its end, and the INSERT of an event waits for that tick
  (`NewEventsWait` in `Fulfilment`). In `Checkout`, which has no worker, it never waits. Two workers
  whose marks wait for each other at the end of that index are among the faults that roll a tick back.
- **Order of the cart.** `List` orders by `updated_at`, so any order of its rows can occur;
  `ListCart` chooses one.
- **Failures of an order's transaction.** A failing statement, a lock wait timeout, a cancelled
  request context and a crash all end in `Abort`. `Commit` may answer with an error although it
  succeeded.
- **Prices.** `Total` is a constant function of the lines; `total_yen` never overflows.
- **Replication** is one ordered stream: the Replica applies whole transactions (an order with its
  items, or an account), so what it has is a prefix of the Primary's. It may apply the next one
  at any time unless it is stopped.
- **Health.** `ng` stops at the threshold, as it is only ever compared with it. The query has no
  timeout of its own, so a Replica may be `hanging`: no check ends and the flag stays as it is.
- **Reading requests.** Pages with one query and no decision (a product, the order history) are
  one kind. Which rows a report or a page shows is left out; an order shows whether its items are
  there, an administrator whether the account is.
- **Paging.** The catalogue does not change, and the reader follows the link to the next page.
  Products are numbered in the order of the list.
- **Migrate.** Statements are numbered; each fails if its effect is already there, as every
  CREATE TABLE, CREATE INDEX and INSERT of the five files does, and each commits by itself.
- **Cache.** The read lock covers two reads of memory and nothing that waits, so it is part of
  the action that takes it. No handler calls `Get` at present; the module shows what it would do.
  `ListCategories` goes through `Reader`, so `Fetch` reads the Primary or the Replica, whichever;
  the Replica's lag has no bound here. The age of an answer is therefore counted from the moment
  the Replica replaced the list, and later answers may fall back to an older list when `Reader`
  goes from the Primary to a Replica that lags.
- **Sessions.** One browser. A session id and its CSRF token are made together, so one number
  stands for both. Pages without forms that post are not told apart; a failing handler leaves no
  page with forms.

## Runs

| Run | Question | Bounds |
|---|---|---|
| `checkout_overlap` | isolation, atomicity, stock, summary, event per order, deadlocks | 3 users with a request each, 3 products with stock 2, 1 and 1, 1 day, quantity 1; constraint `MCAsks` |
| `checkout_retry` | is a user who retries after errors ever sold more than was asked for, and does the summary agree across midnight? | 1 user, 2 requests one after the other, quantity up to 2, 3 units asked of a product, 2 days |
| `fulfilment` | is every checkout answered, every order announced, and nothing else? | 1 user who sends the form twice, 2 products, 1 worker, batch 2, 2 faults |
| `outbox_workers` | exclusive ticks, bounded repeats, delivery at least once, nothing starved | 2 workers, 4 events of which 1 is poison, batch 2, 2 faults |
| `health_paging` | flag against Replica, restarts and hanging checks included; what a reader misses or sees twice when the flag moves | threshold 3 as in the code, 2 starts, 7 products, pages of 3 and of 1 |
| `readpath_requests` | is a new order shown, and shown whole; does a request see one database and one mode; whom does the Replica not know? | 2 requests of any kind, 1 transaction, threshold 2, 2 starts |
| `readpath_report` | does the report stay off the Primary? It does not: finding 1 | as above |
| `cache_calls` | what the cache adds to the Replica's lag, stampede, return | 3 calls, TTL 2, clock to 3, 1 edit |
| `sessions_tabs` | do forms act for the user they were shown to, do tokens agree? | 2 tabs, 2 users, 3 tokens |
| `sessions_restart` | do they still agree once the browser was closed? They do not: finding 2 | as above |
| `migrate_starts` | records, schema and collisions of servers that start together | 3 servers and make migrate, 3 files of 3, 1 and 2 statements, 5 starts, 1 interruption |
| `migrate_readme` | do the README's steps succeed? They do not: finding 3 | 1 server, make migrate, no interruption |

Why the bounds are enough. Two products are the least with which two orders lock rows in
opposite orders, and stock 2 and 1 makes one of the two orders fail. The circle on the summary
takes three requests: one that inserts the row of the day and is rolled back, and two that wait for
it. They can only all get there if they do not meet on an inventory row before, so the third has a
product of its own; `MCAsks` keeps it to that product, and the first two to theirs, which leaves out carts
in which three orders compete for one row. In `fulfilment` the form is sent twice at once, so two
orders compete for both products and for the cart's rows, the worker meets one event before or
after the other's commit, a batch of 2 lets their INSERTs wait for a tick, and a tick can fail
twice. Batches of two with four events leave work for a second worker and a second batch behind
a poison event, and two faults hit one tick twice or both workers once. `readpath_requests` uses a
threshold of 2, so that trips, recoveries and scattered bad checks all fit between two queries;
`health_paging` uses the code's 3. One transaction is enough to be there or not; the theorems of
`ReadPathProofs` hold for any number. Two requests see the same flag move at different
points of their way. Seven products on pages of three or one
end on a short page, and leave room for the flag to move twice on the way. Three servers let one
collide with a second while a third starts later; a file of three statements can be abandoned
at its beginning and in its middle, one of a single statement between execution and record only.
With three tokens a browser gets its first token and logs in twice, as one user after the other
or in two tabs at once. A clock that goes past the TTL once lets an entry expire, be replaced and
be judged by an old reading.

The type invariants of `ReplicaHealth`, `ReadPath` and `Migrate` are proved rather than run.

`sessions_tabs` and `sessions_restart` stop (constraint `NotCrossed`) once an answer has set
cookies that had already changed since its request was sent. From then on the browser may hold
the session of one login and the token of another page, the code does nothing against it, and
nothing is claimed. Runs say `CHECK_DEADLOCK FALSE` where requests, events or starts run out: then
the modelled part of the system has no more work.

### Fairness

- `Checkout`, in `fulfilment`: every request goes on, as its goroutine does, and a circle of
  waiting is broken, as InnoDB's deadlock detector does by default. Aborts need not happen. The
  INSERT of an event that waits for a tick is executed before the worker's next one has locked the
  index again, or before a later one at the latest: InnoDB grants a lock first to who has waited.
- `OutboxWorker`, there and alone: the ticker fires and a tick runs on. Faults (handler errors of
  healthy events, failing statements, crashes) are finitely many; handler errors of poison events
  are not.
- `ReplicaHealth`, in `health_paging`: the ticker fires, and SHOW REPLICA STATUS returns unless
  the Replica hangs. Nobody has to turn a page.
- `CategoryCache`: a goroutine goes on. Weak fairness is enough for the mutex, as each call runs
  once and those in front of it are finitely many.
- `Migrate`: a process that has been started runs on until it serves, ends or is interrupted.
  Nobody has to start one.

### Findings

1. **A report can run on the Primary** (`readpath_report`). `ReportEnabled` is documented to keep
   load off the Primary while the Replica is down. It answers as documented, but the handler reads the flag at its gate, and
   `Reader` reads it again for the query; if the flag trips in between, the report that was let
   through goes to the Primary. The theorem `ReportsNeedASwitch` says that this is the only way: a
   report during which the flag does not change made both its queries on the Replica.
2. **Closing the browser breaks the forms of a live session** (`sessions_restart`). The session
   cookie has an expiry and survives, the CSRF cookie has none and does not. Cart and order pages
   carry the session's token, so their forms, and the logout on them, are answered with 403 until
   the next login. `TokensAgree` shows that, short of crossing answers, this is the only way.
3. **`make migrate` and then `make run`** (`migrate_readme`), steps 4 and 6 of the repository's
   README, do not go together. The recipe executes the scripts and records nothing; the server
   finds no record, executes CREATE TABLE users again and exits. (Where the recipe's shell does
   not know its `<(...)`, step 4 itself fails.)

What the properties leave open, because the code does:

- Two overlapping POST /orders of one user both place an order of the same cart
  (`SoldAtMostAsked` is claimed for a user who waits for the answer).
- Poison events that fill a whole batch stop the outbox (`HealthyProcessed` needs fewer).
- A logout whose session lookup failed clears the cookie and leaves the session's row.
- An administrator who has just registered and logged in is turned away with status 500 by a
  Replica that does not have the account yet (`MissingOnlyOnReplica` says that nothing else does
  so).
- A Replica on which a check hangs is not given up.
- A fetch that never ends keeps every call of the category cache waiting (`GetReturns` assumes that
  it answers or fails).
- Rows that come into a cart between List and Clear are deleted and ordered by nobody.
- Once answers to two tabs cross, nothing is claimed of forms and tokens.
- A script abandoned by an interruption has to be repaired by hand: `AbandonedForGood` says that
  no later start does it, and that none serves in spite of it.

## Proofs

All theorems are checked by TLAPS for every value of the constants that the modules' assumptions
allow. Each module's argument is an inductive invariant, one lemma per action and a temporal
step at the end; where a property adds something up over what has happened, a second invariant
builds on the first. TLC checked the invariants on the runs' instances
before they were proved.

Sums and lists. The stock, the summary and what users asked for are folds over the set of orders,
and the pages shown one behind the other are a fold over a list. The library's induction theorems
cannot be used with the installed provers, so what a fold does with one element more is derived
from two facts they do know: the subsets of a finite set are well-founded under inclusion, and
numbers under `<` (`WFMin`). A smallest set or number for which a fact failed would have a smaller
one for which it holds, and one step leads from that to the next. `SumStep` and `SumAdd` in
`CheckoutProofs` and `FlattenAppend` in `PagingProofs` are shown that way, for every finite set
and every list, and no induction is needed after them.

- **`CheckoutProofs`.** `IInv` is types, `TransactionsIsolated` and `EventForEachOrder`. Types and
  atomicity are not inductive alone: that a commit publishes one whole order rests on knowing that
  the rows locked by a request are exactly those its `pc` and what is left of its queue say it has
  written, with the latest version the committed one minus its quantity. From it follow
  `TypeCorrect`, `Isolation`, `OutboxMatchesOrders`, `AtomicOrders` (the refinement of
  `OrderLedger`: `Commit` is `Place`, a cart statement is `EditCart`, all else stutters),
  `ShortageIsCommitted` and `DeadlocksAreOnStockOrNewDay`. For the last: whoever has reached the
  summary waits for nobody who has not, so a circle with one request at the summary has all its
  members there (`CirclePart`, by counting: in a circle everyone is waited for); a row that
  is there is held by one which only has to commit, so nobody in the circle waits for one, and what
  is left are the gaps. `GapsIsolated` adds that a gap is over days without a row, but for the row its owner
  has inserted since. `NoStandstill` uses that only an open
  transaction holds locks: if all open ones waited, each for another of them, a smallest set of
  requests that wait for its own members is a circle, so `DeadlockVictim` has somebody to choose.
- **The books**, also in `CheckoutProofs`. `Books` (finitely many orders, `StockAccounted`,
  `SummaryMatchesOrders`) is inductive together with `IInv`: only `Commit` changes an order, the
  committed stock or the summary, and by `IInv` it adds exactly one order that was not there,
  whose lines are what the locked rows differ by (`CommitBooks`). `NeverSoldUnasked` needs more,
  since a cart may be changed between being read and being cleared: `Asked` adds that what an order
  in flight has read, together with what its user has been sold, is covered by what was asked for,
  and that without `Overlap` at most one request of a user is in flight, so no other order of the
  same cart uses it up.
- **`OutboxWorkerProofs`.** `IInv` adds to the types that a worker has only locked, pending rows
  in hand, and that a marked event was accepted. `WorkersImplementQueue` maps every step to one
  of `EventQueue` or a stutter: the commit of a tick is `Settle`, whose guard is that addition.
  `RepeatsArePaidFor` counts: `RInv` bounds the repeats so far together with the `Debts`, events that
  were handled and are pending again, so that they may be repeated once more. A repeat settles a
  debt; debts are made by a rollback only, which costs a fault and makes at most `Batch` of them,
  since no worker has more events in hand.
- **`FulfilmentProofs`.** Every step is one of `Checkout` or changes nothing of it, and likewise
  of `OutboxWorker` (`ShopUndisturbed`, `OutboxUndisturbed`), so the theorems of both modules hold
  of the whole; `BooksUndisturbed` draws the conclusion for the books. `AnnouncementsTrue` adds that published events are committed ones, whose orders
  are there by `EventForEachOrder`.
- **`ReadPathProofs`.** First the health check by itself: the counter is the length of the run of
  bad checks (`CountsRun`), so the flag is set exactly when the run is full. Then, per request: what its first query found is still there (the Replica never
  takes back), the database chosen while the window is open is the Primary, and while nothing has
  switched every choice equals what `Reader` would answer now. `MissingNeedsReplica` rests on the
  first: the Primary has whatever a request looks for. `ReportsNeedASwitch` adds that a report was
  let through by a flag that was reset, and has made two queries (`ReportCourse`).
- **`PagingProofs`.** `PInv` measures what was shown against `Reached`, the products that as many
  pages of the last size would hold. Pages of one size have shown `Reached` products. If no page
  was longer than one before it, the products shown are the first so many, at least `Reached` or
  all of them, so the next offset leaves none out. If none was shorter, no product behind
  `Reached` was shown, so the next page repeats none. The three properties alone are not
  inductive: they say nothing of where the next page begins.
- **`CategoryCacheProofs`.** Only the holder of the write lock is past its second look, so its
  reading of the clock is still not before the expiry it replaces; the Replica had
  not replaced the cached list before the TTL that ends with its expiry began.
- **`SessionsProofs`.** `TokensAgree` and `PostsActForPage` are not inductive: they say nothing of
  what other requests and tabs still hold. `IInv` therefore speaks of every pair of session and
  token that the browser or a request carries and of every form anywhere. The token of a session
  is carried with that session only and stands in forms of its user only; until answers cross, any
  other token is carried with one session only and stands in forms of that session's user; a new
  token in an answer is nowhere else. The theorems hold for any tabs, users and tokens.
- **`MigrateProofs`.** `RecordedWhole` and `ServedSchemaWhole` are not inductive: why a server
  may serve depends on what it loaded long before and on what the others did since. `MInv` adds
  that everything before a process's statement is executed (`Behind`), that one which has
  begun a script is where the executed statements end, so that everyone who comes later fails
  (`AtFrontier`), and that at most one process is in such a place (`OneInScript`); `HandsPlain`
  says that a `make migrate` loads and records nothing.

Only model-checked: liveness (`CheckoutsEnd`, `OrdersAnnounced`, `HealthyProcessed`,
`SickReplicaAvoided`, `WellReplicaUsed`, `GetReturns`, `SomebodyServes`), since fairness and
ENABLED are out of the prover's reach. `NoStandstill` is the part of `CheckoutsEnd` that needs
neither. Every other property of the passing runs is proved. The three properties that do not
hold (see Findings) have no theorem; what does hold in their place is `ReportsNeedASwitch`,
`TokensStayTogether` and `AbandonedStays`.

The theorems about `ReplicaHealth` are about it alone, and `HealthUndisturbed` carries them over
to `Paging`, as `NextHealth` does to `ReadPath`. The theorems about `OutboxWorker` are about its
own module; in `Fulfilment` they hold by `OutboxUndisturbed` and are not stated again.

## Not modelled

- Password hashing: a computation over bytes.
- Configuration: read once before anything runs; its limits are the constants' assumptions.
- The connection pool: four numbers for `database/sql`. Waiting for a connection is the gap
  between the choice of a database and its query in `ReadPath`.
- `SessionStore.DeleteExpired` and `user.Repository.FindByID`: called by nothing.
- How a shutdown drains connections: left to `net/http`. In `ReadPath` a restart may end any
  request without an answer.
- Rendering beyond the forms of a page, static files, logging, seeding and deployment: no state,
  or none while the shop runs.

## Plan

Done, in this order: checkout with its ledger, the outbox worker, the health flag, the read path,
the category cache, sessions; then the queue that the workers implement, fulfilment, reports and
administrators in the read path, paging, and migrations; then the proofs of every safety property.
To come, if at all, are proofs that complete the steps of the liveness arguments that need no
fairness, as `NoStandstill` does for checkouts: that a tick which begins has an end, and that the
write lock of the cache is always held by a call that can go on.
