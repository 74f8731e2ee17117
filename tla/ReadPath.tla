------------------------------ MODULE ReadPath ------------------------------
(***************************************************************************)
(* The requests that read through DBRouter.Reader: an order right after it *)
(* was placed or from its page, an administrator's report, the             *)
(* suggestions, the product list, and the pages of one product and of the  *)
(* order history, while ReplicaHealth sets and resets the flag they look   *)
(* at, the Replica applies the Primary's transactions with delay, and      *)
(* read-after-write windows run out.  A request looks at the flag anew for *)
(* every query and every decision it makes; each look is one action, and   *)
(* the query that follows it is another.                                   *)
(*                                                                         *)
(* Transactions are numbered in the order of their commits.  Each inserts  *)
(* an order, the row of orders and its order_items, or an account, and the *)
(* Replica applies it whole.                                               *)
(***************************************************************************)
EXTENDS ReplicaHealth

CONSTANTS
    Requests,   \* the requests of a run, each is made once
    MaxCommits  \* bound: transactions

ASSUME ReadAssumption == MaxCommits \in Nat

VARIABLES
    committed,  \* transactions on the Primary
    applied,    \* the first of them, which the Replica has applied
    pc,         \* per request: what it does next
    target,     \* the order, or the account of the administrator, it looks for
    window,     \* the deadline WithReadAfterWrite put in its context
    pool,       \* the database Reader returned for its next query
    used,       \* the databases its queries went to, in order
    modes,      \* history: the modes its decisions were based on
    reply,      \* its answer
    switched    \* history: requests in flight when flag or window changed

requests == <<pc, target, window, pool, used, modes, reply, switched>>
vars == <<health, committed, applied, requests>>

\* degrade.Active: reduced service while the flag is set.
Modes == {"full", "reduced"}
Mode == IF down THEN "reduced" ELSE "full"

InFlight(r) == pc[r] \notin {"idle", "done"}

Init ==
    /\ HealthInit
    /\ committed \in 0..MaxCommits
    /\ applied \in 0..committed
    /\ pc = [r \in Requests |-> "idle"]
    /\ target = [r \in Requests |-> 0]
    /\ window = [r \in Requests |-> "none"]
    /\ pool = [r \in Requests |-> "none"]
    /\ used = [r \in Requests |-> <<>>]
    /\ modes = [r \in Requests |-> {}]
    /\ reply = [r \in Requests |-> "none"]
    /\ switched = {}

Goto(r, next) == pc' = [pc EXCEPT ![r] = next]

Answer(r, answered) ==
    /\ reply' = [reply EXCEPT ![r] = answered]
    /\ Goto(r, "done")

-----------------------------------------------------------------------------
(* Beginnings. *)

\* Mistake: the order is looked for before its transaction is committed.
CompleteUncommitted(r) ==
    /\ pc[r] = "idle" /\ committed < MaxCommits
    /\ target' = [target EXCEPT ![r] = committed + 1]
    /\ window' = [window EXCEPT ![r] = "open"]
    /\ Goto(r, "head")
    /\ UNCHANGED <<health, committed, applied, pool, used, modes, reply, switched>>

\* POST /orders: CreateOrder has committed its order, the window opens and
\* FindOrder begins.
Complete(r) ==
    /\ pc[r] = "idle" /\ committed < MaxCommits
    /\ committed' = committed + 1
    /\ target' = [target EXCEPT ![r] = committed + 1]
    /\ window' = [window EXCEPT ![r] = "open"]
    /\ Goto(r, "head")
    /\ UNCHANGED <<health, applied, pool, used, modes, reply, switched>>

\* GET /orders/{id}, of an order the user has placed, with or without fresh=1.
Detail(r) ==
    /\ pc[r] = "idle"
    /\ \E o \in 1..committed : target' = [target EXCEPT ![r] = o]
    /\ \E fresh \in {"open", "none"} : window' = [window EXCEPT ![r] = fresh]
    /\ Goto(r, "head")
    /\ UNCHANGED <<health, committed, applied, pool, used, modes, reply, switched>>

\* GET /admin/report, of an administrator: Authenticate has found the account on
\* the Primary, RequireAdmin asks for it again.
Admin(r) ==
    /\ pc[r] = "idle"
    /\ \E account \in 1..committed : target' = [target EXCEPT ![r] = account]
    /\ Goto(r, "admin")
    /\ UNCHANGED <<health, committed, applied, window, pool, used, modes, reply, switched>>

\* ReportEnabled or SuggestEnabled, before the query next.
Gate(r, next) ==
    /\ modes' = [modes EXCEPT ![r] = {Mode}]
    /\ IF down THEN Answer(r, "unavailable") ELSE Goto(r, next) /\ UNCHANGED reply
    /\ UNCHANGED <<health, committed, applied, target, window, pool, used, switched>>

Suggest(r) == pc[r] = "idle" /\ Gate(r, "page")

\* SuggestEnabled before an empty search, which asks no database.
EmptySearch(r) ==
    /\ pc[r] = "idle"
    /\ modes' = [modes EXCEPT ![r] = {Mode}]
    /\ Answer(r, IF down THEN "unavailable" ELSE "page")
    /\ UNCHANGED <<health, committed, applied, target, window, pool, used, switched>>

Report(r) == pc[r] = "gate" /\ Gate(r, "report")

\* GET /products/{id} and GET /orders: one query, and no decision.
Page(r) ==
    /\ pc[r] = "idle"
    /\ Goto(r, "page")
    /\ UNCHANGED <<health, committed, applied, target, window, pool, used, modes, reply,
                   switched>>

\* Home chooses 6 or 20 products per page.
ChoosePageSize(r) ==
    /\ pc[r] = "idle"
    /\ modes' = [modes EXCEPT ![r] = {Mode}]
    /\ Goto(r, "products")
    /\ UNCHANGED <<health, committed, applied, target, window, pool, used, reply, switched>>

-----------------------------------------------------------------------------
(* Queries. *)

Queries == {"head", "items", "admin", "report", "page", "products"}

ForcePrimary(r) == window[r] = "open"

\* Mistake: the window is honoured by the first query of a request only.
ReaderForgetsWindow(r) ==
    IF (ForcePrimary(r) /\ pc[r] = "head") \/ down THEN "primary" ELSE "replica"

\* Mistake: the flag is left to the handlers.
ReaderIgnoresFlag(r) == IF ForcePrimary(r) THEN "primary" ELSE "replica"

\* Mistake: queries are spread over both databases.
ReaderBalances(r) == IF used[r] = <<>> THEN "primary" ELSE "replica"

Reader(r) == IF ForcePrimary(r) \/ down THEN "primary" ELSE "replica"

\* Reader returns a database; its query may have to wait for a connection.
Route(r) ==
    /\ pc[r] \in Queries /\ pool[r] = "none"
    /\ pool' = [pool EXCEPT ![r] = Reader(r)]
    /\ UNCHANGED <<health, committed, applied, pc, target, window, used, modes, reply,
                   switched>>

\* The query of step is executed.
Query(r, step) ==
    /\ pc[r] = step /\ pool[r] # "none"
    /\ pool[r] = "replica" => Answering
    /\ pool' = [pool EXCEPT ![r] = "none"]
    /\ used' = [used EXCEPT ![r] = Append(@, pool[r])]
    /\ UNCHANGED <<health, committed, applied, target, window, modes, switched>>

\* Is what r looks for, whole, in the database the query goes to?
Visible(r) == target[r] <= IF pool[r] = "primary" THEN committed ELSE applied

\* FindOrder, the row of orders.
FindHead(r) ==
    /\ Query(r, "head")
    /\ IF Visible(r) THEN Goto(r, "items") /\ UNCHANGED reply ELSE Answer(r, "missing")

\* FindOrder, the order_items: no row is no error.
FindItems(r) ==
    /\ Query(r, "items")
    /\ Answer(r, IF Visible(r) THEN "whole" ELSE "bare")

\* IsAdmin: without a row, ErrUserNotFound and status 500.
FindAdmin(r) ==
    /\ Query(r, "admin")
    /\ IF Visible(r) THEN Goto(r, "gate") /\ UNCHANGED reply ELSE Answer(r, "missing")

\* Monthly, the one query of the report.
FetchReport(r) == Query(r, "report") /\ Answer(r, "report")

\* The one query of the suggestions, of a product's page and of the history.
FetchPage(r) == Query(r, "page") /\ Answer(r, "page")

\* ListProducts.
FetchProducts(r) == Query(r, "products") /\ Goto(r, "render") /\ UNCHANGED reply

\* Home decides whether the page says that service is reduced.
RenderHome(r) ==
    /\ pc[r] = "render"
    /\ modes' = [modes EXCEPT ![r] = @ \cup {Mode}]
    /\ Answer(r, "page")
    /\ UNCHANGED <<health, committed, applied, target, window, pool, used, switched>>

\* A query fails, on either database, or takes longer than the report may.
QueryFails(r) ==
    /\ pc[r] \in Queries /\ pool[r] # "none"
    /\ Answer(r, "error")
    /\ UNCHANGED <<health, committed, applied, target, window, pool, used, modes, switched>>

\* The deadline in the context passes.
WindowEnds(r) ==
    /\ InFlight(r) /\ window[r] = "open"
    /\ window' = [window EXCEPT ![r] = "over"]
    /\ switched' = switched \cup {r}
    /\ UNCHANGED <<health, committed, applied, pc, target, pool, used, modes, reply>>

-----------------------------------------------------------------------------
(* Their surroundings. *)

\* Someone else's order is placed, or an account is registered.
Commit ==
    /\ committed < MaxCommits
    /\ committed' = committed + 1
    /\ UNCHANGED <<health, applied, requests>>

\* The Replica applies the next transaction, whole.
Apply ==
    /\ replica # "stopped"
    /\ applied < committed
    /\ applied' = applied + 1
    /\ UNCHANGED <<health, committed, requests>>

\* The health goroutine, and the Replica it watches.
Health ==
    /\ ReplicaChanges \/ CheckLag \/ Evaluate
    /\ switched' = switched \cup {r \in Requests : InFlight(r) /\ down' # down}
    /\ UNCHANGED <<committed, applied, pc, target, window, pool, used, modes, reply>>

\* The server starts again: requests in flight get no answer.
RestartServer ==
    /\ Restart
    /\ pc' = [r \in Requests |-> IF InFlight(r) THEN "done" ELSE pc[r]]
    /\ reply' = [r \in Requests |-> IF InFlight(r) THEN "error" ELSE reply[r]]
    /\ UNCHANGED <<committed, applied, target, window, pool, used, modes, switched>>

Step(r) ==
    \/ Complete(r) \/ Detail(r) \/ Admin(r) \/ Suggest(r) \/ EmptySearch(r)
    \/ Page(r) \/ ChoosePageSize(r)
    \/ Route(r)
    \/ FindHead(r) \/ FindItems(r) \/ FindAdmin(r) \/ FetchPage(r) \/ FetchProducts(r)
    \/ Report(r) \/ FetchReport(r) \/ RenderHome(r)
    \/ QueryFails(r) \/ WindowEnds(r)

Next ==
    \/ \E r \in Requests : Step(r)
    \/ Commit \/ Apply
    \/ Health \/ RestartServer

Spec == Init /\ [][Next]_vars
-----------------------------------------------------------------------------
(* Properties. *)

Pools == {"primary", "replica"}

TypeOK ==
    /\ HealthTypeOK
    /\ committed \in 0..MaxCommits
    /\ applied \in 0..committed
    /\ pc \in [Requests -> {"idle", "gate", "render", "done"} \cup Queries]
    /\ target \in [Requests -> 0..MaxCommits]
    /\ window \in [Requests -> {"none", "open", "over"}]
    /\ pool \in [Requests -> Pools \cup {"none"}]
    /\ used \in [Requests -> Seq(Pools)]
    /\ modes \in [Requests -> SUBSET Modes]
    /\ reply \in [Requests -> {"none", "whole", "bare", "missing", "report", "page",
                               "unavailable", "error"}]
    /\ switched \subseteq Requests

\* While its window is open, an order that was placed is shown, and shown
\* whole, whatever the Replica's delay and condition.
FreshOrderIsWhole ==
    \A r \in Requests :
        window[r] = "open" /\ pc[r] = "done" => reply[r] \in {"whole", "error"}

\* An order page without its items is possible in one way only: the row of
\* orders was read from the Primary, the items from a Replica that had yet to
\* apply the order, and flag or window changed in between.  Two queries to a
\* Replica that keeps applying never tear an order.
TornOnlyAcrossSwitch ==
    \A r \in Requests :
        reply[r] = "bare" => used[r] = <<"primary", "replica">> /\ r \in switched

\* An order that was placed, and an administrator who has logged in, are
\* unknown to nobody but a Replica that is behind, asked outside a window.
MissingOnlyOnReplica ==
    \A r \in Requests :
        reply[r] = "missing" => used[r] = <<"replica">> /\ window[r] # "open"

\* A request in which neither flag nor window changes sees one world: all its
\* queries go to one database and all its decisions rest on one value of the
\* flag; report and suggestions are then never read from the Primary, and the
\* product list is short and marked exactly when it comes from there.
OneWorldUnlessSwitched ==
    \A r \in Requests :
        r \notin switched =>
            /\ \A i, j \in DOMAIN used[r] : used[r][i] = used[r][j]
            /\ modes[r] # Modes
            /\ \A i \in DOMAIN used[r], m \in modes[r] :
                used[r][i] = IF m = "reduced" THEN "primary" ELSE "replica"

\* degrade.ReportEnabled: "false while the Replica is down, so that no load
\* piles up on the Primary".
ReportsNeverOnPrimary ==
    \A r \in Requests : reply[r] = "report" => used[r][2] = "replica"
=============================================================================
