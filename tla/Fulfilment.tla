----------------------------- MODULE Fulfilment -----------------------------
(***************************************************************************)
(* Checkouts and outbox workers on one database: the event that the        *)
(* transaction of an order inserts is the row the workers poll for, from   *)
(* the commit on.  The id of the event is that of its order's request.     *)
(***************************************************************************)
EXTENDS Checkout

CONSTANTS Workers, Batch, Poison, MaxFaults

\* The ids of events are numbers, those of their requests here.
ASSUME FulfilmentAssumption ==
    /\ Requests \subseteq Nat
    /\ Batch \in Nat \ {0}
    /\ Poison \subseteq Requests
    /\ MaxFaults \in Nat
    /\ None \notin Workers

VARIABLES
    workerPc,
    pending, processed, rowLock, todo, marked, handled, faults

Outbox == INSTANCE OutboxWorker WITH Events <- Requests, pc <- workerPc

outboxVars == <<workerPc, pending, processed, rowLock, todo, marked, handled, faults>>
allVars == <<vars, outboxVars>>

FInit == Init /\ Outbox!Init

\* A tick that has found fewer events than a batch has read, and locked, the index
\* to the end of the unprocessed rows, where every new event goes.
NewEventsWait ==
    \E w \in Workers :
        /\ workerPc[w] # "idle"
        /\ Cardinality({e \in Requests : rowLock[e] = w}) < Batch

\* A step of the shop; an INSERT of an event waits for the end of such a tick, and
\* a commit makes the event of its order pending.
Shopping ==
    /\ Next
    /\ newEvents' \subseteq newEvents \/ ~NewEventsWait
    /\ \/ events' = events /\ UNCHANGED outboxVars
       \/ \E e \in Requests \ events : events' = events \cup {e} /\ Outbox!Publish(e)

\* A step of a worker, whose handler only logs and writes nothing of the shop.
Announcing ==
    /\ \E w \in Workers : Outbox!Step(w) \/ Outbox!RollBack(w)
    /\ UNCHANGED vars

FNext == Shopping \/ Announcing

FSpec ==
    /\ FInit /\ [][FNext]_allVars
    /\ Fairness
    /\ \A w \in Workers : WF_outboxVars(Outbox!Step(w))

-----------------------------------------------------------------------------
(* Properties. *)

\* No order is announced that is not there: what a transaction inserts that is
\* rolled back in the end, by a shortage, a deadlock or an error, no worker
\* has ever seen.
AnnouncedWereOrdered ==
    \A e \in Requests : handled[e] > 0 => \E o \in orders : o.id = e

\* Every order is announced in the end, also one whose commit answer got lost
\* and whose user was told that it failed.
OrdersAnnounced ==
    \A r \in Requests \ Poison :
        (\E o \in orders : o.id = r) ~> (handled[r] > 0 /\ r \in processed)
=============================================================================
