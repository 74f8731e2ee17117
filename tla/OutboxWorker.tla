---------------------------- MODULE OutboxWorker ----------------------------
(***************************************************************************)
(* outbox.Worker: processes that poll outbox_events and hand each pending  *)
(* event to the handler.  Several may run at once; each tick is one        *)
(* transaction that locks its events with FOR UPDATE SKIP LOCKED and marks *)
(* those the handler accepted.                                             *)
(*                                                                         *)
(* Events are the ids of the rows.  An id is given out when the order's    *)
(* transaction inserts the row and seen when that transaction commits, so  *)
(* events appear in any order of ids.                                      *)
(***************************************************************************)
EXTENDS Integers, FiniteSets

CONSTANTS
    Events,     \* ids of outbox_events rows
    Workers,
    Batch,      \* APP_OUTBOX_BATCH
    Poison,     \* events the handler never accepts
    MaxFaults,  \* bound: handler errors of other events, statement errors, crashes
    None        \* no worker

ASSUME WorkerAssumption ==
    /\ Events \subseteq Nat
    /\ IsFiniteSet(Events)
    /\ Batch \in Nat \ {0}
    /\ Poison \subseteq Events
    /\ MaxFaults \in Nat
    /\ None \notin Workers

VARIABLES
    pending,    \* committed rows with processed_at IS NULL
    processed,  \* committed rows with processed_at set
    rowLock,    \* the worker whose transaction has locked the row
    pc,         \* next step of a worker
    todo,       \* events of its batch not yet handled
    marked,     \* events marked in its open transaction
    handled,    \* history: how often the handler has accepted an event
    faults      \* history: faults so far

vars == <<pending, processed, rowLock, pc, todo, marked, handled, faults>>

\* What the table and the handler show of this.
Queue == INSTANCE EventQueue

Init ==
    /\ pending = {}
    /\ processed = {}
    /\ rowLock = [e \in Events |-> None]
    /\ pc = [w \in Workers |-> "idle"]
    /\ todo = [w \in Workers |-> {}]
    /\ marked = [w \in Workers |-> {}]
    /\ handled = [e \in Events |-> 0]
    /\ faults = 0

\* The first n ids of S.
First(n, S) == {e \in S : Cardinality({x \in S : x <= e}) <= n}

\* The event the loop of tick is at.
AtHead(w, e) == e \in todo[w] /\ \A x \in todo[w] : e <= x

Fault == faults < MaxFaults /\ faults' = faults + 1

\* Row locks go with the transaction that took them.
Unlock(w) == rowLock' = [e \in Events |-> IF rowLock[e] = w THEN None ELSE rowLock[e]]

EndTick(w) ==
    /\ Unlock(w)
    /\ pc' = [pc EXCEPT ![w] = "idle"]
    /\ todo' = [todo EXCEPT ![w] = {}]
    /\ marked' = [marked EXCEPT ![w] = {}]

\* What comes after an event of the batch has been dealt with.
Proceed(w, e) ==
    /\ todo' = [todo EXCEPT ![w] = @ \ {e}]
    /\ pc' = [pc EXCEPT ![w] = IF todo[w] = {e} THEN "commit" ELSE "handle"]

-----------------------------------------------------------------------------
\* Mistake: the event of a confirmed order is inserted once more.
PublishAgain(e) ==
    /\ e \notin pending
    /\ pending' = pending \cup {e}
    /\ UNCHANGED <<processed, rowLock, pc, todo, marked, handled, faults>>

\* A transaction that has inserted an event commits.
Publish(e) ==
    /\ e \notin pending \cup processed
    /\ pending' = pending \cup {e}
    /\ UNCHANGED <<processed, rowLock, pc, todo, marked, handled, faults>>

\* Mistake: WHERE processed_at IS NULL is missing.
FreeProcessedToo == {e \in pending \cup processed : rowLock[e] = None}

\* The pending rows a SELECT ... FOR UPDATE SKIP LOCKED does not skip.
Free == {e \in pending : rowLock[e] = None}

\* Begin and Pending: the first Batch free rows, which are then locked.
Fetch(w) ==
    /\ pc[w] = "idle"
    /\ Free # {}
    /\ todo' = [todo EXCEPT ![w] = First(Batch, Free)]
    /\ rowLock' = [e \in Events |-> IF e \in First(Batch, Free) THEN w ELSE rowLock[e]]
    /\ pc' = [pc EXCEPT ![w] = "handle"]
    /\ UNCHANGED <<pending, processed, marked, handled, faults>>

\* A tick that finds nothing, or fails before it has any event, changes nothing.

\* The handler accepts the event; MarkProcessed is yet to be executed.
Handle(w, e) ==
    /\ pc[w] = "handle"
    /\ AtHead(w, e)
    /\ e \notin Poison
    /\ handled' = [handled EXCEPT ![e] = @ + 1]
    /\ pc' = [pc EXCEPT ![w] = "mark"]
    /\ UNCHANGED <<pending, processed, rowLock, todo, marked, faults>>

\* Mistake: a failed event ends the loop, as an error of MarkProcessed does.
HandlerFailsReturns(w, e) ==
    /\ pc[w] = "handle"
    /\ AtHead(w, e)
    /\ IF e \in Poison THEN UNCHANGED faults ELSE Fault
    /\ EndTick(w)
    /\ UNCHANGED <<pending, processed, handled>>

\* The handler returns an error: continue, the event stays pending.
HandlerFails(w, e) ==
    /\ pc[w] = "handle"
    /\ AtHead(w, e)
    /\ IF e \in Poison THEN UNCHANGED faults ELSE Fault
    /\ Proceed(w, e)
    /\ UNCHANGED <<pending, processed, rowLock, marked, handled>>

\* Mistake: MarkProcessed is not called.
MarkForgotten(w, e) ==
    /\ pc[w] = "mark"
    /\ AtHead(w, e)
    /\ Proceed(w, e)
    /\ UNCHANGED <<pending, processed, rowLock, marked, handled, faults>>

\* MarkProcessed in the transaction of the tick.
Mark(w, e) ==
    /\ pc[w] = "mark"
    /\ AtHead(w, e)
    /\ marked' = [marked EXCEPT ![w] = @ \cup {e}]
    /\ Proceed(w, e)
    /\ UNCHANGED <<pending, processed, rowLock, handled, faults>>

\* COMMIT of the marks.  Its answer may get lost, which tick only logs.
Commit(w) ==
    /\ pc[w] = "commit"
    /\ processed' = processed \cup marked[w]
    /\ pending' = pending \ marked[w]
    /\ EndTick(w)
    /\ UNCHANGED <<handled, faults>>

\* Mistake: an error of MarkProcessed, which has ended the transaction, is
\* treated like a handler error: the loop goes on.
RollBackIgnored(w) ==
    /\ pc[w] = "mark"
    /\ Fault
    /\ Unlock(w)
    /\ \E e \in todo[w] : AtHead(w, e) /\ Proceed(w, e)
    /\ UNCHANGED <<pending, processed, marked, handled>>

\* The transaction is rolled back: MarkProcessed or COMMIT has failed, ctx was
\* cancelled, or the worker has died and is started again.
RollBack(w) ==
    /\ pc[w] # "idle"
    /\ Fault
    /\ EndTick(w)
    /\ UNCHANGED <<pending, processed, handled>>

Step(w) ==
    \/ Fetch(w)
    \/ \E e \in Events : Handle(w, e) \/ HandlerFails(w, e) \/ Mark(w, e)
    \/ Commit(w)

Next ==
    \/ \E e \in Events : Publish(e)
    \/ \E w \in Workers : Step(w) \/ RollBack(w)

Spec == Init /\ [][Next]_vars

\* The ticker keeps firing and a tick runs to its end; a handler error other
\* than for a poison event is a fault, of which there are finitely many.
FairSpec == Spec /\ \A w \in Workers : WF_vars(Step(w))

-----------------------------------------------------------------------------
(* Properties. *)

\* Every row and every worker variable stays in its range, and no row is both
\* pending and processed.
TypeOK ==
    /\ pending \subseteq Events
    /\ processed \subseteq Events
    /\ pending \cap processed = {}
    /\ rowLock \in [Events -> Workers \cup {None}]
    /\ pc \in [Workers -> {"idle", "handle", "mark", "commit"}]
    /\ todo \in [Workers -> SUBSET Events]
    /\ marked \in [Workers -> SUBSET Events]
    /\ handled \in [Events -> Nat]
    /\ faults \in 0..MaxFaults

\* What a worker has in hand is pending and locked by it until its tick ends,
\* so no two workers ever have the same event, however their polls interleave;
\* and what it has marked, or is about to mark, the handler has accepted.
TicksIsolated ==
    \A w \in Workers :
        /\ \A e \in todo[w] \cup marked[w] : rowLock[e] = w /\ e \in pending
        /\ \A e \in marked[w] : handled[e] > 0 /\ e \notin Poison
        /\ pc[w] = "mark" =>
            \A e \in Events : AtHead(w, e) => handled[e] > 0 /\ e \notin Poison

\* An event is only marked processed once the handler has accepted it, so no
\* announcement is lost by a handler error, a rollback or a crash.  Part of the
\* inductive invariant; DeliversAtLeastOnce says it of every step.
ProcessedWereHandled ==
    \A e \in processed : handled[e] > 0 /\ e \notin Poison

\* The workers implement the queue: every step of theirs publishes one event,
\* delivers a pending one, settles accepted ones together, or is not seen.  In
\* particular the handler is never given an event whose mark is committed.
DeliversAtLeastOnce == Queue!Spec

\* The handler calls beyond the first of each event, by event and number.
Repeats == UNION {{e} \X (2..handled[e]) : e \in Events}

\* A rolled back tick repeats at most a batch of handler calls.
RepeatsBounded == Cardinality(Repeats) <= Batch * faults

\* Every event the handler can accept is processed in the end, although others
\* in front of it fail for ever, as long as those do not fill a whole batch.
HealthyProcessed ==
    \A e \in Events \ Poison : e \in pending ~> e \in processed
=============================================================================
