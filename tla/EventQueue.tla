----------------------------- MODULE EventQueue -----------------------------
(***************************************************************************)
(* What the outbox promises, with no worker, batch, lock or transaction in *)
(* sight: an event is published once, the handler accepts it at least once *)
(* while it is pending, and only what has been accepted is taken off, some *)
(* events together.  OutboxWorker implements this.                         *)
(***************************************************************************)
EXTENDS Naturals

CONSTANTS
    Events,
    Poison      \* events the handler never accepts

VARIABLES
    pending,    \* published and still to be delivered
    processed,  \* taken off
    handled     \* how often the handler has accepted an event

vars == <<pending, processed, handled>>

Init ==
    /\ pending = {}
    /\ processed = {}
    /\ handled = [e \in Events |-> 0]

Publish(e) ==
    /\ e \notin pending \cup processed
    /\ pending' = pending \cup {e}
    /\ UNCHANGED <<processed, handled>>

\* The handler accepts the event, perhaps not for the first time.
Deliver(e) ==
    /\ e \in pending \ Poison
    /\ handled' = [handled EXCEPT ![e] = @ + 1]
    /\ UNCHANGED <<pending, processed>>

\* Accepted events are taken off.
Settle(S) ==
    /\ S \subseteq pending \ Poison
    /\ \A e \in S : handled[e] > 0
    /\ pending' = pending \ S
    /\ processed' = processed \cup S
    /\ UNCHANGED handled

Next ==
    \/ \E e \in Events : Publish(e) \/ Deliver(e)
    \/ \E S \in SUBSET Events : Settle(S)

Spec == Init /\ [][Next]_vars
=============================================================================
