------------------------- MODULE OutboxWorkerProofs -------------------------
(***************************************************************************)
(* What the outbox workers guarantee for any number of events and workers, *)
(* any batch size, and any set of events the handler never accepts.  The   *)
(* inductive invariant adds to the types that a worker has in hand only    *)
(* rows it has locked, which SKIP LOCKED keeps from every other worker.    *)
(* What bounds the repeated calls counts with them those that a rollback   *)
(* has made necessary: each fault allows for a batch of both.              *)
(***************************************************************************)
EXTENDS OutboxWorker, FiniteSetTheorems, TLAPS

IInv == TypeOK /\ TicksIsolated /\ ProcessedWereHandled

\* At the start there is no event and no tick.
LEMMA InitIInv == Init => IInv
BY WorkerAssumption DEF Init, IInv, TypeOK, TicksIsolated, ProcessedWereHandled

\* A new event is pending and locked by nobody.
LEMMA PublishIInv ==
    ASSUME IInv, NEW e \in Events, Publish(e)
    PROVE  IInv'
BY DEF IInv, TypeOK, TicksIsolated, ProcessedWereHandled, Publish, AtHead

\* A tick takes up free rows only, and locks them.
LEMMA FetchIInv ==
    ASSUME IInv, NEW w \in Workers, Fetch(w)
    PROVE  IInv'
<1>. DEFINE B == First(Batch, Free)
<1>1. B \subseteq pending /\ \A e \in B : e \in Events /\ rowLock[e] = None
  BY DEF First, Free, IInv, TypeOK
<1>2. /\ todo' = [todo EXCEPT ![w] = B]
      /\ rowLock' = [e \in Events |-> IF e \in B THEN w ELSE rowLock[e]]
      /\ pc[w] = "idle" /\ pc' = [pc EXCEPT ![w] = "handle"]
      /\ UNCHANGED <<pending, processed, marked, handled, faults>>
  BY DEF Fetch
<1>. HIDE DEF B
<1>3. TypeOK'
  BY <1>1, <1>2 DEF IInv, TypeOK
<1>4. TicksIsolated'
  BY <1>1, <1>2, WorkerAssumption DEF IInv, TypeOK, TicksIsolated, AtHead
<1>5. ProcessedWereHandled'
  BY <1>2 DEF IInv, ProcessedWereHandled
<1>. QED
  BY <1>3, <1>4, <1>5 DEF IInv

\* The event at the head has been handled, and is still pending.
LEMMA HandleIInv ==
    ASSUME IInv, NEW w \in Workers, NEW e \in Events, Handle(w, e)
    PROVE  IInv'
<1>. USE DEF IInv, Handle
<1>1. TypeOK'
  BY DEF TypeOK
<1>2. \A x \in Events : handled'[x] >= handled[x] /\ handled[x] \in Nat /\ handled'[x] \in Nat
  BY DEF TypeOK
<1>3. handled'[e] > 0 /\ e \notin Poison
  BY DEF TypeOK
<1>4. \A x \in Events : AtHead(w, x)' => x = e
  <2>1. ASSUME NEW x \in Events, AtHead(w, x) PROVE x = e
    BY <2>1, WorkerAssumption DEF AtHead
  <2>. QED
    BY <2>1 DEF AtHead
<1>5. TicksIsolated'
  <2> SUFFICES ASSUME NEW v \in Workers PROVE TicksIsolated!(v)'
    BY DEF TicksIsolated
  <2>1. (\A x \in todo[v] \cup marked[v] : rowLock[x] = v /\ x \in pending)'
    BY DEF TicksIsolated
  <2>2. (\A x \in marked[v] : handled[x] > 0 /\ x \notin Poison)'
    BY <1>2 DEF TicksIsolated, TypeOK
  <2>3. (pc[v] = "mark" => \A x \in Events : AtHead(v, x) => handled[x] > 0 /\ x \notin Poison)'
    <3>1. CASE v = w
      BY <1>3, <1>4, <3>1
    <3>2. CASE v # w
      BY <1>2, <3>2 DEF TicksIsolated, TypeOK, AtHead
    <3>. QED
      BY <3>1, <3>2
  <2>. QED
    BY <2>1, <2>2, <2>3
<1>6. ProcessedWereHandled'
  BY <1>2 DEF TypeOK, ProcessedWereHandled
<1>. QED
  BY <1>1, <1>5, <1>6

\* An event the handler refuses leaves the tick unmarked.
LEMMA HandlerFailsIInv ==
    ASSUME IInv, NEW w \in Workers, NEW e \in Events, HandlerFails(w, e)
    PROVE  IInv'
<1>. USE DEF IInv, HandlerFails, Proceed
<1>1. TypeOK'
  BY WorkerAssumption DEF TypeOK, Fault
<1>2. TicksIsolated'
  BY DEF TypeOK, TicksIsolated, AtHead
<1>3. ProcessedWereHandled'
  BY DEF ProcessedWereHandled
<1>. QED
  BY <1>1, <1>2, <1>3

\* An event is marked after it was handled.
LEMMA MarkIInv ==
    ASSUME IInv, NEW w \in Workers, NEW e \in Events, Mark(w, e)
    PROVE  IInv'
<1>. USE DEF IInv, Mark, Proceed
<1>1. TypeOK'
  BY DEF TypeOK
<1>2. TicksIsolated'
  BY DEF TypeOK, TicksIsolated, AtHead
<1>3. ProcessedWereHandled'
  BY DEF ProcessedWereHandled
<1>. QED
  BY <1>1, <1>2, <1>3

\* The rows of other workers stay locked when a tick of w ends.
LEMMA EndTickOthers ==
    ASSUME IInv, NEW w \in Workers, EndTick(w)
    PROVE  /\ todo'[w] = {} /\ marked'[w] = {} /\ pc'[w] = "idle"
           /\ \A v \in Workers \ {w} :
                /\ todo'[v] = todo[v] /\ marked'[v] = marked[v] /\ pc'[v] = pc[v]
                /\ \A e \in todo[v] \cup marked[v] : rowLock'[e] = v /\ e \notin marked[w]
           /\ rowLock' \in [Events -> Workers \cup {None}]
           /\ pc' \in [Workers -> {"idle", "handle", "mark", "commit"}]
           /\ todo' \in [Workers -> SUBSET Events]
           /\ marked' \in [Workers -> SUBSET Events]
BY DEF IInv, TypeOK, TicksIsolated, EndTick, Unlock

\* A commit processes what the tick has marked and unlocks its rows.
LEMMA CommitIInv ==
    ASSUME IInv, NEW w \in Workers, Commit(w)
    PROVE  IInv'
<1>1. EndTick(w) /\ UNCHANGED <<handled, faults>>
      /\ processed' = processed \cup marked[w] /\ pending' = pending \ marked[w]
  BY DEF Commit
<1>2. TypeOK'
  BY <1>1, EndTickOthers DEF IInv, TypeOK
<1>3. TicksIsolated'
  BY <1>1, EndTickOthers DEF IInv, TypeOK, TicksIsolated, AtHead
<1>4. ProcessedWereHandled'
  BY <1>1 DEF IInv, TicksIsolated, ProcessedWereHandled
<1>. QED
  BY <1>2, <1>3, <1>4 DEF IInv

\* A rollback unlocks the rows of the tick and processes none.
LEMMA RollBackIInv ==
    ASSUME IInv, NEW w \in Workers, RollBack(w)
    PROVE  IInv'
<1>1. EndTick(w) /\ Fault /\ UNCHANGED <<pending, processed, handled>>
  BY DEF RollBack
<1>2. TypeOK'
  BY <1>1, EndTickOthers, WorkerAssumption DEF IInv, TypeOK, Fault
<1>3. TicksIsolated'
  BY <1>1, EndTickOthers DEF IInv, TypeOK, TicksIsolated, AtHead
<1>4. ProcessedWereHandled'
  BY <1>1 DEF IInv, ProcessedWereHandled
<1>. QED
  BY <1>2, <1>3, <1>4 DEF IInv

\* Every step preserves the invariant.
LEMMA NextIInv == IInv /\ [Next]_vars => IInv'
<1> SUFFICES ASSUME IInv, [Next]_vars PROVE IInv'
  OBVIOUS
<1>1. ASSUME NEW e \in Events, Publish(e) PROVE IInv'
  BY <1>1, PublishIInv
<1>2. ASSUME NEW w \in Workers, Fetch(w) PROVE IInv'
  BY <1>2, FetchIInv
<1>3. ASSUME NEW w \in Workers, NEW e \in Events, Handle(w, e) PROVE IInv'
  BY <1>3, HandleIInv
<1>4. ASSUME NEW w \in Workers, NEW e \in Events, HandlerFails(w, e) PROVE IInv'
  BY <1>4, HandlerFailsIInv
<1>5. ASSUME NEW w \in Workers, NEW e \in Events, Mark(w, e) PROVE IInv'
  BY <1>5, MarkIInv
<1>6. ASSUME NEW w \in Workers, Commit(w) PROVE IInv'
  BY <1>6, CommitIInv
<1>7. ASSUME NEW w \in Workers, RollBack(w) PROVE IInv'
  BY <1>7, RollBackIInv
<1>8. ASSUME UNCHANGED vars PROVE IInv'
  BY <1>8 DEF vars, IInv, TypeOK, TicksIsolated, ProcessedWereHandled, AtHead
<1>. QED
  BY <1>1, <1>2, <1>3, <1>4, <1>5, <1>6, <1>7, <1>8 DEF Next, Step

\* The inductive invariant of the workers.
THEOREM Invariance == Spec => []IInv
<1>. QED
  BY InitIInv, NextIInv, PTL DEF Spec

\* Rows and worker variables stay in their ranges; no row is both pending and
\* processed.
THEOREM TypeCorrect == Spec => []TypeOK
<1>1. IInv => TypeOK
  BY DEF IInv
<1>. QED
  BY <1>1, Invariance, PTL

\* No two workers ever have the same event in hand.
THEOREM ExclusiveTicks == Spec => []TicksIsolated
<1>1. IInv => TicksIsolated
  BY DEF IInv
<1>. QED
  BY <1>1, Invariance, PTL

\* No event is marked processed before the handler has accepted it.
THEOREM NothingSkipped == Spec => []ProcessedWereHandled
<1>1. IInv => ProcessedWereHandled
  BY DEF IInv
<1>. QED
  BY <1>1, Invariance, PTL

-----------------------------------------------------------------------------
\* A worker hands over pending events only.
LEMMA HandleDelivers ==
    ASSUME IInv, NEW w \in Workers, NEW e \in Events, Handle(w, e)
    PROVE  Queue!Deliver(e)
<1>1. e \in todo[w]
  BY DEF Handle, AtHead
<1>2. e \in pending
  BY <1>1 DEF IInv, TicksIsolated
<1>. QED
  BY <1>2 DEF Handle, Queue!Deliver

\* What a tick has marked is pending, and the handler has accepted it.
LEMMA CommitSettles ==
    ASSUME IInv, NEW w \in Workers, Commit(w)
    PROVE  marked[w] \in SUBSET Events /\ Queue!Settle(marked[w])
<1>1. marked[w] \in SUBSET Events
  BY DEF IInv, TypeOK
<1>2. \A e \in marked[w] : e \in pending /\ handled[e] > 0 /\ e \notin Poison
  BY DEF IInv, TicksIsolated
<1>. QED
  BY <1>1, <1>2 DEF Commit, Queue!Settle

\* The workers implement the abstract queue, whatever the number of events and
\* workers, the batch size, the poison and the faults.
THEOREM WorkersImplementQueue == Spec => DeliversAtLeastOnce
<1>1. Init => Queue!Init
  BY DEF Init, Queue!Init
<1>2. IInv /\ [Next]_vars => [Queue!Next]_(Queue!vars)
  <2> SUFFICES ASSUME IInv, [Next]_vars PROVE [Queue!Next]_(Queue!vars)
    OBVIOUS
  <2>1. ASSUME NEW e \in Events, Publish(e) PROVE Queue!Next
    BY <2>1 DEF Publish, Queue!Publish, Queue!Next
  <2>2. ASSUME NEW w \in Workers, NEW e \in Events, Handle(w, e) PROVE Queue!Next
    BY <2>2, HandleDelivers DEF Queue!Next
  <2>3. ASSUME NEW w \in Workers, Commit(w) PROVE Queue!Next
    BY <2>3, CommitSettles DEF Queue!Next
  <2>4. ASSUME NEW w \in Workers,
               Fetch(w) \/ RollBack(w)
               \/ \E e \in Events : HandlerFails(w, e) \/ Mark(w, e)
        PROVE  UNCHANGED Queue!vars
    BY <2>4 DEF Fetch, RollBack, HandlerFails, Mark, Queue!vars
  <2>5. ASSUME UNCHANGED vars PROVE UNCHANGED Queue!vars
    BY <2>5 DEF vars, Queue!vars
  <2>. QED
    BY <2>1, <2>2, <2>3, <2>4, <2>5 DEF Next, Step
<1>. QED
  BY <1>1, <1>2, Invariance, PTL DEF Spec, DeliversAtLeastOnce, Queue!Spec

-----------------------------------------------------------------------------
(* How often the handler is called again. *)

\* A finite set of numbers has a largest one.
LEMMA LargestElement ==
    ASSUME NEW S \in SUBSET Nat, IsFiniteSet(S), S # {}
    PROVE  \E m \in S : \A x \in S : x <= m
<1>. DEFINE Above(e) == {x \in S : x > e}
            C == {Above(e) : e \in S}
<1>1. C \in SUBSET (SUBSET S) /\ C # {}
  OBVIOUS
<1>2. IsWellFoundedOn(StrictSubsetOrdering(S), SUBSET S)
  BY FS_FiniteSubsetsOfFinite, FS_StrictSubsetOrderingWellFounded
<1>3. \E T \in C : \A U \in C : <<U, T>> \notin StrictSubsetOrdering(S)
  <2>. HIDE DEF C
  <2>. QED
    BY <1>1, <1>2, WFMin, Zenon
<1>4. PICK m \in S : \A U \in C : <<U, Above(m)>> \notin StrictSubsetOrdering(S)
  BY <1>3
<1>5. ASSUME NEW x \in S PROVE x <= m
  <2>1. Above(x) \in C /\ Above(x) \in SUBSET S /\ Above(m) \in SUBSET S
    OBVIOUS
  <2>2. SUFFICES ASSUME x > m PROVE FALSE
    OBVIOUS
  <2>3. x \in Above(m) /\ x \notin Above(x)
    BY <2>2
  <2>4. ASSUME NEW y \in Above(x) PROVE y \in Above(m)
    <3>1. y \in S /\ y > x /\ x \in Nat /\ y \in Nat /\ m \in Nat
      BY <2>4
    <3>. QED
      BY <2>2, <3>1
  <2>. HIDE DEF Above
  <2>5. <<Above(x), Above(m)>> \in StrictSubsetOrdering(S)
    BY <2>1, <2>3, <2>4 DEF StrictSubsetOrdering
  <2>. QED
    BY <1>4, <2>1, <2>5
<1>. QED
  BY <1>5

\* LIMIT n returns at most n rows.
LEMMA FirstIsBounded ==
    ASSUME NEW n \in Nat, NEW S \in SUBSET Nat, IsFiniteSet(S)
    PROVE  IsFiniteSet(First(n, S)) /\ Cardinality(First(n, S)) <= n
<1>1. First(n, S) \in SUBSET S /\ First(n, S) \in SUBSET Nat /\ IsFiniteSet(First(n, S))
  BY FS_Subset DEF First
<1>2. CASE First(n, S) = {}
  BY <1>1, <1>2, FS_EmptySet
<1>3. CASE First(n, S) # {}
  <2>1. PICK m \in First(n, S) : \A x \in First(n, S) : x <= m
    BY <1>1, <1>3, LargestElement
  <2>. DEFINE B == {x \in S : x <= m}
  <2>2. Cardinality(B) <= n
    BY <2>1 DEF First
  <2>3. First(n, S) \subseteq B /\ IsFiniteSet(B)
    BY <1>1, <2>1, FS_Subset
  <2>. HIDE DEF B
  <2>4. Cardinality(First(n, S)) <= Cardinality(B)
    BY <2>3, FS_Subset
  <2>5. Cardinality(First(n, S)) \in Nat /\ Cardinality(B) \in Nat
    BY <1>1, <2>3, FS_CardinalityType
  <2>. QED
    BY <1>1, <2>2, <2>4, <2>5
<1>. QED
  BY <1>2, <1>3

\* What the handler has accepted in the open tick of a worker.
Accepted(w) == marked[w] \cup {e \in todo[w] : pc[w] = "mark" /\ AtHead(w, e)}

\* The events whose mark a rollback has undone: they will be handled again.
Debts == {e \in pending : handled[e] > 0 /\ \A w \in Workers : e \notin Accepted(w)}

\* A tick has a batch in hand, each event of it marked or yet to do.
BatchInHand ==
    \A w \in Workers :
        /\ Cardinality(todo[w] \cup marked[w]) <= Batch
        /\ todo[w] \cap marked[w] = {}
        /\ pc[w] = "idle" => todo[w] = {} /\ marked[w] = {}

\* The handler sees only what was published.
HandledWerePublished == \A e \in Events : handled[e] > 0 => e \in pending \cup processed

\* Every fault allows for a batch of repeats, those still to come included.
RepeatsPaidFor ==
    /\ IsFiniteSet(Repeats)
    /\ Cardinality(Repeats) + Cardinality(Debts) <= Batch * faults

\* With IInv, the inductive invariant of RepeatsBounded.
RInv == BatchInHand /\ HandledWerePublished /\ RepeatsPaidFor

\* At the start nothing has been handled.
LEMMA InitRInv == Init => RInv
<1> SUFFICES ASSUME Init PROVE RInv
  OBVIOUS
<1>1. Repeats = {} /\ Debts = {}
  BY DEF Init, Repeats, Debts
<1>2. Cardinality({}) = 0 /\ IsFiniteSet({})
  BY FS_EmptySet
<1>3. BatchInHand
  BY <1>2, WorkerAssumption DEF Init, BatchInHand
<1>4. RepeatsPaidFor
  <2>1. Cardinality(Repeats) = 0 /\ Cardinality(Debts) = 0 /\ faults = 0 /\ IsFiniteSet(Repeats)
    BY <1>1, <1>2 DEF Init
  <2>. QED
    BY <2>1, WorkerAssumption DEF RepeatsPaidFor
<1>. QED
  BY <1>3, <1>4 DEF Init, RInv, HandledWerePublished

\* Events are finitely many, so are those in hand and those in debt.
LEMMA InHandFinite ==
    ASSUME IInv
    PROVE  /\ IsFiniteSet(Debts) /\ IsFiniteSet(Free) /\ Free \in SUBSET Nat
           /\ \A w \in Workers : IsFiniteSet(todo[w] \cup marked[w]) /\ Accepted(w) \subseteq todo[w] \cup marked[w]
<1>1. \A S \in SUBSET Events : IsFiniteSet(S)
  BY FS_Subset, WorkerAssumption
<1>2. pending \in SUBSET Events /\ \A w \in Workers : todo[w] \cup marked[w] \in SUBSET Events
  BY DEF IInv, TypeOK
<1>. QED
  BY <1>1, <1>2, WorkerAssumption DEF Debts, Free, Accepted

\* Each fault allows for a batch.
LEMMA FaultsTimesBatch ==
    ASSUME IInv
    PROVE  Batch \in Nat /\ Batch * faults \in Nat /\ Batch * (faults + 1) = Batch * faults + Batch
<1>1. Batch \in Nat /\ faults \in Nat
  BY WorkerAssumption DEF IInv, TypeOK
<1>. QED
  BY <1>1

\* While nothing new is handled, fewer events in debt do no harm, nor more faults.
LEMMA QuietRepeats ==
    ASSUME IInv, RepeatsPaidFor, UNCHANGED handled, Debts' \subseteq Debts,
           faults' \in {faults, faults + 1}
    PROVE  RepeatsPaidFor'
<1>1. Repeats' = Repeats
  BY DEF Repeats
<1>2. IsFiniteSet(Debts) /\ IsFiniteSet(Debts') /\ Cardinality(Debts') <= Cardinality(Debts)
  BY InHandFinite, FS_Subset
<1>3. Cardinality(Debts) \in Nat /\ Cardinality(Debts') \in Nat /\ Cardinality(Repeats) \in Nat
  BY <1>2, FS_CardinalityType DEF RepeatsPaidFor
<1>4. Batch * faults <= Batch * faults' /\ Batch * faults \in Nat /\ Batch * faults' \in Nat
  BY FaultsTimesBatch
<1>. QED
  BY <1>1, <1>2, <1>3, <1>4 DEF RepeatsPaidFor
\* A new event was never handled, so nothing is in debt for it.
LEMMA PublishRInv ==
    ASSUME IInv, RInv, NEW e \in Events, Publish(e)
    PROVE  RInv'
<1>1. BatchInHand'
  BY DEF Publish, RInv, BatchInHand
<1>2. HandledWerePublished'
  BY DEF Publish, RInv, HandledWerePublished
<1>3. handled[e] = 0
  BY DEF Publish, RInv, HandledWerePublished, IInv, TypeOK
<1>4. Debts' \subseteq Debts
  BY <1>3 DEF Publish, Debts, Accepted, AtHead
<1>5. RepeatsPaidFor'
  BY <1>4, QuietRepeats DEF Publish, RInv
<1>. QED
  BY <1>1, <1>2, <1>5 DEF RInv

\* A tick takes up at most a batch, and has accepted nothing of it.
LEMMA FetchRInv ==
    ASSUME IInv, RInv, NEW w \in Workers, Fetch(w)
    PROVE  RInv'
<1>. DEFINE B == First(Batch, Free)
<1>1. Cardinality(B) <= Batch
  BY InHandFinite, FirstIsBounded, WorkerAssumption
<1>2. /\ todo' = [todo EXCEPT ![w] = B]
      /\ pc[w] = "idle" /\ pc' = [pc EXCEPT ![w] = "handle"]
      /\ UNCHANGED <<pending, processed, marked, handled, faults>>
  BY DEF Fetch
<1>. HIDE DEF B
<1>3. todo[w] = {} /\ marked[w] = {}
  BY <1>2 DEF RInv, BatchInHand
<1>4. BatchInHand'
  <2> SUFFICES ASSUME NEW v \in Workers
               PROVE  /\ Cardinality(todo'[v] \cup marked'[v]) <= Batch
                      /\ todo'[v] \cap marked'[v] = {}
                      /\ pc'[v] = "idle" => todo'[v] = {} /\ marked'[v] = {}
    BY DEF BatchInHand
  <2>1. CASE v = w
    <3>1. todo'[w] = B /\ marked'[w] = {} /\ pc'[w] = "handle"
      BY <1>2, <1>3 DEF IInv, TypeOK
    <3>2. todo'[w] \cup marked'[w] = B
      BY <3>1
    <3>. QED
      BY <1>1, <2>1, <3>1, <3>2
  <2>2. CASE v # w
    BY <1>2, <2>2 DEF IInv, TypeOK, RInv, BatchInHand
  <2>. QED
    BY <2>1, <2>2
<1>5. HandledWerePublished'
  BY <1>2 DEF RInv, HandledWerePublished
<1>6. ASSUME NEW v \in Workers PROVE Accepted(v)' = Accepted(v)
  BY <1>2, <1>3 DEF Accepted, AtHead, IInv, TypeOK
<1>7. Debts' \subseteq Debts
  BY <1>2, <1>6 DEF Debts
<1>8. RepeatsPaidFor'
  BY <1>2, <1>7, QuietRepeats DEF RInv
<1>. QED
  BY <1>4, <1>5, <1>8 DEF RInv

\* An event handled once more is one whose earlier mark was lost.
LEMMA HandleRInv ==
    ASSUME IInv, RInv, NEW w \in Workers, NEW e \in Events, Handle(w, e)
    PROVE  RInv'
<1>1. /\ pc[w] = "handle" /\ pc' = [pc EXCEPT ![w] = "mark"]
      /\ e \in todo[w] /\ e \in pending /\ AtHead(w, e)
      /\ handled' = [handled EXCEPT ![e] = @ + 1]
      /\ handled[e] \in Nat /\ handled'[e] = handled[e] + 1
      /\ \A x \in Events \ {e} : handled'[x] = handled[x]
      /\ UNCHANGED <<pending, processed, todo, marked, faults>>
  BY DEF Handle, AtHead, IInv, TypeOK, TicksIsolated
<1>2. BatchInHand'
  BY <1>1 DEF RInv, BatchInHand, IInv, TypeOK
<1>3. HandledWerePublished'
  BY <1>1 DEF RInv, HandledWerePublished
<1>4. ASSUME NEW v \in Workers PROVE e \notin Accepted(v)
  <2>1. CASE v = w
    BY <1>1, <2>1 DEF RInv, BatchInHand, Accepted
  <2>2. CASE v # w
    BY <1>1, <2>2, InHandFinite DEF IInv, TicksIsolated
  <2>. QED
    BY <2>1, <2>2
<1>5. e \in Accepted(w)' /\ \A v \in Workers : Accepted(v)' \subseteq Accepted(v) \cup {e}
                        /\ Accepted(v) \subseteq Accepted(v)'
  <2>1. \A x \in todo[w] : AtHead(w, x) => x = e
    <3>1. todo[w] \in SUBSET Nat
      BY WorkerAssumption DEF IInv, TypeOK
    <3>. QED
      BY <1>1, <3>1 DEF AtHead
  <2>2. AtHead(w, e)' /\ \A v, x : AtHead(v, x)' <=> AtHead(v, x)
    BY <1>1 DEF AtHead
  <2>3. e \in Accepted(w)' /\ Accepted(w)' \subseteq Accepted(w) \cup {e} /\ Accepted(w) \subseteq Accepted(w)'
    BY <1>1, <2>1, <2>2 DEF Accepted, IInv, TypeOK
  <2>4. \A v \in Workers \ {w} : Accepted(v)' = Accepted(v)
    BY <1>1, <2>2 DEF Accepted, IInv, TypeOK
  <2>. QED
    BY <2>3, <2>4
<1>6. Debts' = Debts \ {e}
  <2>1. e \notin Debts'
    BY <1>5 DEF Debts
  <2>2. ASSUME NEW x \in Events, x # e PROVE x \in Debts' <=> x \in Debts
    BY <1>1, <1>5, <2>2 DEF Debts
  <2>3. Debts \in SUBSET Events /\ Debts' \in SUBSET Events
    BY <1>1 DEF Debts, IInv, TypeOK
  <2>. QED
    BY <2>1, <2>2, <2>3
<1>7. CASE handled[e] = 0
  <2>1. e \notin Debts
    BY <1>7 DEF Debts
  <2>2. Repeats' = Repeats
    <3>1. \A x \in Events : 2..handled'[x] = 2..handled[x]
      BY <1>1, <1>7
    <3>. QED
      BY <3>1 DEF Repeats
  <2>3. Debts' = Debts
    BY <1>6, <2>1
  <2>. QED
    BY <1>1, <1>2, <1>3, <2>2, <2>3 DEF RInv, RepeatsPaidFor
<1>8. CASE handled[e] # 0
  <2>. DEFINE again == <<e, handled[e] + 1>>
  <2>1. e \in Debts
    BY <1>1, <1>4, <1>8 DEF Debts
  <2>2. Repeats' = Repeats \cup {again} /\ again \notin Repeats
    <3>1. 2..handled'[e] = (2..handled[e]) \cup {handled[e] + 1}
      BY <1>1, <1>8
    <3>2. handled[e] + 1 \notin 2..handled[e]
      BY <1>1
    <3>3. \A x \in Events \ {e} : 2..handled'[x] = 2..handled[x]
      BY <1>1
    <3>4. /\ \A x \in Events, n \in Nat : <<x, n>> \in Repeats <=> n \in 2..handled[x]
          /\ \A x \in Events, n \in Nat : <<x, n>> \in Repeats' <=> n \in 2..handled'[x]
      BY DEF Repeats
    <3>5. Repeats \in SUBSET (Events \X Nat) /\ Repeats' \in SUBSET (Events \X Nat)
      BY <1>1 DEF Repeats, IInv, TypeOK
    <3>6. ASSUME NEW x \in Events, NEW n \in Nat
          PROVE  <<x, n>> \in Repeats' <=> <<x, n>> \in Repeats \/ <<x, n>> = again
      <4>1. CASE x = e
        BY <3>1, <3>4, <4>1
      <4>2. CASE x # e
        BY <3>3, <3>4, <4>2
      <4>. QED
        BY <4>1, <4>2
    <3>7. again \in Events \X Nat /\ again \notin Repeats
      BY <1>1, <3>2, <3>4
    <3>. HIDE DEF again
    <3>8. \A z \in Events \X Nat : z \in Repeats' <=> z \in Repeats \/ z = again
      BY <3>6
    <3>. QED
      BY <3>5, <3>7, <3>8
  <2>3. IsFiniteSet(Repeats') /\ Cardinality(Repeats') = Cardinality(Repeats) + 1
    BY <2>2, FS_AddElement DEF RInv, RepeatsPaidFor
  <2>4. Cardinality(Debts') = Cardinality(Debts) - 1
    BY <1>6, <2>1, InHandFinite, FS_RemoveElement
  <2>5. Cardinality(Repeats) \in Nat /\ Cardinality(Debts) \in Nat
    BY InHandFinite, FS_CardinalityType DEF RInv, RepeatsPaidFor
  <2>. QED
    BY <1>1, <1>2, <1>3, <2>3, <2>4, <2>5 DEF RInv, RepeatsPaidFor
<1>. QED
  BY <1>7, <1>8
\* A refused event leaves the batch, an accepted one goes from to do to marked.
LEMMA ProceedRInv ==
    ASSUME IInv, RInv, NEW w \in Workers, NEW e \in Events, HandlerFails(w, e) \/ Mark(w, e)
    PROVE  RInv'
<1>1. /\ e \in todo[w]
      /\ todo' = [todo EXCEPT ![w] = @ \ {e}]
      /\ pc'[w] \in {"handle", "commit"}
      /\ \A v \in Workers \ {w} : pc'[v] = pc[v] /\ marked'[v] = marked[v]
      /\ marked'[w] \in {marked[w], marked[w] \cup {e}}
      /\ UNCHANGED <<pending, processed, handled>>
      /\ faults' \in {faults, faults + 1}
  BY DEF HandlerFails, Mark, Proceed, AtHead, Fault, IInv, TypeOK
<1>2. Accepted(w)' = Accepted(w)
  <2>1. \A x \in todo[w] : AtHead(w, x) /\ AtHead(w, e) => x = e
    <3>1. todo[w] \in SUBSET Nat
      BY WorkerAssumption DEF IInv, TypeOK
    <3>. QED
      BY <1>1, <3>1 DEF AtHead
  <2>2. Accepted(w)' = marked'[w]
    BY <1>1 DEF Accepted
  <2>3. CASE HandlerFails(w, e)
    BY <2>2, <2>3 DEF HandlerFails, Accepted
  <2>4. CASE Mark(w, e)
    BY <1>1, <2>1, <2>2, <2>4 DEF Mark, Accepted, IInv, TypeOK
  <2>. QED
    BY <2>3, <2>4
<1>3. \A v \in Workers \ {w} : Accepted(v)' = Accepted(v)
  BY <1>1 DEF Accepted, AtHead, IInv, TypeOK
<1>4. BatchInHand'
  <2> SUFFICES ASSUME NEW v \in Workers
               PROVE  /\ Cardinality(todo'[v] \cup marked'[v]) <= Batch
                      /\ todo'[v] \cap marked'[v] = {}
                      /\ pc'[v] = "idle" => todo'[v] = {} /\ marked'[v] = {}
    BY DEF BatchInHand
  <2>1. CASE v = w
    <3>1. /\ todo'[w] \cup marked'[w] \subseteq todo[w] \cup marked[w]
          /\ todo'[w] \cap marked'[w] = {}
      BY <1>1 DEF IInv, TypeOK, RInv, BatchInHand
    <3>2. /\ IsFiniteSet(todo[w] \cup marked[w])
          /\ Cardinality(todo'[w] \cup marked'[w]) <= Cardinality(todo[w] \cup marked[w])
          /\ Cardinality(todo'[w] \cup marked'[w]) \in Nat
          /\ Cardinality(todo[w] \cup marked[w]) \in Nat
      BY <3>1, InHandFinite, FS_Subset, FS_CardinalityType
    <3>3. Cardinality(todo[w] \cup marked[w]) <= Batch
      BY DEF RInv, BatchInHand
    <3>. QED
      BY <1>1, <2>1, <3>1, <3>2, <3>3, FaultsTimesBatch
  <2>2. CASE v # w
    BY <1>1, <2>2 DEF IInv, TypeOK, RInv, BatchInHand
  <2>. QED
    BY <2>1, <2>2
<1>5. HandledWerePublished'
  BY <1>1 DEF RInv, HandledWerePublished
<1>6. Debts' \subseteq Debts
  BY <1>1, <1>2, <1>3 DEF Debts
<1>7. RepeatsPaidFor'
  BY <1>1, <1>6, QuietRepeats DEF RInv
<1>. QED
  BY <1>4, <1>5, <1>7 DEF RInv

\* A tick that ends has nothing in hand any more.
LEMMA EndTickInHand ==
    ASSUME IInv, RInv, NEW w \in Workers, EndTick(w)
    PROVE  /\ BatchInHand'
           /\ Accepted(w)' = {}
           /\ \A v \in Workers \ {w} : Accepted(v)' = Accepted(v)
<1>1. Cardinality({}) <= Batch
  BY FS_EmptySet, WorkerAssumption
<1>2. /\ todo'[w] = {} /\ marked'[w] = {}
      /\ \A v \in Workers \ {w} : todo'[v] = todo[v] /\ marked'[v] = marked[v] /\ pc'[v] = pc[v]
  BY EndTickOthers
<1>3. Cardinality(todo'[w] \cup marked'[w]) <= Batch
  BY <1>1, <1>2
<1>. QED
  BY <1>2, <1>3 DEF RInv, BatchInHand, Accepted, AtHead

\* What a commit settles was in no debt.
LEMMA CommitRInv ==
    ASSUME IInv, RInv, NEW w \in Workers, Commit(w)
    PROVE  RInv'
<1>1. /\ EndTick(w) /\ UNCHANGED <<handled, faults>> /\ pc[w] = "commit"
      /\ processed' = processed \cup marked[w] /\ pending' = pending \ marked[w]
  BY DEF Commit
<1>2. Accepted(w) = marked[w]
  BY <1>1 DEF Accepted
<1>3. HandledWerePublished'
  BY <1>1 DEF RInv, HandledWerePublished
<1>4. Debts' \subseteq Debts
  BY <1>1, <1>2, EndTickInHand DEF Debts
<1>5. RepeatsPaidFor'
  BY <1>1, <1>4, QuietRepeats DEF RInv
<1>. QED
  BY <1>1, <1>3, <1>5, EndTickInHand DEF RInv

\* A rollback puts at most the batch in hand into debt.
LEMMA RollBackRInv ==
    ASSUME IInv, RInv, NEW w \in Workers, RollBack(w)
    PROVE  RInv'
<1>1. EndTick(w) /\ faults' = faults + 1 /\ UNCHANGED <<pending, processed, handled>>
  BY DEF RollBack, Fault
<1>2. HandledWerePublished'
  BY <1>1 DEF RInv, HandledWerePublished
<1>. DEFINE hand == todo[w] \cup marked[w]
<1>3. Debts' \subseteq Debts \cup hand
  BY <1>1, EndTickInHand, InHandFinite DEF Debts
<1>4. IsFiniteSet(Debts) /\ IsFiniteSet(hand) /\ Cardinality(hand) <= Batch
  BY InHandFinite DEF RInv, BatchInHand
<1>. HIDE DEF hand
<1>5. /\ IsFiniteSet(Debts \cup hand)
      /\ Cardinality(Debts \cup hand) <= Cardinality(Debts) + Cardinality(hand)
  <2>1. /\ IsFiniteSet(Debts \cup hand)
        /\ Cardinality(Debts \cup hand)
             = Cardinality(Debts) + Cardinality(hand) - Cardinality(Debts \cap hand)
    BY <1>4, FS_Union
  <2>2. Cardinality(Debts \cap hand) \in Nat
    BY <1>4, FS_Intersection, FS_CardinalityType
  <2>. QED
    BY <1>4, <2>1, <2>2, FS_CardinalityType
<1>6. Cardinality(Debts') <= Cardinality(Debts \cup hand)
  BY <1>3, <1>5, FS_Subset
<1>7. /\ Cardinality(Debts) \in Nat /\ Cardinality(hand) \in Nat
      /\ Cardinality(Debts \cup hand) \in Nat
      /\ Cardinality(Debts') \in Nat /\ Cardinality(Repeats) \in Nat
  BY <1>3, <1>4, <1>5, FS_Subset, FS_CardinalityType DEF RInv, RepeatsPaidFor
<1>8. Repeats' = Repeats
  BY <1>1 DEF Repeats
<1>9. RepeatsPaidFor'
  <2>1. Cardinality(Repeats) + Cardinality(Debts) <= Batch * faults
    BY DEF RInv, RepeatsPaidFor
  <2>2. Batch \in Nat /\ Batch * faults \in Nat /\ Batch * faults' = Batch * faults + Batch
    BY <1>1, FaultsTimesBatch
  <2>3. Cardinality(Repeats) + Cardinality(Debts') <= Batch * faults'
    BY <1>4, <1>5, <1>6, <1>7, <2>1, <2>2
  <2>. QED
    BY <1>8, <2>3 DEF RInv, RepeatsPaidFor
<1>. QED
  BY <1>1, <1>2, <1>9, EndTickInHand DEF RInv

\* Every step preserves the invariant.
LEMMA NextRInv == IInv /\ RInv /\ [Next]_vars => RInv'
<1> SUFFICES ASSUME IInv, RInv, [Next]_vars PROVE RInv'
  OBVIOUS
<1>1. ASSUME NEW e \in Events, Publish(e) PROVE RInv'
  BY <1>1, PublishRInv
<1>2. ASSUME NEW w \in Workers, Fetch(w) PROVE RInv'
  BY <1>2, FetchRInv
<1>3. ASSUME NEW w \in Workers, NEW e \in Events, Handle(w, e) PROVE RInv'
  BY <1>3, HandleRInv
<1>4. ASSUME NEW w \in Workers, NEW e \in Events, HandlerFails(w, e) \/ Mark(w, e) PROVE RInv'
  BY <1>4, ProceedRInv
<1>5. ASSUME NEW w \in Workers, Commit(w) PROVE RInv'
  BY <1>5, CommitRInv
<1>6. ASSUME NEW w \in Workers, RollBack(w) PROVE RInv'
  BY <1>6, RollBackRInv
<1>7. ASSUME UNCHANGED vars PROVE RInv'
  BY <1>7 DEF vars, RInv, BatchInHand, HandledWerePublished, RepeatsPaidFor, Repeats, Debts,
              Accepted, AtHead
<1>. QED
  BY <1>1, <1>2, <1>3, <1>4, <1>5, <1>6, <1>7 DEF Next, Step

\* However many workers, crashes, rollbacks and lost answers there are, the
\* handler is called again at most a batch of times for each of them.
THEOREM RepeatsArePaidFor == Spec => []RepeatsBounded
<1>1. Spec => []RInv
  BY InitRInv, NextRInv, Invariance, PTL DEF Spec
<1>2. IInv /\ RInv => RepeatsBounded
  <2> SUFFICES ASSUME IInv, RInv PROVE RepeatsBounded
    OBVIOUS
  <2>1. Cardinality(Repeats) \in Nat /\ Cardinality(Debts) \in Nat
    BY InHandFinite, FS_CardinalityType DEF RInv, RepeatsPaidFor
  <2>2. Cardinality(Repeats) + Cardinality(Debts) <= Batch * faults /\ Batch * faults \in Nat
    BY FaultsTimesBatch DEF RInv, RepeatsPaidFor
  <2>. QED
    BY <2>1, <2>2 DEF RepeatsBounded
<1>. QED
  BY <1>1, <1>2, Invariance, PTL
=============================================================================
