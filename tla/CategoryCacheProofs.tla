------------------------ MODULE CategoryCacheProofs ------------------------
(***************************************************************************)
(* The promises of the category cache for any number of calls and any Ttl. *)
(* The inductive invariant adds that only the holder of the write lock is  *)
(* past its second look, so that its reading of the clock is still not     *)
(* before the expiry of the entry it is about to replace; and that the     *)
(* Replica had not replaced the cached list before the Ttl that ends with  *)
(* its expiry began.                                                       *)
(***************************************************************************)
EXTENDS CategoryCache, TLAPS

WriterFetches ==
    \A g \in Getters :
        /\ writer = g <=> pc[g] \in {"fetch", "store"}
        /\ writer = g => now[g] >= expiresAt

EntryInTime ==
    /\ expiresAt <= clock + Ttl
    /\ expiresAt > 0 => items \in Versions /\ CurrentSince(items, expiresAt - Ttl)

CallInTime(g) ==
    /\ now[g] <= clock
    /\ pc[g] = "store" => fetched[g] \in Versions /\ CurrentSince(fetched[g], now[g])
    /\ result[g] # None => CurrentSince(result[g], now[g] - Ttl + 1)
    /\ pc[g] # "done" => result[g] = None

IInv == TypeOK /\ WriterFetches /\ EntryInTime /\ \A g \in Getters : CallInTime(g)

\* A list not replaced before t is not when time passes, or it is replaced now.
LEMMA CurrentStays ==
    ASSUME TypeOK, Tick \/ Edit \/ Apply, NEW v \in Versions, NEW t \in Int, t <= clock,
           CurrentSince(v, t)
    PROVE  CurrentSince(v, t)'
BY CacheAssumption DEF TypeOK, Tick, Edit, Apply, CurrentSince, Versions

\* At the start nothing is cached and nobody has the lock.
LEMMA InitIInv == Init => IInv
BY CacheAssumption
DEF Init, IInv, TypeOK, WriterFetches, EntryInTime, CallInTime, Versions

\* A call goes on without the write lock.
LEMMA ReaderIInv ==
    ASSUME IInv, NEW g \in Getters, ReadClock(g) \/ Hit(g) \/ Miss(g) \/ LateHit(g)
    PROVE  IInv'
<1>. USE CacheAssumption DEF IInv, ReadClock, Hit, Miss, LateHit, Return, Good
<1>1. TypeOK'
  BY DEF TypeOK, EntryInTime
<1>2. WriterFetches'
  BY DEF TypeOK, WriterFetches
<1>3. EntryInTime'
  BY DEF EntryInTime, CurrentSince
<1>4. ASSUME NEW x \in Getters PROVE CallInTime(x)'
  BY DEF TypeOK, EntryInTime, CallInTime, CurrentSince
<1>. QED
  BY <1>1, <1>2, <1>3, <1>4

\* A call gets the write lock, fetches, stores or fails.
LEMMA WriterIInv ==
    ASSUME IInv, NEW g \in Getters, LockToFetch(g) \/ Fetch(g) \/ Store(g) \/ Fail(g)
    PROVE  IInv'
<1>. USE CacheAssumption DEF IInv, LockToFetch, Fetch, Store, Fail, Return, Good
<1>1. TypeOK'
  <2>1. pc[g] = "store" => fetched[g] \in Versions
    BY DEF CallInTime
  <2>2. expiresAt' \in Nat
    BY DEF TypeOK
  <2>3. items' \in Versions \cup {None} /\ result' \in [Getters -> Versions \cup {None}]
    BY <2>1 DEF TypeOK
  <2>4. fetched' \in [Getters -> Versions \cup {None}]
    BY DEF TypeOK
  <2>5. UNCHANGED <<clock, version, applied, replacedAt, now>>
    OBVIOUS
  <2>6. /\ writer' \in Getters \cup {None}
        /\ pc' \in [Getters -> {"start", "look", "lock", "fetch", "store", "done"}]
    BY DEF TypeOK
  <2>. HIDE DEF IInv, LockToFetch, Fetch, Store, Fail
  <2>7. TypeOK
    BY DEF IInv
  <2>. QED
    BY <2>2, <2>3, <2>4, <2>5, <2>6, <2>7 DEF TypeOK, Versions
<1>2. WriterFetches'
  BY DEF TypeOK, WriterFetches
<1>3. EntryInTime'
  <2>1. CASE Store(g)
    <3>1. now[g] \in 0..clock /\ clock \in Nat
      BY DEF TypeOK, CallInTime
    <3>2. fetched[g] \in Versions /\ CurrentSince(fetched[g], now[g])
      BY <2>1 DEF CallInTime
    <3>3. /\ items' = fetched[g] /\ expiresAt' = now[g] + Ttl
          /\ UNCHANGED <<clock, applied, replacedAt>>
      BY <2>1
    <3>. HIDE DEF IInv, Store
    <3>4. expiresAt' <= clock' + Ttl /\ expiresAt' - Ttl = now[g]
      BY <3>1, <3>3
    <3>. QED
      BY <3>2, <3>3, <3>4 DEF EntryInTime, CurrentSince
  <2>2. CASE LockToFetch(g) \/ Fetch(g) \/ Fail(g)
    BY <2>2 DEF EntryInTime, CurrentSince
  <2>. QED
    BY <2>1, <2>2
<1>4. ASSUME NEW x \in Getters PROVE CallInTime(x)'
  <2>1. UNCHANGED <<clock, version, applied, replacedAt, now>>
    OBVIOUS
  <2>2. CASE x # g
    BY <2>1, <2>2 DEF TypeOK, CallInTime, CurrentSince
  <2>3. CASE x = g /\ Store(g)
    <3>1. result'[g] = fetched[g] /\ pc'[g] = "done" /\ fetched[g] \in Versions
      BY <2>3 DEF TypeOK, CallInTime
    <3>2. CurrentSince(fetched[g], now[g] - Ttl + 1)
      BY <2>3 DEF TypeOK, CallInTime, CurrentSince, Versions
    <3>. QED
      BY <2>1, <2>3, <3>1, <3>2 DEF CallInTime, CurrentSince
  <2>4. CASE x = g /\ Fetch(g)
    BY <2>1, <2>4 DEF TypeOK, CallInTime, CurrentSince, Versions
  <2>5. CASE x = g /\ (LockToFetch(g) \/ Fail(g))
    BY <2>1, <2>5 DEF TypeOK, CallInTime, CurrentSince
  <2>. QED
    BY <2>2, <2>3, <2>4, <2>5
<1>. QED
  BY <1>1, <1>2, <1>3, <1>4

\* A deadline moves with the clock.
LEMMA LaterDeadline == \A e, t, u, d \in Nat : e <= t + d /\ t <= u => e <= u + d
OBVIOUS

\* Time passes, or the categories are edited on the Primary or the Replica.
LEMMA SurroundingsIInv ==
    ASSUME IInv, Tick \/ Edit \/ Apply
    PROVE  IInv'
<1>. USE CacheAssumption DEF IInv
<1>1. TypeOK'
  <2>1. /\ clock' \in 0..MaxClock
        /\ version' \in Versions /\ applied' \in Versions /\ applied' <= version'
    <3>1. CASE Tick
      BY <3>1 DEF TypeOK, Tick, Versions
    <3>2. CASE Edit \/ Apply
      BY <3>2 DEF TypeOK, Edit, Apply, Versions
    <3>. QED
      BY <3>1, <3>2
  <2>2. replacedAt' \in [Versions -> 0..MaxClock]
    BY DEF TypeOK, Tick, Edit, Apply, Versions
  <2>. QED
    BY <2>1, <2>2 DEF TypeOK, Tick, Edit, Apply
<1>2. WriterFetches'
  BY DEF WriterFetches, Tick, Edit, Apply
<1>3. /\ UNCHANGED <<items, expiresAt, pc, now, fetched, result>>
      /\ clock \in Nat /\ clock' \in Nat /\ clock <= clock'
  BY DEF TypeOK, Tick, Edit, Apply
<1>4. EntryInTime'
  <2>1. TypeOK /\ Ttl \in Nat /\ expiresAt \in Nat /\ expiresAt <= clock + Ttl
    BY DEF TypeOK, EntryInTime
  <2>2. expiresAt - Ttl \in Int /\ expiresAt - Ttl <= clock /\ expiresAt' <= clock' + Ttl
    <3>1. expiresAt' = expiresAt
      BY <1>3
    <3>2. expiresAt - Ttl \in Int /\ expiresAt - Ttl <= clock
      BY <1>3, <2>1
    <3>3. expiresAt <= clock' + Ttl
      BY <1>3, <2>1, LaterDeadline
    <3>. QED
      BY <3>1, <3>2, <3>3
  <2>3. ASSUME expiresAt > 0
        PROVE  items \in Versions /\ (items < applied' => replacedAt'[items] >= expiresAt - Ttl)
    <3>1. items \in Versions /\ CurrentSince(items, expiresAt - Ttl)
      BY <2>3 DEF EntryInTime
    <3>. QED
      BY <2>1, <2>2, <3>1, CurrentStays DEF CurrentSince
  <2>. QED
    BY <1>3, <2>2, <2>3 DEF EntryInTime, CurrentSince
<1>5. ASSUME NEW g \in Getters PROVE CallInTime(g)'
  BY <1>3, CurrentStays DEF TypeOK, CallInTime
<1>. QED
  BY <1>1, <1>2, <1>4, <1>5

\* Every step preserves the invariant.
LEMMA NextIInv == IInv /\ [Next]_vars => IInv'
<1> SUFFICES ASSUME IInv, [Next]_vars PROVE IInv'
  OBVIOUS
<1>1. ASSUME NEW g \in Getters, Step(g) PROVE IInv'
  BY <1>1, ReaderIInv, WriterIInv DEF Step
<1>2. CASE Tick \/ Edit \/ Apply
  BY <1>2, SurroundingsIInv
<1>3. CASE UNCHANGED vars
  BY <1>3 DEF vars, IInv, TypeOK, WriterFetches, EntryInTime, CallInTime, CurrentSince
<1>. QED
  BY <1>1, <1>2, <1>3 DEF Next

\* The cache keeps its invariant.
THEOREM Invariance == Spec => []IInv
BY InitIInv, NextIInv, PTL DEF Spec

\* All variables have their types.
THEOREM TypeCorrect == Spec => []TypeOK
<1>1. IInv => TypeOK
  BY DEF IInv
<1>. QED
  BY <1>1, Invariance, PTL

\* Get never answers with a list that the Replica had replaced for Ttl when the call
\* read its clock: the cache adds less than Ttl to the Replica's lag.
THEOREM Freshness == Spec => []OlderByLessThanTtl
<1>1. IInv => OlderByLessThanTtl
  BY DEF IInv, CallInTime, OlderByLessThanTtl
<1>. QED
  BY <1>1, Invariance, PTL

\* At most one entry per Ttl is stored, and no entry is shortened.
THEOREM NoStampede == Spec => OneEntryPerTtl
<1>1. IInv /\ [Next]_vars => [expiresAt' # expiresAt => expiresAt' >= expiresAt + Ttl]_vars
  <2> SUFFICES ASSUME IInv, Next, expiresAt' # expiresAt
               PROVE  expiresAt' >= expiresAt + Ttl
    OBVIOUS
  <2>1. PICK g \in Getters : Store(g)
    BY DEF Next, Step, ReadClock, Hit, Miss, LateHit, LockToFetch, Fetch, Fail, Tick, Edit, Apply
  <2>. QED
    BY <2>1, CacheAssumption DEF Store, IInv, TypeOK, WriterFetches
<1>. QED
  BY <1>1, Invariance, PTL DEF Spec, OneEntryPerTtl
=============================================================================
