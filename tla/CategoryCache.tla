--------------------------- MODULE CategoryCache ---------------------------
(***************************************************************************)
(* catalog.CategoryCache.Get called from several goroutines.  Get reads    *)
(* the clock once, before any lock, and judges the entry by that reading   *)
(* three times: under the read lock, again under the write lock, and when  *)
(* it sets the next expiry.  The fetch runs under the write lock.          *)
(*                                                                         *)
(* The list of categories is a version number; the read lock is held over  *)
(* two reads of memory and nothing that waits, so its holder is not kept.  *)
(* The fetch goes through DBRouter.Reader, so it may read a Replica that   *)
(* lags by any amount (module ReadPath says when): what the cache promises *)
(* is relative to the Replica, which has no list the Primary never had.    *)
(***************************************************************************)
EXTENDS Integers

CONSTANTS
    Getters,        \* calls of Get, each runs once
    Ttl,            \* how long an entry is good for
    MaxClock,       \* bound: the clock stops here
    MaxVersion,     \* bound: changes of the categories
    None            \* no getter, or no list

ASSUME CacheAssumption ==
    /\ Ttl \in Nat \ {0}
    /\ MaxClock \in Nat /\ MaxVersion \in Nat
    /\ None \notin Getters \cup Nat

VARIABLES
    clock,          \* time.Now
    version,        \* the categories on the Primary
    applied,        \* the categories on the Replica
    replacedAt,     \* history: when the Replica replaced a version
    items,          \* the cached list
    expiresAt,      \* until when it is good
    writer,         \* who holds the write lock
    pc, now, fetched, result    \* per call: next step, its reading of the clock,
                                \* what ListCategories gave it, its answer

vars == <<clock, version, applied, replacedAt, items, expiresAt, writer, pc, now, fetched, result>>

Init ==
    /\ clock \in 0..MaxClock
    /\ version = 0 /\ applied = 0
    /\ replacedAt = [v \in 0..MaxVersion |-> 0]
    /\ items = None
    /\ expiresAt = 0
    /\ writer = None
    /\ pc = [g \in Getters |-> "start"]
    /\ now = [g \in Getters |-> 0]
    /\ fetched = [g \in Getters |-> None]
    /\ result = [g \in Getters |-> None]

Return(g, answer) ==
    /\ result' = [result EXCEPT ![g] = answer]
    /\ pc' = [pc EXCEPT ![g] = "done"]

Good(g) == now[g] < expiresAt

ReadClock(g) ==
    /\ pc[g] = "start"
    /\ now' = [now EXCEPT ![g] = clock]
    /\ pc' = [pc EXCEPT ![g] = "look"]
    /\ UNCHANGED <<clock, version, applied, replacedAt, items, expiresAt, writer, fetched, result>>

\* RLock, the check and RUnlock.
Hit(g) ==
    /\ pc[g] = "look" /\ writer = None
    /\ Good(g)
    /\ Return(g, items)
    /\ UNCHANGED <<clock, version, applied, replacedAt, items, expiresAt, writer, now, fetched>>

Miss(g) ==
    /\ pc[g] = "look" /\ writer = None
    /\ ~Good(g)
    /\ pc' = [pc EXCEPT ![g] = "lock"]
    /\ UNCHANGED <<clock, version, applied, replacedAt, items, expiresAt, writer, now, fetched, result>>

\* Lock, and the entry is good by now: another call has fetched it.
LateHit(g) ==
    /\ pc[g] = "lock" /\ writer = None
    /\ Good(g)
    /\ Return(g, items)
    /\ UNCHANGED <<clock, version, applied, replacedAt, items, expiresAt, writer, now, fetched>>

\* Mistake: no second look once the write lock is there.
LockAndFetch(g) ==
    /\ pc[g] = "lock" /\ writer = None
    /\ writer' = g
    /\ pc' = [pc EXCEPT ![g] = "fetch"]
    /\ UNCHANGED <<clock, version, applied, replacedAt, items, expiresAt, now, fetched, result>>

\* Lock, and it is up to this call, which keeps the lock while it fetches.
LockToFetch(g) ==
    /\ pc[g] = "lock" /\ writer = None
    /\ ~Good(g)
    /\ writer' = g
    /\ pc' = [pc EXCEPT ![g] = "fetch"]
    /\ UNCHANGED <<clock, version, applied, replacedAt, items, expiresAt, now, fetched, result>>

\* ListCategories reads the table of the database Reader chooses; the answer takes its
\* time to arrive.
Fetch(g) ==
    /\ pc[g] = "fetch"
    /\ \E database \in {version, applied} : fetched' = [fetched EXCEPT ![g] = database]
    /\ pc' = [pc EXCEPT ![g] = "store"]
    /\ UNCHANGED <<clock, version, applied, replacedAt, items, expiresAt, writer, now, result>>

\* Mistake: the entry is good for Ttl from when it is stored.
StoreFromNow(g) ==
    /\ pc[g] = "store"
    /\ items' = fetched[g]
    /\ expiresAt' = clock + Ttl
    /\ writer' = None
    /\ Return(g, fetched[g])
    /\ UNCHANGED <<clock, version, applied, replacedAt, now, fetched>>

\* Mistake: the sign of the duration.
StoreBackdated(g) ==
    /\ pc[g] = "store"
    /\ items' = fetched[g]
    /\ expiresAt' = now[g] - Ttl
    /\ writer' = None
    /\ Return(g, fetched[g])
    /\ UNCHANGED <<clock, version, applied, replacedAt, now, fetched>>

\* The entry is good for Ttl from the reading of the clock; Unlock.
Store(g) ==
    /\ pc[g] = "store"
    /\ items' = fetched[g]
    /\ expiresAt' = now[g] + Ttl
    /\ writer' = None
    /\ Return(g, fetched[g])
    /\ UNCHANGED <<clock, version, applied, replacedAt, now, fetched>>

\* Mistake: no deferred Unlock on the way out with an error.
FailLocked(g) ==
    /\ pc[g] \in {"fetch", "store"}
    /\ Return(g, None)
    /\ UNCHANGED <<clock, version, applied, replacedAt, items, expiresAt, writer, now, fetched>>

\* ListCategories fails: nothing is cached; Unlock.
Fail(g) ==
    /\ pc[g] \in {"fetch", "store"}
    /\ writer' = None
    /\ Return(g, None)
    /\ UNCHANGED <<clock, version, applied, replacedAt, items, expiresAt, now, fetched>>

Tick ==
    /\ clock < MaxClock
    /\ clock' = clock + 1
    /\ UNCHANGED <<version, applied, replacedAt, items, expiresAt, writer, pc, now, fetched, result>>

\* Someone edits the categories, on the Primary.
Edit ==
    /\ version < MaxVersion
    /\ version' = version + 1
    /\ UNCHANGED <<clock, applied, replacedAt, items, expiresAt, writer, pc, now, fetched, result>>

\* The Replica follows, at any distance.
Apply ==
    /\ applied < version
    /\ applied' = applied + 1
    /\ replacedAt' = [replacedAt EXCEPT ![applied] = clock]
    /\ UNCHANGED <<clock, version, items, expiresAt, writer, pc, now, fetched, result>>

Step(g) ==
    \/ ReadClock(g)
    \/ Hit(g) \/ Miss(g)
    \/ LateHit(g) \/ LockToFetch(g)
    \/ Fetch(g) \/ Store(g) \/ Fail(g)

Next == (\E g \in Getters : Step(g)) \/ Tick \/ Edit \/ Apply

Spec == Init /\ [][Next]_vars

\* Every goroutine runs on; no call waits twice for a lock that is free.
FairSpec == Spec /\ \A g \in Getters : WF_vars(Step(g))
-----------------------------------------------------------------------------
(* Properties. *)

Versions == 0..MaxVersion

TypeOK ==
    /\ clock \in 0..MaxClock
    /\ version \in Versions /\ applied \in Versions /\ applied <= version
    /\ replacedAt \in [Versions -> 0..MaxClock]
    /\ items \in Versions \cup {None}
    /\ expiresAt \in Nat
    /\ writer \in Getters \cup {None}
    /\ pc \in [Getters -> {"start", "look", "lock", "fetch", "store", "done"}]
    /\ now \in [Getters -> 0..MaxClock]
    /\ fetched \in [Getters -> Versions \cup {None}]
    /\ result \in [Getters -> Versions \cup {None}]

\* Had the Replica not replaced version v before t?
CurrentSince(v, t) == v < applied => replacedAt[v] >= t

\* The cache adds at most the Ttl to the lag of the Replica: no call is answered with
\* a list that the Replica itself had replaced for Ttl or longer when the call read
\* the clock, however long a fetch, or the wait for another call's, has taken.
OlderByLessThanTtl ==
    \A g \in Getters :
        result[g] # None => CurrentSince(result[g], now[g] - Ttl + 1)

\* No stampede: of all calls that miss at once, and of those that come while
\* one fetches, at most one entry per Ttl is stored, and an entry is never
\* replaced by one that expires earlier.
OneEntryPerTtl == [][expiresAt' # expiresAt => expiresAt' >= expiresAt + Ttl]_vars

\* Get returns, whatever fails.
GetReturns == \A g \in Getters : pc[g] = "look" ~> pc[g] = "done"
=============================================================================
