--------------------------- MODULE CheckoutProofs ---------------------------
(***************************************************************************)
(* What Checkout guarantees for any number of users, products, requests    *)
(* and days.  IInv is inductive: a request's locks, its uncommitted row    *)
(* versions and its inserted rows are exactly what its pc says, so a       *)
(* commit publishes one whole order and a rollback publishes nothing.      *)
(*                                                                         *)
(* The books follow from that: each commit adds one order to the sums over *)
(* all of them.  What a sum over a finite set is comes first.              *)
(***************************************************************************)
EXTENDS Checkout, FiniteSetTheorems, TLAPS

-----------------------------------------------------------------------------
(* Sums over finite sets. *)

\* Of the subsets of a finite set that are in C, some contain no other.  This is
\* how the facts below are shown for every finite set: a smallest one for which
\* such a fact failed would have a smaller one for which it holds.
LEMMA MinimalSubset ==
    ASSUME NEW S, IsFiniteSet(S), NEW C \in SUBSET (SUBSET S), C # {}
    PROVE  \E T \in C : \A U \in C : U \subseteq T => U = T
<1>1. IsWellFoundedOn(StrictSubsetOrdering(S), SUBSET S)
  BY FS_FiniteSubsetsOfFinite, FS_StrictSubsetOrderingWellFounded
<1>2. PICK T \in C : \A U \in C : <<U, T>> \notin StrictSubsetOrdering(S)
  BY <1>1, WFMin, Zenon
<1>3. \A U \in C : U \subseteq T => U = T
  BY <1>2 DEF StrictSubsetOrdering
<1>. QED
  BY <1>3

\* The element that a sum takes first, and the rest.
Some(s) == CHOOSE x \in s : TRUE
Rest(s) == s \ {Some(s)}

\* g adds up f over every subset of S.
Adds(f, S, g) ==
    g = [s \in SUBSET S |-> IF s = {} THEN 0 ELSE f[Some(s)] + g[Rest(s)]]

\* The element taken is one of the set.
LEMMA SomeIsIn ==
    ASSUME NEW s, s # {}
    PROVE  Some(s) \in s
BY DEF Some

\* Taking one leaves less.
LEMMA RestIsSmaller ==
    ASSUME NEW S, NEW s \in SUBSET S, s # {}
    PROVE  Rest(s) \in SUBSET S /\ Rest(s) # S /\ Rest(s) \in SUBSET s /\ Rest(s) # s
BY SomeIsIn DEF Rest

\* SumFunctionOnSet is the value of such a function.
LEMMA SumIsAdds ==
    ASSUME NEW f, NEW S
    PROVE  SumFunctionOnSet(f, S) = (CHOOSE g : Adds(f, S, g))[S]
BY DEF SumFunctionOnSet, FoldFunctionOnSet, MapThenFoldSet, Adds, Some, Rest

\* One step of adding up.
LEMMA AddsStep ==
    ASSUME NEW f, NEW S, NEW g, Adds(f, S, g), NEW s \in SUBSET S
    PROVE  g[s] = IF s = {} THEN 0 ELSE f[Some(s)] + g[Rest(s)]
BY DEF Adds

\* There is one result of adding up a finite set, whatever larger set it is
\* added up as a part of.
LEMMA AddsUnique ==
    ASSUME NEW f, NEW S, IsFiniteSet(S), NEW g, Adds(f, S, g),
           NEW T \in SUBSET S, NEW h, Adds(f, T, h),
           NEW s \in SUBSET T
    PROVE  g[s] = h[s]
<1>. DEFINE C == {u \in SUBSET T : g[u] # h[u]}
<1>. SUFFICES ASSUME C # {} PROVE FALSE
  OBVIOUS
<1>1. IsFiniteSet(T) /\ C \in SUBSET (SUBSET T)
  BY FS_Subset
<1>2. \E u \in C : \A v \in C : v \subseteq u => v = u
  <2>. HIDE DEF C
  <2>. QED
    BY <1>1, MinimalSubset
<1>3. PICK u \in SUBSET T : g[u] # h[u] /\ \A v \in C : v \subseteq u => v = u
  BY <1>2
<1>4. u # {}
  BY <1>3, AddsStep
<1>5. g[u] = f[Some(u)] + g[Rest(u)] /\ h[u] = f[Some(u)] + h[Rest(u)]
  BY <1>3, <1>4, AddsStep
<1>6. g[Rest(u)] = h[Rest(u)]
  BY <1>3, <1>4, RestIsSmaller
<1>. QED
  BY <1>3, <1>5, <1>6

\* And there is a result.
LEMMA AddsExists ==
    ASSUME NEW f, NEW S, IsFiniteSet(S)
    PROVE  \E g : Adds(f, S, g)
<1>. DEFINE C == {T \in SUBSET S : ~ \E g : Adds(f, T, g)}
            G(T) == CHOOSE g : Adds(f, T, g)
<1>. SUFFICES ASSUME C # {} PROVE FALSE
  BY Zenon
<1>1. \E T \in C : \A U \in C : U \subseteq T => U = T
  <2>1. C \in SUBSET (SUBSET S)
    OBVIOUS
  <2>. HIDE DEF C
  <2>. QED
    BY <2>1, MinimalSubset
<1>2. PICK T \in SUBSET S :
        /\ ~ \E g : Adds(f, T, g)
        /\ \A U \in SUBSET T : U # T => \E g : Adds(f, U, g)
  BY <1>1
<1>3. \A U \in SUBSET T : U # T => Adds(f, U, G(U))
  BY <1>2, Zenon
<1>. HIDE DEF G
<1>. DEFINE g == [s \in SUBSET T |-> IF s = {} THEN 0 ELSE f[Some(s)] + G(Rest(s))[Rest(s)]]
<1>4. \A s \in SUBSET T : g[s] = IF s = {} THEN 0 ELSE f[Some(s)] + G(Rest(s))[Rest(s)]
  OBVIOUS
<1>5. ASSUME NEW s \in SUBSET T, s # {}
      PROVE  g[Rest(s)] = G(Rest(s))[Rest(s)]
  <2>. DEFINE U == Rest(s)
  <2>1. U \in SUBSET T /\ U # T /\ IsFiniteSet(U)
    BY <1>5, RestIsSmaller, FS_Subset
  <2>2. Adds(f, U, G(U))
    BY <1>3, <2>1
  <2>. HIDE DEF U, g
  <2>3. U = {} => g[U] = G(U)[U]
    BY <1>4, <2>1, <2>2, AddsStep
  <2>4. ASSUME U # {} PROVE g[U] = G(U)[U]
    <3>1. Rest(U) \in SUBSET U /\ Rest(U) \in SUBSET T /\ Rest(U) # T
      BY <2>1, <2>4, RestIsSmaller
    <3>2. Adds(f, Rest(U), G(Rest(U)))
      BY <1>3, <3>1
    <3>3. G(U)[Rest(U)] = G(Rest(U))[Rest(U)]
      BY <2>1, <2>2, <3>1, <3>2, AddsUnique
    <3>4. G(U)[U] = f[Some(U)] + G(U)[Rest(U)]
      BY <2>2, <2>4, AddsStep
    <3>. QED
      BY <1>4, <2>1, <2>4, <3>3, <3>4
  <2>. QED
    BY <2>3, <2>4 DEF U
<1>6. g = [s \in SUBSET T |-> IF s = {} THEN 0 ELSE f[Some(s)] + g[Rest(s)]]
  BY <1>5
<1>7. Adds(f, T, g)
  BY <1>6 DEF Adds
<1>. QED
  BY <1>2, <1>7

\* Hence the sum of a part is the value for that part.
LEMMA SumAdds ==
    ASSUME NEW f, NEW S, IsFiniteSet(S), NEW g, Adds(f, S, g), NEW T \in SUBSET S
    PROVE  SumFunctionOnSet(f, T) = g[T]
<1>1. PICK h : Adds(f, T, h) /\ SumFunctionOnSet(f, T) = h[T]
  BY AddsExists, SumIsAdds, FS_Subset, Zenon
<1>. QED
  BY <1>1, AddsUnique

\* The sum is what its definition says.
LEMMA SumStep ==
    ASSUME NEW f, NEW S, IsFiniteSet(S)
    PROVE  SumFunctionOnSet(f, S) =
             IF S = {} THEN 0 ELSE f[Some(S)] + SumFunctionOnSet(f, Rest(S))
<1>1. PICK g : Adds(f, S, g)
  BY AddsExists
<1>2. S \in SUBSET S /\ Rest(S) \in SUBSET S
  BY DEF Rest
<1>3. SumFunctionOnSet(f, S) = g[S] /\ SumFunctionOnSet(f, Rest(S)) = g[Rest(S)]
  BY <1>1, <1>2, SumAdds
<1>. QED
  BY <1>1, <1>2, <1>3, AddsStep

\* Nothing adds up to nothing.
LEMMA SumEmpty ==
    ASSUME NEW f
    PROVE  SumFunctionOnSet(f, {}) = 0
BY SumStep, FS_EmptySet

\* A sum of naturals is a natural.
LEMMA SumType ==
    ASSUME NEW S, IsFiniteSet(S), NEW f, \A x \in S : f[x] \in Nat
    PROVE  SumFunctionOnSet(f, S) \in Nat
<1>. DEFINE C == {T \in SUBSET S : SumFunctionOnSet(f, T) \notin Nat}
<1>. SUFFICES ASSUME C # {} PROVE FALSE
  OBVIOUS
<1>1. \E T \in C : \A U \in C : U \subseteq T => U = T
  <2>1. C \in SUBSET (SUBSET S)
    OBVIOUS
  <2>. HIDE DEF C
  <2>. QED
    BY <2>1, MinimalSubset
<1>2. PICK T \in SUBSET S :
        /\ SumFunctionOnSet(f, T) \notin Nat
        /\ \A U \in SUBSET T : U # T => SumFunctionOnSet(f, U) \in Nat
  BY <1>1
<1>3. IsFiniteSet(T)
  BY FS_Subset
<1>4. T # {}
  <2>1. SumFunctionOnSet(f, {}) = 0
    BY SumEmpty
  <2>2. SumFunctionOnSet(f, {}) \in Nat
    BY <2>1, SMT
  <2>. QED
    BY <1>2, <2>2, Zenon
<1>5. f[Some(T)] \in Nat /\ SumFunctionOnSet(f, Rest(T)) \in Nat
  BY <1>2, <1>4, SomeIsIn, RestIsSmaller
<1>. QED
  BY <1>2, <1>3, <1>4, <1>5, SumStep

\* Any element may be added last.
LEMMA SumOfRest ==
    ASSUME NEW S, IsFiniteSet(S), NEW f, \A x \in S : f[x] \in Nat, NEW x \in S
    PROVE  SumFunctionOnSet(f, S) = f[x] + SumFunctionOnSet(f, S \ {x})
<1>. DEFINE Off(T) == \E y \in T :
                SumFunctionOnSet(f, T) # f[y] + SumFunctionOnSet(f, T \ {y})
            C == {T \in SUBSET S : Off(T)}
<1>. SUFFICES ASSUME C # {} PROVE FALSE
  OBVIOUS
<1>1. \E T \in C : \A U \in C : U \subseteq T => U = T
  <2>1. C \in SUBSET (SUBSET S)
    OBVIOUS
  <2>. HIDE DEF C
  <2>. QED
    BY <2>1, MinimalSubset
<1>2. PICK T \in SUBSET S : Off(T) /\ \A U \in SUBSET T : U # T => ~ Off(U)
  BY <1>1
<1>3. PICK y \in T : SumFunctionOnSet(f, T) # f[y] + SumFunctionOnSet(f, T \ {y})
  BY <1>2
<1>. DEFINE z == Some(T)
<1>4. z \in T /\ SumFunctionOnSet(f, T) = f[z] + SumFunctionOnSet(f, T \ {z})
  BY SumStep, SomeIsIn, FS_Subset DEF Rest
<1>. HIDE DEF z
<1>5. z # y
  BY <1>3, <1>4
<1>6. SumFunctionOnSet(f, T \ {z}) = f[y] + SumFunctionOnSet(f, (T \ {z}) \ {y})
  BY <1>2, <1>4, <1>5
<1>7. SumFunctionOnSet(f, T \ {y}) = f[z] + SumFunctionOnSet(f, (T \ {y}) \ {z})
  BY <1>2, <1>4, <1>5
<1>8. (T \ {z}) \ {y} = (T \ {y}) \ {z}
  OBVIOUS
<1>9. PICK n \in Nat : SumFunctionOnSet(f, (T \ {y}) \ {z}) = n
  BY SumType, FS_Subset
<1>10. f[y] \in Nat /\ f[z] \in Nat
  BY <1>3, <1>4
<1>11. SumFunctionOnSet(f, T) = f[z] + (f[y] + n)
  BY <1>4, <1>6, <1>8, <1>9
<1>12. SumFunctionOnSet(f, T \ {y}) = f[z] + n
  BY <1>7, <1>9
<1>13. f[y] + (f[z] + n) = f[z] + (f[y] + n)
  BY <1>10
<1>. QED
  BY <1>3, <1>11, <1>12, <1>13

\* Only the values on S matter.
LEMMA SumSame ==
    ASSUME NEW S, IsFiniteSet(S), NEW f, NEW g, \A x \in S : f[x] = g[x]
    PROVE  SumFunctionOnSet(f, S) = SumFunctionOnSet(g, S)
<1>. DEFINE C == {T \in SUBSET S : SumFunctionOnSet(f, T) # SumFunctionOnSet(g, T)}
<1>. SUFFICES ASSUME C # {} PROVE FALSE
  OBVIOUS
<1>1. \E T \in C : \A U \in C : U \subseteq T => U = T
  <2>1. C \in SUBSET (SUBSET S)
    OBVIOUS
  <2>. HIDE DEF C
  <2>. QED
    BY <2>1, MinimalSubset
<1>2. PICK T \in SUBSET S :
        /\ SumFunctionOnSet(f, T) # SumFunctionOnSet(g, T)
        /\ \A U \in SUBSET T : U # T => SumFunctionOnSet(f, U) = SumFunctionOnSet(g, U)
  BY <1>1
<1>3. IsFiniteSet(T)
  BY FS_Subset
<1>4. T # {}
  BY <1>2, <1>3, SumStep
<1>5. f[Some(T)] = g[Some(T)]
  BY <1>4, SomeIsIn
<1>6. SumFunctionOnSet(f, Rest(T)) = SumFunctionOnSet(g, Rest(T))
  BY <1>2, <1>4, RestIsSmaller
<1>. QED
  BY <1>2, <1>3, <1>4, <1>5, <1>6, SumStep

\* One element more.
LEMMA SumAdd ==
    ASSUME NEW S, IsFiniteSet(S), NEW x, x \notin S, NEW f, \A y \in S : f[y] \in Nat, f[x] \in Nat
    PROVE  SumFunctionOnSet(f, S \cup {x}) = SumFunctionOnSet(f, S) + f[x]
<1>. DEFINE T == S \cup {x}
<1>1. IsFiniteSet(T) /\ x \in T /\ T \ {x} = S /\ \A y \in T : f[y] \in Nat
  BY FS_AddElement
<1>. HIDE DEF T
<1>2. SumFunctionOnSet(f, T) = f[x] + SumFunctionOnSet(f, S)
  BY <1>1, SumOfRest
<1>3. SumFunctionOnSet(f, S) \in Nat
  BY SumType
<1>. QED
  BY <1>2, <1>3 DEF T

-----------------------------------------------------------------------------
(* The inductive invariant. *)

IInv == TypeOK /\ TransactionsIsolated /\ EventForEachOrder

Answers == {"refused", "failed"}

\* cart.List reads the rows of a cart in some order, each row once.
LEMMA ListingOrder ==
    ASSUME NEW S \in SUBSET Products, S # {}, NEW s \in SetToSeqs(S)
    PROVE  /\ s \in Seq(Products)
           /\ s # <<>>
           /\ {s[i] : i \in DOMAIN s} = S
           /\ \A i, j \in DOMAIN s : s[i] = s[j] => i = j
<1>1. IsFiniteSet(S)
  BY FS_Subset, ShopAssumption
<1>2. Cardinality(S) \in Nat /\ Cardinality(S) # 0
  BY <1>1, FS_CardinalityType, FS_EmptySet
<1>3. PICK n \in Nat : n = Cardinality(S)
  BY <1>2
<1>4. /\ s \in [1..n -> S]
      /\ \A i, j \in 1..n : i # j => s[i] # s[j]
  BY <1>3 DEF SetToSeqs
<1>5. s \in Seq(Products) /\ s # <<>> /\ DOMAIN s = 1..n
  BY <1>2, <1>3, <1>4
<1>6. IsFiniteSet({s[i] : i \in 1..n}) /\ Cardinality({s[i] : i \in 1..n}) = n
  <2>1. s \in Bijection(1..n, {s[i] : i \in 1..n})
    BY <1>4 DEF Bijection, Injection, Surjection, IsInjective
  <2>2. IsFiniteSet(1..n) /\ Cardinality(1..n) = n
    BY <1>2, <1>3, FS_Interval
  <2>3. ExistsBijection(1..n, {s[i] : i \in 1..n})
    BY <2>1 DEF ExistsBijection
  <2>. QED
    BY <2>2, <2>3, FS_Bijection
<1>7. {s[i] : i \in 1..n} = S
  BY <1>1, <1>3, <1>4, <1>6, FS_Subset
<1>. QED
  BY <1>4, <1>5, <1>7

\* A request waits for a row only inside its transaction.
LEMMA BlockedIsOpen ==
    ASSUME IInv, NEW r \in Requests, Blocked(r)
    PROVE  pc[r] \in Open
BY DEF Blocked, WaitsFor, Open

\* What each locking statement waits for.
LEMMA NotBlocked ==
    ASSUME NEW r \in Requests, ~Blocked(r)
    PROVE  /\ pc[r] = "reserve" => stockLock[Head(queue[r])] \in {None, r}
           /\ pc[r] = "clear" => cartLock[UserOf[r]] \in {None, r}
           /\ pc[r] = "summary" =>
                /\ salesLock[day[r]] \in {None, r}
                /\ \A x \in Requests \ {r} : day[r] \notin gaps[x]
<1>1. CASE pc[r] = "reserve"
  BY <1>1 DEF Blocked, WaitsFor
<1>2. CASE pc[r] = "clear"
  BY <1>2 DEF Blocked, WaitsFor
<1>3. CASE pc[r] = "summary"
  <2>1. WaitsFor(r) =
            ({salesLock[day[r]]} \cup {x \in Requests : day[r] \in gaps[x]}) \ {None, r}
    BY <1>3 DEF WaitsFor
  <2>. QED
    BY <1>3, <2>1, CheckoutAssumption DEF Blocked
<1>. QED
  BY <1>1, <1>2, <1>3

-----------------------------------------------------------------------------
(* Every step preserves IInv. *)

\* Gaps stay isolated when neither they nor the summary change, as long as those
\* who keep one stay where they are.
LEMMA GapsStay ==
    ASSUME IInv, UNCHANGED <<gaps, salesLatest, salesLock>>,
           \A x \in Requests : gaps[x] # {} =>
                pc'[x] \in {"summary", "commit"} /\ day'[x] = day[x]
    PROVE  GapsIsolated'
BY DEF IInv, TransactionsIsolated, GapsIsolated

\* Whose gaps grow when r gives its own away, and by what.
LEMMA GapGivenAway ==
    ASSUME IInv, NEW r \in Requests, GiveGapAway(r)
    PROVE  /\ gaps' \in [Requests -> SUBSET Days]
           /\ gaps'[r] = {}
           /\ \A x \in Requests \ {r} :
                \/ gaps'[x] = gaps[x]
                \/ /\ salesLock[day[r]] = r /\ sales[day[r]].orders = 0
                   /\ gaps'[x] = gaps[x] \cup GapAt(day[r])
                   /\ gaps[x] # {} \/ (pc[x] = "summary" /\ day[x] = day[r])
<1>1. gaps \in [Requests -> SUBSET Days]
  BY DEF IInv, TypeOK
<1>2. GapAt(day[r]) \in SUBSET Days
  BY DEF GapAt
<1>3. CASE salesLock[day[r]] = r /\ sales[day[r]].orders = 0
  <2>1. PICK waiting \in SUBSET {x \in Requests \ {r} : pc[x] = "summary" /\ day[x] = day[r]} :
            gaps' = [x \in Requests |->
                CASE x = r -> {}
                  [] x # r /\ (x \in waiting \/ gaps[x] \cap GapAt(day[r]) # {}) ->
                        gaps[x] \cup GapAt(day[r])
                  [] OTHER -> gaps[x]]
    BY <1>3 DEF GiveGapAway
  <2>2. gaps'[r] = {}
    BY <2>1
  <2>3. ASSUME NEW x \in Requests \ {r}
        PROVE  \/ gaps'[x] = gaps[x]
               \/ /\ gaps'[x] = gaps[x] \cup GapAt(day[r])
                  /\ x \in waiting \/ gaps[x] \cap GapAt(day[r]) # {}
    <3>1. CASE x \in waiting \/ gaps[x] \cap GapAt(day[r]) # {}
      BY <2>1, <3>1
    <3>2. CASE ~(x \in waiting \/ gaps[x] \cap GapAt(day[r]) # {})
      BY <2>1, <3>2
    <3>. QED
      BY <3>1, <3>2
  <2>4. DOMAIN gaps' = Requests /\ gaps' = [x \in Requests |-> gaps'[x]]
    BY <2>1
  <2>5. \A x \in Requests : gaps'[x] \in SUBSET Days
    BY <1>1, <1>2, <2>2, <2>3
  <2>6. gaps' \in [Requests -> SUBSET Days]
    BY <2>4, <2>5
  <2>. QED
    BY <1>3, <2>2, <2>3, <2>6
<1>4. CASE ~(salesLock[day[r]] = r /\ sales[day[r]].orders = 0)
  <2>1. gaps' = [gaps EXCEPT ![r] = {}]
    BY <1>4 DEF GiveGapAway
  <2>. QED
    BY <1>1, <2>1
<1>. QED
  BY <1>3, <1>4

\* Before any request nothing is locked, written or inserted.
LEMMA InitIInv == Init => IInv
<1> SUFFICES ASSUME Init PROVE IInv
  OBVIOUS
<1>1. TypeOK
  BY ShopAssumption, CheckoutAssumption
     DEF Init, TypeOK, Days, Lines, NoLines, NoSales, Summary, Open, Ended
<1>2. QueueFollowsLines
  BY DEF Init, QueueFollowsLines, Open
<1>3. StockRowsIsolated
  BY ShopAssumption, CheckoutAssumption DEF Init, StockRowsIsolated, Reserved, Open
<1>4. CartRowsIsolated
  BY CheckoutAssumption DEF Init, CartRowsIsolated
<1>5. SalesRowsIsolated
  BY CheckoutAssumption DEF Init, SalesRowsIsolated, NoSales
<1>6. InsertsIsolated
  BY DEF Init, InsertsIsolated, Open
<1>7. EventForEachOrder
  BY DEF Init, EventForEachOrder
<1>8. GapsIsolated
  BY DEF Init, GapsIsolated
<1>. QED
  BY <1>1, <1>2, <1>3, <1>4, <1>5, <1>6, <1>7, <1>8 DEF IInv, TransactionsIsolated

\* A rollback undoes exactly what its transaction has written.
LEMMA RollbackIInv ==
    ASSUME IInv, NEW r \in Requests, NEW reply \in Answers,
           pc[r] \in Open \cup {"listed"}, Rollback(r, reply)
    PROVE  IInv'
<1>. USE DEF IInv, TransactionsIsolated, Rollback, committed, locals, Answers
<1>1. TypeOK'
  <2>1. pc' \in [Requests -> {"start", "listed"} \cup Open \cup Ended]
    BY DEF TypeOK, Ended
  <2>2. latest' \in [Products -> Nat] /\ stockLock' \in [Products -> Requests \cup {None}]
    BY DEF TypeOK
  <2>3. cartLock' \in [Users -> Requests \cup {None}]
    BY DEF TypeOK
  <2>4. salesLatest' \in Summary /\ salesLock' \in [Days -> Requests \cup {None}]
    BY DEF TypeOK, Summary
  <2>5. newOrders' \subseteq Order /\ newEvents' \subseteq Requests
    BY DEF TypeOK
  <2>6. gaps' \in [Requests -> SUBSET Days]
    BY GapGivenAway
  <2>. QED
    BY <2>1, <2>2, <2>3, <2>4, <2>5, <2>6 DEF TypeOK
<1>2. QueueFollowsLines'
  <2> SUFFICES ASSUME NEW x \in Requests PROVE QueueFollowsLines!(x)'
    BY DEF QueueFollowsLines
  <2>1. CASE x = r
    BY <2>1 DEF TypeOK, Open
  <2>2. CASE x # r
    BY <2>2 DEF TypeOK, QueueFollowsLines, ToReserve, Bought
  <2>. QED
    BY <2>1, <2>2
<1>3. StockRowsIsolated'
  BY CheckoutAssumption DEF TypeOK, StockRowsIsolated, Reserved, ToReserve, Open, Bought
<1>4. CartRowsIsolated'
  BY CheckoutAssumption DEF TypeOK, CartRowsIsolated
<1>5. SalesRowsIsolated'
  BY CheckoutAssumption DEF TypeOK, SalesRowsIsolated
<1>6. InsertsIsolated'
  BY DEF TypeOK, InsertsIsolated, OrderOf, Open
<1>7. EventForEachOrder'
  BY DEF EventForEachOrder
<1>8. GapsIsolated'
  <2> SUFFICES ASSUME NEW x \in Requests PROVE GapsIsolated!(x)'
    BY DEF GapsIsolated
  <2>1. CASE x = r
    BY <2>1, GapGivenAway
  <2>2. CASE x # r
    <3>1. /\ pc'[x] = pc[x] /\ UNCHANGED day
          /\ \A d \in Days : IF salesLock[d] = r
                             THEN salesLatest'[d] = sales[d]
                             ELSE salesLatest'[d] = salesLatest[d] /\ salesLock'[d] = salesLock[d]
      BY <2>2 DEF TypeOK
    <3>2. /\ day[r] \in Days /\ day[x] \in Days /\ gaps[x] \in SUBSET Days
          /\ \A d \in Days : sales[d].orders \in Nat
      BY DEF TypeOK, Summary
    <3>3. /\ gaps[x] # {} => pc[x] \in {"summary", "commit"} /\ day[x] \in gaps[x]
          /\ \A d \in gaps[x] : salesLatest[d].orders > 0 => salesLock[d] = x
      BY DEF GapsIsolated
    <3>4. \A d \in Days : salesLock[d] = r => d = day[r] /\ salesLatest[d].orders = sales[d].orders + 1
      <4>1. \A d \in Days : salesLock[d] = r =>
                d = day[r] /\ salesLatest[d] = PlusOrder(sales[d], lines[r])
        BY DEF SalesRowsIsolated
      <4>2. \A d \in Days : PlusOrder(sales[d], lines[r]).orders = sales[d].orders + 1
        BY DEF PlusOrder
      <4>. QED
        BY <4>1, <4>2
    <3>0. GiveGapAway(r)
      OBVIOUS
    <3>. HIDE DEF IInv, TransactionsIsolated, Rollback
    <3>5. \A d \in gaps[x] : salesLatest'[d].orders > 0 => salesLock'[d] = x
      <4> SUFFICES ASSUME NEW d \in gaps[x], salesLatest'[d].orders > 0
                   PROVE  salesLock'[d] = x
        OBVIOUS
      <4>1. d \in Days
        BY <3>2
      <4>2. salesLock[d] # r
        BY <2>2, <3>2, <3>3, <3>4, <4>1
      <4>. QED
        BY <3>1, <3>3, <4>1, <4>2
    <3>6. CASE gaps'[x] = gaps[x]
      BY <3>1, <3>3, <3>5, <3>6
    <3>7. CASE /\ salesLock[day[r]] = r /\ sales[day[r]].orders = 0
               /\ gaps'[x] = gaps[x] \cup GapAt(day[r])
               /\ gaps[x] # {} \/ (pc[x] = "summary" /\ day[x] = day[r])
      <4>1. day[r] \in GapAt(day[r])
        BY <3>2 DEF GapAt, Days
      <4>2. \A d \in GapAt(day[r]) : d \in Days /\ (d # day[r] => salesLatest[d].orders = 0)
        BY <3>2 DEF GapAt, Days
      <4>3. \A d \in GapAt(day[r]) : salesLatest'[d].orders = 0
        BY <3>1, <3>4, <3>7, <4>2
      <4>4. pc'[x] \in {"summary", "commit"} /\ day'[x] \in gaps'[x]
        BY <3>1, <3>3, <3>7, <4>1
      <4>5. ASSUME NEW d \in gaps'[x], salesLatest'[d].orders > 0 PROVE salesLock'[d] = x
        BY <3>5, <3>7, <4>3, <4>5
      <4>. QED
        BY <4>4, <4>5
    <3>. QED
      BY <2>2, <3>0, <3>6, <3>7, GapGivenAway
  <2>. QED
    BY <2>1, <2>2
<1>. QED
  BY <1>1, <1>2, <1>3, <1>4, <1>5, <1>6, <1>7, <1>8

\* The rows read from the cart are those to be reserved, each once.
LEMMA ListCartIInv ==
    ASSUME IInv, NEW r \in Requests, ListCart(r)
    PROVE  IInv'
<1>. USE DEF IInv, TransactionsIsolated, ListCart, MayStart, committed, locks, inserts
<1>1. PICK s \in SetToSeqs(Bought(carts[UserOf[r]])) : queue' = [queue EXCEPT ![r] = s]
  OBVIOUS
<1>2. UserOf[r] \in Users /\ carts[UserOf[r]] \in Lines /\ carts[UserOf[r]] # NoLines
  BY CheckoutAssumption DEF TypeOK
<1>3. Bought(carts[UserOf[r]]) \in SUBSET Products /\ Bought(carts[UserOf[r]]) # {}
  BY <1>2, ShopAssumption DEF Bought, Lines, NoLines
<1>4. /\ s \in Seq(Products)
      /\ s # <<>>
      /\ {s[i] : i \in DOMAIN s} = Bought(carts[UserOf[r]])
      /\ \A i, j \in DOMAIN s : s[i] = s[j] => i = j
  BY <1>1, <1>3, ListingOrder
<1>5. TypeOK'
  BY <1>1, <1>2, <1>4 DEF TypeOK
<1>6. QueueFollowsLines'
  <2> SUFFICES ASSUME NEW x \in Requests PROVE QueueFollowsLines!(x)'
    BY DEF QueueFollowsLines
  <2>1. CASE x = r
    BY <1>1, <1>3, <1>4, <2>1 DEF TypeOK, ToReserve, Open
  <2>2. CASE x # r
    <3>1. pc'[x] = pc[x] /\ queue'[x] = queue[x] /\ lines'[x] = lines[x]
      BY <1>1, <2>2 DEF TypeOK
    <3>2. QueueFollowsLines
      OBVIOUS
    <3> HIDE DEF IInv, TransactionsIsolated, ListCart
    <3>. QED
      BY <3>1, <3>2 DEF QueueFollowsLines, ToReserve, Bought
  <2>. QED
    BY <2>1, <2>2
<1>7. StockRowsIsolated'
  BY <1>1 DEF TypeOK, StockRowsIsolated, Reserved, ToReserve, Open, Bought
<1>8. CartRowsIsolated'
  BY DEF TypeOK, CartRowsIsolated
<1>9. SalesRowsIsolated'
  <2>1. \A x \in Requests : (pc[x] = "commit")' <=> pc[x] = "commit"
    BY DEF TypeOK
  <2>2. \A x \in Requests : pc[x] = "commit" => lines'[x] = lines[x]
    BY DEF TypeOK
  <2>3. UNCHANGED <<sales, salesLatest, salesLock, day>>
    OBVIOUS
  <2>4. SalesRowsIsolated
    OBVIOUS
  <2> HIDE DEF IInv, TransactionsIsolated, ListCart
  <2>. QED
    BY <2>1, <2>2, <2>3, <2>4 DEF SalesRowsIsolated
<1>10. InsertsIsolated'
  <2>1. {x \in Requests : pc[x] \in Open}' = {x \in Requests : pc[x] \in Open}
    BY DEF TypeOK, Open
  <2>2. \A x \in Requests : pc[x] \in Open => OrderOf(x)' = OrderOf(x)
    BY DEF TypeOK, OrderOf, Open
  <2>. QED
    BY <2>1, <2>2 DEF TypeOK, InsertsIsolated
<1>11. EventForEachOrder'
  BY DEF EventForEachOrder
<1>12. GapsIsolated'
  <2>1. \A x \in Requests : gaps[x] # {} => pc'[x] \in {"summary", "commit"} /\ day'[x] = day[x]
    BY DEF TypeOK, GapsIsolated
  <2>. QED
    BY <2>1, GapsStay
<1>. QED
  BY <1>5, <1>6, <1>7, <1>8, <1>9, <1>10, <1>11, <1>12

\* An order being inserted is visible to its transaction only.
LEMMA InsertOrderIInv ==
    ASSUME IInv, NEW r \in Requests, InsertOrder(r)
    PROVE  IInv'
<1>. USE DEF IInv, TransactionsIsolated, InsertOrder, committed, locks
<1>1. TypeOK'
  <2>1. OrderOf(r)' \in Order
    BY CheckoutAssumption DEF TypeOK, OrderOf, Order
  <2>2. pc' \in [Requests -> {"start", "listed"} \cup Open \cup Ended]
    BY DEF TypeOK, Open
  <2>3. newOrders' = newOrders \cup {OrderOf(r)'}
    BY DEF TypeOK, OrderOf
  <2>4. newOrders' \subseteq Order
    BY <2>1, <2>3 DEF TypeOK
  <2>5. day' \in [Requests -> Days]
    BY DEF TypeOK
  <2>6. /\ TypeOK
        /\ UNCHANGED <<carts, stock, orders, events, sales, latest, stockLock, cartLock,
                       salesLatest, salesLock, gaps, newEvents, lines, queue, today, asked>>
    OBVIOUS
  <2> HIDE DEF InsertOrder
  <2>. QED
    BY <2>2, <2>4, <2>5, <2>6 DEF TypeOK
<1>2. QueueFollowsLines'
  <2>1. /\ pc[r] = "listed" /\ pc'[r] = "reserve"
        /\ \A x \in Requests \ {r} : pc'[x] = pc[x]
        /\ UNCHANGED <<queue, lines>>
        /\ QueueFollowsLines
    BY DEF TypeOK
  <2> HIDE DEF InsertOrder, IInv
  <2>. QED
    BY <2>1 DEF QueueFollowsLines, ToReserve, Open, Bought
<1>3. StockRowsIsolated'
  BY DEF TypeOK, QueueFollowsLines, StockRowsIsolated, Reserved, ToReserve, Open, Bought
<1>4. CartRowsIsolated'
  BY DEF TypeOK, CartRowsIsolated
<1>5. SalesRowsIsolated'
  BY DEF TypeOK, SalesRowsIsolated
<1>6. InsertsIsolated'
  <2>1. {x \in Requests : pc[x] \in Open}' = {x \in Requests : pc[x] \in Open} \cup {r}
    BY DEF TypeOK, Open
  <2>2. \A x \in Requests : pc[x] \in Open => OrderOf(x)' = OrderOf(x)
    BY DEF TypeOK, OrderOf, Open
  <2>3. newOrders' = newOrders \cup {OrderOf(r)'}
    BY DEF TypeOK, OrderOf
  <2>4. newOrders' = {OrderOf(x)' : x \in {y \in Requests : pc[y] \in Open}'}
    <3> HIDE DEF InsertOrder
    <3>. QED
      BY <2>1, <2>2, <2>3 DEF InsertsIsolated
  <2>5. newEvents' = {x \in Requests : pc[x] \in {"summary", "commit"}}'
    BY DEF TypeOK, InsertsIsolated
  <2>6. (\A o \in orders : pc[o.id] \in {"confirmed", "failed"})'
    BY DEF TypeOK, InsertsIsolated, Order
  <2>. QED
    BY <2>4, <2>5, <2>6 DEF InsertsIsolated
<1>7. EventForEachOrder'
  BY DEF EventForEachOrder
<1>8. GapsIsolated'
  <2>1. \A x \in Requests : gaps[x] # {} => pc'[x] \in {"summary", "commit"} /\ day'[x] = day[x]
    BY DEF TypeOK, GapsIsolated
  <2>. QED
    BY <2>1, GapsStay
<1>. QED
  BY <1>1, <1>2, <1>3, <1>4, <1>5, <1>6, <1>7, <1>8

\* A reservation locks one more row and takes what is ordered off it.
LEMMA ReserveIInv ==
    ASSUME IInv, NEW r \in Requests, Reserve(r)
    PROVE  IInv'
<1>. DEFINE p == Head(queue[r])
<1>. USE DEF IInv, TransactionsIsolated, Reserve, committed, inserts
<1>1. /\ queue[r] \in Seq(Products)
      /\ queue[r] # <<>>
      /\ Tail(queue[r]) \in Seq(Products)
      /\ p = queue[r][1]
      /\ p \in Products
      /\ p \in ToReserve(r)
  BY DEF TypeOK, QueueFollowsLines, ToReserve
<1>2. /\ {Tail(queue[r])[i] : i \in DOMAIN Tail(queue[r])} = ToReserve(r) \ {p}
      /\ \A i, j \in DOMAIN Tail(queue[r]) :
            Tail(queue[r])[i] = Tail(queue[r])[j] => i = j
  <2>1. \A i, j \in DOMAIN queue[r] : queue[r][i] = queue[r][j] => i = j
    BY DEF QueueFollowsLines
  <2>. HIDE DEF IInv, TransactionsIsolated, Reserve
  <2>2. DOMAIN Tail(queue[r]) = 1..(Len(queue[r]) - 1) /\ DOMAIN queue[r] = 1..Len(queue[r])
    BY <1>1
  <2>3. \A i \in DOMAIN Tail(queue[r]) : Tail(queue[r])[i] = queue[r][i + 1]
    BY <1>1, <2>2
  <2>4. Len(queue[r]) \in Nat
    BY <1>1
  <2>5. \A i, j \in DOMAIN Tail(queue[r]) :
            Tail(queue[r])[i] = Tail(queue[r])[j] => i = j
    <3> SUFFICES ASSUME NEW i \in DOMAIN Tail(queue[r]), NEW j \in DOMAIN Tail(queue[r]),
                        Tail(queue[r])[i] = Tail(queue[r])[j]
                 PROVE  i = j
      OBVIOUS
    <3>1. queue[r][i + 1] = queue[r][j + 1] /\ i + 1 \in DOMAIN queue[r] /\ j + 1 \in DOMAIN queue[r]
      BY <2>2, <2>3, <2>4
    <3>2. i + 1 = j + 1
      BY <3>1, <2>1
    <3>3. i \in Int /\ j \in Int
      BY <2>2
    <3>. QED
      BY <3>2, <3>3
  <2>6. {Tail(queue[r])[i] : i \in DOMAIN Tail(queue[r])} \subseteq ToReserve(r) \ {p}
    <3> SUFFICES ASSUME NEW i \in DOMAIN Tail(queue[r])
                 PROVE  Tail(queue[r])[i] \in ToReserve(r) \ {p}
      OBVIOUS
    <3>1. /\ Tail(queue[r])[i] = queue[r][i + 1]
          /\ i + 1 \in DOMAIN queue[r]
          /\ 1 \in DOMAIN queue[r]
          /\ i + 1 # 1
      BY <2>2, <2>3, <2>4
    <3>2. queue[r][i + 1] # p
      BY <1>1, <2>1, <3>1
    <3>. QED
      BY <3>1, <3>2 DEF ToReserve
  <2>7. ASSUME NEW x \in ToReserve(r) \ {p}
        PROVE  x \in {Tail(queue[r])[i] : i \in DOMAIN Tail(queue[r])}
    <3>1. PICK k \in DOMAIN queue[r] : x = queue[r][k]
      BY DEF ToReserve
    <3>2. k - 1 \in DOMAIN Tail(queue[r]) /\ Tail(queue[r])[k - 1] = queue[r][k]
      BY <1>1, <2>2, <2>3, <2>4, <2>7, <3>1
    <3>. QED
      BY <3>1, <3>2
  <2>. QED
    BY <2>5, <2>6, <2>7
<1>3. ToReserve(r)' = ToReserve(r) \ {p}
  <2>1. queue'[r] = Tail(queue[r])
    BY DEF TypeOK
  <2>. HIDE DEF IInv, Reserve
  <2>. QED
    BY <1>2, <2>1 DEF ToReserve
<1>4. \A x \in Requests \ {r} : pc'[x] = pc[x] /\ ToReserve(x)' = ToReserve(x)
  BY DEF TypeOK, ToReserve
<1>5. pc[r] = "reserve" /\ pc'[r] \in {"reserve", "clear"} /\ stockLock[p] \in {None, r}
  BY NotBlocked DEF TypeOK
<1>6. p \in Bought(lines[r]) /\ lines[r][p] \in Nat
  BY <1>1, <1>5 DEF QueueFollowsLines, Open, TypeOK, Lines
<1>7. TypeOK'
  <2>1. pc' \in [Requests -> {"start", "listed"} \cup Open \cup Ended]
    BY DEF TypeOK, Open
  <2>2. latest' \in [Products -> Nat] /\ stockLock' \in [Products -> Requests \cup {None}]
    BY <1>1, <1>6 DEF TypeOK
  <2>3. queue' \in [Requests -> Seq(Products)]
    BY <1>1 DEF TypeOK
  <2>. QED
    BY <2>1, <2>2, <2>3 DEF TypeOK
<1>8. QueueFollowsLines'
  <2> SUFFICES ASSUME NEW x \in Requests PROVE QueueFollowsLines!(x)'
    BY DEF QueueFollowsLines
  <2>1. CASE x = r
    <3>1. queue'[r] = Tail(queue[r])
      BY DEF TypeOK
    <3>2. pc'[r] = "reserve" <=> Tail(queue[r]) # <<>>
      BY DEF TypeOK
    <3>3. UNCHANGED lines
      OBVIOUS
    <3> HIDE DEF Reserve
    <3>. QED
      BY <2>1, <1>2, <1>3, <1>5, <3>1, <3>2, <3>3 DEF QueueFollowsLines, Open
  <2>2. CASE x # r
    BY <2>2, <1>4 DEF TypeOK, QueueFollowsLines, Bought
  <2>. QED
    BY <2>1, <2>2
<1>9. StockRowsIsolated'
  <2>1. ~Reserved(r, p) /\ \A x \in Requests \ {r} : ~Reserved(x, p)
    BY <1>1, <1>5, CheckoutAssumption DEF StockRowsIsolated, Reserved
  <2>2. stockLock[p] = None /\ latest[p] = stock[p]
    BY <1>1, <1>5, <2>1 DEF StockRowsIsolated
  <2>3. \A q \in Products : Reserved(r, q)' <=> Reserved(r, q) \/ q = p
    BY <1>1, <1>3, <1>5, <1>6 DEF Reserved, Open
  <2>4. \A x \in Requests \ {r}, q \in Products : Reserved(x, q)' <=> Reserved(x, q)
    BY <1>4 DEF Reserved
  <2>5. /\ stockLock'[p] = r
        /\ latest'[p] = stock[p] - lines[r][p]
        /\ \A q \in Products \ {p} : latest'[q] = latest[q] /\ stockLock'[q] = stockLock[q]
        /\ UNCHANGED <<stock, lines>>
    BY <1>1, <2>2 DEF TypeOK
  <2> HIDE DEF Reserve, p
  <2>. QED
    BY <1>1, <2>1, <2>2, <2>3, <2>4, <2>5, CheckoutAssumption DEF StockRowsIsolated
<1>10. CartRowsIsolated'
  BY <1>4, <1>5 DEF CartRowsIsolated
<1>11. SalesRowsIsolated'
  BY <1>4, <1>5 DEF SalesRowsIsolated
<1>12. InsertsIsolated'
  BY <1>4, <1>5 DEF TypeOK, InsertsIsolated, OrderOf, Open
<1>13. EventForEachOrder'
  BY DEF EventForEachOrder
<1>14. GapsIsolated'
  <2>1. \A x \in Requests : gaps[x] # {} => pc'[x] \in {"summary", "commit"} /\ day'[x] = day[x]
    BY <1>4, <1>5 DEF TypeOK, GapsIsolated
  <2>. QED
    BY <2>1, GapsStay
<1>. QED
  BY <1>7, <1>8, <1>9, <1>10, <1>11, <1>12, <1>13, <1>14

\* Clearing the cart locks its rows until the transaction ends.
LEMMA ClearIInv ==
    ASSUME IInv, NEW r \in Requests, Clear(r)
    PROVE  IInv'
<1>. USE DEF IInv, TransactionsIsolated, Clear, committed, inserts, locals
<1>1. /\ pc[r] = "clear" /\ pc'[r] = "event"
      /\ \A x \in Requests \ {r} : pc'[x] = pc[x]
      /\ UserOf[r] \in Users
      /\ cartLock[UserOf[r]] \in {None, r}
  BY NotBlocked, CheckoutAssumption DEF TypeOK
<1>2. TypeOK'
  BY <1>1 DEF TypeOK, Open
<1>3. QueueFollowsLines'
  BY <1>1 DEF QueueFollowsLines, ToReserve, Open, Bought
<1>4. StockRowsIsolated'
  BY <1>1 DEF StockRowsIsolated, Reserved, ToReserve, Open, Bought
<1>5. CartRowsIsolated'
  <2>1. /\ cartLock'[UserOf[r]] = r
        /\ \A u \in Users \ {UserOf[r]} : cartLock'[u] = cartLock[u]
    BY <1>1 DEF TypeOK
  <2>2. \A x \in Requests : cartLock[UserOf[r]] # x \/ x = r
    BY <1>1, CheckoutAssumption
  <2>. QED
    BY <1>1, <2>1, <2>2, CheckoutAssumption DEF CartRowsIsolated
<1>6. SalesRowsIsolated'
  BY <1>1 DEF SalesRowsIsolated
<1>7. InsertsIsolated'
  BY <1>1 DEF TypeOK, InsertsIsolated, OrderOf, Open
<1>8. EventForEachOrder'
  BY DEF EventForEachOrder
<1>9. GapsIsolated'
  <2>1. \A x \in Requests : gaps[x] # {} => pc'[x] \in {"summary", "commit"} /\ day'[x] = day[x]
    BY <1>1 DEF TypeOK, GapsIsolated
  <2>. QED
    BY <2>1, GapsStay
<1>. QED
  BY <1>2, <1>3, <1>4, <1>5, <1>6, <1>7, <1>8, <1>9

\* The event waits, like the order, for the commit.
LEMMA InsertEventIInv ==
    ASSUME IInv, NEW r \in Requests, InsertEvent(r)
    PROVE  IInv'
<1>. USE DEF IInv, TransactionsIsolated, InsertEvent, committed, locks, locals
<1>1. /\ pc[r] = "event" /\ pc'[r] = "summary"
      /\ \A x \in Requests \ {r} : pc'[x] = pc[x]
  BY DEF TypeOK
<1>2. TypeOK'
  BY <1>1 DEF TypeOK, Open
<1>3. QueueFollowsLines'
  BY <1>1 DEF QueueFollowsLines, ToReserve, Open, Bought
<1>4. StockRowsIsolated'
  BY <1>1 DEF StockRowsIsolated, Reserved, ToReserve, Open, Bought
<1>5. CartRowsIsolated'
  BY <1>1 DEF CartRowsIsolated
<1>6. SalesRowsIsolated'
  BY <1>1 DEF SalesRowsIsolated
<1>7. InsertsIsolated'
  BY <1>1 DEF TypeOK, InsertsIsolated, OrderOf, Open
<1>8. EventForEachOrder'
  BY DEF EventForEachOrder
<1>9. GapsIsolated'
  <2>1. \A x \in Requests : gaps[x] # {} => pc'[x] \in {"summary", "commit"} /\ day'[x] = day[x]
    BY <1>1 DEF TypeOK, GapsIsolated
  <2>. QED
    BY <2>1, GapsStay
<1>. QED
  BY <1>2, <1>3, <1>4, <1>5, <1>6, <1>7, <1>8, <1>9

\* The order is added to the latest version of its day.
LEMMA UpsertSummaryIInv ==
    ASSUME IInv, NEW r \in Requests, UpsertSummary(r)
    PROVE  IInv'
<1>. USE DEF IInv, TransactionsIsolated, UpsertSummary, committed, inserts, locals
<1>1. /\ pc[r] = "summary" /\ pc'[r] = "commit"
      /\ \A x \in Requests \ {r} : pc'[x] = pc[x]
      /\ day[r] \in Days
      /\ salesLock[day[r]] \in {None, r}
      /\ \A x \in Requests \ {r} : day[r] \notin gaps[x]
  BY NotBlocked DEF TypeOK
<1>2. TypeOK'
  <2>1. lines[r] \in Lines /\ Total[lines[r]] \in Nat
    BY ShopAssumption DEF TypeOK
  <2>2. PlusOrder(salesLatest[day[r]], lines[r]) \in [orders : Nat, amount : Nat]
    BY <1>1, <2>1 DEF TypeOK, Summary, PlusOrder
  <2>3. salesLatest' \in Summary /\ salesLock' \in [Days -> Requests \cup {None}]
    BY <1>1, <2>2 DEF TypeOK, Summary
  <2>. QED
    BY <1>1, <2>3 DEF TypeOK, Open
<1>3. QueueFollowsLines'
  BY <1>1 DEF QueueFollowsLines, ToReserve, Open, Bought
<1>4. StockRowsIsolated'
  BY <1>1 DEF StockRowsIsolated, Reserved, ToReserve, Open, Bought
<1>5. CartRowsIsolated'
  BY <1>1 DEF CartRowsIsolated
<1>6. SalesRowsIsolated'
  <2>1. salesLock[day[r]] = None /\ salesLatest[day[r]] = sales[day[r]]
    BY <1>1 DEF SalesRowsIsolated
  <2>2. /\ salesLock'[day[r]] = r
        /\ salesLatest'[day[r]] = PlusOrder(sales[day[r]], lines[r])
        /\ \A d \in Days \ {day[r]} :
                salesLock'[d] = salesLock[d] /\ salesLatest'[d] = salesLatest[d]
        /\ UNCHANGED <<sales, lines, day>>
    BY <1>1, <2>1 DEF TypeOK, Summary
  <2> HIDE DEF UpsertSummary
  <2>. QED
    BY <1>1, <2>1, <2>2, CheckoutAssumption DEF SalesRowsIsolated
<1>7. InsertsIsolated'
  BY <1>1 DEF TypeOK, InsertsIsolated, OrderOf, Open
<1>8. EventForEachOrder'
  BY DEF EventForEachOrder
<1>9. GapsIsolated'
  <2>1. /\ salesLock'[day[r]] = r
        /\ \A d \in Days \ {day[r]} :
                salesLock'[d] = salesLock[d] /\ salesLatest'[d] = salesLatest[d]
        /\ UNCHANGED <<gaps, day>>
        /\ \A x \in Requests : gaps[x] \in SUBSET Days
    BY <1>1 DEF TypeOK
  <2>2. GapsIsolated
    OBVIOUS
  <2> HIDE DEF UpsertSummary, IInv
  <2>. QED
    BY <1>1, <2>1, <2>2 DEF GapsIsolated
<1>. QED
  BY <1>2, <1>3, <1>4, <1>5, <1>6, <1>7, <1>8, <1>9

\* COMMIT publishes the whole order of r, and nothing of any other request.
LEMMA CommitPublishes ==
    ASSUME IInv, NEW r \in Requests, Commit(r)
    PROVE  /\ OrderOf(r) \in Order
           /\ \A o \in orders : o.id # r
           /\ lines[r] # NoLines
           /\ \A p \in Products : lines[r][p] <= stock[p]
           /\ stock' = [p \in Products |-> stock[p] - lines[r][p]]
           /\ orders' = orders \cup {OrderOf(r)}
           /\ events' = events \cup {r}
           /\ sales' = [sales EXCEPT ![day[r]] = PlusOrder(@, lines[r])]
           /\ carts' = [carts EXCEPT ![UserOf[r]] = NoLines]
<1>. USE DEF IInv, TransactionsIsolated, Commit, locals
<1>1. /\ pc[r] = "commit" /\ pc[r] \in Open /\ lines[r] \in Lines
      /\ queue[r] = <<>> /\ ToReserve(r) = {}
      /\ Bought(lines[r]) # {}
  BY DEF TypeOK, QueueFollowsLines, Open, ToReserve
<1>2. OrderOf(r) \in Order
  BY CheckoutAssumption DEF TypeOK, OrderOf, Order
<1>3. \A o \in orders : o.id # r
  BY <1>1 DEF InsertsIsolated
<1>4. lines[r] # NoLines
  BY <1>1 DEF Bought, NoLines
<1>5. \A p \in Products : IF lines[r][p] > 0
                          THEN stockLock[p] = r /\ latest[p] = stock[p] - lines[r][p]
                          ELSE stockLock[p] # r /\ lines[r][p] = 0
  BY <1>1 DEF StockRowsIsolated, Reserved, Bought, Lines
<1>6. \A p \in Products : /\ stock[p] \in Nat /\ latest[p] \in Nat /\ lines[r][p] \in Nat
                          /\ lines[r][p] <= stock[p]
  <2>1. \A p \in Products : stock[p] \in Nat /\ latest[p] \in Nat /\ lines[r][p] \in Nat
    BY <1>1 DEF TypeOK, Lines
  <2>. QED
    BY <1>5, <2>1
<1>7. stock' = [p \in Products |-> stock[p] - lines[r][p]]
  BY <1>5, <1>6
<1>8. {o \in newOrders : o.id = r} = {OrderOf(r)}
  BY <1>1 DEF InsertsIsolated, OrderOf
<1>9. newEvents \cap {r} = {r}
  BY <1>1 DEF InsertsIsolated
<1>10. \A d \in Days : IF d = day[r]
                       THEN salesLock[d] = r /\ salesLatest[d] = PlusOrder(sales[d], lines[r])
                       ELSE salesLock[d] # r
  BY <1>1 DEF SalesRowsIsolated, TypeOK
<1>11. sales' = [sales EXCEPT ![day[r]] = PlusOrder(@, lines[r])]
  BY <1>10 DEF TypeOK, Summary
<1>12. \A u \in Users : cartLock[u] = r <=> u = UserOf[r]
  BY <1>1 DEF CartRowsIsolated
<1>13. carts' = [carts EXCEPT ![UserOf[r]] = NoLines]
  BY <1>12 DEF TypeOK
<1>. QED
  BY <1>2, <1>3, <1>4, <1>6, <1>7, <1>8, <1>9, <1>11, <1>13

\* A commit publishes rows and inserts together and frees every lock.
LEMMA CommitIInv ==
    ASSUME IInv, NEW r \in Requests, Commit(r)
    PROVE  IInv'
<1>. USE DEF IInv, TransactionsIsolated, Commit, locals
<1>1. /\ pc[r] = "commit" /\ pc'[r] \in {"confirmed", "failed"}
      /\ \A x \in Requests \ {r} : pc'[x] = pc[x]
      /\ pc' \in [Requests -> {"start", "listed"} \cup Open \cup Ended]
  BY DEF TypeOK, Ended
<1>2. TypeOK'
  <2>1. carts' \in [Users -> Lines]
    BY ShopAssumption DEF TypeOK, Lines, NoLines
  <2>2. stock' \in [Products -> Nat] /\ sales' \in Summary
    BY DEF TypeOK, Summary
  <2>3. orders' \subseteq Order /\ newOrders' \subseteq Order
    BY DEF TypeOK
  <2>4. events' \subseteq Requests /\ newEvents' \subseteq Requests
    BY DEF TypeOK
  <2>5. /\ stockLock' \in [Products -> Requests \cup {None}]
        /\ cartLock' \in [Users -> Requests \cup {None}]
        /\ salesLock' \in [Days -> Requests \cup {None}]
        /\ gaps' \in [Requests -> SUBSET Days]
    BY DEF TypeOK
  <2>6. TypeOK /\ UNCHANGED <<latest, salesLatest, lines, queue, day, today, asked>>
    OBVIOUS
  <2> HIDE DEF Commit, IInv
  <2>. QED
    BY <1>1, <2>1, <2>2, <2>3, <2>4, <2>5, <2>6 DEF TypeOK
<1>3. QueueFollowsLines'
  BY <1>1 DEF QueueFollowsLines, ToReserve, Open, Bought
<1>4. StockRowsIsolated'
  <2>1. \A p \in Products : ~Reserved(r, p)'
    BY <1>1 DEF Reserved, Open
  <2>2. \A x \in Requests \ {r}, p \in Products : Reserved(x, p)' <=> Reserved(x, p)
    BY <1>1 DEF Reserved, ToReserve
  <2>3. \A p \in Products :
            IF stockLock[p] = r
            THEN stock'[p] = latest[p] /\ stockLock'[p] = None
            ELSE stock'[p] = stock[p] /\ stockLock'[p] = stockLock[p]
    OBVIOUS
  <2>4. UNCHANGED <<latest, lines>>
    OBVIOUS
  <2>5. StockRowsIsolated
    OBVIOUS
  <2> HIDE DEF Commit, IInv
  <2>. QED
    BY <2>1, <2>2, <2>3, <2>4, <2>5, CheckoutAssumption DEF StockRowsIsolated
<1>5. CartRowsIsolated'
  BY <1>1, CheckoutAssumption DEF CartRowsIsolated
<1>6. SalesRowsIsolated'
  <2>1. \A d \in Days :
            IF salesLock[d] = r
            THEN sales'[d] = salesLatest[d] /\ salesLock'[d] = None
            ELSE sales'[d] = sales[d] /\ salesLock'[d] = salesLock[d]
    OBVIOUS
  <2>2. UNCHANGED <<salesLatest, lines, day>> /\ SalesRowsIsolated
    OBVIOUS
  <2> HIDE DEF Commit, IInv
  <2>. QED
    BY <1>1, <2>1, <2>2, CheckoutAssumption DEF SalesRowsIsolated
<1>7. InsertsIsolated'
  <2>1. UNCHANGED <<lines, day>> /\ InsertsIsolated
    OBVIOUS
  <2>2. newOrders' = {o \in newOrders : o.id # r} /\ newEvents' = newEvents \ {r}
    OBVIOUS
  <2>3. orders' = orders \cup {OrderOf(r)}
    BY CommitPublishes
  <2>4. \A o \in orders : o.id \in Requests
    BY DEF TypeOK, Order
  <2> HIDE DEF Commit, IInv
  <2>. QED
    BY <1>1, <2>1, <2>2, <2>3, <2>4 DEF InsertsIsolated, OrderOf, Open
<1>8. EventForEachOrder'
  <2>1. orders' = orders \cup {OrderOf(r)} /\ events' = events \cup {r}
    BY CommitPublishes
  <2>2. OrderOf(r).id = r /\ events = {o.id : o \in orders}
    BY DEF EventForEachOrder, OrderOf
  <2> HIDE DEF Commit, IInv
  <2>. QED
    BY <2>1, <2>2 DEF EventForEachOrder
<1>9. GapsIsolated'
  <2>1. /\ gaps'[r] = {}
        /\ \A x \in Requests \ {r} : gaps'[x] = gaps[x] /\ gaps[x] \in SUBSET Days
        /\ \A d \in Days : salesLock[d] # r => salesLock'[d] = salesLock[d]
        /\ UNCHANGED <<salesLatest, day>>
    BY DEF TypeOK
  <2>2. GapsIsolated
    OBVIOUS
  <2> HIDE DEF Commit, IInv
  <2>. QED
    BY <1>1, <2>1, <2>2 DEF GapsIsolated
<1>. QED
  BY <1>2, <1>3, <1>4, <1>5, <1>6, <1>7, <1>8, <1>9

\* An empty cart begins no transaction.
LEMMA ListEmptyIInv ==
    ASSUME IInv, NEW r \in Requests, ListEmpty(r)
    PROVE  IInv'
<1>. USE DEF IInv, TransactionsIsolated, ListEmpty, MayStart, committed, locks, inserts, locals
<1>1. /\ pc[r] = "start" /\ pc'[r] = "empty"
      /\ \A x \in Requests \ {r} : pc'[x] = pc[x]
  BY DEF TypeOK
<1>2. TypeOK'
  BY <1>1 DEF TypeOK, Ended
<1>3. QueueFollowsLines'
  BY <1>1 DEF QueueFollowsLines, ToReserve, Open, Bought
<1>4. StockRowsIsolated'
  BY <1>1 DEF StockRowsIsolated, Reserved, ToReserve, Open, Bought
<1>5. CartRowsIsolated'
  BY <1>1 DEF CartRowsIsolated
<1>6. SalesRowsIsolated'
  BY <1>1 DEF SalesRowsIsolated
<1>7. InsertsIsolated'
  BY <1>1 DEF TypeOK, InsertsIsolated, OrderOf, Open, Order
<1>8. EventForEachOrder'
  BY DEF EventForEachOrder
<1>9. GapsIsolated'
  <2>1. \A x \in Requests : gaps[x] # {} => pc'[x] \in {"summary", "commit"} /\ day'[x] = day[x]
    BY <1>1 DEF TypeOK, GapsIsolated
  <2>. QED
    BY <2>1, GapsStay
<1>. QED
  BY <1>2, <1>3, <1>4, <1>5, <1>6, <1>7, <1>8, <1>9

\* A cart statement touches nothing but the carts and the history of them.
LEMMA CartStatementIInv ==
    ASSUME IInv, NEW u \in Users, NEW p \in Products, CartStatement(u, p)
    PROVE  IInv' /\ \E q \in 0..MaxQuantity : Ledger!EditCart(u, p, q)
<1>1. PICK q \in 0..MaxQuantity, n \in Nat :
            SetRow(u, p, q) /\ Ask(u, p, n) /\ CartRest
  <2>1. carts[u][p] \in 0..MaxQuantity
    BY DEF IInv, TypeOK, Lines
  <2>2. ASSUME NEW q \in 1..MaxQuantity, AddRow(u, p, q)
        PROVE  \E k \in 0..MaxQuantity, n \in Nat : SetRow(u, p, k) /\ Ask(u, p, n) /\ CartRest
    <3>1. (IF carts[u][p] + q > MaxQuantity THEN MaxQuantity ELSE carts[u][p] + q) \in 0..MaxQuantity
      BY <2>1, ShopAssumption
    <3>. QED
      BY <2>2, <3>1 DEF AddRow
  <2>3. ASSUME NEW q \in 1..MaxQuantity, UpdateRow(u, p, q)
        PROVE  \E k \in 0..MaxQuantity, n \in Nat : SetRow(u, p, k) /\ Ask(u, p, n) /\ CartRest
    <3>1. (IF q > carts[u][p] THEN q - carts[u][p] ELSE 0) \in Nat /\ q \in 0..MaxQuantity
      BY <2>1, ShopAssumption
    <3>. QED
      BY <2>3, <3>1 DEF UpdateRow
  <2>4. ASSUME RemoveRow(u, p)
        PROVE  \E k \in 0..MaxQuantity, n \in Nat : SetRow(u, p, k) /\ Ask(u, p, n) /\ CartRest
    BY <2>4, ShopAssumption DEF RemoveRow
  <2>. QED
    BY <2>2, <2>3, <2>4 DEF CartStatement
<1>2. TypeOK'
  <2>1. carts' \in [Users -> Lines]
    BY <1>1 DEF IInv, TypeOK, SetRow, Lines
  <2>2. asked' \in [Users -> [Products -> Nat]]
    <3>1. asked[u][p] + n \in Nat
      BY DEF IInv, TypeOK
    <3>. QED
      BY <1>1, <3>1 DEF IInv, TypeOK, Ask
  <2>. QED
    BY <1>1, <2>1, <2>2 DEF IInv, TypeOK, CartRest, locks, inserts, locals
<1>3. TransactionsIsolated' /\ EventForEachOrder'
  <2>1. IInv /\ UNCHANGED <<stock, orders, events, sales, latest, stockLock, cartLock, salesLatest,
                           salesLock, gaps, newOrders, newEvents, pc, lines, queue, day>>
    BY <1>1 DEF CartRest, locks, inserts, locals
  <2>2. QueueFollowsLines'
    BY <2>1 DEF IInv, TransactionsIsolated, QueueFollowsLines, ToReserve, Bought
  <2>3. StockRowsIsolated'
    BY <2>1 DEF IInv, TransactionsIsolated, StockRowsIsolated, Reserved, ToReserve
  <2>4. CartRowsIsolated'
    BY <2>1 DEF IInv, TransactionsIsolated, CartRowsIsolated
  <2>5. SalesRowsIsolated'
    BY <2>1 DEF IInv, TransactionsIsolated, SalesRowsIsolated
  <2>6. InsertsIsolated'
    BY <2>1 DEF IInv, TransactionsIsolated, InsertsIsolated, OrderOf
  <2>7. GapsIsolated'
    BY <2>1 DEF IInv, TransactionsIsolated, GapsIsolated
  <2>. QED
    BY <2>1, <2>2, <2>3, <2>4, <2>5, <2>6, <2>7 DEF IInv, TransactionsIsolated, EventForEachOrder
<1>4. Ledger!EditCart(u, p, q)
  BY <1>1 DEF Ledger!EditCart, SetRow, CartRest
<1>. QED
  BY <1>2, <1>3, <1>4 DEF IInv

\* Midnight leaves the day of an open transaction as it is.
LEMMA NextDayIInv ==
    ASSUME IInv, NextDay
    PROVE  IInv'
<1>1. UNCHANGED <<carts, stock, orders, events, sales, latest, stockLock, cartLock, salesLatest,
                  salesLock, gaps, newOrders, newEvents, pc, lines, queue, day, asked>>
  BY DEF NextDay, committed, locks, inserts, locals
<1>2. TypeOK'
  BY <1>1, ShopAssumption DEF IInv, TypeOK, NextDay, Days
<1>3. QueueFollowsLines'
  BY <1>1 DEF IInv, TransactionsIsolated, QueueFollowsLines, ToReserve, Bought
<1>4. StockRowsIsolated'
  BY <1>1 DEF IInv, TransactionsIsolated, StockRowsIsolated, Reserved, ToReserve
<1>5. CartRowsIsolated'
  BY <1>1 DEF IInv, TransactionsIsolated, CartRowsIsolated
<1>6. SalesRowsIsolated'
  BY <1>1 DEF IInv, TransactionsIsolated, SalesRowsIsolated
<1>7. InsertsIsolated'
  BY <1>1 DEF IInv, TransactionsIsolated, InsertsIsolated, OrderOf
<1>8. GapsIsolated'
  BY <1>1 DEF IInv, TransactionsIsolated, GapsIsolated
<1>. QED
  BY <1>1, <1>2, <1>3, <1>4, <1>5, <1>6, <1>7, <1>8 DEF IInv, TransactionsIsolated, EventForEachOrder

\* Nothing changes in a stuttering step.
LEMMA StutterIInv ==
    ASSUME IInv, UNCHANGED vars
    PROVE  IInv'
<1>1. UNCHANGED <<carts, stock, orders, events, sales, latest, stockLock, cartLock, salesLatest,
                  salesLock, gaps, newOrders, newEvents, pc, lines, queue, day, today, asked>>
  BY DEF vars, committed, locks, inserts, locals
<1>2. TypeOK'
  BY <1>1 DEF IInv, TypeOK
<1>3. QueueFollowsLines'
  BY <1>1 DEF IInv, TransactionsIsolated, QueueFollowsLines, ToReserve, Bought
<1>4. StockRowsIsolated'
  BY <1>1 DEF IInv, TransactionsIsolated, StockRowsIsolated, Reserved, ToReserve
<1>5. CartRowsIsolated'
  BY <1>1 DEF IInv, TransactionsIsolated, CartRowsIsolated
<1>6. SalesRowsIsolated'
  BY <1>1 DEF IInv, TransactionsIsolated, SalesRowsIsolated
<1>7. InsertsIsolated'
  BY <1>1 DEF IInv, TransactionsIsolated, InsertsIsolated, OrderOf
<1>8. GapsIsolated'
  BY <1>1 DEF IInv, TransactionsIsolated, GapsIsolated
<1>. QED
  BY <1>1, <1>2, <1>3, <1>4, <1>5, <1>6, <1>7, <1>8 DEF IInv, TransactionsIsolated, EventForEachOrder

\* The three ways an open transaction is rolled back.
RolledBack(r) == RefuseStock(r) \/ Abort(r) \/ DeadlockVictim(r)

\* Whatever ends a request without a commit is a rollback.
LEMMA RolledBackRollback ==
    ASSUME IInv, NEW r \in Requests, RolledBack(r)
    PROVE  /\ pc[r] \in Open \cup {"listed"}
           /\ \E reply \in Answers : Rollback(r, reply)
<1>1. CASE RefuseStock(r)
  BY <1>1 DEF RefuseStock, Open, Answers
<1>2. CASE Abort(r)
  BY <1>2 DEF Abort, Answers
<1>3. CASE DeadlockVictim(r)
  <2>1. Blocked(r) /\ Rollback(r, "failed")
    BY <1>3 DEF DeadlockVictim, WaitCycle, Blocked
  <2>. QED
    BY <2>1, BlockedIsOpen DEF Answers
<1>. QED
  BY <1>1, <1>2, <1>3 DEF RolledBack

\* Every step preserves the invariant.
LEMMA NextIInv == IInv /\ [Next]_vars => IInv'
<1> SUFFICES ASSUME IInv, [Next]_vars PROVE IInv'
  OBVIOUS
<1>1. ASSUME NEW r \in Requests, ListCart(r) PROVE IInv'
  BY <1>1, ListCartIInv
<1>2. ASSUME NEW r \in Requests, ListEmpty(r) PROVE IInv'
  BY <1>2, ListEmptyIInv
<1>3. ASSUME NEW r \in Requests, InsertOrder(r) PROVE IInv'
  BY <1>3, InsertOrderIInv
<1>4. ASSUME NEW r \in Requests, Reserve(r) PROVE IInv'
  BY <1>4, ReserveIInv
<1>5. ASSUME NEW r \in Requests, Clear(r) PROVE IInv'
  BY <1>5, ClearIInv
<1>6. ASSUME NEW r \in Requests, InsertEvent(r) PROVE IInv'
  BY <1>6, InsertEventIInv
<1>7. ASSUME NEW r \in Requests, UpsertSummary(r) PROVE IInv'
  BY <1>7, UpsertSummaryIInv
<1>8. ASSUME NEW r \in Requests, Commit(r) PROVE IInv'
  BY <1>8, CommitIInv
<1>9. ASSUME NEW r \in Requests, RolledBack(r) PROVE IInv'
  BY <1>9, RolledBackRollback, RollbackIInv
<1>10. ASSUME NEW u \in Users, NEW p \in Products, CartStatement(u, p) PROVE IInv'
  BY <1>10, CartStatementIInv
<1>11. ASSUME NextDay PROVE IInv'
  BY <1>11, NextDayIInv
<1>12. ASSUME UNCHANGED vars PROVE IInv'
  BY <1>12, StutterIInv
<1>. QED
  BY <1>1, <1>2, <1>3, <1>4, <1>5, <1>6, <1>7, <1>8, <1>9, <1>10, <1>11, <1>12
     DEF Next, Statement, RolledBack

-----------------------------------------------------------------------------
(* Theorems. *)

\* The inductive invariant of CreateOrder and the cart statements.
THEOREM Invariance == Spec => []IInv
<1>. QED
  BY InitIInv, NextIInv, PTL DEF Spec

\* No row of any table leaves its columns' range; stock is never negative.
THEOREM TypeCorrect == Spec => []TypeOK
<1>1. IInv => TypeOK
  BY DEF IInv
<1>. QED
  BY <1>1, Invariance, PTL

\* Each row lock is held by the one request that has written the row, and all
\* that a transaction has written waits for its own commit or rollback.
THEOREM Isolation == Spec => []TransactionsIsolated
<1>1. IInv => TransactionsIsolated
  BY DEF IInv
<1>. QED
  BY <1>1, Invariance, PTL

\* An order_confirmed event is in the outbox if and only if its order exists.
THEOREM OutboxMatchesOrders == Spec => []EventForEachOrder
<1>1. IInv => EventForEachOrder
  BY DEF IInv
<1>. QED
  BY <1>1, Invariance, PTL

\* Whatever statements of concurrent requests come between, an order with its
\* items, stock, emptied cart, event and summary happens in one step.
THEOREM AtomicOrders == Spec => OrdersAreAtomic
<1>1. Init => Ledger!Init
  BY DEF Init, Ledger!Init, NoSales, Lines, Ledger!Lines, Days, Ledger!Days
<1>2. IInv /\ [Next]_vars => [Ledger!Next]_(Ledger!vars)
  <2> SUFFICES ASSUME IInv, [Next]_vars PROVE [Ledger!Next]_(Ledger!vars)
    OBVIOUS
  <2>1. ASSUME NEW r \in Requests, Commit(r) PROVE Ledger!Next
    <3>1. OrderOf(r) \in Ledger!Order
      BY <2>1, CommitPublishes DEF Order, Ledger!Order, Lines, Ledger!Lines, Days, Ledger!Days
    <3>2. /\ OrderOf(r).id = r /\ OrderOf(r).user = UserOf[r]
          /\ OrderOf(r).day = day[r] /\ OrderOf(r).lines = lines[r]
      BY DEF OrderOf
    <3>3. Ledger!Place(OrderOf(r))
      BY <2>1, <3>2, CommitPublishes DEF Ledger!Place, NoLines, Ledger!NoLines,
                                         PlusOrder, Ledger!PlusOrder
    <3>. QED
      BY <3>1, <3>3 DEF Ledger!Next
  <2>2. ASSUME NEW u \in Users, NEW p \in Products, CartStatement(u, p) PROVE Ledger!Next
    BY <2>2, CartStatementIInv DEF Ledger!Next
  <2>3. ASSUME NEW r \in Requests,
               \/ ListCart(r) \/ ListEmpty(r) \/ InsertOrder(r) \/ Reserve(r) \/ Clear(r)
               \/ InsertEvent(r) \/ UpsertSummary(r)
        PROVE  UNCHANGED Ledger!vars
    BY <2>3 DEF ListCart, ListEmpty, InsertOrder, Reserve, Clear, InsertEvent, UpsertSummary,
                committed, Ledger!vars
  <2>4. ASSUME NEW r \in Requests, RolledBack(r) PROVE UNCHANGED Ledger!vars
    BY <2>4, RolledBackRollback DEF Rollback, committed, Ledger!vars
  <2>5. ASSUME NextDay \/ UNCHANGED vars PROVE UNCHANGED Ledger!vars
    BY <2>5 DEF NextDay, vars, committed, Ledger!vars
  <2>. QED
    BY <2>1, <2>2, <2>3, <2>4, <2>5 DEF Next, Statement, RolledBack
<1>. QED
  BY <1>1, <1>2, Invariance, PTL DEF Spec, OrdersAreAtomic, Ledger!Spec

\* A shortage is only reported when the committed stock is too small: stock
\* that another order may still give back is waited for, not counted out.
THEOREM ShortageIsCommitted == Spec => RefusedOnCommittedStock
<1>1. ASSUME IInv, [Next]_vars, NEW r \in Requests, pc[r] # "refused", pc'[r] = "refused"
      PROVE  \E p \in Products : stock[p] < lines[r][p]
  <2>1. ASSUME RefuseStock(r) PROVE \E p \in Products : stock[p] < lines[r][p]
    <3>1. /\ queue[r] \in Seq(Products) /\ queue[r] # <<>>
          /\ Head(queue[r]) \in Products
          /\ Head(queue[r]) \in ToReserve(r)
      BY <1>1, <2>1 DEF RefuseStock, IInv, TypeOK, TransactionsIsolated, QueueFollowsLines, ToReserve
    <3>2. stockLock[Head(queue[r])] = None
      BY <1>1, <2>1, <3>1, NotBlocked DEF RefuseStock, IInv, TransactionsIsolated, StockRowsIsolated, Reserved
    <3>3. stock[Head(queue[r])] < lines[r][Head(queue[r])]
      BY <1>1, <2>1, <3>1, <3>2 DEF RefuseStock, IInv, TransactionsIsolated, StockRowsIsolated
    <3>. QED
      BY <3>1, <3>3
  <2>2. ASSUME NEW x \in Requests, x # r, RolledBack(x) PROVE FALSE
    BY <1>1, <2>2, RolledBackRollback DEF Rollback, IInv, TypeOK
  <2>3. ASSUME Abort(r) \/ DeadlockVictim(r) PROVE FALSE
    BY <1>1, <2>3 DEF Abort, DeadlockVictim, Rollback, IInv, TypeOK
  <2>4. ASSUME NEW x \in Requests,
               \/ ListCart(x) \/ ListEmpty(x) \/ InsertOrder(x) \/ Reserve(x) \/ Clear(x)
               \/ InsertEvent(x) \/ UpsertSummary(x) \/ Commit(x)
        PROVE  FALSE
    BY <1>1, <2>4 DEF ListCart, ListEmpty, InsertOrder, Reserve, Clear, InsertEvent,
                      UpsertSummary, Commit, IInv, TypeOK
  <2>5. ASSUME NEW u \in Users, NEW p \in Products, CartStatement(u, p) PROVE FALSE
    BY <1>1, <2>5 DEF CartStatement, AddRow, UpdateRow, RemoveRow, CartRest
  <2>6. ASSUME NextDay \/ UNCHANGED vars PROVE FALSE
    BY <1>1, <2>6 DEF NextDay, vars
  <2>. QED
    BY <1>1, <2>1, <2>2, <2>3, <2>4, <2>5, <2>6 DEF Next, Statement, RolledBack
<1>2. IInv /\ [Next]_vars =>
        [\A r \in Requests :
            pc[r] # "refused" /\ pc'[r] = "refused" =>
                \E p \in Products : stock[p] < lines[r][p]]_vars
  BY <1>1
<1>. QED
  BY <1>2, Invariance, PTL DEF Spec, RefusedOnCommittedStock

\* In a circle, or several, each waits for another, so that those of a part of it
\* who wait for each other only are waited for by each other only.
LEMMA CirclePart ==
    ASSUME NEW S, IsFiniteSet(S), NEW next \in [S -> S], {next[r] : r \in S} = S,
           NEW U \in SUBSET S, \A u \in U : next[u] \in U,
           NEW r \in S, next[r] \in U
    PROVE  r \in U
<1>1. next \in Surjection(S, S)
  BY DEF Surjection
<1>2. next \in Injection(S, S)
  BY <1>1, FS_SurjSameCardinalityImpliesInj
<1>3. \A x, y \in S : next[x] = next[y] => x = y
  BY <1>2 DEF Injection, IsInjective
<1>. DEFINE f == [u \in U |-> next[u]]
<1>4. f \in Injection(U, U)
  BY <1>3 DEF Injection, IsInjective
<1>5. IsFiniteSet(U)
  BY FS_Subset
<1>6. f \in Surjection(U, U)
  <2>. HIDE DEF f
  <2>. QED
    BY <1>4, <1>5, FS_Injection
<1>7. PICK u \in U : f[u] = next[r]
  BY <1>6 DEF Surjection
<1>. QED
  BY <1>3, <1>7

\* A circle of waiting requests is one of inventory rows, or of requests that have
\* all been given the gap of a day without a row: whoever waits for a cart waits
\* for one who waits for the summary; whoever waits for the row of a day waits
\* for one about to commit, and whoever waits for a gap waits for one about to
\* commit or for one who waits for that gap.
THEOREM DeadlocksAreOnStockOrNewDay == Spec => []DeadlocksOnStockOrNewDay
<1>1. ASSUME IInv, NEW S \in SUBSET Requests, WaitCycle(S), NEW r \in S
      PROVE  \/ pc[r] = "reserve"
             \/ pc[r] = "summary" /\ day[r] \in gaps[r] /\ salesLatest[day[r]].orders = 0
  <2>. DEFINE U == {x \in S : pc[x] = "summary"}
  <2>1. PICK next \in [S -> S] :
            (\A x \in S : next[x] \in WaitsFor(x)) /\ {next[x] : x \in S} = S
    BY <1>1 DEF WaitCycle
  <2>2. \A x \in S : pc[x] \in {"reserve", "clear", "summary"}
    BY <2>1 DEF WaitsFor
  <2>3. ASSUME NEW x \in S, pc[x] = "summary"
        PROVE  /\ pc[next[x]] = "summary" /\ day[x] \in gaps[next[x]]
               /\ salesLatest[day[x]].orders = 0
    <3>1. next[x] \in S /\ next[x] \in Requests /\ next[x] # x /\ next[x] # None
      BY <2>1, <2>3, CheckoutAssumption DEF WaitsFor
    <3>2. next[x] = salesLock[day[x]] \/ day[x] \in gaps[next[x]]
      BY <2>1, <2>3 DEF WaitsFor
    <3>3. day[x] \in Days
      BY <1>1 DEF IInv, TypeOK
    <3>4. next[x] # salesLock[day[x]]
      BY <1>1, <2>2, <3>1, <3>3 DEF IInv, TransactionsIsolated, SalesRowsIsolated
    <3>5. day[x] \in gaps[next[x]] /\ pc[next[x]] = "summary"
      BY <1>1, <2>2, <3>1, <3>2, <3>4 DEF IInv, TransactionsIsolated, GapsIsolated
    <3>6. salesLatest[day[x]].orders \in Nat
      BY <1>1, <3>3 DEF IInv, TypeOK, Summary
    <3>7. ~(salesLatest[day[x]].orders > 0)
      BY <1>1, <3>1, <3>4, <3>5 DEF IInv, TransactionsIsolated, GapsIsolated
    <3>. QED
      BY <3>5, <3>6, <3>7
  <2>4. ASSUME NEW x \in S PROVE next[x] \in U => x \in U
    <3>1. IsFiniteSet(S) /\ U \in SUBSET S /\ \A u \in U : next[u] \in U
      BY <2>1, <2>3, CheckoutAssumption, FS_Subset
    <3>. HIDE DEF U
    <3>. QED
      BY <2>1, <3>1, CirclePart
  <2>5. ASSUME NEW x \in S PROVE pc[x] # "clear"
    <3> SUFFICES ASSUME pc[x] = "clear" PROVE FALSE
      OBVIOUS
    <3>1. next[x] = cartLock[UserOf[x]] /\ next[x] \in S
      BY <2>1 DEF WaitsFor
    <3>2. UserOf[x] \in Users /\ next[x] \in Requests
      BY <3>1, CheckoutAssumption
    <3>3. pc[next[x]] \in {"event", "summary", "commit"}
      BY <1>1, <3>1, <3>2 DEF IInv, TransactionsIsolated, CartRowsIsolated
    <3>. QED
      BY <2>2, <2>4, <3>1, <3>3
  <2>6. CASE pc[r] = "summary"
    <3>1. next[r] \in S /\ day[r] \in Days /\ next[r] # r
      BY <1>1, <2>1, <2>6 DEF IInv, TypeOK, WaitsFor
    <3>2. PICK y \in S : next[y] = r
      BY <2>1
    <3>3. pc[y] = "summary"
      BY <2>4, <2>6, <3>2
    <3>4. gaps[r] # {}
      BY <2>3, <3>2, <3>3
    <3>5. day[r] \in gaps[r]
      BY <1>1, <3>4 DEF IInv, TransactionsIsolated, GapsIsolated
    <3>. QED
      BY <2>3, <2>6, <3>5
  <2>. QED
    BY <2>2, <2>5, <2>6
<1>2. IInv => DeadlocksOnStockOrNewDay
  BY <1>1 DEF DeadlocksOnStockOrNewDay
<1>. QED
  BY <1>2, Invariance, PTL

\* Requests of which each waits for another of them: a smallest such set is a
\* circle, since those its members wait for are such a set too.
LEMMA WaitersHaveCircle ==
    ASSUME NEW C \in SUBSET Requests, C # {},
           \A r \in C : WaitsFor(r) \cap C # {}
    PROVE  \E S \in SUBSET C : WaitCycle(S)
<1>1. \E g : g = [r \in C |-> CHOOSE x \in C : x \in WaitsFor(r)]
  OBVIOUS
<1>2. PICK g : g = [r \in C |-> CHOOSE x \in C : x \in WaitsFor(r)]
  BY <1>1
<1>3. ASSUME NEW r \in C PROVE g[r] \in C /\ g[r] \in WaitsFor(r)
  <2>1. \E x \in C : x \in WaitsFor(r)
    OBVIOUS
  <2>2. g[r] = CHOOSE x \in C : x \in WaitsFor(r)
    BY <1>2
  <2>. QED
    BY <2>1, <2>2, Zenon
<1>. DEFINE Closed == {S \in SUBSET C : S # {} /\ \A r \in S : g[r] \in S}
<1>4. IsFiniteSet(C) /\ Closed \in SUBSET (SUBSET C) /\ C \in Closed
  BY <1>3, CheckoutAssumption, FS_Subset
<1>5. PICK S \in Closed : \A U \in Closed : U \subseteq S => U = S
  <2>. HIDE DEF Closed
  <2>. QED
    BY <1>4, MinimalSubset
<1>. DEFINE U == {g[r] : r \in S}
<1>6. U \in Closed /\ U \subseteq S
  BY <1>5
<1>7. U = S
  BY <1>5, <1>6
<1>. DEFINE next == [r \in S |-> g[r]]
<1>8. /\ S \in SUBSET C /\ S # {}
      /\ next \in [S -> S]
      /\ \A r \in S : next[r] \in WaitsFor(r)
      /\ {next[r] : r \in S} = S
  BY <1>3, <1>5, <1>7
<1>9. WaitCycle(S)
  <2>. HIDE DEF next, Closed
  <2>. QED
    BY <1>8 DEF WaitCycle
<1>. QED
  BY <1>8, <1>9

\* No lock outlives its transaction, and as long as transactions are open one of
\* them can go on or is in a circle that InnoDB finds.
SomebodyGoesOn ==
    /\ \A r \in Requests : \A x \in WaitsFor(r) : x \in Requests /\ pc[x] \in Open
    /\ (\E r \in Requests : pc[r] \in Open) =>
        \E r \in Requests :
            /\ pc[r] \in Open
            /\ ~Blocked(r) \/ \E S \in SUBSET Requests : r \in S /\ WaitCycle(S)

\* Whom a request waits for.
LEMMA WaitedForAreOpen ==
    ASSUME IInv, NEW r \in Requests, NEW x \in WaitsFor(r)
    PROVE  x \in Requests /\ pc[x] \in Open
<1>1. CASE pc[r] = "reserve"
  <2>. DEFINE p == Head(queue[r])
  <2>1. x = stockLock[p] /\ x # None
    BY <1>1 DEF WaitsFor
  <2>2. p \in Products
    BY <1>1 DEF IInv, TypeOK, TransactionsIsolated, QueueFollowsLines
  <2>. HIDE DEF p
  <2>3. x \in Requests
    BY <2>1, <2>2 DEF IInv, TypeOK
  <2>4. Reserved(x, p)
    BY <2>1, <2>2, <2>3 DEF IInv, TransactionsIsolated, StockRowsIsolated
  <2>. QED
    BY <2>3, <2>4 DEF Reserved
<1>2. CASE pc[r] = "clear"
  <2>1. x = cartLock[UserOf[r]] /\ x # None /\ UserOf[r] \in Users
    BY <1>2, CheckoutAssumption DEF WaitsFor
  <2>2. x \in Requests
    BY <2>1 DEF IInv, TypeOK
  <2>3. pc[x] \in {"event", "summary", "commit"}
    BY <2>1, <2>2 DEF IInv, TransactionsIsolated, CartRowsIsolated
  <2>. QED
    BY <2>2, <2>3 DEF Open
<1>3. CASE pc[r] = "summary"
  <2>1. day[r] \in Days /\ x # None
    BY <1>3 DEF IInv, TypeOK, WaitsFor
  <2>2. CASE x = salesLock[day[r]]
    <3>1. x \in Requests
      BY <2>1, <2>2 DEF IInv, TypeOK
    <3>2. pc[x] = "commit"
      BY <2>1, <2>2, <3>1 DEF IInv, TransactionsIsolated, SalesRowsIsolated
    <3>. QED
      BY <3>1, <3>2 DEF Open
  <2>3. CASE x \in Requests /\ day[r] \in gaps[x]
    <3>1. pc[x] \in {"summary", "commit"}
      BY <2>3 DEF IInv, TransactionsIsolated, GapsIsolated
    <3>. QED
      BY <2>3, <3>1 DEF Open
  <2>. QED
    BY <1>3, <2>2, <2>3 DEF WaitsFor
<1>4. pc[r] \in {"reserve", "clear", "summary"}
  BY DEF WaitsFor
<1>. QED
  BY <1>1, <1>2, <1>3, <1>4

\* Checkouts never stand still all at once: whoever waits for a row waits for an
\* open transaction, and if all of those wait, InnoDB has a victim to choose.
THEOREM NoStandstill == Spec => []SomebodyGoesOn
<1>1. IInv => SomebodyGoesOn
  <2> SUFFICES ASSUME IInv PROVE SomebodyGoesOn
    OBVIOUS
  <2>. DEFINE C == {r \in Requests : pc[r] \in Open}
  <2>1. ASSUME NEW r \in C, \A x \in C : Blocked(x)
        PROVE  \E S \in SUBSET C : WaitCycle(S)
    <3>1. \A x \in C : WaitsFor(x) \cap C # {}
      BY <2>1, WaitedForAreOpen DEF Blocked
    <3>2. C \in SUBSET Requests /\ C # {}
      OBVIOUS
    <3>. HIDE DEF C
    <3>. QED
      BY <3>1, <3>2, WaitersHaveCircle
  <2>2. ASSUME NEW S \in SUBSET C, WaitCycle(S)
        PROVE  \E r \in C : r \in S /\ S \in SUBSET Requests
    BY <2>2 DEF WaitCycle
  <2>3. (\E r \in Requests : pc[r] \in Open) =>
          \E r \in Requests :
            /\ pc[r] \in Open
            /\ ~Blocked(r) \/ \E S \in SUBSET Requests : r \in S /\ WaitCycle(S)
    <3> SUFFICES ASSUME NEW r \in C, \A x \in C : Blocked(x)
                 PROVE  \E x \in C : \E S \in SUBSET Requests : x \in S /\ WaitCycle(S)
      OBVIOUS
    <3>. QED
      BY <2>1, <2>2
  <2>. QED
    BY <2>3, WaitedForAreOpen DEF SomebodyGoesOn
<1>. QED
  BY <1>1, Invariance, PTL

-----------------------------------------------------------------------------
(* The books: stock, summary and what each user has asked for. *)

\* An order more has sold its own lines more.
LEMMA SoldAdd ==
    ASSUME NEW S \in SUBSET Order, IsFiniteSet(S), NEW o \in Order, o \notin S, NEW p \in Products
    PROVE  /\ Sold(p, S) \in Nat
           /\ Sold(p, S \cup {o}) = Sold(p, S) + o.lines[p]
<1>. DEFINE f == [x \in S |-> x.lines[p]]
            g == [x \in S \cup {o} |-> x.lines[p]]
<1>1. \A x \in S : f[x] \in Nat /\ f[x] = g[x] /\ g[x] \in Nat
  BY DEF Order, Lines
<1>2. g[o] = o.lines[p] /\ g[o] \in Nat
  BY DEF Order, Lines
<1>3. Sold(p, S) = SumFunctionOnSet(f, S) /\ Sold(p, S \cup {o}) = SumFunctionOnSet(g, S \cup {o})
  BY DEF Sold
<1>. HIDE DEF f, g
<1>4. SumFunctionOnSet(f, S) \in Nat /\ SumFunctionOnSet(f, S) = SumFunctionOnSet(g, S)
  BY <1>1, SumType, SumSame
<1>5. SumFunctionOnSet(g, S \cup {o}) = SumFunctionOnSet(g, S) + g[o]
  BY <1>1, <1>2, SumAdd
<1>. QED
  BY <1>2, <1>3, <1>4, <1>5

\* It comes to its own total more.
LEMMA AmountAdd ==
    ASSUME NEW S \in SUBSET Order, IsFiniteSet(S), NEW o \in Order, o \notin S
    PROVE  Amount(S \cup {o}) = Amount(S) + Total[o.lines]
<1>. DEFINE f == [x \in S |-> Total[x.lines]]
            g == [x \in S \cup {o} |-> Total[x.lines]]
<1>1. \A x \in S : f[x] \in Nat /\ f[x] = g[x] /\ g[x] \in Nat
  BY ShopAssumption DEF Order
<1>2. g[o] = Total[o.lines] /\ g[o] \in Nat
  BY ShopAssumption DEF Order
<1>3. Amount(S) = SumFunctionOnSet(f, S) /\ Amount(S \cup {o}) = SumFunctionOnSet(g, S \cup {o})
  BY DEF Amount
<1>. HIDE DEF f, g
<1>4. SumFunctionOnSet(f, S) = SumFunctionOnSet(g, S)
  BY <1>1, SumSame
<1>5. SumFunctionOnSet(g, S \cup {o}) = SumFunctionOnSet(g, S) + g[o]
  BY <1>1, <1>2, SumAdd
<1>. QED
  BY <1>2, <1>3, <1>4, <1>5

\* No order has sold nothing and comes to nothing.
LEMMA NothingSold == ASSUME NEW p PROVE Sold(p, {}) = 0 /\ Amount({}) = 0
BY SumEmpty DEF Sold, Amount

\* The stock and the summary agree with the orders.
Books == IsFiniteSet(orders) /\ StockAccounted /\ SummaryMatchesOrders

\* At the start nothing is sold.
LEMMA InitBooks == Init => Books
<1> SUFFICES ASSUME Init PROVE Books
  OBVIOUS
<1>1. IsFiniteSet(orders)
  BY FS_EmptySet DEF Init
<1>2. StockAccounted
  BY NothingSold, ShopAssumption DEF Init, StockAccounted
<1>3. SummaryMatchesOrders
  <2> SUFFICES ASSUME NEW d \in Days
               PROVE  sales[d] = [orders |-> Cardinality({o \in orders : o.day = d}),
                                  amount |-> Amount({o \in orders : o.day = d})]
    BY DEF SummaryMatchesOrders
  <2>1. {o \in orders : o.day = d} = {}
    BY DEF Init
  <2>. QED
    BY <2>1, NothingSold, FS_EmptySet DEF Init, NoSales
<1>. QED
  BY <1>1, <1>2, <1>3 DEF Books

\* What a commit publishes is entered in the books once.
LEMMA CommitBooks ==
    ASSUME IInv, Books, NEW r \in Requests, Commit(r)
    PROVE  Books'
<1>. DEFINE o == OrderOf(r)
<1>1. /\ o \in Order /\ o \notin orders
      /\ o.day = day[r] /\ o.lines = lines[r]
      /\ lines[r] \in Lines /\ day[r] \in Days
      /\ orders' = orders \cup {o}
      /\ stock' = [p \in Products |-> stock[p] - lines[r][p]]
      /\ sales' = [sales EXCEPT ![day[r]] = PlusOrder(@, lines[r])]
  BY CommitPublishes DEF OrderOf, Order
<1>2. orders \in SUBSET Order /\ stock \in [Products -> Nat] /\ sales \in Summary
  BY DEF IInv, TypeOK
<1>3. IsFiniteSet(orders')
  BY <1>1, FS_AddElement DEF Books
<1>. HIDE DEF o
<1>4. StockAccounted'
  <2> SUFFICES ASSUME NEW p \in Products
               PROVE  stock'[p] + Sold(p, orders') = InitialStock[p]
    BY DEF StockAccounted
  <2>1. Sold(p, orders) \in Nat /\ Sold(p, orders') = Sold(p, orders) + lines[r][p]
    BY <1>1, <1>2, SoldAdd DEF Books
  <2>2. stock[p] + Sold(p, orders) = InitialStock[p]
    BY DEF Books, StockAccounted
  <2>3. stock[p] \in Nat /\ lines[r][p] \in Nat /\ stock'[p] = stock[p] - lines[r][p]
    BY <1>1, <1>2 DEF Lines
  <2>. QED
    BY <2>1, <2>2, <2>3
<1>5. SummaryMatchesOrders'
  <2> SUFFICES ASSUME NEW d \in Days
               PROVE  sales'[d] = [orders |-> Cardinality({x \in orders' : x.day = d}),
                                   amount |-> Amount({x \in orders' : x.day = d})]
    BY DEF SummaryMatchesOrders
  <2>. DEFINE S == {x \in orders : x.day = d}
  <2>1. sales[d] = [orders |-> Cardinality(S), amount |-> Amount(S)]
    BY DEF Books, SummaryMatchesOrders
  <2>2. S \in SUBSET Order /\ IsFiniteSet(S) /\ o \notin S
    BY <1>1, <1>2, FS_Subset DEF Books
  <2>3. CASE d = day[r]
    <3>1. {x \in orders' : x.day = d} = S \cup {o}
      BY <1>1, <2>3
    <3>2. Cardinality(S \cup {o}) = Cardinality(S) + 1
      BY <2>2, FS_AddElement
    <3>3. Amount(S \cup {o}) = Amount(S) + Total[lines[r]]
      BY <1>1, <2>2, AmountAdd
    <3>4. sales'[d] = PlusOrder(sales[d], lines[r])
      BY <1>1, <1>2, <2>3 DEF Summary
    <3>. HIDE DEF S
    <3>5. sales[d].orders = Cardinality(S) /\ sales[d].amount = Amount(S)
      BY <2>1
    <3>6. sales'[d] = [orders |-> sales[d].orders + 1,
                       amount |-> sales[d].amount + Total[lines[r]]]
      BY <3>4 DEF PlusOrder
    <3>. QED
      BY <3>1, <3>2, <3>3, <3>5, <3>6
  <2>4. CASE d # day[r]
    <3>1. {x \in orders' : x.day = d} = S
      BY <1>1, <2>4
    <3>2. sales'[d] = sales[d]
      BY <1>1, <1>2, <2>4 DEF Summary
    <3>. HIDE DEF S
    <3>. QED
      BY <2>1, <3>1, <3>2
  <2>. QED
    BY <2>3, <2>4
<1>. QED
  BY <1>3, <1>4, <1>5 DEF Books

\* A step that is no commit leaves orders, stock and summary alone.
LEMMA OnlyCommitSells ==
    ASSUME IInv, [Next]_vars, \A r \in Requests : ~Commit(r)
    PROVE  UNCHANGED <<stock, orders, sales>>
<1>1. ASSUME NEW r \in Requests,
             \/ ListCart(r) \/ ListEmpty(r) \/ InsertOrder(r) \/ Reserve(r) \/ Clear(r)
             \/ InsertEvent(r) \/ UpsertSummary(r)
      PROVE  UNCHANGED <<stock, orders, sales>>
  BY <1>1 DEF ListCart, ListEmpty, InsertOrder, Reserve, Clear, InsertEvent, UpsertSummary, committed
<1>2. ASSUME NEW r \in Requests, RolledBack(r) PROVE UNCHANGED <<stock, orders, sales>>
  BY <1>2, RolledBackRollback DEF Rollback, committed
<1>3. ASSUME NEW u \in Users, NEW p \in Products, CartStatement(u, p)
      PROVE  UNCHANGED <<stock, orders, sales>>
  BY <1>3 DEF CartStatement, AddRow, UpdateRow, RemoveRow, CartRest
<1>4. ASSUME NextDay \/ UNCHANGED vars PROVE UNCHANGED <<stock, orders, sales>>
  BY <1>4 DEF NextDay, vars, committed
<1>. QED
  BY <1>1, <1>2, <1>3, <1>4 DEF Next, Statement, RolledBack

\* Every step keeps the books balanced.
LEMMA NextBooks == IInv /\ Books /\ [Next]_vars => Books'
<1> SUFFICES ASSUME IInv, Books, [Next]_vars PROVE Books'
  OBVIOUS
<1>1. ASSUME NEW r \in Requests, Commit(r) PROVE Books'
  BY <1>1, CommitBooks
<1>2. ASSUME \A r \in Requests : ~Commit(r) PROVE Books'
  <2>1. UNCHANGED <<stock, orders, sales>>
    BY <1>2, OnlyCommitSells
  <2>. QED
    BY <2>1 DEF Books, StockAccounted, SummaryMatchesOrders
<1>. QED
  BY <1>1, <1>2

\* The books balance in every state.
THEOREM BooksBalance == Spec => []Books
<1>. QED
  BY InitBooks, NextBooks, Invariance, PTL DEF Spec

\* What is left of a product and what the committed orders have taken add up to
\* what there was, for any number of orders.
THEOREM StockAddsUp == Spec => []StockAccounted
<1>1. Books => StockAccounted
  BY DEF Books
<1>. QED
  BY <1>1, BooksBalance, PTL

\* The summary of each day counts and adds up the orders of that day, for any
\* number of them and across midnight.
THEOREM SummaryAddsUp == Spec => []SummaryMatchesOrders
<1>1. Books => SummaryMatchesOrders
  BY DEF Books
<1>. QED
  BY <1>1, BooksBalance, PTL


\* A request that may still take what its user's cart held.
InFlight(r) == pc[r] \in Open \cup {"listed"}

\* What a user has bought so far.
OrdersOf(u) == {o \in orders : o.user = u}

\* Without overlap a user has one order in flight, and what it is about to take
\* was asked for on top of what the user's orders have taken.
Asked ==
    /\ \A r, x \in Requests : UserOf[r] = UserOf[x] /\ InFlight(r) /\ InFlight(x) => r = x
    /\ SoldAtMostAsked
    /\ \A r \in Requests, p \in Products :
        InFlight(r) => lines[r][p] + Sold(p, OrdersOf(UserOf[r])) <= asked[UserOf[r]][p]

\* Overlapping orders of one user can list the same cart twice.
AskedInv == ~Overlap => Asked

\* At the start a cart holds what was asked for, and nothing is sold.
LEMMA InitAsked == Init => AskedInv
<1> SUFFICES ASSUME Init PROVE Asked
  BY DEF AskedInv
<1>1. \A r \in Requests : ~InFlight(r)
  BY DEF Init, InFlight, Open
<1>2. ASSUME NEW u \in Users, NEW p \in Products
      PROVE  carts[u][p] + Sold(p, OrdersOf(u)) <= asked[u][p]
  <2>1. Sold(p, OrdersOf(u)) = 0
    <3>1. OrdersOf(u) = {}
      BY DEF Init, OrdersOf
    <3>. QED
      BY <3>1, NothingSold
  <2>2. carts[u][p] \in Nat /\ asked = carts
    BY DEF Init, Lines
  <2>. QED
    BY <2>1, <2>2
<1>. QED
  BY <1>1, <1>2 DEF Asked, SoldAtMostAsked, OrdersOf

\* The quantities that the comparison is about are numbers.
LEMMA AskedTypes ==
    ASSUME IInv, Books, NEW p \in Products
    PROVE  /\ \A u \in Users : /\ carts[u][p] \in 0..MaxQuantity
                               /\ asked[u][p] \in Nat
                               /\ Sold(p, OrdersOf(u)) \in Nat
           /\ \A r \in Requests : UserOf[r] \in Users /\ lines[r][p] \in Nat
<1>1. orders \in SUBSET Order /\ IsFiniteSet(orders)
  BY DEF IInv, TypeOK, Books
<1>2. ASSUME NEW u \in Users PROVE Sold(p, OrdersOf(u)) \in Nat
  <2>. DEFINE f == [o \in OrdersOf(u) |-> o.lines[p]]
  <2>1. IsFiniteSet(OrdersOf(u)) /\ \A o \in OrdersOf(u) : f[o] \in Nat
    BY <1>1, FS_Subset DEF OrdersOf, Order, Lines
  <2>2. Sold(p, OrdersOf(u)) = SumFunctionOnSet(f, OrdersOf(u))
    BY DEF Sold
  <2>. HIDE DEF f
  <2>. QED
    BY <2>1, <2>2, SumType
<1>. QED
  BY <1>2, CheckoutAssumption DEF IInv, TypeOK, Lines

\* A step that neither sells, nor edits or lists a cart keeps the comparison.
LEMMA QuietAsked ==
    ASSUME Asked, UNCHANGED <<carts, orders, asked>>,
           \A r \in Requests : InFlight(r)' => InFlight(r) /\ lines'[r] = lines[r]
    PROVE  Asked'
<1>1. \A u : OrdersOf(u)' = OrdersOf(u)
  BY DEF OrdersOf
<1>2. \A p, S : Sold(p, S)' = Sold(p, S)
  BY DEF Sold
<1>. QED
  BY <1>1, <1>2 DEF Asked, SoldAtMostAsked, OrdersOf

\* A cart that is listed was asked for.
LEMMA ListCartAsked ==
    ASSUME IInv, Books, ~Overlap, Asked, NEW r \in Requests, ListCart(r)
    PROVE  Asked'
<1>1. /\ pc[r] = "start" /\ pc'[r] = "listed"
      /\ \A x \in Requests \ {r} : pc'[x] = pc[x] /\ lines'[x] = lines[x]
      /\ lines'[r] = carts[UserOf[r]]
      /\ \A x \in Requests \ {r} : UserOf[x] = UserOf[r] => pc[x] \in Ended \cup {"start"}
      /\ UNCHANGED <<carts, orders, asked>>
  BY DEF ListCart, MayStart, IInv, TypeOK, committed
<1>2. \A x \in Requests \ {r} : InFlight(x)' <=> InFlight(x)
  BY <1>1 DEF InFlight
<1>3. \A x \in Requests \ {r} : UserOf[x] = UserOf[r] => ~InFlight(x)
  BY <1>1 DEF InFlight, Open, Ended
<1>4. \A u : OrdersOf(u)' = OrdersOf(u)
  BY <1>1 DEF OrdersOf
<1>5. \A p, S : Sold(p, S)' = Sold(p, S)
  BY DEF Sold
<1>6. \A x, y \in Requests :
        UserOf[x] = UserOf[y] /\ InFlight(x)' /\ InFlight(y)' => x = y
  BY <1>2, <1>3 DEF Asked
<1>7. SoldAtMostAsked'
  BY <1>1, <1>4, <1>5 DEF Asked, SoldAtMostAsked, OrdersOf
<1>8. ASSUME NEW x \in Requests, NEW p \in Products, InFlight(x)'
      PROVE  lines'[x][p] + Sold(p, OrdersOf(UserOf[x])') <= asked'[UserOf[x]][p]
  <2>1. CASE x = r
    <3>1. UserOf[r] \in Users
      BY CheckoutAssumption
    <3>2. carts[UserOf[r]][p] + Sold(p, OrdersOf(UserOf[r])) <= asked[UserOf[r]][p]
      BY <3>1 DEF Asked, SoldAtMostAsked, OrdersOf
    <3>. QED
      BY <1>1, <1>4, <2>1, <3>2
  <2>2. CASE x # r
    BY <1>1, <1>2, <1>4, <1>8, <2>2 DEF Asked
  <2>. QED
    BY <2>1, <2>2
<1>. QED
  BY <1>5, <1>6, <1>7, <1>8 DEF Asked

\* The committed order is covered by what was asked for, its cart is empty, and
\* no other order of the user is under way.
LEMMA CommitAsked ==
    ASSUME IInv, Books, ~Overlap, Asked, NEW r \in Requests, Commit(r)
    PROVE  Asked'
<1>. DEFINE o == OrderOf(r)
<1>1. /\ o \in Order /\ o \notin orders /\ o.user = UserOf[r] /\ o.lines = lines[r]
      /\ orders' = orders \cup {o}
      /\ carts' = [carts EXCEPT ![UserOf[r]] = NoLines]
  BY CommitPublishes DEF OrderOf
<1>2. /\ pc[r] = "commit" /\ pc'[r] \in Ended
      /\ \A x \in Requests \ {r} : pc'[x] = pc[x]
      /\ UNCHANGED <<lines, asked>>
  BY DEF Commit, Ended, locals, IInv, TypeOK
<1>3. InFlight(r) /\ ~InFlight(r)' /\ \A x \in Requests \ {r} : InFlight(x)' <=> InFlight(x)
  BY <1>2 DEF InFlight, Open, Ended
<1>4. \A x \in Requests : InFlight(x)' => InFlight(x) /\ x # r /\ UserOf[x] # UserOf[r]
  BY <1>3 DEF Asked
<1>. HIDE DEF o
<1>5. OrdersOf(UserOf[r])' = OrdersOf(UserOf[r]) \cup {o}
      /\ \A u \in Users \ {UserOf[r]} : OrdersOf(u)' = OrdersOf(u)
  BY <1>1 DEF OrdersOf
<1>6. \A p \in Products :
        Sold(p, OrdersOf(UserOf[r]) \cup {o}) = Sold(p, OrdersOf(UserOf[r])) + lines[r][p]
  <2>1. OrdersOf(UserOf[r]) \in SUBSET Order /\ IsFiniteSet(OrdersOf(UserOf[r]))
        /\ o \notin OrdersOf(UserOf[r])
    BY <1>1, FS_Subset DEF OrdersOf, IInv, TypeOK, Books
  <2>. QED
    BY <1>1, <2>1, SoldAdd
<1>7. \A p, S : Sold(p, S)' = Sold(p, S)
  BY DEF Sold
<1>8. ASSUME NEW u \in Users, NEW p \in Products
      PROVE  carts'[u][p] + Sold(p, OrdersOf(u)') <= asked'[u][p]
  <2>1. CASE u = UserOf[r]
    <3>1. carts'[u][p] = 0
      BY <1>1, <2>1 DEF NoLines, IInv, TypeOK
    <3>2. lines[r][p] + Sold(p, OrdersOf(u)) <= asked[u][p]
      BY <1>3, <2>1 DEF Asked
    <3>3. lines[r][p] \in Nat /\ Sold(p, OrdersOf(u)) \in Nat /\ asked[u][p] \in Nat
      BY AskedTypes
    <3>4. Sold(p, OrdersOf(u)') = Sold(p, OrdersOf(u)) + lines[r][p]
      BY <1>5, <1>6, <2>1
    <3>. QED
      BY <1>2, <3>1, <3>2, <3>3, <3>4
  <2>2. CASE u # UserOf[r]
    <3>1. carts'[u] = carts[u] /\ OrdersOf(u)' = OrdersOf(u)
      BY <1>1, <1>5, <2>2 DEF IInv, TypeOK
    <3>. QED
      BY <1>2, <3>1 DEF Asked, SoldAtMostAsked, OrdersOf
  <2>. QED
    BY <2>1, <2>2
<1>9. ASSUME NEW x \in Requests, NEW p \in Products, InFlight(x)'
      PROVE  lines'[x][p] + Sold(p, OrdersOf(UserOf[x])') <= asked'[UserOf[x]][p]
  <2>1. OrdersOf(UserOf[x])' = OrdersOf(UserOf[x])
    BY <1>4, <1>5, <1>9, CheckoutAssumption
  <2>. QED
    BY <1>2, <1>4, <1>9, <2>1 DEF Asked
<1>10. SoldAtMostAsked'
  BY <1>7, <1>8 DEF SoldAtMostAsked, OrdersOf
<1>11. \A x, y \in Requests :
         UserOf[x] = UserOf[y] /\ InFlight(x)' /\ InFlight(y)' => x = y
  BY <1>4 DEF Asked
<1>. QED
  BY <1>7, <1>9, <1>10, <1>11 DEF Asked

\* A row of a cart never grows by more than is asked for.
LEMMA CartStatementAsked ==
    ASSUME IInv, Books, ~Overlap, Asked, NEW u \in Users, NEW p \in Products, CartStatement(u, p)
    PROVE  Asked'
<1>1. PICK q \in Nat, n \in Nat :
        /\ q <= carts[u][p] + n
        /\ SetRow(u, p, q) /\ asked' = [asked EXCEPT ![u][p] = @ + n] /\ CartRest
  <2>1. carts[u][p] \in Nat
    BY AskedTypes
  <2>2. ASSUME NEW k \in 1..MaxQuantity, AddRow(u, p, k)
        PROVE  \E q \in Nat, n \in Nat :
                 /\ q <= carts[u][p] + n
                 /\ SetRow(u, p, q) /\ asked' = [asked EXCEPT ![u][p] = @ + n] /\ CartRest
    <3>. DEFINE q == IF carts[u][p] + k > MaxQuantity THEN MaxQuantity ELSE carts[u][p] + k
    <3>1. q \in Nat /\ k \in Nat /\ q <= carts[u][p] + k
      BY <2>1, ShopAssumption
    <3>2. SetRow(u, p, q) /\ asked' = [asked EXCEPT ![u][p] = @ + k] /\ CartRest
      BY <2>2 DEF AddRow, Ask
    <3>. HIDE DEF q
    <3>. QED
      BY <3>1, <3>2
  <2>3. ASSUME NEW k \in 1..MaxQuantity, UpdateRow(u, p, k)
        PROVE  \E q \in Nat, n \in Nat :
                 /\ q <= carts[u][p] + n
                 /\ SetRow(u, p, q) /\ asked' = [asked EXCEPT ![u][p] = @ + n] /\ CartRest
    <3>. DEFINE n == IF k > carts[u][p] THEN k - carts[u][p] ELSE 0
    <3>1. n \in Nat /\ k \in Nat /\ k <= carts[u][p] + n
      BY <2>1, ShopAssumption
    <3>2. SetRow(u, p, k) /\ asked' = [asked EXCEPT ![u][p] = @ + n] /\ CartRest
      BY <2>3 DEF UpdateRow, Ask
    <3>. HIDE DEF n
    <3>. QED
      BY <3>1, <3>2
  <2>4. ASSUME RemoveRow(u, p)
        PROVE  \E q \in Nat, n \in Nat :
                 /\ q <= carts[u][p] + n
                 /\ SetRow(u, p, q) /\ asked' = [asked EXCEPT ![u][p] = @ + n] /\ CartRest
    <3>. DEFINE n == 0
    <3>1. SetRow(u, p, n) /\ asked' = [asked EXCEPT ![u][p] = @ + n] /\ CartRest
      BY <2>4 DEF RemoveRow, Ask
    <3>2. n \in Nat /\ n <= carts[u][p] + n
      BY <2>1
    <3>. HIDE DEF n
    <3>. QED
      BY <3>1, <3>2
  <2>. QED
    BY <2>2, <2>3, <2>4 DEF CartStatement
<1>2. UNCHANGED <<orders, pc, lines>>
  BY <1>1 DEF CartRest, locals
<1>3. /\ \A v : OrdersOf(v)' = OrdersOf(v)
      /\ \A x : InFlight(x)' <=> InFlight(x)
      /\ \A t, S : Sold(t, S)' = Sold(t, S)
  BY <1>2 DEF OrdersOf, InFlight, Sold
<1>4. ASSUME NEW v \in Users, NEW t \in Products
      PROVE  /\ asked'[v][t] \in Nat
             /\ asked[v][t] <= asked'[v][t]
             /\ carts'[v][t] \in Nat
             /\ carts'[v][t] - carts[v][t] <= asked'[v][t] - asked[v][t]
  <2>1. carts[v][t] \in Nat /\ asked[v][t] \in Nat
    BY AskedTypes
  <2>2. CASE v = u /\ t = p
    <3>1. carts'[v][t] = q /\ asked'[v][t] = asked[v][t] + n
      BY <1>1, <2>2 DEF SetRow, IInv, TypeOK, Lines
    <3>. QED
      BY <1>1, <2>1, <2>2, <3>1
  <2>3. CASE ~(v = u /\ t = p)
    <3>1. carts'[v][t] = carts[v][t] /\ asked'[v][t] = asked[v][t]
      BY <1>1, <2>3 DEF SetRow, IInv, TypeOK, Lines
    <3>. QED
      BY <2>1, <3>1
  <2>. QED
    BY <2>2, <2>3
<1>5. SoldAtMostAsked'
  <2> SUFFICES ASSUME NEW v \in Users, NEW t \in Products
               PROVE  carts'[v][t] + Sold(t, OrdersOf(v)) <= asked'[v][t]
    BY <1>3 DEF SoldAtMostAsked, OrdersOf
  <2>1. carts[v][t] + Sold(t, OrdersOf(v)) <= asked[v][t]
    BY DEF Asked, SoldAtMostAsked, OrdersOf
  <2>2. carts[v][t] \in Nat /\ asked[v][t] \in Nat /\ Sold(t, OrdersOf(v)) \in Nat
    BY AskedTypes
  <2>. QED
    BY <1>4, <2>1, <2>2
<1>6. ASSUME NEW x \in Requests, NEW t \in Products, InFlight(x)
      PROVE  lines[x][t] + Sold(t, OrdersOf(UserOf[x])) <= asked'[UserOf[x]][t]
  <2>1. lines[x][t] + Sold(t, OrdersOf(UserOf[x])) <= asked[UserOf[x]][t]
    BY <1>6 DEF Asked
  <2>2. UserOf[x] \in Users /\ lines[x][t] \in Nat
    BY AskedTypes
  <2>3. asked[UserOf[x]][t] \in Nat /\ Sold(t, OrdersOf(UserOf[x])) \in Nat
    BY AskedTypes, <2>2
  <2>. QED
    BY <1>4, <2>1, <2>2, <2>3
<1>. QED
  BY <1>2, <1>3, <1>5, <1>6 DEF Asked

\* Every step keeps sales within what was asked for.
LEMMA NextAsked == IInv /\ Books /\ AskedInv /\ [Next]_vars => AskedInv'
<1> SUFFICES ASSUME IInv, Books, AskedInv, [Next]_vars, ~Overlap
             PROVE  Asked'
  BY DEF AskedInv
<1>. Asked
  BY DEF AskedInv
<1>1. ASSUME NEW r \in Requests, ListCart(r) PROVE Asked'
  BY <1>1, ListCartAsked
<1>2. ASSUME NEW r \in Requests, Commit(r) PROVE Asked'
  BY <1>2, CommitAsked
<1>3. ASSUME NEW u \in Users, NEW p \in Products, CartStatement(u, p) PROVE Asked'
  BY <1>3, CartStatementAsked
<1>4. ASSUME NEW r \in Requests,
             \/ ListEmpty(r) \/ InsertOrder(r) \/ Reserve(r) \/ Clear(r)
             \/ InsertEvent(r) \/ UpsertSummary(r)
      PROVE  Asked'
  <2>1. UNCHANGED <<carts, orders, asked, lines>>
    BY <1>4 DEF ListEmpty, InsertOrder, Reserve, Clear, InsertEvent, UpsertSummary, committed, locals
  <2>2. \A x \in Requests : InFlight(x)' => InFlight(x)
    BY <1>4 DEF ListEmpty, InsertOrder, Reserve, Clear, InsertEvent, UpsertSummary, InFlight,
                Open, IInv, TypeOK
  <2>. QED
    BY <2>1, <2>2, QuietAsked
<1>5. ASSUME NEW r \in Requests, RolledBack(r) PROVE Asked'
  <2>1. PICK reply \in Answers : Rollback(r, reply)
    BY <1>5, RolledBackRollback
  <2>2. UNCHANGED <<carts, orders, asked, lines>>
    BY <2>1 DEF Rollback, committed, locals
  <2>3. \A x \in Requests : InFlight(x)' => InFlight(x)
    BY <2>1 DEF Rollback, InFlight, Answers, Open, IInv, TypeOK
  <2>. QED
    BY <2>2, <2>3, QuietAsked
<1>6. ASSUME NextDay \/ UNCHANGED vars PROVE Asked'
  <2>1. UNCHANGED <<carts, orders, asked, lines, pc>>
    BY <1>6 DEF NextDay, vars, committed, locals
  <2>. QED
    BY <2>1, QuietAsked DEF InFlight
<1>. QED
  BY <1>1, <1>2, <1>3, <1>4, <1>5, <1>6 DEF Next, Statement, RolledBack

\* A user whose orders do not overlap never gets more units than asked for,
\* whatever fails, is retried or is answered with an error after its commit.
THEOREM NeverSoldUnasked == Spec => [](~Overlap => SoldAtMostAsked)
<1>1. Spec => []AskedInv
  BY InitAsked, NextAsked, Invariance, BooksBalance, PTL DEF Spec
<1>2. AskedInv => (~Overlap => SoldAtMostAsked)
  BY DEF AskedInv, Asked
<1>. QED
  BY <1>1, <1>2, PTL
=============================================================================
