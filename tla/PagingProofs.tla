---------------------------- MODULE PagingProofs ----------------------------
(***************************************************************************)
(* What a reader sees who turns the pages while the page size moves, for   *)
(* every number of products and every two page sizes.  The inductive       *)
(* invariant measures the products shown so far against the products that  *)
(* the same number of pages of the last size would hold: as many, at least *)
(* as many or at most as many, as no page was of another size, none longer *)
(* or none shorter than one before it.                                     *)
(***************************************************************************)
EXTENDS Paging, WellFoundedInduction, SequenceTheorems, TLAPS
-----------------------------------------------------------------------------
(* The pages, one behind the other. *)

\* g joins the first n of the sequences in ss, one after the other.
Joins(g, ss, n) == g = [i \in 1..n |-> IF i = 1 THEN ss[i] ELSE g[i - 1] \o ss[i]]

\* FlattenSeq is the last of the sequences that Joins describes.
LEMMA FlattenIsJoins ==
    ASSUME NEW ss, Len(ss) # 0
    PROVE  FlattenSeq(ss) = (CHOOSE g : Joins(g, ss, Len(ss)))[Len(ss)]
BY DEF FlattenSeq, Joins

\* What g holds at i.
LEMMA JoinsStep ==
    ASSUME NEW ss, NEW n \in Nat, NEW g, Joins(g, ss, n), NEW i \in 1..n
    PROVE  g[i] = IF i = 1 THEN ss[i] ELSE g[i - 1] \o ss[i]
BY DEF Joins

\* A set of numbers that is not empty has a smallest one.
LEMMA SmallestNumber ==
    ASSUME NEW S \in SUBSET Nat, S # {}
    PROVE  \E m \in S : \A x \in S : m <= x
<1>1. PICK m \in S : \A x \in S : <<x, m>> \notin OpToRel(<, Nat)
  BY NatLessThanWellFounded, WFMin
<1>2. \A x \in S : ~ (x < m)
  BY <1>1 DEF OpToRel
<1>. QED
  BY <1>2

\* What is joined behind the first n does not change what they make: at the
\* smallest i where it did, it would already have done so at i - 1.
LEMMA JoinsSame ==
    ASSUME NEW ss, NEW n \in Nat, NEW g, Joins(g, ss, n),
           NEW t, NEW h, Joins(h, t, n + 1), \A i \in 1..n : ss[i] = t[i]
    PROVE  \A i \in 1..n : g[i] = h[i]
<1>. DEFINE S == {i \in 1..n : g[i] # h[i]}
<1>. SUFFICES ASSUME S # {} PROVE FALSE
  OBVIOUS
<1>1. PICK i \in 1..n : g[i] # h[i] /\ \A j \in 1..n : g[j] # h[j] => i <= j
  <2>1. S \in SUBSET Nat
    OBVIOUS
  <2>. QED
    BY <2>1, SmallestNumber
<1>2. i \in 1..(n + 1) /\ ss[i] = t[i]
  OBVIOUS
<1>3. /\ g[i] = IF i = 1 THEN ss[i] ELSE g[i - 1] \o ss[i]
      /\ h[i] = IF i = 1 THEN t[i] ELSE h[i - 1] \o t[i]
  BY <1>2, JoinsStep
<1>4. i # 1 => i - 1 \in 1..n /\ ~ (i <= i - 1)
  OBVIOUS
<1>5. i # 1 => g[i - 1] = h[i - 1]
  BY <1>1, <1>4
<1>. QED
  BY <1>1, <1>2, <1>3, <1>5

\* Any number of sequences can be joined: the smallest that could not would
\* only have to add one to those before it.
LEMMA JoinsExists ==
    ASSUME NEW ss, NEW n \in Nat
    PROVE  \E g : Joins(g, ss, n)
<1>. DEFINE S == {k \in Nat : ~ \E g : Joins(g, ss, k)}
<1>. SUFFICES ASSUME S # {} PROVE FALSE
  BY Zenon
<1>1. PICK k \in Nat :
        /\ ~ \E g : Joins(g, ss, k)
        /\ \A j \in Nat : (~ \E g : Joins(g, ss, j)) => k <= j
  <2>1. S \in SUBSET Nat
    OBVIOUS
  <2>2. \E m \in S : \A x \in S : m <= x
    <3>. HIDE DEF S
    <3>. QED
      BY <2>1, SmallestNumber
  <2>. QED
    BY <2>2
<1>2. k # 0
  <2>1. Joins([i \in 1..0 |-> 0], ss, 0)
    BY DEF Joins
  <2>. QED
    BY <1>1, <2>1
<1>3. k - 1 \in Nat /\ ~ (k <= k - 1)
  BY <1>2
<1>4. PICK g : Joins(g, ss, k - 1)
  BY <1>1, <1>3
<1>. DEFINE h == [i \in 1..k |-> IF i = 1 THEN ss[i] ELSE g[i - 1] \o ss[i]]
<1>5. \A i \in 1..(k - 1) : h[i] = g[i]
  BY <1>3, <1>4, JoinsStep
<1>6. Joins(h, ss, k)
  <2>1. \A i \in 1..k : i # 1 => i - 1 \in 1..(k - 1)
    BY <1>3
  <2>2. h = [i \in 1..k |-> IF i = 1 THEN ss[i] ELSE h[i - 1] \o ss[i]]
    BY <1>5, <2>1
  <2>. QED
    BY <2>2 DEF Joins
<1>. QED
  BY <1>1, <1>6

\* One page more comes at the end of what was shown.
LEMMA FlattenAppend ==
    ASSUME NEW X, NEW ss \in Seq(Seq(X)), NEW s \in Seq(X)
    PROVE  FlattenSeq(Append(ss, s)) = FlattenSeq(ss) \o s
<1>. DEFINE n == Len(ss)
            t == Append(ss, s)
<1>1. n \in Nat /\ Len(t) = n + 1 /\ t[n + 1] = s /\ \A i \in 1..n : t[i] = ss[i]
  OBVIOUS
<1>2. PICK h : Joins(h, t, n + 1) /\ FlattenSeq(t) = h[n + 1]
  <2>. HIDE DEF t, n
  <2>1. Len(t) # 0 /\ n + 1 \in Nat
    BY <1>1
  <2>2. FlattenSeq(t) = (CHOOSE h : Joins(h, t, Len(t)))[Len(t)]
    BY <2>1, FlattenIsJoins
  <2>3. \E h : Joins(h, t, n + 1)
    BY <2>1, JoinsExists
  <2>. QED
    BY <1>1, <2>2, <2>3, Zenon
<1>3. h[n + 1] = IF n + 1 = 1 THEN t[n + 1] ELSE h[n] \o t[n + 1]
  <2>1. n + 1 \in 1..(n + 1) /\ (n + 1) - 1 = n
    BY <1>1
  <2>. HIDE DEF t, n
  <2>. QED
    BY <1>1, <1>2, <2>1, JoinsStep
<1>. HIDE DEF t
<1>4. CASE n = 0
  <2>1. FlattenSeq(ss) = << >> /\ ss = << >>
    BY <1>4 DEF FlattenSeq
  <2>. QED
    BY <1>1, <1>2, <1>3, <1>4, <2>1 DEF t
<1>5. CASE n # 0
  <2>1. PICK g : Joins(g, ss, n) /\ FlattenSeq(ss) = g[n]
    BY <1>1, <1>5, JoinsExists, FlattenIsJoins, Zenon
  <2>2. h[n] = g[n]
    <3>. HIDE DEF n
    <3>1. n \in Nat /\ n + 1 \in Nat /\ n <= n /\ n <= n + 1 /\ n \in 1..n
      BY <1>1, <1>5
    <3>2. \A i \in 1..n : ss[i] = t[i]
      BY <1>1
    <3>3. \A i \in 1..n : g[i] = h[i]
      BY <1>2, <2>1, <3>1, <3>2, JoinsSame
    <3>. QED
      BY <3>1, <3>3
  <2>. QED
    BY <1>1, <1>2, <1>3, <1>5, <2>1, <2>2 DEF t
<1>. QED
  BY <1>4, <1>5

-----------------------------------------------------------------------------
(* What is on a page. *)

\* The last product on a page, and on all before it, of one size.
Upto(page, size) == IF page * size < Products THEN page * size ELSE Products

\* The numbers from a + 1 to b.
LEMMA NumbersAre ==
    ASSUME NEW a \in Nat, NEW b \in Nat
    PROVE  /\ Numbers(a + 1, b) \in Seq((a + 1)..b)
           /\ Len(Numbers(a + 1, b)) = IF b < a + 1 THEN 0 ELSE b - a
           /\ \A i \in 1..Len(Numbers(a + 1, b)) : Numbers(a + 1, b)[i] = a + i
           /\ ToSet(Numbers(a + 1, b)) = (a + 1)..b
<1>. DEFINE k == IF b < a + 1 THEN 0 ELSE b - (a + 1) + 1
            s == Numbers(a + 1, b)
<1>1. k \in Nat /\ k = IF b < a + 1 THEN 0 ELSE b - a
  OBVIOUS
<1>2. s = [i \in 1..k |-> (a + 1) + i - 1]
  BY DEF Numbers
<1>. HIDE DEF s
<1>3. \A i \in 1..k : (a + 1) + i - 1 = a + i /\ a + i \in (a + 1)..b
  OBVIOUS
<1>. HIDE DEF k
<1>4. s \in [1..k -> (a + 1)..b] /\ \A i \in 1..k : s[i] = a + i
  BY <1>2, <1>3
<1>5. s \in Seq((a + 1)..b) /\ Len(s) = k /\ DOMAIN s = 1..k
  BY <1>1, <1>4
<1>6. ToSet(s) = (a + 1)..b
  <2>1. ASSUME NEW x \in (a + 1)..b PROVE x \in ToSet(s)
    <3>1. x - a \in 1..k /\ a + (x - a) = x
      BY <1>1
    <3>2. s[x - a] = x
      BY <1>4, <3>1
    <3>. QED
      BY <1>5, <3>1, <3>2 DEF ToSet
  <2>2. ToSet(s) \subseteq (a + 1)..b
    BY <1>4, <1>5 DEF ToSet
  <2>. QED
    BY <2>1, <2>2
<1>. QED
  BY <1>1, <1>4, <1>5, <1>6 DEF s

\* The first a numbers and those up to b behind them.
LEMMA NumbersJoin ==
    ASSUME NEW a \in Nat, NEW b \in Nat, a <= b
    PROVE  Numbers(1, a) \o Numbers(a + 1, b) = Numbers(1, b)
<1>. DEFINE s == Numbers(1, a)
            t == Numbers(a + 1, b)
            u == Numbers(1, b)
<1>0. 0 \in Nat /\ 0 + 1 = 1
  OBVIOUS
<1>1. s \in Seq(Nat) /\ Len(s) = a /\ \A i \in 1..a : s[i] = i
  BY <1>0, NumbersAre DEF Numbers
<1>2. u \in Seq(Nat) /\ Len(u) = b /\ \A i \in 1..b : u[i] = i
  BY <1>0, NumbersAre DEF Numbers
<1>3. t \in Seq(Nat) /\ Len(t) = b - a /\ \A i \in 1..(b - a) : t[i] = a + i
  <2>. HIDE DEF t
  <2>1. t \in Seq((a + 1)..b) /\ Len(t) = (IF b < a + 1 THEN 0 ELSE b - a)
        /\ \A i \in 1..Len(t) : t[i] = a + i
    BY NumbersAre DEF t
  <2>2. Len(t) = b - a
    BY <2>1
  <2>3. t \in Seq(Nat)
    BY <2>1
  <2>. QED
    BY <2>1, <2>2, <2>3
<1>. HIDE DEF s, t, u
<1>4. s \o t \in Seq(Nat) /\ Len(s \o t) = b
  <2>1. s \o t \in Seq(Nat) /\ Len(s \o t) = Len(s) + Len(t)
    BY <1>1, <1>3, ConcatProperties
  <2>. QED
    BY <1>1, <1>3, <2>1
<1>5. \A i \in 1..b : (s \o t)[i] = u[i]
  BY <1>1, <1>2, <1>3
<1>6. s \o t = u
  BY <1>2, <1>4, <1>5, SeqEqual
<1>. QED
  BY <1>6 DEF s, t, u

\* Page times size, as far as it is needed.
LEMMA PageTimesSize ==
    ASSUME NEW page \in Nat, NEW a \in Nat, NEW b \in Nat
    PROVE  /\ page * a \in Nat
           /\ (page + 1) * a = page * a + a
           /\ a <= b => page * a <= page * b
<1>1. page * a \in Nat /\ (page + 1) * a = page * a + a
  OBVIOUS
<1>2. ASSUME a <= b PROVE page * a <= page * b
  <2>1. PICK d \in Nat : b = a + d
    <3>1. b - a \in Nat /\ b = a + (b - a)
      BY <1>2
    <3>. QED
      BY <3>1
  <2>2. page * b = page * a + page * d /\ page * d \in Nat
    BY <2>1
  <2>. QED
    BY <1>1, <2>2
<1>. QED
  BY <1>1, <1>2

\* What is in two sequences, one after the other.
LEMMA ConcatShows ==
    ASSUME NEW X, NEW s \in Seq(X), NEW t \in Seq(X)
    PROVE  /\ s \o t \in Seq(X) /\ Len(s \o t) = Len(s) + Len(t)
           /\ Len(s) \in Nat /\ Len(t) \in Nat
           /\ \A i \in 1..Len(s) : (s \o t)[i] = s[i] /\ s[i] \in ToSet(s)
           /\ \A i \in 1..Len(t) : (s \o t)[Len(s) + i] = t[i] /\ t[i] \in ToSet(t)
           /\ \A i \in DOMAIN (s \o t) :
                i \in 1..Len(s) \/ \E j \in 1..Len(t) : i = Len(s) + j
           /\ ToSet(s \o t) = ToSet(s) \cup ToSet(t)
<1>. DEFINE u == s \o t
<1>1. /\ Len(s) \in Nat /\ DOMAIN s = 1..Len(s)
      /\ Len(t) \in Nat /\ DOMAIN t = 1..Len(t)
      /\ u \in Seq(X) /\ Len(u) = Len(s) + Len(t) /\ DOMAIN u = 1..Len(u)
  BY ConcatProperties, LenProperties
<1>2. /\ \A i \in 1..Len(s) : u[i] = s[i]
      /\ \A i \in 1..Len(t) : u[Len(s) + i] = t[i]
  BY <1>1
<1>3. ASSUME NEW i \in DOMAIN u
      PROVE  i \in 1..Len(s) \/ \E j \in 1..Len(t) : i = Len(s) + j
  <2> SUFFICES ASSUME i \notin 1..Len(s) PROVE \E j \in 1..Len(t) : i = Len(s) + j
    OBVIOUS
  <2>. HIDE DEF u
  <2>1. i - Len(s) \in 1..Len(t) /\ i = Len(s) + (i - Len(s))
    BY <1>1
  <2>. QED
    BY <2>1
<1>. HIDE DEF u
<1>4. ToSet(u) \subseteq ToSet(s) \cup ToSet(t)
  <2> SUFFICES ASSUME NEW i \in DOMAIN u PROVE u[i] \in ToSet(s) \cup ToSet(t)
    BY DEF ToSet
  <2>. QED
    BY <1>1, <1>2, <1>3 DEF ToSet
<1>5. ToSet(s) \subseteq ToSet(u)
  <2> SUFFICES ASSUME NEW i \in DOMAIN s PROVE s[i] \in ToSet(u)
    BY DEF ToSet
  <2>1. i \in DOMAIN u
    BY <1>1
  <2>. QED
    BY <1>1, <1>2, <2>1 DEF ToSet
<1>6. ToSet(t) \subseteq ToSet(u)
  <2> SUFFICES ASSUME NEW i \in DOMAIN t PROVE t[i] \in ToSet(u)
    BY DEF ToSet
  <2>1. Len(s) + i \in DOMAIN u
    BY <1>1
  <2>. QED
    BY <1>1, <1>2, <2>1 DEF ToSet
<1>7. /\ \A i \in 1..Len(s) : s[i] \in ToSet(s)
      /\ \A i \in 1..Len(t) : t[i] \in ToSet(t)
  BY <1>1 DEF ToSet
<1>. QED
  BY <1>1, <1>2, <1>3, <1>4, <1>5, <1>6, <1>7 DEF u

\* What page n + 1 shows, and whether there is a link to the next.
LEMMA RowsAre ==
    ASSUME NEW n \in Nat, NEW size \in {FullPage, ShortPage}
    PROVE  /\ n * size \in Nat /\ Upto(n + 1, size) \in 0..Products
           /\ Upto(n + 1, size) <= n * size + size
           /\ n * size <= Products => n * size <= Upto(n + 1, size)
           /\ Rows(n + 1, size) = Numbers(n * size + 1, Upto(n + 1, size))
           /\ HasNext(n + 1, size) <=> n * size + size < Products
           /\ IF n * size + size < Products THEN Upto(n + 1, size) = n * size + size
                                            ELSE Upto(n + 1, size) = Products
<1>. DEFINE a == n * size
<1>1. size \in Nat /\ Products \in Nat /\ FullPage \in Nat
  BY PagingAssumption
<1>2. a \in Nat /\ (n + 1) * size = a + size /\ (n + 1) - 1 = n
  BY <1>1, PageTimesSize
<1>. HIDE DEF a
<1>3. Upto(n + 1, size) = IF a + size < Products THEN a + size ELSE Products
  BY <1>2 DEF Upto
<1>4. Offset(n + 1, size) = a
  BY <1>2 DEF Offset, a
<1>5. Rows(n + 1, size) = Numbers(a + 1, IF a + size < Products THEN a + size ELSE Products)
  BY <1>4 DEF Rows
<1>6. HasNext(n + 1, size) <=> a + size < Products
  BY <1>2 DEF HasNext
<1>. QED
  BY <1>1, <1>2, <1>3, <1>5, <1>6 DEF a

-----------------------------------------------------------------------------
(* The invariant. *)

Size == {FullPage, ShortPage}

\* The pages turned so far, one for each size.
PagesTyped ==
    /\ sizes \in Seq(Size)
    /\ pages \in Seq(Seq(1..Products))
    /\ Len(pages) = Len(sizes)
    /\ Shown \in Seq(1..Products)
    /\ sizes = <<>> => Shown = <<>>

\* The products that the pages would have shown if all had been of the last size.
Reached == IF sizes = <<>> THEN 0 ELSE Len(sizes) * sizes[Len(sizes)]

\* How the sizes went, one after the other.
AllEqual == \A i, j \in DOMAIN sizes : sizes[i] = sizes[j]
NeverLonger == \A i, j \in DOMAIN sizes : i < j => sizes[i] >= sizes[j]
NeverShorter == \A i, j \in DOMAIN sizes : i < j => sizes[i] <= sizes[j]

\* Pages of one size have shown what they should.  Where none was longer than
\* one before it, no product before the next page has been left out; where none
\* was shorter, none behind it has been shown.
PInv ==
    /\ PagesTyped
    /\ Reached \in Nat
    /\ more <=> Reached < Products \/ sizes = <<>>
    /\ AllEqual => Shown = Numbers(1, IF Reached < Products THEN Reached ELSE Products)
    /\ NeverLonger => \E m \in 0..Products :
            ToSet(Shown) = 1..m /\ (Reached <= m \/ m = Products)
    /\ NeverShorter => IsInjective(Shown) /\ \A q \in ToSet(Shown) : q <= Reached

\* Nothing is shown yet.
LEMMA InitPInv == Init => PInv
<1> SUFFICES ASSUME Init PROVE PInv
  OBVIOUS
<1>1. sizes = <<>> /\ pages = <<>> /\ more = TRUE /\ Products \in Nat
  BY PagingAssumption DEF Init
<1>2. Shown = <<>>
  BY <1>1 DEF Shown, FlattenSeq
<1>3. Reached = 0
  BY <1>1 DEF Reached
<1>4. PagesTyped
  BY <1>1, <1>2 DEF PagesTyped
<1>5. Shown = Numbers(1, IF Reached < Products THEN Reached ELSE Products)
  <2>1. (IF Reached < Products THEN Reached ELSE Products) = 0
    BY <1>1, <1>3
  <2>2. Numbers(1, 0) = <<>>
    BY DEF Numbers
  <2>. QED
    BY <1>2, <2>1, <2>2
<1>6. ToSet(Shown) = {} /\ IsInjective(Shown)
  BY <1>2 DEF ToSet, IsInjective
<1>7. 0 \in 0..Products /\ ToSet(Shown) = 1..0 /\ Reached <= 0
  BY <1>1, <1>3, <1>6
<1>. QED
  BY <1>1, <1>3, <1>4, <1>5, <1>6, <1>7 DEF PInv

\* What a turned page adds: page n + 1 of a size shows the products behind the
\* first n * size.
Turned(n, size, off, top) ==
    /\ n = Len(sizes) /\ off = n * size
    /\ sizes' = Append(sizes, size)
    /\ top <= off + size
    /\ off <= Products => off <= top
    /\ IF off + size < Products THEN top = off + size ELSE top = Products
    /\ more' <=> off + size < Products
    /\ Shown' = Shown \o Numbers(off + 1, top)
    /\ Reached' = off + size
    /\ DOMAIN sizes' = 1..(n + 1) /\ DOMAIN sizes = 1..n
    /\ sizes' # <<>> /\ sizes'[n + 1] = size
    /\ \A i \in 1..n : sizes'[i] = sizes[i] /\ sizes[i] \in Size
    /\ n # 0 => Reached = n * sizes[n] /\ Reached < Products

\* TurnPage does that.
LEMMA TurnPageTurns ==
    ASSUME PInv, TurnPage
    PROVE  /\ PagesTyped'
           /\ \E n \in Nat, size \in Size, off \in Nat, top \in 0..Products :
                Turned(n, size, off, top)
<1>1. PICK n \in Nat, size \in Size :
        /\ n = Len(sizes) /\ more
        /\ sizes' = Append(sizes, size) /\ pages' = Append(pages, Rows(n + 1, size))
        /\ more' = HasNext(n + 1, size)
  BY DEF PInv, PagesTyped, TurnPage, PageSize, Size
<1>2. PICK off \in Nat, top \in 0..Products :
        /\ off = n * size /\ top = Upto(n + 1, size)
        /\ top <= off + size
        /\ off <= Products => off <= top
        /\ Rows(n + 1, size) = Numbers(off + 1, top)
        /\ HasNext(n + 1, size) <=> off + size < Products
        /\ IF off + size < Products THEN top = off + size ELSE top = Products
  <2>. DEFINE a == n * size
              b == Upto(n + 1, size)
  <2>1. /\ a \in Nat /\ b \in 0..Products
        /\ b <= a + size
        /\ a <= Products => a <= b
        /\ Rows(n + 1, size) = Numbers(a + 1, b)
        /\ HasNext(n + 1, size) <=> a + size < Products
        /\ IF a + size < Products THEN b = a + size ELSE b = Products
    BY RowsAre DEF Size
  <2>2. a = n * size /\ b = Upto(n + 1, size)
    OBVIOUS
  <2>. HIDE DEF a, b
  <2>. QED
    BY <2>1, <2>2
<1>3. size \in Nat /\ Products \in Nat /\ Size \subseteq Nat
  BY PagingAssumption DEF Size
<1>4. Numbers(off + 1, top) \in Seq(1..Products)
  <2>1. Numbers(off + 1, top) \in Seq((off + 1)..top)
    BY NumbersAre, <1>3
  <2>2. (off + 1)..top \subseteq 1..Products
    BY <1>3
  <2>. QED
    BY <2>1, <2>2, SeqMonotonic
<1>5. pages \in Seq(Seq(1..Products)) /\ sizes \in Seq(Size) /\ Shown \in Seq(1..Products)
      /\ Len(pages) = Len(sizes)
  BY DEF PInv, PagesTyped
<1>6. Shown' = Shown \o Numbers(off + 1, top)
  BY <1>1, <1>2, <1>4, <1>5, FlattenAppend DEF Shown
<1>7. /\ sizes' \in Seq(Size) /\ sizes' # <<>> /\ Len(sizes') = n + 1
      /\ sizes'[n + 1] = size /\ \A i \in 1..n : sizes'[i] = sizes[i]
  BY <1>1, <1>5, AppendProperties
<1>8. pages' \in Seq(Seq(1..Products)) /\ Len(pages') = n + 1
  <2>1. Rows(n + 1, size) \in Seq(1..Products)
    BY <1>2, <1>4
  <2>2. Append(pages, Rows(n + 1, size)) \in Seq(Seq(1..Products))
        /\ Len(Append(pages, Rows(n + 1, size))) = Len(pages) + 1
    BY <1>5, <2>1, AppendProperties
  <2>. QED
    BY <1>1, <1>5, <2>2
<1>9. Shown' \in Seq(1..Products)
  BY <1>4, <1>5, <1>6, ConcatProperties
<1>10. PagesTyped'
  BY <1>7, <1>8, <1>9 DEF PagesTyped
<1>11. DOMAIN sizes' = 1..(n + 1) /\ DOMAIN sizes = 1..n /\ \A i \in 1..n : sizes[i] \in Size
  BY <1>1, <1>5, <1>7, LenProperties, ElementOfSeq
<1>12. Reached' = off + size
  <2>1. (n + 1) * size = n * size + size
    BY <1>3, PageTimesSize
  <2>2. Reached' = (n + 1) * size
    BY <1>7 DEF Reached
  <2>. QED
    BY <1>2, <2>1, <2>2
<1>13. n # 0 => Reached = n * sizes[n] /\ Reached < Products
  <2>1. n # 0 => sizes # <<>>
    BY <1>1
  <2>. QED
    BY <1>1, <2>1 DEF Reached, PInv
<1>14. Turned(n, size, off, top)
  BY <1>1, <1>2, <1>6, <1>7, <1>11, <1>12, <1>13 DEF Turned
<1>. QED
  BY <1>10, <1>14

\* The sizes before and behind the turn.
LEMMA TurnedSizes ==
    ASSUME NEW n \in Nat, NEW size \in Size, NEW off, NEW top, Turned(n, size, off, top)
    PROVE  /\ DOMAIN sizes' = 1..(n + 1) /\ DOMAIN sizes = 1..n
           /\ sizes'[n + 1] = size /\ n + 1 \in 1..(n + 1)
           /\ \A i \in 1..n : /\ i \in 1..(n + 1) /\ i < n + 1
                              /\ sizes'[i] = sizes[i] /\ sizes[i] \in Nat
           /\ n # 0 => n \in 1..n
<1>1. Size \subseteq Nat
  BY PagingAssumption DEF Size
<1>2. \A i \in 1..n : sizes'[i] = sizes[i] /\ sizes[i] \in Size
  BY DEF Turned
<1>3. DOMAIN sizes' = 1..(n + 1) /\ DOMAIN sizes = 1..n /\ sizes'[n + 1] = size
  BY DEF Turned
<1>4. n + 1 \in 1..(n + 1) /\ (n # 0 => n \in 1..n) /\ \A i \in 1..n : i \in 1..(n + 1) /\ i < n + 1
  OBVIOUS
<1>5. \A i \in 1..n : sizes'[i] = sizes[i] /\ sizes[i] \in Nat
  BY <1>1, <1>2
<1>. QED
  BY <1>3, <1>4, <1>5, Zenon

\* Pages of one size go on where the page before stopped.
LEMMA TurnPageInOrder ==
    ASSUME PInv, NEW n \in Nat, NEW size \in Size, NEW off \in Nat, NEW top \in 0..Products,
           Turned(n, size, off, top), AllEqual'
    PROVE  Shown' = Numbers(1, IF Reached' < Products THEN Reached' ELSE Products)
<1>0. size \in Nat /\ Products \in Nat
  BY PagingAssumption DEF Size
<1>1. AllEqual /\ \A i \in 1..n : sizes[i] = size
  BY TurnedSizes DEF AllEqual
<1>2. off = Reached /\ off <= Products
  <2>1. CASE n = 0
    BY <1>0, <2>1 DEF Turned, Reached
  <2>2. CASE n # 0
    <3>1. n \in 1..n /\ sizes[n] = size
      BY <1>1, <2>2
    <3>2. off = n * size /\ Reached = n * sizes[n] /\ Reached < Products
      BY <2>2 DEF Turned
    <3>. QED
      BY <1>0, <3>1, <3>2
  <2>. QED
    BY <2>1, <2>2
<1>3. Shown = Numbers(1, off)
  <2>1. (IF Reached < Products THEN Reached ELSE Products) = off
    BY <1>0, <1>2
  <2>. QED
    BY <1>1, <2>1 DEF PInv
<1>4. Shown' = Numbers(1, top)
  <2>1. off <= top /\ top \in Nat
    BY <1>0, <1>2 DEF Turned
  <2>. QED
    BY <1>3, <2>1, NumbersJoin DEF Turned
<1>5. top = IF Reached' < Products THEN Reached' ELSE Products
  BY DEF Turned
<1>. QED
  BY <1>4, <1>5

\* As long as no page is longer than one before it, what was shown begins with the
\* first product and has no gap.
LEMMA TurnPageSkipsNone ==
    ASSUME PInv, NEW n \in Nat, NEW size \in Size, NEW off \in Nat, NEW top \in 0..Products,
           Turned(n, size, off, top), NeverLonger'
    PROVE  \E m \in 0..Products : ToSet(Shown') = 1..m /\ (Reached' <= m \/ m = Products)
<1>0. size \in Nat /\ Products \in Nat /\ Size \subseteq Nat
  BY PagingAssumption DEF Size
<1>1. NeverLonger /\ \A i \in 1..n : size <= sizes[i]
  <2>1. \A i, j \in 1..(n + 1) : i < j => sizes'[i] >= sizes'[j]
    BY TurnedSizes DEF NeverLonger
  <2>. QED
    BY <1>0, <2>1, TurnedSizes DEF NeverLonger
<1>2. PICK m \in 0..Products : ToSet(Shown) = 1..m /\ (Reached <= m \/ m = Products)
  BY <1>1 DEF PInv
<1>3. off <= Reached /\ Reached \in Nat
  <2>1. CASE n = 0
    BY <1>0, <2>1 DEF Turned, PInv
  <2>2. CASE n # 0
    <3>1. n \in 1..n /\ sizes[n] \in Nat
      BY <2>2, TurnedSizes
    <3>2. n * size <= n * sizes[n]
      BY <1>0, <1>1, <3>1, PageTimesSize
    <3>. QED
      BY <2>2, <3>2 DEF Turned, PInv
  <2>. QED
    BY <2>1, <2>2
<1>4. ToSet(Shown') = 1..m \cup (off + 1)..top
  <2>1. /\ Numbers(off + 1, top) \in Seq((off + 1)..top)
        /\ ToSet(Numbers(off + 1, top)) = (off + 1)..top
    BY <1>0, NumbersAre
  <2>2. (off + 1)..top \subseteq 1..Products
    BY <1>0
  <2>3. Numbers(off + 1, top) \in Seq(1..Products) /\ Shown \in Seq(1..Products)
    BY <2>1, <2>2, SeqMonotonic DEF PInv, PagesTyped
  <2>4. Shown' = Shown \o Numbers(off + 1, top)
    BY DEF Turned
  <2>. QED
    BY <1>2, <2>1, <2>3, <2>4, ConcatShows
<1>5. CASE top <= m
  <2>1. 1..m \cup (off + 1)..top = 1..m
    BY <1>0, <1>5
  <2>2. Reached' <= m \/ m = Products
    BY <1>0, <1>5 DEF Turned
  <2>. QED
    BY <1>4, <2>1, <2>2
<1>6. CASE ~ (top <= m)
  <2>1. off <= m
    BY <1>0, <1>2, <1>3, <1>6
  <2>2. 1..m \cup (off + 1)..top = 1..top
    BY <1>0, <1>6, <2>1
  <2>3. Reached' <= top \/ top = Products
    BY <1>0 DEF Turned
  <2>. QED
    BY <1>4, <2>2, <2>3
<1>. QED
  BY <1>5, <1>6

\* As long as no page is shorter than one before it, every page shows products
\* behind all those shown.
LEMMA TurnPageRepeatsNone ==
    ASSUME PInv, NEW n \in Nat, NEW size \in Size, NEW off \in Nat, NEW top \in 0..Products,
           Turned(n, size, off, top), NeverShorter'
    PROVE  IsInjective(Shown') /\ \A q \in ToSet(Shown') : q <= Reached'
<1>. DEFINE rows == Numbers(off + 1, top)
<1>0. size \in Nat /\ Products \in Nat /\ Size \subseteq Nat
  BY PagingAssumption DEF Size
<1>1. NeverShorter /\ \A i \in 1..n : sizes[i] <= size
  <2>1. \A i, j \in 1..(n + 1) : i < j => sizes'[i] <= sizes'[j]
    BY TurnedSizes DEF NeverShorter
  <2>. QED
    BY <1>0, <2>1, TurnedSizes DEF NeverShorter
<1>2. IsInjective(Shown) /\ \A q \in ToSet(Shown) : q <= Reached
  BY <1>1 DEF PInv
<1>3. n # 0 => Reached <= off
  <2> SUFFICES ASSUME n # 0 PROVE Reached <= off
    OBVIOUS
  <2>1. n \in 1..n /\ sizes[n] \in Nat
    BY TurnedSizes
  <2>2. n * sizes[n] <= n * size
    BY <1>0, <1>1, <2>1, PageTimesSize
  <2>. QED
    BY <2>2 DEF Turned
<1>4. /\ rows \in Seq((off + 1)..top) /\ ToSet(rows) = (off + 1)..top
      /\ \A i \in 1..Len(rows) : rows[i] = off + i
  BY <1>0, NumbersAre
<1>5. rows \in Seq(1..Products) /\ Shown \in Seq(1..Products)
  <2>1. (off + 1)..top \subseteq 1..Products
    BY <1>0
  <2>. QED
    BY <1>4, <2>1, SeqMonotonic DEF PInv, PagesTyped
<1>6. Shown' = Shown \o rows
  BY DEF Turned
<1>. HIDE DEF rows
<1>7. /\ ToSet(Shown') = ToSet(Shown) \cup ToSet(rows)
      /\ Len(Shown) \in Nat /\ Len(rows) \in Nat
      /\ \A i \in 1..Len(Shown) : Shown'[i] = Shown[i] /\ Shown[i] \in ToSet(Shown)
      /\ \A i \in 1..Len(rows) : Shown'[Len(Shown) + i] = rows[i]
      /\ \A i \in DOMAIN Shown' :
            i \in 1..Len(Shown) \/ \E j \in 1..Len(rows) : i = Len(Shown) + j
      /\ DOMAIN Shown = 1..Len(Shown)
  BY <1>5, <1>6, ConcatShows, LenProperties
<1>8. ASSUME NEW q \in ToSet(Shown) PROVE q \in Nat /\ q <= off
  <2>1. n # 0
    <3>1. n = 0 => sizes = <<>>
      BY DEF Turned, PInv, PagesTyped
    <3>2. sizes = <<>> => ToSet(Shown) = {}
      BY DEF PInv, PagesTyped, ToSet
    <3>. QED
      BY <3>1, <3>2
  <2>2. q \in Nat
    <3>1. \A i \in DOMAIN Shown : Shown[i] \in 1..Products
      BY <1>5, LenProperties, ElementOfSeq
    <3>. QED
      BY <1>0, <3>1 DEF ToSet
  <2>. QED
    BY <1>2, <1>3, <2>1, <2>2 DEF PInv
<1>9. \A q \in ToSet(Shown') : q <= Reached'
  <2> SUFFICES ASSUME NEW q \in ToSet(Shown') PROVE q <= off + size
    BY DEF Turned
  <2>1. CASE q \in ToSet(Shown)
    BY <1>0, <1>8, <2>1
  <2>2. CASE q \in (off + 1)..top
    BY <1>0, <2>2 DEF Turned
  <2>. QED
    BY <1>4, <1>7, <2>1, <2>2
<1>10. IsInjective(Shown')
  <2> SUFFICES ASSUME NEW i \in DOMAIN Shown', NEW j \in DOMAIN Shown', Shown'[i] = Shown'[j]
               PROVE  i = j
    BY DEF IsInjective
  <2>1. CASE i \in 1..Len(Shown) /\ j \in 1..Len(Shown)
    BY <1>2, <1>7, <2>1 DEF IsInjective
  <2>2. ASSUME NEW k \in 1..Len(rows), NEW l \in 1..Len(Shown)
        PROVE  Shown'[Len(Shown) + k] # Shown'[l]
    <3>1. Shown'[Len(Shown) + k] = off + k /\ Shown'[l] \in ToSet(Shown)
      BY <1>4, <1>7
    <3>. QED
      BY <1>7, <1>8, <3>1
  <2>3. ASSUME NEW k \in 1..Len(rows), NEW l \in 1..Len(rows),
               Shown'[Len(Shown) + k] = Shown'[Len(Shown) + l]
        PROVE  k = l
    <3>1. off + k = off + l
      BY <1>4, <1>7, <2>3
    <3>. QED
      BY <1>7, <3>1
  <2>4. CASE i \in 1..Len(Shown)
    BY <1>7, <2>1, <2>2, <2>4
  <2>5. CASE \E k \in 1..Len(rows) : i = Len(Shown) + k
    <3>1. PICK k \in 1..Len(rows) : i = Len(Shown) + k
      BY <2>5
    <3>2. j \notin 1..Len(Shown)
      BY <2>2, <3>1
    <3>3. PICK l \in 1..Len(rows) : j = Len(Shown) + l
      BY <1>7, <3>2
    <3>. QED
      BY <2>3, <3>1, <3>3
  <2>. QED
    BY <1>7, <2>4, <2>5
<1>. QED
  BY <1>9, <1>10

\* Every step preserves the invariant.
LEMMA NextPInv == PInv /\ [Next]_vars => PInv'
<1> SUFFICES ASSUME PInv, [Next]_vars PROVE PInv'
  OBVIOUS
<1>1. CASE TurnPage
  <2>1. PagesTyped'
    BY <1>1, TurnPageTurns
  <2>2. PICK n \in Nat, size \in Size, off \in Nat, top \in 0..Products :
            Turned(n, size, off, top)
    BY <1>1, TurnPageTurns
  <2>3. Reached' \in Nat /\ (more' <=> Reached' < Products \/ sizes' = <<>>)
    BY <2>2, PagingAssumption DEF Turned, Size
  <2>. QED
    BY <2>1, <2>2, <2>3, TurnPageInOrder, TurnPageSkipsNone, TurnPageRepeatsNone DEF PInv
<1>2. CASE UNCHANGED <<sizes, pages, more>>
  BY <1>2 DEF PInv, PagesTyped, Reached, AllEqual, NeverLonger, NeverShorter, Shown
<1>. QED
  BY <1>1, <1>2 DEF Next, vars

\* The sizes can be compared.
LEMMA SizesAreNumbers ==
    ASSUME PInv
    PROVE  \A i \in DOMAIN sizes : sizes[i] \in Nat
<1>1. sizes \in Seq(Size) /\ Size \subseteq Nat
  BY PagingAssumption DEF PInv, PagesTyped, Size
<1>2. \A i \in DOMAIN sizes : sizes[i] \in Size
  BY <1>1, LenProperties, ElementOfSeq
<1>. QED
  BY <1>1, <1>2

\* Paging keeps its invariant.
THEOREM PagingInvariance == Spec => []PInv
<1>. QED
  BY InitPInv, NextPInv, PTL DEF Spec

\* As long as the page size stays, Home shows the products in their order, none
\* twice and none left out, and the last page is the one with the last product.
THEOREM SteadyPagesInOrder == Spec => []InOrderUnlessResized
<1>1. PInv => InOrderUnlessResized
  <2> SUFFICES ASSUME PInv, AllEqual
               PROVE  /\ Shown = Numbers(1, Len(Shown))
                      /\ more <=> Len(Shown) < Products \/ sizes = <<>>
    BY DEF InOrderUnlessResized, AllEqual
  <2>. DEFINE u == IF Reached < Products THEN Reached ELSE Products
  <2>1. u \in Nat /\ (u < Products <=> Reached < Products)
    BY PagingAssumption DEF PInv
  <2>2. Shown = Numbers(1, u)
    BY DEF PInv
  <2>. HIDE DEF u
  <2>3. Len(Numbers(0 + 1, u)) = IF u < 0 + 1 THEN 0 ELSE u - 0
    BY <2>1, NumbersAre
  <2>4. Len(Shown) = u
    BY <2>1, <2>2, <2>3
  <2>. QED
    BY <2>1, <2>2, <2>4 DEF PInv
<1>. QED
  BY <1>1, PagingInvariance, PTL

\* A product is passed over only where the flag was reset between two pages.
THEOREM SkipsNeedReset == Spec => []SkippedOnlyAfterReset
<1>1. PInv => SkippedOnlyAfterReset
  <2> SUFFICES ASSUME PInv PROVE SkippedOnlyAfterReset
    OBVIOUS
  <2>2. \A i \in DOMAIN sizes : sizes[i] \in Nat
    BY SizesAreNumbers
  <2> SUFFICES ASSUME NeverLonger,
                      NEW p \in 1..Products, p \notin ToSet(Shown),
                      NEW q \in ToSet(Shown), q > p
               PROVE  FALSE
    BY <2>2 DEF SkippedOnlyAfterReset, NeverLonger
  <2>1. PICK m \in 0..Products : ToSet(Shown) = 1..m
    BY DEF PInv
  <2>. QED
    BY <2>1, PagingAssumption
<1>. QED
  BY <1>1, PagingInvariance, PTL

\* A product is shown twice only where the flag was set between two pages.
THEOREM RepeatsNeedTrip == Spec => []RepeatedOnlyAfterTrip
<1>1. PInv => RepeatedOnlyAfterTrip
  <2> SUFFICES ASSUME PInv PROVE RepeatedOnlyAfterTrip
    OBVIOUS
  <2>1. \A i \in DOMAIN sizes : sizes[i] \in Nat
    BY SizesAreNumbers
  <2>2. NeverShorter => IsInjective(Shown)
    BY DEF PInv
  <2>. QED
    BY <2>1, <2>2 DEF RepeatedOnlyAfterTrip, NeverShorter
<1>. QED
  BY <1>1, PagingInvariance, PTL

\* Turning pages does not disturb the health check, so its theorems hold here too.
THEOREM HealthUndisturbed == Spec => HealthSpec
<1>1. Init => HealthInit
  BY DEF Init
<1>2. [Next]_vars => [HealthNext]_health
  BY DEF Next, vars, TurnPage
<1>. QED
  BY <1>1, <1>2, PTL DEF Spec, HealthSpec
=============================================================================
