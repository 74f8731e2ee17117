------------------------------- MODULE Paging -------------------------------
(***************************************************************************)
(* A reader turns the pages of the product list while the flag moves.      *)
(* Home asks for 20 products per page, and for 6 while the flag is set;    *)
(* ListProducts turns page number and size into LIMIT and OFFSET.  Nothing *)
(* in a page says of which size the one before it was.                     *)
(*                                                                         *)
(* Products are numbered in the order of the list, updated_at DESC and id  *)
(* DESC, which both databases share.                                       *)
(***************************************************************************)
EXTENDS ReplicaHealth, SequencesExt

CONSTANTS
    Products,   \* how many active products there are
    FullPage,   \* products per page (20)
    ShortPage   \* while the flag is set (6)

ASSUME PagingAssumption ==
    Products \in Nat /\ FullPage \in Nat \ {0} /\ ShortPage \in 1..FullPage

VARIABLES
    sizes,  \* history: the sizes of the pages turned so far, the first page first
    pages,  \* history: the products they showed
    more    \* HasNext: the last of them has a link to the next

vars == <<health, sizes, pages, more>>

Numbers(from, to) == [i \in 1..(IF to < from THEN 0 ELSE to - from + 1) |-> from + i - 1]

\* Mistake: HasNext by a full page.
HasNextIfFull(page, size) == page * size <= Products

\* One row more than the page takes was asked for and found.
HasNext(page, size) == page * size < Products

\* Mistake: whatever the page takes, the offset is that of full pages.
OffsetFull(page, size) == (page - 1) * FullPage

\* Mistake: or that of short ones.
OffsetShort(page, size) == (page - 1) * ShortPage

\* ListProducts: (page - 1) * perPage.
Offset(page, size) == (page - 1) * size

\* ListProducts: the rows behind the offset, without the one that only tells
\* whether there are more.
Rows(page, size) ==
    LET last == Offset(page, size) + size
    IN  Numbers(Offset(page, size) + 1, IF last < Products THEN last ELSE Products)

PageSize == IF down THEN ShortPage ELSE FullPage

Init ==
    /\ HealthInit
    /\ sizes = <<>>
    /\ pages = <<>>
    /\ more = TRUE

\* GET /?page=n, by the link of the page before.
TurnPage ==
    /\ more
    /\ LET page == Len(sizes) + 1
           size == PageSize
       IN  /\ sizes' = Append(sizes, size)
           /\ pages' = Append(pages, Rows(page, size))
           /\ more' = HasNext(page, size)
    /\ UNCHANGED health

Next == TurnPage \/ (HealthNext /\ UNCHANGED <<sizes, pages, more>>)

Spec == Init /\ [][Next]_vars

\* Nobody has to turn a page.
FairSpec == Spec /\ HealthFairness
-----------------------------------------------------------------------------
(* Properties. *)

Shown == FlattenSeq(pages)

\* As long as the page size has not changed, the pages show the products in
\* their order, none twice and none left out, and the last page is the one
\* with the last product.
InOrderUnlessResized ==
    (\A i, j \in DOMAIN sizes : sizes[i] = sizes[j]) =>
        /\ Shown = Numbers(1, Len(Shown))
        /\ more <=> Len(Shown) < Products \/ sizes = <<>>

\* A product is passed over only where a page was longer than one before it:
\* the flag was reset in between.
SkippedOnlyAfterReset ==
    \A p \in 1..Products :
        p \notin ToSet(Shown) /\ (\E q \in ToSet(Shown) : q > p) =>
            \E i, j \in DOMAIN sizes : i < j /\ sizes[i] < sizes[j]

\* A product is shown twice only where a page was shorter than one before it:
\* the flag was set in between.
RepeatedOnlyAfterTrip ==
    ~IsInjective(Shown) => \E i, j \in DOMAIN sizes : i < j /\ sizes[i] > sizes[j]
=============================================================================
