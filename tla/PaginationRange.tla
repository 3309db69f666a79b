-------------------------- MODULE PaginationRange --------------------------
(***************************************************************************)
(* internal::PaginationRange: a List*() RPC that returns pages of items    *)
(* and a token for the next page, presented as a single-pass range         *)
(* (internal/pagination_range.h).                                          *)
(*                                                                         *)
(* The service is external: it holds a collection, cut into pages of any   *)
(* size, and any call may fail.  The token of page p + 1 is p, and 0 is    *)
(* the empty token.  The client calls begin() once and increments the      *)
(* iterator while it is not the end iterator.                              *)
(*                                                                         *)
(* A definition named Faulty... is a variant of the one that follows it    *)
(* with a plausible mistake, kept to show that a property can fail.        *)
(***************************************************************************)
EXTENDS Naturals, Sequences

CONSTANTS MaxPages, MaxItems  \* the largest collection, and the largest page

Bounds == MaxPages \in Nat \ {0} /\ MaxItems \in Nat

VARIABLES
    pages,            \* the service: how many items each page holds
    next_page_token,  \* next_page_token_
    current_page,     \* current_page_: the number of items in it
    page,             \* history: which page current_page_ is
    current,          \* current_, as an index from 0
    on_last_page,     \* on_last_page_
    iterator,         \* what the iterator of the client refers to
    seen,             \* history: the items the client was given
    loads             \* history: the tokens of the requests

range == <<next_page_token, current_page, page, current, on_last_page>>
vars == <<pages, range, iterator, seen, loads>>

TypeOK ==
    /\ \E n \in 1..MaxPages : pages \in [1..n -> 0..MaxItems]
    /\ next_page_token \in 0..(MaxPages - 1)
    /\ current_page \in 0..MaxItems
    /\ page \in 0..MaxPages
    /\ current \in 0..current_page
    /\ on_last_page \in BOOLEAN
    /\ iterator \in {"none", "item", "error", "end"}
    /\ seen \in Seq((1..MaxPages) \X (1..MaxItems))
    /\ loads \in Seq(0..(MaxPages - 1))

Init ==
    /\ \E n \in 1..MaxPages : pages \in [1..n -> 0..MaxItems]
    /\ next_page_token = 0
    /\ current_page = 0
    /\ page = 0
    /\ current = 0
    /\ on_last_page = FALSE
    /\ iterator = "none"
    /\ seen = <<>>
    /\ loads = <<>>

-----------------------------------------------------------------------------
\* return iterator(this, std::move(*current_++)), where current_ is at index i
\* of page p.
Yield(p, i) ==
    /\ current' = i + 1
    /\ iterator' = "item"
    /\ seen' = Append(seen, <<p, i + 1>>)

\* current_ is not advanced.
FaultyNextInPage ==
    /\ current # current_page
    /\ iterator' = "item"
    /\ seen' = Append(seen, <<page, current + 1>>)
    /\ Len(seen) <= MaxPages * MaxItems
    /\ UNCHANGED <<pages, next_page_token, current_page, page, current, on_last_page, loads>>

NextInPage ==
    /\ current # current_page
    /\ Yield(page, current)
    /\ UNCHANGED <<pages, next_page_token, current_page, page, on_last_page, loads>>

\* The error kPastTheEndError comes in an iterator that has not ended.
FaultyPastTheEndError ==
    /\ current = current_page /\ on_last_page
    /\ iterator' = "error"
    /\ UNCHANGED <<pages, range, seen, loads>>

PastTheEnd ==
    /\ current = current_page /\ on_last_page
    /\ iterator' = "end"
    /\ UNCHANGED <<pages, range, seen, loads>>

\* next_page_loader_() returns an error.
LoadFails ==
    /\ current = current_page /\ ~on_last_page
    /\ next_page_token' = 0 /\ current_page' = 0 /\ current' = 0
    /\ on_last_page' = TRUE
    /\ iterator' = "error"
    /\ loads' = Append(loads, next_page_token)
    /\ UNCHANGED <<pages, page, seen>>

\* The last page is not recognised.
FaultyLoads ==
    /\ current = current_page /\ ~on_last_page
    /\ LET p == next_page_token + 1 IN
       /\ next_page_token' = IF p = Len(pages) THEN 0 ELSE p
       /\ current_page' = pages[p] /\ page' = p
       /\ loads' = Append(loads, next_page_token)
       /\ Len(loads) <= MaxPages
       /\ \/ pages[p] = 0 /\ iterator' = "end" /\ current' = 0 /\ UNCHANGED seen
          \/ pages[p] # 0 /\ Yield(p, 0)
    /\ UNCHANGED <<pages, on_last_page>>

\* next_page_loader_() returns a page: an empty one is the end, whatever its
\* token says.
Loads ==
    /\ current = current_page /\ ~on_last_page
    /\ LET p == next_page_token + 1 IN
       /\ next_page_token' = IF p = Len(pages) THEN 0 ELSE p
       /\ on_last_page' = (next_page_token' = 0)
       /\ current_page' = pages[p] /\ page' = p
       /\ loads' = Append(loads, next_page_token)
       /\ \/ pages[p] = 0 /\ iterator' = "end" /\ current' = 0 /\ UNCHANGED seen
          \/ pages[p] # 0 /\ Yield(p, 0)
    /\ UNCHANGED pages

GetNext == NextInPage \/ PastTheEnd \/ LoadFails \/ Loads

begin == iterator = "none" /\ GetNext

Increment == iterator \in {"item", "error"} /\ GetNext

Next == begin \/ Increment

Spec == Init /\ [][Next]_vars

\* The client iterates to the end.
FairSpec == Spec /\ WF_vars(Next)

-----------------------------------------------------------------------------
(* Properties                                                              *)

Items == UNION {{p} \X (1..pages[p]) : p \in DOMAIN pages}

Precedes(x, y) == x[1] < y[1] \/ (x[1] = y[1] /\ x[2] < y[2])

\* The client sees the items of the collection in their order, none twice and
\* none skipped, across pages of any size, and has seen all of them when it
\* reaches the end on the last page.
SeenInOrder ==
    /\ \A k \in 1..Len(seen) :
          /\ seen[k] \in Items
          /\ {seen[j] : j \in 1..(k - 1)} = {x \in Items : Precedes(x, seen[k])}
    /\ iterator = "end" /\ page = Len(pages) => Items = {seen[k] : k \in 1..Len(seen)}

\* Every page is requested at most once, in order, with the token of the page
\* before it, and none after the last page or after an error.
PagesLoadedOnce ==
    /\ Len(loads) <= Len(pages)
    /\ \A k \in 1..Len(loads) : loads[k] = k - 1

\* The end iterator is reached in spite of errors.
ReachesEnd == <>(iterator = "end")

\* "Return an iterator pointing to the end of the stream." (end), "If the
\* stream is exhausted, it returns the `.end()` iterator." (GetNext): at the end
\* the service has no page left that was not asked for.
EndMeansExhausted == iterator = "end" => on_last_page

-----------------------------------------------------------------------------
(* The inductive invariant                                                 *)

\* A request failed: on_last_page_ is set although pages are left.
Failed == on_last_page /\ page # Len(pages)

\* Which page current_page_ is, and what the token and the requests say of it.
PlaceOK ==
    /\ page <= Len(pages)
    /\ ~on_last_page => next_page_token = page /\ Len(loads) = page /\ page < Len(pages)
    /\ current_page = IF page = 0 \/ Failed THEN 0 ELSE pages[page]
    /\ iterator = "end" => current = current_page

\* The items up to current_, or up to the end of the page before a failure.
Passed == {x \in Items : x[1] < page \/ (x[1] = page /\ (Failed \/ x[2] <= current))}

SeenOK ==
    /\ \A k \in 1..Len(seen) :
          /\ seen[k] \in Items
          /\ {seen[j] : j \in 1..(k - 1)} = {x \in Items : Precedes(x, seen[k])}
    /\ {seen[k] : k \in 1..Len(seen)} = Passed

IInv == TypeOK /\ PlaceOK /\ SeenOK /\ PagesLoadedOnce
=============================================================================
