---------------------- MODULE PaginationRange_proofs ------------------------
(***************************************************************************)
(* Proofs of the safety properties of PaginationRange, for collections of  *)
(* any number of pages of any size.                                        *)
(***************************************************************************)
EXTENDS PaginationRange, SequenceTheorems, TLAPS

-----------------------------------------------------------------------------
(* Pages, items and the sequence of the items seen                         *)

\* A collection has at least one page, and pages of at most MaxItems items.
LEMMA PagesFacts ==
    ASSUME Bounds, TypeOK
    PROVE  /\ Len(pages) \in 1..MaxPages
           /\ DOMAIN pages = 1..Len(pages)
           /\ \A p \in 1..Len(pages) : pages[p] \in 0..MaxItems
<1>1. PICK n \in 1..MaxPages : pages \in [1..n -> 0..MaxItems]
      BY DEF TypeOK
<1>2. n \in Nat /\ MaxPages \in Nat /\ n >= 1
      BY <1>1 DEF Bounds
<1>3. pages \in Seq(0..MaxItems)
      BY <1>1, <1>2, SeqDef
<1>4. Len(pages) \in Nat /\ DOMAIN pages = 1..Len(pages)
      BY <1>3, LenProperties
<1>5. 1..n = 1..Len(pages)
      BY <1>1, <1>4
<1>6. ASSUME NEW m \in Nat, 1..n = 1..m PROVE n = m
      <2>1. n \in 1..n
            BY <1>2
      <2>2. n \in 1..m
            BY <1>6, <2>1
      <2>3. 1 <= m /\ n <= m
            BY <1>2, <2>2
      <2>4. m \in 1..m
            BY <2>3
      <2>5. m \in 1..n
            BY <1>6, <2>4
      <2> QED BY <1>2, <2>3, <2>5
<1>7. n = Len(pages)
      BY <1>4, <1>5, <1>6
<1> QED BY <1>1, <1>4, <1>7

\* An item is a page and a position in it.
LEMMA ItemsFacts ==
    ASSUME NEW x
    PROVE  x \in Items <=> \E p \in DOMAIN pages : \E i \in 1..pages[p] : x = <<p, i>>
BY DEF Items

\* The parts of an item.
LEMMA ItemParts ==
    ASSUME Bounds, TypeOK, NEW x \in Items
    PROVE  /\ x = <<x[1], x[2]>>
           /\ x[1] \in 1..Len(pages) /\ x[2] \in 1..pages[x[1]]
           /\ x[1] \in Nat /\ x[2] \in Nat /\ x[2] >= 1 /\ x[2] <= pages[x[1]]
<1>1. DOMAIN pages = 1..Len(pages) /\ Len(pages) \in Nat
      /\ \A p \in 1..Len(pages) : pages[p] \in 0..MaxItems
      BY PagesFacts
<1>2. PICK p \in 1..Len(pages) : \E i \in 1..pages[p] : x = <<p, i>>
      BY <1>1, ItemsFacts
<1>3. PICK i \in 1..pages[p] : x = <<p, i>>
      BY <1>2
<1>4. p \in Nat /\ i \in Nat /\ i >= 1 /\ i <= pages[p]
      BY <1>1, <1>3
<1> QED BY <1>3, <1>4

\* What appending does to a sequence and to the sets of its first elements.
LEMMA AppendFacts ==
    ASSUME NEW S, NEW s \in Seq(S), NEW y \in S
    PROVE  LET t == Append(s, y) IN
           /\ Len(s) \in Nat
           /\ t \in Seq(S) /\ Len(t) = Len(s) + 1
           /\ t[Len(s) + 1] = y
           /\ \A k \in 1..Len(s) : t[k] = s[k] /\ {t[j] : j \in 1..(k - 1)} = {s[j] : j \in 1..(k - 1)}
           /\ {t[j] : j \in 1..Len(s)} = {s[j] : j \in 1..Len(s)}
           /\ {t[j] : j \in 1..Len(t)} = {s[j] : j \in 1..Len(s)} \cup {y}
<1> DEFINE t == Append(s, y)
<1>1. Len(s) \in Nat /\ t \in Seq(S) /\ Len(t) = Len(s) + 1 /\ t[Len(s) + 1] = y
      OBVIOUS
<1>2. \A k \in 1..Len(s) : t[k] = s[k]
      OBVIOUS
<1> HIDE DEF t
<1>3. ASSUME NEW k \in 1..Len(s) PROVE {t[j] : j \in 1..(k - 1)} = {s[j] : j \in 1..(k - 1)}
      <2>1. \A j \in 1..(k - 1) : t[j] = s[j]
            BY <1>1, <1>2
      <2> QED BY <2>1
<1>4. {t[j] : j \in 1..Len(s)} = {s[j] : j \in 1..Len(s)}
      BY <1>2
<1>5. {t[j] : j \in 1..Len(t)} = {s[j] : j \in 1..Len(s)} \cup {y}
      <2>1. \A j \in 1..Len(t) : j \in 1..Len(s) \/ j = Len(s) + 1
            BY <1>1
      <2>2. \A j \in 1..Len(s) : j \in 1..Len(t)
            BY <1>1
      <2>3. Len(s) + 1 \in 1..Len(t)
            BY <1>1
      <2> QED BY <1>1, <1>2, <2>1, <2>2, <2>3
<1> QED BY <1>1, <1>2, <1>3, <1>4, <1>5 DEF t

\* Giving the client the item that follows the ones it has seen keeps them in
\* order.
LEMMA YieldKeepsOrder ==
    ASSUME TypeOK, SeenOK, NEW y \in (1..MaxPages) \X (1..MaxItems), y \in Items,
           pages' = pages, seen' = Append(seen, y),
           Passed = {x \in Items : Precedes(x, y)}, Passed' = Passed \cup {y}
    PROVE  SeenOK'
<1> DEFINE S == (1..MaxPages) \X (1..MaxItems)
<1>1. seen \in Seq(S)
      BY DEF TypeOK
<1>2. Items' = Items
      BY DEF Items
<1>3. ASSUME NEW k \in 1..Len(seen')
      PROVE  seen'[k] \in Items' /\ {seen'[j] : j \in 1..(k - 1)} = {x \in Items' : Precedes(x, seen'[k])}
      <2>1. CASE k \in 1..Len(seen)
            <3>1. seen'[k] = seen[k] /\ {seen'[j] : j \in 1..(k - 1)} = {seen[j] : j \in 1..(k - 1)}
                  BY <1>1, <2>1, AppendFacts
            <3> QED BY <1>2, <2>1, <3>1 DEF SeenOK
      <2>2. CASE k = Len(seen) + 1
            <3>1. seen'[k] = y /\ k - 1 = Len(seen)
                  BY <1>1, <2>2, AppendFacts
            <3>2. {seen'[j] : j \in 1..Len(seen)} = {seen[j] : j \in 1..Len(seen)}
                  BY <1>1, AppendFacts
            <3>3. {seen'[j] : j \in 1..(k - 1)} = Passed
                  BY <3>1, <3>2 DEF SeenOK
            <3> QED BY <1>2, <3>1, <3>3
      <2>3. Len(seen') = Len(seen) + 1 /\ Len(seen) \in Nat
            BY <1>1, AppendFacts
      <2> QED BY <2>1, <2>2, <2>3
<1>4. {seen'[k] : k \in 1..Len(seen')} = Passed'
      BY <1>1, AppendFacts DEF SeenOK
<1> QED BY <1>3, <1>4 DEF SeenOK
-----------------------------------------------------------------------------
(* The inductive invariant                                                 *)

\* Before begin() nothing was loaded and nothing was seen.
LEMMA InitInv == ASSUME Bounds PROVE Init => IInv
<1> SUFFICES ASSUME Init PROVE IInv
    OBVIOUS
<1>1. TypeOK
      <2>1. 0 \in 0..(MaxPages - 1) /\ 0 \in 0..MaxItems /\ 0 \in 0..MaxPages /\ 0 \in 0..0
            BY DEF Bounds
      <2>2. seen \in Seq((1..MaxPages) \X (1..MaxItems)) /\ loads \in Seq(0..(MaxPages - 1))
            BY DEF Init
      <2>3. \E n \in 1..MaxPages : pages \in [1..n -> 0..MaxItems]
            BY DEF Init
      <2> QED BY <2>1, <2>2, <2>3 DEF Init, TypeOK
<1>2. Len(pages) \in 1..MaxPages /\ DOMAIN pages = 1..Len(pages)
      /\ \A p \in 1..Len(pages) : pages[p] \in 0..MaxItems
      BY <1>1, PagesFacts
<1>3. PlaceOK
      BY <1>2 DEF Init, PlaceOK, Failed
<1>4. SeenOK
      <2>1. Passed = {}
            <3> SUFFICES ASSUME NEW x \in Passed PROVE FALSE
                OBVIOUS
            <3>1. x \in Items /\ (x[1] < 0 \/ x[1] = 0)
                  BY DEF Passed, Init
            <3>2. PICK p \in 1..Len(pages) : \E i \in 1..pages[p] : x = <<p, i>>
                  BY <1>2, <3>1, ItemsFacts
            <3> QED BY <1>2, <3>1, <3>2
      <2>2. Len(seen) = 0
            BY DEF Init
      <2> QED BY <2>1, <2>2 DEF SeenOK
<1>5. PagesLoadedOnce
      BY <1>2 DEF Init, PagesLoadedOnce
<1> QED BY <1>1, <1>3, <1>4, <1>5 DEF IInv

\* A request asks for the page after the current one, which exists.
LEMMA LoadFacts ==
    ASSUME Bounds, IInv, ~on_last_page
    PROVE  /\ next_page_token = page /\ page \in 0..(Len(pages) - 1)
           /\ page + 1 \in 1..Len(pages) /\ pages[page + 1] \in 0..MaxItems
           /\ Len(loads) = page
<1>1. TypeOK /\ PlaceOK
      BY DEF IInv
<1>2. Len(pages) \in 1..MaxPages /\ \A p \in 1..Len(pages) : pages[p] \in 0..MaxItems
      BY <1>1, PagesFacts
<1>3. page \in Nat /\ page < Len(pages) /\ next_page_token = page /\ Len(loads) = page
      BY <1>1 DEF TypeOK, PlaceOK
<1>4. page + 1 \in 1..Len(pages)
      BY <1>2, <1>3
<1> QED BY <1>2, <1>3, <1>4

\* Every step keeps the requests in order and current_page_ the page it is.
LEMMA PlaceStep == ASSUME Bounds PROVE IInv /\ [Next]_vars => PlaceOK' /\ PagesLoadedOnce'
<1> SUFFICES ASSUME IInv, [Next]_vars PROVE PlaceOK' /\ PagesLoadedOnce'
    OBVIOUS
<1> USE DEF range
<1>0. TypeOK /\ PlaceOK /\ PagesLoadedOnce
      BY DEF IInv
<1>t. Len(pages) \in Nat /\ page \in Nat /\ loads \in Seq(0..(MaxPages - 1))
      BY <1>0, PagesFacts DEF TypeOK
<1>a. ASSUME ~on_last_page, pages' = pages, loads' = Append(loads, next_page_token) PROVE PagesLoadedOnce'
      <2>1. next_page_token = page /\ page \in 0..(Len(pages) - 1) /\ Len(loads) = page
            BY <1>a, LoadFacts
      <2>2. next_page_token \in 0..(MaxPages - 1)
            BY <1>0 DEF TypeOK
      <2>3. Len(loads') = page + 1 /\ loads'[page + 1] = page /\ \A k \in 1..page : loads'[k] = loads[k]
            BY <1>a, <1>t, <2>1, <2>2
      <2>4. \A k \in 1..page : loads[k] = k - 1
            BY <1>0, <2>1 DEF PagesLoadedOnce
      <2>5. ASSUME NEW k \in 1..Len(loads') PROVE loads'[k] = k - 1
            <3>1. CASE k \in 1..page
                  BY <2>3, <2>4, <3>1
            <3>2. CASE k = page + 1
                  BY <1>t, <2>3, <3>2
            <3> QED BY <1>t, <2>3, <3>1, <3>2
      <2>6. Len(loads') <= Len(pages')
            BY <1>a, <1>t, <2>1, <2>3
      <2> QED BY <2>5, <2>6 DEF PagesLoadedOnce
<1>1. CASE UNCHANGED vars
      BY <1>0, <1>1 DEF vars, PlaceOK, PagesLoadedOnce, Failed
<1>2. CASE NextInPage
      BY <1>0, <1>2 DEF NextInPage, Yield, PlaceOK, PagesLoadedOnce, Failed
<1>3. CASE PastTheEnd
      BY <1>0, <1>3 DEF PastTheEnd, PlaceOK, PagesLoadedOnce, Failed
<1>4. CASE LoadFails
      <2>1. page # Len(pages) /\ page <= Len(pages)
            BY <1>4, <1>t, LoadFacts DEF LoadFails
      <2>2. PlaceOK'
            BY <1>4, <2>1 DEF LoadFails, PlaceOK, Failed
      <2> QED BY <1>4, <1>a, <2>2 DEF LoadFails
<1>5. CASE Loads
      <2> DEFINE p == page + 1
      <2>0. ~on_last_page /\ pages' = pages /\ loads' = Append(loads, next_page_token)
            BY <1>5 DEF Loads
      <2>1. next_page_token = page /\ p \in 1..Len(pages) /\ Len(loads) = page /\ next_page_token + 1 = p
            BY <2>0, LoadFacts
      <2>2. /\ next_page_token' = IF p = Len(pages) THEN 0 ELSE p
            /\ on_last_page' = (next_page_token' = 0)
            /\ current_page' = pages[p] /\ page' = p
            /\ iterator' = "end" => current' = current_page'
            BY <1>5, <2>1 DEF Loads, Yield
      <2>3. Len(loads') = p
            BY <1>0, <1>t, <2>0, <2>1 DEF TypeOK
      <2> HIDE DEF p
      <2>4. p # 0 /\ p <= Len(pages) /\ p \in Nat
            BY <1>t, <2>1
      <2>5. on_last_page' <=> p = Len(pages)
            BY <2>2, <2>4
      <2>6. ~on_last_page' => next_page_token' = page' /\ Len(loads') = page' /\ page' < Len(pages')
            BY <1>t, <2>0, <2>2, <2>3, <2>4, <2>5
      <2>7. ~Failed' /\ page' # 0
            BY <2>0, <2>2, <2>4, <2>5 DEF Failed
      <2>8. PlaceOK'
            BY <2>0, <2>2, <2>4, <2>6, <2>7 DEF PlaceOK
      <2> QED BY <1>a, <2>0, <2>8
<1> QED BY <1>1, <1>2, <1>3, <1>4, <1>5 DEF Next, begin, Increment, GetNext

\* Every step keeps the variables in their types.
LEMMA TypeStep == ASSUME Bounds PROVE IInv /\ [Next]_vars => TypeOK'
<1> SUFFICES ASSUME IInv, [Next]_vars PROVE TypeOK'
    OBVIOUS
<1> USE DEF range
<1>0. TypeOK /\ PlaceOK
      BY DEF IInv
<1>t. Len(pages) \in 1..MaxPages /\ MaxPages \in Nat /\ MaxItems \in Nat
      BY <1>0, PagesFacts DEF Bounds
<1>1. CASE UNCHANGED vars \/ PastTheEnd
      BY <1>0, <1>1 DEF vars, PastTheEnd, TypeOK
<1>2. CASE NextInPage
      <2>1. current + 1 \in 1..current_page /\ current_page \in 0..MaxItems
            BY <1>0, <1>2 DEF NextInPage, TypeOK
      <2>2. page \in 1..MaxPages
            BY <1>0, <2>1 DEF TypeOK, PlaceOK
      <2>3. <<page, current + 1>> \in (1..MaxPages) \X (1..MaxItems)
            BY <1>t, <2>1, <2>2
      <2>4. seen' \in Seq((1..MaxPages) \X (1..MaxItems))
            BY <1>0, <1>2, <2>3, AppendFacts DEF NextInPage, Yield, TypeOK
      <2>5. current' \in 0..current_page
            BY <1>2, <2>1 DEF NextInPage, Yield
      <2> QED BY <1>0, <1>2, <2>4, <2>5 DEF NextInPage, Yield, TypeOK
<1>3. CASE LoadFails
      <2>1. next_page_token \in 0..(MaxPages - 1)
            BY <1>0 DEF TypeOK
      <2>2. loads' \in Seq(0..(MaxPages - 1))
            BY <1>0, <1>3, <2>1 DEF LoadFails, TypeOK
      <2>3. 0 \in 0..(MaxPages - 1) /\ 0 \in 0..MaxItems /\ 0 \in 0..0
            BY <1>t
      <2> QED BY <1>0, <1>3, <2>2, <2>3 DEF LoadFails, TypeOK
<1>4. CASE Loads
      <2> DEFINE p == page + 1
      <2>0. ~on_last_page /\ pages' = pages /\ loads' = Append(loads, next_page_token)
            BY <1>4 DEF Loads
      <2>1. next_page_token + 1 = p /\ p \in 1..Len(pages) /\ pages[p] \in 0..MaxItems
            BY <2>0, LoadFacts
      <2>2. loads' \in Seq(0..(MaxPages - 1))
            BY <1>0, <2>0 DEF TypeOK
      <2>3. /\ next_page_token' = IF p = Len(pages) THEN 0 ELSE p
            /\ on_last_page' = (next_page_token' = 0)
            /\ current_page' = pages[p] /\ page' = p
            /\ \/ pages[p] = 0 /\ iterator' = "end" /\ current' = 0 /\ seen' = seen
               \/ pages[p] # 0 /\ iterator' = "item" /\ current' = 0 + 1 /\ seen' = Append(seen, <<p, 0 + 1>>)
            BY <1>4, <2>1 DEF Loads, Yield
      <2> HIDE DEF p
      <2>4. p \in 1..MaxPages
            BY <1>t, <2>1
      <2>5. next_page_token' \in 0..(MaxPages - 1) /\ on_last_page' \in BOOLEAN
            BY <1>t, <2>1, <2>3
      <2>6. current' \in 0..current_page'
            BY <2>1, <2>3
      <2>7. seen' \in Seq((1..MaxPages) \X (1..MaxItems))
            <3>1. CASE pages[p] # 0
                  <4>1. 1 \in 1..MaxItems
                        BY <1>t, <2>1, <3>1
                  <4>2. <<p, 0 + 1>> \in (1..MaxPages) \X (1..MaxItems)
                        BY <2>4, <4>1
                  <4>3. seen \in Seq((1..MaxPages) \X (1..MaxItems)) /\ seen' = Append(seen, <<p, 0 + 1>>)
                        BY <1>0, <2>3, <3>1 DEF TypeOK
                  <4> QED BY <4>2, <4>3, AppendFacts
            <3>2. CASE pages[p] = 0
                  BY <1>0, <2>3, <3>2 DEF TypeOK
            <3> QED BY <3>1, <3>2
      <2>8. page' \in 0..MaxPages /\ current_page' \in 0..MaxItems /\ iterator' \in {"none", "item", "error", "end"}
            BY <1>t, <2>1, <2>3, <2>4
      <2> QED BY <1>0, <2>0, <2>2, <2>5, <2>6, <2>7, <2>8 DEF TypeOK
<1> QED BY <1>1, <1>2, <1>3, <1>4 DEF Next, begin, Increment, GetNext
\* At the end of a page the items passed are those of the pages so far.
LEMMA PassedAtEndOfPage ==
    ASSUME Bounds, IInv, current = current_page, ~Failed
    PROVE  Passed = {x \in Items : x[1] <= page}
<1>0. TypeOK /\ PlaceOK
      BY DEF IInv
<1>1. ASSUME NEW x \in Items PROVE (x[1] < page \/ (x[1] = page /\ x[2] <= current)) <=> x[1] <= page
      <2>1. x[1] \in Nat /\ x[1] # 0 /\ x[2] \in Nat /\ x[2] <= pages[x[1]] /\ page \in Nat
            BY <1>0, ItemParts DEF TypeOK
      <2>2. x[1] = page => current = pages[page]
            BY <1>0, <2>1 DEF PlaceOK
      <2>3. x[1] = page => x[2] <= current
            BY <2>1, <2>2
      <2> QED BY <2>1, <2>3
<1> QED BY <1>1 DEF Passed

\* Every step gives the client the next item of the collection, or none.
LEMMA SeenStep == ASSUME Bounds PROVE IInv /\ [Next]_vars => SeenOK'
<1> SUFFICES ASSUME IInv, [Next]_vars PROVE SeenOK'
    OBVIOUS
<1> USE DEF range
<1>0. TypeOK /\ PlaceOK /\ SeenOK
      BY DEF IInv
<1>p. PlaceOK' /\ TypeOK'
      BY PlaceStep, TypeStep
<1>t. /\ page \in Nat /\ current \in Nat /\ MaxPages \in Nat /\ MaxItems \in Nat
      /\ Len(pages) \in 1..MaxPages /\ DOMAIN pages = 1..Len(pages)
      /\ \A p \in 1..Len(pages) : pages[p] \in 0..MaxItems
      BY <1>0, PagesFacts DEF TypeOK, Bounds
<1>k. ASSUME pages' = pages, seen' = seen, Passed' = Passed PROVE SeenOK'
      <2>1. Items' = Items
            BY <1>k DEF Items
      <2> QED BY <1>0, <1>k, <2>1 DEF SeenOK
<1>1. CASE UNCHANGED vars \/ PastTheEnd
      <2>1. UNCHANGED <<pages, page, current, on_last_page, seen>>
            BY <1>1 DEF vars, PastTheEnd
      <2>2. Passed' = Passed
            BY <2>1 DEF Passed, Items, Failed
      <2> QED BY <1>k, <2>1, <2>2
<1>2. CASE NextInPage
      <2> DEFINE y == <<page, current + 1>>
      <2>1. UNCHANGED <<pages, page, on_last_page>> /\ current' = current + 1 /\ seen' = Append(seen, y)
            BY <1>2 DEF NextInPage, Yield
      <2>2. current < current_page /\ current_page \in Nat
            BY <1>0, <1>2 DEF NextInPage, TypeOK
      <2>3. page # 0 /\ ~Failed /\ current_page = pages[page] /\ page \in 1..Len(pages)
            <3>1. page # 0 /\ ~Failed
                  BY <1>0, <1>t, <2>2 DEF PlaceOK
            <3>2. page <= Len(pages) /\ current_page = pages[page]
                  BY <1>0, <3>1 DEF PlaceOK
            <3>3. page \in 1..Len(pages)
                  BY <1>t, <3>1, <3>2
            <3> QED BY <3>1, <3>2, <3>3
      <2>4. current + 1 \in 1..pages[page]
            BY <1>t, <2>2, <2>3
      <2>5. y \in Items
            BY <1>t, <2>3, <2>4, ItemsFacts
      <2>6. y \in (1..MaxPages) \X (1..MaxItems)
            <3>1. page \in 1..MaxPages
                  BY <1>t, <2>3
            <3>2. current + 1 \in 1..MaxItems
                  BY <1>t, <2>3, <2>4
            <3> QED BY <3>1, <3>2
      <2>7. Passed = {x \in Items : Precedes(x, y)}
            <3>1. ASSUME NEW x \in Items
                  PROVE  (x[1] < page \/ (x[1] = page /\ (Failed \/ x[2] <= current))) <=> Precedes(x, y)
                  <4>1. x[2] \in Nat
                        BY <1>0, ItemParts
                  <4>2. x[2] <= current <=> x[2] < current + 1
                        BY <1>t, <4>1
                  <4> QED BY <2>3, <4>2 DEF Precedes
            <3> QED BY <3>1 DEF Passed
      <2>8. Passed' = Passed \cup {y}
            <3>1. Items' = Items /\ ~Failed'
                  BY <2>1, <2>3 DEF Items, Failed
            <3>2. ASSUME NEW x \in Items
                  PROVE  (x[1] < page \/ (x[1] = page /\ x[2] <= current + 1))
                         <=> (x[1] < page \/ (x[1] = page /\ x[2] <= current)) \/ x = y
                  <4>1. x[2] \in Nat /\ x = <<x[1], x[2]>>
                        BY <1>0, ItemParts
                  <4>2. x[2] <= current + 1 <=> x[2] <= current \/ x[2] = current + 1
                        BY <1>t, <4>1
                  <4>3. x = y <=> x[1] = page /\ x[2] = current + 1
                        BY <4>1
                  <4> QED BY <4>2, <4>3
            <3>3. Passed' = {x \in Items : x[1] < page \/ (x[1] = page /\ x[2] <= current + 1)}
                  BY <2>1, <3>1 DEF Passed
            <3>4. Passed = {x \in Items : x[1] < page \/ (x[1] = page /\ x[2] <= current)}
                  BY <2>3 DEF Passed
            <3> HIDE DEF y
            <3> QED BY <2>5, <3>2, <3>3, <3>4
      <2> HIDE DEF y
      <2> QED BY <1>0, <2>1, <2>5, <2>6, <2>7, <2>8, YieldKeepsOrder
<1>3. CASE LoadFails
      <2>1. /\ current = current_page /\ ~on_last_page /\ on_last_page' /\ pages' = pages /\ page' = page
            /\ seen' = seen
            BY <1>3 DEF LoadFails
      <2>2. Passed = {x \in Items : x[1] <= page}
            BY <2>1, PassedAtEndOfPage DEF Failed
      <2>3. Failed' /\ Items' = Items
            BY <1>0, <2>1 DEF PlaceOK, Failed, Items
      <2>4. Passed' = {x \in Items : x[1] < page \/ x[1] = page}
            BY <2>1, <2>3 DEF Passed
      <2>5. \A x \in Items : x[1] <= page <=> x[1] < page \/ x[1] = page
            BY <1>0, <1>t, ItemParts
      <2> QED BY <1>k, <2>1, <2>2, <2>4, <2>5
<1>4. CASE Loads
      <2> DEFINE p == page + 1
                 y == <<p, 1>>
      <2>0. current = current_page /\ ~on_last_page /\ pages' = pages
            BY <1>4 DEF Loads
      <2>1. next_page_token + 1 = p /\ p \in 1..Len(pages) /\ pages[p] \in 0..MaxItems
            BY <2>0, LoadFacts
      <2>2. /\ page' = p
            /\ \/ pages[p] = 0 /\ current' = 0 /\ seen' = seen
               \/ pages[p] # 0 /\ current' = 1 /\ seen' = Append(seen, y)
            BY <1>4, <2>1 DEF Loads, Yield
      <2>3. Passed = {x \in Items : x[1] < p}
            <3>1. Passed = {x \in Items : x[1] <= page}
                  BY <2>0, PassedAtEndOfPage DEF Failed
            <3>2. \A x \in Items : x[1] <= page <=> x[1] < p
                  BY <1>0, <1>t, ItemParts
            <3> QED BY <3>1, <3>2
      <2>4. ~Failed' /\ Items' = Items
            <3>1. on_last_page' => page' = Len(pages)
                  <4>1. /\ next_page_token' = IF p = Len(pages) THEN 0 ELSE p
                        /\ on_last_page' = (next_page_token' = 0)
                        BY <1>4, <2>1 DEF Loads
                  <4>2. p # 0
                        BY <1>t
                  <4> QED BY <2>2, <4>1, <4>2
            <3> QED BY <2>0, <3>1 DEF Failed, Items
      <2>5. Passed' = {x \in Items : x[1] < p \/ (x[1] = p /\ x[2] <= current')}
            BY <2>2, <2>4 DEF Passed
      <2>6. CASE pages[p] = 0
            <3>1. ASSUME NEW x \in Items PROVE x[1] # p
                  <4>1. x[2] \in Nat /\ x[2] >= 1 /\ x[2] <= pages[x[1]]
                        BY <1>0, ItemParts
                  <4> QED BY <2>6, <4>1
            <3>2. Passed' = Passed
                  BY <2>3, <2>5, <3>1
            <3> QED BY <1>k, <2>0, <2>2, <2>6, <3>2
      <2>7. CASE pages[p] # 0
            <3>1. 1 \in 1..pages[p] /\ 1 \in 1..MaxItems /\ p \in 1..MaxPages
                  BY <1>t, <2>1, <2>7
            <3>2. y \in Items
                  BY <1>t, <2>1, <3>1, ItemsFacts
            <3>3. y \in (1..MaxPages) \X (1..MaxItems)
                  BY <3>1
            <3>4. Passed = {x \in Items : Precedes(x, y)}
                  <4>1. ASSUME NEW x \in Items PROVE x[1] < p <=> Precedes(x, y)
                        <5>1. x[2] \in Nat /\ x[2] >= 1
                              BY <1>0, ItemParts
                        <5>2. ~(x[2] < 1)
                              BY <5>1
                        <5> QED BY <5>2 DEF Precedes
                  <4> QED BY <2>3, <4>1
            <3>5. Passed' = Passed \cup {y}
                  <4>1. ASSUME NEW x \in Items PROVE x[1] = p /\ x[2] <= 1 <=> x = y
                        <5>1. x[2] \in Nat /\ x[2] >= 1 /\ x = <<x[1], x[2]>>
                              BY <1>0, ItemParts
                        <5>2. x[2] <= 1 <=> x[2] = 1
                              BY <5>1
                        <5> QED BY <5>1, <5>2
                  <4>2. current' = 1
                        BY <2>2, <2>7
                  <4> HIDE DEF y
                  <4> QED BY <2>3, <2>5, <3>2, <4>1, <4>2
            <3>6. seen' = Append(seen, y)
                  BY <2>2, <2>7
            <3> HIDE DEF y
            <3> QED BY <1>0, <2>0, <3>2, <3>3, <3>4, <3>5, <3>6, YieldKeepsOrder
      <2> QED BY <2>6, <2>7
<1> QED BY <1>1, <1>2, <1>3, <1>4 DEF Next, begin, Increment, GetNext

\* The inductive invariant holds for every collection and every failure.
THEOREM Invariant == ASSUME Bounds PROVE Spec => []IInv
<1>1. Init => IInv
      BY InitInv
<1>2. IInv /\ [Next]_vars => IInv'
      BY TypeStep, PlaceStep, SeenStep DEF IInv
<1> QED BY <1>1, <1>2, PTL DEF Spec

-----------------------------------------------------------------------------
(* The theorems                                                            *)

\* GetNext() yields every item once and in order across pages of any size, and
\* has yielded all of them when it returns the end iterator on the last page.
THEOREM InOrder == ASSUME Bounds PROVE Spec => []SeenInOrder
<1>1. IInv => SeenInOrder
      <2> SUFFICES ASSUME IInv PROVE SeenInOrder
          OBVIOUS
      <2>0. TypeOK /\ PlaceOK /\ SeenOK
            BY DEF IInv
      <2>1. ASSUME iterator = "end", page = Len(pages) PROVE Items = {seen[k] : k \in 1..Len(seen)}
            <3>1. current = current_page /\ ~Failed
                  BY <2>0, <2>1 DEF PlaceOK, Failed
            <3>2. Passed = {x \in Items : x[1] <= page}
                  BY <3>1, PassedAtEndOfPage
            <3>3. \A x \in Items : x[1] <= page
                  BY <2>0, <2>1, ItemParts, PagesFacts
            <3> QED BY <2>0, <3>2, <3>3 DEF SeenOK
      <2> QED BY <2>0, <2>1 DEF SeenOK, SeenInOrder
<1> QED BY Invariant, <1>1, PTL

\* next_page_loader_ is called at most once per page, in order, with the token
\* of the page before, and never after the last page or after an error.
THEOREM LoadedOnce == ASSUME Bounds PROVE Spec => []PagesLoadedOnce
<1>1. IInv => PagesLoadedOnce
      BY DEF IInv
<1> QED BY Invariant, <1>1, PTL
=============================================================================
