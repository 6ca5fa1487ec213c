-------------------------- MODULE PaginationProofs --------------------------
(***************************************************************************)
(* Theorems about iteration over pages, for any tokens, page sizes and     *)
(* answers of the server.  Three invariants: the types with the page at    *)
(* hand, then what was fetched against seen_tokens, then what was yielded  *)
(* against the pages.                                                      *)
(***************************************************************************)
EXTENDS Pagination, SequenceTheorems, FiniteSetTheorems, TLAPS

\* Appending to a sequence keeps what it held.
LEMMA Appended ==
  ASSUME NEW S, NEW s \in Seq(S), NEW e \in S
  PROVE  /\ Append(s, e) \in Seq(S) /\ Len(s) \in Nat
         /\ Len(Append(s, e)) = Len(s) + 1
         /\ \A i \in 1..Len(s) : Append(s, e)[i] = s[i] /\ s[i] \in S
         /\ Append(s, e)[Len(s) + 1] = e
BY AppendProperties, ElementOfSeq, LenProperties

-----------------------------------------------------------------------------
(***************************************************************************)
(* Types, and the page at hand: it is the last that arrived, and what is   *)
(* left of it is a part of it.                                             *)
(***************************************************************************)
Last == Len(pages)

Index == pages[Last] - page.left + 1  \* of the next item of the last page

AtHand ==
  pc = "yield" => Last \in Nat \ {0} /\ page.left <= pages[Last]

\* What FetchPage does, with the answer named.
LEMMA FetchStep ==
  ASSUME TypeOK, FetchPage
  PROVE  \E n \in 0..MaxItems, t \in Tokens \union {NoToken} :
           /\ page' = [left |-> n, continue |-> t]
           /\ pages' = Append(pages, n)
           /\ pages' \in Seq(0..MaxItems) /\ Last \in Nat /\ Last' = Last + 1
           /\ \A p \in 1..Last : pages'[p] = pages[p] /\ pages[p] \in 0..MaxItems
           /\ pages'[Last'] = n
<1>1. PICK n \in 0..MaxItems, t \in Tokens \union {NoToken} :
         page' = [left |-> n, continue |-> t] /\ pages' = Append(pages, n)
  BY DEF FetchPage
<1>2. /\ pages' \in Seq(0..MaxItems) /\ Last \in Nat /\ Last' = Last + 1
      /\ \A p \in 1..Last : pages'[p] = pages[p] /\ pages[p] \in 0..MaxItems
      /\ pages'[Last'] = n
  <2> DEFINE Sizes == 0..MaxItems
  <2>1. pages \in Seq(Sizes) /\ n \in Sizes
    BY DEF TypeOK
  <2> HIDE DEF Sizes
  <2>2. /\ pages' \in Seq(Sizes) /\ Last \in Nat /\ Last' = Last + 1
        /\ \A p \in 1..Last : pages'[p] = pages[p] /\ pages[p] \in Sizes
        /\ pages'[Last'] = n
    BY <1>1, <2>1, Appended DEF Last
  <2> QED
    BY <2>2 DEF Sizes
<1> WITNESS n \in 0..MaxItems, t \in Tokens \union {NoToken}
<1> QED
  BY <1>1, <1>2

\* What YieldItem does, with the index of the item.
LEMMA YieldStep ==
  ASSUME TypeOK, AtHand, YieldItem
  PROVE  /\ Last \in Nat \ {0} /\ pages[Last] \in 0..MaxItems
         /\ Index \in 1..MaxItems /\ Index <= pages[Last]
         /\ items' \in Seq((1..Last) \X (1..MaxItems))
         /\ Len(items) \in Nat /\ Len(items') = Len(items) + 1
         /\ \A i \in 1..Len(items) :
              items'[i] = items[i] /\ items[i] \in (1..Last) \X (1..MaxItems)
         /\ items'[Len(items) + 1] = <<Last, Index>>
         /\ page'.left = page.left - 1 /\ page.left \in 1..MaxItems
         /\ page' \in [left : 0..MaxItems, continue : Tokens \union {NoToken}]
         /\ UNCHANGED <<pages, pc, outcome, Last>> /\ pc = "yield"
<1>1. /\ pc = "yield" /\ page.left > 0 /\ page.left \in 0..MaxItems
      /\ items' = Append(items, <<Last, Index>>)
      /\ page' = [page EXCEPT !.left = @ - 1]
      /\ UNCHANGED <<pages, pc, outcome, Last>>
  BY DEF YieldItem, Last, Index, TypeOK
<1>2. Last \in Nat \ {0} /\ pages[Last] \in 0..MaxItems /\ page.left <= pages[Last]
  <2>1. Last \in Nat \ {0} /\ page.left <= pages[Last]
    BY <1>1 DEF AtHand
  <2>2. pages \in Seq(0..MaxItems) /\ Last \in 1..Len(pages)
    BY <2>1 DEF TypeOK, Last
  <2>3. pages[Last] \in 0..MaxItems
    BY <2>2, ElementOfSeq
  <2> QED
    BY <2>1, <2>3
<1>3. Index \in 1..MaxItems /\ Index <= pages[Last] /\ page.left \in 1..MaxItems
  BY <1>1, <1>2, PaginationAssumption DEF Index
<1>4. <<Last, Index>> \in (1..Last) \X (1..MaxItems)
  BY <1>2, <1>3
<1>5. /\ items' \in Seq((1..Last) \X (1..MaxItems))
      /\ Len(items) \in Nat /\ Len(items') = Len(items) + 1
      /\ \A i \in 1..Len(items) :
           items'[i] = items[i] /\ items[i] \in (1..Last) \X (1..MaxItems)
      /\ items'[Len(items) + 1] = <<Last, Index>>
  BY <1>1, <1>4, Appended DEF TypeOK, Last
<1>6. /\ page'.left = page.left - 1
      /\ page' \in [left : 0..MaxItems, continue : Tokens \union {NoToken}]
  <2>1. page.left - 1 \in 0..MaxItems
    BY <1>3, PaginationAssumption
  <2>2. page \in [left : 0..MaxItems, continue : Tokens \union {NoToken}]
    BY DEF TypeOK
  <2> QED
    BY <1>1, <2>1, <2>2
<1> QED
  BY <1>1, <1>2, <1>3, <1>5, <1>6

LEMMA PageStep ==
  ASSUME TypeOK, AtHand, [Next]_vars
  PROVE  (TypeOK /\ AtHand)'
<1>1. CASE UNCHANGED vars
  BY <1>1 DEF TypeOK, AtHand, Last, vars
<1>2. ASSUME NEW how \in {"failed", "stopped"}, Finish(how) PROVE (TypeOK /\ AtHand)'
  BY <1>2 DEF TypeOK, AtHand, Last, Finish
<1>3. CASE FetchPage
  <2>1. PICK n \in 0..MaxItems, t \in Tokens \union {NoToken} :
          /\ page' = [left |-> n, continue |-> t]
          /\ pages' \in Seq(0..MaxItems) /\ Last \in Nat /\ Last' = Last + 1
          /\ pages'[Last'] = n
    BY <1>3, FetchStep
  <2>2. /\ fetched' = Append(fetched, token) /\ pc' = "yield"
        /\ UNCHANGED <<start, token, seen_tokens, items, outcome>>
    BY <1>3 DEF FetchPage
  <2>3. fetched' \in Seq(Tokens \union {NoToken})
    BY <2>2, Appended DEF TypeOK
  <2>4. items \in Seq((1..Last') \X (1..MaxItems))
    <3>1. (1..Last) \X (1..MaxItems) \subseteq (1..Last') \X (1..MaxItems)
      BY <2>1
    <3> QED
      BY <3>1, SeqMonotonic DEF TypeOK, Last
  <2>5. AtHand'
    BY <2>1 DEF AtHand
  <2>6. page' \in [left : 0..MaxItems, continue : Tokens \union {NoToken}]
    BY <2>1
  <2> QED
    BY <2>1, <2>2, <2>3, <2>4, <2>5, <2>6 DEF TypeOK, Last
<1>4. CASE YieldItem
  <2>1. /\ Last \in Nat \ {0} /\ pages[Last] \in 0..MaxItems
        /\ items' \in Seq((1..Last) \X (1..MaxItems))
        /\ page'.left = page.left - 1
        /\ page' \in [left : 0..MaxItems, continue : Tokens \union {NoToken}]
        /\ UNCHANGED <<pages, pc, outcome, Last>>
    BY <1>4, YieldStep
  <2>2. UNCHANGED <<start, token, seen_tokens, fetched>> /\ pc = "yield"
        /\ page.left \in 0..MaxItems
    BY <1>4 DEF YieldItem, TypeOK
  <2>3. AtHand'
    BY <2>1, <2>2 DEF AtHand
  <2> QED
    BY <2>1, <2>2, <2>3 DEF TypeOK, Last
<1>5. CASE NextPage
  BY <1>5 DEF TypeOK, AtHand, Last, NextPage
<1> QED
  BY <1>1, <1>2, <1>3, <1>4, <1>5 DEF Next, FetchFails, ConsumerStop

\* Pages, tokens and items have their types throughout.
THEOREM PaginationTypeOK == Spec => []TypeOK
<1>1. Init => TypeOK /\ AtHand
  BY PaginationAssumption, EmptySeq DEF Init, TypeOK, AtHand, Last
<1> QED
  BY <1>1, PageStep, PTL DEF Spec

-----------------------------------------------------------------------------
(***************************************************************************)
(* The tokens                                                              *)
(***************************************************************************)
\* Every token fetched is among the seen ones, except for a first page without
\* one; and the token of the next fetch was not fetched.
TokenInv ==
  /\ NoTokenFetchedTwice
  /\ \A i \in 1..Len(fetched) : fetched[i] \in seen_tokens \union {NoToken}
  /\ pc = "fetch" => /\ token \in seen_tokens \union {NoToken}
                     /\ \A i \in 1..Len(fetched) : fetched[i] # token

LEMMA TokenStep ==
  ASSUME TypeOK, TokenInv, [Next]_vars
  PROVE  TokenInv'
<1>1. CASE UNCHANGED <<fetched, seen_tokens>> /\ pc' # "fetch"
  BY <1>1 DEF TokenInv, NoTokenFetchedTwice
<1>2. CASE UNCHANGED <<fetched, seen_tokens, token, pc>>
  BY <1>2 DEF TokenInv, NoTokenFetchedTwice
<1>3. CASE FetchPage
  <2>1. /\ pc = "fetch" /\ pc' = "yield" /\ fetched' = Append(fetched, token)
        /\ seen_tokens' = seen_tokens
    BY <1>3 DEF FetchPage
  <2>2. /\ Len(fetched) \in Nat /\ Len(fetched') = Len(fetched) + 1
        /\ \A i \in 1..Len(fetched) : fetched'[i] = fetched[i]
        /\ fetched'[Len(fetched) + 1] = token
    BY <2>1, Appended DEF TypeOK
  <2> QED
    BY <2>1, <2>2 DEF TokenInv, NoTokenFetchedTwice
<1>4. CASE NextPage
  <2>1. UNCHANGED fetched
    BY <1>4 DEF NextPage
  <2>2. CASE pc' = "done" /\ UNCHANGED seen_tokens
    BY <2>1, <2>2, <1>1
  <2>3. CASE /\ token' # NoToken /\ token' \notin seen_tokens
             /\ seen_tokens' = seen_tokens \union {token'}
    BY <2>1, <2>3 DEF TokenInv, NoTokenFetchedTwice
  <2> QED
    BY <1>4, <2>2, <2>3 DEF NextPage
<1> QED
  BY <1>1, <1>2, <1>3, <1>4
  DEF Next, vars, FetchFails, ConsumerStop, Finish, YieldItem

\* No page of a list is read twice, whatever tokens the server sends.
THEOREM PaginationNoTokenFetchedTwice == Spec => []NoTokenFetchedTwice
<1>1. Init => TokenInv
  BY DEF Init, TokenInv, NoTokenFetchedTwice
<1>2. TokenInv => NoTokenFetchedTwice
  BY DEF TokenInv
<1> QED
  BY <1>1, <1>2, TokenStep, PaginationTypeOK, PTL DEF Spec

\* So a server with finitely many tokens cannot keep a client fetching: the first
\* page and one for each token, however it chooses the tokens it answers with.
THEOREM PaginationFetchesBounded ==
  ASSUME IsFiniteSet(Tokens)
  PROVE  Spec => [](Len(fetched) <= Cardinality(Tokens) + 1)
<1>1. ASSUME TypeOK, NoTokenFetchedTwice PROVE Len(fetched) <= Cardinality(Tokens) + 1
  <2> DEFINE n == Len(fetched)
             All == Tokens \union {NoToken}
  <2>1. IsFiniteSet(All) /\ Cardinality(All) = Cardinality(Tokens) + 1
    BY PaginationAssumption, FS_AddElement
  <2>2. n \in Nat /\ fetched \in [1..n -> All]
    BY <1>1 DEF TypeOK
  <2>3. IsFiniteSet(1..n) /\ Cardinality(1..n) = n
    BY <2>2, FS_Interval
  <2>4. \A i, j \in 1..n : fetched[i] = fetched[j] => i = j
    BY <1>1 DEF NoTokenFetchedTwice
  <2> HIDE DEF n, All
  <2>5. fetched \in Injection(1..n, All)
    BY <2>2, <2>4 DEF Injection, IsInjective
  <2>6. n <= Cardinality(All)
    BY <2>1, <2>3, <2>5, FS_Injection
  <2> QED
    BY <2>1, <2>6 DEF n
<1> QED
  BY <1>1, PaginationTypeOK, PaginationNoTokenFetchedTwice, PTL

-----------------------------------------------------------------------------
(***************************************************************************)
(* The items                                                               *)
(***************************************************************************)
\* How many items of page p were yielded, while iteration goes on.
Consumed(p) ==
  IF pc = "yield" /\ p = Last THEN pages[p] - page.left ELSE pages[p]

Yielded(p, k) == \E i \in 1..Len(items) : items[i] = <<p, k>>

\* These were yielded, in order, and nothing of the page at hand beyond them.
ItemInv ==
  /\ pc # "done" => outcome = "none"
  /\ outcome \in {"none", "returned", "repeated"} =>
       \A p \in 1..Last : \A k \in 1..Consumed(p) : Yielded(p, k)
  /\ pc = "yield" => \A i \in 1..Len(items) :
                       items[i][1] = Last => items[i][2] <= Consumed(Last)
  /\ ItemsInOrder

\* Each item is of a page that arrived.
LEMMA ItemType ==
  ASSUME TypeOK
  PROVE  /\ Len(items) \in Nat
         /\ \A i \in 1..Len(items) : items[i] \in (1..Last) \X (1..MaxItems)
<1> DEFINE Places == (1..Last) \X (1..MaxItems)
<1>1. items \in Seq(Places)
  BY DEF TypeOK, Last
<1> HIDE DEF Places
<1>2. Len(items) \in Nat /\ \A i \in 1..Len(items) : items[i] \in Places
  BY <1>1, ElementOfSeq, LenProperties
<1> QED
  BY <1>2 DEF Places

\* A fetched page begins unconsumed, behind all the others.
LEMMA ItemFetchStep ==
  ASSUME TypeOK, ItemInv, FetchPage
  PROVE  ItemInv'
<1>1. PICK n \in 0..MaxItems, t \in Tokens \union {NoToken} :
        /\ page' = [left |-> n, continue |-> t]
        /\ Last \in Nat /\ Last' = Last + 1
        /\ \A p \in 1..Last : pages'[p] = pages[p] /\ pages[p] \in 0..MaxItems
        /\ pages'[Last'] = n
  BY FetchStep
<1>2. /\ pc = "fetch" /\ pc' = "yield" /\ UNCHANGED <<items, outcome>>
      /\ outcome = "none" /\ page'.left = n
  BY <1>1 DEF FetchPage, ItemInv
<1>3. ASSUME NEW p \in 1..Last', NEW k \in 1..Consumed(p)' PROVE Yielded(p, k)'
  <2>1. CASE p = Last'
    BY <1>1, <1>2, <1>3, <2>1 DEF Consumed
  <2>2. CASE p # Last'
    <3>1. p \in 1..Last /\ Consumed(p)' = Consumed(p)
      BY <1>1, <1>2, <2>2 DEF Consumed
    <3> QED
      BY <3>1, <1>2, <1>3 DEF ItemInv, Yielded
  <2> QED
    BY <2>1, <2>2
<1>4. \A i \in 1..Len(items') : items'[i][1] # Last'
  BY <1>1, <1>2, ItemType
<1>5. ItemsInOrder'
  BY <1>2 DEF ItemInv, ItemsInOrder, Before
<1> QED
  BY <1>2, <1>3, <1>4, <1>5 DEF ItemInv

\* An item is yielded behind all the others, and closes the gap behind it.
LEMMA ItemYieldStep ==
  ASSUME TypeOK, AtHand, ItemInv, YieldItem
  PROVE  ItemInv'
<1>1. /\ Last \in Nat \ {0} /\ pages[Last] \in 0..MaxItems
      /\ Index \in 1..MaxItems
      /\ Len(items) \in Nat /\ Len(items') = Len(items) + 1
      /\ \A i \in 1..Len(items) :
           items'[i] = items[i] /\ items[i] \in (1..Last) \X (1..MaxItems)
      /\ items'[Len(items) + 1] = <<Last, Index>>
      /\ page'.left = page.left - 1 /\ page.left \in 1..MaxItems
      /\ UNCHANGED <<pages, pc, outcome, Last>> /\ pc = "yield"
  BY YieldStep
<1>2. MaxItems \in Nat
  BY PaginationAssumption
<1>3. Consumed(Last) = Index - 1 /\ Consumed(Last)' = Index
  BY <1>1, <1>2 DEF Consumed, Index
<1>4. \A p \in 1..Last : p # Last => Consumed(p)' = Consumed(p)
  BY <1>1 DEF Consumed
<1>5. outcome = "none"
  BY <1>1 DEF ItemInv
<1>6. ASSUME NEW p \in 1..Last', NEW k \in 1..Consumed(p)' PROVE Yielded(p, k)'
  <2>1. CASE p = Last /\ k = Index
    BY <1>1, <2>1 DEF Yielded
  <2>2. CASE ~(p = Last /\ k = Index)
    <3>1. p \in 1..Last /\ k \in 1..Consumed(p)
      BY <1>1, <1>2, <1>3, <1>4, <1>6, <2>2
    <3>2. PICK i \in 1..Len(items) : items[i] = <<p, k>>
      BY <3>1, <1>5 DEF ItemInv, Yielded
    <3>3. i \in 1..Len(items') /\ items'[i] = <<p, k>>
      BY <3>2, <1>1
    <3> QED
      BY <3>3 DEF Yielded
  <2> QED
    BY <2>1, <2>2
<1>7. \A i \in 1..Len(items) : items[i][1] = Last => items[i][2] < Index
  <2> SUFFICES ASSUME NEW i \in 1..Len(items), items[i][1] = Last
              PROVE  items[i][2] < Index
    OBVIOUS
  <2>1. items[i][2] <= Index - 1 /\ items[i][2] \in 1..MaxItems
    BY <1>1, <1>3 DEF ItemInv
  <2> QED
    BY <2>1, <1>1, <1>2
<1>8. \A i \in 1..Len(items') : items'[i][1] = Last' => items'[i][2] <= Consumed(Last)'
  <2> SUFFICES ASSUME NEW i \in 1..Len(items'), items'[i][1] = Last
              PROVE  items'[i][2] <= Index
    BY <1>1, <1>3
  <2>1. CASE i = Len(items) + 1
    <3>1. items'[i] = <<Last, Index>>
      BY <2>1, <1>1
    <3> QED
      BY <3>1, <1>1, <1>2
  <2>2. CASE i \in 1..Len(items)
    <3>1. items'[i] = items[i] /\ items[i] \in (1..Last) \X (1..MaxItems)
      BY <2>2, <1>1
    <3>2. items[i][1] = Last
      BY <3>1, <1>1
    <3>3. items[i][2] < Index
      BY <2>2, <3>2, <1>7
    <3> QED
      BY <3>1, <3>3, <1>1, <1>2
  <2> QED
    BY <2>1, <2>2, <1>1
<1>9. ItemsInOrder'
  <2> SUFFICES ASSUME NEW i \in 1..Len(items'), NEW j \in 1..Len(items'), i < j
              PROVE  Before(items'[i], items'[j])
    BY DEF ItemsInOrder, Before
  <2>1. CASE j \in 1..Len(items)
    BY <2>1, <1>1 DEF ItemInv, ItemsInOrder
  <2>2. CASE j = Len(items) + 1
    <3>1. i \in 1..Len(items) /\ items'[j] = <<Last, Index>> /\ items'[i] = items[i]
      BY <2>2, <1>1
    <3>2. items[i][1] \in 1..Last
      BY <3>1, <1>1
    <3> QED
      BY <3>1, <3>2, <1>1, <1>7 DEF Before
  <2> QED
    BY <2>1, <2>2, <1>1
<1>10. \A p \in 1..Last' : \A k \in 1..Consumed(p)' : Yielded(p, k)'
  BY <1>6
<1> QED
  BY <1>1, <1>5, <1>8, <1>9, <1>10 DEF ItemInv

\* The page after has the page at hand behind it, consumed.
LEMMA ItemNextStep ==
  ASSUME TypeOK, AtHand, ItemInv, NextPage
  PROVE  ItemInv'
<1>1. /\ pc = "yield" /\ page.left = 0 /\ pc' \in {"done", "fetch"}
      /\ UNCHANGED <<pages, items, Last>> /\ outcome = "none"
      /\ pc' = "fetch" => outcome' = outcome
  BY DEF NextPage, Last, ItemInv
<1>2. Last \in Nat \ {0} /\ pages[Last] \in 0..MaxItems
  <2>1. Last \in Nat \ {0}
    BY <1>1 DEF AtHand
  <2>2. pages \in Seq(0..MaxItems) /\ Last \in 1..Len(pages)
    BY <2>1 DEF TypeOK, Last
  <2> QED
    BY <2>1, <2>2, ElementOfSeq
<1>3. \A p \in 1..Last : Consumed(p)' = Consumed(p)
  BY <1>1, <1>2, PaginationAssumption DEF Consumed
<1>4. \A p \in 1..Last' : \A k \in 1..Consumed(p)' : Yielded(p, k)'
  BY <1>1, <1>3 DEF ItemInv, Yielded
<1>5. ItemsInOrder'
  BY <1>1 DEF ItemInv, ItemsInOrder, Before
<1> QED
  BY <1>1, <1>4, <1>5 DEF ItemInv

LEMMA ItemStep ==
  ASSUME TypeOK, AtHand, ItemInv, [Next]_vars
  PROVE  ItemInv'
<1>1. CASE UNCHANGED vars
  <2>1. UNCHANGED <<page, pages, items, pc, outcome>>
    BY <1>1 DEF vars
  <2>2. /\ Last' = Last
        /\ \A p : Consumed(p)' = Consumed(p)
        /\ \A p, k : Yielded(p, k)' <=> Yielded(p, k)
        /\ ItemsInOrder' <=> ItemsInOrder
    BY <2>1 DEF Last, Consumed, Yielded, ItemsInOrder, Before
  <2> QED
    BY <2>1, <2>2 DEF ItemInv
<1>2. ASSUME NEW how \in {"failed", "stopped"}, Finish(how) PROVE ItemInv'
  BY <1>2 DEF Finish, ItemInv, ItemsInOrder, Before
<1> QED
  BY <1>1, <1>2, ItemFetchStep, ItemYieldStep, ItemNextStep
  DEF Next, FetchFails, ConsumerStop

\* Types and items together are inductive.
THEOREM PaginationInvariant == Spec => [](TypeOK /\ AtHand /\ ItemInv)
<1>1. Init => TypeOK /\ AtHand /\ ItemInv
  BY PaginationAssumption, EmptySeq
  DEF Init, TypeOK, AtHand, Last, ItemInv, ItemsInOrder
<1> QED
  BY <1>1, PageStep, ItemStep, PTL DEF Spec

\* Iteration that ends by itself has yielded every item of every page that
\* arrived, the page with the repeated token included.
THEOREM PaginationEveryItem == Spec => []EveryItemBeforeTheEnd
<1>1. TypeOK /\ ItemInv => EveryItemBeforeTheEnd
  <2> SUFFICES ASSUME TypeOK, ItemInv, outcome \in {"returned", "repeated"}
              PROVE  \A p \in 1..Last : \A k \in 1..pages[p] : Yielded(p, k)
    BY DEF EveryItemBeforeTheEnd, Last, Yielded
  <2>1. pc = "done"
    BY DEF ItemInv, TypeOK
  <2> QED
    BY <2>1 DEF ItemInv, Consumed
<1> QED
  BY <1>1, PaginationInvariant, PTL

\* And yields none twice or before an earlier one.
THEOREM PaginationItemsInOrder == Spec => []ItemsInOrder
<1>1. ItemInv => ItemsInOrder
  BY DEF ItemInv
<1> QED
  BY <1>1, PaginationInvariant, PTL
=============================================================================
