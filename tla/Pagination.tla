----------------------------- MODULE Pagination -----------------------------
(***************************************************************************)
(* iter_pages and iter_items (pagination.py) and their asynchronous twins: *)
(* follow continuation tokens from page to page until an empty one.        *)
(*                                                                         *)
(* The server answers every fetch as it likes: a page of some items and    *)
(* any token, so also one it has sent before.  fetch_page may fail.        *)
(***************************************************************************)
EXTENDS Naturals, Sequences, FiniteSets

CONSTANTS
  Tokens,    \* continuation tokens
  NoToken,   \* None and "", which the code does not tell apart
  MaxItems   \* bound: items of one page

ASSUME PaginationAssumption == NoToken \notin Tokens /\ MaxItems \in Nat

VARIABLES
  start,       \* the continue_token argument
  token,       \* the local of that name
  seen_tokens, \* the local of that name
  fetched,     \* tokens fetched, in order
  page,        \* the page being consumed: items left, and its token
  pages,       \* how many items each page that arrived holds
  items,       \* items yielded, as <<page, index>>
  pc,          \* "fetch", "yield", "done"
  outcome      \* "returned", "repeated", "failed", "stopped"

vars == <<start, token, seen_tokens, fetched, page, pages, items, pc, outcome>>

\* A mistake: the token the caller passed is not counted as seen.
InitForgetsStart ==
  /\ start \in Tokens \union {NoToken} /\ token = start
  /\ seen_tokens = {}
  /\ fetched = <<>> /\ pages = <<>> /\ items = <<>>
  /\ page = [left |-> 0, continue |-> NoToken]
  /\ pc = "fetch" /\ outcome = "none"

Init ==
  /\ start \in Tokens \union {NoToken} /\ token = start
  /\ seen_tokens = {start} \ {NoToken}
  /\ fetched = <<>> /\ pages = <<>> /\ items = <<>>
  /\ page = [left |-> 0, continue |-> NoToken]
  /\ pc = "fetch" /\ outcome = "none"

Finish(how) ==
  /\ pc' = "done" /\ outcome' = how
  /\ UNCHANGED <<start, token, seen_tokens, fetched, page, pages, items>>

FetchPage ==
  /\ pc = "fetch" /\ pc' = "yield"
  /\ fetched' = Append(fetched, token)
  /\ \E n \in 0..MaxItems, t \in Tokens \union {NoToken} :
       /\ page' = [left |-> n, continue |-> t]
       /\ pages' = Append(pages, n)
  /\ UNCHANGED <<start, token, seen_tokens, items, outcome>>

\* APIError, a TransportError or a validation error of fetch_page.
FetchFails == pc = "fetch" /\ Finish("failed")

\* A mistake: the items of a page come out last first.
YieldItemFromTheEnd ==
  /\ pc = "yield" /\ page.left > 0
  /\ page' = [page EXCEPT !.left = @ - 1]
  /\ items' = Append(items, <<Len(pages), page.left>>)
  /\ UNCHANGED <<start, token, seen_tokens, fetched, pages, pc, outcome>>

\* iter_items yields the items of the page it holds before it asks for more.
YieldItem ==
  /\ pc = "yield" /\ page.left > 0
  /\ page' = [page EXCEPT !.left = @ - 1]
  /\ items' = Append(items, <<Len(pages), pages[Len(pages)] - page.left + 1>>)
  /\ UNCHANGED <<start, token, seen_tokens, fetched, pages, pc, outcome>>

\* Mistakes: the next token is looked at before the page was consumed, or the
\* empty token is taken for one.
NextPageBeforeItems ==
  /\ pc = "yield"
  /\ token' = page.continue
  /\ \/ /\ token' = NoToken \/ token' \in seen_tokens
        /\ pc' = "done" /\ outcome' = "repeated" /\ UNCHANGED seen_tokens
     \/ /\ token' # NoToken /\ token' \notin seen_tokens
        /\ seen_tokens' = seen_tokens \union {token'}
        /\ pc' = "fetch" /\ UNCHANGED outcome
  /\ UNCHANGED <<start, fetched, page, pages, items>>

NextPageEmptyToken ==
  /\ pc = "yield" /\ page.left = 0
  /\ token' = page.continue
  /\ \/ /\ token' \in seen_tokens
        /\ pc' = "done" /\ outcome' = "repeated" /\ UNCHANGED seen_tokens
     \/ /\ token' \notin seen_tokens
        /\ seen_tokens' = seen_tokens \union {token'}
        /\ pc' = "fetch" /\ UNCHANGED outcome
  /\ UNCHANGED <<start, fetched, page, pages, items>>

\* Back in iter_pages after the page was consumed.
NextPage ==
  /\ pc = "yield" /\ page.left = 0
  /\ token' = page.continue
  /\ \/ /\ token' = NoToken
        /\ pc' = "done" /\ outcome' = "returned" /\ UNCHANGED seen_tokens
     \/ /\ token' \in seen_tokens
        /\ pc' = "done" /\ outcome' = "repeated" /\ UNCHANGED seen_tokens
     \/ /\ token' # NoToken /\ token' \notin seen_tokens
        /\ seen_tokens' = seen_tokens \union {token'}
        /\ pc' = "fetch" /\ UNCHANGED outcome
  /\ UNCHANGED <<start, fetched, page, pages, items>>

ConsumerStop == pc # "done" /\ Finish("stopped")

Next == FetchPage \/ FetchFails \/ YieldItem \/ NextPage \/ ConsumerStop

Spec == Init /\ [][Next]_vars

-----------------------------------------------------------------------------
TypeOK ==
  /\ {start, token} \subseteq Tokens \union {NoToken}
  /\ seen_tokens \subseteq Tokens
  /\ fetched \in Seq(Tokens \union {NoToken})
  /\ page \in [left : 0..MaxItems, continue : Tokens \union {NoToken}]
  /\ pages \in Seq(0..MaxItems) /\ items \in Seq((1..Len(pages)) \X (1..MaxItems))
  /\ pc \in {"fetch", "yield", "done"}
  /\ outcome \in {"none", "returned", "repeated", "failed", "stopped"}

\* Whatever tokens the server sends, none is fetched twice: a list that was
\* read is not read again.
NoTokenFetchedTwice ==
  \A i, j \in 1..Len(fetched) : i # j => fetched[i] # fetched[j]

\* Nothing a fetched page holds is lost when iteration ends by itself: with the
\* last page, or with the error for a repeated token.
EveryItemBeforeTheEnd ==
  outcome \in {"returned", "repeated"} =>
    \A p \in 1..Len(pages) : \A k \in 1..pages[p] :
      \E i \in 1..Len(items) : items[i] = <<p, k>>

Before(a, b) == a[1] < b[1] \/ (a[1] = b[1] /\ a[2] < b[2])

\* And nothing is yielded twice or out of order.
ItemsInOrder ==
  \A i, j \in 1..Len(items) : i < j => Before(items[i], items[j])
=============================================================================
