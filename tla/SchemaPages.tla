------------------------------- MODULE SchemaPages -------------------------------
(***************************************************************************)
(* The cache of schema pages.  Readers of a page share one request and the  *)
(* page it brings; each may cancel, the last one that does aborts the        *)
(* request, and the cache may be cleared in between.  A page retains its     *)
(* records in an entity store, where pages share them, and sweeping drops    *)
(* the records that no page retains.                                         *)
(***************************************************************************)
EXTENDS Integers, Sequences, FiniteSets, SequencesExt

CONSTANTS
    Readers,
    Keys,           \* pages: snapshot, collection and cursor
    Records(_),     \* the records of a page
    PageLimit,      \* pages kept (64 in the code), at least one
    MaxRequests,    \* bound: requests
    MaxClears       \* bound: times the cache is cleared

\* The constructor takes no other limit (cached.schema.repo.ts:46-53).
ASSUME PagesAssumption == PageLimit \in Nat \ {0} /\ MaxRequests \in Nat /\ Keys # {}

Requests == 1..MaxRequests

VARIABLES
    pages,      \* the cached pages, [key, request], the least recently used first
    stored,     \* records in the store
    retaining,      \* the requests whose page retains its records
    pending,    \* pending[k]: the request registered for k, or 0
    requests,   \* requests[e]: key, state, aborted, consumers, and clears before it
    readers,    \* readers[r]: the request waited for, or 0
    cleared

vars == <<pages, stored, retaining, pending, requests, readers, cleared>>

Unsent == [key |-> CHOOSE k \in Keys : TRUE, state |-> "unsent", aborted |-> FALSE,
           consumers |-> {}, since |-> 0]
Waiting(r) == readers[r] # 0
Keyed(k) == {i \in 1..Len(pages) : pages[i].key = k}

Init ==
    /\ pages = <<>>
    /\ stored = {}
    /\ retaining = {}
    /\ pending = [k \in Keys |-> 0]
    /\ requests = [e \in Requests |-> Unsent]
    /\ readers = [r \in Readers |-> 0]
    /\ cleared = 0

\* readMembers.  Mutant: a request is joined although it was aborted.
AnyPending(k) == pending[k] # 0
Joinable(k) == pending[k] # 0 /\ ~ requests[pending[k]].aborted

\* A cached page becomes the one that was used last.
Hit(r, k) ==
    /\ ~ Waiting(r)
    /\ \E i \in Keyed(k) : pages' = Append(RemoveAt(pages, i), pages[i])
    /\ UNCHANGED <<stored, retaining, pending, requests, readers, cleared>>

Join(r, k) ==
    /\ ~ Waiting(r)
    /\ Keyed(k) = {}
    /\ Joinable(k)
    /\ requests' = [requests EXCEPT ![pending[k]].consumers = @ \cup {r}]
    /\ readers' = [readers EXCEPT ![r] = pending[k]]
    /\ UNCHANGED <<pages, stored, retaining, pending, cleared>>

Request(r, k, e) ==
    /\ ~ Waiting(r)
    /\ Keyed(k) = {}
    /\ ~ Joinable(k)
    /\ requests[e].state = "unsent" /\ \A d \in 1..(e - 1) : requests[d].state # "unsent"
    /\ requests' = [requests EXCEPT ![e] = [key |-> k, state |-> "reading", aborted |-> FALSE,
                                            consumers |-> {r}, since |-> cleared]]
    /\ pending' = [pending EXCEPT ![k] = e]
    /\ readers' = [readers EXCEPT ![r] = e]
    /\ UNCHANGED <<pages, stored, retaining, cleared>>

\* The page is cached, retains its records, and the oldest pages make room.  Mutant: a page
\* that makes room keeps its records retained.
ReleasedNothing(owners, gone) == owners
Released(owners, gone) == owners \ {page.request : page \in gone}
Swept(records, owners) ==
    {x \in records : \E e \in owners : x \in Records(requests[e].key)}

\* Map.set: a page of the same key is replaced where it is.
WithPage(k, e) ==
    IF Keyed(k) = {} THEN Append(pages, [key |-> k, request |-> e])
    ELSE [i \in 1..Len(pages) |-> IF i \in Keyed(k) THEN [key |-> k, request |-> e] ELSE pages[i]]
Newest(all) ==
    IF Len(all) > PageLimit THEN SubSeq(all, Len(all) - PageLimit + 1, Len(all)) ELSE all

Answer(e) ==
    LET k == requests[e].key IN
    /\ requests[e].state = "reading"
    /\ requests' = [requests EXCEPT ![e].state = "answered"]
    /\ IF requests[e].aborted THEN UNCHANGED <<pages, stored, retaining>>
       ELSE /\ pages' = Newest(WithPage(k, e))
            /\ retaining' = Released(retaining \cup {e}, ToSet(pages) \ ToSet(pages'))
            /\ stored' = Swept(stored \cup Records(k), retaining')
    /\ UNCHANGED <<pending, readers, cleared>>

\* The request fails, as it does after an abort.
Fail(e) ==
    /\ requests[e].state = "reading"
    /\ requests' = [requests EXCEPT ![e].state = "failed"]
    /\ UNCHANGED <<pages, stored, retaining, pending, readers, cleared>>

Finally(e) ==
    /\ requests[e].state \in {"answered", "failed"}
    /\ requests' = [requests EXCEPT ![e].state = IF @ = "answered" THEN "resolved" ELSE "rejected"]
    /\ pending' = [k \in Keys |-> IF pending[k] = e THEN 0 ELSE pending[k]]
    /\ UNCHANGED <<pages, stored, retaining, readers, cleared>>

\* subscribe: the promise settles,
Settle(r) ==
    /\ Waiting(r)
    /\ requests[readers[r]].state \in {"resolved", "rejected"}
    /\ readers' = [readers EXCEPT ![r] = 0]
    /\ requests' = [requests EXCEPT ![readers[r]].consumers = @ \ {r}]
    /\ UNCHANGED <<pages, stored, retaining, pending, cleared>>

\* or the reader cancels, and the last one aborts the request.
Cancel(r) ==
    LET request == requests[readers[r]]
        rest == request.consumers \ {r} IN
    /\ Waiting(r)
    /\ requests' = [requests EXCEPT ![readers[r]] =
          [request EXCEPT !.consumers = rest, !.aborted = request.aborted \/ rest = {}]]
    /\ readers' = [readers EXCEPT ![r] = 0]
    /\ UNCHANGED <<pages, stored, retaining, pending, cleared>>

\* Mutant: clearing leaves the requests that are on their way.
ClearedNone(e) == FALSE
Cleared(e) == e # 0 /\ \E k \in Keys : pending[k] = e
Clear ==
    /\ cleared < MaxClears
    /\ cleared' = cleared + 1
    /\ pages' = <<>>
    /\ retaining' = Released(retaining, ToSet(pages))
    /\ stored' = Swept(stored, retaining')
    /\ requests' = [e \in Requests |->
          IF Cleared(e) THEN [requests[e] EXCEPT !.aborted = TRUE, !.consumers = {}]
          ELSE requests[e]]
    /\ readers' = [r \in Readers |->
          IF Cleared(readers[r]) THEN 0 ELSE readers[r]]
    /\ pending' = [k \in Keys |-> 0]

Next ==
    \/ \E r \in Readers, k \in Keys :
          Hit(r, k) \/ Join(r, k) \/ \E e \in Requests : Request(r, k, e)
    \/ \E e \in Requests : Answer(e) \/ Fail(e) \/ Finally(e)
    \/ \E r \in Readers : Settle(r) \/ Cancel(r)
    \/ Clear

Spec == Init /\ [][Next]_vars

-----------------------------------------------------------------------------
\* A page that is served from the cache is whole: its records are in the store, the store
\* keeps no record that no page needs, and a record that several pages share stays until the
\* last of them goes (cached.schema.repo.ts:117-154, 191-194, 207-217).
PagesAreWhole ==
    /\ stored = UNION {Records(page.key) : page \in ToSet(pages)}
    /\ Len(pages) <= PageLimit

\* What is cached was asked for after the last clear: no page of the schema that was left
\* comes back (cached.schema.repo.ts:116, 196-200).
CacheIsFresh ==
    \A page \in ToSet(pages) : requests[page.request].since = cleared

\* Readers do not disturb each other: who waits waits for a request that nobody aborted, and
\* a page is never asked for twice at once (cached.schema.repo.ts:106-112, 247-258).
ReadersAreApart ==
    /\ \A r \in Readers : Waiting(r) =>
          ~ requests[readers[r]].aborted /\ r \in requests[readers[r]].consumers
    /\ \A d, e \in Requests : requests[d].state = "reading" /\ requests[e].state = "reading"
          /\ ~ requests[d].aborted /\ ~ requests[e].aborted /\ requests[d].key = requests[e].key
          => d = e

\* The shared pages keep all three promises.
PagesShared == PagesAreWhole /\ CacheIsFresh /\ ReadersAreApart
=============================================================================
