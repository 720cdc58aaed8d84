--------------------------- MODULE EditorCacheProofs ---------------------------
(***************************************************************************)
(* Proofs about SchemaPages and EntityStore: for any readers, pages,        *)
(* records and bounds, and any limit the constructor takes; and for any     *)
(* entities, payloads, patches, layers and subscribers.                     *)
(***************************************************************************)
EXTENDS SchemaPages, EntityStore, SequenceTheorems, TLAPS

-----------------------------------------------------------------------------
(* The inductive invariant *)

Page == [key : Keys, request : Requests]
States == {"unsent", "reading", "answered", "failed", "resolved", "rejected"}
RequestRecords ==
    [key : Keys, state : States, aborted : BOOLEAN, consumers : SUBSET Readers, since : Nat]

Typed ==
    /\ pages \in Seq(Page) /\ Len(pages) <= PageLimit
    /\ retaining \subseteq Requests
    /\ pending \in [Keys -> Requests \cup {0}]
    /\ requests \in [Requests -> RequestRecords]
    /\ readers \in [Readers -> Requests \cup {0}]
    /\ cleared \in Nat

\* Pages and what retains records are the same: what an answer that was asked for after the
\* last clear has brought.
PageOf(e) == [key |-> requests[e].key, request |-> e]
PagesAreRoots ==
    /\ \A page \in ToSet(pages) :
          /\ page.request \in retaining /\ page = PageOf(page.request)
          /\ requests[page.request].state \notin {"unsent", "reading"}
          /\ requests[page.request].since = cleared
    /\ \A e \in retaining : PageOf(e) \in ToSet(pages)

StoredIsRooted == stored = UNION {Records(requests[e].key) : e \in retaining}

\* A request that may still be joined is the one that is registered for its page.
OnItsWay(e) == requests[e].state \in {"reading", "answered", "failed"}
Registered ==
    /\ \A k \in Keys : pending[k] # 0 => requests[pending[k]].key = k /\ OnItsWay(pending[k])
    /\ \A e \in Requests : OnItsWay(e) /\ ~ requests[e].aborted =>
          pending[requests[e].key] = e
    /\ \A e \in Requests : requests[e].state = "reading" /\ ~ requests[e].aborted =>
          requests[e].since = cleared

ReadersWait ==
    \A r \in Readers : Waiting(r) =>
        /\ ~ requests[readers[r]].aborted
        /\ r \in requests[readers[r]].consumers
        /\ requests[readers[r]].state # "unsent"

IInv == Typed /\ PagesAreRoots /\ StoredIsRooted /\ Registered /\ ReadersWait

\* It says what is promised.
LEMMA InvariantSuffices ==
    ASSUME IInv
    PROVE  PagesShared
<1>1. stored = UNION {Records(page.key) : page \in ToSet(pages)}
  <2>1. \A e \in retaining : \E page \in ToSet(pages) : page.key = requests[e].key
    BY DEF IInv, PagesAreRoots, PageOf
  <2>2. \A page \in ToSet(pages) : page.request \in retaining /\ page.key = requests[page.request].key
    BY DEF IInv, PagesAreRoots, PageOf
  <2> QED
    BY <2>1, <2>2 DEF IInv, StoredIsRooted
<1>2. CacheIsFresh
  BY DEF IInv, PagesAreRoots, CacheIsFresh
<1>3. \A d, e \in Requests : requests[d].state = "reading" /\ requests[e].state = "reading"
          /\ ~ requests[d].aborted /\ ~ requests[e].aborted /\ requests[d].key = requests[e].key
          => d = e
  BY DEF IInv, Registered, OnItsWay
<1> QED
  BY <1>1, <1>2, <1>3 DEF PagesShared, PagesAreWhole, ReadersAreApart, IInv, Typed, ReadersWait

-----------------------------------------------------------------------------
(* Sequences of pages *)

\* The page that was used goes to the end; no page comes or goes.
LEMMA MovedLast ==
    ASSUME NEW S, NEW s \in Seq(S), NEW i \in 1..Len(s)
    PROVE  /\ Append(RemoveAt(s, i), s[i]) \in Seq(S)
           /\ Len(Append(RemoveAt(s, i), s[i])) = Len(s)
           /\ ToSet(Append(RemoveAt(s, i), s[i])) = ToSet(s)
<1> DEFINE u == RemoveAt(s, i)
           t == Append(u, s[i])
<1>0. Len(s) \in Nat /\ Len(s) >= 1 /\ i \in Nat /\ 1 <= i /\ i <= Len(s)
  OBVIOUS
<1>1. /\ u \in Seq(S) /\ Len(u) = Len(s) - 1
      /\ \A j \in 1..Len(u) : u[j] = IF j < i THEN s[j] ELSE s[j + 1]
  <2> DEFINE a == SubSeq(s, 1, i - 1)
             b == SubSeq(s, i + 1, Len(s))
  <2>1. a \in Seq(S) /\ Len(a) = i - 1 /\ \A j \in 1..(i - 1) : a[j] = s[j]
    BY <1>0
  <2>2. b \in Seq(S) /\ Len(b) = Len(s) - i /\ \A j \in 1..(Len(s) - i) : b[j] = s[j + i]
    BY <1>0
  <2>3. u = a \o b
    BY DEF RemoveAt
  <2> HIDE DEF a, b, u
  <2>4. u \in Seq(S) /\ Len(u) = Len(s) - 1
    <3>1. a \o b \in Seq(S) /\ Len(a \o b) = Len(a) + Len(b)
      BY <2>1, <2>2, ConcatProperties
    <3>2. Len(a) + Len(b) = Len(s) - 1
      BY <2>1, <2>2, <1>0
    <3> QED
      BY <3>1, <3>2, <2>3
  <2>5. ASSUME NEW j \in 1..Len(u)
        PROVE  u[j] = IF j < i THEN s[j] ELSE s[j + 1]
    <3>1. u[j] = IF j <= Len(a) THEN a[j] ELSE b[j - Len(a)]
      BY <2>1, <2>2, <2>3, <2>4, <1>0, ConcatProperties
    <3>2. CASE j <= i - 1
      BY <3>1, <3>2, <2>1, <1>0
    <3>3. CASE j > i - 1
      <4>1. j - (i - 1) \in 1..(Len(s) - i) /\ j - (i - 1) + i = j + 1
        BY <3>3, <2>4, <1>0
      <4> QED
        BY <4>1, <3>1, <3>3, <2>1, <2>2, <1>0
    <3> QED
      BY <3>2, <3>3, <2>4, <1>0
  <2> QED
    BY <2>4, <2>5
<1> HIDE DEF u
<1>3. t \in Seq(S) /\ Len(t) = Len(s)
  BY <1>1
<1>4. \A j \in 1..Len(t) : t[j] = IF j < i THEN s[j] ELSE IF j < Len(s) THEN s[j + 1] ELSE s[i]
  BY <1>0, <1>1, <1>3
<1> HIDE DEF t
<1>5. ASSUME NEW j \in 1..Len(s)
      PROVE  \E m \in 1..Len(t) : t[m] = s[j]
  <2>1. CASE j < i
    BY <2>1, <1>3, <1>4
  <2>2. CASE j = i
    BY <2>2, <1>3, <1>4
  <2>3. CASE j > i
    <3>1. j - 1 \in 1..Len(t) /\ t[j - 1] = s[j]
      BY <2>3, <1>3, <1>4
    <3> QED
      BY <3>1
  <2> QED
    BY <2>1, <2>2, <2>3
<1>6. ASSUME NEW m \in 1..Len(t)
      PROVE  \E j \in 1..Len(s) : t[m] = s[j]
  BY <1>3, <1>4
<1>7. DOMAIN s = 1..Len(s) /\ DOMAIN t = 1..Len(t)
  BY <1>3
<1>8. ToSet(t) = ToSet(s)
  BY <1>5, <1>6, <1>7 DEF ToSet
<1> QED
  BY <1>3, <1>8 DEF t, u

\* What stays of the pages is within the limit, has the last of them, and is all of them when
\* they are within it.
LEMMA NewestStay ==
    ASSUME NEW S, NEW s \in Seq(S)
    PROVE  /\ Newest(s) \in Seq(S) /\ Len(Newest(s)) <= PageLimit
           /\ ToSet(Newest(s)) \subseteq ToSet(s)
           /\ Len(s) <= PageLimit => Newest(s) = s
           /\ Len(s) > 0 => s[Len(s)] \in ToSet(Newest(s))
<1> DEFINE d == Len(s) - PageLimit
<1>0. PageLimit \in Nat /\ PageLimit >= 1 /\ Len(s) \in Nat
  BY PagesAssumption
<1>1. CASE Len(s) <= PageLimit
  <2>1. Newest(s) = s
    BY <1>1, <1>0 DEF Newest
  <2>2. Len(s) > 0 => s[Len(s)] \in ToSet(s)
    <3>1. Len(s) > 0 => Len(s) \in DOMAIN s
      BY <1>0
    <3> QED
      BY <3>1 DEF ToSet
  <2> QED
    BY <1>1, <2>1, <2>2
<1>2. CASE Len(s) > PageLimit
  <2> DEFINE n == SubSeq(s, d + 1, Len(s))
  <2>1. Newest(s) = n
    BY <1>2 DEF Newest
  <2>2. n \in Seq(S) /\ Len(n) = PageLimit /\ \A j \in 1..PageLimit : n[j] = s[j + d]
    BY <1>0, <1>2
  <2>3. DOMAIN n = 1..PageLimit /\ DOMAIN s = 1..Len(s)
    BY <2>2, <1>0
  <2> HIDE DEF n
  <2>4. ToSet(n) \subseteq ToSet(s)
    BY <2>2, <2>3, <1>0, <1>2 DEF ToSet
  <2>5. n[PageLimit] = s[Len(s)] /\ PageLimit \in DOMAIN n
    BY <2>2, <2>3, <1>0, <1>2
  <2>6. s[Len(s)] \in ToSet(n)
    BY <2>5 DEF ToSet
  <2> QED
    BY <2>1, <2>2, <2>4, <2>6, <1>0, <1>2
<1> QED
  BY <1>0, <1>1, <1>2

-----------------------------------------------------------------------------
(* The steps *)

LEMMA FirstPages ==
    ASSUME Init
    PROVE  IInv
<1>1. Unsent \in RequestRecords /\ Unsent.state = "unsent"
  BY PagesAssumption DEF Unsent, RequestRecords, States
<1>2. Typed
  BY <1>1, PagesAssumption DEF Init, Typed
<1>3. ToSet(pages) = {}
  BY DEF Init, ToSet
<1>4. PagesAreRoots /\ StoredIsRooted
  BY <1>3 DEF Init, PagesAreRoots, StoredIsRooted
<1>5. Registered
  BY <1>1 DEF Init, Registered, OnItsWay
<1>6. ReadersWait
  BY DEF Init, ReadersWait, Waiting
<1> QED
  BY <1>2, <1>4, <1>5, <1>6 DEF IInv

\* A request whose page is cached stays what it is, but for its state and its consumers.
Settled(e) == requests[e].state \notin {"unsent", "reading"}
LEMMA PagesStay ==
    ASSUME IInv, UNCHANGED <<pages, stored, retaining, cleared>>,
           \A e \in Requests : Settled(e) =>
               /\ requests'[e].state \notin {"unsent", "reading"}
               /\ requests'[e].key = requests[e].key /\ requests'[e].since = requests[e].since
    PROVE  PagesAreRoots' /\ StoredIsRooted'
<1>1. \A e \in retaining : e \in Requests /\ Settled(e)
  BY DEF IInv, Typed, PagesAreRoots, PageOf, Settled
<1>2. \A e \in retaining : requests'[e].key = requests[e].key
  BY <1>1
<1>3. PagesAreRoots'
  BY <1>1, <1>2 DEF IInv, PagesAreRoots, PageOf
<1>4. StoredIsRooted'
  BY <1>2 DEF IInv, StoredIsRooted
<1> QED
  BY <1>3, <1>4

\* A cached page serves a reader.
LEMMA HitKeeps ==
    ASSUME IInv, NEW r \in Readers, NEW k \in Keys, Hit(r, k)
    PROVE  IInv'
<1>1. PICK i \in Keyed(k) : pages' = Append(RemoveAt(pages, i), pages[i])
  BY DEF Hit
<1>2. pages \in Seq(Page) /\ i \in 1..Len(pages)
  BY DEF IInv, Typed, Keyed
<1>3. pages' \in Seq(Page) /\ Len(pages') = Len(pages) /\ ToSet(pages') = ToSet(pages)
  BY <1>1, <1>2, MovedLast
<1>4. UNCHANGED <<stored, retaining, pending, requests, readers, cleared>>
  BY DEF Hit
<1>5. Typed'
  BY <1>3, <1>4 DEF IInv, Typed
<1>6. PagesAreRoots' /\ StoredIsRooted'
  BY <1>3, <1>4 DEF IInv, PagesAreRoots, StoredIsRooted, PageOf
<1>7. Registered' /\ ReadersWait'
  BY <1>4 DEF IInv, Registered, ReadersWait, OnItsWay, Waiting
<1> QED
  BY <1>5, <1>6, <1>7 DEF IInv

\* A reader joins the request that is on its way.
LEMMA JoinKeeps ==
    ASSUME IInv, NEW r \in Readers, NEW k \in Keys, Join(r, k)
    PROVE  IInv'
<1> DEFINE e == pending[k]
<1>1. e \in Requests /\ e # 0 /\ ~ requests[e].aborted /\ OnItsWay(e)
  BY DEF Join, Joinable, IInv, Typed, Registered
<1>2. UNCHANGED <<pages, stored, retaining, pending, cleared>>
      /\ readers' = [readers EXCEPT ![r] = e]
      /\ requests' = [requests EXCEPT ![e].consumers = @ \cup {r}]
  BY DEF Join
<1> HIDE DEF e
<1>3. \A d \in Requests :
          /\ requests'[d].key = requests[d].key /\ requests'[d].state = requests[d].state
          /\ requests'[d].aborted = requests[d].aborted
          /\ requests'[d].since = requests[d].since
          /\ requests'[d].consumers = requests[d].consumers \cup (IF d = e THEN {r} ELSE {})
  BY <1>1, <1>2 DEF IInv, Typed, RequestRecords
<1>4. Typed'
  BY <1>1, <1>2 DEF IInv, Typed, RequestRecords
<1>5. PagesAreRoots' /\ StoredIsRooted'
  BY <1>2, <1>3, PagesStay DEF Settled
<1>6. Registered'
  BY <1>2, <1>3 DEF IInv, Typed, Registered, OnItsWay
<1>7. ReadersWait'
  <2> SUFFICES ASSUME NEW q \in Readers, Waiting(q)'
               PROVE  /\ ~ requests'[readers'[q]].aborted
                      /\ q \in requests'[readers'[q]].consumers
                      /\ requests'[readers'[q]].state # "unsent"
    BY DEF ReadersWait
  <2>1. CASE q = r
    BY <2>1, <1>1, <1>2, <1>3 DEF IInv, Typed, OnItsWay
  <2>2. CASE q # r
    <3>1. readers'[q] = readers[q] /\ readers[q] \in Requests /\ Waiting(q)
      BY <2>2, <1>2 DEF IInv, Typed, Waiting
    <3> QED
      BY <3>1, <1>3 DEF IInv, ReadersWait
  <2> QED
    BY <2>1, <2>2
<1> QED
  BY <1>4, <1>5, <1>6, <1>7 DEF IInv

\* A reader asks: no request for the page is on its way but those that were aborted.
LEMMA RequestKeeps ==
    ASSUME IInv, NEW r \in Readers, NEW k \in Keys, NEW e \in Requests, Request(r, k, e)
    PROVE  IInv'
<1> DEFINE fresh == [key |-> k, state |-> "reading", aborted |-> FALSE,
                     consumers |-> {r}, since |-> cleared]
<1>1. UNCHANGED <<pages, stored, retaining, cleared>>
      /\ requests' = [requests EXCEPT ![e] = fresh]
      /\ pending' = [pending EXCEPT ![k] = e] /\ readers' = [readers EXCEPT ![r] = e]
      /\ requests[e].state = "unsent" /\ ~ Joinable(k)
  BY DEF Request
<1>2. fresh \in RequestRecords
  BY DEF IInv, Typed, RequestRecords, States
<1>3. requests'[e] = fresh /\ \A d \in Requests : d # e => requests'[d] = requests[d]
  BY <1>1 DEF IInv, Typed
<1>4. Typed'
  BY <1>1, <1>2 DEF IInv, Typed
<1>5. PagesAreRoots' /\ StoredIsRooted'
  BY <1>1, <1>3, PagesStay DEF Settled
<1>6. Registered'
  <2>1. \A j \in Keys : pending[j] # e
    BY <1>1 DEF IInv, Registered, OnItsWay, Typed, Requests
  <2>2. ASSUME NEW j \in Keys, pending'[j] # 0
        PROVE  requests'[pending'[j]].key = j /\ OnItsWay(pending[j])'
    <3>1. CASE j = k
      BY <3>1, <1>1, <1>3 DEF OnItsWay, IInv, Typed
    <3>2. CASE j # k
      <4>1. pending'[j] = pending[j] /\ pending[j] \in Requests /\ pending[j] # e
        BY <3>2, <2>1, <2>2, <1>1 DEF IInv, Typed
      <4> QED
        BY <4>1, <2>2, <1>3 DEF IInv, Registered, OnItsWay
    <3> QED
      BY <3>1, <3>2
  <2>3. ASSUME NEW d \in Requests, OnItsWay(d)', ~ requests'[d].aborted
        PROVE  pending'[requests'[d].key] = d
    <3>1. CASE d = e
      BY <3>1, <1>1, <1>3 DEF IInv, Typed
    <3>2. CASE d # e
      <4>1. OnItsWay(d) /\ ~ requests[d].aborted /\ requests'[d] = requests[d]
        BY <3>2, <2>3, <1>3 DEF OnItsWay
      <4>2. pending[requests[d].key] = d /\ requests[d].key \in Keys /\ d # 0
        BY <4>1 DEF IInv, Registered, Typed, RequestRecords, Requests
      <4>3. requests[d].key # k
        BY <4>1, <4>2, <1>1 DEF Joinable
      <4> QED
        BY <4>1, <4>2, <4>3, <1>1 DEF IInv, Typed
    <3> QED
      BY <3>1, <3>2
  <2>4. ASSUME NEW d \in Requests, requests'[d].state = "reading", ~ requests'[d].aborted
        PROVE  requests'[d].since = cleared'
    BY <2>4, <1>1, <1>3 DEF IInv, Registered
  <2> QED
    BY <2>2, <2>3, <2>4 DEF Registered
<1>7. ReadersWait'
  <2> SUFFICES ASSUME NEW q \in Readers, Waiting(q)'
               PROVE  /\ ~ requests'[readers'[q]].aborted
                      /\ q \in requests'[readers'[q]].consumers
                      /\ requests'[readers'[q]].state # "unsent"
    BY DEF ReadersWait
  <2>1. CASE q = r
    BY <2>1, <1>1, <1>3 DEF IInv, Typed
  <2>2. CASE q # r
    <3>1. readers'[q] = readers[q] /\ readers[q] \in Requests /\ Waiting(q)
      BY <2>2, <1>1 DEF IInv, Typed, Waiting
    <3>2. readers[q] # e
      BY <3>1, <1>1 DEF IInv, ReadersWait
    <3> QED
      BY <3>1, <3>2, <1>3 DEF IInv, ReadersWait
  <2> QED
    BY <2>1, <2>2
<1> QED
  BY <1>4, <1>5, <1>6, <1>7 DEF IInv

\* What changes only the state of a request that somebody waits for, onwards, and lets go of
\* its registration once it is over, keeps what is said of requests and readers.
LEMMA MovingOnKeeps ==
    ASSUME IInv, NEW e \in Requests, NEW state \in States \ {"unsent", "reading"},
           requests[e].state # "unsent",
           requests' = [requests EXCEPT ![e].state = state],
           \/ UNCHANGED pending /\ state \in {"answered", "failed"} /\ OnItsWay(e)
           \/ /\ pending' = [k \in Keys |-> IF pending[k] = e THEN 0 ELSE pending[k]]
              /\ state \in {"resolved", "rejected"},
           UNCHANGED <<readers, cleared>>
    PROVE  Registered' /\ ReadersWait' /\ requests' \in [Requests -> RequestRecords]
<1>1. \A d \in Requests :
          /\ requests'[d].key = requests[d].key /\ requests'[d].aborted = requests[d].aborted
          /\ requests'[d].consumers = requests[d].consumers
          /\ requests'[d].since = requests[d].since
          /\ requests'[d].state = IF d = e THEN state ELSE requests[d].state
  BY DEF IInv, Typed, RequestRecords
<1>2. requests' \in [Requests -> RequestRecords]
  BY DEF IInv, Typed, RequestRecords
<1>3. Registered'
  <2>1. CASE UNCHANGED pending /\ state \in {"answered", "failed"} /\ OnItsWay(e)
    BY <2>1, <1>1 DEF IInv, Typed, Registered, OnItsWay
  <2>2. CASE /\ pending' = [k \in Keys |-> IF pending[k] = e THEN 0 ELSE pending[k]]
             /\ state \in {"resolved", "rejected"}
    <3>1. ASSUME NEW k \in Keys, pending'[k] # 0
          PROVE  requests'[pending'[k]].key = k /\ OnItsWay(pending[k])'
      <4>1. pending'[k] = pending[k] /\ pending[k] \in Requests /\ pending[k] # e
        BY <2>2, <3>1 DEF IInv, Typed
      <4> QED
        BY <4>1, <3>1, <1>1 DEF IInv, Registered, OnItsWay
    <3>2. ASSUME NEW d \in Requests, OnItsWay(d)', ~ requests'[d].aborted
          PROVE  pending'[requests'[d].key] = d
      <4>1. d # e /\ OnItsWay(d) /\ ~ requests[d].aborted
        BY <2>2, <3>2, <1>1 DEF OnItsWay
      <4> QED
        BY <4>1, <2>2, <1>1 DEF IInv, Typed, RequestRecords, Registered
    <3>3. ASSUME NEW d \in Requests, requests'[d].state = "reading", ~ requests'[d].aborted
          PROVE  requests'[d].since = cleared'
      BY <3>3, <1>1 DEF IInv, Registered
    <3> QED
      BY <3>1, <3>2, <3>3 DEF Registered
  <2> QED
    BY <2>1, <2>2
<1>4. ReadersWait'
  BY <1>1 DEF IInv, Typed, ReadersWait, Waiting, States
<1> QED
  BY <1>2, <1>3, <1>4

\* A page arrives: it and what stays of the others are what is retained.
LEMMA PageIsKept ==
    ASSUME IInv, NEW e \in Requests, Answer(e), ~ requests[e].aborted
    PROVE  /\ pages' \in Seq(Page) /\ Len(pages') <= PageLimit /\ retaining' \subseteq Requests
           /\ PagesAreRoots' /\ StoredIsRooted'
<1> DEFINE k == requests[e].key
           new == PageOf(e)
           known == WithPage(k, e)
           gone == ToSet(pages) \ ToSet(pages')
<1>1. /\ pages' = Newest(known) /\ retaining' = Released(retaining \cup {e}, gone)
      /\ stored' = Swept(stored \cup Records(k), retaining')
      /\ requests' = [requests EXCEPT ![e].state = "answered"]
      /\ requests[e].state = "reading" /\ UNCHANGED <<cleared>>
  BY DEF Answer
<1>2. k \in Keys /\ new \in Page /\ new = [key |-> k, request |-> e] /\ new.request = e
  BY DEF IInv, Typed, RequestRecords, PageOf, Page
<1>3. pages \in Seq(Page) /\ Len(pages) \in Nat /\ Len(pages) <= PageLimit
  BY DEF IInv, Typed
<1>4. e \notin retaining
  BY <1>1 DEF IInv, PagesAreRoots, PageOf
<1>5. known \in Seq(Page) /\ ToSet(known) \subseteq ToSet(pages) \cup {new}
      /\ new \in ToSet(Newest(known))
  <2>1. CASE Keyed(k) = {}
    <3>1. known = Append(pages, new)
      BY <2>1, <1>2 DEF WithPage
    <3>2. known \in Seq(Page) /\ Len(known) = Len(pages) + 1 /\ known[Len(known)] = new
          /\ \A i \in 1..Len(pages) : known[i] = pages[i]
      BY <3>1, <1>2, <1>3
    <3>3. ToSet(known) \subseteq ToSet(pages) \cup {new}
      BY <3>2, <1>3 DEF ToSet
    <3>4. new \in ToSet(Newest(known))
      BY <3>2, <1>3, NewestStay
    <3> QED
      BY <3>2, <3>3, <3>4
  <2>2. CASE Keyed(k) # {}
    <3>1. known = [i \in 1..Len(pages) |-> IF i \in Keyed(k) THEN new ELSE pages[i]]
      BY <2>2, <1>2 DEF WithPage
    <3>2. known \in Seq(Page) /\ Len(known) = Len(pages) /\ DOMAIN known = 1..Len(pages)
      BY <3>1, <1>2, <1>3
    <3>3. ToSet(known) \subseteq ToSet(pages) \cup {new}
      BY <3>1, <1>3 DEF ToSet
    <3>4. PICK i \in 1..Len(pages) : i \in Keyed(k)
      BY <2>2 DEF Keyed
    <3>5. new \in ToSet(known)
      BY <3>1, <3>2, <3>4 DEF ToSet
    <3> QED
      BY <3>2, <3>3, <3>5, <1>3, NewestStay
  <2> QED
    BY <2>1, <2>2
<1>6. pages' \in Seq(Page) /\ Len(pages') <= PageLimit /\ new \in ToSet(pages')
      /\ ToSet(pages') \subseteq ToSet(pages) \cup {new}
  BY <1>1, <1>5, NewestStay
<1> HIDE DEF k, new, known
<1>7. \A d \in Requests : requests'[d].key = requests[d].key
          /\ requests'[d].since = requests[d].since
          /\ requests'[d].state = IF d = e THEN "answered" ELSE requests[d].state
  BY <1>1 DEF IInv, Typed, RequestRecords
<1>8. \A d \in Requests : PageOf(d)' = PageOf(d)
  BY <1>7 DEF PageOf
<1>9. \A page \in ToSet(pages) : page.request \in retaining /\ page = PageOf(page.request)
          /\ page.request \in Requests /\ page.request # e
  BY <1>4 DEF IInv, PagesAreRoots, Typed
<1>10. \A d \in retaining' : d \in Requests /\ PageOf(d) \in ToSet(pages')
  <2> SUFFICES ASSUME NEW d \in retaining'
               PROVE  d \in Requests /\ PageOf(d) \in ToSet(pages')
    OBVIOUS
  <2>1. CASE d = e
    BY <2>1, <1>6 DEF new
  <2>2. CASE d # e
    <3>1. d \in retaining /\ \A page \in gone : page.request # d
      BY <2>2, <1>1 DEF Released
    <3>2. d \in Requests /\ PageOf(d) \in ToSet(pages) /\ PageOf(d).request = d
      BY <3>1 DEF IInv, Typed, PagesAreRoots, PageOf
    <3> QED
      BY <3>1, <3>2
  <2> QED
    BY <2>1, <2>2
<1>11. \A page \in ToSet(pages') : page.request \in retaining' /\ page.request \in Requests
           /\ page = PageOf(page.request)
  <2> SUFFICES ASSUME NEW page \in ToSet(pages')
               PROVE  page.request \in retaining' /\ page.request \in Requests
                      /\ page = PageOf(page.request)
    OBVIOUS
  <2>1. CASE page = new
    <3>1. \A other \in gone : other.request # e
      BY <1>9
    <3> QED
      BY <2>1, <3>1, <1>1, <1>2 DEF new, Released
  <2>2. CASE page # new
    <3>1. page \in ToSet(pages)
      BY <2>2, <1>6
    <3>2. \A other \in gone : other.request # page.request
      BY <3>1, <1>9
    <3> QED
      BY <3>1, <3>2, <1>1, <1>9 DEF Released
  <2> QED
    BY <2>1, <2>2
<1>12. PagesAreRoots'
  <2>1. ASSUME NEW page \in ToSet(pages')
        PROVE  /\ requests'[page.request].state \notin {"unsent", "reading"}
               /\ requests'[page.request].since = cleared'
    <3>1. CASE page = new
      BY <3>1, <1>1, <1>2, <1>7 DEF IInv, Registered
    <3>2. CASE page # new
      <4>1. page \in ToSet(pages)
        BY <3>2, <1>6
      <4>2. /\ requests[page.request].state \notin {"unsent", "reading"}
            /\ requests[page.request].since = cleared
        BY <4>1 DEF IInv, PagesAreRoots
      <4> QED
        BY <4>1, <4>2, <1>1, <1>7, <1>9
    <3> QED
      BY <3>1, <3>2
  <2> QED
    BY <2>1, <1>8, <1>10, <1>11 DEF PagesAreRoots
<1>13. StoredIsRooted'
  <2>1. retaining' \subseteq retaining \cup {e}
    BY <1>1 DEF Released
  <2>2. \A d \in retaining' : Records(requests[d].key) \subseteq stored \cup Records(k)
    BY <2>1 DEF IInv, StoredIsRooted, k
  <2>3. stored' = UNION {Records(requests[d].key) : d \in retaining'}
    BY <2>2, <1>1 DEF Swept
  <2>4. \A d \in retaining' : requests'[d].key = requests[d].key
    BY <1>7, <1>10
  <2> QED
    BY <2>3, <2>4 DEF StoredIsRooted
<1> QED
  BY <1>6, <1>10, <1>12, <1>13

LEMMA AnswerKeeps ==
    ASSUME IInv, NEW e \in Requests, Answer(e)
    PROVE  IInv'
<1>1. requests' = [requests EXCEPT ![e].state = "answered"]
      /\ requests[e].state = "reading" /\ UNCHANGED <<pending, readers, cleared>>
  BY DEF Answer
<1>2. Registered' /\ ReadersWait' /\ requests' \in [Requests -> RequestRecords]
  BY <1>1, MovingOnKeeps DEF States, OnItsWay
<1>3. CASE requests[e].aborted
  <2>1. UNCHANGED <<pages, stored, retaining>>
    BY <1>3 DEF Answer
  <2>2. \A d \in Requests : Settled(d) =>
            /\ requests'[d].state \notin {"unsent", "reading"}
            /\ requests'[d].key = requests[d].key /\ requests'[d].since = requests[d].since
    BY <1>1 DEF IInv, Typed, RequestRecords, Settled
  <2>3. PagesAreRoots' /\ StoredIsRooted'
    BY <1>1, <2>1, <2>2, PagesStay
  <2> QED
    BY <1>1, <1>2, <2>1, <2>3 DEF IInv, Typed
<1>4. CASE ~ requests[e].aborted
  BY <1>1, <1>2, <1>4, PageIsKept DEF IInv, Typed
<1> QED
  BY <1>3, <1>4

LEMMA FailKeeps ==
    ASSUME IInv, NEW e \in Requests, Fail(e)
    PROVE  IInv'
<1>1. requests' = [requests EXCEPT ![e].state = "failed"]
      /\ requests[e].state = "reading"
      /\ UNCHANGED <<pages, stored, retaining, pending, readers, cleared>>
  BY DEF Fail
<1>2. Registered' /\ ReadersWait' /\ requests' \in [Requests -> RequestRecords]
  BY <1>1, MovingOnKeeps DEF States, OnItsWay
<1>3. \A d \in Requests : Settled(d) =>
          /\ requests'[d].state \notin {"unsent", "reading"}
          /\ requests'[d].key = requests[d].key /\ requests'[d].since = requests[d].since
  BY <1>1 DEF IInv, Typed, RequestRecords, Settled
<1>4. PagesAreRoots' /\ StoredIsRooted'
  BY <1>1, <1>3, PagesStay
<1> QED
  BY <1>1, <1>2, <1>4 DEF IInv, Typed

LEMMA FinallyKeeps ==
    ASSUME IInv, NEW e \in Requests, Finally(e)
    PROVE  IInv'
<1> DEFINE state == IF requests[e].state = "answered" THEN "resolved" ELSE "rejected"
<1>1. requests' = [requests EXCEPT ![e].state = state]
      /\ requests[e].state \in {"answered", "failed"}
      /\ pending' = [k \in Keys |-> IF pending[k] = e THEN 0 ELSE pending[k]]
      /\ UNCHANGED <<pages, stored, retaining, readers, cleared>>
  BY DEF Finally, IInv, Typed, RequestRecords
<1>2. state \in {"resolved", "rejected"}
  OBVIOUS
<1> HIDE DEF state
<1>3. Registered' /\ ReadersWait' /\ requests' \in [Requests -> RequestRecords]
  BY <1>1, <1>2, MovingOnKeeps DEF States
<1>4. \A d \in Requests : Settled(d) =>
          /\ requests'[d].state \notin {"unsent", "reading"}
          /\ requests'[d].key = requests[d].key /\ requests'[d].since = requests[d].since
  BY <1>1, <1>2 DEF IInv, Typed, RequestRecords, Settled
<1>5. PagesAreRoots' /\ StoredIsRooted'
  BY <1>1, <1>4, PagesStay
<1> QED
  BY <1>1, <1>3, <1>5 DEF IInv, Typed

\* A reader no longer waits: its request loses it, and is aborted when it was the last.
LEMMA LeavingKeeps ==
    ASSUME IInv, NEW r \in Readers, Waiting(r), NEW aborted \in BOOLEAN,
           aborted => \/ requests[readers[r]].aborted
                      \/ requests[readers[r]].consumers \ {r} = {},
           ~ aborted => ~ requests[readers[r]].aborted,
           requests' = [requests EXCEPT ![readers[r]] =
               [requests[readers[r]] EXCEPT !.consumers = requests[readers[r]].consumers \ {r},
                                            !.aborted = aborted]],
           readers' = [readers EXCEPT ![r] = 0],
           UNCHANGED <<pages, stored, retaining, pending, cleared>>
    PROVE  IInv'
<1> DEFINE e == readers[r]
<1>1. e \in Requests
  BY DEF IInv, Typed, Waiting
<1> DEFINE left == [requests[e] EXCEPT !.consumers = requests[e].consumers \ {r},
                                    !.aborted = aborted]
<1>2. requests' = [requests EXCEPT ![e] = left]
  OBVIOUS
<1> HIDE DEF e
<1>a. requests[e] \in RequestRecords
  BY <1>1 DEF IInv, Typed
<1>b. /\ left \in RequestRecords /\ left.key = requests[e].key
      /\ left.state = requests[e].state /\ left.since = requests[e].since
      /\ left.consumers = requests[e].consumers \ {r} /\ left.aborted = aborted
  BY <1>a DEF RequestRecords
<1> HIDE DEF left
<1>3. \A d \in Requests :
          /\ requests'[d].key = requests[d].key /\ requests'[d].state = requests[d].state
          /\ requests'[d].since = requests[d].since
          /\ d # e => requests'[d] = requests[d]
  BY <1>1, <1>2, <1>b DEF IInv, Typed
<1>4. requests'[e].aborted = aborted /\ requests'[e].consumers = requests[e].consumers \ {r}
  BY <1>1, <1>2, <1>b DEF IInv, Typed
<1>5. \A d \in Requests : ~ requests'[d].aborted => ~ requests[d].aborted
  BY <1>3, <1>4 DEF e
<1>6. Typed'
  BY <1>1, <1>2, <1>b DEF IInv, Typed
<1>7. PagesAreRoots' /\ StoredIsRooted'
  BY <1>3, PagesStay DEF Settled
<1>8. Registered'
  BY <1>3, <1>5 DEF IInv, Typed, Registered, OnItsWay
<1>9. ReadersWait'
  <2> SUFFICES ASSUME NEW q \in Readers, Waiting(q)'
               PROVE  /\ ~ requests'[readers'[q]].aborted
                      /\ q \in requests'[readers'[q]].consumers
                      /\ requests'[readers'[q]].state # "unsent"
    BY DEF ReadersWait
  <2>1. q # r /\ readers'[q] = readers[q] /\ readers[q] \in Requests /\ Waiting(q)
    BY DEF IInv, Typed, Waiting
  <2>2. /\ ~ requests[readers[q]].aborted
        /\ q \in requests[readers[q]].consumers
        /\ requests[readers[q]].state # "unsent"
    BY <2>1 DEF IInv, ReadersWait
  <2>3. CASE readers[q] = e
    BY <2>1, <2>2, <2>3, <1>3, <1>4 DEF e
  <2>4. CASE readers[q] # e
    BY <2>1, <2>2, <2>4, <1>3
  <2> QED
    BY <2>3, <2>4
<1> QED
  BY <1>6, <1>7, <1>8, <1>9 DEF IInv

LEMMA SettleKeeps ==
    ASSUME IInv, NEW r \in Readers, Settle(r)
    PROVE  IInv'
<1> DEFINE e == readers[r]
<1>1. Waiting(r) /\ e \in Requests /\ requests[e].aborted = FALSE
  BY DEF Settle, IInv, Typed, Waiting, ReadersWait, RequestRecords
<1>2. requests' = [requests EXCEPT ![e].consumers = @ \ {r}]
  BY DEF Settle
<1>3. requests' = [requests EXCEPT ![e] =
          [requests[e] EXCEPT !.consumers = requests[e].consumers \ {r}, !.aborted = FALSE]]
  <2>1. requests[e] \in RequestRecords
    BY <1>1 DEF IInv, Typed
  <2>2. [requests[e] EXCEPT !.consumers = requests[e].consumers \ {r}]
          = [requests[e] EXCEPT !.consumers = requests[e].consumers \ {r}, !.aborted = FALSE]
    BY <2>1, <1>1 DEF RequestRecords
  <2> QED
    BY <2>2, <1>2
<1> QED
  BY <1>1, <1>3, LeavingKeeps DEF Settle

LEMMA CancelKeeps ==
    ASSUME IInv, NEW r \in Readers, Cancel(r)
    PROVE  IInv'
<1> DEFINE e == readers[r]
           rest == requests[e].consumers \ {r}
           aborted == requests[e].aborted \/ rest = {}
<1>1. Waiting(r) /\ e \in Requests
  BY DEF Cancel, IInv, Typed, Waiting
<1>2. requests' = [requests EXCEPT ![e] =
          [requests[e] EXCEPT !.consumers = requests[e].consumers \ {r}, !.aborted = aborted]]
  BY <1>1 DEF Cancel
<1>3. /\ aborted \in BOOLEAN
      /\ aborted => requests[e].aborted \/ requests[e].consumers \ {r} = {}
      /\ ~ aborted => ~ requests[e].aborted
  OBVIOUS
<1> HIDE DEF aborted
<1> QED
  BY <1>1, <1>2, <1>3, LeavingKeeps DEF Cancel

\* Clearing leaves no page, and no request that may still bring one.
LEMMA ClearKeeps ==
    ASSUME IInv, Clear
    PROVE  IInv'
<1>1. /\ cleared' = cleared + 1
      /\ retaining' = Released(retaining, ToSet(pages)) /\ stored' = Swept(stored, retaining')
      /\ readers' = [r \in Readers |-> IF Cleared(readers[r]) THEN 0 ELSE readers[r]]
      /\ pending' = [k \in Keys |-> 0]
  BY DEF Clear
<1>p. pages' = <<>>
  BY DEF Clear
<1>r. requests' = [e \in Requests |->
          IF Cleared(e) THEN [requests[e] EXCEPT !.aborted = TRUE, !.consumers = {}]
          ELSE requests[e]]
  BY DEF Clear
<1>s. ASSUME NEW e \in Requests
      PROVE  /\ Cleared(e) => /\ requests'[e] \in RequestRecords
                              /\ requests'[e].aborted
             /\ ~ Cleared(e) => requests'[e] = requests[e]
  <2>1. requests[e] \in RequestRecords
    BY DEF IInv, Typed
  <2>2. [requests[e] EXCEPT !.aborted = TRUE, !.consumers = {}] \in RequestRecords
        /\ [requests[e] EXCEPT !.aborted = TRUE, !.consumers = {}].aborted
    BY <2>1 DEF RequestRecords
  <2> QED
    BY <2>2, <1>r
<1>2. Typed'
  <2>1. pages' \in Seq(Page) /\ Len(pages') <= PageLimit
    BY <1>p, PagesAssumption
  <2>2. requests' \in [Requests -> RequestRecords]
    BY <1>r, <1>s DEF IInv, Typed
  <2> QED
    BY <2>1, <2>2, <1>1 DEF IInv, Typed, Released
<1>3. retaining' = {}
  BY <1>1 DEF IInv, PagesAreRoots, PageOf, Released
<1>4. ToSet(pages') = {}
  <2>1. DOMAIN pages' = {}
    BY <1>p
  <2> QED
    BY <2>1 DEF ToSet
<1>5. PagesAreRoots' /\ StoredIsRooted'
  BY <1>1, <1>3, <1>4 DEF PagesAreRoots, StoredIsRooted, Swept
<1>6. ASSUME NEW e \in Requests, OnItsWay(e)'
      PROVE  requests'[e].aborted
  <2>1. CASE Cleared(e)
    BY <2>1, <1>s
  <2>2. CASE ~ Cleared(e)
    <3>1. requests'[e] = requests[e] /\ OnItsWay(e) /\ e # 0
      BY <2>2, <1>s, <1>6, PagesAssumption DEF OnItsWay, Requests
    <3>2. pending[requests[e].key] # e
      BY <2>2, <3>1 DEF Cleared, IInv, Typed, RequestRecords
    <3> QED
      BY <3>1, <3>2 DEF IInv, Registered
  <2> QED
    BY <2>1, <2>2
<1>7. Registered'
  <2>1. \A e \in Requests : requests'[e].state = "reading" => requests'[e].aborted
    BY <1>6 DEF OnItsWay
  <2> QED
    BY <2>1, <1>1, <1>6 DEF Registered
<1>8. ReadersWait'
  <2> SUFFICES ASSUME NEW q \in Readers, Waiting(q)'
               PROVE  /\ ~ requests'[readers'[q]].aborted
                      /\ q \in requests'[readers'[q]].consumers
                      /\ requests'[readers'[q]].state # "unsent"
    BY DEF ReadersWait
  <2>1. ~ Cleared(readers[q]) /\ readers'[q] = readers[q] /\ Waiting(q)
        /\ readers[q] \in Requests
    BY <1>1 DEF IInv, Typed, Waiting
  <2>2. requests'[readers[q]] = requests[readers[q]]
    BY <2>1, <1>s
  <2> QED
    BY <2>1, <2>2 DEF IInv, ReadersWait
<1> QED
  BY <1>2, <1>5, <1>7, <1>8 DEF IInv

LEMMA StepsKeepPages ==
    ASSUME IInv, [Next]_vars
    PROVE  IInv'
<1>1. CASE \E r \in Readers, k \in Keys :
               Hit(r, k) \/ Join(r, k) \/ \E e \in Requests : Request(r, k, e)
  BY <1>1, HitKeeps, JoinKeeps, RequestKeeps
<1>2. CASE \E e \in Requests : Answer(e) \/ Fail(e) \/ Finally(e)
  BY <1>2, AnswerKeeps, FailKeeps, FinallyKeeps
<1>3. CASE \E r \in Readers : Settle(r) \/ Cancel(r)
  BY <1>3, SettleKeeps, CancelKeeps
<1>4. CASE Clear
  BY <1>4, ClearKeeps
<1>5. CASE UNCHANGED vars
  BY <1>5 DEF vars, IInv, Typed, PagesAreRoots, PageOf, StoredIsRooted, Registered, OnItsWay,
     ReadersWait, Waiting
<1> QED
  BY <1>1, <1>2, <1>3, <1>4, <1>5 DEF Next

\* What is known of every state: the pages are what the store retains, what may still arrive
\* was asked for after the last clear, and one request for a page may be joined at a time.
THEOREM PagesInvariant ==
    Spec => []IInv
<1>1. Init => IInv
  BY FirstPages
<1>2. IInv /\ [Next]_vars => IInv'
  BY StepsKeepPages
<1> QED
  BY <1>1, <1>2, PTL DEF Spec

\* PagesShared: a cached page is whole and of the schema that is open, and readers that share a
\* request or a record do not disturb each other, whoever cancels and whenever the cache is
\* cleared.
THEOREM PagesAreShared ==
    Spec => []PagesShared
<1>1. IInv => PagesShared
  BY InvariantSuffices
<1> QED
  BY <1>1, PagesInvariant, PTL

-----------------------------------------------------------------------------
(* The store of entities: closures *)

\* A closure holds what it starts from, leads to nothing else, and is in every set that does
\* the same.
LEMMA ClosureIsLeast ==
    ASSUME NEW U, NEW S \in SUBSET U, NEW E \in SUBSET (U \X U)
    PROVE  /\ S \subseteq Closure(U, S, E)
           /\ Closure(U, S, E) \subseteq U
           /\ Closed(Closure(U, S, E), E)
           /\ \A C \in SUBSET U : S \subseteq C /\ Closed(C, E) => Closure(U, S, E) \subseteq C
<1>1. ASSUME NEW e \in E, e[1] \in Closure(U, S, E)
      PROVE  e[2] \in Closure(U, S, E)
  <2>1. e[2] \in U
    OBVIOUS
  <2>2. ASSUME NEW C \in SUBSET U, S \subseteq C, Closed(C, E)
        PROVE  e[2] \in C
    BY <1>1, <2>2 DEF Closure, Closed
  <2> QED
    BY <2>1, <2>2 DEF Closure
<1> QED
  BY <1>1 DEF Closure, Closed

-----------------------------------------------------------------------------
(* Views *)

\* What is known of every state of the store: the views that are handed out are true, no
\* object is older than the store, and subscribers have seen the latest.
StoreInv ==
    /\ version \in Nat
    /\ version = 0 => DOMAIN records = {}
    /\ DOMAIN versions = DOMAIN records
    /\ ViewsAreCurrent
    /\ \A r \in DOMAIN memo : memo[r].built \in 1..version
    /\ SubscribersAreCurrent

\* Reading puts together what is lacking, and keeps the rest as it was.
LEMMA SeenIsUpToDate ==
    ASSUME NEW all, NEW vs, NEW objects, NEW now, NEW S, UpToDate(all, vs, objects)
    PROVE  /\ UpToDate(all, vs, Seen(all, vs, objects, now, S))
           /\ \A r \in S \cap DOMAIN all : r \in DOMAIN Seen(all, vs, objects, now, S)
           /\ \A r \in DOMAIN Seen(all, vs, objects, now, S) :
                 IF r \in DOMAIN objects
                 THEN Seen(all, vs, objects, now, S)[r] = objects[r]
                 ELSE Seen(all, vs, objects, now, S)[r].built = now
           /\ DOMAIN objects \subseteq DOMAIN Seen(all, vs, objects, now, S)
<1> DEFINE lacking == {r \in DOMAIN all : ~ HasObject(all, vs, objects, r)}
           edges == {e \in lacking \X lacking : e[2] \in LinksIn(all, e[1])}
           new == Anew(all, vs, objects, S)
           seen == Seen(all, vs, objects, now, S)
           Object(c) == IF c \in new THEN now ELSE objects[c].built
<1>1. new = Closure(lacking, S \cap lacking, edges)
  BY DEF Anew
<1>2. /\ S \cap lacking \subseteq new /\ new \subseteq lacking
      /\ \A x, y \in lacking : x \in new /\ y \in LinksIn(all, x) => y \in new
  <2>1. S \cap lacking \in SUBSET lacking /\ edges \in SUBSET (lacking \X lacking)
    OBVIOUS
  <2>2. /\ S \cap lacking \subseteq new /\ new \subseteq lacking
        /\ Closed(new, edges)
    BY <1>1, <2>1, ClosureIsLeast
  <2>3. ASSUME NEW x \in lacking, NEW y \in lacking, x \in new, y \in LinksIn(all, x)
        PROVE  y \in new
    <3>1. <<x, y>> \in edges
      BY <2>3
    <3> QED
      BY <3>1, <2>2, <2>3 DEF Closed
  <2> QED
    BY <2>2, <2>3
<1>3. \A r \in DOMAIN all : r \in lacking <=> r \notin DOMAIN objects
  BY DEF HasObject, UpToDate
<1>4. /\ seen = [r \in DOMAIN objects \cup new |->
                  IF r \in new
                  THEN [version |-> vs[r], built |-> now, fields |-> all[r],
                        holds |-> [c \in Links(all[r]) \cap DOMAIN all |-> Object(c)]]
                  ELSE objects[r]]
      /\ DOMAIN seen = DOMAIN objects \cup new
  BY DEF Seen
<1> HIDE DEF new, seen, lacking
<1>5. \A r \in DOMAIN objects : r \notin new /\ seen[r] = objects[r] /\ r \in DOMAIN all
  BY <1>2, <1>3, <1>4 DEF UpToDate, lacking
<1>6. \A r \in new :
          /\ r \in DOMAIN all /\ r \notin DOMAIN objects
          /\ seen[r] = [version |-> vs[r], built |-> now, fields |-> all[r],
                        holds |-> [c \in Links(all[r]) \cap DOMAIN all |-> Object(c)]]
  BY <1>2, <1>3, <1>4 DEF lacking
<1>7. ASSUME NEW r \in new
      PROVE  /\ seen[r].fields = all[r] /\ seen[r].version = vs[r]
             /\ DOMAIN seen[r].holds = LinksIn(all, r) \cap DOMAIN all
             /\ \A c \in DOMAIN seen[r].holds :
                   c \in DOMAIN seen /\ seen[r].holds[c] = seen[c].built
  <2>1. LinksIn(all, r) = Links(all[r])
    BY <1>6 DEF LinksIn
  <2>2. ASSUME NEW c \in Links(all[r]) \cap DOMAIN all
        PROVE  c \in DOMAIN seen /\ Object(c) = seen[c].built
    <3>1. CASE c \in lacking
      <4>1. r \in lacking
        BY <1>2
      <4>2. c \in new
        BY <2>1, <2>2, <3>1, <4>1, <1>2
      <4> QED
        BY <4>2, <1>4, <1>6
    <3>2. CASE c \notin lacking
      <4>1. c \in DOMAIN objects /\ c \notin new
        BY <3>2, <1>3, <1>5
      <4> QED
        BY <4>1, <1>4, <1>5
    <3> QED
      BY <3>1, <3>2
  <2>3. /\ seen[r].fields = all[r] /\ seen[r].version = vs[r]
        /\ DOMAIN seen[r].holds = Links(all[r]) \cap DOMAIN all
        /\ \A c \in Links(all[r]) \cap DOMAIN all : seen[r].holds[c] = Object(c)
    <3> DEFINE held == [c \in Links(all[r]) \cap DOMAIN all |-> Object(c)]
    <3>1. seen[r] = [version |-> vs[r], built |-> now, fields |-> all[r], holds |-> held]
      BY <1>6
    <3>2. /\ DOMAIN held = Links(all[r]) \cap DOMAIN all
          /\ \A c \in Links(all[r]) \cap DOMAIN all : held[c] = Object(c)
      OBVIOUS
    <3> HIDE DEF held, Object
    <3> QED
      BY <3>1, <3>2
  <2> HIDE DEF Object
  <2> QED
    BY <2>1, <2>2, <2>3
<1>8. UpToDate(all, vs, seen)
  <2>1. ASSUME NEW r \in DOMAIN objects
        PROVE  /\ seen[r].fields = all[r] /\ seen[r].version = vs[r]
               /\ DOMAIN seen[r].holds = LinksIn(all, r) \cap DOMAIN all
               /\ \A c \in DOMAIN seen[r].holds :
                     c \in DOMAIN seen /\ seen[r].holds[c] = seen[c].built
    <3>1. /\ objects[r].fields = all[r] /\ objects[r].version = vs[r]
          /\ DOMAIN objects[r].holds = LinksIn(all, r) \cap DOMAIN all
          /\ \A c \in DOMAIN objects[r].holds :
                c \in DOMAIN objects /\ objects[r].holds[c] = objects[c].built
      BY DEF UpToDate
    <3>2. \A c \in DOMAIN objects : c \in DOMAIN seen /\ seen[c] = objects[c]
      BY <1>4, <1>5
    <3> QED
      BY <3>1, <3>2
  <2>2. DOMAIN seen = DOMAIN objects \cup new /\ \A r \in DOMAIN seen : r \in DOMAIN all
    <3>1. DOMAIN seen = DOMAIN objects \cup new
      BY <1>4
    <3>2. (\A r \in DOMAIN objects : r \in DOMAIN all) /\ (\A r \in new : r \in DOMAIN all)
      BY <1>5, <1>6
    <3> QED
      BY <3>1, <3>2
  <2> QED
    BY <1>7, <2>1, <2>2 DEF UpToDate
<1>9. \A r \in S \cap DOMAIN all : r \in DOMAIN seen
  BY <1>2, <1>3, <1>4
<1> QED
  BY <1>4, <1>5, <1>6, <1>8, <1>9 DEF seen

-----------------------------------------------------------------------------
(* Publishing *)

\* What has changed: what differs, whatever shows something that has changed, and no more.
LEMMA ChangedIsLeast ==
    ASSUME NEW next
    PROVE  /\ Differing(next) \subseteq Changed(next)
           /\ Changed(next) \subseteq DOMAIN records \cup DOMAIN next
           /\ \A r, c \in DOMAIN records \cup DOMAIN next :
                 c \in Changed(next) /\ c \in LinksIn(records, r) \cup LinksIn(next, r)
                     => r \in Changed(next)
           /\ \A C \in SUBSET (DOMAIN records \cup DOMAIN next) :
                 /\ Differing(next) \subseteq C
                 /\ \A r, c \in DOMAIN records \cup DOMAIN next :
                       c \in C /\ c \in LinksIn(records, r) \cup LinksIn(next, r) => r \in C
                 => Changed(next) \subseteq C
<1> DEFINE known == DOMAIN records \cup DOMAIN next
           edges == {e \in known \X known :
                        e[1] \in LinksIn(records, e[2]) \cup LinksIn(next, e[2])}
<1>1. Differing(next) \in SUBSET known /\ edges \in SUBSET (known \X known)
  BY DEF Differing
<1>2. Changed(next) = Closure(known, Differing(next), edges)
  BY DEF Changed
<1>3. \A C \in SUBSET known :
          Closed(C, edges) <=> \A r, c \in known :
              c \in C /\ c \in LinksIn(records, r) \cup LinksIn(next, r) => r \in C
  <2> TAKE C \in SUBSET known
  <2>1. ASSUME Closed(C, edges), NEW r \in known, NEW c \in known, c \in C,
               c \in LinksIn(records, r) \cup LinksIn(next, r)
        PROVE  r \in C
    <3>1. <<c, r>> \in edges
      BY <2>1
    <3> QED
      BY <3>1, <2>1 DEF Closed
  <2>2. ASSUME NEW e \in edges, e[1] \in C,
               \A r, c \in known :
                   c \in C /\ c \in LinksIn(records, r) \cup LinksIn(next, r) => r \in C
        PROVE  e[2] \in C
    BY <2>2
  <2> QED
    BY <2>1, <2>2 DEF Closed
<1>4. /\ Differing(next) \subseteq Changed(next) /\ Changed(next) \in SUBSET known
      /\ Closed(Changed(next), edges)
      /\ \A C \in SUBSET known : Differing(next) \subseteq C /\ Closed(C, edges)
              => Changed(next) \subseteq C
  <2> HIDE DEF edges, known
  <2>1. Differing(next) \subseteq known
    BY <1>1
  <2> QED
    BY <1>1, <1>2, <2>1, ClosureIsLeast
<1> HIDE DEF edges
<1> QED
  BY <1>3, <1>4

\* What has not changed is there before and after, with the same links.
LEMMA UnchangedStays ==
    ASSUME NEW next, NEW r, r \notin Changed(next)
    PROVE  /\ r \in DOMAIN records <=> r \in DOMAIN next
           /\ r \in DOMAIN records => records[r] = next[r]
           /\ LinksIn(records, r) = LinksIn(next, r)
           /\ r \in DOMAIN records =>
                 LinksIn(next, r) \cap DOMAIN next = LinksIn(records, r) \cap DOMAIN records
           /\ r \in DOMAIN records =>
                 \A c \in LinksIn(records, r) \cap DOMAIN records : c \notin Changed(next)
<1>1. /\ r \in DOMAIN records <=> r \in DOMAIN next
      /\ r \in DOMAIN records => records[r] = next[r]
  BY ChangedIsLeast DEF Differing
<1>2. LinksIn(records, r) = LinksIn(next, r)
  BY <1>1 DEF LinksIn
<1>3. ASSUME r \in DOMAIN records, NEW c \in LinksIn(records, r),
             c \in DOMAIN records \cup DOMAIN next
      PROVE  c \notin Changed(next)
  BY <1>3, ChangedIsLeast
<1>4. ASSUME r \in DOMAIN records, NEW c \in LinksIn(records, r)
      PROVE  c \in DOMAIN records <=> c \in DOMAIN next
  BY <1>3, <1>4, ChangedIsLeast DEF Differing
<1> QED
  BY <1>1, <1>2, <1>3, <1>4

\* After a change the objects that remain are true of what is published.
LEMMA RemainingAreUpToDate ==
    ASSUME StoreInv, NEW next, NEW vs,
           \A r \in DOMAIN versions \ Changed(next) : vs[r] = versions[r]
    PROVE  UpToDate(next, vs, Only(memo, DOMAIN memo \ Changed(next)))
<1> DEFINE rest == Only(memo, DOMAIN memo \ Changed(next))
<1>1. DOMAIN rest = DOMAIN memo \ Changed(next) /\ \A r \in DOMAIN rest : rest[r] = memo[r]
  BY DEF Only
<1> HIDE DEF rest
<1>2. ASSUME NEW r \in DOMAIN rest
      PROVE  /\ r \in DOMAIN next
             /\ rest[r].fields = next[r] /\ rest[r].version = vs[r]
             /\ DOMAIN rest[r].holds = LinksIn(next, r) \cap DOMAIN next
             /\ \A c \in DOMAIN rest[r].holds :
                   c \in DOMAIN rest /\ rest[r].holds[c] = rest[c].built
  <2>1. /\ r \in DOMAIN memo /\ r \notin Changed(next) /\ rest[r] = memo[r]
        /\ r \in DOMAIN records /\ r \in DOMAIN versions
        /\ memo[r].fields = records[r] /\ memo[r].version = versions[r]
        /\ DOMAIN memo[r].holds = LinksIn(records, r) \cap DOMAIN records
        /\ \A c \in DOMAIN memo[r].holds : c \in DOMAIN memo /\ memo[r].holds[c] = memo[c].built
    BY <1>1 DEF StoreInv, ViewsAreCurrent, UpToDate
  <2>2. /\ r \in DOMAIN next /\ records[r] = next[r]
        /\ LinksIn(next, r) \cap DOMAIN next = LinksIn(records, r) \cap DOMAIN records
        /\ \A c \in LinksIn(records, r) \cap DOMAIN records : c \notin Changed(next)
    BY <2>1, UnchangedStays
  <2>3. vs[r] = versions[r]
    BY <2>1
  <2> QED
    BY <2>1, <2>2, <2>3, <1>1
<1> QED
  BY <1>2 DEF UpToDate, rest

\* Publishing keeps the invariant, and makes exactly those who watch what has changed see
\* another object.
LEMMA PublishingKeepsStore ==
    ASSUME StoreInv, NEW next, Publish(next)
    PROVE  /\ StoreInv'
           /\ DOMAIN previous' = DOMAIN previous
           /\ \A r \in DOMAIN previous : previous'[r] # previous[r] <=> r \in Changed(next)
<1> DEFINE changed == Changed(next)
           vs == [r \in (DOMAIN versions \ changed) \cup (changed \cap DOMAIN next) |->
                     IF r \in changed THEN VersionOf(r) + 1 ELSE versions[r]]
           rest == Only(memo, DOMAIN memo \ changed)
           objects == Seen(next, vs, rest, version + 1, DOMAIN previous)
<1>0. records' = next /\ version \in Nat /\ DOMAIN versions = DOMAIN records
  BY DEF Publish, StoreInv
<1>1. CASE changed = {}
  <2>1. UNCHANGED <<versions, memo, version, previous>>
    BY <1>1 DEF Publish
  <2>2. \A r : r \in DOMAIN records <=> r \in DOMAIN next
    BY <1>1, UnchangedStays
  <2>3. UpToDate(next, versions, Only(memo, DOMAIN memo \ Changed(next)))
    BY RemainingAreUpToDate
  <2>4. UpToDate(next, versions, memo)
    <3> DEFINE kept == Only(memo, DOMAIN memo \ Changed(next))
    <3>1. DOMAIN memo = DOMAIN kept /\ \A r \in DOMAIN memo : memo[r] = kept[r]
      BY <1>1 DEF Only
    <3>2. UpToDate(next, versions, kept)
      BY <2>3
    <3> HIDE DEF kept
    <3> QED
      BY <3>1, <3>2 DEF UpToDate
  <2>5. ViewsAreCurrent' /\ DOMAIN versions = DOMAIN next
    BY <2>1, <2>2, <2>4, <1>0 DEF ViewsAreCurrent
  <2>6. SubscribersAreCurrent'
    BY <2>1, <2>2, <1>0 DEF StoreInv, SubscribersAreCurrent, ObjectOf
  <2> QED
    BY <1>0, <1>1, <2>1, <2>2, <2>5, <2>6 DEF StoreInv
<1>2. CASE changed # {}
  <2>1. versions' = vs /\ version' = version + 1 /\ memo' = objects
        /\ previous' = [r \in DOMAIN previous |-> ObjectOf(next, objects, r)]
    BY <1>2 DEF Publish
  <2>2. DOMAIN vs = DOMAIN next
    BY <1>0, ChangedIsLeast, UnchangedStays
  <2>3. \A r \in DOMAIN versions \ changed : vs[r] = versions[r]
    OBVIOUS
  <2>4. DOMAIN rest = DOMAIN memo \ changed /\ \A r \in DOMAIN rest : rest[r] = memo[r]
    BY DEF Only
  <2> HIDE DEF vs
  <2>5. UpToDate(next, vs, rest)
    BY <2>3, RemainingAreUpToDate
  <2> HIDE DEF rest
  <2>6. /\ UpToDate(next, vs, objects)
        /\ \A r \in DOMAIN previous \cap DOMAIN next : r \in DOMAIN objects
        /\ \A r \in DOMAIN objects :
              IF r \in DOMAIN rest THEN objects[r] = rest[r] ELSE objects[r].built = version + 1
        /\ DOMAIN rest \subseteq DOMAIN objects
    BY <2>5, SeenIsUpToDate
  <2> HIDE DEF objects
  <2>7. \A r \in DOMAIN objects : objects[r].built \in 1..(version + 1)
    <3> TAKE r \in DOMAIN objects
    <3>1. CASE r \in DOMAIN rest
      <4>1. objects[r] = memo[r] /\ memo[r].built \in 1..version
        BY <3>1, <2>4, <2>6 DEF StoreInv
      <4> QED
        BY <4>1, <1>0
    <3>2. CASE r \notin DOMAIN rest
      <4>1. objects[r].built = version + 1
        BY <3>2, <2>6
      <4> QED
        BY <4>1, <1>0
    <3> QED
      BY <3>1, <3>2
  <2>8. StoreInv'
    <3>1. ViewsAreCurrent'
      BY <1>0, <2>1, <2>6 DEF ViewsAreCurrent
    <3>2. SubscribersAreCurrent'
      BY <1>0, <2>1, <2>6 DEF SubscribersAreCurrent, ObjectOf
    <3>3. version' \in Nat /\ version' # 0
      BY <1>0, <2>1
    <3> QED
      BY <1>0, <2>1, <2>2, <2>7, <3>1, <3>2, <3>3 DEF StoreInv
  <2>9. ASSUME NEW r \in DOMAIN previous
        PROVE  previous'[r] # previous[r] <=> r \in changed
    <3>1. /\ previous'[r] = IF r \in DOMAIN next THEN objects[r].built ELSE 0
          /\ previous[r] = IF r \in DOMAIN records THEN memo[r].built ELSE 0
          /\ r \in DOMAIN records => r \in DOMAIN memo
          /\ r \in DOMAIN memo => memo[r].built \in 1..version
      BY <2>1, <2>9 DEF StoreInv, SubscribersAreCurrent, ObjectOf, NoObject
    <3>2. CASE r \in changed
      <4>1. r \in DOMAIN records \cup DOMAIN next
        BY <3>2, ChangedIsLeast
      <4>2. CASE r \in DOMAIN next
        <5>1. objects[r].built = version + 1
          BY <3>2, <4>2, <2>4, <2>6, <2>9
        <5> QED
          BY <5>1, <3>1, <3>2, <4>2, <1>0
      <4>3. CASE r \notin DOMAIN next
        BY <4>3, <4>1, <3>1, <3>2, <1>0
      <4> QED
        BY <4>2, <4>3
    <3>3. CASE r \notin changed
      <4>1. r \in DOMAIN records <=> r \in DOMAIN next
        BY <3>3, UnchangedStays
      <4>2. CASE r \in DOMAIN records
        <5>1. r \in DOMAIN rest /\ rest[r] = memo[r] /\ objects[r] = rest[r]
          BY <4>2, <3>1, <3>3, <2>4, <2>6
        <5> QED
          BY <5>1, <4>1, <4>2, <3>1, <3>3
      <4>3. CASE r \notin DOMAIN records
        BY <4>3, <4>1, <3>1, <3>3
      <4> QED
        BY <4>2, <4>3
    <3> QED
      BY <3>2, <3>3
  <2> QED
    BY <2>1, <2>8, <2>9
<1> QED
  BY <1>1, <1>2

-----------------------------------------------------------------------------
(* What a reader sees *)

\* The entities in a view.
Reach(all, r) ==
    LET there == DOMAIN all IN
    Closure(there, {r} \cap there, {e \in there \X there : e[2] \in LinksIn(all, e[1])})

LEMMA ReachIsLeast ==
    ASSUME NEW all, NEW r
    PROVE  /\ ViewOf(all, r) = Only(all, Reach(all, r))
           /\ Reach(all, r) \subseteq DOMAIN all
           /\ r \in DOMAIN all => r \in Reach(all, r)
           /\ \A x \in Reach(all, r) : LinksIn(all, x) \cap DOMAIN all \subseteq Reach(all, r)
           /\ \A C \in SUBSET (DOMAIN all) :
                 /\ r \in DOMAIN all => r \in C
                 /\ \A x \in C : LinksIn(all, x) \cap DOMAIN all \subseteq C
                 => Reach(all, r) \subseteq C
<1> DEFINE there == DOMAIN all
           edges == {e \in there \X there : e[2] \in LinksIn(all, e[1])}
           S == {r} \cap there
<1>1. S \in SUBSET there /\ edges \in SUBSET (there \X there)
  OBVIOUS
<1>2. Reach(all, r) = Closure(there, S, edges)
  BY DEF Reach
<1>3. \A C \in SUBSET there :
          Closed(C, edges) <=> \A x \in C : LinksIn(all, x) \cap there \subseteq C
  <2> TAKE C \in SUBSET there
  <2>1. ASSUME Closed(C, edges), NEW x \in C, NEW y \in LinksIn(all, x) \cap there
        PROVE  y \in C
    <3>1. <<x, y>> \in edges
      BY <2>1
    <3> QED
      BY <3>1, <2>1 DEF Closed
  <2>2. ASSUME NEW e \in edges, e[1] \in C, \A x \in C : LinksIn(all, x) \cap there \subseteq C
        PROVE  e[2] \in C
    BY <2>2
  <2> QED
    BY <2>1, <2>2 DEF Closed
<1>4. /\ S \subseteq Reach(all, r) /\ Reach(all, r) \in SUBSET there
      /\ Closed(Reach(all, r), edges)
      /\ \A C \in SUBSET there : S \subseteq C /\ Closed(C, edges) => Reach(all, r) \subseteq C
  BY <1>1, <1>2, ClosureIsLeast
<1>5. ViewOf(all, r) = Only(all, Reach(all, r))
  BY DEF ViewOf, Reach
<1> HIDE DEF edges
<1> QED
  BY <1>3, <1>4, <1>5

\* Within D both are the same and nothing leads out of it: so what is seen is the same.
LEMMA SameWithin ==
    ASSUME NEW all, NEW other, NEW D, NEW r,
           \A x \in D : x \in DOMAIN all /\ x \in DOMAIN other /\ all[x] = other[x],
           \A x \in D : LinksIn(all, x) \cap DOMAIN all \subseteq D,
           \A x \in D : LinksIn(other, x) \cap DOMAIN other \subseteq D,
           r \in DOMAIN all \cup DOMAIN other => r \in D
    PROVE  ViewOf(all, r) = ViewOf(other, r)
<1> DEFINE A == Reach(all, r)
           B == Reach(other, r)
<1>1. /\ D \in SUBSET (DOMAIN all) /\ D \in SUBSET (DOMAIN other)
      /\ \A x \in D : LinksIn(all, x) = LinksIn(other, x)
  BY DEF LinksIn
<1>2. A \subseteq D /\ B \subseteq D
  BY <1>1, ReachIsLeast
<1>3. A \subseteq B
  <2>1. B \in SUBSET (DOMAIN all) /\ (r \in DOMAIN all => r \in B)
    BY <1>1, <1>2, ReachIsLeast
  <2>2. \A x \in B : LinksIn(all, x) \cap DOMAIN all \subseteq B
    BY <1>1, <1>2, ReachIsLeast
  <2> QED
    BY <2>1, <2>2, ReachIsLeast
<1>4. B \subseteq A
  <2>1. A \in SUBSET (DOMAIN other) /\ (r \in DOMAIN other => r \in A)
    BY <1>1, <1>2, ReachIsLeast
  <2>2. \A x \in A : LinksIn(other, x) \cap DOMAIN other \subseteq A
    BY <1>1, <1>2, ReachIsLeast
  <2> QED
    BY <2>1, <2>2, ReachIsLeast
<1>5. A = B
  BY <1>3, <1>4
<1>6. Only(all, A) = Only(other, B)
  BY <1>1, <1>2, <1>5 DEF Only
<1> QED
  BY <1>6, ReachIsLeast

\* What has changed is what is seen otherwise.
LEMMA ChangedIsSeen ==
    ASSUME NEW next, NEW r
    PROVE  r \in Changed(next) <=> ViewOf(records, r) # ViewOf(next, r)
<1> DEFINE known == DOMAIN records \cup DOMAIN next
           Other == {x \in known : ViewOf(records, x) # ViewOf(next, x)}
<1>1. ASSUME r \notin Changed(next)
      PROVE  ViewOf(records, r) = ViewOf(next, r)
  <2> DEFINE D == {x \in DOMAIN records : x \notin Changed(next)}
  <2>1. ASSUME NEW x \in D
        PROVE  /\ x \in DOMAIN records /\ x \in DOMAIN next /\ records[x] = next[x]
               /\ LinksIn(records, x) \cap DOMAIN records \subseteq D
               /\ LinksIn(next, x) \cap DOMAIN next \subseteq D
    BY UnchangedStays
  <2>2. r \in known => r \in D
    BY <1>1, UnchangedStays
  <2>3. /\ \A x \in D : x \in DOMAIN records /\ x \in DOMAIN next /\ records[x] = next[x]
        /\ \A x \in D : LinksIn(records, x) \cap DOMAIN records \subseteq D
        /\ \A x \in D : LinksIn(next, x) \cap DOMAIN next \subseteq D
    BY <2>1
  <2> HIDE DEF D
  <2> QED
    BY <2>2, <2>3, SameWithin
<1>2. ASSUME NEW x \in known, ViewOf(records, x) = ViewOf(next, x)
      PROVE  /\ x \notin Differing(next)
             /\ \A c \in known : c \in LinksIn(records, x) \cup LinksIn(next, x)
                   => ViewOf(records, c) = ViewOf(next, c)
  <2> DEFINE A == Reach(records, x)
             B == Reach(next, x)
  <2>1. A = B /\ \A y \in A : records[y] = next[y]
    <3>1. Only(records, A) = Only(next, B)
      BY <1>2, ReachIsLeast
    <3>2. DOMAIN Only(records, A) = A /\ DOMAIN Only(next, B) = B
      BY ReachIsLeast DEF Only
    <3>3. \A y \in A : Only(records, A)[y] = records[y]
      BY ReachIsLeast DEF Only
    <3>4. \A y \in B : Only(next, B)[y] = next[y]
      BY ReachIsLeast DEF Only
    <3> QED
      BY <3>1, <3>2, <3>3, <3>4
  <2>2. x \in A /\ A \subseteq DOMAIN records /\ A \subseteq DOMAIN next
    BY <2>1, ReachIsLeast
  <2>3. x \notin Differing(next)
    BY <2>1, <2>2 DEF Differing
  <2>4. ASSUME NEW c \in known, c \in LinksIn(records, x) \cup LinksIn(next, x)
        PROVE  ViewOf(records, c) = ViewOf(next, c)
    <3>1. LinksIn(records, x) = LinksIn(next, x)
      BY <2>1, <2>2 DEF LinksIn
    <3>2. c \in A
      BY <2>1, <2>2, <2>4, <3>1, ReachIsLeast
    <3>3. \A y \in A : LinksIn(records, y) \cap DOMAIN records \subseteq A
                    /\ LinksIn(next, y) \cap DOMAIN next \subseteq A
      BY <2>1, ReachIsLeast
    <3> QED
      BY <2>1, <2>2, <3>2, <3>3, SameWithin
  <2> QED
    BY <2>3, <2>4
<1>3. Changed(next) \subseteq Other
  <2>1. Differing(next) \subseteq known
    BY DEF Differing
  <2>2. Differing(next) \subseteq Other
    BY <1>2, <2>1
  <2>3. \A x, c \in known :
            c \in Other /\ c \in LinksIn(records, x) \cup LinksIn(next, x) => x \in Other
    BY <1>2
  <2>4. \A C \in SUBSET known :
            /\ Differing(next) \subseteq C
            /\ \A x, c \in known :
                  c \in C /\ c \in LinksIn(records, x) \cup LinksIn(next, x) => x \in C
            => Changed(next) \subseteq C
    BY ChangedIsLeast
  <2>5. Other \in SUBSET known
    OBVIOUS
  <2> HIDE DEF Other, known
  <2> QED
    BY <2>2, <2>3, <2>4, <2>5
<1> QED
  BY <1>1, <1>3

-----------------------------------------------------------------------------
(* The steps of the store *)

\* While nothing is published, what is handed out and watched may only become more.
LEMMA ReadingKeepsStore ==
    ASSUME StoreInv, UNCHANGED <<records, versions, version>>, NEW r,
           memo' = Seen(records, versions, memo, version, {r}),
           \/ UNCHANGED previous
           \/ /\ r \notin DOMAIN previous
              /\ previous' = Over([x \in {r} |-> ObjectOf(records, memo', r)], previous)
    PROVE  StoreInv' /\ Told
<1>1. /\ UpToDate(records, versions, memo')
      /\ r \in DOMAIN records => r \in DOMAIN memo'
      /\ \A x \in DOMAIN memo' :
            IF x \in DOMAIN memo THEN memo'[x] = memo[x] ELSE memo'[x].built = version
      /\ DOMAIN memo \subseteq DOMAIN memo'
  BY SeenIsUpToDate DEF StoreInv, ViewsAreCurrent
<1>2. \A x \in DOMAIN memo' : memo'[x].built \in 1..version
  <2> TAKE x \in DOMAIN memo'
  <2>1. CASE x \in DOMAIN memo
    BY <1>1, <2>1 DEF StoreInv
  <2>2. CASE x \notin DOMAIN memo
    <3>1. memo'[x].built = version /\ x \in DOMAIN records
      BY <1>1, <2>2 DEF UpToDate
    <3> QED
      BY <3>1 DEF StoreInv
  <2> QED
    BY <2>1, <2>2
<1>3. \A x \in DOMAIN previous : previous'[x] = previous[x] /\ x \in DOMAIN previous'
  BY DEF Over
<1>4. \A x \in DOMAIN previous' : x \notin DOMAIN previous =>
          x = r /\ previous'[x] = ObjectOf(records, memo', r)
  BY DEF Over
<1>5. ASSUME NEW x \in DOMAIN previous'
      PROVE  /\ x \in DOMAIN records => x \in DOMAIN memo'
             /\ previous'[x] = ObjectOf(records, memo', x)
  <2>1. CASE x \in DOMAIN previous
    BY <2>1, <1>1, <1>3 DEF StoreInv, SubscribersAreCurrent, ObjectOf
  <2>2. CASE x \notin DOMAIN previous
    BY <2>2, <1>1, <1>4
  <2> QED
    BY <2>1, <2>2
<1>6. ViewsAreCurrent' /\ SubscribersAreCurrent'
  BY <1>1, <1>5 DEF ViewsAreCurrent, SubscribersAreCurrent, ObjectOf
<1>7. Told
  BY <1>3 DEF Told
<1> QED
  BY <1>2, <1>6, <1>7 DEF StoreInv

LEMMA ForgettingKeepsStore ==
    ASSUME StoreInv, UNCHANGED <<records, versions, memo, version>>,
           \A x \in DOMAIN previous' : x \in DOMAIN previous /\ previous'[x] = previous[x]
    PROVE  StoreInv' /\ Told
<1>1. ViewsAreCurrent' /\ SubscribersAreCurrent'
  BY DEF StoreInv, ViewsAreCurrent, SubscribersAreCurrent, ObjectOf
<1>2. Told
  BY DEF Told
<1> QED
  BY <1>1, <1>2 DEF StoreInv

LEMMA ChangingKeepsStore ==
    ASSUME StoreInv, NEW level, NEW confirmed, NEW over, Change(level, confirmed, over)
    PROVE  StoreInv' /\ Told
<1>1. CASE UNCHANGED published
  BY <1>1, ForgettingKeepsStore DEF published
<1>2. CASE Publish(Overlay(confirmed, over))
  <2> DEFINE next == Overlay(confirmed, over)
  <2>1. /\ StoreInv' /\ records' = next
        /\ \A r \in DOMAIN previous : previous'[r] # previous[r] <=> r \in Changed(next)
    BY <1>2, PublishingKeepsStore DEF Publish
  <2> HIDE DEF next
  <2>2. \A r : r \in Changed(next) <=> ViewOf(records, r) # ViewOf(records', r)
    BY <2>1, ChangedIsSeen
  <2>3. Told
    BY <2>1, <2>2 DEF Told
  <2> QED
    BY <2>1, <2>3
<1> QED
  BY <1>1, <1>2 DEF Change

LEMMA StepsKeepStore ==
    ASSUME StoreInv, [StoreNext]_storeVars
    PROVE  StoreInv' /\ [Told]_storeVars
<1>1. ASSUME NEW payload \in Payloads, Normalize(payload)
      PROVE  StoreInv' /\ Told
  BY <1>1, ChangingKeepsStore DEF Normalize
<1>2. ASSUME NEW r \in Vanishing, RemoveEntity(r)
      PROVE  StoreInv' /\ Told
  BY <1>2, ChangingKeepsStore DEF RemoveEntity
<1>3. ASSUME NEW l \in Layers, Discard(l) \/ \E patches \in Patches : Apply(l, patches)
      PROVE  StoreInv' /\ Told
  BY <1>3, ChangingKeepsStore DEF Discard, Apply
<1>4. ASSUME Sweep \/ ClearStore
      PROVE  StoreInv' /\ Told
  BY <1>4, ChangingKeepsStore DEF Sweep, ClearStore
<1>5. ASSUME EndTransaction
      PROVE  StoreInv' /\ Told
  <2>1. CASE dirty
    BY <2>1, <1>5, ChangingKeepsStore DEF EndTransaction
  <2>2. CASE ~ dirty
    BY <2>2, <1>5, ForgettingKeepsStore DEF EndTransaction, published
  <2> QED
    BY <2>1, <2>2
<1>6. ASSUME UNCHANGED published
      PROVE  StoreInv' /\ Told
  BY <1>6, ForgettingKeepsStore DEF published
<1>7. ASSUME \/ \E l \in Layers : Begin(l)
             \/ \E o \in Owners : Release(o) \/ \E refs \in RootSets : Retain(o, refs)
             \/ BeginTransaction \/ UNCHANGED storeVars
      PROVE  UNCHANGED published
  BY <1>7 DEF Begin, Release, Retain, BeginTransaction, storeVars
<1>8. ASSUME NEW r, Get(r) \/ Subscribe(r)
      PROVE  StoreInv' /\ Told
  BY <1>8, ReadingKeepsStore DEF Get, Subscribe
<1>9. ASSUME NEW r, Unsubscribe(r)
      PROVE  StoreInv' /\ Told
  BY <1>9, ForgettingKeepsStore DEF Unsubscribe, Only
<1> QED
  BY <1>1, <1>2, <1>3, <1>4, <1>5, <1>6, <1>7, <1>8, <1>9 DEF StoreNext

\* What is known of every state of the store.
THEOREM StoreInvariant == StoreSpec => []StoreInv
<1>1. StoreInit => StoreInv
  BY DEF StoreInit, StoreInv, ViewsAreCurrent, UpToDate, SubscribersAreCurrent
<1>2. StoreInv /\ [StoreNext]_storeVars => StoreInv'
  BY StepsKeepStore
<1> QED
  BY <1>1, <1>2, PTL DEF StoreSpec

\* StoreHolds: an object that is handed out shows what is published, all the way down, whatever
\* was normalized, layered, swept or read before; and who watches an entity is called when
\* something it shows has changed, and only then.
THEOREM StoreTellsTheTruth == StoreSpec => StoreHolds
<1>1. StoreInv => ViewsAreCurrent /\ SubscribersAreCurrent
  BY DEF StoreInv
<1>2. StoreInv /\ [StoreNext]_storeVars => [Told]_storeVars
  BY StepsKeepStore
<1> QED
  BY <1>1, <1>2, StoreInvariant, PTL DEF StoreSpec, StoreHolds

=============================================================================
