--------------------------- MODULE IdentityCacheProofs ---------------------------
(***************************************************************************)
(* Proofs about IdentityCache, for any tokens, subjects, requests and      *)
(* handlers of events, and for any lives of its keys as long as entries    *)
(* are over before the tombs of ended tokens are.                          *)
(***************************************************************************)
EXTENDS IdentityCache, TLAPS

-----------------------------------------------------------------------------
(* The inductive invariant *)

Whoms == Subjects \cup {Everybody}
Told == [version : Nat, active : BOOLEAN]
Entries == [version : Nat, until : Nat]
Marks == [at : Nat, until : Nat]
Asked ==
    [step : {"dead", "cached", "introspect", "put"}, token : Tokens, started : Nat,
     version : Nat]
Tolds == UNION {[ts -> Nat] : ts \in SUBSET Tokens}
Flushing ==
    [step : {"clock", "mark", "read", "delete", "indexes"}, whom : Whoms, now : Nat,
     tokens : SUBSET Tokens, told : Tolds]
LogoutSteps == {"idle", "revoke", "bury", "unindex", "delete", "ended"}

Typed ==
    /\ clock \in Nat
    /\ provider \in [Tokens -> Told]
    /\ entry \in [Tokens -> Entries \cup {None}]
    /\ index \in [Subjects -> SUBSET Tokens]
    /\ marker \in [Whoms -> Marks \cup {None}]
    /\ dead \in [Tokens -> Nat \cup {None}]
    /\ request \in [Requests -> Asked \cup {Idle}]
    /\ logout \in [Tokens -> LogoutSteps]
    /\ flush \in [Flushes -> Flushing \cup {Idle}]
    /\ forgotten \in [Tokens -> Nat]

\* Times that were read are past, markers live long enough, and entries end in time.
InTime ==
    /\ \A m \in Whoms : marker[m] # None => marker[m].at + MarkerLife <= marker[m].until
    /\ \A r \in Requests : request[r] # Idle => request[r].started <= clock
    /\ \A f \in Flushes : flush[f] # Idle => flush[f].now <= clock
    /\ \A t \in Tokens : Cached(t) =>
          clock <= entry[t].until /\ entry[t].until <= clock + EntryLife

\* The entry of an ended token is over before the token's tomb.
EntriesEndFirst == \A t \in Tokens : Cached(t) /\ Dead(t) => entry[t].until < dead[t]

\* No event tells of versions that are still to come, and each marks its tokens' subject.
InOrder ==
    /\ \A t \in Tokens : forgotten[t] <= provider[t].version
    /\ \A f \in Flushes : flush[f] # Idle =>
          \A t \in DOMAIN flush[f].told :
             /\ flush[f].told[t] <= provider[t].version
             /\ flush[f].whom \in {Subject(t), Everybody}

\* An answer that an event overtakes was asked for before the event's handler reads the
\* clock.
Tells(f, t) == t \in DOMAIN flush[f].told
AskedBefore ==
    \A f \in Flushes, r \in Requests :
        /\ flush[f].step = "mark" /\ request[r].step = "put"
        /\ Tells(f, request[r].token)
        /\ request[r].version < flush[f].told[request[r].token]
        => request[r].started <= flush[f].now

\* Such an answer, once the event's marker is set, is kept out or comes late.
Overtaken(t, version) ==
    \/ version < forgotten[t]
    \/ \E f \in Flushes :
          /\ flush[f].step \in {"read", "delete", "indexes"}
          /\ Tells(f, t)
          /\ version < flush[f].told[t]
LateAnswersAreBarred ==
    \A r \in Requests :
        /\ request[r].step = "put"
        /\ Overtaken(request[r].token, request[r].version)
        => MarkedSince(marker, request[r].token, request[r].started) \/ Late(r)

\* What a flush has not read by now is newer than its event, or known to be lost to it.
FlushesFindAll ==
    \A f \in Flushes :
        flush[f].step \in {"delete", "indexes"} =>
            \A t \in DOMAIN flush[f].told :
                Cached(t) /\ entry[t].version < flush[f].told[t] =>
                    \/ flush[f].step = "delete" /\ t \in flush[f].tokens
                    \/ t \in orphaned \cup late

\* A token is buried for good: the provider gives no more answers, and those that are on
\* their way are kept out or come late.
BuriedForGood ==
    /\ \A t \in Tokens : logout[t] # "idle" => provider[t].version > 0
    /\ \A t \in Tokens : t \in buried => ~ provider[t].active /\ provider[t].version > 0
    /\ \A r \in Requests :
          request[r].step = "put" /\ request[r].token \in buried =>
              \/ Late(r)
              \/ /\ Dead(request[r].token)
                 /\ request[r].started + DeadLife <= dead[request[r].token]

IInv ==
    /\ Typed /\ InTime /\ EntriesEndFirst /\ InOrder /\ AskedBefore
    /\ LateAnswersAreBarred /\ FlushesFindAll /\ BuriedForGood
    /\ LogoutHolds /\ AppliedEventsHold /\ IndexComplete

-----------------------------------------------------------------------------
(* Helpers *)

\* A request or a handler that is at work is not idle.
LEMMA BusyRequest ==
    ASSUME Typed, NEW r \in Requests, request[r].step # "idle"
    PROVE  /\ request[r] \in Asked /\ request[r] # Idle
           /\ request[r].token \in Tokens /\ request[r].started \in Nat
           /\ request[r].version \in Nat
BY DEF Typed, Idle, Asked

LEMMA BusyFlush ==
    ASSUME Typed, NEW f \in Flushes, flush[f].step # "idle" \/ flush[f] # Idle
    PROVE  /\ flush[f] \in Flushing /\ flush[f] # Idle /\ flush[f].now \in Nat
           /\ flush[f].whom \in Whoms /\ flush[f].tokens \in SUBSET Tokens
           /\ DOMAIN flush[f].told \subseteq Tokens
           /\ \A t \in DOMAIN flush[f].told : flush[f].told[t] \in Nat
<1>1. flush[f] \in Flushing /\ flush[f] # Idle
  BY DEF Typed, Idle
<1>2. /\ flush[f].told \in Tolds /\ flush[f].now \in Nat /\ flush[f].whom \in Whoms
      /\ flush[f].tokens \in SUBSET Tokens
  BY <1>1 DEF Flushing
<1>3. PICK ts \in SUBSET Tokens : flush[f].told \in [ts -> Nat]
  BY <1>2 DEF Tolds
<1> QED
  BY <1>1, <1>2, <1>3

LEMMA SetRequest ==
    ASSUME Typed, NEW r \in Requests, NEW x \in Asked \cup {Idle},
           request' = [request EXCEPT ![r] = x]
    PROVE  /\ request' \in [Requests -> Asked \cup {Idle}]
           /\ request'[r] = x
           /\ \A q \in Requests : q # r => request'[q] = request[q]
BY DEF Typed

LEMMA SetFlush ==
    ASSUME Typed, NEW f \in Flushes, NEW x \in Flushing \cup {Idle},
           flush' = [flush EXCEPT ![f] = x]
    PROVE  /\ flush' \in [Flushes -> Flushing \cup {Idle}]
           /\ flush'[f] = x
           /\ \A g \in Flushes : g # f => flush'[g] = flush[g]
BY DEF Typed

\* An entry, a marker or a tomb is not None.
LEMMA KeysAreThere ==
    ASSUME Typed
    PROVE  /\ \A e \in Entries : e # None
           /\ \A m \in Marks : m # None
           /\ \A n \in Nat : n # None
           /\ \A t \in Tokens : Cached(t) => entry[t] \in Entries /\ entry[t].until \in Nat
                                             /\ entry[t].version \in Nat
           /\ \A t \in Tokens : Dead(t) => dead[t] \in Nat
           /\ \A m \in Whoms : marker[m] # None =>
                 marker[m] \in Marks /\ marker[m].at \in Nat /\ marker[m].until \in Nat
BY NoneAssumption DEF Typed, Cached, Dead, Entries, Marks

\* Who comes late does so from then on.
LEMMA LateStays ==
    ASSUME Typed, NEW r \in Requests, request[r].step = "put", request'[r] = request[r],
           Late(r), clock' \in Nat, clock <= clock', r \in outrun => r \in outrun'
    PROVE  Late(r)'
<1>1. request[r].started \in Nat /\ clock \in Nat
  BY BusyRequest DEF Typed
<1> QED
  BY <1>1, LivesAssumption DEF Late

\* What neither entries nor flushes see leaves both as they are.
LEMMA EntriesStay ==
    ASSUME FlushesFindAll, AppliedEventsHold, IndexComplete,
           UNCHANGED <<entry, index, flush, forgotten, orphaned, late>>
    PROVE  FlushesFindAll' /\ AppliedEventsHold' /\ IndexComplete'
BY DEF FlushesFindAll, AppliedEventsHold, IndexComplete, Cached

\* What neither answers nor markers see leaves both as they are.
LEMMA AnswersStay ==
    ASSUME AskedBefore, LateAnswersAreBarred,
           UNCHANGED <<clock, marker, request, flush, forgotten, outrun>>
    PROVE  AskedBefore' /\ LateAnswersAreBarred'
BY DEF AskedBefore, LateAnswersAreBarred, Overtaken, Tells, MarkedSince, Late

LEMMA BurialsStay ==
    ASSUME BuriedForGood, EntriesEndFirst, LogoutHolds,
           UNCHANGED <<clock, provider, entry, dead, request, logout, outrun, late, buried>>
    PROVE  BuriedForGood' /\ EntriesEndFirst' /\ LogoutHolds'
BY DEF BuriedForGood, EntriesEndFirst, LogoutHolds, Cached, Dead, Late

-----------------------------------------------------------------------------
(* Requests *)

\* A request goes a step further, and an answer that comes with it is the latest.
RequestGoes(r, x) ==
    /\ request' = [request EXCEPT ![r] = x]
    /\ \/ x = Idle
       \/ /\ x \in Asked
          /\ x.started <= clock
          /\ x.step = "put" =>
                provider[x.token].active /\ x.version = provider[x.token].version
    /\ \A q \in Requests : q # r => (q \in outrun <=> q \in outrun')
    /\ UNCHANGED <<clock, provider, entry, index, marker, dead, logout, flush, forgotten,
                   orphaned, late, buried>>

LEMMA RequestKeeps ==
    ASSUME IInv, NEW r \in Requests, NEW x, RequestGoes(r, x)
    PROVE  IInv'
<1>1. /\ Typed /\ InTime /\ EntriesEndFirst /\ InOrder /\ AskedBefore
      /\ LateAnswersAreBarred /\ FlushesFindAll /\ BuriedForGood
      /\ LogoutHolds /\ AppliedEventsHold /\ IndexComplete
  BY DEF IInv
<1>2. /\ UNCHANGED <<clock, provider, entry, index, marker, dead, logout, flush, forgotten,
                     orphaned, late, buried>>
      /\ x \in Asked \cup {Idle}
      /\ x # Idle => /\ x \in Asked
                     /\ x.started <= clock
                     /\ x.step = "put" =>
                           provider[x.token].active /\ x.version = provider[x.token].version
      /\ \A q \in Requests : q # r => (q \in outrun <=> q \in outrun')
  BY DEF RequestGoes
<1>3. /\ request' \in [Requests -> Asked \cup {Idle}]
      /\ request'[r] = x
      /\ \A q \in Requests : q # r => request'[q] = request[q]
  BY <1>1, <1>2, SetRequest DEF RequestGoes
<1>4. Idle.step = "idle"
  BY DEF Idle
<1>5. Typed'
  BY <1>1, <1>2, <1>3 DEF Typed
<1>6. InTime'
  BY <1>1, <1>2, <1>3 DEF InTime, Cached
<1>7. InOrder'
  BY <1>1, <1>2 DEF InOrder
\* The answer that comes now is the latest.
<1>8. ASSUME x # Idle, x.step = "put"
      PROVE  /\ x.token \in Tokens /\ x.version \in Nat
             /\ ~ Overtaken(x.token, x.version)
             /\ \A f \in Flushes : flush[f].step = "mark" /\ Tells(f, x.token) =>
                   ~ x.version < flush[f].told[x.token]
  <2>1. x.token \in Tokens /\ x.version \in Nat /\ x.version = provider[x.token].version
    BY <1>2, <1>8 DEF Asked
  <2>2. ~ x.version < forgotten[x.token]
    BY <2>1, <1>1 DEF Typed, InOrder
  <2>3. ASSUME NEW f \in Flushes, flush[f].step # "idle", Tells(f, x.token)
        PROVE  ~ x.version < flush[f].told[x.token]
    <3>1. flush[f].told[x.token] \in Nat /\ flush[f] # Idle
      BY <2>3, <1>1, BusyFlush DEF Tells
    <3>2. flush[f].told[x.token] <= provider[x.token].version
      BY <2>3, <3>1, <1>1 DEF InOrder, Tells
    <3> QED
      BY <3>1, <3>2, <2>1
  <2> QED
    BY <2>1, <2>2, <2>3 DEF Overtaken
<1>9. AskedBefore'
  <2>1. ASSUME NEW f \in Flushes, NEW q \in Requests,
               flush[f].step = "mark", request'[q].step = "put",
               Tells(f, request'[q].token),
               request'[q].version < flush[f].told[request'[q].token]
        PROVE  request'[q].started <= flush[f].now
    <3>1. q # r
      BY <2>1, <1>3, <1>4, <1>8
    <3>2. request'[q] = request[q]
      BY <3>1, <1>3
    <3> QED
      BY <2>1, <3>2, <1>1 DEF AskedBefore
  <2> QED
    BY <2>1, <1>2 DEF AskedBefore, Tells
<1>10. LateAnswersAreBarred'
  <2>1. ASSUME NEW q \in Requests, request'[q].step = "put",
               Overtaken(request'[q].token, request'[q].version)
        PROVE  /\ q # r
               /\ request'[q] = request[q]
               /\ MarkedSince(marker, request[q].token, request[q].started) \/ Late(q)
    <3>1. q # r
      BY <2>1, <1>3, <1>4, <1>8
    <3> QED
      BY <2>1, <3>1, <1>1, <1>3 DEF LateAnswersAreBarred
  <2>2. ASSUME NEW q \in Requests, q # r, Late(q)
        PROVE  Late(q)'
    BY <2>2, <1>2, <1>3 DEF Late
  <2> QED
    BY <2>1, <2>2, <1>2 DEF LateAnswersAreBarred, Overtaken, Tells, MarkedSince
<1>11. BuriedForGood'
  <2>1. ASSUME NEW q \in Requests, request'[q].step = "put", request'[q].token \in buried
        PROVE  \/ Late(q)'
               \/ /\ Dead(request'[q].token)
                  /\ request'[q].started + DeadLife <= dead[request'[q].token]
    <3>1. q # r
      BY <2>1, <1>1, <1>2, <1>3, <1>4, <1>8 DEF BuriedForGood
    <3>2. request'[q] = request[q]
      BY <3>1, <1>3
    <3>3. Late(q) => Late(q)'
      BY <3>1, <3>2, <1>2 DEF Late
    <3> QED
      BY <2>1, <3>2, <3>3, <1>1 DEF BuriedForGood
  <2> QED
    BY <2>1, <1>1, <1>2 DEF BuriedForGood, Dead
<1>12. EntriesEndFirst' /\ LogoutHolds'
  BY <1>1, <1>2 DEF EntriesEndFirst, LogoutHolds, Cached, Dead
<1>13. FlushesFindAll' /\ AppliedEventsHold' /\ IndexComplete'
  BY <1>1, <1>2, EntriesStay
<1> QED
  BY <1>5, <1>6, <1>7, <1>9, <1>10, <1>11, <1>12, <1>13 DEF IInv

LEMMA AuthenticateKeeps ==
    ASSUME IInv, NEW r \in Requests, NEW t \in Tokens, Authenticate(r, t)
    PROVE  IInv'
<1> DEFINE x == [step |-> "dead", token |-> t, started |-> clock, version |-> 0]
<1>1. clock \in Nat
  BY DEF IInv, Typed
<1>2. x \in Asked /\ x.started <= clock /\ x.step # "put"
  BY <1>1 DEF Asked
<1>3. /\ request' = [request EXCEPT ![r] = x]
      /\ outrun' = outrun \ {r}
      /\ UNCHANGED <<clock, provider, entry, index, marker, dead, logout, flush, forgotten,
                     orphaned, late, buried>>
  BY DEF Authenticate, cache
<1> HIDE DEF x
<1>4. RequestGoes(r, x)
  BY <1>2, <1>3 DEF RequestGoes
<1> QED
  BY <1>4, RequestKeeps

LEMMA AnswerKeeps ==
    ASSUME IInv, NEW r \in Requests,
           LookIfDead(r) \/ FindCached(r) \/ Introspect(r) \/ PutNothing(r)
    PROVE  IInv'
<1>1. Typed /\ InTime
  BY DEF IInv
<1>2. request[r] \in Asked /\ request[r] # Idle
  BY <1>1, BusyRequest DEF LookIfDead, FindCached, Introspect, PutNothing
<1>3. request[r].started <= clock
  BY <1>1, <1>2 DEF InTime
<1>4. UNCHANGED <<clock, provider, entry, index, marker, dead, logout, flush, forgotten,
                  orphaned, outrun, late, buried>>
  BY DEF LookIfDead, FindCached, Introspect, PutNothing, cache, histories
<1>5. CASE Done(r)
  BY <1>4, <1>5, RequestKeeps DEF RequestGoes, Done
<1>6. ASSUME NEW step \in {"cached", "introspect"}, Goes(r, step)
      PROVE  IInv'
  <2> DEFINE x == [request[r] EXCEPT !.step = step]
  <2>1. x \in Asked /\ x.started = request[r].started /\ x.step = step
    BY <1>2 DEF Asked
  <2>2. request' = [request EXCEPT ![r] = x]
    BY <1>6, <1>1 DEF Goes, Typed
  <2> HIDE DEF x
  <2>3. RequestGoes(r, x)
    BY <2>1, <2>2, <1>3, <1>4 DEF RequestGoes
  <2> QED
    BY <2>3, RequestKeeps
<1>7. ASSUME request[r].step = "introspect", provider[request[r].token].active,
             request' = [request EXCEPT ![r].step = "put",
                            ![r].version = provider[request[r].token].version]
      PROVE  IInv'
  <2> DEFINE t == request[r].token
             x == [request[r] EXCEPT !.step = "put", !.version = provider[t].version]
  <2>1. t \in Tokens
    BY <1>2 DEF Asked
  <2>2. provider[t].version \in Nat
    BY <2>1, <1>1 DEF Typed, Told
  <2>3. /\ x \in Asked /\ x.started = request[r].started /\ x.token = t
        /\ x.version = provider[t].version
    BY <1>2, <2>2 DEF Asked
  <2>4. request' = [request EXCEPT ![r] = x]
    BY <1>7, <1>1 DEF Typed
  <2>5. provider[t].active
    BY <1>7
  <2> HIDE DEF x, t
  <2>6. RequestGoes(r, x)
    BY <2>3, <2>4, <2>5, <1>3, <1>4 DEF RequestGoes
  <2> QED
    BY <2>6, RequestKeeps
<1>8. \/ Done(r)
      \/ \E step \in {"cached", "introspect"} : Goes(r, step)
      \/ /\ request[r].step = "introspect" /\ provider[request[r].token].active
         /\ request' = [request EXCEPT ![r].step = "put",
                           ![r].version = provider[request[r].token].version]
  BY DEF LookIfDead, FindCached, Introspect, PutNothing, Accepted
<1> QED
  BY <1>5, <1>6, <1>7, <1>8

\* What is stored is not older than any event whose marker is set, or comes late.
LEMMA PutKeeps ==
    ASSUME IInv, NEW r \in Requests, Put(r)
    PROVE  IInv'
<1> DEFINE t == request[r].token
           e == [version |-> request[r].version, until |-> clock + EntryLife]
<1>1. /\ Typed /\ InTime /\ EntriesEndFirst /\ InOrder /\ AskedBefore
      /\ LateAnswersAreBarred /\ FlushesFindAll /\ BuriedForGood
      /\ LogoutHolds /\ AppliedEventsHold /\ IndexComplete
  BY DEF IInv
<1>2. /\ request[r].step = "put" /\ MayStore(t, request[r].started)
      /\ entry' = [entry EXCEPT ![t] = e]
      /\ index' = [index EXCEPT ![Subject(t)] = @ \cup {t}]
      /\ orphaned' = orphaned \ {t}
      /\ late' = IF Late(r) THEN late \cup {t} ELSE late \ {t}
      /\ request' = [request EXCEPT ![r] = Idle]
      /\ UNCHANGED <<clock, provider, marker, dead, logout, flush, forgotten, outrun, buried>>
  BY DEF Put, Accepted, Done
<1>3. clock \in Nat /\ EntryLife \in Nat /\ clock + EntryLife \in Nat
  BY <1>1, LivesAssumption DEF Typed
<1>4. /\ request[r] \in Asked /\ t \in Tokens /\ e \in Entries /\ e # None
      /\ e.version = request[r].version /\ e.version \in Nat
      /\ e.until = clock + EntryLife /\ clock <= e.until
  BY <1>1, <1>2, <1>3, BusyRequest, KeysAreThere DEF Entries
<1>5. ~ Dead(t) /\ (Overtaken(t, e.version) \/ t \in buried => Late(r))
  BY <1>1, <1>2, <1>4 DEF LateAnswersAreBarred, MayStore, BuriedForGood
<1>6. /\ request' \in [Requests -> Asked \cup {Idle}]
      /\ request'[r] = Idle
      /\ \A q \in Requests : q # r => request'[q] = request[q]
  BY <1>1, <1>2, SetRequest
<1>7. \A q \in Requests : request'[q].step = "put" => request'[q] = request[q] /\ q # r
  BY <1>6 DEF Idle
<1> HIDE DEF e, t
<1>8. /\ entry' \in [Tokens -> Entries \cup {None}]
      /\ entry'[t] = e
      /\ \A u \in Tokens : u # t => entry'[u] = entry[u]
  BY <1>1, <1>2, <1>4 DEF Typed
<1>9. /\ index' \in [Subjects -> SUBSET Tokens]
      /\ t \in index'[Subject(t)]
      /\ \A u \in Tokens : index[Subject(u)] \subseteq index'[Subject(u)]
  <2>1. \A u \in Tokens : Subject(u) \in Subjects
    BY DEF Subjects
  <2> QED
    BY <2>1, <1>1, <1>2, <1>4 DEF Typed
<1>10. \A u \in Tokens : u # t => (u \in late <=> u \in late')
  BY <1>2
<1>11. Overtaken(t, e.version) \/ t \in buried => t \in late'
  BY <1>2, <1>5
<1>12. Typed'
  BY <1>1, <1>2, <1>6, <1>8, <1>9 DEF Typed
<1>13. InTime'
  <2>1. \A u \in Tokens : Cached(u)' =>
           clock <= entry'[u].until /\ entry'[u].until <= clock + EntryLife
    <3>1. e.until <= clock + EntryLife
      BY <1>3, <1>4
    <3> QED
      BY <3>1, <1>1, <1>4, <1>8 DEF InTime, Cached
  <2>2. \A q \in Requests : request'[q] # Idle => request'[q].started <= clock
    BY <1>1, <1>6 DEF InTime
  <2> QED
    BY <2>1, <2>2, <1>1, <1>2 DEF InTime
<1>14. EntriesEndFirst'
  BY <1>1, <1>2, <1>5, <1>8 DEF EntriesEndFirst, Cached, Dead
<1>15. InOrder'
  BY <1>1, <1>2 DEF InOrder
<1>16. \A q \in Requests : q # r /\ Late(q) => Late(q)'
  BY <1>2, <1>6 DEF Late
<1>17. AskedBefore'
  BY <1>1, <1>2, <1>7 DEF AskedBefore, Tells
<1>18. LateAnswersAreBarred'
  <2>1. ASSUME NEW q \in Requests, request'[q].step = "put",
               Overtaken(request'[q].token, request'[q].version)
        PROVE  MarkedSince(marker, request'[q].token, request'[q].started) \/ Late(q)'
    BY <2>1, <1>1, <1>7, <1>16 DEF LateAnswersAreBarred
  <2> QED
    BY <2>1, <1>2 DEF LateAnswersAreBarred, Overtaken, Tells, MarkedSince
<1>19. FlushesFindAll'
  <2>1. ASSUME NEW f \in Flushes, flush[f].step \in {"delete", "indexes"},
               NEW u \in DOMAIN flush[f].told,
               Cached(u)', entry'[u].version < flush[f].told[u]
        PROVE  \/ flush[f].step = "delete" /\ u \in flush[f].tokens
               \/ u \in orphaned' \cup late'
    <3>1. u \in Tokens
      BY <2>1, <1>1, BusyFlush
    <3>2. CASE u = t
      <4>1. Overtaken(t, e.version)
        BY <2>1, <3>2, <1>8 DEF Overtaken, Tells
      <4> QED
        BY <4>1, <3>2, <1>11
    <3>3. CASE u # t
      <4>1. Cached(u) /\ entry'[u] = entry[u]
        BY <2>1, <3>1, <3>3, <1>8 DEF Cached
      <4> QED
        BY <2>1, <3>1, <3>3, <4>1, <1>1, <1>2, <1>10 DEF FlushesFindAll
    <3> QED
      BY <3>2, <3>3
  <2> QED
    BY <2>1, <1>2 DEF FlushesFindAll
<1>20. BuriedForGood'
  BY <1>1, <1>2, <1>7, <1>16 DEF BuriedForGood, Dead
<1>21. LogoutHolds'
  BY <1>1, <1>2, <1>5, <1>8, <1>10, <1>11 DEF LogoutHolds, Cached, Dead
<1>22. AppliedEventsHold'
  BY <1>1, <1>2, <1>8, <1>10, <1>11 DEF AppliedEventsHold, Cached, Overtaken
<1>23. IndexComplete'
  BY <1>1, <1>2, <1>8, <1>9 DEF IndexComplete, Cached
<1> QED
  BY <1>12, <1>13, <1>14, <1>15, <1>17, <1>18, <1>19, <1>20, <1>21, <1>22, <1>23 DEF IInv

-----------------------------------------------------------------------------
(* The provider, logouts and time *)

\* Time passes, logins and revocations happen, and logouts go on without dropping
\* an entry.
GoesOn ==
    /\ clock' \in Nat /\ clock <= clock'
    /\ \A t \in Tokens : Cached(t) => clock' <= entry[t].until
    /\ provider' \in [Tokens -> Told]
    /\ \A t \in Tokens :
          /\ provider[t].version <= provider'[t].version
          /\ provider'[t].active => provider[t].active \/ provider[t].version = 0
    /\ logout' \in [Tokens -> LogoutSteps]
    /\ \A t \in Tokens : logout'[t] # "idle" => logout[t] # "idle" \/ provider[t].version > 0
    /\ \A t \in Tokens : logout'[t] = "ended" => logout[t] = "ended"
    /\ dead' \in [Tokens -> Nat \cup {None}]
    /\ \A t \in Tokens : dead'[t] # dead[t] =>
          dead'[t] = clock + DeadLife /\ logout'[t] # "ended"
    /\ \A t \in Tokens : t \in buried' /\ t \notin buried =>
          /\ dead'[t] = clock + DeadLife
          /\ ~ provider'[t].active /\ provider'[t].version > 0
    /\ buried \subseteq buried'
    /\ index' \in [Subjects -> SUBSET Tokens]
    /\ \A t \in Tokens : t \in index[Subject(t)] =>
          t \in index'[Subject(t)] \/ ~ Cached(t) \/ t \in orphaned'
    /\ orphaned \subseteq orphaned'
    /\ UNCHANGED <<entry, marker, request, flush, forgotten, outrun, late>>

LEMMA GoingOnKeeps ==
    ASSUME IInv, GoesOn
    PROVE  IInv'
<1>1. /\ Typed /\ InTime /\ EntriesEndFirst /\ InOrder /\ AskedBefore
      /\ LateAnswersAreBarred /\ FlushesFindAll /\ BuriedForGood
      /\ LogoutHolds /\ AppliedEventsHold /\ IndexComplete
  BY DEF IInv
<1>2. clock \in Nat /\ clock + DeadLife \in Nat /\ DeadLife \in Nat /\ EntryLife \in Nat
      /\ EntryLife < DeadLife
  BY <1>1, LivesAssumption DEF Typed
<1>3. \A t \in Tokens : provider[t].version \in Nat /\ provider'[t].version \in Nat
  BY <1>1 DEF GoesOn, Typed, Told
<1>4. \A t \in Tokens : Cached(t) => entry[t].until \in Nat
  BY <1>1, KeysAreThere
<1>5. \A t \in Tokens : Dead(t) => dead[t] \in Nat /\ Dead(t)'
  BY <1>1, <1>2, KeysAreThere DEF GoesOn, Dead
<1>6. Typed'
  BY <1>1 DEF GoesOn, Typed
<1>7. InTime'
  <2>1. \A r \in Requests : request[r] # Idle => request[r].started <= clock'
    <3>1. \A r \in Requests : request[r] # Idle =>
             request[r].started \in Nat /\ request[r].started <= clock
      BY <1>1 DEF Typed, InTime, Asked
    <3> QED
      BY <3>1, <1>2 DEF GoesOn
  <2>2. \A f \in Flushes : flush[f] # Idle => flush[f].now <= clock'
    <3>1. \A f \in Flushes : flush[f] # Idle => flush[f].now \in Nat /\ flush[f].now <= clock
      BY <1>1, BusyFlush DEF InTime
    <3> QED
      BY <3>1, <1>2 DEF GoesOn
  <2>3. \A t \in Tokens : Cached(t) =>
           clock' <= entry[t].until /\ entry[t].until <= clock' + EntryLife
    <3>1. \A t \in Tokens : Cached(t) =>
             entry[t].until \in Nat /\ entry[t].until <= clock + EntryLife
      BY <1>1, <1>4 DEF InTime
    <3> QED
      BY <3>1, <1>2 DEF GoesOn
  <2> QED
    BY <2>1, <2>2, <2>3, <1>1 DEF GoesOn, InTime, Cached
<1>8. EntriesEndFirst'
  <2>1. ASSUME NEW t \in Tokens, Cached(t), Dead(t)'
        PROVE  entry[t].until < dead'[t]
    <3>1. CASE dead'[t] = dead[t]
      BY <2>1, <3>1, <1>1 DEF EntriesEndFirst, Dead
    <3>2. CASE dead'[t] = clock + DeadLife
      <4>1. entry[t].until \in Nat /\ entry[t].until <= clock + EntryLife
        BY <2>1, <1>1, <1>4 DEF InTime
      <4> QED
        BY <4>1, <3>2, <1>2
    <3> QED
      BY <3>1, <3>2 DEF GoesOn
  <2> QED
    BY <2>1 DEF GoesOn, EntriesEndFirst, Cached
<1>9. InOrder'
  <2>1. \A t \in Tokens : forgotten[t] <= provider'[t].version
    <3>1. \A t \in Tokens : forgotten[t] \in Nat /\ forgotten[t] <= provider[t].version
      BY <1>1 DEF Typed, InOrder
    <3> QED
      BY <3>1, <1>3 DEF GoesOn
  <2>2. ASSUME NEW f \in Flushes, flush[f] # Idle, NEW t \in DOMAIN flush[f].told
        PROVE  /\ flush[f].told[t] <= provider'[t].version
               /\ flush[f].whom \in {Subject(t), Everybody}
    <3>1. t \in Tokens /\ flush[f].told[t] \in Nat
      BY <2>2, <1>1, BusyFlush
    <3>2. flush[f].told[t] <= provider[t].version
          /\ flush[f].whom \in {Subject(t), Everybody}
      BY <2>2, <1>1 DEF InOrder
    <3> QED
      BY <3>1, <3>2, <1>3 DEF GoesOn
  <2> QED
    BY <2>1, <2>2 DEF GoesOn, InOrder
<1>10. \A r \in Requests : request[r].step = "put" /\ Late(r) => Late(r)'
  BY <1>1, LateStays DEF GoesOn
<1>11. AskedBefore'
  BY <1>1 DEF GoesOn, AskedBefore, Tells
<1>12. LateAnswersAreBarred'
  BY <1>1, <1>10 DEF GoesOn, LateAnswersAreBarred, Overtaken, Tells, MarkedSince
<1>13. FlushesFindAll'
  BY <1>1 DEF GoesOn, FlushesFindAll, Cached
<1>14. BuriedForGood'
  <2>1. \A t \in Tokens : logout'[t] # "idle" => provider'[t].version > 0
    BY <1>1, <1>3 DEF GoesOn, BuriedForGood
  <2>2. ASSUME NEW t \in Tokens, t \in buried'
        PROVE  ~ provider'[t].active /\ provider'[t].version > 0
    <3>1. CASE t \in buried
      BY <3>1, <1>1, <1>3 DEF GoesOn, BuriedForGood
    <3>2. CASE t \notin buried
      BY <2>2, <3>2 DEF GoesOn
    <3> QED
      BY <3>1, <3>2
  <2>3. ASSUME NEW r \in Requests, request[r].step = "put", request[r].token \in buried',
               ~ Late(r)'
        PROVE  /\ dead'[request[r].token] # None
               /\ request[r].started + DeadLife <= dead'[request[r].token]
    <3> DEFINE t == request[r].token
               started == request[r].started
    <3>1. t \in Tokens /\ started \in Nat /\ started <= clock
      BY <2>3, <1>1, BusyRequest DEF InTime
    <3>2. CASE dead'[t] = clock + DeadLife
      <4>1. dead'[t] # None
        BY <3>2, <1>1, <1>2, KeysAreThere
      <4> QED
        BY <3>1, <3>2, <4>1, <1>2
    <3>3. CASE dead'[t] = dead[t] /\ t \in buried
      BY <2>3, <3>1, <3>3, <1>1, <1>10 DEF BuriedForGood, Dead
    <3> QED
      BY <2>3, <3>1, <3>2, <3>3 DEF GoesOn
  <2> QED
    BY <2>1, <2>2, <2>3 DEF GoesOn, BuriedForGood, Dead
<1>15. LogoutHolds'
  <2>1. ASSUME NEW t \in Tokens, Cached(t)
        PROVE  /\ ~ (logout'[t] = "ended" /\ Dead(t)')
               /\ t \in buried' => Dead(t)' \/ t \in late
    <3>1. ~ (logout'[t] = "ended" /\ Dead(t)')
      BY <2>1, <1>1 DEF GoesOn, LogoutHolds, Dead
    <3>2. CASE t \in buried
      BY <2>1, <3>1, <3>2, <1>1, <1>5 DEF LogoutHolds
    <3>3. CASE t \in buried' /\ t \notin buried
      BY <3>1, <3>3, <1>1, <1>2, KeysAreThere DEF GoesOn, Dead
    <3> QED
      BY <3>1, <3>2, <3>3
  <2> QED
    BY <2>1 DEF GoesOn, LogoutHolds, Cached
<1>16. AppliedEventsHold' /\ IndexComplete'
  BY <1>1 DEF GoesOn, AppliedEventsHold, IndexComplete, Cached
<1> QED
  BY <1>6, <1>7, <1>8, <1>9, <1>11, <1>12, <1>13, <1>14, <1>15, <1>16 DEF IInv

LEMMA TickGoesOn ==
    ASSUME IInv, Tick
    PROVE  GoesOn
<1>1. Typed
  BY DEF IInv
<1>2. clock \in Nat /\ \A t \in Tokens : provider[t].version \in Nat
  BY <1>1 DEF Typed, Told
<1>3. \A t \in Tokens : Cached(t) => clock + 1 <= entry[t].until
  BY <1>1, <1>2, KeysAreThere DEF Tick
<1> QED
  BY <1>1, <1>2, <1>3 DEF Tick, cache, histories, GoesOn, Typed

LEMMA TokenStepGoesOn ==
    ASSUME IInv, NEW t \in Tokens,
           CompleteLogin(t) \/ Logout(t) \/ Revoke(t) \/ Bury(t) \/ Unindex(t) \/ LogoutFails(t)
    PROVE  GoesOn
<1>1. Typed /\ BuriedForGood
  BY DEF IInv
<1>2. \A u \in Tokens : provider[u].version \in Nat
  BY <1>1 DEF Typed, Told
<1>3. clock \in Nat /\ clock + DeadLife \in Nat
  BY <1>1, LivesAssumption DEF Typed
<1>4. \A u \in Tokens : Cached(u) => clock <= entry[u].until
  BY DEF IInv, InTime
<1>5. CASE CompleteLogin(t)
  <2>1. [version |-> 1, active |-> TRUE] \in Told
    BY DEF Told
  <2>2. provider[t].version = 0
    BY <1>2, <1>5 DEF CompleteLogin, Issued
  <2>3. provider' = [provider EXCEPT ![t] = [version |-> 1, active |-> TRUE]]
    BY <1>5 DEF CompleteLogin
  <2>4. provider' \in [Tokens -> Told]
    BY <2>1, <2>3, <1>1 DEF Typed
  <2>5. provider'[t].version = 1 /\ \A u \in Tokens : u # t => provider'[u] = provider[u]
    BY <2>3, <1>1 DEF Typed
  <2>6. \A u \in Tokens :
           /\ provider[u].version <= provider'[u].version
           /\ provider'[u].active => provider[u].active \/ provider[u].version = 0
    BY <2>2, <2>5, <1>2
  <2> QED
    BY <2>4, <2>6, <1>1, <1>3, <1>4, <1>5
    DEF CompleteLogin, cache, histories, GoesOn, Typed
<1>6. CASE Logout(t)
  BY <1>1, <1>2, <1>3, <1>4, <1>6
  DEF Logout, Issued, cache, histories, GoesOn, Typed, LogoutSteps
<1>7. CASE Revoke(t)
  <2> DEFINE p == [provider EXCEPT ![t].active = FALSE]
  <2>1. /\ p \in [Tokens -> Told]
        /\ \A u \in Tokens : p[u].version = provider[u].version
        /\ \A u \in Tokens : p[u].active => provider[u].active
    BY <1>1 DEF Typed, Told
  <2> HIDE DEF p
  <2>2. p = provider' \/ provider = provider'
    BY <1>7 DEF Revoke, p
  <2>3. /\ provider' \in [Tokens -> Told]
        /\ \A u \in Tokens :
              /\ provider[u].version <= provider'[u].version
              /\ provider'[u].active => provider[u].active
    BY <2>1, <2>2, <1>1, <1>2 DEF Typed
  <2> QED
    BY <2>3, <1>1, <1>2, <1>3, <1>4, <1>7
    DEF Revoke, cache, histories, GoesOn, Typed, LogoutSteps
<1>8. CASE Bury(t)
  <2>1. logout[t] = "bury" /\ provider[t].version > 0
    BY <1>1, <1>8 DEF Bury, BuriedForGood
  <2>2. /\ dead' = [dead EXCEPT ![t] = clock + DeadLife]
        /\ logout' = [logout EXCEPT ![t] = "unindex"]
        /\ buried' = IF provider[t].active THEN buried ELSE buried \cup {t}
        /\ UNCHANGED <<clock, provider, entry, index, marker, request, flush, forgotten,
                       orphaned, outrun, late>>
    BY <1>8 DEF Bury
  <2>3. /\ dead' \in [Tokens -> Nat \cup {None}] /\ dead'[t] = clock + DeadLife
        /\ \A u \in Tokens : u # t => dead'[u] = dead[u]
        /\ logout' \in [Tokens -> LogoutSteps] /\ logout'[t] = "unindex"
        /\ \A u \in Tokens : u # t => logout'[u] = logout[u]
    BY <2>2, <1>1, <1>3 DEF Typed, LogoutSteps
  <2> QED
    BY <2>1, <2>2, <2>3, <1>1, <1>2, <1>3, <1>4 DEF GoesOn, Typed
<1>9. CASE Unindex(t)
  <2>1. Subject(t) \in Subjects /\ \A u \in Tokens : Subject(u) \in Subjects
    BY DEF Subjects
  <2>2. /\ index' \in [Subjects -> SUBSET Tokens]
        /\ orphaned \subseteq orphaned'
        /\ \A u \in Tokens : u \in index[Subject(u)] =>
              u \in index'[Subject(u)] \/ ~ Cached(u) \/ u \in orphaned'
    BY <2>1, <1>1, <1>9 DEF Unindex, Typed
  <2> QED
    BY <2>2, <1>1, <1>2, <1>3, <1>4, <1>9 DEF Unindex, GoesOn, Typed, LogoutSteps
<1>10. CASE LogoutFails(t)
  BY <1>1, <1>2, <1>3, <1>4, <1>10
  DEF LogoutFails, cache, histories, GoesOn, Typed, LogoutSteps
<1> QED
  BY <1>5, <1>6, <1>7, <1>8, <1>9, <1>10

\* An entry is dropped; when a logout has dropped it, it ends.
LEMMA DropKeeps ==
    ASSUME IInv, NEW t \in Tokens, Expire(t) \/ DeleteToken(t)
    PROVE  IInv'
<1>1. /\ Typed /\ InTime /\ EntriesEndFirst /\ InOrder /\ AskedBefore
      /\ LateAnswersAreBarred /\ FlushesFindAll /\ BuriedForGood
      /\ LogoutHolds /\ AppliedEventsHold /\ IndexComplete
  BY DEF IInv
<1>2. /\ entry' = [entry EXCEPT ![t] = None]
      /\ UNCHANGED <<clock, provider, index, marker, dead, request, flush, forgotten,
                     orphaned, outrun, late, buried>>
  BY DEF Expire, DeleteToken, histories
<1>3. /\ logout' \in [Tokens -> LogoutSteps]
      /\ logout[t] # "idle" \/ logout'[t] = logout[t]
      /\ \A u \in Tokens : u # t => logout'[u] = logout[u]
  BY <1>1 DEF Expire, DeleteToken, Typed, LogoutSteps
<1>4. /\ entry' \in [Tokens -> Entries \cup {None}]
      /\ ~ Cached(t)'
      /\ \A u \in Tokens : u # t => entry'[u] = entry[u]
      /\ \A u \in Tokens : Cached(u)' => u # t /\ Cached(u)
  BY <1>1, <1>2 DEF Typed, Cached
<1>5. Typed'
  BY <1>1, <1>2, <1>3, <1>4 DEF Typed
<1>6. InTime' /\ EntriesEndFirst'
  BY <1>1, <1>2, <1>4 DEF InTime, EntriesEndFirst, Dead
<1>7. InOrder'
  BY <1>1, <1>2 DEF InOrder
<1>8. AskedBefore' /\ LateAnswersAreBarred'
  BY <1>1, <1>2, AnswersStay
<1>9. FlushesFindAll'
  <2>1. \A f \in Flushes : flush[f].step \in {"delete", "indexes"} =>
           DOMAIN flush[f].told \subseteq Tokens
    BY <1>1, BusyFlush
  <2> QED
    BY <2>1, <1>1, <1>2, <1>4 DEF FlushesFindAll
<1>10. BuriedForGood'
  BY <1>1, <1>2, <1>3 DEF BuriedForGood, Dead, Late
<1>11. LogoutHolds'
  BY <1>1, <1>2, <1>3, <1>4 DEF LogoutHolds, Dead
<1>12. AppliedEventsHold' /\ IndexComplete'
  BY <1>1, <1>2, <1>4 DEF AppliedEventsHold, IndexComplete
<1> QED
  BY <1>5, <1>6, <1>7, <1>8, <1>9, <1>10, <1>11, <1>12 DEF IInv

-----------------------------------------------------------------------------
(* Keys that are over *)

\* Answers that outlast a marker are late.
LEMMA MarkerExpiresKeeps ==
    ASSUME IInv, NEW m \in Whoms, MarkerExpires(m)
    PROVE  IInv'
<1>1. /\ Typed /\ InTime /\ EntriesEndFirst /\ InOrder /\ AskedBefore
      /\ LateAnswersAreBarred /\ FlushesFindAll /\ BuriedForGood
      /\ LogoutHolds /\ AppliedEventsHold /\ IndexComplete
  BY DEF IInv
<1>2. /\ marker' = [marker EXCEPT ![m] = None] /\ marker[m] # None
      /\ marker[m].until <= clock
      /\ UNCHANGED <<clock, provider, entry, index, dead, request, logout, flush, forgotten,
                     orphaned, outrun, late, buried>>
  BY DEF MarkerExpires, histories
<1>3. /\ marker' \in [Whoms -> Marks \cup {None}]
      /\ \A n \in Whoms : n # m => marker'[n] = marker[n]
      /\ marker'[m] = None
  BY <1>1, <1>2 DEF Typed
<1>4. Typed'
  BY <1>1, <1>2, <1>3 DEF Typed
<1>5. InTime'
  BY <1>1, <1>2, <1>3 DEF InTime, Cached
<1>6. InOrder'
  BY <1>1, <1>2 DEF InOrder
<1>7. AskedBefore'
  BY <1>1, <1>2 DEF AskedBefore, Tells
<1>8. LateAnswersAreBarred'
  <2>1. ASSUME NEW r \in Requests, request[r].step = "put",
               MarkedSince(marker, request[r].token, request[r].started)
        PROVE  MarkedSince(marker', request[r].token, request[r].started) \/ Late(r)
    <3>1. /\ request[r].token \in Tokens /\ request[r].started \in Nat
          /\ clock \in Nat /\ MarkerLife \in Nat
      BY <2>1, <1>1, BusyRequest, LivesAssumption DEF Typed
    <3>2. PICK n \in {Subject(request[r].token), Everybody} :
             marker[n] # None /\ marker[n].at >= request[r].started
      BY <2>1 DEF MarkedSince
    <3>3. n \in Whoms /\ marker[n].at \in Nat /\ marker[n].until \in Nat
      BY <3>1, <3>2, <1>1, KeysAreThere DEF Whoms, Subjects
    <3>4. CASE n = m
      <4>1. marker[n].at + MarkerLife <= marker[n].until
        BY <3>2, <3>3, <1>1 DEF InTime
      <4>2. request[r].started + MarkerLife <= clock
        BY <3>1, <3>2, <3>3, <3>4, <4>1, <1>2
      <4> QED
        BY <4>2 DEF Late
    <3>5. CASE n # m
      BY <3>2, <3>3, <3>5, <1>3 DEF MarkedSince
    <3> QED
      BY <3>4, <3>5
  <2> QED
    BY <2>1, <1>1, <1>2 DEF LateAnswersAreBarred, Overtaken, Tells, Late, MarkedSince
<1>9. BuriedForGood' /\ EntriesEndFirst' /\ LogoutHolds'
  BY <1>1, <1>2, BurialsStay
<1>10. FlushesFindAll' /\ AppliedEventsHold' /\ IndexComplete'
  BY <1>1, <1>2, EntriesStay
<1> QED
  BY <1>4, <1>5, <1>6, <1>7, <1>8, <1>9, <1>10 DEF IInv

\* And so are those that outlast a tomb, whose token is not cached any more.
LEMMA DeadExpiresKeeps ==
    ASSUME IInv, NEW t \in Tokens, DeadExpires(t)
    PROVE  IInv'
<1>1. /\ Typed /\ InTime /\ EntriesEndFirst /\ InOrder /\ AskedBefore
      /\ LateAnswersAreBarred /\ FlushesFindAll /\ BuriedForGood
      /\ LogoutHolds /\ AppliedEventsHold /\ IndexComplete
  BY DEF IInv
<1>2. /\ Dead(t) /\ dead[t] <= clock /\ dead' = [dead EXCEPT ![t] = None]
      /\ UNCHANGED <<clock, provider, entry, index, marker, request, logout, flush, forgotten,
                     orphaned, outrun, late, buried>>
  BY DEF DeadExpires, histories
<1>3. /\ dead' \in [Tokens -> Nat \cup {None}]
      /\ ~ Dead(t)' /\ \A u \in Tokens : u # t => dead'[u] = dead[u]
      /\ \A u \in Tokens : Dead(u)' => u # t /\ Dead(u)
  BY <1>1, <1>2 DEF Typed, Dead
<1>4. clock \in Nat /\ DeadLife \in Nat /\ dead[t] \in Nat
  BY <1>1, <1>2, LivesAssumption, KeysAreThere DEF Typed
<1>5. ~ Cached(t)
  <2>1. ASSUME Cached(t)
        PROVE  FALSE
    <3>1. entry[t].until \in Nat /\ clock <= entry[t].until /\ entry[t].until < dead[t]
      BY <2>1, <1>1, <1>2, KeysAreThere DEF InTime, EntriesEndFirst
    <3> QED
      BY <3>1, <1>2, <1>4
  <2> QED
    BY <2>1
<1>6. Typed'
  BY <1>1, <1>2, <1>3 DEF Typed
<1>7. InTime'
  BY <1>1, <1>2 DEF InTime, Cached
<1>8. InOrder'
  BY <1>1, <1>2 DEF InOrder
<1>9. AskedBefore' /\ LateAnswersAreBarred'
  BY <1>1, <1>2, AnswersStay
<1>10. EntriesEndFirst' /\ LogoutHolds'
  BY <1>1, <1>2, <1>3, <1>5 DEF EntriesEndFirst, LogoutHolds, Cached, Dead
<1>11. BuriedForGood'
  <2>1. ASSUME NEW r \in Requests, request[r].step = "put", request[r].token \in buried,
               ~ Late(r)
        PROVE  /\ dead'[request[r].token] # None
               /\ request[r].started + DeadLife <= dead'[request[r].token]
    <3>1. request[r].token \in Tokens /\ request[r].started \in Nat
      BY <2>1, <1>1, BusyRequest
    <3>2. /\ dead[request[r].token] # None
          /\ request[r].started + DeadLife <= dead[request[r].token]
      BY <2>1, <1>1 DEF BuriedForGood, Dead
    <3>3. CASE request[r].token = t
      <4>1. request[r].started + DeadLife <= clock
        BY <3>1, <3>2, <3>3, <1>2, <1>4
      <4> QED
        BY <4>1, <2>1 DEF Late
    <3>4. CASE request[r].token # t
      BY <3>1, <3>2, <3>4, <1>3
    <3> QED
      BY <3>3, <3>4
  <2> QED
    BY <2>1, <1>1, <1>2 DEF BuriedForGood, Dead, Late
<1>12. FlushesFindAll' /\ AppliedEventsHold' /\ IndexComplete'
  BY <1>1, <1>2, EntriesStay
<1> QED
  BY <1>6, <1>7, <1>8, <1>9, <1>10, <1>11, <1>12 DEF IInv

-----------------------------------------------------------------------------
(* Events *)

\* An event tells what the provider says from now on.
LEMMA EventKeeps ==
    ASSUME IInv, NEW f \in Flushes, NEW s \in Subjects, NEW whom \in {s, Everybody},
           Event(f, s, whom)
    PROVE  IInv'
<1> DEFINE changed == {t \in Tokens : Subject(t) = s /\ Issued(t)}
           told == [t \in changed |-> provider'[t].version]
           x == [step |-> "clock", whom |-> whom, now |-> 0, tokens |-> {}, told |-> told]
<1>1. /\ Typed /\ InTime /\ EntriesEndFirst /\ InOrder /\ AskedBefore
      /\ LateAnswersAreBarred /\ FlushesFindAll /\ BuriedForGood
      /\ LogoutHolds /\ AppliedEventsHold /\ IndexComplete
  BY DEF IInv
<1>2. /\ flush[f] = Idle
      /\ flush' = [flush EXCEPT ![f] = x]
      /\ UNCHANGED <<clock, entry, index, marker, dead, request, logout, forgotten, orphaned,
                     outrun, late, buried>>
  BY DEF Event, cache, histories
<1>3. PICK active \in BOOLEAN :
        provider' = [t \in Tokens |-> IF t \notin changed THEN provider[t] ELSE
           [version |-> provider[t].version + 1, active |-> active /\ provider[t].active]]
  BY DEF Event
<1>4. changed \subseteq Tokens
  OBVIOUS
<1>5. \A t \in Tokens : /\ provider[t].version \in Nat
                        /\ provider[t].active \in BOOLEAN
                        /\ provider[t] \in Told
  BY <1>1 DEF Typed, Told
<1> HIDE DEF changed
<1>6. \A t \in Tokens :
         /\ provider'[t] \in Told /\ provider'[t].version \in Nat
         /\ provider[t].version <= provider'[t].version
         /\ provider'[t].active => provider[t].active
  <2>1. ASSUME NEW t \in Tokens
        PROVE  /\ provider'[t] \in Told /\ provider'[t].version \in Nat
               /\ provider[t].version <= provider'[t].version
               /\ provider'[t].active => provider[t].active
    <3>1. CASE t \notin changed
      BY <3>1, <1>3, <1>5
    <3>2. CASE t \in changed
      <4>1. provider'[t] = [version |-> provider[t].version + 1,
                            active |-> active /\ provider[t].active]
        BY <3>2, <1>3
      <4>2. provider[t].version + 1 \in Nat /\ (active /\ provider[t].active) \in BOOLEAN
        BY <1>5
      <4>3. provider[t].version <= provider[t].version + 1
        BY <1>5
      <4>4. provider'[t].active <=> active /\ provider[t].active
        BY <4>1, <1>5
      <4>5. provider'[t] \in Told
        BY <4>1, <4>2 DEF Told
      <4> QED
        BY <4>1, <4>2, <4>3, <4>4, <4>5
    <3> QED
      BY <3>1, <3>2
  <2> QED
    BY <2>1
<1>7. provider' \in [Tokens -> Told]
  BY <1>3, <1>6
<1>8. told \in Tolds
  <2>1. told \in [changed -> Nat]
    BY <1>4, <1>6
  <2> QED
    BY <2>1, <1>4 DEF Tolds
<1>9. /\ x \in Flushing /\ x # Idle /\ x.step = "clock" /\ x.whom = whom /\ x.told = told
      /\ x.now = 0
  BY <1>8 DEF Flushing, Whoms, Idle
<1>10. DOMAIN told = changed /\ \A t \in changed : told[t] = provider'[t].version
  OBVIOUS
<1>11. \A t \in changed : t \in Tokens /\ whom \in {Subject(t), Everybody}
  BY DEF changed
<1> HIDE DEF x, told
<1>12. /\ flush' \in [Flushes -> Flushing \cup {Idle}]
       /\ flush'[f] = x
       /\ \A g \in Flushes : g # f => flush'[g] = flush[g]
  BY <1>1, <1>2, <1>9, SetFlush
<1>13. Typed'
  BY <1>1, <1>2, <1>7, <1>12 DEF Typed
<1>14. InTime'
  <2>1. \A g \in Flushes : flush'[g] # Idle => flush'[g].now <= clock
    BY <1>1, <1>9, <1>12 DEF InTime, Typed
  <2> QED
    BY <2>1, <1>1, <1>2 DEF InTime, Cached
<1>15. InOrder'
  <2>1. \A t \in Tokens : forgotten[t] <= provider'[t].version
    <3>1. \A t \in Tokens : forgotten[t] \in Nat /\ forgotten[t] <= provider[t].version
      BY <1>1 DEF Typed, InOrder
    <3> QED
      BY <3>1, <1>5, <1>6
  <2>2. ASSUME NEW g \in Flushes, flush'[g] # Idle, NEW t \in DOMAIN flush'[g].told
        PROVE  /\ flush'[g].told[t] <= provider'[t].version
               /\ flush'[g].whom \in {Subject(t), Everybody}
    <3>1. CASE g = f
      <4>1. t \in changed /\ flush'[g].told[t] = provider'[t].version
        BY <2>2, <3>1, <1>9, <1>10, <1>12
      <4>2. t \in Tokens /\ provider'[t].version \in Nat
        BY <4>1, <1>6, <1>11
      <4> QED
        BY <3>1, <4>1, <4>2, <1>9, <1>11, <1>12
    <3>2. CASE g # f
      <4>1. flush'[g] = flush[g] /\ flush[g] # Idle
        BY <2>2, <3>2, <1>12
      <4>2. t \in Tokens /\ flush[g].told[t] \in Nat
        BY <2>2, <4>1, <1>1, BusyFlush
      <4>3. flush[g].told[t] <= provider[t].version
            /\ flush[g].whom \in {Subject(t), Everybody}
        BY <2>2, <4>1, <1>1 DEF InOrder
      <4> QED
        BY <4>1, <4>2, <4>3, <1>5, <1>6
    <3> QED
      BY <3>1, <3>2
  <2> QED
    BY <2>1, <2>2, <1>2 DEF InOrder
<1>16. \A g \in Flushes : flush'[g].step \in {"mark", "read", "delete", "indexes"} =>
          flush'[g] = flush[g]
  BY <1>9, <1>12
<1>17. AskedBefore' /\ LateAnswersAreBarred'
  BY <1>1, <1>2, <1>16
  DEF AskedBefore, LateAnswersAreBarred, Overtaken, Tells, MarkedSince, Late
<1>18. FlushesFindAll'
  BY <1>1, <1>2, <1>16 DEF FlushesFindAll, Cached
<1>19. BuriedForGood'
  <2>1. \A t \in Tokens : logout[t] # "idle" => provider'[t].version > 0
    BY <1>1, <1>5, <1>6 DEF BuriedForGood
  <2>2. \A t \in Tokens : t \in buried => ~ provider'[t].active /\ provider'[t].version > 0
    BY <1>1, <1>5, <1>6 DEF BuriedForGood
  <2> QED
    BY <2>1, <2>2, <1>1, <1>2 DEF BuriedForGood, Dead, Late
<1>20. EntriesEndFirst' /\ LogoutHolds' /\ AppliedEventsHold' /\ IndexComplete'
  BY <1>1, <1>2
  DEF EntriesEndFirst, LogoutHolds, AppliedEventsHold, IndexComplete, Cached, Dead
<1> QED
  BY <1>13, <1>14, <1>15, <1>17, <1>18, <1>19, <1>20 DEF IInv

\* The handler reads the clock later than every answer that it overtakes was asked for.
LEMMA ReadClockKeeps ==
    ASSUME IInv, NEW f \in Flushes, ReadClock(f)
    PROVE  IInv'
<1> DEFINE x == [[flush[f] EXCEPT !.step = "mark"] EXCEPT !.now = clock]
<1>1. /\ Typed /\ InTime /\ EntriesEndFirst /\ InOrder /\ AskedBefore
      /\ LateAnswersAreBarred /\ FlushesFindAll /\ BuriedForGood
      /\ LogoutHolds /\ AppliedEventsHold /\ IndexComplete
  BY DEF IInv
<1>2. /\ flush[f].step = "clock"
      /\ UNCHANGED <<clock, provider, entry, index, marker, dead, request, logout, forgotten,
                     orphaned, outrun, late, buried>>
  BY DEF ReadClock, cache, histories
<1>3. clock \in Nat /\ clock <= clock
  BY <1>1 DEF Typed
<1>4. /\ x \in Flushing /\ x.step = "mark" /\ x.now = clock
      /\ x.told = flush[f].told /\ x.whom = flush[f].whom
  BY <1>1, <1>2, <1>3, BusyFlush DEF Flushing
<1>5. flush' = [flush EXCEPT ![f] = x]
  BY <1>1 DEF ReadClock, Typed
<1> HIDE DEF x
<1>6. /\ flush' \in [Flushes -> Flushing \cup {Idle}]
      /\ flush'[f] = x
      /\ \A g \in Flushes : g # f => flush'[g] = flush[g]
  BY <1>1, <1>4, <1>5, SetFlush
<1>7. flush[f] # Idle
  BY <1>1, <1>2, BusyFlush
<1>8. Typed'
  BY <1>1, <1>2, <1>6 DEF Typed
<1>9. InTime'
  BY <1>1, <1>2, <1>3, <1>4, <1>6 DEF InTime, Cached
<1>10. InOrder'
  <2>1. \A g \in Flushes : flush'[g] # Idle =>
           /\ flush[g] # Idle
           /\ flush'[g].told = flush[g].told /\ flush'[g].whom = flush[g].whom
    BY <1>4, <1>6, <1>7
  <2> QED
    BY <2>1, <1>1, <1>2 DEF InOrder
<1>11. AskedBefore'
  <2>1. \A r \in Requests : request[r].step = "put" => request[r].started <= clock
    BY <1>1, BusyRequest DEF InTime
  <2> QED
    BY <2>1, <1>1, <1>2, <1>4, <1>6 DEF AskedBefore, Tells
<1>12. \A g \in Flushes : flush'[g].step \in {"read", "delete", "indexes"} =>
          flush'[g] = flush[g]
  BY <1>4, <1>6
<1>13. LateAnswersAreBarred'
  BY <1>1, <1>2, <1>12 DEF LateAnswersAreBarred, Overtaken, Tells, MarkedSince, Late
<1>14. FlushesFindAll'
  BY <1>1, <1>2, <1>12 DEF FlushesFindAll, Cached
<1>15. BuriedForGood' /\ EntriesEndFirst' /\ LogoutHolds'
  BY <1>1, <1>2, BurialsStay
<1>16. AppliedEventsHold' /\ IndexComplete'
  BY <1>1, <1>2 DEF AppliedEventsHold, IndexComplete, Cached
<1> QED
  BY <1>8, <1>9, <1>10, <1>11, <1>13, <1>14, <1>15, <1>16 DEF IInv

\* The marker keeps out every answer that the event has overtaken; and what it does not
\* keep out any more, because it is set back, is late.
LEMMA MarkKeeps ==
    ASSUME IInv, NEW f \in Flushes, Mark(f)
    PROVE  IInv'
<1> DEFINE x == [flush[f] EXCEPT !.step = "read"]
           m == flush[f].whom
           k == [at |-> flush[f].now, until |-> clock + MarkerLife]
<1>1. /\ Typed /\ InTime /\ EntriesEndFirst /\ InOrder /\ AskedBefore
      /\ LateAnswersAreBarred /\ FlushesFindAll /\ BuriedForGood
      /\ LogoutHolds /\ AppliedEventsHold /\ IndexComplete
  BY DEF IInv
<1>2. /\ flush[f].step = "mark"
      /\ marker' = [marker EXCEPT ![m] = k]
      /\ outrun' = outrun \cup Freed
      /\ UNCHANGED <<clock, provider, entry, index, dead, request, logout, forgotten,
                     orphaned, late, buried>>
  BY DEF Mark, SetMarker
<1>3. /\ flush[f] \in Flushing /\ flush[f] # Idle /\ flush[f].now \in Nat /\ m \in Whoms
      /\ flush[f].now <= clock /\ clock \in Nat /\ MarkerLife \in Nat
  BY <1>1, <1>2, BusyFlush, LivesAssumption DEF Typed, InTime
<1>4. /\ x \in Flushing /\ x.step = "read" /\ x.told = flush[f].told /\ x.whom = m
      /\ x.now = flush[f].now
  BY <1>3 DEF Flushing
<1>5. flush' = [flush EXCEPT ![f] = x]
  BY <1>1 DEF Mark, Typed
<1>6. k \in Marks /\ k # None /\ k.at = flush[f].now /\ k.at + MarkerLife <= k.until
  BY <1>1, <1>3, KeysAreThere DEF Marks
<1> HIDE DEF x, m, k
<1>7. /\ flush' \in [Flushes -> Flushing \cup {Idle}]
      /\ flush'[f] = x
      /\ \A g \in Flushes : g # f => flush'[g] = flush[g]
  BY <1>1, <1>4, <1>5, SetFlush
<1>8. /\ marker' \in [Whoms -> Marks \cup {None}]
      /\ marker'[m] = k
      /\ \A n \in Whoms : n # m => marker'[n] = marker[n]
  BY <1>1, <1>2, <1>3, <1>6 DEF Typed
<1>9. Typed'
  BY <1>1, <1>2, <1>7, <1>8 DEF Typed
<1>10. InTime'
  BY <1>1, <1>2, <1>3, <1>4, <1>6, <1>7, <1>8 DEF InTime, Cached
<1>11. InOrder'
  <2>1. \A g \in Flushes : flush'[g] # Idle =>
           /\ flush[g] # Idle
           /\ flush'[g].told = flush[g].told /\ flush'[g].whom = flush[g].whom
    BY <1>3, <1>4, <1>7 DEF m
  <2> QED
    BY <2>1, <1>1, <1>2 DEF InOrder
<1>12. AskedBefore'
  <2>1. \A g \in Flushes : flush'[g].step = "mark" => flush'[g] = flush[g]
    BY <1>4, <1>7
  <2> QED
    BY <2>1, <1>1, <1>2 DEF AskedBefore, Tells
<1>13. LateAnswersAreBarred'
  <2>1. ASSUME NEW r \in Requests, request[r].step = "put",
               Overtaken(request[r].token, request[r].version)'
        PROVE  MarkedSince(marker', request[r].token, request[r].started) \/ Late(r)'
    <3> DEFINE t == request[r].token
               started == request[r].started
    <3>1. request[r] # Idle /\ t \in Tokens /\ started \in Nat
      BY <2>1, <1>1, BusyRequest
    <3>2. request'[r] = request[r] /\ (Late(r) => Late(r)')
      BY <1>2 DEF Late
    <3>3. CASE t \in DOMAIN flush[f].told /\ request[r].version < flush[f].told[t]
      <4>1. started <= k.at
        BY <2>1, <3>3, <1>1, <1>2, <1>6 DEF AskedBefore, Tells
      <4>2. m \in {Subject(t), Everybody}
        BY <3>3, <1>1, <1>3 DEF InOrder, m
      <4>3. k.at >= started
        BY <4>1, <3>1, <1>3, <1>6
      <4> QED
        BY <4>2, <4>3, <1>6, <1>8 DEF MarkedSince
    <3>4. CASE ~ (t \in DOMAIN flush[f].told /\ request[r].version < flush[f].told[t])
      <4>1. Overtaken(t, request[r].version)
        <5>1. CASE request[r].version < forgotten[t]
          BY <5>1 DEF Overtaken
        <5>2. CASE ~ request[r].version < forgotten[t]
          <6>1. PICK g \in Flushes :
                   /\ flush'[g].step \in {"read", "delete", "indexes"}
                   /\ t \in DOMAIN flush'[g].told
                   /\ request[r].version < flush'[g].told[t]
            BY <2>1, <5>2, <1>2 DEF Overtaken, Tells
          <6>2. g # f
            BY <3>4, <6>1, <1>4, <1>7
          <6> QED
            BY <6>1, <6>2, <1>7 DEF Overtaken, Tells
        <5> QED
          BY <5>1, <5>2
      <4>2. MarkedSince(marker, t, started) \/ Late(r)
        BY <4>1, <2>1, <1>1 DEF LateAnswersAreBarred
      <4>3. CASE Late(r)
        BY <4>3, <3>2
      <4>4. CASE MarkedSince(marker, t, started) /\ ~ MarkedSince(marker', t, started)
        <5>1. r \in Freed
          BY <4>4, <3>1 DEF Freed
        <5> QED
          BY <5>1, <1>2 DEF Late
      <4> QED
        BY <4>2, <4>3, <4>4
    <3> QED
      BY <3>3, <3>4
  <2> QED
    BY <2>1, <1>2 DEF LateAnswersAreBarred, MarkedSince
<1>14. FlushesFindAll'
  <2>1. \A g \in Flushes : flush'[g].step \in {"delete", "indexes"} => flush'[g] = flush[g]
    BY <1>4, <1>7
  <2> QED
    BY <2>1, <1>1, <1>2 DEF FlushesFindAll, Cached
<1>15. BuriedForGood'
  BY <1>1, <1>2 DEF BuriedForGood, Dead, Late
<1>16. EntriesEndFirst' /\ LogoutHolds' /\ AppliedEventsHold' /\ IndexComplete'
  BY <1>1, <1>2
  DEF EntriesEndFirst, LogoutHolds, AppliedEventsHold, IndexComplete, Cached, Dead
<1> QED
  BY <1>9, <1>10, <1>11, <1>12, <1>13, <1>14, <1>15, <1>16 DEF IInv

\* What the event tells is found among the tokens that were read, but for entries that
\* are lost to the index already, or came late.
Finds(f, ts) ==
    \A t \in DOMAIN flush[f].told :
        Cached(t) /\ entry[t].version < flush[f].told[t] =>
            t \in ts \/ t \in orphaned \cup late

\* A handler ends with an error; or its marker is set, and it has read the tokens.
FlushGoes(f, x) ==
    /\ flush[f] \in Flushing
    /\ flush' = [flush EXCEPT ![f] = x]
    /\ \/ x = Idle
       \/ /\ x \in Flushing
          /\ x.told = flush[f].told /\ x.whom = flush[f].whom /\ x.now = flush[f].now
          /\ flush[f].step = "read" /\ x.step = "delete"
          /\ Finds(f, x.tokens)
    /\ UNCHANGED <<clock, provider, entry, index, marker, dead, request, logout, forgotten,
                   orphaned, outrun, late, buried>>

LEMMA FlushGoingKeeps ==
    ASSUME IInv, NEW f \in Flushes, NEW x, FlushGoes(f, x)
    PROVE  IInv'
<1>1. /\ Typed /\ InTime /\ EntriesEndFirst /\ InOrder /\ AskedBefore
      /\ LateAnswersAreBarred /\ FlushesFindAll /\ BuriedForGood
      /\ LogoutHolds /\ AppliedEventsHold /\ IndexComplete
  BY DEF IInv
<1>2. /\ flush[f] \in Flushing
      /\ \/ x = Idle
         \/ /\ x \in Flushing
            /\ x.told = flush[f].told /\ x.whom = flush[f].whom /\ x.now = flush[f].now
            /\ flush[f].step = "read" /\ x.step = "delete"
            /\ Finds(f, x.tokens)
      /\ UNCHANGED <<clock, provider, entry, index, marker, dead, request, logout, forgotten,
                     orphaned, outrun, late, buried>>
  BY DEF FlushGoes
<1>3. /\ flush' \in [Flushes -> Flushing \cup {Idle}]
      /\ flush'[f] = x
      /\ \A g \in Flushes : g # f => flush'[g] = flush[g]
  BY <1>1, <1>2, SetFlush DEF FlushGoes
<1>4. Idle.step = "idle" /\ flush[f] # Idle
  BY <1>2 DEF Idle, Flushing
<1>5. Typed'
  BY <1>1, <1>2, <1>3 DEF Typed
<1>6. InTime'
  BY <1>1, <1>2, <1>3, <1>4 DEF InTime, Cached
<1>7. InOrder'
  BY <1>1, <1>2, <1>3, <1>4 DEF InOrder
<1>8. AskedBefore'
  <2>1. \A g \in Flushes : flush'[g].step = "mark" => flush'[g] = flush[g]
    BY <1>2, <1>3, <1>4
  <2> QED
    BY <2>1, <1>1, <1>2 DEF AskedBefore, Tells
<1>9. LateAnswersAreBarred'
  <2>1. \A g \in Flushes :
          flush'[g].step \in {"read", "delete", "indexes"} =>
              /\ flush[g].step \in {"read", "delete", "indexes"}
              /\ flush'[g].told = flush[g].told
    BY <1>2, <1>3, <1>4
  <2>2. ASSUME NEW r \in Requests, Overtaken(request[r].token, request[r].version)'
        PROVE  Overtaken(request[r].token, request[r].version)
    BY <2>1, <2>2, <1>2 DEF Overtaken, Tells
  <2> QED
    BY <2>2, <1>1, <1>2 DEF LateAnswersAreBarred, MarkedSince, Late
<1>10. FlushesFindAll'
  <2>1. ASSUME NEW g \in Flushes, flush'[g].step \in {"delete", "indexes"},
               NEW t \in DOMAIN flush'[g].told,
               Cached(t), entry[t].version < flush'[g].told[t]
        PROVE  \/ flush'[g].step = "delete" /\ t \in flush'[g].tokens
               \/ t \in orphaned \cup late
    <3>1. CASE g = f
      BY <2>1, <3>1, <1>2, <1>3, <1>4 DEF Finds
    <3>2. CASE g # f
      BY <2>1, <3>2, <1>1, <1>3 DEF FlushesFindAll
    <3> QED
      BY <3>1, <3>2
  <2> QED
    BY <2>1, <1>2 DEF FlushesFindAll, Cached
<1>11. BuriedForGood' /\ EntriesEndFirst' /\ LogoutHolds'
  BY <1>1, <1>2, BurialsStay
<1>12. AppliedEventsHold' /\ IndexComplete'
  BY <1>1, <1>2 DEF AppliedEventsHold, IndexComplete, Cached
<1> QED
  BY <1>5, <1>6, <1>7, <1>8, <1>9, <1>10, <1>11, <1>12 DEF IInv

LEMMA ReadKeeps ==
    ASSUME IInv, NEW f \in Flushes, ReadTokens(f) \/ FlushFails(f)
    PROVE  IInv'
<1>1. Typed /\ InOrder /\ IndexComplete
  BY DEF IInv
<1>2. UNCHANGED <<clock, provider, entry, index, marker, dead, request, logout, forgotten,
                  orphaned, outrun, late, buried>>
  BY DEF ReadTokens, FlushFails, cache, histories
<1>3. CASE FlushFails(f)
  <2>1. flush[f] \in Flushing
    BY <1>1, <1>3 DEF FlushFails, Typed
  <2>2. FlushGoes(f, Idle)
    BY <2>1, <1>2, <1>3 DEF FlushFails, FlushGoes
  <2> QED
    BY <2>2, FlushGoingKeeps
<1>4. CASE ReadTokens(f)
  <2> DEFINE ts == IF flush[f].whom = Everybody
                   THEN {t \in Tokens : Cached(t)} ELSE index[flush[f].whom]
             x == [[flush[f] EXCEPT !.step = "delete"] EXCEPT !.tokens = ts]
  <2>1. /\ flush[f].step = "read" /\ flush[f] \in Flushing /\ flush[f] # Idle
        /\ flush[f].whom \in Whoms /\ DOMAIN flush[f].told \subseteq Tokens
    BY <1>1, <1>4, BusyFlush DEF ReadTokens
  <2>2. ts \subseteq Tokens
    BY <2>1, <1>1 DEF Typed, Whoms
  <2>3. flush' = [flush EXCEPT ![f] = x]
    BY <1>1, <1>4 DEF ReadTokens, Typed
  <2>4. Finds(f, ts)
    <3>1. ASSUME NEW t \in DOMAIN flush[f].told, Cached(t)
          PROVE  t \in ts \/ t \in orphaned
      <4>1. flush[f].whom \in {Subject(t), Everybody} /\ t \in Tokens
        BY <3>1, <2>1, <1>1 DEF InOrder
      <4> QED
        BY <3>1, <4>1, <1>1 DEF IndexComplete
    <3> QED
      BY <3>1 DEF Finds
  <2> HIDE DEF ts
  <2>5. /\ x \in Flushing /\ x.told = flush[f].told /\ x.whom = flush[f].whom
        /\ x.now = flush[f].now /\ x.step = "delete" /\ x.tokens = ts
    BY <2>1, <2>2 DEF Flushing
  <2> HIDE DEF x
  <2>6. FlushGoes(f, x)
    BY <2>1, <2>3, <2>4, <2>5, <1>2 DEF FlushGoes
  <2> QED
    BY <2>6, FlushGoingKeeps
<1> QED
  BY <1>3, <1>4

\* Entries are deleted, or indexes, whose entries are orphaned then; with the last
\* deletion the event is applied.
Deletes(f, ts, x) ==
    /\ flush[f] \in Flushing /\ flush[f].step \in {"delete", "indexes"}
    /\ flush' = [flush EXCEPT ![f] = x]
    /\ entry' = [t \in Tokens |-> IF t \in ts THEN None ELSE entry[t]]
    /\ orphaned \subseteq orphaned'
    /\ index' \in [Subjects -> SUBSET Tokens]
    /\ \A t \in Tokens :
          t \in index[Subject(t)] /\ t \notin index'[Subject(t)] /\ entry'[t] # None =>
              t \in orphaned'
    /\ Finds(f, ts)
    /\ \/ x = Idle /\ MarkForgotten(flush[f].told)
       \/ /\ x \in Flushing /\ x.step = "indexes"
          /\ x.told = flush[f].told /\ x.whom = flush[f].whom /\ x.now = flush[f].now
          /\ UNCHANGED forgotten
    /\ UNCHANGED <<clock, provider, marker, dead, request, logout, outrun, late, buried>>

LEMMA DeletionKeeps ==
    ASSUME IInv, NEW f \in Flushes, NEW ts \in SUBSET Tokens, NEW x, Deletes(f, ts, x)
    PROVE  IInv'
<1>1. /\ Typed /\ InTime /\ EntriesEndFirst /\ InOrder /\ AskedBefore
      /\ LateAnswersAreBarred /\ FlushesFindAll /\ BuriedForGood
      /\ LogoutHolds /\ AppliedEventsHold /\ IndexComplete
  BY DEF IInv
<1>2. /\ flush[f] \in Flushing /\ flush[f].step \in {"delete", "indexes"}
      /\ entry' = [t \in Tokens |-> IF t \in ts THEN None ELSE entry[t]]
      /\ orphaned \subseteq orphaned'
      /\ index' \in [Subjects -> SUBSET Tokens]
      /\ \A t \in Tokens :
            t \in index[Subject(t)] /\ t \notin index'[Subject(t)] /\ entry'[t] # None =>
                t \in orphaned'
      /\ Finds(f, ts)
      /\ \/ x = Idle
         \/ /\ x \in Flushing /\ x.step = "indexes"
            /\ x.told = flush[f].told /\ x.whom = flush[f].whom /\ x.now = flush[f].now
      /\ UNCHANGED <<clock, provider, marker, dead, request, logout, outrun, late, buried>>
  BY DEF Deletes
<1>3. /\ flush' \in [Flushes -> Flushing \cup {Idle}]
      /\ flush'[f] = x
      /\ \A g \in Flushes : g # f => flush'[g] = flush[g]
  BY <1>1, <1>2, SetFlush DEF Deletes
<1>4. /\ Idle.step = "idle" /\ flush[f] # Idle
      /\ DOMAIN flush[f].told \subseteq Tokens
      /\ \A t \in DOMAIN flush[f].told : flush[f].told[t] \in Nat
  BY <1>1, <1>2, BusyFlush DEF Idle
<1>5. \A t \in Tokens :
         /\ forgotten'[t] \in Nat
         /\ \/ forgotten'[t] = forgotten[t]
            \/ x = Idle /\ Tells(f, t) /\ forgotten'[t] = flush[f].told[t]
  <2>1. CASE UNCHANGED forgotten
    BY <2>1, <1>1 DEF Typed
  <2>2. CASE x = Idle /\ MarkForgotten(flush[f].told)
    BY <2>2, <1>1, <1>4 DEF Typed, MarkForgotten, Tells
  <2> QED
    BY <2>1, <2>2 DEF Deletes
<1>6. forgotten' \in [Tokens -> Nat]
  BY <1>1, <1>5 DEF Deletes, MarkForgotten, Typed
<1>7. \A t \in Tokens : Cached(t)' =>
         /\ Cached(t) /\ entry'[t] = entry[t] /\ t \notin ts
         /\ t \in orphaned \cup late => t \in orphaned' \cup late
  BY <1>2 DEF Cached
<1>8. Typed'
  <2>1. entry' \in [Tokens -> Entries \cup {None}]
    BY <1>1, <1>2 DEF Typed
  <2> QED
    BY <2>1, <1>1, <1>2, <1>3, <1>6 DEF Typed
<1>9. \A g \in Flushes : flush'[g] # Idle =>
         /\ flush[g] # Idle
         /\ flush'[g].told = flush[g].told /\ flush'[g].whom = flush[g].whom
         /\ flush'[g].now = flush[g].now
  BY <1>2, <1>3, <1>4
<1>10. InTime' /\ EntriesEndFirst'
  BY <1>1, <1>2, <1>7, <1>9 DEF InTime, EntriesEndFirst, Dead
<1>11. InOrder'
  <2>1. \A t \in Tokens : forgotten'[t] <= provider[t].version
    BY <1>1, <1>4, <1>5 DEF InOrder, Tells
  <2> QED
    BY <2>1, <1>1, <1>2, <1>9 DEF InOrder
<1>12. AskedBefore'
  <2>1. \A g \in Flushes : flush'[g].step = "mark" => flush'[g] = flush[g]
    BY <1>2, <1>3, <1>4
  <2> QED
    BY <2>1, <1>1, <1>2 DEF AskedBefore, Tells
<1>13. LateAnswersAreBarred'
  <2>1. \A g \in Flushes :
          flush'[g].step \in {"read", "delete", "indexes"} =>
              /\ flush[g].step \in {"read", "delete", "indexes"}
              /\ flush'[g].told = flush[g].told
    BY <1>2, <1>3, <1>4
  <2>2. ASSUME NEW t \in Tokens, NEW v, Overtaken(t, v)'
        PROVE  Overtaken(t, v)
    <3>1. CASE v < forgotten'[t]
      BY <3>1, <1>2, <1>5 DEF Overtaken
    <3>2. CASE ~ v < forgotten'[t]
      BY <2>1, <2>2, <3>2 DEF Overtaken, Tells
    <3> QED
      BY <3>1, <3>2
  <2>3. \A r \in Requests : request[r].step = "put" => request[r].token \in Tokens
    BY <1>1, BusyRequest
  <2> QED
    BY <2>2, <2>3, <1>1, <1>2 DEF LateAnswersAreBarred, MarkedSince, Late
<1>14. FlushesFindAll'
  <2>1. ASSUME NEW g \in Flushes, flush'[g].step \in {"delete", "indexes"},
               NEW t \in DOMAIN flush'[g].told,
               Cached(t)', entry'[t].version < flush'[g].told[t]
        PROVE  \/ flush'[g].step = "delete" /\ t \in flush'[g].tokens
               \/ t \in orphaned' \cup late
    <3>1. CASE g = f
      <4>1. t \in DOMAIN flush[f].told /\ t \in Tokens
            /\ flush'[g].told = flush[f].told
        BY <2>1, <3>1, <1>2, <1>3, <1>4
      <4> QED
        BY <2>1, <4>1, <1>2, <1>7 DEF Finds
    <3>2. CASE g # f
      <4>1. flush'[g] = flush[g]
        BY <3>2, <1>3
      <4>2. t \in Tokens
        BY <2>1, <4>1, <1>1, BusyFlush
      <4> QED
        BY <2>1, <4>1, <4>2, <1>1, <1>7 DEF FlushesFindAll
    <3> QED
      BY <3>1, <3>2
  <2> QED
    BY <2>1, <1>2 DEF FlushesFindAll
<1>15. BuriedForGood'
  BY <1>1, <1>2 DEF BuriedForGood, Dead, Late
<1>16. LogoutHolds'
  BY <1>1, <1>2, <1>7 DEF LogoutHolds, Dead
<1>17. AppliedEventsHold'
  <2>1. ASSUME NEW t \in Tokens, Cached(t)', entry'[t].version < forgotten'[t]
        PROVE  t \in orphaned' \cup late
    <3>1. CASE forgotten'[t] = forgotten[t]
      BY <2>1, <3>1, <1>1, <1>7 DEF AppliedEventsHold
    <3>2. CASE Tells(f, t) /\ forgotten'[t] = flush[f].told[t]
      BY <2>1, <3>2, <1>2, <1>7 DEF Finds, Tells
    <3> QED
      BY <3>1, <3>2, <1>5
  <2> QED
    BY <2>1, <1>2 DEF AppliedEventsHold
<1>18. IndexComplete'
  BY <1>1, <1>2, <1>7 DEF IndexComplete, Cached
<1> QED
  BY <1>8, <1>10, <1>11, <1>12, <1>13, <1>14, <1>15, <1>16, <1>17, <1>18 DEF IInv

\* Handlers that have read the tokens have found what they must.
LEMMA ReadersHaveFound ==
    ASSUME FlushesFindAll, NEW f \in Flushes, NEW ts,
           \/ flush[f].step = "delete" /\ ts = flush[f].tokens
           \/ flush[f].step = "indexes" /\ ts = {}
    PROVE  Finds(f, ts)
BY DEF FlushesFindAll, Finds

LEMMA DeleteKeeps ==
    ASSUME IInv, NEW f \in Flushes, DeleteEntries(f) \/ DeleteIndexes(f)
    PROVE  IInv'
<1>1. Typed /\ FlushesFindAll
  BY DEF IInv
<1>2. /\ flush[f] \in Flushing
      /\ flush[f].whom \in Whoms /\ flush[f].tokens \in SUBSET Tokens
  BY <1>1, BusyFlush DEF DeleteEntries, DeleteIndexes
<1>3. \A t \in Tokens : Subject(t) \in Subjects
  BY DEF Subjects
<1>4. CASE DeleteIndexes(f)
  <2>1. /\ index' = [s \in Subjects |-> {}] /\ entry' = entry
        /\ flush[f].step = "indexes"
        /\ orphaned' = orphaned \cup {t \in Tokens : t \in index[Subject(t)] /\ Cached(t)}
        /\ UNCHANGED <<clock, provider, marker, dead, request, logout, outrun, late, buried>>
    BY <1>4 DEF DeleteIndexes
  <2>2. Finds(f, {})
    BY <2>1, <1>1, ReadersHaveFound
  <2>3. entry' = [t \in Tokens |-> IF t \in {} THEN None ELSE entry[t]]
    BY <2>1, <1>1 DEF Typed
  <2>4. \A t \in Tokens : t \in index[Subject(t)] /\ entry'[t] # None => t \in orphaned'
    BY <2>1 DEF Cached
  <2>5. Deletes(f, {}, Idle)
    BY <2>1, <2>2, <2>3, <2>4, <1>2, <1>4 DEF DeleteIndexes, Deletes
  <2> QED
    BY <2>5, DeletionKeeps
<1>5. CASE DeleteEntries(f) /\ flush[f].whom = Everybody
  <2> DEFINE x == [flush[f] EXCEPT !.step = "indexes"]
             ts == flush[f].tokens
  <2>1. /\ flush[f].step = "delete"
        /\ entry' = [t \in Tokens |-> IF t \in ts THEN None ELSE entry[t]]
        /\ UNCHANGED <<clock, provider, index, forgotten, orphaned, marker, dead, request,
                       logout, outrun, late, buried>>
    BY <1>5 DEF DeleteEntries
  <2>2. flush' = [flush EXCEPT ![f] = x]
    BY <1>1, <1>5 DEF DeleteEntries, Typed
  <2>3. /\ x \in Flushing /\ x.step = "indexes" /\ x.told = flush[f].told
        /\ x.whom = flush[f].whom /\ x.now = flush[f].now
    BY <1>2 DEF Flushing
  <2> HIDE DEF x
  <2>4. Finds(f, ts)
    BY <2>1, <1>1, ReadersHaveFound
  <2>5. index' \in [Subjects -> SUBSET Tokens]
    BY <2>1, <1>1 DEF Typed
  <2>6. Deletes(f, ts, x)
    BY <2>1, <2>2, <2>3, <2>4, <2>5, <1>2 DEF Deletes
  <2> QED
    BY <2>6, <1>2, DeletionKeeps
<1>6. CASE DeleteEntries(f) /\ flush[f].whom # Everybody
  <2> DEFINE ts == flush[f].tokens
             whom == flush[f].whom
  <2>1. /\ flush[f].step = "delete"
        /\ entry' = [t \in Tokens |-> IF t \in ts THEN None ELSE entry[t]]
        /\ orphaned' = orphaned \cup {t \in index[whom] : entry'[t] # None}
        /\ index' = [index EXCEPT ![whom] = {}]
        /\ flush' = [flush EXCEPT ![f] = Idle]
        /\ MarkForgotten(flush[f].told)
        /\ UNCHANGED <<clock, provider, marker, dead, request, logout, outrun, late, buried>>
    BY <1>6 DEF DeleteEntries
  <2>2. whom \in Subjects
    BY <1>2, <1>6 DEF Whoms
  <2>3. Finds(f, ts)
    BY <2>1, <1>1, ReadersHaveFound
  <2>4. /\ index' \in [Subjects -> SUBSET Tokens]
        /\ \A t \in Tokens :
              t \in index[Subject(t)] /\ t \notin index'[Subject(t)] => Subject(t) = whom
    BY <2>1, <2>2, <1>1, <1>3 DEF Typed
  <2>5. \A t \in Tokens :
           t \in index[Subject(t)] /\ t \notin index'[Subject(t)] /\ entry'[t] # None =>
               t \in orphaned'
    BY <2>1, <2>4
  <2>6. Deletes(f, ts, Idle)
    BY <2>1, <2>3, <2>4, <2>5, <1>2 DEF Deletes
  <2> QED
    BY <2>6, <1>2, DeletionKeeps
<1> QED
  BY <1>4, <1>5, <1>6

-----------------------------------------------------------------------------
(* The theorems *)

LEMMA InitialIdentities ==
    ASSUME IdentityInit
    PROVE  IInv
<1>1. /\ clock = 1
      /\ \A t \in Tokens : /\ provider[t] = [version |-> 0, active |-> FALSE]
                           /\ entry[t] = None /\ dead[t] = None
                           /\ logout[t] = "idle" /\ forgotten[t] = 0
      /\ \A m \in Whoms : marker[m] = None
      /\ \A r \in Requests : request[r] = Idle
      /\ \A f \in Flushes : flush[f] = Idle
      /\ Idle.step = "idle"
      /\ buried = {}
  BY DEF IdentityInit, Whoms, Idle
<1>2. Typed
  BY DEF IdentityInit, Typed, Whoms, Told, LogoutSteps
<1>3. InTime /\ EntriesEndFirst
  BY <1>1 DEF InTime, EntriesEndFirst, Cached, Dead
<1>4. InOrder
  <2>1. \A t \in Tokens : provider[t].version = 0 /\ forgotten[t] = 0
    BY <1>1
  <2> QED
    BY <2>1, <1>1 DEF InOrder
<1>5. AskedBefore /\ LateAnswersAreBarred /\ FlushesFindAll /\ BuriedForGood
  BY <1>1 DEF AskedBefore, LateAnswersAreBarred, FlushesFindAll, BuriedForGood
<1>6. LogoutHolds /\ AppliedEventsHold /\ IndexComplete
  BY <1>1 DEF LogoutHolds, AppliedEventsHold, IndexComplete, Cached
<1> QED
  BY <1>2, <1>3, <1>4, <1>5, <1>6 DEF IInv

\* Nothing happens.
LEMMA StutteringKeeps ==
    ASSUME IInv, UNCHANGED identityVars
    PROVE  IInv'
<1>1. UNCHANGED <<clock, provider, entry, index, marker, dead, request, logout, flush,
                  forgotten, orphaned, outrun, late, buried>>
  BY DEF identityVars, cache, histories
<1>2. Typed' /\ InTime' /\ InOrder'
  BY <1>1 DEF IInv, Typed, InTime, InOrder, Cached
<1>3. AskedBefore' /\ LateAnswersAreBarred'
  BY <1>1, AnswersStay DEF IInv
<1>4. BuriedForGood' /\ EntriesEndFirst' /\ LogoutHolds'
  BY <1>1, BurialsStay DEF IInv
<1>5. FlushesFindAll' /\ AppliedEventsHold' /\ IndexComplete'
  BY <1>1, EntriesStay DEF IInv
<1> QED
  BY <1>2, <1>3, <1>4, <1>5 DEF IInv

LEMMA StepsKeepIdentities ==
    ASSUME IInv, [IdentityNext]_identityVars
    PROVE  IInv'
<1>1. CASE Tick
  BY <1>1, TickGoesOn, GoingOnKeeps
<1>2. CASE \E t \in Tokens :
              CompleteLogin(t) \/ Expire(t) \/ DeadExpires(t) \/ Logout(t) \/ LogoutStep(t)
  BY <1>2, TokenStepGoesOn, GoingOnKeeps, DropKeeps, DeadExpiresKeeps DEF LogoutStep
<1>3. CASE \E r \in Requests : Answer(r)
  BY <1>3, AnswerKeeps, PutKeeps DEF Answer
<1>4. CASE \E r \in Requests, t \in Tokens : Authenticate(r, t)
  BY <1>4, AuthenticateKeeps
<1>5. CASE \E m \in Subjects \cup {Everybody} : MarkerExpires(m)
  BY <1>5, MarkerExpiresKeeps DEF Whoms
<1>6. CASE \E f \in Flushes : FlushStep(f)
  BY <1>6, ReadClockKeeps, MarkKeeps, ReadKeeps, DeleteKeeps DEF FlushStep
<1>7. CASE \E f \in Flushes, s \in Subjects : Event(f, s, s) \/ Event(f, s, Everybody)
  BY <1>7, EventKeeps
<1>8. CASE UNCHANGED identityVars
  BY <1>8, StutteringKeeps
<1> QED
  BY <1>1, <1>2, <1>3, <1>4, <1>5, <1>6, <1>7, <1>8 DEF IdentityNext

\* What is known of every state, however many handlers overlap: an answer that an event
\* has overtaken is kept out by a marker, or is known to come late; flushes find every
\* older entry; and an entry is over before the tomb of its token.
THEOREM IdentityInvariant == IdentitySpec => []IInv
<1>1. IdentityInit => IInv
  BY InitialIdentities
<1>2. IInv /\ [IdentityNext]_identityVars => IInv'
  BY StepsKeepIdentities
<1> QED
  BY <1>1, <1>2, PTL DEF IdentitySpec

\* RevocationsHold: a token with which somebody has logged out is not cached while it is
\* buried, nor served later; an event that was applied is not undone by an answer that was
\* on its way, unless the request outlasts the marker, or the handler of another event
\* sets it back; and the index leads to every entry that no flush has orphaned.
THEOREM RevocationsAreKept == IdentitySpec => []RevocationsHold
<1>1. IInv => RevocationsHold
  BY DEF IInv, RevocationsHold
<1> QED
  BY <1>1, IdentityInvariant, PTL

=============================================================================
