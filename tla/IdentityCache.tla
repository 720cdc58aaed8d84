----------------------------- MODULE IdentityCache -----------------------------
(***************************************************************************)
(* What the server remembers of the identity provider: introspected tokens *)
(* in Valkey, each subject's index of them, and the markers that keep an   *)
(* answer out which is older than a revocation.  A request looks the token *)
(* up and else asks the provider; logins issue tokens; logouts and the     *)
(* provider's events forget them.  Every command to Valkey is one step and *)
(* may fail; scripts are atomic; what the command carries (the time, the   *)
(* tokens of an index) was read before.                                    *)
(***************************************************************************)
EXTENDS Naturals, FiniteSets

CONSTANTS
    Tokens,
    Subject(_),    \* whose token it is
    Requests,      \* handlers of authenticated requests
    Flushes,       \* handlers of the provider's events
    EntryLife,     \* AUTH_CACHE_TTL: an entry lives no longer
    MarkerLife,    \* twice that and a minute: a marker lives as long
    DeadLife,      \* DEAD_TTL
    MaxClock,      \* bound: ticks of the clock
    MaxLogouts,    \* bound: tokens with which somebody logs out
    MaxFailures,   \* bound: handlers that Valkey fails
    MaxVersion,    \* bound: changes of what the provider says of a token
    None

ASSUME NoneAssumption ==
    None \notin Nat \cup [version : Nat, until : Nat] \cup [at : Nat, until : Nat]
\* Five minutes, unless it is configured otherwise, and twelve hours.
ASSUME LivesAssumption ==
    /\ EntryLife \in Nat /\ MarkerLife \in Nat /\ DeadLife \in Nat
    /\ EntryLife < DeadLife

Subjects == {Subject(t) : t \in Tokens}
Everybody == "everybody"

VARIABLES
    clock,       \* the time, of the handlers and of Valkey
    provider,    \* provider[t]: what introspection tells: a version, active or not
    entry,       \* auth:token: what an introspection told, and when the entry is over
    index,       \* auth:user: tokens by subject; it lives as long as any of its entries
    marker,      \* auth:revoked: of a subject or of everybody, a time and its end
    dead,        \* auth:dead: when it is over
    request,     \* request[r]: the step of an authentication
    logout,      \* logout[t]: the step of the logout with t
    flush,       \* flush[f]: the step of an event's handler
    failures,
    forgotten,   \* history: the latest version of t whose event was applied
    orphaned,    \* history: entries that lost their place in the index
    outrun,      \* history: requests that a marker kept out which was set back
    late,        \* history: entries stored by those, or by requests that outlasted a key
    buried       \* history: tokens buried after the provider had revoked them

cache == <<entry, index, marker, dead>>
histories == <<forgotten, orphaned, outrun, late, buried>>
identityVars == <<clock, provider, cache, request, logout, flush, failures, histories>>

Cached(t) == entry[t] # None
Dead(t) == dead[t] # None
Idle == [step |-> "idle"]
Issued(t) == provider[t].version > 0

-----------------------------------------------------------------------------
(* Time, the provider, and logins *)

\* No key outlives its time to live.
Tick ==
    /\ clock < MaxClock
    /\ \A t \in Tokens : Cached(t) => clock < entry[t].until
    /\ \A t \in Tokens : Dead(t) => clock < dead[t]
    /\ \A m \in Subjects \cup {Everybody} : marker[m] # None => clock < marker[m].until
    /\ clock' = clock + 1
    /\ UNCHANGED <<provider, cache, request, logout, flush, failures, histories>>

\* The browser has come back with the state it keeps and a code, which is exchanged
\* for a token; with another state, or without a code, it is refused.
CompleteLogin(t) ==
    /\ ~ Issued(t)
    /\ provider' = [provider EXCEPT ![t] = [version |-> 1, active |-> TRUE]]
    /\ UNCHANGED <<clock, cache, request, logout, flush, failures, histories>>

\* The bounded number of failures, which stop a handler half-way.
Failure ==
    /\ failures < MaxFailures
    /\ failures' = failures + 1

-----------------------------------------------------------------------------
(* AuthenticateToken *)

\* A bearer token, or the session cookie; with the cookie a request that changes
\* state must come from an allowed origin.
Admitted(bearer, unsafe, originAllowed) == bearer \/ ~ unsafe \/ originAllowed

Authenticate(r, t) ==
    /\ request[r] = Idle
    /\ Issued(t)
    /\ \E bearer, unsafe, originAllowed \in BOOLEAN :
          Admitted(bearer, unsafe, originAllowed)
    /\ request' = [request EXCEPT
          ![r] = [step |-> "dead", token |-> t, started |-> clock, version |-> 0]]
    /\ outrun' = outrun \ {r}
    /\ UNCHANGED <<clock, provider, cache, logout, flush, failures, forgotten, orphaned,
                   late, buried>>

Goes(r, step) == request' = [request EXCEPT ![r].step = step]
Done(r) == request' = [request EXCEPT ![r] = Idle]
Accepted(r) == Done(r)

\* A failed look-up counts as "not ended".
LookIfDead(r) ==
    /\ request[r].step = "dead"
    /\ \/ Dead(request[r].token) /\ Done(r)
       \/ Goes(r, "cached")
    /\ UNCHANGED <<clock, provider, cache, logout, flush, failures, histories>>

\* A failed look-up counts as "not cached".
FindCached(r) ==
    /\ request[r].step = "cached"
    /\ \/ Cached(request[r].token) /\ Accepted(r)
       \/ Goes(r, "introspect")
    /\ UNCHANGED <<clock, provider, cache, logout, flush, failures, histories>>

Introspect(r) ==
    /\ request[r].step = "introspect"
    /\ LET told == provider[request[r].token] IN
       \/ /\ told.active
          /\ request' = [request EXCEPT ![r].step = "put", ![r].version = told.version]
       \/ Done(r)
    /\ UNCHANGED <<clock, provider, cache, logout, flush, failures, histories>>

\* Of a token that was asked about at this time, a marker tells of a later revocation.
MarkedSince(marks, t, started) ==
    \E m \in {Subject(t), Everybody} : marks[m] # None /\ marks[m].at >= started

\* PUT_TOKEN_SCRIPT.  Mutants: the ended tokens are not looked at, or a marker of the
\* same millisecond is not enough.
MayStoreDead(t, started) == ~ MarkedSince(marker, t, started)
MayStoreSame(t, started) == ~ MarkedSince(marker, t, started + 1) /\ ~ Dead(t)
MayStore(t, started) == ~ MarkedSince(marker, t, started) /\ ~ Dead(t)

\* Nothing keeps it out any more that may have kept it out.
Late(r) ==
    \/ r \in outrun
    \/ request[r].started + MarkerLife <= clock
    \/ request[r].started + DeadLife <= clock

Put(r) ==
    LET t == request[r].token IN
    /\ request[r].step = "put"
    /\ MayStore(t, request[r].started)
    /\ entry' = [entry EXCEPT
          ![t] = [version |-> request[r].version, until |-> clock + EntryLife]]
    /\ index' = [index EXCEPT ![Subject(t)] = @ \cup {t}]
    /\ orphaned' = orphaned \ {t}
    /\ late' = IF Late(r) THEN late \cup {t} ELSE late \ {t}
    /\ Accepted(r)
    /\ UNCHANGED <<clock, provider, marker, dead, logout, flush, failures, forgotten,
                   outrun, buried>>

\* Refused by the script, or Valkey fails; the caller is accepted all the same.
PutNothing(r) ==
    /\ request[r].step = "put"
    /\ Accepted(r)
    /\ UNCHANGED <<clock, provider, cache, logout, flush, failures, histories>>

-----------------------------------------------------------------------------
(* Keys that are over *)

\* An entry lives no longer than its token, which may be over sooner.
Expire(t) ==
    /\ Cached(t)
    /\ entry' = [entry EXCEPT ![t] = None]
    /\ UNCHANGED <<clock, provider, index, marker, dead, request, logout, flush, failures,
                   histories>>

MarkerExpires(m) ==
    /\ marker[m] # None
    /\ marker[m].until <= clock
    /\ marker' = [marker EXCEPT ![m] = None]
    /\ UNCHANGED <<clock, provider, entry, index, dead, request, logout, flush, failures,
                   histories>>

DeadExpires(t) ==
    /\ Dead(t)
    /\ dead[t] <= clock
    /\ dead' = [dead EXCEPT ![t] = None]
    /\ UNCHANGED <<clock, provider, entry, index, marker, request, logout, flush, failures,
                   histories>>

-----------------------------------------------------------------------------
(* Logout with a token: revoke at the provider, then delete_token in any case *)

Logout(t) ==
    /\ Issued(t)
    /\ logout[t] = "idle"
    /\ Cardinality({u \in Tokens : logout[u] # "idle"}) < MaxLogouts
    /\ logout' = [logout EXCEPT ![t] = "revoke"]
    /\ UNCHANGED <<clock, provider, cache, request, flush, failures, histories>>

\* The provider refuses tokens of other clients, or cannot be reached.  A token that is
\* revoked is never active again.
Revoke(t) ==
    /\ logout[t] = "revoke"
    /\ \/ provider' = [provider EXCEPT ![t].active = FALSE]
       \/ UNCHANGED provider
    /\ logout' = [logout EXCEPT ![t] = "bury"]
    /\ UNCHANGED <<clock, cache, request, flush, failures, histories>>

Bury(t) ==
    /\ logout[t] = "bury"
    /\ dead' = [dead EXCEPT ![t] = clock + DeadLife]
    /\ buried' = IF provider[t].active THEN buried ELSE buried \cup {t}
    /\ logout' = [logout EXCEPT ![t] = "unindex"]
    /\ UNCHANGED <<clock, provider, entry, index, marker, request, flush, failures,
                   forgotten, orphaned, outrun, late>>

\* get_token tells whose index holds it.
Unindex(t) ==
    /\ logout[t] = "unindex"
    /\ IF Cached(t)
       THEN /\ index' = [index EXCEPT ![Subject(t)] = @ \ {t}]
            /\ orphaned' = orphaned \cup {t}
       ELSE UNCHANGED <<index, orphaned>>
    /\ logout' = [logout EXCEPT ![t] = "delete"]
    /\ UNCHANGED <<clock, provider, entry, marker, dead, request, flush, failures,
                   forgotten, outrun, late, buried>>

DeleteToken(t) ==
    /\ logout[t] = "delete"
    /\ entry' = [entry EXCEPT ![t] = None]
    /\ logout' = [logout EXCEPT ![t] = "ended"]
    /\ UNCHANGED <<clock, provider, index, marker, dead, request, flush, failures,
                   histories>>

\* Valkey fails: the logout is answered with an error and may be tried again.
LogoutFails(t) ==
    /\ logout[t] \in {"bury", "unindex", "delete"}
    /\ logout' = [logout EXCEPT ![t] = "idle"]
    /\ Failure
    /\ UNCHANGED <<clock, provider, cache, request, flush, histories>>

-----------------------------------------------------------------------------
(* ApplyIdentityEvent *)

\* Something changes for the tokens of s: they are revoked, or its roles change. The
\* event concerns one subject; or everybody, if it is about a role, or a session
\* whose user the server does not know.  A logout without a token is one, too: what was
\* cached of the subject shall be asked for anew.
Event(f, s, whom) ==
    LET changed == {t \in Tokens : Subject(t) = s /\ Issued(t)} IN
    /\ flush[f] = Idle
    /\ changed # {}
    /\ \A t \in changed : provider[t].version < MaxVersion
    /\ \E active \in BOOLEAN :
          provider' = [t \in Tokens |-> IF t \notin changed THEN provider[t] ELSE
             [version |-> provider[t].version + 1, active |-> active /\ provider[t].active]]
    /\ flush' = [flush EXCEPT
          ![f] = [step |-> "clock", whom |-> whom, now |-> 0, tokens |-> {},
                  told |-> [t \in changed |-> provider'[t].version]]]
    /\ UNCHANGED <<clock, cache, request, logout, failures, histories>>

MarkForgotten(told) ==
    forgotten' = [t \in Tokens |-> IF t \in DOMAIN told /\ told[t] > forgotten[t]
                                    THEN told[t] ELSE forgotten[t]]

\* The time is read, and sent to Valkey afterwards: of two handlers the one that read it
\* later may set the marker first.
ReadClock(f) ==
    /\ flush[f].step = "clock"
    /\ flush' = [flush EXCEPT ![f].step = "mark", ![f].now = clock]
    /\ UNCHANGED <<clock, provider, cache, request, logout, failures, histories>>

\* Mutant: the marker is never set.
MarkNothing(f) == flush[f].step = "mark" /\ UNCHANGED marker
SetMarker(f) ==
    /\ flush[f].step = "mark"
    /\ marker' = [marker EXCEPT
          ![flush[f].whom] = [at |-> flush[f].now, until |-> clock + MarkerLife]]

\* Requests that were kept out and no longer are.
Freed ==
    {r \in Requests :
        /\ request[r] # Idle
        /\ MarkedSince(marker, request[r].token, request[r].started)
        /\ ~ MarkedSince(marker', request[r].token, request[r].started)}

Mark(f) ==
    /\ SetMarker(f)
    /\ outrun' = outrun \cup Freed
    /\ flush' = [flush EXCEPT ![f].step = "read"]
    /\ UNCHANGED <<clock, provider, entry, index, dead, request, logout, failures,
                   forgotten, orphaned, late, buried>>

\* smembers of one subject's index, or the keys a scan finds: at least those that
\* are there from its beginning to its end.
ReadTokens(f) ==
    /\ flush[f].step = "read"
    /\ flush' = [flush EXCEPT
          ![f].step = "delete",
          ![f].tokens = IF flush[f].whom = Everybody
                        THEN {t \in Tokens : Cached(t)} ELSE index[flush[f].whom]]
    /\ UNCHANGED <<clock, provider, cache, request, logout, failures, histories>>

\* One subject: the index and the entries in one command; everybody: the entries,
\* and then the indexes.
DeleteEntries(f) ==
    LET whom == flush[f].whom IN
    /\ flush[f].step = "delete"
    /\ entry' = [t \in Tokens |-> IF t \in flush[f].tokens THEN None ELSE entry[t]]
    /\ IF whom = Everybody
       THEN /\ flush' = [flush EXCEPT ![f].step = "indexes"]
            /\ UNCHANGED <<index, forgotten, orphaned>>
       ELSE /\ flush' = [flush EXCEPT ![f] = Idle]
            /\ orphaned' = orphaned \cup {t \in index[whom] : entry'[t] # None}
            /\ index' = [index EXCEPT ![whom] = {}]
            /\ MarkForgotten(flush[f].told)
    /\ UNCHANGED <<clock, provider, marker, dead, request, logout, failures, outrun, late,
                   buried>>

DeleteIndexes(f) ==
    /\ flush[f].step = "indexes"
    /\ orphaned' = orphaned \cup {t \in Tokens : t \in index[Subject(t)] /\ Cached(t)}
    /\ index' = [s \in Subjects |-> {}]
    /\ MarkForgotten(flush[f].told)
    /\ flush' = [flush EXCEPT ![f] = Idle]
    /\ UNCHANGED <<clock, provider, entry, marker, dead, request, logout, failures, outrun,
                   late, buried>>

\* Valkey fails: the event is answered with an error, and not applied.
FlushFails(f) ==
    /\ flush[f] # Idle
    /\ flush' = [flush EXCEPT ![f] = Idle]
    /\ Failure
    /\ UNCHANGED <<clock, provider, cache, request, logout, histories>>

-----------------------------------------------------------------------------

IdentityInit ==
    /\ clock = 1
    /\ provider = [t \in Tokens |-> [version |-> 0, active |-> FALSE]]
    /\ entry = [t \in Tokens |-> None]
    /\ index = [s \in Subjects |-> {}]
    /\ marker = [m \in Subjects \cup {Everybody} |-> None]
    /\ dead = [t \in Tokens |-> None]
    /\ failures = 0
    /\ request = [r \in Requests |-> Idle]
    /\ logout = [t \in Tokens |-> "idle"]
    /\ flush = [f \in Flushes |-> Idle]
    /\ forgotten = [t \in Tokens |-> 0]
    /\ orphaned = {} /\ outrun = {} /\ late = {} /\ buried = {}

Answer(r) ==
    LookIfDead(r) \/ FindCached(r) \/ Introspect(r) \/ Put(r) \/ PutNothing(r)

LogoutStep(t) ==
    Revoke(t) \/ Bury(t) \/ Unindex(t) \/ DeleteToken(t) \/ LogoutFails(t)

FlushStep(f) ==
    \/ ReadClock(f) \/ Mark(f) \/ ReadTokens(f) \/ DeleteEntries(f) \/ DeleteIndexes(f)
    \/ FlushFails(f)

IdentityNext ==
    \/ Tick
    \/ \E t \in Tokens :
          CompleteLogin(t) \/ Expire(t) \/ DeadExpires(t) \/ Logout(t) \/ LogoutStep(t)
    \/ \E r \in Requests : Answer(r) \/ \E t \in Tokens : Authenticate(r, t)
    \/ \E m \in Subjects \cup {Everybody} : MarkerExpires(m)
    \/ \E f \in Flushes :
          \/ FlushStep(f)
          \/ \E s \in Subjects : Event(f, s, s) \/ Event(f, s, Everybody)

IdentitySpec == IdentityInit /\ [][IdentityNext]_identityVars

-----------------------------------------------------------------------------
(* Properties *)

\* A token with which somebody has logged out is not cached while it is buried, whatever
\* requests with it were on their way; and one that the provider has revoked is not
\* served afterwards either, from an entry that was there before or came meanwhile, even
\* if the logout failed half-way, unless by a request as old as the burial.
LogoutHolds ==
    \A t \in Tokens : Cached(t) =>
        /\ ~ (logout[t] = "ended" /\ Dead(t))
        /\ t \in buried => Dead(t) \/ t \in late

\* Once an event is applied, nothing the provider told before it is taken from the
\* cache, not even an answer that was on its way; but an entry which a flush overtook
\* between reading an index and deleting it is found by no later flush, and an answer
\* comes late whose request took longer than markers live, or whose marker the handler
\* of an earlier event has set back.
AppliedEventsHold ==
    \A t \in Tokens :
        Cached(t) /\ entry[t].version < forgotten[t] => t \in orphaned \cup late

\* The index leads to every entry but those.
IndexComplete ==
    \A t \in Tokens : Cached(t) /\ t \notin index[Subject(t)] => t \in orphaned

\* What was revoked is not served from the cache, nor lost from its index.
RevocationsHold == LogoutHolds /\ AppliedEventsHold /\ IndexComplete

=============================================================================
