------------------------------ MODULE EntityCache ------------------------------
(***************************************************************************)
(* The data layer of the browser: CacheRuntime with its EntityStore.       *)
(* Reads put what they are answered into one normalized store and retain   *)
(* it; commands run one after the other, show their effect in an           *)
(* optimistic layer, and put their answer beneath it; sweeping drops what  *)
(* nothing retains; clearAll begins a new epoch for another session.  The  *)
(* store is cut where the code awaits: an answer, or TanStack Query, which *)
(* keeps the result of each read, cancels and repeats reads.               *)
(***************************************************************************)
EXTENDS Naturals, Sequences, FiniteSets

CONSTANTS
    Refs,         \* entities
    Nested(_),    \* the entities that a record of this one refers to: one level
    Reads,        \* queries with their input
    Tags(_),      \* reads(input): the entities a query declares
    Answers(_),   \* the sets of entities a query may be answered with
    Commands,     \* calls of execute
    Target(_),    \* writes(input, output): the entity a command writes
    Optimistic,   \* the commands that are shown before they are answered
    MaxEpochs,    \* bound: calls of clearAll
    None

ASSUME CacheAssumption ==
    /\ \A r \in Refs : Nested(r) \subseteq {s \in Refs : Nested(s) = {}}
    /\ \A q \in Reads : Tags(q) \subseteq Refs /\ Answers(q) \subseteq SUBSET Refs
    /\ \A c \in Commands : Target(c) \in Refs
    /\ Optimistic \subseteq Commands /\ IsFiniteSet(Commands)
    /\ MaxEpochs \in Nat

Steps == {"queued", "sent", "served", "answered", "invalidating", "done", "failed"}

\* What is not there is none.
ASSUME NoneAssumption ==
    /\ \A refs \in SUBSET Refs : refs # None
    /\ None \notin [version : Nat, epoch : Nat]
    /\ None \notin [step : Steps, epoch : Nat, version : Nat]
    /\ None \notin [step : {"asked", "answered", "normalized"}, generation : Nat,
                    epoch : Nat, refs : SUBSET Refs,
                    versions : UNION {[R -> Nat] : R \in SUBSET Refs},
                    awaitedBy : SUBSET Commands]

VARIABLES
    server,      \* server[r]: the version of r behind the API
    base,        \* confirmed records: version, and the epoch it was asked in
    layers,      \* the commands whose optimistic layer is active
    data,        \* data[q]: what the cached result of q refers to, retained
    pending,     \* pending[q]: retained for a read whose result is not cached yet
    fetch,       \* fetch[q]: the read of q that is under way
    mounted,     \* the queries some component shows
    command,     \* command[c]: the step of c and the epoch it was called in
    writes,      \* the commands in the order they were called
    generation,  \* writeGeneration
    epoch,
    own          \* history: the latest version an own command was answered with

store == <<base, layers, own>>
reading == <<data, pending, fetch, mounted>>
writing == <<command, writes, generation>>
vars == <<server, store, reading, writing, epoch>>

NotFetched == [q \in Reads |-> None]
Ended(c) == command[c].step \in {"done", "failed"}
Step(c, step) == command' = [command EXCEPT ![c].step = step]

-----------------------------------------------------------------------------
(* EntityStore *)

\* A record of r in the answer carries the records nested in it.
WithNested(refs) == refs \cup UNION {Nested(r) : r \in refs}

\* normalize, of records asked for in epoch e.
Normalized(versions, e) ==
    [r \in Refs |-> IF r \in DOMAIN versions
                    THEN [version |-> versions[r], epoch |-> e] ELSE base[r]]

Retained(results) == UNION {results[q] : q \in {p \in Reads : results[p] # None}}

\* sweep: records no read, command in settlement or layer leads to are dropped.
Marked(records, roots) ==
    roots \cup UNION {Nested(r) : r \in {x \in roots : records[x] # None}}
Swept(results, pendings, cmds, ls) ==
    LET outputs == {Target(c) : c \in {d \in Commands :
                       /\ cmds[d] # None
                       /\ cmds[d].step = "invalidating"
                       /\ cmds[d].epoch = epoch}}
        roots == Retained(results) \cup Retained(pendings) \cup outputs
                    \cup {Target(c) : c \in ls}
        marked == Marked(base, roots) IN
    [r \in Refs |-> IF r \in marked THEN base[r] ELSE None]

-----------------------------------------------------------------------------
(* Reads: queryFn and what TanStack Query does with it *)

Asked(awaitedBy) ==
    [step |-> "asked", generation |-> generation, epoch |-> epoch, refs |-> {},
     versions |-> <<>>, awaitedBy |-> awaitedBy]

\* The reads qs stop, answered or not: each is idle again with the result it had
\* before; what it had retained for a new one is released and swept.
\* Mutant: it stays retained.
StoppedRetaining(qs) ==
    /\ fetch' = [q \in Reads |-> IF q \in qs THEN None ELSE fetch[q]]
    /\ UNCHANGED pending
Stopped(qs) ==
    /\ fetch' = [q \in Reads |-> IF q \in qs THEN None ELSE fetch[q]]
    /\ pending' = [q \in Reads |-> IF q \in qs THEN None ELSE pending[q]]

Fetching(qs) == {q \in qs : fetch[q] # None}

\* A component mounts: a read begins unless the cached one is fresh enough.
Mount(q) ==
    /\ q \notin mounted
    /\ mounted' = mounted \cup {q}
    /\ \/ fetch' = [fetch EXCEPT ![q] = Asked({})]
       \/ data[q] # None /\ UNCHANGED fetch
    /\ UNCHANGED <<server, store, data, pending, writing, epoch>>

\* refetchInterval, or refetch, which cancels silently the read under way: by a
\* timer or the user, so never between two continuations of one answer.
Refetch(q) ==
    /\ q \in mounted
    /\ fetch[q] # None => data[q] # None /\ fetch[q].step # "normalized"
    /\ fetch' = [fetch EXCEPT ![q] =
          Asked(IF fetch[q] = None THEN {} ELSE fetch[q].awaitedBy)]
    /\ UNCHANGED <<server, store, data, pending, mounted, writing, epoch>>

Answer(q) ==
    \E refs \in Answers(q) :
        /\ fetch[q] # None
        /\ fetch[q].step = "asked"
        /\ fetch' = [fetch EXCEPT
              ![q].step = "answered",
              ![q].refs = refs,
              ![q].versions = [r \in WithNested(refs) |-> server[r]]]
        /\ UNCHANGED <<server, store, data, pending, mounted, writing, epoch>>

FetchFails(q) ==
    /\ fetch[q] # None
    /\ fetch[q].step = "asked"
    /\ Stopped({q})
    /\ base' = Swept(data, pending', command, layers)
    /\ UNCHANGED <<server, layers, own, data, mounted, writing, epoch>>

\* Was a command answered since the read began?
\* Mutant: it is not looked at.
UpToDateAlways(q) == TRUE
UpToDate(q) == fetch[q].generation = generation

\* A read that a command overtook is repeated.
Repeat(q) ==
    /\ fetch[q] # None
    /\ fetch[q].step = "answered"
    /\ ~ UpToDate(q)
    /\ fetch' = [fetch EXCEPT ![q] = Asked(@.awaitedBy)]
    /\ UNCHANGED <<server, store, data, pending, mounted, writing, epoch>>

\* The records are retained until the result is cached.  Cancelled reads and those
\* of an earlier epoch do not come here: their signal is aborted.
Normalize(q) ==
    /\ fetch[q] # None
    /\ fetch[q].step = "answered"
    /\ UpToDate(q)
    /\ base' = Normalized(fetch[q].versions, fetch[q].epoch)
    /\ pending' = [pending EXCEPT ![q] = fetch[q].refs]
    /\ fetch' = [fetch EXCEPT ![q].step = "normalized"]
    /\ UNCHANGED <<server, layers, own, data, mounted, writing, epoch>>

\* The result is cached: it is retained instead of the pending read.
Cache(q) ==
    /\ fetch[q] # None
    /\ fetch[q].step = "normalized"
    /\ data' = [data EXCEPT ![q] = fetch[q].refs]
    /\ Stopped({q})
    /\ base' = Swept(data', pending', command, layers)
    /\ UNCHANGED <<server, layers, own, mounted, writing, epoch>>

\* The last component unmounts, which cancels its read.
Unmount(q) ==
    /\ q \in mounted
    /\ mounted' = mounted \ {q}
    /\ IF fetch[q] = None THEN UNCHANGED <<fetch, pending, base>>
       ELSE /\ Stopped({q})
            /\ base' = Swept(data, pending', command, layers)
    /\ UNCHANGED <<server, layers, own, data, writing, epoch>>

\* gcTime is over, or the query is evicted: its result is released.
Remove(q) ==
    /\ q \notin mounted
    /\ data[q] # None
    /\ data' = [data EXCEPT ![q] = None]
    /\ Stopped({q})
    /\ base' = Swept(data', pending', command, layers)
    /\ UNCHANGED <<server, layers, own, mounted, writing, epoch>>

-----------------------------------------------------------------------------
(* Commands: execute *)

\* The reads a command invalidates.
Hit(c) == {q \in Reads : Target(c) \in Tags(q)}

\* execute: the command joins the chain of writes.
Execute(c) ==
    /\ command[c] = None
    /\ command' = [command EXCEPT
          ![c] = [step |-> "queued", epoch |-> epoch, version |-> 0]]
    /\ writes' = Append(writes, c)
    /\ UNCHANGED <<server, store, reading, generation, epoch>>

\* this.writes.then(run, run): those called before it have ended, well or not;
\* clearAll starts another chain.
\* Mutant: this.writes.then(run).
TurnAfterSuccess(c) ==
    \A i, j \in 1..Len(writes) :
        /\ writes[j] = c /\ i < j
        /\ command[writes[i]].epoch = command[c].epoch
        => command[writes[i]].step = "done"
Turn(c) ==
    \A i, j \in 1..Len(writes) :
        /\ writes[j] = c /\ i < j
        /\ command[writes[i]].epoch = command[c].epoch
        => Ended(writes[i])

\* Whether the session the command was called in is still the present one.
\* Mutant: this is not looked at.
CurrentAlways(c) == TRUE
Current(c) == command[c].epoch = epoch

\* Mutant: every command begins a layer.
LayerAlways(c) == {c}
LayerOf(c) == {c} \cap Optimistic

Waiting(c, step) == command[c] # None /\ command[c].step = step

Run(c) ==
    /\ Waiting(c, "queued")
    /\ Turn(c)
    /\ Current(c)
    /\ layers' = layers \cup LayerOf(c)
    /\ Step(c, "sent")
    /\ UNCHANGED <<server, base, own, reading, writes, generation, epoch>>

\* Called before clearAll: it is never sent.
RunCancelled(c) ==
    /\ Waiting(c, "queued")
    /\ Turn(c)
    /\ ~ Current(c)
    /\ Step(c, "failed")
    /\ UNCHANGED <<server, store, reading, writes, generation, epoch>>

\* A change by somebody else looks like a command whose answer was lost.
Serve(c) ==
    LET version == server[Target(c)] + 1 IN
    /\ Waiting(c, "sent")
    /\ server' = [server EXCEPT ![Target(c)] = version]
    /\ command' = [command EXCEPT ![c].step = "served", ![c].version = version]
    /\ UNCHANGED <<store, reading, writes, generation, epoch>>

\* The layer goes, and what only it had retained.
Discard(c) ==
    /\ layers' = layers \ {c}
    /\ Step(c, "failed")
    /\ base' = Swept(data, pending, command', layers')

\* A refusal, or a failed connection, after which nobody knows what happened.
CommandFails(c) ==
    /\ Waiting(c, "sent") \/ Waiting(c, "served")
    /\ Discard(c)
    /\ UNCHANGED <<server, own, reading, writes, generation, epoch>>

CommandCancelled(c) ==
    /\ Waiting(c, "served") \/ Waiting(c, "answered")
    /\ ~ Current(c)
    /\ Discard(c)
    /\ UNCHANGED <<server, own, reading, writes, generation, epoch>>

\* The answer: reads begun before are outdated, and those it concerns cancelled.
Receive(c) ==
    LET stopped == Fetching(Hit(c)) IN
    /\ Waiting(c, "served")
    /\ Current(c)
    /\ generation' = generation + 1
    /\ Step(c, "answered")
    /\ Stopped(stopped)
    /\ base' = IF stopped = {} THEN base
               ELSE Swept(data, pending', command', layers)
    /\ UNCHANGED <<server, layers, own, data, mounted, writes, epoch>>

\* In one transaction of the store the output takes the place of the layer; then
\* the reads it concerns are repeated where a component shows them.
Settle(c) ==
    LET r == Target(c)
        repeated == {q \in Hit(c) \cap mounted : fetch[q] # None => data[q] # None}
    IN
    /\ Waiting(c, "answered")
    /\ Current(c)
    /\ base' = [base EXCEPT
          ![r] = [version |-> command[c].version, epoch |-> command[c].epoch]]
    /\ own' = [own EXCEPT ![r] = command[c].version]
    /\ layers' = layers \ {c}
    /\ fetch' = [q \in Reads |->
          IF q \in repeated THEN Asked({c}) ELSE
          IF q \in Fetching(Hit(c) \cap mounted)
          THEN [fetch[q] EXCEPT !.awaitedBy = @ \cup {c}] ELSE fetch[q]]
    /\ Step(c, "invalidating")
    /\ UNCHANGED <<server, data, pending, mounted, writes, generation, epoch>>

\* The repeated reads have ended.
Finish(c) ==
    /\ Waiting(c, "invalidating")
    /\ \A q \in Reads : fetch[q] # None => c \notin fetch[q].awaitedBy
    /\ Step(c, "done")
    /\ base' = Swept(data, pending, command', layers)
    /\ UNCHANGED <<server, layers, own, reading, writes, generation, epoch>>

-----------------------------------------------------------------------------

\* invalidator.clearAll.
ClearAll ==
    /\ epoch < MaxEpochs
    /\ epoch' = epoch + 1
    /\ base' = [r \in Refs |-> None]
    /\ layers' = {}
    /\ data' = NotFetched
    /\ pending' = NotFetched
    /\ fetch' = NotFetched
    /\ mounted' = {}
    /\ own' = [r \in Refs |-> 0]
    /\ UNCHANGED <<server, writing>>

Init ==
    /\ server = [r \in Refs |-> 0]
    /\ base = [r \in Refs |-> None]
    /\ layers = {}
    /\ data = NotFetched
    /\ pending = NotFetched
    /\ fetch = NotFetched
    /\ mounted = {}
    /\ command = [c \in Commands |-> None]
    /\ writes = <<>>
    /\ generation = 0
    /\ epoch = 0
    /\ own = [r \in Refs |-> 0]

Read(q) ==
    \/ Mount(q) \/ Refetch(q) \/ Answer(q) \/ FetchFails(q) \/ Repeat(q)
    \/ Normalize(q) \/ Cache(q) \/ Unmount(q) \/ Remove(q)

Proceed(c) ==
    \/ Run(c) \/ RunCancelled(c) \/ Serve(c) \/ CommandFails(c)
    \/ CommandCancelled(c) \/ Receive(c) \/ Settle(c) \/ Finish(c)

Next ==
    \/ \E q \in Reads : Read(q)
    \/ \E c \in Commands : Execute(c) \/ Proceed(c)
    \/ ClearAll

Spec == Init /\ [][Next]_vars

\* Requests are answered or fail, continuations run; a read that is begun again
\* and again is not always begun again before its answer has come.
FairSpec ==
    /\ Spec
    /\ \A q \in Reads :
          /\ WF_vars(Answer(q) \/ FetchFails(q) \/ Cache(q))
          /\ SF_vars(Repeat(q) \/ Normalize(q))
    /\ \A c \in Commands : WF_vars(Proceed(c))

-----------------------------------------------------------------------------
(* Properties *)

Versions == 0..Cardinality(Commands)

TypeOK ==
    /\ server \in [Refs -> Versions]
    /\ base \in [Refs -> {None} \cup [version : Versions, epoch : 0..MaxEpochs]]
    /\ layers \subseteq Optimistic
    /\ data \in [Reads -> {None} \cup SUBSET Refs]
    /\ pending \in [Reads -> {None} \cup SUBSET Refs]
    /\ \A q \in Reads : fetch[q] # None =>
          /\ fetch[q].step \in {"asked", "answered", "normalized"}
          /\ fetch[q].generation \in 0..generation
          /\ fetch[q].epoch \in 0..epoch
          /\ DOMAIN fetch[q].versions = WithNested(fetch[q].refs)
          /\ fetch[q].awaitedBy \subseteq Commands
    /\ mounted \subseteq Reads
    /\ command \in [Commands -> {None} \cup
          [step : Steps, epoch : 0..MaxEpochs, version : Versions]]
    /\ writes \in Seq(Commands)
    /\ generation \in 0..Cardinality(Commands)
    /\ own \in [Refs -> Versions]

\* What a command was answered with is never replaced by something older: no read
\* that began before the answer puts the state before the command back.
OwnWritesStay == \A r \in Refs : base[r] # None => base[r].version >= own[r]

\* Sweeping keeps what is needed and nothing else: every cached result can be put
\* together from the store, and when nothing is under way the store holds only
\* what cached results lead to.
StoreServesReads ==
    /\ \A q \in Reads : data[q] # None =>
          \A r \in WithNested(data[q]) : base[r] # None
    /\ (\A q \in Reads : fetch[q] = None)
          /\ (\A c \in Commands : command[c] # None => Ended(c))
       => \A r \in Refs : base[r] # None => r \in WithNested(Retained(data))

\* Nothing asked for in an earlier session shows in a later one: no record, and
\* no layer but that of the present session's command on its way.
EpochIsolation ==
    /\ \A r \in Refs : base[r] # None => base[r].epoch = epoch
    /\ \A c \in layers :
          /\ command[c].epoch = epoch
          /\ command[c].step \in {"sent", "served", "answered"}
    /\ Cardinality(layers) <= 1

\* Every command comes to an end, although each waits for the ones before it and
\* for the reads it has repeated.
CommandsEnd == \A c \in Commands : command[c] # None ~> command[c] # None /\ Ended(c)
\* The types, and sessions that do not mix.
SessionsApart == TypeOK /\ EpochIsolation

=============================================================================
