--------------------------- MODULE EntityCacheProofs ---------------------------
(***************************************************************************)
(* Proofs about EntityCache, for any records, queries and commands, and    *)
(* any number of sessions.                                                 *)
(***************************************************************************)
EXTENDS EntityCache, FiniteSetTheorems, TLAPS

-----------------------------------------------------------------------------
(* The inductive invariant *)

Fetches ==
    [step : {"asked", "answered", "normalized"}, generation : Nat, epoch : Nat,
     refs : SUBSET Refs, versions : UNION {[R -> Nat] : R \in SUBSET Refs},
     awaitedBy : SUBSET Commands]

Live(c) == command[c] # None /\ command[c].step \in {"sent", "served", "answered"}

\* A read knows the generation and the session it was asked in, and carries a
\* version of each record that it was answered with.
FetchOk(f, g, e) ==
    /\ f \in Fetches
    /\ f.generation <= g
    /\ f.epoch = e
    /\ f.versions \in [WithNested(f.refs) -> Versions]
FetchesTyped ==
    /\ fetch \in [Reads -> {None} \cup Fetches]
    /\ \A q \in Reads : fetch[q] # None => FetchOk(fetch[q], generation, epoch)

\* What reads retain, what they know, and the versions they are answered with.
RetainedTyped(results) == results \in [Reads -> {None} \cup SUBSET Refs]

ReadsTyped ==
    /\ RetainedTyped(data) /\ RetainedTyped(pending)
    /\ mounted \subseteq Reads
    /\ generation \in Nat /\ epoch \in Nat
    /\ server \in [Refs -> Versions]
    /\ FetchesTyped

\* The commands and the steps they have come to.
CommandsTyped ==
    command \in [Commands -> {None} \cup
        [step : Steps, epoch : 0..MaxEpochs, version : Versions]]

\* The commands that the server has taken, and those that have been answered:
\* there are no more versions than the ones, no more generations than the others.
Taken == {c \in Commands : command[c] # None /\ command[c].version > 0}
KnownSteps == {"answered", "invalidating", "done", "failed"}
Known == {c \in Commands : command[c] # None /\ command[c].step \in KnownSteps}

Counted ==
    /\ \A r \in Refs : server[r] <= Cardinality(Taken)
    /\ generation <= Cardinality(Known)
    /\ \A c \in Commands : command[c] # None =>
          /\ command[c].step \in {"queued", "sent"} => command[c].version = 0
          /\ command[c].epoch <= epoch
          /\ command[c].version <= server[Target(c)]

\* What a read that nothing has overtaken was answered with is not older than
\* what own commands were answered with.
ReadsAreRecent ==
    /\ \A r \in Refs : own[r] <= server[r]
    /\ \A q \in Reads :
          /\ fetch[q] # None
          /\ fetch[q].step = "answered"
          /\ fetch[q].generation = generation
          => \A r \in WithNested(fetch[q].refs) :
                 /\ fetch[q].versions[r] >= own[r]
                 /\ \A c \in Commands : Waiting(c, "answered") /\ Target(c) = r =>
                       fetch[q].versions[r] >= command[c].version

\* What is retained is there, and a read retains what it will cache.
Served(refs) == \A r \in WithNested(refs) : base[r] # None
RetainedIsThere ==
    \A q \in Reads :
        /\ data[q] # None => Served(data[q])
        /\ pending[q] # None => fetch[q] # None /\ Served(pending[q])
        /\ fetch[q] # None /\ fetch[q].step = "normalized" =>
              pending[q] = fetch[q].refs

\* What a sweep keeps: it is enough that the last read to end has swept.
Roots(results, pendings, cmds, ls) ==
    Retained(results) \cup Retained(pendings)
    \cup {Target(c) : c \in {d \in Commands : /\ cmds[d] # None
                                              /\ cmds[d].step = "invalidating"
                                              /\ cmds[d].epoch = epoch}}
    \cup {Target(c) : c \in ls}
OnlyNeeded(results, pendings, cmds, ls) ==
    \A r \in Refs :
        base[r] # None => r \in Marked(base, Roots(results, pendings, cmds, ls))
NoGarbage ==
    (\A q \in Reads : fetch[q] = None) => OnlyNeeded(data, pending, command, layers)

\* The commands of a session are in the chain once, and run one by one.
OneByOne ==
    /\ \A i \in 1..Len(writes) : command[writes[i]] # None
    /\ \A c \in Commands : command[c] # None => \E i \in 1..Len(writes) : writes[i] = c
    /\ \A i, j \in 1..Len(writes) :
          i < j /\ command[writes[i]].epoch = command[writes[j]].epoch
                /\ command[writes[j]].step # "queued"
          => Ended(writes[i])

\* A record is not older than what own commands were answered with, and it was
\* asked for in the present session.
BaseTyped ==
    base \in [Refs -> {None} \cup [version : Versions, epoch : 0..MaxEpochs]]
RecordsHold ==
    /\ BaseTyped
    /\ OwnWritesStay
    /\ \A r \in Refs : base[r] # None => base[r].epoch = epoch

\* The layers are those of the present session's commands on their way.
LayersLive ==
    /\ layers \subseteq Optimistic
    /\ \A c \in layers : Live(c) /\ command[c].epoch = epoch

\* What holds of the commands, and what holds of the store and the reads.
CommandInv ==
    /\ CommandsTyped /\ Counted
    /\ writes \in Seq(Commands) /\ OneByOne
StoreInv ==
    /\ ReadsTyped /\ epoch \in 0..MaxEpochs
    /\ own \in [Refs -> Versions]
    /\ RecordsHold /\ ReadsAreRecent
    /\ RetainedIsThere /\ NoGarbage /\ LayersLive

IInv == CommandInv /\ StoreInv

-----------------------------------------------------------------------------
(* Helpers *)

\* What a read that begins knows.
LEMMA AskedIsFetch ==
    ASSUME generation \in Nat, epoch \in Nat, NEW A \in SUBSET Commands
    PROVE  /\ FetchOk(Asked(A), generation, epoch)
           /\ Asked(A) # None
           /\ Asked(A).step = "asked"
           /\ Asked(A).refs = {}
           /\ Asked(A).awaitedBy = A
<1>1. WithNested({}) = {}
  BY DEF WithNested
<1>2. <<>> \in [{} -> Nat] /\ <<>> \in [{} -> Versions]
  OBVIOUS
<1>3. <<>> \in UNION {[R -> Nat] : R \in SUBSET Refs}
  BY <1>2
<1>4. /\ Asked(A) \in Fetches /\ Asked(A).step = "asked" /\ Asked(A).refs = {}
      /\ Asked(A).generation = generation /\ Asked(A).epoch = epoch
      /\ Asked(A).versions = <<>> /\ Asked(A).awaitedBy = A
  BY <1>3 DEF Asked, Fetches
<1>5. Asked(A) # None
  BY <1>4, NoneAssumption DEF NoneAssumption, Fetches
<1> QED
  BY <1>1, <1>2, <1>4, <1>5 DEF FetchOk

\* The records of an answer, and those nested in them.
LEMMA NestedAreRefs ==
    ASSUME NEW refs \in SUBSET Refs
    PROVE  WithNested(refs) \in SUBSET Refs
BY CacheAssumption DEF CacheAssumption, WithNested

\* A read whose answer is in the store.
LEMMA NormalizedIsFetch ==
    ASSUME NEW f, NEW g \in Nat, NEW e \in Nat, FetchOk(f, g, e),
           NEW f2, f2 = [f EXCEPT !.step = "normalized"]
    PROVE  /\ FetchOk(f2, g, e) /\ f2 # None /\ f2.step = "normalized"
           /\ f2.refs = f.refs /\ f2.versions = f.versions
           /\ f2.generation = f.generation /\ f2.awaitedBy = f.awaitedBy
<1>2. f \in Fetches
  BY DEF FetchOk
<1>3. /\ f2 \in Fetches /\ f2.step = "normalized" /\ f2.refs = f.refs
      /\ f2.versions = f.versions /\ f2.generation = f.generation
      /\ f2.epoch = f.epoch /\ f2.awaitedBy = f.awaitedBy
  BY <1>2 DEF Fetches
<1>4. f2 # None
  BY <1>3, NoneAssumption DEF NoneAssumption, Fetches
<1> QED
  BY <1>3, <1>4 DEF FetchOk

\* A read that one more command awaits.
LEMMA AwaitedIsFetch ==
    ASSUME NEW f, NEW g \in Nat, NEW e \in Nat, FetchOk(f, g, e),
           NEW c \in Commands,
           NEW f2, f2 = [f EXCEPT !.awaitedBy = @ \cup {c}]
    PROVE  /\ FetchOk(f2, g, e) /\ f2 # None /\ f2.step = f.step
           /\ f2.refs = f.refs /\ f2.versions = f.versions
           /\ f2.generation = f.generation
<1>2. f \in Fetches
  BY DEF FetchOk
<1>3. /\ f2 \in Fetches /\ f2.step = f.step /\ f2.refs = f.refs
      /\ f2.versions = f.versions /\ f2.generation = f.generation
      /\ f2.epoch = f.epoch
  BY <1>2 DEF Fetches
<1>4. f2 # None
  BY <1>3, NoneAssumption DEF NoneAssumption, Fetches
<1> QED
  BY <1>3, <1>4 DEF FetchOk

LEMMA CountsAreNaturals == Cardinality(Commands) \in Nat
BY CacheAssumption, FS_CardinalityType DEF CacheAssumption

LEMMA CommandFields ==
    ASSUME CommandsTyped, NEW c \in Commands, command[c] # None
    PROVE  /\ command[c] \in [step : Steps, epoch : 0..MaxEpochs, version : Versions]
           /\ command[c].step \in Steps
           /\ command[c].epoch \in Nat /\ command[c].version \in Nat
BY CountsAreNaturals, CacheAssumption DEF CommandsTyped, Versions, CacheAssumption

LEMMA StepSetsStep ==
    ASSUME CommandsTyped, NEW c \in Commands, command[c] # None,
           NEW s \in Steps, Step(c, s)
    PROVE  /\ CommandsTyped'
           /\ command'[c] # None
           /\ command'[c].step = s
           /\ command'[c].epoch = command[c].epoch
           /\ command'[c].version = command[c].version
           /\ \A d \in Commands : d # c => command'[d] = command[d]
<1>1. command[c] \in [step : Steps, epoch : 0..MaxEpochs, version : Versions]
  BY CommandFields
<1>2. command'[c] = [command[c] EXCEPT !.step = s]
  BY DEF Step, CommandsTyped
<1>3. /\ command'[c] \in [step : Steps, epoch : 0..MaxEpochs, version : Versions]
      /\ command'[c].step = s /\ command'[c].epoch = command[c].epoch
      /\ command'[c].version = command[c].version
  BY <1>1, <1>2
<1>4. command'[c] \in [step : Steps, epoch : Nat, version : Nat]
  BY <1>3, CountsAreNaturals, CacheAssumption DEF Versions, CacheAssumption
<1>5. command'[c] # None
  BY <1>4, NoneAssumption DEF NoneAssumption
<1>6. \A d \in Commands : d # c => command'[d] = command[d]
  BY DEF Step, CommandsTyped
<1>7. CommandsTyped'
  BY <1>3 DEF Step, CommandsTyped
<1> QED
  BY <1>3, <1>5, <1>6, <1>7

LEMMA RetainedAreRefs ==
    ASSUME NEW results, RetainedTyped(results)
    PROVE  /\ Retained(results) \subseteq Refs
           /\ \A q \in Reads : results[q] # None =>
                 results[q] \in SUBSET Refs /\ results[q] \subseteq Retained(results)
BY DEF Retained, RetainedTyped

LEMMA RootsAreRefs ==
    ASSUME NEW results, NEW pendings, NEW cmds, NEW ls \in SUBSET Commands,
           RetainedTyped(results), RetainedTyped(pendings)
    PROVE  Roots(results, pendings, cmds, ls) \subseteq Refs
BY RetainedAreRefs, CacheAssumption DEF Roots, CacheAssumption

LEMMA SweepKeeps ==
    ASSUME NEW results, NEW pendings, NEW cmds, NEW ls \in SUBSET Commands,
           RetainedTyped(results), RetainedTyped(pendings),
           NEW W, W = Swept(results, pendings, cmds, ls)
    PROVE  /\ DOMAIN W = Refs /\ W = [r \in Refs |-> W[r]]
           /\ \A r \in Refs : W[r] # None => W[r] = base[r]
           /\ \A r \in Retained(results) \cup Retained(pendings) :
                 base[r] # None => \A s \in {r} \cup Nested(r) : W[s] = base[s]
           /\ \A r \in Refs : W[r] # None =>
                 r \in Marked(W, Roots(results, pendings, cmds, ls))
<1> DEFINE R == Roots(results, pendings, cmds, ls)
           M == Marked(base, R)
<1>1. R \subseteq Refs
  BY RootsAreRefs
<1>2. W = [r \in Refs |-> IF r \in M THEN base[r] ELSE None]
  BY DEF Swept, Roots
<1>3. Retained(results) \cup Retained(pendings) \subseteq R
  BY DEF Roots
<1> HIDE DEF R
<1>4. ASSUME NEW r \in R, base[r] # None, NEW s \in {r} \cup Nested(r)
      PROVE  W[s] = base[s]
  <2>1. s \in M
    BY <1>4 DEF Marked
  <2>2. s \in Refs
    BY <1>1, CacheAssumption DEF CacheAssumption
  <2> QED
    BY <2>1, <2>2, <1>2
<1>5. ASSUME NEW r \in Refs, W[r] # None
      PROVE  r \in Marked(W, R)
  <2>1. r \in M
    BY <1>2, <1>5
  <2>2. CASE r \in R
    BY <2>2 DEF Marked
  <2>3. CASE r \notin R
    <3>1. PICK x \in R : base[x] # None /\ r \in Nested(x)
      BY <2>1, <2>3 DEF Marked
    <3>2. W[x] # None
      BY <3>1, <1>4
    <3> QED
      BY <3>1, <3>2 DEF Marked
  <2> QED
    BY <2>2, <2>3
<1> QED
  BY <1>2, <1>3, <1>4, <1>5 DEF R

-----------------------------------------------------------------------------
(* What the reads do *)

\* The read of q begins, ends or goes on; no other read does anything, and neither
\* commands nor the session change.
Began(q) ==
    fetch'[q] # None /\ fetch'[q].step = "asked" /\ fetch'[q].refs = {}
ReadAnswered(q) ==
    /\ fetch[q] # None /\ fetch'[q] # None
    /\ fetch'[q].step = "answered"
    /\ fetch'[q].refs \in SUBSET Refs
    /\ fetch'[q].versions = [r \in WithNested(fetch'[q].refs) |-> server[r]]
ReadNormalized(q) ==
    /\ fetch[q] # None /\ fetch'[q] # None
    /\ fetch'[q].step = "normalized" /\ fetch'[q].refs = fetch[q].refs
    /\ pending' = [pending EXCEPT ![q] = fetch[q].refs]
ReadEnded(q) ==
    /\ Stopped({q})
    /\ base' = Swept(data', pending', command, layers)
    /\ \/ data' = data
       \/ data' = [data EXCEPT ![q] = None]
       \/ /\ fetch[q] # None /\ fetch[q].step = "normalized"
          /\ data' = [data EXCEPT ![q] = fetch[q].refs]

LEMMA ReadFrame ==
    ASSUME NEW q \in Reads, Read(q)
    PROVE  UNCHANGED <<server, layers, own, command, writes, generation, epoch>>
BY DEF Read, Mount, Refetch, Answer, FetchFails, Repeat, Normalize, Cache, Unmount,
       Remove, store, writing

LEMMA ReadEffect ==
    ASSUME ReadsTyped, NEW q \in Reads, Read(q)
    PROVE  \/ /\ UNCHANGED <<base, data, pending>>
              /\ \A p \in Reads \ {q} : fetch'[p] = fetch[p]
              /\ fetch' \in [Reads -> {None} \cup Fetches]
              /\ \/ fetch'[q] = fetch[q]
                 \/ /\ FetchOk(fetch'[q], generation, epoch)
                    /\ Began(q) \/ ReadAnswered(q)
           \/ /\ Normalize(q)
              /\ UNCHANGED data
              /\ \A p \in Reads \ {q} : fetch'[p] = fetch[p]
              /\ fetch' \in [Reads -> {None} \cup Fetches]
              /\ FetchOk(fetch'[q], generation, epoch)
              /\ ReadNormalized(q)
           \/ ReadEnded(q)
<1> USE DEF ReadsTyped
<1>1. /\ fetch \in [Reads -> {None} \cup Fetches]
      /\ \A p \in Reads : fetch[p] # None => FetchOk(fetch[p], generation, epoch)
  BY DEF FetchesTyped
<1>2. ASSUME NEW f, f = None \/ FetchOk(f, generation, epoch),
             fetch' = [fetch EXCEPT ![q] = f]
      PROVE  /\ \A p \in Reads \ {q} : fetch'[p] = fetch[p]
             /\ fetch' \in [Reads -> {None} \cup Fetches]
             /\ fetch'[q] = f
  BY <1>1, <1>2 DEF FetchOk
<1>3. ASSUME NEW A \in SUBSET Commands, fetch' = [fetch EXCEPT ![q] = Asked(A)]
      PROVE  /\ \A p \in Reads \ {q} : fetch'[p] = fetch[p]
             /\ fetch' \in [Reads -> {None} \cup Fetches]
             /\ FetchOk(fetch'[q], generation, epoch) /\ Began(q)
  BY <1>2, <1>3, AskedIsFetch DEF Began
<1>4. CASE Mount(q)
  <2>1. {} \in SUBSET Commands
    OBVIOUS
  <2>2. CASE fetch' = [fetch EXCEPT ![q] = Asked({})]
    BY <2>1, <2>2, <1>3, <1>4 DEF Mount, store
  <2>3. CASE UNCHANGED fetch
    BY <2>3, <1>1, <1>4 DEF Mount, store
  <2> QED
    BY <2>2, <2>3, <1>4 DEF Mount
<1>5. CASE Refetch(q)
  <2> DEFINE A == IF fetch[q] = None THEN {} ELSE fetch[q].awaitedBy
  <2>1. A \in SUBSET Commands
    BY <1>1 DEF FetchOk, Fetches
  <2>2. fetch' = [fetch EXCEPT ![q] = Asked(A)]
    BY <1>5 DEF Refetch
  <2> HIDE DEF A
  <2> QED
    BY <2>1, <2>2, <1>3, <1>5 DEF Refetch, store
<1>6. CASE Answer(q)
  <2>1. PICK refs \in Answers(q) :
           /\ fetch[q] # None
           /\ fetch' = [fetch EXCEPT
                 ![q].step = "answered",
                 ![q].refs = refs,
                 ![q].versions = [r \in WithNested(refs) |-> server[r]]]
    BY <1>6 DEF Answer
  <2> DEFINE v == [r \in WithNested(refs) |-> server[r]]
             f == [fetch[q] EXCEPT !.step = "answered", !.refs = refs, !.versions = v]
  <2>2. refs \in SUBSET Refs
    BY CacheAssumption DEF CacheAssumption
  <2>3. v \in [WithNested(refs) -> Versions]
    BY <2>2, NestedAreRefs
  <2>4. fetch' = [fetch EXCEPT ![q] = f]
    BY <2>1, <1>1
  <2>5. FetchOk(fetch[q], generation, epoch)
    BY <2>1, <1>1
  <2> HIDE DEF v
  <2>10. f = [fetch[q] EXCEPT !.step = "answered", !.refs = refs, !.versions = v]
    OBVIOUS
  <2> HIDE DEF f
  <2>11. fetch[q] \in Fetches /\ fetch[q].generation <= generation
         /\ fetch[q].epoch = epoch
    BY <2>5 DEF FetchOk
  <2>12. v \in UNION {[R -> Nat] : R \in SUBSET Refs}
    BY <2>2, <2>3, NestedAreRefs, CountsAreNaturals DEF Versions
  <2>13. /\ f \in Fetches /\ f.step = "answered" /\ f.refs = refs /\ f.versions = v
         /\ f.generation = fetch[q].generation /\ f.epoch = fetch[q].epoch
    BY <2>2, <2>10, <2>11, <2>12 DEF Fetches
  <2>6. /\ FetchOk(f, generation, epoch) /\ f # None /\ f.step = "answered"
        /\ f.refs = refs /\ f.versions = v
    BY <2>3, <2>11, <2>13, NoneAssumption DEF NoneAssumption, Fetches, FetchOk
  <2>7. fetch'[q] = f /\ (\A p \in Reads \ {q} : fetch'[p] = fetch[p])
        /\ fetch' \in [Reads -> {None} \cup Fetches]
    BY <2>4, <2>6, <1>2
  <2>8. ReadAnswered(q)
    BY <2>1, <2>2, <2>6, <2>7 DEF ReadAnswered, v
  <2> QED
    BY <2>6, <2>7, <2>8, <1>6 DEF Answer, store
<1>7. CASE FetchFails(q)
  BY <1>7 DEF FetchFails, ReadEnded
<1>8. CASE Repeat(q)
  <2>1. fetch[q].awaitedBy \in SUBSET Commands
    BY <1>8, <1>1 DEF FetchOk, Fetches, Repeat
  <2>2. fetch' = [fetch EXCEPT ![q] = Asked(fetch[q].awaitedBy)]
    BY <1>8 DEF Repeat
  <2> QED
    BY <2>1, <2>2, <1>3, <1>8 DEF Repeat, store
<1>9. CASE Normalize(q)
  <2> DEFINE f == [fetch[q] EXCEPT !.step = "normalized"]
  <2>1. fetch' = [fetch EXCEPT ![q] = f] /\ fetch[q] # None
    BY <1>9, <1>1 DEF Normalize
  <2>2. /\ FetchOk(f, generation, epoch) /\ f # None /\ f.step = "normalized"
        /\ f.refs = fetch[q].refs
    BY <2>1, <1>1, NormalizedIsFetch
  <2> HIDE DEF f
  <2>3. fetch'[q] = f /\ (\A p \in Reads \ {q} : fetch'[p] = fetch[p])
        /\ fetch' \in [Reads -> {None} \cup Fetches]
    BY <2>1, <2>2, <1>2
  <2> QED
    BY <2>1, <2>2, <2>3, <1>9 DEF ReadNormalized, Normalize
<1>10. CASE Cache(q)
  BY <1>10 DEF Cache, ReadEnded
<1>11. CASE Unmount(q)
  <2>1. CASE fetch[q] = None
    BY <2>1, <1>11, <1>1 DEF Unmount
  <2>2. CASE fetch[q] # None
    BY <2>2, <1>11 DEF Unmount, ReadEnded
  <2> QED
    BY <2>1, <2>2
<1>12. CASE Remove(q)
  BY <1>12 DEF Remove, ReadEnded
<1> QED
  BY <1>4, <1>5, <1>6, <1>7, <1>8, <1>9, <1>10, <1>11, <1>12 DEF Read

\* A record is never none.
LEMMA RecordsAreNotNone ==
    ASSUME NEW x \in [version : Versions, epoch : 0..MaxEpochs]
    PROVE  x # None
BY NoneAssumption, CountsAreNaturals, CacheAssumption
   DEF NoneAssumption, Versions, CacheAssumption

LEMMA StoppedKeepsTypes ==
    ASSUME ReadsTyped, NEW qs \in SUBSET Reads, Stopped(qs),
           UNCHANGED epoch, generation' \in Nat, generation' >= generation
    PROVE  FetchesTyped' /\ RetainedTyped(pending')
<1>1. ASSUME NEW p \in Reads, fetch'[p] # None
      PROVE  fetch'[p] \in Fetches /\ FetchOk(fetch'[p], generation', epoch')
  <2>1. fetch'[p] = fetch[p] /\ fetch[p] # None
    BY <1>1 DEF Stopped
  <2>2. FetchOk(fetch[p], generation, epoch)
    BY <2>1 DEF ReadsTyped, FetchesTyped
  <2>3. \A n \in Nat : n <= generation => n <= generation'
    BY DEF ReadsTyped
  <2> QED
    BY <2>1, <2>2, <2>3 DEF FetchOk, Fetches
<1>2. fetch' \in [Reads -> {None} \cup Fetches]
  BY <1>1 DEF Stopped
<1>3. RetainedTyped(pending')
  BY DEF Stopped, ReadsTyped, RetainedTyped
<1> QED
  BY <1>1, <1>2, <1>3 DEF FetchesTyped

LEMMA ReadKeepsTypes ==
    ASSUME ReadsTyped, NEW q \in Reads, Read(q)
    PROVE  ReadsTyped'
<1>1. UNCHANGED <<server, generation, epoch>>
  BY ReadFrame
<1>2. mounted' \subseteq Reads
  BY DEF ReadsTyped, Read, Mount, Refetch, Answer, FetchFails, Repeat, Normalize,
         Cache, Unmount, Remove
<1>3. \A p \in Reads : fetch[p] # None => FetchOk(fetch[p], generation, epoch)
  BY DEF ReadsTyped, FetchesTyped
<1>4. \A p \in Reads : fetch[p] # None => fetch[p].refs \in SUBSET Refs
  BY <1>3 DEF FetchOk, Fetches
<1>6. CASE ReadEnded(q)
  <2>1. FetchesTyped' /\ RetainedTyped(pending')
    BY <1>1, <1>6, StoppedKeepsTypes DEF ReadEnded, ReadsTyped
  <2>2. RetainedTyped(data')
    BY <1>4, <1>6 DEF ReadEnded, ReadsTyped, RetainedTyped
  <2> QED
    BY <2>1, <2>2, <1>1, <1>2 DEF ReadsTyped
<1>7. CASE /\ UNCHANGED <<base, data, pending>>
           /\ \A p \in Reads \ {q} : fetch'[p] = fetch[p]
           /\ fetch' \in [Reads -> {None} \cup Fetches]
           /\ \/ fetch'[q] = fetch[q]
              \/ /\ FetchOk(fetch'[q], generation, epoch)
                 /\ Began(q) \/ ReadAnswered(q)
  BY <1>7, <1>1, <1>2, <1>3 DEF ReadsTyped, FetchesTyped
<1>8. CASE /\ Normalize(q)
           /\ UNCHANGED data
           /\ \A p \in Reads \ {q} : fetch'[p] = fetch[p]
           /\ fetch' \in [Reads -> {None} \cup Fetches]
           /\ FetchOk(fetch'[q], generation, epoch)
           /\ ReadNormalized(q)
  <2>1. RetainedTyped(pending')
    BY <1>4, <1>8 DEF ReadNormalized, ReadsTyped, RetainedTyped
  <2> QED
    BY <2>1, <1>8, <1>1, <1>2, <1>3 DEF ReadsTyped, FetchesTyped
<1> QED
  BY <1>6, <1>7, <1>8, ReadEffect

LEMMA SweepKeepsRecords ==
    ASSUME RecordsHold,
           NEW results, NEW pendings, NEW cmds, NEW ls \in SUBSET Commands,
           RetainedTyped(results), RetainedTyped(pendings),
           base' = Swept(results, pendings, cmds, ls), UNCHANGED <<own, epoch>>
    PROVE  RecordsHold'
<1>1. /\ base' = [r \in Refs |-> base'[r]]
      /\ \A r \in Refs : base'[r] # None => base'[r] = base[r]
  BY SweepKeeps
<1>2. BaseTyped'
  BY <1>1 DEF RecordsHold, BaseTyped
<1> QED
  BY <1>1, <1>2 DEF RecordsHold, OwnWritesStay

LEMMA ReadKeepsRecords ==
    ASSUME ReadsTyped, RecordsHold, ReadsAreRecent, epoch \in 0..MaxEpochs, layers \subseteq Commands,
           NEW q \in Reads, Read(q)
    PROVE  RecordsHold'
<1>1. UNCHANGED <<own, epoch>>
  BY ReadFrame
<1>2. ReadsTyped'
  BY ReadKeepsTypes
<1>3. CASE UNCHANGED base
  BY <1>1, <1>3 DEF RecordsHold, BaseTyped, OwnWritesStay
<1>4. CASE ReadEnded(q)
  BY <1>1, <1>2, <1>4, SweepKeepsRecords DEF ReadEnded, ReadsTyped
<1>5. CASE Normalize(q)
  <2> DEFINE f == fetch[q]
  <2>1. /\ f # None /\ f.step = "answered" /\ f.generation = generation
        /\ base' = [r \in Refs |-> IF r \in DOMAIN f.versions
              THEN [version |-> f.versions[r], epoch |-> f.epoch] ELSE base[r]]
    BY <1>5 DEF Normalize, UpToDate, Normalized
  <2>2. f.versions \in [WithNested(f.refs) -> Versions] /\ f.epoch = epoch
    BY <2>1 DEF ReadsTyped, FetchesTyped, FetchOk
  <2>3. \A r \in WithNested(f.refs) : f.versions[r] >= own[r]
    BY <2>1 DEF ReadsAreRecent
  <2> HIDE DEF f
  <2>5. BaseTyped'
    BY <2>1, <2>2 DEF RecordsHold, BaseTyped
  <2>6. \A r \in Refs : base'[r] # None => base'[r].epoch = epoch
    BY <2>1, <2>2 DEF RecordsHold
  <2>7. OwnWritesStay'
    BY <1>1, <2>1, <2>2, <2>3 DEF RecordsHold, OwnWritesStay
  <2> QED
    BY <1>1, <2>5, <2>6, <2>7 DEF RecordsHold
<1> QED
  BY <1>3, <1>4, <1>5, ReadEffect

\* What a read is answered with is recent: the server has all that own commands
\* were answered with.
LEMMA ReadKeepsRecent ==
    ASSUME ReadsTyped, ReadsAreRecent, CommandsTyped, Counted,
           own \in [Refs -> Versions],
           NEW q \in Reads, Read(q)
    PROVE  ReadsAreRecent'
<1> DEFINE Recent(f) == \A r \in WithNested(f.refs) :
              /\ f.versions[r] >= own[r]
              /\ \A c \in Commands : Waiting(c, "answered") /\ Target(c) = r =>
                    f.versions[r] >= command[c].version
<1>1. UNCHANGED <<server, own, command, generation>>
  BY ReadFrame
<1>2. \A p \in Reads :
          /\ fetch[p] # None
          /\ fetch[p].step = "answered"
          /\ fetch[p].generation = generation
          => Recent(fetch[p])
  BY DEF ReadsAreRecent
<1>3. ASSUME NEW p \in Reads, fetch'[p] # None,
             fetch'[p].step = "answered",
             fetch'[p].generation = generation
      PROVE  Recent(fetch'[p])
  <2>1. CASE fetch'[p] = fetch[p]
    BY <2>1, <1>2, <1>3
  <2>2. CASE p = q /\ ReadAnswered(q)
    <3> DEFINE f == fetch'[q]
    <3>1. f.versions = [r \in WithNested(f.refs) |-> server[r]]
          /\ f.refs \in SUBSET Refs
      BY <2>2 DEF ReadAnswered
    <3>2. WithNested(f.refs) \in SUBSET Refs
      BY <3>1, NestedAreRefs
    <3>3. \A r \in Refs : server[r] >= own[r]
      BY CountsAreNaturals DEF ReadsAreRecent, ReadsTyped, Versions
    <3>4. \A c \in Commands : command[c] # None => server[Target(c)] >= command[c].version
      BY CommandFields, CacheAssumption, CountsAreNaturals
         DEF Counted, CacheAssumption, ReadsTyped, Versions
    <3> HIDE DEF f
    <3>5. Recent(f)
      BY <3>1, <3>2, <3>3, <3>4 DEF Waiting
    <3> QED
      BY <3>5, <2>2 DEF f
  <2>3. CASE ReadEnded(q)
    BY <2>3, <2>1, <1>3 DEF ReadEnded, Stopped
  <2> QED
    BY <2>1, <2>2, <2>3, <1>3, ReadEffect DEF Began, ReadNormalized
<1> QED
  BY <1>1, <1>3 DEF ReadsAreRecent, Waiting

\* A read that ends drops nothing another read retains, nor what it has cached.
LEMMA SweepKeepsRetained ==
    ASSUME NEW results, NEW pendings, NEW cmds, NEW ls \in SUBSET Commands,
           RetainedTyped(results), RetainedTyped(pendings),
           base' = Swept(results, pendings, cmds, ls),
           NEW q \in Reads
    PROVE  /\ results[q] # None /\ Served(results[q]) => Served(results[q])'
           /\ pendings[q] # None /\ Served(pendings[q]) => Served(pendings[q])'
<1>1. ASSUME results[q] # None, Served(results[q])
      PROVE  Served(results[q])'
  <2>1. results[q] \in SUBSET Refs /\ results[q] \subseteq Retained(results)
    BY <1>1, RetainedAreRefs
  <2>2. \A r \in results[q] : \A s \in {r} \cup Nested(r) : base'[s] = base[s]
    BY <1>1, <2>1, SweepKeeps DEF Served, WithNested
  <2> QED
    BY <1>1, <2>2 DEF Served, WithNested
<1>2. ASSUME pendings[q] # None, Served(pendings[q])
      PROVE  Served(pendings[q])'
  <2>1. pendings[q] \in SUBSET Refs /\ pendings[q] \subseteq Retained(pendings)
    BY <1>2, RetainedAreRefs
  <2>2. \A r \in pendings[q] : \A s \in {r} \cup Nested(r) : base'[s] = base[s]
    BY <1>2, <2>1, SweepKeeps DEF Served, WithNested
  <2> QED
    BY <1>2, <2>2 DEF Served, WithNested
<1> QED
  BY <1>1, <1>2

LEMMA ReadKeepsRetained ==
    ASSUME ReadsTyped, BaseTyped, epoch \in 0..MaxEpochs, RetainedIsThere,
           layers \subseteq Commands,
           NEW q \in Reads, Read(q)
    PROVE  RetainedIsThere'
<1>1. ReadsTyped'
  BY ReadKeepsTypes
<1>2. \A p \in Reads :
          /\ data[p] # None => Served(data[p])
          /\ pending[p] # None => fetch[p] # None /\ Served(pending[p])
          /\ fetch[p] # None /\ fetch[p].step = "normalized" =>
                pending[p] = fetch[p].refs
  BY DEF RetainedIsThere
<1>3. \A p \in Reads : fetch[p] # None => fetch[p].refs \in SUBSET Refs
  BY DEF ReadsTyped, FetchesTyped, FetchOk, Fetches
<1>4. CASE /\ UNCHANGED <<base, data, pending>>
           /\ \A p \in Reads \ {q} : fetch'[p] = fetch[p]
           /\ fetch' \in [Reads -> {None} \cup Fetches]
           /\ \/ fetch'[q] = fetch[q]
              \/ /\ FetchOk(fetch'[q], generation, epoch)
                 /\ Began(q) \/ ReadAnswered(q)
  <2>1. ASSUME NEW p \in Reads
        PROVE  /\ pending'[p] # None => fetch'[p] # None
               /\ fetch'[p] # None /\ fetch'[p].step = "normalized" =>
                     pending'[p] = fetch'[p].refs
    BY <1>2, <1>4 DEF Began, ReadAnswered
  <2> QED
    BY <2>1, <1>2, <1>4 DEF RetainedIsThere, Served
<1>5. CASE /\ Normalize(q)
           /\ UNCHANGED data
           /\ \A p \in Reads \ {q} : fetch'[p] = fetch[p]
           /\ ReadNormalized(q)
  <2> DEFINE f == fetch[q]
  <2>1. /\ f # None
        /\ base' = [r \in Refs |-> IF r \in DOMAIN f.versions
              THEN [version |-> f.versions[r], epoch |-> f.epoch] ELSE base[r]]
    BY <1>5 DEF Normalize, Normalized
  <2>2. /\ f.versions \in [WithNested(f.refs) -> Versions]
        /\ f.epoch = epoch
        /\ f.refs \in SUBSET Refs
    BY <2>1 DEF ReadsTyped, FetchesTyped, FetchOk, Fetches
  <2>3. WithNested(f.refs) \in SUBSET Refs
    BY <2>2, NestedAreRefs
  <2> HIDE DEF f
  <2>4. \A r \in WithNested(f.refs) : base'[r] # None
    BY <2>1, <2>2, <2>3, RecordsAreNotNone
  <2>5. \A r \in Refs : base[r] # None => base'[r] # None
    BY <2>1, <2>2, <2>4
  <2>6. \A refs \in SUBSET Refs : Served(refs) => Served(refs)'
    BY <2>5, NestedAreRefs DEF Served
  <2>7. pending' = [pending EXCEPT ![q] = f.refs] /\ fetch'[q] # None
        /\ fetch'[q].refs = f.refs
    BY <1>5 DEF ReadNormalized, f
  <2>8. ASSUME NEW p \in Reads
        PROVE  /\ data'[p] # None => Served(data[p])'
               /\ pending'[p] # None => fetch'[p] # None /\ Served(pending[p])'
               /\ fetch'[p] # None /\ fetch'[p].step = "normalized" =>
                     pending'[p] = fetch'[p].refs
    <3>1. data'[p] # None => Served(data[p])'
      BY <2>5, <1>2, <1>5, NestedAreRefs, RetainedAreRefs DEF Served, ReadsTyped
    <3>2. CASE p = q
      BY <3>1, <3>2, <2>4, <2>7 DEF Served, ReadsTyped, RetainedTyped
    <3>3. CASE p # q
      <4>1. pending'[p] = pending[p] /\ fetch'[p] = fetch[p]
        BY <3>3, <2>7, <1>5 DEF ReadsTyped, RetainedTyped
      <4>2. pending'[p] # None => Served(pending[p])'
        BY <4>1, <2>5, <1>2, NestedAreRefs, RetainedAreRefs DEF Served, ReadsTyped
      <4> QED
        BY <3>1, <4>1, <4>2, <1>2
    <3> QED
      BY <3>2, <3>3
  <2> QED
    BY <2>8 DEF RetainedIsThere
<1>6. CASE ReadEnded(q)
  <2>1. base' = Swept(data', pending', command, layers)
        /\ RetainedTyped(data') /\ RetainedTyped(pending')
    BY <1>1, <1>6 DEF ReadEnded, ReadsTyped
  <2>2. \A p \in Reads :
           /\ fetch'[p] = IF p = q THEN None ELSE fetch[p]
           /\ pending'[p] = IF p = q THEN None ELSE pending[p]
    BY <1>6 DEF ReadEnded, Stopped
  <2>3. ASSUME NEW p \in Reads, data'[p] # None
        PROVE  Served(data'[p])
    <3>1. CASE data'[p] = data[p]
      BY <3>1, <2>3, <1>2
    <3>2. CASE p = q /\ data'[p] = fetch[q].refs
               /\ fetch[q] # None /\ fetch[q].step = "normalized"
      BY <3>2, <1>2, <1>3, NoneAssumption DEF NoneAssumption
    <3> QED
      BY <3>1, <3>2, <2>3, <1>6 DEF ReadEnded, ReadsTyped, RetainedTyped
  <2>4. \A p \in Reads : data'[p] # None => Served(data[p])'
    BY <2>1, <2>3, SweepKeepsRetained DEF Served
  <2>5. \A p \in Reads : pending'[p] # None => Served(pending[p])'
    BY <2>1, <2>2, <1>2, SweepKeepsRetained DEF Served
  <2> QED
    BY <2>2, <2>4, <2>5, <1>2 DEF RetainedIsThere
<1> QED
  BY <1>4, <1>5, <1>6, ReadEffect

\* A read that ends sweeps; while one is under way nothing is asked.
LEMMA ReadKeepsNeeded ==
    ASSUME ReadsTyped, NoGarbage, layers \subseteq Commands,
           NEW q \in Reads, Read(q)
    PROVE  NoGarbage'
<1>1. ReadsTyped' /\ UNCHANGED <<command, layers, epoch>>
  BY ReadKeepsTypes, ReadFrame
<1>2. CASE /\ UNCHANGED <<base, data, pending>>
           /\ \A p \in Reads \ {q} : fetch'[p] = fetch[p]
           /\ fetch'[q] = fetch[q]
  BY <1>1, <1>2 DEF NoGarbage, OnlyNeeded, Marked, Roots
<1>3. CASE fetch'[q] # None
  BY <1>3 DEF NoGarbage
<1>4. CASE ReadEnded(q)
  <2>1. base' = Swept(data', pending', command, layers)
        /\ RetainedTyped(data') /\ RetainedTyped(pending')
    BY <1>1, <1>4 DEF ReadEnded, ReadsTyped
  <2>2. \A r \in Refs : base'[r] # None =>
           r \in Marked(base', Roots(data', pending', command, layers))
    BY <2>1, SweepKeeps
  <2> QED
    BY <2>2, <1>1 DEF NoGarbage, OnlyNeeded, Marked, Roots
<1> QED
  BY <1>2, <1>3, <1>4, ReadEffect DEF Began, ReadAnswered, ReadNormalized

-----------------------------------------------------------------------------
(* What the commands do *)

LEMMA CountsGrow ==
    ASSUME NEW S \in SUBSET Commands, NEW T \in SUBSET Commands, S \subseteq T
    PROVE  /\ Cardinality(S) \in Nat /\ Cardinality(T) \in Nat
           /\ Cardinality(S) <= Cardinality(T)
           /\ Cardinality(T) <= Cardinality(Commands)
           /\ S # T => Cardinality(S) + 1 <= Cardinality(T)
<1>1. IsFiniteSet(Commands) /\ IsFiniteSet(T) /\ IsFiniteSet(S)
  BY CacheAssumption, FS_Subset DEF CacheAssumption
<1>2. Cardinality(S) \in Nat /\ Cardinality(T) \in Nat
  BY <1>1, FS_CardinalityType
<1>3. Cardinality(S) <= Cardinality(T) /\ Cardinality(T) <= Cardinality(Commands)
  BY <1>1, FS_Subset
<1>4. ASSUME S # T
      PROVE  Cardinality(S) + 1 <= Cardinality(T)
  <2>1. PICK x \in T : x \notin S
    BY <1>4
  <2>2. Cardinality(S \cup {x}) = Cardinality(S) + 1
    BY <1>1, <2>1, FS_AddElement
  <2>3. Cardinality(S \cup {x}) <= Cardinality(T)
    BY <1>1, <2>1, FS_Subset
  <2> QED
    BY <2>2, <2>3
<1> QED
  BY <1>2, <1>3, <1>4

LEMMA StepKeepsCounts ==
    ASSUME CommandsTyped, Counted, generation \in Nat, server \in [Refs -> Versions],
           NEW c \in Commands, command[c] # None,
           NEW s \in Steps, Step(c, s), UNCHANGED <<server, epoch>>,
           command[c].step \in KnownSteps => s \in KnownSteps,
           s \in {"queued", "sent"} => command[c].step \in {"queued", "sent"},
           \/ generation' = generation
           \/ /\ generation' = generation + 1
              /\ command[c].step \notin KnownSteps /\ s \in KnownSteps
    PROVE  Counted'
<1>1. /\ command'[c] # None /\ command'[c].step = s
      /\ command'[c].epoch = command[c].epoch
      /\ command'[c].version = command[c].version
      /\ \A d \in Commands : d # c => command'[d] = command[d]
  BY StepSetsStep
<1>2. Taken' = Taken
  BY <1>1 DEF Taken
<1>3. Known \in SUBSET Commands /\ Known' \in SUBSET Commands /\ Known \subseteq Known'
  BY <1>1 DEF Known, KnownSteps
<1>4. generation' <= Cardinality(Known')
  <2>1. CASE generation' = generation
    BY <2>1, <1>3, CountsGrow DEF Counted
  <2>2. CASE generation' = generation + 1 /\ command[c].step \notin KnownSteps
             /\ s \in KnownSteps
    <3>1. Known # Known'
      BY <2>2, <1>1 DEF Known, KnownSteps
    <3>2. Cardinality(Known) + 1 <= Cardinality(Known') /\ Cardinality(Known) \in Nat
          /\ Cardinality(Known') \in Nat
      BY <3>1, <1>3, CountsGrow
    <3>3. generation <= Cardinality(Known)
      BY DEF Counted
    <3> HIDE DEF Known
    <3> QED
      BY <2>2, <3>2, <3>3
  <2> QED
    BY <2>1, <2>2
<1>5. \A d \in Commands : command'[d] # None =>
        /\ command'[d].step \in {"queued", "sent"} => command'[d].version = 0
        /\ command'[d].epoch <= epoch
        /\ command'[d].version <= server[Target(d)]
  BY <1>1 DEF Counted
<1> QED
  BY <1>2, <1>4, <1>5 DEF Counted

LEMMA ServeEffect ==
    ASSUME CommandsTyped, Counted, server \in [Refs -> Versions],
           NEW c \in Commands, Serve(c)
    PROVE  /\ server' \in [Refs -> Versions] /\ CommandsTyped' /\ Counted'
           /\ \A r \in Refs : server'[r] >= server[r]
           /\ command[c] # None /\ command[c].step = "sent"
           /\ command'[c] # None /\ command'[c].step = "served"
           /\ command'[c].epoch = command[c].epoch
           /\ \A d \in Commands : d # c => command'[d] = command[d]
<1> DEFINE r == Target(c)
           v == server[r] + 1
           f == [command[c] EXCEPT !.step = "served", !.version = v]
<1>1. r \in Refs
  BY CacheAssumption DEF CacheAssumption
<1>2. server[r] \in Nat /\ v \in Nat /\ v > 0
  BY <1>1, CountsAreNaturals DEF Versions
<1>3. /\ command[c] # None /\ command[c].step = "sent"
      /\ server' = [server EXCEPT ![r] = v]
      /\ command' = [command EXCEPT ![c] = f]
      /\ UNCHANGED <<epoch, generation>>
  BY DEF Serve, Waiting, CommandsTyped
<1>4. command[c] \in [step : Steps, epoch : 0..MaxEpochs, version : Versions]
      /\ command[c].version = 0
  BY <1>3, CommandFields DEF Counted
<1> HIDE DEF v
<1>5. /\ f.step = "served" /\ f.version = v /\ f.epoch = command[c].epoch
      /\ f \in [step : Steps, epoch : 0..MaxEpochs, version : {v}]
  BY <1>4 DEF Steps
<1> HIDE DEF f
<1>6. f # None
  BY <1>2, <1>4, <1>5, NoneAssumption, CacheAssumption
     DEF NoneAssumption, CacheAssumption, Steps
<1>7. command'[c] = f /\ (\A d \in Commands : d # c => command'[d] = command[d])
  BY <1>3 DEF CommandsTyped
<1>8. Taken \subseteq Taken' /\ Taken # Taken'
      /\ Taken \in SUBSET Commands /\ Taken' \in SUBSET Commands
  BY <1>2, <1>4, <1>5, <1>6, <1>7 DEF Taken
<1>9. /\ Cardinality(Taken) + 1 <= Cardinality(Taken')
      /\ Cardinality(Taken) \in Nat /\ Cardinality(Taken') \in Nat
      /\ Cardinality(Taken') <= Cardinality(Commands)
  BY <1>8, CountsGrow
<1>10. \A x \in Refs : server[x] \in Nat /\ server[x] <= Cardinality(Taken)
  BY CountsAreNaturals DEF Counted, Versions
<1>11. v <= Cardinality(Taken')
  <2>1. \A l, m, n \in Nat : l <= m /\ m + 1 <= n => l + 1 <= n
    OBVIOUS
  <2> QED
    BY <2>1, <1>1, <1>9, <1>10 DEF v
<1>12. \A x \in Refs : server'[x] \in Nat /\ server'[x] <= Cardinality(Taken')
  BY <1>2, <1>3, <1>9, <1>10, <1>11
<1>13. server' \in [Refs -> Versions] /\ v \in Versions
  <2>1. v \in Versions
    BY <1>2, <1>9, <1>11, CountsAreNaturals DEF Versions
  <2> QED
    BY <2>1, <1>3
<1>14. \A x \in Refs : server'[x] >= server[x]
  <2>1. \A x \in Refs : server'[x] = IF x = r THEN v ELSE server[x]
    BY <1>3
  <2>2. v >= server[r]
    BY <1>2 DEF v
  <2> HIDE DEF r
  <2> QED
    BY <2>1, <2>2, <1>10
<1>15. CommandsTyped'
  BY <1>3, <1>4, <1>5, <1>13 DEF CommandsTyped, Steps
<1>16. Known' = Known
  BY <1>3, <1>5, <1>6, <1>7 DEF Known, KnownSteps
<1>17. \A d \in Commands : command'[d] # None =>
         /\ command'[d].step \in {"queued", "sent"} => command'[d].version = 0
         /\ command'[d].epoch <= epoch
  BY <1>3, <1>5, <1>7 DEF Counted
<1>18. \A d \in Commands : command'[d] # None =>
          command'[d].version <= server'[Target(d)]
  <2>1. ASSUME NEW d \in Commands, command'[d] # None
        PROVE  command'[d].version <= server'[Target(d)]
    <3>1. CASE d = c
      BY <3>1, <1>1, <1>2, <1>3, <1>5, <1>7
    <3>2. CASE d # c
      <4>1. command'[d] = command[d] /\ command[d] # None
        BY <3>2, <2>1, <1>7
      <4>2. command[d].version \in Nat /\ command[d].version <= server[Target(d)]
            /\ Target(d) \in Refs
        BY <4>1, CommandFields, CacheAssumption DEF Counted, CacheAssumption
      <4> QED
        BY <4>1, <4>2, <1>10, <1>12, <1>14
    <3> QED
      BY <3>1, <3>2
  <2> QED
    BY <2>1
<1> QED
  BY <1>3, <1>5, <1>6, <1>7, <1>12, <1>13, <1>14, <1>15, <1>16, <1>17, <1>18 DEF Counted

\* A command that has not ended goes a step further, in its turn; nothing else of
\* it changes but the version it is served with.
LEMMA ProceedFrame ==
    ASSUME NEW c \in Commands, Proceed(c)
    PROVE  UNCHANGED <<data, mounted, writes, epoch>>
BY DEF Proceed, Run, RunCancelled, Serve, CommandFails, CommandCancelled, Receive,
       Settle, Finish, store, reading

Counts(c, s) ==
    /\ command[c].step \in KnownSteps => s \in KnownSteps
    /\ s \in {"queued", "sent"} => command[c].step \in {"queued", "sent"}
    /\ \/ generation' = generation
       \/ /\ generation' = generation + 1
          /\ command[c].step \notin KnownSteps /\ s \in KnownSteps

LEMMA ProceedSteps ==
    ASSUME CommandsTyped, NEW c \in Commands, Proceed(c)
    PROVE  /\ command[c] # None /\ ~ Ended(c)
           /\ command[c].step = "queued" => Turn(c)
           /\ \/ Serve(c)
              \/ \E s \in Steps \ {"queued"} :
                    Step(c, s) /\ Counts(c, s) /\ UNCHANGED server
<1>1. CASE Run(c)
  BY <1>1 DEF Run, Waiting, Ended, Steps, Counts, KnownSteps
<1>2. CASE RunCancelled(c)
  BY <1>2 DEF RunCancelled, Waiting, Ended, Steps, Counts, KnownSteps
<1>3. CASE Serve(c)
  BY <1>3 DEF Serve, Waiting, Ended
<1>4. CASE CommandFails(c)
  BY <1>4 DEF CommandFails, Discard, Waiting, Ended, Steps, Counts, KnownSteps
<1>5. CASE CommandCancelled(c)
  BY <1>5 DEF CommandCancelled, Discard, Waiting, Ended, Steps, Counts, KnownSteps
<1>6. CASE Receive(c)
  BY <1>6 DEF Receive, Waiting, Ended, Steps, Counts, KnownSteps
<1>7. CASE Settle(c)
  BY <1>7 DEF Settle, Waiting, Ended, Steps, Counts, KnownSteps
<1>8. CASE Finish(c)
  BY <1>8 DEF Finish, Waiting, Ended, Steps, Counts, KnownSteps
<1> QED
  BY <1>1, <1>2, <1>3, <1>4, <1>5, <1>6, <1>7, <1>8 DEF Proceed

LEMMA ProceedKeepsCommands ==
    ASSUME CommandsTyped, Counted, server \in [Refs -> Versions], generation \in Nat,
           NEW c \in Commands, Proceed(c)
    PROVE  /\ CommandsTyped' /\ Counted' /\ server' \in [Refs -> Versions]
           /\ \A r \in Refs : server'[r] >= server[r]
           /\ generation' \in Nat /\ generation' >= generation
           /\ command'[c] # None /\ command'[c].step # "queued"
           /\ command'[c].epoch = command[c].epoch
           /\ \A d \in Commands : d # c => command'[d] = command[d]
<1>1. CASE Serve(c)
  <2>1. generation' \in Nat /\ generation' >= generation
    BY <1>1 DEF Serve
  <2>2. /\ server' \in [Refs -> Versions] /\ CommandsTyped' /\ Counted'
        /\ \A r \in Refs : server'[r] >= server[r]
        /\ command'[c] # None /\ command'[c].step = "served"
        /\ command'[c].epoch = command[c].epoch
        /\ \A d \in Commands : d # c => command'[d] = command[d]
    BY <1>1, ServeEffect
  <2> QED
    BY <2>1, <2>2
<1>2. ASSUME NEW s \in Steps \ {"queued"}, Step(c, s), Counts(c, s), UNCHANGED server
      PROVE  /\ CommandsTyped' /\ Counted' /\ server' \in [Refs -> Versions]
             /\ \A r \in Refs : server'[r] >= server[r]
             /\ generation' \in Nat /\ generation' >= generation
             /\ command'[c] # None /\ command'[c].step # "queued"
             /\ command'[c].epoch = command[c].epoch
             /\ \A d \in Commands : d # c => command'[d] = command[d]
  <2>1. command[c] # None /\ UNCHANGED epoch
    BY ProceedSteps, ProceedFrame
  <2>2. Counted'
    BY <2>1, <1>2, StepKeepsCounts DEF Counts
  <2>3. /\ CommandsTyped' /\ command'[c] # None /\ command'[c].step = s
        /\ command'[c].epoch = command[c].epoch
        /\ \A d \in Commands : d # c => command'[d] = command[d]
    BY <2>1, <1>2, StepSetsStep
  <2>4. generation' \in Nat /\ generation' >= generation
    BY <1>2 DEF Counts
  <2>5. \A r \in Refs : server'[r] >= server[r]
    BY <1>2, CountsAreNaturals DEF Versions
  <2> QED
    BY <2>2, <2>3, <2>4, <2>5, <1>2
<1> QED
  BY <1>1, <1>2, ProceedSteps

LEMMA ExecuteKeepsCommands ==
    ASSUME CommandsTyped, Counted, server \in [Refs -> Versions],
           epoch \in 0..MaxEpochs,
           NEW c \in Commands, Execute(c)
    PROVE  /\ CommandsTyped' /\ Counted'
           /\ command[c] = None /\ command'[c] # None
           /\ command'[c].step = "queued"
           /\ \A d \in Commands : d # c => command'[d] = command[d]
<1> DEFINE f == [step |-> "queued", epoch |-> epoch, version |-> 0]
<1>1. /\ f \in [step : Steps, epoch : 0..MaxEpochs, version : Versions]
      /\ f.step = "queued" /\ f.epoch = epoch /\ f.version = 0
  BY CountsAreNaturals DEF Steps, Versions
<1>2. f # None
  BY <1>1, RecordsAreNotNone, CountsAreNaturals, NoneAssumption, CacheAssumption
     DEF NoneAssumption, CacheAssumption, Steps
<1> HIDE DEF f
<1>3. command[c] = None /\ command' = [command EXCEPT ![c] = f]
      /\ UNCHANGED <<server, generation, epoch>>
  BY DEF Execute, f
<1>4. command'[c] = f /\ (\A d \in Commands : d # c => command'[d] = command[d])
  BY <1>3 DEF CommandsTyped
<1>5. CommandsTyped'
  BY <1>1, <1>3 DEF CommandsTyped
<1>6. Taken' = Taken /\ Known' = Known
  BY <1>1, <1>3, <1>4 DEF Taken, Known, KnownSteps
<1>7. \A r \in Refs : server[r] >= 0
  BY CountsAreNaturals DEF Versions
<1>8. \A d \in Commands : command'[d] # None =>
        /\ command'[d].step \in {"queued", "sent"} => command'[d].version = 0
        /\ command'[d].epoch <= epoch
        /\ command'[d].version <= server[Target(d)]
  BY <1>1, <1>4, <1>7, CacheAssumption DEF Counted, CacheAssumption
<1> QED
  BY <1>1, <1>2, <1>3, <1>4, <1>5, <1>6, <1>8 DEF Counted

\* The commands of a session run one after the other.
LEMMA ProceedKeepsOrder ==
    ASSUME CommandsTyped, Counted, server \in [Refs -> Versions], generation \in Nat,
           writes \in Seq(Commands), OneByOne,
           NEW c \in Commands, Proceed(c)
    PROVE  OneByOne'
<1>1. /\ command[c] # None /\ ~ Ended(c)
      /\ command[c].step = "queued" => Turn(c)
      /\ UNCHANGED writes
  BY ProceedSteps, ProceedFrame
<1>2. /\ command'[c] # None /\ command'[c].epoch = command[c].epoch
      /\ \A d \in Commands : d # c => command'[d] = command[d]
  BY ProceedKeepsCommands
<1>3. \A i \in 1..Len(writes) : writes[i] \in Commands
  OBVIOUS
<1>4. ASSUME NEW i \in 1..Len(writes), NEW j \in 1..Len(writes), i < j,
             command'[writes[i]].epoch = command'[writes[j]].epoch,
             command'[writes[j]].step # "queued"
      PROVE  Ended(writes[i])'
  <2>1. command[writes[i]].epoch = command[writes[j]].epoch
    BY <1>2, <1>3, <1>4
  <2>2. Ended(writes[i])
    <3>1. CASE writes[j] = c /\ command[c].step = "queued"
      BY <3>1, <2>1, <1>1, <1>4 DEF Turn
    <3>2. CASE writes[j] = c /\ command[c].step # "queued"
      BY <3>2, <2>1, <1>4 DEF OneByOne
    <3>3. CASE writes[j] # c
      BY <3>3, <2>1, <1>2, <1>3, <1>4 DEF OneByOne
    <3> QED
      BY <3>1, <3>2, <3>3
  <2>3. writes[i] # c
    BY <2>2, <1>1
  <2> QED
    BY <2>2, <2>3, <1>1, <1>2, <1>3 DEF Ended
<1> QED
  BY <1>1, <1>2, <1>3, <1>4 DEF OneByOne

LEMMA ExecuteKeepsOrder ==
    ASSUME CommandsTyped, Counted, server \in [Refs -> Versions],
           epoch \in 0..MaxEpochs, writes \in Seq(Commands), OneByOne,
           NEW c \in Commands, Execute(c)
    PROVE  OneByOne' /\ writes' \in Seq(Commands)
<1>1. /\ command[c] = None /\ command'[c] # None
      /\ command'[c].step = "queued"
      /\ \A d \in Commands : d # c => command'[d] = command[d]
  BY ExecuteKeepsCommands
<1>2. writes' = Append(writes, c)
  BY DEF Execute
<1>3. /\ writes' \in Seq(Commands) /\ Len(writes') = Len(writes) + 1
      /\ \A i \in 1..Len(writes) : writes'[i] = writes[i]
      /\ writes'[Len(writes) + 1] = c
      /\ Len(writes) \in Nat
  BY <1>2
<1>4. \A i \in 1..Len(writes) : writes[i] \in Commands /\ writes[i] # c
  BY <1>1 DEF OneByOne
<1> DEFINE n == Len(writes)
<1>5. n \in Nat /\ Len(writes') = n + 1 /\ writes'[n + 1] = c
      /\ \A i \in 1..n : writes'[i] = writes[i]
  BY <1>3
<1>6. /\ \A i \in 1..n : command[writes[i]] # None
      /\ \A d \in Commands : command[d] # None => \E i \in 1..n : writes[i] = d
      /\ \A i, j \in 1..n :
            i < j /\ command[writes[i]].epoch = command[writes[j]].epoch
                  /\ command[writes[j]].step # "queued"
            => Ended(writes[i])
  BY DEF OneByOne
<1>7. \A i \in 1..n : writes[i] \in Commands /\ writes[i] # c
  BY <1>4
<1> HIDE DEF n
<1>8. \A i \in 1..(n + 1) : i \in 1..n \/ i = n + 1
  BY <1>5
<1>9. \A i \in 1..(n + 1) : command'[writes'[i]] # None
  BY <1>1, <1>5, <1>6, <1>7, <1>8
<1>10. \A d \in Commands : command'[d] # None => \E i \in 1..(n + 1) : writes'[i] = d
  <2>1. ASSUME NEW d \in Commands, command'[d] # None
        PROVE  \E i \in 1..(n + 1) : writes'[i] = d
    <3>1. CASE d = c
      BY <3>1, <1>5
    <3>2. CASE d # c
      <4>1. PICK i \in 1..n : writes[i] = d
        BY <3>2, <2>1, <1>1, <1>6
      <4> QED
        BY <4>1, <1>5
    <3> QED
      BY <3>1, <3>2
  <2> QED
    BY <2>1
<1>11. ASSUME NEW i \in 1..(n + 1), NEW j \in 1..(n + 1), i < j,
              command'[writes'[i]].epoch = command'[writes'[j]].epoch,
              command'[writes'[j]].step # "queued"
       PROVE  Ended(writes[i])' /\ writes'[i] = writes[i]
  <2>1. j # n + 1
    BY <1>1, <1>5, <1>11
  <2>2. j \in 1..n /\ i \in 1..n
    BY <2>1, <1>5, <1>8, <1>11
  <2>3. Ended(writes[i])
    BY <2>2, <1>1, <1>5, <1>6, <1>7, <1>11
  <2> QED
    BY <2>2, <2>3, <1>1, <1>5, <1>7 DEF Ended
<1>12. \A i \in 1..(n + 1), j \in 1..(n + 1) :
            i < j /\ command'[writes'[i]].epoch = command'[writes'[j]].epoch
                  /\ command'[writes'[j]].step # "queued"
            => command'[writes'[i]].step \in {"done", "failed"}
  BY <1>11 DEF Ended
<1> QED
  BY <1>3, <1>5, <1>9, <1>10, <1>12 DEF OneByOne, Ended

-----------------------------------------------------------------------------
(* What the commands do to the store *)

\* A command begins, ends without being heard, or the server takes it.
Quiet(c) == Run(c) \/ RunCancelled(c) \/ Serve(c)
Sweeping(c) == CommandFails(c) \/ CommandCancelled(c) \/ Finish(c)

LEMMA QuietFrame ==
    ASSUME CommandsTyped, NEW c \in Commands, Quiet(c)
    PROVE  /\ UNCHANGED <<base, own, data, pending, fetch, mounted, generation, epoch>>
           /\ command[c] # None /\ command[c].step \in {"queued", "sent"}
           /\ command'[c].step \in {"sent", "served", "failed"}
           /\ \/ /\ layers' = layers \cup LayerOf(c)
                 /\ command[c].step = "queued" /\ command'[c].step = "sent"
                 /\ command[c].epoch = epoch
              \/ layers' = layers /\ command[c].step = "queued"
              \/ layers' = layers /\ command'[c].step = "served"
<1>1. CASE Run(c)
  BY <1>1, StepSetsStep DEF Run, Waiting, Steps, Current, reading
<1>2. CASE RunCancelled(c)
  BY <1>2, StepSetsStep DEF RunCancelled, Waiting, Steps, store, reading
<1>3. CASE Serve(c)
  <2>1. command'[c] = [command[c] EXCEPT !.step = "served", !.version = server[Target(c)] + 1]
    BY <1>3 DEF Serve, CommandsTyped
  <2>2. command[c] # None /\ command[c].step = "sent"
    BY <1>3 DEF Serve, Waiting
  <2>3. command'[c].step = "served"
    BY <2>1, <2>2, CommandFields
  <2> QED
    BY <1>3, <2>2, <2>3 DEF Serve, store, reading
<1> QED
  BY <1>1, <1>2, <1>3 DEF Quiet

LEMMA SweepingFrame ==
    ASSUME CommandsTyped, NEW c \in Commands, Sweeping(c), LayersLive
    PROVE  /\ UNCHANGED <<own, data, pending, fetch, mounted, generation, epoch, server>>
           /\ command'[c].step \in {"done", "failed"}
           /\ layers' = layers \ {c}
           /\ base' = Swept(data, pending, command', layers')
<1>1. CASE CommandFails(c)
  BY <1>1, StepSetsStep DEF CommandFails, Discard, Waiting, Steps, reading
<1>2. CASE CommandCancelled(c)
  BY <1>2, StepSetsStep DEF CommandCancelled, Discard, Waiting, Steps, reading
<1>3. CASE Finish(c)
  BY <1>3, StepSetsStep DEF Finish, Waiting, Steps, reading, LayersLive, Live
<1> QED
  BY <1>1, <1>2, <1>3 DEF Sweeping

\* Reads that nothing has touched stay as recent as they were.
LEMMA RecentStays ==
    ASSUME ReadsAreRecent, ReadsTyped, server' \in [Refs -> Versions],
           own \in [Refs -> Versions],
           UNCHANGED <<own, fetch, generation>>,
           \A r \in Refs : server'[r] >= server[r],
           \A c \in Commands : Waiting(c, "answered")' =>
              Waiting(c, "answered") /\ command'[c] = command[c]
    PROVE  ReadsAreRecent'
<1>1. \A r \in Refs : own'[r] <= server'[r]
  BY CountsAreNaturals DEF ReadsAreRecent, ReadsTyped, Versions
<1> QED
  BY <1>1 DEF ReadsAreRecent, Waiting

LEMMA QuietKeepsStore ==
    ASSUME CommandInv, StoreInv, NEW c \in Commands, Quiet(c)
    PROVE  StoreInv'
<1>1. /\ UNCHANGED <<base, own, data, pending, fetch, mounted, generation, epoch>>
      /\ command[c] # None /\ command[c].step \in {"queued", "sent"}
      /\ command'[c].step \in {"sent", "served", "failed"}
      /\ \/ /\ layers' = layers \cup LayerOf(c)
            /\ command[c].step = "queued" /\ command'[c].step = "sent"
            /\ command[c].epoch = epoch
         \/ layers' = layers /\ command[c].step = "queued"
         \/ layers' = layers /\ command'[c].step = "served"
  BY QuietFrame DEF CommandInv
<1>2. /\ server' \in [Refs -> Versions]
      /\ \A r \in Refs : server'[r] >= server[r]
      /\ command'[c] # None /\ command'[c].epoch = command[c].epoch
      /\ \A d \in Commands : d # c => command'[d] = command[d]
  BY ProceedKeepsCommands DEF CommandInv, StoreInv, ReadsTyped, Quiet, Proceed
<1>3. ReadsTyped'
  BY <1>1, <1>2 DEF StoreInv, ReadsTyped, FetchesTyped
<1>4. RecordsHold'
  BY <1>1 DEF StoreInv, RecordsHold, BaseTyped, OwnWritesStay
<1>5. ReadsAreRecent'
  <2>1. \A d \in Commands : Waiting(d, "answered")' =>
              Waiting(d, "answered") /\ command'[d] = command[d]
    BY <1>1, <1>2 DEF Waiting
  <2> QED
    BY <2>1, <1>1, <1>2, RecentStays DEF StoreInv
<1>6. RetainedIsThere'
  BY <1>1 DEF StoreInv, RetainedIsThere, Served
<1>7. NoGarbage'
  <2>1. layers \subseteq layers'
    BY <1>1
  <2>2. Roots(data, pending, command, layers) \subseteq Roots(data, pending, command, layers)'
    BY <2>1, <1>1, <1>2 DEF Roots
  <2> QED
    BY <2>2, <1>1 DEF StoreInv, NoGarbage, OnlyNeeded, Marked
<1>8. LayersLive'
  <2>1. layers' \subseteq Optimistic
    BY <1>1 DEF StoreInv, LayersLive, LayerOf
  <2>2. ASSUME NEW d \in layers'
        PROVE  Live(d)' /\ command'[d].epoch = epoch'
    <3>1. d \in Commands
      BY <2>1, CacheAssumption DEF CacheAssumption
    <3>2. CASE d # c
      BY <3>1, <3>2, <2>2, <1>1, <1>2 DEF StoreInv, LayersLive, Live, LayerOf
    <3>3. CASE d = c
      <4>1. c \in layers => command[c].step = "sent" /\ command[c].epoch = epoch
        BY <1>1 DEF StoreInv, LayersLive, Live
      <4> QED
        BY <4>1, <3>3, <2>2, <1>1, <1>2 DEF Live
    <3> QED
      BY <3>2, <3>3
  <2> QED
    BY <2>1, <2>2 DEF LayersLive
<1> QED
  BY <1>1, <1>3, <1>4, <1>5, <1>6, <1>7, <1>8 DEF StoreInv

LEMMA SweepingKeepsStore ==
    ASSUME CommandInv, StoreInv, NEW c \in Commands, Sweeping(c)
    PROVE  StoreInv'
<1>1. /\ UNCHANGED <<own, data, pending, fetch, mounted, generation, epoch, server>>
      /\ command'[c].step \in {"done", "failed"}
      /\ layers' = layers \ {c}
      /\ base' = Swept(data, pending, command', layers')
  BY SweepingFrame DEF CommandInv, StoreInv
<1>2. /\ command'[c] # None
      /\ \A d \in Commands : d # c => command'[d] = command[d]
  BY ProceedKeepsCommands DEF CommandInv, StoreInv, ReadsTyped, Sweeping, Proceed
<1>3. layers' \subseteq Commands
  BY <1>1, CacheAssumption DEF StoreInv, LayersLive, CacheAssumption
<1>4. ReadsTyped' /\ RetainedTyped(data) /\ RetainedTyped(pending)
  BY <1>1 DEF StoreInv, ReadsTyped, FetchesTyped
<1>5. RecordsHold'
  BY <1>1, <1>3, <1>4, SweepKeepsRecords DEF StoreInv
<1>6. ReadsAreRecent'
  <2>1. \A d \in Commands : Waiting(d, "answered")' =>
              Waiting(d, "answered") /\ command'[d] = command[d]
    BY <1>1, <1>2 DEF Waiting
  <2>2. \A r \in Refs : server'[r] >= server[r]
    BY <1>1, CountsAreNaturals DEF StoreInv, ReadsTyped, Versions
  <2>3. server' \in [Refs -> Versions]
    BY <1>1 DEF StoreInv, ReadsTyped
  <2> QED
    BY <2>1, <2>2, <2>3, <1>1, RecentStays DEF StoreInv
<1>7. RetainedIsThere'
  <2>1. ASSUME NEW p \in Reads
        PROVE  /\ data[p] # None => Served(data[p])'
               /\ pending[p] # None => Served(pending[p])'
    BY <1>1, <1>3, <1>4, SweepKeepsRetained DEF StoreInv, RetainedIsThere, Served
  <2> QED
    BY <2>1, <1>1 DEF StoreInv, RetainedIsThere, Served
<1>8. NoGarbage'
  <2>1. \A r \in Refs : base'[r] # None =>
           r \in Marked(base', Roots(data, pending, command', layers'))
    BY <1>1, <1>3, <1>4, SweepKeeps
  <2> QED
    BY <2>1, <1>1 DEF NoGarbage, OnlyNeeded, Marked, Roots
<1>9. LayersLive'
  BY <1>1, <1>2, <1>3 DEF StoreInv, LayersLive, Live
<1> QED
  BY <1>1, <1>4, <1>5, <1>6, <1>7, <1>8, <1>9 DEF StoreInv

\* The answer of a command stops the reads it concerns.
LEMMA ReceiveKeepsStore ==
    ASSUME CommandInv, StoreInv, NEW c \in Commands, Receive(c)
    PROVE  StoreInv'
<1> DEFINE stopped == Fetching(Hit(c))
<1>1. /\ UNCHANGED <<server, layers, own, data, mounted, epoch>>
      /\ generation' = generation + 1
      /\ Stopped(stopped)
      /\ base' = IF stopped = {} THEN base ELSE Swept(data, pending', command', layers')
      /\ command[c] # None /\ command[c].step = "served" /\ command[c].epoch = epoch
      /\ Step(c, "answered")
  BY DEF Receive, Waiting, Current
<1>2. /\ command'[c] # None /\ command'[c].step = "answered"
      /\ command'[c].epoch = command[c].epoch
      /\ \A d \in Commands : d # c => command'[d] = command[d]
  BY <1>1, StepSetsStep DEF CommandInv, Steps
<1>3. stopped \in SUBSET Reads
  BY DEF Fetching, Hit
<1> HIDE DEF stopped
<1>4. generation \in Nat /\ generation' \in Nat /\ generation' > generation
  BY <1>1 DEF StoreInv, ReadsTyped
<1>5. \A p \in Reads :
         /\ fetch'[p] = IF p \in stopped THEN None ELSE fetch[p]
         /\ pending'[p] = IF p \in stopped THEN None ELSE pending[p]
  BY <1>1 DEF Stopped
<1>6. FetchesTyped' /\ RetainedTyped(pending')
  BY <1>1, <1>3, <1>4, StoppedKeepsTypes DEF StoreInv
<1>7. ReadsTyped' /\ RetainedTyped(data) /\ layers' \in SUBSET Commands
  BY <1>1, <1>4, <1>6, CacheAssumption
     DEF StoreInv, ReadsTyped, RetainedTyped, LayersLive, CacheAssumption
<1>8. RecordsHold'
  <2>1. CASE stopped = {}
    BY <2>1, <1>1 DEF StoreInv, RecordsHold, BaseTyped, OwnWritesStay
  <2>2. CASE stopped # {}
    BY <2>2, <1>1, <1>6, <1>7, SweepKeepsRecords DEF StoreInv
  <2> QED
    BY <2>1, <2>2
<1>9. ReadsAreRecent'
  <2>1. \A r \in Refs : own'[r] <= server'[r]
    BY <1>1 DEF StoreInv, ReadsAreRecent
  <2>2. \A p \in Reads : fetch'[p] # None => fetch'[p].generation # generation'
    <3>1. ASSUME NEW p \in Reads, fetch'[p] # None
          PROVE  fetch'[p].generation # generation'
      <4>1. fetch'[p] = fetch[p] /\ fetch[p] # None
        BY <3>1, <1>5
      <4>2. fetch[p].generation <= generation /\ fetch[p].generation \in Nat
        BY <4>1 DEF StoreInv, ReadsTyped, FetchesTyped, FetchOk, Fetches
      <4> QED
        BY <4>1, <4>2, <1>4
    <3> QED
      BY <3>1
  <2> QED
    BY <2>1, <2>2 DEF ReadsAreRecent
<1>10. RetainedIsThere'
  <2>1. CASE stopped = {}
    BY <2>1, <1>1, <1>5 DEF StoreInv, RetainedIsThere, Served
  <2>2. CASE stopped # {}
    <3>1. ASSUME NEW p \in Reads
          PROVE  /\ data[p] # None => Served(data[p])'
                 /\ pending'[p] # None => Served(pending[p])'
      <4>1. /\ data[p] # None => Served(data[p])
            /\ pending'[p] # None => Served(pending'[p])
        BY <1>5 DEF StoreInv, RetainedIsThere
      <4> QED
        BY <4>1, <2>2, <1>1, <1>6, <1>7, SweepKeepsRetained DEF Served
    <3> QED
      BY <3>1, <1>1, <1>5 DEF StoreInv, RetainedIsThere, Served
  <2> QED
    BY <2>1, <2>2
<1>11. NoGarbage'
  <2>1. CASE stopped = {}
    <3>1. \A p \in Reads : fetch'[p] = fetch[p] /\ pending'[p] = pending[p]
      BY <2>1, <1>5
    <3>2. Roots(data, pending, command, layers) = Roots(data, pending, command, layers)'
      BY <3>1, <1>1, <1>2 DEF Roots, Retained
    <3> QED
      BY <2>1, <3>1, <3>2, <1>1 DEF StoreInv, NoGarbage, OnlyNeeded, Marked
  <2>2. CASE stopped # {}
    <3>1. \A r \in Refs : base'[r] # None =>
             r \in Marked(base', Roots(data, pending', command', layers'))
      BY <2>2, <1>1, <1>6, <1>7, SweepKeeps
    <3> QED
      BY <3>1, <1>1 DEF NoGarbage, OnlyNeeded, Marked, Roots
  <2> QED
    BY <2>1, <2>2
<1>12. LayersLive'
  BY <1>1, <1>2, <1>7 DEF StoreInv, LayersLive, Live
<1> QED
  BY <1>1, <1>7, <1>8, <1>9, <1>10, <1>11, <1>12 DEF StoreInv

\* A settled command has the reads it concerns repeated.
LEMMA SettleEffect ==
    ASSUME CommandInv, StoreInv, NEW c \in Commands, Settle(c), NEW p \in Reads
    PROVE  \/ fetch'[p] = fetch[p]
           \/ /\ fetch'[p] # None /\ FetchOk(fetch'[p], generation, epoch)
              /\ fetch'[p].step = "asked" /\ fetch'[p].refs = {}
           \/ /\ fetch[p] # None /\ fetch'[p] # None
              /\ FetchOk(fetch'[p], generation, epoch)
              /\ fetch'[p].step = fetch[p].step /\ fetch'[p].refs = fetch[p].refs
              /\ fetch'[p].versions = fetch[p].versions
              /\ fetch'[p].generation = fetch[p].generation
<1> DEFINE repeated == {q \in Hit(c) \cap mounted : fetch[q] # None => data[q] # None}
<1>1. fetch' = [q \in Reads |->
          IF q \in repeated THEN Asked({c}) ELSE
          IF q \in Fetching(Hit(c) \cap mounted)
          THEN [fetch[q] EXCEPT !.awaitedBy = @ \cup {c}] ELSE fetch[q]]
  BY DEF Settle
<1> HIDE DEF repeated
<1>2. generation \in Nat /\ epoch \in Nat /\ {c} \in SUBSET Commands
  BY DEF StoreInv, ReadsTyped
<1>3. CASE p \in repeated
  BY <1>1, <1>2, <1>3, AskedIsFetch
<1>4. CASE p \notin repeated /\ p \in Fetching(Hit(c) \cap mounted)
  <2> DEFINE f == [fetch[p] EXCEPT !.awaitedBy = @ \cup {c}]
  <2>1. fetch[p] # None /\ FetchOk(fetch[p], generation, epoch)
    BY <1>4 DEF Fetching, StoreInv, ReadsTyped, FetchesTyped
  <2>2. fetch'[p] = f
    BY <1>1, <1>4
  <2>3. /\ FetchOk(f, generation, epoch) /\ f # None /\ f.step = fetch[p].step
        /\ f.refs = fetch[p].refs /\ f.versions = fetch[p].versions
        /\ f.generation = fetch[p].generation
    BY <1>2, <2>1, AwaitedIsFetch
  <2> HIDE DEF f
  <2> QED
    BY <2>1, <2>2, <2>3
<1>5. CASE p \notin repeated /\ p \notin Fetching(Hit(c) \cap mounted)
  BY <1>1, <1>5
<1> QED
  BY <1>3, <1>4, <1>5

LEMMA SettleKeepsStore ==
    ASSUME CommandInv, StoreInv, NEW c \in Commands, Settle(c)
    PROVE  StoreInv'
<1> DEFINE r == Target(c)
           v == [version |-> command[c].version, epoch |-> command[c].epoch]
<1>1. /\ UNCHANGED <<server, data, pending, mounted, generation, epoch>>
      /\ base' = [base EXCEPT ![r] = v]
      /\ own' = [own EXCEPT ![r] = command[c].version]
      /\ layers' = layers \ {c}
      /\ command[c] # None /\ command[c].step = "answered" /\ command[c].epoch = epoch
      /\ Step(c, "invalidating")
  BY DEF Settle, Waiting, Current
<1>2. /\ command'[c] # None /\ command'[c].step = "invalidating"
      /\ command'[c].epoch = epoch
      /\ \A d \in Commands : d # c => command'[d] = command[d]
  BY <1>1, StepSetsStep DEF CommandInv, Steps
<1>3. r \in Refs /\ command[c].version \in Versions
      /\ v \in [version : Versions, epoch : 0..MaxEpochs]
      /\ v.version = command[c].version /\ v.epoch = epoch
  BY <1>1, CommandFields, CacheAssumption DEF CacheAssumption, CommandInv
<1> HIDE DEF v, r
<1>4. v # None
  BY <1>3, RecordsAreNotNone
<1>5. \A p \in Reads :
           \/ fetch'[p] = fetch[p]
           \/ /\ fetch'[p] # None /\ FetchOk(fetch'[p], generation, epoch)
              /\ fetch'[p].step = "asked" /\ fetch'[p].refs = {}
           \/ /\ fetch[p] # None /\ fetch'[p] # None
              /\ FetchOk(fetch'[p], generation, epoch)
              /\ fetch'[p].step = fetch[p].step /\ fetch'[p].refs = fetch[p].refs
              /\ fetch'[p].versions = fetch[p].versions
              /\ fetch'[p].generation = fetch[p].generation
  BY SettleEffect
<1>6. \A x \in Refs : /\ base'[x] = IF x = r THEN v ELSE base[x]
                      /\ own'[x] = IF x = r THEN v.version ELSE own[x]
  BY <1>1, <1>3 DEF StoreInv, RecordsHold, BaseTyped
<1>7. ReadsTyped'
  <2>1. fetch' = [q \in Reads |-> fetch'[q]]
    BY DEF Settle
  <2>2. \A p \in Reads : fetch'[p] # None => FetchOk(fetch'[p], generation, epoch)
    BY <1>5 DEF StoreInv, ReadsTyped, FetchesTyped
  <2>3. fetch' \in [Reads -> {None} \cup Fetches]
    BY <2>1, <2>2 DEF FetchOk
  <2> QED
    BY <2>2, <2>3, <1>1 DEF StoreInv, ReadsTyped, FetchesTyped
<1>8. own' \in [Refs -> Versions]
  BY <1>1, <1>3 DEF StoreInv
<1>9. RecordsHold'
  <2>1. BaseTyped'
    BY <1>1, <1>3 DEF StoreInv, RecordsHold, BaseTyped
  <2>2. \A x \in Refs : base'[x] # None => base'[x].version >= own'[x]
    BY <1>3, <1>6, CountsAreNaturals
       DEF StoreInv, RecordsHold, OwnWritesStay, Versions
  <2>3. \A x \in Refs : base'[x] # None => base'[x].epoch = epoch
    BY <1>3, <1>6 DEF StoreInv, RecordsHold
  <2> QED
    BY <2>1, <2>2, <2>3, <1>1 DEF RecordsHold, OwnWritesStay
<1>10. ReadsAreRecent'
  <2>1. \A x \in Refs : own'[x] <= server'[x]
    BY <1>1, <1>3, <1>6 DEF StoreInv, ReadsAreRecent, CommandInv, Counted, r
  <2>2. ASSUME NEW p \in Reads, fetch'[p] # None, fetch'[p].step = "answered",
               fetch'[p].generation = generation
        PROVE  \A x \in WithNested(fetch'[p].refs) :
                 /\ fetch'[p].versions[x] >= own'[x]
                 /\ \A d \in Commands : Waiting(d, "answered")' /\ Target(d) = x =>
                       fetch'[p].versions[x] >= command'[d].version
    <3>1. /\ fetch[p] # None /\ fetch[p].step = "answered"
          /\ fetch[p].generation = generation
          /\ fetch'[p].refs = fetch[p].refs /\ fetch'[p].versions = fetch[p].versions
      BY <2>2, <1>5
    <3>2. \A x \in WithNested(fetch[p].refs) :
                 /\ fetch[p].versions[x] >= own[x]
                 /\ \A d \in Commands : Waiting(d, "answered") /\ Target(d) = x =>
                       fetch[p].versions[x] >= command[d].version
      BY <3>1 DEF StoreInv, ReadsAreRecent
    <3>3. WithNested(fetch[p].refs) \in SUBSET Refs
      BY <3>1, NestedAreRefs DEF StoreInv, ReadsTyped, FetchesTyped, FetchOk, Fetches
    <3>4. \A x \in WithNested(fetch[p].refs) : fetch[p].versions[x] >= own'[x]
      BY <3>2, <3>3, <1>1, <1>3, <1>6 DEF Waiting, r
    <3>5. \A d \in Commands : Waiting(d, "answered")' =>
             Waiting(d, "answered") /\ command'[d] = command[d]
      BY <1>1, <1>2 DEF Waiting
    <3> QED
      BY <3>1, <3>2, <3>4, <3>5
  <2> QED
    BY <2>1, <2>2, <1>1 DEF ReadsAreRecent
<1>11. RetainedIsThere'
  <2>1. \A x \in Refs : base[x] # None => base'[x] # None
    BY <1>4, <1>6
  <2>2. \A refs \in SUBSET Refs : Served(refs) => Served(refs)'
    BY <2>1, NestedAreRefs DEF Served
  <2>3. ASSUME NEW p \in Reads
        PROVE  /\ data'[p] # None => Served(data[p])'
               /\ pending'[p] # None => fetch'[p] # None /\ Served(pending[p])'
               /\ fetch'[p] # None /\ fetch'[p].step = "normalized" =>
                     pending'[p] = fetch'[p].refs
    <3>1. data[p] # None => data[p] \in SUBSET Refs /\ Served(data[p])
      BY RetainedAreRefs DEF StoreInv, ReadsTyped, RetainedIsThere
    <3>2. pending[p] # None =>
             pending[p] \in SUBSET Refs /\ Served(pending[p]) /\ fetch[p] # None
      BY RetainedAreRefs DEF StoreInv, ReadsTyped, RetainedIsThere
    <3>3. fetch[p] # None /\ fetch[p].step = "normalized" => pending[p] = fetch[p].refs
      BY DEF StoreInv, RetainedIsThere
    <3>4. /\ data[p] # None => Served(data[p])'
          /\ pending[p] # None => Served(pending[p])'
      BY <2>1, <3>1, <3>2, <1>1, NestedAreRefs DEF Served
    <3> QED
      BY <3>2, <3>3, <3>4, <1>1, <1>5
  <2> QED
    BY <2>3 DEF RetainedIsThere
<1>12. NoGarbage'
  <2>1. ASSUME \A p \in Reads : fetch'[p] = None
        PROVE  \A p \in Reads : fetch[p] = None
    BY <2>1, <1>5
  <2>2. Roots(data, pending, command, layers) \subseteq Roots(data, pending, command, layers)'
        /\ r \in Roots(data, pending, command, layers)'
    BY <1>1, <1>2 DEF Roots, r
  <2> DEFINE R == Roots(data, pending, command, layers)
             R2 == Roots(data, pending, command, layers)'
  <2>3. R \subseteq R2 /\ r \in R2 /\ R \subseteq Refs
    BY <2>2, RootsAreRefs, CacheAssumption
       DEF StoreInv, ReadsTyped, LayersLive, CacheAssumption
  <2> HIDE DEF R, R2
  <2>4. \A x \in Refs : base[x] # None => base'[x] # None
    BY <1>4, <1>6
  <2>5. ASSUME \A p \in Reads : fetch'[p] = None, NEW x \in Refs, base'[x] # None
        PROVE  x \in Marked(base', R2)
    <3>1. CASE x = r
      BY <3>1, <2>3 DEF Marked
    <3>2. CASE x # r
      <4>1. x \in Marked(base, R)
        BY <3>2, <2>1, <2>5, <1>6 DEF StoreInv, NoGarbage, OnlyNeeded, R
      <4> QED
        BY <4>1, <2>3, <2>4 DEF Marked
    <3> QED
      BY <3>1, <3>2
  <2> QED
    BY <2>5 DEF NoGarbage, OnlyNeeded, Marked, R2
<1>13. LayersLive'
  BY <1>1, <1>2, CacheAssumption DEF StoreInv, LayersLive, Live, CacheAssumption
<1> QED
  BY <1>1, <1>7, <1>8, <1>9, <1>10, <1>11, <1>12, <1>13 DEF StoreInv

LEMMA ExecuteKeepsStore ==
    ASSUME CommandInv, StoreInv, NEW c \in Commands, Execute(c)
    PROVE  StoreInv'
<1>1. /\ UNCHANGED <<server, base, layers, own, data, pending, fetch, mounted,
                     generation, epoch>>
  BY DEF Execute, store, reading
<1>2. /\ command[c] = None /\ command'[c].step = "queued"
      /\ \A d \in Commands : d # c => command'[d] = command[d]
  BY ExecuteKeepsCommands DEF CommandInv, StoreInv, ReadsTyped
<1>3. ReadsTyped' /\ RecordsHold'
  BY <1>1 DEF StoreInv, ReadsTyped, FetchesTyped, RecordsHold, BaseTyped, OwnWritesStay
<1>4. ReadsAreRecent'
  <2>1. \A d \in Commands : Waiting(d, "answered")' =>
              Waiting(d, "answered") /\ command'[d] = command[d]
    BY <1>2 DEF Waiting
  <2>2. server' \in [Refs -> Versions] /\ \A r \in Refs : server'[r] >= server[r]
    BY <1>1, CountsAreNaturals DEF StoreInv, ReadsTyped, Versions
  <2> QED
    BY <2>1, <2>2, <1>1, RecentStays DEF StoreInv
<1>5. RetainedIsThere'
  BY <1>1 DEF StoreInv, RetainedIsThere, Served
<1>6. NoGarbage'
  <2>1. Roots(data, pending, command, layers) \subseteq Roots(data, pending, command, layers)'
    BY <1>1, <1>2 DEF Roots
  <2> QED
    BY <2>1, <1>1 DEF StoreInv, NoGarbage, OnlyNeeded, Marked
<1>7. LayersLive'
  <2>1. \A d \in layers : d \in Commands /\ d # c
    BY <1>2, CacheAssumption DEF StoreInv, LayersLive, Live, CacheAssumption
  <2> QED
    BY <2>1, <1>1, <1>2 DEF StoreInv, LayersLive, Live
<1> QED
  BY <1>1, <1>3, <1>4, <1>5, <1>6, <1>7 DEF StoreInv

LEMMA ProceedKeepsStore ==
    ASSUME CommandInv, StoreInv, NEW c \in Commands, Proceed(c)
    PROVE  StoreInv'
BY QuietKeepsStore, SweepingKeepsStore, ReceiveKeepsStore, SettleKeepsStore
   DEF Proceed, Quiet, Sweeping

LEMMA ReadKeepsStore ==
    ASSUME CommandInv, StoreInv, NEW q \in Reads, Read(q)
    PROVE  StoreInv' /\ CommandInv'
<1>1. UNCHANGED <<server, layers, own, command, writes, generation, epoch>>
  BY ReadFrame
<1>2. layers \subseteq Commands
  BY CacheAssumption DEF StoreInv, LayersLive, CacheAssumption
<1>3. ReadsTyped' /\ RecordsHold' /\ ReadsAreRecent' /\ RetainedIsThere' /\ NoGarbage'
  BY <1>2, ReadKeepsTypes, ReadKeepsRecords, ReadKeepsRecent, ReadKeepsRetained,
     ReadKeepsNeeded DEF StoreInv, CommandInv, RecordsHold
<1>4. LayersLive'
  BY <1>1 DEF StoreInv, LayersLive, Live
<1>5. StoreInv'
  BY <1>1, <1>3, <1>4 DEF StoreInv
<1>6. CommandInv'
  BY <1>1 DEF CommandInv, CommandsTyped, Counted, Taken, Known, OneByOne, Ended
<1> QED
  BY <1>5, <1>6

\* A new session begins with an empty store.
LEMMA ClearAllKeeps ==
    ASSUME CommandInv, StoreInv, ClearAll
    PROVE  StoreInv' /\ CommandInv'
<1>1. /\ epoch' = epoch + 1 /\ epoch < MaxEpochs
      /\ base' = [r \in Refs |-> None] /\ layers' = {}
      /\ data' = NotFetched /\ pending' = NotFetched /\ fetch' = NotFetched
      /\ mounted' = {} /\ own' = [r \in Refs |-> 0]
      /\ UNCHANGED <<server, command, writes, generation>>
  BY DEF ClearAll, writing
<1>2. epoch \in Nat /\ epoch' \in Nat /\ epoch' \in 0..MaxEpochs
  BY <1>1, CacheAssumption DEF StoreInv, CacheAssumption
<1>3. \A p \in Reads : data'[p] = None /\ pending'[p] = None /\ fetch'[p] = None
  BY <1>1 DEF NotFetched
<1>4. ReadsTyped'
  BY <1>1, <1>2, <1>3 DEF StoreInv, ReadsTyped, FetchesTyped, RetainedTyped, NotFetched
<1>5. own' \in [Refs -> Versions] /\ \A r \in Refs : own'[r] = 0
  BY <1>1, CountsAreNaturals DEF Versions
<1>6. RecordsHold'
  BY <1>1 DEF RecordsHold, BaseTyped, OwnWritesStay
<1>7. ReadsAreRecent'
  BY <1>1, <1>3, <1>5, CountsAreNaturals DEF ReadsAreRecent, StoreInv, ReadsTyped, Versions
<1>8. RetainedIsThere' /\ NoGarbage' /\ LayersLive'
  BY <1>1, <1>3 DEF RetainedIsThere, NoGarbage, OnlyNeeded, LayersLive
<1>9. \A c \in Commands : command[c] # None => command[c].epoch <= epoch'
  <2>1. \A c \in Commands : command[c] # None =>
           command[c].epoch \in Nat /\ command[c].epoch <= epoch
    BY CommandFields DEF CommandInv, Counted
  <2> QED
    BY <2>1, <1>1, <1>2
<1>10. CommandInv'
  BY <1>1, <1>9 DEF CommandInv, CommandsTyped, Counted, Taken, Known, OneByOne, Ended
<1> QED
  BY <1>2, <1>4, <1>5, <1>6, <1>7, <1>8, <1>10 DEF StoreInv

-----------------------------------------------------------------------------
(* The invariant *)

LEMMA InitHolds == ASSUME Init PROVE IInv
<1>1. \A p \in Reads : data[p] = None /\ pending[p] = None /\ fetch[p] = None
  BY DEF Init, NotFetched
<1>2. ReadsTyped
  BY <1>1, CountsAreNaturals
     DEF Init, ReadsTyped, FetchesTyped, RetainedTyped, NotFetched, Versions
<1>3. epoch \in 0..MaxEpochs
  BY CacheAssumption DEF Init, CacheAssumption
<1>4. RecordsHold
  BY DEF Init, RecordsHold, BaseTyped, OwnWritesStay
<1>5. ReadsAreRecent
  BY <1>1 DEF Init, ReadsAreRecent
<1>6. RetainedIsThere /\ NoGarbage /\ LayersLive
  BY <1>1 DEF Init, RetainedIsThere, NoGarbage, OnlyNeeded, LayersLive
<1>7. own \in [Refs -> Versions]
  BY CountsAreNaturals DEF Init, Versions
<1>8. StoreInv
  BY <1>2, <1>3, <1>4, <1>5, <1>6, <1>7 DEF StoreInv
<1>9. Taken \in SUBSET Commands /\ Known \in SUBSET Commands
  BY DEF Taken, Known
<1>10. Cardinality(Taken) >= 0 /\ Cardinality(Known) >= 0
  BY <1>9, CountsGrow
<1>11. Counted
  BY <1>10 DEF Init, Counted
<1>12. CommandsTyped /\ writes \in Seq(Commands) /\ OneByOne
  BY DEF Init, CommandsTyped, OneByOne
<1> QED
  BY <1>8, <1>11, <1>12 DEF IInv, CommandInv

LEMMA NextKeeps == ASSUME IInv, [Next]_vars PROVE IInv'
<1>1. CASE UNCHANGED vars
  <2>1. CommandInv'
    BY <1>1 DEF vars, writing, IInv, CommandInv, CommandsTyped, Counted, Taken,
                Known, OneByOne, Ended
  <2>2. StoreInv'
    BY <1>1 DEF vars, store, reading, writing, IInv, StoreInv, ReadsTyped,
                FetchesTyped, RecordsHold, BaseTyped, OwnWritesStay, ReadsAreRecent,
                Waiting, RetainedIsThere, Served, NoGarbage, OnlyNeeded, Marked,
                Roots, LayersLive, Live
  <2> QED
    BY <2>1, <2>2 DEF IInv
<1>2. ASSUME NEW q \in Reads, Read(q)
      PROVE  IInv'
  BY <1>2, ReadKeepsStore DEF IInv
<1>3. ASSUME NEW c \in Commands, Execute(c)
      PROVE  IInv'
  <2>1. StoreInv'
    BY <1>3, ExecuteKeepsStore DEF IInv
  <2>2. CommandInv'
    BY <1>3, ExecuteKeepsCommands, ExecuteKeepsOrder
       DEF IInv, CommandInv, StoreInv, ReadsTyped
  <2> QED
    BY <2>1, <2>2 DEF IInv
<1>4. ASSUME NEW c \in Commands, Proceed(c)
      PROVE  IInv'
  <2>1. StoreInv'
    BY <1>4, ProceedKeepsStore DEF IInv
  <2>2. CommandsTyped' /\ Counted'
    BY <1>4, ProceedKeepsCommands DEF IInv, CommandInv, StoreInv, ReadsTyped
  <2>3. OneByOne' /\ UNCHANGED writes
    BY <1>4, ProceedKeepsOrder, ProceedFrame
       DEF IInv, CommandInv, StoreInv, ReadsTyped
  <2> QED
    BY <2>1, <2>2, <2>3 DEF IInv, CommandInv
<1>5. CASE ClearAll
  BY <1>5, ClearAllKeeps DEF IInv
<1> QED
  BY <1>1, <1>2, <1>3, <1>4, <1>5 DEF Next

\* The inductive invariant holds in every reachable state.
THEOREM CacheInvariant == Spec => []IInv
<1>1. Init => IInv
  BY InitHolds
<1>2. IInv /\ [Next]_vars => IInv'
  BY NextKeeps
<1> QED
  BY <1>1, <1>2, PTL DEF Spec

-----------------------------------------------------------------------------
(* What follows *)

\* No read puts a record back to what it was before an own command
\* (entityStore.ts, cacheRuntime.ts: the generation a read is compared with).
THEOREM OwnAnswersStay == Spec => []OwnWritesStay
<1>1. IInv => OwnWritesStay
  BY DEF IInv, StoreInv, RecordsHold
<1> QED
  BY <1>1, CacheInvariant, PTL

\* When nothing is under way, what is needed is what results lead to.
LEMMA IdleNeedsResults ==
    ASSUME IInv, \A q \in Reads : fetch[q] = None,
           \A c \in Commands : command[c] # None => Ended(c),
           NEW r \in Refs, base[r] # None
    PROVE  r \in WithNested(Retained(data))
<1>1. r \in Marked(base, Roots(data, pending, command, layers))
  BY DEF IInv, StoreInv, NoGarbage, OnlyNeeded
<1>2. Retained(pending) = {}
  BY DEF IInv, StoreInv, RetainedIsThere, Retained
<1>3. layers = {}
  BY CacheAssumption DEF IInv, StoreInv, LayersLive, Live, Ended, CacheAssumption
<1>4. \A c \in Commands : command[c] # None => command[c].step # "invalidating"
  BY DEF Ended
<1>5. Roots(data, pending, command, layers) = Retained(data)
  BY <1>2, <1>3, <1>4 DEF Roots
<1> QED
  BY <1>1, <1>5 DEF Marked, WithNested

\* Sweeping keeps every record that a cached result leads to and, once nothing is
\* under way, no other (entityStore.ts, sweep).
THEOREM SweepKeepsEnough == Spec => []StoreServesReads
<1>1. IInv => StoreServesReads
  <2> SUFFICES ASSUME IInv PROVE StoreServesReads
    OBVIOUS
  <2>1. \A q \in Reads : data[q] # None =>
           \A r \in WithNested(data[q]) : base[r] # None
    BY DEF IInv, StoreInv, RetainedIsThere, Served
  <2>2. ASSUME \A q \in Reads : fetch[q] = None,
               \A c \in Commands : command[c] # None => Ended(c)
        PROVE  \A r \in Refs : base[r] # None => r \in WithNested(Retained(data))
    BY <2>2, IdleNeedsResults
  <2> QED
    BY <2>1, <2>2 DEF StoreServesReads
<1> QED
  BY <1>1, CacheInvariant, PTL

\* Of two commands of a session that are on their way, one would have waited.
LEMMA OneLayer == ASSUME IInv PROVE Cardinality(layers) <= 1
<1>1. layers \subseteq Commands /\ \A c \in layers : Live(c) /\ command[c].epoch = epoch
  BY CacheAssumption DEF IInv, StoreInv, LayersLive, CacheAssumption
<1>2. ASSUME NEW c \in layers, NEW d \in layers
      PROVE  c = d
  <2>1. PICK i \in 1..Len(writes) : writes[i] = c
    BY <1>1, <1>2 DEF IInv, CommandInv, OneByOne, Live
  <2>2. PICK j \in 1..Len(writes) : writes[j] = d
    BY <1>1, <1>2 DEF IInv, CommandInv, OneByOne, Live
  <2>3. ~ Ended(c) /\ ~ Ended(d) /\ command[c].step # "queued" /\ command[d].step # "queued"
        /\ command[c].epoch = command[d].epoch
    BY <1>1 DEF Live, Ended
  <2>4. ~ (i < j)
    BY <2>1, <2>2, <2>3 DEF IInv, CommandInv, OneByOne
  <2>5. ~ (j < i)
    BY <2>1, <2>2, <2>3 DEF IInv, CommandInv, OneByOne
  <2>6. i \in Int /\ j \in Int
    OBVIOUS
  <2>7. i = j
    BY <2>4, <2>5, <2>6
  <2> QED
    BY <2>1, <2>2, <2>7
<1>3. CASE layers = {}
  BY <1>3, FS_EmptySet
<1>4. CASE layers # {}
  <2>1. PICK c \in layers : TRUE
    BY <1>4
  <2>2. layers = {c}
    BY <1>2, <2>1
  <2> QED
    BY <2>2, FS_Singleton
<1> QED
  BY <1>3, <1>4

LEMMA TypesHold == ASSUME IInv PROVE TypeOK
<1>1. /\ ReadsTyped /\ RecordsHold /\ LayersLive /\ CommandsTyped /\ Counted
      /\ own \in [Refs -> Versions] /\ writes \in Seq(Commands)
  BY DEF IInv, StoreInv, CommandInv
<1>2. ASSUME NEW q \in Reads, fetch[q] # None
      PROVE  /\ fetch[q].step \in {"asked", "answered", "normalized"}
             /\ fetch[q].generation \in 0..generation
             /\ fetch[q].epoch \in 0..epoch
             /\ DOMAIN fetch[q].versions = WithNested(fetch[q].refs)
             /\ fetch[q].awaitedBy \subseteq Commands
  <2>1. FetchOk(fetch[q], generation, epoch)
    BY <1>1, <1>2 DEF ReadsTyped, FetchesTyped
  <2>2. generation \in Nat /\ epoch \in Nat
    BY <1>1 DEF ReadsTyped
  <2>3. fetch[q].generation \in Nat /\ fetch[q].epoch \in Nat
        /\ fetch[q].step \in {"asked", "answered", "normalized"}
        /\ fetch[q].awaitedBy \subseteq Commands
    BY <2>1 DEF FetchOk, Fetches
  <2>4. DOMAIN fetch[q].versions = WithNested(fetch[q].refs)
    BY <2>1 DEF FetchOk
  <2> QED
    BY <2>1, <2>2, <2>3, <2>4 DEF FetchOk
<1>3. generation \in 0..Cardinality(Commands)
  <2>1. Known \in SUBSET Commands
    BY DEF Known
  <2>2. Cardinality(Known) <= Cardinality(Commands) /\ Cardinality(Known) \in Nat
    BY <2>1, CountsGrow
  <2>3. generation <= Cardinality(Known) /\ generation \in Nat
    BY <1>1 DEF Counted, ReadsTyped
  <2> HIDE DEF Known
  <2> QED
    BY <2>2, <2>3, CountsAreNaturals
<1> QED
  BY <1>1, <1>2, <1>3
     DEF TypeOK, ReadsTyped, RetainedTyped, RecordsHold, BaseTyped, LayersLive,
         CommandsTyped

\* Nothing of an earlier session shows in a later one (invalidator.clearAll, and
\* the epoch that commands and reads are compared with).
THEOREM SessionsStayApart == Spec => []SessionsApart
<1>1. IInv => SessionsApart
  <2> SUFFICES ASSUME IInv PROVE SessionsApart
    OBVIOUS
  <2>1. \A r \in Refs : base[r] # None => base[r].epoch = epoch
    BY DEF IInv, StoreInv, RecordsHold
  <2>2. \A c \in layers : command[c].epoch = epoch
           /\ command[c].step \in {"sent", "served", "answered"}
    BY DEF IInv, StoreInv, LayersLive, Live
  <2> QED
    BY <2>1, <2>2, OneLayer, TypesHold DEF SessionsApart, EpochIsolation
<1> QED
  BY <1>1, CacheInvariant, PTL

=============================================================================
