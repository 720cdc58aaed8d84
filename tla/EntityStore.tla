------------------------------- MODULE EntityStore -------------------------------
(***************************************************************************)
(* The store of entities under the browser's caches.  Payloads are taken    *)
(* apart into records that refer to each other; optimistic layers lie over  *)
(* the confirmed records; what results is published at the end of the       *)
(* outermost transaction.  A view of an entity is put together once, with    *)
(* the views of the entities in it, and handed out until anything it shows   *)
(* changes, which its subscribers are told.                                 *)
(*                                                                         *)
(* An object is known by its entity and the version of the store it was put *)
(* together at: between two versions no entity gets a second one.           *)
(***************************************************************************)
EXTENDS Integers, Sequences, FiniteSets, SequencesExt

CONSTANTS
    Refs,
    RefsOf(_),      \* the entities in the value of a field
    Payloads,       \* what is normalized: entities with fields, innermost first, and
                    \* whether all of it is plain data
    Patches,        \* what a layer may be given: sequences of patches
    Layers, Owners, \* handles of layers and of retained reads
    RootSets,       \* what a read may retain
    Vanishing,      \* entities that are taken away
    Watched,        \* entities that somebody may subscribe to
    Tombstone,      \* the entry of a layer that deletes (null in the code)
    MaxVersion,     \* bound: versions of the store
    MaxDepth        \* bound: transactions in each other

ASSUME StoreAssumption == MaxVersion \in Nat /\ MaxDepth \in Nat

VARIABLES
    base,       \* the confirmed records
    layers,     \* the layers, [id, entries], the oldest first
    roots,      \* what is retained, by owner
    records,    \* the records that are published
    versions,   \* versions[r]: how often the view of r has changed
    memo,       \* memo[r]: the object handed out for r
    version,    \* of the store
    previous,   \* previous[r]: the object a subscriber of r saw last
    depth, dirty

published == <<records, versions, memo, version, previous>>
storeVars == <<base, layers, roots, published, depth, dirty>>

NoObject == 0
Only(f, S) == [x \in DOMAIN f \cap S |-> f[x]]
Over(new, old) ==
    [x \in DOMAIN new \cup DOMAIN old |-> IF x \in DOMAIN new THEN new[x] ELSE old[x]]

\* references, recordReferences
Links(record) == UNION {RefsOf(record[f]) : f \in DOMAIN record}
LinksIn(all, r) == IF r \in DOMAIN all THEN Links(all[r]) ELSE {}

\* What edges lead to from S, within U: the least set that leads to nothing else.
Closed(C, edges) == \A e \in edges : e[1] \in C => e[2] \in C
Closure(U, S, edges) ==
    LET closed == {C \in SUBSET U : S \subseteq C /\ Closed(C, edges)} IN
    {r \in U : \A C \in closed : r \in C}

-----------------------------------------------------------------------------
(* Putting views together                                                   *)

\* get: what a read of the entities in S puts together anew.  An object is remembered
\* before it is filled, so entities may lead back to themselves.
HasObject(all, vs, objects, r) ==
    r \in DOMAIN objects /\ r \in DOMAIN all /\ objects[r].version = vs[r]
Anew(all, vs, objects, S) ==
    LET lacking == {r \in DOMAIN all : ~ HasObject(all, vs, objects, r)} IN
    Closure(lacking, S \cap lacking, {e \in lacking \X lacking : e[2] \in LinksIn(all, e[1])})
Seen(all, vs, objects, now, S) ==
    LET new == Anew(all, vs, objects, S)
        Object(c) == IF c \in new THEN now ELSE objects[c].built IN
    [r \in DOMAIN objects \cup new |->
        IF r \in new
        THEN [version |-> vs[r], built |-> now, fields |-> all[r],
              holds |-> [c \in Links(all[r]) \cap DOMAIN all |-> Object(c)]]
        ELSE objects[r]]
ObjectOf(all, objects, r) == IF r \in DOMAIN all THEN objects[r].built ELSE NoObject

-----------------------------------------------------------------------------
(* Publishing                                                               *)

\* The layers over the confirmed records.
Laid(all, layer) ==
    LET entries == layer.entries
        there == {r \in DOMAIN all \cup DOMAIN entries :
                     r \in DOMAIN entries => entries[r] # Tombstone} IN
    [r \in there |->
        IF r \notin DOMAIN entries THEN all[r]
        ELSE IF r \in DOMAIN all THEN Over(entries[r], all[r]) ELSE entries[r]]
Overlay(confirmed, over) == FoldLeft(Laid, confirmed, over)

\* What is not as it was, and everything that shows it, as it was or as it is.  Mutant: the
\* views around it are left.
Differing(next) ==
    {r \in DOMAIN records \cup DOMAIN next :
        ~ (r \in DOMAIN records /\ r \in DOMAIN next /\ records[r] = next[r])}
ChangedAlone(next) == Differing(next)
Changed(next) ==
    LET known == DOMAIN records \cup DOMAIN next IN
    Closure(known, Differing(next),
            {e \in known \X known : e[1] \in LinksIn(records, e[2]) \cup LinksIn(next, e[2])})

VersionOf(r) == IF r \in DOMAIN versions THEN versions[r] ELSE 0

\* publish, and the subscribers that setState calls.
Publish(next) ==
    LET changed == Changed(next)
        vs == [r \in (DOMAIN versions \ changed) \cup (changed \cap DOMAIN next) |->
                  IF r \in changed THEN VersionOf(r) + 1 ELSE versions[r]]
        rest == Only(memo, DOMAIN memo \ changed)
        objects == Seen(next, vs, rest, version + 1, DOMAIN previous) IN
    /\ records' = next
    /\ IF changed = {} THEN UNCHANGED <<versions, memo, version, previous>>
       ELSE /\ versions' = vs
            /\ version' = version + 1
            /\ memo' = objects
            /\ previous' = [r \in DOMAIN previous |-> ObjectOf(next, objects, r)]

\* changed(), and the end of a transaction.
Change(level, confirmed, over) ==
    /\ base' = confirmed
    /\ layers' = over
    /\ IF level = 0 THEN Publish(Overlay(confirmed, over)) /\ dirty' = FALSE
       ELSE dirty' = TRUE /\ UNCHANGED published

-----------------------------------------------------------------------------
(* The operations                                                           *)

StoreInit ==
    /\ base = <<>>
    /\ layers = <<>>
    /\ roots = <<>>
    /\ records = <<>>
    /\ versions = <<>>
    /\ memo = <<>>
    /\ version = 0
    /\ previous = <<>>
    /\ depth = 0
    /\ dirty = FALSE

\* encode: the fields are merged over what the destination has of the entity.
Put(destination, part) ==
    LET old == IF part.ref \in DOMAIN destination THEN destination[part.ref] ELSE Tombstone IN
    Over([r \in {part.ref} |-> IF old = Tombstone THEN part.fields ELSE Over(part.fields, old)],
         destination)
Encoded(parts, destination) == FoldLeft(Put, destination, parts)

\* normalize and upsert.  What is not plain data throws when the staged copy holds the
\* entities before it, and the copy is dropped.
Normalize(payload) ==
    /\ payload.valid
    /\ Change(depth, Encoded(payload.parts, base), layers)
    /\ UNCHANGED <<roots, depth>>

RemoveEntity(r) ==
    /\ Change(depth, Only(base, DOMAIN base \ {r}), layers)
    /\ UNCHANGED <<roots, depth>>

Active(l) == \E i \in DOMAIN layers : layers[i].id = l
Begin(l) ==
    /\ ~ Active(l)
    /\ layers' = Append(layers, [id |-> l, entries |-> <<>>])
    /\ UNCHANGED <<base, roots, published, depth, dirty>>

\* applyPatch; apply works on a copy of the entries as well.
Patched(entries, patch) ==
    IF patch.kind = "remove" THEN Over([r \in {patch.ref} |-> Tombstone], entries)
    ELSE Encoded(patch.parts, entries)
Apply(l, patches) ==
    /\ Active(l)
    /\ \A i \in DOMAIN patches : patches[i].valid
    /\ Change(depth, base, [i \in DOMAIN layers |->
          IF layers[i].id = l
          THEN [layers[i] EXCEPT !.entries = FoldLeft(Patched, @, patches)] ELSE layers[i]])
    /\ UNCHANGED <<roots, depth>>

Discard(l) ==
    /\ Active(l)
    /\ Change(depth, base, SelectSeq(layers, LAMBDA layer : layer.id # l))
    /\ UNCHANGED <<roots, depth>>

Retain(o, refs) ==
    /\ o \notin DOMAIN roots
    /\ roots' = Over([x \in {o} |-> refs], roots)
    /\ UNCHANGED <<base, layers, published, depth, dirty>>

Release(o) ==
    /\ o \in DOMAIN roots
    /\ roots' = Only(roots, DOMAIN roots \ {o})
    /\ UNCHANGED <<base, layers, published, depth, dirty>>

\* sweep: what is retained or in a layer, and what the records and layers lead to from there.
\* Mutant: where there is a layer, the record under it leads nowhere.
LedToTop(over, r) ==
    LET laid == {i \in DOMAIN over :
                    r \in DOMAIN over[i].entries /\ over[i].entries[r] # Tombstone} IN
    IF laid = {} THEN LinksIn(base, r) ELSE UNION {Links(over[i].entries[r]) : i \in laid}
LedTo(over, r) ==
    LinksIn(base, r) \cup UNION {
        LET entries == over[i].entries IN
        IF r \in DOMAIN entries /\ entries[r] # Tombstone THEN Links(entries[r]) ELSE {}
            : i \in DOMAIN over}
Marked ==
    Closure(Refs, UNION {roots[o] : o \in DOMAIN roots}
                      \cup UNION {DOMAIN layers[i].entries : i \in DOMAIN layers},
            {e \in Refs \X Refs : e[2] \in LedTo(layers, e[1])})
Sweep ==
    /\ Change(depth, Only(base, Marked), layers)
    /\ UNCHANGED <<roots, depth>>

ClearStore ==
    /\ roots' = <<>>
    /\ Change(depth, <<>>, <<>>)
    /\ UNCHANGED depth

BeginTransaction ==
    /\ depth < MaxDepth
    /\ depth' = depth + 1
    /\ UNCHANGED <<base, layers, roots, published, dirty>>

EndTransaction ==
    /\ depth > 0
    /\ depth' = depth - 1
    /\ IF dirty THEN Change(depth - 1, base, layers)
       ELSE UNCHANGED <<base, layers, published, dirty>>
    /\ UNCHANGED roots

Get(r) ==
    /\ memo' = Seen(records, versions, memo, version, {r})
    /\ UNCHANGED <<base, layers, roots, records, versions, version, previous, depth, dirty>>

Subscribe(r) ==
    /\ r \notin DOMAIN previous
    /\ memo' = Seen(records, versions, memo, version, {r})
    /\ previous' = Over([x \in {r} |-> ObjectOf(records, memo', r)], previous)
    /\ UNCHANGED <<base, layers, roots, records, versions, version, depth, dirty>>

Unsubscribe(r) ==
    /\ r \in DOMAIN previous
    /\ previous' = Only(previous, DOMAIN previous \ {r})
    /\ UNCHANGED <<base, layers, roots, records, versions, memo, version, depth, dirty>>

StoreNext ==
    \/ /\ version < MaxVersion
       /\ \/ \E payload \in Payloads : Normalize(payload)
          \/ \E r \in Vanishing : RemoveEntity(r)
          \/ \E l \in Layers : Discard(l) \/ \E patches \in Patches : Apply(l, patches)
          \/ Sweep \/ ClearStore \/ EndTransaction
    \/ \E l \in Layers : Begin(l)
    \/ \E o \in Owners : Release(o) \/ \E refs \in RootSets : Retain(o, refs)
    \/ BeginTransaction
    \/ \E r \in Refs : Get(r)
    \/ \E r \in Watched : Subscribe(r) \/ Unsubscribe(r)

StoreSpec == StoreInit /\ [][StoreNext]_storeVars

-----------------------------------------------------------------------------
\* What is handed out is up to date, all the way down: an object has the fields of the
\* record that is published, and for each entity in it, it holds the very object that is
\* handed out for that one (entityStore.ts:34-66, 381-436).
UpToDate(all, vs, objects) ==
    \A r \in DOMAIN objects :
        /\ r \in DOMAIN all
        /\ objects[r].fields = all[r] /\ objects[r].version = vs[r]
        /\ DOMAIN objects[r].holds = LinksIn(all, r) \cap DOMAIN all
        /\ \A c \in DOMAIN objects[r].holds :
              c \in DOMAIN objects /\ objects[r].holds[c] = objects[c].built
ViewsAreCurrent == UpToDate(records, versions, memo)

\* A subscriber has seen what a read would give it.
SubscribersAreCurrent ==
    \A r \in DOMAIN previous :
        /\ r \in DOMAIN records => r \in DOMAIN memo
        /\ previous[r] = ObjectOf(records, memo, r)

\* What somebody who reads r sees: the records it leads to.
ViewOf(all, r) ==
    LET there == DOMAIN all IN
    Only(all, Closure(there, {r} \cap there, {e \in there \X there : e[2] \in LinksIn(all, e[1])}))

\* A subscriber is called when anything it sees has changed, and only then
\* (entityStore.ts:122-133).
Told == \A r \in DOMAIN previous \cap DOMAIN previous' :
            previous'[r] # previous[r] <=> ViewOf(records, r)' # ViewOf(records, r)

\* The views that are handed out are true, and who watches one is told when to look.
StoreHolds ==
    /\ [](ViewsAreCurrent /\ SubscribersAreCurrent)
    /\ [][Told]_storeVars

\* Sweeping takes nothing from what somebody retains, whichever of the layers end before
\* the next sweep (entityStore.ts:193-233).
OfLayers(S) == SelectSeq(layers, LAMBDA layer : layer.id \in S)
Harmless ==
    \A o \in DOMAIN roots : \A r \in roots[o] : \A S \in SUBSET Layers :
        ViewOf(Overlay(base', OfLayers(S)), r) = ViewOf(Overlay(base, OfLayers(S)), r)
SweepsAreHarmless == [][base' # base /\ Sweep => Harmless]_storeVars
=============================================================================
