------------------------------ MODULE ChangeOutbox ------------------------------
(***************************************************************************)
(* How the caches in front of the workspace hear of its changes: use cases *)
(* queue a row in their transaction and kick CacheInvalidationJob, whose   *)
(* thread drains the queue through DispatchChanges to the gateway's cache  *)
(* and to the cache of resource owners, which AuthorizeRequest refills     *)
(* from the store meanwhile.  The job is started and stopped with the      *)
(* server; what is queued survives it.                                     *)
(***************************************************************************)
EXTENDS Naturals, FiniteSets

CONSTANTS
    Resources,  \* schemas and analyses
    Writers,    \* threads that run a writing use case
    Readers,    \* threads that run AuthorizeRequest
    Batch,      \* BATCH_SIZE
    MaxId,      \* bound: values drawn from the sequence of changes.id
    MaxFaults,  \* bound: stops, crashes, failed purges and transactions
    None

ASSUME OutboxAssumption == Batch \in Nat \ {0} /\ MaxId \in Nat /\ MaxFaults \in Nat

VARIABLES
    state,    \* state[r]: "unborn", "live" or "deleted" in the store
    changes,  \* committed rows of the outbox
    nextId,   \* the sequence behind changes.id, never rolled back
    writer,   \* writer[w]: the row its transaction inserts and its step
    server,   \* "up", "stopping" (lifespan shutdown) or "down"
    wake,     \* the event _wake
    job,      \* the job's thread: its step, the rows claimed, a tool failed
    owners,   \* resources whose owner is in the identity cache
    reader,   \* reader[g]: the resource a check is about and its step
    heard,    \* history: the changes each cache was told after their commit
    kicked,   \* history: changes kicked since the last start or failed dispatch
    faults    \* how many faults there have been

vars == <<state, changes, nextId, writer, server, wake, job, owners, reader,
          heard, kicked, faults>>

Rows == [id : 1..MaxId, resource : Resources, deleted : BOOLEAN]
Caches == {"gateway", "acl"}

NoWrite == [step |-> "none", row |-> None]
NoRead == [step |-> "none", resource |-> None]
Job(step) == [step |-> step, claimed |-> {}, failed |-> FALSE]

JobAt(step) == job.step = step
Go(step) == job' = [job EXCEPT !.step = step]

Fault == faults < MaxFaults /\ faults' = faults + 1

-----------------------------------------------------------------------------
(* A use case that writes: its transaction, then notify *)

Locked(r) == \E w \in Writers : writer[w].step = "open" /\ writer[w].row.resource = r

\* record_change draws the identifier; the row is seen only after COMMIT, so
\* rows may appear in another order than their identifiers.
Insert(w, r, deleted) ==
    /\ server = "up"
    /\ writer[w] = NoWrite
    /\ ~ Locked(r)
    /\ state[r] = "live" \/ (state[r] = "unborn" /\ ~ deleted)
    /\ nextId <= MaxId
    /\ nextId' = nextId + 1
    /\ writer' = [writer EXCEPT ![w] = [step |-> "open",
          row |-> [id |-> nextId, resource |-> r, deleted |-> deleted]]]
    /\ UNCHANGED <<state, changes, server, wake, job, owners, reader, heard,
                   kicked, faults>>

\* Not every commit is followed by a kick: the claim of an analysis is not, nor
\* one whose answer the handler never got.
Commit(w) ==
    LET row == writer[w].row IN
    /\ writer[w].step = "open"
    /\ state' = [state EXCEPT ![row.resource] =
          IF row.deleted THEN "deleted" ELSE "live"]
    /\ changes' = changes \cup {row}
    /\ \/ writer' = [writer EXCEPT ![w].step = "kick"]
       \/ writer' = [writer EXCEPT ![w] = NoWrite]
    /\ UNCHANGED <<nextId, server, wake, job, owners, reader, heard, kicked, faults>>

Rollback(w) ==
    /\ writer[w].step = "open"
    /\ Fault
    /\ writer' = [writer EXCEPT ![w] = NoWrite]
    /\ UNCHANGED <<state, changes, nextId, server, wake, job, owners, reader,
                   heard, kicked>>

\* kick: _wake.set().
Kick(w) ==
    /\ writer[w].step = "kick"
    /\ wake' = TRUE
    /\ kicked' = kicked \cup {writer[w].row.id}
    /\ writer' = [writer EXCEPT ![w] = NoWrite]
    /\ UNCHANGED <<state, changes, nextId, server, job, owners, reader, heard, faults>>

-----------------------------------------------------------------------------
(* CacheInvalidationJob *)

others == <<state, nextId, writer, server, reader>>

\* _wake.wait(interval) returns: the event is set, or the interval is over.
Woken ==
    /\ JobAt("waiting")
    /\ wake
    /\ Go("woken")
    /\ UNCHANGED <<others, changes, wake, owners, heard, kicked, faults>>

Tick ==
    /\ JobAt("waiting")
    /\ ~ wake
    /\ Go("woken")
    /\ UNCHANGED <<others, changes, wake, owners, heard, kicked, faults>>

\* _wake.clear(), then either the end of the thread or a drain.
Clear ==
    /\ JobAt("woken")
    /\ wake' = FALSE
    /\ Go(IF server = "up" THEN "claim" ELSE "off")
    /\ UNCHANGED <<others, changes, owners, heard, faults, kicked>>

\* The top of the loop, where the thread ends if the job was stopped.
\* Mutant: the event is cleared again after the drain.
LoopClearing ==
    /\ job' = Job(IF server = "up" THEN "waiting" ELSE "off")
    /\ wake' = FALSE
Loop ==
    /\ job' = Job(IF server = "up" THEN "waiting" ELSE "off")
    /\ UNCHANGED wake

\* claim_changes: ORDER BY id LIMIT Batch, of the rows committed by now.
Oldest(rows) ==
    /\ rows \subseteq changes
    /\ Cardinality(rows) =
          IF Cardinality(changes) < Batch THEN Cardinality(changes) ELSE Batch
    /\ \A r \in rows, q \in changes \ rows : r.id < q.id

Claim ==
    /\ JobAt("claim")
    /\ changes # {}
    /\ \E rows \in SUBSET changes :
          /\ Oldest(rows)
          /\ job' = [step |-> "gateway", claimed |-> rows, failed |-> FALSE]
    /\ UNCHANGED <<others, changes, wake, owners, heard, kicked, faults>>

ClaimNothing ==
    /\ JobAt("claim")
    /\ changes = {}
    /\ Loop
    /\ UNCHANGED <<others, changes, owners, heard, faults, kicked>>

Hear(cache) ==
    heard' = [heard EXCEPT ![cache] = @ \cup {r.id : r \in job.claimed}]

\* SouinCacheInvalidationTool: one purge by surrogate keys, one per deletion.
PurgeGateway ==
    /\ JobAt("gateway")
    /\ Hear("gateway")
    /\ Go("acl")
    /\ UNCHANGED <<others, changes, wake, owners, faults, kicked>>

\* CompositeCacheInvalidationTool remembers a failure and tries the next tool.
AfterFailure(step) == [job EXCEPT !.step = step, !.failed = TRUE]

PurgeGatewayFails ==
    /\ JobAt("gateway")
    /\ Fault
    /\ job' = AfterFailure("acl")
    /\ UNCHANGED <<others, changes, wake, owners, heard, kicked>>

\* AclCacheInvalidationTool: delete_owner for each change.
ForgetOwners ==
    /\ JobAt("acl")
    /\ Hear("acl")
    /\ owners' = owners \ {r.resource : r \in job.claimed}
    /\ Go("commit")
    /\ UNCHANGED <<others, changes, wake, faults, kicked>>

ForgetOwnersFails ==
    /\ JobAt("acl")
    /\ Fault
    /\ \E some \in SUBSET {r.resource : r \in job.claimed} : owners' = owners \ some
    /\ job' = AfterFailure("commit")
    /\ UNCHANGED <<others, changes, wake, heard, kicked>>

\* delete_changes: exactly the rows that were claimed.
\* Mutant: every row up to the last identifier claimed.
DeletedUpTo(claimed) == {r \in changes : \E q \in claimed : r.id <= q.id}
Deleted(claimed) == claimed

\* A full batch is followed by another one, in a transaction of its own.
NextBatch == job' = Job("claim")

\* The end of DispatchChanges.
Dispatched ==
    /\ JobAt("commit")
    /\ ~ job.failed
    /\ changes' = changes \ Deleted(job.claimed)
    /\ \/ /\ Cardinality(job.claimed) >= Batch
          /\ NextBatch
          /\ UNCHANGED wake
       \/ Cardinality(job.claimed) < Batch /\ Loop
    /\ UNCHANGED <<others, owners, heard, faults, kicked>>

\* A tool has failed: the transaction is rolled back, the rows stay.
DispatchAborted ==
    /\ JobAt("commit")
    /\ job.failed
    /\ job' = Job("backoff")
    /\ kicked' = {}
    /\ UNCHANGED <<others, changes, wake, owners, heard, faults>>

\* The database fails at any statement of the transaction.
DispatchFails ==
    /\ job.step \in {"claim", "gateway", "commit"}
    /\ Fault
    /\ job' = Job("backoff")
    /\ kicked' = {}
    /\ UNCHANGED <<others, changes, wake, owners, heard>>

\* _stopped.wait(delay) returns.
\* Mutant: the exception ends the thread.
ThreadEnds == job' = Job("off") /\ UNCHANGED wake
AfterBackoff == Loop

BackoffOver ==
    /\ JobAt("backoff")
    /\ AfterBackoff
    /\ UNCHANGED <<others, changes, owners, heard, faults, kicked>>

-----------------------------------------------------------------------------
(* AuthorizeRequest: the owner from the cache, else from the store *)

\* get_owner.  A hit is the answer; a failed read counts as a miss.
LookUp(g, r) ==
    /\ server = "up"
    /\ reader[g] = NoRead
    /\ r \notin owners
    /\ reader' = [reader EXCEPT ![g] = [step |-> "store", resource |-> r]]
    /\ UNCHANGED <<state, changes, nextId, writer, server, wake, job, owners,
                   heard, kicked, faults>>

\* Only an owner that was found is cached.
\* Mutant: whatever was read.
CacheableAlways(r) == TRUE
Cacheable(r) == state[r] = "live"

ReadOwner(g) ==
    /\ reader[g].step = "store"
    /\ reader' = [reader EXCEPT ![g] =
          IF Cacheable(@.resource) THEN [@ EXCEPT !.step = "put"] ELSE NoRead]
    /\ UNCHANGED <<state, changes, nextId, writer, server, wake, job, owners,
                   heard, kicked, faults>>

\* put_owner; a failed write is logged.
PutOwner(g) ==
    /\ reader[g].step = "put"
    /\ owners' \in {owners, owners \cup {reader[g].resource}}
    /\ reader' = [reader EXCEPT ![g] = NoRead]
    /\ UNCHANGED <<state, changes, nextId, writer, server, wake, job, heard,
                   kicked, faults>>

\* Valkey drops the entry after OWNER_TTL, or is restarted empty.
Expire(r) ==
    /\ r \in owners
    /\ owners' = owners \ {r}
    /\ UNCHANGED <<state, changes, nextId, writer, server, wake, job, reader,
                   heard, kicked, faults>>

-----------------------------------------------------------------------------
(* The server process *)

Start ==
    /\ server = "down"
    /\ server' = "up"
    /\ wake' = FALSE
    /\ job' = Job("waiting")
    /\ kicked' = {}
    /\ UNCHANGED <<state, changes, nextId, writer, owners, reader, heard, faults>>

\* lifespan, once requests have ended: stop the job.  An analysis that is still
\* running may commit and kick after this.
Stop ==
    /\ server = "up"
    /\ Fault
    /\ \A g \in Readers : reader[g] = NoRead
    /\ server' = "stopping"
    /\ wake' = TRUE
    /\ UNCHANGED <<state, changes, nextId, writer, job, owners, reader, heard,
                   kicked>>

Stopped ==
    /\ server = "stopping"
    /\ JobAt("off")
    /\ \A w \in Writers : writer[w] = NoWrite
    /\ server' = "down"
    /\ UNCHANGED <<state, changes, nextId, writer, wake, job, owners, reader,
                   heard, kicked, faults>>

Crash ==
    /\ server # "down"
    /\ Fault
    /\ server' = "down"
    /\ job' = Job("off")
    /\ writer' = [w \in Writers |-> NoWrite]
    /\ reader' = [g \in Readers |-> NoRead]
    /\ UNCHANGED <<state, changes, nextId, wake, owners, heard, kicked>>

JobStep ==
    \/ Woken \/ Clear \/ Claim \/ ClaimNothing
    \/ PurgeGateway \/ PurgeGatewayFails \/ ForgetOwners \/ ForgetOwnersFails
    \/ Dispatched \/ DispatchAborted \/ DispatchFails \/ BackoffOver

Write(w) ==
    \/ \E r \in Resources, deleted \in BOOLEAN : Insert(w, r, deleted)
    \/ Commit(w) \/ Rollback(w) \/ Kick(w)

Read(g) ==
    \/ \E r \in Resources : LookUp(g, r)
    \/ ReadOwner(g) \/ PutOwner(g)

Init ==
    /\ state = [r \in Resources |-> "unborn"]
    /\ changes = {}
    /\ nextId = 1
    /\ writer = [w \in Writers |-> NoWrite]
    /\ server = "down"
    /\ wake = FALSE
    /\ job = Job("off")
    /\ owners = {}
    /\ reader = [g \in Readers |-> NoRead]
    /\ heard = [c \in Caches |-> {}]
    /\ kicked = {}
    /\ faults = 0

Next ==
    \/ \E w \in Writers : Write(w)
    \/ \E g \in Readers : Read(g)
    \/ \E r \in Resources : Expire(r)
    \/ JobStep \/ Tick
    \/ Start \/ Stop \/ Stopped \/ Crash

Spec == Init /\ [][Next]_vars

\* Threads run, Kubernetes starts the server again and Valkey expires entries.
\* Nothing is assumed of the tick: where it matters, the property says so.
FairSpec ==
    /\ Spec
    /\ WF_vars(JobStep) /\ WF_vars(Start) /\ WF_vars(Stopped)
    /\ \A w \in Writers : WF_vars(Commit(w)) /\ WF_vars(Kick(w))
    /\ \A g \in Readers : WF_vars(ReadOwner(g) \/ PutOwner(g))
    /\ \A r \in Resources : WF_vars(Expire(r))

-----------------------------------------------------------------------------
(* Properties *)

TypeOK ==
    /\ state \in [Resources -> {"unborn", "live", "deleted"}]
    /\ changes \subseteq Rows
    /\ nextId \in 1..(MaxId + 1)
    /\ \A w \in Writers :
          \/ writer[w] = NoWrite
          \/ writer[w].step \in {"open", "kick"} /\ writer[w].row \in Rows
    /\ server \in {"up", "stopping", "down"}
    /\ wake \in BOOLEAN
    /\ job.step \in {"off", "waiting", "woken", "claim", "gateway", "acl",
                     "commit", "backoff"}
    /\ job.claimed \subseteq changes
    /\ job.failed \in BOOLEAN
    /\ owners \subseteq Resources
    /\ \A g \in Readers :
          \/ reader[g] = NoRead
          \/ reader[g].step \in {"store", "put"} /\ reader[g].resource \in Resources
    /\ heard \in [Caches -> SUBSET (1..MaxId)]
    /\ kicked \subseteq 1..MaxId
    /\ faults \in 0..MaxFaults

Ids == {r.id : r \in changes}

\* No change that was committed leaves the outbox before both caches were told
\* of it, whatever failed meanwhile and in whatever order the rows appeared; and
\* the job never holds a row that has left it.
EveryChangeHeard ==
    /\ []TypeOK
    /\ [][\A r \in changes : r \notin changes' => \A c \in Caches : r.id \in heard[c]]_vars

\* "Forget cached owners of changed resources so access checks see the new
\* truth" (AclCacheInvalidationTool): once the deletion of a resource has been
\* dispatched, the cache holds no owner of it.
AccessSeesTruth ==
    \A r \in owners :
        \/ state[r] = "live"
        \/ \E q \in changes : q.resource = r /\ q.deleted

\* Every committed change is dispatched in the end, kicked or not, if the job's
\* wait times out as it should.
ChangesDispatched ==
    WF_vars(Tick) => \A i \in 1..MaxId : i \in Ids ~> i \notin Ids

\* A kick is never lost: without any timeout the changes committed before it
\* are dispatched, unless a dispatch fails or the server stops.
KicksSuffice ==
    \A i \in 1..MaxId :
        i \in kicked ~> i \notin Ids \/ i \notin kicked \/ server # "up"

\* The owner of a deleted resource is forgotten for good in the end, although
\* a check that began before may put it back once.
OwnersForgotten ==
    \A r \in Resources : state[r] = "deleted" ~> [](r \notin owners)
=============================================================================
