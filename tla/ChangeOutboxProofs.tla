-------------------------- MODULE ChangeOutboxProofs --------------------------
(***************************************************************************)
(* Proofs about ChangeOutbox, for any number of resources, writers,        *)
(* readers, identifiers and faults and any size of a batch.                *)
(***************************************************************************)
EXTENDS ChangeOutbox, TLAPS

-----------------------------------------------------------------------------
(* The inductive invariant *)

JobSteps == {"off", "waiting", "woken", "claim", "gateway", "acl", "commit", "backoff"}
WriterRecords ==
    {NoWrite} \cup [step : {"open", "kick"}, row : Rows]
ReaderRecords ==
    {NoRead} \cup [step : {"store", "put"}, resource : Resources]

\* A job of which every row it claimed is one of rows.
JobRecords(rows) == [step : JobSteps, claimed : SUBSET rows, failed : BOOLEAN]

\* The types, with the records of the threads spelled out.
Typed ==
    /\ state \in [Resources -> {"unborn", "live", "deleted"}]
    /\ changes \subseteq Rows
    /\ nextId \in 1..(MaxId + 1)
    /\ writer \in [Writers -> WriterRecords]
    /\ server \in {"up", "stopping", "down"}
    /\ wake \in BOOLEAN
    /\ job \in JobRecords(changes)
    /\ owners \subseteq Resources
    /\ reader \in [Readers -> ReaderRecords]
    /\ heard \in [Caches -> SUBSET (1..MaxId)]
    /\ kicked \subseteq 1..MaxId
    /\ faults \in 0..MaxFaults

\* An identifier belongs to one row: rows that may be committed yet have others
\* than those in the outbox, and all of them were drawn from the sequence.
IdsOnce ==
    /\ \A r \in changes : r.id < nextId
    /\ \A q, r \in changes : q.id = r.id => q = r
    /\ \A w \in Writers : writer[w].step = "open" =>
          /\ writer[w].row.id < nextId
          /\ \A r \in changes : r.id # writer[w].row.id
    /\ \A v, w \in Writers :
          /\ writer[v].step = "open" /\ writer[w].step = "open"
          /\ writer[v].row.id = writer[w].row.id
          => v = w

\* What the job has told the caches so far of the rows it claimed.
Told(cache) == \A r \in job.claimed : r.id \in heard[cache]
JobTold ==
    /\ job.step \in {"acl", "commit"} /\ ~ job.failed => Told("gateway")
    /\ JobAt("commit") /\ ~ job.failed => Told("acl")

IInv == Typed /\ IdsOnce /\ JobTold

-----------------------------------------------------------------------------
(* The threads' records *)

\* The job moves on with the rows it claimed, or notes that a tool failed.
LEMMA JobGoes ==
    ASSUME Typed, NEW step \in JobSteps
    PROVE  /\ [job EXCEPT !.step = step] \in JobRecords(changes)
           /\ [job EXCEPT !.step = step].step = step
           /\ [job EXCEPT !.step = step].claimed = job.claimed
           /\ [job EXCEPT !.step = step].failed = job.failed
           /\ AfterFailure(step) \in JobRecords(changes)
           /\ AfterFailure(step).step = step
           /\ AfterFailure(step).failed = TRUE
<1>1. job \in JobRecords(changes)
  BY DEF Typed
<1>2. /\ [job EXCEPT !.step = step] \in JobRecords(changes)
      /\ AfterFailure(step) \in JobRecords(changes)
  BY <1>1 DEF JobRecords, AfterFailure
<1>3. /\ [job EXCEPT !.step = step].step = step
      /\ [job EXCEPT !.step = step].claimed = job.claimed
      /\ AfterFailure(step).step = step
  BY <1>1 DEF JobRecords, AfterFailure
<1>4. [job EXCEPT !.step = step].failed = job.failed
  BY <1>1, Zenon DEF JobRecords
<1>5. AfterFailure(step).failed = TRUE
  BY <1>1, Zenon DEF JobRecords, AfterFailure
<1> QED
  BY <1>2, <1>3, <1>4, <1>5

\* A job that claims nothing.
LEMMA NewJob ==
    ASSUME NEW step \in JobSteps, NEW rows
    PROVE  /\ Job(step) \in JobRecords(rows)
           /\ Job(step).step = step /\ Job(step).claimed = {}
BY DEF Job, JobRecords

LEMMA MoreRows ==
    ASSUME NEW rows, NEW more, rows \subseteq more, NEW j \in JobRecords(rows)
    PROVE  j \in JobRecords(more)
BY DEF JobRecords

LEMMA LoopRecord ==
    Loop => \E step \in {"waiting", "off"} : job' = Job(step) /\ wake' = wake
BY DEF Loop

LEMMA WriterKinds ==
    ASSUME Typed, NEW w \in Writers
    PROVE  /\ writer[w].step \in {"none", "open", "kick"}
           /\ writer[w].step # "none" =>
                 writer[w] \in [step : {"open", "kick"}, row : Rows]
BY DEF Typed, WriterRecords, NoWrite

LEMMA ReaderKinds ==
    ASSUME Typed, NEW g \in Readers
    PROVE  /\ reader[g].step \in {"none", "store", "put"}
           /\ reader[g].step # "none" =>
                 reader[g] \in [step : {"store", "put"}, resource : Resources]
BY DEF Typed, ReaderRecords, NoRead

-----------------------------------------------------------------------------
(* The types are kept *)

LEMMA WriteKeepsTypes ==
    ASSUME OutboxAssumption, Typed, NEW w \in Writers, Write(w)
    PROVE  Typed'
<1>1. ASSUME NEW r \in Resources, NEW deleted \in BOOLEAN, Insert(w, r, deleted)
      PROVE  Typed'
  <2> DEFINE row == [id |-> nextId, resource |-> r, deleted |-> deleted]
  <2>1. row \in Rows /\ nextId + 1 \in 1..(MaxId + 1)
    BY <1>1 DEF Insert, Typed, Rows, OutboxAssumption
  <2>2. [step |-> "open", row |-> row] \in WriterRecords
    BY <2>1 DEF WriterRecords
  <2>3. writer' = [writer EXCEPT ![w] = [step |-> "open", row |-> row]]
    BY <1>1 DEF Insert
  <2> HIDE DEF row
  <2>4. writer' \in [Writers -> WriterRecords]
    BY <2>2, <2>3 DEF Typed
  <2> QED
    BY <1>1, <2>1, <2>4 DEF Insert, Typed
<1>2. ASSUME Commit(w)
      PROVE  Typed'
  <2>1. writer[w].row \in Rows /\ writer[w] \in [step : {"open", "kick"}, row : Rows]
    BY <1>2, WriterKinds DEF Commit
  <2>2. changes' \subseteq Rows /\ changes \subseteq changes'
    BY <1>2, <2>1 DEF Commit, Typed
  <2>3. [writer[w] EXCEPT !.step = "kick"] \in WriterRecords /\ NoWrite \in WriterRecords
    BY <2>1 DEF WriterRecords
  <2>4. writer' \in [Writers -> WriterRecords]
    BY <1>2, <2>3 DEF Commit, Typed
  <2>5. state' \in [Resources -> {"unborn", "live", "deleted"}]
    BY <1>2, <2>1 DEF Commit, Typed, Rows
  <2>6. job' \in JobRecords(changes')
    BY <1>2, <2>2, MoreRows DEF Commit, Typed
  <2> QED
    BY <1>2, <2>2, <2>4, <2>5, <2>6 DEF Commit, Typed
<1>3. ASSUME Rollback(w)
      PROVE  Typed'
  <2>1. writer' \in [Writers -> WriterRecords]
    BY <1>3 DEF Rollback, Typed, WriterRecords
  <2>2. faults' \in 0..MaxFaults
    BY <1>3 DEF Rollback, Fault, Typed, OutboxAssumption
  <2> QED
    BY <1>3, <2>1, <2>2 DEF Rollback, Typed
<1>4. ASSUME Kick(w)
      PROVE  Typed'
  <2>1. writer' \in [Writers -> WriterRecords]
    BY <1>4 DEF Kick, Typed, WriterRecords
  <2>2. writer[w].row.id \in 1..MaxId
    BY <1>4, WriterKinds DEF Kick, Rows
  <2> QED
    BY <1>4, <2>1, <2>2 DEF Kick, Typed
<1> QED
  BY <1>1, <1>2, <1>3, <1>4 DEF Write

LEMMA ReadKeepsTypes ==
    ASSUME Typed, \/ \E g \in Readers : Read(g)
                  \/ \E r \in Resources : Expire(r)
    PROVE  Typed'
<1>1. ASSUME NEW g \in Readers, NEW r \in Resources, LookUp(g, r)
      PROVE  Typed'
  <2>1. [step |-> "store", resource |-> r] \in ReaderRecords
    BY DEF ReaderRecords
  <2>2. reader' \in [Readers -> ReaderRecords]
    BY <1>1, <2>1 DEF LookUp, Typed
  <2> QED
    BY <1>1, <2>2 DEF LookUp, Typed
<1>2. ASSUME NEW g \in Readers, ReadOwner(g)
      PROVE  Typed'
  <2>1. reader[g] \in [step : {"store", "put"}, resource : Resources]
    BY <1>2, ReaderKinds DEF ReadOwner
  <2>2. [reader[g] EXCEPT !.step = "put"] \in ReaderRecords /\ NoRead \in ReaderRecords
    BY <2>1 DEF ReaderRecords
  <2>3. reader' \in [Readers -> ReaderRecords]
    BY <1>2, <2>2 DEF ReadOwner, Typed
  <2> QED
    BY <1>2, <2>3 DEF ReadOwner, Typed
<1>3. ASSUME NEW g \in Readers, PutOwner(g)
      PROVE  Typed'
  <2>1. reader[g].resource \in Resources
    BY <1>3, ReaderKinds DEF PutOwner
  <2>2. reader' \in [Readers -> ReaderRecords] /\ owners' \subseteq Resources
    BY <1>3, <2>1 DEF PutOwner, Typed, ReaderRecords
  <2> QED
    BY <1>3, <2>2 DEF PutOwner, Typed
<1>4. ASSUME NEW r \in Resources, Expire(r)
      PROVE  Typed'
  BY <1>4 DEF Expire, Typed
<1> QED
  BY <1>1, <1>2, <1>3, <1>4 DEF Read

LEMMA JobKeepsTypes ==
    ASSUME OutboxAssumption, Typed, JobStep \/ Tick
    PROVE  Typed'
<1>1. ASSUME Woken \/ Tick
      PROVE  Typed'
  <2>1. job' \in JobRecords(changes)
    BY <1>1, JobGoes DEF Woken, Tick, Go, Typed, JobSteps
  <2> QED
    BY <1>1, <2>1 DEF Woken, Tick, others, Typed
<1>2. ASSUME Clear
      PROVE  Typed'
  <2>1. job' \in JobRecords(changes)
    BY <1>2, JobGoes DEF Clear, Go, Typed, JobSteps
  <2> QED
    BY <1>2, <2>1 DEF Clear, others, Typed
<1>3. ASSUME Claim
      PROVE  Typed'
  <2>1. job' \in JobRecords(changes)
    BY <1>3 DEF Claim, JobRecords, JobSteps
  <2> QED
    BY <1>3, <2>1 DEF Claim, others, Typed
<1>4. ASSUME ClaimNothing \/ BackoffOver
      PROVE  Typed'
  <2>1. job' \in JobRecords(changes) /\ wake' = wake
    BY <1>4, LoopRecord, NewJob DEF ClaimNothing, BackoffOver, AfterBackoff, JobSteps
  <2> QED
    BY <1>4, <2>1 DEF ClaimNothing, BackoffOver, others, Typed
<1>5. {r.id : r \in job.claimed} \subseteq 1..MaxId
  BY DEF Typed, Rows, JobRecords
<1>6. ASSUME PurgeGateway \/ PurgeGatewayFails
      PROVE  Typed'
  <2>1. job' \in JobRecords(changes)
    BY <1>6, JobGoes DEF PurgeGateway, PurgeGatewayFails, Go, Typed, JobSteps
  <2>2. heard' \in [Caches -> SUBSET (1..MaxId)]
    BY <1>5, <1>6 DEF PurgeGateway, PurgeGatewayFails, Hear, Typed
  <2>3. faults' \in 0..MaxFaults
    BY <1>6 DEF PurgeGateway, PurgeGatewayFails, Fault, Typed, OutboxAssumption
  <2> QED
    BY <1>6, <2>1, <2>2, <2>3 DEF PurgeGateway, PurgeGatewayFails, others, Typed
<1>7. ASSUME ForgetOwners \/ ForgetOwnersFails
      PROVE  Typed'
  <2>1. job' \in JobRecords(changes)
    BY <1>7, JobGoes DEF ForgetOwners, ForgetOwnersFails, Go, Typed, JobSteps
  <2>2. heard' \in [Caches -> SUBSET (1..MaxId)]
    BY <1>5, <1>7 DEF ForgetOwners, ForgetOwnersFails, Hear, Typed
  <2>3. faults' \in 0..MaxFaults
    BY <1>7 DEF ForgetOwners, ForgetOwnersFails, Fault, Typed, OutboxAssumption
  <2>4. owners' \subseteq Resources
    BY <1>7 DEF ForgetOwners, ForgetOwnersFails, Typed
  <2> QED
    BY <1>7, <2>1, <2>2, <2>3, <2>4 DEF ForgetOwners, ForgetOwnersFails, others, Typed
<1>8. ASSUME Dispatched
      PROVE  Typed'
  <2>1. changes' \subseteq Rows
    BY <1>8 DEF Dispatched, Typed
  <2>2. job' \in JobRecords(changes') /\ wake' = wake
    BY <1>8, LoopRecord, NewJob DEF Dispatched, NextBatch, JobSteps
  <2> QED
    BY <1>8, <2>1, <2>2 DEF Dispatched, others, Typed
<1>9. ASSUME DispatchAborted \/ DispatchFails
      PROVE  Typed'
  <2>1. job' \in JobRecords(changes)
    BY <1>9, NewJob DEF DispatchAborted, DispatchFails, JobSteps
  <2>2. faults' \in 0..MaxFaults
    BY <1>9 DEF DispatchAborted, DispatchFails, Fault, Typed, OutboxAssumption
  <2> QED
    BY <1>9, <2>1, <2>2 DEF DispatchAborted, DispatchFails, others, Typed
<1> QED
  BY <1>1, <1>2, <1>3, <1>4, <1>6, <1>7, <1>8, <1>9 DEF JobStep

LEMMA ServerKeepsTypes ==
    ASSUME OutboxAssumption, Typed, Start \/ Stop \/ Stopped \/ Crash
    PROVE  Typed'
<1>1. \A step \in JobSteps : Job(step) \in JobRecords(changes)
  BY NewJob
<1>2. CASE Start
  BY <1>1, <1>2 DEF Start, Typed, JobSteps
<1>3. CASE Stop
  BY <1>3 DEF Stop, Fault, Typed, OutboxAssumption
<1>4. CASE Stopped
  BY <1>4 DEF Stopped, Typed
<1>5. CASE Crash
  <2>1. /\ writer' \in [Writers -> WriterRecords]
        /\ reader' \in [Readers -> ReaderRecords]
    BY <1>5 DEF Crash, WriterRecords, ReaderRecords
  <2>2. job' \in JobRecords(changes)
    BY <1>1, <1>5 DEF Crash, JobSteps
  <2> QED
    BY <1>5, <2>1, <2>2 DEF Crash, Fault, Typed, OutboxAssumption
<1> QED
  BY <1>2, <1>3, <1>4, <1>5

LEMMA NextKeepsTypes ==
    ASSUME Typed, [Next]_vars
    PROVE  Typed'
<1> USE OutboxAssumption
<1>1. CASE UNCHANGED vars
  BY <1>1 DEF vars, Typed
<1> QED
  BY <1>1, WriteKeepsTypes, ReadKeepsTypes, JobKeepsTypes, ServerKeepsTypes DEF Next

-----------------------------------------------------------------------------
(* One identifier, one row *)

\* A step that draws no identifier, opens no transaction and commits no row.
LEMMA IdsStay ==
    ASSUME IdsOnce, nextId' = nextId, changes' \subseteq changes,
           \A w \in Writers : writer'[w].step = "open" => writer'[w] = writer[w]
    PROVE  IdsOnce'
BY DEF IdsOnce

LEMMA NextKeepsIds ==
    ASSUME Typed, IdsOnce, [Next]_vars
    PROVE  IdsOnce'
<1>1. ASSUME NEW w \in Writers, NEW r \in Resources, NEW deleted \in BOOLEAN,
             Insert(w, r, deleted)
      PROVE  IdsOnce'
  <2> DEFINE row == [id |-> nextId, resource |-> r, deleted |-> deleted]
             t == [step |-> "open", row |-> row]
  <2>1. /\ nextId' = nextId + 1 /\ changes' = changes
        /\ writer'[w] = t /\ row.id = nextId
        /\ \A v \in Writers : v # w => writer'[v] = writer[v]
    BY <1>1 DEF Insert, Typed
  <2>2. t.row.id = nextId
    OBVIOUS
  <2> HIDE DEF t, row
  <2>3. /\ nextId \in Nat
        /\ \A q \in changes : q.id \in Nat /\ q.id < nextId
        /\ \A v \in Writers : writer[v].step = "open" =>
              writer[v].row.id \in Nat /\ writer[v].row.id < nextId
    BY WriterKinds DEF Typed, IdsOnce, Rows, OutboxAssumption
  <2>4. \A q \in changes : q.id < nextId + 1 /\ q.id # nextId
    BY <2>3
  <2>5. \A v \in Writers : v # w /\ writer[v].step = "open" =>
           writer[v].row.id < nextId + 1 /\ writer[v].row.id # nextId
    BY <2>3
  <2>6. nextId < nextId + 1
    BY <2>3
  <2>7. \A v \in Writers : writer'[v].step = "open" =>
           /\ writer'[v].row.id < nextId'
           /\ \A q \in changes' : q.id # writer'[v].row.id
    BY <2>1, <2>2, <2>4, <2>5, <2>6 DEF IdsOnce
  <2>8. \A u, v \in Writers :
           /\ writer'[u].step = "open" /\ writer'[v].step = "open"
           /\ writer'[u].row.id = writer'[v].row.id
           => u = v
    BY <2>1, <2>2, <2>5 DEF IdsOnce
  <2> QED
    BY <2>1, <2>4, <2>7, <2>8 DEF IdsOnce
<1>2. ASSUME NEW w \in Writers, Commit(w)
      PROVE  IdsOnce'
  <2>1. /\ writer[w].step = "open" /\ nextId' = nextId
        /\ changes' = changes \cup {writer[w].row}
    BY <1>2 DEF Commit
  <2>2. writer[w] \in [step : {"open", "kick"}, row : Rows]
    BY <2>1, WriterKinds
  <2>3. \A v \in Writers : writer'[v].step = "open" => v # w /\ writer'[v] = writer[v]
    <3>1. writer'[w].step # "open" /\ \A v \in Writers : v # w => writer'[v] = writer[v]
      BY <1>2, <2>2 DEF Commit, Typed, NoWrite
    <3> QED
      BY <3>1
  <2> QED
    BY <2>1, <2>3 DEF IdsOnce
<1>3. ASSUME NEW w \in Writers, Rollback(w) \/ Kick(w)
      PROVE  IdsOnce'
  <2>1. nextId' = nextId /\ changes' = changes /\ writer' = [writer EXCEPT ![w] = NoWrite]
    BY <1>3 DEF Rollback, Kick
  <2>2. \A v \in Writers : writer'[v].step = "open" => writer'[v] = writer[v]
    BY <2>1 DEF Typed, NoWrite
  <2> QED
    BY <2>1, <2>2, IdsStay
<1>4. ASSUME UNCHANGED <<nextId, writer>>, changes' \subseteq changes
      PROVE  IdsOnce'
  BY <1>4, IdsStay
<1>5. ASSUME \/ \E g \in Readers : Read(g)
             \/ \E r \in Resources : Expire(r)
             \/ Start \/ Stop \/ Stopped
      PROVE  IdsOnce'
  BY <1>4, <1>5 DEF Read, LookUp, ReadOwner, PutOwner, Expire, Start, Stop, Stopped
<1>6. ASSUME JobStep \/ Tick
      PROVE  IdsOnce'
  <2>1. UNCHANGED <<nextId, writer>>
    BY <1>6 DEF JobStep, Woken, Tick, Clear, Claim, ClaimNothing, PurgeGateway,
                PurgeGatewayFails, ForgetOwners, ForgetOwnersFails, Dispatched,
                DispatchAborted, DispatchFails, BackoffOver, others
  <2>2. changes' \subseteq changes
    BY <1>6 DEF JobStep, Woken, Tick, Clear, Claim, ClaimNothing, PurgeGateway,
                PurgeGatewayFails, ForgetOwners, ForgetOwnersFails, Dispatched,
                DispatchAborted, DispatchFails, BackoffOver
  <2> QED
    BY <1>4, <2>1, <2>2
<1>7. ASSUME Crash
      PROVE  IdsOnce'
  <2>1. \A w \in Writers : writer'[w].step # "open"
    BY <1>7 DEF Crash, NoWrite
  <2> QED
    BY <1>7, <2>1, IdsStay DEF Crash
<1>8. CASE UNCHANGED vars
  BY <1>4, <1>8 DEF vars
<1> QED
  BY <1>1, <1>2, <1>3, <1>5, <1>6, <1>7, <1>8 DEF Next, Write

-----------------------------------------------------------------------------
(* What the caches were told *)

LEMMA NextKeepsTold ==
    ASSUME Typed, JobTold, [Next]_vars
    PROVE  JobTold'
<1>1. ASSUME job' = job, heard' = heard
      PROVE  JobTold'
  BY <1>1 DEF JobTold, Told, JobAt
<1>2. ASSUME job'.step \notin {"acl", "commit"}
      PROVE  JobTold'
  BY <1>2 DEF JobTold, JobAt
<1>3. ASSUME \/ \E w \in Writers : Write(w)
             \/ \E g \in Readers : Read(g)
             \/ \E r \in Resources : Expire(r)
             \/ Stop \/ Stopped
      PROVE  JobTold'
  BY <1>1, <1>3 DEF Write, Insert, Commit, Rollback, Kick, Read, LookUp, ReadOwner,
                    PutOwner, Expire, Stop, Stopped
<1>4. ASSUME Start \/ Crash
      PROVE  JobTold'
  BY <1>2, <1>4 DEF Start, Crash, Job
<1>5. ASSUME Woken \/ Tick \/ Clear
      PROVE  JobTold'
  <2>1. PICK step \in {"woken", "claim", "off"} : job' = [job EXCEPT !.step = step]
    BY <1>5 DEF Woken, Tick, Clear, Go
  <2>2. job'.step = step
    BY <2>1, JobGoes DEF JobSteps
  <2> QED
    BY <1>2, <2>2
<1>6. ASSUME Claim
      PROVE  JobTold'
  BY <1>2, <1>6 DEF Claim
<1>7. ASSUME ClaimNothing \/ BackoffOver \/ Dispatched \/ DispatchAborted \/ DispatchFails
      PROVE  JobTold'
  <2>1. \E step \in {"waiting", "off", "claim", "backoff"} : job' = Job(step)
    BY <1>7, LoopRecord DEF ClaimNothing, BackoffOver, AfterBackoff, Dispatched,
                            NextBatch, DispatchAborted, DispatchFails
  <2>2. job'.step \in {"waiting", "off", "claim", "backoff"}
    BY <2>1, NewJob DEF JobSteps
  <2> QED
    BY <1>2, <2>2
<1>8. ASSUME PurgeGateway
      PROVE  JobTold'
  <2>1. job'.step = "acl" /\ job'.claimed = job.claimed
    BY <1>8, JobGoes DEF PurgeGateway, Go, JobSteps
  <2>2. heard'["gateway"] = heard["gateway"] \cup {r.id : r \in job.claimed}
    BY <1>8 DEF PurgeGateway, Hear, Typed, Caches
  <2>3. Told("gateway")'
    BY <2>1, <2>2 DEF Told
  <2> QED
    BY <2>1, <2>3 DEF JobTold, JobAt
<1>9. ASSUME ForgetOwners
      PROVE  JobTold'
  <2>1. job'.step = "commit" /\ job'.claimed = job.claimed /\ job'.failed = job.failed
    BY <1>9, JobGoes DEF ForgetOwners, Go, JobSteps
  <2>2. /\ heard'["acl"] = heard["acl"] \cup {r.id : r \in job.claimed}
        /\ heard'["gateway"] = heard["gateway"]
    BY <1>9 DEF ForgetOwners, Hear, Typed, Caches
  <2>3. Told("acl")'
    BY <2>1, <2>2 DEF Told
  <2>4. ~ job.failed => Told("gateway")
    BY <1>9 DEF ForgetOwners, JobTold, JobAt
  <2>5. ~ job.failed => Told("gateway")'
    BY <2>1, <2>2, <2>4 DEF Told
  <2> QED
    BY <2>1, <2>3, <2>5, Zenon DEF JobTold, JobAt
<1>10. ASSUME PurgeGatewayFails \/ ForgetOwnersFails
       PROVE  JobTold'
  <2>1. job'.failed = TRUE
    BY <1>10, JobGoes DEF PurgeGatewayFails, ForgetOwnersFails, JobSteps
  <2> QED
    BY <2>1, Zenon DEF JobTold
<1>11. CASE UNCHANGED vars
  BY <1>1, <1>11 DEF vars
<1> QED
  BY <1>3, <1>4, <1>5, <1>6, <1>7, <1>8, <1>9, <1>10, <1>11 DEF Next, JobStep

-----------------------------------------------------------------------------
(* The theorems *)

LEMMA InitInv == Init => IInv
<1> SUFFICES ASSUME Init PROVE IInv
  OBVIOUS
<1>1. Typed
  <2>1. job \in JobRecords(changes) /\ job.step = "off"
    BY NewJob DEF Init, JobSteps
  <2>2. writer \in [Writers -> WriterRecords] /\ reader \in [Readers -> ReaderRecords]
    BY DEF Init, WriterRecords, ReaderRecords
  <2>3. nextId \in 1..(MaxId + 1) /\ faults \in 0..MaxFaults
    BY OutboxAssumption DEF Init, OutboxAssumption
  <2>4. /\ state \in [Resources -> {"unborn", "live", "deleted"}]
        /\ heard \in [Caches -> SUBSET (1..MaxId)]
    BY DEF Init
  <2>5. changes \subseteq Rows /\ owners \subseteq Resources /\ kicked \subseteq 1..MaxId
    BY DEF Init
  <2>6. wake \in BOOLEAN /\ server \in {"up", "stopping", "down"}
    BY DEF Init
  <2> QED
    BY <2>1, <2>2, <2>3, <2>4, <2>5, <2>6, Zenon DEF Typed
<1>2. IdsOnce
  BY DEF Init, IdsOnce, NoWrite
<1>3. JobTold
  BY DEF Init, JobTold, JobAt, Job
<1> QED
  BY <1>1, <1>2, <1>3 DEF IInv

\* The types, the identifiers and what the job has told hold in every
\* reachable state.
THEOREM OutboxInvariant == Spec => []IInv
<1>1. IInv /\ [Next]_vars => IInv'
  BY NextKeepsTypes, NextKeepsIds, NextKeepsTold DEF IInv
<1> QED
  BY InitInv, <1>1, PTL DEF Spec

\* The outbox, the job and the threads keep their types, and the job never
\* holds a row that is no longer in the outbox.
THEOREM OutboxTyped == Spec => []TypeOK
<1>1. IInv => TypeOK
  <2> SUFFICES ASSUME Typed PROVE TypeOK
    BY DEF IInv
  <2>1. \A w \in Writers :
           \/ writer[w] = NoWrite
           \/ writer[w].step \in {"open", "kick"} /\ writer[w].row \in Rows
    BY DEF Typed, WriterRecords
  <2>2. \A g \in Readers :
           \/ reader[g] = NoRead
           \/ reader[g].step \in {"store", "put"} /\ reader[g].resource \in Resources
    BY DEF Typed, ReaderRecords
  <2>3. /\ job.step \in JobSteps /\ job.claimed \subseteq changes
        /\ job.failed \in BOOLEAN
    BY DEF Typed, JobRecords
  <2> QED
    BY <2>1, <2>2, <2>3 DEF Typed, TypeOK, JobSteps
<1> QED
  BY <1>1, OutboxInvariant, PTL

\* No committed change leaves the outbox before both caches were told of it:
\* only the end of a dispatch removes rows, and then each tool has succeeded
\* for just the rows claimed.
THEOREM ChangesAreHeard == Spec => EveryChangeHeard
<1>1. ASSUME IInv, [Next]_vars, NEW r \in changes, r \notin changes', NEW c \in Caches
      PROVE  r.id \in heard[c]
  <2>1. Dispatched
    <3>1. ASSUME changes \subseteq changes'
          PROVE  FALSE
      BY <1>1, <3>1
    <3>2. ASSUME NEW w \in Writers, Write(w)
          PROVE  FALSE
      BY <3>1, <3>2 DEF Write, Insert, Commit, Rollback, Kick
    <3>3. ASSUME \/ \E g \in Readers : Read(g)
                 \/ \E x \in Resources : Expire(x)
                 \/ Start \/ Stop \/ Stopped \/ Crash \/ Tick \/ UNCHANGED vars
          PROVE  FALSE
      BY <3>1, <3>3 DEF Read, LookUp, ReadOwner, PutOwner, Expire, Start, Stop,
                        Stopped, Crash, Tick, vars
    <3>4. ASSUME JobStep, ~ Dispatched
          PROVE  FALSE
      BY <3>1, <3>4
      DEF JobStep, Woken, Clear, Claim, ClaimNothing, PurgeGateway,
          PurgeGatewayFails, ForgetOwners, ForgetOwnersFails,
          DispatchAborted, DispatchFails, BackoffOver
    <3> QED
      BY <1>1, <3>2, <3>3, <3>4 DEF Next
  <2>2. /\ JobAt("commit") /\ ~ job.failed
        /\ r \in job.claimed
    BY <1>1, <2>1 DEF Dispatched, Deleted
  <2>3. Told("gateway") /\ Told("acl")
    BY <1>1, <2>2 DEF IInv, JobTold, JobAt
  <2> QED
    BY <2>2, <2>3 DEF Told, Caches
<1>2. IInv /\ [Next]_vars =>
         [\A r \in changes : r \notin changes' => \A c \in Caches : r.id \in heard[c]]_vars
  BY <1>1
<1> QED
  BY <1>2, OutboxInvariant, OutboxTyped, PTL DEF Spec, EveryChangeHeard

\* What the caches hear is not ambiguous: rows that are in the outbox, or may
\* be yet, never share an identifier, in whatever order they are committed.
THEOREM IdsAreDrawnOnce == Spec => []IdsOnce
<1>1. IInv => IdsOnce
  BY DEF IInv
<1> QED
  BY <1>1, OutboxInvariant, PTL

=============================================================================
