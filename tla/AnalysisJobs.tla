------------------------------ MODULE AnalysisJobs ------------------------------
(***************************************************************************)
(* Analyses as durable jobs: StartAnalysis accepts one in a transaction    *)
(* and submits it to the executor, whose single thread runs RunAnalysis in *)
(* two transactions around the inference; the server restarts, crashes and *)
(* loses database connections in between; DeleteAnalysis removes what has  *)
(* finished.  A transaction that takes one lock and then writes under it   *)
(* is one action: nothing it reads can change before it commits.           *)
(***************************************************************************)
EXTENDS Naturals, Sequences, FiniteSets, SequencesExt

CONSTANTS
    Handlers,      \* request threads
    Analyses,      \* what identifier("analysis") returns
    Keys,          \* Idempotency-Key values, each of one subject
    Bodies,        \* request bodies, told apart by their digest
    MaxAttempts,   \* MAX_ATTEMPTS
    None

ASSUME JobsAssumption == MaxAttempts \in Nat \ {0} /\ None \notin Analyses

VARIABLES
    rows,     \* rows of kind "analysis", None if absent
    results,  \* identifiers in analysis_results
    retry,    \* rows of idempotency in the scope "analyses"
    changes,  \* changes[a]: how many outbox rows a has been given
    issued,   \* identifiers already drawn (uuid4 never repeats)
    server,   \* "up", "stopping" (lifespan shutdown) or "down"
    queue,    \* analyses submitted to the executor and not yet begun
    worker,   \* the executor's thread: the analysis and the step it is at
    tx,       \* tx[h]: the request handler h is serving
    runs,     \* history: runs[a] counts the inferences begun for a
    dropped   \* history: jobs lost to a failed connection since the last start

store == <<rows, results, retry, changes, issued>>
vars == <<store, server, queue, worker, tx, runs, dropped>>

Rows == [status : {"queued", "processing", "completed", "failed"},
         attempts : 0..MaxAttempts]

\* A missing row is no row.
ASSUME NoneAssumption == None \notin Rows

RetryRows == [key : Keys, digest : Bodies, analysis : Analyses]

Idle == [step |-> "none", analysis |-> None]
Waiting == [step |-> "none", analysis |-> None, row |-> None]

Exists(a) == rows[a] # None
Unfinished(a) == Exists(a) /\ rows[a].status \in {"queued", "processing"}

\* Mutant: an analysis that was being worked on is not resumed.
QueuedAnalyses == {a \in Analyses : Exists(a) /\ rows[a].status = "queued"}
PendingAnalyses == {a \in Analyses : Unfinished(a)}

\* put_resource and record_change of an analysis.
Put(a, row) ==
    /\ rows' = [rows EXCEPT ![a] = row]
    /\ changes' = [changes EXCEPT ![a] = @ + 1]

-----------------------------------------------------------------------------
(* The executor *)

\* submit: the executor takes the job.
Submit(a) == queue' = Append(queue, a)

EndJob == worker' = Waiting
ToStep(step) == worker' = [worker EXCEPT !.step = step]
WorkerAt(step) == worker.step = step

\* A job ends without the effect it should have had: the failed connection is
\* logged and nobody submits the job again before the next start.
Drop(a) == EndJob /\ dropped' = dropped \cup {a}

TakeJob ==
    /\ worker = Waiting
    /\ queue # <<>>
    /\ worker' = [step |-> "claim", analysis |-> Head(queue), row |-> None]
    /\ queue' = Tail(queue)
    /\ UNCHANGED <<store, server, tx, runs, dropped>>

\* Mutant: the attempts of an analysis that was interrupted are not counted.
NextAttemptFirst(row) == IF row.status = "queued" THEN 1 ELSE row.attempts
NextAttempt(row) == row.attempts + 1
\* Mutant: the attempts made before this one are compared.
AttemptLeftBefore(attempts) == attempts - 1 <= MaxAttempts
AttemptLeft(attempts) == attempts <= MaxAttempts

\* The first transaction: count the attempt, or give up after too many.  The
\* COMMIT can be lost to the caller, who then never gets to the inference.  The
\* early return for a missing or finished analysis is not reached: that every
\* job has an unfinished one is part of OneJobPerAnalysis.
Claim ==
    LET a == worker.analysis
        attempts == NextAttempt(rows[a])
        row == [status |-> "processing", attempts |-> attempts] IN
    /\ WorkerAt("claim")
    /\ Unfinished(a)
    /\ AttemptLeft(attempts)
    /\ Put(a, row)
    /\ \/ /\ worker' = [step |-> "infer", analysis |-> a, row |-> row]
          /\ runs' = [runs EXCEPT ![a] = @ + 1]
          /\ UNCHANGED dropped
       \/ Drop(a) /\ UNCHANGED runs
    /\ UNCHANGED <<results, retry, issued, server, queue, tx>>

GiveUp ==
    LET a == worker.analysis IN
    /\ WorkerAt("claim")
    /\ Unfinished(a)
    /\ ~ AttemptLeft(NextAttempt(rows[a]))
    /\ Put(a, [rows[a] EXCEPT !.status = "failed"])
    /\ EndJob
    /\ UNCHANGED <<results, retry, issued, server, queue, tx, runs, dropped>>

\* The connection fails before the first transaction commits.
ClaimFails ==
    /\ WorkerAt("claim")
    /\ Drop(worker.analysis)
    /\ UNCHANGED <<store, server, queue, tx, runs>>

\* Read the documents and infer; a document or an inference may be refused.
Infer ==
    /\ WorkerAt("infer")
    /\ \E step \in {"publish", "fail"} : ToStep(step)
    /\ UNCHANGED <<store, server, queue, tx, runs, dropped>>

-----------------------------------------------------------------------------
(* The end of a run *)

\* put_analysis_result, in the transaction that completes the analysis.
SaveResult(a) == results' = results \cup {a}

\* The second transaction.  If its COMMIT is lost to the caller, the exception
\* leads to _fail although the analysis is completed.
Publish ==
    LET a == worker.analysis IN
    /\ WorkerAt("publish")
    /\ Exists(a)
    /\ rows[a].status # "completed"
    /\ a \notin results               \* else a unique violation
    /\ SaveResult(a)
    /\ Put(a, [worker.row EXCEPT !.status = "completed"])
    /\ EndJob \/ ToStep("fail")
    /\ UNCHANGED <<retry, issued, server, queue, tx, runs, dropped>>

PublishFails ==
    /\ WorkerAt("publish")
    /\ ToStep("fail")
    /\ UNCHANGED <<store, server, queue, tx, runs, dropped>>

\* _fail writes what it read in the first transaction, unless the analysis has
\* been completed or deleted meanwhile.
\* Mutant: it does not look at the current row.
MayFailUnread(a) == TRUE
MayFail(a) == Exists(a) /\ rows[a].status # "completed"

Fail ==
    LET a == worker.analysis IN
    /\ WorkerAt("fail")
    /\ MayFail(a)
    /\ Put(a, [worker.row EXCEPT !.status = "failed"])
    /\ EndJob
    /\ UNCHANGED <<results, retry, issued, server, queue, tx, runs, dropped>>

FailNothing ==
    /\ WorkerAt("fail")
    /\ ~ MayFail(worker.analysis)
    /\ EndJob
    /\ UNCHANGED <<store, server, queue, tx, runs, dropped>>

FailFails ==
    /\ WorkerAt("fail")
    /\ Drop(worker.analysis)
    /\ UNCHANGED <<store, server, queue, tx, runs>>

-----------------------------------------------------------------------------
(* StartAnalysis *)

Serving(h) == server = "up" /\ tx[h] = Idle

\* A retry ends its transaction with the analysis made the first time; it
\* submits nothing.
\* Mutant: it submits the analysis again.
AfterReplayResubmitted(a) == [step |-> "submit", analysis |-> a]
AfterReplay(a) == [step |-> "reply", analysis |-> a]

StartAgain(h, key, body) ==
    /\ Serving(h)
    /\ \E r \in retry :
          /\ r.key = key
          /\ r.digest = body           \* else idempotency_conflict
          /\ tx' = [tx EXCEPT ![h] = AfterReplay(r.analysis)]
    /\ UNCHANGED <<store, server, queue, worker, runs, dropped>>

\* The row, the retry key and the change are committed before the job is
\* submitted; a COMMIT lost to the handler ends the request without it.
StartNew(h, key, body) ==
    /\ Serving(h)
    /\ \A r \in retry : r.key # key
    /\ \E a \in Analyses \ issued :
          /\ issued' = issued \cup {a}
          /\ Put(a, [status |-> "queued", attempts |-> 0])
          /\ retry' = retry \cup {[key |-> key, digest |-> body, analysis |-> a]}
          /\ \/ /\ tx' = [tx EXCEPT ![h] = [step |-> "submit", analysis |-> a]]
                /\ UNCHANGED dropped
             \/ dropped' = dropped \cup {a} /\ UNCHANGED tx
    /\ UNCHANGED <<results, server, queue, worker, runs>>

StartSubmit(h) ==
    /\ tx[h].step = "submit"
    /\ Submit(tx[h].analysis)
    /\ tx' = [tx EXCEPT ![h] = [@ EXCEPT !.step = "reply"]]
    /\ UNCHANGED <<store, server, worker, runs, dropped>>

StartReply(h) ==
    /\ tx[h].step = "reply"
    /\ tx' = [tx EXCEPT ![h] = Idle]
    /\ UNCHANGED <<store, server, queue, worker, runs, dropped>>

-----------------------------------------------------------------------------
(* DeleteAnalysis *)

\* authorize: any caller that may see it.
DeleteAuthorize(h, a) ==
    /\ Serving(h)
    /\ Exists(a)
    /\ tx' = [tx EXCEPT ![h] = [step |-> "delete", analysis |-> a]]
    /\ UNCHANGED <<store, server, queue, worker, runs, dropped>>

\* delete_resource: the result, the retry row and the row itself.
\* Mutant: the retry rows stay.
RetryRowsKept(a) == {}
RetryRowsOf(a) == {r \in retry : r.analysis = a}

\* Mutant: only a queued analysis is protected.
DeletableUnlessQueued(a) == rows[a].status # "queued"
Deletable(a) == rows[a].status \in {"completed", "failed"}   \* else not_ready

DeleteCommit(h) ==
    LET a == tx[h].analysis IN
    /\ tx[h].step = "delete"
    /\ Exists(a)
    /\ Deletable(a)
    /\ Put(a, None)
    /\ results' = results \ {a}
    /\ retry' = retry \ RetryRowsOf(a)
    /\ tx' = [tx EXCEPT ![h] = Idle]
    /\ UNCHANGED <<issued, server, queue, worker, runs, dropped>>

\* not_found, not_ready or a failed connection.
DeleteRefused(h) ==
    /\ tx[h].step = "delete"
    /\ tx' = [tx EXCEPT ![h] = Idle]
    /\ UNCHANGED <<store, server, queue, worker, runs, dropped>>

-----------------------------------------------------------------------------
(* The server process *)

\* lifespan: the executor is given what is pending before requests are served.
Start ==
    /\ server = "down"
    /\ server' = "up"
    /\ queue' \in SetToSeqs(PendingAnalyses)
    /\ dropped' = {}
    /\ UNCHANGED <<store, worker, tx, runs>>

\* Requests have ended; shutdown cancels the queue and waits for the thread.
Stop ==
    /\ server = "up"
    /\ \A h \in Handlers : tx[h] = Idle
    /\ server' = "stopping"
    /\ queue' = <<>>
    /\ UNCHANGED <<store, worker, tx, runs, dropped>>

Stopped ==
    /\ server = "stopping"
    /\ worker = Waiting
    /\ server' = "down"
    /\ UNCHANGED <<store, queue, worker, tx, runs, dropped>>

\* Open transactions are rolled back; what was in memory is gone.
Crash ==
    /\ server # "down"
    /\ server' = "down"
    /\ queue' = <<>>
    /\ worker' = Waiting
    /\ tx' = [h \in Handlers |-> Idle]
    /\ UNCHANGED <<store, runs, dropped>>

Request(h) ==
    \/ \E key \in Keys, body \in Bodies :
          StartAgain(h, key, body) \/ StartNew(h, key, body)
    \/ \E a \in Analyses : DeleteAuthorize(h, a)

Proceed(h) ==
    StartSubmit(h) \/ StartReply(h) \/ DeleteCommit(h) \/ DeleteRefused(h)

AfterClaim ==
    \/ Infer \/ Publish \/ PublishFails
    \/ Fail \/ FailNothing \/ FailFails

Worker == TakeJob \/ Claim \/ GiveUp \/ ClaimFails \/ AfterClaim

Init ==
    /\ rows = [a \in Analyses |-> None]
    /\ results = {}
    /\ retry = {}
    /\ changes = [a \in Analyses |-> 0]
    /\ issued = {}
    /\ server = "down"
    /\ queue = <<>>
    /\ worker = Waiting
    /\ tx = [h \in Handlers |-> Idle]
    /\ runs = [a \in Analyses |-> 0]
    /\ dropped = {}

Next ==
    \/ \E h \in Handlers : Request(h) \/ Proceed(h)
    \/ Worker
    \/ Start \/ Stop \/ Stopped \/ Crash

Spec == Init /\ [][Next]_vars

\* Kubernetes starts the server again; threads run; and a job that the executor
\* gets to again and again is claimed once without losing the connection.
FairSpec ==
    /\ Spec
    /\ WF_vars(Start) /\ WF_vars(Stopped)
    /\ \A h \in Handlers : WF_vars(Proceed(h))
    /\ WF_vars(AfterClaim)
    /\ SF_vars(TakeJob) /\ SF_vars(Claim) /\ SF_vars(GiveUp)

-----------------------------------------------------------------------------
(* Properties *)

Jobs(a) ==
    Cardinality({i \in 1..Len(queue) : queue[i] = a})
    + Cardinality({h \in Handlers : tx[h].step = "submit" /\ tx[h].analysis = a})
    + (IF worker.analysis = a THEN 1 ELSE 0)

TypeOK ==
    /\ rows \in [Analyses -> Rows \cup {None}]
    /\ results \subseteq Analyses
    /\ retry \subseteq RetryRows
    /\ changes \in [Analyses -> Nat]
    /\ issued \subseteq Analyses
    /\ server \in {"up", "stopping", "down"}
    /\ queue \in Seq(Analyses)
    /\ \/ worker = Waiting
       \/ worker \in [step : {"claim"}, analysis : Analyses, row : {None}]
       \/ worker \in [step : {"infer", "publish", "fail"},
                      analysis : Analyses, row : Rows]
    /\ tx \in [Handlers -> {Idle} \cup
                  [step : {"submit", "reply", "delete"}, analysis : Analyses]]
    /\ runs \in [Analyses -> Nat]
    /\ dropped \subseteq Analyses

\* However often the server is interrupted, the inference of an analysis is
\* begun at most MAX_ATTEMPTS times, each of them counted in its row.
AttemptsBounded ==
    \A a \in Analyses :
        /\ runs[a] <= MaxAttempts
        /\ Exists(a) => runs[a] <= rows[a].attempts

\* No analysis has two jobs, in the queue, at the worker or about to be
\* submitted: two runs of one analysis never race.  Nor does a job outlive the
\* work: until it is claimed its analysis is there and unfinished.
OneJobPerAnalysis ==
    /\ \A a \in Analyses : Jobs(a) <= 1
    /\ \A i \in 1..Len(queue) : Unfinished(queue[i])
    /\ WorkerAt("claim") => Unfinished(worker.analysis)
    /\ \A h \in Handlers : tx[h].step = "submit" => Unfinished(tx[h].analysis)

\* The run in progress owns its row: the stale copy it writes back in its
\* second transaction differs from the row in nothing but the status.
RunOwnsRow ==
    WorkerAt("infer") \/ WorkerAt("publish") =>
        /\ Exists(worker.analysis)
        /\ rows[worker.analysis] = worker.row

\* A result, a retry key and an outbox that match the row: nothing is left of a
\* deleted analysis, and every change of it was announced.
StoredTogether ==
    /\ \A a \in results : Exists(a) /\ rows[a].status = "completed"
    /\ \A r \in retry : Exists(r.analysis)
    /\ \A q, r \in retry : q.key = r.key \/ q.analysis = r.analysis => q = r
    /\ \A a \in Analyses : Exists(a) =>
          /\ \E r \in retry : r.analysis = a
          /\ changes[a] = 1 + rows[a].attempts
                + (IF rows[a].status \in {"completed", "failed"} THEN 1 ELSE 0)

Life ==
    [a \in Analyses |-> IF Exists(a) THEN rows[a].status
                        ELSE IF a \in issued THEN "deleted" ELSE "none"]

Lifecycle == INSTANCE AnalysisLifecycle WITH state <- Life, published <- results

\* A client that polls an analysis sees it move from accepted to its end, which
\* is final, and a result exactly when it is completed.
LifecycleSpec == Lifecycle!Spec

\* Every accepted analysis comes to an end unless its job was lost to a failed
\* connection, and then, too, if the server is started again.
AnalysesFinish ==
    \A a \in Analyses :
        /\ Unfinished(a) ~> ~ Unfinished(a) \/ a \in dropped
        /\ []<>(server = "down") => (Unfinished(a) ~> ~ Unfinished(a))
\* The types, and what keeps the runs of one analysis apart.
JobsHold == TypeOK /\ AttemptsBounded /\ OneJobPerAnalysis /\ RunOwnsRow

=============================================================================
