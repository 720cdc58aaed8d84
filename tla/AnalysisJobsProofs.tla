-------------------------- MODULE AnalysisJobsProofs --------------------------
(***************************************************************************)
(* Proofs about AnalysisJobs, for any number of handlers, analyses, keys   *)
(* and attempts.                                                           *)
(***************************************************************************)
EXTENDS AnalysisJobs, FiniteSetTheorems, SequenceTheorems, TLAPS

-----------------------------------------------------------------------------
(* The inductive invariant *)

Submitting(h) == tx[h].step = "submit"

\* Every job has one place: once in the queue, at one handler or at the worker.
JobsApart ==
    /\ \A i, j \in 1..Len(queue) : queue[i] = queue[j] => i = j
    /\ \A i \in 1..Len(queue) : queue[i] # worker.analysis
    /\ \A g, h \in Handlers :
          Submitting(g) /\ Submitting(h) /\ tx[g].analysis = tx[h].analysis => g = h
    /\ \A h \in Handlers : Submitting(h) =>
          /\ tx[h].analysis # worker.analysis
          /\ \A i \in 1..Len(queue) : queue[i] # tx[h].analysis

\* A job that nobody has claimed yet has work to do.
JobsUnfinished ==
    /\ \A i \in 1..Len(queue) : Unfinished(queue[i])
    /\ WorkerAt("claim") => Unfinished(worker.analysis)
    /\ \A h \in Handlers : Submitting(h) => Unfinished(tx[h].analysis)

\* A server that serves no requests holds no jobs but the one in progress.
ServerQuiet ==
    /\ server # "up" => queue = <<>> /\ \A h \in Handlers : tx[h] = Idle
    /\ server = "down" => worker = Waiting

\* The run in progress: until it fails to publish, its row is the copy it took;
\* after that the row is the copy, or is completed, or is gone.
RunKept ==
    /\ worker # Waiting => worker.analysis \in issued
    /\ worker.step \in {"infer", "publish", "fail"} =>
          worker.row.status = "processing"
    /\ RunOwnsRow
    /\ WorkerAt("fail") =>
          LET a == worker.analysis IN
          Exists(a) => rows[a].status = "completed" \/ rows[a] = worker.row

\* Finitely many identifiers were drawn, and what is known of any other is
\* nothing.
IssuedFirst ==
    /\ IsFiniteSet(issued)
    /\ \A a \in Analyses : Exists(a) => a \in issued
    /\ \A a \in Analyses : runs[a] > 0 \/ changes[a] > 0 => a \in issued

\* Only an analysis that was claimed has attempts.
QueuedFresh ==
    \A a \in QueuedAnalyses : rows[a].attempts = 0

\* What concerns the rows alone, and what concerns the jobs.
RowsInv == IssuedFirst /\ QueuedFresh /\ AttemptsBounded /\ StoredTogether
JobsInv == JobsApart /\ JobsUnfinished /\ ServerQuiet /\ RunKept
IInv == TypeOK /\ RowsInv /\ JobsInv

-----------------------------------------------------------------------------
(* Sequences of jobs *)

\* What Append, Head and Tail do to a queue.
LEMMA QueueOps ==
    ASSUME NEW S, NEW q \in Seq(S)
    PROVE  /\ \A a \in S : /\ Append(q, a) \in Seq(S)
                           /\ Len(Append(q, a)) = Len(q) + 1
                           /\ Append(q, a)[Len(q) + 1] = a
                           /\ \A i \in 1..Len(q) : Append(q, a)[i] = q[i]
           /\ q # <<>> => /\ 1 \in 1..Len(q) /\ Head(q) = q[1] /\ Head(q) \in S
                          /\ Tail(q) \in Seq(S)
                          /\ Len(Tail(q)) = Len(q) - 1
                          /\ \A i \in 1..Len(Tail(q)) :
                                i + 1 \in 1..Len(q) /\ Tail(q)[i] = q[i + 1]
<1>1. Len(q) \in Nat /\ \A i \in 1..Len(q) : q[i] \in S
  OBVIOUS
<1>2. ASSUME NEW a \in S
      PROVE  /\ Append(q, a) \in Seq(S)
             /\ Len(Append(q, a)) = Len(q) + 1
             /\ Append(q, a)[Len(q) + 1] = a
             /\ \A i \in 1..Len(q) : Append(q, a)[i] = q[i]
  BY <1>1
<1>3. ASSUME q # <<>>
      PROVE  /\ 1 \in 1..Len(q) /\ Head(q) = q[1] /\ Head(q) \in S
             /\ Tail(q) \in Seq(S)
             /\ Len(Tail(q)) = Len(q) - 1
             /\ \A i \in 1..Len(Tail(q)) :
                   i + 1 \in 1..Len(q) /\ Tail(q)[i] = q[i + 1]
  BY <1>1, <1>3
<1> QED
  BY <1>2, <1>3

\* The pending analyses in some order: each is there once.
LEMMA PendingOnce ==
    ASSUME NEW S, IsFiniteSet(S), NEW q \in SetToSeqs(S)
    PROVE  /\ q \in Seq(S)
           /\ \A i \in 1..Len(q) : q[i] \in S
           /\ \A i, j \in 1..Len(q) : q[i] = q[j] => i = j
<1>1. Cardinality(S) \in Nat
  BY FS_CardinalityType
<1>2. /\ q \in [1..Cardinality(S) -> S]
      /\ \A i, j \in 1..Cardinality(S) : i # j => q[i] # q[j]
  BY DEF SetToSeqs
<1>3. q \in Seq(S) /\ Len(q) = Cardinality(S)
  BY <1>1, <1>2
<1> QED
  BY <1>2, <1>3

\* Nothing to do with the rows: what is known of them stays.
LEMMA RowsUnchanged ==
    ASSUME RowsInv, UNCHANGED <<store, runs>>
    PROVE  RowsInv'
BY DEF RowsInv, IssuedFirst, QueuedFresh, QueuedAnalyses, AttemptsBounded,
       StoredTogether, Exists, store

\* The kinds of record the worker can be.
LEMMA WorkerKinds ==
    ASSUME TypeOK, JobsAssumption
    PROVE  /\ worker.step \in {"none", "claim", "infer", "publish", "fail"}
           /\ worker.step = "none" <=> worker = Waiting
           /\ worker.step = "none" <=> worker.analysis = None
           /\ worker # Waiting => worker.analysis \in Analyses
           /\ worker.step = "claim" => worker.row = None
           /\ worker.step \in {"infer", "publish", "fail"} => worker.row \in Rows
BY DEF TypeOK, Waiting, JobsAssumption

LEMMA HandlerKinds ==
    ASSUME TypeOK, NEW h \in Handlers
    PROVE  /\ tx[h].step \in {"none", "submit", "reply", "delete"}
           /\ tx[h].step = "none" <=> tx[h] = Idle
           /\ tx[h].step # "none" => tx[h].analysis \in Analyses
BY DEF TypeOK, Idle

-----------------------------------------------------------------------------
(* The steps that leave the rows alone *)

LEMMA TakeJobKeeps ==
    ASSUME JobsAssumption, NoneAssumption, IInv, TakeJob
    PROVE  TypeOK' /\ JobsInv'
<1>1. queue \in Seq(Analyses) /\ queue # <<>>
  BY DEF IInv, TypeOK, TakeJob
<1>2. /\ 1 \in 1..Len(queue) /\ Head(queue) = queue[1] /\ Head(queue) \in Analyses
      /\ queue' \in Seq(Analyses)
      /\ \A i \in 1..Len(queue') : i + 1 \in 1..Len(queue) /\ queue'[i] = queue[i + 1]
  BY <1>1, QueueOps DEF TakeJob
<1>3. TypeOK'
  BY <1>2 DEF IInv, TypeOK, TakeJob, store
<1>4. /\ worker'.step = "claim" /\ worker'.analysis = queue[1]
      /\ tx' = tx /\ rows' = rows /\ server' = server /\ issued' = issued
  BY <1>2 DEF TakeJob, store
<1>5. JobsApart'
  <2>1. \A i \in 1..Len(queue') : i + 1 # 1
    BY <1>2
  <2>2. \A i, j \in 1..Len(queue') : queue'[i] = queue'[j] => i = j
    <3>1. ASSUME NEW i \in 1..Len(queue'), NEW j \in 1..Len(queue'),
                 queue'[i] = queue'[j]
          PROVE  i = j
      <4>1. i + 1 = j + 1
        BY <1>2, <3>1 DEF IInv, JobsInv, JobsApart
      <4> QED
        BY <4>1
    <3> QED
      BY <3>1
  <2>3. \A i \in 1..Len(queue') : queue'[i] # worker'.analysis
    BY <1>2, <1>4, <2>1 DEF IInv, JobsInv, JobsApart
  <2>4. \A h \in Handlers : Submitting(h)' => Submitting(h)
    BY <1>4 DEF Submitting
  <2>5. \A h \in Handlers : Submitting(h) =>
           /\ tx[h].analysis # worker'.analysis
           /\ \A i \in 1..Len(queue') : queue'[i] # tx[h].analysis
    BY <1>2, <1>4 DEF IInv, JobsInv, JobsApart
  <2>6. \A g, h \in Handlers :
           Submitting(g)' /\ Submitting(h)' /\ tx'[g].analysis = tx'[h].analysis
           => g = h
    BY <1>4, <2>4 DEF IInv, JobsInv, JobsApart
  <2> QED
    BY <1>4, <2>2, <2>3, <2>4, <2>5, <2>6 DEF JobsApart
<1>6. JobsUnfinished'
  BY <1>2, <1>4
  DEF IInv, JobsInv, JobsUnfinished, Submitting, Unfinished, Exists, WorkerAt
<1>7. ServerQuiet'
  BY <1>1, <1>4 DEF IInv, JobsInv, ServerQuiet
<1>8. RunKept'
  <2>1. queue[1] \in issued
    BY <1>1, <1>2
    DEF IInv, TypeOK, RowsInv, IssuedFirst, JobsInv, JobsUnfinished, Unfinished
  <2> QED
    BY <1>4, <2>1 DEF RunKept, RunOwnsRow, WorkerAt
<1> QED
  BY <1>3, <1>5, <1>6, <1>7, <1>8 DEF JobsInv

\* The worker moves on, or ends, without touching a row.
LEMMA WorkerMoves ==
    ASSUME JobsAssumption, NoneAssumption, IInv,
           UNCHANGED <<store, server, queue, tx, runs>>,
           dropped' \subseteq Analyses,
           \/ worker' = Waiting
           \/ /\ worker.step \in {"infer", "publish", "fail"}
              /\ \/ worker' = [worker EXCEPT !.step = "fail"]
                 \/ /\ worker.step = "infer"
                    /\ worker' = [worker EXCEPT !.step = "publish"]
    PROVE  TypeOK' /\ JobsInv'
<1>1. /\ rows' = rows /\ issued' = issued /\ server' = server
      /\ queue' = queue /\ tx' = tx
  BY DEF store
<1>2. \/ worker' = Waiting
      \/ /\ worker.step \in {"infer", "publish", "fail"}
         /\ worker'.step \in {"publish", "fail"}
         /\ worker'.step = "publish" => worker.step = "infer"
         /\ worker'.analysis = worker.analysis /\ worker'.row = worker.row
         /\ worker' \in [step : {"infer", "publish", "fail"},
                         analysis : Analyses, row : Rows]
  <2>1. ASSUME worker.step \in {"infer", "publish", "fail"}
        PROVE  worker \in [step : {"infer", "publish", "fail"},
                           analysis : Analyses, row : Rows]
    BY <2>1 DEF IInv, TypeOK, Waiting
  <2>2. ASSUME worker.step \in {"infer", "publish", "fail"},
               NEW step \in {"publish", "fail"},
               worker' = [worker EXCEPT !.step = step]
        PROVE  /\ worker'.step = step
               /\ worker'.analysis = worker.analysis /\ worker'.row = worker.row
               /\ worker' \in [step : {"infer", "publish", "fail"},
                               analysis : Analyses, row : Rows]
    BY <2>1, <2>2
  <2> QED
    BY <2>2
<1>3. TypeOK'
  BY <1>2 DEF IInv, TypeOK, store
<1>4. JobsApart'
  <2>1. worker'.analysis = None \/ worker'.analysis = worker.analysis
    BY <1>2 DEF Waiting
  <2>2. \A i \in 1..Len(queue) : queue[i] # None
    BY DEF IInv, TypeOK, JobsAssumption
  <2>3. \A h \in Handlers : Submitting(h) => tx[h].analysis # None
    BY HandlerKinds DEF IInv, Submitting, JobsAssumption
  <2> QED
    BY <1>1, <2>1, <2>2, <2>3 DEF IInv, JobsInv, JobsApart, Submitting
<1>5. JobsUnfinished'
  BY <1>1, <1>2 DEF IInv, JobsInv, JobsUnfinished, Submitting, Unfinished,
                    Exists, WorkerAt, Waiting
<1>6. ServerQuiet'
  BY <1>1, <1>2 DEF IInv, JobsInv, ServerQuiet, Waiting
<1>7. RunKept'
  BY <1>1, <1>2 DEF IInv, JobsInv, RunKept, RunOwnsRow, WorkerAt, Exists, Waiting
<1> QED
  BY <1>3, <1>4, <1>5, <1>6, <1>7 DEF JobsInv

\* A handler that submits nothing moves on.
LEMMA HandlerMoves ==
    ASSUME IInv, NEW h \in Handlers, NEW t,
           UNCHANGED <<store, queue, worker, runs, dropped, server>>,
           tx' = [tx EXCEPT ![h] = t],
           \/ t = Idle
           \/ server = "up" /\ t \in [step : {"reply", "delete"}, analysis : Analyses]
    PROVE  TypeOK' /\ JobsInv'
<1>1. TypeOK'
  BY DEF IInv, TypeOK, store
<1>2. /\ rows' = rows /\ issued' = issued /\ server' = server
      /\ queue' = queue /\ worker' = worker
      /\ \A g \in Handlers : /\ g # h => tx'[g] = tx[g]
                             /\ g = h => tx'[g] = t
  BY DEF store, IInv, TypeOK
<1>3. \A g \in Handlers : Submitting(g)' => g # h /\ Submitting(g)
  BY <1>2 DEF Submitting, Idle
<1>4. JobsApart'
  BY <1>2, <1>3 DEF IInv, JobsInv, JobsApart
<1>5. JobsUnfinished'
  BY <1>2, <1>3 DEF IInv, JobsInv, JobsUnfinished, Unfinished, Exists, WorkerAt
<1>6. ServerQuiet'
  BY <1>2 DEF IInv, JobsInv, ServerQuiet
<1>7. RunKept'
  BY <1>2 DEF IInv, JobsInv, RunKept, RunOwnsRow, WorkerAt, Exists
<1> QED
  BY <1>1, <1>4, <1>5, <1>6, <1>7 DEF JobsInv

LEMMA SubmitKeeps ==
    ASSUME JobsAssumption, IInv, NEW h \in Handlers, StartSubmit(h)
    PROVE  TypeOK' /\ JobsInv'
<1> DEFINE a == tx[h].analysis
<1>1. /\ Submitting(h) /\ a \in Analyses /\ queue \in Seq(Analyses)
      /\ tx[h] \in [step : {"submit"}, analysis : Analyses]
  BY DEF IInv, TypeOK, StartSubmit, Submitting, Idle
<1>2. /\ queue' \in Seq(Analyses) /\ Len(queue') = Len(queue) + 1
      /\ queue'[Len(queue) + 1] = a /\ Len(queue) \in Nat
      /\ \A i \in 1..Len(queue) : queue'[i] = queue[i]
  BY <1>1, QueueOps DEF StartSubmit, Submit
<1>3. /\ rows' = rows /\ issued' = issued /\ server' = server /\ worker' = worker
      /\ tx' = [tx EXCEPT ![h] = [step |-> "reply", analysis |-> a]]
  <2>1. [tx[h] EXCEPT !.step = "reply"] = [step |-> "reply", analysis |-> a]
    BY <1>1
  <2> QED
    BY <2>1 DEF StartSubmit, store
<1>4. \A g \in Handlers : Submitting(g)' => g # h /\ Submitting(g) /\ tx'[g] = tx[g]
  <2>1. tx'[h].step = "reply" /\ \A g \in Handlers : g # h => tx'[g] = tx[g]
    BY <1>3 DEF IInv, TypeOK
  <2> QED
    BY <2>1 DEF Submitting
<1>5. TypeOK'
  <2>1. tx' \in [Handlers -> {Idle} \cup
                    [step : {"submit", "reply", "delete"}, analysis : Analyses]]
    BY <1>1, <1>3 DEF IInv, TypeOK
  <2>2. UNCHANGED <<rows, results, retry, changes, issued, server, worker, runs, dropped>>
    BY DEF StartSubmit, store
  <2> QED
    BY <1>2, <2>1, <2>2 DEF IInv, TypeOK
<1>6. \A i \in 1..Len(queue') : \/ i \in 1..Len(queue) /\ queue'[i] = queue[i]
                                \/ i = Len(queue) + 1 /\ queue'[i] = a
  <2>1. \A i \in 1..Len(queue') : i \in 1..Len(queue) \/ i = Len(queue) + 1
    BY <1>2
  <2> QED
    BY <1>2, <2>1
<1>7. server = "up"
  BY <1>1 DEF IInv, JobsInv, ServerQuiet, Submitting, Idle
<1>8. JobsApart'
  <2>1. \A i, j \in 1..Len(queue') : queue'[i] = queue'[j] => i = j
    BY <1>1, <1>6 DEF IInv, JobsInv, JobsApart
  <2>2. \A i \in 1..Len(queue') : queue'[i] # worker'.analysis
    BY <1>1, <1>3, <1>6 DEF IInv, JobsInv, JobsApart
  <2>3. ASSUME NEW g \in Handlers, Submitting(g)'
        PROVE  /\ tx'[g].analysis # worker'.analysis
               /\ \A i \in 1..Len(queue') : queue'[i] # tx'[g].analysis
    BY <1>1, <1>3, <1>4, <1>6, <2>3 DEF IInv, JobsInv, JobsApart
  <2>4. \A f, g \in Handlers :
           Submitting(f)' /\ Submitting(g)' /\ tx'[f].analysis = tx'[g].analysis
           => f = g
    BY <1>4 DEF IInv, JobsInv, JobsApart
  <2> QED
    BY <2>1, <2>2, <2>3, <2>4 DEF JobsApart
<1>9. JobsUnfinished'
  BY <1>1, <1>3, <1>4, <1>6
  DEF IInv, JobsInv, JobsUnfinished, Unfinished, Exists, WorkerAt
<1>10. ServerQuiet'
  BY <1>3, <1>7 DEF ServerQuiet
<1>11. RunKept'
  BY <1>3 DEF IInv, JobsInv, RunKept, RunOwnsRow, WorkerAt, Exists
<1> QED
  BY <1>5, <1>8, <1>9, <1>10, <1>11 DEF JobsInv

\* The process starts, stops and crashes: no job is left over from before.
LEMMA ServerKeeps ==
    ASSUME JobsAssumption, IInv, Start \/ Stop \/ Stopped \/ Crash
    PROVE  TypeOK' /\ JobsInv'
<1>1. rows' = rows /\ issued' = issued
  BY DEF Start, Stop, Stopped, Crash, store
<1>2. CASE Start
  <2>1. PendingAnalyses \subseteq issued /\ PendingAnalyses \subseteq Analyses
    BY DEF IInv, RowsInv, IssuedFirst, PendingAnalyses, Unfinished
  <2>2. IsFiniteSet(PendingAnalyses)
    BY <2>1, FS_Subset DEF IInv, RowsInv, IssuedFirst
  <2>3. /\ queue' \in Seq(PendingAnalyses)
        /\ \A i \in 1..Len(queue') : queue'[i] \in PendingAnalyses
        /\ \A i, j \in 1..Len(queue') : queue'[i] = queue'[j] => i = j
    BY <1>2, <2>2, PendingOnce DEF Start
  <2>4. queue' \in Seq(Analyses)
    BY <2>1, <2>3, SeqMonotonic
  <2>5. /\ worker' = Waiting /\ tx' = tx /\ server' = "up"
        /\ \A h \in Handlers : ~ Submitting(h)
    BY <1>2 DEF Start, IInv, JobsInv, ServerQuiet, Submitting, Idle
  <2>6. TypeOK'
    BY <1>2, <2>4, <2>5 DEF IInv, TypeOK, Start, store
  <2>7. JobsApart'
    BY <2>1, <2>3, <2>5 DEF JobsApart, Submitting, Waiting, JobsAssumption
  <2>8. JobsUnfinished'
    BY <1>1, <2>3, <2>5
    DEF JobsUnfinished, Submitting, WorkerAt, Waiting, PendingAnalyses, Unfinished, Exists
  <2>9. ServerQuiet' /\ RunKept'
    BY <2>5 DEF ServerQuiet, RunKept, RunOwnsRow, WorkerAt, Waiting
  <2> QED
    BY <2>6, <2>7, <2>8, <2>9 DEF JobsInv
<1>3. CASE Stop
  <2>1. /\ queue' = <<>> /\ tx' = tx /\ worker' = worker /\ server' = "stopping"
        /\ \A h \in Handlers : tx[h] = Idle
    BY <1>3 DEF Stop
  <2>2. TypeOK'
    BY <1>3, <2>1 DEF IInv, TypeOK, Stop, store
  <2>3. /\ 1..Len(queue') = {}
        /\ \A h \in Handlers : ~ Submitting(h)'
    BY <2>1 DEF Submitting, Idle
  <2>4. JobsApart' /\ ServerQuiet'
    BY <2>1, <2>3 DEF JobsApart, ServerQuiet
  <2>5. JobsUnfinished'
    BY <1>1, <2>1, <2>3
    DEF IInv, JobsInv, JobsUnfinished, WorkerAt, Unfinished, Exists
  <2>6. RunKept'
    BY <1>1, <2>1 DEF IInv, JobsInv, RunKept, RunOwnsRow, WorkerAt, Exists
  <2> QED
    BY <2>2, <2>4, <2>5, <2>6 DEF JobsInv
<1>4. CASE Stopped
  <2>1. /\ queue' = queue /\ tx' = tx /\ worker' = worker /\ server' = "down"
        /\ worker = Waiting /\ server # "up"
    BY <1>4 DEF Stopped
  <2>2. TypeOK'
    BY <1>4, <2>1 DEF IInv, TypeOK, Stopped, store
  <2>3. ServerQuiet'
    BY <2>1 DEF IInv, JobsInv, ServerQuiet
  <2>4. JobsApart' /\ JobsUnfinished'
    BY <1>1, <2>1 DEF IInv, JobsInv, JobsApart, JobsUnfinished, Submitting, WorkerAt,
                      Unfinished, Exists
  <2>5. RunKept'
    BY <1>1, <2>1 DEF IInv, JobsInv, RunKept, RunOwnsRow, WorkerAt, Exists
  <2> QED
    BY <2>2, <2>3, <2>4, <2>5 DEF JobsInv
<1>5. CASE Crash
  <2>1. /\ queue' = <<>> /\ worker' = Waiting /\ server' = "down"
        /\ \A h \in Handlers : tx'[h] = Idle
    BY <1>5 DEF Crash
  <2>2. TypeOK'
    BY <1>5 DEF IInv, TypeOK, Crash, store
  <2>3. /\ 1..Len(queue') = {}
        /\ \A h \in Handlers : ~ Submitting(h)'
    BY <2>1 DEF Submitting, Idle
  <2>4. JobsApart' /\ ServerQuiet'
    BY <2>1, <2>3 DEF JobsApart, ServerQuiet
  <2>5. JobsUnfinished' /\ RunKept'
    BY <2>1, <2>3 DEF JobsUnfinished, RunKept, RunOwnsRow, WorkerAt, Waiting
  <2> QED
    BY <2>2, <2>4, <2>5 DEF JobsInv
<1> QED
  BY <1>2, <1>3, <1>4, <1>5

-----------------------------------------------------------------------------
(* The steps that put a row *)

LEMMA PutRow ==
    ASSUME TypeOK, NEW a \in Analyses, NEW row \in Rows \cup {None}, Put(a, row)
    PROVE  /\ rows' \in [Analyses -> Rows \cup {None}]
           /\ changes' \in [Analyses -> Nat]
           /\ rows'[a] = row /\ changes'[a] = changes[a] + 1
           /\ \A b \in Analyses : b # a =>
                 rows'[b] = rows[b] /\ changes'[b] = changes[b]
BY DEF TypeOK, Put

\* The worker puts the row of its analysis: no other job is of that analysis.
LEMMA WorkerPutsJobs ==
    ASSUME JobsAssumption, NoneAssumption, IInv, TypeOK', worker # Waiting,
           NEW row \in Rows, Put(worker.analysis, row),
           UNCHANGED <<issued, server, queue, tx>>,
           \/ worker' = Waiting
           \/ /\ worker'.step \in {"infer", "fail"}
              /\ worker'.analysis = worker.analysis
              /\ worker'.row.status = "processing"
              /\ worker'.step = "infer" => worker'.row = row
              /\ worker'.step = "fail" => row.status = "completed"
    PROVE  JobsInv'
<1> DEFINE a == worker.analysis
<1>1. a \in Analyses
  BY WorkerKinds DEF IInv
<1>2. /\ rows'[a] = row
      /\ \A b \in Analyses : b # a => rows'[b] = rows[b]
  BY <1>1, PutRow DEF IInv
<1>3. \A i \in 1..Len(queue) : queue[i] \in Analyses /\ queue[i] # a
  BY DEF IInv, TypeOK, JobsInv, JobsApart
<1>4. \A h \in Handlers : Submitting(h) => tx[h].analysis \in Analyses \ {a}
  BY HandlerKinds DEF IInv, JobsInv, JobsApart, Submitting
<1>5. worker' = Waiting \/ worker'.analysis = a
  OBVIOUS
<1>6. JobsApart'
  <2>1. \A i \in 1..Len(queue) : queue[i] # worker'.analysis
    BY <1>3, <1>5 DEF Waiting, JobsAssumption
  <2>2. \A h \in Handlers : Submitting(h) => tx[h].analysis # worker'.analysis
    BY <1>4, <1>5 DEF Waiting, JobsAssumption
  <2> QED
    BY <2>1, <2>2 DEF IInv, JobsInv, JobsApart, Submitting
<1>7. JobsUnfinished'
  BY <1>2, <1>3, <1>4
  DEF IInv, JobsInv, JobsUnfinished, Submitting, Unfinished, Exists, WorkerAt, Waiting
<1>8. ServerQuiet'
  BY DEF IInv, JobsInv, ServerQuiet
<1>9. RunKept'
  <2>1. a \in issued
    BY DEF IInv, JobsInv, RunKept
  <2>2. row # None
    BY DEF NoneAssumption
  <2> QED
    BY <1>2, <2>1, <2>2 DEF RunKept, RunOwnsRow, WorkerAt, Exists, Waiting
<1> QED
  BY <1>6, <1>7, <1>8, <1>9 DEF JobsInv

\* A row that is put anew keeps the counts if it has the attempts that were
\* begun, and the outbox tells of it.
LEMMA PutKeepsRows ==
    ASSUME NoneAssumption, TypeOK, RowsInv, NEW a \in Analyses, Exists(a),
           NEW row \in Rows, Put(a, row),
           UNCHANGED <<retry, issued>>,
           row.status # "queued",
           row.status \in {"completed", "failed"} =>
              row.attempts = rows[a].attempts /\ Unfinished(a) /\ runs' = runs,
           row.status = "processing" =>
              /\ Unfinished(a)
              /\ row.attempts = rows[a].attempts + 1
              /\ runs' = runs \/ runs' = [runs EXCEPT ![a] = @ + 1],
           results' = IF row.status = "completed" THEN results \cup {a} ELSE results
    PROVE  RowsInv'
<1>1. /\ rows'[a] = row /\ changes'[a] = changes[a] + 1
      /\ \A b \in Analyses : b # a =>
            rows'[b] = rows[b] /\ changes'[b] = changes[b]
  BY PutRow
<1>2. row # None /\ rows[a] \in Rows /\ row.attempts \in 0..MaxAttempts
  BY DEF NoneAssumption, Exists, TypeOK, Rows
<1>3. row.status \in {"processing", "completed", "failed"}
  BY DEF Rows
<1>4. a \in issued
  BY DEF RowsInv, IssuedFirst
<1>5. /\ \A b \in Analyses : b # a => runs'[b] = runs[b]
      /\ runs'[a] \in Nat /\ runs'[a] <= row.attempts
  <2>1. runs[a] \in Nat /\ runs[a] <= rows[a].attempts /\ rows[a].attempts \in Nat
    BY <1>2 DEF TypeOK, RowsInv, AttemptsBounded, Rows
  <2> QED
    BY <1>2, <1>3, <2>1 DEF TypeOK
<1>6. \A b \in Analyses : Exists(b)' <=> Exists(b)
  BY <1>1, <1>2 DEF Exists
<1>7. IssuedFirst'
  BY <1>1, <1>4, <1>5, <1>6 DEF RowsInv, IssuedFirst
<1>8. QueuedFresh'
  BY <1>1, <1>6 DEF RowsInv, QueuedFresh, QueuedAnalyses
<1>9. AttemptsBounded'
  <2>1. runs'[a] <= MaxAttempts /\ runs'[a] <= rows'[a].attempts
    BY <1>1, <1>2, <1>5, JobsAssumption DEF JobsAssumption
  <2> QED
    BY <1>1, <1>5, <1>6, <2>1 DEF RowsInv, AttemptsBounded
<1>10. StoredTogether'
  <2>1. \A b \in results' : Exists(b)' /\ rows'[b].status = "completed"
    <3>1. a \notin results
      BY <1>3 DEF RowsInv, StoredTogether, Unfinished
    <3>2. \A b \in results : b \in Analyses
      BY DEF TypeOK
    <3> QED
      BY <1>1, <1>6, <3>1, <3>2 DEF RowsInv, StoredTogether
  <2>2. \A r \in retry' : Exists(r.analysis)'
    BY <1>6 DEF RowsInv, StoredTogether, TypeOK, RetryRows
  <2>3. \A q, r \in retry' : q.key = r.key \/ q.analysis = r.analysis => q = r
    BY DEF RowsInv, StoredTogether
  <2>4. ASSUME NEW b \in Analyses, Exists(b)'
        PROVE  \E r \in retry' : r.analysis = b
    BY <1>6, <2>4 DEF RowsInv, StoredTogether
  <2>5. changes'[a] = 1 + rows'[a].attempts
           + (IF rows'[a].status \in {"completed", "failed"} THEN 1 ELSE 0)
    <3>1. changes[a] = 1 + rows[a].attempts
      BY <1>3, <1>2 DEF RowsInv, StoredTogether, Unfinished, Rows
    <3>2. rows[a].attempts \in Nat
      BY <1>2 DEF Rows
    <3> QED
      BY <1>1, <1>3, <3>1, <3>2
  <2>6. ASSUME NEW b \in Analyses, Exists(b)', b # a
        PROVE  changes'[b] = 1 + rows'[b].attempts
                  + (IF rows'[b].status \in {"completed", "failed"} THEN 1 ELSE 0)
    BY <1>1, <1>6, <2>6 DEF RowsInv, StoredTogether
  <2> QED
    BY <2>1, <2>2, <2>3, <2>4, <2>5, <2>6 DEF StoredTogether
<1> QED
  BY <1>7, <1>8, <1>9, <1>10 DEF RowsInv

LEMMA ClaimKeeps == ASSUME IInv, Claim PROVE IInv'
<1> DEFINE a == worker.analysis
           n == rows[a].attempts + 1
           row == [status |-> "processing", attempts |-> n]
<1> USE JobsAssumption, NoneAssumption
<1>1. /\ worker # Waiting /\ worker.step = "claim" /\ a \in Analyses
      /\ Unfinished(a) /\ Exists(a) /\ rows[a] \in Rows
  BY WorkerKinds DEF IInv, TypeOK, Claim, WorkerAt, Waiting, Unfinished, Exists
<1>2. /\ Put(a, row) /\ n <= MaxAttempts
      /\ UNCHANGED <<results, retry, issued, server, queue, tx>>
      /\ \/ /\ worker' = [step |-> "infer", analysis |-> a, row |-> row]
            /\ runs' = [runs EXCEPT ![a] = @ + 1]
            /\ dropped' = dropped
         \/ worker' = Waiting /\ dropped' = dropped \cup {a} /\ runs' = runs
  BY DEF Claim, NextAttempt, AttemptLeft, Drop, EndJob
<1>3. row \in Rows
  BY <1>1, <1>2 DEF Rows, JobsAssumption
<1>4. TypeOK'
  <2>1. rows' \in [Analyses -> Rows \cup {None}] /\ changes' \in [Analyses -> Nat]
    BY <1>1, <1>2, <1>3, PutRow DEF IInv
  <2>2. \/ worker' = Waiting
        \/ worker' \in [step : {"infer", "publish", "fail"},
                        analysis : Analyses, row : Rows]
    BY <1>1, <1>2, <1>3
  <2>3. runs' \in [Analyses -> Nat] /\ dropped' \subseteq Analyses
    BY <1>1, <1>2 DEF IInv, TypeOK
  <2> QED
    BY <1>2, <2>1, <2>2, <2>3 DEF IInv, TypeOK
<1>5. RowsInv'
  <2>1. row.status = "processing" /\ row.attempts = rows[a].attempts + 1
    OBVIOUS
  <2> HIDE DEF row
  <2> QED
    BY <1>1, <1>2, <1>3, <2>1, PutKeepsRows DEF IInv
<1>6. JobsInv'
  <2>1. \/ worker' = Waiting
        \/ /\ worker'.step = "infer" /\ worker'.analysis = a
           /\ worker'.row = row /\ row.status = "processing"
    BY <1>2
  <2> HIDE DEF row
  <2> QED
    BY <1>1, <1>2, <1>3, <1>4, <2>1, WorkerPutsJobs
<1> QED
  BY <1>4, <1>5, <1>6 DEF IInv

\* The worker ends a run with a row in a final state, or goes on to _fail.
LEMMA EndsKeep ==
    ASSUME IInv, worker # Waiting, Unfinished(worker.analysis),
           NEW row \in Rows, row.status \in {"completed", "failed"},
           row.attempts = rows[worker.analysis].attempts,
           Put(worker.analysis, row),
           results' = IF row.status = "completed" THEN results \cup {worker.analysis}
                      ELSE results,
           \/ worker' = Waiting
           \/ /\ row.status = "completed" /\ worker.step = "publish"
              /\ worker' = [worker EXCEPT !.step = "fail"],
           UNCHANGED <<retry, issued, server, queue, tx, runs, dropped>>
    PROVE  IInv'
<1> DEFINE a == worker.analysis
<1> USE JobsAssumption, NoneAssumption
<1>1. a \in Analyses /\ Exists(a)
  BY WorkerKinds DEF IInv, Unfinished
<1>2. \/ worker' = Waiting
      \/ /\ row.status = "completed" /\ worker'.step = "fail"
         /\ worker'.analysis = a /\ worker'.row = worker.row
         /\ worker'.row.status = "processing"
         /\ worker' \in [step : {"infer", "publish", "fail"},
                         analysis : Analyses, row : Rows]
  <2>1. CASE worker.step = "publish"
    <3>1. worker \in [step : {"infer", "publish", "fail"},
                      analysis : Analyses, row : Rows]
      BY <2>1 DEF IInv, TypeOK, Waiting
    <3>2. worker.row.status = "processing"
      BY <2>1 DEF IInv, JobsInv, RunKept
    <3> QED
      BY <3>1, <3>2
  <2> QED
    BY <2>1
<1>3. TypeOK'
  <2>1. rows' \in [Analyses -> Rows \cup {None}] /\ changes' \in [Analyses -> Nat]
    BY <1>1, PutRow DEF IInv
  <2>2. results' \subseteq Analyses
    BY <1>1 DEF IInv, TypeOK
  <2> QED
    BY <1>2, <2>1, <2>2 DEF IInv, TypeOK
<1>4. RowsInv'
  BY <1>1, PutKeepsRows DEF IInv
<1>5. JobsInv'
  BY <1>2, <1>3, WorkerPutsJobs
<1> QED
  BY <1>3, <1>4, <1>5 DEF IInv

LEMMA GiveUpKeeps == ASSUME IInv, GiveUp PROVE IInv'
<1> DEFINE a == worker.analysis
           row == [rows[a] EXCEPT !.status = "failed"]
<1>1. /\ worker # Waiting /\ Unfinished(a) /\ rows[a] \in Rows
  BY WorkerKinds, JobsAssumption
  DEF IInv, TypeOK, GiveUp, WorkerAt, Waiting, Unfinished, Exists
<1>2. /\ row \in Rows /\ row.status = "failed" /\ row.attempts = rows[a].attempts
  BY <1>1 DEF Rows
<1>3. /\ Put(a, row) /\ worker' = Waiting
      /\ UNCHANGED <<results, retry, issued, server, queue, tx, runs, dropped>>
  BY DEF GiveUp, EndJob
<1> HIDE DEF row
<1> QED
  BY <1>1, <1>2, <1>3, EndsKeep

LEMMA PublishKeeps == ASSUME IInv, Publish PROVE IInv'
<1> DEFINE a == worker.analysis
           row == [worker.row EXCEPT !.status = "completed"]
<1>1. /\ worker # Waiting /\ worker.step = "publish"
      /\ worker.row \in Rows /\ rows[a] = worker.row /\ worker.row.status = "processing"
  BY WorkerKinds, JobsAssumption
  DEF IInv, Publish, WorkerAt, Waiting, JobsInv, RunKept, RunOwnsRow
<1>2. Unfinished(a)
  BY <1>1 DEF Publish, Unfinished
<1>3. /\ row \in Rows /\ row.status = "completed" /\ row.attempts = rows[a].attempts
  BY <1>1 DEF Rows
<1>4. /\ Put(a, row) /\ results' = results \cup {a}
      /\ worker' = Waiting \/ worker' = [worker EXCEPT !.step = "fail"]
      /\ UNCHANGED <<retry, issued, server, queue, tx, runs, dropped>>
  BY DEF Publish, EndJob, ToStep, SaveResult
<1> HIDE DEF row
<1> QED
  BY <1>1, <1>2, <1>3, <1>4, EndsKeep

LEMMA FailKeeps == ASSUME IInv, Fail PROVE IInv'
<1> DEFINE a == worker.analysis
           row == [worker.row EXCEPT !.status = "failed"]
<1>1. /\ worker # Waiting /\ worker.step = "fail" /\ Exists(a)
      /\ worker.row \in Rows /\ rows[a] = worker.row /\ worker.row.status = "processing"
  BY WorkerKinds, JobsAssumption
  DEF IInv, Fail, MayFail, WorkerAt, Waiting, JobsInv, RunKept
<1>2. Unfinished(a)
  BY <1>1 DEF Unfinished
<1>3. /\ row \in Rows /\ row.status = "failed" /\ row.attempts = rows[a].attempts
  BY <1>1 DEF Rows
<1>4. /\ Put(a, row) /\ worker' = Waiting
      /\ UNCHANGED <<results, retry, issued, server, queue, tx, runs, dropped>>
  BY DEF Fail, EndJob
<1> HIDE DEF row
<1> QED
  BY <1>1, <1>2, <1>3, <1>4, EndsKeep

\* A new analysis: its identifier has no row, no result, no job and no history.
LEMMA StartNewKeeps ==
    ASSUME IInv, NEW h \in Handlers, NEW key \in Keys, NEW body \in Bodies,
           StartNew(h, key, body)
    PROVE  IInv'
<1> DEFINE row == [status |-> "queued", attempts |-> 0]
<1> USE JobsAssumption, NoneAssumption
<1>1. PICK a \in Analyses \ issued :
        /\ issued' = issued \cup {a}
        /\ Put(a, row)
        /\ retry' = retry \cup {[key |-> key, digest |-> body, analysis |-> a]}
        /\ \/ /\ tx' = [tx EXCEPT ![h] = [step |-> "submit", analysis |-> a]]
              /\ dropped' = dropped
           \/ dropped' = dropped \cup {a} /\ tx' = tx
  BY DEF StartNew
<1>2. /\ server = "up" /\ tx[h] = Idle /\ \A r \in retry : r.key # key
      /\ UNCHANGED <<results, server, queue, worker, runs>>
  BY DEF StartNew, Serving
<1>3. /\ row \in Rows /\ row # None /\ row.status = "queued" /\ row.attempts = 0
  BY DEF Rows, JobsAssumption, NoneAssumption
<1> HIDE DEF row
<1>4. /\ rows' \in [Analyses -> Rows \cup {None}] /\ changes' \in [Analyses -> Nat]
      /\ rows'[a] = row /\ changes'[a] = changes[a] + 1
      /\ \A b \in Analyses : b # a =>
            rows'[b] = rows[b] /\ changes'[b] = changes[b]
  BY <1>1, <1>3, PutRow DEF IInv
<1>5. ~ Exists(a) /\ \A b \in Analyses : Exists(b)' <=> Exists(b) \/ b = a
  BY <1>3, <1>4 DEF IInv, RowsInv, IssuedFirst, Exists
<1>6. TypeOK'
  <2>1. tx' \in [Handlers -> {Idle} \cup
                    [step : {"submit", "reply", "delete"}, analysis : Analyses]]
    <3>1. [step |-> "submit", analysis |-> a]
             \in [step : {"submit", "reply", "delete"}, analysis : Analyses]
      OBVIOUS
    <3> QED
      BY <1>1, <3>1 DEF IInv, TypeOK
  <2>2. retry' \subseteq RetryRows
    BY <1>1 DEF IInv, TypeOK, RetryRows
  <2>3. issued' \subseteq Analyses /\ dropped' \subseteq Analyses
    BY <1>1 DEF IInv, TypeOK
  <2> QED
    BY <1>2, <1>4, <2>1, <2>2, <2>3 DEF IInv, TypeOK
<1>7. RowsInv'
  <2>1. IsFiniteSet(issued')
    BY <1>1, FS_AddElement DEF IInv, RowsInv, IssuedFirst
  <2>2. runs[a] = 0 /\ changes[a] = 0
    BY <1>1 DEF IInv, TypeOK, RowsInv, IssuedFirst
  <2>3. IssuedFirst'
    BY <1>1, <1>2, <1>4, <1>5, <2>1 DEF IInv, RowsInv, IssuedFirst
  <2>4. QueuedFresh'
    BY <1>3, <1>4, <1>5 DEF IInv, RowsInv, QueuedFresh, QueuedAnalyses
  <2>5. AttemptsBounded'
    BY <1>2, <1>3, <1>4, <1>5, <2>2 DEF IInv, RowsInv, AttemptsBounded
  <2>6. StoredTogether'
    <3>1. \A b \in results' : Exists(b)' /\ rows'[b].status = "completed"
      <4>1. \A b \in results : b \in Analyses /\ b # a
        BY <1>5 DEF IInv, TypeOK, RowsInv, StoredTogether
      <4> QED
        BY <1>2, <1>4, <1>5, <4>1 DEF IInv, RowsInv, StoredTogether
    <3>2. \A r \in retry : r.analysis \in Analyses /\ Exists(r.analysis)
      BY DEF IInv, TypeOK, RetryRows, RowsInv, StoredTogether
    <3>3. \A r \in retry' : Exists(r.analysis)'
      BY <1>1, <1>5, <3>2
    <3>4. \A r \in retry : r.key # key /\ r.analysis # a
      BY <1>2, <1>5, <3>2
    <3>5. \A q, r \in retry' : q.key = r.key \/ q.analysis = r.analysis => q = r
      BY <1>1, <3>4 DEF IInv, RowsInv, StoredTogether
    <3>6. \A b \in Analyses : Exists(b)' => \E r \in retry' : r.analysis = b
      <4>1. \E r \in retry' : r.analysis = a
        <5> DEFINE new == [key |-> key, digest |-> body, analysis |-> a]
        <5>1. new \in retry' /\ new.analysis = a
          BY <1>1
        <5> QED
          BY <5>1
      <4>2. retry \subseteq retry'
        BY <1>1
      <4> QED
        BY <1>5, <4>1, <4>2 DEF IInv, RowsInv, StoredTogether
    <3>7. changes[a] = 0
      BY <2>2
    <3>8. \A b \in Analyses : Exists(b)' =>
             changes'[b] = 1 + rows'[b].attempts
                + (IF rows'[b].status \in {"completed", "failed"} THEN 1 ELSE 0)
      BY <1>3, <1>4, <1>5, <3>7 DEF IInv, RowsInv, StoredTogether
    <3> QED
      BY <3>1, <3>3, <3>5, <3>6, <3>8 DEF StoredTogether
  <2> QED
    BY <2>3, <2>4, <2>5, <2>6 DEF RowsInv
<1>8. JobsInv'
  <2>1. /\ \A i \in 1..Len(queue) : queue[i] \in Analyses /\ queue[i] # a
        /\ worker.analysis # a
        /\ \A g \in Handlers : Submitting(g) => tx[g].analysis # a
    <3>1. /\ \A i \in 1..Len(queue) : queue[i] # a
          /\ \A g \in Handlers : Submitting(g) => tx[g].analysis # a
      BY <1>5 DEF IInv, JobsInv, JobsUnfinished, Unfinished
    <3>2. \A i \in 1..Len(queue) : queue[i] \in Analyses
      BY DEF IInv, TypeOK
    <3>3. worker.analysis # a
      BY <1>1 DEF IInv, JobsInv, RunKept, Waiting, JobsAssumption
    <3> QED
      BY <3>1, <3>2, <3>3
  <2>2. \A g \in Handlers : g # h => tx'[g] = tx[g]
    BY <1>1 DEF IInv, TypeOK
  <2>3. Submitting(h)' => tx'[h].analysis = a
    BY <1>1, <1>2 DEF IInv, TypeOK, Submitting, Idle
  <2>4. JobsApart'
    BY <1>2, <2>1, <2>2, <2>3 DEF IInv, JobsInv, JobsApart, Submitting
  <2>5. Unfinished(a)'
    BY <1>3, <1>4 DEF Unfinished, Exists
  <2>6. JobsUnfinished'
    <3>1. \A b \in Analyses : Unfinished(b) => Unfinished(b)'
      BY <1>4, <1>5, <2>5 DEF Unfinished, Exists
    <3>2. \A g \in Handlers : Submitting(g)' =>
             g = h \/ (Submitting(g) /\ tx'[g].analysis \in Analyses)
      BY <2>2, HandlerKinds DEF Submitting, IInv
    <3>3. WorkerAt("claim") => worker.analysis \in Analyses
      BY WorkerKinds DEF WorkerAt, IInv, Waiting
    <3> QED
      BY <1>2, <2>1, <2>2, <2>3, <2>5, <3>1, <3>2, <3>3
      DEF IInv, JobsInv, JobsUnfinished, WorkerAt, Submitting
  <2>7. ServerQuiet'
    BY <1>2 DEF ServerQuiet
  <2>8. RunKept'
    <3>1. worker # Waiting => worker.analysis \in Analyses
      BY WorkerKinds DEF IInv
    <3> QED
      BY <1>1, <1>2, <1>4, <2>1, <3>1
      DEF IInv, JobsInv, RunKept, RunOwnsRow, WorkerAt, Exists, Waiting
  <2> QED
    BY <2>4, <2>6, <2>7, <2>8 DEF JobsInv
<1> QED
  BY <1>6, <1>7, <1>8 DEF IInv

\* A finished analysis is deleted: no job is of it, unless the worker is about
\* to see that there is nothing to fail.
LEMMA DeleteKeeps ==
    ASSUME IInv, NEW h \in Handlers, DeleteCommit(h)
    PROVE  IInv'
<1> DEFINE a == tx[h].analysis
<1> USE JobsAssumption, NoneAssumption
<1>1. /\ tx[h].step = "delete" /\ a \in Analyses
      /\ Exists(a) /\ ~ Unfinished(a) /\ server = "up"
  BY HandlerKinds DEF IInv, DeleteCommit, Deletable, Unfinished,
                      JobsInv, ServerQuiet, Idle
<1>2. /\ Put(a, None)
      /\ results' = results \ {a}
      /\ retry' = {r \in retry : r.analysis # a}
      /\ tx' = [tx EXCEPT ![h] = Idle]
      /\ UNCHANGED <<issued, server, queue, worker, runs, dropped>>
  BY DEF DeleteCommit, RetryRowsOf
<1>3. /\ rows' \in [Analyses -> Rows \cup {None}] /\ changes' \in [Analyses -> Nat]
      /\ rows'[a] = None
      /\ \A b \in Analyses : b # a =>
            rows'[b] = rows[b] /\ changes'[b] = changes[b]
  BY <1>1, <1>2, PutRow DEF IInv
<1>4. \A b \in Analyses : Exists(b)' <=> Exists(b) /\ b # a
  BY <1>3 DEF Exists
<1>5. TypeOK'
  BY <1>2, <1>3 DEF IInv, TypeOK
<1>6. RowsInv'
  <2>1. IssuedFirst'
    <3>1. a \in issued
      BY <1>1 DEF IInv, RowsInv, IssuedFirst
    <3> QED
      BY <1>2, <1>3, <1>4, <3>1 DEF IInv, RowsInv, IssuedFirst
  <2>2. QueuedFresh'
    BY <1>3, <1>4 DEF IInv, RowsInv, QueuedFresh, QueuedAnalyses
  <2>3. AttemptsBounded'
    BY <1>2, <1>3, <1>4 DEF IInv, RowsInv, AttemptsBounded
  <2>4. StoredTogether'
    <3>1. \A b \in results' : Exists(b)' /\ rows'[b].status = "completed"
      BY <1>2, <1>3, <1>4 DEF IInv, TypeOK, RowsInv, StoredTogether
    <3>2. \A r \in retry' : r \in retry /\ r.analysis \in Analyses \ {a}
      BY <1>2 DEF IInv, TypeOK, RetryRows
    <3>3. \A r \in retry' : Exists(r.analysis)'
      BY <1>4, <3>2 DEF IInv, RowsInv, StoredTogether
    <3>4. \A q, r \in retry' : q.key = r.key \/ q.analysis = r.analysis => q = r
      BY <3>2 DEF IInv, RowsInv, StoredTogether
    <3>5. \A b \in Analyses : Exists(b)' => \E r \in retry' : r.analysis = b
      BY <1>2, <1>4 DEF IInv, RowsInv, StoredTogether
    <3>6. \A b \in Analyses : Exists(b)' =>
             changes'[b] = 1 + rows'[b].attempts
                + (IF rows'[b].status \in {"completed", "failed"} THEN 1 ELSE 0)
      BY <1>3, <1>4 DEF IInv, RowsInv, StoredTogether
    <3> QED
      BY <3>1, <3>3, <3>4, <3>5, <3>6 DEF StoredTogether
  <2> QED
    BY <2>1, <2>2, <2>3, <2>4 DEF RowsInv
<1>7. JobsInv'
  <2>1. \A g \in Handlers : Submitting(g)' => Submitting(g) /\ tx'[g] = tx[g]
    BY <1>2 DEF IInv, TypeOK, Submitting, Idle
  <2>2. \A b \in Analyses : Unfinished(b) => Unfinished(b)'
    BY <1>1, <1>3, <1>4 DEF Unfinished
  <2>3. JobsApart'
    BY <1>2, <2>1 DEF IInv, JobsInv, JobsApart
  <2>4. JobsUnfinished'
    <3>1. \A i \in 1..Len(queue) : queue[i] \in Analyses
      BY DEF IInv, TypeOK
    <3>2. \A g \in Handlers : Submitting(g) => tx[g].analysis \in Analyses
      BY HandlerKinds DEF Submitting, IInv
    <3>3. WorkerAt("claim") => worker.analysis \in Analyses
      BY WorkerKinds DEF WorkerAt, IInv, Waiting
    <3> QED
      BY <1>2, <2>1, <2>2, <3>1, <3>2, <3>3
      DEF IInv, JobsInv, JobsUnfinished, WorkerAt
  <2>5. ServerQuiet'
    BY <1>1, <1>2 DEF ServerQuiet
  <2>6. RunKept'
    <3>1. worker # Waiting => worker.analysis \in Analyses
      BY WorkerKinds DEF IInv
    <3>2. WorkerAt("infer") \/ WorkerAt("publish") => worker.analysis # a
      BY <1>1 DEF IInv, JobsInv, RunKept, RunOwnsRow, WorkerAt, Unfinished
    <3>3. RunOwnsRow'
      BY <1>2, <1>3, <1>4, <3>1, <3>2
      DEF IInv, JobsInv, RunKept, RunOwnsRow, WorkerAt, Waiting
    <3> QED
      BY <1>2, <1>3, <1>4, <3>1, <3>3 DEF IInv, JobsInv, RunKept, WorkerAt, Waiting
  <2> QED
    BY <2>3, <2>4, <2>5, <2>6 DEF JobsInv
<1> QED
  BY <1>5, <1>6, <1>7 DEF IInv

-----------------------------------------------------------------------------
(* The invariant *)

LEMMA InitInv == Init => IInv
<1> SUFFICES ASSUME Init PROVE IInv
  OBVIOUS
<1>1. TypeOK
  BY DEF Init, TypeOK
<1>2. /\ \A a \in Analyses : ~ Exists(a)
      /\ \A h \in Handlers : ~ Submitting(h)
      /\ 1..Len(queue) = {}
  BY DEF Init, Exists, Submitting, Idle
<1>3. RowsInv
  <2>1. IssuedFirst
    BY <1>2, FS_EmptySet DEF Init, IssuedFirst
  <2>2. QueuedFresh /\ AttemptsBounded
    BY <1>2, JobsAssumption
    DEF Init, QueuedFresh, QueuedAnalyses, AttemptsBounded, JobsAssumption
  <2>3. StoredTogether
    BY <1>2 DEF Init, StoredTogether
  <2> QED
    BY <2>1, <2>2, <2>3 DEF RowsInv
<1>4. JobsApart /\ JobsUnfinished
  BY <1>2 DEF Init, JobsApart, JobsUnfinished, WorkerAt, Waiting
<1>5. ServerQuiet /\ RunKept
  BY DEF Init, ServerQuiet, RunKept, RunOwnsRow, WorkerAt, Waiting
<1> QED
  BY <1>1, <1>3, <1>4, <1>5 DEF IInv, JobsInv

LEMMA NextInv == ASSUME IInv, [Next]_vars PROVE IInv'
<1> USE JobsAssumption, NoneAssumption
<1>1. ASSUME UNCHANGED vars
      PROVE  IInv'
  <2>1. UNCHANGED <<store, runs, server, queue, worker, tx, dropped>>
    BY <1>1 DEF vars
  <2>2. RowsInv'
    BY <2>1, RowsUnchanged DEF IInv
  <2>3. TypeOK'
    BY <2>1 DEF IInv, TypeOK, store
  <2>4. JobsInv'
    BY <2>1 DEF IInv, JobsInv, JobsApart, JobsUnfinished, ServerQuiet, RunKept,
                RunOwnsRow, Submitting, WorkerAt, Unfinished, Exists, store
  <2> QED
    BY <2>2, <2>3, <2>4 DEF IInv
<1>2. ASSUME UNCHANGED <<store, runs>>, TypeOK' /\ JobsInv'
      PROVE  IInv'
  BY <1>2, RowsUnchanged DEF IInv
<1>3. ASSUME NEW h \in Handlers, Request(h) \/ Proceed(h)
      PROVE  IInv'
  <2>1. ASSUME NEW key \in Keys, NEW body \in Bodies, StartAgain(h, key, body)
        PROVE  IInv'
    <3>1. PICK r \in retry : tx' = [tx EXCEPT ![h] = AfterReplay(r.analysis)]
      BY <2>1 DEF StartAgain
    <3>2. AfterReplay(r.analysis) \in [step : {"reply", "delete"}, analysis : Analyses]
      BY DEF AfterReplay, IInv, TypeOK, RetryRows
    <3>3. /\ server = "up"
          /\ UNCHANGED <<store, server, queue, worker, runs, dropped>>
      BY <2>1 DEF StartAgain, Serving
    <3> QED
      BY <3>1, <3>2, <3>3, <1>2, HandlerMoves
  <2>2. ASSUME NEW key \in Keys, NEW body \in Bodies, StartNew(h, key, body)
        PROVE  IInv'
    BY <2>2, StartNewKeeps
  <2>3. ASSUME NEW a \in Analyses, DeleteAuthorize(h, a)
        PROVE  IInv'
    <3>1. /\ tx' = [tx EXCEPT ![h] = [step |-> "delete", analysis |-> a]]
          /\ server = "up"
          /\ UNCHANGED <<store, server, queue, worker, runs, dropped>>
      BY <2>3 DEF DeleteAuthorize, Serving
    <3>2. [step |-> "delete", analysis |-> a]
             \in [step : {"reply", "delete"}, analysis : Analyses]
      OBVIOUS
    <3> QED
      BY <3>1, <3>2, <1>2, HandlerMoves
  <2>4. ASSUME StartSubmit(h)
        PROVE  IInv'
    <3>1. UNCHANGED <<store, runs>>
      BY <2>4 DEF StartSubmit
    <3> QED
      BY <2>4, <3>1, <1>2, SubmitKeeps
  <2>5. ASSUME StartReply(h) \/ DeleteRefused(h)
        PROVE  IInv'
    <3>1. /\ tx' = [tx EXCEPT ![h] = Idle]
          /\ UNCHANGED <<store, server, queue, worker, runs, dropped>>
      BY <2>5 DEF StartReply, DeleteRefused
    <3> QED
      BY <3>1, <1>2, HandlerMoves
  <2>6. ASSUME DeleteCommit(h)
        PROVE  IInv'
    BY <2>6, DeleteKeeps
  <2> QED
    BY <1>3, <2>1, <2>2, <2>3, <2>4, <2>5, <2>6 DEF Request, Proceed
<1>4. ASSUME Worker
      PROVE  IInv'
  <2>1. ASSUME TakeJob
        PROVE  IInv'
    <3>1. UNCHANGED <<store, runs>>
      BY <2>1 DEF TakeJob
    <3> QED
      BY <2>1, <3>1, <1>2, TakeJobKeeps
  <2>2. ASSUME ClaimFails \/ FailFails \/ FailNothing
        PROVE  IInv'
    <3>1. /\ worker' = Waiting /\ UNCHANGED <<store, server, queue, tx, runs>>
          /\ worker # Waiting
      BY <2>2 DEF ClaimFails, FailFails, FailNothing, Drop, EndJob, WorkerAt, Waiting
    <3>2. dropped' \subseteq Analyses
      BY <2>2, <3>1, WorkerKinds
      DEF ClaimFails, FailFails, FailNothing, Drop, IInv, TypeOK
    <3> QED
      BY <3>1, <3>2, <1>2, WorkerMoves
  <2>3. ASSUME Infer \/ PublishFails
        PROVE  IInv'
    <3>1. /\ UNCHANGED <<store, server, queue, tx, runs, dropped>>
          /\ worker.step \in {"infer", "publish"}
          /\ \/ worker' = [worker EXCEPT !.step = "fail"]
             \/ worker.step = "infer" /\ worker' = [worker EXCEPT !.step = "publish"]
      BY <2>3 DEF Infer, PublishFails, ToStep, WorkerAt
    <3>2. dropped' \subseteq Analyses
      BY <3>1 DEF IInv, TypeOK
    <3> QED
      BY <3>1, <3>2, <1>2, WorkerMoves
  <2> QED
    BY <1>4, <2>1, <2>2, <2>3, ClaimKeeps, GiveUpKeeps, PublishKeeps, FailKeeps
    DEF Worker, AfterClaim
<1>5. ASSUME Start \/ Stop \/ Stopped \/ Crash
      PROVE  IInv'
  <2>1. UNCHANGED <<store, runs>>
    BY <1>5 DEF Start, Stop, Stopped, Crash
  <2> QED
    BY <1>5, <2>1, <1>2, ServerKeeps
<1> QED
  BY <1>1, <1>3, <1>4, <1>5 DEF Next

\* What is known of rows and of jobs holds in every reachable state.
THEOREM JobsInvariant == Spec => []IInv
<1> QED
  BY InitInv, NextInv, PTL DEF Spec

\* A set of which any two members are the same has at most one.
LEMMA AtMostOne ==
    ASSUME NEW S, \A x, y \in S : x = y
    PROVE  Cardinality(S) = IF S = {} THEN 0 ELSE 1
<1>1. CASE S = {}
  BY <1>1, FS_EmptySet
<1>2. CASE S # {}
  <2>1. PICK x \in S : TRUE
    BY <1>2
  <2>2. S = {x}
    BY <2>1
  <2> QED
    BY <1>2, <2>2, FS_Singleton
<1> QED
  BY <1>1, <1>2

\* However the server is interrupted, an analysis is run at most MAX_ATTEMPTS
\* times, never by two jobs at once, and a run owns the row it writes back.
THEOREM RunsNeverRace == Spec => []JobsHold
<1>1. IInv => JobsHold
  <2> SUFFICES ASSUME IInv PROVE JobsHold
    OBVIOUS
  <2>1. ASSUME NEW a \in Analyses
        PROVE  Jobs(a) <= 1
    <3> DEFINE Queued == {i \in 1..Len(queue) : queue[i] = a}
               Sent == {h \in Handlers : tx[h].step = "submit" /\ tx[h].analysis = a}
    <3>1. /\ \A i, j \in Queued : i = j
          /\ \A g, h \in Sent : g = h
          /\ Queued # {} => Sent = {} /\ worker.analysis # a
          /\ Sent # {} => worker.analysis # a
      BY DEF IInv, JobsInv, JobsApart, Submitting
    <3>2. /\ Cardinality(Queued) = IF Queued = {} THEN 0 ELSE 1
          /\ Cardinality(Sent) = IF Sent = {} THEN 0 ELSE 1
      BY <3>1, AtMostOne
    <3>3. Jobs(a) = Cardinality(Queued) + Cardinality(Sent)
                    + (IF worker.analysis = a THEN 1 ELSE 0)
      BY DEF Jobs
    <3> HIDE DEF Queued, Sent
    <3> QED
      BY <3>1, <3>2, <3>3
  <2>2. OneJobPerAnalysis
    BY <2>1 DEF OneJobPerAnalysis, IInv, JobsInv, JobsUnfinished, Submitting
  <2> QED
    BY <2>2 DEF JobsHold, IInv, RowsInv, JobsInv, RunKept
<1> QED
  BY <1>1, JobsInvariant, PTL

\* An analysis, its result, its retry row and the changes announced of it are
\* there together or not at all.
THEOREM RowsStayTogether == Spec => []StoredTogether
<1>1. IInv => StoredTogether
  BY DEF IInv, RowsInv
<1> QED
  BY <1>1, JobsInvariant, PTL

-----------------------------------------------------------------------------
(* AnalysisJobs implements AnalysisLifecycle *)

\* Rows that keep their status, and identifiers that stay drawn, are the same
\* life.
LEMMA SameLife ==
    ASSUME UNCHANGED <<rows, issued>>
    PROVE  Life' = Life
BY DEF Life, Exists

\* What a put row is in the life of its analysis.
LEMMA LifeMoves ==
    ASSUME IInv, NEW a \in Analyses, NEW row \in Rows \cup {None}, Put(a, row),
           a \in issued', issued' \subseteq issued \cup {a}, issued \subseteq issued'
    PROVE  Life' = [Life EXCEPT ![a] = IF row = None THEN "deleted" ELSE row.status]
<1>1. /\ rows'[a] = row
      /\ \A b \in Analyses : b # a => rows'[b] = rows[b]
  BY PutRow DEF IInv
<1>2. \A b \in Analyses : b # a => (b \in issued' <=> b \in issued)
  OBVIOUS
<1> QED
  BY <1>1, <1>2 DEF Life, Exists

LEMMA StepIsLifecycle ==
    ASSUME IInv, [Next]_vars
    PROVE  [Lifecycle!Next]_(Lifecycle!lifecycle)
<1> USE JobsAssumption, NoneAssumption
<1>1. ASSUME UNCHANGED <<rows, issued, results>>
      PROVE  UNCHANGED Lifecycle!lifecycle
  BY <1>1, SameLife DEF Lifecycle!lifecycle
<1>2. \A a \in Analyses : Exists(a) =>
         /\ Life[a] = rows[a].status /\ a \in issued
         /\ rows[a] \in Rows
  BY DEF Life, Exists, IInv, TypeOK, RowsInv, IssuedFirst
<1>3. ASSUME NEW h \in Handlers, NEW key \in Keys, NEW body \in Bodies,
             StartNew(h, key, body)
      PROVE  Lifecycle!Next
  <2> DEFINE row == [status |-> "queued", attempts |-> 0]
  <2>1. PICK a \in Analyses \ issued :
           issued' = issued \cup {a} /\ Put(a, row) /\ results' = results
    BY <1>3 DEF StartNew
  <2>2. row \in Rows /\ row # None /\ row.status = "queued"
    BY DEF Rows, JobsAssumption, NoneAssumption
  <2> HIDE DEF row
  <2>3. Life' = [Life EXCEPT ![a] = "queued"]
    BY <2>1, <2>2, LifeMoves
  <2>4. Life[a] = "none"
    BY <2>1 DEF Life, IInv, RowsInv, IssuedFirst
  <2>5. Lifecycle!Accept(a)
    BY <2>1, <2>3, <2>4 DEF Lifecycle!Accept, Lifecycle!Move
  <2> QED
    BY <2>1, <2>5 DEF Lifecycle!Next
<1>4. ASSUME NEW h \in Handlers, DeleteCommit(h)
      PROVE  Lifecycle!Next
  <2> DEFINE a == tx[h].analysis
  <2>1. /\ a \in Analyses /\ Exists(a) /\ rows[a].status \in {"completed", "failed"}
        /\ Put(a, None) /\ results' = results \ {a} /\ issued' = issued
    BY <1>4, HandlerKinds DEF IInv, DeleteCommit, Deletable
  <2>2. Life' = [Life EXCEPT ![a] = "deleted"]
    BY <1>2, <2>1, LifeMoves
  <2>3. Life[a] \in {"completed", "failed"}
    BY <1>2, <2>1
  <2>4. Lifecycle!Delete(a)
    BY <2>1, <2>2, <2>3 DEF Lifecycle!Delete, Lifecycle!Move
  <2> QED
    BY <2>1, <2>4 DEF Lifecycle!Next
<1> DEFINE w == worker.analysis
<1>5. ASSUME Claim
      PROVE  Lifecycle!Next \/ UNCHANGED Lifecycle!lifecycle
  <2> DEFINE row == [status |-> "processing", attempts |-> rows[w].attempts + 1]
  <2>1. /\ w \in Analyses /\ Exists(w) /\ rows[w].status \in {"queued", "processing"}
        /\ rows[w].attempts + 1 <= MaxAttempts
        /\ Put(w, row) /\ results' = results /\ issued' = issued
    BY <1>5, WorkerKinds
    DEF IInv, Claim, Unfinished, WorkerAt, Waiting, NextAttempt, AttemptLeft
  <2>2. row \in Rows /\ row # None /\ row.status = "processing"
    BY <1>2, <2>1 DEF Rows, JobsAssumption, NoneAssumption
  <2> HIDE DEF row
  <2>3. Life' = [Life EXCEPT ![w] = "processing"]
    BY <1>2, <2>1, <2>2, LifeMoves
  <2>4. CASE rows[w].status = "queued"
    <3>1. Lifecycle!Begin(w)
      BY <1>2, <2>1, <2>3, <2>4 DEF Lifecycle!Begin, Lifecycle!Move
    <3> QED
      BY <2>1, <3>1 DEF Lifecycle!Next
  <2>5. CASE rows[w].status = "processing"
    <3>1. Life' = Life
      BY <1>2, <2>1, <2>3, <2>5 DEF Life
    <3> QED
      BY <2>1, <3>1 DEF Lifecycle!lifecycle
  <2> QED
    BY <2>1, <2>4, <2>5
<1>6. ASSUME GiveUp
      PROVE  Lifecycle!Next
  <2> DEFINE row == [rows[w] EXCEPT !.status = "failed"]
  <2>1. /\ w \in Analyses /\ Unfinished(w) /\ ~ rows[w].attempts + 1 <= MaxAttempts
        /\ Put(w, row) /\ results' = results /\ issued' = issued
    BY <1>6, WorkerKinds
    DEF IInv, GiveUp, WorkerAt, Waiting, NextAttempt, AttemptLeft
  <2>2. row \in Rows /\ row # None /\ row.status = "failed"
    BY <1>2, <2>1 DEF Rows, NoneAssumption, Unfinished
  <2> HIDE DEF row
  <2>3. Life' = [Life EXCEPT ![w] = "failed"]
    BY <1>2, <2>1, <2>2, LifeMoves DEF Unfinished
  <2>4. rows[w].status # "queued"
    BY <2>1 DEF IInv, RowsInv, QueuedFresh, QueuedAnalyses, JobsAssumption, Unfinished
  <2>5. Lifecycle!Fail(w)
    BY <1>2, <2>1, <2>3, <2>4 DEF Lifecycle!Fail, Lifecycle!Move, Unfinished
  <2> QED
    BY <2>1, <2>5 DEF Lifecycle!Next
<1>7. ASSUME Publish
      PROVE  Lifecycle!Next
  <2> DEFINE row == [worker.row EXCEPT !.status = "completed"]
  <2>1. /\ w \in Analyses /\ Exists(w) /\ worker.row \in Rows
        /\ rows[w].status = "processing"
        /\ Put(w, row) /\ results' = results \cup {w} /\ issued' = issued
    BY <1>7, WorkerKinds
    DEF IInv, Publish, SaveResult, WorkerAt, Waiting, JobsInv, RunKept, RunOwnsRow
  <2>2. row \in Rows /\ row # None /\ row.status = "completed"
    BY <2>1 DEF Rows, NoneAssumption
  <2> HIDE DEF row
  <2>3. Life' = [Life EXCEPT ![w] = "completed"]
    BY <1>2, <2>1, <2>2, LifeMoves
  <2>4. Lifecycle!Publish(w)
    BY <1>2, <2>1, <2>3 DEF Lifecycle!Publish, Lifecycle!Move
  <2> QED
    BY <2>1, <2>4 DEF Lifecycle!Next
<1>8. ASSUME Fail
      PROVE  Lifecycle!Next
  <2> DEFINE row == [worker.row EXCEPT !.status = "failed"]
  <2>1. /\ w \in Analyses /\ Exists(w) /\ worker.row \in Rows
        /\ rows[w].status = "processing"
        /\ Put(w, row) /\ results' = results /\ issued' = issued
    BY <1>8, WorkerKinds
    DEF IInv, Fail, MayFail, WorkerAt, Waiting, JobsInv, RunKept
  <2>2. row \in Rows /\ row # None /\ row.status = "failed"
    BY <2>1 DEF Rows, NoneAssumption
  <2> HIDE DEF row
  <2>3. Life' = [Life EXCEPT ![w] = "failed"]
    BY <1>2, <2>1, <2>2, LifeMoves
  <2>4. Lifecycle!Fail(w)
    BY <1>2, <2>1, <2>3 DEF Lifecycle!Fail, Lifecycle!Move
  <2> QED
    BY <2>1, <2>4 DEF Lifecycle!Next
<1>9. CASE UNCHANGED vars
  BY <1>9, <1>1 DEF vars, store
<1>10. ASSUME \/ TakeJob \/ ClaimFails \/ Infer \/ PublishFails \/ FailNothing
              \/ FailFails \/ Start \/ Stop \/ Stopped \/ Crash
       PROVE  UNCHANGED Lifecycle!lifecycle
  <2>1. UNCHANGED <<rows, issued, results>>
    BY <1>10 DEF TakeJob, ClaimFails, Infer, PublishFails, FailNothing, FailFails,
                 Start, Stop, Stopped, Crash, store
  <2> QED
    BY <2>1, <1>1
<1>11. ASSUME NEW h \in Handlers, Request(h) \/ Proceed(h)
       PROVE  Lifecycle!Next \/ UNCHANGED Lifecycle!lifecycle
  <2>1. ASSUME \/ \E key \in Keys, body \in Bodies : StartAgain(h, key, body)
               \/ \E a \in Analyses : DeleteAuthorize(h, a)
               \/ StartSubmit(h) \/ StartReply(h) \/ DeleteRefused(h)
        PROVE  UNCHANGED Lifecycle!lifecycle
    <3>1. UNCHANGED <<rows, issued, results>>
      BY <2>1 DEF StartAgain, DeleteAuthorize, StartSubmit, StartReply, DeleteRefused,
                  store
    <3> QED
      BY <3>1, <1>1
  <2> QED
    BY <1>11, <2>1, <1>3, <1>4 DEF Request, Proceed
<1> QED
  BY <1>5, <1>6, <1>7, <1>8, <1>9, <1>10, <1>11 DEF Next, Worker, AfterClaim

\* What a client sees of the jobs is the life of an analysis: accepted, worked
\* on, and one end, with a result exactly when it is completed.
THEOREM JobsFollowLifecycle == Spec => LifecycleSpec
<1>1. Init => Lifecycle!Init
  BY DEF Init, Lifecycle!Init, Life, Exists
<1> QED
  BY <1>1, JobsInvariant, StepIsLifecycle, PTL
  DEF Spec, LifecycleSpec, Lifecycle!Spec

=============================================================================
