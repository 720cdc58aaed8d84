------------------------ MODULE SchemaWorkspaceProofs ------------------------
(***************************************************************************)
(* Proofs about SchemaWorkspace, for any number of handlers, schemas,      *)
(* subjects, keys and changesets.  First its transactions: their types,    *)
(* the locks they hold and what they have checked.  Then the rows they     *)
(* leave: revisions and receipts form one chain per schema, what was       *)
(* acknowledged stays, retry rows answer, the outbox counts the changes,   *)
(* and all of it is one document per schema.                               *)
(***************************************************************************)
EXTENDS SchemaWorkspace, SequenceTheorems, TLAPS

-----------------------------------------------------------------------------
(* Transactions *)

\* What kind of record an open transaction is, by its use case.
LEMMA TxFields ==
    ASSUME NEW t \in TxRecords
    PROVE  /\ t.op \in {"none", "create", "apply", "delete", "deleteAnalysis"}
           /\ t.op = "none" => t = Idle
           /\ t.op = "create" => t \in DraftTxs
           /\ t.op = "apply" => t \in ChangesetTxs
           /\ t.op = "delete" => t \in DeleteTxs
           /\ t.op = "deleteAnalysis" => t \in DeleteAnalysisTxs
BY DEF TxRecords, Idle, DraftTxs, ChangesetTxs, DeleteTxs, DeleteAnalysisTxs

\* A transaction that moves on to a step of its use case is still one of them.
LEMMA TxSteps ==
    ASSUME NEW t \in TxRecords, NEW step
    PROVE  /\ t.op = "create" /\ step \in {"authorize", "manifest", "lock", "commit"}
                 => [t EXCEPT !.step = step] \in TxRecords
           /\ t.op = "apply" /\ step \in {"replay", "receipt", "lock", "commit"}
                 => [t EXCEPT !.step = step] \in TxRecords
           /\ t.op \in {"delete", "deleteAnalysis"} /\ step \in {"lock", "commit"}
                 => [t EXCEPT !.step = step] \in TxRecords
           /\ t.op = "apply" =>
                 \A n \in 0..MaxRevision :
                    [t EXCEPT !.step = "commit", !.current = n] \in TxRecords
BY TxFields DEF TxRecords, DraftTxs, ChangesetTxs, DeleteTxs, DeleteAnalysisTxs

-----------------------------------------------------------------------------
(* Locks *)

TxOK == tx \in [Handlers -> TxRecords]

\* A retry key and a row have one holder at a time.
RetryKeysHeld ==
    \A g, h \in Handlers :
        HoldsRetryKey(g) /\ HoldsRetryKey(h) /\ RetryKey(g) = RetryKey(h) => g = h
RowsHeld ==
    \A g, h \in Handlers :
        /\ tx[g].step = "commit" /\ tx[h].step = "commit"
        /\ LockedRow(g) = LockedRow(h)
        => g = h

LocksExclusive == RetryKeysHeld /\ RowsHeld

\* A step of one handler keeps the locks exclusive if that handler takes only
\* locks that are free.
LEMMA LocksKept ==
    ASSUME LocksExclusive, NEW h \in Handlers,
           \A g \in Handlers : g # h => tx'[g] = tx[g],
           HoldsRetryKey(h)' =>
              \/ HoldsRetryKey(h) /\ RetryKey(h)' = RetryKey(h)
              \/ RetryKeyFree(RetryKey(h)'),
           tx'[h].step = "commit" => RowFree(LockedRow(h)')
    PROVE  LocksExclusive'
<1>1. RetryKeysHeld'
  <2>1. \A g \in Handlers : g # h =>
           /\ HoldsRetryKey(g)' = HoldsRetryKey(g)
           /\ RetryKey(g)' = RetryKey(g)
    BY DEF HoldsRetryKey, RetryKey
  <2>2. ASSUME NEW g \in Handlers, g # h, HoldsRetryKey(g)', HoldsRetryKey(h)'
        PROVE  RetryKey(g)' # RetryKey(h)'
    BY <2>1, <2>2 DEF LocksExclusive, RetryKeysHeld, RetryKeyFree
  <2> QED
    BY <2>1, <2>2 DEF LocksExclusive, RetryKeysHeld
<1>2. RowsHeld'
  <2>1. \A g \in Handlers : g # h =>
           /\ tx'[g].step = tx[g].step
           /\ LockedRow(g)' = LockedRow(g)
    BY DEF LockedRow
  <2> QED
    BY <2>1 DEF LocksExclusive, RowsHeld, RowFree
<1> QED
  BY <1>1, <1>2 DEF LocksExclusive

\* Ending a transaction drops its locks.
LEMMA EndKeepsLocks ==
    ASSUME TxOK, LocksExclusive, NEW h \in Handlers, End(h)
    PROVE  TxOK' /\ LocksExclusive'
<1>1. TxOK' /\ tx'[h] = Idle /\ \A g \in Handlers : g # h => tx'[g] = tx[g]
  BY DEF TxOK, End, TxRecords
<1>2. ~ HoldsRetryKey(h)' /\ tx'[h].step # "commit"
  BY <1>1 DEF Idle, HoldsRetryKey
<1> QED
  BY <1>1, <1>2, LocksKept

\* Moving on to another step of the use case keeps its request.
LEMMA GotoKeepsLocks ==
    ASSUME TxOK, LocksExclusive, NEW h \in Handlers, NEW step,
           tx[h].op # "none", Goto(h, step),
           [tx[h] EXCEPT !.step = step] \in TxRecords,
           tx[h].op \in {"create", "apply"} =>
              HoldsRetryKey(h) \/ RetryKeyFree(RetryKey(h)),
           step = "commit" => RowFree(LockedRow(h))
    PROVE  TxOK' /\ LocksExclusive'
<1>1. /\ TxOK'
      /\ tx'[h] = [tx[h] EXCEPT !.step = step]
      /\ \A g \in Handlers : g # h => tx'[g] = tx[g]
  BY DEF TxOK, Goto
<1>2. tx[h] \in DraftTxs \cup ChangesetTxs \cup DeleteTxs \cup DeleteAnalysisTxs
  BY TxFields DEF TxOK
<1>3. /\ tx'[h].op = tx[h].op /\ tx'[h].step = step
      /\ tx[h].op \in {"create", "apply"} => RetryKey(h)' = RetryKey(h)
      /\ LockedRow(h)' = LockedRow(h)
  BY <1>1, <1>2 DEF RetryKey, LockedRow, DraftTxs, ChangesetTxs, DeleteTxs,
                    DeleteAnalysisTxs
<1>4. HoldsRetryKey(h)' => tx[h].op \in {"create", "apply"}
  BY <1>3 DEF HoldsRetryKey
<1> QED
  BY <1>1, <1>3, <1>4, LocksKept

LEMMA TxInvStep ==
    ASSUME WorkspaceAssumption, TxOK, LocksExclusive, [Next]_vars
    PROVE  TxOK' /\ LocksExclusive'
<1> USE DEF At
<1>1. CASE UNCHANGED vars
  BY <1>1 DEF vars, TxOK, LocksExclusive, RetryKeysHeld, RowsHeld, LockedRow,
              HoldsRetryKey, RetryKey
<1>2. ASSUME NEW h \in Handlers, Begin(h)
      PROVE  TxOK' /\ LocksExclusive'
  <2>1. ASSUME NEW u \in Subjects, NEW key \in Keys, NEW body \in DraftBodies,
               CreateReplay(h, u, key, body)
        PROVE  TxOK' /\ LocksExclusive'
    <3>1. PICK step \in {"authorize", "manifest"} :
             tx' = [tx EXCEPT ![h] = DraftTx(step, u, key, body)]
      BY <2>1 DEF CreateReplay
    <3>2. DraftTx(step, u, key, body) \in TxRecords
      BY DEF DraftTx, DraftTxs, TxRecords
    <3>3. TxOK' /\ tx'[h] = DraftTx(step, u, key, body)
                /\ \A g \in Handlers : g # h => tx'[g] = tx[g]
      BY <3>1, <3>2 DEF TxOK
    <3>4. RetryKeyFree(RetryKey(h)') /\ tx'[h].step # "commit"
      BY <2>1, <3>3 DEF CreateReplay, DraftTx, RetryKey
    <3> QED
      BY <3>3, <3>4, LocksKept
  <2>2. ASSUME NEW t \in TxRecords, tx' = [tx EXCEPT ![h] = t],
               t.op \notin {"create", "apply"} \/ t.step = "replay",
               t.step # "commit"
        PROVE  TxOK' /\ LocksExclusive'
    <3>1. TxOK' /\ tx'[h] = t /\ \A g \in Handlers : g # h => tx'[g] = tx[g]
      BY <2>2 DEF TxOK
    <3> QED
      BY <2>2, <3>1, LocksKept DEF HoldsRetryKey
  <2>3. ASSUME NEW u \in Subjects, NEW s \in Schemas, NEW m \in Mutations,
               NEW body \in ChangesetBodies, NEW ifMatch \in Etags(s),
               ApplyAuthorize(h, u, s, m, body, ifMatch)
        PROVE  TxOK' /\ LocksExclusive'
    <3>1. ChangesetTx("replay", u, s, m, body, ifMatch, 0) \in TxRecords
      BY WorkspaceAssumption
      DEF ChangesetTx, ChangesetTxs, TxRecords, Etags, AnyEtag, WorkspaceAssumption
    <3> QED
      BY <2>2, <2>3, <3>1 DEF ApplyAuthorize, ChangesetTx
  <2>4. ASSUME NEW u \in Subjects, NEW s \in Schemas, NEW ifMatch \in Etags(s),
               DeleteAuthorize(h, u, s, ifMatch)
        PROVE  TxOK' /\ LocksExclusive'
    <3>1. DeleteTx("lock", s, ifMatch) \in TxRecords
      BY DEF DeleteTx, DeleteTxs, TxRecords, Etags, AnyEtag
    <3> QED
      BY <2>2, <2>4, <3>1 DEF DeleteAuthorize, DeleteTx
  <2>5. ASSUME NEW u \in Subjects, NEW a \in Analyses,
               DeleteAnalysisAuthorize(h, u, a)
        PROVE  TxOK' /\ LocksExclusive'
    <3>1. DeleteAnalysisTx("lock", a) \in TxRecords
      BY DEF DeleteAnalysisTx, DeleteAnalysisTxs, TxRecords
    <3> QED
      BY <2>2, <2>5, <3>1 DEF DeleteAnalysisAuthorize, DeleteAnalysisTx
  <2> QED
    BY <1>2, <2>1, <2>3, <2>4, <2>5 DEF Begin
<1>3. ASSUME NEW h \in Handlers, Proceed(h)
      PROVE  TxOK' /\ LocksExclusive'
  <2>1. CASE End(h)
    BY <2>1, EndKeepsLocks
  <2>2. CASE CreateAuthorize(h) /\ Goto(h, "lock")
    BY <2>2, GotoKeepsLocks, TxSteps DEF CreateAuthorize, TxOK, HoldsRetryKey
  <2>3. CASE CreateLock(h) /\ Goto(h, "commit")
    BY <2>3, GotoKeepsLocks, TxSteps
    DEF CreateLock, TxOK, HoldsRetryKey, LockedRow
  <2>4. CASE ApplyReplay(h) /\ (Goto(h, "lock") \/ Goto(h, "receipt"))
    BY <2>4, GotoKeepsLocks, TxSteps DEF ApplyReplay, TxOK, HoldsRetryKey
  <2>5. CASE ApplyLock(h) /\ ~ End(h)
    <3>1. PICK n \in 0..MaxRevision :
             tx' = [tx EXCEPT ![h].step = "commit", ![h].current = n]
      <4>1. tx[h] \in ChangesetTxs /\ UpToDate(h, resources[tx[h].schema])
        BY <2>5, TxFields DEF ApplyLock, TxOK
      <4>2. resources[tx[h].schema].revision \in 0..MaxRevision
        BY <4>1 DEF UpToDate, ChangesetTxs, ChangesetBodies, WorkspaceAssumption
      <4> QED
        BY <2>5, <4>2 DEF ApplyLock
    <3>2. /\ tx'[h] = [tx[h] EXCEPT !.step = "commit", !.current = n]
          /\ \A g \in Handlers : g # h => tx'[g] = tx[g]
          /\ TxOK'
      BY <2>5, <3>1, TxSteps DEF ApplyLock, TxOK
    <3>3. tx[h] \in ChangesetTxs
      BY <2>5, TxFields DEF ApplyLock, TxOK
    <3>4. /\ HoldsRetryKey(h) /\ RetryKey(h)' = RetryKey(h)
          /\ LockedRow(h)' = <<"schema", tx[h].schema>>
      BY <2>5, <3>2, <3>3
      DEF ApplyLock, HoldsRetryKey, RetryKey, LockedRow, ChangesetTxs
    <3> QED
      BY <2>5, <3>2, <3>4, LocksKept DEF ApplyLock
  <2>6. CASE DeleteLock(h) /\ Goto(h, "commit")
    BY <2>6, GotoKeepsLocks, TxSteps
    DEF DeleteLock, TxOK, HoldsRetryKey, LockedRow
  <2>7. CASE DeleteAnalysisLock(h) /\ Goto(h, "commit")
    BY <2>7, GotoKeepsLocks, TxSteps
    DEF DeleteAnalysisLock, TxOK, HoldsRetryKey, LockedRow
  <2> QED
    BY <1>3, <2>1, <2>2, <2>3, <2>4, <2>5, <2>6, <2>7
    DEF Proceed, CreateReturnsManifest, CreateAuthorize, CreateLock, CreateCommit,
        ApplyReplay, ApplyReturnsReceipt, ApplyLock, ApplyCommit, DeleteLock,
        DeleteCommit, DeleteAnalysisLock, DeleteAnalysisCommit
<1>4. ASSUME NEW h \in Handlers, Abort(h)
      PROVE  TxOK' /\ LocksExclusive'
  BY <1>4, EndKeepsLocks DEF Abort
<1>5. ASSUME NEW a \in Analyses, FinishAnalysis(a)
      PROVE  TxOK' /\ LocksExclusive'
  BY <1>5 DEF FinishAnalysis, TxOK, LocksExclusive, RetryKeysHeld, RowsHeld,
              LockedRow, HoldsRetryKey, RetryKey
<1> QED
  BY <1>1, <1>2, <1>3, <1>4, <1>5 DEF Next

-----------------------------------------------------------------------------
(* The inductive invariant *)

\* One row per schema and revision, none of a schema that is gone or of a
\* revision to come, and the latest revision of every schema among them.
RevisionsKept ==
    /\ \A q, r \in revisions :
          q.schema = r.schema /\ q.revision = r.revision => q = r
    /\ \A r \in revisions :
          Live(r.schema) /\ r.revision <= resources[r.schema].revision
    /\ \A s \in Schemas : Live(s) =>
          /\ s \in issued
          /\ \E r \in revisions :
                r.schema = s /\ r.revision = resources[s].revision

\* Every receipt has the retry row that was committed with it.
ReceiptsRemembered ==
    \A r \in receipts :
        \E k \in idempotency :
            k.scope = ChangesetScope(r.schema) /\ k.key = r.mutation

\* While a transaction holds a retry key it found unused, nobody uses it.
KeysStayUnused ==
    \A h \in Handlers :
        HoldsRetryKey(h) /\ tx[h].step \notin {"manifest", "receipt"} =>
            \A r \in idempotency : <<r.scope, r.key>> # RetryKey(h)

IInv ==
    /\ TypeOK
    /\ LocksExclusive
    /\ RevisionsKept
    /\ ReceiptsRemembered
    /\ KeysStayUnused
    /\ CheckedRowsHold

\* CheckedRowsHold for one handler.
Checked(h) ==
    /\ At(h, "create", "commit") =>
          LET row == analyses[tx[h].body.analysis] IN
          /\ row # None
          /\ row.status = "completed"
          /\ tx[h].body.alternative \in row.alternatives
    /\ At(h, "apply", "commit") =>
          LET s == tx[h].schema IN
          /\ Live(s)
          /\ resources[s].revision = tx[h].current
          /\ tx[h].body.base = tx[h].current
          /\ Accepts(GraphAt(s, tx[h].current), tx[h].body.operations)
    /\ At(h, "delete", "commit") =>
          /\ Live(tx[h].schema)
          /\ tx[h].ifMatch = <<tx[h].schema, resources[tx[h].schema].revision>>
    /\ At(h, "deleteAnalysis", "commit") => analyses[tx[h].analysis] # None

LEMMA CheckedAll == CheckedRowsHold <=> \A h \in Handlers : Checked(h)
BY DEF CheckedRowsHold, Checked

\* GraphAt reads the one row there is.
LEMMA GraphOfRow ==
    ASSUME NEW R, NEW s, NEW n, NEW r \in R, r.schema = s, r.revision = n,
           \A x, y \in R : x.schema = y.schema /\ x.revision = y.revision => x = y
    PROVE  (CHOOSE x \in R : x.schema = s /\ x.revision = n).graph = r.graph
OBVIOUS

\* A step that only reads the store keeps the invariant, if the handler's
\* retry key is unused and its checks are true when it passes them.
LEMMA ReadStep ==
    ASSUME IInv, TxOK', LocksExclusive', NEW h \in Handlers,
           UNCHANGED <<store, analyses>>, acks' \subseteq acks \cup receipts,
           \A g \in Handlers : g # h => tx'[g] = tx[g],
           HoldsRetryKey(h)' /\ tx'[h].step \notin {"manifest", "receipt"} =>
              \A r \in idempotency : <<r.scope, r.key>> # RetryKey(h)',
           tx'[h].step = "commit" => Checked(h)'
    PROVE  IInv'
<1> USE DEF store
<1>1. TypeOK'
  BY DEF IInv, TypeOK, TxOK
<1>2. RevisionsKept' /\ ReceiptsRemembered'
  BY DEF IInv, RevisionsKept, ReceiptsRemembered, Live
<1>3. KeysStayUnused'
  BY DEF IInv, KeysStayUnused, HoldsRetryKey, RetryKey
<1>4. CheckedRowsHold'
  <2>1. ASSUME NEW g \in Handlers, g # h
        PROVE  Checked(g)'
    BY <2>1, CheckedAll DEF IInv, Checked, At, Live, GraphAt
  <2>2. Checked(h)'
    BY DEF Checked, At
  <2> QED
    BY <2>1, <2>2 DEF CheckedRowsHold, Checked
<1> QED
  BY <1>1, <1>2, <1>3, <1>4 DEF IInv

\* Every action that only reads the store satisfies ReadStep's conditions.
LEMMA ReadActions ==
    ASSUME IInv, TxOK', LocksExclusive', NEW h \in Handlers,
           \/ Begin(h) \/ Abort(h)
           \/ CreateReturnsManifest(h) \/ CreateAuthorize(h) \/ CreateLock(h)
           \/ ApplyReplay(h) \/ ApplyReturnsReceipt(h) \/ ApplyLock(h)
           \/ DeleteLock(h) \/ DeleteAnalysisLock(h)
    PROVE  IInv'
<1> USE DEF At
<1>1. tx \in [Handlers -> TxRecords]
  BY DEF IInv, TypeOK
<1>2. CASE End(h) /\ UNCHANGED <<store, analyses>> /\ acks' \subseteq acks \cup receipts
  <2>1. tx'[h] = Idle /\ \A g \in Handlers : g # h => tx'[g] = tx[g]
    BY <1>1, <1>2 DEF End
  <2> QED
    BY <1>2, <2>1, ReadStep DEF Idle, HoldsRetryKey
<1>3. ASSUME NEW u \in Subjects, NEW key \in Keys, NEW body \in DraftBodies,
             CreateReplay(h, u, key, body)
      PROVE  IInv'
  <2>1. PICK step \in {"authorize", "manifest"} :
           /\ tx' = [tx EXCEPT ![h] = DraftTx(step, u, key, body)]
           /\ step = "authorize" => Remembered(DraftScope(u), key) = {}
    BY <1>3 DEF CreateReplay
  <2>2. tx'[h] = DraftTx(step, u, key, body)
        /\ \A g \in Handlers : g # h => tx'[g] = tx[g]
    BY <1>1, <2>1
  <2>3. step = "authorize" =>
           \A r \in idempotency : <<r.scope, r.key>> # RetryKey(h)'
    BY <2>1, <2>2 DEF Remembered, RetryKey, DraftTx
  <2> QED
    BY <1>3, <2>2, <2>3, ReadStep DEF CreateReplay, DraftTx
<1>4. ASSUME NEW t, tx' = [tx EXCEPT ![h] = t], UNCHANGED <<store, analyses, acks>>,
             t.op \in {"apply", "delete", "deleteAnalysis"},
             t.step \in {"replay", "lock"}, t.op = "apply" => t.step = "replay"
      PROVE  IInv'
  <2>1. tx'[h] = t /\ \A g \in Handlers : g # h => tx'[g] = tx[g]
    BY <1>1, <1>4
  <2> QED
    BY <1>4, <2>1, ReadStep DEF HoldsRetryKey
<1>5. CASE Begin(h)
  <2>1. ASSUME NEW u \in Subjects, NEW s \in Schemas, NEW m \in Mutations,
               NEW body \in ChangesetBodies, NEW ifMatch \in Etags(s),
               ApplyAuthorize(h, u, s, m, body, ifMatch)
        PROVE  IInv'
    BY <1>4, <2>1 DEF ApplyAuthorize, ChangesetTx
  <2>2. ASSUME NEW u \in Subjects, NEW s \in Schemas, NEW ifMatch \in Etags(s),
               DeleteAuthorize(h, u, s, ifMatch)
        PROVE  IInv'
    BY <1>4, <2>2 DEF DeleteAuthorize, DeleteTx
  <2>3. ASSUME NEW u \in Subjects, NEW a \in Analyses,
               DeleteAnalysisAuthorize(h, u, a)
        PROVE  IInv'
    BY <1>4, <2>3 DEF DeleteAnalysisAuthorize, DeleteAnalysisTx
  <2> QED
    BY <1>3, <1>5, <2>1, <2>2, <2>3 DEF Begin
<1>6. ASSUME NEW step, Goto(h, step), UNCHANGED <<store, analyses, acks>>,
             tx[h].op # "none",
             step = "commit" => Checked(h)',
             tx[h].op \in {"create", "apply"} /\ step # "receipt" =>
                 \A r \in idempotency : <<r.scope, r.key>> # RetryKey(h)
      PROVE  IInv'
  <2>1. /\ tx'[h] = [tx[h] EXCEPT !.step = step]
        /\ \A g \in Handlers : g # h => tx'[g] = tx[g]
    BY <1>1, <1>6 DEF Goto
  <2>2. tx[h] \in DraftTxs \cup ChangesetTxs \cup DeleteTxs \cup DeleteAnalysisTxs
    BY <1>1, <1>6, TxFields
  <2>3. /\ tx'[h].op = tx[h].op /\ tx'[h].step = step
        /\ tx[h].op \in {"create", "apply"} => RetryKey(h)' = RetryKey(h)
    BY <2>1, <2>2 DEF RetryKey, DraftTxs, ChangesetTxs, DeleteTxs, DeleteAnalysisTxs
  <2>4. HoldsRetryKey(h)' => tx[h].op \in {"create", "apply"}
    BY <2>3 DEF HoldsRetryKey
  <2> QED
    BY <1>6, <2>1, <2>3, <2>4, ReadStep
<1>7. CASE CreateAuthorize(h) /\ Goto(h, "lock")
  BY <1>6, <1>7 DEF CreateAuthorize, IInv, KeysStayUnused, HoldsRetryKey
<1>8. CASE CreateLock(h) /\ Goto(h, "commit")
  <2>1. tx[h] \in DraftTxs /\ tx'[h] = [tx[h] EXCEPT !.step = "commit"]
    BY <1>1, <1>8, TxFields DEF CreateLock, Goto
  <2>2. Checked(h)' \/ End(h)
    BY <1>8, <2>1 DEF CreateLock, Checked, DraftTxs
  <2> QED
    BY <1>2, <1>6, <1>8, <2>2
    DEF CreateLock, IInv, KeysStayUnused, HoldsRetryKey
<1>9. CASE ApplyReplay(h) /\ ~ End(h)
  <2>1. \/ Goto(h, "receipt")
        \/ /\ Goto(h, "lock")
           /\ Remembered(ChangesetScope(tx[h].schema), tx[h].key) = {}
    BY <1>9 DEF ApplyReplay
  <2> QED
    BY <1>6, <1>9, <2>1 DEF ApplyReplay, Remembered, RetryKey
<1>10. CASE ApplyLock(h) /\ ~ End(h)
  <2> DEFINE s == tx[h].schema
             n == resources[s].revision
  <2>1. tx[h] \in ChangesetTxs
    BY <1>1, <1>10, TxFields DEF ApplyLock
  <2>2. /\ tx'[h] = [tx[h] EXCEPT !.step = "commit", !.current = n]
        /\ \A g \in Handlers : g # h => tx'[g] = tx[g]
    BY <1>1, <1>10 DEF ApplyLock
  <2>3. /\ tx'[h].op = "apply" /\ tx'[h].schema = s /\ tx'[h].current = n
        /\ tx'[h].body = tx[h].body /\ RetryKey(h)' = RetryKey(h)
    BY <2>1, <2>2 DEF ChangesetTxs, RetryKey
  <2>4. Checked(h)'
    BY <1>10, <2>3 DEF ApplyLock, Checked, UpToDate, Live, GraphAt, store
  <2>5. \A r \in idempotency : <<r.scope, r.key>> # RetryKey(h)'
    BY <1>10, <2>3 DEF ApplyLock, IInv, KeysStayUnused, HoldsRetryKey
  <2> QED
    BY <1>10, <2>2, <2>4, <2>5, ReadStep DEF ApplyLock
<1>11. CASE DeleteLock(h) /\ Goto(h, "commit")
  <2>1. tx[h] \in DeleteTxs /\ tx'[h] = [tx[h] EXCEPT !.step = "commit"]
    BY <1>1, <1>11, TxFields DEF DeleteLock, Goto
  <2>2. Checked(h)' \/ End(h)
    BY <1>11, <2>1 DEF DeleteLock, Checked, DeleteTxs, Live, store
  <2> QED
    BY <1>2, <1>6, <1>11, <2>2 DEF DeleteLock
<1>12. CASE DeleteAnalysisLock(h) /\ Goto(h, "commit")
  <2>1. tx[h] \in DeleteAnalysisTxs /\ tx'[h] = [tx[h] EXCEPT !.step = "commit"]
    BY <1>1, <1>12, TxFields DEF DeleteAnalysisLock, Goto
  <2>2. Checked(h)' \/ End(h)
    BY <1>12, <2>1 DEF DeleteAnalysisLock, Checked, DeleteAnalysisTxs
  <2> QED
    BY <1>2, <1>6, <1>12, <2>2 DEF DeleteAnalysisLock
<1> QED
  BY <1>2, <1>5, <1>7, <1>8, <1>9, <1>10, <1>11, <1>12
  DEF Abort, CreateReturnsManifest, CreateAuthorize, CreateLock, ApplyReplay,
      ApplyReturnsReceipt, ApplyLock, DeleteLock, DeleteAnalysisLock

-----------------------------------------------------------------------------
(* The writes *)

\* A snapshot that stays is read the same way before and after a step.
LEMMA GraphStable ==
    ASSUME RevisionsKept, RevisionsKept', NEW s, NEW n,
           NEW r \in revisions, r \in revisions', r.schema = s, r.revision = n
    PROVE  GraphAt(s, n)' = GraphAt(s, n)
<1>1. GraphAt(s, n) = r.graph
  BY GraphOfRow DEF RevisionsKept, GraphAt
<1>2. GraphAt(s, n)' = r.graph
  BY GraphOfRow DEF RevisionsKept, GraphAt
<1> QED
  BY <1>1, <1>2

\* A write to schema s leaves the checks of a transaction on another one true.
LEMMA OtherSchemaChecks ==
    ASSUME IInv, RevisionsKept', NEW s \in Schemas, NEW g \in Handlers,
           tx'[g] = tx[g], analyses' = analyses,
           \A x \in Schemas : x # s => resources'[x] = resources[x],
           \A r \in revisions : r.schema # s => r \in revisions',
           tx[g].step = "commit" /\ tx[g].op \in {"apply", "delete"} =>
              tx[g].schema # s
    PROVE  Checked(g)'
<1> USE DEF At
<1>1. Checked(g) /\ tx[g] \in TxRecords
  BY CheckedAll DEF IInv, TypeOK
<1>2. ASSUME tx[g].op = "apply", tx[g].step = "commit"
      PROVE  Checked(g)'
  <2>1. PICK x \in Schemas, n \in Nat : x = tx[g].schema /\ n = tx[g].current
    BY <1>1, <1>2, TxFields, WorkspaceAssumption
    DEF ChangesetTxs, WorkspaceAssumption
  <2>2. Live(x) /\ x # s /\ resources[x].revision = n
    BY <1>1, <1>2, <2>1 DEF Checked
  <2>3. GraphAt(x, n)' = GraphAt(x, n)
    <3>1. PICK r \in revisions : r.schema = x /\ r.revision = n
      BY <2>2 DEF IInv, RevisionsKept
    <3> QED
      BY <2>2, <3>1, GraphStable DEF IInv
  <2> QED
    BY <1>1, <1>2, <2>1, <2>2, <2>3 DEF Checked, Live
<1>3. tx[g].op = "delete" => tx[g].schema \in Schemas
  BY <1>1, TxFields DEF DeleteTxs
<1> QED
  BY <1>1, <1>2, <1>3 DEF Checked, Live

\* A transaction that ends can only have used up its own retry key.
LEMMA KeysKept ==
    ASSUME IInv, NEW h \in Handlers, tx'[h] = Idle,
           \A g \in Handlers : g # h => tx'[g] = tx[g],
           \A r \in idempotency' :
              \/ r \in idempotency
              \/ HoldsRetryKey(h) /\ <<r.scope, r.key>> = RetryKey(h)
    PROVE  KeysStayUnused'
<1>1. \A g \in Handlers : g # h =>
         HoldsRetryKey(g)' = HoldsRetryKey(g) /\ RetryKey(g)' = RetryKey(g)
  BY DEF HoldsRetryKey, RetryKey
<1>2. \A g \in Handlers :
         g # h /\ HoldsRetryKey(g) /\ HoldsRetryKey(h) => RetryKey(g) # RetryKey(h)
  BY DEF IInv, LocksExclusive, RetryKeysHeld
<1>3. ~ HoldsRetryKey(h)'
  BY DEF HoldsRetryKey, Idle
<1> QED
  BY <1>1, <1>2, <1>3 DEF IInv, KeysStayUnused

LEMMA CreateCommitStep ==
    ASSUME IInv, TxOK', LocksExclusive', NEW h \in Handlers, CreateCommit(h)
    PROVE  IInv'
<1> USE DEF At
<1>1. PICK s \in Schemas \ issued :
         /\ issued' = issued \cup {s}
         /\ resources' = [resources EXCEPT
               ![s] = [revision |-> 1, owner |-> tx[h].subject]]
         /\ SaveRevision(s, 1, [origin |-> tx[h].body.alternative, edits |-> <<>>])
         /\ idempotency' = idempotency \cup
               {[scope |-> DraftScope(tx[h].subject), key |-> tx[h].key,
                 digest |-> tx[h].body, resource |-> s]}
         /\ RecordChange("schema", s, FALSE)
         /\ UNCHANGED <<receipts, analyses, acks>>
  BY DEF CreateCommit
<1>2. /\ tx[h] \in DraftTxs /\ tx[h].step = "commit" /\ tx[h].op = "create"
      /\ tx'[h] = Idle /\ \A g \in Handlers : g # h => tx'[g] = tx[g]
  BY TxFields DEF CreateCommit, IInv, TypeOK, End
<1>3. ~ Live(s) /\ ~ \E r \in revisions : r.schema = s
  BY <1>1 DEF IInv, RevisionsKept, Live
<1>4. TypeOK'
  <2>1. resources' \in [Schemas -> SchemaRows \cup {None}] /\ issued' \subseteq Schemas
    BY <1>1, <1>2 DEF IInv, TypeOK, SchemaRows, DraftTxs
  <2>2. revisions' \subseteq RevisionRows
    <3>1. [origin |-> tx[h].body.alternative, edits |-> <<>>] \in Graphs
      BY <1>2 DEF DraftTxs, DraftBodies, Graphs
    <3> QED
      BY <1>1, <3>1 DEF IInv, TypeOK, RevisionRows, SaveRevision
  <2>3. idempotency' \subseteq IdempotencyRows
    BY <1>1, <1>2 DEF IInv, TypeOK, IdempotencyRows, DraftTxs
  <2>4. changes' \in [({"schema"} \X Schemas) \cup ({"analysis"} \X Analyses)
                         -> Seq(BOOLEAN)]
    BY <1>1 DEF IInv, TypeOK, RecordChange
  <2> QED
    BY <1>1, <2>1, <2>2, <2>3, <2>4 DEF IInv, TypeOK, TxOK
<1>5. /\ Live(s)' /\ resources'[s].revision = 1
      /\ \A x \in Schemas : x # s => resources'[x] = resources[x]
  BY <1>1, <1>2, NoneAssumption
  DEF IInv, TypeOK, Live, SchemaRows, DraftTxs
<1>6. RevisionsKept'
  <2>1. \A r \in revisions : r \in revisions' /\ r.schema \in Schemas /\ r.schema # s
    BY <1>1, <1>3 DEF SaveRevision, IInv, TypeOK, RevisionRows
  <2>2. \A r \in revisions' : r \in revisions \/ (r.schema = s /\ r.revision = 1)
    BY <1>1 DEF SaveRevision
  <2>3. \A q, r \in revisions' :
           q.schema = r.schema /\ q.revision = r.revision => q = r
    BY <1>1, <2>1 DEF SaveRevision, IInv, RevisionsKept
  <2>4. \A r \in revisions' :
           Live(r.schema)' /\ r.revision <= resources'[r.schema].revision
    BY <1>5, <2>1, <2>2 DEF IInv, RevisionsKept, Live
  <2>5. ASSUME NEW x \in Schemas, Live(x)'
        PROVE  /\ x \in issued'
               /\ \E r \in revisions' :
                     r.schema = x /\ r.revision = resources'[x].revision
    <3>1. CASE x = s
      <4>1. [schema |-> s, revision |-> 1,
             graph |-> [origin |-> tx[h].body.alternative, edits |-> <<>>]]
               \in revisions'
        BY <1>1 DEF SaveRevision
      <4> QED
        BY <1>1, <1>5, <3>1, <4>1
    <3>2. CASE x # s
      BY <1>1, <1>5, <2>1, <2>5, <3>2 DEF IInv, RevisionsKept, Live
    <3> QED
      BY <3>1, <3>2
  <2> QED
    BY <2>3, <2>4, <2>5 DEF RevisionsKept
<1>7. ReceiptsRemembered'
  BY <1>1 DEF IInv, ReceiptsRemembered
<1>8. KeysStayUnused'
  <2>1. HoldsRetryKey(h) /\ RetryKey(h) = <<DraftScope(tx[h].subject), tx[h].key>>
    BY <1>2 DEF HoldsRetryKey, RetryKey
  <2>2. \A r \in idempotency' :
           r \in idempotency \/ <<r.scope, r.key>> = RetryKey(h)
    BY <1>1, <2>1
  <2> QED
    BY <1>2, <2>1, <2>2, KeysKept
<1>9. CheckedRowsHold'
  <2>1. ASSUME NEW g \in Handlers, g # h PROVE Checked(g)'
    <3>1. tx[g].step = "commit" /\ tx[g].op \in {"apply", "delete"} =>
             tx[g].schema # s
      BY <1>3, CheckedAll DEF IInv, Checked
    <3>2. \A r \in revisions : r \in revisions'
      BY <1>1 DEF SaveRevision
    <3> QED
      BY <1>1, <1>2, <1>5, <1>6, <2>1, <3>1, <3>2, OtherSchemaChecks
  <2>2. Checked(h)'
    BY <1>2 DEF Checked, Idle
  <2> QED
    BY <2>1, <2>2 DEF CheckedRowsHold, Checked
<1> QED
  BY <1>4, <1>6, <1>7, <1>8, <1>9 DEF IInv

LEMMA ApplyCommitStep ==
    ASSUME IInv, TxOK', LocksExclusive', NEW h \in Handlers, ApplyCommit(h)
    PROVE  IInv'
<1> USE DEF At
<1>1. PICK s \in Schemas, n \in Nat : s = tx[h].schema /\ n = tx[h].current
  BY TxFields, WorkspaceAssumption
  DEF ApplyCommit, IInv, TypeOK, ChangesetTxs, WorkspaceAssumption
<1> DEFINE receipt == [schema |-> s, mutation |-> tx[h].key,
                       base |-> tx[h].body.base, revision |-> n + 1]
           retry == [scope |-> ChangesetScope(s), key |-> tx[h].key,
                     digest |-> tx[h].body, resource |-> tx[h].key]
           row == [schema |-> s, revision |-> n + 1, graph |-> Edited(h)]
<1>2. /\ tx[h] \in ChangesetTxs /\ tx[h].step = "commit" /\ tx[h].op = "apply"
      /\ tx'[h] = Idle /\ \A g \in Handlers : g # h => tx'[g] = tx[g]
  BY TxFields DEF ApplyCommit, IInv, TypeOK, End
<1>3. /\ revisions' = revisions \cup {row}
      /\ resources' = [resources EXCEPT ![s].revision = n + 1]
      /\ receipts' = receipts \cup {receipt}
      /\ idempotency' = idempotency \cup {retry}
      /\ RecordChange("schema", s, FALSE)
      /\ acks' = acks \cup {receipt}
      /\ UNCHANGED <<analyses, issued>>
  BY <1>1 DEF ApplyCommit, SaveRevision
<1>4. /\ Live(s) /\ resources[s] \in SchemaRows /\ resources[s].revision = n
      /\ tx[h].body.base = n
  BY <1>1, <1>2, CheckedAll DEF IInv, Checked, TypeOK, Live
<1>5. /\ Live(s)' /\ resources'[s].revision = n + 1
      /\ resources'[s] \in SchemaRows
      /\ \A x \in Schemas : x # s => resources'[x] = resources[x]
  BY <1>3, <1>4, NoneAssumption DEF IInv, TypeOK, Live, SchemaRows
<1>6. TypeOK'
  <2>1. Edited(h) \in Graphs
    <3>1. PICK r \in revisions : r.schema = s /\ r.revision = n
      BY <1>4 DEF IInv, RevisionsKept
    <3>2. GraphAt(s, n) = r.graph
      BY <3>1, GraphOfRow DEF IInv, RevisionsKept, GraphAt
    <3>3. GraphAt(s, n) \in Graphs
      BY <3>1, <3>2 DEF IInv, TypeOK, RevisionRows
    <3>4. [mutation |-> tx[h].key, operations |-> tx[h].body.operations] \in Edits
      BY <1>2 DEF ChangesetTxs, ChangesetBodies, Edits
    <3>5. Append(GraphAt(s, n).edits, [mutation |-> tx[h].key,
                   operations |-> tx[h].body.operations]) \in Seq(Edits)
      BY <3>3, <3>4 DEF Graphs
    <3> QED
      BY <1>1, <3>3, <3>5 DEF Edited, Graphs
  <2>2. revisions' \subseteq RevisionRows
    BY <1>3, <2>1 DEF IInv, TypeOK, RevisionRows
  <2>3. resources' \in [Schemas -> SchemaRows \cup {None}]
    BY <1>3, <1>5 DEF IInv, TypeOK
  <2>4. receipt \in ReceiptRows
    BY <1>2, <1>4 DEF ReceiptRows, ChangesetTxs
  <2>5. retry \in IdempotencyRows
    BY <1>2 DEF IdempotencyRows, ChangesetTxs
  <2>6. changes' \in [({"schema"} \X Schemas) \cup ({"analysis"} \X Analyses)
                         -> Seq(BOOLEAN)]
    BY <1>3 DEF IInv, TypeOK, RecordChange
  <2> QED
    BY <1>3, <2>2, <2>3, <2>4, <2>5, <2>6 DEF IInv, TypeOK, TxOK
<1>7. RevisionsKept'
  <2>1. \A r \in revisions : r.schema = s => r.revision <= n
    BY <1>4 DEF IInv, RevisionsKept
  <2>2. \A q, r \in revisions' :
           q.schema = r.schema /\ q.revision = r.revision => q = r
    BY <1>3, <2>1 DEF IInv, RevisionsKept
  <2>3. \A r \in revisions' :
           Live(r.schema)' /\ r.revision <= resources'[r.schema].revision
    <3>1. ASSUME NEW r \in revisions
          PROVE  Live(r.schema)' /\ r.revision <= resources'[r.schema].revision
      <4>1. r.schema \in Schemas /\ r.revision \in Nat
        BY DEF IInv, TypeOK, RevisionRows
      <4> QED
        BY <1>5, <2>1, <4>1 DEF IInv, RevisionsKept, Live
    <3> QED
      BY <1>3, <1>5, <3>1
  <2>4. ASSUME NEW x \in Schemas, Live(x)'
        PROVE  /\ x \in issued'
               /\ \E r \in revisions' :
                     r.schema = x /\ r.revision = resources'[x].revision
    <3>1. CASE x = s
      <4>1. row \in revisions' /\ row.schema = s /\ row.revision = n + 1
        BY <1>3
      <4>2. s \in issued'
        BY <1>3, <1>4 DEF IInv, RevisionsKept
      <4> QED
        BY <1>5, <3>1, <4>1, <4>2
    <3>2. CASE x # s
      BY <1>3, <1>5, <2>4, <3>2 DEF IInv, RevisionsKept, Live
    <3> QED
      BY <3>1, <3>2
  <2> QED
    BY <2>2, <2>3, <2>4 DEF RevisionsKept
<1>8. ReceiptsRemembered'
  <2>1. retry \in idempotency' /\ retry.scope = ChangesetScope(receipt.schema)
           /\ retry.key = receipt.mutation
    BY <1>3
  <2>2. \A r \in receipts : \E k \in idempotency' :
           k.scope = ChangesetScope(r.schema) /\ k.key = r.mutation
    BY <1>3 DEF IInv, ReceiptsRemembered
  <2> QED
    BY <1>3, <2>1, <2>2 DEF ReceiptsRemembered
<1>9. KeysStayUnused'
  <2>1. HoldsRetryKey(h) /\ RetryKey(h) = <<ChangesetScope(s), tx[h].key>>
    BY <1>1, <1>2 DEF HoldsRetryKey, RetryKey
  <2>2. \A r \in idempotency' :
           r \in idempotency \/ <<r.scope, r.key>> = RetryKey(h)
    BY <1>3, <2>1
  <2> QED
    BY <1>2, <2>1, <2>2, KeysKept
<1>10. CheckedRowsHold'
  <2>1. ASSUME NEW g \in Handlers, g # h PROVE Checked(g)'
    <3>1. tx[g].step = "commit" /\ tx[g].op \in {"apply", "delete"} =>
             tx[g].schema # s
      BY <1>1, <1>2, <2>1 DEF IInv, LocksExclusive, RowsHeld, LockedRow
    <3> QED
      BY <1>2, <1>3, <1>5, <1>7, <2>1, <3>1, OtherSchemaChecks
  <2>2. Checked(h)'
    BY <1>2 DEF Checked, Idle
  <2> QED
    BY <2>1, <2>2 DEF CheckedRowsHold, Checked
<1> QED
  BY <1>6, <1>7, <1>8, <1>9, <1>10 DEF IInv

LEMMA DeleteCommitStep ==
    ASSUME IInv, TxOK', LocksExclusive', NEW h \in Handlers, DeleteCommit(h)
    PROVE  IInv'
<1> USE DEF At
<1>1. PICK s \in Schemas : s = tx[h].schema
  BY TxFields DEF DeleteCommit, IInv, TypeOK, DeleteTxs
<1>2. /\ tx[h].step = "commit" /\ tx[h].op = "delete"
      /\ tx'[h] = Idle /\ \A g \in Handlers : g # h => tx'[g] = tx[g]
  BY DEF DeleteCommit, IInv, TypeOK, End
<1>3. /\ revisions' = {r \in revisions : r.schema # s}
      /\ receipts' = {r \in receipts : r.schema # s}
      /\ idempotency' = idempotency \ RetryRowsOf(s)
      /\ resources' = [resources EXCEPT ![s] = None]
      /\ RecordChange("schema", s, TRUE)
      /\ UNCHANGED <<analyses, issued, acks>>
  BY <1>1 DEF DeleteCommit
<1>4. \A x \in Schemas : x # s => resources'[x] = resources[x]
  BY <1>3 DEF IInv, TypeOK
<1>5. resources'[s] = None
  BY <1>3 DEF IInv, TypeOK
<1>6. TypeOK'
  <2>1. resources' \in [Schemas -> SchemaRows \cup {None}]
    BY <1>3 DEF IInv, TypeOK
  <2>2. changes' \in [({"schema"} \X Schemas) \cup ({"analysis"} \X Analyses)
                         -> Seq(BOOLEAN)]
    BY <1>3 DEF IInv, TypeOK, RecordChange
  <2> QED
    BY <1>3, <2>1, <2>2 DEF IInv, TypeOK, TxOK
<1>7. RevisionsKept'
  <2>1. \A r \in revisions : r.schema \in Schemas
    BY DEF IInv, TypeOK, RevisionRows
  <2> QED
    BY <1>3, <1>4, <1>5, <2>1 DEF IInv, RevisionsKept, Live
<1>8. ReceiptsRemembered'
  <2>1. ASSUME NEW r \in receipts, r.schema # s, NEW k \in idempotency,
               k.scope = ChangesetScope(r.schema)
        PROVE  k \in idempotency'
    BY <1>3, <2>1 DEF RetryRowsOf, ChangesetScope
  <2> QED
    BY <1>3, <2>1 DEF IInv, ReceiptsRemembered
<1>9. KeysStayUnused'
  BY <1>2, <1>3, KeysKept
<1>10. CheckedRowsHold'
  <2>1. ASSUME NEW g \in Handlers, g # h PROVE Checked(g)'
    <3>1. tx[g].step = "commit" /\ tx[g].op \in {"apply", "delete"} =>
             tx[g].schema # s
      BY <1>1, <1>2, <2>1 DEF IInv, LocksExclusive, RowsHeld, LockedRow
    <3> QED
      BY <1>2, <1>3, <1>4, <1>7, <2>1, <3>1, OtherSchemaChecks
  <2>2. Checked(h)'
    BY <1>2 DEF Checked, Idle
  <2> QED
    BY <2>1, <2>2 DEF CheckedRowsHold, Checked
<1> QED
  BY <1>6, <1>7, <1>8, <1>9, <1>10 DEF IInv

\* A write to the row of analysis a by a transaction that holds it, or while
\* nobody does, leaves the checks of the others true.
LEMMA OtherAnalysisChecks ==
    ASSUME IInv, UNCHANGED <<resources, revisions>>, NEW g \in Handlers,
           NEW a \in Analyses, tx'[g] = tx[g],
           \A x \in Analyses : x # a => analyses'[x] = analyses[x],
           tx[g].step = "commit" => LockedRow(g) # <<"analysis", a>>
    PROVE  Checked(g)'
<1>1. Checked(g) /\ tx[g] \in TxRecords
  BY CheckedAll DEF IInv, TypeOK
<1>2. At(g, "create", "commit") =>
         tx[g].body.analysis \in Analyses /\ tx[g].body.analysis # a
  BY <1>1, TxFields DEF At, LockedRow, DraftTxs, DraftBodies
<1>3. At(g, "deleteAnalysis", "commit") =>
         tx[g].analysis \in Analyses /\ tx[g].analysis # a
  BY <1>1, TxFields DEF At, LockedRow, DeleteAnalysisTxs
<1> QED
  BY <1>1, <1>2, <1>3 DEF Checked, At, Live, GraphAt

LEMMA DeleteAnalysisCommitStep ==
    ASSUME IInv, TxOK', LocksExclusive', NEW h \in Handlers, DeleteAnalysisCommit(h)
    PROVE  IInv'
<1> USE DEF At
<1>1. PICK a \in Analyses : a = tx[h].analysis
  BY TxFields DEF DeleteAnalysisCommit, IInv, TypeOK, DeleteAnalysisTxs
<1>2. /\ tx[h].step = "commit" /\ tx[h].op = "deleteAnalysis"
      /\ tx'[h] = Idle /\ \A g \in Handlers : g # h => tx'[g] = tx[g]
  BY DEF DeleteAnalysisCommit, IInv, TypeOK, End
<1>3. /\ analyses' = [analyses EXCEPT ![a] = None]
      /\ RecordChange("analysis", a, TRUE)
      /\ UNCHANGED <<resources, revisions, receipts, idempotency, issued, acks>>
  BY <1>1 DEF DeleteAnalysisCommit
<1>4. TypeOK'
  BY <1>3 DEF IInv, TypeOK, TxOK, RecordChange
<1>5. RevisionsKept' /\ ReceiptsRemembered'
  BY <1>3 DEF IInv, RevisionsKept, ReceiptsRemembered, Live
<1>6. KeysStayUnused'
  BY <1>2, <1>3, KeysKept
<1>7. CheckedRowsHold'
  <2>1. ASSUME NEW g \in Handlers, g # h PROVE Checked(g)'
    <3>1. tx[g].step = "commit" => LockedRow(g) # <<"analysis", a>>
      BY <1>1, <1>2, <2>1 DEF IInv, LocksExclusive, RowsHeld, LockedRow
    <3>2. \A x \in Analyses : x # a => analyses'[x] = analyses[x]
      BY <1>3 DEF IInv, TypeOK
    <3> QED
      BY <1>2, <1>3, <2>1, <3>1, <3>2, OtherAnalysisChecks
  <2>2. Checked(h)'
    BY <1>2 DEF Checked, Idle
  <2> QED
    BY <2>1, <2>2 DEF CheckedRowsHold, Checked
<1> QED
  BY <1>4, <1>5, <1>6, <1>7 DEF IInv

LEMMA FinishAnalysisStep ==
    ASSUME WorkspaceAssumption, IInv, TxOK', LocksExclusive',
           NEW a \in Analyses, FinishAnalysis(a)
    PROVE  IInv'
<1>1. PICK status \in {"completed", "failed"} :
         analyses' = [analyses EXCEPT
            ![a].status = status,
            ![a].alternatives = IF status = "completed" THEN Found(a) ELSE {}]
  BY DEF FinishAnalysis
<1>2. /\ RecordChange("analysis", a, FALSE)
      /\ UNCHANGED <<resources, revisions, receipts, idempotency, issued, tx, acks>>
      /\ analyses[a] \in AnalysisRows
  BY DEF FinishAnalysis, IInv, TypeOK
<1>3. TypeOK'
  <2>1. [analyses[a] EXCEPT !.status = status,
            !.alternatives = IF status = "completed" THEN Found(a) ELSE {}]
           \in AnalysisRows
    BY <1>2 DEF AnalysisRows, WorkspaceAssumption
  <2>2. analyses' \in [Analyses -> AnalysisRows \cup {None}]
    BY <1>1, <2>1 DEF IInv, TypeOK
  <2>3. changes' \in [({"schema"} \X Schemas) \cup ({"analysis"} \X Analyses)
                         -> Seq(BOOLEAN)]
    BY <1>2 DEF IInv, TypeOK, RecordChange
  <2> QED
    BY <1>2, <2>2, <2>3 DEF IInv, TypeOK
<1>4. RevisionsKept' /\ ReceiptsRemembered' /\ KeysStayUnused'
  BY <1>2 DEF IInv, RevisionsKept, ReceiptsRemembered, KeysStayUnused, Live,
              HoldsRetryKey, RetryKey
<1>5. CheckedRowsHold'
  <2>1. ASSUME NEW g \in Handlers PROVE Checked(g)'
    <3>1. tx[g].step = "commit" => LockedRow(g) # <<"analysis", a>>
      BY DEF FinishAnalysis, RowFree
    <3>2. \A x \in Analyses : x # a => analyses'[x] = analyses[x]
      BY <1>1 DEF IInv, TypeOK
    <3> QED
      BY <1>2, <3>1, <3>2, OtherAnalysisChecks
  <2> QED
    BY <2>1 DEF CheckedRowsHold, Checked
<1> QED
  BY <1>3, <1>4, <1>5 DEF IInv

\* Whatever a handler writes keeps the invariant, too.
LEMMA CommitActions ==
    ASSUME IInv, TxOK', LocksExclusive', NEW h \in Handlers,
           \/ CreateCommit(h) \/ ApplyCommit(h)
           \/ DeleteCommit(h) \/ DeleteAnalysisCommit(h)
    PROVE  IInv'
BY CreateCommitStep, ApplyCommitStep, DeleteCommitStep, DeleteAnalysisCommitStep

LEMMA IInvInit == Init => IInv
<1> SUFFICES ASSUME Init PROVE IInv
  OBVIOUS
<1>1. \A h \in Handlers :
         tx[h] = Idle /\ ~ HoldsRetryKey(h) /\ tx[h].step # "commit"
  BY DEF Init, Idle, HoldsRetryKey
<1>2. TypeOK
  <2>1. analyses \in [Analyses -> AnalysisRows \cup {None}]
    BY DEF Init, AnalysisRows
  <2>2. changes \in [({"schema"} \X Schemas) \cup ({"analysis"} \X Analyses)
                         -> Seq(BOOLEAN)]
    <3>1. <<>> \in Seq(BOOLEAN) /\ <<FALSE, FALSE>> \in Seq(BOOLEAN)
      OBVIOUS
    <3> QED
      BY <3>1 DEF Init
  <2>3. tx \in [Handlers -> TxRecords]
    BY DEF Init, TxRecords
  <2> QED
    BY <2>1, <2>2, <2>3 DEF Init, TypeOK
<1>3. LocksExclusive /\ KeysStayUnused
  BY <1>1 DEF LocksExclusive, RetryKeysHeld, RowsHeld, KeysStayUnused
<1>4. RevisionsKept /\ ReceiptsRemembered
  BY DEF Init, RevisionsKept, ReceiptsRemembered, Live
<1>5. CheckedRowsHold
  BY <1>1 DEF CheckedRowsHold, At
<1> QED
  BY <1>2, <1>3, <1>4, <1>5 DEF IInv

LEMMA IInvStep ==
    ASSUME WorkspaceAssumption, IInv, [Next]_vars
    PROVE  IInv'
<1>1. TxOK' /\ LocksExclusive'
  BY TxInvStep DEF IInv, TypeOK, TxOK
<1>2. CASE UNCHANGED vars
  BY <1>2 DEF vars, store, IInv, TypeOK, LocksExclusive, RetryKeysHeld, RowsHeld,
              LockedRow, HoldsRetryKey, RetryKey, RevisionsKept,
              ReceiptsRemembered, KeysStayUnused, CheckedRowsHold, At, Live, GraphAt
<1>3. ASSUME NEW h \in Handlers, Begin(h) \/ Proceed(h) \/ Abort(h)
      PROVE  IInv'
  BY <1>1, <1>3, ReadActions, CommitActions DEF Proceed
<1>4. ASSUME NEW a \in Analyses, FinishAnalysis(a)
      PROVE  IInv'
  BY <1>1, <1>4, FinishAnalysisStep
<1> QED
  BY <1>2, <1>3, <1>4 DEF Next

-----------------------------------------------------------------------------
(* The theorems about transactions *)

\* The invariant the others follow from: the tables keep their types, retry
\* keys and locked rows have one holder each, and what a transaction read
\* under its locks is still true of the store.
THEOREM InductiveInvariant == Spec => []IInv
<1>1. Init => IInv
  BY IInvInit
<1>2. IInv /\ [Next]_vars => IInv'
  BY IInvStep, WorkspaceAssumption
<1> QED
  BY <1>1, <1>2, PTL DEF Spec

\* The rows the use cases write have the types of their tables, and every
\* open transaction is at a step of its use case.
THEOREM TypeCorrect == Spec => []TypeOK
<1>1. IInv => TypeOK
  BY DEF IInv
<1> QED
  BY <1>1, InductiveInvariant, PTL

\* Between the checks of a use case and its writes nobody deletes or changes
\* the row it has checked: SELECT ... FOR UPDATE is enough for all four.
THEOREM ChecksHoldUntilWritten == Spec => []CheckedRowsHold
<1>1. IInv => CheckedRowsHold
  BY DEF IInv
<1> QED
  BY <1>1, InductiveInvariant, PTL

\* No INSERT of a use case that passed its checks meets a primary key that is
\* taken: the advisory lock of replay covers the retry rows, the locked row
\* the revisions and the receipts.
THEOREM InsertsSucceed == Spec => []NoUniqueViolation
<1>1. IInv => NoUniqueViolation
  <2> SUFFICES ASSUME IInv, NEW h \in Handlers
               PROVE  /\ At(h, "create", "commit") =>
                            Remembered(DraftScope(tx[h].subject), tx[h].key) = {}
                      /\ At(h, "apply", "commit") =>
                            LET s == tx[h].schema IN
                            /\ Remembered(ChangesetScope(s), tx[h].key) = {}
                            /\ \A r \in receipts : r.schema = s => r.mutation # tx[h].key
                            /\ \A r \in revisions : r.schema = s =>
                                  r.revision # tx[h].current + 1
    BY DEF NoUniqueViolation
  <2>1. ASSUME At(h, "create", "commit")
        PROVE  Remembered(DraftScope(tx[h].subject), tx[h].key) = {}
    BY <2>1 DEF At, IInv, KeysStayUnused, HoldsRetryKey, RetryKey, Remembered
  <2>2. ASSUME At(h, "apply", "commit")
        PROVE  LET s == tx[h].schema IN
               /\ Remembered(ChangesetScope(s), tx[h].key) = {}
               /\ \A r \in receipts : r.schema = s => r.mutation # tx[h].key
               /\ \A r \in revisions : r.schema = s =>
                     r.revision # tx[h].current + 1
    <3>1. \A r \in idempotency :
             <<r.scope, r.key>> # <<ChangesetScope(tx[h].schema), tx[h].key>>
      BY <2>2 DEF At, IInv, KeysStayUnused, HoldsRetryKey, RetryKey
    <3>2. Remembered(ChangesetScope(tx[h].schema), tx[h].key) = {}
      BY <3>1 DEF Remembered
    <3>3. \A r \in receipts : r.schema = tx[h].schema => r.mutation # tx[h].key
      BY <3>1 DEF IInv, ReceiptsRemembered
    <3>4. tx[h] \in ChangesetTxs /\ resources[tx[h].schema].revision = tx[h].current
      BY <2>2, TxFields DEF At, IInv, TypeOK, CheckedRowsHold
    <3>5. tx[h].current \in Nat
      BY <3>4, WorkspaceAssumption DEF ChangesetTxs, WorkspaceAssumption
    <3>6. \A r \in revisions : r.schema = tx[h].schema =>
             r.revision \in Nat /\ r.revision <= tx[h].current
      BY <3>4 DEF IInv, TypeOK, RevisionRows, RevisionsKept
    <3>7. \A r \in revisions : r.schema = tx[h].schema =>
             r.revision # tx[h].current + 1
      BY <3>5, <3>6
    <3> QED
      BY <3>2, <3>3, <3>7
  <2> QED
    BY <2>1, <2>2
<1> QED
  BY <1>1, InductiveInvariant, PTL

\* A saved revision stays as it is until its schema is deleted, and a deleted
\* schema never comes back under its identifier.
THEOREM SnapshotsNeverChange == Spec => SnapshotsImmutable
<1>1. IInv /\ [Next]_vars => [KeepsSnapshots]_vars
  <2> SUFFICES ASSUME IInv, Next PROVE KeepsSnapshots
    OBVIOUS
  <2>1. CASE UNCHANGED <<resources, revisions>>
    BY <2>1 DEF KeepsSnapshots
  <2>2. ASSUME NEW h \in Handlers, CreateCommit(h)
        PROVE  KeepsSnapshots
    <3>1. PICK s \in Schemas \ issued :
             /\ resources' = [resources EXCEPT
                   ![s] = [revision |-> 1, owner |-> tx[h].subject]]
             /\ SaveRevision(s, 1, [origin |-> tx[h].body.alternative,
                                    edits |-> <<>>])
      BY <2>2 DEF CreateCommit
    <3>2. \A x \in issued : x # s /\ x \in Schemas
      BY DEF IInv, TypeOK
    <3> QED
      BY <3>1, <3>2 DEF SaveRevision, IInv, TypeOK, KeepsSnapshots
  <2>3. ASSUME NEW h \in Handlers, ApplyCommit(h)
        PROVE  KeepsSnapshots
    <3>1. PICK s \in Schemas : s = tx[h].schema
      BY <2>3, TxFields DEF ApplyCommit, At, IInv, TypeOK, ChangesetTxs
    <3>2. resources[s] # None
      BY <2>3, <3>1 DEF ApplyCommit, IInv, CheckedRowsHold, Live
    <3>3. /\ \A x \in Schemas : x # s => resources'[x] = resources[x]
          /\ \A r \in revisions : r \in revisions'
      BY <2>3, <3>1 DEF ApplyCommit, SaveRevision, IInv, TypeOK
    <3> QED
      BY <3>2, <3>3 DEF IInv, TypeOK, KeepsSnapshots
  <2>4. ASSUME NEW h \in Handlers, DeleteCommit(h)
        PROVE  KeepsSnapshots
    <3>1. PICK s \in Schemas : s = tx[h].schema
      BY <2>4, TxFields DEF DeleteCommit, At, IInv, TypeOK, DeleteTxs
    <3>2. /\ revisions' = {r \in revisions : r.schema # s}
          /\ resources' = [resources EXCEPT ![s] = None]
      BY <2>4, <3>1 DEF DeleteCommit
    <3> QED
      BY <3>2 DEF IInv, TypeOK, KeepsSnapshots, RevisionRows
  <2>5. ASSUME NEW h \in Handlers, Begin(h) \/ Abort(h)
        PROVE  UNCHANGED <<resources, revisions>>
    BY <2>5 DEF Begin, Abort, store, CreateReplay, ApplyAuthorize, DeleteAuthorize,
                DeleteAnalysisAuthorize
  <2>6. ASSUME NEW h \in Handlers, Proceed(h), ~ CreateCommit(h),
               ~ ApplyCommit(h), ~ DeleteCommit(h)
        PROVE  UNCHANGED <<resources, revisions>>
    BY <2>6 DEF Proceed, store, CreateReturnsManifest, CreateAuthorize, CreateLock,
                ApplyReplay, ApplyReturnsReceipt, ApplyLock, DeleteLock,
                DeleteAnalysisLock, DeleteAnalysisCommit
  <2>7. ASSUME NEW a \in Analyses, FinishAnalysis(a)
        PROVE  UNCHANGED <<resources, revisions>>
    BY <2>7 DEF FinishAnalysis
  <2> QED
    BY <2>1, <2>2, <2>3, <2>4, <2>5, <2>6, <2>7 DEF Next
<1> QED
  BY <1>1, InductiveInvariant, PTL DEF Spec, SnapshotsImmutable

-----------------------------------------------------------------------------
(* What a step of the system does to the rows of schemas: nothing, or one  *)
(* of three things.                                                        *)

\* Reads, transactions that end, and changes of analyses; a receipt may be
\* acknowledged again.
Leaves ==
    /\ UNCHANGED <<resources, revisions, receipts, idempotency, issued>>
    /\ \A s \in Schemas : changes'[<<"schema", s>>] = changes[<<"schema", s>>]
    /\ acks' \subseteq acks \cup receipts

\* u drafts schema s from an analysis.
Drafts(s, u, key, body) ==
    /\ s \notin issued
    /\ \A r \in idempotency : <<r.scope, r.key>> # <<DraftScope(u), key>>
    /\ issued' = issued \cup {s}
    /\ resources' = [resources EXCEPT ![s] = [revision |-> 1, owner |-> u]]
    /\ SaveRevision(s, 1, [origin |-> body.alternative, edits |-> <<>>])
    /\ idempotency' = idempotency \cup
          {[scope |-> DraftScope(u), key |-> key, digest |-> body, resource |-> s]}
    /\ RecordChange("schema", s, FALSE)
    /\ UNCHANGED <<receipts, acks>>

EditOf(m, body) == [mutation |-> m, operations |-> body.operations]
ReceiptOf(s, m, n) ==
    [schema |-> s, mutation |-> m, base |-> n, revision |-> n + 1]
RetryRowOf(s, m, body) ==
    [scope |-> ChangesetScope(s), key |-> m, digest |-> body, resource |-> m]
RowAfter(q, edit) ==
    [schema |-> q.schema, revision |-> q.revision + 1,
     graph |-> [q.graph EXCEPT !.edits = Append(@, edit)]]

\* The changeset m is added to the latest revision q of its schema.
Appends(q, m, body) ==
    /\ Live(q.schema)
    /\ q.revision = resources[q.schema].revision
    /\ body.base = q.revision
    /\ Accepts(q.graph, body.operations)
    /\ \A r \in idempotency : <<r.scope, r.key>> # <<ChangesetScope(q.schema), m>>
    /\ revisions' = revisions \cup {RowAfter(q, EditOf(m, body))}
    /\ resources' = [resources EXCEPT ![q.schema].revision = q.revision + 1]
    /\ receipts' = receipts \cup {ReceiptOf(q.schema, m, q.revision)}
    /\ acks' = acks \cup {ReceiptOf(q.schema, m, q.revision)}
    /\ idempotency' = idempotency \cup {RetryRowOf(q.schema, m, body)}
    /\ RecordChange("schema", q.schema, FALSE)
    /\ UNCHANGED issued

\* Schema s goes, with everything that belongs to it.
Removes(s) ==
    /\ Live(s)
    /\ revisions' = {r \in revisions : r.schema # s}
    /\ receipts' = {r \in receipts : r.schema # s}
    /\ idempotency' = idempotency \ RetryRowsOf(s)
    /\ resources' = [resources EXCEPT ![s] = None]
    /\ RecordChange("schema", s, TRUE)
    /\ UNCHANGED <<issued, acks>>

\* Every step is one of the four.
StepKinds ==
    \/ Leaves
    \/ \E s \in Schemas, u \in Subjects, key \in Keys, body \in DraftBodies :
          Drafts(s, u, key, body)
    \/ \E q \in revisions, m \in Mutations, body \in ChangesetBodies :
          Appends(q, m, body)
    \/ \E s \in Schemas : Removes(s)

LEMMA StepIsOneOfFour ==
    ASSUME WorkspaceAssumption, IInv, [Next]_vars
    PROVE  StepKinds
<1> USE DEF At
<1>1. CASE UNCHANGED vars
  BY <1>1 DEF vars, store, Leaves, StepKinds
<1>2. ASSUME NEW h \in Handlers, CreateCommit(h)
      PROVE  StepKinds
  <2>1. PICK s \in Schemas \ issued :
           /\ issued' = issued \cup {s}
           /\ resources' = [resources EXCEPT
                 ![s] = [revision |-> 1, owner |-> tx[h].subject]]
           /\ SaveRevision(s, 1, [origin |-> tx[h].body.alternative, edits |-> <<>>])
           /\ idempotency' = idempotency \cup
                 {[scope |-> DraftScope(tx[h].subject), key |-> tx[h].key,
                   digest |-> tx[h].body, resource |-> s]}
           /\ RecordChange("schema", s, FALSE)
           /\ UNCHANGED <<receipts, analyses, acks>>
    BY <1>2 DEF CreateCommit
  <2>2. tx[h] \in DraftTxs /\ tx[h].op = "create" /\ tx[h].step = "commit"
    BY <1>2, TxFields DEF CreateCommit, IInv, TypeOK
  <2>3. \A r \in idempotency :
           <<r.scope, r.key>> # <<DraftScope(tx[h].subject), tx[h].key>>
    BY <2>2 DEF IInv, KeysStayUnused, HoldsRetryKey, RetryKey
  <2>4. Drafts(s, tx[h].subject, tx[h].key, tx[h].body)
    BY <2>1, <2>3 DEF Drafts
  <2> QED
    BY <2>2, <2>4 DEF StepKinds, DraftTxs
<1>3. ASSUME NEW h \in Handlers, ApplyCommit(h)
      PROVE  StepKinds
  <2>1. tx[h] \in ChangesetTxs /\ tx[h].op = "apply" /\ tx[h].step = "commit"
    BY <1>3, TxFields DEF ApplyCommit, IInv, TypeOK
  <2> DEFINE s == tx[h].schema
             n == tx[h].current
  <2>2. /\ Live(s) /\ resources[s].revision = n
        /\ tx[h].body.base = n
        /\ Accepts(GraphAt(s, n), tx[h].body.operations)
    BY <2>1 DEF IInv, CheckedRowsHold
  <2>3. PICK q \in revisions : q.schema = s /\ q.revision = n
    BY <2>1, <2>2 DEF IInv, RevisionsKept, ChangesetTxs
  <2>4. GraphAt(s, n) = q.graph
    BY <2>3, GraphOfRow DEF IInv, RevisionsKept, GraphAt
  <2>5. \A r \in idempotency : <<r.scope, r.key>> # <<ChangesetScope(s), tx[h].key>>
    BY <2>1 DEF IInv, KeysStayUnused, HoldsRetryKey, RetryKey
  <2>6. Appends(q, tx[h].key, tx[h].body)
    BY <1>3, <2>2, <2>3, <2>4, <2>5
    DEF ApplyCommit, SaveRevision, Edited, Appends, EditOf, ReceiptOf, RetryRowOf,
        RowAfter
  <2> QED
    BY <2>1, <2>6 DEF StepKinds, ChangesetTxs
<1>4. ASSUME NEW h \in Handlers, DeleteCommit(h)
      PROVE  StepKinds
  <2>1. tx[h] \in DeleteTxs /\ tx[h].op = "delete" /\ tx[h].step = "commit"
    BY <1>4, TxFields DEF DeleteCommit, IInv, TypeOK
  <2>2. Live(tx[h].schema)
    BY <2>1 DEF IInv, CheckedRowsHold
  <2>3. Removes(tx[h].schema)
    BY <1>4, <2>2 DEF DeleteCommit, Removes
  <2> QED
    BY <2>1, <2>3 DEF StepKinds, DeleteTxs
<1>5. ASSUME NEW h \in Handlers, DeleteAnalysisCommit(h)
      PROVE  StepKinds
  <2>1. changes' = [changes EXCEPT
           ![<<"analysis", tx[h].analysis>>] = Append(@, TRUE)]
    BY <1>5 DEF DeleteAnalysisCommit, RecordChange
  <2>2. \A s \in Schemas : changes'[<<"schema", s>>] = changes[<<"schema", s>>]
    BY <2>1 DEF IInv, TypeOK
  <2> QED
    BY <1>5, <2>2 DEF DeleteAnalysisCommit, Leaves, StepKinds
<1>6. ASSUME NEW a \in Analyses, FinishAnalysis(a)
      PROVE  StepKinds
  <2>1. changes' = [changes EXCEPT ![<<"analysis", a>>] = Append(@, FALSE)]
    BY <1>6 DEF FinishAnalysis, RecordChange
  <2>2. \A s \in Schemas : changes'[<<"schema", s>>] = changes[<<"schema", s>>]
    BY <2>1 DEF IInv, TypeOK
  <2> QED
    BY <1>6, <2>2 DEF FinishAnalysis, Leaves, StepKinds
<1>7. ASSUME NEW h \in Handlers, Begin(h) \/ Abort(h)
      PROVE  UNCHANGED store /\ UNCHANGED acks
  BY <1>7 DEF Begin, Abort, CreateReplay, ApplyAuthorize, DeleteAuthorize,
              DeleteAnalysisAuthorize
<1>8. ASSUME NEW h \in Handlers, Proceed(h), ~ CreateCommit(h), ~ ApplyCommit(h),
             ~ DeleteCommit(h), ~ DeleteAnalysisCommit(h)
      PROVE  UNCHANGED store /\ acks' \subseteq acks \cup receipts
  BY <1>8 DEF Proceed, CreateReturnsManifest, CreateAuthorize, CreateLock,
              ApplyReplay, ApplyReturnsReceipt, ApplyLock, DeleteLock,
              DeleteAnalysisLock
<1>9. UNCHANGED store /\ acks' \subseteq acks \cup receipts => StepKinds
  BY DEF store, Leaves, StepKinds
<1> QED
  BY <1>1, <1>2, <1>3, <1>4, <1>5, <1>6, <1>7, <1>8, <1>9 DEF Next

-----------------------------------------------------------------------------
(* The invariant of the rows *)

\* A schema's revisions are 1 up to the one its row names; each but the first
\* has a receipt.
RevisionsConsecutive ==
    /\ \A r \in revisions : r.revision >= 1
    /\ \A s \in Schemas : Live(s) =>
          \A n \in 1..resources[s].revision :
             /\ \E r \in revisions : r.schema = s /\ r.revision = n
             /\ n > 1 => \E p \in receipts : p.schema = s /\ p.revision = n

\* A receipt stands between two revisions, the second of which has the edit of
\* its retry row in addition.
ReceiptsInChain ==
    \A p \in receipts :
        /\ Live(p.schema)
        /\ p.revision = p.base + 1
        /\ \E q, r \in revisions, k \in idempotency :
              /\ q.schema = p.schema /\ q.revision = p.base
              /\ r.schema = p.schema /\ r.revision = p.revision
              /\ k.scope = ChangesetScope(p.schema) /\ k.key = p.mutation
              /\ k.digest.base = p.base
              /\ r.graph.edits = Append(q.graph.edits, EditOf(p.mutation, k.digest))

ReceiptsDiffer ==
    \A p, q \in receipts :
        p.schema = q.schema /\ p.mutation = q.mutation => p = q

\* The edit of a receipt is in every later revision at the place its base
\* gives, and every edit of a revision has its receipt.
Placed(r) ==
    /\ Len(r.graph.edits) = r.revision - 1
    /\ \A p \in receipts : p.schema = r.schema /\ r.revision >= p.revision =>
          r.graph.edits[p.base].mutation = p.mutation
    /\ \A i \in 1..Len(r.graph.edits) : \E p \in receipts :
          /\ p.schema = r.schema /\ p.base = i
          /\ p.mutation = r.graph.edits[i].mutation
EditsPlaced == \A r \in revisions : Placed(r)

\* What was acknowledged is a receipt as long as its schema is there.
AcksAreReceipts ==
    /\ \A a \in acks : a \in receipts \/ (a.schema \in issued /\ ~ Live(a.schema))
    /\ \A a, b \in acks : a.schema = b.schema /\ a.mutation = b.mutation => a = b

\* Nothing has been announced of a schema that was never drafted.
OutboxKept ==
    /\ OutboxMatches
    /\ \A s \in Schemas \ issued : changes[<<"schema", s>>] = <<>>

RowsInv ==
    /\ RevisionsConsecutive
    /\ ReceiptsInChain
    /\ ReceiptsDiffer
    /\ EditsPlaced
    /\ AcksAreReceipts
    /\ RetryRowsAnswer
    /\ OutboxKept

-----------------------------------------------------------------------------
(* The invariant of the rows is kept *)

\* A step that leaves the rows alone; an acknowledgement can only repeat a
\* receipt.
LEMMA LeavesKeepsRows ==
    ASSUME IInv, RowsInv, Leaves
    PROVE  RowsInv'
<1> USE DEF Leaves, Live
<1>1. RevisionsConsecutive' /\ ReceiptsInChain' /\ ReceiptsDiffer' /\ EditsPlaced'
  BY DEF RowsInv, RevisionsConsecutive, ReceiptsInChain, ReceiptsDiffer, EditsPlaced,
         Placed
<1>2. AcksAreReceipts'
  <2>1. \A a \in acks' : a \in receipts \/ (a.schema \in issued /\ ~ Live(a.schema))
    BY DEF RowsInv, AcksAreReceipts
  <2>2. ASSUME NEW a \in acks', NEW b \in acks',
               a.schema = b.schema, a.mutation = b.mutation
        PROVE  a = b
    <3>1. CASE a \in receipts \/ b \in receipts
      BY <2>1, <2>2, <3>1 DEF RowsInv, ReceiptsInChain, ReceiptsDiffer
    <3>2. CASE a \in acks /\ b \in acks
      BY <2>2, <3>2 DEF RowsInv, AcksAreReceipts
    <3> QED
      BY <3>1, <3>2
  <2> QED
    BY <2>1, <2>2 DEF AcksAreReceipts
<1>3. RetryRowsAnswer' /\ OutboxKept'
  BY DEF RowsInv, RetryRowsAnswer, OutboxKept, OutboxMatches
<1> QED
  BY <1>1, <1>2, <1>3 DEF RowsInv

\* OutboxMatches for one schema.
Announced(s) ==
    LET rows == changes[<<"schema", s>>] IN
    /\ Live(s) => Len(rows) = resources[s].revision
    /\ s \in issued /\ ~ Live(s) => Len(rows) > 0
    /\ \A i \in 1..Len(rows) : rows[i] <=> (~ Live(s) /\ i = Len(rows))

LEMMA OutboxBySchema ==
    /\ OutboxMatches <=> \A s \in Schemas : Announced(s)
    /\ OutboxMatches' <=> \A s \in Schemas : Announced(s)'
BY Zenon DEF OutboxMatches, Announced

LEMMA SameAnnounced ==
    ASSUME NEW s \in Schemas, Announced(s), resources'[s] = resources[s],
           changes'[<<"schema", s>>] = changes[<<"schema", s>>],
           s \in issued' <=> s \in issued
    PROVE  Announced(s)'
<1>1. Live(s)' <=> Live(s)
  BY DEF Live
<1> QED
  BY <1>1, Zenon DEF Announced

\* A draft is the first row of a schema of which there was none.
LEMMA DraftsKeepsRows ==
    ASSUME IInv, RowsInv, NEW s \in Schemas, NEW u \in Subjects, NEW key \in Keys,
           NEW body \in DraftBodies, Drafts(s, u, key, body)
    PROVE  RowsInv'
<1> DEFINE row == [schema |-> s, revision |-> 1,
                   graph |-> [origin |-> body.alternative, edits |-> <<>>]]
           retry == [scope |-> DraftScope(u), key |-> key, digest |-> body,
                     resource |-> s]
<1>1. /\ s \notin issued /\ issued' = issued \cup {s}
      /\ resources' = [resources EXCEPT ![s] = [revision |-> 1, owner |-> u]]
      /\ revisions' = revisions \cup {row}
      /\ idempotency' = idempotency \cup {retry}
      /\ changes' = [changes EXCEPT ![<<"schema", s>>] = Append(@, FALSE)]
      /\ receipts' = receipts /\ acks' = acks
      /\ \A r \in idempotency : <<r.scope, r.key>> # <<DraftScope(u), key>>
  BY DEF Drafts, SaveRevision, RecordChange
<1>2. /\ ~ Live(s)
      /\ \A r \in revisions : r.schema # s
      /\ \A p \in receipts : p.schema # s
  BY <1>1 DEF IInv, RevisionsKept, RowsInv, ReceiptsInChain
<1>3. /\ Live(s)' /\ resources'[s].revision = 1 /\ resources'[s].owner = u
      /\ \A x \in Schemas : x # s => resources'[x] = resources[x]
  BY <1>1, NoneAssumption DEF IInv, TypeOK, Live, SchemaRows
<1>4. RevisionsConsecutive'
  <2>1. row \in revisions' /\ \A r \in revisions : r \in revisions'
    BY <1>1
  <2>2. \A r \in revisions' : r.revision >= 1
    BY <1>1 DEF RowsInv, RevisionsConsecutive
  <2>3. ASSUME NEW x \in Schemas, Live(x)', NEW n \in 1..resources'[x].revision
        PROVE  /\ \E r \in revisions' : r.schema = x /\ r.revision = n
               /\ n > 1 => \E p \in receipts' : p.schema = x /\ p.revision = n
    <3>1. CASE x = s
      <4>1. n = 1
        BY <1>3, <2>3, <3>1
      <4> QED
        BY <2>1, <3>1, <4>1
    <3>2. CASE x # s
      BY <1>1, <1>3, <2>1, <2>3, <3>2 DEF RowsInv, RevisionsConsecutive, Live
    <3> QED
      BY <3>1, <3>2
  <2> QED
    BY <2>2, <2>3 DEF RevisionsConsecutive
<1>5. ReceiptsInChain' /\ ReceiptsDiffer'
  <2>1. \A p \in receipts : p.schema \in Schemas
    BY DEF IInv, TypeOK, ReceiptRows
  <2> QED
    BY <1>1, <1>2, <1>3, <2>1 DEF RowsInv, ReceiptsInChain, ReceiptsDiffer, Live
<1>6. EditsPlaced'
  <2>1. ASSUME NEW r \in revisions
        PROVE  Placed(r)'
    BY <1>1 DEF RowsInv, EditsPlaced, Placed
  <2>2. Placed(row)'
    BY <1>1, <1>2 DEF Placed
  <2> QED
    BY <1>1, <2>1, <2>2 DEF EditsPlaced
<1>7. AcksAreReceipts'
  <2>1. \A a \in acks : a.schema # s \/ a \in receipts
    BY <1>1 DEF RowsInv, AcksAreReceipts
  <2>2. \A a \in acks : a.schema \in Schemas
    BY DEF IInv, TypeOK, ReceiptRows
  <2>3. \A a \in acks' : a \in receipts' \/ (a.schema \in issued' /\ ~ Live(a.schema)')
    BY <1>1, <1>2, <1>3, <2>1, <2>2 DEF RowsInv, AcksAreReceipts, Live
  <2> QED
    BY <1>1, <2>3 DEF RowsInv, AcksAreReceipts
<1>8. RetryRowsAnswer'
  <2>1. \A q, r \in idempotency' : q.scope = r.scope /\ q.key = r.key => q = r
    BY <1>1 DEF RowsInv, RetryRowsAnswer
  <2>2. ASSUME NEW r \in idempotency', r.scope[1] = "schemas"
        PROVE  Live(r.resource)'
    <3>1. CASE r = retry
      BY <1>3, <3>1
    <3>2. CASE r \in idempotency
      <4>1. r.resource \in Schemas /\ Live(r.resource)
        BY <2>2, <3>2 DEF IInv, TypeOK, IdempotencyRows, ChangesetScope, RowsInv,
                          RetryRowsAnswer
      <4> QED
        BY <1>2, <1>3, <4>1 DEF Live
    <3> QED
      BY <1>1, <3>1, <3>2
  <2>3. ASSUME NEW x \in Schemas, Live(x)'
        PROVE  \E r \in idempotency' :
                  r.scope = DraftScope(resources'[x].owner) /\ r.resource = x
    <3>1. CASE x = s
      <4>1. retry \in idempotency' /\ retry.scope = DraftScope(u) /\ retry.resource = s
        BY <1>1
      <4> QED
        BY <1>3, <3>1, <4>1
    <3>2. CASE x # s
      BY <1>1, <1>3, <2>3, <3>2 DEF RowsInv, RetryRowsAnswer, Live
    <3> QED
      BY <3>1, <3>2
  <2>4. \A r \in idempotency' : r.scope[1] = "changesets" =>
           \E p \in receipts' : p.schema = r.scope[2] /\ p.mutation = r.resource
    <3>1. retry.scope[1] # "changesets"
      BY DEF DraftScope
    <3> QED
      BY <1>1, <3>1 DEF RowsInv, RetryRowsAnswer
  <2> QED
    BY <2>1, <2>2, <2>3, <2>4 DEF RetryRowsAnswer
<1>9. OutboxKept'
  <2>1. changes[<<"schema", s>>] = <<>>
    BY <1>1 DEF RowsInv, OutboxKept
  <2>2. changes'[<<"schema", s>>] = <<FALSE>>
    <3>1. changes'[<<"schema", s>>] = Append(changes[<<"schema", s>>], FALSE)
      BY <1>1 DEF IInv, TypeOK
    <3>2. Append(<<>>, FALSE) = <<FALSE>>
      OBVIOUS
    <3> QED
      BY <2>1, <3>1, <3>2
  <2>3. \A x \in Schemas : x # s => changes'[<<"schema", x>>] = changes[<<"schema", x>>]
    BY <1>1 DEF IInv, TypeOK
  <2>4. ASSUME NEW x \in Schemas, x # s
        PROVE  Announced(x)'
    <3>1. Announced(x)
      BY OutboxBySchema DEF RowsInv, OutboxKept
    <3> QED
      BY <1>1, <1>3, <2>3, <2>4, <3>1, SameAnnounced
  <2>5. Announced(s)'
    <3>1. ASSUME NEW i \in 1..1 PROVE <<FALSE>>[i] = FALSE
      <4>1. i = 1
        OBVIOUS
      <4> QED
        BY <4>1
    <3>2. Len(<<FALSE>>) = 1
      OBVIOUS
    <3> QED
      BY <1>3, <2>2, <3>1, <3>2, Zenon DEF Announced
  <2> QED
    BY <1>1, <2>3, <2>4, <2>5, OutboxBySchema DEF RowsInv, OutboxKept
<1> QED
  BY <1>4, <1>5, <1>6, <1>7, <1>8, <1>9 DEF RowsInv

\* One more flag in the outbox.
LEMMA FlagAppended ==
    ASSUME NEW rows \in Seq(BOOLEAN), NEW flag \in BOOLEAN
    PROVE  /\ Len(Append(rows, flag)) = Len(rows) + 1
           /\ Append(rows, flag)[Len(rows) + 1] = flag
           /\ \A i \in 1..Len(rows) : Append(rows, flag)[i] = rows[i]
BY AppendProperties

\* A changeset adds the next row of its schema, with a receipt that is new.
LEMMA AppendsKeepsRows ==
    ASSUME IInv, RowsInv, NEW q \in revisions, NEW m \in Mutations,
           NEW body \in ChangesetBodies, Appends(q, m, body)
    PROVE  RowsInv'
<1> DEFINE s == q.schema
           n == q.revision
           edit == EditOf(m, body)
           row == RowAfter(q, edit)
           receipt == ReceiptOf(s, m, n)
           retry == RetryRowOf(s, m, body)
<1>1. /\ Live(s) /\ n = resources[s].revision /\ body.base = n
      /\ \A r \in idempotency : <<r.scope, r.key>> # <<ChangesetScope(s), m>>
      /\ revisions' = revisions \cup {row}
      /\ resources' = [resources EXCEPT ![s].revision = n + 1]
      /\ receipts' = receipts \cup {receipt}
      /\ acks' = acks \cup {receipt}
      /\ idempotency' = idempotency \cup {retry}
      /\ changes' = [changes EXCEPT ![<<"schema", s>>] = Append(@, FALSE)]
      /\ issued' = issued
  BY DEF Appends, RecordChange
<1>2. /\ s \in Schemas /\ n \in Nat /\ n >= 1
      /\ q.graph \in Graphs /\ edit \in Edits
      /\ resources[s] \in SchemaRows
  BY <1>1 DEF IInv, TypeOK, RevisionRows, RowsInv, RevisionsConsecutive, Live,
              EditOf, Edits, ChangesetBodies
<1>3. /\ row.schema = s /\ row.revision = n + 1
      /\ row.graph.edits = Append(q.graph.edits, edit)
      /\ receipt.schema = s /\ receipt.mutation = m
      /\ receipt.base = n /\ receipt.revision = n + 1
      /\ retry.scope = ChangesetScope(s) /\ retry.key = m
      /\ retry.digest = body /\ retry.resource = m
  BY <1>2 DEF RowAfter, ReceiptOf, RetryRowOf, Graphs
<1>4. /\ Live(s)' /\ resources'[s].revision = n + 1
      /\ resources'[s].owner = resources[s].owner
      /\ \A x \in Schemas : x # s => resources'[x] = resources[x]
  <2>1. resources'[s] = [resources[s] EXCEPT !.revision = n + 1]
    BY <1>1, <1>2 DEF IInv, TypeOK
  <2> QED
    BY <1>1, <1>2, <2>1, NoneAssumption DEF IInv, TypeOK, Live, SchemaRows
<1>5. \A x \in Schemas : Live(x)' <=> Live(x)
  BY <1>1, <1>4 DEF Live
<1>6. \A p \in receipts : p.schema = s =>
         /\ p.mutation # m
         /\ p.base \in 1..(n - 1) /\ p.revision = p.base + 1
  <2>1. ASSUME NEW p \in receipts, p.schema = s
        PROVE  /\ p.mutation # m
               /\ p.base \in 1..(n - 1) /\ p.revision = p.base + 1
    <3>1. PICK x \in revisions, r \in revisions, k \in idempotency :
             /\ x.schema = s /\ x.revision = p.base
             /\ r.schema = s /\ r.revision = p.revision
             /\ k.scope = ChangesetScope(s) /\ k.key = p.mutation
      BY <2>1 DEF RowsInv, ReceiptsInChain
    <3>2. p.mutation # m
      BY <1>1, <3>1
    <3>3. p.base \in Nat /\ p.base >= 1 /\ p.revision = p.base + 1
      BY <2>1, <3>1
      DEF IInv, TypeOK, ReceiptRows, RowsInv, ReceiptsInChain, RevisionsConsecutive
    <3>4. p.revision <= n
      BY <1>1, <3>1 DEF IInv, RevisionsKept
    <3> QED
      BY <1>2, <3>2, <3>3, <3>4
  <2> QED
    BY <2>1
<1>7. RevisionsConsecutive'
  <2>1. /\ row \in revisions' /\ receipt \in receipts'
        /\ \A r \in revisions : r \in revisions'
        /\ \A p \in receipts : p \in receipts'
    BY <1>1
  <2>2. \A r \in revisions' : r.revision >= 1
    BY <1>1, <1>2, <1>3 DEF RowsInv, RevisionsConsecutive
  <2>3. ASSUME NEW x \in Schemas, Live(x)', NEW i \in 1..resources'[x].revision
        PROVE  /\ \E r \in revisions' : r.schema = x /\ r.revision = i
               /\ i > 1 => \E p \in receipts' : p.schema = x /\ p.revision = i
    <3>1. CASE x = s /\ i = n + 1
      BY <1>3, <2>1, <3>1
    <3>2. CASE x # s \/ i # n + 1
      <4>1. Live(x) /\ i \in 1..resources[x].revision
        BY <1>1, <1>2, <1>4, <1>5, <2>3, <3>2
      <4> QED
        BY <2>1, <4>1 DEF RowsInv, RevisionsConsecutive
    <3> QED
      BY <3>1, <3>2
  <2> QED
    BY <2>2, <2>3 DEF RevisionsConsecutive
<1>8. ReceiptsInChain'
  <2>1. ASSUME NEW p \in receipts
        PROVE  /\ Live(p.schema)'
               /\ p.revision = p.base + 1
               /\ \E x, r \in revisions', k \in idempotency' :
                     /\ x.schema = p.schema /\ x.revision = p.base
                     /\ r.schema = p.schema /\ r.revision = p.revision
                     /\ k.scope = ChangesetScope(p.schema) /\ k.key = p.mutation
                     /\ k.digest.base = p.base
                     /\ r.graph.edits =
                           Append(x.graph.edits, EditOf(p.mutation, k.digest))
    <3>1. p.schema \in Schemas
      BY DEF IInv, TypeOK, ReceiptRows
    <3>2. Live(p.schema)' /\ p.revision = p.base + 1
      BY <1>5, <3>1 DEF RowsInv, ReceiptsInChain
    <3>3. PICK x \in revisions, r \in revisions, k \in idempotency :
                     /\ x.schema = p.schema /\ x.revision = p.base
                     /\ r.schema = p.schema /\ r.revision = p.revision
                     /\ k.scope = ChangesetScope(p.schema) /\ k.key = p.mutation
                     /\ k.digest.base = p.base
                     /\ r.graph.edits =
                           Append(x.graph.edits, EditOf(p.mutation, k.digest))
      BY DEF RowsInv, ReceiptsInChain
    <3>4. x \in revisions' /\ r \in revisions' /\ k \in idempotency'
      BY <1>1
    <3> QED
      BY <3>2, <3>3, <3>4
  <2>2. /\ q \in revisions' /\ row \in revisions' /\ retry \in idempotency'
        /\ retry.digest.base = receipt.base
        /\ row.graph.edits = Append(q.graph.edits, EditOf(m, retry.digest))
    BY <1>1, <1>3
  <2> QED
    BY <1>1, <1>3, <1>4, <2>1, <2>2 DEF ReceiptsInChain
<1>9. ReceiptsDiffer'
  BY <1>1, <1>3, <1>6 DEF RowsInv, ReceiptsDiffer
<1>10. EditsPlaced'
  <2>1. ASSUME NEW r \in revisions
        PROVE  Placed(r)'
    <3>1. r.revision \in Nat /\ (r.schema = s => r.revision <= n)
      BY <1>1 DEF IInv, TypeOK, RevisionRows, RevisionsKept
    <3>2. r.schema = s => ~ (r.revision >= receipt.revision)
      BY <1>2, <1>3, <3>1
    <3>3. Placed(r) /\ \A p \in receipts : p \in receipts'
      BY <1>1 DEF RowsInv, EditsPlaced
    <3>4. \A p \in receipts' : p.schema = r.schema /\ r.revision >= p.revision =>
             p \in receipts
      BY <1>1, <1>3, <3>2
    <3>5. \A p \in receipts' : p.schema = r.schema /\ r.revision >= p.revision =>
             r.graph.edits[p.base].mutation = p.mutation
      BY <3>3, <3>4 DEF Placed
    <3>6. \A i \in 1..Len(r.graph.edits) : \E p \in receipts' :
             /\ p.schema = r.schema /\ p.base = i
             /\ p.mutation = r.graph.edits[i].mutation
      BY <3>3, Zenon DEF Placed
    <3> QED
      BY <3>3, <3>5, <3>6, Zenon DEF Placed
  <2>2. /\ q.graph.edits \in Seq(Edits) /\ Len(q.graph.edits) = n - 1
        /\ row.graph.edits \in Seq(Edits) /\ Len(row.graph.edits) = n
        /\ row.graph.edits[n] = edit
        /\ \A i \in 1..(n - 1) : row.graph.edits[i] = q.graph.edits[i]
    <3>1. q.graph.edits \in Seq(Edits) /\ Len(q.graph.edits) = n - 1
      BY <1>2 DEF Graphs, RowsInv, EditsPlaced, Placed
    <3> HIDE DEF edit, row
    <3> QED
      BY <1>2, <1>3, <3>1
  <2>3. ASSUME NEW p \in receipts', p.schema = s, row.revision >= p.revision
        PROVE  row.graph.edits[p.base].mutation = p.mutation
    <3>1. CASE p = receipt
      BY <1>3, <2>2, <3>1 DEF EditOf
    <3>2. CASE p \in receipts
      <4>1. p.base \in 1..(n - 1) /\ n >= p.revision
        BY <1>2, <1>6, <2>3, <3>2
      <4>2. q.graph.edits[p.base].mutation = p.mutation
        BY <2>3, <3>2, <4>1 DEF RowsInv, EditsPlaced, Placed
      <4> QED
        BY <2>2, <4>1, <4>2
    <3> QED
      BY <1>1, <3>1, <3>2
  <2>4. ASSUME NEW i \in 1..Len(row.graph.edits)
        PROVE  \E p \in receipts' : /\ p.schema = s /\ p.base = i
                                    /\ p.mutation = row.graph.edits[i].mutation
    <3>1. CASE i = n
      <4>1. receipt \in receipts' /\ row.graph.edits[i].mutation = m
        BY <1>1, <2>2, <3>1 DEF EditOf
      <4> QED
        BY <1>3, <3>1, <4>1
    <3>2. CASE i # n
      <4>1. i \in 1..Len(q.graph.edits) /\ row.graph.edits[i] = q.graph.edits[i]
        BY <1>2, <2>2, <3>2
      <4>2. PICK p \in receipts : /\ p.schema = s /\ p.base = i
                                  /\ p.mutation = q.graph.edits[i].mutation
        BY <4>1 DEF RowsInv, EditsPlaced, Placed
      <4> QED
        BY <1>1, <4>1, <4>2
    <3> QED
      BY <3>1, <3>2
  <2> HIDE DEF row, receipt, edit
  <2>5. /\ Len(row.graph.edits) = row.revision - 1
        /\ row.schema = s
    BY <1>2, <1>3, <2>2
  <2>6. Placed(row)'
    BY <2>3, <2>4, <2>5, Zenon DEF Placed
  <2> QED
    BY <1>1, <2>1, <2>6 DEF EditsPlaced
<1>11. AcksAreReceipts'
  <2>1. \A a \in acks : a.schema \in Schemas
    BY DEF IInv, TypeOK, ReceiptRows
  <2>2. \A a \in acks' :
           a \in receipts' \/ (a.schema \in issued' /\ ~ Live(a.schema)')
    BY <1>1, <1>5, <2>1 DEF RowsInv, AcksAreReceipts
  <2>3. \A a \in acks : a.schema = s => a \in receipts
    BY <1>1 DEF RowsInv, AcksAreReceipts
  <2>4. \A a \in acks : a.schema = s => a.mutation # m
    BY <1>6, <2>3
  <2>5. \A a, b \in acks' : a.schema = b.schema /\ a.mutation = b.mutation => a = b
    BY <1>1, <1>3, <2>4 DEF RowsInv, AcksAreReceipts
  <2> QED
    BY <2>2, <2>5 DEF AcksAreReceipts
<1>12. RetryRowsAnswer'
  <2>1. \A x, r \in idempotency' : x.scope = r.scope /\ x.key = r.key => x = r
    BY <1>1, <1>3 DEF RowsInv, RetryRowsAnswer
  <2>2. ASSUME NEW r \in idempotency', r.scope[1] = "schemas"
        PROVE  Live(r.resource)'
    <3>1. r \in idempotency
      BY <1>1, <1>3, <2>2 DEF ChangesetScope
    <3>2. r.resource \in Schemas /\ Live(r.resource)
      BY <2>2, <3>1 DEF IInv, TypeOK, IdempotencyRows, ChangesetScope, RowsInv,
                        RetryRowsAnswer
    <3> QED
      BY <1>5, <3>2
  <2>3. ASSUME NEW x \in Schemas, Live(x)'
        PROVE  \E r \in idempotency' :
                  r.scope = DraftScope(resources'[x].owner) /\ r.resource = x
    <3>1. Live(x) /\ resources'[x].owner = resources[x].owner
      BY <1>4, <1>5, <2>3
    <3> QED
      BY <1>1, <3>1 DEF RowsInv, RetryRowsAnswer
  <2>4. ASSUME NEW r \in idempotency', r.scope[1] = "changesets"
        PROVE  \E p \in receipts' : p.schema = r.scope[2] /\ p.mutation = r.resource
    <3>1. CASE r = retry
      <4>1. r.scope[2] = s /\ r.resource = m
        BY <1>3, <3>1 DEF ChangesetScope
      <4> QED
        BY <1>1, <1>3, <4>1
    <3>2. CASE r \in idempotency
      BY <1>1, <2>4, <3>2 DEF RowsInv, RetryRowsAnswer
    <3> QED
      BY <1>1, <3>1, <3>2
  <2> QED
    BY <2>1, <2>2, <2>3, <2>4 DEF RetryRowsAnswer
<1>13. OutboxKept'
  <2> DEFINE rows == changes[<<"schema", s>>]
  <2>1. Announced(s) /\ rows \in Seq(BOOLEAN)
    BY <1>2, OutboxBySchema DEF RowsInv, OutboxKept, IInv, TypeOK
  <2>2. changes'[<<"schema", s>>] = Append(rows, FALSE)
    BY <1>1, <1>2 DEF IInv, TypeOK
  <2>3. \A x \in Schemas : x # s => changes'[<<"schema", x>>] = changes[<<"schema", x>>]
    BY <1>1 DEF IInv, TypeOK
  <2>4. ASSUME NEW x \in Schemas, x # s
        PROVE  Announced(x)'
    <3>1. Announced(x)
      BY OutboxBySchema DEF RowsInv, OutboxKept
    <3> QED
      BY <1>1, <1>4, <2>3, <2>4, <3>1, SameAnnounced
  <2>5. Announced(s)'
    <3>1. Len(rows) = n
      BY <1>1, <2>1 DEF Announced
    <3>2. \A i \in 1..Len(rows) : rows[i] = FALSE
      <4>1. \A i \in 1..Len(rows) : ~ rows[i]
        BY <1>1, <2>1, Zenon DEF Announced
      <4>2. \A i \in 1..Len(rows) : rows[i] \in BOOLEAN
        BY <2>1
      <4> QED
        BY <4>1, <4>2, Zenon
    <3>3. /\ Len(Append(rows, FALSE)) = n + 1
          /\ \A i \in 1..(n + 1) : Append(rows, FALSE)[i] = FALSE
      <4>1. /\ Len(Append(rows, FALSE)) = n + 1
            /\ Append(rows, FALSE)[n + 1] = FALSE
            /\ \A i \in 1..n : Append(rows, FALSE)[i] = rows[i]
        <5>1. FALSE \in BOOLEAN
          OBVIOUS
        <5> QED
          BY <2>1, <3>1, <5>1, FlagAppended, Zenon
      <4>2. \A i \in 1..(n + 1) : i = n + 1 \/ i \in 1..n
        BY <1>2
      <4> QED
        BY <3>1, <3>2, <4>1, <4>2, Zenon
    <3>4. \A i \in 1..Len(changes'[<<"schema", s>>]) : ~ changes'[<<"schema", s>>][i]
      BY <2>2, <3>3, Zenon
    <3>5. Len(changes'[<<"schema", s>>]) = n + 1
      BY <2>2, <3>3
    <3> QED
      BY <1>4, <3>4, <3>5, Zenon DEF Announced
  <2>6. s \in issued
    BY <1>1, <1>2 DEF IInv, RevisionsKept
  <2> QED
    BY <1>1, <2>3, <2>4, <2>5, <2>6, OutboxBySchema DEF RowsInv, OutboxKept
<1> QED
  BY <1>7, <1>8, <1>9, <1>10, <1>11, <1>12, <1>13 DEF RowsInv

\* A deletion leaves nothing of its schema and everything of the others.
LEMMA RemovesKeepsRows ==
    ASSUME IInv, RowsInv, NEW s \in Schemas, Removes(s)
    PROVE  RowsInv'
<1>1. /\ Live(s)
      /\ revisions' = {r \in revisions : r.schema # s}
      /\ receipts' = {r \in receipts : r.schema # s}
      /\ idempotency' = idempotency \ RetryRowsOf(s)
      /\ resources' = [resources EXCEPT ![s] = None]
      /\ changes' = [changes EXCEPT ![<<"schema", s>>] = Append(@, TRUE)]
      /\ issued' = issued /\ acks' = acks
  BY DEF Removes, RecordChange
<1>2. /\ resources'[s] = None
      /\ \A x \in Schemas : x # s => resources'[x] = resources[x]
  BY <1>1 DEF IInv, TypeOK
<1>3. /\ \A r \in revisions : r.schema \in Schemas
      /\ \A p \in receipts : p.schema \in Schemas
      /\ \A a \in acks : a.schema \in Schemas
  BY DEF IInv, TypeOK, RevisionRows, ReceiptRows
<1>4. RevisionsConsecutive'
  BY <1>1, <1>2 DEF RowsInv, RevisionsConsecutive, Live
<1>5. \A x : x # s => \A k \in idempotency : k.scope = ChangesetScope(x) => k \in idempotency'
  BY <1>1 DEF RetryRowsOf, ChangesetScope
<1>6. ReceiptsInChain'
  <2>1. ASSUME NEW p \in receipts, p.schema # s
        PROVE  /\ Live(p.schema)'
               /\ p.revision = p.base + 1
               /\ \E x, r \in revisions', k \in idempotency' :
                     /\ x.schema = p.schema /\ x.revision = p.base
                     /\ r.schema = p.schema /\ r.revision = p.revision
                     /\ k.scope = ChangesetScope(p.schema) /\ k.key = p.mutation
                     /\ k.digest.base = p.base
                     /\ r.graph.edits =
                           Append(x.graph.edits, EditOf(p.mutation, k.digest))
    <3>1. Live(p.schema)' /\ p.revision = p.base + 1
      BY <1>2, <1>3, <2>1 DEF RowsInv, ReceiptsInChain, Live
    <3>2. PICK x \in revisions, r \in revisions, k \in idempotency :
                     /\ x.schema = p.schema /\ x.revision = p.base
                     /\ r.schema = p.schema /\ r.revision = p.revision
                     /\ k.scope = ChangesetScope(p.schema) /\ k.key = p.mutation
                     /\ k.digest.base = p.base
                     /\ r.graph.edits =
                           Append(x.graph.edits, EditOf(p.mutation, k.digest))
      BY DEF RowsInv, ReceiptsInChain
    <3>3. x \in revisions' /\ r \in revisions' /\ k \in idempotency'
      BY <1>1, <1>5, <2>1, <3>2
    <3> QED
      BY <3>1, <3>2, <3>3
  <2> QED
    BY <1>1, <2>1 DEF ReceiptsInChain
<1>7. ReceiptsDiffer'
  BY <1>1 DEF RowsInv, ReceiptsDiffer
<1>8. EditsPlaced'
  BY <1>1 DEF RowsInv, EditsPlaced, Placed
<1>9. AcksAreReceipts'
  <2>1. s \in issued
    BY <1>1 DEF IInv, RevisionsKept
  <2>2. \A a \in acks : a \in receipts' \/ (a.schema \in issued' /\ ~ Live(a.schema)')
    BY <1>1, <1>2, <1>3, <2>1 DEF RowsInv, AcksAreReceipts, Live
  <2> QED
    BY <1>1, <2>2 DEF RowsInv, AcksAreReceipts
<1>10. RetryRowsAnswer'
  <2>1. \A q, r \in idempotency' : q.scope = r.scope /\ q.key = r.key => q = r
    BY <1>1 DEF RowsInv, RetryRowsAnswer
  <2>2. ASSUME NEW r \in idempotency', r.scope[1] = "schemas"
        PROVE  Live(r.resource)'
    <3>1. r.resource \in Schemas /\ Live(r.resource) /\ r.resource # s
      BY <1>1, <2>2 DEF IInv, TypeOK, IdempotencyRows, ChangesetScope, RowsInv,
                        RetryRowsAnswer, RetryRowsOf
    <3> QED
      BY <1>2, <3>1 DEF Live
  <2>3. ASSUME NEW x \in Schemas, Live(x)'
        PROVE  \E r \in idempotency' :
                  r.scope = DraftScope(resources'[x].owner) /\ r.resource = x
    <3>1. x # s /\ resources'[x] = resources[x] /\ Live(x)
      BY <1>2, <2>3 DEF Live
    <3>2. PICK r \in idempotency :
                  r.scope = DraftScope(resources[x].owner) /\ r.resource = x
      BY <3>1 DEF RowsInv, RetryRowsAnswer
    <3>3. r \in idempotency'
      BY <1>1, <3>1, <3>2 DEF RetryRowsOf, ChangesetScope, DraftScope
    <3> QED
      BY <3>1, <3>2, <3>3
  <2>4. ASSUME NEW r \in idempotency', r.scope[1] = "changesets"
        PROVE  \E p \in receipts' : p.schema = r.scope[2] /\ p.mutation = r.resource
    <3>1. PICK x \in Schemas : r.scope = ChangesetScope(x)
      BY <1>1, <2>4 DEF IInv, TypeOK, IdempotencyRows, DraftScope
    <3>2. x # s /\ r.scope[2] = x
      BY <1>1, <3>1 DEF RetryRowsOf, ChangesetScope
    <3>3. PICK p \in receipts : p.schema = x /\ p.mutation = r.resource
      BY <1>1, <2>4, <3>2 DEF RowsInv, RetryRowsAnswer
    <3> QED
      BY <1>1, <3>2, <3>3
  <2> QED
    BY <2>1, <2>2, <2>3, <2>4 DEF RetryRowsAnswer
<1>11. OutboxKept'
  <2> DEFINE rows == changes[<<"schema", s>>]
  <2>1. Announced(s) /\ rows \in Seq(BOOLEAN)
    BY OutboxBySchema DEF RowsInv, OutboxKept, IInv, TypeOK
  <2>2. changes'[<<"schema", s>>] = Append(rows, TRUE)
    BY <1>1 DEF IInv, TypeOK
  <2>3. \A x \in Schemas : x # s => changes'[<<"schema", x>>] = changes[<<"schema", x>>]
    BY <1>1 DEF IInv, TypeOK
  <2>4. ASSUME NEW x \in Schemas, x # s
        PROVE  Announced(x)'
    <3>1. Announced(x)
      BY OutboxBySchema DEF RowsInv, OutboxKept
    <3> QED
      BY <1>1, <1>2, <2>3, <2>4, <3>1, SameAnnounced
  <2>5. Announced(s)'
    <3> DEFINE n == Len(rows)
    <3>1. n \in Nat
      BY <2>1
    <3>2. \A i \in 1..n : rows[i] = FALSE
      <4>1. \A i \in 1..n : ~ rows[i]
        BY <1>1, <2>1, Zenon DEF Announced
      <4>2. \A i \in 1..n : rows[i] \in BOOLEAN
        BY <2>1
      <4> QED
        BY <4>1, <4>2, Zenon
    <3>3. /\ Len(Append(rows, TRUE)) = n + 1
          /\ n + 1 > 0
          /\ Append(rows, TRUE)[n + 1] = TRUE
          /\ \A i \in 1..(n + 1) : i # n + 1 => Append(rows, TRUE)[i] = FALSE
      BY <2>1, <3>1, <3>2
    <3>4. \A i \in 1..Len(changes'[<<"schema", s>>]) :
             changes'[<<"schema", s>>][i] <=> i = Len(changes'[<<"schema", s>>])
      BY <2>2, <3>3, Zenon
    <3>5. Len(changes'[<<"schema", s>>]) > 0
      BY <2>2, <3>3
    <3>6. ~ Live(s)'
      BY <1>2 DEF Live
    <3> QED
      BY <3>4, <3>5, <3>6, Zenon DEF Announced
  <2>6. s \in issued
    BY <1>1 DEF IInv, RevisionsKept
  <2> QED
    BY <1>1, <2>3, <2>4, <2>5, <2>6, OutboxBySchema DEF RowsInv, OutboxKept
<1> QED
  BY <1>4, <1>6, <1>7, <1>8, <1>9, <1>10, <1>11 DEF RowsInv

LEMMA RowsInvInit == Init => RowsInv
<1> SUFFICES ASSUME Init PROVE RowsInv
  OBVIOUS
<1>1. \A s \in Schemas : ~ Live(s) /\ changes[<<"schema", s>>] = <<>>
  BY DEF Init, Live
<1>2. OutboxMatches
  <2>1. issued = {} /\ Len(<<>>) = 0 /\ 1..0 = {}
    BY DEF Init
  <2> SUFFICES ASSUME NEW s \in Schemas
               PROVE  \A i \in 1..Len(changes[<<"schema", s>>]) :
                         changes[<<"schema", s>>][i]
                            <=> (~ Live(s) /\ i = Len(changes[<<"schema", s>>]))
    BY <1>1, <2>1, Zenon DEF OutboxMatches
  <2> QED
    BY <1>1, <2>1
<1>3. revisions = {} /\ receipts = {} /\ idempotency = {} /\ acks = {}
  BY DEF Init
<1>4. RevisionsConsecutive
  BY <1>1, <1>3 DEF RevisionsConsecutive
<1>5. ReceiptsInChain /\ ReceiptsDiffer /\ AcksAreReceipts
  BY <1>3 DEF ReceiptsInChain, ReceiptsDiffer, AcksAreReceipts
<1>6. EditsPlaced /\ RetryRowsAnswer
  BY <1>1, <1>3 DEF EditsPlaced, RetryRowsAnswer
<1>7. OutboxKept
  BY <1>1, <1>2 DEF OutboxKept
<1> QED
  BY <1>4, <1>5, <1>6, <1>7 DEF RowsInv

LEMMA RowsInvStep ==
    ASSUME WorkspaceAssumption, IInv, RowsInv, [Next]_vars
    PROVE  RowsInv'
BY StepIsOneOfFour, LeavesKeepsRows, DraftsKeepsRows, AppendsKeepsRows,
   RemovesKeepsRows
DEF StepKinds

-----------------------------------------------------------------------------
(* What follows from the invariant *)

\* Revisions, receipts, retry rows, acknowledgements and the outbox of every
\* schema agree in every state.
THEOREM RowsAgree == Spec => []RowsInv
<1>1. Init => RowsInv
  BY RowsInvInit
<1>2. IInv /\ RowsInv /\ [Next]_vars => RowsInv'
  BY RowsInvStep, WorkspaceAssumption
<1> QED
  BY <1>1, <1>2, InductiveInvariant, PTL DEF Spec

\* The revisions of a schema are saved one after the other, each from the one
\* before it by the changeset that has the receipt between them.
THEOREM RevisionsFormOneChain == Spec => []RevisionChain
<1>1. IInv /\ RowsInv => RevisionChain
  <2> SUFFICES ASSUME IInv, RowsInv, NEW s \in Schemas
               PROVE  /\ {r.revision : r \in {x \in revisions : x.schema = s}}
                            = IF Live(s) THEN 1..resources[s].revision ELSE {}
                      /\ {r.revision : r \in {x \in receipts : x.schema = s}}
                            = IF Live(s) THEN 2..resources[s].revision ELSE {}
                      /\ \A q, r \in revisions :
                            q.schema = s /\ r.schema = s /\ q.revision = r.revision
                               => q = r
                      /\ \A r \in receipts : r.schema = s =>
                            /\ r.revision = r.base + 1
                            /\ \E k \in idempotency :
                                  /\ k.scope = ChangesetScope(s)
                                  /\ k.key = r.mutation
                                  /\ k.digest.base = r.base
                                  /\ GraphAt(s, r.revision).edits =
                                        Append(GraphAt(s, r.base).edits,
                                               [mutation |-> r.mutation,
                                                operations |-> k.digest.operations])
    BY Zenon DEF RevisionChain
  <2>1. \A r \in revisions : r.schema = s =>
           Live(s) /\ r.revision \in 1..resources[s].revision
    BY DEF IInv, TypeOK, RevisionRows, SchemaRows, RevisionsKept, RowsInv,
           RevisionsConsecutive, Live
  <2>2. \A p \in receipts : p.schema = s =>
           Live(s) /\ p.revision \in 2..resources[s].revision
    <3>1. ASSUME NEW p \in receipts, p.schema = s
          PROVE  Live(s) /\ p.revision \in 2..resources[s].revision
      <4>1. PICK q \in revisions, r \in revisions :
               /\ q.schema = s /\ q.revision = p.base
               /\ r.schema = s /\ r.revision = p.base + 1
               /\ p.revision = p.base + 1
        BY <3>1 DEF RowsInv, ReceiptsInChain
      <4> QED
        BY <2>1, <4>1
    <3> QED
      BY <3>1
  <2>3. Live(s) => resources[s].revision \in Nat
    BY DEF IInv, TypeOK, SchemaRows, Live
  <2>4. {r.revision : r \in {x \in revisions : x.schema = s}}
           = IF Live(s) THEN 1..resources[s].revision ELSE {}
    BY <2>1 DEF RowsInv, RevisionsConsecutive
  <2>5. {r.revision : r \in {x \in receipts : x.schema = s}}
           = IF Live(s) THEN 2..resources[s].revision ELSE {}
    <3>1. Live(s) => \A n \in 2..resources[s].revision :
             \E p \in receipts : p.schema = s /\ p.revision = n
      BY <2>3 DEF RowsInv, RevisionsConsecutive
    <3> QED
      BY <2>2, <3>1
  <2>6. \A q, r \in revisions :
           q.schema = s /\ r.schema = s /\ q.revision = r.revision => q = r
    BY DEF IInv, RevisionsKept
  <2>7. ASSUME NEW p \in receipts, p.schema = s
        PROVE  /\ p.revision = p.base + 1
               /\ \E k \in idempotency :
                     /\ k.scope = ChangesetScope(s) /\ k.key = p.mutation
                     /\ k.digest.base = p.base
                     /\ GraphAt(s, p.revision).edits =
                           Append(GraphAt(s, p.base).edits,
                                  [mutation |-> p.mutation,
                                   operations |-> k.digest.operations])
    <3>1. PICK q \in revisions, r \in revisions, k \in idempotency :
             /\ q.schema = s /\ q.revision = p.base
             /\ r.schema = s /\ r.revision = p.revision
             /\ k.scope = ChangesetScope(s) /\ k.key = p.mutation
             /\ k.digest.base = p.base
             /\ r.graph.edits = Append(q.graph.edits, EditOf(p.mutation, k.digest))
      BY <2>7 DEF RowsInv, ReceiptsInChain
    <3>2. GraphAt(s, p.revision) = r.graph /\ GraphAt(s, p.base) = q.graph
      BY <3>1, GraphOfRow DEF IInv, RevisionsKept, GraphAt
    <3>3. p.revision = p.base + 1
      BY DEF RowsInv, ReceiptsInChain
    <3> QED
      BY <3>1, <3>2, <3>3 DEF EditOf
  <2> QED
    BY <2>4, <2>5, <2>6, <2>7, Zenon
<1> QED
  BY <1>1, InductiveInvariant, RowsAgree, PTL

\* A changeset that was acknowledged, to its first request or to a retry, is
\* always acknowledged the same way, and no later edit moves or repeats it.
THEOREM AcknowledgedEditsSurvive == Spec => []AckedEditsSurvive
<1>1. IInv /\ RowsInv => AckedEditsSurvive
  <2> SUFFICES ASSUME IInv, RowsInv PROVE AckedEditsSurvive
    OBVIOUS
  <2>1. ASSUME NEW a \in acks, NEW r \in revisions,
               r.schema = a.schema, r.revision >= a.revision
        PROVE  /\ Len(r.graph.edits) >= a.base
               /\ r.graph.edits[a.base].mutation = a.mutation
               /\ \A i \in 1..Len(r.graph.edits) :
                     r.graph.edits[i].mutation = a.mutation => i = a.base
    <3>1. a \in receipts
      BY <2>1 DEF RowsInv, AcksAreReceipts, IInv, RevisionsKept
    <3>2. Placed(r)
      BY DEF RowsInv, EditsPlaced
    <3>3. a.base \in Nat /\ a.revision = a.base + 1 /\ r.revision \in Nat
      BY <3>1 DEF RowsInv, ReceiptsInChain, IInv, TypeOK, ReceiptRows, RevisionRows
    <3>4. Len(r.graph.edits) >= a.base
      BY <2>1, <3>2, <3>3 DEF Placed
    <3>5. r.graph.edits[a.base].mutation = a.mutation
      BY <2>1, <3>1, <3>2 DEF Placed
    <3>6. ASSUME NEW i \in 1..Len(r.graph.edits),
                 r.graph.edits[i].mutation = a.mutation
          PROVE  i = a.base
      <4>1. PICK p \in receipts : /\ p.schema = r.schema /\ p.base = i
                                  /\ p.mutation = a.mutation
        <5>1. \E p \in receipts : /\ p.schema = r.schema /\ p.base = i
                                 /\ p.mutation = r.graph.edits[i].mutation
          BY <3>2, Zenon DEF Placed
        <5> QED
          BY <5>1, <3>6
      <4>2. p = a
        BY <2>1, <3>1, <4>1 DEF RowsInv, ReceiptsDiffer
      <4> QED
        BY <4>1, <4>2
    <3> QED
      BY <3>4, <3>5, <3>6
  <2> QED
    BY <2>1, Zenon DEF AckedEditsSurvive, RowsInv, AcksAreReceipts
<1> QED
  BY <1>1, InductiveInvariant, RowsAgree, PTL

\* A retry key is of one request, and what it names exists.
THEOREM RetriesAreAnswered == Spec => []RetryRowsAnswer
<1>1. RowsInv => RetryRowsAnswer
  BY DEF RowsInv
<1> QED
  BY <1>1, RowsAgree, PTL

\* Every committed change of a schema has its row in the outbox, a deletion
\* the last one.
THEOREM OutboxHasEveryChange == Spec => []OutboxMatches
<1>1. RowsInv => OutboxMatches
  BY DEF RowsInv, OutboxKept
<1> QED
  BY <1>1, RowsAgree, PTL

-----------------------------------------------------------------------------
(* The refinement: behind the rows there is one document per schema *)

\* A schema a step does not touch is the same document after it.
LEMMA SameDocument ==
    ASSUME IInv, RevisionsKept', NEW s \in Schemas, resources'[s] = resources[s],
           s \in issued' <=> s \in issued,
           \A r \in revisions : r.schema = s => r \in revisions'
    PROVE  Document'[s] = Document[s]
<1>1. Live(s)' <=> Live(s)
  BY DEF Live
<1>2. CASE Live(s)
  <2> DEFINE n == resources[s].revision
  <2>1. PICK r \in revisions : r.schema = s /\ r.revision = n
    BY <1>2 DEF IInv, RevisionsKept
  <2>2. GraphAt(s, n) = r.graph
    BY <2>1, GraphOfRow DEF IInv, RevisionsKept, GraphAt
  <2>3. (CHOOSE x \in revisions' : x.schema = s /\ x.revision = n).graph = r.graph
    BY <2>1, GraphOfRow DEF RevisionsKept
  <2> QED
    BY <1>1, <1>2, <2>2, <2>3 DEF Document, GraphAt
<1>3. CASE ~ Live(s)
  BY <1>1, <1>3 DEF Document
<1> QED
  BY <1>2, <1>3

\* The document of a schema that is there is the graph of its latest row.
LEMMA DocumentOfRow ==
    ASSUME IInv, NEW q \in revisions, Live(q.schema),
           q.revision = resources[q.schema].revision
    PROVE  /\ q.schema \in Schemas
           /\ Document[q.schema] = q.graph
           /\ q.graph \in Graphs
<1>1. q.schema \in Schemas /\ q.graph \in Graphs
  BY DEF IInv, TypeOK, RevisionRows
<1>2. GraphAt(q.schema, q.revision) = q.graph
  BY GraphOfRow DEF IInv, RevisionsKept, GraphAt
<1> QED
  BY <1>1, <1>2 DEF Document

LEMMA DocumentChangesOne ==
    ASSUME NEW s \in Schemas, NEW new, Document'[s] = new,
           \A x \in Schemas : x # s => Document'[x] = Document[x]
    PROVE  Document' = [Document EXCEPT ![s] = new]
BY DEF Document

LEMMA LeavesKeepsDocument ==
    ASSUME IInv, IInv', Leaves
    PROVE  Document' = Document
<1>1. \A s \in Schemas : Document'[s] = Document[s]
  BY SameDocument DEF Leaves, IInv
<1> QED
  BY <1>1 DEF Document

LEMMA DraftsIsDraft ==
    ASSUME IInv, IInv', NEW s \in Schemas, NEW u \in Subjects, NEW key \in Keys,
           NEW body \in DraftBodies, Drafts(s, u, key, body)
    PROVE  History!Draft(s)
<1> DEFINE graph == [origin |-> body.alternative, edits |-> <<>>]
           row == [schema |-> s, revision |-> 1, graph |-> graph]
<1>1. /\ s \notin issued /\ issued' = issued \cup {s}
      /\ resources' = [resources EXCEPT ![s] = [revision |-> 1, owner |-> u]]
      /\ revisions' = revisions \cup {row}
  BY DEF Drafts, SaveRevision
<1>2. Document[s] = Unborn
  BY <1>1 DEF Document, IInv, RevisionsKept
<1>3. /\ Live(s)' /\ resources'[s].revision = 1
      /\ \A x \in Schemas : x # s => resources'[x] = resources[x]
  BY <1>1, NoneAssumption DEF IInv, TypeOK, Live, SchemaRows
<1>4. Document'[s] = graph
  <2>1. row \in revisions' /\ row.schema = s /\ row.revision = 1 /\ row.graph = graph
    BY <1>1
  <2>2. (CHOOSE x \in revisions' : x.schema = s /\ x.revision = 1).graph = graph
    BY <2>1, GraphOfRow DEF IInv, RevisionsKept
  <2> QED
    BY <1>3, <2>2 DEF Document, GraphAt
<1>5. \A x \in Schemas : x # s => Document'[x] = Document[x]
  BY <1>1, <1>3, SameDocument DEF IInv
<1>6. Document' = [Document EXCEPT ![s] = graph]
  BY <1>4, <1>5, DocumentChangesOne
<1>7. body.alternative \in Alternatives
  BY DEF DraftBodies
<1> QED
  BY <1>2, <1>6, <1>7 DEF History!Draft

LEMMA AppendsIsEdit ==
    ASSUME IInv, IInv', RowsInv, NEW q \in revisions, NEW m \in Mutations,
           NEW body \in ChangesetBodies, Appends(q, m, body)
    PROVE  History!Edit(q.schema, m, body.operations)
<1> DEFINE s == q.schema
           n == q.revision
           edit == [mutation |-> m, operations |-> body.operations]
           graph == [q.graph EXCEPT !.edits = Append(@, edit)]
           row == RowAfter(q, EditOf(m, body))
<1>1. /\ Live(s) /\ n = resources[s].revision
      /\ Accepts(q.graph, body.operations)
      /\ revisions' = revisions \cup {row}
      /\ resources' = [resources EXCEPT ![s].revision = n + 1]
      /\ issued' = issued
      /\ \A r \in idempotency : <<r.scope, r.key>> # <<ChangesetScope(s), m>>
  BY DEF Appends
<1>2. s \in Schemas /\ Document[s] = q.graph /\ q.graph \in Graphs
  BY <1>1, DocumentOfRow
<1>3. Document[s] \notin {Unborn, Deleted}
  BY <1>2, DocumentAssumption
<1>4. \A i \in 1..Len(q.graph.edits) : q.graph.edits[i].mutation # m
  <2>1. ASSUME NEW i \in 1..Len(q.graph.edits), q.graph.edits[i].mutation = m
        PROVE  FALSE
    <3>1. Placed(q)
      BY DEF RowsInv, EditsPlaced
    <3>2. PICK p \in receipts : p.schema = s /\ p.mutation = m
      BY <2>1, <3>1, Zenon DEF Placed
    <3>3. \E k \in idempotency : k.scope = ChangesetScope(s) /\ k.key = m
      BY <3>2 DEF IInv, ReceiptsRemembered
    <3> QED
      BY <1>1, <3>3
  <2> QED
    BY <2>1
<1>5. /\ Live(s)' /\ resources'[s].revision = n + 1
      /\ \A x \in Schemas : x # s => resources'[x] = resources[x]
  <2>1. resources[s] \in SchemaRows
    BY <1>1, <1>2 DEF IInv, TypeOK, Live
  <2>2. resources'[s] = [resources[s] EXCEPT !.revision = n + 1]
    BY <1>1, <1>2 DEF IInv, TypeOK
  <2>3. n \in Nat
    BY DEF IInv, TypeOK, RevisionRows
  <2>4. resources'[s] \in SchemaRows /\ resources'[s].revision = n + 1
    BY <2>1, <2>2, <2>3 DEF SchemaRows
  <2>5. \A x \in Schemas : x # s => resources'[x] = resources[x]
    BY <1>1, <1>2 DEF IInv, TypeOK
  <2> QED
    BY <2>4, <2>5, NoneAssumption DEF Live
<1>6. Document'[s] = graph
  <2>1. /\ row \in revisions' /\ row.schema = s /\ row.revision = n + 1
        /\ row.graph = graph
    BY <1>1 DEF RowAfter, EditOf
  <2>2. (CHOOSE x \in revisions' : x.schema = s /\ x.revision = n + 1).graph = graph
    BY <2>1, GraphOfRow DEF IInv, RevisionsKept
  <2> QED
    BY <1>2, <1>5, <2>2 DEF Document, GraphAt
<1>7. \A x \in Schemas : x # s => Document'[x] = Document[x]
  <2>1. \A r \in revisions : r \in revisions'
    BY <1>1
  <2> QED
    BY <1>1, <1>5, <2>1, SameDocument DEF IInv
<1>8. Document' = [Document EXCEPT ![s] = graph]
  BY <1>2, <1>6, <1>7, DocumentChangesOne
<1>9. Document' = [Document EXCEPT ![s].edits = Append(@, edit)]
  BY <1>2, <1>8
<1> QED
  BY <1>1, <1>2, <1>3, <1>4, <1>9 DEF History!Edit

LEMMA RemovesIsDelete ==
    ASSUME IInv, IInv', NEW s \in Schemas, Removes(s)
    PROVE  History!Delete(s)
<1>1. /\ Live(s)
      /\ revisions' = {r \in revisions : r.schema # s}
      /\ resources' = [resources EXCEPT ![s] = None]
      /\ issued' = issued
  BY DEF Removes
<1>2. Document[s] \notin {Unborn, Deleted}
  <2>1. PICK q \in revisions : q.schema = s /\ q.revision = resources[s].revision
    BY <1>1 DEF IInv, RevisionsKept
  <2> QED
    BY <1>1, <2>1, DocumentOfRow, DocumentAssumption
<1>3. s \in issued /\ resources'[s] = None
      /\ \A x \in Schemas : x # s => resources'[x] = resources[x]
  BY <1>1 DEF IInv, RevisionsKept, TypeOK
<1>4. Document'[s] = Deleted
  BY <1>1, <1>3 DEF Document, Live
<1>5. \A x \in Schemas : x # s => Document'[x] = Document[x]
  BY <1>1, <1>3, SameDocument DEF IInv
<1>6. Document' = [Document EXCEPT ![s] = Deleted]
  BY <1>4, <1>5, DocumentChangesOne
<1> QED
  BY <1>2, <1>6 DEF History!Delete

\* However the requests interleave, each schema behaves like one document that
\* is drafted once, edited one changeset at a time and deleted for good.
THEOREM StoreKeepsOneHistory == Spec => HistorySpec
<1>1. Init => History!Init
  BY DEF Init, History!Init, Document, Live
<1>2. IInv /\ IInv' /\ RowsInv /\ [Next]_vars => [History!Next]_Document
  <2> SUFFICES ASSUME IInv, IInv', RowsInv, [Next]_vars
               PROVE  History!Next \/ Document' = Document
    OBVIOUS
  <2>1. CASE Leaves
    BY <2>1, LeavesKeepsDocument
  <2>2. ASSUME NEW s \in Schemas, NEW u \in Subjects, NEW key \in Keys,
               NEW body \in DraftBodies, Drafts(s, u, key, body)
        PROVE  History!Next
    BY <2>2, DraftsIsDraft DEF History!Next
  <2>3. ASSUME NEW q \in revisions, NEW m \in Mutations,
               NEW body \in ChangesetBodies, Appends(q, m, body)
        PROVE  History!Next
    <3>1. History!Edit(q.schema, m, body.operations)
      BY <2>3, AppendsIsEdit
    <3>2. q.schema \in Schemas /\ body.operations \in Operations
      BY DEF IInv, TypeOK, RevisionRows, ChangesetBodies
    <3> QED
      BY <3>1, <3>2 DEF History!Next
  <2>4. ASSUME NEW s \in Schemas, Removes(s)
        PROVE  History!Next
    BY <2>4, RemovesIsDelete DEF History!Next
  <2> QED
    BY <2>1, <2>2, <2>3, <2>4, StepIsOneOfFour, WorkspaceAssumption DEF StepKinds
<1> QED
  BY <1>1, <1>2, InductiveInvariant, RowsAgree, PTL DEF Spec, HistorySpec, History!Spec
=============================================================================
