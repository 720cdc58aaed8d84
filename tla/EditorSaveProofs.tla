---------------------------- MODULE EditorSaveProofs ----------------------------
(***************************************************************************)
(* Proofs about EditorSave, for any number of editors, sessions, edits and *)
(* saves, any collection of fields and any set of names.                   *)
(***************************************************************************)
EXTENDS EditorSave, SequenceTheorems, WellFoundedInduction, TLAPS

-----------------------------------------------------------------------------
(* The last of some indexes *)

\* A set of indexes that is not empty has a least member.
LEMMA LeastExists ==
    ASSUME NEW T, T \subseteq Nat, T # {}
    PROVE  \E x \in T : \A y \in T : x <= y
<1>1. \E x \in T : \A y \in T : ~ (<<y, x>> \in OpToRel(<, Nat))
  BY NatLessThanWellFounded, WFMin
<1>2. PICK x \in T : \A y \in T : ~ (<<y, x>> \in OpToRel(<, Nat))
  BY <1>1
<1>3. \A y \in T : ~ (y < x)
  BY <1>2 DEF OpToRel
<1> QED
  BY <1>3

\* And, when it is bounded, a greatest one, which Max chooses.
LEMMA GreatestExists ==
    ASSUME NEW n \in Nat, NEW T, T \subseteq 1..n, T # {}
    PROVE  Max(T) \in T /\ \A y \in T : Max(T) >= y
<1> DEFINE U == {n - x : x \in T}
<1>1. U \subseteq Nat /\ U # {}
  OBVIOUS
<1>2. PICK u \in U : \A v \in U : u <= v
  BY <1>1, LeastExists
<1>3. PICK x \in T : u = n - x
  BY <1>2
<1>4. ASSUME NEW y \in T
      PROVE  x >= y
  <2>1. n - x <= n - y
    BY <1>2, <1>3
  <2> QED
    BY <2>1
<1>5. \E z \in T : \A y \in T : z >= y
  BY <1>4
<1> QED
  BY <1>5 DEF Max

\* The last operation on a field decides what it is called.
Decides(ops, f, i) ==
    /\ i \in 1..Len(ops)
    /\ ops[i].field = f
    /\ \A j \in 1..Len(ops) : ops[j].field = f => j <= i

Untouched(ops, f) == \A i \in 1..Len(ops) : ops[i].field # f

LEMMA LastDecides ==
    ASSUME NEW ops \in Seq(Operations), NEW f
    PROVE  Untouched(ops, f) \/ \E i \in 1..Len(ops) : Decides(ops, f, i)
<1> DEFINE I == {i \in 1..Len(ops) : ops[i].field = f}
<1>1. Len(ops) \in Nat /\ I \subseteq 1..Len(ops)
  OBVIOUS
<1>2. CASE I = {}
  BY <1>2 DEF Untouched
<1>3. CASE I # {}
  <2> HIDE DEF I
  <2>1. Max(I) \in I /\ \A y \in I : Max(I) >= y
    BY <1>1, <1>3, GreatestExists
  <2> USE DEF I
  <2>2. Decides(ops, f, Max(I))
    BY <2>1 DEF Decides
  <2> QED
    BY <2>1, <2>2
<1> QED
  BY <1>2, <1>3

LEMMA ProjectAt ==
    ASSUME NEW doc, NEW ops \in Seq(Operations), NEW f \in Fields
    PROVE  /\ Untouched(ops, f) => Project(doc, ops)[f] = doc[f]
           /\ \A i : Decides(ops, f, i) => Project(doc, ops)[f] = ops[i].name
<1> DEFINE I == {i \in 1..Len(ops) : ops[i].field = f}
<1>1. Project(doc, ops)[f] = IF I = {} THEN doc[f]
                             ELSE IF Max(I) = 0 THEN doc[f] ELSE ops[Max(I)].name
  BY DEF Project, SelectLastInSeq
<1>2. ASSUME Untouched(ops, f)
      PROVE  I = {}
  BY <1>2 DEF Untouched
<1>3. ASSUME NEW i, Decides(ops, f, i)
      PROVE  Max(I) = i /\ I # {} /\ i # 0
  <2>1. i \in I /\ \A y \in I : i >= y
    BY <1>3 DEF Decides
  <2>2. \A z \in I : (\A y \in I : z >= y) => z = i
    BY <2>1
  <2> HIDE DEF I
  <2>3. Max(I) = i
    BY <2>1, <2>2 DEF Max
  <2> QED
    BY <2>1, <2>3, <1>3 DEF Decides
<1> HIDE DEF I
<1> QED
  BY <1>1, <1>2, <1>3

LEMMA ProjectType ==
    ASSUME NEW doc \in Documents, NEW ops \in Seq(Operations)
    PROVE  Project(doc, ops) \in Documents
<1>1. ASSUME NEW f \in Fields
      PROVE  Project(doc, ops)[f] \in Names
  <2>1. CASE Untouched(ops, f)
    BY <2>1, ProjectAt DEF Documents
  <2>2. ASSUME NEW i \in 1..Len(ops), Decides(ops, f, i)
        PROVE  Project(doc, ops)[f] \in Names
    <3>1. ops[i] \in Operations
      OBVIOUS
    <3>2. Project(doc, ops)[f] = ops[i].name
      BY <2>2, ProjectAt
    <3> QED
      BY <3>1, <3>2 DEF Operations
  <2> QED
    BY <2>1, <2>2, LastDecides
<1>2. Project(doc, ops) = [f \in Fields |-> Project(doc, ops)[f]]
  BY DEF Project
<1> HIDE DEF Project
<1> QED
  BY <1>1, <1>2 DEF Documents

\* Two projections are the same if they agree on every field.
LEMMA ProjectsEqual ==
    ASSUME NEW p \in Documents, NEW q \in Documents, \A f \in Fields : p[f] = q[f]
    PROVE  p = q
BY DEF Documents

LEMMA ProjectNothing ==
    ASSUME NEW doc \in Documents
    PROVE  Project(doc, <<>>) = doc
<1>1. <<>> \in Seq(Operations) /\ \A f : Untouched(<<>>, f)
  BY DEF Untouched
<1> QED
  BY <1>1, ProjectType, ProjectAt, ProjectsEqual

LEMMA ProjectAppend ==
    ASSUME NEW doc \in Documents, NEW ops \in Seq(Operations), NEW op \in Operations
    PROVE  Project(doc, Append(ops, op)) = [Project(doc, ops) EXCEPT ![op.field] = op.name]
<1> DEFINE all == Append(ops, op)
           n == Len(ops)
<1>1. /\ all \in Seq(Operations) /\ Len(all) = n + 1 /\ n \in Nat
      /\ all[n + 1] = op /\ \A i \in 1..n : all[i] = ops[i]
      /\ \A i \in 1..Len(all) : i \in 1..n \/ i = n + 1
  OBVIOUS
<1>2. Project(doc, ops) \in Documents /\ Project(doc, all) \in Documents
  BY <1>1, ProjectType
<1>3. op.field \in Fields /\ op.name \in Names
  BY DEF Operations
<1> HIDE DEF all
<1>4. Project(doc, all)[op.field] = op.name
  <2>1. Decides(all, op.field, n + 1)
    BY <1>1 DEF Decides
  <2> QED
    BY <1>1, <1>3, <2>1, ProjectAt
<1>5. ASSUME NEW f \in Fields, f # op.field
      PROVE  Project(doc, all)[f] = Project(doc, ops)[f]
  <2>1. CASE Untouched(ops, f)
    <3>1. Untouched(all, f)
      BY <1>1, <1>5, <2>1 DEF Untouched
    <3> QED
      BY <1>1, <2>1, <3>1, ProjectAt
  <2>2. ASSUME NEW i \in 1..n, Decides(ops, f, i)
        PROVE  Project(doc, all)[f] = Project(doc, ops)[f]
    <3>1. Decides(all, f, i)
      BY <1>1, <1>5, <2>2 DEF Decides
    <3> QED
      BY <1>1, <2>2, <3>1, ProjectAt
  <2> QED
    BY <2>1, <2>2, LastDecides
<1>6. [Project(doc, ops) EXCEPT ![op.field] = op.name] \in Documents
  BY <1>2, <1>3 DEF Documents
<1>7. \A f \in Fields :
         Project(doc, all)[f] = [Project(doc, ops) EXCEPT ![op.field] = op.name][f]
  BY <1>2, <1>3, <1>4, <1>5 DEF Documents
<1> QED
  BY <1>2, <1>6, <1>7, ProjectsEqual DEF all

\* Parts of a sequence.
LEMMA Parts ==
    ASSUME NEW S, NEW s \in Seq(S), NEW k \in 0..Len(s)
    PROVE  /\ SubSeq(s, 1, k) \in Seq(S) /\ Len(SubSeq(s, 1, k)) = k
           /\ \A i \in 1..k : SubSeq(s, 1, k)[i] = s[i]
           /\ SubSeq(s, k + 1, Len(s)) \in Seq(S)
           /\ Len(SubSeq(s, k + 1, Len(s))) = Len(s) - k
           /\ \A i \in 1..(Len(s) - k) : SubSeq(s, k + 1, Len(s))[i] = s[k + i]
<1>1. Len(s) \in Nat /\ \A i \in 1..Len(s) : s[i] \in S
  OBVIOUS
<1> QED
  BY <1>1

\* To project the first operations and then the rest is to project all.
LEMMA ProjectParts ==
    ASSUME NEW doc \in Documents, NEW ops \in Seq(Operations), NEW k \in 0..Len(ops)
    PROVE  Project(Project(doc, SubSeq(ops, 1, k)), SubSeq(ops, k + 1, Len(ops)))
              = Project(doc, ops)
<1> DEFINE n == Len(ops)
           first == SubSeq(ops, 1, k)
           rest == SubSeq(ops, k + 1, Len(ops))
           middle == Project(doc, first)
<1>1. /\ n \in Nat /\ k \in 0..n
      /\ first \in Seq(Operations) /\ Len(first) = k
      /\ \A i \in 1..k : first[i] = ops[i]
      /\ rest \in Seq(Operations) /\ Len(rest) = n - k
      /\ \A i \in 1..(n - k) : rest[i] = ops[k + i]
  BY Parts
<1> HIDE DEF first, rest
<1>2. middle \in Documents
  BY <1>1, ProjectType
<1>3. Project(middle, rest) \in Documents /\ Project(doc, ops) \in Documents
  BY <1>1, <1>2, ProjectType
<1> HIDE DEF middle
<1>4. ASSUME NEW f \in Fields
      PROVE  Project(middle, rest)[f] = Project(doc, ops)[f]
  <2>1. ASSUME NEW i \in 1..Len(rest), Decides(rest, f, i)
        PROVE  Project(middle, rest)[f] = Project(doc, ops)[f]
    <3>1. k + i \in 1..n /\ ops[k + i] = rest[i] /\ ops[k + i].field = f
      BY <1>1, <2>1 DEF Decides
    <3>2. ASSUME NEW j \in 1..n, ops[j].field = f, j > k
          PROVE  j <= k + i
      <4>1. j - k \in 1..(n - k) /\ rest[j - k] = ops[j]
        BY <1>1, <3>2
      <4>2. j - k <= i
        BY <1>1, <2>1, <3>2, <4>1 DEF Decides
      <4> QED
        BY <1>1, <4>2
    <3>3. Decides(ops, f, k + i)
      BY <1>1, <3>1, <3>2 DEF Decides
    <3>4. Project(middle, rest)[f] = rest[i].name
      BY <1>1, <2>1, ProjectAt
    <3>5. Project(doc, ops)[f] = ops[k + i].name
      BY <3>3, ProjectAt
    <3> QED
      BY <3>1, <3>4, <3>5
  <2>2. ASSUME Untouched(rest, f)
        PROVE  Project(middle, rest)[f] = Project(doc, ops)[f]
    <3>1. Project(middle, rest)[f] = middle[f]
      BY <1>1, <2>2, ProjectAt
    <3>2. ASSUME NEW j \in 1..n, ops[j].field = f
          PROVE  j <= k
      <4>1. ASSUME j > k
            PROVE  FALSE
        <5>1. j - k \in 1..(n - k) /\ rest[j - k] = ops[j]
          BY <1>1, <4>1
        <5> QED
          BY <1>1, <2>2, <3>2, <5>1 DEF Untouched
      <4> QED
        BY <1>1, <4>1
    <3>3. ASSUME NEW i \in 1..k, Decides(first, f, i)
          PROVE  middle[f] = Project(doc, ops)[f]
      <4>1. Decides(ops, f, i)
        BY <1>1, <3>2, <3>3 DEF Decides
      <4> QED
        BY <1>1, <3>3, <4>1, ProjectAt DEF middle
    <3>4. ASSUME Untouched(first, f)
          PROVE  middle[f] = Project(doc, ops)[f]
      <4>1. Untouched(ops, f)
        BY <1>1, <3>2, <3>4 DEF Untouched
      <4> QED
        BY <1>1, <3>4, <4>1, ProjectAt DEF middle
    <3> QED
      BY <1>1, <3>1, <3>3, <3>4, LastDecides
  <2> QED
    BY <1>1, <2>1, <2>2, LastDecides
<1> QED
  BY <1>3, <1>4, ProjectsEqual DEF middle, first, rest

-----------------------------------------------------------------------------
(* The inductive invariant *)

\* The requests that have arrived or may, and what each stands for.
Calling(e) == call[e] # None
Sent == orphans \cup {call[e].request : e \in {x \in Editors : Calling(x)}}
Made == Sent \cup receipts

\* The identity is one of the session that e has open.
Own(e, id) == id.editor = e /\ id.session = document[e].session

\* The save that e has not settled, if any.
Pending(e, id) == document[e].pending # None /\ id = document[e].pending.id

\* The unsaved edits are the end of what was made, a save carries the first of
\* them, and the history is not longer than it may be.
EditsKept ==
    \A e \in Editors :
        LET d == document[e] IN
        /\ Len(made[e]) <= MaxEdits
        /\ Len(d.edits) <= Len(made[e])
        /\ d.edits = SubSeq(made[e], Len(made[e]) - Len(d.edits) + 1, Len(made[e]))
        /\ d.pending # None =>
              /\ d.pending.count <= Len(d.edits)
              /\ d.pending.id = [editor |-> e, session |-> d.session, number |-> d.saves]
        /\ Len(d.history) <= HistoryLimit

\* Every revision but the first is that before it with the operations of one
\* receipt, and an identity has one receipt.
RevisionsChained ==
    /\ Len(revisions) >= 1
    /\ \A q \in receipts :
          /\ q.revision = q.base + 1
          /\ q.revision <= Len(revisions)
          /\ revisions[q.revision] = Project(revisions[q.base], q.operations)
    /\ \A n \in 2..Len(revisions) : \E q \in receipts : q.revision = n
    /\ \A p, q \in receipts : p.id = q.id => p = q
    /\ \A r \in Sent : r.base <= Len(revisions)

\* An identity stands for one changeset, wherever it turns up, and identities of
\* the saves to come turn up nowhere.
IdentitiesKept ==
    /\ \A r \in Sent, x \in Made : r.id = x.id => SameDigest(r, x)
    /\ \A e \in Editors, x \in Made : x.id.editor = e =>
          /\ x.id.session <= document[e].session
          /\ x.id.session = document[e].session => x.id.number <= document[e].saves
    /\ \A e \in Editors, x \in Made : Pending(e, x.id) =>
          /\ x.base = document[e].base
          /\ x.operations = SubSeq(document[e].edits, 1, document[e].pending.count)

\* A request that the server will never apply any more.
Spent(r) ==
    r.base < Len(revisions) \/ ~ Accepts(revisions[r.base], r.operations)

\* Of the requests of a session only those of the unsettled save can make a
\* revision yet, and its other receipts are part of its base.
SettledForGood ==
    \A e \in Editors :
        /\ \A r \in Sent : Own(e, r.id) /\ ~ Pending(e, r.id) =>
              Known(r.id) # {} \/ Spent(r)
        /\ \A q \in receipts : Own(e, q.id) /\ ~ Pending(e, q.id) =>
              q.revision <= document[e].base

\* The answers that settle a save without applying it: all but 404.
Refused == {"conflict", "reused", "invalid"}

\* A call is of the unsettled save, and its answer agrees with the receipts.
CallKept(e) ==
    Calling(e) =>
        /\ Pending(e, call[e].request.id)
        /\ call[e].reply # None =>
              /\ call[e].reply.status = "applied" =>
                    \E q \in receipts : /\ q.id = call[e].request.id
                                        /\ q.revision = call[e].reply.revision
              /\ call[e].reply.status \in Refused =>
                    Known(call[e].request.id) = {} /\ Spent(call[e].request)

CallsKept == \A e \in Editors : CallKept(e)

\* How many operations of the session were applied.
Applied(e) ==
    Len(made[e]) - Len(document[e].edits)
    + (IF \E q \in receipts : Pending(e, q.id) THEN document[e].pending.count ELSE 0)

AppliedInOrder ==
    \A e \in Editors :
        \E at \in [OwnReceipts(e) -> 0..Len(made[e])] :
            InOrder(OwnReceipts(e), at, made[e], Applied(e))

\* An edit leads from one document to another, and back.
Link(edit, from, to) ==
    /\ to = [from EXCEPT ![edit.forward.field] = edit.forward.name]
    /\ from = [to EXCEPT ![edit.inverse.field] = edit.inverse.name]

\* Every edit of the history leads from one document that was seen to the next,
\* and back.
SeenLinked ==
    \A e \in Editors :
        LET d == document[e]
            s == seen[e] IN
        /\ Len(s) = Len(d.history) + 1
        /\ Local(d) = s[d.position + 1]
        /\ \A i \in 1..Len(d.history) : Link(d.history[i], s[i], s[i + 1])

SavesInv ==
    /\ EditsKept /\ RevisionsChained /\ IdentitiesKept
    /\ SettledForGood /\ CallsKept
    /\ BaseIsRevision /\ RefusalsAreForeign

IInv == TypeOK /\ SavesInv /\ AppliedInOrder /\ SeenLinked

-----------------------------------------------------------------------------
(* The server takes a request *)

\* What it means that a request is known: its identity has a receipt.
LEMMA KnownReceipt ==
    ASSUME NEW id
    PROVE  Known(id) # {} <=> \E q \in receipts : q.id = id
BY DEF Known

\* The request is applied: revision n + 1 is what it makes of revision n.
AppliesRequest(r) ==
    /\ ~ deleted /\ UNCHANGED deleted
    /\ Known(r.id) = {}
    /\ r.base = Len(revisions)
    /\ Accepts(revisions[r.base], r.operations)
    /\ revisions' = Append(revisions, Project(revisions[r.base], r.operations))
    /\ receipts' = receipts \cup
          {[id |-> r.id, base |-> r.base, operations |-> r.operations,
            revision |-> Len(revisions) + 1]}

LEMMA AnswerKinds ==
    ASSUME TypeOK, SavesInv, NEW r \in Sent
    PROVE  /\ deleted => Answer(r) = Refusal("unavailable")
           /\ ~ deleted /\ Known(r.id) # {} =>
                 \E q \in receipts :
                    /\ q.id = r.id /\ q.revision <= Len(revisions)
                    /\ Answer(r) = [status |-> "applied", revision |-> q.revision]
           /\ ~ deleted /\ Known(r.id) = {} /\ r.base # Len(revisions) =>
                 Answer(r) = Refusal("conflict")
           /\ ~ deleted /\ Known(r.id) = {} /\ r.base = Len(revisions)
                 /\ ~ Accepts(revisions[r.base], r.operations) =>
                 Answer(r) = Refusal("invalid")
           /\ ~ deleted /\ Known(r.id) = {} /\ r.base = Len(revisions)
                 /\ Accepts(revisions[r.base], r.operations) =>
                 Answer(r) = [status |-> "applied", revision |-> Len(revisions) + 1]
<1>1. ASSUME ~ deleted, Known(r.id) # {}
      PROVE  \E q \in receipts :
                /\ q.id = r.id /\ q.revision <= Len(revisions)
                /\ Answer(r) = [status |-> "applied", revision |-> q.revision]
  <2> DEFINE q == CHOOSE x \in Known(r.id) : TRUE
  <2>1. q \in Known(r.id)
    BY <1>1
  <2>2. q \in receipts /\ q.id = r.id
    BY <2>1 DEF Known
  <2>3. SameDigest(q, r)
    BY <2>2 DEF SavesInv, IdentitiesKept, Made, SameDigest
  <2>4. Answer(r) = [status |-> "applied", revision |-> q.revision]
    BY <1>1, <2>3 DEF Answer
  <2> HIDE DEF q
  <2> QED
    BY <2>2, <2>4 DEF SavesInv, RevisionsChained
<1> QED
  BY <1>1 DEF Answer

LEMMA HandleKinds ==
    ASSUME TypeOK, SavesInv, NEW r \in Sent, Handle(r)
    PROVE  \/ /\ UNCHANGED server
              /\ deleted \/ Known(r.id) # {} \/ Spent(r)
           \/ /\ AppliesRequest(r)
              /\ Answer(r) = [status |-> "applied", revision |-> Len(revisions) + 1]
<1>1. Len(revisions) \in Nat /\ r.base <= Len(revisions) /\ r.base \in Nat
  BY DEF TypeOK, SavesInv, RevisionsChained, Sent, Calling, Requests
<1>2. CASE ~ deleted /\ Known(r.id) # {}
  <2>1. Answer(r).revision <= Len(revisions)
    BY <1>2, AnswerKinds
  <2>2. Answer(r).revision # Len(revisions) + 1
    <3>1. PICK q \in receipts : Answer(r).revision = q.revision
      BY <1>2, AnswerKinds
    <3>2. q.revision \in Nat
      BY DEF TypeOK, Receipts
    <3> QED
      BY <1>1, <2>1, <3>1, <3>2
  <2> QED
    BY <1>2, <2>2 DEF Handle
<1>3. CASE /\ ~ deleted /\ Known(r.id) = {}
           /\ r.base # Len(revisions) \/ ~ Accepts(revisions[r.base], r.operations)
  <2>1. Answer(r).revision = 0
    BY <1>3, AnswerKinds DEF Refusal
  <2>2. Spent(r)
    BY <1>1, <1>3 DEF Spent
  <2>3. 0 # Len(revisions) + 1
    BY <1>1
  <2> QED
    BY <2>1, <2>2, <2>3 DEF Handle
<1>4. CASE /\ ~ deleted /\ Known(r.id) = {} /\ r.base = Len(revisions)
           /\ Accepts(revisions[r.base], r.operations)
  <2>1. Answer(r) = [status |-> "applied", revision |-> Len(revisions) + 1]
    BY <1>4, AnswerKinds
  <2> QED
    BY <1>4, <2>1 DEF Handle, AppliesRequest
<1>5. CASE deleted
  <2>1. Answer(r).revision = 0
    BY <1>5, AnswerKinds DEF Refusal
  <2>2. 0 # Len(revisions) + 1
    BY <1>1
  <2> QED
    BY <1>5, <2>1, <2>2 DEF Handle
<1> QED
  BY <1>2, <1>3, <1>4, <1>5

\* What an applied request leaves as it was.
LEMMA AppliedRequest ==
    ASSUME TypeOK, NEW r \in Requests, AppliesRequest(r)
    PROVE  /\ revisions' \in Seq(Documents)
           /\ Len(revisions) \in Nat /\ Len(revisions') = Len(revisions) + 1
           /\ r.base \in 1..Len(revisions) /\ Len(revisions) >= 1
           /\ \A n \in 1..Len(revisions) : revisions'[n] = revisions[n]
           /\ revisions'[Len(revisions) + 1] = Project(revisions[r.base], r.operations)
           /\ receipts' \subseteq Receipts
           /\ \E q \in receipts' :
                 /\ receipts' = receipts \cup {q}
                 /\ q.id = r.id /\ q.base = r.base
                 /\ q.operations = r.operations /\ q.revision = Len(revisions) + 1
<1> DEFINE new == [id |-> r.id, base |-> r.base, operations |-> r.operations,
                   revision |-> Len(revisions) + 1]
           doc == Project(revisions[r.base], r.operations)
<1>1. Len(revisions) \in Nat /\ r.base = Len(revisions) /\ r.base \in Nat \ {0}
  BY DEF TypeOK, AppliesRequest, Requests
<1>2. doc \in Documents
  BY <1>1, ProjectType DEF TypeOK, Requests
<1>3. new \in Receipts /\ new.id = r.id /\ new.base = r.base
      /\ new.operations = r.operations /\ new.revision = Len(revisions) + 1
  BY <1>1 DEF Receipts, Requests
<1>4. receipts' = receipts \cup {new} /\ revisions' = Append(revisions, doc)
  BY DEF AppliesRequest
<1> HIDE DEF new, doc
<1>5. /\ revisions' \in Seq(Documents) /\ Len(revisions') = Len(revisions) + 1
      /\ \A n \in 1..Len(revisions) : revisions'[n] = revisions[n]
      /\ revisions'[Len(revisions) + 1] = doc
  BY <1>2, <1>4 DEF TypeOK
<1>6. receipts' \subseteq Receipts /\ new \in receipts'
  BY <1>3, <1>4 DEF TypeOK
<1> QED
  BY <1>1, <1>3, <1>4, <1>5, <1>6 DEF doc

\* Sessions of a server that has a revision more are sessions all the same.
LEMMA SessionsGrow ==
    ASSUME TypeOK, NEW r \in Requests, AppliesRequest(r)
    PROVE  Sessions \subseteq Sessions'
<1>1. 1..Len(revisions) \subseteq 1..Len(revisions')
  BY AppliedRequest
<1> QED
  BY <1>1 DEF Sessions

\* Every request is one that a call made.
LEMMA SentTyped ==
    ASSUME TypeOK
    PROVE  /\ Sent \subseteq Requests
           /\ \A e \in Editors : Calling(e) =>
                 /\ call[e] \in [request : Requests, reply : Replies \cup {None}]
                 /\ call[e].request \in Sent
BY DEF TypeOK, Sent, Calling

LEMMA SessionFields ==
    ASSUME TypeOK, NEW e \in Editors
    PROVE  LET d == document[e] IN
           /\ d \in Sessions
           /\ d.session \in 1..MaxSessions /\ d.base \in 1..Len(revisions)
           /\ d.names \in Documents /\ d.edits \in Seq(Operations)
           /\ d.history \in Seq([forward : Operations, inverse : Operations])
           /\ d.position \in 0..HistoryLimit /\ d.position <= Len(d.history)
           /\ d.pending # None => d.pending \in [id : Identities, count : 1..MaxEdits]
           /\ d.saves \in 0..MaxSaves
           /\ made[e] \in Seq(Operations)
BY DEF TypeOK, Sessions

\* The identity of an unsettled save is of the session.
LEMMA PendingIsOwn ==
    ASSUME EditsKept, NEW e \in Editors, NEW id, Pending(e, id)
    PROVE  Own(e, id)
<1>1. id = [editor |-> e, session |-> document[e].session, number |-> document[e].saves]
  BY DEF EditsKept, Pending
<1> QED
  BY <1>1 DEF Own

\* What was spent stays spent.
LEMMA SpentForGood ==
    ASSUME TypeOK, SavesInv, NEW r \in Sent, AppliesRequest(r),
           NEW x \in Sent, Spent(x)
    PROVE  Spent(x)' /\ x.id # r.id
<1>1. x \in Requests /\ r \in Requests
  BY SentTyped
<1>2. x.base \in Nat \ {0} /\ x.base <= Len(revisions)
  BY <1>1 DEF Requests, SavesInv, RevisionsChained
<1>3. Spent(x)'
  BY <1>1, <1>2, AppliedRequest DEF Spent
<1>4. ASSUME x.id = r.id
      PROVE  FALSE
  <2>1. x.base = r.base /\ x.operations = r.operations
    BY <1>4 DEF SavesInv, IdentitiesKept, Made, SameDigest
  <2> QED
    BY <1>1, <2>1, AppliedRequest DEF AppliesRequest, Spent
<1> QED
  BY <1>3, <1>4

\* A changeset is applied: the sessions and the requests are as they were.
LEMMA ApplyKeeps ==
    ASSUME TypeOK, SavesInv, NEW r \in Sent, AppliesRequest(r),
           UNCHANGED <<document, made>>, Sent' = Sent
    PROVE  /\ EditsKept' /\ RevisionsChained' /\ IdentitiesKept'
           /\ SettledForGood' /\ BaseIsRevision'
<1>1. r \in Requests
  BY SentTyped
<1>2. PICK new \in receipts' :
        /\ receipts' = receipts \cup {new}
        /\ new.id = r.id /\ new.base = r.base
        /\ new.operations = r.operations /\ new.revision = Len(revisions) + 1
  BY <1>1, AppliedRequest
<1>3. /\ Len(revisions) \in Nat /\ Len(revisions') = Len(revisions) + 1
      /\ r.base = Len(revisions) /\ r.base \in 1..Len(revisions)
      /\ \A n \in 1..Len(revisions) : revisions'[n] = revisions[n]
      /\ revisions'[Len(revisions) + 1] = Project(revisions[r.base], r.operations)
      /\ Known(r.id) = {}
  BY <1>1, AppliedRequest DEF AppliesRequest
<1>4. \A e \in Editors : \A id : /\ Own(e, id)' <=> Own(e, id)
                                 /\ Pending(e, id)' <=> Pending(e, id)
  BY DEF Own, Pending
<1>5. \A q \in receipts : q.id # r.id /\ q.base \in Nat \ {0} /\ q.base < q.revision
                          /\ q.revision <= Len(revisions)
  BY <1>3 DEF Known, TypeOK, Receipts, SavesInv, RevisionsChained
<1>6. EditsKept'
  BY DEF SavesInv, EditsKept
<1>7. RevisionsChained'
  <2>1. ASSUME NEW q \in receipts'
        PROVE  /\ q.revision = q.base + 1
               /\ q.revision <= Len(revisions')
               /\ revisions'[q.revision] = Project(revisions'[q.base], q.operations)
    <3>1. CASE q \in receipts
      BY <1>3, <1>5, <3>1 DEF SavesInv, RevisionsChained
    <3>2. CASE q = new
      BY <1>2, <1>3, <3>2
    <3> QED
      BY <1>2, <3>1, <3>2
  <2>2. ASSUME NEW n \in 2..Len(revisions')
        PROVE  \E q \in receipts' : q.revision = n
    <3>1. n \in 2..Len(revisions) \/ n = Len(revisions) + 1
      BY <1>3
    <3> QED
      BY <1>2, <3>1 DEF SavesInv, RevisionsChained
  <2>3. \A p, q \in receipts' : p.id = q.id => p = q
    BY <1>2, <1>5 DEF SavesInv, RevisionsChained
  <2>4. \A x \in Sent' : x.base <= Len(revisions')
    BY <1>3, SentTyped DEF SavesInv, RevisionsChained, Requests
  <2>5. Len(revisions') >= 1
    BY <1>3
  <2> QED
    BY <2>1, <2>2, <2>3, <2>4, <2>5 DEF RevisionsChained
<1>8. IdentitiesKept'
  <2>1. \A x \in Made' : x \in Made \/ (x = new /\ r \in Made)
    BY <1>2 DEF Made
  <2>2. ASSUME NEW s \in Sent', NEW x \in Made', s.id = x.id
        PROVE  SameDigest(s, x)
    BY <1>2, <2>1, <2>2 DEF SavesInv, IdentitiesKept, SameDigest, Made
  <2>3. ASSUME NEW e \in Editors, NEW x \in Made'
        PROVE  /\ x.id.editor = e =>
                     /\ x.id.session <= document'[e].session
                     /\ x.id.session = document'[e].session =>
                           x.id.number <= document'[e].saves
               /\ Pending(e, x.id)' =>
                     /\ x.base = document'[e].base
                     /\ x.operations = SubSeq(document'[e].edits, 1,
                                              document'[e].pending.count)
    BY <1>2, <1>4, <2>1 DEF SavesInv, IdentitiesKept
  <2> QED
    BY <2>2, <2>3 DEF IdentitiesKept, SameDigest
<1>9. SettledForGood'
  <2>1. ASSUME NEW e \in Editors, NEW x \in Sent, Own(e, x.id), ~ Pending(e, x.id)
        PROVE  Known(x.id)' # {} \/ Spent(x)'
    <3>1. Known(x.id) # {} => Known(x.id)' # {}
      BY <1>2 DEF Known
    <3> QED
      BY <2>1, <3>1, SpentForGood DEF SavesInv, SettledForGood
  <2>2. ASSUME NEW e \in Editors, NEW q \in receipts', Own(e, q.id), ~ Pending(e, q.id)
        PROVE  q.revision <= document[e].base
    <3>1. CASE q \in receipts
      BY <2>2, <3>1 DEF SavesInv, SettledForGood
    <3>2. CASE q = new
      <4>1. Spent(r)
        BY <1>2, <1>3, <2>2, <3>2 DEF SavesInv, SettledForGood
      <4> QED
        BY <4>1, SpentForGood
    <3> QED
      BY <1>2, <3>1, <3>2
  <2> QED
    BY <1>4, <2>1, <2>2 DEF SettledForGood
<1>10. BaseIsRevision'
  BY <1>3, SessionFields DEF SavesInv, BaseIsRevision
<1> QED
  BY <1>6, <1>7, <1>8, <1>9, <1>10

\* Only the unsettled save of a session can be applied for it.
LEMMA AppliedIsPending ==
    ASSUME TypeOK, SavesInv, NEW r \in Sent, AppliesRequest(r),
           NEW e \in Editors, Own(e, r.id)
    PROVE  Pending(e, r.id)
<1>1. ASSUME ~ Pending(e, r.id)
      PROVE  FALSE
  <2>1. Spent(r)
    BY <1>1 DEF SavesInv, SettledForGood, AppliesRequest
  <2> QED
    BY <2>1, SpentForGood
<1> QED
  BY <1>1

-----------------------------------------------------------------------------
(* The operations that were applied *)

\* Slices of a sequence: of its end, and of a longer one.
LEMMA Slices ==
    ASSUME NEW S, NEW s \in Seq(S), NEW c \in 0..Len(s), NEW k \in 0..(Len(s) - c)
    PROVE  /\ SubSeq(SubSeq(s, c + 1, Len(s)), 1, k) = SubSeq(s, c + 1, c + k)
           /\ SubSeq(SubSeq(s, c + 1, Len(s)), k + 1, Len(s) - c)
                 = SubSeq(s, c + k + 1, Len(s))
           /\ Len(SubSeq(s, c + 1, c + k)) = k
           /\ \A x \in S : SubSeq(Append(s, x), c + 1, c + k) = SubSeq(s, c + 1, c + k)
           /\ \A x \in S : Append(SubSeq(s, c + 1, Len(s)), x)
                              = SubSeq(Append(s, x), c + 1, Len(s) + 1)
<1>1. /\ Len(s) \in Nat /\ \A i \in 1..Len(s) : s[i] \in S
      /\ c \in Nat /\ k \in Nat /\ c + k <= Len(s)
  OBVIOUS
<1>2. /\ SubSeq(s, c + 1, c + k) \in Seq(S) /\ Len(SubSeq(s, c + 1, c + k)) = k
      /\ \A i \in 1..k : SubSeq(s, c + 1, c + k)[i] = s[c + i]
  BY <1>1
<1>3. /\ SubSeq(s, c + 1, Len(s)) \in Seq(S)
      /\ Len(SubSeq(s, c + 1, Len(s))) = Len(s) - c
      /\ \A i \in 1..(Len(s) - c) : SubSeq(s, c + 1, Len(s))[i] = s[c + i]
  BY <1>1
<1>4. /\ SubSeq(s, c + k + 1, Len(s)) \in Seq(S)
      /\ Len(SubSeq(s, c + k + 1, Len(s))) = Len(s) - c - k
      /\ \A i \in 1..(Len(s) - c - k) : SubSeq(s, c + k + 1, Len(s))[i] = s[c + k + i]
  BY <1>1
<1>5. SubSeq(SubSeq(s, c + 1, Len(s)), 1, k) = SubSeq(s, c + 1, c + k)
  <2> DEFINE t == SubSeq(s, c + 1, Len(s))
  <2>1. /\ t \in Seq(S) /\ Len(t) = Len(s) - c
        /\ \A i \in 1..(Len(s) - c) : t[i] = s[c + i]
    BY <1>3
  <2> HIDE DEF t
  <2>2. /\ SubSeq(t, 1, k) \in Seq(S) /\ Len(SubSeq(t, 1, k)) = k
        /\ \A i \in 1..k : SubSeq(t, 1, k)[i] = s[c + i]
    BY <1>1, <2>1
  <2>3. SubSeq(t, 1, k) = SubSeq(s, c + 1, c + k)
    BY <1>2, <2>2, SeqEqual
  <2> QED
    BY <2>3 DEF t
<1>6. SubSeq(SubSeq(s, c + 1, Len(s)), k + 1, Len(s) - c) = SubSeq(s, c + k + 1, Len(s))
  <2> DEFINE t == SubSeq(s, c + 1, Len(s))
  <2>1. /\ t \in Seq(S) /\ Len(t) = Len(s) - c
        /\ \A i \in 1..(Len(s) - c) : t[i] = s[c + i]
    BY <1>3
  <2> HIDE DEF t
  <2> DEFINE u == SubSeq(t, k + 1, Len(s) - c)
  <2>2. /\ u \in Seq(S) /\ Len(u) = Len(s) - c - k
        /\ \A i \in 1..(Len(s) - c - k) : u[i] = s[c + k + i]
    BY <1>1, <2>1
  <2> HIDE DEF u
  <2>3. u = SubSeq(s, c + k + 1, Len(s))
    BY <1>4, <2>2, SeqEqual
  <2> QED
    BY <2>3 DEF t, u
<1>7. ASSUME NEW x \in S
      PROVE  /\ SubSeq(Append(s, x), c + 1, c + k) = SubSeq(s, c + 1, c + k)
             /\ Append(SubSeq(s, c + 1, Len(s)), x)
                   = SubSeq(Append(s, x), c + 1, Len(s) + 1)
  <2> DEFINE t == Append(s, x)
             u == SubSeq(s, c + 1, Len(s))
             v == SubSeq(t, c + 1, Len(s) + 1)
  <2>1. /\ t \in Seq(S) /\ Len(t) = Len(s) + 1 /\ t[Len(s) + 1] = x
        /\ \A i \in 1..Len(s) : t[i] = s[i]
    BY <1>1
  <2> HIDE DEF t
  <2>2. /\ SubSeq(t, c + 1, c + k) \in Seq(S) /\ Len(SubSeq(t, c + 1, c + k)) = k
        /\ \A i \in 1..k : SubSeq(t, c + 1, c + k)[i] = s[c + i]
    BY <1>1, <2>1
  <2>3. SubSeq(t, c + 1, c + k) = SubSeq(s, c + 1, c + k)
    BY <1>2, <2>2, SeqEqual
  <2>4. /\ v \in Seq(S) /\ Len(v) = Len(s) - c + 1
        /\ v[Len(s) - c + 1] = x
        /\ \A i \in 1..(Len(s) - c) : v[i] = s[c + i]
    BY <1>1, <2>1
  <2> HIDE DEF v
  <2>5. /\ u \in Seq(S) /\ Len(u) = Len(s) - c /\ \A i \in 1..(Len(s) - c) : u[i] = s[c + i]
    BY <1>3
  <2> HIDE DEF u
  <2>6. /\ Append(u, x) \in Seq(S) /\ Len(Append(u, x)) = Len(s) - c + 1
        /\ Append(u, x)[Len(s) - c + 1] = x
        /\ \A i \in 1..(Len(s) - c) : Append(u, x)[i] = s[c + i]
    BY <1>1, <2>5
  <2>7. \A i \in 1..(Len(s) - c + 1) : Append(u, x)[i] = v[i]
    <3>1. \A i \in 1..(Len(s) - c + 1) : i \in 1..(Len(s) - c) \/ i = Len(s) - c + 1
      BY <1>1
    <3> QED
      BY <2>4, <2>6, <3>1
  <2>8. Append(u, x) = v
    BY <2>4, <2>6, <2>7, SeqEqual
  <2> QED
    BY <2>3, <2>8 DEF t, u, v
<1> QED
  BY <1>2, <1>5, <1>6, <1>7

\* What is unsaved was made, and a save carries some of it.
LEMMA SessionSizes ==
    ASSUME TypeOK, EditsKept, NEW e \in Editors
    PROVE  /\ Len(made[e]) \in Nat /\ Len(document[e].edits) \in Nat
           /\ Len(document[e].edits) <= Len(made[e])
           /\ document[e].pending # None =>
                 /\ document[e].pending.count \in 1..Len(document[e].edits)
                 /\ document[e].pending.id \in Identities
<1>1. made[e] \in Seq(Operations) /\ document[e].edits \in Seq(Operations)
  BY SessionFields
<1>2. Len(document[e].edits) <= Len(made[e])
  BY DEF EditsKept
<1>3. ASSUME document[e].pending # None
      PROVE  /\ document[e].pending.count \in 1..Len(document[e].edits)
             /\ document[e].pending.id \in Identities
  <2>1. document[e].pending \in [id : Identities, count : 1..MaxEdits]
    BY <1>3, SessionFields
  <2>2. document[e].pending.count \in 1..MaxEdits /\ document[e].pending.id \in Identities
    BY <2>1
  <2>3. document[e].pending.count <= Len(document[e].edits)
    BY <1>3 DEF EditsKept
  <2> QED
    BY <1>1, <2>2, <2>3, EditorAssumption DEF EditorAssumption
<1> QED
  BY <1>1, <1>2, <1>3

\* How many operations were applied, and how many left the unsaved edits.
LEMMA AppliedRange ==
    ASSUME TypeOK, EditsKept, NEW e \in Editors
    PROVE  /\ Len(made[e]) - Len(document[e].edits) \in 0..Len(made[e])
           /\ Applied(e) \in 0..Len(made[e])
<1>1. /\ Len(made[e]) \in Nat /\ Len(document[e].edits) \in Nat
      /\ Len(document[e].edits) <= Len(made[e])
      /\ document[e].pending # None =>
            document[e].pending.count \in 1..Len(document[e].edits)
  BY SessionSizes
<1> DEFINE c == Len(made[e]) - Len(document[e].edits)
           k == IF \E q \in receipts : Pending(e, q.id) THEN document[e].pending.count ELSE 0
<1>2. Applied(e) = c + k
  BY DEF Applied
<1>3. k \in 0..Len(document[e].edits)
  <2>1. CASE \E q \in receipts : Pending(e, q.id)
    <3>1. document[e].pending # None
      BY <2>1 DEF Pending
    <3> QED
      BY <1>1, <2>1, <3>1
  <2>2. CASE ~ \E q \in receipts : Pending(e, q.id)
    BY <1>1, <2>2
  <2> QED
    BY <2>1, <2>2
<1> HIDE DEF k
<1>4. c + k \in 0..Len(made[e]) /\ c \in 0..Len(made[e])
  <2>1. \A m, n, i \in Nat : n <= m /\ i \in 0..n =>
           (m - n) + i \in 0..m /\ m - n \in 0..m
    OBVIOUS
  <2>2. k \in Nat
    BY <1>1, <1>3
  <2> QED
    BY <1>1, <1>3, <2>1, <2>2
<1> QED
  BY <1>2, <1>4

\* A changeset is applied: it continues what was applied of its session.
LEMMA ApplyKeepsOrder ==
    ASSUME TypeOK, SavesInv, AppliedInOrder, NEW r \in Sent, AppliesRequest(r),
           UNCHANGED <<document, made>>
    PROVE  AppliedInOrder'
<1>1. r \in Requests
  BY SentTyped
<1>2. PICK new \in receipts' :
        /\ receipts' = receipts \cup {new}
        /\ new.id = r.id /\ new.base = r.base
        /\ new.operations = r.operations /\ new.revision = Len(revisions) + 1
  BY <1>1, AppliedRequest
<1>3. \A q \in receipts : q.id # r.id /\ q.revision \in Nat /\ q.revision < new.revision
  BY <1>1, <1>2, AppliedRequest
  DEF AppliesRequest, Known, TypeOK, Receipts, SavesInv, RevisionsChained
<1> SUFFICES ASSUME NEW e \in Editors
             PROVE  \E at \in [OwnReceipts(e)' -> 0..Len(made[e])] :
                       InOrder(OwnReceipts(e)', at, made[e], Applied(e)')
  BY DEF AppliedInOrder
<1>4. PICK at \in [OwnReceipts(e) -> 0..Len(made[e])] :
         InOrder(OwnReceipts(e), at, made[e], Applied(e))
  BY DEF AppliedInOrder
<1>5. CASE ~ Own(e, r.id)
  <2>1. OwnReceipts(e)' = OwnReceipts(e)
    BY <1>2, <1>5 DEF OwnReceipts, Own
  <2>2. ~ Pending(e, r.id)
    BY <1>5, PendingIsOwn DEF SavesInv
  <2>3. Applied(e)' = Applied(e)
    BY <1>2, <2>2 DEF Applied, Pending
  <2> QED
    BY <1>4, <2>1, <2>3
<1>6. CASE Own(e, r.id)
  <2> DEFINE d == document[e]
             c == Len(made[e]) - Len(d.edits)
             k == d.pending.count
             later == [q \in OwnReceipts(e)' |-> IF q = new THEN c ELSE at[q]]
  <2>1. Pending(e, r.id)
    BY <1>6, AppliedIsPending
  <2>2. /\ OwnReceipts(e)' = OwnReceipts(e) \cup {new} /\ new \notin OwnReceipts(e)
        /\ OwnReceipts(e) \subseteq receipts
    BY <1>2, <1>3, <1>6 DEF OwnReceipts, Own
  <2>3. Applied(e) = c /\ Applied(e)' = c + k
    <3>1. ~ \E q \in receipts : Pending(e, q.id)
      BY <1>3, <2>1 DEF Pending
    <3>2. \E q \in receipts' : Pending(e, q.id)'
      BY <1>2, <2>1 DEF Pending
    <3>3. c \in Nat
      <4>1. c \in 0..Len(made[e])
        BY AppliedRange DEF SavesInv
      <4> QED
        BY <4>1, SessionSizes DEF SavesInv
    <3>4. Applied(e) = c + 0 /\ Applied(e)' = c + k
      BY <3>1, <3>2 DEF Applied
    <3> QED
      BY <3>3, <3>4
  <2>4. /\ c \in 0..Len(made[e]) /\ k \in 0..(Len(made[e]) - c) /\ Len(made[e]) \in Nat
        /\ made[e] \in Seq(Operations)
        /\ d.edits = SubSeq(made[e], c + 1, Len(made[e]))
    <3>1. c \in 0..Len(made[e]) /\ made[e] \in Seq(Operations) /\ d.edits \in Seq(Operations)
      BY AppliedRange, SessionFields DEF SavesInv
    <3>2. /\ k \in 1..Len(d.edits) /\ Len(d.edits) \in Nat /\ Len(made[e]) \in Nat
      BY <2>1, SessionSizes DEF Pending, SavesInv
    <3>3. Len(d.edits) = Len(made[e]) - c
      BY <3>2
    <3>4. d.edits = SubSeq(made[e], c + 1, Len(made[e]))
      BY DEF SavesInv, EditsKept
    <3> HIDE DEF c, k
    <3>5. k \in 0..(Len(made[e]) - c)
      BY <3>2, <3>3
    <3> QED
      BY <3>1, <3>2, <3>4, <3>5
  <2>5. new.operations = SubSeq(made[e], c + 1, c + k) /\ Len(new.operations) = k
    <3>1. new.operations = SubSeq(d.edits, 1, k)
      BY <1>2, <2>1 DEF SavesInv, IdentitiesKept, Made
    <3> HIDE DEF c, k
    <3>2. /\ SubSeq(SubSeq(made[e], c + 1, Len(made[e])), 1, k) = SubSeq(made[e], c + 1, c + k)
          /\ Len(SubSeq(made[e], c + 1, c + k)) = k
      BY <2>4, Slices
    <3> QED
      BY <2>4, <3>1, <3>2
  <2> HIDE DEF c, k
  <2>6. later \in [OwnReceipts(e)' -> 0..Len(made[e])]
    BY <2>2, <2>4
  <2>7. later[new] = c /\ \A q \in OwnReceipts(e) : later[q] = at[q] /\ q # new
    BY <2>2
  <2> HIDE DEF later
  <2>8. ASSUME NEW q \in OwnReceipts(e)'
        PROVE  /\ later[q] + Len(q.operations) <= c + k
               /\ q.operations = SubSeq(made[e], later[q] + 1, later[q] + Len(q.operations))
    <3>1. CASE q = new
      BY <2>4, <2>5, <2>7, <3>1
    <3>2. CASE q \in OwnReceipts(e)
      <4>1. /\ at[q] + Len(q.operations) <= c
            /\ q.operations = SubSeq(made[e], at[q] + 1, at[q] + Len(q.operations))
        BY <1>4, <2>3, <3>2 DEF InOrder
      <4>2. at[q] \in Nat /\ Len(q.operations) \in Nat
        BY <2>2, <3>2 DEF TypeOK, Receipts
      <4>3. c \in Nat /\ k \in Nat
        BY <2>4
      <4>4. at[q] + Len(q.operations) <= c + k
        BY <4>1, <4>2, <4>3
      <4> QED
        BY <2>7, <3>2, <4>1, <4>4
    <3> QED
      BY <2>2, <3>1, <3>2
  <2>9. ASSUME NEW p \in OwnReceipts(e)', NEW q \in OwnReceipts(e)', p.revision < q.revision
        PROVE  later[p] + Len(p.operations) <= later[q]
    <3>1. p # new
      <4>1. CASE q = new
        BY <1>1, <1>2, <2>9, <4>1, AppliedRequest
      <4>2. CASE q \in OwnReceipts(e)
        <5>1. q.revision < new.revision /\ q.revision \in Nat /\ new.revision \in Nat
          BY <1>1, <1>2, <1>3, <2>2, <4>2, AppliedRequest
        <5> QED
          BY <2>9, <5>1
      <4> QED
        BY <2>2, <4>1, <4>2
    <3>2. p \in OwnReceipts(e)
      BY <2>2, <3>1
    <3>3. CASE q = new
      BY <1>4, <2>3, <2>7, <3>2, <3>3 DEF InOrder
    <3>4. CASE q \in OwnReceipts(e)
      BY <1>4, <2>7, <2>9, <3>2, <3>4 DEF InOrder
    <3> QED
      BY <2>2, <3>3, <3>4
  <2>10. ASSUME NEW i \in 1..(c + k)
         PROVE  \E q \in OwnReceipts(e)' : later[q] < i /\ i <= later[q] + Len(q.operations)
    <3>1. CASE i \in 1..c
      <4>1. PICK q \in OwnReceipts(e) : at[q] < i /\ i <= at[q] + Len(q.operations)
        BY <1>4, <2>3, <3>1 DEF InOrder
      <4> QED
        BY <2>2, <2>7, <4>1
    <3>2. CASE i > c
      <4>1. later[new] < i /\ i <= later[new] + Len(new.operations)
        BY <2>4, <2>5, <2>7, <3>2
      <4> QED
        BY <2>2, <4>1
    <3> QED
      BY <2>4, <3>1, <3>2
  <2> QED
    BY <2>3, <2>6, <2>8, <2>9, <2>10 DEF InOrder
<1> QED
  BY <1>5, <1>6

\* A step after which the same was applied of a session: its receipts have
\* the same places, in what was made or made on.
LEMMA OrderStays ==
    ASSUME TypeOK, SavesInv, AppliedInOrder, NEW e \in Editors,
           OwnReceipts(e)' = OwnReceipts(e), Applied(e)' = Applied(e),
           \/ made'[e] = made[e]
           \/ \E op \in Operations : made'[e] = Append(made[e], op)
    PROVE  \E at \in [OwnReceipts(e)' -> 0..Len(made'[e])] :
              InOrder(OwnReceipts(e)', at, made'[e], Applied(e)')
<1>1. PICK at \in [OwnReceipts(e) -> 0..Len(made[e])] :
         InOrder(OwnReceipts(e), at, made[e], Applied(e))
  BY DEF AppliedInOrder
<1>2. CASE made'[e] = made[e]
  BY <1>1, <1>2
<1>3. ASSUME NEW op \in Operations, made'[e] = Append(made[e], op)
      PROVE  \E f \in [OwnReceipts(e)' -> 0..Len(made'[e])] :
                InOrder(OwnReceipts(e)', f, made'[e], Applied(e)')
  <2>1. /\ made[e] \in Seq(Operations) /\ Len(made[e]) \in Nat
        /\ Applied(e) \in 0..Len(made[e])
        /\ Len(made'[e]) = Len(made[e]) + 1
    <3>1. made[e] \in Seq(Operations) /\ Applied(e) \in 0..Len(made[e])
      BY SessionFields, AppliedRange DEF SavesInv
    <3> QED
      BY <1>3, <3>1
  <2>2. at \in [OwnReceipts(e)' -> 0..Len(made'[e])]
    BY <2>1
  <2>3. ASSUME NEW q \in OwnReceipts(e)
        PROVE  q.operations = SubSeq(made'[e], at[q] + 1, at[q] + Len(q.operations))
    <3>1. /\ at[q] + Len(q.operations) <= Applied(e)
          /\ q.operations = SubSeq(made[e], at[q] + 1, at[q] + Len(q.operations))
      BY <1>1 DEF InOrder
    <3>2. at[q] \in 0..Len(made[e]) /\ Len(q.operations) \in Nat
      BY DEF OwnReceipts, TypeOK, Receipts
    <3>3. Len(q.operations) \in 0..(Len(made[e]) - at[q])
      BY <2>1, <3>1, <3>2
    <3> QED
      BY <1>3, <2>1, <3>1, <3>2, <3>3, Slices
  <2>4. InOrder(OwnReceipts(e)', at, made'[e], Applied(e)')
    BY <1>1, <2>3 DEF InOrder
  <2> QED
    BY <2>2, <2>4
<1> QED
  BY <1>2, <1>3

-----------------------------------------------------------------------------
(* The user edits *)

\* An operation is made in e's session; the saves know nothing of it.
Edited(e, op) ==
    /\ op \in Operations
    /\ Len(made[e]) < MaxEdits
    /\ made' = [made EXCEPT ![e] = Append(@, op)]
    /\ \A x \in Editors \ {e} : document'[x] = document[x]
    /\ document'[e].edits = Append(document[e].edits, op)
    /\ document'[e].session = document[e].session
    /\ document'[e].base = document[e].base
    /\ document'[e].names = document[e].names
    /\ document'[e].pending = document[e].pending
    /\ document'[e].saves = document[e].saves
    /\ Len(document'[e].history) <= HistoryLimit
    /\ UNCHANGED <<server, blocked, call, orphans>>

LEMMA EditedKeeps ==
    ASSUME TypeOK, SavesInv, AppliedInOrder, NEW e \in Editors, NEW op, Edited(e, op)
    PROVE  SavesInv' /\ AppliedInOrder'
<1>1. /\ op \in Operations /\ Len(made[e]) < MaxEdits
      /\ made'[e] = Append(made[e], op)
      /\ document'[e].edits = Append(document[e].edits, op)
      /\ \A x \in Editors \ {e} : document'[x] = document[x] /\ made'[x] = made[x]
  BY DEF Edited, TypeOK
<1>2. /\ made[e] \in Seq(Operations) /\ document[e].edits \in Seq(Operations)
      /\ Len(document[e].edits) <= Len(made[e])
  BY SessionFields DEF SavesInv, EditsKept
<1>3. /\ Len(made'[e]) = Len(made[e]) + 1 /\ Len(made[e]) \in Nat
      /\ Len(document'[e].edits) = Len(document[e].edits) + 1
      /\ Len(document[e].edits) \in Nat
  BY <1>1, <1>2
<1>4. /\ receipts' = receipts /\ revisions' = revisions /\ call' = call
      /\ orphans' = orphans /\ Sent' = Sent /\ Made' = Made
      /\ \A id : Known(id)' = Known(id)
      /\ \A r : Spent(r)' <=> Spent(r)
  BY DEF Edited, server, Sent, Calling, Made, Known, Spent
<1>5. \A x \in Editors :
         /\ document'[x].session = document[x].session
         /\ document'[x].base = document[x].base
         /\ document'[x].names = document[x].names
         /\ document'[x].pending = document[x].pending
         /\ document'[x].saves = document[x].saves
  BY <1>1 DEF Edited
<1>6. \A x \in Editors : \A id : /\ Own(x, id)' <=> Own(x, id)
                                 /\ Pending(x, id)' <=> Pending(x, id)
  BY <1>5 DEF Own, Pending
<1> DEFINE c == Len(made[e]) - Len(document[e].edits)
<1>7. c \in 0..Len(made[e]) /\ c \in Nat /\ Len(made[e]) + 1 - (Len(document[e].edits) + 1) = c
  <2>1. \A m, n \in Nat : n <= m => /\ m - n \in 0..m /\ m - n \in Nat
                                    /\ m + 1 - (n + 1) = m - n
    OBVIOUS
  <2> QED
    BY <1>2, <1>3, <2>1
<1>8. ASSUME NEW k \in 0..Len(document[e].edits)
      PROVE  SubSeq(document'[e].edits, 1, k) = SubSeq(document[e].edits, 1, k)
  BY <1>1, <1>2
<1>9. document'[e].edits = SubSeq(made'[e], Len(made'[e]) - Len(document'[e].edits) + 1,
                                  Len(made'[e]))
  <2>1. document[e].edits = SubSeq(made[e], c + 1, Len(made[e]))
    BY DEF SavesInv, EditsKept
  <2>2. 0 \in 0..(Len(made[e]) - c)
    BY <1>3, <1>7
  <2>3. Append(SubSeq(made[e], c + 1, Len(made[e])), op)
           = SubSeq(Append(made[e], op), c + 1, Len(made[e]) + 1)
    <3> HIDE DEF c
    <3> QED
      BY <1>1, <1>2, <1>7, <2>2, Slices
  <2>4. Len(made'[e]) - Len(document'[e].edits) = c
    BY <1>3
  <2> QED
    BY <1>1, <1>3, <2>1, <2>3, <2>4
<1>10. EditsKept'
  <2>1. ASSUME NEW x \in Editors, x # e
        PROVE  document'[x] = document[x] /\ made'[x] = made[x]
    BY <1>1, <2>1
  <2>2. Len(made'[e]) <= MaxEdits /\ Len(document'[e].edits) <= Len(made'[e])
    BY <1>1, <1>2, <1>3, EditorAssumption DEF EditorAssumption
  <2>3. document'[e].pending # None =>
           /\ document'[e].pending.count <= Len(document'[e].edits)
           /\ document'[e].pending.id = [editor |-> e, session |-> document'[e].session,
                                         number |-> document'[e].saves]
    <3>1. document[e].pending # None =>
             /\ document[e].pending.count \in 1..Len(document[e].edits)
             /\ document[e].pending.id = [editor |-> e, session |-> document[e].session,
                                          number |-> document[e].saves]
      BY SessionSizes DEF SavesInv, EditsKept
    <3>2. document[e].pending # None => document[e].pending.count <= Len(document[e].edits) + 1
      BY <1>3, <3>1
    <3> QED
      BY <1>3, <1>5, <3>1, <3>2
  <2>4. Len(document'[e].history) <= HistoryLimit
    BY DEF Edited
  <2>5. ASSUME NEW x \in Editors
        PROVE  /\ Len(made'[x]) <= MaxEdits
               /\ Len(document'[x].edits) <= Len(made'[x])
               /\ document'[x].edits
                     = SubSeq(made'[x], Len(made'[x]) - Len(document'[x].edits) + 1,
                              Len(made'[x]))
               /\ document'[x].pending # None =>
                     /\ document'[x].pending.count <= Len(document'[x].edits)
                     /\ document'[x].pending.id
                           = [editor |-> x, session |-> document'[x].session,
                              number |-> document'[x].saves]
               /\ Len(document'[x].history) <= HistoryLimit
    <3>1. CASE x = e
      BY <1>9, <2>2, <2>3, <2>4, <3>1
    <3>2. CASE x # e
      BY <2>1, <3>2 DEF SavesInv, EditsKept
    <3> QED
      BY <3>1, <3>2
  <2> QED
    BY <2>5 DEF EditsKept
<1>11. IdentitiesKept'
  <2>1. ASSUME NEW x \in Editors, NEW y \in Made, Pending(x, y.id)
        PROVE  y.operations = SubSeq(document'[x].edits, 1, document'[x].pending.count)
    <3>1. y.operations = SubSeq(document[x].edits, 1, document[x].pending.count)
      BY <2>1 DEF SavesInv, IdentitiesKept
    <3>2. CASE x = e
      <4>1. document[e].pending.count \in 1..Len(document[e].edits)
        BY <2>1, <3>2, SessionSizes DEF Pending, SavesInv
      <4>2. document[e].pending.count \in 0..Len(document[e].edits)
        BY <1>3, <4>1
      <4> QED
        BY <1>5, <1>8, <3>1, <3>2, <4>2
    <3>3. CASE x # e
      BY <1>1, <3>1, <3>3
    <3> QED
      BY <3>2, <3>3
  <2>2. \A r \in Sent, x \in Made : r.id = x.id => SameDigest(r, x)
    BY DEF SavesInv, IdentitiesKept
  <2>3. ASSUME NEW x \in Editors, NEW y \in Made
        PROVE  /\ y.id.editor = x =>
                     /\ y.id.session <= document'[x].session
                     /\ y.id.session = document'[x].session =>
                           y.id.number <= document'[x].saves
               /\ Pending(x, y.id) => y.base = document'[x].base
    BY <1>5 DEF SavesInv, IdentitiesKept
  <2> QED
    BY <1>4, <1>6, <2>1, <2>2, <2>3 DEF IdentitiesKept, SameDigest
<1>12. RevisionsChained' /\ BaseIsRevision'
  BY <1>4, <1>5 DEF SavesInv, RevisionsChained, BaseIsRevision
<1>13. SettledForGood'
  BY <1>4, <1>5, <1>6 DEF SavesInv, SettledForGood
<1>14. CallsKept' /\ RefusalsAreForeign'
  BY <1>4, <1>6 DEF SavesInv, CallsKept, CallKept, RefusalsAreForeign, Calling
<1>15. AppliedInOrder'
  <2>1. ASSUME NEW x \in Editors
        PROVE  OwnReceipts(x)' = OwnReceipts(x) /\ Applied(x)' = Applied(x)
    <3>1. OwnReceipts(x)' = OwnReceipts(x)
      BY <1>4, <1>5 DEF OwnReceipts
    <3>2. Len(made'[x]) - Len(document'[x].edits) = Len(made[x]) - Len(document[x].edits)
      <4>1. CASE x = e
        <5>1. Len(made'[e]) - Len(document'[e].edits) = c
          <6>1. \A m, n \in Nat : m + 1 - (n + 1) = m - n
            OBVIOUS
          <6> QED
            BY <1>3, <6>1
        <5> QED
          BY <4>1, <5>1
      <4>2. CASE x # e
        BY <1>1, <4>2
      <4> QED
        BY <4>1, <4>2
    <3>3. (\E q \in receipts : Pending(x, q.id))' <=> (\E q \in receipts : Pending(x, q.id))
      BY <1>4, <1>6
    <3> QED
      BY <1>5, <3>1, <3>2, <3>3 DEF Applied
  <2>2. ASSUME NEW x \in Editors
        PROVE  \E at \in [OwnReceipts(x)' -> 0..Len(made'[x])] :
                  InOrder(OwnReceipts(x)', at, made'[x], Applied(x)')
    <3>1. made'[x] = made[x] \/ \E o \in Operations : made'[x] = Append(made[x], o)
      BY <1>1
    <3> QED
      BY <2>1, <3>1, OrderStays
  <2> QED
    BY <2>2 DEF AppliedInOrder
<1> QED
  BY <1>10, <1>11, <1>12, <1>13, <1>14, <1>15 DEF SavesInv

Entries == [forward : Operations, inverse : Operations]

\* What the three handlers of the user's edits have in common.
LEMMA EditIsEdited ==
    ASSUME TypeOK, SavesInv, NEW e \in Editors, NEW op \in Operations,
           NEW history \in Seq(Entries), NEW position \in 0..Len(history),
           Len(history) <= HistoryLimit, MayEdit(e),
           Edit(e, [document[e] EXCEPT !.edits = Append(@, op),
                                       !.history = history,
                                       !.position = position], <<op>>),
           UNCHANGED <<server, blocked, call, orphans>>,
           seen' \in [Editors -> Seq(Documents)]
    PROVE  /\ TypeOK' /\ Edited(e, op)
           /\ document'[e].history = history /\ document'[e].position = position
<1> DEFINE d == document[e]
           new == [d EXCEPT !.edits = Append(@, op), !.history = history,
                            !.position = position]
<1>1. /\ document \in [Editors -> Sessions] /\ d \in Sessions
      /\ made \in [Editors -> Seq(Operations)] /\ made[e] \in Seq(Operations)
      /\ d.edits \in Seq(Operations) /\ Len(history) \in Nat
  <2>1. /\ document \in [Editors -> Sessions] /\ made \in [Editors -> Seq(Operations)]
    BY DEF TypeOK
  <2> QED
    BY <2>1, SessionFields
<1>2. /\ new.edits = Append(d.edits, op) /\ new.history = history
      /\ new.position = position /\ new.session = d.session /\ new.base = d.base
      /\ new.names = d.names /\ new.pending = d.pending /\ new.saves = d.saves
  BY <1>1 DEF Sessions
<1>3. new \in Sessions
  <2>1. Append(d.edits, op) \in Seq(Operations)
    BY <1>1
  <2>2. position \in 0..HistoryLimit
    BY <1>1, EditorAssumption DEF EditorAssumption
  <2> HIDE DEF d
  <2> QED
    BY <1>1, <2>1, <2>2 DEF Sessions, Entries
<1>4. document' = [document EXCEPT ![e] = new]
  BY DEF Edit
<1> HIDE DEF new
<1>5. document'[e] = new /\ \A x \in Editors \ {e} : document'[x] = document[x]
  BY <1>1, <1>4
<1>6. made' = [made EXCEPT ![e] = Append(@, op)]
  <2>1. made[e] \o <<op>> = Append(made[e], op)
    BY <1>1, AppendIsConcat
  <2> QED
    BY <2>1 DEF Edit
<1>7. made' \in [Editors -> Seq(Operations)] /\ document' \in [Editors -> Sessions]
  BY <1>1, <1>3, <1>4, <1>6
<1>8. Edited(e, op)
  BY <1>2, <1>5, <1>6 DEF Edited, MayEdit
<1>9. ASSUME NEW x \in Editors
      PROVE  document'[x].position <= Len(document'[x].history)
  <2>1. CASE x = e
    BY <1>1, <1>2, <1>5, <2>1
  <2>2. CASE x # e
    BY <1>5, <2>2 DEF TypeOK
  <2> QED
    BY <2>1, <2>2
<1>10. TypeOK'
  BY <1>7, <1>9 DEF TypeOK, server, Sessions
<1> QED
  BY <1>2, <1>5, <1>8, <1>10

\* The history leads on: what is seen now follows from what was seen.
LEMMA SeenElsewhere ==
    ASSUME TypeOK, SeenLinked, NEW e \in Editors,
           \A x \in Editors \ {e} : document'[x] = document[x] /\ seen'[x] = seen[x],
           Len(seen'[e]) = Len(document'[e].history) + 1,
           Local(document'[e]) = seen'[e][document'[e].position + 1],
           \A i \in 1..Len(document'[e].history) :
              Link(document'[e].history[i], seen'[e][i], seen'[e][i + 1])
    PROVE  SeenLinked'
<1> SUFFICES ASSUME NEW x \in Editors
             PROVE  /\ Len(seen'[x]) = Len(document'[x].history) + 1
                    /\ Local(document'[x]) = seen'[x][document'[x].position + 1]
                    /\ \A i \in 1..Len(document'[x].history) :
                          Link(document'[x].history[i], seen'[x][i], seen'[x][i + 1])
  BY DEF SeenLinked
<1>1. CASE x = e
  BY <1>1
<1>2. CASE x # e
  BY <1>2 DEF SeenLinked
<1> QED
  BY <1>1, <1>2

LEMMA LocalTyped ==
    ASSUME TypeOK, NEW e \in Editors
    PROVE  Local(document[e]) \in Documents
BY SessionFields, ProjectType DEF Local

\* One more edit, on what is seen.
LEMMA LocalAppend ==
    ASSUME TypeOK, NEW e \in Editors, NEW op, Edited(e, op)
    PROVE  Local(document'[e]) = [Local(document[e]) EXCEPT ![op.field] = op.name]
<1>1. /\ document'[e].edits = Append(document[e].edits, op)
      /\ document'[e].names = document[e].names /\ op \in Operations
  BY DEF Edited
<1>2. document[e].names \in Documents /\ document[e].edits \in Seq(Operations)
  BY SessionFields
<1> QED
  BY <1>1, <1>2, ProjectAppend DEF Local

LEMMA UndoStep ==
    ASSUME IInv, NEW e \in Editors, Undo(e)
    PROVE  IInv'
<1> DEFINE d == document[e]
           p == d.position
           op == d.history[p].inverse
<1>1. /\ d \in Sessions /\ d.history \in Seq(Entries) /\ p \in 0..HistoryLimit
      /\ p <= Len(d.history) /\ p > 0 /\ Len(d.history) <= HistoryLimit
  BY SessionFields DEF IInv, SavesInv, EditsKept, Undo, Entries
<1>2. /\ p \in 1..Len(d.history) /\ p - 1 \in 0..Len(d.history) /\ p \in Nat
      /\ p - 1 \in Nat /\ p - 1 + 1 = p
  BY <1>1, EditorAssumption DEF EditorAssumption
<1>3. d.history[p] \in Entries /\ op \in Operations
  <2>1. d.history[p] \in Entries
    BY <1>1, <1>2
  <2> QED
    BY <2>1 DEF Entries
<1>4. [d EXCEPT !.edits = Append(@, op), !.position = @ - 1]
         = [d EXCEPT !.edits = Append(@, op), !.history = d.history, !.position = p - 1]
  BY <1>1 DEF Sessions
<1>5. /\ MayEdit(e)
      /\ Edit(e, [d EXCEPT !.edits = Append(@, op), !.position = @ - 1], <<op>>)
      /\ UNCHANGED <<server, blocked, call, orphans, seen>>
  BY DEF Undo
<1> HIDE DEF op
<1>6. /\ TypeOK' /\ Edited(e, op)
      /\ document'[e].history = d.history /\ document'[e].position = p - 1
  <2>1. seen' \in [Editors -> Seq(Documents)]
    BY <1>5 DEF IInv, TypeOK
  <2> QED
    BY <1>1, <1>2, <1>3, <1>4, <1>5, <2>1, EditIsEdited DEF IInv
<1>7. SavesInv' /\ AppliedInOrder'
  BY <1>6, EditedKeeps DEF IInv
<1>8. SeenLinked'
  <2>1. Local(document'[e]) = [seen[e][p + 1] EXCEPT ![op.field] = op.name]
    BY <1>6, LocalAppend DEF IInv, SeenLinked
  <2>2. Link(d.history[p], seen[e][p], seen[e][p + 1])
    BY <1>2 DEF IInv, SeenLinked
  <2>3. Local(document'[e]) = seen[e][p]
    BY <2>1, <2>2 DEF Link, op
  <2>4. seen' = seen /\ \A x \in Editors \ {e} : document'[x] = document[x]
    BY <1>5, <1>6 DEF Edited
  <2>5. /\ Len(seen[e]) = Len(d.history) + 1
        /\ \A i \in 1..Len(d.history) : Link(d.history[i], seen[e][i], seen[e][i + 1])
    BY DEF IInv, SeenLinked
  <2> QED
    BY <1>2, <1>6, <2>3, <2>4, <2>5, SeenElsewhere DEF IInv
<1> QED
  BY <1>6, <1>7, <1>8 DEF IInv

LEMMA RedoStep ==
    ASSUME IInv, NEW e \in Editors, Redo(e)
    PROVE  IInv'
<1> DEFINE d == document[e]
           p == d.position
           op == d.history[p + 1].forward
<1>1. /\ d \in Sessions /\ d.history \in Seq(Entries) /\ p \in 0..HistoryLimit
      /\ p < Len(d.history) /\ Len(d.history) <= HistoryLimit
  BY SessionFields DEF IInv, SavesInv, EditsKept, Redo, Entries
<1>2. p + 1 \in 1..Len(d.history) /\ p + 1 \in 0..Len(d.history) /\ p \in Nat
  BY <1>1, EditorAssumption DEF EditorAssumption
<1>3. d.history[p + 1] \in Entries /\ op \in Operations
  <2>1. d.history[p + 1] \in Entries
    BY <1>1, <1>2
  <2> QED
    BY <2>1 DEF Entries
<1>4. [d EXCEPT !.edits = Append(@, op), !.position = @ + 1]
         = [d EXCEPT !.edits = Append(@, op), !.history = d.history, !.position = p + 1]
  BY <1>1 DEF Sessions
<1>5. /\ MayEdit(e)
      /\ Edit(e, [d EXCEPT !.edits = Append(@, op), !.position = @ + 1], <<op>>)
      /\ UNCHANGED <<server, blocked, call, orphans, seen>>
  BY DEF Redo
<1> HIDE DEF op
<1>6. /\ TypeOK' /\ Edited(e, op)
      /\ document'[e].history = d.history /\ document'[e].position = p + 1
  <2>1. seen' \in [Editors -> Seq(Documents)]
    BY <1>5 DEF IInv, TypeOK
  <2> QED
    BY <1>1, <1>2, <1>3, <1>4, <1>5, <2>1, EditIsEdited DEF IInv
<1>7. SavesInv' /\ AppliedInOrder'
  BY <1>6, EditedKeeps DEF IInv
<1>8. SeenLinked'
  <2>1. Local(document'[e]) = [seen[e][p + 1] EXCEPT ![op.field] = op.name]
    BY <1>6, LocalAppend DEF IInv, SeenLinked
  <2>2. Link(d.history[p + 1], seen[e][p + 1], seen[e][p + 1 + 1])
    BY <1>2 DEF IInv, SeenLinked
  <2>3. Local(document'[e]) = seen[e][p + 1 + 1]
    BY <2>1, <2>2 DEF Link, op
  <2>4. seen' = seen /\ \A x \in Editors \ {e} : document'[x] = document[x]
    BY <1>5, <1>6 DEF Edited
  <2>5. /\ Len(seen[e]) = Len(d.history) + 1
        /\ \A i \in 1..Len(d.history) : Link(d.history[i], seen[e][i], seen[e][i + 1])
    BY DEF IInv, SeenLinked
  <2> QED
    BY <1>6, <2>3, <2>4, <2>5, SeenElsewhere DEF IInv
<1> QED
  BY <1>6, <1>7, <1>8 DEF IInv

\* What is kept of a history and of what was seen with it.
LEMMA LatestLinked ==
    ASSUME NEW h \in Seq(Entries), NEW v \in Seq(Documents), Len(h) \in 1..(HistoryLimit + 1),
           Len(v) = Len(h) + 1, \A i \in 1..Len(h) : Link(h[i], v[i], v[i + 1]),
           NEW w, w = IF Len(v) > HistoryLimit + 1 THEN Tail(v) ELSE v
    PROVE  LET k == Latest(h, HistoryLimit) IN
           /\ k \in Seq(Entries) /\ w \in Seq(Documents)
           /\ Len(k) <= HistoryLimit /\ Len(k) \in Nat /\ Len(w) = Len(k) + 1
           /\ w[Len(k) + 1] = v[Len(h) + 1]
           /\ \A i \in 1..Len(k) : Link(k[i], w[i], w[i + 1])
<1> DEFINE k == Latest(h, HistoryLimit)
<1>1. HistoryLimit \in Nat \ {0} /\ Len(h) \in Nat /\ Len(v) \in Nat
  BY EditorAssumption DEF EditorAssumption
<1>2. CASE Len(h) <= HistoryLimit
  <2>1. k = h /\ w = v
    BY <1>1, <1>2 DEF Latest
  <2> QED
    BY <1>1, <1>2, <2>1
<1>3. CASE Len(h) = HistoryLimit + 1
  <2> DEFINE n == HistoryLimit
  <2>1. k = SubSeq(h, 2, n + 1)
    <3>1. ~ (Len(h) <= n) /\ Len(h) - n + 1 = 2
      BY <1>1, <1>3
    <3>2. k = SubSeq(h, Len(h) - n + 1, Len(h))
      BY <3>1 DEF Latest
    <3> QED
      BY <1>3, <3>1, <3>2
  <2>2. w = Tail(v)
    BY <1>1, <1>3
  <2> HIDE DEF k
  <2>3. /\ k \in Seq(Entries) /\ Len(k) = n /\ \A i \in 1..n : k[i] = h[i + 1]
    BY <1>1, <1>3, <2>1
  <2>4. /\ w \in Seq(Documents) /\ Len(w) = n + 1 /\ \A i \in 1..(n + 1) : w[i] = v[i + 1]
    BY <1>1, <1>3, <2>2
  <2>5. w[Len(k) + 1] = v[Len(h) + 1]
    BY <1>1, <1>3, <2>3, <2>4
  <2>6. ASSUME NEW i \in 1..Len(k)
        PROVE  Link(k[i], w[i], w[i + 1])
    <3>1. /\ i + 1 \in 1..Len(h) /\ k[i] = h[i + 1]
          /\ w[i] = v[i + 1] /\ w[i + 1] = v[i + 1 + 1]
      BY <1>1, <1>3, <2>3, <2>4
    <3> QED
      BY <3>1
  <2> QED
    BY <1>1, <2>3, <2>4, <2>5, <2>6 DEF k
<1>4. Len(h) <= HistoryLimit \/ Len(h) = HistoryLimit + 1
  BY <1>1
<1> QED
  BY <1>2, <1>3, <1>4

LEMMA RenameStep ==
    ASSUME IInv, NEW e \in Editors, NEW f \in Fields, NEW name \in Names,
           Rename(e, f, name)
    PROVE  IInv'
<1> DEFINE d == document[e]
           p == d.position
           forward == [field |-> f, name |-> name]
           edit == [forward |-> forward, inverse |-> [field |-> f, name |-> Local(d)[f]]]
           doc == [Local(d) EXCEPT ![f] = name]
           h == Append(SubSeq(d.history, 1, p), edit)
           v == Append(SubSeq(seen[e], 1, p + 1), doc)
           w == IF Len(v) > HistoryLimit + 1 THEN Tail(v) ELSE v
           k == Latest(h, HistoryLimit)
<1>1. /\ d.history \in Seq(Entries) /\ p \in 0..HistoryLimit /\ p <= Len(d.history)
      /\ Len(d.history) \in Nat /\ p \in Nat /\ HistoryLimit \in Nat
  <2>1. d.history \in Seq(Entries) /\ p \in 0..HistoryLimit /\ p <= Len(d.history)
    BY SessionFields DEF IInv, Entries
  <2> QED
    BY <2>1, EditorAssumption DEF EditorAssumption
<1>2. Local(d) \in Documents /\ doc \in Documents /\ Local(d)[f] \in Names
  BY LocalTyped DEF IInv, Documents
<1>3. forward \in Operations /\ edit \in Entries
  BY <1>2 DEF Operations, Entries
<1>4. /\ seen[e] \in Seq(Documents) /\ Len(seen[e]) = Len(d.history) + 1
      /\ Local(d) = seen[e][p + 1]
      /\ \A i \in 1..Len(d.history) : Link(d.history[i], seen[e][i], seen[e][i + 1])
  BY DEF IInv, TypeOK, SeenLinked
<1>5. Link(edit, Local(d), doc)
  BY <1>2 DEF Link, Documents
<1>6. edit.forward = forward
  OBVIOUS
<1>7. /\ MayEdit(e)
      /\ Edit(e, [d EXCEPT !.edits = Append(@, forward), !.history = k,
                           !.position = Len(k)], <<forward>>)
      /\ UNCHANGED <<server, blocked, call, orphans>>
      /\ seen' = [seen EXCEPT ![e] = w]
  BY DEF Rename, Record
<1> HIDE DEF edit, doc
<1>8. /\ h \in Seq(Entries) /\ Len(h) = p + 1 /\ h[p + 1] = edit
      /\ \A i \in 1..p : h[i] = d.history[i]
  <2> DEFINE s == SubSeq(d.history, 1, p)
  <2>1. s \in Seq(Entries) /\ Len(s) = p /\ \A i \in 1..p : s[i] = d.history[i]
    BY <1>1
  <2> HIDE DEF s
  <2>2. /\ Append(s, edit) \in Seq(Entries) /\ Len(Append(s, edit)) = p + 1
        /\ Append(s, edit)[p + 1] = edit
        /\ \A i \in 1..p : Append(s, edit)[i] = d.history[i]
    BY <1>1, <1>3, <2>1
  <2> QED
    BY <2>2 DEF s
<1>9. /\ v \in Seq(Documents) /\ Len(v) = p + 2 /\ v[p + 2] = doc
      /\ \A i \in 1..(p + 1) : v[i] = seen[e][i]
  <2> DEFINE s == SubSeq(seen[e], 1, p + 1)
  <2>1. s \in Seq(Documents) /\ Len(s) = p + 1 /\ \A i \in 1..(p + 1) : s[i] = seen[e][i]
    <3>1. p + 1 \in 0..Len(seen[e])
      BY <1>1, <1>4
    <3> QED
      BY <1>4, <3>1, Parts
  <2> HIDE DEF s
  <2>2. /\ Append(s, doc) \in Seq(Documents) /\ Len(Append(s, doc)) = p + 2
        /\ Append(s, doc)[p + 2] = doc
        /\ \A i \in 1..(p + 1) : Append(s, doc)[i] = seen[e][i]
    BY <1>1, <1>2, <2>1
  <2> QED
    BY <2>2 DEF s
<1> HIDE DEF h, v
<1>10. ASSUME NEW i \in 1..Len(h)
       PROVE  Link(h[i], v[i], v[i + 1])
  <2>1. CASE i \in 1..p
    <3>1. /\ i \in 1..Len(d.history) /\ h[i] = d.history[i]
          /\ v[i] = seen[e][i] /\ v[i + 1] = seen[e][i + 1]
      BY <1>1, <1>8, <1>9, <2>1
    <3> QED
      BY <1>4, <3>1
  <2>2. CASE i = p + 1
    <3>1. h[i] = edit /\ v[i] = Local(d) /\ v[i + 1] = doc
      <4>1. p + 1 \in 1..(p + 1) /\ p + 1 + 1 = p + 2
        BY <1>1
      <4> QED
        BY <1>4, <1>8, <1>9, <2>2, <4>1
    <3> QED
      BY <1>5, <3>1
  <2> QED
    BY <1>1, <1>8, <2>1, <2>2
<1>11. Len(h) \in 1..(HistoryLimit + 1) /\ Len(v) = Len(h) + 1 /\ Len(h) + 1 = p + 2
  BY <1>1, <1>8, <1>9
<1>12. w = IF Len(v) > HistoryLimit + 1 THEN Tail(v) ELSE v
  OBVIOUS
<1> HIDE DEF w
<1>13. /\ k \in Seq(Entries) /\ w \in Seq(Documents)
       /\ Len(k) <= HistoryLimit /\ Len(k) \in Nat /\ Len(w) = Len(k) + 1
       /\ w[Len(k) + 1] = doc
       /\ \A i \in 1..Len(k) : Link(k[i], w[i], w[i + 1])
  <2>1. v[Len(h) + 1] = doc /\ h \in Seq(Entries) /\ v \in Seq(Documents)
    BY <1>8, <1>9, <1>11
  <2>2. Len(h) \in 1..(HistoryLimit + 1) /\ Len(v) = Len(h) + 1
    BY <1>11
  <2> QED
    BY <1>10, <1>12, <2>1, <2>2, LatestLinked
<1> HIDE DEF k
<1>14. /\ seen' \in [Editors -> Seq(Documents)] /\ seen'[e] = w
       /\ \A x \in Editors \ {e} : seen'[x] = seen[x]
  <2>1. seen \in [Editors -> Seq(Documents)]
    BY DEF IInv, TypeOK
  <2> QED
    BY <1>7, <1>13, <2>1
<1> HIDE DEF forward
<1>15. /\ TypeOK' /\ Edited(e, forward)
       /\ document'[e].history = k /\ document'[e].position = Len(k)
  <2>1. Len(k) \in 0..Len(k)
    BY <1>13
  <2> QED
    BY <1>3, <1>7, <1>13, <1>14, <2>1, EditIsEdited DEF IInv
<1>16. SavesInv' /\ AppliedInOrder'
  BY <1>15, EditedKeeps DEF IInv
<1>17. SeenLinked'
  <2>1. Local(document'[e]) = doc
    <3>1. Local(document'[e]) = [Local(d) EXCEPT ![forward.field] = forward.name]
      BY <1>15, LocalAppend DEF IInv
    <3> QED
      BY <3>1 DEF doc, forward
  <2>2. \A x \in Editors \ {e} : document'[x] = document[x]
    BY <1>15 DEF Edited
  <2> QED
    BY <1>13, <1>14, <1>15, <2>1, <2>2, SeenElsewhere DEF IInv
<1> QED
  BY <1>15, <1>16, <1>17 DEF IInv

-----------------------------------------------------------------------------
(* A save begins *)

LEMMA OrderKept ==
    ASSUME TypeOK, SavesInv, AppliedInOrder, made' = made,
           \A x \in Editors : OwnReceipts(x)' = OwnReceipts(x) /\ Applied(x)' = Applied(x)
    PROVE  AppliedInOrder'
<1>1. ASSUME NEW x \in Editors
      PROVE  \E at \in [OwnReceipts(x)' -> 0..Len(made'[x])] :
                InOrder(OwnReceipts(x)', at, made'[x], Applied(x)')
  BY OrderStays
<1> QED
  BY <1>1 DEF AppliedInOrder

\* What was seen stays linked when names and edits say the same.
LEMMA SeenKept ==
    ASSUME SeenLinked, seen' = seen,
           \A x \in Editors : /\ Local(document'[x]) = Local(document[x])
                              /\ document'[x].history = document[x].history
                              /\ document'[x].position = document[x].position
    PROVE  SeenLinked'
BY DEF SeenLinked

LEMMA SaveStep ==
    ASSUME IInv, NEW e \in Editors, Save(e)
    PROVE  IInv'
<1> DEFINE d == document[e]
           id == [editor |-> e, session |-> d.session, number |-> d.saves + 1]
           save == Begun(d, id)
           request == [id |-> save.pending.id, base |-> d.base,
                       operations |-> save.operations]
           new == [d EXCEPT !.pending = save.pending, !.saves = save.pending.id.number]
<1>1. /\ document \in [Editors -> Sessions] /\ d \in Sessions
      /\ d.edits \in Seq(Operations) /\ Len(d.edits) \in Nat
      /\ call \in [Editors ->
            {None} \cup [request : Requests, reply : Replies \cup {None}]]
      /\ made[e] \in Seq(Operations) /\ Len(made[e]) \in Nat /\ d.saves \in 0..MaxSaves
      /\ d.session \in 1..MaxSessions /\ d.base \in 1..Len(revisions)
      /\ revisions \in Seq(Documents) /\ Len(revisions) \in Nat
  <2>1. /\ document \in [Editors -> Sessions] /\ revisions \in Seq(Documents)
        /\ call \in [Editors ->
              {None} \cup [request : Requests, reply : Replies \cup {None}]]
    BY DEF IInv, TypeOK
  <2>2. d.edits \in Seq(Operations) /\ made[e] \in Seq(Operations)
    BY SessionFields DEF IInv
  <2> QED
    BY <2>1, <2>2, SessionFields DEF IInv
<1>2. /\ call[e] = None /\ d.edits # <<>> /\ (d.pending = None => d.saves < MaxSaves)
      /\ document' = [document EXCEPT ![e].pending = save.pending,
                                      ![e].saves = save.pending.id.number]
      /\ call' = [call EXCEPT ![e] = [request |-> request, reply |-> None]]
      /\ UNCHANGED <<server, blocked, orphans, made, seen>>
  BY DEF Save
\* The save that awaits an answer from now on: the old one or a new one.
<1>3. /\ save.pending \in [id : Identities, count : 1..MaxEdits]
      /\ save.pending.id.editor = e /\ save.pending.id.session = d.session
      /\ save.pending.id.number \in 0..MaxSaves
      /\ save.pending.id
            = [editor |-> e, session |-> d.session, number |-> save.pending.id.number]
      /\ save.pending.count \in 1..Len(d.edits)
      /\ save.operations = SubSeq(d.edits, 1, save.pending.count)
      /\ save.operations \in Seq(Operations)
      /\ \/ d.pending # None /\ save.pending = d.pending /\ save.pending.id.number = d.saves
         \/ d.pending = None /\ save.pending.id.number = d.saves + 1
  <2>1. /\ Len(d.edits) >= 1 /\ Len(d.edits) <= Len(made[e]) /\ Len(made[e]) <= MaxEdits
    <3>1. Len(d.edits) <= Len(made[e]) /\ Len(made[e]) <= MaxEdits
      BY DEF IInv, SavesInv, EditsKept
    <3>2. Len(d.edits) # 0
      BY <1>1, <1>2
    <3> QED
      BY <1>1, <3>1, <3>2
  <2>2. CASE d.pending = None
    <3>1. save.pending = [id |-> id, count |-> Len(d.edits)]
      BY <2>2 DEF Begun
    <3>2. d.saves + 1 \in 1..MaxSaves /\ d.saves + 1 \in 0..MaxSaves
      BY <1>1, <1>2, <2>2, EditorAssumption DEF EditorAssumption
    <3>3. id \in Identities /\ Len(d.edits) \in 1..MaxEdits /\ Len(d.edits) \in 1..Len(d.edits)
      BY <1>1, <2>1, <3>2, EditorAssumption DEF EditorAssumption, Identities
    <3>4. save.operations = SubSeq(d.edits, 1, Len(d.edits))
      BY <2>2 DEF Begun
    <3>5. SubSeq(d.edits, 1, Len(d.edits)) \in Seq(Operations)
      BY <1>1
    <3> HIDE DEF save
    <3>6. save.pending.id = id /\ save.pending.count = Len(d.edits)
      BY <3>1
    <3> QED
      BY <2>2, <3>1, <3>2, <3>3, <3>4, <3>5, <3>6
  <2>3. CASE d.pending # None
    <3>1. save.pending = d.pending /\ save.operations = SubSeq(d.edits, 1, d.pending.count)
      BY <2>3 DEF Begun
    <3>2. d.pending \in [id : Identities, count : 1..MaxEdits]
      BY <2>3, SessionFields DEF IInv
    <3>3. d.pending.count \in 1..Len(d.edits)
      BY <2>3, SessionSizes DEF IInv, SavesInv
    <3>4. d.pending.id = [editor |-> e, session |-> d.session, number |-> d.saves]
      BY <2>3 DEF IInv, SavesInv, EditsKept
    <3>5. SubSeq(d.edits, 1, d.pending.count) \in Seq(Operations)
      BY <1>1, <3>3
    <3> HIDE DEF save, d
    <3> QED
      BY <1>1, <2>3, <3>1, <3>2, <3>3, <3>4, <3>5
  <2> QED
    BY <2>2, <2>3
<1>4. save.pending # None /\ save.pending.id \in Identities
  <2>1. MaxEdits \in Nat
    BY EditorAssumption DEF EditorAssumption
  <2>2. save.pending \in [id : Identities, count : Nat]
    BY <1>3, <2>1
  <2> QED
    BY <2>2, NoneAssumption DEF NoneAssumption
<1>5. request \in Requests
  BY <1>1, <1>3, <1>4 DEF Requests
<1> HIDE DEF save
<1>6. /\ new \in Sessions /\ new.session = d.session /\ new.base = d.base
      /\ new.names = d.names /\ new.edits = d.edits /\ new.history = d.history
      /\ new.position = d.position /\ new.pending = save.pending
      /\ new.saves = save.pending.id.number
  BY <1>1, <1>3 DEF Sessions
<1>7. /\ document' \in [Editors -> Sessions] /\ document'[e] = new
      /\ \A x \in Editors \ {e} : document'[x] = document[x]
  <2>1. document' = [document EXCEPT ![e] = new]
    BY <1>1, <1>2
  <2> HIDE DEF new
  <2> QED
    BY <1>1, <1>6, <2>1
<1> HIDE DEF new, id
<1>8. /\ call'[e] = [request |-> request, reply |-> None]
      /\ \A x \in Editors \ {e} : call'[x] = call[x]
      /\ call' \in [Editors ->
            {None} \cup [request : Requests, reply : Replies \cup {None}]]
  BY <1>1, <1>2, <1>5
<1>9. /\ request.id = save.pending.id /\ request.base = d.base
      /\ request.operations = SubSeq(d.edits, 1, save.pending.count)
  BY <1>3
<1> HIDE DEF request
<1>10. /\ receipts' = receipts /\ revisions' = revisions /\ deleted' = deleted
       /\ made' = made /\ seen' = seen
       /\ orphans' = orphans /\ blocked' = blocked
       /\ \A i : Known(i)' = Known(i)
       /\ \A r : Spent(r)' <=> Spent(r)
  BY <1>2 DEF server, Known, Spent
<1>11. call'[e] # None /\ call'[e].request = request /\ call'[e].reply = None
  <2>1. call'[e] \in [request : Requests, reply : Replies \cup {None}]
    BY <1>5, <1>8
  <2> QED
    BY <1>8, <2>1, NoneAssumption DEF NoneAssumption
<1>12. Sent' = Sent \cup {request}
  BY <1>2, <1>8, <1>10, <1>11 DEF Sent, Calling
<1>13. Made' = Made \cup {request}
  BY <1>10, <1>12 DEF Made
<1>14. TypeOK'
  <2>1. \A x \in Editors : document'[x].position <= Len(document'[x].history)
    BY <1>6, <1>7 DEF IInv, TypeOK
  <2> QED
    BY <1>7, <1>8, <1>10, <2>1 DEF IInv, TypeOK, Sessions
<1>15. \A x \in Editors : \A i : Own(x, i)' <=> Own(x, i)
  BY <1>6, <1>7 DEF Own
<1>16. \A x \in Editors \ {e} : \A i : Pending(x, i)' <=> Pending(x, i)
  BY <1>7 DEF Pending
<1>17. /\ \A i : Pending(e, i)' <=> i = save.pending.id
       /\ \A i : Pending(e, i) => Pending(e, i)'
  <2>1. \A i : Pending(e, i)' <=> i = save.pending.id
    BY <1>4, <1>6, <1>7 DEF Pending
  <2>2. \A i : Pending(e, i) => i = save.pending.id
    BY <1>3 DEF Pending
  <2> QED
    BY <2>1, <2>2
\* What carries the identity already is what is sent again.
<1>18. ASSUME NEW y \in Made, y.id = save.pending.id
       PROVE  Pending(e, y.id) /\ SameDigest(request, y) /\ y.base = d.base
              /\ y.operations = SubSeq(d.edits, 1, save.pending.count)
  <2>1. CASE d.pending = None
    <3>1. y.id.editor = e /\ y.id.session = d.session /\ y.id.number = d.saves + 1
      BY <1>3, <1>18, <2>1
    <3>2. y.id.number <= d.saves
      BY <3>1 DEF IInv, SavesInv, IdentitiesKept
    <3> QED
      BY <1>1, <3>1, <3>2
  <2>2. CASE d.pending # None
    <3>1. Pending(e, y.id) /\ save.pending = d.pending
      BY <1>3, <1>18, <2>2 DEF Pending
    <3>2. y.base = d.base /\ y.operations = SubSeq(d.edits, 1, d.pending.count)
      BY <3>1 DEF IInv, SavesInv, IdentitiesKept
    <3> QED
      BY <1>9, <3>1, <3>2 DEF SameDigest
  <2> QED
    BY <2>1, <2>2
<1>19. EditsKept'
  <2>1. ASSUME NEW x \in Editors
        PROVE  /\ Len(made[x]) <= MaxEdits
               /\ Len(document'[x].edits) <= Len(made[x])
               /\ document'[x].edits
                     = SubSeq(made[x], Len(made[x]) - Len(document'[x].edits) + 1,
                              Len(made[x]))
               /\ document'[x].pending # None =>
                     /\ document'[x].pending.count <= Len(document'[x].edits)
                     /\ document'[x].pending.id
                           = [editor |-> x, session |-> document'[x].session,
                              number |-> document'[x].saves]
               /\ Len(document'[x].history) <= HistoryLimit
    <3>1. CASE x # e
      BY <1>7, <3>1 DEF IInv, SavesInv, EditsKept
    <3>2. CASE x = e
      <4>1. save.pending.count <= Len(d.edits)
        BY <1>1, <1>3
      <4>2. save.pending.id = [editor |-> e, session |-> d.session,
                               number |-> save.pending.id.number]
        BY <1>3
      <4>3. /\ Len(made[e]) <= MaxEdits /\ Len(d.edits) <= Len(made[e])
            /\ d.edits = SubSeq(made[e], Len(made[e]) - Len(d.edits) + 1, Len(made[e]))
            /\ Len(d.history) <= HistoryLimit
        BY DEF IInv, SavesInv, EditsKept
      <4> HIDE DEF d
      <4> QED
        BY <1>6, <1>7, <3>2, <4>1, <4>2, <4>3
    <3> QED
      BY <3>1, <3>2
  <2> QED
    BY <1>10, <2>1 DEF EditsKept
<1>20. RevisionsChained' /\ BaseIsRevision'
  <2>1. request.base <= Len(revisions)
    BY <1>1, <1>9
  <2>2. \A x \in Editors : document'[x].names = document[x].names
                           /\ document'[x].base = document[x].base
    BY <1>6, <1>7
  <2> QED
    BY <1>10, <1>12, <2>1, <2>2 DEF IInv, SavesInv, RevisionsChained, BaseIsRevision
<1>21. IdentitiesKept'
  <2>1. ASSUME NEW r \in Sent', NEW x \in Made', r.id = x.id
        PROVE  SameDigest(r, x)
    <3>1. CASE r = request /\ x = request
      BY <3>1 DEF SameDigest
    <3>2. CASE r = request /\ x \in Made
      BY <1>9, <1>18, <2>1, <3>2
    <3>3. CASE r \in Sent /\ x = request
      BY <1>9, <1>18, <2>1, <3>3 DEF SameDigest, Made
    <3>4. CASE r \in Sent /\ x \in Made
      BY <2>1, <3>4 DEF IInv, SavesInv, IdentitiesKept
    <3> QED
      BY <1>12, <1>13, <3>1, <3>2, <3>3, <3>4
  <2>2. ASSUME NEW x \in Editors, NEW y \in Made', y.id.editor = x
        PROVE  /\ y.id.session <= document'[x].session
               /\ y.id.session = document'[x].session => y.id.number <= document'[x].saves
    <3>1. CASE y = request
      <4>1. x = e /\ y.id.session = d.session /\ y.id.number = save.pending.id.number
        BY <1>3, <1>9, <2>2, <3>1
      <4> QED
        BY <1>1, <1>3, <1>6, <1>7, <4>1, EditorAssumption DEF EditorAssumption
    <3>2. CASE y \in Made
      <4>1. /\ y.id.session <= document[x].session
            /\ y.id.session = document[x].session => y.id.number <= document[x].saves
        BY <2>2, <3>2 DEF IInv, SavesInv, IdentitiesKept
      <4>2. CASE x # e
        BY <1>7, <4>1, <4>2
      <4>3. CASE x = e
        <5>1. y.id \in Identities /\ y.id.number \in Nat
          <6>1. y.id \in Identities
            BY <3>2, SentTyped DEF Made, IInv, TypeOK, Requests, Receipts
          <6> QED
            BY <6>1, EditorAssumption DEF EditorAssumption, Identities
        <5>2. d.saves \in Nat /\ (new.saves = d.saves \/ new.saves = d.saves + 1)
          BY <1>1, <1>3, <1>6, EditorAssumption DEF EditorAssumption
        <5>3. y.id.number <= d.saves => y.id.number <= new.saves
          BY <5>1, <5>2
        <5> QED
          BY <1>6, <1>7, <4>1, <4>3, <5>3
      <4> QED
        BY <4>2, <4>3
    <3> QED
      BY <1>13, <3>1, <3>2
  <2>3. ASSUME NEW x \in Editors, NEW y \in Made', Pending(x, y.id)'
        PROVE  /\ y.base = document'[x].base
               /\ y.operations = SubSeq(document'[x].edits, 1, document'[x].pending.count)
    <3>1. CASE x # e
      <4>1. Pending(x, y.id) /\ document'[x] = document[x]
        BY <1>7, <1>16, <2>3, <3>1
      <4>2. y.id.editor = x
        BY <4>1, PendingIsOwn DEF IInv, SavesInv, Own
      <4>3. y \in Made
        BY <1>3, <1>9, <1>13, <3>1, <4>2
      <4> QED
        BY <4>1, <4>3 DEF IInv, SavesInv, IdentitiesKept
    <3>2. CASE x = e
      <4>1. y.id = save.pending.id
        BY <1>17, <2>3, <3>2
      <4>2. y.base = d.base /\ y.operations = SubSeq(d.edits, 1, save.pending.count)
        BY <1>9, <1>13, <1>18, <4>1
      <4> QED
        BY <1>6, <1>7, <3>2, <4>2
    <3> QED
      BY <3>1, <3>2
  <2> QED
    BY <2>1, <2>2, <2>3 DEF IdentitiesKept, SameDigest
<1>22. SettledForGood'
  <2>1. ASSUME NEW x \in Editors, NEW r \in Sent', Own(x, r.id), ~ Pending(x, r.id)'
        PROVE  Known(r.id) # {} \/ Spent(r)
    <3>1. r # request
      <4>1. CASE x = e
        BY <1>9, <1>17, <2>1, <4>1
      <4>2. CASE x # e
        BY <1>3, <1>9, <2>1, <4>2 DEF Own
      <4> QED
        BY <4>1, <4>2
    <3>2. r \in Sent /\ ~ Pending(x, r.id)
      BY <1>12, <1>16, <1>17, <2>1, <3>1
    <3> QED
      BY <2>1, <3>2 DEF IInv, SavesInv, SettledForGood
  <2>2. ASSUME NEW x \in Editors, NEW q \in receipts, Own(x, q.id), ~ Pending(x, q.id)'
        PROVE  q.revision <= document'[x].base
    <3>1. ~ Pending(x, q.id) /\ document'[x].base = document[x].base
      BY <1>6, <1>7, <1>16, <1>17, <2>2
    <3> QED
      BY <2>2, <3>1 DEF IInv, SavesInv, SettledForGood
  <2> QED
    BY <1>10, <1>15, <2>1, <2>2 DEF SettledForGood
<1>23. CallsKept' /\ RefusalsAreForeign'
  <2>1. Pending(e, call[e].request.id)'
    BY <1>4, <1>6, <1>7, <1>9, <1>11 DEF Pending
  <2>2. CallsKept'
    <3>1. CallKept(e)'
      BY <1>11, <2>1 DEF CallKept
    <3>2. ASSUME NEW x \in Editors \ {e}
          PROVE  CallKept(x)'
      <4>1. CallKept(x)
        BY DEF IInv, SavesInv, CallsKept
      <4> QED
        BY <1>7, <1>8, <1>10, <4>1 DEF CallKept, Calling, Pending
    <3> QED
      BY <3>1, <3>2 DEF CallsKept
  <2>3. RefusalsAreForeign'
    BY <1>8, <1>10, <1>11 DEF IInv, SavesInv, RefusalsAreForeign
  <2> QED
    BY <2>2, <2>3
<1>24. AppliedInOrder'
  <2>1. ASSUME NEW x \in Editors
        PROVE  OwnReceipts(x)' = OwnReceipts(x) /\ Applied(x)' = Applied(x)
    <3>1. OwnReceipts(x)' = OwnReceipts(x)
      BY <1>6, <1>7, <1>10 DEF OwnReceipts
    <3>2. CASE x # e
      BY <1>7, <1>10, <1>16, <3>1, <3>2 DEF Applied
    <3>3. CASE x = e
      <4>1. \A q \in receipts : Pending(e, q.id)' <=> Pending(e, q.id)
        BY <1>17, <1>18 DEF Made
      <4>2. (\E q \in receipts : Pending(e, q.id)) => save.pending = d.pending
        BY <1>3 DEF Pending
      <4> QED
        BY <1>6, <1>7, <1>10, <3>1, <3>3, <4>1, <4>2 DEF Applied
    <3> QED
      BY <3>2, <3>3
  <2> QED
    BY <1>10, <2>1, OrderKept DEF IInv
<1>25. SeenLinked'
  BY <1>6, <1>7, <1>10, SeenKept DEF IInv, Local
<1> QED
  BY <1>14, <1>19, <1>20, <1>21, <1>22, <1>23, <1>24, <1>25 DEF IInv, SavesInv

-----------------------------------------------------------------------------
(* A call ends *)

\* The editor waits no longer; what it asked for may yet arrive.
CallEnds(e) ==
    /\ call' = [call EXCEPT ![e] = None]
    /\ orphans' \subseteq orphans \cup Abandoned(e)
    /\ UNCHANGED server

LEMMA CallEndsFacts ==
    ASSUME TypeOK, NEW e \in Editors, CallEnds(e)
    PROVE  /\ Sent' \subseteq Sent /\ Made' \subseteq Made
           /\ receipts' = receipts /\ revisions' = revisions /\ deleted' = deleted
           /\ \A i : Known(i)' = Known(i)
           /\ \A r : Spent(r)' <=> Spent(r)
           /\ call'[e] = None /\ \A x \in Editors \ {e} : call'[x] = call[x]
           /\ call' \in [Editors ->
                 {None} \cup [request : Requests, reply : Replies \cup {None}]]
           /\ orphans' \subseteq Requests
<1>1. call'[e] = None /\ \A x \in Editors \ {e} : call'[x] = call[x]
  BY DEF CallEnds, TypeOK
<1>2. receipts' = receipts /\ revisions' = revisions /\ deleted' = deleted
      /\ \A i : Known(i)' = Known(i)
      /\ \A r : Spent(r)' <=> Spent(r)
  BY DEF CallEnds, server, Known, Spent
<1>3. Abandoned(e) \subseteq Sent
  BY DEF Abandoned, Sent, Calling
<1>4. orphans' \subseteq Sent
  BY <1>3 DEF CallEnds, Sent
<1>5. Sent' \subseteq Sent
  BY <1>1, <1>4 DEF Sent, Calling
<1>6. Made' \subseteq Made
  BY <1>2, <1>5 DEF Made
<1>7. call' \in [Editors ->
         {None} \cup [request : Requests, reply : Replies \cup {None}]]
  BY DEF CallEnds, TypeOK
<1> QED
  BY <1>1, <1>2, <1>4, <1>5, <1>6, <1>7, SentTyped

\* The calls that do not end, and the chain of revisions.
LEMMA CallEndsKeeps ==
    ASSUME TypeOK, SavesInv, NEW e \in Editors, CallEnds(e),
           \A x \in Editors \ {e} : document'[x] = document[x]
    PROVE  RevisionsChained' /\ CallsKept' /\ RefusalsAreForeign'
<1>1. RevisionsChained'
  BY CallEndsFacts DEF SavesInv, RevisionsChained
<1>2. CallsKept'
  <2>1. CallKept(e)'
    BY CallEndsFacts DEF CallKept, Calling
  <2>2. ASSUME NEW x \in Editors \ {e}
        PROVE  CallKept(x)'
    <3>1. CallKept(x)
      BY DEF SavesInv, CallsKept
    <3> QED
      BY <3>1, CallEndsFacts DEF CallKept, Calling, Pending
  <2> QED
    BY <2>1, <2>2 DEF CallsKept
<1>3. RefusalsAreForeign'
  BY CallEndsFacts DEF SavesInv, RefusalsAreForeign
<1> QED
  BY <1>1, <1>2, <1>3

\* The save is settled: the identity of e's session stands for it no more.
LEMMA SettledIdentities ==
    ASSUME TypeOK, SavesInv, NEW e \in Editors, CallEnds(e),
           \A x \in Editors \ {e} : document'[x] = document[x],
           document'[e].pending = None,
           document'[e].session = document[e].session,
           document'[e].saves = document[e].saves
    PROVE  IdentitiesKept'
<1>1. /\ Sent' \subseteq Sent /\ Made' \subseteq Made
  BY CallEndsFacts
<1>2. \A i : ~ Pending(e, i)'
  BY DEF Pending
<1>3. \A x \in Editors \ {e} : \A i : Pending(x, i)' <=> Pending(x, i)
  BY DEF Pending
<1>4. \A r \in Sent, x \in Made : r.id = x.id => SameDigest(r, x)
  BY DEF SavesInv, IdentitiesKept
<1>5. ASSUME NEW x \in Editors, NEW y \in Made
      PROVE  /\ y.id.editor = x =>
                   /\ y.id.session <= document'[x].session
                   /\ y.id.session = document'[x].session => y.id.number <= document'[x].saves
             /\ Pending(x, y.id)' =>
                   /\ y.base = document'[x].base
                   /\ y.operations = SubSeq(document'[x].edits, 1,
                                            document'[x].pending.count)
  <2>1. CASE x = e
    BY <1>2, <2>1 DEF SavesInv, IdentitiesKept
  <2>2. CASE x # e
    BY <1>3, <2>2 DEF SavesInv, IdentitiesKept
  <2> QED
    BY <2>1, <2>2
<1> QED
  BY <1>1, <1>4, <1>5 DEF IdentitiesKept, SameDigest

\* It fails for a reason that leaves open what became of it, or the schema is gone.
LEMMA UnsettledStep ==
    ASSUME IInv, NEW e \in Editors, Hang(e) \/ ReceiveUnavailable(e)
    PROVE  IInv'
<1>1. CallEnds(e) /\ UNCHANGED <<server, document, blocked, made, seen>>
  BY DEF Hang, ReceiveUnavailable, CallEnds
<1>2. /\ Sent' \subseteq Sent /\ Made' \subseteq Made
      /\ receipts' = receipts /\ revisions' = revisions /\ deleted' = deleted
      /\ \A i : Known(i)' = Known(i)
      /\ \A r : Spent(r)' <=> Spent(r)
      /\ call' \in [Editors ->
            {None} \cup [request : Requests, reply : Replies \cup {None}]]
      /\ orphans' \subseteq Requests
      /\ document' = document /\ made' = made /\ seen' = seen /\ blocked' = blocked
  BY <1>1, CallEndsFacts DEF IInv
<1>3. TypeOK'
  BY <1>2 DEF IInv, TypeOK, Sessions
<1>4. RevisionsChained' /\ CallsKept' /\ RefusalsAreForeign'
  BY <1>1, CallEndsKeeps DEF IInv
<1>5. \A x \in Editors : \A i : /\ Own(x, i)' <=> Own(x, i)
                                /\ Pending(x, i)' <=> Pending(x, i)
  BY <1>2 DEF Own, Pending
<1>6. EditsKept' /\ BaseIsRevision'
  BY <1>2 DEF IInv, SavesInv, EditsKept, BaseIsRevision
<1>7. IdentitiesKept'
  BY <1>2, <1>5 DEF IInv, SavesInv, IdentitiesKept, SameDigest
<1>8. SettledForGood'
  BY <1>2, <1>5 DEF IInv, SavesInv, SettledForGood
<1>9. AppliedInOrder'
  <2>1. \A x \in Editors : OwnReceipts(x)' = OwnReceipts(x) /\ Applied(x)' = Applied(x)
    BY <1>2, <1>5 DEF OwnReceipts, Applied
  <2> QED
    BY <1>2, <2>1, OrderKept DEF IInv
<1>10. SeenLinked'
  BY <1>2, SeenKept DEF IInv
<1> QED
  BY <1>3, <1>4, <1>6, <1>7, <1>8, <1>9, <1>10 DEF IInv, SavesInv

\* It was refused: what was edited stays, under no identity.
LEMMA RejectedStep ==
    ASSUME IInv, NEW e \in Editors, ReceiveRejected(e)
    PROVE  IInv'
<1> DEFINE d == document[e]
           new == [d EXCEPT !.pending = None]
           request == call[e].request
<1>1. /\ CallEnds(e) /\ call[e] # None /\ call[e].reply # None
      /\ call[e].reply.status \in Refused
      /\ document' = [document EXCEPT ![e] = new]
      /\ blocked' = [blocked EXCEPT ![e] = @ \/ call[e].reply.status = "conflict"]
      /\ UNCHANGED <<server, orphans, made, seen>>
  BY DEF ReceiveRejected, CallEnds, Released, Refused
<1>2. /\ Sent' \subseteq Sent /\ Made' \subseteq Made
      /\ receipts' = receipts /\ revisions' = revisions /\ deleted' = deleted
      /\ \A i : Known(i)' = Known(i)
      /\ \A r : Spent(r)' <=> Spent(r)
      /\ call' \in [Editors ->
            {None} \cup [request : Requests, reply : Replies \cup {None}]]
      /\ orphans' \subseteq Requests /\ made' = made /\ seen' = seen
  BY <1>1, CallEndsFacts DEF IInv
<1>3. /\ new \in Sessions /\ new.session = d.session /\ new.base = d.base
      /\ new.names = d.names /\ new.edits = d.edits /\ new.history = d.history
      /\ new.position = d.position /\ new.pending = None /\ new.saves = d.saves
  <2>1. d \in Sessions
    BY SessionFields DEF IInv
  <2> QED
    BY <2>1 DEF Sessions
<1> HIDE DEF new
<1>4. /\ document' \in [Editors -> Sessions] /\ document'[e] = new
      /\ \A x \in Editors \ {e} : document'[x] = document[x]
  BY <1>1, <1>3 DEF IInv, TypeOK
<1>5. blocked' \in [Editors -> BOOLEAN]
  BY <1>1 DEF IInv, TypeOK
<1>6. TypeOK'
  <2>1. \A x \in Editors : document'[x].position <= Len(document'[x].history)
    BY <1>3, <1>4 DEF IInv, TypeOK
  <2> QED
    BY <1>2, <1>4, <1>5, <2>1 DEF IInv, TypeOK, Sessions
<1>7. RevisionsChained' /\ CallsKept' /\ RefusalsAreForeign'
  BY <1>1, <1>4, CallEndsKeeps DEF IInv
<1>8. IdentitiesKept'
  BY <1>1, <1>3, <1>4, SettledIdentities DEF IInv
\* The request of the call is spent, and was not applied.
<1>9. Pending(e, request.id) /\ Known(request.id) = {} /\ Spent(request) /\ request \in Sent
  <2>1. CallKept(e) /\ Calling(e)
    BY <1>1 DEF IInv, SavesInv, CallsKept, Calling
  <2> QED
    BY <1>1, <2>1, SentTyped DEF CallKept, IInv
<1>10. \A x \in Editors : \A i : /\ Own(x, i)' <=> Own(x, i)
                                 /\ x # e => (Pending(x, i)' <=> Pending(x, i))
  BY <1>3, <1>4 DEF Own, Pending
<1>11. \A q \in receipts : ~ Pending(e, q.id)
  BY <1>9 DEF Pending, Known
<1>12. EditsKept'
  BY <1>2, <1>3, <1>4 DEF IInv, SavesInv, EditsKept
<1>13. BaseIsRevision'
  BY <1>2, <1>3, <1>4 DEF IInv, SavesInv, BaseIsRevision
<1>14. SettledForGood'
  <2>1. ASSUME NEW x \in Editors, NEW r \in Sent, Own(x, r.id), ~ Pending(x, r.id)'
        PROVE  Known(r.id) # {} \/ Spent(r)
    <3>1. CASE ~ Pending(x, r.id)
      BY <2>1, <3>1 DEF IInv, SavesInv, SettledForGood
    <3>2. CASE Pending(x, r.id)
      <4>1. r.id = request.id
        BY <1>9, <1>10, <2>1, <3>2 DEF Pending
      <4>2. SameDigest(request, r)
        BY <1>9, <4>1 DEF IInv, SavesInv, IdentitiesKept, Made
      <4> QED
        BY <1>9, <4>2 DEF Spent, SameDigest
    <3> QED
      BY <3>1, <3>2
  <2>2. ASSUME NEW x \in Editors, NEW q \in receipts, Own(x, q.id), ~ Pending(x, q.id)'
        PROVE  q.revision <= document'[x].base
    <3>1. ~ Pending(x, q.id)
      BY <1>10, <1>11, <2>2
    <3>2. document'[x].base = document[x].base
      BY <1>3, <1>4
    <3> QED
      BY <2>2, <3>1, <3>2 DEF IInv, SavesInv, SettledForGood
  <2> QED
    BY <1>2, <1>10, <2>1, <2>2 DEF SettledForGood
<1>15. AppliedInOrder'
  <2>1. ASSUME NEW x \in Editors
        PROVE  OwnReceipts(x)' = OwnReceipts(x) /\ Applied(x)' = Applied(x)
    <3>1. OwnReceipts(x)' = OwnReceipts(x)
      BY <1>2, <1>3, <1>4 DEF OwnReceipts
    <3>2. CASE x # e
      BY <1>2, <1>4, <1>10, <3>1, <3>2 DEF Applied
    <3>3. CASE x = e
      <4>1. \A q \in receipts : ~ Pending(e, q.id)'
        BY <1>3, <1>4 DEF Pending
      <4> QED
        BY <1>2, <1>3, <1>4, <1>11, <3>1, <3>3, <4>1 DEF Applied
    <3> QED
      BY <3>2, <3>3
  <2> QED
    BY <1>2, <2>1, OrderKept DEF IInv
<1>16. SeenLinked'
  BY <1>2, <1>3, <1>4, SeenKept DEF IInv, Local
<1> QED
  BY <1>6, <1>7, <1>8, <1>12, <1>13, <1>14, <1>15, <1>16 DEF IInv, SavesInv

\* It was applied: what was sent is the base of what was not.
LEMMA AppliedStep ==
    ASSUME IInv, NEW e \in Editors, ReceiveApplied(e)
    PROVE  IInv'
<1> DEFINE d == document[e]
           n == call[e].reply.revision
           new == Confirmed(d, n)
           k == d.pending.count
           request == call[e].request
<1>1. /\ CallEnds(e) /\ call[e] # None /\ call[e].reply # None
      /\ call[e].reply.status = "applied"
      /\ document' = [document EXCEPT ![e] = new]
      /\ UNCHANGED <<server, blocked, orphans, made, seen>>
  BY DEF ReceiveApplied, CallEnds
<1>2. /\ Sent' \subseteq Sent /\ Made' \subseteq Made
      /\ receipts' = receipts /\ revisions' = revisions /\ deleted' = deleted
      /\ \A i : Known(i)' = Known(i)
      /\ \A r : Spent(r)' <=> Spent(r)
      /\ call' \in [Editors ->
            {None} \cup [request : Requests, reply : Replies \cup {None}]]
      /\ orphans' \subseteq Requests /\ made' = made /\ seen' = seen /\ blocked' = blocked
  BY <1>1, CallEndsFacts DEF IInv
\* The receipt of the call.
<1>3. PICK q \in receipts : q.id = request.id /\ q.revision = n /\ Pending(e, q.id)
  <2>1. CallKept(e) /\ Calling(e)
    BY <1>1 DEF IInv, SavesInv, CallsKept, Calling
  <2> QED
    BY <1>1, <2>1 DEF CallKept
<1>4. d.pending # None /\ q.id = d.pending.id
  BY <1>3 DEF Pending
<1>5. /\ d \in Sessions /\ d.edits \in Seq(Operations) /\ d.names \in Documents
      /\ k \in 1..Len(d.edits) /\ k \in 0..Len(d.edits)
      /\ Len(d.edits) \in Nat /\ Len(made[e]) \in Nat /\ Len(d.edits) <= Len(made[e])
      /\ made[e] \in Seq(Operations)
  <2>1. d \in Sessions /\ d.edits \in Seq(Operations) /\ d.names \in Documents
        /\ made[e] \in Seq(Operations)
    BY SessionFields DEF IInv
  <2>2. k \in 1..Len(d.edits) /\ Len(d.edits) <= Len(made[e])
    BY <1>4, SessionSizes DEF IInv, SavesInv
  <2> QED
    BY <2>1, <2>2
<1>6. /\ q.base = d.base /\ q.operations = SubSeq(d.edits, 1, k)
      /\ n = d.base + 1 /\ n <= Len(revisions) /\ n \in 1..Len(revisions)
      /\ revisions[n] = Project(revisions[d.base], q.operations)
      /\ d.base \in Nat
  <2>1. q.base = d.base /\ q.operations = SubSeq(d.edits, 1, k)
    BY <1>3 DEF IInv, SavesInv, IdentitiesKept, Made
  <2>2. /\ q.revision = q.base + 1 /\ q.revision <= Len(revisions)
        /\ revisions[q.revision] = Project(revisions[q.base], q.operations)
    BY DEF IInv, SavesInv, RevisionsChained
  <2>3. q.base \in Nat /\ q.revision \in Nat \ {0} /\ Len(revisions) \in Nat
    BY DEF IInv, TypeOK, Receipts
  <2> QED
    BY <1>3, <2>1, <2>2, <2>3
<1> DEFINE first == SubSeq(d.edits, 1, k)
           rest == SubSeq(d.edits, k + 1, Len(d.edits))
           names == Project(d.names, first)
<1>7. /\ first \in Seq(Operations) /\ rest \in Seq(Operations)
      /\ Len(rest) = Len(d.edits) - k /\ names \in Documents
      /\ Project(names, rest) = Project(d.names, d.edits)
  <2>1. first \in Seq(Operations) /\ rest \in Seq(Operations)
        /\ Len(rest) = Len(d.edits) - k
    BY <1>5, Parts
  <2>2. names \in Documents
    BY <1>5, <2>1, ProjectType
  <2>3. Project(names, rest) = Project(d.names, d.edits)
    BY <1>5, ProjectParts
  <2> QED
    BY <2>1, <2>2, <2>3
<1>8. /\ new \in Sessions /\ new.session = d.session /\ new.base = n
      /\ new.names = names /\ new.edits = rest /\ new.history = d.history
      /\ new.position = d.position /\ new.pending = None /\ new.saves = d.saves
  <2>1. new = [d EXCEPT !.names = names, !.edits = rest, !.pending = None, !.base = n]
    BY <1>5 DEF Confirmed, Sessions
  <2> HIDE DEF names, rest, new, n
  <2> QED
    BY <1>5, <1>6, <1>7, <2>1 DEF Sessions
<1> HIDE DEF new
<1>9. /\ document' \in [Editors -> Sessions] /\ document'[e] = new
      /\ \A x \in Editors \ {e} : document'[x] = document[x]
  BY <1>1, <1>8 DEF IInv, TypeOK
<1>10. TypeOK'
  <2>1. \A x \in Editors : document'[x].position <= Len(document'[x].history)
    BY <1>8, <1>9 DEF IInv, TypeOK
  <2> QED
    BY <1>2, <1>9, <2>1 DEF IInv, TypeOK, Sessions
<1>11. RevisionsChained' /\ CallsKept' /\ RefusalsAreForeign'
  BY <1>1, <1>9, CallEndsKeeps DEF IInv
<1>12. IdentitiesKept'
  BY <1>1, <1>8, <1>9, SettledIdentities DEF IInv
<1>13. \A x \in Editors : \A i : /\ Own(x, i)' <=> Own(x, i)
                                 /\ x # e => (Pending(x, i)' <=> Pending(x, i))
  BY <1>8, <1>9 DEF Own, Pending
<1> DEFINE c == Len(made[e]) - Len(d.edits)
<1>14. /\ c \in 0..Len(made[e]) /\ k \in 0..(Len(made[e]) - c) /\ c \in Nat /\ k \in Nat
       /\ Len(made[e]) - Len(rest) = c + k /\ Len(d.edits) = Len(made[e]) - c
       /\ Len(rest) <= Len(made[e])
  <2>1. \A m, l, i \in Nat : l <= m /\ i <= l =>
           /\ m - l \in 0..m /\ i \in 0..(m - (m - l)) /\ m - l \in Nat
           /\ m - (l - i) = (m - l) + i /\ l = m - (m - l) /\ l - i <= m
    OBVIOUS
  <2>2. k \in Nat /\ k <= Len(d.edits)
    BY <1>5
  <2>3. Len(rest) = Len(d.edits) - k
    BY <1>7
  <2> DEFINE m == Len(made[e])
             l == Len(d.edits)
  <2>4. m \in Nat /\ l \in Nat /\ k \in Nat /\ l <= m /\ k <= l
    BY <1>5, <2>2
  <2> HIDE DEF k, m, l, rest
  <2>5. /\ m - l \in 0..m /\ k \in 0..(m - (m - l)) /\ m - l \in Nat
        /\ m - (l - k) = (m - l) + k /\ l = m - (m - l) /\ l - k <= m
    BY <2>1, <2>4
  <2> QED
    BY <2>3, <2>4, <2>5 DEF m, l
<1>15. rest = SubSeq(made[e], Len(made[e]) - Len(rest) + 1, Len(made[e]))
  <2>1. d.edits = SubSeq(made[e], c + 1, Len(made[e]))
    BY DEF IInv, SavesInv, EditsKept
  <2>2. SubSeq(SubSeq(made[e], c + 1, Len(made[e])), k + 1, Len(made[e]) - c)
           = SubSeq(made[e], c + k + 1, Len(made[e]))
    <3> HIDE DEF c, k
    <3> QED
      BY <1>5, <1>14, Slices
  <2> QED
    BY <1>14, <2>1, <2>2
<1> HIDE DEF rest, c
<1>16. EditsKept'
  <2>1. ASSUME NEW x \in Editors
        PROVE  /\ Len(made[x]) <= MaxEdits
               /\ Len(document'[x].edits) <= Len(made[x])
               /\ document'[x].edits
                     = SubSeq(made[x], Len(made[x]) - Len(document'[x].edits) + 1,
                              Len(made[x]))
               /\ document'[x].pending # None =>
                     /\ document'[x].pending.count <= Len(document'[x].edits)
                     /\ document'[x].pending.id
                           = [editor |-> x, session |-> document'[x].session,
                              number |-> document'[x].saves]
               /\ Len(document'[x].history) <= HistoryLimit
    <3>1. CASE x # e
      BY <1>9, <3>1 DEF IInv, SavesInv, EditsKept
    <3>2. CASE x = e
      <4>1. Len(made[e]) <= MaxEdits /\ Len(d.history) <= HistoryLimit
        BY DEF IInv, SavesInv, EditsKept
      <4> HIDE DEF d
      <4> QED
        BY <1>8, <1>9, <1>14, <1>15, <3>2, <4>1
    <3> QED
      BY <3>1, <3>2
  <2> QED
    BY <1>2, <2>1 DEF EditsKept
<1>17. BaseIsRevision'
  <2>1. names = revisions[n]
    BY <1>6 DEF IInv, SavesInv, BaseIsRevision
  <2>2. \A x \in Editors \ {e} : document[x].names = revisions[document[x].base]
    BY DEF IInv, SavesInv, BaseIsRevision
  <2> QED
    BY <1>2, <1>8, <1>9, <2>1, <2>2 DEF BaseIsRevision
<1>18. SettledForGood'
  <2>1. ASSUME NEW x \in Editors, NEW r \in Sent, Own(x, r.id), ~ Pending(x, r.id)'
        PROVE  Known(r.id) # {} \/ Spent(r)
    <3>1. CASE ~ Pending(x, r.id)
      BY <2>1, <3>1 DEF IInv, SavesInv, SettledForGood
    <3>2. CASE Pending(x, r.id)
      <4>1. r.id = q.id
        BY <1>4, <1>13, <2>1, <3>2 DEF Pending
      <4> QED
        BY <4>1 DEF Known
    <3> QED
      BY <3>1, <3>2
  <2>2. ASSUME NEW x \in Editors, NEW y \in receipts, Own(x, y.id), ~ Pending(x, y.id)'
        PROVE  y.revision <= document'[x].base
    <3>1. CASE x # e
      <4>1. ~ Pending(x, y.id) /\ document'[x].base = document[x].base
        BY <1>9, <1>13, <2>2, <3>1
      <4> QED
        BY <2>2, <4>1 DEF IInv, SavesInv, SettledForGood
    <3>2. CASE x = e
      <4>1. CASE Pending(e, y.id)
        <5>1. y = q
          BY <1>4, <4>1 DEF Pending, IInv, SavesInv, RevisionsChained
        <5> QED
          BY <1>3, <1>6, <1>8, <1>9, <3>2, <5>1
      <4>2. CASE ~ Pending(e, y.id)
        <5>1. y.revision <= d.base
          BY <2>2, <3>2, <4>2 DEF IInv, SavesInv, SettledForGood
        <5>2. y.revision \in Nat
          BY DEF IInv, TypeOK, Receipts
        <5> QED
          BY <1>6, <1>8, <1>9, <3>2, <5>1, <5>2
      <4> QED
        BY <4>1, <4>2
    <3> QED
      BY <3>1, <3>2
  <2> QED
    BY <1>2, <1>13, <2>1, <2>2 DEF SettledForGood
<1>19. AppliedInOrder'
  <2>1. ASSUME NEW x \in Editors
        PROVE  OwnReceipts(x)' = OwnReceipts(x) /\ Applied(x)' = Applied(x)
    <3>1. OwnReceipts(x)' = OwnReceipts(x)
      BY <1>2, <1>8, <1>9 DEF OwnReceipts
    <3>2. CASE x # e
      BY <1>2, <1>9, <1>13, <3>1, <3>2 DEF Applied
    <3>3. CASE x = e
      <4>1. Applied(e) = c + k
        BY <1>3 DEF Applied, c
      <4>2. Applied(e)' = Len(made[e]) - Len(rest) + 0
        <5>1. \A y \in receipts : ~ Pending(e, y.id)'
          BY <1>8, <1>9 DEF Pending
        <5> QED
          BY <1>2, <1>8, <1>9, <5>1 DEF Applied
      <4>3. c + k + 0 = c + k
        BY <1>14
      <4> QED
        BY <1>14, <3>1, <3>3, <4>1, <4>2, <4>3
    <3> QED
      BY <3>2, <3>3
  <2> QED
    BY <1>2, <2>1, OrderKept DEF IInv
<1>20. SeenLinked'
  <2>1. Local(document'[e]) = Local(document[e])
    BY <1>7, <1>8, <1>9 DEF Local
  <2>2. \A x \in Editors : /\ Local(document'[x]) = Local(document[x])
                           /\ document'[x].history = document[x].history
                           /\ document'[x].position = document[x].position
    BY <1>8, <1>9, <2>1
  <2> QED
    BY <1>2, <2>2, SeenKept DEF IInv
<1> QED
  BY <1>10, <1>11, <1>12, <1>16, <1>17, <1>18, <1>19, <1>20 DEF IInv, SavesInv

-----------------------------------------------------------------------------
(* The schema is opened again *)

\* A session that has just been opened.
LEMMA OpenedFields ==
    ASSUME TypeOK, NEW s \in 1..MaxSessions, NEW n \in 1..Len(revisions)
    PROVE  LET d == Opened(s, n) IN
           /\ d \in Sessions /\ d.session = s /\ d.base = n /\ d.names = revisions[n]
           /\ d.edits = <<>> /\ d.history = <<>> /\ d.position = 0
           /\ d.pending = None /\ d.saves = 0
           /\ Local(d) = revisions[n]
<1>1. revisions[n] \in Documents
  BY DEF TypeOK
<1>2. 0 \in 0..HistoryLimit /\ 0 \in 0..MaxSaves
  BY EditorAssumption DEF EditorAssumption
<1>3. <<>> \in Seq(Operations) /\ <<>> \in Seq([forward : Operations, inverse : Operations])
  OBVIOUS
<1>4. Opened(s, n) \in Sessions
  BY <1>1, <1>2, <1>3 DEF Opened, Sessions
<1>5. Local(Opened(s, n)) = revisions[n]
  BY <1>1, ProjectNothing DEF Local, Opened
<1> QED
  BY <1>4, <1>5 DEF Opened

\* No operation was made: none was applied.
LEMMA NothingApplied ==
    ASSUME NEW own, own = {}
    PROVE  \E at \in [own -> 0..Len(<<>>)] : InOrder(own, at, <<>>, 0)
<1> DEFINE at == [q \in own |-> 0]
<1>1. at \in [own -> 0..Len(<<>>)]
  OBVIOUS
<1>2. InOrder(own, at, <<>>, 0)
  BY DEF InOrder
<1> HIDE DEF at
<1> QED
  BY <1>1, <1>2

LEMMA ReopenStep ==
    ASSUME IInv, NEW e \in Editors, Reopen(e)
    PROVE  IInv'
<1>1. PICK n \in 1..Len(revisions) :
        /\ document[e].session < MaxSessions
        /\ document' = [document EXCEPT ![e] = Opened(@.session + 1, n)]
        /\ blocked' = [blocked EXCEPT ![e] = FALSE]
        /\ orphans' = orphans \cup Abandoned(e)
        /\ call' = [call EXCEPT ![e] = None]
        /\ made' = [made EXCEPT ![e] = <<>>]
        /\ seen' = [seen EXCEPT ![e] = <<revisions[n]>>]
        /\ UNCHANGED server
  BY DEF Reopen
<1> DEFINE d == document[e]
           new == Opened(d.session + 1, n)
<1>2. CallEnds(e)
  BY <1>1 DEF CallEnds
<1>3. /\ Sent' \subseteq Sent /\ Made' \subseteq Made
      /\ receipts' = receipts /\ revisions' = revisions /\ deleted' = deleted
      /\ \A i : Known(i)' = Known(i)
      /\ \A r : Spent(r)' <=> Spent(r)
      /\ call' \in [Editors ->
            {None} \cup [request : Requests, reply : Replies \cup {None}]]
      /\ orphans' \subseteq Requests
  BY <1>2, CallEndsFacts DEF IInv
<1>4. d.session \in Nat /\ d.session + 1 \in 1..MaxSessions
  <2>1. d.session \in 1..MaxSessions
    BY SessionFields DEF IInv
  <2> QED
    BY <1>1, <2>1, EditorAssumption DEF EditorAssumption
<1>5. /\ new \in Sessions /\ new.session = d.session + 1 /\ new.base = n
      /\ new.names = revisions[n]
      /\ new.edits = <<>> /\ new.history = <<>> /\ new.position = 0
      /\ new.pending = None /\ new.saves = 0 /\ Local(new) = revisions[n]
  BY <1>4, OpenedFields DEF IInv
<1> HIDE DEF new
<1>6. /\ document' \in [Editors -> Sessions] /\ document'[e] = new
      /\ \A x \in Editors \ {e} : document'[x] = document[x]
  <2>1. document' = [document EXCEPT ![e] = new]
    BY <1>1 DEF new
  <2> QED
    BY <1>5, <2>1 DEF IInv, TypeOK
<1>7. /\ made'[e] = <<>> /\ made' \in [Editors -> Seq(Operations)]
      /\ \A x \in Editors \ {e} : made'[x] = made[x]
  <2>1. <<>> \in Seq(Operations)
    OBVIOUS
  <2> QED
    BY <1>1, <2>1 DEF IInv, TypeOK
<1>8. /\ seen'[e] = <<revisions[n]>> /\ seen' \in [Editors -> Seq(Documents)]
      /\ \A x \in Editors \ {e} : seen'[x] = seen[x]
  <2>1. revisions[n] \in Documents
    BY DEF IInv, TypeOK
  <2>2. <<revisions[n]>> \in Seq(Documents)
    BY <2>1
  <2> QED
    BY <1>1, <2>2 DEF IInv, TypeOK
<1>9. TypeOK'
  <2>1. ASSUME NEW x \in Editors
        PROVE  document'[x].position <= Len(document'[x].history)
    <3>1. CASE x = e
      <4>1. 0 <= Len(<<>>)
        OBVIOUS
      <4> QED
        BY <1>5, <1>6, <3>1, <4>1
    <3>2. CASE x # e
      BY <1>6, <3>2 DEF IInv, TypeOK
    <3> QED
      BY <3>1, <3>2
  <2>2. blocked' \in [Editors -> BOOLEAN]
    BY <1>1 DEF IInv, TypeOK
  <2> QED
    BY <1>3, <1>6, <1>7, <1>8, <2>1, <2>2 DEF IInv, TypeOK, Sessions
<1>10. RevisionsChained' /\ CallsKept' /\ RefusalsAreForeign'
  BY <1>2, <1>6, CallEndsKeeps DEF IInv
\* Nothing is known of the session that was opened.
<1>11. ASSUME NEW y \in Made, y.id.editor = e
       PROVE  /\ y.id.session <= d.session + 1 /\ y.id.session # d.session + 1
  <2>1. y.id.session <= d.session
    BY <1>11 DEF IInv, SavesInv, IdentitiesKept
  <2>2. y.id \in Identities
    BY SentTyped DEF Made, IInv, TypeOK, Requests, Receipts
  <2>3. y.id.session \in Nat
    BY <2>2, EditorAssumption DEF EditorAssumption, Identities
  <2> QED
    BY <1>4, <2>1, <2>3
<1>12. /\ \A y \in Made : ~ Own(e, y.id)'
       /\ \A i : ~ Pending(e, i)'
       /\ \A x \in Editors \ {e} : \A i : /\ Own(x, i)' <=> Own(x, i)
                                          /\ Pending(x, i)' <=> Pending(x, i)
  <2>1. \A y \in Made : ~ Own(e, y.id)'
    BY <1>5, <1>6, <1>11 DEF Own
  <2> QED
    BY <1>5, <1>6, <2>1 DEF Own, Pending
<1>13. EditsKept'
  <2>1. ASSUME NEW x \in Editors
        PROVE  /\ Len(made'[x]) <= MaxEdits
               /\ Len(document'[x].edits) <= Len(made'[x])
               /\ document'[x].edits
                     = SubSeq(made'[x], Len(made'[x]) - Len(document'[x].edits) + 1,
                              Len(made'[x]))
               /\ document'[x].pending # None =>
                     /\ document'[x].pending.count <= Len(document'[x].edits)
                     /\ document'[x].pending.id
                           = [editor |-> x, session |-> document'[x].session,
                              number |-> document'[x].saves]
               /\ Len(document'[x].history) <= HistoryLimit
    <3>1. CASE x # e
      BY <1>6, <1>7, <3>1 DEF IInv, SavesInv, EditsKept
    <3>2. CASE x = e
      <4>1. 0 <= MaxEdits /\ 0 <= HistoryLimit /\ Len(<<>>) = 0
        BY EditorAssumption DEF EditorAssumption
      <4>2. <<>> = SubSeq(<<>>, 0 - 0 + 1, 0)
        OBVIOUS
      <4> QED
        BY <1>5, <1>6, <1>7, <3>2, <4>1, <4>2
    <3> QED
      BY <3>1, <3>2
  <2> QED
    BY <2>1 DEF EditsKept
<1>14. BaseIsRevision'
  BY <1>3, <1>5, <1>6 DEF IInv, SavesInv, BaseIsRevision
<1>15. IdentitiesKept'
  <2>1. \A r \in Sent, x \in Made : r.id = x.id => SameDigest(r, x)
    BY DEF IInv, SavesInv, IdentitiesKept
  <2>2. ASSUME NEW x \in Editors, NEW y \in Made
        PROVE  /\ y.id.editor = x =>
                     /\ y.id.session <= document'[x].session
                     /\ y.id.session = document'[x].session => y.id.number <= document'[x].saves
               /\ Pending(x, y.id)' =>
                     /\ y.base = document'[x].base
                     /\ y.operations = SubSeq(document'[x].edits, 1,
                                              document'[x].pending.count)
    <3>1. CASE x = e
      BY <1>5, <1>6, <1>11, <1>12, <3>1
    <3>2. CASE x # e
      BY <1>6, <1>12, <3>2 DEF IInv, SavesInv, IdentitiesKept
    <3> QED
      BY <3>1, <3>2
  <2> QED
    BY <1>3, <2>1, <2>2 DEF IdentitiesKept, SameDigest
<1>16. SettledForGood'
  <2>1. ASSUME NEW x \in Editors, NEW r \in Sent, Own(x, r.id)', ~ Pending(x, r.id)'
        PROVE  Known(r.id) # {} \/ Spent(r)
    <3>1. x # e
      BY <1>12, <2>1 DEF Made
    <3> QED
      BY <1>12, <2>1, <3>1 DEF IInv, SavesInv, SettledForGood
  <2>2. ASSUME NEW x \in Editors, NEW q \in receipts, Own(x, q.id)', ~ Pending(x, q.id)'
        PROVE  q.revision <= document'[x].base
    <3>1. x # e
      BY <1>12, <2>2 DEF Made
    <3> QED
      BY <1>6, <1>12, <2>2, <3>1 DEF IInv, SavesInv, SettledForGood
  <2> QED
    BY <1>3, <2>1, <2>2 DEF SettledForGood
<1>17. AppliedInOrder'
  <2>1. ASSUME NEW x \in Editors
        PROVE  \E at \in [OwnReceipts(x)' -> 0..Len(made'[x])] :
                  InOrder(OwnReceipts(x)', at, made'[x], Applied(x)')
    <3>1. CASE x # e
      <4>1. OwnReceipts(x)' = OwnReceipts(x)
        BY <1>3, <1>6, <3>1 DEF OwnReceipts
      <4>2. Applied(x)' = Applied(x)
        BY <1>3, <1>6, <1>7, <1>12, <3>1 DEF Applied
      <4> QED
        BY <1>7, <3>1, <4>1, <4>2, OrderStays DEF IInv
    <3>2. CASE x = e
      <4>1. OwnReceipts(e)' = {}
        <5>1. \A q \in receipts : ~ Own(e, q.id)'
          BY <1>12 DEF Made
        <5> QED
          BY <1>3, <5>1 DEF OwnReceipts, Own
      <4>2. Applied(e)' = 0
        <5>1. ~ \E q \in receipts' : Pending(e, q.id)'
          BY <1>12
        <5>2. Len(<<>>) - Len(<<>>) + 0 = 0
          OBVIOUS
        <5> QED
          BY <1>5, <1>6, <1>7, <5>1, <5>2 DEF Applied
      <4> QED
        BY <1>7, <3>2, <4>1, <4>2, NothingApplied
    <3> QED
      BY <3>1, <3>2
  <2> QED
    BY <2>1 DEF AppliedInOrder
<1>18. SeenLinked'
  <2>1. /\ Len(seen'[e]) = Len(document'[e].history) + 1
        /\ Local(document'[e]) = seen'[e][document'[e].position + 1]
        /\ \A i \in 1..Len(document'[e].history) :
              Link(document'[e].history[i], seen'[e][i], seen'[e][i + 1])
    BY <1>5, <1>6, <1>8
  <2> QED
    BY <1>6, <1>8, <2>1, SeenElsewhere DEF IInv
<1> QED
  BY <1>9, <1>10, <1>13, <1>14, <1>15, <1>16, <1>17, <1>18 DEF IInv, SavesInv

-----------------------------------------------------------------------------
(* The server answers *)

\* What holds of a request that arrives, whoever waits for the answer.
LEMMA HandledKeeps ==
    ASSUME IInv, NEW r \in Sent, Handle(r),
           UNCHANGED <<document, blocked, orphans, made, seen>>, Sent' = Sent
    PROVE  /\ revisions' \in Seq(Documents) /\ receipts' \subseteq Receipts
           /\ deleted' = deleted
           /\ Sessions \subseteq Sessions' /\ receipts \subseteq receipts'
           /\ EditsKept' /\ RevisionsChained' /\ IdentitiesKept'
           /\ SettledForGood' /\ BaseIsRevision' /\ AppliedInOrder' /\ SeenLinked'
           /\ \A x \in Editors : call'[x] = call[x] => CallKept(x)'
<1>1. document' = document /\ made' = made /\ seen' = seen
  OBVIOUS
<1>2. SeenLinked'
  BY <1>1, SeenKept DEF IInv
<1>3. \A x \in Editors : \A i : /\ Own(x, i)' <=> Own(x, i)
                                /\ Pending(x, i)' <=> Pending(x, i)
  BY <1>1 DEF Own, Pending
<1>4. CASE UNCHANGED server
  <2>1. /\ receipts' = receipts /\ revisions' = revisions /\ deleted' = deleted
        /\ Made' = Made
        /\ \A i : Known(i)' = Known(i)
        /\ \A x : Spent(x)' <=> Spent(x)
    BY <1>4 DEF server, Made, Known, Spent
  <2>2. EditsKept' /\ BaseIsRevision' /\ RevisionsChained'
    BY <1>1, <2>1 DEF IInv, SavesInv, EditsKept, BaseIsRevision, RevisionsChained
  <2>3. IdentitiesKept' /\ SettledForGood'
    BY <1>1, <1>3, <2>1 DEF IInv, SavesInv, IdentitiesKept, SettledForGood, SameDigest
  <2>4. AppliedInOrder'
    <3>1. \A x \in Editors : OwnReceipts(x)' = OwnReceipts(x) /\ Applied(x)' = Applied(x)
      BY <1>1, <1>3, <2>1 DEF OwnReceipts, Applied
    <3> QED
      BY <1>1, <3>1, OrderKept DEF IInv
  <2>5. ASSUME NEW x \in Editors, call'[x] = call[x]
        PROVE  CallKept(x)'
    <3>1. CallKept(x)
      BY DEF IInv, SavesInv, CallsKept
    <3> QED
      BY <1>1, <2>1, <2>5, <3>1 DEF CallKept, Calling, Pending
  <2>6. revisions' \in Seq(Documents) /\ receipts' \subseteq Receipts
        /\ Sessions \subseteq Sessions' /\ receipts \subseteq receipts'
    BY <2>1 DEF IInv, TypeOK, Sessions
  <2> QED
    BY <1>2, <2>1, <2>2, <2>3, <2>4, <2>5, <2>6
<1>5. CASE AppliesRequest(r)
  <2>1. r \in Requests
    BY SentTyped DEF IInv
  <2>2. /\ revisions' \in Seq(Documents) /\ receipts' \subseteq Receipts
        /\ Sessions \subseteq Sessions' /\ receipts \subseteq receipts'
    BY <1>5, <2>1, AppliedRequest, SessionsGrow DEF IInv
  <2>7. deleted' = deleted
    BY <1>5 DEF AppliesRequest
  <2>3. /\ EditsKept' /\ RevisionsChained' /\ IdentitiesKept'
        /\ SettledForGood' /\ BaseIsRevision'
    BY <1>5, ApplyKeeps DEF IInv
  <2>4. AppliedInOrder'
    BY <1>5, ApplyKeepsOrder DEF IInv
  <2>5. ASSUME NEW x \in Editors, call'[x] = call[x], Calling(x), call[x].reply # None
        PROVE  /\ call[x].reply.status = "applied" =>
                     \E q \in receipts' : /\ q.id = call[x].request.id
                                          /\ q.revision = call[x].reply.revision
               /\ call[x].reply.status \in Refused =>
                     Known(call[x].request.id)' = {} /\ Spent(call[x].request)'
    <3>1. CallKept(x)
      BY DEF IInv, SavesInv, CallsKept
    <3>2. ASSUME call[x].reply.status = "applied"
          PROVE  \E q \in receipts' : /\ q.id = call[x].request.id
                                      /\ q.revision = call[x].reply.revision
      BY <2>2, <2>5, <3>1, <3>2 DEF CallKept
    <3>3. ASSUME call[x].reply.status \in Refused
          PROVE  Known(call[x].request.id)' = {} /\ Spent(call[x].request)'
      <4> DEFINE request == call[x].request
      <4>1. /\ request \in Sent /\ Known(request.id) = {} /\ Spent(request)
        BY <2>5, <3>1, <3>3, SentTyped DEF CallKept, IInv
      <4>2. request.id # r.id /\ Spent(call[x].request)'
        <5> HIDE DEF request
        <5>1. Spent(request) => request.id # r.id
          BY <1>5, <4>1, SpentForGood DEF IInv
        <5>2. \A y \in Sent : Spent(y) => (y.base < Len(revisions')
                                           \/ ~ Accepts(revisions'[y.base], y.operations))
          <6>1. ASSUME NEW y \in Sent, Spent(y)
                PROVE  y.base < Len(revisions') \/ ~ Accepts(revisions'[y.base], y.operations)
            BY <1>5, <6>1, SpentForGood DEF IInv, Spent
          <6> QED
            BY <6>1
        <5>3. request.base < Len(revisions') \/ ~ Accepts(revisions'[request.base], request.operations)
          BY <4>1, <5>2
        <5> QED
          BY <2>5, <4>1, <5>1, <5>3 DEF Spent, request
      <4>3. \A q \in receipts' : q.id # request.id
        <5>1. PICK new \in receipts' : receipts' = receipts \cup {new} /\ new.id = r.id
          BY <1>5, <2>1, AppliedRequest DEF IInv
        <5> HIDE DEF request
        <5> QED
          BY <4>1, <4>2, <5>1 DEF Known
      <4> QED
        BY <2>5, <3>3, <4>2, <4>3 DEF Known
    <3> QED
      BY <3>2, <3>3
  <2>6. ASSUME NEW x \in Editors, call'[x] = call[x]
        PROVE  CallKept(x)'
    <3>1. CallKept(x)
      BY DEF IInv, SavesInv, CallsKept
    <3> QED
      BY <1>1, <2>5, <2>6, <3>1 DEF CallKept, Calling, Pending, Known, Spent
  <2> QED
    BY <1>2, <2>2, <2>3, <2>4, <2>6, <2>7
<1> QED
  BY <1>4, <1>5, HandleKinds DEF IInv

LEMMA ServeOrphanStep ==
    ASSUME IInv, NEW r \in orphans, ServeOrphan(r)
    PROVE  IInv'
<1>1. /\ Handle(r) /\ UNCHANGED <<document, blocked, call, orphans, made, seen>>
  BY DEF ServeOrphan
<1>2. r \in Sent /\ Sent' = Sent
  BY <1>1 DEF Sent, Calling
<1>3. /\ revisions' \in Seq(Documents) /\ receipts' \subseteq Receipts
      /\ deleted' = deleted
      /\ Sessions \subseteq Sessions' /\ receipts \subseteq receipts'
      /\ EditsKept' /\ RevisionsChained' /\ IdentitiesKept'
      /\ SettledForGood' /\ BaseIsRevision' /\ AppliedInOrder' /\ SeenLinked'
      /\ \A x \in Editors : call'[x] = call[x] => CallKept(x)'
  BY <1>1, <1>2, HandledKeeps
<1>4. TypeOK'
  BY <1>1, <1>3 DEF IInv, TypeOK
<1>5. CallsKept'
  BY <1>1, <1>3 DEF CallsKept
<1>6. RefusalsAreForeign'
  BY <1>1, <1>3 DEF IInv, SavesInv, RefusalsAreForeign
<1> QED
  BY <1>3, <1>4, <1>5, <1>6 DEF IInv, SavesInv

\* A conflict is a revision that another session made behind the base.
LEMMA ConflictIsForeign ==
    ASSUME TypeOK, SavesInv, NEW e \in Editors, NEW r \in Sent, Pending(e, r.id),
           Known(r.id) = {}, r.base # Len(revisions)
    PROVE  \E q \in receipts :
              /\ q.revision > r.base
              /\ q.id.editor # e \/ q.id.session # r.id.session
<1>1. r \in Requests
  BY SentTyped
<1>2. r.base \in Nat \ {0} /\ r.base <= Len(revisions) /\ Len(revisions) \in Nat
  BY <1>1 DEF Requests, TypeOK, SavesInv, RevisionsChained
<1>3. r.base + 1 \in 2..Len(revisions)
  BY <1>2
<1>4. PICK q \in receipts : q.revision = r.base + 1
  BY <1>3 DEF SavesInv, RevisionsChained
<1>5. r.base = document[e].base
  BY DEF SavesInv, IdentitiesKept, Made
<1>6. Own(e, r.id)
  BY PendingIsOwn DEF SavesInv
<1>7. ~ Pending(e, q.id)
  BY DEF Pending, Known
<1>8. ~ Own(e, q.id)
  <2>1. ASSUME Own(e, q.id)
        PROVE  FALSE
    <3>1. q.revision <= document[e].base
      BY <1>7, <2>1 DEF SavesInv, SettledForGood
    <3> QED
      BY <1>2, <1>4, <1>5, <3>1
  <2> QED
    BY <2>1
<1>9. q.revision > r.base
  BY <1>2, <1>4
<1> QED
  BY <1>6, <1>8, <1>9 DEF Own

LEMMA ServeStep ==
    ASSUME IInv, NEW e \in Editors, Serve(e)
    PROVE  IInv'
<1> DEFINE r == call[e].request
           reply == Answer(r)
<1>1. /\ call[e] # None /\ call[e].reply = None /\ Handle(r)
      /\ call' = [call EXCEPT ![e].reply = reply]
      /\ UNCHANGED <<document, blocked, orphans, made, seen>>
  BY DEF Serve
<1>2. /\ call[e] \in [request : Requests, reply : Replies \cup {None}]
      /\ r \in Sent /\ r \in Requests
  BY <1>1, SentTyped DEF Calling, IInv
<1>3. /\ Pending(e, r.id)
  BY <1>1 DEF IInv, SavesInv, CallsKept, CallKept, Calling
<1>4. \/ /\ reply.status = "applied" /\ reply.revision \in Nat \ {0}
         /\ reply = [status |-> "applied", revision |-> reply.revision]
      \/ /\ reply = Refusal("conflict") /\ Known(r.id) = {} /\ r.base # Len(revisions)
      \/ /\ reply = Refusal("invalid") /\ Known(r.id) = {}
      \/ reply = Refusal("unavailable")
  <2>1. CASE ~ deleted /\ Known(r.id) # {}
    <3>1. PICK q \in receipts : reply = [status |-> "applied", revision |-> q.revision]
      BY <1>2, <2>1, AnswerKinds DEF IInv
    <3>2. q.revision \in Nat \ {0}
      BY DEF IInv, TypeOK, Receipts
    <3> QED
      BY <3>1, <3>2
  <2>2. CASE ~ deleted /\ Known(r.id) = {}
    <3>1. Len(revisions) + 1 \in Nat \ {0}
      BY DEF IInv, TypeOK
    <3>2. \/ reply = [status |-> "applied", revision |-> Len(revisions) + 1]
          \/ reply = Refusal("conflict") /\ r.base # Len(revisions)
          \/ reply = Refusal("invalid")
      BY <1>2, <2>2, AnswerKinds DEF IInv
    <3> QED
      BY <2>2, <3>1, <3>2
  <2>3. CASE deleted
    BY <1>2, <2>3, AnswerKinds DEF IInv
  <2> QED
    BY <2>1, <2>2, <2>3
<1>5. reply \in Replies
  BY <1>4 DEF Replies, Refusal
<1>6. reply # None
  BY <1>5, NoneAssumption DEF NoneAssumption
<1>7. (reply.status = "applied" =>
         \E q \in receipts' : q.id = r.id /\ q.revision = reply.revision)
      /\ (reply.status \in Refused => Known(r.id) = {} /\ UNCHANGED server /\ Spent(r))
  <2>1. CASE AppliesRequest(r) /\ reply = [status |-> "applied", revision |-> Len(revisions) + 1]
    BY <1>2, <2>1, AppliedRequest DEF IInv, Refused
  <2>2. CASE UNCHANGED server /\ ~ deleted /\ Known(r.id) # {}
    <3>1. PICK q \in receipts :
             q.id = r.id /\ reply = [status |-> "applied", revision |-> q.revision]
      BY <1>2, <2>2, AnswerKinds DEF IInv
    <3> QED
      BY <2>2, <3>1 DEF server, Refused
  <2>3. CASE UNCHANGED server /\ ~ deleted /\ Known(r.id) = {} /\ Spent(r)
    <3>1. r.base # Len(revisions) \/ ~ Accepts(revisions[r.base], r.operations)
      <4>1. Len(revisions) \in Nat
        BY DEF IInv, TypeOK
      <4> QED
        BY <2>3, <4>1 DEF Spent
    <3>2. reply = Refusal("conflict") \/ reply = Refusal("invalid")
      BY <1>2, <2>3, <3>1, AnswerKinds DEF IInv
    <3> QED
      BY <2>3, <3>2 DEF Refusal
  <2>4. CASE deleted
    BY <1>2, <2>4, AnswerKinds DEF IInv, Refusal, Refused
  <2> QED
    BY <1>1, <1>2, <2>1, <2>2, <2>3, <2>4, HandleKinds DEF IInv
<1> HIDE DEF reply
<1>8. /\ call'[e] = [request |-> r, reply |-> reply]
      /\ \A x \in Editors \ {e} : call'[x] = call[x]
      /\ call' \in [Editors ->
            {None} \cup [request : Requests, reply : Replies \cup {None}]]
  <2>1. call \in [Editors -> {None} \cup [request : Requests, reply : Replies \cup {None}]]
    BY DEF IInv, TypeOK
  <2>2. call' = [call EXCEPT ![e] = [call[e] EXCEPT !.reply = reply]]
    BY <1>1
  <2>3. [call[e] EXCEPT !.reply = reply] = [request |-> r, reply |-> reply]
    BY <1>2
  <2> QED
    BY <1>2, <1>5, <2>1, <2>2, <2>3
<1>9. call'[e] # None /\ call'[e].request = r /\ call'[e].reply = reply
  <2>1. call'[e] \in [request : Requests, reply : Replies \cup {None}]
    BY <1>2, <1>5, <1>8
  <2> QED
    BY <1>8, <2>1, NoneAssumption DEF NoneAssumption
<1>10. Sent' = Sent
  BY <1>1, <1>8, <1>9 DEF Sent, Calling
<1> HIDE DEF r
<1>11. /\ revisions' \in Seq(Documents) /\ receipts' \subseteq Receipts
       /\ deleted' = deleted
       /\ Sessions \subseteq Sessions' /\ receipts \subseteq receipts'
       /\ EditsKept' /\ RevisionsChained' /\ IdentitiesKept'
       /\ SettledForGood' /\ BaseIsRevision' /\ AppliedInOrder' /\ SeenLinked'
       /\ \A x \in Editors : call'[x] = call[x] => CallKept(x)'
  BY <1>1, <1>2, <1>10, HandledKeeps
<1>12. TypeOK'
  BY <1>1, <1>8, <1>11 DEF IInv, TypeOK
<1>13. CallsKept'
  <2>1. CallKept(e)'
    <3>1. document'[e].pending # None /\ r.id = document'[e].pending.id
      BY <1>1, <1>3 DEF Pending
    <3>2. reply.status \in Refused => Known(r.id) = {} /\ receipts' = receipts
                                     /\ revisions' = revisions /\ Spent(r)
      BY <1>7 DEF server
    <3> QED
      BY <1>6, <1>7, <1>9, <3>1, <3>2 DEF CallKept, Calling, Pending, Known, Spent
  <2> QED
    BY <1>8, <1>11, <2>1 DEF CallsKept
<1>14. RefusalsAreForeign'
  <2>1. \A x \in Editors \ {e} : call'[x] # None /\ call'[x].reply # None =>
           /\ call'[x].reply.status # "reused"
           /\ call'[x].reply.status = "conflict" =>
                 \E q \in receipts' :
                    /\ q.revision > call'[x].request.base
                    /\ q.id.editor # x \/ q.id.session # call'[x].request.id.session
    BY <1>8, <1>11 DEF IInv, SavesInv, RefusalsAreForeign
  <2>2. reply.status # "reused"
    BY <1>4 DEF Refusal
  <2>3. reply.status = "conflict" =>
           \E q \in receipts : /\ q.revision > r.base
                               /\ q.id.editor # e \/ q.id.session # r.id.session
    <3>1. ASSUME reply.status = "conflict"
          PROVE  Known(r.id) = {} /\ r.base # Len(revisions)
      BY <1>4, <3>1 DEF Refusal
    <3> QED
      BY <1>2, <1>3, <3>1, ConflictIsForeign DEF IInv
  <2> QED
    BY <1>9, <1>11, <2>1, <2>2, <2>3 DEF RefusalsAreForeign
<1> QED
  BY <1>11, <1>12, <1>13, <1>14 DEF IInv, SavesInv

-----------------------------------------------------------------------------
(* The theorems *)

LEMMA InitInv == Init => IInv
<1> SUFFICES ASSUME Init
             PROVE  IInv
  OBVIOUS
<1>1. /\ revisions = <<FirstRevision>> /\ receipts = {} /\ orphans = {}
      /\ deleted = FALSE
      /\ blocked = [e \in Editors |-> FALSE] /\ call = [e \in Editors |-> None]
      /\ document = [e \in Editors |-> Opened(1, 1)]
      /\ made = [e \in Editors |-> <<>>] /\ seen = [e \in Editors |-> <<FirstRevision>>]
  BY DEF Init
<1>2. FirstRevision \in Documents /\ 1 \in 1..MaxSessions /\ 0 <= MaxEdits /\ 0 <= HistoryLimit
  BY EditorAssumption DEF EditorAssumption
<1>3. /\ revisions \in Seq(Documents) /\ Len(revisions) = 1 /\ 1 \in 1..Len(revisions)
      /\ revisions[1] = FirstRevision
  BY <1>1, <1>2
<1>4. /\ <<>> \in Seq(Operations) /\ <<>> \in Seq([forward : Operations, inverse : Operations])
      /\ <<FirstRevision>> \in Seq(Documents)
  BY <1>2
<1>5. ASSUME NEW e \in Editors
      PROVE  LET d == document[e] IN
             /\ d \in Sessions /\ d.session = 1 /\ d.base = 1 /\ d.names = revisions[1]
             /\ d.edits = <<>> /\ d.history = <<>> /\ d.position = 0
             /\ d.pending = None /\ d.saves = 0 /\ Local(d) = revisions[1]
  <2> DEFINE d == Opened(1, 1)
  <2>1. document[e] = d
    BY <1>1
  <2>2. 0 \in 0..HistoryLimit /\ 0 \in 0..MaxSaves
    BY EditorAssumption DEF EditorAssumption
  <2>3. d \in Sessions
    BY <1>2, <1>3, <1>4, <2>2 DEF Opened, Sessions
  <2>4. Local(d) = revisions[1]
    BY <1>2, <1>3, ProjectNothing DEF Local, Opened
  <2> QED
    BY <2>1, <2>3, <2>4 DEF Opened
<1>6. document \in [Editors -> Sessions]
  BY <1>1, <1>5
<1>7. ASSUME NEW e \in Editors
      PROVE  document[e].position <= Len(document[e].history)
  BY <1>5
<1>8. TypeOK
  BY <1>1, <1>3, <1>4, <1>6, <1>7 DEF TypeOK
<1>9. Sent = {} /\ Made = {} /\ \A e \in Editors : ~ Calling(e)
  BY <1>1 DEF Sent, Made, Calling
<1>10. EditsKept
  <2>1. ASSUME NEW e \in Editors
        PROVE  /\ Len(made[e]) <= MaxEdits
               /\ Len(document[e].edits) <= Len(made[e])
               /\ document[e].edits = SubSeq(made[e], Len(made[e]) - Len(document[e].edits) + 1,
                                             Len(made[e]))
               /\ document[e].pending = None
               /\ Len(document[e].history) <= HistoryLimit
    <3>1. made[e] = <<>>
      BY <1>1
    <3>2. 0 <= MaxEdits /\ 0 <= HistoryLimit /\ Len(<<>>) = 0
      BY <1>2
    <3>3. <<>> = SubSeq(<<>>, 0 - 0 + 1, 0)
      OBVIOUS
    <3>4. /\ document[e].edits = <<>> /\ document[e].pending = None
          /\ document[e].history = <<>>
      BY <1>5
    <3> QED
      BY <3>1, <3>2, <3>3, <3>4
  <2> QED
    BY <2>1 DEF EditsKept
<1>11. RevisionsChained /\ IdentitiesKept /\ SettledForGood
  BY <1>1, <1>3, <1>9 DEF RevisionsChained, IdentitiesKept, SettledForGood
<1>12. CallsKept /\ RefusalsAreForeign
  BY <1>9 DEF CallsKept, CallKept, RefusalsAreForeign, Calling
<1>13. BaseIsRevision
  BY <1>5 DEF BaseIsRevision
<1>14. AppliedInOrder
  <2>1. ASSUME NEW e \in Editors
        PROVE  \E at \in [OwnReceipts(e) -> 0..Len(made[e])] :
                  InOrder(OwnReceipts(e), at, made[e], Applied(e))
    <3>1. OwnReceipts(e) = {} /\ made[e] = <<>>
      BY <1>1 DEF OwnReceipts
    <3>2. Applied(e) = 0
      <4>1. ~ \E q \in receipts : Pending(e, q.id)
        BY <1>1
      <4>2. Len(<<>>) - Len(<<>>) + 0 = 0
        OBVIOUS
      <4> QED
        BY <1>5, <3>1, <4>1, <4>2 DEF Applied
    <3> QED
      BY <3>1, <3>2, NothingApplied
  <2> QED
    BY <2>1 DEF AppliedInOrder
<1>15. SeenLinked
  <2>1. ASSUME NEW e \in Editors
        PROVE  /\ Len(seen[e]) = Len(document[e].history) + 1
               /\ Local(document[e]) = seen[e][document[e].position + 1]
               /\ \A i \in 1..Len(document[e].history) :
                     Link(document[e].history[i], seen[e][i], seen[e][i + 1])
    <3>1. seen[e] = <<FirstRevision>>
      BY <1>1
    <3> QED
      BY <1>3, <1>5, <3>1
  <2> QED
    BY <2>1 DEF SeenLinked
<1> QED
  BY <1>8, <1>10, <1>11, <1>12, <1>13, <1>14, <1>15 DEF IInv, SavesInv

LEMMA NextInv == IInv /\ [Next]_vars => IInv'
<1> SUFFICES ASSUME IInv, [Next]_vars
             PROVE  IInv'
  OBVIOUS
<1>1. ASSUME NEW e \in Editors, User(e)
      PROVE  IInv'
  BY <1>1, RenameStep, UndoStep, RedoStep, SaveStep, ReopenStep DEF User
<1>2. ASSUME NEW e \in Editors, Serve(e)
      PROVE  IInv'
  BY <1>2, ServeStep
<1>3. ASSUME NEW e \in Editors, ReceiveApplied(e)
      PROVE  IInv'
  BY <1>3, AppliedStep
<1>4. ASSUME NEW e \in Editors, ReceiveRejected(e)
      PROVE  IInv'
  BY <1>4, RejectedStep
<1>5. ASSUME NEW e \in Editors, Hang(e) \/ ReceiveUnavailable(e)
      PROVE  IInv'
  BY <1>5, UnsettledStep
<1>6. ASSUME NEW r \in orphans, ServeOrphan(r)
      PROVE  IInv'
  BY <1>6, ServeOrphanStep
\* The deletion changes nothing that the invariant speaks of: it says what may happen
\* as long as the schema is there.
<1>7. CASE DeleteSchema \/ UNCHANGED vars
  <2>1. /\ UNCHANGED <<revisions, receipts, document, blocked, call, orphans, made, seen>>
        /\ deleted' \in BOOLEAN
    BY <1>7 DEF DeleteSchema, vars, server, IInv, TypeOK
  <2>2. TypeOK'
    BY <2>1 DEF IInv, TypeOK, Sessions
  <2>3. EditsKept' /\ BaseIsRevision' /\ RefusalsAreForeign' /\ SeenLinked'
    BY <2>1 DEF IInv, SavesInv, EditsKept, BaseIsRevision, RefusalsAreForeign, SeenLinked
  <2>4. /\ Sent' = Sent /\ Made' = Made
        /\ \A i : Known(i)' = Known(i)
        /\ \A x : Spent(x)' <=> Spent(x)
        /\ \A e, i : (Own(e, i)' <=> Own(e, i)) /\ (Pending(e, i)' <=> Pending(e, i))
    BY <2>1 DEF Sent, Made, Calling, Known, Spent, Own, Pending
  <2>5. RevisionsChained' /\ IdentitiesKept' /\ SettledForGood'
    BY <2>1, <2>4
    DEF IInv, SavesInv, RevisionsChained, IdentitiesKept, SettledForGood, SameDigest
  <2>6. CallsKept'
    BY <2>1, <2>4 DEF IInv, SavesInv, CallsKept, CallKept, Calling
  <2>7. AppliedInOrder'
    <3>1. \A e \in Editors : OwnReceipts(e)' = OwnReceipts(e) /\ Applied(e)' = Applied(e)
      BY <2>1, <2>4 DEF OwnReceipts, Applied
    <3> QED
      BY <2>1, <3>1, OrderKept DEF IInv
  <2> QED
    BY <2>2, <2>3, <2>5, <2>6, <2>7 DEF IInv, SavesInv
<1> QED
  BY <1>1, <1>2, <1>3, <1>4, <1>5, <1>6, <1>7 DEF Next, Receive

\* The inductive invariant: sessions, requests, receipts and revisions fit
\* together, whatever was lost, repeated or late.
THEOREM EditorInvariant == Spec => []IInv
<1>1. Init => IInv
  BY InitInv
<1>2. IInv /\ [Next]_vars => IInv'
  BY NextInv
<1> QED
  BY <1>1, <1>2, PTL DEF Spec

\* What an editor takes for the saved schema is the revision of the server
\* (EditorDocument.confirmSave computes it without asking).
THEOREM BaseMatches == Spec => []BaseIsRevision
<1>1. IInv => BaseIsRevision
  BY DEF IInv, SavesInv
<1> QED
  BY <1>1, EditorInvariant, PTL

\* Requests that are repeated, lost or late apply no operation of a session
\* twice, out of order, or after it was refused.
THEOREM EditsReachOnce == Spec => []EveryEditOnce
<1>1. ASSUME IInv
      PROVE  EveryEditOnce
  <2> SUFFICES ASSUME NEW e \in Editors
               PROVE  LET d == document[e]
                          confirmed == Len(made[e]) - Len(d.edits) IN
                      /\ d.edits = SubSeq(made[e], confirmed + 1, Len(made[e]))
                      /\ \E n \in {confirmed}
                               \cup (IF d.pending = None THEN {}
                                     ELSE {confirmed + d.pending.count}),
                            at \in [OwnReceipts(e) -> 0..Len(made[e])] :
                               InOrder(OwnReceipts(e), at, made[e], n)
    BY DEF EveryEditOnce
  <2> DEFINE d == document[e]
             confirmed == Len(made[e]) - Len(d.edits)
  <2>1. d.edits = SubSeq(made[e], confirmed + 1, Len(made[e]))
    BY <1>1 DEF IInv, SavesInv, EditsKept
  <2>2. PICK at \in [OwnReceipts(e) -> 0..Len(made[e])] :
           InOrder(OwnReceipts(e), at, made[e], Applied(e))
    BY <1>1 DEF IInv, AppliedInOrder
  <2>3. Applied(e) \in {confirmed} \cup (IF d.pending = None THEN {}
                                         ELSE {confirmed + d.pending.count})
    <3>1. confirmed + 0 = confirmed
      <4>1. Len(made[e]) \in Nat /\ Len(d.edits) \in Nat
        BY <1>1, SessionSizes DEF IInv, SavesInv
      <4> QED
        BY <4>1
    <3>2. CASE \E q \in receipts : Pending(e, q.id)
      <4>1. d.pending # None
        BY <3>2 DEF Pending
      <4> QED
        BY <3>2, <4>1 DEF Applied
    <3>3. CASE ~ \E q \in receipts : Pending(e, q.id)
      BY <3>1, <3>3 DEF Applied
    <3> QED
      BY <3>2, <3>3
  <2> HIDE DEF confirmed, d
  <2>4. \E n \in {confirmed} \cup (IF d.pending = None THEN {}
                                   ELSE {confirmed + d.pending.count}) :
           n = Applied(e)
    BY <2>3
  <2> USE DEF confirmed, d
  <2> QED
    BY <2>1, <2>2, <2>4
<1> QED
  BY <1>1, EditorInvariant, PTL

\* A session is refused for what others did only, however often it tries again.
THEOREM RefusalsAreDeserved == Spec => []RefusalsAreForeign
<1>1. IInv => RefusalsAreForeign
  BY DEF IInv, SavesInv
<1> QED
  BY <1>1, EditorInvariant, PTL

\* Undo and redo lead through the documents that the user saw, saves or not, and
\* the state is of its types.
THEOREM HistoryLeadsBack == Spec => []HistoryHolds
<1>1. IInv => HistoryHolds
  BY DEF IInv, SeenLinked, HistoryHolds, UndoRestores
<1> QED
  BY <1>1, EditorInvariant, PTL

=============================================================================
