-------------------------- MODULE UploadSessionsProofs --------------------------
(***************************************************************************)
(* Proofs about UploadSessions, for any uploads, sockets and files.        *)
(***************************************************************************)
EXTENDS UploadSessions, TLAPS

-----------------------------------------------------------------------------
(* The inductive invariant *)

SocketSteps == {"closed", "cancel", "begin", "read", "close", "closing", "clean", "ending"}
SocketRecords ==
    [step : SocketSteps, session : Sessions \cup {Nobody}, file : Nat, roots : Nat,
     missed : BOOLEAN, shared : BOOLEAN]
CleanerRecords ==
    [step : {"none", "look", "remove", "forget"}, session : Sessions \cup {Nobody}]

Typed ==
    /\ upload \in [Sessions -> {"none", "saving", "stored", "ended"}]
    /\ sessions \subseteq Sessions
    /\ disk = [s \in Sessions |-> disk[s]]
    /\ timer \in [Sessions -> {"none", "sleeping", "running"}]
    /\ tasks \subseteq Sessions
    /\ socket \in [Sockets -> SocketRecords]
    /\ \A k \in Sockets : socket[k].step = "closed" <=> socket[k].session = Nobody
    /\ cleaner \in [Cleaners -> CleanerRecords]
    /\ \A c \in Cleaners : cleaner[c].step = "none" <=> cleaner[c].session = Nobody
    /\ server \in [step : {"up", "stopping", "down"}, left : SUBSET Sessions]

\* Who removes the files of a session comes after its upload.
AfterUpload ==
    /\ \A s \in Sessions :
          /\ s \in tasks \/ s \in server.left => upload[s] = "ended"
          /\ timer[s] # "none" => s \in tasks
          /\ upload[s] = "stored" => s \in sessions
          /\ s \in sessions => upload[s] \in {"stored", "ended"}
          /\ upload[s] = "none" => disk[s] = {}
    /\ \A k \in Sockets :
          socket[k].session # Nobody => upload[socket[k].session] = "ended"
    /\ \A c \in Cleaners :
          cleaner[c].session # Nobody => upload[cleaner[c].session] = "ended"

\* Whoever stops the server finds it at rest.
AtRest ==
    /\ server.step # "up" =>
          /\ tasks = {}
          /\ \A s \in Sessions : upload[s] \in {"none", "ended"}
          /\ \A k \in Sockets : socket[k].step = "closed"
    /\ server.step # "stopping" => server.left = {}

\* A thread cleans up for the task or the socket that began it, and what it forgets
\* has no files any more.
Threads ==
    /\ \A s \in Sessions :
          /\ cleaner[<<"timer", s>>].session \in {s, Nobody}
          /\ timer[s] = "sleeping" => cleaner[<<"timer", s>>].session = Nobody
    /\ \A k \in Sockets :
          /\ cleaner[<<"events", k>>].session # Nobody =>
                /\ socket[k].step = "closing"
                /\ socket[k].session = cleaner[<<"events", k>>].session
          /\ cleaner[<<"socket", k>>].session # Nobody =>
                /\ socket[k].step = "ending"
                /\ socket[k].session = cleaner[<<"socket", k>>].session
    /\ \A c \in Cleaners : cleaner[c].step = "forget" => disk[cleaner[c].session] = {}

\* What is not known any more has no files, but for those that a failure left; and
\* a thread that has ended has forgotten its session or failed.
Over(s) == s \notin sessions \/ s \in lost
ThreadsLeaveNothing ==
    /\ \A s \in Sessions :
          /\ upload[s] = "ended" /\ s \notin sessions /\ disk[s] # {} => s \in lost
          /\ timer[s] = "running" /\ cleaner[<<"timer", s>>].session = Nobody => Over(s)
    /\ \A k \in Sockets :
          socket[k].step = "ending" /\ cleaner[<<"socket", k>>].session = Nobody =>
              Over(socket[k].session)

\* A session that is known has its files until a thread is about to forget it.
KnownIsWhole ==
    \A s \in sessions :
        disk[s] # Files =>
            \E c \in Cleaners : cleaner[c].step = "forget" /\ cleaner[c].session = s

\* A socket that shares its session with nobody finds all that was stored.
Alone(k) ==
    LET s == socket[k].session IN
    /\ s \notin tasks
    /\ \A c \in Cleaners : cleaner[c].session # s
    /\ \A x \in Sockets \ {k} : socket[x].session # s
    /\ socket[k].step = "read" => disk[s] = Files
UnsharedIsAlone ==
    \A k \in Sockets :
        socket[k].step \in {"begin", "read"} /\ ~ socket[k].shared => Alone(k)

IInv ==
    /\ Typed /\ AfterUpload /\ AtRest /\ Threads /\ ThreadsLeaveNothing
    /\ KnownIsWhole /\ UnsharedIsAlone
    /\ FilesHaveARemover /\ SoleSocketReadsAll

-----------------------------------------------------------------------------
(* Helpers *)

\* The threads of tasks, sockets and the shutdown are different ones.
LEMMA CleanersDiffer ==
    /\ \A s \in Sessions : <<"timer", s>> \in Cleaners
    /\ \A k \in Sockets : <<"events", k>> \in Cleaners /\ <<"socket", k>> \in Cleaners
    /\ <<"shutdown", 0>> \in Cleaners
    /\ \A s, r \in Sessions : <<"timer", s>> = <<"timer", r>> => s = r
    /\ \A k, x \in Sockets :
          /\ <<"events", k>> = <<"events", x>> => k = x
          /\ <<"socket", k>> = <<"socket", x>> => k = x
          /\ <<"events", k>> # <<"socket", x>>
          /\ <<"events", k>> # <<"shutdown", 0>> /\ <<"socket", k>> # <<"shutdown", 0>>
    /\ \A s \in Sessions, k \in Sockets :
          <<"timer", s>> # <<"events", k>> /\ <<"timer", s>> # <<"socket", k>>
    /\ \A s \in Sessions : <<"timer", s>> # <<"shutdown", 0>>
BY DEF Cleaners, Timers

\* A thread that has ended is at rest.
LEMMA RestingCleaner ==
    ASSUME Typed, NEW c \in Cleaners
    PROVE  /\ cleaner[c] = Resting <=> cleaner[c].session = Nobody
           /\ cleaner[c] = Resting <=> cleaner[c].step = "none"
           /\ cleaner[c].session \in Sessions \cup {Nobody}
<1>1. cleaner[c] \in CleanerRecords
      /\ (cleaner[c].step = "none" <=> cleaner[c].session = Nobody)
  BY DEF Typed
<1> QED
  BY <1>1 DEF CleanerRecords, Resting

\* A thread begins to clean up.
LEMMA CleanBegins ==
    ASSUME Typed, Nobody \notin Sessions,
           NEW c \in Cleaners, NEW s \in Sessions, Clean(c, s)
    PROVE  /\ cleaner' \in [Cleaners -> CleanerRecords]
           /\ cleaner'[c].step = "look" /\ cleaner'[c].session = s
           /\ \A d \in Cleaners : d # c => cleaner'[d] = cleaner[d]
           /\ \A d \in Cleaners : cleaner'[d].step = "none" <=> cleaner'[d].session = Nobody
BY DEF Typed, Clean, CleanerRecords

-----------------------------------------------------------------------------
(* Uploads *)

\* What the steps of an upload do.
UploadEffect(s) ==
    /\ UNCHANGED <<socket, cleaner, server>>
    /\ lost \subseteq lost'
    /\ upload' = [upload EXCEPT ![s] = upload'[s]]
    /\ disk' = [disk EXCEPT ![s] = disk'[s]]
    /\ \/ /\ server.step = "up" /\ upload[s] = "none" /\ upload'[s] = "saving"
          /\ UNCHANGED <<disk, sessions, timer, tasks>>
       \/ /\ upload[s] = "saving" /\ upload'[s] = "saving"
          /\ UNCHANGED <<sessions, timer, tasks>>
       \/ /\ upload[s] = "saving" /\ upload'[s] = "stored"
          /\ disk[s] = Files /\ sessions' = sessions \cup {s}
          /\ UNCHANGED <<disk, timer, tasks>>
       \/ /\ upload[s] = "saving" /\ upload'[s] = "ended"
          /\ disk'[s] = {} \/ s \in lost'
          /\ UNCHANGED <<sessions, timer, tasks>>
       \/ /\ upload[s] = "stored" /\ upload'[s] = "ended"
          /\ timer' = [timer EXCEPT ![s] = "sleeping"] /\ tasks' = tasks \cup {s}
          /\ UNCHANGED <<disk, sessions>>

LEMMA UploadHasEffect ==
    ASSUME Typed, NEW s \in Sessions, Upload(s) \/ UploadStep(s)
    PROVE  UploadEffect(s)
<1>1. CASE Upload(s)
  BY <1>1 DEF Upload, UploadEffect, Typed, job
<1>2. CASE SaveFile(s)
  BY <1>2 DEF SaveFile, UploadEffect, Typed, job
<1>3. CASE AddSession(s)
  BY <1>3 DEF AddSession, UploadEffect, Typed, job
<1>4. CASE SaveFails(s)
  BY <1>4 DEF SaveFails, UploadEffect, Typed, job
<1>5. CASE Schedule(s)
  BY <1>5 DEF Schedule, UploadEffect, Typed, job
<1> QED
  BY <1>1, <1>2, <1>3, <1>4, <1>5 DEF UploadStep

LEMMA UploadKeeps ==
    ASSUME IInv, Nobody \notin Sessions, NEW s \in Sessions, UploadEffect(s)
    PROVE  IInv'
<1> USE DEF UploadEffect
<1>1. /\ Typed /\ AfterUpload /\ AtRest /\ Threads /\ ThreadsLeaveNothing
      /\ KnownIsWhole /\ UnsharedIsAlone /\ FilesHaveARemover /\ SoleSocketReadsAll
  BY DEF IInv
<1>2. \A r \in Sessions : r # s =>
         /\ upload'[r] = upload[r] /\ disk'[r] = disk[r] /\ timer'[r] = timer[r]
         /\ (r \in tasks' <=> r \in tasks) /\ (r \in sessions' <=> r \in sessions)
  BY <1>1 DEF Typed
<1>3. /\ upload[s] # "ended"
      /\ s \notin tasks /\ s \notin server.left /\ timer[s] = "none"
      /\ \A k \in Sockets : socket[k].session # s
      /\ \A c \in Cleaners : cleaner[c].session # s
  <2>1. upload[s] # "ended"
    OBVIOUS
  <2> QED
    BY <2>1, <1>1 DEF Typed, AfterUpload
<1>4. Typed'
  BY <1>1 DEF Typed
<1>13. s \in sessions => upload[s] = "stored"
  BY <1>1, <1>3 DEF AfterUpload
<1>14. /\ upload'[s] # "none"
       /\ upload'[s] \in {"saving", "stored", "ended"}
       /\ s \in tasks' => upload'[s] = "ended"
       /\ timer'[s] # "none" => s \in tasks'
       /\ timer'[s] # "running"
       /\ upload'[s] = "stored" => s \in sessions'
       /\ s \in sessions' => upload'[s] \in {"stored", "ended"}
  BY <1>1, <1>3, <1>13 DEF Typed
<1>15. /\ s \in sessions' => disk'[s] = Files \/ (s \in sessions /\ disk'[s] = disk[s])
       /\ upload'[s] = "ended" /\ s \notin sessions' => disk'[s] = {} \/ s \in lost'
  BY <1>1, <1>3, <1>13 DEF Typed, AfterUpload
<1>5. AfterUpload'
  <2>1. \A r \in Sessions :
          /\ r \in tasks' \/ r \in server.left => upload'[r] = "ended"
          /\ timer'[r] # "none" => r \in tasks'
          /\ upload'[r] = "stored" => r \in sessions'
          /\ r \in sessions' => upload'[r] \in {"stored", "ended"}
          /\ upload'[r] = "none" => disk'[r] = {}
    BY <1>1, <1>2, <1>3, <1>14 DEF AfterUpload
  <2>2. \A k \in Sockets :
          socket[k].session # Nobody => upload'[socket[k].session] = "ended"
    BY <1>1, <1>2, <1>3 DEF AfterUpload, Typed, SocketRecords
  <2>3. \A c \in Cleaners :
          cleaner[c].session # Nobody => upload'[cleaner[c].session] = "ended"
    BY <1>1, <1>2, <1>3 DEF AfterUpload, Typed, CleanerRecords
  <2> QED
    BY <2>1, <2>2, <2>3 DEF AfterUpload
<1>6. AtRest'
  BY <1>1, <1>2 DEF Typed, AtRest
<1>7. Threads'
  <2>1. \A c \in Cleaners : cleaner[c].step = "forget" =>
           cleaner[c].session \in Sessions /\ cleaner[c].session # s
    BY <1>1, <1>3 DEF Typed, CleanerRecords
  <2>2. \A r \in Sessions :
           /\ cleaner[<<"timer", r>>].session \in {r, Nobody}
           /\ timer'[r] = "sleeping" => cleaner[<<"timer", r>>].session = Nobody
    BY <1>1, <1>2, <1>3, CleanersDiffer DEF Threads
  <2> QED
    BY <1>1, <1>2, <2>1, <2>2 DEF Threads
<1>8. ThreadsLeaveNothing'
  <2>1. \A r \in Sessions :
          /\ upload'[r] = "ended" /\ r \notin sessions' /\ disk'[r] # {} => r \in lost'
          /\ timer'[r] = "running" /\ cleaner[<<"timer", r>>].session = Nobody =>
                r \notin sessions' \/ r \in lost'
    <3>1. ASSUME NEW r \in Sessions, r # s
          PROVE  /\ upload'[r] = "ended" /\ r \notin sessions' /\ disk'[r] # {} =>
                       r \in lost'
                 /\ timer'[r] = "running" /\ cleaner[<<"timer", r>>].session = Nobody =>
                       r \notin sessions' \/ r \in lost'
      BY <3>1, <1>1, <1>2 DEF ThreadsLeaveNothing, Over
    <3> QED
      BY <3>1, <1>14, <1>15
  <2>2. \A k \in Sockets :
          socket[k].step = "ending" /\ cleaner[<<"socket", k>>].session = Nobody =>
              socket[k].session \notin sessions' \/ socket[k].session \in lost'
    BY <1>1, <1>3 DEF ThreadsLeaveNothing, Over
  <2> QED
    BY <2>1, <2>2 DEF ThreadsLeaveNothing, Over
<1>9. KnownIsWhole'
  <2>1. ASSUME NEW r \in sessions', disk'[r] # Files
        PROVE  \E c \in Cleaners : cleaner[c].step = "forget" /\ cleaner[c].session = r
    <3>1. r \in Sessions /\ r \in sessions /\ disk[r] # Files
      BY <2>1, <1>2, <1>4, <1>15 DEF Typed
    <3> QED
      BY <3>1, <1>1 DEF KnownIsWhole
  <2> QED
    BY <2>1 DEF KnownIsWhole
<1>10. UnsharedIsAlone'
  <2>1. ASSUME NEW k \in Sockets, socket[k].step \in {"begin", "read"}, ~ socket[k].shared
        PROVE  /\ socket[k].session \in Sessions /\ socket[k].session # s
               /\ Alone(k)
    BY <2>1, <1>1, <1>3 DEF UnsharedIsAlone, Typed, SocketRecords
  <2> QED
    BY <2>1, <1>2 DEF UnsharedIsAlone, Alone
<1>11. FilesHaveARemover'
  BY <1>1, <1>2, <1>3 DEF FilesHaveARemover, Typed, Processing, Working, AfterUpload
<1>12. SoleSocketReadsAll'
  BY <1>1 DEF SoleSocketReadsAll
<1> QED
  BY <1>4, <1>5, <1>6, <1>7, <1>8, <1>9, <1>10, <1>11, <1>12 DEF IInv

-----------------------------------------------------------------------------
(* CleanupSession *)

\* What a step of a thread does.
CleanEffect(c) ==
    LET s == cleaner[c].session IN
    /\ UNCHANGED <<upload, timer, tasks, socket, server>>
    /\ lost \subseteq lost'
    /\ s \in Sessions
    /\ cleaner' \in [Cleaners -> CleanerRecords]
    /\ \A d \in Cleaners : d # c => cleaner'[d] = cleaner[d]
    /\ \A d \in Cleaners : cleaner'[d].step = "none" <=> cleaner'[d].session = Nobody
    /\ \/ /\ cleaner'[c].session = Nobody
          /\ s \notin sessions \/ s \in lost'
          /\ cleaner[c].step # "forget"
          /\ UNCHANGED <<disk, sessions>>
       \/ /\ cleaner'[c].step = "remove" /\ cleaner'[c].session = s
          /\ cleaner[c].step = "look"
          /\ UNCHANGED <<disk, sessions>>
       \/ /\ cleaner'[c].step = "forget" /\ cleaner'[c].session = s
          /\ disk' = [disk EXCEPT ![s] = {}] /\ UNCHANGED sessions
       \/ /\ cleaner[c].step = "forget" /\ cleaner'[c].session = Nobody
          /\ sessions' = sessions \ {s} /\ UNCHANGED disk

LEMMA CleanHasEffect ==
    ASSUME Typed, Nobody \notin Sessions, NEW c \in Cleaners, CleanStep(c)
    PROVE  CleanEffect(c)
<1> DEFINE s == cleaner[c].session
<1>1. cleaner[c] \in CleanerRecords /\ cleaner \in [Cleaners -> CleanerRecords]
      /\ \A d \in Cleaners : cleaner[d].step = "none" <=> cleaner[d].session = Nobody
  BY DEF Typed
<1>2. cleaner[c].step # "none" /\ s \in Sessions
  <2>1. cleaner[c].step # "none"
    BY DEF CleanStep, LookUp, RemoveFiles, RemovalFails, Forget
  <2> QED
    BY <2>1, <1>1 DEF CleanerRecords
<1>3. ASSUME NEW f, f \in CleanerRecords, f.step = "none" <=> f.session = Nobody,
             cleaner' = [cleaner EXCEPT ![c] = f]
      PROVE  /\ cleaner' \in [Cleaners -> CleanerRecords]
             /\ cleaner'[c] = f
             /\ \A d \in Cleaners : d # c => cleaner'[d] = cleaner[d]
             /\ \A d \in Cleaners : cleaner'[d].step = "none" <=> cleaner'[d].session = Nobody
  BY <1>1, <1>3
<1>4. /\ Resting \in CleanerRecords /\ Resting.step = "none" /\ Resting.session = Nobody
  BY DEF Resting, CleanerRecords
<1>5. CASE LookUp(c)
  <2>1. CASE s \in sessions
    <3> DEFINE f == [step |-> "remove", session |-> s]
    <3>1. f \in CleanerRecords /\ f.step = "remove" /\ f.session = s
      BY <1>2 DEF CleanerRecords
    <3>2. cleaner' = [cleaner EXCEPT ![c] = f]
      BY <2>1, <1>5 DEF LookUp
    <3> HIDE DEF f
    <3>3. f.step = "none" <=> f.session = Nobody
      BY <3>1, <1>2
    <3>4. /\ cleaner' \in [Cleaners -> CleanerRecords]
          /\ cleaner'[c] = f
          /\ \A d \in Cleaners : d # c => cleaner'[d] = cleaner[d]
          /\ \A d \in Cleaners : cleaner'[d].step = "none" <=> cleaner'[d].session = Nobody
      BY <3>1, <3>2, <3>3, <1>3
    <3> QED
      BY <3>1, <3>4, <1>2, <1>5 DEF LookUp, CleanEffect, job
  <2>2. CASE s \notin sessions
    <3>1. cleaner' = [cleaner EXCEPT ![c] = Resting]
      BY <2>2, <1>5 DEF LookUp
    <3>2. /\ cleaner' \in [Cleaners -> CleanerRecords]
          /\ cleaner'[c] = Resting
          /\ \A d \in Cleaners : d # c => cleaner'[d] = cleaner[d]
          /\ \A d \in Cleaners : cleaner'[d].step = "none" <=> cleaner'[d].session = Nobody
      BY <3>1, <1>3, <1>4
    <3> QED
      BY <2>2, <3>2, <1>2, <1>4, <1>5 DEF LookUp, CleanEffect, job
  <2> QED
    BY <2>1, <2>2
<1>6. CASE RemoveFiles(c)
  <2> DEFINE f == [cleaner[c] EXCEPT !.step = "forget"]
  <2>1. f \in CleanerRecords /\ f.step = "forget" /\ f.session = s
    BY <1>1 DEF CleanerRecords
  <2>2. cleaner' = [cleaner EXCEPT ![c] = f]
    BY <1>1, <1>6 DEF RemoveFiles
  <2> HIDE DEF f
  <2>3. f.step = "none" <=> f.session = Nobody
    BY <2>1, <1>2
  <2>4. /\ cleaner' \in [Cleaners -> CleanerRecords]
        /\ cleaner'[c] = f
        /\ \A d \in Cleaners : d # c => cleaner'[d] = cleaner[d]
        /\ \A d \in Cleaners : cleaner'[d].step = "none" <=> cleaner'[d].session = Nobody
    BY <2>1, <2>2, <2>3, <1>3
  <2> QED
    BY <2>1, <2>4, <1>2, <1>6 DEF RemoveFiles, CleanEffect, job
<1>7. CASE RemovalFails(c) \/ Forget(c)
  <2>1. cleaner' = [cleaner EXCEPT ![c] = Resting]
    BY <1>7 DEF RemovalFails, Forget
  <2>2. /\ cleaner' \in [Cleaners -> CleanerRecords]
        /\ cleaner'[c] = Resting
        /\ \A d \in Cleaners : d # c => cleaner'[d] = cleaner[d]
        /\ \A d \in Cleaners : cleaner'[d].step = "none" <=> cleaner'[d].session = Nobody
    BY <2>1, <1>3, <1>4
  <2> QED
    BY <2>2, <1>2, <1>4, <1>7 DEF RemovalFails, Forget, CleanEffect, job
<1> QED
  BY <1>5, <1>6, <1>7 DEF CleanStep

LEMMA CleanKeeps ==
    ASSUME IInv, Nobody \notin Sessions, NEW c \in Cleaners, CleanEffect(c)
    PROVE  IInv'
<1> DEFINE s == cleaner[c].session
<1>1. /\ Typed /\ AfterUpload /\ AtRest /\ Threads /\ ThreadsLeaveNothing
      /\ KnownIsWhole /\ UnsharedIsAlone /\ FilesHaveARemover /\ SoleSocketReadsAll
  BY DEF IInv
<1>2. /\ UNCHANGED <<upload, timer, tasks, socket, server>>
      /\ lost \subseteq lost'
      /\ s \in Sessions
      /\ cleaner' \in [Cleaners -> CleanerRecords]
      /\ \A d \in Cleaners : d # c => cleaner'[d] = cleaner[d]
      /\ \A d \in Cleaners : cleaner'[d].step = "none" <=> cleaner'[d].session = Nobody
  BY DEF CleanEffect
<1>3. \/ /\ cleaner'[c].session = Nobody
         /\ s \notin sessions \/ s \in lost'
         /\ cleaner[c].step # "forget"
         /\ UNCHANGED <<disk, sessions>>
      \/ /\ cleaner'[c].step = "remove" /\ cleaner'[c].session = s
         /\ cleaner[c].step = "look"
         /\ UNCHANGED <<disk, sessions>>
      \/ /\ cleaner'[c].step = "forget" /\ cleaner'[c].session = s
         /\ disk' = [disk EXCEPT ![s] = {}] /\ UNCHANGED sessions
      \/ /\ cleaner[c].step = "forget" /\ cleaner'[c].session = Nobody
         /\ sessions' = sessions \ {s} /\ UNCHANGED disk
  BY DEF CleanEffect
<1> HIDE DEF s
<1>4. /\ upload[s] = "ended" /\ s # Nobody
      /\ cleaner[c].session = s
      /\ cleaner[c].step = "forget" => disk[s] = {}
  BY <1>1, <1>2 DEF AfterUpload, Threads, s
<1>5. /\ \A r \in Sessions : disk'[r] = disk[r] \/ (r = s /\ disk'[r] = {})
      /\ \A r \in Sessions : r # s => disk'[r] = disk[r]
      /\ \A r \in Sessions : r # s => (r \in sessions' <=> r \in sessions)
      /\ sessions' \subseteq sessions
      /\ cleaner'[c].session \in {s, Nobody}
      /\ disk' = [r \in Sessions |-> disk'[r]]
  BY <1>1, <1>2, <1>3 DEF Typed
<1>6. s \notin sessions /\ disk[s] # {} => s \in lost
  BY <1>1, <1>2, <1>4 DEF ThreadsLeaveNothing
<1>7. cleaner'[c].session = Nobody => s \notin sessions' \/ s \in lost'
  BY <1>3, <1>4
<1>8. Typed'
  BY <1>1, <1>2, <1>5 DEF Typed
<1>9. AfterUpload'
  <2>1. \A r \in Sessions :
          /\ r \in tasks \/ r \in server.left => upload[r] = "ended"
          /\ timer[r] # "none" => r \in tasks
          /\ upload[r] = "stored" => r \in sessions'
          /\ r \in sessions' => upload[r] \in {"stored", "ended"}
          /\ upload[r] = "none" => disk'[r] = {}
    BY <1>1, <1>4, <1>5 DEF AfterUpload
  <2>2. \A d \in Cleaners :
          cleaner'[d].session # Nobody => upload[cleaner'[d].session] = "ended"
    BY <1>1, <1>2, <1>4, <1>5 DEF AfterUpload
  <2> QED
    BY <1>1, <1>2, <2>1, <2>2 DEF AfterUpload
<1>10. AtRest'
  BY <1>1, <1>2 DEF AtRest
<1>11. Threads'
  <2>1. \A d \in Cleaners : cleaner'[d].session \in {cleaner[d].session, Nobody}
    BY <1>2, <1>4, <1>5
  <2>2. \A d \in Cleaners : cleaner'[d].step = "forget" => disk'[cleaner'[d].session] = {}
    <3>1. ASSUME NEW d \in Cleaners, cleaner'[d].step = "forget"
          PROVE  disk'[cleaner'[d].session] = {}
      <4>1. CASE d # c
        <5>1. disk[cleaner[d].session] = {} /\ cleaner[d].session \in Sessions
              /\ cleaner'[d] = cleaner[d]
          BY <3>1, <4>1, <1>1, <1>2 DEF Threads, Typed, CleanerRecords
        <5> QED
          BY <5>1, <1>5
      <4>2. CASE d = c
        BY <3>1, <4>2, <1>1, <1>2, <1>3 DEF Typed
      <4> QED
        BY <4>1, <4>2
    <3> QED
      BY <3>1
  <2> QED
    BY <1>1, <1>2, <2>1, <2>2, CleanersDiffer DEF Threads
<1>12. ThreadsLeaveNothing'
  <2>1. \A r \in Sessions :
           upload[r] = "ended" /\ r \notin sessions' /\ disk'[r] # {} => r \in lost'
    <3>1. ASSUME NEW r \in Sessions, upload[r] = "ended", r \notin sessions', disk'[r] # {}
          PROVE  r \in lost'
      <4>1. CASE r # s
        BY <3>1, <4>1, <1>1, <1>2, <1>5 DEF ThreadsLeaveNothing
      <4>2. CASE r = s
        BY <3>1, <4>2, <1>2, <1>3, <1>4, <1>5, <1>6
      <4> QED
        BY <4>1, <4>2
    <3> QED
      BY <3>1
  <2>2. \A r \in Sessions :
           timer[r] = "running" /\ cleaner'[<<"timer", r>>].session = Nobody =>
              r \notin sessions' \/ r \in lost'
    <3>1. ASSUME NEW r \in Sessions, timer[r] = "running",
                 cleaner'[<<"timer", r>>].session = Nobody
          PROVE  r \notin sessions' \/ r \in lost'
      <4>1. CASE c = <<"timer", r>>
        <5>1. s = r
          BY <4>1, <1>1, <1>4 DEF Threads
        <5> QED
          BY <5>1, <4>1, <3>1, <1>7
      <4>2. CASE c # <<"timer", r>>
        BY <3>1, <4>2, <1>1, <1>2, <1>5, CleanersDiffer DEF ThreadsLeaveNothing, Over
      <4> QED
        BY <4>1, <4>2
    <3> QED
      BY <3>1
  <2>3. \A k \in Sockets :
           socket[k].step = "ending" /\ cleaner'[<<"socket", k>>].session = Nobody =>
              socket[k].session \notin sessions' \/ socket[k].session \in lost'
    <3>1. ASSUME NEW k \in Sockets, socket[k].step = "ending",
                 cleaner'[<<"socket", k>>].session = Nobody
          PROVE  socket[k].session \notin sessions' \/ socket[k].session \in lost'
      <4>1. CASE c = <<"socket", k>>
        <5>1. s = socket[k].session
          BY <4>1, <1>1, <1>4 DEF Threads
        <5> QED
          BY <5>1, <4>1, <3>1, <1>7
      <4>2. CASE c # <<"socket", k>>
        BY <3>1, <4>2, <1>1, <1>2, <1>5, CleanersDiffer DEF ThreadsLeaveNothing, Over
      <4> QED
        BY <4>1, <4>2
    <3> QED
      BY <3>1
  <2> QED
    BY <1>2, <2>1, <2>2, <2>3 DEF ThreadsLeaveNothing, Over
<1>13. KnownIsWhole'
  <2>1. ASSUME NEW r \in sessions', disk'[r] # Files
        PROVE  \E d \in Cleaners : cleaner'[d].step = "forget" /\ cleaner'[d].session = r
    <3>1. r \in Sessions /\ r \in sessions
      BY <2>1, <1>1, <1>5 DEF Typed
    <3>2. CASE disk[r] = Files
      BY <3>1, <3>2, <2>1, <1>3, <1>5
    <3>3. CASE disk[r] # Files
      <4>1. PICK d \in Cleaners : cleaner[d].step = "forget" /\ cleaner[d].session = r
        BY <3>1, <3>3, <1>1 DEF KnownIsWhole
      <4>2. CASE d # c
        BY <4>1, <4>2, <1>2
      <4>3. CASE d = c
        BY <4>1, <4>3, <2>1, <1>3, <1>4
      <4> QED
        BY <4>2, <4>3
    <3> QED
      BY <3>2, <3>3
  <2> QED
    BY <2>1 DEF KnownIsWhole
<1>14. UnsharedIsAlone'
  <2>1. ASSUME NEW k \in Sockets, socket[k].step \in {"begin", "read"}, ~ socket[k].shared
        PROVE  /\ socket[k].session \in Sessions /\ socket[k].session # s
               /\ Alone(k)
    <3>1. Alone(k) /\ socket[k].session \in Sessions
      BY <2>1, <1>1 DEF UnsharedIsAlone, Typed, SocketRecords
    <3> QED
      BY <3>1, <1>4 DEF Alone
  <2> QED
    BY <2>1, <1>2, <1>5 DEF UnsharedIsAlone, Alone
<1>15. FilesHaveARemover'
  <2>1. ASSUME NEW r \in Sessions, disk'[r] # {}
        PROVE  \/ upload[r] \in {"saving", "stored"}
               \/ r \in sessions' /\ r \in tasks
               \/ r \in sessions' /\ Processing(r) # {}
               \/ \E d \in Cleaners : cleaner'[d].session = r
               \/ r \in sessions' /\ r \in server.left
               \/ r \in lost'
    <3>1. CASE r # s
      <4>1. (\E d \in Cleaners : cleaner[d].session = r)
               => \E d \in Cleaners : cleaner'[d].session = r
        BY <3>1, <1>2, <1>4
      <4> QED
        BY <2>1, <3>1, <4>1, <1>1, <1>2, <1>5 DEF FilesHaveARemover, Working
    <3>2. CASE r = s
      BY <2>1, <3>2, <1>2, <1>3, <1>4, <1>5, <1>6
    <3> QED
      BY <3>1, <3>2
  <2> QED
    BY <2>1, <1>2 DEF FilesHaveARemover, Working, Processing
<1>16. SoleSocketReadsAll'
  BY <1>1, <1>2 DEF SoleSocketReadsAll
<1> QED
  BY <1>8, <1>9, <1>10, <1>11, <1>12, <1>13, <1>14, <1>15, <1>16 DEF IInv

-----------------------------------------------------------------------------
(* SessionCleanupJob *)

LEMMA TimerFiresKeeps ==
    ASSUME IInv, Nobody \notin Sessions, NEW s \in Sessions, TimerFires(s)
    PROVE  IInv'
<1> DEFINE c == <<"timer", s>>
<1>1. /\ Typed /\ AfterUpload /\ AtRest /\ Threads /\ ThreadsLeaveNothing
      /\ KnownIsWhole /\ UnsharedIsAlone /\ FilesHaveARemover /\ SoleSocketReadsAll
  BY DEF IInv
<1>2. /\ timer[s] = "sleeping" /\ timer' = [timer EXCEPT ![s] = "running"]
      /\ Clean(c, s)
      /\ UNCHANGED <<upload, sessions, disk, tasks, socket, server, lost>>
  BY DEF TimerFires
<1>3. s \in tasks /\ upload[s] = "ended" /\ cleaner[c].session = Nobody
  BY <1>1, <1>2 DEF AfterUpload, Threads
<1>4. c \in Cleaners
  BY CleanersDiffer
<1>5. /\ cleaner' \in [Cleaners -> CleanerRecords]
      /\ cleaner'[c].step = "look" /\ cleaner'[c].session = s
      /\ \A d \in Cleaners : d # c => cleaner'[d] = cleaner[d]
      /\ \A d \in Cleaners : cleaner'[d].step = "none" <=> cleaner'[d].session = Nobody
  BY <1>1, <1>2, <1>4, CleanBegins
<1>6. cleaner[c].step = "none"
  BY <1>1, <1>3, <1>4 DEF Typed
<1>7. /\ \A r \in Sessions : r # s => timer'[r] = timer[r] /\ <<"timer", r>> # c
      /\ timer'[s] = "running"
      /\ \A k \in Sockets : <<"events", k>> # c /\ <<"socket", k>> # c
  BY <1>1, <1>2, CleanersDiffer DEF Typed
<1> HIDE DEF c
<1>8. Typed'
  BY <1>1, <1>2, <1>5 DEF Typed
<1>9. AfterUpload'
  <2>1. \A r \in Sessions : timer'[r] # "none" => r \in tasks
    BY <1>1, <1>3, <1>7 DEF AfterUpload
  <2>2. \A d \in Cleaners :
          cleaner'[d].session # Nobody => upload[cleaner'[d].session] = "ended"
    BY <1>1, <1>3, <1>5 DEF AfterUpload
  <2> QED
    BY <1>1, <1>2, <2>1, <2>2 DEF AfterUpload
<1>10. AtRest'
  BY <1>1, <1>2 DEF AtRest
<1>11. Threads'
  <2>1. \A r \in Sessions :
          /\ cleaner'[<<"timer", r>>].session \in {r, Nobody}
          /\ timer'[r] = "sleeping" => cleaner'[<<"timer", r>>].session = Nobody
    <3>1. ASSUME NEW r \in Sessions, r # s
          PROVE  /\ cleaner'[<<"timer", r>>] = cleaner[<<"timer", r>>]
                 /\ timer'[r] = timer[r]
      BY <3>1, <1>5, <1>7, CleanersDiffer
    <3>2. cleaner'[<<"timer", s>>].session = s /\ timer'[s] = "running"
      BY <1>5, <1>7 DEF c
    <3>3. \A r \in Sessions :
          /\ cleaner[<<"timer", r>>].session \in {r, Nobody}
          /\ timer[r] = "sleeping" => cleaner[<<"timer", r>>].session = Nobody
      BY <1>1 DEF Threads
    <3> QED
      BY <3>1, <3>2, <3>3
  <2>2. \A k \in Sockets :
          /\ cleaner'[<<"events", k>>] = cleaner[<<"events", k>>]
          /\ cleaner'[<<"socket", k>>] = cleaner[<<"socket", k>>]
    BY <1>5, <1>7, CleanersDiffer
  <2>3. \A d \in Cleaners : cleaner'[d].step = "forget" => cleaner'[d] = cleaner[d]
    BY <1>5
  <2> QED
    BY <1>1, <1>2, <2>1, <2>2, <2>3 DEF Threads
<1>12. ThreadsLeaveNothing'
  <2>1. ASSUME NEW r \in Sessions, timer'[r] = "running",
               cleaner'[<<"timer", r>>].session = Nobody
        PROVE  Over(r)
    <3>1. r # s
      BY <2>1, <1>5 DEF c
    <3> QED
      BY <2>1, <3>1, <1>1, <1>5, <1>7, CleanersDiffer DEF ThreadsLeaveNothing
  <2>2. \A k \in Sockets : cleaner'[<<"socket", k>>] = cleaner[<<"socket", k>>]
    BY <1>5, <1>7, CleanersDiffer
  <2> QED
    BY <1>1, <1>2, <2>1, <2>2 DEF ThreadsLeaveNothing, Over
<1>13. KnownIsWhole'
  <2>1. \A d \in Cleaners : cleaner[d].step = "forget" => cleaner'[d] = cleaner[d]
    BY <1>5, <1>6
  <2> QED
    BY <2>1, <1>1, <1>2 DEF KnownIsWhole
<1>14. UnsharedIsAlone'
  BY <1>1, <1>2, <1>3, <1>5 DEF UnsharedIsAlone, Alone
<1>15. FilesHaveARemover'
  <2>1. \A r \in Sessions : Working(r) # {} => Working(r)' # {}
    BY <1>3, <1>5 DEF Working
  <2> QED
    BY <2>1, <1>1, <1>2 DEF FilesHaveARemover, Processing
<1>16. SoleSocketReadsAll'
  BY <1>1, <1>2 DEF SoleSocketReadsAll
<1> QED
  BY <1>8, <1>9, <1>10, <1>11, <1>12, <1>13, <1>14, <1>15, <1>16 DEF IInv

\* A task ends with its thread, which has left nothing behind.
LEMMA TimerEndsKeeps ==
    ASSUME IInv, Nobody \notin Sessions, NEW s \in Sessions, TimerEnds(s)
    PROVE  IInv'
<1>1. /\ Typed /\ AfterUpload /\ AtRest /\ Threads /\ ThreadsLeaveNothing
      /\ KnownIsWhole /\ UnsharedIsAlone /\ FilesHaveARemover /\ SoleSocketReadsAll
  BY DEF IInv
<1>2. /\ timer[s] = "running" /\ timer' = [timer EXCEPT ![s] = "none"]
      /\ tasks' = tasks \ {s} /\ cleaner[<<"timer", s>>] = Resting
      /\ UNCHANGED <<upload, sessions, disk, socket, server, lost, cleaner>>
  BY DEF TimerEnds
<1>3. cleaner[<<"timer", s>>].session = Nobody
  BY <1>2 DEF Resting
<1>4. Over(s) /\ upload[s] = "ended"
  BY <1>1, <1>2, <1>3 DEF ThreadsLeaveNothing, AfterUpload
<1>5. disk[s] # {} => s \in lost
  BY <1>1, <1>4 DEF ThreadsLeaveNothing, Over
<1>6. \A r \in Sessions : timer'[r] = IF r = s THEN "none" ELSE timer[r]
  BY <1>1, <1>2 DEF Typed
<1>7. Typed' /\ AtRest' /\ SoleSocketReadsAll'
  BY <1>1, <1>2 DEF Typed, AtRest, SoleSocketReadsAll
<1>8. AfterUpload'
  BY <1>1, <1>2, <1>6 DEF AfterUpload
<1>9. Threads'
  BY <1>1, <1>2, <1>6 DEF Threads
<1>10. ThreadsLeaveNothing'
  BY <1>1, <1>2, <1>6 DEF ThreadsLeaveNothing, Over
<1>11. KnownIsWhole' /\ UnsharedIsAlone'
  BY <1>1, <1>2 DEF KnownIsWhole, UnsharedIsAlone, Alone
<1>12. FilesHaveARemover'
  BY <1>1, <1>2, <1>5 DEF FilesHaveARemover, Processing, Working
<1> QED
  BY <1>7, <1>8, <1>9, <1>10, <1>11, <1>12 DEF IInv

-----------------------------------------------------------------------------
(* The websocket and ProcessDocuments *)

SocketSet(k) ==
    /\ socket' \in [Sockets -> SocketRecords]
    /\ \A x \in Sockets : x # k => socket'[x] = socket[x]
    /\ \A x \in Sockets : socket'[x].step = "closed" <=> socket'[x].session = Nobody

LEMMA SetSocket ==
    ASSUME Typed, NEW k \in Sockets, NEW f \in SocketRecords,
           f.step = "closed" <=> f.session = Nobody,
           socket' = [socket EXCEPT ![k] = f]
    PROVE  SocketSet(k) /\ socket'[k] = f
BY DEF Typed, SocketSet

\* A socket that goes a step further with its session.
Moved(k, from, to) ==
    /\ SocketSet(k)
    /\ socket[k].step = from /\ socket'[k].step = to
    /\ socket'[k].session = socket[k].session
    /\ socket[k].session \in Sessions

LEMMA OpenSocket ==
    ASSUME Typed, NEW k \in Sockets, socket[k].step # "closed"
    PROVE  socket[k] \in SocketRecords /\ socket[k].session \in Sessions
<1>1. socket[k] \in SocketRecords
      /\ (socket[k].step = "closed" <=> socket[k].session = Nobody)
  BY DEF Typed
<1> QED
  BY <1>1 DEF SocketRecords

LEMMA MoveOnly ==
    ASSUME Typed, Nobody \notin Sessions, NEW k \in Sockets,
           NEW from, from # "closed", NEW to \in SocketSteps, to # "closed",
           socket[k].step = from,
           socket' = [socket EXCEPT ![k].step = to]
    PROVE  /\ Moved(k, from, to)
           /\ socket'[k].shared = socket[k].shared
           /\ socket'[k].missed = socket[k].missed
<1> DEFINE f == [socket[k] EXCEPT !.step = to]
<1>1. socket[k] \in SocketRecords /\ socket[k].session \in Sessions
  BY OpenSocket
<1>2. /\ f \in SocketRecords /\ f.step = to /\ f.session = socket[k].session
      /\ f.shared = socket[k].shared /\ f.missed = socket[k].missed
  BY <1>1 DEF SocketRecords
<1>3. socket' = [socket EXCEPT ![k] = f]
  BY DEF Typed
<1> HIDE DEF f
<1>4. SocketSet(k) /\ socket'[k] = f
  BY <1>1, <1>2, <1>3, SetSocket
<1> QED
  BY <1>1, <1>2, <1>4 DEF Moved

\* The generator goes on.
WalkEffect(k) ==
    LET s == socket[k].session IN
    /\ UNCHANGED <<upload, sessions, disk, timer, tasks, server, cleaner, lost>>
    /\ socket'[k].shared = socket[k].shared
    /\ \/ Moved(k, "begin", "read") /\ s \in sessions /\ socket'[k].missed = socket[k].missed
       \/ Moved(k, "begin", "clean") /\ socket'[k].missed = socket[k].missed
       \/ Moved(k, "read", "read")
          /\ socket'[k].missed = (socket[k].missed \/ socket[k].file \notin disk[s])
          /\ socket[k].file \in Files
       \/ Moved(k, "read", "close") /\ socket'[k].missed = socket[k].missed

LEMMA WalkHasEffect ==
    ASSUME Typed, Nobody \notin Sessions, NEW k \in Sockets,
           Begin(k) \/ ReadFile(k) \/ Infer(k) \/ Disconnect(k)
    PROVE  WalkEffect(k)
<1> DEFINE s == socket[k].session
<1>1. socket[k] \in SocketRecords /\ s \in Sessions
  BY OpenSocket DEF Begin, ReadFile, Infer, Disconnect
<1>2. CASE Begin(k)
  <2> DEFINE to == IF s \in sessions THEN "read" ELSE "clean"
             f == [socket[k] EXCEPT !.step = to, !.file = 1]
  <2>1. to \in SocketSteps /\ to # "closed"
    BY DEF SocketSteps
  <2>2. socket' = [socket EXCEPT ![k] = f] /\ socket[k].step = "begin"
    BY <1>2 DEF Begin, Typed
  <2> HIDE DEF to
  <2>3. /\ f \in SocketRecords /\ f.step = to /\ f.session = s
        /\ f.shared = socket[k].shared /\ f.missed = socket[k].missed
    BY <1>1, <2>1 DEF SocketRecords
  <2> HIDE DEF f
  <2>4. SocketSet(k) /\ socket'[k] = f
    BY <1>1, <2>1, <2>2, <2>3, SetSocket
  <2>5. Moved(k, "begin", to)
    BY <1>1, <2>2, <2>3, <2>4 DEF Moved
  <2> QED
    BY <1>2, <2>3, <2>4, <2>5 DEF Begin, WalkEffect, job, to
<1>3. CASE ReadFile(k)
  <2>1. PICK root \in {0, 1} :
          socket' = [socket EXCEPT
                ![k].file = socket[k].file + 1,
                ![k].roots = @ + root,
                ![k].missed = @ \/ socket[k].file \notin disk[s]]
    BY <1>3 DEF ReadFile
  <2> DEFINE b == socket[k].missed \/ socket[k].file \notin disk[s]
             f == [socket[k] EXCEPT !.file = socket[k].file + 1,
                      !.roots = socket[k].roots + root, !.missed = b]
  <2>2. b \in BOOLEAN
    OBVIOUS
  <2>3. socket' = [socket EXCEPT ![k] = f] /\ socket[k].step = "read"
    BY <2>1, <1>3 DEF ReadFile, Typed
  <2> HIDE DEF b
  <2>4. socket[k].file + 1 \in Nat /\ socket[k].roots + root \in Nat
    BY <1>1 DEF SocketRecords
  <2>5. /\ f \in SocketRecords /\ f.step = socket[k].step /\ f.session = s
        /\ f.shared = socket[k].shared /\ f.missed = b
    BY <1>1, <2>2, <2>4 DEF SocketRecords
  <2> HIDE DEF f
  <2>6. SocketSet(k) /\ socket'[k] = f
    BY <1>1, <2>3, <2>5, SetSocket
  <2>7. Moved(k, "read", "read")
    BY <1>1, <2>3, <2>5, <2>6 DEF Moved
  <2> QED
    BY <1>3, <2>5, <2>6, <2>7 DEF ReadFile, WalkEffect, job, b
<1>4. CASE Infer(k)
  BY <1>4, MoveOnly DEF Infer, WalkEffect, job, SocketSteps
<1>5. CASE Disconnect(k)
  BY <1>5, MoveOnly DEF Disconnect, WalkEffect, job, SocketSteps
<1> QED
  BY <1>2, <1>3, <1>4, <1>5

\* While a socket has a session, the server is up.
LEMMA MovedFrame ==
    ASSUME IInv, NEW k \in Sockets, NEW from, NEW to, Moved(k, from, to),
           from # "closed", UNCHANGED server
    PROVE  /\ server.step = "up" /\ AtRest'
           /\ \A x \in Sockets : socket'[x].session = socket[x].session
           /\ \A s \in Sessions : Processing(s)' = Processing(s)
           /\ upload[socket[k].session] = "ended"
<1>1. server.step = "up"
  BY DEF IInv, AtRest, Moved
<1>4. AtRest'
  BY <1>1 DEF IInv, AtRest
<1>2. \A x \in Sockets : socket'[x].session = socket[x].session
  BY DEF Moved, SocketSet
<1>3. upload[socket[k].session] = "ended"
  BY DEF IInv, Typed, AfterUpload, Moved, SocketRecords
<1> QED
  BY <1>1, <1>2, <1>3, <1>4 DEF Processing

LEMMA WalkKeeps ==
    ASSUME IInv, Nobody \notin Sessions, NEW k \in Sockets, WalkEffect(k)
    PROVE  IInv'
<1>1. /\ Typed /\ AfterUpload /\ AtRest /\ Threads /\ ThreadsLeaveNothing
      /\ KnownIsWhole /\ UnsharedIsAlone /\ FilesHaveARemover /\ SoleSocketReadsAll
  BY DEF IInv
<1>2. /\ UNCHANGED <<upload, sessions, disk, timer, tasks, server, cleaner, lost>>
      /\ socket'[k].shared = socket[k].shared
  BY DEF WalkEffect
<1>3. /\ SocketSet(k)
      /\ socket[k].step \in {"begin", "read"}
      /\ socket'[k].step \in {"read", "clean", "close"}
      /\ socket'[k].session = socket[k].session /\ socket[k].session \in Sessions
  BY DEF WalkEffect, Moved
<1>4. /\ server.step = "up" /\ AtRest'
      /\ \A x \in Sockets : socket'[x].session = socket[x].session
      /\ \A s \in Sessions : Processing(s)' = Processing(s)
  BY <1>2, MovedFrame DEF WalkEffect
<1>5. \A x \in Sockets : x # k => socket'[x] = socket[x]
  BY <1>3 DEF SocketSet
<1>6. Typed'
  BY <1>1, <1>2, <1>3 DEF Typed, SocketSet
<1>7. AfterUpload'
  BY <1>1, <1>2, <1>4 DEF AfterUpload
<1>8. Threads'
  <2>1. ASSUME NEW x \in Sockets
        PROVE  /\ cleaner[<<"events", x>>].session # Nobody =>
                     socket'[x].step = "closing"
               /\ cleaner[<<"socket", x>>].session # Nobody =>
                     socket'[x].step = "ending"
    BY <1>1, <1>3, <1>5 DEF Threads
  <2> QED
    BY <1>1, <1>2, <1>4, <2>1 DEF Threads
<1>9. ThreadsLeaveNothing'
  <2>1. \A x \in Sockets : socket'[x].step = "ending" => socket'[x] = socket[x]
    BY <1>3, <1>5
  <2> QED
    BY <2>1, <1>1, <1>2 DEF ThreadsLeaveNothing, Over
<1>10. KnownIsWhole' /\ FilesHaveARemover'
  BY <1>1, <1>2, <1>4 DEF KnownIsWhole, FilesHaveARemover, Working
<1>11. ASSUME NEW x \in Sockets, socket'[x].step \in {"begin", "read"}, ~ socket'[x].shared
       PROVE  Alone(x)'
  <2>1. socket[x].step \in {"begin", "read"} /\ ~ socket[x].shared
    BY <1>2, <1>3, <1>5, <1>11
  <2>2. Alone(x)
    BY <2>1, <1>1 DEF UnsharedIsAlone
  <2>3. socket'[x].step = "read" => disk[socket[x].session] = Files
    <3>1. CASE socket[x].step = "read"
      BY <3>1, <2>2 DEF Alone
    <3>2. CASE socket[x].step = "begin" /\ socket'[x].step = "read"
      <4>1. x = k /\ socket[x].session \in sessions
        BY <3>2, <1>5 DEF WalkEffect, Moved
      <4>2. \A c \in Cleaners : cleaner[c].session # socket[x].session
        BY <2>2 DEF Alone
      <4> QED
        BY <4>1, <4>2, <1>1 DEF KnownIsWhole
    <3> QED
      BY <3>1, <3>2, <2>1
  <2> QED
    BY <2>2, <2>3, <1>2, <1>4 DEF Alone
<1>12. ASSUME NEW x \in Sockets, socket'[x].missed
       PROVE  socket'[x].shared
  <2>1. CASE x # k
    BY <2>1, <1>1, <1>5, <1>12 DEF SoleSocketReadsAll
  <2>2. CASE x = k /\ socket'[k].missed = socket[k].missed
    BY <2>2, <1>1, <1>2, <1>12 DEF SoleSocketReadsAll
  <2>3. CASE /\ x = k /\ socket[k].step = "read" /\ socket[k].file \in Files
             /\ socket'[k].missed =
                   (socket[k].missed \/ socket[k].file \notin disk[socket[k].session])
    <3>1. CASE socket[k].missed
      BY <3>1, <2>3, <1>1, <1>2 DEF SoleSocketReadsAll
    <3>2. CASE socket[k].file \notin disk[socket[k].session]
      <4>1. ~ Alone(k)
        BY <3>2, <2>3 DEF Alone
      <4> QED
        BY <4>1, <2>3, <1>1, <1>2 DEF UnsharedIsAlone
    <3> QED
      BY <3>1, <3>2, <2>3, <1>12
  <2> QED
    BY <2>1, <2>2, <2>3 DEF WalkEffect, Moved
<1> QED
  BY <1>4, <1>6, <1>7, <1>8, <1>9, <1>10, <1>11, <1>12
     DEF IInv, UnsharedIsAlone, SoleSocketReadsAll

\* A socket opens: those that process the same session share it from now on.
LEMMA OpenKeeps ==
    ASSUME IInv, Nobody \notin Sessions, NEW k \in Sockets, NEW s \in Sessions, Open(k, s)
    PROVE  IInv'
<1>1. /\ Typed /\ AfterUpload /\ AtRest /\ Threads /\ ThreadsLeaveNothing
      /\ KnownIsWhole /\ UnsharedIsAlone /\ FilesHaveARemover /\ SoleSocketReadsAll
  BY DEF IInv
<1>2. /\ server.step = "up" /\ socket[k].step = "closed" /\ upload[s] = "ended"
      /\ UNCHANGED <<upload, sessions, disk, timer, tasks, cleaner, server, faults, lost>>
      /\ socket' = [x \in Sockets |->
            IF x = k THEN [Closed EXCEPT !.step = "cancel", !.session = s]
            ELSE [socket[x] EXCEPT !.shared = @ \/ x \in Processing(s)]]
  BY DEF Open, job
<1>3. /\ socket'[k] \in SocketRecords /\ socket'[k].step = "cancel"
      /\ socket'[k].session = s /\ ~ socket'[k].missed
  BY <1>2 DEF Closed, SocketRecords, SocketSteps
<1>4. ASSUME NEW x \in Sockets, x # k
      PROVE  /\ socket'[x] \in SocketRecords
             /\ socket'[x].step = socket[x].step
             /\ socket'[x].session = socket[x].session
             /\ socket'[x].missed = socket[x].missed
             /\ socket'[x].shared = (socket[x].shared \/ socket[x].session = s)
  <2> DEFINE b == socket[x].shared \/ x \in Processing(s)
             f == [socket[x] EXCEPT !.shared = b]
  <2>1. b \in BOOLEAN /\ socket[x] \in SocketRecords /\ socket'[x] = f
    BY <1>1, <1>2, <1>4 DEF Typed
  <2>2. b = (socket[x].shared \/ socket[x].session = s)
    BY DEF Processing
  <2> HIDE DEF b
  <2>3. /\ f \in SocketRecords /\ f.step = socket[x].step
        /\ f.session = socket[x].session /\ f.missed = socket[x].missed
        /\ f.shared = b
    BY <2>1 DEF SocketRecords
  <2> QED
    BY <2>1, <2>2, <2>3
<1>5. socket[k].session = Nobody
  BY <1>1, <1>2 DEF Typed
<1>6. socket' \in [Sockets -> SocketRecords]
  <2>1. socket' = [x \in Sockets |-> socket'[x]]
    BY <1>2
  <2>2. \A x \in Sockets : socket'[x] \in SocketRecords
    BY <1>3, <1>4
  <2> QED
    BY <2>1, <2>2
<1>7. Typed'
  <2>1. \A x \in Sockets : socket'[x].step = "closed" <=> socket'[x].session = Nobody
    BY <1>1, <1>3, <1>4 DEF Typed
  <2> QED
    BY <2>1, <1>1, <1>2, <1>6 DEF Typed
<1>8. AfterUpload'
  <2>1. \A x \in Sockets :
          socket'[x].session # Nobody => upload[socket'[x].session] = "ended"
    BY <1>1, <1>2, <1>3, <1>4 DEF AfterUpload
  <2> QED
    BY <2>1, <1>1, <1>2 DEF AfterUpload
<1>9. AtRest'
  BY <1>1, <1>2 DEF AtRest
<1>10. Threads'
  <2>1. ASSUME NEW x \in Sockets
        PROVE  /\ cleaner[<<"events", x>>].session # Nobody =>
                     /\ socket'[x].step = "closing"
                     /\ socket'[x].session = cleaner[<<"events", x>>].session
               /\ cleaner[<<"socket", x>>].session # Nobody =>
                     /\ socket'[x].step = "ending"
                     /\ socket'[x].session = cleaner[<<"socket", x>>].session
    BY <1>1, <1>2, <1>4 DEF Threads
  <2> QED
    BY <1>1, <1>2, <2>1 DEF Threads
<1>11. ThreadsLeaveNothing'
  <2>1. \A x \in Sockets : socket'[x].step = "ending" =>
           socket[x].step = "ending" /\ socket'[x].session = socket[x].session
    BY <1>3, <1>4
  <2> QED
    BY <2>1, <1>1, <1>2 DEF ThreadsLeaveNothing, Over
<1>12. KnownIsWhole'
  BY <1>1, <1>2 DEF KnownIsWhole
<1>13. UnsharedIsAlone'
  <2>1. ASSUME NEW x \in Sockets, socket'[x].step \in {"begin", "read"}, ~ socket'[x].shared
        PROVE  Alone(x)'
    <3>1. x # k
      BY <2>1, <1>3
    <3>2. /\ socket[x].step \in {"begin", "read"} /\ ~ socket[x].shared
          /\ socket[x].session # s /\ socket'[x].session = socket[x].session
          /\ socket'[x].step = socket[x].step
      BY <2>1, <3>1, <1>4
    <3>3. Alone(x)
      BY <3>2, <1>1 DEF UnsharedIsAlone
    <3>4. \A y \in Sockets \ {x} : socket'[y].session # socket'[x].session
      BY <3>2, <3>3, <1>3, <1>4 DEF Alone
    <3> QED
      BY <3>2, <3>3, <3>4, <1>2 DEF Alone
  <2> QED
    BY <2>1 DEF UnsharedIsAlone
<1>14. FilesHaveARemover'
  <2>1. \A r \in Sessions : Processing(r) # {} => Processing(r)' # {}
    BY <1>4, <1>5 DEF Processing
  <2> QED
    BY <2>1, <1>1, <1>2 DEF FilesHaveARemover, Working
<1>15. SoleSocketReadsAll'
  BY <1>1, <1>3, <1>4 DEF SoleSocketReadsAll
<1> QED
  BY <1>7, <1>8, <1>9, <1>10, <1>11, <1>12, <1>13, <1>14, <1>15 DEF IInv

\* A socket stops the task of its session, and sees who else works on it.
LEMMA CancelKeeps ==
    ASSUME IInv, Nobody \notin Sessions, NEW k \in Sockets, Cancel(k)
    PROVE  IInv'
<1> DEFINE s == socket[k].session
           b == socket[k].shared \/ Working(s) # {} \/ Processing(s) # {k}
           f == [socket[k] EXCEPT !.step = "begin", !.shared = b]
<1>1. /\ Typed /\ AfterUpload /\ AtRest /\ Threads /\ ThreadsLeaveNothing
      /\ KnownIsWhole /\ UnsharedIsAlone /\ FilesHaveARemover /\ SoleSocketReadsAll
  BY DEF IInv
<1>2. /\ socket[k].step = "cancel"
      /\ timer' = [r \in Sessions |-> IF r \in {s} \cap tasks THEN "none" ELSE timer[r]]
      /\ tasks' = tasks \ {s}
      /\ UNCHANGED <<upload, sessions, disk, cleaner, server, lost>>
  BY DEF Cancel, CancelTimer, Cancelled
<1>3. socket' = [socket EXCEPT ![k] = f]
  BY <1>1 DEF Cancel, Typed
<1>4. socket[k] \in SocketRecords /\ s \in Sessions
  BY <1>1, <1>2, OpenSocket
<1>5. b \in BOOLEAN
  OBVIOUS
<1> HIDE DEF b
<1>6. /\ f \in SocketRecords /\ f.step = "begin" /\ f.session = s
      /\ f.shared = b /\ f.missed = socket[k].missed
  BY <1>4, <1>5 DEF SocketRecords, SocketSteps
<1> HIDE DEF f
<1>7. SocketSet(k) /\ socket'[k] = f
  BY <1>1, <1>3, <1>4, <1>6, SetSocket
<1>8. Moved(k, "cancel", "begin")
  BY <1>2, <1>4, <1>6, <1>7 DEF Moved
<1>9. /\ \A x \in Sockets : socket'[x].session = socket[x].session
      /\ \A r \in Sessions : Processing(r)' = Processing(r)
      /\ upload[s] = "ended" /\ AtRest'
  BY <1>2, <1>8, MovedFrame
<1>10. \A x \in Sockets : x # k => socket'[x] = socket[x]
  BY <1>7 DEF SocketSet
<1> HIDE DEF s
<1>11. /\ \A r \in Sessions : timer'[r] = IF r = s /\ s \in tasks THEN "none" ELSE timer[r]
       /\ timer' \in [Sessions -> {"none", "sleeping", "running"}]
  BY <1>1, <1>2 DEF Typed
<1>12. Typed'
  BY <1>1, <1>2, <1>7, <1>11 DEF Typed, SocketSet
<1>13. AfterUpload'
  BY <1>1, <1>2, <1>9, <1>11 DEF AfterUpload
<1>14. Threads'
  <2>1. \A x \in Sockets : socket[x].step \in {"closing", "ending"} => socket'[x] = socket[x]
    BY <1>2, <1>10
  <2> QED
    BY <2>1, <1>1, <1>2, <1>11 DEF Threads
<1>15. ThreadsLeaveNothing'
  <2>1. \A x \in Sockets : socket'[x].step = "ending" => socket'[x] = socket[x]
    BY <1>6, <1>7, <1>10
  <2> QED
    BY <2>1, <1>1, <1>2, <1>11 DEF ThreadsLeaveNothing, Over
<1>16. KnownIsWhole'
  BY <1>1, <1>2 DEF KnownIsWhole
<1>17. UnsharedIsAlone'
  <2>1. ASSUME NEW x \in Sockets, x # k,
               socket'[x].step \in {"begin", "read"}, ~ socket'[x].shared
        PROVE  Alone(x)'
    <3>1. Alone(x) /\ socket'[x] = socket[x]
      BY <2>1, <1>1, <1>10 DEF UnsharedIsAlone
    <3> QED
      BY <3>1, <1>2, <1>9 DEF Alone
  <2>2. ASSUME ~ socket'[k].shared
        PROVE  Alone(k)'
    <3>1. Working(s) = {} /\ Processing(s) = {k}
      BY <2>2, <1>6, <1>7 DEF b, s
    <3>2. \A c \in Cleaners : cleaner[c].session # s
      BY <3>1 DEF Working
    <3>3. \A x \in Sockets \ {k} : socket[x].session # s
      BY <3>1 DEF Processing
    <3> QED
      BY <3>2, <3>3, <1>2, <1>6, <1>7, <1>9 DEF Alone, s
  <2> QED
    BY <2>1, <2>2 DEF UnsharedIsAlone
<1>18. FilesHaveARemover'
  <2>1. Processing(s) # {}
    BY DEF Processing, s
  <2> QED
    BY <2>1, <1>1, <1>2, <1>9 DEF FilesHaveARemover, Working
<1>19. SoleSocketReadsAll'
  <2>1. socket[k].missed => b
    BY <1>1 DEF SoleSocketReadsAll, b
  <2> QED
    BY <2>1, <1>1, <1>6, <1>7, <1>10 DEF SoleSocketReadsAll
<1> QED
  BY <1>9, <1>12, <1>13, <1>14, <1>15, <1>16, <1>17, <1>18, <1>19 DEF IInv

\* A socket begins to clean up, in the thread c: that of its generator or its own.
SocketCleans(k, c, from, to) ==
    /\ Moved(k, from, to)
    /\ socket'[k].shared = socket[k].shared /\ socket'[k].missed = socket[k].missed
    /\ Clean(c, socket[k].session)
    /\ cleaner[c].session = Nobody
    /\ UNCHANGED <<upload, sessions, disk, timer, tasks, server, lost>>

LEMMA SocketCleansKeeps ==
    ASSUME IInv, Nobody \notin Sessions, NEW k \in Sockets, NEW c \in Cleaners,
           NEW from, NEW to, SocketCleans(k, c, from, to),
           \/ /\ c = <<"events", k>> /\ from = "close" /\ to = "closing"
           \/ /\ c = <<"socket", k>> /\ from \in {"closing", "clean"} /\ to = "ending"
              /\ cleaner[<<"events", k>>].session = Nobody
    PROVE  IInv'
<1> DEFINE s == socket[k].session
<1>1. /\ Typed /\ AfterUpload /\ AtRest /\ Threads /\ ThreadsLeaveNothing
      /\ KnownIsWhole /\ UnsharedIsAlone /\ FilesHaveARemover /\ SoleSocketReadsAll
  BY DEF IInv
<1>2. /\ Moved(k, from, to) /\ SocketSet(k)
      /\ socket'[k].shared = socket[k].shared /\ socket'[k].missed = socket[k].missed
      /\ Clean(c, s) /\ cleaner[c].session = Nobody
      /\ UNCHANGED <<upload, sessions, disk, timer, tasks, server, lost>>
      /\ s \in Sessions /\ socket[k].step = from /\ socket'[k].step = to
  BY DEF SocketCleans, Moved
<1>3. /\ cleaner' \in [Cleaners -> CleanerRecords]
      /\ cleaner'[c].step = "look" /\ cleaner'[c].session = s
      /\ \A d \in Cleaners : d # c => cleaner'[d] = cleaner[d]
      /\ \A d \in Cleaners : cleaner'[d].step = "none" <=> cleaner'[d].session = Nobody
  BY <1>1, <1>2, CleanBegins
<1>4. cleaner[c].step = "none"
  BY <1>1, <1>2 DEF Typed
<1>5. /\ \A x \in Sockets : socket'[x].session = socket[x].session
      /\ \A r \in Sessions : Processing(r)' = Processing(r)
      /\ upload[s] = "ended" /\ AtRest'
  BY <1>2, MovedFrame
<1>6. \A x \in Sockets : x # k => socket'[x] = socket[x]
  BY <1>2 DEF SocketSet
<1>7. /\ \A r \in Sessions : <<"timer", r>> # c
      /\ \A x \in Sockets : x # k => <<"events", x>> # c /\ <<"socket", x>> # c
      /\ \A r \in Sessions : <<"timer", r>> \in Cleaners
      /\ \A x \in Sockets : <<"events", x>> \in Cleaners /\ <<"socket", x>> \in Cleaners
      /\ <<"events", k>> # <<"socket", k>>
  BY CleanersDiffer
<1>8. socket'[k].session = s
  BY <1>5
<1> HIDE DEF s
<1>9. Typed'
  BY <1>1, <1>2, <1>3 DEF Typed, SocketSet
<1>10. AfterUpload'
  <2>1. \A d \in Cleaners :
          cleaner'[d].session # Nobody => upload[cleaner'[d].session] = "ended"
    BY <1>1, <1>3, <1>5 DEF AfterUpload
  <2> QED
    BY <2>1, <1>1, <1>2, <1>5 DEF AfterUpload
<1>11. Threads'
  <2>1. \A r \in Sessions : cleaner'[<<"timer", r>>] = cleaner[<<"timer", r>>]
    BY <1>3, <1>7
  <2>2. ASSUME NEW x \in Sockets, x # k
        PROVE  /\ cleaner'[<<"events", x>>] = cleaner[<<"events", x>>]
               /\ cleaner'[<<"socket", x>>] = cleaner[<<"socket", x>>]
               /\ socket'[x] = socket[x]
    BY <2>2, <1>3, <1>6, <1>7
  <2>3. /\ cleaner'[<<"events", k>>].session # Nobody =>
              /\ socket'[k].step = "closing"
              /\ socket'[k].session = cleaner'[<<"events", k>>].session
        /\ cleaner'[<<"socket", k>>].session # Nobody =>
              /\ socket'[k].step = "ending"
              /\ socket'[k].session = cleaner'[<<"socket", k>>].session
    <3>1. CASE c = <<"events", k>> /\ from = "close" /\ to = "closing"
      <4>1. cleaner[<<"socket", k>>].session = Nobody
        BY <3>1, <1>1, <1>2 DEF Threads
      <4>2. cleaner'[<<"socket", k>>] = cleaner[<<"socket", k>>]
        BY <3>1, <1>3, <1>7
      <4> QED
        BY <3>1, <4>1, <4>2, <1>2, <1>3, <1>8
    <3>2. CASE c = <<"socket", k>> /\ to = "ending" /\ cleaner[<<"events", k>>].session = Nobody
      <4>1. cleaner'[<<"events", k>>] = cleaner[<<"events", k>>]
        BY <3>2, <1>3, <1>7
      <4> QED
        BY <3>2, <4>1, <1>2, <1>3, <1>8
    <3> QED
      BY <3>1, <3>2
  <2>4. \A d \in Cleaners : cleaner'[d].step = "forget" => cleaner'[d] = cleaner[d]
    BY <1>3
  <2>5. \A x \in Sockets :
          /\ cleaner'[<<"events", x>>].session # Nobody =>
                /\ socket'[x].step = "closing"
                /\ socket'[x].session = cleaner'[<<"events", x>>].session
          /\ cleaner'[<<"socket", x>>].session # Nobody =>
                /\ socket'[x].step = "ending"
                /\ socket'[x].session = cleaner'[<<"socket", x>>].session
    BY <2>2, <2>3, <1>1 DEF Threads
  <2> QED
    BY <2>1, <2>4, <2>5, <1>1, <1>2 DEF Threads
<1>12. ThreadsLeaveNothing'
  <2>1. \A r \in Sessions : cleaner'[<<"timer", r>>] = cleaner[<<"timer", r>>]
    BY <1>3, <1>7
  <2>2. ASSUME NEW x \in Sockets, socket'[x].step = "ending",
               cleaner'[<<"socket", x>>].session = Nobody
        PROVE  Over(socket[x].session)
    <3>1. x # k
      BY <2>2, <1>2, <1>3, <1>7
    <3>2. socket'[x] = socket[x] /\ cleaner'[<<"socket", x>>] = cleaner[<<"socket", x>>]
      BY <3>1, <1>3, <1>6, <1>7
    <3> QED
      BY <2>2, <3>2, <1>1 DEF ThreadsLeaveNothing
  <2> QED
    BY <2>1, <2>2, <1>1, <1>2, <1>5 DEF ThreadsLeaveNothing, Over
<1>13. KnownIsWhole'
  <2>1. \A d \in Cleaners : cleaner[d].step = "forget" => cleaner'[d] = cleaner[d]
    BY <1>3, <1>4
  <2> QED
    BY <2>1, <1>1, <1>2 DEF KnownIsWhole
<1>14. UnsharedIsAlone'
  <2>1. ASSUME NEW x \in Sockets, socket'[x].step \in {"begin", "read"}, ~ socket'[x].shared
        PROVE  Alone(x)'
    <3>1. x # k
      BY <2>1, <1>2
    <3>2. socket'[x] = socket[x] /\ Alone(x)
      BY <2>1, <3>1, <1>1, <1>6 DEF UnsharedIsAlone
    <3>3. socket[x].session # s
      BY <3>1, <3>2 DEF Alone, s
    <3> QED
      BY <3>2, <3>3, <1>2, <1>3, <1>5 DEF Alone
  <2> QED
    BY <2>1 DEF UnsharedIsAlone
<1>15. FilesHaveARemover'
  <2>1. \A r \in Sessions : Working(r) # {} => Working(r)' # {}
    BY <1>2, <1>3 DEF Working
  <2> QED
    BY <2>1, <1>1, <1>2, <1>5 DEF FilesHaveARemover
<1>16. SoleSocketReadsAll'
  BY <1>1, <1>2, <1>6 DEF SoleSocketReadsAll
<1> QED
  BY <1>5, <1>9, <1>10, <1>11, <1>12, <1>13, <1>14, <1>15, <1>16 DEF IInv

LEMMA CloseEventsKeeps ==
    ASSUME IInv, Nobody \notin Sessions, NEW k \in Sockets, CloseEvents(k)
    PROVE  IInv'
<1>1. Moved(k, "close", "closing") /\ socket'[k].shared = socket[k].shared
      /\ socket'[k].missed = socket[k].missed
  BY MoveOnly DEF CloseEvents, IInv, SocketSteps
<1>2. cleaner[<<"events", k>>].session = Nobody
  BY DEF CloseEvents, IInv, Threads
<1>3. SocketCleans(k, <<"events", k>>, "close", "closing")
  BY <1>1, <1>2 DEF CloseEvents, SocketCleans, job
<1> QED
  BY <1>3, CleanersDiffer, SocketCleansKeeps

LEMMA CleanUpKeeps ==
    ASSUME IInv, Nobody \notin Sessions, NEW k \in Sockets, CleanUp(k)
    PROVE  IInv'
<1>1. PICK from \in {"closing", "clean"} : socket[k].step = from
  BY DEF CleanUp
<1>2. Moved(k, from, "ending") /\ socket'[k].shared = socket[k].shared
      /\ socket'[k].missed = socket[k].missed
  BY <1>1, MoveOnly DEF CleanUp, IInv, SocketSteps
<1>3. cleaner[<<"events", k>>].session = Nobody /\ cleaner[<<"socket", k>>].session = Nobody
  BY DEF CleanUp, IInv, Threads, Resting
<1>4. SocketCleans(k, <<"socket", k>>, from, "ending")
  BY <1>2, <1>3 DEF CleanUp, SocketCleans, job
<1> QED
  BY <1>3, <1>4, CleanersDiffer, SocketCleansKeeps

\* A socket closes when its thread has left nothing behind.
LEMMA CloseKeeps ==
    ASSUME IInv, Nobody \notin Sessions, NEW k \in Sockets, Close(k)
    PROVE  IInv'
<1> DEFINE s == socket[k].session
<1>1. /\ Typed /\ AfterUpload /\ AtRest /\ Threads /\ ThreadsLeaveNothing
      /\ KnownIsWhole /\ UnsharedIsAlone /\ FilesHaveARemover /\ SoleSocketReadsAll
  BY DEF IInv
<1>2. /\ socket[k].step = "ending" /\ cleaner[<<"socket", k>>].session = Nobody
      /\ socket' = [socket EXCEPT ![k] = Closed]
      /\ UNCHANGED <<upload, sessions, disk, timer, tasks, cleaner, server, lost>>
  BY DEF Close, Resting, job
<1>3. Closed \in SocketRecords /\ Closed.step = "closed" /\ Closed.session = Nobody
      /\ ~ Closed.missed
  BY DEF Closed, SocketRecords, SocketSteps
<1>4. SocketSet(k) /\ socket'[k] = Closed
  BY <1>1, <1>2, <1>3, SetSocket
<1>5. \A x \in Sockets : x # k => socket'[x] = socket[x]
  BY <1>4 DEF SocketSet
<1>6. s \in Sessions /\ upload[s] = "ended" /\ cleaner[<<"events", k>>].session = Nobody
  BY <1>1, <1>2, OpenSocket DEF AfterUpload, Threads
<1>7. disk[s] # {} => s \in lost
  BY <1>1, <1>2, <1>6 DEF ThreadsLeaveNothing, Over
<1> HIDE DEF s
<1>8. Typed'
  BY <1>1, <1>2, <1>4 DEF Typed, SocketSet
<1>9. AfterUpload' /\ AtRest'
  BY <1>1, <1>2, <1>3, <1>4, <1>5 DEF AfterUpload, AtRest
<1>10. Threads'
  BY <1>1, <1>2, <1>5, <1>6 DEF Threads
<1>11. ThreadsLeaveNothing'
  BY <1>1, <1>2, <1>3, <1>4, <1>5 DEF ThreadsLeaveNothing, Over
<1>12. KnownIsWhole'
  BY <1>1, <1>2 DEF KnownIsWhole
<1>13. UnsharedIsAlone'
  <2>1. ASSUME NEW x \in Sockets, socket'[x].step \in {"begin", "read"}, ~ socket'[x].shared
        PROVE  Alone(x)'
    <3>1. socket'[x] = socket[x] /\ Alone(x) /\ socket[x].session # Nobody
      BY <2>1, <1>1, <1>3, <1>4, <1>5 DEF UnsharedIsAlone, Typed
    <3> QED
      BY <3>1, <1>2, <1>3, <1>4, <1>5 DEF Alone
  <2> QED
    BY <2>1 DEF UnsharedIsAlone
<1>14. FilesHaveARemover'
  <2>1. ASSUME NEW r \in Sessions, r # s, Processing(r) # {}
        PROVE  Processing(r)' # {}
    BY <2>1, <1>5 DEF Processing, s
  <2> QED
    BY <2>1, <1>1, <1>2, <1>7 DEF FilesHaveARemover, Working
<1>15. SoleSocketReadsAll'
  BY <1>1, <1>3, <1>4, <1>5 DEF SoleSocketReadsAll
<1> QED
  BY <1>8, <1>9, <1>10, <1>11, <1>12, <1>13, <1>14, <1>15 DEF IInv

-----------------------------------------------------------------------------
(* Shutdown and crash *)

\* When no socket is open and nothing is processed, what is said of sockets holds.
LEMMA NoSockets ==
    ASSUME Typed, Nobody \notin Sessions, \A k \in Sockets : socket[k].step = "closed"
    PROVE  /\ \A k \in Sockets : socket[k].session = Nobody
           /\ \A s \in Sessions : Processing(s) = {}
BY DEF Typed, Processing

\* Shutdown takes over what the tasks would have removed.
LEMMA ShutdownKeeps ==
    ASSUME IInv, Nobody \notin Sessions, Shutdown
    PROVE  IInv'
<1>1. /\ Typed /\ AfterUpload /\ AtRest /\ Threads /\ ThreadsLeaveNothing
      /\ KnownIsWhole /\ UnsharedIsAlone /\ FilesHaveARemover /\ SoleSocketReadsAll
  BY DEF IInv
<1>2. /\ \A s \in Sessions : upload[s] \in {"none", "ended"}
      /\ \A k \in Sockets : socket[k].step = "closed"
      /\ tasks' = {} /\ server' = [step |-> "stopping", left |-> tasks]
      /\ timer' = [s \in Sessions |-> IF s \in tasks THEN "none" ELSE timer[s]]
      /\ UNCHANGED <<upload, sessions, disk, socket, cleaner, lost>>
  BY DEF Shutdown, CancelTasks, Cancelled
<1>3. timer' = [s \in Sessions |-> "none"]
  BY <1>1, <1>2 DEF AfterUpload
<1>4. /\ \A k \in Sockets : socket[k].session = Nobody
      /\ \A s \in Sessions : Processing(s) = {}
  BY <1>1, <1>2, NoSockets
<1>5. Typed'
  BY <1>1, <1>2, <1>3 DEF Typed
<1>6. AfterUpload' /\ AtRest'
  BY <1>1, <1>2, <1>3 DEF AfterUpload, AtRest
<1>7. Threads'
  BY <1>1, <1>2, <1>3 DEF Threads
<1>8. ThreadsLeaveNothing'
  BY <1>1, <1>2, <1>3 DEF ThreadsLeaveNothing, Over
<1>9. KnownIsWhole' /\ SoleSocketReadsAll'
  BY <1>1, <1>2 DEF KnownIsWhole, SoleSocketReadsAll
<1>10. UnsharedIsAlone'
  BY <1>2 DEF UnsharedIsAlone
<1>11. FilesHaveARemover'
  <2>1. \A s \in Sessions : Working(s)' = Working(s)
    BY <1>2 DEF Working
  <2>2. \A s \in Sessions : disk[s] # {} =>
           \/ s \in sessions /\ s \in tasks
           \/ Working(s) # {}
           \/ s \in sessions /\ s \in server.left
           \/ s \in lost
    BY <1>1, <1>2, <1>4 DEF FilesHaveARemover
  <2>3. server.left = {}
    BY <1>1 DEF AtRest, Shutdown
  <2> QED
    BY <2>1, <2>2, <2>3, <1>2 DEF FilesHaveARemover
<1> QED
  BY <1>5, <1>6, <1>7, <1>8, <1>9, <1>10, <1>11 DEF IInv

\* Shutdown cleans up for one session after the other.
LEMMA CleanNextKeeps ==
    ASSUME IInv, Nobody \notin Sessions, CleanNext
    PROVE  IInv'
<1> DEFINE c == <<"shutdown", 0>>
<1>1. /\ Typed /\ AfterUpload /\ AtRest /\ Threads /\ ThreadsLeaveNothing
      /\ KnownIsWhole /\ UnsharedIsAlone /\ FilesHaveARemover /\ SoleSocketReadsAll
  BY DEF IInv
<1>2. PICK s \in server.left :
        /\ Clean(c, s)
        /\ server' = [server EXCEPT !.left = @ \ {s}]
  BY DEF CleanNext
<1>3. /\ server.step = "stopping" /\ cleaner[c].session = Nobody
      /\ UNCHANGED <<upload, sessions, disk, timer, tasks, socket, lost>>
  BY DEF CleanNext, Resting, job
<1>4. s \in Sessions /\ upload[s] = "ended"
  BY <1>1 DEF Typed, AfterUpload
<1>5. /\ \A r \in Sessions : <<"timer", r>> \in Cleaners /\ <<"timer", r>> # c
      /\ \A x \in Sockets :
            /\ <<"events", x>> \in Cleaners /\ <<"socket", x>> \in Cleaners
            /\ <<"events", x>> # c /\ <<"socket", x>> # c
      /\ c \in Cleaners
  BY CleanersDiffer
<1> HIDE DEF c
<1>6. /\ cleaner' \in [Cleaners -> CleanerRecords]
      /\ cleaner'[c].step = "look" /\ cleaner'[c].session = s
      /\ \A d \in Cleaners : d # c => cleaner'[d] = cleaner[d]
      /\ \A d \in Cleaners : cleaner'[d].step = "none" <=> cleaner'[d].session = Nobody
  BY <1>1, <1>2, <1>4, <1>5, CleanBegins
<1>7. /\ \A k \in Sockets : socket[k].step = "closed"
      /\ \A k \in Sockets : socket[k].session = Nobody
      /\ \A r \in Sessions : Processing(r) = {}
  BY <1>1, <1>3, NoSockets DEF AtRest
<1>8. /\ \A r \in Sessions : cleaner'[<<"timer", r>>] = cleaner[<<"timer", r>>]
      /\ \A x \in Sockets :
            /\ cleaner'[<<"events", x>>] = cleaner[<<"events", x>>]
            /\ cleaner'[<<"socket", x>>] = cleaner[<<"socket", x>>]
  BY <1>5, <1>6
<1>9. server' \in [step : {"up", "stopping", "down"}, left : SUBSET Sessions]
      /\ server'.step = "stopping" /\ server'.left = server.left \ {s}
  BY <1>1, <1>2, <1>3 DEF Typed
<1>10. cleaner[c].step = "none"
  BY <1>1, <1>3, <1>5 DEF Typed
<1>11. Typed'
  BY <1>1, <1>3, <1>6, <1>9 DEF Typed
<1>12. AfterUpload' /\ AtRest'
  <2>1. \A d \in Cleaners :
          cleaner'[d].session # Nobody => upload[cleaner'[d].session] = "ended"
    BY <1>1, <1>4, <1>6 DEF AfterUpload
  <2> QED
    BY <2>1, <1>1, <1>3, <1>9 DEF AfterUpload, AtRest
<1>13. Threads'
  <2>1. \A d \in Cleaners : cleaner'[d].step = "forget" => cleaner'[d] = cleaner[d]
    BY <1>6
  <2> QED
    BY <2>1, <1>1, <1>3, <1>8 DEF Threads
<1>14. ThreadsLeaveNothing'
  BY <1>1, <1>3, <1>8 DEF ThreadsLeaveNothing, Over
<1>15. KnownIsWhole'
  <2>1. \A d \in Cleaners : cleaner[d].step = "forget" => cleaner'[d] = cleaner[d]
    BY <1>6, <1>10
  <2> QED
    BY <2>1, <1>1, <1>3 DEF KnownIsWhole
<1>16. UnsharedIsAlone' /\ SoleSocketReadsAll'
  BY <1>1, <1>3, <1>7 DEF UnsharedIsAlone, SoleSocketReadsAll
<1>17. FilesHaveARemover'
  <2>1. \A r \in Sessions : Working(r) # {} => Working(r)' # {}
    BY <1>3, <1>4, <1>6 DEF Working
  <2>2. Working(s)' # {}
    BY <1>5, <1>6 DEF Working
  <2> QED
    BY <2>1, <2>2, <1>1, <1>3, <1>7, <1>9 DEF FilesHaveARemover, Processing
<1> QED
  BY <1>11, <1>12, <1>13, <1>14, <1>15, <1>16, <1>17 DEF IInv

\* A process that ends after its shutdown leaves no files but those a failure left.
LEMMA DownKeeps ==
    ASSUME IInv, Nobody \notin Sessions, Down
    PROVE  IInv'
<1>1. /\ Typed /\ AfterUpload /\ AtRest /\ Threads /\ ThreadsLeaveNothing
      /\ KnownIsWhole /\ UnsharedIsAlone /\ FilesHaveARemover /\ SoleSocketReadsAll
  BY DEF IInv
<1>2. /\ server.step = "stopping" /\ server.left = {}
      /\ \A c \in Cleaners : cleaner[c].session = Nobody
      /\ server' = [step |-> "down", left |-> {}] /\ sessions' = {}
      /\ UNCHANGED <<upload, disk, timer, tasks, socket, cleaner, lost>>
  BY DEF Down, Resting, job
<1>3. /\ \A k \in Sockets : socket[k].step = "closed"
      /\ \A s \in Sessions : Processing(s) = {} /\ Working(s) = {}
      /\ \A s \in Sessions : upload[s] \in {"none", "ended"}
      /\ tasks = {}
  BY <1>1, <1>2, NoSockets DEF AtRest, Working
<1>4. \A s \in Sessions : disk[s] # {} => s \in lost
  BY <1>1, <1>2, <1>3 DEF FilesHaveARemover
<1>5. Typed'
  BY <1>1, <1>2 DEF Typed
<1>6. AfterUpload' /\ AtRest'
  BY <1>1, <1>2, <1>3 DEF AfterUpload, AtRest
<1>7. Threads'
  BY <1>1, <1>2 DEF Threads
<1>8. ThreadsLeaveNothing'
  BY <1>2, <1>3, <1>4 DEF ThreadsLeaveNothing, Over
<1>9. KnownIsWhole' /\ SoleSocketReadsAll'
  BY <1>1, <1>2 DEF KnownIsWhole, SoleSocketReadsAll
<1>10. UnsharedIsAlone'
  BY <1>2, <1>3 DEF UnsharedIsAlone
<1>11. FilesHaveARemover'
  BY <1>2, <1>4 DEF FilesHaveARemover
<1> QED
  BY <1>5, <1>6, <1>7, <1>8, <1>9, <1>10, <1>11 DEF IInv

\* A crash forgets everything but the files.
LEMMA CrashKeeps ==
    ASSUME IInv, Nobody \notin Sessions, Crash
    PROVE  IInv'
<1>1. /\ Typed /\ AfterUpload
  BY DEF IInv
<1>2. /\ server' = [step |-> "down", left |-> {}]
      /\ lost' = lost \cup {s \in Sessions : disk[s] # {}}
      /\ upload' = [s \in Sessions |-> IF upload[s] = "none" THEN "none" ELSE "ended"]
      /\ sessions' = {} /\ tasks' = {} /\ disk' = disk
      /\ timer' = [s \in Sessions |-> "none"]
      /\ socket' = [k \in Sockets |-> Closed]
      /\ cleaner' = [c \in Cleaners |-> Resting]
  BY DEF Crash
<1>3. /\ Closed \in SocketRecords /\ Closed.step = "closed" /\ Closed.session = Nobody
      /\ ~ Closed.missed
      /\ Resting \in CleanerRecords /\ Resting.step = "none" /\ Resting.session = Nobody
  BY DEF Closed, Resting, SocketRecords, SocketSteps, CleanerRecords
<1>4. /\ \A s \in Sessions : disk'[s] # {} => s \in lost'
      /\ \A s \in Sessions : upload'[s] \in {"none", "ended"}
      /\ \A s \in Sessions : upload'[s] = "none" => disk'[s] = {}
      /\ \A s \in Sessions : timer'[s] = "none"
      /\ \A k \in Sockets : socket'[k] = Closed
      /\ \A c \in Cleaners : cleaner'[c] = Resting
      /\ server'.step = "down" /\ server'.left = {}
  BY <1>1, <1>2 DEF AfterUpload
<1>5. Typed'
  BY <1>1, <1>2, <1>3, <1>4 DEF Typed
<1>6. AfterUpload' /\ AtRest'
  BY <1>2, <1>3, <1>4 DEF AfterUpload, AtRest
<1>7. Threads'
  BY <1>3, <1>4, CleanersDiffer DEF Threads
<1>8. ThreadsLeaveNothing'
  BY <1>3, <1>4 DEF ThreadsLeaveNothing, Over
<1>9. KnownIsWhole' /\ SoleSocketReadsAll'
  BY <1>2, <1>3, <1>4 DEF KnownIsWhole, SoleSocketReadsAll
<1>10. UnsharedIsAlone'
  BY <1>3, <1>4 DEF UnsharedIsAlone
<1>11. FilesHaveARemover'
  BY <1>4 DEF FilesHaveARemover
<1> QED
  BY <1>5, <1>6, <1>7, <1>8, <1>9, <1>10, <1>11 DEF IInv

LEMMA RestartKeeps ==
    ASSUME IInv, Nobody \notin Sessions, Restart
    PROVE  IInv'
<1>1. /\ Typed /\ AfterUpload /\ AtRest /\ Threads /\ ThreadsLeaveNothing
      /\ KnownIsWhole /\ UnsharedIsAlone /\ FilesHaveARemover /\ SoleSocketReadsAll
  BY DEF IInv
<1>2. /\ server.step = "down" /\ server' = [step |-> "up", left |-> {}]
      /\ UNCHANGED <<upload, sessions, disk, timer, tasks, socket, cleaner, lost>>
  BY DEF Restart, job
<1>3. server.left = {}
  BY <1>1, <1>2 DEF AtRest
<1>4. Typed'
  BY <1>1, <1>2 DEF Typed
<1>5. AfterUpload' /\ AtRest' /\ Threads'
  BY <1>1, <1>2, <1>3 DEF AfterUpload, AtRest, Threads
<1>6. ThreadsLeaveNothing' /\ KnownIsWhole' /\ SoleSocketReadsAll'
  BY <1>1, <1>2 DEF ThreadsLeaveNothing, Over, KnownIsWhole, SoleSocketReadsAll
<1>7. UnsharedIsAlone'
  BY <1>1, <1>2 DEF UnsharedIsAlone, Alone
<1>8. FilesHaveARemover'
  BY <1>1, <1>2, <1>3 DEF FilesHaveARemover, Working, Processing
<1> QED
  BY <1>4, <1>5, <1>6, <1>7, <1>8 DEF IInv

-----------------------------------------------------------------------------
(* The theorems *)

LEMMA InitialUploads ==
    ASSUME Init, Nobody \notin Sessions
    PROVE  IInv
<1>1. /\ Closed \in SocketRecords /\ Closed.step = "closed" /\ Closed.session = Nobody
      /\ ~ Closed.missed
      /\ Resting \in CleanerRecords /\ Resting.step = "none" /\ Resting.session = Nobody
  BY DEF Closed, Resting, SocketRecords, SocketSteps, CleanerRecords
<1>2. /\ \A s \in Sessions : upload[s] = "none" /\ disk[s] = {} /\ timer[s] = "none"
      /\ \A k \in Sockets : socket[k] = Closed
      /\ \A c \in Cleaners : cleaner[c] = Resting
      /\ sessions = {} /\ tasks = {} /\ server = [step |-> "up", left |-> {}]
  BY DEF Init
<1>3. Typed
  BY <1>1, <1>2 DEF Typed, Init
<1>4. AfterUpload /\ AtRest
  BY <1>1, <1>2 DEF AfterUpload, AtRest
<1>5. Threads
  BY <1>1, <1>2, CleanersDiffer DEF Threads
<1>6. ThreadsLeaveNothing /\ KnownIsWhole /\ UnsharedIsAlone
  BY <1>1, <1>2 DEF ThreadsLeaveNothing, Over, KnownIsWhole, UnsharedIsAlone
<1>7. FilesHaveARemover /\ SoleSocketReadsAll
  BY <1>1, <1>2 DEF FilesHaveARemover, SoleSocketReadsAll
<1> QED
  BY <1>3, <1>4, <1>5, <1>6, <1>7 DEF IInv

\* Nothing happens.
LEMMA StutteringKeeps ==
    ASSUME IInv, UNCHANGED vars
    PROVE  IInv'
<1>1. UNCHANGED <<upload, sessions, disk, timer, tasks, socket, cleaner, server, lost>>
  BY DEF vars, job
<1>2. Typed' /\ AfterUpload' /\ AtRest' /\ Threads'
  BY <1>1 DEF IInv, Typed, AfterUpload, AtRest, Threads
<1>3. ThreadsLeaveNothing' /\ KnownIsWhole' /\ SoleSocketReadsAll'
  BY <1>1 DEF IInv, ThreadsLeaveNothing, Over, KnownIsWhole, SoleSocketReadsAll
<1>4. UnsharedIsAlone'
  BY <1>1 DEF IInv, UnsharedIsAlone, Alone
<1>5. FilesHaveARemover'
  BY <1>1 DEF IInv, FilesHaveARemover, Working, Processing
<1> QED
  BY <1>2, <1>3, <1>4, <1>5 DEF IInv

LEMMA StepsKeepUploads ==
    ASSUME IInv, Nobody \notin Sessions, [Next]_vars
    PROVE  IInv'
<1>1. CASE \E s \in Sessions : Upload(s) \/ UploadStep(s)
  BY <1>1, UploadHasEffect, UploadKeeps DEF IInv
<1>2. CASE \E s \in Sessions : TimerStep(s)
  BY <1>2, TimerFiresKeeps, TimerEndsKeeps DEF TimerStep
<1>3. CASE \E c \in Cleaners : CleanStep(c)
  BY <1>3, CleanHasEffect, CleanKeeps DEF IInv
<1>4. CASE \E k \in Sockets : SocketStep(k)
  <2> PICK k \in Sockets : SocketStep(k)
    BY <1>4
  <2>1. CASE Begin(k) \/ ReadFile(k) \/ Infer(k) \/ Disconnect(k)
    BY <2>1, WalkHasEffect, WalkKeeps DEF IInv
  <2>2. CASE Cancel(k)
    BY <2>2, CancelKeeps
  <2>3. CASE CloseEvents(k) \/ CleanUp(k) \/ Close(k)
    BY <2>3, CloseEventsKeeps, CleanUpKeeps, CloseKeeps
  <2> QED
    BY <2>1, <2>2, <2>3 DEF SocketStep
<1>5. CASE \E k \in Sockets, s \in Sessions : Open(k, s)
  BY <1>5, OpenKeeps
<1>6. CASE Shutdown \/ CleanNext \/ Down \/ Crash \/ Restart
  BY <1>6, ShutdownKeeps, CleanNextKeeps, DownKeeps, CrashKeeps, RestartKeeps
<1>7. CASE UNCHANGED vars
  BY <1>7, StutteringKeeps
<1> QED
  BY <1>1, <1>2, <1>3, <1>4, <1>5, <1>6, <1>7 DEF Next

\* What is known of every state: which uploads, tasks, sockets and threads there are for
\* a session, and which files it has by then.
THEOREM UploadsInvariant == Spec => []IInv
<1>1. Init => IInv
  BY InitialUploads, NobodyAssumption
<1>2. IInv /\ [Next]_vars => IInv'
  BY StepsKeepUploads, NobodyAssumption
<1> QED
  BY <1>1, <1>2, PTL DEF Spec

\* FilesHold: stored files are always somebody's to remove, unless a removal failed or
\* the process crashed, through cancelled tasks, threads that go on, sockets that share
\* a session and a shutdown in between; and a socket that shares its session with nobody
\* finds every file of it.
THEOREM FilesAreKeptAndRemoved == Spec => []FilesHold
<1>1. IInv => FilesHold
  BY DEF IInv, FilesHold
<1> QED
  BY <1>1, UploadsInvariant, PTL

=============================================================================
