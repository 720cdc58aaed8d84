----------------------------- MODULE UploadSessions -----------------------------
(***************************************************************************)
(* Uploads: UploadDocuments stores the files of a session, SessionCleanup- *)
(* Job removes them after a delay, a websocket has ProcessDocuments read   *)
(* them and removes them when it is done, and shutdown removes what still  *)
(* waits.  CleanupSession looks the session up, removes its files and      *)
(* forgets it, in a thread that nothing stops once it runs.                *)
(***************************************************************************)
EXTENDS Naturals, FiniteSets

CONSTANTS
    Sessions,     \* uuid4: never drawn twice
    FileCount,    \* files of each upload, which are numbered
    Sockets,
    MaxFaults     \* bound: operations on files that fail, and crashes

Files == 1..FileCount
Timers == {<<"timer", s>> : s \in Sessions}
Cleaners == Timers \cup {<<"events", k>> : k \in Sockets}
                   \cup {<<"socket", k>> : k \in Sockets} \cup {<<"shutdown", 0>>}
Nobody == "none"

ASSUME NobodyAssumption == Nobody \notin Sessions

VARIABLES
    upload,      \* upload[s]: "none", "saving", "stored" (to be scheduled) or "ended"
    sessions,    \* InMemorySessionRepository
    disk,        \* disk[s]: the files stored for s
    timer,       \* timer[s]: the task of s: "none", "sleeping" or "running" its thread
    tasks,       \* SessionCleanupJob._tasks
    socket,      \* socket[k]: the session it processes, and the step; history: shared
    cleaner,     \* cleaner[c]: the step of CleanupSession, and for whom
    server,      \* "up", "stopping", with the sessions left to clean, or "down"
    faults,
    lost         \* history: sessions whose files a failure or a crash left behind

job == <<timer, tasks>>
vars == <<upload, sessions, disk, job, socket, cleaner, server, faults, lost>>

Closed == [step |-> "closed", session |-> Nobody, file |-> 0, roots |-> 0, missed |-> FALSE,
           shared |-> FALSE]
Resting == [step |-> "none", session |-> Nobody]
Working(s) == {c \in Cleaners : cleaner[c].session = s}
Processing(s) == {k \in Sockets : socket[k].session = s}

Fault ==
    /\ faults < MaxFaults
    /\ faults' = faults + 1

Clean(c, s) == cleaner' = [cleaner EXCEPT ![c] = [step |-> "look", session |-> s]]

-----------------------------------------------------------------------------
(* UploadDocuments, and the route that schedules the clean-up *)

Upload(s) ==
    /\ server.step = "up"
    /\ upload[s] = "none"
    /\ upload' = [upload EXCEPT ![s] = "saving"]
    /\ UNCHANGED <<sessions, disk, job, socket, cleaner, server, faults, lost>>

SaveFile(s) ==
    /\ upload[s] = "saving"
    /\ disk[s] # Files
    /\ disk' = [disk EXCEPT ![s] = @ \cup {Cardinality(@) + 1}]
    /\ UNCHANGED <<upload, sessions, job, socket, cleaner, server, faults, lost>>

AddSession(s) ==
    /\ upload[s] = "saving"
    /\ disk[s] = Files
    /\ sessions' = sessions \cup {s}
    /\ upload' = [upload EXCEPT ![s] = "stored"]
    /\ UNCHANGED <<disk, job, socket, cleaner, server, faults, lost>>

\* A file cannot be saved: those that were are removed, or that fails too.
SaveFails(s) ==
    /\ upload[s] = "saving"
    /\ Fault
    /\ \/ disk' = [disk EXCEPT ![s] = {}] /\ UNCHANGED lost
       \/ UNCHANGED disk /\ lost' = lost \cup {s}
    /\ upload' = [upload EXCEPT ![s] = "ended"]
    /\ UNCHANGED <<sessions, job, socket, cleaner, server>>

Schedule(s) ==
    /\ upload[s] = "stored"
    /\ upload' = [upload EXCEPT ![s] = "ended"]
    /\ timer' = [timer EXCEPT ![s] = "sleeping"]
    /\ tasks' = tasks \cup {s}
    /\ UNCHANGED <<sessions, disk, socket, cleaner, server, faults, lost>>

-----------------------------------------------------------------------------
(* CleanupSession *)

\* Nothing is done for a session that is gone.
LookUp(c) ==
    /\ cleaner[c].step = "look"
    /\ cleaner' = [cleaner EXCEPT ![c] =
          IF cleaner[c].session \in sessions
          THEN [step |-> "remove", session |-> cleaner[c].session] ELSE Resting]
    /\ UNCHANGED <<upload, sessions, disk, job, socket, server, faults, lost>>

RemoveFiles(c) ==
    /\ cleaner[c].step = "remove"
    /\ disk' = [disk EXCEPT ![cleaner[c].session] = {}]
    /\ cleaner' = [cleaner EXCEPT ![c].step = "forget"]
    /\ UNCHANGED <<upload, sessions, job, socket, server, faults, lost>>

\* The session stays, and so does the right of others to try.
RemovalFails(c) ==
    /\ cleaner[c].step = "remove"
    /\ Fault
    /\ lost' = lost \cup {cleaner[c].session}
    /\ cleaner' = [cleaner EXCEPT ![c] = Resting]
    /\ UNCHANGED <<upload, sessions, disk, job, socket, server>>

Forget(c) ==
    /\ cleaner[c].step = "forget"
    /\ sessions' = sessions \ {cleaner[c].session}
    /\ cleaner' = [cleaner EXCEPT ![c] = Resting]
    /\ UNCHANGED <<upload, disk, job, socket, server, faults, lost>>

-----------------------------------------------------------------------------
(* SessionCleanupJob *)

\* The delay is over.
TimerFires(s) ==
    /\ timer[s] = "sleeping"
    /\ timer' = [timer EXCEPT ![s] = "running"]
    /\ Clean(<<"timer", s>>, s)
    /\ UNCHANGED <<upload, sessions, disk, tasks, socket, server, faults, lost>>

\* _on_done: the task ends when its thread has.
TimerEnds(s) ==
    /\ timer[s] = "running"
    /\ cleaner[<<"timer", s>>] = Resting
    /\ timer' = [timer EXCEPT ![s] = "none"]
    /\ tasks' = tasks \ {s}
    /\ UNCHANGED <<upload, sessions, disk, socket, cleaner, server, faults, lost>>

\* Cancelling a task ends it, but not its thread.
Cancelled(ss) == timer' = [s \in Sessions |-> IF s \in ss THEN "none" ELSE timer[s]]

-----------------------------------------------------------------------------
(* The websocket and ProcessDocuments, a generator *)

\* The answer to the upload names the session.
Open(k, s) ==
    /\ server.step = "up"
    /\ socket[k].step = "closed"
    /\ upload[s] = "ended"
    /\ socket' = [x \in Sockets |->
          IF x = k THEN [Closed EXCEPT !.step = "cancel", !.session = s]
          ELSE [socket[x] EXCEPT !.shared = @ \/ x \in Processing(s)]]
    /\ UNCHANGED <<upload, sessions, disk, job, cleaner, server, faults, lost>>

\* cleanup_job.cancel.  Mutant: the task is left to itself.
LeaveTimer(k) == UNCHANGED job
CancelTimer(k) ==
    LET s == socket[k].session IN
    /\ Cancelled({s} \cap tasks)
    /\ tasks' = tasks \ {s}

Cancel(k) ==
    /\ socket[k].step = "cancel"
    /\ CancelTimer(k)
    /\ LET s == socket[k].session IN
       socket' = [socket EXCEPT
          ![k].step = "begin",
          ![k].shared = @ \/ Working(s) # {} \/ Processing(s) # {k}]
    /\ UNCHANGED <<upload, sessions, disk, cleaner, server, faults, lost>>

\* The generator begins; without the session it ends before its finally clause.
Begin(k) ==
    /\ socket[k].step = "begin"
    /\ socket' = [socket EXCEPT
          ![k].step = IF socket[k].session \in sessions THEN "read" ELSE "clean",
          ![k].file = 1]
    /\ UNCHANGED <<upload, sessions, disk, job, cleaner, server, faults, lost>>

\* A file is missing, or it is read, and then cannot be parsed or is one more root.
ReadFile(k) ==
    LET s == socket[k].session
        file == socket[k].file IN
    /\ socket[k].step = "read"
    /\ file \in Files
    /\ \E root \in {0, 1} :
          /\ root = 1 => file \in disk[s]
          /\ socket' = [socket EXCEPT
                ![k].file = file + 1,
                ![k].roots = @ + root,
                ![k].missed = @ \/ file \notin disk[s]]
    /\ UNCHANGED <<upload, sessions, disk, job, cleaner, server, faults, lost>>

\* The inference ends or fails, or there is nothing to infer from, or the caller has
\* gone: the generator is closed.
Infer(k) ==
    /\ socket[k].step = "read"
    /\ socket' = [socket EXCEPT ![k].step = "close"]
    /\ UNCHANGED <<upload, sessions, disk, job, cleaner, server, faults, lost>>

Disconnect(k) ==
    /\ socket[k].step = "begin"
    /\ socket' = [socket EXCEPT ![k].step = "clean"]
    /\ UNCHANGED <<upload, sessions, disk, job, cleaner, server, faults, lost>>

\* The generator's finally clause cleans up, and then the socket's once more.
CloseEvents(k) ==
    /\ socket[k].step = "close"
    /\ Clean(<<"events", k>>, socket[k].session)
    /\ socket' = [socket EXCEPT ![k].step = "closing"]
    /\ UNCHANGED <<upload, sessions, disk, job, server, faults, lost>>

CleanUp(k) ==
    /\ \/ socket[k].step = "closing" /\ cleaner[<<"events", k>>] = Resting
       \/ socket[k].step = "clean"
    /\ Clean(<<"socket", k>>, socket[k].session)
    /\ socket' = [socket EXCEPT ![k].step = "ending"]
    /\ UNCHANGED <<upload, sessions, disk, job, server, faults, lost>>

Close(k) ==
    /\ socket[k].step = "ending"
    /\ cleaner[<<"socket", k>>] = Resting
    /\ socket' = [socket EXCEPT ![k] = Closed]
    /\ UNCHANGED <<upload, sessions, disk, job, cleaner, server, faults, lost>>

-----------------------------------------------------------------------------
(* Shutdown and crash *)

\* Requests and sockets have ended when the lifespan does.  Mutant: the waiting tasks
\* are only cancelled.
CancelOnly == tasks' = {} /\ Cancelled(tasks) /\ server' = [step |-> "stopping", left |-> {}]
CancelTasks ==
    /\ tasks' = {}
    /\ Cancelled(tasks)
    /\ server' = [step |-> "stopping", left |-> tasks]

Shutdown ==
    /\ server.step = "up"
    /\ \A s \in Sessions : upload[s] \in {"none", "ended"}
    /\ \A k \in Sockets : socket[k].step = "closed"
    /\ CancelTasks
    /\ UNCHANGED <<upload, sessions, disk, socket, cleaner, faults, lost>>

\* One session after the other; a failure is logged.
CleanNext ==
    /\ server.step = "stopping"
    /\ cleaner[<<"shutdown", 0>>] = Resting
    /\ \E s \in server.left :
          /\ Clean(<<"shutdown", 0>>, s)
          /\ server' = [server EXCEPT !.left = @ \ {s}]
    /\ UNCHANGED <<upload, sessions, disk, job, socket, faults, lost>>

\* The threads of the process are joined before it ends.
Down ==
    /\ server.step = "stopping"
    /\ server.left = {}
    /\ \A c \in Cleaners : cleaner[c] = Resting
    /\ server' = [step |-> "down", left |-> {}]
    /\ sessions' = {}
    /\ UNCHANGED <<upload, disk, job, socket, cleaner, faults, lost>>

\* Files outlive the process, and nobody knows of them then.
Crash ==
    /\ server.step # "down"
    /\ Fault
    /\ server' = [step |-> "down", left |-> {}]
    /\ lost' = lost \cup {s \in Sessions : disk[s] # {}}
    /\ upload' = [s \in Sessions |-> IF upload[s] = "none" THEN "none" ELSE "ended"]
    /\ sessions' = {}
    /\ timer' = [s \in Sessions |-> "none"]
    /\ tasks' = {}
    /\ socket' = [k \in Sockets |-> Closed]
    /\ cleaner' = [c \in Cleaners |-> Resting]
    /\ UNCHANGED disk

Restart ==
    /\ server.step = "down"
    /\ \E s \in Sessions : upload[s] = "none"
    /\ server' = [step |-> "up", left |-> {}]
    /\ UNCHANGED <<upload, sessions, disk, job, socket, cleaner, faults, lost>>

-----------------------------------------------------------------------------

Init ==
    /\ upload = [s \in Sessions |-> "none"]
    /\ sessions = {}
    /\ disk = [s \in Sessions |-> {}]
    /\ timer = [s \in Sessions |-> "none"]
    /\ tasks = {}
    /\ socket = [k \in Sockets |-> Closed]
    /\ cleaner = [c \in Cleaners |-> Resting]
    /\ server = [step |-> "up", left |-> {}]
    /\ faults = 0
    /\ lost = {}

UploadStep(s) == SaveFile(s) \/ AddSession(s) \/ SaveFails(s) \/ Schedule(s)
TimerStep(s) == TimerFires(s) \/ TimerEnds(s)
CleanStep(c) == LookUp(c) \/ RemoveFiles(c) \/ RemovalFails(c) \/ Forget(c)
SocketStep(k) ==
    \/ Cancel(k) \/ Begin(k) \/ ReadFile(k) \/ Infer(k) \/ Disconnect(k)
    \/ CloseEvents(k) \/ CleanUp(k) \/ Close(k)

Next ==
    \/ \E s \in Sessions : Upload(s) \/ UploadStep(s) \/ TimerStep(s)
    \/ \E c \in Cleaners : CleanStep(c)
    \/ \E k \in Sockets : SocketStep(k) \/ \E s \in Sessions : Open(k, s)
    \/ Shutdown \/ CleanNext \/ Down \/ Crash \/ Restart

\* Threads and tasks run, the delay is over at last, sockets are served.
Fairness ==
    /\ \A s \in Sessions : WF_vars(UploadStep(s)) /\ WF_vars(TimerStep(s))
    /\ \A c \in Cleaners : WF_vars(CleanStep(c))
    /\ \A k \in Sockets : WF_vars(SocketStep(k))
    /\ WF_vars(CleanNext \/ Down)

Spec == Init /\ [][Next]_vars

-----------------------------------------------------------------------------
(* Properties *)

\* Stored files are always somebody's to remove: of the upload that is on its way, of
\* the session's task, of a socket, of a cleaning thread, or of the shutdown; unless
\* a removal failed or the process crashed.
FilesHaveARemover ==
    \A s \in Sessions : disk[s] # {} =>
        \/ upload[s] \in {"saving", "stored"}
        \/ s \in sessions /\ s \in tasks
        \/ s \in sessions /\ Processing(s) # {}
        \/ Working(s) # {}
        \/ s \in sessions /\ s \in server.left
        \/ s \in lost

\* A socket finds every file of its session unless it has shared the session: with
\* another socket, or with a thread that had begun to clean up before the socket
\* could cancel it.
SoleSocketReadsAll ==
    \A k \in Sockets : socket[k].missed => socket[k].shared

\* What was uploaded is removed in the end, whether it is processed or not.
FilesRemoved ==
    \A s \in Sessions : disk[s] # {} ~> disk[s] = {} \/ s \in lost
\* Files are neither lost by everybody nor taken from under a socket.
FilesHold == FilesHaveARemover /\ SoleSocketReadsAll

=============================================================================
