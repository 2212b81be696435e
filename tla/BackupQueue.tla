---------------------------- MODULE BackupQueue ----------------------------
(***************************************************************************)
(* The global backup queue of BackupService                                *)
(* (backend/app/services/backup_service.py, lines 54-267): one FIFO queue, *)
(* a pool of worker tasks, the dedupe set of device names, the setup lock  *)
(* around worker start-up and shutdown.                                    *)
(*                                                                         *)
(* Everything runs on one asyncio event loop, so a step of the model is    *)
(* the code between two suspension points.  The state lock is never held   *)
(* across a suspension and Queue.put never blocks (the queue is            *)
(* unbounded), so the setup-lock section of _ensure_backup_queue_workers,  *)
(* the dedupe check and the put of a whole batch form one step.  The setup *)
(* lock is held across an await only by stop_backup_queue, while it        *)
(* gathers the cancelled workers; callers that arrive then wait for it.    *)
(***************************************************************************)
EXTENDS Integers, Sequences, FiniteSets, Functions

CONSTANTS
    Devices,    \* device names
    Callers,    \* coroutines that enqueue: scheduler jobs and API requests
    Tasks,      \* identities of asyncio worker tasks (reused once collected)
    Threads,    \* max(1, app.threads)
    Batches,    \* device sets one call asks for
    NoDevice, NoRequest

ASSUME ThreadsAssumption == Threads \in Nat \ {0}
ASSUME TasksAssumption == IsFiniteSet(Tasks)
ASSUME DevicesAssumption == IsFiniteSet(Devices) /\ NoDevice \notin Devices
ASSUME BatchesAssumption == Batches \subseteq SUBSET Devices

VARIABLES
    queue,       \* _backup_queue: device names in FIFO order
    reserved,    \* _queued_or_running
    unfinished,  \* the queue's count of items without a task_done
    task,        \* life of each worker task
    job,         \* item a worker is processing
    cancelled,   \* tasks on which cancel() was called
    listed,      \* _queue_workers
    stopping,    \* stop_backup_queue holds the setup lock (in gather)
    request      \* what each caller asked for, until it is answered

vars == <<queue, reserved, unfinished, task, job, cancelled, listed,
          stopping, request>>

TaskStates == {"none", "idle", "busy", "done"}

\* A device passed to the queue is a snapshot with its own "enabled" flag; only
\* the route for a single device passes a disabled one.
Requests == {r \in [devices : Batches, enabled : BOOLEAN] :
                r.enabled \/ Cardinality(r.devices) = 1}

Live == {w \in Tasks : task[w] \in {"idle", "busy"}}
Busy == {w \in Tasks : task[w] = "busy"}
Queued == Range(queue)
Running == {job[w] : w \in Busy}

Types ==
    /\ queue \in Seq(Devices)
    /\ reserved \subseteq Devices
    /\ unfinished \in Int
    /\ task \in [Tasks -> TaskStates]
    /\ job \in [Tasks -> Devices \cup {NoDevice}]
    /\ cancelled \subseteq Tasks
    /\ listed \subseteq Tasks
    /\ stopping \in BOOLEAN
    /\ request \in [Callers -> Requests \cup {NoRequest}]

\* Every variable has its type, and task_done is never called more often than
\* items were put (asyncio raises ValueError then, which would end a worker).
TypeOK == Types /\ unfinished >= 0

Init ==
    /\ queue = <<>>
    /\ reserved = {}
    /\ unfinished = 0
    /\ task = [w \in Tasks |-> "none"]
    /\ job = [w \in Tasks |-> NoDevice]
    /\ cancelled = {}
    /\ listed = {}
    /\ stopping = FALSE
    /\ request = [c \in Callers |-> NoRequest]

-----------------------------------------------------------------------------
\* The orders in which a batch's devices can be put.
Orders(S) == Bijection(1 .. Cardinality(S), S)

\* Mutation of EnsureWorkers: ended workers still count as active, so a pool that
\* lost a worker is never refilled.
EnsureCountsDoneWorkers ==
    /\ IF listed = {}
       THEN \E new \in SUBSET {w \in Tasks : task[w] = "none"} :
                /\ Cardinality(new) = Threads
                /\ listed' = new
                /\ task' = [w \in Tasks |-> IF w \in new THEN "idle" ELSE task[w]]
       ELSE UNCHANGED <<listed, task>>

\* Mutation of EnsureWorkers: a full set of workers is created whenever the pool
\* is short of one.
EnsureCreatesFullPool ==
    LET active == {w \in listed : task[w] # "done"}
        gone   == listed \ active
    IN  \E new \in SUBSET {w \in Tasks : task[w] = "none"} :
            /\ Cardinality(new) = IF Cardinality(active) < Threads THEN Threads ELSE 0
            /\ listed' = active \cup new
            /\ task' = [w \in Tasks |-> IF w \in new THEN "idle"
                                        ELSE IF w \in gone THEN "none"
                                        ELSE task[w]]

\* _ensure_backup_queue_workers: done workers leave the list, missing ones are
\* created; a list that is long enough is left as it is.
EnsureWorkers ==
    LET active == {w \in listed : task[w] # "done"}
        gone   == listed \ active
        missing == Threads - Cardinality(active)
    IN  \E new \in SUBSET {w \in Tasks : task[w] = "none"} :
            /\ Cardinality(new) = IF missing > 0 THEN missing ELSE 0
            /\ listed' = active \cup new
            /\ task' = [w \in Tasks |-> IF w \in new THEN "idle"
                                        ELSE IF w \in gone THEN "none"
                                        ELSE task[w]]

\* A scheduler job or a route calls queue_device_backup(s) and awaits the
\* setup lock.
Call(c, r) ==
    /\ request[c] = NoRequest
    /\ request' = [request EXCEPT ![c] = r]
    /\ UNCHANGED <<queue, reserved, unfinished, task, job, cancelled, listed,
                   stopping>>

\* Mutation of Accepted: only waiting devices are taken for duplicates, not the
\* running ones.
AcceptedWhileRunning(r) == IF r.enabled THEN r.devices \ Queued ELSE {}

\* Mutation of Accepted: nobody is ever refused.
AcceptedUnchecked(r) == IF r.enabled THEN r.devices ELSE {}

\* The devices of a request that _queue_device_backup accepts.
Accepted(r) == IF r.enabled THEN r.devices \ reserved ELSE {}

\* Mutation of Enqueue: a caller does not wait for the setup lock.
EnqueueWithoutSetupLock(c) ==
    /\ request[c] # NoRequest
    /\ EnsureWorkers
    /\ \E s \in Orders(Accepted(request[c])) :
           /\ queue' = queue \o s
           /\ unfinished' = unfinished + Len(s)
    /\ reserved' = reserved \cup Accepted(request[c])
    /\ request' = [request EXCEPT ![c] = NoRequest]
    /\ UNCHANGED <<job, cancelled, stopping>>

\* The caller gets the setup lock: workers are ensured, then each device that is
\* enabled and not reserved is reserved and put.
Enqueue(c) ==
    /\ ~stopping
    /\ request[c] # NoRequest
    /\ EnsureWorkers
    /\ \E s \in Orders(Accepted(request[c])) :
           /\ queue' = queue \o s
           /\ unfinished' = unfinished + Len(s)
    /\ reserved' = reserved \cup Accepted(request[c])
    /\ request' = [request EXCEPT ![c] = NoRequest]
    /\ UNCHANGED <<job, cancelled, stopping>>

\* start_backup_queue, at application start-up.
StartQueue ==
    /\ ~stopping
    /\ EnsureWorkers
    /\ UNCHANGED <<queue, reserved, unfinished, job, cancelled, stopping,
                   request>>

\* A worker's Queue.get returns the head of the queue.
Take(w) ==
    /\ task[w] = "idle"
    /\ w \notin cancelled
    /\ queue # <<>>
    /\ queue' = Tail(queue)
    /\ task' = [task EXCEPT ![w] = "busy"]
    /\ job' = [job EXCEPT ![w] = Head(queue)]
    /\ UNCHANGED <<reserved, unfinished, cancelled, listed, stopping, request>>

\* Mutation of Release: task_done only, the name stays in the dedupe set.
ReleaseKeepsName(w, next) ==
    /\ task[w] = "busy"
    /\ unfinished' = unfinished - 1
    /\ task' = [task EXCEPT ![w] = next]
    /\ job' = [job EXCEPT ![w] = NoDevice]
    /\ UNCHANGED <<queue, reserved, cancelled, listed, stopping, request>>

\* Mutation of Release: task_done is called by the error path and by finally.
ReleaseTaskDoneTwice(w, next) ==
    /\ task[w] = "busy"
    /\ reserved' = reserved \ {job[w]}
    /\ unfinished' = unfinished - 2
    /\ task' = [task EXCEPT ![w] = next]
    /\ job' = [job EXCEPT ![w] = NoDevice]
    /\ UNCHANGED <<queue, cancelled, listed, stopping, request>>

\* The worker's finally block: the name leaves the dedupe set, task_done.
Release(w, next) ==
    /\ task[w] = "busy"
    /\ reserved' = reserved \ {job[w]}
    /\ unfinished' = unfinished - 1
    /\ task' = [task EXCEPT ![w] = next]
    /\ job' = [job EXCEPT ![w] = NoDevice]
    /\ UNCHANGED <<queue, cancelled, listed, stopping, request>>

\* backup_device returned, or raised an Exception the worker logged.
Finish(w) == w \notin cancelled /\ Release(w, "idle")

\* backup_device let a BaseException through that nobody's cancel() caused (a
\* CancelledError out of a library's own future): the task ends.
Die(w) == w \notin cancelled /\ Release(w, "done")

\* The CancelledError of shutdown reaches a worker: waiting in get it returns,
\* inside a backup it releases the device and ends.
EndCancelled(w) ==
    /\ w \in cancelled
    /\ \/ /\ task[w] = "idle"
          /\ task' = [task EXCEPT ![w] = "done"]
          /\ UNCHANGED <<queue, reserved, unfinished, job, cancelled, listed,
                         stopping, request>>
       \/ Release(w, "done")

\* Mutation of StopBegin: gather without cancelling first.
StopBeginWithoutCancel ==
    /\ ~stopping
    /\ listed # {}
    /\ stopping' = TRUE
    /\ UNCHANGED <<queue, reserved, unfinished, task, job, cancelled, listed, request>>

\* stop_backup_queue with workers listed: cancel them, then gather.
StopBegin ==
    /\ ~stopping
    /\ listed # {}
    /\ stopping' = TRUE
    /\ cancelled' = {w \in listed : task[w] # "done"}
    /\ UNCHANGED <<queue, reserved, unfinished, task, job, listed, request>>

\* Mutation of StopEnd: drained items are not reported with task_done.
StopEndWithoutTaskDone ==
    /\ stopping
    /\ \A w \in listed : task[w] = "done"
    /\ stopping' = FALSE
    /\ task' = [w \in Tasks |-> IF w \in listed THEN "none" ELSE task[w]]
    /\ listed' = {}
    /\ cancelled' = {}
    /\ queue' = <<>>
    /\ reserved' = {}
    /\ UNCHANGED <<unfinished, job, request>>

\* gather returned: every listed worker is done.  The list is emptied, the queue
\* drained with a task_done per item, the dedupe set cleared, the lock released.
StopEnd ==
    /\ stopping
    /\ \A w \in listed : task[w] = "done"
    /\ stopping' = FALSE
    /\ task' = [w \in Tasks |-> IF w \in listed THEN "none" ELSE task[w]]
    /\ listed' = {}
    /\ cancelled' = {}
    /\ queue' = <<>>
    /\ unfinished' = unfinished - Len(queue)
    /\ reserved' = {}
    /\ UNCHANGED <<job, request>>

Next ==
    \/ \E c \in Callers : \E r \in Requests : Call(c, r)
    \/ \E c \in Callers : Enqueue(c)
    \/ StartQueue
    \/ \E w \in Tasks : Take(w) \/ Finish(w) \/ Die(w) \/ EndCancelled(w)
    \/ StopBegin
    \/ StopEnd

Spec == Init /\ [][Next]_vars

\* Fairness.  A waiting getter is woken by put; a backup ends, which is assumed of
\* devices, remotes and mail servers (wait_closed, git push and smtplib have no
\* timeout); asyncio.Lock serves its waiters in FIFO order, so a
\* caller is not passed over forever although shutdowns keep taking the lock;
\* gather wakes when its tasks are done; cron triggers keep calling.
Fairness ==
    /\ WF_vars(\E w \in Tasks : Take(w))
    /\ \A w \in Tasks : WF_vars(Finish(w) \/ Die(w) \/ EndCancelled(w))
    /\ \A c \in Callers : SF_vars(Enqueue(c))
    /\ \A c \in Callers : WF_vars(\E r \in Requests : Call(c, r))
    /\ WF_vars(StopEnd)

FairSpec == Spec /\ Fairness

-----------------------------------------------------------------------------
(***************************************************************************)
(* Safety.                                                                 *)
(***************************************************************************)

\* The dedupe set holds exactly the names that wait in the queue or are being
\* backed up (the comment of line 60): a name left behind would block its
\* device for ever, a missing one would let it run twice.
DedupeExact == reserved = Queued \cup Running

\* A device is in the queue at most once, runs on at most one worker, and never
\* waits while it runs: two backups of one device never overlap.
OneBackupPerDevice ==
    /\ \A i, j \in 1 .. Len(queue) : queue[i] = queue[j] => i = j
    /\ \A v, w \in Busy : job[v] = job[w] => v = w
    /\ Queued \cap Running = {}

\* At most app.threads worker tasks are alive, whatever the order of enqueues,
\* worker deaths and shutdowns.
WorkerBound == Cardinality(Live) <= Threads

\* No worker outlives its place in _queue_workers: shutdown reaches every one.
WorkersListed == Live \subseteq listed

\* The queue's unfinished count is what waits plus what runs: task_done is never
\* called once too often, nor forgotten by a drain.
TaskDoneBalanced == unfinished = Len(queue) + Cardinality(Busy)

\* While stop_backup_queue gathers, no backup starts and nothing is queued.
ShutdownStartsNothing ==
    [][stopping => Running' \subseteq Running /\ Queued' \subseteq Queued]_vars

(***************************************************************************)
(* The abstract queue, implemented.                                        *)
(***************************************************************************)
DB == INSTANCE DeviceBackups
        WITH phase <- [d \in Devices |-> IF d \in Running THEN "running"
                                         ELSE IF d \in Queued THEN "queued"
                                         ELSE "idle"]

\* Every step of the queue is a step of DeviceBackups or invisible to it: a
\* device that was accepted leaves the queue only for a worker or a shutdown.
ImplementsDeviceBackups == DB!Spec

(***************************************************************************)
(* Liveness.                                                               *)
(***************************************************************************)
\* A queued device is eventually taken by a worker or dropped by a shutdown,
\* although workers may die: the next enqueue replaces them.
QueuedEventuallyLeaves == \A d \in Devices : d \in Queued ~> d \notin Queued

\* The setup lock is never kept for ever: a caller is always answered, also one
\* that waits while shutdowns take the lock, and a shutdown always completes.
CallersAnswered ==
    /\ \A c \in Callers : request[c] # NoRequest ~> request[c] = NoRequest
    /\ stopping ~> ~stopping
=============================================================================
