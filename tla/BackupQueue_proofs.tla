------------------------ MODULE BackupQueue_proofs ------------------------
(***************************************************************************)
(* Proofs about BackupQueue for any number of devices, callers, workers    *)
(* and threads.                                                            *)
(***************************************************************************)
EXTENDS BackupQueue, FiniteSetTheorems, SequenceTheorems, TLAPS

\* Between two shutdowns no task is cancelled; during one every listed task is
\* cancelled or done; listed tasks exist and a busy one has a device.
TaskInv ==
    /\ ~stopping => cancelled = {}
    /\ stopping => \A w \in listed : task[w] = "done" \/ w \in cancelled
    /\ \A w \in listed : task[w] # "none"
    /\ \A w \in Tasks : task[w] = "busy" => job[w] \in Devices

\* The list itself never grows beyond the configured number.
ListBound == Cardinality(listed) <= Threads

\* The inductive invariant.
IInv ==
    /\ Types
    /\ TaskInv
    /\ DedupeExact
    /\ OneBackupPerDevice
    /\ WorkersListed

-----------------------------------------------------------------------------
\* What removing the head of a queue without duplicates leaves.
LEMMA TakeHead ==
    ASSUME NEW q \in Seq(Devices), q # <<>>,
           \A i, j \in 1 .. Len(q) : q[i] = q[j] => i = j
    PROVE  /\ Head(q) \in Devices
           /\ Head(q) \in Range(q)
           /\ Tail(q) \in Seq(Devices)
           /\ Len(Tail(q)) = Len(q) - 1
           /\ \A i, j \in 1 .. Len(Tail(q)) : Tail(q)[i] = Tail(q)[j] => i = j
           /\ Range(Tail(q)) = Range(q) \ {Head(q)}
<1>1. /\ Head(q) \in Devices
      /\ Tail(q) \in Seq(Devices)
      /\ Len(Tail(q)) = Len(q) - 1
      /\ \A i \in 1 .. Len(Tail(q)) : Tail(q)[i] = q[i + 1]
  BY HeadTailProperties
<1>2. Len(q) \in Nat \ {0} /\ Head(q) = q[1]
  BY EmptySeq, LenProperties
<1>3. DOMAIN q = 1 .. Len(q) /\ DOMAIN Tail(q) = 1 .. Len(q) - 1
  BY <1>1, LenProperties
<1>4. \A i, j \in 1 .. Len(Tail(q)) : Tail(q)[i] = Tail(q)[j] => i = j
  BY <1>1, <1>2
<1>5. Head(q) \in Range(q)
  BY <1>2, <1>3 DEF Range
<1>6. Range(Tail(q)) = Range(q) \ {Head(q)}
  <2>1. ASSUME NEW d \in Range(Tail(q)) PROVE d \in Range(q) \ {Head(q)}
    <3>1. PICK i \in 1 .. Len(q) - 1 : d = Tail(q)[i]
      BY <1>3 DEF Range
    <3>2. d = q[i + 1] /\ i + 1 \in 1 .. Len(q) /\ i + 1 # 1
      BY <3>1, <1>1, <1>2
    <3> QED BY <3>2, <1>2, <1>3 DEF Range
  <2>2. ASSUME NEW d \in Range(q) \ {Head(q)} PROVE d \in Range(Tail(q))
    <3>1. PICK i \in 1 .. Len(q) : d = q[i]
      BY <1>3 DEF Range
    <3>2. i - 1 \in 1 .. Len(q) - 1
      BY <3>1, <1>2
    <3>3. Tail(q)[i - 1] = d
      BY <3>1, <3>2, <1>1
    <3> QED BY <3>2, <3>3, <1>3 DEF Range
  <2> QED BY <2>1, <2>2
<1> QED BY <1>1, <1>4, <1>5, <1>6

\* What putting fresh devices behind a queue without duplicates gives.
LEMMA PutBatch ==
    ASSUME NEW q \in Seq(Devices),
           \A i, j \in 1 .. Len(q) : q[i] = q[j] => i = j,
           NEW S \in SUBSET Devices, S \cap Range(q) = {}, IsFiniteSet(S),
           NEW s \in Orders(S)
    PROVE  /\ q \o s \in Seq(Devices)
           /\ Len(s) = Cardinality(S)
           /\ Len(q \o s) = Len(q) + Len(s)
           /\ \A i, j \in 1 .. Len(q \o s) : (q \o s)[i] = (q \o s)[j] => i = j
           /\ Range(q \o s) = Range(q) \cup S
<1>1. /\ Cardinality(S) \in Nat
      /\ s \in [1 .. Cardinality(S) -> S]
      /\ \A i, j \in 1 .. Cardinality(S) : s[i] = s[j] => i = j
      /\ \A d \in S : \E i \in 1 .. Cardinality(S) : s[i] = d
  BY FS_CardinalityType DEF Orders, Bijection, Injection, Surjection, IsInjective
<1>2. s \in Seq(Devices) /\ Len(s) = Cardinality(S)
  BY <1>1
<1>3. /\ q \o s \in Seq(Devices)
      /\ Len(q \o s) = Len(q) + Len(s)
      /\ \A i \in 1 .. Len(q) + Len(s) :
             (q \o s)[i] = IF i <= Len(q) THEN q[i] ELSE s[i - Len(q)]
  BY <1>2
<1>4. Len(q) \in Nat /\ DOMAIN q = 1 .. Len(q)
  BY LenProperties
<1>5. DOMAIN (q \o s) = 1 .. Len(q) + Len(s)
  BY <1>3, LenProperties
<1>6. \A i \in 1 .. Len(q) : q[i] \in Range(q)
  BY <1>4 DEF Range
<1>7. \A i, j \in 1 .. Len(q \o s) : (q \o s)[i] = (q \o s)[j] => i = j
  <2> SUFFICES ASSUME NEW i \in 1 .. Len(q) + Len(s), NEW j \in 1 .. Len(q) + Len(s),
                      (q \o s)[i] = (q \o s)[j]
               PROVE  i = j
    BY <1>3
  <2>1. CASE i <= Len(q) /\ j <= Len(q)
    BY <2>1, <1>3, <1>4
  <2>2. CASE i > Len(q) /\ j > Len(q)
    <3>1. i - Len(q) \in 1 .. Cardinality(S) /\ j - Len(q) \in 1 .. Cardinality(S)
      BY <2>2, <1>1, <1>2, <1>4
    <3>2. s[i - Len(q)] = s[j - Len(q)]
      BY <2>2, <1>3, <1>4
    <3>3. i - Len(q) = j - Len(q)
      BY <3>1, <3>2, <1>1
    <3> QED BY <3>3, <1>4
  <2>3. CASE i <= Len(q) /\ j > Len(q)
    <3>1. j - Len(q) \in 1 .. Cardinality(S)
      BY <2>3, <1>1, <1>2, <1>4
    <3>2. q[i] = s[j - Len(q)] /\ q[i] \in Range(q)
      BY <2>3, <1>3, <1>4, <1>6
    <3> QED BY <3>1, <3>2, <1>1
  <2>4. CASE i > Len(q) /\ j <= Len(q)
    <3>1. i - Len(q) \in 1 .. Cardinality(S)
      BY <2>4, <1>1, <1>2, <1>4
    <3>2. q[j] = s[i - Len(q)] /\ q[j] \in Range(q)
      BY <2>4, <1>3, <1>4, <1>6
    <3> QED BY <3>1, <3>2, <1>1
  <2> QED BY <2>1, <2>2, <2>3, <2>4, <1>1, <1>2, <1>4
<1>8. Range(q \o s) = Range(q) \cup S
  <2>1. ASSUME NEW d \in Range(q \o s) PROVE d \in Range(q) \cup S
    <3>1. PICK i \in 1 .. Len(q) + Len(s) : d = (q \o s)[i]
      BY <1>5 DEF Range
    <3>2. CASE i <= Len(q)
      BY <3>1, <3>2, <1>3, <1>4, <1>6
    <3>3. CASE i > Len(q)
      <4>1. i - Len(q) \in 1 .. Cardinality(S)
        BY <3>3, <1>1, <1>2, <1>4
      <4>2. d = s[i - Len(q)]
        BY <3>1, <3>3, <1>3, <1>4
      <4> QED BY <4>1, <4>2, <1>1
    <3> QED BY <3>2, <3>3, <1>1, <1>2, <1>4
  <2>2. ASSUME NEW d \in Range(q) PROVE d \in Range(q \o s)
    <3>1. PICK i \in 1 .. Len(q) : d = q[i]
      BY <1>4 DEF Range
    <3>2. i \in 1 .. Len(q) + Len(s) /\ (q \o s)[i] = d
      BY <3>1, <1>1, <1>2, <1>3, <1>4
    <3> QED BY <3>2, <1>5 DEF Range
  <2>3. ASSUME NEW d \in S PROVE d \in Range(q \o s)
    <3>1. PICK i \in 1 .. Cardinality(S) : s[i] = d
      BY <1>1
    <3>2. i + Len(q) \in 1 .. Len(q) + Len(s) /\ (q \o s)[i + Len(q)] = s[i + Len(q) - Len(q)]
      BY <3>1, <1>1, <1>2, <1>3, <1>4
    <3>3. i + Len(q) - Len(q) = i
      BY <3>1, <1>4
    <3> QED BY <3>1, <3>2, <3>3, <1>5 DEF Range
  <2> QED BY <2>1, <2>2, <2>3
<1> QED BY <1>2, <1>3, <1>7, <1>8

-----------------------------------------------------------------------------
\* A device leaves a worker: the dedupe set stays exact because no other worker
\* and no queue entry has the same name.
LEMMA ReleasePreserves ==
    ASSUME IInv, NEW w \in Tasks, NEW next \in {"idle", "done"}, Release(w, next),
           stopping => next = "done" \/ w \notin listed
    PROVE  IInv'
<1> USE DEF IInv, Release
<1>1. /\ job[w] \in Devices
      /\ w \in Busy /\ w \in Live /\ w \in listed
  BY DEF TaskInv, Busy, Live, WorkersListed
<1>2. Types'
  BY DEF Types, TaskStates
<1>3. Busy' = Busy \ {w} /\ \A v \in Busy' : job'[v] = job[v]
  BY <1>1 DEF Busy, Types
<1>4. Live' \subseteq Live
  BY <1>1 DEF Live, Types
<1>5. TaskInv'
  BY <1>1 DEF TaskInv, Types
<1>6. Running' = Running \ {job[w]}
  BY <1>1, <1>3 DEF Running, OneBackupPerDevice
<1>7. Queued' = Queued /\ job[w] \notin Queued
  BY <1>1 DEF Queued, Running, OneBackupPerDevice
<1>8. DedupeExact'
  BY <1>6, <1>7 DEF DedupeExact
<1>9. OneBackupPerDevice'
  BY <1>3, <1>6, <1>7 DEF OneBackupPerDevice
<1>10. WorkersListed'
  BY <1>4 DEF WorkersListed
<1> QED BY <1>2, <1>5, <1>8, <1>9, <1>10

\* Ensuring the workers only adds idle tasks to the list and takes ended ones out.
LEMMA EnsurePreserves ==
    ASSUME Types, TaskInv, WorkersListed, ~stopping, EnsureWorkers,
           UNCHANGED <<job, cancelled, stopping>>
    PROVE  /\ task' \in [Tasks -> TaskStates]
           /\ listed' \subseteq Tasks
           /\ TaskInv'
           /\ WorkersListed'
           /\ Busy' = Busy
           /\ Running' = Running
<1> DEFINE active == {w \in listed : task[w] # "done"}
           gone   == listed \ active
<1>1. PICK new \in SUBSET {w \in Tasks : task[w] = "none"} :
          /\ listed' = active \cup new
          /\ task' = [w \in Tasks |-> IF w \in new THEN "idle"
                                      ELSE IF w \in gone THEN "none"
                                      ELSE task[w]]
  BY DEF EnsureWorkers
<1>2. task' \in [Tasks -> TaskStates] /\ listed' \subseteq Tasks
  BY <1>1 DEF Types, TaskStates
<1>3. Busy' = Busy
  BY <1>1 DEF Busy, Types
<1>4. Running' = Running
  BY <1>3 DEF Running
<1>5. TaskInv'
  BY <1>1, <1>3 DEF TaskInv, Types
<1>6. WorkersListed'
  BY <1>1 DEF WorkersListed, Live, Types
<1> QED BY <1>2, <1>3, <1>4, <1>5, <1>6

\* The initial state satisfies the inductive invariant.
LEMMA InitIInv == Init => IInv
<1> SUFFICES ASSUME Init PROVE IInv
  OBVIOUS
<1>1. Queued = {} /\ Busy = {} /\ Live = {} /\ Running = {} /\ Len(queue) = 0
  BY DEF Init, Queued, Busy, Live, Running, Range
<1>2. Types
  <2>1. queue \in Seq(Devices)
    BY EmptySeq DEF Init
  <2>2. request \in [Callers -> Requests \cup {NoRequest}]
    BY DEF Init
  <2>3. task \in [Tasks -> TaskStates] /\ job \in [Tasks -> Devices \cup {NoDevice}]
    BY DEF Init, TaskStates
  <2>4. /\ reserved \subseteq Devices /\ unfinished \in Int
        /\ cancelled \subseteq Tasks /\ listed \subseteq Tasks
    BY DEF Init
  <2>5. stopping \in BOOLEAN
    BY DEF Init
  <2> QED BY <2>1, <2>2, <2>3, <2>4, <2>5 DEF Types
<1>3. TaskInv
  BY DEF Init, TaskInv
<1>4. DedupeExact /\ WorkersListed /\ OneBackupPerDevice
  BY <1>1 DEF Init, DedupeExact, WorkersListed, OneBackupPerDevice
<1> QED BY <1>2, <1>3, <1>4 DEF IInv

\* Every step preserves the inductive invariant.
LEMMA NextIInv == IInv /\ [Next]_vars => IInv'
<1> SUFFICES ASSUME IInv, [Next]_vars PROVE IInv'
  OBVIOUS
<1> USE DEF IInv
<1>1. ASSUME NEW c \in Callers, NEW r \in Requests, Call(c, r)
      PROVE  IInv'
  <2>1. Types'
    BY <1>1 DEF Call, Types
  <2> QED
    BY <1>1, <2>1 DEF Call, TaskInv, DedupeExact, OneBackupPerDevice,
                      WorkersListed, Queued, Running, Busy, Live
<1>2. ASSUME NEW c \in Callers, Enqueue(c)
      PROVE  IInv'
  <2> DEFINE S == Accepted(request[c])
  <2>1. S \in SUBSET Devices /\ S \cap reserved = {}
    <3>1. request[c] \in Requests
      BY <1>2 DEF Enqueue, Types
    <3>2. request[c].devices \in SUBSET Devices
      BY <3>1, BatchesAssumption DEF Requests
    <3> QED BY <3>2 DEF Accepted
  <2>2. IsFiniteSet(S)
    BY <2>1, DevicesAssumption, FS_Subset
  <2>3. S \cap Range(queue) = {} /\ S \cap Running = {}
    BY <2>1 DEF DedupeExact, Queued
  <2>4. PICK s \in Orders(S) : queue' = queue \o s /\ unfinished' = unfinished + Len(s)
    BY <1>2 DEF Enqueue
  <2>a. reserved' = reserved \cup S
    BY <1>2 DEF Enqueue
  <2> HIDE DEF S
  <2>5. /\ queue' \in Seq(Devices)
        /\ Len(s) \in Nat
        /\ \A i, j \in 1 .. Len(queue') : queue'[i] = queue'[j] => i = j
        /\ Queued' = Queued \cup S
    <3>1. queue \in Seq(Devices) /\ \A i, j \in 1 .. Len(queue) : queue[i] = queue[j] => i = j
      BY DEF Types, OneBackupPerDevice
    <3>2. /\ queue \o s \in Seq(Devices)
          /\ Len(s) = Cardinality(S)
          /\ \A i, j \in 1 .. Len(queue \o s) : (queue \o s)[i] = (queue \o s)[j] => i = j
          /\ Range(queue \o s) = Range(queue) \cup S
      BY <2>1, <2>2, <2>3, <3>1, PutBatch
    <3> QED BY <2>2, <2>4, <3>2, FS_CardinalityType DEF Queued
  <2>6. /\ task' \in [Tasks -> TaskStates]
        /\ listed' \subseteq Tasks
        /\ TaskInv'
        /\ WorkersListed'
        /\ Busy' = Busy
        /\ Running' = Running
    BY <1>2, EnsurePreserves DEF Enqueue
  <2>7. Types'
    BY <1>2, <2>1, <2>a, <2>4, <2>5, <2>6 DEF Enqueue, Types
  <2>8. DedupeExact'
    BY <2>a, <2>5, <2>6 DEF DedupeExact
  <2>9. OneBackupPerDevice'
    <3>1. \A v, w \in Busy' : job'[v] = job'[w] => v = w
      BY <1>2, <2>6 DEF Enqueue, OneBackupPerDevice
    <3>2. Queued' \cap Running' = {}
      BY <2>3, <2>5, <2>6 DEF OneBackupPerDevice
    <3> QED BY <2>5, <3>1, <3>2 DEF OneBackupPerDevice
  <2> QED BY <2>6, <2>7, <2>8, <2>9
<1>3. CASE StartQueue
  <2>1. /\ task' \in [Tasks -> TaskStates]
        /\ listed' \subseteq Tasks
        /\ TaskInv'
        /\ WorkersListed'
        /\ Busy' = Busy
        /\ Running' = Running
    BY <1>3, EnsurePreserves DEF StartQueue
  <2>2. Types'
    BY <1>3, <2>1 DEF StartQueue, Types
  <2> QED
    BY <1>3, <2>1, <2>2 DEF StartQueue, DedupeExact, OneBackupPerDevice, Queued
<1>4. ASSUME NEW w \in Tasks, Take(w)
      PROVE  IInv'
  <2>1. /\ Head(queue) \in Devices
        /\ Head(queue) \in Queued
        /\ Tail(queue) \in Seq(Devices)
        /\ \A i, j \in 1 .. Len(Tail(queue)) : Tail(queue)[i] = Tail(queue)[j] => i = j
        /\ Range(Tail(queue)) = Queued \ {Head(queue)}
    BY <1>4, TakeHead DEF Take, Types, OneBackupPerDevice, Queued
  <2>2. Types'
    BY <1>4, <2>1 DEF Take, Types, TaskStates
  <2>3. Busy' = Busy \cup {w} /\ w \notin Busy
    BY <1>4 DEF Take, Busy, Types
  <2>4. job'[w] = Head(queue) /\ \A v \in Busy : job'[v] = job[v]
    BY <1>4, <2>3 DEF Take, Types, Busy
  <2>5. Running' = Running \cup {Head(queue)}
    BY <2>3, <2>4 DEF Running
  <2>6. Queued' = Queued \ {Head(queue)}
    BY <1>4, <2>1 DEF Take, Queued
  <2>7. Head(queue) \notin Running
    BY <2>1 DEF OneBackupPerDevice
  <2>8. TaskInv'
    BY <1>4, <2>1 DEF Take, TaskInv, Types
  <2>9. DedupeExact'
    BY <1>4, <2>1, <2>5, <2>6 DEF Take, DedupeExact
  <2>10. OneBackupPerDevice'
    <3>1. \A v, u \in Busy' : job'[v] = job'[u] => v = u
      BY <2>3, <2>4, <2>7 DEF Running, OneBackupPerDevice
    <3>2. \A i, j \in 1 .. Len(queue') : queue'[i] = queue'[j] => i = j
      BY <1>4, <2>1 DEF Take
    <3>3. Queued' \cap Running' = {}
      BY <2>5, <2>6 DEF OneBackupPerDevice
    <3> QED BY <3>1, <3>2, <3>3 DEF OneBackupPerDevice
  <2>11. WorkersListed'
    BY <1>4 DEF Take, WorkersListed, Live, Types
  <2> QED BY <2>2, <2>8, <2>9, <2>10, <2>11
<1>5. ASSUME NEW w \in Tasks, Finish(w)
      PROVE  IInv'
  <2>1. stopping => w \notin listed
    BY <1>5 DEF Finish, Release, TaskInv
  <2> QED BY <1>5, <2>1, ReleasePreserves DEF Finish
<1>6. ASSUME NEW w \in Tasks, Die(w)
      PROVE  IInv'
  BY <1>6, ReleasePreserves DEF Die
<1>7. ASSUME NEW w \in Tasks, EndCancelled(w)
      PROVE  IInv'
  <2>1. CASE Release(w, "done")
    BY <2>1, ReleasePreserves
  <2>2. CASE task[w] = "idle" /\ task' = [task EXCEPT ![w] = "done"]
             /\ UNCHANGED <<queue, reserved, unfinished, job, cancelled, listed,
                            stopping, request>>
    <3>1. Busy' = Busy /\ Live' \subseteq Live
      BY <2>2 DEF Busy, Live, Types
    <3>2. Types'
      BY <2>2 DEF Types, TaskStates
    <3>3. TaskInv'
      BY <2>2 DEF TaskInv, Types
    <3> QED
      BY <2>2, <3>1, <3>2, <3>3 DEF DedupeExact, OneBackupPerDevice,
                                    WorkersListed, Queued, Running
  <2> QED BY <1>7, <2>1, <2>2 DEF EndCancelled
<1>8. CASE StopBegin
  <2>1. Types'
    BY <1>8 DEF StopBegin, Types
  <2>2. TaskInv'
    BY <1>8 DEF StopBegin, TaskInv, Types
  <2> QED
    BY <1>8, <2>1, <2>2 DEF StopBegin, DedupeExact, OneBackupPerDevice,
                            WorkersListed, Queued, Running, Busy, Live
<1>9. CASE StopEnd
  <2>1. Live = {} /\ Busy = {}
    BY <1>9 DEF StopEnd, WorkersListed, Live, Busy
  <2>2. Live' = {} /\ Busy' = {} /\ Running' = {}
    BY <1>9, <2>1 DEF StopEnd, Live, Busy, Running, Types
  <2>3. Queued' = {} /\ Len(queue') = 0
    BY <1>9 DEF StopEnd, Queued, Range
  <2>4. Types'
    <3>1. Len(queue) \in Nat
      BY LenProperties DEF Types
    <3>2. queue' \in Seq(Devices)
      BY <1>9, EmptySeq DEF StopEnd
    <3>3. task' \in [Tasks -> TaskStates]
      BY <1>9 DEF StopEnd, Types, TaskStates
    <3>4. unfinished' \in Int /\ reserved' \subseteq Devices
      BY <1>9, <3>1 DEF StopEnd, Types
    <3>5. /\ cancelled' \subseteq Tasks /\ listed' \subseteq Tasks
          /\ stopping' \in BOOLEAN
          /\ job' \in [Tasks -> Devices \cup {NoDevice}]
          /\ request' \in [Callers -> Requests \cup {NoRequest}]
      BY <1>9 DEF StopEnd, Types
    <3> QED BY <3>2, <3>3, <3>4, <3>5 DEF Types
  <2>5. TaskInv'
    BY <1>9, <2>2 DEF StopEnd, TaskInv, Busy, Types
  <2>6. DedupeExact' /\ WorkersListed' /\ OneBackupPerDevice'
    BY <1>9, <2>2, <2>3 DEF StopEnd, DedupeExact, WorkersListed, OneBackupPerDevice
  <2> QED BY <2>4, <2>5, <2>6
<1>10. CASE UNCHANGED vars
  BY <1>10 DEF vars, Types, TaskInv, DedupeExact, OneBackupPerDevice,
               WorkersListed, Queued, Running, Busy, Live
<1> QED
  BY <1>1, <1>2, <1>3, <1>4, <1>5, <1>6, <1>7, <1>8, <1>9, <1>10 DEF Next

\* The inductive invariant holds of every behaviour.
THEOREM Inductive == Spec => []IInv
<1> QED BY InitIInv, NextIInv, PTL DEF Spec

\* The dedupe set is exact in every reachable state.
THEOREM DedupeSetExact == Spec => []DedupeExact
<1> QED BY Inductive, PTL DEF IInv

\* Two backups of one device never overlap, and none waits while one runs.
THEOREM NoDoubleBackup == Spec => []OneBackupPerDevice
<1> QED BY Inductive, PTL DEF IInv

\* Shutdown knows every live worker.
THEOREM NoLeakedWorker == Spec => []WorkersListed
<1> QED BY Inductive, PTL DEF IInv

-----------------------------------------------------------------------------
(***************************************************************************)
(* The worker count and the task_done count.                               *)
(***************************************************************************)
\* Finite sets of tasks, and what live workers say about the list.
LEMMA TaskSets ==
    ASSUME IInv
    PROVE  /\ IsFiniteSet(listed) /\ IsFiniteSet(Live) /\ IsFiniteSet(Busy)
           /\ Cardinality(listed) \in Nat /\ Cardinality(Live) \in Nat
           /\ Cardinality(Busy) \in Nat
           /\ Cardinality(Live) <= Cardinality(listed)
<1>1. listed \subseteq Tasks /\ Live \subseteq listed /\ Busy \subseteq Tasks
  BY DEF IInv, Types, WorkersListed, Live, Busy
<1>2. IsFiniteSet(listed) /\ IsFiniteSet(Busy)
  BY <1>1, TasksAssumption, FS_Subset
<1>3. IsFiniteSet(Live) /\ Cardinality(Live) <= Cardinality(listed)
  BY <1>1, <1>2, FS_Subset
<1> QED BY <1>2, <1>3, FS_CardinalityType

\* Ensuring workers fills the pool up to the configured number and no further.
LEMMA EnsureKeepsBound ==
    ASSUME IInv, ListBound, EnsureWorkers
    PROVE  ListBound'
<1> DEFINE active == {w \in listed : task[w] # "done"}
<1>1. PICK new \in SUBSET {w \in Tasks : task[w] = "none"} :
          /\ Cardinality(new) = IF Threads - Cardinality(active) > 0
                                THEN Threads - Cardinality(active) ELSE 0
          /\ listed' = active \cup new
  BY DEF EnsureWorkers
<1>2. active \subseteq listed /\ new \subseteq Tasks /\ active \cap new = {}
  BY DEF IInv, TaskInv
<1>3. IsFiniteSet(active) /\ Cardinality(active) <= Cardinality(listed)
  BY <1>2, TaskSets, FS_Subset
<1>4. IsFiniteSet(new)
  BY <1>2, TasksAssumption, FS_Subset
<1>5. Cardinality(active) \in Nat /\ Cardinality(new) \in Nat /\ Cardinality(listed) \in Nat
  BY <1>3, <1>4, TaskSets, FS_CardinalityType
<1> HIDE DEF active
<1>6. Cardinality(active \cup new) = Cardinality(active) + Cardinality(new)
  <2>1. Cardinality(active \cap new) = 0
    BY <1>2, FS_EmptySet
  <2>2. Cardinality(active \cup new) =
            Cardinality(active) + Cardinality(new) - Cardinality(active \cap new)
    BY <1>3, <1>4, FS_Union
  <2> QED BY <1>5, <2>1, <2>2
<1>7. Cardinality(active) + Cardinality(new) <= Threads
  BY <1>1, <1>3, <1>5, ThreadsAssumption DEF ListBound
<1> QED BY <1>1, <1>6, <1>7 DEF ListBound

\* The list of workers never exceeds the configured concurrency.
THEOREM ListBounded == Spec => []ListBound
<1>1. Init => ListBound
  BY FS_EmptySet, ThreadsAssumption DEF Init, ListBound
<1>2. IInv /\ ListBound /\ [Next]_vars => ListBound'
  <2> SUFFICES ASSUME IInv, ListBound, [Next]_vars PROVE ListBound'
    OBVIOUS
  <2>1. ASSUME NEW c \in Callers, Enqueue(c) PROVE ListBound'
    BY <2>1, EnsureKeepsBound DEF Enqueue
  <2>2. CASE StartQueue
    BY <2>2, EnsureKeepsBound DEF StartQueue
  <2>3. CASE StopEnd
    BY <2>3, FS_EmptySet, ThreadsAssumption DEF StopEnd, ListBound
  <2>4. CASE UNCHANGED listed
    BY <2>4 DEF ListBound
  <2> QED
    BY <2>1, <2>2, <2>3, <2>4
       DEF Next, vars, Call, Take, Finish, Die, EndCancelled, Release, StopBegin
<1> QED BY <1>1, <1>2, Inductive, PTL DEF Spec

\* At most app.threads workers are alive, so at most that many backups run.
THEOREM WorkersBounded == Spec => []WorkerBound
<1>1. IInv /\ ListBound => WorkerBound
  BY TaskSets, ThreadsAssumption DEF ListBound, WorkerBound
<1> QED BY <1>1, Inductive, ListBounded, PTL

\* The unfinished count after a worker let go of its item.
LEMMA ReleaseBalanced ==
    ASSUME IInv, TaskDoneBalanced, NEW w \in Tasks, NEW next \in {"idle", "done"},
           Release(w, next)
    PROVE  TaskDoneBalanced'
<1>1. Busy' = Busy \ {w} /\ w \in Busy
  BY DEF Release, Busy, IInv, Types
<1>2. Cardinality(Busy') = Cardinality(Busy) - 1
  BY <1>1, TaskSets, FS_RemoveElement
<1>3. Len(queue) \in Nat /\ Cardinality(Busy) \in Nat
  BY TaskSets, LenProperties DEF IInv, Types
<1>4. queue' = queue /\ unfinished' = unfinished - 1
  BY DEF Release
<1> QED BY <1>2, <1>3, <1>4 DEF TaskDoneBalanced

\* task_done is called exactly once for every item put.
THEOREM TaskDoneExact == Spec => []TaskDoneBalanced
<1>1. Init => TaskDoneBalanced
  <2> SUFFICES ASSUME Init PROVE TaskDoneBalanced
    OBVIOUS
  <2>1. Busy = {} /\ Len(queue) = 0 /\ unfinished = 0
    BY DEF Init, Busy
  <2> QED BY <2>1, FS_EmptySet DEF TaskDoneBalanced
<1>2. IInv /\ TaskDoneBalanced /\ [Next]_vars => TaskDoneBalanced'
  <2> SUFFICES ASSUME IInv, TaskDoneBalanced, [Next]_vars PROVE TaskDoneBalanced'
    OBVIOUS
  <2>0. /\ Len(queue) \in Nat /\ Cardinality(Busy) \in Nat
        /\ queue \in Seq(Devices)
    BY TaskSets, LenProperties DEF IInv, Types
  <2>1. ASSUME NEW c \in Callers, Enqueue(c) PROVE TaskDoneBalanced'
    <3> DEFINE S == Accepted(request[c])
    <3>1. S \in SUBSET Devices
      <4>1. request[c] \in Requests
        BY <2>1 DEF Enqueue, IInv, Types
      <4>2. request[c].devices \in SUBSET Devices
        BY <4>1, BatchesAssumption DEF Requests
      <4> QED BY <4>2 DEF Accepted
    <3>2. IsFiniteSet(S) /\ Cardinality(S) \in Nat
      BY <3>1, DevicesAssumption, FS_Subset, FS_CardinalityType
    <3>3. PICK s \in Orders(S) : queue' = queue \o s /\ unfinished' = unfinished + Len(s)
      BY <2>1 DEF Enqueue
    <3>4. s \in Seq(Devices)
      BY <3>1, <3>2, <3>3 DEF Orders, Bijection, Injection
    <3>5. Len(queue') = Len(queue) + Len(s) /\ Len(s) \in Nat
      BY <2>0, <3>3, <3>4
    <3>6. Busy' = Busy
      BY <2>1, EnsurePreserves DEF Enqueue, IInv
    <3> QED BY <2>0, <3>3, <3>5, <3>6 DEF TaskDoneBalanced
  <2>2. CASE StartQueue
    <3>1. Busy' = Busy
      BY <2>2, EnsurePreserves DEF StartQueue, IInv
    <3> QED BY <2>2, <3>1 DEF StartQueue, TaskDoneBalanced
  <2>3. ASSUME NEW w \in Tasks, Take(w) PROVE TaskDoneBalanced'
    <3>1. Busy' = Busy \cup {w} /\ w \notin Busy
      BY <2>3 DEF Take, Busy, IInv, Types
    <3>2. Cardinality(Busy') = Cardinality(Busy) + 1
      BY <3>1, TaskSets, FS_AddElement
    <3>3. Len(queue') = Len(queue) - 1
      BY <2>0, <2>3, HeadTailProperties DEF Take
    <3>4. unfinished' = unfinished
      BY <2>3 DEF Take
    <3> QED BY <2>0, <3>2, <3>3, <3>4 DEF TaskDoneBalanced
  <2>4. ASSUME NEW w \in Tasks, Finish(w) PROVE TaskDoneBalanced'
    BY <2>4, ReleaseBalanced DEF Finish
  <2>5. ASSUME NEW w \in Tasks, Die(w) PROVE TaskDoneBalanced'
    BY <2>5, ReleaseBalanced DEF Die
  <2>6. ASSUME NEW w \in Tasks, EndCancelled(w) PROVE TaskDoneBalanced'
    <3>1. CASE Release(w, "done")
      BY <3>1, ReleaseBalanced
    <3>2. CASE task[w] = "idle" /\ task' = [task EXCEPT ![w] = "done"]
               /\ UNCHANGED <<queue, unfinished>>
      <4>1. Busy' = Busy
        BY <3>2 DEF Busy, IInv, Types
      <4> QED BY <3>2, <4>1 DEF TaskDoneBalanced
    <3> QED BY <2>6, <3>1, <3>2 DEF EndCancelled
  <2>7. CASE StopEnd
    <3>1. Busy = {} /\ Busy' = {}
      BY <2>7 DEF StopEnd, IInv, Types, WorkersListed, Live, Busy
    <3>2. Len(queue') = 0 /\ unfinished' = unfinished - Len(queue)
      BY <2>7 DEF StopEnd
    <3>3. Cardinality(Busy) = 0 /\ Cardinality(Busy') = 0
      BY <3>1, FS_EmptySet
    <3> QED BY <2>0, <3>2, <3>3 DEF TaskDoneBalanced
  <2>8. CASE UNCHANGED <<queue, unfinished, task>>
    BY <2>8 DEF TaskDoneBalanced, Busy
  <2> QED
    BY <2>1, <2>2, <2>3, <2>4, <2>5, <2>6, <2>7, <2>8
       DEF Next, vars, Call, StopBegin
<1> QED BY <1>1, <1>2, Inductive, PTL DEF Spec

\* Every variable keeps its type and task_done is never called too often.
THEOREM TypeCorrect == Spec => []TypeOK
<1>1. IInv /\ TaskDoneBalanced => TypeOK
  <2> SUFFICES ASSUME IInv, TaskDoneBalanced PROVE TypeOK
    OBVIOUS
  <2>1. Types
    BY DEF IInv
  <2>2. Len(queue) \in Nat /\ Cardinality(Busy) \in Nat
    BY TaskSets, LenProperties DEF IInv, Types
  <2>3. unfinished >= 0
    BY <2>2 DEF TaskDoneBalanced
  <2> QED BY <2>1, <2>3 DEF TypeOK
<1> QED BY <1>1, Inductive, TaskDoneExact, PTL

-----------------------------------------------------------------------------
(***************************************************************************)
(* Shutdown, and the abstract specification.                               *)
(***************************************************************************)
\* The instance of FiniteSets inside DeviceBackups counts as this module's does.
LEMMA SameCardinality == \A S : DB!Cardinality(S) = Cardinality(S)
<1> QED BY DEF DB!Cardinality, Cardinality

\* What each kind of step does to the waiting and the running devices.
LEMMA TakeEffect ==
    ASSUME IInv, NEW w \in Tasks, Take(w)
    PROVE  /\ Head(queue) \in Queued /\ Head(queue) \in Devices
           /\ Head(queue) \notin Running
           /\ Queued' = Queued \ {Head(queue)}
           /\ Running' = Running \cup {Head(queue)}
<1>1. /\ Head(queue) \in Devices /\ Head(queue) \in Queued
      /\ Range(Tail(queue)) = Queued \ {Head(queue)}
  BY TakeHead DEF Take, IInv, Types, OneBackupPerDevice, Queued
<1>2. Queued' = Queued \ {Head(queue)}
  BY <1>1 DEF Take, Queued
<1>3. Head(queue) \notin Running
  BY <1>1 DEF IInv, OneBackupPerDevice
<1>4. Busy' = Busy \cup {w} /\ w \notin Busy
  BY DEF Take, Busy, IInv, Types
<1>5. job'[w] = Head(queue) /\ \A v \in Busy : job'[v] = job[v]
  BY <1>4 DEF Take, IInv, Types, Busy
<1>6. Running' = Running \cup {Head(queue)}
  BY <1>4, <1>5 DEF Running
<1> QED BY <1>1, <1>2, <1>3, <1>6

\* A release takes exactly the worker's device out of the running ones.
LEMMA ReleaseEffect ==
    ASSUME IInv, NEW w \in Tasks, NEW next \in {"idle", "done"}, Release(w, next)
    PROVE  /\ job[w] \in Running /\ job[w] \in Devices
           /\ Running' = Running \ {job[w]}
           /\ Queued' = Queued
<1>1. w \in Busy /\ Busy' = Busy \ {w} /\ \A v \in Busy' : job'[v] = job[v]
  BY DEF Release, Busy, IInv, Types
<1>2. job[w] \in Devices
  BY DEF Release, IInv, TaskInv
<1>3. Running' = Running \ {job[w]}
  BY <1>1 DEF Running, IInv, OneBackupPerDevice
<1>4. Queued' = Queued
  BY DEF Release, Queued
<1> QED BY <1>1, <1>2, <1>3, <1>4 DEF Running

\* An enqueue adds exactly the accepted devices to the waiting ones.
LEMMA EnqueueEffect ==
    ASSUME IInv, NEW c \in Callers, Enqueue(c)
    PROVE  /\ Accepted(request[c]) \in SUBSET Devices
           /\ Accepted(request[c]) \cap (Queued \cup Running) = {}
           /\ Queued' = Queued \cup Accepted(request[c])
           /\ Running' = Running
<1> DEFINE S == Accepted(request[c])
<1>1. S \in SUBSET Devices /\ S \cap reserved = {}
  <2>1. request[c] \in Requests
    BY DEF Enqueue, IInv, Types
  <2>2. request[c].devices \in SUBSET Devices
    BY <2>1, BatchesAssumption DEF Requests
  <2> QED BY <2>2 DEF Accepted
<1>2. IsFiniteSet(S)
  BY <1>1, DevicesAssumption, FS_Subset
<1>3. S \cap (Queued \cup Running) = {}
  BY <1>1 DEF IInv, DedupeExact
<1>4. PICK s \in Orders(S) : queue' = queue \o s
  BY DEF Enqueue
<1>5. queue \in Seq(Devices) /\ \A i, j \in 1 .. Len(queue) : queue[i] = queue[j] => i = j
  BY DEF IInv, Types, OneBackupPerDevice
<1>6. S \cap Range(queue) = {}
  BY <1>3 DEF Queued
<1> HIDE DEF S
<1>7. Range(queue \o s) = Range(queue) \cup S
  BY <1>1, <1>2, <1>5, <1>6, PutBatch
<1>8. Queued' = Queued \cup S
  BY <1>4, <1>7 DEF Queued
<1>9. Running' = Running
  BY EnsurePreserves DEF Enqueue, IInv
<1> QED BY <1>1, <1>3, <1>8, <1>9 DEF S

\* Start-up touches neither set.
LEMMA StartQueueEffect ==
    ASSUME IInv, StartQueue
    PROVE  Queued' = Queued /\ Running' = Running
<1>1. Running' = Running
  BY EnsurePreserves DEF StartQueue, IInv
<1> QED BY <1>1 DEF StartQueue, Queued

\* After the gather nothing runs, before and after the clean-up.
LEMMA StopEndEffect ==
    ASSUME IInv, StopEnd
    PROVE  Running = {} /\ Running' = {} /\ Queued' = {}
<1>1. Busy = {}
  BY DEF StopEnd, IInv, WorkersListed, Live, Busy
<1>2. Busy' = {}
  BY <1>1 DEF StopEnd, Busy, IInv, Types
<1>3. Queued' = {}
  BY DEF StopEnd, Queued, Range
<1> QED BY <1>1, <1>2, <1>3 DEF Running

\* All other steps leave both sets alone.
LEMMA QuietSteps ==
    ASSUME IInv, UNCHANGED <<queue, job>>, Busy' = Busy
    PROVE  Queued' = Queued /\ Running' = Running
<1> QED BY DEF Queued, Running

\* A cancelled worker releases its device or was waiting.
LEMMA EndCancelledEffect ==
    ASSUME IInv, NEW w \in Tasks, EndCancelled(w)
    PROVE  \/ Release(w, "done")
           \/ Queued' = Queued /\ Running' = Running
<1> SUFFICES ASSUME ~Release(w, "done") PROVE Queued' = Queued /\ Running' = Running
  OBVIOUS
<1>1. /\ task[w] = "idle" /\ task' = [task EXCEPT ![w] = "done"]
      /\ UNCHANGED <<queue, job>>
  BY DEF EndCancelled
<1>2. Busy' = Busy
  BY <1>1 DEF Busy, IInv, Types
<1> QED BY <1>1, <1>2, QuietSteps

\* While shutdown gathers the workers, no backup starts and nothing is queued.
THEOREM NothingStartsInShutdown == Spec => ShutdownStartsNothing
<1> DEFINE Quiet == stopping => Running' \subseteq Running /\ Queued' \subseteq Queued
<1>1. IInv /\ [Next]_vars => [Quiet]_vars
  <2> SUFFICES ASSUME IInv, Next, stopping
               PROVE  Running' \subseteq Running /\ Queued' \subseteq Queued
    BY DEF vars
  <2>1. ASSUME NEW c \in Callers, NEW r \in Requests, Call(c, r)
        PROVE  Running' \subseteq Running /\ Queued' \subseteq Queued
    BY <2>1 DEF Call, Running, Queued, Busy
  <2>2. ASSUME NEW c \in Callers, Enqueue(c) PROVE FALSE
    BY <2>2 DEF Enqueue
  <2>3. CASE StartQueue
    BY <2>3 DEF StartQueue
  <2>4. ASSUME NEW w \in Tasks, Take(w) PROVE FALSE
    <3>1. w \in listed
      BY <2>4 DEF Take, Live, IInv, WorkersListed
    <3> QED BY <2>4, <3>1 DEF Take, IInv, TaskInv
  <2>5. ASSUME NEW w \in Tasks, Finish(w) \/ Die(w) \/ EndCancelled(w)
        PROVE  Running' \subseteq Running /\ Queued' \subseteq Queued
    BY <2>5, ReleaseEffect, EndCancelledEffect DEF Finish, Die
  <2>6. CASE StopBegin
    BY <2>6 DEF StopBegin
  <2>7. CASE StopEnd
    BY <2>7, StopEndEffect
  <2> QED BY <2>1, <2>2, <2>3, <2>4, <2>5, <2>6, <2>7 DEF Next
<1> QED BY <1>1, Inductive, PTL DEF Spec, ShutdownStartsNothing

\* No more devices run than workers are busy.
LEMMA RunningBound ==
    ASSUME IInv
    PROVE  IsFiniteSet(Running) /\ Cardinality(Running) <= Cardinality(Busy)
           /\ Cardinality(Running) \in Nat
<1> DEFINE f == [w \in Busy |-> job[w]]
<1>1. f \in Surjection(Busy, Running)
  BY DEF Surjection, Running
<1>2. IsFiniteSet(Running) /\ Cardinality(Running) <= Cardinality(Busy)
  BY <1>1, TaskSets, FS_Surjection
<1> QED BY <1>2, FS_CardinalityType

\* A step of the queue is a step of DeviceBackups or leaves its state alone:
\* the queue promises what DeviceBackups states.
THEOREM Refinement == Spec => ImplementsDeviceBackups
<1> DEFINE phase == [d \in Devices |-> IF d \in Running THEN "running"
                                      ELSE IF d \in Queued THEN "queued"
                                      ELSE "idle"]
<1>1. Init => DB!Init
  <2> SUFFICES ASSUME Init PROVE DB!Init
    OBVIOUS
  <2>1. Queued = {} /\ Running = {}
    BY DEF Init, Queued, Running, Busy, Range
  <2> QED BY <2>1 DEF DB!Init
<1>2. IInv /\ ListBound /\ [Next]_vars => [DB!Next]_phase
  <2> SUFFICES ASSUME IInv, ListBound, [Next]_vars PROVE [DB!Next]_phase
    OBVIOUS
  <2>0. Running \cap Queued = {}
    BY DEF IInv, OneBackupPerDevice
  <2>1. ASSUME NEW c \in Callers, Enqueue(c) PROVE [DB!Next]_phase
    <3>1. PICK S \in SUBSET Devices : S = Accepted(request[c])
      BY <2>1, EnqueueEffect
    <3>2. /\ S \cap (Queued \cup Running) = {}
          /\ Queued' = Queued \cup S /\ Running' = Running
      BY <2>1, <3>1, EnqueueEffect
    <3>3. CASE S = {}
      BY <3>2, <3>3
    <3>4. CASE S # {}
      <4>1. DB!Accept(S)
        BY <3>2, <3>4 DEF DB!Accept, DB!In
      <4> QED BY <4>1 DEF DB!Next
    <3> QED BY <3>3, <3>4
  <2>2. ASSUME NEW w \in Tasks, Take(w) PROVE [DB!Next]_phase
    <3>1. PICK d \in Devices : d = Head(queue)
      BY <2>2, TakeEffect
    <3>2. /\ d \in Queued /\ d \notin Running
          /\ Queued' = Queued \ {d} /\ Running' = Running \cup {d}
      BY <2>2, <3>1, TakeEffect
    <3>3. DB!In("running") = Running
      BY DEF DB!In, Running, Busy, IInv, TaskInv
    <3>4. DB!Cardinality(Running) < Threads
      <4>1. w \in Live \ Busy /\ Busy \cup {w} \subseteq Live
        BY <2>2 DEF Take, Live, Busy
      <4>2. Cardinality(Busy \cup {w}) = Cardinality(Busy) + 1
        BY <4>1, TaskSets, FS_AddElement
      <4>3. Cardinality(Busy \cup {w}) <= Cardinality(Live)
        BY <4>1, TaskSets, FS_Subset
      <4>4. Cardinality(Running) < Threads
        BY <4>2, <4>3, TaskSets, RunningBound, ThreadsAssumption DEF ListBound
      <4> QED BY <4>4, SameCardinality
    <3>5. DB!Start(d)
      <4>1. phase[d] = "queued"
        BY <3>2
      <4>2. phase' = [phase EXCEPT ![d] = "running"]
        BY <3>2
      <4> QED BY <4>1, <4>2, <3>3, <3>4 DEF DB!Start
    <3> QED BY <3>5 DEF DB!Next
  <2>3. ASSUME NEW w \in Tasks, NEW next \in {"idle", "done"}, Release(w, next)
        PROVE  [DB!Next]_phase
    <3>1. PICK d \in Devices : d = job[w]
      BY <2>3, ReleaseEffect
    <3>2. d \in Running /\ Running' = Running \ {d} /\ Queued' = Queued
      BY <2>3, <3>1, ReleaseEffect
    <3>3. DB!Release(d)
      BY <2>0, <3>2 DEF DB!Release
    <3> QED BY <3>3 DEF DB!Next
  <2>4. ASSUME NEW w \in Tasks, EndCancelled(w) PROVE [DB!Next]_phase
    BY <2>4, <2>3, EndCancelledEffect
  <2>5. CASE StopEnd
    <3>1. Running = {} /\ Running' = {} /\ Queued' = {}
      BY <2>5, StopEndEffect
    <3>2. CASE Queued \cap Devices = {}
      BY <3>1, <3>2
    <3>3. CASE Queued \cap Devices # {}
      <4>1. DB!Discard
        BY <3>1, <3>3 DEF DB!Discard, DB!In
      <4> QED BY <4>1 DEF DB!Next
    <3> QED BY <3>2, <3>3
  <2>6. CASE StartQueue
    BY <2>6, StartQueueEffect
  <2>7. CASE StopBegin
    BY <2>7 DEF StopBegin, Running, Queued, Busy
  <2>8. ASSUME NEW c \in Callers, NEW r \in Requests, Call(c, r) PROVE [DB!Next]_phase
    BY <2>8 DEF Call, Running, Queued, Busy
  <2>9. CASE UNCHANGED vars
    BY <2>9 DEF vars, Running, Queued, Busy
  <2> QED
    BY <2>1, <2>2, <2>3, <2>4, <2>5, <2>6, <2>7, <2>8, <2>9 DEF Next, Finish, Die
<1> QED BY <1>1, <1>2, Inductive, ListBounded, PTL DEF Spec, DB!Spec, ImplementsDeviceBackups
=============================================================================
