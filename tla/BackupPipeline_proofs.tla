------------------------ MODULE BackupPipeline_proofs ------------------------
(***************************************************************************)
(* Proofs about BackupPipeline, for any devices, rows, limits, triggers and *)
(* faults.                                                                 *)
(*                                                                         *)
(* The table changes in four ways: a row is inserted, a row is updated,    *)
(* rows are deleted, and start-up marks what is stuck.  The first lemmas   *)
(* say what each of them does to the rows and to their order; the          *)
(* invariant then has a part per question: who owns a row (JobInv), what a *)
(* capture is compared with (CaptureInv), what the history says of a device *)
(* that was reported (HistoryInv) and of one that fails (FailureInv).      *)
(***************************************************************************)
EXTENDS BackupPipeline, FiniteSetTheorems, WellFoundedInduction, TLAPS

Early == {"idle", "previous", "create"}
Active == {"fetch", "validate", "save", "record"}
Good == {"success", "no_changes"}

\* Timestamps are ordered.
OrderInv ==
    /\ \A i \in Ids : <<i, i>> \notin older
    /\ \A i, j, k \in Ids : <<i, j>> \in older /\ <<j, k>> \in older => <<i, k>> \in older

\* A row in use has one owner, and the process that is down owns none.
JobInv ==
    /\ \A d \in Devices : run[d].pc \in Early => run[d].job = NoJob
    /\ \A d, e \in Devices : d # e /\ run[d].job = run[e].job => run[d].job = NoJob
    /\ app = "down" => \A d \in Devices : run[d].pc = "idle"

\* While nothing fails in the database, the row follows its backup to the end.
DoneInv ==
    "db" \notin setting.faults =>
        \A d \in Devices : run[d].pc = "notify" =>
            \A i \in OwnRow(d) : rows[i].device = d /\ rows[i].status = run[d].outcome

\* The backup is about to record a configuration.
Saves(d) == run[d].pc = "save" \/ (run[d].pc = "record" /\ run[d].outcome # "failed")

\* The row is the last of its device that has a configuration, or the last before
\* another one.
Newest(i, d) ==
    /\ i \in Ids /\ rows[i].device = d /\ rows[i].config # NoCapture
    /\ \A k \in Ids : rows[k].device = d /\ rows[k].config # NoCapture => <<i, k>> \notin older
Before(i, j) ==
    /\ <<i, j>> \in older /\ i \in Ids /\ j \in Ids /\ rows[i].device = rows[j].device
    /\ rows[i].config # NoCapture /\ rows[j].config # NoCapture
    /\ \A k \in Ids : rows[k].device = rows[j].device /\ rows[k].config # NoCapture
                      => ~(<<i, k>> \in older /\ <<k, j>> \in older)

\* Only good rows have a configuration; what is on its way to the table is not
\* suspicious after the last one there.
CaptureInv ==
    /\ \A i \in Ids : rows[i].config # NoCapture => rows[i].status \in Good
    /\ \A d \in Devices : Saves(d) => run[d].capture # Invalid
    /\ "size" \notin setting.faults =>
        \A d \in Devices : Saves(d) =>
            \A i \in Ids : Newest(i, d) => ~TooSmall(rows[i].config, run[d].capture)

\* Only rows that start-up marked share a timestamp: of any others one is younger.
TieInv ==
    \A i, j \in Ids : \/ i = j
                      \/ <<i, j>> \in older
                      \/ <<j, i>> \in older
                      \/ rows[i].status = "failed" /\ rows[j].status = "failed"

\* The history of the device ends with a failure.
EndsFailed(d) ==
    /\ Completed(d) # {}
    /\ \A i \in Youngest(Completed(d)) : rows[i].status = "failed"

\* A device that was reported has a history that ends with a failure, and a backup
\* that has read it knows.
History(d) ==
    /\ run[d].pc \in Active => run[d].job \in Ids
    /\ told[d] > 0 => EndsFailed(d)
    /\ run[d].pc = "notify" /\ run[d].outcome = "failed" => EndsFailed(d)
    /\ told[d] > 0 /\ run[d].pc \notin {"idle", "previous"} => run[d].previous = "failed"

HistoryInv == HistoryKept => \A d \in Devices : History(d)

\* Nothing interrupts backups, no mail is lost and the database works.
Undisturbed == setting.faults \cap {"db", "cancel", "crash", "smtp"} = {}

\* What is left of a device's history ends with its last outcome: a running backup
\* is younger than all of it, so deletion by age takes the history first.
Reported(d) ==
    /\ \A i \in Youngest(Completed(d)) : rows[i].status = last[d]
    /\ run[d].pc \in Active => \A i \in Completed(d) : <<i, run[d].job>> \in older
    /\ run[d].pc \in Active \cup {"create"} => run[d].previous \in {NoStatus, last[d]}
    /\ run[d].pc = "notify" => last[d] = run[d].outcome
    /\ run[d].pc = "notify" /\ last[d] = "failed" /\ run[d].previous = "failed"
       => told[d] > 0
    /\ last[d] = "failed" /\ run[d].pc # "notify" => told[d] > 0

FailureInv == Undisturbed => app = "up" /\ \A d \in Devices : Reported(d)

IInv ==
    /\ TypeOK
    /\ OrderInv
    /\ JobInv
    /\ RowFollowsRun
    /\ InProgressIsRunning
    /\ DoneInv
    /\ CaptureInv
    /\ NoSuspiciousCapture
    /\ TieInv
    /\ HistoryInv
    /\ FailureInv

-----------------------------------------------------------------------------
(***************************************************************************)
(* The order of the table.                                                 *)
(***************************************************************************)
\* A finite set that is ordered has a greatest element.
LEMMA GreatestExists ==
    ASSUME NEW S, IsFiniteSet(S), S # {}, NEW O,
           \A i \in S : <<i, i>> \notin O,
           \A i, j, k \in S : <<i, j>> \in O /\ <<j, k>> \in O => <<i, k>> \in O
    PROVE  \E m \in S : \A j \in S : <<m, j>> \notin O
<1> DEFINE Bad == {T \in FiniteSubsetsOf(S) : T # {} /\ \A m \in T : \E j \in T : <<m, j>> \in O}
<1>1. SUFFICES ASSUME \A m \in S : \E j \in S : <<m, j>> \in O PROVE FALSE
  OBVIOUS
<1>2. S \in Bad
  BY <1>1 DEF FiniteSubsetsOf
<1>3. PICK T \in Bad : \A U \in Bad : <<U, T>> \notin StrictSubsetOrdering(S)
  <2>1. Bad \subseteq FiniteSubsetsOf(S)
    OBVIOUS
  <2> HIDE DEF Bad
  <2> QED BY <1>2, <2>1, FS_StrictSubsetOrderingWellFounded, WFMin
<1>4. T \in FiniteSubsetsOf(S) /\ T # {} /\ \A m \in T : \E j \in T : <<m, j>> \in O
  BY <1>3
<1>5. PICK x : x \in T
  BY <1>4
<1>6. T \subseteq S /\ IsFiniteSet(T)
  BY <1>4 DEF FiniteSubsetsOf
<1>7. IsFiniteSet(T \ {x})
  BY <1>6, FS_RemoveElement
<1>8. T \ {x} \notin Bad
  <2>1. <<T \ {x}, T>> \in StrictSubsetOrdering(S)
    BY <1>5, <1>6 DEF StrictSubsetOrdering
  <2> QED BY <1>3, <2>1
<1>9. T \ {x} # {}
  BY <1>4, <1>5, <1>6
<1>10. PICK m \in T \ {x} : \A j \in T \ {x} : <<m, j>> \notin O
  BY <1>6, <1>7, <1>8, <1>9 DEF FiniteSubsetsOf
<1>11. <<m, x>> \in O
  BY <1>4, <1>10
<1>12. PICK k \in T : <<x, k>> \in O
  BY <1>4, <1>5
<1>13. k # x
  BY <1>5, <1>6, <1>12
<1>14. <<m, k>> \in O
  BY <1>5, <1>6, <1>10, <1>11, <1>12
<1> QED BY <1>10, <1>12, <1>13, <1>14

\* Some row of a nonempty set is the youngest: a query with LIMIT 1 finds one.
LEMMA YoungestExists ==
    ASSUME TypeOK, OrderInv, NEW S \in SUBSET Ids, S # {}
    PROVE  Youngest(S) # {}
<1>1. IsFiniteSet(S)
  <2>1. IsFiniteSet(JobIds) /\ S \in SUBSET JobIds
    BY JobIdsAssumption DEF TypeOK, Ids
  <2> QED BY <2>1, FS_Subset
<1>2. /\ \A i \in S : <<i, i>> \notin older
      /\ \A i, j, k \in S : <<i, j>> \in older /\ <<j, k>> \in older => <<i, k>> \in older
  BY DEF OrderInv
<1>3. \E m \in S : \A j \in S : <<m, j>> \notin older
  BY <1>1, <1>2, GreatestExists
<1> QED BY <1>3 DEF Youngest

\* The queries for the previous status and configuration have an answer in every state, so no
\* backup of the model waits for one.
LEMMA QueriesAnswer ==
    ASSUME TypeOK, OrderInv, NEW d \in Devices
    PROVE  PreviousStatus(d) # {} /\ PreviousConfig(d) # {}
<1>1. Completed(d) \in SUBSET Ids /\ Sized(d) \in SUBSET Ids
  BY DEF Completed, Sized
<1>2. Completed(d) # {} => Youngest(Completed(d)) # {}
  BY <1>1, YoungestExists
<1>3. Sized(d) # {} => Youngest(Sized(d)) # {}
  BY <1>1, YoungestExists
<1> QED BY <1>2, <1>3 DEF PreviousStatus, PreviousConfig

\* A statement keeps the timestamps ordered.
LEMMA AgedIsOrder ==
    ASSUME OrderInv, older \subseteq Ids \X Ids, NEW S, NEW T, T = Ids \cup S
    PROVE  /\ Aged(S) \subseteq T \X T
           /\ \A i \in T : <<i, i>> \notin Aged(S)
           /\ \A i, j, k \in T : <<i, j>> \in Aged(S) /\ <<j, k>> \in Aged(S)
                                 => <<i, k>> \in Aged(S)
<1>1. \A i, j : <<i, j>> \in Aged(S) <=>
          ((<<i, j>> \in older /\ i \notin S /\ j \notin S) \/ (i \in Ids \ S /\ j \in S))
  BY DEF Aged
<1>2. Aged(S) \subseteq T \X T
  BY DEF Aged
<1>3. \A i \in T : <<i, i>> \notin Aged(S)
  BY <1>1 DEF OrderInv
<1>4. ASSUME NEW i, NEW j, NEW k, <<i, j>> \in Aged(S), <<j, k>> \in Aged(S)
      PROVE  <<i, k>> \in Aged(S)
  BY <1>1, <1>4 DEF OrderInv
<1> QED BY <1>2, <1>3, <1>4

-----------------------------------------------------------------------------
(***************************************************************************)
(* The four changes of the table.                                          *)
(***************************************************************************)
NewRow(d) == [device |-> d, status |-> "in_progress", config |-> NoCapture]
Insert(d, id) == /\ rows' = Written({id}, [i \in {id} |-> NewRow(d)])
                 /\ older' = Aged({id})

\* A new row is the youngest, and nobody's.
LEMMA Inserted ==
    ASSUME TypeOK, NEW d \in Devices, NEW id \in FreeIds, Insert(d, id)
    PROVE  /\ id \in JobIds /\ id \notin Ids /\ id # NoJob
           /\ \A e \in Devices : run[e].job # id
           /\ Ids' = Ids \cup {id} /\ rows' = [i \in Ids' |-> rows'[i]]
           /\ rows'[id] = NewRow(d)
           /\ \A i \in Ids : rows'[i] = rows[i]
           /\ \A i, j : <<i, j>> \in older' <=> (<<i, j>> \in older \/ (i \in Ids /\ j = id))
<1>1. id \in JobIds /\ id \notin Ids /\ \A e \in Devices : run[e].job # id
  BY DEF FreeIds
<1>2. rows' = [i \in Ids \cup {id} |-> IF i \in {id} THEN NewRow(d) ELSE rows[i]]
  BY DEF Insert, Written
<1>3. \A i, j : <<i, j>> \in older => i \in Ids /\ j \in Ids
  BY DEF TypeOK, Ids
<1>4. \A i, j : <<i, j>> \in older' <=> (<<i, j>> \in older \/ (i \in Ids /\ j = id))
  BY <1>1, <1>3 DEF Insert, Aged
<1> QED BY <1>1, <1>2, <1>4, JobIdsAssumption DEF Ids

FinalRow(d) ==
    [device |-> rows[run[d].job].device, status |-> run[d].outcome,
     config |-> IF run[d].outcome = "failed" THEN NoCapture ELSE run[d].capture]

\* An update touches the run's row, if there is one, and makes it the youngest.
LEMMA Updated ==
    ASSUME TypeOK, NEW d \in Devices, Update(d)
    PROVE  /\ Ids' = Ids /\ rows' = [i \in Ids' |-> rows'[i]]
           /\ \A i \in Ids : i # run[d].job => rows'[i] = rows[i]
           /\ run[d].job \in Ids => rows'[run[d].job] = FinalRow(d)
           /\ \A i, j : <<i, j>> \in older' <=>
                  \/ <<i, j>> \in older /\ i # run[d].job /\ j # run[d].job
                  \/ i \in Ids /\ i # run[d].job /\ j = run[d].job /\ j \in Ids
<1> DEFINE final == [i \in OwnRow(d) |->
                        [rows[i] EXCEPT
                            !.status = run[d].outcome,
                            !.config = IF run[d].outcome = "failed" THEN NoCapture
                                       ELSE run[d].capture]]
<1>1. rows' = Written(OwnRow(d), final) /\ older' = Aged(OwnRow(d))
  BY DEF Update
<1>2. rows' = [i \in Ids \cup OwnRow(d) |-> IF i \in OwnRow(d) THEN final[i] ELSE rows[i]]
  BY <1>1 DEF Written
<1>3. OwnRow(d) \subseteq Ids /\ \A i : i \in OwnRow(d) <=> i = run[d].job /\ i \in Ids
  BY DEF OwnRow
<1>4. \A i, j : <<i, j>> \in older => i \in Ids /\ j \in Ids
  BY DEF TypeOK, Ids
<1>5. \A i, j : <<i, j>> \in Aged(OwnRow(d)) <=>
          ((<<i, j>> \in older /\ i \notin OwnRow(d) /\ j \notin OwnRow(d))
           \/ (i \in Ids \ OwnRow(d) /\ j \in OwnRow(d)))
  BY DEF Aged
<1>6. Ids' = Ids /\ rows' = [i \in Ids' |-> rows'[i]]
  BY <1>2, <1>3 DEF Ids
<1>7. \A i \in Ids : i # run[d].job => rows'[i] = rows[i]
  BY <1>2, <1>3
<1>8. ASSUME run[d].job \in Ids PROVE rows'[run[d].job] = FinalRow(d)
  <2>1. rows'[run[d].job] = final[run[d].job]
    BY <1>2, <1>3, <1>8
  <2>2. rows[run[d].job] \in Row
    BY <1>8 DEF TypeOK, Ids
  <2> QED BY <1>3, <1>8, <2>1, <2>2 DEF FinalRow, Row
<1>9. \A i, j : <<i, j>> \in older' <=>
          \/ <<i, j>> \in older /\ i # run[d].job /\ j # run[d].job
          \/ i \in Ids /\ i # run[d].job /\ j = run[d].job /\ j \in Ids
  BY <1>1, <1>3, <1>4, <1>5
<1> QED BY <1>6, <1>7, <1>8, <1>9

\* What is kept is unchanged, and in the same order.
LEMMA Kept ==
    ASSUME NEW keep \in SUBSET Ids, Keep(keep, rows, older)
    PROVE  /\ Ids' = keep /\ rows' = [i \in Ids' |-> rows'[i]]
           /\ \A i \in keep : rows'[i] = rows[i]
           /\ \A i, j : <<i, j>> \in older' <=> <<i, j>> \in older /\ i \in keep /\ j \in keep
BY DEF Keep, Ids

FailedRow(i) == [device |-> rows[i].device, status |-> "failed", config |-> rows[i].config]

\* Start-up marks the rows in S and keeps some of the rows.
LEMMA Restarted ==
    ASSUME TypeOK, NEW S \in SUBSET Ids, NEW keep \in SUBSET Ids, Keep(keep, Marked(S), Aged(S))
    PROVE  /\ Ids' = keep /\ rows' = [i \in Ids' |-> rows'[i]]
           /\ \A i \in keep : rows'[i] = IF i \in S THEN FailedRow(i) ELSE rows[i]
           /\ \A i, j : <<i, j>> \in older' <=> <<i, j>> \in Aged(S) /\ i \in keep /\ j \in keep
<1>1. Ids' = keep /\ rows' = [i \in Ids' |-> rows'[i]]
      /\ \A i \in keep : rows'[i] = Marked(S)[i]
  BY DEF Keep, Ids
<1>2. ASSUME NEW i \in Ids PROVE Marked(S)[i] = IF i \in S THEN FailedRow(i) ELSE rows[i]
  <2>1. rows[i] \in Row
    BY <1>2 DEF TypeOK, Ids
  <2>2. [rows[i] EXCEPT !.status = "failed"] = FailedRow(i)
    BY <2>1 DEF Row, FailedRow
  <2>3. Marked(S)[i] = IF i \in S THEN [rows[i] EXCEPT !.status = "failed"] ELSE rows[i]
    BY <1>2 DEF Marked, Written
  <2> QED BY <2>2, <2>3
<1> QED BY <1>1, <1>2 DEF Keep

-----------------------------------------------------------------------------
(***************************************************************************)
(* The steps of a backup.                                                  *)
(***************************************************************************)
Others(d) == \A e \in Devices : e # d => run'[e] = run[e]

\* Going on changes the point only.
LEMMA Gone ==
    ASSUME TypeOK, NEW d \in Devices, NEW p \in Points, Goto(d, p)
    PROVE  /\ run' \in [Devices -> Run] /\ Others(d)
           /\ run'[d].pc = p
           /\ run'[d].previous = run[d].previous /\ run'[d].job = run[d].job
           /\ run'[d].capture = run[d].capture /\ run'[d].outcome = run[d].outcome
BY DEF TypeOK, Goto, Others, Run

\* Concluding changes the outcome, and forgets a capture that failed.
LEMMA Concluded ==
    ASSUME TypeOK, NEW d \in Devices, NEW o \in Outcomes, Conclude(d, o)
    PROVE  /\ run' \in [Devices -> Run] /\ Others(d)
           /\ run'[d].pc = "record" /\ run'[d].outcome = o
           /\ run'[d].previous = run[d].previous /\ run'[d].job = run[d].job
           /\ o # "failed" => run'[d].capture = run[d].capture
<1>1. run[d] \in Run /\ run \in [Devices -> Run]
  BY DEF TypeOK
<1>2. PICK c \in Captures \cup {Invalid, NoCapture} :
          c = IF o = "failed" THEN NoCapture ELSE run[d].capture
  BY <1>1 DEF Run
<1> DEFINE new == [run[d] EXCEPT !.pc = "record", !.outcome = o, !.attempt = 0,
                                 !.capture = c]
<1>3. new \in Run
  <2>1. 0 \in 0 .. 1 /\ "record" \in Points
    BY DEF Points
  <2> QED BY <1>1, <2>1 DEF Run
<1>4. run' = [run EXCEPT ![d] = new]
  BY <1>1, <1>2 DEF Conclude, Run
<1>5. /\ new.pc = "record" /\ new.outcome = o
      /\ new.previous = run[d].previous /\ new.job = run[d].job
      /\ o # "failed" => new.capture = run[d].capture
  BY <1>1, <1>2 DEF Run
<1> QED BY <1>1, <1>3, <1>4, <1>5 DEF Others

LEMMA Ended ==
    ASSUME TypeOK, NEW d \in Devices, End(d)
    PROVE  run' \in [Devices -> Run] /\ Others(d) /\ run'[d] = IdleRun
<1>1. IdleRun \in Run
  BY DEF IdleRun, Run, Points, Outcomes
<1> QED BY <1>1 DEF TypeOK, End, Others

LEMMA IdleIs ==
    /\ IdleRun \in Run /\ IdleRun.pc = "idle" /\ IdleRun.job = NoJob
BY DEF IdleRun, Run, Points, Outcomes

\* A step that leaves the table alone: where it begins, where it ends, and what of
\* the run it changes.
Quiet(d) ==
    /\ run' \in [Devices -> Run] /\ Others(d)
    /\ UNCHANGED <<setting, app, trigger, table, last>> /\ app # "down"
    /\ run'[d].pc # "idle" => run'[d].job = run[d].job

\* The bookkeeping of a backup's quiet steps.
LEMMA QuietSteps ==
    ASSUME TypeOK, NEW d \in Devices
    PROVE  /\ Begin(d) => Quiet(d) /\ run[d].pc = "idle" /\ run'[d].pc = "previous"
                          /\ UNCHANGED told
           /\ ReadPrevious(d) => Quiet(d) /\ run[d].pc = "previous" /\ run'[d].pc = "create"
                                 /\ UNCHANGED told
                                 /\ \/ run'[d].previous \in PreviousStatus(d)
                                    \/ "db" \in setting.faults
           /\ Fetch(d) => Quiet(d) /\ run[d].pc = "fetch" /\ UNCHANGED told
                          /\ run'[d].previous = run[d].previous
                          /\ \/ run'[d].pc = "validate"
                             \/ run'[d].pc = "record" /\ run'[d].outcome = "failed"
           /\ Validate(d) => Quiet(d) /\ run[d].pc = "validate" /\ UNCHANGED told
                             /\ run'[d].previous = run[d].previous
                             /\ \/ run'[d].pc = "fetch"
                                \/ run'[d].pc = "record" /\ run'[d].outcome = "failed"
                                \/ /\ run'[d].pc = "save" /\ run'[d].capture = run[d].capture
                                   /\ run[d].capture # Invalid
                                   /\ \E known \in KnownConfigs(d) :
                                          ~TooSmall(known, run[d].capture)
           /\ SaveConfig(d) => Quiet(d) /\ run[d].pc = "save" /\ run'[d].pc = "record"
                               /\ UNCHANGED told /\ run'[d].previous = run[d].previous
                               /\ \/ run'[d].outcome = "failed"
                                  \/ run'[d].capture = run[d].capture
           /\ Notify(d) => Quiet(d) /\ run[d].pc = "notify" /\ run'[d].pc = "idle"
                           /\ run'[d] = IdleRun
           /\ Cancel(d) => Quiet(d) /\ run'[d].pc = "idle" /\ app = "stopping"
                           /\ UNCHANGED told /\ run'[d] = IdleRun
                           /\ run[d].pc # "idle"
<1> USE DEF Quiet
<1>1. Begin(d) => Quiet(d) /\ run[d].pc = "idle" /\ run'[d].pc = "previous" /\ UNCHANGED told
  BY Gone DEF Begin, Working, Points
<1>2. ASSUME ReadPrevious(d)
      PROVE  Quiet(d) /\ run[d].pc = "previous" /\ run'[d].pc = "create" /\ UNCHANGED told
             /\ \/ run'[d].previous \in PreviousStatus(d)
                \/ "db" \in setting.faults
  <2>1. PICK p \in PreviousStatus(d) \cup (IF "db" \in setting.faults THEN {NoStatus} ELSE {}) :
            run' = [run EXCEPT ![d].pc = "create", ![d].previous = p]
    BY <1>2 DEF ReadPrevious
  <2>2. p \in Outcomes \cup {NoStatus}
    <3>1. \A i \in Completed(d) : rows[i].status \in Outcomes
      BY DEF Completed
    <3> QED BY <2>1, <3>1 DEF PreviousStatus, Youngest
  <2>3. run' \in [Devices -> Run] /\ Others(d) /\ run'[d].pc = "create"
        /\ run'[d].previous = p /\ run'[d].job = run[d].job
    <3>1. PICK r : r = [run[d] EXCEPT !.pc = "create", !.previous = p]
      OBVIOUS
    <3>2. r \in Run /\ r.pc = "create" /\ r.previous = p /\ r.job = run[d].job
      <4>1. run[d] \in Run /\ "create" \in Points
        BY DEF TypeOK, Points
      <4> QED BY <2>2, <3>1, <4>1 DEF Run
    <3>3. run' = [run EXCEPT ![d] = r]
      BY <2>1, <3>1
    <3> QED BY <3>2, <3>3 DEF TypeOK, Others
  <2>4. p \in PreviousStatus(d) \/ "db" \in setting.faults
    BY <2>1
  <2> QED BY <1>2, <2>3, <2>4 DEF ReadPrevious, Working
<1>3. ASSUME Fetch(d)
      PROVE  Quiet(d) /\ run[d].pc = "fetch" /\ UNCHANGED told
             /\ run'[d].previous = run[d].previous
             /\ \/ run'[d].pc = "validate"
                \/ run'[d].pc = "record" /\ run'[d].outcome = "failed"
  <2>1. app = "up" /\ run[d].pc = "fetch" /\ UNCHANGED <<setting, app, trigger, table, last, told>>
    BY <1>3 DEF Fetch, Working
  <2>2. CASE Conclude(d, "failed")
    BY <2>1, <2>2, Concluded DEF Outcomes
  <2>0. setting.captures \subseteq Captures
    BY SettingsAssumption DEF TypeOK, Setting
  <2>3. ASSUME NEW c \in setting.captures \cup {Invalid},
               run' = [run EXCEPT ![d].pc = "validate", ![d].capture = c]
        PROVE  run' \in [Devices -> Run] /\ Others(d) /\ run'[d].pc = "validate"
               /\ run'[d].previous = run[d].previous /\ run'[d].job = run[d].job
    <3>1. PICK r : r = [run[d] EXCEPT !.pc = "validate", !.capture = c]
      OBVIOUS
    <3>2. r \in Run /\ r.pc = "validate" /\ r.previous = run[d].previous /\ r.job = run[d].job
      <4>1. run[d] \in Run
        BY DEF TypeOK
      <4>2. c \in Captures \cup {Invalid, NoCapture} /\ "validate" \in Points
        BY <2>0 DEF Points
      <4> HIDE DEF Points
      <4> QED BY <3>1, <4>1, <4>2 DEF Run
    <3>3. run' = [run EXCEPT ![d] = r]
      BY <2>3, <3>1
    <3> QED BY <3>2, <3>3 DEF TypeOK, Others
  <2> QED BY <1>3, <2>1, <2>2, <2>3 DEF Fetch
<1>4. ASSUME Validate(d)
      PROVE  Quiet(d) /\ run[d].pc = "validate" /\ UNCHANGED told
             /\ run'[d].previous = run[d].previous
             /\ \/ run'[d].pc = "fetch"
                \/ run'[d].pc = "record" /\ run'[d].outcome = "failed"
                \/ /\ run'[d].pc = "save" /\ run'[d].capture = run[d].capture
                   /\ run[d].capture # Invalid
                   /\ \E known \in KnownConfigs(d) : ~TooSmall(known, run[d].capture)
  <2>1. app = "up" /\ run[d].pc = "validate" /\ UNCHANGED <<setting, app, trigger, table, last, told>>
    BY <1>4 DEF Validate, Working
  <2>2. PICK known \in KnownConfigs(d) :
            \/ Conclude(d, "failed")
            \/ run' = [run EXCEPT ![d].pc = "fetch", ![d].attempt = 1]
            \/ /\ Goto(d, "save") /\ run[d].capture # Invalid
               /\ ~TooSmall(known, run[d].capture)
    <3>1. run[d].attempt \in {0, 1}
      BY DEF TypeOK, Run
    <3> QED BY <1>4, <3>1 DEF Validate, Rejected
  <2>3. CASE Conclude(d, "failed")
    BY <2>1, <2>3, Concluded DEF Outcomes
  <2>4. CASE run' = [run EXCEPT ![d].pc = "fetch", ![d].attempt = 1]
    <3>1. run' \in [Devices -> Run] /\ Others(d) /\ run'[d].pc = "fetch"
          /\ run'[d].previous = run[d].previous /\ run'[d].job = run[d].job
      <4> DEFINE new == [run[d] EXCEPT !.pc = "fetch", !.attempt = 1]
      <4>1. run[d] \in Run /\ run \in [Devices -> Run]
        BY DEF TypeOK
      <4>2. new \in Run
        BY <4>1, 1 \in 0 .. 1, "fetch" \in Points DEF Run, Points
      <4>3. run' = [run EXCEPT ![d] = new]
        BY <2>4, <4>1 DEF Run
      <4>4. /\ new.pc = "fetch"
            /\ new.previous = run[d].previous /\ new.job = run[d].job
        BY <4>1 DEF Run
      <4> QED BY <4>1, <4>2, <4>3, <4>4 DEF Others
    <3> QED BY <2>1, <3>1
  <2>5. CASE /\ Goto(d, "save") /\ run[d].capture # Invalid
             /\ ~TooSmall(known, run[d].capture)
    BY <2>1, <2>5, Gone DEF Points
  <2> QED BY <2>2, <2>3, <2>4, <2>5
<1>5. ASSUME SaveConfig(d)
      PROVE  Quiet(d) /\ run[d].pc = "save" /\ run'[d].pc = "record"
             /\ UNCHANGED told /\ run'[d].previous = run[d].previous
             /\ \/ run'[d].outcome = "failed"
                \/ run'[d].capture = run[d].capture
  BY <1>5, Concluded DEF SaveConfig, Working
<1>6. Notify(d) => Quiet(d) /\ run[d].pc = "notify" /\ run'[d].pc = "idle"
                   /\ run'[d] = IdleRun
  BY Ended, IdleIs DEF Notify, Working
<1>7. Cancel(d) => Quiet(d) /\ run'[d].pc = "idle" /\ app = "stopping"
                   /\ UNCHANGED told /\ run'[d] = IdleRun /\ run[d].pc # "idle"
  BY Ended, IdleIs DEF Cancel, TypeOK
<1> QED BY <1>1, <1>2, <1>3, <1>4, <1>5, <1>6, <1>7

QuietStep(d) ==
    Begin(d) \/ ReadPrevious(d) \/ Fetch(d) \/ Validate(d) \/ SaveConfig(d) \/ Notify(d)
    \/ Cancel(d)

\* What the quiet steps have in common.
LEMMA QuietlyKept ==
    ASSUME TypeOK, JobInv, NEW d \in Devices, QuietStep(d)
    PROVE  /\ Quiet(d)
           /\ run'[d].pc # "notify"
           /\ run'[d].pc \in Early => run'[d].job = NoJob
           /\ run'[d].pc \in Active => run[d].pc \in Active
           /\ run'[d].pc = "idle" => run[d].pc = "notify" \/ app = "stopping"
BY QuietSteps, IdleIs DEF QuietStep, JobInv, Early, Active, Quiet

LEMMA CreateStep ==
    ASSUME TypeOK, NEW d \in Devices, Create(d)
    PROVE  /\ app = "up" /\ UNCHANGED <<setting, app, trigger, last, told>>
           /\ run' \in [Devices -> Run] /\ Others(d)
           /\ run[d].pc = "create" /\ run'[d].pc = "fetch"
           /\ run'[d].previous = run[d].previous
           /\ \/ \E id \in FreeIds : Insert(d, id) /\ run'[d].job = id
              \/ "db" \in setting.faults /\ UNCHANGED table /\ run'[d].job = run[d].job
<1>1. app = "up" /\ run[d].pc = "create" /\ UNCHANGED <<setting, app, trigger, last, told>>
  BY DEF Create, Working
<1>2. CASE "db" \in setting.faults /\ Goto(d, "fetch") /\ UNCHANGED table
  BY <1>1, <1>2, Gone DEF Points
<1>3. ASSUME NEW id \in FreeIds, Insert(d, id),
             run' = [run EXCEPT ![d].pc = "fetch", ![d].job = id]
      PROVE  /\ run' \in [Devices -> Run] /\ Others(d)
             /\ run'[d].pc = "fetch" /\ run'[d].job = id
             /\ run'[d].previous = run[d].previous
  <2>1. id \in JobIds \cup {NoJob} /\ "fetch" \in Points
    BY DEF FreeIds, Points
  <2>2. PICK r : r = [run[d] EXCEPT !.pc = "fetch", !.job = id]
    OBVIOUS
  <2>3. r \in Run /\ r.pc = "fetch" /\ r.job = id /\ r.previous = run[d].previous
    <3>1. run[d] \in Run
      BY DEF TypeOK
    <3> QED BY <2>1, <2>2, <3>1 DEF Run
  <2>4. run' = [run EXCEPT ![d] = r]
    BY <1>3, <2>2
  <2> QED BY <2>3, <2>4 DEF TypeOK, Others
<1>4. \/ "db" \in setting.faults /\ Goto(d, "fetch") /\ UNCHANGED table
      \/ \E id \in FreeIds : Insert(d, id)
                             /\ run' = [run EXCEPT ![d].pc = "fetch", ![d].job = id]
  BY DEF Create, Insert, NewRow
<1> QED BY <1>1, <1>2, <1>3, <1>4

LEMMA RecordStep ==
    ASSUME TypeOK, NEW d \in Devices, Record(d)
    PROVE  /\ app = "up" /\ UNCHANGED <<setting, app, trigger>>
           /\ run' \in [Devices -> Run] /\ Others(d)
           /\ run[d].pc = "record"
           /\ Update(d) \/ ("db" \in setting.faults /\ UNCHANGED table)
           /\ \/ run[d].outcome = "no_changes" /\ run'[d] = IdleRun
              \/ /\ run'[d].pc = "notify" /\ run'[d].outcome = run[d].outcome
                 /\ run'[d].job = run[d].job /\ run'[d].previous = run[d].previous
           /\ last' = [last EXCEPT ![d] = run[d].outcome]
           /\ told' = [told EXCEPT ![d] = IF run[d].outcome = "failed" THEN @ ELSE 0]
<1>1. End(d) => run' \in [Devices -> Run] /\ Others(d) /\ run'[d] = IdleRun
  BY Ended
<1>2. Goto(d, "notify") =>
          /\ run' \in [Devices -> Run] /\ Others(d)
          /\ run'[d].pc = "notify" /\ run'[d].outcome = run[d].outcome
          /\ run'[d].job = run[d].job /\ run'[d].previous = run[d].previous
  BY Gone DEF Points
<1> QED BY <1>1, <1>2 DEF Record, Working

\* Rows that are younger than a kept row are kept.
UpClosed(keep, o) == \A i, j : <<i, j>> \in o /\ i \in keep => j \in keep

LEMMA DeleteStep ==
    ASSUME TypeOK, Flush \/ Retention
    PROVE  /\ app = "up" /\ UNCHANGED <<setting, app, trigger, run, last, told>>
           /\ setting.faults \cap {"flush", "retention"} # {}
           /\ \E keep \in SUBSET Ids : UpClosed(keep, older) /\ Keep(keep, rows, older)
<1>1. \A o, keep : keep \in Retainable(o) => keep \in SUBSET Ids /\ UpClosed(keep, o)
  BY DEF Retainable, UpClosed
<1>2. UpClosed({}, older) /\ {} \in SUBSET Ids
  BY DEF UpClosed
<1> QED BY <1>1, <1>2 DEF Flush, Retention

LEMMA StartStep ==
    ASSUME TypeOK, Start
    PROVE  /\ app = "down" /\ app' = "up" /\ trigger' \in setting.triggers
           /\ UNCHANGED <<setting, run, last, told>>
           /\ \E S \in SUBSET Ids : \E keep \in SUBSET Ids :
                  /\ Keep(keep, Marked(S), Aged(S))
                  /\ S \subseteq Stuck
                  /\ S = Stuck \/ "db" \in setting.faults
                  /\ keep = Ids \/ "retention" \in setting.faults
                  /\ UpClosed(keep, Aged(S))
<1>1. PICK S \in {Stuck} \cup (IF "db" \in setting.faults THEN {{}} ELSE {}) :
          \E keep \in IF "retention" \in setting.faults THEN Retainable(Aged(S)) ELSE {Ids} :
              Keep(keep, Marked(S), Aged(S))
  BY DEF Start
<1>2. PICK keep \in IF "retention" \in setting.faults THEN Retainable(Aged(S)) ELSE {Ids} :
          Keep(keep, Marked(S), Aged(S))
  BY <1>1
<1>3. S \subseteq Stuck /\ S \in SUBSET Ids /\ (S = Stuck \/ "db" \in setting.faults)
  BY <1>1 DEF Stuck
<1>4. \A i, j : <<i, j>> \in Aged(S) => j \in Ids
  BY <1>3 DEF Aged, TypeOK, Ids
<1>5. UpClosed(Ids, Aged(S))
  BY <1>4 DEF UpClosed
<1>6. keep \in SUBSET Ids /\ UpClosed(keep, Aged(S))
      /\ (keep = Ids \/ "retention" \in setting.faults)
  BY <1>2, <1>5 DEF Retainable, UpClosed
<1> QED BY <1>2, <1>3, <1>6 DEF Start

\* The steps, by what they do to the table.
LEMMA Steps ==
    ASSUME [Next]_vars
    PROVE  \/ \E d \in Devices : QuietStep(d) \/ Create(d) \/ Record(d)
           \/ Flush \/ Retention
           \/ Start
           \/ Stop \/ Exit \/ Crash
           \/ UNCHANGED vars
BY DEF Next, Step, QuietStep

-----------------------------------------------------------------------------
(***************************************************************************)
(* Types and order.                                                        *)
(***************************************************************************)
TableOK ==
    /\ Ids \subseteq JobIds
    /\ \A i \in Ids : rows[i] \in Row
    /\ older \subseteq Ids \X Ids

\* The types of the table and its order are kept.
LEMMA TableKept ==
    ASSUME TypeOK, OrderInv, CaptureInv, [Next]_vars
    PROVE  TableOK' /\ OrderInv' /\ rows' = [i \in Ids' |-> rows'[i]]
<1>1. /\ Ids \subseteq JobIds /\ \A i \in Ids : rows[i] \in Row
      /\ older \subseteq Ids \X Ids /\ rows = [i \in Ids |-> rows[i]]
  BY DEF TypeOK, Ids
<1>2. CASE UNCHANGED table
  BY <1>1, <1>2 DEF table, TableOK, OrderInv, Ids
<1>3. ASSUME NEW d \in Devices, NEW id \in FreeIds, Insert(d, id)
      PROVE  TableOK' /\ OrderInv' /\ rows' = [i \in Ids' |-> rows'[i]]
  <2>1. NewRow(d) \in Row
    BY DEF NewRow, Row
  <2>2. TableOK' /\ rows' = [i \in Ids' |-> rows'[i]]
    <3>1. older' \subseteq Ids' \X Ids'
      BY <1>1, <1>3, AgedIsOrder, Inserted DEF Insert
    <3> QED BY <1>1, <1>3, <2>1, <3>1, Inserted DEF TableOK
  <2>3. OrderInv'
    BY <1>1, <1>3, AgedIsOrder, Inserted DEF Insert, OrderInv
  <2> QED BY <2>2, <2>3
<1>4. ASSUME NEW d \in Devices, run[d].pc = "record", Update(d)
      PROVE  TableOK' /\ OrderInv' /\ rows' = [i \in Ids' |-> rows'[i]]
  <2>1. run[d].job \in Ids => FinalRow(d) \in Row
    <3>1. /\ run[d].outcome \in Outcomes
          /\ run[d].capture \in Captures \cup {Invalid, NoCapture}
      BY DEF TypeOK, Run
    <3>2. run[d].outcome # "failed" => run[d].capture # Invalid
      BY <1>4 DEF CaptureInv, Saves
    <3>3. ASSUME run[d].job \in Ids PROVE rows[run[d].job].device \in Devices
      BY <1>1, <3>3 DEF Row
    <3> QED BY <3>1, <3>2, <3>3 DEF FinalRow, Row
  <2>2. OwnRow(d) \subseteq Ids /\ older' = Aged(OwnRow(d))
    BY <1>4 DEF Update, OwnRow
  <2>3. older' \subseteq Ids' \X Ids' /\ OrderInv'
    <3>1. Ids' = Ids
      BY <1>4, Updated
    <3>2. Ids = Ids \cup OwnRow(d)
      BY <2>2
    <3> QED BY <1>1, <2>2, <3>1, <3>2, AgedIsOrder DEF OrderInv
  <2>4. TableOK' /\ rows' = [i \in Ids' |-> rows'[i]]
    <3>1. Ids' \subseteq JobIds /\ rows' = [i \in Ids' |-> rows'[i]]
      BY <1>1, <1>4, Updated
    <3>2. \A i \in Ids' : rows'[i] \in Row
      BY <1>1, <1>4, <2>1, Updated
    <3> QED BY <2>3, <3>1, <3>2 DEF TableOK
  <2> QED BY <2>3, <2>4
<1>5. ASSUME NEW keep \in SUBSET Ids, Keep(keep, rows, older)
      PROVE  TableOK' /\ OrderInv' /\ rows' = [i \in Ids' |-> rows'[i]]
  <2>1. /\ Ids' = keep /\ rows' = [i \in Ids' |-> rows'[i]]
        /\ \A i \in keep : rows'[i] = rows[i]
        /\ older' = older \cap (keep \X keep)
        /\ \A i, j : <<i, j>> \in older' <=> <<i, j>> \in older /\ i \in keep /\ j \in keep
    BY <1>5, Kept DEF Keep
  <2>2. TableOK'
    BY <1>1, <2>1 DEF TableOK
  <2>3. OrderInv'
    BY <2>1 DEF OrderInv
  <2> QED BY <2>1, <2>2, <2>3
<1>6. ASSUME NEW S \in SUBSET Ids, NEW keep \in SUBSET Ids, Keep(keep, Marked(S), Aged(S))
      PROVE  TableOK' /\ OrderInv' /\ rows' = [i \in Ids' |-> rows'[i]]
  <2>1. \A i \in Ids : FailedRow(i) \in Row
    BY <1>1 DEF FailedRow, Row, Outcomes
  <2>2. /\ Ids' = keep /\ rows' = [i \in Ids' |-> rows'[i]]
        /\ \A i \in keep : rows'[i] = IF i \in S THEN FailedRow(i) ELSE rows[i]
        /\ older' = Aged(S) \cap (keep \X keep)
        /\ \A i, j : <<i, j>> \in older' <=> <<i, j>> \in Aged(S) /\ i \in keep /\ j \in keep
    BY <1>6, Restarted DEF Keep
  <2>3. TableOK'
    BY <1>1, <2>1, <2>2 DEF TableOK
  <2>4. Ids = Ids \cup S
    OBVIOUS
  <2>5. /\ \A i \in Ids : <<i, i>> \notin Aged(S)
        /\ \A i, j, k \in Ids : <<i, j>> \in Aged(S) /\ <<j, k>> \in Aged(S)
                                => <<i, k>> \in Aged(S)
    BY <1>1, <2>4, AgedIsOrder
  <2>6. OrderInv'
    BY <2>2, <2>5 DEF OrderInv
  <2> QED BY <2>2, <2>3, <2>6
<1>7. ASSUME NEW d \in Devices, QuietStep(d) PROVE UNCHANGED table
  BY <1>7, QuietSteps DEF QuietStep, Quiet
<1>8. Stop \/ Exit \/ Crash \/ UNCHANGED vars => UNCHANGED table
  BY DEF Stop, Exit, Crash, vars
<1>9. ASSUME NEW d \in Devices, Create(d)
      PROVE  UNCHANGED table \/ \E id \in FreeIds : Insert(d, id)
  BY <1>9, CreateStep
<1>10. ASSUME NEW d \in Devices, Record(d)
       PROVE  run[d].pc = "record" /\ (UNCHANGED table \/ Update(d))
  BY <1>10, RecordStep
<1> QED
  BY <1>2, <1>3, <1>4, <1>5, <1>6, <1>7, <1>8, <1>9, <1>10, Steps, DeleteStep, StartStep

\* Every variable keeps its type.
LEMMA TypeKept ==
    ASSUME TypeOK, OrderInv, CaptureInv, [Next]_vars
    PROVE  TypeOK'
<1>1. /\ Ids' \subseteq JobIds /\ rows' \in [Ids' -> Row]
      /\ older' \subseteq Ids' \X Ids'
  BY TableKept DEF TableOK
<1> SUFFICES /\ setting' \in Settings /\ app' \in {"up", "stopping", "down"}
             /\ trigger' \in setting'.triggers
             /\ run' \in [Devices -> Run]
             /\ last' \in [Devices -> Outcomes \cup {NoStatus}]
             /\ told' \in [Devices -> 0 .. MaxTold]
  BY <1>1 DEF TypeOK, Ids
<1>2. ASSUME NEW d \in Devices, QuietStep(d)
      PROVE  /\ UNCHANGED <<setting, app, trigger, last>>
             /\ run' \in [Devices -> Run] /\ told' \in [Devices -> 0 .. MaxTold]
  <2>1. UNCHANGED <<setting, app, trigger, last>> /\ run' \in [Devices -> Run]
    BY <1>2, QuietSteps DEF QuietStep, Quiet
  <2>2. CASE Notify(d)
    <3>1. told[d] \in 0 .. MaxTold
      BY DEF TypeOK
    <3>2. PICK n : told' = [told EXCEPT ![d] = n] /\ n \in {told[d], told[d] + 1}
                   /\ (n = told[d] \/ told[d] < MaxTold)
      BY <2>2 DEF Notify
    <3>3. n \in 0 .. MaxTold
      BY <3>1, <3>2 DEF MaxTold
    <3> QED BY <2>1, <3>2, <3>3 DEF TypeOK
  <2>3. CASE UNCHANGED told
    BY <2>1, <2>3 DEF TypeOK
  <2> QED BY <1>2, <2>2, <2>3, QuietSteps DEF QuietStep
<1>3. ASSUME NEW d \in Devices, Create(d)
      PROVE  UNCHANGED <<setting, app, trigger, last, told>> /\ run' \in [Devices -> Run]
  BY <1>3, CreateStep
<1>4. ASSUME NEW d \in Devices, Record(d)
      PROVE  /\ UNCHANGED <<setting, app, trigger>> /\ run' \in [Devices -> Run]
             /\ last' \in [Devices -> Outcomes \cup {NoStatus}]
             /\ told' \in [Devices -> 0 .. MaxTold]
  <2>1. run[d].outcome \in Outcomes /\ 0 \in 0 .. MaxTold
    BY DEF TypeOK, Run, MaxTold
  <2> QED BY <1>4, <2>1, RecordStep DEF TypeOK
<1>5. Flush \/ Retention => UNCHANGED <<setting, app, trigger, run, last, told>>
  BY DEF Flush, Retention
<1>6. Start => /\ app' = "up" /\ trigger' \in setting.triggers
               /\ UNCHANGED <<setting, run, last, told>>
  BY DEF Start
<1>7. Stop \/ Exit => /\ app' \in {"stopping", "down"}
                      /\ UNCHANGED <<setting, trigger, run, last, told>>
  BY DEF Stop, Exit
<1>8. Crash => /\ app' = "down" /\ UNCHANGED <<setting, trigger, last, told>>
               /\ run' \in [Devices -> Run]
  BY IdleIs DEF Crash
<1> QED
  BY <1>2, <1>3, <1>4, <1>5, <1>6, <1>7, <1>8, Steps DEF TypeOK, vars

-----------------------------------------------------------------------------
(***************************************************************************)
(* Rows and their owners.                                                  *)
(***************************************************************************)
RowInv == JobInv /\ RowFollowsRun /\ InProgressIsRunning /\ DoneInv

\* What RowInv says of a row.
LEMMA RowsOwned ==
    ASSUME RowInv
    PROVE  /\ \A d \in Devices : run[d].pc \in Active /\ run[d].job \in Ids =>
                  rows[run[d].job].device = d /\ rows[run[d].job].status = "in_progress"
           /\ app = "up" /\ "db" \notin setting.faults =>
                  \A i \in Ids : rows[i].status = "in_progress" =>
                      \E d \in Devices : run[d].job = i /\ rows[i].device = d
           /\ "db" \notin setting.faults =>
                  \A d \in Devices : run[d].pc = "notify" /\ run[d].job \in Ids =>
                      /\ rows[run[d].job].device = d
                      /\ rows[run[d].job].status = run[d].outcome
BY DEF RowInv, RowFollowsRun, InProgressIsRunning, DoneInv, OwnRow, InProgress, Active

\* And how to show it of the next state.
LEMMA RowsOwnedNext ==
    ASSUME JobInv',
           \A d \in Devices : run'[d].pc \in Active /\ run'[d].job \in Ids' =>
               rows'[run'[d].job].device = d /\ rows'[run'[d].job].status = "in_progress",
           app' = "up" /\ "db" \notin setting'.faults =>
               \A i \in Ids' : rows'[i].status = "in_progress" =>
                   \E d \in Devices : run'[d].job = i /\ rows'[i].device = d,
           "db" \notin setting'.faults =>
               \A d \in Devices : run'[d].pc = "notify" /\ run'[d].job \in Ids' =>
                   /\ rows'[run'[d].job].device = d
                   /\ rows'[run'[d].job].status = run'[d].outcome
    PROVE  RowInv'
BY DEF RowInv, RowFollowsRun, InProgressIsRunning, DoneInv, OwnRow, InProgress, Active

\* Nobody but its owner touches the row of a running backup.
LEMMA RowsKept ==
    ASSUME TypeOK, RowInv, [Next]_vars
    PROVE  RowInv'
<1>1. NoJob \notin Ids
  BY JobIdsAssumption DEF TypeOK, Ids
<1>2. ASSUME NEW d \in Devices, QuietStep(d) PROVE RowInv'
  <2>1. /\ Quiet(d) /\ run'[d].pc # "notify"
        /\ run'[d].pc \in Early => run'[d].job = NoJob
        /\ run'[d].pc \in Active => run[d].pc \in Active
        /\ run'[d].pc = "idle" => run[d].pc = "notify" \/ app = "stopping"
    BY <1>2, QuietlyKept DEF RowInv
  <2>2. Ids' = Ids /\ rows' = rows /\ setting' = setting /\ app' = app /\ app # "down"
    BY <2>1 DEF Quiet, Ids, table
  <2>3. /\ \A e \in Devices : e # d => run'[e] = run[e]
        /\ run'[d].job = run[d].job \/ (run'[d].pc = "idle" /\ run'[d].job = NoJob)
    BY <2>1 DEF Quiet, Others, Early
  <2>4. JobInv'
    BY <2>1, <2>2, <2>3 DEF RowInv, JobInv
  <2>5. \A e \in Devices : run'[e].pc \in Active /\ run'[e].job \in Ids' =>
            rows'[run'[e].job].device = e /\ rows'[run'[e].job].status = "in_progress"
    BY <1>1, <2>1, <2>2, <2>3, RowsOwned
  <2>6. ASSUME app' = "up", "db" \notin setting'.faults, NEW i \in Ids',
               rows'[i].status = "in_progress"
        PROVE  \E e \in Devices : run'[e].job = i /\ rows'[i].device = e
    <3>1. PICK e \in Devices : run[e].job = i /\ rows[i].device = e
      BY <2>2, <2>6, RowsOwned
    <3>2. CASE run'[e].job = run[e].job
      BY <2>2, <3>1, <3>2
    <3>3. CASE e = d /\ run'[d].pc = "idle"
      <4>1. run[d].pc = "notify"
        BY <2>1, <2>2, <2>6, <3>3
      <4>2. rows[i].status = run[d].outcome
        BY <2>2, <2>6, <3>1, <3>3, <4>1, RowsOwned
      <4>3. run[d].outcome # "in_progress"
        BY DEF TypeOK, Run, Outcomes
      <4> QED BY <2>2, <2>6, <4>2, <4>3
    <3> QED BY <2>3, <3>2, <3>3
  <2>7. "db" \notin setting'.faults =>
            \A e \in Devices : run'[e].pc = "notify" /\ run'[e].job \in Ids' =>
                rows'[run'[e].job].device = e /\ rows'[run'[e].job].status = run'[e].outcome
    BY <2>1, <2>2, <2>3, RowsOwned
  <2> QED BY <2>4, <2>5, <2>6, <2>7, RowsOwnedNext
<1>3. ASSUME NEW d \in Devices, Create(d) PROVE RowInv'
  <2>1. /\ app = "up" /\ app' = app /\ setting' = setting
        /\ \A e \in Devices : e # d => run'[e] = run[e]
        /\ run[d].pc = "create" /\ run'[d].pc = "fetch"
    BY <1>3, CreateStep DEF Others
  <2>2. run[d].job = NoJob
    BY <2>1 DEF RowInv, JobInv, Early
  <2>3. CASE "db" \in setting.faults /\ UNCHANGED table /\ run'[d].job = run[d].job
    <3>1. Ids' = Ids /\ rows' = rows
      BY <2>3 DEF table, Ids
    <3>2. JobInv'
      BY <2>1, <2>2, <2>3 DEF RowInv, JobInv, Early
    <3>3. \A e \in Devices : run'[e].pc \in Active /\ run'[e].job \in Ids' =>
              rows'[run'[e].job].device = e /\ rows'[run'[e].job].status = "in_progress"
      BY <1>1, <2>1, <2>2, <2>3, <3>1, RowsOwned
    <3> QED BY <2>1, <2>3, <3>2, <3>3, RowsOwnedNext
  <2>4. ASSUME NEW id \in FreeIds, Insert(d, id), run'[d].job = id PROVE RowInv'
    <3>1. /\ id \notin Ids /\ id # NoJob /\ \A e \in Devices : run[e].job # id
          /\ Ids' = Ids \cup {id}
          /\ rows'[id] = NewRow(d) /\ \A i \in Ids : rows'[i] = rows[i]
      BY <2>4, Inserted
    <3>2. NewRow(d).device = d /\ NewRow(d).status = "in_progress"
      BY DEF NewRow
    <3>3. JobInv'
      BY <2>1, <2>2, <2>4, <3>1 DEF RowInv, JobInv, Early
    <3>4. \A e \in Devices : run'[e].pc \in Active /\ run'[e].job \in Ids' =>
              rows'[run'[e].job].device = e /\ rows'[run'[e].job].status = "in_progress"
      BY <2>1, <2>4, <3>1, <3>2, RowsOwned
    <3>5. ASSUME "db" \notin setting'.faults, NEW i \in Ids', rows'[i].status = "in_progress"
          PROVE  \E e \in Devices : run'[e].job = i /\ rows'[i].device = e
      <4>1. CASE i = id
        BY <2>4, <3>1, <3>2, <4>1
      <4>2. CASE i # id
        <5>1. PICK e \in Devices : run[e].job = i /\ rows[i].device = e
          BY <2>1, <3>1, <3>5, <4>2, RowsOwned
        <5>2. e # d
          BY <1>1, <2>2, <3>1, <4>2, <5>1
        <5> QED BY <2>1, <3>1, <4>2, <5>1, <5>2
      <4> QED BY <4>1, <4>2
    <3>6. "db" \notin setting'.faults =>
              \A e \in Devices : run'[e].pc = "notify" /\ run'[e].job \in Ids' =>
                  rows'[run'[e].job].device = e /\ rows'[run'[e].job].status = run'[e].outcome
      BY <2>1, <2>4, <3>1, RowsOwned
    <3> QED BY <3>3, <3>4, <3>5, <3>6, RowsOwnedNext
  <2> QED BY <1>3, <2>3, <2>4, CreateStep
<1>4. ASSUME NEW d \in Devices, Record(d) PROVE RowInv'
  <2>1. /\ app = "up" /\ app' = app /\ setting' = setting
        /\ \A e \in Devices : e # d => run'[e] = run[e]
        /\ run[d].pc = "record"
        /\ Update(d) \/ ("db" \in setting.faults /\ UNCHANGED table)
        /\ \/ run'[d].pc = "idle" /\ run'[d].job = NoJob
           \/ /\ run'[d].pc = "notify" /\ run'[d].outcome = run[d].outcome
              /\ run'[d].job = run[d].job
    BY <1>4, RecordStep, IdleIs DEF Others
  <2>2. Ids' = Ids /\ \A i \in Ids : i # run[d].job => rows'[i] = rows[i]
    BY <2>1, Updated DEF table, Ids
  <2>3. JobInv'
    BY <2>1 DEF RowInv, JobInv, Early
  <2>4. \A e \in Devices : run'[e].pc \in Active /\ run'[e].job \in Ids' =>
            rows'[run'[e].job].device = e /\ rows'[run'[e].job].status = "in_progress"
    <3>1. SUFFICES ASSUME NEW e \in Devices, run'[e].pc \in Active, run'[e].job \in Ids'
                   PROVE  /\ rows'[run'[e].job].device = e
                          /\ rows'[run'[e].job].status = "in_progress"
      OBVIOUS
    <3>2. e # d
      BY <2>1, <3>1 DEF Active
    <3>3. run[e].job # run[d].job /\ run'[e] = run[e]
      BY <1>1, <2>1, <2>2, <3>1, <3>2 DEF RowInv, JobInv
    <3> QED BY <2>2, <3>1, <3>3, RowsOwned
  <2>5. ASSUME "db" \notin setting'.faults
        PROVE  /\ run[d].job \in Ids => /\ rows'[run[d].job].device = d
                                        /\ rows'[run[d].job].status = run[d].outcome
               /\ run[d].outcome # "in_progress"
    <3>1. run[d].job \in Ids => rows'[run[d].job] = FinalRow(d)
      BY <2>1, <2>5, Updated
    <3>2. run[d].job \in Ids => rows[run[d].job].device = d
      BY <2>1, RowsOwned DEF Active
    <3>3. run[d].outcome # "in_progress"
      BY DEF TypeOK, Run, Outcomes
    <3> QED BY <3>1, <3>2, <3>3 DEF FinalRow
  <2>6. ASSUME "db" \notin setting'.faults, NEW i \in Ids', rows'[i].status = "in_progress"
        PROVE  \E e \in Devices : run'[e].job = i /\ rows'[i].device = e
    <3>1. i # run[d].job
      BY <2>2, <2>5, <2>6
    <3>2. PICK e \in Devices : run[e].job = i /\ rows[i].device = e
      BY <2>1, <2>2, <2>6, <3>1, RowsOwned
    <3> QED BY <2>1, <2>2, <3>1, <3>2
  <2>7. "db" \notin setting'.faults =>
            \A e \in Devices : run'[e].pc = "notify" /\ run'[e].job \in Ids' =>
                rows'[run'[e].job].device = e /\ rows'[run'[e].job].status = run'[e].outcome
    <3>1. SUFFICES ASSUME "db" \notin setting'.faults, NEW e \in Devices,
                          run'[e].pc = "notify", run'[e].job \in Ids'
                   PROVE  /\ rows'[run'[e].job].device = e
                          /\ rows'[run'[e].job].status = run'[e].outcome
      OBVIOUS
    <3>2. CASE e = d
      BY <2>1, <2>2, <2>5, <3>1, <3>2
    <3>3. CASE e # d
      <4>1. run[e].job # run[d].job /\ run'[e] = run[e]
        BY <1>1, <2>1, <2>2, <3>1, <3>3 DEF RowInv, JobInv
      <4> QED BY <2>1, <2>2, <3>1, <4>1, RowsOwned
    <3> QED BY <3>2, <3>3
  <2> QED BY <2>3, <2>4, <2>6, <2>7, RowsOwnedNext
<1>5. ASSUME Flush \/ Retention PROVE RowInv'
  <2>1. app' = app /\ setting' = setting /\ run' = run
    BY <1>5, DeleteStep
  <2>2. PICK keep \in SUBSET Ids : Keep(keep, rows, older)
    BY <1>5, DeleteStep
  <2>3. Ids' \subseteq Ids /\ \A i \in Ids' : rows'[i] = rows[i]
    BY <2>2, Kept
  <2>4. JobInv'
    BY <2>1 DEF RowInv, JobInv
  <2> QED BY <2>1, <2>3, <2>4, RowsOwned, RowsOwnedNext
<1>6. ASSUME Start PROVE RowInv'
  <2>1. app = "down" /\ setting' = setting /\ run' = run
    BY <1>6, StartStep
  <2>2. \A d \in Devices : run[d].pc = "idle"
    BY <2>1 DEF RowInv, JobInv
  <2>3. JobInv'
    BY <1>6, <2>1, StartStep DEF RowInv, JobInv
  <2>4. PICK S \in SUBSET Ids, keep \in SUBSET Ids :
            /\ Keep(keep, Marked(S), Aged(S))
            /\ S = Stuck \/ "db" \in setting.faults
    BY <1>6, StartStep
  <2>5. \A i \in Ids' : i \in Ids /\ rows'[i] = IF i \in S THEN FailedRow(i) ELSE rows[i]
    BY <2>4, Restarted
  <2>6. ASSUME "db" \notin setting'.faults, NEW i \in Ids'
        PROVE  rows'[i].status # "in_progress"
    <3>1. FailedRow(i).status = "failed"
      BY DEF FailedRow
    <3>2. i \in S <=> rows[i].status = "in_progress"
      BY <2>1, <2>4, <2>5, <2>6 DEF Stuck
    <3> QED BY <2>5, <2>6, <3>1, <3>2
  <2> QED BY <2>1, <2>2, <2>3, <2>6, RowsOwnedNext DEF Active
<1>7. ASSUME Stop \/ Exit PROVE RowInv'
  <2>1. /\ app' # "up" /\ UNCHANGED <<setting, table, run>>
        /\ app' = "down" => \A d \in Devices : run[d].pc = "idle"
    BY <1>7 DEF Stop, Exit
  <2>2. Ids' = Ids /\ rows' = rows /\ JobInv'
    BY <2>1 DEF RowInv, JobInv, table, Ids
  <2> QED BY <2>1, <2>2, RowsOwned, RowsOwnedNext
<1>8. ASSUME Crash PROVE RowInv'
  <2>1. app' = "down" /\ \A d \in Devices : run'[d] = IdleRun
    BY <1>8 DEF Crash
  <2>2. JobInv'
    BY <2>1, IdleIs DEF JobInv
  <2> QED BY <2>1, <2>2, IdleIs, RowsOwnedNext DEF Active
<1>9. ASSUME UNCHANGED vars PROVE RowInv'
  BY <1>9 DEF vars, table, RowInv, JobInv, RowFollowsRun, InProgressIsRunning, DoneInv,
              OwnRow, InProgress, Ids
<1> QED BY <1>2, <1>3, <1>4, <1>5, <1>6, <1>7, <1>8, <1>9, Steps

\* A final status is never overwritten: whoever writes a row either owns it while it
\* is in progress, or found it in progress at start-up.
LEMMA FinalKept ==
    ASSUME TypeOK, RowInv, [Next]_vars
    PROVE  \A i \in Ids \cap Ids' : rows[i].status \in Outcomes => rows'[i] = rows[i]
<1>1. UNCHANGED table => Ids' = Ids /\ rows' = rows
  BY DEF table, Ids
<1>2. ASSUME NEW d \in Devices, QuietStep(d) PROVE UNCHANGED table
  BY <1>2, QuietSteps DEF QuietStep, Quiet
<1>3. ASSUME NEW d \in Devices, Create(d)
      PROVE  \A i \in Ids : rows'[i] = rows[i]
  BY <1>1, <1>3, CreateStep, Inserted
<1>4. ASSUME NEW d \in Devices, Record(d)
      PROVE  \A i \in Ids : rows[i].status \in Outcomes => rows'[i] = rows[i]
  <2>1. run[d].job \in Ids => rows[run[d].job].status \notin Outcomes
    BY <1>4, RecordStep, RowsOwned DEF Active, Outcomes
  <2> QED BY <1>1, <1>4, <2>1, RecordStep, Updated
<1>5. ASSUME Flush \/ Retention PROVE \A i \in Ids' : rows'[i] = rows[i]
  BY <1>5, DeleteStep, Kept
<1>6. ASSUME Start, NEW i \in Ids', rows[i].status \in Outcomes PROVE rows'[i] = rows[i]
  <2>1. PICK S \in SUBSET Ids, keep \in SUBSET Ids :
            Keep(keep, Marked(S), Aged(S)) /\ S \subseteq Stuck
    BY <1>6, StartStep
  <2>2. i \notin S
    BY <1>6, <2>1 DEF Stuck, Outcomes
  <2> QED BY <1>6, <2>1, <2>2, Restarted
<1>7. Stop \/ Exit \/ Crash \/ UNCHANGED vars => UNCHANGED table
  BY DEF Stop, Exit, Crash, vars
<1> QED BY <1>1, <1>2, <1>3, <1>4, <1>5, <1>6, <1>7, Steps

-----------------------------------------------------------------------------
(***************************************************************************)
(* Captures.                                                               *)
(***************************************************************************)
SizeInv == CaptureInv /\ NoSuspiciousCapture /\ TieInv

\* A capture is compared with the device's last configuration, of which there is one.
LEMMA NewestIsKnown ==
    ASSUME TypeOK, SizeInv, "size" \notin setting.faults, NEW d \in Devices,
           NEW known \in KnownConfigs(d), NEW i \in Ids, Newest(i, d)
    PROVE  known = rows[i].config
<1>1. i \in Sized(d)
  BY DEF Newest, Sized, SizeInv, CaptureInv, Good
<1>2. PICK j \in Youngest(Sized(d)) : known = rows[j].config
  BY <1>1 DEF KnownConfigs, PreviousConfig
<1>3. /\ j \in Ids /\ rows[j].device = d /\ rows[j].config # NoCapture
      /\ rows[j].status # "failed" /\ <<j, i>> \notin older
  BY <1>1, <1>2 DEF Youngest, Sized
<1>4. <<i, j>> \notin older
  BY <1>3 DEF Newest
<1>5. i = j
  BY <1>3, <1>4 DEF SizeInv, TieInv
<1> QED BY <1>2, <1>5

\* NoSuspiciousCapture, as it is said of two rows.
LEMMA SuspicionOf ==
    ASSUME older \subseteq Ids \X Ids,
           \A i \in Ids : rows[i].config # NoCapture => rows[i].status \in Good
    PROVE  (\A p \in older : LET d == rows[p[1]].device
                             IN  /\ {p[1], p[2]} \subseteq Sized(d)
                                 /\ ~\E k \in Sized(d) : <<p[1], k>> \in older /\ <<k, p[2]>> \in older
                                 => ~TooSmall(rows[p[1]].config, rows[p[2]].config))
           <=> \A i, j \in Ids : Before(i, j) => ~TooSmall(rows[i].config, rows[j].config)
<1>1. \A p \in older : p = <<p[1], p[2]>> /\ p[1] \in Ids /\ p[2] \in Ids
  OBVIOUS
<1>2. \A d : \A k \in Ids : k \in Sized(d) <=> rows[k].device = d /\ rows[k].config # NoCapture
  BY DEF Sized, Good
<1>3. \A d : Sized(d) \subseteq Ids
  BY DEF Sized
<1>4. ASSUME NEW i \in Ids, NEW j \in Ids, <<i, j>> \in older
      PROVE  Before(i, j) <=> /\ {i, j} \subseteq Sized(rows[i].device)
                              /\ ~\E k \in Sized(rows[i].device) :
                                     <<i, k>> \in older /\ <<k, j>> \in older
  <2>1. {i, j} \subseteq Sized(rows[i].device) <=>
            /\ rows[i].device = rows[j].device
            /\ rows[i].config # NoCapture /\ rows[j].config # NoCapture
    BY <1>2
  <2>2. (\E k \in Sized(rows[i].device) : <<i, k>> \in older /\ <<k, j>> \in older) <=>
            \E k \in Ids : /\ rows[k].device = rows[i].device /\ rows[k].config # NoCapture
                         /\ <<i, k>> \in older /\ <<k, j>> \in older
    BY <1>2, <1>3
  <2> QED BY <1>4, <2>1, <2>2 DEF Before
<1>5. \A i, j \in Ids : Before(i, j) => <<i, j>> \in older
  BY DEF Before
<1> DEFINE Says(i, j) == /\ {i, j} \subseteq Sized(rows[i].device)
                         /\ ~\E k \in Sized(rows[i].device) :
                                <<i, k>> \in older /\ <<k, j>> \in older
<1>6. ASSUME \A p \in older : Says(p[1], p[2]) => ~TooSmall(rows[p[1]].config, rows[p[2]].config),
             NEW i \in Ids, NEW j \in Ids, Before(i, j)
      PROVE  ~TooSmall(rows[i].config, rows[j].config)
  <2>1. PICK p \in older : p[1] = i /\ p[2] = j
    BY <1>5, <1>6
  <2>2. Says(i, j)
    BY <1>4, <1>5, <1>6
  <2> HIDE DEF Says, Before
  <2> QED BY <1>6, <2>1, <2>2
<1>7. ASSUME \A i, j \in Ids : Before(i, j) => ~TooSmall(rows[i].config, rows[j].config),
             NEW p \in older, Says(p[1], p[2])
      PROVE  ~TooSmall(rows[p[1]].config, rows[p[2]].config)
  <2>1. PICK i \in Ids, j \in Ids : p[1] = i /\ p[2] = j /\ <<i, j>> \in older
    BY <1>1
  <2>2. Before(i, j)
    BY <1>4, <1>7, <2>1
  <2> HIDE DEF Says, Before
  <2> QED BY <1>7, <2>1, <2>2
<1> HIDE DEF Before
<1> QED BY <1>6, <1>7

\* Only the backup that is about to record a capture brings a configuration to the table.
LEMMA SizeKept ==
    ASSUME TypeOK, OrderInv, RowInv, SizeInv, [Next]_vars
    PROVE  SizeInv'
<1>1. older \subseteq Ids \X Ids
  BY DEF TypeOK, Ids
<1>2. OrderInv' /\ older' \subseteq Ids' \X Ids'
  BY TableKept DEF SizeInv, TableOK
\* What has to be shown of the table, and of the runs.
<1> DEFINE NoneSuspicious ==
        "size" \notin setting.faults =>
            \A i, j \in Ids : Before(i, j) => ~TooSmall(rows[i].config, rows[j].config)
<1> DEFINE Table ==
        /\ \A i \in Ids : rows[i].config # NoCapture => rows[i].status \in Good
        /\ NoneSuspicious
        /\ TieInv
<1> DEFINE Runs ==
        /\ \A d \in Devices : Saves(d) => run[d].capture # Invalid
        /\ "size" \notin setting.faults =>
             \A d \in Devices : Saves(d) =>
                 \A i \in Ids : Newest(i, d) => ~TooSmall(rows[i].config, run[d].capture)
<1>3. Table /\ Runs
  <2>1. NoneSuspicious
    BY <1>1, SuspicionOf DEF SizeInv, CaptureInv, NoSuspiciousCapture
  <2> QED BY <2>1 DEF SizeInv, CaptureInv
<1>4. SUFFICES Table' /\ Runs'
  <2>1. ASSUME Table' PROVE NoSuspiciousCapture'
    <3>1. \A i \in Ids' : rows'[i].config # NoCapture => rows'[i].status \in Good
      BY <2>1
    <3>2. "size" \notin setting'.faults =>
              \A i, j \in Ids' : Before(i, j)' => ~TooSmall(rows'[i].config, rows'[j].config)
      BY <2>1
    <3>3. \A p \in older' : p = <<p[1], p[2]>> /\ p[1] \in Ids' /\ p[2] \in Ids'
      BY <1>2
    <3>4. \A d : Sized(d)' = {k \in Ids' : rows'[k].device = d /\ rows'[k].config # NoCapture}
      BY <3>1 DEF Sized, Good
    <3>5. ASSUME NEW p \in older',
                 {p[1], p[2]} \subseteq Sized(rows[p[1]].device)',
                 ~\E k \in Sized(rows[p[1]].device)' : <<p[1], k>> \in older' /\ <<k, p[2]>> \in older'
          PROVE  Before(p[1], p[2])'
      BY <3>3, <3>4, <3>5 DEF Before
    <3> QED BY <3>2, <3>3, <3>5 DEF NoSuspiciousCapture
  <2> QED BY <2>1 DEF SizeInv, CaptureInv
<1>5. ASSUME UNCHANGED table
      PROVE  /\ Ids' = Ids /\ rows' = rows
             /\ \A i, d : Newest(i, d)' <=> Newest(i, d)
             /\ \A i, j : Before(i, j)' <=> Before(i, j)
             /\ TieInv'
  BY <1>3, <1>5 DEF table, Ids, TieInv, Newest, Before
<1>6. ASSUME NEW d \in Devices, QuietStep(d) PROVE Table' /\ Runs'
  <2>1. Quiet(d)
    BY <1>6, QuietSteps DEF QuietStep
  <2>2. /\ setting' = setting /\ UNCHANGED table
        /\ \A e \in Devices : e # d => run'[e] = run[e]
    BY <2>1 DEF Quiet, Others
  <2>3. ASSUME Saves(d)'
        PROVE  /\ run'[d].capture = run[d].capture
               /\ \/ Saves(d)
                  \/ /\ run[d].capture # Invalid
                     /\ \E known \in KnownConfigs(d) : ~TooSmall(known, run[d].capture)
    BY <1>6, <2>3, QuietSteps DEF QuietStep, Saves
  <2>4. ASSUME Saves(d)' PROVE run'[d].capture # Invalid
    BY <1>3, <2>3, <2>4
  <2>5. ASSUME Saves(d)', "size" \notin setting.faults, NEW i \in Ids, Newest(i, d)
        PROVE  ~TooSmall(rows[i].config, run'[d].capture)
    BY <1>3, <2>3, <2>5, NewestIsKnown
  <2>6. \A e \in Devices : e # d => (Saves(e)' <=> Saves(e))
    BY <2>2 DEF Saves
  <2>7. Runs'
    BY <1>3, <1>5, <2>2, <2>4, <2>5, <2>6
  <2>8. Table'
    BY <1>3, <1>5, <2>2
  <2> QED BY <2>7, <2>8
<1>7. ASSUME NEW d \in Devices, Create(d) PROVE Table' /\ Runs'
  <2>1. /\ setting' = setting /\ \A e \in Devices : e # d => run'[e] = run[e]
        /\ run'[d].pc = "fetch"
    BY <1>7, CreateStep DEF Others
  <2>2. ~Saves(d)' /\ \A e \in Devices : e # d => (Saves(e)' <=> Saves(e))
    BY <2>1 DEF Saves
  <2>3. CASE UNCHANGED table
    BY <1>3, <1>5, <2>1, <2>2, <2>3
  <2>4. ASSUME NEW id \in FreeIds, Insert(d, id) PROVE Table' /\ Runs'
    <3>1. /\ id \notin Ids /\ Ids' = Ids \cup {id}
          /\ rows'[id] = NewRow(d) /\ \A i \in Ids : rows'[i] = rows[i]
          /\ \A i, j : <<i, j>> \in older' <=> (<<i, j>> \in older \/ (i \in Ids /\ j = id))
      BY <2>4, Inserted
    <3>2. rows'[id].config = NoCapture
      BY <3>1 DEF NewRow
    <3>3. \A i \in Ids' : rows'[i].config # NoCapture => rows'[i].status \in Good
      BY <1>3, <3>1, <3>2
    <3>4. \A i, e : Newest(i, e)' => Newest(i, e)
      BY <3>1, <3>2 DEF Newest
    <3>5. \A i, j : Before(i, j)' => Before(i, j)
      BY <3>1, <3>2 DEF Before
    <3>6. TieInv'
      BY <1>3, <3>1 DEF TieInv
    <3>7. \A i, e : Newest(i, e) => i \in Ids
      BY DEF Newest
    <3>8. \A i, j : Before(i, j) => i \in Ids /\ j \in Ids
      BY DEF Before
    <3>9. Runs'
      BY <1>3, <2>1, <2>2, <3>1, <3>4, <3>7
    <3>10. NoneSuspicious'
      BY <1>3, <2>1, <3>1, <3>5, <3>8
    <3> QED BY <3>3, <3>6, <3>9, <3>10
  <2> QED BY <1>7, <2>3, <2>4, CreateStep
<1>8. ASSUME NEW d \in Devices, Record(d) PROVE Table' /\ Runs'
  <2>1. /\ setting' = setting /\ \A e \in Devices : e # d => run'[e] = run[e]
        /\ run[d].pc = "record" /\ run'[d].pc \in {"idle", "notify"}
    BY <1>8, RecordStep, IdleIs DEF Others
  <2>2. ~Saves(d)' /\ \A e \in Devices : e # d => (Saves(e)' <=> Saves(e))
    BY <2>1 DEF Saves
  <2>3. CASE UNCHANGED table
    BY <1>3, <1>5, <2>1, <2>2, <2>3
  <2>4. CASE Update(d)
    <3> DEFINE job == run[d].job
    <3>1. /\ Ids' = Ids /\ \A i \in Ids : i # job => rows'[i] = rows[i]
          /\ job \in Ids => rows'[job] = FinalRow(d)
          /\ \A i, j : <<i, j>> \in older' <=>
                 \/ <<i, j>> \in older /\ i # job /\ j # job
                 \/ i \in Ids /\ i # job /\ j = job /\ j \in Ids
      BY <2>4, Updated
    <3>2. job \in Ids => rows[job].device = d /\ rows[job].config = NoCapture
      <4>1. job \in Ids => rows[job].device = d /\ rows[job].status = "in_progress"
        BY <2>1, RowsOwned DEF Active
      <4> QED BY <1>3, <4>1 DEF Good
    <3>3. job \in Ids =>
              /\ rows'[job].device = d /\ rows'[job].status = run[d].outcome
              /\ rows'[job].config = IF run[d].outcome = "failed" THEN NoCapture
                                     ELSE run[d].capture
      BY <3>1, <3>2 DEF FinalRow
    <3>4. run[d].outcome \in Outcomes
      BY DEF TypeOK, Run
    <3> HIDE DEF job
    <3>5. \A i \in Ids' : rows'[i].config # NoCapture => rows'[i].status \in Good
      BY <1>3, <3>1, <3>3, <3>4 DEF Outcomes, Good
    <3>6. NoneSuspicious'
      <4>1. ASSUME "size" \notin setting.faults, NEW i \in Ids, NEW j \in Ids, Before(i, j)'
            PROVE  ~TooSmall(rows'[i].config, rows'[j].config)
        <5>1. i # job /\ rows'[i] = rows[i]
          BY <3>1, <4>1 DEF Before
        <5>2. CASE j = job
          <6>1. rows[i].device = d /\ rows[i].config # NoCapture /\ run[d].outcome # "failed"
            BY <3>3, <4>1, <5>1, <5>2 DEF Before
          <6>2. ASSUME NEW k \in Ids, rows[k].device = d, rows[k].config # NoCapture
                PROVE  <<i, k>> \notin older
            <7>1. k # job /\ rows'[k] = rows[k]
              BY <3>1, <3>2, <6>2
            <7>2. <<k, j>> \in older'
              BY <3>1, <5>2, <7>1
            <7>3. <<i, k>> \notin older'
              BY <3>1, <3>3, <4>1, <5>2, <6>2, <7>1, <7>2 DEF Before
            <7> QED BY <3>1, <5>1, <7>1, <7>3
          <6>3. Newest(i, d)
            BY <6>1, <6>2 DEF Newest
          <6>4. Saves(d)
            BY <2>1, <6>1 DEF Saves
          <6> QED BY <1>3, <3>3, <4>1, <5>1, <5>2, <6>1, <6>3, <6>4
        <5>3. CASE j # job
          <6>1. rows'[j] = rows[j] /\ <<i, j>> \in older
            BY <3>1, <4>1, <5>3 DEF Before
          <6>2. ASSUME NEW k \in Ids, rows[k].device = rows[j].device, rows[k].config # NoCapture
                PROVE  ~(<<i, k>> \in older /\ <<k, j>> \in older)
            <7>1. k # job /\ rows'[k] = rows[k]
              BY <3>1, <3>2, <6>2
            <7> QED BY <3>1, <4>1, <5>1, <5>3, <6>1, <6>2, <7>1 DEF Before
          <6>3. Before(i, j)
            BY <4>1, <5>1, <6>1, <6>2 DEF Before
          <6> QED BY <1>3, <4>1, <5>1, <6>1, <6>3
        <5> QED BY <5>2, <5>3
      <4> QED BY <2>1, <3>1, <4>1
    <3>7. TieInv'
      BY <1>3, <3>1 DEF TieInv
    <3>8. ASSUME NEW e \in Devices, e # d, NEW i \in Ids, Newest(i, e)'
          PROVE  Newest(i, e) /\ rows'[i] = rows[i]
      <4>1. i # job /\ rows'[i] = rows[i]
        BY <3>1, <3>3, <3>8 DEF Newest
      <4>2. ASSUME NEW k \in Ids, rows[k].device = e, rows[k].config # NoCapture
            PROVE  <<i, k>> \notin older
        <5>1. k # job /\ rows'[k] = rows[k]
          BY <3>1, <3>2, <3>8, <4>2
        <5> QED BY <3>1, <3>8, <4>1, <4>2, <5>1 DEF Newest
      <4> QED BY <3>1, <3>8, <4>1, <4>2 DEF Newest
    <3>9. Runs'
      BY <1>3, <2>1, <2>2, <3>1, <3>8
    <3> QED BY <3>5, <3>6, <3>7, <3>9
  <2> QED BY <1>8, <2>3, <2>4, RecordStep
<1>9. ASSUME Flush \/ Retention PROVE Table' /\ Runs'
  <2>1. setting' = setting /\ run' = run
    BY <1>9, DeleteStep
  <2>2. PICK keep \in SUBSET Ids : UpClosed(keep, older) /\ Keep(keep, rows, older)
    BY <1>9, DeleteStep
  <2>3. /\ Ids' = keep /\ \A i \in keep : rows'[i] = rows[i]
        /\ \A i, j : <<i, j>> \in older' <=> <<i, j>> \in older /\ i \in keep /\ j \in keep
    BY <2>2, Kept
  <2>4. \A i, j : <<i, j>> \in older /\ i \in keep => j \in keep
    BY <2>2 DEF UpClosed
  <2>5. \A i \in keep : \A d : Newest(i, d)' => Newest(i, d)
    BY <2>3, <2>4 DEF Newest
  <2>6. \A i, j \in keep : Before(i, j)' => Before(i, j)
    BY <2>3, <2>4 DEF Before
  <2>7. NoneSuspicious'
    BY <1>3, <2>1, <2>3, <2>6
  <2>8. TieInv' /\ \A i \in Ids' : rows'[i].config # NoCapture => rows'[i].status \in Good
    BY <1>3, <2>3 DEF TieInv
  <2>9. Runs'
    BY <1>3, <2>1, <2>3, <2>5 DEF Saves
  <2> QED BY <2>7, <2>8, <2>9
<1>10. ASSUME Start PROVE Table' /\ Runs'
  <2>1. setting' = setting /\ run' = run
    BY <1>10, StartStep
  <2>2. PICK S \in SUBSET Ids, keep \in SUBSET Ids :
            Keep(keep, Marked(S), Aged(S)) /\ S \subseteq Stuck /\ UpClosed(keep, Aged(S))
    BY <1>10, StartStep
  <2>3. /\ Ids' = keep /\ \A i \in keep : rows'[i] = IF i \in S THEN FailedRow(i) ELSE rows[i]
        /\ \A i, j : <<i, j>> \in older' <=> <<i, j>> \in Aged(S) /\ i \in keep /\ j \in keep
    BY <2>2, Restarted
  <2>4. \A i, j : <<i, j>> \in Aged(S) <=>
            ((<<i, j>> \in older /\ i \notin S /\ j \notin S) \/ (i \in Ids \ S /\ j \in S))
    BY DEF Aged
  <2>5. \A i \in S : rows[i].config = NoCapture
    BY <1>3, <2>2 DEF Stuck, Good
  <2>6. \A i \in Ids' : /\ i \in Ids /\ rows'[i].config = rows[i].config
                        /\ rows'[i].device = rows[i].device
                        /\ i \in S => rows'[i].status = "failed"
                        /\ i \notin S => rows'[i] = rows[i]
    <3>1. \A i : /\ FailedRow(i).config = rows[i].config /\ FailedRow(i).status = "failed"
                 /\ FailedRow(i).device = rows[i].device
      BY DEF FailedRow
    <3> QED BY <2>3, <3>1
  <2>7. \A i \in Ids' : rows'[i].config # NoCapture => rows'[i].status \in Good
    BY <1>3, <2>5, <2>6
  <2>8. ASSUME NEW i \in keep, NEW k \in Ids, rows[i].config # NoCapture,
               rows[k].config # NoCapture, <<i, k>> \in older
        PROVE  k \in keep /\ <<i, k>> \in older'
    <3>1. <<i, k>> \in Aged(S)
      BY <2>4, <2>5, <2>8
    <3>2. k \in keep
      BY <2>2, <2>8, <3>1 DEF UpClosed
    <3> QED BY <2>3, <2>8, <3>1, <3>2
  <2>9. \A i \in keep : \A d : Newest(i, d)' => Newest(i, d)
    BY <2>3, <2>6, <2>8 DEF Newest
  <2>10. ASSUME NEW i \in keep, NEW j \in keep, Before(i, j)' PROVE Before(i, j)
    <3>1. <<i, j>> \in older
      BY <2>3, <2>4, <2>5, <2>6, <2>10 DEF Before
    <3>2. ASSUME NEW k \in Ids, rows[k].device = rows[j].device, rows[k].config # NoCapture,
                 <<i, k>> \in older, <<k, j>> \in older
          PROVE  FALSE
      <4>1. rows[i].config # NoCapture /\ rows[j].config # NoCapture
        BY <2>3, <2>6, <2>10 DEF Before
      <4>2. k \in keep /\ <<i, k>> \in older' /\ <<k, j>> \in older'
        BY <2>8, <3>2, <4>1
      <4> QED BY <2>3, <2>6, <2>10, <3>2, <4>2 DEF Before
    <3> QED BY <2>3, <2>6, <2>10, <3>1, <3>2 DEF Before
  <2>11. NoneSuspicious'
    BY <1>3, <2>1, <2>3, <2>6, <2>10
  <2>12. TieInv'
    <3>1. ASSUME NEW i \in Ids', NEW j \in Ids'
          PROVE  \/ i = j \/ <<i, j>> \in older' \/ <<j, i>> \in older'
                 \/ rows'[i].status = "failed" /\ rows'[j].status = "failed"
      <4>1. \/ i = j \/ <<i, j>> \in older \/ <<j, i>> \in older
            \/ rows[i].status = "failed" /\ rows[j].status = "failed"
        BY <1>3, <2>6 DEF TieInv
      <4> QED BY <2>3, <2>4, <2>6, <4>1
    <3> QED BY <3>1 DEF TieInv
  <2>13. Runs'
    BY <1>3, <2>1, <2>3, <2>6, <2>9 DEF Saves
  <2> QED BY <2>7, <2>11, <2>12, <2>13
<1>11. ASSUME Stop \/ Exit \/ UNCHANGED vars PROVE Table' /\ Runs'
  <2>1. UNCHANGED <<table, setting>> /\ run' = run
    BY <1>11 DEF Stop, Exit, vars
  <2>2. Table' /\ Ids' = Ids /\ rows' = rows /\ setting' = setting
    BY <1>3, <1>5, <2>1
  <2>3. Runs'
    BY <1>3, <1>5, <2>1, <2>2 DEF Saves
  <2> QED BY <2>2, <2>3
<1>12. ASSUME Crash PROVE Table' /\ Runs'
  <2>1. UNCHANGED <<table, setting>> /\ \A d \in Devices : run'[d].pc = "idle"
    BY <1>12, IdleIs DEF Crash
  <2>2. Table'
    BY <1>3, <1>5, <2>1
  <2>3. Runs'
    BY <2>1 DEF Saves
  <2> QED BY <2>2, <2>3
<1> QED BY <1>6, <1>7, <1>8, <1>9, <1>10, <1>11, <1>12, Steps

-----------------------------------------------------------------------------
(***************************************************************************)
(* A device's history, as later backups and the mails see it.              *)
(***************************************************************************)
\* What is read of a history that ends with a failure.
LEMMA ReadsFailed ==
    ASSUME NEW d \in Devices, EndsFailed(d)
    PROVE  PreviousStatus(d) \subseteq {"failed"}
BY DEF EndsFailed, PreviousStatus

\* A history that ends with a failure goes on to, as long as it is not shortened and
\* only failures are added.
LEMMA EndsFailedKept ==
    ASSUME NEW d \in Devices, EndsFailed(d),
           \A i \in Completed(d) : i \in Completed(d)' /\ rows'[i] = rows[i],
           \A i \in Completed(d)' : i \in Completed(d) \/ rows'[i].status = "failed",
           \A i, j \in Completed(d) : <<i, j>> \in older => <<i, j>> \in older'
    PROVE  EndsFailed(d)'
<1>1. Completed(d)' # {}
  BY DEF EndsFailed
<1>2. ASSUME NEW i \in Youngest(Completed(d))', i \in Completed(d)
      PROVE  rows'[i].status = "failed"
  <2>1. \A j \in Completed(d)' : <<i, j>> \notin older'
    BY <1>2 DEF Youngest
  <2>2. i \in Youngest(Completed(d))
    BY <1>2, <2>1 DEF Youngest
  <2> QED BY <1>2, <2>2 DEF EndsFailed
<1>3. \A i \in Youngest(Completed(d))' : i \in Completed(d)'
  BY DEF Youngest
<1> QED BY <1>1, <1>2, <1>3 DEF EndsFailed

\* A backup that updates its row is the end of the device's history.
LEMMA RecordedLast ==
    ASSUME TypeOK, NEW d \in Devices, Update(d), run[d].job \in Ids,
           rows[run[d].job].device = d
    PROVE  /\ Completed(d)' # {}
           /\ \A i \in Youngest(Completed(d))' : rows'[i].status = run[d].outcome
<1> DEFINE job == run[d].job
<1>1. /\ Ids' = Ids /\ rows'[job] = FinalRow(d)
      /\ \A i \in Ids : i # job => <<i, job>> \in older'
  BY Updated
<1>2. rows'[job].device = d /\ rows'[job].status = run[d].outcome
  BY <1>1 DEF FinalRow
<1>3. run[d].outcome \in Outcomes
  BY DEF TypeOK, Run
<1>4. job \in Completed(d)'
  BY <1>1, <1>2, <1>3 DEF Completed
<1>5. \A i \in Youngest(Completed(d))' : i = job
  BY <1>1, <1>4 DEF Youngest, Completed
<1> QED BY <1>2, <1>4, <1>5

\* The others' histories do not notice.
LEMMA RecordedElsewhere ==
    ASSUME TypeOK, NEW d \in Devices, Update(d), NEW e \in Devices, e # d,
           run[d].job \in Ids => rows[run[d].job].device = d
    PROVE  /\ Completed(e)' = Completed(e)
           /\ \A i \in Completed(e) : rows'[i] = rows[i] /\ i # run[d].job
           /\ \A i, j \in Completed(e) : <<i, j>> \in older' <=> <<i, j>> \in older
<1> DEFINE job == run[d].job
<1>1. /\ Ids' = Ids /\ \A i \in Ids : i # job => rows'[i] = rows[i]
      /\ job \in Ids => rows'[job] = FinalRow(d)
      /\ \A i, j : <<i, j>> \in older' <=>
             \/ <<i, j>> \in older /\ i # job /\ j # job
             \/ i \in Ids /\ i # job /\ j = job /\ j \in Ids
  BY Updated
<1>2. job \in Ids => rows'[job].device = d
  BY <1>1 DEF FinalRow
<1> HIDE DEF job
<1>3. \A i \in Completed(e) : i \in Ids /\ i # job
  BY DEF Completed, job
<1>4. Completed(e)' = Completed(e)
  BY <1>1, <1>2, <1>3 DEF Completed
<1> QED BY <1>1, <1>3, <1>4 DEF job

\* A new row is not part of a history yet.
LEMMA InsertedElsewhere ==
    ASSUME TypeOK, NEW d \in Devices, NEW id \in FreeIds, Insert(d, id), NEW e \in Devices
    PROVE  /\ Completed(e)' = Completed(e)
           /\ \A i \in Completed(e) : rows'[i] = rows[i] /\ i # id
           /\ \A i, j \in Completed(e) : <<i, j>> \in older' <=> <<i, j>> \in older
<1>1. /\ id \notin Ids /\ Ids' = Ids \cup {id}
      /\ rows'[id] = NewRow(d) /\ \A i \in Ids : rows'[i] = rows[i]
      /\ \A i, j : <<i, j>> \in older' <=> (<<i, j>> \in older \/ (i \in Ids /\ j = id))
  BY Inserted
<1>2. rows'[id].status \notin Outcomes
  BY <1>1 DEF NewRow, Outcomes
<1>3. \A i \in Completed(e) : i \in Ids /\ i # id
  BY <1>1 DEF Completed
<1>4. Completed(e)' = Completed(e)
  BY <1>1, <1>2 DEF Completed
<1> QED BY <1>1, <1>3, <1>4

\* A step that leaves the table alone leaves the histories alone.
LEMMA SameTable ==
    ASSUME UNCHANGED table, NEW e \in Devices
    PROVE  /\ Completed(e)' = Completed(e) /\ Youngest(Completed(e))' = Youngest(Completed(e))
           /\ EndsFailed(e)' <=> EndsFailed(e)
BY DEF table, Completed, Youngest, EndsFailed, Ids

\* What a notification counts.
LEMMA NotifyStep ==
    ASSUME TypeOK, NEW d \in Devices, Notify(d)
    PROVE  /\ \A e \in Devices : e # d => told'[e] = told[e]
           /\ told'[d] \in {told[d], told[d] + 1}
           /\ told'[d] # told[d] => /\ run[d].outcome = "failed"
                                    /\ ShouldNotify(run[d].outcome, run[d].previous)
           /\ "smtp" \notin setting.faults /\ run[d].outcome = "failed"
              /\ ShouldNotify(run[d].outcome, run[d].previous) => told'[d] > 0
<1> DEFINE count(mailed) ==
        IF /\ mailed /\ run[d].outcome = "failed" /\ told[d] < MaxTold
           /\ ShouldNotify(run[d].outcome, run[d].previous)
        THEN told[d] + 1 ELSE told[d]
<1>1. PICK mailed \in {TRUE} \cup (IF "smtp" \in setting.faults THEN {FALSE} ELSE {}) :
          told' = [told EXCEPT ![d] = count(mailed)]
  BY DEF Notify
<1>2. told'[d] = count(mailed) /\ \A e \in Devices : e # d => told'[e] = told[e]
  BY <1>1 DEF TypeOK
<1>3. told[d] \in 0 .. 2
  BY DEF TypeOK, MaxTold
<1> HIDE DEF ShouldNotify
<1>4. ASSUME "smtp" \notin setting.faults, run[d].outcome = "failed",
             ShouldNotify(run[d].outcome, run[d].previous)
      PROVE  told'[d] > 0
  <2>1. mailed
    BY <1>1, <1>4
  <2> QED BY <1>2, <1>3, <1>4, <2>1 DEF MaxTold
<1> QED BY <1>2, <1>3, <1>4

\* Only a backup that fails makes a reported device's history end with a failure, and
\* only one that does not fail ends it otherwise, which also forgets the report.
LEMMA HistoryKeeps ==
    ASSUME TypeOK, RowInv, HistoryInv, [Next]_vars
    PROVE  HistoryInv'
<1>1. setting' = setting
  <2>1. \A d \in Devices : QuietStep(d) => setting' = setting
    BY QuietSteps DEF QuietStep, Quiet
  <2> QED BY <2>1, Steps, CreateStep, RecordStep, DeleteStep, StartStep
          DEF Stop, Exit, Crash, vars
<1>2. SUFFICES ASSUME HistoryKept, \A d \in Devices : History(d), NEW d \in Devices
               PROVE  History(d)'
  BY <1>1 DEF HistoryInv, HistoryKept
<1>3. /\ "db" \notin setting.faults /\ "flush" \notin setting.faults
      /\ "retention" \notin setting.faults
  BY <1>2 DEF HistoryKept
<1>4. \A e \in Devices : told[e] \in 0 .. 2
  BY DEF TypeOK, MaxTold
<1>5. ASSUME UNCHANGED <<table, run, told>> PROVE History(d)'
  BY <1>2, <1>5, SameTable DEF History, table, Ids
<1>6. ASSUME NEW e \in Devices, QuietStep(e) PROVE History(d)'
  <2>1. UNCHANGED table /\ Ids' = Ids /\ (EndsFailed(d)' <=> EndsFailed(d))
    BY <1>6, QuietSteps, SameTable DEF QuietStep, Quiet, table, Ids
  <2>2. CASE d # e
    <3>1. run'[d] = run[d] /\ told'[d] = told[d]
      BY <1>6, <2>2, QuietSteps, NotifyStep DEF QuietStep, Quiet, Others
    <3> QED BY <1>2, <2>1, <3>1 DEF History
  <2>3. CASE d = e
    <3>1. /\ run'[d].pc # "notify"
          /\ run'[d].pc \in Active => run[d].pc \in Active /\ run'[d].job = run[d].job
      BY <1>6, <2>3, QuietlyKept DEF RowInv, Quiet, Active
    <3>2. ASSUME told'[d] > 0 PROVE EndsFailed(d)
      <4>1. CASE Notify(d)
        <5>1. told[d] > 0 \/ (run[d].pc = "notify" /\ run[d].outcome = "failed")
          BY <1>4, <3>2, <4>1, NotifyStep, QuietSteps
        <5> QED BY <1>2, <5>1 DEF History
      <4>2. CASE told' = told
        BY <1>2, <3>2, <4>2 DEF History
      <4> QED BY <1>6, <2>3, <4>1, <4>2, QuietSteps DEF QuietStep
    <3>3. ASSUME told'[d] > 0, run'[d].pc \notin {"idle", "previous"}
          PROVE  run'[d].previous = "failed"
      <4>1. told' = told /\ run[d].pc \notin {"idle"}
            /\ \/ run[d].pc = "previous" /\ run'[d].previous \in PreviousStatus(d)
               \/ run[d].pc # "previous" /\ run'[d].previous = run[d].previous
        BY <1>3, <1>6, <2>3, <3>3, QuietSteps DEF QuietStep
      <4> QED BY <1>2, <3>3, <4>1, ReadsFailed DEF History
    <3> QED BY <1>2, <2>1, <3>1, <3>2, <3>3 DEF History
  <2> QED BY <2>2, <2>3
<1>7. ASSUME NEW e \in Devices, Create(e) PROVE History(d)'
  <2>1. /\ told' = told /\ \A f \in Devices : f # e => run'[f] = run[f]
        /\ run[e].pc = "create" /\ run'[e].pc = "fetch" /\ run'[e].previous = run[e].previous
    BY <1>7, CreateStep DEF Others
  <2>2. PICK id \in FreeIds : Insert(e, id) /\ run'[e].job = id
    BY <1>3, <1>7, CreateStep
  <2>3. EndsFailed(d) => EndsFailed(d)'
    BY <2>2, InsertedElsewhere, EndsFailedKept
  <2>4. Ids' = Ids \cup {id}
    BY <2>2, Inserted
  <2>5. run'[d].pc \in Active => run'[d].job \in Ids'
    BY <1>2, <2>1, <2>2, <2>4 DEF History
  <2> QED BY <1>2, <2>1, <2>3, <2>5 DEF History
<1>8. ASSUME NEW e \in Devices, Record(e) PROVE History(d)'
  <2>1. /\ Update(e) /\ run[e].pc = "record"
        /\ \A f \in Devices : f # e => run'[f] = run[f]
        /\ \/ run'[e].pc = "idle"
           \/ /\ run'[e].pc = "notify" /\ run'[e].outcome = run[e].outcome
              /\ run'[e].previous = run[e].previous
        /\ \A f \in Devices : f # e => told'[f] = told[f]
        /\ told'[e] = IF run[e].outcome = "failed" THEN told[e] ELSE 0
    BY <1>3, <1>8, RecordStep, IdleIs DEF Others, TypeOK
  <2>2. Ids' = Ids
    BY <2>1, Updated
  <2>3. run[e].job \in Ids /\ rows[run[e].job].device = e
    BY <1>2, <2>1, RowsOwned DEF History, Active
  <2>4. CASE d # e
    <3>1. EndsFailed(d) => EndsFailed(d)'
      BY <2>1, <2>3, <2>4, RecordedElsewhere, EndsFailedKept
    <3> QED BY <1>2, <2>1, <2>2, <2>4, <3>1 DEF History
  <2>5. CASE d = e
    <3>1. run[d].outcome = "failed" => EndsFailed(d)'
      BY <2>1, <2>3, <2>5, RecordedLast DEF EndsFailed
    <3>2. run'[d].pc \notin Active
      BY <2>1, <2>5 DEF Active
    <3> QED BY <1>2, <1>4, <2>1, <2>5, <3>1, <3>2 DEF History
  <2> QED BY <2>4, <2>5
<1>9. ASSUME Start PROVE History(d)'
  <2>1. run' = run /\ told' = told
    BY <1>9, StartStep
  <2>2. PICK S \in SUBSET Ids : Keep(Ids, Marked(S), Aged(S)) /\ S \subseteq Stuck
    BY <1>3, <1>9, StartStep
  <2>3. /\ Ids' = Ids /\ \A i \in Ids : rows'[i] = IF i \in S THEN FailedRow(i) ELSE rows[i]
        /\ \A i, j : <<i, j>> \in older' <=> <<i, j>> \in Aged(S) /\ i \in Ids /\ j \in Ids
    BY <2>2, Restarted
  <2>4. \A i \in Completed(d) : i \in Ids /\ i \notin S
    BY <2>2 DEF Completed, Stuck, Outcomes
  <2>5. \A i \in S : rows'[i].status = "failed"
    <3>1. \A i \in S : FailedRow(i).status = "failed"
      BY DEF FailedRow
    <3> QED BY <2>3, <3>1
  <2>6. \A i, j \in Completed(d) : <<i, j>> \in older => <<i, j>> \in older'
    BY <2>3, <2>4 DEF Aged
  <2>7. \A i \in Completed(d) : i \in Completed(d)' /\ rows'[i] = rows[i]
    BY <2>3, <2>4 DEF Completed
  <2>8. \A i \in Completed(d)' : i \in Completed(d) \/ rows'[i].status = "failed"
    BY <2>3, <2>5 DEF Completed
  <2>9. EndsFailed(d) => EndsFailed(d)'
    BY <2>6, <2>7, <2>8, EndsFailedKept
  <2> QED BY <1>2, <2>1, <2>3, <2>9 DEF History
<1>10. ASSUME Crash PROVE History(d)'
  <2>1. UNCHANGED <<table, told>> /\ run'[d].pc = "idle"
    BY <1>10, IdleIs DEF Crash
  <2>2. EndsFailed(d)' <=> EndsFailed(d)
    BY <2>1, SameTable
  <2> QED BY <1>2, <2>1, <2>2 DEF History, Active
<1>11. ~(Flush \/ Retention)
  BY <1>3 DEF Flush, Retention
<1>12. Stop \/ Exit \/ UNCHANGED vars => UNCHANGED <<table, run, told>>
  BY DEF Stop, Exit, vars
<1> QED BY <1>5, <1>6, <1>7, <1>8, <1>9, <1>10, <1>11, <1>12, Steps

\* A mail about a device that was reported already is not sent.
LEMMA MailsOnce ==
    ASSUME TypeOK, HistoryInv, [Next]_vars, trigger = "failure_new", HistoryKept,
           NEW d \in Devices, told'[d] > told[d]
    PROVE  told[d] = 0
<1>1. \A e \in Devices : told[e] \in 0 .. 2
  BY DEF TypeOK, MaxTold
<1>2. ASSUME NEW e \in Devices, Record(e) PROVE told'[d] \in 0 .. told[d]
  BY <1>1, <1>2, RecordStep DEF TypeOK
<1>3. ASSUME NEW e \in Devices, Notify(e) PROVE told[d] = 0
  <2>1. /\ e = d /\ run[d].outcome = "failed" /\ run[d].pc = "notify"
        /\ ShouldNotify(run[d].outcome, run[d].previous)
    BY <1>1, <1>3, NotifyStep, QuietSteps
  <2>2. run[d].previous # "failed"
    BY <2>1, NoStatusAssumption DEF ShouldNotify, Outcomes
  <2>3. told[d] > 0 /\ run[d].pc \notin {"idle", "previous"} => run[d].previous = "failed"
    BY DEF HistoryInv, History
  <2> QED BY <1>1, <2>1, <2>2, <2>3
<1>4. \A e \in Devices : QuietStep(e) => Notify(e) \/ told' = told
  BY QuietSteps DEF QuietStep
<1>5. Flush \/ Retention \/ Start \/ Stop \/ Exit \/ Crash \/ UNCHANGED vars => told' = told
  BY DEF Flush, Retention, Start, Stop, Exit, Crash, vars
<1>6. \A e \in Devices : Create(e) => told' = told
  BY CreateStep
<1> QED BY <1>1, <1>2, <1>3, <1>4, <1>5, <1>6, Steps

-----------------------------------------------------------------------------
(***************************************************************************)
(* Failures that are reported.                                             *)
(***************************************************************************)
\* Rows that go by age leave the youngest one, unless they all go.
LEMMA YoungestLeft ==
    ASSUME NEW keep \in SUBSET Ids, UpClosed(keep, older), Keep(keep, rows, older),
           NEW e \in Devices
    PROVE  /\ Completed(e)' \subseteq Completed(e)
           /\ Youngest(Completed(e))' \subseteq Youngest(Completed(e))
           /\ \A i \in Completed(e)' : rows'[i] = rows[i]
<1>1. /\ Ids' = keep /\ \A i \in keep : rows'[i] = rows[i]
      /\ \A i, j : <<i, j>> \in older' <=> <<i, j>> \in older /\ i \in keep /\ j \in keep
  BY Kept
<1>2. \A i : i \in Completed(e)' <=> i \in Completed(e) /\ i \in keep
  BY <1>1 DEF Completed
<1>3. ASSUME NEW i \in Youngest(Completed(e))' PROVE i \in Youngest(Completed(e))
  <2>1. i \in Completed(e)' /\ \A j \in Completed(e)' : <<i, j>> \notin older'
    BY <1>3 DEF Youngest
  <2>2. \A j \in Completed(e) : <<i, j>> \notin older
    BY <1>1, <1>2, <2>1 DEF UpClosed
  <2> QED BY <1>2, <2>1, <2>2 DEF Youngest
<1> QED BY <1>1, <1>2, <1>3 DEF Completed

\* Rows that stay as they are, in the same order, have the same youngest one.
LEMMA YoungestSame ==
    ASSUME NEW e \in Devices, Completed(e)' = Completed(e),
           \A i, j \in Completed(e) : <<i, j>> \in older' <=> <<i, j>> \in older
    PROVE  Youngest(Completed(e))' = Youngest(Completed(e))
BY DEF Youngest

\* The previous status is the last outcome, or forgotten, so a new failure is always
\* told: whatever is deleted, a history never ends with an outcome before the last.
LEMMA FailureReported ==
    ASSUME TypeOK, RowInv, FailureInv, [Next]_vars
    PROVE  FailureInv'
<1>1. setting' = setting
  <2>1. \A d \in Devices : QuietStep(d) => setting' = setting
    BY QuietSteps DEF QuietStep, Quiet
  <2> QED BY <2>1, Steps, CreateStep, RecordStep, DeleteStep, StartStep
          DEF Stop, Exit, Crash, vars
<1>2. SUFFICES ASSUME Undisturbed, app = "up", \A d \in Devices : Reported(d)
               PROVE  app' = "up" /\ \A d \in Devices : Reported(d)'
  BY <1>1 DEF FailureInv, Undisturbed
<1>3. /\ "db" \notin setting.faults /\ "cancel" \notin setting.faults
      /\ "crash" \notin setting.faults /\ "smtp" \notin setting.faults
  BY <1>2 DEF Undisturbed
<1>4. \A d \in Devices : told[d] \in 0 .. 2
  BY DEF TypeOK, MaxTold
<1>5. \A d \in Devices : \A i \in Youngest(Completed(d)) : i \in Completed(d)
  BY DEF Youngest
<1>6. ASSUME NEW e \in Devices, QuietStep(e) PROVE app' = app /\ \A d \in Devices : Reported(d)'
  <2>1. /\ app' = app /\ last' = last /\ Ids' = Ids /\ rows' = rows /\ older' = older
        /\ UNCHANGED table /\ \A d \in Devices : d # e => run'[d] = run[d]
    BY <1>6, QuietSteps DEF QuietStep, Quiet, Others, table, Ids
  <2>2. ~Cancel(e)
    BY <1>2, QuietSteps
  <2>3. ASSUME NEW d \in Devices
        PROVE  Completed(d)' = Completed(d) /\ Youngest(Completed(d))' = Youngest(Completed(d))
    BY <2>1, SameTable
  <2>4. ASSUME NEW d \in Devices, d # e PROVE Reported(d)'
    <3>1. told'[d] = told[d]
      BY <1>6, <2>4, QuietSteps, NotifyStep DEF QuietStep
    <3> QED BY <1>2, <2>1, <2>3, <2>4, <3>1 DEF Reported
  <2>5. CASE Notify(e)
    <3>1. run'[e].pc = "idle" /\ run[e].pc = "notify"
      BY <2>5, QuietSteps
    <3>2. ASSUME last[e] = "failed" PROVE told'[e] > 0
      <4>1. run[e].outcome = "failed"
        BY <1>2, <3>1, <3>2 DEF Reported
      <4>2. CASE run[e].previous = "failed"
        <5>1. told[e] > 0
          BY <1>2, <3>1, <3>2, <4>2 DEF Reported
        <5> QED BY <1>4, <2>5, <5>1, NotifyStep
      <4>3. CASE run[e].previous # "failed"
        <5>1. run[e].previous \in {NoStatus, "success", "no_changes"}
          BY <4>3 DEF TypeOK, Run, Outcomes
        <5>2. trigger \in {"always", "failure", "failure_new"}
          BY SettingsAssumption DEF TypeOK, Setting
        <5>3. ShouldNotify(run[e].outcome, run[e].previous)
          BY <4>1, <5>1, <5>2 DEF ShouldNotify
        <5> QED BY <1>3, <2>5, <4>1, <5>3, NotifyStep
      <4> QED BY <4>2, <4>3
    <3>3. Reported(e)'
      BY <1>2, <2>1, <2>3, <3>1, <3>2 DEF Reported, Active
    <3> QED BY <2>1, <2>4, <3>3
  <2>6. CASE Begin(e)
    <3>1. run'[e].pc = "previous" /\ run[e].pc = "idle" /\ told' = told
      BY <2>6, QuietSteps
    <3>2. Reported(e)'
      BY <1>2, <2>1, <2>3, <3>1 DEF Reported, Active
    <3> QED BY <2>1, <2>4, <3>2
  <2>7. CASE ReadPrevious(e)
    <3>1. /\ run'[e].pc = "create" /\ run[e].pc = "previous" /\ told' = told
          /\ run'[e].previous \in PreviousStatus(e)
      BY <1>3, <2>7, QuietSteps
    <3>2. run'[e].previous \in {NoStatus, last[e]}
      BY <1>2, <3>1 DEF Reported, PreviousStatus
    <3>3. Reported(e)'
      BY <1>2, <2>1, <2>3, <3>1, <3>2 DEF Reported, Active
    <3> QED BY <2>1, <2>4, <3>3
  <2>8. CASE Fetch(e) \/ Validate(e) \/ SaveConfig(e)
    <3>1. /\ run'[e].pc \in Active /\ run[e].pc \in Active /\ told' = told
          /\ run'[e].previous = run[e].previous /\ run'[e].job = run[e].job
      BY <2>8, QuietSteps DEF Active, Quiet
    <3>2. Reported(e)'
      BY <1>2, <2>1, <2>3, <3>1 DEF Reported, Active
    <3> QED BY <2>1, <2>4, <3>2
  <2> QED BY <1>6, <2>2, <2>5, <2>6, <2>7, <2>8 DEF QuietStep
<1>7. ASSUME NEW e \in Devices, Create(e) PROVE app' = app /\ \A d \in Devices : Reported(d)'
  <2>1. /\ UNCHANGED <<app, last, told>> /\ \A d \in Devices : d # e => run'[d] = run[d]
        /\ run[e].pc = "create" /\ run'[e].pc = "fetch" /\ run'[e].previous = run[e].previous
    BY <1>7, CreateStep DEF Others
  <2>2. PICK id \in FreeIds : Insert(e, id) /\ run'[e].job = id
    BY <1>3, <1>7, CreateStep
  <2>3. \A i, j : <<i, j>> \in older' <=> (<<i, j>> \in older \/ (i \in Ids /\ j = id))
    BY <2>2, Inserted
  <2>4. ASSUME NEW d \in Devices PROVE Reported(d)'
    <3>1. /\ Completed(d)' = Completed(d) /\ Youngest(Completed(d))' = Youngest(Completed(d))
          /\ \A i \in Completed(d) : i \in Ids /\ rows'[i] = rows[i]
      BY <2>2, InsertedElsewhere, YoungestSame DEF Completed
    <3>2. CASE d = e
      BY <1>2, <1>5, <2>1, <2>2, <2>3, <3>1, <3>2 DEF Reported, Active
    <3>3. CASE d # e
      BY <1>2, <1>5, <2>1, <2>3, <3>1, <3>3 DEF Reported
    <3> QED BY <3>2, <3>3
  <2> QED BY <2>1, <2>4
<1>8. ASSUME NEW e \in Devices, Record(e) PROVE app' = app /\ \A d \in Devices : Reported(d)'
  <2>1. /\ app' = app /\ Update(e) /\ run[e].pc = "record"
        /\ \A d \in Devices : d # e => run'[d] = run[d] /\ told'[d] = told[d] /\ last'[d] = last[d]
        /\ \/ run[e].outcome = "no_changes" /\ run'[e].pc = "idle"
           \/ /\ run'[e].pc = "notify" /\ run'[e].outcome = run[e].outcome
              /\ run'[e].previous = run[e].previous
        /\ last'[e] = run[e].outcome
        /\ run[e].outcome = "failed" => told'[e] = told[e]
    BY <1>3, <1>8, RecordStep, IdleIs DEF Others, TypeOK
  <2>2. run[e].job \in Ids => rows[run[e].job].device = e
    BY <2>1, RowsOwned DEF Active
  <2>3. ASSUME NEW d \in Devices, d # e PROVE Reported(d)'
    <3>1. /\ Completed(d)' = Completed(d)
          /\ \A i \in Completed(d) : rows'[i] = rows[i] /\ i # run[e].job
          /\ \A i, j \in Completed(d) : <<i, j>> \in older' <=> <<i, j>> \in older
      BY <2>1, <2>2, <2>3, RecordedElsewhere
    <3>2. Youngest(Completed(d))' = Youngest(Completed(d))
      BY <3>1, YoungestSame
    <3>3. run[d].pc \in Active => \A i \in Completed(d) : <<i, run[d].job>> \in older'
      <4>1. SUFFICES ASSUME run[d].pc \in Active, NEW i \in Completed(d)
                     PROVE  <<i, run[d].job>> \in older'
        OBVIOUS
      <4>2. <<i, run[d].job>> \in older
        BY <1>2, <4>1 DEF Reported
      <4>3. run[d].job # run[e].job
        <5>1. run[d].job \in Ids /\ NoJob \notin Ids
          BY <4>2, JobIdsAssumption DEF TypeOK, Ids
        <5> QED BY <2>3, <5>1 DEF RowInv, JobInv
      <4> QED BY <2>1, <3>1, <4>2, <4>3, Updated
    <3> QED BY <1>2, <1>5, <2>1, <2>3, <3>1, <3>2, <3>3 DEF Reported
  <2>4. Reported(e)'
    <3>1. \A i \in Youngest(Completed(e))' : rows'[i].status = last'[e]
      <4>1. CASE run[e].job \in Ids
        BY <2>1, <2>2, <4>1, RecordedLast
      <4>2. CASE run[e].job \notin Ids
        <5>1. Completed(e) = {}
          <6>1. \A i \in Completed(e) : <<i, run[e].job>> \in older
            BY <1>2, <2>1 DEF Reported, Active
          <6> QED BY <4>2, <6>1 DEF TypeOK, Ids
        <5>2. Ids' = Ids /\ \A i \in Ids : rows'[i] = rows[i]
          BY <2>1, <4>2, Updated
        <5>3. Completed(e)' = {}
          BY <5>1, <5>2 DEF Completed
        <5> QED BY <5>3 DEF Youngest
      <4> QED BY <4>1, <4>2
    <3>2. ASSUME run[e].outcome = "failed", run[e].previous = "failed" PROVE told'[e] > 0
      <4>1. last[e] = "failed"
        BY <1>2, <2>1, <3>2, NoStatusAssumption DEF Reported, Active, Outcomes
      <4> QED BY <1>2, <2>1, <3>2, <4>1 DEF Reported
    <3> QED BY <2>1, <3>1, <3>2 DEF Reported, Active
  <2> QED BY <2>1, <2>3, <2>4
<1>9. ASSUME Flush \/ Retention PROVE app' = app /\ \A d \in Devices : Reported(d)'
  <2>1. UNCHANGED <<app, run, last, told>>
    BY <1>9, DeleteStep
  <2>2. PICK keep \in SUBSET Ids : UpClosed(keep, older) /\ Keep(keep, rows, older)
    BY <1>9, DeleteStep
  <2>3. ASSUME NEW d \in Devices PROVE Reported(d)'
    <3>1. /\ Completed(d)' \subseteq Completed(d)
          /\ Youngest(Completed(d))' \subseteq Youngest(Completed(d))
          /\ \A i \in Completed(d)' : rows'[i] = rows[i] /\ i \in keep
      BY <2>2, YoungestLeft, Kept DEF Completed
    <3>2. \A i \in Youngest(Completed(d))' : i \in Completed(d)'
      BY DEF Youngest
    <3>3. \A i \in Youngest(Completed(d))' : rows'[i].status = last'[d]
      BY <1>2, <2>1, <3>1, <3>2 DEF Reported
    <3>4. \A i \in keep : \A j : <<i, j>> \in older => <<i, j>> \in older'
      BY <2>2, Kept DEF UpClosed
    <3>5. run'[d].pc \in Active => \A i \in Completed(d)' : <<i, run'[d].job>> \in older'
      BY <1>2, <2>1, <3>1, <3>4 DEF Reported
    <3> QED BY <1>2, <2>1, <3>3, <3>5 DEF Reported
  <2> QED BY <2>1, <2>3
<1>10. ~(Start \/ Stop \/ Exit \/ Crash)
  BY <1>2, <1>3 DEF Start, Stop, Exit, Crash
<1>11. ASSUME UNCHANGED vars PROVE app' = app /\ \A d \in Devices : Reported(d)'
  BY <1>2, <1>11, SameTable DEF vars, table, Reported
<1> QED BY <1>2, <1>6, <1>7, <1>8, <1>9, <1>10, <1>11, Steps

-----------------------------------------------------------------------------
(***************************************************************************)
(* The theorems.                                                           *)
(***************************************************************************)
LEMMA InitIInv == Init => IInv
<1> SUFFICES ASSUME Init PROVE IInv
  OBVIOUS
<1>1. /\ Ids = {} /\ older = {} /\ app = "up"
      /\ \A d \in Devices : run[d] = IdleRun /\ last[d] = NoStatus /\ told[d] = 0
  BY DEF Init, Ids
<1>2. /\ IdleRun \in Run /\ IdleRun.pc = "idle" /\ IdleRun.job = NoJob
  BY IdleIs
<1>3. TypeOK
  <2>1. rows \in [DOMAIN rows -> Row] /\ DOMAIN rows \subseteq JobIds
    BY <1>1 DEF Init, Ids
  <2>2. told \in [Devices -> 0 .. MaxTold]
    BY DEF Init, MaxTold
  <2> QED BY <1>1, <1>2, <2>1, <2>2 DEF TypeOK, Init, Ids
<1>4. OrderInv /\ TieInv /\ CaptureInv /\ NoSuspiciousCapture
  BY <1>1, <1>2 DEF OrderInv, TieInv, CaptureInv, NoSuspiciousCapture, Saves
<1>5. JobInv /\ RowFollowsRun /\ InProgressIsRunning /\ DoneInv
  BY <1>1, <1>2 DEF JobInv, RowFollowsRun, InProgressIsRunning, DoneInv, OwnRow, InProgress
<1>6. \A d \in Devices : Completed(d) = {}
  BY <1>1 DEF Completed
<1>7. HistoryInv
  BY <1>1, <1>2 DEF HistoryInv, History, Active
<1>8. FailureInv
  BY <1>1, <1>2, <1>6, NoStatusAssumption DEF FailureInv, Reported, Active, Youngest, Outcomes
<1> QED BY <1>3, <1>4, <1>5, <1>7, <1>8 DEF IInv

LEMMA NextIInv == IInv /\ [Next]_vars => IInv'
<1> SUFFICES ASSUME IInv, [Next]_vars PROVE IInv'
  OBVIOUS
<1>1. TypeOK /\ OrderInv /\ RowInv /\ SizeInv /\ HistoryInv /\ FailureInv
  BY DEF IInv, RowInv, SizeInv
<1>2. TypeOK' /\ OrderInv'
  BY <1>1, TypeKept, TableKept DEF SizeInv
<1>3. RowInv' /\ SizeInv'
  BY <1>1, RowsKept, SizeKept
<1>4. HistoryInv' /\ FailureInv'
  BY <1>1, HistoryKeeps, FailureReported
<1> QED BY <1>2, <1>3, <1>4 DEF IInv, RowInv, SizeInv

\* The parts together are inductive.
THEOREM Inductive == Spec => []IInv
BY InitIInv, NextIInv, PTL DEF Spec

\* The table holds one well-formed row per id, a backup validates at most twice and
\* a capture that is recorded is a configuration (backup_device, _update_job_final_status).
THEOREM TypeCorrect == Spec => []TypeOK
<1>1. IInv => TypeOK
  BY DEF IInv
<1> QED BY <1>1, Inductive, PTL

\* No recovery, flush, retention or other backup gives a running backup's row a final
\* status or another device (_create_in_progress_job to _update_job_final_status).
THEOREM RowsFollowRuns == Spec => []RowFollowsRun
<1>1. IInv => RowFollowsRun
  BY DEF IInv
<1> QED BY <1>1, Inductive, PTL

\* A row shown as in progress belongs to a backup that runs in this process, after any
\* number of shutdowns and crashes (mark_stuck_jobs_as_failed in the lifespan).
THEOREM InProgressRuns == Spec => []InProgressIsRunning
<1>1. IInv => InProgressIsRunning
  BY DEF IInv
<1> QED BY <1>1, Inductive, PTL

\* No configuration is suspiciously small after the one recorded before it, although the
\* check reads the table long before the row is written (_validate_config_capture).
THEOREM CapturesChecked == Spec => []NoSuspiciousCapture
<1>1. IInv => NoSuspiciousCapture
  BY DEF IInv
<1> QED BY <1>1, Inductive, PTL

\* A final status stays until the row is deleted (update_job, mark_stuck_jobs_as_failed).
THEOREM FinalRowsStay == Spec => FinalRowsKept
<1>1. IInv /\ [Next]_vars =>
          [\A i \in Ids \cap Ids' : rows[i].status \in Outcomes => rows'[i] = rows[i]]_vars
  BY FinalKept DEF IInv, RowInv
<1> QED BY <1>1, Inductive, PTL DEF Spec, FinalRowsKept

\* Under failure_new a device that was reported is not reported again before it works,
\* through any number of crashes, shutdowns and lost mails (send_notification).
THEOREM FailuresToldOnce == Spec => ToldOnce
<1>1. IInv /\ [Next]_vars =>
          [trigger = "failure_new" /\ HistoryKept =>
               \A d \in Devices : told'[d] > told[d] => told[d] = 0]_vars
  BY MailsOnce DEF IInv
<1> QED BY <1>1, Inductive, PTL DEF Spec, ToldOnce

\* Every failure is told under every trigger, whatever flush and retention delete, unless
\* the process stops, a mail is lost or the database fails (get_previous_completed_status,
\* send_notification); BackupPipeline_recovery_hides shows that a crash must be excluded.
THEOREM FailuresAreTold == Spec => [](Undisturbed => FailingIsTold)
<1>1. IInv => (Undisturbed => FailingIsTold)
  BY DEF IInv, FailureInv, Reported, FailingIsTold
<1> QED BY <1>1, Inductive, PTL

=============================================================================
